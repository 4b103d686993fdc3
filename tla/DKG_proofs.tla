----------------------------- MODULE DKG_proofs ------------------------------
(***************************************************************************)
(* Proofs about DKG, for every committee, threshold, queue capacity and    *)
(* number of restarts.                                                     *)
(***************************************************************************)
EXTENDS DKG, Transport_proofs

\* The envelopes that stand for a dealing that has taken place.
DealtMessage ==
  {m \in ShareMessage : m.dealer \in Node /\ m.deal <= starts[m.dealer]}

------------------------------------------------------------------------------
\* What a node may hold: numbers of dealings that have taken place.
DealtHeld ==
  {h \in Held : \A d \in Dealer : h[d] # 0 => d \in Node /\ h[d] <= starts[d]}

CountersOK ==
  /\ starts \in [Node -> 0 .. MaxStarts]
  /\ dealt \in [Node -> 0 .. CommitteeSize]
  /\ \A n \in Node : up[n] => starts[n] > 0

KeysOK ==
  /\ dkgShares \in [Node -> DealtHeld]
  /\ dealerPubKeys = dkgShares
  /\ committeePubKey \in [Node -> DealtHeld]
  /\ blsKey = committeePubKey
  /\ dkgReady \in [Node -> BOOLEAN]
  /\ \A n \in Node : HasKey(n) => /\ Complete(committeePubKey[n])
                                  /\ committeePubKey[n] = dkgShares[n]
  /\ \A n \in Node : dkgReady[n] => HasKey(n)

\* The inductive invariant.
IInv == ChannelsCarry(DealtMessage) /\ CountersOK /\ KeysOK

LEMMA NoKeyIsHeld == NoKey \in DealtHeld /\ ~Complete(NoKey)
  BY DKGAssumption DEF NoKey, DealtHeld, Held, Dealer, Complete

LEMMA InitEstablishesIInv == Init => IInv
<1> SUFFICES ASSUME Init PROVE IInv
  OBVIOUS
<1>1. ChannelsCarry(DealtMessage)
  BY TransportAssumption DEF Init, ChannelsCarry
<1>2. CountersOK
  BY DKGAssumption DEF Init, CountersOK
<1>3. KeysOK
  BY NoKeyIsHeld DEF Init, KeysOK, HasKey
<1>4. QED
  BY <1>1, <1>2, <1>3 DEF IInv

LEMMA IInvImpliesTypeOK == IInv => TypeOK
<1> SUFFICES ASSUME IInv PROVE TypeOK
  OBVIOUS
<1>1. ChannelsCarry(ShareMessage)
  BY ChannelsMonotone DEF IInv, DealtMessage
<1>2. DealtHeld \subseteq Held
  BY DEF DealtHeld
<1>3. QED
  BY <1>1, <1>2 DEF IInv, CountersOK, KeysOK, TypeOK, ChannelsCarry

------------------------------------------------------------------------------
\* Every action preserves the invariant.

LEMMA BroadcastPreserves ==
  ASSUME IInv, NEW n \in Node, BroadcastDealerShare(n)
  PROVE  IInv'
<1> DEFINE m == DealShare(n, starts[n], dealt[n])
<1>1. m \in DealtMessage
  BY DKGAssumption DEF IInv, CountersOK, BroadcastDealerShare, DealShare,
     DealtMessage, ShareMessage, Dealer, Node
<1>2. ChannelsCarry(DealtMessage)'
  <2>1. DealtMessage' = DealtMessage
    BY DEF BroadcastDealerShare, DealtMessage
  <2>2. CASE dealt[n] < NodeCount
    <3>1. {dealt[n]} \in SUBSET Node
      BY <2>2, TransportAssumption DEF IInv, CountersOK, Node
    <3>2. Publish(n, {dealt[n]}, m) /\ up' = up
      BY <2>2 DEF BroadcastDealerShare
    <3>3. \A M : ChannelsCarry(M) /\ m \in M => ChannelsCarry(M)'
      BY <3>1, <3>2, PublishType
    <3>4. QED
      BY <1>1, <2>1, <3>3 DEF IInv
  <2>3. CASE ~(dealt[n] < NodeCount)
    BY <2>1, <2>3 DEF BroadcastDealerShare, IInv, ChannelsCarry
  <2>4. QED
    BY <2>2, <2>3
<1>3. CountersOK'
  BY DKGAssumption DEF IInv, CountersOK, BroadcastDealerShare
<1>4. KeysOK'
  BY DEF IInv, KeysOK, BroadcastDealerShare, DealtHeld, HasKey
<1>5. QED
  BY <1>2, <1>3, <1>4 DEF IInv

\* What KeepFirst stores for a dealing that has taken place.
LEMMA KeepFirstHeld ==
  ASSUME NEW h \in DealtHeld, NEW m \in DealtMessage
  PROVE  KeepFirst(h, m.dealer, m.deal) \in DealtHeld
  BY DEF KeepFirst, DealtHeld, Held, DealtMessage, ShareMessage

\* A map that holds something from every dealer is changed no more.
LEMMA KeepFirstComplete ==
  ASSUME NEW h, Complete(h), NEW d \in Dealer, NEW k
  PROVE  KeepFirst(h, d, k) = h
  BY DEF KeepFirst, Complete

LEMMA OnDealSharePreserves ==
  ASSUME IInv, NEW n \in Node, OnDealShare(n)
  PROVE  IInv'
<1> DEFINE m == Head(inCh[n])
           shares == KeepFirst(dkgShares[n], m.dealer, m.deal)
           finalize == Complete(shares) /\ ~HasKey(n)
<1>1. m \in DealtMessage /\ ChannelsCarry(DealtMessage)'
  <2>1. \A M : ChannelsCarry(M) => m \in M /\ ChannelsCarry(M)'
    BY ConsumeType DEF OnDealShare, Received
  <2>2. DealtMessage' = DealtMessage
    BY DEF OnDealShare, DealtMessage
  <2>3. QED
    BY <2>1, <2>2 DEF IInv
<1>2. CountersOK'
  BY DEF IInv, CountersOK, OnDealShare
<1>3. KeysOK'
  <2>1. DealtHeld' = DealtHeld
    BY DEF OnDealShare, DealtHeld
  <2>2. CASE m.recipient = n /\ m.dealer \in Dealer
    <3>1. /\ dkgShares' = [dkgShares EXCEPT ![n] = shares]
          /\ dealerPubKeys' = dkgShares'
          /\ committeePubKey' =
               IF finalize THEN [committeePubKey EXCEPT ![n] = shares]
                           ELSE committeePubKey
          /\ blsKey' = committeePubKey'
          /\ dkgReady' = dkgReady
      <4>1. /\ dealerPubKeys[n] = dkgShares[n]
            /\ dealerPubKeys = dkgShares
            /\ blsKey = committeePubKey
        BY DEF IInv, KeysOK
      <4>2. AddDealerKey(dealerPubKeys[n], m.dealer, m.deal) = shares
        BY <4>1 DEF AddDealerKey
      <4>3. /\ dkgShares' = [dkgShares EXCEPT ![n] = shares]
            /\ dealerPubKeys' = [dealerPubKeys EXCEPT ![n] = shares]
            /\ dkgReady' = dkgReady
        BY <2>2, <4>2 DEF OnDealShare
      <4>4. /\ committeePubKey' =
                 IF finalize THEN [committeePubKey EXCEPT ![n] = shares]
                             ELSE committeePubKey
            /\ blsKey' = IF finalize THEN [blsKey EXCEPT ![n] = shares]
                                     ELSE blsKey
        BY <2>2, <4>2 DEF OnDealShare
      <4>5. QED
        BY <4>1, <4>3, <4>4
    <3>2. shares \in DealtHeld
      BY <1>1, KeepFirstHeld DEF IInv, KeysOK
    <3>3. HasKey(n) => shares = dkgShares[n]
      BY <2>2, KeepFirstComplete DEF IInv, KeysOK
    <3>4. dkgShares' \in [Node -> DealtHeld]
          /\ committeePubKey' \in [Node -> DealtHeld]
      BY <3>1, <3>2 DEF IInv, KeysOK
    <3>5. ASSUME NEW p \in Node, HasKey(p)'
          PROVE  /\ Complete(committeePubKey[p])'
                 /\ committeePubKey'[p] = dkgShares'[p]
      <4>1. CASE p = n
        BY <3>1, <3>3, <3>5, <4>1 DEF IInv, KeysOK, HasKey, Complete
      <4>2. CASE p # n
        BY <3>1, <3>5, <4>2 DEF IInv, KeysOK, HasKey, Complete
      <4>3. QED
        BY <4>1, <4>2
    <3>6. ASSUME NEW p \in Node, HasKey(p)
          PROVE  HasKey(p)'
      <4>1. CASE p = n
        BY <3>1, <3>6, <4>1 DEF HasKey
      <4>2. CASE p # n
        BY <3>1, <3>6, <4>2 DEF IInv, KeysOK, HasKey
      <4>3. QED
        BY <4>1, <4>2
    <3>7. QED
      BY <2>1, <3>1, <3>4, <3>5, <3>6 DEF IInv, KeysOK
  <2>3. CASE ~(m.recipient = n /\ m.dealer \in Dealer)
    BY <2>1, <2>3 DEF OnDealShare, IInv, KeysOK, HasKey, Complete
  <2>4. QED
    BY <2>2, <2>3
<1>4. QED
  BY <1>1, <1>2, <1>3 DEF IInv

LEMMA MarkReadyPreserves ==
  ASSUME IInv, NEW n \in Node, MarkReady(n)
  PROVE  IInv'
<1>1. ChannelsCarry(DealtMessage)' /\ CountersOK'
  BY DEF IInv, ChannelsCarry, CountersOK, MarkReady, transportVars,
     DealtMessage
<1>2. KeysOK'
  BY DEF IInv, KeysOK, MarkReady, Finalizing, HasKey, Complete, DealtHeld
<1>3. QED
  BY <1>1, <1>2 DEF IInv

LEMMA CrashPreserves ==
  ASSUME IInv, NEW n \in Node, Crash(n)
  PROVE  IInv'
<1>1. ChannelsCarry(DealtMessage)'
  <2>1. \A M : ChannelsCarry(M) => ChannelsCarry(M)'
    BY StopProcessType DEF Crash
  <2>2. DealtMessage' = DealtMessage
    BY DEF Crash, DealtMessage
  <2>3. QED
    BY <2>1, <2>2 DEF IInv
<1>2. CountersOK'
  BY DKGAssumption
     DEF IInv, CountersOK, ChannelsCarry, Crash, StopProcess
<1>3. KeysOK'
  <2>1. DealtHeld' = DealtHeld
    BY DEF Crash, DealtHeld
  <2>2. QED
    BY <2>1, NoKeyIsHeld DEF IInv, KeysOK, Crash, HasKey, Complete
<1>4. QED
  BY <1>1, <1>2, <1>3 DEF IInv

LEMMA StartPreserves ==
  ASSUME IInv, NEW n \in Node, Start(n)
  PROVE  IInv'
<1>1. /\ starts' \in [Node -> 0 .. MaxStarts]
      /\ \A p \in Node : starts[p] <= starts'[p]
      /\ starts'[n] > 0
  BY DKGAssumption DEF IInv, CountersOK, Start
<1>2. DealtMessage \subseteq DealtMessage' /\ DealtHeld \subseteq DealtHeld'
  BY <1>1, DKGAssumption
     DEF IInv, CountersOK, DealtMessage, ShareMessage, DealtHeld, Held
<1>3. ChannelsCarry(DealtMessage)'
  <2>1. ChannelsCarry(DealtMessage')
    BY <1>2, ChannelsMonotone DEF IInv
  <2>2. QED
    BY <2>1 DEF ChannelsCarry, Start, StartProcess
<1>4. CountersOK'
  BY <1>1 DEF IInv, CountersOK, ChannelsCarry, Start, StartProcess
<1>5. KeysOK'
  BY <1>2 DEF IInv, KeysOK, Start, HasKey, Complete
<1>6. QED
  BY <1>3, <1>4, <1>5 DEF IInv

\* A step that changes only the channels.
LEMMA ChannelStepPreserves ==
  ASSUME IInv, UNCHANGED <<up, dkgVars>>,
         \A M : ChannelsCarry(M) => ChannelsCarry(M)'
  PROVE  IInv'
<1>1. DealtMessage' = DealtMessage /\ DealtHeld' = DealtHeld
  BY DEF dkgVars, DealtMessage, DealtHeld
<1>2. KeysOK'
  BY <1>1 DEF IInv, KeysOK, dkgVars, HasKey, Complete
<1>3. QED
  BY <1>1, <1>2 DEF IInv, CountersOK, dkgVars

LEMMA NextPreservesIInv == IInv /\ [Next]_vars => IInv'
<1> SUFFICES ASSUME IInv, [Next]_vars PROVE IInv'
  OBVIOUS
<1>1. ASSUME NEW n \in Node, BroadcastDealerShare(n) PROVE IInv'
  BY <1>1, BroadcastPreserves
<1>2. ASSUME NEW n \in Node, OnDealShare(n) PROVE IInv'
  BY <1>2, OnDealSharePreserves
<1>3. ASSUME NEW n \in Node, MarkReady(n) PROVE IInv'
  BY <1>3, MarkReadyPreserves
<1>4. ASSUME NEW n \in Node, Crash(n) PROVE IInv'
  BY <1>4, CrashPreserves
<1>5. ASSUME NEW n \in Node, Start(n) PROVE IInv'
  BY <1>5, StartPreserves
<1>6. CASE Transfer
  <2>1. PICK f \in net : ReadLoop(f) /\ UNCHANGED dkgVars
    BY <1>6 DEF Transfer
  <2>2. \A M : ChannelsCarry(M) => ChannelsCarry(M)'
    BY <2>1, ReadLoopType
  <2>3. QED
    BY <2>1, <2>2, ChannelStepPreserves DEF ReadLoop
<1>7. CASE Loss
  <2>1. PICK f \in net : LoseFrame(f) /\ UNCHANGED dkgVars
    BY <1>7 DEF Loss
  <2>2. \A M : ChannelsCarry(M) => ChannelsCarry(M)'
    BY <2>1, LoseFrameType
  <2>3. QED
    BY <2>1, <2>2, ChannelStepPreserves DEF LoseFrame
<1>8. CASE UNCHANGED vars
  <2>1. \A M : ChannelsCarry(M) => ChannelsCarry(M)'
    BY <1>8 DEF ChannelsCarry, vars, transportVars
  <2>2. QED
    BY <1>8, <2>1, ChannelStepPreserves DEF vars, transportVars
<1>9. QED
  BY <1>1, <1>2, <1>3, <1>4, <1>5, <1>6, <1>7, <1>8 DEF Next

THEOREM IInvIsInvariant == Spec => []IInv
  BY InitEstablishesIInv, NextPreservesIInv, PTL DEF Spec

------------------------------------------------------------------------------
\* Every variable keeps its type, whatever is lost and whoever restarts.
THEOREM TypeCorrect == Spec => []TypeOK
  BY IInvIsInvariant, IInvImpliesTypeOK, PTL

\* A node signs with a share of exactly the dealings its committee key sums.
THEOREM KeyMatches == Spec => []SigningKeyMatchesCommitteeKey
<1>1. IInv => SigningKeyMatchesCommitteeKey
  BY DEF IInv, KeysOK, Complete, SigningKeyMatchesCommitteeKey
<1>2. QED
  BY <1>1, IInvIsInvariant, PTL

\* Two committee keys differ in the part of a dealer only if it restarted.
THEOREM OnlyRestartSplitsKey == Spec => []OnlyRestartedDealerSplitsKey
<1>1. IInv => OnlyRestartedDealerSplitsKey
  <2> SUFFICES ASSUME IInv,
                      NEW m \in Node, NEW n \in Node, NEW d \in Dealer \cap Node,
                      HasKey(m), HasKey(n), ~(starts[d] > 1)
               PROVE  committeePubKey[m][d] = committeePubKey[n][d]
    BY DEF OnlyRestartedDealerSplitsKey
  <2>1. ASSUME NEW p \in Node, HasKey(p)
        PROVE  committeePubKey[p][d] = 1
    <3>1. /\ committeePubKey[p] \in DealtHeld
          /\ Complete(committeePubKey[p])
      BY <2>1 DEF IInv, KeysOK
    <3>2. /\ committeePubKey[p][d] \in 0 .. MaxStarts
          /\ committeePubKey[p][d] # 0
          /\ committeePubKey[p][d] <= starts[d]
      BY <3>1 DEF DealtHeld, Held, Complete
    <3>3. starts[d] \in 0 .. MaxStarts
      BY DEF IInv, CountersOK
    <3>4. QED
      BY <3>2, <3>3, DKGAssumption
  <2>2. QED
    BY <2>1
<1>2. QED
  BY <1>1, IInvIsInvariant, PTL

\* What a running process has accepted and computed is never replaced.
THEOREM AcceptedStays == Spec => AcceptedIsFinal
<1>1. ASSUME IInv, [Next]_vars, NEW n \in Node, up'[n]
      PROVE  KeepsAccepted(n)
  <2>1. CASE UNCHANGED <<dkgShares, dealerPubKeys, blsKey, committeePubKey,
                         dkgReady>>
    BY <2>1 DEF KeepsAccepted, HasKey
  <2>2. ASSUME NEW p \in Node, OnDealShare(p)
        PROVE  KeepsAccepted(n)
    <3>1. ASSUME NEW h \in [Dealer -> Nat], NEW d, NEW k,
                 NEW e \in Dealer, h[e] # 0
          PROVE  KeepFirst(h, d, k)[e] = h[e]
      BY <3>1 DEF KeepFirst
    <3>2. dkgShares[n] \in [Dealer -> Nat] /\ dealerPubKeys[n] \in [Dealer -> Nat]
      BY <1>1, DKGAssumption DEF IInv, KeysOK, DealtHeld, Held
    <3>3. \A d \in Dealer :
            /\ dkgShares[n][d] # 0 => dkgShares'[n][d] = dkgShares[n][d]
            /\ dealerPubKeys[n][d] # 0 =>
                 dealerPubKeys'[n][d] = dealerPubKeys[n][d]
      BY <1>1, <2>2, <3>1, <3>2 DEF OnDealShare, AddDealerKey, IInv, KeysOK
    <3>4. HasKey(n) => /\ committeePubKey'[n] = committeePubKey[n]
                       /\ blsKey'[n] = blsKey[n]
      BY <1>1, <2>2 DEF OnDealShare, IInv, KeysOK
    <3>5. dkgReady' = dkgReady
      BY <2>2 DEF OnDealShare
    <3>6. QED
      BY <3>3, <3>4, <3>5 DEF KeepsAccepted
  <2>3. ASSUME NEW p \in Node, MarkReady(p)
        PROVE  KeepsAccepted(n)
    BY <1>1, <2>3 DEF MarkReady, KeepsAccepted, IInv, KeysOK
  <2>4. ASSUME NEW p \in Node, Crash(p)
        PROVE  KeepsAccepted(n)
    <3>1. p # n
      BY <1>1, <2>4 DEF Crash, StopProcess, IInv, ChannelsCarry
    <3>2. QED
      BY <1>1, <2>4, <3>1 DEF Crash, KeepsAccepted, IInv, KeysOK
  <2>5. QED
    BY <1>1, <2>1, <2>2, <2>3, <2>4
       DEF Next, vars, dkgVars, BroadcastDealerShare, Start, Transfer, Loss
<1>2. IInv /\ [Next]_vars => [\A n \in Node : up'[n] => KeepsAccepted(n)]_vars
  BY <1>1
<1>3. QED
  BY <1>2, IInvIsInvariant, PTL DEF Spec, AcceptedIsFinal

\* While every process starts at most once, the committee learns one key.
THEOREM LearnsOneKey == MaxStarts = 1 => (Spec => ImplementsCommitteeKey)
<1> SUFFICES ASSUME MaxStarts = 1 PROVE Spec => ImplementsCommitteeKey
  OBVIOUS
<1>1. Init => Abstract!Init
  BY DEF Init, Abstract!Init
<1>2. ASSUME IInv, [Next]_vars
      PROVE  [Abstract!Next]_<<committeePubKey, dkgReady>>
  <2>1. CASE UNCHANGED <<committeePubKey, dkgReady>>
    BY <2>1
  <2>2. ASSUME NEW n \in Node, OnDealShare(n),
               ~ UNCHANGED <<committeePubKey, dkgReady>>
        PROVE  Abstract!Learn(n)
    <3>1. ~HasKey(n) /\ HasKey(n)' /\ dkgReady' = dkgReady
          /\ committeePubKey' =
               [committeePubKey EXCEPT ![n] = committeePubKey'[n]]
      <4>1. committeePubKey' # committeePubKey /\ dkgReady' = dkgReady
        BY <2>2 DEF OnDealShare
      <4>2. PICK k : /\ committeePubKey' = [committeePubKey EXCEPT ![n] = k]
                     /\ Complete(k) /\ ~HasKey(n)
        BY <2>2, <4>1 DEF OnDealShare
      <4>3. committeePubKey'[n] = k
        BY <1>2, <4>2 DEF IInv, KeysOK
      <4>4. QED
        BY <4>1, <4>2, <4>3, NoKeyIsHeld DEF HasKey
    <3>2. committeePubKey'[n] = FirstKey
      <4>1. IInv'
        BY <1>2, NextPreservesIInv
      <4>2. committeePubKey'[n] \in Held /\ Complete(committeePubKey'[n])
        BY <3>1, <4>1 DEF IInv, KeysOK, DealtHeld, Held, HasKey, Complete
      <4>3. \A d \in Dealer : committeePubKey'[n][d] = 1
        BY <4>2 DEF Held, Complete
      <4>4. QED
        BY <4>2, <4>3 DEF Held, FirstKey
    <3>3. QED
      BY <3>1, <3>2 DEF Abstract!Learn, HasKey
  <2>3. ASSUME NEW n \in Node, MarkReady(n)
        PROVE  Abstract!Announce(n)
    <3>1. committeePubKey[n] \in Held /\ Complete(committeePubKey[n])
      BY <1>2, <2>3 DEF MarkReady, Finalizing, IInv, KeysOK, DealtHeld
    <3>2. \A d \in Dealer : committeePubKey[n][d] = 1
      BY <3>1 DEF Held, Complete
    <3>3. committeePubKey[n] = FirstKey
      BY <3>1, <3>2 DEF Held, FirstKey
    <3>4. QED
      BY <2>3, <3>3 DEF MarkReady, Abstract!Announce
  <2>4. ASSUME NEW n \in Node, Crash(n)
        PROVE  Abstract!Forget(n)
    BY <2>4 DEF Crash, Abstract!Forget
  <2>5. QED
    BY <1>2, <2>1, <2>2, <2>3, <2>4
       DEF Next, vars, dkgVars, BroadcastDealerShare, Start, Transfer, Loss,
           Abstract!Next
<1>3. QED
  BY <1>1, <1>2, IInvIsInvariant, PTL
     DEF Spec, ImplementsCommitteeKey, Abstract!Spec
==============================================================================
