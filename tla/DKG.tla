--------------------------------- MODULE DKG ---------------------------------
(***************************************************************************)
(* The key generation every node runs when it starts                       *)
(* (internal/committee/service.go: startDKG, broadcastDealerShares,        *)
(* onDealShare, finalizeDKG).                                              *)
(*                                                                         *)
(* Two seconds after its start a process samples a secret, splits it and   *)
(* publishes one share to each member, once.  A node keeps the first share *)
(* and the first dealer key it sees of every dealer; holding all of them,  *)
(* it sums the shares into its signing key and the dealer keys into the    *)
(* committee key.  Nothing is persisted: a restarted process samples a new *)
(* secret and starts from empty maps.                                      *)
(*                                                                         *)
(* Data.  A dealing (one secret and its polynomial) is named by its dealer *)
(* and the number of the process start that sampled it, counted from 1.    *)
(* The share and the public key of that dealing carry that number; a sum   *)
(* over the dealers is the function from each dealer to the number used,   *)
(* and 0 stands for "nothing from this dealer".                            *)
(***************************************************************************)
EXTENDS Transport, FiniteSets

CONSTANTS
  CommitteeSize,  \* cfg.CommitteeSize
  Threshold,      \* cfg.Threshold
  MayCrash,       \* the nodes whose process may end
  MaxStarts       \* bound: how often a process of one node is started

\* config.Validate, as far as it constrains these values: it does not relate
\* committee_size to the number of static_nodes.
ASSUME DKGAssumption ==
  /\ CommitteeSize \in Nat \ {0}
  /\ Threshold \in 1 .. CommitteeSize
  /\ MayCrash \subseteq Node
  /\ MaxStarts \in Nat \ {0}

VARIABLES
  starts,          \* starts[n]: processes of node n started so far
  dealt,           \* dealt[n]: shares the DKG goroutine has gone through
  dkgShares,       \* dkgShares[n][d]: dealing whose share n holds from d
  dealerPubKeys,   \* dealerPubKeys[n][d]: dealing whose key n holds from d
  blsKey,          \* blsKey[n]: the private key in s.bls (sum of shares)
  committeePubKey, \* committeePubKey[n]: sum of the dealer keys
  dkgReady         \* dkgReady[n]: the channel is closed

dkgVars == <<starts, dealt, dkgShares, dealerPubKeys, blsKey,
             committeePubKey, dkgReady>>

vars == <<transportVars, dkgVars>>

Dealer == 0 .. CommitteeSize - 1

\* Nothing from any dealer: an empty map, a nil private key, no committee key.
NoKey == [d \in Dealer |-> 0]

HasKey(n) == committeePubKey[n] # NoKey

\* Mutant: the secret is sampled again for every recipient.
DealShareSampledPerRecipient(d, k, r) ==
  [type |-> "DealShare", dealer |-> d, deal |-> k + r, recipient |-> r]

\* The share of r in dealing k of dealer d, with the key of that dealing.
DealShare(d, k, r) ==
  [type |-> "DealShare", dealer |-> d, deal |-> k, recipient |-> r]

------------------------------------------------------------------------------
\* Any set of nodes may be running already when the first share is dealt.
Init ==
  /\ up \in [Node -> BOOLEAN]
  /\ net = {}
  /\ inCh = [n \in Node |-> <<>>]
  /\ starts = [n \in Node |-> IF up[n] THEN 1 ELSE 0]
  /\ dealt = [n \in Node |-> 0]
  /\ dkgShares = [n \in Node |-> NoKey]
  /\ dealerPubKeys = [n \in Node |-> NoKey]
  /\ blsKey = [n \in Node |-> NoKey]
  /\ committeePubKey = [n \in Node |-> NoKey]
  /\ dkgReady = [n \in Node |-> FALSE]

(***************************************************************************)
(* One round of the loop over the shares in broadcastDealerShares.  The    *)
(* function returns an error before the loop when the node has no place in *)
(* the committee, or when share.Split refuses the threshold.  A share of a *)
(* member that is not in static_nodes is skipped.                          *)
(***************************************************************************)
BroadcastDealerShare(n) ==
  /\ up[n]
  /\ n < CommitteeSize
  /\ Threshold >= 2
  /\ dealt[n] < CommitteeSize
  /\ dealt' = [dealt EXCEPT ![n] = @ + 1]
  /\ IF dealt[n] < NodeCount
       THEN Publish(n, {dealt[n]}, DealShare(n, starts[n], dealt[n]))
       ELSE UNCHANGED <<net, inCh>>
  /\ UNCHANGED <<up, starts, dkgShares, dealerPubKeys, blsKey,
                 committeePubKey, dkgReady>>

\* Mutant: a later value for a dealer replaces the earlier one.
KeepLast(held, d, k) == [held EXCEPT ![d] = k]

\* The first value stored for a dealer stays.
KeepFirst(held, d, k) == IF held[d] = 0 THEN [held EXCEPT ![d] = k] ELSE held

\* Likewise for the dealer keys, with a check of its own.
AddDealerKey(held, d, k) == KeepFirst(held, d, k)

\* Mutant: a threshold of dealers is taken to be enough.
CompleteAtThreshold(held) ==
  Cardinality({d \in Dealer : held[d] # 0}) >= Threshold

\* len(m) == cfg.CommitteeSize, for a map whose keys are members.
Complete(held) == \A d \in Dealer : held[d] # 0

\* The main loop is between the unlock in finalizeDKG and close(readyCh).
Finalizing(n) == HasKey(n) /\ ~dkgReady[n]

(***************************************************************************)
(* onDealShare, with the call to finalizeDKG it makes when both maps are   *)
(* complete.  finalizeDKG installs s.bls and the committee key under one   *)
(* lock, unless a committee key is there already.                          *)
(***************************************************************************)
OnDealShare(n) ==
  /\ Received(n)
  /\ ~Finalizing(n)
  /\ LET m == Head(inCh[n])
         shares == KeepFirst(dkgShares[n], m.dealer, m.deal)
         pubs == AddDealerKey(dealerPubKeys[n], m.dealer, m.deal)
         finalize == Complete(shares) /\ Complete(pubs) /\ ~HasKey(n)
     IN  /\ m.type = "DealShare"
         /\ IF m.recipient = n /\ m.dealer \in Dealer
              THEN /\ dkgShares' = [dkgShares EXCEPT ![n] = shares]
                   /\ dealerPubKeys' = [dealerPubKeys EXCEPT ![n] = pubs]
                   /\ blsKey' = IF finalize
                                  THEN [blsKey EXCEPT ![n] = shares]
                                  ELSE blsKey
                   /\ committeePubKey' =
                        IF finalize
                          THEN [committeePubKey EXCEPT ![n] = pubs]
                          ELSE committeePubKey
              ELSE UNCHANGED <<dkgShares, dealerPubKeys, blsKey,
                               committeePubKey>>
  /\ inCh' = Consume(n)
  /\ UNCHANGED <<up, net, starts, dealt, dkgReady>>

\* The end of finalizeDKG, after the unlock: close(readyCh).
MarkReady(n) ==
  /\ up[n]
  /\ Finalizing(n)
  /\ dkgReady' = [dkgReady EXCEPT ![n] = TRUE]
  /\ UNCHANGED <<transportVars, starts, dealt, dkgShares, dealerPubKeys,
                 blsKey, committeePubKey>>

\* The process ends; all its state was in memory.
Crash(n) ==
  /\ n \in MayCrash
  /\ StopProcess(n)
  /\ dealt' = [dealt EXCEPT ![n] = 0]
  /\ dkgShares' = [dkgShares EXCEPT ![n] = NoKey]
  /\ dealerPubKeys' = [dealerPubKeys EXCEPT ![n] = NoKey]
  /\ blsKey' = [blsKey EXCEPT ![n] = NoKey]
  /\ committeePubKey' = [committeePubKey EXCEPT ![n] = NoKey]
  /\ dkgReady' = [dkgReady EXCEPT ![n] = FALSE]
  /\ UNCHANGED starts

\* NewService and Start: a late first start, or a restart.
Start(n) ==
  /\ starts[n] < MaxStarts
  /\ StartProcess(n)
  /\ starts' = [starts EXCEPT ![n] = @ + 1]
  /\ UNCHANGED <<dealt, dkgShares, dealerPubKeys, blsKey, committeePubKey,
                 dkgReady>>

Transfer == \E f \in net : ReadLoop(f) /\ UNCHANGED dkgVars

Loss == \E f \in net : LoseFrame(f) /\ UNCHANGED dkgVars

Next ==
  \/ \E n \in Node : \/ BroadcastDealerShare(n)
                     \/ OnDealShare(n)
                     \/ MarkReady(n)
                     \/ Crash(n)
                     \/ Start(n)
  \/ Transfer
  \/ Loss

Spec == Init /\ [][Next]_vars

(***************************************************************************)
(* The goroutines of a running process are scheduled: the DKG goroutine,   *)
(* the main loop and the readLoops.  Nothing obliges an operator to start  *)
(* a process, nor a process to end.                                        *)
(***************************************************************************)
Fairness ==
  /\ \A n \in Node : /\ WF_vars(BroadcastDealerShare(n))
                     /\ WF_vars(OnDealShare(n))
                     /\ WF_vars(MarkReady(n))
  /\ WF_vars(Transfer)

FairSpec == Spec /\ Fairness

------------------------------------------------------------------------------
(***************************************************************************)
(* Properties.                                                             *)
(***************************************************************************)
ShareMessage ==
  [type : {"DealShare"}, dealer : Dealer, deal : 1 .. MaxStarts,
   recipient : Dealer]

Held == [Dealer -> 0 .. MaxStarts]

\* Type correctness, which includes the capacity of the inbound channel.
TypeOK ==
  /\ up \in [Node -> BOOLEAN]
  /\ net \subseteq [dst : Node, env : ShareMessage]
  /\ inCh \in [Node -> Seq(ShareMessage)]
  /\ \A n \in Node : Len(inCh[n]) <= QueueCap
  /\ starts \in [Node -> 0 .. MaxStarts]
  /\ dealt \in [Node -> 0 .. CommitteeSize]
  /\ dkgShares \in [Node -> Held]
  /\ dealerPubKeys \in [Node -> Held]
  /\ blsKey \in [Node -> Held]
  /\ committeePubKey \in [Node -> Held]
  /\ dkgReady \in [Node -> BOOLEAN]

\* A node that has a committee key, and so every node that reports it is
\* ready, signs with a key share of exactly the dealings that committee key
\* sums, one from every dealer, whatever was lost and whoever restarted.
SigningKeyMatchesCommitteeKey ==
  \A n \in Node :
    /\ dkgReady[n] => HasKey(n)
    /\ blsKey[n] = committeePubKey[n]
    /\ HasKey(n) => \A d \in Dealer : committeePubKey[n][d] # 0

\* Two nodes disagree about the part of a dealer in the committee key only if
\* the process of that dealer was restarted: losses, overflows, late starts
\* and crashes of others cannot split the key.
OnlyRestartedDealerSplitsKey ==
  \A m, n \in Node : \A d \in Dealer \cap Node :
    (HasKey(m) /\ HasKey(n) /\ committeePubKey[m][d] # committeePubKey[n][d])
      => starts[d] > 1

\* A step leaves what process n has accepted from the dealers, the keys it
\* has computed and its closed ready channel as they are.
KeepsAccepted(n) ==
  /\ \A d \in Dealer :
       /\ dkgShares[n][d] # 0 => dkgShares'[n][d] = dkgShares[n][d]
       /\ dealerPubKeys[n][d] # 0 => dealerPubKeys'[n][d] = dealerPubKeys[n][d]
  /\ HasKey(n) => /\ committeePubKey'[n] = committeePubKey[n]
                  /\ blsKey'[n] = blsKey[n]
  /\ dkgReady[n] => dkgReady'[n]

\* No step of anybody changes what a process that goes on running has
\* accepted, even when a dealer restarts and deals again.
AcceptedIsFinal == [][\A n \in Node : up'[n] => KeepsAccepted(n)]_vars

\* When every node is running from the beginning and none stops, the key
\* generation completes at every one of them.
KeyGenerationCompletes ==
  (\A n \in Node : up[n]) /\ [](\A n \in Node : up[n])
    => <>(\A n \in Node : dkgReady[n])

\* CommitteePublicKey (service.go:462) "returns the fixed committee-level
\* public key once DKG is complete": two nodes whose key generation is
\* complete return the same key.
FixedCommitteeKey ==
  \A m, n \in Node :
    dkgReady[m] /\ dkgReady[n] => committeePubKey[m] = committeePubKey[n]

\* The key the first dealings of all dealers add up to.
FirstKey == [d \in Dealer |-> 1]

Abstract == INSTANCE CommitteeKey
              WITH Key <- FirstKey, None <- NoKey, key <- committeePubKey,
                   ready <- dkgReady

\* While every process is started at most once, the committee learns one key:
\* the key generation implements CommitteeKey.
ImplementsCommitteeKey == Abstract!Spec
==============================================================================
