--------------------------- MODULE Transport_proofs ---------------------------
(***************************************************************************)
(* What the operators of Transport keep, whatever set of envelopes a       *)
(* protocol sends: the lemmas its proofs share.                            *)
(***************************************************************************)
EXTENDS Transport, TLAPS

\* Only envelopes of M are in flight or queued, and no queue is over capacity.
ChannelsCarry(M) ==
  /\ up \in [Node -> BOOLEAN]
  /\ net \subseteq [dst : Node, env : M]
  /\ inCh \in [Node -> Seq(M)]
  /\ \A n \in Node : Len(inCh[n]) <= QueueCap

LEMMA PushInboundType ==
  ASSUME NEW M, NEW q \in Seq(M), NEW env \in M, Len(q) <= QueueCap
  PROVE  /\ PushInbound(q, env) \in Seq(M)
         /\ Len(PushInbound(q, env)) <= QueueCap
  BY TransportAssumption DEF PushInbound

LEMMA PublishType ==
  ASSUME NEW M, ChannelsCarry(M), NEW n \in Node, NEW to \in SUBSET Node,
         NEW env \in M, Publish(n, to, env), up' = up
  PROVE  ChannelsCarry(M)'
<1>1. net' \subseteq [dst : Node, env : M]
  BY DEF ChannelsCarry, Publish, Frame
<1>2. /\ inCh' \in [Node -> Seq(M)]
      /\ \A p \in Node : Len(inCh'[p]) <= QueueCap
  BY PushInboundType DEF ChannelsCarry, Publish
<1>3. QED
  BY <1>1, <1>2 DEF ChannelsCarry

LEMMA ReadLoopType ==
  ASSUME NEW M, ChannelsCarry(M), NEW f \in net, ReadLoop(f)
  PROVE  ChannelsCarry(M)'
<1>1. f.dst \in Node /\ f.env \in M
  BY DEF ChannelsCarry
<1>2. /\ inCh' \in [Node -> Seq(M)]
      /\ \A p \in Node : Len(inCh'[p]) <= QueueCap
  BY <1>1, PushInboundType DEF ChannelsCarry, ReadLoop
<1>3. QED
  BY <1>2 DEF ChannelsCarry, ReadLoop

LEMMA ConsumeType ==
  ASSUME NEW M, ChannelsCarry(M), NEW n \in Node, inCh[n] # <<>>,
         inCh' = Consume(n), UNCHANGED <<up, net>>
  PROVE  /\ ChannelsCarry(M)'
         /\ Head(inCh[n]) \in M
<1>1. inCh[n] \in Seq(M) /\ Len(inCh[n]) <= QueueCap
  BY DEF ChannelsCarry
<1>2. /\ Tail(inCh[n]) \in Seq(M)
      /\ Len(Tail(inCh[n])) <= QueueCap
      /\ Head(inCh[n]) \in M
  BY <1>1, TransportAssumption
<1>3. QED
  BY <1>2 DEF ChannelsCarry, Consume

LEMMA StopProcessType ==
  ASSUME NEW M, ChannelsCarry(M), NEW n \in Node, StopProcess(n)
  PROVE  ChannelsCarry(M)'
  BY TransportAssumption DEF ChannelsCarry, StopProcess

LEMMA LoseFrameType ==
  ASSUME NEW M, ChannelsCarry(M), NEW f \in net, LoseFrame(f)
  PROVE  ChannelsCarry(M)'
  BY DEF ChannelsCarry, LoseFrame

LEMMA ChannelsMonotone ==
  ASSUME NEW M, NEW L, M \subseteq L, ChannelsCarry(M)
  PROVE  ChannelsCarry(L)
  BY DEF ChannelsCarry
================================================================================
