------------------------------ MODULE Transport ------------------------------
(***************************************************************************)
(* The transport as the committee service sees it: Publish and the inbound *)
(* channel returned by Subscribe (internal/p2p/static.go).                 *)
(*                                                                         *)
(* Every node dials every other one.  Publish writes a frame to the peer   *)
(* connections it has at that moment and forgets it: nothing is queued for *)
(* a peer without a connection, nothing is acknowledged, nothing is sent   *)
(* again.  A frame on a connection is either read by the peer's readLoop   *)
(* or lost with the connection.  Frames in flight are a set, without an    *)
(* order: two goroutines may be inside Publish at the same time, each      *)
(* walking over the writers in the random order of the map, and after a    *)
(* redial two connections from one node to another drain at the same time. *)
(* Frames accepted by a node wait in its inbound channel, which is FIFO    *)
(* and bounded.  A frame is never duplicated.                              *)
(***************************************************************************)
EXTENDS Naturals, Sequences

CONSTANTS
  NodeCount,  \* number of static_nodes; a node is named by its position there
  QueueCap,   \* capacity of the inbound channel inCh (512 in the code)
  Lossy       \* TRUE when a connection may break with frames in flight

ASSUME TransportAssumption ==
  /\ NodeCount \in Nat \ {0}
  /\ QueueCap \in Nat \ {0}
  /\ Lossy \in BOOLEAN

VARIABLES
  up,    \* up[n]: the process of node n is running
  net,   \* frames written to a connection and not yet read
  inCh   \* inCh[n]: the frames in the inbound channel of node n

transportVars == <<up, net, inCh>>

Node == 0 .. NodeCount - 1

\* A frame on a connection to dst; env is the envelope.
Frame(n, env) == [dst |-> n, env |-> env]

\* Mutant: the channel has no bound.
PushInboundUnbounded(queue, env) == Append(queue, env)

\* pushInbound: a non-blocking send, which drops the envelope when the
\* channel is full.
PushInbound(queue, env) ==
  IF Len(queue) < QueueCap THEN Append(queue, env) ELSE queue

\* Mutant: an envelope to everybody, or to the sender, gets no local copy.
PublishToPeersOnly(n, to, env) ==
  /\ net' = net \cup {Frame(p, env) : p \in {q \in to \ {n} : up[q]}}
  /\ UNCHANGED inCh

(***************************************************************************)
(* Publish by node n of an envelope addressed to the set of nodes to (one  *)
(* node, or all of them when Envelope.To is empty).  The sender's own copy *)
(* goes straight to its inbound channel; a peer whose process is not       *)
(* running has no connection and gets nothing.                             *)
(***************************************************************************)
Publish(n, to, env) ==
  /\ inCh' = IF n \in to
               THEN [inCh EXCEPT ![n] = PushInbound(@, env)]
               ELSE inCh
  /\ net' = net \cup {Frame(p, env) : p \in {q \in to \ {n} : up[q]}}

\* readLoop at the destination reads one frame and pushes it inbound.
ReadLoop(f) ==
  /\ f \in net
  /\ net' = net \ {f}
  /\ inCh' = [inCh EXCEPT ![f.dst] = PushInbound(@, f.env)]
  /\ UNCHANGED up

\* The connection breaks, or had no registered writer when Publish looked.
LoseFrame(f) ==
  /\ Lossy
  /\ f \in net
  /\ net' = net \ {f}
  /\ UNCHANGED <<up, inCh>>

\* The main loop of node n takes the next envelope from its channel.
Received(n) == up[n] /\ inCh[n] # <<>>

Consume(n) == [inCh EXCEPT ![n] = Tail(@)]

\* The process of node n ends: its channel and the frames on their way to
\* it are gone.  Frames it has already written may still arrive.
StopProcess(n) ==
  /\ up[n]
  /\ up' = [up EXCEPT ![n] = FALSE]
  /\ net' = {f \in net : f.dst # n}
  /\ inCh' = [inCh EXCEPT ![n] = <<>>]

\* The process of node n starts with an empty channel.
StartProcess(n) ==
  /\ ~up[n]
  /\ up' = [up EXCEPT ![n] = TRUE]
  /\ UNCHANGED <<net, inCh>>
==============================================================================
