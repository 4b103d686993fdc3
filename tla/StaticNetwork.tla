---------------------------- MODULE StaticNetwork -----------------------------
(***************************************************************************)
(* The connections behind the transport (internal/p2p/static.go): the dial *)
(* loop of every peer with its heartbeat, the table of writers, the read   *)
(* loops on both ends of a connection, Publish, and Stop.                  *)
(*                                                                         *)
(* A node writes only on the connections it dialled, so frames travel from *)
(* the dialler to the acceptor.  The dialler reads its connection too, and *)
(* learns in that way that the other end is closed.                        *)
(*                                                                         *)
(* Data.  A frame is its envelope.  A connection between two nodes is one  *)
(* of MaxConns numbers, free again when both ends are closed.  A link is a *)
(* pair <<n, p>>: the dial loop of n for p.                                *)
(***************************************************************************)
EXTENDS Naturals, Sequences, SequencesExt

CONSTANTS
  NodeCount,     \* number of nodes
  Dials,         \* pairs <<n, p>>: p is in static_node_addrs of n
  QueueCap,      \* capacity of inCh
  MayPublish,    \* the nodes that publish
  MayStop,       \* the nodes that may be told to stop (a signal)
  MayCrash,      \* the nodes whose process may end without notice
  MaxStarts,     \* bound: how often a process of one node is started
  MaxConns,      \* bound: connections of one link that are not quite closed
  MaxPublished   \* bound: envelopes a node publishes

Node == 0 .. NodeCount - 1

ASSUME StaticNetworkAssumption ==
  /\ NodeCount \in Nat \ {0}
  /\ Dials \subseteq Node \X Node
  /\ QueueCap \in Nat \ {0}
  /\ MayPublish \subseteq Node
  /\ MayStop \subseteq Node /\ MayCrash \subseteq Node
  /\ MaxStarts \in Nat \ {0} /\ MaxConns \in Nat \ {0} /\ MaxPublished \in Nat

VARIABLES
  phase,       \* phase[n]: how far the process of n is in its life
  starts,      \* starts[n]: processes of node n started so far
  dial,        \* dial[l]: where a dial loop is
  watched,     \* watched[l]: the connection it has dialled, or 0
  writers,     \* writers[l]: the connection registered for the peer, or 0
  conn,        \* conn[l][c]: the two ends of connection c, and its frames
  inCh,        \* inCh[n]: the inbound channel
  publishing,  \* publishing[n]: the calls of Publish going on
  published,   \* published[n]: envelopes published, or about to be
  sent         \* ghost: envelopes whose Publish got past the closed check

connVars == <<dial, watched, writers, conn>>
callVars == <<publishing, published, sent>>
vars == <<phase, starts, connVars, inCh, callVars>>

\* A node does not dial itself.
Link == {l \in Dials : l[1] # l[2]}
Conn == 1 .. MaxConns

\* running; the context is cancelled; Stop has closed n.closed and the
\* listener; it has closed the writers; it has closed inCh; there is no process.
Phase == {"running", "cancelled", "closed", "swept", "stopped", "off"}

\* n.listener accepts connections, and n.closed is open.
Open(n) == phase[n] \in {"running", "cancelled"}

\* There is a process of n.
Alive == [n \in Node |-> phase[n] # "off"]

\* Both ends closed.  dialer: the dialler's end is open, and reader: its
\* readLoop has not returned; acceptor: the other end.
NoConn ==
  [dialer |-> FALSE, reader |-> FALSE, acceptor |-> "closed", frames |-> <<>>]

NewConn ==
  [dialer |-> TRUE, reader |-> TRUE, acceptor |-> "backlog", frames |-> <<>>]

\* Envelopes: to everybody or to one node.
Envelope ==
  [from : Node, to : {Node} \cup {{p} : p \in Node}, no : 1 .. MaxPublished]

\* A frame written to the peer of l can arrive: there is a writer, its
\* connection is open here, and not closed there.
Usable(l) ==
  /\ writers[l] # 0
  /\ conn[l][writers[l]].dialer
  /\ conn[l][writers[l]].acceptor # "closed"

------------------------------------------------------------------------------
\* The frames that may still arrive: on a connection, or of a Publish that
\* has not written them yet and will find the writer it needs.
OnConn(l) ==
  UNION {{[dst |-> l[2], env |-> e] : e \in ToSet(conn[l][c].frames)} : c \in Conn}

ToWrite(l) ==
  {[dst |-> l[2], env |-> call.env] :
     call \in {k \in publishing[l[1]] :
                 k.at = "write" /\ l[2] \in k.left /\ Usable(l)}}

InFlight == UNION {OnConn(l) \cup ToWrite(l) : l \in Link}

Abstract == INSTANCE LossyTransport
              WITH Lossy <- TRUE, up <- Alive, net <- InFlight

------------------------------------------------------------------------------
Init ==
  /\ phase \in [Node -> {"running", "off"}]
  /\ starts = [n \in Node |-> IF Alive[n] THEN 1 ELSE 0]
  /\ dial = [l \in Link |-> IF Alive[l[1]] THEN "check" ELSE "done"]
  /\ watched = [l \in Link |-> 0]
  /\ writers = [l \in Link |-> 0]
  /\ conn = [l \in Link |-> [c \in Conn |-> NoConn]]
  /\ inCh = [n \in Node |-> <<>>]
  /\ publishing = [n \in Node |-> {}]
  /\ published = [n \in Node |-> 0]
  /\ sent = {}

(***************************************************************************)
(* dialLoop.                                                               *)
(***************************************************************************)
\* No Publish of n holds n.mu for reading, so it can be locked.
Unlocked(n) == \A call \in publishing[n] : call.at # "write"

\* Mutant: the loop does not look whether the node is stopping.
AgainUnlessStopping(n) == "dialing"

\* What a dial loop does next at its top: it returns when the context is
\* cancelled or n.closed is closed.
Again(n) == IF phase[n] = "running" THEN "dialing" ELSE "done"

CheckStop(l) ==
  /\ dial[l] = "check"
  /\ dial' = [dial EXCEPT ![l] = Again(l[1])]
  /\ UNCHANGED <<phase, starts, watched, writers, conn, inCh, callVars>>

\* setWriter: a connection registered before is closed.
SetWriter(l, c) ==
  /\ writers' = [writers EXCEPT ![l] = c]
  /\ conn' = [conn EXCEPT ![l] =
       [k \in Conn |-> IF k = c THEN NewConn
                       ELSE IF k = writers[l] THEN [@[k] EXCEPT !.dialer = FALSE]
                       ELSE @[k]]]

\* DialTimeout succeeds, and the connection is registered.
DialSucceeds(l) ==
  /\ dial[l] = "dialing"
  /\ Open(l[2])
  /\ Unlocked(l[1])
  /\ \E c \in Conn :
       /\ conn[l][c] = NoConn
       /\ \A k \in 1 .. c - 1 : conn[l][k] # NoConn
       /\ SetWriter(l, c)
       /\ dial' = [dial EXCEPT ![l] = "watching"]
       /\ watched' = [watched EXCEPT ![l] = c]
  /\ UNCHANGED <<phase, starts, inCh, callVars>>

\* Nobody listens there: after the back-off the loop begins again.
DialFails(l) ==
  /\ dial[l] = "dialing"
  /\ ~Open(l[2])
  /\ dial' = [dial EXCEPT ![l] = "check"]
  /\ UNCHANGED <<phase, starts, watched, writers, conn, inCh, callVars>>

Watching(l) == dial[l] = "watching"

\* Mutant: the heartbeat finds every connection alive.
AlwaysAlive(l) == TRUE

\* isConnAlive: a deadline can be set on a connection that is not closed.
IsConnAlive(l) == conn[l][watched[l]].dialer

\* Mutant: the connection is taken off the table and left open.
OnlyClearWriter(l) ==
  /\ writers' = [writers EXCEPT ![l] = IF @ = watched[l] THEN 0 ELSE @]
  /\ UNCHANGED conn

\* clearWriter and Close.
DropConn(l) ==
  /\ writers' = [writers EXCEPT ![l] = IF @ = watched[l] THEN 0 ELSE @]
  /\ conn' = [conn EXCEPT ![l][watched[l]].dialer = FALSE]

\* The watching loop ends: the node stops, or the heartbeat has found the
\* connection dead, and the loop dials again.
LeaveConn(l) ==
  /\ Watching(l)
  /\ phase[l[1]] # "running" \/ ~IsConnAlive(l)
  /\ Unlocked(l[1])
  /\ DropConn(l)
  /\ dial' = [dial EXCEPT ![l] =
                IF phase[l[1]] = "running" THEN "check" ELSE "done"]
  /\ watched' = [watched EXCEPT ![l] = 0]
  /\ UNCHANGED <<phase, starts, inCh, callVars>>

(***************************************************************************)
(* The heartbeat sets a read deadline of now and takes it back.  A         *)
(* readLoop that reads, or is woken, in between fails, although nothing is *)
(* wrong with the connection, and closes it.                               *)
(***************************************************************************)
HeartbeatInterrupts(l) ==
  /\ Watching(l)
  /\ phase[l[1]] = "running"
  /\ IsConnAlive(l)
  /\ conn[l][watched[l]].reader
  /\ conn' = [conn EXCEPT ![l][watched[l]].dialer = FALSE,
                          ![l][watched[l]].reader = FALSE]
  /\ UNCHANGED <<phase, starts, dial, watched, writers, inCh, callVars>>

------------------------------------------------------------------------------
(***************************************************************************)
(* acceptLoop and readLoop.                                                *)
(***************************************************************************)
Accept(l, c) ==
  /\ conn[l][c].acceptor = "backlog"
  /\ Open(l[2])
  /\ conn' = [conn EXCEPT ![l][c].acceptor = "open"]
  /\ UNCHANGED <<phase, starts, dial, watched, writers, inCh, callVars>>

\* The dialler's readLoop returns: its end is closed, or the other one is.
DialerReadEnds(l, c) ==
  /\ conn[l][c].reader
  /\ ~conn[l][c].dialer \/ conn[l][c].acceptor = "closed"
  /\ conn' = [conn EXCEPT ![l][c].reader = FALSE, ![l][c].dialer = FALSE]
  /\ UNCHANGED <<phase, starts, dial, watched, writers, inCh, callVars>>

\* Mutant: the channel has no bound.
PushInboundUnbounded(n, env) == inCh' = [inCh EXCEPT ![n] = Append(@, env)]

\* pushInbound while n.closed is closed may as well see that and return.
PushInbound(n, env) ==
  \/ inCh' = [inCh EXCEPT ![n] = Abstract!PushInbound(@, env)]
  \/ ~Open(n) /\ UNCHANGED inCh

\* The acceptor's readLoop reads a frame.
AcceptorReads(l, c) ==
  /\ conn[l][c].acceptor = "open"
  /\ conn[l][c].frames # <<>>
  /\ PushInbound(l[2], Head(conn[l][c].frames))
  /\ conn' = [conn EXCEPT ![l][c].frames = Tail(@)]
  /\ UNCHANGED <<phase, starts, dial, watched, writers, callVars>>

\* The acceptor's readLoop reaches the end of the connection.
AcceptorReadEnds(l, c) ==
  /\ conn[l][c].acceptor = "open"
  /\ conn[l][c].frames = <<>>
  /\ ~conn[l][c].dialer
  /\ conn' = [conn EXCEPT ![l][c].acceptor = "closed"]
  /\ UNCHANGED <<phase, starts, dial, watched, writers, inCh, callVars>>

\* The main loop of the service takes an envelope.
Take(n) ==
  /\ Alive[n]
  /\ inCh[n] # <<>>
  /\ inCh' = [inCh EXCEPT ![n] = Tail(@)]
  /\ UNCHANGED <<phase, starts, connVars, callVars>>

------------------------------------------------------------------------------
(***************************************************************************)
(* Publish, called by the main loop, the DKG goroutine or a control        *)
(* goroutine: the check of n.closed, the local copy, then one write after  *)
(* the other with n.mu held for reading.                                   *)
(***************************************************************************)
\* Mutant: an envelope to one node is written to all of them.
PeersAll(n, to) == {p \in Node : <<n, p>> \in Link}

\* The peers a call has to write to.
Peers(n, to) == {p \in to : <<n, p>> \in Link}

PublishCall(n, to) ==
  /\ n \in MayPublish
  /\ Open(n)
  /\ published[n] < MaxPublished
  /\ published' = [published EXCEPT ![n] = @ + 1]
  /\ LET env == [from |-> n, to |-> to, no |-> published'[n]]
     IN  publishing' = [publishing EXCEPT ![n] =
                          @ \cup {[at |-> "push", env |-> env, left |-> Peers(n, to)]}]
  /\ UNCHANGED <<phase, starts, connVars, inCh, sent>>

\* The call is over when no peer is left.
Continue(n, call, next) ==
  publishing' = [publishing EXCEPT ![n] =
                   (@ \ {call}) \cup (IF next.left = {} THEN {} ELSE {next})]

PublishPush(n, call) ==
  /\ call \in publishing[n]
  /\ call.at = "push"
  /\ IF n \in call.env.to
       THEN IF phase[n] = "stopped" THEN UNCHANGED inCh
                                    ELSE PushInbound(n, call.env)
       ELSE UNCHANGED inCh
  /\ Continue(n, call, [call EXCEPT !.at = "write"])
  /\ sent' = sent \cup {call.env}
  /\ UNCHANGED <<phase, starts, connVars, published>>

PublishWrite(n, call, p) ==
  LET l == <<n, p>>
      c == writers[l]
  IN  /\ call \in publishing[n]
      /\ call.at = "write" /\ p \in call.left
      /\ conn' = IF Usable(l)
                   THEN [conn EXCEPT ![l][c].frames = Append(@, call.env)]
                   ELSE conn
      /\ Continue(n, call, [call EXCEPT !.left = @ \ {p}])
      /\ UNCHANGED <<phase, starts, dial, watched, writers, inCh, published, sent>>

------------------------------------------------------------------------------
(***************************************************************************)
(* The life of a process.                                                  *)
(***************************************************************************)
\* A signal cancels the context; the dial loops see it, Stop is not called yet.
Cancel(n) ==
  /\ n \in MayStop
  /\ phase[n] = "running"
  /\ phase' = [phase EXCEPT ![n] = "cancelled"]
  /\ UNCHANGED <<starts, connVars, inCh, callVars>>

\* Stop closes n.closed and the listener: connections that were not accepted
\* are reset.
CloseListener(n) ==
  /\ phase[n] = "cancelled"
  /\ phase' = [phase EXCEPT ![n] = "closed"]
  /\ conn' = [l \in Link |-> [c \in Conn |->
       IF l[2] = n /\ conn[l][c].acceptor = "backlog"
         THEN [conn[l][c] EXCEPT !.acceptor = "closed", !.frames = <<>>]
         ELSE conn[l][c]]]
  /\ UNCHANGED <<starts, dial, watched, writers, inCh, callVars>>

\* Stop closes every registered connection.
CloseWriters(n) ==
  /\ phase[n] = "closed"
  /\ Unlocked(n)
  /\ phase' = [phase EXCEPT ![n] = "swept"]
  /\ conn' = [l \in Link |-> [c \in Conn |->
       IF l[1] = n /\ writers[l] = c THEN [conn[l][c] EXCEPT !.dialer = FALSE]
                                     ELSE conn[l][c]]]
  /\ writers' = [l \in Link |-> IF l[1] = n THEN 0 ELSE writers[l]]
  /\ UNCHANGED <<starts, dial, watched, inCh, callVars>>

\* Mutant: the read loops of accepted connections are not counted.
OwnLoopsDone(n) ==
  \A l \in Link : l[1] = n => /\ dial[l] = "done"
                              /\ \A c \in Conn : ~conn[l][c].reader

\* n.stopWg is zero: all dial loops and read loops of n have returned.
LoopsDone(n) ==
  \A l \in Link :
    /\ l[1] = n => /\ dial[l] = "done"
                   /\ \A c \in Conn : ~conn[l][c].reader
    /\ l[2] = n => \A c \in Conn : conn[l][c].acceptor # "open"

\* Stop waits for stopWg and closes inCh.
StopReturns(n) ==
  /\ phase[n] = "swept"
  /\ LoopsDone(n)
  /\ phase' = [phase EXCEPT ![n] = "stopped"]
  /\ UNCHANGED <<starts, connVars, inCh, callVars>>

\* Nothing of the process is left: the system closes its ends.
EndProcess(n) ==
  /\ phase' = [phase EXCEPT ![n] = "off"]
  /\ dial' = [l \in Link |-> IF l[1] = n THEN "done" ELSE dial[l]]
  /\ watched' = [l \in Link |-> IF l[1] = n THEN 0 ELSE watched[l]]
  /\ writers' = [l \in Link |-> IF l[1] = n THEN 0 ELSE writers[l]]
  /\ conn' = [l \in Link |-> [c \in Conn |->
       IF l[1] = n THEN [conn[l][c] EXCEPT !.dialer = FALSE, !.reader = FALSE]
       ELSE IF l[2] = n THEN [conn[l][c] EXCEPT !.acceptor = "closed",
                                                !.frames = <<>>]
       ELSE conn[l][c]]]
  /\ inCh' = [inCh EXCEPT ![n] = <<>>]
  /\ publishing' = [publishing EXCEPT ![n] = {}]
  /\ UNCHANGED <<starts, published, sent>>

\* The stopped process has finished its calls and returns from main.
Exit(n) ==
  /\ phase[n] = "stopped"
  /\ publishing[n] = {}
  /\ EndProcess(n)

\* A call that passed the check of n.closed before Stop sends on the closed
\* inCh: the process panics.
PanicOnClosedChannel(n) ==
  /\ phase[n] = "stopped"
  /\ \E call \in publishing[n] : call.at = "push" /\ n \in call.env.to
  /\ EndProcess(n)

Crash(n) ==
  /\ n \in MayCrash
  /\ Alive[n]
  /\ EndProcess(n)

\* NewStaticNetwork and Start.
Start(n) ==
  /\ phase[n] = "off"
  /\ starts[n] < MaxStarts
  /\ starts' = [starts EXCEPT ![n] = @ + 1]
  /\ phase' = [phase EXCEPT ![n] = "running"]
  /\ dial' = [l \in Link |-> IF l[1] = n THEN "check" ELSE dial[l]]
  /\ UNCHANGED <<watched, writers, conn, inCh, callVars>>

------------------------------------------------------------------------------
DialLoop(l) ==
  CheckStop(l) \/ DialSucceeds(l) \/ DialFails(l) \/ LeaveConn(l)

ReadLoops(l, c) ==
  \/ Accept(l, c)
  \/ DialerReadEnds(l, c)
  \/ AcceptorReads(l, c)
  \/ AcceptorReadEnds(l, c)

PublishStep(n) ==
  \E call \in publishing[n] : \/ PublishPush(n, call)
                              \/ \E p \in call.left : PublishWrite(n, call, p)

Stop(n) ==
  CloseListener(n) \/ CloseWriters(n) \/ StopReturns(n) \/ Exit(n)

Next ==
  \/ \E l \in Link : \/ DialLoop(l)
                     \/ HeartbeatInterrupts(l)
                     \/ \E c \in Conn : ReadLoops(l, c)
  \/ \E n \in Node : \/ Take(n)
                     \/ \E to \in {Node} \cup {{p} : p \in Node} : PublishCall(n, to)
                     \/ PublishStep(n)
                     \/ Cancel(n)
                     \/ Stop(n)
                     \/ PanicOnClosedChannel(n)
                     \/ Crash(n)
                     \/ Start(n)

Spec == Init /\ [][Next]_vars

(***************************************************************************)
(* Every goroutine that can go on does.  Nothing is assumed of signals,    *)
(* crashes, starts, calls, nor of how the heartbeat meets a readLoop.      *)
(***************************************************************************)
Fairness ==
  /\ \A l \in Link : /\ WF_vars(DialLoop(l))
                     /\ \A c \in Conn : WF_vars(ReadLoops(l, c))
  /\ \A n \in Node : WF_vars(PublishStep(n)) /\ WF_vars(Stop(n))

FairSpec == Spec /\ Fairness

------------------------------------------------------------------------------
(***************************************************************************)
(* Properties.                                                             *)
(***************************************************************************)
ConnState ==
  [dialer : BOOLEAN, reader : BOOLEAN, acceptor : {"backlog", "open", "closed"},
   frames : Seq(Envelope)]

Call == [at : {"push", "write"}, env : Envelope, left : SUBSET Node]

\* Type correctness, which includes the capacity of the inbound channel.
TypeOK ==
  /\ phase \in [Node -> Phase]
  /\ starts \in [Node -> 0 .. MaxStarts]
  /\ dial \in [Link -> {"check", "dialing", "watching", "done"}]
  /\ watched \in [Link -> {0} \cup Conn]
  /\ writers \in [Link -> {0} \cup Conn]
  /\ conn \in [Link -> [Conn -> ConnState]]
  /\ inCh \in [Node -> Seq(Envelope)]
  /\ \A n \in Node : Len(inCh[n]) <= QueueCap
  /\ publishing \in [Node -> SUBSET Call]
  /\ published \in [Node -> 0 .. MaxPublished]
  /\ sent \subseteq Envelope

\* The connections implement the transport the protocols are built on: with
\* redials, broken connections, restarts and Stop at any moment an envelope
\* reaches only nodes it is addressed to, each of them at most once.
ImplementsTransport == Abstract!Spec

\* Every connection a node has open on its side is the one its dial loop
\* watches, and so is the registered one: setWriter never meets another
\* connection, and no redial or Stop leaves a connection open that nobody
\* watches.
OpenConnIsWatched ==
  \A l \in Link :
    /\ writers[l] # 0 => watched[l] = writers[l]
    /\ \A c \in Conn : conn[l][c].dialer => watched[l] = c

\* After Stop has closed inCh, and for good, no loop of the node can send on
\* it: connections accepted, or dialled, while Stop was at work are waited for
\* as well.  What is left is a Publish that began before Stop.
NoLoopSendsOnClosedChannel ==
  \A n \in Node : phase[n] = "stopped" =>
    \A l \in Link, c \in Conn :
      /\ l[1] = n => dial[l] = "done" /\ ~conn[l][c].dialer /\ ~conn[l][c].reader
      /\ l[2] = n => conn[l][c].acceptor = "closed"

\* When all nodes have been told to stop, Stop returns at all of them: the read
\* loops of accepted connections, which Stop does not close, end because the
\* dialler closes its end.
EverybodyStops ==
  (\A n \in Node : phase[n] # "running")
    ~> \/ \E n \in Node : phase[n] = "running"
       \/ \A n \in Node : phase[n] \in {"stopped", "off"}

\* As long as two nodes go on running, each has again and again a usable
\* connection to the other, whatever crashes and restarts came before and
\* however often the heartbeat breaks a connection.
Reconnects ==
  \A l \in Link :
    <>[](phase[l[1]] = "running" /\ phase[l[2]] = "running") => []<>Usable(l)
==============================================================================
