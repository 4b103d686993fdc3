------------------------- MODULE StaticNetwork_proofs -------------------------
(***************************************************************************)
(* Proofs about StaticNetwork, for every number of nodes and connections,  *)
(* whoever dials whom, and with any number of signals, crashes and         *)
(* restarts.                                                               *)
(***************************************************************************)
EXTENDS StaticNetwork, TLAPS

\* The process no longer has, or has not yet, a loop that uses the network.
Quiet(n) == phase[n] \in {"stopped", "off"}

\* The dialler's side of a link: it watches a connection exactly when it says
\* so, the registered writer is the one it watches, a connection open at this
\* end is the watched one and has its readLoop, and a process that has waited
\* for its loops has none.
DialerOK(l) ==
  /\ dial[l] = "watching" <=> watched[l] # 0
  /\ writers[l] # 0 => watched[l] = writers[l]
  /\ \A c \in Conn :
       conn[l][c].dialer => watched[l] = c /\ conn[l][c].reader
  /\ Quiet(l[1]) => /\ dial[l] = "done"
                    /\ \A c \in Conn : ~conn[l][c].reader

\* The acceptor's side: connections wait to be accepted only where somebody
\* listens, and a process that has waited for its loops has closed its ends.
AcceptorOK(l) ==
  /\ \A c \in Conn : conn[l][c].acceptor = "backlog" => Open(l[2])
  /\ Quiet(l[2]) => \A c \in Conn : conn[l][c].acceptor = "closed"

\* The inductive invariant.
IInv == TypeOK /\ \A l \in Link : DialerOK(l) /\ AcceptorOK(l)

LEMMA LinkType ==
  ASSUME NEW l \in Link
  PROVE  l[1] \in Node /\ l[2] \in Node /\ l[1] # l[2]
  BY StaticNetworkAssumption DEF Link

LEMMA NoConnType == NoConn \in ConnState /\ NewConn \in ConnState
  BY DEF NoConn, NewConn, ConnState

\* A connection whose acceptor's end is closed, with what was on its way.
LEMMA ResetType ==
  ASSUME NEW k \in ConnState,
         NEW r, r = [k EXCEPT !.acceptor = "closed", !.frames = <<>>]
  PROVE  /\ r \in ConnState /\ r.acceptor = "closed" /\ r.frames = <<>>
         /\ r.dialer = k.dialer /\ r.reader = k.reader
<1>1. <<>> \in Seq(Envelope)
  OBVIOUS
<1>2. r = [dialer |-> k.dialer, reader |-> k.reader, acceptor |-> "closed",
           frames |-> <<>>]
  BY DEF ConnState
<1>3. QED
  BY <1>1, <1>2 DEF ConnState

\* pushInbound keeps the channel within its capacity.
LEMMA PushInboundType ==
  ASSUME TypeOK, NEW n \in Node, NEW env \in Envelope, PushInbound(n, env)
  PROVE  /\ inCh' \in [Node -> Seq(Envelope)]
         /\ \A p \in Node : Len(inCh'[p]) <= QueueCap
<1>1. CASE inCh' = [inCh EXCEPT ![n] = Abstract!PushInbound(@, env)]
  <2>1. inCh[n] \in Seq(Envelope) /\ Len(inCh[n]) <= QueueCap
    BY DEF TypeOK
  <2>2. /\ Abstract!PushInbound(inCh[n], env) \in Seq(Envelope)
        /\ Len(Abstract!PushInbound(inCh[n], env)) <= QueueCap
    BY <2>1, StaticNetworkAssumption DEF Abstract!PushInbound
  <2>3. QED
    BY <1>1, <2>2 DEF TypeOK
<1>2. CASE UNCHANGED inCh
  BY <1>2 DEF TypeOK
<1>3. QED
  BY <1>1, <1>2 DEF PushInbound

\* A step that leaves the links alone and the phases as they are, or moves a
\* node between phases that make no difference to its links.
LEMMA LinksUntouched ==
  ASSUME IInv, UNCHANGED connVars,
         \A n \in Node : /\ Quiet(n)' => Quiet(n)
                         /\ Open(n) => Open(n)'
  PROVE  \A l \in Link : DialerOK(l)' /\ AcceptorOK(l)'
<1> SUFFICES ASSUME NEW l \in Link PROVE DialerOK(l)' /\ AcceptorOK(l)'
  OBVIOUS
<1>1. DialerOK(l) /\ AcceptorOK(l)
  BY DEF IInv
<1>2. DialerOK(l)'
  BY <1>1, LinkType DEF DialerOK, connVars
<1>3. AcceptorOK(l)'
  BY <1>1, LinkType DEF AcceptorOK, connVars
<1>4. QED
  BY <1>2, <1>3

LEMMA InitEstablishesIInv == Init => IInv
<1> SUFFICES ASSUME Init PROVE IInv
  OBVIOUS
<1>1. TypeOK
  <2>1. starts \in [Node -> 0 .. MaxStarts]
    BY StaticNetworkAssumption DEF Init
  <2>2. phase \in [Node -> Phase]
    BY DEF Init, Phase
  <2>3. /\ dial \in [Link -> {"check", "dialing", "watching", "done"}]
        /\ watched \in [Link -> {0} \cup Conn]
        /\ writers \in [Link -> {0} \cup Conn]
    BY DEF Init
  <2>4. conn \in [Link -> [Conn -> ConnState]]
    BY NoConnType DEF Init
  <2>5. /\ inCh \in [Node -> Seq(Envelope)]
        /\ \A n \in Node : Len(inCh[n]) <= QueueCap
    BY StaticNetworkAssumption DEF Init
  <2>6. /\ publishing \in [Node -> SUBSET Call]
        /\ published \in [Node -> 0 .. MaxPublished]
        /\ sent \subseteq Envelope
    BY StaticNetworkAssumption DEF Init
  <2>7. QED
    BY <2>1, <2>2, <2>3, <2>4, <2>5, <2>6 DEF TypeOK
<1>2. ASSUME NEW l \in Link
      PROVE  DialerOK(l) /\ AcceptorOK(l)
  BY LinkType DEF Init, DialerOK, AcceptorOK, Quiet, Alive, NoConn
<1>3. QED
  BY <1>1, <1>2 DEF IInv

------------------------------------------------------------------------------
\* Every action preserves the invariant: dialLoop.

LEMMA CheckStopPreserves ==
  ASSUME IInv, NEW l \in Link, CheckStop(l)
  PROVE  IInv'
<1>1. TypeOK'
  BY DEF IInv, TypeOK, CheckStop, Again, callVars
<1>2. ASSUME NEW k \in Link
      PROVE  DialerOK(k)' /\ AcceptorOK(k)'
  BY DEF IInv, TypeOK, DialerOK, AcceptorOK, CheckStop, Again, Quiet, Open
<1>3. QED
  BY <1>1, <1>2 DEF IInv

LEMMA DialFailsPreserves ==
  ASSUME IInv, NEW l \in Link, DialFails(l)
  PROVE  IInv'
<1>1. TypeOK'
  BY DEF IInv, TypeOK, DialFails, callVars
<1>2. ASSUME NEW k \in Link
      PROVE  DialerOK(k)' /\ AcceptorOK(k)'
  BY DEF IInv, TypeOK, DialerOK, AcceptorOK, DialFails, Quiet, Open
<1>3. QED
  BY <1>1, <1>2 DEF IInv

LEMMA DialSucceedsPreserves ==
  ASSUME IInv, NEW l \in Link, DialSucceeds(l)
  PROVE  IInv'
<1>1. PICK c \in Conn : /\ SetWriter(l, c)
                        /\ dial' = [dial EXCEPT ![l] = "watching"]
                        /\ watched' = [watched EXCEPT ![l] = c]
  BY DEF DialSucceeds
<1>2. /\ dial[l] = "dialing" /\ Open(l[2])
      /\ UNCHANGED <<phase, starts, inCh, callVars>>
  BY DEF DialSucceeds
<1>3. DialerOK(l) /\ AcceptorOK(l) /\ c # 0
  BY DEF IInv, Conn
<1>4. /\ \A k \in Link : k # l => conn'[k] = conn[k]
      /\ \A d \in Conn :
           /\ conn'[l][d] \in ConnState
           /\ d = c => conn'[l][d] = NewConn
           /\ d # c => /\ ~conn'[l][d].dialer
                       /\ conn'[l][d].acceptor = conn[l][d].acceptor
      /\ conn' \in [Link -> [Conn -> ConnState]]
  <2> DEFINE row ==
        [k \in Conn |-> IF k = c THEN NewConn
                        ELSE IF k = writers[l] THEN [conn[l][k] EXCEPT !.dialer = FALSE]
                        ELSE conn[l][k]]
  <2>1. conn' = [conn EXCEPT ![l] = row]
    BY <1>1 DEF SetWriter
  <2>2. ASSUME NEW d \in Conn
        PROVE  conn[l][d] \in ConnState /\ ~conn[l][d].dialer
    <3>1. conn[l][d] \in ConnState
      BY DEF IInv, TypeOK
    <3>2. watched[l] = 0 /\ d # 0
      BY <1>2, <1>3 DEF IInv, TypeOK, DialerOK, Conn
    <3>3. QED
      BY <1>3, <3>1, <3>2 DEF DialerOK, ConnState
  <2>3. ASSUME NEW d \in Conn
        PROVE  /\ row[d] \in ConnState
               /\ d # c => /\ ~row[d].dialer
                           /\ row[d].acceptor = conn[l][d].acceptor
    BY <2>2, NoConnType DEF ConnState
  <2>4. conn \in [Link -> [Conn -> ConnState]]
    BY DEF IInv, TypeOK
  <2>5. row \in [Conn -> ConnState]
    BY <2>3
  <2> HIDE DEF row
  <2>6. /\ \A k \in Link : k # l => conn'[k] = conn[k]
        /\ conn'[l] = row
        /\ conn' \in [Link -> [Conn -> ConnState]]
    BY <2>1, <2>4, <2>5
  <2>7. row[c] = NewConn
    BY DEF row
  <2>8. QED
    BY <2>3, <2>6, <2>7
<1>5. writers' = [writers EXCEPT ![l] = c]
  BY <1>1 DEF SetWriter
<1>6. TypeOK'
  BY <1>1, <1>2, <1>4, <1>5 DEF IInv, TypeOK, callVars
<1>7. DialerOK(l)'
  <2>1. ~Quiet(l[1])'
    BY <1>2, <1>3 DEF DialerOK, Quiet
  <2>2. dial'[l] = "watching" /\ watched'[l] = c /\ writers'[l] = c
    BY <1>1, <1>5 DEF IInv, TypeOK
  <2>3. ASSUME NEW d \in Conn, conn'[l][d].dialer
        PROVE  d = c /\ conn'[l][d].reader
    BY <1>4, <2>3 DEF NewConn
  <2>4. QED
    BY <1>3, <2>1, <2>2, <2>3 DEF DialerOK
<1>8. AcceptorOK(l)'
  BY <1>2, <1>3 DEF AcceptorOK, Open, Quiet
<1>9. ASSUME NEW k \in Link, k # l
      PROVE  DialerOK(k)' /\ AcceptorOK(k)'
  <2>1. /\ conn'[k] = conn[k] /\ dial'[k] = dial[k] /\ watched'[k] = watched[k]
        /\ writers'[k] = writers[k] /\ phase' = phase
    BY <1>1, <1>2, <1>4, <1>5, <1>9 DEF IInv, TypeOK
  <2>2. QED
    BY <2>1 DEF IInv, DialerOK, AcceptorOK, Quiet, Open
<1>10. QED
  BY <1>6, <1>7, <1>8, <1>9 DEF IInv

\* A step that changes nothing but one connection, closes ends of it or
\* accepts it, and stops the readLoop of an end only together with the end.
LEMMA OneConnChanges ==
  ASSUME IInv, NEW l \in Link, NEW c \in Conn, NEW r \in ConnState,
         conn' = [conn EXCEPT ![l][c] = r],
         UNCHANGED <<phase, dial, watched, writers>>,
         r.dialer => conn[l][c].dialer /\ r.reader,
         r.reader => conn[l][c].reader,
         r.acceptor = "backlog" => conn[l][c].acceptor = "backlog",
         conn[l][c].acceptor = "closed" => r.acceptor = "closed"
  PROVE  /\ conn' \in [Link -> [Conn -> ConnState]]
         /\ \A k \in Link : DialerOK(k)' /\ AcceptorOK(k)'
<1>1. conn \in [Link -> [Conn -> ConnState]]
  BY DEF IInv, TypeOK
<1>2. /\ \A k \in Link : k # l => conn'[k] = conn[k]
      /\ \A d \in Conn : d # c => conn'[l][d] = conn[l][d]
      /\ conn'[l][c] = r
      /\ conn' \in [Link -> [Conn -> ConnState]]
  BY <1>1
<1>3. ASSUME NEW k \in Link
      PROVE  DialerOK(k)' /\ AcceptorOK(k)'
  <2>1. DialerOK(k) /\ AcceptorOK(k)
    BY DEF IInv
  <2>2. CASE k # l
    BY <1>2, <2>1, <2>2 DEF DialerOK, AcceptorOK, Quiet, Open
  <2>3. CASE k = l
    <3>1. ASSUME NEW d \in Conn
          PROVE  /\ conn'[k][d].dialer => conn[k][d].dialer /\ conn'[k][d].reader
                 /\ conn'[k][d].reader => conn[k][d].reader
                 /\ conn'[k][d].acceptor = "backlog" =>
                      conn[k][d].acceptor = "backlog"
                 /\ conn[k][d].acceptor = "closed" =>
                      conn'[k][d].acceptor = "closed"
      BY <1>2, <2>1, <2>3 DEF DialerOK
    <3>2. DialerOK(k)'
      BY <2>1, <3>1 DEF DialerOK, Quiet
    <3>3. AcceptorOK(k)'
      BY <2>1, <3>1 DEF AcceptorOK, Quiet, Open
    <3>4. QED
      BY <3>2, <3>3
  <2>4. QED
    BY <2>2, <2>3
<1>4. QED
  BY <1>2, <1>3

LEMMA LeaveConnPreserves ==
  ASSUME IInv, NEW l \in Link, LeaveConn(l)
  PROVE  IInv'
<1> DEFINE c == watched[l]
           r == [conn[l][c] EXCEPT !.dialer = FALSE]
<1>1. DialerOK(l) /\ AcceptorOK(l)
  BY DEF IInv
<1>2. c \in Conn
  BY <1>1 DEF IInv, TypeOK, LeaveConn, Watching, DialerOK
<1>3. /\ conn' = [conn EXCEPT ![l][c] = r]
      /\ writers' = [writers EXCEPT ![l] = 0]
      /\ watched' = [watched EXCEPT ![l] = 0]
      /\ dial' = [dial EXCEPT ![l] =
                    IF phase[l[1]] = "running" THEN "check" ELSE "done"]
      /\ UNCHANGED <<phase, starts, inCh, callVars>>
  <2>1. writers[l] = c \/ writers[l] = 0
    BY <1>1 DEF DialerOK
  <2>2. QED
    BY <2>1 DEF LeaveConn, DropConn, IInv, TypeOK
<1>4. /\ r \in ConnState /\ conn \in [Link -> [Conn -> ConnState]]
      /\ ~r.dialer
      /\ r.reader = conn[l][c].reader /\ r.acceptor = conn[l][c].acceptor
  <2>1. conn[l][c] \in ConnState /\ conn \in [Link -> [Conn -> ConnState]]
    BY <1>2 DEF IInv, TypeOK
  <2>2. QED
    BY <2>1 DEF ConnState
<1>5. /\ \A k \in Link : k # l => conn'[k] = conn[k]
      /\ \A d \in Conn : d # c => conn'[l][d] = conn[l][d]
      /\ conn'[l][c] = r
      /\ conn' \in [Link -> [Conn -> ConnState]]
  BY <1>2, <1>3, <1>4
<1>6. TypeOK'
  BY <1>3, <1>5 DEF IInv, TypeOK, callVars
<1>7. ASSUME NEW d \in Conn
      PROVE  /\ ~conn'[l][d].dialer
             /\ conn'[l][d].reader = conn[l][d].reader
             /\ conn'[l][d].acceptor = conn[l][d].acceptor
  <2>1. CASE d = c
    BY <1>4, <1>5, <2>1
  <2>2. CASE d # c
    BY <1>1, <1>5, <2>2 DEF DialerOK, IInv, TypeOK, ConnState
  <2>3. QED
    BY <2>1, <2>2
<1>8. DialerOK(l)'
  <2>1. ~Quiet(l[1])
    BY <1>1 DEF LeaveConn, Watching, DialerOK
  <2>2. dial'[l] # "watching" /\ watched'[l] = 0 /\ writers'[l] = 0
    BY <1>3 DEF IInv, TypeOK
  <2>3. QED
    BY <1>3, <1>7, <2>1, <2>2 DEF DialerOK, Quiet
<1>9. AcceptorOK(l)'
  BY <1>1, <1>3, <1>7 DEF AcceptorOK, Quiet, Open
<1>10. ASSUME NEW k \in Link, k # l
       PROVE  DialerOK(k)' /\ AcceptorOK(k)'
  <2>1. /\ conn'[k] = conn[k] /\ dial'[k] = dial[k] /\ watched'[k] = watched[k]
        /\ writers'[k] = writers[k] /\ phase' = phase
    BY <1>3, <1>5, <1>10 DEF IInv, TypeOK
  <2>2. QED
    BY <2>1 DEF IInv, DialerOK, AcceptorOK, Quiet, Open
<1>11. QED
  BY <1>6, <1>8, <1>9, <1>10 DEF IInv

LEMMA HeartbeatInterruptsPreserves ==
  ASSUME IInv, NEW l \in Link, HeartbeatInterrupts(l)
  PROVE  IInv'
<1> DEFINE c == watched[l]
           r == [conn[l][c] EXCEPT !.dialer = FALSE, !.reader = FALSE]
<1>1. c \in Conn
  BY DEF IInv, TypeOK, HeartbeatInterrupts, Watching, DialerOK
<1>2. /\ conn[l][c] \in ConnState
      /\ conn \in [Link -> [Conn -> ConnState]]
  BY <1>1 DEF IInv, TypeOK
<1>3. /\ r \in ConnState
      /\ ~r.dialer /\ ~r.reader /\ r.acceptor = conn[l][c].acceptor
  BY <1>2 DEF ConnState
<1>4. conn' = [conn EXCEPT ![l][c] = r]
  BY <1>1, <1>2 DEF HeartbeatInterrupts, ConnState
<1>5. UNCHANGED <<phase, starts, dial, watched, writers, inCh, callVars>>
  BY DEF HeartbeatInterrupts
<1> HIDE DEF c, r
<1>6. /\ conn' \in [Link -> [Conn -> ConnState]]
      /\ \A k \in Link : DialerOK(k)' /\ AcceptorOK(k)'
  BY <1>1, <1>3, <1>4, <1>5, OneConnChanges
<1>7. TypeOK'
  BY <1>5, <1>6 DEF IInv, TypeOK, callVars
<1>8. QED
  BY <1>6, <1>7 DEF IInv

------------------------------------------------------------------------------
\* acceptLoop, readLoop and the main loop.

LEMMA ReadLoopsPreserve ==
  ASSUME IInv, NEW l \in Link, NEW c \in Conn, ReadLoops(l, c)
  PROVE  IInv'
<1>1. /\ conn[l][c] \in ConnState
      /\ conn \in [Link -> [Conn -> ConnState]]
  BY DEF IInv, TypeOK
<1>2. CASE Accept(l, c)
  <2> DEFINE r == [conn[l][c] EXCEPT !.acceptor = "open"]
  <2>1. /\ r \in ConnState /\ r.acceptor = "open"
        /\ r.dialer = conn[l][c].dialer /\ r.reader = conn[l][c].reader
    BY <1>1 DEF ConnState
  <2>2. conn' = [conn EXCEPT ![l][c] = r]
    BY <1>1, <1>2 DEF Accept, ConnState
  <2>3. UNCHANGED <<phase, starts, dial, watched, writers, inCh, callVars>>
        /\ conn[l][c].acceptor = "backlog"
    BY <1>2 DEF Accept
  <2>4. conn[l][c].dialer => conn[l][c].reader
    BY DEF IInv, DialerOK
  <2> HIDE DEF r
  <2>5. /\ conn' \in [Link -> [Conn -> ConnState]]
        /\ \A k \in Link : DialerOK(k)' /\ AcceptorOK(k)'
    BY <2>1, <2>2, <2>3, <2>4, OneConnChanges
  <2>6. TypeOK'
    BY <2>3, <2>5 DEF IInv, TypeOK, callVars
  <2>7. QED
    BY <2>5, <2>6 DEF IInv
<1>3. CASE DialerReadEnds(l, c)
  <2> DEFINE r == [conn[l][c] EXCEPT !.reader = FALSE, !.dialer = FALSE]
  <2>1. /\ r \in ConnState
        /\ ~r.dialer /\ ~r.reader /\ r.acceptor = conn[l][c].acceptor
    BY <1>1 DEF ConnState
  <2>2. conn' = [conn EXCEPT ![l][c] = r]
    BY <1>1, <1>3 DEF DialerReadEnds, ConnState
  <2>3. UNCHANGED <<phase, starts, dial, watched, writers, inCh, callVars>>
    BY <1>3 DEF DialerReadEnds
  <2> HIDE DEF r
  <2>4. /\ conn' \in [Link -> [Conn -> ConnState]]
        /\ \A k \in Link : DialerOK(k)' /\ AcceptorOK(k)'
    BY <2>1, <2>2, <2>3, OneConnChanges
  <2>5. TypeOK'
    BY <2>3, <2>4 DEF IInv, TypeOK, callVars
  <2>6. QED
    BY <2>4, <2>5 DEF IInv
<1>4. CASE AcceptorReads(l, c)
  <2> DEFINE r == [conn[l][c] EXCEPT !.frames = Tail(@)]
  <2>1. /\ Head(conn[l][c].frames) \in Envelope
        /\ Tail(conn[l][c].frames) \in Seq(Envelope)
    BY <1>1, <1>4 DEF AcceptorReads, ConnState
  <2>2. /\ r \in ConnState /\ r.acceptor = conn[l][c].acceptor
        /\ r.dialer = conn[l][c].dialer /\ r.reader = conn[l][c].reader
    BY <1>1, <2>1 DEF ConnState
  <2>3. conn' = [conn EXCEPT ![l][c] = r]
    BY <1>1, <1>4 DEF AcceptorReads, ConnState
  <2>4. UNCHANGED <<phase, starts, dial, watched, writers, callVars>>
    BY <1>4 DEF AcceptorReads
  <2>5. conn[l][c].dialer => conn[l][c].reader
    BY DEF IInv, DialerOK
  <2>6. /\ inCh' \in [Node -> Seq(Envelope)]
        /\ \A n \in Node : Len(inCh'[n]) <= QueueCap
    BY <1>4, <2>1, LinkType, PushInboundType DEF IInv, AcceptorReads
  <2> HIDE DEF r
  <2>7. /\ conn' \in [Link -> [Conn -> ConnState]]
        /\ \A k \in Link : DialerOK(k)' /\ AcceptorOK(k)'
    BY <2>2, <2>3, <2>4, <2>5, OneConnChanges
  <2>8. TypeOK'
    BY <2>4, <2>6, <2>7 DEF IInv, TypeOK, callVars
  <2>9. QED
    BY <2>7, <2>8 DEF IInv
<1>5. CASE AcceptorReadEnds(l, c)
  <2> DEFINE r == [conn[l][c] EXCEPT !.acceptor = "closed"]
  <2>1. /\ r \in ConnState /\ r.acceptor = "closed"
        /\ r.dialer = conn[l][c].dialer /\ r.reader = conn[l][c].reader
    BY <1>1 DEF ConnState
  <2>2. conn' = [conn EXCEPT ![l][c] = r]
    BY <1>1, <1>5 DEF AcceptorReadEnds, ConnState
  <2>3. UNCHANGED <<phase, starts, dial, watched, writers, inCh, callVars>>
    BY <1>5 DEF AcceptorReadEnds
  <2>4. conn[l][c].dialer => conn[l][c].reader
    BY DEF IInv, DialerOK
  <2> HIDE DEF r
  <2>5. /\ conn' \in [Link -> [Conn -> ConnState]]
        /\ \A k \in Link : DialerOK(k)' /\ AcceptorOK(k)'
    BY <2>1, <2>2, <2>3, <2>4, OneConnChanges
  <2>6. TypeOK'
    BY <2>3, <2>5 DEF IInv, TypeOK, callVars
  <2>7. QED
    BY <2>5, <2>6 DEF IInv
<1>6. QED
  BY <1>2, <1>3, <1>4, <1>5 DEF ReadLoops

LEMMA TakePreserves ==
  ASSUME IInv, NEW n \in Node, Take(n)
  PROVE  IInv'
<1>1. inCh[n] \in Seq(Envelope) /\ Len(inCh[n]) <= QueueCap /\ inCh[n] # <<>>
  BY DEF IInv, TypeOK, Take
<1>2. /\ Tail(inCh[n]) \in Seq(Envelope)
      /\ Len(Tail(inCh[n])) <= QueueCap
  BY <1>1, StaticNetworkAssumption
<1>3. TypeOK'
  BY <1>2 DEF IInv, TypeOK, Take, connVars, callVars
<1>4. \A l \in Link : DialerOK(l)' /\ AcceptorOK(l)'
  BY LinksUntouched DEF Take, Quiet, Open
<1>5. QED
  BY <1>3, <1>4 DEF IInv

------------------------------------------------------------------------------
\* Publish.

LEMMA PublishCallPreserves ==
  ASSUME IInv, NEW n \in Node, NEW to \in {Node} \cup {{p} : p \in Node},
         PublishCall(n, to)
  PROVE  IInv'
<1> DEFINE env == [from |-> n, to |-> to, no |-> published'[n]]
           call == [at |-> "push", env |-> env, left |-> Peers(n, to)]
<1>1. /\ published' \in [Node -> 0 .. MaxPublished]
      /\ published'[n] \in 1 .. MaxPublished
  BY StaticNetworkAssumption DEF IInv, TypeOK, PublishCall
<1>2. env \in Envelope
  BY <1>1 DEF Envelope
<1>3. call \in Call
  BY <1>2, StaticNetworkAssumption DEF Call, Peers, Link
<1>4. publishing' = [publishing EXCEPT ![n] = @ \cup {call}]
  BY DEF PublishCall
<1> HIDE DEF call
<1>5. TypeOK'
  BY <1>1, <1>3, <1>4 DEF IInv, TypeOK, PublishCall, connVars
<1>6. \A l \in Link : DialerOK(l)' /\ AcceptorOK(l)'
  BY LinksUntouched DEF PublishCall, Quiet, Open
<1>7. QED
  BY <1>5, <1>6 DEF IInv

\* The calls that go on after a step of one of them.
LEMMA ContinueType ==
  ASSUME TypeOK, NEW n \in Node, NEW call, NEW next \in Call,
         Continue(n, call, next)
  PROVE  publishing' \in [Node -> SUBSET Call]
  BY DEF TypeOK, Continue

LEMMA PublishPushPreserves ==
  ASSUME IInv, NEW n \in Node, NEW call \in publishing[n],
         PublishPush(n, call)
  PROVE  IInv'
<1> DEFINE next == [call EXCEPT !.at = "write"]
<1>1. call \in Call /\ call.env \in Envelope
  BY DEF IInv, TypeOK, Call
<1>2. next \in Call
  BY <1>1 DEF Call
<1>3. publishing' \in [Node -> SUBSET Call]
  <2>1. Continue(n, call, next)
    BY DEF PublishPush
  <2>2. QED
    BY <1>2, <2>1, ContinueType DEF IInv
<1>4. /\ inCh' \in [Node -> Seq(Envelope)]
      /\ \A p \in Node : Len(inCh'[p]) <= QueueCap
  <2>1. CASE PushInbound(n, call.env)
    BY <1>1, <2>1, PushInboundType DEF IInv
  <2>2. CASE UNCHANGED inCh
    BY <2>2 DEF IInv, TypeOK
  <2>3. QED
    BY <2>1, <2>2 DEF PublishPush
<1>5. TypeOK'
  BY <1>1, <1>3, <1>4 DEF IInv, TypeOK, PublishPush, connVars
<1>6. \A l \in Link : DialerOK(l)' /\ AcceptorOK(l)'
  BY LinksUntouched DEF PublishPush, Quiet, Open
<1>7. QED
  BY <1>5, <1>6 DEF IInv

LEMMA PublishWritePreserves ==
  ASSUME IInv, NEW n \in Node, NEW call \in publishing[n], NEW p \in call.left,
         PublishWrite(n, call, p)
  PROVE  IInv'
<1> DEFINE l == <<n, p>>
           c == writers[l]
           next == [call EXCEPT !.left = @ \ {p}]
<1>1. call \in Call /\ call.env \in Envelope /\ call.left \subseteq Node
  BY DEF IInv, TypeOK, Call
<1>2. next \in Call
  BY <1>1 DEF Call
<1>3. publishing' \in [Node -> SUBSET Call]
  <2>1. Continue(n, call, next)
    BY DEF PublishWrite
  <2>2. QED
    BY <1>2, <2>1, ContinueType DEF IInv
<1>4. UNCHANGED <<phase, starts, dial, watched, writers, inCh, published, sent>>
  BY DEF PublishWrite
<1>5. /\ conn' \in [Link -> [Conn -> ConnState]]
      /\ \A k \in Link : DialerOK(k)' /\ AcceptorOK(k)'
  <2>1. CASE conn' = conn
    BY <1>4, <2>1, LinksUntouched DEF IInv, TypeOK, connVars, Quiet, Open
  <2>2. CASE Usable(l) /\ l \in Link
    <3> DEFINE r == [conn[l][c] EXCEPT !.frames = Append(@, call.env)]
    <3>1. c \in Conn
      BY <2>2 DEF Usable, IInv, TypeOK
    <3>2. /\ conn[l][c] \in ConnState
          /\ conn \in [Link -> [Conn -> ConnState]]
      BY <2>2, <3>1 DEF IInv, TypeOK
    <3>3. /\ r \in ConnState /\ r.acceptor = conn[l][c].acceptor
          /\ r.dialer = conn[l][c].dialer /\ r.reader = conn[l][c].reader
      <4>1. Append(conn[l][c].frames, call.env) \in Seq(Envelope)
        BY <1>1, <3>2 DEF ConnState
      <4>2. QED
        BY <3>2, <4>1 DEF ConnState
    <3>4. conn' = [conn EXCEPT ![l][c] = r]
      BY <2>2, <3>2 DEF PublishWrite, ConnState
    <3>5. conn[l][c].dialer => conn[l][c].reader
      BY <2>2, <3>1 DEF IInv, DialerOK
    <3> HIDE DEF r, l, c
    <3>6. QED
      BY <1>4, <2>2, <3>1, <3>3, <3>4, <3>5, OneConnChanges
  <2>3. CASE Usable(l) /\ l \notin Link
    <3>1. conn' = [conn EXCEPT ![l][c].frames = Append(@, call.env)]
      BY <2>3 DEF PublishWrite
    <3>2. conn' = conn
      BY <2>3, <3>1 DEF IInv, TypeOK
    <3>3. QED
      BY <2>1, <3>2
  <2>4. CASE ~Usable(l)
    BY <2>1, <2>4 DEF PublishWrite
  <2>5. QED
    BY <2>2, <2>3, <2>4
<1>6. TypeOK'
  BY <1>3, <1>4, <1>5 DEF IInv, TypeOK
<1>7. QED
  BY <1>5, <1>6 DEF IInv

------------------------------------------------------------------------------
\* The life of a process.

LEMMA CancelPreserves ==
  ASSUME IInv, NEW n \in Node, Cancel(n)
  PROVE  IInv'
<1>1. TypeOK'
  BY DEF IInv, TypeOK, Cancel, Phase, connVars, callVars
<1>2. \A p \in Node : /\ Quiet(p)' => Quiet(p)
                      /\ Open(p) => Open(p)'
  BY DEF Cancel, Quiet, Open, IInv, TypeOK
<1>3. \A l \in Link : DialerOK(l)' /\ AcceptorOK(l)'
  BY <1>2, LinksUntouched DEF Cancel
<1>4. QED
  BY <1>1, <1>3 DEF IInv

LEMMA CloseListenerPreserves ==
  ASSUME IInv, NEW n \in Node, CloseListener(n)
  PROVE  IInv'
<1>1. /\ phase' = [phase EXCEPT ![n] = "closed"] /\ phase[n] = "cancelled"
      /\ UNCHANGED <<starts, dial, watched, writers, inCh, callVars>>
  BY DEF CloseListener
<1>2. ASSUME NEW l \in Link, NEW c \in Conn
      PROVE  /\ conn'[l][c] \in ConnState
             /\ conn'[l][c].dialer = conn[l][c].dialer
             /\ conn'[l][c].reader = conn[l][c].reader
             /\ l[2] = n => conn'[l][c].acceptor # "backlog"
             /\ conn'[l][c].acceptor \in {"closed", conn[l][c].acceptor}
  <2>1. conn[l][c] \in ConnState
    BY DEF IInv, TypeOK
  <2>2. conn'[l][c] =
          IF l[2] = n /\ conn[l][c].acceptor = "backlog"
            THEN [conn[l][c] EXCEPT !.acceptor = "closed", !.frames = <<>>]
            ELSE conn[l][c]
    BY DEF CloseListener
  <2>3. CASE l[2] = n /\ conn[l][c].acceptor = "backlog"
    BY <2>1, <2>2, <2>3, ResetType
  <2>4. CASE ~(l[2] = n /\ conn[l][c].acceptor = "backlog")
    BY <2>1, <2>2, <2>4
  <2>5. QED
    BY <2>3, <2>4
<1>3. conn' \in [Link -> [Conn -> ConnState]]
  <2>1. conn' = [l \in Link |-> [c \in Conn |-> conn'[l][c]]]
    BY DEF CloseListener
  <2>2. QED
    BY <1>2, <2>1
<1>4. TypeOK'
  BY <1>1, <1>3 DEF IInv, TypeOK, Phase, callVars
<1>5. \A p \in Node : /\ Quiet(p)' => Quiet(p)
                      /\ p # n /\ Open(p) => Open(p)'
  BY <1>1 DEF IInv, TypeOK, Quiet, Open
<1>6. ASSUME NEW l \in Link
      PROVE  DialerOK(l)' /\ AcceptorOK(l)'
  <2>1. DialerOK(l) /\ AcceptorOK(l) /\ l[1] \in Node /\ l[2] \in Node
    BY LinkType DEF IInv
  <2>2. DialerOK(l)'
    BY <1>1, <1>2, <1>5, <2>1 DEF DialerOK
  <2>3. AcceptorOK(l)'
    BY <1>2, <1>5, <2>1 DEF AcceptorOK
  <2>4. QED
    BY <2>2, <2>3
<1>7. QED
  BY <1>4, <1>6 DEF IInv

LEMMA CloseWritersPreserves ==
  ASSUME IInv, NEW n \in Node, CloseWriters(n)
  PROVE  IInv'
<1>1. /\ phase' = [phase EXCEPT ![n] = "swept"] /\ phase[n] = "closed"
      /\ writers' = [l \in Link |-> IF l[1] = n THEN 0 ELSE writers[l]]
      /\ UNCHANGED <<starts, dial, watched, inCh, callVars>>
  BY DEF CloseWriters
<1>2. ASSUME NEW l \in Link, NEW c \in Conn
      PROVE  /\ conn'[l][c] \in ConnState
             /\ conn'[l][c].dialer => conn[l][c].dialer
             /\ conn'[l][c].reader = conn[l][c].reader
             /\ conn'[l][c].acceptor = conn[l][c].acceptor
  <2>1. conn[l][c] \in ConnState
    BY DEF IInv, TypeOK
  <2>2. conn'[l][c] =
          IF l[1] = n /\ writers[l] = c
            THEN [conn[l][c] EXCEPT !.dialer = FALSE] ELSE conn[l][c]
    BY DEF CloseWriters
  <2>3. CASE l[1] = n /\ writers[l] = c
    BY <2>1, <2>2, <2>3 DEF ConnState
  <2>4. CASE ~(l[1] = n /\ writers[l] = c)
    BY <2>1, <2>2, <2>4
  <2>5. QED
    BY <2>3, <2>4
<1>3. conn' \in [Link -> [Conn -> ConnState]]
  <2>1. conn' = [l \in Link |-> [c \in Conn |-> conn'[l][c]]]
    BY DEF CloseWriters
  <2>2. QED
    BY <1>2, <2>1
<1>4. TypeOK'
  BY <1>1, <1>3 DEF IInv, TypeOK, Phase, callVars
<1>5. \A p \in Node : /\ Quiet(p)' => Quiet(p)
                      /\ Open(p) => Open(p)'
  BY <1>1 DEF IInv, TypeOK, Quiet, Open
<1>6. ASSUME NEW l \in Link
      PROVE  DialerOK(l)' /\ AcceptorOK(l)'
  <2>1. DialerOK(l) /\ AcceptorOK(l) /\ l[1] \in Node /\ l[2] \in Node
    BY LinkType DEF IInv
  <2>2. DialerOK(l)'
    BY <1>1, <1>2, <1>5, <2>1 DEF DialerOK
  <2>3. AcceptorOK(l)'
    BY <1>2, <1>5, <2>1 DEF AcceptorOK
  <2>4. QED
    BY <2>2, <2>3
<1>7. QED
  BY <1>4, <1>6 DEF IInv

\* Stop returns: the loops it waited for are gone, and a connection to be
\* accepted has had nobody to wait for since the listener was closed.
LEMMA StopReturnsPreserves ==
  ASSUME IInv, NEW n \in Node, StopReturns(n)
  PROVE  IInv'
<1>1. /\ phase' = [phase EXCEPT ![n] = "stopped"] /\ phase[n] = "swept"
      /\ UNCHANGED <<starts, connVars, inCh, callVars>>
  BY DEF StopReturns
<1>2. TypeOK'
  BY <1>1 DEF IInv, TypeOK, Phase, connVars, callVars
<1>3. \A p \in Node : /\ p # n => (Quiet(p)' <=> Quiet(p))
                      /\ Open(p)' <=> Open(p)
  BY <1>1 DEF IInv, TypeOK, Quiet, Open
<1>4. ASSUME NEW l \in Link
      PROVE  DialerOK(l)' /\ AcceptorOK(l)'
  <2>1. DialerOK(l) /\ AcceptorOK(l) /\ l[1] \in Node /\ l[2] \in Node
    BY LinkType DEF IInv
  <2>2. l[1] = n => dial[l] = "done" /\ \A c \in Conn : ~conn[l][c].reader
    BY DEF StopReturns, LoopsDone
  <2>3. l[2] = n => \A c \in Conn : conn[l][c].acceptor = "closed"
    <3>1. ~Open(n)
      BY <1>1 DEF Open
    <3>2. ASSUME NEW c \in Conn
          PROVE  conn[l][c].acceptor \in {"backlog", "open", "closed"}
      BY DEF IInv, TypeOK, ConnState
    <3>3. QED
      BY <2>1, <3>1, <3>2 DEF StopReturns, LoopsDone, AcceptorOK
  <2>4. DialerOK(l)'
    BY <1>1, <1>3, <2>1, <2>2 DEF DialerOK, connVars
  <2>5. AcceptorOK(l)'
    BY <1>1, <1>3, <2>1, <2>3 DEF AcceptorOK, connVars
  <2>6. QED
    BY <2>4, <2>5
<1>5. QED
  BY <1>2, <1>4 DEF IInv

LEMMA EndProcessPreserves ==
  ASSUME IInv, NEW n \in Node, EndProcess(n)
  PROVE  IInv'
<1>1. /\ phase' = [phase EXCEPT ![n] = "off"]
      /\ dial' = [l \in Link |-> IF l[1] = n THEN "done" ELSE dial[l]]
      /\ watched' = [l \in Link |-> IF l[1] = n THEN 0 ELSE watched[l]]
      /\ writers' = [l \in Link |-> IF l[1] = n THEN 0 ELSE writers[l]]
      /\ inCh' = [inCh EXCEPT ![n] = <<>>]
      /\ publishing' = [publishing EXCEPT ![n] = {}]
      /\ UNCHANGED <<starts, published, sent>>
  BY DEF EndProcess
<1>2. ASSUME NEW l \in Link, NEW c \in Conn
      PROVE  /\ conn'[l][c] \in ConnState
             /\ l[1] = n => /\ ~conn'[l][c].dialer /\ ~conn'[l][c].reader
                            /\ conn'[l][c].acceptor = conn[l][c].acceptor
             /\ l[1] # n => /\ conn'[l][c].dialer = conn[l][c].dialer
                            /\ conn'[l][c].reader = conn[l][c].reader
             /\ l[2] = n => conn'[l][c].acceptor = "closed"
             /\ l[2] # n => conn'[l][c].acceptor = conn[l][c].acceptor
  <2>1. conn[l][c] \in ConnState
    BY DEF IInv, TypeOK
  <2>2. conn'[l][c] =
          IF l[1] = n THEN [conn[l][c] EXCEPT !.dialer = FALSE, !.reader = FALSE]
          ELSE IF l[2] = n THEN [conn[l][c] EXCEPT !.acceptor = "closed",
                                                   !.frames = <<>>]
          ELSE conn[l][c]
    BY DEF EndProcess
  <2>3. CASE l[1] = n
    BY <2>1, <2>2, <2>3, LinkType DEF ConnState
  <2>4. CASE l[2] = n
    <3>1. conn'[l][c] =
            [conn[l][c] EXCEPT !.acceptor = "closed", !.frames = <<>>]
      BY <2>2, <2>4, LinkType
    <3>2. l[1] # n
      BY <2>4, LinkType
    <3>3. QED
      BY <2>1, <2>4, <3>1, <3>2, ResetType
  <2>5. CASE l[1] # n /\ l[2] # n
    BY <2>1, <2>2, <2>5
  <2>6. QED
    BY <2>3, <2>4, <2>5
<1>3. conn' \in [Link -> [Conn -> ConnState]]
  <2>1. conn' = [l \in Link |-> [c \in Conn |-> conn'[l][c]]]
    BY DEF EndProcess
  <2>2. QED
    BY <1>2, <2>1
<1>4. TypeOK'
  <2>1. /\ inCh' \in [Node -> Seq(Envelope)]
        /\ \A p \in Node : Len(inCh'[p]) <= QueueCap
    BY <1>1, StaticNetworkAssumption DEF IInv, TypeOK
  <2>2. /\ phase' \in [Node -> Phase]
        /\ publishing' \in [Node -> SUBSET Call]
    BY <1>1 DEF IInv, TypeOK, Phase
  <2>3. QED
    BY <1>1, <1>3, <2>1, <2>2 DEF IInv, TypeOK
<1>5. \A p \in Node : /\ p # n => (Quiet(p)' <=> Quiet(p))
                      /\ p # n => (Open(p)' <=> Open(p))
  BY <1>1 DEF IInv, TypeOK, Quiet, Open
<1>6. ASSUME NEW l \in Link
      PROVE  DialerOK(l)' /\ AcceptorOK(l)'
  <2>1. DialerOK(l) /\ AcceptorOK(l) /\ l[1] \in Node /\ l[2] \in Node
    BY LinkType DEF IInv
  <2>2. DialerOK(l)'
    <3>1. CASE l[1] = n
      BY <1>1, <1>2, <3>1 DEF DialerOK
    <3>2. CASE l[1] # n
      BY <1>1, <1>2, <1>5, <2>1, <3>2 DEF DialerOK
    <3>3. QED
      BY <3>1, <3>2
  <2>3. AcceptorOK(l)'
    <3>1. CASE l[2] = n
      BY <1>2, <3>1 DEF AcceptorOK
    <3>2. CASE l[2] # n
      BY <1>2, <1>5, <2>1, <3>2 DEF AcceptorOK
    <3>3. QED
      BY <3>1, <3>2
  <2>4. QED
    BY <2>2, <2>3
<1>7. QED
  BY <1>4, <1>6 DEF IInv

LEMMA StartPreserves ==
  ASSUME IInv, NEW n \in Node, Start(n)
  PROVE  IInv'
<1>1. /\ phase' = [phase EXCEPT ![n] = "running"] /\ phase[n] = "off"
      /\ starts[n] < MaxStarts /\ starts' = [starts EXCEPT ![n] = @ + 1]
      /\ dial' = [l \in Link |-> IF l[1] = n THEN "check" ELSE dial[l]]
      /\ UNCHANGED <<watched, writers, conn, inCh, callVars>>
  BY DEF Start
<1>2. TypeOK'
  <2>1. starts' \in [Node -> 0 .. MaxStarts]
    BY <1>1, StaticNetworkAssumption DEF IInv, TypeOK
  <2>2. QED
    BY <1>1, <2>1 DEF IInv, TypeOK, Phase, callVars
<1>3. \A p \in Node : /\ Quiet(p)' => Quiet(p)
                      /\ Open(p) => Open(p)'
  BY <1>1 DEF IInv, TypeOK, Quiet, Open
<1>4. ASSUME NEW l \in Link
      PROVE  DialerOK(l)' /\ AcceptorOK(l)'
  <2>1. DialerOK(l) /\ AcceptorOK(l) /\ l[1] \in Node /\ l[2] \in Node
    BY LinkType DEF IInv
  <2>2. DialerOK(l)'
    <3>1. CASE l[1] = n
      BY <1>1, <2>1, <3>1 DEF DialerOK, Quiet, IInv, TypeOK
    <3>2. CASE l[1] # n
      BY <1>1, <1>3, <2>1, <3>2 DEF DialerOK
    <3>3. QED
      BY <3>1, <3>2
  <2>3. AcceptorOK(l)'
    BY <1>1, <1>3, <2>1 DEF AcceptorOK
  <2>4. QED
    BY <2>2, <2>3
<1>5. QED
  BY <1>2, <1>4 DEF IInv

------------------------------------------------------------------------------
LEMMA NextPreservesIInv == IInv /\ [Next]_vars => IInv'
<1> SUFFICES ASSUME IInv, [Next]_vars PROVE IInv'
  OBVIOUS
<1>1. ASSUME NEW l \in Link, DialLoop(l)
      PROVE  IInv'
  BY <1>1, CheckStopPreserves, DialSucceedsPreserves, DialFailsPreserves,
     LeaveConnPreserves DEF DialLoop
<1>2. ASSUME NEW l \in Link, HeartbeatInterrupts(l)
      PROVE  IInv'
  BY <1>2, HeartbeatInterruptsPreserves
<1>3. ASSUME NEW l \in Link, NEW c \in Conn, ReadLoops(l, c)
      PROVE  IInv'
  BY <1>3, ReadLoopsPreserve
<1>4. ASSUME NEW n \in Node, Take(n)
      PROVE  IInv'
  BY <1>4, TakePreserves
<1>5. ASSUME NEW n \in Node, NEW to \in {Node} \cup {{p} : p \in Node},
             PublishCall(n, to)
      PROVE  IInv'
  BY <1>5, PublishCallPreserves
<1>6. ASSUME NEW n \in Node, PublishStep(n)
      PROVE  IInv'
  BY <1>6, PublishPushPreserves, PublishWritePreserves DEF PublishStep
<1>7. ASSUME NEW n \in Node, Cancel(n) \/ Start(n)
      PROVE  IInv'
  BY <1>7, CancelPreserves, StartPreserves
<1>8. ASSUME NEW n \in Node,
             Stop(n) \/ PanicOnClosedChannel(n) \/ Crash(n)
      PROVE  IInv'
  <2>1. CASE CloseListener(n) \/ CloseWriters(n) \/ StopReturns(n)
    BY <2>1, CloseListenerPreserves, CloseWritersPreserves,
       StopReturnsPreserves
  <2>2. CASE Exit(n) \/ PanicOnClosedChannel(n) \/ Crash(n)
    BY <2>2, EndProcessPreserves DEF Exit, PanicOnClosedChannel, Crash
  <2>3. QED
    BY <1>8, <2>1, <2>2 DEF Stop
<1>9. CASE UNCHANGED vars
  <2>1. TypeOK'
    BY <1>9 DEF IInv, TypeOK, vars, connVars, callVars
  <2>2. \A l \in Link : DialerOK(l)' /\ AcceptorOK(l)'
    BY <1>9, LinksUntouched DEF vars, Quiet, Open
  <2>3. QED
    BY <2>1, <2>2 DEF IInv
<1>10. QED
  BY <1>1, <1>2, <1>3, <1>4, <1>5, <1>6, <1>7, <1>8, <1>9 DEF Next

\* The links are consistent at every moment: the invariant the theorems below
\* are read off from.
THEOREM IInvIsInvariant == Spec => []IInv
<1>1. Init => IInv
  BY InitEstablishesIInv
<1>2. IInv /\ [Next]_vars => IInv'
  BY NextPreservesIInv
<1>3. QED
  BY <1>1, <1>2, PTL DEF Spec

\* Every variable has its type, and no inbound channel exceeds its capacity
\* (pushInbound).
THEOREM TypeCorrect == Spec => []TypeOK
<1>1. IInv => TypeOK
  BY DEF IInv
<1>2. QED
  BY <1>1, IInvIsInvariant, PTL

\* dialLoop, setWriter, clearWriter and Stop leak no connection: one that is
\* open at its dialler's end is the one its dial loop watches.
THEOREM NoConnectionLeaks == Spec => []OpenConnIsWatched
<1>1. IInv => OpenConnIsWatched
  BY DEF IInv, DialerOK, OpenConnIsWatched
<1>2. QED
  BY <1>1, IInvIsInvariant, PTL

\* When Stop closes inCh no readLoop or dialLoop of the node is left, and none
\* comes back: what may still send is a Publish.
THEOREM LoopsEndBeforeStop == Spec => []NoLoopSendsOnClosedChannel
<1>1. IInv => NoLoopSendsOnClosedChannel
  BY DEF IInv, DialerOK, AcceptorOK, Quiet, NoLoopSendsOnClosedChannel
<1>2. QED
  BY <1>1, IInvIsInvariant, PTL

------------------------------------------------------------------------------
(***************************************************************************)
(* The refinement.  The connections implement the transport the protocols  *)
(* are built on, for every number of nodes, connections and envelopes: a   *)
(* proof that StaticNetwork implements LossyTransport.                     *)
(***************************************************************************)
Frames(l, c) == conn[l][c].frames

\* Calls of Publish are distinct, belong to running processes, address peers
\* only, and count as sent once they have got past the closed check.
CallsOK ==
  \A n \in Node :
    /\ publishing[n] # {} => Alive[n]
    /\ \A call \in publishing[n] :
         /\ call.env.from = n /\ call.env.no <= published[n]
         /\ call.left \subseteq Peers(n, call.env.to)
         /\ call.at = "push" <=> call.env \notin sent
    /\ \A call, other \in publishing[n] : call.env = other.env => call = other

SentOK == \A env \in sent : env.no <= published[env.from]

\* The frames on the connections of a link come from its dialler, no two are the
\* same, and none is still to be written there.
PlacesOK(l) ==
  /\ \A c \in Conn : \A i \in DOMAIN Frames(l, c) :
       Frames(l, c)[i] \in sent /\ Frames(l, c)[i].from = l[1]
  /\ \A c, d \in Conn : \A i \in DOMAIN Frames(l, c), j \in DOMAIN Frames(l, d) :
       Frames(l, c)[i] = Frames(l, d)[j] => c = d /\ i = j
  /\ \A call \in publishing[l[1]], c \in Conn : \A i \in DOMAIN Frames(l, c) :
       Frames(l, c)[i] = call.env => l[2] \notin call.left

\* Each envelope is in one place of a link at most.
EachOnce == CallsOK /\ SentOK /\ \A l \in Link : PlacesOK(l)

\* The inductive invariant.
RInv == IInv /\ EachOnce

\* An envelope that may still arrive over the link.
OnLink(l, env) == \E c \in Conn : \E i \in DOMAIN Frames(l, c) : Frames(l, c)[i] = env

ComesTo(l, env) ==
  /\ Usable(l)
  /\ \E call \in publishing[l[1]] :
       call.at = "write" /\ l[2] \in call.left /\ call.env = env

LEMMA InFlightIs ==
  ASSUME NEW f
  PROVE  f \in InFlight <=>
           \E l \in Link : /\ f = [dst |-> l[2], env |-> f.env]
                           /\ OnLink(l, f.env) \/ ComesTo(l, f.env)
<1>1. ASSUME NEW l \in Link
      PROVE  f \in OnConn(l) <=>
               f = [dst |-> l[2], env |-> f.env] /\ OnLink(l, f.env)
  BY DEF OnConn, OnLink, Frames, ToSet
<1>2. ASSUME NEW l \in Link
      PROVE  f \in ToWrite(l) <=>
               f = [dst |-> l[2], env |-> f.env] /\ ComesTo(l, f.env)
  BY DEF ToWrite, ComesTo
<1>3. QED
  BY <1>1, <1>2 DEF InFlight

LEMMA InFlightWillBe ==
  ASSUME NEW f
  PROVE  f \in InFlight' <=>
           \E l \in Link : /\ f = [dst |-> l[2], env |-> f.env]
                           /\ OnLink(l, f.env)' \/ ComesTo(l, f.env)'
<1>1. ASSUME NEW l \in Link
      PROVE  f \in OnConn(l)' <=>
               f = [dst |-> l[2], env |-> f.env] /\ OnLink(l, f.env)'
  BY DEF OnConn, OnLink, Frames, ToSet
<1>2. ASSUME NEW l \in Link
      PROVE  f \in ToWrite(l)' <=>
               f = [dst |-> l[2], env |-> f.env] /\ ComesTo(l, f.env)'
  BY DEF ToWrite, ComesTo
<1>3. QED
  BY <1>1, <1>2 DEF InFlight

\* The frame of an envelope names its link.
LEMMA LinkOfFrame ==
  ASSUME RInv, NEW l \in Link, NEW env, OnLink(l, env) \/ ComesTo(l, env)
  PROVE  l = <<env.from, l[2]>>
<1>1. l = <<l[1], l[2]>> /\ l[1] \in Node
  BY StaticNetworkAssumption DEF Link
<1>2. env.from = l[1]
  BY <1>1 DEF RInv, EachOnce, CallsOK, PlacesOK, OnLink, ComesTo
<1>3. QED
  BY <1>1, <1>2

LEMMA InitEstablishesRInv == Init => RInv
<1> SUFFICES ASSUME Init PROVE RInv
  OBVIOUS
<1>1. IInv
  BY InitEstablishesIInv
<1>2. CallsOK /\ SentOK
  BY DEF Init, CallsOK, SentOK
<1>3. ASSUME NEW l \in Link, NEW c \in Conn
      PROVE  Frames(l, c) = <<>>
  BY DEF Init, Frames, NoConn
<1>4. \A l \in Link : PlacesOK(l)
  BY <1>3 DEF PlacesOK
<1>5. QED
  BY <1>1, <1>2, <1>4 DEF RInv, EachOnce

LEMMA InitIsInit == Init => Abstract!Init
<1> SUFFICES ASSUME Init PROVE Abstract!Init
  OBVIOUS
<1>1. InFlight = {}
  <2>1. ASSUME NEW l \in Link, NEW c \in Conn
        PROVE  Frames(l, c) = <<>>
    BY DEF Init, Frames, NoConn
  <2>2. ASSUME NEW l \in Link
        PROVE  l[1] \in Node /\ publishing[l[1]] = {}
    BY LinkType DEF Init
  <2>3. ASSUME NEW f \in InFlight
        PROVE  FALSE
    BY <2>1, <2>2, InFlightIs DEF OnLink, ComesTo
  <2>4. QED
    BY <2>3
<1>2. QED
  BY <1>1 DEF Init, Abstract!Init, Abstract!Node, Node, Alive

------------------------------------------------------------------------------
\* A step in which frames may disappear and nothing else happens to envelopes.
LEMMA NothingAppears ==
  ASSUME RInv, UNCHANGED <<inCh, callVars>>, Alive' = Alive,
         \A l \in Link, c \in Conn : Frames(l, c)' \in {Frames(l, c), <<>>},
         \A l \in Link : Usable(l)' => Usable(l) \/ Unlocked(l[1])
  PROVE  EachOnce' /\ [Abstract!Next]_(Abstract!vars)
<1>1. CallsOK' /\ SentOK'
  BY DEF RInv, EachOnce, CallsOK, SentOK, callVars, Peers
<1>2. ASSUME NEW l \in Link
      PROVE  PlacesOK(l)'
  <2>1. PlacesOK(l)
    BY DEF RInv, EachOnce
  <2>2. ASSUME NEW c \in Conn
        PROVE  \A i \in DOMAIN Frames(l, c)' :
                 i \in DOMAIN Frames(l, c) /\ Frames(l, c)'[i] = Frames(l, c)[i]
    <3>1. CASE Frames(l, c)' = Frames(l, c)
      BY <3>1
    <3>2. CASE Frames(l, c)' = <<>>
      BY <3>2
    <3>3. QED
      BY <3>1, <3>2
  <2>3. UNCHANGED <<publishing, sent>>
    BY DEF callVars
  <2>4. QED
    BY <2>1, <2>2, <2>3 DEF PlacesOK
<1>3. ASSUME NEW f \in InFlight'
      PROVE  f \in InFlight
  <2>1. PICK l \in Link : /\ f = [dst |-> l[2], env |-> f.env]
                          /\ OnLink(l, f.env)' \/ ComesTo(l, f.env)'
    BY InFlightWillBe
  <2>2. CASE OnLink(l, f.env)'
    <3>1. PICK c \in Conn : \E i \in DOMAIN Frames(l, c)' :
                              Frames(l, c)'[i] = f.env
      BY <2>2 DEF OnLink
    <3>2. Frames(l, c)' = Frames(l, c)
      <4>1. Frames(l, c)' # <<>>
        BY <3>1
      <4>2. QED
        BY <4>1
    <3>3. OnLink(l, f.env)
      BY <3>1, <3>2 DEF OnLink
    <3>4. QED
      BY <2>1, <3>3, InFlightIs
  <2>3. CASE ComesTo(l, f.env)'
    <3>1. ComesTo(l, f.env)
      BY <2>3 DEF ComesTo, callVars, Unlocked
    <3>2. QED
      BY <2>1, <3>1, InFlightIs
  <2>4. QED
    BY <2>1, <2>2, <2>3
<1>4. Abstract!Lose
  <2>1. (InFlight \ InFlight') \in SUBSET InFlight
    OBVIOUS
  <2>2. InFlight' = InFlight \ (InFlight \ InFlight')
    BY <1>3
  <2>3. UNCHANGED <<Alive, inCh, sent>>
    BY DEF callVars
  <2>4. QED
    BY <2>1, <2>2, <2>3 DEF Abstract!Lose
<1>5. QED
  BY <1>1, <1>2, <1>4 DEF EachOnce, Abstract!Next

\* The same for a step that changes the ends of one connection.
LEMMA NothingAppearsOnConn ==
  ASSUME RInv, NEW l \in Link, NEW c \in Conn, NEW r \in ConnState,
         conn' = [conn EXCEPT ![l][c] = r],
         UNCHANGED <<phase, writers, inCh, callVars>>,
         r.frames = conn[l][c].frames,
         r.dialer => conn[l][c].dialer,
         conn[l][c].acceptor = "closed" => r.acceptor = "closed"
  PROVE  EachOnce' /\ [Abstract!Next]_(Abstract!vars)
<1>1. conn \in [Link -> [Conn -> ConnState]]
  BY DEF RInv, IInv, TypeOK
<1>2. /\ \A k \in Link : k # l => conn'[k] = conn[k]
      /\ \A d \in Conn : d # c => conn'[l][d] = conn[l][d]
      /\ conn'[l][c] = r
  BY <1>1
<1>3. \A k \in Link, d \in Conn : Frames(k, d)' = Frames(k, d)
  BY <1>2 DEF Frames
<1>4. ASSUME NEW k \in Link, Usable(k)'
      PROVE  Usable(k)
  <2>1. CASE k # l
    BY <1>2, <1>4, <2>1 DEF Usable
  <2>2. CASE k = l /\ writers[l] # c
    <3>1. writers[l] \in Conn
      BY <1>4, <2>2 DEF Usable, RInv, IInv, TypeOK
    <3>2. QED
      BY <1>2, <1>4, <2>2, <3>1 DEF Usable
  <2>3. CASE k = l /\ writers[l] = c
    BY <1>2, <1>4, <2>3 DEF Usable
  <2>4. QED
    BY <2>1, <2>2, <2>3
<1>5. Alive' = Alive
  BY DEF Alive
<1>6. QED
  BY <1>3, <1>4, <1>5, NothingAppears

LEMMA DialSucceedsFades ==
  ASSUME RInv, NEW l \in Link, DialSucceeds(l)
  PROVE  EachOnce' /\ [Abstract!Next]_(Abstract!vars)
<1>1. PICK c \in Conn : /\ conn[l][c] = NoConn
                        /\ SetWriter(l, c)
  BY DEF DialSucceeds
<1>2. Unlocked(l[1]) /\ UNCHANGED <<phase, inCh, callVars>>
  BY DEF DialSucceeds
<1>3. conn \in [Link -> [Conn -> ConnState]] /\ writers \in [Link -> {0} \cup Conn]
  BY DEF RInv, IInv, TypeOK
<1>4. /\ \A k \in Link : k # l => conn'[k] = conn[k] /\ writers'[k] = writers[k]
      /\ \A d \in Conn :
           conn'[l][d] = IF d = c THEN NewConn
                         ELSE IF d = writers[l] THEN [conn[l][d] EXCEPT !.dialer = FALSE]
                         ELSE conn[l][d]
  BY <1>1, <1>3 DEF SetWriter
<1>5. ASSUME NEW k \in Link, NEW d \in Conn
      PROVE  Frames(k, d)' = Frames(k, d)
  <2>1. CASE k # l
    BY <1>4, <2>1 DEF Frames
  <2>2. CASE k = l /\ d = c
    BY <1>1, <1>4, <2>2 DEF Frames, NoConn, NewConn
  <2>3. CASE k = l /\ d # c
    <3>1. conn[l][d] \in ConnState
      BY <1>3
    <3>2. QED
      BY <1>4, <2>3, <3>1 DEF Frames, ConnState
  <2>4. QED
    BY <2>1, <2>2, <2>3
<1>6. ASSUME NEW k \in Link, Usable(k)'
      PROVE  Usable(k) \/ Unlocked(k[1])
  <2>1. CASE k # l
    BY <1>4, <1>6, <2>1 DEF Usable
  <2>2. CASE k = l
    BY <1>2, <2>2
  <2>3. QED
    BY <2>1, <2>2
<1>7. Alive' = Alive
  BY <1>2 DEF Alive
<1>8. QED
  BY <1>2, <1>5, <1>6, <1>7, NothingAppears

LEMMA LeaveConnFades ==
  ASSUME RInv, NEW l \in Link, LeaveConn(l)
  PROVE  EachOnce' /\ [Abstract!Next]_(Abstract!vars)
<1> DEFINE c == watched[l]
<1>1. Unlocked(l[1]) /\ UNCHANGED <<phase, inCh, callVars>> /\ DropConn(l)
  BY DEF LeaveConn
<1>2. c \in Conn
  BY DEF RInv, IInv, TypeOK, DialerOK, LeaveConn, Watching
<1>3. conn \in [Link -> [Conn -> ConnState]] /\ writers \in [Link -> {0} \cup Conn]
  BY DEF RInv, IInv, TypeOK
<1>4. /\ \A k \in Link : k # l => conn'[k] = conn[k] /\ writers'[k] = writers[k]
      /\ \A d \in Conn : conn'[l][d].frames = conn[l][d].frames
  BY <1>1, <1>2, <1>3 DEF DropConn, ConnState
<1>5. \A k \in Link, d \in Conn : Frames(k, d)' = Frames(k, d)
  BY <1>4 DEF Frames
<1>6. ASSUME NEW k \in Link, Usable(k)'
      PROVE  Usable(k) \/ Unlocked(k[1])
  <2>1. CASE k # l
    BY <1>4, <1>6, <2>1 DEF Usable
  <2>2. CASE k = l
    BY <1>1, <2>2
  <2>3. QED
    BY <2>1, <2>2
<1>7. Alive' = Alive
  BY <1>1 DEF Alive
<1>8. QED
  BY <1>1, <1>5, <1>6, <1>7, NothingAppears

LEMMA DialLoopFades ==
  ASSUME RInv, NEW l \in Link, DialLoop(l)
  PROVE  EachOnce' /\ [Abstract!Next]_(Abstract!vars)
<1>1. CASE CheckStop(l) \/ DialFails(l)
  <2>1. UNCHANGED <<phase, writers, conn, inCh, callVars>>
    BY <1>1 DEF CheckStop, DialFails
  <2>2. /\ Alive' = Alive
        /\ \A k \in Link, d \in Conn : Frames(k, d)' = Frames(k, d)
        /\ \A k \in Link : Usable(k)' => Usable(k)
    BY <2>1 DEF Alive, Frames, Usable
  <2>3. QED
    BY <2>1, <2>2, NothingAppears
<1>2. QED
  BY <1>1, DialSucceedsFades, LeaveConnFades DEF DialLoop

LEMMA HeartbeatFades ==
  ASSUME RInv, NEW l \in Link, HeartbeatInterrupts(l)
  PROVE  EachOnce' /\ [Abstract!Next]_(Abstract!vars)
<1> DEFINE c == watched[l]
           r == [conn[l][c] EXCEPT !.dialer = FALSE, !.reader = FALSE]
<1>1. c \in Conn
  BY DEF RInv, IInv, TypeOK, HeartbeatInterrupts, Watching, DialerOK
<1>2. /\ conn[l][c] \in ConnState
      /\ conn \in [Link -> [Conn -> ConnState]]
  BY <1>1 DEF RInv, IInv, TypeOK
<1>3. /\ r \in ConnState /\ ~r.dialer
      /\ r.acceptor = conn[l][c].acceptor /\ r.frames = conn[l][c].frames
  BY <1>2 DEF ConnState
<1>4. conn' = [conn EXCEPT ![l][c] = r]
  BY <1>1, <1>2 DEF HeartbeatInterrupts, ConnState
<1>5. UNCHANGED <<phase, writers, inCh, callVars>>
  BY DEF HeartbeatInterrupts
<1> HIDE DEF c, r
<1>6. QED
  BY <1>1, <1>3, <1>4, <1>5, NothingAppearsOnConn

LEMMA EndsFade ==
  ASSUME RInv, NEW l \in Link, NEW c \in Conn,
         Accept(l, c) \/ DialerReadEnds(l, c) \/ AcceptorReadEnds(l, c)
  PROVE  EachOnce' /\ [Abstract!Next]_(Abstract!vars)
<1>1. /\ conn[l][c] \in ConnState
      /\ conn \in [Link -> [Conn -> ConnState]]
  BY DEF RInv, IInv, TypeOK
<1>2. UNCHANGED <<phase, writers, inCh, callVars>>
  BY DEF Accept, DialerReadEnds, AcceptorReadEnds
<1>3. PICK r \in ConnState :
        /\ conn' = [conn EXCEPT ![l][c] = r]
        /\ r.frames = conn[l][c].frames
        /\ r.dialer => conn[l][c].dialer
        /\ conn[l][c].acceptor = "closed" => r.acceptor = "closed"
  <2>1. CASE Accept(l, c)
    <3> DEFINE r == [conn[l][c] EXCEPT !.acceptor = "open"]
    <3>1. /\ r \in ConnState /\ r.frames = conn[l][c].frames
          /\ r.dialer = conn[l][c].dialer
      BY <1>1 DEF ConnState
    <3>2. conn' = [conn EXCEPT ![l][c] = r]
      BY <1>1, <2>1 DEF Accept, ConnState
    <3>3. conn[l][c].acceptor # "closed"
      BY <2>1 DEF Accept
    <3> HIDE DEF r
    <3>4. QED
      BY <3>1, <3>2, <3>3
  <2>2. CASE DialerReadEnds(l, c)
    <3> DEFINE r == [conn[l][c] EXCEPT !.reader = FALSE, !.dialer = FALSE]
    <3>1. /\ r \in ConnState /\ r.frames = conn[l][c].frames
          /\ ~r.dialer /\ r.acceptor = conn[l][c].acceptor
      BY <1>1 DEF ConnState
    <3>2. conn' = [conn EXCEPT ![l][c] = r]
      BY <1>1, <2>2 DEF DialerReadEnds, ConnState
    <3> HIDE DEF r
    <3>3. QED
      BY <3>1, <3>2
  <2>3. CASE AcceptorReadEnds(l, c)
    <3> DEFINE r == [conn[l][c] EXCEPT !.acceptor = "closed"]
    <3>1. /\ r \in ConnState /\ r.frames = conn[l][c].frames
          /\ r.dialer = conn[l][c].dialer /\ r.acceptor = "closed"
      BY <1>1 DEF ConnState
    <3>2. conn' = [conn EXCEPT ![l][c] = r]
      BY <1>1, <2>3 DEF AcceptorReadEnds, ConnState
    <3> HIDE DEF r
    <3>3. QED
      BY <3>1, <3>2
  <2>4. QED
    BY <2>1, <2>2, <2>3
<1>4. QED
  BY <1>2, <1>3, NothingAppearsOnConn

LEMMA StoppingFades ==
  ASSUME RInv, NEW n \in Node,
         Cancel(n) \/ CloseListener(n) \/ CloseWriters(n) \/ StopReturns(n)
  PROVE  EachOnce' /\ [Abstract!Next]_(Abstract!vars)
<1>1. Alive' = Alive /\ UNCHANGED <<inCh, callVars>>
  BY DEF RInv, IInv, TypeOK, Alive, Cancel, CloseListener, CloseWriters,
     StopReturns
<1>2. ASSUME NEW l \in Link, NEW c \in Conn
      PROVE  /\ Frames(l, c)' \in {Frames(l, c), <<>>}
             /\ conn'[l][c].dialer => conn[l][c].dialer
             /\ conn[l][c].acceptor = "closed" => conn'[l][c].acceptor = "closed"
  <2>1. conn[l][c] \in ConnState
    BY DEF RInv, IInv, TypeOK
  <2>2. CASE Cancel(n) \/ StopReturns(n)
    BY <2>2 DEF Cancel, StopReturns, connVars, Frames
  <2>3. CASE CloseListener(n)
    <3>1. conn'[l][c] =
            IF l[2] = n /\ conn[l][c].acceptor = "backlog"
              THEN [conn[l][c] EXCEPT !.acceptor = "closed", !.frames = <<>>]
              ELSE conn[l][c]
      BY <2>3 DEF CloseListener
    <3>2. CASE l[2] = n /\ conn[l][c].acceptor = "backlog"
      <4>1. conn'[l][c] =
              [conn[l][c] EXCEPT !.acceptor = "closed", !.frames = <<>>]
        BY <3>1, <3>2
      <4>2. /\ conn'[l][c].acceptor = "closed" /\ conn'[l][c].frames = <<>>
            /\ conn'[l][c].dialer = conn[l][c].dialer
        BY <2>1, <4>1, ResetType
      <4>3. QED
        BY <4>2 DEF Frames
    <3>3. CASE ~(l[2] = n /\ conn[l][c].acceptor = "backlog")
      BY <3>1, <3>3 DEF Frames
    <3>4. QED
      BY <3>2, <3>3
  <2>4. CASE CloseWriters(n)
    <3>1. conn'[l][c] =
            IF l[1] = n /\ writers[l] = c
              THEN [conn[l][c] EXCEPT !.dialer = FALSE] ELSE conn[l][c]
      BY <2>4 DEF CloseWriters
    <3>2. CASE l[1] = n /\ writers[l] = c
      BY <2>1, <3>1, <3>2 DEF Frames, ConnState
    <3>3. CASE ~(l[1] = n /\ writers[l] = c)
      BY <3>1, <3>3 DEF Frames
    <3>4. QED
      BY <3>2, <3>3
  <2>5. QED
    BY <2>2, <2>3, <2>4
<1>3. ASSUME NEW l \in Link, Usable(l)'
      PROVE  Usable(l)
  <2>1. writers'[l] \in {0, writers[l]}
    BY DEF Cancel, CloseListener, CloseWriters, StopReturns, connVars
  <2>2. writers[l] \in Conn /\ writers'[l] = writers[l]
    BY <1>3, <2>1 DEF Usable, RInv, IInv, TypeOK
  <2>3. QED
    BY <1>2, <1>3, <2>2 DEF Usable
<1>4. QED
  BY <1>1, <1>2, <1>3, NothingAppears

\* The main loop takes an envelope.
LEMMA TakeIsTake ==
  ASSUME RInv, NEW n \in Node, Take(n)
  PROVE  EachOnce' /\ Abstract!Take(n)
<1>1. UNCHANGED <<phase, starts, connVars, callVars>>
  BY DEF Take
<1>2. EachOnce'
  BY <1>1 DEF RInv, EachOnce, CallsOK, SentOK, PlacesOK, Frames, Alive, Peers,
     connVars, callVars
<1>3. InFlight' = InFlight /\ Alive' = Alive
  BY <1>1 DEF InFlight, OnConn, ToWrite, Usable, Alive, connVars, callVars
<1>4. Abstract!Take(n)
  BY <1>1, <1>3 DEF Take, Abstract!Take, Abstract!Received, Abstract!Consume,
     callVars
<1>5. QED
  BY <1>2, <1>4

LEMMA StartIsBegin ==
  ASSUME RInv, NEW n \in Node, Start(n)
  PROVE  EachOnce' /\ Abstract!Begin(n)
<1>1. UNCHANGED <<watched, writers, conn, inCh, callVars>>
  BY DEF Start
<1>2. /\ ~Alive[n]
      /\ Alive' = [Alive EXCEPT ![n] = TRUE]
  BY DEF Start, Alive, RInv, IInv, TypeOK
<1>3. EachOnce'
  <2>1. \A p \in Node : Alive[p] => Alive'[p]
    BY <1>2 DEF Alive
  <2>2. QED
    BY <1>1, <2>1 DEF RInv, EachOnce, CallsOK, SentOK, PlacesOK, Frames, Peers,
       callVars
<1>4. InFlight' = InFlight
  BY <1>1 DEF InFlight, OnConn, ToWrite, Usable, callVars
<1>5. QED
  BY <1>1, <1>2, <1>3, <1>4 DEF Abstract!Begin, Abstract!StartProcess, callVars

------------------------------------------------------------------------------
\* Publish.

\* A call that begins has sent nothing.
LEMMA PublishCallStutters ==
  ASSUME RInv, NEW n \in Node, NEW to \in {Node} \cup {{p} : p \in Node},
         PublishCall(n, to)
  PROVE  EachOnce' /\ UNCHANGED Abstract!vars
<1> DEFINE env == [from |-> n, to |-> to, no |-> published'[n]]
           call == [at |-> "push", env |-> env, left |-> Peers(n, to)]
<1>1. /\ Open(n)
      /\ published' = [published EXCEPT ![n] = @ + 1]
      /\ publishing' = [publishing EXCEPT ![n] = @ \cup {call}]
      /\ UNCHANGED <<phase, starts, connVars, inCh, sent>>
  BY DEF PublishCall
<1>2. published \in [Node -> Nat] /\ publishing \in [Node -> SUBSET Call]
  BY StaticNetworkAssumption DEF RInv, IInv, TypeOK
<1>3. published'[n] = published[n] + 1 /\ \A p \in Node : published'[p] >= published[p]
  BY <1>1, <1>2
<1>4. \A e \in sent : e.from \in Node /\ e.no \in Nat
  BY DEF RInv, IInv, TypeOK, Envelope
<1>5. \A k \in publishing[n] : k.env.no \in Nat
  BY <1>2 DEF Call, Envelope
<1>6. env \notin sent
  BY <1>2, <1>3, <1>4 DEF RInv, EachOnce, SentOK
<1>7. \A k \in publishing[n] : k.env # env
  BY <1>2, <1>3, <1>5 DEF RInv, EachOnce, CallsOK
<1>8. call.env = env /\ call.at = "push" /\ call.left = Peers(n, env.to)
  OBVIOUS
<1> HIDE DEF call, env
<1>9. CallsOK'
  <2> SUFFICES ASSUME NEW p \in Node
               PROVE  /\ publishing'[p] # {} => Alive'[p]
                      /\ \A k \in publishing'[p] :
                           /\ k.env.from = p /\ k.env.no <= published'[p]
                           /\ k.left \subseteq Peers(p, k.env.to)
                           /\ k.at = "push" <=> k.env \notin sent'
                      /\ \A k, o \in publishing'[p] : k.env = o.env => k = o
    BY DEF CallsOK, Peers
  <2>1. Alive' = Alive /\ Alive[n]
    BY <1>1 DEF Alive, Open
  <2>2. CASE p # n
    <3>1. publishing'[p] = publishing[p] /\ published'[p] = published[p]
      BY <1>1, <1>2, <2>2
    <3>2. QED
      BY <1>1, <2>1, <3>1 DEF RInv, EachOnce, CallsOK
  <2>3. CASE p = n
    <3>1. publishing'[p] = publishing[n] \cup {call}
      BY <1>1, <1>2, <2>3
    <3>2. env.from = n /\ env.no = published'[n]
      BY DEF env
    <3>3. ASSUME NEW k \in publishing[n]
          PROVE  /\ k.env.from = p /\ k.env.no <= published'[p]
                 /\ k.left \subseteq Peers(p, k.env.to)
                 /\ k.at = "push" <=> k.env \notin sent'
      BY <1>1, <1>2, <1>3, <1>5, <2>3 DEF RInv, EachOnce, CallsOK
    <3>4. /\ call.env.from = p /\ call.env.no <= published'[p]
          /\ call.left \subseteq Peers(p, call.env.to)
          /\ call.at = "push" <=> call.env \notin sent'
      BY <1>1, <1>2, <1>3, <1>6, <1>8, <2>3, <3>2
    <3>5. \A k, o \in publishing'[p] : k.env = o.env => k = o
      BY <1>7, <1>8, <3>1 DEF RInv, EachOnce, CallsOK
    <3>6. QED
      BY <2>1, <2>3, <3>1, <3>3, <3>4, <3>5
  <2>4. QED
    BY <2>2, <2>3
<1>10. SentOK'
  <2> SUFFICES ASSUME NEW e \in sent
               PROVE  e.no <= published'[e.from]
    BY <1>1 DEF SentOK
  <2>1. e.no <= published[e.from] /\ published[e.from] <= published'[e.from]
    BY <1>3, <1>4 DEF RInv, EachOnce, SentOK
  <2>2. published[e.from] \in Nat /\ published'[e.from] \in Nat /\ e.no \in Nat
    BY <1>1, <1>2, <1>4
  <2>3. QED
    BY <2>1, <2>2
<1>11. ASSUME NEW l \in Link
       PROVE  PlacesOK(l)'
  <2>1. PlacesOK(l) /\ l[1] \in Node
    BY LinkType DEF RInv, EachOnce
  <2>2. \A c \in Conn : Frames(l, c)' = Frames(l, c)
    BY <1>1 DEF Frames, connVars
  <2>3. \A k \in publishing'[l[1]] : k \in publishing[l[1]] \/ k = call
    BY <1>1, <1>2, <2>1
  <2>4. \A c \in Conn : \A i \in DOMAIN Frames(l, c) : Frames(l, c)[i] # call.env
    BY <1>6, <1>8, <2>1 DEF PlacesOK
  <2>5. QED
    BY <1>1, <2>1, <2>2, <2>3, <2>4 DEF PlacesOK
<1>12. InFlight' = InFlight
  <2>1. ASSUME NEW l \in Link
        PROVE  OnConn(l)' = OnConn(l) /\ ToWrite(l)' = ToWrite(l)
    <3>1. OnConn(l)' = OnConn(l) /\ Usable(l)' = Usable(l)
      BY <1>1 DEF OnConn, Usable, connVars
    <3>2. {k \in publishing'[l[1]] : k.at = "write" /\ l[2] \in k.left /\ Usable(l)}
            = {k \in publishing[l[1]] : k.at = "write" /\ l[2] \in k.left /\ Usable(l)}
      BY <1>1, <1>2, <1>8, LinkType
    <3>3. QED
      BY <3>1, <3>2 DEF ToWrite
  <2>2. QED
    BY <2>1 DEF InFlight
<1>13. UNCHANGED Abstract!vars
  BY <1>1, <1>12 DEF Abstract!vars, Abstract!transportVars, Alive
<1>14. QED
  BY <1>9, <1>10, <1>11, <1>13 DEF EachOnce

\* What is left of the calls when one of them has made a step.
LEMMA CallsAfter ==
  ASSUME RInv, NEW n \in Node, NEW call \in publishing[n], NEW next,
         Continue(n, call, next), next.env = call.env, next.left \subseteq call.left
  PROVE  /\ \A p \in Node : p # n => publishing'[p] = publishing[p]
         /\ \A k \in publishing'[n] :
              \/ k = next /\ next.left # {}
              \/ k \in publishing[n] /\ k # call /\ k.env # call.env
         /\ next.left # {} => next \in publishing'[n]
         /\ \A k \in publishing[n] : k # call => k \in publishing'[n]
<1>1. publishing' = [publishing EXCEPT ![n] =
        (@ \ {call}) \cup (IF next.left = {} THEN {} ELSE {next})]
  BY DEF Continue
<1>2. publishing \in [Node -> SUBSET Call]
  BY DEF RInv, IInv, TypeOK
<1>3. \A k \in publishing[n] : k # call => k.env # call.env
  BY DEF RInv, EachOnce, CallsOK
<1>4. publishing'[n] =
        (publishing[n] \ {call}) \cup (IF next.left = {} THEN {} ELSE {next})
  BY <1>1, <1>2
<1>5. \A p \in Node : p # n => publishing'[p] = publishing[p]
  BY <1>1, <1>2
<1>6. QED
  BY <1>3, <1>4, <1>5

\* Envelopes are still in one place each when a call has gone on to next and
\* nothing has come onto a connection.
LEMMA CallsOKAfter ==
  ASSUME RInv, NEW n \in Node, NEW call \in publishing[n], NEW next,
         Continue(n, call, next), next.env = call.env, next.left \subseteq call.left,
         next.at = "write", sent' = sent \cup {call.env},
         UNCHANGED <<phase, published>>
  PROVE  CallsOK' /\ SentOK'
<1>1. CallsOK'
  <2> SUFFICES ASSUME NEW p \in Node
               PROVE  /\ publishing'[p] # {} => Alive'[p]
                      /\ \A k \in publishing'[p] :
                           /\ k.env.from = p /\ k.env.no <= published'[p]
                           /\ k.left \subseteq Peers(p, k.env.to)
                           /\ k.at = "push" <=> k.env \notin sent'
                      /\ \A k, o \in publishing'[p] : k.env = o.env => k = o
    BY DEF CallsOK, Peers
  <2>1. Alive' = Alive
    BY DEF Alive
  <2>2. CASE p # n
    <3>1. publishing'[p] = publishing[p]
      BY <2>2, CallsAfter
    <3>2. \A k \in publishing[p] : k.env.from = p /\ call.env.from = n
      BY DEF RInv, EachOnce, CallsOK
    <3>3. \A k \in publishing[p] : k.env # call.env
      BY <2>2, <3>2
    <3>4. QED
      BY <2>1, <3>1, <3>3 DEF RInv, EachOnce, CallsOK
  <2>3. CASE p = n
    <3>1. Alive[n]
      BY DEF RInv, EachOnce, CallsOK
    <3>2. ASSUME NEW k \in publishing'[n]
          PROVE  /\ k.env.from = n /\ k.env.no <= published[n]
                 /\ k.left \subseteq Peers(n, k.env.to)
                 /\ k.at = "push" <=> k.env \notin sent'
      <4>1. CASE k = next
        BY <4>1 DEF RInv, EachOnce, CallsOK
      <4>2. CASE k \in publishing[n] /\ k.env # call.env
        BY <4>2 DEF RInv, EachOnce, CallsOK
      <4>3. QED
        BY <4>1, <4>2, CallsAfter
    <3>3. ASSUME NEW k \in publishing'[n], NEW o \in publishing'[n], k.env = o.env
          PROVE  k = o
      <4>1. /\ k = next \/ (k \in publishing[n] /\ k.env # call.env)
            /\ o = next \/ (o \in publishing[n] /\ o.env # call.env)
        BY CallsAfter
      <4>2. QED
        BY <3>3, <4>1 DEF RInv, EachOnce, CallsOK
    <3>4. QED
      BY <2>1, <2>3, <3>1, <3>2, <3>3
  <2>4. QED
    BY <2>2, <2>3
<1>2. SentOK'
  BY DEF SentOK, RInv, EachOnce, CallsOK
<1>3. QED
  BY <1>1, <1>2

\* The call gets past the closed check: its envelope is sent to the peers whose
\* writers it will find, and to the own channel if it has been pushed.
LEMMA PublishPushIsSend ==
  ASSUME RInv, NEW n \in Node, NEW call \in publishing[n], PublishPush(n, call)
  PROVE  EachOnce' /\ \E env \in Envelope : Abstract!Send(env)
<1> DEFINE next == [call EXCEPT !.at = "write"]
           env == call.env
           W == {p \in call.left : Usable(<<n, p>>)}
<1>1. call \in Call /\ env \in Envelope
  BY DEF RInv, IInv, TypeOK, Call
<1>2. /\ next.env = env /\ next.left = call.left /\ next.at = "write"
      /\ call.at = "push" /\ Continue(n, call, next)
      /\ sent' = sent \cup {env}
      /\ UNCHANGED <<phase, starts, connVars, published>>
  BY <1>1 DEF PublishPush, Call
<1> HIDE DEF next
<1>3. env \notin sent /\ env.from = n /\ Alive[n] /\ call.left \subseteq Peers(n, env.to)
  BY <1>2 DEF RInv, EachOnce, CallsOK
<1>4. CallsOK' /\ SentOK'
  BY <1>2, CallsOKAfter
<1>5. /\ \A k \in publishing'[n] : k = next \/ k \in publishing[n]
      /\ \A p \in Node : p # n => publishing'[p] = publishing[p]
      /\ next.left # {} => next \in publishing'[n]
      /\ \A k \in publishing[n] : k # call => k \in publishing'[n]
  BY <1>2, CallsAfter
<1>6. ASSUME NEW l \in Link
      PROVE  PlacesOK(l)'
  <2>1. PlacesOK(l) /\ l[1] \in Node
    BY LinkType DEF RInv, EachOnce
  <2>2. \A c \in Conn : Frames(l, c)' = Frames(l, c)
    BY <1>2 DEF Frames, connVars
  <2>3. \A c \in Conn : \A i \in DOMAIN Frames(l, c) : Frames(l, c)[i] # env
    BY <1>3, <2>1 DEF PlacesOK
  <2>4. \A k \in publishing'[l[1]] : k.env = env \/ k \in publishing[l[1]]
    BY <1>2, <1>5, <2>1
  <2>5. QED
    BY <1>2, <2>1, <2>2, <2>3, <2>4 DEF PlacesOK
<1>7. ASSUME NEW l \in Link
      PROVE  /\ \A e : OnLink(l, e)' <=> OnLink(l, e)
             /\ \A e : ComesTo(l, e)' <=>
                  ComesTo(l, e) \/ (l[1] = n /\ e = env /\ l[2] \in W)
  <2>1. \A e : OnLink(l, e)' <=> OnLink(l, e)
    BY <1>2 DEF OnLink, Frames, connVars
  <2>2. l = <<l[1], l[2]>> /\ l[1] \in Node
    BY LinkType, StaticNetworkAssumption DEF Link
  <2>3. Usable(l)' <=> Usable(l)
    BY <1>2 DEF Usable, connVars
  <2>4. CASE l[1] # n
    BY <1>5, <2>1, <2>2, <2>3, <2>4 DEF ComesTo
  <2>5. CASE l[1] = n
    <3>1. l[2] \in W <=> l[2] \in call.left /\ Usable(l)
      BY <2>2, <2>5
    <3>2. ASSUME NEW e, ComesTo(l, e)'
          PROVE  ComesTo(l, e) \/ (e = env /\ l[2] \in W)
      <4>1. PICK k \in publishing'[n] :
              k.at = "write" /\ l[2] \in k.left /\ k.env = e
        BY <2>5, <3>2 DEF ComesTo
      <4>2. Usable(l)
        BY <2>3, <3>2 DEF ComesTo
      <4>3. CASE k = next
        BY <1>2, <3>1, <4>1, <4>2, <4>3
      <4>4. CASE k \in publishing[n]
        BY <2>5, <4>1, <4>2, <4>4 DEF ComesTo
      <4>5. QED
        BY <1>5, <4>3, <4>4
    <3>3. ASSUME NEW e, ComesTo(l, e)
          PROVE  ComesTo(l, e)'
      <4>1. PICK k \in publishing[n] :
              k.at = "write" /\ l[2] \in k.left /\ k.env = e
        BY <2>5, <3>3 DEF ComesTo
      <4>2. k \in publishing'[n]
        BY <1>2, <1>5, <4>1
      <4>3. QED
        BY <2>3, <2>5, <3>3, <4>1, <4>2 DEF ComesTo
    <3>4. ASSUME l[2] \in W
          PROVE  ComesTo(l, env)'
      <4>1. next \in publishing'[n] /\ l[2] \in next.left /\ Usable(l)'
        BY <1>2, <1>5, <2>3, <3>1, <3>4
      <4>2. QED
        BY <1>2, <2>5, <4>1 DEF ComesTo
    <3>5. QED
      BY <2>1, <2>5, <3>2, <3>3, <3>4
  <2>6. QED
    BY <2>4, <2>5
<1>8. ASSUME NEW p \in W
      PROVE  /\ <<n, p>> \in Link /\ p \in Node /\ p # n /\ p \in env.to
             /\ Alive[p]
  <2>1. <<n, p>> \in Link /\ p \in env.to
    BY <1>3 DEF Peers
  <2>2. p \in Node /\ p # n
    BY <2>1, LinkType
  <2>3. AcceptorOK(<<n, p>>)
    BY <2>1 DEF RInv, IInv
  <2>4. writers[<<n, p>>] \in Conn
    BY <2>1 DEF Usable, RInv, IInv, TypeOK
  <2>5. Alive[p]
    BY <2>2, <2>3, <2>4 DEF AcceptorOK, Usable, Quiet, Alive
  <2>6. QED
    BY <2>1, <2>2, <2>5
<1>9. InFlight' = InFlight \cup {[dst |-> p, env |-> env] : p \in W}
  <2>1. ASSUME NEW f \in InFlight'
        PROVE  f \in InFlight \cup {[dst |-> p, env |-> env] : p \in W}
    <3>1. PICK l \in Link : /\ f = [dst |-> l[2], env |-> f.env]
                            /\ OnLink(l, f.env)' \/ ComesTo(l, f.env)'
      BY InFlightWillBe
    <3>2. CASE OnLink(l, f.env) \/ ComesTo(l, f.env)
      BY <3>1, <3>2, InFlightIs
    <3>3. CASE l[1] = n /\ f.env = env /\ l[2] \in W
      BY <3>1, <3>3
    <3>4. \/ OnLink(l, f.env) \/ ComesTo(l, f.env)
          \/ l[1] = n /\ f.env = env /\ l[2] \in W
      BY <1>7, <3>1
    <3>5. QED
      BY <3>2, <3>3, <3>4
  <2>2. ASSUME NEW f \in InFlight
        PROVE  f \in InFlight'
    <3>1. PICK l \in Link : /\ f = [dst |-> l[2], env |-> f.env]
                            /\ OnLink(l, f.env) \/ ComesTo(l, f.env)
      BY InFlightIs
    <3>2. QED
      BY <1>7, <3>1, InFlightWillBe
  <2>3. ASSUME NEW p \in W
        PROVE  [dst |-> p, env |-> env] \in InFlight'
    <3> DEFINE f == [dst |-> p, env |-> env]
               l == <<n, p>>
    <3>1. l \in Link /\ l[1] = n /\ l[2] = p /\ f.env = env /\ f.dst = p
      BY <1>8
    <3>2. ComesTo(l, f.env)'
      BY <1>7, <3>1
    <3>3. f = [dst |-> l[2], env |-> f.env]
      BY <3>1
    <3>4. QED
      BY <3>1, <3>2, <3>3, InFlightWillBe
  <2>4. QED
    BY <2>1, <2>2, <2>3
<1>10. PICK own \in {{}, {n}} :
         /\ own \subseteq env.to
         /\ inCh' = IF n \in own
                      THEN [inCh EXCEPT ![n] = Abstract!PushInbound(@, env)]
                      ELSE inCh
  <2>1. CASE n \in env.to /\ inCh' = [inCh EXCEPT ![n] = Abstract!PushInbound(@, env)]
    BY <2>1
  <2>2. CASE UNCHANGED inCh
    BY <2>2
  <2>3. QED
    BY <2>1, <2>2 DEF PublishPush, PushInbound
<1>11. Abstract!Publish(n, own \cup W, env)
  <2>1. n \in own \cup W <=> n \in own
    BY <1>8
  <2>2. {q \in (own \cup W) \ {n} : Alive[q]} = W
    BY <1>8, <1>10
  <2>3. QED
    BY <1>9, <1>10, <2>1, <2>2 DEF Abstract!Publish, Abstract!Frame
<1>12. Abstract!Send(env)
  <2>1. own \cup W \in SUBSET env.to
    BY <1>8, <1>10
  <2>2. UNCHANGED Alive
    BY <1>2 DEF Alive
  <2>3. QED
    BY <1>2, <1>3, <1>11, <2>1, <2>2 DEF Abstract!Send
<1>13. QED
  BY <1>1, <1>4, <1>6, <1>12 DEF EachOnce

\* The frame is written: from now on it is on the connection instead of with
\* the call, or it is lost.
LEMMA PublishWriteFades ==
  ASSUME RInv, NEW n \in Node, NEW call \in publishing[n], NEW p \in call.left,
         PublishWrite(n, call, p)
  PROVE  EachOnce' /\ Abstract!Lose
<1> DEFINE next == [call EXCEPT !.left = @ \ {p}]
           env == call.env
           l == <<n, p>>
<1>0. PICK c : c = writers[l]
  OBVIOUS
<1>1. call \in Call /\ env \in Envelope
  BY DEF RInv, IInv, TypeOK, Call
<1>2. /\ next.env = env /\ next.left = call.left \ {p} /\ next.at = "write"
      /\ call.at = "write" /\ Continue(n, call, next)
      /\ UNCHANGED <<phase, starts, dial, watched, writers, inCh, published, sent>>
      /\ conn' = IF Usable(l)
                   THEN [conn EXCEPT ![l][c].frames = Append(@, env)]
                   ELSE conn
  BY <1>0, <1>1 DEF PublishWrite, Call
<1> HIDE DEF next
<1>3. env \in sent /\ env.from = n /\ call.left \subseteq Peers(n, env.to)
  BY <1>2 DEF RInv, EachOnce, CallsOK
<1>4. l \in Link /\ l[1] = n /\ l[2] = p
  BY <1>3 DEF Peers
<1> HIDE DEF l
<1>5. CallsOK' /\ SentOK'
  <2>1. sent' = sent \cup {env}
    BY <1>2, <1>3
  <2>2. QED
    BY <1>2, <2>1, CallsOKAfter
<1>6. /\ \A k \in publishing'[n] :
           \/ k = next
           \/ k \in publishing[n] /\ k # call /\ k.env # env
      /\ \A q \in Node : q # n => publishing'[q] = publishing[q]
  BY <1>2, CallsAfter
<1>7. Usable(l) => c \in Conn
  BY <1>0, <1>4 DEF Usable, RInv, IInv, TypeOK
<1>8. conn \in [Link -> [Conn -> ConnState]]
  BY DEF RInv, IInv, TypeOK
<1>9. ASSUME NEW k \in Link, NEW d \in Conn
      PROVE  /\ Frames(k, d) \in Seq(Envelope)
             /\ Frames(k, d)' = IF k = l /\ Usable(l) /\ d = c
                                  THEN Append(Frames(k, d), env)
                                  ELSE Frames(k, d)
             /\ conn'[k][d].dialer = conn[k][d].dialer
             /\ conn'[k][d].acceptor = conn[k][d].acceptor
  <2>1. conn[k][d] \in ConnState
    BY <1>8
  <2>2. CASE ~Usable(l) \/ k # l \/ d # c
    BY <1>2, <1>8, <2>1, <2>2 DEF Frames, ConnState
  <2>3. CASE Usable(l) /\ k = l /\ d = c
    <3>1. conn'[k][d] = [conn[k][d] EXCEPT !.frames = Append(@, env)]
      BY <1>2, <1>7, <1>8, <2>3
    <3>2. QED
      BY <2>1, <2>3, <3>1 DEF Frames, ConnState
  <2>4. QED
    BY <2>2, <2>3
<1>10. \A k \in Link : Usable(k)' <=> Usable(k)
  <2> SUFFICES ASSUME NEW k \in Link PROVE Usable(k)' <=> Usable(k)
    OBVIOUS
  <2>1. writers' = writers /\ (writers[k] = 0 \/ writers[k] \in Conn)
    BY <1>2 DEF RInv, IInv, TypeOK
  <2>2. QED
    BY <1>9, <2>1 DEF Usable
<1>11. ASSUME NEW k \in Link
       PROVE  PlacesOK(k)'
  <2>1. PlacesOK(k) /\ k[1] \in Node
    BY LinkType DEF RInv, EachOnce
  <2>2. CASE ~(k = l /\ Usable(l))
    <3>1. \A d \in Conn : Frames(k, d)' = Frames(k, d)
      BY <1>9, <2>2
    <3>2. \A o \in publishing'[k[1]] : \E q \in publishing[k[1]] :
            q.env = o.env /\ o.left \subseteq q.left
      BY <1>2, <1>6, <2>1
    <3>3. QED
      BY <1>2, <2>1, <3>1, <3>2 DEF PlacesOK
  <2>3. CASE k = l /\ Usable(l)
    <3>1. /\ \A d \in Conn : d # c => Frames(k, d)' = Frames(k, d)
          /\ Frames(k, c)' = Append(Frames(k, c), env)
      <4>1. c \in Conn
        BY <1>7, <2>3
      <4>2. Frames(k, c)' = Append(Frames(k, c), env)
        BY <1>9, <2>3, <4>1
      <4>3. ASSUME NEW d \in Conn, d # c
            PROVE  Frames(k, d)' = Frames(k, d)
        BY <1>9, <4>3
      <4>4. QED
        BY <4>2, <4>3
    <3>2. \A d \in Conn : \A i \in DOMAIN Frames(k, d) : Frames(k, d)[i] # env
      BY <1>4, <2>1, <2>3 DEF PlacesOK
    <3>3. ASSUME NEW d \in Conn, NEW i \in DOMAIN Frames(k, d)'
          PROVE  \/ i \in DOMAIN Frames(k, d) /\ Frames(k, d)'[i] = Frames(k, d)[i]
                 \/ /\ d = c /\ i = Len(Frames(k, c)) + 1
                    /\ Frames(k, d)'[i] = env
      BY <1>9, <3>1
    <3>4. ASSUME NEW d \in Conn, NEW i \in DOMAIN Frames(k, d)'
          PROVE  Frames(k, d)'[i] \in sent /\ Frames(k, d)'[i].from = k[1]
      BY <1>3, <1>4, <2>1, <2>3, <3>3 DEF PlacesOK
    <3>5. ASSUME NEW d \in Conn, NEW e \in Conn,
                 NEW i \in DOMAIN Frames(k, d)', NEW j \in DOMAIN Frames(k, e)',
                 Frames(k, d)'[i] = Frames(k, e)'[j]
          PROVE  d = e /\ i = j
      <4>1. CASE i \in DOMAIN Frames(k, d) /\ Frames(k, d)'[i] = Frames(k, d)[i]
        <5>1. Frames(k, e)'[j] # env
          BY <3>2, <3>5, <4>1
        <5>2. j \in DOMAIN Frames(k, e) /\ Frames(k, e)'[j] = Frames(k, e)[j]
          BY <3>3, <5>1
        <5>3. Frames(k, d)[i] = Frames(k, e)[j]
          BY <3>5, <4>1, <5>2
        <5>4. QED
          BY <2>1, <4>1, <5>2, <5>3 DEF PlacesOK
      <4>2. CASE d = c /\ i = Len(Frames(k, c)) + 1 /\ Frames(k, d)'[i] = env
        <5>1. ~(j \in DOMAIN Frames(k, e) /\ Frames(k, e)'[j] = Frames(k, e)[j])
          BY <3>2, <3>5, <4>2
        <5>2. QED
          BY <3>3, <4>2, <5>1
      <4>3. QED
        BY <3>3, <4>1, <4>2
    <3>6. ASSUME NEW o \in publishing'[k[1]], NEW d \in Conn,
                 NEW i \in DOMAIN Frames(k, d)', Frames(k, d)'[i] = o.env
          PROVE  k[2] \notin o.left
      <4>1. CASE o = next
        <5>1. CASE Frames(k, d)'[i] = env
          BY <1>2, <1>4, <2>3, <4>1
        <5>2. QED
          BY <1>2, <1>4, <2>3, <4>1
      <4>2. CASE o \in publishing[n] /\ o.env # env
        <5>1. i \in DOMAIN Frames(k, d) /\ Frames(k, d)'[i] = Frames(k, d)[i]
          BY <3>3, <3>6, <4>2
        <5>2. QED
          BY <1>4, <2>1, <2>3, <3>6, <4>2, <5>1 DEF PlacesOK
      <4>3. QED
        BY <1>4, <1>6, <2>3, <4>1, <4>2
    <3>7. QED
      BY <1>2, <3>4, <3>5, <3>6 DEF PlacesOK
  <2>4. QED
    BY <2>2, <2>3
<1>12. ASSUME NEW f \in InFlight'
       PROVE  f \in InFlight
  <2>1. PICK k \in Link : /\ f = [dst |-> k[2], env |-> f.env]
                          /\ OnLink(k, f.env)' \/ ComesTo(k, f.env)'
    BY InFlightWillBe
  <2>2. CASE OnLink(k, f.env)'
    <3>1. PICK d \in Conn : \E i \in DOMAIN Frames(k, d)' :
                              Frames(k, d)'[i] = f.env
      BY <2>2 DEF OnLink
    <3>2. CASE Frames(k, d)' = Frames(k, d)
      <4>1. OnLink(k, f.env)
        BY <3>1, <3>2 DEF OnLink
      <4>2. QED
        BY <2>1, <4>1, InFlightIs
    <3>3. CASE k = l /\ Usable(l) /\ Frames(k, d)' = Append(Frames(k, d), env)
      <4>1. OnLink(k, f.env) \/ f.env = env
        BY <1>9, <3>1, <3>3 DEF OnLink
      <4>2. ComesTo(k, env)
        BY <1>2, <1>4, <3>3 DEF ComesTo
      <4>3. QED
        BY <2>1, <4>1, <4>2, InFlightIs
    <3>4. QED
      BY <1>9, <3>2, <3>3
  <2>3. CASE ComesTo(k, f.env)'
    <3>1. Usable(k) /\ k[1] \in Node
      BY <1>10, <2>3, LinkType DEF ComesTo
    <3>2. PICK o \in publishing'[k[1]] :
            o.at = "write" /\ k[2] \in o.left /\ o.env = f.env
      BY <2>3 DEF ComesTo
    <3>3. \E q \in publishing[k[1]] :
            q.at = "write" /\ k[2] \in q.left /\ q.env = f.env
      BY <1>2, <1>6, <3>1, <3>2
    <3>4. QED
      BY <2>1, <3>1, <3>3, InFlightIs DEF ComesTo
  <2>4. QED
    BY <2>1, <2>2, <2>3
<1>13. Abstract!Lose
  <2>1. (InFlight \ InFlight') \in SUBSET InFlight
    OBVIOUS
  <2>2. InFlight' = InFlight \ (InFlight \ InFlight')
    BY <1>12
  <2>3. UNCHANGED <<Alive, inCh, sent>>
    BY <1>2 DEF Alive
  <2>4. QED
    BY <2>1, <2>2, <2>3 DEF Abstract!Lose
<1>14. QED
  BY <1>5, <1>11, <1>13 DEF EachOnce

------------------------------------------------------------------------------
\* The acceptor's readLoop reads a frame, of which there is no other copy.
LEMMA AcceptorReadsIsRead ==
  ASSUME RInv, NEW l \in Link, NEW c \in Conn, AcceptorReads(l, c)
  PROVE  EachOnce' /\ (Abstract!Read \/ Abstract!Lose)
<1> DEFINE env == Head(Frames(l, c))
           f == [dst |-> l[2], env |-> env]
<1>1. conn \in [Link -> [Conn -> ConnState]]
  BY DEF RInv, IInv, TypeOK
<1>2. \A k \in Link, d \in Conn : Frames(k, d) \in Seq(Envelope)
  BY <1>1 DEF Frames, ConnState
<1>3. /\ Frames(l, c) # <<>>
      /\ conn' = [conn EXCEPT ![l][c].frames = Tail(@)]
      /\ PushInbound(l[2], env)
      /\ UNCHANGED <<phase, starts, dial, watched, writers, callVars>>
  BY DEF AcceptorReads, Frames
<1>4. ASSUME NEW k \in Link, NEW d \in Conn
      PROVE  /\ Frames(k, d)' = IF k = l /\ d = c THEN Tail(Frames(k, d))
                                                  ELSE Frames(k, d)
             /\ conn'[k][d].dialer = conn[k][d].dialer
             /\ conn'[k][d].acceptor = conn[k][d].acceptor
  <2>1. conn[k][d] \in ConnState
    BY <1>1
  <2>2. CASE k = l /\ d = c
    <3>1. conn'[k][d] = [conn[k][d] EXCEPT !.frames = Tail(@)]
      BY <1>1, <1>3, <2>2
    <3>2. QED
      BY <2>1, <2>2, <3>1 DEF Frames, ConnState
  <2>3. CASE k # l \/ d # c
    BY <1>1, <1>3, <2>1, <2>3 DEF Frames, ConnState
  <2>4. QED
    BY <2>2, <2>3
<1>5. ASSUME NEW k \in Link, NEW d \in Conn, NEW i \in DOMAIN Frames(k, d)'
      PROVE  /\ ~(k = l /\ d = c) => /\ i \in DOMAIN Frames(k, d)
                                     /\ Frames(k, d)'[i] = Frames(k, d)[i]
             /\ k = l /\ d = c => /\ i + 1 \in DOMAIN Frames(k, d)
                                  /\ i \in Nat /\ i + 1 # 1
                                  /\ Frames(k, d)'[i] = Frames(k, d)[i + 1]
  <2>1. CASE ~(k = l /\ d = c)
    BY <1>4, <2>1
  <2>2. CASE k = l /\ d = c
    <3>1. Frames(l, c)' = Tail(Frames(l, c)) /\ i \in DOMAIN Frames(l, c)'
      BY <1>4, <2>2
    <3>2. Frames(l, c) \in Seq(Envelope) /\ Frames(l, c) # <<>>
      BY <1>2, <1>3
    <3>3. /\ i \in 1 .. Len(Frames(l, c)) - 1
          /\ Tail(Frames(l, c))[i] = Frames(l, c)[i + 1]
      BY <3>1, <3>2
    <3>4. QED
      BY <2>2, <3>1, <3>2, <3>3
  <2>3. QED
    BY <2>1, <2>2
<1>6. 1 \in DOMAIN Frames(l, c) /\ env = Frames(l, c)[1]
  BY <1>2, <1>3
<1>7. CallsOK' /\ SentOK'
  BY <1>3 DEF RInv, EachOnce, CallsOK, SentOK, callVars, Peers, Alive
<1>8. ASSUME NEW k \in Link
      PROVE  PlacesOK(k)'
  <2>1. PlacesOK(k)
    BY DEF RInv, EachOnce
  <2>2. UNCHANGED <<publishing, sent>>
    BY <1>3 DEF callVars
  <2>3. ASSUME NEW d \in Conn, NEW i \in DOMAIN Frames(k, d)'
        PROVE  \E j \in DOMAIN Frames(k, d) : Frames(k, d)'[i] = Frames(k, d)[j]
    BY <1>5
  <2>4. ASSUME NEW d \in Conn, NEW e \in Conn,
               NEW i \in DOMAIN Frames(k, d)', NEW j \in DOMAIN Frames(k, e)',
               Frames(k, d)'[i] = Frames(k, e)'[j]
        PROVE  d = e /\ i = j
    <3>1. d = e
      BY <2>1, <2>3, <2>4 DEF PlacesOK
    <3>2. CASE k = l /\ d = c
      <4>1. /\ i + 1 \in DOMAIN Frames(k, d) /\ i \in Nat
            /\ Frames(k, d)'[i] = Frames(k, d)[i + 1]
        BY <1>5, <3>2
      <4>2. /\ j + 1 \in DOMAIN Frames(k, d) /\ j \in Nat
            /\ Frames(k, d)'[j] = Frames(k, d)[j + 1]
        BY <1>5, <3>1, <3>2
      <4>3. i + 1 = j + 1
        BY <2>1, <2>4, <3>1, <4>1, <4>2 DEF PlacesOK
      <4>4. QED
        BY <3>1, <4>1, <4>2, <4>3
    <3>3. CASE ~(k = l /\ d = c)
      <4>1. /\ i \in DOMAIN Frames(k, d) /\ j \in DOMAIN Frames(k, d)
            /\ Frames(k, d)[i] = Frames(k, d)[j]
        BY <1>5, <2>4, <3>1, <3>3
      <4>2. QED
        BY <2>1, <3>1, <4>1 DEF PlacesOK
    <3>4. QED
      BY <3>2, <3>3
  <2>5. ASSUME NEW d \in Conn, NEW i \in DOMAIN Frames(k, d)'
        PROVE  /\ Frames(k, d)'[i] \in sent /\ Frames(k, d)'[i].from = k[1]
               /\ \A call \in publishing[k[1]] :
                    Frames(k, d)'[i] = call.env => k[2] \notin call.left
    BY <2>1, <2>3 DEF PlacesOK
  <2>6. QED
    BY <2>2, <2>4, <2>5 DEF PlacesOK
<1>9. \A k \in Link : Usable(k)' <=> Usable(k)
  <2> SUFFICES ASSUME NEW k \in Link PROVE Usable(k)' <=> Usable(k)
    OBVIOUS
  <2>1. writers' = writers /\ (writers[k] = 0 \/ writers[k] \in Conn)
    BY <1>3 DEF RInv, IInv, TypeOK
  <2>2. QED
    BY <1>4, <2>1 DEF Usable
<1>10. \A k \in Link : \A e : ComesTo(k, e)' <=> ComesTo(k, e)
  BY <1>3, <1>9 DEF ComesTo, callVars
<1>11. f \in InFlight
  <2>1. OnLink(l, f.env)
    BY <1>6 DEF OnLink
  <2>2. QED
    BY <2>1, InFlightIs
<1>12. ASSUME NEW g \in InFlight'
       PROVE  g \in InFlight /\ g # f
  <2>1. PICK k \in Link : /\ g = [dst |-> k[2], env |-> g.env]
                          /\ OnLink(k, g.env)' \/ ComesTo(k, g.env)'
    BY InFlightWillBe
  <2>2. CASE OnLink(k, g.env)'
    <3>1. PICK d \in Conn : \E i \in DOMAIN Frames(k, d)' :
                              Frames(k, d)'[i] = g.env
      BY <2>2 DEF OnLink
    <3>2. PICK j \in DOMAIN Frames(k, d) : /\ Frames(k, d)[j] = g.env
                                           /\ k = l /\ d = c => j # 1
      <4>1. CASE k = l /\ d = c
        BY <1>5, <3>1, <4>1
      <4>2. CASE ~(k = l /\ d = c)
        BY <1>5, <3>1, <4>2
      <4>3. QED
        BY <4>1, <4>2
    <3>3. OnLink(k, g.env)
      BY <3>2 DEF OnLink
    <3>4. g \in InFlight
      BY <2>1, <3>3, InFlightIs
    <3>5. ASSUME g = f
          PROVE  FALSE
      <4>1. k[2] = l[2] /\ g.env = env
        BY <2>1, <3>5
      <4>2. OnLink(l, env)
        BY <1>6 DEF OnLink
      <4>3. k = l
        BY <3>3, <4>1, <4>2, LinkOfFrame
      <4>4. PlacesOK(l)
        BY DEF RInv, EachOnce
      <4>5. d = c /\ j = 1
        BY <1>6, <3>2, <4>1, <4>3, <4>4 DEF PlacesOK
      <4>6. QED
        BY <3>2, <4>3, <4>5
    <3>6. QED
      BY <3>4, <3>5
  <2>3. CASE ComesTo(k, g.env)'
    <3>1. ComesTo(k, g.env)
      BY <1>10, <2>3
    <3>2. g \in InFlight
      BY <2>1, <3>1, InFlightIs
    <3>3. ASSUME g = f
          PROVE  FALSE
      <4>1. k[2] = l[2] /\ g.env = env
        BY <2>1, <3>3
      <4>2. OnLink(l, env)
        BY <1>6 DEF OnLink
      <4>3. k = l
        BY <3>1, <4>1, <4>2, LinkOfFrame
      <4>4. PlacesOK(l)
        BY DEF RInv, EachOnce
      <4>5. QED
        BY <1>6, <3>1, <4>1, <4>3, <4>4 DEF PlacesOK, ComesTo
    <3>4. QED
      BY <3>2, <3>3
  <2>4. QED
    BY <2>1, <2>2, <2>3
<1>13. ASSUME NEW g \in InFlight, g # f
       PROVE  g \in InFlight'
  <2>1. PICK k \in Link : /\ g = [dst |-> k[2], env |-> g.env]
                          /\ OnLink(k, g.env) \/ ComesTo(k, g.env)
    BY InFlightIs
  <2>2. CASE OnLink(k, g.env)
    <3>0. PICK d \in Conn : \E i \in DOMAIN Frames(k, d) : Frames(k, d)[i] = g.env
      BY <2>2 DEF OnLink
    <3>1. PICK i \in DOMAIN Frames(k, d) : Frames(k, d)[i] = g.env
      BY <3>0
    <3>2. CASE ~(k = l /\ d = c)
      <4>1. Frames(k, d)' = Frames(k, d)
        BY <1>4, <3>2
      <4>2. OnLink(k, g.env)'
        BY <3>1, <4>1 DEF OnLink
      <4>3. QED
        BY <2>1, <4>2, InFlightWillBe
    <3>3. CASE k = l /\ d = c
      <4>1. i # 1
        BY <1>6, <1>13, <2>1, <3>1, <3>3
      <4>2. /\ Frames(l, c) \in Seq(Envelope) /\ Frames(l, c) # <<>>
            /\ Frames(l, c)' = Tail(Frames(l, c))
        BY <1>2, <1>3, <1>4
      <4>3. i - 1 \in DOMAIN Frames(l, c)' /\ Frames(l, c)'[i - 1] = g.env
        BY <3>1, <3>3, <4>1, <4>2
      <4>4. OnLink(k, g.env)'
        BY <3>3, <4>3 DEF OnLink
      <4>5. QED
        BY <2>1, <4>4, InFlightWillBe
    <3>4. QED
      BY <3>2, <3>3
  <2>3. CASE ComesTo(k, g.env)
    BY <1>10, <2>1, <2>3, InFlightWillBe
  <2>4. QED
    BY <2>1, <2>2, <2>3
<1>14. InFlight' = InFlight \ {f}
  BY <1>11, <1>12, <1>13
<1>15. Alive' = Alive /\ sent' = sent
  BY <1>3 DEF Alive, callVars
<1>16. CASE inCh' = [inCh EXCEPT ![l[2]] = Abstract!PushInbound(@, env)]
  <2>1. Abstract!ReadLoop(f)
    BY <1>11, <1>14, <1>15, <1>16 DEF Abstract!ReadLoop
  <2>2. QED
    BY <1>7, <1>8, <1>11, <1>15, <2>1 DEF EachOnce, Abstract!Read
<1>17. CASE UNCHANGED inCh
  <2>1. {f} \in SUBSET InFlight
    BY <1>11
  <2>2. Abstract!Lose
    BY <1>14, <1>15, <1>17, <2>1 DEF Abstract!Lose
  <2>3. QED
    BY <1>7, <1>8, <2>2 DEF EachOnce
<1>18. QED
  BY <1>3, <1>16, <1>17 DEF PushInbound

------------------------------------------------------------------------------
\* A process ends: its calls, its channel and what comes to it are gone.
LEMMA EndProcessIsEnd ==
  ASSUME RInv, NEW n \in Node, Alive[n], EndProcess(n)
  PROVE  EachOnce' /\ Abstract!End(n)
<1>1. /\ phase' = [phase EXCEPT ![n] = "off"]
      /\ writers' = [l \in Link |-> IF l[1] = n THEN 0 ELSE writers[l]]
      /\ inCh' = [inCh EXCEPT ![n] = <<>>]
      /\ publishing' = [publishing EXCEPT ![n] = {}]
      /\ UNCHANGED <<starts, published, sent>>
  BY DEF EndProcess
<1>2. ASSUME NEW l \in Link, NEW c \in Conn
      PROVE  /\ Frames(l, c)' \in {Frames(l, c), <<>>}
             /\ l[2] = n => Frames(l, c)' = <<>> /\ conn'[l][c].acceptor = "closed"
             /\ l[1] # n /\ l[2] # n => conn'[l][c] = conn[l][c]
  <2>1. conn[l][c] \in ConnState /\ l[1] # l[2]
    BY LinkType DEF RInv, IInv, TypeOK
  <2>2. conn'[l][c] =
          IF l[1] = n THEN [conn[l][c] EXCEPT !.dialer = FALSE, !.reader = FALSE]
          ELSE IF l[2] = n THEN [conn[l][c] EXCEPT !.acceptor = "closed",
                                                   !.frames = <<>>]
          ELSE conn[l][c]
    BY DEF EndProcess
  <2>3. CASE l[1] = n
    BY <2>1, <2>2, <2>3 DEF Frames, ConnState
  <2>4. CASE l[2] = n
    <3>1. conn'[l][c] =
            [conn[l][c] EXCEPT !.acceptor = "closed", !.frames = <<>>]
      BY <2>1, <2>2, <2>4
    <3>2. conn'[l][c].acceptor = "closed" /\ conn'[l][c].frames = <<>>
      BY <2>1, <3>1, ResetType
    <3>3. QED
      BY <2>1, <2>4, <3>2 DEF Frames
  <2>5. CASE l[1] # n /\ l[2] # n
    BY <2>2, <2>5 DEF Frames
  <2>6. QED
    BY <2>3, <2>4, <2>5
<1>3. /\ publishing'[n] = {}
      /\ \A p \in Node : p # n => publishing'[p] = publishing[p]
  BY <1>1 DEF RInv, IInv, TypeOK
<1>4. Alive' = [Alive EXCEPT ![n] = FALSE]
  BY <1>1 DEF Alive, RInv, IInv, TypeOK
<1>5. CallsOK' /\ SentOK'
  <2>1. \A p \in Node : p # n => Alive'[p] = Alive[p]
    BY <1>4 DEF Alive
  <2>2. QED
    BY <1>1, <1>3, <2>1 DEF RInv, EachOnce, CallsOK, SentOK, Peers
<1>6. ASSUME NEW l \in Link
      PROVE  PlacesOK(l)'
  <2>1. PlacesOK(l) /\ l[1] \in Node
    BY LinkType DEF RInv, EachOnce
  <2>2. ASSUME NEW c \in Conn
        PROVE  \A i \in DOMAIN Frames(l, c)' :
                 i \in DOMAIN Frames(l, c) /\ Frames(l, c)'[i] = Frames(l, c)[i]
    <3>1. CASE Frames(l, c)' = Frames(l, c)
      BY <3>1
    <3>2. CASE Frames(l, c)' = <<>>
      BY <3>2
    <3>3. QED
      BY <1>2, <3>1, <3>2
  <2>3. publishing'[l[1]] \subseteq publishing[l[1]] /\ sent' = sent
    BY <1>1, <1>3, <2>1
  <2>4. QED
    BY <2>1, <2>2, <2>3 DEF PlacesOK
<1>7. ASSUME NEW f \in InFlight'
      PROVE  f \in {g \in InFlight : g.dst # n}
  <2>1. PICK l \in Link : /\ f = [dst |-> l[2], env |-> f.env]
                          /\ OnLink(l, f.env)' \/ ComesTo(l, f.env)'
    BY InFlightWillBe
  <2>2. CASE OnLink(l, f.env)'
    <3>1. PICK c \in Conn : \E i \in DOMAIN Frames(l, c)' :
                              Frames(l, c)'[i] = f.env
      BY <2>2 DEF OnLink
    <3>2. Frames(l, c)' = Frames(l, c) /\ l[2] # n
      <4>1. Frames(l, c)' # <<>>
        BY <3>1
      <4>2. QED
        BY <1>2, <4>1
    <3>3. OnLink(l, f.env)
      BY <3>1, <3>2 DEF OnLink
    <3>4. f.dst # n
      BY <2>1, <3>2
    <3>5. QED
      BY <2>1, <3>3, <3>4, InFlightIs
  <2>3. CASE ComesTo(l, f.env)'
    <3>1. l[1] # n /\ l[1] \in Node
      BY <1>3, <2>3, LinkType DEF ComesTo
    <3>2. writers'[l] = writers[l] /\ writers[l] \in Conn
      BY <1>1, <2>3, <3>1 DEF ComesTo, Usable, RInv, IInv, TypeOK
    <3>3. l[2] # n
      BY <1>2, <2>3, <3>2 DEF ComesTo, Usable
    <3>4. conn'[l][writers[l]] = conn[l][writers[l]]
      BY <1>2, <3>1, <3>2, <3>3
    <3>5. ComesTo(l, f.env)
      BY <1>3, <2>3, <3>1, <3>2, <3>4 DEF ComesTo, Usable
    <3>6. f.dst # n
      BY <2>1, <3>3
    <3>7. QED
      BY <2>1, <3>5, <3>6, InFlightIs
  <2>4. QED
    BY <2>1, <2>2, <2>3
<1>8. Abstract!End(n)
  <2>1. InFlight' \in SUBSET {f \in InFlight : f.dst # n}
    BY <1>7
  <2>2. QED
    BY <1>1, <1>4, <2>1 DEF Abstract!End
<1>9. QED
  BY <1>5, <1>6, <1>8 DEF EachOnce

------------------------------------------------------------------------------
LEMMA NextImplements ==
  ASSUME RInv, [Next]_vars
  PROVE  RInv' /\ [Abstract!Next]_(Abstract!vars)
<1>1. IInv'
  BY NextPreservesIInv DEF RInv
<1>2. ASSUME NEW l \in Link, DialLoop(l) \/ HeartbeatInterrupts(l)
      PROVE  EachOnce' /\ [Abstract!Next]_(Abstract!vars)
  BY <1>2, DialLoopFades, HeartbeatFades
<1>3. ASSUME NEW l \in Link, NEW c \in Conn, ReadLoops(l, c)
      PROVE  EachOnce' /\ [Abstract!Next]_(Abstract!vars)
  <2>1. CASE AcceptorReads(l, c)
    BY <2>1, AcceptorReadsIsRead DEF Abstract!Next
  <2>2. CASE ~AcceptorReads(l, c)
    BY <1>3, <2>2, EndsFade DEF ReadLoops
  <2>3. QED
    BY <2>1, <2>2
<1>4. ASSUME NEW n \in Node, Take(n) \/ Start(n)
      PROVE  EachOnce' /\ [Abstract!Next]_(Abstract!vars)
  BY <1>4, TakeIsTake, StartIsBegin DEF Abstract!Next, Abstract!Node, Node
<1>5. ASSUME NEW n \in Node, NEW to \in {Node} \cup {{p} : p \in Node},
             PublishCall(n, to)
      PROVE  EachOnce' /\ [Abstract!Next]_(Abstract!vars)
  BY <1>5, PublishCallStutters
<1>6. ASSUME NEW n \in Node, PublishStep(n)
      PROVE  EachOnce' /\ [Abstract!Next]_(Abstract!vars)
  <2>1. PICK call \in publishing[n] :
          \/ PublishPush(n, call)
          \/ \E p \in call.left : PublishWrite(n, call, p)
    BY <1>6 DEF PublishStep
  <2>2. CASE PublishPush(n, call)
    BY <2>2, PublishPushIsSend DEF Abstract!Next
  <2>3. CASE \E p \in call.left : PublishWrite(n, call, p)
    BY <2>3, PublishWriteFades DEF Abstract!Next
  <2>4. QED
    BY <2>1, <2>2, <2>3
<1>7. ASSUME NEW n \in Node,
             Cancel(n) \/ CloseListener(n) \/ CloseWriters(n) \/ StopReturns(n)
      PROVE  EachOnce' /\ [Abstract!Next]_(Abstract!vars)
  BY <1>7, StoppingFades
<1>8. ASSUME NEW n \in Node, Exit(n) \/ PanicOnClosedChannel(n) \/ Crash(n)
      PROVE  EachOnce' /\ [Abstract!Next]_(Abstract!vars)
  <2>1. Alive[n] /\ EndProcess(n)
    BY <1>8 DEF Exit, PanicOnClosedChannel, Crash, Alive
  <2>2. QED
    BY <2>1, EndProcessIsEnd DEF Abstract!Next, Abstract!Node, Node
<1>9. ASSUME UNCHANGED vars
      PROVE  EachOnce' /\ [Abstract!Next]_(Abstract!vars)
  <2>1. UNCHANGED <<phase, writers, conn, inCh, callVars>>
    BY <1>9 DEF vars, connVars
  <2>2. /\ Alive' = Alive
        /\ \A k \in Link, d \in Conn : Frames(k, d)' = Frames(k, d)
        /\ \A k \in Link : Usable(k)' => Usable(k)
    BY <2>1 DEF Alive, Frames, Usable
  <2>3. QED
    BY <2>1, <2>2, NothingAppears
<1>10. EachOnce' /\ [Abstract!Next]_(Abstract!vars)
  BY <1>2, <1>3, <1>4, <1>5, <1>6, <1>7, <1>8, <1>9 DEF Next, Stop
<1>11. QED
  BY <1>1, <1>10 DEF RInv

\* An envelope is in one place of a link at most: on one connection, once, or
\* still with the Publish that has to write it (readLoop, Publish, the redial).
THEOREM EachEnvelopeOnce == Spec => []RInv
<1>1. Init => RInv
  BY InitEstablishesRInv
<1>2. RInv /\ [Next]_vars => RInv'
  BY NextImplements
<1>3. QED
  BY <1>1, <1>2, PTL DEF Spec

\* The connections keep the promises of the transport: through redials, the
\* heartbeat, crashes, restarts and Stop, an envelope reaches only nodes it is
\* addressed to, each of them at most once.
THEOREM ConnectionsAreATransport == Spec => ImplementsTransport
<1>1. Init => Abstract!Init
  BY InitIsInit
<1>2. RInv /\ [Next]_vars => [Abstract!Next]_(Abstract!vars)
  BY NextImplements
<1>3. QED
  BY <1>1, <1>2, EachEnvelopeOnce, PTL
     DEF Spec, ImplementsTransport, Abstract!Spec
================================================================================
