------------------------------ MODULE NodeConfigs ------------------------------
(***************************************************************************)
(* The configuration files of the nodes (internal/config/config.go), as    *)
(* scripts/gen.sh writes them, the add-peer commands that edit them        *)
(* (runAddPeer of both binaries, scripts/addPeer.sh), and the processes    *)
(* that load them when they start (runNode).                               *)
(*                                                                         *)
(* A member of the committee is a position in static_nodes, and every      *)
(* process takes the positions from a file of its own: the committee works *)
(* as long as all of these files put the same member at the same place.    *)
(* add-peer goes over the files one after the other, and none of its steps *)
(* is protected against another command, a kill or a process that starts.  *)
(*                                                                         *)
(* Data.  A node is named by the rank of its name in the order of strings, *)
(* in which node-10 comes before node-2.                                   *)
(***************************************************************************)
EXTENDS Naturals, Sequences, FiniteSets, SequencesExt

CONSTANTS
  Generated,  \* the names gen.sh has written files for, in their order
  Stale,      \* those of an earlier, larger call, whose files are still there
  Threshold,  \* the threshold in all files
  NoAddr,     \* no address
  OwnAddr,    \* the address gen.sh gives a node
  Command,    \* the add-peer commands operators give
  All,        \* "-from all"
  MaxKills,   \* bound: how many commands are interrupted
  Empty,      \* the content of a truncated file
  Garbage,    \* a content with the rest of a longer one behind it
  Missing,    \* there is no such file
  NotRunning  \* no process

(***************************************************************************)
(* A command names a tool, the files to edit, a peer and an address.  The  *)
(* CLI refuses an empty address, and the script does not.                  *)
(***************************************************************************)
ASSUME NodeConfigsAssumption ==
  /\ Generated \in Seq(Nat) /\ IsInjective(Generated)
  /\ Stale \in Seq(Nat) /\ IsInjective(Stale)
  /\ IsPrefix(Generated, Stale)
  /\ Threshold \in 1 .. Len(Generated)
  /\ NoAddr # OwnAddr
  /\ IsFiniteSet(Command)
  /\ \A c \in Command :
       /\ c.tool \in {"cli", "script"}
       /\ c.from = All \/ c.from \in ToSet(Stale)
       /\ c.peer \in Nat
       /\ c.tool = "cli" => c.addr # NoAddr
  /\ MaxKills \in Nat

VARIABLES
  file,     \* file[n]: the content of the file of node n
  job,      \* job[c]: the last run of command c
  process,  \* process[n]: the configuration the process of n runs with
  overlap,  \* ghost: two commands have been running at the same time
  kills     \* how many commands have been killed

vars == <<file, job, process, overlap, kills>>

Peer == ToSet(Stale) \cup {c.peer : c \in Command}
Owner == ToSet(Stale)

Addr == {NoAddr, OwnAddr} \cup {c.addr : c \in Command}

Config ==
  [staticNodes : Seq(Peer), staticNodeAddrs : [Peer -> Addr], committeeSize : Nat]

ASSUME NoConfigAssumption ==
  \A x \in {Empty, Garbage, Missing, NotRunning} : x \notin Config

\* The elements of a set in their order: at place i the one with i - 1 before it.
Sorted(S) ==
  [i \in 1 .. Cardinality(S) |->
     CHOOSE x \in S : Cardinality({y \in S : y < x}) = i - 1]

\* The file of a gen.sh call for the nodes list.
Gen(list) ==
  [staticNodes |-> list,
   staticNodeAddrs |-> [p \in Peer |-> IF p \in ToSet(list) THEN OwnAddr ELSE NoAddr],
   committeeSize |-> Len(list)]

\* os.ReadFile and json.Unmarshal in config.Load.
Decodes(content) == content \notin {Empty, Garbage, Missing}

\* The names in a list that have no address.
Unaddressed(cfg) ==
  {p \in ToSet(cfg.staticNodes) : cfg.staticNodeAddrs[p] = NoAddr}

\* NodeConfig.Validate.
Valid(cfg) ==
  /\ Threshold \in 1 .. cfg.committeeSize
  /\ cfg.staticNodes # <<>>
  /\ Unaddressed(cfg) = {}

\* Mutant: the names are kept sorted, as by addPeer.sh.
AppendUniqueSorted(list, p) == Sorted(ToSet(list) \cup {p})

\* appendUnique.
AppendUnique(list, p) == IF p \in ToSet(list) THEN list ELSE Append(list, p)

\* jq's unique, which sorts.
SortUnique(list, p) == Sorted(ToSet(list) \cup {p})

\* Mutant: the name is added and its address is not.
AddPeerWithoutAddr(c, cfg) ==
  [cfg EXCEPT !.staticNodes = AppendUnique(@, c.peer)]

\* The edit of one configuration by command c.
AddPeer(c, cfg) ==
  [cfg EXCEPT !.staticNodes = IF c.tool = "cli" THEN AppendUnique(@, c.peer)
                                                ELSE SortUnique(@, c.peer),
              !.staticNodeAddrs[c.peer] = c.addr]

\* indexOfNode, and the fallback of NewServiceWithNetwork to index 0.
IndexOf(cfg, n) ==
  LET at == {i \in DOMAIN cfg.staticNodes : cfg.staticNodes[i] = n}
  IN  IF at = {} THEN 0 ELSE (CHOOSE i \in at : \A j \in at : i <= j) - 1

\* Mutant: "-from all" takes the first file.
TargetsFirst(c) ==
  IF c.from = All THEN SubSeq(Sorted(Owner), 1, 1) ELSE <<c.from>>

\* resolveTargetConfigs: all files there are, in the order of their names, or one.
Targets(c) ==
  IF c.from = All THEN Sorted({n \in Owner : file[n] # Missing})
  ELSE IF file[c.from] # Missing THEN <<c.from>>
  ELSE <<>>

\* Nothing to edit is an error, but for the script if it was to edit all.
FindsNothing(c) == Targets(c) = <<>> /\ ~(c.tool = "script" /\ c.from = All)

------------------------------------------------------------------------------
Idle == [status |-> "idle", todo |-> <<>>, step |-> "load", cfg |-> Empty]
Failed == [Idle EXCEPT !.status = "failed"]

Init ==
  /\ file = [n \in Owner |-> Gen(IF n \in ToSet(Generated) THEN Generated ELSE Stale)]
  /\ job = [c \in Command |-> Idle]
  /\ process = [n \in Owner |-> NotRunning]
  /\ overlap = FALSE
  /\ kills = 0

Running(c) == job[c].status = "running"
At(c, step) == Running(c) /\ job[c].todo # <<>> /\ job[c].step = step
Target(c) == Head(job[c].todo)

\* runAddPeer up to the loop: the first run of a command, or another try.
Begin(c) ==
  /\ job[c].status \in {"idle", "failed"}
  /\ job' = [job EXCEPT ![c] =
       IF FindsNothing(c)
         THEN Failed
         ELSE [Idle EXCEPT !.status = "running", !.todo = Targets(c)]]
  /\ overlap' = (overlap \/ \E d \in Command : Running(d))
  /\ UNCHANGED <<file, process, kills>>

(***************************************************************************)
(* config.Load and the edit in memory.  A file that does not decode ends   *)
(* the CLI.  jq makes nothing of an empty file, and the script goes on; it *)
(* ends at any other content it cannot read.                               *)
(***************************************************************************)
LoadConfig(c) ==
  /\ At(c, "load")
  /\ LET content == file[Target(c)]
     IN  job' = [job EXCEPT ![c] =
           IF Decodes(content)
             THEN [@ EXCEPT !.cfg = AddPeer(c, content),
                            !.step = IF c.tool = "cli" THEN "truncate" ELSE "move"]
             ELSE IF c.tool = "script" /\ content = Empty
               THEN [@ EXCEPT !.cfg = Empty, !.step = "move"]
               ELSE Failed]
  /\ UNCHANGED <<file, process, overlap, kills>>

\* The job has finished with its file.
NextTarget(j) == [Idle EXCEPT !.status = j.status, !.todo = Tail(j.todo)]

\* os.WriteFile opens the file, which it creates if need be, and truncates it.
Truncate(c) ==
  /\ At(c, "truncate")
  /\ file' = [file EXCEPT ![Target(c)] = Empty]
  /\ job' = [job EXCEPT ![c].step = "write"]
  /\ UNCHANGED <<process, overlap, kills>>

(***************************************************************************)
(* What a file may hold after content is written from its beginning.  What *)
(* another command has written there since the file was emptied may be     *)
(* longer: its end stays.                                                  *)
(***************************************************************************)
Overwritten(old, content) ==
  IF content = Empty THEN {old}
  ELSE IF old = Empty THEN {content}
  ELSE {content, Garbage}

\* The write of os.WriteFile, or of an mv that copies.
WriteConfig(c) ==
  /\ At(c, "write")
  /\ \E content \in Overwritten(file[Target(c)], job[c].cfg) :
       file' = [file EXCEPT ![Target(c)] = content]
  /\ job' = [job EXCEPT ![c] = NextTarget(@)]
  /\ UNCHANGED <<process, overlap, kills>>

\* The file of c's target loses its name: who has it open writes to a file without
\* one.  Command c goes on with j.
Unlink(c, j) ==
  [d \in Command |->
     IF d = c THEN j
     ELSE IF At(d, "write") /\ Target(d) = Target(c)
       THEN [job[d] EXCEPT !.step = "write unlinked"]
       ELSE job[d]]

(***************************************************************************)
(* mv of the script, from the directory for temporary files.  On the same  *)
(* file system the new file takes the name in one step.  From another one  *)
(* mv removes the old file, creates a new one, which must not be there     *)
(* yet, and copies.                                                        *)
(***************************************************************************)
MoveConfig(c) ==
  /\ At(c, "move")
  /\ file' = [file EXCEPT ![Target(c)] = job[c].cfg]
  /\ job' = Unlink(c, NextTarget(job[c]))
  /\ UNCHANGED <<process, overlap, kills>>

RemoveConfig(c) ==
  /\ At(c, "move")
  /\ file' = [file EXCEPT ![Target(c)] = Missing]
  /\ job' = Unlink(c, [job[c] EXCEPT !.step = "create"])
  /\ UNCHANGED <<process, overlap, kills>>

CreateConfig(c) ==
  /\ At(c, "create")
  /\ IF file[Target(c)] = Missing
       THEN /\ file' = [file EXCEPT ![Target(c)] = Empty]
            /\ job' = [job EXCEPT ![c].step = "write"]
       ELSE /\ job' = [job EXCEPT ![c] = Failed]
            /\ UNCHANGED file
  /\ UNCHANGED <<process, overlap, kills>>

WriteUnlinked(c) ==
  /\ At(c, "write unlinked")
  /\ job' = [job EXCEPT ![c] = NextTarget(@)]
  /\ UNCHANGED <<file, process, overlap, kills>>

\* All files are updated.
End(c) ==
  /\ Running(c) /\ job[c].todo = <<>>
  /\ job' = [job EXCEPT ![c].status = "done"]
  /\ UNCHANGED <<file, process, overlap, kills>>

\* The operator interrupts the command.
Kill(c) ==
  /\ Running(c)
  /\ job' = [job EXCEPT ![c] = Failed]
  /\ kills < MaxKills
  /\ kills' = kills + 1
  /\ UNCHANGED <<file, process, overlap>>

(***************************************************************************)
(* runNode: a process starts if its file decodes and is valid, and keeps   *)
(* what it has read.  It may start at any time, so that the ones that run  *)
(* together have read their files at any times, as after restarts.         *)
(***************************************************************************)
StartNode(n) ==
  /\ process[n] = NotRunning
  /\ Decodes(file[n]) /\ Valid(file[n])
  /\ process' = [process EXCEPT ![n] = file[n]]
  /\ UNCHANGED <<file, job, overlap, kills>>

Next ==
  \/ \E c \in Command : \/ Begin(c)
                        \/ LoadConfig(c)
                        \/ Truncate(c)
                        \/ WriteConfig(c)
                        \/ MoveConfig(c)
                        \/ RemoveConfig(c)
                        \/ CreateConfig(c)
                        \/ WriteUnlinked(c)
                        \/ End(c)
                        \/ Kill(c)
  \/ \E n \in Owner : StartNode(n)

Spec == Init /\ [][Next]_vars

------------------------------------------------------------------------------
(***************************************************************************)
(* Properties.                                                             *)
(***************************************************************************)
\* addPeer.sh has been run, and the names that have been in use, in their
\* order, do not begin with the members as gen.sh has listed them.
Resorted ==
  LET used == ToSet(Stale) \cup {c.peer : c \in {d \in Command : job[d].status # "idle"}}
  IN  /\ \E c \in Command : c.tool = "script" /\ job[c].status # "idle"
      /\ ~IsPrefix(Stale, Sorted(used))

\* The process of n takes part in the committee.
Takes(n, i) == process[n] # NotRunning /\ i < process[n].committeeSize

\* Processes that run at the same time, whenever each of them was started,
\* have the same member at every position of their committees, and a position
\* of their own there: commands that overlap, fail half way or are killed and
\* run again, restarts in the middle of them, and files left over from a larger
\* committee change nothing about that.  Only the sorting of addPeer.sh does.
MembersAgree ==
  ~Resorted =>
    \A m, n \in Owner :
      /\ \A i \in 0 .. Len(Stale) - 1 :
           (Takes(m, i) /\ Takes(n, i))
             => process[m].staticNodes[i + 1] = process[n].staticNodes[i + 1]
      /\ (m # n /\ process[m] # NotRunning /\ process[n] # NotRunning)
           => IndexOf(process[m], m) # IndexOf(process[n], n)

\* Command d has been told to give peer p its address in the file of node n.
Told(d, p, n) == d.peer = p /\ d.from \in {All, n} /\ job[d].status # "idle"

\* A file that decodes names no node twice, and is one that a process accepts,
\* whatever commands ran over each other, or were killed between adding a name
\* and its address: unless addPeer.sh was told an empty address for a name in it.
DecodableFilesAreValid ==
  \A n \in Owner :
    Decodes(file[n]) =>
      /\ IsInjective(file[n].staticNodes)
      /\ \A p \in Unaddressed(file[n]) :
           \E d \in Command : Told(d, p, n) /\ d.tool = "script" /\ d.addr = NoAddr
      /\ Unaddressed(file[n]) = {} => Valid(file[n])

\* While no command is killed and no two of them overlap, no command fails,
\* and all that have ended have left their peer in all of their files, with an
\* address that one of them was told for it: none of them undoes, or is stopped
\* by, what others did before it.
OrderlyCommandsAdd ==
  ~overlap /\ kills = 0 =>
    \A c \in Command :
      /\ job[c].status # "failed"
      /\ job[c].status = "done" =>
           \A n \in Owner :
             (c.from \in {All, n} /\ Decodes(file[n])) =>
               /\ c.peer \in ToSet(file[n].staticNodes)
               /\ \E d \in Command :
                    Told(d, c.peer, n) /\ file[n].staticNodeAddrs[c.peer] = d.addr
================================================================================
