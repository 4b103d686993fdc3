--------------------------- MODULE NodeConfigs_proofs ---------------------------
(***************************************************************************)
(* Proofs about NodeConfigs, for all lists of nodes, any number of         *)
(* commands, interrupted anywhere, and processes that start at any time.   *)
(***************************************************************************)
EXTENDS NodeConfigs, FiniteSetTheorems, TLAPS

------------------------------------------------------------------------------
(***************************************************************************)
(* Sorted lists.                                                           *)
(***************************************************************************)
LEMMA SeqMonotone ==
  ASSUME NEW S, NEW T, S \subseteq T, NEW q \in Seq(S)
  PROVE  q \in Seq(T)
<1>1. Len(q) \in Nat /\ q \in [1 .. Len(q) -> S]
  OBVIOUS
<1>2. q \in [1 .. Len(q) -> T]
  BY <1>1
<1>3. QED
  BY <1>1, <1>2

\* How many elements of S come before x: the place of x in the sorted list.
Before(S, x) == {y \in S : y < x}
Rank(S, x) == Cardinality(Before(S, x))

LEMMA RankType ==
  ASSUME NEW S \in SUBSET Nat, IsFiniteSet(S), NEW x \in S
  PROVE  Rank(S, x) \in 0 .. Cardinality(S) - 1
<1>1. IsFiniteSet(S \ {x}) /\ Cardinality(S \ {x}) = Cardinality(S) - 1
  BY FS_RemoveElement
<1>2. Before(S, x) \subseteq S \ {x}
  BY DEF Before
<1>3. IsFiniteSet(Before(S, x)) /\ Cardinality(Before(S, x)) <= Cardinality(S \ {x})
  BY <1>1, <1>2, FS_Subset
<1>4. Cardinality(S) \in Nat /\ Cardinality(Before(S, x)) \in Nat
  BY <1>3, FS_CardinalityType
<1>5. QED
  BY <1>1, <1>3, <1>4 DEF Rank

LEMMA RankMonotone ==
  ASSUME NEW S \in SUBSET Nat, IsFiniteSet(S), NEW x \in S, NEW y \in S, x < y
  PROVE  Rank(S, x) < Rank(S, y)
<1>1. IsFiniteSet(Before(S, x)) /\ IsFiniteSet(Before(S, y))
  BY FS_Subset DEF Before
<1>2. x \notin Before(S, x) /\ Before(S, x) \cup {x} \subseteq Before(S, y)
  <2>1. ASSUME NEW z \in S, z < x
        PROVE  z < y
    <3>1. x \in Nat /\ y \in Nat /\ z \in Nat
      OBVIOUS
    <3>2. QED
      BY <2>1, <3>1
  <2>2. ~(x < x)
    <3>1. x \in Nat
      OBVIOUS
    <3>2. QED
      BY <3>1
  <2>3. QED
    BY <2>1, <2>2 DEF Before
<1>3. /\ IsFiniteSet(Before(S, x) \cup {x})
      /\ Cardinality(Before(S, x) \cup {x}) = Rank(S, x) + 1
  BY <1>1, <1>2, FS_AddElement DEF Rank
<1>4. Rank(S, x) + 1 <= Rank(S, y)
  BY <1>1, <1>2, <1>3, FS_Subset DEF Rank
<1>5. Rank(S, x) \in Nat /\ Rank(S, y) \in Nat
  BY <1>1, FS_CardinalityType DEF Rank
<1>6. QED
  BY <1>4, <1>5

LEMMA RankInjective ==
  ASSUME NEW S \in SUBSET Nat, IsFiniteSet(S), NEW x \in S, NEW y \in S,
         Rank(S, x) = Rank(S, y)
  PROVE  x = y
<1>1. Rank(S, x) \in Int
  BY RankType
<1>2. x \in Nat /\ y \in Nat
  OBVIOUS
<1>3. ~(x < y) /\ ~(y < x)
  BY <1>1, RankMonotone
<1>4. QED
  BY <1>2, <1>3

\* Every rank occurs, by the pigeonhole principle.
LEMMA RankOnto ==
  ASSUME NEW S \in SUBSET Nat, IsFiniteSet(S), NEW k \in 0 .. Cardinality(S) - 1
  PROVE  \E x \in S : Rank(S, x) = k
<1> DEFINE n == Cardinality(S)
           f == [x \in S |-> Rank(S, x)]
<1>1. n \in Nat
  BY FS_CardinalityType
<1>2. IsFiniteSet(0 .. n - 1) /\ Cardinality(0 .. n - 1) = n
  BY <1>1, FS_Interval
<1>3. f \in [S -> 0 .. n - 1]
  BY RankType
<1>4. f \in Injection(S, 0 .. n - 1)
  BY <1>3, RankInjective DEF Injection, IsInjective
<1>5. f \in Surjection(S, 0 .. n - 1)
  BY <1>2, <1>4, FS_Injection
<1>6. QED
  BY <1>5 DEF Surjection

LEMMA SortedIs ==
  ASSUME NEW S \in SUBSET Nat, IsFiniteSet(S)
  PROVE  /\ Sorted(S) \in Seq(S)
         /\ Len(Sorted(S)) = Cardinality(S)
         /\ \A i \in 1 .. Cardinality(S) : Rank(S, Sorted(S)[i]) = i - 1
         /\ \A x \in S : /\ Rank(S, x) + 1 \in 1 .. Cardinality(S)
                         /\ Sorted(S)[Rank(S, x) + 1] = x
<1>1. Cardinality(S) \in Nat
  BY FS_CardinalityType
<1>2. ASSUME NEW i \in 1 .. Cardinality(S)
      PROVE  Sorted(S)[i] \in S /\ Rank(S, Sorted(S)[i]) = i - 1
  <2>1. i - 1 \in 0 .. Cardinality(S) - 1
    BY <1>1
  <2>2. \E x \in S : Cardinality({y \in S : y < x}) = i - 1
    BY <2>1, RankOnto DEF Rank, Before
  <2>3. Sorted(S)[i] = CHOOSE x \in S : Cardinality({y \in S : y < x}) = i - 1
    BY DEF Sorted
  <2>4. QED
    BY <2>2, <2>3 DEF Rank, Before
<1>3. Sorted(S) \in [1 .. Cardinality(S) -> S]
  BY <1>2 DEF Sorted
<1>4. Sorted(S) \in Seq(S) /\ Len(Sorted(S)) = Cardinality(S)
  BY <1>1, <1>3
<1>5. ASSUME NEW x \in S
      PROVE  /\ Rank(S, x) + 1 \in 1 .. Cardinality(S)
             /\ Sorted(S)[Rank(S, x) + 1] = x
  <2>1. PICK i \in 1 .. Cardinality(S) : i = Rank(S, x) + 1
    BY <1>1, RankType
  <2>2. Sorted(S)[i] \in S /\ Rank(S, Sorted(S)[i]) = Rank(S, x)
    BY <1>2, <2>1, RankType
  <2>3. QED
    BY <2>1, <2>2, RankInjective
<1>6. QED
  BY <1>2, <1>4, <1>5

LEMMA SortedKeeps ==
  ASSUME NEW S \in SUBSET Nat, IsFiniteSet(S)
  PROVE  /\ ToSet(Sorted(S)) = S
         /\ IsInjective(Sorted(S))
<1>1. Cardinality(S) \in Nat
  BY FS_CardinalityType
<1>2. DOMAIN Sorted(S) = 1 .. Cardinality(S)
  BY DEF Sorted
<1>3. ToSet(Sorted(S)) = S
  <2>1. \A i \in 1 .. Cardinality(S) : Sorted(S)[i] \in S
    BY <1>2, SortedIs
  <2>2. \A x \in S : \E i \in 1 .. Cardinality(S) : Sorted(S)[i] = x
    BY SortedIs
  <2>3. QED
    BY <1>2, <2>1, <2>2 DEF ToSet
<1>4. ASSUME NEW i \in 1 .. Cardinality(S), NEW j \in 1 .. Cardinality(S),
             Sorted(S)[i] = Sorted(S)[j]
      PROVE  i = j
  <2>1. i - 1 = j - 1
    BY <1>4, SortedIs
  <2>2. QED
    BY <1>1, <2>1
<1>5. QED
  BY <1>2, <1>3, <1>4 DEF IsInjective

\* What a list begins with.
LEMMA PrefixIs ==
  ASSUME NEW T, NEW p \in Seq(T), NEW q \in Seq(T)
  PROVE  IsPrefix(p, q) <=> /\ Len(p) <= Len(q)
                            /\ \A i \in 1 .. Len(p) : q[i] = p[i]
<1>1. ASSUME Len(p) <= Len(q)
      PROVE  /\ SubSeq(p, 1, Len(p)) = p
             /\ SubSeq(q, 1, Len(p)) = [i \in 1 .. Len(p) |-> q[i]]
             /\ p = [i \in 1 .. Len(p) |-> p[i]]
  BY <1>1
<1>2. ASSUME IsPrefix(p, q)
      PROVE  Len(p) <= Len(q) /\ \A i \in 1 .. Len(p) : q[i] = p[i]
  <2>1. p = [i \in 1 .. Len(p) |-> q[i]]
    BY <1>1, <1>2 DEF IsPrefix
  <2>2. QED
    BY <1>2, <2>1 DEF IsPrefix
<1>3. ASSUME Len(p) <= Len(q), \A i \in 1 .. Len(p) : q[i] = p[i]
      PROVE  IsPrefix(p, q)
  BY <1>1, <1>3 DEF IsPrefix
<1>4. QED
  BY <1>2, <1>3

\* The sorted list of a set begins with those of a subset that holds them, when
\* the list of the whole set does.
LEMMA SortedPrefix ==
  ASSUME NEW T \in SUBSET Nat, IsFiniteSet(T), NEW S \in SUBSET T, NEW p \in Seq(Nat),
         IsPrefix(p, Sorted(T)), ToSet(p) \subseteq S
  PROVE  IsPrefix(p, Sorted(S))
<1>1. IsFiniteSet(S) /\ S \in SUBSET Nat
  BY FS_Subset
<1>2. /\ Sorted(T) \in Seq(Nat) /\ Len(Sorted(T)) = Cardinality(T)
      /\ Sorted(S) \in Seq(Nat) /\ Len(Sorted(S)) = Cardinality(S)
  <2>1. Sorted(T) \in Seq(Nat) /\ Sorted(S) \in Seq(Nat)
    BY <1>1, SortedIs, SeqMonotone
  <2>2. QED
    BY <1>1, <2>1, SortedIs
<1>3. /\ Len(p) <= Cardinality(T)
      /\ \A i \in 1 .. Len(p) : Sorted(T)[i] = p[i]
  BY <1>2, PrefixIs
<1>4. Cardinality(T) \in Nat /\ Cardinality(S) \in Nat /\ Len(p) \in Nat
  BY <1>1, FS_CardinalityType
<1>5. ASSUME NEW i \in 1 .. Len(p)
      PROVE  i <= Cardinality(S) /\ Sorted(S)[i] = p[i]
  <2>1. PICK x \in S : x = p[i]
    BY DEF ToSet
  <2>2. Rank(T, x) = i - 1
    BY <1>3, <1>4, <2>1, SortedIs
  <2>3. ASSUME NEW y \in T, y < x
        PROVE  y \in S
    <3>1. PICK k : k = Rank(T, y)
      OBVIOUS
    <3>2. k < i - 1 /\ k \in 0 .. Cardinality(T) - 1
      BY <2>2, <2>3, <3>1, RankMonotone, RankType
    <3>3. k + 1 \in 1 .. Len(p)
      BY <1>4, <3>2
    <3>5. Sorted(T)[k + 1] = y
      BY <3>1, SortedIs
    <3>4. QED
      BY <1>3, <3>3, <3>5 DEF ToSet
  <2>4. Before(T, x) = Before(S, x)
    BY <2>3 DEF Before
  <2>5. Rank(S, x) = i - 1
    BY <2>2, <2>4 DEF Rank
  <2>6. Rank(S, x) + 1 = i
    BY <2>5
  <2>7. i \in 1 .. Cardinality(S) /\ Sorted(S)[i] = x
    BY <1>1, <2>6, SortedIs
  <2>8. QED
    BY <2>1, <2>7
<1>6. Len(p) <= Cardinality(S)
  BY <1>4, <1>5
<1>7. QED
  BY <1>2, <1>5, <1>6, PrefixIs
------------------------------------------------------------------------------
(***************************************************************************)
(* The configurations there are for a node: the content of its file, what  *)
(* a command is about to write there, and what its process has read.       *)
(***************************************************************************)
Job ==
  [status : {"idle", "running", "done", "failed"}, todo : Seq(Owner),
   step : {"load", "truncate", "write", "move", "create", "write unlinked"},
   cfg : Config \cup {Empty}]

TypeInv ==
  /\ file \in [Owner -> Config \cup {Empty, Garbage, Missing}]
  /\ job \in [Command -> Job]
  /\ process \in [Owner -> Config \cup {NotRunning}]
  /\ overlap \in BOOLEAN
  /\ kills \in Nat

\* Command c holds a configuration for the file of Target(c).
Writing(c) ==
  /\ Running(c) /\ job[c].todo # <<>>
  /\ job[c].step \in {"truncate", "write", "move", "create"}

Contents(n) ==
  ({file[n], process[n]} \cup {job[c].cfg : c \in {d \in Command : Writing(d) /\ Target(d) = n}})
    \ {Empty, Garbage, Missing, NotRunning}

\* The list that gen.sh wrote to the file of node n.
Base(n) == IF n \in ToSet(Generated) THEN Generated ELSE Stale

\* What the configurations of node n are.
GoodConfig(n) ==
  {cfg \in Config : /\ IsInjective(cfg.staticNodes)
                    /\ cfg.committeeSize = Len(Base(n))
                    /\ ToSet(Base(n)) \subseteq ToSet(cfg.staticNodes)}

LEMMA ConstantsAre ==
  /\ Owner \subseteq Peer /\ Peer \in SUBSET Nat
  /\ IsFiniteSet(Owner) /\ IsFiniteSet(Peer)
  /\ Generated \in Seq(Owner) /\ Stale \in Seq(Owner)
  /\ Len(Generated) <= Len(Stale)
  /\ \A i \in 1 .. Len(Generated) : Stale[i] = Generated[i]
  /\ \A c \in Command : c.peer \in Peer /\ c.addr \in Addr
<1>1. /\ Len(Generated) <= Len(Stale)
      /\ \A i \in 1 .. Len(Generated) : Stale[i] = Generated[i]
  BY PrefixIs, NodeConfigsAssumption
<1>2. Stale \in [1 .. Len(Stale) -> Owner] /\ Len(Stale) \in Nat
  BY NodeConfigsAssumption DEF Owner, ToSet
<1>3. Generated \in [1 .. Len(Generated) -> Owner] /\ Len(Generated) \in Nat
  <2>1. /\ Generated = [i \in 1 .. Len(Generated) |-> Generated[i]]
        /\ Len(Generated) \in Nat
    BY NodeConfigsAssumption
  <2>2. \A i \in 1 .. Len(Generated) : i \in 1 .. Len(Stale)
    BY <1>1, <1>2, <2>1
  <2>3. \A i \in 1 .. Len(Generated) : Generated[i] \in Owner
    BY <1>1, <1>2, <2>2
  <2>4. QED
    BY <2>1, <2>3
<1>4. Generated \in Seq(Owner) /\ Stale \in Seq(Owner)
  BY <1>2, <1>3
<1>5. Owner \subseteq Nat
  BY NodeConfigsAssumption DEF Owner, ToSet
<1>6. Peer \in SUBSET Nat /\ Owner \subseteq Peer
  BY <1>5, NodeConfigsAssumption DEF Peer, Owner
<1>7. IsFiniteSet(Owner)
  <2>1. IsFiniteSet(1 .. Len(Stale))
    BY <1>2, FS_Interval
  <2>2. Stale \in Surjection(1 .. Len(Stale), Owner)
    BY <1>2 DEF Surjection, Owner, ToSet
  <2>3. QED
    BY <2>1, <2>2, FS_Surjection
<1>8. IsFiniteSet(Peer)
  <2> DEFINE peers == {c.peer : c \in Command}
             f == [c \in Command |-> c.peer]
  <2>1. f \in Surjection(Command, peers)
    BY DEF Surjection
  <2>2. IsFiniteSet(peers)
    BY <2>1, FS_Surjection, NodeConfigsAssumption
  <2>3. QED
    BY <1>7, <2>2, FS_Union DEF Peer, Owner
<1>9. QED
  BY <1>1, <1>4, <1>6, <1>7, <1>8, NodeConfigsAssumption DEF Peer, Addr

LEMMA BaseIs ==
  ASSUME NEW n \in Owner
  PROVE  /\ Base(n) \in Seq(Owner) /\ Len(Base(n)) \in Nat
         /\ Base(n) # <<>> /\ IsInjective(Base(n))
         /\ Threshold \in 1 .. Len(Base(n))
         /\ n \in ToSet(Base(n))
         /\ ToSet(Base(n)) \subseteq Owner
         /\ Len(Base(n)) <= Len(Stale)
         /\ \A i \in 1 .. Len(Base(n)) : Stale[i] = Base(n)[i]
<1>1. /\ Base(n) \in Seq(Owner) /\ Len(Base(n)) \in Nat
      /\ IsInjective(Base(n))
      /\ n \in ToSet(Base(n))
      /\ Len(Base(n)) <= Len(Stale)
      /\ \A i \in 1 .. Len(Base(n)) : Stale[i] = Base(n)[i]
  BY ConstantsAre, NodeConfigsAssumption DEF Base, Owner
<1>2. Threshold \in 1 .. Len(Base(n))
  <2>1. Len(Generated) \in Nat /\ Len(Stale) \in Nat /\ Len(Generated) <= Len(Stale)
    BY ConstantsAre
  <2>2. QED
    BY <2>1, NodeConfigsAssumption DEF Base
<1>3. Base(n) # <<>>
  BY <1>1, <1>2
<1>4. ToSet(Base(n)) \subseteq Owner
  BY <1>1 DEF ToSet
<1>5. QED
  BY <1>1, <1>2, <1>3, <1>4

\* appendUnique, and jq's unique.
LEMMA AddedList ==
  ASSUME NEW list \in Seq(Peer), IsInjective(list), NEW p \in Peer,
         NEW added \in {AppendUnique(list, p), SortUnique(list, p)}
  PROVE  /\ added \in Seq(Peer)
         /\ ToSet(added) = ToSet(list) \cup {p}
         /\ IsInjective(added)
<1>1. /\ ToSet(list) \subseteq Peer
      /\ DOMAIN list = 1 .. Len(list) /\ Len(list) \in Nat
  BY DEF ToSet
<1>2. CASE added = AppendUnique(list, p) /\ p \in ToSet(list)
  BY <1>2 DEF AppendUnique
<1>3. CASE added = AppendUnique(list, p) /\ p \notin ToSet(list)
  <2>1. added = Append(list, p)
    BY <1>3 DEF AppendUnique
  <2>2. /\ added \in Seq(Peer)
        /\ DOMAIN added = 1 .. Len(list) + 1
        /\ \A i \in 1 .. Len(list) : added[i] = list[i]
        /\ added[Len(list) + 1] = p
    BY <2>1
  <2>3. \A i \in 1 .. Len(list) : list[i] # p
    BY <1>1, <1>3 DEF ToSet
  <2>4. IsInjective(added)
    BY <1>1, <2>2, <2>3 DEF IsInjective
  <2>5. ToSet(added) = ToSet(list) \cup {p}
    <3>1. \A i \in 1 .. Len(list) : i \in 1 .. Len(list) + 1
      BY <1>1
    <3>2. \A i \in 1 .. Len(list) + 1 : i \in 1 .. Len(list) \/ i = Len(list) + 1
      BY <1>1
    <3>3. Len(list) + 1 \in 1 .. Len(list) + 1
      BY <1>1
    <3>4. QED
      BY <1>1, <2>2, <3>1, <3>2, <3>3 DEF ToSet
  <2>6. QED
    BY <2>2, <2>4, <2>5
<1>4. CASE added = SortUnique(list, p)
  <2> DEFINE S == ToSet(list) \cup {p}
  <2>1. S \subseteq Peer /\ S \in SUBSET Nat /\ IsFiniteSet(S)
    BY <1>1, ConstantsAre, FS_Subset
  <2>2. Sorted(S) \in Seq(S) /\ ToSet(Sorted(S)) = S /\ IsInjective(Sorted(S))
    BY <2>1, SortedIs, SortedKeeps
  <2>3. QED
    BY <1>4, <2>1, <2>2, SeqMonotone DEF SortUnique
<1>5. QED
  BY <1>2, <1>3, <1>4

\* What command c does to a good configuration.
LEMMA AddPeerIs ==
  ASSUME NEW c \in Command, NEW cfg \in Config, IsInjective(cfg.staticNodes)
  PROVE  /\ AddPeer(c, cfg) \in Config
         /\ AddPeer(c, cfg).staticNodes \in {AppendUnique(cfg.staticNodes, c.peer),
                                             SortUnique(cfg.staticNodes, c.peer)}
         /\ AddPeer(c, cfg).committeeSize = cfg.committeeSize
         /\ \A p \in Peer : AddPeer(c, cfg).staticNodeAddrs[p] =
                              IF p = c.peer THEN c.addr ELSE cfg.staticNodeAddrs[p]
         /\ c.tool # "script" =>
              AddPeer(c, cfg).staticNodes = AppendUnique(cfg.staticNodes, c.peer)
<1>1. /\ cfg.staticNodes \in Seq(Peer) /\ cfg.staticNodeAddrs \in [Peer -> Addr]
      /\ c.peer \in Peer /\ c.addr \in Addr
  BY ConstantsAre DEF Config
<1>2. PICK list \in Seq(Peer) :
             /\ list = IF c.tool = "cli" THEN AppendUnique(cfg.staticNodes, c.peer)
                                         ELSE SortUnique(cfg.staticNodes, c.peer)
             /\ list \in {AppendUnique(cfg.staticNodes, c.peer),
                          SortUnique(cfg.staticNodes, c.peer)}
  BY <1>1, AddedList
<1>3. AddPeer(c, cfg) = [cfg EXCEPT !.staticNodes = list, !.staticNodeAddrs[c.peer] = c.addr]
  BY <1>2 DEF AddPeer
<1>4. c.tool \in {"cli", "script"}
  BY NodeConfigsAssumption
<1>5. PICK addrs \in [Peer -> Addr] :
             addrs = [cfg.staticNodeAddrs EXCEPT ![c.peer] = c.addr]
  BY <1>1
<1>6. AddPeer(c, cfg) = [cfg EXCEPT !.staticNodes = list, !.staticNodeAddrs = addrs]
  BY <1>3, <1>5 DEF Config
<1>7. /\ AddPeer(c, cfg) \in Config
      /\ AddPeer(c, cfg).staticNodes = list
      /\ AddPeer(c, cfg).staticNodeAddrs = addrs
      /\ AddPeer(c, cfg).committeeSize = cfg.committeeSize
  BY <1>2, <1>5, <1>6 DEF Config
<1>8. QED
  BY <1>1, <1>2, <1>4, <1>5, <1>7

LEMMA AddPeerIsGood ==
  ASSUME NEW n \in Owner, NEW c \in Command, NEW cfg \in GoodConfig(n)
  PROVE  /\ AddPeer(c, cfg) \in GoodConfig(n)
         /\ ToSet(AddPeer(c, cfg).staticNodes) = ToSet(cfg.staticNodes) \cup {c.peer}
<1> DEFINE new == AddPeer(c, cfg)
<1>1. /\ cfg \in Config /\ IsInjective(cfg.staticNodes)
      /\ cfg.staticNodes \in Seq(Peer) /\ c.peer \in Peer
  BY ConstantsAre DEF GoodConfig, Config
<1>2. new \in Config /\ new.committeeSize = cfg.committeeSize
  BY <1>1, AddPeerIs
<1>3. /\ ToSet(new.staticNodes) = ToSet(cfg.staticNodes) \cup {c.peer}
      /\ IsInjective(new.staticNodes)
  <2>1. PICK added \in {AppendUnique(cfg.staticNodes, c.peer),
                        SortUnique(cfg.staticNodes, c.peer)} : added = new.staticNodes
    BY <1>1, AddPeerIs
  <2>2. QED
    BY <1>1, <2>1, AddedList
<1>4. QED
  BY <1>2, <1>3 DEF GoodConfig

LEMMA GenIsGood ==
  ASSUME NEW n \in Owner
  PROVE  /\ Gen(Base(n)) \in GoodConfig(n)
         /\ Gen(Base(n)).staticNodes = Base(n)
         /\ Unaddressed(Gen(Base(n))) = {}
<1>1. Base(n) \in Seq(Peer)
  BY BaseIs, ConstantsAre, SeqMonotone
<1>2. Gen(Base(n)) \in Config /\ Gen(Base(n)).staticNodes = Base(n)
  BY <1>1, BaseIs DEF Gen, Config, Addr
<1>3. Unaddressed(Gen(Base(n))) = {}
  <2>1. ToSet(Base(n)) \subseteq Peer
    BY <1>1 DEF ToSet
  <2>2. QED
    BY <2>1, NodeConfigsAssumption DEF Gen, Unaddressed
<1>4. QED
  BY <1>2, <1>3, BaseIs DEF GoodConfig, Gen

------------------------------------------------------------------------------
\* What a step does to the files, the commands and the processes.

\* A command that is running works on a file.
LEMMA TargetType ==
  ASSUME TypeInv, NEW c \in Command, job[c].todo # <<>>
  PROVE  Target(c) \in Owner
<1>1. job[c].todo \in Seq(Owner)
  BY DEF TypeInv, Job
<1>2. QED
  BY <1>1 DEF Target

LEMMA ContentsAreFiles ==
  ASSUME TypeInv, NEW n \in Owner
  PROVE  /\ Contents(n) \subseteq Config
         /\ Decodes(file[n]) => file[n] \in Contents(n)
         /\ process[n] # NotRunning => process[n] \in Contents(n)
         /\ \A c \in Command : Writing(c) /\ Target(c) = n /\ job[c].cfg # Empty
              => job[c].cfg \in Contents(n)
<1>1. /\ file[n] \in Config \cup {Empty, Garbage, Missing}
      /\ process[n] \in Config \cup {NotRunning}
      /\ \A c \in Command : job[c].cfg \in Config \cup {Empty}
  BY DEF TypeInv, Job
<1>2. QED
  BY <1>1, NoConfigAssumption DEF Contents, Decodes

LEMMA FailedIs == Failed \in Job /\ Failed.status = "failed" /\ Failed.todo = <<>>
<1>1. Idle \in Job
  <2>1. <<>> \in Seq(Owner)
    OBVIOUS
  <2>2. QED
    BY <2>1 DEF Idle, Job
<1>2. QED
  BY <1>1 DEF Failed, Idle, Job

LEMMA TargetsAre ==
  ASSUME NEW c \in Command
  PROVE  /\ Targets(c) \in Seq(Owner)
         /\ ToSet(Targets(c)) = {n \in Owner : c.from \in {All, n} /\ file[n] # Missing}
<1>1. CASE c.from = All
  <2> DEFINE S == {n \in Owner : file[n] # Missing}
  <2>1. S \in SUBSET Nat /\ IsFiniteSet(S)
    BY ConstantsAre, FS_Subset
  <2>2. Sorted(S) \in Seq(Owner) /\ ToSet(Sorted(S)) = S
    BY <2>1, SortedIs, SortedKeeps, SeqMonotone
  <2>3. Targets(c) = Sorted(S)
    BY <1>1 DEF Targets
  <2>4. QED
    BY <1>1, <2>2, <2>3
<1>2. CASE c.from # All /\ file[c.from] # Missing
  <2>1. c.from \in Owner
    BY <1>2, NodeConfigsAssumption DEF Owner
  <2>2. PICK q : q = <<c.from>>
    OBVIOUS
  <2>3. q \in Seq(Owner) /\ DOMAIN q = {1} /\ q[1] = c.from
    BY <2>1, <2>2
  <2>4. ToSet(q) = {c.from}
    BY <2>3 DEF ToSet
  <2>5. Targets(c) = q
    BY <1>2, <2>2 DEF Targets
  <2>6. QED
    BY <1>2, <2>1, <2>3, <2>4, <2>5
<1>3. CASE c.from # All /\ file[c.from] = Missing
  <2>1. Targets(c) = <<>> /\ <<>> \in Seq(Owner) /\ ToSet(<<>>) = {}
    BY <1>3 DEF Targets, ToSet
  <2>2. QED
    BY <1>3, <2>1
<1>4. QED
  BY <1>1, <1>2, <1>3

LEMMA BeginType ==
  ASSUME TypeInv, NEW c \in Command, Begin(c)
  PROVE  TypeInv'
<1>1. [Idle EXCEPT !.status = "running", !.todo = Targets(c)] \in Job
  BY TargetsAre DEF Idle, Job
<1>2. job' \in [Command -> Job]
  BY <1>1, FailedIs DEF TypeInv, Begin
<1>3. overlap' \in BOOLEAN
  BY DEF TypeInv, Begin
<1>4. QED
  BY <1>2, <1>3 DEF TypeInv, Begin

\* A command finishes with a file.
LEMMA NextTargetType ==
  ASSUME NEW j \in Job, j.todo # <<>>
  PROVE  NextTarget(j) \in Job
<1>1. Tail(j.todo) \in Seq(Owner)
  <2>1. j.todo \in Seq(Owner)
    BY DEF Job
  <2>2. QED
    BY <2>1
<1>2. QED
  BY <1>1 DEF NextTarget, Idle, Job

LEMMA LoadConfigType ==
  ASSUME TypeInv, NEW c \in Command, LoadConfig(c),
         Decodes(file[Target(c)]) => IsInjective(file[Target(c)].staticNodes)
  PROVE  TypeInv'
<1> DEFINE content == file[Target(c)]
<1>1. job[c] \in Job /\ Target(c) \in Owner
  BY TargetType DEF LoadConfig, At, TypeInv
<1>2. Decodes(content) => AddPeer(c, content) \in Config
  BY <1>1, AddPeerIs DEF TypeInv, Decodes
<1>3. PICK j \in Job : job' = [job EXCEPT ![c] = j]
  <2>1. CASE Decodes(content)
    <3>1. [job[c] EXCEPT !.cfg = AddPeer(c, content),
                         !.step = IF c.tool = "cli" THEN "truncate" ELSE "move"] \in Job
      BY <1>1, <1>2, <2>1 DEF Job
    <3>2. QED
      BY <2>1, <3>1 DEF LoadConfig
  <2>2. CASE ~Decodes(content) /\ c.tool = "script" /\ content = Empty
    <3>1. [job[c] EXCEPT !.cfg = Empty, !.step = "move"] \in Job
      BY <1>1 DEF Job
    <3>2. QED
      BY <2>2, <3>1 DEF LoadConfig
  <2>3. CASE ~Decodes(content) /\ ~(c.tool = "script" /\ content = Empty)
    BY <2>3, FailedIs DEF LoadConfig
  <2>4. QED
    BY <2>1, <2>2, <2>3
<1>4. QED
  BY <1>3 DEF TypeInv, LoadConfig

\* The file of a target gets another content.
LEMMA ContentType ==
  ASSUME TypeInv, NEW c \in Command, job[c].todo # <<>>,
         NEW content \in {job[c].cfg, Empty, Garbage, Missing, file[Target(c)]}
  PROVE  [file EXCEPT ![Target(c)] = content] \in [Owner -> Config \cup {Empty, Garbage, Missing}]
<1>1. Target(c) \in Owner
  BY TargetType
<1>2. job[c].cfg \in Config \cup {Empty}
  BY DEF TypeInv, Job
<1>3. content \in Config \cup {Empty, Garbage, Missing}
  BY <1>1, <1>2 DEF TypeInv
<1>4. QED
  BY <1>1, <1>3 DEF TypeInv

LEMMA UnlinkType ==
  ASSUME TypeInv, NEW c \in Command, NEW j \in Job
  PROVE  Unlink(c, j) \in [Command -> Job]
<1>1. \A d \in Command : job[d] \in Job /\ [job[d] EXCEPT !.step = "write unlinked"] \in Job
  BY DEF TypeInv, Job
<1>2. QED
  BY <1>1 DEF Unlink

LEMMA OthersType ==
  ASSUME TypeInv, NEW c \in Command,
         \/ Truncate(c) \/ WriteConfig(c) \/ MoveConfig(c) \/ RemoveConfig(c)
         \/ CreateConfig(c) \/ WriteUnlinked(c) \/ End(c) \/ Kill(c)
  PROVE  TypeInv'
<1>1. /\ job[c] \in Job
      /\ \A step \in {"write", "create"} : [job[c] EXCEPT !.step = step] \in Job
      /\ job[c].todo # <<>> => NextTarget(job[c]) \in Job
  <2>1. job[c] \in Job
    BY DEF TypeInv
  <2>2. \A step \in {"write", "create"} : [job[c] EXCEPT !.step = step] \in Job
    BY <2>1 DEF Job
  <2>3. QED
    BY <2>1, <2>2, NextTargetType
<1>2. CASE Truncate(c)
  <2>1. job' \in [Command -> Job]
    BY <1>1, <1>2 DEF Truncate, TypeInv
  <2>2. file' \in [Owner -> Config \cup {Empty, Garbage, Missing}]
    BY <1>2, ContentType DEF Truncate, At
  <2>3. QED
    BY <1>2, <2>1, <2>2 DEF Truncate, TypeInv
<1>3. CASE WriteConfig(c)
  <2>1. job' \in [Command -> Job]
    BY <1>1, <1>3 DEF WriteConfig, At, TypeInv
  <2>2. PICK content \in Overwritten(file[Target(c)], job[c].cfg) :
          file' = [file EXCEPT ![Target(c)] = content]
    BY <1>3 DEF WriteConfig
  <2>3. content \in {job[c].cfg, Garbage, file[Target(c)]}
    BY DEF Overwritten
  <2>4. file' \in [Owner -> Config \cup {Empty, Garbage, Missing}]
    BY <1>3, <2>2, <2>3, ContentType DEF WriteConfig, At
  <2>5. QED
    BY <1>3, <2>1, <2>4 DEF WriteConfig, TypeInv
<1>4. CASE MoveConfig(c)
  <2>1. job' \in [Command -> Job]
    BY <1>1, <1>4, UnlinkType DEF MoveConfig, At
  <2>2. file' \in [Owner -> Config \cup {Empty, Garbage, Missing}]
    BY <1>4, ContentType DEF MoveConfig, At
  <2>3. QED
    BY <1>4, <2>1, <2>2 DEF MoveConfig, TypeInv
<1>5. CASE RemoveConfig(c)
  <2>1. job' \in [Command -> Job]
    BY <1>1, <1>5, UnlinkType DEF RemoveConfig
  <2>2. file' \in [Owner -> Config \cup {Empty, Garbage, Missing}]
    BY <1>5, ContentType DEF RemoveConfig, At
  <2>3. QED
    BY <1>5, <2>1, <2>2 DEF RemoveConfig, TypeInv
<1>6. CASE CreateConfig(c)
  <2>1. job' \in [Command -> Job]
    BY <1>1, <1>6, FailedIs DEF CreateConfig, TypeInv
  <2>2. [file EXCEPT ![Target(c)] = Empty] \in [Owner -> Config \cup {Empty, Garbage, Missing}]
    BY <1>6, ContentType DEF CreateConfig, At
  <2>3. file' \in [Owner -> Config \cup {Empty, Garbage, Missing}]
    BY <1>6, <2>2 DEF CreateConfig, TypeInv
  <2>4. QED
    BY <1>6, <2>1, <2>3 DEF CreateConfig, TypeInv
<1>7. CASE WriteUnlinked(c)
  BY <1>1, <1>7 DEF WriteUnlinked, At, TypeInv
<1>8. CASE End(c)
  <2>1. [job[c] EXCEPT !.status = "done"] \in Job
    BY <1>1 DEF Job
  <2>2. QED
    BY <1>8, <2>1 DEF End, TypeInv
<1>9. CASE Kill(c)
  BY <1>9, FailedIs DEF Kill, TypeInv
<1>10. QED
  BY <1>2, <1>3, <1>4, <1>5, <1>6, <1>7, <1>8, <1>9

\* What command d makes of the file it reads.
LEMMA LoadStep ==
  ASSUME TypeInv, NEW d \in Command, LoadConfig(d)
  PROVE  \/ /\ Decodes(file[Target(d)]) /\ job'[d].cfg = AddPeer(d, file[Target(d)])
            /\ job'[d].status = job[d].status /\ job'[d].todo = job[d].todo
         \/ /\ job'[d].cfg = Empty
            /\ job'[d].status = job[d].status /\ job'[d].todo = job[d].todo
         \/ job'[d] = Failed
<1>1. PICK new : new = AddPeer(d, file[Target(d)])
  OBVIOUS
<1>2. PICK next : next = IF d.tool = "cli" THEN "truncate" ELSE "move"
  OBVIOUS
<1>3. job'[d] =
        IF Decodes(file[Target(d)])
          THEN [job[d] EXCEPT !.cfg = new, !.step = next]
          ELSE IF d.tool = "script" /\ file[Target(d)] = Empty
            THEN [job[d] EXCEPT !.cfg = Empty, !.step = "move"]
            ELSE Failed
  BY <1>1, <1>2 DEF LoadConfig, TypeInv
<1>4. PICK j \in Job : j = job[d]
  BY DEF TypeInv
<1>5. \A cfg, step : /\ [j EXCEPT !.cfg = cfg, !.step = step].cfg = cfg
                     /\ [j EXCEPT !.cfg = cfg, !.step = step].status = j.status
                     /\ [j EXCEPT !.cfg = cfg, !.step = step].todo = j.todo
  BY DEF Job
<1>6. QED
  BY <1>1, <1>3, <1>4, <1>5

\* What a step does to command d.
LEMMA JobStep ==
  ASSUME TypeInv, [Next]_vars, NEW d \in Command
  PROVE  \/ job'[d] = job[d]
         \/ /\ job[d].status \in {"idle", "failed"}
            /\ \/ job'[d] = Failed
               \/ /\ job'[d].status = "running" /\ job'[d].todo = Targets(d)
                  /\ job'[d].step = "load"
         \/ LoadConfig(d)
         \/ /\ \/ At(d, "truncate") /\ job'[d].step = "write"
               \/ At(d, "move") /\ job'[d].step = "create"
               \/ At(d, "create") /\ job'[d].step = "write"
               \/ At(d, "write") /\ job'[d].step = "write unlinked"
            /\ job'[d].status = job[d].status /\ job'[d].todo = job[d].todo
            /\ job'[d].cfg = job[d].cfg
         \/ /\ At(d, "write") \/ At(d, "move") \/ At(d, "write unlinked")
            /\ job'[d].status = job[d].status /\ job'[d].todo = Tail(job[d].todo)
            /\ job'[d].step = "load"
         \/ /\ Running(d) /\ job[d].todo = <<>> /\ job'[d].status = "done"
            /\ job'[d].todo = job[d].todo
         \/ Running(d) /\ job'[d] = Failed
<1>1. job \in [Command -> Job]
  BY DEF TypeInv
<1>2. CASE UNCHANGED vars \/ \E n \in Owner : StartNode(n)
  BY <1>2 DEF vars, StartNode
<1>3. ASSUME NEW c \in Command, c # d,
             \/ Begin(c) \/ LoadConfig(c) \/ Truncate(c) \/ WriteConfig(c)
             \/ CreateConfig(c) \/ WriteUnlinked(c) \/ End(c) \/ Kill(c)
      PROVE  job'[d] = job[d]
  <2>1. \A j : [job EXCEPT ![c] = j][d] = job[d]
    BY <1>1, <1>3
  <2>2. \E j : job' = [job EXCEPT ![c] = j]
    <3>1. CASE Begin(c)
      BY <3>1 DEF Begin
    <3>2. CASE LoadConfig(c)
      BY <3>2 DEF LoadConfig
    <3>3. CASE Truncate(c) \/ WriteConfig(c) \/ WriteUnlinked(c)
      BY <3>3 DEF Truncate, WriteConfig, WriteUnlinked
    <3>4. CASE CreateConfig(c)
      BY <3>4 DEF CreateConfig
    <3>5. CASE End(c) \/ Kill(c)
      BY <3>5 DEF End, Kill
    <3>6. QED
      BY <1>3, <3>1, <3>2, <3>3, <3>4, <3>5
  <2>3. QED
    BY <2>1, <2>2
<1>4. ASSUME NEW c \in Command, c # d, MoveConfig(c) \/ RemoveConfig(c)
      PROVE  \/ job'[d] = job[d]
             \/ /\ At(d, "write") /\ job'[d].step = "write unlinked"
                /\ job'[d].status = job[d].status /\ job'[d].todo = job[d].todo
                /\ job'[d].cfg = job[d].cfg
  <2>1. \/ job'[d] = job[d]
        \/ At(d, "write") /\ job'[d] = [job[d] EXCEPT !.step = "write unlinked"]
    BY <1>4 DEF MoveConfig, RemoveConfig, Unlink
  <2>2. job[d] \in Job
    BY <1>1
  <2>3. QED
    BY <2>1, <2>2 DEF Job
<1>5. CASE Begin(d)
  <2>1. \/ job'[d] = Failed
        \/ job'[d] = [Idle EXCEPT !.status = "running", !.todo = Targets(d)]
    BY <1>1, <1>5 DEF Begin
  <2>2. QED
    BY <1>5, <2>1 DEF Idle, Begin
<1>6. CASE Truncate(d) \/ RemoveConfig(d) \/ CreateConfig(d)
  <2>1. \/ job'[d] = Failed
        \/ At(d, "truncate") /\ job'[d] = [job[d] EXCEPT !.step = "write"]
        \/ At(d, "move") /\ job'[d] = [job[d] EXCEPT !.step = "create"]
        \/ At(d, "create") /\ job'[d] = [job[d] EXCEPT !.step = "write"]
    BY <1>1, <1>6 DEF Truncate, RemoveConfig, CreateConfig, Unlink
  <2>2. Running(d) /\ job[d] \in Job
    BY <1>1, <1>6 DEF Truncate, RemoveConfig, CreateConfig, At
  <2>3. QED
    BY <2>1, <2>2 DEF Job
<1>7. CASE WriteConfig(d) \/ MoveConfig(d) \/ WriteUnlinked(d)
  <2>1. job'[d] = NextTarget(job[d])
    BY <1>1, <1>7 DEF WriteConfig, MoveConfig, WriteUnlinked, Unlink
  <2>2. At(d, "write") \/ At(d, "move") \/ At(d, "write unlinked")
    BY <1>7 DEF WriteConfig, MoveConfig, WriteUnlinked
  <2>3. QED
    BY <2>1, <2>2 DEF NextTarget, Idle
<1>8. CASE End(d)
  <2>1. job'[d] = [job[d] EXCEPT !.status = "done"] /\ job[d] \in Job
    BY <1>1, <1>8 DEF End
  <2>2. QED
    BY <1>8, <2>1 DEF Job, End
<1>9. CASE Kill(d)
  BY <1>1, <1>9 DEF Kill
<1>10. QED
  <2>1. \/ UNCHANGED vars \/ \E n \in Owner : StartNode(n)
        \/ \E c \in Command : \/ Begin(c) \/ LoadConfig(c) \/ Truncate(c)
                               \/ WriteConfig(c) \/ MoveConfig(c) \/ RemoveConfig(c)
                               \/ CreateConfig(c) \/ WriteUnlinked(c)
                               \/ End(c) \/ Kill(c)
    BY DEF Next
  <2>2. ASSUME NEW c \in Command, c # d,
               \/ Begin(c) \/ LoadConfig(c) \/ Truncate(c) \/ WriteConfig(c)
               \/ MoveConfig(c) \/ RemoveConfig(c) \/ CreateConfig(c)
               \/ WriteUnlinked(c) \/ End(c) \/ Kill(c)
        PROVE  \/ job'[d] = job[d]
               \/ /\ At(d, "write") /\ job'[d].step = "write unlinked"
                  /\ job'[d].status = job[d].status /\ job'[d].todo = job[d].todo
                  /\ job'[d].cfg = job[d].cfg
    BY <1>3, <1>4, <2>2
  <2>3. QED
    BY <1>2, <1>5, <1>6, <1>7, <1>8, <1>9, <2>1, <2>2

\* What it does to the file of node n.
LEMMA FileStep ==
  ASSUME TypeInv, [Next]_vars, NEW n \in Owner
  PROVE  \/ file'[n] \in {file[n], Empty, Garbage, Missing}
         \/ \E c \in Command : Writing(c) /\ Target(c) = n /\ file'[n] = job[c].cfg
<1>1. CASE file' = file
  BY <1>1
<1>2. ASSUME NEW c \in Command,
             NEW content \in {job[c].cfg, file[Target(c)], Empty, Garbage, Missing},
             file' = [file EXCEPT ![Target(c)] = content],
             content = job[c].cfg => Writing(c)
      PROVE  \/ file'[n] \in {file[n], Empty, Garbage, Missing}
             \/ Writing(c) /\ Target(c) = n /\ file'[n] = job[c].cfg
  <2>1. file'[n] = IF n = Target(c) THEN content ELSE file[n]
    BY <1>2 DEF TypeInv
  <2>2. QED
    BY <1>2, <2>1
<1>3. ASSUME NEW c \in Command,
             \/ Truncate(c) \/ WriteConfig(c) \/ MoveConfig(c) \/ RemoveConfig(c)
             \/ CreateConfig(c)
      PROVE  \/ file' = file
             \/ \E content \in {job[c].cfg, file[Target(c)], Empty, Garbage, Missing} :
                  /\ file' = [file EXCEPT ![Target(c)] = content]
                  /\ content = job[c].cfg => Writing(c)
  <2>1. Writing(c)
    BY <1>3 DEF Truncate, WriteConfig, MoveConfig, RemoveConfig, CreateConfig, At, Writing
  <2>2. QED
    BY <1>3, <2>1 DEF Truncate, WriteConfig, MoveConfig, RemoveConfig, CreateConfig, Overwritten
<1>4. \/ file' = file
      \/ \E c \in Command : \/ Truncate(c) \/ WriteConfig(c) \/ MoveConfig(c)
                            \/ RemoveConfig(c) \/ CreateConfig(c)
  BY DEF Next, vars, Begin, LoadConfig, WriteUnlinked, End, Kill, StartNode
<1>5. QED
  BY <1>1, <1>2, <1>3, <1>4

\* What it does to the process of node n.
LEMMA ProcessStep ==
  ASSUME TypeInv, [Next]_vars, NEW n \in Owner
  PROVE  \/ process'[n] = process[n]
         \/ process'[n] = file[n] /\ Decodes(file[n])
<1>1. process \in [Owner -> Config \cup {NotRunning}]
  BY DEF TypeInv
<1>2. UNCHANGED process \/ \E m \in Owner : StartNode(m)
  BY DEF Next, vars, Begin, LoadConfig, Truncate, WriteConfig, MoveConfig, RemoveConfig,
         CreateConfig, WriteUnlinked, End, Kill
<1>3. QED
  BY <1>1, <1>2 DEF StartNode

\* What command d is about to write after a step: what it was about to write
\* before, or what it has just made of the file.
LEMMA WritingStep ==
  ASSUME TypeInv, [Next]_vars, NEW d \in Command, Writing(d)'
  PROVE  /\ Target(d)' = Target(d)
         /\ \/ Writing(d) /\ job'[d].cfg = job[d].cfg
            \/ /\ LoadConfig(d)
               /\ \/ job'[d].cfg = Empty
                  \/ Decodes(file[Target(d)]) /\ job'[d].cfg = AddPeer(d, file[Target(d)])
<1>1. /\ job'[d].status = "running" /\ job'[d].todo # <<>>
      /\ job'[d].step \in {"truncate", "write", "move", "create"}
  BY DEF Writing, Running
<1>2. \/ job'[d] = job[d]
      \/ LoadConfig(d)
      \/ /\ At(d, "truncate") \/ At(d, "move") \/ At(d, "create")
         /\ job'[d].todo = job[d].todo /\ job'[d].cfg = job[d].cfg
  BY <1>1, JobStep, FailedIs
<1>3. CASE job'[d] = job[d]
  BY <1>1, <1>3 DEF Writing, Running, Target
<1>4. CASE LoadConfig(d)
  <2>1. /\ job'[d].todo = job[d].todo
        /\ \/ job'[d].cfg = Empty
           \/ Decodes(file[Target(d)]) /\ job'[d].cfg = AddPeer(d, file[Target(d)])
    BY <1>1, <1>4, LoadStep, FailedIs
  <2>2. QED
    BY <1>4, <2>1 DEF Target
<1>5. CASE /\ At(d, "truncate") \/ At(d, "move") \/ At(d, "create")
           /\ job'[d].todo = job[d].todo /\ job'[d].cfg = job[d].cfg
  BY <1>5 DEF At, Writing, Target
<1>6. QED
  BY <1>2, <1>3, <1>4, <1>5

\* A step makes a new configuration of node n only by the edit of its file.
LEMMA ContentsStep ==
  ASSUME TypeInv, TypeInv', [Next]_vars, NEW n \in Owner, NEW cfg, cfg \in Contents(n)'
  PROVE  \/ cfg \in Contents(n)
         \/ \E c \in Command : /\ Running(c) /\ job[c].todo # <<>> /\ Target(c) = n
                               /\ file[n] \in Contents(n)
                               /\ cfg = AddPeer(c, file[n])
<1>1. /\ \/ cfg = file'[n] \/ cfg = process'[n]
         \/ \E d \in Command : Writing(d)' /\ Target(d)' = n /\ cfg = job'[d].cfg
      /\ cfg \notin {Empty, Garbage, Missing, NotRunning}
  BY DEF Contents
<1>2. CASE cfg = file'[n]
  BY <1>1, <1>2, FileStep DEF Contents
<1>3. CASE cfg = process'[n]
  BY <1>1, <1>3, ProcessStep DEF Contents
<1>4. ASSUME NEW d \in Command, Writing(d)', Target(d)' = n, cfg = job'[d].cfg
      PROVE  \/ cfg \in Contents(n)
             \/ /\ Running(d) /\ job[d].todo # <<>> /\ Target(d) = n
                /\ file[n] \in Contents(n) /\ cfg = AddPeer(d, file[n])
  <2>1. /\ Target(d) = n
        /\ \/ Writing(d) /\ job'[d].cfg = job[d].cfg
           \/ LoadConfig(d) /\ Decodes(file[n]) /\ cfg = AddPeer(d, file[n])
    BY <1>1, <1>4, WritingStep
  <2>2. CASE Writing(d) /\ job'[d].cfg = job[d].cfg
    BY <1>1, <1>4, <2>1, <2>2 DEF Contents
  <2>3. CASE LoadConfig(d) /\ Decodes(file[n]) /\ cfg = AddPeer(d, file[n])
    BY <2>1, <2>3, ContentsAreFiles DEF LoadConfig, At
  <2>4. QED
    BY <2>1, <2>2, <2>3
<1>5. QED
  BY <1>1, <1>2, <1>3, <1>4

------------------------------------------------------------------------------
(***************************************************************************)
(* All configurations are good ones.  The edit of a good one is good, so   *)
(* that no file ever decodes to another; the type of the state depends on  *)
(* it, as the rank of a name is that of a list that names nobody twice.    *)
(* A name in one of them has an address, unless a call of addPeer.sh was   *)
(* given none for it; a command that edits a file is one that was told to. *)
(***************************************************************************)
\* The addresses that commands have been told to give peer p in the file of n.
AddrsTold(p, n) == {d.addr : d \in {e \in Command : Told(e, p, n)}}

\* addPeer.sh was given an empty address for p in the file of n.
NoneTold(p, n) ==
  \E d \in Command : Told(d, p, n) /\ d.tool = "script" /\ d.addr = NoAddr

TargetsInv == \A c \in Command : \A n \in ToSet(job[c].todo) : c.from \in {All, n}

AddressInv ==
  \A n \in Owner : \A cfg \in Contents(n) : \A p \in Unaddressed(cfg) : NoneTold(p, n)

IInv ==
  /\ TypeInv
  /\ \A n \in Owner : Contents(n) \subseteq GoodConfig(n)
  /\ TargetsInv
  /\ AddressInv

\* No command returns to the state before its first run.
LEMMA StatusStep ==
  ASSUME TypeInv, [Next]_vars
  PROVE  /\ \A d \in Command : job[d].status # "idle" => job'[d].status # "idle"
         /\ \A p, n : AddrsTold(p, n) \subseteq AddrsTold(p, n)'
         /\ \A p, n : NoneTold(p, n) => NoneTold(p, n)'
<1>1. ASSUME NEW d \in Command, job[d].status # "idle"
      PROVE  job'[d].status # "idle"
  <2>1. LoadConfig(d) => job'[d].status # "idle"
    BY <1>1, LoadStep, FailedIs
  <2>2. QED
    BY <1>1, <2>1, JobStep, FailedIs
<1>2. \A d \in Command : \A p, n : Told(d, p, n) => Told(d, p, n)'
  BY <1>1 DEF Told
<1>3. QED
  BY <1>1, <1>2 DEF AddrsTold, NoneTold

\* What is in a list is its head or in its tail, and a list has a head.
LEMMA ListIs ==
  ASSUME NEW S, NEW q \in Seq(S), q # <<>>
  PROVE  /\ Head(q) \in ToSet(q)
         /\ ToSet(q) = {Head(q)} \cup ToSet(Tail(q))
<1>1. Len(q) \in Nat \ {0} /\ DOMAIN q = 1 .. Len(q) /\ Head(q) = q[1]
  OBVIOUS
<1>2. /\ DOMAIN Tail(q) = 1 .. Len(q) - 1
      /\ \A i \in 1 .. Len(q) - 1 : Tail(q)[i] = q[i + 1]
  BY <1>1
<1>3. Head(q) \in ToSet(q)
  BY <1>1 DEF ToSet
<1>4. ASSUME NEW i \in 1 .. Len(q)
      PROVE  q[i] \in {Head(q)} \cup ToSet(Tail(q))
  <2>1. CASE i = 1
    BY <1>1, <2>1
  <2>2. CASE i # 1
    <3>1. i - 1 \in DOMAIN Tail(q) /\ Tail(q)[i - 1] = q[i]
      BY <1>1, <1>2, <2>2
    <3>2. QED
      BY <3>1 DEF ToSet
  <2>3. QED
    BY <2>1, <2>2
<1>5. ASSUME NEW i \in 1 .. Len(q) - 1
      PROVE  Tail(q)[i] \in ToSet(q)
  <2>1. i + 1 \in DOMAIN q
    BY <1>1
  <2>2. QED
    BY <1>2, <2>1 DEF ToSet
<1>6. QED
  BY <1>1, <1>2, <1>3, <1>4, <1>5 DEF ToSet

LEMMA InitIInv == Init => IInv
<1> SUFFICES ASSUME Init PROVE IInv
  OBVIOUS
<1>1. \A n \in Owner : file[n] = Gen(Base(n)) /\ file[n] \in GoodConfig(n)
  BY GenIsGood DEF Init, Base
<1>2. TypeInv /\ TargetsInv
  <2>1. file \in [Owner -> Config]
    <3>1. file = [n \in Owner |-> file[n]]
      BY DEF Init
    <3>2. \A n \in Owner : file[n] \in Config
      BY <1>1 DEF GoodConfig
    <3>3. QED
      BY <3>1, <3>2
  <2>2. Idle \in Job
    <3>1. <<>> \in Seq(Owner)
      OBVIOUS
    <3>2. QED
      BY <3>1 DEF Idle, Job
  <2>3. \A c \in Command : ToSet(job[c].todo) = {}
    BY DEF Init, Idle, ToSet
  <2>4. QED
    BY <2>1, <2>2, <2>3 DEF Init, TypeInv, TargetsInv
<1>3. ASSUME NEW n \in Owner
      PROVE  /\ Contents(n) \subseteq GoodConfig(n)
             /\ \A cfg \in Contents(n) : Unaddressed(cfg) = {}
  <2>1. \A c \in Command : ~Writing(c)
    BY DEF Init, Idle, Writing, Running
  <2>2. process[n] = NotRunning
    BY DEF Init
  <2>3. Contents(n) \subseteq {Gen(Base(n))}
    BY <1>1, <2>1, <2>2 DEF Contents
  <2>4. QED
    BY <2>3, GenIsGood
<1>4. AddressInv
  BY <1>3 DEF AddressInv
<1>5. QED
  BY <1>2, <1>3, <1>4 DEF IInv

LEMMA NextTargetsInv ==
  ASSUME TypeInv, TargetsInv, [Next]_vars
  PROVE  TargetsInv'
<1>1. SUFFICES ASSUME NEW c \in Command, NEW n \in ToSet(job'[c].todo)
               PROVE  c.from \in {All, n}
  BY DEF TargetsInv
<1>2. PICK todo \in Seq(Owner) : todo = job[c].todo
  BY DEF TypeInv, Job
<1>3. \A m \in ToSet(todo) : c.from \in {All, m}
  BY <1>2 DEF TargetsInv
<1>4. ToSet(<<>>) = {}
  BY DEF ToSet
<1>5. \/ job'[c].todo \in {todo, <<>>, Targets(c)}
      \/ todo # <<>> /\ job'[c].todo = Tail(todo)
  <2>1. LoadConfig(c) => job'[c].todo \in {todo, <<>>}
    BY <1>2, LoadStep, FailedIs
  <2>2. QED
    BY <1>2, <2>1, JobStep, FailedIs DEF At
<1>6. CASE job'[c].todo = Targets(c)
  BY <1>1, <1>6, TargetsAre
<1>7. CASE todo # <<>> /\ job'[c].todo = Tail(todo)
  BY <1>1, <1>3, <1>7, ListIs
<1>8. QED
  BY <1>1, <1>3, <1>4, <1>5, <1>6, <1>7

\* The edit of a file adds at most the name that the command was told.
LEMMA NextAddressInv ==
  ASSUME IInv, TypeInv', [Next]_vars
  PROVE  AddressInv'
<1>1. SUFFICES ASSUME NEW n \in Owner, NEW cfg, cfg \in Contents(n)',
                      NEW p \in Unaddressed(cfg)
               PROVE  NoneTold(p, n)'
  BY DEF AddressInv
<1>2. TypeInv /\ TargetsInv /\ AddressInv /\ Contents(n) \subseteq GoodConfig(n)
  BY DEF IInv
<1>3. CASE cfg \in Contents(n)
  BY <1>1, <1>2, <1>3, StatusStep DEF AddressInv
<1>4. ASSUME NEW c \in Command, Running(c), job[c].todo # <<>>, Target(c) = n,
             file[n] \in Contents(n), cfg = AddPeer(c, file[n])
      PROVE  NoneTold(p, n)
  <2>1. PICK old \in GoodConfig(n) : old = file[n]
    BY <1>2, <1>4
  <2>2. p \in Peer /\ p \in ToSet(old.staticNodes) \cup {c.peer} /\ cfg.staticNodeAddrs[p] = NoAddr
    <3>1. old.staticNodes \in Seq(Peer) /\ c.peer \in Peer
      BY <2>1, ConstantsAre DEF GoodConfig, Config
    <3>2. ToSet(old.staticNodes) \subseteq Peer
      BY <3>1 DEF ToSet
    <3>3. QED
      BY <1>1, <1>4, <2>1, <3>1, <3>2, AddPeerIsGood DEF Unaddressed
  <2>3. cfg.staticNodeAddrs[p] = IF p = c.peer THEN c.addr ELSE old.staticNodeAddrs[p]
    BY <1>4, <2>1, <2>2, AddPeerIs DEF GoodConfig
  <2>4. CASE p = c.peer
    <3>1. c.addr = NoAddr /\ c.tool = "script"
      BY <2>2, <2>3, <2>4, NodeConfigsAssumption
    <3>2. n \in ToSet(job[c].todo)
      <4>1. PICK todo \in Seq(Owner) : todo = job[c].todo
        BY <1>2 DEF TypeInv, Job
      <4>2. QED
        BY <1>4, <4>1, ListIs DEF Target
    <3>3. Told(c, p, n)
      BY <1>2, <1>4, <2>4, <3>2 DEF Told, TargetsInv, Running
    <3>4. QED
      BY <3>1, <3>3 DEF NoneTold
  <2>5. CASE p # c.peer
    <3>1. p \in Unaddressed(old)
      BY <2>2, <2>3, <2>5 DEF Unaddressed
    <3>2. QED
      BY <1>2, <1>4, <2>1, <3>1 DEF AddressInv
  <2>6. QED
    BY <2>4, <2>5
<1>5. CASE \E c \in Command : /\ Running(c) /\ job[c].todo # <<>> /\ Target(c) = n
                              /\ file[n] \in Contents(n) /\ cfg = AddPeer(c, file[n])
  BY <1>2, <1>4, <1>5, StatusStep
<1>6. QED
  BY <1>1, <1>2, <1>3, <1>5, ContentsStep

LEMMA NextIInv == IInv /\ [Next]_vars => IInv'
<1> SUFFICES ASSUME IInv, [Next]_vars PROVE IInv'
  OBVIOUS
<1>1. TypeInv /\ \A n \in Owner : Contents(n) \subseteq GoodConfig(n)
  BY DEF IInv
<1>2. TypeInv'
  <2>1. CASE UNCHANGED vars
    BY <1>1, <2>1 DEF TypeInv, vars
  <2>2. ASSUME NEW c \in Command, LoadConfig(c)
        PROVE  TypeInv'
    <3>1. Target(c) \in Owner
      BY <1>1, <2>2, TargetType DEF LoadConfig, At
    <3>2. Decodes(file[Target(c)]) => IsInjective(file[Target(c)].staticNodes)
      BY <1>1, <3>1, ContentsAreFiles DEF GoodConfig
    <3>3. QED
      BY <1>1, <2>2, <3>2, LoadConfigType
  <2>3. ASSUME NEW n \in Owner, StartNode(n)
        PROVE  TypeInv'
    BY <1>1, <2>3 DEF TypeInv, StartNode, Decodes
  <2>4. QED
    BY <1>1, <2>1, <2>2, <2>3, BeginType, OthersType DEF Next
<1>3. ASSUME NEW n \in Owner
      PROVE  Contents(n)' \subseteq GoodConfig(n)
  BY <1>1, <1>2, ContentsStep, AddPeerIsGood
<1>4. TargetsInv' /\ AddressInv'
  BY <1>2, NextTargetsInv, NextAddressInv DEF IInv
<1>5. QED
  BY <1>2, <1>3, <1>4 DEF IInv

\* Whatever add-peer commands ran at the same time, were killed or failed half
\* way: all that is in a file, in the hands of a command or in a process still
\* has the members of the node's committee and names nobody twice, and a name
\* without an address is one for which addPeer.sh was given none.
THEOREM ConfigsAreGood == Spec => []IInv
<1>1. QED
  BY InitIInv, NextIInv, PTL DEF Spec

\* Every file that decodes names no node twice and is one that Validate of
\* config.go accepts, whatever add-peer commands ran at the same time, were
\* killed or failed half way, but for a name that addPeer.sh was given without
\* an address.
THEOREM FilesAreValid == Spec => []DecodableFilesAreValid
<1>1. IInv => DecodableFilesAreValid
  <2> SUFFICES ASSUME IInv, NEW n \in Owner, Decodes(file[n])
               PROVE  /\ IsInjective(file[n].staticNodes)
                      /\ \A p \in Unaddressed(file[n]) : NoneTold(p, n)
                      /\ Unaddressed(file[n]) = {} => Valid(file[n])
    BY DEF DecodableFilesAreValid, NoneTold
  <2>1. file[n] \in Contents(n) /\ file[n] \in GoodConfig(n)
    BY ContentsAreFiles DEF IInv
  <2>2. Threshold \in 1 .. file[n].committeeSize
    BY <2>1, BaseIs DEF GoodConfig
  <2>3. file[n].staticNodes # <<>>
    <3>1. n \in ToSet(file[n].staticNodes)
      BY <2>1, BaseIs DEF GoodConfig
    <3>2. QED
      BY <3>1 DEF ToSet
  <2>4. QED
    BY <2>1, <2>2, <2>3 DEF IInv, AddressInv, GoodConfig, Valid
<1>2. QED
  BY <1>1, ConfigsAreGood, PTL

------------------------------------------------------------------------------
(***************************************************************************)
(* The members.  Until the names in use no longer begin with the members,  *)
(* in their order, every list begins with the one that gen.sh wrote.  It   *)
(* holds no other name than those in use, and their order decides about    *)
(* that of any of them.                                                    *)
(***************************************************************************)
Used == ToSet(Stale) \cup {c.peer : c \in {d \in Command : job[d].status # "idle"}}

NamesInv ==
  \A n \in Owner : \A cfg \in Contents(n) : ToSet(cfg.staticNodes) \subseteq Used

KeepsMembers ==
  ~Resorted => \A n \in Owner : \A cfg \in Contents(n) : IsPrefix(Base(n), cfg.staticNodes)

MembersInv == IInv /\ NamesInv /\ KeepsMembers

LEMMA UsedIs == Used \subseteq Peer /\ Used \in SUBSET Nat /\ IsFiniteSet(Used)
<1>1. Used \subseteq Peer
  BY DEF Used, Peer
<1>2. QED
  BY <1>1, ConstantsAre, FS_Subset

LEMMA UsedGrows ==
  ASSUME TypeInv, [Next]_vars
  PROVE  /\ Used \subseteq Used'
         /\ Resorted => Resorted'
<1>1. \A d \in Command : job[d].status # "idle" => job'[d].status # "idle"
  BY StatusStep
<1>2. Used \subseteq Used'
  BY <1>1 DEF Used
<1>3. Resorted => Resorted'
  <2>1. Used' \in SUBSET Nat /\ IsFiniteSet(Used')
    <3>1. Used' \subseteq Peer
      BY DEF Used, Peer
    <3>2. QED
      BY <3>1, ConstantsAre, FS_Subset
  <2>2. ToSet(Stale) \subseteq Used
    BY DEF Used
  <2>3. IsPrefix(Stale, Sorted(Used')) => IsPrefix(Stale, Sorted(Used))
    BY <1>2, <2>1, <2>2, SortedPrefix, NodeConfigsAssumption
  <2>4. /\ Resorted <=> /\ \E c \in Command : c.tool = "script" /\ job[c].status # "idle"
                       /\ ~IsPrefix(Stale, Sorted(Used))
        /\ Resorted' <=> /\ \E c \in Command : c.tool = "script" /\ job'[c].status # "idle"
                        /\ ~IsPrefix(Stale, Sorted(Used'))
    BY DEF Resorted, Used
  <2>5. QED
    BY <1>1, <2>3, <2>4
<1>4. QED
  BY <1>2, <1>3

\* The edit of a list that begins with the members leaves them there.
LEMMA AddPeerKeepsMembers ==
  ASSUME IInv, ~Resorted, NEW n \in Owner, NEW c \in Command, Running(c),
         NEW cfg \in GoodConfig(n), ToSet(cfg.staticNodes) \subseteq Used,
         IsPrefix(Base(n), cfg.staticNodes)
  PROVE  IsPrefix(Base(n), AddPeer(c, cfg).staticNodes)
<1>1. PICK list \in Seq(Peer) : list = cfg.staticNodes
  BY DEF GoodConfig, Config
<1>2. PICK base \in Seq(Peer) : base = Base(n)
  BY BaseIs, ConstantsAre, SeqMonotone
<1>3. /\ IsInjective(list) /\ ToSet(list) \subseteq Used /\ ToSet(base) \subseteq ToSet(list)
      /\ c.peer \in Peer /\ cfg \in Config
  BY <1>1, <1>2, ConstantsAre DEF GoodConfig
<1>4. /\ Len(base) <= Len(list)
      /\ \A i \in 1 .. Len(base) : list[i] = base[i]
  BY <1>1, <1>2, PrefixIs
<1>5. CASE AddPeer(c, cfg).staticNodes = AppendUnique(list, c.peer)
  <2>1. CASE c.peer \in ToSet(list)
    BY <1>1, <1>5, <2>1 DEF AppendUnique
  <2>2. CASE c.peer \notin ToSet(list)
    <3>1. PICK added \in Seq(Peer) :
            /\ added = Append(list, c.peer) /\ Len(added) = Len(list) + 1
            /\ \A i \in 1 .. Len(list) : added[i] = list[i]
      <4>1. PICK p \in Peer : p = c.peer
        BY <1>3
      <4>2. PICK added : added = Append(list, p)
        OBVIOUS
      <4>3. /\ added \in Seq(Peer) /\ Len(added) = Len(list) + 1
            /\ \A i \in 1 .. Len(list) : added[i] = list[i]
        BY <4>2
      <4>4. QED
        BY <4>1, <4>2, <4>3
    <3>2. /\ Len(base) <= Len(added)
          /\ \A i \in 1 .. Len(base) : added[i] = base[i]
      BY <1>3, <1>4, <3>1
    <3>3. IsPrefix(base, added)
      BY <3>2, PrefixIs
    <3>4. QED
      BY <1>2, <1>5, <2>2, <3>1, <3>3 DEF AppendUnique
  <2>3. QED
    BY <2>1, <2>2
<1>6. CASE c.tool = "script" /\ AddPeer(c, cfg).staticNodes = SortUnique(list, c.peer)
  <2> DEFINE S == ToSet(list) \cup {c.peer}
  <2>1. IsPrefix(Stale, Sorted(Used))
    BY <1>6 DEF Resorted, Used, Running
  <2>2. Used \in SUBSET Nat /\ IsFiniteSet(Used) /\ S \subseteq Used
    BY <1>3, UsedIs DEF Used, Running
  <2>3. Sorted(Used) \in Seq(Nat) /\ Stale \in Seq(Nat) /\ base \in Seq(Nat)
    BY <1>2, <2>2, SortedIs, SeqMonotone, ConstantsAre, NodeConfigsAssumption
  <2>4. IsPrefix(base, Sorted(Used))
    <3>1. /\ Len(Stale) <= Len(Sorted(Used))
          /\ \A i \in 1 .. Len(Stale) : Sorted(Used)[i] = Stale[i]
      BY <2>1, <2>3, PrefixIs
    <3>2. /\ Len(base) <= Len(Stale)
          /\ \A i \in 1 .. Len(base) : Stale[i] = base[i]
      BY <1>2, BaseIs
    <3>3. Len(base) \in Nat /\ Len(Stale) \in Nat /\ Len(Sorted(Used)) \in Nat
      BY <2>3
    <3>4. /\ Len(base) <= Len(Sorted(Used))
          /\ \A i \in 1 .. Len(base) : Sorted(Used)[i] = base[i]
      BY <3>1, <3>2, <3>3
    <3>5. QED
      BY <2>3, <3>4, PrefixIs
  <2>5. ToSet(base) \subseteq S
    BY <1>3
  <2>6. IsPrefix(base, Sorted(S))
    BY <2>2, <2>3, <2>4, <2>5, SortedPrefix
  <2>7. QED
    BY <1>2, <1>6, <2>6 DEF SortUnique
<1>7. QED
  <2>1. /\ AddPeer(c, cfg).staticNodes \in {AppendUnique(list, c.peer), SortUnique(list, c.peer)}
        /\ c.tool # "script" => AddPeer(c, cfg).staticNodes = AppendUnique(list, c.peer)
    BY <1>1, <1>3, AddPeerIs
  <2>2. QED
    BY <1>5, <1>6, <2>1

LEMMA InitMembersInv == Init => MembersInv
<1> SUFFICES ASSUME Init PROVE MembersInv
  OBVIOUS
<1>1. IInv
  BY InitIInv
<1>2. ASSUME NEW n \in Owner, NEW cfg \in Contents(n)
      PROVE  cfg.staticNodes = Base(n)
  <2>1. \A c \in Command : ~Writing(c)
    BY DEF Init, Idle, Writing, Running
  <2>2. process[n] = NotRunning /\ file[n] = Gen(Base(n))
    BY DEF Init, Base
  <2>3. cfg = Gen(Base(n))
    BY <2>1, <2>2 DEF Contents
  <2>4. QED
    BY <2>3, GenIsGood
<1>3. NamesInv
  BY <1>2, BaseIs DEF NamesInv, Used, Owner
<1>4. KeepsMembers
  <2>1. \A n \in Owner : IsPrefix(Base(n), Base(n))
    BY BaseIs, PrefixIs
  <2>2. QED
    BY <1>2, <2>1 DEF KeepsMembers
<1>5. QED
  BY <1>1, <1>3, <1>4 DEF MembersInv

LEMMA NextMembersInv == MembersInv /\ [Next]_vars => MembersInv'
<1> SUFFICES ASSUME MembersInv, [Next]_vars PROVE MembersInv'
  OBVIOUS
<1>1. IInv /\ IInv' /\ TypeInv /\ TypeInv'
  BY NextIInv DEF MembersInv, IInv
<1>2. \A n \in Owner : Contents(n) \subseteq GoodConfig(n)
  BY <1>1 DEF IInv
<1>3. Used \subseteq Used' /\ (Resorted => Resorted')
  BY <1>1, UsedGrows
<1>4. ASSUME NEW n \in Owner, NEW cfg, cfg \in Contents(n)'
      PROVE  ToSet(cfg.staticNodes) \subseteq Used'
  <2>1. CASE cfg \in Contents(n)
    BY <1>3, <2>1 DEF MembersInv, NamesInv
  <2>2. ASSUME NEW c \in Command, Running(c), file[n] \in Contents(n),
               cfg = AddPeer(c, file[n])
        PROVE  ToSet(cfg.staticNodes) \subseteq Used'
    <3>1. /\ file[n] \in Config /\ file[n].staticNodes \in Seq(Peer)
          /\ IsInjective(file[n].staticNodes) /\ c.peer \in Peer
      BY <1>2, <2>2, ConstantsAre DEF GoodConfig, Config
    <3>2. ToSet(cfg.staticNodes) = ToSet(file[n].staticNodes) \cup {c.peer}
      <4>1. PICK added \in {AppendUnique(file[n].staticNodes, c.peer),
                            SortUnique(file[n].staticNodes, c.peer)} :
              added = cfg.staticNodes
        BY <2>2, <3>1, AddPeerIs
      <4>2. QED
        BY <3>1, <4>1, AddedList
    <3>3. ToSet(file[n].staticNodes) \subseteq Used /\ c.peer \in Used
      BY <2>2 DEF MembersInv, NamesInv, Used, Running
    <3>4. QED
      BY <1>3, <3>2, <3>3
  <2>3. QED
    BY <1>1, <1>4, <2>1, <2>2, ContentsStep
<1>5. ASSUME ~Resorted', NEW n \in Owner, NEW cfg, cfg \in Contents(n)'
      PROVE  IsPrefix(Base(n), cfg.staticNodes)
  <2>1. ~Resorted
    BY <1>3, <1>5
  <2>2. CASE cfg \in Contents(n)
    BY <2>1, <2>2 DEF MembersInv, KeepsMembers
  <2>3. ASSUME NEW c \in Command, Running(c), file[n] \in Contents(n),
               cfg = AddPeer(c, file[n])
        PROVE  IsPrefix(Base(n), cfg.staticNodes)
    <3>1. /\ file[n] \in GoodConfig(n) /\ ToSet(file[n].staticNodes) \subseteq Used
          /\ IsPrefix(Base(n), file[n].staticNodes)
      BY <1>2, <2>1, <2>3 DEF MembersInv, NamesInv, KeepsMembers
    <3>2. QED
      BY <1>1, <2>1, <2>3, <3>1, AddPeerKeepsMembers
  <2>4. QED
    BY <1>1, <1>5, <2>2, <2>3, ContentsStep
<1>6. NamesInv'
  BY <1>4 DEF NamesInv
<1>7. KeepsMembers'
  BY <1>5 DEF KeepsMembers
<1>8. QED
  BY <1>1, <1>6, <1>7 DEF MembersInv

\* What the process of a node has in its list while the members are in place.
LEMMA ProcessMembers ==
  ASSUME MembersInv, ~Resorted, NEW n \in Owner, process[n] # NotRunning
  PROVE  /\ process[n].committeeSize = Len(Base(n))
         /\ \A i \in 1 .. Len(Base(n)) : process[n].staticNodes[i] = Stale[i]
         /\ \E k \in 1 .. Len(Stale) : Stale[k] = n /\ IndexOf(process[n], n) = k - 1
<1>1. process[n] \in Contents(n)
  BY ContentsAreFiles DEF MembersInv, IInv
<1>2. PICK list \in Seq(Peer) : list = process[n].staticNodes
  BY <1>1 DEF MembersInv, IInv, GoodConfig, Config
<1>3. /\ IsInjective(list) /\ process[n].committeeSize = Len(Base(n))
      /\ IsPrefix(Base(n), list)
  BY <1>1, <1>2 DEF MembersInv, IInv, GoodConfig, KeepsMembers
<1>4. PICK base \in Seq(Peer) : base = Base(n)
  BY BaseIs, ConstantsAre, SeqMonotone
<1>5. /\ Len(base) <= Len(list) /\ Len(base) <= Len(Stale)
      /\ \A i \in 1 .. Len(base) : list[i] = base[i] /\ base[i] = Stale[i]
  BY <1>3, <1>4, PrefixIs, BaseIs
<1>6. n \in ToSet(base)
  BY <1>4, BaseIs
<1>7. PICK k \in 1 .. Len(base) : base[k] = n
  BY <1>6 DEF ToSet
<1>8. Len(base) \in Nat /\ Len(list) \in Nat /\ Len(Stale) \in Nat /\ DOMAIN list = 1 .. Len(list)
  BY NodeConfigsAssumption
<1>9. k \in DOMAIN list /\ list[k] = n /\ k \in 1 .. Len(Stale) /\ Stale[k] = n
  BY <1>5, <1>7, <1>8
<1>10. IndexOf(process[n], n) = k - 1
  <2>1. {i \in DOMAIN list : list[i] = n} = {k}
    BY <1>3, <1>9 DEF IsInjective
  <2>2. (CHOOSE i \in {k} : \A j \in {k} : i <= j) = k
    <3>1. k <= k
      BY <1>8
    <3>2. QED
      BY <3>1
  <2>3. QED
    BY <1>2, <2>1, <2>2 DEF IndexOf
<1>11. QED
  BY <1>2, <1>3, <1>4, <1>5, <1>9, <1>10

LEMMA MembersInvAgree == MembersInv => MembersAgree
<1> SUFFICES ASSUME MembersInv, ~Resorted, NEW m \in Owner, NEW n \in Owner
             PROVE  /\ \A i \in 0 .. Len(Stale) - 1 : (Takes(m, i) /\ Takes(n, i)) =>
                         process[m].staticNodes[i + 1] = process[n].staticNodes[i + 1]
                    /\ (m # n /\ process[m] # NotRunning /\ process[n] # NotRunning)
                          => IndexOf(process[m], m) # IndexOf(process[n], n)
  BY DEF MembersAgree
<1>1. ASSUME NEW l \in Owner, NEW i \in 0 .. Len(Stale) - 1, Takes(l, i)
      PROVE  process[l].staticNodes[i + 1] = Stale[i + 1]
  <2>1. Len(Base(l)) \in Nat
    BY BaseIs
  <2>2. i + 1 \in 1 .. Len(Base(l))
    BY <1>1, <2>1, ProcessMembers DEF Takes
  <2>3. QED
    BY <1>1, <2>2, ProcessMembers DEF Takes
<1>2. ASSUME m # n, process[m] # NotRunning, process[n] # NotRunning
      PROVE  IndexOf(process[m], m) # IndexOf(process[n], n)
  <2>1. PICK k \in 1 .. Len(Stale) : Stale[k] = m /\ IndexOf(process[m], m) = k - 1
    BY <1>2, ProcessMembers
  <2>2. PICK l \in 1 .. Len(Stale) : Stale[l] = n /\ IndexOf(process[n], n) = l - 1
    BY <1>2, ProcessMembers
  <2>3. k - 1 # l - 1
    BY <1>2, <2>1, <2>2
  <2>4. QED
    BY <2>1, <2>2, <2>3
<1>3. QED
  BY <1>1, <1>2

\* The processes that run agree on the member at every position and hold
\* positions of their own, for any number of add-peer commands in any order,
\* until the sorting of addPeer.sh moves a name before the members.
THEOREM ProcessesAgree == Spec => []MembersAgree
<1>1. QED
  BY InitMembersInv, NextMembersInv, MembersInvAgree, PTL DEF Spec

------------------------------------------------------------------------------
(***************************************************************************)
(* Commands one after the other, none of them killed.  A file is then in   *)
(* pieces only in the hands of the command that writes it, and a file that *)
(* a command has left behind keeps its peer: the commands that come later  *)
(* read it before they write it.                                           *)
(***************************************************************************)
\* The list of cfg has peer p, with one of addrs.
Has(cfg, p, addrs) == p \in ToSet(cfg.staticNodes) /\ cfg.staticNodeAddrs[p] \in addrs

\* Command c has updated the file of node n.
Covered(c, n) ==
  /\ c.from \in {All, n}
  /\ \/ job[c].status = "done"
     \/ Running(c) /\ n \notin ToSet(job[c].todo)

Orderly ==
  /\ \A c \in Command : job[c].status \in {"idle", "running", "done"}
  /\ \A c, d \in Command : Running(c) /\ Running(d) => c = d
  /\ \A c \in Command : Running(c) => job[c].step # "write unlinked"
  /\ \A n \in Owner :
       Decodes(file[n]) \/ \E c \in Command : (At(c, "write") \/ At(c, "create")) /\ Target(c) = n
  /\ \A c \in Command : /\ At(c, "write") => file[Target(c)] = Empty
                        /\ At(c, "create") => file[Target(c)] = Missing
  /\ \A c \in Command : Writing(c) =>
       job[c].cfg # Empty /\ Has(job[c].cfg, c.peer, AddrsTold(c.peer, Target(c)))
  /\ \A c \in Command, n \in Owner : Covered(c, n) =>
       /\ Decodes(file[n]) => Has(file[n], c.peer, AddrsTold(c.peer, n))
       /\ \A d \in Command : Writing(d) /\ Target(d) = n =>
            Has(job[d].cfg, c.peer, AddrsTold(c.peer, n))

OrderInv == IInv /\ (~overlap /\ kills = 0 => Orderly)

\* An edit adds its peer, and leaves those that are there.
LEMMA AddPeerHas ==
  ASSUME NEW n \in Owner, NEW cfg \in GoodConfig(n), NEW c \in Command
  PROVE  /\ \A addrs : c.addr \in addrs => Has(AddPeer(c, cfg), c.peer, addrs)
         /\ \A p \in Peer : \A addrs :
              Has(cfg, p, addrs) /\ (p = c.peer => c.addr \in addrs)
                => Has(AddPeer(c, cfg), p, addrs)
<1>1. cfg \in Config /\ IsInjective(cfg.staticNodes) /\ c.peer \in Peer
  BY ConstantsAre DEF GoodConfig
<1>2. ToSet(AddPeer(c, cfg).staticNodes) = ToSet(cfg.staticNodes) \cup {c.peer}
  BY AddPeerIsGood
<1>3. \A p \in Peer : AddPeer(c, cfg).staticNodeAddrs[p] =
                        IF p = c.peer THEN c.addr ELSE cfg.staticNodeAddrs[p]
  BY <1>1, AddPeerIs
<1>4. QED
  BY <1>1, <1>2, <1>3 DEF Has

\* What a step of the one command that runs has to keep.
LEMMA OrderlyStep ==
  ASSUME IInv, Orderly, [Next]_vars, NEW c \in Command,
         \A d \in Command \ {c} : job'[d] = job[d] /\ ~Running(d),
         job'[c].status \in {"running", "done"},
         Running(c)' => job'[c].step # "write unlinked",
         \A n \in Owner :
           Decodes(file'[n]) \/ ((At(c, "write")' \/ At(c, "create")') /\ Target(c)' = n),
         At(c, "write")' => file'[Target(c)'] = Empty,
         At(c, "create")' => file'[Target(c)'] = Missing,
         Writing(c)' => /\ job'[c].cfg # Empty
                        /\ Has(job'[c].cfg, c.peer, AddrsTold(c.peer, Target(c)')),
         \A n \in Owner :
           /\ \A d \in Command \ {c} : Covered(d, n) =>
                /\ Decodes(file'[n]) => Has(file'[n], d.peer, AddrsTold(d.peer, n))
                /\ Writing(c)' /\ Target(c)' = n =>
                     Has(job'[c].cfg, d.peer, AddrsTold(d.peer, n))
           /\ Covered(c, n)' /\ Decodes(file'[n]) =>
                Has(file'[n], c.peer, AddrsTold(c.peer, n))
  PROVE  Orderly'
<1>1. \A d \in Command \ {c} :
        /\ job'[d].status = job[d].status /\ job'[d].status # "running"
        /\ ~Running(d)' /\ ~At(d, "write")' /\ ~At(d, "create")' /\ ~Writing(d)'
        /\ \A n \in Owner : Covered(d, n)' <=> Covered(d, n)
  BY DEF Running, At, Writing, Covered
<1>2. \A d \in Command : job'[d].status \in {"idle", "running", "done"}
  <2>1. \A d \in Command : job[d].status \in {"idle", "running", "done"}
    BY DEF Orderly
  <2>2. QED
    BY <1>1, <2>1
<1>3. \A d, e \in Command : Running(d)' /\ Running(e)' => d = e
  BY <1>1
<1>4. \A d \in Command : Running(d)' => job'[d].step # "write unlinked"
  BY <1>1
<1>5. \A n \in Owner :
        \/ Decodes(file'[n])
        \/ \E d \in Command : (At(d, "write")' \/ At(d, "create")') /\ Target(d)' = n
  OBVIOUS
<1>6. \A d \in Command : /\ At(d, "write")' => file'[Target(d)'] = Empty
                         /\ At(d, "create")' => file'[Target(d)'] = Missing
  BY <1>1
<1>7. \A cfg, p, n : Has(cfg, p, AddrsTold(p, n)) => Has(cfg, p, AddrsTold(p, n)')
  <2>1. \A p, n : AddrsTold(p, n) \subseteq AddrsTold(p, n)'
    BY StatusStep DEF IInv
  <2>2. QED
    BY <2>1 DEF Has
<1>8. ASSUME NEW d \in Command, Writing(d)'
      PROVE  /\ job'[d].cfg # Empty
             /\ Has(job'[d].cfg, d.peer, AddrsTold(d.peer, Target(d)'))
             /\ d = c
  BY <1>1, <1>8
<1>9. \A d \in Command : Writing(d)' =>
        job'[d].cfg # Empty /\ Has(job'[d].cfg, d.peer, AddrsTold(d.peer, Target(d))')
  <2>1. SUFFICES ASSUME Writing(c)'
                 PROVE  Has(job'[c].cfg, c.peer, AddrsTold(c.peer, Target(c))')
    BY <1>8
  <2>2. PICK m : m = Target(c)'
    OBVIOUS
  <2>3. Has(job'[c].cfg, c.peer, AddrsTold(c.peer, m))
    BY <2>1, <2>2
  <2>4. Has(job'[c].cfg, c.peer, AddrsTold(c.peer, m)')
    BY <1>7, <2>3
  <2>5. AddrsTold(c.peer, m)' = AddrsTold(c.peer, Target(c))'
    BY <2>2 DEF AddrsTold, Told
  <2>6. QED
    BY <2>4, <2>5
<1>10. ASSUME NEW d \in Command, NEW n \in Owner, Covered(d, n)'
       PROVE  /\ Decodes(file'[n]) => Has(file'[n], d.peer, AddrsTold(d.peer, n)')
              /\ \A e \in Command : Writing(e)' /\ Target(e)' = n =>
                   Has(job'[e].cfg, d.peer, AddrsTold(d.peer, n)')
  <2>1. CASE d = c
    <3>1. Decodes(file'[n]) => Has(file'[n], c.peer, AddrsTold(c.peer, n))
      BY <1>10, <2>1
    <3>2. \A e \in Command : Writing(e)' /\ Target(e)' = n =>
            e = c /\ Has(job'[c].cfg, c.peer, AddrsTold(c.peer, n))
      BY <1>8
    <3>3. QED
      BY <1>7, <2>1, <3>1, <3>2
  <2>2. CASE d # c
    <3>1. /\ Decodes(file'[n]) => Has(file'[n], d.peer, AddrsTold(d.peer, n))
          /\ Writing(c)' /\ Target(c)' = n => Has(job'[c].cfg, d.peer, AddrsTold(d.peer, n))
      BY <1>1, <1>10, <2>2
    <3>2. \A e \in Command : Writing(e)' => e = c
      BY <1>8
    <3>3. QED
      BY <1>7, <3>1, <3>2
  <2>3. QED
    BY <2>1, <2>2
<1>11. QED
  BY <1>2, <1>3, <1>4, <1>5, <1>6, <1>9, <1>10 DEF Orderly

\* The state in which the one command that runs, c, takes a step.
LEMMA OnlyOneRuns ==
  ASSUME IInv, Orderly, NEW c \in Command, Running(c)
  PROVE  /\ job[c] \in Job
         /\ \A d \in Command \ {c} : ~Running(d) /\ ~At(d, "write")
         /\ job[c].todo # <<>> => /\ Target(c) \in Owner
                                  /\ ~Covered(c, Target(c))
                                  /\ c.addr \in AddrsTold(c.peer, Target(c))
         /\ \A n \in Owner :
              Decodes(file[n]) \/ ((At(c, "write") \/ At(c, "create")) /\ Target(c) = n)
<1>1. job[c] \in Job
  BY DEF IInv, TypeInv
<1>2. \A d \in Command \ {c} : ~Running(d) /\ ~At(d, "write") /\ ~At(d, "create")
  BY DEF Orderly, At
<1>3. \A n \in Owner :
        Decodes(file[n]) \/ ((At(c, "write") \/ At(c, "create")) /\ Target(c) = n)
  BY <1>2 DEF Orderly
<1>4. ASSUME job[c].todo # <<>>
      PROVE  /\ Target(c) \in Owner
             /\ ~Covered(c, Target(c))
             /\ c.addr \in AddrsTold(c.peer, Target(c))
  <2>1. Target(c) \in Owner
    BY <1>4, TargetType DEF IInv
  <2>2. Target(c) \in ToSet(job[c].todo)
    <3>1. PICK todo \in Seq(Owner) : todo = job[c].todo
      BY <1>1 DEF Job
    <3>2. QED
      BY <1>4, <3>1, ListIs DEF Target
  <2>3. c.from \in {All, Target(c)}
    BY <2>2 DEF IInv, TargetsInv
  <2>4. QED
    BY <2>1, <2>2, <2>3 DEF Covered, Running, AddrsTold, Told
<1>5. QED
  BY <1>1, <1>2, <1>3, <1>4

LEMMA BeginOrderly ==
  ASSUME IInv, Orderly, [Next]_vars, NEW c \in Command, Begin(c), ~overlap'
  PROVE  Orderly'
<1>1. /\ \A d \in Command : ~Running(d)
      /\ file' = file
  BY DEF Begin
<1>2. \A n \in Owner : Decodes(file[n]) /\ file[n] # Missing
  <2>1. \A n \in Owner : Decodes(file[n])
    BY <1>1 DEF Orderly, At
  <2>2. QED
    BY <2>1 DEF Decodes
<1>3. \A n \in Owner : c.from \in {All, n} => n \in ToSet(Targets(c))
  BY <1>2, TargetsAre
<1>4. ~FindsNothing(c)
  <2>1. \E n \in Owner : c.from \in {All, n}
    <3>1. Len(Stale) \in Nat \ {0} /\ DOMAIN Stale = 1 .. Len(Stale)
      BY ConstantsAre, NodeConfigsAssumption
    <3>2. Stale[1] \in Owner
      BY <3>1 DEF Owner, ToSet
    <3>3. QED
      BY <3>2, NodeConfigsAssumption DEF Owner
  <2>2. ToSet(<<>>) = {}
    BY DEF ToSet
  <2>3. QED
    BY <1>3, <2>1, <2>2 DEF FindsNothing
<1>5. /\ \A d \in Command \ {c} : job'[d] = job[d]
      /\ job'[c] = [Idle EXCEPT !.status = "running", !.todo = Targets(c)]
  BY <1>4 DEF Begin, IInv, TypeInv
<1>6. job'[c].status = "running" /\ job'[c].todo = Targets(c) /\ job'[c].step = "load"
  BY <1>5 DEF Idle
<1>7. \A n \in Owner : ~Covered(c, n)'
  BY <1>3, <1>6 DEF Covered
<1>8. ~At(c, "write")' /\ ~At(c, "create")' /\ ~Writing(c)'
  BY <1>6 DEF At, Writing
<1>9. \A n \in Owner : \A d \in Command \ {c} :
        Covered(d, n) => Has(file'[n], d.peer, AddrsTold(d.peer, n))
  BY <1>1, <1>2 DEF Orderly
<1>10. \A n \in Owner : Decodes(file'[n])
  BY <1>1, <1>2
<1>11. QED
  BY <1>1, <1>5, <1>6, <1>7, <1>8, <1>9, <1>10, OrderlyStep

LEMMA LoadOrderly ==
  ASSUME IInv, Orderly, [Next]_vars, NEW c \in Command, LoadConfig(c)
  PROVE  Orderly'
<1>1. Running(c) /\ job[c].todo # <<>> /\ job[c].step = "load" /\ file' = file
  BY DEF LoadConfig, At
<1>2. PICK n \in Owner : n = Target(c) /\ ~Covered(c, n) /\ c.addr \in AddrsTold(c.peer, n)
  BY <1>1, OnlyOneRuns
<1>3. /\ \A m \in Owner : Decodes(file[m])
      /\ \A d \in Command \ {c} : ~Running(d)
      /\ job[c] \in Job
  BY <1>1, OnlyOneRuns DEF At
<1>4. PICK cfg \in GoodConfig(n) : cfg = file[n]
  BY <1>3, ContentsAreFiles DEF IInv
<1>5. PICK new : /\ new = AddPeer(c, cfg) /\ new # Empty
                 /\ Has(new, c.peer, AddrsTold(c.peer, n))
                 /\ \A d \in Command : Has(cfg, d.peer, AddrsTold(d.peer, n)) =>
                                         Has(new, d.peer, AddrsTold(d.peer, n))
  <2>1. AddPeer(c, cfg) # Empty
    BY <1>4, AddPeerIsGood, NoConfigAssumption DEF GoodConfig
  <2>2. \A d \in Command : d.peer \in Peer
    BY ConstantsAre
  <2>3. QED
    BY <1>2, <1>4, <2>1, <2>2, AddPeerHas
<1>6. PICK next \in {"truncate", "move"} : next = IF c.tool = "cli" THEN "truncate" ELSE "move"
  OBVIOUS
<1>7. /\ \A d \in Command \ {c} : job'[d] = job[d]
      /\ job'[c] = [job[c] EXCEPT !.cfg = new, !.step = next]
  <2>1. job' = [job EXCEPT ![c] = [job[c] EXCEPT !.cfg = new, !.step = next]]
    BY <1>2, <1>3, <1>4, <1>5, <1>6 DEF LoadConfig, IInv, TypeInv
  <2>2. QED
    BY <2>1 DEF IInv, TypeInv
<1>8. /\ job'[c].status = "running" /\ job'[c].todo = job[c].todo
      /\ job'[c].step = next /\ job'[c].cfg = new
  BY <1>1, <1>3, <1>7 DEF Job, Running
<1>9. /\ ~At(c, "write")' /\ ~At(c, "create")' /\ Target(c)' = n
      /\ \A m \in Owner : Covered(c, m)' <=> Covered(c, m)
  BY <1>1, <1>2, <1>6, <1>8 DEF At, Target, Covered, Running
<1>10. \A m \in Owner : Decodes(file'[m])
  BY <1>1, <1>3
<1>11. \A m \in Owner : \A d \in Command :
         Covered(d, m) => Has(file'[m], d.peer, AddrsTold(d.peer, m))
  BY <1>1, <1>3 DEF Orderly
<1>12. \A d \in Command : Covered(d, n) => Has(job'[c].cfg, d.peer, AddrsTold(d.peer, n))
  BY <1>1, <1>4, <1>5, <1>8, <1>11
<1>13. /\ job'[c].cfg # Empty /\ Has(job'[c].cfg, c.peer, AddrsTold(c.peer, Target(c)'))
       /\ job'[c].step # "write unlinked"
  BY <1>5, <1>6, <1>8, <1>9
<1>14. \A m \in Owner :
         /\ \A d \in Command \ {c} : Covered(d, m) =>
              /\ Decodes(file'[m]) => Has(file'[m], d.peer, AddrsTold(d.peer, m))
              /\ Writing(c)' /\ Target(c)' = m =>
                   Has(job'[c].cfg, d.peer, AddrsTold(d.peer, m))
         /\ Covered(c, m)' /\ Decodes(file'[m]) =>
              Has(file'[m], c.peer, AddrsTold(c.peer, m))
  BY <1>9, <1>11, <1>12
<1>15. job'[c].status \in {"running", "done"}
  BY <1>8
<1>16. QED
  BY <1>3, <1>7, <1>9, <1>10, <1>13, <1>14, <1>15, OrderlyStep

\* The file of the target is emptied, removed, or there again and empty.
LEMMA OpenOrderly ==
  ASSUME IInv, Orderly, [Next]_vars, NEW c \in Command,
         Truncate(c) \/ RemoveConfig(c) \/ CreateConfig(c)
  PROVE  Orderly'
<1>1. Running(c) /\ job[c].todo # <<>> /\ Writing(c) /\ ~At(c, "write")
  BY DEF Truncate, RemoveConfig, CreateConfig, At, Writing
<1>2. PICK n \in Owner : n = Target(c) /\ ~Covered(c, n)
  BY <1>1, OnlyOneRuns
<1>3. /\ \A m \in Owner : m # n => Decodes(file[m])
      /\ \A d \in Command \ {c} : ~Running(d) /\ ~At(d, "write")
      /\ job[c] \in Job
  BY <1>1, <1>2, OnlyOneRuns
<1>4. PICK content \in {Empty, Missing}, step \in {"write", "create"} :
        /\ step = "write" => content = Empty
        /\ step = "create" => content = Missing
        /\ file' = [file EXCEPT ![n] = content]
        /\ job' = [job EXCEPT ![c].step = step]
  <2>1. CASE Truncate(c)
    BY <1>2, <2>1 DEF Truncate
  <2>2. CASE RemoveConfig(c)
    <3>1. Unlink(c, [job[c] EXCEPT !.step = "create"]) = [job EXCEPT ![c].step = "create"]
      BY <1>3 DEF Unlink, IInv, TypeInv
    <3>2. QED
      BY <1>2, <2>2, <3>1 DEF RemoveConfig
  <2>3. CASE CreateConfig(c)
    <3>1. file[n] = Missing
      BY <1>2, <2>3 DEF CreateConfig, Orderly
    <3>2. QED
      BY <1>2, <2>3, <3>1 DEF CreateConfig
  <2>4. QED
    BY <2>1, <2>2, <2>3
<1>5. \A m \in Owner : file'[m] = IF m = n THEN content ELSE file[m]
  BY <1>4 DEF IInv, TypeInv
<1>6. /\ \A d \in Command \ {c} : job'[d] = job[d]
      /\ job'[c] = [job[c] EXCEPT !.step = step]
  BY <1>4 DEF IInv, TypeInv
<1>7. /\ job'[c].status = "running" /\ job'[c].todo = job[c].todo
      /\ job'[c].step = step /\ job'[c].cfg = job[c].cfg
  BY <1>1, <1>3, <1>6 DEF Job, Running
<1>8. /\ At(c, "write")' \/ At(c, "create")'
      /\ Target(c)' = n
      /\ At(c, "write")' => content = Empty
      /\ At(c, "create")' => content = Missing
      /\ \A m \in Owner : Covered(c, m)' <=> Covered(c, m)
  BY <1>1, <1>2, <1>4, <1>7 DEF At, Target, Covered, Running
<1>9. /\ job'[c].cfg # Empty /\ Has(job'[c].cfg, c.peer, AddrsTold(c.peer, n))
      /\ \A d \in Command : Covered(d, n) => Has(job'[c].cfg, d.peer, AddrsTold(d.peer, n))
  BY <1>1, <1>2, <1>7 DEF Orderly
<1>10. ~Decodes(file'[n]) /\ file'[n] = content
  BY <1>4, <1>5 DEF Decodes
<1>11. \A m \in Owner : m # n => Decodes(file'[m])
  BY <1>3, <1>5
<1>12. \A m \in Owner : \A d \in Command :
         Covered(d, m) /\ Decodes(file'[m]) => Has(file'[m], d.peer, AddrsTold(d.peer, m))
  BY <1>3, <1>5, <1>10 DEF Orderly
<1>13. job'[c].step # "write unlinked"
  BY <1>7
<1>14. QED
  BY <1>3, <1>6, <1>7, <1>8, <1>9, <1>10, <1>11, <1>12, <1>13, OrderlyStep

\* The command leaves the file of its target with what it has made of it.
LEMMA WriteOrderly ==
  ASSUME IInv, Orderly, [Next]_vars, NEW c \in Command, WriteConfig(c) \/ MoveConfig(c)
  PROVE  Orderly'
<1>1. /\ Running(c) /\ job[c].todo # <<>> /\ Writing(c)
      /\ WriteConfig(c) => At(c, "write")
  BY DEF WriteConfig, MoveConfig, At, Writing
<1>2. PICK n \in Owner : n = Target(c)
  BY <1>1, OnlyOneRuns
<1>3. /\ \A m \in Owner : m # n => Decodes(file[m])
      /\ \A d \in Command \ {c} : ~Running(d) /\ ~At(d, "write")
      /\ job[c] \in Job
  BY <1>1, <1>2, OnlyOneRuns
<1>4. PICK cfg : /\ cfg = job[c].cfg /\ cfg \notin {Empty, Garbage, Missing}
                 /\ Has(cfg, c.peer, AddrsTold(c.peer, n))
                 /\ \A d \in Command : Covered(d, n) => Has(cfg, d.peer, AddrsTold(d.peer, n))
  <2>1. job[c].cfg \in Config \cup {Empty} /\ job[c].cfg # Empty
    BY <1>1, <1>3 DEF Orderly, Job
  <2>2. job[c].cfg \notin {Garbage, Missing}
    BY <2>1, NoConfigAssumption
  <2>3. QED
    BY <1>1, <1>2, <2>1, <2>2 DEF Orderly
<1>5. file' = [file EXCEPT ![n] = cfg]
  <2>1. CASE WriteConfig(c)
    <3>1. file[n] = Empty
      BY <1>1, <1>2, <2>1 DEF Orderly
    <3>2. Overwritten(file[n], cfg) = {cfg}
      BY <1>4, <3>1 DEF Overwritten
    <3>3. QED
      BY <1>2, <1>4, <2>1, <3>2 DEF WriteConfig
  <2>2. CASE MoveConfig(c)
    BY <1>2, <1>4, <2>2 DEF MoveConfig
  <2>3. QED
    BY <2>1, <2>2
<1>6. \A m \in Owner : file'[m] = IF m = n THEN cfg ELSE file[m]
  BY <1>5 DEF IInv, TypeInv
<1>7. /\ \A d \in Command \ {c} : job'[d] = job[d]
      /\ job'[c] = NextTarget(job[c])
  <2>1. CASE WriteConfig(c)
    BY <2>1 DEF WriteConfig, IInv, TypeInv
  <2>2. CASE MoveConfig(c)
    BY <1>3, <2>2 DEF MoveConfig, Unlink
  <2>3. QED
    BY <2>1, <2>2
<1>8. /\ job'[c].status = "running" /\ job'[c].todo = Tail(job[c].todo)
      /\ job'[c].step = "load"
  BY <1>1, <1>7 DEF NextTarget, Idle, Running
<1>9. ~At(c, "write")' /\ ~At(c, "create")' /\ ~Writing(c)'
  BY <1>8 DEF At, Writing
<1>10. ASSUME NEW m \in Owner, m # n, Covered(c, m)'
       PROVE  Covered(c, m)
  <2>1. PICK todo \in Seq(Owner) : todo = job[c].todo
    BY <1>3 DEF Job
  <2>2. ToSet(todo) = {Head(todo)} \cup ToSet(Tail(todo))
    BY <1>1, <2>1, ListIs
  <2>3. /\ c.from \in {All, m}
        /\ m \notin ToSet(Tail(todo))
    BY <1>8, <1>10, <2>1 DEF Covered
  <2>4. QED
    BY <1>1, <1>2, <1>10, <2>1, <2>2, <2>3 DEF Covered, Target
<1>11. \A m \in Owner : Decodes(file'[m])
  BY <1>3, <1>4, <1>6 DEF Decodes
<1>12. \A m \in Owner : \A d \in Command \ {c} :
         Covered(d, m) => Has(file'[m], d.peer, AddrsTold(d.peer, m))
  BY <1>3, <1>4, <1>6 DEF Orderly
<1>13. \A m \in Owner : Covered(c, m)' => Has(file'[m], c.peer, AddrsTold(c.peer, m))
  BY <1>3, <1>4, <1>6, <1>10 DEF Orderly
<1>14. /\ \A d \in Command \ {c} : job'[d] = job[d] /\ ~Running(d)
       /\ job'[c].status = "running" /\ job'[c].step # "write unlinked"
  BY <1>3, <1>7, <1>8
<1>15. QED
  BY <1>9, <1>11, <1>12, <1>13, <1>14, OrderlyStep

LEMMA EndOrderly ==
  ASSUME IInv, Orderly, [Next]_vars, NEW c \in Command, End(c)
  PROVE  Orderly'
<1>1. Running(c) /\ job[c].todo = <<>> /\ file' = file
  BY DEF End
<1>2. /\ \A m \in Owner : Decodes(file[m])
      /\ \A d \in Command \ {c} : ~Running(d)
      /\ job[c] \in Job
  BY <1>1, OnlyOneRuns DEF At
<1>3. /\ \A d \in Command \ {c} : job'[d] = job[d]
      /\ job'[c] = [job[c] EXCEPT !.status = "done"]
  BY DEF End, IInv, TypeInv
<1>4. job'[c].status = "done"
  BY <1>2, <1>3 DEF Job
<1>5. ~Running(c)' /\ ~At(c, "write")' /\ ~At(c, "create")' /\ ~Writing(c)'
  BY <1>4 DEF Running, At, Writing
<1>6. \A m \in Owner : Covered(c, m)' => Covered(c, m)
  <2>1. ToSet(<<>>) = {}
    BY DEF ToSet
  <2>2. QED
    BY <1>1, <2>1 DEF Covered
<1>7. \A m \in Owner : Decodes(file'[m])
  BY <1>1, <1>2
<1>8. \A m \in Owner : \A d \in Command :
        Covered(d, m) => Has(file'[m], d.peer, AddrsTold(d.peer, m))
  BY <1>1, <1>2 DEF Orderly
<1>9. QED
  BY <1>2, <1>3, <1>4, <1>5, <1>6, <1>7, <1>8, OrderlyStep

LEMMA InitOrderInv == Init => OrderInv
<1> SUFFICES ASSUME Init PROVE OrderInv
  OBVIOUS
<1>1. \A c \in Command : job[c].status = "idle"
  BY DEF Init, Idle
<1>2. \A n \in Owner : Decodes(file[n])
  <2>1. \A n \in Owner : file[n] \in Config
    BY GenIsGood DEF Init, Base, GoodConfig
  <2>2. QED
    BY <2>1, NoConfigAssumption DEF Decodes
<1>3. Orderly
  BY <1>1, <1>2 DEF Orderly, Running, At, Writing, Covered
<1>4. QED
  BY <1>3, InitIInv DEF OrderInv

LEMMA NextOrderInv == OrderInv /\ [Next]_vars => OrderInv'
<1> SUFFICES ASSUME OrderInv, [Next]_vars PROVE OrderInv'
  OBVIOUS
<1>1. IInv /\ IInv' /\ (~overlap /\ kills = 0 => Orderly)
  BY NextIInv DEF OrderInv
<1> SUFFICES ASSUME ~overlap', kills' = 0
             PROVE  Orderly'
  BY <1>1 DEF OrderInv
<1>2. kills \in Nat
  BY <1>1 DEF IInv, TypeInv
<1>3. CASE UNCHANGED vars \/ \E n \in Owner : StartNode(n)
  <2>1. ~overlap /\ kills = 0 /\ file' = file /\ job' = job
    BY <1>3 DEF vars, StartNode
  <2>2. Orderly
    BY <1>1, <2>1
  <2>3. QED
    BY <2>1, <2>2 DEF Orderly, Covered, Writing, At, Running, Target, AddrsTold, Told
<1>4. ASSUME NEW c \in Command, Begin(c)
      PROVE  Orderly'
  BY <1>1, <1>4, BeginOrderly DEF Begin
<1>5. ASSUME NEW c \in Command, LoadConfig(c)
      PROVE  Orderly'
  BY <1>1, <1>5, LoadOrderly DEF LoadConfig
<1>6. ASSUME NEW c \in Command, Truncate(c) \/ RemoveConfig(c) \/ CreateConfig(c)
      PROVE  Orderly'
  BY <1>1, <1>6, OpenOrderly DEF Truncate, RemoveConfig, CreateConfig
<1>7. ASSUME NEW c \in Command, WriteConfig(c) \/ MoveConfig(c)
      PROVE  Orderly'
  BY <1>1, <1>7, WriteOrderly DEF WriteConfig, MoveConfig
<1>8. ASSUME NEW c \in Command, WriteUnlinked(c)
      PROVE  FALSE
  BY <1>1, <1>8 DEF WriteUnlinked, At, Orderly
<1>9. ASSUME NEW c \in Command, End(c)
      PROVE  Orderly'
  BY <1>1, <1>9, EndOrderly DEF End
<1>10. ASSUME NEW c \in Command, Kill(c)
       PROVE  FALSE
  BY <1>2, <1>10 DEF Kill
<1>11. QED
  BY <1>3, <1>4, <1>5, <1>6, <1>7, <1>8, <1>9, <1>10 DEF Next

\* Commands that are run one after the other, and not interrupted, never fail,
\* and leave their peers in all files they have edited, with an address that
\* one of them was told.
THEOREM OrderlyCommands == Spec => []OrderlyCommandsAdd
<1>1. OrderInv => OrderlyCommandsAdd
  <2> SUFFICES ASSUME OrderInv, ~overlap, kills = 0, NEW c \in Command
               PROVE  /\ job[c].status # "failed"
                      /\ job[c].status = "done" =>
                           \A n \in Owner :
                             (c.from \in {All, n} /\ Decodes(file[n])) =>
                               Has(file[n], c.peer, AddrsTold(c.peer, n))
    BY DEF OrderlyCommandsAdd, Has, AddrsTold
  <2>1. Orderly
    BY DEF OrderInv
  <2>2. QED
    BY <2>1 DEF Orderly, Covered
<1>2. QED
  BY <1>1, InitOrderInv, NextOrderInv, PTL DEF Spec

================================================================================
