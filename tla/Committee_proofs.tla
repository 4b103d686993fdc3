--------------------------- MODULE Committee_proofs ---------------------------
(***************************************************************************)
(* Proofs about Committee.                                                 *)
(***************************************************************************)
EXTENDS Committee, Transport_proofs, FiniteSetTheorems

------------------------------------------------------------------------------
(***************************************************************************)
(* The queue of a main loop without the shares.                            *)
(***************************************************************************)
\* The places of the rounds' envelopes among the first i.
RoundPlaces(queue, i) == {j \in 1 .. i : OfRounds(queue[j])}

LEMMA AmongIsNatural ==
  ASSUME NEW queue, NEW i \in Nat
  PROVE  IsFiniteSet(RoundPlaces(queue, i)) /\ RoundsAmong(queue, i) \in Nat
<1>1. IsFiniteSet(1 .. i)
  BY FS_Interval
<1>2. RoundPlaces(queue, i) \in SUBSET (1 .. i)
  BY DEF RoundPlaces
<1>3. IsFiniteSet(RoundPlaces(queue, i))
  BY <1>1, <1>2, FS_Subset
<1>4. RoundsAmong(queue, i) = Cardinality(RoundPlaces(queue, i))
  BY DEF RoundsAmong, RoundPlaces
<1>5. QED
  BY <1>3, <1>4, FS_CardinalityType

LEMMA AmongGrows ==
  ASSUME NEW queue, NEW i \in Nat, NEW j \in Nat, i <= j
  PROVE  RoundsAmong(queue, i) <= RoundsAmong(queue, j)
<1>1. RoundPlaces(queue, i) \in SUBSET RoundPlaces(queue, j)
  BY DEF RoundPlaces
<1>2. /\ RoundsAmong(queue, i) = Cardinality(RoundPlaces(queue, i))
      /\ RoundsAmong(queue, j) = Cardinality(RoundPlaces(queue, j))
  BY DEF RoundsAmong, RoundPlaces
<1>3. IsFiniteSet(RoundPlaces(queue, j))
  BY AmongIsNatural
<1>4. QED
  BY <1>1, <1>2, <1>3, FS_Subset

LEMMA AmongCounts ==
  ASSUME NEW queue, NEW i \in Nat
  PROVE  /\ RoundsAmong(queue, 0) = 0
         /\ RoundsAmong(queue, i + 1) =
              IF OfRounds(queue[i + 1]) THEN RoundsAmong(queue, i) + 1
                                        ELSE RoundsAmong(queue, i)
<1>1. \A k \in Nat : RoundsAmong(queue, k) = Cardinality(RoundPlaces(queue, k))
  BY DEF RoundsAmong, RoundPlaces
<1>2. RoundsAmong(queue, 0) = 0
  <2>1. RoundPlaces(queue, 0) = {}
    BY DEF RoundPlaces
  <2>2. QED
    BY <1>1, <2>1, FS_EmptySet
<1>3. CASE OfRounds(queue[i + 1])
  <2>1. /\ RoundPlaces(queue, i + 1) = RoundPlaces(queue, i) \cup {i + 1}
        /\ i + 1 \notin RoundPlaces(queue, i)
    BY <1>3 DEF RoundPlaces
  <2>2. Cardinality(RoundPlaces(queue, i) \cup {i + 1}) = Cardinality(RoundPlaces(queue, i)) + 1
    BY <2>1, AmongIsNatural, FS_AddElement
  <2>3. QED
    BY <1>1, <1>2, <1>3, <2>1, <2>2
<1>4. CASE ~OfRounds(queue[i + 1])
  <2>1. RoundPlaces(queue, i + 1) = RoundPlaces(queue, i)
    BY <1>4 DEF RoundPlaces
  <2>2. QED
    BY <1>1, <1>2, <1>4, <2>1
<1>5. QED
  BY <1>3, <1>4

\* Queues that agree on their first places agree on the counts there.
LEMMA AmongAgrees ==
  ASSUME NEW q, NEW p, NEW i \in Nat, \A j \in 1 .. i : q[j] = p[j]
  PROVE  RoundsAmong(q, i) = RoundsAmong(p, i)
  BY DEF RoundsAmong

\* A queue whose first place is taken off.
LEMMA AmongShifts ==
  ASSUME NEW q, NEW p, NEW i \in Nat, \A j \in 1 .. i : q[j] = p[j + 1]
  PROVE  RoundsAmong(p, i + 1) = IF OfRounds(p[1]) THEN RoundsAmong(q, i) + 1
                                                   ELSE RoundsAmong(q, i)
<1> DEFINE Rest == RoundPlaces(p, i + 1) \ {1}
           shift == [j \in RoundPlaces(q, i) |-> j + 1]
<1>1. ExistsBijection(RoundPlaces(q, i), Rest)
  <2>1. shift \in [RoundPlaces(q, i) -> Rest]
    BY DEF RoundPlaces
  <2>2. \A a, b \in RoundPlaces(q, i) : shift[a] = shift[b] => a = b
    BY DEF RoundPlaces
  <2>3. ASSUME NEW k \in Rest
        PROVE  \E j \in RoundPlaces(q, i) : shift[j] = k
    <3>1. k \in 2 .. i + 1 /\ OfRounds(p[k])
      BY <2>3 DEF RoundPlaces
    <3>2. k - 1 \in 1 .. i /\ (k - 1) + 1 = k
      BY <3>1
    <3>3. k - 1 \in RoundPlaces(q, i)
      BY <3>1, <3>2 DEF RoundPlaces
    <3>4. QED
      BY <3>2, <3>3
  <2>4. shift \in Bijection(RoundPlaces(q, i), Rest)
    BY <2>1, <2>2, <2>3 DEF Bijection, Injection, Surjection, IsInjective
  <2>5. QED
    BY <2>4 DEF ExistsBijection
<1>2. Cardinality(Rest) = Cardinality(RoundPlaces(q, i)) /\ IsFiniteSet(Rest)
  BY <1>1, AmongIsNatural, FS_Bijection
<1>3. /\ RoundsAmong(q, i) = Cardinality(RoundPlaces(q, i))
      /\ RoundsAmong(p, i + 1) = Cardinality(RoundPlaces(p, i + 1))
  BY DEF RoundsAmong, RoundPlaces
<1>4. CASE OfRounds(p[1])
  <2>1. RoundPlaces(p, i + 1) = Rest \cup {1} /\ 1 \notin Rest
    BY <1>4 DEF RoundPlaces
  <2>2. Cardinality(Rest \cup {1}) = Cardinality(Rest) + 1
    BY <1>2, <2>1, FS_AddElement
  <2>3. QED
    BY <1>2, <1>3, <1>4, <2>1, <2>2
<1>5. CASE ~OfRounds(p[1])
  <2>1. RoundPlaces(p, i + 1) = Rest
    BY <1>5 DEF RoundPlaces
  <2>2. QED
    BY <1>2, <1>3, <1>5, <2>1
<1>6. QED
  BY <1>4, <1>5

\* The envelopes of the rounds that are k-th among those of the rounds: one, if any.
Kth(queue, k) ==
  {queue[i] : i \in {j \in DOMAIN queue : OfRounds(queue[j]) /\ RoundsAmong(queue, j) = k}}

LEMMA RoundsOnlyIs ==
  ASSUME NEW S, NEW q \in Seq(S)
  PROVE  /\ RoundsOnly(q) = [k \in 1 .. RoundsAmong(q, Len(q)) |-> CHOOSE env \in Kth(q, k) : TRUE]
         /\ Len(RoundsOnly(q)) = RoundsAmong(q, Len(q))
         /\ RoundsAmong(q, Len(q)) \in Nat
         /\ \E T : RoundsOnly(q) \in Seq(T)
<1> DEFINE R == RoundsOnly(q)
           T == {R[k] : k \in DOMAIN R}
<1>1. R = [k \in 1 .. RoundsAmong(q, Len(q)) |-> CHOOSE env \in Kth(q, k) : TRUE]
  BY DEF RoundsOnly, Kth
<1>2. PICK n \in Nat : n = RoundsAmong(q, Len(q))
  BY AmongIsNatural
<1>3. DOMAIN R = 1 .. n /\ R = [k \in 1 .. n |-> R[k]]
  BY <1>1, <1>2
<1>4. R \in [1 .. n -> T]
  BY <1>3
<1>5. R \in Seq(T) /\ Len(R) = n
  <2> HIDE DEF R, T
  <2>1. QED
    BY <1>2, <1>3, <1>4
<1>6. QED
  BY <1>1, <1>2, <1>5

LEMMA RoundsOnlyEmpty == RoundsOnly(<<>>) = <<>>
<1>1. RoundsAmong(<<>>, 0) = 0
  BY AmongCounts
<1>2. <<>> \in Seq({}) /\ Len(<<>>) = 0
  OBVIOUS
<1>3. Len(RoundsOnly(<<>>)) = 0 /\ \E T : RoundsOnly(<<>>) \in Seq(T)
  BY <1>1, <1>2, RoundsOnlyIs
<1>4. QED
  BY <1>3

LEMMA RoundsOnlyAppend ==
  ASSUME NEW S, NEW q \in Seq(S), NEW e \in S
  PROVE  RoundsOnly(Append(q, e)) = IF OfRounds(e) THEN Append(RoundsOnly(q), e)
                                                   ELSE RoundsOnly(q)
<1> DEFINE p == Append(q, e)
           K == RoundsAmong(q, Len(q))
<1>1. PICK n \in Nat : n = Len(q)
  OBVIOUS
<1>2. /\ p \in Seq(S) /\ Len(p) = n + 1 /\ p[n + 1] = e
      /\ DOMAIN p = 1 .. n + 1 /\ DOMAIN q = 1 .. n
      /\ \A i \in 1 .. n : p[i] = q[i]
  BY <1>1
<1> HIDE DEF p
<1>3. \A i \in 0 .. n : RoundsAmong(p, i) = RoundsAmong(q, i)
  <2>1. ASSUME NEW i \in 0 .. n
        PROVE  RoundsAmong(p, i) = RoundsAmong(q, i)
    <3>1. i \in Nat /\ \A j \in 1 .. i : p[j] = q[j]
      BY <1>2
    <3>2. QED
      BY <3>1, AmongAgrees
  <2>2. QED
    BY <2>1
<1>4. K \in Nat /\ \A i \in 1 .. n : RoundsAmong(q, i) \in Nat /\ RoundsAmong(q, i) <= K
  BY <1>1, AmongIsNatural, AmongGrows
<1>5. RoundsAmong(p, n + 1) = IF OfRounds(e) THEN K + 1 ELSE K
  <2>1. RoundsAmong(p, n + 1) = IF OfRounds(p[n + 1]) THEN RoundsAmong(p, n) + 1
                                                     ELSE RoundsAmong(p, n)
    BY AmongCounts
  <2>2. RoundsAmong(p, n) = K
    BY <1>1, <1>3
  <2>3. QED
    BY <1>2, <2>1, <2>2
<1> HIDE DEF K
<1>6. \A k \in 1 .. K : Kth(p, k) = Kth(q, k)
  <2>1. ASSUME NEW k \in 1 .. K
        PROVE  {j \in DOMAIN p : OfRounds(p[j]) /\ RoundsAmong(p, j) = k}
                 = {j \in DOMAIN q : OfRounds(q[j]) /\ RoundsAmong(q, j) = k}
    BY <1>2, <1>3, <1>4, <1>5
  <2>2. QED
    BY <1>2, <2>1 DEF Kth
<1>7. /\ RoundsOnly(q) = [k \in 1 .. K |-> CHOOSE env \in Kth(q, k) : TRUE]
      /\ Len(RoundsOnly(q)) = K
      /\ \E T : RoundsOnly(q) \in Seq(T)
  BY RoundsOnlyIs DEF K
<1>8. RoundsOnly(p) = [k \in 1 .. RoundsAmong(p, n + 1) |-> CHOOSE env \in Kth(p, k) : TRUE]
  BY <1>2, RoundsOnlyIs
<1>9. CASE ~OfRounds(e)
  BY <1>5, <1>6, <1>7, <1>8, <1>9 DEF p
<1>10. CASE OfRounds(e)
  <2>1. Kth(p, K + 1) = {e}
    <3>1. {j \in DOMAIN p : OfRounds(p[j]) /\ RoundsAmong(p, j) = K + 1} = {n + 1}
      BY <1>2, <1>3, <1>4, <1>5, <1>10
    <3>2. QED
      BY <1>2, <3>1 DEF Kth
  <2>2. RoundsOnly(p) = [k \in 1 .. K + 1 |-> IF k = K + 1 THEN e ELSE RoundsOnly(q)[k]]
    <3>1. \A k \in 1 .. K + 1 : (CHOOSE env \in Kth(p, k) : TRUE)
                                  = IF k = K + 1 THEN e ELSE RoundsOnly(q)[k]
      <4>1. (CHOOSE env \in {e} : TRUE) = e
        OBVIOUS
      <4>2. (CHOOSE env \in Kth(p, K + 1) : TRUE) = e
        BY <2>1, <4>1
      <4>3. \A k \in 1 .. K : (CHOOSE env \in Kth(p, k) : TRUE) = RoundsOnly(q)[k]
        BY <1>6, <1>7
      <4>4. QED
        BY <1>4, <4>2, <4>3
    <3>2. QED
      BY <1>5, <1>8, <1>10, <3>1
  <2>3. PICK R, T : R = RoundsOnly(q) /\ R \in Seq(T) /\ Len(R) = K
    BY <1>7
  <2>4. RoundsOnly(p) = Append(R, e)
    <3>1. R \in Seq(T \cup {e})
      BY <2>3
    <3>2. PICK B : B = Append(R, e) /\ B \in Seq(T \cup {e}) /\ Len(B) = K + 1
      <4>1. R \in Seq(T \cup {e}) /\ e \in T \cup {e} /\ Len(R) = K
        BY <2>3, <3>1
      <4>2. Append(R, e) \in Seq(T \cup {e}) /\ Len(Append(R, e)) = K + 1
        BY <4>1
      <4>3. QED
        BY <4>2
    <3>3. \A k \in 1 .. K + 1 : B[k] = IF k = K + 1 THEN e ELSE R[k]
      BY <2>3, <3>1, <3>2
    <3>4. PICK A, V : A = RoundsOnly(p) /\ A \in Seq(V) /\ Len(A) = K + 1
      BY <1>2, <1>5, <1>10, RoundsOnlyIs
    <3>5. \A k \in 1 .. K + 1 : A[k] = B[k]
      BY <2>2, <2>3, <3>3, <3>4
    <3>6. A = B
      BY <1>4, <3>2, <3>4, <3>5
    <3>7. QED
      BY <3>2, <3>4, <3>6
  <2>5. QED
    BY <1>10, <2>3, <2>4 DEF p
<1>11. QED
  BY <1>9, <1>10

LEMMA RoundsOnlyTail ==
  ASSUME NEW S, NEW q \in Seq(S), q # <<>>
  PROVE  /\ OfRounds(Head(q)) =>
              /\ RoundsOnly(q) # <<>>
              /\ Head(RoundsOnly(q)) = Head(q)
              /\ RoundsOnly(Tail(q)) = Tail(RoundsOnly(q))
         /\ ~OfRounds(Head(q)) => RoundsOnly(Tail(q)) = RoundsOnly(q)
<1> DEFINE t == Tail(q)
           c == IF OfRounds(q[1]) THEN 1 ELSE 0
           K == RoundsAmong(t, Len(t))
<1>1. PICK n \in Nat : n = Len(t)
  OBVIOUS
<1>2. /\ t \in Seq(S) /\ Len(q) = n + 1 /\ Head(q) = q[1]
      /\ DOMAIN t = 1 .. n /\ DOMAIN q = 1 .. n + 1
      /\ \A i \in 1 .. n : t[i] = q[i + 1]
  BY <1>1
<1> HIDE DEF t
<1>3. \A i \in 0 .. n : RoundsAmong(t, i) \in Nat /\ RoundsAmong(q, i + 1) = RoundsAmong(t, i) + c
  <2>1. ASSUME NEW i \in 0 .. n
        PROVE  RoundsAmong(t, i) \in Nat /\ RoundsAmong(q, i + 1) = RoundsAmong(t, i) + c
    <3>1. i \in Nat /\ \A j \in 1 .. i : t[j] = q[j + 1]
      BY <1>2
    <3>2. RoundsAmong(t, i) \in Nat
      BY <3>1, AmongIsNatural
    <3>3. RoundsAmong(q, i + 1) = IF OfRounds(q[1]) THEN RoundsAmong(t, i) + 1
                                                    ELSE RoundsAmong(t, i)
      BY <3>1, AmongShifts
    <3>4. QED
      BY <3>2, <3>3
  <2>2. QED
    BY <2>1
<1>4. K \in Nat /\ RoundsAmong(q, n + 1) = K + c /\ RoundsAmong(q, 1) = c
  <2>1. RoundsAmong(t, 0) = 0
    BY AmongCounts
  <2>2. QED
    BY <1>1, <1>3, <2>1
<1> HIDE DEF K
<1>5. \A k \in 1 .. K : Kth(t, k) = Kth(q, k + c)
  <2> SUFFICES ASSUME NEW k \in 1 .. K
               PROVE  Kth(t, k) = Kth(q, k + c)
    OBVIOUS
  <2> DEFINE P == {j \in DOMAIN t : OfRounds(t[j]) /\ RoundsAmong(t, j) = k}
             Q == {j \in DOMAIN q : OfRounds(q[j]) /\ RoundsAmong(q, j) = k + c}
  <2>1. \A j \in P : j + 1 \in Q /\ t[j] = q[j + 1]
    BY <1>2, <1>3
  <2>2. \A j \in Q : j \in 2 .. n + 1
    BY <1>2, <1>4
  <2>3. ASSUME NEW j \in Q
        PROVE  j - 1 \in P /\ t[j - 1] = q[j]
    <3>1. PICK i \in 1 .. n : j = i + 1
      <4>1. j \in 2 .. n + 1
        BY <2>2
      <4>2. j - 1 \in 1 .. n /\ j = (j - 1) + 1
        BY <4>1
      <4>3. QED
        BY <4>2
    <3>2. RoundsAmong(t, i) \in Nat /\ RoundsAmong(q, i + 1) = RoundsAmong(t, i) + c
      BY <1>3
    <3>3. i \in P /\ t[i] = q[j]
      BY <1>2, <3>1, <3>2
    <3>4. QED
      BY <3>1, <3>3
  <2>4. QED
    BY <2>1, <2>3 DEF Kth
<1>6. /\ RoundsOnly(t) = [k \in 1 .. K |-> CHOOSE env \in Kth(t, k) : TRUE]
      /\ Len(RoundsOnly(t)) = K
      /\ \E T : RoundsOnly(t) \in Seq(T)
  BY <1>2, RoundsOnlyIs DEF K
<1>7. /\ RoundsOnly(q) = [k \in 1 .. K + c |-> CHOOSE env \in Kth(q, k) : TRUE]
      /\ Len(RoundsOnly(q)) = K + c
      /\ \E T : RoundsOnly(q) \in Seq(T)
  <2>1. K + c = RoundsAmong(q, Len(q))
    BY <1>2, <1>4
  <2>2. QED
    BY <2>1, RoundsOnlyIs
<1>8. CASE ~OfRounds(Head(q))
  <2>1. c = 0
    BY <1>2, <1>8
  <2>2. \A k \in 1 .. K : Kth(t, k) = Kth(q, k)
    BY <1>4, <1>5, <2>1
  <2>3. RoundsOnly(t) = RoundsOnly(q)
    BY <1>4, <1>6, <1>7, <2>1, <2>2
  <2>4. QED
    BY <1>8, <2>3 DEF t
<1>9. CASE OfRounds(Head(q))
  <2>1. c = 1
    BY <1>2, <1>9
  <2>2. PICK R, T : R = RoundsOnly(q) /\ R \in Seq(T) /\ Len(R) = K + 1
    BY <1>7, <2>1
  <2>3. Kth(q, 1) = {q[1]}
    <3>1. {j \in DOMAIN q : OfRounds(q[j]) /\ RoundsAmong(q, j) = 1} = {1}
      <4>1. ASSUME NEW j \in 2 .. n + 1, OfRounds(q[j])
            PROVE  RoundsAmong(q, j) # 1
        <5>1. j - 1 \in Nat /\ (j - 1) + 1 = j /\ 1 <= j - 1
          OBVIOUS
        <5>2. RoundsAmong(q, j) = RoundsAmong(q, j - 1) + 1
          BY <4>1, <5>1, AmongCounts
        <5>3. RoundsAmong(q, j - 1) \in Nat /\ RoundsAmong(q, 1) <= RoundsAmong(q, j - 1)
          BY <5>1, AmongIsNatural, AmongGrows
        <5>4. QED
          BY <1>4, <2>1, <5>2, <5>3
      <4>2. QED
        BY <1>2, <1>4, <1>9, <2>1, <4>1
    <3>2. QED
      BY <3>1 DEF Kth
  <2>4. R[1] = q[1] /\ R # <<>>
    <3>1. (CHOOSE env \in {q[1]} : TRUE) = q[1]
      OBVIOUS
    <3>2. 1 \in 1 .. K + 1
      BY <1>4
    <3>3. R[1] = CHOOSE env \in Kth(q, 1) : TRUE
      BY <1>7, <2>1, <2>2, <3>2
    <3>4. QED
      BY <1>4, <2>2, <2>3, <3>1, <3>3
  <2>5. \A k \in 1 .. K : RoundsOnly(t)[k] = R[k + 1]
    BY <1>4, <1>5, <1>6, <1>7, <2>1, <2>2
  <2>6. /\ \E W : Tail(R) \in Seq(W)
        /\ Len(Tail(R)) = K /\ Head(R) = R[1]
        /\ \A k \in 1 .. K : Tail(R)[k] = R[k + 1]
    BY <1>4, <2>2, <2>4
  <2>7. RoundsOnly(t) = Tail(R)
    <3>1. PICK A, V : A = RoundsOnly(t) /\ A \in Seq(V) /\ Len(A) = K
      BY <1>6
    <3>2. PICK B, W : B = Tail(R) /\ B \in Seq(W) /\ Len(B) = K
      BY <2>6
    <3>3. \A k \in 1 .. K : A[k] = B[k]
      BY <2>5, <2>6, <3>1, <3>2
    <3>4. A = B
      BY <1>4, <3>1, <3>2, <3>3
    <3>5. QED
      BY <3>1, <3>2, <3>4
  <2>8. QED
    BY <1>2, <1>9, <2>2, <2>4, <2>6, <2>7 DEF t
<1>10. QED
  BY <1>8, <1>9

LEMMA RoundsOnlyHas ==
  ASSUME NEW S, NEW q \in Seq(S), NEW e
  PROVE  (\E k \in DOMAIN RoundsOnly(q) : RoundsOnly(q)[k] = e)
           <=> \E j \in DOMAIN q : OfRounds(q[j]) /\ q[j] = e
<1> DEFINE among(j) == RoundsAmong(q, j)
<1>1. PICK n \in Nat : n = Len(q) /\ DOMAIN q = 1 .. n
  OBVIOUS
<1>2. PICK K \in Nat : K = RoundsAmong(q, n)
  BY AmongIsNatural
<1>3. PICK P : P = {i \in 1 .. n : OfRounds(q[i])}
  OBVIOUS
<1>4. IsFiniteSet(P) /\ Cardinality(P) = K
  BY <1>2, <1>3, AmongIsNatural DEF RoundsAmong, RoundPlaces
<1>5. \A j \in P : among(j) \in 1 .. K
  <2> SUFFICES ASSUME NEW j \in P
               PROVE  among(j) \in 1 .. K
    OBVIOUS
  <2>1. j - 1 \in Nat /\ (j - 1) + 1 = j /\ j <= n /\ j \in Nat /\ OfRounds(q[j])
    BY <1>3
  <2>2. among(j) = RoundsAmong(q, j - 1) + 1
    BY <2>1, AmongCounts
  <2>3. RoundsAmong(q, j - 1) \in Nat /\ among(j) <= K
    BY <1>2, <2>1, AmongIsNatural, AmongGrows
  <2>4. QED
    BY <1>2, <2>2, <2>3
\* Two places of the rounds have different counts.
<1>6. \A i, j \in P : i < j => among(i) < among(j)
  <2> SUFFICES ASSUME NEW i \in P, NEW j \in P, i < j
               PROVE  among(i) < among(j)
    OBVIOUS
  <2>1. /\ j - 1 \in Nat /\ (j - 1) + 1 = j /\ OfRounds(q[j])
        /\ i \in Nat /\ i <= j - 1
    BY <1>3
  <2>2. among(j) = RoundsAmong(q, j - 1) + 1
    BY <2>1, AmongCounts
  <2>3. among(i) <= RoundsAmong(q, j - 1) /\ RoundsAmong(q, j - 1) \in Nat /\ among(i) \in Nat
    BY <2>1, AmongIsNatural, AmongGrows
  <2>4. QED
    BY <2>2, <2>3
<1>7. \A i, j \in P : among(i) = among(j) => i = j
  <2> SUFFICES ASSUME NEW i \in P, NEW j \in P, i # j
               PROVE  among(i) # among(j)
    OBVIOUS
  <2>1. i < j \/ j < i
    BY <1>3
  <2>2. among(i) \in 1 .. K /\ among(j) \in 1 .. K
    BY <1>5
  <2>3. among(i) < among(j) \/ among(j) < among(i)
    BY <1>6, <2>1
  <2>4. QED
    BY <2>2, <2>3
\* There are as many places as counts, so that every count has a place.
<1>8. \A k \in 1 .. K : \E j \in P : among(j) = k
  <2> DEFINE f == [j \in P |-> among(j)]
  <2>1. f \in Injection(P, 1 .. K)
    BY <1>5, <1>7 DEF Injection, IsInjective
  <2>2. IsFiniteSet(1 .. K) /\ Cardinality(1 .. K) = K
    <3>1. 1 \in Int /\ K \in Int
      OBVIOUS
    <3>2. IsFiniteSet(1 .. K) /\ Cardinality(1 .. K) = IF 1 > K THEN 0 ELSE K - 1 + 1
      BY <3>1, FS_Interval
    <3>3. QED
      BY <3>2
  <2>3. f \in Surjection(P, 1 .. K)
    BY <1>4, <2>1, <2>2, FS_Injection
  <2>4. QED
    BY <2>3 DEF Surjection
<1>9. \A j \in P : Kth(q, among(j)) = {q[j]}
  <2> SUFFICES ASSUME NEW j \in P
               PROVE  Kth(q, among(j)) = {q[j]}
    OBVIOUS
  <2>1. {i \in DOMAIN q : OfRounds(q[i]) /\ RoundsAmong(q, i) = among(j)} = {j}
    BY <1>1, <1>3, <1>7
  <2>2. QED
    BY <2>1 DEF Kth
<1>10. \A j \in P : RoundsOnly(q)[among(j)] = q[j]
  <2> SUFFICES ASSUME NEW j \in P
               PROVE  RoundsOnly(q)[among(j)] = q[j]
    OBVIOUS
  <2>1. RoundsOnly(q)[among(j)] = CHOOSE env \in Kth(q, among(j)) : TRUE
    BY <1>1, <1>2, <1>5, RoundsOnlyIs
  <2>2. (CHOOSE env \in {q[j]} : TRUE) = q[j]
    OBVIOUS
  <2>3. QED
    BY <1>9, <2>1, <2>2
<1>11. DOMAIN RoundsOnly(q) = 1 .. K
  BY <1>1, <1>2, RoundsOnlyIs
<1>12. QED
  <2> HIDE DEF among
  <2>1. \A k \in DOMAIN RoundsOnly(q) : \E j \in P : RoundsOnly(q)[k] = q[j]
    BY <1>8, <1>10, <1>11
  <2>2. \A j \in P : \E k \in DOMAIN RoundsOnly(q) : RoundsOnly(q)[k] = q[j]
    BY <1>5, <1>10, <1>11
  <2>3. P = {i \in DOMAIN q : OfRounds(q[i])}
    BY <1>1, <1>3
  <2>4. QED
    BY <2>1, <2>2, <2>3

------------------------------------------------------------------------------
(***************************************************************************)
(* The invariant.                                                          *)
(***************************************************************************)
Dealer == KeyGen!Dealer
NoKey == KeyGen!NoKey
FirstKey == KeyGen!FirstKey

\* A share of the only dealing there is of each dealer.
FirstShare ==
  [type : {"DealShare"}, dealer : Dealer, deal : {1}, recipient : Dealer]

\* An envelope of the rounds, or such a share.
Known(env) == OfRounds(env) \/ env \in FirstShare

ChannelsOK == \E M : ChannelsCarry(M) /\ \A env \in M : Known(env)

\* What the main loop has to store or to broadcast is an envelope of the rounds.
LoopsOK ==
  /\ \E L : loop \in [Node -> L]
  /\ \A n \in Node :
       (loop[n] # None /\ loop[n].do \in {"store", "broadcast"})
         => \E R : /\ loop[n] \in [do : {"store", "broadcast"}, result : R]
                   /\ \A x \in R : OfRounds(x)

\* A node holds first dealings only, and its key is made of all of them.
KeysOK ==
  /\ starts = [n \in Node |-> 1]
  /\ dealt \in [Node -> 0 .. CommitteeSize]
  /\ dkgShares \in [Node -> [Dealer -> {0, 1}]]
  /\ dealerPubKeys = dkgShares
  /\ committeePubKey \in [Node -> {NoKey, FirstKey}]
  /\ blsKey = committeePubKey
  /\ dkgReady \in [Node -> BOOLEAN]
  /\ \A n \in Node : dkgReady[n] => committeePubKey[n] = FirstKey

CInv == ChannelsOK /\ LoopsOK /\ KeysOK

LEMMA KeysDiffer ==
  /\ FirstKey # NoKey
  /\ FirstKey \in [Dealer -> {0, 1}] /\ NoKey \in [Dealer -> {0, 1}]
<1>1. 0 \in Dealer
  BY CommitteeAssumption DEF Dealer, KeyGen!Dealer
<1>2. FirstKey = [d \in Dealer |-> 1] /\ NoKey = [d \in Dealer |-> 0]
  BY DEF FirstKey, NoKey, Dealer, KeyGen!FirstKey, KeyGen!NoKey
<1>3. FirstKey[0] = 1 /\ NoKey[0] = 0
  BY <1>1, <1>2
<1>4. FirstKey # NoKey
  BY <1>3
<1>5. QED
  BY <1>2, <1>4

LEMMA InitEstablishesCInv == Init => CInv
<1> SUFFICES ASSUME Init PROVE CInv
  OBVIOUS
<1>1. /\ up = [n \in Node |-> TRUE] /\ net = {} /\ inCh = [n \in Node |-> <<>>]
      /\ loop = [n \in Node |-> None]
  BY DEF Init, KeyGen!Init, Rounds!Init, Rounds!Node, Node
<1>2. ChannelsOK
  <2>1. ChannelsCarry({})
    BY <1>1, TransportAssumption DEF ChannelsCarry
  <2>2. QED
    BY <2>1 DEF ChannelsOK
<1>3. LoopsOK
  <2>1. loop \in [Node -> {None}]
    BY <1>1
  <2>2. QED
    BY <1>1, <2>1 DEF LoopsOK
<1>4. KeysOK
  <2>1. /\ starts = [n \in Node |-> IF up[n] THEN 1 ELSE 0]
        /\ dealt = [n \in Node |-> 0]
        /\ dkgShares = [n \in Node |-> NoKey]
        /\ dealerPubKeys = [n \in Node |-> NoKey]
        /\ committeePubKey = [n \in Node |-> NoKey]
        /\ blsKey = [n \in Node |-> NoKey]
        /\ dkgReady = [n \in Node |-> FALSE]
    BY DEF Init, KeyGen!Init, KeyGen!Node, Node, NoKey
  <2>2. starts = [n \in Node |-> 1]
    BY <1>1, <2>1
  <2>3. dealt \in [Node -> 0 .. CommitteeSize]
    BY <2>1, CommitteeAssumption
  <2>4. QED
    BY <2>1, <2>2, <2>3, KeysDiffer DEF KeysOK
<1>5. QED
  BY <1>2, <1>3, <1>4 DEF CInv

\* What the operators of Transport do to the channels.
LEMMA PublishKnown ==
  ASSUME ChannelsOK, NEW n \in Node, NEW to \in SUBSET Node, NEW env, Known(env),
         Publish(n, to, env), up' = up
  PROVE  ChannelsOK'
<1>1. PICK M : ChannelsCarry(M) /\ \A e \in M : Known(e)
  BY DEF ChannelsOK
<1>2. PICK L : L = M \cup {env}
  OBVIOUS
<1>3. ChannelsCarry(L) /\ env \in L
  BY <1>1, <1>2, ChannelsMonotone
<1>4. ChannelsCarry(L)'
  BY <1>3, PublishType
<1>5. QED
  BY <1>1, <1>2, <1>4 DEF ChannelsOK

LEMMA ReadKnown ==
  ASSUME ChannelsOK, NEW f \in net, ReadLoop(f)
  PROVE  ChannelsOK'
<1>1. PICK M : ChannelsCarry(M) /\ \A e \in M : Known(e)
  BY DEF ChannelsOK
<1>2. ChannelsCarry(M)'
  BY <1>1, ReadLoopType
<1>3. QED
  BY <1>1, <1>2 DEF ChannelsOK

LEMMA ConsumeKnown ==
  ASSUME ChannelsOK, NEW n \in Node, inCh[n] # <<>>, inCh' = Consume(n),
         UNCHANGED <<up, net>>
  PROVE  ChannelsOK' /\ Known(Head(inCh[n]))
<1>1. PICK M : ChannelsCarry(M) /\ \A e \in M : Known(e)
  BY DEF ChannelsOK
<1>2. ChannelsCarry(M)' /\ Head(inCh[n]) \in M
  BY <1>1, ConsumeType
<1>3. QED
  BY <1>1, <1>2 DEF ChannelsOK

LEMMA StopKnown ==
  ASSUME ChannelsOK, NEW n \in Node, StopProcess(n)
  PROVE  ChannelsOK'
<1>1. PICK M : ChannelsCarry(M) /\ \A e \in M : Known(e)
  BY DEF ChannelsOK
<1>2. ChannelsCarry(M)'
  BY <1>1, StopProcessType
<1>3. QED
  BY <1>1, <1>2 DEF ChannelsOK

\* Both parts of the service use the transport it has.
LEMMA SameTransport ==
  /\ KeyGen!Node = Node /\ Rounds!Node = Node
  /\ \A n, to, env : /\ KeyGen!Publish(n, to, env) <=> Publish(n, to, env)
                     /\ Rounds!Publish(n, to, env) <=> Publish(n, to, env)
  /\ \A n : /\ KeyGen!Consume(n) = Consume(n)
            /\ Rounds!Consume(n) = Consume(n)
            /\ KeyGen!Received(n) <=> Received(n)
            /\ Rounds!Received(n) <=> Received(n)
            /\ KeyGen!StopProcess(n) <=> StopProcess(n)
            /\ Rounds!StopProcess(n) <=> StopProcess(n)
  BY DEF KeyGen!Node, Rounds!Node, Node, KeyGen!Publish, Rounds!Publish, Publish,
     KeyGen!PushInbound, Rounds!PushInbound, PushInbound, KeyGen!Frame, Rounds!Frame,
     Frame, KeyGen!Consume, Rounds!Consume, Consume, KeyGen!Received, Rounds!Received,
     Received, KeyGen!StopProcess, Rounds!StopProcess, StopProcess

\* The actions of the key generation.
LEMMA DealKeeps ==
  ASSUME CInv, NEW n \in Node, Deal(n)
  PROVE  CInv'
<1>1. /\ n < CommitteeSize /\ dealt[n] < CommitteeSize
      /\ dealt' = [dealt EXCEPT ![n] = @ + 1]
      /\ IF dealt[n] < NodeCount
           THEN Publish(n, {dealt[n]}, KeyGen!DealShare(n, starts[n], dealt[n]))
           ELSE UNCHANGED <<net, inCh>>
      /\ UNCHANGED <<up, starts, dkgShares, dealerPubKeys, blsKey, committeePubKey, dkgReady,
                     loop>>
  BY SameTransport DEF Deal, KeyGen!BroadcastDealerShare, roundVars
<1>2. starts[n] = 1 /\ dealt[n] \in 0 .. CommitteeSize
  BY DEF CInv, KeysOK
<1>3. ChannelsOK'
  <2>1. CASE dealt[n] < NodeCount
    <3>1. PICK env : env = KeyGen!DealShare(n, starts[n], dealt[n])
      OBVIOUS
    <3>2. Known(env)
      BY <1>1, <1>2, <3>1, CommitteeAssumption, TransportAssumption
         DEF Known, FirstShare, Dealer, KeyGen!Dealer, KeyGen!DealShare, Node
    <3>3. {dealt[n]} \in SUBSET Node
      BY <1>2, <2>1, CommitteeAssumption, TransportAssumption DEF Node
    <3>4. Publish(n, {dealt[n]}, env) /\ up' = up
      BY <1>1, <2>1, <3>1
    <3>5. QED
      BY <3>2, <3>3, <3>4, PublishKnown DEF CInv
  <2>2. CASE ~(dealt[n] < NodeCount)
    BY <1>1, <2>2 DEF CInv, ChannelsOK, ChannelsCarry
  <2>3. QED
    BY <2>1, <2>2
<1>4. LoopsOK'
  BY <1>1 DEF CInv, LoopsOK
<1>5. KeysOK'
  <2>1. dealt' \in [Node -> 0 .. CommitteeSize]
    BY <1>1, <1>2, CommitteeAssumption DEF CInv, KeysOK
  <2>2. QED
    BY <1>1, <2>1 DEF CInv, KeysOK
<1>6. QED
  BY <1>3, <1>4, <1>5 DEF CInv

\* A first dealing is kept, and a node that holds all of them holds the key.
LEMMA KeepFirstKeeps ==
  ASSUME NEW held \in [Dealer -> {0, 1}], NEW d \in Dealer
  PROVE  /\ KeyGen!KeepFirst(held, d, 1) \in [Dealer -> {0, 1}]
         /\ KeyGen!Complete(held) <=> held = FirstKey
  BY DEF KeyGen!KeepFirst, KeyGen!Complete, FirstKey, KeyGen!FirstKey, Dealer

\* What taking a share comes to.
LEMMA TakeShareIs ==
  ASSUME CInv, NEW n \in Node, TakeShare(n)
  PROVE  /\ ChannelsOK'
         /\ Received(n) /\ inCh' = Consume(n) /\ ~OfRounds(Head(inCh[n]))
         /\ UNCHANGED <<up, net, starts, dealt, dkgReady, roundVars, readyThen>>
         /\ dkgShares' \in [Node -> [Dealer -> {0, 1}]]
         /\ dealerPubKeys' = dkgShares'
         /\ blsKey' = committeePubKey'
         /\ \/ committeePubKey' = committeePubKey
            \/ /\ n \in Dealer /\ committeePubKey[n] = NoKey
               /\ committeePubKey' = [committeePubKey EXCEPT ![n] = FirstKey]
<1>1. /\ Received(n) /\ ~KeyGen!Finalizing(n)
      /\ inCh' = Consume(n)
      /\ UNCHANGED <<up, net, starts, dealt, dkgReady, roundVars, readyThen>>
  BY SameTransport DEF TakeShare, KeyGen!OnDealShare
<1>2. PICK m : m = Head(inCh[n])
  OBVIOUS
<1>3. PICK shares : shares = KeyGen!KeepFirst(dkgShares[n], m.dealer, m.deal)
  OBVIOUS
<1>4. ChannelsOK' /\ Known(m)
  BY <1>1, <1>2, ConsumeKnown DEF CInv, Received
<1>5. m.type = "DealShare"
  BY <1>2 DEF TakeShare, KeyGen!OnDealShare
<1>6. m \in FirstShare /\ ~OfRounds(m)
  BY <1>4, <1>5 DEF Known, OfRounds
<1>7. /\ dkgShares \in [Node -> [Dealer -> {0, 1}]] /\ dkgShares[n] \in [Dealer -> {0, 1}]
      /\ dealerPubKeys = dkgShares /\ blsKey = committeePubKey
      /\ committeePubKey \in [Node -> {NoKey, FirstKey}]
  BY DEF CInv, KeysOK
<1>8. CASE m.recipient = n /\ m.dealer \in KeyGen!Dealer
  <2>1. KeyGen!AddDealerKey(dealerPubKeys[n], m.dealer, m.deal) = shares
    BY <1>3, <1>7 DEF KeyGen!AddDealerKey
  <2>2. shares \in [Dealer -> {0, 1}] /\ (KeyGen!Complete(shares) <=> shares = FirstKey)
    <3>1. m.dealer \in Dealer /\ m.deal = 1
      BY <1>6 DEF FirstShare
    <3>2. shares \in [Dealer -> {0, 1}]
      BY <1>3, <1>7, <3>1, KeepFirstKeeps
    <3>3. QED
      BY <3>1, <3>2, KeepFirstKeeps
  <2>3. PICK pubs : pubs = KeyGen!AddDealerKey(dealerPubKeys[n], m.dealer, m.deal)
    OBVIOUS
  <2>4. /\ dkgShares' = [dkgShares EXCEPT ![n] = shares]
        /\ dealerPubKeys' = [dealerPubKeys EXCEPT ![n] = pubs]
        /\ blsKey' = IF KeyGen!Complete(shares) /\ KeyGen!Complete(pubs) /\ ~KeyGen!HasKey(n)
                       THEN [blsKey EXCEPT ![n] = shares] ELSE blsKey
        /\ committeePubKey' =
             IF KeyGen!Complete(shares) /\ KeyGen!Complete(pubs) /\ ~KeyGen!HasKey(n)
               THEN [committeePubKey EXCEPT ![n] = pubs] ELSE committeePubKey
    BY <1>2, <1>3, <1>8, <2>3 DEF TakeShare, KeyGen!OnDealShare
  <2>5. pubs = shares
    BY <2>1, <2>3
  <2>6. KeyGen!HasKey(n) <=> committeePubKey[n] # NoKey
    BY DEF KeyGen!HasKey, NoKey
  <2>7. dkgShares' \in [Node -> [Dealer -> {0, 1}]] /\ dealerPubKeys' = dkgShares'
    BY <1>7, <2>2, <2>4, <2>5
  <2>8. CASE shares = FirstKey /\ committeePubKey[n] = NoKey
    <3>1. /\ committeePubKey' = [committeePubKey EXCEPT ![n] = FirstKey]
          /\ blsKey' = [blsKey EXCEPT ![n] = FirstKey]
      BY <2>2, <2>4, <2>5, <2>6, <2>8
    <3>2. n \in Dealer
      BY <1>6, <1>8 DEF FirstShare
    <3>3. QED
      BY <1>1, <1>2, <1>4, <1>6, <1>7, <2>7, <2>8, <3>1, <3>2
  <2>9. CASE ~(shares = FirstKey /\ committeePubKey[n] = NoKey)
    <3>1. committeePubKey' = committeePubKey /\ blsKey' = blsKey
      BY <2>2, <2>4, <2>5, <2>6, <2>9
    <3>2. QED
      BY <1>1, <1>2, <1>4, <1>6, <1>7, <2>7, <3>1
  <2>10. QED
    BY <2>8, <2>9
<1>9. CASE ~(m.recipient = n /\ m.dealer \in KeyGen!Dealer)
  <2>1. UNCHANGED <<dkgShares, dealerPubKeys, blsKey, committeePubKey>>
    BY <1>2, <1>9 DEF TakeShare, KeyGen!OnDealShare
  <2>2. QED
    BY <1>1, <1>2, <1>4, <1>6, <1>7, <2>1
<1>10. QED
  BY <1>8, <1>9

LEMMA TakeShareKeeps ==
  ASSUME CInv, NEW n \in Node, TakeShare(n)
  PROVE  CInv'
<1>1. LoopsOK'
  BY TakeShareIs DEF CInv, LoopsOK, roundVars
<1>2. KeysOK'
  <2>1. /\ committeePubKey' \in [Node -> {NoKey, FirstKey}]
        /\ \A p \in Node : committeePubKey[p] = FirstKey => committeePubKey'[p] = FirstKey
    BY TakeShareIs, KeysDiffer DEF CInv, KeysOK
  <2>2. UNCHANGED <<starts, dealt, dkgReady>>
    BY TakeShareIs
  <2>3. QED
    BY <2>1, <2>2, TakeShareIs DEF CInv, KeysOK
<1>3. QED
  BY <1>1, <1>2, TakeShareIs DEF CInv

LEMMA FinishKeyGenKeeps ==
  ASSUME CInv, NEW n \in Node, FinishKeyGen(n)
  PROVE  CInv'
<1>1. /\ UNCHANGED <<transportVars, loop, starts, dealt, dkgShares, dealerPubKeys, blsKey,
                     committeePubKey>>
      /\ committeePubKey[n] # NoKey
      /\ dkgReady' = [dkgReady EXCEPT ![n] = TRUE]
  BY DEF FinishKeyGen, KeyGen!MarkReady, KeyGen!Finalizing, KeyGen!HasKey, NoKey, roundVars,
     KeyGen!transportVars, transportVars
<1>2. ChannelsOK'
  BY <1>1 DEF CInv, ChannelsOK, ChannelsCarry, transportVars
<1>3. LoopsOK'
  BY <1>1 DEF CInv, LoopsOK
<1>4. KeysOK'
  BY <1>1 DEF CInv, KeysOK
<1>5. QED
  BY <1>2, <1>3, <1>4 DEF CInv

LEMMA CrashKeeps ==
  ASSUME CInv, NEW n \in Node, Crash(n)
  PROVE  CInv'
<1>1. /\ StopProcess(n)
      /\ dealt' = [dealt EXCEPT ![n] = 0]
      /\ dkgShares' = [dkgShares EXCEPT ![n] = NoKey]
      /\ dealerPubKeys' = [dealerPubKeys EXCEPT ![n] = NoKey]
      /\ blsKey' = [blsKey EXCEPT ![n] = NoKey]
      /\ committeePubKey' = [committeePubKey EXCEPT ![n] = NoKey]
      /\ dkgReady' = [dkgReady EXCEPT ![n] = FALSE]
      /\ starts' = starts
      /\ loop' = [loop EXCEPT ![n] = None]
  BY SameTransport DEF Crash, KeyGen!Crash, Rounds!Crash, NoKey
<1>2. ChannelsOK'
  BY <1>1, StopKnown DEF CInv
<1>3. LoopsOK'
  <2>1. PICK L : loop \in [Node -> L]
    BY DEF CInv, LoopsOK
  <2>2. /\ loop' \in [Node -> L \cup {None}]
        /\ \A p \in Node : loop'[p] = None \/ loop'[p] = loop[p]
    BY <1>1, <2>1
  <2>3. QED
    BY <2>2 DEF CInv, LoopsOK
<1>4. KeysOK'
  <2>1. /\ starts' = [p \in Node |-> 1]
        /\ dkgShares' \in [Node -> [Dealer -> {0, 1}]]
        /\ dealerPubKeys' = dkgShares'
        /\ committeePubKey' \in [Node -> {NoKey, FirstKey}]
        /\ blsKey' = committeePubKey'
        /\ dkgReady' \in [Node -> BOOLEAN]
    BY <1>1, KeysDiffer DEF CInv, KeysOK
  <2>2. \A p \in Node : dkgReady'[p] => committeePubKey'[p] = FirstKey
    BY <1>1 DEF CInv, KeysOK
  <2>3. dealt' \in [Node -> 0 .. CommitteeSize]
    BY <1>1, CommitteeAssumption DEF CInv, KeysOK
  <2>4. QED
    BY <2>1, <2>2, <2>3 DEF KeysOK
<1>5. QED
  BY <1>2, <1>3, <1>4 DEF CInv

\* The actions of the signing rounds.  Those that take an envelope of a type ...
LEMMA HandlesRound ==
  ASSUME NEW n \in Node, NEW type, Rounds!Handles(n, type), type # "DealShare"
  PROVE  Received(n) /\ inCh[n] # <<>> /\ OfRounds(Head(inCh[n])) /\ loop[n] = None
  BY SameTransport DEF Rounds!Handles, OfRounds, Received

\* ... and those that publish.
LEMMA EnvelopesOfRounds ==
  /\ \A s, m, r : OfRounds(Rounds!SignRequest(s, m, r))
  /\ \A s, m, r, i, k : OfRounds(Rounds!SignResponse(s, m, r, i, k))
  /\ \A s, m, r, i, k : OfRounds(Rounds!AggResult(s, m, r, i, k))
  BY DEF OfRounds, Rounds!SignRequest, Rounds!SignResponse, Rounds!AggResult

LEMMA ResponseChannels ==
  ASSUME NEW n \in Node, NEW job, Rounds!PublishSignResponse(n, job)
  PROVE  \/ UNCHANGED <<net, inCh>>
         \/ \E to \in SUBSET Node : \E env : OfRounds(env) /\ Publish(n, to, env)
<1>1. {Coordinator} \in SUBSET Node
  BY CommitteeAssumption
<1>2. PICK env : env = Rounds!SignResponse(job.sid, job.message, job.request, n, key[n])
  OBVIOUS
<1>3. OfRounds(env)
  BY <1>2, EnvelopesOfRounds
<1>4. Publish(n, {Coordinator}, env) \/ UNCHANGED <<net, inCh>>
  BY <1>2, SameTransport DEF Rounds!PublishSignResponse
<1>5. QED
  BY <1>1, <1>3, <1>4

LEMMA RoundChannels ==
  ASSUME CInv, NEW n \in Node, Rounds!MainLoop(n)
  PROVE  /\ up' = up
         /\ \/ UNCHANGED <<net, inCh>>
            \/ /\ inCh[n] # <<>> /\ OfRounds(Head(inCh[n]))
               /\ inCh' = Consume(n) /\ net' = net
            \/ \E to \in SUBSET Node : \E env : OfRounds(env) /\ Publish(n, to, env)
<1>1. CASE \/ Rounds!QueueRequest(n) \/ Rounds!Aggregate(n) \/ Rounds!StoreResult(n)
  BY <1>1 DEF Rounds!QueueRequest, Rounds!Aggregate, Rounds!StoreResult, Rounds!transportVars
<1>2. CASE Rounds!OnSignRequest(n)
  BY <1>2, HandlesRound, SameTransport DEF Rounds!OnSignRequest
<1>3. CASE Rounds!OnSignResponse(n)
  BY <1>3, HandlesRound, SameTransport DEF Rounds!OnSignResponse
<1>4. CASE Rounds!OnAggResult(n)
  BY <1>4, HandlesRound, SameTransport DEF Rounds!OnAggResult
<1>5. CASE Rounds!RespondToRequest(n)
  <2>1. up' = up /\ Rounds!PublishSignResponse(n, loop[n].job)
    BY <1>5 DEF Rounds!RespondToRequest
  <2>2. QED
    BY <2>1, ResponseChannels
<1>6. CASE Rounds!BroadcastResult(n)
  <2>1. up' = up /\ Publish(n, Node, loop[n].result)
    BY <1>6, SameTransport DEF Rounds!BroadcastResult
  <2>2. OfRounds(loop[n].result)
    BY <1>6 DEF Rounds!BroadcastResult, CInv, LoopsOK
  <2>3. QED
    BY <2>1, <2>2
<1>7. QED
  BY <1>1, <1>2, <1>3, <1>4, <1>5, <1>6 DEF Rounds!MainLoop

\* What becomes of a main loop in its rounds.
LEMMA RoundLoops ==
  ASSUME CInv, NEW n \in Node, Rounds!MainLoop(n)
  PROVE  LoopsOK'
<1>1. PICK L : loop \in [Node -> L]
  BY DEF CInv, LoopsOK
<1>2. ASSUME NEW x, loop' = [loop EXCEPT ![n] = x],
             \/ x = None
             \/ x.do \in {"respond", "queue", "aggregate"}
             \/ \E R : /\ x \in [do : {"store", "broadcast"}, result : R]
                       /\ \A y \in R : OfRounds(y)
      PROVE  LoopsOK'
  <2>1. /\ loop' \in [Node -> L \cup {x}]
        /\ loop'[n] = x
        /\ \A p \in Node \ {n} : loop'[p] = loop[p]
    BY <1>1, <1>2
  <2>2. QED
    BY <1>2, <2>1 DEF CInv, LoopsOK
<1>3. ASSUME loop' = loop
      PROVE  LoopsOK'
  BY <1>3 DEF CInv, LoopsOK
<1>4. CASE \/ Rounds!QueueRequest(n) \/ Rounds!RespondToRequest(n)
           \/ Rounds!BroadcastResult(n)
  BY <1>2, <1>4 DEF Rounds!QueueRequest, Rounds!RespondToRequest, Rounds!BroadcastResult
<1>5. CASE Rounds!OnAggResult(n)
  BY <1>3, <1>5 DEF Rounds!OnAggResult
<1>6. CASE Rounds!OnSignRequest(n)
  <2>1. CASE loop' = loop
    BY <1>3, <2>1
  <2>2. CASE loop' # loop
    <3>1. \E j, d : loop' = [loop EXCEPT ![n] = [do |-> d, job |-> j]] /\ d \in {"respond", "queue"}
      BY <1>6, <2>2 DEF Rounds!OnSignRequest
    <3>2. QED
      BY <1>2, <3>1
  <2>3. QED
    BY <2>1, <2>2
<1>7. CASE Rounds!OnSignResponse(n)
  <2>1. CASE loop' = loop
    BY <1>3, <2>1
  <2>2. CASE loop' # loop
    <3>1. \E s, a : loop' = [loop EXCEPT ![n] = [do |-> "aggregate", sid |-> s, session |-> a]]
      BY <1>7, <2>2 DEF Rounds!OnSignResponse
    <3>2. QED
      BY <1>2, <3>1
  <2>3. QED
    BY <2>1, <2>2
<1>8. CASE Rounds!Aggregate(n)
  <2>1. CASE loop' = [loop EXCEPT ![n] = None]
    BY <1>2, <2>1
  <2>2. CASE loop' # [loop EXCEPT ![n] = None]
    <3>1. \E s, m, r, i, k :
            loop' = [loop EXCEPT ![n] = [do |-> "store", result |-> Rounds!AggResult(s, m, r, i, k)]]
      BY <1>8, <2>2 DEF Rounds!Aggregate
    <3>2. PICK y : /\ loop' = [loop EXCEPT ![n] = [do |-> "store", result |-> y]]
                   /\ OfRounds(y)
      BY <3>1, EnvelopesOfRounds
    <3>3. PICK x : x = [do |-> "store", result |-> y]
      OBVIOUS
    <3>4. x \in [do : {"store", "broadcast"}, result : {y}] /\ \A z \in {y} : OfRounds(z)
      BY <3>2, <3>3
    <3>5. loop' = [loop EXCEPT ![n] = x]
      BY <3>2, <3>3
    <3>6. QED
      BY <1>2, <3>4, <3>5
  <2>3. QED
    BY <2>1, <2>2
<1>9. CASE Rounds!StoreResult(n)
  <2>1. PICK R : loop[n] \in [do : {"store", "broadcast"}, result : R] /\ \A y \in R : OfRounds(y)
    BY <1>9 DEF Rounds!StoreResult, CInv, LoopsOK
  <2>2. PICK x : x = [loop[n] EXCEPT !.do = "broadcast"]
    OBVIOUS
  <2>3. loop' = [loop EXCEPT ![n] = x]
    BY <1>9, <2>2 DEF Rounds!StoreResult
  <2>4. x \in [do : {"store", "broadcast"}, result : R]
    BY <2>1, <2>2
  <2>5. QED
    BY <1>2, <2>1, <2>3, <2>4
<1>10. QED
  BY <1>4, <1>5, <1>6, <1>7, <1>8, <1>9 DEF Rounds!MainLoop

LEMMA HandleRoundKeeps ==
  ASSUME CInv, NEW n \in Node, HandleRound(n)
  PROVE  CInv'
<1>1. Rounds!MainLoop(n) /\ UNCHANGED keyGenVars
  BY DEF HandleRound
<1>2. ChannelsOK'
  <2>1. up' = up
    BY <1>1, RoundChannels
  <2>2. CASE UNCHANGED <<net, inCh>>
    BY <2>1, <2>2 DEF CInv, ChannelsOK, ChannelsCarry
  <2>3. CASE inCh[n] # <<>> /\ inCh' = Consume(n) /\ net' = net
    BY <2>1, <2>3, ConsumeKnown DEF CInv
  <2>4. CASE \E to \in SUBSET Node : \E env : OfRounds(env) /\ Publish(n, to, env)
    BY <2>1, <2>4, PublishKnown DEF CInv, Known
  <2>5. QED
    BY <1>1, <2>2, <2>3, <2>4, RoundChannels
<1>3. LoopsOK'
  BY <1>1, RoundLoops
<1>4. KeysOK'
  BY <1>1 DEF CInv, KeysOK, keyGenVars
<1>5. QED
  BY <1>2, <1>3, <1>4 DEF CInv

\* Steps that leave the main loops and the key generation alone.
LEMMA OtherKeeps ==
  ASSUME CInv, Transfer \/ (\E s \in Session, m \in Submitted : Submit(s, m))
                      \/ (\E r \in submitting : PublishRequest(r))
                      \/ UNCHANGED vars
  PROVE  CInv'
<1>1. UNCHANGED keyGenVars /\ loop' = loop
  BY DEF Transfer, Submit, PublishRequest, vars, roundVars, Rounds!SubmitSignRequest,
     Rounds!PublishSignRequest
<1>2. ChannelsOK'
  <2>1. CASE Transfer
    BY <2>1, ReadKnown DEF CInv, Transfer
  <2>2. CASE \E s \in Session, m \in Submitted : Submit(s, m)
    BY <2>2 DEF CInv, ChannelsOK, ChannelsCarry, Submit, Rounds!SubmitSignRequest,
       Rounds!transportVars
  <2>3. CASE UNCHANGED vars
    BY <2>3 DEF CInv, ChannelsOK, ChannelsCarry, vars, transportVars
  <2>4. ASSUME NEW r \in submitting, PublishRequest(r)
        PROVE  ChannelsOK'
    <3>1. PICK env : env = Rounds!SignRequest(requests[r].sid, requests[r].message, r)
      OBVIOUS
    <3>2. up' = up /\ Publish(Coordinator, Node, env)
      BY <2>4, <3>1, SameTransport DEF PublishRequest, Rounds!PublishSignRequest
    <3>3. Known(env)
      BY <3>1, EnvelopesOfRounds DEF Known
    <3>4. QED
      BY <3>2, <3>3, PublishKnown, CommitteeAssumption DEF CInv
  <2>5. QED
    BY <2>1, <2>2, <2>3, <2>4
<1>3. LoopsOK'
  BY <1>1 DEF CInv, LoopsOK
<1>4. KeysOK'
  BY <1>1 DEF CInv, KeysOK, keyGenVars
<1>5. QED
  BY <1>2, <1>3, <1>4 DEF CInv

LEMMA NextKeepsCInv == CInv /\ [Next]_vars => CInv'
  BY DealKeeps, TakeShareKeeps, FinishKeyGenKeeps, CrashKeeps, HandleRoundKeeps, OtherKeeps
     DEF Next

\* In every state of the service the channels carry envelopes of the rounds and
\* shares of first dealings only, and every key is the sum of all first dealings.
THEOREM CInvIsInvariant == Spec => []CInv
  BY InitEstablishesCInv, NextKeepsCInv, PTL DEF Spec

------------------------------------------------------------------------------
(***************************************************************************)
(* The key generation in the middle of the rounds.                         *)
(***************************************************************************)
LEMMA InitIsAbstract == Init => KeyGen!Abstract!Init
  BY DEF Init, KeyGen!Init, KeyGen!Abstract!Init

LEMMA NextIsAbstract ==
  ASSUME CInv, [Next]_vars
  PROVE  [KeyGen!Abstract!Next]_<<committeePubKey, dkgReady>>
<1>1. CASE UNCHANGED <<committeePubKey, dkgReady>>
  BY <1>1
<1>2. CASE \E n \in Node : TakeShare(n)
  BY <1>2, TakeShareIs, SameTransport
     DEF KeyGen!Abstract!Next, KeyGen!Abstract!Learn, NoKey, FirstKey
<1>3. CASE \E n \in Node : FinishKeyGen(n)
  <2>1. PICK n \in Node : FinishKeyGen(n)
    BY <1>3
  <2>2. committeePubKey[n] = FirstKey
    BY <2>1 DEF FinishKeyGen, KeyGen!MarkReady, KeyGen!Finalizing, KeyGen!HasKey, CInv,
       KeysOK, NoKey
  <2>3. KeyGen!Abstract!Announce(n)
    BY <2>1, <2>2 DEF FinishKeyGen, KeyGen!MarkReady, KeyGen!Abstract!Announce, FirstKey
  <2>4. QED
    BY <2>3, SameTransport DEF KeyGen!Abstract!Next
<1>4. CASE \E n \in Node : Crash(n)
  BY <1>4, SameTransport DEF Crash, KeyGen!Crash, KeyGen!Abstract!Next, KeyGen!Abstract!Forget
<1>5. CASE \/ Transfer \/ UNCHANGED vars
           \/ \E s \in Session, m \in Submitted : Submit(s, m)
           \/ \E r \in submitting : PublishRequest(r)
           \/ \E n \in Node : HandleRound(n) \/ Deal(n)
  BY <1>1, <1>5 DEF Transfer, vars, Submit, PublishRequest, HandleRound, Deal,
     KeyGen!BroadcastDealerShare, keyGenVars
<1>6. QED
  BY <1>2, <1>3, <1>4, <1>5 DEF Next

\* The committee learns one key and keeps it, although shares and requests go
\* through the same channels, in any order and with any of them dropped by a channel
\* that is full: the service implements CommitteeKey.
THEOREM LearnsOneKey == Spec => ImplementsCommitteeKey
<1>1. Spec => KeyGen!Abstract!Spec
  BY InitIsAbstract, CInvIsInvariant, NextIsAbstract, PTL DEF Spec, KeyGen!Abstract!Spec
<1>2. QED
  BY <1>1 DEF ImplementsCommitteeKey, KeyGen!ImplementsCommitteeKey

------------------------------------------------------------------------------
(***************************************************************************)
(* The rounds in the middle of the key generation: what becomes of the     *)
(* channels when the shares are taken out of them.                         *)
(***************************************************************************)
\* Node n has room in its inbound channel.
HasRoom(n) == Len(inCh[n]) < QueueCap

EveryoneHasRoom == \A n \in Node : HasRoom(n)

LEMMA RoundsOnlyIsShorter ==
  ASSUME NEW S, NEW q \in Seq(S)
  PROVE  Len(RoundsOnly(q)) <= Len(q) /\ Len(RoundsOnly(q)) \in Nat
<1>1. PICK n \in Nat : n = Len(q)
  OBVIOUS
<1>2. IsFiniteSet(1 .. n) /\ Cardinality(1 .. n) = n
  <2>1. 1 \in Int /\ n \in Int
    BY <1>1
  <2>2. IsFiniteSet(1 .. n) /\ Cardinality(1 .. n) = IF 1 > n THEN 0 ELSE n - 1 + 1
    BY <2>1, FS_Interval
  <2>3. QED
    BY <1>1, <2>2
<1>3. RoundPlaces(q, n) \in SUBSET (1 .. n)
  BY DEF RoundPlaces
<1>4. Cardinality(RoundPlaces(q, n)) <= n
  BY <1>2, <1>3, FS_Subset
<1>5. RoundsAmong(q, n) = Cardinality(RoundPlaces(q, n))
  BY DEF RoundsAmong, RoundPlaces
<1>6. QED
  BY <1>1, <1>4, <1>5, RoundsOnlyIs

\* The channels are queues of something.
LEMMA ChannelsAre ==
  ASSUME ChannelsOK
  PROVE  \E M : /\ net \subseteq [dst : Node, env : M] /\ inCh \in [Node -> Seq(M)]
               /\ \A n \in Node : inCh[n] \in Seq(M)
  BY DEF ChannelsOK, ChannelsCarry

\* An envelope pushed to node n.
LEMMA PushMaps ==
  ASSUME ChannelsOK, NEW n \in Node, NEW env
  PROVE  /\ inCh' = inCh => roundCh' = roundCh
         /\ inCh' = [inCh EXCEPT ![n] = PushInbound(@, env)] =>
              IF OfRounds(env)
                THEN HasRoom(n) => roundCh' = [roundCh EXCEPT ![n] = PushInbound(@, env)]
                ELSE roundCh' = roundCh
<1>1. PICK M : inCh \in [Node -> Seq(M)] /\ \A p \in Node : inCh[p] \in Seq(M)
  BY ChannelsAre
<1>2. PICK q : q = inCh[n]
  OBVIOUS
<1>3. q \in Seq(M) /\ q \in Seq(M \cup {env})
  BY <1>1, <1>2
<1>4. inCh' = inCh => roundCh' = roundCh
  BY DEF roundCh
<1>5. ASSUME inCh' = [inCh EXCEPT ![n] = PushInbound(@, env)]
      PROVE  IF OfRounds(env)
               THEN HasRoom(n) => roundCh' = [roundCh EXCEPT ![n] = PushInbound(@, env)]
               ELSE roundCh' = roundCh
  <2>1. roundCh' = [roundCh EXCEPT ![n] = RoundsOnly(PushInbound(q, env))]
    <3>1. PICK p : p = PushInbound(q, env)
      OBVIOUS
    <3>2. inCh' = [inCh EXCEPT ![n] = p]
      BY <1>2, <1>5, <3>1
    <3>3. roundCh' = [roundCh EXCEPT ![n] = RoundsOnly(p)]
      BY <1>1, <3>2 DEF roundCh
    <3>4. QED
      BY <3>1, <3>3
  <2>2. roundCh[n] = RoundsOnly(q)
    BY <1>2 DEF roundCh
  <2>3. CASE OfRounds(env) /\ HasRoom(n)
    <3>1. PushInbound(q, env) = Append(q, env)
      BY <1>2, <2>3 DEF PushInbound, HasRoom
    <3>2. RoundsOnly(Append(q, env)) = Append(RoundsOnly(q), env)
      BY <1>3, <2>3, RoundsOnlyAppend
    <3>3. Len(RoundsOnly(q)) < QueueCap
      <4>1. Len(q) < QueueCap /\ Len(q) \in Nat
        BY <1>2, <1>3, <2>3 DEF HasRoom
      <4>2. QED
        BY <1>3, <4>1, RoundsOnlyIsShorter, TransportAssumption
    <3>4. PushInbound(RoundsOnly(q), env) = Append(RoundsOnly(q), env)
      BY <3>3 DEF PushInbound
    <3>5. QED
      BY <2>1, <2>2, <2>3, <3>1, <3>2, <3>4
  <2>4. CASE ~OfRounds(env)
    <3>1. RoundsOnly(PushInbound(q, env)) = RoundsOnly(q)
      BY <1>3, <2>4, RoundsOnlyAppend DEF PushInbound
    <3>2. roundCh' = roundCh
      BY <2>1, <2>2, <3>1 DEF roundCh
    <3>3. QED
      BY <2>4, <3>2
  <2>5. QED
    BY <2>3, <2>4
<1>6. QED
  BY <1>4, <1>5

LEMMA PublishMaps ==
  ASSUME ChannelsOK, EveryoneHasRoom, NEW n \in Node, NEW to, NEW env, Publish(n, to, env)
  PROVE  IF OfRounds(env) THEN AsSigning!Publish(n, to, env)
                          ELSE UNCHANGED <<roundNet, roundCh>>
<1>1. roundNet' = IF OfRounds(env)
                    THEN roundNet \cup {Frame(p, env) : p \in {q \in to \ {n} : up[q]}}
                    ELSE roundNet
  <2>1. net' = net \cup {Frame(p, env) : p \in {q \in to \ {n} : up[q]}}
    BY DEF Publish
  <2>2. \A p : Frame(p, env).env = env
    BY DEF Frame
  <2>3. \A f \in {Frame(p, env) : p \in {q \in to \ {n} : up[q]}} : f.env = env
    BY <2>2
  <2>4. QED
    BY <2>1, <2>3 DEF roundNet
<1>2. HasRoom(n)
  BY DEF EveryoneHasRoom
<1>3. CASE n \in to
  <2>1. inCh' = [inCh EXCEPT ![n] = PushInbound(@, env)]
    BY <1>3 DEF Publish
  <2>2. QED
    BY <1>1, <1>2, <1>3, <2>1, PushMaps
       DEF AsSigning!Publish, AsSigning!PushInbound, PushInbound, AsSigning!Frame, Frame
<1>4. CASE n \notin to
  <2>1. inCh' = inCh
    BY <1>4 DEF Publish
  <2>2. QED
    BY <1>1, <1>4, <2>1, PushMaps DEF AsSigning!Publish, AsSigning!Frame, Frame
<1>5. QED
  BY <1>3, <1>4

LEMMA ReadMaps ==
  ASSUME ChannelsOK, EveryoneHasRoom, NEW f \in net, ReadLoop(f)
  PROVE  IF OfRounds(f.env) THEN f \in roundNet /\ AsSigning!ReadLoop(f)
                            ELSE UNCHANGED <<roundNet, roundCh>>
<1>1. f.dst \in Node
  BY ChannelsAre
<1>2. HasRoom(f.dst)
  BY <1>1 DEF EveryoneHasRoom
<1>3. /\ net' = net \ {f} /\ up' = up
      /\ inCh' = [inCh EXCEPT ![f.dst] = PushInbound(@, f.env)]
  BY DEF ReadLoop
<1>4. roundNet' = roundNet \ {f}
  BY <1>3 DEF roundNet
<1>5. CASE OfRounds(f.env)
  <2>1. roundCh' = [roundCh EXCEPT ![f.dst] = PushInbound(@, f.env)]
    BY <1>1, <1>2, <1>3, <1>5, PushMaps
  <2>2. f \in roundNet
    BY <1>5 DEF roundNet
  <2>3. QED
    BY <1>3, <1>4, <1>5, <2>1, <2>2 DEF AsSigning!ReadLoop, AsSigning!PushInbound, PushInbound
<1>6. CASE ~OfRounds(f.env)
  <2>1. roundCh' = roundCh
    BY <1>1, <1>3, <1>6, PushMaps
  <2>2. f \notin roundNet
    BY <1>6 DEF roundNet
  <2>3. QED
    BY <1>4, <1>6, <2>1, <2>2
<1>7. QED
  BY <1>5, <1>6

LEMMA ConsumeMaps ==
  ASSUME ChannelsOK, NEW n \in Node, inCh[n] # <<>>
  PROVE  /\ OfRounds(Head(inCh[n])) => roundCh[n] # <<>> /\ Head(roundCh[n]) = Head(inCh[n])
         /\ inCh' = Consume(n) =>
              roundCh' = IF OfRounds(Head(inCh[n])) THEN AsSigning!Consume(n) ELSE roundCh
<1>1. PICK M : inCh \in [Node -> Seq(M)] /\ \A p \in Node : inCh[p] \in Seq(M)
  BY ChannelsAre
<1>2. PICK q : q = inCh[n]
  OBVIOUS
<1>3. q \in Seq(M) /\ q # <<>>
  BY <1>1, <1>2
<1>4. roundCh[n] = RoundsOnly(q)
  BY <1>2 DEF roundCh
<1>5. OfRounds(Head(q)) => roundCh[n] # <<>> /\ Head(roundCh[n]) = Head(q)
  BY <1>3, <1>4, RoundsOnlyTail
<1>6. ASSUME inCh' = Consume(n)
      PROVE  roundCh' = IF OfRounds(Head(q)) THEN AsSigning!Consume(n) ELSE roundCh
  <2>1. PICK t : t = Tail(q)
    OBVIOUS
  <2>2. inCh' = [inCh EXCEPT ![n] = t]
    BY <1>2, <1>6, <2>1 DEF Consume
  <2>3. roundCh' = [roundCh EXCEPT ![n] = RoundsOnly(t)]
    BY <1>1, <2>2 DEF roundCh
  <2>4. RoundsOnly(t) = IF OfRounds(Head(q)) THEN Tail(RoundsOnly(q)) ELSE RoundsOnly(q)
    BY <1>3, <2>1, RoundsOnlyTail
  <2>5. [roundCh EXCEPT ![n] = roundCh[n]] = roundCh
    BY DEF roundCh
  <2>6. QED
    BY <1>4, <2>3, <2>4, <2>5 DEF AsSigning!Consume
<1>7. QED
  BY <1>2, <1>5, <1>6

LEMMA StopMaps ==
  ASSUME ChannelsOK, NEW n \in Node, StopProcess(n)
  PROVE  AsSigning!StopProcess(n)
<1>1. roundNet' = {f \in roundNet : f.dst # n}
  BY DEF StopProcess, roundNet
<1>2. inCh' = [inCh EXCEPT ![n] = <<>>] /\ \E M : inCh \in [Node -> Seq(M)]
  BY ChannelsAre DEF StopProcess
<1>3. PICK e : e = <<>>
  OBVIOUS
<1>4. inCh' = [inCh EXCEPT ![n] = e]
  BY <1>2, <1>3
<1>5. roundCh' = [roundCh EXCEPT ![n] = RoundsOnly(e)]
  BY <1>2, <1>4 DEF roundCh
<1>6. QED
  BY <1>1, <1>3, <1>5, RoundsOnlyEmpty DEF StopProcess, AsSigning!StopProcess

------------------------------------------------------------------------------
\* What the rounds see of the key.
LEMMA KeyIs ==
  ASSUME KeysOK
  PROVE  key = [n \in Node |-> IF committeePubKey[n] = FirstKey THEN 1 ELSE 0]
  BY KeysDiffer DEF KeysOK, key, KeyGen!HasKey, FirstKey, NoKey

LEMMA KeyIsNext ==
  ASSUME KeysOK'
  PROVE  key' = [n \in Node |-> IF committeePubKey'[n] = FirstKey THEN 1 ELSE 0]
  BY KeysDiffer DEF KeysOK, key, KeyGen!HasKey, FirstKey, NoKey, KeyGen!FirstKey, KeyGen!NoKey

\* The operators of the rounds that do not look at the channels.
LEMMA SameOperators ==
  /\ AsSigning!Node = Node /\ Rounds!Node = Node
  /\ AsSigning!NoKey = 0 /\ Rounds!NoKey = 0
  /\ AsSigning!Member = Rounds!Member
  /\ \A m, r : AsSigning!NewSession(m, r) = Rounds!NewSession(m, r)
  /\ \A a : AsSigning!Responders(a) = Rounds!Responders(a)
  /\ \A a : AsSigning!Enough(a) <=> Rounds!Enough(a)
  /\ \A a, m : AsSigning!Accepts(a, m) <=> Rounds!Accepts(a, m)
  /\ \A a, k : AsSigning!VerifyAggregate(a, k) <=> Rounds!VerifyAggregate(a, k)
  /\ \A s, m, r : AsSigning!SignRequest(s, m, r) = Rounds!SignRequest(s, m, r)
  /\ \A s, m, r, i, k : AsSigning!SignResponse(s, m, r, i, k) = Rounds!SignResponse(s, m, r, i, k)
  /\ \A s, m, r, i, k : AsSigning!AggResult(s, m, r, i, k) = Rounds!AggResult(s, m, r, i, k)
<1>1. /\ AsSigning!Node = Node /\ Rounds!Node = Node
      /\ AsSigning!NoKey = 0 /\ Rounds!NoKey = 0
      /\ AsSigning!Member = Rounds!Member
  BY DEF AsSigning!Node, Rounds!Node, Node, AsSigning!NoKey, Rounds!NoKey, AsSigning!Member,
     Rounds!Member
<1>2. /\ \A m, r : AsSigning!NewSession(m, r) = Rounds!NewSession(m, r)
      /\ \A a : AsSigning!Responders(a) = Rounds!Responders(a)
  BY <1>1 DEF AsSigning!NewSession, Rounds!NewSession, AsSigning!Responders, Rounds!Responders
<1>3. /\ \A a : AsSigning!Enough(a) <=> Rounds!Enough(a)
      /\ \A a, m : AsSigning!Accepts(a, m) <=> Rounds!Accepts(a, m)
      /\ \A a, k : AsSigning!VerifyAggregate(a, k) <=> Rounds!VerifyAggregate(a, k)
  <2>1. ASSUME NEW a PROVE AsSigning!Enough(a) <=> Rounds!Enough(a)
    <3>1. AsSigning!Responders(a) = Rounds!Responders(a)
      BY <1>2
    <3>2. QED
      BY <3>1 DEF AsSigning!Enough, Rounds!Enough, AsSigning!Cardinality, Rounds!Cardinality,
         Cardinality
  <2>2. \A a, m : AsSigning!Accepts(a, m) <=> Rounds!Accepts(a, m)
    BY <1>1 DEF AsSigning!Accepts, Rounds!Accepts, AsSigning!VerifyShare, Rounds!VerifyShare
  <2>3. \A a, k : AsSigning!VerifyAggregate(a, k) <=> Rounds!VerifyAggregate(a, k)
    BY <1>2 DEF AsSigning!VerifyAggregate, Rounds!VerifyAggregate
  <2>4. QED
    BY <2>1, <2>2, <2>3
<1>4. \A s, m, r : AsSigning!SignRequest(s, m, r) = Rounds!SignRequest(s, m, r)
  BY DEF AsSigning!SignRequest, Rounds!SignRequest
<1>5. \A s, m, r, i, k : AsSigning!SignResponse(s, m, r, i, k) = Rounds!SignResponse(s, m, r, i, k)
  BY DEF AsSigning!SignResponse, Rounds!SignResponse
<1>6. \A s, m, r, i, k : AsSigning!AggResult(s, m, r, i, k) = Rounds!AggResult(s, m, r, i, k)
  BY DEF AsSigning!AggResult, Rounds!AggResult
<1>7. QED
  BY <1>1, <1>2, <1>3, <1>4, <1>5, <1>6

LEMMA InitIsSigning == Init => AsSigning!Init
<1> SUFFICES ASSUME Init PROVE AsSigning!Init
  OBVIOUS
<1>1. Rounds!Init
  BY DEF Init
<1>2. roundNet = {}
  BY <1>1 DEF Rounds!Init, roundNet
<1>3. roundCh = [n \in Node |-> <<>>]
  <2>1. PICK e : e = <<>>
    OBVIOUS
  <2>2. inCh = [n \in Node |-> e]
    BY <1>1, <2>1, SameOperators DEF Rounds!Init
  <2>3. roundCh = [n \in Node |-> RoundsOnly(e)]
    BY <2>2 DEF roundCh
  <2>4. QED
    BY <2>1, <2>3, RoundsOnlyEmpty
<1>4. QED
  BY <1>1, <1>2, <1>3, SameOperators DEF Rounds!Init, AsSigning!Init

\* Each action of the rounds, seen without the shares.
LEMMA HandlesMaps ==
  ASSUME CInv, NEW n \in Node, NEW type, Rounds!Handles(n, type), type # "DealShare"
  PROVE  /\ AsSigning!Handles(n, type)
         /\ Head(roundCh[n]) = Head(inCh[n])
         /\ inCh' = Consume(n) => roundCh' = AsSigning!Consume(n)
         /\ net' = net => roundNet' = roundNet
<1>1. inCh[n] # <<>> /\ OfRounds(Head(inCh[n]))
  BY HandlesRound
<1>2. /\ roundCh[n] # <<>> /\ Head(roundCh[n]) = Head(inCh[n])
      /\ inCh' = Consume(n) => roundCh' = AsSigning!Consume(n)
  BY <1>1, ConsumeMaps DEF CInv
<1>3. AsSigning!Handles(n, type)
  BY <1>2, SameOperators
     DEF Rounds!Handles, AsSigning!Handles, Rounds!Received, AsSigning!Received
<1>4. QED
  BY <1>2, <1>3 DEF roundNet

LEMMA NothingMaps ==
  ASSUME UNCHANGED <<net, inCh>>
  PROVE  UNCHANGED <<roundNet, roundCh>>
  BY DEF roundNet, roundCh

LEMMA ResponseMaps ==
  ASSUME CInv, EveryoneHasRoom, NEW n \in Node, NEW job, Rounds!PublishSignResponse(n, job)
  PROVE  AsSigning!PublishSignResponse(n, job)
<1>1. CASE key[n] # 0
  <2>1. PICK env : env = Rounds!SignResponse(job.sid, job.message, job.request, n, key[n])
    OBVIOUS
  <2>2. Publish(n, {Coordinator}, env) /\ OfRounds(env)
    BY <1>1, <2>1, SameOperators, SameTransport, EnvelopesOfRounds DEF Rounds!PublishSignResponse
  <2>3. AsSigning!Publish(n, {Coordinator}, env)
    BY <2>2, PublishMaps DEF CInv
  <2>4. QED
    BY <1>1, <2>1, <2>3, SameOperators DEF AsSigning!PublishSignResponse
<1>2. CASE key[n] = 0
  BY <1>2, NothingMaps, SameOperators DEF Rounds!PublishSignResponse, AsSigning!PublishSignResponse
<1>3. QED
  BY <1>1, <1>2

LEMMA MainLoopMaps ==
  ASSUME CInv, EveryoneHasRoom, NEW n \in Node, Rounds!MainLoop(n)
  PROVE  AsSigning!MainLoop(n)
<1>1. CASE Rounds!OnSignRequest(n)
  <2>1. Rounds!Handles(n, "SignRequest") /\ inCh' = Consume(n) /\ net' = net
    BY <1>1, SameTransport DEF Rounds!OnSignRequest
  <2>2. /\ AsSigning!Handles(n, "SignRequest") /\ Head(roundCh[n]) = Head(inCh[n])
        /\ roundCh' = AsSigning!Consume(n) /\ roundNet' = roundNet
    BY <2>1, HandlesMaps
  <2>3. AsSigning!OnSignRequest(n)
    BY <1>1, <2>2, SameOperators
       DEF Rounds!OnSignRequest, AsSigning!OnSignRequest, Rounds!nodeVars, AsSigning!nodeVars
  <2>4. QED
    BY <2>3 DEF AsSigning!MainLoop
<1>2. CASE Rounds!OnSignResponse(n)
  <2>1. Rounds!Handles(n, "SignResponse") /\ inCh' = Consume(n) /\ net' = net
    BY <1>2, SameTransport DEF Rounds!OnSignResponse
  <2>2. /\ AsSigning!Handles(n, "SignResponse") /\ Head(roundCh[n]) = Head(inCh[n])
        /\ roundCh' = AsSigning!Consume(n) /\ roundNet' = roundNet
    BY <2>1, HandlesMaps
  <2>3. AsSigning!OnSignResponse(n)
    BY <1>2, <2>2, SameOperators
       DEF Rounds!OnSignResponse, AsSigning!OnSignResponse, Rounds!nodeVars, AsSigning!nodeVars
  <2>4. QED
    BY <2>3 DEF AsSigning!MainLoop
<1>3. CASE Rounds!OnAggResult(n)
  <2>1. Rounds!Handles(n, "AggResult") /\ inCh' = Consume(n) /\ net' = net
    BY <1>3, SameTransport DEF Rounds!OnAggResult
  <2>2. /\ AsSigning!Handles(n, "AggResult") /\ Head(roundCh[n]) = Head(inCh[n])
        /\ roundCh' = AsSigning!Consume(n) /\ roundNet' = roundNet
    BY <2>1, HandlesMaps
  <2>3. AsSigning!OnAggResult(n)
    BY <1>3, <2>2, SameOperators
       DEF Rounds!OnAggResult, AsSigning!OnAggResult, Rounds!StoreAggregateResult,
           AsSigning!StoreAggregateResult, Rounds!roundVars, AsSigning!roundVars
  <2>4. QED
    BY <2>3 DEF AsSigning!MainLoop
<1>4. CASE Rounds!QueueRequest(n)
  <2>1. UNCHANGED <<roundNet, roundCh>>
    BY <1>4, NothingMaps DEF Rounds!QueueRequest, Rounds!transportVars
  <2>2. AsSigning!QueueRequest(n)
    BY <1>4, <2>1
       DEF Rounds!QueueRequest, AsSigning!QueueRequest, Rounds!transportVars,
           AsSigning!transportVars, Rounds!roundVars, AsSigning!roundVars
  <2>3. QED
    BY <2>2 DEF AsSigning!MainLoop
<1>5. CASE Rounds!RespondToRequest(n)
  <2>1. AsSigning!PublishSignResponse(n, loop[n].job)
    BY <1>5, ResponseMaps DEF Rounds!RespondToRequest
  <2>2. AsSigning!RespondToRequest(n)
    BY <1>5, <2>1
       DEF Rounds!RespondToRequest, AsSigning!RespondToRequest, Rounds!nodeVars,
           AsSigning!nodeVars, Rounds!roundVars, AsSigning!roundVars
  <2>3. QED
    BY <2>2 DEF AsSigning!MainLoop
<1>6. CASE Rounds!Aggregate(n)
  <2>1. UNCHANGED <<roundNet, roundCh>>
    BY <1>6, NothingMaps DEF Rounds!Aggregate, Rounds!transportVars
  <2>2. AsSigning!Aggregate(n)
    BY <1>6, <2>1, SameOperators
       DEF Rounds!Aggregate, AsSigning!Aggregate, Rounds!MarkAggregated,
           AsSigning!MarkAggregated, Rounds!transportVars, AsSigning!transportVars,
           Rounds!nodeVars, AsSigning!nodeVars
  <2>3. QED
    BY <2>2 DEF AsSigning!MainLoop
<1>7. CASE Rounds!StoreResult(n)
  <2>1. UNCHANGED <<roundNet, roundCh>>
    BY <1>7, NothingMaps DEF Rounds!StoreResult, Rounds!transportVars
  <2>2. AsSigning!StoreResult(n)
    BY <1>7, <2>1
       DEF Rounds!StoreResult, AsSigning!StoreResult, Rounds!StoreAggregateResult,
           AsSigning!StoreAggregateResult, Rounds!transportVars, AsSigning!transportVars,
           Rounds!roundVars, AsSigning!roundVars
  <2>3. QED
    BY <2>2 DEF AsSigning!MainLoop
<1>8. CASE Rounds!BroadcastResult(n)
  <2>1. OfRounds(loop[n].result)
    BY <1>8 DEF Rounds!BroadcastResult, CInv, LoopsOK
  <2>2. AsSigning!Publish(n, Node, loop[n].result)
    BY <1>8, <2>1, PublishMaps, SameTransport DEF Rounds!BroadcastResult, CInv
  <2>3. AsSigning!BroadcastResult(n)
    BY <1>8, <2>2, SameOperators
       DEF Rounds!BroadcastResult, AsSigning!BroadcastResult, Rounds!nodeVars,
           AsSigning!nodeVars, Rounds!roundVars, AsSigning!roundVars
  <2>4. QED
    BY <2>3 DEF AsSigning!MainLoop
<1>9. QED
  BY <1>1, <1>2, <1>3, <1>4, <1>5, <1>6, <1>7, <1>8 DEF Rounds!MainLoop

LEMMA ControlMaps ==
  ASSUME CInv, EveryoneHasRoom
  PROVE  /\ \A s \in Session, m \in Submitted :
              Rounds!SubmitSignRequest(s, m) => AsSigning!SubmitSignRequest(s, m)
         /\ \A r \in submitting : Rounds!PublishSignRequest(r) => AsSigning!PublishSignRequest(r)
         /\ \A n \in Node : Rounds!Crash(n) => AsSigning!Crash(n)
<1>1. ASSUME NEW s \in Session, NEW m \in Submitted, Rounds!SubmitSignRequest(s, m)
      PROVE  AsSigning!SubmitSignRequest(s, m)
  <2>1. UNCHANGED <<roundNet, roundCh>>
    BY <1>1, NothingMaps DEF Rounds!SubmitSignRequest, Rounds!transportVars
  <2>2. QED
    BY <1>1, <2>1, SameOperators
       DEF Rounds!SubmitSignRequest, AsSigning!SubmitSignRequest, Rounds!transportVars,
           AsSigning!transportVars, Rounds!nodeVars, AsSigning!nodeVars
<1>2. ASSUME NEW r \in submitting, Rounds!PublishSignRequest(r)
      PROVE  AsSigning!PublishSignRequest(r)
  <2>1. PICK env : env = Rounds!SignRequest(requests[r].sid, requests[r].message, r)
    OBVIOUS
  <2>2. Publish(Coordinator, Node, env) /\ OfRounds(env)
    BY <1>2, <2>1, SameTransport, EnvelopesOfRounds DEF Rounds!PublishSignRequest
  <2>3. AsSigning!Publish(Coordinator, Node, env)
    BY <2>2, PublishMaps, CommitteeAssumption DEF CInv
  <2>4. QED
    BY <1>2, <2>1, <2>3, SameOperators
       DEF Rounds!PublishSignRequest, AsSigning!PublishSignRequest, Rounds!nodeVars,
           AsSigning!nodeVars
<1>3. ASSUME NEW n \in Node, Rounds!Crash(n)
      PROVE  AsSigning!Crash(n)
  <2>1. AsSigning!StopProcess(n)
    BY <1>3, StopMaps, SameTransport DEF Rounds!Crash, CInv
  <2>2. QED
    BY <1>3, <2>1, SameOperators DEF Rounds!Crash, AsSigning!Crash
<1>4. QED
  BY <1>1, <1>2, <1>3

\* The variables of the rounds that only the rounds change.
LEMMA SigningStutters ==
  ASSUME UNCHANGED <<up, roundNet, roundCh, key, dkgReady, roundVars>>
  PROVE  UNCHANGED AsSigning!vars
  BY DEF AsSigning!vars, AsSigning!transportVars, AsSigning!nodeVars, AsSigning!roundVars,
     roundVars

\* A dealing is nothing to the rounds.
LEMMA DealMaps ==
  ASSUME CInv, EveryoneHasRoom, NEW n \in Node, Deal(n)
  PROVE  UNCHANGED AsSigning!vars
<1>1. CInv'
  BY DealKeeps
<1>2. UNCHANGED <<up, committeePubKey, dkgReady, roundVars>>
  BY DEF Deal, KeyGen!BroadcastDealerShare
<1>3. key' = key
  BY <1>1, <1>2, KeyIs, KeyIsNext DEF CInv
<1>4. UNCHANGED <<roundNet, roundCh>>
  <2>1. CASE dealt[n] < NodeCount
    <3>1. PICK env : env = KeyGen!DealShare(n, starts[n], dealt[n])
      OBVIOUS
    <3>2. Publish(n, {dealt[n]}, env)
      BY <2>1, <3>1, SameTransport DEF Deal, KeyGen!BroadcastDealerShare
    <3>3. ~OfRounds(env)
      BY <3>1 DEF KeyGen!DealShare, OfRounds
    <3>4. QED
      BY <3>2, <3>3, PublishMaps DEF CInv
  <2>2. CASE ~(dealt[n] < NodeCount)
    BY <2>2, NothingMaps DEF Deal, KeyGen!BroadcastDealerShare
  <2>3. QED
    BY <2>1, <2>2
<1>5. QED
  BY <1>2, <1>3, <1>4, SigningStutters

\* The share that completes a key is the step at which the rounds get it.
LEMMA TakeShareMaps ==
  ASSUME CInv, NEW n \in Node, TakeShare(n)
  PROVE  AsSigning!LearnKey(n) \/ UNCHANGED AsSigning!vars
<1>1. CInv'
  BY TakeShareKeeps
<1>2. UNCHANGED <<roundNet, roundCh>>
  <2>1. inCh[n] # <<>> /\ inCh' = Consume(n) /\ net' = net /\ ~OfRounds(Head(inCh[n]))
    BY TakeShareIs DEF Received
  <2>2. QED
    BY <2>1, ConsumeMaps DEF CInv, roundNet
<1>3. UNCHANGED <<up, dkgReady, roundVars>> /\ up[n]
  BY TakeShareIs DEF Received
<1>4. CASE committeePubKey' = committeePubKey
  <2>1. key' = key
    BY <1>1, <1>4, KeyIs, KeyIsNext DEF CInv
  <2>2. QED
    BY <1>2, <1>3, <2>1, SigningStutters
<1>5. CASE /\ n \in Dealer /\ committeePubKey[n] = NoKey
           /\ committeePubKey' = [committeePubKey EXCEPT ![n] = FirstKey]
  <2>1. key[n] = 0 /\ key' = [key EXCEPT ![n] = 1]
    BY <1>1, <1>5, KeyIs, KeyIsNext, KeysDiffer DEF CInv, KeysOK
  <2>2. n \in AsSigning!Member
    BY <1>5 DEF Dealer, KeyGen!Dealer, AsSigning!Member
  <2>3. AsSigning!LearnKey(n)
    BY <1>2, <1>3, <2>1, <2>2, SameOperators
       DEF AsSigning!LearnKey, OneKey, AsSigning!transportVars, AsSigning!roundVars, roundVars
  <2>4. QED
    BY <2>3
<1>6. QED
  BY <1>4, <1>5, TakeShareIs

\* The end of the key generation at a node is where the rounds may begin there.
LEMMA FinishKeyGenMaps ==
  ASSUME CInv, NEW n \in Node, FinishKeyGen(n)
  PROVE  AsSigning!BecomeReady(n)
<1>1. CInv'
  BY FinishKeyGenKeeps
<1>2. /\ up[n] /\ committeePubKey[n] # NoKey /\ ~dkgReady[n]
      /\ dkgReady' = [dkgReady EXCEPT ![n] = TRUE]
      /\ UNCHANGED <<up, net, inCh, committeePubKey, roundVars>>
  BY DEF FinishKeyGen, KeyGen!MarkReady, KeyGen!Finalizing, KeyGen!HasKey,
     KeyGen!transportVars, NoKey
<1>3. key[n] # 0 /\ key' = key
  <2>1. committeePubKey[n] = FirstKey
    BY <1>2 DEF CInv, KeysOK
  <2>2. key[n] # 0
    BY <2>1, KeyIs DEF CInv
  <2>3. key' = key
    BY <1>1, <1>2, KeyIs, KeyIsNext DEF CInv
  <2>4. QED
    BY <2>2, <2>3
<1>4. UNCHANGED <<roundNet, roundCh>>
  BY <1>2, NothingMaps
<1>5. QED
  BY <1>2, <1>3, <1>4, SameOperators
     DEF AsSigning!BecomeReady, AsSigning!transportVars, AsSigning!roundVars, roundVars

\* Every step of the service is a step of the rounds, or nothing to them.
LEMMA StepMaps ==
  ASSUME CInv, EveryoneHasRoom, [Next]_vars
  PROVE  [AsSigning!Next]_AsSigning!vars
<1>1. ASSUME NEW s \in Session, NEW m \in Submitted, Submit(s, m)
      PROVE  AsSigning!Next
  BY <1>1, ControlMaps DEF Submit, AsSigning!Next, AsSigning!Operator
<1>2. ASSUME NEW r \in submitting, PublishRequest(r)
      PROVE  AsSigning!Next
  BY <1>2, ControlMaps DEF PublishRequest, AsSigning!Next
<1>3. ASSUME NEW n \in Node, HandleRound(n)
      PROVE  AsSigning!Next
  BY <1>3, MainLoopMaps, SameOperators DEF HandleRound, AsSigning!Next
<1>4. ASSUME NEW n \in Node, Crash(n)
      PROVE  AsSigning!Next
  BY <1>4, ControlMaps, SameOperators DEF Crash, AsSigning!Next
<1>5. ASSUME NEW n \in Node, TakeShare(n)
      PROVE  [AsSigning!Next]_AsSigning!vars
  BY <1>5, TakeShareMaps, SameOperators DEF AsSigning!Next
<1>6. ASSUME NEW n \in Node, FinishKeyGen(n)
      PROVE  AsSigning!Next
  BY <1>6, FinishKeyGenMaps, SameOperators DEF AsSigning!Next
<1>7. ASSUME Transfer
      PROVE  [AsSigning!Next]_AsSigning!vars
  <2>1. PICK f \in net : ReadLoop(f)
    BY <1>7 DEF Transfer
  <2>2. UNCHANGED <<up, key, dkgReady, roundVars>>
    <3>1. UNCHANGED <<up, committeePubKey, dkgReady, roundVars>>
      BY <1>7, <2>1 DEF Transfer, ReadLoop, keyGenVars
    <3>2. CInv'
      BY <1>7, OtherKeeps
    <3>3. QED
      BY <3>1, <3>2, KeyIs, KeyIsNext DEF CInv
  <2>3. CASE OfRounds(f.env)
    <3>1. f \in roundNet /\ AsSigning!ReadLoop(f)
      BY <2>1, <2>3, ReadMaps DEF CInv
    <3>2. AsSigning!Transfer
      BY <2>2, <3>1 DEF AsSigning!Transfer, AsSigning!nodeVars, AsSigning!roundVars, roundVars
    <3>3. QED
      BY <3>2 DEF AsSigning!Next
  <2>4. CASE ~OfRounds(f.env)
    <3>1. UNCHANGED <<roundNet, roundCh>>
      BY <2>1, <2>4, ReadMaps DEF CInv
    <3>2. QED
      BY <2>2, <3>1, SigningStutters
  <2>5. QED
    BY <2>3, <2>4
<1>8. ASSUME UNCHANGED vars
      PROVE  UNCHANGED AsSigning!vars
  <2>1. UNCHANGED <<up, net, inCh, committeePubKey, dkgReady, roundVars>>
    BY <1>8 DEF vars, transportVars, keyGenVars
  <2>2. CInv'
    BY <1>8, OtherKeeps
  <2>3. key' = key
    BY <2>1, <2>2, KeyIs, KeyIsNext DEF CInv
  <2>4. QED
    BY <2>1, <2>3, NothingMaps, SigningStutters
<1>9. QED
  BY <1>1, <1>2, <1>3, <1>4, <1>5, <1>6, <1>7, <1>8, DealMaps DEF Next

\* With the shares taken out of the channels the service is Signing: key generation
\* and rounds share the channels and the main loops without disturbing each other, in
\* whatever order their envelopes come.  A channel that is full would drop an
\* envelope that Signing, which has no shares in it, has room for.
THEOREM ActsAsSigning == Spec /\ []EveryoneHasRoom => ImplementsSigning
<1>1. Spec /\ []EveryoneHasRoom => AsSigning!Spec
  BY InitIsSigning, CInvIsInvariant, StepMaps, PTL DEF Spec, AsSigning!Spec
<1>2. QED
  BY <1>1 DEF ImplementsSigning

------------------------------------------------------------------------------
(***************************************************************************)
(* What is proved of Signing, for the rounds of the service.               *)
(***************************************************************************)
RoundProofs == INSTANCE Signing_proofs
                 WITH KeyOf <- OneKey, AlreadyReady <- {}, Manual <- {},
                      Override <- {}, MaxOverrides <- 0, ready <- dkgReady,
                      net <- roundNet, inCh <- roundCh

\* The definitions of the two instances are the same.
LEMMA SameRoundOperators ==
  /\ AsSigning!Node = RoundProofs!Node
  /\ AsSigning!NoKey = RoundProofs!NoKey
  /\ AsSigning!Member = RoundProofs!Member
  /\ \A m, r : AsSigning!NewSession(m, r) = RoundProofs!NewSession(m, r)
  /\ \A a : AsSigning!Responders(a) = RoundProofs!Responders(a)
  /\ \A a : AsSigning!Enough(a) <=> RoundProofs!Enough(a)
  /\ \A a, m : AsSigning!Accepts(a, m) <=> RoundProofs!Accepts(a, m)
  /\ \A a, k : AsSigning!VerifyAggregate(a, k) <=> RoundProofs!VerifyAggregate(a, k)
  /\ \A s, m, r : AsSigning!SignRequest(s, m, r) = RoundProofs!SignRequest(s, m, r)
  /\ \A s, m, r, i, k : AsSigning!SignResponse(s, m, r, i, k) = RoundProofs!SignResponse(s, m, r, i, k)
  /\ \A s, m, r, i, k : AsSigning!AggResult(s, m, r, i, k) = RoundProofs!AggResult(s, m, r, i, k)
<1>1. /\ AsSigning!Node = RoundProofs!Node
      /\ AsSigning!NoKey = RoundProofs!NoKey
      /\ AsSigning!Member = RoundProofs!Member
  BY DEF AsSigning!Node, RoundProofs!Node, AsSigning!NoKey, RoundProofs!NoKey,
         AsSigning!Member, RoundProofs!Member
<1>2. /\ \A m, r : AsSigning!NewSession(m, r) = RoundProofs!NewSession(m, r)
      /\ \A a : AsSigning!Responders(a) = RoundProofs!Responders(a)
  BY <1>1 DEF AsSigning!NewSession, RoundProofs!NewSession, AsSigning!Responders,
         RoundProofs!Responders
<1>3. ASSUME NEW a PROVE AsSigning!Enough(a) <=> RoundProofs!Enough(a)
  <2>1. AsSigning!Responders(a) = RoundProofs!Responders(a)
    BY <1>2
  <2>2. QED
    BY <2>1 DEF AsSigning!Enough, RoundProofs!Enough, AsSigning!Cardinality,
         RoundProofs!Cardinality, Cardinality
<1>4. \A a, m : AsSigning!Accepts(a, m) <=> RoundProofs!Accepts(a, m)
  BY <1>1 DEF AsSigning!Accepts, RoundProofs!Accepts, AsSigning!VerifyShare,
         RoundProofs!VerifyShare
<1>5. \A a, k : AsSigning!VerifyAggregate(a, k) <=> RoundProofs!VerifyAggregate(a, k)
  BY <1>2 DEF AsSigning!VerifyAggregate, RoundProofs!VerifyAggregate
<1>6. \A s, m, r : AsSigning!SignRequest(s, m, r) = RoundProofs!SignRequest(s, m, r)
  BY DEF AsSigning!SignRequest, RoundProofs!SignRequest
<1>7. \A s, m, r, i, k : AsSigning!SignResponse(s, m, r, i, k) = RoundProofs!SignResponse(s, m, r, i, k)
  BY DEF AsSigning!SignResponse, RoundProofs!SignResponse
<1>8. \A s, m, r, i, k : AsSigning!AggResult(s, m, r, i, k) = RoundProofs!AggResult(s, m, r, i, k)
  BY DEF AsSigning!AggResult, RoundProofs!AggResult
<1>9. QED
  BY <1>1, <1>2, <1>3, <1>4, <1>5, <1>6, <1>7, <1>8

LEMMA SameRoundTransport ==
  /\ \A n, to, env : AsSigning!Publish(n, to, env) <=> RoundProofs!Publish(n, to, env)
  /\ \A f : AsSigning!ReadLoop(f) <=> RoundProofs!ReadLoop(f)
  /\ \A f : AsSigning!LoseFrame(f) <=> RoundProofs!LoseFrame(f)
  /\ \A n : AsSigning!Consume(n) = RoundProofs!Consume(n)
  /\ \A n : AsSigning!Received(n) <=> RoundProofs!Received(n)
  /\ \A n : AsSigning!StopProcess(n) <=> RoundProofs!StopProcess(n)
  /\ \A n, type : AsSigning!Handles(n, type) <=> RoundProofs!Handles(n, type)
  /\ \A n, job : AsSigning!PublishSignResponse(n, job) <=> RoundProofs!PublishSignResponse(n, job)
<1>1. \A n, to, env : AsSigning!Publish(n, to, env) <=> RoundProofs!Publish(n, to, env)
  BY DEF AsSigning!Publish, RoundProofs!Publish, AsSigning!PushInbound,
         RoundProofs!PushInbound, AsSigning!Frame, RoundProofs!Frame
<1>2. /\ \A f : AsSigning!ReadLoop(f) <=> RoundProofs!ReadLoop(f)
      /\ \A f : AsSigning!LoseFrame(f) <=> RoundProofs!LoseFrame(f)
  BY DEF AsSigning!ReadLoop, RoundProofs!ReadLoop, AsSigning!PushInbound,
         RoundProofs!PushInbound, AsSigning!LoseFrame, RoundProofs!LoseFrame
<1>3. /\ \A n : AsSigning!Consume(n) = RoundProofs!Consume(n)
      /\ \A n : AsSigning!Received(n) <=> RoundProofs!Received(n)
      /\ \A n : AsSigning!StopProcess(n) <=> RoundProofs!StopProcess(n)
  BY DEF AsSigning!Consume, RoundProofs!Consume, AsSigning!Received, RoundProofs!Received,
         AsSigning!StopProcess, RoundProofs!StopProcess
<1>4. \A n, type : AsSigning!Handles(n, type) <=> RoundProofs!Handles(n, type)
  BY <1>3, SameRoundOperators DEF AsSigning!Handles, RoundProofs!Handles
<1>5. \A n, job : AsSigning!PublishSignResponse(n, job) <=> RoundProofs!PublishSignResponse(n, job)
  BY <1>1, SameRoundOperators DEF AsSigning!PublishSignResponse, RoundProofs!PublishSignResponse
<1>6. QED
  BY <1>1, <1>2, <1>3, <1>4, <1>5

LEMMA SameRoundActions ==
  ASSUME NEW n
  PROVE  /\ AsSigning!MainLoop(n) => RoundProofs!MainLoop(n)
         /\ AsSigning!LearnKey(n) => RoundProofs!LearnKey(n)
         /\ AsSigning!BecomeReady(n) => RoundProofs!BecomeReady(n)
         /\ AsSigning!Crash(n) => RoundProofs!Crash(n)
<1>1. AsSigning!OnSignRequest(n) => RoundProofs!OnSignRequest(n)
  BY SameRoundOperators, SameRoundTransport
     DEF AsSigning!OnSignRequest, RoundProofs!OnSignRequest, AsSigning!nodeVars,
         RoundProofs!nodeVars
<1>2. AsSigning!QueueRequest(n) => RoundProofs!QueueRequest(n)
  BY SameRoundOperators, SameRoundTransport
     DEF AsSigning!QueueRequest, RoundProofs!QueueRequest, AsSigning!transportVars,
         RoundProofs!transportVars, AsSigning!roundVars, RoundProofs!roundVars
<1>3. AsSigning!RespondToRequest(n) => RoundProofs!RespondToRequest(n)
  BY SameRoundOperators, SameRoundTransport
     DEF AsSigning!RespondToRequest, RoundProofs!RespondToRequest, AsSigning!nodeVars,
         RoundProofs!nodeVars, AsSigning!roundVars, RoundProofs!roundVars
<1>4. AsSigning!OnSignResponse(n) => RoundProofs!OnSignResponse(n)
  BY SameRoundOperators, SameRoundTransport
     DEF AsSigning!OnSignResponse, RoundProofs!OnSignResponse, AsSigning!nodeVars,
         RoundProofs!nodeVars
<1>5. AsSigning!Aggregate(n) => RoundProofs!Aggregate(n)
  BY SameRoundOperators, SameRoundTransport
     DEF AsSigning!Aggregate, RoundProofs!Aggregate, AsSigning!MarkAggregated,
         RoundProofs!MarkAggregated, AsSigning!transportVars, RoundProofs!transportVars,
         AsSigning!nodeVars, RoundProofs!nodeVars
<1>6. AsSigning!StoreResult(n) => RoundProofs!StoreResult(n)
  BY SameRoundOperators, SameRoundTransport
     DEF AsSigning!StoreResult, RoundProofs!StoreResult, AsSigning!StoreAggregateResult,
         RoundProofs!StoreAggregateResult, AsSigning!transportVars,
         RoundProofs!transportVars, AsSigning!roundVars, RoundProofs!roundVars
<1>7. AsSigning!BroadcastResult(n) => RoundProofs!BroadcastResult(n)
  BY SameRoundOperators, SameRoundTransport
     DEF AsSigning!BroadcastResult, RoundProofs!BroadcastResult, AsSigning!nodeVars,
         RoundProofs!nodeVars, AsSigning!roundVars, RoundProofs!roundVars
<1>8. AsSigning!OnAggResult(n) => RoundProofs!OnAggResult(n)
  BY SameRoundOperators, SameRoundTransport
     DEF AsSigning!OnAggResult, RoundProofs!OnAggResult, AsSigning!StoreAggregateResult,
         RoundProofs!StoreAggregateResult, AsSigning!roundVars, RoundProofs!roundVars
<1>9. AsSigning!LearnKey(n) => RoundProofs!LearnKey(n)
  BY SameRoundOperators, SameRoundTransport
     DEF AsSigning!LearnKey, RoundProofs!LearnKey, AsSigning!transportVars,
         RoundProofs!transportVars, AsSigning!roundVars, RoundProofs!roundVars
<1>10. AsSigning!BecomeReady(n) => RoundProofs!BecomeReady(n)
  BY SameRoundOperators, SameRoundTransport
     DEF AsSigning!BecomeReady, RoundProofs!BecomeReady, AsSigning!transportVars,
         RoundProofs!transportVars, AsSigning!roundVars, RoundProofs!roundVars
<1>11. AsSigning!Crash(n) => RoundProofs!Crash(n)
  BY SameRoundOperators, SameRoundTransport
     DEF AsSigning!Crash, RoundProofs!Crash
<1>12. QED
  BY <1>1, <1>2, <1>3, <1>4, <1>5, <1>6, <1>7, <1>8, <1>9, <1>10, <1>11 DEF AsSigning!MainLoop, RoundProofs!MainLoop

LEMMA SameRoundControl ==
  /\ \A s, m : AsSigning!SubmitSignRequest(s, m) => RoundProofs!SubmitSignRequest(s, m)
  /\ \A r : AsSigning!PublishSignRequest(r) => RoundProofs!PublishSignRequest(r)
  /\ \A n, job : AsSigning!PublishLocalSign(n, job) => RoundProofs!PublishLocalSign(n, job)
  /\ AsSigning!Transfer => RoundProofs!Transfer
  /\ AsSigning!Loss => RoundProofs!Loss
<1>1. \A s, m : AsSigning!SubmitSignRequest(s, m) => RoundProofs!SubmitSignRequest(s, m)
  BY SameRoundOperators
     DEF AsSigning!SubmitSignRequest, RoundProofs!SubmitSignRequest,
         AsSigning!transportVars, RoundProofs!transportVars, AsSigning!nodeVars,
         RoundProofs!nodeVars
<1>2. \A r : AsSigning!PublishSignRequest(r) => RoundProofs!PublishSignRequest(r)
  BY SameRoundOperators, SameRoundTransport
     DEF AsSigning!PublishSignRequest, RoundProofs!PublishSignRequest, AsSigning!nodeVars,
         RoundProofs!nodeVars
<1>3. \A n, job : AsSigning!PublishLocalSign(n, job) => RoundProofs!PublishLocalSign(n, job)
  BY SameRoundTransport
     DEF AsSigning!PublishLocalSign, RoundProofs!PublishLocalSign, AsSigning!nodeVars,
         RoundProofs!nodeVars
<1>4. AsSigning!Transfer => RoundProofs!Transfer
  BY SameRoundTransport
     DEF AsSigning!Transfer, RoundProofs!Transfer, AsSigning!nodeVars,
         RoundProofs!nodeVars, AsSigning!roundVars, RoundProofs!roundVars
<1>5. AsSigning!Loss => RoundProofs!Loss
  BY SameRoundTransport
     DEF AsSigning!Loss, RoundProofs!Loss, AsSigning!nodeVars, RoundProofs!nodeVars,
         AsSigning!roundVars, RoundProofs!roundVars
<1>6. QED
  BY <1>1, <1>2, <1>3, <1>4, <1>5

LEMMA SameRounds ==
  /\ AsSigning!Init => RoundProofs!Init
  /\ AsSigning!Next => RoundProofs!Next
  /\ (UNCHANGED AsSigning!vars) => UNCHANGED RoundProofs!vars
<1>1. AsSigning!Init => RoundProofs!Init
  BY SameRoundOperators DEF AsSigning!Init, RoundProofs!Init
<1>2. AsSigning!Next => RoundProofs!Next
  <2>1. AsSigning!Operator => RoundProofs!Operator
    BY SameRoundControl DEF AsSigning!Operator, RoundProofs!Operator
  <2>2. QED
    BY <2>1, SameRoundOperators, SameRoundActions, SameRoundControl DEF AsSigning!Next, RoundProofs!Next
<1>3. (UNCHANGED AsSigning!vars) => UNCHANGED RoundProofs!vars
  BY DEF AsSigning!vars, RoundProofs!vars, AsSigning!transportVars,
         RoundProofs!transportVars, AsSigning!nodeVars, RoundProofs!nodeVars,
         AsSigning!roundVars, RoundProofs!roundVars
<1>4. QED
  BY <1>1, <1>2, <1>3

\* What Signing assumes of its constants is what the service assumes.
LEMMA RoundAssumptions ==
  /\ Threshold \in 1 .. CommitteeSize
  /\ Coordinator \in RoundProofs!Node
  /\ OneKey \in [RoundProofs!Node -> Nat \ {RoundProofs!NoKey}]
  /\ Submitted \subseteq Message \cup {None}
  /\ MayCrash \subseteq RoundProofs!Node
  /\ None \notin RoundProofs!SessionState
  /\ None \notin RoundProofs!Response \cup RoundProofs!Result \cup RoundProofs!LoopJob
                  \cup RoundProofs!Queued
<1>1. RoundProofs!Node = Node /\ Rounds!Node = Node /\ RoundProofs!NoKey = 0
  BY DEF RoundProofs!Node, Rounds!Node, Node, RoundProofs!NoKey
<1>2. OneKey \in [Node -> Nat \ {0}]
  BY DEF OneKey
<1>3. /\ RoundProofs!Payload = Rounds!Payload /\ RoundProofs!Request = Rounds!Request
      /\ RoundProofs!Member = Rounds!Member /\ RoundProofs!KeyValue = Rounds!KeyValue
  BY <1>1 DEF RoundProofs!Payload, Rounds!Payload, RoundProofs!Request, Rounds!Request,
     RoundProofs!Member, Rounds!Member, RoundProofs!KeyValue, Rounds!KeyValue
<1>4. /\ RoundProofs!Response = Rounds!Response /\ RoundProofs!Result = Rounds!Result
      /\ RoundProofs!Queued = Rounds!Queued /\ RoundProofs!Job = Rounds!Job
  BY <1>3 DEF RoundProofs!Response, Rounds!Response, RoundProofs!Result, Rounds!Result,
     RoundProofs!Queued, Rounds!Queued, RoundProofs!Job, Rounds!Job
<1>5. RoundProofs!SessionState = Rounds!SessionState
  BY <1>3, <1>4 DEF RoundProofs!SessionState, Rounds!SessionState
<1>6. RoundProofs!LoopJob = Rounds!LoopJob
  BY <1>4, <1>5 DEF RoundProofs!LoopJob, Rounds!LoopJob
<1>7. QED
  BY <1>1, <1>2, <1>4, <1>5, <1>6, CommitteeAssumption, NoneIsNoData

LEMMA RoundsAreProved ==
  /\ RoundProofs!Spec => []RoundProofs!IInv
  /\ RoundProofs!Spec => []RoundProofs!ResultsAreRequestedAndSigned
  /\ RoundProofs!Spec => []RoundProofs!OneResultPerRequest
<1>1. RoundProofs!Spec => []RoundProofs!ResultsAreRequestedAndSigned
  BY RoundProofs!ResultsAreGood, RoundAssumptions, CommitteeAssumption, TransportAssumption
<1>2. RoundProofs!Spec => []RoundProofs!OneResultPerRequest
  BY RoundProofs!OneResult, RoundAssumptions, CommitteeAssumption, TransportAssumption
<1>3. RoundProofs!Spec => []RoundProofs!IInv
  BY RoundProofs!IInvIsInvariant, RoundAssumptions, CommitteeAssumption, TransportAssumption
<1>4. QED
  BY <1>1, <1>2, <1>3
------------------------------------------------------------------------------
(***************************************************************************)
(* So what is proved of Signing holds of the service, with the shares back *)
(* in its channels.                                                        *)
(***************************************************************************)
LEMMA RoundsHaveRoom ==
  ASSUME ChannelsOK, NEW n \in Node, HasRoom(n)
  PROVE  RoundProofs!HasRoom(n)
<1>1. PICK q, M : q = inCh[n] /\ q \in Seq(M)
  BY ChannelsAre
<1>2. roundCh[n] = RoundsOnly(q)
  BY <1>1 DEF roundCh
<1>3. Len(q) < QueueCap /\ Len(q) \in Nat
  BY <1>1 DEF HasRoom
<1>4. Len(RoundsOnly(q)) <= Len(q) /\ Len(RoundsOnly(q)) \in Nat
  BY <1>1, RoundsOnlyIsShorter
<1>5. QED
  BY <1>2, <1>3, <1>4, TransportAssumption DEF RoundProofs!HasRoom

LEMMA RunsAsRounds == Spec /\ []EveryoneHasRoom => RoundProofs!Spec
<1>1. [AsSigning!Next]_AsSigning!vars => [RoundProofs!Next]_RoundProofs!vars
  BY SameRounds
<1>2. Init => RoundProofs!Init
  BY InitIsSigning, SameRounds
<1>3. CInv /\ EveryoneHasRoom /\ [Next]_vars => [RoundProofs!Next]_RoundProofs!vars
  BY <1>1, StepMaps
<1>4. QED
  BY <1>2, <1>3, CInvIsInvariant, PTL DEF Spec, RoundProofs!Spec

\* What is on its way to a node, or waits there, without the shares.
LEMMA InboundMaps ==
  ASSUME ChannelsOK, NEW n \in Node
  PROVE  RoundProofs!Inbound(n) = {e \in Rounds!Inbound(n) : OfRounds(e)}
<1>1. PICK q, M : q = inCh[n] /\ q \in Seq(M)
  BY ChannelsAre
<1>2. roundCh[n] = RoundsOnly(q)
  BY <1>1 DEF roundCh
<1>3. \A e : (\E k \in DOMAIN RoundsOnly(q) : RoundsOnly(q)[k] = e)
              <=> \E j \in DOMAIN q : OfRounds(q[j]) /\ q[j] = e
  <2> SUFFICES ASSUME NEW e
               PROVE  (\E k \in DOMAIN RoundsOnly(q) : RoundsOnly(q)[k] = e)
                        <=> \E j \in DOMAIN q : OfRounds(q[j]) /\ q[j] = e
    OBVIOUS
  <2>1. q \in Seq(M)
    BY <1>1
  <2>2. QED
    BY <2>1, RoundsOnlyHas, Zenon
<1>4. {roundCh[n][i] : i \in DOMAIN roundCh[n]}
        = {e \in {inCh[n][i] : i \in DOMAIN inCh[n]} : OfRounds(e)}
  BY <1>1, <1>2, <1>3
<1>5. {f.env : f \in {g \in roundNet : g.dst = n}}
        = {e \in {f.env : f \in {g \in net : g.dst = n}} : OfRounds(e)}
  BY DEF roundNet
<1>6. QED
  BY <1>4, <1>5 DEF RoundProofs!Inbound, Rounds!Inbound

LEMMA ResultsMap ==
  ASSUME ChannelsOK
  PROVE  RoundProofs!Results = Rounds!Results
<1>1. RoundProofs!Node = Node /\ Rounds!Node = Node
  BY DEF RoundProofs!Node, Rounds!Node, Node
<1>2. {e \in UNION {RoundProofs!Inbound(n) : n \in Node} : e.type = "AggResult"}
        = {e \in UNION {Rounds!Inbound(n) : n \in Node} : e.type = "AggResult"}
  <2>1. \A n \in Node : RoundProofs!Inbound(n) = {e \in Rounds!Inbound(n) : OfRounds(e)}
    BY InboundMaps
  <2>2. \A e : e.type = "AggResult" => OfRounds(e)
    BY DEF OfRounds
  <2>3. QED
    BY <2>1, <2>2
<1>3. QED
  BY <1>1, <1>2 DEF RoundProofs!Results, Rounds!Results

LEMMA UnderwayMaps ==
  ASSUME ChannelsOK, NEW r, NEW n \in Node
  PROVE  RoundProofs!Underway(r, n) <=> Rounds!Underway(r, n)
<1>1. /\ RoundProofs!Inbound(n) = {e \in Rounds!Inbound(n) : OfRounds(e)}
      /\ RoundProofs!Inbound(Coordinator) = {e \in Rounds!Inbound(Coordinator) : OfRounds(e)}
  BY InboundMaps, CommitteeAssumption
<1>2. \A e : e.type \in {"SignRequest", "SignResponse"} => OfRounds(e)
  BY DEF OfRounds
<1>3. QED
  BY <1>1, <1>2 DEF RoundProofs!Underway, Rounds!Underway

\* In the whole service, too, a result is one the operator of the coordinator asked
\* for, and members with the coordinator's key signed it (SubmitSignRequest to
\* onSignResponse), whatever shares arrive between the envelopes of the rounds.
THEOREM ServiceResultsAreGood ==
  Spec /\ []EveryoneHasRoom => []Rounds!ResultsAreRequestedAndSigned
<1>1. RoundProofs!Node = Node /\ Rounds!Node = Node
  BY DEF RoundProofs!Node, Rounds!Node, Node
<1>2. CInv /\ RoundProofs!ResultsAreRequestedAndSigned => Rounds!ResultsAreRequestedAndSigned
  <2>1. \A x : RoundProofs!Cardinality(x) = Rounds!Cardinality(x)
    BY DEF RoundProofs!Cardinality, Rounds!Cardinality
  <2>2. QED
    BY <1>1, <2>1, ResultsMap
       DEF CInv, RoundProofs!ResultsAreRequestedAndSigned, Rounds!ResultsAreRequestedAndSigned
<1>3. QED
  BY <1>2, CInvIsInvariant, RunsAsRounds, RoundsAreProved, PTL

\* And a request has at most one result in it (Service.onSignResponse).
THEOREM ServiceOneResult ==
  Spec /\ []EveryoneHasRoom => []Rounds!OneResultPerRequest
<1>1. CInv /\ RoundProofs!OneResultPerRequest => Rounds!OneResultPerRequest
  BY ResultsMap DEF CInv, RoundProofs!OneResultPerRequest, Rounds!OneResultPerRequest
<1>2. QED
  BY <1>1, CInvIsInvariant, RunsAsRounds, RoundsAreProved, PTL

\* What is open is the same with the shares and without them.
LEMMA SameOpen ==
  /\ Rounds!Open = RoundProofs!Open
  /\ Rounds!Signatories = RoundProofs!Signatories
  /\ Rounds!Node = RoundProofs!Node
  /\ Rounds!Payload = RoundProofs!Payload
<1>1. Rounds!Node = RoundProofs!Node /\ Rounds!Member = RoundProofs!Member
  BY DEF Rounds!Node, RoundProofs!Node, Rounds!Member, RoundProofs!Member
<1>2. \A x : RoundProofs!Cardinality(x) = Rounds!Cardinality(x)
  BY DEF RoundProofs!Cardinality, Rounds!Cardinality
<1>3. QED
  BY <1>1, <1>2 DEF Rounds!Open, RoundProofs!Open, Rounds!Signatories,
     RoundProofs!Signatories, Rounds!Payload, RoundProofs!Payload

LEMMA SameRoundSteps ==
  ASSUME RoundProofs!Results = Rounds!Results, RoundProofs!Results' = Rounds!Results',
         RoundProofs!Open = Rounds!Open, RoundProofs!Open' = Rounds!Open',
         [RoundProofs!Round!Next]_RoundProofs!Round!vars
  PROVE  [Rounds!Round!Next]_Rounds!Round!vars
<1>1. \A n, x : RoundProofs!Round!Store(n, x) => Rounds!Round!Store(n, x)
  BY DEF RoundProofs!Round!Store, Rounds!Round!Store
<1>2. \A n : RoundProofs!Round!End(n) => Rounds!Round!End(n)
  BY DEF RoundProofs!Round!End, Rounds!Round!End, RoundProofs!Round!Nothing, Rounds!Round!Nothing
<1>3. \A s, m : RoundProofs!Round!Ask(s, m) => Rounds!Round!Ask(s, m)
  BY DEF RoundProofs!Round!Ask, Rounds!Round!Ask
<1>4. \A r : RoundProofs!Round!Sign(r) => Rounds!Round!Sign(r)
  BY SameOpen DEF RoundProofs!Round!Sign, Rounds!Round!Sign,
     RoundProofs!Round!SignedBy, Rounds!Round!SignedBy
<1>5. \A r : RoundProofs!Round!GiveUp(r) => Rounds!Round!GiveUp(r)
  BY DEF RoundProofs!Round!GiveUp, Rounds!Round!GiveUp
<1>6. RoundProofs!Round!Lose => Rounds!Round!Lose
  BY DEF RoundProofs!Round!Lose, Rounds!Round!Lose
<1>7. QED
  BY <1>1, <1>2, <1>3, <1>4, <1>5, <1>6, SameOpen
     DEF RoundProofs!Round!Next, Rounds!Round!Next, RoundProofs!Round!vars, Rounds!Round!vars

\* And the service, shares and all, does what SigningRound promises of a signing
\* round (SubmitSignRequest to onAggResult).
THEOREM ServiceImplementsRound ==
  Spec /\ []EveryoneHasRoom => Rounds!ImplementsSigningRound
<1>1. RoundProofs!Spec => RoundProofs!Round!Spec
  BY RoundProofs!RoundIsImplemented, RoundAssumptions, CommitteeAssumption,
     TransportAssumption DEF RoundProofs!ImplementsSigningRound
<1>2. CInv => RoundProofs!Results = Rounds!Results
  BY ResultsMap DEF CInv
<1>3. CInv /\ CInv' /\ [RoundProofs!Round!Next]_RoundProofs!Round!vars
        => [Rounds!Round!Next]_Rounds!Round!vars
  <2>1. (CInv => RoundProofs!Results = Rounds!Results)'
    BY <1>2, PTL
  <2>2. RoundProofs!Open = Rounds!Open
    BY SameOpen
  <2>3. (RoundProofs!Open = Rounds!Open)'
    BY <2>2, PTL
  <2>4. QED
    BY <1>2, <2>1, <2>2, <2>3, SameRoundSteps
<1>4. CInv /\ RoundProofs!Round!Init => Rounds!Round!Init
  BY <1>2, SameOpen
     DEF RoundProofs!Round!Init, Rounds!Round!Init, RoundProofs!Round!Nothing, Rounds!Round!Nothing
<1>5. Spec /\ []EveryoneHasRoom => Rounds!Round!Spec
  BY <1>1, <1>3, <1>4, CInvIsInvariant, RunsAsRounds, PTL
     DEF RoundProofs!Round!Spec, Rounds!Round!Spec
<1>6. QED
  BY <1>5 DEF Rounds!ImplementsSigningRound

\* And a coordinator with nothing left to handle has stored the result of the latest
\* request of every aggregated session (Service.storeAggregateResult).
THEOREM ServiceQuietCoordinator ==
  Spec /\ []EveryoneHasRoom => []Rounds!QuietCoordinatorIsCurrent
<1>1. CInv /\ RoundProofs!QuietCoordinatorIsCurrent => Rounds!QuietCoordinatorIsCurrent
  BY InboundMaps, CommitteeAssumption
     DEF CInv, RoundProofs!QuietCoordinatorIsCurrent, Rounds!QuietCoordinatorIsCurrent
<1>2. RoundProofs!Spec /\ [](RoundProofs!HasRoom(Coordinator))
        => []RoundProofs!QuietCoordinatorIsCurrent
  BY RoundProofs!QuietCoordinator, RoundAssumptions, CommitteeAssumption, TransportAssumption
<1>3. CInv /\ EveryoneHasRoom => RoundProofs!HasRoom(Coordinator)
  BY RoundsHaveRoom, CommitteeAssumption DEF CInv, EveryoneHasRoom
<1>4. QED
  BY <1>1, <1>2, <1>3, CInvIsInvariant, RunsAsRounds, PTL

------------------------------------------------------------------------------
(***************************************************************************)
(* The members that were ready when a request was submitted.               *)
(***************************************************************************)
\* A node that was ready when a request was submitted stays so while it runs.
SubmissionsOK ==
  /\ requests \in Seq([sid : Session, message : Message])
  /\ readyThen \in Seq(SUBSET Node)
  /\ Len(readyThen) = Len(requests)
  /\ \A r \in DOMAIN requests : \A n \in readyThen[r] : up[n] => dkgReady[n]

\* The coordinator waits for nobody else's answer in vain.
AnswersOK ==
  \A r \in DOMAIN requests : \A n \in readyThen[r] \cap Rounds!Member :
    (up[n] /\ up[Coordinator] /\ RoundProofs!Expected(r, n))
      => RoundProofs!Underway(r, n) \/ RoundProofs!Settled(r, n)

LEMMA InitEstablishesSubmissions == Init => SubmissionsOK /\ AnswersOK
  BY DEF Init, Rounds!Init, SubmissionsOK, AnswersOK

\* What a step does to the submissions and to who is ready.
LEMMA SubmissionsGrow ==
  ASSUME CInv, SubmissionsOK, [Next]_vars
  PROVE  \/ UNCHANGED <<requests, readyThen>>
         \/ /\ UNCHANGED <<up, dkgReady>>
            /\ readyThen' = Append(readyThen, {n \in Node : dkgReady[n]})
            /\ \E s \in Session, m \in Message :
                 requests' = Append(requests, [sid |-> s, message |-> m])
<1>1. ASSUME NEW s \in Session, NEW m \in Submitted, Submit(s, m)
      PROVE  /\ UNCHANGED <<up, dkgReady>>
             /\ readyThen' = Append(readyThen, {n \in Node : dkgReady[n]})
             /\ m \in Message
             /\ requests' = Append(requests, [sid |-> s, message |-> m])
  BY <1>1, CommitteeAssumption
     DEF Submit, keyGenVars, Rounds!SubmitSignRequest, Rounds!transportVars
<1>2. CASE ~\E s \in Session, m \in Submitted : Submit(s, m)
  <2>1. UNCHANGED readyThen
    BY <1>2 DEF Next, PublishRequest, Deal, TakeShare, FinishKeyGen, HandleRound, Crash,
       Transfer, vars
  <2>2. ASSUME NEW n \in Node, HandleRound(n)
        PROVE  UNCHANGED requests
    BY <2>2 DEF HandleRound, Rounds!MainLoop, Rounds!OnSignRequest, Rounds!QueueRequest,
       Rounds!RespondToRequest, Rounds!OnSignResponse, Rounds!Aggregate,
       Rounds!StoreResult, Rounds!BroadcastResult, Rounds!OnAggResult, Rounds!roundVars
  <2>3. UNCHANGED requests
    BY <1>2, <2>2 DEF Next, PublishRequest, Deal, TakeShare, FinishKeyGen, Crash,
       Transfer, vars, roundVars, Rounds!PublishSignRequest, Rounds!Crash
  <2>4. QED
    BY <2>1, <2>3
<1>3. QED
  BY <1>1, <1>2

LEMMA ReadyStays ==
  ASSUME CInv, RoundProofs!IInv, EveryoneHasRoom, [Next]_vars,
         NEW n \in Node, up'[n]
  PROVE  up[n] /\ (dkgReady[n] => dkgReady'[n])
<1>1. [RoundProofs!Next]_RoundProofs!vars
  BY StepMaps, SameRounds
<1>2. up[n]
  BY <1>1, RoundProofs!RequestsGrow, RoundAssumptions, CommitteeAssumption,
     TransportAssumption DEF RoundProofs!Node, Node
<1>3. dkgReady \in [Node -> BOOLEAN]
  BY DEF CInv, KeysOK
<1>4. ASSUME NEW p \in Node, FinishKeyGen(p)
      PROVE  dkgReady[n] => dkgReady'[n]
  BY <1>3, <1>4 DEF FinishKeyGen, KeyGen!MarkReady
<1>5. ASSUME NEW p \in Node, Crash(p)
      PROVE  dkgReady[n] => dkgReady'[n]
  <2>1. up \in [Node -> BOOLEAN]
    BY DEF CInv, ChannelsOK, ChannelsCarry
  <2>2. p # n
    BY <1>5, <2>1 DEF Crash, KeyGen!Crash, KeyGen!StopProcess
  <2>3. QED
    BY <1>3, <1>5, <2>2 DEF Crash, KeyGen!Crash
<1>6. ASSUME NEW p \in Node, TakeShare(p)
      PROVE  UNCHANGED dkgReady
  BY <1>6, TakeShareIs
<1>7. ASSUME NEW p \in Node, Deal(p)
      PROVE  UNCHANGED dkgReady
  BY <1>7 DEF Deal, KeyGen!BroadcastDealerShare
<1>8. QED
  BY <1>2, <1>4, <1>5, <1>6, <1>7
     DEF Next, Submit, PublishRequest, HandleRound, Transfer, keyGenVars, vars

LEMMA NextKeepsSubmissions ==
  ASSUME CInv, RoundProofs!IInv, EveryoneHasRoom, SubmissionsOK, [Next]_vars
  PROVE  SubmissionsOK'
<1>1. PICK R : R = [sid : Session, message : Message] /\ requests \in Seq(R)
  BY DEF SubmissionsOK
<1>2. PICK k \in Nat : k = Len(requests) /\ k = Len(readyThen)
  BY <1>1 DEF SubmissionsOK
<1>3. CASE UNCHANGED <<requests, readyThen>>
  <2>1. \A r \in DOMAIN requests : readyThen[r] \subseteq Node
    BY <1>1, <1>2 DEF SubmissionsOK
  <2>2. \A r \in DOMAIN requests : \A n \in readyThen[r] : up'[n] => dkgReady'[n]
    BY <2>1, ReadyStays DEF SubmissionsOK
  <2>3. QED
    BY <1>3, <2>2 DEF SubmissionsOK
<1>4. ASSUME NEW s \in Session, NEW m \in Message,
             requests' = Append(requests, [sid |-> s, message |-> m]),
             readyThen' = Append(readyThen, {n \in Node : dkgReady[n]}),
             UNCHANGED <<up, dkgReady>>
      PROVE  SubmissionsOK'
  <2>1. PICK a, T : /\ a = [sid |-> s, message |-> m] /\ a \in R
                   /\ T = {n \in Node : dkgReady[n]} /\ T \in SUBSET Node
    BY <1>1
  <2>2. /\ requests' \in Seq(R) /\ Len(requests') = k + 1
        /\ DOMAIN requests' = 1 .. k + 1
    <3>1. requests \in Seq(R) /\ a \in R /\ requests' = Append(requests, a)
      BY <1>1, <1>4, <2>1
    <3>2. PICK q : q = requests
      OBVIOUS
    <3>3. q \in Seq(R) /\ Len(q) = k
      BY <1>2, <3>1, <3>2
    <3>4. Append(q, a) \in Seq(R) /\ Len(Append(q, a)) = k + 1
      BY <3>1, <3>3
    <3>5. QED
      BY <3>1, <3>2, <3>4
  <2>3. /\ readyThen' \in Seq(SUBSET Node) /\ Len(readyThen') = k + 1
        /\ readyThen'[k + 1] = T
        /\ \A r \in 1 .. k : readyThen'[r] = readyThen[r]
    BY <1>2, <1>4, <2>1 DEF SubmissionsOK
  <2>4. \A r \in 1 .. k : \A n \in readyThen[r] : up[n] => dkgReady[n]
    BY <1>1, <1>2 DEF SubmissionsOK
  <2>5. \A r \in DOMAIN requests' : \A n \in readyThen'[r] : up'[n] => dkgReady'[n]
    BY <1>4, <2>1, <2>2, <2>3, <2>4
  <2>6. QED
    BY <1>1, <2>2, <2>3, <2>5 DEF SubmissionsOK
<1>5. QED
  BY <1>3, <1>4, SubmissionsGrow

\* A member that was ready at the submission is one that answers.
LEMMA NextKeepsAnswers ==
  ASSUME ~Lossy, CInv, RoundProofs!IInv, RoundProofs!StemInv, EveryoneHasRoom,
         SubmissionsOK, AnswersOK, [Next]_vars
  PROVE  AnswersOK'
<1>1. [RoundProofs!Next]_RoundProofs!vars
  BY StepMaps, SameRounds
<1>2. SUFFICES ASSUME NEW r \in DOMAIN requests', NEW n \in readyThen'[r] \cap Rounds!Member,
                      up'[n], up'[Coordinator], RoundProofs!Expected(r, n)'
               PROVE  (RoundProofs!Underway(r, n) \/ RoundProofs!Settled(r, n))'
  BY DEF AnswersOK
<1>3. PICK R, k : /\ requests \in Seq(R) /\ k \in Nat /\ k = Len(requests)
                  /\ k = Len(readyThen) /\ DOMAIN requests = 1 .. k
  <2>1. PICK R : requests \in Seq(R)
    BY DEF SubmissionsOK
  <2>2. PICK k : k = Len(requests)
    OBVIOUS
  <2>3. k \in Nat /\ DOMAIN requests = 1 .. k
    BY <2>1, <2>2
  <2>4. k = Len(readyThen)
    BY <2>2 DEF SubmissionsOK
  <2>5. QED
    BY <2>1, <2>2, <2>3, <2>4
<1>4. \/ r \in DOMAIN requests /\ n \in readyThen[r]
      \/ r \notin DOMAIN requests /\ n \in Node /\ dkgReady[n]
  <2>1. CASE UNCHANGED <<requests, readyThen>>
    BY <2>1
  <2>2. ASSUME readyThen' = Append(readyThen, {p \in Node : dkgReady[p]}),
               NEW s, NEW m, requests' = Append(requests, [sid |-> s, message |-> m])
        PROVE  \/ r \in DOMAIN requests /\ n \in readyThen[r]
               \/ r \notin DOMAIN requests /\ n \in Node /\ dkgReady[n]
    <3>1. PICK T : T = {p \in Node : dkgReady[p]} /\ T \in SUBSET Node
      OBVIOUS
    <3>2. DOMAIN requests' = 1 .. k + 1
      <4>1. PICK a, Q : a = [sid |-> s, message |-> m] /\ Q = R \cup {a}
        OBVIOUS
      <4>2. requests \in Seq(Q) /\ a \in Q
        BY <1>3, <4>1
      <4>3. QED
        BY <1>3, <2>2, <4>1, <4>2
    <3>3. /\ readyThen'[k + 1] = T
          /\ \A i \in 1 .. k : readyThen'[i] = readyThen[i]
      BY <1>3, <2>2, <3>1 DEF SubmissionsOK
    <3>4. QED
      BY <1>3, <3>1, <3>2, <3>3
  <2>3. QED
    BY <2>1, <2>2, SubmissionsGrow
<1>5. n \in Node
  BY <1>3, <1>4 DEF SubmissionsOK
<1>6. up[n] /\ up[Coordinator]
  BY <1>2, <1>5, ReadyStays, CommitteeAssumption
<1>7. dkgReady[n]
  BY <1>4, <1>6 DEF SubmissionsOK
<1>8. RoundProofs!CanAnswer(n)
  <2>1. committeePubKey[n] = FirstKey
    BY <1>5, <1>7 DEF CInv, KeysOK
  <2>2. key[n] # 0
    BY <1>5, <2>1, KeyIs DEF CInv
  <2>3. RoundProofs!Node = Node /\ RoundProofs!Member = Rounds!Member /\ RoundProofs!NoKey = 0
    BY DEF RoundProofs!Node, Node, RoundProofs!Member, Rounds!Member, RoundProofs!NoKey
  <2>4. QED
    BY <1>2, <1>5, <1>6, <1>7, <2>2, <2>3 DEF RoundProofs!CanAnswer
<1>9. RoundProofs!Expected(r, n) => RoundProofs!Underway(r, n) \/ RoundProofs!Settled(r, n)
  <2>1. CASE r \in DOMAIN requests /\ n \in readyThen[r]
    BY <1>2, <1>6, <2>1 DEF AnswersOK
  <2>2. CASE r \notin DOMAIN requests
    BY <2>2 DEF RoundProofs!Expected
  <2>3. QED
    BY <1>4, <2>1, <2>2
<1>10. RoundProofs!HasRoom(n) /\ RoundProofs!HasRoom(Coordinator) /\ RoundProofs!Reliable
  BY <1>5, RoundsHaveRoom, CommitteeAssumption DEF CInv, EveryoneHasRoom, RoundProofs!Reliable
<1>11. QED
  BY <1>1, <1>2, <1>8, <1>9, <1>10, RoundProofs!KeptStays, RoundAssumptions,
     CommitteeAssumption, TransportAssumption

LEMMA NextKeepsRoundStem ==
  ASSUME CInv, RoundProofs!IInv, RoundProofs!IInv', RoundProofs!StemInv, EveryoneHasRoom,
         [Next]_vars
  PROVE  RoundProofs!StemInv'
<1>1. [RoundProofs!Next]_RoundProofs!vars
  BY StepMaps, SameRounds
<1>2. QED
  BY <1>1, RoundProofs!NextKeepsStem, RoundAssumptions, CommitteeAssumption,
     TransportAssumption

LEMMA AnswersMeanNoneMissed ==
  ASSUME CInv, SubmissionsOK, AnswersOK
  PROVE  OnlyUnreadyMembersMissRequests
<1>1. SUFFICES ASSUME NEW r \in DOMAIN requests, NEW n \in readyThen[r] \cap Rounds!Member,
                      up[n], up[Coordinator], ~Rounds!Superseded(r)
               PROVE  \/ Rounds!Underway(r, n)
                      \/ sessions[requests[r].sid].aggregated
                      \/ n \in Rounds!Responders(sessions[requests[r].sid])
  BY DEF OnlyUnreadyMembersMissRequests
<1>2. requests[r].message # None /\ n \in Node
  <2>1. PICK R : R = [sid : Session, message : Message] /\ requests \in Seq(R)
    BY DEF SubmissionsOK
  <2>2. requests[r] \in R
    <3>1. \A S : requests \in Seq(S) => requests[r] \in S
      OBVIOUS
    <3>2. QED
      BY <2>1, <3>1
  <2>3. requests[r].message \in Message
    BY <2>1, <2>2
  <2>4. DOMAIN requests = DOMAIN readyThen
    BY <2>1 DEF SubmissionsOK
  <2>5. readyThen[r] \subseteq Node
    BY <2>4 DEF SubmissionsOK
  <2>6. QED
    BY <1>1, <2>3, <2>5, CommitteeAssumption
<1>3. RoundProofs!Expected(r, n)
  BY <1>1, <1>2 DEF RoundProofs!Expected, RoundProofs!Superseded, Rounds!Superseded
<1>4. RoundProofs!Underway(r, n) \/ RoundProofs!Settled(r, n)
  BY <1>1, <1>3 DEF AnswersOK
<1>5. \A a : RoundProofs!Responders(a) = Rounds!Responders(a)
  BY DEF RoundProofs!Responders, Rounds!Responders, RoundProofs!Member, Rounds!Member
<1>6. QED
  BY <1>2, <1>4, <1>5, UnderwayMaps DEF CInv, RoundProofs!Settled

\* A request is lost only to nodes that were not ready when it was submitted
\* (SubmitSignRequest, onSignRequest, finalizeDKG): a member that was answers it, for
\* every committee, whatever the order in which shares and requests reach the nodes
\* and whoever crashes, as long as frames are not lost and no channel overflows.
THEOREM NoReadyMemberMissesRequests ==
  ASSUME ~Lossy
  PROVE  Spec /\ []EveryoneHasRoom => []OnlyUnreadyMembersMissRequests
<1>1. Init => RoundProofs!StemInv /\ SubmissionsOK /\ AnswersOK
  <2>1. RoundProofs!Init => RoundProofs!StemInv
    BY RoundProofs!InitEstablishesStem, RoundAssumptions, CommitteeAssumption,
       TransportAssumption
  <2>2. QED
    BY <2>1, InitIsSigning, SameRounds, InitEstablishesSubmissions
<1>2. /\ CInv /\ RoundProofs!IInv /\ RoundProofs!IInv' /\ EveryoneHasRoom
      /\ RoundProofs!StemInv /\ SubmissionsOK /\ AnswersOK /\ [Next]_vars
      => RoundProofs!StemInv' /\ SubmissionsOK' /\ AnswersOK'
  BY NextKeepsRoundStem, NextKeepsSubmissions, NextKeepsAnswers
<1>3. CInv /\ SubmissionsOK /\ AnswersOK => OnlyUnreadyMembersMissRequests
  BY AnswersMeanNoneMissed
<1>4. RoundProofs!Spec => []RoundProofs!IInv
  BY RoundsAreProved
<1>5. QED
  BY <1>1, <1>2, <1>3, <1>4, CInvIsInvariant, RunsAsRounds, PTL DEF Spec

------------------------------------------------------------------------------
(***************************************************************************)
(* What the service has done when it comes to rest.                        *)
(***************************************************************************)
\* At rest nothing is on its way to a running node, and none has anything to do.
LEMMA RestIsQuiet ==
  ASSUME CInv, AtRest, NEW n \in Node, up[n]
  PROVE  loop[n] = None /\ Rounds!Inbound(n) = {}
<1>1. inCh[n] = <<>> /\ loop[n] = None /\ net = {}
  BY DEF AtRest
<1>2. DOMAIN inCh[n] = {}
  BY <1>1
<1>3. QED
  BY <1>1, <1>2 DEF Rounds!Inbound

\* So no answer is underway: nothing waits for an operator, who never switches
\* auto-sign off here.
LEMMA RestHasNoAnswers ==
  ASSUME CInv, RoundProofs!NothingByHand, AtRest, NEW n \in Node, up[n], up[Coordinator],
         NEW r
  PROVE  ~Rounds!Underway(r, n)
<1>1. loop[n] = None /\ Rounds!Inbound(n) = {} /\ Rounds!Inbound(Coordinator) = {}
  BY RestIsQuiet, CommitteeAssumption
<1>2. signing[n] = {} /\ \A s \in Session : pending[n][s] = None
  BY DEF RoundProofs!NothingByHand, RoundProofs!Node, Node
<1>3. submitting = {}
  BY DEF AtRest
<1>4. QED
  BY <1>1, <1>2, <1>3 DEF Rounds!Underway

\* A threshold of members that answered makes a session one with enough responses.
LEMMA EnoughHaveAnswered ==
  ASSUME NEW session, NEW members \in SUBSET RoundProofs!Responders(session),
         Cardinality(members) >= Threshold
  PROVE  RoundProofs!Enough(session)
<1> DEFINE responders == RoundProofs!Responders(session)
<1>1. IsFiniteSet(responders)
  <2>1. IsFiniteSet(0 .. CommitteeSize - 1)
    BY FS_Interval, CommitteeAssumption
  <2>2. responders \subseteq 0 .. CommitteeSize - 1
    BY DEF RoundProofs!Responders, RoundProofs!Member
  <2>3. QED
    BY <2>1, <2>2, FS_Subset
<1>2. /\ Cardinality(members) <= Cardinality(responders)
      /\ Cardinality(members) \in Nat /\ Cardinality(responders) \in Nat
  BY <1>1, FS_Subset, FS_CardinalityType
<1>3. \A x : RoundProofs!Cardinality(x) = Cardinality(x)
  BY DEF RoundProofs!Cardinality, Cardinality
<1>4. QED
  BY <1>2, <1>3, CommitteeAssumption DEF RoundProofs!Enough

LEMMA RestMeansSigned ==
  ASSUME CInv, SubmissionsOK, RoundProofs!StemInv, RoundProofs!ConcludesInv,
         RoundProofs!NothingByHand, OnlyUnreadyMembersMissRequests,
         Rounds!ResultsAreRequestedAndSigned, Rounds!QuietCoordinatorIsCurrent
  PROVE  ReadyCommitteeHasSigned
<1> SUFFICES ASSUME AtRest, NEW r \in DOMAIN requests, EnoughWereReady(r),
                    up[Coordinator], ~Rounds!Superseded(r)
             PROVE  Rounds!KnownEverywhere(r)
  BY DEF ReadyCommitteeHasSigned
<1>1. PICK s : s = requests[r].sid
  OBVIOUS
<1>2. s \in Session /\ readyThen[r] \subseteq Node
  <2>1. PICK R : R = [sid : Session, message : Message] /\ requests \in Seq(R)
    BY DEF SubmissionsOK
  <2>2. \A S : requests \in Seq(S) => requests[r] \in S
    OBVIOUS
  <2>3. requests[r] \in R
    BY <2>1, <2>2
  <2>4. DOMAIN requests = DOMAIN readyThen
    BY <2>1 DEF SubmissionsOK
  <2>5. QED
    BY <1>1, <2>1, <2>3, <2>4 DEF SubmissionsOK
<1>3. sessions[s] # None /\ sessions[s].request = r
  <2>1. ~RoundProofs!Superseded(r)
    BY DEF RoundProofs!Superseded, Rounds!Superseded
  <2>2. QED
    BY <1>1, <2>1 DEF RoundProofs!StemInv, RoundProofs!SessionsCurrent
<1>4. /\ loop[Coordinator] = None /\ Rounds!Inbound(Coordinator) = {}
      /\ Coordinator \in Node
  BY RestIsQuiet, CommitteeAssumption
<1>5. sessions[s].aggregated
  <2> SUFFICES ASSUME ~sessions[s].aggregated PROVE FALSE
    OBVIOUS
  <2> DEFINE members == {n \in readyThen[r] \cap Rounds!Member : up[n]}
  <2>1. ASSUME NEW n \in members
        PROVE  n \in Rounds!Responders(sessions[s])
    <3>1. n \in Node /\ up[n] /\ n \in readyThen[r] \cap Rounds!Member
      BY <1>2
    <3>2. ~Rounds!Underway(r, n)
      BY <3>1, RestHasNoAnswers
    <3>3. QED
      BY <1>1, <3>1, <3>2 DEF OnlyUnreadyMembersMissRequests
  <2>2. members \subseteq RoundProofs!Responders(sessions[s])
    BY <2>1 DEF RoundProofs!Responders, Rounds!Responders, RoundProofs!Member, Rounds!Member
  <2>3. RoundProofs!Enough(sessions[s])
    BY <2>2, EnoughHaveAnswered DEF EnoughWereReady
  <2>4. loop[Coordinator] # None
    BY <1>2, <1>3, <2>3
       DEF RoundProofs!ConcludesInv, RoundProofs!EnoughAreAggregated, RoundProofs!Waiting,
           RoundProofs!IsAggregating
  <2>5. QED
    BY <1>4, <2>4
<1>6. aggResults[Coordinator][s] # None /\ aggResults[Coordinator][s].request = r
  BY <1>2, <1>3, <1>4, <1>5 DEF Rounds!QuietCoordinatorIsCurrent
<1>7. aggResults[Coordinator][s].message = requests[r].message
  <2>1. aggResults[Coordinator][s] \in Rounds!Results
    BY <1>2, <1>4, <1>6 DEF Rounds!Results, Rounds!Node, Node
  <2>2. PICK x : x = aggResults[Coordinator][s] /\ x \in Rounds!Results
    BY <2>1
  <2>3. requests[r] = [sid |-> x.sid, message |-> x.message]
    BY <1>6, <2>2 DEF Rounds!ResultsAreRequestedAndSigned
  <2>4. QED
    BY <2>2, <2>3
<1>8. ASSUME NEW n \in Node, up[n]
      PROVE  aggResults[n][s] # None
  <2>1. RoundProofs!Informed(n, s)
    BY <1>2, <1>3, <1>5, <1>8
       DEF RoundProofs!ConcludesInv, RoundProofs!ResultsArrive, RoundProofs!Node, Node
  <2>2. ~RoundProofs!HasInHand(s)
    BY <1>4 DEF RoundProofs!HasInHand, RoundProofs!Concludes
  <2>3. RoundProofs!Inbound(n) = {}
    BY <1>8, RestIsQuiet, InboundMaps DEF CInv
  <2>4. QED
    BY <2>1, <2>2, <2>3 DEF RoundProofs!Informed
<1>9. QED
  BY <1>1, <1>6, <1>7, <1>8 DEF Rounds!KnownEverywhere, Rounds!Node, Node

\* The same of the steps, by what is proved of the rounds.
LEMMA NextKeepsConclusions ==
  ASSUME ~Lossy, CInv, RoundProofs!IInv, RoundProofs!StemInv, RoundProofs!ConcludesInv,
         RoundProofs!NothingByHand, EveryoneHasRoom, [Next]_vars
  PROVE  RoundProofs!ConcludesInv' /\ RoundProofs!NothingByHand'
<1>1. [RoundProofs!Next]_RoundProofs!vars
  BY StepMaps, SameRounds
<1>2. RoundProofs!OneCommitteeKey
  BY CommitteeAssumption DEF RoundProofs!OneCommitteeKey, RoundProofs!Node, Node, OneKey
<1>3. \A n \in RoundProofs!Node : RoundProofs!HasRoom(n)
  BY RoundsHaveRoom DEF CInv, EveryoneHasRoom, RoundProofs!Node, Node
<1>4. RoundProofs!ConcludesInv'
  BY <1>1, <1>2, <1>3, RoundProofs!NextKeepsConcludes, RoundAssumptions,
     CommitteeAssumption, TransportAssumption
<1>5. RoundProofs!NothingByHand'
  BY <1>1, RoundProofs!NextKeepsNothingByHand, RoundAssumptions, CommitteeAssumption,
     TransportAssumption DEF RoundProofs!StemInv
<1>6. QED
  BY <1>4, <1>5

\* When no goroutine has anything left to do, every running node has a result of each
\* request for which enough members were ready that still run, and which no later one
\* replaced, and the coordinator's is of that very message (SubmitSignRequest to
\* onAggResult): for every committee and any number of requests, as long as frames are
\* not lost and no channel overflows.
THEOREM RestingServiceHasSigned ==
  ASSUME ~Lossy
  PROVE  Spec /\ []EveryoneHasRoom => []ReadyCommitteeHasSigned
<1>1. Init => /\ RoundProofs!StemInv /\ RoundProofs!ConcludesInv
              /\ RoundProofs!NothingByHand /\ SubmissionsOK
  <2>1. RoundProofs!Init => /\ RoundProofs!StemInv /\ RoundProofs!ConcludesInv
                            /\ RoundProofs!NothingByHand
    BY RoundProofs!InitEstablishesStem, RoundProofs!InitEstablishesConcludes,
       RoundProofs!InitEstablishesNothingByHand, RoundAssumptions, CommitteeAssumption,
       TransportAssumption
  <2>2. QED
    BY <2>1, InitIsSigning, SameRounds, InitEstablishesSubmissions
<1>2. /\ CInv /\ RoundProofs!IInv /\ RoundProofs!IInv' /\ EveryoneHasRoom
      /\ RoundProofs!StemInv /\ RoundProofs!ConcludesInv /\ RoundProofs!NothingByHand
      /\ SubmissionsOK /\ [Next]_vars
      => /\ RoundProofs!StemInv' /\ RoundProofs!ConcludesInv'
         /\ RoundProofs!NothingByHand' /\ SubmissionsOK'
  BY NextKeepsRoundStem, NextKeepsSubmissions, NextKeepsConclusions
<1>3. /\ CInv /\ SubmissionsOK /\ RoundProofs!StemInv /\ RoundProofs!ConcludesInv
      /\ RoundProofs!NothingByHand /\ OnlyUnreadyMembersMissRequests
      /\ Rounds!ResultsAreRequestedAndSigned /\ Rounds!QuietCoordinatorIsCurrent
      => ReadyCommitteeHasSigned
  BY RestMeansSigned
<1>4. RoundProofs!Spec => []RoundProofs!IInv
  BY RoundsAreProved
<1>5. Spec /\ []EveryoneHasRoom => []OnlyUnreadyMembersMissRequests
  BY NoReadyMemberMissesRequests
<1>6. QED
  BY <1>1, <1>2, <1>3, <1>4, <1>5, CInvIsInvariant, RunsAsRounds, ServiceResultsAreGood,
     ServiceQuietCoordinator, PTL DEF Spec

================================================================================
