-------------------------- MODULE TurnStreamProofs --------------------------
(* Proofs about TurnStream, for any number of turns, tools, pieces of text,  *)
(* reasoning blocks and sessions: what a turn shows and saves is its own.    *)
EXTENDS TurnStream, SequenceTheorems, FiniteSetTheorems, WellFoundedInduction, TLAPS

----------------------------------------------------------------------------
(* Induction, recursive functions and folds.                                 *)

LEMMA NatMinimum ==
  ASSUME NEW T \in SUBSET Nat, T # {}
  PROVE  \E x \in T : \A y \in T : x <= y
  <1> DEFINE R == OpToRel(<, Nat)
  <1>1. IsWellFoundedOn(R, Nat)
    BY NatLessThanWellFounded
  <1>2. \A x, y \in Nat : y < x => <<y, x>> \in R
    BY DEF OpToRel
  <1> HIDE DEF R
  <1>3. PICK x \in T : \A y \in T : ~ (<<y, x>> \in R)
    BY <1>1, WFMin
  <1>4. ASSUME NEW y \in T PROVE x <= y
    <2>1. x \in Nat /\ y \in Nat
      OBVIOUS
    <2>2. ~ (y < x)
      BY <2>1, <1>2, <1>3
    <2> QED
      BY <2>1, <2>2
  <1> QED
    BY <1>4

\* Induction up to a number, over a set.
LEMMA UpTo ==
  ASSUME NEW n \in Nat, NEW T, 0 \in T, \A k \in 1 .. n : k - 1 \in T => k \in T
  PROVE  \A k \in 0 .. n : k \in T
  <1> DEFINE C == {k \in 0 .. n : k \notin T}
  <1>1. SUFFICES ASSUME C # {} PROVE FALSE
    OBVIOUS
  <1>2. C \in SUBSET Nat
    OBVIOUS
  <1>3. PICK m \in C : \A y \in C : m <= y
    BY <1>1, <1>2, NatMinimum
  <1>4. m \in 1 .. n /\ m - 1 \in 0 .. n /\ ~(m <= m - 1)
    BY <1>3
  <1>5. m - 1 \in T
    BY <1>3, <1>4
  <1> QED
    BY <1>3, <1>4, <1>5

\* A function defined by recursion up to a number exists.
Recurses(f, n, v, Step) == f[0] = v /\ \A k \in 1 .. n : f[k] = Step[<<f[k - 1], k>>]

LEMMA Recursion ==
  ASSUME NEW V, NEW n \in Nat, NEW v \in V, NEW Step \in [V \X (1 .. n) -> V]
  PROVE  \E f \in [0 .. n -> V] : Recurses(f, n, v, Step)
  <1> DEFINE Eq(f, k) == f[0] = v /\ \A i \in 1 .. k : f[i] = Step[<<f[i - 1], i>>]
             T == {k \in 0 .. n : \E f \in [0 .. k -> V] : Eq(f, k)}
  <1>1. 0 \in T
    <2> DEFINE g == [i \in 0 .. 0 |-> v]
    <2>1. g \in [0 .. 0 -> V] /\ Eq(g, 0)
      OBVIOUS
    <2> HIDE DEF g, Eq
    <2>2. \E f \in [0 .. 0 -> V] : Eq(f, 0)
      BY <2>1
    <2> QED
      BY <2>2
  <1>2. ASSUME NEW k \in 1 .. n, k - 1 \in T PROVE k \in T
    <2>1. PICK f \in [0 .. k - 1 -> V] : Eq(f, k - 1)
      BY <1>2
    <2>2. k - 1 \in 0 .. k - 1 /\ k \in 1 .. n /\ k \in Nat
      OBVIOUS
    <2>3. f[k - 1] \in V
      BY <2>1, <2>2
    <2>4. Step[<<f[k - 1], k>>] \in V
      BY <2>3
    <2> DEFINE g == [i \in 0 .. k |-> IF i < k THEN f[i] ELSE Step[<<f[k - 1], k>>]]
    <2>5. g \in [0 .. k -> V]
      <3>1. \A i \in 0 .. k : i < k => i \in 0 .. k - 1
        OBVIOUS
      <3> QED
        BY <2>1, <2>4, <3>1
    <2>6. Eq(g, k)
      <3>1. g[0] = v
        BY <2>1
      <3>2. ASSUME NEW i \in 1 .. k PROVE g[i] = Step[<<g[i - 1], i>>]
        <4>1. g[i - 1] = f[i - 1]
          OBVIOUS
        <4>2. CASE i < k
          <5>1. i \in 1 .. k - 1 /\ g[i] = f[i]
            BY <4>2
          <5>2. f[i] = Step[<<f[i - 1], i>>]
            BY <5>1, <2>1
          <5> HIDE DEF g
          <5> QED
            BY <5>1, <5>2, <4>1
        <4>3. CASE i = k
          <5>1. g[k] = Step[<<f[k - 1], k>>]
            BY <2>2
          <5> HIDE DEF g
          <5> QED
            BY <5>1, <4>1, <4>3
        <4> QED
          BY <4>2, <4>3
      <3> QED
        BY <3>1, <3>2
    <2> HIDE DEF g, Eq
    <2>7. \E x \in [0 .. k -> V] : Eq(x, k)
      BY <2>5, <2>6
    <2>8. k \in 0 .. n
      OBVIOUS
    <2> QED
      BY <2>7, <2>8
  <1> HIDE DEF T
  <1>3. \A k \in 0 .. n : k \in T
    BY <1>1, <1>2, UpTo
  <1>4. n \in T
    BY <1>3
  <1> QED
    BY <1>4 DEF T, Recurses

\* The greatest of a set of numbers below a bound.
LEMMA MaxIs ==
  ASSUME NEW n \in Nat, NEW s \in SUBSET (1 .. n), s # {}
  PROVE  Max(s) \in s /\ \A y \in s : y <= Max(s)
  <1> DEFINE U == {u \in Nat : \A y \in s : y <= u}
  <1>1. n \in U
    OBVIOUS
  <1>2. PICK m \in U : \A y \in U : m <= y
    BY <1>1, NatMinimum
  <1>3. m \in s
    <2> SUFFICES ASSUME m \notin s PROVE FALSE
      OBVIOUS
    <2>1. PICK y \in s : TRUE
      OBVIOUS
    <2>2. m \in Nat /\ y <= m /\ y \in 1 .. n
      BY <1>2, <2>1
    <2>3. m - 1 \in Nat
      BY <2>2
    <2>4. \A z \in s : z <= m - 1
      <3> SUFFICES ASSUME NEW z \in s PROVE z <= m - 1
        OBVIOUS
      <3>1. z <= m /\ z # m /\ z \in 1 .. n
        BY <1>2
      <3> QED
        BY <3>1, <2>2
    <2>5. m - 1 \in U
      BY <2>3, <2>4
    <2> QED
      BY <2>5, <1>2, <2>2
  <1>4. \E x \in s : \A y \in s : x >= y
    <2>1. \A y \in s : m >= y
      BY <1>2
    <2> QED
      BY <1>3, <2>1
  <1>5. Max(s) = CHOOSE x \in s : \A y \in s : x >= y
    BY DEF Max
  <1> QED
    BY <1>4, <1>5

\* What FoldLeft computes, if the fold stays in V: a function on sets of places.
FoldsTo(f, n, v, Step) ==
  \A s \in SUBSET (1 .. n) : f[s] = IF s = {} THEN v ELSE Step[<<f[s \ {Max(s)}], Max(s)>>]

LEMMA FoldExists ==
  ASSUME NEW V, NEW n \in Nat, NEW v \in V, NEW Step \in [V \X (1 .. n) -> V]
  PROVE  \E f \in [SUBSET (1 .. n) -> V] : FoldsTo(f, n, v, Step)
  <1> DEFINE T == {k \in 0 .. n : \E f \in [SUBSET (1 .. k) -> V] : FoldsTo(f, k, v, Step)}
  <1>1. 0 \in T
    <2> DEFINE g == [s \in SUBSET (1 .. 0) |-> v]
    <2>1. g \in [SUBSET (1 .. 0) -> V] /\ \A s \in SUBSET (1 .. 0) : s = {} /\ g[s] = v
      OBVIOUS
    <2> HIDE DEF g
    <2>2. FoldsTo(g, 0, v, Step)
      BY <2>1 DEF FoldsTo
    <2>3. \E f \in [SUBSET (1 .. 0) -> V] : FoldsTo(f, 0, v, Step)
      BY <2>1, <2>2
    <2>4. 0 \in 0 .. n
      OBVIOUS
    <2> QED
      BY <2>3, <2>4
  <1>2. ASSUME NEW k \in 1 .. n, k - 1 \in T PROVE k \in T
    <2>1. PICK f \in [SUBSET (1 .. k - 1) -> V] : FoldsTo(f, k - 1, v, Step)
      BY <1>2
    <2>2. k \in Nat /\ k - 1 \in Nat /\ k \in 1 .. n
      OBVIOUS
    <2>3. ASSUME NEW s \in SUBSET (1 .. k)
          PROVE  /\ k \notin s => s \in SUBSET (1 .. k - 1)
                 /\ s \ {k} \in SUBSET (1 .. k - 1)
                 /\ k \in s => Max(s) = k
      <3>1. k \in s => Max(s) = k
        <4> SUFFICES ASSUME k \in s PROVE Max(s) = k
          OBVIOUS
        <4>1. Max(s) \in s /\ k <= Max(s)
          BY <2>2, MaxIs
        <4>2. Max(s) \in 1 .. k
          BY <4>1
        <4> HIDE DEF T
        <4> QED
          BY <4>1, <4>2, <2>2
      <3>2. \A y \in s : y # k => y \in 1 .. k - 1
        BY <2>2
      <3> QED
        BY <3>1, <3>2
    <2> DEFINE g == [s \in SUBSET (1 .. k) |-> IF k \in s THEN Step[<<f[s \ {k}], k>>] ELSE f[s]]
    <2>4. \A s \in SUBSET (1 .. k) : f[s \ {k}] \in V /\ Step[<<f[s \ {k}], k>>] \in V /\ (k \notin s => f[s] \in V)
      <3> SUFFICES ASSUME NEW s \in SUBSET (1 .. k)
                   PROVE f[s \ {k}] \in V /\ Step[<<f[s \ {k}], k>>] \in V /\ (k \notin s => f[s] \in V)
        OBVIOUS
      <3>1. f[s \ {k}] \in V
        BY <2>1, <2>3
      <3>2. Step[<<f[s \ {k}], k>>] \in V
        BY <3>1
      <3> QED
        BY <3>1, <3>2, <2>1, <2>3
    <2>5. g \in [SUBSET (1 .. k) -> V]
      BY <2>4
    <2>6. \A s \in SUBSET (1 .. k) : g[s] = IF s = {} THEN v ELSE Step[<<g[s \ {Max(s)}], Max(s)>>]
      <3> SUFFICES ASSUME NEW s \in SUBSET (1 .. k)
                   PROVE g[s] = IF s = {} THEN v ELSE Step[<<g[s \ {Max(s)}], Max(s)>>]
        OBVIOUS
      <3>1. CASE k \in s
        <4>1. Max(s) = k /\ s # {}
          BY <3>1, <2>3
        <4>2. g[s \ {k}] = f[s \ {k}]
          OBVIOUS
        <4>3. g[s] = Step[<<f[s \ {k}], k>>]
          BY <3>1
        <4> QED
          BY <4>1, <4>2, <4>3
      <3>2. CASE k \notin s
        <4>1. s \in SUBSET (1 .. k - 1) /\ g[s] = f[s]
          BY <3>2, <2>3
        <4>2. f[s] = IF s = {} THEN v ELSE Step[<<f[s \ {Max(s)}], Max(s)>>]
          BY <4>1, <2>1 DEF FoldsTo
        <4>3. s \ {Max(s)} \in SUBSET (1 .. k) /\ k \notin s \ {Max(s)}
          BY <3>2
        <4>4. g[s \ {Max(s)}] = f[s \ {Max(s)}]
          BY <4>3
        <4> QED
          BY <4>1, <4>2, <4>4
      <3> QED
        BY <3>1, <3>2
    <2> HIDE DEF g
    <2>7. FoldsTo(g, k, v, Step)
      BY <2>6 DEF FoldsTo
    <2>8. \E x \in [SUBSET (1 .. k) -> V] : FoldsTo(x, k, v, Step)
      BY <2>5, <2>7
    <2>9. k \in 0 .. n
      OBVIOUS
    <2> QED
      BY <2>8, <2>9
  <1> HIDE DEF T
  <1>3. \A k \in 0 .. n : k \in T
    BY <1>1, <1>2, UpTo
  <1>4. n \in T
    BY <1>3
  <1> QED
    BY <1>4 DEF T

LEMMA FlattenIsSeq ==
  ASSUME NEW S, NEW n \in Nat, NEW seqs \in [1 .. n -> Seq(S)]
  PROVE  FlattenSeq(seqs) \in Seq(S)
  <1> DEFINE Step == [x \in Seq(S) \X (1 .. n) |-> IF x[2] = 1 THEN seqs[x[2]] ELSE x[1] \o seqs[x[2]]]
             F == CHOOSE flatten : flatten = [i \in 1 .. n |-> IF i = 1 THEN seqs[i] ELSE flatten[i - 1] \o seqs[i]]
  <1>0. Len(seqs) = n /\ <<>> \in Seq(S)
    BY EmptySeq
  <1>1. Step \in [Seq(S) \X (1 .. n) -> Seq(S)]
    <2> SUFFICES ASSUME NEW x \in Seq(S), NEW k \in 1 .. n
                 PROVE (IF k = 1 THEN seqs[k] ELSE x \o seqs[k]) \in Seq(S)
      OBVIOUS
    <2>1. seqs[k] \in Seq(S)
      OBVIOUS
    <2>2. x \o seqs[k] \in Seq(S)
      BY <2>1, ConcatProperties
    <2> QED
      BY <2>1, <2>2
  <1>2. \A x \in Seq(S), k \in 1 .. n : Step[<<x, k>>] = IF k = 1 THEN seqs[k] ELSE x \o seqs[k]
    OBVIOUS
  <1> HIDE DEF Step
  <1>3. PICK f \in [0 .. n -> Seq(S)] : f[0] = <<>> /\ \A k \in 1 .. n : f[k] = Step[<<f[k - 1], k>>]
    <2> DEFINE v == <<>>  V == Seq(S)
    <2>1. v \in V /\ Step \in [V \X (1 .. n) -> V]
      BY <1>0, <1>1
    <2> HIDE DEF v, V
    <2>2. \E f \in [0 .. n -> V] : Recurses(f, n, v, Step)
      BY <2>1, Recursion
    <2> QED
      BY <2>2 DEF v, V, Recurses
  <1>4. \A k \in 1 .. n : f[k] = IF k = 1 THEN seqs[k] ELSE f[k - 1] \o seqs[k]
    <2> SUFFICES ASSUME NEW k \in 1 .. n PROVE f[k] = IF k = 1 THEN seqs[k] ELSE f[k - 1] \o seqs[k]
      OBVIOUS
    <2>1. f[k - 1] \in Seq(S)
      OBVIOUS
    <2> QED
      BY <2>1, <1>2, <1>3
  <1> DEFINE g == [i \in 1 .. n |-> f[i]]
  <1>5. g = [i \in 1 .. n |-> IF i = 1 THEN seqs[i] ELSE g[i - 1] \o seqs[i]]
    <2>1. \A i \in 1 .. n : i # 1 => g[i - 1] = f[i - 1]
      OBVIOUS
    <2> QED
      BY <2>1, <1>4
  <1>6. F = [i \in 1 .. n |-> IF i = 1 THEN seqs[i] ELSE F[i - 1] \o seqs[i]]
    <2> HIDE DEF g
    <2> QED
      BY <1>5
  <1>7. FlattenSeq(seqs) = IF n = 0 THEN seqs ELSE F[n]
    BY <1>0 DEF FlattenSeq
  <1> HIDE DEF F
  <1> DEFINE T == {k \in 0 .. n : k # 0 => F[k] \in Seq(S)}
  <1>8. 0 \in T
    OBVIOUS
  <1>9. ASSUME NEW k \in 1 .. n, k - 1 \in T PROVE k \in T
    <2>1. F[k] = IF k = 1 THEN seqs[k] ELSE F[k - 1] \o seqs[k]
      BY <1>6
    <2>2. seqs[k] \in Seq(S) /\ k \in 0 .. n
      OBVIOUS
    <2>3. CASE k = 1
      BY <2>1, <2>2, <2>3
    <2>4. CASE k # 1
      <3>1. F[k - 1] \in Seq(S)
        BY <1>9, <2>4
      <3>2. F[k - 1] \o seqs[k] \in Seq(S)
        BY <3>1, <2>2, ConcatProperties
      <3> QED
        BY <3>2, <2>1, <2>2, <2>4
    <2> QED
      BY <2>3, <2>4
  <1> HIDE DEF T
  <1>10. \A k \in 0 .. n : k \in T
    BY <1>8, <1>9, UpTo
  <1>11. CASE n = 0
    <2>1. seqs = <<>>
      BY <1>11
    <2> QED
      BY <2>1, <1>0, <1>7, <1>11
  <1>12. CASE n # 0
    <2>1. n \in T
      BY <1>10
    <2> QED
      BY <2>1, <1>7, <1>12 DEF T
  <1> QED
    BY <1>11, <1>12

LEMMA ChosenIsSeq ==
  ASSUME NEW S, NEW n \in Nat, NEW seq, DOMAIN seq = 1 .. n, Len(seq) = n, NEW places,
         \A i \in 1 .. n : i \in places => seq[i] \in S
  PROVE  Chosen(seq, places) \in Seq(S)
  <1> DEFINE G(x, k) == IF k \in places THEN Append(x, seq[k]) ELSE x
             Step == [x \in Seq(S) \X (1 .. n) |-> G(x[1], x[2])]
             F == CHOOSE chosen : chosen = [i \in 0 .. n |-> IF i = 0 THEN <<>> ELSE G(chosen[i - 1], i)]
  <1>0. <<>> \in Seq(S) /\ \A x \in Seq(S), k \in 1 .. n : G(x, k) \in Seq(S)
    <2>1. \A x \in Seq(S), k \in 1 .. n : k \in places => Append(x, seq[k]) \in Seq(S)
      BY AppendProperties
    <2> QED
      BY <2>1, EmptySeq
  <1>1. Step \in [Seq(S) \X (1 .. n) -> Seq(S)] /\ \A x \in Seq(S), k \in 1 .. n : Step[<<x, k>>] = G(x, k)
    <2> HIDE DEF G
    <2> QED
      BY <1>0
  <1>2. Chosen(seq, places) = F[n]
    BY DEF Chosen
  <1> HIDE DEF Step, G
  <1>3. PICK f \in [0 .. n -> Seq(S)] : f[0] = <<>> /\ \A k \in 1 .. n : f[k] = Step[<<f[k - 1], k>>]
    <2> DEFINE v == <<>>  V == Seq(S)
    <2>1. v \in V /\ Step \in [V \X (1 .. n) -> V]
      BY <1>0, <1>1
    <2> HIDE DEF v, V
    <2>2. \E f \in [0 .. n -> V] : Recurses(f, n, v, Step)
      BY <2>1, Recursion
    <2> QED
      BY <2>2 DEF v, V, Recurses
  <1>4. f = [i \in 0 .. n |-> IF i = 0 THEN <<>> ELSE G(f[i - 1], i)]
    <2> SUFFICES ASSUME NEW i \in 0 .. n PROVE f[i] = IF i = 0 THEN <<>> ELSE G(f[i - 1], i)
      OBVIOUS
    <2>1. CASE i = 0
      BY <2>1, <1>3
    <2>2. CASE i # 0
      <3>1. i \in 1 .. n /\ f[i - 1] \in Seq(S)
        BY <2>2
      <3> QED
        BY <3>1, <1>1, <1>3, <2>2
    <2> QED
      BY <2>1, <2>2
  <1>5. F = [i \in 0 .. n |-> IF i = 0 THEN <<>> ELSE G(F[i - 1], i)]
    BY <1>4
  <1> HIDE DEF F
  <1> DEFINE T == {k \in 0 .. n : F[k] \in Seq(S)}
  <1>6. 0 \in T
    BY <1>0, <1>5
  <1>7. ASSUME NEW k \in 1 .. n, k - 1 \in T PROVE k \in T
    <2>1. F[k - 1] \in Seq(S) /\ k \in 0 .. n
      BY <1>7
    <2>2. F[k] = G(F[k - 1], k)
      BY <1>5
    <2> QED
      BY <2>1, <2>2, <1>0
  <1> HIDE DEF T
  <1>8. \A k \in 0 .. n : k \in T
    BY <1>6, <1>7, UpTo
  <1>9. n \in T
    BY <1>8
  <1> QED
    BY <1>2, <1>9 DEF T

\* The fold over all the places of a sequence is reached one place at a time.
FoldsIn(F, V, n, v, Step) ==
  \A s \in SUBSET (1 .. n) :
    /\ s = {} => F[s] = v
    /\ s # {} /\ F[s \ {Max(s)}] \in V => F[s] = Step[<<F[s \ {Max(s)}], Max(s)>>]

LEMMA FoldEnds ==
  ASSUME NEW V, NEW n \in Nat, NEW v \in V, NEW Step \in [V \X (1 .. n) -> V], NEW F,
         FoldsIn(F, V, n, v, Step)
  PROVE  F[1 .. n] \in V
  <1> DEFINE T == {k \in 0 .. n : F[1 .. k] \in V}
  <1>1. 0 \in T
    <2> DEFINE s == 1 .. 0
    <2>1. s = {} /\ s \in SUBSET (1 .. n) /\ 0 \in 0 .. n
      OBVIOUS
    <2> HIDE DEF s
    <2>2. F[s] = v
      BY <2>1 DEF FoldsIn
    <2> QED
      BY <2>1, <2>2 DEF s
  <1>2. ASSUME NEW k \in 1 .. n, k - 1 \in T PROVE k \in T
    <2> DEFINE s == 1 .. k
    <2>1. s \in SUBSET (1 .. n) /\ s # {} /\ s \in SUBSET (1 .. k) /\ k \in s /\ k \in Nat
      OBVIOUS
    <2>2. Max(s) = k
      <3>1. Max(s) \in s /\ k <= Max(s)
        <4> HIDE DEF s
        <4> QED
          BY <2>1, MaxIs
      <3> QED
        BY <3>1
    <2>3. s \ {k} = 1 .. k - 1
      OBVIOUS
    <2>4. F[1 .. k - 1] \in V
      BY <1>2
    <2>5. F[s] = Step[<<F[1 .. k - 1], k>>]
      <3> HIDE DEF s
      <3> QED
        BY <2>1, <2>2, <2>3, <2>4 DEF FoldsIn
    <2>6. F[s] \in V /\ k \in 0 .. n
      BY <2>4, <2>5
    <2> QED
      BY <2>6
  <1> HIDE DEF T
  <1>3. \A k \in 0 .. n : k \in T
    BY <1>1, <1>2, UpTo
  <1>4. n \in T
    BY <1>3
  <1> QED
    BY <1>4 DEF T

LEMMA FoldWriteCall ==
  ASSUME NEW V, NEW n \in Nat, NEW seq, DOMAIN seq = 1 .. n, NEW v \in V,
         \A x \in V, k \in 1 .. n : WriteCall(x, seq[k]) \in V
  PROVE  FoldLeft(WriteCall, v, seq) \in V
  <1> DEFINE G(x, k) == WriteCall(x, seq[k])
             Step == [y \in V \X (1 .. n) |-> G(y[1], y[2])]
             F == CHOOSE iter : iter = [s \in SUBSET (1 .. n) |->
                                          IF s = {} THEN v ELSE G(iter[s \ {Max(s)}], Max(s))]
  <1>1. FoldLeft(WriteCall, v, seq) = F[1 .. n]
    BY DEF FoldLeft, MapThenFoldSet
  <1>2. \A x \in V, k \in 1 .. n : G(x, k) \in V
    OBVIOUS
  <1> HIDE DEF G
  <1>3. Step \in [V \X (1 .. n) -> V] /\ \A x \in V, k \in 1 .. n : Step[<<x, k>>] = G(x, k)
    BY <1>2
  <1> HIDE DEF Step
  <1>4. PICK f \in [SUBSET (1 .. n) -> V] : FoldsTo(f, n, v, Step)
    BY <1>3, FoldExists
  <1>5. \A s \in SUBSET (1 .. n) : s # {} => Max(s) \in 1 .. n /\ s \ {Max(s)} \in SUBSET (1 .. n)
    BY MaxIs
  <1>6. f = [s \in SUBSET (1 .. n) |-> IF s = {} THEN v ELSE G(f[s \ {Max(s)}], Max(s))]
    <2> SUFFICES ASSUME NEW s \in SUBSET (1 .. n)
                 PROVE f[s] = IF s = {} THEN v ELSE G(f[s \ {Max(s)}], Max(s))
      OBVIOUS
    <2>1. f[s] = IF s = {} THEN v ELSE Step[<<f[s \ {Max(s)}], Max(s)>>]
      BY <1>4 DEF FoldsTo
    <2> QED
      BY <2>1, <1>3, <1>5
  <1>7. F = [s \in SUBSET (1 .. n) |-> IF s = {} THEN v ELSE G(F[s \ {Max(s)}], Max(s))]
    BY <1>6
  <1> HIDE DEF F
  <1>8. FoldsIn(F, V, n, v, Step)
    BY <1>3, <1>5, <1>7 DEF FoldsIn
  <1>9. F[1 .. n] \in V
    BY <1>3, <1>8, FoldEnds
  <1> QED
    BY <1>1, <1>9

LEMMA FoldItemsDone ==
  ASSUME NEW V, NEW n \in Nat, NEW seq, DOMAIN seq = 1 .. n, NEW v \in V,
         \A x \in V, k \in 1 .. n : Write(x, "item.done", seq[k].id, 0, seq[k].text) \in V
  PROVE  FoldLeft(LAMBDA x, call : Write(x, "item.done", call.id, 0, call.text), v, seq) \in V
  <1> DEFINE G(x, k) == Write(x, "item.done", seq[k].id, 0, seq[k].text)
             Step == [y \in V \X (1 .. n) |-> G(y[1], y[2])]
             F == CHOOSE iter : iter = [s \in SUBSET (1 .. n) |->
                                          IF s = {} THEN v ELSE G(iter[s \ {Max(s)}], Max(s))]
  <1>1. FoldLeft(LAMBDA x, call : Write(x, "item.done", call.id, 0, call.text), v, seq) = F[1 .. n]
    BY DEF FoldLeft, MapThenFoldSet
  <1>2. \A x \in V, k \in 1 .. n : G(x, k) \in V
    OBVIOUS
  <1> HIDE DEF G
  <1>3. Step \in [V \X (1 .. n) -> V] /\ \A x \in V, k \in 1 .. n : Step[<<x, k>>] = G(x, k)
    BY <1>2
  <1> HIDE DEF Step
  <1>4. PICK f \in [SUBSET (1 .. n) -> V] : FoldsTo(f, n, v, Step)
    BY <1>3, FoldExists
  <1>5. \A s \in SUBSET (1 .. n) : s # {} => Max(s) \in 1 .. n /\ s \ {Max(s)} \in SUBSET (1 .. n)
    BY MaxIs
  <1>6. f = [s \in SUBSET (1 .. n) |-> IF s = {} THEN v ELSE G(f[s \ {Max(s)}], Max(s))]
    <2> SUFFICES ASSUME NEW s \in SUBSET (1 .. n)
                 PROVE f[s] = IF s = {} THEN v ELSE G(f[s \ {Max(s)}], Max(s))
      OBVIOUS
    <2>1. f[s] = IF s = {} THEN v ELSE Step[<<f[s \ {Max(s)}], Max(s)>>]
      BY <1>4 DEF FoldsTo
    <2> QED
      BY <2>1, <1>3, <1>5
  <1>7. F = [s \in SUBSET (1 .. n) |-> IF s = {} THEN v ELSE G(F[s \ {Max(s)}], Max(s))]
    BY <1>6
  <1> HIDE DEF F
  <1>8. FoldsIn(F, V, n, v, Step)
    BY <1>3, <1>5, <1>7 DEF FoldsIn
  <1>9. F[1 .. n] \in V
    BY <1>3, <1>8, FoldEnds
  <1> QED
    BY <1>1, <1>9

LEMMA FoldWriteWhole ==
  ASSUME NEW V, NEW n \in Nat, NEW seq, DOMAIN seq = 1 .. n, NEW v \in V,
         \A x \in V, k \in 1 .. n : WriteWhole(x, seq[k], <<>>) \in V
  PROVE  FoldLeft(LAMBDA x, item : WriteWhole(x, item, <<>>), v, seq) \in V
  <1> DEFINE G(x, k) == WriteWhole(x, seq[k], <<>>)
             Step == [y \in V \X (1 .. n) |-> G(y[1], y[2])]
             F == CHOOSE iter : iter = [s \in SUBSET (1 .. n) |->
                                          IF s = {} THEN v ELSE G(iter[s \ {Max(s)}], Max(s))]
  <1>1. FoldLeft(LAMBDA x, item : WriteWhole(x, item, <<>>), v, seq) = F[1 .. n]
    BY DEF FoldLeft, MapThenFoldSet
  <1>2. \A x \in V, k \in 1 .. n : G(x, k) \in V
    OBVIOUS
  <1> HIDE DEF G
  <1>3. Step \in [V \X (1 .. n) -> V] /\ \A x \in V, k \in 1 .. n : Step[<<x, k>>] = G(x, k)
    BY <1>2
  <1> HIDE DEF Step
  <1>4. PICK f \in [SUBSET (1 .. n) -> V] : FoldsTo(f, n, v, Step)
    BY <1>3, FoldExists
  <1>5. \A s \in SUBSET (1 .. n) : s # {} => Max(s) \in 1 .. n /\ s \ {Max(s)} \in SUBSET (1 .. n)
    BY MaxIs
  <1>6. f = [s \in SUBSET (1 .. n) |-> IF s = {} THEN v ELSE G(f[s \ {Max(s)}], Max(s))]
    <2> SUFFICES ASSUME NEW s \in SUBSET (1 .. n)
                 PROVE f[s] = IF s = {} THEN v ELSE G(f[s \ {Max(s)}], Max(s))
      OBVIOUS
    <2>1. f[s] = IF s = {} THEN v ELSE Step[<<f[s \ {Max(s)}], Max(s)>>]
      BY <1>4 DEF FoldsTo
    <2> QED
      BY <2>1, <1>3, <1>5
  <1>7. F = [s \in SUBSET (1 .. n) |-> IF s = {} THEN v ELSE G(F[s \ {Max(s)}], Max(s))]
    BY <1>6
  <1> HIDE DEF F
  <1>8. FoldsIn(F, V, n, v, Step)
    BY <1>3, <1>5, <1>7 DEF FoldsIn
  <1>9. F[1 .. n] \in V
    BY <1>3, <1>8, FoldEnds
  <1> QED
    BY <1>1, <1>9

LEMMA FoldTerminalDelta ==
  ASSUME NEW V, NEW n \in Nat, NEW seq, DOMAIN seq = 1 .. n, NEW v \in V,
         \A x \in V, k \in 1 .. n : TerminalDelta(x, seq[k]) \in V
  PROVE  FoldLeft(TerminalDelta, v, seq) \in V
  <1> DEFINE G(x, k) == TerminalDelta(x, seq[k])
             Step == [y \in V \X (1 .. n) |-> G(y[1], y[2])]
             F == CHOOSE iter : iter = [s \in SUBSET (1 .. n) |->
                                          IF s = {} THEN v ELSE G(iter[s \ {Max(s)}], Max(s))]
  <1>1. FoldLeft(TerminalDelta, v, seq) = F[1 .. n]
    BY DEF FoldLeft, MapThenFoldSet
  <1>2. \A x \in V, k \in 1 .. n : G(x, k) \in V
    OBVIOUS
  <1> HIDE DEF G
  <1>3. Step \in [V \X (1 .. n) -> V] /\ \A x \in V, k \in 1 .. n : Step[<<x, k>>] = G(x, k)
    BY <1>2
  <1> HIDE DEF Step
  <1>4. PICK f \in [SUBSET (1 .. n) -> V] : FoldsTo(f, n, v, Step)
    BY <1>3, FoldExists
  <1>5. \A s \in SUBSET (1 .. n) : s # {} => Max(s) \in 1 .. n /\ s \ {Max(s)} \in SUBSET (1 .. n)
    BY MaxIs
  <1>6. f = [s \in SUBSET (1 .. n) |-> IF s = {} THEN v ELSE G(f[s \ {Max(s)}], Max(s))]
    <2> SUFFICES ASSUME NEW s \in SUBSET (1 .. n)
                 PROVE f[s] = IF s = {} THEN v ELSE G(f[s \ {Max(s)}], Max(s))
      OBVIOUS
    <2>1. f[s] = IF s = {} THEN v ELSE Step[<<f[s \ {Max(s)}], Max(s)>>]
      BY <1>4 DEF FoldsTo
    <2> QED
      BY <2>1, <1>3, <1>5
  <1>7. F = [s \in SUBSET (1 .. n) |-> IF s = {} THEN v ELSE G(F[s \ {Max(s)}], Max(s))]
    BY <1>6
  <1> HIDE DEF F
  <1>8. FoldsIn(F, V, n, v, Step)
    BY <1>3, <1>5, <1>7 DEF FoldsIn
  <1>9. F[1 .. n] \in V
    BY <1>3, <1>8, FoldEnds
  <1> QED
    BY <1>1, <1>9

LEMMA FoldRead ==
  ASSUME NEW V, NEW n \in Nat, NEW seq, DOMAIN seq = 1 .. n, NEW v \in V,
         \A x \in V, k \in 1 .. n : Read(x, seq[k]) \in V
  PROVE  FoldLeft(Read, v, seq) \in V
  <1> DEFINE G(x, k) == Read(x, seq[k])
             Step == [y \in V \X (1 .. n) |-> G(y[1], y[2])]
             F == CHOOSE iter : iter = [s \in SUBSET (1 .. n) |->
                                          IF s = {} THEN v ELSE G(iter[s \ {Max(s)}], Max(s))]
  <1>1. FoldLeft(Read, v, seq) = F[1 .. n]
    BY DEF FoldLeft, MapThenFoldSet
  <1>2. \A x \in V, k \in 1 .. n : G(x, k) \in V
    OBVIOUS
  <1> HIDE DEF G
  <1>3. Step \in [V \X (1 .. n) -> V] /\ \A x \in V, k \in 1 .. n : Step[<<x, k>>] = G(x, k)
    BY <1>2
  <1> HIDE DEF Step
  <1>4. PICK f \in [SUBSET (1 .. n) -> V] : FoldsTo(f, n, v, Step)
    BY <1>3, FoldExists
  <1>5. \A s \in SUBSET (1 .. n) : s # {} => Max(s) \in 1 .. n /\ s \ {Max(s)} \in SUBSET (1 .. n)
    BY MaxIs
  <1>6. f = [s \in SUBSET (1 .. n) |-> IF s = {} THEN v ELSE G(f[s \ {Max(s)}], Max(s))]
    <2> SUFFICES ASSUME NEW s \in SUBSET (1 .. n)
                 PROVE f[s] = IF s = {} THEN v ELSE G(f[s \ {Max(s)}], Max(s))
      OBVIOUS
    <2>1. f[s] = IF s = {} THEN v ELSE Step[<<f[s \ {Max(s)}], Max(s)>>]
      BY <1>4 DEF FoldsTo
    <2> QED
      BY <2>1, <1>3, <1>5
  <1>7. F = [s \in SUBSET (1 .. n) |-> IF s = {} THEN v ELSE G(F[s \ {Max(s)}], Max(s))]
    BY <1>6
  <1> HIDE DEF F
  <1>8. FoldsIn(F, V, n, v, Step)
    BY <1>3, <1>5, <1>7 DEF FoldsIn
  <1>9. F[1 .. n] \in V
    BY <1>3, <1>8, FoldEnds
  <1> QED
    BY <1>1, <1>9

LEMMA FoldReadChunk ==
  ASSUME NEW V, NEW n \in Nat, NEW seq, DOMAIN seq = 1 .. n, NEW v \in V,
         \A x \in V, k \in 1 .. n : ReadChunk(x, seq[k]) \in V
  PROVE  FoldLeft(ReadChunk, v, seq) \in V
  <1> DEFINE G(x, k) == ReadChunk(x, seq[k])
             Step == [y \in V \X (1 .. n) |-> G(y[1], y[2])]
             F == CHOOSE iter : iter = [s \in SUBSET (1 .. n) |->
                                          IF s = {} THEN v ELSE G(iter[s \ {Max(s)}], Max(s))]
  <1>1. FoldLeft(ReadChunk, v, seq) = F[1 .. n]
    BY DEF FoldLeft, MapThenFoldSet
  <1>2. \A x \in V, k \in 1 .. n : G(x, k) \in V
    OBVIOUS
  <1> HIDE DEF G
  <1>3. Step \in [V \X (1 .. n) -> V] /\ \A x \in V, k \in 1 .. n : Step[<<x, k>>] = G(x, k)
    BY <1>2
  <1> HIDE DEF Step
  <1>4. PICK f \in [SUBSET (1 .. n) -> V] : FoldsTo(f, n, v, Step)
    BY <1>3, FoldExists
  <1>5. \A s \in SUBSET (1 .. n) : s # {} => Max(s) \in 1 .. n /\ s \ {Max(s)} \in SUBSET (1 .. n)
    BY MaxIs
  <1>6. f = [s \in SUBSET (1 .. n) |-> IF s = {} THEN v ELSE G(f[s \ {Max(s)}], Max(s))]
    <2> SUFFICES ASSUME NEW s \in SUBSET (1 .. n)
                 PROVE f[s] = IF s = {} THEN v ELSE G(f[s \ {Max(s)}], Max(s))
      OBVIOUS
    <2>1. f[s] = IF s = {} THEN v ELSE Step[<<f[s \ {Max(s)}], Max(s)>>]
      BY <1>4 DEF FoldsTo
    <2> QED
      BY <2>1, <1>3, <1>5
  <1>7. F = [s \in SUBSET (1 .. n) |-> IF s = {} THEN v ELSE G(F[s \ {Max(s)}], Max(s))]
    BY <1>6
  <1> HIDE DEF F
  <1>8. FoldsIn(F, V, n, v, Step)
    BY <1>3, <1>5, <1>7 DEF FoldsIn
  <1>9. F[1 .. n] \in V
    BY <1>3, <1>8, FoldEnds
  <1> QED
    BY <1>1, <1>9

LEMMA MinIs ==
  ASSUME NEW n \in Nat, NEW s \in SUBSET (1 .. n), s # {}
  PROVE  Min(s) \in s /\ \A y \in s : Min(s) <= y
  <1>1. s \in SUBSET Nat
    OBVIOUS
  <1>2. \E x \in s : \A y \in s : x <= y
    BY <1>1, NatMinimum
  <1> QED
    BY <1>2 DEF Min

----------------------------------------------------------------------------
(* What belongs to a turn: its pieces of text, its identifiers and items.    *)

Own(t)     == [turn : {t}, n : Nat, form : {"model", "encoded"}]
OwnText(t) == Seq(Own(t))

OwnIds(t) ==
  {<<"msg", t>>} \cup {<<"rs", t, k>> : k \in Nat}
  \cup {<<x, t, tool>> : x \in {"fc", "ctc", "tsc"}, tool \in Tools}

ItemTypes == {"reasoning", "message", "function_call", "custom_tool_call", "tool_search_call"}

OwnItem(t)   == [id : OwnIds(t), type : ItemTypes, text : OwnText(t), encrypted : BOOLEAN]
OwnOutput(t) == Seq(OwnItem(t))

OwnResponse(t) ==
  [status : {"none", "completed"}, output : OwnOutput(t), text : OwnText(t), reasoning : OwnText(t),
   calls : OwnOutput(t)]

OwnEvent(t) ==
  [kind : {"reasoning_delta", "delta", "tool_call_delta"}, id : OwnIds(t), text : OwnText(t)]
  \cup [kind : {"result"}, response : OwnResponse(t)] \cup [kind : {"error"}]

LEMMA OwnEmpty == ASSUME NEW t PROVE <<>> \in OwnText(t) /\ <<>> \in OwnOutput(t)
  BY EmptySeq DEF OwnText, OwnOutput

LEMMA OwnConcat ==
  ASSUME NEW t, NEW a \in OwnText(t), NEW b \in OwnText(t)
  PROVE  a \o b \in OwnText(t)
  BY ConcatProperties DEF OwnText

LEMMA OwnSuffix ==
  ASSUME NEW t, NEW a \in OwnText(t), NEW b \in OwnText(t)
  PROVE  TerminalStreamSuffix(a, b) \in OwnText(t) /\ ToolArgumentsSuffix(a, b) \in OwnText(t)
  <1>1. Len(a) \in Nat /\ Len(b) \in Nat /\ DOMAIN a = 1 .. Len(a)
    BY LenProperties DEF OwnText
  <1>2. \A i \in Len(b) + 1 .. Len(a) : a[i] \in Own(t)
    BY <1>1, ElementOfSeq DEF OwnText
  <1>3. SubSeq(a, Len(b) + 1, Len(a)) \in Seq(Own(t))
    BY <1>1, <1>2, SubSeqProperties DEF OwnText
  <1> QED
    BY <1>3, OwnEmpty DEF TerminalStreamSuffix, ToolArgumentsSuffix, OwnText

LEMMA OwnChosen ==
  ASSUME NEW S, NEW items \in Seq(S), NEW places
  PROVE  Chosen(items, places) \in Seq(S)
  <1>1. Len(items) \in Nat /\ DOMAIN items = 1 .. Len(items) /\ \A i \in 1 .. Len(items) : items[i] \in S
    BY LenProperties, ElementOfSeq
  <1> QED
    BY <1>1, ChosenIsSeq

LEMMA OwnWithId ==
  ASSUME NEW S, NEW items \in Seq(S), NEW id
  PROVE  WithId(items, id) \in Seq(S)
  <1>1. DOMAIN items = 1 .. Len(items) /\ \A i \in 1 .. Len(items) : items[i] \in S
    BY LenProperties, ElementOfSeq
  <1>2. CASE \E i \in DOMAIN items : items[i].id = id
    <2> DEFINE k == CHOOSE i \in DOMAIN items : items[i].id = id
    <2>1. k \in DOMAIN items
      BY <1>2
    <2> HIDE DEF k
    <2>2. <<items[k]>> \in Seq(S)
      BY <2>1, <1>1
    <2>3. WithId(items, id) = <<items[k]>>
      BY <1>2 DEF WithId, k
    <2> QED
      BY <2>2, <2>3
  <1>3. CASE ~ \E i \in DOMAIN items : items[i].id = id
    <2>1. WithId(items, id) = <<>>
      BY <1>3 DEF WithId
    <2> QED
      BY <2>1, EmptySeq
  <1> QED
    BY <1>2, <1>3

LEMMA OwnTextOf ==
  ASSUME NEW t, NEW items, NEW n \in Nat, DOMAIN items = 1 .. n, \A i \in 1 .. n : items[i].text \in OwnText(t)
  PROVE  TextOf(items) \in OwnText(t)
  <1> DEFINE texts == [i \in 1 .. n |-> items[i].text]
  <1>1. texts \in [1 .. n -> Seq(Own(t))]
    BY DEF OwnText
  <1>2. TextOf(items) = FlattenSeq(texts)
    BY DEF TextOf
  <1> HIDE DEF texts
  <1>3. FlattenSeq(texts) \in Seq(Own(t))
    BY <1>1, FlattenIsSeq
  <1> QED
    BY <1>2, <1>3 DEF OwnText

\* The text of what was found, in items that have more fields or fewer.
LEMMA OwnTextIn ==
  ASSUME NEW t, NEW S, NEW items \in Seq(S), \A x \in S : x.text \in OwnText(t)
  PROVE  TextOf(items) \in OwnText(t)
  <1>1. Len(items) \in Nat /\ DOMAIN items = 1 .. Len(items) /\ \A i \in 1 .. Len(items) : items[i] \in S
    BY LenProperties, ElementOfSeq
  <1>2. \A i \in 1 .. Len(items) : items[i].text \in OwnText(t)
    BY <1>1
  <1> QED
    BY <1>1, <1>2, OwnTextOf

----------------------------------------------------------------------------
(* The Responses encoder writes what belongs to its turn.                    *)

ItemEvents == {"item.added", "part.added", "delta", "text.done", "part.done", "arguments.delta",
               "arguments.done", "item.done"}

Frames(t) ==
  [event : ItemEvents, id : OwnIds(t), idx : Int, part : Nat, text : OwnText(t)]
  \cup [event : {"completed", "failed"}, output : OwnOutput(t)]

EncFields == {"hide", "max", "status", "why", "wire", "ids", "reasoningItemID", "reasoningStarted",
              "reasoningSummaryDone", "reasoningItemDone", "reasoningText", "messageID",
              "messageStarted", "messageDone", "messageText", "calls"}

EncOK(e, t) ==
  /\ DOMAIN e = EncFields /\ e = [f \in EncFields |-> e[f]]
  /\ e.wire \in Seq(Frames(t)) /\ e.ids \in Seq(OwnIds(t))
  /\ e.reasoningText \in OwnText(t) /\ e.messageText \in OwnText(t) /\ e.calls \in OwnOutput(t)
  /\ e.reasoningStarted \in BOOLEAN /\ e.messageStarted \in BOOLEAN
  /\ e.reasoningStarted => e.reasoningItemID \in OwnIds(t)
  /\ e.messageStarted => e.messageID \in OwnIds(t)

\* The encoder after it wrote something.
Moved(e, w, s) == [e EXCEPT !.wire = w, !.ids = s]

Ahead(e, t) == {Moved(e, p[1], p[2]) : p \in Seq(Frames(t)) \X Seq(OwnIds(t))}

LEMMA IndexIsInt ==
  ASSUME NEW S, NEW e, e.ids \in Seq(S), NEW id
  PROVE  IndexOf(e, id) \in Int
  <1> DEFINE I == {i \in 1 .. Len(e.ids) : e.ids[i] = id}
  <1>1. SelectInSeq(e.ids, LAMBDA x : x = id) = IF I # {} THEN Min(I) ELSE 0
    BY DEF SelectInSeq
  <1>2. Len(e.ids) \in Nat /\ I \in SUBSET (1 .. Len(e.ids))
    BY LenProperties
  <1> HIDE DEF I
  <1>3. I # {} => Min(I) \in 1 .. Len(e.ids)
    BY <1>2, MinIs
  <1> DEFINE k == SelectInSeq(e.ids, LAMBDA x : x = id)
  <1>4. k \in Nat
    BY <1>1, <1>2, <1>3
  <1>5. IndexOf(e, id) = k - 1
    BY DEF IndexOf
  <1> HIDE DEF k
  <1> QED
    BY <1>4, <1>5

LEMMA AheadMeans ==
  ASSUME NEW t, NEW e, NEW x
  PROVE  x \in Ahead(e, t) <=> \E w \in Seq(Frames(t)), s \in Seq(OwnIds(t)) : x = Moved(e, w, s)
  <1>1. ASSUME x \in Ahead(e, t) PROVE \E w \in Seq(Frames(t)), s \in Seq(OwnIds(t)) : x = Moved(e, w, s)
    <2>1. PICK p \in Seq(Frames(t)) \X Seq(OwnIds(t)) : x = Moved(e, p[1], p[2])
      BY <1>1 DEF Ahead
    <2>2. p[1] \in Seq(Frames(t)) /\ p[2] \in Seq(OwnIds(t))
      OBVIOUS
    <2> QED
      BY <2>1, <2>2
  <1>2. ASSUME NEW w \in Seq(Frames(t)), NEW s \in Seq(OwnIds(t)), x = Moved(e, w, s) PROVE x \in Ahead(e, t)
    <2>1. <<w, s>> \in Seq(Frames(t)) \X Seq(OwnIds(t)) /\ <<w, s>>[1] = w /\ <<w, s>>[2] = s
      OBVIOUS
    <2>2. \E p \in Seq(Frames(t)) \X Seq(OwnIds(t)) : x = Moved(e, p[1], p[2])
      BY <1>2, <2>1
    <2> QED
      BY <2>2 DEF Ahead
  <1> QED
    BY <1>1, <1>2

LEMMA AheadIs ==
  ASSUME NEW t, NEW e, EncOK(e, t), NEW x \in Ahead(e, t)
  PROVE  /\ EncOK(x, t)
         /\ \A f \in EncFields \ {"wire", "ids"} : x[f] = e[f]
         /\ \A y \in Ahead(x, t) : y \in Ahead(e, t)
  <1>1. PICK w \in Seq(Frames(t)), s \in Seq(OwnIds(t)) : x = Moved(e, w, s)
    BY AheadMeans
  <1>2. DOMAIN x = EncFields /\ x.wire = w /\ x.ids = s /\ x = [f \in EncFields |-> x[f]]
    BY <1>1 DEF Moved, EncOK, EncFields
  <1>3. \A f \in EncFields \ {"wire", "ids"} : x[f] = e[f]
    BY <1>1 DEF Moved, EncOK, EncFields
  <1>4. EncOK(x, t)
    <2>1. /\ x.reasoningText = e.reasoningText /\ x.messageText = e.messageText /\ x.calls = e.calls
          /\ x.reasoningStarted = e.reasoningStarted /\ x.messageStarted = e.messageStarted
          /\ x.reasoningItemID = e.reasoningItemID /\ x.messageID = e.messageID
      BY <1>3 DEF EncFields
    <2> QED
      BY <1>2, <2>1 DEF EncOK
  <1>5. ASSUME NEW y \in Ahead(x, t) PROVE y \in Ahead(e, t)
    <2>1. PICK v \in Seq(Frames(t)), u \in Seq(OwnIds(t)) : y = Moved(x, v, u)
      BY AheadMeans
    <2>2. y = Moved(e, v, u)
      BY <1>1, <2>1 DEF Moved, EncOK, EncFields
    <2> QED
      BY <2>2, AheadMeans
  <1> QED
    BY <1>3, <1>4, <1>5

LEMMA AheadSelf ==
  ASSUME NEW t, NEW e, EncOK(e, t)
  PROVE  e \in Ahead(e, t)
  <1>1. e = Moved(e, e.wire, e.ids)
    BY DEF Moved, EncOK, EncFields
  <1>2. e.wire \in Seq(Frames(t)) /\ e.ids \in Seq(OwnIds(t))
    BY DEF EncOK
  <1> QED
    BY <1>1, <1>2, AheadMeans

LEMMA WriteAhead ==
  ASSUME NEW t, NEW e, EncOK(e, t), NEW event \in ItemEvents, NEW id \in OwnIds(t), NEW part \in Nat,
         NEW text \in OwnText(t)
  PROVE  Write(e, event, id, part, text) \in Ahead(e, t)
  <1> DEFINE known == Indexed(e, id)
  <1>1. known = IF Contains(e.ids, id) THEN e ELSE [e EXCEPT !.ids = Append(@, id)]
    BY DEF Indexed
  <1>2. DOMAIN known = EncFields /\ known.wire = e.wire /\ known.ids \in Seq(OwnIds(t))
    <2>1. Append(e.ids, id) \in Seq(OwnIds(t))
      BY AppendProperties DEF EncOK
    <2> HIDE DEF known
    <2> QED
      BY <1>1, <2>1 DEF EncOK, EncFields
  <1>3. Written(event, id, IndexOf(known, id), part, text) \in Frames(t)
    <2>1. IndexOf(known, id) \in Int
      BY <1>2, IndexIsInt
    <2> HIDE DEF known
    <2> QED
      BY <2>1 DEF Written, Frames
  <1> DEFINE w == Append(e.wire, Written(event, id, IndexOf(known, id), part, text))
  <1>4. w \in Seq(Frames(t))
    BY <1>3, AppendProperties DEF EncOK
  <1>5. Write(e, event, id, part, text) = [known EXCEPT !.wire = Append(known.wire, Written(event, id, IndexOf(known, id), part, text))]
    BY DEF Write
  <1> HIDE DEF known
  <1>6. Write(e, event, id, part, text) = [known EXCEPT !.wire = w]
    BY <1>2, <1>5
  <1> HIDE DEF w
  <1>7. [known EXCEPT !.wire = w] = Moved(e, w, known.ids)
    BY <1>1, <1>2 DEF Moved, EncOK, EncFields
  <1> QED
    BY <1>2, <1>4, <1>6, <1>7, AheadMeans

\* One more event behind what was written.
LEMMA WriteOn ==
  ASSUME NEW t, NEW e, EncOK(e, t), NEW x \in Ahead(e, t), NEW event \in ItemEvents, NEW id \in OwnIds(t),
         NEW part \in Nat, NEW text \in OwnText(t)
  PROVE  Write(x, event, id, part, text) \in Ahead(e, t)
  <1>1. EncOK(x, t)
    BY AheadIs
  <1>2. Write(x, event, id, part, text) \in Ahead(x, t)
    BY <1>1, WriteAhead
  <1> QED
    BY <1>2, AheadIs

\* The encoder after it closed something: what it streamed is as it was.
Stays(x, e, t) ==
  /\ EncOK(x, t)
  /\ \A f \in EncFields \ {"wire", "ids", "reasoningSummaryDone", "reasoningItemDone", "messageDone"} : x[f] = e[f]

LEMMA AheadStays ==
  ASSUME NEW t, NEW e, EncOK(e, t), NEW x, Stays(x, e, t), NEW y \in Ahead(x, t)
  PROVE  Stays(y, e, t)
  <1>1. EncOK(y, t) /\ \A f \in EncFields \ {"wire", "ids"} : y[f] = x[f]
    BY AheadIs DEF Stays
  <1> QED
    BY <1>1 DEF Stays

LEMMA StaysTwice ==
  ASSUME NEW t, NEW e, NEW x, NEW y, Stays(x, e, t), Stays(y, x, t)
  PROVE  Stays(y, e, t)
  BY DEF Stays

LEMMA StaysSelf == ASSUME NEW t, NEW e, EncOK(e, t) PROVE Stays(e, e, t)
  BY DEF Stays

\* A flag that says that something is closed is of no account here.
LEMMA FlagsStay ==
  ASSUME NEW t, NEW e, EncOK(e, t)
  PROVE  /\ Stays([e EXCEPT !.reasoningSummaryDone = TRUE], e, t)
         /\ Stays([e EXCEPT !.reasoningItemDone = TRUE], e, t)
         /\ Stays([e EXCEPT !.messageDone = TRUE], e, t)
  <1>1. EncOK([e EXCEPT !.reasoningSummaryDone = TRUE], t)
    BY DEF EncOK, EncFields
  <1>2. EncOK([e EXCEPT !.reasoningItemDone = TRUE], t)
    BY DEF EncOK, EncFields
  <1>3. EncOK([e EXCEPT !.messageDone = TRUE], t)
    BY DEF EncOK, EncFields
  <1>4. Stays([e EXCEPT !.reasoningSummaryDone = TRUE], e, t)
    BY <1>1 DEF Stays, EncOK, EncFields
  <1>5. Stays([e EXCEPT !.reasoningItemDone = TRUE], e, t)
    BY <1>2 DEF Stays, EncOK, EncFields
  <1>6. Stays([e EXCEPT !.messageDone = TRUE], e, t)
    BY <1>3 DEF Stays, EncOK, EncFields
  <1> QED
    BY <1>4, <1>5, <1>6

LEMMA WriteStays ==
  ASSUME NEW t, NEW e, EncOK(e, t), NEW x, Stays(x, e, t), NEW event \in ItemEvents, NEW id \in OwnIds(t),
         NEW part \in Nat, NEW text \in OwnText(t)
  PROVE  Stays(Write(x, event, id, part, text), e, t)
  <1>1. EncOK(x, t)
    BY DEF Stays
  <1>2. Write(x, event, id, part, text) \in Ahead(x, t)
    BY <1>1, WriteAhead
  <1> QED
    BY <1>2, AheadStays

LEMMA CloseReasoningSummaryStays ==
  ASSUME NEW t, NEW e, EncOK(e, t)
  PROVE  Stays(CloseReasoningSummary(e), e, t)
  <1>1. CASE ~e.reasoningStarted \/ e.reasoningSummaryDone
    BY <1>1, StaysSelf DEF CloseReasoningSummary
  <1>2. CASE ~(~e.reasoningStarted \/ e.reasoningSummaryDone)
    <2> DEFINE x == [e EXCEPT !.reasoningSummaryDone = TRUE]
               y == Write(x, "text.done", e.reasoningItemID, 0, e.reasoningText)
               z == Write(y, "part.done", e.reasoningItemID, 0, e.reasoningText)
    <2>1. Stays(x, e, t)
      BY FlagsStay
    <2>2. e.reasoningItemID \in OwnIds(t) /\ e.reasoningText \in OwnText(t)
          /\ "text.done" \in ItemEvents /\ "part.done" \in ItemEvents /\ 0 \in Nat
      BY <1>2 DEF EncOK, ItemEvents
    <2> HIDE DEF x
    <2>3. Stays(y, e, t)
      BY <2>1, <2>2, WriteStays
    <2> HIDE DEF y
    <2>4. Stays(z, e, t)
      BY <2>3, <2>2, WriteStays
    <2>5. CloseReasoningSummary(e) = z
      BY <1>2 DEF CloseReasoningSummary, x, y
    <2> HIDE DEF z
    <2> QED
      BY <2>4, <2>5
  <1> QED
    BY <1>1, <1>2

LEMMA FinishReasoningItemStays ==
  ASSUME NEW t, NEW e, EncOK(e, t), NEW text \in OwnText(t)
  PROVE  Stays(FinishReasoningItem(e, text), e, t)
  <1>1. CASE ~e.reasoningStarted \/ e.reasoningItemDone
    BY <1>1, StaysSelf DEF FinishReasoningItem
  <1>2. CASE ~(~e.reasoningStarted \/ e.reasoningItemDone)
    <2> DEFINE c == CloseReasoningSummary(e)
               x == [c EXCEPT !.reasoningItemDone = TRUE]
               said == IF text = <<>> THEN e.reasoningText ELSE text
               y == Write(x, "item.done", e.reasoningItemID, 0, said)
    <2>1. Stays(c, e, t)
      BY CloseReasoningSummaryStays
    <2> HIDE DEF c
    <2>2. Stays(x, c, t)
      BY <2>1, FlagsStay DEF Stays
    <2>3. Stays(x, e, t)
      <3> HIDE DEF x
      <3> QED
        BY <2>1, <2>2, StaysTwice
    <2>4. e.reasoningItemID \in OwnIds(t) /\ said \in OwnText(t) /\ "item.done" \in ItemEvents /\ 0 \in Nat
      BY <1>2 DEF EncOK, ItemEvents
    <2> HIDE DEF x, said
    <2>5. Stays(y, e, t)
      BY <2>3, <2>4, WriteStays
    <2>6. FinishReasoningItem(e, text) = y
      BY <1>2 DEF FinishReasoningItem, x, c, said
    <2> HIDE DEF y
    <2> QED
      BY <2>5, <2>6
  <1> QED
    BY <1>1, <1>2

LEMMA FinishMessageStays ==
  ASSUME NEW t, NEW e, EncOK(e, t), e.messageID \in OwnIds(t), NEW text \in OwnText(t)
  PROVE  Stays(FinishMessage(e, text), e, t)
  <1> DEFINE x == [e EXCEPT !.messageDone = TRUE]
             y == Write(x, "text.done", e.messageID, 0, e.messageText)
             z == Write(y, "part.done", e.messageID, 0, e.messageText)
             d == Write(z, "item.done", e.messageID, 0, text)
  <1>1. Stays(x, e, t)
    BY FlagsStay
  <1>2. e.messageText \in OwnText(t) /\ {"text.done", "part.done", "item.done"} \subseteq ItemEvents /\ 0 \in Nat
    BY DEF EncOK, ItemEvents
  <1> HIDE DEF x
  <1>3. Stays(y, e, t)
    BY <1>1, <1>2, WriteStays
  <1> HIDE DEF y
  <1>4. Stays(z, e, t)
    BY <1>2, <1>3, WriteStays
  <1> HIDE DEF z
  <1>5. Stays(d, e, t)
    BY <1>2, <1>4, WriteStays
  <1>6. FinishMessage(e, text) = d
    BY DEF FinishMessage, x, y, z
  <1> HIDE DEF d
  <1> QED
    BY <1>5, <1>6

LEMMA WriteWholeAhead ==
  ASSUME NEW t, NEW e, EncOK(e, t), NEW x \in Ahead(e, t), NEW item, item.id \in OwnIds(t),
         item.text \in OwnText(t), NEW announced \in OwnText(t)
  PROVE  WriteWhole(x, item, announced) \in Ahead(e, t)
  <1> DEFINE a == Write(x, "item.added", item.id, 0, announced)
             empty == <<>>
             b == Write(a, "part.added", item.id, 0, empty)
             c == IF item.text = <<>> THEN b ELSE Write(b, "delta", item.id, 0, item.text)
             d == Write(c, "text.done", item.id, 0, item.text)
             f == Write(d, "part.done", item.id, 0, item.text)
             g == Write(f, "item.done", item.id, 0, item.text)
  <1>1. ItemEvents = ItemEvents \cup {"item.added", "part.added", "delta", "text.done", "part.done", "item.done"}
        /\ 0 \in Nat /\ empty \in OwnText(t)
    BY OwnEmpty DEF ItemEvents
  <1>2. WriteWhole(x, item, announced) = g
    BY DEF WriteWhole
  <1> HIDE DEF empty
  <1>3. a \in Ahead(e, t)
    BY <1>1, WriteOn
  <1> HIDE DEF a
  <1>4. b \in Ahead(e, t)
    BY <1>1, <1>3, WriteOn
  <1> HIDE DEF b
  <1>5. c \in Ahead(e, t)
    BY <1>1, <1>4, WriteOn
  <1> HIDE DEF c
  <1>6. d \in Ahead(e, t)
    BY <1>1, <1>5, WriteOn
  <1> HIDE DEF d
  <1>7. f \in Ahead(e, t)
    BY <1>1, <1>6, WriteOn
  <1> HIDE DEF f
  <1>8. g \in Ahead(e, t)
    BY <1>1, <1>7, WriteOn
  <1> HIDE DEF g
  <1> QED
    BY <1>2, <1>8

LEMMA OwnPlaces ==
  ASSUME NEW t, NEW output \in OwnOutput(t)
  PROVE  /\ Len(output) \in Nat /\ DOMAIN output = 1 .. Len(output)
         /\ \A i \in 1 .. Len(output) : output[i] \in OwnItem(t) /\ output[i].id \in OwnIds(t)
                                        /\ output[i].text \in OwnText(t) /\ output[i].type \in ItemTypes
  <1>1. \A i \in 1 .. Len(output) : output[i] \in OwnItem(t)
    BY ElementOfSeq DEF OwnOutput
  <1>2. \A x \in OwnItem(t) : x.id \in OwnIds(t) /\ x.text \in OwnText(t) /\ x.type \in ItemTypes
    BY DEF OwnItem
  <1> QED
    BY <1>1, <1>2, LenProperties DEF OwnOutput

LEMMA FinishIncompleteOutputStays ==
  ASSUME NEW t, NEW e, EncOK(e, t)
  PROVE  Stays(FinishIncompleteOutput(e), e, t)
  <1> DEFINE empty == <<>>
             r == FinishReasoningItem(e, empty)
             n == Len(e.calls)
             c == FoldLeft(LAMBDA x, call : Write(x, "item.done", call.id, 0, call.text), r, e.calls)
  <1>1. empty \in OwnText(t)
    BY OwnEmpty
  <1>2. FinishIncompleteOutput(e) = IF ~e.messageStarted \/ e.messageDone THEN c ELSE FinishMessage(c, e.messageText)
    BY DEF FinishIncompleteOutput
  <1> HIDE DEF empty
  <1>3. Stays(r, e, t)
    BY <1>1, FinishReasoningItemStays
  <1> HIDE DEF r
  <1>4. n \in Nat /\ DOMAIN e.calls = 1 .. n
        /\ \A k \in 1 .. n : e.calls[k].id \in OwnIds(t) /\ e.calls[k].text \in OwnText(t)
    BY OwnPlaces DEF EncOK
  <1>5. EncOK(r, t) /\ "item.done" \in ItemEvents /\ 0 \in Nat
    BY <1>3 DEF Stays, ItemEvents
  <1>6. c \in Ahead(r, t)
    <2> DEFINE V == Ahead(r, t)
    <2>1. \A x \in V, k \in 1 .. n : Write(x, "item.done", e.calls[k].id, 0, e.calls[k].text) \in V
      BY <1>4, <1>5, WriteOn
    <2>2. r \in V
      BY <1>5, AheadSelf
    <2> HIDE DEF V, n
    <2>3. c \in V
      BY <1>4, <2>1, <2>2, FoldItemsDone
    <2> QED
      BY <2>3 DEF V
  <1> HIDE DEF c, n
  <1>7. Stays(c, e, t)
    BY <1>3, <1>6, AheadStays
  <1>8. CASE ~e.messageStarted \/ e.messageDone
    BY <1>2, <1>7, <1>8
  <1>9. CASE ~(~e.messageStarted \/ e.messageDone)
    <2>1. EncOK(c, t) /\ c.messageID = e.messageID /\ e.messageText \in OwnText(t)
      BY <1>7 DEF Stays, EncOK, EncFields
    <2>2. c.messageID \in OwnIds(t)
      BY <1>9, <2>1 DEF EncOK
    <2>3. Stays(FinishMessage(c, e.messageText), c, t)
      BY <2>1, <2>2, FinishMessageStays
    <2> QED
      BY <1>2, <1>7, <1>9, <2>3, StaysTwice
  <1> QED
    BY <1>8, <1>9

LEMMA ItemIsOwn ==
  ASSUME NEW t, NEW id \in OwnIds(t), NEW type \in ItemTypes, NEW text \in OwnText(t), NEW encrypted \in BOOLEAN
  PROVE  Item(id, type, text, encrypted) \in OwnItem(t) /\ <<Item(id, type, text, encrypted)>> \in OwnOutput(t)
  <1>1. Item(id, type, text, encrypted) \in OwnItem(t)
    BY DEF Item, OwnItem
  <1> QED
    BY <1>1 DEF OwnOutput

LEMMA OwnOrdered ==
  ASSUME NEW t, NEW items \in OwnOutput(t), NEW n \in Nat, NEW ids, DOMAIN ids = 1 .. n
  PROVE  FlattenSeq([i \in DOMAIN ids |-> WithId(items, ids[i])]) \in OwnOutput(t)
  <1> DEFINE found == [i \in DOMAIN ids |-> WithId(items, ids[i])]
  <1>1. found \in [1 .. n -> Seq(OwnItem(t))]
    BY OwnWithId DEF OwnOutput
  <1> HIDE DEF found
  <1>2. FlattenSeq(found) \in Seq(OwnItem(t))
    BY <1>1, FlattenIsSeq
  <1> QED
    BY <1>2 DEF found, OwnOutput

LEMMA IncompleteOutputIsOwn ==
  ASSUME NEW t, NEW e, EncOK(e, t)
  PROVE  IncompleteResponseOutput(e) \in OwnOutput(t)
  <1> DEFINE r == IF e.reasoningStarted
                  THEN <<Item(e.reasoningItemID, "reasoning", e.reasoningText, FALSE)>> ELSE <<>>
             m == IF e.messageStarted
                  THEN <<Item(e.messageID, "message", e.messageText, FALSE)>> ELSE <<>>
             items == r \o m \o e.calls
  <1>1. r \in OwnOutput(t)
    <2>1. e.reasoningStarted => e.reasoningItemID \in OwnIds(t) /\ e.reasoningText \in OwnText(t) /\ "reasoning" \in ItemTypes
      BY DEF EncOK, ItemTypes
    <2>2. e.reasoningStarted => <<Item(e.reasoningItemID, "reasoning", e.reasoningText, FALSE)>> \in OwnOutput(t)
      BY <2>1, ItemIsOwn
    <2> QED
      BY <2>2, OwnEmpty
  <1>2. m \in OwnOutput(t)
    <2>1. e.messageStarted => e.messageID \in OwnIds(t) /\ e.messageText \in OwnText(t) /\ "message" \in ItemTypes
      BY DEF EncOK, ItemTypes
    <2>2. e.messageStarted => <<Item(e.messageID, "message", e.messageText, FALSE)>> \in OwnOutput(t)
      BY <2>1, ItemIsOwn
    <2> QED
      BY <2>2, OwnEmpty
  <1>3. IncompleteResponseOutput(e) = FlattenSeq([i \in DOMAIN e.ids |-> WithId(items, e.ids[i])])
    BY DEF IncompleteResponseOutput
  <1> HIDE DEF r, m
  <1>4. r \o m \in OwnOutput(t)
    BY <1>1, <1>2, ConcatProperties DEF OwnOutput
  <1>5. items \in OwnOutput(t)
    BY <1>4, ConcatProperties DEF OwnOutput, EncOK
  <1> HIDE DEF items
  <1>6. Len(e.ids) \in Nat /\ DOMAIN e.ids = 1 .. Len(e.ids)
    BY LenProperties DEF EncOK
  <1>7. FlattenSeq([i \in DOMAIN e.ids |-> WithId(items, e.ids[i])]) \in OwnOutput(t)
    BY <1>5, <1>6, OwnOrdered
  <1> QED
    BY <1>3, <1>7

LEMMA TerminalIsOwn ==
  ASSUME NEW t, NEW e, EncOK(e, t), NEW event \in {"completed", "failed"}, NEW output \in OwnOutput(t)
  PROVE  Append(e.wire, Terminal(event, output)) \in Seq(Frames(t))
  <1>1. Terminal(event, output) \in Frames(t)
    BY DEF Terminal, Frames
  <1> QED
    BY <1>1, AppendProperties DEF EncOK

LEMMA WriteFailureOK ==
  ASSUME NEW t, NEW e, EncOK(e, t), NEW why
  PROVE  EncOK(WriteFailure(e, why), t) /\ WriteFailure(e, why).status = "failed"
  <1> DEFINE c == FinishIncompleteOutput(e)
             w == Append(c.wire, Terminal("failed", IncompleteResponseOutput(c)))
  <1>1. WriteFailure(e, why) = [c EXCEPT !.status = "failed", !.why = why, !.wire = Append(@, Terminal("failed", IncompleteResponseOutput(c)))]
    BY DEF WriteFailure
  <1>2. EncOK(c, t)
    BY FinishIncompleteOutputStays DEF Stays
  <1> HIDE DEF c
  <1>3. IncompleteResponseOutput(c) \in OwnOutput(t)
    BY <1>2, IncompleteOutputIsOwn
  <1>4. w \in Seq(Frames(t))
    BY <1>2, <1>3, TerminalIsOwn
  <1>5. WriteFailure(e, why) = [c EXCEPT !.status = "failed", !.why = why, !.wire = w]
    BY <1>1, <1>2 DEF EncOK, EncFields
  <1> HIDE DEF w
  <1>6. EncOK([c EXCEPT !.status = "failed", !.why = why, !.wire = w], t)
    BY <1>2, <1>4 DEF EncOK, EncFields
  <1>7. [c EXCEPT !.status = "failed", !.why = why, !.wire = w].status = "failed"
    BY <1>2 DEF EncOK, EncFields
  <1> QED
    BY <1>5, <1>6, <1>7

LEMMA WriteOK ==
  ASSUME NEW t, NEW e, EncOK(e, t), NEW event \in ItemEvents, NEW id \in OwnIds(t), NEW part \in Nat,
         NEW text \in OwnText(t)
  PROVE  /\ EncOK(Write(e, event, id, part, text), t)
         /\ \A f \in EncFields \ {"wire", "ids"} : Write(e, event, id, part, text)[f] = e[f]
  <1>1. Write(e, event, id, part, text) \in Ahead(e, t)
    BY WriteAhead
  <1> QED
    BY <1>1, AheadIs

LEMMA EmitReasoningStartOK ==
  ASSUME NEW t, NEW e, EncOK(e, t), e.reasoningItemID \in OwnIds(t)
  PROVE  EncOK(EmitReasoningStart(e), t)
  <1>1. CASE e.reasoningStarted
    BY <1>1 DEF EmitReasoningStart
  <1>2. CASE ~e.reasoningStarted
    <2> DEFINE x == [e EXCEPT !.reasoningStarted = TRUE]
               empty == <<>>
               y == Write(x, "item.added", e.reasoningItemID, 0, empty)
               z == Write(y, "part.added", e.reasoningItemID, 0, empty)
    <2>1. EncOK(x, t)
      BY DEF EncOK, EncFields
    <2>2. empty \in OwnText(t) /\ {"item.added", "part.added"} \subseteq ItemEvents /\ 0 \in Nat
      BY OwnEmpty DEF ItemEvents
    <2>3. EmitReasoningStart(e) = z
      BY <1>2 DEF EmitReasoningStart
    <2> HIDE DEF x, empty
    <2>4. EncOK(y, t)
      BY <2>1, <2>2, WriteOK
    <2> HIDE DEF y
    <2>5. EncOK(z, t)
      BY <2>2, <2>4, WriteOK
    <2> HIDE DEF z
    <2> QED
      BY <2>3, <2>5
  <1> QED
    BY <1>1, <1>2

\* What is streamed joins the text it belongs to.
LEMMA TextJoins ==
  ASSUME NEW t, NEW e, EncOK(e, t), NEW text \in OwnText(t)
  PROVE  /\ EncOK([e EXCEPT !.reasoningText = @ \o text], t)
         /\ EncOK([e EXCEPT !.messageText = @ \o text], t)
  <1>1. e.reasoningText \o text \in OwnText(t) /\ e.messageText \o text \in OwnText(t)
    BY OwnConcat DEF EncOK
  <1> DEFINE a == e.reasoningText \o text
             b == e.messageText \o text
  <1>2. [e EXCEPT !.reasoningText = @ \o text] = [e EXCEPT !.reasoningText = a]
        /\ [e EXCEPT !.messageText = @ \o text] = [e EXCEPT !.messageText = b]
    OBVIOUS
  <1> HIDE DEF a, b
  <1>3. a \in OwnText(t) /\ b \in OwnText(t)
    BY <1>1 DEF a, b
  <1>4. EncOK([e EXCEPT !.reasoningText = a], t)
    BY <1>3 DEF EncOK, EncFields
  <1>5. EncOK([e EXCEPT !.messageText = b], t)
    BY <1>3 DEF EncOK, EncFields
  <1> QED
    BY <1>2, <1>4, <1>5

Delta(t) == [kind : {"reasoning_delta", "delta", "tool_call_delta"}, id : OwnIds(t), text : OwnText(t)]

LEMMA OnReasoningDeltaOK ==
  ASSUME NEW t, NEW e, EncOK(e, t), NEW ev \in Delta(t)
  PROVE  EncOK(OnReasoningDelta(e, ev), t)
  <1> DEFINE x == [e EXCEPT !.reasoningItemID = ev.id]
             s == EmitReasoningStart(x)
             y == [s EXCEPT !.reasoningText = @ \o ev.text]
  <1>0. ev.id \in OwnIds(t) /\ ev.text \in OwnText(t)
    BY DEF Delta
  <1>1. EncOK(x, t) /\ x.reasoningItemID \in OwnIds(t)
    BY <1>0 DEF EncOK, EncFields
  <1>2. OnReasoningDelta(e, ev) = IF e.hide THEN e
           ELSE IF StreamedBytes(e) + Len(ev.text) > e.max THEN WriteFailure(s, "size")
           ELSE Write(y, "delta", ev.id, 0, ev.text)
    BY DEF OnReasoningDelta
  <1> HIDE DEF x
  <1>3. EncOK(s, t)
    BY <1>1, EmitReasoningStartOK
  <1> HIDE DEF s
  <1>4. EncOK(WriteFailure(s, "size"), t)
    BY <1>3, WriteFailureOK
  <1>5. EncOK(y, t)
    BY <1>0, <1>3, TextJoins
  <1> HIDE DEF y
  <1>6. EncOK(Write(y, "delta", ev.id, 0, ev.text), t)
    BY <1>0, <1>5, WriteOK DEF ItemEvents
  <1> QED
    BY <1>2, <1>4, <1>6

LEMMA OnDeltaOK ==
  ASSUME NEW t, NEW e, EncOK(e, t), NEW ev \in Delta(t)
  PROVE  EncOK(OnDelta(e, ev), t)
  <1> DEFINE x == [e EXCEPT !.messageID = ev.id]
             closed == CloseReasoningSummary(x)
             empty == <<>>
             open == [closed EXCEPT !.messageStarted = TRUE]
             a == Write(open, "item.added", ev.id, 0, empty)
             b == Write(a, "part.added", ev.id, 0, empty)
             started == IF closed.messageStarted THEN closed ELSE b
             y == [started EXCEPT !.messageText = @ \o ev.text]
  <1>0. ev.id \in OwnIds(t) /\ ev.text \in OwnText(t) /\ empty \in OwnText(t) /\ 0 \in Nat
        /\ {"item.added", "part.added", "delta"} \subseteq ItemEvents
    BY OwnEmpty DEF Delta, ItemEvents
  <1>1. EncOK(x, t) /\ x.messageID = ev.id
    BY <1>0 DEF EncOK, EncFields
  <1>2. OnDelta(e, ev) = IF StreamedBytes(e) + Len(ev.text) > e.max THEN WriteFailure(closed, "size")
                         ELSE Write(y, "delta", ev.id, 0, ev.text)
    BY DEF OnDelta
  <1> HIDE DEF x, empty
  <1>3. EncOK(closed, t) /\ closed.messageID = ev.id
    <2>1. Stays(closed, x, t)
      BY <1>1, CloseReasoningSummaryStays
    <2> HIDE DEF closed
    <2> QED
      BY <1>1, <2>1 DEF Stays, EncFields
  <1> HIDE DEF closed
  <1>4. EncOK(WriteFailure(closed, "size"), t)
    BY <1>3, WriteFailureOK
  <1>5. EncOK(open, t)
    BY <1>0, <1>3 DEF EncOK, EncFields
  <1> HIDE DEF open
  <1>6. EncOK(a, t)
    BY <1>0, <1>5, WriteOK
  <1> HIDE DEF a
  <1>7. EncOK(b, t)
    BY <1>0, <1>6, WriteOK
  <1> HIDE DEF b
  <1>8. EncOK(started, t)
    BY <1>3, <1>7
  <1> HIDE DEF started
  <1>9. EncOK(y, t)
    BY <1>0, <1>8, TextJoins
  <1> HIDE DEF y
  <1>10. EncOK(Write(y, "delta", ev.id, 0, ev.text), t)
    BY <1>0, <1>9, WriteOK
  <1> QED
    BY <1>2, <1>4, <1>10

\* The text of the items of an identifier grows.
LEMMA CallsGrow ==
  ASSUME NEW t, NEW calls \in OwnOutput(t), NEW id, NEW text \in OwnText(t)
  PROVE  Joined(calls, id, text) \in OwnOutput(t)
  <1> DEFINE n == Len(calls)
             more == Joined(calls, id, text)
  <1>1. n \in Nat /\ DOMAIN calls = 1 .. n /\ \A i \in 1 .. n : calls[i] \in OwnItem(t)
    BY OwnPlaces
  <1> HIDE DEF n
  <1>2. ASSUME NEW i \in 1 .. n PROVE more[i] \in OwnItem(t)
    <2> DEFINE c == calls[i]
    <2>1. c \in OwnItem(t)
      BY <1>1
    <2>2. more[i] = IF c.id = id THEN [c EXCEPT !.text = @ \o text] ELSE c
      BY <1>1 DEF Joined
    <2> HIDE DEF c
    <2>3. c.text \o text \in OwnText(t)
      BY <2>1, OwnConcat DEF OwnItem
    <2>4. [c EXCEPT !.text = @ \o text] \in OwnItem(t)
      BY <2>1, <2>3 DEF OwnItem
    <2> QED
      BY <2>1, <2>2, <2>4
  <1>3. DOMAIN more = 1 .. n
    BY <1>1 DEF Joined
  <1>4. more = [i \in 1 .. n |-> more[i]]
    BY <1>1 DEF Joined
  <1> HIDE DEF more
  <1>5. more \in Seq(OwnItem(t))
    BY <1>1, <1>2, <1>3, <1>4
  <1> QED
    BY <1>5 DEF more, OwnOutput

LEMMA OnToolCallDeltaOK ==
  ASSUME NEW t, NEW e, EncOK(e, t), NEW ev \in Delta(t)
  PROVE  EncOK(OnToolCallDelta(e, ev), t)
  <1> DEFINE closed == CloseReasoningSummary(e)
             empty == <<>>
             call == Item(ev.id, "function_call", empty, FALSE)
             with == Append(closed.calls, call)
             open == [closed EXCEPT !.calls = with]
             started == IF Contains(IdsOf(e.calls), ev.id) THEN closed ELSE Write(open, "item.added", ev.id, 0, empty)
             grown == Joined(started.calls, ev.id, ev.text)
             streamed == [started EXCEPT !.calls = grown]
  <1>0. ev.id \in OwnIds(t) /\ ev.text \in OwnText(t) /\ empty \in OwnText(t) /\ 0 \in Nat
        /\ {"item.added", "arguments.delta"} \subseteq ItemEvents /\ "function_call" \in ItemTypes
    BY OwnEmpty DEF Delta, ItemEvents, ItemTypes
  <1>1. OnToolCallDelta(e, ev) = IF StreamedBytes(e) + Len(ev.text) > e.max THEN WriteFailure(closed, "size")
                         ELSE Write(streamed, "arguments.delta", ev.id, 0, ev.text)
    BY DEF OnToolCallDelta
  <1> HIDE DEF empty
  <1>2. EncOK(closed, t)
    BY CloseReasoningSummaryStays DEF Stays
  <1> HIDE DEF closed
  <1>3. EncOK(WriteFailure(closed, "size"), t)
    BY <1>2, WriteFailureOK
  <1>4. call \in OwnItem(t)
    BY <1>0, ItemIsOwn
  <1> HIDE DEF call
  <1>5. with \in OwnOutput(t)
    BY <1>2, <1>4, AppendProperties DEF EncOK, OwnOutput
  <1> HIDE DEF with
  <1>6. EncOK(open, t)
    BY <1>2, <1>5 DEF EncOK, EncFields
  <1> HIDE DEF open
  <1>7. EncOK(started, t)
    BY <1>0, <1>2, <1>6, WriteOK
  <1> HIDE DEF started
  <1>8. grown \in OwnOutput(t)
    <2>1. started.calls \in OwnOutput(t)
      BY <1>7 DEF EncOK
    <2> QED
      BY <1>0, <2>1, CallsGrow
  <1> HIDE DEF grown
  <1>9. EncOK(streamed, t)
    BY <1>7, <1>8 DEF EncOK, EncFields
  <1> HIDE DEF streamed
  <1>10. EncOK(Write(streamed, "arguments.delta", ev.id, 0, ev.text), t)
    BY <1>0, <1>9, WriteOK
  <1> QED
    BY <1>1, <1>3, <1>10

LEMMA FilterIsOwn ==
  ASSUME NEW t, NEW output \in OwnOutput(t), NEW hide, NEW type, NEW id
  PROVE  /\ FilterReasoning(output, hide) \in OwnOutput(t)
         /\ OfType(output, type) \in OwnOutput(t)
         /\ TextOf(WithId(output, id)) \in OwnText(t)
  <1>1. FilterReasoning(output, hide) \in OwnOutput(t)
    BY OwnChosen DEF FilterReasoning, OwnOutput
  <1>2. OfType(output, type) \in OwnOutput(t)
    BY OwnChosen DEF OfType, OwnOutput
  <1>3. WithId(output, id) \in Seq(OwnItem(t))
    BY OwnWithId DEF OwnOutput
  <1>4. \A x \in OwnItem(t) : x.text \in OwnText(t)
    BY DEF OwnItem
  <1>5. TextOf(WithId(output, id)) \in OwnText(t)
    BY <1>3, <1>4, OwnTextIn
  <1> QED
    BY <1>1, <1>2, <1>5

LEMMA ReconcileStreamedReasoningOK ==
  ASSUME NEW t, NEW e, EncOK(e, t), NEW output \in OwnOutput(t)
  PROVE  EncOK(ReconcileStreamedReasoning(e, output), t)
  <1> DEFINE owed == OwedReasoning(e, output)
             id == e.reasoningItemID
             empty == <<>>
             first == Write(e, "delta", id, 0, owed)
             a == Write(e, "part.added", id, 1, empty)
             b == Write(a, "delta", id, 1, owed)
             c == Write(b, "text.done", id, 1, owed)
             d == Write(c, "part.done", id, 1, owed)
             x == IF e.reasoningSummaryDone THEN d ELSE first
  <1>1. ReconcileStreamedReasoning(e, output) = IF owed = <<>> THEN e ELSE [x EXCEPT !.reasoningText = @ \o owed]
    BY DEF ReconcileStreamedReasoning
  <1>2. owed = <<>> \/ e.reasoningStarted
    BY DEF OwedReasoning
  <1>3. owed \in OwnText(t)
    <2>1. TerminalSummary(e, output) \in OwnText(t) /\ e.reasoningText \in OwnText(t)
      BY FilterIsOwn DEF TerminalSummary, EncOK
    <2> QED
      BY <2>1, OwnSuffix, OwnEmpty DEF OwedReasoning
  <1>4. empty \in OwnText(t) /\ {"delta", "part.added", "text.done", "part.done"} \subseteq ItemEvents
        /\ 0 \in Nat /\ 1 \in Nat
    BY OwnEmpty DEF ItemEvents
  <1>5. CASE owed = <<>>
    BY <1>1, <1>5
  <1>6. CASE owed # <<>>
    <2>1. id \in OwnIds(t)
      BY <1>2, <1>6 DEF EncOK
    <2> HIDE DEF owed, id, empty
    <2>2. EncOK(first, t)
      BY <1>3, <1>4, <2>1, WriteOK
    <2> HIDE DEF first
    <2>3. EncOK(a, t)
      BY <1>4, <2>1, WriteOK
    <2> HIDE DEF a
    <2>4. EncOK(b, t)
      BY <1>3, <1>4, <2>1, <2>3, WriteOK
    <2> HIDE DEF b
    <2>5. EncOK(c, t)
      BY <1>3, <1>4, <2>1, <2>4, WriteOK
    <2> HIDE DEF c
    <2>6. EncOK(d, t)
      BY <1>3, <1>4, <2>1, <2>5, WriteOK
    <2> HIDE DEF d
    <2>7. EncOK(x, t)
      BY <2>2, <2>6
    <2> HIDE DEF x
    <2>8. EncOK([x EXCEPT !.reasoningText = @ \o owed], t)
      BY <1>3, <2>7, TextJoins
    <2> QED
      BY <1>1, <1>6, <2>8
  <1> QED
    BY <1>5, <1>6

LEMMA ReconcileUnstreamedReasoningOK ==
  ASSUME NEW t, NEW e, EncOK(e, t), NEW output \in OwnOutput(t)
  PROVE  EncOK(ReconcileUnstreamedReasoning(e, output), t)
  <1> DEFINE final == OfType(output, "reasoning")
             item == final[1]
             empty == <<>>
             x == [e EXCEPT !.reasoningStarted = TRUE, !.reasoningSummaryDone = TRUE,
                            !.reasoningItemDone = TRUE, !.reasoningItemID = item.id]
             whole == WriteWhole(x, item, item.text)
             a == Write(x, "item.added", item.id, 0, empty)
             b == Write(a, "item.done", item.id, 0, empty)
  <1>1. ReconcileUnstreamedReasoning(e, output) =
          IF e.reasoningStarted \/ final = <<>> THEN e ELSE IF item.text # <<>> THEN whole ELSE b
    BY DEF ReconcileUnstreamedReasoning
  <1>2. final \in OwnOutput(t)
    BY FilterIsOwn
  <1>3. empty \in OwnText(t) /\ {"item.added", "item.done"} \subseteq ItemEvents /\ 0 \in Nat
    BY OwnEmpty DEF ItemEvents
  <1> HIDE DEF final
  <1>4. CASE e.reasoningStarted \/ final = <<>>
    BY <1>1, <1>4
  <1>5. CASE ~(e.reasoningStarted \/ final = <<>>)
    <2>1. 1 \in 1 .. Len(final)
      BY <1>2, <1>5, LenProperties DEF OwnOutput
    <2>2. item.id \in OwnIds(t) /\ item.text \in OwnText(t)
      BY <1>2, <2>1, OwnPlaces
    <2> HIDE DEF item, empty
    <2>3. EncOK(x, t)
      BY <2>2 DEF EncOK, EncFields
    <2> HIDE DEF x
    <2>4. EncOK(whole, t)
      <3>1. x \in Ahead(x, t)
        BY <2>3, AheadSelf
      <3>2. whole \in Ahead(x, t)
        BY <2>2, <2>3, <3>1, WriteWholeAhead
      <3> HIDE DEF whole
      <3> QED
        BY <2>3, <3>2, AheadIs
    <2> HIDE DEF whole
    <2>5. EncOK(a, t)
      BY <1>3, <2>2, <2>3, WriteOK
    <2> HIDE DEF a
    <2>6. EncOK(b, t)
      BY <1>3, <2>2, <2>5, WriteOK
    <2> HIDE DEF b
    <2> QED
      BY <1>1, <1>5, <2>4, <2>6
  <1> QED
    BY <1>4, <1>5

LEMMA ReconcileMessageOK ==
  ASSUME NEW t, NEW e, EncOK(e, t), NEW output \in OwnOutput(t)
  PROVE  EncOK(ReconcileMessage(e, output), t)
  <1> DEFINE text == MessageText(e, output)
             owed == TerminalStreamSuffix(text, e.messageText)
             x == [e EXCEPT !.messageText = @ \o owed]
             y == Write(x, "delta", e.messageID, 0, owed)
             full == IF owed = <<>> THEN e ELSE y
             messages == OfType(output, "message")
             n == Len(messages)
             empty == <<>>
             fold == FoldLeft(LAMBDA z, item : WriteWhole(z, item, empty), e, messages)
  <1>1. ReconcileMessage(e, output) = IF e.messageStarted THEN FinishMessage(full, text) ELSE fold
    BY DEF ReconcileMessage
  <1>2. text \in OwnText(t) /\ messages \in OwnOutput(t) /\ empty \in OwnText(t)
    BY FilterIsOwn, OwnEmpty DEF MessageText
  <1> HIDE DEF text, messages
  <1>3. owed \in OwnText(t)
    BY <1>2, OwnSuffix DEF EncOK
  <1> HIDE DEF owed
  <1>4. CASE e.messageStarted
    <2>1. e.messageID \in OwnIds(t) /\ "delta" \in ItemEvents /\ 0 \in Nat
      BY <1>4 DEF EncOK, ItemEvents
    <2>2. EncOK(x, t) /\ x.messageID = e.messageID
      <3>1. EncOK(x, t)
        BY <1>3, TextJoins
      <3> QED
        BY <3>1 DEF EncOK, EncFields
    <2> HIDE DEF x
    <2>3. EncOK(y, t) /\ y["messageID"] = x["messageID"]
      BY <1>3, <2>1, <2>2, WriteOK DEF EncFields
    <2> HIDE DEF y
    <2>4. EncOK(full, t) /\ full.messageID \in OwnIds(t)
      BY <2>1, <2>2, <2>3
    <2> HIDE DEF full
    <2>5. Stays(FinishMessage(full, text), full, t)
      BY <1>2, <2>4, FinishMessageStays
    <2>6. EncOK(FinishMessage(full, text), t)
      BY <2>5 DEF Stays
    <2> QED
      BY <1>1, <1>4, <2>6
  <1>5. CASE ~e.messageStarted
    <2>1. n \in Nat /\ DOMAIN messages = 1 .. n
          /\ \A k \in 1 .. n : messages[k].id \in OwnIds(t) /\ messages[k].text \in OwnText(t)
      BY <1>2, OwnPlaces
    <2> HIDE DEF n
    <2> DEFINE V == Ahead(e, t)
    <2>2. e \in V
      BY AheadSelf
    <2>3. \A z \in V, k \in 1 .. n : WriteWhole(z, messages[k], empty) \in V
      <3> HIDE DEF empty
      <3> QED
        BY <1>2, <2>1, WriteWholeAhead
    <2> HIDE DEF V
    <2>4. fold \in V
      BY <2>1, <2>2, <2>3, FoldWriteWhole
    <2> HIDE DEF fold
    <2>5. EncOK(fold, t)
      BY <2>4, AheadIs DEF V
    <2> QED
      BY <1>1, <1>5, <2>5
  <1> QED
    BY <1>4, <1>5

LEMMA WriteCallAhead ==
  ASSUME NEW t, NEW e, EncOK(e, t), NEW x \in Ahead(e, t), NEW item \in OwnItem(t)
  PROVE  WriteCall(x, item) \in Ahead(e, t)
  <1> DEFINE streamed == WithId(x.calls, item.id)
             id == item.id
             text == item.text
             added == Write(x, "item.added", id, 0, text)
             started == IF streamed # <<>> THEN x ELSE added
             owed == ToolArgumentsSuffix(text, TextOf(streamed))
             more == Write(started, "arguments.delta", id, 0, owed)
             filled == IF owed = <<>> THEN started ELSE more
             a == Write(filled, "arguments.done", id, 0, text)
             b == Write(a, "item.done", id, 0, text)
             c == Write(added, "item.done", id, 0, text)
  <1>1. WriteCall(x, item) = CASE item.type = "function_call" -> b
                               [] item.type \in {"custom_tool_call", "tool_search_call"} -> c
                               [] OTHER -> x
    BY DEF WriteCall
  <1>2. id \in OwnIds(t) /\ text \in OwnText(t) /\ 0 \in Nat
        /\ {"item.added", "arguments.delta", "arguments.done", "item.done"} \subseteq ItemEvents
    BY DEF OwnItem, ItemEvents
  <1>3. owed \in OwnText(t)
    <2>1. x.calls \in OwnOutput(t)
      <3>1. EncOK(x, t)
        BY AheadIs
      <3> QED
        BY <3>1 DEF EncOK
    <2>2. TextOf(streamed) \in OwnText(t)
      BY <2>1, FilterIsOwn
    <2> HIDE DEF streamed, text
    <2> QED
      BY <1>2, <2>2, OwnSuffix
  <1> HIDE DEF owed, id, text, streamed
  <1>4. added \in Ahead(e, t)
    BY <1>2, WriteOn
  <1> HIDE DEF added
  <1>5. started \in Ahead(e, t)
    BY <1>4
  <1> HIDE DEF started
  <1>6. more \in Ahead(e, t)
    BY <1>2, <1>3, <1>5, WriteOn
  <1> HIDE DEF more
  <1>7. filled \in Ahead(e, t)
    BY <1>5, <1>6
  <1> HIDE DEF filled
  <1>8. a \in Ahead(e, t)
    BY <1>2, <1>7, WriteOn
  <1> HIDE DEF a
  <1>9. b \in Ahead(e, t)
    BY <1>2, <1>8, WriteOn
  <1> HIDE DEF b
  <1>10. c \in Ahead(e, t)
    BY <1>2, <1>4, WriteOn
  <1> HIDE DEF c
  <1>11. CASE item.type = "function_call"
    BY <1>1, <1>9, <1>11
  <1>12. CASE item.type \in {"custom_tool_call", "tool_search_call"}
    BY <1>1, <1>10, <1>12
  <1>13. CASE item.type \notin {"function_call", "custom_tool_call", "tool_search_call"}
    BY <1>1, <1>13
  <1> QED
    BY <1>11, <1>12, <1>13

LEMMA OnResponseOK ==
  ASSUME NEW t, NEW e, EncOK(e, t), NEW response \in OwnResponse(t)
  PROVE  EncOK(OnResponse(e, response), t)
  <1> DEFINE output == FilterReasoning(response.output, e.hide)
             reasoned == ReconcileStreamedReasoning(e, output)
             summary == TerminalSummary(reasoned, output)
             closed == FinishReasoningItem(reasoned, summary)
             settled == ReconcileUnstreamedReasoning(closed, output)
             owed == TerminalStreamSuffix(MessageText(settled, output), settled.messageText)
             messaged == ReconcileMessage(settled, output)
             n == Len(output)
             written == FoldLeft(WriteCall, messaged, output)
             wire == Append(written.wire, Terminal("completed", output))
             done == [written EXCEPT !.status = "completed", !.wire = Append(@, Terminal("completed", output))]
  <1>1. OnResponse(e, response) =
          IF ReasoningDiverges(e, output) THEN WriteFailure(e, "diverged")
          ELSE IF StreamedBytes(e) + Len(OwedReasoning(e, output)) > e.max THEN WriteFailure(e, "size")
          ELSE IF CallsDiverge(e, output) THEN WriteFailure(reasoned, "diverged")
          ELSE IF PayloadBytes(output) > e.max THEN WriteFailure(reasoned, "size")
          ELSE IF MessageDiverges(settled, output) THEN WriteFailure(settled, "diverged")
          ELSE IF settled.messageStarted /\ StreamedBytes(settled) + Len(owed) > e.max
               THEN WriteFailure(settled, "size")
          ELSE done
    BY DEF OnResponse
  <1>2. output \in OwnOutput(t)
    BY FilterIsOwn DEF OwnResponse
  <1> HIDE DEF output
  <1>3. EncOK(reasoned, t)
    BY <1>2, ReconcileStreamedReasoningOK
  <1> HIDE DEF reasoned
  <1>4. summary \in OwnText(t)
    BY <1>2, FilterIsOwn DEF TerminalSummary
  <1> HIDE DEF summary
  <1>5. EncOK(closed, t)
    BY <1>3, <1>4, FinishReasoningItemStays DEF Stays
  <1> HIDE DEF closed
  <1>6. EncOK(settled, t)
    BY <1>2, <1>5, ReconcileUnstreamedReasoningOK
  <1> HIDE DEF settled, owed
  <1>7. EncOK(messaged, t)
    BY <1>2, <1>6, ReconcileMessageOK
  <1> HIDE DEF messaged
  <1>8. EncOK(written, t)
    <2>1. n \in Nat /\ DOMAIN output = 1 .. n /\ \A k \in 1 .. n : output[k] \in OwnItem(t)
      BY <1>2, OwnPlaces
    <2> HIDE DEF n
    <2> DEFINE V == Ahead(messaged, t)
    <2>2. messaged \in V
      BY <1>7, AheadSelf
    <2>3. \A z \in V, k \in 1 .. n : WriteCall(z, output[k]) \in V
      BY <1>7, <2>1, WriteCallAhead
    <2> HIDE DEF V
    <2>4. written \in V
      BY <2>1, <2>2, <2>3, FoldWriteCall
    <2> HIDE DEF written
    <2> QED
      BY <1>7, <2>4, AheadIs DEF V
  <1> HIDE DEF written
  <1>9. wire \in Seq(Frames(t))
    BY <1>2, <1>8, TerminalIsOwn
  <1>10. EncOK(done, t)
    <2>1. done = [written EXCEPT !.status = "completed", !.wire = wire]
      BY <1>8 DEF EncOK, EncFields
    <2> HIDE DEF done, wire
    <2>2. EncOK([written EXCEPT !.status = "completed", !.wire = wire], t)
      BY <1>8, <1>9 DEF EncOK, EncFields
    <2> QED
      BY <2>1, <2>2
  <1> HIDE DEF done, wire
  <1>11. \A why : EncOK(WriteFailure(e, why), t) /\ EncOK(WriteFailure(reasoned, why), t)
                  /\ EncOK(WriteFailure(settled, why), t)
    BY <1>3, <1>6, WriteFailureOK
  <1> QED
    BY <1>1, <1>10, <1>11

LEMMA EncodeResponseEventOK ==
  ASSUME NEW t, NEW e, EncOK(e, t), NEW ev \in OwnEvent(t)
  PROVE  EncOK(EncodeResponseEvent(e, ev), t)
  <1>1. CASE ev \in Delta(t)
    <2>1. ev.kind \in {"reasoning_delta", "delta", "tool_call_delta"}
      BY <1>1 DEF Delta
    <2> QED
      BY <1>1, <2>1, OnReasoningDeltaOK, OnDeltaOK, OnToolCallDeltaOK DEF EncodeResponseEvent
  <1>2. CASE ev \in [kind : {"result"}, response : OwnResponse(t)]
    <2>1. ev.kind = "result" /\ ev.response \in OwnResponse(t)
      BY <1>2
    <2> QED
      BY <2>1, OnResponseOK DEF EncodeResponseEvent
  <1>3. CASE ev \in [kind : {"error"}]
    <2>1. ev.kind = "error"
      BY <1>3
    <2> QED
      BY <2>1, WriteFailureOK DEF EncodeResponseEvent
  <1> QED
    BY <1>1, <1>2, <1>3 DEF OwnEvent, Delta

LEMMA NewEncoderOK ==
  ASSUME NEW t, NEW hide, NEW max
  PROVE  EncOK(NewEncoder(hide, max), t) /\ NewEncoder(hide, max).status = "open" /\ NewEncoder(hide, max).wire = <<>>
  <1>1. <<>> \in OwnText(t) /\ <<>> \in OwnOutput(t) /\ <<>> \in Seq(Frames(t)) /\ <<>> \in Seq(OwnIds(t))
    BY OwnEmpty, EmptySeq
  <1> QED
    BY <1>1 DEF EncOK, EncFields, NewEncoder

----------------------------------------------------------------------------
(* So does the Chat encoder.                                                 *)

OwnCall(t) == [id : OwnIds(t), text : OwnText(t)]

Chunks(t) ==
  [event : {"reasoning", "content", "call", "finish", "error", "done"}, idx : Int,
   id : OwnIds(t) \cup {NoCall}, text : OwnText(t)]

Chats(t) ==
  [hide : BOOLEAN, status : {"open", "completed", "failed", "cut"},
   why : {"none", "diverged", "upstream", "timeout"}, wire : Seq(Chunks(t)),
   streamedText : OwnText(t), streamedReasoning : OwnText(t), calls : Seq(OwnCall(t))]

LEMMA ChunkIsOwn ==
  ASSUME NEW t, NEW kind \in {"reasoning", "content", "call", "finish", "error", "done"}, NEW idx \in Int,
         NEW id \in OwnIds(t) \cup {NoCall}, NEW text \in OwnText(t)
  PROVE  Chunk(kind, idx, id, text) \in Chunks(t)
  BY DEF Chunk, Chunks

LEMMA PutOK ==
  ASSUME NEW t, NEW c \in Chats(t), NEW chunk \in Chunks(t)
  PROVE  Put(c, chunk) \in Chats(t)
  <1> DEFINE w == Append(c.wire, chunk)
  <1>1. w \in Seq(Chunks(t))
    BY AppendProperties DEF Chats
  <1>2. Put(c, chunk) = [c EXCEPT !.wire = w]
    BY DEF Put
  <1> HIDE DEF w
  <1>3. [c EXCEPT !.wire = w] \in Chats(t)
    BY <1>1 DEF Chats
  <1> QED
    BY <1>2, <1>3

LEMMA PutTextOK ==
  ASSUME NEW t, NEW c \in Chats(t), NEW text \in OwnText(t)
  PROVE  PutReasoning(c, text) \in Chats(t) /\ PutContent(c, text) \in Chats(t)
  <1>1. Chunk("reasoning", 0, NoCall, text) \in Chunks(t) /\ Chunk("content", 0, NoCall, text) \in Chunks(t)
    BY ChunkIsOwn
  <1>2. Put(c, Chunk("reasoning", 0, NoCall, text)) \in Chats(t)
    BY <1>1, PutOK
  <1>3. Put(c, Chunk("content", 0, NoCall, text)) \in Chats(t)
    BY <1>1, PutOK
  <1> QED
    BY <1>2, <1>3 DEF PutReasoning, PutContent

LEMMA CallChunkIsOwn ==
  ASSUME NEW t, NEW c \in Chats(t), NEW id \in OwnIds(t), NEW text \in OwnText(t)
  PROVE  CallChunk(c, id, text) \in Chunks(t)
  <1> DEFINE I == {i \in 1 .. Len(c.calls) : c.calls[i].id = id}
             s == SelectInSeq(c.calls, LAMBDA x : x.id = id)
             k == CallIndex(c, id)
             name == IF KnownCall(c, id) THEN NoCall ELSE id
  <1>1. s = IF I # {} THEN Min(I) ELSE 0
    BY DEF SelectInSeq
  <1>2. Len(c.calls) \in Nat /\ I \in SUBSET (1 .. Len(c.calls))
    BY LenProperties DEF Chats
  <1>3. k = IF KnownCall(c, id) THEN s - 1 ELSE Len(c.calls)
    BY DEF CallIndex
  <1> HIDE DEF I, k
  <1>4. I # {} => Min(I) \in 1 .. Len(c.calls)
    BY <1>2, MinIs
  <1>5. s \in Nat
    BY <1>1, <1>2, <1>4
  <1> HIDE DEF s
  <1>6. k \in Int
    BY <1>2, <1>3, <1>5
  <1>7. CallChunk(c, id, text) = Chunk("call", k, name, text)
    BY DEF CallChunk, k
  <1>8. name \in OwnIds(t) \cup {NoCall}
    OBVIOUS
  <1> HIDE DEF name
  <1> QED
    BY <1>6, <1>7, <1>8, ChunkIsOwn

LEMMA CallsJoin ==
  ASSUME NEW t, NEW calls \in Seq(OwnCall(t)), NEW id, NEW text \in OwnText(t)
  PROVE  Joined(calls, id, text) \in Seq(OwnCall(t))
  <1> DEFINE n == Len(calls)
             more == Joined(calls, id, text)
  <1>1. n \in Nat /\ DOMAIN calls = 1 .. n /\ \A i \in 1 .. n : calls[i] \in OwnCall(t)
    BY LenProperties, ElementOfSeq
  <1> HIDE DEF n
  <1>2. ASSUME NEW i \in 1 .. n PROVE more[i] \in OwnCall(t)
    <2> DEFINE c == calls[i]
    <2>1. c \in OwnCall(t)
      BY <1>1
    <2>2. more[i] = IF c.id = id THEN [c EXCEPT !.text = @ \o text] ELSE c
      BY <1>1 DEF Joined
    <2> HIDE DEF c
    <2>3. c.text \o text \in OwnText(t)
      BY <2>1, OwnConcat DEF OwnCall
    <2>4. [c EXCEPT !.text = @ \o text] \in OwnCall(t)
      BY <2>1, <2>3 DEF OwnCall
    <2> QED
      BY <2>1, <2>2, <2>4
  <1>3. DOMAIN more = 1 .. n
    BY <1>1 DEF Joined
  <1>4. more = [i \in 1 .. n |-> more[i]]
    BY <1>1 DEF Joined
  <1> HIDE DEF more
  <1>5. more \in Seq(OwnCall(t))
    BY <1>1, <1>2, <1>3, <1>4
  <1> QED
    BY <1>5 DEF more

LEMMA RecordCallOK ==
  ASSUME NEW t, NEW c \in Chats(t), NEW id \in OwnIds(t), NEW text \in OwnText(t)
  PROVE  RecordCall(c, id, text) \in Chats(t)
  <1> DEFINE a == Joined(c.calls, id, text)
             b == Append(c.calls, [id |-> id, text |-> text])
  <1>1. c.calls \in Seq(OwnCall(t)) /\ [id |-> id, text |-> text] \in OwnCall(t)
    BY DEF Chats, OwnCall
  <1>2. a \in Seq(OwnCall(t))
    BY <1>1, CallsJoin
  <1>3. b \in Seq(OwnCall(t))
    BY <1>1, AppendProperties
  <1>4. RecordCall(c, id, text) = IF KnownCall(c, id) THEN [c EXCEPT !.calls = a] ELSE [c EXCEPT !.calls = b]
    BY DEF RecordCall
  <1> HIDE DEF a, b
  <1>5. [c EXCEPT !.calls = a] \in Chats(t)
    BY <1>2 DEF Chats
  <1>6. [c EXCEPT !.calls = b] \in Chats(t)
    BY <1>3 DEF Chats
  <1> QED
    BY <1>4, <1>5, <1>6

\* The two chunks that end a stream.
LEMMA EndsOK ==
  ASSUME NEW t, NEW c \in Chats(t), NEW kind \in {"error", "finish"}, NEW status \in {"completed", "failed"},
         NEW why \in {"none", "diverged", "upstream", "timeout"}
  PROVE  [c EXCEPT !.status = status, !.why = why,
                   !.wire = @ \o <<Chunk(kind, 0, NoCall, <<>>), Chunk("done", 0, NoCall, <<>>)>>] \in Chats(t)
  <1> DEFINE empty == <<>>
             tail == <<Chunk(kind, 0, NoCall, empty), Chunk("done", 0, NoCall, empty)>>
             w == c.wire \o tail
  <1>1. empty \in OwnText(t)
    BY OwnEmpty
  <1>2. [c EXCEPT !.status = status, !.why = why,
                   !.wire = @ \o <<Chunk(kind, 0, NoCall, <<>>), Chunk("done", 0, NoCall, <<>>)>>]
          = [c EXCEPT !.status = status, !.why = why, !.wire = w]
    OBVIOUS
  <1> HIDE DEF empty
  <1>3. Chunk(kind, 0, NoCall, empty) \in Chunks(t) /\ Chunk("done", 0, NoCall, empty) \in Chunks(t)
    BY <1>1, ChunkIsOwn
  <1>4. tail \in Seq(Chunks(t))
    BY <1>3
  <1> HIDE DEF tail
  <1>5. w \in Seq(Chunks(t))
    BY <1>4, ConcatProperties DEF Chats
  <1> HIDE DEF w
  <1>6. [c EXCEPT !.status = status, !.why = why, !.wire = w] \in Chats(t)
    BY <1>5 DEF Chats
  <1> QED
    BY <1>2, <1>6

LEMMA FailOK ==
  ASSUME NEW t, NEW c \in Chats(t), NEW why \in {"diverged", "upstream", "timeout"}
  PROVE  Fail(c, why) \in Chats(t)
  BY EndsOK DEF Fail

LEMMA TerminalDeltaOK ==
  ASSUME NEW t, NEW c \in Chats(t), NEW call \in OwnItem(t)
  PROVE  TerminalDelta(c, call) \in Chats(t)
  <1> DEFINE owed == ToolArgumentsSuffix(call.text, Delivered(c, call.id))
             id == call.id
             chunk == CallChunk(c, id, owed)
             x == Put(c, chunk)
             y == RecordCall(x, id, owed)
  <1>1. TerminalDelta(c, call) = IF KnownCall(c, call.id) /\ owed = <<>> THEN c ELSE y
    BY DEF TerminalDelta
  <1>2. id \in OwnIds(t) /\ call.text \in OwnText(t)
    BY DEF OwnItem
  <1>3. Delivered(c, call.id) \in OwnText(t)
    <2>1. WithId(c.calls, id) \in Seq(OwnCall(t))
      BY OwnWithId DEF Chats
    <2>2. \A z \in OwnCall(t) : z.text \in OwnText(t)
      BY DEF OwnCall
    <2>3. TextOf(WithId(c.calls, id)) \in OwnText(t)
      BY <2>1, <2>2, OwnTextIn
    <2> QED
      BY <2>3 DEF Delivered
  <1>4. owed \in OwnText(t)
    BY <1>2, <1>3, OwnSuffix
  <1> HIDE DEF owed, id
  <1>5. chunk \in Chunks(t)
    BY <1>2, <1>4, CallChunkIsOwn
  <1> HIDE DEF chunk
  <1>6. x \in Chats(t)
    BY <1>5, PutOK
  <1> HIDE DEF x
  <1>7. y \in Chats(t)
    BY <1>2, <1>4, <1>6, RecordCallOK
  <1> QED
    BY <1>1, <1>7

LEMMA OnResultOK ==
  ASSUME NEW t, NEW c \in Chats(t), NEW response \in OwnResponse(t)
  PROVE  OnResult(c, response) \in Chats(t)
  <1> DEFINE owedReasoning == TerminalStreamSuffix(response.reasoning, c.streamedReasoning)
             owedText == TerminalStreamSuffix(response.text, c.streamedText)
             reasoned == PutReasoning(c, owedReasoning)
             texted == PutContent(reasoned, owedText)
             n == Len(response.calls)
             called == FoldLeft(TerminalDelta, texted, response.calls)
             done == [called EXCEPT !.status = "completed", !.wire = @ \o <<Chunk("finish", 0, NoCall, <<>>), Chunk("done", 0, NoCall, <<>>)>>]
  <1>1. OnResult(c, response) =
          IF ~Extends(response.reasoning, c.streamedReasoning) THEN Fail(c, "diverged")
          ELSE IF ~Extends(response.text, c.streamedText) THEN Fail(reasoned, "diverged")
          ELSE IF TerminalCallsDiverge(c, response.calls) THEN Fail(texted, "diverged")
          ELSE done
    BY DEF OnResult
  <1>2. owedReasoning \in OwnText(t) /\ owedText \in OwnText(t)
    BY OwnSuffix DEF Chats, OwnResponse
  <1> HIDE DEF owedReasoning, owedText
  <1>3. reasoned \in Chats(t)
    BY <1>2, PutTextOK
  <1> HIDE DEF reasoned
  <1>4. texted \in Chats(t)
    BY <1>2, <1>3, PutTextOK
  <1> HIDE DEF texted
  <1>5. called \in Chats(t)
    <2> DEFINE V == Chats(t)
    <2>1. n \in Nat /\ DOMAIN response.calls = 1 .. n /\ \A k \in 1 .. n : response.calls[k] \in OwnItem(t)
      BY OwnPlaces DEF OwnResponse
    <2> HIDE DEF n
    <2>2. \A z \in V, k \in 1 .. n : TerminalDelta(z, response.calls[k]) \in V
      BY <2>1, TerminalDeltaOK
    <2>3. texted \in V
      BY <1>4
    <2> HIDE DEF V
    <2>4. called \in V
      BY <2>1, <2>2, <2>3, FoldTerminalDelta
    <2> QED
      BY <2>4 DEF V
  <1> HIDE DEF called
  <1>6. done \in Chats(t)
    <2>1. called.why \in {"none", "diverged", "upstream", "timeout"}
      BY <1>5 DEF Chats
    <2>2. done = [called EXCEPT !.status = "completed", !.why = called.why, !.wire = @ \o <<Chunk("finish", 0, NoCall, <<>>), Chunk("done", 0, NoCall, <<>>)>>]
      BY <1>5 DEF Chats
    <2> HIDE DEF done
    <2>3. [called EXCEPT !.status = "completed", !.why = called.why, !.wire = @ \o <<Chunk("finish", 0, NoCall, <<>>), Chunk("done", 0, NoCall, <<>>)>>] \in Chats(t)
      BY <1>5, <2>1, EndsOK
    <2> QED
      BY <2>2, <2>3
  <1> HIDE DEF done
  <1>7. Fail(c, "diverged") \in Chats(t) /\ Fail(reasoned, "diverged") \in Chats(t) /\ Fail(texted, "diverged") \in Chats(t)
    BY <1>3, <1>4, FailOK
  <1> QED
    BY <1>1, <1>6, <1>7

LEMMA EncodeChatEventOK ==
  ASSUME NEW t, NEW c \in Chats(t), NEW ev \in OwnEvent(t)
  PROVE  EncodeChatEvent(c, ev) \in Chats(t)
  <1>1. CASE ev \in Delta(t)
    <2>1. ev.kind \in {"reasoning_delta", "delta", "tool_call_delta"} /\ ev.id \in OwnIds(t) /\ ev.text \in OwnText(t)
      BY <1>1 DEF Delta
    <2>2. CASE ev.kind = "reasoning_delta"
      <3> DEFINE x == PutReasoning(c, ev.text)
                 y == x.streamedReasoning \o ev.text
      <3>1. x \in Chats(t)
        BY <2>1, PutTextOK
      <3>2. EncodeChatEvent(c, ev) = [x EXCEPT !.streamedReasoning = y]
        BY <2>2 DEF EncodeChatEvent
      <3> HIDE DEF x
      <3>3. y \in OwnText(t)
        BY <2>1, <3>1, OwnConcat DEF Chats
      <3> HIDE DEF y
      <3>4. [x EXCEPT !.streamedReasoning = y] \in Chats(t)
        BY <3>1, <3>3 DEF Chats
      <3> QED
        BY <3>2, <3>4
    <2>3. CASE ev.kind = "delta"
      <3> DEFINE x == PutContent(c, ev.text)
                 y == x.streamedText \o ev.text
      <3>1. x \in Chats(t)
        BY <2>1, PutTextOK
      <3>2. EncodeChatEvent(c, ev) = [x EXCEPT !.streamedText = y]
        BY <2>3 DEF EncodeChatEvent
      <3> HIDE DEF x
      <3>3. y \in OwnText(t)
        BY <2>1, <3>1, OwnConcat DEF Chats
      <3> HIDE DEF y
      <3>4. [x EXCEPT !.streamedText = y] \in Chats(t)
        BY <3>1, <3>3 DEF Chats
      <3> QED
        BY <3>2, <3>4
    <2>4. CASE ev.kind = "tool_call_delta"
      <3> DEFINE chunk == CallChunk(c, ev.id, ev.text)
                 x == Put(c, chunk)
      <3>1. chunk \in Chunks(t)
        BY <2>1, CallChunkIsOwn
      <3>2. EncodeChatEvent(c, ev) = RecordCall(x, ev.id, ev.text)
        BY <2>4 DEF EncodeChatEvent
      <3> HIDE DEF chunk
      <3>3. x \in Chats(t)
        BY <3>1, PutOK
      <3> HIDE DEF x
      <3> QED
        BY <2>1, <3>2, <3>3, RecordCallOK
    <2> QED
      BY <2>1, <2>2, <2>3, <2>4
  <1>2. CASE ev \in [kind : {"result"}, response : OwnResponse(t)]
    <2>1. ev.kind = "result" /\ ev.response \in OwnResponse(t)
      BY <1>2
    <2> QED
      BY <2>1, OnResultOK DEF EncodeChatEvent
  <1>3. CASE ev \in [kind : {"error"}]
    <2>1. ev.kind = "error"
      BY <1>3
    <2> QED
      BY <2>1, FailOK DEF EncodeChatEvent
  <1> QED
    BY <1>1, <1>2, <1>3 DEF OwnEvent, Delta

LEMMA NewChatOK ==
  ASSUME NEW t, NEW hide \in BOOLEAN
  PROVE  NewChat(hide) \in Chats(t) /\ NewChat(hide).status = "open" /\ NewChat(hide).wire = <<>>
  <1>1. <<>> \in OwnText(t) /\ <<>> \in Seq(Chunks(t)) /\ <<>> \in Seq(OwnCall(t))
    BY OwnEmpty, EmptySeq
  <1> QED
    BY <1>1 DEF Chats, NewChat

----------------------------------------------------------------------------
(* A client that is sent what belongs to a turn sees nothing else.           *)

SeenPart(t) == [state : {"open", "said", "done"}, text : OwnText(t)]
SeenItem(t) == [id : OwnIds(t), open : BOOLEAN, parts : Seq(SeenPart(t)), text : OwnText(t)]
SeenCall(t) == [id : OwnIds(t) \cup {NoCall}, text : OwnText(t)]

Views(t) == [items : Seq(SeenItem(t)), output : OwnOutput(t), over : BOOLEAN, sound : BOOLEAN]

ChatViews(t) ==
  [text : OwnText(t), reasoning : OwnText(t), calls : Seq(SeenCall(t)), finished : BOOLEAN,
   over : BOOLEAN, sound : BOOLEAN]

LEMMA PlaceTakes ==
  ASSUME NEW S, NEW s \in Seq(S), NEW k \in DOMAIN s, NEW x \in S
  PROVE  [s EXCEPT ![k] = x] \in Seq(S)
  <1>1. Len(s) \in Nat /\ s \in [1 .. Len(s) -> S]
    BY LenProperties
  <1>2. [s EXCEPT ![k] = x] \in [1 .. Len(s) -> S]
    BY <1>1
  <1> QED
    BY <1>1, <1>2

ItemFrames(t) == [event : ItemEvents, id : OwnIds(t), idx : Int, part : Nat, text : OwnText(t)]

LEMMA ReadItemOK ==
  ASSUME NEW t, NEW it \in SeenItem(t), NEW w \in ItemFrames(t), w.event # "item.added"
  PROVE  ReadItem(it, w).it \in SeenItem(t)
  <1> DEFINE n == w.part + 1
             has == n \in DOMAIN it.parts
             part == it.parts[n]
             more == it.text \o w.text
             opened == Append(it.parts, NewPart)
             filled == IF has THEN [it.parts EXCEPT ![n] = [part EXCEPT !.text = @ \o w.text]] ELSE it.parts
             said == IF has THEN [it.parts EXCEPT ![n] = [part EXCEPT !.state = "said"]] ELSE it.parts
             done == IF has THEN [it.parts EXCEPT ![n] = [part EXCEPT !.state = "done"]] ELSE it.parts
             kept == IF it.text = <<>> THEN w.text ELSE it.text
  <1>1. it.parts \in Seq(SeenPart(t)) /\ it.text \in OwnText(t) /\ w.text \in OwnText(t) /\ w.event \in ItemEvents
    BY DEF SeenItem, ItemFrames
  <1>2. more \in OwnText(t) /\ kept \in OwnText(t)
    BY <1>1, OwnConcat
  <1>3. opened \in Seq(SeenPart(t))
    <2>1. NewPart \in SeenPart(t)
      BY OwnEmpty DEF NewPart, SeenPart
    <2> QED
      BY <1>1, <2>1, AppendProperties
  <1>4. filled \in Seq(SeenPart(t)) /\ said \in Seq(SeenPart(t)) /\ done \in Seq(SeenPart(t))
    <2>1. CASE ~has
      BY <1>1, <2>1
    <2>2. CASE has
      <3>1. part \in SeenPart(t)
        BY <1>1, <2>2, ElementOfSeq, LenProperties
      <3>2. has
        BY <2>2
      <3> DEFINE a == [part EXCEPT !.text = @ \o w.text]
                 b == [part EXCEPT !.state = "said"]
                 c == [part EXCEPT !.state = "done"]
      <3>3. filled = [it.parts EXCEPT ![n] = a] /\ said = [it.parts EXCEPT ![n] = b] /\ done = [it.parts EXCEPT ![n] = c]
        BY <2>2
      <3> HIDE DEF part, filled, said, done, n
      <3>4. a \in SeenPart(t)
        <4>1. part.text \o w.text \in OwnText(t)
          BY <1>1, <3>1, OwnConcat DEF SeenPart
        <4> QED
          BY <3>1, <4>1 DEF SeenPart
      <3>5. b \in SeenPart(t) /\ c \in SeenPart(t)
        BY <3>1 DEF SeenPart
      <3> HIDE DEF a, b, c
      <3>6. [it.parts EXCEPT ![n] = a] \in Seq(SeenPart(t)) /\ [it.parts EXCEPT ![n] = b] \in Seq(SeenPart(t))
            /\ [it.parts EXCEPT ![n] = c] \in Seq(SeenPart(t))
        BY <1>1, <3>2, <3>4, <3>5, PlaceTakes
      <3> QED
        BY <3>3, <3>6
    <2> QED
      BY <2>1, <2>2
  <1>5. /\ w.event = "part.added" => ReadItem(it, w).it = [it EXCEPT !.parts = opened]
        /\ w.event = "delta" => ReadItem(it, w).it = [it EXCEPT !.text = more, !.parts = filled]
        /\ w.event = "text.done" => ReadItem(it, w).it = [it EXCEPT !.parts = said]
        /\ w.event = "part.done" => ReadItem(it, w).it = [it EXCEPT !.parts = done]
    BY DEF ReadItem
  <1>6. /\ w.event = "arguments.delta" => ReadItem(it, w).it = [it EXCEPT !.text = more]
        /\ w.event = "arguments.done" => ReadItem(it, w).it = it
        /\ w.event = "item.done" => ReadItem(it, w).it = [it EXCEPT !.open = FALSE, !.text = kept]
    BY DEF ReadItem
  <1> HIDE DEF more, opened, filled, said, done, kept
  <1>7. /\ [it EXCEPT !.parts = opened] \in SeenItem(t) /\ [it EXCEPT !.text = more, !.parts = filled] \in SeenItem(t)
        /\ [it EXCEPT !.parts = said] \in SeenItem(t) /\ [it EXCEPT !.parts = done] \in SeenItem(t)
    BY <1>2, <1>3, <1>4 DEF SeenItem
  <1>8. [it EXCEPT !.text = more] \in SeenItem(t) /\ [it EXCEPT !.open = FALSE, !.text = kept] \in SeenItem(t)
    BY <1>2 DEF SeenItem
  <1> QED
    BY <1>1, <1>5, <1>6, <1>7, <1>8 DEF ItemEvents

LEMMA ReadOK ==
  ASSUME NEW t, NEW v \in Views(t), NEW w \in Frames(t)
  PROVE  Read(v, w) \in Views(t)
  <1>1. CASE v.over
    <2>1. Read(v, w) = [v EXCEPT !.sound = FALSE]
      BY <1>1 DEF Read
    <2>2. [v EXCEPT !.sound = FALSE] \in Views(t)
      BY DEF Views
    <2> QED
      BY <2>1, <2>2
  <1>2. CASE ~v.over /\ w.event \in {"completed", "failed"}
    <2> DEFINE s == v.sound /\ \A i \in DOMAIN v.items : ~v.items[i].open
    <2>1. w \in [event : {"completed", "failed"}, output : OwnOutput(t)]
      BY <1>2 DEF Frames, ItemEvents
    <2>2. Read(v, w) = [v EXCEPT !.over = TRUE, !.output = w.output, !.sound = s]
      BY <1>2 DEF Read
    <2>3. s \in BOOLEAN
      OBVIOUS
    <2> HIDE DEF s
    <2>4. [v EXCEPT !.over = TRUE, !.output = w.output, !.sound = s] \in Views(t)
      BY <2>1, <2>3 DEF Views
    <2> QED
      BY <2>2, <2>4
  <1>3. CASE ~v.over /\ w.event \notin {"completed", "failed"}
    <2>1. w \in ItemFrames(t)
      BY <1>3 DEF Frames, ItemFrames
    <2>2. w.id \in OwnIds(t) /\ v.items \in Seq(SeenItem(t))
      BY <2>1 DEF ItemFrames, Views
    <2>3. CASE w.event = "item.added"
      <3> DEFINE new == [id |-> w.id, open |-> TRUE, parts |-> <<>>, text |-> <<>>]
                 all == Append(v.items, new)
                 s == v.sound /\ w.idx = Len(v.items) /\ ~Contains(IdsOf(v.items), w.id)
      <3>1. new \in SeenItem(t)
        <4>1. <<>> \in OwnText(t) /\ <<>> \in Seq(SeenPart(t))
          BY OwnEmpty, EmptySeq
        <4> QED
          BY <2>2, <4>1 DEF SeenItem
      <3>2. Read(v, w) = [v EXCEPT !.items = all, !.sound = s]
        BY <1>3, <2>3 DEF Read
      <3> HIDE DEF new
      <3>3. all \in Seq(SeenItem(t))
        BY <2>2, <3>1, AppendProperties
      <3>4. s \in BOOLEAN
        OBVIOUS
      <3> HIDE DEF all, s
      <3>5. [v EXCEPT !.items = all, !.sound = s] \in Views(t)
        BY <3>3, <3>4 DEF Views
      <3> QED
        BY <3>2, <3>5
    <2>4. CASE w.event # "item.added" /\ w.idx + 1 \notin DOMAIN v.items
      <3>1. Read(v, w) = [v EXCEPT !.sound = FALSE]
        BY <1>3, <2>4 DEF Read
      <3>2. [v EXCEPT !.sound = FALSE] \in Views(t)
        BY DEF Views
      <3> QED
        BY <3>1, <3>2
    <2>5. CASE w.event # "item.added" /\ w.idx + 1 \in DOMAIN v.items
      <3> DEFINE k == w.idx + 1
                 it == v.items[k]
                 r == ReadItem(it, w)
                 s == v.sound /\ it.open /\ it.id = w.id /\ r.ok
                 all == [v.items EXCEPT ![k] = r.it]
      <3>1. Read(v, w) = [v EXCEPT !.items[k] = r.it, !.sound = s]
        BY <1>3, <2>5 DEF Read
      <3>2. k \in DOMAIN v.items
        BY <2>5
      <3>3. it \in SeenItem(t)
        BY <2>2, <3>2, ElementOfSeq, LenProperties
      <3> HIDE DEF k, it
      <3>4. r.it \in SeenItem(t)
        BY <2>1, <2>5, <3>3, ReadItemOK
      <3>5. s \in BOOLEAN
        OBVIOUS
      <3> HIDE DEF r, s
      <3>6. all \in Seq(SeenItem(t))
        BY <2>2, <3>2, <3>4, PlaceTakes
      <3>7. Read(v, w) = [v EXCEPT !.items = all, !.sound = s]
        BY <3>1 DEF Views
      <3> HIDE DEF all
      <3>8. [v EXCEPT !.items = all, !.sound = s] \in Views(t)
        BY <3>5, <3>6 DEF Views
      <3> QED
        BY <3>7, <3>8
    <2> QED
      BY <2>3, <2>4, <2>5
  <1> QED
    BY <1>1, <1>2, <1>3

LEMMA ReadChunkOK ==
  ASSUME NEW t, NEW v \in ChatViews(t), NEW w \in Chunks(t)
  PROVE  ReadChunk(v, w) \in ChatViews(t)
  <1>0. v.calls \in Seq(SeenCall(t)) /\ w.text \in OwnText(t) /\ w.id \in OwnIds(t) \cup {NoCall}
    BY DEF ChatViews, Chunks
  <1>1. CASE v.over
    <2>1. ReadChunk(v, w) = [v EXCEPT !.sound = FALSE]
      BY <1>1 DEF ReadChunk
    <2>2. [v EXCEPT !.sound = FALSE] \in ChatViews(t)
      BY DEF ChatViews
    <2> QED
      BY <2>1, <2>2
  <1>2. CASE ~v.over /\ w.event = "reasoning"
    <2> DEFINE s == v.sound /\ ~v.finished
               more == v.reasoning \o w.text
    <2>1. ReadChunk(v, w) = [v EXCEPT !.reasoning = more, !.sound = s]
      BY <1>2 DEF ReadChunk
    <2>2. s \in BOOLEAN /\ more \in OwnText(t)
      BY <1>0, OwnConcat DEF ChatViews
    <2> HIDE DEF s, more
    <2>3. [v EXCEPT !.reasoning = more, !.sound = s] \in ChatViews(t)
      BY <2>2 DEF ChatViews
    <2> QED
      BY <2>1, <2>3
  <1>3. CASE ~v.over /\ w.event = "content"
    <2> DEFINE s == v.sound /\ ~v.finished
               more == v.text \o w.text
    <2>1. ReadChunk(v, w) = [v EXCEPT !.text = more, !.sound = s]
      BY <1>3 DEF ReadChunk
    <2>2. s \in BOOLEAN /\ more \in OwnText(t)
      BY <1>0, OwnConcat DEF ChatViews
    <2> HIDE DEF s, more
    <2>3. [v EXCEPT !.text = more, !.sound = s] \in ChatViews(t)
      BY <2>2 DEF ChatViews
    <2> QED
      BY <2>1, <2>3
  <1>4. CASE ~v.over /\ w.event = "call" /\ w.idx + 1 \in DOMAIN v.calls
    <2> DEFINE k == w.idx + 1
               s == v.sound /\ ~v.finished /\ w.id = NoCall
               call == [v.calls[k] EXCEPT !.text = @ \o w.text]
               all == [v.calls EXCEPT ![k] = call]
    <2>1. k \in DOMAIN v.calls
      BY <1>4
    <2>2. ReadChunk(v, w) = [v EXCEPT !.calls[k].text = @ \o w.text, !.sound = s]
      BY <1>4 DEF ReadChunk
    <2>3. s \in BOOLEAN
      OBVIOUS
    <2>4. v.calls[k] \in SeenCall(t)
      BY <1>0, <2>1, ElementOfSeq, LenProperties
    <2>5. call \in SeenCall(t)
      <3>1. v.calls[k].text \o w.text \in OwnText(t)
        BY <1>0, <2>4, OwnConcat DEF SeenCall
      <3> QED
        BY <2>4, <3>1 DEF SeenCall
    <2> HIDE DEF s
    <2>6. [v EXCEPT !.calls[k].text = @ \o w.text, !.sound = s] = [v EXCEPT !.calls = all, !.sound = s]
      BY DEF ChatViews
    <2> HIDE DEF call, k
    <2>7. all \in Seq(SeenCall(t))
      BY <1>0, <2>1, <2>5, PlaceTakes
    <2> HIDE DEF all
    <2>8. [v EXCEPT !.calls = all, !.sound = s] \in ChatViews(t)
      BY <2>3, <2>7 DEF ChatViews
    <2> QED
      BY <2>2, <2>6, <2>8
  <1>5. CASE ~v.over /\ w.event = "call" /\ w.idx + 1 \notin DOMAIN v.calls
    <2> DEFINE s == v.sound /\ ~v.finished /\ w.idx = Len(v.calls) /\ w.id # NoCall
               new == [id |-> w.id, text |-> w.text]
               all == Append(v.calls, new)
    <2>1. ReadChunk(v, w) = [v EXCEPT !.calls = all, !.sound = s]
      BY <1>5 DEF ReadChunk
    <2>2. s \in BOOLEAN
      OBVIOUS
    <2>3. new \in SeenCall(t)
      BY <1>0 DEF SeenCall
    <2> HIDE DEF s, new
    <2>4. all \in Seq(SeenCall(t))
      BY <1>0, <2>3, AppendProperties
    <2> HIDE DEF all
    <2>5. [v EXCEPT !.calls = all, !.sound = s] \in ChatViews(t)
      BY <2>2, <2>4 DEF ChatViews
    <2> QED
      BY <2>1, <2>5
  <1>6. CASE ~v.over /\ w.event \in {"finish", "error"}
    <2> DEFINE s == v.sound /\ ~v.finished
    <2>1. ReadChunk(v, w) = [v EXCEPT !.finished = TRUE, !.sound = s]
      BY <1>6 DEF ReadChunk
    <2>2. s \in BOOLEAN
      OBVIOUS
    <2> HIDE DEF s
    <2>3. [v EXCEPT !.finished = TRUE, !.sound = s] \in ChatViews(t)
      BY <2>2 DEF ChatViews
    <2> QED
      BY <2>1, <2>3
  <1>7. CASE ~v.over /\ w.event = "done"
    <2> DEFINE s == v.sound /\ v.finished
    <2>1. ReadChunk(v, w) = [v EXCEPT !.over = TRUE, !.sound = s]
      BY <1>7 DEF ReadChunk
    <2>2. s \in BOOLEAN
      OBVIOUS
    <2> HIDE DEF s
    <2>3. [v EXCEPT !.over = TRUE, !.sound = s] \in ChatViews(t)
      BY <2>2 DEF ChatViews
    <2> QED
      BY <2>1, <2>3
  <1>8. w.event \in {"reasoning", "content", "call", "finish", "error", "done"}
    BY DEF Chunks
  <1> QED
    BY <1>1, <1>2, <1>3, <1>4, <1>5, <1>6, <1>7, <1>8

LEMMA WireIsRead ==
  ASSUME NEW t, NEW v, NEW wire
  PROVE  /\ v \in Views(t) /\ wire \in Seq(Frames(t)) => FoldLeft(Read, v, wire) \in Views(t)
         /\ v \in ChatViews(t) /\ wire \in Seq(Chunks(t)) => FoldLeft(ReadChunk, v, wire) \in ChatViews(t)
  <1>1. ASSUME v \in Views(t), wire \in Seq(Frames(t)) PROVE FoldLeft(Read, v, wire) \in Views(t)
    <2> DEFINE n == Len(wire)
               V == Views(t)
    <2>1. n \in Nat /\ DOMAIN wire = 1 .. n /\ \A k \in 1 .. n : wire[k] \in Frames(t)
      BY <1>1, LenProperties, ElementOfSeq
    <2> HIDE DEF n
    <2>2. v \in V /\ \A x \in V, k \in 1 .. n : Read(x, wire[k]) \in V
      BY <1>1, <2>1, ReadOK
    <2> HIDE DEF V
    <2>3. FoldLeft(Read, v, wire) \in V
      BY <2>1, <2>2, FoldRead
    <2> QED
      BY <2>3 DEF V
  <1>2. ASSUME v \in ChatViews(t), wire \in Seq(Chunks(t)) PROVE FoldLeft(ReadChunk, v, wire) \in ChatViews(t)
    <2> DEFINE n == Len(wire)
               V == ChatViews(t)
    <2>1. n \in Nat /\ DOMAIN wire = 1 .. n /\ \A k \in 1 .. n : wire[k] \in Chunks(t)
      BY <1>2, LenProperties, ElementOfSeq
    <2> HIDE DEF n
    <2>2. v \in V /\ \A x \in V, k \in 1 .. n : ReadChunk(x, wire[k]) \in V
      BY <1>2, <2>1, ReadChunkOK
    <2> HIDE DEF V
    <2>3. FoldLeft(ReadChunk, v, wire) \in V
      BY <2>1, <2>2, FoldReadChunk
    <2> QED
      BY <2>3 DEF V
  <1> QED
    BY <1>1, <1>2

LEMMA NewViewsAreOwn ==
  ASSUME NEW t
  PROVE  NewView \in Views(t) /\ NewChatView \in ChatViews(t)
  <1>1. <<>> \in OwnText(t) /\ <<>> \in OwnOutput(t) /\ <<>> \in Seq(SeenItem(t)) /\ <<>> \in Seq(SeenCall(t))
    BY OwnEmpty, EmptySeq
  <1>2. NewView \in Views(t)
    BY <1>1 DEF NewView, Views
  <1>3. NewChatView \in ChatViews(t)
    BY <1>1 DEF NewChatView, ChatViews
  <1> QED
    BY <1>2, <1>3

----------------------------------------------------------------------------
(* The state belongs to its turn. What is left of the turn before is a       *)
(* reasoning block that may still come, and the runner ignores it.           *)

SdkFields == {"turn", "named", "opaque", "begun", "n", "state", "block", "blocks", "blockState",
              "sealed", "message", "frags", "late", "tail", "badCalls"}

SdkOK(s, t) ==
  /\ DOMAIN s = SdkFields /\ s.turn = t /\ s.n \in Nat /\ s.blocks \in Nat
  /\ s.named \in BOOLEAN /\ s.opaque \in BOOLEAN /\ s.begun \in BOOLEAN
  /\ s.block \in OwnText(t) /\ s.message \in OwnText(t) /\ s.frags \in [Tools -> OwnText(t)]
  /\ ~s.begun => s.blockState = "none"

RunFields == {"text", "contentBytes", "reasoningBytes", "toolBytes", "consolidated", "deltas",
              "encrypted", "id", "ignoreLateFinal", "ignoreLateFinalID", "messageItemID",
              "reasoningItemID", "itemOrder", "alive"}

BlockIds(t) == {NoId} \cup {<<"block", t, k>> : k \in Nat}

RunOK(r, t) ==
  /\ DOMAIN r = RunFields
  /\ r.text \in OwnText(t) /\ r.consolidated \in OwnText(t) /\ r.deltas \in OwnText(t)
  /\ r.id \in BlockIds(t) /\ r.itemOrder \in Seq(OwnIds(t))
  /\ r.messageItemID \in OwnIds(t) \cup {NoId} /\ r.reasoningItemID \in OwnIds(t) \cup {NoId}
  /\ r.encrypted \in BOOLEAN /\ r.ignoreLateFinal \in BOOLEAN /\ r.alive \in BOOLEAN

\* Nothing of the turn is left in the runner.
Rested(r) ==
  /\ r.text = <<>> /\ r.consolidated = <<>> /\ r.deltas = <<>> /\ r.itemOrder = <<>>
  /\ r.id = NoId /\ r.messageItemID = NoId /\ r.reasoningItemID = NoId /\ ~r.encrypted

\* What comes late is ignored, whether or not it comes with its id.
Ignored(s, r) ==
  s.late # <<>> => /\ r.ignoreLateFinal
                   /\ r.ignoreLateFinalID = NoId \/ s.late[1].id \in {NoId, r.ignoreLateFinalID}

\* The runner's block is the one the model is in.
BlocksAgree(s, r) ==
  /\ ~s.named => r.id = NoId
  /\ s.state = "running" /\ s.blockState = "streaming" => r.id = BlockId(s)
  /\ s.state = "waiting" => Rested(r)
  /\ Ignored(s, r)

\* The stream that is attached, what is on its channel, and what was saved.
DeskOK(k, c, saved, t) ==
  /\ DOMAIN k = {"surface", "done"} /\ k.done \in BOOLEAN
  /\ c \in Seq(OwnEvent(t)) /\ (k.done => c = <<>>)
  /\ saved \in OwnResponse(t)

RunnerOK(t) ==
  /\ SdkOK(sdk, t) /\ RunOK(run, t) /\ DeskOK(sink, chan, stored, t)
  /\ run.alive => BlocksAgree(sdk, run)

ClientOK(kind, e, v, t) ==
  IF kind = "chat" THEN e \in Chats(t) /\ v \in ChatViews(t) ELSE EncOK(e, t) /\ v \in Views(t)

\* The encoder serves the stream until it is done with it.
ServedOK(t) ==
  /\ ClientOK(surface, enc, view, t)
  /\ enc.wire = <<>>
  /\ enc.status # "open" => sink.done

OwnState(t) == RunnerOK(t) /\ ServedOK(t)

LEMMA BlockIdIsOwn ==
  ASSUME NEW t, NEW s, SdkOK(s, t)
  PROVE  BlockId(s) \in BlockIds(t)
  BY DEF BlockId, BlockIds, SdkOK

LEMMA PiecesAreOwn ==
  ASSUME NEW t, SdkOK(sdk, t), NEW k \in Nat
  PROVE  NewPieces(k) \in OwnText(t) /\ <<Piece(sdk.turn, sdk.n + k)>> \in OwnText(t)
  <1>1. \A i \in Nat : Piece(sdk.turn, sdk.n + i) \in Own(t)
    BY DEF SdkOK, Piece, Own
  <1>2. NewPieces(k) \in [1 .. k -> Own(t)]
    BY <1>1 DEF NewPieces
  <1>3. NewPieces(k) \in Seq(Own(t))
    BY <1>2
  <1>4. <<Piece(sdk.turn, sdk.n + k)>> \in Seq(Own(t))
    BY <1>1
  <1> QED
    BY <1>3, <1>4 DEF OwnText

LEMMA ItemIDsAreOwn ==
  ASSUME NEW t, SdkOK(sdk, t), NEW r, RunOK(r, t), NEW id \in BlockIds(t)
  PROVE  MessageItemID(r) \in OwnIds(t) /\ ReasoningItemID(r, id) \in OwnIds(t)
  <1>1. sdk.turn = t
    BY DEF SdkOK
  <1>2. MessageItemID(r) \in OwnIds(t)
    BY <1>1 DEF MessageItemID, RunOK, OwnIds
  <1>3. r.reasoningItemID = NoId \/ r.reasoningItemID \in OwnIds(t)
    BY DEF RunOK
  <1>4. CASE id = NoId
    <2> DEFINE x == <<"rs", t, 0>>
    <2>1. x \in OwnIds(t)
      BY DEF OwnIds
    <2>2. ReasoningItemID(r, id) = IF r.reasoningItemID # NoId THEN r.reasoningItemID ELSE x
      BY <1>1, <1>4 DEF ReasoningItemID
    <2> HIDE DEF x
    <2>3. ReasoningItemID(r, id) \in OwnIds(t)
      BY <1>3, <2>1, <2>2
    <2> QED
      BY <1>2, <2>3
  <1>5. CASE id # NoId
    <2>1. PICK k \in Nat : id = <<"block", t, k>>
      BY <1>5 DEF BlockIds
    <2> DEFINE x == <<"rs", id[2], id[3]>>
    <2>2. x = <<"rs", t, k>>
      BY <2>1
    <2>3. <<"rs", t, k>> \in OwnIds(t)
      BY DEF OwnIds
    <2>4. ReasoningItemID(r, id) = IF r.reasoningItemID # NoId THEN r.reasoningItemID ELSE x
      BY <1>5 DEF ReasoningItemID
    <2> HIDE DEF x
    <2>5. ReasoningItemID(r, id) \in OwnIds(t)
      BY <1>3, <2>2, <2>3, <2>4
    <2> QED
      BY <1>2, <2>5
  <1> QED
    BY <1>2, <1>4, <1>5

LEMMA ToolItemIdIsOwn ==
  ASSUME NEW t, NEW tool \in Tools
  PROVE  ToolItemId(t, tool) \in OwnIds(t)
  <1> DEFINE x == CASE Kind[tool] = "custom" -> "ctc" [] Kind[tool] = "search" -> "tsc" [] OTHER -> "fc"
  <1>1. x \in {"fc", "ctc", "tsc"}
    OBVIOUS
  <1>2. ToolItemId(t, tool) = <<x, t, tool>>
    BY DEF ToolItemId
  <1> HIDE DEF x
  <1>3. <<x, t, tool>> \in {<<y, t, z>> : y \in {"fc", "ctc", "tsc"}, z \in Tools}
    BY <1>1
  <1> QED
    BY <1>2, <1>3 DEF OwnIds

LEMMA AnnouncedOK ==
  ASSUME NEW t, NEW r, RunOK(r, t), NEW id \in OwnIds(t)
  PROVE  RunOK(Announced(r, id), t) /\ Announced(r, id).id = r.id /\ Announced(r, id).alive = r.alive
  <1> DEFINE order == Append(r.itemOrder, id)
             x == [r EXCEPT !.itemOrder = order]
  <1>1. order \in Seq(OwnIds(t))
    BY AppendProperties DEF RunOK
  <1>2. Announced(r, id) = r \/ Announced(r, id) = x
    BY DEF Announced
  <1> HIDE DEF order
  <1>3. RunOK(x, t) /\ x.id = r.id /\ x.alive = r.alive
    BY <1>1 DEF RunOK, RunFields
  <1> HIDE DEF x
  <1> QED
    BY <1>2, <1>3

LEMMA AddDeltaOK ==
  ASSUME NEW t, NEW r, RunOK(r, t), NEW text \in OwnText(t), NEW id \in BlockIds(t)
  PROVE  /\ RunOK(AddDelta(r, text, id), t)
         /\ AddDelta(r, text, id).id = (IF id # NoId THEN id ELSE r.id)
         /\ AddDelta(r, text, id).alive = r.alive
  <1> DEFINE newTurn == r.ignoreLateFinalID = NoId \/ (id # NoId /\ id # r.ignoreLateFinalID)
             seen == IF r.ignoreLateFinal /\ newTurn THEN StopIgnoring(r) ELSE r
             name == IF id # NoId THEN id ELSE seen.id
             deltas == IF r.consolidated = <<>> THEN seen.deltas \o text ELSE seen.deltas
  <1>1. AddDelta(r, text, id) = [seen EXCEPT !.id = name, !.deltas = deltas]
    BY DEF AddDelta
  <1>2. RunOK(seen, t) /\ seen.id = r.id /\ seen.alive = r.alive
    <2>1. RunOK(StopIgnoring(r), t) /\ StopIgnoring(r).id = r.id /\ StopIgnoring(r).alive = r.alive
      BY DEF StopIgnoring, RunOK, RunFields
    <2> QED
      BY <2>1
  <1>3. name = (IF id # NoId THEN id ELSE r.id)
    BY <1>2
  <1> HIDE DEF seen
  <1>4. deltas \in OwnText(t)
    BY <1>2, OwnConcat DEF RunOK
  <1>5. name \in BlockIds(t)
    BY <1>2 DEF RunOK
  <1> HIDE DEF name, deltas
  <1> DEFINE x == [seen EXCEPT !.id = name, !.deltas = deltas]
  <1>6. RunOK(x, t) /\ x.id = name /\ x.alive = seen.alive
    BY <1>2, <1>4, <1>5 DEF RunOK, RunFields
  <1> HIDE DEF x
  <1> QED
    BY <1>1, <1>2, <1>3, <1>6 DEF x

LEMMA AddConsolidatedOK ==
  ASSUME NEW t, NEW r, RunOK(r, t), NEW text \in OwnText(t), NEW id \in BlockIds(t)
  PROVE  /\ RunOK(AddConsolidated(r, text, id), t)
         /\ AddConsolidated(r, text, id).id \in {r.id, id}
         /\ AddConsolidated(r, text, id).alive = r.alive
  <1> DEFINE s == StopIgnoring(r)
             whole == IF text # <<>> THEN text ELSE s.consolidated
             deltas == IF text # <<>> THEN <<>> ELSE s.deltas
             name == IF id # NoId THEN id ELSE s.id
             x == [s EXCEPT !.consolidated = whole, !.deltas = deltas, !.id = name]
  <1>1. AddConsolidated(r, text, id) = IF IsLateFinal(r, id) THEN r ELSE x
    BY DEF AddConsolidated
  <1>2. RunOK(s, t) /\ s.id = r.id /\ s.alive = r.alive
    BY DEF StopIgnoring, RunOK, RunFields
  <1> HIDE DEF s
  <1>3. whole \in OwnText(t) /\ deltas \in OwnText(t)
    BY <1>2, OwnEmpty DEF RunOK
  <1>4. name \in BlockIds(t) /\ name \in {r.id, id}
    BY <1>2 DEF RunOK
  <1> HIDE DEF whole, deltas, name
  <1>5. RunOK(x, t) /\ x.id = name /\ x.alive = r.alive
    BY <1>2, <1>3, <1>4 DEF RunOK, RunFields
  <1> HIDE DEF x
  <1> QED
    BY <1>1, <1>4, <1>5

LEMMA ResponseIsOwn ==
  ASSUME NEW t, SdkOK(sdk, t), NEW r, RunOK(r, t), NEW calls \in OwnOutput(t)
  PROVE  ResponseFromTurn(r, calls) \in OwnResponse(t)
  <1> DEFINE reasoning == ReasoningItems(r)
             message == MessageItems(r, calls)
             front == reasoning \o message
             items == front \o calls
             order == r.itemOrder
             first == FlattenSeq([i \in DOMAIN order |-> WithId(items, order[i])])
             others == Chosen(items, {i \in DOMAIN items : ~Contains(order, items[i].id)})
             output == first \o others
  <1>1. Resolved(r) \in OwnText(t) /\ r.text \in OwnText(t)
    BY DEF Resolved, RunOK
  <1>2. reasoning \in OwnOutput(t)
    <2>1. r.id \in BlockIds(t) /\ r.encrypted \in BOOLEAN /\ "reasoning" \in ItemTypes
      BY DEF RunOK, ItemTypes
    <2>2. ReasoningItemID(r, r.id) \in OwnIds(t)
      BY <2>1, ItemIDsAreOwn
    <2>3. <<Item(ReasoningItemID(r, r.id), "reasoning", Resolved(r), r.encrypted)>> \in OwnOutput(t)
      BY <1>1, <2>1, <2>2, ItemIsOwn
    <2> QED
      BY <2>3, OwnEmpty DEF ReasoningItems
  <1>3. message \in OwnOutput(t)
    <2>1. NoId \in BlockIds(t) /\ "message" \in ItemTypes
      BY DEF BlockIds, ItemTypes
    <2>2. MessageItemID(r) \in OwnIds(t)
      BY <2>1, ItemIDsAreOwn
    <2>3. <<Item(MessageItemID(r), "message", r.text, FALSE)>> \in OwnOutput(t)
      BY <1>1, <2>1, <2>2, ItemIsOwn
    <2> QED
      BY <2>3, OwnEmpty DEF MessageItems
  <1>4. ResponseFromTurn(r, calls) =
          [status |-> "completed", text |-> r.text, reasoning |-> Resolved(r), calls |-> calls, output |-> output]
    BY DEF ResponseFromTurn, OrderOutputItems
  <1> HIDE DEF reasoning, message
  <1>5. front \in OwnOutput(t)
    BY <1>2, <1>3, ConcatProperties DEF OwnOutput
  <1> HIDE DEF front
  <1>6. items \in OwnOutput(t)
    BY <1>5, ConcatProperties DEF OwnOutput
  <1> HIDE DEF items
  <1>7. first \in OwnOutput(t)
    <2>1. Len(order) \in Nat /\ DOMAIN order = 1 .. Len(order)
      BY LenProperties DEF RunOK
    <2> QED
      BY <1>6, <2>1, OwnOrdered
  <1>8. others \in OwnOutput(t)
    BY <1>6, OwnChosen DEF OwnOutput
  <1> HIDE DEF first, others
  <1>9. output \in OwnOutput(t)
    BY <1>7, <1>8, ConcatProperties DEF OwnOutput
  <1> HIDE DEF output
  <1> QED
    BY <1>1, <1>4, <1>9 DEF OwnResponse

LEMMA SentOK ==
  ASSUME NEW t, DeskOK(sink, chan, stored, t), NEW events \in Seq(OwnEvent(t))
  PROVE  DeskOK(sink, Sent(events), stored, t)
  <1>1. chan \o events \in Seq(OwnEvent(t))
    BY ConcatProperties DEF DeskOK
  <1> QED
    BY <1>1 DEF DeskOK, Sent

LEMMA DeltaIsOwn ==
  ASSUME NEW t, NEW kind \in {"reasoning_delta", "delta", "tool_call_delta"}, NEW id \in OwnIds(t),
         NEW text \in OwnText(t)
  PROVE  <<DeltaEvent(kind, id, text)>> \in Seq(OwnEvent(t))
  <1>1. DeltaEvent(kind, id, text) \in OwnEvent(t)
    BY DEF DeltaEvent, OwnEvent
  <1> QED
    BY <1>1

\* The runner is gone; the stream was told, if somebody still follows it.
GoneOK(t) ==
  /\ RunOK(run', t) /\ ~run'.alive
  /\ sink'.done = sink.done
  /\ DeskOK(sink', chan', stored', t)

LEMMA SinkTaken ==
  ASSUME NEW t, DeskOK(sink, chan, stored, t), NEW c, sink.done => c = <<>>, c \in Seq(OwnEvent(t)),
         NEW saved \in OwnResponse(t)
  PROVE  /\ DeskOK([sink EXCEPT !.surface = "none"], c, saved, t)
         /\ [sink EXCEPT !.surface = "none"].done = sink.done
  BY DEF DeskOK

LEMMA AppendedOK ==
  ASSUME NEW t, DeskOK(sink, chan, stored, t), NEW ev \in OwnEvent(t)
  PROVE  /\ (IF sink.done THEN chan ELSE Append(chan, ev)) \in Seq(OwnEvent(t))
         /\ sink.done => (IF sink.done THEN chan ELSE Append(chan, ev)) = <<>>
  <1>1. Append(chan, ev) \in Seq(OwnEvent(t))
    BY AppendProperties DEF DeskOK
  <1> QED
    BY <1>1 DEF DeskOK

LEMMA GivesUpOK ==
  ASSUME NEW t, RunOK(run, t), DeskOK(sink, chan, stored, t), GivesUp, stored' = stored
  PROVE  GoneOK(t)
  <1> DEFINE c == IF sink.done THEN chan ELSE Append(chan, [kind |-> "error"])
  <1>1. chan' = c /\ sink' = [sink EXCEPT !.surface = "none"] /\ run' = [run EXCEPT !.alive = FALSE]
    BY DEF GivesUp, EmitError
  <1>2. [kind |-> "error"] \in OwnEvent(t)
    BY DEF OwnEvent
  <1>3. c \in Seq(OwnEvent(t)) /\ (sink.done => c = <<>>)
    BY <1>2, AppendedOK
  <1> HIDE DEF c
  <1>4. stored \in OwnResponse(t)
    BY DEF DeskOK
  <1>5. DeskOK(sink', chan', stored', t) /\ sink'.done = sink.done
    BY <1>1, <1>3, <1>4, SinkTaken
  <1>6. RunOK(run', t) /\ ~run'.alive
    BY <1>1 DEF RunOK, RunFields
  <1> QED
    BY <1>5, <1>6 DEF GoneOK

LEMMA EmitResultOK ==
  ASSUME NEW t, SdkOK(sdk, t), RunOK(run, t), DeskOK(sink, chan, stored, t), NEW r, RunOK(r, t),
         NEW calls \in OwnOutput(t), NEW next, EmitResult(r, calls, next)
  PROVE  /\ DeskOK(sink', chan', stored', t) /\ sink'.done = sink.done
         /\ run' = next \/ GoneOK(t)
  <1> DEFINE response == ResponseFromTurn(r, calls)
             ev == [kind |-> "result", response |-> response]
             c == IF sink.done THEN chan ELSE Append(chan, ev)
  <1>1. \/ stored' = response /\ chan' = c /\ sink' = [sink EXCEPT !.surface = "none"] /\ run' = next
        \/ GivesUp /\ stored' = stored
    BY DEF EmitResult
  <1>2. response \in OwnResponse(t)
    BY ResponseIsOwn
  <1> HIDE DEF response
  <1>3. CASE stored' = response /\ chan' = c /\ sink' = [sink EXCEPT !.surface = "none"] /\ run' = next
    <2>1. ev \in OwnEvent(t)
      BY <1>2 DEF OwnEvent
    <2> HIDE DEF ev
    <2>2. c \in Seq(OwnEvent(t)) /\ (sink.done => c = <<>>)
      BY <2>1, AppendedOK
    <2> HIDE DEF c
    <2>3. DeskOK(sink', chan', stored', t) /\ sink'.done = sink.done
      BY <1>2, <1>3, <2>2, SinkTaken
    <2> QED
      BY <1>3, <2>3
  <1>4. CASE GivesUp /\ stored' = stored
    <2>1. GoneOK(t)
      BY <1>4, GivesUpOK
    <2> QED
      BY <2>1 DEF GoneOK
  <1> QED
    BY <1>1, <1>3, <1>4

\* What a step of the runner keeps.
Kept(t) == RunnerOK(t)' /\ sink'.done = sink.done

LEMMA GoneKeeps ==
  ASSUME NEW t, SdkOK(sdk', t), GoneOK(t)
  PROVE  Kept(t)
  BY DEF Kept, RunnerOK, GoneOK

LEMMA FreshRunOK ==
  ASSUME NEW t
  PROVE  RunOK(FreshRun, t) /\ Rested(FreshRun)
  <1>1. <<>> \in OwnText(t) /\ <<>> \in Seq(OwnIds(t)) /\ NoId \in BlockIds(t)
    BY OwnEmpty, EmptySeq DEF BlockIds
  <1> QED
    BY <1>1 DEF RunOK, RunFields, FreshRun, Rested

LEMMA GrowBlockOK ==
  ASSUME NEW t, SdkOK(sdk, t), NEW k \in Nat, NEW state
  PROVE  LET s == GrowBlock(k, state)
         IN /\ SdkOK(s, t) /\ s.named = sdk.named /\ s.state = sdk.state /\ s.late = <<>>
            /\ s.blockState = state
  <1> DEFINE fresh == sdk.blockState # "streaming"
             n == sdk.n + k
             blocks == IF fresh THEN sdk.blocks + 1 ELSE sdk.blocks
             sealed == IF fresh THEN FALSE ELSE sdk.sealed
             block == IF fresh THEN NewPieces(k) ELSE sdk.block \o NewPieces(k)
             none == <<>>
             s == [sdk EXCEPT !.begun = TRUE, !.n = n, !.late = none, !.blockState = state,
                              !.blocks = blocks, !.sealed = sealed, !.block = block]
  <1>1. GrowBlock(k, state) = s
    BY DEF GrowBlock
  <1>2. n \in Nat /\ blocks \in Nat
    BY DEF SdkOK
  <1>3. block \in OwnText(t)
    BY PiecesAreOwn, OwnConcat DEF SdkOK
  <1> HIDE DEF n, blocks, sealed, block, none
  <1>4. SdkOK(s, t) /\ s.named = sdk.named /\ s.state = sdk.state /\ s.late = none /\ s.blockState = state
    BY <1>2, <1>3 DEF SdkOK, SdkFields
  <1> HIDE DEF s
  <1> QED
    BY <1>1, <1>4 DEF none

LEMMA TurnStartsKeeps ==
  ASSUME NEW t, RunnerOK(t), TurnStarts
  PROVE  Kept(t)
  <1> DEFINE none == <<>>
             s == [sdk EXCEPT !.begun = TRUE, !.late = none]
  <1>1. SdkOK(sdk, t) /\ DeskOK(sink, chan, stored, t) /\ sdk.blockState = "none" /\ sdk.state = "running"
    BY DEF RunnerOK, TurnStarts, SdkOK, Producing
  <1>2. sdk' = s /\ run' = FreshRun /\ sink' = sink /\ chan' = chan /\ stored' = stored
    BY DEF TurnStarts
  <1> HIDE DEF none
  <1>3. SdkOK(s, t) /\ s.blockState = "none" /\ s.state = "running" /\ s.late = none
    BY <1>1 DEF SdkOK, SdkFields
  <1> HIDE DEF s
  <1>4. RunOK(FreshRun, t) /\ FreshRun.id = NoId
    BY FreshRunOK DEF Rested
  <1>5. BlocksAgree(s, FreshRun)
    BY <1>3, <1>4 DEF BlocksAgree, Ignored, none
  <1>6. DeskOK(sink', chan', stored', t)
    BY <1>1, <1>2
  <1> QED
    BY <1>2, <1>3, <1>4, <1>5, <1>6 DEF Kept, RunnerOK

LEMMA ReasoningDeltaKeeps ==
  ASSUME NEW t, RunnerOK(t), ReasoningDelta
  PROVE  Kept(t)
  <1> DEFINE s == GrowBlock(1, "streaming")
             text == NewPieces(1)
             id == BlockId(s)
             d == AddDelta(run, text, id)
             r == [d EXCEPT !.reasoningBytes = @ + 1]
             item == ReasoningItemID(r, id)
             named == [r EXCEPT !.reasoningItemID = item]
             next == IF sink.surface = "sse" THEN Announced(named, item) ELSE r
             events == <<DeltaEvent("reasoning_delta", item, text)>>
  <1>1. SdkOK(sdk, t) /\ RunOK(run, t) /\ DeskOK(sink, chan, stored, t) /\ BlocksAgree(sdk, run)
        /\ sdk.state = "running" /\ stored' = stored
    BY DEF RunnerOK, ReasoningDelta, Producing
  <1>2. sdk' = s
    BY DEF ReasoningDelta
  <1>3. GivesUp \/ (run' = next /\ chan' = Sent(events) /\ sink' = sink)
    BY <1>2 DEF ReasoningDelta
  <1>4. SdkOK(s, t) /\ s.named = sdk.named /\ s.state = "running" /\ s.late = <<>> /\ s.blockState = "streaming"
    BY <1>1, GrowBlockOK
  <1> HIDE DEF s
  <1>5. CASE GivesUp
    <2>1. GoneOK(t)
      BY <1>1, <1>5, GivesUpOK
    <2> QED
      BY <1>2, <1>4, <2>1, GoneKeeps
  <1>6. CASE run' = next /\ chan' = Sent(events) /\ sink' = sink
    <2>1. id \in BlockIds(t) /\ text \in OwnText(t) /\ (~s.named => id = NoId) /\ (s.named => id # NoId)
      BY <1>1, <1>4, BlockIdIsOwn, PiecesAreOwn DEF BlockId, NoId
    <2>2. id = BlockId(s)
      OBVIOUS
    <2> HIDE DEF id, text
    <2>3. RunOK(d, t) /\ d.id = (IF id # NoId THEN id ELSE run.id)
      BY <1>1, <2>1, AddDeltaOK
    <2> HIDE DEF d
    <2>4. d.id = id
      BY <1>1, <1>4, <2>1, <2>3 DEF BlocksAgree
    <2>5. RunOK(r, t) /\ r.id = id
      BY <2>3, <2>4 DEF RunOK, RunFields
    <2> HIDE DEF r
    <2>6. item \in OwnIds(t)
      BY <1>1, <2>1, <2>5, ItemIDsAreOwn
    <2> HIDE DEF item
    <2>7. RunOK(named, t) /\ named.id = id
      BY <2>5, <2>6 DEF RunOK, RunFields
    <2> HIDE DEF named
    <2>8. RunOK(next, t) /\ next.id = id
      BY <2>5, <2>6, <2>7, AnnouncedOK
    <2> HIDE DEF next
    <2>9. events \in Seq(OwnEvent(t))
      BY <2>1, <2>6, DeltaIsOwn
    <2> HIDE DEF events
    <2>10. DeskOK(sink', chan', stored', t)
      BY <1>1, <1>6, <2>9, SentOK
    <2>11. BlocksAgree(s, next)
      BY <1>4, <2>1, <2>2, <2>8 DEF BlocksAgree, Ignored
    <2> QED
      BY <1>2, <1>4, <1>6, <2>8, <2>10, <2>11 DEF Kept, RunnerOK
  <1> QED
    BY <1>3, <1>5, <1>6

LEMMA ReasoningBlockKeeps ==
  ASSUME NEW t, RunnerOK(t), ReasoningBlock
  PROVE  Kept(t)
  <1>1. SdkOK(sdk, t) /\ RunOK(run, t) /\ DeskOK(sink, chan, stored, t) /\ BlocksAgree(sdk, run)
        /\ sdk.state = "running" /\ stored' = stored
    BY DEF RunnerOK, ReasoningBlock, Producing
  <1>2. PICK k \in 0 .. 1, withId \in BOOLEAN :
          /\ sdk' = GrowBlock(k, "final")
          /\ \/ GivesUp
             \/ /\ run' = AddConsolidated(run, sdk'.block, IF withId THEN BlockId(sdk') ELSE NoId)
                /\ chan' = chan /\ sink' = sink
    BY DEF ReasoningBlock
  <1> DEFINE s == GrowBlock(k, "final")
             id == IF withId THEN BlockId(s) ELSE NoId
             next == AddConsolidated(run, s.block, id)
  <1>3. k \in Nat
    OBVIOUS
  <1>4. SdkOK(s, t) /\ s.named = sdk.named /\ s.state = "running" /\ s.late = <<>> /\ s.blockState = "final"
    BY <1>1, <1>3, GrowBlockOK
  <1>5. sdk' = s
    BY <1>2
  <1>6. GivesUp \/ (run' = next /\ chan' = chan /\ sink' = sink)
    BY <1>2
  <1> HIDE DEF s
  <1>7. CASE GivesUp
    <2>1. GoneOK(t)
      BY <1>1, <1>7, GivesUpOK
    <2> QED
      BY <1>4, <1>5, <2>1, GoneKeeps
  <1>8. CASE run' = next /\ chan' = chan /\ sink' = sink
    <2>1. id \in BlockIds(t) /\ (~s.named => id = NoId) /\ s.block \in OwnText(t)
      <3>1. BlockId(s) \in BlockIds(t) /\ NoId \in BlockIds(t)
        BY <1>4, BlockIdIsOwn DEF BlockIds
      <3> QED
        BY <1>4, <3>1 DEF SdkOK, BlockId
    <2> HIDE DEF id
    <2>2. RunOK(next, t) /\ next.id \in {run.id, id}
      BY <1>1, <2>1, AddConsolidatedOK
    <2> HIDE DEF next
    <2>3. BlocksAgree(s, next)
      BY <1>1, <1>4, <2>1, <2>2 DEF BlocksAgree, Ignored
    <2>4. DeskOK(sink', chan', stored', t)
      BY <1>1, <1>8
    <2> QED
      BY <1>4, <1>5, <1>8, <2>2, <2>3, <2>4 DEF Kept, RunnerOK
  <1> QED
    BY <1>6, <1>7, <1>8

\* A block that comes after its turn's result changes nothing.
LEMMA LateReasoningBlockKeeps ==
  ASSUME NEW t, RunnerOK(t), LateReasoningBlock
  PROVE  Kept(t)
  <1> DEFINE none == <<>>
             s == [sdk EXCEPT !.late = none]
  <1>1. SdkOK(sdk, t) /\ RunOK(run, t) /\ DeskOK(sink, chan, stored, t) /\ BlocksAgree(sdk, run) /\ sdk.late # <<>>
    BY DEF RunnerOK, LateReasoningBlock
  <1>2. sdk' = s /\ sink' = sink /\ chan' = chan /\ stored' = stored
    BY DEF LateReasoningBlock
  <1>3. PICK id \in {NoId, sdk.late[1].id} : run' = AddConsolidated(run, sdk.late[1].text, id)
    BY DEF LateReasoningBlock
  <1>4. IsLateFinal(run, id)
    BY <1>1 DEF BlocksAgree, Ignored, IsLateFinal
  <1>5. run' = run
    BY <1>3, <1>4 DEF AddConsolidated
  <1> HIDE DEF none
  <1>6. SdkOK(s, t) /\ s.named = sdk.named /\ s.state = sdk.state /\ s.blockState = sdk.blockState
        /\ s.late = none /\ BlockId(s) = BlockId(sdk)
    BY <1>1 DEF SdkOK, SdkFields, BlockId
  <1> HIDE DEF s
  <1>7. BlocksAgree(s, run)
    BY <1>1, <1>6 DEF BlocksAgree, Ignored, none
  <1>8. DeskOK(sink', chan', stored', t)
    BY <1>1, <1>2
  <1> QED
    BY <1>1, <1>2, <1>5, <1>6, <1>7, <1>8 DEF Kept, RunnerOK

LEMMA MessageDeltaKeeps ==
  ASSUME NEW t, RunnerOK(t), MessageDelta
  PROVE  Kept(t)
  <1> DEFINE none == <<>>
             text == NewPieces(1)
             more == sdk.message \o text
             n == sdk.n + 1
             s == [sdk EXCEPT !.begun = TRUE, !.n = n, !.late = none, !.sealed = TRUE, !.message = more]
             item == MessageItemID(run)
             r == [run EXCEPT !.contentBytes = @ + 1]
             named == [r EXCEPT !.messageItemID = item]
             next == IF sink.surface = "sse" THEN Announced(named, item) ELSE r
             events == <<DeltaEvent("delta", item, text)>>
  <1>1. SdkOK(sdk, t) /\ RunOK(run, t) /\ DeskOK(sink, chan, stored, t) /\ BlocksAgree(sdk, run)
        /\ sdk.state = "running" /\ stored' = stored
    BY DEF RunnerOK, MessageDelta, Producing
  <1>2. sdk' = s
    BY DEF MessageDelta
  <1>3. GivesUp \/ (run' = next /\ chan' = Sent(events) /\ sink' = sink)
    BY DEF MessageDelta
  <1>4. text \in OwnText(t) /\ more \in OwnText(t) /\ n \in Nat
    <2>1. text \in OwnText(t)
      BY <1>1, PiecesAreOwn
    <2>2. sdk.message \in OwnText(t) /\ n \in Nat
      BY <1>1 DEF SdkOK
    <2> QED
      BY <2>1, <2>2, OwnConcat
  <1> HIDE DEF text, more, n, none
  <1>5. SdkOK(s, t) /\ s.named = sdk.named /\ s.state = "running" /\ s.late = none
        /\ s.blockState = sdk.blockState /\ BlockId(s) = BlockId(sdk)
    BY <1>1, <1>4 DEF SdkOK, SdkFields, BlockId
  <1> HIDE DEF s
  <1>6. CASE GivesUp
    <2>1. GoneOK(t)
      BY <1>1, <1>6, GivesUpOK
    <2> QED
      BY <1>2, <1>5, <2>1, GoneKeeps
  <1>7. CASE run' = next /\ chan' = Sent(events) /\ sink' = sink
    <2>1. item \in OwnIds(t)
      <3>1. NoId \in BlockIds(t)
        BY DEF BlockIds
      <3> QED
        BY <1>1, <3>1, ItemIDsAreOwn
    <2> HIDE DEF item
    <2>2. RunOK(r, t) /\ r.id = run.id
      BY <1>1 DEF RunOK, RunFields
    <2> HIDE DEF r
    <2>3. RunOK(named, t) /\ named.id = run.id
      BY <2>1, <2>2 DEF RunOK, RunFields
    <2> HIDE DEF named
    <2>4. RunOK(next, t) /\ next.id = run.id
      BY <2>1, <2>2, <2>3, AnnouncedOK
    <2> HIDE DEF next
    <2>5. events \in Seq(OwnEvent(t))
      BY <1>4, <2>1, DeltaIsOwn
    <2> HIDE DEF events
    <2>6. DeskOK(sink', chan', stored', t)
      BY <1>1, <1>7, <2>5, SentOK
    <2>7. BlocksAgree(s, next)
      BY <1>1, <1>5, <2>4 DEF BlocksAgree, Ignored, none
    <2> QED
      BY <1>2, <1>5, <1>7, <2>4, <2>6, <2>7 DEF Kept, RunnerOK
  <1> QED
    BY <1>3, <1>6, <1>7

LEMMA ToolCallDeltaKeeps ==
  ASSUME NEW t, RunnerOK(t), NEW tool \in Tools, ToolCallDelta(tool)
  PROVE  Kept(t)
  <1> DEFINE none == <<>>
             text == NewPieces(1)
             more == sdk.frags[tool] \o text
             frags == [sdk.frags EXCEPT ![tool] = more]
             n == sdk.n + 1
             s == [sdk EXCEPT !.begun = TRUE, !.n = n, !.late = none, !.sealed = TRUE, !.frags = frags]
             item == ToolItemId(sdk.turn, tool)
             r == [run EXCEPT !.toolBytes = @ + 1]
             next == IF Forwarded(tool) THEN Announced(r, item) ELSE r
             events == <<DeltaEvent("tool_call_delta", item, text)>>
  <1>1. SdkOK(sdk, t) /\ RunOK(run, t) /\ DeskOK(sink, chan, stored, t) /\ BlocksAgree(sdk, run)
        /\ sdk.state = "running" /\ stored' = stored /\ sdk.turn = t
    BY DEF RunnerOK, ToolCallDelta, Producing, SdkOK
  <1>2. sdk' = s
    <2>1. sdk' = [sdk EXCEPT !.begun = TRUE, !.n = @ + 1, !.late = <<>>, !.sealed = TRUE,
                             !.frags[tool] = @ \o NewPieces(1)]
      BY DEF ToolCallDelta
    <2> QED
      BY <1>1, <2>1 DEF SdkOK, SdkFields
  <1>3. GivesUp \/ (run' = next /\ chan' = (IF Forwarded(tool) THEN Sent(events) ELSE chan) /\ sink' = sink)
    BY DEF ToolCallDelta
  <1>4. text \in OwnText(t) /\ more \in OwnText(t) /\ n \in Nat
    <2>1. text \in OwnText(t)
      BY <1>1, PiecesAreOwn
    <2>2. sdk.frags[tool] \in OwnText(t) /\ n \in Nat
      BY <1>1 DEF SdkOK
    <2> QED
      BY <2>1, <2>2, OwnConcat
  <1> HIDE DEF text, more, n, none
  <1>5. frags \in [Tools -> OwnText(t)]
    BY <1>1, <1>4 DEF SdkOK
  <1> HIDE DEF frags
  <1>6. SdkOK(s, t) /\ s.named = sdk.named /\ s.state = "running" /\ s.late = none
        /\ s.blockState = sdk.blockState /\ BlockId(s) = BlockId(sdk)
    BY <1>1, <1>4, <1>5 DEF SdkOK, SdkFields, BlockId
  <1> HIDE DEF s
  <1>7. CASE GivesUp
    <2>1. GoneOK(t)
      BY <1>1, <1>7, GivesUpOK
    <2> QED
      BY <1>2, <1>6, <2>1, GoneKeeps
  <1>8. CASE run' = next /\ chan' = (IF Forwarded(tool) THEN Sent(events) ELSE chan) /\ sink' = sink
    <2>1. item \in OwnIds(t)
      BY <1>1, ToolItemIdIsOwn
    <2> HIDE DEF item
    <2>2. RunOK(r, t) /\ r.id = run.id
      BY <1>1 DEF RunOK, RunFields
    <2> HIDE DEF r
    <2>4. RunOK(next, t) /\ next.id = run.id
      BY <2>1, <2>2, AnnouncedOK
    <2> HIDE DEF next
    <2>5. events \in Seq(OwnEvent(t))
      BY <1>4, <2>1, DeltaIsOwn
    <2> HIDE DEF events
    <2>6. DeskOK(sink', chan', stored', t)
      <3>1. DeskOK(sink, Sent(events), stored, t)
        BY <1>1, <2>5, SentOK
      <3> QED
        BY <1>1, <1>8, <3>1
    <2>7. BlocksAgree(s, next)
      BY <1>1, <1>6, <2>4 DEF BlocksAgree, Ignored, none
    <2> QED
      BY <1>2, <1>6, <1>8, <2>4, <2>6, <2>7 DEF Kept, RunnerOK
  <1> QED
    BY <1>3, <1>7, <1>8

LEMMA IdleKeeps ==
  ASSUME NEW t, RunnerOK(t), Idle
  PROVE  Kept(t)
  <1> DEFINE bad == \E tool \in Tools : Forwarded(tool) /\ sdk.frags[tool] # <<>>
             s == [sdk EXCEPT !.state = "ended", !.badCalls = bad]
             next == [run EXCEPT !.alive = FALSE]
             none == <<>>
  <1>1. SdkOK(sdk, t) /\ RunOK(run, t) /\ DeskOK(sink, chan, stored, t)
    BY DEF RunnerOK
  <1>2. sdk' = s /\ EmitResult(run, none, next)
    BY DEF Idle
  <1>3. none \in OwnOutput(t)
    BY OwnEmpty
  <1> HIDE DEF bad, none
  <1>4. SdkOK(s, t)
    BY <1>1 DEF SdkOK, SdkFields
  <1> HIDE DEF s
  <1>5. RunOK(next, t) /\ ~next.alive
    BY <1>1 DEF RunOK, RunFields
  <1> HIDE DEF next
  <1>6. DeskOK(sink', chan', stored', t) /\ sink'.done = sink.done /\ (run' = next \/ GoneOK(t))
    BY <1>1, <1>2, <1>3, EmitResultOK
  <1>7. GoneOK(t)
    BY <1>5, <1>6 DEF GoneOK
  <1> QED
    BY <1>2, <1>4, <1>7, GoneKeeps

LEMMA SessionFailsKeeps ==
  ASSUME NEW t, RunnerOK(t), SessionFails
  PROVE  Kept(t)
  <1>1. SdkOK(sdk, t) /\ RunOK(run, t) /\ DeskOK(sink, chan, stored, t) /\ GivesUp /\ stored' = stored /\ sdk' = sdk
    BY DEF RunnerOK, SessionFails
  <1>2. GoneOK(t)
    BY <1>1, GivesUpOK
  <1> QED
    BY <1>1, <1>2, GoneKeeps

\* The tools a message asks for, in their order.
LEMMA AskedAre ==
  ASSUME NEW asked \in SetToAllKPermutations(Tools)
  PROVE  /\ \E n \in Nat : DOMAIN asked = 1 .. n /\ asked \in Seq(Tools) /\ \A i \in 1 .. n : asked[i] \in Tools
         /\ \A adds \in SUBSET Range(asked) : Cardinality(adds) \in Nat
  <1>1. PICK s \in SUBSET Tools : asked \in SetToSeqs(s)
    BY DEF SetToAllKPermutations
  <1>2. IsFiniteSet(s)
    BY ToolsAssumption, FS_Subset
  <1>3. Cardinality(s) \in Nat
    BY <1>2, FS_CardinalityType
  <1>4. asked \in [1 .. Cardinality(s) -> s]
    BY <1>1 DEF SetToSeqs
  <1>5. Range(asked) \subseteq Tools
    BY <1>4 DEF Range
  <1>6. \A adds \in SUBSET Range(asked) : IsFiniteSet(adds)
    BY <1>5, ToolsAssumption, FS_Subset
  <1>7. \A adds \in SUBSET Range(asked) : Cardinality(adds) \in Nat
    BY <1>6, FS_CardinalityType
  <1>8. DOMAIN asked = 1 .. Cardinality(s) /\ \A i \in 1 .. Cardinality(s) : asked[i] \in Tools
    BY <1>4
  <1>9. asked \in Seq(Tools)
    BY <1>3, <1>4, <1>8
  <1> QED
    BY <1>3, <1>7, <1>8, <1>9

LEMMA PlacesAreNumbers ==
  ASSUME NEW n \in Nat, NEW i \in 1 .. n, NEW s \in SUBSET (1 .. i)
  PROVE  Cardinality(s) \in Nat
  <1>1. IsFiniteSet(1 .. i)
    BY FS_Interval
  <1>2. IsFiniteSet(s)
    BY <1>1, FS_Subset
  <1> QED
    BY <1>2, FS_CardinalityType

LEMMA FinishedCallIsOwn ==
  ASSUME NEW t, SdkOK(sdk, t), NEW tool \in Tools, NEW more \in OwnText(t), NEW exact
  PROVE  FinishedCall(tool, more, exact) \in OwnItem(t)
  <1> DEFINE text == sdk.frags[tool] \o more
             id == ToolItemId(sdk.turn, tool)
             said == IF exact THEN text ELSE Reencoded(text)
             type == ItemType(Kind[tool])
  <1>1. text \in OwnText(t)
    BY OwnConcat DEF SdkOK
  <1>2. Reencoded(text) \in OwnText(t)
    <2> DEFINE n == Len(text)
               x == Reencoded(text)
    <2>1. n \in Nat /\ DOMAIN text = 1 .. n /\ \A i \in 1 .. n : text[i] \in Own(t)
      BY <1>1, LenProperties, ElementOfSeq DEF OwnText
    <2> HIDE DEF text, n
    <2>2. x = [i \in 1 .. n |-> [text[i] EXCEPT !.form = "encoded"]]
      BY <2>1 DEF Reencoded
    <2>3. \A i \in 1 .. n : [text[i] EXCEPT !.form = "encoded"] \in Own(t)
      BY <2>1 DEF Own
    <2>4. x \in [1 .. n -> Own(t)]
      BY <2>2, <2>3
    <2> HIDE DEF x
    <2>5. x \in Seq(Own(t))
      BY <2>1, <2>4
    <2> QED
      BY <2>5 DEF OwnText, x
  <1> HIDE DEF text
  <1>3. id \in OwnIds(t)
    BY ToolItemIdIsOwn DEF SdkOK
  <1>4. said \in OwnText(t)
    BY <1>1, <1>2
  <1>5. type \in ItemTypes
    BY DEF ItemType, ItemTypes
  <1>6. FinishedCall(tool, more, exact) = Item(id, type, said, FALSE)
    BY DEF FinishedCall, text
  <1> HIDE DEF id, said, type
  <1> QED
    BY <1>3, <1>4, <1>5, <1>6, ItemIsOwn

\* The calls a message finishes.
CallsOf(asked, adds, exact, extra) ==
  LET Place(i) == extra + Cardinality({j \in 1 .. i : asked[j] \in adds})
      Added(i) == IF asked[i] \in adds THEN <<Piece(sdk.turn, sdk.n + Place(i))>> ELSE <<>>
  IN [i \in DOMAIN asked |-> FinishedCall(asked[i], Added(i), exact)]

LEMMA CallsAreOwn ==
  ASSUME NEW t, SdkOK(sdk, t), NEW asked \in SetToAllKPermutations(Tools), NEW adds, NEW exact, NEW extra \in Nat
  PROVE  CallsOf(asked, adds, exact, extra) \in OwnOutput(t)
  <1> DEFINE Place(i) == extra + Cardinality({j \in 1 .. i : asked[j] \in adds})
             Added(i) == IF asked[i] \in adds THEN <<Piece(sdk.turn, sdk.n + Place(i))>> ELSE <<>>
             calls == CallsOf(asked, adds, exact, extra)
  <1>1. PICK n \in Nat : DOMAIN asked = 1 .. n /\ \A i \in 1 .. n : asked[i] \in Tools
    BY AskedAre
  <1>2. calls = [i \in 1 .. n |-> FinishedCall(asked[i], Added(i), exact)]
    BY <1>1 DEF CallsOf
  <1>3. ASSUME NEW i \in 1 .. n PROVE FinishedCall(asked[i], Added(i), exact) \in OwnItem(t)
    <2>1. Place(i) \in Nat
      <3> DEFINE s == {j \in 1 .. i : asked[j] \in adds}
      <3>1. s \in SUBSET (1 .. i)
        OBVIOUS
      <3> HIDE DEF s
      <3>2. Cardinality(s) \in Nat
        BY <1>1, <3>1, PlacesAreNumbers
      <3>3. Place(i) = extra + Cardinality(s)
        BY DEF s
      <3> QED
        BY <3>2, <3>3
    <2> HIDE DEF Place
    <2>2. <<Piece(sdk.turn, sdk.n + Place(i))>> \in OwnText(t)
      BY <2>1, PiecesAreOwn
    <2>3. Added(i) \in OwnText(t)
      BY <2>2, OwnEmpty
    <2> HIDE DEF Added
    <2> QED
      BY <1>1, <2>3, FinishedCallIsOwn
  <1> HIDE DEF Added
  <1>4. calls \in [1 .. n -> OwnItem(t)]
    BY <1>2, <1>3
  <1> HIDE DEF calls
  <1>5. calls \in Seq(OwnItem(t))
    BY <1>1, <1>4
  <1> QED
    BY <1>5 DEF OwnOutput, calls

LEMMA MessageKeeps ==
  ASSUME NEW t, RunnerOK(t), NEW asked \in SetToAllKPermutations(Tools), NEW adds \in SUBSET Range(asked),
         NEW exact, NEW extra \in 0 .. 1, NEW withReasoning,
         Message(asked, adds, exact, extra, withReasoning)
  PROVE  Kept(t)
  <1> DEFINE none == <<>>
             total == extra + Cardinality(adds)
             calls == CallsOf(asked, adds, exact, extra)
             text == run.text \o sdk.message \o NewPieces(extra)
             consolidated == IF withReasoning THEN sdk.block ELSE run.consolidated
             deltas == IF withReasoning THEN <<>> ELSE run.deltas
             encrypted == run.encrypted \/ sdk.opaque
             r == [run EXCEPT !.text = text, !.consolidated = consolidated, !.deltas = deltas, !.encrypted = encrypted]
             n == sdk.n + total
             state == IF asked = <<>> THEN sdk.state ELSE "waiting"
             block == [text |-> sdk.block, id |-> BlockId(sdk)]
             late == IF asked # <<>> /\ sdk.blockState = "streaming" THEN <<block>> ELSE <<>>
             frags == IF asked = <<>> THEN sdk.frags ELSE NoCalls
             tail == sdk.tail \/ extra > 0
             bad == asked # <<>> /\ \E tool \in Tools : BrokenCall(tool, asked, adds, exact)
             s == [sdk EXCEPT !.begun = TRUE, !.n = n, !.message = none, !.state = state, !.late = late,
                              !.frags = frags, !.sealed = TRUE, !.tail = tail, !.badCalls = bad]
             next == ToolBoundary(r)
  <1>1. SdkOK(sdk, t) /\ RunOK(run, t) /\ DeskOK(sink, chan, stored, t) /\ BlocksAgree(sdk, run)
        /\ sdk.state = "running"
    BY DEF RunnerOK, Message, Producing
  <1>2. sdk' = s
    BY DEF Message
  <1>3. \/ GivesUp /\ stored' = stored
        \/ asked = <<>> /\ run' = r /\ chan' = chan /\ sink' = sink /\ stored' = stored
        \/ asked # <<>> /\ EmitResult(r, calls, next)
    BY DEF Message, CallsOf
  <1>4. n \in Nat /\ calls \in OwnOutput(t) /\ extra \in Nat
    <2>1. extra \in Nat /\ Cardinality(adds) \in Nat
      BY AskedAre
    <2>2. n \in Nat
      BY <1>1, <2>1 DEF SdkOK
    <2> QED
      BY <1>1, <2>1, <2>2, CallsAreOwn
  <1> HIDE DEF n, calls, total
  <1>5. text \in OwnText(t) /\ none \in OwnText(t)
    <2>1. run.text \in OwnText(t) /\ sdk.message \in OwnText(t)
      BY <1>1 DEF RunOK, SdkOK
    <2>2. NewPieces(extra) \in OwnText(t)
      BY <1>1, <1>4, PiecesAreOwn
    <2>3. run.text \o sdk.message \in OwnText(t)
      BY <2>1, OwnConcat
    <2>4. text \in OwnText(t)
      BY <2>2, <2>3, OwnConcat
    <2> QED
      BY <2>4, OwnEmpty
  <1> HIDE DEF text
  <1>6. consolidated \in OwnText(t) /\ deltas \in OwnText(t) /\ encrypted \in BOOLEAN
    <2>1. run.consolidated \in OwnText(t) /\ run.deltas \in OwnText(t) /\ sdk.block \in OwnText(t)
      BY <1>1 DEF RunOK, SdkOK
    <2> QED
      BY <2>1, OwnEmpty
  <1>7. frags \in [Tools -> OwnText(t)]
    <2>1. NoCalls \in [Tools -> OwnText(t)]
      BY OwnEmpty DEF NoCalls
    <2> QED
      BY <1>1, <2>1 DEF SdkOK
  <1> HIDE DEF consolidated, deltas, encrypted, frags, tail, bad, none
  <1>8. RunOK(r, t) /\ r.id = run.id
    BY <1>1, <1>5, <1>6 DEF RunOK, RunFields
  <1>9. SdkOK(s, t) /\ s.named = sdk.named /\ s.state = state /\ s.late = late
        /\ s.blockState = sdk.blockState /\ BlockId(s) = BlockId(sdk)
    <2> HIDE DEF state, late
    <2> QED
      BY <1>1, <1>4, <1>5, <1>7 DEF SdkOK, SdkFields, BlockId
  <1> HIDE DEF r, s
  <1>10. CASE GivesUp /\ stored' = stored
    <2>1. GoneOK(t)
      BY <1>1, <1>10, GivesUpOK
    <2> QED
      BY <1>2, <1>9, <2>1, GoneKeeps
  <1>11. CASE asked = <<>> /\ run' = r /\ chan' = chan /\ sink' = sink /\ stored' = stored
    <2>1. state = "running" /\ late = <<>>
      BY <1>1, <1>11
    <2> HIDE DEF state, late
    <2>2. BlocksAgree(s, r)
      BY <1>1, <1>8, <1>9, <2>1 DEF BlocksAgree, Ignored
    <2>3. DeskOK(sink', chan', stored', t)
      BY <1>1, <1>11
    <2> QED
      BY <1>2, <1>8, <1>9, <1>11, <2>2, <2>3 DEF Kept, RunnerOK
  <1>12. CASE asked # <<>> /\ EmitResult(r, calls, next)
    <2>1. DeskOK(sink', chan', stored', t) /\ sink'.done = sink.done /\ (run' = next \/ GoneOK(t))
      BY <1>1, <1>4, <1>8, <1>12, EmitResultOK
    <2>2. CASE GoneOK(t)
      BY <1>2, <1>9, <2>2, GoneKeeps
    <2>3. CASE run' = next
      <3>1. state = "waiting" /\ (late # <<>> => sdk.blockState = "streaming" /\ late[1].id = BlockId(sdk))
        BY <1>12
      <3> HIDE DEF state, late
      <3>2. RunOK(next, t) /\ Rested(next) /\ next.ignoreLateFinal /\ next.ignoreLateFinalID = run.id /\ next.id = NoId
        <4>1. RunOK(FreshRun, t) /\ Rested(FreshRun)
          BY FreshRunOK
        <4>2. next = [FreshRun EXCEPT !.ignoreLateFinal = TRUE, !.ignoreLateFinalID = r.id]
          BY DEF ToolBoundary
        <4> DEFINE f == FreshRun
        <4>3. RunOK(f, t) /\ Rested(f)
          BY <4>1
        <4> HIDE DEF f
        <4>4. next = [f EXCEPT !.ignoreLateFinal = TRUE, !.ignoreLateFinalID = r.id]
          BY <4>2 DEF f
        <4> HIDE DEF next
        <4> QED
          BY <1>8, <4>3, <4>4 DEF RunOK, RunFields, Rested
      <3> HIDE DEF next
      <3>3. late # <<>> => late[1].id = run.id
        BY <1>1, <3>1 DEF BlocksAgree
      <3>4. BlocksAgree(s, next)
        BY <1>9, <3>1, <3>2, <3>3 DEF BlocksAgree, Ignored
      <3> QED
        BY <1>2, <1>9, <2>1, <2>3, <3>2, <3>4 DEF Kept, RunnerOK
    <2> QED
      BY <2>1, <2>2, <2>3
  <1> QED
    BY <1>3, <1>10, <1>11, <1>12

----------------------------------------------------------------------------
(* The encoder serves what is on the channel; the next turn starts with      *)
(* nothing there.                                                            *)

\* What serves the stream of that kind of client.
Serving(kind, e, t) == IF kind = "chat" THEN e \in Chats(t) ELSE EncOK(e, t)

LEMMA ServeKeeps ==
  ASSUME NEW t, OwnState(t), NEW next, Serving(surface, next, t), next.status = "open" => chan # <<>>,
         Serve(next)
  PROVE  OwnState(t)'
  <1> DEFINE empty == <<>>
             e == [next EXCEPT !.wire = empty]
  <1>1. RunnerOK(t) /\ ClientOK(surface, enc, view, t)
    BY DEF OwnState, ServedOK
  <1>2. enc' = e /\ view' = ReadWire(next.wire) /\ sdk' = sdk /\ run' = run /\ stored' = stored /\ surface' = surface
    BY DEF Serve
  <1>3. \/ next.status = "open" /\ chan' = Tail(chan) /\ sink' = sink
        \/ next.status # "open" /\ chan' = empty /\ sink' = [sink EXCEPT !.done = TRUE]
    BY DEF Serve
  <1>4. DeskOK(sink', chan', stored', t)
    <2>1. DeskOK(sink, chan, stored, t)
      BY <1>1 DEF RunnerOK
    <2>2. CASE next.status = "open" /\ chan' = Tail(chan) /\ sink' = sink
      <3>1. chan # <<>>
        BY <2>2
      <3>2. Tail(chan) \in Seq(OwnEvent(t))
        BY <2>1, <3>1, HeadTailProperties DEF DeskOK
      <3>3. ~sink.done
        BY <2>1, <3>1 DEF DeskOK
      <3> QED
        BY <1>2, <2>1, <2>2, <3>2, <3>3 DEF DeskOK
    <2>3. CASE next.status # "open" /\ chan' = empty /\ sink' = [sink EXCEPT !.done = TRUE]
      <3>1. empty \in Seq(OwnEvent(t))
        BY EmptySeq
      <3> QED
        BY <1>2, <2>1, <2>3, <3>1 DEF DeskOK
    <2> QED
      BY <1>3, <2>2, <2>3
  <1>5. RunnerOK(t)'
    BY <1>1, <1>2, <1>4 DEF RunnerOK
  <1>6. e.wire = empty /\ e.status = next.status /\ Serving(surface, e, t)
    <2>1. CASE surface = "chat"
      <3>1. next \in Chats(t) /\ empty \in Seq(Chunks(t))
        BY <2>1, EmptySeq DEF Serving
      <3> HIDE DEF empty
      <3>2. e \in Chats(t) /\ e.wire = empty /\ e.status = next.status
        BY <3>1 DEF Chats
      <3> QED
        BY <2>1, <3>2 DEF Serving
    <2>2. CASE surface # "chat"
      <3>1. EncOK(next, t) /\ empty \in Seq(Frames(t))
        BY <2>2, EmptySeq DEF Serving
      <3> HIDE DEF empty
      <3>2. EncOK(e, t) /\ e.wire = empty /\ e.status = next.status
        BY <3>1 DEF EncOK, EncFields
      <3> QED
        BY <2>2, <3>2 DEF Serving
    <2> QED
      BY <2>1, <2>2
  <1>7. IF surface = "chat" THEN view' \in ChatViews(t) ELSE view' \in Views(t)
    <2>1. CASE surface = "chat"
      <3>1. view \in ChatViews(t) /\ next.wire \in Seq(Chunks(t))
        BY <1>1, <2>1 DEF ClientOK, Serving, Chats
      <3> QED
        BY <1>2, <2>1, <3>1, WireIsRead DEF ReadWire
    <2>2. CASE surface # "chat"
      <3>1. view \in Views(t) /\ next.wire \in Seq(Frames(t))
        BY <1>1, <2>2 DEF ClientOK, Serving, EncOK
      <3> QED
        BY <1>2, <2>2, <3>1, WireIsRead DEF ReadWire
    <2> QED
      BY <2>1, <2>2
  <1> HIDE DEF e
  <1>8. ClientOK(surface', enc', view', t)
    BY <1>2, <1>6, <1>7 DEF ClientOK, Serving
  <1>9. enc'.status # "open" => sink'.done
    <2>1. DOMAIN sink = {"surface", "done"}
      BY <1>1 DEF RunnerOK, DeskOK
    <2> QED
      BY <1>2, <1>3, <1>6, <2>1
  <1>10. enc'.wire = <<>>
    BY <1>2, <1>6
  <1> QED
    BY <1>5, <1>8, <1>9, <1>10 DEF OwnState, ServedOK

LEMMA EncodeKeeps ==
  ASSUME NEW t, OwnState(t), Encode
  PROVE  OwnState(t)'
  <1> DEFINE ev == Head(chan)
             next == Encoded(ev)
  <1>1. chan # <<>> /\ Serve(next)
    BY DEF Encode
  <1>2. ev \in OwnEvent(t)
    BY <1>1, HeadTailProperties DEF OwnState, RunnerOK, DeskOK
  <1>3. Serving(surface, enc, t)
    BY DEF OwnState, ServedOK, ClientOK, Serving
  <1> HIDE DEF ev
  <1>4. Serving(surface, next, t)
    <2>1. CASE surface = "chat"
      <3>1. EncodeChatEvent(enc, ev) \in Chats(t)
        BY <1>2, <1>3, <2>1, EncodeChatEventOK DEF Serving
      <3> QED
        BY <2>1, <3>1 DEF Serving, Encoded
    <2>2. CASE surface # "chat"
      <3>1. EncOK(enc, t)
        BY <1>3, <2>2 DEF Serving
      <3>2. EncOK(EncodeResponseEvent(enc, ev), t)
        BY <1>2, <3>1, EncodeResponseEventOK
      <3>3. EncOK([enc EXCEPT !.status = "failed", !.why = "upstream"], t)
        BY <3>1 DEF EncOK, EncFields
      <3> QED
        BY <2>2, <3>2, <3>3 DEF Serving, Encoded
    <2> QED
      BY <2>1, <2>2
  <1> HIDE DEF next
  <1> QED
    BY <1>1, <1>4, ServeKeeps

LEMMA TimeoutKeeps ==
  ASSUME NEW t, OwnState(t), Timeout
  PROVE  OwnState(t)'
  <1> DEFINE next == IF surface = "chat" THEN Fail(enc, "timeout")
                     ELSE IF surface = "json" THEN [enc EXCEPT !.status = "failed", !.why = "timeout"]
                     ELSE WriteFailure(enc, "timeout")
  <1>1. Serve(next)
    BY DEF Timeout
  <1>2. Serving(surface, enc, t)
    BY DEF OwnState, ServedOK, ClientOK, Serving
  <1>3. Serving(surface, next, t) /\ next.status # "open"
    <2>1. CASE surface = "chat"
      <3>1. enc \in Chats(t)
        BY <1>2, <2>1 DEF Serving
      <3>2. Fail(enc, "timeout") \in Chats(t)
        BY <3>1, FailOK
      <3>3. Fail(enc, "timeout").status = "failed"
        BY <3>1 DEF Fail, Chats
      <3> QED
        BY <2>1, <3>2, <3>3 DEF Serving
    <2>2. CASE surface # "chat"
      <3>1. EncOK(enc, t)
        BY <1>2, <2>2 DEF Serving
      <3>2. EncOK(WriteFailure(enc, "timeout"), t) /\ WriteFailure(enc, "timeout").status = "failed"
        BY <3>1, WriteFailureOK
      <3> DEFINE x == [enc EXCEPT !.status = "failed", !.why = "timeout"]
      <3>3. EncOK(x, t) /\ x.status = "failed"
        BY <3>1 DEF EncOK, EncFields
      <3> HIDE DEF x
      <3>4. next = x \/ next = WriteFailure(enc, "timeout")
        BY <2>2 DEF x
      <3> HIDE DEF next
      <3> QED
        BY <2>2, <3>2, <3>3, <3>4 DEF Serving
    <2> QED
      BY <2>1, <2>2
  <1> HIDE DEF next
  <1> QED
    BY <1>1, <1>3, ServeKeeps

LEMMA ClientGoneKeeps ==
  ASSUME NEW t, OwnState(t), ClientGone
  PROVE  OwnState(t)'
  <1> DEFINE next == [enc EXCEPT !.status = "cut"]
  <1>1. Serve(next)
    BY DEF ClientGone
  <1>2. Serving(surface, enc, t)
    BY DEF OwnState, ServedOK, ClientOK, Serving
  <1>3. Serving(surface, next, t) /\ next.status # "open"
    <2>1. CASE surface = "chat"
      <3>1. next \in Chats(t) /\ next.status = "cut"
        BY <1>2, <2>1 DEF Serving, Chats
      <3> QED
        BY <2>1, <3>1 DEF Serving
    <2>2. CASE surface # "chat"
      <3>1. EncOK(next, t) /\ next.status = "cut"
        BY <1>2, <2>2 DEF Serving, EncOK, EncFields
      <3> HIDE DEF next
      <3> QED
        BY <2>2, <3>1 DEF Serving
    <2> QED
      BY <2>1, <2>2
  <1> HIDE DEF next
  <1> QED
    BY <1>1, <1>3, ServeKeeps

LEMMA NewClientOK ==
  ASSUME NEW t, NEW kind, NEW hide, kind = "chat" => hide \in BOOLEAN
  PROVE  /\ ClientOK(kind, NewEnc(kind, hide), NewClient(kind), t)
         /\ NewEnc(kind, hide).wire = <<>> /\ NewEnc(kind, hide).status = "open"
  BY NewChatOK, NewEncoderOK, NewViewsAreOwn DEF ClientOK, NewEnc, NewClient

\* What is left of the turn before is nothing that could show.
LEMMA ContinueStarts ==
  ASSUME NEW t \in Nat, OwnState(t), NEW kind, Continue(kind)
  PROVE  OwnState(t + 1)'
  <1> DEFINE s == FreshTurn(sdk.turn + 1, sdk, sdk.late)
             u == t + 1
  <1>1. SdkOK(sdk, t) /\ RunOK(run, t) /\ DeskOK(sink, chan, stored, t) /\ BlocksAgree(sdk, run)
        /\ sdk.state = "waiting"
    BY DEF OwnState, RunnerOK, Continue
  <1>2. sdk' = s /\ run' = run /\ chan' = chan /\ stored' = NoResponse /\ surface' = kind
        /\ sink' = [surface |-> kind, done |-> FALSE]
        /\ enc' = NewEnc(kind, enc.hide) /\ view' = NewClient(kind)
        /\ ((kind = "chat") = (surface = "chat")) /\ enc.status # "open"
    BY DEF Continue
  <1>3. chan = <<>>
    BY <1>1, <1>2 DEF OwnState, ServedOK, DeskOK
  <1>4. <<>> \in OwnText(u) /\ <<>> \in OwnOutput(u) /\ <<>> \in Seq(OwnIds(u)) /\ <<>> \in Seq(OwnEvent(u))
        /\ NoId \in BlockIds(u) /\ NoCalls \in [Tools -> OwnText(u)]
    BY OwnEmpty, EmptySeq DEF BlockIds, NoCalls
  <1>5. Rested(run)
    BY <1>1 DEF BlocksAgree
  <1>6. RunOK(run, u)
    BY <1>1, <1>4, <1>5 DEF RunOK, Rested
  <1>7. SdkOK(s, u) /\ s.late = sdk.late /\ s.state = "running" /\ s.blockState = "none"
    BY <1>1, <1>4 DEF FreshTurn, SdkOK, SdkFields
  <1> HIDE DEF s
  <1>8. BlocksAgree(s, run)
    BY <1>1, <1>5, <1>7 DEF BlocksAgree, Ignored, Rested
  <1>9. DeskOK(sink', chan', stored', u)
    <2>1. NoResponse \in OwnResponse(u)
      BY <1>4 DEF NoResponse, OwnResponse
    <2> QED
      BY <1>2, <1>3, <1>4, <2>1 DEF DeskOK
  <1>10. RunnerOK(u)'
    BY <1>2, <1>6, <1>7, <1>8, <1>9 DEF RunnerOK
  <1>11. kind = "chat" => enc.hide \in BOOLEAN
    <2> SUFFICES ASSUME kind = "chat" PROVE enc.hide \in BOOLEAN
      OBVIOUS
    <2>1. surface = "chat"
      BY <1>2
    <2>2. enc \in Chats(t)
      BY <2>1 DEF OwnState, ServedOK, ClientOK
    <2> QED
      BY <2>2 DEF Chats
  <1>12. ClientOK(kind, NewEnc(kind, enc.hide), NewClient(kind), u)
         /\ NewEnc(kind, enc.hide).wire = <<>> /\ NewEnc(kind, enc.hide).status = "open"
    BY <1>11, NewClientOK
  <1> DEFINE e == NewEnc(kind, enc.hide)
             v == NewClient(kind)
  <1>13. ClientOK(kind, e, v, u) /\ e.wire = <<>> /\ e.status = "open" /\ enc' = e /\ view' = v
    BY <1>2, <1>12
  <1> HIDE DEF e, v
  <1>14. ServedOK(u)'
    BY <1>2, <1>13 DEF ServedOK
  <1> QED
    BY <1>10, <1>14 DEF OwnState

LEMMA StartsOwn ==
  ASSUME Init
  PROVE  OwnState(1)
  <1>1. PICK session \in Sessions : sdk = FreshTurn(1, session, <<>>) /\ enc = NewEnc(surface, session.hide)
    BY DEF Init
  <1>2. session \in [limit : Nat, hide : BOOLEAN, named : BOOLEAN, opaque : BOOLEAN]
    BY <1>1, SessionsAssumption
  <1>3. <<>> \in OwnText(1) /\ <<>> \in OwnOutput(1) /\ <<>> \in Seq(OwnIds(1)) /\ <<>> \in Seq(OwnEvent(1))
        /\ NoId \in BlockIds(1) /\ NoCalls \in [Tools -> OwnText(1)]
    BY OwnEmpty, EmptySeq DEF BlockIds, NoCalls
  <1>4. SdkOK(sdk, 1) /\ sdk.late = <<>> /\ sdk.state = "running" /\ sdk.blockState = "none"
    BY <1>1, <1>2, <1>3 DEF FreshTurn, SdkOK, SdkFields
  <1>5. RunOK(run, 1) /\ run.id = NoId
    BY FreshRunOK DEF Init, Rested
  <1>6. BlocksAgree(sdk, run)
    BY <1>4, <1>5 DEF BlocksAgree, Ignored
  <1>7. DeskOK(sink, chan, stored, 1)
    <2>1. NoResponse \in OwnResponse(1)
      BY <1>3 DEF NoResponse, OwnResponse
    <2>2. sink = [surface |-> surface, done |-> FALSE] /\ chan = <<>> /\ stored = NoResponse
      BY DEF Init
    <2> QED
      BY <1>3, <2>1, <2>2 DEF DeskOK
  <1>8. RunnerOK(1)
    BY <1>4, <1>5, <1>6, <1>7 DEF RunnerOK
  <1>9. ClientOK(surface, enc, view, 1) /\ enc.wire = <<>> /\ enc.status = "open"
    <2>1. view = NewClient(surface)
      BY DEF Init
    <2>2. session.hide \in BOOLEAN
      BY <1>2
    <2> QED
      BY <1>1, <2>1, <2>2, NewClientOK
  <1> QED
    BY <1>8, <1>9 DEF OwnState, ServedOK

\* A step of the runner leaves the client and its encoder alone.
LEMMA RunnerStepKeeps ==
  ASSUME NEW t, OwnState(t), Kept(t), UNCHANGED <<surface, enc, view>>
  PROVE  OwnState(t)'
  BY DEF OwnState, ServedOK, Kept

InATurn == \E t \in Nat : OwnState(t)

LEMMA StepsKeep ==
  ASSUME NEW t \in Nat, OwnState(t), [Next]_vars
  PROVE  InATurn'
  <1>1. RunnerOK(t)
    BY DEF OwnState
  <1>2. ASSUME Runner(TurnStarts) PROVE OwnState(t)'
    BY <1>1, <1>2, TurnStartsKeeps, RunnerStepKeeps DEF Runner
  <1>3. ASSUME Runner(ReasoningDelta) PROVE OwnState(t)'
    BY <1>1, <1>3, ReasoningDeltaKeeps, RunnerStepKeeps DEF Runner
  <1>4. ASSUME Runner(ReasoningBlock) PROVE OwnState(t)'
    BY <1>1, <1>4, ReasoningBlockKeeps, RunnerStepKeeps DEF Runner
  <1>5. ASSUME Runner(LateReasoningBlock) PROVE OwnState(t)'
    BY <1>1, <1>5, LateReasoningBlockKeeps, RunnerStepKeeps DEF Runner
  <1>6. ASSUME Runner(MessageDelta) PROVE OwnState(t)'
    BY <1>1, <1>6, MessageDeltaKeeps, RunnerStepKeeps DEF Runner
  <1>7. ASSUME NEW tool \in Tools, Runner(ToolCallDelta(tool)) PROVE OwnState(t)'
    BY <1>1, <1>7, ToolCallDeltaKeeps, RunnerStepKeeps DEF Runner
  <1>8. ASSUME Runner(SomeMessage) PROVE OwnState(t)'
    <2>1. SomeMessage /\ UNCHANGED <<surface, enc, view>>
      BY <1>8 DEF Runner
    <2>2. PICK asked \in SetToAllKPermutations(Tools), exact \in BOOLEAN, withReasoning \in BOOLEAN, extra \in 0 .. 1 :
               \E adds \in SUBSET Range(asked) : Message(asked, adds, exact, extra, withReasoning)
      BY <2>1 DEF SomeMessage
    <2>3. PICK adds \in SUBSET Range(asked) : Message(asked, adds, exact, extra, withReasoning)
      BY <2>2
    <2>4. Kept(t)
      BY <1>1, <2>3, MessageKeeps
    <2> QED
      BY <2>1, <2>4, RunnerStepKeeps
  <1>9. ASSUME Runner(Idle) PROVE OwnState(t)'
    BY <1>1, <1>9, IdleKeeps, RunnerStepKeeps DEF Runner
  <1>10. ASSUME Runner(SessionFails) PROVE OwnState(t)'
    BY <1>1, <1>10, SessionFailsKeeps, RunnerStepKeeps DEF Runner
  <1>11. ASSUME Encode \/ Timeout \/ ClientGone PROVE OwnState(t)'
    BY <1>11, EncodeKeeps, TimeoutKeeps, ClientGoneKeeps
  <1>12. ASSUME NEW kind \in Surfaces, Continue(kind) PROVE OwnState(t + 1)'
    BY <1>12, ContinueStarts
  <1>13. ASSUME UNCHANGED vars PROVE OwnState(t)'
    <2>1. UNCHANGED <<sdk, run, sink, chan, stored, surface, enc, view>>
      BY <1>13 DEF vars, turnVars
    <2> QED
      BY <2>1 DEF OwnState, RunnerOK, ServedOK
  <1>14. OwnState(t)' \/ OwnState(t + 1)'
    BY <1>2, <1>3, <1>4, <1>5, <1>6, <1>7, <1>8, <1>9, <1>10, <1>11, <1>12, <1>13 DEF Next
  <1>15. t + 1 \in Nat
    OBVIOUS
  <1> QED
    BY <1>14, <1>15 DEF InATurn

LEMMA PiecesOfAreOwn ==
  ASSUME NEW t, NEW S, NEW items \in Seq(S), \A x \in S : x.text \in OwnText(t)
  PROVE  \A p \in PiecesOf(items) : p.turn = t
  <1> SUFFICES ASSUME NEW p \in PiecesOf(items) PROVE p.turn = t
    OBVIOUS
  <1>1. PICK i \in DOMAIN items : p \in Range(items[i].text)
    BY DEF PiecesOf
  <1>2. items[i].text \in Seq(Own(t))
    BY <1>1, ElementOfSeq, LenProperties DEF OwnText
  <1>3. PICK j \in DOMAIN items[i].text : p = items[i].text[j]
    BY <1>1 DEF Range
  <1>4. p \in Own(t)
    BY <1>2, <1>3, ElementOfSeq, LenProperties
  <1> QED
    BY <1>4 DEF Own

LEMMA TextIsOwn ==
  ASSUME NEW t, NEW text \in OwnText(t)
  PROVE  \A p \in Range(text) : p.turn = t
  <1> SUFFICES ASSUME NEW p \in Range(text) PROVE p.turn = t
    OBVIOUS
  <1>1. PICK j \in DOMAIN text : p = text[j]
    BY DEF Range
  <1>2. p \in Own(t)
    BY <1>1, ElementOfSeq, LenProperties DEF OwnText
  <1> QED
    BY <1>2 DEF Own

LEMMA IdsNameTheTurn ==
  ASSUME NEW t, NEW id \in OwnIds(t)
  PROVE  id[2] = t
  BY DEF OwnIds

LEMMA OwnStateIsApart ==
  ASSUME NEW t \in Nat, OwnState(t)
  PROVE  TurnsStayApart
  <1>1. sdk.turn = t /\ stored \in OwnResponse(t) /\ ClientOK(surface, enc, view, t)
    BY DEF OwnState, RunnerOK, ServedOK, SdkOK, DeskOK
  <1>2. \A x \in OwnItem(t) : x.text \in OwnText(t)
    BY DEF OwnItem
  <1>3. \A p \in PiecesOf(stored.output) : p.turn = t
    BY <1>1, <1>2, PiecesOfAreOwn DEF OwnResponse, OwnOutput
  <1>4. \A p \in Range(stored.reasoning) : p.turn = t
    BY <1>1, TextIsOwn DEF OwnResponse
  <1>5. \A p \in Shown : p.turn = t
    <2>1. CASE surface = "chat"
      <3>1. view.text \in OwnText(t) /\ view.reasoning \in OwnText(t) /\ view.calls \in Seq(SeenCall(t))
        BY <1>1, <2>1 DEF ClientOK, ChatViews
      <3>2. \A x \in SeenCall(t) : x.text \in OwnText(t)
        BY DEF SeenCall
      <3>3. \A p \in PiecesOf(view.calls) : p.turn = t
        BY <3>1, <3>2, PiecesOfAreOwn
      <3>4. \A p \in Range(view.text) : p.turn = t
        BY <3>1, TextIsOwn
      <3>5. \A p \in Range(view.reasoning) : p.turn = t
        BY <3>1, TextIsOwn
      <3> QED
        BY <2>1, <3>3, <3>4, <3>5 DEF Shown
    <2>2. CASE surface # "chat"
      <3>1. view.items \in Seq(SeenItem(t)) /\ view.output \in Seq(OwnItem(t))
        BY <1>1, <2>2 DEF ClientOK, Views, OwnOutput
      <3>2. \A x \in SeenItem(t) : x.text \in OwnText(t)
        BY DEF SeenItem
      <3>3. \A p \in PiecesOf(view.items) : p.turn = t
        BY <3>1, <3>2, PiecesOfAreOwn
      <3>4. \A p \in PiecesOf(view.output) : p.turn = t
        BY <1>2, <3>1, PiecesOfAreOwn
      <3> QED
        BY <2>2, <3>3, <3>4 DEF Shown
    <2> QED
      BY <2>1, <2>2
  <1>6. ASSUME NEW i \in DOMAIN stored.output PROVE stored.output[i].id[2] = t
    <2>1. stored.output \in OwnOutput(t)
      BY <1>1 DEF OwnResponse
    <2>2. stored.output[i].id \in OwnIds(t)
      BY <2>1, OwnPlaces
    <2> QED
      BY <2>2, IdsNameTheTurn
  <1> QED
    BY <1>1, <1>3, <1>4, <1>5, <1>6 DEF TurnsStayApart

\* A turn shows its client and saves only text that its model produced and
\* items that it named: not what came before its tool boundary, nor a block
\* that comes late, whatever the encoder closes, reconciles or drops.
THEOREM TurnsAreApart == Spec => []TurnsStayApart
  <1>1. Init => InATurn
    BY StartsOwn DEF InATurn
  <1>2. InATurn /\ [Next]_vars => InATurn'
    <2> SUFFICES ASSUME InATurn, [Next]_vars PROVE InATurn'
      OBVIOUS
    <2>1. PICK t \in Nat : OwnState(t)
      BY DEF InATurn
    <2> QED
      BY <2>1, StepsKeep
  <1>3. InATurn => TurnsStayApart
    BY OwnStateIsApart DEF InATurn
  <1> QED
    BY <1>1, <1>2, <1>3, PTL DEF Spec

=============================================================================
