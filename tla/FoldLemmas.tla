----------------------------- MODULE FoldLemmas -----------------------------
(***************************************************************************)
(* Recursion over sequences: that the recursive functions behind folds,    *)
(* and the like, exist, and what follows from their equations by           *)
(* induction.                                                              *)
(***************************************************************************)
EXTENDS Integers, SequencesExt, SequenceTheorems, NaturalsInduction, WellFoundedInduction, TLAPS

\* Induction, for a set of numbers.
LEMMA Induction ==
  ASSUME NEW P, 0 \in P, \A n \in Nat : n \in P => n + 1 \in P
  PROVE  Nat \subseteq P
<1> SUFFICES ASSUME Nat \ P # {} PROVE FALSE
  OBVIOUS
<1>1. \E x \in Nat \ P : \A y \in Nat \ P : ~(<<y, x>> \in OpToRel(<, Nat))
  BY WFMin, NatLessThanWellFounded
<1>2. \A x, y \in Nat : y < x => <<y, x>> \in OpToRel(<, Nat)
  BY Zenon DEF OpToRel
<1>3. PICK x \in Nat \ P : \A y \in Nat \ P : ~(y < x)
  BY Zenon, <1>1, <1>2
<1>4. x # 0
  BY <1>3
<1>5. x - 1 \in Nat /\ x - 1 < x /\ x - 1 + 1 = x
  BY <1>3, <1>4
<1> QED
  BY <1>3, <1>5

\* Up to a bound.
LEMMA BoundedInduction ==
  ASSUME NEW N \in Nat, NEW P, 0 \in P, \A n \in 0..N - 1 : n \in P => n + 1 \in P
  PROVE  0..N \subseteq P
<1> DEFINE Q == P \cup {n \in Nat : n > N}
<1>1. \A n \in Nat : n \in Q => n + 1 \in Q
  <2> SUFFICES ASSUME NEW n \in Nat, n \in Q PROVE n + 1 \in Q
    OBVIOUS
  <2>1. CASE n < N
    <3>1. n \in P /\ n \in 0..N - 1
      BY <2>1
    <3> QED
      BY <3>1
  <2>2. CASE n >= N
    BY <2>2
  <2> QED
    BY <2>1, <2>2
<1>2. 0 \in Q
  OBVIOUS
<1> HIDE DEF Q
<1>3. Nat \subseteq Q
  BY <1>1, <1>2, Induction
<1> QED
  BY <1>3 DEF Q

-----------------------------------------------------------------------------
(* The greatest of some positions. *)

LEMMA MaxOfPositions ==
  ASSUME NEW n \in Nat, NEW s \in SUBSET (1..n + 1), n + 1 \in s
  PROVE  Max(s) = n + 1
<1>1. \A y \in s : n + 1 >= y
  OBVIOUS
<1>2. \A x \in s : (\A y \in s : x >= y) => x = n + 1
  OBVIOUS
<1> QED
  BY <1>1, <1>2 DEF Max

\* The first positions without the last of them.
LEMMA FirstPositions ==
  ASSUME NEW k \in Nat, k # 0
  PROVE  Max(1..k) = k /\ (1..k) \ {k} = 1..k - 1
<1>1. \A x \in 1..k : (\A y \in 1..k : x >= y) <=> x = k
  OBVIOUS
<1>2. k \in 1..k
  OBVIOUS
<1> QED
  BY <1>1, <1>2 DEF Max

LEMMA MaxInPositions ==
  ASSUME NEW N \in Nat, NEW s \in SUBSET (1..N), s # {}
  PROVE  Max(s) \in s
<1> DEFINE P == {n \in Nat : n <= N => s \cap 1..n = {} \/ \E x \in s \cap 1..n : \A y \in s \cap 1..n : x >= y}
<1>1. 0 \in P
  OBVIOUS
<1>2. \A n \in Nat : n \in P => n + 1 \in P
  <2> SUFFICES ASSUME NEW n \in Nat, n \in P PROVE n + 1 \in P
    OBVIOUS
  <2>1. s \cap 1..n + 1 = IF n + 1 \in s THEN (s \cap 1..n) \cup {n + 1} ELSE s \cap 1..n
    OBVIOUS
  <2>2. CASE n + 1 \in s
    BY <2>1, <2>2
  <2>3. CASE n + 1 \notin s
    BY <2>1, <2>3
  <2> QED
    BY <2>2, <2>3
<1> HIDE DEF P
<1>3. N \in P
  BY <1>1, <1>2, Induction
<1>4. \E x \in s : \A y \in s : x >= y
  <2>1. s \cap 1..N = s
    OBVIOUS
  <2> QED
    BY <1>3, <2>1 DEF P
<1> QED
  BY <1>4 DEF Max

LEMMA MinInPositions ==
  ASSUME NEW N \in Nat, NEW s \in SUBSET (1..N), s # {}
  PROVE  Min(s) \in s /\ \A y \in s : Min(s) <= y
<1>1. \E x \in s : \A y \in s : ~(<<y, x>> \in OpToRel(<, Nat))
  <2>1. s \subseteq Nat
    OBVIOUS
  <2> QED
    BY <2>1, WFMin, NatLessThanWellFounded
<1>2. \A x, y \in Nat : y < x => <<y, x>> \in OpToRel(<, Nat)
  BY Zenon DEF OpToRel
<1>3. s \subseteq Nat
  OBVIOUS
<1>4. \E x \in s : \A y \in s : ~(y < x)
  BY Zenon, <1>1, <1>2, <1>3
<1>5. \E x \in s : \A y \in s : x =< y
  BY <1>3, <1>4
<1> QED
  BY <1>5 DEF Min

\* The function a left fold is defined by: FoldLeft takes the greatest
\* position out of every set of positions.
Iterates(iter, base, N, step) ==
  \A s \in SUBSET (1..N) :
    iter[s] = IF s = {} THEN base ELSE step[<<iter[s \ {Max(s)}], Max(s)>>]

LEMMA FoldExists ==
  ASSUME NEW T, NEW base, base \in T, NEW N, N \in Nat,
         NEW step, step \in [T \X (1..N) -> T]
  PROVE  \E iter : iter \in [SUBSET (1..N) -> T] /\ Iterates(iter, base, N, step)
<1> DEFINE IsIter(iter, n) ==
             \A s \in SUBSET (1..n) :
               iter[s] = IF s = {} THEN base ELSE step[<<iter[s \ {Max(s)}], Max(s)>>]
           P == {n \in Nat : \E iter \in [SUBSET (1..n) -> T] : IsIter(iter, n)}
<1>1. 0 \in P
  <2> DEFINE iter == [s \in SUBSET (1..0) |-> base]
  <2>1. iter \in [SUBSET (1..0) -> T] /\ IsIter(iter, 0)
    <3>1. \A s \in SUBSET (1..0) : s = {}
      OBVIOUS
    <3> QED
      BY <3>1
  <2> QED
    BY <2>1
<1>2. \A n \in 0..N - 1 : n \in P => n + 1 \in P
  <2> SUFFICES ASSUME NEW n \in 0..N - 1, n \in P PROVE n + 1 \in P
    OBVIOUS
  <2>1. PICK old \in [SUBSET (1..n) -> T] : IsIter(old, n)
    OBVIOUS
  <2> DEFINE iter == [s \in SUBSET (1..n + 1) |->
                        IF n + 1 \in s THEN step[<<old[s \ {n + 1}], n + 1>>] ELSE old[s]]
  <2>2. \A s \in SUBSET (1..n + 1) : s \ {n + 1} \in SUBSET (1..n)
    OBVIOUS
  <2>3. \A s \in SUBSET (1..n + 1) : n + 1 \notin s => s \in SUBSET (1..n)
    OBVIOUS
  <2>4. iter \in [SUBSET (1..n + 1) -> T]
    BY <2>2, <2>3
  <2>5. ASSUME NEW s \in SUBSET (1..n + 1)
        PROVE  iter[s] = IF s = {} THEN base ELSE step[<<iter[s \ {Max(s)}], Max(s)>>]
    <3>1. CASE n + 1 \in s
      <4>1. Max(s) = n + 1
        BY <3>1, MaxOfPositions
      <4>2. iter[s \ {n + 1}] = old[s \ {n + 1}]
        BY <2>2
      <4> QED
        BY <3>1, <4>1, <4>2
    <3>2. CASE n + 1 \notin s
      <4>1. s \in SUBSET (1..n) /\ iter[s] = old[s]
        BY <2>3, <3>2
      <4>2. CASE s = {}
        BY <2>1, <4>1, <4>2
      <4>3. CASE s # {}
        <5> DEFINE rest == s \ {Max(s)}
        <5>1. rest \subseteq s
          OBVIOUS
        <5> HIDE DEF rest
        <5>2. rest \in SUBSET (1..n) /\ rest \in SUBSET (1..n + 1) /\ n + 1 \notin rest
          BY <3>2, <4>1, <5>1
        <5>3. iter[rest] = old[rest]
          BY <5>2
        <5> QED
          BY <2>1, <4>1, <4>3, <5>3 DEF rest
      <4> QED
        BY <4>2, <4>3
    <3> QED
      BY <3>1, <3>2
  <2> HIDE DEF iter
  <2>6. IsIter(iter, n + 1)
    BY <2>5
  <2> HIDE DEF IsIter
  <2>7. n + 1 \in Nat
    OBVIOUS
  <2> QED
    BY <2>4, <2>6, <2>7
<1>3. 0..N \subseteq P
  <2> HIDE DEF P
  <2> QED
    BY <1>1, <1>2, BoundedInduction
<1>4. N \in P
  <2> HIDE DEF P
  <2> QED
    BY <1>3
<1>5. PICK iter \in [SUBSET (1..N) -> T] : IsIter(iter, N)
  BY <1>4
<1>6. Iterates(iter, base, N, step)
  <2> HIDE DEF P
  <2> QED
    BY Zenon, <1>5 DEF Iterates
<1> QED
  BY <1>5, <1>6

-----------------------------------------------------------------------------
(* Runs: what a recursion has computed after each element. *)

LEMMA RunStays ==
  ASSUME NEW N \in Nat, NEW T, NEW run, run[0] \in T,
         \A k \in 1..N : run[k - 1] \in T => run[k] \in T
  PROVE  \A k \in 0..N : run[k] \in T
<1> DEFINE P == {k \in Nat : run[k] \in T}
<1>1. 0 \in P
  OBVIOUS
<1>2. \A k \in 0..N - 1 : k \in P => k + 1 \in P
  <2> SUFFICES ASSUME NEW k \in 0..N - 1, k \in P PROVE k + 1 \in P
    OBVIOUS
  <2>1. k + 1 \in 1..N /\ k + 1 - 1 = k
    OBVIOUS
  <2> QED
    BY <2>1
<1>3. 0..N \subseteq P
  <2> HIDE DEF P
  <2> QED
    BY <1>1, <1>2, BoundedInduction
<1> QED
  BY <1>3

\* A machine that reads position after position has a run.
IsRun(run, base, N, step) == run[0] = base /\ \A k \in 1..N : run[k] = step[<<run[k - 1], k>>]

LEMMA RunExists ==
  ASSUME NEW T, NEW base \in T, NEW N \in Nat, NEW step \in [T \X (1..N) -> T]
  PROVE  \E run : IsRun(run, base, N, step)
<1>1. PICK iter : iter \in [SUBSET (1..N) -> T] /\ Iterates(iter, base, N, step)
  BY FoldExists
<1> DEFINE run == [k \in 0..N |-> iter[1..k]]
<1>2. run[0] = base
  <2>1. (1..0) = {} /\ (1..0) \in SUBSET (1..N) /\ 0 \in 0..N
    OBVIOUS
  <2> QED
    BY <1>1, <2>1 DEF Iterates
<1>3. ASSUME NEW k \in 1..N PROVE run[k] = step[<<run[k - 1], k>>]
  <2>1. 1..k \in SUBSET (1..N) /\ k \in 0..N /\ k - 1 \in 0..N /\ 1..k # {}
    <3>1. k \in 1..k /\ k \in 0..N /\ k - 1 \in 0..N
      OBVIOUS
    <3>2. 1..k \subseteq 1..N
      OBVIOUS
    <3> HIDE DEF run
    <3> QED
      BY Zenon, <3>1, <3>2
  <2>2. Max(1..k) = k /\ (1..k) \ {k} = 1..k - 1
    BY FirstPositions
  <2>3. iter[1..k] = step[<<iter[1..k - 1], k>>]
    BY Zenon, <1>1, <2>1, <2>2 DEF Iterates
  <2>4. run[k] = iter[1..k] /\ run[k - 1] = iter[1..k - 1]
    BY <2>1
  <2> HIDE DEF run
  <2> QED
    BY <2>3, <2>4
<1> HIDE DEF run
<1> QED
  BY <1>2, <1>3 DEF IsRun

\* The recursion FlattenSeq is defined by.
Flattens(flat, seqs, n) ==
  flat = [i \in 1..n |-> IF i = 1 THEN seqs[i] ELSE flat[i - 1] \o seqs[i]]

LEMMA FlattenExists ==
  ASSUME NEW seqs, NEW N \in Nat PROVE \E flat : Flattens(flat, seqs, N)
<1> DEFINE P == {n \in Nat : \E flat : Flattens(flat, seqs, n)}
<1>1. 0 \in P
  <2> DEFINE flat == [i \in 1..0 |-> seqs[i]]
  <2>1. Flattens(flat, seqs, 0)
    BY DEF Flattens
  <2> QED
    BY <2>1
<1>2. ASSUME NEW n \in Nat, n \in P PROVE n + 1 \in P
  <2>1. PICK old : Flattens(old, seqs, n)
    BY <1>2
  <2> DEFINE flat == [i \in 1..n + 1 |-> IF i = 1 THEN seqs[i] ELSE old[i - 1] \o seqs[i]]
  <2>2. ASSUME NEW i \in 1..n PROVE flat[i] = old[i]
    <3>1. i \in 1..n + 1
      OBVIOUS
    <3>2. old = [k \in 1..n |-> IF k = 1 THEN seqs[k] ELSE old[k - 1] \o seqs[k]]
      BY <2>1 DEF Flattens
    <3>3. old[i] = IF i = 1 THEN seqs[i] ELSE old[i - 1] \o seqs[i]
      BY Zenon, <3>2
    <3> QED
      BY <3>1, <3>3
  <2>3. ASSUME NEW i \in 1..n + 1
        PROVE  flat[i] = IF i = 1 THEN seqs[i] ELSE flat[i - 1] \o seqs[i]
    <3>1. i # 1 => i - 1 \in 1..n
      OBVIOUS
    <3>2. i # 1 => flat[i - 1] = old[i - 1]
      BY <2>2, <3>1
    <3>3. flat[i] = IF i = 1 THEN seqs[i] ELSE old[i - 1] \o seqs[i]
      OBVIOUS
    <3> HIDE DEF flat
    <3> QED
      BY <3>2, <3>3
  <2>4. flat = [i \in 1..n + 1 |-> flat[i]]
    OBVIOUS
  <2> HIDE DEF flat
  <2>5. flat = [i \in 1..n + 1 |-> IF i = 1 THEN seqs[i] ELSE flat[i - 1] \o seqs[i]]
    BY Zenon, <2>3, <2>4
  <2>6. Flattens(flat, seqs, n + 1)
    BY <2>5 DEF Flattens
  <2> QED
    BY <2>6
<1>3. N \in P
  <2> HIDE DEF P
  <2> QED
    BY <1>1, <1>2, Induction
<1> QED
  BY <1>3

LEMMA FlattenRuns ==
  ASSUME NEW seqs, Len(seqs) \in Nat, Len(seqs) # 0
  PROVE  \E run : /\ run[1] = seqs[1]
                  /\ \A k \in 2..Len(seqs) : run[k] = run[k - 1] \o seqs[k]
                  /\ FlattenSeq(seqs) = run[Len(seqs)]
<1> DEFINE N == Len(seqs)
           chosen == CHOOSE flat : Flattens(flat, seqs, N)
<1>1. Flattens(chosen, seqs, N)
  <2>1. \E flat : Flattens(flat, seqs, N)
    BY FlattenExists
  <2> QED
    BY Zenon, <2>1
<1>2. FlattenSeq(seqs) = chosen[N]
  BY DEF FlattenSeq, Flattens
<1> HIDE DEF chosen
<1>3. \A k \in 1..N : chosen[k] = IF k = 1 THEN seqs[k] ELSE chosen[k - 1] \o seqs[k]
  BY Zenon, <1>1 DEF Flattens
<1>4. 1 \in 1..N /\ \A k \in 2..N : k \in 1..N /\ k # 1
  OBVIOUS
<1> QED
  BY <1>2, <1>3, <1>4

\* Sequences put behind one another, one after the other.
LEMMA FlattenRun ==
  ASSUME NEW S, NEW seqs \in Seq(Seq(S))
  PROVE  \E flat : /\ flat[0] = <<>>
                   /\ \A k \in 1..Len(seqs) : flat[k] = flat[k - 1] \o seqs[k]
                   /\ \A k \in 0..Len(seqs) : flat[k] \in Seq(S)
                   /\ FlattenSeq(seqs) = flat[Len(seqs)]
<1>1. Len(seqs) \in Nat /\ \A k \in 1..Len(seqs) : seqs[k] \in Seq(S)
  OBVIOUS
<1>2. CASE Len(seqs) = 0
  <2> DEFINE flat == [k \in 0..0 |-> <<>>]
  <2>1. FlattenSeq(seqs) = <<>>
    BY <1>2 DEF FlattenSeq
  <2>2. flat[0] = <<>> /\ \A k \in 0..Len(seqs) : flat[k] \in Seq(S)
    BY <1>2
  <2> HIDE DEF flat
  <2> QED
    BY <1>2, <2>1, <2>2
<1>3. CASE Len(seqs) # 0
  <2> DEFINE N == Len(seqs)
             T == Seq(S)
  <2>1. PICK run : /\ run[1] = seqs[1]
                   /\ \A k \in 2..Len(seqs) : run[k] = run[k - 1] \o seqs[k]
                   /\ FlattenSeq(seqs) = run[Len(seqs)]
    BY <1>1, <1>3, FlattenRuns
  <2> DEFINE flat == [k \in 0..N |-> IF k = 0 THEN <<>> ELSE run[k]]
  <2>2. N \in Nat /\ flat[0] = <<>> /\ flat[N] = run[N]
    BY <1>1, <1>3
  <2>3. ASSUME NEW k \in 1..N PROVE flat[k] = flat[k - 1] \o seqs[k]
    <3>1. k \in 0..N /\ k - 1 \in 0..N /\ k # 0
      BY <1>1
    <3>2. flat[k] = run[k]
      BY <3>1
    <3>3. CASE k = 1
      <4>1. flat[k - 1] = <<>>
        BY <2>2, <3>3
      <4>2. <<>> \o seqs[1] = seqs[1]
        BY <1>1, <3>3
      <4> HIDE DEF flat
      <4> QED
        BY <2>1, <3>2, <3>3, <4>1, <4>2
    <3>4. CASE k # 1
      <4>1. flat[k - 1] = run[k - 1]
        BY <3>1, <3>4
      <4>2. run[k] = run[k - 1] \o seqs[k]
        <5>1. k \in 2..Len(seqs)
          BY <3>4
        <5> HIDE DEF N, flat
        <5> QED
          BY Zenon, <2>1, <5>1
      <4> HIDE DEF flat
      <4> QED
        BY <3>2, <4>1, <4>2
    <3> QED
      BY <3>3, <3>4
  <2>4. \A k \in 0..N : flat[k] \in T
    <3>1. flat[0] \in T
      BY <2>2
    <3>2. ASSUME NEW k \in 1..N, flat[k - 1] \in T PROVE flat[k] \in T
      <4>1. seqs[k] \in Seq(S) /\ flat[k - 1] \in Seq(S)
        BY <1>1, <3>2
      <4>2. flat[k] = flat[k - 1] \o seqs[k]
        BY <2>3
      <4> DEFINE x == flat[k - 1]
                 y == seqs[k]
      <4> HIDE DEF x, y
      <4>3. x \o y \in Seq(S)
        BY <4>1 DEF x, y
      <4> HIDE DEF flat
      <4> QED
        BY <4>2, <4>3 DEF x, y
    <3>3. \A k \in 1..N : flat[k - 1] \in T => flat[k] \in T
      BY <3>2
    <3> HIDE DEF flat, T, N
    <3> QED
      BY <2>2, <3>1, <3>3, RunStays
  <2> HIDE DEF flat
  <2> QED
    BY <2>1, <2>2, <2>3, <2>4
<1> QED
  BY <1>1, <1>2, <1>3

\* They are one sequence.
LEMMA FlattenType ==
  ASSUME NEW S, NEW seqs \in Seq(Seq(S)) PROVE FlattenSeq(seqs) \in Seq(S)
<1>1. Len(seqs) \in 0..Len(seqs)
  OBVIOUS
<1> QED
  BY <1>1, FlattenRun

-----------------------------------------------------------------------------
(* Where sequences stand in another. *)

\* Behind the first a elements of text stand these.
Stands(text, a, chars) ==
  a + Len(chars) <= Len(text) /\ \A k \in 1..Len(chars) : text[a + k] = chars[k]

LEMMA StandsApart ==
  ASSUME NEW S, NEW text \in Seq(S), NEW a \in Nat, NEW x \in Seq(S), NEW y \in Seq(S),
         Stands(text, a, x \o y)
  PROVE  Stands(text, a, x) /\ Stands(text, a + Len(x), y)
<1>1. Len(x) \in Nat /\ Len(y) \in Nat /\ Len(text) \in Nat /\ Len(x \o y) = Len(x) + Len(y)
  OBVIOUS
<1>2. \A k \in 1..Len(x) : (x \o y)[k] = x[k]
  OBVIOUS
<1>3. \A k \in 1..Len(y) : (x \o y)[Len(x) + k] = y[k]
  OBVIOUS
<1> DEFINE xy == x \o y
<1> HIDE DEF xy
<1>4. \A k \in 1..Len(x) + Len(y) : text[a + k] = xy[k]
  BY <1>1 DEF Stands, xy
<1>5. Stands(text, a, x)
  <2>1. \A k \in 1..Len(x) : k \in 1..Len(x) + Len(y)
    BY <1>1
  <2> QED
    BY <1>1, <1>2, <1>4, <2>1 DEF Stands, xy
<1>6. Stands(text, a + Len(x), y)
  <2>1. \A k \in 1..Len(y) : Len(x) + k \in 1..Len(x) + Len(y) /\ a + (Len(x) + k) = a + Len(x) + k
    BY <1>1
  <2>2. \A k \in 1..Len(y) : text[a + Len(x) + k] = y[k]
    BY <1>3, <1>4, <2>1 DEF xy
  <2> QED
    BY <1>1, <2>2 DEF Stands
<1> QED
  BY <1>5, <1>6

\* The offsets at which the pieces of a flattened sequence stand.
Splits(off, text, a, seqs) ==
  /\ off[0] = a
  /\ \A k \in 0..Len(seqs) : off[k] \in Nat
  /\ \A k \in 1..Len(seqs) : off[k] = off[k - 1] + Len(seqs[k]) /\ Stands(text, off[k - 1], seqs[k])
  /\ off[Len(seqs)] = a + Len(FlattenSeq(seqs))

LEMMA FlattenSplits ==
  ASSUME NEW S, NEW text \in Seq(S), NEW a \in Nat, NEW seqs \in Seq(Seq(S)),
         Stands(text, a, FlattenSeq(seqs))
  PROVE  \E off : Splits(off, text, a, seqs)
<1> DEFINE N == Len(seqs)
<1>1. N \in Nat /\ \A k \in 1..N : seqs[k] \in Seq(S)
  OBVIOUS
<1>2. PICK flat : /\ flat[0] = <<>>
                  /\ \A k \in 1..Len(seqs) : flat[k] = flat[k - 1] \o seqs[k]
                  /\ \A k \in 0..Len(seqs) : flat[k] \in Seq(S)
                  /\ FlattenSeq(seqs) = flat[Len(seqs)]
  BY FlattenRun
<1>3. ASSUME NEW k \in 1..N, Stands(text, a, flat[k])
      PROVE  /\ Stands(text, a, flat[k - 1])
             /\ Stands(text, a + Len(flat[k - 1]), seqs[k])
             /\ Len(flat[k]) = Len(flat[k - 1]) + Len(seqs[k])
  <2>1. flat[k] = flat[k - 1] \o seqs[k]
    BY <1>2
  <2>2. flat[k - 1] \in Seq(S) /\ seqs[k] \in Seq(S)
    <3>1. k - 1 \in 0..Len(seqs)
      BY <1>1
    <3> QED
      BY <1>1, <1>2, <3>1
  <2> DEFINE x == flat[k - 1]
             y == seqs[k]
  <2> HIDE DEF x, y, N
  <2>3. Stands(text, a, x \o y)
    BY <1>3, <2>1 DEF x, y
  <2>4. x \in Seq(S) /\ y \in Seq(S)
    BY <2>2 DEF x, y
  <2>5. Stands(text, a, x) /\ Stands(text, a + Len(x), y)
    BY <2>3, <2>4, StandsApart
  <2>6. Len(x \o y) = Len(x) + Len(y)
    BY <2>4
  <2> QED
    BY <2>1, <2>5, <2>6 DEF x, y
<1>4. \A k \in 0..N : Stands(text, a, flat[k])
  <2> DEFINE P == {m \in Nat : m <= N => Stands(text, a, flat[N - m])}
  <2>1. 0 \in P
    <3>1. N - 0 = N
      BY <1>1
    <3> QED
      BY <1>2, <3>1
  <2>2. ASSUME NEW m \in Nat, m \in P PROVE m + 1 \in P
    <3>1. CASE m + 1 <= N
      <4> DEFINE k == N - m
      <4>1. k \in 1..N /\ k - 1 = N - (m + 1) /\ m <= N
        BY <1>1, <3>1
      <4>2. Stands(text, a, flat[k])
        BY <2>2, <4>1
      <4> HIDE DEF k, N
      <4>3. Stands(text, a, flat[k - 1])
        BY <1>3, <4>1, <4>2
      <4> QED
        BY <4>1, <4>3
    <3>2. CASE ~(m + 1 <= N)
      BY <3>2
    <3> QED
      BY <3>1, <3>2
  <2>3. Nat \subseteq P
    <3> HIDE DEF P
    <3> QED
      BY <2>1, <2>2, Induction
  <2>4. ASSUME NEW k \in 0..N PROVE Stands(text, a, flat[k])
    <3>1. N - k \in P /\ N - (N - k) = k /\ N - k <= N
      <4>1. N - k \in Nat
        BY <1>1
      <4> HIDE DEF P
      <4> QED
        BY <1>1, <2>3, <4>1
    <3> HIDE DEF N
    <3> QED
      BY <3>1
  <2> QED
    BY <2>4
<1> DEFINE length == [k \in 0..N |-> Len(flat[k])]
<1>5. \A k \in 0..N : length[k] = Len(flat[k]) /\ length[k] \in Nat
  BY <1>2
<1>6. length[0] = 0 /\ length[N] = Len(FlattenSeq(seqs))
  BY <1>1, <1>2, <1>5
<1> DEFINE off == [k \in 0..N |-> a + length[k]]
<1> HIDE DEF length
<1>7. \A k \in 0..N : off[k] = a + length[k]
  OBVIOUS
<1> HIDE DEF off
<1>8. ASSUME NEW k \in 1..N
      PROVE  off[k] = off[k - 1] + Len(seqs[k]) /\ Stands(text, off[k - 1], seqs[k])
  <2>1. k \in 0..N /\ k - 1 \in 0..N
    BY <1>1
  <2>2. length[k] = length[k - 1] + Len(seqs[k]) /\ Stands(text, a + length[k - 1], seqs[k])
    BY <1>3, <1>4, <1>5, <2>1
  <2>3. off[k] = a + length[k] /\ off[k - 1] = a + length[k - 1]
    BY <1>7, <2>1
  <2>4. length[k - 1] \in Nat /\ length[k] \in Nat /\ Len(seqs[k]) \in Nat
    BY <1>1, <1>5, <2>1
  <2> HIDE DEF N
  <2> QED
    BY <2>2, <2>3, <2>4
<1>9. off[0] = a /\ off[N] = a + Len(FlattenSeq(seqs))
  <2>1. 0 \in 0..N /\ N \in 0..N
    BY <1>1
  <2> HIDE DEF N
  <2>2. off[0] = a + length[0] /\ off[N] = a + length[N]
    BY Zenon, <1>7, <2>1
  <2>3. a + 0 = a
    OBVIOUS
  <2> QED
    BY Zenon, <1>6, <2>2, <2>3
<1>10. \A k \in 0..N : off[k] \in Nat
  <2> HIDE DEF N
  <2> QED
    BY <1>5, <1>7
<1>11. Splits(off, text, a, seqs)
  BY <1>8, <1>9, <1>10 DEF Splits
<1> QED
  BY <1>11
=============================================================================
