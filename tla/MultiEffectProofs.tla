-------------------------- MODULE MultiEffectProofs --------------------------
(***************************************************************************)
(* For lists of any length: a mapped call is charged exactly its effects,  *)
(* each once; a rule takes none away; and a call with a target that cannot *)
(* be expressed is refused.                                                *)
(***************************************************************************)
EXTENDS MultiEffect, FoldLemmas

-----------------------------------------------------------------------------
(* Sequences without repetition. *)

\* A sequence extended by an element it does not have.
LEMMA AppendFresh ==
  ASSUME NEW S, NEW s \in Seq(S), IsInjective(s), NEW x \in S, x \notin ToSet(s)
  PROVE  /\ Append(s, x) \in Seq(S)
         /\ IsInjective(Append(s, x))
         /\ ToSet(Append(s, x)) = ToSet(s) \cup {x}
<1> DEFINE longer == Append(s, x)
<1>1. /\ longer \in Seq(S)
      /\ DOMAIN longer = 1..Len(s) + 1
      /\ \A i \in 1..Len(s) : longer[i] = s[i]
      /\ longer[Len(s) + 1] = x
      /\ DOMAIN s = 1..Len(s)
      /\ Len(s) \in Nat
    OBVIOUS
<1>2. ToSet(longer) = ToSet(s) \cup {x}
    BY <1>1 DEF ToSet
<1>3. IsInjective(longer)
    BY <1>1 DEF ToSet, IsInjective
<1>4. QED
    BY <1>1, <1>2, <1>3

LEMMA AppendNewProperties ==
  ASSUME NEW S, requirements \in Seq(S), IsInjective(requirements), NEW pair \in S
  PROVE  /\ AppendNew(pair) \in Seq(S)
         /\ IsInjective(AppendNew(pair))
         /\ ToSet(AppendNew(pair)) = ToSet(requirements) \cup {pair}
<1>1. CASE pair \in ToSet(requirements)
    BY <1>1 DEF AppendNew
<1>2. CASE pair \notin ToSet(requirements)
    BY <1>2, AppendFresh DEF AppendNew
<1>3. QED
    BY <1>1, <1>2

\* One element moved to the front.
LEMMA ToTheFront ==
  ASSUME NEW S, NEW s \in Seq(S), NEW k \in 1..Len(s)
  PROVE  /\ RemoveAt(s, k) \in Seq(S)
         /\ ToSet(<<s[k]>> \o RemoveAt(s, k)) = ToSet(s)
         /\ IsInjective(s) => IsInjective(<<s[k]>> \o RemoveAt(s, k))
<1> DEFINE rest == RemoveAt(s, k)
           moved == <<s[k]>> \o rest
           before == SubSeq(s, 1, k - 1)
           after == SubSeq(s, k + 1, Len(s))
<1>a. /\ before \in Seq(S) /\ Len(before) = k - 1
      /\ \A i \in 1..k - 1 : before[i] = s[i]
    OBVIOUS
<1>b. /\ after \in Seq(S) /\ Len(after) = Len(s) - k
      /\ \A i \in 1..Len(s) - k : after[i] = s[k + i]
    OBVIOUS
<1>c. rest = before \o after
    BY DEF RemoveAt
<1> HIDE DEF before, after, rest
<1>1. rest \in Seq(S) /\ Len(rest) = Len(s) - 1
    BY <1>a, <1>b, <1>c
<1>2. \A i \in 1..Len(s) - 1 : rest[i] = IF i < k THEN s[i] ELSE s[i + 1]
    BY <1>a, <1>b, <1>c
<1>3. /\ moved \in Seq(S) /\ Len(moved) = Len(s)
      /\ \A i \in 1..Len(s) : moved[i] = IF i = 1 THEN s[k] ELSE rest[i - 1]
    BY <1>1
<1>4. \A i \in 1..Len(s) :
        moved[i] = IF i = 1 THEN s[k] ELSE IF i - 1 < k THEN s[i - 1] ELSE s[i]
    BY <1>2, <1>3
<1> HIDE DEF moved
<1>5. DOMAIN moved = 1..Len(s) /\ DOMAIN s = 1..Len(s) /\ Len(s) \in Nat
    BY <1>3
<1>6. ToSet(moved) \subseteq ToSet(s)
    BY <1>4, <1>5 DEF ToSet
<1>7. ASSUME NEW j \in 1..Len(s) PROVE s[j] \in ToSet(moved)
  <2> DEFINE i == IF j = k THEN 1 ELSE IF j < k THEN j + 1 ELSE j
  <2>1. i \in 1..Len(s) /\ moved[i] = s[j]
      BY <1>4, <1>5
  <2>2. QED
      BY <2>1, <1>5 DEF ToSet
<1>8. ToSet(s) \subseteq ToSet(moved)
    BY <1>7, <1>5 DEF ToSet
<1>9. ASSUME IsInjective(s) PROVE IsInjective(moved)
  <2> SUFFICES ASSUME NEW a \in 1..Len(s), NEW b \in 1..Len(s), moved[a] = moved[b]
               PROVE  a = b
      BY <1>5 DEF IsInjective
  <2> DEFINE From(i) == IF i = 1 THEN k ELSE IF i - 1 < k THEN i - 1 ELSE i
  <2>1. From(a) \in 1..Len(s) /\ From(b) \in 1..Len(s) /\ moved[a] = s[From(a)] /\ moved[b] = s[From(b)]
      BY <1>4, <1>5
  <2>2. From(a) = From(b)
      BY <2>1, <1>9, <1>5 DEF IsInjective
  <2>3. QED
      BY <2>2, <1>5
<1>10. QED
    BY <1>1, <1>6, <1>8, <1>9 DEF moved, rest

\* The primary pair is one of those collected, and one that leads if any does.
LEMMA LeadIndexInRange ==
  ASSUME NEW S, requirements \in Seq(S), requirements # <<>>
  PROVE  /\ LeadIndex \in 1..Len(requirements)
         /\ (\E i \in 1..Len(requirements) : Leads(requirements[i])) => Leads(requirements[LeadIndex])
<1> DEFINE I == {i \in 1..Len(requirements) : Leads(requirements[i])}
<1>1. CASE I = {}
  <2>1. LeadIndex = 1
      BY <1>1 DEF LeadIndex
  <2>2. \A i \in 1..Len(requirements) : ~Leads(requirements[i])
      BY <1>1
  <2>3. Len(requirements) \in Nat \ {0}
      OBVIOUS
  <2>4. QED
      BY <2>1, <2>2, <2>3
<1>2. CASE I # {}
  <2>1. I \in SUBSET (1..Len(requirements)) /\ Len(requirements) \in Nat
      OBVIOUS
  <2>4. Min(I) \in I
    <3> HIDE DEF I
    <3>1. QED
        BY <1>2, <2>1, MinInPositions
  <2>5. LeadIndex = Min(I)
      BY <1>2 DEF LeadIndex, SelectInSeq
  <2>6. QED
      BY <2>4, <2>5
<1>3. QED
    BY <1>1, <1>2

-----------------------------------------------------------------------------
(* Where a path leads: normpath's loop and a walk along the names are runs *)
(* over the path, and stay alike.                                          *)

LEMMA FrontAppend ==
  ASSUME NEW S, NEW s \in Seq(S), NEW e \in S
  PROVE  /\ Append(s, e) \in Seq(S) /\ Front(s) \in Seq(S)
         /\ Len(Append(s, e)) = Len(s) + 1
         /\ \A i \in 1..Len(s) : Append(s, e)[i] = s[i]
         /\ Append(s, e)[Len(s) + 1] = e
         /\ s # <<>> => /\ Len(Front(s)) = Len(s) - 1
                        /\ \A i \in 1..Len(s) - 1 : Front(s)[i] = s[i]
<1>1. Len(s) \in Nat
  OBVIOUS
<1>2. Front(s) \in Seq(S)
  BY DEF Front
<1>3. s # <<>> => /\ Len(Front(s)) = Len(s) - 1
                  /\ \A i \in 1..Len(s) - 1 : Front(s)[i] = s[i]
  <2> SUFFICES ASSUME s # <<>>
               PROVE  Len(SubSeq(s, 1, Len(s) - 1)) = Len(s) - 1
                      /\ \A i \in 1..Len(s) - 1 : SubSeq(s, 1, Len(s) - 1)[i] = s[i]
    BY DEF Front
  <2>1. Len(s) > 0
    BY <1>1
  <2> DEFINE n == Len(s) - 1
  <2>2. n \in Int /\ n >= 0 /\ \A i \in 1..n : s[i] \in S
    BY <1>1, <2>1
  <2>3. /\ Len(SubSeq(s, 1, n)) = IF 1 <= n THEN n - 1 + 1 ELSE 0
        /\ \A i \in 1..n - 1 + 1 : SubSeq(s, 1, n)[i] = s[1 + i - 1]
    <3> HIDE DEF n
    <3> QED
      BY <2>2, SubSeqProperties
  <2>4. n - 1 + 1 = n /\ \A i \in 1..n : 1 + i - 1 = i
    BY <2>2
  <2> HIDE DEF n
  <2>5. Len(SubSeq(s, 1, n)) = n /\ \A i \in 1..n : SubSeq(s, 1, n)[i] = s[i]
    BY <2>2, <2>3, <2>4
  <2> QED
    BY <2>5 DEF n
<1> QED
  BY <1>1, <1>2, <1>3, AppendProperties

\* Folding a path is a run of its loop.
LEMMA FoldedRun ==
  ASSUME NEW S, NEW path \in Seq(S)
  PROVE  \E run : /\ run[0] = <<>>
                  /\ \A k \in 1..Len(path) : run[k] = FoldName(run[k - 1], path[k])
                  /\ Folded(path) = run[Len(path)]
<1> DEFINE N == Len(path)
           D == DOMAIN path
           T == Seq(S)
           step == [x \in T \X (1..N) |-> FoldName(x[1], path[x[2]])]
<1>1. N \in Nat /\ D = 1..N /\ \A k \in 1..N : path[k] \in S
  OBVIOUS
<1>2. step \in [T \X (1..N) -> T]
  <2>1. ASSUME NEW done \in T, NEW k \in 1..N PROVE FoldName(done, path[k]) \in T
    BY <1>1, FrontAppend DEF FoldName
  <2> HIDE DEF T
  <2>2. ASSUME NEW x \in T \X (1..N) PROVE FoldName(x[1], path[x[2]]) \in T
    BY <2>1
  <2> QED
    BY <2>2
<1>3. PICK iter : iter \in [SUBSET (1..N) -> T] /\ Iterates(iter, <<>>, N, step)
  <2>1. <<>> \in T
    OBVIOUS
  <2> HIDE DEF T, N, step
  <2> QED
    BY <1>1, <1>2, <2>1, FoldExists
<1> DEFINE IsIter(it) ==
             it = [s \in SUBSET D |-> IF s = {} THEN <<>> ELSE FoldName(it[s \ {Max(s)}], path[Max(s)])]
           chosen == CHOOSE it : IsIter(it)
<1>4. IsIter(iter)
  <2>1. ASSUME NEW s \in SUBSET (1..N)
        PROVE  iter[s] = IF s = {} THEN <<>> ELSE FoldName(iter[s \ {Max(s)}], path[Max(s)])
    <3>1. iter[s] = IF s = {} THEN <<>> ELSE step[<<iter[s \ {Max(s)}], Max(s)>>]
      <4> HIDE DEF T, N, step
      <4> QED
        BY <1>3 DEF Iterates
    <3>2. CASE s = {}
      BY <3>1, <3>2
    <3>3. CASE s # {}
      <4>1. Max(s) \in 1..N
        BY <1>1, <3>3, MaxInPositions
      <4>2. s \ {Max(s)} \in SUBSET (1..N)
        OBVIOUS
      <4>3. iter[s \ {Max(s)}] \in T
        BY <1>3, <4>2
      <4> HIDE DEF T, N
      <4>4. step[<<iter[s \ {Max(s)}], Max(s)>>] = FoldName(iter[s \ {Max(s)}], path[Max(s)])
        BY <4>1, <4>3
      <4> QED
        BY <3>1, <3>3, <4>4
    <3> QED
      BY <3>2, <3>3
  <2> HIDE DEF N, T
  <2> QED
    BY <1>1, <1>3, <2>1
<1>5. IsIter(chosen)
  BY Zenon, <1>4
<1>6. Folded(path) = chosen[D]
  BY Zenon DEF Folded, FoldLeft, MapThenFoldSet
<1> DEFINE run == [k \in 0..N |-> chosen[1..k]]
<1>7. run[0] = <<>>
  <2>1. (1..0) = {} /\ (1..0) \in SUBSET D /\ 0 \in 0..N
    BY <1>1
  <2> HIDE DEF chosen
  <2> QED
    BY <1>5, <2>1
<1>8. ASSUME NEW k \in 1..N PROVE run[k] = FoldName(run[k - 1], path[k])
  <2>1. 1..k \in SUBSET D /\ k \in 0..N /\ k - 1 \in 0..N /\ 1..k # {}
    BY <1>1
  <2>2. Max(1..k) = k /\ (1..k) \ {k} = 1..k - 1
    <3>1. k \in Nat /\ k # 0
      BY <1>1
    <3> QED
      BY <3>1, FirstPositions
  <2> HIDE DEF chosen
  <2> QED
    BY <1>5, <2>1, <2>2
<1>9. Folded(path) = run[N]
  BY <1>1, <1>6
<1> QED
  BY <1>7, <1>8, <1>9
\* A walk along a path is one too.
LEMMA ReachedRun ==
  ASSUME NEW S, NEW path \in Seq(S)
  PROVE  \E run : /\ run[0] = Above(path)
                  /\ \A k \in 1..Len(path) : run[k] = WalkName(run[k - 1], path[k])
                  /\ Reached(path) = run[Len(path)]
<1> DEFINE N == Len(path)
           D == DOMAIN path
           T == Seq(S \cup {Nul})
           base == Above(path)
           step == [x \in T \X (1..N) |-> WalkName(x[1], path[x[2]])]
<1>1. N \in Nat /\ D = 1..N /\ \A k \in 1..N : path[k] \in S
  OBVIOUS
<1>2. step \in [T \X (1..N) -> T]
  <2>1. ASSUME NEW done \in T, NEW k \in 1..N PROVE WalkName(done, path[k]) \in T
    BY <1>1, FrontAppend DEF WalkName
  <2> HIDE DEF T
  <2>2. ASSUME NEW x \in T \X (1..N) PROVE WalkName(x[1], path[x[2]]) \in T
    BY <2>1
  <2> QED
    BY <2>2
<1>3. PICK iter : iter \in [SUBSET (1..N) -> T] /\ Iterates(iter, base, N, step)
  <2>1. base \in T
    BY <1>1 DEF Above
  <2> HIDE DEF T, N, step, base
  <2> QED
    BY <1>1, <1>2, <2>1, FoldExists
<1> DEFINE IsIter(it) ==
             it = [s \in SUBSET D |-> IF s = {} THEN base ELSE WalkName(it[s \ {Max(s)}], path[Max(s)])]
           chosen == CHOOSE it : IsIter(it)
<1>4. IsIter(iter)
  <2>1. ASSUME NEW s \in SUBSET (1..N)
        PROVE  iter[s] = IF s = {} THEN base ELSE WalkName(iter[s \ {Max(s)}], path[Max(s)])
    <3>1. iter[s] = IF s = {} THEN base ELSE step[<<iter[s \ {Max(s)}], Max(s)>>]
      <4> HIDE DEF T, N, step
      <4> QED
        BY <1>3 DEF Iterates
    <3>2. CASE s = {}
      BY <3>1, <3>2
    <3>3. CASE s # {}
      <4>1. Max(s) \in 1..N
        BY <1>1, <3>3, MaxInPositions
      <4>2. s \ {Max(s)} \in SUBSET (1..N)
        OBVIOUS
      <4>3. iter[s \ {Max(s)}] \in T
        BY <1>3, <4>2
      <4> HIDE DEF T, N
      <4>4. step[<<iter[s \ {Max(s)}], Max(s)>>] = WalkName(iter[s \ {Max(s)}], path[Max(s)])
        BY <4>1, <4>3
      <4> QED
        BY <3>1, <3>3, <4>4
    <3> QED
      BY <3>2, <3>3
  <2> HIDE DEF N, T
  <2> QED
    BY <1>1, <1>3, <2>1
<1>5. IsIter(chosen)
  BY Zenon, <1>4
<1>6. Reached(path) = chosen[D]
  BY Zenon DEF Reached, FoldLeft, MapThenFoldSet
<1> DEFINE run == [k \in 0..N |-> chosen[1..k]]
<1>7. run[0] = Above(path)
  <2>1. (1..0) = {} /\ (1..0) \in SUBSET D /\ 0 \in 0..N
    BY <1>1
  <2> HIDE DEF chosen
  <2> QED
    BY <1>5, <2>1
<1>8. ASSUME NEW k \in 1..N PROVE run[k] = WalkName(run[k - 1], path[k])
  <2>1. 1..k \in SUBSET D /\ k \in 0..N /\ k - 1 \in 0..N /\ 1..k # {}
    BY <1>1
  <2>2. Max(1..k) = k /\ (1..k) \ {k} = 1..k - 1
    <3>1. k \in Nat /\ k # 0
      BY <1>1
    <3> QED
      BY <3>1, FirstPositions
  <2> HIDE DEF chosen
  <2> QED
    BY <1>5, <2>1, <2>2
<1>9. Reached(path) = run[N]
  BY <1>1, <1>6
<1> QED
  BY <1>7, <1>8, <1>9

\* What the loop has left of k names and where a walk along them is, N
\* directories deep: m of the names lead out of the tree, the others go down
\* from there.
Alike(d, at, m, k, N) ==
  /\ m \in 0..k /\ m <= Len(d)
  /\ \A i \in 1..m : d[i] = ".."
  /\ \A i \in m + 1..Len(d) : d[i] \notin {"", ".", ".."}
  /\ Len(at) = N - m + (Len(d) - m)
  /\ \A i \in 1..N - m : at[i] = Nul
  /\ \A i \in 1..Len(d) - m : at[N - m + i] = d[m + i]

LEMMA IsAlike ==
  ASSUME NEW d, NEW at, NEW m, NEW k, NEW N, NEW L, NEW M, Len(d) = L, Len(at) = M,
         m \in 0..k, m <= L, M = N - m + (L - m),
         \A i \in 1..m : d[i] = "..",
         \A i \in m + 1..L : d[i] \notin {"", ".", ".."},
         \A i \in 1..N - m : at[i] = Nul,
         \A i \in 1..L - m : at[N - m + i] = d[m + i]
  PROVE  Alike(d, at, m, k, N)
BY DEF Alike

LEMMA AlikeStep ==
  ASSUME NEW S, NEW T, NEW d \in Seq(S), NEW at \in Seq(T), NEW N \in Nat,
         NEW k \in 0..N - 1, NEW m \in Nat, Alike(d, at, m, k, N), NEW name \in S, name \in T
  PROVE  \E n \in Nat : Alike(FoldName(d, name), WalkName(at, name), n, k + 1, N)
<1> DEFINE L == Len(d)
           M == Len(at)
<1>1. L \in Nat /\ M \in Nat /\ k \in Nat /\ k < N
  OBVIOUS
<1>2. m \in 0..k /\ m <= Len(d)
  BY DEF Alike
<1>3. m <= k /\ m <= L
  BY <1>2
<1>4. M = N - m + (L - m)
  BY DEF Alike
<1>5. \A i \in 1..m : d[i] = ".."
  BY DEF Alike
<1>6. \A i \in m + 1..L : d[i] \notin {"", ".", ".."}
  BY DEF Alike
<1>7. \A i \in 1..N - m : at[i] = Nul
  BY DEF Alike
<1>8. \A i \in 1..L - m : at[N - m + i] = d[m + i]
  BY DEF Alike
<1>9. /\ d = <<>> <=> L = 0
      /\ at = <<>> <=> M = 0
      /\ Last(d) = d[L]
  BY DEF Last
<1>10. /\ d # <<>> => Len(Front(d)) = L - 1 /\ \A i \in 1..L - 1 : Front(d)[i] = d[i]
       /\ at # <<>> => Len(Front(at)) = M - 1 /\ \A i \in 1..M - 1 : Front(at)[i] = at[i]
  BY FrontAppend
<1>11. /\ Len(Append(d, name)) = L + 1 /\ Append(d, name)[L + 1] = name
       /\ \A i \in 1..L : Append(d, name)[i] = d[i]
       /\ Len(Append(at, name)) = M + 1 /\ Append(at, name)[M + 1] = name
       /\ \A i \in 1..M : Append(at, name)[i] = at[i]
  BY FrontAppend
<1> HIDE DEF L, M
<1>12. /\ L \in Nat /\ M \in Nat /\ k \in Nat /\ k < N /\ m <= k /\ m <= L
       /\ M = N - m + (L - m)
  BY <1>1, <1>3, <1>4
<1>13. CASE name \in {"", "."}
  <2>1. FoldName(d, name) = d /\ WalkName(at, name) = at
    BY <1>13 DEF FoldName, WalkName
  <2>2. m \in 0..k + 1
    BY <1>12
  <2>3. Alike(d, at, m, k + 1, N)
    BY <2>2 DEF Alike
  <2> QED
    BY <2>1, <2>3
<1>14. CASE name = ".." /\ L = m
  <2>1. FoldName(d, name) = Append(d, name)
    <3>1. d = <<>> \/ Last(d) = ".."
      BY <1>9, <1>12, <1>14, <1>5
    <3> QED
      BY <1>14, <3>1 DEF FoldName
  <2>2. WalkName(at, name) = Front(at)
    BY <1>14 DEF WalkName
  <2>3. M = N - m /\ at # <<>>
    BY <1>9, <1>12, <1>14
  <2> DEFINE e == Append(d, name)
             bt == Front(at)
  <2>4. Len(bt) = N - m - 1 /\ \A i \in 1..N - m - 1 : bt[i] = at[i]
    BY <2>3, <1>10
  <2>5. Len(e) = m + 1 /\ e[m + 1] = ".." /\ \A i \in 1..m : e[i] = d[i]
    BY <1>14, <1>11
  <2> HIDE DEF e, bt
  <2>6. /\ m + 1 \in 0..k + 1
        /\ \A i \in 1..m + 1 : e[i] = ".."
        /\ \A i \in 1..N - (m + 1) : bt[i] = Nul
    BY <1>12, <2>4, <2>5, <1>5, <1>7
  <2>7. /\ m + 1 <= m + 1 /\ N - m - 1 = N - (m + 1) + (m + 1 - (m + 1))
        /\ m + 1 + 1..m + 1 = {} /\ 1..m + 1 - (m + 1) = {}
    BY <1>12
  <2> DEFINE m2 == m + 1
  <2>8. /\ m2 \in 0..k + 1 /\ m2 <= m2 /\ Len(e) = m2 /\ Len(bt) = N - m2 + (m2 - m2)
        /\ \A i \in 1..m2 : e[i] = ".."
        /\ \A i \in 1..N - m2 : bt[i] = Nul
        /\ m2 + 1..m2 = {} /\ 1..m2 - m2 = {}
    BY <2>4, <2>5, <2>6, <2>7
  <2> HIDE DEF m2
  <2>9. Alike(e, bt, m2, k + 1, N)
    BY <2>8 DEF Alike
  <2> QED
    BY <1>12, <2>1, <2>2, <2>9 DEF e, bt, m2
<1>15. CASE name = ".." /\ L # m
  <2>1. L > m /\ d # <<>> /\ M > 0 /\ at # <<>> /\ L \in m + 1..L
    BY <1>9, <1>12, <1>15
  <2>2. FoldName(d, name) = Front(d)
    <3>1. Last(d) # ".."
      BY <1>9, <1>6, <2>1
    <3> QED
      BY <1>15, <2>1, <3>1 DEF FoldName
  <2>3. WalkName(at, name) = Front(at)
    BY <1>15 DEF WalkName
  <2> DEFINE e == Front(d)
             bt == Front(at)
  <2>4. Len(bt) = M - 1 /\ \A i \in 1..M - 1 : bt[i] = at[i]
    BY <2>1, <1>10
  <2>5. Len(e) = L - 1 /\ \A i \in 1..L - 1 : e[i] = d[i]
    BY <2>1, <1>10
  <2> HIDE DEF e, bt
  <2>6. m \in 0..k + 1 /\ \A i \in 1..m : e[i] = ".."
    BY <1>12, <2>1, <2>5, <1>5
  <2>7. ASSUME NEW i \in m + 1..L - 1 PROVE e[i] \notin {"", ".", ".."}
    <3>1. i \in m + 1..L /\ i \in 1..L - 1
      BY <1>12
    <3> QED
      BY <2>5, <3>1, <1>6
  <2>8. ASSUME NEW i \in 1..N - m PROVE bt[i] = Nul
    <3>1. i \in 1..M - 1
      BY <1>12, <2>1
    <3> QED
      BY <2>4, <3>1, <1>7
  <2>9. ASSUME NEW i \in 1..L - 1 - m PROVE bt[N - m + i] = e[m + i]
    <3>1. N - m + i \in 1..M - 1 /\ m + i \in 1..L - 1 /\ i \in 1..L - m
      BY <1>12, <2>1
    <3> QED
      BY <2>4, <2>5, <3>1, <1>8
  <2>10. m <= L - 1 /\ M - 1 = N - m + (L - 1 - m)
    BY <1>12, <2>1
  <2>11. Alike(e, bt, m, k + 1, N)
    BY <2>4, <2>5, <2>6, <2>8, <2>7, <2>9, <2>10, IsAlike
  <2> QED
    BY <2>2, <2>3, <2>11 DEF e, bt
<1>16. CASE name \notin {"", ".", ".."}
  <2>1. FoldName(d, name) = Append(d, name) /\ WalkName(at, name) = Append(at, name)
    BY <1>16 DEF FoldName, WalkName
  <2> DEFINE e == Append(d, name)
             bt == Append(at, name)
  <2>2. Len(bt) = M + 1 /\ bt[M + 1] = name /\ \A i \in 1..M : bt[i] = at[i]
    BY <1>11
  <2>3. Len(e) = L + 1 /\ e[L + 1] = name /\ \A i \in 1..L : e[i] = d[i]
    BY <1>11
  <2> HIDE DEF e, bt
  <2>4. m \in 0..k + 1 /\ \A i \in 1..m : e[i] = ".."
    BY <1>12, <2>3, <1>5
  <2>5. ASSUME NEW i \in m + 1..L + 1 PROVE e[i] \notin {"", ".", ".."}
    <3>1. i = L + 1 \/ (i \in m + 1..L /\ i \in 1..L)
      BY <1>12
    <3> QED
      BY <1>16, <2>3, <3>1, <1>6
  <2>6. ASSUME NEW i \in 1..N - m PROVE bt[i] = Nul
    <3>1. i \in 1..M
      BY <1>12
    <3> QED
      BY <2>2, <3>1, <1>7
  <2>7. ASSUME NEW i \in 1..(L + 1) - m PROVE bt[N - m + i] = e[m + i]
    <3>1. CASE i = (L + 1) - m
      <4>1. N - m + i = M + 1 /\ m + i = L + 1
        BY <1>12, <3>1
      <4> QED
        BY <2>2, <2>3, <4>1
    <3>2. CASE i # (L + 1) - m
      <4>1. N - m + i \in 1..M /\ m + i \in 1..L /\ i \in 1..L - m
        BY <1>12, <3>2
      <4> QED
        BY <2>2, <2>3, <4>1, <1>8
    <3> QED
      BY <3>1, <3>2
  <2>8. m <= L + 1 /\ M + 1 = N - m + ((L + 1) - m)
    BY <1>12
  <2>9. PICK L2, M2 : L2 = L + 1 /\ M2 = M + 1
    OBVIOUS
  <2>10. Len(e) = L2 /\ Len(bt) = M2 /\ m <= L2 /\ M2 = N - m + (L2 - m)
    BY Zenon, <2>2, <2>3, <2>8, <2>9
  <2>11. \A i \in m + 1..L2 : e[i] \notin {"", ".", ".."}
    BY Zenon, <2>5, <2>9
  <2>12. \A i \in 1..L2 - m : bt[N - m + i] = e[m + i]
    BY Zenon, <2>7, <2>9
  <2>13. Alike(e, bt, m, k + 1, N)
    BY <2>4, <2>6, <2>10, <2>11, <2>12 DEF Alike
  <2> QED
    BY <2>1, <2>13 DEF e, bt
<1> QED
  BY <1>13, <1>14, <1>15, <1>16

\* A folded path and a walk along it, once the path is at its end.
LEMMA FoldedAndReached ==
  ASSUME NEW S, NEW path \in Seq(S)
  PROVE  /\ Folded(path) \in Seq(S)
         /\ Reached(path) \in Seq(S \cup {Nul})
         /\ \E m \in Nat : Alike(Folded(path), Reached(path), m, Len(path), Len(path))
<1> DEFINE N == Len(path)
<1>1. N \in Nat /\ \A k \in 1..N : path[k] \in S
  OBVIOUS
<1>2. PICK d : /\ d[0] = <<>>
               /\ \A k \in 1..N : d[k] = FoldName(d[k - 1], path[k])
               /\ Folded(path) = d[N]
  BY FoldedRun
<1>3. PICK at : /\ at[0] = Above(path)
                /\ \A k \in 1..N : at[k] = WalkName(at[k - 1], path[k])
                /\ Reached(path) = at[N]
  BY ReachedRun
<1> DEFINE P == {k \in 0..N : /\ d[k] \in Seq(S) /\ at[k] \in Seq(S \cup {Nul})
                              /\ \E m \in Nat : Alike(d[k], at[k], m, k, N)}
<1>4. 0 \in P
  <2>1. <<>> \in Seq(S) /\ Len(<<>>) = 0
    OBVIOUS
  <2>2. Above(path) \in Seq(S \cup {Nul}) /\ Len(Above(path)) = N /\ \A i \in 1..N : Above(path)[i] = Nul
    BY DEF Above
  <2>3. Alike(<<>>, Above(path), 0, 0, N)
    <3> HIDE DEF N
    <3> QED
      BY <1>1, <2>1, <2>2 DEF Alike
  <2>4. 0 \in 0..N /\ 0 \in Nat
    BY <1>1
  <2> HIDE DEF N
  <2> QED
    BY <1>2, <1>3, <2>1, <2>2, <2>3, <2>4
<1>5. \A k \in 0..N - 1 : k \in P => k + 1 \in P
  <2> SUFFICES ASSUME NEW k \in 0..N - 1, k \in P PROVE k + 1 \in P
    OBVIOUS
  <2>1. k + 1 \in 1..N /\ k + 1 \in 0..N /\ k + 1 - 1 = k
    BY <1>1
  <2> HIDE DEF N
  <2>2. d[k + 1] = FoldName(d[k], path[k + 1]) /\ at[k + 1] = WalkName(at[k], path[k + 1])
        /\ path[k + 1] \in S
    BY <1>1, <1>2, <1>3, <2>1
  <2>3. /\ d[k] \in Seq(S) /\ at[k] \in Seq(S \cup {Nul})
        /\ \E m \in Nat : Alike(d[k], at[k], m, k, N)
    OBVIOUS
  <2>4. FoldName(d[k], path[k + 1]) \in Seq(S)
    BY <2>2, <2>3, FrontAppend DEF FoldName
  <2>5. WalkName(at[k], path[k + 1]) \in Seq(S \cup {Nul})
    <3> DEFINE T == S \cup {Nul}
    <3>1. at[k] \in Seq(T) /\ path[k + 1] \in T
      BY <2>2, <2>3
    <3> HIDE DEF T
    <3>2. WalkName(at[k], path[k + 1]) \in Seq(T)
      BY <3>1, FrontAppend DEF WalkName
    <3> QED
      BY <3>2 DEF T
  <2>6. d[k + 1] \in Seq(S) /\ at[k + 1] \in Seq(S \cup {Nul})
    BY <2>2, <2>4, <2>5
  <2>7. \E n \in Nat : Alike(d[k + 1], at[k + 1], n, k + 1, N)
    BY <1>1, <2>2, <2>3, AlikeStep
  <2> QED
    BY <2>1, <2>6, <2>7
<1> HIDE DEF P, N
<1>6. 0..N \subseteq P
  BY <1>1, <1>4, <1>5, BoundedInduction
<1>7. N \in P
  BY <1>1, <1>6
<1> QED
  BY <1>2, <1>3, <1>7 DEF P, N

LEMMA PlainName ==
  ASSUME NEW done, NEW name, name \notin {"", ".", ".."}
  PROVE  FoldName(done, name) = Append(done, name)
BY DEF FoldName

\* Nothing but names to go down by.
Descends(d) == \A i \in 1..Len(d) : d[i] \notin {"", ".", ".."}

\* Folding what has been folded changes nothing, once nothing leads out.
LEMMA FoldedAgain ==
  ASSUME NEW S, NEW d \in Seq(S), Descends(d)
  PROVE  Folded(d) = d
<1> DEFINE N == Len(d)
<1>1. N \in Nat /\ \A k \in 1..N : d[k] \in S
  OBVIOUS
<1>2. PICK run : /\ run[0] = <<>>
                 /\ \A k \in 1..N : run[k] = FoldName(run[k - 1], d[k])
                 /\ Folded(d) = run[N]
  BY FoldedRun
<1> DEFINE P == {k \in 0..N : /\ run[k] \in Seq(S) /\ Len(run[k]) = k
                              /\ \A i \in 1..k : run[k][i] = d[i]}
<1>3. 0 \in P
  <2>1. <<>> \in Seq(S) /\ Len(<<>>) = 0 /\ 1..0 = {}
    OBVIOUS
  <2>2. 0 \in 0..N
    BY <1>1
  <2> HIDE DEF N
  <2>3. run[0] \in Seq(S) /\ Len(run[0]) = 0 /\ \A i \in 1..0 : run[0][i] = d[i]
    BY <1>2, <2>1
  <2> QED
    BY <2>2, <2>3
<1>4. \A k \in 0..N - 1 : k \in P => k + 1 \in P
  <2> SUFFICES ASSUME NEW k \in 0..N - 1, k \in P PROVE k + 1 \in P
    OBVIOUS
  <2>1. k + 1 \in 1..N /\ k + 1 \in 0..N /\ k + 1 - 1 = k
    BY <1>1
  <2>2. d[k + 1] \notin {"", ".", ".."}
    BY <2>1 DEF Descends
  <2> HIDE DEF N
  <2>3. run[k + 1] = Append(run[k], d[k + 1])
    <3>1. run[k + 1] = FoldName(run[k], d[k + 1])
      BY <1>2, <2>1
    <3> QED
      BY Zenon, <2>2, <3>1, PlainName
  <2>4. run[k] \in Seq(S) /\ Len(run[k]) = k /\ \A i \in 1..k : run[k][i] = d[i]
    OBVIOUS
  <2>5. /\ run[k + 1] \in Seq(S) /\ Len(run[k + 1]) = k + 1
        /\ \A i \in 1..k : run[k + 1][i] = d[i]
        /\ run[k + 1][k + 1] = d[k + 1]
    BY <1>1, <2>1, <2>3, <2>4, FrontAppend
  <2>6. \A i \in 1..k + 1 : run[k + 1][i] = d[i]
    BY <2>5
  <2> QED
    BY <2>1, <2>5, <2>6
<1> HIDE DEF P, N
<1>5. 0..N \subseteq P
  BY <1>1, <1>3, <1>4, BoundedInduction
<1>6. N \in P
  BY <1>1, <1>5
<1> HIDE DEF P
<1>7. run[N] \in Seq(S) /\ Len(run[N]) = N /\ \A i \in 1..N : run[N][i] = d[i]
  BY <1>6 DEF P
<1>8. run[N] = d
  BY <1>7 DEF N
<1> QED
  BY <1>2, <1>8

\* A path that stays in its tree and is not its root folds to names, and a
\* walk along it ends at these names below the place it began at.
LEMMA NormalPath ==
  ASSUME NEW S, NEW path \in Seq(S), NormalizePath(path) # NoResource
  PROVE  /\ NormalizePath(path) = Folded(path)
         /\ Folded(path) \in Seq(S \ {"", ".", "..", Nul})
         /\ Folded(path) # <<>> /\ Descends(Folded(path))
<1> DEFINE R == ToSet(path)
           d == Folded(path)
<1>1. path \in Seq(R) /\ R \subseteq S
  BY DEF ToSet
<1>2. Nul \notin R /\ d # <<>> /\ d[1] # ".." /\ NormalizePath(path) = d
  BY DEF NormalizePath
<1> HIDE DEF R
<1>3. d \in Seq(R) /\ \E m \in Nat : Alike(d, Reached(path), m, Len(path), Len(path))
  BY <1>1, FoldedAndReached
<1> HIDE DEF d
<1>4. Descends(d)
  <2>1. PICK m \in Nat : Alike(d, Reached(path), m, Len(path), Len(path))
    BY <1>3
  <2>2. m <= Len(d) /\ \A i \in 1..m : d[i] = ".."
    BY <2>1 DEF Alike
  <2>3. m = 0
    BY <1>2, <2>2
  <2>4. \A i \in m + 1..Len(d) : d[i] \notin {"", ".", ".."}
    BY Zenon, <2>1 DEF Alike
  <2>5. m + 1 = 1
    BY <2>3
  <2> QED
    BY Zenon, <2>4, <2>5 DEF Descends
<1>5. d \in Seq(R \ {"", ".", ".."})
  <2>1. ASSUME NEW i \in 1..Len(d) PROVE d[i] \in R \ {"", ".", ".."}
    <3>1. d[i] \in R
      BY <1>3
    <3>2. d[i] \notin {"", ".", ".."}
      BY Zenon, <1>4 DEF Descends
    <3> QED
      BY Zenon, <3>1, <3>2
  <2> DEFINE T == R \ {"", ".", ".."}
  <2> HIDE DEF T
  <2>2. \A i \in 1..Len(d) : d[i] \in T
    BY Zenon, <2>1 DEF T
  <2>3. d \in Seq(T)
    BY <1>3, <2>2
  <2> QED
    BY <2>3 DEF T
<1>6. R \ {"", ".", ".."} \subseteq S \ {"", ".", "..", Nul}
  BY <1>1, <1>2
<1>7. d \in Seq(S \ {"", ".", "..", Nul})
  <2> DEFINE T == R \ {"", ".", ".."}
             U == S \ {"", ".", "..", Nul}
  <2> HIDE DEF T, U
  <2>1. d \in Seq(T) /\ T \subseteq U
    BY <1>5, <1>6 DEF T, U
  <2>2. d \in Seq(U)
    BY <2>1
  <2> QED
    BY <2>2 DEF U
<1> QED
  BY <1>2, <1>4, <1>7 DEF d

LEMMA SecretKindType ==
  ASSUME NEW names
  PROVE  SecretKind(names) \in SecretKinds \cup {NoName}
<1> DEFINE lower == [i \in DOMAIN names |-> Lower[names[i]]]
           says == ToSet(lower)
           base == Last(lower)
           kinds ==
             <<<<base \in EnvNames, "env">>,
               <<".ssh" \in says \/ base \in {"id_rsa", "id_ed25519", "known_hosts"}, "ssh">>,
               <<".aws" \in says, "aws">>,
               <<{".config", "gcloud"} \subseteq says, "gcp">>,
               <<base = "application_default_credentials.json", "gcp">>,
               <<".azure" \in says, "azure">>,
               <<base \in {".netrc", "_netrc"}, "netrc">>,
               <<base \in {".npmrc", ".pypirc"}, "package-registry">>,
               <<".kube" \in says /\ base = "config", "kube">>,
               <<base \in {".git-credentials", ".gitconfig"}, "git">>,
               <<base \in AppNames, "app">>>>
           first == SelectInSeq(kinds, LAMBDA kind : kind[1])
<1>1. SecretKind(names) = IF first = 0 THEN NoName ELSE kinds[first][2]
  BY DEF SecretKind
<1>2. Len(kinds) = 11 /\ \A i \in 1..11 : kinds[i][2] \in SecretKinds
  <2> HIDE DEF lower, says, base
  <2> QED
    BY DEF SecretKinds
<1> HIDE DEF kinds
<1>3. first \in 0..11
  <2> DEFINE I == {i \in 1..Len(kinds) : kinds[i][1]}
  <2>1. first = IF I # {} THEN Min(I) ELSE 0
    BY DEF SelectInSeq
  <2>2. I \in SUBSET (1..11) /\ 11 \in Nat
    BY <1>2
  <2> HIDE DEF I, first
  <2>3. I # {} => Min(I) \in 1..11
    BY <2>2, MinInPositions
  <2> QED
    BY <2>1, <2>3
<1> HIDE DEF first
<1> QED
  BY <1>1, <1>2, <1>3

LEMMA PartOf ==
  ASSUME NEW S, NEW s \in Seq(S), NEW a \in Nat, NEW n \in Nat, a + n <= Len(s)
  PROVE  /\ SubSeq(s, a + 1, a + n) \in Seq(S)
         /\ Len(SubSeq(s, a + 1, a + n)) = n
         /\ \A i \in 1..n : SubSeq(s, a + 1, a + n)[i] = s[a + i]
<1>1. Len(s) \in Nat
  OBVIOUS
<1>2. PICK first, last : first = a + 1 /\ last = a + n
  OBVIOUS
<1>3. first \in Int /\ last \in Int /\ \A i \in first..last : s[i] \in S
  BY <1>1, <1>2
<1>4. /\ SubSeq(s, first, last) \in Seq(S)
      /\ Len(SubSeq(s, first, last)) = IF first <= last THEN last - first + 1 ELSE 0
      /\ \A i \in 1..last - first + 1 : SubSeq(s, first, last)[i] = s[first + i - 1]
  BY <1>3, SubSeqProperties
<1>5. /\ n = IF first <= last THEN last - first + 1 ELSE 0
      /\ 1..n = 1..last - first + 1
      /\ \A i \in 1..n : first + i - 1 = a + i
  BY <1>2
<1>6. /\ Len(SubSeq(s, first, last)) = n
      /\ \A i \in 1..n : SubSeq(s, first, last)[i] = s[a + i]
  BY <1>4, <1>5
<1> QED
  BY <1>2, <1>4, <1>6

LEMMA PrefixOf ==
  ASSUME NEW S, NEW s \in Seq(S), NEW t \in Seq(S)
  PROVE  IsPrefix(s, t) <=> Len(s) <= Len(t) /\ \A i \in 1..Len(s) : s[i] = t[i]
<1> SUFFICES ASSUME Len(s) <= Len(t)
             PROVE  SubSeq(s, 1, Len(s)) = SubSeq(t, 1, Len(s)) <=> \A i \in 1..Len(s) : s[i] = t[i]
  BY DEF IsPrefix
<1> DEFINE n == Len(s)
<1>1. n \in Nat /\ 0 + n <= Len(s) /\ 0 + n <= Len(t) /\ 0 \in Nat /\ 0 + 1 = 1 /\ 0 + n = n
      /\ \A i \in 1..n : 0 + i = i
  OBVIOUS
<1> HIDE DEF n
<1>2. /\ SubSeq(s, 1, n) \in Seq(S) /\ Len(SubSeq(s, 1, n)) = n
      /\ \A i \in 1..n : SubSeq(s, 1, n)[i] = s[i]
  <2>1. /\ SubSeq(s, 0 + 1, 0 + n) \in Seq(S) /\ Len(SubSeq(s, 0 + 1, 0 + n)) = n
        /\ \A i \in 1..n : SubSeq(s, 0 + 1, 0 + n)[i] = s[0 + i]
    BY <1>1, PartOf
  <2> QED
    BY <1>1, <2>1
<1>3. /\ SubSeq(t, 1, n) \in Seq(S) /\ Len(SubSeq(t, 1, n)) = n
      /\ \A i \in 1..n : SubSeq(t, 1, n)[i] = t[i]
  <2>1. /\ SubSeq(t, 0 + 1, 0 + n) \in Seq(S) /\ Len(SubSeq(t, 0 + 1, 0 + n)) = n
        /\ \A i \in 1..n : SubSeq(t, 0 + 1, 0 + n)[i] = t[0 + i]
    BY <1>1, PartOf
  <2> QED
    BY <1>1, <2>1
<1> DEFINE a == SubSeq(s, 1, n)
           b == SubSeq(t, 1, n)
<1> HIDE DEF a, b
<1>4. /\ a \in Seq(S) /\ Len(a) = n /\ \A i \in 1..n : a[i] = s[i]
      /\ b \in Seq(S) /\ Len(b) = n /\ \A i \in 1..n : b[i] = t[i]
  BY <1>2, <1>3 DEF a, b
<1>5. a = b <=> \A i \in 1..n : s[i] = t[i]
  <2>1. ASSUME \A i \in 1..n : s[i] = t[i] PROVE a = b
    <3>1. \A i \in 1..Len(a) : a[i] = b[i]
      BY <1>4, <2>1
    <3> QED
      BY <1>4, <3>1, SeqEqual
  <2> QED
    BY <1>4, <2>1
<1> QED
  BY <1>5 DEF a, b, n

\* Whether a path leaves its tree is decided where a walk along it ends.
LEMMA InsideIsNormal ==
  ASSUME NEW S, NEW path \in Seq(S), Nul \notin ToSet(path)
  PROVE  /\ IsStrictPrefix(Above(path), Reached(path)) <=> NormalizePath(path) # NoResource
         /\ NormalizePath(path) # NoResource =>
              SubSeq(Reached(path), Len(path) + 1, Len(Reached(path))) = NormalizePath(path)
<1> DEFINE R == ToSet(path)
           d == Folded(path)
           at == Reached(path)
           above == Above(path)
           N == Len(path)
           L == Len(d)
<1>1. path \in Seq(R)
  BY DEF ToSet
<1>2. above \in Seq(R \cup {Nul}) /\ Len(above) = N /\ \A i \in 1..N : above[i] = Nul
  BY DEF Above
<1> HIDE DEF R
<1>3. d \in Seq(R) /\ at \in Seq(R \cup {Nul}) /\ \E m \in Nat : Alike(d, at, m, N, N)
  BY <1>1, FoldedAndReached
<1>4. NormalizePath(path) = IF d = <<>> \/ d[1] = ".." THEN NoResource ELSE d
  BY DEF NormalizePath
<1>5. N \in Nat
  OBVIOUS
<1> HIDE DEF d, at, above, N
<1>6. L \in Nat /\ (\A i \in 1..L : d[i] \in R /\ d[i] # Nul) /\ (d = <<>> <=> L = 0)
  BY <1>3 DEF R
<1>7. PICK m \in Nat : Alike(d, at, m, N, N)
  BY <1>3
<1>8. /\ m <= N /\ m <= L
      /\ Len(at) = N - m + (L - m)
      /\ \A i \in 1..N - m : at[i] = Nul
      /\ \A i \in 1..L - m : at[N - m + i] = d[m + i]
  <2>1. m \in 0..N /\ m <= L /\ Len(at) = N - m + (L - m)
    BY Zenon, <1>7 DEF Alike
  <2>2. /\ \A i \in 1..N - m : at[i] = Nul
        /\ \A i \in 1..L - m : at[N - m + i] = d[m + i]
    BY Zenon, <1>7 DEF Alike
  <2>3. m <= N
    BY <1>5, <2>1
  <2> QED
    BY <2>1, <2>2, <2>3
<1>9. (\A i \in 1..m : d[i] = "..") /\ \A i \in m + 1..L : d[i] \notin {"", ".", ".."}
  BY Zenon, <1>7 DEF Alike
<1> HIDE DEF L
<1>10. CASE m = 0
  <2>1. L # 0 => d[1] # ".."
    <3>1. L # 0 => 1 \in m + 1..L
      BY <1>6, <1>10
    <3> QED
      BY Zenon, <1>9, <3>1
  <2>2. NormalizePath(path) = d
    BY <1>4, <1>6, <2>1 DEF NoResource
  <2>3. Len(at) = N + L /\ \A i \in 1..N : at[i] = Nul
    BY <1>5, <1>6, <1>8, <1>10
  <2>4. IsPrefix(above, at)
    <3> DEFINE T == R \cup {Nul}
    <3> HIDE DEF T
    <3>1. above \in Seq(T) /\ at \in Seq(T)
      BY <1>2, <1>3 DEF T
    <3>2. Len(above) <= Len(at) /\ \A i \in 1..Len(above) : above[i] = at[i]
      BY <1>2, <1>5, <1>6, <2>3
    <3> QED
      BY <3>1, <3>2, PrefixOf
  <2>5. above # at <=> L # 0
    <3>1. CASE L = 0
      <4>1. Len(above) = Len(at) /\ \A i \in 1..Len(above) : above[i] = at[i]
        BY <1>2, <1>5, <2>3, <3>1
      <4>2. above = at
        BY <1>2, <1>3, <4>1, SeqEqual
      <4> QED
        BY <3>1, <4>2
    <3>2. CASE L # 0
      BY <1>2, <1>5, <1>6, <2>3, <3>2
    <3> QED
      BY <3>1, <3>2
  <2>6. SubSeq(at, N + 1, N + L) = d
    <3> DEFINE T == R \cup {Nul}
    <3>1. d \in Seq(T)
      BY <1>3
    <3> HIDE DEF T
    <3>2. at \in Seq(T) /\ N + L <= Len(at)
      BY <1>3, <1>5, <1>6, <2>3 DEF T
    <3>3. /\ SubSeq(at, N + 1, N + L) \in Seq(T)
          /\ Len(SubSeq(at, N + 1, N + L)) = L
          /\ \A i \in 1..L : SubSeq(at, N + 1, N + L)[i] = at[N + i]
      BY <1>5, <1>6, <3>2, PartOf
    <3>4. \A i \in 1..L : at[N + i] = d[i]
      <4>1. N - m = N /\ L - m = L /\ \A i \in 1..L : m + i = i
        BY <1>5, <1>6, <1>10
      <4> QED
        BY <1>8, <4>1
    <3> DEFINE rest == SubSeq(at, N + 1, N + L)
    <3> HIDE DEF rest
    <3>5. rest \in Seq(T) /\ Len(rest) = Len(d) /\ \A i \in 1..Len(rest) : rest[i] = d[i]
      BY <3>3, <3>4 DEF rest, L
    <3>6. rest = d
      BY <3>1, <3>5, SeqEqual
    <3> QED
      BY <3>6 DEF rest
  <2> QED
    BY <1>6, <2>2, <2>3, <2>4, <2>5, <2>6 DEF IsStrictPrefix, NoResource, at, above, N
<1>11. CASE m # 0
  <2>1. d[1] = ".." /\ d # <<>>
    <3>1. 1 \in 1..m /\ L # 0
      BY <1>6, <1>8, <1>11
    <3> QED
      BY <1>6, <1>9, <3>1
  <2>2. NormalizePath(path) = NoResource
    BY <1>4, <2>1
  <2>3. ~IsPrefix(above, at)
    <3> SUFFICES ASSUME IsPrefix(above, at) PROVE FALSE
      OBVIOUS
    <3> DEFINE T == R \cup {Nul}
    <3> HIDE DEF T
    <3>1. above \in Seq(T) /\ at \in Seq(T)
      BY <1>2, <1>3 DEF T
    <3>2. Len(above) <= Len(at) /\ \A i \in 1..Len(above) : above[i] = at[i]
      BY <3>1, PrefixOf
    <3>3. N - m + 1 \in 1..N /\ 1 \in 1..L - m /\ m + 1 \in 1..L
      BY <1>2, <1>5, <1>6, <1>8, <1>11, <3>2
    <3>4. above[N - m + 1] = at[N - m + 1] /\ above[N - m + 1] = Nul
      BY <1>2, <3>2, <3>3
    <3>5. at[N - m + 1] = d[m + 1] /\ d[m + 1] # Nul
      BY <1>6, <1>8, <3>3
    <3> QED
      BY <3>4, <3>5
  <2> QED
    BY <2>2, <2>3 DEF IsStrictPrefix, at, above
<1> QED
  BY <1>10, <1>11

LEMMA KindedResource ==
  ASSUME NEW path, NEW names, NormalizePath(path) = names, names # NoResource
  PROVE  RepoOrSecretResource(path) =
           IF SecretKind(names) # NoName THEN <<"secret", SecretKind(names)>>
           ELSE <<IF IsAbsolute(path) THEN "fs" ELSE "repo">> \o names
BY DEF RepoOrSecretResource

\* What is left of a path that stays in its tree is such a path itself, and
\* the same file.
LEMMA NormalAgain ==
  ASSUME NEW S, NEW path \in Seq(S), NormalizePath(path) # NoResource
  PROVE  LET rest == NormalizePath(path)
         IN /\ NormalizePath(rest) = rest
            /\ ~IsAbsolute(rest)
            /\ rest \in Seq(S \ {"", ".", "..", Nul}) /\ rest # <<>>
<1> DEFINE rest == NormalizePath(path)
           T == S \ {"", ".", "..", Nul}
<1>1. rest \in Seq(T) /\ rest # <<>> /\ Descends(rest)
  BY NormalPath
<1>2. Nul \notin T
  OBVIOUS
<1> HIDE DEF rest, T
<1>3. Folded(rest) = rest
  BY <1>1, FoldedAgain
<1>4. 1 \in 1..Len(rest) /\ Nul \notin ToSet(rest)
  BY <1>1, <1>2 DEF ToSet
<1>5. rest[1] \notin {"", ".", ".."}
  BY Zenon, <1>1, <1>4 DEF Descends
<1>6. NormalizePath(rest) = rest /\ ~IsAbsolute(rest)
  BY <1>1, <1>3, <1>4, <1>5 DEF NormalizePath, IsAbsolute
<1> QED
  BY <1>1, <1>6 DEF rest, T

LEMMA ResourceType ==
  ASSUME NEW path \in Paths
  PROVE  ResourceOf[path] \in Seq(Segments)
<1> DEFINE S == Segments \cup {"", ".", "..", Nul}
           names == NormalizePath(path)
<1>0. ResourceOf[path] = RepoOrSecretResource(path)
  BY DEF ResourceOf
<1>1. path \in Seq(S)
  BY MultiEffectAssumption DEF MultiEffectAssumption
<1>2. CASE names = NoResource
  <2>1. ResourceOf[path] = <<>>
    BY <1>0, <1>2 DEF RepoOrSecretResource, NoResource
  <2> QED
    BY <2>1
<1>3. CASE names # NoResource
  <2> HIDE DEF S
  <2>1. names \in Seq(S \ {"", ".", "..", Nul}) /\ S \ {"", ".", "..", Nul} \subseteq Segments
    BY <1>1, <1>3, NormalAgain DEF S
  <2> DEFINE T == S \ {"", ".", "..", Nul}
  <2> HIDE DEF names, T
  <2>2. names \in Seq(Segments)
    <3>1. names \in Seq(T) /\ T \subseteq Segments
      BY <2>1 DEF T
    <3> QED
      BY <3>1
  <2>3. "fs" \in Segments /\ "repo" \in Segments /\ "secret" \in Segments /\ SecretKinds \subseteq Segments
    BY SingleEffectAssumption DEF SingleEffectAssumption
  <2>4. SecretKind(names) \in SecretKinds \cup {NoName}
    BY SecretKindType
  <2> DEFINE root == IF IsAbsolute(path) THEN "fs" ELSE "repo"
             kind == SecretKind(names)
  <2>5. ResourceOf[path] = IF kind # NoName THEN <<"secret", kind>> ELSE <<root>> \o names
    BY <1>0, <1>3, KindedResource DEF names
  <2>6. root \in Segments
    BY <2>3
  <2> HIDE DEF root, kind
  <2>7. kind # NoName => kind \in Segments
    BY <2>3, <2>4 DEF kind
  <2> QED
    BY <2>2, <2>3, <2>5, <2>6, <2>7
<1> QED
  BY <1>2, <1>3

\* A path that can be expressed is charged as what is left of it.
LEMMA FileResource ==
  ASSUME NEW S, NEW path \in Seq(S), Nul \notin ToSet(path)
  PROVE  LET inside == IsStrictPrefix(Above(path), Reached(path))
             rest == SubSeq(Reached(path), Len(path) + 1, Len(Reached(path)))
             resource == RepoOrSecretResource(path)
         IN /\ resource # NoResource <=> inside
            /\ inside /\ IsSecret(resource) => RepoOrSecretResource(rest) = resource
            /\ inside /\ ~IsSecret(resource) =>
                 /\ resource = <<IF IsAbsolute(path) THEN "fs" ELSE "repo">> \o rest
                 /\ ~IsSecret(RepoOrSecretResource(rest))
<1> DEFINE inside == IsStrictPrefix(Above(path), Reached(path))
           rest == SubSeq(Reached(path), Len(path) + 1, Len(Reached(path)))
           resource == RepoOrSecretResource(path)
           root == IF IsAbsolute(path) THEN "fs" ELSE "repo"
           T == S \ {"", ".", "..", Nul}
<1>1. /\ inside <=> NormalizePath(path) # NoResource
      /\ inside => rest = NormalizePath(path)
  BY InsideIsNormal
<1> HIDE DEF inside, rest, resource
<1>2. CASE ~inside
  BY <1>1, <1>2 DEF inside, rest, resource, RepoOrSecretResource, NoResource
<1>3. CASE inside
  <2> DEFINE kind == SecretKind(rest)
             below == RepoOrSecretResource(rest)
  <2>1. /\ NormalizePath(rest) = rest /\ ~IsAbsolute(rest)
        /\ rest \in Seq(T) /\ rest # NoResource
    BY <1>1, <1>3, NormalAgain DEF NoResource
  <2>2. resource = IF kind # NoName THEN <<"secret", kind>> ELSE <<root>> \o rest
    BY <1>1, <1>3, KindedResource DEF resource
  <2>3. below = IF kind # NoName THEN <<"secret", kind>> ELSE <<"repo">> \o rest
    BY <2>1, KindedResource
  <2> HIDE DEF kind, below, T, root
  <2>4. /\ (<<root>> \o rest)[1] = root /\ <<root>> \o rest # <<>>
        /\ (<<"repo">> \o rest)[1] = "repo"
    BY <2>1
  <2>5. root # "secret"
    BY DEF root
  <2>6. CASE kind # NoName
    <3>1. resource = <<"secret", kind>> /\ below = resource
      BY <2>2, <2>3, <2>6
    <3>2. resource # <<>> /\ resource[1] = "secret"
      BY <3>1
    <3> QED
      BY <1>3, <3>1, <3>2 DEF inside, rest, resource, below, IsSecret, NoResource
  <2>7. CASE kind = NoName
    <3>1. resource = <<root>> \o rest /\ below = <<"repo">> \o rest
      BY <2>2, <2>3, <2>7
    <3>2. resource # <<>> /\ ~IsSecret(resource) /\ ~IsSecret(below)
      BY <2>4, <2>5, <3>1 DEF IsSecret
    <3> QED
      BY <1>3, <3>1, <3>2 DEF inside, rest, resource, below, root, NoResource
  <2> QED
    BY <2>6, <2>7
<1> QED
  BY <1>2, <1>3

-----------------------------------------------------------------------------
(* What is right of the classifiers' result. *)

Right(result, c) ==
  /\ result \in MappingResults(Pairs)
  /\ Stopped(result) <=> MustRefuse(c)
  /\ result.kind = "raise" => c.tool = "single" /\ Fetched(c.request) \cap InvalidUrls # {}
  /\ result.kind = "mapped" => Effects(result) = Demands(c) /\ IsInjective(Requirements(result))
  /\ result.kind = "unmapped" => Demands(c) = {}

\* The effects of a mapped result, and when none is listed twice.
LEMMA MappedProperties ==
  ASSUME NEW p \in Pairs, NEW also \in Seq(Pairs)
  PROVE  /\ Mapped(p, also) \in MappingResults(Pairs)
         /\ Requirements(Mapped(p, also)) \in Seq(Pairs)
         /\ Effects(Mapped(p, also)) = {p} \cup ToSet(also)
         /\ IsInjective(also) /\ p \notin ToSet(also) => IsInjective(Requirements(Mapped(p, also)))
<1> DEFINE all == <<p>> \o also
<1>1. Mapped(p, also) \in MappingResults(Pairs)
    BY DEF Mapped, MappingResults, Reasons
<1>2. Requirements(Mapped(p, also)) = all
    BY DEF Mapped, Requirements
<1>3. /\ all \in Seq(Pairs) /\ Len(all) = Len(also) + 1 /\ Len(also) \in Nat
      /\ DOMAIN all = 1..Len(also) + 1 /\ DOMAIN also = 1..Len(also)
      /\ \A i \in 1..Len(also) + 1 : all[i] = IF i = 1 THEN p ELSE also[i - 1]
    OBVIOUS
<1> HIDE DEF all
<1>4. {all[i] : i \in 1..Len(all)} \subseteq {p} \cup ToSet(also)
    BY <1>3 DEF ToSet
<1>5. ASSUME NEW i \in 1..Len(also) PROVE also[i] \in {all[j] : j \in 1..Len(all)}
  <2>1. i + 1 \in 1..Len(all) /\ all[i + 1] = also[i]
      BY <1>3
  <2>2. QED
      BY <2>1
<1>6. p \in {all[i] : i \in 1..Len(all)}
  <2>1. 1 \in 1..Len(all) /\ all[1] = p
      BY <1>3
  <2>2. QED
      BY <2>1
<1>7. Effects(Mapped(p, also)) = {p} \cup ToSet(also)
  <2>1. Effects(Mapped(p, also)) = {all[i] : i \in 1..Len(all)}
      BY <1>2 DEF Effects
  <2>2. ToSet(also) = {also[i] : i \in 1..Len(also)}
      BY <1>3 DEF ToSet
  <2>3. QED
      BY <2>1, <2>2, <1>4, <1>5, <1>6
<1>8. ASSUME IsInjective(also), p \notin ToSet(also) PROVE IsInjective(all)
  <2> SUFFICES ASSUME NEW a \in 1..Len(also) + 1, NEW b \in 1..Len(also) + 1, all[a] = all[b]
               PROVE  a = b
      BY <1>3 DEF IsInjective
  <2>1. \A i \in 1..Len(also) : also[i] # p
      BY <1>3, <1>8 DEF ToSet
  <2>2. \A i, j \in 1..Len(also) : also[i] = also[j] => i = j
      BY <1>3, <1>8 DEF IsInjective
  <2>3. CASE a = 1 \/ b = 1
      BY <2>1, <2>3, <1>3
  <2>4. CASE a # 1 /\ b # 1
      BY <2>2, <2>4, <1>3
  <2>5. QED
      BY <2>3, <2>4
<1>9. QED
    BY <1>1, <1>2, <1>3, <1>7, <1>8

LEMMA UnmappedProperties ==
  Unmapped(NoReason) \in MappingResults(Pairs) /\ Unmapped(NoReason).kind = "unmapped"
<1>1. NoPair \in Pairs \cup {NoPair} /\ <<>> \in Seq(Pairs)
    OBVIOUS
<1>2. Unmapped(NoReason) \in MappingResults(Pairs)
    BY <1>1 DEF Unmapped, MappingResults, Reasons
<1>3. QED
    BY <1>2 DEF Unmapped

LEMMA RefusedProperties ==
  ASSUME NEW why \in Reasons
  PROVE  Refused(why) \in MappingResults(Pairs) /\ Refused(why).kind = "error"
BY DEF Refused, MappingResults

\* One path: mapped if it can be expressed and refused otherwise.
LEMMA PathResult ==
  ASSUME NEW action \in Actions, NEW path \in PathArgs
  PROVE  /\ ResolvePath(action, path) \in MappingResults(Pairs)
         /\ ResolvePath(action, path).kind \in {"error", "mapped"}
         /\ ResolvePath(action, path).kind = "error" <=> Inexpressible(path)
         /\ ~Inexpressible(path) =>
              /\ <<action, ResourceOf[path]>> \in Pairs
              /\ ResolvePath(action, path) = Mapped(<<action, ResourceOf[path]>>, <<>>)
              /\ ResolvePath(action, path).primary = <<action, ResourceOf[path]>>
<1>1. CASE Inexpressible(path)
  <2>1. ResolvePath(action, path) = Refused("malformed_payload")
        \/ ResolvePath(action, path) = Refused("parse_unsafe")
      BY <1>1 DEF ResolvePath, Inexpressible
  <2>2. QED
      BY <1>1, <2>1, RefusedProperties DEF Reasons
<1>2. CASE ~Inexpressible(path)
  <2>1. <<action, ResourceOf[path]>> \in Pairs
      BY <1>2, ResourceType DEF Inexpressible, PathArgs, Pairs
  <2>2. ResolvePath(action, path) = Mapped(<<action, ResourceOf[path]>>, <<>>)
      BY <1>2 DEF ResolvePath, Inexpressible, Charged
  <2>3. <<>> \in Seq(Pairs)
      OBVIOUS
  <2>4. ResolvePath(action, path) \in MappingResults(Pairs)
      BY <2>1, <2>2, <2>3, MappedProperties
  <2>5. /\ ResolvePath(action, path).kind = "mapped"
        /\ ResolvePath(action, path).primary = <<action, ResourceOf[path]>>
      BY <2>2 DEF Mapped
  <2>6. QED
      BY <1>2, <2>1, <2>2, <2>4, <2>5
<1>3. QED
    BY <1>1, <1>2

\* The same, as the whole result of a call with this one path.
LEMMA PathRight ==
  ASSUME NEW action \in Actions, NEW path \in PathArgs, NEW c,
         Touches(c) = {<<action, path>>}, c.tool \in {"file", "patch"}
  PROVE  Right(ResolvePath(action, path), c)
<1> DEFINE result == ResolvePath(action, path)
<1>1. MustRefuse(c) <=> Inexpressible(path)
    BY DEF MustRefuse
<1>2. Demands(c) = {<<action, ResourceOf[path]>>}
  <2>1. {<<touch[1], ResourceOf[touch[2]]>> : touch \in Touches(c)} = {<<action, ResourceOf[path]>>}
      OBVIOUS
  <2>2. QED
      BY <2>1 DEF Demands
<1>3. CASE ~Inexpressible(path)
  <2>1. <<>> \in Seq(Pairs) /\ ToSet(<<>>) = {} /\ IsInjective(<<>>)
      BY DEF ToSet, IsInjective
  <2>2. Effects(result) = Demands(c) /\ IsInjective(Requirements(result))
    <3>1. <<action, ResourceOf[path]>> \in Pairs /\ result = Mapped(<<action, ResourceOf[path]>>, <<>>)
        BY <1>3, PathResult
    <3> HIDE DEF result
    <3>2. QED
        BY <1>2, <2>1, <3>1, MappedProperties
  <2>3. QED
      BY <1>1, <1>3, <2>2, PathResult DEF Right, Stopped
<1>4. CASE Inexpressible(path)
    BY <1>1, <1>4, PathResult DEF Right, Stopped
<1>5. QED
    BY <1>3, <1>4

\* A move is refused or charged three effects, or four.
LEMMA MoveRight ==
  ASSUME NEW c \in Calls, c.tool = "move_file"
  PROVE  Right(ResolveMove(c), c)
<1> DEFINE source == ResourceOf[c.source]
           destination == ResourceOf[c.destination]
           primary == IF c.surface = "mcp" /\ IsSecret(source) THEN source ELSE destination
           taken == <<<<"read", source>>, <<"delete", source>>>>
           also == IF destination = primary THEN taken ELSE Append(taken, <<"write", destination>>)
           bad == Absent \in {c.source, c.destination} \/ NoResource \in {source, destination}
<1>1. c.source \in PathArgs /\ c.destination \in PathArgs
    BY MultiEffectAssumption DEF MultiEffectAssumption, CallType
<1>2. Touches(c) = {<<"read", c.source>>, <<"delete", c.source>>, <<"write", c.destination>>}
    BY DEF Touches
<1>3. MustRefuse(c) <=> Inexpressible(c.source) \/ Inexpressible(c.destination)
    BY <1>2 DEF MustRefuse
<1>4. CASE bad
  <2>1. MustRefuse(c)
      BY <1>3, <1>4 DEF Inexpressible
  <2>2. ResolveMove(c) = Refused("malformed_payload") \/ ResolveMove(c) = Refused("parse_unsafe")
      BY <1>4 DEF ResolveMove
  <2>3. QED
      BY <2>1, <2>2, RefusedProperties DEF Right, Stopped, Reasons
<1>5. CASE ~bad
  <2>1. ~MustRefuse(c)
      BY <1>3, <1>5 DEF Inexpressible
  <2>2. ResolveMove(c) = Mapped(<<"write", primary>>, also)
      BY <1>5 DEF ResolveMove
  <2>3. {source, destination, primary} \subseteq Seq(Segments) \ {NoResource}
      BY <1>1, <1>5, ResourceType DEF PathArgs
  <2> HIDE DEF source, destination, primary
  <2>4. /\ <<"write", primary>> \in Pairs /\ <<"write", destination>> \in Pairs
        /\ <<"read", source>> \in Pairs /\ <<"delete", source>> \in Pairs
      BY <2>3 DEF Pairs, Actions
  <2>5. /\ also \in Seq(Pairs) /\ IsInjective(also) /\ <<"write", primary>> \notin ToSet(also)
        /\ {<<"write", primary>>} \cup ToSet(also) =
              {<<"read", source>>, <<"delete", source>>, <<"write", destination>>, <<"write", primary>>}
    <3>1. CASE destination = primary
      <4>1. also = taken
          BY <3>1
      <4>2. ToSet(taken) = {<<"read", source>>, <<"delete", source>>} /\ IsInjective(taken)
          BY DEF ToSet, IsInjective
      <4>3. QED
          BY <2>4, <3>1, <4>1, <4>2
    <3>2. CASE destination # primary
      <4>1. also = Append(taken, <<"write", destination>>)
          BY <3>2
      <4>2. ToSet(taken) = {<<"read", source>>, <<"delete", source>>} /\ IsInjective(taken)
          BY DEF ToSet, IsInjective
      <4>3. taken \in Seq(Pairs) /\ <<"write", destination>> \notin ToSet(taken)
          BY <2>4, <4>2
      <4> HIDE DEF taken, also
      <4>4. /\ also \in Seq(Pairs) /\ IsInjective(also)
            /\ ToSet(also) = {<<"read", source>>, <<"delete", source>>, <<"write", destination>>}
        <5> DEFINE w == <<"write", destination>>
        <5>1. w \in Pairs /\ w \notin ToSet(taken)
            BY <2>4, <4>3
        <5> HIDE DEF w
        <5>2. /\ Append(taken, w) \in Seq(Pairs) /\ IsInjective(Append(taken, w))
              /\ ToSet(Append(taken, w)) = ToSet(taken) \cup {w}
            BY <4>2, <4>3, <5>1, AppendFresh
        <5>3. QED
            BY <4>1, <4>2, <5>2 DEF w
      <4>5. QED
          BY <3>2, <4>4
    <3>3. QED
        BY <3>1, <3>2
  <2>6. Demands(c) = {<<"read", source>>, <<"delete", source>>, <<"write", destination>>,
                      <<"write", primary>>}
    <3>1. {<<touch[1], ResourceOf[touch[2]]>> : touch \in Touches(c)} =
            {<<"read", source>>, <<"delete", source>>, <<"write", destination>>}
        BY <1>2 DEF source, destination
    <3>2. QED
        BY <3>1 DEF Demands, source, destination, primary
  <2>7. QED
    <3> HIDE DEF also
    <3>1. /\ Mapped(<<"write", primary>>, also) \in MappingResults(Pairs)
          /\ Effects(Mapped(<<"write", primary>>, also)) = Demands(c)
          /\ IsInjective(Requirements(Mapped(<<"write", primary>>, also)))
        BY <2>4, <2>5, <2>6, MappedProperties
    <3>2. Mapped(<<"write", primary>>, also).kind = "mapped"
        BY DEF Mapped
    <3>3. QED
        BY <2>1, <2>2, <3>1, <3>2 DEF Right, Stopped
<1>6. QED
    BY <1>4, <1>5

\* Short resources.
LEMMA ShortResources ==
  /\ \A x, y \in Segments : <<x, y>> \in Seq(Segments) \ {NoResource}
  /\ \A x, y, z \in Segments : <<x, y, z>> \in Seq(Segments) \ {NoResource}
  /\ \A x, y, z, u \in Segments : <<x, y, z, u>> \in Seq(Segments) \ {NoResource}
<1>1. ASSUME NEW x \in Segments, NEW y \in Segments
      PROVE  <<x, y>> \in Seq(Segments) \ {NoResource}
  <2>1. <<x, y>> \in Seq(Segments) /\ Len(<<x, y>>) = 2 /\ Len(<<>>) = 0
      OBVIOUS
  <2>2. QED
      BY <2>1 DEF NoResource
<1>2. ASSUME NEW x \in Segments, NEW y \in Segments, NEW z \in Segments
      PROVE  <<x, y, z>> \in Seq(Segments) \ {NoResource}
  <2>1. <<x, y, z>> \in Seq(Segments) /\ Len(<<x, y, z>>) = 3 /\ Len(<<>>) = 0
      OBVIOUS
  <2>2. QED
      BY <2>1 DEF NoResource
<1>3. ASSUME NEW x \in Segments, NEW y \in Segments, NEW z \in Segments, NEW u \in Segments
      PROVE  <<x, y, z, u>> \in Seq(Segments) \ {NoResource}
  <2>1. <<x, y, z, u>> \in Seq(Segments) /\ Len(<<x, y, z, u>>) = 4 /\ Len(<<>>) = 0
      OBVIOUS
  <2>2. QED
      BY <2>1 DEF NoResource
<1>4. QED
    BY <1>1, <1>2, <1>3

\* The segments the classifiers add.
LEMMA OwnSegments ==
  {"_", "github", "fork", "contents", "repo", "chat", "slack", "process", "list", "memory", "cron",
   "jobs", "job", "message", "unknown", "new", "net", "internal", "external", "mixed", "multiple"}
    \subseteq Segments
BY SingleEffectAssumption DEF SingleEffectAssumption, Coarse

\* Names and namespaces are segments where they are used.
LEMMA NamesAreSegments ==
  ASSUME NEW argument \in Argument
  PROVE  /\ Safe(argument) \in Segments \cup {Absent}
         /\ Written(argument) \in Segments \cup {Absent}
         /\ Namespace(argument) \in Segments
<1>1. /\ Texts \subseteq Segments \cup {Nul} /\ Absent \notin Segments
      /\ Identifier \in [DOMAIN Identifier -> Segments]
    BY SingleEffectAssumption DEF SingleEffectAssumption
<1>2. SafeIdentifier(argument, NoName) \in Segments \cup {NoName}
    BY <1>1 DEF SafeIdentifier
<1>3. Safe(argument) \in Segments \cup {Absent}
    BY <1>2 DEF Safe
<1>4. Written(argument) \in Segments \cup {Absent}
    BY <1>1 DEF Written, Argument
<1>5. Namespace(argument) \in Segments
    BY <1>4, OwnSegments DEF Namespace, Coarse
<1>6. QED
    BY <1>3, <1>4, <1>5

\* A fork has three effects; without a source it is not known what it is.
LEMMA ForkRight ==
  ASSUME NEW c \in Calls, c.tool = "fork_repository"
  PROVE  Right(ResolveFork(c), c)
<1> DEFINE owner == Safe(c.owner)
           repo == Safe(c.repo)
           namespace == Namespace(c.organization)
           fork == <<"write", <<"github", owner, repo, "fork">>>>
           contents == <<"read", <<"github", owner, repo, "contents">>>>
           into == <<"write", <<"github", namespace, Coarse, "repo">>>>
           also == <<contents, into>>
<1>1. c.owner \in Argument /\ c.repo \in Argument /\ c.organization \in Argument
    BY MultiEffectAssumption DEF MultiEffectAssumption, CallType
<1>2. Touches(c) = {} /\ ~MustRefuse(c)
    BY DEF Touches, MustRefuse
<1>3. CASE Absent \in {owner, repo}
  <2>1. ResolveFork(c) = Unmapped(NoReason)
      BY <1>3 DEF ResolveFork
  <2>2. Demands(c) = {}
      BY <1>2, <1>3 DEF Demands
  <2>3. QED
      BY <1>2, <2>1, <2>2, UnmappedProperties DEF Right, Stopped
<1>4. CASE Absent \notin {owner, repo}
  <2>1. ResolveFork(c) = Mapped(fork, also)
    <3>1. /\ Head(ForkEffects(owner, repo, c.organization)) = fork
          /\ Tail(ForkEffects(owner, repo, c.organization)) = also
        BY DEF ForkEffects
    <3>2. QED
        BY <1>4, <3>1 DEF ResolveFork
  <2>2. Demands(c) = {fork, contents, into}
      BY <1>2, <1>4 DEF Demands
  <2>3. owner \in Segments /\ repo \in Segments /\ namespace \in Segments
      BY <1>1, <1>4, NamesAreSegments
  <2>4. fork \in Pairs /\ contents \in Pairs /\ into \in Pairs
    <3> HIDE DEF owner, repo, namespace
    <3>1. QED
        BY <2>3, ShortResources, OwnSegments DEF Pairs, Actions, Coarse
  <2>5. fork # contents /\ fork # into /\ contents # into
      OBVIOUS
  <2> HIDE DEF fork, contents, into
  <2>6. also \in Seq(Pairs) /\ ToSet(also) = {contents, into} /\ IsInjective(also)
      BY <2>4, <2>5 DEF ToSet, IsInjective
  <2> HIDE DEF also
  <2>7. /\ Mapped(fork, also) \in MappingResults(Pairs)
        /\ Effects(Mapped(fork, also)) = Demands(c)
        /\ IsInjective(Requirements(Mapped(fork, also)))
      BY <2>2, <2>4, <2>5, <2>6, MappedProperties
  <2>8. Mapped(fork, also).kind = "mapped"
      BY DEF Mapped
  <2>9. QED
      BY <1>2, <2>1, <2>7, <2>8 DEF Right, Stopped
<1>5. QED
    BY <1>3, <1>4

-----------------------------------------------------------------------------
(* The tools with one effect. *)

\* One pair, or none.
Simple(result) ==
  \/ \E pair \in Pairs : result = Mapped(pair, <<>>)
  \/ result = Unmapped(NoReason)
  \/ \E why \in Reasons : result = Refused(why)
  \/ result = Raised

LEMMA ChargedIsSimple ==
  ASSUME NEW action \in Actions, NEW resource \in Seq(Segments) \ {NoResource}
  PROVE  Simple(Charged(action, resource))
<1>1. <<action, resource>> \in Pairs
    BY DEF Pairs
<1>2. QED
    BY <1>1 DEF Simple, Charged

LEMMA RefusedIsSimple ==
  /\ Simple(Unmapped(NoReason))
  /\ Simple(Refused("malformed_payload"))
  /\ Simple(Refused("parse_unsafe"))
  /\ Simple(Raised)
BY DEF Simple, Reasons

LEMMA GithubIsSimple ==
  ASSUME NEW c \in RequestType, c.tool = "github"
  PROVE  Simple(ResolveGithub(c))
<1> DEFINE byMethod == c.row[2] = "method"
           action == IF byMethod THEN GithubMethods[c.method] ELSE c.row[2]
           owner == Safe(c.owner)
           repo == Safe(c.repo)
           resource == GithubResource(action, c.row[1], c.row[3], owner, repo, c.organization)
           open == (byMethod /\ c.method \notin DOMAIN GithubMethods)
                   \/ Unaddressed(action, c.row[1], owner, repo)
<1>1. /\ c.row \in GithubRows /\ c.owner \in Argument /\ c.repo \in Argument
      /\ c.organization \in Argument
    BY DEF RequestType
<1>2. c.row[2] \in Actions \cup {"method"} /\ c.row[3] \in Segments
  <2>1. c.row[2] \in Actions \cup {"method"}
      BY <1>1 DEF GithubRows, Actions
  <2>2. c.row[3] \in Segments
      BY <1>1, SingleEffectAssumption DEF SingleEffectAssumption
  <2>3. QED
      BY <2>1, <2>2
<1>3. CASE open
  <2>1. ResolveGithub(c) = Unmapped(NoReason)
      BY <1>3 DEF ResolveGithub
  <2>2. QED
      BY <2>1, RefusedIsSimple
<1>4. CASE ~open
  <2>1. action \in Actions
      BY <1>2, <1>4 DEF GithubMethods, Actions
  <2>2. /\ owner \in Segments \cup {Absent} /\ repo \in Segments \cup {Absent}
        /\ Namespace(c.organization) \in Segments
      BY <1>1, NamesAreSegments
  <2>3. resource \in Seq(Segments) \ {NoResource}
    <3> HIDE DEF action, owner, repo
    <3>1. QED
        BY <1>2, <2>2, ShortResources, OwnSegments DEF GithubResource, Coarse
  <2>4. ResolveGithub(c) = Charged(action, resource)
      BY <1>4 DEF ResolveGithub
  <2> HIDE DEF action, resource
  <2>5. QED
      BY <2>1, <2>3, <2>4, ChargedIsSimple
<1>5. QED
    BY <1>3, <1>4

LEMMA SlackIsSimple ==
  ASSUME NEW c \in RequestType, c.tool = "slack"
  PROVE  Simple(ResolveSlack(c))
<1> DEFINE channel == IF c.row[2] = "workspace" THEN Absent ELSE Written(c.channel)
<1>1. c.row[1] \in Actions /\ c.channel \in Argument
    BY DEF RequestType, SlackRows, Actions
<1>2. channel \in Segments \cup {Absent}
    BY <1>1, NamesAreSegments
<1>3. \/ ResolveSlack(c) = Unmapped(NoReason)
      \/ channel # Absent /\ ResolveSlack(c) = Charged(c.row[1], <<"chat", "slack", channel>>)
      \/ ResolveSlack(c) = Charged(c.row[1], <<"chat", "slack">>)
    BY DEF ResolveSlack
<1> HIDE DEF channel
<1>4. /\ <<"chat", "slack">> \in Seq(Segments) \ {NoResource}
      /\ channel # Absent => <<"chat", "slack", channel>> \in Seq(Segments) \ {NoResource}
    BY <1>2, ShortResources, OwnSegments
<1>5. QED
    BY <1>1, <1>3, <1>4, ChargedIsSimple, RefusedIsSimple

\* A short sequence continued.
LEMMA Continued ==
  ASSUME NEW S, NEW a \in S, NEW b \in S, NEW x \in S
  PROVE  <<a>> \o <<x>> = <<a, x>> /\ <<a, b>> \o <<x>> = <<a, b, x>>
<1> DEFINE one == <<a>> \o <<x>>
           two == <<a, b>> \o <<x>>
           ax == <<a, x>>
           abx == <<a, b, x>>
<1>1. one \in Seq(S) /\ ax \in Seq(S) /\ Len(one) = 2 /\ Len(ax) = 2
    OBVIOUS
<1>2. \A i \in 1..2 : one[i] = ax[i]
    OBVIOUS
<1>3. two \in Seq(S) /\ abx \in Seq(S) /\ Len(two) = 3 /\ Len(abx) = 3
    OBVIOUS
<1>4. \A i \in 1..3 : two[i] = abx[i]
    OBVIOUS
<1> HIDE DEF one, two, ax, abx
<1>5. one = ax /\ two = abx
    BY <1>1, <1>2, <1>3, <1>4
<1>6. QED
    BY <1>5 DEF one, two, ax, abx

LEMMA VerbIsSimple ==
  ASSUME NEW c \in RequestType, c.tool \in {"process", "memory", "cronjob"}
  PROVE  Simple(ResolveVerb(c))
<1> DEFINE id == SafeIdentifier(c.id, Unnamed[c.tool])
           action == Verbs[c.tool][c.verb]
           resource == Kept[c.tool] \o <<id>>
<1>1. id \in Segments \cup {NoName}
  <2>1. Identifier \in [DOMAIN Identifier -> Segments]
      BY SingleEffectAssumption DEF SingleEffectAssumption
  <2>2. Unnamed[c.tool] \in Segments
    <3>1. /\ Unnamed["process"] = "unknown" /\ Unnamed["memory"] = "memory"
          /\ Unnamed["cronjob"] = "new"
        BY DEF Unnamed
    <3>2. QED
        BY <3>1, OwnSegments
  <2>3. QED
      BY <2>1, <2>2 DEF SafeIdentifier
<1>2. \/ ResolveVerb(c) \in {Unmapped(NoReason), Refused("malformed_payload"), Refused("parse_unsafe")}
      \/ c.tool \in DOMAIN Listed /\ ResolveVerb(c) = Charged("read", Listed[c.tool])
      \/ id # NoName /\ c.verb \in DOMAIN Verbs[c.tool] /\ ResolveVerb(c) = Charged(action, resource)
    BY DEF ResolveVerb
<1>3. c.verb \in DOMAIN Verbs[c.tool] => action \in Actions
    BY DEF Verbs, Actions
<1>4. c.tool \in DOMAIN Listed => Listed[c.tool] \in Seq(Segments) \ {NoResource}
  <2>1. /\ "memory" \notin DOMAIN Listed
        /\ Listed["process"] = <<"process", "list">> /\ Listed["cronjob"] = <<"cron", "jobs">>
      BY DEF Listed
  <2>2. QED
      BY <2>1, ShortResources, OwnSegments
<1>5. id # NoName => resource \in Seq(Segments) \ {NoResource}
  <2> HIDE DEF id
  <2>1. resource = IF c.tool = "cronjob" THEN <<"cron", "job", id>> ELSE <<c.tool, id>>
    <3>1. /\ Kept["process"] = <<"process">> /\ Kept["memory"] = <<"memory">>
          /\ Kept["cronjob"] = <<"cron", "job">>
        BY DEF Kept
    <3>2. /\ <<"process">> \o <<id>> = <<"process", id>> /\ <<"memory">> \o <<id>> = <<"memory", id>>
          /\ <<"cron", "job">> \o <<id>> = <<"cron", "job", id>>
      <4>1. {"process", "memory", "cron", "job", id} \subseteq Segments \cup {NoName}
          BY <1>1, OwnSegments
      <4>2. QED
          BY <4>1, Continued
    <3>3. QED
        BY <3>1, <3>2
  <2>2. c.tool # "cronjob" => c.tool \in Segments
      BY OwnSegments
  <2>3. QED
      BY <1>1, <2>1, <2>2, ShortResources, OwnSegments
<1> HIDE DEF action, resource
<1>6. QED
    BY <1>2, <1>3, <1>4, <1>5, ChargedIsSimple, RefusedIsSimple DEF Actions

LEMMA MessageIsSimple ==
  ASSUME NEW c \in RequestType, c.tool = "send_message"
  PROVE  Simple(ResolveMessage(c))
<1>1. c.id \in Argument
    BY DEF RequestType
<1>2. Safe(c.id) \in Segments \cup {Absent}
    BY <1>1, NamesAreSegments
<1>3. \/ ResolveMessage(c) = Charged("read", <<"message", "list">>)
      \/ ResolveMessage(c) = Refused("malformed_payload")
      \/ Safe(c.id) # Absent /\ ResolveMessage(c) = Charged("send", <<"message", Safe(c.id)>>)
    BY DEF ResolveMessage, Listed
<1>4. /\ <<"message", "list">> \in Seq(Segments) \ {NoResource}
      /\ Safe(c.id) # Absent => <<"message", Safe(c.id)>> \in Seq(Segments) \ {NoResource}
    BY <1>2, ShortResources, OwnSegments
<1>5. QED
    BY <1>3, <1>4, ChargedIsSimple, RefusedIsSimple DEF Actions

LEMMA NetworkIsResource ==
  ASSUME NEW urls \in Seq(Argument), NetworkResource(urls) # NoResource
  PROVE  NetworkResource(urls) \in Seq(Segments) \ {NoResource}
<1> DEFINE hosts == {HostOf[url] : url \in ToSet(urls)}
           first == HostOf[urls[1]]
           host == IF hosts = {first} THEN first ELSE "multiple"
           resource == <<"net", CommonScope(hosts), host>>
<1>1. /\ urls # <<>> /\ ToSet(urls) \subseteq DOMAIN HostOf
      /\ NetworkResource(urls) = resource
    BY DEF NetworkResource
<1>2. first \in Segments
  <2>1. urls[1] \in ToSet(urls)
      BY <1>1 DEF ToSet
  <2>2. HostOf \in [DOMAIN HostOf -> Segments]
      BY SingleEffectAssumption DEF SingleEffectAssumption
  <2>3. QED
      BY <1>1, <2>1, <2>2
<1> HIDE DEF first
<1>3. host \in Segments
    BY <1>2, OwnSegments
<1> HIDE DEF hosts, host
<1>4. CommonScope(hosts) \in Segments
    BY OwnSegments DEF CommonScope
<1>5. "net" \in Segments
    BY OwnSegments
<1>6. resource \in Seq(Segments) \ {NoResource}
    BY <1>3, <1>4, <1>5, ShortResources
<1>7. QED
    BY <1>1, <1>6

LEMMA FetchIsSimple ==
  ASSUME NEW urls \in Seq(Argument)
  PROVE  Simple(ResolveFetch(urls))
<1> DEFINE resource == NetworkResource(urls)
           stops == Absent \in ToSet(urls) \/ UrlparseRaises(urls) \/ resource = NoResource
<1>1. CASE stops
    BY <1>1, RefusedIsSimple DEF ResolveFetch
<1>2. CASE ~stops
  <2>1. ResolveFetch(urls) = Charged("send", resource)
      BY <1>2 DEF ResolveFetch
  <2>2. resource \in Seq(Segments) \ {NoResource}
      BY <1>2, NetworkIsResource
  <2> HIDE DEF resource
  <2>3. QED
      BY <2>1, <2>2, ChargedIsSimple DEF Actions
<1>3. QED
    BY <1>1, <1>2

LEMMA SingleIsSimple ==
  ASSUME NEW c \in RequestType
  PROVE  Simple(ResolveSingle(c))
<1>1. CASE c.tool = "github"
    BY <1>1, GithubIsSimple DEF ResolveSingle
<1>2. CASE c.tool = "slack"
    BY <1>2, SlackIsSimple DEF ResolveSingle
<1>3. CASE c.tool \in {"process", "memory", "cronjob"}
  <2>1. ResolveSingle(c) = ResolveVerb(c)
      BY <1>3 DEF ResolveSingle
  <2>2. QED
      BY <1>3, <2>1, VerbIsSimple
<1>4. CASE c.tool = "send_message"
    BY <1>4, MessageIsSimple DEF ResolveSingle
<1>5. CASE c.tool = "web_extract"
  <2>1. c.urls \in Seq(Argument) /\ ResolveSingle(c) = ResolveFetch(c.urls)
      BY <1>5 DEF RequestType, ResolveSingle
  <2>2. QED
      BY <2>1, FetchIsSimple
<1>6. CASE c.tool = "browser_navigate"
  <2>1. c.url \in Argument /\ ResolveSingle(c) = ResolveFetch(<<c.url>>)
      BY <1>6 DEF RequestType, ResolveSingle
  <2>2. <<c.url>> \in Seq(Argument)
      BY <2>1
  <2>3. QED
      BY <2>1, <2>2, FetchIsSimple
<1>7. CASE c.tool = "fixed"
  <2>1. c.pair \in FixedPairs /\ ResolveSingle(c) = Mapped(c.pair, <<>>)
      BY <1>7 DEF RequestType, ResolveSingle
  <2>2. FixedPairs \subseteq Pairs
      BY SingleEffectAssumption DEF SingleEffectAssumption
  <2>3. QED
      BY <2>1, <2>2 DEF Simple
<1>8. CASE c.tool = "unknown"
    BY <1>8, RefusedIsSimple DEF ResolveSingle
<1>9. QED
    BY <1>1, <1>2, <1>3, <1>4, <1>5, <1>6, <1>7, <1>8 DEF RequestType

\* A request of one effect is stopped exactly when it does not say enough,
\* and by an exception only for an invalid URL.
Stops(result, r) ==
  /\ Stopped(result) <=> Unaskable(r)
  /\ result.kind = "raise" => Fetched(r) \cap InvalidUrls # {}

LEMMA FetchStops ==
  ASSUME NEW urls \in Seq(Argument)
  PROVE  /\ Stopped(ResolveFetch(urls)) <=> urls = <<>> \/ \E url \in ToSet(urls) : url \notin DOMAIN HostOf
         /\ ResolveFetch(urls).kind = "raise" => ToSet(urls) \cap InvalidUrls # {}
<1> DEFINE bad == urls = <<>> \/ \E url \in ToSet(urls) : url \notin DOMAIN HostOf
           resource == NetworkResource(urls)
<1>1. /\ Absent \notin DOMAIN HostOf
      /\ InvalidUrls \cap DOMAIN HostOf = {}
    BY SingleEffectAssumption DEF SingleEffectAssumption
<1>2. Absent \in ToSet(urls) => bad
    BY <1>1
<1>3. UrlparseRaises(urls) => ToSet(urls) \cap InvalidUrls # {} /\ bad
    BY <1>1 DEF UrlparseRaises, ToSet
<1>4. resource = NoResource <=> bad
  <2>1. bad => resource = NoResource
      BY DEF NetworkResource
  <2> DEFINE scope == CommonScope({HostOf[url] : url \in ToSet(urls)})
             host == IF {HostOf[url] : url \in ToSet(urls)} = {HostOf[urls[1]]}
                       THEN HostOf[urls[1]] ELSE "multiple"
  <2>2. ~bad => resource = <<"net", scope, host>>
      BY DEF NetworkResource
  <2>3. \A s, h : <<"net", s, h>> # <<>>
      OBVIOUS
  <2> HIDE DEF scope, host, bad, resource
  <2>4. QED
      BY <2>1, <2>2, <2>3 DEF NoResource
<1> HIDE DEF bad, resource
<1>5. \/ bad /\ ResolveFetch(urls) = Refused("malformed_payload")
      \/ UrlparseRaises(urls) /\ bad /\ ResolveFetch(urls) = Raised
      \/ ~bad /\ ResolveFetch(urls) = Charged("send", NetworkResource(urls))
    BY <1>2, <1>3, <1>4 DEF ResolveFetch, resource
<1>6. QED
    BY <1>3, <1>5 DEF Stopped, Refused, Raised, Charged, Mapped, bad

LEMMA VerbStops ==
  ASSUME NEW c \in RequestType, c.tool \in {"process", "memory", "cronjob"}
  PROVE  Stops(ResolveVerb(c), c)
<1> DEFINE id == SafeIdentifier(c.id, Unnamed[c.tool])
<1>1. id = NoName <=> c.id = Nul
  <2>1. Identifier \in [DOMAIN Identifier -> Segments \ {NoName}]
      BY SingleEffectAssumption DEF SingleEffectAssumption
  <2>2. Unnamed[c.tool] # NoName
    <3>1. /\ Unnamed["process"] = "unknown" /\ Unnamed["memory"] = "memory"
          /\ Unnamed["cronjob"] = "new"
        BY DEF Unnamed
    <3>2. QED
        BY <3>1 DEF NoName
  <2>3. QED
      BY <2>1, <2>2 DEF SafeIdentifier
<1>2. Fetched(c) = {} /\ (Stops(ResolveVerb(c), c) <=>
        ResolveVerb(c).kind # "raise" /\ (ResolveVerb(c).kind = "error" <=> Unaskable(c)))
    BY DEF Fetched, Stops, Stopped
<1>3. DOMAIN Listed = {"process", "cronjob", "send_message"} /\ "list" \notin DOMAIN Verbs.process
      /\ "list" \notin DOMAIN Verbs.cronjob
    BY DEF Listed, Verbs
<1> DEFINE known == c.verb \in DOMAIN Verbs[c.tool]
           listing == c.tool # "memory" /\ c.verb = "list"
           missing == c.tool # "memory" /\ c.verb = Absent
<1>4. ResolveVerb(c).kind =
        IF missing THEN "error"
        ELSE IF listing THEN "mapped"
        ELSE IF id = NoName THEN "error"
        ELSE IF known THEN "mapped"
        ELSE IF c.tool = "memory" THEN "error" ELSE "unmapped"
    BY <1>3 DEF ResolveVerb, Refused, Unmapped, Charged, Mapped
<1>5. Unaskable(c) <=>
        \/ missing
        \/ c.tool # "memory" /\ c.verb # "list" /\ c.id = Nul
        \/ c.tool = "memory" /\ (~known \/ c.id = Nul)
    BY DEF Unaskable
<1>6. Absent # "list"
    BY SingleEffectAssumption, OwnSegments DEF SingleEffectAssumption
<1> HIDE DEF id, known
<1>7. QED
    BY <1>1, <1>2, <1>4, <1>5, <1>6

LEMMA SingleStops ==
  ASSUME NEW c \in RequestType
  PROVE  Stops(ResolveSingle(c), c)
<1>1. CASE c.tool \in {"github", "slack", "fixed", "unknown"}
  <2>1. ~Unaskable(c)
      BY <1>1 DEF Unaskable
  <2>2. ResolveSingle(c).kind \in {"mapped", "unmapped"}
      BY <1>1 DEF ResolveSingle, ResolveGithub, ResolveSlack, Unmapped, Charged, Mapped
  <2>3. QED
      BY <2>1, <2>2 DEF Stops, Stopped
<1>2. CASE c.tool \in {"process", "memory", "cronjob"}
    BY <1>2, VerbStops DEF ResolveSingle
<1>3. CASE c.tool = "send_message"
  <2>1. Safe(c.id) = Absent <=> c.id \notin DOMAIN Identifier \/ c.id = Nul
    <3>1. /\ Identifier \in [DOMAIN Identifier -> Segments \ {NoName}]
          /\ Absent \notin Segments
        BY SingleEffectAssumption DEF SingleEffectAssumption
    <3>2. QED
        BY <3>1 DEF Safe, SafeIdentifier
  <2>2. Unaskable(c) <=> c.verb # "list" /\ Safe(c.id) = Absent
      BY <1>3, <2>1 DEF Unaskable
  <2>3. ResolveSingle(c).kind = IF c.verb # "list" /\ Safe(c.id) = Absent THEN "error" ELSE "mapped"
      BY <1>3 DEF ResolveSingle, ResolveMessage, Refused, Charged, Mapped
  <2>4. QED
      BY <2>2, <2>3 DEF Stops, Stopped
<1>4. CASE c.tool = "web_extract"
  <2>1. c.urls \in Seq(Argument) /\ ResolveSingle(c) = ResolveFetch(c.urls)
      BY <1>4 DEF RequestType, ResolveSingle
  <2>2. Fetched(c) = ToSet(c.urls)
        /\ (Unaskable(c) <=> c.urls = <<>> \/ \E url \in ToSet(c.urls) : url \notin DOMAIN HostOf)
      BY <1>4 DEF Fetched, Unaskable
  <2>3. QED
      BY <2>1, <2>2, FetchStops DEF Stops
<1>5. CASE c.tool = "browser_navigate"
  <2>1. c.url \in Argument /\ ResolveSingle(c) = ResolveFetch(<<c.url>>)
      BY <1>5 DEF RequestType, ResolveSingle
  <2>2. <<c.url>> \in Seq(Argument) /\ <<c.url>> # <<>> /\ ToSet(<<c.url>>) = {c.url}
      BY <2>1 DEF ToSet
  <2>3. Fetched(c) = {c.url} /\ (Unaskable(c) <=> c.url \notin DOMAIN HostOf)
      BY <1>5 DEF Fetched, Unaskable
  <2>4. QED
      BY <2>1, <2>2, <2>3, FetchStops DEF Stops
<1>6. QED
    BY <1>1, <1>2, <1>3, <1>4, <1>5 DEF RequestType

LEMMA SingleRight ==
  ASSUME NEW c \in Calls, c.tool = "single"
  PROVE  Right(ResolveSingle(c.request), c)
<1> DEFINE result == ResolveSingle(c.request)
<1>1. c.request \in RequestType
    BY MultiEffectAssumption DEF MultiEffectAssumption, CallType
<1>2. Simple(result)
    BY <1>1, SingleIsSimple
<1>3. /\ Touches(c) = {}
      /\ MustRefuse(c) <=> Stopped(result)
      /\ result.kind = "raise" => Fetched(c.request) \cap InvalidUrls # {}
    BY <1>1, SingleStops DEF Stops, Touches, MustRefuse
<1>4. Demands(c) = Effects(result)
    BY <1>3 DEF Demands
<1> HIDE DEF result
<1>5. CASE \E pair \in Pairs : result = Mapped(pair, <<>>)
  <2>1. PICK pair \in Pairs : result = Mapped(pair, <<>>)
      BY <1>5
  <2>2. <<>> \in Seq(Pairs) /\ ToSet(<<>>) = {} /\ IsInjective(<<>>)
      BY DEF ToSet, IsInjective
  <2>3. result \in MappingResults(Pairs) /\ IsInjective(Requirements(result))
      BY <2>1, <2>2, MappedProperties
  <2>4. result.kind = "mapped"
      BY <2>1 DEF Mapped
  <2>5. QED
      BY <1>3, <1>4, <2>3, <2>4 DEF Right, result
<1>6. CASE result = Unmapped(NoReason)
  <2>1. result \in MappingResults(Pairs) /\ result.kind = "unmapped"
      BY <1>6, UnmappedProperties
  <2>2. Effects(result) = {}
      BY <2>1 DEF Effects, Requirements
  <2>3. QED
      BY <1>3, <1>4, <2>1, <2>2 DEF Right, result
<1>7. CASE \E why \in Reasons : result = Refused(why)
  <2>1. result \in MappingResults(Pairs) /\ result.kind = "error"
      BY <1>7, RefusedProperties
  <2>2. QED
      BY <1>3, <1>4, <2>1 DEF Right, result
<1>8. CASE result = Raised
  <2>1. result \in MappingResults(Pairs) /\ result.kind = "raise"
    <3>1. NoPair \in Pairs \cup {NoPair} /\ <<>> \in Seq(Pairs)
        OBVIOUS
    <3>2. QED
        BY <1>8, <3>1 DEF Raised, MappingResults, Reasons
  <2>2. QED
      BY <1>3, <1>4, <2>1 DEF Right, result
<1>9. QED
    BY <1>2, <1>5, <1>6, <1>7, <1>8 DEF Simple

-----------------------------------------------------------------------------
(* The targets of a patch or of a read of several files. *)

LEMMA TaggedProperties ==
  ASSUME NEW action \in Actions, NEW paths \in Seq(PathArgs)
  PROVE  /\ Tagged(action, paths) \in Seq(Actions \X PathArgs)
         /\ ToSet(Tagged(action, paths)) = {action} \X ToSet(paths)
<1> DEFINE tagged == Tagged(action, paths)
<1>1. /\ tagged \in Seq(Actions \X PathArgs)
      /\ DOMAIN tagged = 1..Len(paths) /\ DOMAIN paths = 1..Len(paths)
      /\ \A i \in 1..Len(paths) : tagged[i] = <<action, paths[i]>>
    BY DEF Tagged
<1> HIDE DEF tagged
<1>2. \A x : x \in ToSet(tagged) <=> \E i \in 1..Len(paths) : x = <<action, paths[i]>>
    BY <1>1 DEF ToSet
<1>3. \A x : x \in {action} \X ToSet(paths) <=> \E i \in 1..Len(paths) : x = <<action, paths[i]>>
    BY <1>1 DEF ToSet
<1>4. ToSet(tagged) = {action} \X ToSet(paths)
    BY <1>2, <1>3
<1>5. QED
    BY <1>1, <1>4 DEF tagged

LEMMA ConcatToSet ==
  ASSUME NEW S, NEW s \in Seq(S), NEW t \in Seq(S)
  PROVE  s \o t \in Seq(S) /\ ToSet(s \o t) = ToSet(s) \cup ToSet(t)
<1> DEFINE u == s \o t
<1>1. /\ u \in Seq(S) /\ DOMAIN u = 1..Len(s) + Len(t)
      /\ DOMAIN s = 1..Len(s) /\ DOMAIN t = 1..Len(t) /\ Len(s) \in Nat /\ Len(t) \in Nat
      /\ \A i \in 1..Len(s) + Len(t) : u[i] = IF i <= Len(s) THEN s[i] ELSE t[i - Len(s)]
    OBVIOUS
<1> HIDE DEF u
<1>2. ASSUME NEW i \in DOMAIN u PROVE u[i] \in ToSet(s) \cup ToSet(t)
  <2>1. CASE i <= Len(s)
      BY <1>1, <2>1 DEF ToSet
  <2>2. CASE ~(i <= Len(s))
    <3>1. i - Len(s) \in 1..Len(t) /\ u[i] = t[i - Len(s)]
        BY <1>1, <2>2
    <3>2. QED
        BY <1>1, <3>1 DEF ToSet
  <2>3. QED
      BY <2>1, <2>2
<1>3. ASSUME NEW i \in DOMAIN s PROVE s[i] \in ToSet(u)
  <2>1. i \in DOMAIN u /\ u[i] = s[i]
      BY <1>1
  <2>2. QED
      BY <2>1 DEF ToSet
<1>4. ASSUME NEW i \in DOMAIN t PROVE t[i] \in ToSet(u)
  <2>1. i + Len(s) \in DOMAIN u /\ u[i + Len(s)] = t[i]
      BY <1>1
  <2>2. QED
      BY <2>1 DEF ToSet
<1>5. ToSet(u) \subseteq ToSet(s) \cup ToSet(t)
  <2> SUFFICES ASSUME NEW x \in ToSet(u) PROVE x \in ToSet(s) \cup ToSet(t)
      OBVIOUS
  <2>1. PICK i \in DOMAIN u : x = u[i]
      BY DEF ToSet
  <2>2. QED
      BY <2>1, <1>2
<1>6. ToSet(s) \subseteq ToSet(u)
    BY <1>3 DEF ToSet
<1>7. ToSet(t) \subseteq ToSet(u)
    BY <1>4 DEF ToSet
<1>8. QED
    BY <1>1, <1>5, <1>6, <1>7 DEF u

LEMMA EmptyToSet == ASSUME NEW S, NEW s \in Seq(S) PROVE s = <<>> <=> ToSet(s) = {}
<1>1. CASE s = <<>>
    BY <1>1 DEF ToSet
<1>2. CASE s # <<>>
  <2>1. 1 \in DOMAIN s
      BY <1>2
  <2>2. s[1] \in ToSet(s)
      BY <2>1 DEF ToSet
  <2>3. QED
      BY <1>2, <2>2
<1>3. QED
    BY <1>1, <1>2

LEMMA EmptyProduct == ASSUME NEW a, NEW A PROVE {a} \X A = {} <=> A = {}
<1>1. ASSUME NEW x \in A PROVE {a} \X A # {}
  <2>1. <<a, x>> \in {a} \X A
      OBVIOUS
  <2>2. QED
      BY <2>1
<1>2. ASSUME NEW x \in {a} \X A PROVE x[2] \in A
    OBVIOUS
<1>3. QED
    BY <1>1, <1>2

\* The loop goes over what the call touches.
LEMMA TargetsProperties ==
  ASSUME call \in Calls, call.tool \in Looping
  PROVE  /\ Targets \in Seq(Actions \X PathArgs)
         /\ Targets # <<>> => Touches(call) = ToSet(Targets)
         /\ Targets = <<>> /\ call.tool = "patch" =>
              Touches(call) = {<<"write", call.path>>} /\ call.path \in PathArgs
         /\ Targets = <<>> /\ call.tool # "patch" =>
              Touches(call) = {} /\ call.paths = <<>>
         /\ call.tool # "patch" => call.tool = "read_multiple_files"
<1>1. CASE call.tool = "read_multiple_files"
  <2>1. call.paths \in Seq(PathArgs)
      BY <1>1, MultiEffectAssumption DEF MultiEffectAssumption, CallType
  <2>2. Targets = Tagged("read", call.paths) /\ Touches(call) = {"read"} \X ToSet(call.paths)
      BY <1>1 DEF Targets, Touches
  <2>3. Targets \in Seq(Actions \X PathArgs) /\ ToSet(Targets) = {"read"} \X ToSet(call.paths)
      BY <2>1, <2>2, TaggedProperties DEF Actions
  <2>4. Targets = <<>> <=> ToSet(call.paths) = {}
    <3>1. Targets = <<>> <=> ToSet(Targets) = {}
        BY <2>3, EmptyToSet
    <3>2. {"read"} \X ToSet(call.paths) = {} <=> ToSet(call.paths) = {}
        BY EmptyProduct
    <3>3. QED
        BY <2>3, <3>1, <3>2
  <2>5. Targets = <<>> <=> call.paths = <<>>
      BY <2>1, <2>4, EmptyToSet
  <2>6. Targets = <<>> => Touches(call) = {}
      BY <2>2, <2>4
  <2>7. QED
      BY <1>1, <2>2, <2>3, <2>5, <2>6
<1>2. CASE call.tool = "patch"
  <2> DEFINE d == Tagged("delete", call.deleted)
             u == Tagged("write", call.updated)
             a == Tagged("write", call.added)
  <2>1. /\ call.deleted \in Seq(PathArgs) /\ call.updated \in Seq(PathArgs)
        /\ call.added \in Seq(PathArgs) /\ call.path \in PathArgs
    <3>1. call.deleted \in Seq(Paths) /\ call.updated \in Seq(Paths) /\ call.added \in Seq(Paths)
        BY <1>2, MultiEffectAssumption DEF MultiEffectAssumption, CallType
    <3>2. Seq(Paths) \subseteq Seq(PathArgs)
        BY DEF PathArgs
    <3>3. call.path \in PathArgs
        BY <1>2, MultiEffectAssumption DEF MultiEffectAssumption, CallType
    <3>4. QED
        BY <3>1, <3>2, <3>3
  <2>2. Targets = d \o u \o a
      BY <1>2 DEF Targets
  <2>3. /\ d \in Seq(Actions \X PathArgs) /\ ToSet(d) = {"delete"} \X ToSet(call.deleted)
        /\ u \in Seq(Actions \X PathArgs) /\ ToSet(u) = {"write"} \X ToSet(call.updated)
        /\ a \in Seq(Actions \X PathArgs) /\ ToSet(a) = {"write"} \X ToSet(call.added)
      BY <2>1, TaggedProperties DEF Actions
  <2> HIDE DEF d, u, a
  <2>4. /\ d \o u \in Seq(Actions \X PathArgs)
        /\ ToSet(d \o u) = ToSet(d) \cup ToSet(u)
      BY <2>3, ConcatToSet
  <2>5. /\ Targets \in Seq(Actions \X PathArgs)
        /\ ToSet(Targets) = ToSet(d) \cup ToSet(u) \cup ToSet(a)
    <3> DEFINE du == d \o u
    <3>1. du \in Seq(Actions \X PathArgs) /\ Targets = du \o a
        BY <2>2, <2>4
    <3> HIDE DEF du
    <3>2. du \o a \in Seq(Actions \X PathArgs) /\ ToSet(du \o a) = ToSet(du) \cup ToSet(a)
        BY <2>3, <3>1, ConcatToSet
    <3>3. QED
        BY <2>4, <3>1, <3>2 DEF du
  <2>6. Targets = <<>> <=> ToSet(Targets) = {}
      BY <2>5, EmptyToSet
  <2> DEFINE written == ToSet(call.updated) \cup ToSet(call.added)
  <2>7. ToSet(Targets) = ({"delete"} \X ToSet(call.deleted)) \cup ({"write"} \X written)
      BY <2>3, <2>5
  <2>8. ToSet(Targets) = {} <=> ToSet(call.deleted) \cup written = {}
    <3> HIDE DEF written
    <3>1. /\ {"delete"} \X ToSet(call.deleted) = {} <=> ToSet(call.deleted) = {}
          /\ {"write"} \X written = {} <=> written = {}
        BY EmptyProduct
    <3>2. \A A, B : A \cup B = {} <=> A = {} /\ B = {}
        OBVIOUS
    <3>3. QED
        BY Zenon, <2>7, <3>1, <3>2
  <2>9. Touches(call) = IF ToSet(call.deleted) \cup written = {}
                          THEN {<<"write", call.path>>}
                          ELSE ({"delete"} \X ToSet(call.deleted)) \cup ({"write"} \X written)
      BY <1>2 DEF Touches
  <2>10. QED
      BY <1>2, <2>1, <2>5, <2>6, <2>7, <2>8, <2>9
<1>3. QED
    BY <1>1, <1>2 DEF Looping

-----------------------------------------------------------------------------
(* The inductive invariant. *)

Started == phase = "start" => pos = 1 /\ requirements = <<>>

\* The pair that is asked for a target.
Asked(target) == <<target[1], ResourceOf[target[2]]>>

\* The targets before the loop's position can be expressed and are in
\* requirements, and nothing else is.
Collecting ==
  phase = "collect" =>
    /\ call.tool \in Looping
    /\ Targets # <<>>
    /\ pos <= Len(Targets) + 1
    /\ \A i \in 1..pos - 1 : ~Inexpressible(Targets[i][2])
    /\ IsInjective(requirements)
    /\ ToSet(requirements) = {Asked(Targets[i]) : i \in 1..pos - 1}

Built == phase \in {"built", "union", "done"} => Right(builtin, call)

\* The effects before the loop's position are in requirements, but for the
\* rule's own pair.
Uniting ==
  phase = "union" =>
    /\ rule # NoPair
    /\ Compound(builtin)
    /\ pos <= Len(ToUnite) + 1
    /\ IsInjective(requirements)
    /\ ToSet(requirements) = {ToUnite[i] : i \in 1..pos - 1} \ {rule}

\* The answer is the classifiers', or the rule's pair and what it may not
\* take away.
Answered ==
  phase = "done" =>
    /\ rule = NoPair \/ Stopped(builtin) => answer = builtin
    /\ rule # NoPair /\ ~Stopped(builtin) =>
         /\ answer.kind = "mapped"
         /\ IsInjective(Requirements(answer))
         /\ Compound(builtin) => Effects(answer) = Effects(builtin) \cup {rule}

IInv == TypeOK /\ Started /\ Collecting /\ Built /\ Uniting /\ Answered

LEMMA ResultIsNotPending == ASSUME NEW result \in MappingResults(Pairs) PROVE result # Pending
BY DEF MappingResults, Pending

LEMMA RequirementsOfMapped ==
  ASSUME NEW p \in Pairs, NEW also \in Seq(Pairs)
  PROVE  /\ Requirements(Mapped(p, also)) = <<p>> \o also
         /\ Effects(Mapped(p, also)) = ToSet(<<p>> \o also)
<1> DEFINE all == <<p>> \o also
<1>1. Requirements(Mapped(p, also)) = all
    BY DEF Mapped, Requirements
<1>2. DOMAIN all = 1..Len(all)
    OBVIOUS
<1> HIDE DEF all
<1>3. QED
    BY <1>1, <1>2 DEF Effects, ToSet, all

LEMMA OneEffectOnly ==
  ASSUME NEW result \in MappingResults(Pairs), result.kind = "mapped", ~Compound(result)
  PROVE  Effects(result) = {result.primary}
<1>1. result.also_requires = <<>>
    BY DEF Compound
<1>2. Requirements(result) = <<result.primary>>
    BY <1>1 DEF Requirements
<1>3. QED
    BY <1>2 DEF Effects

LEMMA PrimaryIsCharged ==
  ASSUME NEW result \in MappingResults(Pairs), result.kind = "mapped"
  PROVE  result.primary \in Effects(result)
<1>1. result.primary \in Pairs /\ result.also_requires \in Seq(Pairs)
    BY DEF MappingResults
<1>2. /\ Len(<<result.primary>> \o result.also_requires) \in Nat \ {0}
      /\ (<<result.primary>> \o result.also_requires)[1] = result.primary
    BY <1>1
<1>3. 1 \in 1..Len(<<result.primary>> \o result.also_requires)
    BY <1>2
<1>4. QED
    BY <1>2, <1>3 DEF Effects, Requirements

LEMMA InitIInv == Init => IInv
<1> SUFFICES ASSUME Init PROVE IInv
    OBVIOUS
<1>1. <<>> \in Seq(Pairs)
    OBVIOUS
<1>2. TypeOK
    BY <1>1 DEF Init, TypeOK
<1>3. QED
    BY <1>2 DEF Init, IInv, Started, Collecting, Built, Uniting, Answered

\* Every step but a loop's own leaves the call, and so the targets, alone.
LEMMA SameTargets == ASSUME call' = call PROVE Targets' = Targets
BY DEF Targets

\* A classifier's result that is right is a step's worth of the invariant.
LEMMA BuiltStep ==
  ASSUME IInv, phase \in {"start", "collect"}, phase' = "built", Right(builtin', call),
         UNCHANGED <<call, rule, pos, requirements, answer>>
  PROVE  IInv'
<1>1. TypeOK'
    BY DEF IInv, TypeOK, Right
<1>2. QED
    BY <1>1 DEF IInv, Started, Collecting, Built, Uniting, Answered

LEMMA ResolveAtOnceStep == IInv /\ ResolveAtOnce => IInv'
<1> SUFFICES ASSUME IInv, ResolveAtOnce PROVE IInv'
    OBVIOUS
<1>1. call \in Calls
    BY DEF IInv, TypeOK
<1>2. Right(builtin', call)
  <2>1. CASE call.tool = "file"
    <3>1. call.action \in Actions /\ call.path \in PathArgs
        BY <1>1, <2>1, MultiEffectAssumption DEF MultiEffectAssumption, CallType, FileActions, Actions
    <3>2. Touches(call) = {<<call.action, call.path>>}
        BY <2>1 DEF Touches
    <3>3. builtin' = ResolvePath(call.action, call.path)
        BY <2>1 DEF ResolveAtOnce
    <3>4. QED
        BY <2>1, <3>1, <3>2, <3>3, PathRight
  <2>2. CASE call.tool = "move_file"
    <3>1. builtin' = ResolveMove(call)
        BY <2>2 DEF ResolveAtOnce
    <3>2. QED
        BY <1>1, <2>2, <3>1, MoveRight
  <2>3. CASE call.tool = "fork_repository"
    <3>1. builtin' = ResolveFork(call)
        BY <2>3 DEF ResolveAtOnce
    <3>2. QED
        BY <1>1, <2>3, <3>1, ForkRight
  <2>4. CASE call.tool = "single"
    <3>1. builtin' = ResolveSingle(call.request)
        BY <2>4 DEF ResolveAtOnce
    <3>2. QED
        BY <1>1, <2>4, <3>1, SingleRight
  <2>5. call.tool \in {"file", "move_file", "fork_repository", "single"}
      BY <1>1, MultiEffectAssumption DEF ResolveAtOnce, Looping, MultiEffectAssumption, CallType
  <2>6. QED
      BY <2>1, <2>2, <2>3, <2>4, <2>5
<1>3. QED
    BY <1>2, BuiltStep DEF ResolveAtOnce

LEMMA ResolveWithoutTargetsStep == IInv /\ ResolveWithoutTargets => IInv'
<1> SUFFICES ASSUME IInv, ResolveWithoutTargets PROVE IInv'
    OBVIOUS
<1>1. call \in Calls /\ call.tool \in Looping /\ Targets = <<>>
    BY DEF IInv, TypeOK, ResolveWithoutTargets
<1>2. Right(builtin', call)
  <2>1. CASE call.tool = "patch"
    <3>1. builtin' = ResolvePath("write", call.path)
        BY <2>1 DEF ResolveWithoutTargets
    <3>2. Touches(call) = {<<"write", call.path>>} /\ call.path \in PathArgs
        BY <1>1, <2>1, TargetsProperties
    <3>3. "write" \in Actions
        BY DEF Actions
    <3>4. QED
        BY <2>1, <3>1, <3>2, <3>3, PathRight
  <2>2. CASE call.tool # "patch"
    <3>1. builtin' = Refused("malformed_payload")
        BY <2>2 DEF ResolveWithoutTargets
    <3>2. call.paths = <<>> /\ call.tool = "read_multiple_files"
        BY <1>1, <2>2, TargetsProperties
    <3>3. MustRefuse(call)
        BY <3>2 DEF MustRefuse
    <3>4. QED
        BY <3>1, <3>3, RefusedProperties DEF Right, Stopped, Reasons
  <2>3. QED
      BY <2>1, <2>2
<1>3. QED
    BY <1>2, BuiltStep DEF ResolveWithoutTargets

LEMMA BeginTargetsStep == IInv /\ BeginTargets => IInv'
<1> SUFFICES ASSUME IInv, BeginTargets PROVE IInv'
    OBVIOUS
<1>1. TypeOK'
    BY DEF IInv, TypeOK, BeginTargets
<1>2. Collecting'
  <2>1. call \in Calls /\ pos = 1 /\ requirements = <<>> /\ call' = call
        /\ pos' = pos /\ requirements' = requirements
      BY DEF IInv, TypeOK, Started, BeginTargets
  <2>2. Targets' = Targets
      BY <2>1, SameTargets
  <2>3. Targets \in Seq(Actions \X PathArgs)
      BY <2>1, TargetsProperties DEF BeginTargets
  <2>4. IsInjective(<<>>) /\ ToSet(<<>>) = {}
      BY DEF IsInjective, ToSet
  <2>5. Len(Targets) \in Nat
      BY <2>3
  <2>6. ToSet(requirements') = {Asked(Targets[i])' : i \in 1..pos' - 1}
      BY <2>1, <2>4
  <2>7. QED
      BY <2>1, <2>2, <2>4, <2>5, <2>6 DEF Collecting, BeginTargets
<1>3. QED
    BY <1>1, <1>2 DEF IInv, Started, Built, Uniting, Answered, BeginTargets

\* The target at the loop's position.
LEMMA AtTargetFacts ==
  ASSUME IInv, AtTarget
  PROVE  /\ call \in Calls /\ call.tool \in Looping
         /\ Targets \in Seq(Actions \X PathArgs)
         /\ pos \in 1..Len(Targets)
         /\ Targets[pos][1] \in Actions /\ Targets[pos][2] \in PathArgs
         /\ Targets[pos] \in Touches(call)
<1>1. call \in Calls /\ call.tool \in Looping /\ pos \in Nat \ {0}
    BY DEF IInv, TypeOK, Collecting, AtTarget
<1>2. Targets \in Seq(Actions \X PathArgs) /\ (Targets # <<>> => Touches(call) = ToSet(Targets))
    BY <1>1, TargetsProperties
<1>3. pos \in 1..Len(Targets)
    BY <1>1, <1>2 DEF AtTarget
<1>4. Targets[pos] \in ToSet(Targets)
    BY <1>2, <1>3 DEF ToSet
<1>5. Targets # <<>>
    BY DEF IInv, Collecting, AtTarget
<1>6. Targets[pos] \in Actions \X PathArgs
    BY <1>2, <1>3
<1>7. QED
    BY <1>1, <1>2, <1>3, <1>4, <1>5, <1>6

LEMMA TakeTargetStep == IInv /\ TakeTarget => IInv'
<1> SUFFICES ASSUME IInv, TakeTarget PROVE IInv'
    OBVIOUS
<1> DEFINE target == Targets[pos]
           pair == ResolvePath(target[1], target[2]).primary
<1>1. /\ call \in Calls /\ call.tool \in Looping /\ Targets \in Seq(Actions \X PathArgs)
      /\ pos \in 1..Len(Targets) /\ target[1] \in Actions /\ target[2] \in PathArgs
    BY AtTargetFacts DEF TakeTarget
<1>2. ~Inexpressible(target[2]) /\ pair = Asked(target) /\ pair \in Pairs
  <2>1. ResolvePath(target[1], target[2]).kind = "mapped"
      BY DEF TakeTarget
  <2>2. ~Inexpressible(target[2])
      BY <1>1, <2>1, PathResult
  <2>3. QED
      BY <1>1, <2>2, PathResult DEF Asked
<1>3. /\ requirements \in Seq(Pairs) /\ IsInjective(requirements)
      /\ ToSet(requirements) = {Asked(Targets[i]) : i \in 1..pos - 1}
      /\ \A i \in 1..pos - 1 : ~Inexpressible(Targets[i][2])
      /\ phase = "collect" /\ Targets # <<>>
    BY DEF IInv, TypeOK, Collecting, TakeTarget, AtTarget
<1>4. requirements' = AppendNew(pair) /\ pos' = pos + 1
      /\ UNCHANGED <<call, rule, phase, builtin, answer>>
    BY DEF TakeTarget
<1> HIDE DEF pair
<1>5. /\ requirements' \in Seq(Pairs) /\ IsInjective(requirements')
      /\ ToSet(requirements') = ToSet(requirements) \cup {pair}
    BY <1>2, <1>3, <1>4, AppendNewProperties
<1>6. TypeOK'
    BY <1>1, <1>4, <1>5 DEF IInv, TypeOK
<1>7. Targets' = Targets
    BY <1>4, SameTargets
<1>8. Collecting'
  <2>1. pos' <= Len(Targets) + 1 /\ pos' - 1 = pos
      BY <1>1, <1>4
  <2>2. \A i \in 1..pos : ~Inexpressible(Targets[i][2])
      BY <1>1, <1>2, <1>3
  <2>3. ToSet(requirements') = {Asked(Targets[i]) : i \in 1..pos}
    <3>1. \A x : x \in {Asked(Targets[i]) : i \in 1..pos} <=>
                   (x \in {Asked(Targets[i]) : i \in 1..pos - 1} \/ x = Asked(Targets[pos]))
        BY <1>1
    <3>2. QED
        BY <1>2, <1>3, <1>5, <3>1
  <2>4. \A i : Inexpressible(Targets[i][2])' = Inexpressible(Targets[i][2])
      BY <1>7 DEF Inexpressible
  <2>5. \A i : Asked(Targets[i])' = Asked(Targets[i])
      BY <1>7 DEF Asked
  <2>6. QED
      BY <1>1, <1>3, <1>4, <1>5, <1>7, <2>1, <2>2, <2>3, <2>4, <2>5 DEF Collecting
<1>9. QED
    BY <1>3, <1>4, <1>6, <1>8 DEF IInv, Started, Built, Uniting, Answered

LEMMA RefuseTargetStep == IInv /\ RefuseTarget => IInv'
<1> SUFFICES ASSUME IInv, RefuseTarget PROVE IInv'
    OBVIOUS
<1> DEFINE target == Targets[pos]
<1>1. target[1] \in Actions /\ target[2] \in PathArgs /\ target \in Touches(call)
    BY AtTargetFacts DEF RefuseTarget
<1>2. builtin' = ResolvePath(target[1], target[2]) /\ builtin'.kind = "error"
    BY DEF RefuseTarget
<1>3. builtin' \in MappingResults(Pairs) /\ Inexpressible(target[2])
    BY <1>1, <1>2, PathResult
<1>4. MustRefuse(call)
    BY <1>1, <1>3 DEF MustRefuse
<1>5. Right(builtin', call)
    BY <1>2, <1>3, <1>4 DEF Right, Stopped
<1>6. QED
    BY <1>5, BuiltStep DEF RefuseTarget, AtTarget

\* A patch or a multi read of which every target can be expressed.
LEMMA LoopingDemands ==
  ASSUME call \in Calls, call.tool \in Looping, Targets # <<>>,
         \A i \in 1..Len(Targets) : ~Inexpressible(Targets[i][2])
  PROVE  /\ ~MustRefuse(call)
         /\ Demands(call) = {Asked(Targets[i]) : i \in 1..Len(Targets)}
<1>1. Targets \in Seq(Actions \X PathArgs) /\ Touches(call) = ToSet(Targets)
    BY TargetsProperties
<1>2. ToSet(Targets) = {Targets[i] : i \in 1..Len(Targets)}
    BY <1>1 DEF ToSet
<1>3. {<<touch[1], ResourceOf[touch[2]]>> : touch \in Touches(call)} =
        {Asked(Targets[i]) : i \in 1..Len(Targets)}
    BY <1>1, <1>2 DEF Asked
<1>4. call.tool \notin {"move_file", "fork_repository", "single"}
    BY DEF Looping
<1>5. Demands(call) = {Asked(Targets[i]) : i \in 1..Len(Targets)}
    BY <1>3, <1>4 DEF Demands
<1>6. call.tool = "read_multiple_files" => call.paths # <<>>
  <2>1. SUFFICES ASSUME call.tool = "read_multiple_files", call.paths = <<>> PROVE FALSE
      OBVIOUS
  <2>2. Targets = Tagged("read", <<>>)
      BY <2>1 DEF Targets
  <2>3. <<>> \in Seq(PathArgs) /\ ToSet(<<>>) = {} /\ "read" \in Actions
      BY DEF ToSet, Actions
  <2>4. ToSet(Targets) = {"read"} \X {}
      BY <2>2, <2>3, TaggedProperties
  <2>5. QED
      BY <1>1, <2>4, EmptyToSet
<1>7. ~MustRefuse(call)
    BY <1>1, <1>2, <1>4, <1>6 DEF MustRefuse
<1>8. QED
    BY <1>5, <1>7

LEMMA FinishTargetsStep == IInv /\ FinishTargets => IInv'
<1> SUFFICES ASSUME IInv, FinishTargets PROVE IInv'
    OBVIOUS
<1> DEFINE lead == requirements[LeadIndex]
           rest == RemoveAt(requirements, LeadIndex)
<1>1. /\ call \in Calls /\ call.tool \in Looping /\ Targets # <<>> /\ pos \in Nat \ {0}
      /\ requirements \in Seq(Pairs) /\ IsInjective(requirements)
      /\ pos <= Len(Targets) + 1 /\ pos > Len(Targets)
      /\ ToSet(requirements) = {Asked(Targets[i]) : i \in 1..pos - 1}
      /\ \A i \in 1..pos - 1 : ~Inexpressible(Targets[i][2])
    BY DEF IInv, TypeOK, Collecting, FinishTargets
<1>2. Targets \in Seq(Actions \X PathArgs) /\ Len(Targets) \in Nat /\ pos - 1 = Len(Targets)
    BY <1>1, TargetsProperties
<1>3. ~MustRefuse(call) /\ Demands(call) = ToSet(requirements)
    BY <1>1, <1>2, LoopingDemands
<1>4. requirements # <<>>
  <2>1. Asked(Targets[1]) \in ToSet(requirements)
      BY <1>1, <1>2
  <2>2. QED
      BY <1>1, <2>1, EmptyToSet
<1>5. LeadIndex \in 1..Len(requirements)
    BY <1>1, <1>4, LeadIndexInRange
<1>6. lead \in Pairs /\ rest \in Seq(Pairs)
  <2>1. lead \in Pairs
      BY <1>1, <1>5
  <2>2. rest \in Seq(Pairs)
      BY <1>1, <1>5, ToTheFront
  <2>3. QED
      BY <2>1, <2>2
<1>7. ToSet(<<lead>> \o rest) = Demands(call) /\ IsInjective(<<lead>> \o rest)
    BY <1>1, <1>3, <1>5, ToTheFront
<1>8. builtin' = Mapped(lead, rest)
    BY DEF FinishTargets
<1> HIDE DEF lead, rest
<1>9. Right(builtin', call)
  <2>1. Mapped(lead, rest) \in MappingResults(Pairs)
      BY <1>6, MappedProperties
  <2>2. /\ Requirements(Mapped(lead, rest)) = <<lead>> \o rest
        /\ Effects(Mapped(lead, rest)) = ToSet(<<lead>> \o rest)
      BY <1>6, RequirementsOfMapped
  <2>3. Mapped(lead, rest).kind = "mapped"
      BY DEF Mapped
  <2>4. QED
      BY <1>3, <1>7, <1>8, <2>1, <2>2, <2>3 DEF Right, Stopped
<1>10. QED
    BY <1>9, BuiltStep DEF FinishTargets

\* The classifiers' result once there is one.
LEMMA BuiltFacts ==
  ASSUME IInv, phase \in {"built", "union"}
  PROVE  /\ Right(builtin, call)
         /\ builtin \in MappingResults(Pairs)
         /\ rule # NoPair => rule \in Pairs
         /\ Compound(builtin) =>
              builtin.primary \in Pairs /\ builtin.also_requires \in Seq(Pairs)
<1>1. Right(builtin, call)
    BY DEF IInv, Built
<1>2. builtin \in MappingResults(Pairs)
    BY <1>1 DEF Right
<1>3. rule # NoPair => rule \in Pairs
    BY MultiEffectAssumption DEF IInv, TypeOK, MultiEffectAssumption
<1>4. Compound(builtin) => builtin.primary \in Pairs /\ builtin.also_requires \in Seq(Pairs)
    BY <1>2 DEF MappingResults, Compound
<1>5. QED
    BY <1>1, <1>2, <1>3, <1>4

\* An answer is a step's worth of the invariant.
LEMMA AnswerStep ==
  ASSUME IInv, phase \in {"built", "union"}, NEW result \in MappingResults(Pairs), Answer(result),
         rule = NoPair \/ Stopped(builtin) => result = builtin,
         rule # NoPair /\ ~Stopped(builtin) =>
           /\ result.kind = "mapped"
           /\ IsInjective(Requirements(result))
           /\ Compound(builtin) => Effects(result) = Effects(builtin) \cup {rule}
  PROVE  IInv'
<1>1. answer' = result /\ phase' = "done" /\ UNCHANGED <<call, rule, pos, requirements, builtin>>
    BY DEF Answer
<1>2. answer' # Pending
    BY <1>1, ResultIsNotPending
<1>3. TypeOK'
    BY <1>1, <1>2 DEF IInv, TypeOK
<1>4. Built'
    BY <1>1 DEF IInv, Built
<1>5. Answered'
    BY <1>1 DEF Answered
<1>6. QED
    BY <1>1, <1>3, <1>4, <1>5 DEF IInv, Started, Collecting, Uniting

LEMMA UseBuiltinStep == IInv /\ UseBuiltin => IInv'
<1> SUFFICES ASSUME IInv, UseBuiltin PROVE IInv'
    OBVIOUS
<1>1. phase = "built" /\ rule = NoPair /\ Answer(builtin)
    BY DEF UseBuiltin
<1>2. builtin \in MappingResults(Pairs)
    BY <1>1, BuiltFacts
<1>3. QED
    BY <1>1, <1>2, AnswerStep

LEMMA KeepRefusalStep == IInv /\ KeepRefusal => IInv'
<1> SUFFICES ASSUME IInv, KeepRefusal PROVE IInv'
    OBVIOUS
<1>1. phase = "built" /\ Stopped(builtin) /\ Answer(builtin)
    BY DEF KeepRefusal
<1>2. builtin \in MappingResults(Pairs)
    BY <1>1, BuiltFacts
<1>3. QED
    BY <1>1, <1>2, AnswerStep

LEMMA KeepRuleStep == IInv /\ KeepRule => IInv'
<1> SUFFICES ASSUME IInv, KeepRule PROVE IInv'
    OBVIOUS
<1>1. /\ phase = "built" /\ rule # NoPair /\ ~Stopped(builtin) /\ ~Compound(builtin)
      /\ Answer(Mapped(rule, <<>>))
    BY DEF KeepRule
<1>2. rule \in Pairs
    BY <1>1, BuiltFacts
<1>3. <<>> \in Seq(Pairs) /\ ToSet(<<>>) = {} /\ IsInjective(<<>>)
    BY DEF ToSet, IsInjective
<1>4. /\ Mapped(rule, <<>>) \in MappingResults(Pairs)
      /\ IsInjective(Requirements(Mapped(rule, <<>>)))
    BY <1>2, <1>3, MappedProperties
<1>5. Mapped(rule, <<>>).kind = "mapped"
    BY DEF Mapped
<1>6. QED
    BY <1>1, <1>4, <1>5, AnswerStep

LEMMA BeginUnionStep == IInv /\ BeginUnion => IInv'
<1> SUFFICES ASSUME IInv, BeginUnion PROVE IInv'
    OBVIOUS
<1>1. /\ phase = "built" /\ rule # NoPair /\ Compound(builtin)
      /\ pos' = 1 /\ requirements' = <<>> /\ phase' = "union"
      /\ UNCHANGED <<call, rule, builtin, answer>>
    BY DEF BeginUnion
<1>2. builtin.primary \in Pairs /\ builtin.also_requires \in Seq(Pairs)
    BY <1>1, BuiltFacts
<1>3. <<>> \in Seq(Pairs) /\ ToSet(<<>>) = {} /\ IsInjective(<<>>)
    BY DEF ToSet, IsInjective
<1>4. TypeOK'
    BY <1>1, <1>3 DEF IInv, TypeOK
<1>5. Uniting'
  <2>1. Len(ToUnite)' \in Nat
    <3>1. ToUnite \in Seq(Pairs)
        BY <1>1, <1>2 DEF ToUnite, Requirements, Compound
    <3>2. ToUnite' = ToUnite
        BY <1>1 DEF ToUnite
    <3>3. QED
        BY <3>1, <3>2
  <2>2. {ToUnite[i] : i \in 1..pos - 1}' \ {rule}' = {}
      BY <1>1
  <2>3. Compound(builtin)'
      BY <1>1 DEF Compound
  <2>4. QED
      BY <1>1, <1>3, <2>1, <2>2, <2>3 DEF Uniting
<1>6. Built'
    BY <1>1 DEF IInv, Built
<1>7. QED
    BY <1>1, <1>4, <1>5, <1>6 DEF IInv, Started, Collecting, Answered

\* The effects to unite are the classifiers' own, the primary among them.
LEMMA ToUniteProperties ==
  ASSUME IInv, phase = "union"
  PROVE  /\ ToUnite \in Seq(Pairs)
         /\ {ToUnite[i] : i \in 1..Len(ToUnite)} = Effects(builtin)
         /\ rule \in Pairs /\ Compound(builtin)
<1>1. Compound(builtin) /\ rule # NoPair
    BY DEF IInv, Uniting
<1>2. builtin.primary \in Pairs /\ builtin.also_requires \in Seq(Pairs) /\ rule \in Pairs
    BY <1>1, BuiltFacts
<1>3. ToUnite \in Seq(Pairs)
    BY <1>1, <1>2 DEF ToUnite, Requirements, Compound
<1>4. QED
    BY <1>1, <1>2, <1>3 DEF Effects, ToUnite

LEMMA UniteStep == IInv /\ Unite => IInv'
<1> SUFFICES ASSUME IInv, Unite PROVE IInv'
    OBVIOUS
<1>1. /\ phase = "union" /\ pos <= Len(ToUnite) /\ pos' = pos + 1
      /\ UNCHANGED <<call, rule, phase, builtin, answer>>
      /\ requirements' = IF ToUnite[pos] = rule THEN requirements ELSE AppendNew(ToUnite[pos])
    BY DEF Unite
<1>2. ToUnite \in Seq(Pairs)
    BY <1>1, ToUniteProperties
<1>3. /\ pos \in Nat \ {0} /\ requirements \in Seq(Pairs) /\ IsInjective(requirements)
      /\ ToSet(requirements) = {ToUnite[i] : i \in 1..pos - 1} \ {rule}
      /\ rule # NoPair /\ Compound(builtin)
    BY <1>1 DEF IInv, TypeOK, Uniting
<1>4. pos \in 1..Len(ToUnite) /\ ToUnite[pos] \in Pairs
    BY <1>1, <1>2, <1>3
<1>5. /\ requirements' \in Seq(Pairs) /\ IsInjective(requirements')
      /\ ToSet(requirements') = (ToSet(requirements) \cup {ToUnite[pos]}) \ {rule}
  <2>1. CASE ToUnite[pos] = rule
      BY <1>1, <1>3, <2>1
  <2>2. CASE ToUnite[pos] # rule
    <3>1. requirements' = AppendNew(ToUnite[pos])
        BY <1>1, <2>2
    <3>2. /\ AppendNew(ToUnite[pos]) \in Seq(Pairs) /\ IsInjective(AppendNew(ToUnite[pos]))
          /\ ToSet(AppendNew(ToUnite[pos])) = ToSet(requirements) \cup {ToUnite[pos]}
        BY <1>3, <1>4, AppendNewProperties
    <3>3. QED
        BY <1>3, <2>2, <3>1, <3>2
  <2>3. QED
      BY <2>1, <2>2
<1>6. TypeOK'
    BY <1>1, <1>3, <1>5 DEF IInv, TypeOK
<1>7. ToUnite' = ToUnite
    BY <1>1 DEF ToUnite
<1>8. Uniting'
  <2>1. \A x : x \in {ToUnite[i] : i \in 1..pos} <=>
                 (x \in {ToUnite[i] : i \in 1..pos - 1} \/ x = ToUnite[pos])
      BY <1>4
  <2>2. ToSet(requirements') = {ToUnite[i] : i \in 1..pos} \ {rule}
      BY <1>3, <1>5, <2>1
  <2>3. pos' - 1 = pos /\ pos' <= Len(ToUnite) + 1
      BY <1>1, <1>2, <1>4
  <2>4. Compound(builtin)'
      BY <1>1, <1>3 DEF Compound
  <2>5. QED
      BY <1>1, <1>3, <1>5, <1>7, <2>2, <2>3, <2>4 DEF Uniting
<1>9. Built'
    BY <1>1 DEF IInv, Built
<1>10. QED
    BY <1>1, <1>6, <1>8, <1>9 DEF IInv, Started, Collecting, Answered

LEMMA FinishUnionStep == IInv /\ FinishUnion => IInv'
<1> SUFFICES ASSUME IInv, FinishUnion PROVE IInv'
    OBVIOUS
<1>1. phase = "union" /\ pos > Len(ToUnite) /\ Answer(Mapped(rule, requirements))
    BY DEF FinishUnion
<1>2. /\ ToUnite \in Seq(Pairs) /\ rule \in Pairs /\ Compound(builtin)
      /\ {ToUnite[i] : i \in 1..Len(ToUnite)} = Effects(builtin)
    BY <1>1, ToUniteProperties
<1>3. /\ pos \in Nat \ {0} /\ pos <= Len(ToUnite) + 1
      /\ requirements \in Seq(Pairs) /\ IsInjective(requirements)
      /\ ToSet(requirements) = {ToUnite[i] : i \in 1..pos - 1} \ {rule}
      /\ rule # NoPair
    BY <1>1 DEF IInv, TypeOK, Uniting
<1>4. pos - 1 = Len(ToUnite)
    BY <1>1, <1>2, <1>3
<1>5. ToSet(requirements) = Effects(builtin) \ {rule}
    BY <1>2, <1>3, <1>4
<1>6. /\ Mapped(rule, requirements) \in MappingResults(Pairs)
      /\ Effects(Mapped(rule, requirements)) = {rule} \cup ToSet(requirements)
      /\ IsInjective(Requirements(Mapped(rule, requirements)))
    BY <1>2, <1>3, <1>5, MappedProperties
<1>7. Effects(Mapped(rule, requirements)) = Effects(builtin) \cup {rule}
    BY <1>5, <1>6
<1>8. Mapped(rule, requirements).kind = "mapped" /\ ~Stopped(builtin)
    BY <1>2 DEF Mapped, Compound, Stopped
<1>9. QED
    BY <1>1, <1>3, <1>6, <1>7, <1>8, AnswerStep

LEMMA NextIInv == IInv /\ [Next]_vars => IInv'
<1>1. IInv /\ UNCHANGED vars => IInv'
  <2> SUFFICES ASSUME IInv, UNCHANGED vars PROVE IInv'
      OBVIOUS
  <2>1. Targets' = Targets /\ ToUnite' = ToUnite
      BY DEF vars, Targets, ToUnite
  <2>2. TypeOK' /\ Started' /\ Built' /\ Answered'
      BY DEF vars, IInv, TypeOK, Started, Built, Answered
  <2>3. Collecting'
    <3>1. \A i : Asked(Targets[i])' = Asked(Targets[i])
        BY <2>1 DEF Asked
    <3>2. \A i : Inexpressible(Targets[i][2])' = Inexpressible(Targets[i][2])
        BY <2>1 DEF Inexpressible
    <3>3. QED
        BY <2>1, <3>1, <3>2 DEF vars, IInv, Collecting
  <2>4. Uniting'
      BY <2>1 DEF vars, IInv, Uniting, Compound
  <2>5. QED
      BY <2>2, <2>3, <2>4 DEF IInv
<1>2. QED
    BY <1>1, ResolveAtOnceStep, ResolveWithoutTargetsStep, BeginTargetsStep, TakeTargetStep,
       RefuseTargetStep, FinishTargetsStep, UseBuiltinStep, KeepRefusalStep, KeepRuleStep,
       BeginUnionStep, UniteStep, FinishUnionStep DEF Next, Finished

LEMMA Invariance == Spec => []IInv
BY InitIInv, NextIInv, PTL DEF Spec

-----------------------------------------------------------------------------

\* The state stays of its type: every list of requirements is one of pairs,
\* and there is an answer exactly when the resolution is done.
THEOREM TypeCorrect == Spec => []TypeOK
<1>1. IInv => TypeOK
    BY DEF IInv
<1>2. QED
    BY <1>1, Invariance, PTL

\* The classifiers' result at the end.
LEMMA DoneFacts ==
  ASSUME IInv, phase = "done"
  PROVE  Right(builtin, call) /\ builtin \in MappingResults(Pairs)
BY DEF IInv, Built, Right

\* Without a rule a mapped call is charged exactly its effects, however many
\* targets it has.
THEOREM EffectsCharged == Spec => []EveryEffectCharged
<1>1. IInv => EveryEffectCharged
  <2> SUFFICES ASSUME IInv, phase = "done", rule = NoPair, answer.kind = "mapped"
               PROVE  Effects(answer) = Demands(call)
      BY DEF EveryEffectCharged
  <2>1. answer = builtin
      BY DEF IInv, Answered
  <2>2. QED
      BY <2>1, DoneFacts DEF Right
<1>2. QED
    BY <1>1, Invariance, PTL

\* A call of several effects is charged all of them and the rule's pair.
THEOREM NothingSubtracted == Spec => []RuleSubtractsNothing
<1>1. IInv => RuleSubtractsNothing
  <2> SUFFICES ASSUME IInv, phase = "done", rule # NoPair, answer.kind = "mapped",
                      NEW p \in Demands(call), NEW q \in Demands(call), p # q
               PROVE  Effects(answer) = Demands(call) \cup {rule}
      BY DEF RuleSubtractsNothing
  <2>1. Right(builtin, call) /\ builtin \in MappingResults(Pairs)
      BY DoneFacts
  <2>2. ~Stopped(builtin)
      BY DEF IInv, Answered, Stopped
  <2>3. builtin.kind # "unmapped"
      BY <2>1 DEF Right
  <2>4. builtin.kind = "mapped"
      BY <2>1, <2>2, <2>3 DEF MappingResults, Stopped
  <2>5. Effects(builtin) = Demands(call)
      BY <2>1, <2>4 DEF Right
  <2>6. Compound(builtin)
      BY <2>1, <2>4, <2>5, OneEffectOnly
  <2>7. QED
      BY <2>2, <2>5, <2>6 DEF IInv, Answered
<1>2. QED
    BY <1>1, Invariance, PTL

\* A call is refused, or ends in the exception of an invalid URL, exactly
\* when an argument of it cannot be expressed, and no rule maps it then.
THEOREM Refusals == Spec => []RefusalStands
<1>1. IInv => RefusalStands
  <2> SUFFICES ASSUME IInv, phase = "done" 
               PROVE  /\ Stopped(answer) <=> MustRefuse(call)
                      /\ answer.kind = "raise" =>
                           call.tool = "single" /\ Fetched(call.request) \cap InvalidUrls # {}
      BY DEF RefusalStands
  <2>1. /\ Stopped(builtin) <=> MustRefuse(call)
        /\ builtin.kind = "raise" =>
             call.tool = "single" /\ Fetched(call.request) \cap InvalidUrls # {}
      BY DoneFacts DEF Right
  <2>2. CASE rule = NoPair \/ Stopped(builtin)
      BY <2>1, <2>2 DEF IInv, Answered
  <2>3. CASE ~(rule = NoPair \/ Stopped(builtin))
      BY <2>1, <2>3 DEF IInv, Answered, Stopped
  <2>4. QED
      BY <2>2, <2>3
<1>2. QED
    BY <1>1, Invariance, PTL

\* No pair is listed twice in an answer.
THEOREM NoQuestionTwice == Spec => []AskedOnce
<1>1. IInv => AskedOnce
  <2> SUFFICES ASSUME IInv, phase = "done" PROVE IsInjective(Requirements(answer))
      BY DEF AskedOnce
  <2>1. CASE rule = NoPair \/ Stopped(builtin)
    <3>1. answer = builtin
        BY <2>1 DEF IInv, Answered
    <3>2. CASE builtin.kind = "mapped"
        BY <3>1, <3>2, DoneFacts DEF Right
    <3>3. CASE builtin.kind # "mapped"
        BY <3>1, <3>3 DEF Requirements, IsInjective
    <3>4. QED
        BY <3>2, <3>3
  <2>2. CASE ~(rule = NoPair \/ Stopped(builtin))
      BY <2>2 DEF IInv, Answered
  <2>3. QED
      BY <2>1, <2>2
<1>2. QED
    BY <1>1, Invariance, PTL

-----------------------------------------------------------------------------
(* Where the tools with one effect are charged. *)

LEMMA ChargedEffects ==
  ASSUME NEW action \in Actions, NEW resource \in Seq(Segments) \ {NoResource}
  PROVE  Effects(Charged(action, resource)) = {<<action, resource>>}
<1>1. <<action, resource>> \in Pairs /\ <<>> \in Seq(Pairs) /\ ToSet(<<>>) = {}
    BY DEF Pairs, ToSet
<1>2. QED
    BY <1>1, MappedProperties DEF Charged

LEMMA NothingIsCharged ==
  ASSUME NEW result, result.kind # "mapped"
  PROVE  Effects(result) = {}
<1>1. Requirements(result) = <<>>
    BY DEF Requirements
<1>2. QED
    BY <1>1 DEF Effects

LEMMA GithubNames ==
  ASSUME NEW c \in RequestType, c.tool = "github", NEW pair \in Effects(ResolveGithub(c)), pair[1] # "read"
  PROVE  NamesRepository(pair[2], c)
<1> DEFINE byMethod == c.row[2] = "method"
           scope == c.row[1]
           kind == c.row[3]
           action == IF byMethod THEN GithubMethods[c.method] ELSE c.row[2]
           owner == Safe(c.owner)
           repo == Safe(c.repo)
           resource == GithubResource(action, scope, kind, owner, repo, c.organization)
           open == (byMethod /\ c.method \notin DOMAIN GithubMethods)
                   \/ Unaddressed(action, scope, owner, repo)
<1>1. /\ c.row \in GithubRows /\ c.owner \in Argument /\ c.repo \in Argument
      /\ c.organization \in Argument
    BY DEF RequestType
<1>2. c.row[2] \in Actions \cup {"method"} /\ kind \in Segments
  <2>1. c.row[2] \in Actions \cup {"method"}
      BY <1>1 DEF GithubRows, Actions
  <2>2. kind \in Segments
      BY <1>1, SingleEffectAssumption DEF SingleEffectAssumption
  <2>3. QED
      BY <2>1, <2>2
<1>3. ~open
  <2> SUFFICES ASSUME open PROVE FALSE
      OBVIOUS
  <2>1. ResolveGithub(c) = Unmapped(NoReason)
      BY DEF ResolveGithub
  <2>2. ResolveGithub(c).kind # "mapped"
      BY <2>1 DEF Unmapped
  <2>3. QED
      BY <2>2, NothingIsCharged
<1>4. action \in Actions
    BY <1>2, <1>3 DEF GithubMethods, Actions
<1>5. /\ owner \in Segments \cup {Absent} /\ repo \in Segments \cup {Absent}
      /\ Namespace(c.organization) \in Segments
    BY <1>1, NamesAreSegments
<1>6. pair = <<action, resource>>
  <2>1. resource \in Seq(Segments) \ {NoResource}
    <3> HIDE DEF action, owner, repo, scope, kind
    <3>1. QED
        BY <1>2, <1>5, ShortResources, OwnSegments DEF GithubResource, Coarse
  <2>2. ResolveGithub(c) = Charged(action, resource)
      BY <1>3 DEF ResolveGithub
  <2> HIDE DEF action, resource
  <2>3. QED
      BY <1>4, <2>1, <2>2, ChargedEffects
<1>7. scope = "repo" \/ (scope = "namespace" /\ kind = "repo")
  <2>1. c.row[2] # "read"
      BY <1>6
  <2>2. QED
      BY <1>1, <2>1 DEF GithubRows
<1>8. CASE scope = "namespace" /\ kind = "repo"
  <2>1. resource = <<"github", Namespace(c.organization), Coarse, "repo">>
      BY <1>8 DEF GithubResource
  <2>2. Len(pair[2]) = 4 /\ pair[2][4] = "repo"
      BY <1>6, <2>1
  <2>3. QED
      BY <2>2 DEF NamesRepository
<1>9. CASE scope = "repo"
  <2>1. owner # Absent /\ repo # Absent
      BY <1>3, <1>6, <1>9 DEF Unaddressed
  <2>2. resource = <<"github", owner, repo, kind>>
      BY <1>9, <2>1 DEF GithubResource
  <2>3. pair[2] = <<"github", owner, repo, kind>>
      BY <1>6, <2>2
  <2>4. Len(pair[2]) = 4 /\ pair[2][2] = owner /\ pair[2][3] = repo
    <3> HIDE DEF owner, repo, kind
    <3>1. QED
        BY <2>3
  <2>5. QED
      BY <2>4 DEF NamesRepository
<1>10. QED
    BY <1>7, <1>8, <1>9

LEMMA SlackNames ==
  ASSUME NEW c \in RequestType, c.tool = "slack", NEW pair \in Effects(ResolveSlack(c)), pair[1] # "read"
  PROVE  pair[2] = <<"chat", "slack", c.channel>>
<1> DEFINE channel == IF c.row[2] = "workspace" THEN Absent ELSE Written(c.channel)
           resource == <<"chat", "slack", channel>>
<1>1. c.row \in SlackRows /\ c.channel \in Argument
    BY DEF RequestType
<1>2. channel \in Segments \cup {Absent}
    BY <1>1, NamesAreSegments
<1>3. ASSUME NEW action \in Actions, NEW some \in Seq(Segments) \ {NoResource},
             ResolveSlack(c) = Charged(action, some)
      PROVE  pair = <<action, some>>
    BY <1>3, ChargedEffects
<1>4. c.row[1] = "send"
  <2> SUFFICES ASSUME c.row[1] = "read" PROVE FALSE
      BY <1>1 DEF SlackRows
  <2>1. \/ ResolveSlack(c) = Charged("read", <<"chat", "slack">>)
        \/ channel # Absent /\ ResolveSlack(c) = Charged("read", resource)
      BY DEF ResolveSlack
  <2>2. /\ <<"chat", "slack">> \in Seq(Segments) \ {NoResource}
        /\ channel # Absent => resource \in Seq(Segments) \ {NoResource}
    <3> HIDE DEF channel
    <3>1. QED
        BY <1>2, ShortResources, OwnSegments
  <2> HIDE DEF channel, resource
  <2>3. "read" \in Actions
      BY DEF Actions
  <2>4. \E some \in Seq(Segments) \ {NoResource} : ResolveSlack(c) = Charged("read", some)
      BY <2>1, <2>2
  <2>5. \E some \in Seq(Segments) \ {NoResource} : pair = <<"read", some>>
      BY <1>3, <2>3, <2>4
  <2>6. QED
      BY <2>5
<1>5. channel # Absent
  <2> SUFFICES ASSUME channel = Absent PROVE FALSE
      OBVIOUS
  <2>1. ResolveSlack(c) = Unmapped(NoReason)
      BY <1>4 DEF ResolveSlack
  <2>2. ResolveSlack(c).kind # "mapped"
      BY <2>1 DEF Unmapped
  <2>3. QED
      BY <2>2, NothingIsCharged
<1>6. ResolveSlack(c) = Charged("send", resource)
    BY <1>4, <1>5 DEF ResolveSlack
<1>7. channel = c.channel
    BY <1>5 DEF Written
<1>8. resource \in Seq(Segments) \ {NoResource}
  <2> HIDE DEF channel
  <2>1. QED
      BY <1>2, <1>5, ShortResources, OwnSegments
<1> HIDE DEF resource
<1>9. pair = <<"send", resource>>
    BY <1>3, <1>6, <1>8 DEF Actions
<1>10. QED
    BY <1>7, <1>9 DEF resource

\* What is charged is said to change the repository or the channel the call
\* names.
THEOREM TargetsAreNamed == Spec => []ChangesNameTheirTarget
<1>1. IInv /\ EveryEffectCharged => ChangesNameTheirTarget
  <2> SUFFICES ASSUME IInv, EveryEffectCharged, phase = "done", rule = NoPair, answer.kind = "mapped",
                      NEW pair \in Effects(answer), pair[1] # "read"
               PROVE  /\ call.tool = "fork_repository" => NamesRepository(pair[2], call)
                      /\ call.tool = "single" /\ call.request.tool = "github" =>
                           NamesRepository(pair[2], call.request)
                      /\ call.tool = "single" /\ call.request.tool = "slack" =>
                           pair[2] = <<"chat", "slack", call.request.channel>>
      BY DEF ChangesNameTheirTarget
  <2>1. call \in Calls /\ pair \in Demands(call)
      BY DEF IInv, TypeOK, EveryEffectCharged
  <2>2. ASSUME call.tool = "fork_repository" PROVE NamesRepository(pair[2], call)
    <3> DEFINE owner == Safe(call.owner)
               repo == Safe(call.repo)
               into == <<"github", Namespace(call.organization), Coarse, "repo">>
               fork == <<"github", owner, repo, "fork">>
    <3>1. Touches(call) = {}
        BY <2>2 DEF Touches
    <3>2. /\ owner # Absent /\ repo # Absent
          /\ pair \in {<<"write", fork>>, <<"read", <<"github", owner, repo, "contents">>>>, <<"write", into>>}
        BY <2>1, <2>2, <3>1 DEF Demands
    <3>3. pair[2] = fork \/ pair[2] = into
        BY <3>2
    <3>4. /\ Len(pair[2]) = 4
          /\ pair[2][4] = "repo" \/ (pair[2][2] = owner /\ pair[2][3] = repo)
      <4> HIDE DEF owner, repo
      <4>1. QED
          BY <3>3
    <3>5. QED
        BY <3>4 DEF NamesRepository
  <2>3. ASSUME call.tool = "single"
        PROVE  call.request \in RequestType /\ pair \in Effects(ResolveSingle(call.request))
    <3>1. call.request \in RequestType
        BY <2>1, <2>3, MultiEffectAssumption DEF MultiEffectAssumption, CallType
    <3>2. Touches(call) = {}
        BY <2>3 DEF Touches
    <3>3. QED
        BY <2>1, <2>3, <3>1, <3>2 DEF Demands
  <2>4. ASSUME call.tool = "single", call.request.tool = "github"
        PROVE  NamesRepository(pair[2], call.request)
    <3>1. ResolveSingle(call.request) = ResolveGithub(call.request)
        BY <2>4 DEF ResolveSingle
    <3>2. QED
        BY <2>3, <2>4, <3>1, GithubNames
  <2>5. ASSUME call.tool = "single", call.request.tool = "slack"
        PROVE  pair[2] = <<"chat", "slack", call.request.channel>>
    <3>1. ResolveSingle(call.request) = ResolveSlack(call.request)
        BY <2>5 DEF ResolveSingle
    <3>2. QED
        BY <2>3, <2>5, <3>1, SlackNames
  <2>6. QED
      BY <2>2, <2>4, <2>5
<1>2. QED
    BY <1>1, EffectsCharged, Invariance, PTL

\* A fetch of internal pages is not charged as one of external ones.
THEOREM HostsAreVisible == Spec => []InternalIsVisible
<1>1. IInv /\ EveryEffectCharged => InternalIsVisible
  <2> DEFINE urls == call.request.urls
             hosts == {HostOf[url] : url \in ToSet(urls)}
             first == HostOf[urls[1]]
             host == IF hosts = {first} THEN first ELSE "multiple"
             resource == <<"net", CommonScope(hosts), host>>
  <2> SUFFICES ASSUME IInv, EveryEffectCharged, phase = "done", rule = NoPair, answer.kind = "mapped",
                      call.tool = "single", call.request.tool = "web_extract",
                      NEW pair \in Effects(answer)
               PROVE  /\ pair[2][2] = "external" => hosts \cap InternalHosts = {}
                      /\ pair[2][2] = "internal" => hosts \subseteq InternalHosts
                      /\ pair[2][3] = "multiple" \/ hosts = {pair[2][3]}
      BY DEF InternalIsVisible
  <2>1. call \in Calls /\ pair \in Demands(call)
      BY DEF IInv, TypeOK, EveryEffectCharged
  <2>2. urls \in Seq(Argument)
      BY <2>1, MultiEffectAssumption DEF MultiEffectAssumption, CallType, RequestType
  <2>3. pair \in Effects(ResolveFetch(urls))
    <3>1. Touches(call) = {}
        BY DEF Touches
    <3>2. ResolveSingle(call.request) = ResolveFetch(urls)
        BY DEF ResolveSingle
    <3>3. QED
        BY <2>1, <3>1, <3>2 DEF Demands
  <2>4. /\ NetworkResource(urls) # NoResource
        /\ ResolveFetch(urls) = Charged("send", NetworkResource(urls))
    <3> DEFINE stops == \/ Absent \in ToSet(urls) \/ UrlparseRaises(urls)
                        \/ NetworkResource(urls) = NoResource
    <3> SUFFICES ASSUME stops PROVE FALSE
        BY DEF ResolveFetch
    <3>1. ResolveFetch(urls).kind # "mapped"
        BY DEF ResolveFetch, Refused, Raised
    <3>2. QED
        BY <2>3, <3>1, NothingIsCharged
  <2>5. NetworkResource(urls) = resource
      BY <2>4 DEF NetworkResource
  <2>6. pair = <<"send", resource>>
    <3>1. ResolveFetch(urls) = Charged("send", resource)
        BY <2>4, <2>5
    <3>2. resource \in Seq(Segments) \ {NoResource}
        BY <2>2, <2>4, <2>5, NetworkIsResource
    <3> HIDE DEF resource
    <3>3. QED
        BY <2>3, <3>1, <3>2, ChargedEffects DEF Actions
  <2> HIDE DEF hosts
  <2>7. QED
      BY <2>6 DEF CommonScope
<1>2. QED
    BY <1>1, EffectsCharged, Invariance, PTL

\* A file is charged as the one its path leads to, for paths of any length
\* and any spelling.
THEOREM FileByWhereItIs == Spec => []FileIsCharged
<1>1. IInv => FileIsCharged
  <2> SUFFICES ASSUME IInv, phase = "done", rule = NoPair, call.tool = "file", call.path # Absent,
                      Nul \notin ToSet(call.path)
               PROVE  FileIsCharged
      BY DEF FileIsCharged
  <2> DEFINE path == call.path
             resource == ResourceOf[path]
             S == Segments \cup {"", ".", "..", Nul}
  <2>1. path \in Paths /\ path \in Seq(S) /\ call.action \in FileActions
      BY MultiEffectAssumption DEF MultiEffectAssumption, CallType, PathArgs, IInv, TypeOK
  <2>2. answer = builtin /\ Right(answer, call) /\ answer \in MappingResults(Pairs)
      BY DoneFacts DEF IInv, Answered
  <2>3. resource = RepoOrSecretResource(path)
      BY <2>1 DEF ResourceOf
  <2>4. Touches(call) = {<<call.action, path>>}
      BY DEF Touches
  <2>5. answer.kind = "error" <=> resource = NoResource
      BY <2>2, <2>4 DEF Right, MustRefuse, Inexpressible, Stopped
  <2>6. Demands(call) = {<<call.action, resource>>}
    <3>1. {<<touch[1], ResourceOf[touch[2]]>> : touch \in Touches(call)} = {<<call.action, resource>>}
        BY <2>4
    <3>2. QED
        BY <3>1 DEF Demands
  <2>7. answer.kind \in {"mapped", "unmapped", "error"} /\ answer.kind # "unmapped"
      BY <2>2, <2>6 DEF MappingResults, Right
  <2>8. answer.kind = "mapped" => answer.primary[2] = resource
    <3>1. SUFFICES ASSUME answer.kind = "mapped" PROVE answer.primary[2] = resource
        OBVIOUS
    <3>2. Effects(answer) = {<<call.action, resource>>}
        BY <2>2, <2>6, <3>1 DEF Right
    <3>3. answer.primary \in Effects(answer)
        BY <2>2, <3>1, PrimaryIsCharged
    <3>4. answer.primary = <<call.action, resource>>
        BY <3>2, <3>3
    <3>5. QED
        BY <3>4
  <2> HIDE DEF S, path, resource
  <2>9. QED
      BY <2>1, <2>3, <2>5, <2>7, <2>8, FileResource DEF FileIsCharged, path
<1>2. QED
    BY <1>1, Invariance, PTL

-----------------------------------------------------------------------------
(* The primary pair. *)

\* The classifiers put the pair first that the logs are to report.
Led(result) ==
  result.kind = "mapped" =>
    /\ call.tool \in Looping /\ (\E pair \in Effects(result) : Leads(pair)) => Leads(result.primary)
    /\ call.tool = "move_file" =>
         result.primary[2] = IF call.surface = "mcp" /\ IsSecret(ResourceOf[call.source])
                               THEN ResourceOf[call.source] ELSE ResourceOf[call.destination]

Leading ==
  /\ phase \in {"built", "union", "done"} => Led(builtin)
  /\ phase = "done" /\ rule # NoPair /\ answer.kind = "mapped" => answer.primary = rule

LEMMA BuiltLeads ==
  ASSUME IInv, ResolveAtOnce \/ ResolveWithoutTargets \/ RefuseTarget \/ FinishTargets
  PROVE  Led(builtin)' /\ phase' = "built" /\ UNCHANGED <<call, rule>>
<1>1. phase' = "built" /\ UNCHANGED <<call, rule>> /\ call \in Calls
    BY DEF ResolveAtOnce, ResolveWithoutTargets, RefuseTarget, FinishTargets, IInv, TypeOK
<1>2. CASE ResolveAtOnce
  <2>1. call.tool \notin Looping
      BY <1>2 DEF ResolveAtOnce
  <2>2. CASE call.tool # "move_file"
      BY <1>1, <2>1, <2>2 DEF Led
  <2>3. CASE call.tool = "move_file"
    <3>1. builtin' = ResolveMove(call)
        BY <1>2, <2>3 DEF ResolveAtOnce
    <3> DEFINE source == ResourceOf[call.source]
               destination == ResourceOf[call.destination]
               primary == IF call.surface = "mcp" /\ IsSecret(source) THEN source ELSE destination
    <3>2. builtin'.kind = "mapped" => builtin'.primary = <<"write", primary>>
        BY <3>1 DEF ResolveMove, Mapped, Refused
    <3> HIDE DEF primary
    <3>3. builtin'.kind = "mapped" => builtin'.primary[2] = primary
        BY <3>2
    <3>4. QED
        BY <1>1, <2>1, <3>3 DEF Led, primary
  <2>4. QED
      BY <2>2, <2>3
<1>3. CASE ResolveWithoutTargets
  <2>1. call.tool \in Looping /\ call.tool # "move_file"
      BY <1>3 DEF ResolveWithoutTargets, Looping
  <2>2. builtin'.kind = "mapped" => call.tool = "patch" /\ builtin' = ResolvePath("write", call.path)
      BY <1>3 DEF ResolveWithoutTargets, Refused
  <2>3. builtin'.kind = "mapped" => call.tool = "patch" /\ builtin'.primary[1] = "write"
      BY <2>2 DEF ResolvePath, Charged, Mapped, Refused
  <2>4. (call.tool = "patch" /\ builtin.primary[1] = "write" => Leads(builtin.primary))'
      BY DEF Leads
  <2>5. QED
      BY <1>1, <2>1, <2>3, <2>4 DEF Led
<1>4. CASE RefuseTarget
  <2>1. builtin'.kind = "error"
      BY <1>4 DEF RefuseTarget
  <2>2. QED
      BY <1>1, <2>1 DEF Led
<1>5. CASE FinishTargets
  <2> DEFINE lead == requirements[LeadIndex]
             rest == RemoveAt(requirements, LeadIndex)
  <2>1. /\ call.tool \in Looping /\ call.tool # "move_file" /\ requirements \in Seq(Pairs)
        /\ Targets # <<>> /\ pos \in Nat \ {0} /\ pos > Len(Targets) /\ Len(Targets) \in Nat
        /\ ToSet(requirements) = {Asked(Targets[i]) : i \in 1..pos - 1}
      BY <1>1, <1>5, TargetsProperties DEF IInv, TypeOK, Collecting, FinishTargets, Looping
  <2>2. requirements # <<>>
    <3>1. 1 \in 1..pos - 1
        BY <2>1, <1>1, TargetsProperties
    <3>2. Asked(Targets[1]) \in ToSet(requirements)
        BY <2>1, <3>1
    <3>3. QED
        BY <2>1, <3>2, EmptyToSet
  <2>3. /\ LeadIndex \in 1..Len(requirements)
        /\ (\E i \in 1..Len(requirements) : Leads(requirements[i])) => Leads(lead)
      BY <2>1, <2>2, LeadIndexInRange
  <2>4. /\ lead \in Pairs /\ rest \in Seq(Pairs)
        /\ ToSet(<<lead>> \o rest) = ToSet(requirements)
      BY <2>1, <2>3, ToTheFront
  <2>5. builtin' = Mapped(lead, rest)
      BY <1>5 DEF FinishTargets
  <2>6. ToSet(requirements) = {requirements[i] : i \in 1..Len(requirements)}
      BY <2>1 DEF ToSet
  <2> HIDE DEF lead, rest
  <2>7. Effects(builtin') = ToSet(requirements) /\ builtin'.primary = lead
      BY <2>4, <2>5, RequirementsOfMapped DEF Mapped
  <2>8. (\E pair \in Effects(builtin') : Leads(pair)) => Leads(builtin'.primary)
      BY <2>3, <2>6, <2>7
  <2>9. \A pair : Leads(pair)' <=> Leads(pair)
      BY <1>1 DEF Leads
  <2>10. (call.tool \in Looping /\ (\E pair \in Effects(builtin) : Leads(pair)) => Leads(builtin.primary))'
      BY <2>8, <2>9
  <2>11. QED
      BY <1>1, <2>1, <2>10 DEF Led
<1>6. QED
    BY <1>1, <1>2, <1>3, <1>4, <1>5

LEMMA NextLeading == IInv /\ Leading /\ [Next]_vars => Leading'
<1> SUFFICES ASSUME IInv, Leading, [Next]_vars PROVE Leading'
    OBVIOUS
<1>1. ASSUME UNCHANGED <<call, builtin>> PROVE Led(builtin)' <=> Led(builtin)
    BY <1>1 DEF Led, Leads
<1>2. CASE ResolveAtOnce \/ ResolveWithoutTargets \/ RefuseTarget \/ FinishTargets
    BY <1>2, BuiltLeads DEF Leading
<1>3. CASE BeginTargets \/ TakeTarget
    BY <1>3 DEF BeginTargets, TakeTarget, AtTarget, Leading
<1>4. CASE BeginUnion \/ Unite
    BY <1>1, <1>4 DEF BeginUnion, Unite, Leading
<1>5. CASE UseBuiltin \/ KeepRefusal \/ KeepRule \/ FinishUnion
  <2>1. /\ phase \in {"built", "union"} /\ UNCHANGED <<call, rule, builtin>>
        /\ rule = NoPair \/ answer'.kind # "mapped" \/ answer' = Mapped(rule, <<>>)
           \/ answer' = Mapped(rule, requirements)
      BY <1>5 DEF UseBuiltin, KeepRefusal, Stopped, KeepRule, FinishUnion, Answer
  <2>2. rule = NoPair \/ answer'.kind # "mapped" \/ answer'.primary = rule
      BY <2>1 DEF Mapped
  <2>3. QED
      BY <1>1, <2>1, <2>2 DEF Leading
<1>6. CASE UNCHANGED vars
    BY <1>1, <1>6 DEF vars, Leading
<1>7. QED
    BY <1>2, <1>3, <1>4, <1>5, <1>6 DEF Next, Finished

\* The pair a call is reported under is the one that says most about it.
THEOREM PairReported == Spec => []PrimaryPair
<1>1. Init => Leading
    BY DEF Init, Leading
<1>2. IInv /\ Leading => PrimaryPair
  <2> SUFFICES ASSUME IInv, Leading, phase = "done", answer.kind = "mapped"
               PROVE  /\ rule # NoPair => answer.primary = rule
                      /\ rule = NoPair => Led(answer)
      BY DEF PrimaryPair, Led
  <2>1. rule = NoPair => answer = builtin
      BY DEF IInv, Answered
  <2>2. QED
      BY <2>1 DEF Leading
<1>3. QED
    BY <1>1, <1>2, NextLeading, Invariance, PTL DEF Spec
=============================================================================
