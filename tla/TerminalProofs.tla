--------------------------- MODULE TerminalProofs ---------------------------
(***************************************************************************)
(* For command lines of any length and any words: a destructive push stays *)
(* a deletion, the rules decide exactly what the mandatory checks leave to *)
(* them, and git is charged only where the words are known.                *)
(***************************************************************************)
EXTENDS Terminal, FoldLemmas

-----------------------------------------------------------------------------
(* Finding git and its subcommand. *)

\* The first word that is not skipped, or the position after the last.
LEMMA FirstOtherFound ==
  ASSUME NEW S, NEW words \in Seq(S), NEW i \in 1..Len(words) + 1, NEW Skipped
  PROVE  LET j == FirstOther(words, i, Skipped)
         IN /\ j \in i..Len(words) + 1
            /\ \A k \in i..j - 1 : words[k] \in Skipped
            /\ j <= Len(words) => words[j] \notin Skipped
<1> DEFINE Stops == {j \in i..Len(words) + 1 : j <= Len(words) => words[j] \notin Skipped}
<1>1. Len(words) \in Nat
  OBVIOUS
<1>2. Stops # {} /\ Stops \subseteq Nat
  <2>1. Len(words) + 1 \in Stops
    BY <1>1
  <2> QED
    BY <1>1, <2>1
<1>3. \E x \in Stops : \A y \in Stops : ~(y < x)
  <2> HIDE DEF Stops
  <2>1. \E x \in Stops : \A y \in Stops : ~(<<y, x>> \in OpToRel(<, Nat))
    BY <1>2, WFMin, NatLessThanWellFounded
  <2>2. \A x, y \in Nat : y < x => <<y, x>> \in OpToRel(<, Nat)
    BY Zenon DEF OpToRel
  <2> QED
    BY Zenon, <1>2, <2>1, <2>2
<1>4. PICK x \in Stops : \A y \in Stops : ~(y < x)
  BY <1>3
<1>5. \A k \in i..x - 1 : words[k] \in Skipped
  <2>1. ASSUME NEW k \in i..x - 1 PROVE words[k] \in Skipped
    <3>1. k \in i..Len(words) + 1 /\ k < x
      BY <1>1, <1>4
    <3> QED
      BY <1>4, <3>1
  <2> QED
    BY <2>1
<1>6. x \in i..Len(words) + 1 /\ (x <= Len(words) => words[x] \notin Skipped)
  BY <1>4
<1> HIDE DEF Stops
<1> QED
  BY <1>5, <1>6 DEF FirstOther

\* Words before git are "!" and wrappers.
LEMMA GitIndexFound ==
  ASSUME NEW S, NEW words \in Seq(S), Len(words) > 0
  PROVE  /\ GitIndex(words) \in 1..Len(words) + 1
         /\ \A k \in 1..GitIndex(words) - 1 : words[k] \in {"!"} \cup Wrappers
<1> DEFINE start == IF words[1] = "!" THEN 2 ELSE 1
           g == FirstOther(words, start, Wrappers)
<1>1. start \in 1..Len(words) + 1 /\ Len(words) \in Nat
  OBVIOUS
<1>2. g \in start..Len(words) + 1 /\ \A k \in start..g - 1 : words[k] \in Wrappers
  <2> HIDE DEF start
  <2> QED
    BY <1>1, FirstOtherFound
<1>3. GitIndex(words) = g
  BY DEF GitIndex
<1>4. ASSUME NEW k \in 1..g - 1 PROVE words[k] \in {"!"} \cup Wrappers
  <2>1. CASE k \in start..g - 1
    BY <1>2, <2>1
  <2>2. CASE k \notin start..g - 1
    <3>1. k = 1 /\ words[1] = "!"
      BY <1>1, <1>2, <2>2
    <3> QED
      BY <3>1
  <2> QED
    BY <2>1, <2>2
<1> HIDE DEF g
<1>5. g \in 1..Len(words) + 1
  BY <1>1, <1>2
<1> QED
  BY <1>3, <1>4, <1>5

\* A line without an answer has no word that names git.
LEMMA NoAnswerMeansNoGit ==
  ASSUME NEW S, NEW words \in Seq(S)
  PROVE  StaticGit(words) = NoAnswer <=> ToSet(words) \cap NamedGit = {}
<1>1. DOMAIN words = 1..Len(words) /\ Len(words) \in Nat
  OBVIOUS
<1>2. CASE Len(words) = 0
  BY <1>1, <1>2 DEF StaticGit, ToSet
<1>3. CASE Len(words) > 0 /\ ~StartsWithGit(words)
  <2>1. StaticGit(words) = NoAnswer <=> ~HasLaterGit(words)
    BY <1>3 DEF StaticGit, UnsafeShell, Unmapped, NoAnswer
  <2>2. \A k \in 1..GitIndex(words) - 1 : words[k] \notin NamedGit
    BY <1>3, GitIndexFound, TerminalAssumption
  <2>3. GitIndex(words) \in 1..Len(words) + 1
    BY <1>3, GitIndexFound
  <2>4. HasLaterGit(words) <=> \E k \in 1..Len(words) : words[k] \in NamedGit
    BY <1>1, <2>2, <2>3 DEF HasLaterGit
  <2> QED
    BY <1>1, <2>1, <2>4 DEF ToSet
<1>4. CASE Len(words) > 0 /\ StartsWithGit(words)
  <2>1. StaticGit(words) # NoAnswer
    BY <1>4 DEF StaticGit, UnsafeShell, Unmapped, NoAnswer
  <2>2. GitIndex(words) \in 1..Len(words) /\ words[GitIndex(words)] \in NamedGit
    BY <1>4, <1>1, GitIndexFound, TerminalAssumption DEF StartsWithGit
  <2> QED
    BY <1>1, <2>1, <2>2 DEF ToSet
<1> QED
  BY <1>1, <1>2, <1>3, <1>4

-----------------------------------------------------------------------------
(* Pushes. *)

\* The words of the command git runs.
LEMMA TokensOfSubcommand ==
  ASSUME NEW S, NEW words \in Seq(S), NEW j \in 1..Len(words), SubcommandIndex(words) = j
  PROVE  LET tokens == GitTokens(words)
         IN /\ Len(tokens) = Len(words) - j + 2
            /\ tokens[2] = words[j]
            /\ tokens \in Seq(S \cup {"git"})
            /\ \A k \in 3..Len(tokens) : tokens[k] = words[k + j - 2]
            /\ \A k \in j + 1..Len(words) : words[k] \in Arguments(tokens)
<1> DEFINE rest == SubSeq(words, j, Len(words))
           tokens == <<"git">> \o rest
<1>1. /\ Len(rest) = Len(words) - j + 1
      /\ \A m \in 1..Len(words) - j + 1 : rest[m] = words[j + m - 1]
      /\ rest \in Seq(S)
  OBVIOUS
<1> HIDE DEF rest
<1>2. /\ Len(tokens) = Len(rest) + 1
      /\ \A m \in 1..Len(rest) : tokens[m + 1] = rest[m]
  <2> DEFINE T == S \cup {"git"}
  <2>1. <<"git">> \in Seq(T) /\ rest \in Seq(T) /\ Len(<<"git">>) = 1
    BY <1>1
  <2>2. Len(rest) \in Nat /\ \A m \in 1..Len(rest) : m + 1 > 1 /\ m + 1 - 1 = m /\ m + 1 \in 1..Len(rest) + 1
    BY <1>1
  <2> HIDE DEF T
  <2> QED
    BY <2>1, <2>2, ConcatProperties
<1>t. tokens \in Seq(S \cup {"git"})
  <2>1. <<"git">> \in Seq(S \cup {"git"}) /\ rest \in Seq(S \cup {"git"})
    BY <1>1
  <2> QED
    BY <2>1, ConcatProperties
<1> HIDE DEF tokens
<1>3. Len(tokens) = Len(words) - j + 2 /\ tokens[2] = words[j]
  <2>1. 1 \in 1..Len(words) - j + 1 /\ rest[1] = words[j]
    BY <1>1
  <2> QED
    BY <1>1, <1>2, <2>1
<1>4. ASSUME NEW k \in j + 1..Len(words) PROVE words[k] \in {tokens[i] : i \in 3..Len(tokens)}
  <2>1. k - j + 1 \in 1..Len(rest) /\ rest[k - j + 1] = words[k]
    BY <1>1
  <2>2. tokens[k - j + 2] = words[k] /\ k - j + 2 \in 3..Len(tokens)
    BY <1>1, <1>2, <1>3, <2>1
  <2> QED
    BY <2>2
<1>5. ASSUME NEW k \in 3..Len(tokens) PROVE tokens[k] = words[k + j - 2]
  <2>1. k - 1 \in 1..Len(rest) /\ rest[k - 1] = words[k + j - 2]
    BY <1>1, <1>3
  <2> QED
    BY <1>2, <2>1
<1> QED
  BY <1>t, <1>2, <1>3, <1>4, <1>5 DEF GitTokens, Arguments, tokens, rest

IsDeletion(result) ==
  result.kind = "mapped" /\ result.primary[1] = "delete" /\ IsGitResource(result.primary[2])

\* A push is classified as one.
LEMMA PushTokens ==
  ASSUME NEW tokens, tokens[2] = "push"
  PROVE  ClassifyGit(tokens) = GitPush(tokens)
<1>1. Branch(tokens) = NoWord
  BY DEF Branch, NoWord
<1>2. tokens[2] \notin GitReads
  BY DEF GitReads
<1>3. tokens[2] \notin GitWrites
  BY DEF GitWrites
<1>4. ~Discards(tokens)
  BY DEF Discards
<1> QED
  BY <1>1, <1>2, <1>3, <1>4 DEF ClassifyGit

\* However git classifies a push with a destructive argument.
LEMMA DestructiveTokens ==
  ASSUME NEW tokens, tokens[2] = "push", Arguments(tokens) \cap Destructive # {}
  PROVE  ClassifyGit(tokens) = UnsafeShell \/ IsDeletion(ClassifyGit(tokens))
<1>1. ClassifyGit(tokens) = GitPush(tokens)
  BY PushTokens
<1> DEFINE flags == Arguments(tokens) \cap Flags
           target == TargetIndex(tokens)
           known == target <= Len(tokens) /\ tokens[target] \in DOMAIN GithubRemote
<1>2. CASE ~(flags \subseteq AllowedPushFlags)
  BY <1>1, <1>2 DEF GitPush
<1>3. CASE flags \subseteq AllowedPushFlags /\ known
  <2> DEFINE resource == <<"github">> \o GithubRemote[tokens[target]] \o <<"contents">>
  <2>1. GitPush(tokens) = Mapped(<<"delete", resource>>, <<>>)
    BY <1>3 DEF GitPush
  <2>2. resource[1] = "github"
    <3> DEFINE named == GithubRemote[tokens[target]]
    <3>1. named \in Words \X Words
      <4> HIDE DEF target
      <4> QED
        BY <1>3, TerminalAssumption
    <3> HIDE DEF target, named
    <3>2. named = <<named[1], named[2]>>
      BY <3>1
    <3>3. (<<"github">> \o <<named[1], named[2]>> \o <<"contents">>)[1] = "github"
      OBVIOUS
    <3> QED
      BY <3>2, <3>3 DEF named
  <2> HIDE DEF resource
  <2> QED
    BY <1>1, <2>1, <2>2 DEF IsDeletion, IsGitResource, Mapped
<1>4. CASE flags \subseteq AllowedPushFlags /\ ~known
  <2>1. GitPush(tokens) = ShellGit("delete")
    BY <1>4 DEF GitPush
  <2> QED
    BY <1>1, <2>1 DEF IsDeletion, IsGitResource, ShellGit, Mapped
<1> QED
  BY <1>2, <1>3, <1>4

\* Where the program stands does not matter: what names git and pushes is a
\* push of git's, or unsafe.
LEMMA PushWords ==
  ASSUME NEW S, NEW words \in Seq(S),
         NEW i \in DOMAIN words, NEW j \in DOMAIN words, i < j, PushAt(words, i, j)
  PROVE  \/ StaticGit(words) = UnsafeShell
         \/ SubcommandIndex(words) = j /\ StaticGit(words) = ClassifyGit(GitTokens(words))
<1>1. DOMAIN words = 1..Len(words) /\ Len(words) \in Nat \ {0}
  OBVIOUS
<1> DEFINE g == GitIndex(words)
           s == SubcommandIndex(words)
<1>2. g \in 1..Len(words) + 1 /\ \A m \in 1..g - 1 : words[m] \notin NamedGit
  BY <1>1, GitIndexFound, TerminalAssumption
<1>3. g <= i
  BY <1>1, <1>2 DEF PushAt
<1> HIDE DEF g
<1>4. CASE ~StartsWithGit(words)
  <2>1. HasLaterGit(words)
    BY <1>1, <1>2, <1>3 DEF HasLaterGit, PushAt, g
  <2> QED
    BY <1>1, <1>4, <2>1 DEF StaticGit
<1>5. CASE StartsWithGit(words)
  <2>1. g = i
    BY <1>1, <1>2, <1>3, <1>5, TerminalAssumption DEF StartsWithGit, PushAt, g
  <2>2. /\ s \in g + 1..Len(words) + 1
        /\ \A m \in g + 1..s - 1 : words[m] \in GlobalFlags
        /\ s <= Len(words) => words[s] \notin GlobalFlags
    <3>1. g + 1 \in 1..Len(words) + 1
      BY <1>1, <2>1
    <3> QED
      BY <1>1, <3>1, FirstOtherFound DEF SubcommandIndex, g
  <2> HIDE DEF s
  <2>3. s <= j
    BY <1>1, <2>1, <2>2, TerminalAssumption DEF PushAt
  <2>4. CASE s < j
    <3>1. ~HasSubcommand(words)
      BY <1>1, <2>1, <2>2, <2>4 DEF HasSubcommand, PushAt, s
    <3> QED
      BY <1>1, <1>5, <3>1 DEF StaticGit
  <2>5. CASE s = j
    BY <1>1, <1>5, <2>5 DEF StaticGit, s
  <2> QED
    BY <1>1, <2>2, <2>3, <2>4, <2>5
<1> QED
  BY <1>4, <1>5

\* A push with a destructive argument is a deletion, or unsafe.
LEMMA DestructiveWords ==
  ASSUME NEW S, NEW words \in Seq(S),
         NEW i \in DOMAIN words, NEW j \in DOMAIN words, NEW k \in DOMAIN words,
         i < j, j < k, PushAt(words, i, j), words[k] \in Destructive
  PROVE  StaticGit(words) = UnsafeShell \/ IsDeletion(StaticGit(words))
<1>1. CASE StaticGit(words) = UnsafeShell
  BY <1>1
<1>2. CASE SubcommandIndex(words) = j /\ StaticGit(words) = ClassifyGit(GitTokens(words))
  <2>1. DOMAIN words = 1..Len(words)
    OBVIOUS
  <2>2. GitTokens(words)[2] = words[j] /\ words[k] \in Arguments(GitTokens(words))
    <3>1. j \in 1..Len(words) /\ k \in j + 1..Len(words)
      BY <2>1
    <3> QED
      BY <1>2, <3>1, TokensOfSubcommand
  <2>3. GitTokens(words)[2] = "push" /\ Arguments(GitTokens(words)) \cap Destructive # {}
    BY <2>2 DEF PushAt
  <2> QED
    BY <1>2, <2>3, DestructiveTokens
<1> QED
  BY <1>1, <1>2, PushWords

\* A push is charged as a deletion, or as a write of the repository that the
\* first argument after its flags names.
ChargesTarget(words, j, result) ==
  \/ result.primary[1] = "delete"
  \/ \E k \in j + 1..Len(words) :
       /\ words[k] \in DOMAIN GithubRemote
       /\ \A m \in j + 1..k - 1 : words[m] \in Flags
       /\ result.primary = <<"write", <<"github">> \o GithubRemote[words[k]] \o <<"contents">>>>

LEMMA ChargedWords ==
  ASSUME NEW S, NEW words \in Seq(S),
         NEW i \in DOMAIN words, NEW j \in DOMAIN words, i < j, PushAt(words, i, j),
         StaticGit(words).kind = "mapped"
  PROVE  ChargesTarget(words, j, StaticGit(words))
<1> DEFINE tokens == GitTokens(words)
           flags == Arguments(tokens) \cap Flags
           destructive == Arguments(tokens) \cap Destructive # {}
           target == TargetIndex(tokens)
           known == target <= Len(tokens) /\ tokens[target] \in DOMAIN GithubRemote
<1>1. DOMAIN words = 1..Len(words) /\ Len(words) \in Nat
  OBVIOUS
<1>2. SubcommandIndex(words) = j /\ StaticGit(words) = ClassifyGit(tokens)
  BY PushWords DEF UnsafeShell, Unmapped
<1>3. /\ Len(tokens) = Len(words) - j + 2
      /\ tokens[2] = "push"
      /\ tokens \in Seq(S \cup {"git"})
      /\ \A k \in 3..Len(tokens) : tokens[k] = words[k + j - 2]
  <2>1. words[j] = "push" /\ j \in 1..Len(words)
    BY <1>1 DEF PushAt
  <2> QED
    BY <1>2, <2>1, TokensOfSubcommand
<1> HIDE DEF tokens
<1>4. StaticGit(words) = GitPush(tokens)
  BY <1>2, <1>3, PushTokens
<1>5. CASE known /\ ~destructive /\ flags \subseteq AllowedPushFlags
  <2>1. GitPush(tokens) =
          Mapped(<<"write", <<"github">> \o GithubRemote[tokens[target]] \o <<"contents">>>>, <<>>)
    BY <1>5 DEF GitPush
  <2>2. target \in 3..Len(tokens) + 1 /\ \A k \in 3..target - 1 : tokens[k] \in Flags
    <3>1. 3 \in 1..Len(tokens) + 1
      BY <1>1, <1>3
    <3> QED
      BY <1>3, <3>1, FirstOtherFound DEF TargetIndex
  <2> HIDE DEF target
  <2> DEFINE k == target + j - 2
  <2>3. k \in j + 1..Len(words) /\ words[k] = tokens[target]
    BY <1>1, <1>3, <1>5, <2>2
  <2>4. ASSUME NEW m \in j + 1..k - 1 PROVE words[m] \in Flags
    <3>1. /\ m - j + 2 \in 3..target - 1 /\ m - j + 2 \in 3..Len(tokens)
          /\ m - j + 2 + j - 2 = m
      BY <1>1, <1>3, <1>5, <2>2
    <3> QED
      BY <1>3, <2>2, <3>1
  <2>5. words[k] \in DOMAIN GithubRemote
    BY <1>5, <2>3
  <2>6. StaticGit(words).primary =
          <<"write", <<"github">> \o GithubRemote[words[k]] \o <<"contents">>>>
    BY <1>4, <2>1, <2>3 DEF Mapped
  <2> HIDE DEF k
  <2> QED
    BY <2>3, <2>4, <2>5, <2>6 DEF ChargesTarget
<1>6. CASE destructive
  <2>1. IsDeletion(GitPush(tokens)) \/ GitPush(tokens) = UnsafeShell
    BY <1>3, <1>6, DestructiveTokens, PushTokens
  <2> QED
    BY <1>4, <2>1 DEF IsDeletion, ChargesTarget, UnsafeShell, Unmapped
<1>7. CASE ~destructive /\ ~(known /\ flags \subseteq AllowedPushFlags)
  <2>1. GitPush(tokens) \in {UnsafeShell, Refused("parse_unsafe")}
    BY <1>7 DEF GitPush
  <2> QED
    BY <1>4, <2>1 DEF UnsafeShell, Unmapped, Refused
<1> QED
  BY <1>5, <1>6, <1>7

-----------------------------------------------------------------------------
(* The image docker run is charged with. *)

\* What the walk over the flags finds from position i on.
ImageAt(rest, walk, i) ==
  CASE i > Len(rest) -> NoWord
    [] i <= Len(rest) /\ rest[i] \notin Flags -> rest[i]
    [] i <= Len(rest) /\ rest[i] \in DOMAIN Assigned \cup RunSwitches -> walk[i + 1]
    [] OTHER -> IF rest[i] \in RunValued THEN walk[i + 2] ELSE NoWord

Walks(rest, walk, i) == walk = [k \in i..Len(rest) + 2 |-> ImageAt(rest, walk, k)]

\* There is one, from the end of the words back to any position.
LEMMA WalkExists ==
  ASSUME NEW S, NEW rest \in Seq(S) PROVE \E walk : Walks(rest, walk, 1)
<1> DEFINE n == Len(rest)
           P == {m \in Nat : \E walk : Walks(rest, walk, (n + 3) - m)}
<1>n. n \in Nat
  OBVIOUS
<1>1. 0 \in P
  <2> DEFINE walk == [k \in n + 3..n + 2 |-> NoWord]
  <2>1. walk = [k \in n + 3..n + 2 |-> ImageAt(rest, walk, k)]
    BY <1>n
  <2>2. Walks(rest, walk, (n + 3) - 0)
    BY <1>n, <2>1 DEF Walks
  <2> QED
    BY <2>2
<1>2. ASSUME NEW m \in 0..n + 1, m \in P PROVE m + 1 \in P
  <2> DEFINE i == (n + 3) - m
             j == (n + 3) - (m + 1)
  <2>1. PICK old : Walks(rest, old, i)
    BY <1>2
  <2>2. i \in 2..n + 3 /\ j = i - 1 /\ j \in 1..n + 2
    BY <1>n, <1>2
  <2> HIDE DEF i, j, n
  <2> DEFINE walk == [k \in j..n + 2 |-> IF k = j THEN ImageAt(rest, old, j) ELSE old[k]]
  <2>3. \A k \in i..n + 2 : walk[k] = old[k] /\ old[k] = ImageAt(rest, old, k)
    <3>1. old = [k \in i..n + 2 |-> ImageAt(rest, old, k)]
      BY <2>1 DEF Walks, n
    <3>2. \A k \in i..n + 2 : old[k] = ImageAt(rest, old, k)
      BY Zenon, <3>1
    <3>3. \A k \in i..n + 2 : k \in j..n + 2 /\ k # j
      BY <1>n, <2>2
    <3> QED
      BY <3>2, <3>3
  <2>4. ASSUME NEW k \in j..n + 2 PROVE ImageAt(rest, walk, k) = ImageAt(rest, old, k)
    <3>1. k <= n => k + 1 \in i..n + 2 /\ k + 2 \in i..n + 2
      BY <1>n, <2>2
    <3>2. k <= n => walk[k + 1] = old[k + 1] /\ walk[k + 2] = old[k + 2]
      BY <2>3, <3>1
    <3> HIDE DEF walk
    <3>3. CASE k <= n
      BY <3>2, <3>3, <1>n DEF ImageAt, n
    <3>4. CASE k > n
      BY <3>4, <1>n, <2>2 DEF ImageAt, n
    <3> QED
      BY <3>3, <3>4, <1>n, <2>2
  <2>5. ASSUME NEW k \in j..n + 2 PROVE walk[k] = ImageAt(rest, old, k)
    <3>1. k = j \/ k \in i..n + 2
      BY <1>n, <2>2
    <3> QED
      BY <2>3, <3>1
  <2>6. walk = [k \in j..n + 2 |-> ImageAt(rest, walk, k)]
    <3>1. walk = [k \in j..n + 2 |-> walk[k]]
      OBVIOUS
    <3> HIDE DEF walk
    <3> QED
      BY <2>4, <2>5, <3>1
  <2> HIDE DEF walk
  <2>7. Walks(rest, walk, j)
    BY <2>6 DEF Walks, n
  <2> QED
    BY <1>2, <2>7 DEF j
<1>3. 0..n + 2 \subseteq P
  <2> DEFINE N == n + 2
  <2>1. N \in Nat /\ N - 1 = n + 1
    BY <1>n
  <2>2. \A m \in 0..N - 1 : m \in P => m + 1 \in P
    <3> HIDE DEF P, N
    <3> QED
      BY <1>2, <2>1
  <2> HIDE DEF P, N
  <2>3. 0..N \subseteq P
    BY <1>1, <2>1, <2>2, BoundedInduction
  <2> USE DEF N
  <2> QED
    BY <2>3
<1>4. n + 2 \in P /\ (n + 3) - (n + 2) = 1
  <2> HIDE DEF P
  <2> QED
    BY <1>n, <1>3
<1> QED
  BY <1>4

\* Behind position i the walk's word is the first that is neither a flag nor
\* the value of one.
WordFrom(rest, i, word, valued) ==
  \E j \in i..Len(rest), options \in SUBSET (1..Len(rest)) :
    /\ word = rest[j] /\ rest[j] \notin Flags
    /\ options \subseteq i..j - 1
    /\ \A k \in i..j - 1 : k \in options <=> ~(k - 1 \in options /\ rest[k - 1] \in valued)
    /\ \A k \in options : rest[k] \in Flags
    /\ ~(j - 1 \in options /\ rest[j - 1] \in valued)

\* Another flag before it changes nothing.
LEMMA FlagBefore ==
  ASSUME NEW S, NEW rest \in Seq(S), NEW valued, NEW word,
         NEW i \in 1..Len(rest), NEW d \in 1..2,
         rest[i] \in Flags, d = 2 <=> rest[i] \in valued,
         WordFrom(rest, i + d, word, valued)
  PROVE  WordFrom(rest, i, word, valued)
<1>n. Len(rest) \in Nat
  OBVIOUS
<1>1. PICK j \in i + d..Len(rest), options \in SUBSET (1..Len(rest)) :
        /\ word = rest[j] /\ rest[j] \notin Flags
        /\ options \subseteq i + d..j - 1
        /\ \A k \in i + d..j - 1 : k \in options <=> ~(k - 1 \in options /\ rest[k - 1] \in valued)
        /\ \A k \in options : rest[k] \in Flags
        /\ ~(j - 1 \in options /\ rest[j - 1] \in valued)
  BY DEF WordFrom
<1> DEFINE more == options \cup {i}
<1>2. more \in SUBSET (1..Len(rest)) /\ more \subseteq i..j - 1 /\ j \in i..Len(rest)
  BY <1>n, <1>1
<1>3. \A k \in more : rest[k] \in Flags
  BY <1>1
<1>4. ASSUME NEW k \in Int, k > i PROVE k - 1 \in more <=> k - 1 = i \/ k - 1 \in options
  BY <1>4
<1>5. ASSUME NEW k \in i..j - 1
      PROVE  k \in more <=> ~(k - 1 \in more /\ rest[k - 1] \in valued)
  <2>1. CASE k = i
    <3>1. i - 1 \notin more
      BY <1>1
    <3> QED
      BY <2>1, <3>1
  <2>2. CASE k = i + 1 /\ d = 2
    BY <1>1, <2>2
  <2>3. CASE k \in i + d..j - 1
    <3>1. k > i /\ (k \in more <=> k \in options)
      BY <2>3
    <3>2. k - 1 \in more /\ rest[k - 1] \in valued <=> k - 1 \in options /\ rest[k - 1] \in valued
      <4>1. k - 1 = i => d = 1
        BY <2>3
      <4> QED
        BY <1>4, <3>1, <4>1
    <3> QED
      BY <1>1, <2>3, <3>1, <3>2
  <2> QED
    BY <1>1, <2>1, <2>2, <2>3
<1>6. ~(j - 1 \in more /\ rest[j - 1] \in valued)
  <2>1. j > i /\ j \in Int /\ (j - 1 = i => d = 1)
    BY <1>1
  <2> QED
    BY <1>1, <1>4, <2>1
<1> HIDE DEF more
<1> QED
  BY <1>1, <1>2, <1>3, <1>5, <1>6 DEF WordFrom

\* Whichever flags the classifier does not know take a value, the walk finds
\* no word or the first that is neither a flag nor the value of one.
LEMMA WalkFinds ==
  ASSUME NEW S, NEW rest \in Seq(S), NEW walk, Walks(rest, walk, 1),
         NEW valued, RunValued \subseteq valued,
         valued \cap (DOMAIN Assigned \cup RunSwitches) = {}
  PROVE  walk[1] = NoWord \/ WordFrom(rest, 1, walk[1], valued)
<1> DEFINE n == Len(rest)
           Finds(i) == walk[i] = NoWord \/ WordFrom(rest, i, walk[i], valued)
           P == {m \in Nat : \A i \in 1..n + 2 : i >= (n + 2) - m => Finds(i)}
<1>n. n \in Nat
  OBVIOUS
<1>w. \A i \in 1..n + 2 : walk[i] = ImageAt(rest, walk, i)
  BY <1>n DEF Walks
<1>1. \A i \in n + 1..n + 2 : Finds(i)
  <2> SUFFICES ASSUME NEW i \in n + 1..n + 2 PROVE Finds(i)
    OBVIOUS
  <2>1. i \in 1..n + 2 /\ i > Len(rest) /\ ~(i <= Len(rest))
    BY <1>n
  <2> QED
    BY <1>w, <2>1 DEF ImageAt
<1>2. ASSUME NEW i \in 1..n, Finds(i + 1), Finds(i + 2) PROVE Finds(i)
  <2> USE <1>n
  <2>0. i \in 1..n + 2 /\ i <= Len(rest) /\ ~(i > Len(rest))
    OBVIOUS
  <2>1. walk[i] = ImageAt(rest, walk, i)
    BY <1>w, <2>0
  <2>2. CASE rest[i] \notin Flags
    <3>1. walk[i] = rest[i]
      <4>1. rest[i] \notin DOMAIN Assigned \cup RunSwitches
        BY <2>2, TerminalAssumption
      <4> QED
        BY <2>0, <2>1, <2>2, <4>1 DEF ImageAt
    <3>2. {} \in SUBSET (1..Len(rest)) /\ i \in i..Len(rest) /\ i..i - 1 = {}
      OBVIOUS
    <3> QED
      BY <2>2, <3>1, <3>2 DEF WordFrom
  <2>3. CASE rest[i] \in DOMAIN Assigned \cup RunSwitches
    <3>1. rest[i] \in Flags /\ rest[i] \notin valued
      BY <2>3, TerminalAssumption
    <3>2. walk[i] = walk[i + 1]
      BY <2>0, <2>1, <2>3, <3>1 DEF ImageAt
    <3> DEFINE d == 1
    <3>d. d \in 1..2 /\ (d = 2 <=> rest[i] \in valued)
      BY <3>1
    <3> HIDE DEF n, d
    <3>f. i \in 1..Len(rest)
      BY <2>0
    <3>e. WordFrom(rest, i + d, walk[i], valued) => WordFrom(rest, i, walk[i], valued)
      BY <3>1, <3>d, <3>f, FlagBefore
    <3>3. WordFrom(rest, i + 1, walk[i], valued) => WordFrom(rest, i, walk[i], valued)
      BY <3>e DEF d
    <3> QED
      BY <1>2, <3>2, <3>3
  <2>4. CASE rest[i] \in RunValued
    <3>1. rest[i] \in Flags /\ rest[i] \in valued /\ rest[i] \notin DOMAIN Assigned \cup RunSwitches
      BY <2>4, TerminalAssumption
    <3>2. walk[i] = walk[i + 2]
      BY <2>0, <2>1, <2>4, <3>1 DEF ImageAt
    <3> HIDE DEF n
    <3>3. WordFrom(rest, i + 2, walk[i], valued) => WordFrom(rest, i, walk[i], valued)
      BY <3>1, FlagBefore DEF n
    <3> QED
      BY <1>2, <3>2, <3>3
  <2>5. CASE rest[i] \in Flags /\ rest[i] \notin DOMAIN Assigned \cup RunSwitches /\ rest[i] \notin RunValued
    BY <2>0, <2>1, <2>5 DEF ImageAt
  <2> QED
    BY <2>2, <2>3, <2>4, <2>5
<1>3. 1 \in P
  <2>1. \A i \in 1..n + 2 : i >= (n + 2) - 1 => i \in n + 1..n + 2
    BY <1>n
  <2> HIDE DEF Finds
  <2> QED
    BY <1>1, <2>1
<1>4. 0 \in P
  <2>1. \A i \in 1..n + 2 : i >= (n + 2) - 0 => i \in n + 1..n + 2
    BY <1>n
  <2> HIDE DEF Finds
  <2> QED
    BY <1>1, <2>1
<1>5. \A m \in Nat : m \in P => m + 1 \in P
  <2> SUFFICES ASSUME NEW m \in Nat, m \in P, NEW i \in 1..n + 2, i >= (n + 2) - (m + 1) PROVE Finds(i)
    <3> HIDE DEF Finds, n
    <3> QED
      OBVIOUS
  <2> HIDE DEF Finds
  <2>1. CASE i >= n + 1
    BY <1>1, <1>n, <2>1
  <2>2. CASE i <= n /\ m >= 1
    <3>1. \A k \in 1..n + 2 : k >= (n + 2) - m => Finds(k)
      OBVIOUS
    <3>2. i \in 1..n /\ i + 1 \in 1..n + 2 /\ i + 2 \in 1..n + 2 /\ i + 1 >= (n + 2) - m /\ i + 2 >= (n + 2) - m
      BY <1>n, <2>2
    <3> HIDE DEF P
    <3> QED
      BY <1>2, <3>1, <3>2
  <2>3. CASE i <= n /\ m = 0
    BY <1>n, <2>3
  <2> QED
    BY <1>n, <2>1, <2>2, <2>3
<1>6. n + 2 \in P
  <2> HIDE DEF P, n
  <2> QED
    BY <1>n, <1>4, <1>5, Induction
<1>7. 1 \in 1..n + 2 /\ 1 >= (n + 2) - (n + 2)
  BY <1>n
<1> HIDE DEF Finds
<1>8. Finds(1)
  BY <1>6, <1>7
<1> QED
  BY <1>8 DEF Finds

LEMMA ImageIsFirst ==
  ASSUME NEW S, NEW rest \in Seq(S), NEW valued, RunValued \subseteq valued,
         valued \cap (DOMAIN Assigned \cup RunSwitches) = {},
         RunImage(rest) # NoWord
  PROVE  WordFrom(rest, 1, RunImage(rest), valued)
<1> DEFINE walk == CHOOSE w : Walks(rest, w, 1)
<1>1. Walks(rest, walk, 1)
  BY WalkExists
<1>2. RunImage(rest) = walk[1]
  BY DEF RunImage, Walks, ImageAt
<1> HIDE DEF walk
<1> QED
  BY <1>1, <1>2, WalkFinds

\* What runs an image is none of the other classifiers'.
LEMMA DockerRunDecides ==
  ASSUME NEW S, NEW tokens \in Seq(S), IsPrefix(<<"docker", "run">>, tokens)
  PROVE  ClassifyProgram(tokens) = ChargeImage("execute", RunImage(From(tokens, 3)))
<1> DEFINE charged == ChargeImage("execute", RunImage(From(tokens, 3)))
<1>1. Len(tokens) >= 2 /\ tokens[1] = "docker" /\ tokens[2] = "run" /\ tokens # <<>>
  BY DEF IsPrefix
<1>2. ReadSecret(tokens) = NoAnswer /\ PlainGit(tokens) = NoAnswer /\ ShellDelete(tokens) = NoAnswer
  BY <1>1 DEF ReadSecret, PlainGit, ShellDelete
<1>3. Docker(tokens) = charged
  BY <1>1 DEF Docker
<1>4. charged # NoAnswer
  BY DEF ChargeImage, Charged, Mapped, Refused, NoAnswer
<1> DEFINE answers == <<ReadSecret(tokens), PlainGit(tokens), ShellDelete(tokens), Docker(tokens), Gh(tokens),
                        Npm(tokens), Ci(tokens), Platform(tokens), Deploy(tokens)>>
           given == {i \in 1..Len(answers) : answers[i] # NoAnswer}
<1>5. Len(answers) = 9 /\ answers[1] = NoAnswer /\ answers[2] = NoAnswer /\ answers[3] = NoAnswer
      /\ answers[4] = charged
  BY <1>2, <1>3
<1>6. given \in SUBSET (1..9) /\ 4 \in given /\ 1 \notin given /\ 2 \notin given /\ 3 \notin given
  <2> HIDE DEF answers, charged
  <2> QED
    BY <1>4, <1>5
<1>7. Min(given) = 4
  <2> HIDE DEF given
  <2>1. 9 \in Nat /\ given # {}
    BY <1>6
  <2>2. Min(given) \in given /\ \A y \in given : Min(given) <= y
    BY <1>6, <2>1, MinInPositions
  <2>3. \A x \in 1..9 : x <= 4 => x \in {1, 2, 3, 4}
    OBVIOUS
  <2> QED
    BY <1>6, <2>2, <2>3
<1>8. ClassifyProgram(tokens) = answers[4]
  <2>1. SelectInSeq(answers, LAMBDA a : a # NoAnswer) = IF given # {} THEN Min(given) ELSE 0
    BY Zenon DEF SelectInSeq
  <2> HIDE DEF given
  <2>2. SelectInSeq(answers, LAMBDA a : a # NoAnswer) = 4
    BY <1>6, <1>7, <2>1
  <2> QED
    BY <1>1, <2>2 DEF ClassifyProgram
<1> QED
  BY <1>5, <1>7, <1>8

-----------------------------------------------------------------------------
(* The steps. *)

\* What git's classifiers can say.
LEMMA GitOutcomes ==
  ASSUME NEW S, NEW words \in Seq(S)
  PROVE  \/ StaticGit(words) \in {NoAnswer, UnsafeShell, Refused("parse_unsafe")}
         \/ StaticGit(words).kind = "mapped"
<1>1. ASSUME NEW tokens
      PROVE  \/ GitPush(tokens) \in {UnsafeShell, Refused("parse_unsafe")}
             \/ GitPush(tokens).kind = "mapped"
  BY DEF GitPush, ShellGit, Mapped
<1>2. ASSUME NEW tokens
      PROVE  \/ ClassifyGit(tokens) \in {NoAnswer, UnsafeShell, Refused("parse_unsafe")}
             \/ ClassifyGit(tokens).kind = "mapped"
  BY <1>1 DEF ClassifyGit, ShellGit, Mapped
<1> QED
  BY <1>2 DEF StaticGit

\* The command's words, once the mandatory checks have found nothing in them.
Examined ==
  /\ command # NoCommand
  /\ Readable
  /\ ~RunsText(command.words)
  /\ git = StaticGit(command.words)

Unsettled == Examined /\ ~Final(git) /\ ~(command.commented /\ git = NoAnswer)

Outcome ==
  \/ answer = UnsafeShell /\ ~LeftToRules(command)
  \/ command.control = "pipe" /\ answer.primary[1] = "execute"
  \/ command.control = "none" /\ ~command.static /\ answer = WithoutWords(command)
  \/ Readable /\ answer = StaticGit(command.words) /\ answer.primary[1] = "delete" /\ Final(answer)
  \/ /\ LeftToRules(command)
     /\ IF rule # NoPair THEN answer = Mapped(rule, <<>>)
        ELSE answer = IF StaticGit(command.words) # NoAnswer
                        THEN StaticGit(command.words) ELSE ResolveTerminal(command)

Inv ==
  /\ command # NoCommand => IsCommand(command)
  /\ phase \in {"idle", "control", "words", "git", "rules", "done"}
  /\ phase \in {"idle", "control", "words"} => git = NoAnswer
  /\ phase = "words" => command # NoCommand /\ command.control = "none"
  /\ phase = "git" => Examined
  /\ phase = "rules" /\ command # NoCommand => Unsettled
  /\ phase = "done" /\ command # NoCommand => Outcome

\* What is unsettled is left to the rules, and nothing else is.
LEMMA UnsettledIsLeft ==
  ASSUME IsCommand(command), Examined
  PROVE  Unsettled <=> LeftToRules(command)
<1>1. command.words \in Seq(ToSet(command.words))
  BY DEF IsCommand
<1>2. \/ git \in {NoAnswer, UnsafeShell, Refused("parse_unsafe")}
      \/ git.kind = "mapped"
  BY <1>1, GitOutcomes DEF Examined
<1>3. git = NoAnswer <=> ToSet(command.words) \cap NamedGit = {}
  BY <1>1, NoAnswerMeansNoGit DEF Examined
<1>4. CASE git = NoAnswer
  <2>1. ~Final(git)
    BY <1>4 DEF Final, NoAnswer
  <2>2. git.kind # "mapped" /\ git # Refused("parse_unsafe")
    BY <1>4 DEF NoAnswer, Refused
  <2> QED
    BY <1>3, <1>4, <2>1, <2>2 DEF Unsettled, LeftToRules, Examined, Readable
<1>5. CASE git = UnsafeShell
  <2>1. Final(git) /\ git.kind # "mapped" /\ git # Refused("parse_unsafe") /\ git # NoAnswer
    BY <1>5 DEF Final, NoAnswer, Refused, UnsafeShell, Unmapped
  <2> QED
    BY <1>3, <2>1 DEF Unsettled, LeftToRules, Examined
<1>6. CASE git = Refused("parse_unsafe")
  <2>1. ~Final(git) /\ git # NoAnswer
    BY <1>6 DEF Final, NoAnswer, Refused
  <2> QED
    BY <1>6, <2>1 DEF Unsettled, LeftToRules, Examined, Readable
<1>7. CASE git.kind = "mapped"
  <2>1. git # NoAnswer /\ git # Refused("parse_unsafe")
    BY <1>7 DEF NoAnswer, Refused
  <2>2. Final(git) <=> git.primary[1] = "delete"
    BY <1>7 DEF Final
  <2> QED
    BY <1>3, <1>7, <2>1, <2>2 DEF Unsettled, LeftToRules, Examined, Readable
<1> QED
  BY <1>2, <1>4, <1>5, <1>6, <1>7

LEMMA InvInit == TerminalInit => Inv
BY DEF TerminalInit, Inv

LEMMA InvNext == Inv /\ [TerminalNext]_terminalVars => Inv'
<1> SUFFICES ASSUME Inv, [TerminalNext]_terminalVars PROVE Inv'
  OBVIOUS
<1>t. command # NoCommand => IsCommand(command)
  BY DEF Inv
<1>0. CASE ReceiveAny
  BY <1>0 DEF ReceiveAny, Receive, Inv
<1>1. CASE SkipMissing
  BY <1>1 DEF SkipMissing, Proceed, Inv
<1>2. CASE CheckControl
  <2>1. ~LeftToRules(command) /\ phase' = "done" /\ UNCHANGED <<command, rule, git>>
    BY <1>2 DEF CheckControl, Answer, LeftToRules
  <2>2. \/ answer' = UnsafeShell
        \/ command.control = "pipe" /\ answer'.primary[1] = "execute"
    BY <1>2 DEF CheckControl, Answer, Mapped
  <2>3. Outcome'
    BY <2>1, <2>2 DEF Outcome, LeftToRules
  <2> QED
    BY <2>1, <2>3 DEF Inv
<1>3. CASE PassControl
  BY <1>3 DEF PassControl, Proceed, Inv
<1>4. CASE CheckWords
  <2>1. /\ phase' = "done" /\ UNCHANGED <<command, rule, git>>
        /\ answer' = WithoutWords(command)
        /\ command.control = "none" /\ ~command.static
    BY <1>4 DEF CheckWords, Answer, Inv
  <2>2. Outcome'
    BY <2>1 DEF Outcome
  <2> QED
    BY <2>1, <2>2 DEF Inv
<1>5. CASE CheckReinterpreter
  <2>1. /\ phase' = "done" /\ UNCHANGED <<command, rule, git>>
        /\ answer' = UnsafeShell /\ ~LeftToRules(command)
    BY <1>5 DEF CheckReinterpreter, Answer, LeftToRules
  <2>2. Outcome'
    BY <2>1 DEF Outcome
  <2> QED
    BY <2>1, <2>2 DEF Inv
<1>6. CASE ResolveGit
  <2>1. phase' = "git" /\ UNCHANGED <<command, rule, answer>>
    BY <1>6 DEF ResolveGit, Proceed
  <2>2. Examined'
    BY <1>6, <2>1 DEF ResolveGit, Examined, Readable, Inv
  <2> QED
    BY <2>1, <2>2 DEF Inv
<1>7. CASE CheckComment
  <2>1. Examined /\ command # NoCommand /\ ~Unsettled
    BY <1>7 DEF CheckComment, Inv, Examined, Unsettled
  <2>2. ~LeftToRules(command)
    BY <1>t, <2>1, UnsettledIsLeft
  <2>3. phase' = "done" /\ UNCHANGED <<command, rule, git>> /\ answer' = UnsafeShell
    BY <1>7 DEF CheckComment, Answer
  <2>4. Outcome'
    BY <2>2, <2>3 DEF Outcome
  <2> QED
    BY <2>3, <2>4 DEF Inv
<1>8. CASE KeepGit
  <2>1. Examined /\ Final(git) /\ ~Unsettled /\ IsCommand(command)
    BY <1>t, <1>8 DEF KeepGit, Inv, Examined, Unsettled
  <2>2. ~LeftToRules(command)
    BY <2>1, UnsettledIsLeft
  <2>3. phase' = "done" /\ UNCHANGED <<command, rule, git>> /\ answer' = git
    BY <1>8 DEF KeepGit, Answer
  <2>4. git = UnsafeShell \/ git.primary[1] = "delete"
    <3>1. command.words \in Seq(ToSet(command.words))
      BY <2>1 DEF IsCommand
    <3>2. \/ git \in {NoAnswer, UnsafeShell, Refused("parse_unsafe")}
          \/ git.kind = "mapped"
      BY <2>1, <3>1, GitOutcomes DEF Examined
    <3> QED
      BY <2>1, <3>2 DEF Final, NoAnswer, Refused
  <2>5. Outcome'
    BY <2>1, <2>2, <2>3, <2>4 DEF Outcome, Examined, Readable
  <2> QED
    BY <2>3, <2>5 DEF Inv
<1>9. CASE PassGit
  <2>1. Unsettled /\ phase' = "rules" /\ UNCHANGED <<command, rule, answer, git>>
    BY <1>9 DEF PassGit, Proceed, Inv, Unsettled
  <2> QED
    BY <2>1 DEF Inv, Unsettled, Examined, Readable
<1>10. CASE UseRule \/ UseClassifier
  <2>1. phase' = "done" /\ UNCHANGED <<command, rule, git>> /\ phase = "rules"
    BY <1>10 DEF UseRule, UseClassifier, Answer
  <2>2. rule # NoPair => answer' = Mapped(rule, <<>>)
    BY <1>10 DEF UseRule, UseClassifier, Answer
  <2>3. command # NoCommand => LeftToRules(command)
    <3>1. command # NoCommand => Unsettled
      BY <2>1 DEF Inv
    <3> QED
      BY <1>t, <3>1, UnsettledIsLeft DEF Unsettled
  <2>4. command # NoCommand => git = StaticGit(command.words)
    BY <2>1 DEF Inv, Unsettled, Examined
  <2>5. rule = NoPair => answer' = IF git # NoAnswer THEN git ELSE ResolveTerminal(command)
    BY <1>10 DEF UseRule, UseClassifier, Answer
  <2>6. command # NoCommand => Outcome'
    BY <2>1, <2>2, <2>3, <2>4, <2>5 DEF Outcome
  <2> QED
    BY <2>1, <2>6 DEF Inv
<1>11. CASE UNCHANGED terminalVars
  BY <1>11 DEF terminalVars, Inv, Outcome, Unsettled, Examined, Readable
<1> QED
  BY <1>0, <1>1, <1>2, <1>3, <1>4, <1>5, <1>6, <1>7, <1>8, <1>9, <1>10, <1>11 DEF TerminalNext, Resolve

LEMMA Invariant == TerminalSpec => []Inv
BY InvInit, InvNext, PTL DEF TerminalSpec

-----------------------------------------------------------------------------
(* The results. *)

\* No rule, prefix, wrapper or order of arguments makes a force, delete,
\* mirror or prune push less than a deletion, whatever the line.
THEOREM DestructivePush == TerminalSpec => []DestructivePushStays
<1>1. Inv => DestructivePushStays
  <2> SUFFICES ASSUME Inv, Done, Readable, answer.kind = "mapped",
                      NEW i \in DOMAIN command.words, NEW j \in DOMAIN command.words,
                      NEW k \in DOMAIN command.words,
                      i < j, j < k, PushAt(command.words, i, j), command.words[k] \in Destructive
               PROVE  answer.primary[1] = "delete" /\ IsGitResource(answer.primary[2])
    BY DEF DestructivePushStays
  <2>1. command.words \in Seq(ToSet(command.words)) /\ IsCommand(command)
    BY DEF Inv, Done, IsCommand
  <2>2. StaticGit(command.words) = UnsafeShell \/ IsDeletion(StaticGit(command.words))
    BY <2>1, DestructiveWords
  <2>3. command.words[i] \in NamedGit
    BY DEF PushAt
  <2>4. ToSet(command.words) \cap NamedGit # {}
    BY <2>1, <2>3 DEF ToSet
  <2>5. ~LeftToRules(command)
    BY <2>2, <2>4 DEF LeftToRules, IsDeletion, UnsafeShell, Unmapped, Refused
  <2>6. Outcome /\ answer # UnsafeShell
    BY DEF Inv, Done, UnsafeShell, Unmapped
  <2>7. answer = StaticGit(command.words)
    BY <2>5, <2>6 DEF Outcome, Readable
  <2> QED
    BY <2>2, <2>6, <2>7 DEF IsDeletion
<1> QED
  BY <1>1, Invariant, PTL

\* A push no rule decides is charged with what its first argument names, or
\* as a deletion, or not mapped.
THEOREM PushCharged == TerminalSpec => []PushIsCharged
<1>1. Inv => PushIsCharged
  <2> SUFFICES ASSUME Inv, Done, Readable, rule = NoPair, answer.kind = "mapped",
                      NEW i \in DOMAIN command.words, NEW j \in DOMAIN command.words,
                      i < j, PushAt(command.words, i, j)
               PROVE  ChargesTarget(command.words, j, answer)
    BY DEF PushIsCharged, ChargesTarget
  <2>1. command.words \in Seq(ToSet(command.words)) /\ IsCommand(command)
    BY DEF Inv, Done, IsCommand
  <2>2. ToSet(command.words) \cap NamedGit # {}
    BY DEF PushAt, ToSet
  <2>3. StaticGit(command.words) # NoAnswer
    BY <2>1, <2>2, NoAnswerMeansNoGit
  <2>4. Outcome /\ answer # UnsafeShell
    BY DEF Inv, Done, UnsafeShell, Unmapped
  <2>5. answer = StaticGit(command.words)
    BY <2>3, <2>4 DEF Outcome, Readable
  <2> QED
    BY <2>1, <2>5, ChargedWords
<1> QED
  BY <1>1, Invariant, PTL

\* A matching rule decides a command exactly if the mandatory checks leave it
\* to the rules.
THEOREM RuleBoundary == TerminalSpec => []RuleDecidesTheRest
<1>1. Inv => RuleDecidesTheRest
  <2> SUFFICES ASSUME Inv, Done, rule # NoPair PROVE RuleDecidesTheRest
    BY DEF RuleDecidesTheRest
  <2>1. Outcome
    BY DEF Inv, Done
  <2>2. IsCommand(command)
    BY TerminalAssumption DEF Inv, Done
  <2>3. CASE LeftToRules(command)
    <3>1. StaticGit(command.words) = answer /\ answer.primary[1] = "delete" /\ Final(answer) => FALSE
      <4> SUFFICES ASSUME StaticGit(command.words) = answer, answer.primary[1] = "delete", Final(answer)
                   PROVE  FALSE
        OBVIOUS
      <4>1. command.words \in Seq(ToSet(command.words))
        BY <2>2 DEF IsCommand
      <4>2. answer.kind # "none"
        BY DEF Final
      <4>3. StaticGit(command.words) # NoAnswer
        BY <4>2 DEF NoAnswer
      <4> QED
        BY <2>3, <4>1, <4>3, NoAnswerMeansNoGit DEF LeftToRules, Final, Refused
    <3>2. answer = Mapped(rule, <<>>)
      BY <2>1, <2>3, <3>1 DEF Outcome, LeftToRules
    <3> QED
      BY <2>3, <3>2 DEF RuleDecidesTheRest
  <2>4. CASE ~LeftToRules(command)
    BY <2>1, <2>4 DEF Outcome, RuleDecidesTheRest
  <2> QED
    BY <2>3, <2>4
<1> QED
  BY <1>1, Invariant, PTL

\* A command whose words are not known is never charged as a local git
\* operation or one of GitHub.
THEOREM WordsNeeded == TerminalSpec => []GitNeedsWords
<1>1. Inv => GitNeedsWords
  <2> SUFFICES ASSUME Inv, Done, command.control = "none", ~command.static, answer.kind = "mapped"
               PROVE  ~IsGitResource(answer.primary[2])
    BY DEF GitNeedsWords
  <2>1. answer = WithoutWords(command)
    BY DEF Inv, Done, Outcome, Readable, LeftToRules, UnsafeShell, Unmapped
  <2> QED
    BY <2>1 DEF WithoutWords, UnsafeShell, Unmapped
<1> QED
  BY <1>1, Invariant, PTL

\* docker run is charged with the image of the words docker gets, behind any
\* number of flags and whichever of the unknown ones take a value.
THEOREM ImageRuns == TerminalSpec => []ImageIsUnambiguous
<1>1. Inv => ImageIsUnambiguous
  <2> DEFINE rest == From(command.words, 3)
             unknown == (ToSet(rest) \cap Flags) \ (RunSwitches \cup RunValued \cup DOMAIN Assigned)
  <2> SUFFICES ASSUME Inv, Done, rule = NoPair, Readable, command.tokens = command.words,
                      answer.kind = "mapped", IsPrefix(<<"docker", "run">>, command.words),
                      NEW some \in SUBSET unknown
               PROVE  \E j \in DOMAIN rest :
                        /\ FirstWordAt(rest, j, RunValued \cup some)
                        /\ answer.primary = <<"execute", <<"container">> \o ImageResource[rest[j]]>>
    BY DEF ImageIsUnambiguous
  <2> DEFINE valued == RunValued \cup some
  <2>1. command.words \in Seq(ToSet(command.words)) /\ command.tokens \in Seq(ToSet(command.tokens))
    BY DEF Inv, Done, IsCommand
  <2>2. command.tokens[1] = "docker"
    BY <2>1 DEF IsPrefix
  <2>3. StaticGit(command.words) \in {NoAnswer, UnsafeShell}
    <3> DEFINE words == command.words
    <3>1. CASE Len(words) = 0
      BY <3>1 DEF StaticGit
    <3>2. CASE Len(words) > 0
      <4>1. words[1] = "docker"
        BY <2>1, <2>2, <3>2
      <4>2. GitIndex(words) \in 1..Len(words) + 1
            /\ \A k \in 1..GitIndex(words) - 1 : words[k] \in {"!"} \cup Wrappers
        BY <2>1, <3>2, GitIndexFound
      <4>3. words[1] \notin {"!"} \cup Wrappers
        BY <4>1 DEF Wrappers
      <4>4. GitIndex(words) = 1
        BY <2>1, <3>2, <4>2, <4>3
      <4>5. ~StartsWithGit(words)
        BY <4>1, <4>4, TerminalAssumption DEF StartsWithGit
      <4> QED
        BY <3>2, <4>5 DEF StaticGit
    <3> QED
      BY <2>1, <3>1, <3>2
  <2>4. answer = ResolveTerminal(command)
    <3>1. Outcome /\ answer # UnsafeShell /\ answer # NoAnswer
      BY DEF Inv, Done, UnsafeShell, Unmapped, NoAnswer
    <3>2. answer = WithoutWords(command) => answer = ResolveTerminal(command)
      BY <3>1 DEF WithoutWords
    <3> QED
      BY <2>3, <3>1, <3>2 DEF Outcome, Readable
  <2>5. answer = ChargeImage("execute", RunImage(rest))
    BY <2>1, <2>4, DockerRunDecides DEF ResolveTerminal, Done
  <2>6. RunImage(rest) \in DOMAIN ImageResource /\ RunImage(rest) # NoWord
        /\ answer.primary = <<"execute", <<"container">> \o ImageResource[RunImage(rest)]>>
    BY <2>5, TerminalAssumption DEF ChargeImage, Refused, Charged, Mapped
  <2>7. rest \in Seq(ToSet(command.tokens))
    BY <2>1 DEF From
  <2>8. RunValued \subseteq valued /\ valued \cap (DOMAIN Assigned \cup RunSwitches) = {}
    BY TerminalAssumption
  <2> HIDE DEF rest, valued
  <2>9. WordFrom(rest, 1, RunImage(rest), valued)
    BY <2>6, <2>7, <2>8, ImageIsFirst
  <2>10. PICK j \in 1..Len(rest), options \in SUBSET (1..Len(rest)) :
           /\ RunImage(rest) = rest[j] /\ rest[j] \notin Flags
           /\ options \subseteq 1..j - 1
           /\ \A k \in 1..j - 1 : k \in options <=> ~(k - 1 \in options /\ rest[k - 1] \in valued)
           /\ \A k \in options : rest[k] \in Flags
           /\ ~(j - 1 \in options /\ rest[j - 1] \in valued)
    BY <2>9 DEF WordFrom
  <2>11. FirstWordAt(rest, j, valued) /\ j \in DOMAIN rest
    BY <2>7, <2>10 DEF FirstWordAt
  <2> QED
    BY <2>6, <2>10, <2>11 DEF valued
<1> QED
  BY <1>1, Invariant, PTL

-----------------------------------------------------------------------------
(* Types: whatever the words and the tokens of a command are, its answer   *)
(* is one the boundary can act on.                                         *)

Actions == {"read", "write", "execute", "deploy", "delete", "send"}

AnswerType == Results \cup {NoAnswer}

\* Short sequences of words.
LEMMA ShortSequences ==
  ASSUME NEW a \in Words, NEW b \in Words, NEW c \in Words
  PROVE  /\ <<a>> \in Seq(Words) \ {<<>>}
         /\ <<a, b>> \in Seq(Words) \ {<<>>}
         /\ <<a, b, c>> \in Seq(Words) \ {<<>>}
OBVIOUS

\* Pairs are sequences of two.
LEMMA PairIsSequence ==
  ASSUME NEW pair \in Words \X Words PROVE pair \in Seq(Words)
<1>1. pair = <<pair[1], pair[2]>> /\ pair[1] \in Words /\ pair[2] \in Words
  OBVIOUS
<1> QED
  BY Zenon, <1>1, ShortSequences

\* One effect, with a resource that names something.
LEMMA ChargedType ==
  ASSUME NEW action \in Actions, NEW resource \in Seq(Words) \ {<<>>}
  PROVE  Charged(action, resource) \in Results
<1>1. <<action, resource>> \in Pairs
  BY DEF Pairs, Actions
<1>2. <<>> \in Seq(Pairs)
  OBVIOUS
<1> HIDE DEF Pairs
<1> QED
  BY <1>1, <1>2 DEF Charged, Mapped, Results, MappingResults, Reasons

\* None, for a reason.
LEMMA RefusalTypes ==
  ASSUME NEW reason \in Reasons
  PROVE  Unmapped(reason) \in Results /\ Refused(reason) \in Results
<1>1. NoPair \in Pairs \cup {NoPair} /\ <<>> \in Seq(Pairs)
  BY DEF NoPair
<1> HIDE DEF Pairs
<1> QED
  BY <1>1 DEF Unmapped, Refused, Results, MappingResults

\* The ways in which an answer says no.
LEMMA NoTypes ==
  /\ UnsafeShell \in Results
  /\ Refused("parse_unsafe") \in Results
  /\ Refused("malformed_payload") \in Results
  /\ Unmapped(NoReason) \in Results
BY RefusalTypes DEF UnsafeShell, Reasons, NoReason

\* A resource under a fixed root.
LEMMA RootedType ==
  ASSUME NEW root \in Words, NEW names \in Seq(Words)
  PROVE  <<root>> \o names \in Seq(Words) \ {<<>>}
<1>1. <<root>> \in Seq(Words) /\ Len(<<root>>) = 1 /\ Len(names) \in Nat /\ Len(<<>>) = 0
  BY ShortSequences
<1>2. <<root>> \o names \in Seq(Words) /\ Len(<<root>> \o names) = 1 + Len(names)
  BY <1>1, ConcatProperties
<1> QED
  BY <1>1, <1>2

\* A repository of GitHub and what of it is meant.
LEMMA GithubType ==
  ASSUME NEW repo \in Words \X Words, NEW part \in Words
  PROVE  <<"github">> \o repo \o <<part>> \in Seq(Words) \ {<<>>}
<1> DEFINE named == <<"github">> \o repo
<1>1. /\ repo \in Seq(Words) /\ Len(repo) \in Nat /\ Len(<<>>) = 0
      /\ <<part>> \in Seq(Words) /\ Len(<<part>>) = 1
  BY PairIsSequence, ShortSequences
<1>2. named \in Seq(Words)
  BY <1>1, RootedType, ResourceAssumption
<1> HIDE DEF named
<1>3. named \o <<part>> \in Seq(Words) /\ Len(named \o <<part>>) = Len(named) + 1 /\ Len(named) \in Nat
  BY <1>1, <1>2, ConcatProperties
<1> QED
  BY <1>1, <1>3 DEF named

\* A local git operation.
LEMMA ShellGitType == ASSUME NEW action \in Actions PROVE ShellGit(action) \in Results
<1>1. <<"shell", "git">> \in Seq(Words) \ {<<>>}
  BY ShortSequences, ResourceAssumption
<1> QED
  BY <1>1, ChargedType DEF ShellGit, Charged

\* A push.
LEMMA GitPushType == ASSUME NEW tokens PROVE GitPush(tokens) \in Results
<1> DEFINE target == tokens[TargetIndex(tokens)]
           github == <<"github">> \o GithubRemote[target] \o <<"contents">>
<1>1. ASSUME target \in DOMAIN GithubRemote, NEW action \in {"delete", "write"}
      PROVE  Mapped(<<action, github>>, <<>>) \in Results
  <2>1. GithubRemote[target] \in Words \X Words /\ "contents" \in Words
    BY <1>1, TerminalAssumption, ResourceAssumption
  <2>2. github \in Seq(Words) \ {<<>>}
    BY <2>1, GithubType
  <2> HIDE DEF github
  <2> QED
    BY <2>2, ChargedType DEF Charged, Actions
<1>2. ShellGit("delete") \in Results
  BY ShellGitType DEF Actions
<1> HIDE DEF github
<1>3. GitPush(tokens) \in {UnsafeShell, ShellGit("delete"), Refused("parse_unsafe")}
      \/ /\ target \in DOMAIN GithubRemote
         /\ \E action \in {"delete", "write"} : GitPush(tokens) = Mapped(<<action, github>>, <<>>)
  BY DEF GitPush, github
<1> QED
  BY <1>1, <1>2, <1>3, NoTypes

\* A git command.
LEMMA ClassifyGitType ==
  ASSUME NEW tokens \in Seq(Words) PROVE ClassifyGit(tokens) \in AnswerType
<1>1. Branch(tokens) \in Words
  <2>1. /\ Len(tokens) \in Nat
        /\ Len(tokens) >= 4 => tokens[4] \in Words
        /\ Len(tokens) >= 3 => tokens[3] \in Words
    OBVIOUS
  <2>2. NoWord \in Words
    BY ResourceAssumption
  <2>3. \/ Len(tokens) >= 4 /\ Branch(tokens) = tokens[4]
        \/ Len(tokens) >= 3 /\ Branch(tokens) = tokens[3]
        \/ Branch(tokens) = NoWord
    BY DEF Branch
  <2> QED
    BY <2>1, <2>2, <2>3
<1>2. Mapped(<<"write", <<"repo", "branch", Branch(tokens)>>>>, <<>>) \in Results
  <2>1. <<"repo", "branch", Branch(tokens)>> \in Seq(Words) \ {<<>>}
    BY <1>1, ShortSequences, ResourceAssumption
  <2> QED
    BY <2>1, ChargedType DEF Charged, Actions
<1>3. ShellGit("read") \in Results /\ ShellGit("write") \in Results /\ ShellGit("delete") \in Results
  BY ShellGitType DEF Actions
<1>4. GitPush(tokens) \in Results
  BY GitPushType
<1> QED
  BY <1>2, <1>3, <1>4 DEF ClassifyGit, AnswerType

\* A line that may be git's.
LEMMA StaticGitType ==
  ASSUME NEW words \in Seq(Words) PROVE StaticGit(words) \in AnswerType
<1>1. CASE Len(words) > 0 /\ StartsWithGit(words) /\ HasSubcommand(words)
  <2>1. GitIndex(words) \in 1..Len(words) /\ Len(words) \in Nat
    BY <1>1, GitIndexFound DEF StartsWithGit
  <2>2. SubcommandIndex(words) \in 1..Len(words)
    <3>1. GitIndex(words) + 1 \in 1..Len(words) + 1
      BY <2>1
    <3>2. SubcommandIndex(words) \in GitIndex(words) + 1..Len(words) + 1
      BY <3>1, FirstOtherFound DEF SubcommandIndex
    <3> QED
      BY <1>1, <2>1, <3>2 DEF HasSubcommand
  <2>3. GitTokens(words) \in Seq(Words)
    <3>1. Words \cup {"git"} = Words
      BY ResourceAssumption
    <3>2. GitTokens(words) \in Seq(Words \cup {"git"})
      BY <2>2, TokensOfSubcommand
    <3> QED
      BY <3>1, <3>2
  <2> QED
    BY <1>1, <2>3, ClassifyGitType, NoTypes DEF StaticGit, AnswerType
<1> QED
  BY <1>1, NoTypes DEF StaticGit, AnswerType

\* Secrets of the environment.
LEMMA ReadSecretType == ASSUME NEW tokens PROVE ReadSecret(tokens) \in AnswerType
<1>1. <<"secret", "env">> \in Seq(Words) \ {<<>>}
  BY ShortSequences, ResourceAssumption
<1>2. Charged("read", <<"secret", "env">>) \in Results
  BY <1>1, ChargedType DEF Actions
<1> QED
  BY <1>2 DEF ReadSecret, AnswerType

\* Deletions of a path.
LEMMA ShellDeleteType == ASSUME NEW tokens PROVE ShellDelete(tokens) \in AnswerType
<1>1. ASSUME NEW path \in DOMAIN PathResource PROVE Charged("delete", PathResource[path]) \in Results
  <2>1. PathResource[path] \in Seq(Words) \ {<<>>}
    BY <1>1, ResourceAssumption
  <2> QED
    BY <2>1, ChargedType DEF Actions
<1> QED
  BY <1>1, NoTypes DEF ShellDelete, AnswerType

\* An image, if the word is one.
LEMMA ChargeImageType ==
  ASSUME NEW action \in Actions, NEW word PROVE ChargeImage(action, word) \in Results
<1>1. CASE word \in DOMAIN ImageResource
  <2>1. ImageResource[word] \in Seq(Words) /\ "container" \in Words
    BY <1>1, PairIsSequence, ResourceAssumption
  <2>2. <<"container">> \o ImageResource[word] \in Seq(Words) \ {<<>>}
    BY <2>1, RootedType
  <2> QED
    BY <1>1, <2>2, ChargedType DEF ChargeImage
<1>2. CASE word \notin DOMAIN ImageResource
  BY <1>2, NoTypes DEF ChargeImage
<1> QED
  BY <1>1, <1>2

\* docker, whatever its subcommand and flags.
LEMMA DockerType == ASSUME NEW tokens PROVE Docker(tokens) \in AnswerType
<1>1. \A word : /\ ChargeImage("deploy", word) \in Results
                /\ ChargeImage("delete", word) \in Results
                /\ ChargeImage("execute", word) \in Results
  BY ChargeImageType DEF Actions
<1> QED
  BY <1>1, Zenon DEF Docker, AnswerType

\* gh, whatever the repository.
LEMMA GhType == ASSUME NEW tokens PROVE Gh(tokens) \in AnswerType
<1> DEFINE known == {row \in GhSubcommands : row[1] = SubSeq(tokens, 2, 3)}
           row == CHOOSE row \in known : TRUE
           repo == OptionValue(From(tokens, 4), "--repo", "-R")
           charged == Charged(row[2], <<"github">> \o RepoName[repo] \o <<row[3]>>)
<1>1. ASSUME NEW r \in GhSubcommands PROVE r[2] \in Actions /\ r[3] \in Words
  <2>1. {"pr", "release", "secret", "workflow"} \subseteq Words
    BY ResourceAssumption
  <2>2. r[2] \in Actions /\ r[3] \in {"pr", "release", "secret", "workflow"}
    BY DEF GhSubcommands, Actions
  <2> QED
    BY <2>1, <2>2
<1>2. ASSUME known # {}, repo \in DOMAIN RepoName PROVE charged \in Results
  <2>1. row \in GhSubcommands
    BY <1>2
  <2>2. RepoName[repo] \in Words \X Words
    BY <1>2, ResourceAssumption
  <2> HIDE DEF row, repo
  <2>3. <<"github">> \o RepoName[repo] \o <<row[3]>> \in Seq(Words) \ {<<>>}
    BY <1>1, <2>1, <2>2, GithubType
  <2> QED
    BY <1>1, <2>1, <2>3, ChargedType
<1>3. \/ Gh(tokens) = charged /\ known # {} /\ repo \in DOMAIN RepoName
      \/ Gh(tokens) \in {NoAnswer, Refused("parse_unsafe")}
  BY DEF Gh
<1> QED
  BY <1>2, <1>3, NoTypes DEF AnswerType

\* npm and its like.
LEMMA NpmType == ASSUME NEW tokens PROVE Npm(tokens) \in AnswerType
<1> DEFINE head == tokens[1]
           package == IF head = "npm" THEN Workspace(From(tokens, 3)) ELSE "_"
<1>1. package \in Words
  BY ResourceAssumption DEF Workspace
<1> HIDE DEF package
<1>2. <<"pkg", "npm", package>> \in Seq(Words) \ {<<>>} /\ <<"shell", "npx">> \in Seq(Words) \ {<<>>}
  BY <1>1, ShortSequences, ResourceAssumption
<1>3. Charged("deploy", <<"pkg", "npm", package>>) \in Results /\ Charged("execute", <<"shell", "npx">>) \in Results
  BY <1>2, ChargedType DEF Actions
<1>4. ASSUME head \in {"npm", "pnpm", "yarn"} PROVE Charged("execute", <<"shell", head>>) \in Results
  <2>1. <<"shell", head>> \in Seq(Words) \ {<<>>}
    BY <1>4, ShortSequences, ResourceAssumption
  <2> QED
    BY <2>1, ChargedType DEF Actions
<1>5. \/ Npm(tokens) = Charged("execute", <<"shell", "npx">>)
      \/ Npm(tokens) = Charged("deploy", <<"pkg", "npm", package>>)
      \/ head \in {"npm", "pnpm", "yarn"} /\ Npm(tokens) = Charged("execute", <<"shell", head>>)
      \/ Npm(tokens) = NoAnswer
  BY DEF Npm, package
<1> QED
  BY <1>3, <1>4, <1>5 DEF AnswerType

\* Tests, builds and deployments.
LEMMA PlatformTypes ==
  ASSUME NEW tokens
  PROVE  Ci(tokens) \in AnswerType /\ Platform(tokens) \in AnswerType /\ Deploy(tokens) \in AnswerType
<1>1. \A action \in Actions : \A x, y \in Words : Charged(action, <<x, y>>) \in Results
  <2>1. ASSUME NEW action \in Actions, NEW x \in Words, NEW y \in Words
        PROVE  Charged(action, <<x, y>>) \in Results
    <3>1. <<x, y>> \in Seq(Words) \ {<<>>}
      BY ShortSequences
    <3> QED
      BY <3>1, ChargedType
  <2> QED
    BY <2>1
<1>2. \A action \in Actions : \A x, y, z \in Words : Charged(action, <<x, y, z>>) \in Results
  <2>1. ASSUME NEW action \in Actions, NEW x \in Words, NEW y \in Words, NEW z \in Words
        PROVE  Charged(action, <<x, y, z>>) \in Results
    <3>1. <<x, y, z>> \in Seq(Words) \ {<<>>}
      BY ShortSequences
    <3> QED
      BY <3>1, ChargedType
  <2> QED
    BY <2>1
<1>a. "execute" \in Actions /\ "deploy" \in Actions
  BY DEF Actions
<1>3. Charged("execute", <<"ci", "test">>) \in Results /\ Charged("execute", <<"ci", "build">>) \in Results
  BY <1>1, <1>a, ResourceAssumption
<1>4. /\ Charged("execute", <<"infra", "k8s", "apply">>) \in Results
      /\ Charged("execute", <<"infra", "terraform", "apply">>) \in Results
      /\ Charged("execute", <<"infra", "helm", "apply">>) \in Results
      /\ Charged("deploy", <<"vercel", "app">>) \in Results
      /\ Charged("deploy", <<"fly", "app">>) \in Results
      /\ Charged("deploy", <<"railway", "app">>) \in Results
  BY <1>1, <1>2, <1>a, ResourceAssumption
<1>5. /\ Charged("execute", <<"deploy", "production">>) \in Results
      /\ Charged("execute", <<"deploy", "staging">>) \in Results
      /\ Charged("execute", <<"deploy", "unknown">>) \in Results
  BY <1>1, <1>a, ResourceAssumption
<1>6. Ci(tokens) \in AnswerType
  BY <1>3, Zenon DEF Ci, AnswerType
<1>7. Platform(tokens) \in AnswerType
  BY <1>4, Zenon DEF Platform, AnswerType
<1>8. Deploy(tokens) \in AnswerType
  BY <1>5 DEF Deploy, AnswerType
<1> QED
  BY <1>6, <1>7, <1>8

\* Any command.
LEMMA ProgramType ==
  ASSUME NEW tokens \in Seq(Words) PROVE ClassifyProgram(tokens) \in Results
<1> DEFINE answers == <<ReadSecret(tokens), PlainGit(tokens), ShellDelete(tokens), Docker(tokens), Gh(tokens),
                        Npm(tokens), Ci(tokens), Platform(tokens), Deploy(tokens)>>
           given == {i \in 1..Len(answers) : answers[i] # NoAnswer}
           first == SelectInSeq(answers, LAMBDA a : a # NoAnswer)
<1>1. PlainGit(tokens) \in AnswerType
  BY ClassifyGitType DEF PlainGit, AnswerType
<1>2. Len(answers) = 9 /\ \A i \in 1..9 : answers[i] \in AnswerType
  <2>1. /\ ReadSecret(tokens) \in AnswerType /\ ShellDelete(tokens) \in AnswerType
        /\ Docker(tokens) \in AnswerType /\ Gh(tokens) \in AnswerType /\ Npm(tokens) \in AnswerType
        /\ Ci(tokens) \in AnswerType /\ Platform(tokens) \in AnswerType /\ Deploy(tokens) \in AnswerType
    BY ReadSecretType, ShellDeleteType, DockerType, GhType, NpmType, PlatformTypes
  <2> QED
    BY <1>1, <2>1
<1>3. first = IF given # {} THEN Min(given) ELSE 0
  BY Zenon DEF SelectInSeq
<1>4. ClassifyProgram(tokens) = IF tokens = <<>> \/ first = 0 THEN Unmapped(NoReason) ELSE answers[first]
  BY DEF ClassifyProgram
<1> HIDE DEF answers, first
<1>5. ASSUME first # 0 PROVE answers[first] \in Results
  <2>1. given # {} /\ first = Min(given)
    BY <1>3, <1>5
  <2>2. first \in given
    <3>1. given \in SUBSET (1..9) /\ 9 \in Nat
      BY <1>2
    <3> HIDE DEF given
    <3> QED
      BY <2>1, <3>1, MinInPositions
  <2> QED
    BY <1>2, <2>2 DEF AnswerType
<1> QED
  BY <1>4, <1>5, NoTypes

\* What the invariant adds: an answer is given once, and of the boundary's kind.
AnswerInv ==
  /\ rule \in Rules \cup {NoPair}
  /\ phase # "done" => answer = Pending
  /\ command \in CommandType \cup {NoCommand} =>
       git \in AnswerType /\ (phase = "done" => answer \in Results)

\* A rule's pair is an answer.
LEMMA RuleType == ASSUME NEW pair \in Rules PROVE Mapped(pair, <<>>) \in Results
<1>1. pair \in Pairs /\ <<>> \in Seq(Pairs)
  BY TerminalAssumption
<1> HIDE DEF Pairs
<1> QED
  BY <1>1 DEF Mapped, Results, MappingResults, Reasons

\* What is said of a command when git and the rules have nothing to say.
LEMMA ResolveTerminalType ==
  ASSUME NEW c \in CommandType \cup {NoCommand} PROVE ResolveTerminal(c) \in Results
<1>1. CASE c = NoCommand
  BY <1>1, NoTypes DEF ResolveTerminal
<1>2. CASE c # NoCommand
  <2>1. c.tokens \in Seq(Words)
    BY <1>2 DEF CommandType
  <2> QED
    BY <1>2, <2>1, ProgramType DEF ResolveTerminal
<1> QED
  BY <1>1, <1>2

\* No step answers with anything else.
LEMMA AnswerNext == Inv /\ AnswerInv /\ [TerminalNext]_terminalVars => AnswerInv'
<1> SUFFICES ASSUME Inv, AnswerInv, [TerminalNext]_terminalVars PROVE AnswerInv'
  OBVIOUS
<1> DEFINE Typed == command \in CommandType \cup {NoCommand}
<1>n. NoAnswer \in AnswerType
  BY DEF AnswerType
<1>a. ASSUME phase' = "done", UNCHANGED <<command, rule, git>>, Typed => answer' \in Results
      PROVE  AnswerInv'
  BY <1>a DEF AnswerInv
<1>p. ASSUME phase # "done", phase' # "done", UNCHANGED <<command, rule, git, answer>>
      PROVE  AnswerInv'
  BY <1>p DEF AnswerInv
<1>0. CASE ReceiveAny
  <2>1. phase = "idle" /\ git' = NoAnswer /\ answer' = Pending /\ phase' = "control"
    BY <1>0 DEF ReceiveAny, Receive, Inv, AnswerInv
  <2>2. rule' \in Rules \cup {NoPair}
    BY <1>0 DEF ReceiveAny, Receive
  <2> QED
    BY <1>n, <2>1, <2>2 DEF AnswerInv
<1>1. CASE SkipMissing \/ PassControl \/ PassGit
  BY <1>1, <1>p DEF SkipMissing, PassControl, PassGit, Proceed
<1>2. CASE CheckControl
  <2> DEFINE first == command.fields[1]
             piped == Mapped(<<"execute", <<"shell", BaseName[first]>>>>, <<>>)
  <2>1. phase' = "done" /\ UNCHANGED <<command, rule, git>>
    BY <1>2 DEF CheckControl, Answer
  <2>2. answer' = UnsafeShell \/ (first \in DOMAIN BaseName /\ answer' = piped)
    BY <1>2 DEF CheckControl, Answer
  <2>3. ASSUME first \in DOMAIN BaseName PROVE piped \in Results
    <3>1. BaseName[first] \in Words
      BY <2>3, ResourceAssumption
    <3>2. <<"shell", BaseName[first]>> \in Seq(Words) \ {<<>>}
      BY <3>1, ShortSequences, ResourceAssumption
    <3> QED
      BY <3>2, ChargedType DEF Charged, Actions
  <2> QED
    BY <1>a, <2>1, <2>2, <2>3, NoTypes
<1>3. CASE CheckWords
  <2>1. phase' = "done" /\ UNCHANGED <<command, rule, git>> /\ answer' = WithoutWords(command)
    BY <1>3 DEF CheckWords, Answer
  <2>2. Typed => WithoutWords(command) \in Results
    BY ResolveTerminalType, NoTypes DEF WithoutWords
  <2> QED
    BY <1>a, <2>1, <2>2
<1>4. CASE CheckReinterpreter \/ CheckComment
  <2>1. phase' = "done" /\ UNCHANGED <<command, rule, git>> /\ answer' = UnsafeShell
    BY <1>4 DEF CheckReinterpreter, CheckComment, Answer
  <2> QED
    BY <1>a, <2>1, NoTypes
<1>5. CASE ResolveGit
  <2>1. /\ phase' = "git" /\ UNCHANGED <<command, rule, answer>> /\ phase = "words"
        /\ git' = StaticGit(command.words)
    BY <1>5 DEF ResolveGit, Proceed
  <2>2. command # NoCommand
    BY <2>1 DEF Inv
  <2>3. Typed => command.words \in Seq(Words)
    BY <2>2 DEF CommandType
  <2>4. Typed => git' \in AnswerType
    BY <2>1, <2>3, StaticGitType
  <2> QED
    BY <2>1, <2>4 DEF AnswerInv
<1>6. CASE KeepGit
  <2>1. phase' = "done" /\ UNCHANGED <<command, rule, git>> /\ answer' = git /\ git # NoAnswer
    BY <1>6 DEF KeepGit, Answer, Final, NoAnswer
  <2>2. Typed => git \in Results
    BY <2>1 DEF AnswerInv, AnswerType
  <2> QED
    BY <1>a, <2>1, <2>2
<1>7. CASE UseRule
  <2>1. phase' = "done" /\ UNCHANGED <<command, rule, git>> /\ answer' = Mapped(rule, <<>>) /\ rule # NoPair
    BY <1>7 DEF UseRule, Answer
  <2>2. rule \in Rules
    BY <2>1 DEF AnswerInv
  <2> QED
    BY <1>a, <2>1, <2>2, RuleType
<1>8. CASE UseClassifier
  <2>1. /\ phase' = "done" /\ UNCHANGED <<command, rule, git>>
        /\ answer' = IF git # NoAnswer THEN git ELSE ResolveTerminal(command)
    BY <1>8 DEF UseClassifier, Answer
  <2>2. Typed => git \in AnswerType
    BY DEF AnswerInv
  <2>3. Typed => answer' \in Results
    BY <2>1, <2>2, ResolveTerminalType DEF AnswerType
  <2> QED
    BY <1>a, <2>1, <2>3
<1>9. CASE UNCHANGED terminalVars
  BY <1>9 DEF terminalVars, AnswerInv
<1> QED
  BY <1>0, <1>1, <1>2, <1>3, <1>4, <1>5, <1>6, <1>7, <1>8, <1>9 DEF TerminalNext, Resolve

LEMMA AnswerInvariant == TerminalSpec => []AnswerInv
<1>1. TerminalInit => AnswerInv
  BY DEF TerminalInit, AnswerInv, AnswerType
<1> QED
  BY <1>1, Invariant, AnswerNext, PTL DEF TerminalSpec

\* Type correctness of a resolution: no answer before its end, then one the
\* boundary can act on, for every command whose words are words.
THEOREM TypeCorrect == TerminalSpec => [](command \in CommandType \cup {NoCommand} => TypeOK)
<1>1. Inv /\ AnswerInv => (command \in CommandType \cup {NoCommand} => TypeOK)
  BY DEF Inv, AnswerInv, AnswerType, TypeOK
<1> QED
  BY <1>1, Invariant, AnswerInvariant, PTL
=============================================================================
