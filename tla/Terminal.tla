------------------------------ MODULE Terminal ------------------------------
(***************************************************************************)
(* resolve_tool_call for a terminal command (mapping.py): the checks that  *)
(* come before the operators' rules, the rule, and the classifiers.        *)
(*                                                                         *)
(* A command is what the scans of its text find: the control operators,    *)
(* whether its words can be told without running a shell, and its words;   *)
(* and its tokens, which the classifiers take from the text themselves.    *)
(***************************************************************************)
EXTENDS Programs

CONSTANTS
  Words,        \* what words and the segments of resources can be
  NoCommand,    \* an argument that is missing, empty or not a string
  Rules,        \* pairs the operators' rules assign
  Shells,       \* words that run a shell, and
  Forwarders,   \* those that run the word that follows them, in a pipe
  BaseName,     \* the plain base names words have as programs
  Reinterprets, \* programs that run the text they are given
  CodeFlags     \* programs that do so by certain options, and these

Pairs == {"read", "write", "execute", "deploy", "delete", "send"} \X (Seq(Words) \ {<<>>})
Results == MappingResults(Pairs)

CommandType ==
  [words : Seq(Words),                    \* of the text before a comment
   control : {"none", "pipe", "other"},    \* "pipe": one, and nothing else
   static : BOOLEAN,                       \* no expansion: the words are the program's
   commented : BOOLEAN,
   tokens : Seq(Words),                   \* of the whole text, as shlex splits it
   fields : Seq(Words),                   \* of the whole text, between white space
   push : BOOLEAN]                         \* "push" is one of the fields

ASSUME TerminalAssumption ==
  /\ NoCommand \notin CommandType
  /\ Rules \subseteq Pairs
  /\ TrustedGit \subseteq NamedGit
  /\ "git" \in TrustedGit
  /\ ({"!"} \cup Wrappers) \cap NamedGit = {}
  /\ GlobalFlags \subseteq Flags
  /\ "push" \notin Flags \cup NamedGit
  /\ \A url \in DOMAIN GithubRemote : GithubRemote[url] \in Words \X Words
  /\ "docker" \notin TrustedGit
  /\ DOMAIN Assigned \cup RunSwitches \cup RunValued \subseteq Flags
  /\ RunValued \cap (DOMAIN Assigned \cup RunSwitches) = {}
  /\ NoWord \notin DOMAIN ImageResource

\* What resources are made of: words, and what the classifiers add to them.
ASSUME ResourceAssumption ==
  /\ \A value \in DOMAIN RepoName : RepoName[value] \in Words \X Words
  /\ \A word \in DOMAIN ImageResource : ImageResource[word] \in Words \X Words
  /\ \A path \in DOMAIN PathResource : PathResource[path] \in Seq(Words) \ {<<>>}
  /\ \A word \in DOMAIN BaseName : BaseName[word] \in Words
  /\ PackageNames \subseteq Words
  /\ {NoWord, "git", "github", "shell", "repo", "branch", "contents", "secret", "env", "container", "pr",
      "release", "workflow", "pkg", "npm", "pnpm", "yarn", "npx", "_", "ci", "test", "build", "infra", "k8s",
      "terraform", "helm", "apply", "vercel", "fly", "railway", "app", "deploy", "production", "staging", "unknown"}
     \subseteq Words

VARIABLES
  command, rule,   \* the command and the pair of the rule that matches it, or NoPair
  phase,           \* idle, control, words, git, rules, done
  git,             \* static_terminal_result
  answer           \* what resolve_tool_call returns

terminalVars == <<command, rule, phase, git, answer>>

Pending == [kind |-> "pending"]

TerminalInit ==
  /\ command = NoCommand
  /\ rule = NoPair
  /\ phase = "idle"
  /\ git = NoAnswer
  /\ answer = Pending

\* A call, with the rule that matches it if one does.
Receive(c) ==
  /\ phase = "idle"
  /\ command' = c
  /\ rule' \in Rules \cup {NoPair}
  /\ phase' = "control"
  /\ UNCHANGED <<git, answer>>

\* All a resolution needs of a command: its words and tokens are sequences.
IsCommand(c) == c.words \in Seq(ToSet(c.words)) /\ c.tokens \in Seq(ToSet(c.tokens))

ReceiveAny == (command' # NoCommand => IsCommand(command')) /\ Receive(command')

Answer(result) ==
  /\ answer' = result
  /\ phase' = "done"
  /\ UNCHANGED <<command, rule, git>>

Proceed(next) ==
  /\ phase' = next
  /\ UNCHANGED <<command, rule, answer>>

-----------------------------------------------------------------------------
(* The checks before the rules. *)

\* The fields after a pipe run a shell.
PipesToShell(fields) ==
  \E i \in 2..Len(fields) - 1 :
    /\ fields[i] \in {"|", "|&"}
    /\ LET j == FirstOther(fields, i + 1, Forwarders) IN j <= Len(fields) /\ fields[j] \in Shells

\* A pipe into a shell is execution, named after the program that feeds it.
SkipMissing == phase = "control" /\ command = NoCommand /\ Proceed("rules") /\ UNCHANGED git

CheckControl ==
  /\ phase = "control"
  /\ command # NoCommand
  /\ command.control # "none"
  /\ LET fields == command.fields
     IN IF command.control = "pipe" /\ PipesToShell(fields) /\ fields[1] \in DOMAIN BaseName
          THEN Answer(Mapped(<<"execute", <<"shell", BaseName[fields[1]]>>>>, <<>>))
          ELSE Answer(UnsafeShell)

PassControl ==
  /\ phase = "control"
  /\ command # NoCommand
  /\ command.control = "none"
  /\ Proceed("words")
  /\ UNCHANGED git

\* Mutant: no answer of git's is taken for one.
ResolveTerminalGit(c) ==
  IF c = NoCommand THEN Refused("malformed_payload") ELSE PlainGit(c.tokens)

ResolveTerminal(c) ==
  IF c = NoCommand THEN Refused("malformed_payload") ELSE ClassifyProgram(c.tokens)

IsGitResource(resource) == resource = <<"shell", "git">> \/ resource[1] = "github"

\* Mutant: resources of GitHub are let through.
WithoutWordsLocal(c) ==
  LET result == ResolveTerminal(c)
  IN IF \/ c.push
        \/ result.kind = "unmapped"
        \/ result.kind = "mapped" /\ result.primary[2] = <<"shell", "git">>
       THEN UnsafeShell ELSE result

\* Where the shell would expand something, neither git nor an unknown
\* program is classified.
WithoutWords(c) ==
  LET result == ResolveTerminal(c)
  IN IF \/ c.push
        \/ result.kind = "unmapped"
        \/ result.kind = "mapped" /\ IsGitResource(result.primary[2])
       THEN UnsafeShell ELSE result

CheckWords ==
  /\ phase = "words"
  /\ ~command.static
  /\ Answer(WithoutWords(command))

\* Some word is a program that runs text it is given.
RunsText(words) ==
  \E i \in DOMAIN words :
    \/ words[i] \in Reinterprets
    \/ /\ words[i] \in DOMAIN CodeFlags
       /\ \E j \in i + 1..Len(words) : words[j] \in CodeFlags[words[i]]

CheckReinterpreter ==
  /\ phase = "words"
  /\ command.static
  /\ RunsText(command.words)
  /\ Answer(UnsafeShell)

\* Mutant: a rule stands for a reinterpreter too.
ResolveGitOrRule ==
  /\ phase = "words"
  /\ command.static
  /\ RunsText(command.words) => rule # NoPair
  /\ git' = StaticGit(command.words)
  /\ Proceed("git")

ResolveGit ==
  /\ phase = "words"
  /\ command.static
  /\ ~RunsText(command.words)
  /\ git' = StaticGit(command.words)
  /\ Proceed("git")

\* Mutant: deletions are left to the rules.
FinalUnmapped(result) == result.kind = "unmapped"

\* What a rule may not change.
Final(result) ==
  result.kind = "unmapped" \/ (result.kind = "mapped" /\ result.primary[1] = "delete")

CheckComment ==
  /\ phase = "git"
  /\ git = NoAnswer
  /\ command.commented
  /\ Answer(UnsafeShell)

KeepGit ==
  /\ phase = "git"
  /\ Final(git)
  /\ Answer(git)

PassGit ==
  /\ phase = "git"
  /\ ~Final(git)
  /\ ~(command.commented /\ git = NoAnswer)
  /\ Proceed("rules")
  /\ UNCHANGED git

-----------------------------------------------------------------------------
(* The rule, or the classifiers. *)

UseRule == phase = "rules" /\ rule # NoPair /\ Answer(Mapped(rule, <<>>))

UseClassifier ==
  /\ phase = "rules"
  /\ rule = NoPair
  /\ Answer(IF git # NoAnswer THEN git ELSE ResolveTerminal(command))

Resolve ==
  \/ SkipMissing \/ CheckControl \/ PassControl
  \/ CheckWords \/ CheckReinterpreter \/ ResolveGit
  \/ CheckComment \/ KeepGit \/ PassGit
  \/ UseRule \/ UseClassifier

TerminalNext == ReceiveAny \/ Resolve

TerminalSpec == TerminalInit /\ [][TerminalNext]_terminalVars

-----------------------------------------------------------------------------

TypeOK ==
  /\ command \in CommandType \cup {NoCommand}
  /\ rule \in Rules \cup {NoPair}
  /\ phase \in {"idle", "control", "words", "git", "rules", "done"}
  /\ git \in Results \cup {NoAnswer}
  /\ IF phase = "done" THEN answer \in Results ELSE answer = Pending

\* The words of a push: git under some path, options, and the subcommand.
PushAt(words, i, j) ==
  /\ words[i] \in NamedGit /\ \A k \in 1..i - 1 : words[k] \notin NamedGit
  /\ words[j] = "push" /\ \A k \in i + 1..j - 1 : words[k] \in Flags

Done == phase = "done" /\ command # NoCommand

\* One command whose words are known: no list, no expansion, and no pipe.  A
\* pipe into a shell is charged as that shell's execution, whatever command
\* feeds it, a destructive push included.
Readable == command.control = "none" /\ command.static

\* Outside of a pipe, a push that forces, deletes, mirrors or prunes is a
\* deletion or not classified at all, wherever the argument stands and whatever rule matches
\* (docs/configuration.md: these cannot be downgraded by config).
DestructivePushStays ==
  Done /\ Readable /\ answer.kind = "mapped" =>
    \A i, j, k \in DOMAIN command.words :
      i < j /\ j < k /\ PushAt(command.words, i, j) /\ command.words[k] \in Destructive =>
        answer.primary[1] = "delete" /\ IsGitResource(answer.primary[2])

\* A push the classifiers map without a rule is a write of the GitHub
\* repository its first argument names, or a deletion.
PushIsCharged ==
  Done /\ Readable /\ rule = NoPair /\ answer.kind = "mapped" =>
    \A i, j \in DOMAIN command.words :
      i < j /\ PushAt(command.words, i, j) =>
        \/ answer.primary[1] = "delete"
        \/ \E k \in j + 1..Len(command.words) :
             /\ command.words[k] \in DOMAIN GithubRemote
             /\ \A m \in j + 1..k - 1 : command.words[m] \in Flags
             /\ answer.primary =
                  <<"write", <<"github">> \o GithubRemote[command.words[k]] \o <<"contents">>>>

\* What the mandatory checks leave to the rules: no control flow, no
\* expansion, no reinterpreter, nothing behind a comment, and a git command
\* only if it is anchored, resolved and deletes nothing.
LeftToRules(c) ==
  /\ c.control = "none"
  /\ c.static
  /\ ~RunsText(c.words)
  /\ \/ ToSet(c.words) \cap NamedGit = {} /\ ~c.commented
     \/ StaticGit(c.words).kind = "mapped" /\ StaticGit(c.words).primary[1] # "delete"
     \/ StaticGit(c.words) = Refused("parse_unsafe")

\* The rule decides all of these and none of the others, whose answer is a
\* block, a deletion, a pipe's execution or what the classifiers say.
RuleDecidesTheRest ==
  Done /\ rule # NoPair =>
    IF LeftToRules(command) THEN answer = Mapped(rule, <<>>)
    ELSE \/ answer = UnsafeShell
         \/ Readable /\ answer = StaticGit(command.words) /\ answer.primary[1] = "delete"
         \/ command.control = "pipe" /\ answer.primary[1] = "execute"
         \/ command.control = "none" /\ ~command.static /\ answer = WithoutWords(command)

\* Position j holds the first word of rest that is neither a flag nor the
\* value of one, if these flags take a value.
FirstWordAt(rest, j, valued) ==
  /\ rest[j] \notin Flags
  /\ \E options \in SUBSET (1..j - 1) :
       LET isValue(k) == k - 1 \in options /\ rest[k - 1] \in valued
       IN /\ \A k \in 1..j - 1 : k \in options <=> ~isValue(k)
          /\ \A k \in options : rest[k] \in Flags
          /\ ~isValue(j)

\* The image docker run is charged with is the one it runs, whichever of the
\* flags the classifier does not know take a value (mapping.py: fail
\* closed, never a guess): of the words docker gets, where those are known
\* and are the classifier's tokens.  Where the shell would expand a word,
\* the code charges the image of the words as they are written.
ImageIsUnambiguous ==
  Done /\ rule = NoPair /\ Readable /\ command.tokens = command.words /\ answer.kind = "mapped"
  /\ IsPrefix(<<"docker", "run">>, command.words) =>
    LET rest == From(command.words, 3)
        unknown == (ToSet(rest) \cap Flags) \ (RunSwitches \cup RunValued \cup DOMAIN Assigned)
    IN \A valued \in {RunValued \cup some : some \in SUBSET unknown} :
         \E j \in DOMAIN rest :
           /\ FirstWordAt(rest, j, valued)
           /\ answer.primary = <<"execute", <<"container">> \o ImageResource[rest[j]]>>

\* Where the shell would expand a word, no command outside of a pipe or a
\* list is charged as a local or a GitHub operation.
GitNeedsWords ==
  Done /\ command.control = "none" /\ ~command.static /\ answer.kind = "mapped" =>
    ~IsGitResource(answer.primary[2])
=============================================================================
