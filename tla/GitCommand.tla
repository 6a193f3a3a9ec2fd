----------------------------- MODULE GitCommand -----------------------------
(***************************************************************************)
(* What a git command line is charged with (mapping.py).  A command line   *)
(* is the sequence of its words; the classes a word is sorted into by its  *)
(* spelling are constants.                                                 *)
(***************************************************************************)
EXTENDS MappingResult, Integers, SequencesExt

CONSTANTS
  Flags,         \* words that begin with a dash
  GlobalFlags,   \* git's global options without a value
  TrustedGit,    \* the executables taken for git: "git" and some absolute paths
  NamedGit,      \* any path to a program of the name git
  Destructive,   \* push arguments that force, delete, mirror or prune
  OddScheme,     \* URLs of a scheme that is not a standard one
  TwoColons,     \* words with "::", git's syntax for a remote helper
  SafeRemote,    \* explicit URLs and paths
  GithubRemote,  \* the owner and the repository GitHub URLs name
  DiffHelper,    \* spellings of --ext-diff and --textconv
  UploadPack,    \* spellings of --upload-pack, by subcommand
  ReceivePack,   \* spellings of --receive-pack and --exec
  CleanForce     \* flags that force a clean

NoAnswer == [kind |-> "none"]
UnsafeShell == Unmapped("unsafe_shell")

Wrappers == {"command", "env"}
RemoteSubcommands == {"fetch", "pull", "clone", "push"}

\* The first position from i on whose word is not skipped.
FirstOther(words, i, Skipped) ==
  CHOOSE j \in i..Len(words) + 1 :
    /\ \A k \in i..j - 1 : words[k] \in Skipped
    /\ j <= Len(words) => words[j] \notin Skipped

-----------------------------------------------------------------------------
(* Finding the git command: anchored to the start of the line. *)

GitIndex(words) == FirstOther(words, IF words[1] = "!" THEN 2 ELSE 1, Wrappers)

StartsWithGit(words) == GitIndex(words) <= Len(words) /\ words[GitIndex(words)] \in TrustedGit

\* Some later word may be the program that is run.
HasLaterGit(words) == \E i \in GitIndex(words)..Len(words) : words[i] \in NamedGit

SubcommandIndex(words) == FirstOther(words, GitIndex(words) + 1, GlobalFlags)

HasSubcommand(words) ==
  SubcommandIndex(words) <= Len(words) /\ words[SubcommandIndex(words)] \notin Flags

GitTokens(words) == <<"git">> \o SubSeq(words, SubcommandIndex(words), Len(words))

-----------------------------------------------------------------------------
(* Options and remotes that make git run another program. *)

Arguments(tokens) == {tokens[i] : i \in 3..Len(tokens)}

\* The first argument that is no flag, or none.
TargetIndex(tokens) == FirstOther(tokens, 3, Flags)

AllowedPushFlags == Destructive \cup {"-u", "--set-upstream", "--tags"}

RunsHelper(sub, word) ==
  \/ sub \in RemoteSubcommands /\ word \in OddScheme \cup TwoColons
  \/ word \in DiffHelper
  \/ sub \in {"fetch", "pull", "clone"} /\ word \in UploadPack[sub]
  \/ sub = "push" /\ word \in ReceivePack

UnsafeExecution(tokens) ==
  LET sub == tokens[2]
      destructive == Arguments(tokens) \cap Destructive # {}
      flags == Arguments(tokens) \cap Flags
      target == TargetIndex(tokens)
  IN \/ \E word \in Arguments(tokens) : RunsHelper(sub, word)
     \/ sub \in {"fetch", "pull"} /\ flags # {}
     \/ sub = "push" /\ ~(flags \subseteq AllowedPushFlags)
     \/ /\ sub \in {"fetch", "pull"} \/ (sub = "push" /\ ~destructive)
        /\ target > Len(tokens) \/ tokens[target] \notin SafeRemote

-----------------------------------------------------------------------------
(* The classes of git commands. *)

ShellGit(action) == Mapped(<<action, <<"shell", "git">>>>, <<>>)

\* Mutant: a push whose repository is not known is a local write.
GitPushLocal(tokens) ==
  LET target == TargetIndex(tokens)
      destructive == Arguments(tokens) \cap Destructive # {}
      action == IF destructive THEN "delete" ELSE "write"
  IN IF target <= Len(tokens) /\ tokens[target] \in DOMAIN GithubRemote
       THEN Mapped(<<action, <<"github">> \o GithubRemote[tokens[target]] \o <<"contents">>>>, <<>>)
       ELSE ShellGit(action)

\* A push to a remote that is named only is refused, unless it is
\* destructive, which needs no target to be a deletion.
GitPush(tokens) ==
  LET flags == Arguments(tokens) \cap Flags
      destructive == Arguments(tokens) \cap Destructive # {}
      target == TargetIndex(tokens)
      known == target <= Len(tokens) /\ tokens[target] \in DOMAIN GithubRemote
  IN CASE ~(flags \subseteq AllowedPushFlags) -> UnsafeShell
       [] flags \subseteq AllowedPushFlags /\ known ->
            Mapped(<<IF destructive THEN "delete" ELSE "write",
                     <<"github">> \o GithubRemote[tokens[target]] \o <<"contents">>>>, <<>>)
       [] flags \subseteq AllowedPushFlags /\ ~known /\ destructive -> ShellGit("delete")
       [] OTHER -> Refused("parse_unsafe")

\* The branch a command creates or renames to, or no word.
NoWord == ""

Branch(tokens) ==
  CASE Len(tokens) >= 4 /\ <<tokens[2], tokens[3]>> \in {<<"switch", "-c">>, <<"checkout", "-b">>,
                                                         <<"branch", "-m">>} -> tokens[4]
    [] Len(tokens) >= 3 /\ tokens[2] = "branch" /\ tokens[3] \notin Flags -> tokens[3]
    [] OTHER -> NoWord

GitReads == {"status", "log", "diff", "show", "fetch", "blame", "describe", "rev-parse"}
GitWrites == {"add", "commit", "stash", "pull", "clone"}

\* Local commands that lose work.
Discards(tokens) ==
  \/ tokens[2] = "reset" /\ "--hard" \in Arguments(tokens)
  \/ tokens[2] = "branch" /\ Arguments(tokens) \cap {"-D", "--delete", "-d"} # {}
  \/ tokens[2] = "clean" /\ Arguments(tokens) \cap CleanForce # {}

ClassifyGit(tokens) ==
  LET sub == tokens[2]
  IN CASE Branch(tokens) # NoWord -> Mapped(<<"write", <<"repo", "branch", Branch(tokens)>>>>, <<>>)
       [] Branch(tokens) = NoWord /\ sub \in GitReads -> ShellGit("read")
       [] Branch(tokens) = NoWord /\ sub \in GitWrites -> ShellGit("write")
       [] sub = "push" -> GitPush(tokens)
       [] Branch(tokens) = NoWord /\ Discards(tokens) -> ShellGit("delete")
       [] OTHER -> NoAnswer

-----------------------------------------------------------------------------

\* A line that is git's is answered; one that may run git by other means, or
\* an unknown subcommand, is unsafe; the others have no answer here.
StaticGit(words) ==
  CASE Len(words) = 0 -> NoAnswer
    [] Len(words) > 0 /\ ~StartsWithGit(words) -> IF HasLaterGit(words) THEN UnsafeShell ELSE NoAnswer
    [] OTHER ->
         IF HasSubcommand(words) /\ ~UnsafeExecution(GitTokens(words))
            /\ ClassifyGit(GitTokens(words)) # NoAnswer
           THEN ClassifyGit(GitTokens(words)) ELSE UnsafeShell
=============================================================================
