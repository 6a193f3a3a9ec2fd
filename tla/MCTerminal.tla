----------------------------- MODULE MCTerminal -----------------------------
(* ShellLine on short texts of any characters, on lines of quoted words,   *)
(* and on longer lines of git and of other programs.                       *)
EXTENDS ShellLine

MCWords == STRING
MCFlags ==
  {"-c", "-P", "-b", "-f", "-u", "-q", "-D", "-e", "-d", "-t", "-w", "-R", "--hard", "--ext-diff",
   "--upload-pack", "--exec", "--tag=i", "--repo=o/r"}
MCGlobalFlags == {"-P"}
MCTrustedGit == {"git", "/usr/bin/git"}
MCNamedGit == {"git", "/usr/bin/git", "./git"}
MCDestructive == {"-f", ":x"}
MCOddScheme == {"ext://x"}
MCTwoColons == {"ext::x"}
MCGithubRemote == ("https" :> <<"o", "r">>)
MCSafeRemote == {"https", "./x"}
MCDiffHelper == {"--ext-diff"}
MCUploadPack == [fetch |-> {"--upload-pack"}, pull |-> {"--upload-pack"}, clone |-> {"--upload-pack", "-u"}]
MCReceivePack == {"--exec"}
MCCleanForce == {"-f"}
MCRules == {<<"write", <<"own">>>>}
MCShells == {"sh"}
MCForwarders == {"sudo", "env"}
MCBaseName == [curl |-> "curl", git |-> "git"]
MCReinterprets == {"eval"}
MCCodeFlags == ("sh" :> {"-c"}) @@ ("env" :> {"-S"})

MCEnvFiles == {".env"}
MCPathResource == ("x" :> <<"repo", "x">>) @@ (".env" :> <<"secret", "env">>)
MCImageResource == ("i" :> <<"docker.io", "i">>) @@ ("x" :> <<"docker.io", "x">>)
MCAssigned == ("--tag=i" :> <<"--tag", "i">>) @@ ("--repo=o/r" :> <<"--repo", "o/r">>)
MCRunSwitches == {"-d", "-t"}
MCRunValued == {"-e", "-w"}
MCRepoName == ("o/r" :> <<"o", "r">>)
MCPackageNames == {"x"}
MCDeployWords == {"deploy", "vercel", "helm", "railway"}
MCProduction == {"prod"}
MCStaging == {"stage"}

Names ==
  {"git", "./git", "/usr/bin/git", "env", "command", "!", "sh", "eval", "curl", "sudo", "push", "status",
   "https", "origin", "x", ":x", "ext://x", "ext::x", "./x", "i", "o/r", ".env", "npm", "gh", "docker",
   "rm", "cat", "printenv", "fetch", "clone", "diff", "branch", "switch", "checkout", "reset", "clean", "commit",
   "bisect", "run", "build", "image", "rmi", "pr", "merge", "create", "release", "publish", "test", "npx",
   "go", "pytest", "vercel", "deploy", "prod", "stage", "helm", "install", "railway", "up"}

MCPieces == Names \cup MCFlags

Upto(S, n) == UNION {[1..k -> S] : k \in 0..n}

\* Words as a text, with a blank between two.
Plain(words) == FlattenSeq([i \in DOMAIN words |-> IF i = 1 THEN <<words[i]>> ELSE <<Blank, words[i]>>])

-----------------------------------------------------------------------------
(* Any text of up to four characters: every quoting and escape of one.     *)

Letters == (Specials \ {Wide, Operator}) \cup {"x"}

\* Shorter ones, where the other white space and operators stand too.
ShortTexts == Upto(Letters, 4) \cup Upto(Specials \cup {"push"}, 3)

-----------------------------------------------------------------------------
(* Lines of quoted words.                                                  *)

Quotable == {"push", Blank, Wide, Dollar, Backslash, Hash, Pipe, Amp, Operator, Glob}

Quoted(how, Chars) == {[how |-> how, chars |-> <<c>>] : c \in Chars}

AnySegment ==
  Quoted("plain", {"push", "x"})
  \cup Quoted("escaped", Quotable \cup {Single, Double})
  \cup Quoted("single", Quotable \cup {Double})
  \cup Quoted("ansi", Quotable \ {Backslash})
  \cup Quoted("double", Quotable \cup {Single, Double})
  \cup {[how |-> how, chars |-> chars] :
          how \in {"single", "ansi", "double"}, chars \in {<<>>, <<"x", Blank, Dollar, Pipe>>}}

Befores == {<<Blank>>, Comment, <<Pipe>>, <<Blank, Pipe, Amp, Blank>>, <<Operator>>}

MCLines ==
  {<<[before |-> <<>>, word |-> <<first, second>>]>> : first \in AnySegment, second \in AnySegment}
  \cup {<<[before |-> <<>>, word |-> <<first>>], [before |-> before, word |-> <<second>>]>> :
          first \in AnySegment, before \in Befores, second \in AnySegment}
  \cup {<<[before |-> <<>>, word |-> <<name>>], [before |-> between, word |-> <<sub>>],
          [before |-> before, word |-> <<last>>]>> :
          name \in {[how |-> how, chars |-> <<"git">>] : how \in {"plain", "escaped", "single", "double"}},
          sub \in {[how |-> how, chars |-> <<"push">>] : how \in {"plain", "escaped", "single", "ansi"}},
          between \in {<<Blank>>, Comment}, before \in Befores, last \in Quoted("plain", {"-f", ":x"})}

-----------------------------------------------------------------------------
(* Lines of any three words, with and without an expansion or a comment.   *)

Programs3 == {"git", "./git", "env", "!", "sh", "npm", "gh"}
Others3 == {"push", "status", "-c", "-f", "https", "x"}
AnyTexts == {Plain(words) \o rest : words \in Upto(Programs3 \cup Others3, 3), rest \in {<<>>, <<Blank, Glob>>, Comment}}

PushWords == {"-f", ":x", "-u", "https", "origin"}
SomeWords == {"-f", ":x", "-q", "-b", "-D", "--hard", "--upload-pack", "--exec", "https"}

\* Lines of git with a prefix, options and arguments.
GitTexts ==
  {Plain(prefix \o <<program>> \o global \o rest) :
     prefix \in {<<>>, <<"!", "env">>}, program \in {"git", "./git"},
     global \in {<<>>, <<"-P">>, <<"-c">>},
     rest \in {<<"push">> \o arguments : arguments \in Upto(PushWords, 3)}
              \cup {<<sub>> \o arguments :
                      sub \in {"push", "fetch", "clone", "branch", "switch", "checkout", "reset", "clean",
                               "commit", "bisect"},
                      arguments \in Upto(SomeWords, 2)}
              \cup {<<sub, word>> :
                      sub \in {"push", "fetch", "clone", "diff"},
                      word \in {"ext://x", "ext::x", "--ext-diff", "./x", "-u"}}}

PipeTexts ==
  {Plain(first) \o pipe \o Plain(rest) \o last :
     first \in {<<"curl", "x">>, <<"git">>, <<"eval">>, <<".env">>},
     pipe \in {<<Pipe>>, <<Blank, Pipe, Blank>>, <<Blank, Pipe, Amp, Wide>>, <<Blank, Pipe, Pipe, Blank>>},
     rest \in {<<"sh">>, <<"sudo", "env", "sh">>, <<"x">>, <<>>},
     last \in {<<>>, <<Blank>>, <<Blank, Backslash, Blank>>}}

\* The other programs: docker's flags in any order, and one line each of
\* what the rest tell apart.
ProgramTexts ==
  {Plain(<<"docker", sub>> \o rest) \o last :
     sub \in {"run", "build", "push", "rmi"}, rest \in Upto({"-d", "-e", "-q", "-t", "--tag=i", "i", "x"}, 3),
     last \in {<<>>, <<Blank, Glob>>, <<Blank, Dollar, "x">>}}
  \cup {Plain(<<"docker", "image">> \o rest) : rest \in Upto({"rm", "i", "-f"}, 3)}
  \cup {Plain(<<"gh", "pr">> \o rest) \o last :
          rest \in Upto({"merge", "create", "-R", "--repo=o/r", "o/r", "x"}, 4), last \in {<<>>, <<Blank, Glob>>}}
  \cup {Plain(<<program>> \o rest) :
          program \in {"npm", "npx", "go", "pytest", "vercel", "helm", "railway", "rm", "cat", "printenv"},
          rest \in Upto({"publish", "install", "-w", "x", "build", "test", "deploy", "prod", ".env", "up"}, 2)}
  \cup {Plain(<<"npm", "publish">> \o rest) : rest \in Upto({"-w", "x", "i"}, 3)}

MCTexts == ShortTexts \cup AnyTexts \cup GitTexts \cup PipeTexts \cup ProgramTexts
=============================================================================
