------------------------------ MODULE Programs ------------------------------
(***************************************************************************)
(* What the other programs a terminal command may run are charged with     *)
(* (mapping.py).  A command is the sequence of its tokens; what a token    *)
(* spells is a constant.                                                   *)
(***************************************************************************)
EXTENDS GitCommand

CONSTANTS
  EnvFiles,      \* paths of .env files
  PathResource,  \* the resources of paths a shell expands nothing in
  ImageResource, \* the registry and the image of image references
  Assigned,      \* flags with a value behind "=": the flag and the value
  RunSwitches,   \* docker run's flags without a value, and
  RunValued,     \* those with one, of the flags the classifier knows
  RepoName,      \* the owner and the repository of --repo values
  PackageNames,  \* names of npm packages
  DeployWords,   \* words with "deploy" in them, and deploying programs
  Production,    \* words that name production
  Staging        \* words that name staging

\* The words from i on that are no flags.
Positionals(tokens, i) == SelectSeq(SubSeq(tokens, i, Len(tokens)), LAMBDA word : word \notin Flags)

From(tokens, i) == SubSeq(tokens, i, Len(tokens))

IsAssigned(name, word) == word \in DOMAIN Assigned /\ Assigned[word][1] = name

\* The value of the first option of these names, spelled --long, -short or
\* --long=value, or no word.
OptionValue(rest, long, short) ==
  LET i == SelectInSeq(rest, LAMBDA word : word \in {long, short} \/ IsAssigned(long, word))
  IN CASE i = 0 -> NoWord
       [] i > 0 /\ IsAssigned(long, rest[i]) -> Assigned[rest[i]][2]
       [] OTHER -> IF i < Len(rest) THEN rest[i + 1] ELSE NoWord

-----------------------------------------------------------------------------

ReadSecret(tokens) ==
  IF \/ tokens[1] = "printenv"
     \/ tokens[1] = "cat" /\ \E i \in 2..Len(tokens) : tokens[i] \in EnvFiles
    THEN Charged("read", <<"secret", "env">>) ELSE NoAnswer

ShellDelete(tokens) ==
  LET targets == Positionals(tokens, 2)
  IN CASE tokens[1] \notin {"rm", "unlink", "rmdir"} -> NoAnswer
       [] tokens[1] \in {"rm", "unlink", "rmdir"} /\ targets = <<>> -> Refused("malformed_payload")
       [] OTHER ->
            IF Len(targets) = 1 /\ targets[1] \in DOMAIN PathResource
              THEN Charged("delete", PathResource[targets[1]]) ELSE Refused("parse_unsafe")

\* Mutant: a flag the classifier does not know is stepped over alone.
RunImageGuess(rest) ==
  LET walk[i \in 1..Len(rest) + 2] ==
        CASE i > Len(rest) -> NoWord
          [] i <= Len(rest) /\ rest[i] \notin Flags -> rest[i]
          [] OTHER -> IF rest[i] \in RunValued THEN walk[i + 2] ELSE walk[i + 1]
  IN walk[1]

\* The image of docker run: the word behind the flags, if all are known.
RunImage(rest) ==
  LET walk[i \in 1..Len(rest) + 2] ==
        CASE i > Len(rest) -> NoWord
          [] i <= Len(rest) /\ rest[i] \notin Flags -> rest[i]
          [] i <= Len(rest) /\ rest[i] \in DOMAIN Assigned \cup RunSwitches -> walk[i + 1]
          [] OTHER -> IF rest[i] \in RunValued THEN walk[i + 2] ELSE NoWord
  IN walk[1]

\* The one word that is no flag.
OnlyImage(rest) ==
  LET words == Positionals(rest, 1) IN IF Len(words) = 1 THEN words[1] ELSE NoWord

ChargeImage(action, word) ==
  IF word \in DOMAIN ImageResource THEN Charged(action, <<"container">> \o ImageResource[word])
  ELSE Refused("parse_unsafe")

Docker(tokens) ==
  LET removes == Len(tokens) >= 3 /\ tokens[2] = "image" /\ tokens[3] = "rm"
      sub == IF removes THEN "rmi" ELSE tokens[2]
      rest == From(tokens, IF removes THEN 4 ELSE 3)
  IN IF tokens[1] # "docker" \/ Len(tokens) < 2 THEN NoAnswer
     ELSE CASE sub = "push" -> ChargeImage("deploy", OnlyImage(rest))
            [] sub = "rmi" -> ChargeImage("delete", OnlyImage(rest))
            [] sub = "build" -> ChargeImage("execute", OptionValue(rest, "--tag", "-t"))
            [] sub = "run" -> ChargeImage("execute", RunImage(rest))
            [] OTHER -> NoAnswer

\* gh's subcommands, each with the action and what of the repository it is of.
GhSubcommands ==
  {<<<<"pr", "merge">>, "deploy", "pr">>, <<<<"pr", "create">>, "write", "pr">>,
   <<<<"release", "create">>, "deploy", "release">>, <<<<"secret", "set">>, "write", "secret">>,
   <<<<"workflow", "run">>, "execute", "workflow">>, <<<<"workflow", "rerun">>, "execute", "workflow">>,
   <<<<"workflow", "cancel">>, "write", "workflow">>}

Gh(tokens) ==
  LET known == {row \in GhSubcommands : row[1] = SubSeq(tokens, 2, 3)}
      row == CHOOSE row \in known : TRUE
      repo == OptionValue(From(tokens, 4), "--repo", "-R")
  IN CASE tokens[1] # "gh" \/ Len(tokens) < 3 \/ known = {} -> NoAnswer
       [] tokens[1] = "gh" /\ Len(tokens) >= 3 /\ known # {} /\ repo \in DOMAIN RepoName ->
            Charged(row[2], <<"github">> \o RepoName[repo] \o <<row[3]>>)
       [] OTHER -> Refused("parse_unsafe")

\* The package of npm publish: the one workspace that is named.
Workspace(rest) ==
  LET named == {i \in DOMAIN rest : \/ rest[i] \in {"-w", "--workspace"} /\ i < Len(rest)
                                    \/ IsAssigned("--workspace", rest[i])}
      value == OptionValue(rest, "--workspace", "-w")
  IN IF Cardinality(named) = 1 /\ value \in PackageNames THEN value ELSE "_"

Npm(tokens) ==
  LET head == tokens[1]
      sub == IF Len(tokens) > 1 THEN tokens[2] ELSE NoWord
  IN CASE head = "npx" -> Charged("execute", <<"shell", "npx">>)
       [] head \in {"npm", "pnpm", "yarn"} /\ sub = "publish" ->
            Charged("deploy", <<"pkg", "npm", IF head = "npm" THEN Workspace(From(tokens, 3)) ELSE "_">>)
       [] head \in {"npm", "pnpm", "yarn"} /\ sub \in {"test", "run", "install", "ci"} ->
            Charged("execute", <<"shell", head>>)
       [] OTHER -> NoAnswer

Begins(tokens, prefixes) == \E prefix \in prefixes : IsPrefix(prefix, tokens)

Ci(tokens) ==
  CASE Begins(tokens, {<<"pytest">>, <<"tox">>, <<"nox">>, <<"go", "test">>, <<"cargo", "test">>,
                       <<"python", "-m", "pytest">>}) -> Charged("execute", <<"ci", "test">>)
    [] \/ Begins(tokens, {<<"npm">>, <<"pnpm">>, <<"yarn">>})
          /\ \E i \in 2..4 : i <= Len(tokens) /\ tokens[i] = "build"
       \/ Begins(tokens, {<<"cargo", "build">>, <<"go", "build">>}) -> Charged("execute", <<"ci", "build">>)
    [] OTHER -> NoAnswer

Platform(tokens) ==
  LET says == {tokens[i] : i \in DOMAIN tokens}
  IN CASE Begins(tokens, {<<"kubectl", "apply">>}) -> Charged("execute", <<"infra", "k8s", "apply">>)
       [] Begins(tokens, {<<"terraform", "apply">>}) -> Charged("execute", <<"infra", "terraform", "apply">>)
       [] Begins(tokens, {<<"helm", "install">>, <<"helm", "upgrade">>}) ->
            Charged("execute", <<"infra", "helm", "apply">>)
       [] tokens[1] = "vercel" /\ (Len(tokens) = 1 \/ tokens[2] \in Flags \cup {"deploy"}) ->
            Charged("deploy", <<"vercel", "app">>)
       [] tokens[1] \in {"fly", "flyctl"} /\ "deploy" \in says -> Charged("deploy", <<"fly", "app">>)
       [] tokens[1] = "railway" /\ says \cap {"up", "deploy"} # {} -> Charged("deploy", <<"railway", "app">>)
       [] OTHER -> NoAnswer

Deploy(tokens) ==
  LET says == {tokens[i] : i \in DOMAIN tokens}
      env == CASE says \cap Production # {} -> "production"
               [] says \cap Production = {} /\ says \cap Staging # {} -> "staging"
               [] OTHER -> "unknown"
  IN IF says \cap DeployWords # {} THEN Charged("execute", <<"deploy", env>>) ELSE NoAnswer

\* The classifier of git goes by the name alone, without the anchoring.
PlainGit(tokens) ==
  IF Len(tokens) >= 2 /\ tokens[1] = "git" THEN ClassifyGit(tokens) ELSE NoAnswer

\* The first classifier that has an answer decides.
ClassifyProgram(tokens) ==
  LET answers == <<ReadSecret(tokens), PlainGit(tokens), ShellDelete(tokens), Docker(tokens), Gh(tokens),
                   Npm(tokens), Ci(tokens), Platform(tokens), Deploy(tokens)>>
      first == SelectInSeq(answers, LAMBDA a : a # NoAnswer)
  IN IF tokens = <<>> \/ first = 0 THEN Unmapped(NoReason) ELSE answers[first]
=============================================================================
