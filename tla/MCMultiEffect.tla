---------------------------- MODULE MCMultiEffect ----------------------------
(* MultiEffect on every path of a few names as a single file, on all calls *)
(* over a few paths with coinciding resources, and on the tools with one   *)
(* effect.                                                                 *)
EXTENDS MultiEffect

CONSTANTS
  MaxNames,     \* bound on the names of a path
  MaxTargets    \* bound on the targets of a call

Upto(S, n) == UNION {[1..k -> S] : k \in 0..n}

MCNames == {"a", ".env", ".SSH", "tmp"}
MCLower == [name \in MCNames \cup {".."} |-> IF name = ".SSH" THEN ".ssh" ELSE name]
MCEnvNames == {".env"}
MCAppNames == {}

MCPaths == Upto(MCNames \cup {"", ".", "..", Nul}, MaxNames)

\* Two spellings of one path, a secret, an external and a bad path.
SomePaths == {<<"a">>, <<".", "a">>, <<".env">>, <<"", "tmp", "a">>, <<"..">>}

MCHostOf == ("page" :> "example.com") @@ ("other" :> "example.org") @@ ("local" :> "localhost")
            @@ ("localpage" :> "localhost") @@ ("router" :> "10.0.0.1")
MCInvalidUrls == {"http://[x"}
MCInternalHosts == {"localhost", "10.0.0.1"}
MCIdentifier == ("acme" :> "acme") @@ ("a b" :> "a-b") @@ ("_" :> "_") @@ ("api" :> "api")

SomeNames == {"acme", "a b", "...", Nul, Absent}
MethodNames == {"run_workflow", "cancel_workflow_run", "delete_workflow_run_logs", "..."}
VerbNames == {"list", "read", "write", "remove", "run", "pause", "kill", "add", "..."}
MCTexts == (SomeNames \ {Absent}) \cup MethodNames \cup VerbNames
           \cup DOMAIN MCHostOf \cup MCInvalidUrls \cup DOMAIN MCIdentifier

MCSegments == STRING

MCRules ==
  {<<"read", <<"fs", "tmp", "a">>>>, <<"write", <<"fs", "tmp", "a">>>>, <<"read", <<"secret", "env">>>>,
   <<"write", <<"github", "acme", "api", "fork">>>>, <<"execute", <<"repo", "a">>>>}

SomeArgs == SomePaths \cup {Absent}

MCRequests ==
  [tool : {"github"}, row : GithubRows, method : MethodNames \cup {Absent}, owner : SomeNames,
   repo : {"api", "...", Absent}, organization : {"acme", Nul}]
  \cup [tool : {"slack"}, row : SlackRows, channel : SomeNames]
  \cup [tool : {"process", "memory", "cronjob", "send_message"}, verb : VerbNames \cup {Absent}, id : SomeNames]
  \cup [tool : {"web_extract"},
         urls : Upto(DOMAIN MCHostOf \cup MCInvalidUrls \cup {"...", Absent}, MaxTargets)]
  \cup [tool : {"browser_navigate"}, url : DOMAIN MCHostOf \cup MCInvalidUrls \cup {Nul, Absent}]
  \cup [tool : {"fixed"}, pair : FixedPairs]
  \cup [tool : {"unknown"}]

MCCalls ==
  [tool : {"file"}, action : FileActions, path : MCPaths \cup {Absent}]
  \cup [tool : {"move_file"}, surface : {"native", "mcp"}, source : SomeArgs, destination : SomeArgs]
  \cup [tool : {"read_multiple_files"}, paths : Upto(SomeArgs, MaxTargets)]
  \cup [tool : {"patch"}, deleted : Upto(SomePaths, 1), updated : Upto(SomePaths, 1),
        added : Upto(SomePaths, 2), path : {<<"a">>, Absent}]
  \cup [tool : {"fork_repository"}, owner : SomeNames, repo : {"api", "...", Absent}, organization : SomeNames]
  \cup [tool : {"single"}, request : MCRequests]
=============================================================================
