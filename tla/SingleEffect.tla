---------------------------- MODULE SingleEffect ----------------------------
(***************************************************************************)
(* The tools with one effect (mapping.py, mcp.py): what a call is charged  *)
(* with and when it is refused or left unmapped.  A tool of a table is its *)
(* row there.                                                              *)
(***************************************************************************)
EXTENDS Resources

CONSTANTS
  Texts,     \* arguments that are strings, verbs in lower case
  Segments   \* segments of resources

Argument == Texts \cup {Absent}

Coarse == "_"
Actions == {"read", "write", "execute", "deploy", "delete", "send"}
Pairs == Actions \X (Seq(Segments) \ {NoResource})

\* Rows of the GitHub table: scope, action and kind.  An action may be left
\* to an argument.
GithubRows ==
  {"global"} \X {"read"} \X {"context", "repo", "contents"}
  \cup {"owner"} \X {"read"} \X {"context", "issue"}
  \cup {"flex"} \X {"read"} \X {"issue", "pr"}
  \cup {"namespace"} \X {"write"} \X {"repo"}
  \cup {"repo"} \X {"read"}
         \X {"contents", "release", "collaborator", "issue", "pr", "workflow", "security", "secret"}
  \cup {"repo"} \X {"write"} \X {"contents", "issue", "pr", "workflow"}
  \cup {"repo"} \X {"deploy"} \X {"release", "pr"}
  \cup {"repo"} \X {"delete"} \X {"contents", "workflow"}
  \cup {"repo"} \X {"execute", "method"} \X {"workflow"}

GithubMethods ==
  [run_workflow |-> "execute", rerun_workflow_run |-> "execute", rerun_failed_jobs |-> "execute",
   cancel_workflow_run |-> "write", delete_workflow_run_logs |-> "delete"]

\* Rows of the Slack table: action and scope.
SlackRows == {"read"} \X {"workspace", "channel", "search"} \cup {"send"} \X {"channel"}

\* The tools that are charged one pair whatever their arguments are.
FixedPairs ==
  {<<"execute", <<"code", "python">>>>, <<"read", <<"memory", "search">>>>,
   <<"read", <<"session", "search">>>>, <<"execute", <<"agent", "delegate">>>>,
   <<"send", <<"web", "search">>>>, <<"execute", <<"browser", "cdp">>>>,
   <<"read", <<"browser", "page">>>>, <<"execute", <<"browser", "action">>>>,
   <<"read", <<"fs", "_allowed-dirs">>>>}

ASSUME SingleEffectAssumption ==
  /\ Texts \subseteq Segments \cup {Nul}
  /\ Absent \notin Segments
  /\ Nul \notin DOMAIN HostOf \cup InvalidUrls
  /\ Absent \notin DOMAIN HostOf \cup DOMAIN Identifier \cup InvalidUrls
  /\ InvalidUrls \cap DOMAIN HostOf = {}
  /\ HostOf \in [DOMAIN HostOf -> Segments]
  /\ Identifier \in [DOMAIN Identifier -> Segments \ {NoName}]
  /\ {row[3] : row \in GithubRows} \subseteq Segments
  /\ FixedPairs \subseteq Pairs
  /\ {Coarse, "github", "fork", "contents", "repo", "chat", "slack", "process", "list", "memory", "cron",
      "jobs", "job", "message", "unknown", "new", "net", "internal", "external", "mixed", "multiple"}
     \subseteq Segments
  /\ {"fs", "secret"} \cup SecretKinds \subseteq Segments

RequestType ==
  [tool : {"github"}, row : GithubRows, method : Argument, owner : Argument, repo : Argument,
   organization : Argument]
  \cup [tool : {"slack"}, row : SlackRows, channel : Argument]
  \cup [tool : {"process", "memory", "cronjob", "send_message"}, verb : Argument, id : Argument]
  \cup [tool : {"web_extract"}, urls : Seq(Argument)]
  \cup [tool : {"browser_navigate"}, url : Argument]
  \cup [tool : {"fixed"}, pair : FixedPairs]
  \cup [tool : {"unknown"}]

-----------------------------------------------------------------------------
(* GitHub and Slack. *)

\* _string_field: a name as it is written.
Written(argument) == IF argument = Nul THEN Absent ELSE argument

\* _safe: a name as an identifier.
Safe(argument) == LET name == SafeIdentifier(argument, NoName) IN IF name = NoName THEN Absent ELSE name

\* Where a repository is created, a coarse place if it is not said.
Namespace(organization) == IF Written(organization) = Absent THEN Coarse ELSE Written(organization)

\* Mutant: a repository that is not named does not matter.
UnaddressedNever(action, scope, owner, repo) == FALSE

\* Changes must say what they change.
Unaddressed(action, scope, owner, repo) ==
  /\ action # "read"
  /\ \/ scope = "owner" /\ owner = Absent
     \/ scope = "repo" /\ Absent \in {owner, repo}

GithubResource(action, scope, kind, owner, repo, organization) ==
  CASE scope = "global" -> <<"github", Coarse, kind>>
    [] scope = "namespace" -> <<"github", Namespace(organization), Coarse, kind>>
    [] scope \in {"flex", "repo"} /\ Absent \notin {owner, repo} -> <<"github", owner, repo, kind>>
    [] OTHER -> IF owner = Absent THEN <<"github", Coarse, kind>> ELSE <<"github", owner, Coarse, kind>>

ResolveGithub(c) ==
  LET scope == c.row[1]
      byMethod == c.row[2] = "method"
      action == IF byMethod THEN GithubMethods[c.method] ELSE c.row[2]
      owner == Safe(c.owner)
      repo == Safe(c.repo)
  IN IF (byMethod /\ c.method \notin DOMAIN GithubMethods) \/ Unaddressed(action, scope, owner, repo)
       THEN Unmapped(NoReason)
       ELSE Charged(action, GithubResource(action, scope, c.row[3], owner, repo, c.organization))

ResolveSlack(c) ==
  LET channel == IF c.row[2] = "workspace" THEN Absent ELSE Written(c.channel)
  IN CASE c.row[1] = "send" /\ channel = Absent -> Unmapped(NoReason)
       [] channel # Absent -> Charged(c.row[1], <<"chat", "slack", channel>>)
       [] OTHER -> Charged(c.row[1], <<"chat", "slack">>)

-----------------------------------------------------------------------------
(* Processes, memory, jobs and messages. *)

Verbs ==
  [process |-> [poll |-> "read", log |-> "read", wait |-> "read", write |-> "write", submit |-> "write",
                kill |-> "delete", close |-> "delete", run |-> "execute"],
   memory |-> [add |-> "write", replace |-> "write", remove |-> "delete", search |-> "read",
               read |-> "read", list |-> "read"],
   cronjob |-> [create |-> "write", update |-> "write", pause |-> "write", resume |-> "write",
                remove |-> "delete", delete |-> "delete", run |-> "execute", trigger |-> "execute"]]

\* What is listed, whose member a call names, and which one if it names none.
Listed ==
  [process |-> <<"process", "list">>, cronjob |-> <<"cron", "jobs">>, send_message |-> <<"message", "list">>]
Kept == [process |-> <<"process">>, memory |-> <<"memory">>, cronjob |-> <<"cron", "job">>]
Unnamed == [process |-> "unknown", memory |-> "memory", cronjob |-> "new"]

ResolveVerb(c) ==
  LET id == SafeIdentifier(c.id, Unnamed[c.tool])
      verbs == Verbs[c.tool]
  IN IF c.tool # "memory" /\ c.verb = Absent THEN Refused("malformed_payload")
     ELSE IF c.tool \in DOMAIN Listed /\ c.verb = "list" THEN Charged("read", Listed[c.tool])
     ELSE CASE id = NoName -> Refused("parse_unsafe")
            [] id # NoName /\ c.verb \in DOMAIN verbs -> Charged(verbs[c.verb], Kept[c.tool] \o <<id>>)
            [] OTHER -> IF c.tool = "memory" THEN Refused("malformed_payload") ELSE Unmapped(NoReason)

\* Whatever is not a listing sends.
ResolveMessage(c) ==
  CASE c.verb = "list" -> Charged("read", Listed[c.tool])
    [] c.verb # "list" /\ Safe(c.id) = Absent -> Refused("malformed_payload")
    [] OTHER -> Charged("send", <<"message", Safe(c.id)>>)

\* Fetching a page sends its address.  What is not a text is refused before
\* a URL is parsed, and an invalid URL ends the call in an exception.
ResolveFetch(urls) ==
  IF Absent \in ToSet(urls) THEN Refused("malformed_payload")
  ELSE IF UrlparseRaises(urls) THEN Raised
  ELSE IF NetworkResource(urls) = NoResource THEN Refused("malformed_payload")
  ELSE Charged("send", NetworkResource(urls))

ResolveSingle(c) ==
  CASE c.tool = "github" -> ResolveGithub(c)
    [] c.tool = "slack" -> ResolveSlack(c)
    [] c.tool \in {"process", "memory", "cronjob"} -> ResolveVerb(c)
    [] c.tool = "send_message" -> ResolveMessage(c)
    [] c.tool = "web_extract" -> ResolveFetch(c.urls)
    [] c.tool = "browser_navigate" -> ResolveFetch(<<c.url>>)
    [] c.tool = "fixed" -> Mapped(c.pair, <<>>)
    [] c.tool = "unknown" -> Unmapped(NoReason)
=============================================================================
