----------------------------- MODULE MultiEffect -----------------------------
(***************************************************************************)
(* resolve_tool_call for everything but the terminal: which pairs a tool   *)
(* call has to be permitted (mapping.py, filesystem.py, mcp.py).  A move,  *)
(* a read of several files, a patch and a fork have several effects, and   *)
(* an operator rule that matches the call is united with them.             *)
(*                                                                         *)
(* The loops over a call's targets and over the effects to unite are       *)
(* stepped through one element at a time, for lists of any length.         *)
(***************************************************************************)
EXTENDS SingleEffect

CONSTANTS
  Paths,    \* paths
  Calls,    \* tool calls
  Rules     \* pairs the operators' rules assign

PathArgs == Paths \cup {Absent}
FileActions == {"read", "write", "delete"}

ResourceOf == [path \in Paths |-> RepoOrSecretResource(path)]

\* "file" is any of the tools with one path and the action of its table row.
CallType ==
  [tool : {"file"}, action : FileActions, path : PathArgs]
  \cup [tool : {"move_file"}, surface : {"native", "mcp"}, source : PathArgs, destination : PathArgs]
  \cup [tool : {"read_multiple_files"}, paths : Seq(PathArgs)]
  \cup [tool : {"patch"}, deleted : Seq(Paths), updated : Seq(Paths), added : Seq(Paths), path : PathArgs]
  \cup [tool : {"fork_repository"}, owner : Argument, repo : Argument, organization : Argument]
  \cup [tool : {"single"}, request : RequestType]

ASSUME MultiEffectAssumption ==
  /\ Absent \notin Paths
  /\ Paths \subseteq Seq(Segments \cup {"", ".", "..", Nul})
  /\ Calls \subseteq CallType
  /\ Rules \subseteq Pairs

VARIABLES
  call, rule,      \* the call and the pair of the rule that matches it, or NoPair
  phase,           \* start, collect, built, union, done
  pos,             \* the loop's position
  requirements,    \* the pairs the loop has collected
  builtin,         \* what the classifiers say of the call
  answer           \* what resolve_tool_call returns

vars == <<call, rule, phase, pos, requirements, builtin, answer>>

Pending == [kind |-> "pending"]

Init ==
  /\ call \in Calls
  /\ rule \in Rules \cup {NoPair}
  /\ phase = "start"
  /\ pos = 1
  /\ requirements = <<>>
  /\ builtin = Pending
  /\ answer = Pending

\* Mutant: what is in the list already is listed again.
AppendAlways(pair) == Append(requirements, pair)

\* The loops leave out what they have.
AppendNew(pair) ==
  IF pair \in ToSet(requirements) THEN requirements ELSE Append(requirements, pair)

-----------------------------------------------------------------------------
(* The classifiers without a loop. *)

\* Mutant: a path without a resource is charged all the same.
ResolvePathUnchecked(action, path) ==
  IF path = Absent THEN Refused("malformed_payload")
                   ELSE Charged(action, ResourceOf[path])

ResolvePath(action, path) ==
  CASE path = Absent -> Refused("malformed_payload")
    [] path # Absent /\ ResourceOf[path] = NoResource -> Refused("parse_unsafe")
    [] OTHER -> Charged(action, ResourceOf[path])

\* The primary pair is the destination's, or on the MCP surface a secret
\* source's; the read and the deletion of the source come with it.
ResolveMove(c) ==
  LET source == ResourceOf[c.source]
      destination == ResourceOf[c.destination]
      primary == IF c.surface = "mcp" /\ IsSecret(source) THEN source ELSE destination
      taken == <<<<"read", source>>, <<"delete", source>>>>
  IN CASE Absent \in {c.source, c.destination} -> Refused("malformed_payload")
       [] Absent \notin {c.source, c.destination} /\ NoResource \in {source, destination} ->
            Refused("parse_unsafe")
       [] OTHER ->
            Mapped(<<"write", primary>>,
                   IF destination = primary THEN taken ELSE Append(taken, <<"write", destination>>))

\* A fork reads what it copies and writes into a namespace.
ForkEffects(owner, repo, organization) ==
  <<<<"write", <<"github", owner, repo, "fork">>>>,
    <<"read", <<"github", owner, repo, "contents">>>>,
    <<"write", <<"github", Namespace(organization), Coarse, "repo">>>>>>

ResolveFork(c) ==
  LET effects == ForkEffects(Safe(c.owner), Safe(c.repo), c.organization)
  IN IF Absent \in {Safe(c.owner), Safe(c.repo)} THEN Unmapped(NoReason)
     ELSE Mapped(Head(effects), Tail(effects))

Looping == {"read_multiple_files", "patch"}

ResolveAtOnce ==
  /\ phase = "start"
  /\ call.tool \notin Looping
  /\ builtin' = CASE call.tool = "file" -> ResolvePath(call.action, call.path)
                  [] call.tool = "move_file" -> ResolveMove(call)
                  [] call.tool = "fork_repository" -> ResolveFork(call)
                  [] call.tool = "single" -> ResolveSingle(call.request)
  /\ phase' = "built"
  /\ UNCHANGED <<call, rule, pos, requirements, answer>>

-----------------------------------------------------------------------------
(* Reads of several files and patches. *)

\* What the loop goes over: an action and a path argument each.  A patch
\* lists its deletions before its updates and additions.
Tagged(action, paths) == [i \in 1..Len(paths) |-> <<action, paths[i]>>]

Targets ==
  CASE call.tool = "read_multiple_files" -> Tagged("read", call.paths)
    [] call.tool = "patch" ->
         Tagged("delete", call.deleted) \o Tagged("write", call.updated) \o Tagged("write", call.added)
    [] OTHER -> <<>>

\* Without a target a multi read is malformed and a patch is a write of its
\* path argument.
ResolveWithoutTargets ==
  /\ phase = "start"
  /\ call.tool \in Looping
  /\ Targets = <<>>
  /\ builtin' = IF call.tool = "patch" THEN ResolvePath("write", call.path)
                                       ELSE Refused("malformed_payload")
  /\ phase' = "built"
  /\ UNCHANGED <<call, rule, pos, requirements, answer>>

BeginTargets ==
  /\ phase = "start"
  /\ call.tool \in Looping
  /\ Targets # <<>>
  /\ phase' = "collect"
  /\ UNCHANGED <<call, rule, pos, requirements, builtin, answer>>

AtTarget == phase = "collect" /\ pos <= Len(Targets)

TakeTarget ==
  /\ AtTarget
  /\ ResolvePath(Targets[pos][1], Targets[pos][2]).kind = "mapped"
  /\ requirements' = AppendNew(ResolvePath(Targets[pos][1], Targets[pos][2]).primary)
  /\ pos' = pos + 1
  /\ UNCHANGED <<call, rule, phase, builtin, answer>>

\* One target that cannot be expressed refuses the whole call.
RefuseTarget ==
  /\ AtTarget
  /\ ResolvePath(Targets[pos][1], Targets[pos][2]).kind = "error"
  /\ builtin' = ResolvePath(Targets[pos][1], Targets[pos][2])
  /\ phase' = "built"
  /\ UNCHANGED <<call, rule, pos, requirements, answer>>

\* The primary pair: the first secret read, the first write of a patch, or
\* else the first pair.
Leads(pair) ==
  IF call.tool = "patch" THEN pair[1] = "write" ELSE IsSecret(pair[2])

\* Mutant: the first pair is always the primary one.
FirstPair == 1

LeadIndex ==
  IF \E i \in 1..Len(requirements) : Leads(requirements[i])
    THEN SelectInSeq(requirements, Leads)
    ELSE 1

\* Mutant: only the first pair of a patch or a multi read is charged.
FinishWithFirst ==
  /\ phase = "collect"
  /\ pos > Len(Targets)
  /\ builtin' = Mapped(requirements[LeadIndex], <<>>)
  /\ phase' = "built"
  /\ UNCHANGED <<call, rule, pos, requirements, answer>>

FinishTargets ==
  /\ phase = "collect"
  /\ pos > Len(Targets)
  /\ builtin' = Mapped(requirements[LeadIndex], RemoveAt(requirements, LeadIndex))
  /\ phase' = "built"
  /\ UNCHANGED <<call, rule, pos, requirements, answer>>

-----------------------------------------------------------------------------
(* The operators' rule. *)

Answer(result) ==
  /\ answer' = result
  /\ phase' = "done"
  /\ UNCHANGED <<call, rule, pos, requirements, builtin>>

UseBuiltin == phase = "built" /\ rule = NoPair /\ Answer(builtin)

\* Mutant: a rule stands for a call that was refused.
OverrideRefusal ==
  /\ phase = "built"
  /\ rule # NoPair
  /\ builtin.kind = "error"
  /\ Answer(Mapped(rule, <<>>))

\* No pair and no leave to map the call: a refusal, or an exception where
\* the classifiers run, which they do for a call with a rule too.
Stopped(result) == result.kind \in {"error", "raise"}

KeepRefusal ==
  /\ phase = "built"
  /\ rule # NoPair
  /\ Stopped(builtin)
  /\ Answer(builtin)

Compound(result) == result.kind = "mapped" /\ result.also_requires # <<>>

\* The rule stands for a call the classifiers do not know, and renames one
\* with a single effect.
KeepRule ==
  /\ phase = "built"
  /\ rule # NoPair
  /\ ~Stopped(builtin)
  /\ ~Compound(builtin)
  /\ Answer(Mapped(rule, <<>>))

BeginUnion ==
  /\ phase = "built"
  /\ rule # NoPair
  /\ Compound(builtin)
  /\ pos' = 1
  /\ requirements' = <<>>
  /\ phase' = "union"
  /\ UNCHANGED <<call, rule, builtin, answer>>

\* Mutant: only also_requires is united, the classifier's primary is lost.
ToUniteWithoutPrimary == builtin.also_requires

\* The classifier's own primary comes first and is never lost.
ToUnite == Requirements(builtin)

Unite ==
  /\ phase = "union"
  /\ pos <= Len(ToUnite)
  /\ requirements' = IF ToUnite[pos] = rule THEN requirements ELSE AppendNew(ToUnite[pos])
  /\ pos' = pos + 1
  /\ UNCHANGED <<call, rule, phase, builtin, answer>>

FinishUnion ==
  /\ phase = "union"
  /\ pos > Len(ToUnite)
  /\ Answer(Mapped(rule, requirements))

\* A resolution stops only where it has answered.
Finished == phase = "done" /\ UNCHANGED vars

Next ==
  \/ ResolveAtOnce
  \/ ResolveWithoutTargets \/ BeginTargets \/ TakeTarget \/ RefuseTarget \/ FinishTargets
  \/ UseBuiltin \/ KeepRefusal \/ KeepRule \/ BeginUnion \/ Unite \/ FinishUnion
  \/ Finished

Spec == Init /\ [][Next]_vars

-----------------------------------------------------------------------------
(* What the operations do, independently of how they are resolved. *)

\* The path arguments a call acts on, each with the action.
Touches(c) ==
  CASE c.tool = "file" -> {<<c.action, c.path>>}
    [] c.tool = "move_file" ->
         {<<"read", c.source>>, <<"delete", c.source>>, <<"write", c.destination>>}
    [] c.tool = "read_multiple_files" -> {"read"} \X ToSet(c.paths)
    [] c.tool = "patch" ->
         LET written == ToSet(c.updated) \cup ToSet(c.added)
         IN IF ToSet(c.deleted) \cup written = {}
              THEN {<<"write", c.path>>}
              ELSE ({"delete"} \X ToSet(c.deleted)) \cup ({"write"} \X written)
    [] OTHER -> {}

Inexpressible(path) == path = Absent \/ ResourceOf[path] = NoResource

\* A request of one effect that does not say enough: a verb or an id is
\* missing where it decides the pair, an id has a NUL, a URL has no host.
Unaskable(r) ==
  \/ r.tool \in {"process", "cronjob"} /\ (r.verb = Absent \/ (r.verb # "list" /\ r.id = Nul))
  \/ r.tool = "memory" /\ (r.verb \notin DOMAIN Verbs.memory \/ r.id = Nul)
  \/ r.tool = "send_message" /\ r.verb # "list" /\ (r.id \notin DOMAIN Identifier \/ r.id = Nul)
  \/ r.tool = "web_extract" /\ (r.urls = <<>> \/ \E url \in ToSet(r.urls) : url \notin DOMAIN HostOf)
  \/ r.tool = "browser_navigate" /\ r.url \notin DOMAIN HostOf

\* The URLs a request fetches.
Fetched(r) ==
  CASE r.tool = "web_extract" -> ToSet(r.urls)
    [] r.tool = "browser_navigate" -> {r.url}
    [] OTHER -> {}

\* A call with an argument nobody can be asked about.
MustRefuse(c) ==
  \/ \E touch \in Touches(c) : Inexpressible(touch[2])
  \/ c.tool = "read_multiple_files" /\ c.paths = <<>>
  \/ c.tool = "single" /\ Unaskable(c.request)

\* Every pair a call has to be permitted if it is not refused.
Demands(c) ==
  {<<touch[1], ResourceOf[touch[2]]>> : touch \in Touches(c)}
  \cup (IF c.tool = "move_file" /\ c.surface = "mcp" /\ IsSecret(ResourceOf[c.source])
          THEN {<<"write", ResourceOf[c.source]>>} ELSE {})
  \cup (IF c.tool = "fork_repository" /\ Absent \notin {Safe(c.owner), Safe(c.repo)}
          THEN {<<"write", <<"github", Safe(c.owner), Safe(c.repo), "fork">>>>,
                <<"read", <<"github", Safe(c.owner), Safe(c.repo), "contents">>>>,
                <<"write", <<"github", Namespace(c.organization), Coarse, "repo">>>>}
          ELSE {})
  \cup (IF c.tool = "single" THEN Effects(ResolveSingle(c.request)) ELSE {})

TypeOK ==
  /\ call \in Calls
  /\ rule \in Rules \cup {NoPair}
  /\ phase \in {"start", "collect", "built", "union", "done"}
  /\ pos \in Nat \ {0}
  /\ requirements \in Seq(Pairs)
  /\ builtin \in MappingResults(Pairs) \cup {Pending}
  /\ answer \in MappingResults(Pairs) \cup {Pending}
  /\ phase = "done" <=> answer # Pending

\* Without a rule a mapped call is charged exactly its effects: not one
\* target of a patch, a multi read, a move or a fork goes unasked, and none
\* is invented.
EveryEffectCharged ==
  phase = "done" /\ rule = NoPair /\ answer.kind = "mapped" => Effects(answer) = Demands(call)

\* A rule adds its pair to a call of several effects and takes none away,
\* the classifier's primary pair included.
RuleSubtractsNothing ==
  phase = "done" /\ rule # NoPair /\ answer.kind = "mapped" /\ (\E p, q \in Demands(call) : p # q)
    => Effects(answer) = Demands(call) \cup {rule}

\* A call with one target that cannot be expressed is not mapped, wherever
\* that target stands, whatever the others are and whatever rule matches:
\* the call is refused, or for a URL that urlparse raises on the resolution
\* ends in the exception (resources.py:80).  No other call is refused.
RefusalStands ==
  phase = "done" =>
    /\ Stopped(answer) <=> MustRefuse(call)
    /\ answer.kind = "raise" => call.tool = "single" /\ Fetched(call.request) \cap InvalidUrls # {}

\* The service is asked no question twice: no pair is listed twice, however
\* the targets coincide and the rule's pair with them.
AskedOnce ==
  phase = "done" => IsInjective(Requirements(answer))

\* The pair the logs report: a secret among the files read, a write among a
\* patch's operations, a secret source moved over MCP, the rule's pair.
PrimaryPair ==
  phase = "done" /\ answer.kind = "mapped" =>
    /\ rule # NoPair => answer.primary = rule
    /\ rule = NoPair /\ call.tool \in Looping /\ (\E pair \in Effects(answer) : Leads(pair))
         => Leads(answer.primary)
    /\ rule = NoPair /\ call.tool = "move_file"
         => answer.primary[2] = IF call.surface = "mcp" /\ IsSecret(ResourceOf[call.source])
                                  THEN ResourceOf[call.source] ELSE ResourceOf[call.destination]

\* Directories above the one a path starts from, as many as it can climb,
\* with a name that is in no path.
Above(path) == [i \in DOMAIN path |-> Nul]

\* Where a path leads, name by name.
WalkName(at, name) ==
  CASE name \in {"", "."} -> at
    [] name = ".." -> Front(at)
    [] OTHER -> Append(at, name)

Reached(path) == FoldLeft(WalkName, Above(path), path)

\* A file is charged as the one its path leads to, however it is spelled:
\* whether the path leaves its tree is decided where it ends, and no
\* spelling makes another resource of a secret or of the tree's parent
\* (resources.py: the escape is decided after the fold).
FileIsCharged ==
  phase = "done" /\ rule = NoPair /\ call.tool = "file" /\ call.path # Absent
  /\ Nul \notin ToSet(call.path) =>
    LET path == call.path
        inside == IsStrictPrefix(Above(path), Reached(path))
        rest == SubSeq(Reached(path), Len(path) + 1, Len(Reached(path)))
        resource == answer.primary[2]
    IN /\ answer.kind = "mapped" <=> inside
       /\ inside /\ IsSecret(resource) => RepoOrSecretResource(rest) = resource
       /\ inside /\ ~IsSecret(resource) =>
            /\ resource = <<IF IsAbsolute(path) THEN "fs" ELSE "repo">> \o rest
            /\ ~IsSecret(RepoOrSecretResource(rest))

\* A repository is named as the call names it, or is a new one.
NamesRepository(target, c) ==
  /\ Len(target) = 4
  /\ target[4] = "repo" \/ (target[2] = Safe(c.owner) /\ target[3] = Safe(c.repo))

\* A change on GitHub or a message says where: its repository or channel is
\* the one the call names, and only a new repository may go into a place
\* the call leaves open (mcp.py: a read may be charged for all of GitHub).
ChangesNameTheirTarget ==
  phase = "done" /\ rule = NoPair /\ answer.kind = "mapped" =>
    \A pair \in Effects(answer) : pair[1] # "read" =>
      /\ call.tool = "fork_repository" => NamesRepository(pair[2], call)
      /\ call.tool = "single" /\ call.request.tool = "github" => NamesRepository(pair[2], call.request)
      /\ call.tool = "single" /\ call.request.tool = "slack" =>
           pair[2] = <<"chat", "slack", call.request.channel>>

\* A fetch of several pages is charged as external only if none of them is
\* internal, as internal only if all are, and as one host only if it is.
InternalIsVisible ==
  phase = "done" /\ rule = NoPair /\ answer.kind = "mapped"
  /\ call.tool = "single" /\ call.request.tool = "web_extract" =>
    \A pair \in Effects(answer) :
      LET hosts == {HostOf[url] : url \in ToSet(call.request.urls)}
          resource == pair[2]
      IN /\ resource[2] = "external" => hosts \cap InternalHosts = {}
         /\ resource[2] = "internal" => hosts \subseteq InternalHosts
         /\ resource[3] = "multiple" \/ hosts = {resource[3]}
=============================================================================
