------------------------------- MODULE Boundary -------------------------------
(***************************************************************************)
(* pre_tool_call as a whole (boundary.py), with the authorization service  *)
(* it asks and the two logs it writes.  The configuration snapshot is that *)
(* of ConfigCache, whose steps are steps of this module.                   *)
(*                                                                         *)
(* One call at a time goes through the phases                              *)
(*   config -> ask/wait, once per requirement -> record -> cover -> return *)
(* and the service, the network and the operators act in between.          *)
(***************************************************************************)
EXTENDS MappingResult, EnforceClient

CONSTANTS
  NSources, Valid, Malformed, Crashing, Missing, Recurrent, None,   \* ConfigCache
  Pairs,            \* <<action, resource>> pairs
  Calls,            \* tool calls: a tool name with its arguments
  Resolve(_, _),    \* resolve_tool_call, of a call and a snapshot
  Environments,     \* the VINCTOR_ variables the plugin may be started with
  Garbled,          \* replies a broken service or proxy may put in place of its own:
                    \* denials with any audit id, but no permit with evidence
  MaxCalls          \* bound on the calls of a behaviour

VARIABLES disk, held, config, config_stamp, pc, startup, pos, stamp, parsed, seen

Cache == INSTANCE ConfigCache

cacheVars == <<disk, held, config, config_stamp, pc, startup, pos, stamp, parsed, seen>>

VARIABLES
  env,        \* self.env
  grants,     \* the pairs the service's grants cover now
  trail,      \* the service's audit events; an event's id is its index
  inflight,   \* requests sent and neither decided nor lost
  calls,      \* how many calls there have been
  call,       \* the present call
  phase,      \* where pre_tool_call is
  asked,      \* how many of the call's requirements have been permitted
  reply,      \* the answer to the present request that has arrived, or NoReply
  outcome,    \* verdict and audit id for the call so far
  reason,     \* why the call blocks, "" if it does not
  decisions,  \* history: the rows the call has added to the decision log
  coverage    \* history: the rows the call has added to the coverage log

serviceVars == <<grants, trail, inflight>>
callVars == <<calls, call, phase, asked, reply, outcome, reason, decisions, coverage>>
vars == <<cacheVars, env, serviceVars, callVars>>

EnvironmentType ==
  [auth : BOOLEAN, unmapped_policy : STRING, decision_log : BOOLEAN, coverage_log : BOOLEAN]

ASSUME BoundaryAssumption ==
  /\ Environments \subseteq EnvironmentType
  /\ MaxCalls \in Nat
  /\ \A r \in Garbled : ~Permits(r) /\ r.audit_event_id \in Int
  /\ \A c \in Calls, g \in [1..NSources -> Valid] : Resolve(c, g) \in MappingResults(Pairs)
  /\ Cache!ConfigAssumption

NoReply == Broken("no reply")
NoOutcome == [verdict |-> "none", audit_event_id |-> NoField]
Failure == [verdict |-> "error", audit_event_id |-> NoField]
Escape == [verdict |-> "raise", audit_event_id |-> NoField]   \* an exception leaves the hook

\* resolve_tool_call's answer; the snapshot cannot change during the call.
mapping == Resolve(call, config)

\* The public reason of a block directive (_block).
PublicBlockReasons ==
  {"action_denied", "missing_auth_env", "service_unavailable", "invalid_config",
   "parse_unsafe", "malformed_payload", "unmapped_tool"}
PublicReason(why) == IF why \in PublicBlockReasons THEN why ELSE "service_unavailable"

Init ==
  /\ Cache!Init
  /\ env \in Environments
  /\ grants \in SUBSET Pairs
  /\ trail = <<>>
  /\ inflight = {}
  /\ calls = 0
  /\ call \in Calls
  /\ phase = "config"
  /\ asked = 0
  /\ reply = NoReply
  /\ outcome = NoOutcome
  /\ reason = ""
  /\ decisions = <<>>
  /\ coverage = <<>>

-----------------------------------------------------------------------------
(* The call, up to the questions it asks. *)

PreToolCall(c) ==
  /\ calls < MaxCalls
  /\ Cache!PreToolCall
  /\ calls' = calls + 1
  /\ call' = c
  /\ UNCHANGED <<env, serviceVars, phase, asked, reply, outcome, reason, decisions, coverage>>

\* The steps that make the snapshot available, or fail to.
CheckConfig ==
  /\ \/ Cache!StatSource \/ Cache!ServeCached \/ Cache!NoticeChange \/ Cache!StartReading
     \/ Cache!ReadValid \/ Cache!ReadInvalid \/ Cache!ReadRaises \/ Cache!FinishLoad
  /\ UNCHANGED <<env, serviceVars, callVars>>

\* The call is settled without a question: it blocks, or why is "".
Settle(why) ==
  /\ reason' = why
  /\ phase' = "cover"
  /\ UNCHANGED <<cacheVars, env, serviceVars, calls, call, asked, reply, outcome, decisions, coverage>>

InvalidConfig == phase = "config" /\ pc = "blocked" /\ Settle("invalid_config")

\* An exception leaves pre_tool_call, which has recorded nothing.
Raise ==
  /\ outcome' = Escape
  /\ phase' = "return"
  /\ UNCHANGED <<cacheVars, env, serviceVars, calls, call, asked, reply, reason, decisions, coverage>>

\* Only a ConfigError of the load is handled,
ConfigRaises == phase = "config" /\ pc = "raised" /\ Raise

\* The rules are in force and the call is resolved by them.
Resolved(kind) == phase = "config" /\ pc = "served" /\ mapping.kind = kind

\* unsafe_shell blocks under every policy; only the exact value "block" makes
\* the other unmapped calls block.
MustBlock == mapping.reason = "unsafe_shell" \/ env.unmapped_policy = "block"

\* and no exception of the resolution.
ResolutionRaises == Resolved("raise") /\ Raise

BlockUnmapped == Resolved("unmapped") /\ MustBlock /\ Settle("unmapped_tool")

DeferUnmapped == Resolved("unmapped") /\ ~MustBlock /\ Settle("")

MappingError == Resolved("error") /\ Settle(mapping.reason)

MissingAuth == Resolved("mapped") /\ ~env.auth /\ Settle("missing_auth_env")

BeginAsking ==
  /\ Resolved("mapped")
  /\ env.auth
  /\ phase' = "ask"
  /\ UNCHANGED <<cacheVars, env, serviceVars, calls, call, asked, reply, outcome, reason, decisions, coverage>>

-----------------------------------------------------------------------------
(* Asking, one requirement after the other. *)

Question == [call |-> calls, index |-> asked + 1, pair |-> Requirements(mapping)[asked + 1]]

Ask ==
  /\ phase = "ask"
  /\ inflight' = inflight \cup {Question}
  /\ reply' = NoReply
  /\ phase' = "wait"
  /\ UNCHANGED <<cacheVars, env, grants, trail, calls, call, asked, outcome, reason, decisions, coverage>>

\* Mutant: the primary's permit stands for the other effects.
ConcludeWithPrimary(answer) ==
  /\ outcome' = answer
  /\ asked' = asked + 1
  /\ phase' = "record"
  /\ UNCHANGED <<cacheVars, env, serviceVars, calls, call, reply, reason, decisions, coverage>>

\* Mutant: the loop goes on after a denial and the last answer counts.
ConcludeWithLast(answer) ==
  /\ outcome' = answer
  /\ asked' = asked + 1
  /\ phase' = IF asked + 1 < Len(Requirements(mapping)) THEN "ask" ELSE "record"
  /\ UNCHANGED <<cacheVars, env, serviceVars, calls, call, reply, reason, decisions, coverage>>

\* The loop over also_requires goes on with a permit and ends with the last
\* one; a denial or a failure leaves it at once.
Conclude(answer) ==
  /\ outcome' = answer
  /\ IF answer.verdict = "permit"
       THEN /\ asked' = asked + 1
            /\ phase' = IF asked + 1 < Len(Requirements(mapping)) THEN "ask" ELSE "record"
       ELSE /\ asked' = asked
            /\ phase' = "record"
  /\ UNCHANGED <<cacheVars, env, serviceVars, calls, call, reply, reason, decisions, coverage>>

Receive == phase = "wait" /\ reply # NoReply /\ Conclude(Enforce(reply))

\* Mutant: a service that does not answer lets the call through.
TimeoutFailsOpen == phase = "wait" /\ Conclude([verdict |-> "permit", audit_event_id |-> NoField])

\* Mutant: a question that was not answered in time is asked again.
TimeoutRetry ==
  /\ phase = "wait"
  /\ phase' = "ask"
  /\ UNCHANGED <<cacheVars, env, serviceVars, calls, call, asked, reply, outcome, reason, decisions, coverage>>

\* Mutant: the opener has no timeout.
NoTimeout == FALSE

\* The opener gives up (TimeoutError, an OSError); the request may live on.
Timeout == phase = "wait" /\ Conclude(Enforce(Broken("OSError")))

-----------------------------------------------------------------------------
(* Ending the call. *)

ReasonOf(verdict) ==
  CASE verdict = "permit" -> ""
    [] verdict = "deny"   -> "action_denied"
    [] OTHER              -> "service_unavailable"

\* _record: the pair logged is the primary one, whatever was asked last.
Record ==
  /\ phase = "record"
  /\ decisions' = IF env.decision_log
                    THEN Append(decisions, [decision |-> outcome.verdict,
                                            pair |-> mapping.primary,
                                            audit_event_id |-> outcome.audit_event_id])
                    ELSE decisions
  /\ reason' = ReasonOf(outcome.verdict)
  /\ phase' = "cover"
  /\ UNCHANGED <<cacheVars, env, serviceVars, calls, call, asked, reply, outcome, coverage>>

\* Mutant: the recorder has written the row when it raises.
RecordRaisesLate ==
  /\ phase = "record"
  /\ env.decision_log
  /\ IF outcome.verdict = "permit"
       THEN outcome' = Failure /\ UNCHANGED phase
       ELSE outcome' = Escape /\ phase' = "return"
  /\ decisions' = Append(decisions, [decision |-> outcome.verdict,
                                     pair |-> mapping.primary,
                                     audit_event_id |-> outcome.audit_event_id])
  /\ UNCHANGED <<cacheVars, env, serviceVars, calls, call, asked, reply, reason, coverage>>

\* The decision recorder raises.  In the try block this makes the call an
\* error; in a handler the exception leaves pre_tool_call.
RecordRaises ==
  /\ phase = "record"
  /\ env.decision_log
  /\ IF outcome.verdict = "permit"
       THEN outcome' = Failure /\ UNCHANGED phase
       ELSE outcome' = Escape /\ phase' = "return"
  /\ UNCHANGED <<cacheVars, env, serviceVars, calls, call, asked, reply, reason, decisions, coverage>>

\* Mutant: a coverage row calls a call blocked only if it was denied.
CoverDenials ==
  /\ phase = "cover"
  /\ coverage' \in {coverage} \cup
       (IF env.coverage_log
          THEN {Append(coverage, [blocked |-> outcome.verdict = "deny", block_reason |-> reason,
                                  enforce_decision |-> outcome.verdict])}
          ELSE {})
  /\ phase' = "return"
  /\ UNCHANGED <<cacheVars, env, serviceVars, calls, call, asked, reply, outcome, reason, decisions>>

\* _record_coverage: a failing coverage recorder loses the row and no more.
Cover ==
  /\ phase = "cover"
  /\ coverage' \in {coverage} \cup
       (IF env.coverage_log
          THEN {Append(coverage, [blocked |-> reason # "", block_reason |-> reason,
                                  enforce_decision |-> outcome.verdict])}
          ELSE {})
  /\ phase' = "return"
  /\ UNCHANGED <<cacheVars, env, serviceVars, calls, call, asked, reply, outcome, reason, decisions>>

\* What pre_tool_call gives back: None, a block directive, or an exception.
Result ==
  CASE outcome.verdict = "raise" -> "raise"
    [] outcome.verdict # "raise" /\ reason # "" -> "block"
    [] OTHER -> "proceed"

Return ==
  /\ phase = "return"
  /\ Cache!Return
  /\ phase' = "config"
  /\ asked' = 0
  /\ reply' = NoReply
  /\ outcome' = NoOutcome
  /\ reason' = ""
  /\ decisions' = <<>>
  /\ coverage' = <<>>
  /\ UNCHANGED <<env, serviceVars, calls, call>>

HookStep ==
  \/ CheckConfig \/ InvalidConfig \/ ConfigRaises
  \/ ResolutionRaises \/ BlockUnmapped \/ DeferUnmapped \/ MappingError \/ MissingAuth \/ BeginAsking
  \/ Ask \/ Receive \/ Timeout
  \/ Record \/ RecordRaises \/ Cover \/ Return

-----------------------------------------------------------------------------
(* The service and the operators: external to the plugin. *)

\* Mutant: any answer that arrives is taken for the awaited one.
DeliverAny(request, answers) ==
  reply' \in IF phase = "wait" THEN {reply} \cup answers ELSE {reply}

\* The answer reaches the hook only while it waits for this very request.
Deliver(request, answers) ==
  reply' \in IF phase = "wait" /\ request = Question THEN {reply} \cup answers ELSE {reply}

\* The service decides by its grants of the moment and records the decision.
Decide(request) ==
  /\ request \in inflight
  /\ LET decision == IF request.pair \in grants THEN "permit" ELSE "deny"
         id == Len(trail) + 1
     IN /\ trail' = Append(trail, [call |-> request.call, pair |-> request.pair, decision |-> decision])
        /\ Deliver(request,
                   Garbled \cup {IF decision = "permit"
                                   THEN Response(200, "permit", id)
                                   ELSE HTTPError(403, id)})
  /\ inflight' = inflight \ {request}
  /\ UNCHANGED <<cacheVars, env, grants, calls, call, phase, asked, outcome, reason, decisions, coverage>>

\* The request never reaches the service, which may show as a garbled answer.
Lose(request) ==
  /\ request \in inflight
  /\ inflight' = inflight \ {request}
  /\ Deliver(request, Garbled)
  /\ UNCHANGED <<cacheVars, env, grants, trail, calls, call, phase, asked, outcome, reason, decisions, coverage>>

\* Grants are issued, revoked and expire.
Regrant(p) ==
  /\ grants' = IF p \in grants THEN grants \ {p} ELSE grants \cup {p}
  /\ UNCHANGED <<cacheVars, env, trail, inflight, callVars>>

Restart ==
  /\ Cache!Restart
  /\ UNCHANGED <<env, serviceVars, callVars>>

Edit(s) ==
  /\ Cache!Edit(s)
  /\ UNCHANGED <<env, serviceVars, callVars>>

Next ==
  \/ \E c \in Calls : PreToolCall(c)
  \/ HookStep
  \/ \E request \in inflight : Decide(request) \/ Lose(request)
  \/ \E p \in Pairs : Regrant(p)
  \/ Restart
  \/ \E s \in 1..NSources : Edit(s)

Spec == Init /\ [][Next]_vars

\* The hook runs on once called, and its opener has a timeout; the service,
\* the network and the operators owe it nothing.
FairSpec == Spec /\ WF_vars(HookStep)

-----------------------------------------------------------------------------
(* Safety. *)

AuditEvents == [call : 1..MaxCalls, pair : Pairs, decision : {"permit", "deny"}]
Requests == [call : 1..MaxCalls, index : Nat, pair : Pairs]
Verdicts == {"none", "permit", "deny", "error", "raise"}

\* The values the variables of a call and of the service take.
TypeOK ==
  /\ Cache!TypeOK
  /\ env \in Environments
  /\ grants \subseteq Pairs
  /\ trail \in Seq(AuditEvents)
  /\ inflight \subseteq Requests
  /\ calls \in 0..MaxCalls
  /\ call \in Calls
  /\ phase \in {"config", "ask", "wait", "record", "cover", "return"}
  /\ asked \in Nat
  /\ outcome \in [verdict : Verdicts, audit_event_id : Int]
  /\ Len(decisions) \in {0, 1}
  /\ Len(coverage) \in {0, 1}

\* The call asks the service: it is mapped and the credentials are there.
Asking == pc = "served" /\ phase # "config" /\ mapping.kind = "mapped" /\ env.auth

\* The service recorded a permit of the pair for the present call.
PermittedNow(p) ==
  \E id \in 1..Len(trail) : trail[id] = [call |-> calls, pair |-> p, decision |-> "permit"]

\* A mapped call proceeds only if the service recorded, for this very call, a
\* permit of every one of its effects: no effect rides on the permit of
\* another, no answer to an earlier call counts, and no failure of the
\* service, the network or a log lets a call through.
AllowedWasPermitted ==
  phase = "return" /\ pc = "served" /\ mapping.kind = "mapped" /\ Result = "proceed"
    => \A p \in Effects(mapping) : PermittedNow(p)

\* The rows a call leaves say what became of it: one decision row for a call
\* that asked and did not raise, a permit row exactly when it proceeds, a
\* coverage row only with the result and the verdict of the decision row.
LogsTellResult ==
  phase = "return" =>
    /\ env.decision_log /\ Asking /\ Result # "raise" => Len(decisions) = 1
    /\ \A i \in 1..Len(decisions) :
         /\ Asking /\ Result # "raise"
         /\ decisions[i].decision = "permit" <=> Result = "proceed"
    /\ \A i \in 1..Len(coverage) :
         /\ coverage[i].blocked <=> Result = "block"
         /\ \A j \in 1..Len(decisions) : coverage[i].enforce_decision = decisions[j].decision

\* The id is that of an event of this call: this decision about one of its effects.
IsEvidence(id, decision) ==
  /\ id \in 1..Len(trail)
  /\ trail[id].call = calls
  /\ trail[id].decision = decision
  /\ trail[id].pair \in Effects(mapping)

\* What a 403 that is not the service's own holds as its audit id.
ForgedIds == {r.audit_event_id : r \in {x \in Garbled : Denies(x)}}

\* A permit row names its evidence, an event the service recorded for this
\* very call; so does a denial row, or it has the id a 403 held that was not
\* the service's own (enforce.py asks evidence of permits only); the row of a
\* failure names none, whatever has arrived late.
RowsHaveEvidence ==
  \A i \in 1..Len(decisions) :
    LET decision == decisions[i].decision
        id == decisions[i].audit_event_id
    IN CASE decision = "permit" -> IsEvidence(id, decision)
         [] decision = "deny" -> IsEvidence(id, decision) \/ id \in ForgedIds
         [] decision = "error" -> id = NoField

\* The rules a call is resolved by were on disk during that call, even with
\* the questions to the service between the check and the end of the call.
RulesAreCurrent == Cache!ServedWasCurrent

\* How many steps a call may yet take once its snapshot is settled: two for
\* each question, a second record if the first one raises, and the end.
StepsAhead ==
  LET questions == Len(Requirements(mapping))
  IN CASE phase = "config" -> IF pc = "served" THEN 2 * questions + 5 ELSE 5
       [] phase = "ask" -> 2 * (questions - asked) + 4
       [] phase = "wait" -> 2 * (questions - asked) + 3
       [] phase = "record" -> IF outcome.verdict = "permit" THEN 4 ELSE 3
       [] phase = "cover" -> 2
       [] phase = "return" -> 1

Nearer ==
  \/ Cache!StepsLeft' < Cache!StepsLeft
  \/ Cache!StepsLeft' = Cache!StepsLeft /\ StepsAhead' < StepsAhead

\* Every step of the hook brings the call nearer to its return, and nothing
\* that happens around it sets it back: no source is read and no question is
\* asked again, however often the files change and whatever is lost or late.
CallsGoOn ==
  [][/\ HookStep => Nearer
     /\ ~HookStep /\ pc \notin {"idle", "failed"} => UNCHANGED <<Cache!StepsLeft, StepsAhead>>]_vars

-----------------------------------------------------------------------------
(* The abstract gate, and liveness. *)

\* A call is in the hook.
Running == pc \notin {"idle", "failed"} /\ ~startup

Stage ==
  CASE ~Running -> "idle"
    [] Running /\ phase # "return" -> IF Asking THEN "judging" ELSE "received"
    [] Running /\ phase = "return" /\ Result # "proceed" -> Result
    [] Running /\ phase = "return" /\ Result = "proceed" -> IF Asking THEN "allow" ELSE "defer"

Owed ==
  IF Stage \in {"judging", "allow"} THEN {p \in Effects(mapping) : ~PermittedNow(p)} ELSE {}

AbstractGate == INSTANCE Gate WITH stage <- Stage, owed <- Owed

\* The boundary implements the abstract gate: the service's own record of the
\* call has every effect permitted before the hook lets the call proceed.
ImplementsGate == AbstractGate!Spec

\* A call comes back to the host whatever the service, the network and the
\* logs do: nothing the hook waits for is without a time limit.
CallReturns == (pc \notin {"idle", "failed"}) ~> (pc \in {"idle", "failed"})

-----------------------------------------------------------------------------
(* What the repository's documents say and the code does not do. *)

\* README.md:24-25: deny, timeout, an unavailable service and the other
\* failures return a block directive, so a call never ends in an exception
\* once the configuration is in force.
FailuresBlock ==
  phase = "return" /\ pc = "served" => Result \in {"proceed", "block"}

\* docs/preflight.md:127-133: the decision log correlates action, resource and
\* audit_event_id, so the event a row names is about the row's own pair.
RowsCorrelate ==
  \A i \in 1..Len(decisions) :
    decisions[i].audit_event_id \in 1..Len(trail) =>
      trail[decisions[i].audit_event_id].pair = decisions[i].pair
=============================================================================
