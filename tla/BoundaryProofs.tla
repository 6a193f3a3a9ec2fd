--------------------------- MODULE BoundaryProofs ---------------------------
(***************************************************************************)
(* The boundary keeps the configuration cache's specification, and with it *)
(* its theorems; a call proceeds only on permits of its own; the rows it   *)
(* leaves tell its result; and it implements the abstract gate.            *)
(***************************************************************************)
EXTENDS Boundary, TLAPS

CacheProofs == INSTANCE ConfigCacheProofs

USE BoundaryAssumption

\* Every step of the boundary is a step of the cache or leaves it alone.
LEMMA StepOfCache == [Next]_vars => [Cache!Next]_(Cache!vars)
<1> SUFFICES ASSUME [Next]_vars PROVE [Cache!Next]_(Cache!vars)
    OBVIOUS
<1> USE DEF cacheVars, Cache!vars
<1>1. CASE \E c \in Calls : PreToolCall(c)
    BY <1>1 DEF PreToolCall, Cache!Next
<1>2. CASE CheckConfig
    BY <1>2 DEF CheckConfig, Cache!Next, Cache!HookStep
<1>3. CASE Return
    BY <1>3 DEF Return, Cache!Next, Cache!HookStep
<1>4. CASE InvalidConfig \/ ConfigRaises \/ ResolutionRaises \/ BlockUnmapped \/ DeferUnmapped \/ MappingError
           \/ MissingAuth \/ BeginAsking
    BY <1>4 DEF InvalidConfig, ConfigRaises, ResolutionRaises, Raise, BlockUnmapped, DeferUnmapped, MappingError,
       MissingAuth, BeginAsking, Settle
<1>5. CASE Ask \/ Receive \/ Timeout \/ Record \/ RecordRaises \/ Cover
    BY <1>5 DEF Ask, Receive, Timeout, Conclude, Record, RecordRaises, Cover
<1>6. CASE \E request \in inflight : Decide(request) \/ Lose(request)
    BY <1>6 DEF Decide, Lose
<1>7. CASE \E p \in Pairs : Regrant(p)
    BY <1>7 DEF Regrant
<1>8. CASE Restart
    BY <1>8 DEF Restart, Cache!Next
<1>9. CASE \E s \in 1..NSources : Edit(s)
    BY <1>9 DEF Edit, Cache!Next, Cache!Sources
<1>10. CASE UNCHANGED vars
    BY <1>10 DEF vars
<1>11. QED
    BY <1>1, <1>2, <1>3, <1>4, <1>5, <1>6, <1>7, <1>8, <1>9, <1>10 DEF Next, HookStep

\* The boundary implements the configuration cache.
THEOREM ImplementsCache == Spec => Cache!Spec
<1>1. Init => Cache!Init
    BY DEF Init
<1>2. QED
    BY <1>1, StepOfCache, PTL DEF Spec, Cache!Spec

\* The instance of the cache's proofs speaks of the same assumption and steps.
LEMMA SameCache ==
  /\ CacheProofs!ConfigAssumption
  /\ Cache!Init => CacheProofs!Init
  /\ [Cache!Next]_(Cache!vars) => [CacheProofs!Next]_(CacheProofs!vars)
<1>1. CacheProofs!ConfigAssumption
    BY DEF BoundaryAssumption, Cache!ConfigAssumption, CacheProofs!ConfigAssumption,
       Cache!Sources, CacheProofs!Sources, Cache!FileStates, CacheProofs!FileStates
<1>2. Cache!Init => CacheProofs!Init
    BY DEF Cache!Init, CacheProofs!Init,
       Cache!Sources, CacheProofs!Sources, Cache!FileStates, CacheProofs!FileStates,
       Cache!NothingYet, CacheProofs!NothingYet
<1>3. ASSUME [Cache!Next]_(Cache!vars) PROVE [CacheProofs!Next]_(CacheProofs!vars)
    BY <1>3 DEF Cache!Next, CacheProofs!Next,
       Cache!Sources, CacheProofs!Sources, Cache!FileStates, CacheProofs!FileStates,
       Cache!NothingYet, CacheProofs!NothingYet, Cache!Begin, CacheProofs!Begin,
       Cache!PreToolCall, CacheProofs!PreToolCall, Cache!StatSource,
       CacheProofs!StatSource, Cache!ServeCached, CacheProofs!ServeCached,
       Cache!NoticeChange, CacheProofs!NoticeChange, Cache!StartReading,
       CacheProofs!StartReading, Cache!ReadValid, CacheProofs!ReadValid, Cache!ReadInvalid,
       CacheProofs!ReadInvalid, Cache!ReadRaises, CacheProofs!ReadRaises, Cache!FinishLoad,
       CacheProofs!FinishLoad, Cache!Return, CacheProofs!Return, Cache!HookStep,
       CacheProofs!HookStep, Cache!Restart, CacheProofs!Restart, Cache!Edit,
       CacheProofs!Edit, Cache!hookVars, CacheProofs!hookVars, Cache!vars, CacheProofs!vars
<1>4. QED
    BY <1>1, <1>2, <1>3

\* The cache's strengthened invariant holds in the boundary.
LEMMA CacheInvariant == Spec => []CacheProofs!IInv
<1>1. Init => CacheProofs!IInv
    BY CacheProofs!InitIInv, SameCache DEF Init
<1>2. CacheProofs!IInv /\ [Next]_vars => CacheProofs!IInv'
    BY CacheProofs!NextIInv, StepOfCache, SameCache
<1>3. QED
    BY <1>1, <1>2, PTL DEF Spec

-----------------------------------------------------------------------------
(* A call, phase by phase. *)

\* How far the call has come, and what it must not have done yet.
Phases ==
  /\ phase # "config" => pc \in {"served", "blocked", "raised"}
  /\ phase \in {"ask", "wait", "record"} => Asking
  /\ phase \in {"ask", "wait"} => asked < Len(Requirements(mapping))
  /\ phase = "config" => asked = 0 /\ outcome = NoOutcome /\ reason = ""
  /\ phase \notin {"cover", "return"} => decisions = <<>>
  /\ phase # "return" => coverage = <<>>

\* What the hook has been told agrees with what the service recorded.
Answers ==
  /\ Asking => \A i \in 1..asked : PermittedNow(Requirements(mapping)[i])
  /\ phase = "wait" /\ Permits(reply) => PermittedNow(Requirements(mapping)[asked + 1])
  /\ phase = "record" /\ outcome.verdict = "permit" => asked = Len(Requirements(mapping))

\* A mapped call about to proceed has asked everything.
AskedAll ==
  phase \in {"cover", "return"} /\ pc = "served" /\ mapping.kind = "mapped" /\ Result = "proceed"
    => Asking /\ asked = Len(Requirements(mapping))

\* The values of the variables outside the cache.
Types ==
  /\ trail \in Seq(AuditEvents)
  /\ inflight \subseteq Requests
  /\ calls \in 0..MaxCalls
  /\ pc \notin {"idle", "failed"} /\ ~startup => calls \in 1..MaxCalls
  /\ call \in Calls
  /\ phase \in {"config", "ask", "wait", "record", "cover", "return"}
  /\ asked \in Nat
  /\ env \in Environments /\ grants \subseteq Pairs

CallInv == Phases /\ Answers /\ AskedAll /\ Types

\* The rules in force resolve a call to a mapping result.
LEMMA MappingType ==
  ASSUME CacheProofs!IInv, pc = "served", call \in Calls
  PROVE  mapping \in MappingResults(Pairs)
BY DEF BoundaryAssumption, CacheProofs!IInv, CacheProofs!TypeOK, CacheProofs!Progress,
   CacheProofs!Sources, mapping

\* The requirements of a mapped result are a non-empty sequence of pairs.
LEMMA RequirementsType ==
  ASSUME NEW m \in MappingResults(Pairs), m.kind = "mapped"
  PROVE  Requirements(m) \in Seq(Pairs) /\ Len(Requirements(m)) \in Nat \ {0}
BY DEF MappingResults, Requirements

LEMMA InitCallInv == Init => CallInv
<1> SUFFICES ASSUME Init PROVE CallInv
    OBVIOUS
<1>1. /\ pc = "stamp" /\ startup = TRUE /\ phase = "config" /\ asked = 0
      /\ outcome = NoOutcome /\ reason = "" /\ decisions = <<>> /\ coverage = <<>>
    BY DEF Init, Cache!Init
<1>2. Phases /\ Answers /\ AskedAll
    BY <1>1 DEF Phases, Answers, AskedAll, Asking
<1>3. trail = <<>> /\ inflight = {} /\ calls = 0 /\ call \in Calls /\ env \in Environments
      /\ grants \subseteq Pairs
    BY DEF Init
<1>4. Types
    <2>1. trail \in Seq(AuditEvents)
        BY <1>3
    <2>2. calls \in 0..MaxCalls
        BY <1>3 DEF BoundaryAssumption
    <2>3. QED
        BY <2>1, <2>2, <1>1, <1>3 DEF Types
<1>5. QED
    BY <1>2, <1>4 DEF CallInv

\* Before a call is resolved there is nothing to preserve but its types.
LEMMA CheckCallInv ==
  ASSUME CallInv, CacheProofs!IInv,
         \/ \E c \in Calls : PreToolCall(c)
         \/ CheckConfig
         \/ Restart
  PROVE  CallInv'
<1>1. /\ UNCHANGED <<env, serviceVars, phase, asked, reply, outcome, reason, decisions, coverage>>
      /\ phase = "config"
      /\ calls' \in 0..MaxCalls
      /\ call' \in Calls
      /\ pc' \notin {"idle", "failed"} /\ ~startup' => calls' \in 1..MaxCalls
    <2>1. CASE \E c \in Calls : PreToolCall(c)
        <3>1. PICK c \in Calls : PreToolCall(c)
            BY <2>1
        <3>2. pc = "idle" /\ phase = "config"
            BY <3>1 DEF PreToolCall, Cache!PreToolCall, CallInv, Phases
        <3>3. calls' \in 1..MaxCalls
            BY <3>1 DEF PreToolCall, CallInv, Types, BoundaryAssumption
        <3>4. QED
            BY <3>1, <3>2, <3>3 DEF PreToolCall
    <2>2. CASE CheckConfig
        BY <2>2 DEF CheckConfig, callVars, CallInv, Phases, Types, Cache!StatSource,
           Cache!ServeCached, Cache!NoticeChange, Cache!Begin, Cache!StartReading,
           Cache!ReadValid, Cache!ReadInvalid, Cache!ReadRaises, Cache!FinishLoad
    <2>3. CASE Restart
        BY <2>3 DEF Restart, callVars, CallInv, Phases, Types, Cache!Restart, Cache!Begin
    <2>4. QED
        BY <2>1, <2>2, <2>3
<1>2. Phases' /\ Answers' /\ AskedAll'
    BY <1>1 DEF CallInv, Phases, Answers, AskedAll, Asking
<1>3. Types'
    BY <1>1 DEF CallInv, Types, serviceVars
<1>4. QED
    BY <1>2, <1>3 DEF CallInv

\* A call that is settled without a question is not about to proceed as mapped.
LEMMA SettledCallInv ==
  ASSUME CallInv, CacheProofs!IInv,
         InvalidConfig \/ ConfigRaises \/ ResolutionRaises \/ BlockUnmapped \/ DeferUnmapped \/ MappingError \/ MissingAuth
  PROVE  CallInv'
<1>1. /\ UNCHANGED <<cacheVars, env, serviceVars, calls, call, asked, decisions, coverage>>
      /\ phase = "config" /\ phase' \in {"cover", "return"}
      /\ pc \in {"served", "blocked", "raised"}
      /\ asked = 0
    BY DEF CallInv, Phases, InvalidConfig, ConfigRaises, ResolutionRaises, Raise, BlockUnmapped, DeferUnmapped,
       MappingError, MissingAuth, Settle, Resolved
<1>2. pc = "served" /\ mapping.kind = "mapped" => Result' # "proceed"
    BY DEF CallInv, Phases, Result, NoOutcome, Escape, InvalidConfig, ConfigRaises, ResolutionRaises, Raise, BlockUnmapped,
       DeferUnmapped, MappingError, MissingAuth, Settle, Resolved
<1> USE DEF cacheVars, serviceVars, mapping
<1>3. Phases'
    BY <1>1 DEF CallInv, Phases
<1>4. Answers'
    <2>1. 1..asked' = {}
        BY <1>1
    <2>2. QED
        BY <2>1, <1>1 DEF Answers
<1>5. AskedAll'
    BY <1>1, <1>2 DEF AskedAll
<1>6. Types'
    BY <1>1 DEF CallInv, Types
<1>7. QED
    BY <1>3, <1>4, <1>5, <1>6 DEF CallInv

\* A mapped call starts asking with nothing permitted.
LEMMA BeginAskingCallInv ==
  ASSUME CallInv, CacheProofs!IInv, BeginAsking PROVE CallInv'
<1> USE DEF BeginAsking, Resolved, cacheVars, serviceVars
<1>1. mapping' = mapping /\ asked' = 0 /\ pc' = "served" /\ call \in Calls
    BY DEF CallInv, Phases, Types, mapping
<1>2. 0 < Len(Requirements(mapping))
    BY <1>1, MappingType, RequirementsType
<1>3. Phases'
    BY <1>1, <1>2 DEF CallInv, Phases, Asking
<1>4. Answers'
    <2>1. 1..asked' = {}
        BY <1>1
    <2>2. QED
        BY <2>1 DEF Answers
<1>5. AskedAll' /\ Types'
    BY DEF CallInv, AskedAll, Types
<1>6. QED
    BY <1>3, <1>4, <1>5 DEF CallInv

\* A question waits for an answer of its own.
LEMMA AskCallInv == ASSUME CallInv, CacheProofs!IInv, Ask PROVE CallInv'
<1> USE DEF Ask, cacheVars
<1>1. mapping' = mapping
    BY DEF mapping
<1>2. Asking /\ pc = "served" /\ mapping.kind = "mapped" /\ ~startup /\ call \in Calls
    BY DEF CallInv, Phases, Types, Asking, CacheProofs!IInv, CacheProofs!Progress
<1>3. Question \in Requests
    <2>1. Requirements(mapping)[asked + 1] \in Pairs
        BY <1>2, MappingType, RequirementsType DEF CallInv, Phases, Types
    <2>2. QED
        BY <2>1, <1>2 DEF CallInv, Types, Question, Requests
<1>4. Phases'
    BY <1>1, <1>2 DEF CallInv, Phases, Asking
<1>5. Answers'
    <2>1. ~Permits(reply')
        BY DEF NoReply, Broken, Permits
    <2>2. QED
        BY <2>1, <1>1, <1>2 DEF CallInv, Answers, Asking, PermittedNow
<1>6. AskedAll'
    BY DEF AskedAll
<1>7. Types'
    BY <1>3 DEF CallInv, Types
<1>8. QED
    BY <1>4, <1>5, <1>6, <1>7 DEF CallInv

\* An answer concludes a question; only a real permit counts as one.
LEMMA ConcludeCallInv ==
  ASSUME CallInv, CacheProofs!IInv, Receive \/ Timeout PROVE CallInv'
<1>1. PICK answer :
        /\ Conclude(answer)
        /\ answer.verdict = "permit" => Permits(reply)
    <2>1. Enforce(reply).verdict = "permit" => Permits(reply)
        BY DEF Enforce
    <2>2. Enforce(Broken("OSError")).verdict # "permit"
        BY DEF Enforce, Broken, Permits, Denies
    <2>3. QED
        BY <2>1, <2>2 DEF Receive, Timeout
<1>2. /\ phase = "wait"
      /\ UNCHANGED <<cacheVars, env, serviceVars, calls, call, reply, reason, decisions, coverage>>
      /\ mapping' = mapping
    BY <1>1 DEF Receive, Timeout, Conclude, cacheVars, mapping
<1>3. /\ Asking /\ pc = "served" /\ mapping.kind = "mapped"
      /\ asked \in Nat /\ Len(Requirements(mapping)) \in Nat
      /\ asked < Len(Requirements(mapping))
    BY <1>2, MappingType, RequirementsType DEF CallInv, Phases, Types, Asking
<1>4. \/ /\ answer.verdict = "permit" /\ asked' = asked + 1
         /\ phase' = IF asked + 1 < Len(Requirements(mapping)) THEN "ask" ELSE "record"
      \/ answer.verdict # "permit" /\ asked' = asked /\ phase' = "record"
    BY <1>1 DEF Conclude
<1>5. outcome' = answer
    BY <1>1 DEF Conclude
<1> USE DEF cacheVars, serviceVars
<1>6. Phases'
    BY <1>2, <1>3, <1>4 DEF CallInv, Phases, Asking
<1>7. Answers'
    <2>1. \A i \in 1..asked' : i \in 1..asked \/ (answer.verdict = "permit" /\ i = asked + 1)
        BY <1>3, <1>4
    <2>2. \A i \in 1..asked' : PermittedNow(Requirements(mapping)[i])
        BY <2>1, <1>1, <1>2, <1>3 DEF CallInv, Answers
    <2>3. phase' = "record" /\ answer.verdict = "permit" => asked' = Len(Requirements(mapping))
        BY <1>3, <1>4
    <2>4. phase' # "wait"
        BY <1>4
    <2>5. QED
        BY <2>2, <2>3, <2>4, <1>2, <1>5 DEF Answers, PermittedNow
<1>8. AskedAll'
    BY <1>4 DEF AskedAll
<1>9. Types'
    BY <1>2, <1>3, <1>4 DEF CallInv, Types
<1>10. QED
    BY <1>6, <1>7, <1>8, <1>9 DEF CallInv

\* Recording, in both outcomes, keeps a permit that has been earned and makes none.
LEMMA RecordCallInv ==
  ASSUME CallInv, CacheProofs!IInv, Record \/ RecordRaises PROVE CallInv'
<1>1. /\ phase = "record" /\ Asking /\ pc = "served"
      /\ UNCHANGED <<cacheVars, env, serviceVars, calls, call, asked, reply, coverage>>
      /\ mapping' = mapping
    BY DEF CallInv, Phases, Asking, Record, RecordRaises, cacheVars, mapping
<1> USE DEF cacheVars, serviceVars
<1>2. CASE Record
    <2>1. /\ phase' = "cover" /\ outcome' = outcome
          /\ reason' = "" => outcome.verdict = "permit"
        BY <1>2 DEF Record, ReasonOf
    <2>2. Phases'
        BY <2>1, <1>1 DEF CallInv, Phases, Asking
    <2>3. Answers'
        BY <2>1, <1>1 DEF CallInv, Answers, Asking, PermittedNow
    <2>4. AskedAll'
        BY <2>1, <1>1 DEF CallInv, Answers, AskedAll, Asking, Result
    <2>5. Types'
        BY <2>1, <1>1 DEF CallInv, Types
    <2>6. QED
        BY <2>2, <2>3, <2>4, <2>5 DEF CallInv
<1>3. CASE RecordRaises
    <2>1. /\ UNCHANGED <<reason, decisions>>
          /\ \/ phase' = "record" /\ outcome'.verdict = "error"
             \/ phase' = "return" /\ outcome' = Escape
        BY <1>1, <1>3 DEF RecordRaises, Failure
    <2>2. Phases'
        BY <2>1, <1>1 DEF CallInv, Phases, Asking
    <2>3. Answers'
        BY <2>1, <1>1 DEF CallInv, Answers, Asking, PermittedNow
    <2>4. AskedAll'
        <3>1. CASE phase' = "record"
            BY <3>1 DEF AskedAll
        <3>2. CASE outcome' = Escape
            <4>1. Result' = "raise"
                BY <3>2 DEF Result, Escape
            <4>2. QED
                BY <4>1 DEF AskedAll
        <3>3. QED
            BY <2>1, <3>1, <3>2
    <2>5. Types'
        BY <2>1, <1>1 DEF CallInv, Types
    <2>6. QED
        BY <2>2, <2>3, <2>4, <2>5 DEF CallInv
<1>4. QED
    BY <1>2, <1>3

\* The end of a call, and the return to the host, which forgets it.
LEMMA EndCallInv == ASSUME CallInv, CacheProofs!IInv, Cover \/ Return PROVE CallInv'
<1>1. CASE Cover
    <2> USE DEF cacheVars, serviceVars
    <2>1. /\ phase = "cover" /\ phase' = "return"
          /\ UNCHANGED <<cacheVars, env, serviceVars, calls, call, asked, reply, outcome, reason, decisions>>
          /\ mapping' = mapping
        BY <1>1 DEF Cover, mapping
    <2>2. Phases'
        BY <2>1 DEF CallInv, Phases, Asking
    <2>3. Answers'
        BY <2>1 DEF CallInv, Answers, Asking, PermittedNow
    <2>4. AskedAll'
        BY <2>1 DEF CallInv, AskedAll, Asking, Result
    <2>5. Types'
        BY <2>1 DEF CallInv, Types
    <2>6. QED
        BY <2>2, <2>3, <2>4, <2>5 DEF CallInv
<1>2. CASE Return
    <2>1. /\ phase' = "config" /\ asked' = 0 /\ outcome' = NoOutcome /\ reason' = ""
          /\ decisions' = <<>> /\ coverage' = <<>> /\ pc' = "idle"
          /\ UNCHANGED <<env, serviceVars, calls, call>>
        BY <1>2 DEF Return, Cache!Return, Cache!Begin
    <2>2. Phases' /\ Answers' /\ AskedAll'
        BY <2>1 DEF Phases, Answers, AskedAll, Asking
    <2>3. Types'
        BY <2>1 DEF CallInv, Types, serviceVars
    <2>4. QED
        BY <2>2, <2>3 DEF CallInv
<1>3. QED
    BY <1>1, <1>2

\* The service answers a question with a permit only after recording one for
\* the present call; answers to earlier questions do not reach the hook.
LEMMA ServiceCallInv ==
  ASSUME CallInv, CacheProofs!IInv,
         NEW request \in inflight, Decide(request) \/ Lose(request)
  PROVE  CallInv'
<1>1. /\ UNCHANGED <<cacheVars, env, grants, calls, call, phase, asked, outcome, reason, decisions, coverage>>
      /\ inflight' = inflight \ {request}
      /\ mapping' = mapping /\ Asking' = Asking
    BY DEF Decide, Lose, cacheVars, mapping, Asking
<1>2. request \in Requests
    BY DEF CallInv, Types
<1>3. \/ trail' = trail
      \/ \E decision \in {"permit", "deny"} :
           trail' = Append(trail, [call |-> request.call, pair |-> request.pair, decision |-> decision])
    BY DEF Decide, Lose
<1>4. trail' \in Seq(AuditEvents)
    <2>1. \A decision \in {"permit", "deny"} :
            [call |-> request.call, pair |-> request.pair, decision |-> decision] \in AuditEvents
        BY <1>2 DEF AuditEvents, Requests
    <2>2. trail \in Seq(AuditEvents)
        BY DEF CallInv, Types
    <2>3. QED
        BY <2>1, <2>2, <1>3
<1>5. /\ Len(trail) \in Nat /\ Len(trail') \in Nat /\ Len(trail) <= Len(trail')
      /\ \A id \in 1..Len(trail) : trail'[id] = trail[id]
    BY <1>2, <1>3 DEF CallInv, Types, AuditEvents, Requests
<1> DEFINE PermittedNext(p) ==
      \E id \in 1..Len(trail') : trail'[id] = [call |-> calls, pair |-> p, decision |-> "permit"]
<1>6. \A p : PermittedNow(p) => PermittedNext(p)
    BY <1>5 DEF PermittedNow
<1> USE DEF cacheVars
<1>7. Phases'
    BY <1>1 DEF CallInv, Phases
<1>8. Answers'
    <2>1. ASSUME phase = "wait", Permits(reply')
          PROVE  PermittedNext(Requirements(mapping)[asked + 1])
        <3>1. CASE reply' = reply
            BY <3>1, <2>1, <1>6 DEF CallInv, Answers
        <3>2. CASE reply' # reply
            <4>1. \A r \in Garbled : ~Permits(r)
                BY DEF BoundaryAssumption
            <4>2. Decide(request)
                BY <3>2, <2>1, <4>1 DEF Lose, Deliver
            <4>3. /\ request = Question
                  /\ request.pair \in grants
                <5>1. PICK answers :
                        /\ Deliver(request, answers)
                        /\ request.pair \notin grants =>
                             answers = Garbled \cup {HTTPError(403, Len(trail) + 1)}
                    BY <4>2 DEF Decide
                <5>2. request = Question /\ reply' \in answers
                    BY <5>1, <3>2 DEF Deliver
                <5>3. ~Permits(HTTPError(403, Len(trail) + 1))
                    BY DEF HTTPError, Permits
                <5>4. QED
                    BY <5>1, <5>2, <5>3, <2>1, <4>1
            <4>4. trail' = Append(trail, [call |-> calls, pair |-> Requirements(mapping)[asked + 1],
                                          decision |-> "permit"])
                BY <4>2, <4>3 DEF Decide, Question
            <4>5. /\ Len(trail) + 1 \in 1..Len(trail')
                  /\ trail'[Len(trail) + 1] = [call |-> calls, pair |-> Requirements(mapping)[asked + 1],
                                             decision |-> "permit"]
                BY <4>4, <1>4 DEF CallInv, Types
            <4>6. QED
                BY <4>5
        <3>3. QED
            BY <3>1, <3>2
    <2>2. Asking => \A i \in 1..asked : PermittedNext(Requirements(mapping)[i])
        BY <1>6 DEF CallInv, Answers
    <2>3. QED
        BY <2>1, <2>2, <1>1 DEF CallInv, Answers, PermittedNow
<1>9. AskedAll'
    BY <1>1 DEF CallInv, AskedAll, Result
<1>10. Types'
    BY <1>1, <1>4 DEF CallInv, Types
<1>11. QED
    BY <1>7, <1>8, <1>9, <1>10 DEF CallInv

\* Grants and files may change at any time without touching the call.
LEMMA OutsideCallInv ==
  ASSUME CallInv, CacheProofs!IInv,
         \/ \E p \in Pairs : Regrant(p)
         \/ \E s \in 1..NSources : Edit(s)
         \/ UNCHANGED vars
  PROVE  CallInv'
<1>1. /\ UNCHANGED <<config, config_stamp, pc, startup, env, trail, inflight>>
      /\ UNCHANGED <<calls, call, phase, asked, reply, outcome, reason, decisions, coverage>>
      /\ grants' \subseteq Pairs
    BY DEF Regrant, Edit, Cache!Edit, Cache!hookVars, vars, cacheVars, serviceVars, callVars,
       CallInv, Types
<1>2. mapping' = mapping
    BY <1>1 DEF mapping
<1>3. Phases' /\ Answers' /\ AskedAll' /\ Types'
    BY <1>1, <1>2 DEF CallInv, Phases, Answers, AskedAll, Types, Asking, PermittedNow, Result
<1>4. QED
    BY <1>3 DEF CallInv

\* Every step keeps the invariant of the call.
LEMMA NextCallInv == CallInv /\ CacheProofs!IInv /\ [Next]_vars => CallInv'
BY CheckCallInv, SettledCallInv, BeginAskingCallInv, AskCallInv, ConcludeCallInv,
   RecordCallInv, EndCallInv, ServiceCallInv, OutsideCallInv DEF Next, HookStep

\* The invariant of the call holds throughout.
THEOREM CallInvariant == Spec => []CallInv
BY InitCallInv, NextCallInv, CacheInvariant, PTL DEF Spec

\* A mapped call about to proceed has all its permits.
LEMMA AllPermitted ==
  ASSUME CallInv, phase \in {"cover", "return"}, pc = "served", mapping.kind = "mapped", Result = "proceed",
         NEW p \in Effects(mapping)
  PROVE  PermittedNow(p)
<1>1. Asking /\ asked = Len(Requirements(mapping))
    BY DEF CallInv, AskedAll
<1>2. QED
    BY <1>1 DEF CallInv, Answers, Effects

\* A mapped call proceeds only if the service recorded, for this very call, a
\* permit of each of its effects, for any mapping, any grants and any failures.
THEOREM Authorized == Spec => []AllowedWasPermitted
<1>1. CallInv => AllowedWasPermitted
    BY AllPermitted DEF AllowedWasPermitted
<1>2. QED
    BY <1>1, CallInvariant, PTL

\* The rules a call is resolved by were on disk during that call.
THEOREM CurrentRules == Spec => []RulesAreCurrent
<1>1. CacheProofs!IInv => RulesAreCurrent
    BY DEF CacheProofs!IInv, CacheProofs!ServedWasCurrent, RulesAreCurrent,
       Cache!ServedWasCurrent, Cache!Sources, CacheProofs!Sources
<1>2. QED
    BY <1>1, CacheInvariant, PTL

-----------------------------------------------------------------------------
(* The rows of a call. *)

\* What an outcome says is what the service recorded for this call, or a
\* denial of something else's.
Backed(o) ==
  /\ o.verdict = "permit" => IsEvidence(o.audit_event_id, "permit")
  /\ o.verdict = "deny" => IsEvidence(o.audit_event_id, "deny") \/ o.audit_event_id \in ForgedIds
  /\ o.verdict = "error" => o.audit_event_id = NoField

DecisionRow ==
  [decision |-> outcome.verdict, pair |-> mapping.primary, audit_event_id |-> outcome.audit_event_id]

CoverageRow ==
  [blocked |-> reason # "", block_reason |-> reason, enforce_decision |-> outcome.verdict]

Told == {"permit", "deny", "error"}

\* The evidence for an answer, on its way to a row.
Evidence ==
  /\ phase = "wait" => Backed(Enforce(reply))
  /\ phase = "record" => outcome.verdict \in Told /\ Backed(outcome)
  /\ decisions # <<>> => Backed(outcome)

\* The rows are made of the outcome the call ends with.
Rows ==
  /\ decisions \in {<<>>, <<DecisionRow>>}
  /\ decisions # <<>> => Asking /\ outcome.verdict \in Told
  /\ phase = "cover" => outcome.verdict # "raise"
  /\ phase \in {"cover", "return"} /\ Asking /\ outcome.verdict # "raise" =>
       /\ reason = ReasonOf(outcome.verdict)
       /\ env.decision_log => decisions # <<>>
  /\ coverage \in {<<>>, <<CoverageRow>>}
  /\ coverage # <<>> => outcome.verdict # "raise"

\* The values an outcome takes.
OutcomeType ==
  /\ outcome \in [verdict : Verdicts, audit_event_id : Int]
  /\ phase = "wait" => reply.audit_event_id \in Int

LogInv == Evidence /\ Rows /\ OutcomeType

LEMMA InitLogInv == Init => LogInv
<1> SUFFICES ASSUME Init PROVE LogInv
    OBVIOUS
<1>1. phase = "config" /\ decisions = <<>> /\ coverage = <<>> /\ outcome = NoOutcome
    BY DEF Init
<1>2. QED
    BY <1>1 DEF LogInv, Evidence, Rows, OutcomeType, NoOutcome, Verdicts, NoField

\* Only what the rows are about matters to them.
LEMMA UntouchedLogInv ==
  ASSUME CallInv, LogInv, mapping' = mapping, Asking' = Asking,
         UNCHANGED <<env, calls, reply, outcome, reason, decisions, coverage>>,
         Len(trail) \in Nat, Len(trail') \in Nat, Len(trail) <= Len(trail'),
         \A id \in 1..Len(trail) : trail'[id] = trail[id],
         phase' = phase
  PROVE  LogInv'
<1>1. \A o : Backed(o) => Backed(o)'
    BY DEF Backed, IsEvidence
<1>2. Evidence'
    BY <1>1 DEF LogInv, Evidence
<1>3. Rows' /\ OutcomeType'
    BY DEF LogInv, Rows, OutcomeType, DecisionRow, CoverageRow
<1>4. QED
    BY <1>2, <1>3 DEF LogInv

\* Until a call asks there is nothing to tell.
LEMMA QuietLogInv ==
  ASSUME CallInv, CacheProofs!IInv, LogInv,
         \/ \E c \in Calls : PreToolCall(c)
         \/ CheckConfig
         \/ Restart
         \/ InvalidConfig \/ ConfigRaises \/ ResolutionRaises \/ BlockUnmapped \/ DeferUnmapped \/ MappingError \/ MissingAuth
         \/ BeginAsking
         \/ Return
  PROVE  LogInv'
<1>1. /\ decisions' = <<>> /\ coverage' = <<>>
      /\ outcome' \in {NoOutcome, Escape}
      /\ phase' \in {"config", "cover", "return", "ask"}
      /\ phase' = "cover" => outcome' = NoOutcome /\ ~Asking'
      /\ phase' = "return" => outcome' = Escape
  <2>1. CASE \/ \E c \in Calls : PreToolCall(c)
             \/ CheckConfig
             \/ Restart
    <3>1. phase' = phase /\ UNCHANGED <<outcome, decisions, coverage>>
        BY <2>1 DEF PreToolCall, CheckConfig, Restart, callVars
    <3>2. phase = "config"
        BY <2>1 DEF CallInv, Phases, Types, PreToolCall, CheckConfig, Restart, Cache!PreToolCall,
           Cache!Restart, Cache!StatSource, Cache!ServeCached, Cache!NoticeChange, Cache!StartReading,
           Cache!ReadValid, Cache!ReadInvalid, Cache!ReadRaises, Cache!FinishLoad
    <3>3. QED
        BY <3>1, <3>2 DEF CallInv, Phases
  <2>2. CASE InvalidConfig \/ BlockUnmapped \/ DeferUnmapped \/ MappingError \/ MissingAuth
    <3>1. phase = "config" /\ phase' = "cover" /\ UNCHANGED <<outcome, decisions, coverage>>
        BY <2>2 DEF InvalidConfig, BlockUnmapped, DeferUnmapped, MappingError, MissingAuth, Settle, Resolved
    <3>2. ~Asking'
      <4>1. pc' = pc /\ mapping' = mapping /\ env' = env
          BY <2>2 DEF InvalidConfig, BlockUnmapped, DeferUnmapped, MappingError, MissingAuth, Settle,
             mapping, cacheVars
      <4>2. pc # "served" \/ mapping.kind # "mapped" \/ ~env.auth
          BY <2>2 DEF InvalidConfig, BlockUnmapped, DeferUnmapped, MappingError, MissingAuth, Resolved
      <4>3. QED
          BY <4>1, <4>2 DEF Asking
    <3>3. QED
        BY <3>1, <3>2 DEF CallInv, Phases
  <2>3. CASE ConfigRaises \/ ResolutionRaises
      BY <2>3 DEF ConfigRaises, ResolutionRaises, Resolved, Raise, CallInv, Phases
  <2>4. CASE BeginAsking
      BY <2>4 DEF BeginAsking, Resolved, CallInv, Phases
  <2>5. CASE Return
      BY <2>5 DEF Return
  <2>6. QED
      BY <2>1, <2>2, <2>3, <2>4, <2>5
<1>2. Evidence'
    BY <1>1 DEF Evidence
<1>3. Rows'
    BY <1>1 DEF Rows, NoOutcome, Escape
<1>4. OutcomeType'
    BY <1>1 DEF OutcomeType, NoOutcome, Escape, Verdicts, NoField
<1>5. QED
    BY <1>2, <1>3, <1>4 DEF LogInv

\* A question is asked, and an answer concludes it with its evidence.
LEMMA AskingLogInv ==
  ASSUME CallInv, CacheProofs!IInv, LogInv, Ask \/ Receive \/ Timeout
  PROVE  LogInv'
<1>1. /\ UNCHANGED <<cacheVars, env, trail, calls, call, reason, decisions, coverage>>
      /\ phase \in {"ask", "wait"}
      /\ mapping' = mapping
    BY DEF Ask, Receive, Timeout, Conclude, cacheVars, serviceVars, mapping
<1>2. decisions' = <<>> /\ coverage' = <<>>
    BY <1>1 DEF CallInv, Phases
<1>3. \A o : Backed(o)' <=> Backed(o)
    BY <1>1 DEF Backed, IsEvidence
<1>4. Enforce(Broken("OSError")) = Failure /\ Enforce(NoReply) = Failure /\ Backed(Failure)
    BY DEF Enforce, NoReply, Broken, Permits, Denies, Failure, Backed
<1>5. CASE Ask
  <2>1. phase' = "wait" /\ reply' = NoReply /\ outcome' = outcome
      BY <1>5 DEF Ask
  <2>2. Evidence'
      BY <2>1, <1>2, <1>3, <1>4 DEF Evidence
  <2>3. Rows'
      BY <2>1, <1>2 DEF Rows
  <2>4. OutcomeType'
    <3>1. NoReply.audit_event_id \in Int
        BY DEF NoReply, Broken, NoField
    <3>2. QED
        BY <2>1, <3>1 DEF LogInv, OutcomeType
  <2>5. QED
      BY <2>2, <2>3, <2>4 DEF LogInv
<1>6. CASE Receive \/ Timeout
  <2>1. PICK answer : Conclude(answer) /\ answer \in {Enforce(reply), Failure}
      BY <1>4, <1>6 DEF Receive, Timeout
  <2>2. phase = "wait" /\ outcome' = answer /\ phase' \in {"ask", "record"}
      BY <2>1, <1>6 DEF Conclude, Receive, Timeout
  <2>3. Backed(answer)
      BY <2>1, <2>2, <1>4 DEF LogInv, Evidence
  <2>4. answer.verdict \in Told
      BY <2>1 DEF Enforce, Failure, Told
  <2>5. Evidence'
      BY <2>2, <2>3, <2>4, <1>2, <1>3 DEF Evidence
  <2>6. Rows'
      BY <2>2, <1>2 DEF Rows
  <2>7. answer \in [verdict : Verdicts, audit_event_id : Int]
      BY <2>1, <2>2 DEF Enforce, Failure, LogInv, OutcomeType, Verdicts, NoField
  <2>8. OutcomeType'
      BY <2>2, <2>7 DEF OutcomeType
  <2>9. QED
      BY <2>5, <2>6, <2>8 DEF LogInv
<1>7. QED
    BY <1>5, <1>6

\* The decision row says what the call is told; a row that cannot be written
\* leaves none.
LEMMA RecordLogInv ==
  ASSUME CallInv, CacheProofs!IInv, LogInv, Record \/ RecordRaises
  PROVE  LogInv'
<1>1. /\ phase = "record"
      /\ UNCHANGED <<cacheVars, env, trail, calls, call, reply, coverage>>
      /\ mapping' = mapping
    BY DEF Record, RecordRaises, cacheVars, serviceVars, mapping
<1>2. /\ decisions = <<>> /\ coverage' = <<>> /\ Asking
      /\ outcome.verdict \in Told /\ Backed(outcome)
    BY <1>1 DEF CallInv, Phases, LogInv, Evidence
<1>3. \A o : Backed(o)' <=> Backed(o)
    BY <1>1 DEF Backed, IsEvidence
<1>4. CASE Record
  <2>1. /\ phase' = "cover" /\ outcome' = outcome /\ reason' = ReasonOf(outcome.verdict)
        /\ decisions' \in {<<>>, <<DecisionRow>>}
        /\ env.decision_log => decisions' = <<DecisionRow>>
      BY <1>2, <1>4 DEF Record, DecisionRow
  <2>2. Asking' /\ DecisionRow' = DecisionRow
      BY <2>1, <1>1, <1>2 DEF Asking, DecisionRow, cacheVars
  <2>3. Evidence'
      BY <2>1, <1>2, <1>3 DEF Evidence
  <2>4. Rows'
      BY <2>1, <2>2, <1>1, <1>2 DEF Rows, Told
  <2>5. OutcomeType'
      BY <2>1 DEF LogInv, OutcomeType
  <2>6. QED
      BY <2>3, <2>4, <2>5 DEF LogInv
<1>5. CASE RecordRaises
  <2>1. /\ decisions' = <<>>
        /\ \/ phase' = "record" /\ outcome' = Failure
           \/ phase' = "return" /\ outcome' = Escape
      BY <1>1, <1>2, <1>5 DEF RecordRaises
  <2>2. Backed(Failure)
      BY DEF Backed, Failure
  <2>3. Failure.verdict = "error" /\ Escape.verdict = "raise"
      BY DEF Failure, Escape
  <2>4. Evidence'
      BY <2>1, <2>2, <2>3, <1>3 DEF Evidence, Told
  <2>5. Rows'
      BY <2>1, <2>3, <1>2 DEF Rows
  <2>6. OutcomeType'
    <3>1. {Failure, Escape} \subseteq [verdict : Verdicts, audit_event_id : Int]
        BY DEF Failure, Escape, Verdicts, NoField
    <3>2. QED
        BY <2>1, <3>1 DEF OutcomeType
  <2>7. QED
      BY <2>4, <2>5, <2>6 DEF LogInv
<1>6. QED
    BY <1>4, <1>5

\* The coverage row says what the call has come to.
LEMMA CoverLogInv ==
  ASSUME CallInv, CacheProofs!IInv, LogInv, Cover
  PROVE  LogInv'
<1>1. /\ phase = "cover" /\ phase' = "return"
      /\ UNCHANGED <<cacheVars, env, trail, calls, call, reply, outcome, reason, decisions>>
      /\ mapping' = mapping
    BY DEF Cover, cacheVars, serviceVars, mapping
<1>2. coverage' \in {<<>>, <<CoverageRow>>}
  <2>1. coverage = <<>>
      BY <1>1 DEF CallInv, Phases
  <2>2. coverage' \in {coverage, Append(coverage, CoverageRow)}
      BY DEF Cover, CoverageRow
  <2> HIDE DEF CoverageRow
  <2>3. Append(<<>>, CoverageRow) = <<CoverageRow>>
      OBVIOUS
  <2>4. QED
      BY <2>1, <2>2, <2>3
<1>3. \A o : Backed(o)' <=> Backed(o)
    BY <1>1 DEF Backed, IsEvidence
<1>4. Asking' = Asking /\ DecisionRow' = DecisionRow /\ CoverageRow' = CoverageRow
    BY <1>1 DEF Asking, DecisionRow, CoverageRow, cacheVars
<1>5. Evidence'
    BY <1>1, <1>3 DEF LogInv, Evidence
<1>6. Rows'
    BY <1>1, <1>2, <1>4 DEF LogInv, Rows
<1>7. OutcomeType'
    BY <1>1 DEF LogInv, OutcomeType
<1>8. QED
    BY <1>5, <1>6, <1>7 DEF LogInv

\* The service, the operators and idle steps leave the call's rows alone; the
\* service's own answer is the evidence for them.
LEMMA OutsideLogInv ==
  ASSUME CallInv, CacheProofs!IInv, LogInv,
         \/ \E request \in inflight : Decide(request) \/ Lose(request)
         \/ \E p \in Pairs : Regrant(p)
         \/ \E s \in 1..NSources : Edit(s)
         \/ UNCHANGED vars
  PROVE  LogInv'
<1>1. trail \in Seq(AuditEvents) /\ Len(trail) \in Nat
    BY DEF CallInv, Types
<1>2. CASE \/ \E p \in Pairs : Regrant(p)
           \/ \E s \in 1..NSources : Edit(s)
           \/ UNCHANGED vars
  <2>1. UNCHANGED <<config, pc, env, trail, calls, call, phase, asked, reply, outcome, reason, decisions, coverage>>
      BY <1>2 DEF Regrant, Edit, Cache!Edit, Cache!hookVars, vars, cacheVars, serviceVars, callVars
  <2>2. mapping' = mapping
      BY <2>1 DEF mapping
  <2>3. Asking' = Asking
      BY <2>1, <2>2 DEF Asking
  <2>4. QED
      BY <2>1, <2>2, <2>3, <1>1, UntouchedLogInv
<1>3. ASSUME NEW request \in inflight, Decide(request) \/ Lose(request)
      PROVE  LogInv'
  <2>1. /\ UNCHANGED <<cacheVars, env, calls, call, phase, asked, outcome, reason, decisions, coverage>>
        /\ mapping' = mapping
      BY <1>3 DEF Decide, Lose, cacheVars, mapping
  <2>2. Asking' = Asking
      BY <2>1 DEF Asking, cacheVars
  <2>3. request \in Requests
      BY DEF CallInv, Types
  <2>4. /\ Len(trail') \in Nat /\ Len(trail) <= Len(trail')
        /\ \A id \in 1..Len(trail) : trail'[id] = trail[id]
    <3>1. CASE Lose(request)
        BY <3>1, <1>1 DEF Lose
    <3>2. CASE Decide(request)
      <4>1. PICK event : event \in AuditEvents /\ trail' = Append(trail, event)
          BY <3>2, <2>3 DEF Decide, AuditEvents, Requests
      <4>2. QED
          BY <4>1, <1>1
    <3>3. QED
        BY <1>3, <3>1, <3>2
  <2>5. \A o : Backed(o) => Backed(o)'
    <3> SUFFICES ASSUME NEW o, Backed(o) PROVE Backed(o)'
        OBVIOUS
    <3>1. ASSUME NEW id, NEW decision, IsEvidence(id, decision) PROVE IsEvidence(id, decision)'
      <4>1. id \in 1..Len(trail')
          BY <1>1, <2>4, <3>1 DEF IsEvidence
      <4>2. trail'[id] = trail[id]
          BY <2>4, <3>1 DEF IsEvidence
      <4>3. QED
          BY <2>1, <3>1, <4>1, <4>2 DEF IsEvidence
    <3>2. QED
        BY <3>1 DEF Backed
  <2>6. ASSUME phase = "wait", reply' # reply
        PROVE  Backed(Enforce(reply))' /\ reply'.audit_event_id \in Int
    <3>1. ASSUME reply' \in Garbled
          PROVE  Backed(Enforce(reply))' /\ reply'.audit_event_id \in Int
      <4>1. ~Permits(reply') /\ reply'.audit_event_id \in Int
          BY <3>1, BoundaryAssumption DEF BoundaryAssumption
      <4>2. \/ Enforce(reply') = [verdict |-> "deny", audit_event_id |-> reply'.audit_event_id] /\ Denies(reply')
            \/ Enforce(reply') = Failure
          BY <4>1 DEF Enforce, Failure
      <4>3. Denies(reply') => reply'.audit_event_id \in ForgedIds
          BY <3>1 DEF ForgedIds
      <4>4. QED
          BY <4>1, <4>2, <4>3 DEF Backed, Failure
    <3>2. CASE Lose(request)
        BY <3>1, <3>2, <2>6 DEF Lose, Deliver
    <3>3. CASE Decide(request)
      <4> DEFINE decision == IF request.pair \in grants THEN "permit" ELSE "deny"
                 id == Len(trail) + 1
                 event == [call |-> request.call, pair |-> request.pair, decision |-> decision]
                 answer == IF decision = "permit" THEN Response(200, "permit", id) ELSE HTTPError(403, id)
      <4>1. trail' = Append(trail, event) /\ Deliver(request, Garbled \cup {answer})
          BY <3>3 DEF Decide
      <4>2. request = Question /\ (reply' \in Garbled \/ reply' = answer)
          BY <4>1, <2>6 DEF Deliver
      <4>3. CASE reply' = answer
        <5>1. event \in AuditEvents /\ id \in Nat \ {0}
            BY <1>1, <2>3 DEF AuditEvents, Requests
        <5>2. id \in 1..Len(trail') /\ trail'[id] = event
            BY <4>1, <5>1, <1>1
        <5>3. Enforce(answer) = [verdict |-> decision, audit_event_id |-> id]
            BY <5>1 DEF Enforce, Permits, Denies, Response, HTTPError, AuditIds
        <5>4. answer.audit_event_id = id
            BY DEF Response, HTTPError
        <5>5. event.call = calls /\ event.pair \in Effects(mapping)
          <6>1. request.call = calls /\ request.pair = Requirements(mapping)[asked + 1]
              BY <4>2 DEF Question
          <6>2. asked < Len(Requirements(mapping)) /\ mapping.kind = "mapped" /\ pc = "served"
              BY <2>6 DEF CallInv, Phases, Asking
          <6>3. asked \in Nat /\ Len(Requirements(mapping)) \in Nat
              BY <6>2, MappingType, RequirementsType DEF CallInv, Types
          <6>4. asked + 1 \in 1..Len(Requirements(mapping))
              BY <6>2, <6>3
          <6>5. QED
              BY <6>1, <6>4 DEF Effects
        <5>6. event.decision = decision
            OBVIOUS
        <5>7. decision \in {"permit", "deny"}
            OBVIOUS
        <5> HIDE DEF id, answer, decision, event
        <5>8. Enforce(reply').verdict = decision /\ Enforce(reply').audit_event_id = id
            BY <4>3, <5>3
        <5>9. Backed(Enforce(reply))'
            BY <5>1, <5>2, <5>5, <5>6, <5>7, <5>8, <2>1 DEF Backed, IsEvidence
        <5>10. QED
            BY <4>3, <5>1, <5>4, <5>9
      <4>4. QED
          BY <3>1, <4>2, <4>3
    <3>4. QED
        BY <1>3, <3>2, <3>3
  <2>7. Evidence'
    <3>1. phase = "wait" => Backed(Enforce(reply))'
      <4>1. ASSUME phase = "wait", reply' = reply PROVE Backed(Enforce(reply))'
        <5> DEFINE o == Enforce(reply)
        <5>1. Backed(o) /\ o' = o
            BY <4>1 DEF LogInv, Evidence
        <5>2. Backed(o) => Backed(o)'
          <6> HIDE DEF o
          <6>1. QED
              BY <2>5, <5>1
        <5>3. QED
            BY <5>1, <5>2
      <4>2. QED
          BY <2>6, <4>1
    <3>2. Backed(outcome) => Backed(outcome)'
        BY <2>1, <2>5
    <3>3. QED
        BY <2>1, <3>1, <3>2 DEF LogInv, Evidence
  <2>8. Rows'
      BY <2>1, <2>2 DEF LogInv, Rows, DecisionRow, CoverageRow
  <2>9. OutcomeType'
      BY <2>1, <2>6 DEF LogInv, OutcomeType
  <2>10. QED
      BY <2>7, <2>8, <2>9 DEF LogInv
<1>4. QED
    BY <1>2, <1>3

LEMMA NextLogInv == CallInv /\ CacheProofs!IInv /\ LogInv /\ [Next]_vars => LogInv'
BY QuietLogInv, AskingLogInv, RecordLogInv, CoverLogInv, OutsideLogInv DEF Next, HookStep

LEMMA LogInvariant == Spec => []LogInv
BY InitLogInv, NextLogInv, CallInvariant, CacheInvariant, PTL DEF Spec

\* The rows say what became of the call, whichever recorder failed.
THEOREM RowsTellResult == Spec => []LogsTellResult
<1>1. CallInv /\ LogInv => LogsTellResult
  <2> SUFFICES ASSUME CallInv, LogInv, phase = "return" PROVE
        /\ env.decision_log /\ Asking /\ Result # "raise" => Len(decisions) = 1
        /\ \A i \in 1..Len(decisions) :
             /\ Asking /\ Result # "raise"
             /\ decisions[i].decision = "permit" <=> Result = "proceed"
        /\ \A i \in 1..Len(coverage) :
             /\ coverage[i].blocked <=> Result = "block"
             /\ \A j \in 1..Len(decisions) : coverage[i].enforce_decision = decisions[j].decision
      BY DEF LogsTellResult
  <2>1. Result = "raise" <=> outcome.verdict = "raise"
      BY DEF Result
  <2>2. decisions = <<>> \/ decisions = <<DecisionRow>>
      BY DEF LogInv, Rows
  <2>3. coverage = <<>> \/ coverage = <<CoverageRow>>
      BY DEF LogInv, Rows
  <2>4. Asking /\ Result # "raise" =>
          reason = ReasonOf(outcome.verdict) /\ (env.decision_log => decisions # <<>>)
      BY <2>1 DEF LogInv, Rows
  <2>5. decisions # <<>> =>
          Asking /\ Result # "raise" /\ (outcome.verdict = "permit" <=> Result = "proceed")
    <3> SUFFICES ASSUME decisions # <<>>
                 PROVE  Asking /\ Result # "raise" /\ (outcome.verdict = "permit" <=> Result = "proceed")
        OBVIOUS
    <3>1. Asking /\ outcome.verdict \in Told
        BY DEF LogInv, Rows
    <3>2. Result # "raise"
        BY <2>1, <3>1 DEF Told
    <3>3. reason = ReasonOf(outcome.verdict)
        BY <2>4, <3>1, <3>2
    <3>4. QED
        BY <3>1, <3>2, <3>3 DEF Told, ReasonOf, Result
  <2>6. coverage # <<>> => ((reason # "") <=> Result = "block")
      BY DEF LogInv, Rows, Result
  <2>7. \A i \in 1..Len(decisions) : decisions[i].decision = outcome.verdict /\ decisions # <<>>
      BY <2>2 DEF DecisionRow
  <2>8. \A i \in 1..Len(coverage) :
          /\ coverage[i].blocked <=> reason # ""
          /\ coverage[i].enforce_decision = outcome.verdict
          /\ coverage # <<>>
    <3>1. (CoverageRow.blocked <=> reason # "") /\ CoverageRow.enforce_decision = outcome.verdict
        BY DEF CoverageRow
    <3> HIDE DEF CoverageRow
    <3>2. \A i \in 1..Len(coverage) : coverage[i] = CoverageRow /\ coverage # <<>>
        BY <2>3
    <3>3. QED
        BY <3>1, <3>2, Zenon
  <2>9. decisions # <<>> => Len(decisions) = 1
      BY <2>2
  <2>10. QED
      BY <2>4, <2>5, <2>6, <2>7, <2>8, <2>9
<1>2. QED
    BY <1>1, CallInvariant, LogInvariant, PTL

\* The audit id of a permit row names an event of this call that permits one
\* of its effects; that of a denial row too, unless the 403 was forged.
THEOREM RowsAreEvidenced == Spec => []RowsHaveEvidence
<1>1. LogInv => RowsHaveEvidence
  <2> SUFFICES ASSUME LogInv, NEW i \in 1..Len(decisions)
               PROVE  LET decision == decisions[i].decision
                          id == decisions[i].audit_event_id
                      IN CASE decision = "permit" -> IsEvidence(id, decision)
                           [] decision = "deny" -> IsEvidence(id, decision) \/ id \in ForgedIds
                           [] decision = "error" -> id = NoField
      BY DEF RowsHaveEvidence
  <2>1. decisions # <<>> /\ decisions[i] = DecisionRow /\ outcome.verdict \in Told
      BY DEF LogInv, Rows
  <2>2. Backed(outcome)
      BY <2>1 DEF LogInv, Evidence
  <2>3. decisions[i].decision = outcome.verdict /\ decisions[i].audit_event_id = outcome.audit_event_id
      BY <2>1 DEF DecisionRow
  <2>4. QED
      BY <2>1, <2>2, <2>3 DEF Backed, Told
<1>2. QED
    BY <1>1, LogInvariant, PTL

\* The variables of the boundary keep their types.
THEOREM TypeCorrect == Spec => []TypeOK
<1>1. CacheProofs!IInv => Cache!TypeOK
    BY DEF CacheProofs!IInv, CacheProofs!TypeOK, Cache!TypeOK, CacheProofs!Sources, Cache!Sources,
       CacheProofs!FileStates, Cache!FileStates, CacheProofs!Partial, Cache!Partial
<1>2. LogInv => Len(decisions) \in {0, 1} /\ Len(coverage) \in {0, 1}
    BY DEF LogInv, Rows
<1>3. CallInv /\ LogInv /\ CacheProofs!IInv => TypeOK
    BY <1>1, <1>2 DEF CallInv, Types, LogInv, OutcomeType, TypeOK
<1>4. QED
    BY <1>3, CallInvariant, LogInvariant, CacheInvariant, PTL

-----------------------------------------------------------------------------
(* The boundary implements the abstract gate: every step of the hook, the  *)
(* service and the operators is one of the gate's or leaves it alone.      *)

\* The service has not heard of a call before the hook asks about it.
Unheard ==
  /\ \A id \in 1..Len(trail) : trail[id].call <= calls
  /\ \A request \in inflight : request.call <= calls
  /\ phase = "config" /\ pc \notin {"idle", "failed"} /\ ~startup =>
       /\ \A id \in 1..Len(trail) : trail[id].call < calls
       /\ \A request \in inflight : request.call < calls

LEMMA InitUnheard == Init => Unheard
<1> SUFFICES ASSUME Init PROVE Unheard
    OBVIOUS
<1>1. Len(trail) = 0 /\ inflight = {}
    BY DEF Init
<1>2. startup
    BY DEF Init, Cache!Init
<1>3. 1..Len(trail) = {}
    BY <1>1
<1>4. QED
    BY <1>1, <1>2, <1>3 DEF Unheard

\* A step of the call itself sends at most a question about it.
LEMMA HookUnheard ==
  ASSUME CallInv, CacheProofs!IInv, Unheard,
         HookStep \/ Restart \/ (\E p \in Pairs : Regrant(p)) \/ (\E s \in 1..NSources : Edit(s)) \/ UNCHANGED vars
  PROVE  Unheard'
<1>1. trail' = trail /\ calls' = calls
    BY DEF HookStep, CheckConfig, InvalidConfig, ConfigRaises, ResolutionRaises, Raise, BlockUnmapped, DeferUnmapped, MappingError,
       MissingAuth, BeginAsking, Ask, Receive, Timeout, Record, RecordRaises, Cover, Return, Settle, Conclude,
       Restart, Regrant, Edit, vars, serviceVars, callVars
<1>2. \A request \in inflight' : request \in inflight \/ request.call = calls
  <2>1. CASE Ask
      BY <2>1 DEF Ask, Question
  <2>2. CASE ~Ask
    <3>1. inflight' = inflight
        BY <2>2 DEF HookStep, CheckConfig, InvalidConfig, ConfigRaises, ResolutionRaises, Raise, BlockUnmapped, DeferUnmapped,
           MappingError, MissingAuth, BeginAsking, Receive, Timeout, Record, RecordRaises, Cover, Return,
           Settle, Conclude, Restart, Regrant, Edit, vars, serviceVars, callVars
    <3>2. QED
        BY <3>1
  <2>3. QED
      BY <2>1, <2>2
<1>3. calls \in Nat
    BY DEF CallInv, Types
<1>4. phase' = "config" /\ pc' \notin {"idle", "failed"} /\ ~startup' =>
        /\ phase = "config" /\ pc \notin {"idle", "failed"} /\ ~startup
        /\ inflight' = inflight
  <2>1. CASE CheckConfig
      BY <2>1 DEF CheckConfig, serviceVars, callVars, Cache!StatSource, Cache!ServeCached, Cache!NoticeChange,
         Cache!StartReading, Cache!ReadValid, Cache!ReadInvalid, Cache!ReadRaises, Cache!FinishLoad, Cache!Begin
  <2>2. CASE InvalidConfig \/ ConfigRaises \/ ResolutionRaises \/ BlockUnmapped \/ DeferUnmapped \/ MappingError \/ MissingAuth
             \/ BeginAsking \/ Ask \/ Record \/ RecordRaises \/ Cover
      BY <2>2 DEF InvalidConfig, ConfigRaises, ResolutionRaises, Raise, BlockUnmapped, DeferUnmapped, MappingError, MissingAuth,
         BeginAsking, Settle, Ask, Record, RecordRaises, Cover
  <2>3. CASE Receive \/ Timeout
      BY <2>3 DEF Receive, Timeout, Conclude
  <2>4. CASE Return \/ Restart
      BY <2>4 DEF Return, Restart, Cache!Return, Cache!Restart, Cache!Begin
  <2>5. CASE (\E p \in Pairs : Regrant(p)) \/ (\E s \in 1..NSources : Edit(s)) \/ UNCHANGED vars
      BY <2>5 DEF Regrant, Edit, Cache!Edit, Cache!hookVars, vars, cacheVars, serviceVars, callVars
  <2>6. QED
      BY <2>1, <2>2, <2>3, <2>4, <2>5 DEF HookStep
<1>5. QED
    BY <1>1, <1>2, <1>3, <1>4 DEF Unheard

\* A call has a number of its own.
LEMMA CallUnheard ==
  ASSUME CallInv, Unheard, NEW c \in Calls, PreToolCall(c)
  PROVE  Unheard'
<1>1. /\ calls' = calls + 1 /\ trail' = trail /\ inflight' = inflight
      /\ calls \in Nat
    BY DEF PreToolCall, serviceVars, CallInv, Types, BoundaryAssumption
<1>2. /\ \A id \in 1..Len(trail) : trail[id].call \in Int
      /\ \A request \in inflight : request.call \in Int
  <2>1. trail \in Seq(AuditEvents) /\ inflight \subseteq Requests
      BY DEF CallInv, Types
  <2>2. \A id \in 1..Len(trail) : trail[id] \in AuditEvents
      BY <2>1
  <2>3. MaxCalls \in Nat
      BY BoundaryAssumption DEF BoundaryAssumption
  <2>4. (\A event \in AuditEvents : event.call \in Int) /\ \A request \in Requests : request.call \in Int
      BY <2>3 DEF AuditEvents, Requests
  <2>5. QED
      BY <2>1, <2>2, <2>4
<1>3. QED
    BY <1>1, <1>2 DEF Unheard

\* A decision is about the call its request is about.
LEMMA ServiceUnheard ==
  ASSUME CallInv, Unheard, NEW request \in inflight, Decide(request) \/ Lose(request)
  PROVE  Unheard'
<1>1. /\ UNCHANGED <<calls, phase, pc, startup>>
      /\ inflight' = inflight \ {request}
    BY DEF Decide, Lose, cacheVars
<1>2. trail \in Seq(AuditEvents) /\ request \in Requests
    BY DEF CallInv, Types
<1>3. \A id \in 1..Len(trail') : (id \in 1..Len(trail) /\ trail'[id] = trail[id]) \/ trail'[id].call = request.call
  <2>1. CASE Lose(request)
      BY <2>1 DEF Lose
  <2>2. CASE Decide(request)
    <3>1. PICK event : event \in AuditEvents /\ event.call = request.call /\ trail' = Append(trail, event)
        BY <1>2, <2>2 DEF Decide, AuditEvents, Requests
    <3>2. QED
        BY <3>1, <1>2
  <2>3. QED
      BY <2>1, <2>2
<1>4. QED
    BY <1>1, <1>3 DEF Unheard

LEMMA UnheardInvariant == Spec => []Unheard
<1>1. CallInv /\ CacheProofs!IInv /\ Unheard /\ [Next]_vars => Unheard'
    BY HookUnheard, CallUnheard, ServiceUnheard DEF Next
<1>2. QED
    BY <1>1, InitUnheard, CallInvariant, CacheInvariant, PTL DEF Spec

-----------------------------------------------------------------------------
(* Where the abstract call is. *)

Unpermitted == {p \in Effects(mapping) : ~PermittedNow(p)}

StageByPhase ==
  /\ ~Running => Stage = "idle"
  /\ Running /\ phase # "return" => Stage = IF Asking THEN "judging" ELSE "received"
  /\ Running /\ phase = "return" =>
       Stage = IF Result = "proceed" THEN IF Asking THEN "allow" ELSE "defer" ELSE Result
  /\ Owed = IF Stage \in {"judging", "allow"} THEN Unpermitted ELSE {}
  /\ Result \in {"raise", "block", "proceed"}

LEMMA Stages == StageByPhase /\ StageByPhase'
<1>1. StageByPhase
  <2>1. (~Running => Stage = "idle")
      BY DEF Running, Stage
  <2>2. (Running /\ phase # "return" => Stage = IF Asking THEN "judging" ELSE "received")
      BY DEF Running, Stage
  <2>3. (Running /\ phase = "return" =>
           Stage = IF Result = "proceed" THEN IF Asking THEN "allow" ELSE "defer" ELSE Result)
      BY DEF Running, Stage
  <2>4. (Owed = IF Stage \in {"judging", "allow"} THEN Unpermitted ELSE {})
      BY DEF Owed, Unpermitted
  <2>5. (Result \in {"raise", "block", "proceed"})
      BY DEF Result
  <2>6. QED
      BY <2>1, <2>2, <2>3, <2>4, <2>5 DEF StageByPhase
<1>2. StageByPhase'
  <2>1. (~Running => Stage = "idle")'
      BY DEF Running, Stage
  <2>2. (Running /\ phase # "return" => Stage = IF Asking THEN "judging" ELSE "received")'
      BY DEF Running, Stage
  <2>3. (Running /\ phase = "return" =>
           Stage = IF Result = "proceed" THEN IF Asking THEN "allow" ELSE "defer" ELSE Result)'
      BY DEF Running, Stage
  <2>4. (Owed = IF Stage \in {"judging", "allow"} THEN Unpermitted ELSE {})'
      BY DEF Owed, Unpermitted
  <2>5. (Result \in {"raise", "block", "proceed"})'
      BY DEF Result
  <2>6. QED
      BY <2>1, <2>2, <2>3, <2>4, <2>5 DEF StageByPhase
<1>3. QED
    BY <1>1, <1>2

\* A call that is served, blocked or raised in is running.
LEMMA Runs == ASSUME CacheProofs!IInv, pc \in {"served", "blocked", "raised"} PROVE Running
BY DEF CacheProofs!IInv, CacheProofs!Progress, Running

GateStep == [AbstractGate!Next]_<<Stage, Owed>>

\* Up to the first question: the call is received.
LEMMA CheckingGate ==
  ASSUME CallInv, CacheProofs!IInv, (\E c \in Calls : PreToolCall(c)) \/ CheckConfig \/ Restart
  PROVE  GateStep
<1>1. phase = "config" /\ phase' = "config" /\ ~Asking /\ ~Asking'
  <2>1. phase' = phase
      BY DEF PreToolCall, CheckConfig, Restart, callVars
  <2>2. phase = "config"
      BY DEF CallInv, Phases, Types, PreToolCall, CheckConfig, Restart, Cache!PreToolCall,
         Cache!Restart, Cache!StatSource, Cache!ServeCached, Cache!NoticeChange, Cache!StartReading,
         Cache!ReadValid, Cache!ReadInvalid, Cache!ReadRaises, Cache!FinishLoad
  <2>3. QED
      BY <2>1, <2>2 DEF Asking
<1>2. CASE \E c \in Calls : PreToolCall(c)
  <2>1. ~Running /\ Running'
      BY <1>2 DEF PreToolCall, Cache!PreToolCall, Cache!Begin, Running
  <2>2. Stage = "idle" /\ Stage' = "received" /\ Owed = {} /\ Owed' = {}
      BY <2>1, <1>1, Stages DEF StageByPhase
  <2>3. QED
      BY <2>2 DEF GateStep, AbstractGate!Next, AbstractGate!Call
<1>3. CASE CheckConfig \/ Restart
  <2>1. Running' <=> Running
      BY <1>3 DEF CheckConfig, Restart, Cache!Restart, Cache!StatSource, Cache!ServeCached, Cache!NoticeChange,
         Cache!StartReading, Cache!ReadValid, Cache!ReadInvalid, Cache!ReadRaises, Cache!FinishLoad,
         Cache!Begin, Running
  <2>2. Stage' = Stage /\ Owed = {} /\ Owed' = {}
      BY <2>1, <1>1, Stages DEF StageByPhase
  <2>3. QED
      BY <2>2 DEF GateStep
<1>4. QED
    BY <1>2, <1>3

\* A call that is settled without a question is as it was received.
LEMMA SettledGate ==
  ASSUME CallInv, CacheProofs!IInv,
         InvalidConfig \/ ConfigRaises \/ ResolutionRaises \/ BlockUnmapped \/ DeferUnmapped \/ MappingError \/ MissingAuth
  PROVE  GateStep
<1>1. /\ phase = "config" /\ pc \in {"served", "blocked", "raised"}
      /\ UNCHANGED <<pc, startup, env>> /\ mapping' = mapping
      /\ pc # "served" \/ mapping.kind # "mapped" \/ ~env.auth
    BY DEF InvalidConfig, ConfigRaises, ResolutionRaises, Raise, BlockUnmapped, DeferUnmapped, MappingError, MissingAuth,
       Settle, Resolved, mapping, cacheVars
<1>2. Running /\ Running' /\ ~Asking /\ ~Asking'
    BY <1>1, Runs DEF Running, Asking
<1>3. Stage = "received" /\ Owed = {}
    BY <1>1, <1>2, Stages DEF StageByPhase
<1>4. CASE ConfigRaises \/ ResolutionRaises
  <2>1. phase' = "return" /\ Result' = "raise"
    <3>1. Raise
        BY <1>4 DEF ConfigRaises, ResolutionRaises
    <3>2. phase' = "return" /\ outcome'.verdict = "raise"
        BY <3>1 DEF Raise, Escape
    <3>3. QED
        BY <3>2 DEF Result
  <2>2. Stage' = "raise" /\ Owed' = {}
      BY <2>1, <1>2, Stages DEF StageByPhase
  <2>3. QED
      BY <2>2, <1>3 DEF GateStep, AbstractGate!Next, AbstractGate!Refuse
<1>5. CASE ~(ConfigRaises \/ ResolutionRaises)
  <2>1. phase' = "cover"
      BY <1>5 DEF InvalidConfig, BlockUnmapped, DeferUnmapped, MappingError, MissingAuth, Settle, Resolved
  <2>2. Stage' = "received" /\ Owed' = {}
      BY <2>1, <1>2, Stages DEF StageByPhase
  <2>3. QED
      BY <2>2, <1>3 DEF GateStep
<1>6. QED
    BY <1>4, <1>5

\* The judging starts with every effect owed.
LEMMA JudgingGate ==
  ASSUME CallInv, CacheProofs!IInv, Unheard, BeginAsking
  PROVE  GateStep
<1>1. /\ phase = "config" /\ phase' = "ask" /\ pc = "served" /\ mapping.kind = "mapped" /\ env.auth
      /\ UNCHANGED <<pc, startup, env, trail, calls>> /\ mapping' = mapping
    BY DEF BeginAsking, Resolved, mapping, cacheVars, serviceVars
<1>2. Running /\ Running' /\ ~Asking /\ Asking'
    BY <1>1, Runs DEF Running, Asking
<1>3. \A p : ~PermittedNow(p)
  <2>1. trail \in Seq(AuditEvents) /\ calls \in Nat
      BY DEF CallInv, Types
  <2>2. \A id \in 1..Len(trail) : trail[id].call # calls
      BY <1>1, <1>2, <2>1 DEF Unheard, Running
  <2>3. QED
      BY <2>2 DEF PermittedNow
<1>4. Unpermitted' = Effects(mapping)
    BY <1>1, <1>3 DEF Unpermitted, PermittedNow
<1>5. Effects(mapping) \in (SUBSET Pairs) \ {{}}
  <2>1. Requirements(mapping) \in Seq(Pairs) /\ Len(Requirements(mapping)) \in Nat \ {0}
      BY <1>1, MappingType, RequirementsType DEF CallInv, Types
  <2>2. \A i \in 1..Len(Requirements(mapping)) : Requirements(mapping)[i] \in Pairs
      BY <2>1
  <2>3. 1 \in 1..Len(Requirements(mapping))
      BY <2>1
  <2>4. Requirements(mapping)[1] \in Effects(mapping)
      BY <2>3 DEF Effects
  <2>5. Effects(mapping) \subseteq Pairs
      BY <2>2 DEF Effects
  <2>6. QED
      BY <2>4, <2>5
<1>6. Stage = "received" /\ Owed = {} /\ Stage' = "judging" /\ Owed' = Effects(mapping)
    BY <1>1, <1>2, <1>4, Stages DEF StageByPhase
<1>7. AbstractGate!Judge(Effects(mapping))
    BY <1>5, <1>6 DEF AbstractGate!Judge
<1>8. QED
    BY <1>5, <1>7 DEF GateStep, AbstractGate!Next

\* Asking alone settles nothing: what is owed is the service's to permit.
LEMMA AskingGate ==
  ASSUME CallInv, CacheProofs!IInv, Ask \/ Receive \/ Timeout \/ Record
  PROVE  GateStep
<1>1. /\ phase \in {"ask", "wait", "record"} /\ phase' # "return" /\ phase' # "config"
      /\ UNCHANGED <<pc, startup, env, trail, calls>> /\ mapping' = mapping
    BY DEF Ask, Receive, Timeout, Conclude, Record, mapping, cacheVars, serviceVars
<1>2. Asking /\ pc = "served"
    BY <1>1 DEF CallInv, Phases, Asking
<1>3. Running /\ Running' /\ Asking'
    BY <1>1, <1>2, Runs DEF Running, Asking
<1>4. Unpermitted' = Unpermitted
    BY <1>1 DEF Unpermitted, PermittedNow
<1>5. Stage' = Stage /\ Owed' = Owed
    BY <1>1, <1>2, <1>3, <1>4, Stages DEF StageByPhase
<1>6. QED
    BY <1>5 DEF GateStep

\* A row that cannot be written ends the call with an exception, or makes a
\* failure of a permit.
LEMMA RaisingGate ==
  ASSUME CallInv, CacheProofs!IInv, RecordRaises
  PROVE  GateStep
<1>1. /\ phase = "record" /\ UNCHANGED <<pc, startup, env, trail, calls>> /\ mapping' = mapping
      /\ phase' = "record" \/ (phase' = "return" /\ outcome' = Escape)
    BY DEF RecordRaises, mapping, cacheVars, serviceVars
<1>2. Asking /\ pc = "served"
    BY <1>1 DEF CallInv, Phases, Asking
<1>3. Running /\ Running' /\ Asking'
    BY <1>1, <1>2, Runs DEF Running, Asking
<1>4. Unpermitted' = Unpermitted
    BY <1>1 DEF Unpermitted, PermittedNow
<1>5. Stage = "judging"
    BY <1>1, <1>2, <1>3, Stages DEF StageByPhase
<1>6. CASE phase' = "record"
  <2>1. Stage' = Stage /\ Owed' = Owed
      BY <1>3, <1>4, <1>5, <1>6, Stages DEF StageByPhase
  <2>2. QED
      BY <2>1 DEF GateStep
<1>7. CASE phase' = "return" /\ outcome' = Escape
  <2>1. Result' = "raise"
      BY <1>7 DEF Result, Escape
  <2>2. Stage' = "raise" /\ Owed' = {}
      BY <2>1, <1>3, <1>7, Stages DEF StageByPhase
  <2>3. QED
      BY <2>2, <1>5 DEF GateStep, AbstractGate!Next, AbstractGate!Refuse
<1>8. QED
    BY <1>1, <1>6, <1>7

\* A call that proceeds is allowed with nothing owed, or deferred.
LEMMA EndingGate ==
  ASSUME CallInv, CacheProofs!IInv, Cover
  PROVE  GateStep
<1>1. /\ phase = "cover" /\ phase' = "return"
      /\ UNCHANGED <<pc, startup, env, trail, calls, outcome, reason>> /\ mapping' = mapping
    BY DEF Cover, mapping, cacheVars, serviceVars
<1>2. Running /\ Running'
  <2>1. pc \in {"served", "blocked", "raised"}
      BY <1>1 DEF CallInv, Phases
  <2>2. QED
      BY <2>1, <1>1, Runs DEF Running
<1>3. Asking' = Asking /\ Result' = Result
    BY <1>1 DEF Asking, Result
<1>4. Unpermitted' = Unpermitted
    BY <1>1 DEF Unpermitted, PermittedNow
<1>5. Stage = IF Asking THEN "judging" ELSE "received"
    BY <1>1, <1>2, Stages DEF StageByPhase
<1>6. CASE Result # "proceed"
  <2>1. Stage' \in {"block", "raise"} /\ Owed' = {}
      BY <1>1, <1>2, <1>3, <1>6, Stages DEF StageByPhase
  <2>2. QED
      BY <2>1, <1>5 DEF GateStep, AbstractGate!Next, AbstractGate!Refuse
<1>7. CASE Result = "proceed" /\ Asking
  <2>1. Unpermitted = {}
      BY <1>1, <1>7, AllPermitted DEF Unpermitted, Asking
  <2>2. Stage = "judging" /\ Owed = {} /\ Stage' = "allow" /\ Owed' = {}
      BY <2>1, <1>1, <1>2, <1>3, <1>4, <1>7, Stages DEF StageByPhase
  <2>3. QED
      BY <2>2 DEF GateStep, AbstractGate!Next, AbstractGate!Allow
<1>8. CASE Result = "proceed" /\ ~Asking
  <2>1. Stage = "received" /\ Owed = {} /\ Stage' = "defer" /\ Owed' = {}
      BY <1>1, <1>2, <1>3, <1>8, Stages DEF StageByPhase
  <2>2. QED
      BY <2>1 DEF GateStep, AbstractGate!Next, AbstractGate!Defer
<1>9. QED
    BY <1>6, <1>7, <1>8

\* Nothing is owed once the hook has returned.
LEMMA ReturningGate ==
  ASSUME CallInv, CacheProofs!IInv, Return
  PROVE  GateStep
<1>1. phase = "return" /\ pc' = "idle"
    BY DEF Return, Cache!Return, Cache!Begin
<1>2. Running /\ ~Running'
    BY <1>1, Runs DEF Running, CallInv, Phases
<1>3. Stage \in {"allow", "defer", "block", "raise"}
    BY <1>1, <1>2, Stages DEF StageByPhase
<1>4. Owed = {}
  <2>1. CASE Stage = "allow"
    <3>1. Asking /\ Result = "proceed"
        BY <2>1, <1>1, <1>2, Stages DEF StageByPhase
    <3>2. Unpermitted = {}
        BY <3>1, <1>1, AllPermitted DEF Unpermitted, Asking
    <3>3. QED
        BY <3>2, Stages DEF StageByPhase
  <2>2. CASE Stage # "allow"
      BY <2>2, <1>3, Stages DEF StageByPhase
  <2>3. QED
      BY <2>1, <2>2
<1>5. Stage' = "idle" /\ Owed' = {}
    BY <1>2, Stages DEF StageByPhase
<1>6. QED
    BY <1>3, <1>4, <1>5 DEF GateStep, AbstractGate!Next, AbstractGate!Close

\* A permit of the service settles the effect it is about, if the call that
\* asked is the present one.
LEMMA ServiceGate ==
  ASSUME CallInv, CacheProofs!IInv, NEW request \in inflight, Decide(request) \/ Lose(request)
  PROVE  GateStep
<1>1. UNCHANGED <<pc, startup, env, calls, phase, outcome, reason>> /\ mapping' = mapping
    BY DEF Decide, Lose, mapping, cacheVars
<1>2. (Running' <=> Running) /\ (Asking' <=> Asking) /\ Result' = Result
    BY <1>1 DEF Running, Asking, Result
<1>3. Stage' = Stage
  <2>1. CASE Running
    <3>1. Running'
        BY <2>1, <1>2
    <3>2. QED
        BY <2>1, <3>1, <1>1, <1>2, Stages DEF StageByPhase
  <2>2. CASE ~Running
      BY <2>2, <1>2, Stages DEF StageByPhase
  <2>3. QED
      BY <2>1, <2>2
<1>4. trail \in Seq(AuditEvents) /\ request \in Requests
    BY DEF CallInv, Types
<1>5. \E p \in Pairs : Unpermitted' \in {Unpermitted, Unpermitted \ {p}}
  <2>1. CASE Lose(request)
    <3>1. Unpermitted' = Unpermitted
        BY <2>1, <1>1 DEF Lose, Unpermitted, PermittedNow
    <3>2. request.pair \in Pairs
        BY <1>4 DEF Requests
    <3>3. QED
        BY <3>1, <3>2
  <2>2. CASE Decide(request)
    <3>1. PICK event : event \in AuditEvents /\ event.pair = request.pair /\ trail' = Append(trail, event)
        BY <1>4, <2>2 DEF Decide, AuditEvents, Requests
    <3>2. request.pair \in Pairs
        BY <1>4 DEF Requests
    <3>3. /\ Len(trail) \in Nat /\ Len(trail') = Len(trail) + 1
          /\ trail'[Len(trail) + 1] = event
          /\ \A id \in 1..Len(trail) : trail'[id] = trail[id]
        BY <3>1, <1>4
    <3>4. ASSUME NEW p
          PROVE  PermittedNow(p)' <=>
                   PermittedNow(p) \/ event = [call |-> calls, pair |-> p, decision |-> "permit"]
        BY <3>3, <1>1 DEF PermittedNow
    <3>5. \A p : event = [call |-> calls, pair |-> p, decision |-> "permit"] => p = request.pair
        BY <3>1
    <3>6. CASE event = [call |-> calls, pair |-> request.pair, decision |-> "permit"]
      <4>1. Unpermitted' = Unpermitted \ {request.pair}
          BY <3>4, <3>5, <3>6, <1>1 DEF Unpermitted
      <4>2. QED
          BY <4>1, <3>2
    <3>7. CASE event # [call |-> calls, pair |-> request.pair, decision |-> "permit"]
      <4>1. Unpermitted' = Unpermitted
          BY <3>4, <3>5, <3>7, <1>1 DEF Unpermitted
      <4>2. QED
          BY <4>1, <3>2
    <3>8. QED
        BY <3>6, <3>7
  <2>3. QED
      BY <2>1, <2>2
<1>6. CASE Stage = "judging"
  <2>1. Owed = Unpermitted /\ Owed' = Unpermitted'
      BY <1>3, <1>6, Stages DEF StageByPhase
  <2>2. PICK p \in Pairs : Owed' = Owed \/ Owed' = Owed \ {p}
      BY <2>1, <1>5
  <2>3. CASE Owed' = Owed
      BY <2>3, <1>3 DEF GateStep
  <2>4. CASE Owed' # Owed
    <3>1. p \in Owed /\ Owed' = Owed \ {p}
        BY <2>2, <2>4
    <3>2. AbstractGate!Permit(p)
        BY <3>1, <1>3, <1>6 DEF AbstractGate!Permit
    <3>3. QED
        BY <3>2 DEF GateStep, AbstractGate!Next
  <2>5. QED
      BY <2>3, <2>4
<1>7. CASE Stage = "allow"
  <2>1. Asking /\ Result = "proceed" /\ phase = "return"
      BY <1>7, Stages DEF StageByPhase
  <2>2. Unpermitted = {}
      BY <2>1, AllPermitted DEF Unpermitted, Asking
  <2>3. Unpermitted' = {}
      BY <2>2, <1>5
  <2>4. Owed' = Owed
      BY <2>2, <2>3, <1>3, <1>7, Stages DEF StageByPhase
  <2>5. QED
      BY <2>4, <1>3 DEF GateStep
<1>8. CASE Stage \notin {"judging", "allow"}
  <2>1. Owed' = Owed
      BY <1>3, <1>8, Stages DEF StageByPhase
  <2>2. QED
      BY <2>1, <1>3 DEF GateStep
<1>9. QED
    BY <1>6, <1>7, <1>8

\* Operators and idle steps do not touch a call.
LEMMA OutsideGate ==
  ASSUME (\E p \in Pairs : Regrant(p)) \/ (\E s \in 1..NSources : Edit(s)) \/ UNCHANGED vars
  PROVE  GateStep
<1>1. UNCHANGED <<config, pc, startup, env, trail, calls, call, phase, outcome, reason>>
    BY DEF Regrant, Edit, Cache!Edit, Cache!hookVars, vars, cacheVars, serviceVars, callVars
<1>2. Stage' = Stage /\ Owed' = Owed
    BY <1>1 DEF Stage, Owed, Running, Asking, Result, mapping, PermittedNow
<1>3. QED
    BY <1>2 DEF GateStep

\* The boundary implements the gate, for any classifier, grants and failures.
THEOREM GateIsImplemented == Spec => ImplementsGate
<1>1. Init => AbstractGate!Init
  <2> SUFFICES ASSUME Init PROVE AbstractGate!Init
      OBVIOUS
  <2>1. ~Running
      BY DEF Init, Cache!Init, Running
  <2>2. QED
      BY <2>1, Stages DEF StageByPhase, AbstractGate!Init
<1>2. CallInv /\ CacheProofs!IInv /\ Unheard /\ [Next]_vars => GateStep
    BY CheckingGate, SettledGate, JudgingGate, AskingGate, RaisingGate, EndingGate, ReturningGate,
       ServiceGate, OutsideGate DEF Next, HookStep
<1>3. QED
    BY <1>1, <1>2, CallInvariant, CacheInvariant, UnheardInvariant, PTL
       DEF Spec, ImplementsGate, AbstractGate!Spec, GateStep

-----------------------------------------------------------------------------
(* A call comes to its end: each step of the hook brings it nearer. *)

LEMMA SameSteps ==
  /\ Cache!StepsLeft = CacheProofs!StepsLeft
  /\ Cache!StepsLeft' = CacheProofs!StepsLeft'
BY DEF Cache!StepsLeft, CacheProofs!StepsLeft

\* The questions a call may still ask are counted while it asks.
LEMMA QuestionsLeft ==
  ASSUME CallInv, CacheProofs!IInv, Asking
  PROVE  Len(Requirements(mapping)) \in Nat /\ asked \in Nat
BY MappingType, RequirementsType DEF CallInv, Types, Asking

LEMMA StepsAheadType ==
  ASSUME CallInv, CacheProofs!IInv PROVE StepsAhead \in Nat
<1>1. CASE phase = "config" /\ pc = "served"
  <2>1. mapping \in MappingResults(Pairs)
      BY <1>1, MappingType DEF CallInv, Types
  <2>2. Len(Requirements(mapping)) \in Nat
      BY <2>1, RequirementsType DEF Requirements
  <2>3. QED
      BY <1>1, <2>2 DEF StepsAhead
<1>2. CASE phase = "config" /\ pc # "served"
    BY <1>2 DEF StepsAhead
<1>3. CASE phase \in {"ask", "wait"}
  <2>1. asked < Len(Requirements(mapping)) /\ Asking
      BY <1>3 DEF CallInv, Phases
  <2>2. QED
      BY <1>3, <2>1, QuestionsLeft DEF StepsAhead
<1>4. CASE phase \in {"record", "cover", "return"}
    BY <1>4 DEF StepsAhead
<1>5. QED
    BY <1>1, <1>2, <1>3, <1>4 DEF CallInv, Types

\* The configuration check counts in the steps of the snapshot.
LEMMA CheckingCounts ==
  ASSUME CacheProofs!IInv, CheckConfig \/ Return PROVE Nearer
<1>1. CacheProofs!HookStep
    BY DEF CheckConfig, Return, CacheProofs!HookStep,
       Cache!Sources, CacheProofs!Sources, Cache!FileStates, CacheProofs!FileStates,
       Cache!NothingYet, CacheProofs!NothingYet, Cache!Begin, CacheProofs!Begin,
       Cache!StatSource, CacheProofs!StatSource, Cache!ServeCached, CacheProofs!ServeCached,
       Cache!NoticeChange, CacheProofs!NoticeChange, Cache!StartReading, CacheProofs!StartReading,
       Cache!ReadValid, CacheProofs!ReadValid, Cache!ReadInvalid, CacheProofs!ReadInvalid,
       Cache!ReadRaises, CacheProofs!ReadRaises, Cache!FinishLoad, CacheProofs!FinishLoad,
       Cache!Return, CacheProofs!Return
<1>2. CacheProofs!StepsLeft' < CacheProofs!StepsLeft
    BY <1>1, CacheProofs!HookStepCounts, SameCache DEF CacheProofs!IInv
<1>3. QED
    BY <1>2, SameSteps DEF Nearer

\* The other steps of a call leave the snapshot alone.
LEMMA SnapshotStands ==
  ASSUME UNCHANGED cacheVars PROVE Cache!StepsLeft' = Cache!StepsLeft
BY DEF cacheVars, Cache!StepsLeft

\* What settles a call without a question leads to its last steps.
LEMMA SettledCounts ==
  ASSUME CallInv, CacheProofs!IInv,
         InvalidConfig \/ ConfigRaises \/ ResolutionRaises \/ BlockUnmapped \/ DeferUnmapped \/ MappingError \/ MissingAuth
  PROVE  Nearer
<1>1. UNCHANGED cacheVars /\ phase = "config" /\ phase' \in {"cover", "return"}
    BY DEF InvalidConfig, ConfigRaises, ResolutionRaises, Raise, BlockUnmapped, DeferUnmapped, MappingError, MissingAuth, Resolved, Settle
<1>2. StepsAhead' \in {1, 2}
    BY <1>1 DEF StepsAhead
<1>3. StepsAhead \in Nat /\ StepsAhead >= 5
  <2>1. CASE pc = "served"
    <3>1. mapping \in MappingResults(Pairs)
        BY <2>1, MappingType DEF CallInv, Types
    <3>2. Len(Requirements(mapping)) \in Nat
        BY <3>1, RequirementsType DEF Requirements
    <3>3. StepsAhead = 2 * Len(Requirements(mapping)) + 5
        BY <1>1, <2>1 DEF StepsAhead
    <3>4. QED
        BY <3>2, <3>3
  <2>2. CASE pc # "served"
    <3>1. StepsAhead = 5
        BY <1>1, <2>2 DEF StepsAhead
    <3>2. QED
        BY <3>1
  <2>3. QED
      BY <2>1, <2>2
<1>4. StepsAhead' < StepsAhead
    BY <1>2, <1>3
<1>5. QED
    BY <1>1, <1>4, SnapshotStands DEF Nearer

\* The first question, and each one that is sent.
LEMMA SendingCounts ==
  ASSUME CallInv, CacheProofs!IInv, BeginAsking \/ Ask PROVE Nearer
<1>1. UNCHANGED cacheVars /\ UNCHANGED <<call, asked>> /\ mapping' = mapping
    BY DEF BeginAsking, Ask, cacheVars, mapping
<1>2. CASE BeginAsking
  <2>1. phase = "config" /\ pc = "served" /\ phase' = "ask" /\ asked = 0 /\ mapping.kind = "mapped"
      BY <1>2 DEF BeginAsking, Resolved, CallInv, Phases
  <2>2. Len(Requirements(mapping)) \in Nat
      BY <2>1, MappingType, RequirementsType DEF CallInv, Types
  <2>3. StepsAhead' < StepsAhead
      BY <1>1, <2>1, <2>2 DEF StepsAhead
  <2>4. QED
      BY <1>1, <2>3, SnapshotStands DEF Nearer
<1>3. CASE Ask
  <2>1. phase = "ask" /\ phase' = "wait" /\ Asking
      BY <1>3 DEF Ask, CallInv, Phases
  <2>2. StepsAhead' < StepsAhead
      BY <1>1, <2>1, QuestionsLeft DEF StepsAhead
  <2>3. QED
      BY <1>1, <2>2, SnapshotStands DEF Nearer
<1>4. QED
    BY <1>2, <1>3

\* An answer or its absence: a permit is one question less, anything else
\* the end of them.
LEMMA ConcludingCounts ==
  ASSUME CallInv, CacheProofs!IInv, Receive \/ Timeout PROVE Nearer
<1>1. PICK answer : phase = "wait" /\ Conclude(answer)
    BY DEF Receive, Timeout
<1>2. UNCHANGED cacheVars /\ mapping' = mapping /\ outcome' = answer
    BY <1>1 DEF Conclude, cacheVars, mapping
<1>3. asked < Len(Requirements(mapping)) /\ Len(Requirements(mapping)) \in Nat /\ asked \in Nat
    BY <1>1, QuestionsLeft DEF CallInv, Phases
<1>4. StepsAhead = 2 * (Len(Requirements(mapping)) - asked) + 3
    BY <1>1 DEF StepsAhead
<1>5. StepsAhead' < StepsAhead
  <2>1. CASE answer.verdict = "permit" /\ asked + 1 < Len(Requirements(mapping))
    <3>1. phase' = "ask" /\ asked' = asked + 1
        BY <1>1, <2>1 DEF Conclude
    <3>2. StepsAhead' = 2 * (Len(Requirements(mapping)) - (asked + 1)) + 4
        BY <1>2, <3>1 DEF StepsAhead
    <3>3. QED
        BY <1>3, <1>4, <3>2
  <2>2. CASE ~(answer.verdict = "permit" /\ asked + 1 < Len(Requirements(mapping)))
    <3>1. phase' = "record"
        BY <1>1, <2>2 DEF Conclude
    <3>2. StepsAhead' \in {3, 4}
        BY <3>1 DEF StepsAhead
    <3>3. QED
        BY <1>3, <1>4, <3>2
  <2>3. QED
      BY <2>1, <2>2
<1>6. QED
    BY <1>2, <1>5, SnapshotStands DEF Nearer

\* The logs: a permit whose record raises is recorded once more as a failure.
LEMMA LoggingCounts ==
  ASSUME Record \/ RecordRaises \/ Cover PROVE Nearer
<1>1. UNCHANGED cacheVars
    BY DEF Record, RecordRaises, Cover
<1>2. CASE Record \/ Cover
  <2>1. \/ StepsAhead \in {3, 4} /\ StepsAhead' = 2
        \/ StepsAhead = 2 /\ StepsAhead' = 1
      BY <1>2 DEF Record, Cover, StepsAhead
  <2>2. QED
      BY <1>1, <2>1, SnapshotStands DEF Nearer
<1>3. CASE RecordRaises /\ outcome.verdict = "permit"
  <2>1. phase = "record" /\ phase' = "record" /\ outcome' = Failure
      BY <1>3 DEF RecordRaises
  <2>2. StepsAhead = 4 /\ StepsAhead' = 3
      BY <1>3, <2>1 DEF StepsAhead, Failure
  <2>3. QED
      BY <1>1, <2>2, SnapshotStands DEF Nearer
<1>4. CASE RecordRaises /\ outcome.verdict # "permit"
    BY <1>1, <1>4, SnapshotStands DEF RecordRaises, StepsAhead, Nearer
<1>5. QED
    BY <1>2, <1>3, <1>4

\* What happens around a call does not set it back.
LEMMA OutsideCounts ==
  ASSUME pc \notin {"idle", "failed"},
         \/ \E c \in Calls : PreToolCall(c)
         \/ \E request \in inflight : Decide(request) \/ Lose(request)
         \/ \E p \in Pairs : Regrant(p)
         \/ Restart
         \/ \E s \in 1..NSources : Edit(s)
         \/ UNCHANGED vars
  PROVE  UNCHANGED <<Cache!StepsLeft, StepsAhead>>
<1>1. UNCHANGED <<pc, pos, config, call, phase, asked, outcome>>
    BY DEF PreToolCall, Cache!PreToolCall, Decide, Lose, Regrant, Restart, Cache!Restart, Edit, Cache!Edit,
       Cache!hookVars, vars, cacheVars, callVars, serviceVars
<1>2. QED
    BY <1>1 DEF Cache!StepsLeft, StepsAhead, mapping

\* Every step of the hook brings its call nearer to the return, for any number
\* of sources and of effects, and neither edits nor the service set it back.
THEOREM EveryStepCounts == Spec => CallsGoOn
<1> DEFINE Forward ==
      /\ HookStep => Nearer
      /\ ~HookStep /\ pc \notin {"idle", "failed"} => UNCHANGED <<Cache!StepsLeft, StepsAhead>>
<1>1. CallInv /\ CacheProofs!IInv /\ HookStep => Nearer
    BY CheckingCounts, SettledCounts, SendingCounts, ConcludingCounts, LoggingCounts DEF HookStep
<1>2. Next /\ ~HookStep /\ pc \notin {"idle", "failed"} => UNCHANGED <<Cache!StepsLeft, StepsAhead>>
    BY OutsideCounts DEF Next
<1>3. CallInv /\ CacheProofs!IInv /\ [Next]_vars => [Forward]_vars
    BY <1>1, <1>2
<1>4. QED
    BY <1>3, CallInvariant, CacheInvariant, PTL DEF Spec, CallsGoOn

\* These steps are counted down from a number: a call ends unless the hook
\* stands still.
THEOREM StepsAreCounted ==
  Spec => [](Cache!StepsLeft \in 0..3 * NSources + 4 /\ StepsAhead \in Nat)
<1>1. CallInv /\ CacheProofs!IInv => Cache!StepsLeft \in 0..3 * NSources + 4 /\ StepsAhead \in Nat
    BY StepsAheadType, CacheProofs!StepsLeftType, SameCache, SameSteps DEF CacheProofs!IInv
<1>2. QED
    BY <1>1, CallInvariant, CacheInvariant, PTL
=============================================================================
