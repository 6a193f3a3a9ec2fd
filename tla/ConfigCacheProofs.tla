-------------------------- MODULE ConfigCacheProofs --------------------------
(***************************************************************************)
(* Type correctness and the safety of the configuration snapshot, for any  *)
(* number of sources and any set of file states.                           *)
(***************************************************************************)
EXTENDS ConfigCache, TLAPS

InCall == pc \notin {"idle", "failed"} /\ ~startup

\* How far the hook has come, and what it must have collected by then.
Progress ==
  /\ pc \in {"probe", "stamp"} => \A s \in Sources : s < pos => stamp[s] # None
  /\ pc = "read" => \A s \in Sources : stamp[s] # None /\ (s < pos => parsed[s] # None)
  /\ pc \in {"probe", "stamp"} => parsed = NothingYet
  /\ pc \in {"probe", "served"} => config # None
  /\ pc \in {"probe", "served", "blocked", "raised"} => ~startup

\* Whatever was statted or is on disk belongs to the history of its path.
History ==
  \A s \in Sources :
    /\ disk[s] \in held[s]
    /\ stamp[s] # None => stamp[s] \in held[s]
    /\ config_stamp # None => config_stamp[s] \in held[s]

\* A load in progress: what was read agrees with a stamp that still holds.
LoadCoherent ==
  pc = "read" =>
    \A s \in Sources :
      parsed[s] # None /\ stamp[s] = disk[s] /\ disk[s] \notin Recurrent
        => parsed[s] = disk[s]

\* A stat that met the snapshot's stamp met the snapshot's content.
ProbeCoherent ==
  pc = "probe" =>
    \A s \in Sources :
      stamp[s] # None /\ stamp[s] = config_stamp[s] /\ stamp[s] \notin Recurrent
        => config[s] = stamp[s]

\* The history of a call holds the present disk, every stat and every read.
SeenInCall ==
  InCall =>
    /\ disk \in seen
    /\ pc = "probe" => \A s \in Sources : stamp[s] # None => \E d \in seen : d[s] = stamp[s]
    /\ pc = "read"  => \A s \in Sources : parsed[s] # None => \E d \in seen : d[s] = parsed[s]

\* One state of the disk agrees with every stat that met the snapshot's stamp:
\* the one the call began with.
ProbeAtomic ==
  pc = "probe" =>
    \E d \in seen : \A s \in Sources :
      /\ config_stamp[s] \notin Recurrent
      /\ config_stamp[s] \in {disk[s], stamp[s]}
      => d[s] = config_stamp[s]

IInv ==
  /\ TypeOK /\ Progress /\ History
  /\ CacheCoherent /\ LoadCoherent /\ ProbeCoherent
  /\ SeenInCall /\ ProbeAtomic
  /\ ServedWasCurrent /\ HitIsAtomic /\ FailureIsCurrent

USE ConfigAssumption

\* At the end of a pass every source has been visited.
LEMMA PassComplete ==
  ASSUME pos \in 1..(NSources + 1), pos \notin Sources
  PROVE  \A s \in Sources : s < pos
BY DEF Sources

\* A pass over the sources never runs past its end.
LEMMA PassAdvances ==
  ASSUME pos \in Sources
  PROVE  /\ pos + 1 \in 1..(NSources + 1)
         /\ \A s \in Sources : s < pos + 1 => s = pos \/ s < pos
BY DEF Sources

\* The hook starts with nothing cached and nothing seen.
LEMMA InitIInv == Init => IInv
<1> SUFFICES ASSUME Init PROVE IInv
    OBVIOUS
<1> USE DEF Init
<1>1. TypeOK
    BY DEF TypeOK, NothingYet, Partial
<1>2. Progress
    BY DEF Progress, Sources, NothingYet
<1>3. History
    BY DEF History, NothingYet
<1>4. QED
    BY <1>1, <1>2, <1>3 DEF IInv, CacheCoherent, LoadCoherent, ProbeCoherent,
       SeenInCall, ProbeAtomic, ServedWasCurrent, HitIsAtomic, FailureIsCurrent, InCall

\* An operator's edit: a state that was left and may not recur cannot come back.
LEMMA EditIInv == ASSUME IInv, NEW s \in Sources, Edit(s) PROVE IInv'
<1>1. PICK f \in FileStates \ {disk[s]} :
        /\ f \in held[s] => f \in Recurrent
        /\ disk' = [disk EXCEPT ![s] = f]
        /\ held' = [held EXCEPT ![s] = @ \cup {f}]
        /\ seen' = IF seen = {} THEN {} ELSE seen \cup {disk'}
        /\ UNCHANGED hookVars
    BY DEF Edit
<1> USE DEF hookVars
<1>2. TypeOK'
    BY <1>1 DEF IInv, TypeOK
<1>3. /\ \A t \in Sources \ {s} : disk'[t] = disk[t]
      /\ disk'[s] = f
      /\ \A t \in Sources : held[t] \subseteq held'[t]
      /\ f \in held'[s]
      /\ seen \subseteq seen'
    BY <1>1 DEF IInv, TypeOK
<1>4. Progress'
    BY <1>1 DEF IInv, Progress
<1>5. History'
    BY <1>1, <1>3 DEF IInv, History
<1>6. CacheCoherent'
    BY <1>1, <1>3 DEF IInv, TypeOK, CacheCoherent, History
<1>7. LoadCoherent'
    BY <1>1, <1>3 DEF IInv, TypeOK, LoadCoherent, History, Progress
<1>8. ProbeCoherent'
    BY <1>1, <1>3 DEF IInv, TypeOK, ProbeCoherent
<1>9. SeenInCall'
    <2> SUFFICES ASSUME InCall' PROVE
          /\ disk' \in seen'
          /\ pc = "probe" => \A t \in Sources : stamp[t] # None => \E d \in seen' : d[t] = stamp[t]
          /\ pc = "read"  => \A t \in Sources : parsed[t] # None => \E d \in seen' : d[t] = parsed[t]
        BY <1>1 DEF SeenInCall
    <2>1. InCall
        BY <1>1 DEF InCall
    <2>2. QED
        BY <2>1, <1>1, <1>3 DEF IInv, SeenInCall
<1>10. ProbeAtomic'
    <2> SUFFICES ASSUME pc = "probe"
                 PROVE \E d \in seen' : \A t \in Sources :
                         /\ config_stamp[t] \notin Recurrent
                         /\ config_stamp[t] \in {disk'[t], stamp[t]}
                         => d[t] = config_stamp[t]
        BY <1>1 DEF ProbeAtomic
    <2>1. PICK d \in seen : \A t \in Sources :
                         /\ config_stamp[t] \notin Recurrent
                         /\ config_stamp[t] \in {disk[t], stamp[t]}
                         => d[t] = config_stamp[t]
        BY DEF IInv, ProbeAtomic
    <2>2. config_stamp # None
        BY DEF IInv, TypeOK, Progress
    <2>3. QED
        BY <2>1, <2>2, <1>1, <1>3 DEF IInv, History
<1>11. ServedWasCurrent'
    BY <1>1, <1>3 DEF IInv, ServedWasCurrent
<1>12. HitIsAtomic'
    BY <1>1, <1>3 DEF IInv, HitIsAtomic
<1>13. FailureIsCurrent'
    BY <1>1, <1>3 DEF IInv, FailureIsCurrent
<1>14. QED
    BY <1>2, <1>4, <1>5, <1>6, <1>7, <1>8, <1>9, <1>10, <1>11, <1>12, <1>13 DEF IInv

\* A call begins: the present disk is the first state it sees.
LEMMA PreToolCallIInv == ASSUME IInv, PreToolCall PROVE IInv'
<1> USE DEF PreToolCall, Begin
<1>1. TypeOK'
    <2>1. pos' \in 1..(NSources + 1)
        BY DEF IInv, TypeOK
    <2>2. stamp' \in Partial(FileStates) /\ parsed' \in Partial(Valid)
        BY DEF NothingYet, Partial
    <2>3. QED
        BY <2>1, <2>2 DEF IInv, TypeOK
<1>2. Progress'
    BY DEF IInv, Progress, NothingYet, Sources
<1>3. History'
    BY DEF IInv, History, NothingYet
<1>4. CacheCoherent'
    BY DEF IInv, CacheCoherent
<1>5. LoadCoherent' /\ ProbeCoherent'
    BY DEF LoadCoherent, ProbeCoherent, NothingYet
<1>6. SeenInCall'
    BY DEF SeenInCall, NothingYet
<1>7. ProbeAtomic'
    BY DEF ProbeAtomic, NothingYet, IInv, TypeOK
<1>8. ServedWasCurrent' /\ HitIsAtomic' /\ FailureIsCurrent'
    BY DEF ServedWasCurrent, HitIsAtomic, FailureIsCurrent
<1>9. QED
    BY <1>1, <1>2, <1>3, <1>4, <1>5, <1>6, <1>7, <1>8 DEF IInv

\* One stat, of the comparison or of a load.
LEMMA StatSourceIInv == ASSUME IInv, StatSource PROVE IInv'
<1> USE DEF StatSource
<1>1. TypeOK'
    BY PassAdvances DEF IInv, TypeOK, Partial
<1>2. /\ stamp'[pos] = disk[pos]
      /\ \A s \in Sources \ {pos} : stamp'[s] = stamp[s]
      /\ disk[pos] \in FileStates
    BY DEF IInv, TypeOK, Partial
<1>3. Progress'
    BY <1>2, PassAdvances DEF IInv, Progress, FileStates
<1>4. History'
    BY <1>2 DEF IInv, History
<1>5. CacheCoherent'
    BY DEF IInv, CacheCoherent
<1>6. LoadCoherent'
    BY DEF LoadCoherent
<1>7. ProbeCoherent'
    BY <1>2 DEF IInv, ProbeCoherent, CacheCoherent, Progress
<1>8. SeenInCall'
    BY <1>2 DEF IInv, SeenInCall, InCall
<1>9. ProbeAtomic'
    <2> SUFFICES ASSUME pc = "probe"
                 PROVE \E d \in seen : \A s \in Sources :
                         /\ config_stamp[s] \notin Recurrent
                         /\ config_stamp[s] \in {disk[s], stamp'[s]}
                         => d[s] = config_stamp[s]
        BY DEF ProbeAtomic
    <2>1. PICK d \in seen : \A s \in Sources :
                         /\ config_stamp[s] \notin Recurrent
                         /\ config_stamp[s] \in {disk[s], stamp[s]}
                         => d[s] = config_stamp[s]
        BY DEF IInv, ProbeAtomic
    <2>2. QED
        BY <2>1, <1>2
<1>10. ServedWasCurrent' /\ HitIsAtomic' /\ FailureIsCurrent'
    BY DEF ServedWasCurrent, HitIsAtomic, FailureIsCurrent
<1>11. QED
    BY <1>1, <1>3, <1>4, <1>5, <1>6, <1>7, <1>8, <1>9, <1>10 DEF IInv

\* A cache hit: the state of the disk the call began with is the snapshot.
LEMMA ServeCachedIInv == ASSUME IInv, ServeCached PROVE IInv'
<1> USE DEF ServeCached
<1>1. TypeOK' /\ Progress' /\ History' /\ CacheCoherent'
    BY DEF IInv, TypeOK, Progress, History, CacheCoherent
<1>2. LoadCoherent' /\ ProbeCoherent' /\ ProbeAtomic' /\ FailureIsCurrent'
    BY DEF LoadCoherent, ProbeCoherent, ProbeAtomic, FailureIsCurrent
<1>3. SeenInCall'
    BY DEF IInv, SeenInCall, InCall
<1>4. /\ config # None /\ ~startup
      /\ stamp = config_stamp
      /\ \A s \in Sources : stamp[s] # None
    BY PassComplete DEF IInv, TypeOK, Progress
<1>5. \A s \in Sources : config_stamp[s] \notin Recurrent => config[s] = stamp[s]
    BY <1>4 DEF IInv, ProbeCoherent
<1>6. ServedWasCurrent'
    BY <1>4, <1>5 DEF IInv, SeenInCall, InCall, ServedWasCurrent
<1>7. HitIsAtomic'
    <2> SUFFICES ASSUME \A s \in Sources : config_stamp[s] \notin Recurrent
                 PROVE  config \in seen
        BY DEF HitIsAtomic
    <2>1. PICK d \in seen : \A s \in Sources : d[s] = config_stamp[s]
        BY <1>4 DEF IInv, ProbeAtomic
    <2>2. \A s \in Sources : d[s] = config[s]
        BY <2>1, <1>4, <1>5
    <2>3. d \in [Sources -> FileStates] /\ config \in [Sources -> Valid]
        BY <1>4 DEF IInv, TypeOK
    <2>4. d = config
        BY <2>2, <2>3
    <2>5. QED
        BY <2>4
<1>8. QED
    BY <1>1, <1>2, <1>3, <1>6, <1>7 DEF IInv

\* The steps between the passes and the failures collect nothing new.
LEMMA ControlIInv ==
  ASSUME IInv, NoticeChange \/ StartReading \/ ReadInvalid \/ ReadRaises \/ Return \/ Restart
  PROVE  IInv'
<1>1. CASE NoticeChange
    BY <1>1 DEF NoticeChange, Begin, IInv, TypeOK, Progress, History, CacheCoherent,
       LoadCoherent, ProbeCoherent, SeenInCall, InCall, ProbeAtomic, ServedWasCurrent,
       HitIsAtomic, FailureIsCurrent, NothingYet, Partial, Sources
<1>2. CASE StartReading
    BY <1>2, PassComplete DEF StartReading, IInv, TypeOK, Progress, History, CacheCoherent,
       LoadCoherent, ProbeCoherent, SeenInCall, InCall, ProbeAtomic, ServedWasCurrent,
       HitIsAtomic, FailureIsCurrent, NothingYet, Partial, Sources
<1>3. CASE ReadInvalid
    BY <1>3 DEF ReadInvalid, IInv, TypeOK, Progress, History, CacheCoherent,
       LoadCoherent, ProbeCoherent, SeenInCall, InCall, ProbeAtomic, ServedWasCurrent,
       HitIsAtomic, FailureIsCurrent
<1>4. CASE ReadRaises
    BY <1>4 DEF ReadRaises, IInv, TypeOK, Progress, History, CacheCoherent,
       LoadCoherent, ProbeCoherent, SeenInCall, InCall, ProbeAtomic, ServedWasCurrent,
       HitIsAtomic, FailureIsCurrent
<1>5. CASE Return
    BY <1>5 DEF Return, Begin, IInv, TypeOK, Progress, History, CacheCoherent,
       LoadCoherent, ProbeCoherent, SeenInCall, InCall, ProbeAtomic, ServedWasCurrent,
       HitIsAtomic, FailureIsCurrent, NothingYet, Partial, Sources
<1>6. CASE Restart
    BY <1>6 DEF Restart, Begin, IInv, TypeOK, Progress, History, CacheCoherent,
       LoadCoherent, ProbeCoherent, SeenInCall, InCall, ProbeAtomic, ServedWasCurrent,
       HitIsAtomic, FailureIsCurrent, NothingYet, Partial, Sources
<1>7. QED
    BY <1>1, <1>2, <1>3, <1>4, <1>5, <1>6

\* A read extends what was parsed by what the disk holds now.
LEMMA ReadValidIInv == ASSUME IInv, ReadValid PROVE IInv'
<1> USE DEF ReadValid
<1>1. TypeOK'
    BY PassAdvances DEF IInv, TypeOK, Partial
<1>2. /\ parsed'[pos] = disk[pos]
      /\ \A s \in Sources \ {pos} : parsed'[s] = parsed[s]
      /\ disk[pos] \in FileStates
    BY DEF IInv, TypeOK, Partial
<1>3. Progress'
    BY <1>2, PassAdvances DEF IInv, Progress, FileStates
<1>4. LoadCoherent'
    BY <1>2 DEF IInv, LoadCoherent
<1>5. SeenInCall'
    BY <1>2 DEF IInv, SeenInCall, InCall
<1>6. QED
    BY <1>1, <1>3, <1>4, <1>5 DEF IInv, History, CacheCoherent, ProbeCoherent, ProbeAtomic,
       ServedWasCurrent, HitIsAtomic, FailureIsCurrent

\* The load is complete: every source has been read, and the stamp is older.
LEMMA FinishLoadIInv == ASSUME IInv, FinishLoad PROVE IInv'
<1> USE DEF FinishLoad
<1>1. \A s \in Sources : stamp[s] # None /\ parsed[s] # None
    BY PassComplete DEF IInv, TypeOK, Progress
<1>2. parsed \in [Sources -> Valid] /\ stamp \in [Sources -> FileStates]
    BY <1>1 DEF IInv, TypeOK, Partial
<1>3. parsed # None /\ stamp # None
    BY <1>2 DEF FileStates
<1>4. TypeOK'
    BY <1>2, <1>3 DEF IInv, TypeOK
<1>5. Progress'
    BY <1>3 DEF IInv, Progress
<1>6. History'
    BY <1>1 DEF IInv, History
<1>7. CacheCoherent'
    BY <1>1 DEF IInv, CacheCoherent, LoadCoherent
<1>8. LoadCoherent' /\ ProbeCoherent' /\ ProbeAtomic' /\ FailureIsCurrent'
    BY DEF LoadCoherent, ProbeCoherent, ProbeAtomic, FailureIsCurrent
<1>9. SeenInCall'
    BY DEF IInv, SeenInCall, InCall
<1>10. ServedWasCurrent'
    BY <1>1 DEF IInv, SeenInCall, InCall, ServedWasCurrent
<1>11. HitIsAtomic'
    <2> SUFFICES ASSUME ~startup, parsed = NothingYet
                 PROVE  parsed \in seen
        BY DEF HitIsAtomic
    <2>1. Sources = {}
        BY <1>1 DEF NothingYet
    <2>2. disk \in seen /\ disk \in [Sources -> FileStates]
        BY DEF IInv, SeenInCall, InCall, TypeOK
    <2>3. disk = parsed
        BY <2>1, <2>2, <1>2
    <2>4. QED
        BY <2>2, <2>3
<1>12. QED
    BY <1>4, <1>5, <1>6, <1>7, <1>8, <1>9, <1>10, <1>11 DEF IInv

\* Every step keeps the strengthened invariant.
LEMMA NextIInv == IInv /\ [Next]_vars => IInv'
<1> SUFFICES ASSUME IInv, [Next]_vars PROVE IInv'
    OBVIOUS
<1>1. CASE PreToolCall
    BY <1>1, PreToolCallIInv
<1>2. CASE HookStep
    BY <1>2, StatSourceIInv, ServeCachedIInv, ReadValidIInv, FinishLoadIInv, ControlIInv
       DEF HookStep
<1>3. CASE Restart
    BY <1>3, ControlIInv
<1>4. CASE \E s \in Sources : Edit(s)
    BY <1>4, EditIInv
<1>5. CASE UNCHANGED vars
    BY <1>5 DEF vars, IInv, TypeOK, Progress, History, CacheCoherent, LoadCoherent,
       ProbeCoherent, SeenInCall, InCall, ProbeAtomic, ServedWasCurrent, HitIsAtomic,
       FailureIsCurrent
<1>6. QED
    BY <1>1, <1>2, <1>3, <1>4, <1>5 DEF Next

\* The strengthened invariant holds throughout.
THEOREM Invariance == Spec => []IInv
BY InitIInv, NextIInv, PTL DEF Spec

\* The variables keep their types, and snapshot and stamp come and go together.
THEOREM TypeCorrect == Spec => []TypeOK
<1>1. IInv => TypeOK
    BY DEF IInv
<1>2. QED
    BY <1>1, Invariance, PTL

\* A snapshot under a matching stamp is the content of the disk, whatever is
\* edited between the stat and the read of the load that made it.
THEOREM Coherence == Spec => []CacheCoherent
<1>1. IInv => CacheCoherent
    BY DEF IInv
<1>2. QED
    BY <1>1, Invariance, PTL

\* A call goes by rules that were on disk during that call.
THEOREM Freshness == Spec => []ServedWasCurrent
<1>1. IInv => ServedWasCurrent
    BY DEF IInv
<1>2. QED
    BY <1>1, Invariance, PTL

\* A cache hit is a snapshot of all the sources at one moment of the call.
THEOREM AtomicHits == Spec => []HitIsAtomic
<1>1. IInv => HitIsAtomic
    BY DEF IInv
<1>2. QED
    BY <1>1, Invariance, PTL

\* No failure is latched: a call fails over its config only by what it met.
THEOREM FailuresAreCurrent == Spec => []FailureIsCurrent
<1>1. IInv => FailureIsCurrent
    BY DEF IInv
<1>2. QED
    BY <1>1, Invariance, PTL

-----------------------------------------------------------------------------
(* A call takes a bounded number of steps. *)

LEMMA StepsLeftType == TypeOK => StepsLeft \in 0..3 * NSources + 4
<1> SUFFICES ASSUME TypeOK PROVE StepsLeft \in 0..3 * NSources + 4
    OBVIOUS
<1>1. NSources \in Nat /\ pos \in 1..NSources + 1
    BY DEF TypeOK, ConfigAssumption
<1>2. pc \in {"idle", "probe", "stamp", "read", "served", "blocked", "raised", "failed"}
    BY DEF TypeOK
<1>3. QED
    BY <1>1, <1>2 DEF StepsLeft

\* Every step of the hook leaves it with fewer.
LEMMA HookStepCounts == TypeOK /\ HookStep => StepsLeft' < StepsLeft
<1> SUFFICES ASSUME TypeOK, HookStep PROVE StepsLeft' < StepsLeft
    OBVIOUS
<1>1. NSources \in Nat /\ pos \in 1..NSources + 1 /\ (pos \in Sources <=> pos <= NSources)
    BY DEF TypeOK, ConfigAssumption, Sources
<1>2. CASE StatSource
    BY <1>1, <1>2 DEF StatSource, StepsLeft
<1>3. CASE ServeCached
    BY <1>1, <1>3 DEF ServeCached, StepsLeft
<1>4. CASE NoticeChange
    BY <1>1, <1>4 DEF NoticeChange, Begin, StepsLeft
<1>5. CASE StartReading
    BY <1>1, <1>5 DEF StartReading, StepsLeft
<1>6. CASE ReadValid
    BY <1>1, <1>6 DEF ReadValid, StepsLeft
<1>7. CASE ReadInvalid \/ ReadRaises \/ FinishLoad
  <2>1. pc = "read" /\ pc' \in {"idle", "failed", "served", "blocked", "raised"}
      BY <1>7 DEF ReadInvalid, ReadRaises, FinishLoad
  <2>2. QED
      BY <1>1, <2>1 DEF StepsLeft
<1>8. CASE Return
    BY <1>8 DEF Return, Begin, StepsLeft
<1>9. QED
    BY <1>2, <1>3, <1>4, <1>5, <1>6, <1>7, <1>8 DEF HookStep
=============================================================================
