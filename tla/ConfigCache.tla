----------------------------- MODULE ConfigCache -----------------------------
(***************************************************************************)
(* The configuration snapshot VinctorHermesBoundary keeps between calls    *)
(* (boundary.py: __init__, from_env, _load_config, the head of             *)
(* pre_tool_call, _config_source_stamp; config.py: load_runtime_config).   *)
(*                                                                         *)
(* The hook runs one call at a time; an operator edits the configured      *)
(* files at any moment, also between two system calls of the hook.  The    *)
(* sources are numbered in the order the code stats and reads them (the    *)
(* config file, then the MCP registry); an unconfigured source adds the    *)
(* constant None to every stamp and no rule, so it is left out.            *)
(*                                                                         *)
(* A state of a file is identified with its stamp (device, inode, mtime    *)
(* and size): two different contents never share one.  A partly written    *)
(* file is a state of its own.                                             *)
(***************************************************************************)
EXTENDS Naturals

CONSTANTS
  NSources,    \* how many source paths the environment configures
  Valid,       \* file states that parse
  Malformed,   \* file states whose load raises ConfigError
  Crashing,    \* file states whose load raises something else
  Missing,     \* the path names no file: os.stat and the read both fail
  Recurrent,   \* states a path may return to after having left them
  None         \* Python's None

Sources == 1..NSources
FileStates == Valid \cup Malformed \cup Crashing \cup {Missing}

ASSUME ConfigAssumption ==
  /\ NSources \in Nat
  /\ Missing \notin Valid \cup Malformed \cup Crashing
  /\ Valid \cap (Malformed \cup Crashing) = {}
  /\ Malformed \cap Crashing = {}
  /\ Recurrent \subseteq FileStates
  /\ None \notin FileStates
  /\ None \notin [Sources -> FileStates]

VARIABLES
  disk,          \* the state of every source path
  held,          \* history: every state a path has had
  config,        \* self.config: the state each source was read in, or None
  config_stamp,  \* self._config_stamp
  pc,            \* where the hook is
  startup,       \* the load is from_env's, not a call's
  pos,           \* the source the hook stats or reads next
  stamp,         \* the local stamp being taken, source by source
  parsed,        \* what load_runtime_config has read so far
  seen           \* history: the whole-disk states since the call began

hookVars == <<config, config_stamp, pc, startup, pos, stamp, parsed>>
vars == <<disk, held, config, config_stamp, pc, startup, pos, stamp, parsed, seen>>

NothingYet == [s \in Sources |-> None]

\* A load or a stat pass starts at the first source with nothing collected.
Begin(where) ==
  /\ pc' = where
  /\ pos' = 1
  /\ stamp' = NothingYet
  /\ parsed' = NothingYet

Init ==
  /\ disk \in [Sources -> FileStates]
  /\ held = [s \in Sources |-> {disk[s]}]
  /\ config = None
  /\ config_stamp = None
  /\ pc = "stamp"
  /\ startup = TRUE
  /\ pos = 1
  /\ stamp = NothingYet
  /\ parsed = NothingYet
  /\ seen = {}

-----------------------------------------------------------------------------
(* The hook. *)

\* Mutant: the first snapshot is trusted for the life of the process.
PreToolCallTrusting ==
  /\ pc = "idle"
  /\ Begin(IF config = None THEN "stamp" ELSE "served")
  /\ startup' = FALSE
  /\ seen' = {disk}
  /\ UNCHANGED <<disk, held, config, config_stamp>>

\* Mutant: a failed load is latched.
PreToolCallLatching ==
  /\ pc = "idle"
  /\ Begin(IF config = None THEN "blocked" ELSE "probe")
  /\ startup' = FALSE
  /\ seen' = {disk}
  /\ UNCHANGED <<disk, held, config, config_stamp>>

\* Hermes calls the hook; a missing snapshot skips the stamp comparison.
PreToolCall ==
  /\ pc = "idle"
  /\ Begin(IF config = None THEN "stamp" ELSE "probe")
  /\ startup' = FALSE
  /\ seen' = {disk}
  /\ UNCHANGED <<disk, held, config, config_stamp>>

\* One os.stat of _config_source_stamp, of the comparison or of a load.
StatSource ==
  /\ pc \in {"probe", "stamp"}
  /\ pos \in Sources
  /\ stamp' = [stamp EXCEPT ![pos] = disk[pos]]
  /\ pos' = pos + 1
  /\ UNCHANGED <<disk, held, config, config_stamp, pc, startup, parsed, seen>>

\* Mutant: only the first source is compared.
ServeCachedByFirst ==
  /\ pc = "probe"
  /\ pos \notin Sources
  /\ stamp[1] = config_stamp[1]
  /\ pc' = "served"
  /\ UNCHANGED <<disk, held, config, config_stamp, startup, pos, stamp, parsed, seen>>

\* The stamp still matches: the cached snapshot is used as it is.
ServeCached ==
  /\ pc = "probe"
  /\ pos \notin Sources
  /\ stamp = config_stamp
  /\ pc' = "served"
  /\ UNCHANGED <<disk, held, config, config_stamp, startup, pos, stamp, parsed, seen>>

\* Mutant: the stamp is taken again until it stands still.
NoticeChangeRetry ==
  /\ pc = "probe"
  /\ pos \notin Sources
  /\ stamp # config_stamp
  /\ Begin("probe")
  /\ UNCHANGED <<disk, held, config, config_stamp, startup, seen>>

\* The stamp moved: _load_config starts over and takes a stamp of its own.
NoticeChange ==
  /\ pc = "probe"
  /\ pos \notin Sources
  /\ stamp # config_stamp
  /\ Begin("stamp")
  /\ UNCHANGED <<disk, held, config, config_stamp, startup, seen>>

\* The stamp is complete and the sources are read after it.
StartReading ==
  /\ pc = "stamp"
  /\ pos \notin Sources
  /\ pc' = "read"
  /\ pos' = 1
  /\ UNCHANGED <<disk, held, config, config_stamp, startup, stamp, parsed, seen>>

ReadValid ==
  /\ pc = "read"
  /\ pos \in Sources
  /\ disk[pos] \in Valid
  /\ parsed' = [parsed EXCEPT ![pos] = disk[pos]]
  /\ pos' = pos + 1
  /\ UNCHANGED <<disk, held, config, config_stamp, pc, startup, stamp, seen>>

\* Mutant: a failed load drops the snapshot and keeps its stamp.
ReadInvalidKeepingStamp ==
  /\ pc = "read"
  /\ pos \in Sources
  /\ disk[pos] \in Malformed \cup {Missing}
  /\ config' = None
  /\ pc' = IF startup THEN "idle" ELSE "blocked"
  /\ UNCHANGED <<disk, held, config_stamp, startup, pos, stamp, parsed, seen>>

\* ConfigError: the snapshot is dropped; a call blocks, a startup goes on.
ReadInvalid ==
  /\ pc = "read"
  /\ pos \in Sources
  /\ disk[pos] \in Malformed \cup {Missing}
  /\ config' = None
  /\ config_stamp' = None
  /\ pc' = IF startup THEN "idle" ELSE "blocked"
  /\ UNCHANGED <<disk, held, startup, pos, stamp, parsed, seen>>

\* Any other exception passes through _load_config and leaves the snapshot.
ReadRaises ==
  /\ pc = "read"
  /\ pos \in Sources
  /\ disk[pos] \in Crashing
  /\ pc' = IF startup THEN "failed" ELSE "raised"
  /\ UNCHANGED <<disk, held, config, config_stamp, startup, pos, stamp, parsed, seen>>

\* Mutant: the stamp is taken after the sources have been read.
FinishLoadStampingLate ==
  /\ pc = "read"
  /\ pos \notin Sources
  /\ config' = parsed
  /\ config_stamp' = disk
  /\ pc' = IF startup THEN "idle" ELSE "served"
  /\ UNCHANGED <<disk, held, startup, pos, stamp, parsed, seen>>

\* The snapshot is replaced, under the stamp taken before the reads.
FinishLoad ==
  /\ pc = "read"
  /\ pos \notin Sources
  /\ config' = parsed
  /\ config_stamp' = stamp
  /\ pc' = IF startup THEN "idle" ELSE "served"
  /\ UNCHANGED <<disk, held, startup, pos, stamp, parsed, seen>>

\* The call is over: its locals are gone.
Return ==
  /\ pc \in {"served", "blocked", "raised"}
  /\ Begin("idle")
  /\ seen' = {}
  /\ UNCHANGED <<disk, held, config, config_stamp, startup>>

HookStep ==
  \/ StatSource \/ ServeCached \/ NoticeChange \/ StartReading
  \/ ReadValid \/ ReadInvalid \/ ReadRaises \/ FinishLoad \/ Return

-----------------------------------------------------------------------------
(* The environment. *)

\* The host starts the plugin again: from_env builds a new boundary.
Restart ==
  /\ pc \in {"idle", "failed"}
  /\ config' = None
  /\ config_stamp' = None
  /\ startup' = TRUE
  /\ Begin("stamp")
  /\ UNCHANGED <<disk, held, seen>>

\* An operator replaces, creates or removes a source.
Edit(s) ==
  \E f \in FileStates \ {disk[s]} :
    /\ f \in held[s] => f \in Recurrent
    /\ disk' = [disk EXCEPT ![s] = f]
    /\ held' = [held EXCEPT ![s] = @ \cup {f}]
    /\ seen' = IF seen = {} THEN {} ELSE seen \cup {disk'}
    /\ UNCHANGED hookVars

Next ==
  \/ PreToolCall
  \/ HookStep
  \/ Restart
  \/ \E s \in Sources : Edit(s)

Spec == Init /\ [][Next]_vars

\* The hook runs to its return once called; nobody has to call it or to edit.
FairSpec == Spec /\ WF_vars(HookStep)

-----------------------------------------------------------------------------
(* Safety. *)

Partial(S) == [Sources -> S \cup {None}]

\* The values the variables take, and the snapshot and its stamp are set and
\* dropped together.
TypeOK ==
  /\ disk \in [Sources -> FileStates]
  /\ held \in [Sources -> SUBSET FileStates]
  /\ config \in [Sources -> Valid] \cup {None}
  /\ config_stamp \in [Sources -> FileStates] \cup {None}
  /\ config = None <=> config_stamp = None
  /\ pc \in {"idle", "probe", "stamp", "read", "served", "blocked", "raised", "failed"}
  /\ startup \in BOOLEAN
  /\ pos \in 1..(NSources + 1)
  /\ stamp \in Partial(FileStates)
  /\ parsed \in Partial(Valid)
  /\ seen \subseteq [Sources -> FileStates]

\* A snapshot whose stamp matches the disk is what the disk holds, although
\* the sources may change between the stat and the read of a load
\* (_load_config takes the stamp before the read for this reason).
CacheCoherent ==
  config # None =>
    \A s \in Sources :
      config_stamp[s] = disk[s] /\ disk[s] \notin Recurrent => config[s] = disk[s]

\* The rules a call goes by were on disk at some moment of that very call,
\* source by source: an edit or a deletion is never answered with a snapshot
\* from before the call (the stat pass of pre_tool_call).
ServedWasCurrent ==
  pc = "served" =>
    \A s \in Sources :
      config_stamp[s] \notin Recurrent => \E d \in seen : d[s] = config[s]

\* A call served without a reload goes by files that were on disk together at
\* one moment of the call, although they are statted one after the other.
HitIsAtomic ==
  pc = "served" /\ parsed = NothingYet /\ (\A s \in Sources : config_stamp[s] \notin Recurrent)
    => config \in seen

\* A call blocks as invalid_config, or raises, only if a source was broken
\* in that way at some moment of that call: a failure at startup or in an
\* earlier call is not latched (the comment in from_env).
FailureIsCurrent ==
  /\ pc = "blocked" => \E d \in seen, s \in Sources : d[s] \in Malformed \cup {Missing}
  /\ pc = "raised"  => \E d \in seen, s \in Sources : d[s] \in Crashing

\* How many steps the hook may yet take until it returns, or is started.
StepsLeft ==
  LET rest == NSources + 1 - pos
  IN CASE pc = "probe" -> 2 * NSources + 4 + rest
       [] pc = "stamp" -> NSources + 3 + rest
       [] pc = "read" -> 2 + rest
       [] pc \in {"served", "blocked", "raised"} -> 1
       [] OTHER -> 0

-----------------------------------------------------------------------------
(* Liveness. *)

\* Every call, and the load at startup, comes to an end.
CallReturns == (pc \notin {"idle", "failed"}) ~> (pc \in {"idle", "failed"})

\* Once the operators stop editing, calls are served by the final files.
EventuallyCurrent ==
  <>[](pc = "served" => \A s \in Sources : config[s] = disk[s] \/ config_stamp[s] \in Recurrent)

\* Once every source is repaired for good, no call fails any more.
RecoversAfterRepair ==
  (<>[](\A s \in Sources : disk[s] \in Valid)) => <>[](pc \notin {"blocked", "raised"})

-----------------------------------------------------------------------------
(* What the repository's documents say and the code does not do. *)

\* README.md:155-156: deleting the file blocks on the next call rather than
\* leaving the last snapshot in force.
DeletedFileBlocks ==
  pc = "served" => \A s \in Sources : \E d \in seen : d[s] # Missing

\* README.md:148-151: a malformed source is invalid_config and every call is
\* blocked: no call ends in an exception.
MalformedBlocks == pc # "raised"

\* docs/configuration.md:23-27: only a source that is present but invalid
\* blocks a call; a missing one does not.
MissingDoesNotBlock ==
  pc = "blocked" => \E d \in seen, s \in Sources : d[s] \in Malformed
=============================================================================
