# Verification of the Vinctor Hermes plugin

TLA+ models, TLC runs and TLAPS proofs for `src/vinctor_hermes_plugin`, the
plugin that lets a Hermes host ask the Vinctor service before it runs a tool.
Paths below are relative to the repository; line numbers are those of the
commit beside this directory.

## The system

| component | state it keeps | operations | talks to |
| --- | --- | --- | --- |
| boundary hook (`boundary.py`, `plugin.py`) | the configuration snapshot and its stamp | `from_env`, `pre_tool_call` | everything below |
| configuration (`config.py`) | none; reads files | `load_config`, `load_runtime_config`, `parse_config` | disk, discovery |
| enforce client (`enforce.py`) | none | `enforce` | the service, over HTTP |
| classifiers (`mapping.py`, `filesystem.py`, `mcp.py`, `resources.py`) | none; pure | `resolve_tool_call` | the snapshot's rules |
| registry discovery (`mcp_discovery.py`) | none; pure | `discover_mcp_registry` | |
| command line (`cli.py`) | none | `doctor`, `validate`, `explain`, `discover` | the same loaders |
| harness and release scripts (`scripts/`) | files | offline reports | |
| external: Hermes | | calls the hook before a tool | |
| external: Vinctor service | grants, audit trail | `POST /v1/enforce` | |

One call runs through the hook like this. The snapshot is compared with a fresh
`stat` of every configured source and reloaded if it moved. The tool call is
resolved to a mapping: unmapped, refused, or one primary `(action, resource)`
pair with any number of further effects. For a mapped call the hook asks the
service for the primary and then for every other effect, leaving at the first
denial or failure; it writes a row to the decision log and one to the coverage
log, and returns `None` (proceed) or a block directive.

What is hard about it: operators edit the sources between any two system calls
of the hook; the answers of the service may be lost, late, or not the service's
own; grants change between two questions of one call; each log may fail; a
compound call is authorized only by all of its effects; and every failure has
to end in a block directive. Nothing in the repository calls the hook from two
threads at once, and the models take calls one after the other.

Per component, what makes it correct:

* *snapshot*: a call goes by rules that were on disk during that call; a hit is
  a consistent picture of both sources; no failure is latched; edits and repairs
  take effect;
* *enforce client*: only status 200 with `decision: permit` and a usable audit id
  is a permit; everything that is not a 403 or a permit is a failure;
* *boundary*: a mapped call proceeds only on permits, recorded for this call, of
  all its effects; unmapped, refused and unauthenticated calls ask nothing;
  the logs tell what happened; every call returns;
* *classifiers*: no effect of a compound call is lost, rules add effects and never
  remove one, a refusal cannot be overridden; a file, a repository or a host is
  charged as the one the call reaches, however it is spelled;
* *terminal*: the two scanners and `shlex` see the same words and operators in a
  text, and the shell's; the fail-closed checks come before the rules; no
  classifier guesses at a word it does not know;
* *discovery*: generated rules never beat explicit ones, ambiguous tools get none.

`PROJECT.json` lists, under `hazards`, the lines where each of these can go
wrong and the properties that would show it.

## Modules

| module | models | state |
| --- | --- | --- |
| `ConfigCache` | `_config_source_stamp`, `_load_config`, `from_env`, the head of `pre_tool_call`, the readers of `config.py` | disk, snapshot, stamp, the hook's locals |
| `MappingResult` | `types.py` | none |
| `EnforceClient` | `enforce.py`: a reply becomes an outcome | none |
| `Boundary` | `pre_tool_call` as a whole, its two logs, the service and the network | ConfigCache's, plus the call and the service |
| `Gate` | nothing of the code: what the boundary promises | stage and effects owed |
| `Resources` | `resources.py`: paths, secrets, network resources, identifiers | none |
| `SingleEffect` | the tools of one effect in `mapping.py` and `mcp.py`: GitHub, Slack, processes, memory, jobs, messages, fetches, fixed pairs | none |
| `MultiEffect` | `resolve_tool_call` for everything but the terminal: single tools, `filesystem.py`, forks of `mcp.py`, `_with_builtin_requirements` | the call, its rule, the loop, the answer |
| `RuleMatching` | `_resolve_config` and its helpers: the text, the patterns, the specificity | none |
| `Discovery` | `mcp_discovery.py`: an entry's action and its rules | none |
| `RuntimeRules` | `parse_config`, `load_runtime_config`, the choice of a rule | setup, errors, rules, call, best rule so far |
| `GitCommand` | git's part of `mapping.py`, over words | none |
| `Programs` | the classifiers of the other programs: secrets, deletions, docker, gh, npm, tests, platforms, deployments | none |
| `ShellText` | `_scan_shell_control_operators` and `_scan_static_shell_words`, character by character | the text, the position, either scan |
| `Terminal` | `resolve_tool_call` for a terminal command: pipes, expansions, reinterpreters, git, rules, classifiers | the command, its rule, the check's position, the answer |
| `ShellLine` | a command from its text to its answer: `ShellText`, `_normalize_command`, `_split_command`, `Terminal` | both, and the line a text is written from |
| `MCConfigCache`, `MCBoundary`, `MCMultiEffect`, `MCRuntimeRules`, `MCTerminal` | instances for TLC | |
| `ConfigCacheProofs`, `BoundaryProofs`, `MultiEffectProofs`, `RuntimeRulesProofs`, `TerminalProofs`, `ShellTextProofs`, `ShellLineProofs` | theorems | |
| `FoldLemmas` | nothing of the code: recursion over sequences, for the proofs | |

`Boundary` instantiates `ConfigCache` and `Gate`; `ShellLine` composes `ShellText`
and `Terminal`. `MultiEffect`, `RuntimeRules` and `ShellLine` model the code behind
the one constant operator the boundary leaves open, `Resolve`; no module composes
them with it, as the boundary is proved for every `Resolve` whose answers are of the
boundary's kind (`BoundaryAssumption`), which is what `TypeCorrect` of `MultiEffect` and of
`Terminal` prove of theirs. A rule is one pair in
`MultiEffect` and `Terminal`; that the pair is the right one is the subject of
`RuntimeRules`.

`ConfigCache` has one action per `os.stat`, per source read and per branch, so an
`Edit` can fall between any two of them. A file state stands for its stamp
(device, inode, mtime, size); `Valid`, `Malformed`, `Crashing` and `Missing` say
what a load makes of it. `held` remembers the states a path has had; a path may
return to a state it left only if the state is in `Recurrent`. The runs and the
documentation agree on `Recurrent = {Missing}`: a deleted file can be deleted
again, an inode with its mtime does not come back. `seen` remembers the states of
the whole disk since the call began.

`Boundary` instantiates `ConfigCache` and adds its own actions after the snapshot
is served; `call`, `phase`, `asked`, `reply` and `outcome` are the locals of
`pre_tool_call` and `enforce`. `Resolve` is a constant operator: the theorems hold
for every classifier. The service decides a request by its grants of that moment
and appends to `trail`; the answer reaches the hook only if it still waits for
that request. `Garbled` holds answers that are not the service's: denials with any
audit id or none, and permits without a usable one. `enforce.py` asks evidence of
permits only and passes on whatever string a 403 holds, so `RowsHaveEvidence` says of a
denial row that it names an event of its call or repeats the id of such a 403. What the
assumption leaves out is an answer that looks in everything like a permit of the service;
no client could tell it.
An exception of the resolution (`ResolutionRaises`) leaves the hook before anything is
asked or logged.
`AbstractGate` maps the call's phase to the stage of `Gate` and the effects not
yet permitted in the service's trail to what is `owed`.

`Resources` has a path as the sequence of its names between slashes, an absolute one
with an empty name in front; `Folded` is `posixpath.normpath`, and the escape from
the tree is decided after it, as in `normalize_path`. Which texts are URLs, which
hosts are internal, and what is left of a name when its characters are replaced
are constants. So are the URLs `urlparse` raises on, such as `http://[x` (`InvalidUrls`);
`UrlparseRaises` says when one of them is reached, as the URLs of a call are taken one
after the other and the first without a host ends the loop.

`SingleEffect` has a tool as its row in the table of the code (scope, action, kind),
so one definition stands for all tools of a table. `_safe` is `Safe`: a name of which
nothing is left is no name. Two arguments go into resources as they are written
and not through `_safe`, in the code and in the model (`Written`): the organization
of a new repository and the Slack channel.

`MultiEffect` goes through the targets of a multi read or a patch, and through the
effects to unite with a rule, one per step, as the loops of
`_resolve_multi_read`, `_resolve_patch` and `_with_builtin_requirements` do;
moves, forks and tools of one effect are resolved in one. `Demands` is written from
what the operations do to files and repositories, not from the loops, and the
properties compare the two; `Reached` follows a path name by name from a directory
deep enough to climb, and `FileIsCharged` compares where it leads with the resource.
`MustRefuse` is written from the arguments alone: a path that cannot be expressed, a
request that does not say enough (`Unaskable`). `RefusalStands` is about refusals and
exceptions together (`Stopped`): no rule maps such a call, and no other call is refused.

`RuntimeRules` reads raw rules, then registry entries, one per step, and goes
through the snapshot for each call, keeping the best rule so far; the code
sorts the matching rules and takes the first, which is the same for a stable
sort. A raw rule is a rule and the set of its fields that are at fault. Texts
are sequences of characters, because the patterns and the specificity are
about them.

`ShellText` reads a text with both scanners at once, so that their states can be
compared at every position; each goes by its own quoting rules, and neither looks at
the other. One character stands for each class the scanners tell apart, a piece for
a run of ordinary characters. What `index += 2` passes over is `skip`. A verdict is
final, as the code returns there.

`Terminal` takes the checks in the order of `resolve_tool_call`: control operators,
expansions, reinterpreters, git, comments, the operators' rules, the classifiers.
A command is what the scans of its text find and the tokens `shlex` splits
(`CommandType`); which words are flags, wrappers, URLs, images or paths to git is a
matter of their spelling and a constant, related only by `TerminalAssumption`. `Words` is
what words and the segments of resources are: strings.
`ClassifyProgram` asks the classifiers in the code's order; the first that has an
answer decides. The loop over docker's flags is a recursive function (`RunImage`).

`ShellLine` reads a text with the scanners, builds the command from what they found
and lets `Terminal` decide. The classifiers do not use the scanned words: they split
the normalized text once more, with `shlex`, or at white space if that raises
(`TokensOf`). `shlex` is external and modelled for POSIX mode. `_pipe_to_shell`
normalizes and scans again, so a pipe may be lost between the two (`ControlOf`).
A text is any of `Texts` or is rendered from a line of quoted words, of which the
words a shell makes are known without the scanners: `WordsAreTheShells` compares the
two. `Present` forgets the text, as the code does not look at it again.

## Runs

| run | bounds | shows |
| --- | --- | --- |
| `cache_two_sources` | 2 sources; 2 readable states each, or missing, on which a load fails | `CacheCoherent`, `ServedWasCurrent`, `HitIsAtomic`, `FailureIsCurrent` |
| `cache_one_source` | 1 source; all kinds of state | every call returns, edits and repairs take effect |
| `boundary_calls` | no source; 6 kinds of call, 16 environments, 2 calls | authorization, logs, evidence, refinement of `Gate`, with answers that arrive in a later call |
| `boundary_config` | 1 source; 2 calls, of two effects, of a tool only one version of the rules maps; no coverage log | the rules are those of the call; every step of the hook brings it nearer to its return and nothing sets it back (`CallsGoOn`); every call returns |
| `multi_effect` | files: every path of up to `MaxNames` names of 8; compound calls: 5 paths, up to `MaxTargets` targets; all requests of one effect over a few names; 5 rules | every effect is charged once and to what the call reaches, a rule takes none away, refusals stand, an internal page is not hidden |
| `runtime_rules` | up to 3 raw rules, registries of up to 2 entries | whole configs only, inferred rules only, explicit before generated, specific before broad |
| `terminal` | every text of up to 4 characters (3 with other white space and operators); lines of up to 3 quoted words, of empty and of longer segments; any 3 of 13 words; git lines with prefix, options and 3 arguments; docker, gh, npm and other lines; pipes | scanners and `shlex` agree, with the shell too; destructive pushes outside of a pipe stay deletions, pushes and images are charged as they are named, rules decide exactly the rest |

Two readable states per source are enough for a stale answer to differ from a
fresh one, and two sources for an inconsistent pair; two calls are enough for an
answer to arrive in the wrong one; two effects for a permit to be taken for
another. Edits need no bound: without recurrence a path has finitely many
states. `MaxCalls` bounds the calls of a behaviour.

Deadlock is checked where it tells something: a resolution of `multi_effect` or `terminal`
stops only where it has answered (`Finished`), a configuration of `runtime_rules` only
where it was rejected (`Rejected`), so in every other state some check, loop step or
classifier goes on. The cache and the boundary never
deadlock, since files and grants may always change and the plugin may be restarted; that
the hook itself is never stuck there is `CallReturns`.

Three targets are enough for two of them to coincide and a third to be secret or
inexpressible, in every order; two rules are the least that can compete, the third
stands before, between or behind them, at fault or sound. Four names are enough to go
down, up past the start, and down again. Three pages are two of one scope and one of
the other.

Four characters hold a quote, an escape with what it takes, and the closing quote;
beyond that the agreement of the scanners with each other, with `shlex` and with the
shell is proved. Lines of quoted words have every
quoting of every class, next to another in one word and across each operator, empty
quotes, and a comment before the second or the third word. The
terminal's words contain one of each class the constants distinguish, and three
words hold a prefix, a program and an argument; the longer lines are of the programs
whose classifiers look further: git, docker (three flags, with and without values,
known and not), gh and npm.

`TokensAreTheWords` leaves out texts with a dollar or a backtick, because an escaped
one in double quotes and the `$` of `$'...'` stay as they are for `shlex`, and
texts that normalizing changes, because `" ".join(split())` folds white space in quotes
too. There the classifiers of the other programs see another word than the
scanners; git is classified by the scanned words (`StaticGit`) wherever they are known.

Fairness: only the hook's own steps (`WF_vars(HookStep)`). They are sequential code
that nothing blocks, and the opener has a timeout. Hermes need not call, operators
need not edit, the service need not answer.

Runs that end in a violation, each against a statement of the repository:

* `cache_deleted`: README.md:155-156 and boundary.py:380-382. The path is missing
  at the stat, present at the read, and missing from then on: the next call's
  stamp equals the stored one and the stale rules are used.
* `cache_raises`: README.md:148-151. A list as a rule's `action` raises `TypeError`
  in `_parse_rule`; nesting raises `RecursionError`. Neither is caught.
* `cache_missing`: docs/configuration.md:23-27 describes an older behaviour.
* `boundary_log_fails`: README.md:24-25. The decision recorder's exceptions are not
  caught in the except handlers.
* `boundary_correlation`: docs/preflight.md:127-133. The row of a compound call pairs
  the primary effect with the audit id of another one.

## Proofs

The constants are constrained only by the named assumptions of the modules
(`ConfigAssumption`, `BoundaryAssumption`, `SingleEffectAssumption`,
`MultiEffectAssumption`, `TerminalAssumption`, `ResourceAssumption`, `ShellTextAssumption`,
`ShellLineAssumption`), which TLC evaluates on the instances. They say what kind of
value a constant is; the last one also what a line of quoted words is (`IsLine`):
each character stands for itself under the quoting it is given, and words are apart.

`ConfigCacheProofs`: the properties are not inductive. `IInv` adds that every
stamp and stat is in the history of its path (`History`), that a half-done load
agrees with a stamp that still holds (`LoadCoherent`), that a stat that met the
stored stamp met the stored content (`ProbeCoherent`), and that the disk the call
began with agrees with all of them (`ProbeAtomic`), which is why a hit is atomic.
The step that matters is `Edit`: a state that was left and does not recur cannot
make an old stamp valid again.

`BoundaryProofs`: every boundary step is a step of `ConfigCache` or leaves its
variables alone, so `Spec => Cache!Spec` and the cache's invariant holds of the
boundary. `CallInv` says that the first `asked` requirements have permits in the
trail (`Answers`), that an arrived permit is backed by an event for the very
question (`ServiceCallInv`), and that a call about to proceed has asked everything.
`LogInv` adds which rows a call has left in each phase (`Rows`) and that the outcome
about to be recorded is evidence itself (`Backed`, `Evidence`); with it the rows tell
the result (`RowsTellResult`) and name events of this call, except for the ids forged
403s hold (`RowsAreEvidenced`).

The last part is `Spec => ImplementsGate`, action by action. A step of the service alone
is a step of the gate, too: the permit it records for a waiting question takes an
effect from what is owed before the hook hears of it. That nothing is paid before the
call asks needs one more invariant, `Unheard`: while the configuration is checked the
service has heard of earlier calls only.

`CallsGoOn` is half of termination, without fairness. A call is measured by
two numbers, the steps left on the configuration (`StepsLeft` of `ConfigCache`) before the
steps ahead once the snapshot is settled (`StepsAhead`). `EveryStepCounts` proves that each
step of the hook takes from the first, or leaves it and takes from the second, for any
number of sources and effects; and that an edit, a changed grant or a late answer touches
neither, so no change of the files makes the hook load again and no failure makes it ask
again. `StepsAreCounted` proves that the first is at most `3 * NSources + 4` and the second
a natural number. So a call that does not return is one whose hook stands still;
`CallReturns` adds, for TLC's instance, that the hook always has a step to take.

`MultiEffectProofs`: `IInv` says of each phase what the loop has done: `Collecting`
that the list holds exactly the pairs of the targets passed, without repetition,
and that each of them is expressible; `Built` what the classifiers' result is worth
compared with `Demands`; `Uniting` that the rule's pair and the effects passed are
in the list. The work is in lists of any length: taking the leading pair out
(`RemoveAt`) loses and doubles nothing because the list is injective. `Leading`
follows the pair that is put first through the union, for `PairReported`. The tools
of one effect have a lemma each on what their result is (`GithubIsSimple`,
`VerbIsSimple`, `FetchIsSimple` and others); `TargetsAreNamed` and `HostsAreVisible`
are about what it names. For `FileIsCharged`, the fold of a path and the walk along it
are compared after every name (`Alike`): the fold keeps as many `..` in front as the walk
has climbed out of its start, and the names behind them are those the walk has gone
down since. That holds for paths of any names and length.

`FoldLemmas`: the induction behind it, and behind the theorems on texts below. A left
fold, a flattened sequence and docker's walk are recursive functions defined by
`CHOOSE`, of which nothing is known before one is shown to exist. `FoldExists` and
`FlattenExists` show it by induction on the length, which `Induction` gets from the
least number outside of a set. What a fold computes after each element is
a run (`RunExists`), and what one step keeps, a run keeps (`RunStays`).

`RuntimeRulesProofs`: `Reading` ties the rules kept to the raw rules read while there
are no errors, `OptedIn` the generated ones to the setup, and `Choosing` says that
the best rule so far applies and comes before the others passed (`SortedBefore`).
The lemmas below it show that `Below` is a strict order of keys in which equal keys
are those `MoreSpecific` does not tell apart.

`TerminalProofs`: `Inv` says what each check has established for those behind it.
The lemmas are about lines of any length: `FirstOther` finds what it should; a line
has no answer of git's exactly if none of its words is a path to git
(`NoAnswerMeansNoGit`); words that push are git's push or `UnsafeShell` wherever git
stands in them (`PushWords`), hence a deletion with a destructive argument
(`DestructiveWords`) and charged to the first argument without
(`ChargedWords`); and what the checks let pass is what `LeftToRules` describes
(`UnsettledIsLeft`), which is why a rule can neither reach a deletion nor lose a
command to the checks. `TypeCorrect` follows the answer through the checks
(`AnswerInv`), with a lemma on the answers of each classifier: whatever its words, a command
is charged with an action and a resource that is not empty, or not charged for one of the
reasons. For docker, `WalkFinds` says what the walk over the flags
returns from every position on. `ImageRuns` is about the words docker gets, where they are
known and `shlex` has split the text into them.

`ShellTextProofs`: the scanners are in step (`InStep`): together with the same quote;
or the one is behind a backslash in double quotes that the other took as an ordinary
character; or the other is between a dollar and the quote it opens. As long as the
second scanner reads on, the first has seen no operator (`Clear`). `Step` shows that
one character keeps this, whatever follows it, and `Agreement` that at the end of any
text it is `ScannersAgree`.

`ShellLineProofs`: reading and deciding a text is a behaviour of `TerminalSpec`
(`TextImplementsTerminal`): a reading step stutters, and what is presented is a
command with words. So the theorems about words hold of texts, whatever the quoting.
`TerminalSpec` lets any command arrive whose words and whose tokens are sequences of
words, so these theorems do not depend on `Texts` and `Lines`.

`TokensAreWords`: without an expansion in the text, the scan for words and `shlex` read
it abreast (`Abreast`). They have the same words (`SameWords`), or they are at a
backslash: the scan has taken the character behind it (`Ahead`), or, in double quotes
that do not need it, the backslash itself (`AtBackslash`), which `shlex` decides a
character later. An induction over the text in steps of one character keeps
this, and at its end the words are equal.

`QuotingIsTheShells`: `Spells` says which word the scan for words is in, what it has of
it and which words are before it; `Calm` that the other scan has found nothing and is
in the same quotes. Read through a segment of any quoting, they go on by
the characters the segment stands for (`Reads`); this is carried by induction from
the characters of a segment to its word and from word to word (`LineRead`). Where a
line has an operator or a comment, the scan for words has ended with the words
before it, and the other one has found the operator, or reads on to one that is further
on. `WrittenInv` ties the scans to the line the text is written from. So for
lines of any length, quoted in any way, the words are the shell's.

`TextTypeCorrect` is `LineTypeOK`: the scans' words and the tokens are made of the text's
characters, `JoinedType` joins them to words, the command that is presented is one, and
`TypeCorrect` has the rest. That two strings joined are a string is not something the
provers know, so it is the theorem's hypothesis (`WordsJoin`), which holds if `Words` are
all strings.

Only model-checked: the liveness properties `CallReturns`, `EventuallyCurrent` and
`RecoversAfterRepair` (`cache_one_source`, `boundary_config`), as the provers have
no rules for fairness and `ENABLED`; of the first, `CallsGoOn` is proved. For the same
reason, that no resolution gets stuck is what TLC's deadlock check says of the instances.

## Not modelled

* `cli.py`: `doctor`, `validate`, `explain` and `discover` print what functions
  modelled here return (`load_runtime_config`, `resolve_tool_call`,
  `discover_mcp_registry`); they change no state and decide no call.
* The harness and release scripts in `scripts/`: offline input and output.
* `plugin.py` registers the hook; the host behind it is external.
* How text is told apart: the split of `mcp__server__tool` into a tool's row, the
  regular expressions for URLs, images, packages and identifiers, and the tokens of a
  registry entry's description. Which words fall into which class is a constant, and
  the theorems hold for every choice.
* The warning about a near miss of `VINCTOR_HERMES_UNMAPPED_POLICY` (boundary.py:334): the
  value itself is in the environments of `boundary_calls`, the warning is output.
* Two contents under one stamp (same inode, size and mtime tick): the code cannot tell
  them apart, and the models take a file state for its stamp.

Abstractions: an edit is atomic (a partly written file is a state of its own);
different contents have different stamps; a failing recorder leaves no row;
tool arguments can be serialized; the environment is fixed when the plugin starts
(`dict(os.environ)`). `urllib`'s timeout is per socket operation; the model's
`Timeout` stands for its expiry. `fnmatch`'s bracket patterns are left out. A lower
case verb stands for any spelling of it.

What a reader should know of the terminal. A command with an expansion that
creates a branch (`git branch $NAME`) is charged as `repo/branch/` with the name as
it is written; `GitNeedsWords` is about the local and the GitHub resources only.
And a push to a remote that is only named is refused, but a rule may decide it:
`LeftToRules` says so, and `RuleBoundary` proves that it is exactly so.

Where the shell would expand a word, the other programs are charged by the words as they
are written (mapping.py:67-79). `docker run -e $X img` is charged as `img`, although `$X`
may become two words, of which docker takes the second for the image. `ImageIsUnambiguous`
is about lines whose words are known and are the tokens, and the same holds of an image
behind white space that is folded in quotes or escaped.

A pipe into a shell is charged as that shell's execution, named after the program in front
of it, before its arguments are looked at: `git push -f origin main | sh` is
`execute shell/git`. `Readable`, and with it `DestructivePushStays` and `PushIsCharged`,
are about one command without a pipe.

What a reader should know of fetches. README.md:24-25 has malformed mapped calls return a
block directive. A fetch of `http://[x` does not: `urlparse` raises `ValueError`
(resources.py:80), nothing between there and `pre_tool_call` catches it, and the hook ends
in the exception, also when a rule matches the tool, because the classifiers run then too.
`RefusalStands` and `ResolutionRaises` show it: such a call is never mapped, asked or
logged; what Hermes makes of an exception of the hook is Hermes' affair.
