# srava in TLA+

A srava program is a script of geometry operations. The planner (one process, an event
loop of cooperative state machines on the tinyState library) expands the script into a
graph of operations and gives each one a `pigfAgent`; an agent starts a module process, or
a thread of the planner, which reads its inputs from cache files and writes its result
into another. These modules specify the planner and its exit, the agents with the worker
gate and the in-flight ledger, the load control, the tries of the language, the mediator
with its module process and the wire between them, the cache file with its writers,
readers and sweeps, and the expansion and routing of a call before it is an operation;
what must not go wrong in any order of events; and prove the central part for every value
of the constants.

Paths below are relative to the repository; `pig/` is `src/classes/pig/c++/`.

## 1. Inventory

| Component | Code | State it keeps | Operations | Interacts through |
|---|---|---|---|---|
| Operation agent | `pig/pigfAgent.cpp` | state function, `_front`, `beginPromise`, `promise`, error, flags for what it holds | the state functions INI .. MEDWAIT | promises of its arguments and consumers, gate, ledger, mediator events, wait list of its try |
| Application object | `pig/ptsApplication.cpp` | gate, ledger, counts of agents and child processes | `gate_get/release`, `inflight_claim/release`, `set_agentError`, `ext_agent_add/del` | called by agents and planner |
| Worker gate | `gateSem` in `ptsApplication` | limit, count | enter, leave, limit | agents enter, the load control moves the limit |
| Load control | `pig/ptsLoadControl.cpp`, `co_*.cpp` | effective limit, measured terms, ramp timer | ramp, follow down, sample, refresh | the gate's limit, agents entering and leaving, `TSE_ASSERT` |
| Mediators, module processes | `pig/ptsMediator*.cpp`, `ptsAgentApplication`, `ptsGenericAgent` | process or thread, pipe, grace timer, packets held back, what was reported | start, handshake, compute, save, die, be killed, panic | events to the agent, the wire, cache files |
| Cache files and handles | `pig/pigData.cpp`, `ptsDataCache`, `pigCacheManager` | file, validity | hit, attach, write, sweep | disk |
| Cache streams | `pig/ptsWireCacheStream{Reader,Writer}*.cpp` | position, writer pid | write record, end mark, follow | disk |
| Tries | `pig/pigfOps.cpp`, `pigfTryCatch.cpp` | wait list, queue of errors and its readers, flush waiters | enter, leave, error, destroy, `error()`, `flush()`, `throw` | agents, planner |
| Planner | `src/classes/cg/c++/cgptsPlanner.cpp` | tree, teardown reason, exit code | evaluate, wait for agents, clean up, signals | everything |
| Control functions | `pigfIf`, `pigfWhile`, `pigfMap`, ... | one wait each | expand the program | promises |
| Wire pipe | `pig/ptsWirePipe.cpp` | state, own end sent | handshake, read and write records, end, drain | mediator and module application |
| Fire and forget, error sink | `ptsFireAndForget`, `ptsErrSink` | a statement; text | hand over an error, leave the list; collect | tries, mediators |
| Registry, loader, routing | `pigModuleRegistry`, `pigModuleLoader`, `pigfModuleAgent` | descriptors of the loaded modules, `USE_MODULES`, group sizes | fold `{}`, decompose, pseudo modules, route or refuse, `module()` | ACT_START of an agent, what it becomes is other agents |
| Parser, exec backends, OS glue, geometry modules, `lib/*.sra` | | | | sequential, or pure I/O |

What is hard here: an operation's result is handed over three times (a continuation, a
"begun" level, the result) to consumers that arrive in any order, some of which alias the
promises of another agent with the same hash; the owner of a hash is known by the ledger
first and by the existence of a file later; the planner may be torn down by a signal, an
error of any agent, or a catch, in every state of every agent; processes die at any
moment and leave half a file behind; a gate of one place must not lock a program up; the
load control moves that gate's limit meanwhile; a teardown has a first reason, which a panic overrides; a destroyed module
process is given time to save, and must notice by the end of its input that nobody wants
it; a reader follows a file that is being written by a process that may be dead.

What makes the components correct:

* agent: everything handed out is settled in the end, a result once read stays, a place
  in the gate is given back exactly once, it ends under every teardown;
* ledger and cache: one writer per file, no file truncated under a reader, no corpse
  without a report;
* gate: nobody enters a full gate, no deadlock at any limit;
* load control: slow up, close to what runs, never zero, ends when destroyed;
* tries: no error lost, none read twice, a try ends after its calculations, `flush` and
  `error` are always answered;
* routing: a call means the same however it is folded, grouped or handed on, it runs in a
  module it names, and splitting it comes to an end;
* planner: it never sleeps on something that has happened, it leaves nothing behind, the
  exit code tells what went wrong, and a teardown, or a panic, ends unless the program waits
  for a `system()` that the teardown does not reach;
* mediator and wire: the end of an operation is told once, last, after its process is
  gone, and with the reason if it went badly; reports keep their order; a save is spared
  for its grace; each end of the wire notices the loss of the other;
* cache file: after the sweep of a start a file is whole or being written, whatever crashed
  before; a reader ends with the whole value or an error, and not with an error on a file
  that was finished.

`PROJECT.json` lists every hazard at its line with the properties that watch it.

## 2. Modules

| Module | What it is |
|---|---|
| `Planner` | the planner from the parse to the end of its process, over a program of calculations |
| `PigfAgent` | the agents of one program with gate, ledger, cache files, wait lists and teardown |
| `WorkerGate` | the abstract gate: a set of holders and a limit; implemented by `PigfAgent` and `LoadControl` |
| `LoadControl` | the load control with its companions, and agents reduced to entering and leaving |
| `TryCatch` | one try / catch: its machine, its wait list and queue of errors, the calculations that belong to it |
| `Mediator` | one operation in a process of its own: mediator, the two ends of the wire, the module process |
| `CacheFile` | the file of one hash: writers, readers, sweeps and crashes of several planners |
| `CachePromise` | what the file promises its readers; implemented by `CacheFile` |
| `CallRouting` | a program of calls as a term, rewritten until each call is routed to a module or refused |
| `MC...` | the instances TLC checks |
| `PigfAgent_proofs`, `PigfAgentSettled_proofs`, `LoadControl_proofs`, `TryCatch_proofs`, `Planner_proofs`, `CacheFile_proofs`, `Mediator_proofs`, `CallRouting_proofs` | the theorems about a module and their proofs (section 5) |

`Planner` sees an operation as one job and `PigfAgent` has its inside; `PigfAgent` sees a
mediator as the events it sends and `Mediator` has its inside; both see a file as absent,
partial or complete and `CacheFile` has its inside; what a try makes of its errors is
`TryCatch`; the nodes of `PigfAgent` are what `CallRouting` has routed.

### 2.1 PigfAgent

An action is one run of a state function. The planner runs one at a time and a chain of
states entered with `rDO` (`Chained`: LAUNCH, ERROR, ABORT, FIN) runs in the same
dispatch; `Running` keeps other agents out meanwhile. `pc[n]` is the state function,
`front`, `begin` and `result` are the three levels of what a consumer sees
(`_front`, `("delayed" . begin)`, `("begin" . promise)`), `dupOf` says whose levels an
alias stands for. The state function names are those of the code without their prefix.

| Code | Actions |
|---|---|
| `INI`, `ACT_START` | `Ini`, `StartError`, `StartHit`, `StartDup`, `StartFirst`, `StartDelayed` |
| `FIRSTWAIT`, `GATE` | `FirstWait`, `GateEnter` |
| `LAUNCH`, `HELLO` | `LaunchOk`, `LaunchNoCommand`, `LaunchFail`, `HelloReturned`, `HelloAssert` |
| `SENDOP`, `SEND`, `SENDEND` | `SendOp`, `SendReady`, `SendHit`, `SendDup`, `SendFirst`, `SendError`, `SendAbort`, `SendEnd` |
| `RESULT`, `BYE`, `CACHEREAD` | `ResultSaveBegin`, `ResultSaveDone`, `ResultError`, `Bye`, `CacheRead` |
| `ERROR`, `ABORT`, `FIN`, `MEDWAIT` | `Error`, `AbortToError`, `Abort`, `Fin`, `MedWait` |
| `PIGFAGENT_SHOULD_ABORT` | `GoAbort`, `HelloAbort`, `ByeAbort` |
| `filter` | `Filter` (the mediator's end becomes a flag), `Ignore` |
| mediators and module processes | `MedHandshake`, `MedLaunchFailed`, `MedSaveBegin`, `MedSaveDone`, `MedError`, `MedExit`, `MedDie` |
| load control, signals, tries | `SetLimit`, `Interrupt`, `DestroyAgents` |

Abstractions. A value or a mesh is "val", an error "err". A cache file is absent, partial
or complete. An external launch fails asynchronously (`MedLaunchFailed`), an in-process
one at once (`LaunchFail`); an operation whose module is not linked in falls back to a
process. The order of priorities at the gate (`gateDelta`) is left open: any waiting agent
may be next. A node that `try_shortcircuit`, `try_decompose` or `try_pseudo_module`
replaces in ACT_START is not a node of the model; its consumers take what replaces it
(`CallRouting`).
The internal error of an agent without a try is not modelled, no state reaches it. The
grace and the kill of a mediator are one action here (`MedDie` in MEDWAIT).

### 2.2 LoadControl and WorkerGate

`WorkerGate` is what the gate promises: a worker enters only when fewer than the limit
are inside, and leaves at will, while the limit may change at any time. Both `PigfAgent`
(holders: the agents with `gateCredited`) and `LoadControl` (holders: the agents inside)
implement it, with the abstract specification as a property of their runs and as theorems.

`LoadControl` has the machine TICK / RAMP / IDLE / FIN of `ptsLoadControl.cpp` (TICK is
entered with `rDO` and is part of the steps that lead to it), its timer, the wake-up
(`kick`), the memory and CPU terms reduced to the smaller of the two (`measured`, chosen
anew by every sample), the settings a script may change while it runs, and the two
companions, whose end the application waits for.

### 2.3 TryCatch

The machine of `pigfTryCatch.cpp` (`pc`), with the states it enters with `rDO` in the same
step (`EnterWait`, `EnterCatch`, `WaitBody`); the node of the try (`pigDataTryCatch` in
`pigfOps.cpp`): the wait list is the set of `job`s that are live, `errs` and `errTaken` the
queue of errors; and `woken`, the event that makes a waiting state run again.

| Code | Actions |
|---|---|
| `INI`, `INI_RET` | `Ini` |
| `ACT_START`, its end; another run of it | `BodyEnds`; `Run` |
| `WAITBODY`, `WAIT` | `Run` with `WaitBody`, `EnterWait` |
| `CATCH` | `EnterCatch`, `CatchEnds`, `Run` |
| `flush()`, `error()`, `destroy()`, their answers | `CallFlush`, `CallError`, `CallDestroy`, `Resume` |
| `agent_enter`, `agent_leave`, `agent_error`, `wake_waiters` | `Enter`, `Leave`, `AsyncFails`, `AgentFails`, `WakeWaiters` |
| `ptsFireAndForget`, `pigfAsync` | `Start`, `Spawn`, `AsyncFails`, `FlushInside` |

The statements of the body and of the catch are any sequence of these calls, so that one
model stands for every program. An async statement hands its error over and leaves in one
run; an agent hands it over in ERROR and leaves in MEDWAIT, with other steps between. An
async statement inherits the try and may start calculations in it. The class of an error
that a teardown caused (`PE_DERIVED`) is not modelled: it is an end without an error.
`PigfAgent` has the same lists from the agents' side, with the errors as a flag.

### 2.4 Planner

`pc` is the state function of `cgptsPlanner`; WAITAGENTS and CLEANUP are entered with
`rDO` and are part of the steps that lead to them (`WaitAgents`, `Cleanup`). `pWoken` is the
event that makes it run again: nothing but the code's own wakeups sets it, and
`NoLostWake` says that they are enough. The tree is a `pigfSequence` over a small program
of jobs, `flush()`, `exit` and a fatal error; a job is an operation (in a process or in the
planner, inside a user try or not, waited for or a continuation nobody reads), the body
of an async statement, or a `system()` child, in a statement of its own or in an async one.
A `system()` may fail to start; it is then an error of its statement like any other. Once it
runs it ends with a status, also when it is killed, and the sequence goes on.

EVAL destroys the tree once (`treeDestroyed`) and `pigfSequence` passes that on once, to its
current statement. A `system()` that is started after that, or one in an async statement that
a `flush()` waits for, is told by nobody until EVAL is over: `Unreached` is that state, and
what `TeardownEnds` and `PanicFires` leave out. `pigfAsync` passes a destroy on once as well,
to the current statement of its body; the body is one job here, so the same case inside it
(two `system()`s in one async statement) is not in the model.

| Code | Actions |
|---|---|
| `filter` (signals) | `Interrupt` |
| `set_teardown_reason`, `set_agentError` | `Reason`, `SetAgentError` |
| `PARSE`, `EVAL` | `Parsed`, `EvalWaits`, `EvalDone` with `EvalCode` |
| `WAITAGENTS`, `CLEANUP` | `Waits`, `WaitAgents`, `Cleanup` with `CodeOf` |
| `pigfSequence` | `StartJob`, `StartFlush`, `StartStop`, `Resume`, `SequenceDone` |
| an operation: A_SAVE_BEGIN, its end, ERROR, ABORT, MEDWAIT | `SaveBegin`, `Complete`, `Fail`, `Abort`, `Fold` with `Gone` |
| the panic timer of `ptsMediatorInternal`, `ptsFireAndForget` | `Panic`, `AsyncEnds` |

### 2.5 Mediator

The states of `ptsMediatorExternal` (`med`), of a `ptsWirePipe` at each end (`pipe`), of
`ptsAgentApplication` in the module process (`app`) and of its agent (`runner`), with the
records on the wire (`chan`), the ends that are closed (`shut`) and the queue of events of
either owner (`q`). A record is one unit: a reader takes it whole or finds that none will
come (an end within a payload is the same to its owner but for the missing W_EOF). The
planner's parser of values is registered in every planner, so the synchronous fall-back of
`handle_packet` is left out.

`child` says how the process ended (`Ending`): with code 0, with another code because its
module cannot be loaded, with 3 because it is of another build, of a signal, or of one that a
teardown sends. `Reasons` is what `compose_agent_error` makes of it: a reason for a bad code
and for a crash; for code 0 one if the wire was cut (`cut`) and there is text on stderr, which
is a choice; for a build mismatch `pigfAgent` has its own words; none for a kill. A save whose
file cannot be opened or whose header cannot be written sends no TSE_ASSERT (`saved` = "lost",
"unheard"); is_valid() may still find such a file when it is asked again (`AskedAgain`), and
otherwise the application stays in SAVEBEGIN (`NeverSaved`).

| Code | Actions |
|---|---|
| `enable`, `ACT_START` | `Enable`, `Launch`, `NotWanted` |
| `pl_write_*` | `Request` |
| `ACT_RUN`, `handle_packet`, `flush_held`, the grace, `FIN_START` | `Run` with `After`, `Take`, `Abandon`, `Patient` |
| `FIN_AGENTWAIT`, `compose_agent_error`, `filter` | `AgentWait`, `AgentGone`, `Reasons`, `Reap` |
| `ptsWirePipe` HELLO, HDR, DRAIN, FIN | `Pipe` with `Drain`, `Sends` |
| `ptsAgentApplication` | `AppIni`, `AppStart`, `AppSaveBegin`, `AppSaveDone`, `AppDeaf`, `AppClosing`, `Signalled` |
| `ptsGenericAgent`, `ptsDataCache` in the process | `Runner`, `Save` |
| the system | `Destroy`, `TimerFires`, `Parsed`, `Dies`, `PlannerDeath` |

### 2.6 CacheFile and CachePromise

A file is a sequence of cells, each the unit that one `write_full` makes and one `pread`
takes; a write beyond the end leaves a hole of zeros, whose header reads as W_END. A
version of the file is named after the planner that created it; `name` is the one that the
path stands for (unlink removes the name, not what is open). Every planner has a phase
(`ph`), a handle (`valid`), a writer and a reader; the reader belongs to a module process
and goes on after a crash of its planner. So does the writer of an operation that has a
process of its own (`proc` = "module"): the stream header has the number and the start time
of that process, `AliveAs` asks for it, and `Crash` ends the planner and what runs inside
it, while the process goes on until `ProcessEnds`. The next planner may sweep, hit and read
what it is still writing. `CachePromise` has no cells: a version is
growing, whole or lost, for good, and a reader gets the value of a whole one or an error
for a lost one.

| Code | Actions |
|---|---|
| `startup_sweep`, `exit_sweep`, `sweep_cache_dir` | `Start`, `StartSweep`, `Leave`, `LeaveSweep` with `Look`, `Verdict`, `Doomed`, `Sweep`: the read of a file and its unlink are two steps |
| `is_valid`, `set_body`, `ptsDataCache` | `LookUp`, `OpenWriter`, `Announces`, `Load` |
| the writer | `WriteCell`, `WriteFails` with `Put` |
| `wait_avail`, `next_record`, the checks on the headers | `Stat`, `WriterAlive`, `StatAgain`, `Pread` with `Taken` |
| a planner, or a module process, ends | `Crash`, `ProcessEnds` |

The retention of `exit_sweep` (its modes, and that a run which used no cache at all keeps
every whole file) is a choice of `LeaveSweep`. That a module process announces its file by a
message is part of the time that `Load` may take.

Planners one after another (`Overlap = FALSE`) also means that a module process which had a
result but no file yet when its planner went has opened it, or ended, before the next planner
starts (`LastIsOver`): a planner that starts earlier overlaps with it, and its sweep can meet
a file without a header, which is what `CacheFile_share` shows of two planners.

A sweep first reads a file and then asks for its writer. If a module process whose planner is
gone writes W_END and ends in between, a whole file is unlinked at a start. This is what the
code does; `FinishedSinceRead` names it and `OnlyUnusedRemoved` leaves it out.

### 2.7 CallRouting

A program is a term of calls: the set of its nodes, each with its place, the path of argument
numbers that leads to it from the root; `IsTree` says that the places are those of a tree. The
state is what the term has become (`program`), beside what was written. A step is the last
run of ACT_START of one agent whose arguments are known, from the test of its arguments to
the choice of its module; the agents of a program get there in any order, and a
`module("..", {arity: k})` may be evaluated in between.

| Code | Actions |
|---|---|
| the errors among the arguments | `Propagate` |
| `try_shortcircuit` | `Spread` (one array becomes the operands), `RefuseArgs`, `FoldEmpty` |
| `try_decompose`, `build_ktree`, `build_kleftfold` | `Decompose` with `GroupSizes`, `Split`, and `KTree` or `KLeftFold` for one round of their loops |
| `try_pseudo_module`, `pig_pseudo_row_fit` | `UsePseudo` with `Answers` (the rows), `Answering` (the candidates), `PseudoRows` (the first of the first), `Applied` |
| `sig_dispatch`, `sigline_matches` | `Hits`, `Matches` |
| `decide_out_module`, `decide_executor`, `arg_kind_violation_impl` | `Route`, `Refuse` with `Accepting`, `KindsFit` |
| `read_cand_list`, `resolve_cands` | `Resolved` |
| `apply_module_opts` | `SetArity` |

Abstractions. A type is the stamp of an operand, a signature what its text says. The rows of
a descriptor that declare nothing are left out, and so are the match functions of cast,
import and export, which look at values. The predicates of a pseudo module's row are one
Boolean (`holds`), a badly written row is another (`broken`), and what the row does not get
is not padded with null. `Meaning` is what a term denotes, by which the rewriting is judged:
a sequence of solids, one for each element of an array and one for everything else, a solid
being the set of its points and a point the set of the operands it lies in. `Honest` is what
that judgement presumes of the registry: no row calls a difference commutative, and a pseudo
module for an intersection or a difference hands over to one of the same name.

## 3. Runs

All instances are small; each is chosen so that the cases the property is about happen.

| Run | Instance | What it shows |
|---|---|---|
| `PigfAgent_gate` | an in-process leaf `a`; `p` and `q`, the same operation on it, `q` in a user try; `r`, a value operation on both; the limit moves between 1 and 2; no failures | `HoldersWaitOnHolders`, `OneWriter`, `NeverTruncates`, `GateSpec`: no limit locks the gate up, duplicates attach instead of writing, and who waits for an alias waits for a holder |
| `PigfAgent_faults` | a leaf `a`; `p` and `q`, the same value operation on it in two tries; `a` and `p` may fail; interrupts; gate of 1; fairness | `GateExact`, `ChildrenWatched`, `FinishedSettled`, `CorpseReported`, `OutcomeStable` under failure at any step, and `AllFinish` in spite of it |
| `LoadControl_ramp` | three agents, limit up to 4, slack 0 or 2, ramp on or off | `SlowUp`, `StaysClose`, `AllServed`, `Ends`, `GateSpec`, `TypeOK` |
| `TryCatch_ends` | two async statements, one of which may flush, and an agent; with and without a catch | `Barrier` (also for a `flush()` that returns), `NoErrorMissed`, `ZeroIsFinal`, `EndsWithJobs`, `DestroyEnds`. The system may stop: an async statement that flushes its own try waits for itself |
| `Planner_ends` | ten programs of up to three statements over seven kinds of job, most of which may fail and all of which need to be told to end, among them two `system()`s in a row and a `flush()` over an async one; two signals; an in-process module that wedges; EXIT_CODE in and out of range | `NoLostWake`, `NothingLeft`, `ExitCodeTells`, `SweepOnlyWhole`, `PanicFires`, `TeardownEnds`; the last two but for `Unreached`, which the two programs with `system()` reach. The program stops when it is over |
| `CacheFile_crash` | three planners one after another, the third with the process number of the first, the second not using the hash; one record of body; one reader at a time; failing disk; crashes anywhere, and module processes that go on | `NoCorpseLeft` (the sweep leaves a whole file, or one whose writer runs), `ReadWhole`, `OnlyUnusedRemoved`, `ReaderEnds`, `PromiseSpec` |
| `Mediator_process` | all three graces, all three kinds of result; launch failures, modules that cannot be loaded, saves that fail, destroys, signals, crashes of either process | `ReturnTells` (with the reason), `Relayed`, `SaveSpared`, `DestroyEnds`, `ProcessFolds` |
| `CallRouting_expand` | the Boolean rows of four modules with different signatures, two pseudo modules; every call of up to four operands of five patterns of types with any of them `{}`, nested calls (one of which comes out as `{}`), arrays, four candidate lists; one change of a group size | `MeaningKept`, `PlainListed`, `Answered`. The program stops when every call is answered |

Runs that show where a comment or the manual and the code disagree:

| Run | The text | What the code does |
|---|---|---|
| `PigfAgent_catch` | `docs/srava_language_reference.md:155`: the catch decides about the teardown | a late error of an agent sets the program's teardown reason at once, whatever the catch does |
| `TryCatch_reach` | `docs/srava_language_reference.md:187`: a destroy reaches what runs inside, also async statements of an inner try | while the body of that try waits in `flush()` only the body is told, and the flush does not end for it |
| `CacheFile_share` | `pigCacheManager.cpp:106`: an unfinished file whose writer lives is not removed | a file that is open and has no stream header yet counts as a bad one; a second planner's startup sweep unlinks it |
| `Mediator_deaf` | `ptsAgentApplication.cpp:434`: in WEND the application knows whether the planner closed the wire first | only ACT_START notes it; closed while it saves, the process waits in CLOSING for ever. A grace > 0 hides it by a kill, a grace of -1 does not |

Further sentences that the models contradict, for which no run is kept:

* `pigfOps.cpp:175`: the destroy of a catch breaks nothing its try did not make. An
  operation outside that shares the hash of one inside is aliased to its `_front` and gets
  its "aborted" error.
* `docs/srava_language_reference.md:1622` and `pigfModuleAgent.cpp:993`: a module that is not
  in the list of a call is not called. A call that loses an operand `{}` is replaced by a
  node without its list (`pigfModuleAgent.cpp:439-445` sets no `module_expr`):
  `"geogram"::union({}, a, b)` may run in another module, and so may
  `"geogram"::union(a, difference({}, b), c)`, in which no operand is written `{}`.
  `PlainListed` leaves out every call with a `{}` anywhere below it.
* `docs/srava_language_reference.md` says of a list that its first entry which can take the
  call wins. Decomposition comes before pseudo modules: a pseudo module for three operands
  is not asked when a module of the list can do the call in pairs.

* "effective limit <= agents + 2, always" (`ptsLoadControl.cpp:401`): `follow_down` returns
  early at the target. `StaysClose` is what it does keep.
* `ptsLoadControl.cpp:308`: a sleeping ramp is woken when the target rises. Only an agent
  that enters or leaves wakes it; a sample or a new setting does not.
* `ptsApplication.cpp:588`: `set_agentError` wakes all living agents. It walks the root
  try's list; an agent registers with its innermost try. `AllFinish` does not lean on it.
* `docs/srava_language_reference.md:247`: `try { s }` is strictly `try { s } catch { throw
  error(); }`. With an async error queued before that of the body they differ.
* `docs/srava_language_reference.md:1369`: a module that does not fold within its panic
  time aborts the program. The reason is looked at in WAITAGENTS only, and a try that
  waits for that module keeps EVAL from getting there; `Planner_ends` has its wedged
  module outside a try. A `system()` that nobody tells (`Unreached`) holds the panic up
  likewise, for as long as it runs.
* `docs/srava_language_reference.md:1168`: an interrupted program exits with 128 and the
  signal. If the interrupted statement is followed by `exit`, EVAL writes 0 and CLEANUP 1.
* `docs/srava_language_reference.md:1170`: an interrupt stops a `system()` and the program.
  `pigfSequence` goes on to the statement after it, since a killed child is a status. If that
  is a `system()` as well, nobody tells it to end, and the program does not end before it
  does. So `TeardownEnds` does not hold of every program: it has `Unreached` as the exception,
  and without it TLC finds it violated for the programs `<<c, u, v>>` and `<<s, Flush>>`.

### Bounds and why they are enough

Three or four agents: every rule of the agents relates an agent to its arguments, to the
owner of its hash and to its try, and the instances have an argument, a duplicate of a
consumer (before and after its owner handed over), a consumer of the duplicate and of its
twin, and two tries. A gate of 1 is the case where a cycle of waits closes first; the limit
2 lets it move under holders. `MaxLimit = 4` in the load control leaves room for a target
above, at and below what three agents need. In `TryCatch` three calculations are enough to
have one that fails, one that is started late by another and one that still holds the list.
In `Planner` every rule relates the planner to one job, or to the last of two; the programs
pair the kinds that interact. In `CacheFile` a writer that dies, a run between and a run
that finds the file need three planners; one body record has every boundary (before the
header, after D_META, before and within W_END). `MaxReaders` is 1 there: no reader sees
another, and either planner that uses the hash is the one that starts it in some behaviour.
`Mediator` has no bound beyond one operation: its queues are as long as what the two sides
send. In `CallRouting` a group has two or three operands (`MaxArity`), so that four give a
full tree of two levels, a tree with an operand left over and a left fold with a last group
that is shorter; one change of a group size (`MaxConfig`) can fall between the split of a
call and that of its groups. The proofs remove the bounds for the properties of section 5.
No other counter is capped: the rest are bounded by the number of agents.

### Fairness

`PigfAgent`: weak fairness of the agent's step when an event it waits for is there (the
event loop dispatches every queued event), of its abort in the same case, and of the
mediator: every module operation is assumed to end, which is the one assumption about
code outside the planner (a module that never returns blocks the program until a signal,
and that is what the grace timers are for). Nothing is assumed of `wake_agents`, a
destroy, an interrupt or the load control. `LoadControl`: weak fairness of the machine's
own steps, of timers, and of agents entering and leaving; samples, settings and the end of
the application may never come.
`TryCatch`: weak fairness of the machine's steps, of the end of a statement that does not
wait in `flush()` or `error()`, and of the end of a calculation that was told to tear
down. One that was not told may run for ever: `EndsWithJobs` has its end as a premise, and
`DestroyEnds` needs that every calculation is told.
`Planner`: weak fairness of the sequence, of the planner's step (which needs an event) and
of each job's steps; a long job ends only when it is told to, and a wedged module never has
to return, but the timer of its mediator fires. Signals and failures may never come.
`TeardownEnds` and `PanicFires` leave out `Unreached`: a long `system()` is not assumed to end
by itself.
`Mediator`: weak fairness of every machine that has an event, of the timer, of a kill that
was sent, of the wait for a process that is over, and of the end of a calculation that was
told to; one that is not told may go on for ever, and crashes and destroys never have to
come. `DestroyEnds` leaves out a grace of -1, by which a module promises to fold by itself;
`ProcessFolds` leaves out the case that `Mediator_deaf` shows (`Deaf`) and a save that fails
before its header (`NeverSaved`); nobody tells the application of that, and it waits.
`CallRouting`: weak fairness of the start of a call whose arguments are known; `module()`
calls never have to come.
`CacheFile`: weak fairness of the writer's and the reader's threads only; a planner or a
module process may end at any time and never has to. `ReaderEnds` leaves
out a writer that failed in a process that lives on: the code polls for as long.

## 4. Mutants

Each property of each passing run has a changed definition beside the original (named in a
comment "Mutant of ..."): a dropped guard, a missing reset, a handover forgotten. With it
in place of the original the property fails in the same run.

## 5. Proofs

The theorems hold for any finite set of operations, any graph (`Args` may be any relation),
any hashes, tries, limits, programs, statements, planners, file lengths, graces, results,
registries and candidate lists; the assumptions are the named ones of the modules, which
TLC evaluates in every run. The theorems about
`CacheFile` also assume `Overlap = FALSE`: planners that run one after another.

* `PigfAgent_proofs`: `TypeInv` is `TypeOK` with two facts that make it inductive: the
  gate's and the load control's counts equal the number of agents with `gateCredited`, and
  the count of child processes equals that of `extCounted`. Without them a decrement could
  leave the naturals. `TypeCorrect` and `GateCountExact` follow.
  `WriterInv` adds, for every agent, that a claimed flag and the ledger agree (`Claims`),
  that an agent past SEND with a process that computes owns its path (`PathClaimed`), and
  that a file exists exactly from its owner's A_SAVE_BEGIN on (`FileState`). The handover at
  A_SAVE_BEGIN, where the claim is given up because the file now stands for it, is the step
  the invariant is for. `SingleWriter` and `NoTruncation` follow. For `GateRefinement` every
  step maps to a step of `WorkerGate` or a stutter.
* `LoadControl_proofs`: type correctness; `RampIsSlow` and `LimitStaysClose` as action
  properties; the refinement of `WorkerGate`.
* `TryCatch_proofs`: `Inv` is `TypeOK` with three parts. `QueueReader`: only the catch takes
  errors from the queue, and it runs for an error. `EmptyStays`: what was reported empty (0
  from `error()`, a flush that returned, the end) stays empty, because only a live
  calculation or a running statement brings a new one in. `QuietEnd`: the value of the body
  goes to the end in one step and with an empty queue. `TryIsBarrier`, `NoErrorIsMissed`
  and `ZeroIsTheEnd` follow.
* `PigfAgentSettled_proofs`: `SettledInv` says for every agent what the three levels hold in
  each state (`Stage`), that an alias stands for an agent that has settled its hash, is no
  alias itself and has a level for it to stand for (`Links`), who is inside the gate
  (`Credit`), that whoever is inside has begun arguments (`Supplied`), and that A_SAVE_DONE
  comes after A_SAVE_BEGIN (`Ordered`). `GateCannotLock`, `NobodyLeftWaiting` and
  `OutcomesStay` follow. They need the part of `NodeAssumption` that operations with the same
  hash have the same kind of output: the hash is taken over the routed row and the salt of
  its module (`compute_arg_hash`), and with a consumer of a value attached to a handle the
  begin level it waits for would never exist. `WatchInv` ties a live mediator to the wait
  list and to the count of child processes (`NoStrayChild`), `CorpseInv` each unfinished file
  to an agent that still has to report it or to a report (`NoSilentCorpse`).
* `Planner_proofs`: `IInv` is `TypeOK` with six parts: where the sequence is in each state of
  the planner (`Placed`), that the statements ahead have not started (`Fresh`), the life of a
  calculation and what it has given (`Given`), that whoever has to wait for a calculation
  is still there (`Held`), that an error given is on its way or has arrived (`Carried`), and
  that the exit code follows from the reason of the teardown (`Coded`). `NothingIsLeft`,
  `ExitCodeIsTold` and `SweepIsSafe` follow; `NoWakeIsLost` has an argument of its own, that
  each end of a calculation wakes those who wait for it.
* `CacheFile_proofs`: `IInv` says what a file is while planners die and follow one another and
  module processes outlive them. `OneAtATime`: one planner runs. `Clean`: a version has no hole,
  begins with its maker and goes on with data. `Made`: an operation writes its own version, from
  the first cell on, and the length of the version is the position of the writer. `Stage` and
  `Named`: what a planner in each phase has done, and which version the name stands for.
  `Swept`: what of that which a sweep has read is still true when it decides (`Reads`). For a
  file that a planner made itself that is everything; this is where `OneAtATime` is needed and
  where two planners go wrong (`CacheFile_share`). For one that a module process writes, what
  was whole is whole and what was unfinished has the same writer, but may be finished since.
  `Followed`: a reader has read exactly the cells before its position, knows its writer from
  the second cell on, looks again only when that writer is gone, and gives up only on a file
  that will not grow any more (`Dead`). `NoCorpseIsLeft` and `ReadsAreWhole` follow.
  `UsedIsKept` follows with the exception of `FinishedSinceRead`: a sweep that decides by what
  it read before cannot exclude it. `PromiseKept` maps every step to one of `CachePromise`, the
  last write to Finish, a failing write or the end of the process that writes to Lose, the last
  pread to Deliver, the second look at the size to GiveUp, and the rest to Create, Bind or a
  stutter.
* `Mediator_proofs`: `IInv` follows a report from the module process to the operation. What
  is on the wire and in the queue keeps the order in which a process speaks (`Ordered`, by
  `Rank`), and never more than the application has sent. `Expected` says what may still come
  after what was told, `Held` and `Truthful` what the parser of a value stands for, and
  `Kept` that nothing the application has sent is missing while its end of the wire is sound.
  `Cut` is what the ends of the wire know of each other: a wire that is over means that the
  process is, or that it has sent all it has; so the mediator, which ends with its wire, has
  nothing to kill but what is over or closing (`SavesAreSpared`) and has told all
  (`ReportsAreRelayed`). `EndIsTold` needs `Over` beside it: the return is told after the
  process was waited for, and how the process ended does not change any more; so the reason
  told is one that this end gives, and there is one if it was a bad end. What a fold over the
  packets that were put off computes (`FoldNone`, `FoldOne`, `FoldTwo`) is proved from the
  definition of the fold, with its function as the witness: no more than two packets are ever
  put off, which `Held` shows.
* `CallRouting_proofs`: `IInv` says of the program what the agent that starts next has to
  find. `Labelled`: a call has the list that was written for it, unless a `{}` is written
  somewhere in it, and what runs is in that list. `Covered`: a `{}` below a call was
  written in it, so that only a call written with one can lose its list (`Folded`). What
  takes the place of a call has to be a `Part` of it, for which there is a lemma for each of
  the ways in which ACT_START goes on. The rounds of a decomposition and the operands that
  are kept are recursive functions over `0..n`, which are shown to exist and to keep their
  property by the least number for which they would not. `RunsInItsList` follows. Of the
  constants it assumes that the calls of a program have places of their own in the source
  (`ProgramsAssumption`, which also says that a program is a tree) and that the body of a
  pseudo module has none of them (`PseudoAssumption`); nothing of what the rows say or what
  the pseudo modules do. The premise of `PlainListed` is as wide as it is because of `Covered`: with the `{}` among the
  operands alone it would be false, as a nested call may come out as `{}`.

  `MeaningKept` (`ComputesWhatIsWritten`) is not inductive: it says nothing of a program that
  holds an error, and an error may go away again with what is around it (a difference from
  `{}` is `{}`, whatever was to be taken off). `Kept` is: the program `Denotes` what was
  written. `Denotes` gives a value to every place of a term such that each `Fit`s those of
  its arguments; an error fits any value, so it `Stands` for every call, and a term without
  one denotes its `Meaning` and nothing else (`DenotedMeaning`). TLC does not check `Kept`
  as it stands, a quantifier over all the values of a term; it checks what follows from it.
  There is a lemma for each way in which ACT_START goes on (`FoldedDenotes`, `SplitDenotes`
  with one for a round of either loop, `AppliedDenotes`, `RunningDenotes`), and one that
  what a part of a term stands for, the whole stands for (`StandsKept`). `Meaning` is a
  recursive function over the places; that there is such a function is proved from the
  longest places up (`MeaningsExist`). The hypothesis is `Honest`, of which the code
  promises nothing: the rows are what a module says of itself, and a body is the program's;
  `MCCallRouting` has it evaluated for the instance.

Only model-checked:

* the liveness properties `AllFinish`, `AllServed`, `Ends`, `EndsWithJobs`, `DestroyEnds`
  (of `TryCatch` and of `Mediator`), `PanicFires`, `TeardownEnds`, `ReaderEnds`,
  `ProcessFolds` and `Answered`: fairness and ENABLED are out of the prover's reach.

Every invariant and every action property the passing runs check is a theorem. The type
invariants of `PigfAgent`, `TryCatch`, `Planner`, `CacheFile` and `Mediator` are the other
way round: they are proved, and the runs check the properties that say more.

## 6. Plan

Done: the agents with the gate, the ledger and the load control; the tries; the planner
with its teardown and exit code; the cache file over several planners and its abstract
specification; the external mediator with the wire and the module process; the expansion
and routing of calls; the theorems of section 5.

Left, in this order:

1. A try inside a try (the wait of the outer for the inner), and the order among async
   statements (`sync`), in `TryCatch`.
2. The save states of `ptsMediatorInternal`, whose end waits for a writer that may fail, as
   the application of a module process does in `Mediator`.
3. The conversion cache, references to external files and the version gate, beside
   `CacheFile`.
4. The match functions of cast, import and export, and the restricted modules of `use` and
   `modonly`, in `CallRouting`.

## 7. Not modelled

The parser and the expansion of the program by the control functions (sequential; the
result is the constant `Args` of `PigfAgent` and the program of `Planner`, in which the
body of an async statement is one job), the loading of modules and their introspection
(`CallRouting` begins with the descriptors loaded; for `PigfAgent` a module that fails is
`MayFail`, one that runs in the planner `InProc`), the match functions of cast, import and
export, the codecs and
the framing of the pipe below a record and its lock among writers (`wlock`), error texts,
statistics and traces, the geometry modules and the language library (a computation ends
with a value or fails).

Of the cache: the conversion cache (`conv_*`), references to external files (D_REF), and the
version gate that empties a directory of another version. Of the in-process mediator: its
save states, which send the same events as those of the external one. Of the tries: a try
inside a try (an inner try is a statement that ends), the order among async statements
(`sync`) and errors that a teardown caused (`PE_DERIVED`).
