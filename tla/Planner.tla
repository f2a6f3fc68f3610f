------------------------------- MODULE Planner -------------------------------
(***************************************************************************)
(* The planner (cgptsPlanner) from the end of the parse to the end of the  *)
(* process, with what it tears down: the tree of the program (one          *)
(* pigfSequence at its top), the agents, async statements and system()     *)
(* children that the tree starts, the wait list of the invisible root try, *)
(* the teardown reason of the application (ptsApplication::set_agentError) *)
(* and the panic of an in-process module that does not fold.               *)
(*                                                                         *)
(* A job is one operation, from its start to the recovery of what runs it, *)
(* or one system(); PigfAgent has the inside of an operation.  What a try  *)
(* does with its error is TryCatch.                                        *)
(***************************************************************************)
EXTENDS Integers, Sequences, FiniteSets

CONSTANTS
    Job,        \* the calculations the programs start
    AsyncJob,   \* those that are the body of an async statement
    TryJob,     \* those inside a try the user wrote
    SystemJob,  \* those that are system() and not an operation of a module
    LazyJob,    \* those whose value is a continuation nobody reads
    InProc,     \* the operations that run in the planner's own process
    Panics,     \* the in-process ones that have a panic time and no grace of -1
    MayFail, MayWedge,
    Long,       \* those that do not end unless they are told to
    Progs,      \* the programs: sequences of jobs and of Flush, Exit, Fatal
    Flush, Exit, Fatal,
    Signal,     \* the numbers of the signals that interrupt
    OwnCodes    \* what the program assigns to EXIT_CODE

ASSUME JobAssumption ==
    /\ IsFiniteSet(Job)
    /\ AsyncJob \cup TryJob \cup SystemJob \cup LazyJob \cup InProc \subseteq Job
    /\ LazyJob \cap (AsyncJob \cup TryJob \cup SystemJob) = {}
    /\ SystemJob \cap (TryJob \cup InProc) = {}
    /\ Panics \subseteq InProc /\ MayWedge \subseteq InProc
    /\ MayFail \subseteq Job /\ Long \subseteq Job
ASSUME ProgAssumption ==
    /\ Flush \notin Job /\ Exit \notin Job /\ Fatal \notin Job
    /\ Progs \subseteq Seq(Job \cup {Flush, Exit, Fatal})
    /\ \A f \in Progs : \A i, k \in 1..Len(f) : f[i] \in Job /\ f[i] = f[k] => i = k
ASSUME CodeAssumption == Signal \subseteq 1..31 /\ OwnCodes \subseteq Int

VARIABLES
    prog, ownCode,
    pc,              \* the state function of the planner
    pWoken,          \* it has an event to run for
    tree,            \* what the program's tree has given
    at, begun,       \* the statement the sequence is at, and whether it waits for it
    agentError,      \* the teardown reason: the class of the error
    signo,           \* and the signal it names
    exitCode, evalError, treeDestroyed, agentsDestroyed,
    swept,           \* the exit sweep of the cache directory ran
    job,             \* the life of every calculation
    promise,         \* what it gave to whoever waits for it
    told,            \* is_destroyed()
    woken,           \* it has an event and will look for a teardown
    waiting,         \* the async statements on the root's wait list (ptsFireAndForget)
    rootErrs,        \* an error was pushed to the root try
    panicked         \* those whose mediator has raised the panic

plannerVars == <<pc, pWoken, exitCode, evalError, treeDestroyed, agentsDestroyed, swept>>
reasonVars  == <<agentError, signo>>
treeVars    == <<tree, at, begun>>
jobVars     == <<job, promise, told, woken, waiting, rootErrs, panicked>>
vars == <<prog, ownCode, plannerVars, reasonVars, treeVars, jobVars>>

Agent == Job \ SystemJob
Live == {j \in Job : job[j] \in {"run", "fin", "stuck"}}

\* The agents on the wait list of the root try, and whether anything is (agent_count).
RootAgents == (Live \cap Agent) \ TryJob
RootQuiet == RootAgents = {} /\ waiting = {}

\* ext_agent_count: the agents that have a process of their own.
ExtLive == (Live \cap Agent) \ InProc

\* The statement that waits for j is over: a try ends after what runs in it.
Settled(j) == promise[j] # "open" /\ (j \in TryJob => job[j] = "gone")

TypeOK ==
    /\ prog \in Progs /\ ownCode \in OwnCodes
    /\ pc \in {"PARSE", "EVAL", "WAITAGENTS", "FIN", "ABORTED"}
    /\ tree \in {"open", "value", "error", "fatal", "exit"}
    /\ at \in 0..(Len(prog) + 1) /\ begun \in BOOLEAN
    /\ agentError \in {"none", "signal", "fatal", "late", "panic"}
    /\ signo \in Signal \cup {0}
    /\ exitCode \in 0..255
    /\ pWoken \in BOOLEAN /\ evalError \in BOOLEAN /\ swept \in BOOLEAN /\ rootErrs \in BOOLEAN
    /\ treeDestroyed \in BOOLEAN /\ agentsDestroyed \in BOOLEAN
    /\ job \in [Job -> {"new", "run", "fin", "stuck", "gone"}]
    /\ promise \in [Job -> {"open", "ok", "err"}]
    /\ told \subseteq Job /\ woken \subseteq Job
    /\ waiting \subseteq AsyncJob /\ panicked \subseteq InProc

Init ==
    /\ prog \in Progs /\ ownCode \in OwnCodes
    /\ pc = "PARSE" /\ pWoken = FALSE
    /\ tree = "open" /\ at = 0 /\ begun = FALSE
    /\ agentError = "none" /\ signo = 0
    /\ exitCode = 0 /\ evalError = FALSE
    /\ treeDestroyed = FALSE /\ agentsDestroyed = FALSE /\ swept = FALSE
    /\ job = [j \in Job |-> "new"] /\ promise = [j \in Job |-> "open"]
    /\ told = {} /\ woken = {} /\ waiting = {}
    /\ rootErrs = FALSE /\ panicked = {}

-----------------------------------------------------------------------------
(* The teardown reason of the application.                                 *)

\* Mutant of Reason: the first one wins, a panic included.
ReasonFirst(e) == IF agentError = "none" THEN e ELSE agentError

\* set_teardown_reason: the first reason stays, only a panic replaces it.
Reason(e) == IF agentError = "none" \/ e = "panic" THEN e ELSE agentError

\* set_agentError: wakes the planner, and with the first reason the agents on the root's list.
SetAgentError(e, n) ==
    /\ agentError' = Reason(e)
    /\ signo' = IF agentError = "none" THEN n ELSE IF e = "panic" THEN 0 ELSE signo
    /\ woken' = IF agentError = "none" THEN woken \cup RootAgents ELSE woken
    /\ pWoken' = TRUE

\* filter: the first signal is a fatal teardown reason; nothing happens for a later one.
Interrupt(n) ==
    /\ pc \in {"PARSE", "EVAL", "WAITAGENTS"}
    /\ agentError = "none"
    /\ exitCode' = 128 + n
    /\ SetAgentError("signal", n)
    /\ UNCHANGED <<prog, ownCode, pc, evalError, treeDestroyed, agentsDestroyed, swept, treeVars,
                   job, promise, told, waiting, rootErrs, panicked>>

-----------------------------------------------------------------------------
(* The sequence at the top of the tree.                                    *)

\* Mutant of Birth: an operation starts whether or not the program is torn down.
BirthBlind(j) == job' = [job EXCEPT ![j] = "run"] /\ UNCHANGED promise

\* An operation that finds a teardown reason aborts before it has a module.  system() does not
\* look; a child that cannot be started is an error.
Birth(j) ==
    \/ /\ (j \in Agent /\ agentError # "none") \/ j \in SystemJob \cap MayFail
       /\ job' = [job EXCEPT ![j] = "gone"]
       /\ promise' = [promise EXCEPT ![j] = "err"]
    \/ /\ ~(j \in Agent /\ agentError # "none")
       /\ job' = [job EXCEPT ![j] = "run"]
       /\ UNCHANGED promise

NextStatement == at' = at + 1 /\ begun' = FALSE /\ UNCHANGED <<tree, pWoken>>
Await == begun' = TRUE /\ UNCHANGED <<tree, at, pWoken>>
Give(v) == tree' = v /\ pWoken' = TRUE /\ UNCHANGED <<at, begun>>

seqFrame == <<prog, ownCode, pc, exitCode, evalError, treeDestroyed, agentsDestroyed, swept,
              reasonVars, told, woken, rootErrs, panicked>>

Evaluating == pc = "EVAL" /\ tree = "open"

\* ACT_START of pigfSequence starts the statement it is at.  An async statement and a continuation
\* let it go on at once.
StartJob ==
    /\ Evaluating /\ ~begun /\ at <= Len(prog) /\ prog[at] \in Job
    /\ LET j == prog[at]
       IN  /\ Birth(j)
           /\ waiting' = IF j \in AsyncJob THEN waiting \cup {j} ELSE waiting
           /\ IF j \in AsyncJob \cup LazyJob THEN NextStatement ELSE Await
    /\ UNCHANGED seqFrame

\* flush() returns at once when the wait list is empty.
StartFlush ==
    /\ Evaluating /\ ~begun /\ at <= Len(prog) /\ prog[at] = Flush
    /\ IF RootQuiet THEN NextStatement ELSE Await
    /\ UNCHANGED <<seqFrame, job, promise, waiting>>

\* exit, and an error that is known without calculating.
StartStop ==
    /\ Evaluating /\ ~begun /\ at <= Len(prog) /\ prog[at] \in {Exit, Fatal}
    /\ Give(IF prog[at] = Exit THEN "exit" ELSE "fatal")
    /\ UNCHANGED <<seqFrame, job, promise, waiting>>

\* The statement it waits for has a value, or an error that ends the sequence.
Resume ==
    /\ Evaluating /\ begun
    /\ \/ prog[at] = Flush /\ RootQuiet /\ NextStatement
       \/ /\ prog[at] \in Job /\ Settled(prog[at])
          /\ IF promise[prog[at]] = "err" THEN Give("error") ELSE NextStatement
    /\ UNCHANGED <<seqFrame, job, promise, waiting>>

\* ACT_pigfSequence_DONE.
SequenceDone ==
    /\ Evaluating /\ at > Len(prog)
    /\ Give("value")
    /\ UNCHANGED <<seqFrame, job, promise, waiting>>

-----------------------------------------------------------------------------
(* The calculations.                                                       *)

\* Mutant of Gone: the last module process that goes does not wake the planner.
GoneSilently(j) ==
    /\ job' = [job EXCEPT ![j] = "gone"]
    /\ pWoken' = (pWoken \/ (j \in RootAgents /\ agentError # "panic"))

\* FIN_pigfAgent_MEDWAIT: the root try wakes the planner when one of its agents leaves, and the
\* application when the last module process has gone.
Gone(j) ==
    /\ job' = [job EXCEPT ![j] = "gone"]
    /\ pWoken' = (pWoken \/ j \in RootAgents \/ ExtLive = {j})

jobFrame == <<prog, ownCode, pc, exitCode, evalError, treeDestroyed, agentsDestroyed, swept,
              treeVars, told, waiting>>

\* A continuation is given (A_SAVE_BEGIN) before the operation has written its file.
SaveBegin(j) ==
    /\ j \in LazyJob /\ job[j] = "run" /\ promise[j] = "open"
    /\ promise' = [promise EXCEPT ![j] = "ok"]
    /\ UNCHANGED <<jobFrame, pWoken, reasonVars, job, woken, rootErrs, panicked>>

\* The calculation ends by itself; a system() that is told to ends its child and gives its status.
Complete(j) ==
    /\ job[j] = "run" /\ (j \in LazyJob => promise[j] = "ok")
    /\ Gone(j)
    /\ promise' = [promise EXCEPT ![j] = "ok"]
    /\ UNCHANGED <<jobFrame, reasonVars, woken, rootErrs, panicked>>

\* ACT_pigfAgent_ERROR: an error goes to whoever waits for the value.  When the value was given
\* already it tears the program down, and the root try keeps it.
Fail(j) ==
    /\ j \in MayFail \cap Agent /\ job[j] = "run"
    /\ job' = [job EXCEPT ![j] = "fin"]
    /\ IF promise[j] = "open"
       THEN /\ promise' = [promise EXCEPT ![j] = "err"]
            /\ UNCHANGED <<pWoken, reasonVars, woken, rootErrs>>
       ELSE /\ SetAgentError("late", 0)
            /\ rootErrs' = TRUE
            /\ UNCHANGED promise
    /\ UNCHANGED <<jobFrame, panicked>>

\* PIGFAGENT_SHOULD_ABORT, looked at whenever the operation has an event: a destroy, the wakeup of
\* set_agentError, or progress of its own, which a long calculation does not make.
Notices(j) == j \in told \/ (agentError # "none" /\ (j \in woken \/ j \notin Long))

\* ACT_pigfAgent_ABORT gives an error if no value was given and lets the module go; a module in the
\* planner's process may not answer.
Abort(j) ==
    /\ j \in Agent /\ job[j] = "run" /\ Notices(j)
    /\ \E s \in {"fin"} \cup (IF j \in MayWedge THEN {"stuck"} ELSE {}) :
          job' = [job EXCEPT ![j] = s]
    /\ promise' = [promise EXCEPT ![j] = IF @ = "open" THEN "err" ELSE @]
    /\ UNCHANGED <<jobFrame, pWoken, reasonVars, woken, rootErrs, panicked>>

\* The module is recovered; what was stuck may come back after all.
Fold(j) ==
    /\ job[j] \in {"fin", "stuck"}
    /\ Gone(j)
    /\ UNCHANGED <<jobFrame, reasonVars, promise, woken, rootErrs, panicked>>

\* ACT_START of ptsMediatorInternal: the panic time is over and the module has not returned.
Panic(j) ==
    /\ j \in Panics \ panicked /\ job[j] \in {"fin", "stuck"}
    /\ panicked' = panicked \cup {j}
    /\ SetAgentError("panic", 0)
    /\ UNCHANGED <<jobFrame, job, promise, rootErrs>>

\* Mutant of AsyncEnds: an async statement that ends does not hand over its error.
AsyncEndsQuietly(j) ==
    /\ j \in waiting /\ Settled(j)
    /\ waiting' = waiting \ {j} /\ pWoken' = TRUE
    /\ UNCHANGED <<prog, ownCode, pc, exitCode, evalError, treeDestroyed, agentsDestroyed, swept,
                   reasonVars, treeVars, job, promise, told, woken, rootErrs, panicked>>

\* ptsFireAndForget has the value: an error goes to the root try, and it leaves the list.
AsyncEnds(j) ==
    /\ j \in waiting /\ Settled(j)
    /\ waiting' = waiting \ {j} /\ pWoken' = TRUE
    /\ rootErrs' = (rootErrs \/ promise[j] = "err")
    /\ UNCHANGED <<prog, ownCode, pc, exitCode, evalError, treeDestroyed, agentsDestroyed, swept,
                   reasonVars, treeVars, job, promise, told, woken, panicked>>

-----------------------------------------------------------------------------
(* The planner.  States entered with rDO run in the same step.             *)

Clamped(n) == IF n < 0 THEN 0 ELSE IF n > 255 THEN 255 ELSE n

\* CLEANUP: EXIT_CODE, clamped, counts only without an error, and an error leaves a code that is
\* there alone.
CodeOf(ae, code, ee) ==
    IF ae # "none" \/ ee \/ rootErrs
    THEN IF code = 0 THEN 1 ELSE code
    ELSE Clamped(ownCode)

\* Mutant of Cleanup: the sweep looks at the teardown reason only.
CleanupSweeps(ae, code, ee) ==
    /\ pc' = "FIN"
    /\ exitCode' = CodeOf(ae, code, ee)
    /\ swept' = (ae = "none")

\* CLEANUP, which sweeps the cache directory only when nothing went wrong.
Cleanup(ae, code, ee) ==
    /\ pc' = "FIN"
    /\ exitCode' = CodeOf(ae, code, ee)
    /\ swept' = (ae = "none" /\ ~ee /\ ~rootErrs)

\* Mutant of WaitAgents: it is over when the agents are, whatever async statements do.
WaitAgentsOnly(ae, code, ee) ==
    /\ told' = IF ae # "none" /\ ~agentsDestroyed THEN told \cup RootAgents \cup waiting ELSE told
    /\ agentsDestroyed' = (agentsDestroyed \/ ae # "none")
    /\ CASE ae = "panic" /\ ExtLive = {} -> pc' = "ABORTED" /\ exitCode' = code /\ UNCHANGED swept
         [] ae # "panic" /\ RootAgents = {} -> Cleanup(ae, code, ee)
         [] OTHER -> pc' = "WAITAGENTS" /\ exitCode' = code /\ UNCHANGED swept

\* WAITAGENTS: with a teardown reason everyone on the root's list is told, once; ptsFireAndForget
\* passes it on to its body.  A panic aborts when no module process is left.
WaitAgents(ae, code, ee) ==
    /\ told' = IF ae # "none" /\ ~agentsDestroyed THEN told \cup RootAgents \cup waiting ELSE told
    /\ agentsDestroyed' = (agentsDestroyed \/ ae # "none")
    /\ CASE ae = "panic" /\ ExtLive = {} -> pc' = "ABORTED" /\ exitCode' = code /\ UNCHANGED swept
         [] ae # "panic" /\ RootQuiet -> Cleanup(ae, code, ee)
         [] OTHER -> pc' = "WAITAGENTS" /\ exitCode' = code /\ UNCHANGED swept

\* PARSE: the tree is there.  What a signal began destroys a tree that has started nothing.
Parsed ==
    /\ pc = "PARSE" /\ pc' = "EVAL" /\ at' = 1
    /\ treeDestroyed' = (agentError # "none")
    /\ pWoken' = FALSE
    /\ UNCHANGED <<prog, ownCode, exitCode, evalError, agentsDestroyed, swept, reasonVars, tree,
                   begun, jobVars>>

\* EVAL without a value yet: a teardown reason destroys the tree once.  The sequence passes it on to
\* the statement it waits for; a flush() has only the planner to pass it on to.
EvalWaits ==
    /\ pc = "EVAL" /\ pWoken /\ tree = "open" /\ pWoken' = FALSE
    /\ treeDestroyed' = (treeDestroyed \/ agentError # "none")
    /\ told' = IF ~treeDestroyed /\ treeDestroyed' /\ begun /\ prog[at] \in Job
               THEN told \cup {prog[at]} ELSE told
    /\ UNCHANGED <<prog, ownCode, pc, exitCode, evalError, agentsDestroyed, swept, reasonVars,
                   treeVars, job, promise, woken, waiting, rootErrs, panicked>>

\* The code EVAL leaves: 0 for exit, 1 for an error that finds none, 0 for a value that was not
\* interrupted.
EvalCode ==
    CASE tree = "exit" -> 0
      [] tree \in {"error", "fatal"} -> IF exitCode = 0 THEN 1 ELSE exitCode
      [] OTHER -> IF agentError = "none" THEN 0 ELSE exitCode

\* EVAL with the value of the tree; a fatal error is a teardown reason if there is none.
EvalDone ==
    /\ pc = "EVAL" /\ pWoken /\ tree # "open"
    /\ treeDestroyed' = (treeDestroyed \/ agentError # "none" \/ tree = "exit")
    /\ evalError' = (tree \in {"error", "fatal"})
    /\ IF tree = "fatal" /\ agentError = "none"
       THEN SetAgentError("fatal", 0)
       ELSE pWoken' = FALSE /\ UNCHANGED <<reasonVars, woken>>
    /\ WaitAgents(agentError', EvalCode, evalError')
    /\ UNCHANGED <<prog, ownCode, treeVars, job, promise, waiting, rootErrs, panicked>>

\* WAITAGENTS runs for a wakeup.
Waits ==
    /\ pc = "WAITAGENTS" /\ pWoken /\ pWoken' = FALSE
    /\ WaitAgents(agentError, exitCode, evalError)
    /\ UNCHANGED <<prog, ownCode, evalError, treeDestroyed, reasonVars, treeVars, job, promise,
                   woken, waiting, rootErrs, panicked>>

-----------------------------------------------------------------------------
Over == pc \in {"FIN", "ABORTED"}

Sequence == StartJob \/ StartFlush \/ StartStop \/ Resume \/ SequenceDone
Calculation(j) ==
    SaveBegin(j) \/ Complete(j) \/ Fail(j) \/ Abort(j) \/ Fold(j) \/ Panic(j) \/ AsyncEnds(j)
PlannerStep == Parsed \/ EvalWaits \/ EvalDone \/ Waits

Next ==
    /\ ~Over
    /\ \/ \E n \in Signal : Interrupt(n)
       \/ Sequence
       \/ \E j \in Job : Calculation(j)
       \/ PlannerStep

Spec == Init /\ [][Next]_vars

\* What ends by itself or because it was told to.
Ends(j) == j \notin Long \/ (j \in SystemJob /\ j \in told)

\* Every state machine that has an event runs.  A calculation that is long ends only when it is told
\* to, and a module that is stuck never has to come back, but the timer of its mediator fires.
FairSpec ==
    /\ Spec
    /\ WF_vars(~Over /\ Sequence) /\ WF_vars(~Over /\ PlannerStep)
    /\ \A j \in Job :
          /\ WF_vars(~Over /\ SaveBegin(j))
          /\ WF_vars(~Over /\ Ends(j) /\ Complete(j))
          /\ WF_vars(~Over /\ Abort(j)) /\ WF_vars(~Over /\ AsyncEnds(j))
          /\ WF_vars(~Over /\ job[j] = "fin" /\ Fold(j))
          /\ WF_vars(~Over /\ job[j] = "stuck" /\ Panic(j))

-----------------------------------------------------------------------------
(* Properties.                                                             *)

\* The planner never sleeps on something that has happened already: in WAITAGENTS someone is left
\* whose leaving will wake it (for a panic, a module process), and whatever it waits for, the
\* teardown that is under way has been passed on.
NoLostWake ==
    /\ pc = "WAITAGENTS" /\ ~pWoken =>
          /\ IF agentError = "panic" THEN ExtLive # {} ELSE ~RootQuiet
          /\ agentError # "none" => agentsDestroyed
    /\ pc = "EVAL" /\ ~pWoken =>
          tree = "open" /\ (agentError # "none" => treeDestroyed)

\* When the planner ends in the ordinary way nothing it started is left behind: no agent, no child
\* of system(), and no async statement; otherwise the sweep would delete files being written and
\* processes would outlive the program.  The abort of a panic leaves no module process behind.
NothingLeft ==
    /\ pc = "FIN" => Live = {} /\ waiting = {}
    /\ pc = "ABORTED" => ExtLive = {}

\* Somebody is told of a failure: the statement or async statement that waits, or the whole
\* program when the value was given already.
Heard == \/ \E j \in Job \ LazyJob : promise[j] = "err"
         \/ rootErrs \/ agentError # "none" \/ tree = "fatal"

\* The exit code is that of what went wrong: 128 and the number of the signal that began the
\* teardown, 1 for any other failure, and the program's own EXIT_CODE only when nothing failed.
\* (An exit that the signal's teardown comes before makes it 1.)
ExitCodeTells ==
    pc = "FIN" =>
        CASE agentError = "signal" -> exitCode = 128 + signo \/ (tree = "exit" /\ exitCode = 1)
          [] agentError # "signal" /\ Heard -> exitCode = 1
          [] OTHER -> exitCode = Clamped(ownCode)

\* The exit sweep deletes what the run has not used, so it runs only after an evaluation that
\* reached its end with nothing failed.
SweepOnlyWhole == swept => ~Heard /\ (at > Len(prog) \/ tree = "exit") /\ Live = {}

\* What a teardown does not reach: EVAL destroys the tree once, and the sequence passes that on
\* once, to its current statement.  The status of a system() that was killed is a value, so the
\* sequence goes on, and a system() that it starts then is told by nobody; nor is, while EVAL lasts,
\* the one in an async statement that a flush() waits for.
Unreached ==
    /\ pc = "EVAL" /\ treeDestroyed /\ begun
    /\ \E j \in (SystemJob \cap Long) \ told :
          job[j] = "run" /\ (prog[at] = j \/ (prog[at] = Flush /\ j \in waiting))

\* Once a module has not folded within its panic time the program aborts, although the panic comes
\* into a teardown that has a reason already; only a system() that nobody tells can hold it up.
PanicFires == panicked # {} ~> (pc = "ABORTED" \/ Unreached)

\* A program that is torn down ends, whatever it was doing, unless its sequence waits for a long
\* system() that the one destroy of EVAL has not reached (cgptsPlanner EVAL, pigfSequence).
TeardownEnds == agentError # "none" ~> (Over \/ Unreached)
=============================================================================
