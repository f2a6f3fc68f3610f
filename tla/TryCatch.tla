------------------------------ MODULE TryCatch ------------------------------
(***************************************************************************)
(* A try / catch of the language: the state machine that evaluates it      *)
(* (pigfTryCatch.cpp), the wait list and the queue of errors of its node   *)
(* (pigfOps.cpp), and the calculations that belong to it: agents and async *)
(* statements (pigfAgent.cpp, ptsFireAndForget.cpp).                       *)
(*                                                                         *)
(* The statements of the body and of the catch are any sequence of starts  *)
(* of calculations, flush(), error() and destroy() calls and evaluations   *)
(* of something else, which end with a value, an error or a control signal *)
(* (break, return, ...).                                                   *)
(***************************************************************************)
EXTENDS Naturals, Sequences, FiniteSets

CONSTANTS
    Job,      \* the calculations the statements may start
    Async,    \* those that are async statements; the others are agents
    Flusher,  \* the async statements that may call flush()
    Body,     \* the error of the body itself, as opposed to one of a calculation
    NoError

ASSUME JobAssumption ==
    /\ IsFiniteSet(Job)
    /\ Flusher \subseteq Async /\ Async \subseteq Job
    /\ Body \notin Job /\ NoError \notin Job \cup {Body}

VARIABLES
    pc,          \* the state function of pigfTryCatch
    eval,        \* what the statement it evaluates is doing
    tcErr,       \* the error the catch is run for
    tcOut,       \* the value of the try / catch
    tcDestroyed, \* a destroy was passed on to the statement
    hasCatch,
    destroyed,   \* is_destroyed()
    woken,       \* the state machine has an event to run for
    job,         \* the calculations
    told,        \* those that were told to tear down
    errs,        \* the errors in the order they came: whose they are
    errTaken,    \* how many of them error() has read
    saidNone     \* error() has answered 0, and nothing was started since

machineVars == <<pc, tcErr, tcOut, tcDestroyed, hasCatch, destroyed, woken>>
queueVars   == <<errs, errTaken, saidNone>>
vars == <<machineVars, eval, job, told, queueVars>>

Live == {j \in Job : job[j] \in {"live", "failed", "flush"}}
Unread == errTaken < Len(errs)

TypeOK ==
    /\ pc \in {"INI", "START", "WAITBODY", "CATCH", "WAIT", "DONE"}
    /\ eval \in {"run", "flush", "flushed", "error", "answered"}
    /\ tcErr \in Job \cup {Body, NoError}
    /\ tcOut \in {"none", "val", "err", "ctl"}
    /\ tcDestroyed \in BOOLEAN /\ hasCatch \in BOOLEAN
    /\ destroyed \in BOOLEAN /\ woken \in BOOLEAN /\ saidNone \in BOOLEAN
    /\ job \in [Job -> {"new", "live", "failed", "flush", "left"}]
    /\ told \subseteq Job
    /\ errs \in Seq(Job \cup {Body})
    /\ errTaken \in 0..Len(errs)

Init ==
    /\ pc = "INI" /\ eval = "run"
    /\ tcErr = NoError /\ tcOut = "none"
    /\ tcDestroyed = FALSE /\ hasCatch \in BOOLEAN
    /\ destroyed = FALSE /\ woken = TRUE
    /\ job = [j \in Job |-> "new"] /\ told = {}
    /\ errs = <<>> /\ errTaken = 0 /\ saidNone = FALSE

-----------------------------------------------------------------------------
(* The state machine.  States entered with rDO run in the same step.       *)

\* destroy_agents: everyone who is on the wait list now.
TellAll == told' = told \cup Live

\* Mutant of EnterWait: the wait list is not asked.
EnterWaitUnasked(out) == tcOut' = out /\ pc' = "DONE"

\* ACT_WAIT: the value is given once the wait list is empty.
EnterWait(out) ==
    /\ tcOut' = out
    /\ pc' = IF Live = {} THEN "DONE" ELSE "WAIT"

\* ACT_CATCH for the error e: without a catch the error is the value; with one the second
\* statement runs.
EnterCatch(e) ==
    /\ tcErr' = e
    /\ IF hasCatch THEN pc' = "CATCH" /\ UNCHANGED tcOut ELSE EnterWait("err")

\* Mutant of PassOn: the wait list is told only once, as the statement is.
PassOnOnce == IF destroyed /\ told = {} THEN TellAll ELSE UNCHANGED told

\* Told to tear down, the waiting states pass it on to the wait list,
PassOn == IF destroyed THEN TellAll ELSE UNCHANGED told

\* and the evaluating ones to their statement, once for body and catch together.
TellStatement == tcDestroyed' = (tcDestroyed \/ destroyed)

\* The event a step runs for is used up, or one of before it is still to come.
MaybeWoken == woken' \in {FALSE, woken}

\* Mutant of WaitBody: the wait list is looked at before the errors.
WaitBodyListFirst ==
    CASE Live = {} -> EnterWait("val") /\ UNCHANGED <<tcErr, told>>
      [] Live # {} /\ Unread ->
            EnterCatch(errs[errTaken + 1]) /\ IF hasCatch THEN PassOn ELSE TellAll
      [] OTHER -> pc' = "WAITBODY" /\ tcOut' = "val" /\ PassOn /\ UNCHANGED tcErr

\* ACT_WAITBODY, with the errors that are there.
WaitBody ==
    CASE Unread -> EnterCatch(errs[errTaken + 1]) /\ IF hasCatch THEN PassOn ELSE TellAll
      [] ~Unread /\ Live = {} -> EnterWait("val") /\ UNCHANGED <<tcErr, told>>
      [] OTHER -> pc' = "WAITBODY" /\ tcOut' = "val" /\ PassOn /\ UNCHANGED tcErr

Ini ==
    /\ pc = "INI" /\ pc' = "START"
    /\ UNCHANGED <<eval, tcErr, tcOut, tcDestroyed, hasCatch, destroyed, woken, job, told,
                   queueVars>>

\* The body ends with a control signal, an error or a value.
BodyEnds ==
    /\ pc = "START" /\ eval = "run"
    /\ \/ /\ EnterWait("ctl") /\ PassOn
          /\ UNCHANGED <<tcErr, errs>>
       \/ /\ errs' = Append(errs, Body)
          /\ EnterCatch(Body)
          /\ IF hasCatch THEN UNCHANGED told ELSE TellAll
       \/ WaitBody /\ UNCHANGED errs
    /\ TellStatement /\ MaybeWoken
    /\ UNCHANGED <<eval, hasCatch, destroyed, job, errTaken, saidNone>>

\* The catch ends: what is no plain value tears the wait list down.
CatchEnds ==
    /\ pc = "CATCH" /\ eval = "run"
    /\ \E out \in {"val", "err", "ctl"} :
          /\ EnterWait(out)
          /\ IF out = "val" THEN PassOn ELSE TellAll
    /\ TellStatement /\ MaybeWoken
    /\ UNCHANGED <<eval, tcErr, hasCatch, destroyed, job, queueVars>>

\* An event runs a state that waits.
Run ==
    /\ woken /\ woken' = FALSE
    /\ \/ /\ pc \in {"START", "CATCH"}   \* the statement is told, once, and goes on
          /\ TellStatement
          /\ UNCHANGED <<pc, tcErr, tcOut, told>>
       \/ /\ pc = "WAITBODY" /\ WaitBody
          /\ IF Unread /\ hasCatch THEN TellStatement ELSE UNCHANGED tcDestroyed
       \/ pc = "WAIT" /\ PassOn /\ EnterWait(tcOut) /\ UNCHANGED <<tcErr, tcDestroyed>>
    /\ UNCHANGED <<eval, hasCatch, destroyed, job, queueVars>>

\* destroy() of the try: by an outer try or the planner, or through the node of a flush()
\* in an async statement that is told, whose helper is the try itself.
Destroy ==
    /\ pc \notin {"INI", "DONE"} /\ ~destroyed
    /\ destroyed' = TRUE /\ woken' = TRUE
    /\ UNCHANGED <<pc, tcErr, tcOut, tcDestroyed, hasCatch, eval, job, told, queueVars>>

-----------------------------------------------------------------------------
(* What a statement does between its start and its end.                    *)

InStatement == pc \in {"START", "CATCH"} /\ eval = "run"

\* agent_enter.
Enter(j) ==
    /\ job[j] = "new" /\ job' = [job EXCEPT ![j] = "live"]
    /\ saidNone' = FALSE

Start(j) ==
    /\ InStatement /\ Enter(j)
    /\ UNCHANGED <<machineVars, eval, told, errs, errTaken>>

\* flush() with calculations on the wait list registers with the node.
CallFlush ==
    /\ InStatement /\ Live # {}
    /\ eval' = "flush"
    /\ UNCHANGED <<machineVars, job, told, queueVars>>

\* error() reads the next error, or says that there are none, or registers.
CallError ==
    /\ InStatement /\ pc = "CATCH"
    /\ CASE Unread -> errTaken' = errTaken + 1 /\ UNCHANGED <<eval, saidNone>>
         [] ~Unread /\ Live = {} -> saidNone' = TRUE /\ UNCHANGED <<eval, errTaken>>
         [] OTHER -> eval' = "error" /\ UNCHANGED <<errTaken, saidNone>>
    /\ UNCHANGED <<machineVars, job, told, errs>>

\* destroy() called by the statement.
CallDestroy ==
    /\ InStatement /\ TellAll
    /\ UNCHANGED <<machineVars, eval, job, queueVars>>

\* The statement goes on with the answer it was given.
Resume ==
    /\ eval \in {"flushed", "answered"} /\ eval' = "run"
    /\ UNCHANGED <<machineVars, job, told, queueVars>>

-----------------------------------------------------------------------------
(* The calculations.                                                       *)

\* Mutant of WakeWaiters: those who wait are answered, the state machine is not woken.
WakeWaitersOnly ==
    /\ UNCHANGED woken
    /\ CASE eval = "error" /\ errTaken < Len(errs') ->
              eval' = "answered" /\ errTaken' = errTaken + 1 /\ UNCHANGED saidNone
         [] eval = "error" /\ ~(errTaken < Len(errs')) /\ Live' = {} ->
              eval' = "answered" /\ saidNone' = TRUE /\ UNCHANGED errTaken
         [] eval = "flush" /\ Live' = {} ->
              eval' = "flushed" /\ UNCHANGED <<errTaken, saidNone>>
         [] OTHER -> UNCHANGED <<eval, errTaken, saidNone>>

\* wake_waiters, with the jobs and errors as they are after the step: answer the error()
\* and the flush() that wait, if they can be answered, and wake the state machine.
WakeWaiters ==
    /\ woken' = TRUE
    /\ CASE eval = "error" /\ errTaken < Len(errs') ->
              eval' = "answered" /\ errTaken' = errTaken + 1 /\ UNCHANGED saidNone
         [] eval = "error" /\ ~(errTaken < Len(errs')) /\ Live' = {} ->
              eval' = "answered" /\ saidNone' = TRUE /\ UNCHANGED errTaken
         [] eval = "flush" /\ Live' = {} ->
              eval' = "flushed" /\ UNCHANGED <<errTaken, saidNone>>
         [] OTHER -> UNCHANGED <<eval, errTaken, saidNone>>

\* agent_leave of a calculation that has nothing to report.
Leave(j) ==
    /\ job[j] \in {"live", "failed"} /\ job' = [job EXCEPT ![j] = "left"]
    /\ UNCHANGED errs
    /\ WakeWaiters
    /\ UNCHANGED <<pc, tcErr, tcOut, tcDestroyed, hasCatch, destroyed, told>>

\* Mutant of AsyncFails: it leaves first and hands its error over after that.
AsyncFailsLate(j) ==
    /\ j \in Async /\ job[j] = "live"
    /\ job' = [job EXCEPT ![j] = "left"]
    /\ errs' = Append(errs, j)
    /\ woken' = TRUE
    /\ IF eval \in {"flush", "error"} /\ ~Unread /\ Live = {j}
       THEN /\ eval' = IF eval = "flush" THEN "flushed" ELSE "answered"
            /\ saidNone' = (saidNone \/ eval = "error")
       ELSE UNCHANGED <<eval, saidNone>>
    /\ UNCHANGED errTaken
    /\ UNCHANGED <<pc, tcErr, tcOut, tcDestroyed, hasCatch, destroyed, told>>

\* An async statement hands its error to the try and leaves in one go.
AsyncFails(j) ==
    /\ j \in Async /\ job[j] = "live"
    /\ job' = [job EXCEPT ![j] = "left"]
    /\ errs' = Append(errs, j)
    /\ WakeWaiters
    /\ UNCHANGED <<pc, tcErr, tcOut, tcDestroyed, hasCatch, destroyed, told>>

\* An agent fails after it handed its result over; it leaves when its process has gone.
AgentFails(j) ==
    /\ j \notin Async /\ job[j] = "live"
    /\ job' = [job EXCEPT ![j] = "failed"]
    /\ errs' = Append(errs, j)
    /\ WakeWaiters
    /\ UNCHANGED <<pc, tcErr, tcOut, tcDestroyed, hasCatch, destroyed, told>>

\* An async statement starts another calculation of the same try.
Spawn(j, k) ==
    /\ j \in Async /\ job[j] = "live" /\ Enter(k)
    /\ UNCHANGED <<machineVars, eval, told, errs, errTaken>>

\* An async statement flushes the try it belongs to: it waits for itself, too.
FlushInside(j) ==
    /\ j \in Flusher /\ job[j] = "live"
    /\ job' = [job EXCEPT ![j] = "flush"]
    /\ UNCHANGED <<machineVars, eval, told, queueVars>>

-----------------------------------------------------------------------------

Machine == Ini \/ Run \/ BodyEnds \/ CatchEnds \/ Resume
Calls == (\E j \in Job : Start(j)) \/ CallFlush \/ CallError \/ CallDestroy
Work(j) == Leave(j) \/ AsyncFails(j) \/ AgentFails(j)

Next ==
    \/ Machine \/ Calls \/ Destroy
    \/ \E j \in Job : Work(j) \/ FlushInside(j) \/ \E k \in Job : Spawn(j, k)
    \/ pc = "DONE" /\ UNCHANGED vars

Spec == Init /\ [][Next]_vars

\* Events are dispatched, a statement ends unless it waits in flush() or error(), and a
\* calculation ends when it is told to; one that is not told may take for ever.
Fairness ==
    /\ WF_vars(Ini) /\ WF_vars(Run) /\ WF_vars(BodyEnds) /\ WF_vars(CatchEnds)
    /\ WF_vars(Resume)
    /\ \A j \in Job : WF_vars(j \in told /\ Work(j))

FairSpec == Spec /\ Fairness

-----------------------------------------------------------------------------
(* Safety.                                                                 *)

\* A try is a barrier: nothing that belongs to it runs when it gives its value, also what
\* an async statement of it started late (srava_language_reference.md:158-166); and so is
\* flush(), in the body and in the catch.
Barrier == pc = "DONE" \/ eval = "flushed" => Live = {}

\* A try that ends with the value of its body has missed no error of a calculation: one
\* that comes after the body ended still runs the catch.
NoErrorMissed == pc = "DONE" /\ tcOut = "val" /\ tcErr = NoError => errs = <<>>

\* When error() says 0, no error comes any more of what was started before.
ZeroIsFinal == saidNone => ~Unread

(* Liveness.                                                               *)

\* If the calculations end, so does the try, whatever its statements waited for.
EndsWithJobs ==
    (\A j \in Job : job[j] # "new" ~> job[j] = "left") => <>(pc = "DONE")

\* A destroyed try that waits for its list ends, or its catch runs for an error that came;
\* what an async statement started after the try was told is told, too.  Only an async
\* statement that waits for itself in flush() holds it up.
DestroyEnds ==
    destroyed /\ pc \in {"WAITBODY", "WAIT"}
        ~> pc \in {"CATCH", "DONE"} \/ \E j \in Job : job[j] = "flush"

-----------------------------------------------------------------------------
(* What the manual says, and the code does not do.                         *)

\* srava_language_reference.md:187: a destroy reaches what runs inside, also in the async
\* statements of an inner try.
DestroyReaches ==
    \A j \in Job : destroyed /\ job[j] = "live" ~> j \in told \/ job[j] = "left"
=============================================================================
