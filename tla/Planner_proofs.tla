--------------------------- MODULE Planner_proofs ---------------------------
(***************************************************************************)
(* Proofs about Planner, for any programs over any calculations.           *)
(*                                                                         *)
(* The properties look at the planner and at all calculations at once.     *)
(* What makes them inductive is who waits for what: a calculation that has *)
(* not given its value is awaited by the sequence or by an async statement *)
(* (Held), an error that was given is on its way to somebody (Carried),    *)
(* and the exit code follows from the teardown reason alone (Coded).       *)
(***************************************************************************)
EXTENDS Planner, TLAPS

\* Where the sequence is while the planner is in which state.
Placed ==
    /\ pc = "PARSE" => tree = "open" /\ at = 0 /\ begun = FALSE
    /\ pc # "PARSE" => at >= 1
    /\ pc \notin {"PARSE", "EVAL"} => tree # "open"
    /\ begun => at \in 1..Len(prog) /\ prog[at] \notin AsyncJob \cup LazyJob
    /\ tree = "value" => at > Len(prog)

\* The statements ahead have not been started.
Fresh ==
    \A i \in 1..Len(prog) :
        prog[i] \in Job /\ (i > at \/ (i = at /\ ~begun)) => job[prog[i]] = "new"

\* The life of a calculation and what it has given.
Given ==
    \A j \in Job :
        /\ job[j] = "new" => promise[j] = "open"
        /\ job[j] = "run" => promise[j] # "err"
        /\ j \in SystemJob /\ job[j] # "gone" => promise[j] = "open" /\ job[j] \in {"new", "run"}

Awaited(j) == j \in waiting \/ (begun /\ tree = "open" /\ prog[at] = j)

\* Whoever has to wait for a calculation is still there.
Held ==
    \A j \in Live \ LazyJob :
        promise[j] = "open" \/ j \in TryJob \cup SystemJob => Awaited(j)

\* An error that was given is still on its way, or has arrived.
Carried ==
    /\ \A j \in Job \ LazyJob : promise[j] = "err" =>
          Awaited(j) \/ rootErrs \/ agentError # "none" \/ tree = "error"
    /\ tree = "error" => \E j \in Job \ LazyJob : promise[j] = "err"

\* What the exit code ec owes to the teardown reason ae, the signal n and a failed evaluation ee.
Explained(ae, n, ec, ee) ==
    /\ ee = (tree \in {"error", "fatal"})
    /\ ae = "none" => tree # "fatal" /\ ec = IF ee THEN 1 ELSE 0
    /\ ae \in {"fatal", "late"} => ec \in {0, 1}
    /\ ae = "signal" => n \in Signal /\ (ec = 128 + n \/ (tree = "exit" /\ ec = 0))

\* The exit code, before the tree has a value and until CLEANUP.
Coded ==
    /\ pc # "FIN" => swept = FALSE
    /\ pc \in {"PARSE", "EVAL"} =>
          /\ evalError = FALSE /\ agentError # "fatal"
          /\ agentError \in {"none", "late"} => exitCode = 0
          /\ agentError = "signal" => signo \in Signal /\ exitCode = 128 + signo
    /\ pc = "WAITAGENTS" => Explained(agentError, signo, exitCode, evalError)

IInv == TypeOK /\ Placed /\ Fresh /\ Given /\ Held /\ Carried /\ Coded

-----------------------------------------------------------------------------
(* The statements of a program, and what the helpers do.                   *)

\* A statement of a program is a calculation or one of the three others.
LEMMA Statement ==
    ASSUME TypeOK, NEW i \in 1..Len(prog)
    PROVE  prog[i] \in Job \cup {Flush, Exit, Fatal}
BY ProgAssumption DEF TypeOK

\* The length of a program is a natural number.
LEMMA Length == ASSUME prog \in Progs PROVE Len(prog) \in Nat
BY ProgAssumption

\* The code that CLEANUP leaves is that of a process.
LEMMA CodeRange ==
    ASSUME TypeOK, NEW ae, NEW code \in 0..255, NEW ee
    PROVE  CodeOf(ae, code, ee) \in 0..255
<1>1. ownCode \in Int
  BY CodeAssumption DEF TypeOK
<1>2. Clamped(ownCode) \in 0..255
  BY <1>1 DEF Clamped
<1> QED
  BY <1>2 DEF CodeOf

LEMMA TypeInit == Init => TypeOK
<1> SUFFICES ASSUME Init PROVE TypeOK
  OBVIOUS
<1>1. at \in 0..(Len(prog) + 1)
  BY Length DEF Init
<1>2. /\ job \in [Job -> {"new", "run", "fin", "stuck", "gone"}]
      /\ promise \in [Job -> {"open", "ok", "err"}]
  BY DEF Init
<1>3. /\ pc \in {"PARSE", "EVAL", "WAITAGENTS", "FIN", "ABORTED"}
      /\ tree \in {"open", "value", "error", "fatal", "exit"}
      /\ agentError \in {"none", "signal", "fatal", "late", "panic"}
      /\ signo \in Signal \cup {0} /\ exitCode \in 0..255
  BY DEF Init
<1>4. /\ begun \in BOOLEAN /\ pWoken \in BOOLEAN /\ evalError \in BOOLEAN /\ swept \in BOOLEAN
      /\ rootErrs \in BOOLEAN /\ treeDestroyed \in BOOLEAN /\ agentsDestroyed \in BOOLEAN
  BY Zenon DEF Init
<1> QED
  BY <1>1, <1>2, <1>3, <1>4, Zenon DEF Init, TypeOK

\* The teardown reason that an error leaves.
LEMMA ReasonType ==
    ASSUME TypeOK, NEW e \in {"signal", "fatal", "late", "panic"}, NEW n \in Signal \cup {0},
           SetAgentError(e, n)
    PROVE  /\ agentError' \in {"none", "signal", "fatal", "late", "panic"}
           /\ signo' \in Signal \cup {0}
           /\ woken' \subseteq Job
           /\ pWoken' \in BOOLEAN
<1>1. agentError' \in {"none", "signal", "fatal", "late", "panic"} /\ signo' \in Signal \cup {0}
  BY DEF SetAgentError, Reason, TypeOK
<1>2. woken' \subseteq Job
  BY DEF SetAgentError, TypeOK, RootAgents, Live, Agent
<1>3. pWoken' \in BOOLEAN
  BY DEF SetAgentError
<1> QED
  BY <1>1, <1>2, <1>3

LEMMA WaitAgentsType ==
    ASSUME TypeOK, NEW ae, NEW code \in 0..255, NEW ee, WaitAgents(ae, code, ee)
    PROVE  /\ told' \subseteq Job
           /\ pc' \in {"PARSE", "EVAL", "WAITAGENTS", "FIN", "ABORTED"}
           /\ exitCode' \in 0..255
           /\ swept' \in BOOLEAN /\ agentsDestroyed' \in BOOLEAN
<1>1. told' \subseteq Job
  BY JobAssumption DEF WaitAgents, TypeOK, RootAgents, Live, Agent
<1>2. pc' \in {"PARSE", "EVAL", "WAITAGENTS", "FIN", "ABORTED"} /\ exitCode' \in 0..255
  BY CodeRange DEF WaitAgents, Cleanup
<1>3. swept' \in BOOLEAN
  <2>1. swept' = swept \/ Cleanup(ae, code, ee)
    BY DEF WaitAgents
  <2> QED
    BY <2>1, Zenon DEF Cleanup, TypeOK
<1>4. agentsDestroyed' \in BOOLEAN
  BY Zenon DEF WaitAgents
<1> QED
  BY <1>1, <1>2, <1>3, <1>4

LEMMA TypeStep == ASSUME TypeOK, Placed, [Next]_vars PROVE TypeOK'
<1> USE DEF TypeOK, plannerVars, reasonVars, treeVars, jobVars, seqFrame, jobFrame
<1>0. Len(prog) \in Nat
  BY Length
<1>1. ASSUME NEW n \in Signal, Interrupt(n) PROVE TypeOK'
  BY <1>1, CodeAssumption DEF Interrupt, SetAgentError, Reason, RootAgents, Live, Agent
<1>2. ASSUME StartJob PROVE TypeOK'
  <2>1. at' \in 0..(Len(prog) + 1) /\ tree' = tree /\ pWoken' = pWoken
    BY <1>0, <1>2 DEF StartJob, NextStatement, Await, Evaluating
  <2>2. begun' \in BOOLEAN
    BY <1>2, Zenon DEF StartJob, NextStatement, Await
  <2>3. /\ job' \in [Job -> {"new", "run", "fin", "stuck", "gone"}]
        /\ promise' \in [Job -> {"open", "ok", "err"}]
    BY <1>2 DEF StartJob, Birth
  <2>4. waiting' \subseteq AsyncJob /\ UNCHANGED seqFrame
    BY <1>2 DEF StartJob
  <2> QED
    BY <2>1, <2>2, <2>3, <2>4
<1>3. ASSUME StartFlush PROVE TypeOK'
  <2>1. at' \in 0..(Len(prog) + 1) /\ tree' = tree /\ pWoken' = pWoken
    BY <1>0, <1>3 DEF StartFlush, NextStatement, Await, Evaluating
  <2>2. begun' \in BOOLEAN
    BY <1>3, Zenon DEF StartFlush, NextStatement, Await
  <2>3. UNCHANGED <<seqFrame, job, promise, waiting>>
    BY <1>3 DEF StartFlush
  <2> QED
    BY <2>1, <2>2, <2>3
<1>4. ASSUME StartStop PROVE TypeOK'
  BY <1>4 DEF StartStop, Give
<1>5. ASSUME Resume PROVE TypeOK'
  <2>0. UNCHANGED <<seqFrame, job, promise, waiting>>
    BY <1>5 DEF Resume
  <2>1. CASE NextStatement
    <3>1. at' \in 0..(Len(prog) + 1) /\ tree' = tree /\ pWoken' = pWoken
      BY <1>5, <2>1, <1>0 DEF Resume, NextStatement, Evaluating, Placed
    <3>2. begun' \in BOOLEAN
      BY <2>1, Zenon DEF NextStatement
    <3> QED
      BY <3>1, <2>0, <3>2
  <2>2. CASE Give("error")
    BY <2>0, <2>2 DEF Give
  <2> QED
    BY <1>5, <2>1, <2>2 DEF Resume
<1>6. ASSUME SequenceDone PROVE TypeOK'
  BY <1>6 DEF SequenceDone, Give
<1>7. ASSUME NEW j \in Job, SaveBegin(j) PROVE TypeOK'
  BY <1>7 DEF SaveBegin
<1>8. ASSUME NEW j \in Job, Complete(j) PROVE TypeOK'
  BY <1>8 DEF Complete, Gone
<1>9. ASSUME NEW j \in Job, Fail(j) PROVE TypeOK'
  <2>1. /\ agentError' \in {"none", "signal", "fatal", "late", "panic"}
        /\ signo' \in Signal \cup {0} /\ woken' \subseteq Job
    <3>1. CASE SetAgentError("late", 0)
      BY <3>1, ReasonType
    <3>2. CASE UNCHANGED <<reasonVars, woken>>
      BY <3>2
    <3> QED
      BY <1>9, <3>1, <3>2 DEF Fail
  <2>2. pWoken' \in BOOLEAN /\ rootErrs' \in BOOLEAN
    BY <1>9, Zenon DEF Fail, SetAgentError
  <2>3. /\ job' \in [Job -> {"new", "run", "fin", "stuck", "gone"}]
        /\ promise' \in [Job -> {"open", "ok", "err"}]
    BY <1>9 DEF Fail
  <2>4. UNCHANGED <<jobFrame, panicked>>
    BY <1>9 DEF Fail
  <2> QED
    BY <2>1, <2>2, <2>3, <2>4
<1>10. ASSUME NEW j \in Job, Abort(j) PROVE TypeOK'
  BY <1>10 DEF Abort
<1>11. ASSUME NEW j \in Job, Fold(j) PROVE TypeOK'
  BY <1>11 DEF Fold, Gone
<1>12. ASSUME NEW j \in Job, Panic(j) PROVE TypeOK'
  BY <1>12, JobAssumption DEF Panic, SetAgentError, Reason, RootAgents, Live, Agent
<1>13. ASSUME NEW j \in Job, AsyncEnds(j) PROVE TypeOK'
  BY <1>13 DEF AsyncEnds
<1>14. ASSUME Parsed PROVE TypeOK'
  <2>1. at' \in 0..(Len(prog) + 1) /\ pc' \in {"PARSE", "EVAL", "WAITAGENTS", "FIN", "ABORTED"}
    BY <1>14, <1>0 DEF Parsed
  <2>2. pWoken' \in BOOLEAN /\ treeDestroyed' \in BOOLEAN
    BY <1>14, Zenon DEF Parsed
  <2>3. UNCHANGED <<prog, ownCode, exitCode, evalError, agentsDestroyed, swept, reasonVars, tree,
                   begun, jobVars>>
    BY <1>14 DEF Parsed
  <2> QED
    BY <2>1, <2>2, <2>3
<1>15. ASSUME EvalWaits PROVE TypeOK'
  BY <1>15 DEF EvalWaits
<1>16. ASSUME EvalDone PROVE TypeOK'
  <2>1. /\ agentError' \in {"none", "signal", "fatal", "late", "panic"}
        /\ signo' \in Signal \cup {0} /\ woken' \subseteq Job
    <3>1. CASE SetAgentError("fatal", 0)
      BY <3>1, ReasonType
    <3>2. CASE UNCHANGED <<reasonVars, woken>>
      BY <3>2
    <3>3. SetAgentError("fatal", 0) \/ UNCHANGED <<reasonVars, woken>>
      BY <1>16, Zenon DEF EvalDone
    <3> QED
      BY <3>1, <3>2, <3>3
  <2>2. pWoken' \in BOOLEAN /\ treeDestroyed' \in BOOLEAN /\ evalError' \in BOOLEAN
    <3>1. pWoken' = TRUE \/ pWoken' = FALSE
      BY <1>16, Zenon DEF EvalDone, SetAgentError
    <3>2. treeDestroyed' = TRUE \/ treeDestroyed' = FALSE
      BY <1>16 DEF EvalDone
    <3>3. evalError' = TRUE \/ evalError' = FALSE
      BY <1>16 DEF EvalDone
    <3> QED
      BY <3>1, <3>2, <3>3
  <2>3. EvalCode \in 0..255
    BY DEF EvalCode
  <2>4. WaitAgents(agentError', EvalCode, evalError')
    BY <1>16 DEF EvalDone
  <2>5. UNCHANGED <<prog, ownCode, treeVars, job, promise, waiting, rootErrs, panicked>>
    BY <1>16 DEF EvalDone
  <2>6. /\ told' \subseteq Job
        /\ pc' \in {"PARSE", "EVAL", "WAITAGENTS", "FIN", "ABORTED"}
        /\ exitCode' \in 0..255
        /\ swept' \in BOOLEAN /\ agentsDestroyed' \in BOOLEAN
    BY <2>3, <2>4, WaitAgentsType, Zenon
  <2> QED
    BY <2>1, <2>2, <2>5, <2>6
<1>17. ASSUME Waits PROVE TypeOK'
  <2>1. exitCode \in 0..255 /\ WaitAgents(agentError, exitCode, evalError)
    BY <1>17 DEF Waits
  <2>2. pWoken' = FALSE
    BY <1>17 DEF Waits
  <2>3. UNCHANGED <<prog, ownCode, evalError, treeDestroyed, reasonVars, treeVars, job, promise,
                    woken, waiting, rootErrs, panicked>>
    BY <1>17 DEF Waits
  <2>4. pWoken' \in BOOLEAN
    BY <2>2, Zenon
  <2>5. /\ told' \subseteq Job
        /\ pc' \in {"PARSE", "EVAL", "WAITAGENTS", "FIN", "ABORTED"}
        /\ exitCode' \in 0..255
        /\ swept' \in BOOLEAN /\ agentsDestroyed' \in BOOLEAN
    BY <2>1, WaitAgentsType, Zenon
  <2> QED
    BY <2>3, <2>4, <2>5
<1>18. ASSUME UNCHANGED vars PROVE TypeOK'
  BY <1>18 DEF vars
<1> QED
  BY <1>1, <1>2, <1>3, <1>4, <1>5, <1>6, <1>7, <1>8, <1>9, <1>10, <1>11, <1>12, <1>13, <1>14, <1>15, <1>16, <1>17, <1>18 DEF Next, Sequence, Calculation, PlannerStep

-----------------------------------------------------------------------------
(* The parts of the inductive invariant.                                   *)

LEMMA PlacedInit == Init => Placed
BY DEF Init, Placed

LEMMA PlacedStep == ASSUME TypeOK, Placed, Next PROVE Placed'
<1> USE DEF Placed, plannerVars, reasonVars, treeVars, jobVars, seqFrame, jobFrame
<1>0. Len(prog) \in Nat /\ at \in Int
  BY Length DEF TypeOK
<1>1. ASSUME NEW n \in Signal, Interrupt(n) PROVE Placed'
  BY <1>1 DEF Interrupt
<1>2. ASSUME StartJob PROVE Placed'
  BY <1>0, <1>2 DEF StartJob, NextStatement, Await, Evaluating
<1>3. ASSUME StartFlush PROVE Placed'
  BY <1>0, <1>3, JobAssumption, ProgAssumption DEF StartFlush, NextStatement, Await, Evaluating
<1>4. ASSUME StartStop PROVE Placed'
  BY <1>0, <1>4 DEF StartStop, Give, Evaluating
<1>5. ASSUME Resume PROVE Placed'
  <2>1. pc = "EVAL" /\ tree = "open" /\ begun /\ UNCHANGED <<prog, pc>>
    BY <1>5 DEF Resume, Evaluating
  <2>2. CASE NextStatement
    BY <1>0, <2>1, <2>2 DEF NextStatement
  <2>3. CASE Give("error")
    BY <2>1, <2>3 DEF Give
  <2> QED
    BY <1>5, <2>2, <2>3 DEF Resume
<1>6. ASSUME SequenceDone PROVE Placed'
  BY <1>0, <1>6 DEF SequenceDone, Give, Evaluating
<1>7. ASSUME NEW j \in Job, Calculation(j) PROVE Placed'
  <2>1. UNCHANGED <<prog, pc, treeVars>>
    BY <1>7 DEF Calculation, SaveBegin, Complete, Fail, Abort, Fold, Panic, AsyncEnds
  <2> QED
    BY <2>1
<1>8. ASSUME Parsed PROVE Placed'
  BY <1>0, <1>8 DEF Parsed
<1>9. ASSUME EvalWaits PROVE Placed'
  BY <1>9 DEF EvalWaits
<1>10. ASSUME EvalDone PROVE Placed'
  <2>1. pc = "EVAL" /\ tree # "open" /\ UNCHANGED <<prog, treeVars>>
    BY <1>10 DEF EvalDone
  <2>2. pc' # "PARSE"
    BY <1>10 DEF EvalDone, WaitAgents, Cleanup
  <2> QED
    BY <2>1, <2>2
<1>11. ASSUME Waits PROVE Placed'
  <2>1. pc = "WAITAGENTS" /\ UNCHANGED <<prog, treeVars>>
    BY <1>11 DEF Waits
  <2>2. pc' # "PARSE"
    BY <1>11 DEF Waits, WaitAgents, Cleanup
  <2> QED
    BY <2>1, <2>2
<1> QED
  BY <1>1, <1>2, <1>3, <1>4, <1>5, <1>6, <1>7, <1>8, <1>9, <1>10, <1>11 DEF Next, Sequence, PlannerStep

LEMMA FreshInit == Init => Fresh
BY Statement, TypeInit DEF Init, Fresh

LEMMA FreshStep == ASSUME TypeOK, Placed, Fresh, Next PROVE Fresh'
<1> USE DEF Fresh
<1>0. Len(prog) \in Nat /\ at \in Int
  BY Length DEF TypeOK
<1>1. ASSUME UNCHANGED <<prog, at, begun, job>> PROVE Fresh'
  BY <1>1
<1>2. ASSUME StartJob PROVE Fresh'
  <2> SUFFICES ASSUME NEW i \in 1..Len(prog), prog[i] \in Job, i > at' \/ (i = at' /\ ~begun')
               PROVE  job'[prog[i]] = "new"
    BY <1>2 DEF StartJob, seqFrame
  <2>1. at \in 1..Len(prog) /\ prog[at] \in Job /\ i > at
    BY <1>0, <1>2 DEF StartJob, NextStatement, Await, Placed, Evaluating
  <2>2. prog[i] # prog[at]
    BY <1>0, <2>1, ProgAssumption DEF TypeOK
  <2>3. job[prog[i]] = "new"
    BY <2>1
  <2> QED
    BY <1>2, <2>1, <2>2, <2>3 DEF StartJob, Birth, TypeOK
<1>3. ASSUME NextStatement, UNCHANGED <<prog, job>> PROVE Fresh'
  BY <1>0, <1>3 DEF NextStatement
<1>4. ASSUME Await, UNCHANGED <<prog, job>> PROVE Fresh'
  BY <1>0, <1>4 DEF Await
<1>5. ASSUME NEW j \in Job, job[j] # "new", \A k \in Job \ {j} : job'[k] = job[k],
             UNCHANGED <<prog, at, begun>>
      PROVE  Fresh'
  BY <1>5
<1>6. CASE Sequence
  BY <1>1, <1>2, <1>3, <1>4, <1>6
  DEF Sequence, StartFlush, StartStop, Resume, SequenceDone, Give, seqFrame
<1>7. ASSUME NEW j \in Job, Calculation(j) PROVE Fresh'
  <2>1. CASE UNCHANGED job
    BY <1>1, <1>7, <2>1
    DEF Calculation, SaveBegin, Complete, Fail, Abort, Fold, Panic, AsyncEnds, jobFrame, treeVars
  <2>2. CASE job[j] \in {"run", "fin", "stuck"} /\ \E s \in {"fin", "stuck", "gone"} : job' = [job EXCEPT ![j] = s]
    BY <1>5, <1>7, <2>2
    DEF Calculation, SaveBegin, Complete, Fail, Abort, Fold, Panic, AsyncEnds, jobFrame, treeVars, TypeOK
  <2> QED
    BY <1>7, <2>1, <2>2
    DEF Calculation, SaveBegin, Complete, Fail, Abort, Fold, Panic, AsyncEnds, Gone
<1>8. CASE Parsed
  BY <1>0, <1>8 DEF Parsed, jobVars, Placed
<1>9. CASE EvalWaits \/ EvalDone \/ Waits \/ \E n \in Signal : Interrupt(n)
  BY <1>1, <1>9 DEF EvalWaits, EvalDone, Waits, Interrupt, treeVars
<1> QED
  BY <1>6, <1>7, <1>8, <1>9 DEF Next, PlannerStep

LEMMA GivenInit == Init => Given
BY DEF Init, Given

LEMMA GivenStep == ASSUME TypeOK, Placed, Fresh, Given, Next PROVE Given'
<1> USE DEF Given
<1>1. ASSUME UNCHANGED <<job, promise>> PROVE Given'
  BY <1>1
<1>2. ASSUME StartJob PROVE Given'
  <2> DEFINE j == prog[at]
  <2>1. j \in Job /\ job[j] = "new" /\ promise[j] = "open"
    <3>1. at \in 1..Len(prog) /\ j \in Job /\ ~begun
      BY <1>2, Length DEF StartJob, Evaluating, Placed, TypeOK
    <3> QED
      BY <3>1 DEF Fresh
  <2>2. Birth(j)
    BY <1>2 DEF StartJob
  <2> HIDE DEF j
  <2> QED
    BY <2>1, <2>2, JobAssumption DEF Birth, TypeOK, Agent
<1>3. ASSUME NEW j \in Job, SaveBegin(j) PROVE Given'
  BY <1>3, JobAssumption DEF SaveBegin, TypeOK
<1>4. ASSUME NEW j \in Job, Complete(j) PROVE Given'
  BY <1>4 DEF Complete, Gone, TypeOK
<1>5. ASSUME NEW j \in Job, Fail(j) PROVE Given'
  BY <1>5 DEF Fail, Agent, TypeOK
<1>6. ASSUME NEW j \in Job, Abort(j) PROVE Given'
  BY <1>6 DEF Abort, Agent, TypeOK
<1>7. ASSUME NEW j \in Job, Fold(j) PROVE Given'
  BY <1>7 DEF Fold, Gone, TypeOK
<1>8. CASE \E j \in Job : Panic(j) \/ AsyncEnds(j)
  BY <1>1, <1>8 DEF Panic, AsyncEnds
<1>9. CASE StartFlush \/ StartStop \/ Resume \/ SequenceDone
  BY <1>1, <1>9 DEF StartFlush, StartStop, Resume, SequenceDone
<1>10. CASE PlannerStep \/ \E n \in Signal : Interrupt(n)
  BY <1>1, <1>10 DEF PlannerStep, Parsed, EvalWaits, EvalDone, Waits, Interrupt, jobVars
<1> QED
  BY <1>2, <1>3, <1>4, <1>5, <1>6, <1>7, <1>8, <1>9, <1>10 DEF Next, Sequence, Calculation

LEMMA HeldInit == Init => Held
BY DEF Init, Held, Live

LEMMA HeldStep == ASSUME TypeOK, Placed, Fresh, Given, Held, Next PROVE Held'
<1> USE DEF Held, Awaited, Live
<1>1. ASSUME UNCHANGED <<job, promise, waiting, begun, tree, at, prog>> PROVE Held'
  BY <1>1
<1>2. ASSUME StartJob PROVE Held'
  <2> DEFINE j == prog[at]
  <2>1. j \in Job /\ ~begun /\ Birth(j) /\ prog' = prog /\ tree = "open"
    BY <1>2 DEF StartJob, Evaluating, seqFrame
  <2>2. \A k \in Job \ {j} : job'[k] = job[k] /\ promise'[k] = promise[k]
    BY <2>1 DEF Birth, TypeOK
  <2>3. waiting \subseteq waiting'
    BY <1>2 DEF StartJob
  <2>4. j \in LazyJob \/ j \in waiting' \/ (begun' /\ tree' = "open" /\ prog'[at'] = j)
    BY <1>2, <2>1 DEF StartJob, Await
  <2> HIDE DEF j
  <2> QED
    BY <2>1, <2>2, <2>3, <2>4
<1>3. ASSUME UNCHANGED <<job, promise, waiting>>, prog' = prog,
             begun => prog[at] \notin Job \/ (Settled(prog[at]) /\ prog[at] \in Job)
      PROVE  Held'
  <2>1. ASSUME NEW j \in Live \ LazyJob, promise[j] = "open" \/ j \in TryJob \cup SystemJob
        PROVE  j \in waiting
    BY <1>3, <2>1 DEF Settled, Given, TypeOK
  <2> QED
    BY <1>3, <2>1
<1>4. CASE StartFlush \/ StartStop \/ Resume
  BY <1>3, <1>4, ProgAssumption DEF StartFlush, StartStop, Resume, seqFrame
<1>5. CASE SequenceDone
  <2>1. ~begun
    BY <1>5, Length DEF SequenceDone, Placed, TypeOK
  <2> QED
    BY <1>3, <1>5, <2>1 DEF SequenceDone, seqFrame
<1>6. ASSUME NEW j \in Job, SaveBegin(j) PROVE Held'
  BY <1>6 DEF SaveBegin, TypeOK, jobFrame, treeVars
<1>7. ASSUME NEW j \in Job, Complete(j) PROVE Held'
  BY <1>7 DEF Complete, Gone, TypeOK, jobFrame, treeVars
<1>8. ASSUME NEW j \in Job, Fail(j) PROVE Held'
  BY <1>8 DEF Fail, TypeOK, jobFrame, treeVars
<1>9. ASSUME NEW j \in Job, Abort(j) PROVE Held'
  BY <1>9 DEF Abort, TypeOK, jobFrame, treeVars
<1>10. ASSUME NEW j \in Job, Fold(j) PROVE Held'
  BY <1>10 DEF Fold, Gone, TypeOK, jobFrame, treeVars
<1>11. ASSUME NEW j \in Job, Panic(j) PROVE Held'
  BY <1>1, <1>11 DEF Panic, jobFrame, treeVars
<1>12. ASSUME NEW j \in Job, AsyncEnds(j) PROVE Held'
  <2>1. UNCHANGED <<job, promise, begun, tree, at, prog>> /\ waiting' = waiting \ {j} /\ Settled(j)
    BY <1>12 DEF AsyncEnds, treeVars
  <2> QED
    BY <2>1 DEF Settled, Given, TypeOK
<1>13. CASE Parsed
  BY <1>13 DEF Parsed, Placed, jobVars
<1>14. CASE EvalWaits \/ EvalDone \/ Waits \/ \E n \in Signal : Interrupt(n)
  BY <1>1, <1>14 DEF EvalWaits, EvalDone, Waits, Interrupt, treeVars
<1> QED
  BY <1>2, <1>4, <1>5, <1>6, <1>7, <1>8, <1>9, <1>10, <1>11, <1>12, <1>13, <1>14
  DEF Next, Sequence, Calculation, PlannerStep

LEMMA CarriedInit == Init => Carried
BY DEF Init, Carried

\* An error that was given is not taken back.
LEMMA ErrorsStay ==
    ASSUME TypeOK, Given, NEW j \in Job, Calculation(j), NEW k \in Job, promise[k] = "err"
    PROVE  promise'[k] = "err"
BY DEF Calculation, SaveBegin, Complete, Fail, Abort, Fold, Panic, AsyncEnds, Given, TypeOK

LEMMA CarriedStep ==
    ASSUME TypeOK, Placed, Fresh, Given, Held, Carried, Next PROVE Carried'
<1> USE DEF Carried, Awaited
<1>1. ASSUME UNCHANGED <<promise, waiting, begun, tree, at, prog>>,
             rootErrs => rootErrs', agentError # "none" => agentError' # "none"
      PROVE  Carried'
  BY <1>1
<1>2. ASSUME StartJob PROVE Carried'
  <2> DEFINE j == prog[at]
  <2>1. /\ j \in Job /\ ~begun /\ Birth(j) /\ prog' = prog /\ tree = "open" /\ tree' = "open"
        /\ UNCHANGED <<agentError, rootErrs>>
    BY <1>2 DEF StartJob, Evaluating, seqFrame, NextStatement, Await, reasonVars
  <2>2. \A k \in Job \ {j} : promise'[k] = promise[k]
    BY <2>1 DEF Birth, TypeOK
  <2>3. waiting \subseteq waiting'
    BY <1>2 DEF StartJob
  <2>4. j \in LazyJob \/ j \in waiting' \/ (begun' /\ tree' = "open" /\ prog'[at'] = j)
    BY <1>2, <2>1 DEF StartJob, Await
  <2> HIDE DEF j
  <2> QED
    BY <2>1, <2>2, <2>3, <2>4
<1>3. ASSUME UNCHANGED <<promise, waiting, rootErrs, agentError>>, prog' = prog, tree = "open",
             tree' # "error",
             begun => prog[at] \notin Job \/ promise[prog[at]] # "err"
      PROVE  Carried'
  BY <1>3
<1>4. CASE StartFlush \/ StartStop
  BY <1>3, <1>4, ProgAssumption
  DEF StartFlush, StartStop, seqFrame, reasonVars, Evaluating, NextStatement, Await, Give
<1>5. ASSUME Resume PROVE Carried'
  <2>1. UNCHANGED <<promise, waiting, rootErrs, agentError, prog>> /\ tree = "open" /\ begun
    BY <1>5 DEF Resume, Evaluating, seqFrame, reasonVars
  <2>2. CASE prog[at] = Flush /\ NextStatement
    BY <1>3, <2>1, <2>2, ProgAssumption DEF NextStatement
  <2>3. CASE prog[at] \in Job /\ promise[prog[at]] # "err" /\ NextStatement
    BY <1>3, <2>1, <2>3 DEF NextStatement
  <2>4. CASE prog[at] \in Job /\ promise[prog[at]] = "err" /\ Give("error")
    <3>1. prog[at] \notin LazyJob
      BY <2>1 DEF Placed
    <3> QED
      BY <2>1, <2>4, <3>1 DEF Give
  <2> QED
    BY <1>5, <2>2, <2>3, <2>4 DEF Resume
<1>6. ASSUME SequenceDone PROVE Carried'
  <2>1. ~begun
    BY <1>6, Length DEF SequenceDone, Placed, TypeOK
  <2> QED
    BY <1>3, <1>6, <2>1 DEF SequenceDone, Evaluating, Give, seqFrame, reasonVars
<1>7. ASSUME NEW j \in Job, Calculation(j) PROVE Carried'
  <2>1. \A k \in Job : promise[k] = "err" => promise'[k] = "err"
    BY <1>7, ErrorsStay
  <2>2. /\ UNCHANGED <<prog, tree, at, begun>>
        /\ agentError # "none" => agentError' # "none"
        /\ rootErrs => rootErrs'
    <3>1. UNCHANGED <<prog, tree, at, begun>> /\ (agentError # "none" => agentError' # "none")
      BY <1>7
      DEF Calculation, SaveBegin, Complete, Fail, Abort, Fold, Panic, AsyncEnds, jobFrame, treeVars,
          reasonVars, SetAgentError, Reason
    <3>2. ASSUME AsyncEnds(j) PROVE rootErrs => rootErrs'
      BY <3>2, Zenon DEF AsyncEnds
    <3>3. ASSUME Fail(j) PROVE rootErrs => rootErrs'
      BY <3>3, Zenon DEF Fail
    <3>4. ASSUME SaveBegin(j) \/ Complete(j) \/ Abort(j) \/ Fold(j) \/ Panic(j)
          PROVE  rootErrs => rootErrs'
      BY <3>4 DEF SaveBegin, Complete, Abort, Fold, Panic
    <3> QED
      BY <1>7, <3>1, <3>2, <3>3, <3>4 DEF Calculation
  <2>3. \A k \in Job \ {j} : promise'[k] = promise[k] /\ (k \in waiting => k \in waiting')
    BY <1>7
    DEF Calculation, SaveBegin, Complete, Fail, Abort, Fold, Panic, AsyncEnds, jobFrame, TypeOK
  <2>4. j \notin LazyJob /\ promise'[j] = "err" =>
            Awaited(j)' \/ rootErrs' \/ agentError' # "none" \/ tree' = "error"
    <3>1. CASE SaveBegin(j) \/ Complete(j)
      BY <3>1 DEF SaveBegin, Complete, TypeOK
    <3>2. CASE Fold(j) \/ Panic(j)
      BY <3>2, <2>2 DEF Fold, Panic, jobFrame, treeVars
    <3>3. CASE AsyncEnds(j)
      BY <3>3 DEF AsyncEnds
    <3>4. CASE Fail(j)
      <4>1. CASE promise[j] = "open"
        <5>1. job[j] = "run" /\ UNCHANGED waiting
          BY <3>4 DEF Fail, jobFrame
        <5> QED
          BY <2>2, <4>1, <5>1 DEF Held, Live
      <4>2. CASE promise[j] # "open"
        BY <3>4, <4>2 DEF Fail
      <4> QED
        BY <4>1, <4>2
    <3>5. CASE Abort(j)
      <4>1. job[j] = "run" /\ UNCHANGED waiting
        BY <3>5 DEF Abort, jobFrame
      <4>2. promise[j] = "open"  \/ promise'[j] = promise[j]
        BY <3>5 DEF Abort, TypeOK
      <4> QED
        BY <2>2, <4>1, <4>2 DEF Held, Live
    <3> QED
      BY <1>7, <3>1, <3>2, <3>3, <3>4, <3>5 DEF Calculation
  <2>5. ASSUME NEW k \in Job \ LazyJob, promise'[k] = "err"
        PROVE  Awaited(k)' \/ rootErrs' \/ agentError' # "none" \/ tree' = "error"
    <3>1. CASE k = j
      BY <2>4, <2>5, <3>1
    <3>2. CASE k # j
      BY <2>2, <2>3, <2>5, <3>2
    <3> QED
      BY <3>1, <3>2
  <2>6. tree' = "error" => \E k \in Job \ LazyJob : promise'[k] = "err"
    BY <2>1, <2>2
  <2> QED
    BY <2>5, <2>6
<1>8. CASE Parsed
  BY <1>8 DEF Parsed, Placed, jobVars, reasonVars
<1>9. CASE EvalWaits \/ EvalDone \/ Waits \/ \E n \in Signal : Interrupt(n)
  BY <1>1, <1>9
  DEF EvalWaits, EvalDone, Waits, Interrupt, treeVars, reasonVars, SetAgentError, Reason
<1> QED
  BY <1>2, <1>4, <1>5, <1>6, <1>7, <1>8, <1>9 DEF Next, Sequence, PlannerStep

LEMMA CodedInit == Init => Coded
BY DEF Init, Coded

\* The reason that a teardown begins with, and the one that a later error leaves.
LEMMA ReasonStep ==
    ASSUME NEW e, NEW n, SetAgentError(e, n)
    PROVE  \/ agentError = "none" /\ agentError' = e /\ signo' = n
           \/ e = "panic" /\ agentError' = "panic"
           \/ agentError # "none" /\ agentError' = agentError /\ signo' = signo
BY DEF SetAgentError, Reason

\* The exit code with which EVAL goes on to WAITAGENTS.
LEMMA EvalExplained ==
    ASSUME TypeOK, Coded, EvalDone
    PROVE  Explained(agentError', signo', EvalCode, evalError')
<1>1. pc = "EVAL" /\ tree # "open" /\ evalError' = (tree \in {"error", "fatal"})
  BY DEF EvalDone
<1>2. \/ tree = "fatal" /\ agentError = "none" /\ agentError' = "fatal"
      \/ ~(tree = "fatal" /\ agentError = "none") /\ UNCHANGED <<agentError, signo>>
  BY DEF EvalDone, reasonVars, SetAgentError, Reason
<1>3. agentError' = "none" => tree # "fatal" /\ EvalCode = IF evalError' THEN 1 ELSE 0
  BY <1>1, <1>2 DEF EvalCode, Coded, TypeOK
<1>4. agentError' \in {"fatal", "late"} => EvalCode \in {0, 1}
  BY <1>1, <1>2 DEF EvalCode, Coded
<1>5. ASSUME agentError' = "signal"
      PROVE  signo' \in Signal /\ (EvalCode = 128 + signo' \/ (tree = "exit" /\ EvalCode = 0))
  <2>1. /\ agentError = "signal" /\ signo' = signo /\ exitCode = 128 + signo
        /\ signo \in Signal /\ signo \in 1..31
    BY <1>1, <1>2, <1>5, CodeAssumption DEF Coded
  <2> QED
    BY <2>1 DEF EvalCode
<1> QED
  BY <1>1, <1>3, <1>4, <1>5 DEF Explained

LEMMA CodedStep == ASSUME TypeOK, Placed, Coded, Next PROVE Coded'
<1> USE DEF Coded
<1>1. ASSUME UNCHANGED <<pc, evalError, swept, agentError, signo, exitCode>>,
             UNCHANGED tree \/ pc = "EVAL"
      PROVE  Coded'
  BY <1>1 DEF Explained
<1>2. ASSUME NEW n \in Signal, Interrupt(n) PROVE Coded'
  <2>1. agentError = "none" /\ agentError' = "signal" /\ signo' = n /\ exitCode' = 128 + n
    BY <1>2 DEF Interrupt, SetAgentError, Reason
  <2>2. UNCHANGED <<pc, evalError, swept, tree>>
    BY <1>2 DEF Interrupt, treeVars
  <2> QED
    BY <2>1, <2>2 DEF Explained
<1>3. CASE Sequence
  BY <1>1, <1>3
  DEF Sequence, StartJob, StartFlush, StartStop, Resume, SequenceDone, Evaluating, seqFrame, reasonVars
<1>4. ASSUME NEW j \in Job, Calculation(j) PROVE Coded'
  <2>1. UNCHANGED <<pc, evalError, swept, exitCode, tree>>
    BY <1>4
    DEF Calculation, SaveBegin, Complete, Fail, Abort, Fold, Panic, AsyncEnds, jobFrame, treeVars
  <2>2. CASE UNCHANGED reasonVars
    BY <1>1, <2>1, <2>2 DEF reasonVars
  <2>3. CASE SetAgentError("late", 0) \/ SetAgentError("panic", 0)
    <3>1. \/ agentError = "none" /\ agentError' \in {"late", "panic"}
          \/ agentError' = "panic"
          \/ agentError # "none" /\ agentError' = agentError /\ signo' = signo
      BY <2>3, ReasonStep
    <3> QED
      BY <2>1, <3>1 DEF Explained
  <2> QED
    BY <1>4, <2>2, <2>3 DEF Calculation, SaveBegin, Complete, Fail, Abort, Fold, Panic, AsyncEnds
<1>5. CASE Parsed
  BY <1>5 DEF Parsed, reasonVars
<1>6. CASE EvalWaits
  BY <1>1, <1>6 DEF EvalWaits, reasonVars
<1>7. CASE EvalDone
  <2>1. pc = "EVAL" /\ UNCHANGED tree /\ WaitAgents(agentError', EvalCode, evalError')
    BY <1>7 DEF EvalDone, treeVars
  <2>2. pc' = "FIN" \/ (pc' \in {"WAITAGENTS", "ABORTED"} /\ exitCode' = EvalCode /\ swept' = swept)
    BY <2>1 DEF WaitAgents, Cleanup
  <2> QED
    BY <1>7, <2>1, <2>2, EvalExplained DEF Explained
<1>8. CASE Waits
  <2>1. /\ pc = "WAITAGENTS" /\ UNCHANGED <<tree, evalError, agentError, signo>>
        /\ WaitAgents(agentError, exitCode, evalError)
    BY <1>8 DEF Waits, treeVars, reasonVars
  <2>2. pc' = "FIN" \/ (pc' \in {"WAITAGENTS", "ABORTED"} /\ exitCode' = exitCode /\ swept' = swept)
    BY <2>1 DEF WaitAgents, Cleanup
  <2> QED
    BY <2>1, <2>2 DEF Explained
<1> QED
  BY <1>2, <1>3, <1>4, <1>5, <1>6, <1>7, <1>8 DEF Next, PlannerStep

-----------------------------------------------------------------------------
(* The theorems.                                                           *)

LEMMA Invariance == Spec => []IInv
<1>1. Init => IInv
  BY TypeInit, PlacedInit, FreshInit, GivenInit, HeldInit, CarriedInit, CodedInit DEF IInv
<1>2. IInv /\ [Next]_vars => IInv'
  <2>1. ASSUME IInv, Next PROVE IInv'
    BY <2>1, TypeStep, PlacedStep, FreshStep, GivenStep, HeldStep, CarriedStep, CodedStep DEF IInv
  <2>2. ASSUME IInv, UNCHANGED vars PROVE IInv'
    BY <2>2
    DEF IInv, TypeOK, Placed, Fresh, Given, Held, Awaited, Live, Carried, Coded, Explained,
        vars, plannerVars, reasonVars, treeVars, jobVars
  <2> QED
    BY <2>1, <2>2
<1> QED
  BY <1>1, <1>2, PTL DEF Spec

\* Every variable of the planner keeps its type; exitCode stays in the range of the exit code of a
\* process whatever number the program assigns to EXIT_CODE.
THEOREM TypeCorrect == Spec => []TypeOK
<1>1. IInv => TypeOK
  BY DEF IInv
<1> QED
  BY <1>1, Invariance, PTL

\* When everyone on the root's list is gone and the tree has a value, nothing at all is left.
LEMMA QuietMeansEmpty ==
    ASSUME IInv, RootQuiet, tree # "open"
    PROVE  Live = {} /\ waiting = {}
BY JobAssumption DEF IInv, TypeOK, Held, Given, Awaited, RootQuiet, RootAgents, Live, Agent

\* A failure that somebody was told of shows in what CLEANUP looks at, and nothing else does.
LEMMA QuietMeansTold ==
    ASSUME IInv, RootQuiet, tree # "open"
    PROVE  Heard <=> (rootErrs \/ agentError # "none" \/ tree \in {"error", "fatal"})
BY DEF IInv, Carried, Awaited, RootQuiet, Heard, TypeOK

\* WAITAGENTS runs when the tree has a value: it has the properties when it ends the planner.
LEMMA Ending ==
    ASSUME IInv, tree # "open", NEW code \in 0..255,
           Explained(agentError', signo', code, evalError'),
           WaitAgents(agentError', code, evalError'),
           agentError # "none" => agentError' = agentError,
           agentError = "none" => agentError' = "none" \/ (agentError' = "fatal" /\ tree = "fatal"),
           UNCHANGED <<prog, ownCode, treeVars, job, promise, waiting, rootErrs>>
    PROVE  /\ NothingLeft'
           /\ pc' = "FIN" => ExitCodeTells' /\ SweepOnlyWhole'
<1>1. pc' = "FIN" => RootQuiet /\ agentError' # "panic" /\ Cleanup(agentError', code, evalError')
  BY DEF WaitAgents
<1>2. pc' = "ABORTED" => ExtLive = {}
  BY DEF WaitAgents, Cleanup
<1>3. NothingLeft'
  BY <1>1, <1>2, QuietMeansEmpty DEF NothingLeft, Live, ExtLive, Agent
<1> SUFFICES ASSUME pc' = "FIN" PROVE ExitCodeTells' /\ SweepOnlyWhole'
  BY <1>3
<1>4. Heard' <=> (rootErrs \/ agentError' # "none" \/ tree \in {"error", "fatal"})
  <2>1. Heard <=> (rootErrs \/ agentError # "none" \/ tree \in {"error", "fatal"})
    BY <1>1, QuietMeansTold
  <2> QED
    BY <2>1 DEF Heard, treeVars
<1>5. exitCode' = CodeOf(agentError', code, evalError')
  BY <1>1 DEF Cleanup
<1>6. ExitCodeTells'
  <2>1. CASE agentError' = "signal"
    <3>1. signo' \in 1..31 /\ (code = 128 + signo' \/ (tree = "exit" /\ code = 0))
      BY <2>1, CodeAssumption DEF Explained
    <3> QED
      BY <1>5, <2>1, <3>1 DEF ExitCodeTells, CodeOf, treeVars
  <2>2. CASE agentError' \in {"fatal", "late"}
    <3>1. code \in {0, 1} /\ Heard'
      BY <1>4, <2>2 DEF Explained
    <3> QED
      BY <1>5, <2>2, <3>1 DEF ExitCodeTells, CodeOf
  <2>3. CASE agentError' = "none"
    <3>1. /\ tree # "fatal" /\ code = IF evalError' THEN 1 ELSE 0
          /\ evalError' = (tree \in {"error", "fatal"})
      BY <2>3 DEF Explained
    <3>2. CASE Heard'
      <4>1. rootErrs \/ evalError'
        BY <1>4, <2>3, <3>1, <3>2
      <4> QED
        BY <1>5, <2>3, <3>1, <3>2, <4>1 DEF ExitCodeTells, CodeOf
    <3>3. CASE ~Heard'
      <4>1. ~rootErrs /\ ~evalError'
        BY <1>4, <2>3, <3>1, <3>3
      <4> QED
        BY <1>5, <2>3, <3>3, <4>1 DEF ExitCodeTells, CodeOf
    <3> QED
      BY <3>2, <3>3
  <2>4. agentError' \in {"none", "signal", "fatal", "late"}
    BY <1>1 DEF IInv, TypeOK
  <2> QED
    BY <2>1, <2>2, <2>3, <2>4
<1>7. SweepOnlyWhole'
  <2> SUFFICES ASSUME swept' PROVE ~Heard' /\ (at > Len(prog) \/ tree = "exit") /\ Live = {}
    BY DEF SweepOnlyWhole, treeVars, Live
  <2>1. agentError' = "none" /\ ~evalError' /\ ~rootErrs
    BY <1>1, Zenon DEF Cleanup
  <2>2. tree \notin {"error", "fatal"}
    BY <2>1 DEF Explained
  <2>3. tree = "exit" \/ tree = "value"
    BY <2>2 DEF IInv, TypeOK
  <2> QED
    BY <1>1, <1>4, <2>1, <2>2, <2>3, QuietMeansEmpty DEF IInv, Placed
<1> QED
  BY <1>6, <1>7

\* The same for the two steps that may end the planner; before its end the properties say nothing.
LEMMA EndingStep == ASSUME IInv, Next PROVE (NothingLeft /\ ExitCodeTells /\ SweepOnlyWhole)'
<1>1. CASE pc' \notin {"FIN", "ABORTED"}
  <2>1. swept' = FALSE
    BY <1>1, CodedStep DEF IInv, Coded
  <2> QED
    BY <1>1, <2>1 DEF NothingLeft, ExitCodeTells, SweepOnlyWhole
<1>2. CASE pc' \in {"FIN", "ABORTED"}
  <2>0. pc' # "FIN" => ~swept'
    BY CodedStep DEF IInv, Coded
  <2>1. CASE EvalDone
    <3>1. /\ tree # "open" /\ WaitAgents(agentError', EvalCode, evalError')
          /\ UNCHANGED <<prog, ownCode, treeVars, job, promise, waiting, rootErrs>>
      BY <2>1 DEF EvalDone
    <3>2. /\ agentError # "none" => agentError' = agentError
          /\ agentError = "none" => agentError' = "none" \/ (agentError' = "fatal" /\ tree = "fatal")
      BY <2>1 DEF EvalDone, SetAgentError, Reason, reasonVars
    <3>3. EvalCode \in 0..255
      BY DEF EvalCode, IInv, TypeOK
    <3>4. Explained(agentError', signo', EvalCode, evalError')
      BY <2>1, EvalExplained DEF IInv
    <3>5. NothingLeft' /\ (pc' = "FIN" => ExitCodeTells' /\ SweepOnlyWhole')
      BY <3>1, <3>2, <3>3, <3>4, Ending
    <3> QED
      BY <1>2, <2>0, <3>5 DEF ExitCodeTells, SweepOnlyWhole
  <2>2. CASE Waits
    <3>1. /\ tree # "open" /\ WaitAgents(agentError', exitCode, evalError')
          /\ agentError' = agentError
          /\ UNCHANGED <<prog, ownCode, treeVars, job, promise, waiting, rootErrs>>
      BY <2>2 DEF Waits, IInv, Placed, reasonVars
    <3>2. Explained(agentError', signo', exitCode, evalError') /\ exitCode \in 0..255
      BY <2>2 DEF Waits, IInv, Coded, TypeOK, reasonVars
    <3>3. NothingLeft' /\ (pc' = "FIN" => ExitCodeTells' /\ SweepOnlyWhole')
      BY <3>1, <3>2, Ending
    <3> QED
      BY <1>2, <2>0, <3>3 DEF ExitCodeTells, SweepOnlyWhole
  <2>3. ~(Parsed \/ EvalWaits) /\ pc' # pc
    BY <1>2 DEF Parsed, EvalWaits, Next, Over
  <2>4. ~(Sequence \/ \E n \in Signal : Interrupt(n))
    BY <2>3
    DEF Sequence, StartJob, StartFlush, StartStop, Resume, SequenceDone, Interrupt, seqFrame
  <2>5. ASSUME NEW j \in Job PROVE ~Calculation(j)
    BY <2>3
    DEF Calculation, SaveBegin, Complete, Fail, Abort, Fold, Panic, AsyncEnds, jobFrame
  <2> QED
    BY <2>1, <2>2, <2>3, <2>4, <2>5 DEF Next, PlannerStep
<1> QED
  BY <1>1, <1>2

\* The three facts about the end, as an invariant.
LEMMA EndsWell == Spec => [](NothingLeft /\ ExitCodeTells /\ SweepOnlyWhole)
<1>1. Init => NothingLeft /\ ExitCodeTells /\ SweepOnlyWhole
  BY DEF Init, NothingLeft, ExitCodeTells, SweepOnlyWhole
<1>2. /\ IInv /\ [Next]_vars /\ NothingLeft /\ ExitCodeTells /\ SweepOnlyWhole
      => (NothingLeft /\ ExitCodeTells /\ SweepOnlyWhole)'
  <2>1. ASSUME UNCHANGED vars, NothingLeft, ExitCodeTells, SweepOnlyWhole
        PROVE  (NothingLeft /\ ExitCodeTells /\ SweepOnlyWhole)'
    BY <2>1
    DEF NothingLeft, ExitCodeTells, SweepOnlyWhole, Heard, Live, ExtLive, Agent,
        vars, plannerVars, reasonVars, treeVars, jobVars
  <2> QED
    BY <2>1, EndingStep
<1> QED
  BY <1>1, <1>2, Invariance, PTL DEF Spec

\* However the program ends, by itself, by an error or by a signal, the planner does not end before
\* every operation, system() child and async statement that it started has been recovered, and the
\* abort after a panic leaves no module process.
THEOREM NothingIsLeft == Spec => []NothingLeft
BY EndsWell, PTL

\* Whatever fails, in whatever order, the exit code is that of the teardown reason: 128 and the
\* number of the signal, 1 for another failure, EXIT_CODE clamped when nothing failed.
THEOREM ExitCodeIsTold == Spec => []ExitCodeTells
BY EndsWell, PTL

\* The cache directory is swept only after an evaluation that came to its end, when nothing failed
\* and nothing runs that could still write a file.
THEOREM SweepIsSafe == Spec => []SweepOnlyWhole
BY EndsWell, PTL

-----------------------------------------------------------------------------
(* The planner has an event for whatever happens.                          *)

LEMMA WakeInit == Init => NoLostWake
BY DEF Init, NoLostWake

\* A calculation that ends wakes the planner when it was the last one.
LEMMA GoneWakes ==
    ASSUME TypeOK, NEW j \in Job, Gone(j), job[j] \in {"run", "fin", "stuck"}, waiting' = waiting, ~pWoken'
    PROVE  /\ ~RootQuiet => ~RootQuiet'
           /\ ExtLive # {} => ExtLive' # {}
<1>1. j \notin RootAgents /\ ExtLive # {j}
  BY DEF Gone
<1>2. \A k \in Job \ {j} : job'[k] = job[k]
  BY DEF Gone, TypeOK
<1>3. RootAgents \subseteq RootAgents' /\ ExtLive \ {j} \subseteq ExtLive'
  BY <1>1, <1>2 DEF RootAgents, ExtLive, Live, Agent
<1> QED
  BY <1>1, <1>3 DEF RootQuiet

LEMMA WakeStep == ASSUME TypeOK, Placed, NoLostWake, Next PROVE NoLostWake'
<1> USE DEF NoLostWake
<1>1. ASSUME pWoken' = TRUE PROVE NoLostWake'
  BY <1>1
<1>2. ASSUME UNCHANGED <<pc, pWoken, tree, agentError, treeDestroyed, agentsDestroyed>>,
             pc = "WAITAGENTS" => (~RootQuiet => ~RootQuiet') /\ (ExtLive # {} => ExtLive' # {})
      PROVE  NoLostWake'
  BY <1>2
<1>3. CASE \E n \in Signal : Interrupt(n)
  BY <1>1, <1>3 DEF Interrupt, SetAgentError
<1>4. CASE Sequence
  <2>1. pc = "EVAL" /\ UNCHANGED <<pc, agentError, treeDestroyed, agentsDestroyed>>
    BY <1>4
    DEF Sequence, StartJob, StartFlush, StartStop, Resume, SequenceDone, Evaluating, seqFrame, reasonVars
  <2>2. pWoken' = TRUE \/ UNCHANGED <<tree, pWoken>>
    BY <1>4
    DEF Sequence, StartJob, StartFlush, StartStop, Resume, SequenceDone, NextStatement, Await, Give
  <2> QED
    BY <1>1, <1>2, <2>1, <2>2
<1>5. ASSUME NEW j \in Job, Calculation(j) PROVE NoLostWake'
  <2>1. UNCHANGED <<pc, tree, treeDestroyed, agentsDestroyed>>
    BY <1>5
    DEF Calculation, SaveBegin, Complete, Fail, Abort, Fold, Panic, AsyncEnds, jobFrame, treeVars
  <2>2. CASE Complete(j) \/ Fold(j)
    <3>1. Gone(j) /\ job[j] \in {"run", "fin", "stuck"} /\ UNCHANGED <<waiting, agentError>>
      BY <2>2 DEF Complete, Fold, jobFrame, reasonVars
    <3>2. pWoken => pWoken'
      BY <3>1, Zenon DEF Gone
    <3> QED
      BY <2>1, <3>1, <3>2, GoneWakes
  <2>3. CASE SaveBegin(j)
    BY <1>2, <2>1, <2>3
    DEF SaveBegin, jobFrame, reasonVars, RootQuiet, RootAgents, ExtLive, Live
  <2>4. CASE Panic(j) \/ AsyncEnds(j)
    BY <1>1, <2>4 DEF Panic, AsyncEnds, SetAgentError
  <2>5. CASE Abort(j) \/ Fail(j)
    <3>1. Live' = Live /\ waiting' = waiting
      BY <2>5 DEF Abort, Fail, jobFrame, Live, TypeOK
    <3>2. pWoken' = TRUE \/ UNCHANGED <<pWoken, agentError>>
      BY <2>5 DEF Abort, Fail, reasonVars, SetAgentError
    <3> QED
      BY <1>1, <1>2, <2>1, <3>1, <3>2 DEF RootQuiet, RootAgents, ExtLive
  <2> QED
    BY <1>5, <2>2, <2>3, <2>4, <2>5 DEF Calculation
<1>6. CASE Parsed
  BY <1>6 DEF Parsed, Placed, reasonVars
<1>7. CASE EvalWaits
  <2>1. pc' = "EVAL" /\ tree' = "open" /\ agentError' = agentError
    BY <1>7 DEF EvalWaits, treeVars, reasonVars
  <2>2. agentError # "none" => treeDestroyed'
    BY <1>7, Zenon DEF EvalWaits
  <2> QED
    BY <2>1, <2>2
<1>8. ASSUME NEW code, NEW ee, WaitAgents(agentError', code, ee), UNCHANGED <<job, waiting>>
      PROVE  NoLostWake'
  <2>1. pc' # "EVAL"
    BY <1>8 DEF WaitAgents, Cleanup
  <2>2. CASE pc' = "WAITAGENTS"
    <3>1. /\ agentError' = "panic" => ExtLive # {}
          /\ agentError' # "panic" => ~RootQuiet
      BY <1>8, <2>2 DEF WaitAgents, Cleanup
    <3>2. agentError' # "none" => agentsDestroyed'
      BY <1>8 DEF WaitAgents
    <3> QED
      BY <1>8, <2>1, <3>1, <3>2 DEF RootQuiet, RootAgents, ExtLive, Live
  <2> QED
    BY <2>1, <2>2
<1>9. CASE EvalDone
  BY <1>8, <1>9 DEF EvalDone
<1>10. CASE Waits
  BY <1>8, <1>10 DEF Waits, reasonVars
<1> QED
  BY <1>3, <1>4, <1>5, <1>6, <1>7, <1>9, <1>10 DEF Next, PlannerStep

\* The planner never sleeps on something that has happened: while it waits without an event, someone
\* is left whose leaving wakes it, and the teardown has been passed on.
THEOREM NoWakeIsLost == Spec => []NoLostWake
<1>1. IInv /\ NoLostWake /\ [Next]_vars => NoLostWake'
  <2>1. ASSUME NoLostWake, UNCHANGED vars PROVE NoLostWake'
    BY <2>1
    DEF NoLostWake, RootQuiet, RootAgents, ExtLive, Live, Agent,
        vars, plannerVars, reasonVars, treeVars, jobVars
  <2> QED
    BY <2>1, WakeStep DEF IInv
<1> QED
  BY <1>1, WakeInit, Invariance, PTL DEF Spec
=============================================================================
