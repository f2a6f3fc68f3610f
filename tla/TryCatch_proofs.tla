--------------------------- MODULE TryCatch_proofs ---------------------------
(***************************************************************************)
(* Proofs about TryCatch, for any calculations a try may start.            *)
(*                                                                         *)
(* The invariant is Inv: which part of the machine reads the queue of      *)
(* errors (QueueReader), that an empty wait list stays empty once it was   *)
(* reported (EmptyStays), and that a try gives the value of its body only  *)
(* when the queue was found empty (QuietEnd).                              *)
(***************************************************************************)
EXTENDS TryCatch, TLAPS

\* Only the catch reads the queue, and it runs for an error.
QueueReader ==
    /\ eval # "run" => pc \in {"START", "CATCH"}
    /\ eval \in {"error", "answered"} => pc = "CATCH"
    /\ pc = "CATCH" => tcErr # NoError
    /\ pc \in {"INI", "START", "WAITBODY"} => tcErr = NoError
    /\ tcErr = NoError => errTaken = 0

\* What was found empty stays empty: 0 from error(), a flush that returned, the end.
EmptyStays ==
    /\ saidNone => Live = {} /\ errTaken = Len(errs) /\ tcErr # NoError
    /\ eval = "flushed" => Live = {}
    /\ pc = "DONE" => Live = {}

\* The value of the body leads straight to the end, with an empty queue.
QuietEnd ==
    tcOut = "val" /\ tcErr = NoError /\ pc \notin {"START", "WAITBODY"}
        => pc = "DONE" /\ errs = <<>>

Inv == TypeOK /\ QueueReader /\ EmptyStays /\ QuietEnd

-----------------------------------------------------------------------------

LEMMA InitInv == Init => Inv
<1> SUFFICES ASSUME Init PROVE Inv
  OBVIOUS
<1>1. Live = {}
  BY DEF Init, Live
<1>2. <<>> \in Seq(Job \cup {Body}) /\ Len(<<>>) = 0
  OBVIOUS
<1>3. errs \in Seq(Job \cup {Body}) /\ errTaken \in 0..Len(errs)
  BY <1>2 DEF Init
<1>4. job \in [Job -> {"new", "live", "failed", "flush", "left"}]
  BY DEF Init
<1>5. TypeOK
  BY <1>3, <1>4 DEF Init, TypeOK
<1> QED
  BY <1>1, <1>5 DEF Init, Inv, QueueReader, EmptyStays, QuietEnd

\* An error of the body or of a calculation that is appended to the queue.
LEMMA AppendError ==
    ASSUME TypeOK, NEW e \in Job \cup {Body}
    PROVE  /\ Append(errs, e) \in Seq(Job \cup {Body})
           /\ Len(Append(errs, e)) = Len(errs) + 1
           /\ errTaken < Len(Append(errs, e))
           /\ Append(errs, e) # <<>>
<1>1. errs \in Seq(Job \cup {Body}) /\ errTaken \in 0..Len(errs) /\ Len(errs) \in Nat
  BY DEF TypeOK
<1>2. Append(errs, e) \in Seq(Job \cup {Body}) /\ Len(Append(errs, e)) = Len(errs) + 1
  BY <1>1
<1> QED
  BY <1>1, <1>2

\* The next error to read is one of a calculation or of the body.
LEMMA NextError ==
    ASSUME TypeOK, Unread
    PROVE  /\ errs[errTaken + 1] \in Job \cup {Body}
           /\ errs[errTaken + 1] # NoError
           /\ errTaken + 1 \in 0..Len(errs)
<1>1. errTaken \in Nat /\ Len(errs) \in Nat /\ errTaken < Len(errs)
  BY DEF TypeOK, Unread
<1>2. errTaken + 1 \in 1..Len(errs)
  BY <1>1
<1>3. errs[errTaken + 1] \in Job \cup {Body}
  BY <1>2 DEF TypeOK
<1> QED
  BY <1>2, <1>3, JobAssumption

\* With nothing taken, a queue that has nothing unread is empty.
LEMMA NothingUnread ==
    ASSUME TypeOK, ~Unread
    PROVE  errTaken = Len(errs) /\ (errTaken = 0 => errs = <<>>)
<1>1. errTaken \in 0..Len(errs) /\ Len(errs) \in Nat /\ errs \in Seq(Job \cup {Body})
  BY DEF TypeOK
<1>2. errTaken = Len(errs)
  BY <1>1 DEF Unread
<1>3. Len(errs) = 0 => errs = <<>>
  BY <1>1
<1> QED
  BY <1>2, <1>3

\* The set of live calculations depends on their states only.
LEMMA SameLive == job' = job => Live' = Live
  BY DEF Live

LEMMA LiveJobs == Live \subseteq Job
  BY DEF Live

-----------------------------------------------------------------------------
(* The state machine.                                                      *)

LEMMA IniStep == Inv /\ Ini => Inv'
<1> SUFFICES ASSUME Inv, Ini PROVE Inv'
  OBVIOUS
<1>1. Live' = Live
  BY SameLive DEF Ini
<1> QED
  BY <1>1 DEF Inv, TypeOK, QueueReader, EmptyStays, QuietEnd, Ini, queueVars

\* What a run of WAITBODY leaves behind.
LEMMA WaitBodyResult ==
    ASSUME Inv, WaitBody, tcErr = NoError
    PROVE  /\ tcErr' \in Job \cup {Body, NoError}
           /\ tcOut' = tcOut \/ tcOut' \in {"val", "err"}
           /\ told' \subseteq Job
           /\ pc' \in {"WAITBODY", "CATCH", "WAIT", "DONE"}
           /\ pc' = "DONE" => Live = {}
           /\ pc' = "CATCH" => tcErr' # NoError
           /\ pc' = "WAITBODY" => tcErr' = NoError
           /\ tcErr' = NoError /\ pc' # "WAITBODY" => pc' = "DONE" /\ errs = <<>>
<1>1. CASE Unread
  BY <1>1, NextError, LiveJobs DEF WaitBody, EnterCatch, EnterWait, PassOn, TellAll, Inv, TypeOK
<1>2. CASE ~Unread /\ Live = {}
  <2>1. errs = <<>>
    BY <1>2, NothingUnread DEF Inv, QueueReader
  <2> QED
    BY <1>2, <2>1 DEF WaitBody, EnterWait, Inv, TypeOK
<1>3. CASE ~Unread /\ Live # {}
  BY <1>3, LiveJobs DEF WaitBody, PassOn, TellAll, Inv, TypeOK
<1> QED
  BY <1>1, <1>2, <1>3

LEMMA BodyEndsStep == Inv /\ BodyEnds => Inv'
<1> SUFFICES ASSUME Inv, BodyEnds PROVE Inv'
  OBVIOUS
<1>1. Live' = Live
  BY SameLive DEF BodyEnds
<1>2. pc = "START" /\ eval = "run" /\ tcErr = NoError /\ ~saidNone
  BY DEF BodyEnds, Inv, QueueReader, EmptyStays
<1>3. tcDestroyed' \in BOOLEAN /\ woken' \in BOOLEAN
  BY DEF BodyEnds, TellStatement, MaybeWoken, Inv, TypeOK
<1>4. UNCHANGED <<eval, hasCatch, destroyed, job, errTaken, saidNone>>
  BY DEF BodyEnds
<1>5. CASE EnterWait("ctl") /\ PassOn /\ UNCHANGED <<tcErr, errs>>
  BY <1>1, <1>2, <1>3, <1>4, <1>5, LiveJobs
     DEF EnterWait, PassOn, TellAll, Inv, TypeOK, QueueReader, EmptyStays, QuietEnd
<1>6. CASE /\ errs' = Append(errs, Body)
           /\ EnterCatch(Body)
           /\ IF hasCatch THEN UNCHANGED told ELSE TellAll
  <2>1. /\ errs' \in Seq(Job \cup {Body})
        /\ errTaken' \in 0..Len(errs')
    BY <1>4, <1>6, AppendError DEF Inv, TypeOK
  <2>2. /\ tcErr' = Body /\ Body # NoError
        /\ pc' \in {"CATCH", "WAIT", "DONE"}
        /\ pc' = "DONE" => Live = {}
        /\ tcOut' = tcOut \/ tcOut' = "err"
        /\ told' \subseteq Job
    BY <1>6, JobAssumption, LiveJobs DEF EnterCatch, EnterWait, TellAll, Inv, TypeOK
  <2> QED
    BY <1>1, <1>2, <1>3, <1>4, <2>1, <2>2
       DEF Inv, TypeOK, QueueReader, EmptyStays, QuietEnd
<1>7. CASE WaitBody /\ UNCHANGED errs
  BY <1>1, <1>2, <1>3, <1>4, <1>7, WaitBodyResult
     DEF Inv, TypeOK, QueueReader, EmptyStays, QuietEnd
<1> QED
  BY <1>5, <1>6, <1>7 DEF BodyEnds

LEMMA CatchEndsStep == Inv /\ CatchEnds => Inv'
<1> SUFFICES ASSUME Inv, CatchEnds PROVE Inv'
  OBVIOUS
<1>1. Live' = Live
  BY SameLive DEF CatchEnds
<1>2. PICK out \in {"val", "err", "ctl"} :
          EnterWait(out) /\ IF out = "val" THEN PassOn ELSE TellAll
  BY DEF CatchEnds
<1>3. told' \subseteq Job
  BY <1>2, LiveJobs DEF PassOn, TellAll, Inv, TypeOK
<1> QED
  BY <1>1, <1>2, <1>3
     DEF CatchEnds, EnterWait, TellStatement, MaybeWoken, queueVars,
         Inv, TypeOK, QueueReader, EmptyStays, QuietEnd

LEMMA RunStep == Inv /\ Run => Inv'
<1> SUFFICES ASSUME Inv, Run PROVE Inv'
  OBVIOUS
<1>1. Live' = Live
  BY SameLive DEF Run
<1>2. CASE pc \in {"START", "CATCH"} /\ TellStatement /\ UNCHANGED <<pc, tcErr, tcOut, told>>
  BY <1>1, <1>2 DEF Run, TellStatement, queueVars,
                    Inv, TypeOK, QueueReader, EmptyStays, QuietEnd
<1>3. CASE /\ pc = "WAITBODY" /\ WaitBody
           /\ IF Unread /\ hasCatch THEN TellStatement ELSE UNCHANGED tcDestroyed
  <2>1. tcDestroyed' \in BOOLEAN
    BY <1>3 DEF TellStatement, Inv, TypeOK
  <2>2. tcErr = NoError /\ eval = "run" /\ ~saidNone
    BY <1>3 DEF Inv, QueueReader, EmptyStays, TypeOK
  <2> QED
    BY <1>1, <1>3, <2>1, <2>2, WaitBodyResult
       DEF Run, queueVars, Inv, TypeOK, QueueReader, EmptyStays, QuietEnd
<1>4. CASE pc = "WAIT" /\ PassOn /\ EnterWait(tcOut) /\ UNCHANGED <<tcErr, tcDestroyed>>
  BY <1>1, <1>4, LiveJobs
     DEF Run, PassOn, TellAll, EnterWait, queueVars,
         Inv, TypeOK, QueueReader, EmptyStays, QuietEnd
<1> QED
  BY <1>2, <1>3, <1>4 DEF Run

-----------------------------------------------------------------------------
(* The statements and the calculations.                                    *)

\* A calculation that enters leaves nothing empty behind, and is on the list.
LEMMA EnterResult ==
    ASSUME Inv, NEW j \in Job, Enter(j)
    PROVE  /\ job' \in [Job -> {"new", "live", "failed", "flush", "left"}]
           /\ saidNone' = FALSE
  BY DEF Enter, Inv, TypeOK

\* What wake_waiters leaves: an answer is given only for what is there.
LEMMA WakeResult ==
    ASSUME Inv, WakeWaiters, tcErr' = tcErr, pc' = pc,
           errs' \in Seq(Job \cup {Body}), Len(errs') >= Len(errs),
           Live # {}, Live' \subseteq Live
    PROVE  /\ woken' = TRUE /\ saidNone' \in BOOLEAN
           /\ eval' \in {"run", "flush", "flushed", "error", "answered"}
           /\ errTaken' \in 0..Len(errs')
           /\ eval' # "run" => eval # "run"
           /\ eval' \in {"error", "answered"} => eval \in {"error", "answered"}
           /\ errTaken' = errTaken \/ eval = "error"
           /\ saidNone' => Live' = {} /\ errTaken' = Len(errs') /\ tcErr # NoError
           /\ eval' = "flushed" => Live' = {}
<1>1. /\ errTaken \in 0..Len(errs) /\ Len(errs) \in Nat /\ Len(errs') \in Nat
      /\ saidNone = FALSE /\ eval # "flushed"
      /\ eval = "error" => tcErr # NoError
      /\ eval \in {"run", "flush", "flushed", "error", "answered"}
  BY DEF Inv, TypeOK, EmptyStays, QueueReader
<1>2. CASE eval = "error" /\ errTaken < Len(errs')
  <2>1. woken' = TRUE /\ eval' = "answered" /\ errTaken' = errTaken + 1
    BY <1>2 DEF WakeWaiters
  <2>2. saidNone' = FALSE
    BY <1>1, <1>2 DEF WakeWaiters
  <2>3. ~saidNone' /\ saidNone' \in BOOLEAN
    BY <2>2, Zenon
  <2> QED
    BY <1>1, <1>2, <2>1, <2>3
<1>3. CASE eval = "error" /\ ~(errTaken < Len(errs')) /\ Live' = {}
  <2>1. woken' = TRUE /\ eval' = "answered" /\ errTaken' = errTaken /\ saidNone' = TRUE
    BY <1>3 DEF WakeWaiters
  <2> QED
    BY <1>1, <1>3, <2>1
<1>4. CASE eval = "flush" /\ Live' = {}
  <2>1. woken' = TRUE /\ eval' = "flushed" /\ errTaken' = errTaken /\ saidNone' = saidNone
    BY <1>4 DEF WakeWaiters
  <2>2. saidNone' = FALSE
    BY <1>1, <2>1
  <2>3. ~saidNone' /\ saidNone' \in BOOLEAN
    BY <2>2, Zenon
  <2> QED
    BY <1>1, <1>4, <2>1, <2>3
<1>5. CASE /\ ~(eval = "error" /\ errTaken < Len(errs'))
           /\ ~(eval = "error" /\ ~(errTaken < Len(errs')) /\ Live' = {})
           /\ ~(eval = "flush" /\ Live' = {})
  <2>1. woken' = TRUE /\ eval' = eval /\ errTaken' = errTaken /\ saidNone' = saidNone
    BY <1>5 DEF WakeWaiters
  <2>2. saidNone' = FALSE
    BY <1>1, <2>1
  <2>3. ~saidNone' /\ saidNone' \in BOOLEAN
    BY <2>2, Zenon
  <2> QED
    BY <1>1, <1>5, <2>1, <2>3
<1> QED
  BY <1>2, <1>3, <1>4, <1>5

\* A calculation reports, ends, or does both.
LEMMA WorkStep == ASSUME Inv, NEW j \in Job, Work(j) PROVE Inv'
<1>1. /\ UNCHANGED <<pc, tcErr, tcOut, tcDestroyed, hasCatch, destroyed, told>>
      /\ WakeWaiters
  BY DEF Work, Leave, AsyncFails, AgentFails
<1>2. /\ job[j] \in {"live", "failed"}
      /\ \/ job' = [job EXCEPT ![j] = "left"]
         \/ job' = [job EXCEPT ![j] = "failed"]
      /\ errs' = errs \/ errs' = Append(errs, j)
  BY DEF Work, Leave, AsyncFails, AgentFails
<1>3. job' \in [Job -> {"new", "live", "failed", "flush", "left"}]
  BY <1>2 DEF Inv, TypeOK
<1>4. j \in Live /\ Live' \subseteq Live
  BY <1>2 DEF Live, Inv, TypeOK
<1>5. errs' \in Seq(Job \cup {Body}) /\ Len(errs') >= Len(errs)
  <2>1. Len(errs) \in Nat /\ errs \in Seq(Job \cup {Body})
    BY DEF Inv, TypeOK
  <2> QED
    BY <1>2, <2>1, AppendError DEF Inv
<1>6. Live # {}
  BY <1>4
<1>7. /\ woken' = TRUE /\ saidNone' \in BOOLEAN
      /\ eval' \in {"run", "flush", "flushed", "error", "answered"}
      /\ errTaken' \in 0..Len(errs')
      /\ eval' # "run" => eval # "run"
      /\ eval' \in {"error", "answered"} => eval \in {"error", "answered"}
      /\ errTaken' = errTaken \/ eval = "error"
      /\ saidNone' => Live' = {} /\ errTaken' = Len(errs') /\ tcErr # NoError
      /\ eval' = "flushed" => Live' = {}
  BY <1>1, <1>4, <1>5, <1>6, WakeResult
<1>8. TypeOK'
  BY <1>1, <1>3, <1>5, <1>7 DEF Inv, TypeOK
<1>9. QueueReader'
  BY <1>1, <1>7 DEF Inv, QueueReader
<1>10. pc # "DONE"
  BY <1>6 DEF Inv, EmptyStays
<1>11. EmptyStays' /\ QuietEnd'
  BY <1>1, <1>7, <1>10 DEF Inv, EmptyStays, QuietEnd
<1> QED
  BY <1>8, <1>9, <1>11 DEF Inv

\* What the statements do between their start and their end.
LEMMA CallsStep == Inv /\ Calls => Inv'
<1> SUFFICES ASSUME Inv, Calls PROVE Inv'
  OBVIOUS
<1>1. ASSUME NEW j \in Job, Start(j) PROVE Inv'
  BY <1>1, EnterResult
     DEF Start, InStatement, machineVars, Inv, TypeOK, QueueReader, EmptyStays, QuietEnd
<1>2. CASE CallFlush
  BY <1>2, SameLive
     DEF CallFlush, InStatement, machineVars, queueVars,
         Inv, TypeOK, QueueReader, EmptyStays, QuietEnd
<1>3. CASE CallError
  <2>1. Live' = Live /\ pc = "CATCH" /\ eval = "run" /\ tcErr # NoError
    BY <1>3, SameLive DEF CallError, InStatement, Inv, QueueReader
  <2>2. CASE Unread
    <3>1. errTaken + 1 \in 0..Len(errs) /\ ~saidNone
      BY <2>2, NextError DEF Unread, Inv, EmptyStays, TypeOK
    <3> QED
      BY <1>3, <2>1, <2>2, <3>1
         DEF CallError, machineVars, Inv, TypeOK, QueueReader, EmptyStays, QuietEnd
  <2>3. CASE ~Unread
    <3>1. errTaken = Len(errs)
      BY <2>3, NothingUnread DEF Inv
    <3> QED
      BY <1>3, <2>1, <2>3, <3>1
         DEF CallError, machineVars, Inv, TypeOK, QueueReader, EmptyStays, QuietEnd
  <2> QED
    BY <2>2, <2>3
<1>4. CASE CallDestroy
  BY <1>4, SameLive, LiveJobs
     DEF CallDestroy, TellAll, machineVars, queueVars,
         Inv, TypeOK, QueueReader, EmptyStays, QuietEnd
<1> QED
  BY <1>1, <1>2, <1>3, <1>4 DEF Calls

LEMMA SpawnStep == ASSUME Inv, NEW j \in Job, NEW k \in Job, Spawn(j, k) PROVE Inv'
<1>1. j \in Live
  BY DEF Spawn, Live
<1>2. pc # "DONE" /\ eval # "flushed"
  BY <1>1 DEF Inv, EmptyStays
<1>3. /\ job' \in [Job -> {"new", "live", "failed", "flush", "left"}]
      /\ saidNone' = FALSE
      /\ UNCHANGED <<machineVars, eval, told, errs, errTaken>>
  BY EnterResult DEF Spawn
<1> QED
  BY <1>2, <1>3
     DEF machineVars, Inv, TypeOK, QueueReader, EmptyStays, QuietEnd

LEMMA FlushInsideStep == ASSUME Inv, NEW j \in Job, FlushInside(j) PROVE Inv'
<1>1. Live' = Live
  BY DEF FlushInside, Live, Inv, TypeOK
<1>2. job' \in [Job -> {"new", "live", "failed", "flush", "left"}]
  BY DEF FlushInside, Inv, TypeOK
<1> QED
  BY <1>1, <1>2
     DEF FlushInside, machineVars, queueVars,
         Inv, TypeOK, QueueReader, EmptyStays, QuietEnd

LEMMA DestroyStep == Inv /\ Destroy => Inv'
  BY SameLive DEF Destroy, queueVars, Inv, TypeOK, QueueReader, EmptyStays, QuietEnd

LEMMA ResumeStep == Inv /\ Resume => Inv'
  BY SameLive DEF Resume, machineVars, queueVars,
                  Inv, TypeOK, QueueReader, EmptyStays, QuietEnd

LEMMA StutterStep == Inv /\ UNCHANGED vars => Inv'
  BY SameLive DEF vars, machineVars, queueVars,
                  Inv, TypeOK, QueueReader, EmptyStays, QuietEnd

LEMMA NextInv == Inv /\ [Next]_vars => Inv'
<1> SUFFICES ASSUME Inv, [Next]_vars PROVE Inv'
  OBVIOUS
<1>1. CASE Machine
  BY <1>1, IniStep, RunStep, BodyEndsStep, CatchEndsStep, ResumeStep DEF Machine
<1>2. CASE Calls
  BY <1>2, CallsStep
<1>3. CASE Destroy
  BY <1>3, DestroyStep
<1>4. ASSUME NEW j \in Job, Work(j) \/ FlushInside(j) \/ \E k \in Job : Spawn(j, k)
      PROVE  Inv'
  BY <1>4, WorkStep, FlushInsideStep, SpawnStep
<1>5. CASE UNCHANGED vars
  BY <1>5, StutterStep
<1> QED
  BY <1>1, <1>2, <1>3, <1>4, <1>5 DEF Next

THEOREM Invariance == Spec => []Inv
  BY InitInv, NextInv, PTL DEF Spec

-----------------------------------------------------------------------------

\* The machine, the wait list and the queue keep their types.
THEOREM TypeCorrect == Spec => []TypeOK
<1>1. Inv => TypeOK
  BY DEF Inv
<1> QED
  BY <1>1, Invariance, PTL

\* Nothing that belongs to a try runs when the try has given its value, or when flush() returns in
\* its body or its catch.
THEOREM TryIsBarrier == Spec => []Barrier
<1>1. Inv => Barrier
  BY DEF Inv, EmptyStays, Barrier
<1> QED
  BY <1>1, Invariance, PTL

\* A try that gives the value of its body has missed no error of a calculation.
THEOREM NoErrorIsMissed == Spec => []NoErrorMissed
<1>1. Inv => NoErrorMissed
  BY DEF Inv, QuietEnd, NoErrorMissed
<1> QED
  BY <1>1, Invariance, PTL

\* After error() has said 0 no error comes of what was started before.
THEOREM ZeroIsTheEnd == Spec => []ZeroIsFinal
<1>1. Inv => ZeroIsFinal
  <2>1. ASSUME Inv, saidNone PROVE ~Unread
    BY <2>1 DEF Inv, EmptyStays, TypeOK, Unread
  <2> QED
    BY <2>1 DEF ZeroIsFinal
<1> QED
  BY <1>1, Invariance, PTL
=============================================================================
