------------------------------ MODULE Mediator ------------------------------
(***************************************************************************)
(* One operation that runs in a process of its own: the mediator of the    *)
(* planner (ptsMediatorExternal), the wire between the processes (a        *)
(* ptsWirePipe at each end of two pipes), and the module process, with its *)
(* application (ptsAgentApplication), the agent that runs the operation    *)
(* (ptsGenericAgent) and the save of its result.  The planner may destroy  *)
(* the mediator or die, the process may crash or be signalled, at any step.*)
(***************************************************************************)
EXTENDS Integers, Sequences, SequencesExt

CONSTANTS
    Graces,       \* grace_ms of the module: "off" (0), "timed" (> 0), "never" (-1)
    Results,      \* what calculations give: "stream", "value" (sent on the wire), "error"
    LaunchFails,  \* fork may fail
    SaveFails,    \* the file of a result may not be opened, or its header not written
    PlannerDies, ProcessCrashes

ASSUME ConstantsAssumption ==
    /\ Graces \subseteq {"off", "timed", "never"}
    /\ Results \subseteq {"stream", "value", "error"}
    /\ {LaunchFails, SaveFails, PlannerDies, ProcessCrashes} \subseteq BOOLEAN

VARIABLES
    planner,     \* the process of the planner
    grace,
    med,         \* the state function of the mediator
    enabled, destroyed,
    medPipe,     \* pipe # thNULL in the mediator
    vparser,     \* the parser of a value runs
    held,        \* the packets put off until it ends
    armed, timer,
    told,        \* what the mediator has told its parent (pigfAgent)
    cut,         \* wireErr: its wire ended before the conversation did
    child,       \* the module process, and how it ended
    reaped,      \* agentReturnFlag
    killSent,
    app,         \* the state function of its application
    appPipe,     \* pipe # thNULL in the application
    runner,      \* the agent: waits for its arguments, calculates, is over
    runnerTold,  \* the agent is_destroyed()
    result, saved,
    pipe,        \* for each end of the wire: the state function of its ptsWirePipe,
    wended,      \*   its sentEnd,
    chan,        \*   the records on the way to it,
    shut,        \*   that the other end has closed what it reads,
    q            \*   and the events that wait for its owner

medVars == <<med, enabled, medPipe, vparser, held, armed, told, cut, reaped, killSent>>
appVars == <<app, appPipe, result, saved>>
wireVars == <<pipe, wended, chan, shut, q>>
vars == <<planner, grace, destroyed, timer, medVars, child, appVars, runner, runnerTold, wireVars>>

Side == {"planner", "module"}
Other(s) == IF s = "planner" THEN "module" ELSE "planner"
Packet == {"SAVE_STREAM", "SAVE_VALUE", "SAVE_DONE", "ERROR", "BYE"}
Record == Packet \cup {"HELLO", "REQ", "END"}
Event == Packet \cup {"ASSERT", "REQ", "EOF", "RETURN_OK", "RETURN_ERR",
                      "PARSED", "TIMER", "DESTROY", "RESULT"}
Return == {"RETURN", "RETURN_WHY", "RETURN_FAILED"}
Message == {"ASSERT", "SAVE_BEGIN", "SAVE_DONE", "ERROR"} \cup Return

\* How a process ends: with code 0; with another (its module cannot be loaded); with 3, having
\* written why (it is of another build); of a signal; of one that a teardown sends (2, 9, 15).
Ending == {"exited", "failed", "mismatch", "crashed", "killed"}

\* A save before the header of its file, after it, and at its end; or one that failed before the
\* header: without a file (or one that is_valid() finds), heard of by the application or not yet.
SaveState == {"no", "meta", "all", "lost", "unheard", "found"}

TypeOK ==
    /\ planner \in {"up", "dead"} /\ grace \in Graces
    /\ med \in {"START", "RUN", "FIN", "DONE"}
    /\ enabled \in BOOLEAN /\ destroyed \in BOOLEAN /\ medPipe \in BOOLEAN
    /\ vparser \in BOOLEAN /\ held \in Seq(Packet)
    /\ armed \in BOOLEAN /\ timer \in {"none", "set", "fired"}
    /\ told \in Seq(Message)
    /\ child \in {"none", "up"} \cup Ending
    /\ cut \in BOOLEAN /\ reaped \in BOOLEAN /\ killSent \in BOOLEAN
    /\ app \in {"INI", "START", "SAVEBEGIN", "SAVEDONE", "CLOSING"} /\ appPipe \in BOOLEAN
    /\ runner \in {"wait", "calc", "over"} /\ runnerTold \in BOOLEAN
    /\ result \in {"none", "stream", "value", "error"} /\ saved \in SaveState
    /\ pipe \in [Side -> {"HELLO", "HDR", "DRAIN", "FIN"}]
    /\ wended \in [Side -> BOOLEAN] /\ shut \in [Side -> BOOLEAN]
    /\ chan \in [Side -> Seq(Record)] /\ q \in [Side -> Seq(Event)]

Init ==
    /\ planner = "up" /\ grace \in Graces
    /\ med = "START" /\ enabled = FALSE /\ destroyed = FALSE /\ medPipe = FALSE
    /\ vparser = FALSE /\ held = <<>> /\ armed = FALSE /\ timer = "none" /\ told = <<>>
    /\ child = "none" /\ cut = FALSE /\ reaped = FALSE /\ killSent = FALSE
    /\ app = "INI" /\ appPipe = TRUE /\ runner = "wait" /\ runnerTold = FALSE
    /\ result = "none" /\ saved = "no"
    /\ pipe = [s \in Side |-> "HELLO"] /\ wended = [s \in Side |-> FALSE]
    /\ chan = [s \in Side |-> <<>>] /\ shut = [s \in Side |-> FALSE]
    /\ q = [s \in Side |-> <<>>]

-----------------------------------------------------------------------------
(* The wire.                                                               *)

\* Mutant of Drain: it does not look for the end of the file while it waits.
DrainBlind(s) == IF wended[s] THEN <<"RETURN_OK">> ELSE <<>>

\* ACT_DRAIN: the other end has nothing more to send.  What is left is to send one's own end, or to
\* see the other end go.
Drain(s) ==
    CASE wended[s] -> <<"RETURN_OK">>
      [] ~wended[s] /\ shut[s] -> <<"EOF", "RETURN_ERR">>
      [] OTHER -> <<>>

\* The end s of the wire reads a record, or finds that there will be none.  It tells its owner.
Pipe(s) ==
    LET Reads(record, state, events) ==
            /\ chan[s] # <<>> /\ record
            /\ chan' = [chan EXCEPT ![s] = Tail(@)]
            /\ pipe' = [pipe EXCEPT ![s] = state]
            /\ q' = [q EXCEPT ![s] = @ \o events]
        Stops(events) ==
            /\ events # <<>>
            /\ pipe' = [pipe EXCEPT ![s] = "FIN"]
            /\ q' = [q EXCEPT ![s] = @ \o events]
            /\ UNCHANGED chan
    IN  /\ \/ pipe[s] = "HELLO" /\ Reads(Head(chan[s]) = "HELLO", "HDR", <<"ASSERT">>)
           \/ pipe[s] = "HDR" /\ Reads(Head(chan[s]) = "END", "DRAIN", <<>>)
           \/ pipe[s] = "HDR" /\ Reads(Head(chan[s]) # "END", "HDR", <<Head(chan[s])>>)
           \/ pipe[s] = "HELLO" /\ chan[s] = <<>> /\ shut[s] /\ Stops(<<"ASSERT", "RETURN_ERR">>)
           \/ pipe[s] = "HDR" /\ chan[s] = <<>> /\ shut[s] /\ Stops(<<"EOF", "RETURN_ERR">>)
           \/ pipe[s] = "DRAIN" /\ Stops(Drain(s))
        /\ UNCHANGED <<wended, shut>>

\* write and wend at the end s: nothing is written by a pipe that is over.
Sends(s, records) ==
    /\ chan' = [chan EXCEPT ![Other(s)] = IF pipe[s] = "FIN" THEN @ ELSE @ \o records]
    /\ wended' = [wended EXCEPT ![s] = @ \/ Last(records) = "END"]

-----------------------------------------------------------------------------
(* The mediator.                                                           *)

\* Mutant of Take: nothing is put off.
TakeNow(m, packet) ==
    CASE packet = "SAVE_VALUE" -> [m EXCEPT !.vparser = TRUE]
      [] packet = "SAVE_STREAM" -> [m EXCEPT !.told = Append(@, "SAVE_BEGIN")]
      [] packet \in {"SAVE_DONE", "ERROR"} -> [m EXCEPT !.told = Append(@, packet)]
      [] OTHER -> m

\* handle_packet, or held while a value is being parsed; m is the parser, held and what was told.
Take(m, packet) ==
    CASE m.vparser -> [m EXCEPT !.held = Append(@, packet)]
      [] ~m.vparser /\ packet = "SAVE_VALUE" -> [m EXCEPT !.vparser = TRUE]
      [] ~m.vparser /\ packet = "SAVE_STREAM" -> [m EXCEPT !.told = Append(@, "SAVE_BEGIN")]
      [] ~m.vparser /\ packet \in {"SAVE_DONE", "ERROR"} -> [m EXCEPT !.told = Append(@, packet)]
      [] OTHER -> m

\* What the event ev makes of the parser, of held and of what was told.
After(ev) ==
    LET m == [vparser |-> vparser, held |-> held, told |-> told]
        parsed == [vparser |-> FALSE, held |-> <<>>, told |-> Append(told, "SAVE_BEGIN")]
    IN  CASE ev = "ASSERT" -> [m EXCEPT !.told = Append(@, "ASSERT")]
          [] ev \in Packet -> Take(m, ev)
          [] ev = "PARSED" -> FoldLeft(Take, parsed, held)
          [] OTHER -> m

\* enable, called by the operation.
Enable ==
    /\ med = "START" /\ ~enabled /\ ~destroyed
    /\ enabled' = TRUE
    /\ UNCHANGED <<planner, grace, destroyed, timer, med, medPipe, vparser, held, armed, told,
                   cut, reaped, killSent, child, appVars, runner, runnerTold, wireVars>>

\* The operation is torn down and destroys the mediator.
Destroy ==
    /\ med # "DONE" /\ ~destroyed
    /\ destroyed' = TRUE
    /\ q' = [q EXCEPT !["planner"] = Append(@, "DESTROY")]
    /\ UNCHANGED <<planner, grace, timer, medVars, child, appVars, runner, runnerTold,
                   pipe, wended, chan, shut>>

\* ACT_START: the process is started (enable_body), or it cannot be, or nobody wants it any more.
Launch ==
    /\ med = "START" /\ enabled
    /\ \/ /\ med' = "RUN" /\ medPipe' = TRUE /\ child' = "up"
          /\ chan' = [chan EXCEPT !["module"] = <<"HELLO">>]
          /\ UNCHANGED told
       \/ /\ LaunchFails
          /\ med' = "DONE" /\ told' = Append(told, "RETURN_FAILED")
          /\ UNCHANGED <<medPipe, child, chan>>
    /\ enabled' = FALSE
    /\ UNCHANGED <<planner, grace, destroyed, timer, vparser, held, armed, cut, reaped, killSent,
                   appVars, runner, runnerTold, pipe, wended, shut, q>>

NotWanted ==
    /\ med = "START" /\ ~enabled /\ destroyed
    /\ med' = "DONE" /\ told' = Append(told, "RETURN")
    /\ UNCHANGED <<planner, grace, destroyed, timer, enabled, medPipe, vparser, held, armed,
                   cut, reaped, killSent, child, appVars, runner, runnerTold, wireVars>>

\* The operation sends the request (pl_write_end): the agent's arguments, and its own end.
Request ==
    /\ med = "RUN" /\ medPipe /\ ~destroyed /\ ~wended["planner"]
    /\ told # <<>> /\ pipe["planner"] \in {"HDR", "DRAIN"}
    /\ Sends("planner", <<"REQ", "END">>)
    /\ UNCHANGED <<planner, grace, destroyed, timer, medVars, child, appVars, runner, runnerTold,
                   pipe, shut, q>>

\* Mutant of Patient: any event ends the grace.
PatientOnce(ev) == grace = "never" \/ (grace = "timed" /\ ~armed)

\* Mutant of Patient: the timer does not end it.
PatientForEver(ev) == grace # "off"

\* A mediator that was destroyed and still has its pipe: it closes the process's input and gives
\* it time, and kills it when the time is over; with a grace of 0 it kills it at once.
Patient(ev) == grace = "never" \/ (grace = "timed" /\ (~armed \/ ev # "TIMER"))

Abandon(ev) ==
    /\ shut' = [shut EXCEPT !["module"] = TRUE]
    /\ armed' = (grace # "off")
    /\ timer' = IF grace = "timed" /\ ~armed THEN "set" ELSE timer
    /\ killSent' = (killSent \/ ~Patient(ev))

\* ACT_RUN, for the first of its events.  With neither pipe nor parser left it goes to FIN_START,
\* whose teardown kills what is left of the process and forgets the wire.
Run ==
    /\ med = "RUN" /\ q["planner"] # <<>>
    /\ LET ev == Head(q["planner"])
           after == After(ev)
           piped == medPipe /\ ev \notin {"RETURN_OK", "RETURN_ERR"}
           over == ~piped /\ ~after.vparser
       IN  /\ told' = after.told /\ vparser' = after.vparser
           /\ medPipe' = piped
           /\ cut' = (cut \/ ev = "RETURN_ERR")
           /\ med' = IF over THEN "FIN" ELSE "RUN"
           /\ held' = IF over THEN <<>> ELSE after.held
           /\ q' = [q EXCEPT !["planner"] = IF over THEN <<>> ELSE Tail(@)]
           /\ pipe' = [pipe EXCEPT !["planner"] = IF over THEN "FIN" ELSE @]
           /\ CASE over ->
                     /\ killSent' = TRUE /\ shut' = [shut EXCEPT !["module"] = TRUE]
                     /\ UNCHANGED <<armed, timer>>
                [] ~over /\ destroyed /\ piped -> Abandon(ev)
                [] OTHER -> UNCHANGED <<shut, armed, timer, killSent>>
    /\ UNCHANGED <<planner, grace, destroyed, enabled, reaped, child, appVars, runner, runnerTold,
                   wended, chan>>

\* Mutant of AgentGone: the mediator does not wait for the process.
AgentGoneOrNot == TRUE

\* FIN_AGENTWAIT: the process has been waited for.
AgentGone == reaped

\* compose_agent_error: no reason for a signal that a teardown sends too, nor for another build,
\* which pigfAgent names itself; one for a bad end, and after a cut wire if anything was on stderr.
Reasons ==
    CASE child \in {"failed", "crashed"} -> {"RETURN_WHY"}
      [] child = "exited" /\ cut        -> {"RETURN", "RETURN_WHY"}
      [] OTHER                          -> {"RETURN"}

AgentWait ==
    /\ med = "FIN" /\ AgentGone
    /\ med' = "DONE"
    /\ \E return \in Reasons : told' = Append(told, return)
    /\ UNCHANGED <<planner, grace, destroyed, timer, enabled, medPipe, vparser, held, armed,
                   cut, reaped, killSent, child, appVars, runner, runnerTold, wireVars>>

\* The value parser ends, having parsed or not.
Parsed ==
    /\ med = "RUN" /\ vparser /\ "PARSED" \notin ToSet(q["planner"])
    /\ q' = [q EXCEPT !["planner"] = Append(@, "PARSED")]
    /\ UNCHANGED <<planner, grace, destroyed, timer, medVars, child, appVars, runner, runnerTold,
                   pipe, wended, chan, shut>>

TimerFires ==
    /\ med = "RUN" /\ timer = "set"
    /\ timer' = "fired"
    /\ q' = [q EXCEPT !["planner"] = Append(@, "TIMER")]
    /\ UNCHANGED <<planner, grace, destroyed, medVars, child, appVars, runner, runnerTold,
                   pipe, wended, chan, shut>>

\* filter: the process was waited for (ts2System).
Reap ==
    /\ child \in Ending /\ ~reaped
    /\ reaped' = TRUE
    /\ UNCHANGED <<planner, grace, destroyed, timer, med, enabled, medPipe, vparser, held, armed,
                   told, cut, killSent, child, appVars, runner, runnerTold, wireVars>>

-----------------------------------------------------------------------------
(* The module process.                                                     *)

\* The process ends: the planner's end of the wire sees it.
Ends(how) ==
    /\ child' = how
    /\ shut' = [shut EXCEPT !["planner"] = TRUE]

\* The application loads its module, opens the wire and starts the agent; or it is of another
\* build, its module cannot be loaded (code 1), or the wire or the agent cannot be made (code 0).
AppIni ==
    /\ app = "INI"
    /\ \/ /\ app' = "START"
          /\ chan' = [chan EXCEPT !["planner"] = <<"HELLO">>]
          /\ UNCHANGED <<child, shut>>
       \/ /\ \E how \in {"exited", "failed", "mismatch"} : Ends(how)
          /\ UNCHANGED <<app, chan>>
    /\ UNCHANGED <<appPipe, result, saved, runner, runnerTold, pipe, wended, q>>

\* What the application has to send is sent, and it closes; without a wire it ends (WEND).
CloseWith(records) ==
    IF appPipe
    THEN /\ app' = "CLOSING" /\ Sends("module", records)
         /\ UNCHANGED <<child, shut>>
    ELSE Ends("exited") /\ UNCHANGED <<app, chan, wended>>

\* ACT_START of the application.
AppStart ==
    /\ app = "START" /\ q["module"] # <<>>
    /\ q' = [q EXCEPT !["module"] = Tail(@)]
    /\ LET ev == Head(q["module"])
           gone == ev \in {"RETURN_OK", "RETURN_ERR"}
       IN  /\ appPipe' = (appPipe /\ ~gone)
           /\ runnerTold' = (runnerTold \/ ev = "EOF" \/ ~appPipe')
           /\ runner' = IF ev = "REQ" /\ runner = "wait" THEN "calc" ELSE runner
           /\ CASE ev = "RESULT" /\ result = "error" -> CloseWith(<<"ERROR", "END">>)
                [] ev = "RESULT" /\ result # "error" ->
                     app' = "SAVEBEGIN" /\ UNCHANGED <<child, shut, chan, wended>>
                [] OTHER -> UNCHANGED <<app, child, shut, chan, wended>>
    /\ UNCHANGED <<result, saved, pipe>>

\* is_valid() is asked again whenever ACT_SAVEBEGIN runs; of a save that is over it takes the file.
AskedAgain == IF app = "SAVEBEGIN" /\ saved = "unheard" THEN "found" ELSE saved

\* ACT_SAVEBEGIN and ACT_SAVEDONE look at nothing but the save: an event of theirs is lost.
AppDeaf ==
    /\ app \in {"SAVEBEGIN", "SAVEDONE"} /\ q["module"] # <<>>
    /\ q' = [q EXCEPT !["module"] = Tail(@)]
    /\ saved' = AskedAgain
    /\ UNCHANGED <<app, appPipe, result, runner, runnerTold, child, pipe, wended, chan, shut>>

AppSaveBegin ==
    /\ app = "SAVEBEGIN" /\ saved \in {"meta", "all", "found"}
    /\ app' = "SAVEDONE"
    /\ IF appPipe
       THEN Sends("module", <<IF result = "value" THEN "SAVE_VALUE" ELSE "SAVE_STREAM">>)
       ELSE UNCHANGED <<chan, wended>>
    /\ UNCHANGED <<appPipe, result, saved, runner, runnerTold, child, pipe, shut, q>>

AppSaveDone ==
    /\ app = "SAVEDONE" /\ saved \in {"all", "found"}
    /\ CloseWith(<<"SAVE_DONE", "BYE", "END">>)
    /\ UNCHANGED <<appPipe, result, saved, runner, runnerTold, pipe, q>>

\* ACT_CLOSING waits for the wire, which tells it once that it is over.
AppClosing ==
    /\ app = "CLOSING" /\ q["module"] # <<>>
    /\ q' = [q EXCEPT !["module"] = Tail(@)]
    /\ IF Head(q["module"]) \in {"RETURN_OK", "RETURN_ERR"}
       THEN Ends("exited")
       ELSE UNCHANGED <<child, shut>>
    /\ UNCHANGED <<appVars, runner, runnerTold, pipe, wended, chan>>

\* The agent ends.  Destroyed, it gives an error whatever was calculated.
Runner ==
    /\ app # "INI"
    /\ runner = "calc" \/ (runner = "wait" /\ runnerTold)
    /\ runner' = "over"
    /\ result' \in IF runnerTold THEN {"error"} ELSE Results
    /\ q' = [q EXCEPT !["module"] = Append(@, "RESULT")]
    /\ UNCHANGED <<app, appPipe, saved, runnerTold, child, pipe, wended, chan, shut>>

\* The save goes on: the header and D_META, which make the file valid, and its end, failed or not.
\* Before that it may fail: then nobody hears of it.  The file it may have left is taken for the
\* result by an is_valid() that comes later; a stream then waits for a reader of it, for ever.
Save ==
    /\ result \in {"stream", "value"} /\ saved \in {"no", "meta"}
    /\ \/ saved' = IF saved = "no" THEN "meta" ELSE "all"
       \/ /\ SaveFails /\ saved = "no"
          /\ \/ saved' = "lost"
             \/ result = "value" /\ saved' = IF app = "SAVEBEGIN" THEN "unheard" ELSE "found"
    /\ UNCHANGED <<app, appPipe, result, runner, runnerTold, child, wireVars>>

\* A signal to the process: filter passes it on to the agent only; the state function runs once more.
Signalled ==
    /\ app # "INI" /\ (~runnerTold \/ saved # AskedAgain)
    /\ runnerTold' = TRUE
    /\ saved' = AskedAgain
    /\ UNCHANGED <<app, appPipe, result, runner, child, wireVars>>

Dies ==
    /\ \/ killSent /\ Ends("killed")
       \/ ProcessCrashes /\ \E how \in {"crashed", "killed"} : Ends(how)
    /\ UNCHANGED <<appVars, runner, runnerTold, pipe, wended, chan, q>>

-----------------------------------------------------------------------------
PlannerDeath ==
    /\ PlannerDies /\ planner' = "dead"
    /\ shut' = [shut EXCEPT !["module"] = (child # "none")]
    /\ UNCHANGED <<grace, destroyed, timer, medVars, child, appVars, runner, runnerTold,
                   pipe, wended, chan, q>>

PlannerPipe ==
    /\ medPipe /\ Pipe("planner")
    /\ UNCHANGED <<planner, grace, destroyed, timer, medVars, child, appVars, runner, runnerTold>>

ModulePipe == app # "INI" /\ Pipe("module") /\ UNCHANGED <<child, appVars, runner, runnerTold>>

MedStep == Launch \/ NotWanted \/ Run \/ AgentWait
PlannerStep == /\ planner = "up"
               /\ \/ Enable \/ Destroy \/ Request \/ MedStep \/ PlannerPipe
                  \/ Parsed \/ TimerFires \/ Reap \/ PlannerDeath

AppStep == AppIni \/ AppStart \/ AppDeaf \/ AppSaveBegin \/ AppSaveDone \/ AppClosing
ModuleStep == /\ child = "up"
              /\ AppStep \/ ModulePipe \/ Runner \/ Save \/ Signalled \/ Dies
              /\ UNCHANGED <<planner, grace, destroyed, timer, medVars>>

Next == PlannerStep \/ ModuleStep

Spec == Init /\ [][Next]_vars

\* Either process runs whatever it has an event for, the timer fires, a kill kills, and a process
\* that is over is waited for.  A calculation ends when the agent is told to.
FairSpec ==
    /\ Spec
    /\ WF_vars(planner = "up" /\ MedStep) /\ WF_vars(planner = "up" /\ PlannerPipe)
    /\ WF_vars(planner = "up" /\ Parsed) /\ WF_vars(planner = "up" /\ TimerFires)
    /\ WF_vars(planner = "up" /\ Reap)
    /\ WF_vars(ModuleStep /\ AppStep) /\ WF_vars(ModuleStep /\ ModulePipe)
    /\ WF_vars(ModuleStep /\ Save) /\ WF_vars(ModuleStep /\ runnerTold /\ Runner)
    /\ WF_vars(ModuleStep /\ killSent /\ Dies)

-----------------------------------------------------------------------------
(* Properties.                                                             *)

\* The operation hears that its mediator is over once, last, and only when no process is left, which
\* the planner would leave behind if it ended first.  Of a process that crashed or could not load its
\* module it hears why; and no reason is made up for one that was killed or that ended as agreed.
MustTell == child \in {"failed", "crashed"}
MayTell == MustTell \/ (child = "exited" /\ cut)
ReturnTells ==
    \A i \in 1..Len(told) : told[i] \in Return =>
        /\ i = Len(told) /\ med = "DONE"
        /\ child # "up"
        /\ MustTell => told[i] = "RETURN_WHY"
        /\ told[i] = "RETURN_WHY" => MayTell

\* What the module process reports reaches the operation in the order it was reported, although
\* a value is parsed in between; and all of it when the wire was not cut.
Told(reports) ==
    \E first \in {<<>>, <<"ASSERT">>}, last \in {<<>>} \cup {<<m>> : m \in Return} :
        told = first \o reports \o last
Relayed ==
    /\ \E reports \in {<<>>, <<"ERROR">>, <<"SAVE_BEGIN">>, <<"SAVE_BEGIN", "SAVE_DONE">>} :
           Told(reports)
    /\ (med = "DONE" /\ child = "exited" /\ app = "CLOSING" /\ ~destroyed /\ planner = "up") =>
           \E reports \in {<<"ERROR">>, <<"SAVE_BEGIN", "SAVE_DONE">>} : Told(reports)

\* A process that is writing its result is not killed before the grace of its module is over.
SaveSpared ==
    [][killSent' /\ ~killSent /\ child = "up"
          /\ result \in {"stream", "value"} /\ saved \in {"no", "meta"}
          => grace = "off" \/ timer = "fired"]_vars

\* A mediator that was destroyed comes to its end, unless its module claims never to need a kill.
DestroyEnds == (destroyed /\ grace # "never") ~> (med = "DONE" \/ planner = "dead")

\* A process whose input was closed ends by itself, unless the close found it saving: then the end
\* of its wire is not noticed; or its save failed so early that SAVEBEGIN waits for ever.
Deaf == /\ app \in {"SAVEBEGIN", "SAVEDONE", "CLOSING"} /\ pipe["module"] = "FIN" /\ appPipe
        /\ ToSet(q["module"]) \cap {"RETURN_OK", "RETURN_ERR"} = {}
NeverSaved == /\ app = "SAVEBEGIN"
              /\ saved = "lost" \/ (saved = "unheard" /\ q["module"] = <<>> /\ pipe["module"] = "FIN")
ProcessFolds == shut["module"] ~> (child # "up" \/ Deaf \/ NeverSaved)

\* It ends by itself in every case.
ProcessAlwaysFolds == shut["module"] ~> child # "up"
=============================================================================
