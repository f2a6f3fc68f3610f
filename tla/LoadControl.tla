---------------------------- MODULE LoadControl ----------------------------
(***************************************************************************)
(* The load control of the planner (ptsLoadControl.cpp): it moves the      *)
(* limit of the worker gate, up by one at a time on a timer, down at once, *)
(* between the agents' steps through the gate (ptsApplication.cpp), with   *)
(* its two companions: the periodic CPU sample (co_ptsLoadControl.cpp) and *)
(* the periodic look at the settings (co_ptsConfigWatch.cpp).              *)
(*                                                                         *)
(* The measurements are abstracted to the number of agents they allow:     *)
(* what /proc says of memory and CPU is chosen anew by every sample.       *)
(***************************************************************************)
EXTENDS Naturals, FiniteSets

CONSTANTS
    Agent,    \* the agents that come to the gate
    MaxLimit, \* the largest V_CPU, and the largest start
    VCpus,    \* the values V_CPU may take (SRAVA_LOAD_CPU, SRAVA_LOAD_AGENT)
    Starts,   \* the values LOAD_RAMP_START may take
    Slacks,   \* the values LOAD_FOLLOW_SLACK may take
    Ramps     \* the values LOAD_RAMP may take (FALSE: no ramp, "rampOff")

ASSUME LoadAssumption ==
    /\ IsFiniteSet(Agent)
    /\ MaxLimit \in Nat \ {0}
    /\ VCpus \subseteq 1..MaxLimit /\ VCpus # {}
    /\ Starts \subseteq 1..MaxLimit /\ Starts # {}
    /\ Slacks \subseteq Nat /\ Slacks # {}
    /\ Ramps \subseteq BOOLEAN /\ Ramps # {}

VARIABLES
    state,     \* the state function of ptsLoadControl that waits
    timer,     \* its timer
    effLimit,  \* the effective limit, which apply writes to the gate
    phase,     \* of every agent: "waiting" at the gate, "inside" or "out"
    cAgent,    \* the agents inside, as set_agents last told
    measured,  \* the smaller of the memory term and the CPU term, 0 if unknown
    vCpu, followSlack, rampOff,
    rampStartLatched,
    kick,      \* a TSE_ASSERT of the application is on its way
    destroyed, \* destroy() of the load control
    cocpu, cocfg  \* the companions: "none", "on", "told" (destroyed) or "gone"

gateVars   == <<effLimit, phase, cAgent, measured, rampStartLatched>>
configVars == <<vCpu, followSlack, rampOff>>
vars == <<state, timer, gateVars, configVars, kick, destroyed, cocpu, cocfg>>

Inside == {a \in Agent : phase[a] = "inside"}

TypeOK ==
    /\ state \in {"INI", "RAMP", "IDLE", "FIN"}
    /\ timer \in {"off", "armed", "expired"}
    /\ effLimit \in 1..MaxLimit
    /\ phase \in [Agent -> {"waiting", "inside", "out"}]
    /\ cAgent = Cardinality(Inside)
    /\ measured \in 0..MaxLimit
    /\ vCpu \in VCpus /\ followSlack \in Slacks /\ rampOff \in BOOLEAN
    /\ rampStartLatched \in BOOLEAN /\ kick \in BOOLEAN /\ destroyed \in BOOLEAN
    /\ cocpu \in {"none", "on", "told", "gone"}
    /\ cocfg \in {"none", "on", "told", "gone"}
    /\ (timer = "off") = (state # "RAMP")

\* The gate is made with the start of the ramp as its limit.
Init ==
    /\ state = "INI" /\ timer = "off"
    /\ effLimit \in Starts
    /\ phase = [a \in Agent |-> "waiting"]
    /\ cAgent = 0 /\ measured = 0
    /\ vCpu \in VCpus /\ followSlack \in Slacks
    /\ rampOff \in {~r : r \in Ramps}
    /\ rampStartLatched = FALSE /\ kick = FALSE /\ destroyed = FALSE
    /\ cocpu = "none" /\ cocfg = "none"

-----------------------------------------------------------------------------
(* The evaluation.                                                         *)

Smaller(x, y) == IF x < y THEN x ELSE y

\* l_agent: the target, from V_CPU and from a measurement m.
LAgent(m) == IF m = 0 THEN vCpu ELSE Smaller(m, vCpu)

\* ramp_target with c agents inside.
RampTarget(m, c) == Smaller(LAgent(m), c + 2)

\* Mutant of FollowDown: the limit is lowered only to the target.
FollowDownToTarget(e, m, c) == IF rampOff THEN LAgent(m) ELSE Smaller(e, LAgent(m))

\* Mutant of FollowDown: the limit may reach zero.
FollowDownToZero(e, m, c) ==
    IF rampOff THEN LAgent(m) ELSE Smaller(Smaller(e, LAgent(m)), c + followSlack)

\* follow_down from the limit e; apply writes no limit below 1.
FollowDown(e, m, c) ==
    CASE rampOff \/ LAgent(m) < e -> LAgent(m)
      [] ~rampOff /\ LAgent(m) >= e /\ e > c + followSlack ->
             IF c + followSlack < 1 THEN 1 ELSE c + followSlack
      [] OTHER -> e

-----------------------------------------------------------------------------
(* The state machine.  A state that is entered with rDO runs at once, so   *)
(* TICK is part of the steps that lead to it.                              *)

\* Mutant of Tick: the timer runs on when there is nothing to raise.
TickUnguarded(e) ==
    state' = (IF e >= RampTarget(measured, cAgent) THEN "IDLE" ELSE "RAMP")
    /\ timer' = "armed"

\* ACT_TICK with the limit e: sleep if there is nothing to raise, else start the timer.
Tick(e) ==
    IF e >= RampTarget(measured, cAgent)
    THEN state' = "IDLE" /\ timer' = "off"
    ELSE state' = "RAMP" /\ timer' = "armed"

\* INI wakes the companions and applies the first limit.
Ini ==
    /\ state = "INI" /\ ~destroyed
    /\ cocpu' = "on" /\ cocfg' = "on"
    /\ \/ rampOff /\ effLimit' = LAgent(measured) /\ state' = "IDLE" /\ UNCHANGED timer
       \/ ~rampOff /\ effLimit' = Smaller(effLimit, LAgent(measured)) /\ Tick(effLimit')
    /\ UNCHANGED <<phase, cAgent, measured, rampStartLatched, configVars, kick, destroyed>>

Expire ==
    /\ timer = "armed" /\ timer' = "expired"
    /\ UNCHANGED <<state, gateVars, configVars, kick, destroyed, cocpu, cocfg>>

\* Mutant of RampUp: to the target in one step.
RampUpAtOnce ==
    /\ state = "RAMP" /\ ~destroyed /\ timer = "expired"
    /\ effLimit' = IF effLimit < RampTarget(measured, cAgent)
                   THEN RampTarget(measured, cAgent) ELSE effLimit
    /\ Tick(effLimit')
    /\ UNCHANGED <<phase, cAgent, measured, rampStartLatched, configVars, kick, destroyed,
                   cocpu, cocfg>>

\* ACT_RAMP after the timer.
RampUp ==
    /\ state = "RAMP" /\ ~destroyed /\ timer = "expired"
    /\ effLimit' = IF effLimit < RampTarget(measured, cAgent) THEN effLimit + 1
                   ELSE effLimit
    /\ Tick(effLimit')
    /\ UNCHANGED <<phase, cAgent, measured, rampStartLatched, configVars, kick, destroyed,
                   cocpu, cocfg>>

\* The TSE_ASSERT arrives: only IDLE cares, and only if there is something to raise.
Kicked ==
    /\ kick /\ kick' = FALSE /\ ~destroyed /\ state \in {"IDLE", "RAMP"}
    /\ IF state = "IDLE" /\ ~rampOff /\ effLimit < RampTarget(measured, cAgent)
       THEN state' = "RAMP" /\ timer' = "armed"
       ELSE UNCHANGED <<state, timer>>
    /\ UNCHANGED <<gateVars, configVars, destroyed, cocpu, cocfg>>

\* Mutant of Fin: the sleeping state does not look at is_destroyed.
FinUnlessIdle ==
    /\ destroyed /\ state = "RAMP"
    /\ state' = "FIN" /\ timer' = "off" /\ cocpu' = "told" /\ cocfg' = "told"
    /\ UNCHANGED <<gateVars, configVars, kick, destroyed>>

\* The waiting states see is_destroyed; FIN stops the timer and destroys the companions.
Fin ==
    /\ destroyed /\ state \in {"RAMP", "IDLE"}
    /\ state' = "FIN" /\ timer' = "off" /\ cocpu' = "told" /\ cocfg' = "told"
    /\ UNCHANGED <<gateVars, configVars, kick, destroyed>>

-----------------------------------------------------------------------------
(* The agents at the gate, and the end of the application.                 *)

\* set_agents latches the start of the ramp with the first agent.
Latched(start) ==
    IF rampStartLatched \/ rampOff THEN effLimit ELSE Smaller(start, LAgent(measured))

\* load_apply_agent_limit: measure, lower the limit from e, wake the ramp if it has to.
ApplyAgentLimit(e, c) ==
    \E m \in 0..MaxLimit :
        /\ measured' = m
        /\ effLimit' = FollowDown(e, m, c)
        /\ kick' = (kick \/ (~rampOff /\ effLimit' < RampTarget(m, c)))

\* Mutant of Enter: the gate is not asked.
EnterUnasked(a) ==
    /\ state \in {"RAMP", "IDLE"} /\ ~destroyed
    /\ phase[a] = "waiting"
    /\ phase' = [phase EXCEPT ![a] = "inside"]
    /\ cAgent' = cAgent + 1
    /\ rampStartLatched' = TRUE
    /\ \E start \in Starts : ApplyAgentLimit(Latched(start), cAgent + 1)
    /\ UNCHANGED <<state, timer, configVars, destroyed, cocpu, cocfg>>

\* gate_get, load_agent_enter and load_apply_agent_limit in ACT_GATE of an agent.
Enter(a) ==
    /\ state \in {"RAMP", "IDLE"} /\ ~destroyed
    /\ phase[a] = "waiting" /\ Cardinality(Inside) < effLimit
    /\ phase' = [phase EXCEPT ![a] = "inside"]
    /\ cAgent' = cAgent + 1
    /\ rampStartLatched' = TRUE
    /\ \E start \in Starts : ApplyAgentLimit(Latched(start), cAgent + 1)
    /\ UNCHANGED <<state, timer, configVars, destroyed, cocpu, cocfg>>

\* load_agent_leave, load_apply_agent_limit and gate_release at the end of an agent.
Leave(a) ==
    /\ phase[a] = "inside"
    /\ phase' = [phase EXCEPT ![a] = "out"]
    /\ cAgent' = cAgent - 1
    /\ ApplyAgentLimit(effLimit, cAgent - 1)
    /\ UNCHANGED <<state, timer, rampStartLatched, configVars, destroyed, cocpu, cocfg>>

\* A teardown takes an agent away from the gate.
GiveUp(a) ==
    /\ phase[a] = "waiting"
    /\ phase' = [phase EXCEPT ![a] = "out"]
    /\ UNCHANGED <<state, timer, effLimit, cAgent, measured, rampStartLatched, configVars,
                   kick, destroyed, cocpu, cocfg>>

\* The application ends after its agents and destroys the load control.
Destroy ==
    /\ state # "INI" /\ ~destroyed /\ \A a \in Agent : phase[a] = "out"
    /\ destroyed' = TRUE
    /\ UNCHANGED <<state, timer, gateVars, configVars, kick, cocpu, cocfg>>

-----------------------------------------------------------------------------
(* The companions.                                                         *)

\* load_sample_cpu: the CPU term is new, the limit follows it down, the ramp stays asleep.
Sample ==
    /\ cocpu = "on"
    /\ measured' \in 0..MaxLimit
    /\ effLimit' = FollowDown(effLimit, measured', cAgent)
    /\ UNCHANGED <<state, timer, phase, cAgent, rampStartLatched, configVars, kick,
                   destroyed, cocpu, cocfg>>

\* refresh_config: the variables of the script, read again; no limit is applied.
RefreshConfig ==
    /\ vCpu' \in VCpus /\ followSlack' \in Slacks /\ rampOff' \in {~r : r \in Ramps}
    /\ UNCHANGED <<state, timer, gateVars, kick, destroyed, cocpu>>

Watch == cocfg = "on" /\ RefreshConfig /\ UNCHANGED cocfg

\* Told to end, the companions do; the watch reads the settings a last time.
SampleEnds ==
    /\ cocpu = "told" /\ cocpu' = "gone"
    /\ UNCHANGED <<state, timer, gateVars, configVars, kick, destroyed, cocfg>>
WatchEnds == cocfg = "told" /\ RefreshConfig /\ cocfg' = "gone"

-----------------------------------------------------------------------------

Ended == state = "FIN" /\ cocpu = "gone" /\ cocfg = "gone"
Machine == Ini \/ Expire \/ RampUp \/ Kicked \/ Fin \/ SampleEnds \/ WatchEnds

Next ==
    \/ Machine
    \/ \E a \in Agent : Enter(a) \/ Leave(a) \/ GiveUp(a)
    \/ Destroy \/ Sample \/ Watch
    \/ Ended /\ UNCHANGED vars

Spec == Init /\ [][Next]_vars

\* Events and timers are served, and an agent inside ends; nothing is assumed of the
\* samples, of the script or of the end of the application.
Fairness ==
    /\ WF_vars(Ini) /\ WF_vars(Expire) /\ WF_vars(RampUp) /\ WF_vars(Kicked)
    /\ WF_vars(Fin) /\ WF_vars(SampleEnds) /\ WF_vars(WatchEnds)
    /\ \A a \in Agent : WF_vars(Enter(a)) /\ WF_vars(Leave(a))

FairSpec == Spec /\ Fairness

-----------------------------------------------------------------------------

\* The load control moves the limit of the gate under the agents' feet and the gate keeps
\* its promise: nobody enters a full one, nobody is thrown out of one that got too small.
Gate == INSTANCE WorkerGate WITH Worker <- Agent, holders <- Inside, limit <- effLimit
GateSpec == Gate!Spec

\* Agents are let in one measured step at a time (ptsLoadControl.cpp:10-20): outside the
\* first admission the limit goes up only by one, after the time to grow has passed.
SlowUp ==
    [][effLimit' > effLimit =>
         \/ rampOff
         \/ ~rampStartLatched /\ rampStartLatched'
         \/ effLimit' = effLimit + 1 /\ timer = "expired"]_vars

\* The limit sticks to the number of agents that run (ptsLoadControl.cpp:401-406), so that
\* a burst after a narrow stretch of the program meets the ramp again: every step that
\* moves the limit, or the number of agents, ends within reach of that number, unless it
\* ends at the target of a limit that follow_down lowers, or that the first agent latches.
StaysClose ==
    [][~rampOff /\ state # "INI" /\ <<effLimit, cAgent>>' # <<effLimit, cAgent>> =>
         \/ \E s \in Slacks \cup {2} : effLimit' <= cAgent' + s
         \/ effLimit' = LAgent(measured') /\ (effLimit' < effLimit \/ ~rampStartLatched)]_vars

\* Every agent that comes to the gate gets through it.
AllServed == <>(\A a \in Agent : phase[a] = "out")

\* After destroy() no state waits for a timer any more and both companions are gone: the
\* application, which waits for them, can end (ptsLoadControl.cpp:303-350).
Ends == destroyed ~> Ended
=============================================================================
