------------------------ MODULE LoadControl_proofs ------------------------
(* Theorems about LoadControl, for every number of agents and every limit. *)
EXTENDS LoadControl, FiniteSetTheorems, TLAPS

USE DEF gateVars, configVars, Machine

-----------------------------------------------------------------------------
(* The evaluation.                                                         *)

\* The target is a limit the gate may have, and never above V_CPU.
LEMMA LAgentRange ==
  ASSUME LoadAssumption, vCpu \in VCpus, NEW m \in 0..MaxLimit
  PROVE  LAgent(m) \in 1..MaxLimit
  BY DEF LoadAssumption, LAgent, Smaller

\* follow_down keeps a limit in range, and with the ramp never raises it.
LEMMA FollowDownRange ==
  ASSUME LoadAssumption, TypeOK, NEW e \in 1..MaxLimit, NEW m \in 0..MaxLimit, NEW c \in Nat
  PROVE  /\ FollowDown(e, m, c) \in 1..MaxLimit
         /\ ~rampOff => FollowDown(e, m, c) <= e
<1>1. LAgent(m) \in 1..MaxLimit
  BY LAgentRange DEF TypeOK
<1>2. followSlack \in Nat /\ MaxLimit \in Nat /\ rampOff \in BOOLEAN
  BY DEF TypeOK, LoadAssumption
<1> QED BY <1>1, <1>2 DEF FollowDown

\* What follow_down leaves is within the slack, or is the target it was lowered to.
LEMMA FollowDownClose ==
  ASSUME LoadAssumption, TypeOK, ~rampOff,
         NEW e \in 1..MaxLimit, NEW m \in 0..MaxLimit, NEW c \in Nat
  PROVE  \/ FollowDown(e, m, c) <= c + followSlack
         \/ FollowDown(e, m, c) <= c + 2
         \/ FollowDown(e, m, c) < e /\ FollowDown(e, m, c) = LAgent(m)
<1>1. LAgent(m) \in 1..MaxLimit
  BY LAgentRange DEF TypeOK
<1>2. followSlack \in Nat /\ MaxLimit \in Nat
  BY DEF TypeOK, LoadAssumption
<1> QED BY <1>1, <1>2 DEF FollowDown

-----------------------------------------------------------------------------
(* Types.                                                                  *)

LEMMA InsideFinite ==
  ASSUME LoadAssumption
  PROVE  IsFiniteSet(Inside) /\ Cardinality(Inside) \in Nat
<1>1. IsFiniteSet(Inside)
  BY FS_Subset DEF LoadAssumption, Inside
<1> QED BY <1>1, FS_CardinalityType

LEMMA EnterInside ==
  ASSUME LoadAssumption, TypeOK, NEW a \in Agent, phase[a] = "waiting",
         phase' = [phase EXCEPT ![a] = "inside"]
  PROVE  Inside' = Inside \cup {a} /\ a \notin Inside
         /\ cAgent + 1 = Cardinality(Inside') /\ cAgent \in Nat
<1>1. Inside' = Inside \cup {a} /\ a \notin Inside
  BY DEF Inside, TypeOK
<1>2. Cardinality(Inside \cup {a}) = Cardinality(Inside) + 1
  BY <1>1, InsideFinite, FS_AddElement
<1>3. cAgent = Cardinality(Inside) /\ cAgent \in Nat
  BY InsideFinite DEF TypeOK
<1> QED BY <1>1, <1>2, <1>3

LEMMA LeaveInside ==
  ASSUME LoadAssumption, TypeOK, NEW a \in Agent, phase[a] = "inside",
         phase' = [phase EXCEPT ![a] = "out"]
  PROVE  Inside' = Inside \ {a} /\ a \in Inside
         /\ cAgent - 1 = Cardinality(Inside') /\ cAgent - 1 \in Nat
<1>1. Inside' = Inside \ {a} /\ a \in Inside
  BY DEF Inside, TypeOK
<1>2. Cardinality(Inside \ {a}) = Cardinality(Inside) - 1
  BY <1>1, InsideFinite, FS_RemoveElement
<1>3. Cardinality(Inside \ {a}) \in Nat
  <2>1. IsFiniteSet(Inside \ {a})
    BY InsideFinite, FS_RemoveElement
  <2> QED BY <2>1, FS_CardinalityType
<1>4. cAgent = Cardinality(Inside) /\ cAgent \in Nat
  BY InsideFinite DEF TypeOK
<1> QED BY <1>1, <1>2, <1>3, <1>4

LEMMA GiveUpInside ==
  ASSUME TypeOK, NEW a \in Agent, phase[a] = "waiting",
         phase' = [phase EXCEPT ![a] = "out"]
  PROVE  Inside' = Inside
  BY DEF Inside, TypeOK

\* The limit after an agent has come or gone.
LEMMA ApplyType ==
  ASSUME LoadAssumption, TypeOK, NEW e \in 1..MaxLimit, NEW c \in Nat, ApplyAgentLimit(e, c)
  PROVE  /\ effLimit' \in 1..MaxLimit /\ measured' \in 0..MaxLimit /\ kick' \in BOOLEAN
         /\ effLimit' = FollowDown(e, measured', c)
  BY FollowDownRange DEF ApplyAgentLimit, TypeOK

LEMMA LatchedType ==
  ASSUME LoadAssumption, TypeOK, NEW start \in Starts
  PROVE  Latched(start) \in 1..MaxLimit
<1>1. LAgent(measured) \in 1..MaxLimit
  BY LAgentRange DEF TypeOK
<1>2. start \in 1..MaxLimit
  BY DEF LoadAssumption
<1> QED BY <1>1, <1>2 DEF Latched, Smaller, TypeOK

\* Whoever moves the limit, it stays in range, and cAgent is the number of agents inside.
LEMMA EnterType ==
  ASSUME LoadAssumption, TypeOK, NEW a \in Agent, Enter(a)
  PROVE  TypeOK'
<1>1. cAgent + 1 = Cardinality(Inside') /\ cAgent + 1 \in Nat
  <2>1. phase[a] = "waiting" /\ phase' = [phase EXCEPT ![a] = "inside"]
    BY DEF Enter
  <2>2. cAgent + 1 = Cardinality(Inside') /\ cAgent \in Nat
    BY <2>1, EnterInside
  <2> QED BY <2>2
<1>2. PICK start \in Starts : ApplyAgentLimit(Latched(start), cAgent + 1)
  BY DEF Enter
<1>3. effLimit' \in 1..MaxLimit /\ measured' \in 0..MaxLimit /\ kick' \in BOOLEAN
  BY <1>1, <1>2, ApplyType, LatchedType
<1> QED BY <1>1, <1>3 DEF Enter, TypeOK

LEMMA LeaveType ==
  ASSUME LoadAssumption, TypeOK, NEW a \in Agent, Leave(a)
  PROVE  TypeOK'
<1>1. cAgent - 1 = Cardinality(Inside') /\ cAgent - 1 \in Nat
  BY LeaveInside DEF Leave
<1>2. effLimit' \in 1..MaxLimit /\ measured' \in 0..MaxLimit /\ kick' \in BOOLEAN
  BY <1>1, ApplyType DEF Leave, TypeOK
<1> QED BY <1>1, <1>2 DEF Leave, TypeOK

LEMMA TickType ==
  ASSUME TypeOK, NEW e, Tick(e)
  PROVE  state' \in {"RAMP", "IDLE"} /\ timer' = IF state' = "RAMP" THEN "armed" ELSE "off"
  BY DEF Tick

LEMMA RefreshType ==
  ASSUME LoadAssumption, RefreshConfig
  PROVE  vCpu' \in VCpus /\ followSlack' \in Slacks /\ rampOff' \in BOOLEAN
<1>1. \A r \in Ramps : (~r) \in BOOLEAN
  OBVIOUS
<1>2. rampOff' \in BOOLEAN
  BY <1>1 DEF RefreshConfig
<1> QED BY <1>2 DEF RefreshConfig

LEMMA MachineType ==
  ASSUME LoadAssumption, TypeOK, Machine
  PROVE  TypeOK'
<1>1. LAgent(measured) \in 1..MaxLimit
  BY LAgentRange DEF TypeOK
<1>2. ASSUME UNCHANGED phase
      PROVE  Inside' = Inside
  BY <1>2 DEF Inside
<1>3. CASE Ini
  <2>1. effLimit' \in 1..MaxLimit
    BY <1>1, <1>3 DEF Ini, Smaller, TypeOK
  <2>2. \/ state' = "IDLE" /\ timer' = "off"
        \/ state' \in {"RAMP", "IDLE"}
           /\ timer' = IF state' = "RAMP" THEN "armed" ELSE "off"
    BY <1>3, TickType DEF Ini, TypeOK
  <2> QED BY <1>2, <1>3, <2>1, <2>2 DEF Ini, TypeOK
<1>4. CASE Expire
  BY <1>2, <1>4 DEF Expire, TypeOK
<1>5. CASE RampUp
  <2>1. effLimit < RampTarget(measured, cAgent) => effLimit < LAgent(measured)
    <3>1. cAgent \in Nat
      BY InsideFinite DEF TypeOK
    <3> QED BY <1>1, <3>1 DEF RampTarget, Smaller, TypeOK
  <2>2. effLimit' \in 1..MaxLimit
    BY <1>1, <1>5, <2>1 DEF RampUp, TypeOK
  <2>3. state' \in {"RAMP", "IDLE"} /\ timer' = IF state' = "RAMP" THEN "armed" ELSE "off"
    BY <1>5, TickType DEF RampUp
  <2> QED BY <1>2, <1>5, <2>2, <2>3 DEF RampUp, TypeOK
<1>6. CASE Kicked
  BY <1>2, <1>6 DEF Kicked, TypeOK
<1>7. CASE Fin
  BY <1>2, <1>7 DEF Fin, TypeOK
<1>8. CASE SampleEnds \/ WatchEnds
  <2>1. CASE SampleEnds
    BY <1>2, <2>1 DEF SampleEnds, TypeOK
  <2>2. CASE WatchEnds
    <3>1. vCpu' \in VCpus /\ followSlack' \in Slacks /\ rampOff' \in BOOLEAN
      BY <2>2, RefreshType DEF WatchEnds
    <3> QED BY <1>2, <2>2, <3>1 DEF WatchEnds, RefreshConfig, TypeOK
  <2> QED BY <1>8, <2>1, <2>2
<1> QED BY <1>3, <1>4, <1>5, <1>6, <1>7, <1>8

LEMMA OtherType ==
  ASSUME LoadAssumption, TypeOK, Destroy \/ Sample \/ Watch \/ UNCHANGED vars
  PROVE  TypeOK'
<1>1. ASSUME UNCHANGED phase
      PROVE  Inside' = Inside
  BY <1>1 DEF Inside
<1>2. CASE Destroy
  BY <1>1, <1>2 DEF Destroy, TypeOK
<1>5. CASE UNCHANGED vars
  BY <1>1, <1>5 DEF TypeOK, vars
<1>3. CASE Sample
  <2>1. effLimit' \in 1..MaxLimit /\ measured' \in 0..MaxLimit
    BY <1>3, FollowDownRange, InsideFinite DEF Sample, TypeOK
  <2> QED BY <1>1, <1>3, <2>1 DEF Sample, TypeOK
<1>4. CASE Watch
  <2>1. vCpu' \in VCpus /\ followSlack' \in Slacks /\ rampOff' \in BOOLEAN
    BY <1>4, RefreshType DEF Watch
  <2> QED BY <1>1, <1>4, <2>1 DEF Watch, RefreshConfig, TypeOK
<1> QED BY <1>2, <1>3, <1>4, <1>5

LEMMA NextType == LoadAssumption /\ TypeOK /\ [Next]_vars => TypeOK'
<1> SUFFICES ASSUME LoadAssumption, TypeOK, [Next]_vars
             PROVE  TypeOK'
  OBVIOUS
<1>1. ASSUME NEW a \in Agent, GiveUp(a)
      PROVE  TypeOK'
  BY <1>1, GiveUpInside DEF GiveUp, TypeOK
<1> QED BY <1>1, EnterType, LeaveType, MachineType, OtherType DEF Next

LEMMA InitType == LoadAssumption /\ Init => TypeOK
<1> SUFFICES ASSUME LoadAssumption, Init
             PROVE  TypeOK
  OBVIOUS
<1>1. Inside = {}
  BY DEF Init, Inside
<1>2. Cardinality(Inside) = 0
  BY <1>1, FS_EmptySet
<1>3. \A r \in Ramps : (~r) \in BOOLEAN
  OBVIOUS
<1>4. rampOff \in BOOLEAN
  BY <1>3 DEF Init
<1>5. effLimit \in 1..MaxLimit /\ measured \in 0..MaxLimit
  BY DEF Init, LoadAssumption
<1> QED BY <1>2, <1>4, <1>5 DEF Init, TypeOK

\* Types: the limit of the gate is never below one nor above the largest V_CPU or start,
\* and the load control knows how many agents are inside.
THEOREM TypeCorrect == LoadAssumption => (Spec => []TypeOK)
<1> SUFFICES ASSUME LoadAssumption
             PROVE  Spec => []TypeOK
  OBVIOUS
<1>1. Init => TypeOK
  BY InitType
<1>2. TypeOK /\ [Next]_vars => TypeOK'
  BY NextType
<1> QED BY <1>1, <1>2, PTL DEF Spec

-----------------------------------------------------------------------------
(* How the limit moves.                                                    *)

SlowUpStep ==
    effLimit' > effLimit =>
        \/ rampOff
        \/ ~rampStartLatched /\ rampStartLatched'
        \/ effLimit' = effLimit + 1 /\ timer = "expired"

CloseStep ==
    ~rampOff /\ state # "INI" /\ <<effLimit, cAgent>>' # <<effLimit, cAgent>> =>
        \/ \E s \in Slacks \cup {2} : effLimit' <= cAgent' + s
        \/ effLimit' = LAgent(measured') /\ (effLimit' < effLimit \/ ~rampStartLatched)

\* An agent enters: its limit is what follow_down makes of the latched one.
LEMMA EnterLimit ==
  ASSUME LoadAssumption, TypeOK, NEW a \in Agent, Enter(a)
  PROVE  SlowUpStep /\ CloseStep
<1>1. PICK start \in Starts : ApplyAgentLimit(Latched(start), cAgent + 1)
  BY DEF Enter
<1>2. Latched(start) \in 1..MaxLimit /\ (rampStartLatched => Latched(start) = effLimit)
  BY LatchedType DEF Latched
<1>3. cAgent + 1 \in Nat
  BY InsideFinite DEF TypeOK
<1>4. measured' \in 0..MaxLimit /\ effLimit' = FollowDown(Latched(start), measured', cAgent + 1)
  BY <1>1, <1>2, <1>3, ApplyType
<1>5. ~rampOff => effLimit' <= Latched(start)
  BY <1>2, <1>3, <1>4, FollowDownRange
<1>6. ~rampOff => \/ effLimit' <= cAgent + 1 + followSlack
                  \/ effLimit' <= cAgent + 1 + 2
                  \/ effLimit' < Latched(start) /\ effLimit' = LAgent(measured')
  BY <1>2, <1>3, <1>4, FollowDownClose
<1>7. SlowUpStep
  <2>1. rampStartLatched' = TRUE
    BY DEF Enter
  <2>2. effLimit \in Nat /\ effLimit' \in Nat
    BY <1>1, <1>2, <1>3, ApplyType DEF TypeOK, LoadAssumption
  <2> QED BY <1>2, <1>5, <2>1, <2>2 DEF SlowUpStep
<1>8. CloseStep
  <2>1. cAgent' = cAgent + 1 /\ followSlack \in Slacks /\ rampStartLatched \in BOOLEAN
    BY DEF Enter, TypeOK
  <2> QED BY <1>2, <1>6, <2>1 DEF CloseStep
<1> QED BY <1>7, <1>8

LEMMA LeaveLimit ==
  ASSUME LoadAssumption, TypeOK, NEW a \in Agent, Leave(a)
  PROVE  SlowUpStep /\ CloseStep
<1>1. cAgent - 1 \in Nat /\ cAgent' = cAgent - 1
  BY LeaveInside DEF Leave
<1>2. ApplyAgentLimit(effLimit, cAgent - 1)
  BY DEF Leave
<1>3. /\ effLimit \in 1..MaxLimit /\ effLimit' \in 1..MaxLimit /\ measured' \in 0..MaxLimit
      /\ effLimit' = FollowDown(effLimit, measured', cAgent - 1)
  BY <1>1, <1>2, ApplyType DEF TypeOK
<1>4. SlowUpStep
  <2>1. ~rampOff => effLimit' <= effLimit
    BY <1>1, <1>3, FollowDownRange
  <2>2. effLimit \in Nat /\ effLimit' \in Nat
    BY <1>3 DEF LoadAssumption
  <2> QED BY <2>1, <2>2 DEF SlowUpStep
<1>5. CloseStep
  <2>1. ~rampOff => \/ effLimit' <= cAgent' + followSlack
                    \/ effLimit' <= cAgent' + 2
                    \/ effLimit' < effLimit /\ effLimit' = LAgent(measured')
    BY <1>1, <1>3, FollowDownClose
  <2>2. followSlack \in Slacks
    BY DEF TypeOK
  <2> QED BY <2>1, <2>2 DEF CloseStep
<1> QED BY <1>4, <1>5

LEMMA SampleLimit ==
  ASSUME LoadAssumption, TypeOK, Sample
  PROVE  SlowUpStep /\ CloseStep
<1>1. cAgent \in Nat /\ cAgent' = cAgent
  BY InsideFinite DEF Sample, TypeOK
<1>2. /\ effLimit \in 1..MaxLimit /\ measured' \in 0..MaxLimit
      /\ effLimit' = FollowDown(effLimit, measured', cAgent)
  BY DEF Sample, TypeOK
<1>3. effLimit' \in 1..MaxLimit /\ (~rampOff => effLimit' <= effLimit)
  BY <1>1, <1>2, FollowDownRange
<1>4. SlowUpStep
  <2>1. effLimit \in Nat /\ effLimit' \in Nat
    BY <1>2, <1>3 DEF LoadAssumption
  <2> QED BY <1>3, <2>1 DEF SlowUpStep
<1>5. CloseStep
  <2>1. ~rampOff => \/ effLimit' <= cAgent' + followSlack
                    \/ effLimit' <= cAgent' + 2
                    \/ effLimit' < effLimit /\ effLimit' = LAgent(measured')
    BY <1>1, <1>2, FollowDownClose
  <2>2. followSlack \in Slacks
    BY DEF TypeOK
  <2> QED BY <2>1, <2>2 DEF CloseStep
<1> QED BY <1>4, <1>5

\* The machine of the load control itself: INI lowers, RAMP raises by one.
LEMMA MachineLimit ==
  ASSUME LoadAssumption, TypeOK, Ini \/ RampUp
  PROVE  SlowUpStep /\ CloseStep
<1>1. LAgent(measured) \in 1..MaxLimit /\ effLimit \in 1..MaxLimit /\ cAgent \in Nat
  BY LAgentRange, InsideFinite DEF TypeOK
<1>2. MaxLimit \in Nat
  BY DEF LoadAssumption
<1>3. CASE Ini
  <2>1. state = "INI" /\ (~rampOff => effLimit' = Smaller(effLimit, LAgent(measured)))
    BY <1>3 DEF Ini
  <2>2. ~rampOff => effLimit' <= effLimit
    BY <1>1, <1>2, <2>1 DEF Smaller
  <2>3. effLimit' \in 1..MaxLimit
    BY <1>1, <1>3 DEF Ini, Smaller
  <2> QED BY <1>1, <1>2, <2>1, <2>2, <2>3 DEF SlowUpStep, CloseStep
<1>4. CASE RampUp
  <2>1. /\ timer = "expired" /\ cAgent' = cAgent
        /\ effLimit' = IF effLimit < RampTarget(measured, cAgent) THEN effLimit + 1
                       ELSE effLimit
    BY <1>4 DEF RampUp
  <2>2. effLimit < RampTarget(measured, cAgent) => effLimit + 1 <= cAgent + 2
    BY <1>1, <1>2 DEF RampTarget, Smaller
  <2>3. 2 \in Slacks \cup {2}
    OBVIOUS
  <2> QED BY <1>1, <1>2, <2>1, <2>2, <2>3 DEF SlowUpStep, CloseStep
<1> QED BY <1>3, <1>4

\* Every other step leaves the limit and the agents inside alone.
LEMMA SameLimit ==
  ASSUME TypeOK, UNCHANGED <<effLimit, cAgent>>
  PROVE  SlowUpStep /\ CloseStep
<1>1. ~(effLimit' > effLimit)
  <2>1. effLimit \in Int
    BY DEF TypeOK
  <2> QED BY <2>1
<1> QED BY <1>1 DEF SlowUpStep, CloseStep

LEMMA NextLimit == LoadAssumption /\ TypeOK /\ [Next]_vars => SlowUpStep /\ CloseStep
<1> SUFFICES ASSUME LoadAssumption, TypeOK, [Next]_vars
             PROVE  SlowUpStep /\ CloseStep
  OBVIOUS
<1>1. ASSUME \/ Expire \/ Kicked \/ Fin \/ SampleEnds \/ WatchEnds
             \/ Destroy \/ Watch \/ UNCHANGED vars \/ \E a \in Agent : GiveUp(a)
      PROVE  UNCHANGED <<effLimit, cAgent>>
  BY <1>1 DEF Expire, Kicked, Fin, SampleEnds, WatchEnds, RefreshConfig, Destroy, Watch,
              GiveUp, vars
<1> QED BY <1>1, SameLimit, EnterLimit, LeaveLimit, SampleLimit, MachineLimit DEF Next

\* For every number of agents, every V_CPU and every sample: with the ramp, nothing but the
\* first admission and an expired timer raises the limit, and the timer raises it by one.
THEOREM RampIsSlow == LoadAssumption => (Spec => SlowUp)
<1> SUFFICES ASSUME LoadAssumption
             PROVE  Spec => SlowUp
  OBVIOUS
<1>1. TypeOK /\ [Next]_vars => SlowUpStep
  BY NextLimit
<1> QED BY <1>1, TypeCorrect, PTL DEF Spec, SlowUp, SlowUpStep

\* The limit sticks to the number of agents inside, up to the slack, from both sides: the
\* timer and the agents that come and go; the exceptions are those StaysClose names.
THEOREM LimitStaysClose == LoadAssumption => (Spec => StaysClose)
<1> SUFFICES ASSUME LoadAssumption
             PROVE  Spec => StaysClose
  OBVIOUS
<1>1. TypeOK /\ [Next]_vars => CloseStep
  BY NextLimit
<1> QED BY <1>1, TypeCorrect, PTL DEF Spec, StaysClose, CloseStep

-----------------------------------------------------------------------------
(* The load control implements WorkerGate.                                 *)

GateStep == [Gate!Next]_(Gate!vars)

\* FiniteSets, as WorkerGate extends it and as LoadControl does, defines one Cardinality.
LEMMA SameCardinality == ASSUME NEW S PROVE Gate!Cardinality(S) = Cardinality(S)
  BY DEF Gate!Cardinality, Cardinality

LEMMA EnterGate ==
  ASSUME LoadAssumption, TypeOK, NEW a \in Agent, Enter(a)
  PROVE  GateStep
<1>1. phase[a] = "waiting" /\ phase' = [phase EXCEPT ![a] = "inside"]
      /\ Cardinality(Inside) < effLimit
  BY DEF Enter
<1>2. Inside' = Inside \cup {a} /\ a \notin Inside
  BY <1>1, EnterInside
<1>3. effLimit' \in 1..MaxLimit
  BY EnterType DEF TypeOK
<1>4. Gate!Enter(a)
  BY <1>1, <1>2, <1>3, SameCardinality DEF Gate!Enter
<1> QED BY <1>4 DEF GateStep, Gate!Next

LEMMA LeaveGate ==
  ASSUME LoadAssumption, TypeOK, NEW a \in Agent, Leave(a)
  PROVE  GateStep
<1>1. phase[a] = "inside" /\ phase' = [phase EXCEPT ![a] = "out"]
  BY DEF Leave
<1>2. Inside' = Inside \ {a} /\ a \in Inside
  BY <1>1, LeaveInside
<1>3. effLimit' \in 1..MaxLimit
  BY LeaveType DEF TypeOK
<1>4. Gate!Leave(a)
  BY <1>2, <1>3 DEF Gate!Leave
<1> QED BY <1>4 DEF GateStep, Gate!Next

LEMMA LimitGate ==
  ASSUME LoadAssumption, TypeOK, TypeOK', UNCHANGED Inside
  PROVE  GateStep
<1>1. Gate!SetLimit
  BY DEF TypeOK, Gate!SetLimit
<1> QED BY <1>1 DEF GateStep, Gate!Next

\* The load control may move the limit at every step of it, and the gate stays a gate.
THEOREM GateRefinement == LoadAssumption => (Spec => GateSpec)
<1> SUFFICES ASSUME LoadAssumption
             PROVE  Spec => GateSpec
  OBVIOUS
<1>1. Init => Gate!Init
  <2> SUFFICES ASSUME Init
               PROVE  Gate!Init
    OBVIOUS
  <2>1. Inside = {} /\ effLimit \in 1..MaxLimit
    BY DEF Init, Inside, LoadAssumption
  <2> QED BY <2>1 DEF Gate!Init
<1>2. TypeOK /\ [Next]_vars => [Gate!Next]_(Gate!vars)
  <2> SUFFICES ASSUME TypeOK, [Next]_vars
               PROVE  GateStep
    BY DEF GateStep
  <2>1. TypeOK'
    BY NextType
  <2>2. ASSUME Machine \/ Destroy \/ Sample \/ Watch \/ UNCHANGED vars
        PROVE  UNCHANGED Inside
    BY <2>2 DEF Ini, Expire, RampUp, Kicked, Fin, SampleEnds, WatchEnds, RefreshConfig,
                Destroy, Sample, Watch, vars, Inside
  <2>3. ASSUME NEW a \in Agent, GiveUp(a)
        PROVE  UNCHANGED Inside
    BY <2>3, GiveUpInside DEF GiveUp
  <2> QED BY <2>1, <2>2, <2>3, EnterGate, LeaveGate, LimitGate DEF Next
<1> QED BY <1>1, <1>2, TypeCorrect, PTL DEF Spec, GateSpec, Gate!Spec

=============================================================================
