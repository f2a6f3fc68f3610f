------------------------- MODULE PigfAgent_proofs -------------------------
(* Theorems about PigfAgent for every graph of operations: its types, the  *)
(* worker gate, and who writes a cache file.                               *)
EXTENDS PigfAgent, FiniteSetTheorems, TLAPS

-----------------------------------------------------------------------------
(* Types of everything that is not a counter.                              *)

Shape == AgentTypeOK /\ FlagTypeOK /\ MedTypeOK /\ AppTypeOK

USE DEF Shape, PC, Chained, Waiting, MedState, MedEvent, Goto, frontVars, agentVars,
        flagVars, medVars, gateVars, appVars, tryVars, sharedVars, otherVars

LEMMA ShapeStart ==
  ASSUME NodeAssumption, Shape, NEW n \in Node, Start(n)
  PROVE  Shape'
<1>1. CASE StartError(n)
  BY <1>1 DEF StartError, AgentTypeOK, FlagTypeOK, MedTypeOK, AppTypeOK
<1>2. CASE StartHit(n)
  BY <1>2 DEF StartHit, AgentTypeOK, FlagTypeOK, MedTypeOK, AppTypeOK
<1>3. CASE StartDup(n)
  BY <1>3 DEF StartDup, NodeAssumption, AgentTypeOK, FlagTypeOK, MedTypeOK, AppTypeOK
<1>4. CASE StartFirst(n)
  <2>1. AgentTypeOK'
    BY <1>4 DEF StartFirst, Claim, Continue, NodeAssumption, AgentTypeOK
  <2>2. FlagTypeOK'
    BY <1>4 DEF StartFirst, Claim, Continue, NodeAssumption, FlagTypeOK
  <2>3. MedTypeOK'
    BY <1>4 DEF StartFirst, Claim, Continue, NodeAssumption, MedTypeOK
  <2>4. AppTypeOK'
    BY <1>4 DEF StartFirst, Claim, Continue, NodeAssumption, AppTypeOK
  <2> QED BY <2>1, <2>2, <2>3, <2>4
<1>5. CASE StartDelayed(n)
  BY <1>5 DEF StartDelayed, Continue, AgentTypeOK, FlagTypeOK, MedTypeOK, AppTypeOK
<1> QED BY <1>1, <1>2, <1>3, <1>4, <1>5 DEF Start

LEMMA ShapeLaunch ==
  ASSUME NodeAssumption, Shape, NEW n \in Node, Launch(n)
  PROVE  Shape'
<1>1. CASE LaunchOk(n)
  BY <1>1 DEF LaunchOk, AgentTypeOK, FlagTypeOK, MedTypeOK, AppTypeOK
<1>2. CASE LaunchNoCommand(n)
  BY <1>2 DEF LaunchNoCommand, AgentTypeOK, FlagTypeOK, MedTypeOK, AppTypeOK
<1>3. CASE LaunchFail(n)
  BY <1>3 DEF LaunchFail, LeaveGate, AgentTypeOK, FlagTypeOK, MedTypeOK, AppTypeOK
<1> QED BY <1>1, <1>2, <1>3 DEF Launch

LEMMA ShapeHello ==
  ASSUME NodeAssumption, Shape, NEW n \in Node, Hello(n)
  PROVE  Shape'
<1>1. CASE HelloReturned(n)
  <2>1. AgentTypeOK'
    BY <1>1 DEF HelloReturned, LeaveGate, AgentTypeOK
  <2>2. FlagTypeOK'
    BY <1>1 DEF HelloReturned, LeaveGate, FlagTypeOK
  <2>3. MedTypeOK'
    BY <1>1 DEF HelloReturned, LeaveGate, MedTypeOK
  <2>4. AppTypeOK'
    BY <1>1 DEF HelloReturned, LeaveGate, AppTypeOK
  <2> QED BY <2>1, <2>2, <2>3, <2>4
<1>2. CASE HelloAssert(n)
  <2>1. AgentTypeOK'
    BY <1>2 DEF HelloAssert, Receive, AgentTypeOK
  <2>2. FlagTypeOK'
    BY <1>2 DEF HelloAssert, Receive, FlagTypeOK
  <2>3. MedTypeOK'
    BY <1>2 DEF HelloAssert, Receive, MedTypeOK
  <2>4. AppTypeOK'
    BY <1>2 DEF HelloAssert, Receive, AppTypeOK
  <2> QED BY <2>1, <2>2, <2>3, <2>4
<1> QED BY <1>1, <1>2 DEF Hello

LEMMA ShapeSend ==
  ASSUME NodeAssumption, Shape, NEW n \in Node, Send(n)
  PROVE  Shape'
<1>0. HashOf[n] \in Hash
  BY DEF NodeAssumption
<1>1. CASE SendAbort(n)
  BY <1>1 DEF SendAbort, Sent, AgentTypeOK, FlagTypeOK, MedTypeOK, AppTypeOK
<1>2. CASE SendError(n)
  BY <1>2 DEF SendError, Sent, AgentTypeOK, FlagTypeOK, MedTypeOK, AppTypeOK
<1>3. CASE SendReady(n)
  BY <1>3 DEF SendReady, SendGoesOn, Sent, AgentTypeOK, FlagTypeOK, MedTypeOK, AppTypeOK
<1>4. CASE SendHit(n)
  <2>1. AgentTypeOK'
    <3>1. cachePath' = [cachePath EXCEPT ![n] = TRUE] /\ UNCHANGED <<front, dupOf, err>>
      BY <1>4 DEF SendHit, otherVars
    <3>2. cachePath' \in [Node -> BOOLEAN]
      BY <3>1, Zenon DEF AgentTypeOK
    <3>3. promiseResolved' \in [Node -> BOOLEAN]
      <4>1. promiseResolved' = [promiseResolved EXCEPT ![n] = TRUE] \/ promiseResolved' = promiseResolved
        BY <1>4, Zenon DEF SendHit
      <4> QED BY <4>1, Zenon DEF AgentTypeOK
    <3>4. pc' \in [Node -> PC]
      BY <1>4 DEF SendHit, AgentTypeOK
    <3>5. begin' \in [Node -> {"none", "begin", "alias"}] /\ result' \in [Node -> {"none", "val", "err"}]
      BY <1>4 DEF SendHit, AgentTypeOK
    <3> QED BY <3>1, <3>2, <3>3, <3>4, <3>5 DEF AgentTypeOK
  <2>2. FlagTypeOK'
    BY <1>4 DEF SendHit, SendHashes, SendGoesOn, Sent, FlagTypeOK
  <2>3. MedTypeOK'
    BY <1>4 DEF SendHit, SendHashes, SendGoesOn, Sent, MedTypeOK
  <2>4. AppTypeOK'
    BY <1>4 DEF SendHit, SendHashes, SendGoesOn, Sent, AppTypeOK
  <2> QED BY <2>1, <2>2, <2>3, <2>4
<1>5. CASE SendDup(n)
  <2>1. AgentTypeOK'
    <3>1. cachePath' = [cachePath EXCEPT ![n] = TRUE] /\ UNCHANGED <<result, err>>
      BY <1>5 DEF SendDup
    <3>2. cachePath' \in [Node -> BOOLEAN]
      BY <3>1, Zenon DEF AgentTypeOK
    <3>3. promiseResolved' \in [Node -> BOOLEAN]
      <4>1. promiseResolved' = [promiseResolved EXCEPT ![n] = TRUE] \/ promiseResolved' = promiseResolved
        BY <1>5, Zenon DEF SendDup
      <4> QED BY <4>1, Zenon DEF AgentTypeOK
    <3>4. pc' \in [Node -> PC]
      BY <1>5 DEF SendDup, AgentTypeOK
    <3>5. dupOf' \in [Node -> Node \cup {NoNode}]
      BY <1>0, <1>5 DEF SendDup, SendHashes, AgentTypeOK, AppTypeOK
    <3>6. /\ begin' \in [Node -> {"none", "begin", "alias"}]
          /\ front' \in [Node -> {"none", "cont", "val", "err", "alias"}]
      BY <1>5 DEF SendDup, AgentTypeOK
    <3> QED BY <3>1, <3>2, <3>3, <3>4, <3>5, <3>6 DEF AgentTypeOK
  <2>2. FlagTypeOK'
    BY <1>0, <1>5 DEF SendDup, SendHashes, SendGoesOn, Sent, FlagTypeOK
  <2>3. MedTypeOK'
    BY <1>0, <1>5 DEF SendDup, SendHashes, SendGoesOn, Sent, MedTypeOK
  <2>4. AppTypeOK'
    BY <1>0, <1>5 DEF SendDup, SendHashes, SendGoesOn, Sent, AppTypeOK
  <2> QED BY <2>1, <2>2, <2>3, <2>4
<1>6. CASE SendFirst(n)
  <2>1. AgentTypeOK'
    BY <1>6 DEF SendFirst, SendHashes, SendGoesOn, Sent, Claim, NodeAssumption, AgentTypeOK
  <2>2. FlagTypeOK'
    BY <1>6 DEF SendFirst, SendHashes, SendGoesOn, Sent, Claim, NodeAssumption, FlagTypeOK
  <2>3. MedTypeOK'
    BY <1>6 DEF SendFirst, SendHashes, SendGoesOn, Sent, Claim, NodeAssumption, MedTypeOK
  <2>4. AppTypeOK'
    BY <1>6 DEF SendFirst, SendHashes, SendGoesOn, Sent, Claim, NodeAssumption, AppTypeOK
  <2> QED BY <2>1, <2>2, <2>3, <2>4
<1> QED BY <1>1, <1>2, <1>3, <1>4, <1>5, <1>6 DEF Send

LEMMA ShapeResult ==
  ASSUME NodeAssumption, Shape, NEW n \in Node, Result(n)
  PROVE  Shape'
<1>1. CASE ResultSaveBegin(n)
  <2>1. AgentTypeOK'
    BY <1>1 DEF ResultSaveBegin, Receive, Release, NodeAssumption, AgentTypeOK
  <2>2. FlagTypeOK'
    BY <1>1 DEF ResultSaveBegin, Receive, Release, NodeAssumption, FlagTypeOK
  <2>3. MedTypeOK'
    BY <1>1 DEF ResultSaveBegin, Receive, Release, NodeAssumption, MedTypeOK
  <2>4. AppTypeOK'
    BY <1>1 DEF ResultSaveBegin, Receive, Release, NodeAssumption, AppTypeOK
  <2> QED BY <2>1, <2>2, <2>3, <2>4
<1>2. CASE ResultSaveDone(n)
  <2>1. AgentTypeOK'
    BY <1>2 DEF ResultSaveDone, Receive, AgentTypeOK
  <2>2. FlagTypeOK'
    BY <1>2 DEF ResultSaveDone, Receive, FlagTypeOK
  <2>3. MedTypeOK'
    BY <1>2 DEF ResultSaveDone, Receive, MedTypeOK
  <2>4. AppTypeOK'
    BY <1>2 DEF ResultSaveDone, Receive, AppTypeOK
  <2> QED BY <2>1, <2>2, <2>3, <2>4
<1>3. CASE ResultError(n)
  <2>1. AgentTypeOK'
    BY <1>3 DEF ResultError, Receive, AgentTypeOK
  <2>2. FlagTypeOK'
    BY <1>3 DEF ResultError, Receive, FlagTypeOK
  <2>3. MedTypeOK'
    BY <1>3 DEF ResultError, Receive, MedTypeOK
  <2>4. AppTypeOK'
    BY <1>3 DEF ResultError, Receive, AppTypeOK
  <2> QED BY <2>1, <2>2, <2>3, <2>4
<1> QED BY <1>1, <1>2, <1>3 DEF Result

LEMMA ShapeFinish ==
  ASSUME NodeAssumption, Shape, NEW n \in Node, Finish(n)
  PROVE  Shape'
<1>1. CASE Error(n)
  <2>1. AgentTypeOK'
    BY <1>1 DEF Error, AnswerError, ResolveBegin, AgentTypeOK
  <2>2. FlagTypeOK'
    BY <1>1 DEF Error, AnswerError, ResolveBegin, FlagTypeOK
  <2>3. MedTypeOK'
    BY <1>1 DEF Error, AnswerError, ResolveBegin, MedTypeOK
  <2>4. AppTypeOK'
    <3>1. TryOf[n] \in Try
      BY DEF NodeAssumption
    <3>2. tryErrs' \in {tryErrs, tryErrs \cup {TryOf[n]}} /\ agentError' \in {agentError, TRUE}
      BY <1>1 DEF Error
    <3>3. tryErrs' \subseteq Try /\ agentError' \in BOOLEAN
      BY <3>1, <3>2 DEF AppTypeOK
    <3> QED BY <1>1, <3>3 DEF Error, AppTypeOK
  <2> QED BY <2>1, <2>2, <2>3, <2>4
<1>2. CASE AbortToError(n)
  BY <1>2 DEF AbortToError, AgentTypeOK, FlagTypeOK, MedTypeOK, AppTypeOK
<1>3. CASE Abort(n)
  <2>1. AgentTypeOK'
    BY <1>3 DEF Abort, AnswerError, ResolveBegin, AgentTypeOK
  <2>2. FlagTypeOK'
    BY <1>3 DEF Abort, AnswerError, ResolveBegin, FlagTypeOK
  <2>3. MedTypeOK'
    BY <1>3 DEF Abort, AnswerError, ResolveBegin, MedTypeOK
  <2>4. AppTypeOK'
    BY <1>3 DEF Abort, AnswerError, ResolveBegin, AppTypeOK
  <2> QED BY <2>1, <2>2, <2>3, <2>4
<1>4. CASE Fin(n)
  BY <1>4 DEF Fin, AgentTypeOK, FlagTypeOK, MedTypeOK, AppTypeOK
<1>5. CASE MedWait(n)
  <2>1. AgentTypeOK'
    BY <1>5 DEF MedWait, LeaveGate, Release, NodeAssumption, AgentTypeOK
  <2>2. FlagTypeOK'
    BY <1>5 DEF MedWait, LeaveGate, Release, NodeAssumption, FlagTypeOK
  <2>3. MedTypeOK'
    BY <1>5 DEF MedWait, LeaveGate, Release, NodeAssumption, MedTypeOK
  <2>4. AppTypeOK'
    BY <1>5 DEF MedWait, LeaveGate, Release, NodeAssumption, AppTypeOK
  <2> QED BY <2>1, <2>2, <2>3, <2>4
<1> QED BY <1>1, <1>2, <1>3, <1>4, <1>5 DEF Finish

LEMMA ShapeEvent ==
  ASSUME NodeAssumption, Shape, NEW n \in Node, Event(n)
  PROVE  Shape'
<1>1. CASE Filter(n)
  <2>1. AgentTypeOK'
    BY <1>1 DEF Filter, Receive, AgentTypeOK
  <2>2. FlagTypeOK'
    BY <1>1 DEF Filter, Receive, FlagTypeOK
  <2>3. MedTypeOK'
    BY <1>1 DEF Filter, Receive, MedTypeOK
  <2>4. AppTypeOK'
    BY <1>1 DEF Filter, Receive, AppTypeOK
  <2> QED BY <2>1, <2>2, <2>3, <2>4
<1>2. CASE Ignore(n)
  <2>1. AgentTypeOK'
    BY <1>2 DEF Ignore, Receive, AgentTypeOK
  <2>2. FlagTypeOK'
    BY <1>2 DEF Ignore, Receive, FlagTypeOK
  <2>3. MedTypeOK'
    BY <1>2 DEF Ignore, Receive, MedTypeOK
  <2>4. AppTypeOK'
    BY <1>2 DEF Ignore, Receive, AppTypeOK
  <2> QED BY <2>1, <2>2, <2>3, <2>4
<1> QED BY <1>1, <1>2 DEF Event

LEMMA ShapeTeardownSeen ==
  ASSUME NodeAssumption, Shape, NEW n \in Node, TeardownSeen(n)
  PROVE  Shape'
<1>1. CASE GoAbort(n)
  BY <1>1 DEF GoAbort, AgentTypeOK, FlagTypeOK, MedTypeOK, AppTypeOK
<1>2. CASE HelloAbort(n)
  BY <1>2 DEF HelloAbort, AgentTypeOK, FlagTypeOK, MedTypeOK, AppTypeOK
<1>3. CASE ByeAbort(n)
  BY <1>3 DEF ByeAbort, AgentTypeOK, FlagTypeOK, MedTypeOK, AppTypeOK
<1> QED BY <1>1, <1>2, <1>3 DEF TeardownSeen

LEMMA ShapeMediator ==
  ASSUME NodeAssumption, Shape, NEW n \in Node, Mediator(n)
  PROVE  Shape'
<1>1. CASE MedHandshake(n)
  <2>1. AgentTypeOK'
    BY <1>1 DEF MedHandshake, MedStep, AgentTypeOK
  <2>2. FlagTypeOK'
    BY <1>1 DEF MedHandshake, MedStep, FlagTypeOK
  <2>3. MedTypeOK'
    BY <1>1 DEF MedHandshake, MedStep, MedTypeOK
  <2>4. AppTypeOK'
    BY <1>1 DEF MedHandshake, MedStep, AppTypeOK
  <2> QED BY <2>1, <2>2, <2>3, <2>4
<1>2. CASE MedLaunchFailed(n)
  <2>1. AgentTypeOK'
    BY <1>2 DEF MedLaunchFailed, MedStep, AgentTypeOK
  <2>2. FlagTypeOK'
    BY <1>2 DEF MedLaunchFailed, MedStep, FlagTypeOK
  <2>3. MedTypeOK'
    BY <1>2 DEF MedLaunchFailed, MedStep, MedTypeOK
  <2>4. AppTypeOK'
    BY <1>2 DEF MedLaunchFailed, MedStep, AppTypeOK
  <2> QED BY <2>1, <2>2, <2>3, <2>4
<1>3. CASE MedSaveBegin(n)
  <2>1. AgentTypeOK'
    BY <1>3 DEF MedSaveBegin, MedStep, NodeAssumption, AgentTypeOK
  <2>2. FlagTypeOK'
    BY <1>3 DEF MedSaveBegin, MedStep, NodeAssumption, FlagTypeOK
  <2>3. MedTypeOK'
    BY <1>3 DEF MedSaveBegin, MedStep, NodeAssumption, MedTypeOK
  <2>4. AppTypeOK'
    BY <1>3 DEF MedSaveBegin, MedStep, NodeAssumption, AppTypeOK
  <2> QED BY <2>1, <2>2, <2>3, <2>4
<1>4. CASE MedSaveDone(n)
  <2>1. AgentTypeOK'
    BY <1>4 DEF MedSaveDone, MedStep, NodeAssumption, AgentTypeOK
  <2>2. FlagTypeOK'
    BY <1>4 DEF MedSaveDone, MedStep, NodeAssumption, FlagTypeOK
  <2>3. MedTypeOK'
    BY <1>4 DEF MedSaveDone, MedStep, NodeAssumption, MedTypeOK
  <2>4. AppTypeOK'
    BY <1>4 DEF MedSaveDone, MedStep, NodeAssumption, AppTypeOK
  <2> QED BY <2>1, <2>2, <2>3, <2>4
<1>5. CASE MedError(n)
  <2>1. AgentTypeOK'
    BY <1>5 DEF MedError, MedStep, AgentTypeOK
  <2>2. FlagTypeOK'
    BY <1>5 DEF MedError, MedStep, FlagTypeOK
  <2>3. MedTypeOK'
    BY <1>5 DEF MedError, MedStep, MedTypeOK
  <2>4. AppTypeOK'
    BY <1>5 DEF MedError, MedStep, AppTypeOK
  <2> QED BY <2>1, <2>2, <2>3, <2>4
<1>6. CASE MedExit(n)
  <2>1. AgentTypeOK'
    BY <1>6 DEF MedExit, MedStep, AgentTypeOK
  <2>2. FlagTypeOK'
    BY <1>6 DEF MedExit, MedStep, FlagTypeOK
  <2>3. MedTypeOK'
    BY <1>6 DEF MedExit, MedStep, MedTypeOK
  <2>4. AppTypeOK'
    BY <1>6 DEF MedExit, MedStep, AppTypeOK
  <2> QED BY <2>1, <2>2, <2>3, <2>4
<1>7. CASE MedDie(n)
  <2>1. AgentTypeOK'
    BY <1>7 DEF MedDie, MedStep, AgentTypeOK
  <2>2. FlagTypeOK'
    BY <1>7 DEF MedDie, MedStep, FlagTypeOK
  <2>3. MedTypeOK'
    BY <1>7 DEF MedDie, MedStep, MedTypeOK
  <2>4. AppTypeOK'
    BY <1>7 DEF MedDie, MedStep, AppTypeOK
  <2> QED BY <2>1, <2>2, <2>3, <2>4
<1> QED BY <1>1, <1>2, <1>3, <1>4, <1>5, <1>6, <1>7 DEF Mediator

LEMMA ShapeAdvance ==
  ASSUME NodeAssumption, Shape, NEW n \in Node, Advance(n)
  PROVE  Shape'
<1>1. CASE Ini(n)
  <2>1. AgentTypeOK'
    BY <1>1 DEF Ini, NodeAssumption, AgentTypeOK
  <2>2. FlagTypeOK'
    BY <1>1 DEF Ini, NodeAssumption, FlagTypeOK
  <2>3. MedTypeOK'
    BY <1>1 DEF Ini, NodeAssumption, MedTypeOK
  <2>4. AppTypeOK'
    BY <1>1 DEF Ini, NodeAssumption, AppTypeOK
  <2> QED BY <2>1, <2>2, <2>3, <2>4
<1>2. CASE FirstWait(n)
  BY <1>2 DEF FirstWait, AgentTypeOK, FlagTypeOK, MedTypeOK, AppTypeOK
<1>3. CASE GateEnter(n)
  BY <1>3 DEF GateEnter, AgentTypeOK, FlagTypeOK, MedTypeOK, AppTypeOK
<1>4. CASE SendOp(n)
  BY <1>4 DEF SendOp, AgentTypeOK, FlagTypeOK, MedTypeOK, AppTypeOK
<1>5. CASE SendEnd(n)
  <2>1. AgentTypeOK'
    BY <1>5 DEF SendEnd, ResolveBegin, AgentTypeOK
  <2>2. FlagTypeOK'
    BY <1>5 DEF SendEnd, ResolveBegin, FlagTypeOK
  <2>3. MedTypeOK'
    BY <1>5 DEF SendEnd, ResolveBegin, MedTypeOK
  <2>4. AppTypeOK'
    BY <1>5 DEF SendEnd, ResolveBegin, AppTypeOK
  <2> QED BY <2>1, <2>2, <2>3, <2>4
<1>6. CASE Bye(n)
  BY <1>6 DEF Bye, AgentTypeOK, FlagTypeOK, MedTypeOK, AppTypeOK
<1>7. CASE CacheRead(n)
  <2>1. AgentTypeOK'
    BY <1>7 DEF CacheRead, AgentTypeOK
  <2>2. FlagTypeOK' /\ MedTypeOK' /\ AppTypeOK'
    BY <1>7 DEF CacheRead, FlagTypeOK, MedTypeOK, AppTypeOK
  <2> QED BY <2>1, <2>2
<1> QED BY <1>1, <1>2, <1>3, <1>4, <1>5, <1>6, <1>7 DEF Advance

LEMMA ShapeEnvironment ==
  ASSUME NodeAssumption, Shape, SetLimit \/ Interrupt \/ \E t \in Try : DestroyAgents(t)
  PROVE  Shape'
<1>1. CASE SetLimit
  BY <1>1 DEF SetLimit, AgentTypeOK, FlagTypeOK, MedTypeOK, AppTypeOK
<1>2. CASE Interrupt
  BY <1>2 DEF Interrupt, AgentTypeOK, FlagTypeOK, MedTypeOK, AppTypeOK
<1>3. ASSUME NEW t \in Try, DestroyAgents(t)
      PROVE  Shape'
  BY <1>3 DEF DestroyAgents, AgentTypeOK, FlagTypeOK, MedTypeOK, AppTypeOK
<1> QED BY <1>1, <1>2, <1>3

LEMMA ShapeNext ==
  ASSUME NodeAssumption, Shape, [Next]_vars
  PROVE  Shape'
<1>1. ASSUME NEW n \in Node, AgentStep(n)
      PROVE  Shape'
  BY <1>1, ShapeStart, ShapeLaunch, ShapeHello, ShapeSend, ShapeResult, ShapeFinish,
     ShapeEvent, ShapeAdvance DEF AgentStep
<1>2. ASSUME UNCHANGED vars
      PROVE  Shape'
  BY <1>2 DEF vars, AgentTypeOK, FlagTypeOK, MedTypeOK, AppTypeOK
<1> QED BY <1>1, <1>2, ShapeTeardownSeen, ShapeMediator, ShapeEnvironment
    DEF Next, Terminated

LEMMA ShapeInit == NodeAssumption /\ Init => Shape
<1> SUFFICES ASSUME NodeAssumption, Init
             PROVE  Shape
  OBVIOUS
<1>1. AgentTypeOK
  BY DEF Init, AgentTypeOK
<1>2. FlagTypeOK
  BY DEF Init, FlagTypeOK
<1>3. MedTypeOK
  <2>1. \A n \in Node : inbox[n] \in Seq(MedEvent)
    BY DEF Init
  <2> QED BY <2>1 DEF Init, MedTypeOK
<1>4. AppTypeOK
  BY DEF Init, NodeAssumption, AppTypeOK
<1> QED BY <1>1, <1>2, <1>3, <1>4

-----------------------------------------------------------------------------
(* The counters.                                                           *)

\* How many nodes f is TRUE of.
Marked(f) == Cardinality({m \in Node : f[m]})

LEMMA MarkedType ==
  ASSUME NodeAssumption, NEW f \in [Node -> BOOLEAN]
  PROVE  Marked(f) \in Nat /\ IsFiniteSet({m \in Node : f[m]})
<1>1. IsFiniteSet({m \in Node : f[m]})
  BY FS_Subset DEF NodeAssumption
<1> QED BY <1>1, FS_CardinalityType DEF Marked

LEMMA Mark ==
  ASSUME NodeAssumption, NEW f \in [Node -> BOOLEAN], NEW n \in Node, ~f[n]
  PROVE  Marked([f EXCEPT ![n] = TRUE]) = Marked(f) + 1
<1> DEFINE S == {m \in Node : f[m]}
           g == [f EXCEPT ![n] = TRUE]
<1>1. {m \in Node : g[m]} = S \cup {n}
  OBVIOUS
<1>2. IsFiniteSet(S) /\ n \notin S
  BY MarkedType
<1>3. Cardinality(S \cup {n}) = Cardinality(S) + 1
  BY <1>2, FS_AddElement
<1> QED BY <1>1, <1>3 DEF Marked

LEMMA Unmark ==
  ASSUME NodeAssumption, NEW f \in [Node -> BOOLEAN], NEW n \in Node
  PROVE  Marked([f EXCEPT ![n] = FALSE]) = IF f[n] THEN Marked(f) - 1 ELSE Marked(f)
<1> DEFINE S == {m \in Node : f[m]}
           g == [f EXCEPT ![n] = FALSE]
<1>1. {m \in Node : g[m]} = S \ {n}
  OBVIOUS
<1>2. IsFiniteSet(S)
  BY MarkedType
<1>3. Cardinality(S \ {n}) = IF n \in S THEN Cardinality(S) - 1 ELSE Cardinality(S)
  BY <1>2, FS_RemoveElement
<1> QED BY <1>1, <1>3 DEF Marked

\* The counters agree with the flags, and an agent takes its place in the gate in GATE
\* and gets its child process in LAUNCH, never twice.
Unlaunched == {"INI", "START", "FIRSTWAIT", "GATE", "LAUNCH"}
Counted ==
    /\ gateCount = Marked(gateCredited)
    /\ loadAgents = Marked(gateCredited)
    /\ extAgents = Marked(extCounted)
    /\ gateLimit \in 1..MaxLimit
    /\ \A n \in Node :
          /\ pc[n] \in Unlaunched \ {"LAUNCH"} => ~gateCredited[n]
          /\ pc[n] \in Unlaunched => ~extCounted[n]

\* A step that leaves the counters and the flags alone, and takes no agent back.
CountsKept ==
    /\ UNCHANGED <<gateCount, loadAgents, extAgents, gateCredited, extCounted>>
    /\ gateLimit' \in 1..MaxLimit
    /\ \A n \in Node :
          /\ pc'[n] \in Unlaunched \ {"LAUNCH"} => pc[n] \in Unlaunched \ {"LAUNCH"}
          /\ pc'[n] \in Unlaunched => pc[n] \in Unlaunched

LEMMA CountsKeptCounted == Counted /\ CountsKept => Counted'
  BY DEF Counted, CountsKept, Marked

\* LeaveGate takes n out of both counters and of the flag.
LEMMA LeaveGateCounted ==
  ASSUME NodeAssumption, Shape, Counted, NEW n \in Node, LeaveGate(n)
  PROVE  /\ gateCredited' = [gateCredited EXCEPT ![n] = FALSE]
         /\ gateCount' = Marked(gateCredited') /\ loadAgents' = Marked(gateCredited')
<1>1. gateCredited \in [Node -> BOOLEAN]
  BY DEF FlagTypeOK
<1>2. gateCredited' = [gateCredited EXCEPT ![n] = FALSE]
  BY DEF LeaveGate
<1>3. Marked(gateCredited')
          = IF gateCredited[n] THEN Marked(gateCredited) - 1 ELSE Marked(gateCredited)
  BY <1>1, <1>2, Unmark
<1> QED BY <1>2, <1>3 DEF LeaveGate, Counted

LEMMA CountedGateEnter ==
  ASSUME NodeAssumption, Shape, Counted, NEW n \in Node, GateEnter(n)
  PROVE  Counted'
<1>1. gateCredited \in [Node -> BOOLEAN] /\ ~gateCredited[n]
  BY DEF GateEnter, Counted, FlagTypeOK, Unlaunched
<1>2. gateCredited' = [gateCredited EXCEPT ![n] = TRUE]
  BY DEF GateEnter
<1>3. Marked(gateCredited') = Marked(gateCredited) + 1
  BY <1>1, <1>2, Mark
<1>4. gateCount' = Marked(gateCredited') /\ loadAgents' = Marked(gateCredited')
  BY <1>3 DEF GateEnter, Counted
<1>5. extAgents' = Marked(extCounted') /\ gateLimit' \in 1..MaxLimit
  BY DEF GateEnter, Counted, Marked
<1>6. ASSUME NEW m \in Node
      PROVE  /\ pc'[m] \in Unlaunched \ {"LAUNCH"} => ~gateCredited'[m]
             /\ pc'[m] \in Unlaunched => ~extCounted'[m]
  BY <1>1 DEF GateEnter, Counted, Unlaunched, AgentTypeOK
<1> QED BY <1>4, <1>5, <1>6 DEF Counted

LEMMA CountedLaunchOk ==
  ASSUME NodeAssumption, Shape, Counted, NEW n \in Node, LaunchOk(n)
  PROVE  Counted'
<1>1. extCounted \in [Node -> BOOLEAN] /\ ~extCounted[n]
  BY DEF LaunchOk, Counted, FlagTypeOK, Unlaunched
<1>2. \/ UNCHANGED <<extCounted, extAgents>>
      \/ extCounted' = [extCounted EXCEPT ![n] = TRUE] /\ extAgents' = extAgents + 1
  BY DEF LaunchOk
<1>3. Marked([extCounted EXCEPT ![n] = TRUE]) = Marked(extCounted) + 1
  BY <1>1, Mark
<1>4. extAgents' = Marked(extCounted')
  BY <1>2, <1>3 DEF Counted
<1>5. gateCount' = Marked(gateCredited') /\ loadAgents' = Marked(gateCredited')
  BY DEF LaunchOk, Counted, Marked
<1>6. ASSUME NEW m \in Node
      PROVE  /\ pc'[m] \in Unlaunched \ {"LAUNCH"} => ~gateCredited'[m]
             /\ pc'[m] \in Unlaunched => ~extCounted'[m]
  <2>1. pc' = [pc EXCEPT ![n] = "HELLO"] /\ UNCHANGED gateCredited
    BY DEF LaunchOk
  <2>2. m # n => extCounted'[m] = extCounted[m]
    BY <1>1, <1>2
  <2> QED BY <2>1, <2>2 DEF Counted, Unlaunched, AgentTypeOK
<1> QED BY <1>4, <1>5, <1>6 DEF LaunchOk, Counted

\* The two states that give the place back early, LAUNCH and HELLO.
LEMMA CountedLeaveEarly ==
  ASSUME NodeAssumption, Shape, Counted, NEW n \in Node, LaunchFail(n) \/ HelloReturned(n)
  PROVE  Counted'
<1>1. /\ pc' = [pc EXCEPT ![n] = "ERROR"]
      /\ UNCHANGED <<extCounted, extAgents, gateLimit>>
      /\ LeaveGate(n) \/ UNCHANGED <<gateCredited, gateCount, loadAgents>>
  BY DEF LaunchFail, HelloReturned
<1>2. /\ gateCount' = Marked(gateCredited') /\ loadAgents' = Marked(gateCredited')
      /\ gateCredited' \in {gateCredited, [gateCredited EXCEPT ![n] = FALSE]}
  BY <1>1, LeaveGateCounted DEF Counted
<1>3. extAgents' = Marked(extCounted') /\ gateLimit' \in 1..MaxLimit
  BY <1>1 DEF Counted
<1>4. ASSUME NEW m \in Node
      PROVE  /\ pc'[m] \in Unlaunched \ {"LAUNCH"} => ~gateCredited'[m]
             /\ pc'[m] \in Unlaunched => ~extCounted'[m]
  BY <1>1, <1>2 DEF Counted, Unlaunched, AgentTypeOK, FlagTypeOK
<1> QED BY <1>2, <1>3, <1>4 DEF Counted

LEMMA CountedMedWait ==
  ASSUME NodeAssumption, Shape, Counted, NEW n \in Node, MedWait(n)
  PROVE  Counted'
<1>1. LeaveGate(n)
  BY DEF MedWait
<1>2. /\ gateCount' = Marked(gateCredited') /\ loadAgents' = Marked(gateCredited')
      /\ gateCredited' = [gateCredited EXCEPT ![n] = FALSE]
  BY <1>1, LeaveGateCounted
<1>3. extCounted \in [Node -> BOOLEAN]
  BY DEF FlagTypeOK
<1>4. /\ extCounted' = [extCounted EXCEPT ![n] = FALSE]
      /\ extAgents' = IF extCounted[n] THEN extAgents - 1 ELSE extAgents
  BY DEF MedWait
<1>5. Marked(extCounted')
          = IF extCounted[n] THEN Marked(extCounted) - 1 ELSE Marked(extCounted)
  BY <1>3, <1>4, Unmark
<1>6. extAgents' = Marked(extCounted')
  BY <1>4, <1>5 DEF Counted
<1>7. pc' = [pc EXCEPT ![n] = "DONE"] /\ gateLimit' = gateLimit
  BY DEF MedWait
<1>8. ASSUME NEW m \in Node
      PROVE  /\ pc'[m] \in Unlaunched \ {"LAUNCH"} => ~gateCredited'[m]
             /\ pc'[m] \in Unlaunched => ~extCounted'[m]
  BY <1>2, <1>4, <1>7 DEF Counted, Unlaunched, AgentTypeOK, FlagTypeOK
<1> QED BY <1>2, <1>6, <1>7, <1>8 DEF Counted

\* Everything else leaves the counters alone.
LEMMA KeptStart ==
  ASSUME Shape, Counted, NEW n \in Node, Start(n)
  PROVE  CountsKept
<1>1. CASE StartError(n)
  BY <1>1 DEF StartError, CountsKept, Counted, Unlaunched, AgentTypeOK
<1>2. CASE StartHit(n)
  BY <1>2 DEF StartHit, CountsKept, Counted, Unlaunched, AgentTypeOK
<1>3. CASE StartDup(n)
  BY <1>3 DEF StartDup, CountsKept, Counted, Unlaunched, AgentTypeOK
<1>4. CASE StartFirst(n)
  BY <1>4 DEF StartFirst, CountsKept, Counted, Unlaunched, AgentTypeOK
<1>5. CASE StartDelayed(n)
  BY <1>5 DEF StartDelayed, CountsKept, Counted, Unlaunched, AgentTypeOK
<1> QED BY <1>1, <1>2, <1>3, <1>4, <1>5 DEF Start

LEMMA KeptSend ==
  ASSUME Shape, Counted, NEW n \in Node, Send(n)
  PROVE  CountsKept
<1>1. CASE SendAbort(n)
  BY <1>1 DEF SendAbort, Sent, CountsKept, Counted, Unlaunched, AgentTypeOK
<1>2. CASE SendError(n)
  BY <1>2 DEF SendError, Sent, CountsKept, Counted, Unlaunched, AgentTypeOK
<1>3. CASE SendReady(n)
  BY <1>3 DEF SendReady, SendGoesOn, Sent, CountsKept, Counted, Unlaunched, AgentTypeOK
<1>4. CASE SendHit(n)
  BY <1>4 DEF SendHit, SendHashes, SendGoesOn, Sent, CountsKept, Counted, Unlaunched, AgentTypeOK
<1>5. CASE SendDup(n)
  BY <1>5 DEF SendDup, SendHashes, SendGoesOn, Sent, CountsKept, Counted, Unlaunched, AgentTypeOK
<1>6. CASE SendFirst(n)
  BY <1>6 DEF SendFirst, SendHashes, SendGoesOn, Sent, CountsKept, Counted, Unlaunched, AgentTypeOK
<1> QED BY <1>1, <1>2, <1>3, <1>4, <1>5, <1>6 DEF Send

LEMMA KeptResult ==
  ASSUME Shape, Counted, NEW n \in Node, Result(n)
  PROVE  CountsKept
<1>1. CASE ResultSaveBegin(n)
  BY <1>1 DEF ResultSaveBegin, CountsKept, Counted, Unlaunched, AgentTypeOK
<1>2. CASE ResultSaveDone(n)
  BY <1>2 DEF ResultSaveDone, CountsKept, Counted, Unlaunched, AgentTypeOK
<1>3. CASE ResultError(n)
  BY <1>3 DEF ResultError, CountsKept, Counted, Unlaunched, AgentTypeOK
<1> QED BY <1>1, <1>2, <1>3 DEF Result

LEMMA KeptTeardownSeen ==
  ASSUME Shape, Counted, NEW n \in Node, TeardownSeen(n)
  PROVE  CountsKept
<1>1. CASE GoAbort(n)
  BY <1>1 DEF GoAbort, Abortable, CountsKept, Counted, Unlaunched, AgentTypeOK
<1>2. CASE HelloAbort(n)
  BY <1>2 DEF HelloAbort, CountsKept, Counted, Unlaunched, AgentTypeOK
<1>3. CASE ByeAbort(n)
  BY <1>3 DEF ByeAbort, CountsKept, Counted, Unlaunched, AgentTypeOK
<1> QED BY <1>1, <1>2, <1>3 DEF TeardownSeen

LEMMA KeptEvent ==
  ASSUME Shape, Counted, NEW n \in Node, Event(n)
  PROVE  CountsKept
<1>1. CASE Filter(n)
  BY <1>1 DEF Filter, CountsKept, Counted, Unlaunched, AgentTypeOK
<1>2. CASE Ignore(n)
  BY <1>2 DEF Ignore, CountsKept, Counted, Unlaunched, AgentTypeOK
<1> QED BY <1>1, <1>2 DEF Event

LEMMA KeptMediator ==
  ASSUME Shape, Counted, NEW n \in Node, Mediator(n)
  PROVE  CountsKept
<1>1. CASE MedHandshake(n)
  BY <1>1 DEF MedHandshake, MedStep, CountsKept, Counted, Unlaunched, AgentTypeOK
<1>2. CASE MedLaunchFailed(n)
  BY <1>2 DEF MedLaunchFailed, MedStep, CountsKept, Counted, Unlaunched, AgentTypeOK
<1>3. CASE MedSaveBegin(n)
  BY <1>3 DEF MedSaveBegin, MedStep, CountsKept, Counted, Unlaunched, AgentTypeOK
<1>4. CASE MedSaveDone(n)
  BY <1>4 DEF MedSaveDone, MedStep, CountsKept, Counted, Unlaunched, AgentTypeOK
<1>5. CASE MedError(n)
  BY <1>5 DEF MedError, MedStep, CountsKept, Counted, Unlaunched, AgentTypeOK
<1>6. CASE MedExit(n)
  BY <1>6 DEF MedExit, MedStep, CountsKept, Counted, Unlaunched, AgentTypeOK
<1>7. CASE MedDie(n)
  BY <1>7 DEF MedDie, MedStep, CountsKept, Counted, Unlaunched, AgentTypeOK
<1> QED BY <1>1, <1>2, <1>3, <1>4, <1>5, <1>6, <1>7 DEF Mediator

LEMMA CountedLaunch ==
  ASSUME NodeAssumption, Shape, Counted, NEW n \in Node, Launch(n)
  PROVE  Counted'
<1>1. CASE LaunchNoCommand(n)
  <2>1. CountsKept
    BY <1>1 DEF LaunchNoCommand, CountsKept, Counted, Unlaunched, AgentTypeOK
  <2> QED BY <2>1, CountsKeptCounted
<1> QED BY <1>1, CountedLaunchOk, CountedLeaveEarly DEF Launch

LEMMA CountedHello ==
  ASSUME NodeAssumption, Shape, Counted, NEW n \in Node, Hello(n)
  PROVE  Counted'
<1>1. CASE HelloAssert(n)
  <2>1. CountsKept
    BY <1>1 DEF HelloAssert, CountsKept, Counted, Unlaunched, AgentTypeOK
  <2> QED BY <2>1, CountsKeptCounted
<1> QED BY <1>1, CountedLeaveEarly DEF Hello

LEMMA CountedFinish ==
  ASSUME NodeAssumption, Shape, Counted, NEW n \in Node, Finish(n)
  PROVE  Counted'
<1>1. CASE Error(n) \/ AbortToError(n) \/ Abort(n) \/ Fin(n)
  <2>1. /\ UNCHANGED <<gateCount, loadAgents, extAgents, gateCredited, extCounted, gateLimit>>
        /\ pc' \in {[pc EXCEPT ![n] = s] : s \in {"FIN", "ERROR", "MEDWAIT"}}
    BY <1>1 DEF Error, AbortToError, Abort, Fin
  <2>2. CountsKept
    BY <2>1 DEF CountsKept, Counted, Unlaunched, AgentTypeOK
  <2> QED BY <2>2, CountsKeptCounted
<1> QED BY <1>1, CountedMedWait DEF Finish

LEMMA CountedAdvance ==
  ASSUME NodeAssumption, Shape, Counted, NEW n \in Node, Advance(n)
  PROVE  Counted'
<1>1. CASE Ini(n) \/ FirstWait(n) \/ SendOp(n) \/ SendEnd(n) \/ Bye(n) \/ CacheRead(n)
  <2>1. /\ UNCHANGED <<gateCount, loadAgents, extAgents, gateCredited, extCounted, gateLimit>>
        /\ \/ /\ pc[n] \in Unlaunched \ {"LAUNCH"}
              /\ pc' \in {[pc EXCEPT ![n] = s] : s \in Unlaunched}
           \/ pc' \in {[pc EXCEPT ![n] = s] : s \in PC \ Unlaunched}
    BY <1>1 DEF Ini, FirstWait, SendOp, SendEnd, Bye, CacheRead, Unlaunched
  <2>2. CountsKept
    BY <2>1 DEF CountsKept, Counted, Unlaunched, AgentTypeOK
  <2> QED BY <2>2, CountsKeptCounted
<1> QED BY <1>1, CountedGateEnter DEF Advance

LEMMA CountedEnvironment ==
  ASSUME Shape, Counted, SetLimit \/ Interrupt \/ \E t \in Try : DestroyAgents(t)
  PROVE  Counted'
<1>1. CountsKept
  BY DEF SetLimit, Interrupt, DestroyAgents, CountsKept, Counted
<1> QED BY <1>1, CountsKeptCounted

LEMMA CountedNext ==
  ASSUME NodeAssumption, Shape, Counted, [Next]_vars
  PROVE  Counted'
<1>1. ASSUME NEW n \in Node, AgentStep(n)
      PROVE  Counted'
  BY <1>1, CountsKeptCounted, CountedAdvance, KeptStart, CountedLaunch, CountedHello,
     KeptSend, KeptResult, CountedFinish, KeptEvent DEF AgentStep
<1>2. ASSUME NEW n \in Node, TeardownSeen(n) \/ Mediator(n)
      PROVE  Counted'
  BY <1>2, CountsKeptCounted, KeptTeardownSeen, KeptMediator
<1>3. ASSUME UNCHANGED vars
      PROVE  Counted'
  BY <1>3 DEF vars, Counted, Marked
<1> QED BY <1>1, <1>2, <1>3, CountedEnvironment DEF Next, Terminated

LEMMA CountedInit == NodeAssumption /\ Init => Counted
<1> SUFFICES ASSUME NodeAssumption, Init
             PROVE  Counted
  OBVIOUS
<1>1. {n \in Node : gateCredited[n]} = {} /\ {n \in Node : extCounted[n]} = {}
  BY DEF Init
<1>2. Marked(gateCredited) = 0 /\ Marked(extCounted) = 0
  BY <1>1, FS_EmptySet DEF Marked
<1> QED BY <1>2 DEF Init, Counted

-----------------------------------------------------------------------------

TypeInv == Shape /\ Counted

\* The inductive invariant behind the two theorems below: every variable has its type,
\* and the counters are the numbers of the flagged agents.
THEOREM TypeInvariant == NodeAssumption => (Spec => []TypeInv)
<1> SUFFICES ASSUME NodeAssumption
             PROVE  Spec => []TypeInv
  OBVIOUS
<1>1. Init => TypeInv
  BY ShapeInit, CountedInit DEF TypeInv
<1>2. TypeInv /\ [Next]_vars => TypeInv'
  BY ShapeNext, CountedNext DEF TypeInv
<1> QED BY <1>1, <1>2, PTL DEF Spec

\* Types, for every graph of operations: no counter of the gate, of the load control or
\* of the child processes ever goes below zero, and the limit stays in its range.
THEOREM TypeCorrect == NodeAssumption => (Spec => []TypeOK)
<1> SUFFICES ASSUME NodeAssumption
             PROVE  Spec => []TypeOK
  OBVIOUS
<1>1. TypeInv => TypeOK
  <2> SUFFICES ASSUME TypeInv
               PROVE  TypeOK
    OBVIOUS
  <2>1. Marked(gateCredited) \in Nat /\ Marked(extCounted) \in Nat
    BY MarkedType DEF TypeInv, FlagTypeOK
  <2> QED BY <2>1 DEF TypeInv, Counted, TypeOK, GateTypeOK
<1> QED BY <1>1, TypeInvariant, PTL

\* The gate counts exactly the agents that hold a place in it, on every path through
\* LAUNCH, HELLO and MEDWAIT and for any number of operations.
THEOREM GateCountExact == NodeAssumption => (Spec => []GateExact)
<1> SUFFICES ASSUME NodeAssumption
             PROVE  Spec => []GateExact
  OBVIOUS
<1>1. TypeInv => GateExact
  BY DEF TypeInv, Counted, Marked, Holders, GateExact
<1> QED BY <1>1, TypeInvariant, PTL

-----------------------------------------------------------------------------
(* The worker gate of the agents implements the abstract one, WorkerGate.  *)

\* A step of the abstract gate, or a stutter.
GateStep == [Gate!Next]_(Gate!vars)

\* What leaves the counters alone can at most move the limit.
LEMMA KeptGateStep == CountsKept => GateStep
<1> SUFFICES ASSUME CountsKept
             PROVE  GateStep
  OBVIOUS
<1>1. Holders' = Holders
  BY DEF CountsKept, Holders
<1>2. Gate!SetLimit
  BY <1>1 DEF CountsKept, Gate!SetLimit
<1> QED BY <1>2 DEF GateStep, Gate!Next

\* FiniteSets, as WorkerGate extends it and as PigfAgent does, defines one Cardinality.
LEMMA SameCardinality == ASSUME NEW S PROVE Gate!Cardinality(S) = Cardinality(S)
  BY DEF Gate!Cardinality, Cardinality

\* GateEnter takes a place, and there was one: gateCount counts the holders.
LEMMA GateEnterStep ==
  ASSUME TypeInv, NEW n \in Node, GateEnter(n)
  PROVE  GateStep
<1>1. n \notin Holders
  BY DEF GateEnter, TypeInv, Counted, Unlaunched, Holders
<1>2. Cardinality(Holders) < gateLimit
  BY DEF GateEnter, TypeInv, Counted, Marked, Holders
<1>3. Holders' = Holders \cup {n}
  BY DEF GateEnter, TypeInv, FlagTypeOK, Holders
<1>4. gateLimit' \in 1..MaxLimit
  BY DEF GateEnter, TypeInv, Counted
<1>5. Gate!Enter(n)
  BY <1>1, <1>2, <1>3, <1>4, SameCardinality DEF Gate!Enter
<1> QED BY <1>5 DEF GateStep, Gate!Next

\* A place is given back, or there was none.
LEMMA LeaveGateStep ==
  ASSUME TypeInv, NEW n \in Node, LeaveGate(n), gateLimit' = gateLimit
  PROVE  GateStep
<1>1. gateLimit' \in 1..MaxLimit
  BY DEF TypeInv, Counted
<1>2. Holders' = Holders \ {n}
  BY DEF LeaveGate, TypeInv, FlagTypeOK, Holders
<1>3. CASE gateCredited[n]
  <2>1. Gate!Leave(n)
    BY <1>1, <1>2, <1>3 DEF Gate!Leave, Holders
  <2> QED BY <2>1 DEF GateStep, Gate!Next
<1>4. CASE ~gateCredited[n]
  <2>1. Gate!SetLimit
    BY <1>1, <1>2, <1>4 DEF Gate!SetLimit, Holders
  <2> QED BY <2>1 DEF GateStep, Gate!Next
<1> QED BY <1>3, <1>4

\* Steps that leave the gate alone.
LEMMA SameGateStep ==
  ASSUME UNCHANGED <<gateCredited, gateLimit>>
  PROVE  GateStep
  BY DEF GateStep, Gate!vars, Holders

LEMMA AgentGateStep ==
  ASSUME NodeAssumption, TypeInv, NEW n \in Node, AgentStep(n)
  PROVE  GateStep
<1> USE DEF TypeInv
<1>1. CASE Advance(n)
  <2>1. CASE Ini(n) \/ FirstWait(n) \/ SendOp(n) \/ SendEnd(n) \/ Bye(n) \/ CacheRead(n)
    <3>1. UNCHANGED <<gateCredited, gateLimit>>
      BY <2>1 DEF Ini, FirstWait, SendOp, SendEnd, Bye, CacheRead
    <3> QED BY <3>1, SameGateStep
  <2> QED BY <1>1, <2>1, GateEnterStep DEF Advance
<1>2. CASE Launch(n)
  <2>1. CASE LaunchOk(n) \/ LaunchNoCommand(n)
    <3>1. UNCHANGED <<gateCredited, gateLimit>>
      BY <2>1 DEF LaunchOk, LaunchNoCommand
    <3> QED BY <3>1, SameGateStep
  <2>2. CASE LaunchFail(n)
    <3>1. LeaveGate(n) /\ gateLimit' = gateLimit
      BY <2>2 DEF LaunchFail
    <3> QED BY <3>1, LeaveGateStep
  <2> QED BY <1>2, <2>1, <2>2 DEF Launch
<1>3. CASE Hello(n)
  <2>1. CASE HelloReturned(n)
    <3>1. \/ LeaveGate(n) /\ gateLimit' = gateLimit
          \/ UNCHANGED <<gateCredited, gateLimit>>
      BY <2>1 DEF HelloReturned
    <3> QED BY <3>1, LeaveGateStep, SameGateStep
  <2>2. CASE HelloAssert(n)
    <3>1. UNCHANGED <<gateCredited, gateLimit>>
      BY <2>2 DEF HelloAssert
    <3> QED BY <3>1, SameGateStep
  <2> QED BY <1>3, <2>1, <2>2 DEF Hello
<1>4. CASE Finish(n)
  <2>1. CASE Error(n) \/ AbortToError(n) \/ Abort(n) \/ Fin(n)
    <3>1. UNCHANGED <<gateCredited, gateLimit>>
      BY <2>1 DEF Error, AbortToError, Abort, Fin
    <3> QED BY <3>1, SameGateStep
  <2>2. CASE MedWait(n)
    <3>1. LeaveGate(n) /\ gateLimit' = gateLimit
      BY <2>2 DEF MedWait
    <3> QED BY <3>1, LeaveGateStep
  <2> QED BY <1>4, <2>1, <2>2 DEF Finish
<1>5. CASE Start(n) \/ Send(n) \/ Result(n) \/ Event(n)
  <2>1. CountsKept
    BY <1>5, KeptStart, KeptSend, KeptResult, KeptEvent
  <2> QED BY <2>1, KeptGateStep
<1> QED BY <1>1, <1>2, <1>3, <1>4, <1>5 DEF AgentStep

LEMMA NextGateStep == NodeAssumption /\ TypeInv /\ [Next]_vars => GateStep
<1> SUFFICES ASSUME NodeAssumption, TypeInv, [Next]_vars
             PROVE  GateStep
  OBVIOUS
<1>1. ASSUME NEW n \in Node, TeardownSeen(n) \/ Mediator(n)
      PROVE  GateStep
  <2>1. CountsKept
    BY <1>1, KeptTeardownSeen, KeptMediator DEF TypeInv
  <2> QED BY <2>1, KeptGateStep
<1>2. CASE SetLimit \/ Interrupt \/ \E t \in Try : DestroyAgents(t)
  <2>1. CountsKept
    BY <1>2 DEF SetLimit, Interrupt, DestroyAgents, CountsKept, TypeInv, Counted
  <2> QED BY <2>1, KeptGateStep
<1>3. CASE UNCHANGED vars
  <2>1. UNCHANGED <<gateCredited, gateLimit>>
    BY <1>3 DEF vars
  <2> QED BY <2>1, SameGateStep
<1> QED BY <1>1, <1>2, <1>3, AgentGateStep DEF Next, Terminated

LEMMA InitGate == NodeAssumption /\ Init => Gate!Init
<1> SUFFICES ASSUME NodeAssumption, Init
             PROVE  Gate!Init
  OBVIOUS
<1>1. Holders = {}
  BY DEF Init, Holders
<1> QED BY <1>1 DEF Init, Gate!Init

\* The agents implement the abstract gate, for any number of them and however the load
\* control moves the limit: a place is taken only below the limit and given back once.
THEOREM GateRefinement == NodeAssumption => (Spec => GateSpec)
<1> SUFFICES ASSUME NodeAssumption
             PROVE  Spec => GateSpec
  OBVIOUS
<1>1. Init => Gate!Init
  BY InitGate
<1>2. TypeInv /\ [Next]_vars => [Gate!Next]_(Gate!vars)
  BY NextGateStep DEF GateStep
<1> QED BY <1>1, <1>2, TypeInvariant, PTL DEF Spec, GateSpec, Gate!Spec

-----------------------------------------------------------------------------
(* The in-flight ledger and the existence test keep two agents of one hash *)
(* from writing the same cache file, for every graph of operations.        *)

Early    == {"INI", "START", "FIRSTWAIT"}
Upstream == {"GATE", "LAUNCH", "HELLO", "SENDOP", "SEND"}
Seen(s)  == \E i \in 1..Len(s) : s[i] = "SAVE_BEGIN"

\* The ledger and the flags of the agents are two views of the same claims.
Claims ==
    /\ \A h \in Hash : ledger[h] # NoNode =>
          HashOf[ledger[h]] = h /\ inflightClaimed[ledger[h]]
    /\ \A n \in Node : inflightClaimed[n] => ledger[HashOf[n]] = n

\* An agent on its way to C_ARG_END with a settled hash has claimed it.
PathClaimed(n) ==
    /\ pc[n] \in Early => ~cachePath[n]
    /\ pc[n] \in Upstream /\ cachePath[n] => inflightClaimed[n]
    /\ pc[n] = "SENDEND" => inflightClaimed[n]

\* A claim whose process has not opened the file yet stands for an absent file; once it
\* is opened the file exists, and only then does A_SAVE_BEGIN end the claim.
FileState(n) ==
    /\ pc[n] \in Unlaunched => med[n] = "null" /\ inbox[n] = <<>>
    /\ Seen(inbox[n]) => med[n] \notin {"starting", "ready", "computing"}
    /\ med[n] = "computing" => inflightClaimed[n]
    /\ inflightClaimed[n] /\ med[n] \in {"null", "starting", "ready", "computing"}
          => disk[HashOf[n]] = "absent"
    /\ med[n] = "saving" => disk[HashOf[n]] # "absent"

WriterInv == Claims /\ (\A n \in Node : PathClaimed(n) /\ FileState(n)) /\ OneWriter

-----------------------------------------------------------------------------
(* Claims and events.                                                      *)

LEMMA HashType == NodeAssumption => \A n \in Node : HashOf[n] \in Hash /\ n # NoNode
  BY DEF NodeAssumption

LEMMA ClaimClaims ==
  ASSUME NodeAssumption, Shape, Claims, NEW n \in Node, ledger[HashOf[n]] = NoNode, Claim(n)
  PROVE  Claims'
<1>1. ledger \in [Hash -> Node \cup {NoNode}] /\ inflightClaimed \in [Node -> BOOLEAN]
  BY DEF AppTypeOK, FlagTypeOK
<1>2. ASSUME NEW h \in Hash, ledger'[h] # NoNode
      PROVE  HashOf[ledger'[h]] = h /\ inflightClaimed'[ledger'[h]]
  <2>1. CASE h = HashOf[n]
    BY <1>1, <2>1, HashType DEF Claim
  <2>2. CASE h # HashOf[n]
    <3>1. ledger'[h] = ledger[h] /\ ledger[h] \in Node
      BY <1>1, <1>2, <2>2 DEF Claim
    <3> QED BY <1>1, <1>2, <2>2, <3>1 DEF Claim, Claims
  <2> QED BY <2>1, <2>2
<1>3. ASSUME NEW m \in Node, inflightClaimed'[m]
      PROVE  ledger'[HashOf[m]] = m
  BY <1>1, <1>3, HashType DEF Claim, Claims
<1> QED BY <1>2, <1>3 DEF Claims

LEMMA ReleaseClaims ==
  ASSUME NodeAssumption, Shape, Claims, NEW n \in Node, Release(n)
  PROVE  Claims'
<1>1. ledger \in [Hash -> Node \cup {NoNode}] /\ inflightClaimed \in [Node -> BOOLEAN]
  BY DEF AppTypeOK, FlagTypeOK
<1>2. ASSUME NEW h \in Hash, ledger'[h] # NoNode
      PROVE  HashOf[ledger'[h]] = h /\ inflightClaimed'[ledger'[h]]
  <2>1. ledger'[h] = ledger[h] /\ ledger[h] \in Node
    BY <1>1, <1>2, HashType DEF Release
  <2>2. HashOf[ledger[h]] = h /\ inflightClaimed[ledger[h]]
    BY <1>2, <2>1 DEF Claims
  <2>3. ledger[h] # n
    BY <1>1, <1>2, <2>1, <2>2, HashType DEF Release
  <2> QED BY <1>1, <2>1, <2>2, <2>3 DEF Release
<1>3. ASSUME NEW m \in Node, inflightClaimed'[m]
      PROVE  ledger'[HashOf[m]] = m
  <2>1. m # n /\ inflightClaimed[m]
    BY <1>1, <1>3 DEF Release
  <2>2. ledger[HashOf[m]] = m
    BY <2>1 DEF Claims
  <2>3. inflightClaimed[n] => HashOf[m] # HashOf[n]
    BY <2>1, <2>2 DEF Claims
  <2> QED BY <1>1, <2>2, <2>3, HashType DEF Release
<1> QED BY <1>2, <1>3 DEF Claims

LEMMA TailSeen ==
  ASSUME NEW s \in Seq(MedEvent), s # <<>>, Seen(Tail(s))
  PROVE  Seen(s)
<1>1. PICK i \in 1..Len(Tail(s)) : Tail(s)[i] = "SAVE_BEGIN"
  BY DEF Seen
<1>2. i + 1 \in 1..Len(s) /\ s[i + 1] = "SAVE_BEGIN"
  BY <1>1
<1> QED BY <1>2 DEF Seen

LEMMA AppendSeen ==
  ASSUME NEW s \in Seq(MedEvent), NEW e \in MedEvent, Seen(s \o <<e>>)
  PROVE  Seen(s) \/ e = "SAVE_BEGIN"
<1>1. PICK i \in 1..Len(s \o <<e>>) : (s \o <<e>>)[i] = "SAVE_BEGIN"
  BY DEF Seen
<1>2. CASE i \in 1..Len(s)
  BY <1>1, <1>2 DEF Seen
<1>3. CASE i = Len(s) + 1
  BY <1>1, <1>3
<1> QED BY <1>1, <1>2, <1>3

\* Taking an event shows nothing new, and an agent that has one was launched.
LEMMA ReceiveSeen ==
  ASSUME Shape, NEW n \in Node, FileState(n), NEW ev, Receive(n, ev)
  PROVE  /\ pc[n] \notin Unlaunched
         /\ \A m \in Node : /\ Seen(inbox'[m]) => Seen(inbox[m])
                            /\ m # n => inbox'[m] = inbox[m]
<1>1. inbox \in [Node -> Seq(MedEvent)]
  BY DEF MedTypeOK
<1>2. inbox[n] # <<>> /\ inbox' = [inbox EXCEPT ![n] = Tail(inbox[n])]
  BY DEF Receive
<1>3. pc[n] \notin Unlaunched
  BY <1>2 DEF FileState
<1>4. Seen(inbox'[n]) => Seen(inbox[n])
  BY <1>1, <1>2, TailSeen
<1> QED BY <1>1, <1>2, <1>3, <1>4

-----------------------------------------------------------------------------
(* Which steps matter to the writers.                                      *)

\* Neither a claim nor a file nor a mediator changes, no event is made up, no agent is
\* taken back to a state it left, and none gets near C_ARG_END without its claim.
WriterKept ==
    /\ UNCHANGED <<ledger, inflightClaimed, disk, med>>
    /\ \A m \in Node :
          /\ Seen(inbox'[m]) => Seen(inbox[m])
          /\ pc'[m] \in Unlaunched => pc[m] \in Unlaunched /\ inbox'[m] = inbox[m]
          /\ pc'[m] \in Early => pc[m] \in Early /\ cachePath'[m] = cachePath[m]
          /\ pc'[m] \in Upstream /\ cachePath'[m] =>
                pc[m] \in Early \cup Upstream /\ cachePath[m]
          /\ pc'[m] = "SENDEND" =>
                pc[m] = "SENDEND" \/ (pc[m] \in Upstream /\ cachePath[m])

LEMMA WriterKeptInv == WriterInv /\ WriterKept => WriterInv'
<1> SUFFICES ASSUME WriterInv, WriterKept
             PROVE  WriterInv'
  OBVIOUS
<1>1. Claims'
  BY DEF WriterInv, WriterKept, Claims
<1>2. ASSUME NEW n \in Node
      PROVE  PathClaimed(n)'
  BY DEF WriterInv, WriterKept, PathClaimed, Early, Upstream
<1>3. ASSUME NEW n \in Node
      PROVE  FileState(n)'
  BY DEF WriterInv, WriterKept, FileState
<1>4. OneWriter'
  BY DEF WriterInv, WriterKept, OneWriter
<1> QED BY <1>1, <1>2, <1>3, <1>4 DEF WriterInv

LEMMA WriterStart ==
  ASSUME Shape, WriterInv, NEW n \in Node, Start(n)
  PROVE  WriterKept \/ StartFirst(n)
<1>1. CASE StartError(n)
  BY <1>1 DEF StartError, WriterKept, Early, Upstream, Unlaunched, AgentTypeOK
<1>2. CASE StartHit(n)
  BY <1>2 DEF StartHit, WriterKept, Early, Upstream, Unlaunched, AgentTypeOK
<1>3. CASE StartDup(n)
  BY <1>3 DEF StartDup, WriterKept, Early, Upstream, Unlaunched, AgentTypeOK
<1>4. CASE StartDelayed(n)
  BY <1>4 DEF StartDelayed, WriterKept, Early, Upstream, Unlaunched, AgentTypeOK
<1> QED BY <1>1, <1>2, <1>3, <1>4 DEF Start

LEMMA WriterLaunch ==
  ASSUME Shape, WriterInv, NEW n \in Node, Launch(n)
  PROVE  WriterKept \/ LaunchOk(n)
<1>1. CASE LaunchNoCommand(n)
  BY <1>1 DEF LaunchNoCommand, WriterKept, Early, Upstream, Unlaunched, AgentTypeOK
<1>2. CASE LaunchFail(n)
  BY <1>2 DEF LaunchFail, LeaveGate, WriterKept, Early, Upstream, Unlaunched, AgentTypeOK
<1> QED BY <1>1, <1>2 DEF Launch

LEMMA WriterHello ==
  ASSUME Shape, WriterInv, NEW n \in Node, Hello(n)
  PROVE  WriterKept
<1>1. CASE HelloReturned(n)
  BY <1>1 DEF HelloReturned, LeaveGate, WriterKept, Early, Upstream, Unlaunched,
      AgentTypeOK
<1>2. CASE HelloAssert(n)
  <2>1. PICK ev : Receive(n, ev)
    BY <1>2 DEF HelloAssert
  <2>2. /\ pc[n] \notin Unlaunched
        /\ \A m \in Node : /\ Seen(inbox'[m]) => Seen(inbox[m])
                           /\ m # n => inbox'[m] = inbox[m]
    BY <2>1, ReceiveSeen DEF WriterInv
  <2> QED BY <1>2, <2>2 DEF HelloAssert, WriterKept, Early, Upstream, Unlaunched,
      AgentTypeOK
<1> QED BY <1>1, <1>2 DEF Hello

LEMMA WriterSend ==
  ASSUME Shape, WriterInv, NEW n \in Node, Send(n)
  PROVE  WriterKept \/ SendFirst(n)
<1>1. CASE SendAbort(n)
  BY <1>1 DEF SendAbort, Sent, WriterKept, Early, Upstream, Unlaunched, AgentTypeOK
<1>2. CASE SendError(n)
  BY <1>2 DEF SendError, Sent, WriterKept, Early, Upstream, Unlaunched, AgentTypeOK
<1>3. CASE SendReady(n)
  BY <1>3 DEF SendReady, SendGoesOn, Sent, WriterKept, Early, Upstream, Unlaunched,
      AgentTypeOK
<1>4. CASE SendHit(n)
  <2>1. /\ pc' \in {[pc EXCEPT ![n] = s] : s \in {"FIN", "CACHEREAD"}}
        /\ cachePath' = [cachePath EXCEPT ![n] = TRUE] /\ UNCHANGED otherVars
    BY <1>4 DEF SendHit
  <2> QED BY <2>1 DEF WriterKept, Early, Upstream, Unlaunched, AgentTypeOK
<1>5. CASE SendDup(n)
  BY <1>5 DEF SendDup, SendHashes, SendGoesOn, Sent, WriterKept, Early, Upstream,
      Unlaunched, AgentTypeOK
<1> QED BY <1>1, <1>2, <1>3, <1>4, <1>5 DEF Send

LEMMA WriterResult ==
  ASSUME Shape, WriterInv, NEW n \in Node, Result(n)
  PROVE  WriterKept \/ ResultSaveBegin(n)
<1>1. CASE ResultSaveDone(n)
  <2>1. PICK ev : Receive(n, ev)
    BY <1>1 DEF ResultSaveDone
  <2>2. /\ pc[n] \notin Unlaunched
        /\ \A m \in Node : /\ Seen(inbox'[m]) => Seen(inbox[m])
                           /\ m # n => inbox'[m] = inbox[m]
    BY <2>1, ReceiveSeen DEF WriterInv
  <2> QED BY <1>1, <2>2 DEF ResultSaveDone, WriterKept, Early, Upstream, Unlaunched,
      AgentTypeOK
<1>2. CASE ResultError(n)
  <2>1. PICK ev : Receive(n, ev)
    BY <1>2 DEF ResultError
  <2>2. /\ pc[n] \notin Unlaunched
        /\ \A m \in Node : /\ Seen(inbox'[m]) => Seen(inbox[m])
                           /\ m # n => inbox'[m] = inbox[m]
    BY <2>1, ReceiveSeen DEF WriterInv
  <2> QED BY <1>2, <2>2 DEF ResultError, WriterKept, Early, Upstream, Unlaunched,
      AgentTypeOK
<1> QED BY <1>1, <1>2 DEF Result

LEMMA WriterFinish ==
  ASSUME Shape, WriterInv, NEW n \in Node, Finish(n)
  PROVE  WriterKept \/ MedWait(n)
<1>1. CASE Error(n)
  BY <1>1 DEF Error, WriterKept, Early, Upstream, Unlaunched, AgentTypeOK
<1>2. CASE AbortToError(n)
  BY <1>2 DEF AbortToError, WriterKept, Early, Upstream, Unlaunched, AgentTypeOK
<1>3. CASE Abort(n)
  BY <1>3 DEF Abort, WriterKept, Early, Upstream, Unlaunched, AgentTypeOK
<1>4. CASE Fin(n)
  BY <1>4 DEF Fin, WriterKept, Early, Upstream, Unlaunched, AgentTypeOK
<1> QED BY <1>1, <1>2, <1>3, <1>4 DEF Finish

LEMMA WriterEvent ==
  ASSUME Shape, WriterInv, NEW n \in Node, Event(n)
  PROVE  WriterKept
<1>1. CASE Filter(n)
  <2>1. PICK ev : Receive(n, ev)
    BY <1>1 DEF Filter
  <2>2. /\ pc[n] \notin Unlaunched
        /\ \A m \in Node : /\ Seen(inbox'[m]) => Seen(inbox[m])
                           /\ m # n => inbox'[m] = inbox[m]
    BY <2>1, ReceiveSeen DEF WriterInv
  <2> QED BY <1>1, <2>2 DEF Filter, WriterKept, Early, Upstream, Unlaunched, AgentTypeOK
<1>2. CASE Ignore(n)
  <2>1. PICK ev : Receive(n, ev)
    BY <1>2 DEF Ignore
  <2>2. /\ pc[n] \notin Unlaunched
        /\ \A m \in Node : /\ Seen(inbox'[m]) => Seen(inbox[m])
                           /\ m # n => inbox'[m] = inbox[m]
    BY <2>1, ReceiveSeen DEF WriterInv
  <2> QED BY <1>2, <2>2 DEF Ignore, WriterKept, Early, Upstream, Unlaunched, AgentTypeOK
<1> QED BY <1>1, <1>2 DEF Event

LEMMA WriterAdvance ==
  ASSUME Shape, WriterInv, NEW n \in Node, Advance(n)
  PROVE  WriterKept \/ SendEnd(n)
<1>1. CASE Ini(n)
  BY <1>1 DEF Ini, WriterKept, Early, Upstream, Unlaunched, AgentTypeOK
<1>2. CASE FirstWait(n)
  BY <1>2 DEF FirstWait, WriterKept, Early, Upstream, Unlaunched, AgentTypeOK
<1>3. CASE GateEnter(n)
  BY <1>3 DEF GateEnter, WriterKept, Early, Upstream, Unlaunched, AgentTypeOK
<1>4. CASE SendOp(n)
  BY <1>4 DEF SendOp, WriterKept, Early, Upstream, Unlaunched, AgentTypeOK
<1>5. CASE Bye(n)
  BY <1>5 DEF Bye, WriterKept, Early, Upstream, Unlaunched, AgentTypeOK
<1>6. CASE CacheRead(n)
  BY <1>6 DEF CacheRead, WriterKept, Early, Upstream, Unlaunched, AgentTypeOK
<1> QED BY <1>1, <1>2, <1>3, <1>4, <1>5, <1>6 DEF Advance

LEMMA WriterTeardownSeen ==
  ASSUME Shape, WriterInv, NEW n \in Node, TeardownSeen(n)
  PROVE  WriterKept
<1>1. CASE GoAbort(n)
  BY <1>1 DEF GoAbort, Abortable, WriterKept, Early, Upstream, Unlaunched, AgentTypeOK
<1>2. CASE HelloAbort(n)
  BY <1>2 DEF HelloAbort, WriterKept, Early, Upstream, Unlaunched, AgentTypeOK
<1>3. CASE ByeAbort(n)
  BY <1>3 DEF ByeAbort, WriterKept, Early, Upstream, Unlaunched, AgentTypeOK
<1> QED BY <1>1, <1>2, <1>3 DEF TeardownSeen

-----------------------------------------------------------------------------
(* The steps that do.                                                      *)

LEMMA WriterClaim ==
  ASSUME NodeAssumption, Shape, WriterInv, NEW n \in Node, StartFirst(n) \/ SendFirst(n)
  PROVE  WriterInv' /\ UNCHANGED med
<1>1. /\ Claim(n) /\ ledger[HashOf[n]] = NoNode /\ disk[HashOf[n]] = "absent"
      /\ UNCHANGED <<med, inbox, disk>>
      /\ cachePath' = [cachePath EXCEPT ![n] = TRUE]
      /\ \/ pc[n] = "START" /\ pc' = [pc EXCEPT ![n] = "GATE"]
         \/ pc[n] = "SEND" /\ pc' = [pc EXCEPT ![n] = "SENDEND"]
  BY DEF StartFirst, SendFirst, SendHashes, SendGoesOn, Sent, Valid
<1>2. inflightClaimed' = [inflightClaimed EXCEPT ![n] = TRUE]
  BY <1>1 DEF Claim
<1>3. Claims'
  BY <1>1, ClaimClaims DEF WriterInv
<1>4. ASSUME NEW m \in Node
      PROVE  PathClaimed(m)'
  BY <1>1, <1>2 DEF WriterInv, PathClaimed, Early, Upstream, AgentTypeOK, FlagTypeOK
<1>5. ASSUME NEW m \in Node
      PROVE  FileState(m)'
  BY <1>1, <1>2 DEF WriterInv, FileState, Unlaunched, AgentTypeOK, FlagTypeOK
<1> QED BY <1>1, <1>3, <1>4, <1>5 DEF WriterInv, OneWriter

LEMMA WriterLaunchOk ==
  ASSUME Shape, WriterInv, NEW n \in Node, LaunchOk(n)
  PROVE  WriterInv' /\ \A m \in Node : med'[m] = "saving" => med[m] = "saving"
<1>1. /\ pc[n] = "LAUNCH" /\ pc' = [pc EXCEPT ![n] = "HELLO"]
      /\ med' = [med EXCEPT ![n] = "starting"]
      /\ UNCHANGED <<ledger, inflightClaimed, disk, inbox, cachePath>>
  BY DEF LaunchOk
<1>2. med[n] = "null" /\ inbox[n] = <<>>
  BY <1>1 DEF WriterInv, FileState, Unlaunched
<1>3. Claims'
  BY <1>1 DEF WriterInv, Claims
<1>4. ASSUME NEW m \in Node
      PROVE  PathClaimed(m)'
  BY <1>1 DEF WriterInv, PathClaimed, Early, Upstream, AgentTypeOK
<1>5. ~Seen(inbox[n])
  BY <1>2 DEF Seen
<1>6. ASSUME NEW m \in Node
      PROVE  FileState(m)'
  BY <1>1, <1>2, <1>5 DEF WriterInv, FileState, Unlaunched, AgentTypeOK, MedTypeOK
<1>7. \A m \in Node : med'[m] = "saving" => med[m] = "saving"
  BY <1>1 DEF MedTypeOK
<1> QED BY <1>1, <1>3, <1>4, <1>6, <1>7 DEF WriterInv, OneWriter

LEMMA WriterSendEnd ==
  ASSUME Shape, WriterInv, NEW n \in Node, SendEnd(n)
  PROVE  WriterInv' /\ \A m \in Node : med'[m] = "saving" => med[m] = "saving"
<1>1. /\ pc[n] = "SENDEND" /\ pc' = [pc EXCEPT ![n] = "RESULT"]
      /\ med' = [med EXCEPT ![n] = IF med[n] = "ready" THEN "computing" ELSE med[n]]
      /\ UNCHANGED <<ledger, inflightClaimed, disk, inbox, cachePath>>
  BY DEF SendEnd
<1>2. inflightClaimed[n]
  BY <1>1 DEF WriterInv, PathClaimed
<1>3. Claims'
  BY <1>1 DEF WriterInv, Claims
<1>4. ASSUME NEW m \in Node
      PROVE  PathClaimed(m)'
  BY <1>1 DEF WriterInv, PathClaimed, Early, Upstream, AgentTypeOK
<1>5. ASSUME NEW m \in Node
      PROVE  FileState(m)'
  BY <1>1, <1>2 DEF WriterInv, FileState, Unlaunched, AgentTypeOK, MedTypeOK
<1>6. \A m \in Node : med'[m] = "saving" => med[m] = "saving"
  BY <1>1 DEF MedTypeOK
<1> QED BY <1>1, <1>3, <1>4, <1>5, <1>6 DEF WriterInv, OneWriter

\* A_SAVE_BEGIN ends the claim: the file has been opened by then.
LEMMA WriterResultSaveBegin ==
  ASSUME NodeAssumption, Shape, WriterInv, NEW n \in Node, ResultSaveBegin(n)
  PROVE  WriterInv' /\ UNCHANGED med
<1>1. /\ pc[n] = "RESULT" /\ Receive(n, "SAVE_BEGIN") /\ Release(n)
      /\ UNCHANGED <<pc, cachePath, disk, med>>
  BY DEF ResultSaveBegin
<1>2. Claims'
  BY <1>1, ReleaseClaims DEF WriterInv
<1>3. \A m \in Node : /\ Seen(inbox'[m]) => Seen(inbox[m])
                      /\ m # n => inbox'[m] = inbox[m]
  BY <1>1, ReceiveSeen DEF WriterInv
<1>4. Seen(inbox[n])
  <2>1. inbox[n] \in Seq(MedEvent) /\ inbox[n] # <<>> /\ inbox[n][1] = "SAVE_BEGIN"
    BY <1>1 DEF Receive, MedTypeOK
  <2> QED BY <2>1 DEF Seen
<1>5. inflightClaimed' = [inflightClaimed EXCEPT ![n] = FALSE]
  BY <1>1 DEF Release
<1>6. ASSUME NEW m \in Node
      PROVE  PathClaimed(m)'
  BY <1>1, <1>5 DEF WriterInv, PathClaimed, Early, Upstream, FlagTypeOK
<1>7. ASSUME NEW m \in Node
      PROVE  FileState(m)'
  BY <1>1, <1>3, <1>4, <1>5 DEF WriterInv, FileState, Unlaunched, FlagTypeOK
<1> QED BY <1>1, <1>2, <1>6, <1>7 DEF WriterInv, OneWriter

LEMMA WriterMedWait ==
  ASSUME NodeAssumption, Shape, WriterInv, NEW n \in Node, MedWait(n)
  PROVE  WriterInv' /\ \A m \in Node : med'[m] = "saving" => med[m] = "saving"
<1>1. /\ pc' = [pc EXCEPT ![n] = "DONE"] /\ med' = [med EXCEPT ![n] = "null"]
      /\ Release(n) /\ UNCHANGED <<cachePath, disk, inbox>>
  BY DEF MedWait
<1>2. Claims'
  BY <1>1, ReleaseClaims DEF WriterInv
<1>3. inflightClaimed' = [inflightClaimed EXCEPT ![n] = FALSE]
  BY <1>1 DEF Release
<1>4. ASSUME NEW m \in Node
      PROVE  PathClaimed(m)'
  BY <1>1, <1>3 DEF WriterInv, PathClaimed, Early, Upstream, AgentTypeOK, FlagTypeOK
<1>5. ASSUME NEW m \in Node
      PROVE  FileState(m)'
  BY <1>1, <1>3 DEF WriterInv, FileState, Unlaunched, AgentTypeOK, FlagTypeOK, MedTypeOK
<1>6. \A m \in Node : med'[m] = "saving" => med[m] = "saving"
  BY <1>1 DEF MedTypeOK
<1> QED BY <1>1, <1>2, <1>4, <1>5, <1>6 DEF WriterInv, OneWriter

\* A mediator that does not open its file.
LEMMA WriterMediator ==
  ASSUME NodeAssumption, Shape, WriterInv, NEW n \in Node, Mediator(n), ~MedSaveBegin(n)
  PROVE  WriterInv' /\ \A m \in Node : med'[m] = "saving" => med[m] = "saving"
<1>1. PICK to \in {"ready", "done", "gone"}, ev \in MedEvent \ {"SAVE_BEGIN"} :
          /\ med' = [med EXCEPT ![n] = to] /\ inbox' = [inbox EXCEPT ![n] = @ \o <<ev>>]
          /\ UNCHANGED <<pc, cachePath, ledger, inflightClaimed>>
          /\ med[n] # "null"
          /\ to = "ready" => med[n] = "starting"
          /\ \/ UNCHANGED disk
             \/ /\ med[n] = "saving" /\ to = "done"
                /\ disk' = [disk EXCEPT ![HashOf[n]] = "complete"]
  <2>1. CASE MedHandshake(n)
    BY <2>1 DEF MedHandshake, MedStep
  <2>2. CASE MedLaunchFailed(n)
    BY <2>2 DEF MedLaunchFailed, MedStep
  <2>3. CASE MedSaveDone(n)
    BY <2>3 DEF MedSaveDone, MedStep
  <2>4. CASE MedError(n) \/ MedExit(n) \/ MedDie(n)
    BY <2>4 DEF MedError, MedExit, MedDie, MedStep
  <2> QED BY <2>1, <2>2, <2>3, <2>4 DEF Mediator
<1>2. \A m \in Node : Seen(inbox'[m]) => Seen(inbox[m])
  <2>1. Seen(inbox[n] \o <<ev>>) => Seen(inbox[n])
    BY AppendSeen DEF MedTypeOK
  <2> QED BY <1>1, <2>1 DEF MedTypeOK
<1>3. Claims'
  BY <1>1 DEF WriterInv, Claims
<1>4. ASSUME NEW m \in Node
      PROVE  PathClaimed(m)'
  BY <1>1 DEF WriterInv, PathClaimed, Early, Upstream
<1>5. disk[HashOf[n]] # "absent" \/ UNCHANGED disk
  BY <1>1 DEF WriterInv, FileState
<1>6. \A h \in Hash : disk'[h] = "absent" <=> disk[h] = "absent"
  BY <1>1, <1>5 DEF AppTypeOK
<1>7. ASSUME NEW m \in Node
      PROVE  FileState(m)'
  <2>1. disk'[HashOf[m]] = "absent" <=> disk[HashOf[m]] = "absent"
    BY <1>6, HashType
  <2>2. CASE m = n
    BY <1>1, <1>2, <2>1, <2>2 DEF WriterInv, FileState, MedTypeOK
  <2>3. CASE m # n
    BY <1>1, <1>2, <2>1, <2>3 DEF WriterInv, FileState, MedTypeOK
  <2> QED BY <2>2, <2>3
<1>8. \A m \in Node : med'[m] = "saving" => med[m] = "saving"
  BY <1>1 DEF MedTypeOK
<1> QED BY <1>3, <1>4, <1>7, <1>8 DEF WriterInv, OneWriter

\* Opening the file: it did not exist, so nobody else with this hash can be writing it.
LEMMA WriterMedSaveBegin ==
  ASSUME NodeAssumption, Shape, WriterInv, NEW n \in Node, MedSaveBegin(n)
  PROVE  /\ WriterInv'
         /\ disk[HashOf[n]] = "absent"
         /\ \A m \in Node : m # n /\ med'[m] = "saving" => med[m] = "saving"
<1>1. /\ med[n] = "computing" /\ med' = [med EXCEPT ![n] = "saving"]
      /\ inbox' = [inbox EXCEPT ![n] = @ \o <<"SAVE_BEGIN">>]
      /\ disk' = [disk EXCEPT ![HashOf[n]] = "partial"]
      /\ UNCHANGED <<pc, cachePath, ledger, inflightClaimed>>
  BY DEF MedSaveBegin, MedStep
<1>2. inflightClaimed[n] /\ disk[HashOf[n]] = "absent"
  BY <1>1 DEF WriterInv, FileState
<1>3. \A m \in Node : m # n /\ HashOf[m] = HashOf[n] =>
          ~inflightClaimed[m] /\ med[m] # "saving"
  BY <1>2 DEF WriterInv, Claims, FileState
<1>4. \A m \in Node : m # n => med'[m] = med[m] /\ inbox'[m] = inbox[m]
  BY <1>1 DEF MedTypeOK
<1>5. \A m \in Node : disk'[HashOf[m]] =
          IF HashOf[m] = HashOf[n] THEN "partial" ELSE disk[HashOf[m]]
  BY <1>1, HashType DEF AppTypeOK
<1>6. Claims'
  BY <1>1 DEF WriterInv, Claims
<1>7. ASSUME NEW m \in Node
      PROVE  PathClaimed(m)'
  BY <1>1 DEF WriterInv, PathClaimed, Early, Upstream
<1>8. ASSUME NEW m \in Node
      PROVE  FileState(m)'
  <2>1. CASE m = n
    <3>1. pc[n] \notin Unlaunched /\ med'[n] = "saving"
      BY <1>1 DEF WriterInv, FileState, MedTypeOK
    <3> QED BY <1>1, <1>5, <2>1, <3>1 DEF FileState
  <2>2. CASE m # n
    BY <1>1, <1>3, <1>4, <1>5, <2>2 DEF WriterInv, FileState
  <2> QED BY <2>1, <2>2
<1>9. OneWriter'
  <2> SUFFICES ASSUME NEW k \in Node, NEW m \in Node, k # m, HashOf[k] = HashOf[m],
                      med'[k] = "saving", med'[m] = "saving"
               PROVE  FALSE
    BY DEF OneWriter
  <2>1. CASE k # n /\ m # n
    BY <1>4, <2>1 DEF WriterInv, OneWriter
  <2>2. CASE k = n \/ m = n
    BY <1>3, <1>4, <2>2
  <2> QED BY <2>1, <2>2
<1> QED BY <1>2, <1>4, <1>6, <1>7, <1>8, <1>9 DEF WriterInv

-----------------------------------------------------------------------------

\* What any step does to the invariant, and to a file that is being opened.
LEMMA WriterNext ==
  ASSUME NodeAssumption, Shape, WriterInv, [Next]_vars
  PROVE  /\ WriterInv'
         /\ \A m \in Node : med[m] = "computing" /\ med'[m] = "saving"
                               => disk[HashOf[m]] = "absent"
<1> DEFINE Goal == /\ WriterInv'
                   /\ \A m \in Node : med[m] = "computing" /\ med'[m] = "saving"
                                         => disk[HashOf[m]] = "absent"
<1>1. ASSUME WriterKept
      PROVE  Goal
  <2>1. WriterInv'
    BY <1>1, WriterKeptInv
  <2> QED BY <1>1, <2>1 DEF WriterKept
<1>2. ASSUME NEW n \in Node, StartFirst(n) \/ SendFirst(n)
      PROVE  Goal
  BY <1>2, WriterClaim
<1>3. ASSUME NEW n \in Node, LaunchOk(n) \/ SendEnd(n) \/ MedWait(n)
      PROVE  Goal
  BY <1>3, WriterLaunchOk, WriterSendEnd, WriterMedWait
<1>4. ASSUME NEW n \in Node, ResultSaveBegin(n)
      PROVE  Goal
  BY <1>4, WriterResultSaveBegin
<1>5. ASSUME NEW n \in Node, Mediator(n)
      PROVE  Goal
  <2>1. CASE ~MedSaveBegin(n)
    BY <1>5, <2>1, WriterMediator
  <2>2. CASE MedSaveBegin(n)
    <3>1. med' = [med EXCEPT ![n] = "saving"]
      BY <2>2 DEF MedSaveBegin, MedStep
    <3>2. \A m \in Node : m # n => med'[m] = med[m]
      BY <3>1 DEF MedTypeOK
    <3> QED BY <2>2, <3>2, WriterMedSaveBegin
  <2> QED BY <2>1, <2>2
<1>6. ASSUME NEW n \in Node, AgentStep(n) \/ TeardownSeen(n)
      PROVE  Goal
  <2>1. CASE TeardownSeen(n)
    BY <1>1, <2>1, WriterTeardownSeen
  <2>2. CASE AgentStep(n)
    <3>1. CASE Start(n)
      BY <1>1, <1>2, <3>1, WriterStart
    <3>2. CASE Launch(n)
      BY <1>1, <1>3, <3>2, WriterLaunch
    <3>3. CASE Hello(n)
      BY <1>1, <3>3, WriterHello
    <3>4. CASE Send(n)
      BY <1>1, <1>2, <3>4, WriterSend
    <3>5. CASE Result(n)
      BY <1>1, <1>4, <3>5, WriterResult
    <3>6. CASE Finish(n)
      BY <1>1, <1>3, <3>6, WriterFinish
    <3>7. CASE Event(n)
      BY <1>1, <3>7, WriterEvent
    <3>8. CASE Advance(n)
      BY <1>1, <1>3, <3>8, WriterAdvance
    <3> QED BY <2>2, <3>1, <3>2, <3>3, <3>4, <3>5, <3>6, <3>7, <3>8 DEF AgentStep
  <2> QED BY <1>6, <2>1, <2>2
<1>7. ASSUME SetLimit \/ Interrupt \/ (\E t \in Try : DestroyAgents(t)) \/ UNCHANGED vars
      PROVE  Goal
  <2>1. UNCHANGED <<agentVars, medVars, ledger, disk, inflightClaimed>>
    BY <1>7 DEF SetLimit, Interrupt, DestroyAgents, vars
  <2>2. WriterKept
    BY <2>1 DEF WriterKept, Upstream
  <2> QED BY <1>1, <2>2
<1> QED BY <1>5, <1>6, <1>7 DEF Next, Terminated

LEMMA WriterInit == NodeAssumption /\ Init => WriterInv
<1> SUFFICES ASSUME NodeAssumption, Init
             PROVE  WriterInv
  OBVIOUS
<1>1. Claims /\ OneWriter
  BY DEF Init, Claims, OneWriter
<1>2. ASSUME NEW n \in Node
      PROVE  PathClaimed(n) /\ FileState(n)
  BY DEF Init, PathClaimed, FileState, Early, Upstream, Unlaunched, Seen
<1> QED BY <1>1, <1>2 DEF WriterInv

\* The inductive invariant behind the two theorems below: who may write a hash is settled
\* by the ledger until the file exists, and by the existence of the file from then on.
THEOREM WriterInvariant == NodeAssumption => (Spec => []WriterInv)
<1> SUFFICES ASSUME NodeAssumption
             PROVE  Spec => []WriterInv
  OBVIOUS
<1>1. Init => WriterInv
  BY WriterInit
<1>2. TypeInv /\ WriterInv /\ [Next]_vars => WriterInv'
  BY WriterNext DEF TypeInv
<1> QED BY <1>1, <1>2, TypeInvariant, PTL DEF Spec

\* No two agents ever write one cache file, whatever the graph, the duplicates in it, the
\* failures and the teardowns: the streams that follow a growing file rely on it.
THEOREM SingleWriter == NodeAssumption => (Spec => []OneWriter)
<1> SUFFICES ASSUME NodeAssumption
             PROVE  Spec => []OneWriter
  OBVIOUS
<1>1. WriterInv => OneWriter
  BY DEF WriterInv
<1> QED BY <1>1, WriterInvariant, PTL

\* A process opens a cache file, with O_TRUNC, only while the file does not exist: the end
\* of the claim at A_SAVE_BEGIN leaves no gap before the existence test takes over.
THEOREM NoTruncation == NodeAssumption => (Spec => NeverTruncates)
<1> SUFFICES ASSUME NodeAssumption
             PROVE  Spec => NeverTruncates
  OBVIOUS
<1>1. TypeInv /\ WriterInv /\ [Next]_vars =>
        [\A n \in Node : med[n] = "computing" /\ med'[n] = "saving"
                            => disk[HashOf[n]] = "absent"]_vars
  BY WriterNext DEF TypeInv
<1> QED BY <1>1, TypeInvariant, WriterInvariant, PTL DEF Spec, NeverTruncates
=============================================================================
