--------------------- MODULE PigfAgentSettled_proofs ----------------------
(* What an agent has told its consumers in each of its states, for every   *)
(* graph of operations: nobody is left waiting, nothing told is taken      *)
(* back, and the gate cannot lock up.                                      *)
EXTENDS PigfAgent_proofs

USE DEF Shape, PC, Chained, Waiting, MedState, MedEvent, Goto, frontVars, agentVars,
        flagVars, medVars, gateVars, appVars, tryVars, sharedVars, otherVars

-----------------------------------------------------------------------------
(* The inductive invariant.                                                *)

\* Nothing was told.
Untold(n) == result[n] = "none" /\ ~promiseResolved[n] /\ dupOf[n] = NoNode
Fresh(n)  == Untold(n) /\ front[n] = "none" /\ begin[n] = "none"

\* The continuation is out, if the result is a cache handle.
Promised(n) ==
    Untold(n) /\ begin[n] = "none" /\ front[n] = IF n \in OutCache THEN "cont" ELSE "none"

\* The process computes, and has opened its file once the promise is resolved.
Computes(n) ==
    /\ dupOf[n] = NoNode
    /\ IF n \in OutCache
       THEN /\ front[n] = "cont" /\ begin[n] = "begin"
            /\ result[n] = IF promiseResolved[n] THEN "val" ELSE "none"
       ELSE /\ begin[n] = "none" /\ result[n] = "none"
            /\ front[n] = IF promiseResolved[n] THEN "val" ELSE "none"

\* The consumers find a value or an error,
Told(n) ==
    \/ front[n] \in {"val", "err"} /\ begin[n] = "none"
    \/ front[n] = "cont" /\ begin[n] = "begin" /\ result[n] # "none"
\* an answer is still due,
Owes(n) ==
    /\ front[n] \in {"none", "cont"} /\ result[n] = "none" /\ begin[n] # "alias"
    /\ begin[n] = "begin" => front[n] = "cont"
\* or another agent gives it.
Aliased(n) ==
    \/ front[n] = "alias" /\ begin[n] = "none"
    \/ n \in OutCache /\ front[n] = "cont" /\ begin[n] = "alias"

Inside == {"LAUNCH", "HELLO", "SENDOP", "SEND", "SENDEND", "RESULT"}
Due    == {"FIRSTWAIT", "GATE"} \cup (Inside \ {"RESULT"})

Stage(n) ==
    /\ pc[n] \in {"INI", "START", "CACHEREAD"} => Fresh(n)
    /\ pc[n] \in Due => Promised(n)
    /\ pc[n] \in {"RESULT", "BYE"} => Computes(n)
    /\ pc[n] = "BYE" => promiseResolved[n]
    /\ pc[n] \in {"ERROR", "ABORT"} =>
          dupOf[n] = NoNode /\ IF promiseResolved[n] THEN Told(n) ELSE Owes(n)
    /\ pc[n] \in {"FIN", "MEDWAIT", "DONE"} =>
          IF dupOf[n] = NoNode THEN Told(n) ELSE Aliased(n)

\* An alias stands for an agent that has settled its hash and is not an alias itself, and
\* that has a begin level for an alias of that level to stand for.
Owner(n) ==
    cachePath[n] /\ dupOf[n] = NoNode /\ (n \in OutCache => front[n] = "cont")
Links(n) ==
    /\ inflightClaimed[n] => Owner(n)
    /\ dupOf[n] # NoNode => Owner(dupOf[n]) /\ HashOf[dupOf[n]] = HashOf[n]

\* Between the gate and the end of a computation an agent holds a place, and so does one
\* that has begun and has no result yet.
Credit(n) ==
    /\ pc[n] \in Inside => gateCredited[n]
    /\ begin[n] = "begin" /\ result[n] = "none" => gateCredited[n]

\* The arguments of an agent past ACT_START are known, and have begun when it is inside.
Supplied(n) ==
    /\ pc[n] \in {"FIRSTWAIT", "GATE"} => ArgsKnown(n)
    /\ gateCredited[n] => ArgsKnown(n) /\ ArgsBegun(n)

\* A_SAVE_DONE comes after A_SAVE_BEGIN, so the promise is resolved when it is read.
Ahead == {"INI", "START", "FIRSTWAIT", "GATE"} \cup Inside
InOrder(s) ==
    \A i \in 1..Len(s) : s[i] = "SAVE_DONE" => \E j \in 1..(i - 1) : s[j] = "SAVE_BEGIN"
Ordered(n) ==
    pc[n] \in Ahead /\ ~promiseResolved[n] =>
        InOrder(inbox[n]) /\ (med[n] = "saving" => Seen(inbox[n]))

SettledInv ==
    \A n \in Node : Stage(n) /\ Links(n) /\ Credit(n) /\ Supplied(n) /\ Ordered(n)

-----------------------------------------------------------------------------
(* What a step of an agent does to what it told.                           *)

\* What was told stays told.
Kept(n) ==
    /\ front[n] # "none" => front'[n] = front[n]
    /\ begin[n] # "none" => begin'[n] = begin[n]
    /\ result[n] # "none" => result'[n] = result[n]
    /\ dupOf[n] # NoNode => dupOf'[n] = dupOf[n]

\* Owners stay owners, and an alias is made of a ledger entry.
Linked(n) ==
    /\ cachePath[n] => cachePath'[n] /\ dupOf'[n] = dupOf[n]
    /\ dupOf'[n] # dupOf[n] => ledger[HashOf[n]] # NoNode /\ dupOf'[n] = ledger[HashOf[n]]
    /\ inflightClaimed'[n] => inflightClaimed[n] \/ Owner(n)'

\* Nobody waits at the gate before its arguments are known, or enters before they begin.
Enters(n) ==
    /\ pc'[n] \in {"FIRSTWAIT", "GATE"} => pc[n] \in {"FIRSTWAIT", "GATE"} \/ ArgsKnown(n)
    /\ gateCredited'[n] => gateCredited[n] \/ (pc[n] = "GATE" /\ ArgsBegun(n))

Same(n) ==
    /\ pc'[n] = pc[n] /\ front'[n] = front[n] /\ begin'[n] = begin[n]
    /\ result'[n] = result[n] /\ promiseResolved'[n] = promiseResolved[n]
    /\ dupOf'[n] = dupOf[n] /\ cachePath'[n] = cachePath[n]
    /\ inflightClaimed'[n] = inflightClaimed[n] /\ gateCredited'[n] = gateCredited[n]

Moves(n) == Stage(n)' /\ Credit(n)' /\ Kept(n) /\ Linked(n) /\ Enters(n)

\* A step of n tells others nothing about another agent.
Good(n) == Moves(n) /\ \A m \in Node \ {n} : Same(m)

USE DEF Moves, Same, Good, Kept, Linked, Enters, Stage, Credit, Fresh, Untold, Promised,
        Computes, Told, Owes, Aliased, Owner, Inside, Due

LEMMA ToldStart ==
  ASSUME NodeAssumption, Shape, WriterInv, SettledInv, NEW n \in Node, Start(n)
  PROVE  Good(n)
<1>0. Stage(n) /\ Credit(n) /\ Ordered(n) /\ PathClaimed(n)
  BY DEF SettledInv, WriterInv
<1>1. CASE StartError(n)
  BY <1>0, <1>1 DEF StartError, PathClaimed, Early, AgentTypeOK, FlagTypeOK
<1>2. CASE StartHit(n)
  BY <1>0, <1>2 DEF StartHit, PathClaimed, Early, AgentTypeOK, FlagTypeOK
<1>3. CASE StartDup(n)
  BY <1>0, <1>3 DEF StartDup, PathClaimed, Early, AgentTypeOK, FlagTypeOK
<1>4. CASE StartFirst(n)
  BY <1>0, <1>4 DEF StartFirst, StartHashed, StartReady, Claim, Continue,
      PathClaimed, Early, AgentTypeOK, FlagTypeOK
<1>5. CASE StartDelayed(n)
  BY <1>0, <1>5 DEF StartDelayed, StartReady, Continue, PathClaimed, Early,
      AgentTypeOK, FlagTypeOK
<1> QED BY <1>1, <1>2, <1>3, <1>4, <1>5 DEF Start

LEMMA ToldLaunch ==
  ASSUME NodeAssumption, Shape, WriterInv, SettledInv, NEW n \in Node, Launch(n)
  PROVE  Good(n)
<1>0. Stage(n) /\ Credit(n) /\ Ordered(n) /\ PathClaimed(n)
  BY DEF SettledInv, WriterInv
<1>1. CASE LaunchOk(n)
  BY <1>0, <1>1 DEF LaunchOk, PathClaimed, Early, AgentTypeOK, FlagTypeOK
<1>2. CASE LaunchNoCommand(n)
  BY <1>0, <1>2 DEF LaunchNoCommand, PathClaimed, Early, AgentTypeOK, FlagTypeOK
<1>3. CASE LaunchFail(n)
  BY <1>0, <1>3 DEF LaunchFail, LeaveGate, PathClaimed, Early, AgentTypeOK,
      FlagTypeOK
<1> QED BY <1>1, <1>2, <1>3 DEF Launch

LEMMA ToldHello ==
  ASSUME NodeAssumption, Shape, WriterInv, SettledInv, NEW n \in Node, Hello(n)
  PROVE  Good(n)
<1>0. Stage(n) /\ Credit(n) /\ Ordered(n) /\ PathClaimed(n)
  BY DEF SettledInv, WriterInv
<1>1. CASE HelloReturned(n)
  BY <1>0, <1>1 DEF HelloReturned, LeaveGate, PathClaimed, Early, AgentTypeOK,
      FlagTypeOK
<1>2. CASE HelloAssert(n)
  BY <1>0, <1>2 DEF HelloAssert, PathClaimed, Early, AgentTypeOK, FlagTypeOK
<1> QED BY <1>1, <1>2 DEF Hello

LEMMA ToldSend ==
  ASSUME NodeAssumption, Shape, WriterInv, SettledInv, NEW n \in Node, Send(n)
  PROVE  Good(n)
<1>0. Stage(n) /\ Credit(n) /\ Ordered(n) /\ PathClaimed(n)
  BY DEF SettledInv, WriterInv
<1>1. CASE SendAbort(n)
  BY <1>0, <1>1 DEF SendAbort, Sent, PathClaimed, Early, AgentTypeOK, FlagTypeOK
<1>2. CASE SendError(n)
  BY <1>0, <1>2 DEF SendError, Sent, PathClaimed, Early, AgentTypeOK, FlagTypeOK
<1>3. CASE SendReady(n)
  BY <1>0, <1>3 DEF SendReady, SendGoesOn, Sent, PathClaimed, Early, AgentTypeOK,
      FlagTypeOK
<1>4. CASE SendHit(n)
  BY <1>0, <1>4 DEF SendHit, SendHashes, SendGoesOn, Sent, PathClaimed, Early,
      AgentTypeOK, FlagTypeOK
<1>5. CASE SendDup(n)
  BY <1>0, <1>5 DEF SendDup, SendHashes, SendGoesOn, Sent, PathClaimed, Early,
      AgentTypeOK, FlagTypeOK
<1>6. CASE SendFirst(n)
  BY <1>0, <1>6 DEF SendFirst, SendHashes, SendGoesOn, Sent, Claim, PathClaimed,
      Early, AgentTypeOK, FlagTypeOK
<1> QED BY <1>1, <1>2, <1>3, <1>4, <1>5, <1>6 DEF Send

LEMMA ToldResult ==
  ASSUME NodeAssumption, Shape, WriterInv, SettledInv, NEW n \in Node, Result(n)
  PROVE  Good(n)
<1>0. Stage(n) /\ Credit(n) /\ Ordered(n) /\ PathClaimed(n)
  BY DEF SettledInv, WriterInv
<1>1. CASE ResultSaveBegin(n)
  BY <1>0, <1>1 DEF ResultSaveBegin, Release, PathClaimed, Early, AgentTypeOK,
      FlagTypeOK
<1>2. CASE ResultSaveDone(n)
  <2>1. promiseResolved[n]
    <3>1. inbox[n] \in Seq(MedEvent) /\ inbox[n] # <<>> /\ inbox[n][1] = "SAVE_DONE"
      BY <1>2 DEF ResultSaveDone, Receive, MedTypeOK
    <3>2. 1 \in 1..Len(inbox[n])
      BY <3>1
    <3>3. ~InOrder(inbox[n])
      BY <3>1, <3>2 DEF InOrder
    <3> QED BY <1>0, <1>2, <3>3 DEF ResultSaveDone, Ordered, Ahead
  <2> QED BY <1>0, <1>2, <2>1 DEF ResultSaveDone, AgentTypeOK, FlagTypeOK
<1>3. CASE ResultError(n)
  BY <1>0, <1>3 DEF ResultError, PathClaimed, Early, AgentTypeOK, FlagTypeOK
<1> QED BY <1>1, <1>2, <1>3 DEF Result

LEMMA ToldFinish ==
  ASSUME NodeAssumption, Shape, WriterInv, SettledInv, NEW n \in Node, Finish(n)
  PROVE  Good(n)
<1>0. Stage(n) /\ Credit(n) /\ Ordered(n) /\ PathClaimed(n)
  BY DEF SettledInv, WriterInv
<1>1. CASE Error(n)
  BY <1>0, <1>1 DEF Error, AnswerError, ResolveBegin, PathClaimed, Early,
      AgentTypeOK, FlagTypeOK
<1>2. CASE AbortToError(n)
  BY <1>0, <1>2 DEF AbortToError, PathClaimed, Early, AgentTypeOK, FlagTypeOK
<1>3. CASE Abort(n)
  BY <1>0, <1>3 DEF Abort, AnswerError, ResolveBegin, PathClaimed, Early,
      AgentTypeOK, FlagTypeOK
<1>4. CASE Fin(n)
  BY <1>0, <1>4 DEF Fin, PathClaimed, Early, AgentTypeOK, FlagTypeOK
<1>5. CASE MedWait(n)
  BY <1>0, <1>5 DEF MedWait, LeaveGate, Release, PathClaimed, Early, AgentTypeOK,
      FlagTypeOK
<1> QED BY <1>1, <1>2, <1>3, <1>4, <1>5 DEF Finish

LEMMA ToldEvent ==
  ASSUME NodeAssumption, Shape, WriterInv, SettledInv, NEW n \in Node, Event(n)
  PROVE  Good(n)
<1>0. Stage(n) /\ Credit(n) /\ Ordered(n) /\ PathClaimed(n)
  BY DEF SettledInv, WriterInv
<1>1. CASE Filter(n)
  BY <1>0, <1>1 DEF Filter, PathClaimed, Early, AgentTypeOK, FlagTypeOK
<1>2. CASE Ignore(n)
  BY <1>0, <1>2 DEF Ignore, PathClaimed, Early, AgentTypeOK, FlagTypeOK
<1> QED BY <1>1, <1>2 DEF Event

LEMMA ToldAdvance ==
  ASSUME NodeAssumption, Shape, WriterInv, SettledInv, NEW n \in Node, Advance(n)
  PROVE  Good(n)
<1>0. Stage(n) /\ Credit(n) /\ Ordered(n) /\ PathClaimed(n)
  BY DEF SettledInv, WriterInv
<1>1. CASE Ini(n)
  BY <1>0, <1>1 DEF Ini, PathClaimed, Early, AgentTypeOK, FlagTypeOK
<1>2. CASE FirstWait(n)
  BY <1>0, <1>2 DEF FirstWait, PathClaimed, Early, AgentTypeOK, FlagTypeOK
<1>3. CASE GateEnter(n)
  BY <1>0, <1>3 DEF GateEnter, PathClaimed, Early, AgentTypeOK, FlagTypeOK
<1>4. CASE SendOp(n)
  BY <1>0, <1>4 DEF SendOp, PathClaimed, Early, AgentTypeOK, FlagTypeOK
<1>5. CASE SendEnd(n)
  BY <1>0, <1>5 DEF SendEnd, ResolveBegin, PathClaimed, Early, AgentTypeOK,
      FlagTypeOK
<1>6. CASE Bye(n)
  BY <1>0, <1>6 DEF Bye, PathClaimed, Early, AgentTypeOK, FlagTypeOK
<1>7. CASE CacheRead(n)
  BY <1>0, <1>7 DEF CacheRead, PathClaimed, Early, AgentTypeOK, FlagTypeOK
<1> QED BY <1>1, <1>2, <1>3, <1>4, <1>5, <1>6, <1>7 DEF Advance

LEMMA ToldTeardownSeen ==
  ASSUME NodeAssumption, Shape, WriterInv, SettledInv, NEW n \in Node, TeardownSeen(n)
  PROVE  Good(n)
<1>0. Stage(n) /\ Credit(n) /\ Ordered(n) /\ PathClaimed(n)
  BY DEF SettledInv, WriterInv
<1>1. CASE GoAbort(n)
  BY <1>0, <1>1 DEF GoAbort, Abortable, PathClaimed, Early, AgentTypeOK,
      FlagTypeOK
<1>2. CASE HelloAbort(n)
  BY <1>0, <1>2 DEF HelloAbort, PathClaimed, Early, AgentTypeOK, FlagTypeOK
<1>3. CASE ByeAbort(n)
  BY <1>0, <1>3 DEF ByeAbort, PathClaimed, Early, AgentTypeOK, FlagTypeOK
<1> QED BY <1>1, <1>2, <1>3 DEF TeardownSeen

HIDE DEF Moves, Same, Good, Kept, Linked, Enters, Stage, Credit, Fresh, Untold, Promised,
         Computes, Told, Owes, Aliased, Owner, Inside, Due

-----------------------------------------------------------------------------
(* Every step.                                                             *)

LEMMA GoodMoves ==
  ASSUME SettledInv, NEW n \in Node, Good(n), NEW m \in Node
  PROVE  Moves(m)
<1>1. CASE m = n
  BY <1>1 DEF Good
<1>2. CASE m # n
  <2>1. Same(m) /\ Stage(m) /\ Credit(m)
    BY <1>2 DEF Good, SettledInv
  <2>2. Stage(m)'
    BY <2>1 DEF Same, Stage, Fresh, Untold, Promised, Computes, Told, Owes, Aliased
  <2> QED BY <2>1, <2>2 DEF Same, Moves, Credit, Kept, Linked, Enters
<1> QED BY <1>1, <1>2

LEMMA SameMoves ==
  ASSUME SettledInv, UNCHANGED <<agentVars, inflightClaimed, gateCredited>>, NEW m \in Node
  PROVE  Moves(m)
<1>1. Same(m) /\ Stage(m) /\ Credit(m)
  BY DEF Same, SettledInv
<1>2. Stage(m)'
  BY <1>1 DEF Same, Stage, Fresh, Untold, Promised, Computes, Told, Owes, Aliased
<1> QED BY <1>1, <1>2 DEF Same, Moves, Credit, Kept, Linked, Enters

LEMMA NextMoves ==
  ASSUME NodeAssumption, Shape, WriterInv, SettledInv, [Next]_vars, NEW m \in Node
  PROVE  Moves(m)
<1>1. ASSUME NEW n \in Node, AgentStep(n) \/ TeardownSeen(n)
      PROVE  Moves(m)
  <2>1. Good(n)
    BY <1>1, ToldStart, ToldLaunch, ToldHello, ToldSend, ToldResult, ToldFinish, ToldEvent,
       ToldAdvance, ToldTeardownSeen DEF AgentStep
  <2> QED BY <2>1, GoodMoves
<1>2. ASSUME NEW n \in Node, Mediator(n)
      PROVE  Moves(m)
  <2>1. UNCHANGED <<agentVars, inflightClaimed, gateCredited>>
    BY <1>2 DEF Mediator, MedHandshake, MedLaunchFailed, MedSaveBegin, MedSaveDone, MedError,
       MedExit, MedDie, MedStep
  <2> QED BY <2>1, SameMoves
<1>3. ASSUME SetLimit \/ Interrupt \/ (\E t \in Try : DestroyAgents(t)) \/ UNCHANGED vars
      PROVE  Moves(m)
  <2>1. UNCHANGED <<agentVars, inflightClaimed, gateCredited>>
    BY <1>3 DEF SetLimit, Interrupt, DestroyAgents, vars
  <2> QED BY <2>1, SameMoves
<1> QED BY <1>1, <1>2, <1>3 DEF Next, Terminated

-----------------------------------------------------------------------------
(* Aliases.                                                                *)

LEMMA AliasStands ==
  ASSUME Shape, NEW n \in Node, Stage(n), front[n] = "alias" \/ begin[n] = "alias"
  PROVE  dupOf[n] \in Node /\ dupOf[n] # NoNode /\ Aliased(n)
BY DEF Stage, Fresh, Untold, Promised, Computes, Told, Owes, Aliased, Inside, Due,
   AgentTypeOK

LEMMA OwnerStays ==
  ASSUME NEW n \in Node, Owner(n), Moves(n)
  PROVE  Owner(n)'
BY DEF Owner, Moves, Linked, Kept

LEMMA LinksNext ==
  ASSUME NodeAssumption, Shape, WriterInv, SettledInv, \A m \in Node : Moves(m)
  PROVE  \A n \in Node : Links(n)'
<1> SUFFICES ASSUME NEW n \in Node
             PROVE  Links(n)'
  OBVIOUS
<1>1. Linked(n) /\ Kept(n) /\ Links(n)
  BY DEF Moves, SettledInv
<1>2. \A k \in Node : Owner(k) => Owner(k)'
  BY OwnerStays
<1>3. inflightClaimed'[n] => Owner(n)'
  BY <1>1, <1>2 DEF Linked, Links, Owner
<1>4. ASSUME dupOf'[n] # NoNode
      PROVE  \E k \in Node : dupOf'[n] = k /\ Owner(k) /\ HashOf[k] = HashOf[n]
  <2>1. CASE dupOf'[n] = dupOf[n]
    BY <1>1, <1>4, <2>1 DEF Links, AgentTypeOK
  <2>2. CASE dupOf'[n] # dupOf[n]
    <3>1. PICK k \in Node : dupOf'[n] = k /\ k = ledger[HashOf[n]] /\ k # NoNode
      BY <1>1, <2>2, HashType DEF Linked, AppTypeOK
    <3>2. HashOf[k] = HashOf[n] /\ inflightClaimed[k]
      BY <3>1, HashType DEF WriterInv, Claims
    <3>3. Owner(k)
      BY <3>2 DEF SettledInv, Links
    <3> QED BY <3>1, <3>2, <3>3
  <2> QED BY <2>1, <2>2
<1>5. ASSUME dupOf'[n] # NoNode
      PROVE  \E k \in Node : dupOf'[n] = k /\ Owner(k)' /\ HashOf[k] = HashOf[n]
  BY <1>2, <1>4, <1>5
<1> QED BY <1>3, <1>5 DEF Links, Owner

\* What stands behind a node is a node, and once known it stays what it is.
LEMMA FrontStays ==
  ASSUME Shape, SettledInv, \A m \in Node : Moves(m), NEW k \in Node, FrontOf(k) # "none"
  PROVE  /\ FrontNode(k) \in Node
         /\ FrontNode(k)' = FrontNode(k) /\ FrontOf(k)' = FrontOf(k)
<1>1. \A m \in Node : Kept(m) /\ Stage(m)
  BY DEF Moves, SettledInv
<1>2. CASE front[k] = "alias"
  <2>1. dupOf[k] \in Node /\ dupOf[k] # NoNode
    BY <1>1, <1>2, AliasStands
  <2>2. front'[k] = "alias" /\ dupOf'[k] = dupOf[k]
    BY <1>1, <1>2, <2>1 DEF Kept
  <2>3. front'[dupOf[k]] = front[dupOf[k]]
    BY <1>1, <1>2, <2>1 DEF Kept, FrontOf, FrontNode
  <2> QED BY <1>2, <2>1, <2>2, <2>3 DEF FrontNode, FrontOf
<1>3. CASE front[k] # "alias"
  <2>1. front'[k] = front[k]
    BY <1>1, <1>3 DEF Kept, FrontOf, FrontNode
  <2> QED BY <1>3, <2>1 DEF FrontNode, FrontOf
<1> QED BY <1>2, <1>3

LEMMA BegunStays ==
  ASSUME Shape, SettledInv, \A m \in Node : Moves(m), NEW k \in Node, FrontOf(k) # "none",
         Begun(k)
  PROVE  /\ BeginNode(k) \in Node
         /\ BeginNode(k)' = BeginNode(k) /\ Begun(k)'
<1>1. PICK f \in Node : f = FrontNode(k) /\ f = FrontNode(k)'
  BY FrontStays
<1>2. Kept(f) /\ Stage(f)
  BY DEF Moves, SettledInv
<1>3. CASE begin[f] = "alias"
  <2>1. dupOf[f] \in Node /\ dupOf[f] # NoNode
    BY <1>2, <1>3, AliasStands
  <2>2. begin'[f] = "alias" /\ dupOf'[f] = dupOf[f]
    BY <1>2, <1>3, <2>1 DEF Kept
  <2>3. BeginNode(k) = dupOf[f] /\ BeginNode(k)' = dupOf[f]
    BY <1>1, <1>3, <2>2 DEF BeginNode
  <2>4. Kept(dupOf[f])
    BY <2>1 DEF Moves
  <2> QED BY <2>1, <2>3, <2>4 DEF Begun, Kept
<1>4. CASE begin[f] # "alias"
  <2>1. BeginNode(k) = f
    BY <1>1, <1>4 DEF BeginNode
  <2>2. begin[f] = "begin" /\ begin'[f] = "begin"
    BY <1>2, <2>1 DEF Begun, Kept
  <2>3. BeginNode(k)' = f
    BY <1>1, <2>2 DEF BeginNode
  <2> QED BY <2>1, <2>2, <2>3 DEF Begun
<1> QED BY <1>3, <1>4

LEMMA SuppliedNext ==
  ASSUME NodeAssumption, Shape, SettledInv, \A m \in Node : Moves(m)
  PROVE  \A n \in Node : Supplied(n)'
<1> SUFFICES ASSUME NEW n \in Node
             PROVE  Supplied(n)'
  OBVIOUS
<1>1. Enters(n) /\ Supplied(n)
  BY DEF Moves, SettledInv
<1>2. Args[n] \subseteq Node
  BY DEF NodeAssumption
<1>3. ArgsKnown(n) => ArgsKnown(n)'
  BY <1>2, FrontStays DEF ArgsKnown
<1>4. ArgsKnown(n) /\ ArgsBegun(n) => ArgsBegun(n)'
  BY <1>2, FrontStays, BegunStays DEF ArgsKnown, ArgsBegun, Delayed
<1> QED BY <1>1, <1>3, <1>4 DEF Enters, Supplied

-----------------------------------------------------------------------------
(* The order of the events.                                                *)

LEMMA HeadIsFirst ==
  ASSUME NEW s \in Seq(MedEvent), s # <<>>, Head(s) # "SAVE_BEGIN", InOrder(s)
  PROVE  InOrder(Tail(s)) /\ (Seen(s) => Seen(Tail(s)))
<1>1. s[1] # "SAVE_BEGIN" /\ Len(s) \in Nat /\ Len(s) > 0 /\ Len(Tail(s)) = Len(s) - 1
  OBVIOUS
<1>2. \A i \in 1..Len(Tail(s)) : Tail(s)[i] = s[i + 1] /\ i + 1 \in 1..Len(s)
  BY <1>1
<1>3. ASSUME NEW i \in 2..Len(s), s[i] = "SAVE_BEGIN"
      PROVE  i - 1 \in 1..Len(Tail(s)) /\ Tail(s)[i - 1] = "SAVE_BEGIN"
  <2>1. i - 1 \in 1..Len(Tail(s)) /\ (i - 1) + 1 = i
    BY <1>1
  <2> QED BY <1>2, <1>3, <2>1
<1>4. Seen(s) => Seen(Tail(s))
  <2> SUFFICES ASSUME Seen(s)
               PROVE  Seen(Tail(s))
    OBVIOUS
  <2>1. PICK i \in 1..Len(s) : s[i] = "SAVE_BEGIN"
    BY DEF Seen
  <2>2. i \in 2..Len(s)
    BY <1>1, <2>1
  <2> QED BY <1>3, <2>1, <2>2 DEF Seen
<1>5. ASSUME NEW i \in 1..Len(Tail(s)), Tail(s)[i] = "SAVE_DONE"
      PROVE  \E j \in 1..(i - 1) : Tail(s)[j] = "SAVE_BEGIN"
  <2>1. PICK j \in 1..((i + 1) - 1) : s[j] = "SAVE_BEGIN"
    BY <1>2, <1>5 DEF InOrder
  <2>2. j \in 2..Len(s) /\ j - 1 \in 1..(i - 1)
    BY <1>1, <1>2, <2>1
  <2> QED BY <1>3, <2>1, <2>2
<1> QED BY <1>4, <1>5 DEF InOrder

LEMMA LastIsLast ==
  ASSUME NEW s \in Seq(MedEvent), NEW e \in MedEvent, InOrder(s), e = "SAVE_DONE" => Seen(s)
  PROVE  InOrder(s \o <<e>>) /\ (Seen(s) \/ e = "SAVE_BEGIN" => Seen(s \o <<e>>))
<1>1. /\ Len(s) \in Nat /\ Len(s \o <<e>>) = Len(s) + 1 /\ (s \o <<e>>)[Len(s) + 1] = e
      /\ \A i \in 1..Len(s) : (s \o <<e>>)[i] = s[i]
  OBVIOUS
<1>2. ASSUME NEW i \in 1..Len(s \o <<e>>), (s \o <<e>>)[i] = "SAVE_DONE"
      PROVE  \E j \in 1..(i - 1) : (s \o <<e>>)[j] = "SAVE_BEGIN"
  <2>1. CASE i \in 1..Len(s)
    <3>1. PICK j \in 1..(i - 1) : s[j] = "SAVE_BEGIN"
      BY <1>1, <1>2, <2>1 DEF InOrder
    <3> QED BY <1>1, <2>1, <3>1
  <2>2. CASE i = Len(s) + 1
    <3>1. PICK j \in 1..Len(s) : s[j] = "SAVE_BEGIN"
      BY <1>1, <1>2, <2>2 DEF Seen
    <3> QED BY <1>1, <2>2, <3>1
  <2> QED BY <1>1, <2>1, <2>2
<1>3. Seen(s) => Seen(s \o <<e>>)
  BY <1>1 DEF Seen
<1>4. e = "SAVE_BEGIN" => Seen(s \o <<e>>)
  BY <1>1 DEF Seen
<1> QED BY <1>2, <1>3, <1>4 DEF InOrder

\* No agent that has yet to resolve its promise sees another event, or another mediator
\* that saves.
Quiet(m) ==
    pc'[m] \in Ahead /\ ~promiseResolved'[m] =>
        /\ pc[m] \in Ahead /\ ~promiseResolved[m]
        /\ inbox'[m] = inbox[m] /\ (med'[m] = "saving" => med[m] = "saving")

LEMMA QuietOrdered ==
  ASSUME NEW m \in Node, Ordered(m), Quiet(m)
  PROVE  Ordered(m)'
BY DEF Ordered, Quiet

USE DEF Quiet, Ahead, Inside

LEMMA QuietStart ==
  ASSUME Shape, NEW n \in Node, Start(n)
  PROVE  \A m \in Node : Quiet(m)
<1>1. CASE StartError(n)
  BY <1>1 DEF StartError, AgentTypeOK, MedTypeOK
<1>2. CASE StartHit(n)
  BY <1>2 DEF StartHit, AgentTypeOK, MedTypeOK
<1>3. CASE StartDup(n)
  BY <1>3 DEF StartDup, AgentTypeOK, MedTypeOK
<1>4. CASE StartFirst(n)
  BY <1>4 DEF StartFirst, AgentTypeOK, MedTypeOK
<1>5. CASE StartDelayed(n)
  BY <1>5 DEF StartDelayed, AgentTypeOK, MedTypeOK
<1> QED BY <1>1, <1>2, <1>3, <1>4, <1>5 DEF Start

LEMMA QuietLaunch ==
  ASSUME Shape, NEW n \in Node, Launch(n)
  PROVE  \A m \in Node : Quiet(m)
<1>1. CASE LaunchOk(n)
  BY <1>1 DEF LaunchOk, AgentTypeOK, MedTypeOK
<1>2. CASE LaunchNoCommand(n)
  BY <1>2 DEF LaunchNoCommand, AgentTypeOK, MedTypeOK
<1>3. CASE LaunchFail(n)
  BY <1>3 DEF LaunchFail, AgentTypeOK, MedTypeOK
<1> QED BY <1>1, <1>2, <1>3 DEF Launch

LEMMA QuietSend ==
  ASSUME Shape, NEW n \in Node, Send(n)
  PROVE  \A m \in Node : Quiet(m)
<1>1. CASE SendAbort(n)
  BY <1>1 DEF SendAbort, Sent, AgentTypeOK, MedTypeOK
<1>2. CASE SendError(n)
  BY <1>2 DEF SendError, Sent, AgentTypeOK, MedTypeOK
<1>3. CASE SendReady(n)
  BY <1>3 DEF SendReady, SendGoesOn, Sent, AgentTypeOK, MedTypeOK
<1>4. CASE SendHit(n)
  BY <1>4 DEF SendHit, SendHashes, SendGoesOn, Sent, AgentTypeOK, MedTypeOK
<1>5. CASE SendDup(n)
  BY <1>5 DEF SendDup, SendHashes, SendGoesOn, Sent, AgentTypeOK, MedTypeOK
<1>6. CASE SendFirst(n)
  BY <1>6 DEF SendFirst, SendHashes, SendGoesOn, Sent, AgentTypeOK, MedTypeOK
<1> QED BY <1>1, <1>2, <1>3, <1>4, <1>5, <1>6 DEF Send

LEMMA QuietResult ==
  ASSUME Shape, NEW n \in Node, Result(n)
  PROVE  \A m \in Node : Quiet(m)
<1>1. CASE ResultSaveBegin(n)
  BY <1>1 DEF ResultSaveBegin, Receive, AgentTypeOK, MedTypeOK
<1>2. CASE ResultSaveDone(n)
  BY <1>2 DEF ResultSaveDone, Receive, AgentTypeOK, MedTypeOK
<1>3. CASE ResultError(n)
  BY <1>3 DEF ResultError, Receive, AgentTypeOK, MedTypeOK
<1> QED BY <1>1, <1>2, <1>3 DEF Result

LEMMA QuietFinish ==
  ASSUME Shape, NEW n \in Node, Finish(n)
  PROVE  \A m \in Node : Quiet(m)
<1>1. CASE Error(n)
  BY <1>1 DEF Error, AnswerError, ResolveBegin, AgentTypeOK, MedTypeOK
<1>2. CASE AbortToError(n)
  BY <1>2 DEF AbortToError, AgentTypeOK, MedTypeOK
<1>3. CASE Abort(n)
  BY <1>3 DEF Abort, AnswerError, ResolveBegin, AgentTypeOK, MedTypeOK
<1>4. CASE Fin(n)
  BY <1>4 DEF Fin, AgentTypeOK, MedTypeOK
<1>5. CASE MedWait(n)
  BY <1>5 DEF MedWait, AgentTypeOK, MedTypeOK
<1> QED BY <1>1, <1>2, <1>3, <1>4, <1>5 DEF Finish

LEMMA QuietAdvance ==
  ASSUME Shape, NEW n \in Node, Advance(n)
  PROVE  \A m \in Node : Quiet(m)
<1>1. CASE Ini(n)
  BY <1>1 DEF Ini, AgentTypeOK, MedTypeOK
<1>2. CASE FirstWait(n)
  BY <1>2 DEF FirstWait, AgentTypeOK, MedTypeOK
<1>3. CASE GateEnter(n)
  BY <1>3 DEF GateEnter, AgentTypeOK, MedTypeOK
<1>4. CASE SendOp(n)
  BY <1>4 DEF SendOp, AgentTypeOK, MedTypeOK
<1>5. CASE SendEnd(n)
  BY <1>5 DEF SendEnd, ResolveBegin, AgentTypeOK, MedTypeOK
<1>6. CASE Bye(n)
  BY <1>6 DEF Bye, AgentTypeOK, MedTypeOK
<1>7. CASE CacheRead(n)
  BY <1>7 DEF CacheRead, AgentTypeOK, MedTypeOK
<1> QED BY <1>1, <1>2, <1>3, <1>4, <1>5, <1>6, <1>7 DEF Advance

LEMMA QuietTeardownSeen ==
  ASSUME Shape, NEW n \in Node, TeardownSeen(n)
  PROVE  \A m \in Node : Quiet(m)
<1>1. CASE GoAbort(n)
  BY <1>1 DEF GoAbort, Abortable, AgentTypeOK, MedTypeOK
<1>2. CASE HelloAbort(n)
  BY <1>2 DEF HelloAbort, AgentTypeOK, MedTypeOK
<1>3. CASE ByeAbort(n)
  BY <1>3 DEF ByeAbort, AgentTypeOK, MedTypeOK
<1> QED BY <1>1, <1>2, <1>3 DEF TeardownSeen

\* Taking an event that is not A_SAVE_BEGIN, without a change of state functions.
LEMMA TakesOrdered ==
  ASSUME Shape, NEW n \in Node, Ordered(n), NEW ev \in MedEvent \ {"SAVE_BEGIN"},
         Receive(n, ev), UNCHANGED <<promiseResolved, med>>, pc'[n] \in Ahead => pc[n] \in Ahead
  PROVE  Ordered(n)'
<1>1. /\ inbox[n] \in Seq(MedEvent) /\ inbox[n] # <<>> /\ Head(inbox[n]) # "SAVE_BEGIN"
      /\ inbox'[n] = Tail(inbox[n])
  BY DEF Receive, MedTypeOK
<1>2. InOrder(inbox[n]) => InOrder(inbox'[n]) /\ (Seen(inbox[n]) => Seen(inbox'[n]))
  BY <1>1, HeadIsFirst
<1> HIDE DEF Ahead
<1> QED BY <1>2 DEF Ordered

LEMMA OrderedHello ==
  ASSUME Shape, SettledInv, NEW n \in Node, Hello(n), NEW m \in Node
  PROVE  Ordered(m)'
<1>0. Ordered(m) /\ Ordered(n)
  BY DEF SettledInv
<1>1. CASE HelloReturned(n)
  <2>1. Quiet(m)
    BY <1>1 DEF HelloReturned, AgentTypeOK
  <2> QED BY <1>0, <2>1, QuietOrdered
<1>2. CASE HelloAssert(n) /\ m = n
  <2>1. /\ Receive(n, "ASSERT") /\ UNCHANGED <<promiseResolved, med>>
        /\ pc'[n] \in Ahead => pc[n] \in Ahead
    BY <1>2 DEF HelloAssert
  <2> QED BY <1>0, <1>2, <2>1, TakesOrdered
<1>3. CASE HelloAssert(n) /\ m # n
  <2>1. Quiet(m)
    BY <1>3 DEF HelloAssert, Receive, AgentTypeOK, MedTypeOK
  <2> QED BY <1>0, <2>1, QuietOrdered
<1> QED BY <1>1, <1>2, <1>3 DEF Hello

LEMMA OrderedEvent ==
  ASSUME Shape, SettledInv, NEW n \in Node, Event(n), NEW m \in Node
  PROVE  Ordered(m)'
<1>0. Ordered(m) /\ Ordered(n)
  BY DEF SettledInv
<1>1. CASE Ignore(n)
  <2>1. Quiet(m)
    BY <1>1 DEF Ignore, Receive, AgentTypeOK, MedTypeOK
  <2> QED BY <1>0, <2>1, QuietOrdered
<1>2. CASE Filter(n) /\ m = n
  <2>1. /\ Receive(n, "RETURN") /\ UNCHANGED <<promiseResolved, med>>
        /\ pc'[n] \in Ahead => pc[n] \in Ahead
    BY <1>2 DEF Filter
  <2> QED BY <1>0, <1>2, <2>1, TakesOrdered
<1>3. CASE Filter(n) /\ m # n
  <2>1. Quiet(m)
    BY <1>3 DEF Filter, Receive, AgentTypeOK, MedTypeOK
  <2> QED BY <1>0, <2>1, QuietOrdered
<1> QED BY <1>1, <1>2, <1>3 DEF Event

LEMMA OrderedMediator ==
  ASSUME Shape, SettledInv, NEW n \in Node, Mediator(n), NEW m \in Node
  PROVE  Ordered(m)'
<1>0. Ordered(m)
  BY DEF SettledInv
<1>1. PICK to \in MedState, ev \in MedEvent :
          /\ med' = [med EXCEPT ![n] = to] /\ inbox' = [inbox EXCEPT ![n] = @ \o <<ev>>]
          /\ UNCHANGED <<pc, promiseResolved>>
          /\ ev = "SAVE_DONE" => med[n] = "saving"
          /\ to = "saving" => ev = "SAVE_BEGIN"
  <2>1. CASE MedHandshake(n) \/ MedLaunchFailed(n) \/ MedSaveBegin(n)
    BY <2>1 DEF MedHandshake, MedLaunchFailed, MedSaveBegin, MedStep
  <2>2. CASE MedSaveDone(n) \/ MedError(n)
    BY <2>2 DEF MedSaveDone, MedError, MedStep
  <2>3. CASE MedExit(n) \/ MedDie(n)
    BY <2>3 DEF MedExit, MedDie, MedStep
  <2> QED BY <2>1, <2>2, <2>3 DEF Mediator
<1>2. CASE m # n
  <2>1. Quiet(m)
    BY <1>1, <1>2 DEF MedTypeOK
  <2> QED BY <1>0, <2>1, QuietOrdered
<1>3. CASE m = n
  <2>1. inbox[n] \in Seq(MedEvent) /\ inbox'[n] = inbox[n] \o <<ev>> /\ med'[n] = to
    BY <1>1 DEF MedTypeOK
  <2>2. InOrder(inbox[n]) /\ (ev = "SAVE_DONE" => Seen(inbox[n])) =>
            InOrder(inbox'[n]) /\ (ev = "SAVE_BEGIN" => Seen(inbox'[n]))
    BY <2>1, LastIsLast
  <2> HIDE DEF Ahead
  <2> QED BY <1>0, <1>1, <1>3, <2>1, <2>2 DEF Ordered
<1> QED BY <1>2, <1>3

LEMMA OrderedNext ==
  ASSUME Shape, SettledInv, [Next]_vars, NEW m \in Node
  PROVE  Ordered(m)'
<1>0. Ordered(m)
  BY DEF SettledInv
<1>1. ASSUME NEW n \in Node, AgentStep(n) \/ TeardownSeen(n)
      PROVE  Ordered(m)'
  <2>1. CASE Hello(n) \/ Event(n)
    BY <2>1, OrderedHello, OrderedEvent
  <2>2. CASE ~Hello(n) /\ ~Event(n)
    <3>1. Quiet(m)
      BY <1>1, <2>2, QuietStart, QuietLaunch, QuietSend, QuietResult, QuietFinish, QuietAdvance,
         QuietTeardownSeen DEF AgentStep
    <3> QED BY <1>0, <3>1, QuietOrdered
  <2> QED BY <2>1, <2>2
<1>2. ASSUME NEW n \in Node, Mediator(n)
      PROVE  Ordered(m)'
  BY <1>2, OrderedMediator
<1>3. ASSUME SetLimit \/ Interrupt \/ (\E t \in Try : DestroyAgents(t)) \/ UNCHANGED vars
      PROVE  Ordered(m)'
  <2>1. UNCHANGED <<agentVars, medVars>>
    BY <1>3 DEF SetLimit, Interrupt, DestroyAgents, vars
  <2>2. Quiet(m)
    BY <2>1
  <2> QED BY <1>0, <2>2, QuietOrdered
<1> QED BY <1>1, <1>2, <1>3 DEF Next, Terminated

HIDE DEF Quiet, Ahead, Inside

-----------------------------------------------------------------------------

LEMMA SettledInit == NodeAssumption /\ Init => SettledInv
<1> SUFFICES ASSUME NodeAssumption, Init, NEW n \in Node
             PROVE  Stage(n) /\ Links(n) /\ Credit(n) /\ Supplied(n) /\ Ordered(n)
  BY DEF SettledInv
<1>1. pc[n] = "INI" /\ Fresh(n) /\ ~inflightClaimed[n] /\ ~gateCredited[n] /\ inbox[n] = <<>>
      /\ med[n] = "null"
  BY DEF Init, Fresh, Untold
<1>2. InOrder(inbox[n])
  BY <1>1 DEF InOrder
<1>3. Stage(n)
  BY <1>1 DEF Stage, Due, Inside
<1>4. Links(n) /\ Credit(n) /\ Supplied(n)
  BY <1>1 DEF Links, Credit, Supplied, Inside, Fresh, Untold
<1> QED BY <1>1, <1>2, <1>3, <1>4 DEF Ordered

\* The inductive invariant behind the theorems below: which of its three levels an agent has
\* resolved in each state, for whom an alias stands, and who is inside the gate.
THEOREM SettledInvariant == NodeAssumption => (Spec => []SettledInv)
<1> SUFFICES ASSUME NodeAssumption
             PROVE  Spec => []SettledInv
  OBVIOUS
<1>1. Init => SettledInv
  BY SettledInit
<1>2. TypeInv /\ WriterInv /\ SettledInv /\ [Next]_vars => SettledInv'
  <2> SUFFICES ASSUME Shape, WriterInv, SettledInv, [Next]_vars
               PROVE  SettledInv'
    BY DEF TypeInv
  <2>1. \A m \in Node : Moves(m)
    BY NextMoves
  <2>2. ASSUME NEW n \in Node
        PROVE  Links(n)' /\ Supplied(n)' /\ Ordered(n)'
    BY <2>1, LinksNext, SuppliedNext, OrderedNext
  <2> QED BY <2>1, <2>2 DEF SettledInv, Moves
<1> QED BY <1>1, <1>2, TypeInvariant, WriterInvariant, PTL DEF Spec

\* The gate cannot lock up, at any limit and for any graph: whoever is inside waits only for
\* agents that are inside, also through aliases of both levels.
THEOREM GateCannotLock == NodeAssumption => (Spec => []HoldersWaitOnHolders)
<1> SUFFICES ASSUME NodeAssumption
             PROVE  Spec => []HoldersWaitOnHolders
  OBVIOUS
<1>1. TypeInv /\ SettledInv => HoldersWaitOnHolders
  <2> SUFFICES ASSUME Shape, SettledInv, NEW n \in Node, gateCredited[n], NEW a \in Args[n],
                      Delayed(a), ResultOf(a) = "none"
               PROVE  gateCredited[BeginNode(a)]
    BY DEF TypeInv, HoldersWaitOnHolders
  <2>1. a \in Node /\ Begun(a)
    BY DEF NodeAssumption, SettledInv, Supplied, ArgsBegun
  <2>2. begin[BeginNode(a)] = "begin" /\ result[BeginNode(a)] = "none"
    BY <2>1 DEF Begun, ResultOf
  <2>3. BeginNode(a) \in Node
    <3>1. FrontNode(a) \in Node
      BY <2>1, AliasStands DEF FrontNode, SettledInv
    <3>2. PICK f \in Node : f = FrontNode(a)
      BY <3>1
    <3> QED BY <3>2, AliasStands DEF BeginNode, SettledInv
  <2> QED BY <2>2, <2>3 DEF SettledInv, Credit
<1> QED BY <1>1, TypeInvariant, SettledInvariant, PTL

\* Nobody is left waiting: when an agent is gone, and the one it is an alias of too, a value
\* or an error is there, whatever failed or was torn down.
THEOREM NobodyLeftWaiting == NodeAssumption => (Spec => []FinishedSettled)
<1> SUFFICES ASSUME NodeAssumption
             PROVE  Spec => []FinishedSettled
  OBVIOUS
<1>1. TypeInv /\ SettledInv => FinishedSettled
  <2> SUFFICES ASSUME Shape, SettledInv, NEW n \in Node, pc[n] = "DONE",
                      dupOf[n] # NoNode => pc[dupOf[n]] = "DONE"
               PROVE  Settled(n)
    BY DEF TypeInv, FinishedSettled
  <2>1. \A k \in Node : pc[k] = "DONE" /\ dupOf[k] = NoNode => Told(k)
    BY DEF SettledInv, Stage
  <2>2. CASE dupOf[n] = NoNode
    <3>1. FrontNode(n) = n /\ BeginNode(n) = n
      BY <2>1, <2>2 DEF Told, FrontNode, BeginNode
    <3>2. result[n] \in {"none", "val", "err"}
      BY DEF AgentTypeOK
    <3> QED BY <2>1, <2>2, <3>1, <3>2 DEF Told, Settled, Outcome, Delayed, FrontOf, ResultOf,
        Begun
  <2>3. CASE dupOf[n] # NoNode
    <3>1. PICK k \in Node : k = dupOf[n]
      BY <2>3 DEF AgentTypeOK
    <3>2. dupOf[k] = NoNode /\ HashOf[k] = HashOf[n] /\ pc[k] = "DONE"
      BY <2>3, <3>1 DEF SettledInv, Links, Owner
    <3>3. Told(k) /\ result[k] \in {"none", "val", "err"}
      BY <2>1, <3>2 DEF AgentTypeOK
    <3>4. Aliased(n)
      BY <2>3 DEF SettledInv, Stage
    <3>5. CASE front[n] = "alias"
      <4>1. FrontNode(n) = k /\ BeginNode(n) = k
        BY <3>1, <3>3, <3>5 DEF Told, FrontNode, BeginNode
      <4> QED BY <3>3, <4>1 DEF Told, Settled, Outcome, Delayed, FrontOf, ResultOf, Begun
    <3>6. CASE n \in OutCache /\ front[n] = "cont" /\ begin[n] = "alias"
      <4>1. FrontNode(n) = n /\ BeginNode(n) = k
        BY <3>1, <3>6 DEF FrontNode, BeginNode
      <4>2. front[k] = "cont"
        <5>1. k \in OutCache
          BY <3>2, <3>6 DEF NodeAssumption
        <5> QED BY <2>3, <3>1, <5>1 DEF SettledInv, Links, Owner
      <4> QED BY <3>3, <3>6, <4>1, <4>2 DEF Told, Settled, Outcome, Delayed, FrontOf, ResultOf,
          Begun
    <3> QED BY <3>4, <3>5, <3>6 DEF Aliased
  <2> QED BY <2>2, <2>3
<1> QED BY <1>1, TypeInvariant, SettledInvariant, PTL

\* What a consumer has read of a node stays.
LEMMA OutcomeStays ==
  ASSUME Shape, SettledInv, \A m \in Node : Moves(m), NEW k \in Node, Settled(k)
  PROVE  Outcome(k)' = Outcome(k)
<1>1. FrontOf(k) # "none" /\ FrontOf(k)' = FrontOf(k)
  <2>1. FrontOf(k) # "none"
    BY DEF Settled, Outcome, Delayed
  <2> QED BY <2>1, FrontStays
<1>2. CASE ~Delayed(k)
  BY <1>1, <1>2 DEF Outcome, Delayed
<1>3. CASE Delayed(k)
  <2>1. Begun(k) /\ result[BeginNode(k)] # "none"
    BY <1>3 DEF Settled, Outcome, ResultOf
  <2>2. BeginNode(k) \in Node /\ BeginNode(k)' = BeginNode(k) /\ Begun(k)'
    BY <1>1, <2>1, BegunStays
  <2>3. PICK b \in Node : b = BeginNode(k) /\ b = BeginNode(k)'
    BY <2>2
  <2>4. result'[b] = result[b]
    BY <2>1, <2>3 DEF Moves, Kept
  <2> QED BY <1>1, <1>3, <2>1, <2>2, <2>3, <2>4 DEF Outcome, Delayed, ResultOf
<1> QED BY <1>2, <1>3

\* A value or an error that a consumer has found is never replaced, by no late failure and
\* by no teardown, and neither does an alias turn to someone else.
THEOREM OutcomesStay == NodeAssumption => (Spec => OutcomeStable)
<1> SUFFICES ASSUME NodeAssumption
             PROVE  Spec => OutcomeStable
  OBVIOUS
<1>1. TypeInv /\ WriterInv /\ SettledInv /\ [Next]_vars =>
        [\A n \in Node : Settled(n) => Outcome(n)' = Outcome(n)]_vars
  <2> SUFFICES ASSUME Shape, WriterInv, SettledInv, [Next]_vars, NEW n \in Node, Settled(n)
               PROVE  Outcome(n)' = Outcome(n)
    BY DEF TypeInv
  <2>1. \A m \in Node : Moves(m)
    BY NextMoves
  <2> QED BY <2>1, OutcomeStays
<1> QED BY <1>1, TypeInvariant, WriterInvariant, SettledInvariant, PTL DEF Spec, OutcomeStable

-----------------------------------------------------------------------------
(* Child processes and the wait lists.                                     *)

Watched(n) ==
    /\ pc[n] \notin {"INI", "DONE"} => n \in waiters[TryOf[n]]
    /\ pc[n] = "DONE" => med[n] = "null"
    /\ Alive(n) /\ n \notin InProc => extCounted[n]
WatchInv == \A n \in Node : Watched(n)

\* An agent between its first and its last step stays on its list, no process is started.
WatchKept ==
    /\ UNCHANGED <<waiters, extCounted>>
    /\ \A m \in Node :
          /\ pc'[m] \notin {"INI", "DONE"} => pc[m] \notin {"INI", "DONE"}
          /\ pc'[m] = "DONE" => pc[m] = "DONE" /\ (med[m] = "null" => med'[m] = "null")
          /\ Alive(m)' => Alive(m)

LEMMA WatchKeptInv ==
  ASSUME WatchInv, WatchKept
  PROVE  WatchInv'
<1> SUFFICES ASSUME NEW n \in Node
             PROVE  Watched(n)'
  BY DEF WatchInv
<1>1. Watched(n)
  BY DEF WatchInv
<1> QED BY <1>1 DEF WatchKept, Watched

LEMMA WatchStart ==
  ASSUME Shape, NEW n \in Node, Start(n)
  PROVE  WatchKept
<1>1. CASE StartError(n)
  BY <1>1 DEF StartError, WatchKept, Alive, AgentTypeOK, MedTypeOK
<1>2. CASE StartHit(n)
  BY <1>2 DEF StartHit, WatchKept, Alive, AgentTypeOK, MedTypeOK
<1>3. CASE StartDup(n)
  BY <1>3 DEF StartDup, WatchKept, Alive, AgentTypeOK, MedTypeOK
<1>4. CASE StartFirst(n)
  BY <1>4 DEF StartFirst, WatchKept, Alive, AgentTypeOK, MedTypeOK
<1>5. CASE StartDelayed(n)
  BY <1>5 DEF StartDelayed, WatchKept, Alive, AgentTypeOK, MedTypeOK
<1> QED BY <1>1, <1>2, <1>3, <1>4, <1>5 DEF Start

LEMMA WatchLaunch ==
  ASSUME Shape, NEW n \in Node, Launch(n), ~LaunchOk(n)
  PROVE  WatchKept
<1>1. CASE LaunchNoCommand(n)
  BY <1>1 DEF LaunchNoCommand, WatchKept, Alive, AgentTypeOK, MedTypeOK
<1>2. CASE LaunchFail(n)
  BY <1>2 DEF LaunchFail, WatchKept, Alive, AgentTypeOK, MedTypeOK
<1> QED BY <1>1, <1>2 DEF Launch

LEMMA WatchHello ==
  ASSUME Shape, NEW n \in Node, Hello(n)
  PROVE  WatchKept
<1>1. CASE HelloReturned(n)
  BY <1>1 DEF HelloReturned, WatchKept, Alive, AgentTypeOK, MedTypeOK
<1>2. CASE HelloAssert(n)
  BY <1>2 DEF HelloAssert, WatchKept, Alive, AgentTypeOK, MedTypeOK
<1> QED BY <1>1, <1>2 DEF Hello

LEMMA WatchSend ==
  ASSUME Shape, NEW n \in Node, Send(n)
  PROVE  WatchKept
<1>1. CASE SendAbort(n)
  BY <1>1 DEF SendAbort, Sent, WatchKept, Alive, AgentTypeOK, MedTypeOK
<1>2. CASE SendError(n)
  BY <1>2 DEF SendError, Sent, WatchKept, Alive, AgentTypeOK, MedTypeOK
<1>3. CASE SendReady(n)
  BY <1>3 DEF SendReady, SendGoesOn, Sent, WatchKept, Alive, AgentTypeOK,
      MedTypeOK
<1>4. CASE SendHit(n)
  BY <1>4 DEF SendHit, SendHashes, SendGoesOn, Sent, WatchKept, Alive,
      AgentTypeOK, MedTypeOK
<1>5. CASE SendDup(n)
  BY <1>5 DEF SendDup, SendHashes, SendGoesOn, Sent, WatchKept, Alive,
      AgentTypeOK, MedTypeOK
<1>6. CASE SendFirst(n)
  BY <1>6 DEF SendFirst, SendHashes, SendGoesOn, Sent, WatchKept, Alive,
      AgentTypeOK, MedTypeOK
<1> QED BY <1>1, <1>2, <1>3, <1>4, <1>5, <1>6 DEF Send

LEMMA WatchResult ==
  ASSUME Shape, NEW n \in Node, Result(n)
  PROVE  WatchKept
<1>1. CASE ResultSaveBegin(n)
  BY <1>1 DEF ResultSaveBegin, WatchKept, Alive, AgentTypeOK, MedTypeOK
<1>2. CASE ResultSaveDone(n)
  BY <1>2 DEF ResultSaveDone, WatchKept, Alive, AgentTypeOK, MedTypeOK
<1>3. CASE ResultError(n)
  BY <1>3 DEF ResultError, WatchKept, Alive, AgentTypeOK, MedTypeOK
<1> QED BY <1>1, <1>2, <1>3 DEF Result

LEMMA WatchFinish ==
  ASSUME Shape, NEW n \in Node, Finish(n), ~MedWait(n)
  PROVE  WatchKept
<1>1. CASE Error(n)
  BY <1>1 DEF Error, WatchKept, Alive, AgentTypeOK, MedTypeOK
<1>2. CASE AbortToError(n)
  BY <1>2 DEF AbortToError, WatchKept, Alive, AgentTypeOK, MedTypeOK
<1>3. CASE Abort(n)
  BY <1>3 DEF Abort, WatchKept, Alive, AgentTypeOK, MedTypeOK
<1>4. CASE Fin(n)
  BY <1>4 DEF Fin, WatchKept, Alive, AgentTypeOK, MedTypeOK
<1> QED BY <1>1, <1>2, <1>3, <1>4 DEF Finish

LEMMA WatchEvent ==
  ASSUME Shape, NEW n \in Node, Event(n)
  PROVE  WatchKept
<1>1. CASE Filter(n)
  BY <1>1 DEF Filter, WatchKept, Alive, AgentTypeOK, MedTypeOK
<1>2. CASE Ignore(n)
  BY <1>2 DEF Ignore, WatchKept, Alive, AgentTypeOK, MedTypeOK
<1> QED BY <1>1, <1>2 DEF Event

LEMMA WatchAdvance ==
  ASSUME Shape, NEW n \in Node, Advance(n), ~Ini(n)
  PROVE  WatchKept
<1>1. CASE FirstWait(n)
  BY <1>1 DEF FirstWait, WatchKept, Alive, AgentTypeOK, MedTypeOK
<1>2. CASE GateEnter(n)
  BY <1>2 DEF GateEnter, WatchKept, Alive, AgentTypeOK, MedTypeOK
<1>3. CASE SendOp(n)
  BY <1>3 DEF SendOp, WatchKept, Alive, AgentTypeOK, MedTypeOK
<1>4. CASE SendEnd(n)
  BY <1>4 DEF SendEnd, WatchKept, Alive, AgentTypeOK, MedTypeOK
<1>5. CASE Bye(n)
  BY <1>5 DEF Bye, WatchKept, Alive, AgentTypeOK, MedTypeOK
<1>6. CASE CacheRead(n)
  BY <1>6 DEF CacheRead, WatchKept, Alive, AgentTypeOK, MedTypeOK
<1> QED BY <1>1, <1>2, <1>3, <1>4, <1>5, <1>6 DEF Advance

LEMMA WatchTeardownSeen ==
  ASSUME Shape, NEW n \in Node, TeardownSeen(n)
  PROVE  WatchKept
<1>1. CASE GoAbort(n)
  BY <1>1 DEF GoAbort, Abortable, WatchKept, Alive, AgentTypeOK, MedTypeOK
<1>2. CASE HelloAbort(n)
  BY <1>2 DEF HelloAbort, WatchKept, Alive, AgentTypeOK, MedTypeOK
<1>3. CASE ByeAbort(n)
  BY <1>3 DEF ByeAbort, WatchKept, Alive, AgentTypeOK, MedTypeOK
<1> QED BY <1>1, <1>2, <1>3 DEF TeardownSeen

LEMMA WatchIni ==
  ASSUME NodeAssumption, Shape, WatchInv, NEW n \in Node, Ini(n)
  PROVE  WatchInv'
<1> SUFFICES ASSUME NEW m \in Node
             PROVE  Watched(m)'
  BY DEF WatchInv
<1>1. /\ pc[n] = "INI" /\ pc' = [pc EXCEPT ![n] = "START"]
      /\ waiters' = [waiters EXCEPT ![TryOf[n]] = @ \cup {n}]
      /\ UNCHANGED <<med, extCounted>>
  BY DEF Ini
<1>2. TryOf[n] \in Try /\ TryOf[m] \in Try
  BY DEF NodeAssumption
<1>3. Watched(m)
  BY DEF WatchInv
<1> QED BY <1>1, <1>2, <1>3 DEF Watched, Alive, AgentTypeOK, AppTypeOK

LEMMA WatchLaunchOk ==
  ASSUME Shape, WatchInv, NEW n \in Node, LaunchOk(n)
  PROVE  WatchInv'
<1> SUFFICES ASSUME NEW m \in Node
             PROVE  Watched(m)'
  BY DEF WatchInv
<1>1. /\ pc[n] = "LAUNCH" /\ pc' = [pc EXCEPT ![n] = "HELLO"]
      /\ med' = [med EXCEPT ![n] = "starting"]
      /\ UNCHANGED waiters
      /\ (n \in InProc /\ UNCHANGED extCounted) \/ extCounted' = [extCounted EXCEPT ![n] = TRUE]
  BY DEF LaunchOk
<1>2. Watched(m)
  BY DEF WatchInv
<1> QED BY <1>1, <1>2 DEF Watched, Alive, AgentTypeOK, FlagTypeOK, MedTypeOK

LEMMA WatchMedWait ==
  ASSUME NodeAssumption, Shape, WatchInv, NEW n \in Node, MedWait(n)
  PROVE  WatchInv'
<1> SUFFICES ASSUME NEW m \in Node
             PROVE  Watched(m)'
  BY DEF WatchInv
<1>1. /\ pc' = [pc EXCEPT ![n] = "DONE"] /\ med' = [med EXCEPT ![n] = "null"]
      /\ waiters' = [waiters EXCEPT ![TryOf[n]] = @ \ {n}]
      /\ extCounted' = [extCounted EXCEPT ![n] = FALSE]
  BY DEF MedWait
<1>2. TryOf[n] \in Try /\ TryOf[m] \in Try
  BY DEF NodeAssumption
<1>3. Watched(m)
  BY DEF WatchInv
<1> QED BY <1>1, <1>2, <1>3 DEF Watched, Alive, AgentTypeOK, AppTypeOK, FlagTypeOK, MedTypeOK

LEMMA WatchMediator ==
  ASSUME Shape, WatchInv, NEW n \in Node, Mediator(n)
  PROVE  WatchInv'
<1>1. PICK to \in MedState :
          /\ Alive(n) /\ med' = [med EXCEPT ![n] = to]
          /\ UNCHANGED <<pc, waiters, extCounted>>
  <2>1. CASE MedHandshake(n) \/ MedLaunchFailed(n) \/ MedSaveBegin(n) \/ MedSaveDone(n)
    BY <2>1 DEF MedHandshake, MedLaunchFailed, MedSaveBegin, MedSaveDone, MedStep, Alive
  <2>2. CASE MedError(n) \/ MedExit(n) \/ MedDie(n)
    BY <2>2 DEF MedError, MedExit, MedDie, MedStep, Alive
  <2> QED BY <2>1, <2>2 DEF Mediator
<1>2. pc[n] # "DONE"
  BY <1>1 DEF WatchInv, Watched, Alive
<1>3. WatchKept
  BY <1>1, <1>2 DEF WatchKept, Alive, MedTypeOK
<1> QED BY <1>3, WatchKeptInv

LEMMA WatchNext ==
  ASSUME NodeAssumption, Shape, WatchInv, [Next]_vars
  PROVE  WatchInv'
<1>1. ASSUME NEW n \in Node, AgentStep(n) \/ TeardownSeen(n)
      PROVE  WatchInv'
  <2>1. CASE Ini(n) \/ LaunchOk(n) \/ MedWait(n)
    BY <2>1, WatchIni, WatchLaunchOk, WatchMedWait
  <2>2. CASE ~Ini(n) /\ ~LaunchOk(n) /\ ~MedWait(n)
    <3>1. WatchKept
      BY <1>1, <2>2, WatchStart, WatchLaunch, WatchHello, WatchSend, WatchResult, WatchFinish,
         WatchEvent, WatchAdvance, WatchTeardownSeen DEF AgentStep
    <3> QED BY <3>1, WatchKeptInv
  <2> QED BY <2>1, <2>2
<1>2. ASSUME NEW n \in Node, Mediator(n)
      PROVE  WatchInv'
  BY <1>2, WatchMediator
<1>3. ASSUME SetLimit \/ Interrupt \/ (\E t \in Try : DestroyAgents(t)) \/ UNCHANGED vars
      PROVE  WatchInv'
  <2>1. UNCHANGED <<agentVars, medVars, waiters, extCounted>>
    BY <1>3 DEF SetLimit, Interrupt, DestroyAgents, vars
  <2>2. WatchKept
    BY <2>1 DEF WatchKept, Alive
  <2> QED BY <2>2, WatchKeptInv
<1> QED BY <1>1, <1>2, <1>3 DEF Next, Terminated

\* No module process outlives its agent's entry in the wait list of its try and in the count
\* of child processes, by which the planner decides to end and a panic decides to abort.
THEOREM NoStrayChild == NodeAssumption => (Spec => []ChildrenWatched)
<1> SUFFICES ASSUME NodeAssumption
             PROVE  Spec => []ChildrenWatched
  OBVIOUS
<1>1. Init => WatchInv
  BY DEF Init, WatchInv, Watched, Alive
<1>2. TypeInv /\ WatchInv /\ [Next]_vars => WatchInv'
  BY WatchNext DEF TypeInv
<1>3. TypeInv /\ WriterInv /\ WatchInv => ChildrenWatched
  <2> SUFFICES ASSUME TypeInv, WriterInv, WatchInv
               PROVE  ChildrenWatched
    OBVIOUS
  <2>1. extAgents = Cardinality({n \in Node : extCounted[n]})
    BY DEF TypeInv, Counted, Marked
  <2>2. ASSUME NEW n \in Node, Alive(n)
        PROVE  n \in waiters[TryOf[n]] /\ (n \notin InProc => extCounted[n])
    <3>1. pc[n] \notin {"INI", "DONE"}
      BY <2>2 DEF WriterInv, FileState, Unlaunched, WatchInv, Watched, Alive
    <3> QED BY <2>2, <3>1 DEF WatchInv, Watched
  <2> QED BY <2>1, <2>2 DEF ChildrenWatched
<1> QED BY <1>1, <1>2, <1>3, TypeInvariant, WriterInvariant, PTL DEF Spec

-----------------------------------------------------------------------------
(* A file cut short.                                                       *)

Has(s, e) == \E i \in 1..Len(s) : s[i] = e

\* What the events on their way, the mediator and the state of the agent say together.
Tells(n) ==
    /\ Has(inbox[n], "SAVE_DONE") => disk[HashOf[n]] = "complete"
    /\ Has(inbox[n], "SAVE_DONE") \/ Has(inbox[n], "ERROR") => med[n] \in {"done", "gone", "null"}
    /\ Has(inbox[n], "RETURN") \/ mediator_return_flag[n] => med[n] \in {"gone", "null"}
    /\ pc[n] \in Ahead => ~err[n]
    /\ med[n] \in {"computing", "saving"} => pc[n] = "RESULT" \/ agentError \/ destroyed[n]

\* The file of an agent may be cut short: it is being written, the news of its end is on the
\* way, the agent is about to report it, or it was reported.
Accounted(n) ==
    \/ agentError \/ destroyed[n]
    \/ /\ pc[n] = "RESULT"
       /\ \/ med[n] = "saving" \/ Has(inbox[n], "ERROR") \/ Has(inbox[n], "RETURN")
          \/ mediator_return_flag[n]
    \/ pc[n] = "ABORT" /\ mediator_return_flag[n] /\ ~err[n]
    \/ pc[n] = "ERROR"
    \/ /\ pc[n] \in {"FIN", "MEDWAIT", "DONE"} /\ dupOf[n] = NoNode
       /\ front[n] = "err" \/ (front[n] = "cont" /\ result[n] = "err")

Blame == \A h \in Hash :
    disk[h] = "partial" => \E n \in Node : HashOf[n] = h /\ Accounted(n)
CorpseInv == Blame /\ \A n \in Node : Tells(n)

LEMMA TakeHas ==
  ASSUME Shape, NEW n \in Node, NEW ev, Receive(n, ev)
  PROVE  /\ Has(inbox[n], ev)
         /\ \A e : Has(inbox'[n], e) => Has(inbox[n], e)
         /\ \A e : e # ev /\ Has(inbox[n], e) => Has(inbox'[n], e)
         /\ \A m \in Node \ {n} : inbox'[m] = inbox[m]
<1>1. PICK s \in Seq(MedEvent) : s = inbox[n]
  BY DEF MedTypeOK
<1>2. /\ s # <<>> /\ s[1] = ev /\ inbox'[n] = Tail(s)
      /\ \A m \in Node \ {n} : inbox'[m] = inbox[m]
  BY <1>1 DEF Receive, MedTypeOK
<1>3. /\ Len(s) \in Nat /\ Len(s) > 0 /\ Len(Tail(s)) = Len(s) - 1
      /\ \A i \in 1..(Len(s) - 1) : Tail(s)[i] = s[i + 1]
  BY <1>2
<1>4. Has(s, ev)
  BY <1>2, <1>3 DEF Has
<1>5. ASSUME NEW e, Has(Tail(s), e)
      PROVE  Has(s, e)
  <2>1. PICK i \in 1..(Len(s) - 1) : s[i + 1] = e
    BY <1>3, <1>5 DEF Has
  <2>2. i + 1 \in 1..Len(s)
    BY <1>3
  <2> QED BY <2>1, <2>2 DEF Has
<1>6. ASSUME NEW e, e # ev, Has(s, e)
      PROVE  Has(Tail(s), e)
  <2>1. PICK i \in 1..Len(s) : s[i] = e
    BY <1>6 DEF Has
  <2>2. i # 1
    BY <1>2, <1>6, <2>1
  <2>3. i - 1 \in 1..(Len(s) - 1) /\ (i - 1) + 1 = i
    BY <1>3, <2>2
  <2>4. Tail(s)[i - 1] = e
    BY <1>3, <2>1, <2>3
  <2> QED BY <1>3, <2>3, <2>4 DEF Has
<1> QED BY <1>1, <1>2, <1>4, <1>5, <1>6

LEMMA AppendHas ==
  ASSUME NEW s \in Seq(MedEvent), NEW ev \in MedEvent
  PROVE  \A e : Has(s \o <<ev>>, e) <=> Has(s, e) \/ e = ev
<1>1. /\ Len(s) \in Nat /\ Len(s \o <<ev>>) = Len(s) + 1 /\ (s \o <<ev>>)[Len(s) + 1] = ev
      /\ \A i \in 1..Len(s) : (s \o <<ev>>)[i] = s[i]
  OBVIOUS
<1>2. ASSUME NEW e, Has(s \o <<ev>>, e)
      PROVE  Has(s, e) \/ e = ev
  <2>1. PICK i \in 1..(Len(s) + 1) : (s \o <<ev>>)[i] = e
    BY <1>1, <1>2 DEF Has
  <2> QED BY <1>1, <2>1 DEF Has
<1>3. ASSUME NEW e, Has(s, e) \/ e = ev
      PROVE  Has(s \o <<ev>>, e)
  BY <1>1, <1>3 DEF Has
<1> QED BY <1>2, <1>3

\* What a step leaves alone.
Beside(m) ==
    /\ pc'[m] = pc[m] /\ inbox'[m] = inbox[m] /\ med'[m] = med[m]
    /\ mediator_return_flag'[m] = mediator_return_flag[m] /\ err'[m] = err[m]
    /\ front'[m] = front[m] /\ result'[m] = result[m] /\ dupOf'[m] = dupOf[m]
Teardown ==
    (agentError => agentError') /\ \A m \in Node : destroyed[m] => destroyed'[m]

\* A run of a state function of n.
Owns(n) ==
    /\ Teardown /\ UNCHANGED disk
    /\ \A m \in Node \ {n} : Beside(m)
    /\ Tells(n)'
    /\ disk[HashOf[n]] = "partial" /\ Accounted(n) => Accounted(n)'

LEMMA BesideKept ==
  ASSUME NEW m \in Node, Tells(m), Beside(m), Teardown,
         disk[HashOf[m]] = "complete" => disk'[HashOf[m]] = "complete"
  PROVE  Tells(m)' /\ (Accounted(m) => Accounted(m)')
<1>1. Tells(m)'
  BY DEF Tells, Beside, Teardown
<1>2. Accounted(m) => Accounted(m)'
  BY DEF Accounted, Beside, Teardown
<1> QED BY <1>1, <1>2

USE DEF Owns, Teardown, Beside, Tells, Accounted, Ahead, Inside

LEMMA OwnsStart ==
  ASSUME Shape, WriterInv, SettledInv, CorpseInv, NEW n \in Node, Start(n)
  PROVE  Owns(n)
<1>0. Tells(n) /\ Stage(n) /\ FileState(n)
  BY DEF CorpseInv, SettledInv, WriterInv
<1>1. CASE StartError(n)
  BY <1>0, <1>1 DEF StartError, AgentTypeOK, FlagTypeOK, MedTypeOK, AppTypeOK
<1>2. CASE StartHit(n)
  BY <1>0, <1>2 DEF StartHit, AgentTypeOK, FlagTypeOK, MedTypeOK, AppTypeOK
<1>3. CASE StartDup(n)
  BY <1>0, <1>3 DEF StartDup, Stage, Promised, Fresh, Untold, Due, AgentTypeOK,
      FlagTypeOK, MedTypeOK, AppTypeOK
<1>4. CASE StartFirst(n)
  BY <1>0, <1>4 DEF StartFirst, StartHashed, StartReady, Continue, AgentTypeOK,
      FlagTypeOK, MedTypeOK, AppTypeOK
<1>5. CASE StartDelayed(n)
  BY <1>0, <1>5 DEF StartDelayed, StartReady, Continue, AgentTypeOK, FlagTypeOK,
      MedTypeOK, AppTypeOK
<1> QED BY <1>1, <1>2, <1>3, <1>4, <1>5 DEF Start

LEMMA OwnsLaunch ==
  ASSUME Shape, WriterInv, SettledInv, CorpseInv, NEW n \in Node, Launch(n)
  PROVE  Owns(n)
<1>0. Tells(n) /\ Stage(n) /\ FileState(n)
  BY DEF CorpseInv, SettledInv, WriterInv
<1>1. CASE LaunchOk(n)
  <2>1. pc[n] = "LAUNCH" /\ ~ShouldAbort(n)
    BY <1>1 DEF LaunchOk
  <2>2. inbox[n] = <<>>
    BY <1>0, <2>1 DEF FileState, Unlaunched
  <2>3. \A e : ~Has(inbox[n], e)
    BY <2>2 DEF Has
  <2> QED BY <1>0, <1>1, <2>1, <2>3 DEF LaunchOk, ShouldAbort, AgentTypeOK, FlagTypeOK,
        MedTypeOK, AppTypeOK
<1>2. CASE LaunchNoCommand(n)
  BY <1>0, <1>2 DEF LaunchNoCommand, AgentTypeOK, FlagTypeOK, MedTypeOK, AppTypeOK
<1>3. CASE LaunchFail(n)
  BY <1>0, <1>3 DEF LaunchFail, AgentTypeOK, FlagTypeOK, MedTypeOK, AppTypeOK
<1> QED BY <1>1, <1>2, <1>3 DEF Launch

LEMMA OwnsHello ==
  ASSUME Shape, WriterInv, SettledInv, CorpseInv, NEW n \in Node, Hello(n)
  PROVE  Owns(n)
<1>0. Tells(n) /\ Stage(n) /\ FileState(n)
  BY DEF CorpseInv, SettledInv, WriterInv
<1>1. CASE HelloReturned(n)
  BY <1>0, <1>1 DEF HelloReturned, AgentTypeOK, FlagTypeOK, MedTypeOK, AppTypeOK
<1>2. CASE HelloAssert(n)
  <2>1. Receive(n, "ASSERT")
    BY <1>2 DEF HelloAssert
  <2>2. /\ Has(inbox[n], "ASSERT")
        /\ \A e : Has(inbox'[n], e) => Has(inbox[n], e)
        /\ \A e : e # "ASSERT" /\ Has(inbox[n], e) => Has(inbox'[n], e)
        /\ \A m \in Node \ {n} : inbox'[m] = inbox[m]
    BY <2>1, TakeHas
  <2> QED
    BY <1>0, <1>2, <2>2 DEF HelloAssert, AgentTypeOK, FlagTypeOK, MedTypeOK,
      AppTypeOK
<1> QED BY <1>1, <1>2 DEF Hello

LEMMA OwnsSend ==
  ASSUME Shape, WriterInv, SettledInv, CorpseInv, NEW n \in Node, Send(n)
  PROVE  Owns(n)
<1>0. Tells(n) /\ Stage(n) /\ FileState(n)
  BY DEF CorpseInv, SettledInv, WriterInv
<1>1. CASE SendAbort(n)
  BY <1>0, <1>1 DEF SendAbort, Sent, AgentTypeOK, FlagTypeOK, MedTypeOK, AppTypeOK
<1>2. CASE SendError(n)
  BY <1>0, <1>2 DEF SendError, Sent, AgentTypeOK, FlagTypeOK, MedTypeOK, AppTypeOK
<1>3. CASE SendReady(n)
  BY <1>0, <1>3 DEF SendReady, SendGoesOn, Sent, AgentTypeOK, FlagTypeOK,
      MedTypeOK, AppTypeOK
<1>4. CASE SendHit(n)
  BY <1>0, <1>4 DEF SendHit, SendHashes, SendGoesOn, Sent, Stage, Promised, Fresh,
      Untold, Due, AgentTypeOK, FlagTypeOK, MedTypeOK, AppTypeOK
<1>5. CASE SendDup(n)
  BY <1>0, <1>5 DEF SendDup, SendHashes, SendGoesOn, Sent, Stage, Promised, Fresh,
      Untold, Due, AgentTypeOK, FlagTypeOK, MedTypeOK, AppTypeOK
<1>6. CASE SendFirst(n)
  BY <1>0, <1>6 DEF SendFirst, SendHashes, SendGoesOn, Sent, AgentTypeOK,
      FlagTypeOK, MedTypeOK, AppTypeOK
<1> QED BY <1>1, <1>2, <1>3, <1>4, <1>5, <1>6 DEF Send

LEMMA OwnsResult ==
  ASSUME Shape, WriterInv, SettledInv, CorpseInv, NEW n \in Node, Result(n)
  PROVE  Owns(n)
<1>0. Tells(n) /\ Stage(n) /\ FileState(n)
  BY DEF CorpseInv, SettledInv, WriterInv
<1>1. CASE ResultSaveBegin(n)
  <2>1. Receive(n, "SAVE_BEGIN")
    BY <1>1 DEF ResultSaveBegin
  <2>2. /\ Has(inbox[n], "SAVE_BEGIN")
        /\ \A e : Has(inbox'[n], e) => Has(inbox[n], e)
        /\ \A e : e # "SAVE_BEGIN" /\ Has(inbox[n], e) => Has(inbox'[n], e)
        /\ \A m \in Node \ {n} : inbox'[m] = inbox[m]
    BY <2>1, TakeHas
  <2> QED
    BY <1>0, <1>1, <2>2 DEF ResultSaveBegin, AgentTypeOK, FlagTypeOK, MedTypeOK,
      AppTypeOK
<1>2. CASE ResultSaveDone(n)
  <2>1. Receive(n, "SAVE_DONE")
    BY <1>2 DEF ResultSaveDone
  <2>2. /\ Has(inbox[n], "SAVE_DONE")
        /\ \A e : Has(inbox'[n], e) => Has(inbox[n], e)
        /\ \A e : e # "SAVE_DONE" /\ Has(inbox[n], e) => Has(inbox'[n], e)
        /\ \A m \in Node \ {n} : inbox'[m] = inbox[m]
    BY <2>1, TakeHas
  <2> QED
    BY <1>0, <1>2, <2>2 DEF ResultSaveDone, AgentTypeOK, FlagTypeOK, MedTypeOK,
      AppTypeOK
<1>3. CASE ResultError(n)
  <2>1. Receive(n, "ERROR")
    BY <1>3 DEF ResultError
  <2>2. /\ Has(inbox[n], "ERROR")
        /\ \A e : Has(inbox'[n], e) => Has(inbox[n], e)
        /\ \A e : e # "ERROR" /\ Has(inbox[n], e) => Has(inbox'[n], e)
        /\ \A m \in Node \ {n} : inbox'[m] = inbox[m]
    BY <2>1, TakeHas
  <2> QED
    BY <1>0, <1>3, <2>2 DEF ResultError, AgentTypeOK, FlagTypeOK, MedTypeOK,
      AppTypeOK
<1> QED BY <1>1, <1>2, <1>3 DEF Result

LEMMA OwnsFinish ==
  ASSUME Shape, WriterInv, SettledInv, CorpseInv, NEW n \in Node, Finish(n)
  PROVE  Owns(n)
<1>0. Tells(n) /\ Stage(n) /\ FileState(n)
  BY DEF CorpseInv, SettledInv, WriterInv
<1>1. CASE Error(n)
  BY <1>0, <1>1 DEF Error, AnswerError, ResolveBegin, Stage, Told, Owes,
      AgentTypeOK, FlagTypeOK, MedTypeOK, AppTypeOK
<1>2. CASE AbortToError(n)
  BY <1>0, <1>2 DEF AbortToError, ShouldAbort, OnlyMediator, AgentTypeOK,
      FlagTypeOK, MedTypeOK, AppTypeOK
<1>3. CASE Abort(n)
  BY <1>0, <1>3 DEF Abort, AnswerError, ResolveBegin, Stage, Told, Owes,
      ShouldAbort, OnlyMediator, AgentTypeOK, FlagTypeOK, MedTypeOK, AppTypeOK
<1>4. CASE Fin(n)
  BY <1>0, <1>4 DEF Fin, AgentTypeOK, FlagTypeOK, MedTypeOK, AppTypeOK
<1>5. CASE MedWait(n)
  BY <1>0, <1>5 DEF MedWait, AgentTypeOK, FlagTypeOK, MedTypeOK, AppTypeOK
<1> QED BY <1>1, <1>2, <1>3, <1>4, <1>5 DEF Finish

LEMMA OwnsEvent ==
  ASSUME Shape, WriterInv, SettledInv, CorpseInv, NEW n \in Node, Event(n)
  PROVE  Owns(n)
<1>0. Tells(n) /\ Stage(n) /\ FileState(n)
  BY DEF CorpseInv, SettledInv, WriterInv
<1>1. CASE Filter(n)
  <2>1. Receive(n, "RETURN")
    BY <1>1 DEF Filter
  <2>2. /\ Has(inbox[n], "RETURN")
        /\ \A e : Has(inbox'[n], e) => Has(inbox[n], e)
        /\ \A e : e # "RETURN" /\ Has(inbox[n], e) => Has(inbox'[n], e)
        /\ \A m \in Node \ {n} : inbox'[m] = inbox[m]
    BY <2>1, TakeHas
  <2> QED
    BY <1>0, <1>1, <2>2 DEF Filter, AgentTypeOK, FlagTypeOK, MedTypeOK, AppTypeOK
<1>2. CASE Ignore(n)
  <2>1. PICK ev \in MedEvent \ {"RETURN"} : Receive(n, ev)
    BY <1>2 DEF Ignore
  <2>2. /\ Has(inbox[n], ev)
        /\ \A e : Has(inbox'[n], e) => Has(inbox[n], e)
        /\ \A e : e # ev /\ Has(inbox[n], e) => Has(inbox'[n], e)
        /\ \A m \in Node \ {n} : inbox'[m] = inbox[m]
    BY <2>1, TakeHas
  <2> QED
    BY <1>0, <1>2, <2>2 DEF Ignore, AgentTypeOK, FlagTypeOK, MedTypeOK, AppTypeOK
<1> QED BY <1>1, <1>2 DEF Event

LEMMA OwnsAdvance ==
  ASSUME Shape, WriterInv, SettledInv, CorpseInv, NEW n \in Node, Advance(n)
  PROVE  Owns(n)
<1>0. Tells(n) /\ Stage(n) /\ FileState(n)
  BY DEF CorpseInv, SettledInv, WriterInv
<1>1. CASE Ini(n)
  BY <1>0, <1>1 DEF Ini, AgentTypeOK, FlagTypeOK, MedTypeOK, AppTypeOK
<1>2. CASE FirstWait(n)
  BY <1>0, <1>2 DEF FirstWait, AgentTypeOK, FlagTypeOK, MedTypeOK, AppTypeOK
<1>3. CASE GateEnter(n)
  BY <1>0, <1>3 DEF GateEnter, AgentTypeOK, FlagTypeOK, MedTypeOK, AppTypeOK
<1>4. CASE SendOp(n)
  BY <1>0, <1>4 DEF SendOp, AgentTypeOK, FlagTypeOK, MedTypeOK, AppTypeOK
<1>5. CASE SendEnd(n)
  BY <1>0, <1>5 DEF SendEnd, ResolveBegin, ShouldAbort, AgentTypeOK, FlagTypeOK,
      MedTypeOK, AppTypeOK
<1>6. CASE Bye(n)
  BY <1>0, <1>6 DEF Bye, AgentTypeOK, FlagTypeOK, MedTypeOK, AppTypeOK
<1>7. CASE CacheRead(n)
  BY <1>0, <1>7 DEF CacheRead, AgentTypeOK, FlagTypeOK, MedTypeOK, AppTypeOK
<1> QED BY <1>1, <1>2, <1>3, <1>4, <1>5, <1>6, <1>7 DEF Advance

LEMMA OwnsTeardownSeen ==
  ASSUME Shape, WriterInv, SettledInv, CorpseInv, NEW n \in Node, TeardownSeen(n)
  PROVE  Owns(n)
<1>0. Tells(n) /\ Stage(n) /\ FileState(n)
  BY DEF CorpseInv, SettledInv, WriterInv
<1>1. CASE GoAbort(n)
  BY <1>0, <1>1 DEF GoAbort, Abortable, ShouldAbort, OnlyMediator, AgentTypeOK,
      FlagTypeOK, MedTypeOK, AppTypeOK
<1>2. CASE HelloAbort(n)
  BY <1>0, <1>2 DEF HelloAbort, ShouldAbort, OnlyMediator, AgentTypeOK,
      FlagTypeOK, MedTypeOK, AppTypeOK
<1>3. CASE ByeAbort(n)
  BY <1>0, <1>3 DEF ByeAbort, ShouldAbort, OnlyMediator, AgentTypeOK, FlagTypeOK,
      MedTypeOK, AppTypeOK
<1> QED BY <1>1, <1>2, <1>3 DEF TeardownSeen

HIDE DEF Owns, Teardown, Beside, Tells, Accounted, Ahead, Inside

\* A step of the mediator of n, and what the disk has to do with it.
LEMMA MediatorTells ==
  ASSUME NodeAssumption, Shape, WriterInv, CorpseInv, NEW n \in Node, Mediator(n)
  PROVE  /\ \A m \in Node : Tells(m)'
         /\ \A m \in Node : disk'[HashOf[m]] = "partial" /\ Accounted(m) => Accounted(m)'
         /\ \A h \in Hash : disk'[h] = "partial" =>
               disk[h] = "partial" \/ (h = HashOf[n] /\ Accounted(n)')
<1>1. PICK from \in SUBSET MedState, to \in MedState, ev \in MedEvent :
          /\ med[n] \in from /\ med' = [med EXCEPT ![n] = to]
          /\ inbox' = [inbox EXCEPT ![n] = @ \o <<ev>>]
          /\ UNCHANGED <<agentVars, flagVars, mediator_return_flag, agentError>>
          /\ "null" \notin from /\ "gone" \notin from
          /\ to \in {"computing", "saving"} => med[n] \in {"computing", "saving"}
          /\ ev = "RETURN" <=> to = "gone"
          /\ ev \in {"SAVE_DONE", "ERROR"} <=> to = "done"
          /\ med[n] = "saving" => to \in {"done", "gone"}
          /\ med[n] = "done" => to = "gone"
          /\ \/ ev # "SAVE_DONE" /\ to # "saving" /\ UNCHANGED disk
             \/ ev = "SAVE_DONE" /\ disk' = [disk EXCEPT ![HashOf[n]] = "complete"]
             \/ /\ to = "saving" /\ disk[HashOf[n]] = "absent"
                /\ disk' = [disk EXCEPT ![HashOf[n]] = "partial"]
  <2>1. CASE MedHandshake(n)
    BY <2>1 DEF MedHandshake, MedStep
  <2>2. CASE MedLaunchFailed(n)
    BY <2>2 DEF MedLaunchFailed, MedStep
  <2>3. CASE MedSaveBegin(n)
    <3>1. disk[HashOf[n]] = "absent"
      BY <2>3, WriterMedSaveBegin
    <3> QED BY <2>3, <3>1 DEF MedSaveBegin, MedStep
  <2>4. CASE MedSaveDone(n)
    BY <2>4 DEF MedSaveDone, MedStep
  <2>5. CASE MedError(n)
    BY <2>5 DEF MedError, MedStep
  <2>6. CASE MedExit(n)
    BY <2>6 DEF MedExit, MedStep
  <2>7. CASE MedDie(n)
    BY <2>7 DEF MedDie, MedStep
  <2> QED BY <2>1, <2>2, <2>3, <2>4, <2>5, <2>6, <2>7 DEF Mediator
<1>2. Teardown /\ \A m \in Node \ {n} : Beside(m)
  BY <1>1 DEF Teardown, Beside, MedTypeOK
<1>3. \A h \in Hash : disk[h] = "complete" => disk'[h] = "complete"
  BY <1>1 DEF AppTypeOK
<1>4. \A m \in Node \ {n} : Tells(m)' /\ (Accounted(m) => Accounted(m)')
  BY <1>2, <1>3, BesideKept, HashType DEF CorpseInv
<1>5. \A e : Has(inbox'[n], e) <=> Has(inbox[n], e) \/ e = ev
  <2>1. inbox[n] \in Seq(MedEvent) /\ inbox'[n] = inbox[n] \o <<ev>>
    BY <1>1 DEF MedTypeOK
  <2> QED BY <2>1, AppendHas
<1>6. /\ Tells(n) /\ med'[n] = to /\ HashOf[n] \in Hash
      /\ ev = "SAVE_DONE" => disk'[HashOf[n]] = "complete"
  BY <1>1, HashType DEF CorpseInv, MedTypeOK, AppTypeOK
<1>7. Tells(n)'
  BY <1>1, <1>3, <1>5, <1>6 DEF Tells
<1>8. disk'[HashOf[n]] = "partial" /\ Accounted(n) => Accounted(n)'
  BY <1>1, <1>5, <1>6 DEF Accounted
<1>9. to = "saving" => Accounted(n)'
  BY <1>1, <1>6, <1>7 DEF Tells, Accounted
<1>10. \A h \in Hash : disk'[h] = "partial" =>
          disk[h] = "partial" \/ (h = HashOf[n] /\ Accounted(n)')
  BY <1>1, <1>9 DEF AppTypeOK
<1> QED BY <1>4, <1>7, <1>8, <1>10

\* A file that stays cut short is accounted for by the agent that did before.
LEMMA BlameStays ==
  ASSUME \A m \in Node : disk'[HashOf[m]] = "partial" /\ Accounted(m) => Accounted(m)',
         \A h \in Hash : disk'[h] = "partial" =>
            disk[h] = "partial" \/ \E n \in Node : HashOf[n] = h /\ Accounted(n)',
         Blame
  PROVE  Blame'
BY DEF Blame

LEMMA CorpseNext ==
  ASSUME NodeAssumption, Shape, WriterInv, SettledInv, CorpseInv, [Next]_vars
  PROVE  CorpseInv'
<1>1. ASSUME NEW n \in Node, AgentStep(n) \/ TeardownSeen(n)
      PROVE  CorpseInv'
  <2>1. Owns(n)
    BY <1>1, OwnsStart, OwnsLaunch, OwnsHello, OwnsSend, OwnsResult, OwnsFinish, OwnsEvent,
       OwnsAdvance, OwnsTeardownSeen DEF AgentStep
  <2>2. ASSUME NEW m \in Node
        PROVE  Tells(m)' /\ (disk'[HashOf[m]] = "partial" /\ Accounted(m) => Accounted(m)')
    <3>1. CASE m = n
      BY <2>1, <3>1 DEF Owns
    <3>2. CASE m # n
      BY <2>1, <3>2, BesideKept DEF Owns, CorpseInv
    <3> QED BY <3>1, <3>2
  <2>3. UNCHANGED disk
    BY <2>1 DEF Owns
  <2>4. Blame'
    BY <2>2, <2>3, BlameStays DEF CorpseInv
  <2> QED BY <2>2, <2>4 DEF CorpseInv
<1>2. ASSUME NEW n \in Node, Mediator(n)
      PROVE  CorpseInv'
  <2>1. Blame'
    BY <1>2, MediatorTells, BlameStays DEF CorpseInv
  <2> QED BY <1>2, <2>1, MediatorTells DEF CorpseInv
<1>3. ASSUME SetLimit \/ Interrupt \/ (\E t \in Try : DestroyAgents(t)) \/ UNCHANGED vars
      PROVE  CorpseInv'
  <2>1. UNCHANGED <<agentVars, medVars, disk>>
    BY <1>3 DEF SetLimit, Interrupt, DestroyAgents, vars
  <2>2. Teardown
    <3>1. CASE SetLimit \/ Interrupt \/ UNCHANGED vars
      <4>1. UNCHANGED destroyed /\ (agentError => agentError')
        BY <3>1 DEF SetLimit, Interrupt, vars
      <4> QED BY <4>1 DEF Teardown
    <3>2. ASSUME NEW t \in Try, DestroyAgents(t)
          PROVE  Teardown
      <4>1. /\ UNCHANGED agentError
            /\ destroyed' = [n \in Node |-> destroyed[n] \/ n \in waiters[t]]
        BY <3>2 DEF DestroyAgents
      <4>2. \A m \in Node : destroyed'[m] <=> destroyed[m] \/ m \in waiters[t]
        BY <4>1
      <4> QED BY <4>1, <4>2 DEF Teardown
    <3> QED BY <1>3, <3>1, <3>2
  <2>3. \A m \in Node : Beside(m)
    BY <2>1 DEF Beside
  <2>4. \A m \in Node : Tells(m)' /\ (Accounted(m) => Accounted(m)')
    BY <2>1, <2>2, <2>3, BesideKept DEF CorpseInv
  <2>5. Blame'
    BY <2>1, <2>4, BlameStays DEF CorpseInv
  <2> QED BY <2>4, <2>5 DEF CorpseInv
<1> QED BY <1>1, <1>2, <1>3 DEF Next, Terminated

\* A file that was cut short is never silent: once all its makers are gone there is a
\* teardown, or a consumer of one of them has found an error.
THEOREM NoSilentCorpse == NodeAssumption => (Spec => []CorpseReported)
<1> SUFFICES ASSUME NodeAssumption
             PROVE  Spec => []CorpseReported
  OBVIOUS
<1>1. Init => CorpseInv
  <2> SUFFICES ASSUME Init
               PROVE  CorpseInv
    OBVIOUS
  <2>1. Blame
    BY DEF Init, Blame
  <2>2. ASSUME NEW n \in Node
        PROVE  Tells(n)
    BY DEF Init, Tells, Has
  <2> QED BY <2>1, <2>2 DEF CorpseInv
<1>2. TypeInv /\ WriterInv /\ SettledInv /\ CorpseInv /\ [Next]_vars => CorpseInv'
  BY CorpseNext DEF TypeInv
<1>3. SettledInv /\ CorpseInv => CorpseReported
  <2> SUFFICES ASSUME SettledInv, CorpseInv, NEW h \in Hash, disk[h] = "partial",
                      \A n \in Node : HashOf[n] = h => pc[n] = "DONE"
               PROVE  agentError \/ \E n \in Node : HashOf[n] = h
                                       /\ (destroyed[n] \/ Outcome(n) = "err")
    BY DEF CorpseReported, Corpse
  <2>1. PICK n \in Node : HashOf[n] = h /\ Accounted(n)
    BY DEF CorpseInv, Blame
  <2>2. pc[n] = "DONE"
    BY <2>1
  <2>3. CASE front[n] = "err"
    <3>1. FrontOf(n) = "err"
      BY <2>3 DEF FrontOf, FrontNode
    <3> QED BY <2>1, <3>1 DEF Outcome, Delayed
  <2>4. CASE dupOf[n] = NoNode /\ front[n] = "cont" /\ result[n] = "err"
    <3>1. Told(n)
      BY <2>2, <2>4 DEF SettledInv, Stage
    <3>2. FrontNode(n) = n /\ BeginNode(n) = n /\ begin[n] = "begin"
      BY <2>4, <3>1 DEF Told, FrontNode, BeginNode
    <3> QED BY <2>1, <2>4, <3>2 DEF Outcome, Delayed, FrontOf, ResultOf, Begun
  <2> QED BY <2>1, <2>2, <2>3, <2>4 DEF Accounted
<1> QED BY <1>1, <1>2, <1>3, TypeInvariant, WriterInvariant, SettledInvariant, PTL DEF Spec

=============================================================================
