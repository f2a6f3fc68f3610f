---------------------------- MODULE PigfAgent ----------------------------
(***************************************************************************)
(* The evaluation of a graph of geometry operations by the srava planner:  *)
(* one pigfAgent per operation (pigfAgent.cpp), the worker gate, the       *)
(* in-flight ledger and the teardown reason they share (ptsApplication.cpp)*)
(* and the wait lists of the enclosing tries (pigfOps.cpp).                *)
(*                                                                         *)
(* An action is one run of a state function of pigfAgent, and the planner  *)
(* runs one state function at a time.  The mediator of an agent and the    *)
(* process or thread behind it (ptsMediatorExternal, ptsMediatorInternal)  *)
(* run beside the planner; they are modelled by the events they send and   *)
(* by the cache file they write.                                           *)
(***************************************************************************)
EXTENDS Naturals, Sequences, FiniteSets

CONSTANTS
    Node,      \* the operations of the program, one pigfAgent each
    NoNode,    \* "no node": an empty ledger entry, a front that aliases nothing
    Try,       \* the try blocks, the invisible one of the program included
    Root,      \* the invisible try around the whole program (ptsApp->rootTry)
    Hash,      \* the keys of the result cache
    Args,      \* Args[n]: the operations whose results n takes
    TryOf,     \* TryOf[n]: the innermost try around n
    HashOf,    \* HashOf[n]: the hash of operator, module and argument hashes, so that
               \* operations of one hash have the same routed row (compute_arg_hash)
    OutCache,  \* the operations whose result is a cache handle, not a value
    InProc,    \* the operations whose module runs as a thread of the planner
    MayFail,   \* the operations whose routing, launch, process or write can fail
    MaxLimit,  \* the largest limit the load control gives the worker gate
    Signals    \* TRUE: the user may interrupt the program

ASSUME NodeAssumption ==
    /\ IsFiniteSet(Node) /\ NoNode \notin Node
    /\ Root \in Try
    /\ Args \in [Node -> SUBSET Node]
    /\ TryOf \in [Node -> Try]
    /\ HashOf \in [Node -> Hash]
    /\ \A m, n \in Node : HashOf[m] = HashOf[n] =>
          (m \in OutCache <=> n \in OutCache) /\ (m \in InProc <=> n \in InProc)
    /\ OutCache \subseteq Node /\ InProc \subseteq Node /\ MayFail \subseteq Node
    /\ MaxLimit \in Nat \ {0}
    /\ Signals \in BOOLEAN

VARIABLES
    pc,              \* the state function an agent is in
    front,           \* _front: "none", a continuation, a value, an error, an alias
    begin,           \* beginPromise
    result,          \* promise
    promiseResolved, \* the result was handed to the caller
    dupOf,           \* whose _front an alias stands for (the first to claim the hash)
    cachePath,       \* the hash is settled
    err,             \* the agent has an error of its own to report
    inflightClaimed, \* the agent owns a ledger entry
    gateCredited,    \* the agent holds a place in the worker gate
    extCounted,      \* the agent is counted as having a child process
    destroyed,       \* is_destroyed()
    inbox,           \* events of the mediator on their way to the agent
    mediator_return_flag,
    med,             \* the mediator and the process behind it
    launchFailed,    \* launch_failed() of the mediator
    \* shared by all agents
    gateCount, gateLimit, loadAgents, extAgents,
    ledger,          \* the in-flight ledger: hash -> the node that computes it
    disk,            \* the cache files
    agentError,      \* a teardown reason is set on the root try
    waiters,         \* the wait list of every try
    tearingDown,     \* tries that were told to tear down
    tryErrs          \* tries that an agent pushed an error to

frontVars  == <<front, begin, result, promiseResolved, dupOf>>
agentVars  == <<pc, frontVars, cachePath, err>>
flagVars   == <<inflightClaimed, gateCredited, extCounted, destroyed>>
medVars    == <<inbox, mediator_return_flag, med, launchFailed>>
gateVars   == <<gateCount, gateLimit, loadAgents, extAgents>>
appVars    == <<ledger, disk, agentError>>
tryVars    == <<waiters, tearingDown, tryErrs>>
sharedVars == <<gateVars, appVars, tryVars>>
otherVars  == <<flagVars, medVars, sharedVars>>
vars == <<agentVars, otherVars>>

\* State functions that are entered with rDO and cannot yield: they run in the same
\* dispatch as the one before, with no other agent in between.
Chained == {"LAUNCH", "ERROR", "ABORT", "FIN"}
Waiting == {"START", "FIRSTWAIT", "GATE", "CACHEREAD", "HELLO",
            "SENDOP", "SEND", "SENDEND", "RESULT", "BYE", "MEDWAIT"}
PC == {"INI", "DONE"} \cup Chained \cup Waiting

MedState == {"null", "starting", "ready", "computing", "saving", "done", "gone"}
MedEvent == {"ASSERT", "SAVE_BEGIN", "SAVE_DONE", "ERROR", "RETURN"}
Alive(n) == med[n] \in {"starting", "ready", "computing", "saving", "done"}

AgentTypeOK ==
    /\ pc \in [Node -> PC]
    /\ front \in [Node -> {"none", "cont", "val", "err", "alias"}]
    /\ begin \in [Node -> {"none", "begin", "alias"}]
    /\ result \in [Node -> {"none", "val", "err"}]
    /\ promiseResolved \in [Node -> BOOLEAN]
    /\ dupOf \in [Node -> Node \cup {NoNode}]
    /\ cachePath \in [Node -> BOOLEAN]
    /\ err \in [Node -> BOOLEAN]

FlagTypeOK ==
    /\ inflightClaimed \in [Node -> BOOLEAN]
    /\ gateCredited \in [Node -> BOOLEAN]
    /\ extCounted \in [Node -> BOOLEAN]
    /\ destroyed \in [Node -> BOOLEAN]

MedTypeOK ==
    /\ inbox \in [Node -> Seq(MedEvent)]
    /\ mediator_return_flag \in [Node -> BOOLEAN]
    /\ med \in [Node -> MedState]
    /\ launchFailed \in [Node -> BOOLEAN]

GateTypeOK ==
    /\ gateCount \in Nat /\ loadAgents \in Nat /\ extAgents \in Nat
    /\ gateLimit \in 1..MaxLimit

AppTypeOK ==
    /\ ledger \in [Hash -> Node \cup {NoNode}]
    /\ disk \in [Hash -> {"absent", "partial", "complete"}]
    /\ agentError \in BOOLEAN
    /\ waiters \in [Try -> SUBSET Node]
    /\ tearingDown \subseteq Try
    /\ tryErrs \subseteq Try

\* The type invariant.
TypeOK == AgentTypeOK /\ FlagTypeOK /\ MedTypeOK /\ GateTypeOK /\ AppTypeOK

\* A planner starts on a cache directory whose corpses the startup sweep removed.
Init ==
    /\ pc = [n \in Node |-> "INI"]
    /\ front = [n \in Node |-> "none"]
    /\ begin = [n \in Node |-> "none"]
    /\ result = [n \in Node |-> "none"]
    /\ promiseResolved = [n \in Node |-> FALSE]
    /\ dupOf = [n \in Node |-> NoNode]
    /\ cachePath = [n \in Node |-> FALSE]
    /\ err = [n \in Node |-> FALSE]
    /\ inflightClaimed = [n \in Node |-> FALSE]
    /\ gateCredited = [n \in Node |-> FALSE]
    /\ extCounted = [n \in Node |-> FALSE]
    /\ destroyed = [n \in Node |-> FALSE]
    /\ inbox = [n \in Node |-> <<>>]
    /\ mediator_return_flag = [n \in Node |-> FALSE]
    /\ med = [n \in Node |-> "null"]
    /\ launchFailed = [n \in Node |-> FALSE]
    /\ gateCount = 0 /\ loadAgents = 0 /\ extAgents = 0
    /\ gateLimit \in 1..MaxLimit
    /\ ledger = [h \in Hash |-> NoNode]
    /\ disk \in [Hash -> {"absent", "complete"}]
    /\ agentError = FALSE
    /\ waiters = [t \in Try |-> {}]
    /\ tearingDown = {}
    /\ tryErrs = {}

-----------------------------------------------------------------------------
(* What a reader of a node sees through aliases.                           *)

\* The node whose _front, and whose begin level, stand behind those of n.
FrontNode(n) == IF front[n] = "alias" THEN dupOf[n] ELSE n
BeginNode(n) ==
    LET m == FrontNode(n) IN IF begin[m] = "alias" THEN dupOf[m] ELSE m

FrontOf(n)  == front[FrontNode(n)]
Begun(n)    == begin[BeginNode(n)] = "begin"
ResultOf(n) == IF Begun(n) THEN result[BeginNode(n)] ELSE "none"

\* pig_is_delayed: the argument is a continuation, whether resolved or not.
Delayed(n) == FrontOf(n) = "cont"
Outcome(n) == IF Delayed(n) THEN ResultOf(n) ELSE FrontOf(n)
Settled(n) == Outcome(n) \in {"val", "err"}

ArgsKnown(n) == \A a \in Args[n] : FrontOf(a) # "none"
ArgError(n)  == \E a \in Args[n] : FrontOf(a) = "err"
HasDelay(n)  == \E a \in Args[n] : Delayed(a)

\* Mutant of Valid: a file that is still being written does not count.
ValidOnlyComplete(h) == disk[h] = "complete"

\* pigDataCache::is_valid of a fresh handle: the file exists.
Valid(h) == disk[h] # "absent"
\* A file without W_END that nobody is writing any more.
Corpse(h) ==
    /\ disk[h] = "partial"
    /\ \A m \in Node : HashOf[m] = h => med[m] # "saving"

ShouldAbort(n) == agentError \/ destroyed[n] \/ mediator_return_flag[n]

\* Leave state function `from` for `to`.
Goto(n, from, to) == pc[n] = from /\ pc' = [pc EXCEPT ![n] = to]

-----------------------------------------------------------------------------
(* INI and ACT_START.                                                      *)

Ini(n) ==
    /\ Goto(n, "INI", "START")
    /\ waiters' = [waiters EXCEPT ![TryOf[n]] = @ \cup {n}]
    /\ UNCHANGED <<frontVars, cachePath, err, flagVars, medVars, gateVars, appVars,
                   tearingDown, tryErrs>>

\* SHOULD_ABORT at the head of a state function that checks it.
Abortable == {"START", "GATE", "LAUNCH", "CACHEREAD", "SENDOP", "SENDEND", "RESULT"}
GoAbort(n) ==
    /\ pc[n] \in Abortable /\ ShouldAbort(n)
    /\ pc' = [pc EXCEPT ![n] = "ABORT"]
    /\ UNCHANGED <<frontVars, cachePath, err, otherVars>>

\* An argument is an error, or the node cannot be routed to a module.
StartError(n) ==
    /\ ~ShouldAbort(n)
    /\ ArgError(n) \/ (ArgsKnown(n) /\ n \in MayFail)
    /\ Goto(n, "START", "ERROR")
    /\ err' = [err EXCEPT ![n] = TRUE]
    /\ UNCHANGED <<frontVars, cachePath, otherVars>>

StartReady(n) == ~ShouldAbort(n) /\ ArgsKnown(n) /\ ~ArgError(n)
StartHashed(n) == StartReady(n) /\ ~HasDelay(n)
\* The continuation, which only an operation with a cache result returns early.
Continue(n) == front' = [front EXCEPT ![n] = IF n \in OutCache THEN "cont" ELSE @]

StartHit(n) ==
    /\ StartHashed(n) /\ Valid(HashOf[n])
    /\ Goto(n, "START", "CACHEREAD")
    /\ cachePath' = [cachePath EXCEPT ![n] = TRUE]
    /\ UNCHANGED <<frontVars, err, otherVars>>

StartDup(n) ==
    /\ StartHashed(n) /\ ~Valid(HashOf[n]) /\ ledger[HashOf[n]] # NoNode
    /\ Goto(n, "START", "FIN")
    /\ cachePath' = [cachePath EXCEPT ![n] = TRUE]
    /\ front' = [front EXCEPT ![n] = "alias"]
    /\ dupOf' = [dupOf EXCEPT ![n] = ledger[HashOf[n]]]
    /\ UNCHANGED <<begin, result, promiseResolved, err, otherVars>>

\* Mutant of Claim: the claim is not entered in the ledger.
ClaimUnrecorded(n) ==
    UNCHANGED ledger /\ inflightClaimed' = [inflightClaimed EXCEPT ![n] = TRUE]

\* inflight_claim of a hash nobody computes.
Claim(n) ==
    /\ ledger' = [ledger EXCEPT ![HashOf[n]] = n]
    /\ inflightClaimed' = [inflightClaimed EXCEPT ![n] = TRUE]

StartFirst(n) ==
    /\ StartHashed(n) /\ ~Valid(HashOf[n]) /\ ledger[HashOf[n]] = NoNode
    /\ Goto(n, "START", "GATE")
    /\ cachePath' = [cachePath EXCEPT ![n] = TRUE]
    /\ Claim(n)
    /\ Continue(n)
    /\ UNCHANGED <<begin, result, promiseResolved, dupOf, err, gateCredited,
                   extCounted, destroyed, medVars, gateVars, disk, agentError, tryVars>>

StartDelayed(n) ==
    /\ StartReady(n) /\ HasDelay(n)
    /\ Goto(n, "START", "FIRSTWAIT")
    /\ Continue(n)
    /\ UNCHANGED <<begin, result, promiseResolved, dupOf, cachePath, err, otherVars>>

-----------------------------------------------------------------------------
(* FIRSTWAIT and the worker gate.                                          *)

\* The parallel wait ends with the first settled argument that is a cache value,
\* or, for a module that runs in the planner, when all of them are settled.
FirstArgDone(n) ==
    \/ \A a \in Args[n] : Settled(a)
    \/ n \notin InProc /\ \E a \in Args[n] : Settled(a) /\ (Delayed(a) \/ a \in OutCache)

FirstWait(n) ==
    /\ FirstArgDone(n)
    /\ Goto(n, "FIRSTWAIT", "GATE")
    /\ UNCHANGED <<frontVars, cachePath, err, otherVars>>

\* Mutant of ArgsBegun: the gate does not wait for the arguments to begin.
ArgsBegunSkipped(n) == TRUE

ArgsBegun(n) == \A a \in Args[n] : Delayed(a) => Begun(a)

\* Mutant of GateEnter: one agent more than the limit.
GateEnterOneMore(n) ==
    /\ ~ShouldAbort(n)
    /\ ArgsBegun(n)
    /\ gateCount <= gateLimit
    /\ Goto(n, "GATE", "LAUNCH")
    /\ gateCount' = gateCount + 1
    /\ loadAgents' = loadAgents + 1
    /\ gateCredited' = [gateCredited EXCEPT ![n] = TRUE]
    /\ UNCHANGED <<frontVars, cachePath, err, inflightClaimed, extCounted, destroyed,
                   medVars, gateLimit, extAgents, appVars, tryVars>>

GateEnter(n) ==
    /\ ~ShouldAbort(n)
    /\ ArgsBegun(n)
    /\ gateCount < gateLimit
    /\ Goto(n, "GATE", "LAUNCH")
    /\ gateCount' = gateCount + 1
    /\ loadAgents' = loadAgents + 1
    /\ gateCredited' = [gateCredited EXCEPT ![n] = TRUE]
    /\ UNCHANGED <<frontVars, cachePath, err, inflightClaimed, extCounted, destroyed,
                   medVars, gateLimit, extAgents, appVars, tryVars>>

\* Give the place in the gate back, if the agent holds one.
LeaveGate(n) ==
    /\ gateCredited' = [gateCredited EXCEPT ![n] = FALSE]
    /\ gateCount' = IF gateCredited[n] THEN gateCount - 1 ELSE gateCount
    /\ loadAgents' = IF gateCredited[n] THEN loadAgents - 1 ELSE loadAgents

-----------------------------------------------------------------------------
(* LAUNCH and the handshake.                                               *)

LaunchOk(n) ==
    /\ ~ShouldAbort(n)
    /\ Goto(n, "LAUNCH", "HELLO")
    /\ med' = [med EXCEPT ![n] = "starting"]
    /\ \/ /\ n \in InProc          \* a thread of the planner
          /\ UNCHANGED <<extCounted, extAgents>>
       \/ \* a child process, also when the module is not linked in
          /\ extCounted' = [extCounted EXCEPT ![n] = TRUE]
          /\ extAgents' = extAgents + 1
    /\ UNCHANGED <<frontVars, cachePath, err, inflightClaimed, gateCredited, destroyed,
                   inbox, mediator_return_flag, launchFailed, gateCount, gateLimit,
                   loadAgents, appVars, tryVars>>

\* No command for the module: the place in the gate is kept until MEDWAIT.
LaunchNoCommand(n) ==
    /\ ~ShouldAbort(n) /\ n \in MayFail
    /\ Goto(n, "LAUNCH", "ERROR")
    /\ err' = [err EXCEPT ![n] = TRUE]
    /\ UNCHANGED <<frontVars, cachePath, otherVars>>

\* The launch fails at once: the place in the gate is given back here.
LaunchFail(n) ==
    /\ ~ShouldAbort(n) /\ n \in MayFail
    /\ Goto(n, "LAUNCH", "ERROR")
    /\ err' = [err EXCEPT ![n] = TRUE]
    /\ LeaveGate(n)
    /\ UNCHANGED <<frontVars, cachePath, inflightClaimed, extCounted, destroyed,
                   medVars, gateLimit, extAgents, appVars, tryVars>>

\* Mutant of HelloReturned: the place is given back, but the flag is kept.
HelloReturnedCredited(n) ==
    /\ mediator_return_flag[n]
    /\ Goto(n, "HELLO", "ERROR")
    /\ err' = [err EXCEPT ![n] = TRUE]
    /\ gateCount' = gateCount - 1 /\ loadAgents' = loadAgents - 1
    /\ UNCHANGED <<frontVars, cachePath, flagVars, medVars, gateLimit, extAgents,
                   appVars, tryVars>>

\* The mediator ended before the handshake.
HelloReturned(n) ==
    /\ mediator_return_flag[n]
    /\ Goto(n, "HELLO", "ERROR")
    /\ err' = [err EXCEPT ![n] = TRUE]
    /\ IF launchFailed[n]
       THEN LeaveGate(n)
       ELSE UNCHANGED <<gateCredited, gateCount, loadAgents>>
    /\ UNCHANGED <<frontVars, cachePath, inflightClaimed, extCounted, destroyed,
                   medVars, gateLimit, extAgents, appVars, tryVars>>

HelloAbort(n) ==
    /\ ~mediator_return_flag[n] /\ ShouldAbort(n)
    /\ Goto(n, "HELLO", "ABORT")
    /\ UNCHANGED <<frontVars, cachePath, err, otherVars>>

\* Take the next event of the mediator.
Receive(n, ev) ==
    /\ inbox[n] # <<>> /\ Head(inbox[n]) = ev
    /\ inbox' = [inbox EXCEPT ![n] = Tail(@)]

HelloAssert(n) ==
    /\ ~ShouldAbort(n)
    /\ Receive(n, "ASSERT")
    /\ Goto(n, "HELLO", "SENDOP")
    /\ UNCHANGED <<frontVars, cachePath, err, flagVars, mediator_return_flag, med,
                   launchFailed, sharedVars>>

-----------------------------------------------------------------------------
(* SENDOP, SEND and SENDEND.                                               *)

SendOp(n) ==
    /\ ~ShouldAbort(n)
    /\ Goto(n, "SENDOP", "SEND")
    /\ UNCHANGED <<frontVars, cachePath, err, otherVars>>

\* The parallel send returned: every argument is settled.  SEND looks at nothing
\* before that, a teardown included.
Sent(n) == pc[n] = "SEND" /\ \A a \in Args[n] : Settled(a)
UpstreamError(n) == \E a \in Args[n] : Outcome(a) = "err"
SendGoesOn(n) == Sent(n) /\ ~ShouldAbort(n) /\ ~UpstreamError(n)
SendHashes(n) == SendGoesOn(n) /\ ~cachePath[n]

SendAbort(n) ==
    /\ Sent(n) /\ ShouldAbort(n)
    /\ pc' = [pc EXCEPT ![n] = "ABORT"]
    /\ err' = [err EXCEPT ![n] = @ \/ UpstreamError(n)]
    /\ UNCHANGED <<frontVars, cachePath, otherVars>>

SendError(n) ==
    /\ Sent(n) /\ ~ShouldAbort(n) /\ UpstreamError(n)
    /\ pc' = [pc EXCEPT ![n] = "ERROR"]
    /\ err' = [err EXCEPT ![n] = TRUE]
    /\ UNCHANGED <<frontVars, cachePath, otherVars>>

\* The hash was settled, and claimed, in ACT_START.
SendReady(n) ==
    /\ SendGoesOn(n) /\ cachePath[n]
    /\ pc' = [pc EXCEPT ![n] = "SENDEND"]
    /\ UNCHANGED <<frontVars, cachePath, err, otherVars>>

\* The file exists by now.  A cache result resolves the continuation as SENDEND and
\* A_SAVE_BEGIN would; a value is read in CACHEREAD.
SendHit(n) ==
    /\ SendHashes(n) /\ Valid(HashOf[n])
    /\ cachePath' = [cachePath EXCEPT ![n] = TRUE]
    /\ IF n \in OutCache
       THEN /\ pc' = [pc EXCEPT ![n] = "FIN"]
            /\ begin' = [begin EXCEPT ![n] = "begin"]
            /\ result' = [result EXCEPT ![n] = "val"]
            /\ promiseResolved' = [promiseResolved EXCEPT ![n] = TRUE]
       ELSE /\ pc' = [pc EXCEPT ![n] = "CACHEREAD"]
            /\ UNCHANGED <<begin, result, promiseResolved>>
    /\ UNCHANGED <<front, dupOf, err, otherVars>>

\* Another agent computes the hash: its begin level, or its _front, becomes ours.
SendDup(n) ==
    /\ SendHashes(n) /\ ~Valid(HashOf[n]) /\ ledger[HashOf[n]] # NoNode
    /\ cachePath' = [cachePath EXCEPT ![n] = TRUE]
    /\ pc' = [pc EXCEPT ![n] = "FIN"]
    /\ dupOf' = [dupOf EXCEPT ![n] = ledger[HashOf[n]]]
    /\ IF n \in OutCache
       THEN /\ begin' = [begin EXCEPT ![n] = "alias"]
            /\ promiseResolved' = [promiseResolved EXCEPT ![n] = TRUE]
            /\ UNCHANGED front
       ELSE /\ front' = [front EXCEPT ![n] = "alias"]
            /\ UNCHANGED <<begin, promiseResolved>>
    /\ UNCHANGED <<result, err, otherVars>>

SendFirst(n) ==
    /\ SendHashes(n) /\ ~Valid(HashOf[n]) /\ ledger[HashOf[n]] = NoNode
    /\ cachePath' = [cachePath EXCEPT ![n] = TRUE]
    /\ pc' = [pc EXCEPT ![n] = "SENDEND"]
    /\ Claim(n)
    /\ UNCHANGED <<frontVars, err, gateCredited, extCounted, destroyed, medVars,
                   gateVars, disk, agentError, tryVars>>

\* Resolve beginPromise, once, if there is a continuation.
ResolveBegin(n) ==
    begin' = [begin EXCEPT ![n] = IF front[n] = "cont" /\ @ = "none" THEN "begin" ELSE @]

\* C_ARG_END: the process starts to compute, and the parents may ask for a place.
SendEnd(n) ==
    /\ ~ShouldAbort(n)
    /\ Goto(n, "SENDEND", "RESULT")
    /\ med' = [med EXCEPT ![n] = IF @ = "ready" THEN "computing" ELSE @]
    /\ ResolveBegin(n)
    /\ UNCHANGED <<front, result, promiseResolved, dupOf, cachePath, err, flagVars,
                   inbox, mediator_return_flag, launchFailed, sharedVars>>

-----------------------------------------------------------------------------
(* RESULT, BYE and CACHEREAD.                                              *)

\* inflight_release by the agent that made the entry.
Release(n) ==
    /\ ledger' = [ledger EXCEPT ![HashOf[n]] = IF inflightClaimed[n] THEN NoNode ELSE @]
    /\ inflightClaimed' = [inflightClaimed EXCEPT ![n] = FALSE]

\* A_SAVE_BEGIN: the file can be attached to, so the result is handed over and the
\* ledger hands its watch over to the existence of the file.
ResultSaveBegin(n) ==
    /\ pc[n] = "RESULT" /\ ~ShouldAbort(n)
    /\ Receive(n, "SAVE_BEGIN")
    /\ IF n \in OutCache
       THEN result' = [result EXCEPT ![n] = "val"] /\ UNCHANGED front
       ELSE front' = [front EXCEPT ![n] = "val"] /\ UNCHANGED result
    /\ promiseResolved' = [promiseResolved EXCEPT ![n] = TRUE]
    /\ Release(n)
    /\ UNCHANGED <<pc, begin, dupOf, cachePath, err, gateCredited, extCounted,
                   destroyed, mediator_return_flag, med, launchFailed, gateVars, disk,
                   agentError, tryVars>>

ResultSaveDone(n) ==
    /\ ~ShouldAbort(n)
    /\ Receive(n, "SAVE_DONE")
    /\ Goto(n, "RESULT", "BYE")
    /\ UNCHANGED <<frontVars, cachePath, err, flagVars, mediator_return_flag, med,
                   launchFailed, sharedVars>>

ResultError(n) ==
    /\ ~ShouldAbort(n)
    /\ Receive(n, "ERROR")
    /\ Goto(n, "RESULT", "ERROR")
    /\ err' = [err EXCEPT ![n] = TRUE]
    /\ UNCHANGED <<frontVars, cachePath, flagVars, mediator_return_flag, med,
                   launchFailed, sharedVars>>

\* BYE looks at the mediator first: its end is the normal one here.  FINISH follows
\* at once and does nothing else.
Bye(n) ==
    /\ mediator_return_flag[n]
    /\ Goto(n, "BYE", "FIN")
    /\ UNCHANGED <<frontVars, cachePath, err, otherVars>>

ByeAbort(n) ==
    /\ ~mediator_return_flag[n] /\ ShouldAbort(n)
    /\ Goto(n, "BYE", "ABORT")
    /\ UNCHANGED <<frontVars, cachePath, err, otherVars>>

\* A cache hit.  A value is read whole, which fails on a corpse.
CacheRead(n) ==
    /\ ~ShouldAbort(n)
    /\ Goto(n, "CACHEREAD", "FIN")
    /\ \/ /\ n \in OutCache \/ disk[HashOf[n]] = "complete"
          /\ front' = [front EXCEPT ![n] = "val"]
       \/ /\ n \notin OutCache /\ Corpse(HashOf[n])
          /\ front' = [front EXCEPT ![n] = "err"]
    /\ UNCHANGED <<begin, result, promiseResolved, dupOf, cachePath, err, otherVars>>

-----------------------------------------------------------------------------
(* ERROR, ABORT, FIN and MEDWAIT.                                          *)

\* Mutant of AnswerError: _front is forgotten.
AnswerErrorPromiseOnly(n) ==
    /\ ResolveBegin(n)
    /\ result' = [result EXCEPT ![n] =
                    IF front[n] = "cont" /\ @ = "none" THEN "err" ELSE @]
    /\ UNCHANGED front

\* Answer whoever waits for n with an error: the continuation if it was returned
\* (a begun promise first, for the parents in GATE), else _front itself.
AnswerError(n) ==
    IF front[n] = "cont"
    THEN /\ ResolveBegin(n)
         /\ result' = [result EXCEPT ![n] = IF @ = "none" THEN "err" ELSE @]
         /\ UNCHANGED front
    ELSE /\ front' = [front EXCEPT ![n] = IF @ = "none" THEN "err" ELSE @]
         /\ UNCHANGED <<begin, result>>

\* Mutant of Error: a late error goes only to the try.
ErrorOnlyToTry(n) ==
    /\ Goto(n, "ERROR", "FIN")
    /\ IF promiseResolved[n]
       THEN tryErrs' = tryErrs \cup {TryOf[n]} /\ UNCHANGED <<front, begin, result>>
       ELSE AnswerError(n) /\ UNCHANGED tryErrs
    /\ UNCHANGED <<promiseResolved, dupOf, cachePath, err, flagVars, medVars, gateVars,
                   appVars, waiters, tearingDown>>

\* After the result was handed over an error can only go to the application, which
\* keeps the first one, and to the try.
Error(n) ==
    /\ Goto(n, "ERROR", "FIN")
    /\ IF promiseResolved[n]
       THEN /\ agentError' = TRUE
            /\ tryErrs' = tryErrs \cup {TryOf[n]}
            /\ UNCHANGED <<front, begin, result>>
       ELSE AnswerError(n) /\ UNCHANGED <<agentError, tryErrs>>
    /\ UNCHANGED <<promiseResolved, dupOf, cachePath, err, flagVars, medVars, gateVars,
                   ledger, disk, waiters, tearingDown>>

\* Only the end of the mediator brought the agent here: that is an error of its own.
OnlyMediator(n) ==
    mediator_return_flag[n] /\ ~err[n] /\ ~destroyed[n] /\ ~agentError

AbortToError(n) ==
    /\ OnlyMediator(n)
    /\ Goto(n, "ABORT", "ERROR")
    /\ err' = [err EXCEPT ![n] = TRUE]
    /\ UNCHANGED <<frontVars, cachePath, otherVars>>

\* Mutant of Abort: a result that was handed over is replaced by the teardown.
AbortReplaces(n) ==
    /\ ~OnlyMediator(n)
    /\ Goto(n, "ABORT", "FIN")
    /\ front' = [front EXCEPT ![n] = IF @ = "none" THEN "err" ELSE @]
    /\ result' = [result EXCEPT ![n] = IF front[n] = "cont" THEN "err" ELSE @]
    /\ ResolveBegin(n)
    /\ promiseResolved' = [promiseResolved EXCEPT ![n] = (front[n] = "cont")]
    /\ UNCHANGED <<dupOf, cachePath, err, otherVars>>

Abort(n) ==
    /\ ~OnlyMediator(n)
    /\ Goto(n, "ABORT", "FIN")
    /\ IF promiseResolved[n]
       THEN UNCHANGED <<front, begin, result, promiseResolved>>
       ELSE /\ AnswerError(n)
            /\ promiseResolved' = [promiseResolved EXCEPT ![n] = (front[n] = "cont")]
    /\ UNCHANGED <<dupOf, cachePath, err, otherVars>>

\* Mutant of Fin: the agent leaves its try and the count of processes right away.
FinLeaves(n) ==
    /\ Goto(n, "FIN", "MEDWAIT")
    /\ extCounted' = [extCounted EXCEPT ![n] = FALSE]
    /\ extAgents' = IF extCounted[n] THEN extAgents - 1 ELSE extAgents
    /\ waiters' = [waiters EXCEPT ![TryOf[n]] = @ \ {n}]
    /\ UNCHANGED <<frontVars, cachePath, err, inflightClaimed, gateCredited, destroyed,
                   medVars, gateCount, gateLimit, loadAgents, appVars, tearingDown,
                   tryErrs>>

\* med->destroy(); the mediator is let go only in MEDWAIT.
Fin(n) ==
    /\ Goto(n, "FIN", "MEDWAIT")
    /\ UNCHANGED <<frontVars, cachePath, err, otherVars>>

\* Mutant of MedWait: the place in the gate is not given back.
MedWaitKeepsPlace(n) ==
    /\ med[n] = "null" \/ mediator_return_flag[n]
    /\ Goto(n, "MEDWAIT", "DONE")
    /\ med' = [med EXCEPT ![n] = "null"]
    /\ extCounted' = [extCounted EXCEPT ![n] = FALSE]
    /\ extAgents' = IF extCounted[n] THEN extAgents - 1 ELSE extAgents
    /\ waiters' = [waiters EXCEPT ![TryOf[n]] = @ \ {n}]
    /\ err' = [err EXCEPT ![n] = FALSE]
    /\ Release(n)
    /\ UNCHANGED <<frontVars, cachePath, gateCredited, gateCount, loadAgents, destroyed,
                   inbox, mediator_return_flag, launchFailed, gateLimit, disk,
                   agentError, tearingDown, tryErrs>>

MedWait(n) ==
    /\ med[n] = "null" \/ mediator_return_flag[n]
    /\ Goto(n, "MEDWAIT", "DONE")
    /\ med' = [med EXCEPT ![n] = "null"]
    /\ LeaveGate(n)
    /\ extCounted' = [extCounted EXCEPT ![n] = FALSE]
    /\ extAgents' = IF extCounted[n] THEN extAgents - 1 ELSE extAgents
    /\ waiters' = [waiters EXCEPT ![TryOf[n]] = @ \ {n}]
    /\ err' = [err EXCEPT ![n] = FALSE]
    /\ Release(n)
    /\ UNCHANGED <<frontVars, cachePath, destroyed, inbox, mediator_return_flag,
                   launchFailed, gateLimit, disk, agentError, tearingDown, tryErrs>>

\* filter: the end of the mediator becomes a flag in whatever state the agent is.
Filter(n) ==
    /\ Receive(n, "RETURN")
    /\ mediator_return_flag' = [mediator_return_flag EXCEPT ![n] = TRUE]
    /\ UNCHANGED <<agentVars, flagVars, med, launchFailed, sharedVars>>

\* A state function that waits for something else ignores an event.
Ignore(n) ==
    /\ pc[n] \in {"CACHEREAD", "BYE", "MEDWAIT"}
    /\ \E ev \in MedEvent \ {"RETURN"} : Receive(n, ev)
    /\ UNCHANGED <<agentVars, flagVars, mediator_return_flag, med, launchFailed,
                   sharedVars>>

-----------------------------------------------------------------------------
(* The mediator and its process.                                           *)

MedStep(n, from, to, evs) ==
    /\ med[n] \in from
    /\ med' = [med EXCEPT ![n] = to]
    /\ inbox' = [inbox EXCEPT ![n] = @ \o evs]
    /\ UNCHANGED <<agentVars, flagVars, mediator_return_flag, gateVars, ledger,
                   agentError, tryVars>>

MedHandshake(n) ==
    MedStep(n, {"starting"}, "ready", <<"ASSERT">>) /\ UNCHANGED <<launchFailed, disk>>

MedLaunchFailed(n) ==
    /\ n \in MayFail
    /\ MedStep(n, {"starting"}, "gone", <<"RETURN">>)
    /\ launchFailed' = [launchFailed EXCEPT ![n] = TRUE]
    /\ UNCHANGED disk

InputHashes(n) == {HashOf[a] : a \in Args[n] \cap OutCache}
InputsRead(n)  == \A h \in InputHashes(n) : disk[h] = "complete"
InputLost(n)   == \E h \in InputHashes(n) : Corpse(h)

\* The file is opened with O_TRUNC and its meta data written, then A_SAVE_BEGIN sent.
MedSaveBegin(n) ==
    /\ InputsRead(n)
    /\ MedStep(n, {"computing"}, "saving", <<"SAVE_BEGIN">>)
    /\ disk' = [disk EXCEPT ![HashOf[n]] = "partial"]
    /\ UNCHANGED launchFailed

MedSaveDone(n) ==
    /\ MedStep(n, {"saving"}, "done", <<"SAVE_DONE">>)
    /\ disk' = [disk EXCEPT ![HashOf[n]] = "complete"]
    /\ UNCHANGED launchFailed

MedError(n) ==
    /\ n \in MayFail \/ (med[n] = "computing" /\ InputLost(n))
    /\ MedStep(n, {"computing", "saving"}, "done", <<"ERROR">>)
    /\ UNCHANGED <<launchFailed, disk>>

MedExit(n) ==
    MedStep(n, {"done"}, "gone", <<"RETURN">>) /\ UNCHANGED <<launchFailed, disk>>

\* The process dies, or is ended because the agent destroyed its mediator.
MedDie(n) ==
    /\ n \in MayFail \/ pc[n] = "MEDWAIT"
    /\ MedStep(n, {"starting", "ready", "computing", "saving"}, "gone", <<"RETURN">>)
    /\ UNCHANGED <<launchFailed, disk>>

-----------------------------------------------------------------------------
(* What the rest of the program does to the agents.                        *)

\* The load control moves the limit of the gate.
SetLimit ==
    /\ gateLimit' \in 1..MaxLimit
    /\ UNCHANGED <<agentVars, flagVars, medVars, gateCount, loadAgents, extAgents,
                   appVars, tryVars>>

\* set_agentError from outside the agents: SIGINT, or a fatal error the planner meets.
Interrupt ==
    /\ Signals /\ ~agentError
    /\ agentError' = TRUE
    /\ UNCHANGED <<agentVars, flagVars, medVars, gateVars, ledger, disk, tryVars>>

\* pigDataTryCatch::destroy_agents.  The planner does it to the root try after an
\* error; a user try does it when its catch asks for it or gives up.
DestroyAgents(t) ==
    /\ t = Root => agentError
    /\ t \notin tearingDown
    /\ tearingDown' = tearingDown \cup {t}
    /\ destroyed' = [n \in Node |-> destroyed[n] \/ n \in waiters[t]]
    /\ UNCHANGED <<agentVars, inflightClaimed, gateCredited, extCounted, medVars,
                   gateVars, appVars, waiters, tryErrs>>

-----------------------------------------------------------------------------

Start(n) == StartError(n) \/ StartHit(n) \/ StartDup(n) \/ StartFirst(n) \/ StartDelayed(n)
Launch(n) == LaunchOk(n) \/ LaunchNoCommand(n) \/ LaunchFail(n)
Hello(n) == HelloReturned(n) \/ HelloAssert(n)
Send(n) == SendAbort(n) \/ SendError(n) \/ SendReady(n) \/ SendHit(n)
           \/ SendDup(n) \/ SendFirst(n)
Result(n) == ResultSaveBegin(n) \/ ResultSaveDone(n) \/ ResultError(n)
Finish(n) == Error(n) \/ AbortToError(n) \/ Abort(n) \/ Fin(n) \/ MedWait(n)
Event(n) == Filter(n) \/ Ignore(n)
\* The state functions that go on in one way only.
Advance(n) == Ini(n) \/ FirstWait(n) \/ GateEnter(n) \/ SendOp(n) \/ SendEnd(n)
              \/ Bye(n) \/ CacheRead(n)

\* The planner dispatches one event at a time, and a chain of state functions whole.
Running == {n \in Node : pc[n] \in Chained}

\* A run of the state function that something the agent waits for brings about.
AgentStep(n) ==
  /\ Running \subseteq {n}
  /\ \/ Advance(n) \/ Start(n) \/ Launch(n) \/ Hello(n) \/ Send(n) \/ Result(n)
     \/ Finish(n) \/ Event(n)

\* A teardown is seen by a state function when an event runs it: one the agent waits
\* for, or the wakeup of wake_agents and destroy.
TeardownSeen(n) ==
    Running \subseteq {n} /\ (GoAbort(n) \/ HelloAbort(n) \/ ByeAbort(n))

\* A chain touches neither the mediator nor the disk, so they may wait for its end.
Mediator(n) ==
  /\ Running = {}
  /\ \/ MedHandshake(n) \/ MedLaunchFailed(n) \/ MedSaveBegin(n) \/ MedSaveDone(n)
     \/ MedError(n) \/ MedExit(n) \/ MedDie(n)

\* The program is over once every agent is; a last state may repeat.
Terminated == (\A n \in Node : pc[n] = "DONE") /\ UNCHANGED vars

Next ==
    \/ \E n \in Node : AgentStep(n) \/ TeardownSeen(n) \/ Mediator(n)
    \/ Running = {} /\ (SetLimit \/ Interrupt \/ \E t \in Try : DestroyAgents(t))
    \/ Terminated

Spec == Init /\ [][Next]_vars

\* Something the agent waits for arrived, so its state function runs and would see a
\* teardown even if nobody woke it up for that.
Triggered(n) ==
    \/ pc[n] = "START" /\ (ArgsKnown(n) \/ ArgError(n))
    \/ pc[n] = "GATE" /\ ArgsBegun(n) /\ gateCount < gateLimit
    \/ pc[n] \in {"LAUNCH", "SENDOP", "SENDEND"}
    \/ pc[n] = "CACHEREAD" /\ (n \in OutCache \/ disk[HashOf[n]] = "complete"
                                \/ Corpse(HashOf[n]))
    \/ pc[n] \in {"HELLO", "RESULT", "BYE"}
           /\ (inbox[n] # <<>> \/ mediator_return_flag[n])

\* tinyState runs the state function of every object that has an event, and every
\* operation of a module is assumed to end.  Nothing is assumed of wake_agents, of a
\* destroy, of an interrupt or of the load control.
Fairness ==
    \A n \in Node :
        /\ WF_vars(AgentStep(n))
        /\ WF_vars(TeardownSeen(n) /\ Triggered(n))
        /\ WF_vars(Mediator(n))

FairSpec == Spec /\ Fairness

-----------------------------------------------------------------------------
(* Safety.                                                                 *)

\* The semaphore of the worker gate and the load control count exactly the agents that
\* hold a place: a place is given back once on each of the paths LAUNCH, HELLO, MEDWAIT.
Holders == {n \in Node : gateCredited[n]}
GateExact == gateCount = Cardinality(Holders) /\ loadAgents = Cardinality(Holders)

\* Over all these paths, and whoever moves the limit, the gate of the agents is the gate
\* WorkerGate describes: nobody enters a full one.
Gate == INSTANCE WorkerGate
        WITH Worker <- Node, holders <- Holders, limit <- gateLimit
GateSpec == Gate!Spec

\* The reason the gate cannot deadlock at any limit (pigfAgent.cpp:772-780): an agent
\* that holds a place waits only for results of agents that hold a place themselves,
\* also through the aliases of the in-flight ledger.
HoldersWaitOnHolders ==
    \A n \in Node : gateCredited[n] =>
        \A a \in Args[n] : Delayed(a) /\ ResultOf(a) = "none" =>
            gateCredited[BeginNode(a)]

\* The planner may end, and may abort itself after a panic, by looking at the wait lists
\* and at the count of child processes: no process outlives its entry in either.
ChildrenWatched ==
    /\ extAgents = Cardinality({n \in Node : extCounted[n]})
    /\ \A n \in Node : Alive(n) =>
          n \in waiters[TryOf[n]] /\ (n \notin InProc => extCounted[n])

\* One writer per cache file, the many readers of a stream depend on it.
OneWriter ==
    \A m, n \in Node :
        m # n /\ HashOf[m] = HashOf[n] => ~(med[m] = "saving" /\ med[n] = "saving")

\* No process opens (with O_TRUNC) a cache file that exists already: the ledger and the
\* existence test leave no gap between them at A_SAVE_BEGIN.
NeverTruncates ==
    [][\A n \in Node : med[n] = "computing" /\ med'[n] = "saving"
                          => disk[HashOf[n]] = "absent"]_vars

\* Nobody is left waiting on an agent that is gone: its consumers find a value or an
\* error, through the alias when it left as the duplicate of an agent that is gone too.
FinishedSettled ==
    \A n \in Node :
        /\ pc[n] = "DONE"
        /\ dupOf[n] # NoNode => pc[dupOf[n]] = "DONE"
        => Settled(n)

\* What a consumer has read stays what it was: no teardown replaces a result.
OutcomeStable ==
    [][\A n \in Node : Settled(n) => Outcome(n)' = Outcome(n)]_vars

\* A file cut short is noticed: a teardown, or an error that reached a consumer, accounts
\* for every corpse whose agents are gone.
CorpseReported ==
    \A h \in Hash :
        LET makers == {n \in Node : HashOf[n] = h} IN
        Corpse(h) /\ (\A n \in makers : pc[n] = "DONE") =>
            agentError \/ \E n \in makers : destroyed[n] \/ Outcome(n) = "err"

(* Liveness.                                                               *)

\* Every agent ends, whatever the limit of the gate and whatever fails or is torn down.
AllFinish == <>(\A n \in Node : pc[n] = "DONE")

-----------------------------------------------------------------------------
(* What comments and the manual say, and the code does not do.             *)

\* srava_language_reference.md:155: whether to tear down is for the catch to decide.  An
\* error of an agent in a user try does not become the teardown of the program.
CatchDecides ==
    [][\A n \in Node : Goto(n, "ERROR", "FIN") /\ TryOf[n] # Root
                          => agentError' = agentError]_vars

=============================================================================
