----------------------------- MODULE CallRouting -----------------------------
(***************************************************************************)
(* What becomes of a call of the language before it is an operation agent: *)
(* the part of ACT_START (pigfAgent.cpp) that expands it and chooses who   *)
(* runs it (pigfModuleAgent.cpp, pigModuleRegistry.cpp, pigSigGrammar.h).  *)
(*                                                                         *)
(* A program is a term, the set of its nodes, each with the place where it *)
(* is: the path of argument numbers that leads to it.  A call whose        *)
(* arguments are known may, in this order, be folded away or rewritten     *)
(* because of an empty operand {}, be split into a tree of calls with      *)
(* fewer operands, be replaced by the body of a pseudo module, be routed   *)
(* to a module, or be refused.  The calls of a program are agents: those   *)
(* that are ready start in any order, and a module("..", {arity: k}) may   *)
(* be evaluated in between.                                                *)
(*                                                                         *)
(* A type is the stamp an operand carries, a signature is what its text    *)
(* says.  Out of the model: the match functions of cast, import and export *)
(* (values, not types), rows that declare nothing, and the wording of the  *)
(* refusals.  ACT_START runs from its head again when something it asks    *)
(* has to be waited for; a step of the model is its last run.              *)
(***************************************************************************)
EXTENDS Integers, Sequences, FiniteSets, SequencesExt, FiniteSetsExt

CONSTANTS
    Descriptor, \* the modules in the order they were loaded: [priority, rows]
    Pseudo,     \* the pseudo modules programs name: sequences of rows
    Programs,   \* the calls a program may consist of
    UseLists,   \* what USE_MODULES may be bound to
    MaxArity,   \* bound of the group size a program may ask for
    MaxConfig   \* bound of the module() calls while the program runs

VARIABLES
    written,   \* the program as it was written
    use,       \* the candidate list in USE_MODULES
    program,   \* what it has become
    arity,     \* the group size of each module (N')
    configured \* how often it was changed

vars == <<written, use, program, arity, configured>>

Module == 1..Len(Descriptor)

-----------------------------------------------------------------------------
(* Terms.  A candidate list has a module by its number, a pseudo module by *)
(* its negated number, 0 for a hole, and numbers above the modules for     *)
(* names that are not loaded; the last two are passed over.  site is the   *)
(* place of the call in the source, at most 0 in the body of a pseudo.     *)

Node(at, is) == [at |-> at, is |-> is]
Term(is, args) ==
    {Node(<<>>, is)}
        \cup UNION {{Node(<<i>> \o n.at, n.is) : n \in args[i]} : i \in DOMAIN args}
Leaf(is) == {Node(<<>>, is)}
Top(t) == (CHOOSE n \in t : n.at = <<>>).is

NotGiven == [given |-> FALSE, elems |-> <<>>]
Empty  == Leaf([kind |-> "empty"])
Value  == Leaf([kind |-> "value"])
Failed == Leaf([kind |-> "error"])
Call(op, args, named, site) ==
    Term([kind |-> "call", op |-> op, named |-> named, site |-> site], args)
Array(args) == Term([kind |-> "array"], args)

Kind(t) == Top(t).kind
TypeOf(t) == IF Kind(t) \in {"mesh", "run"} THEN Top(t).type ELSE "value"
IsMesh(t) == TypeOf(t) # "value"

\* The term at a place, its arguments, and the term in which another one takes its place.
Below(t, p) == {n \in t : IsPrefix(p, n.at)}
Sub(t, p) == {Node(SubSeq(n.at, Len(p) + 1, Len(n.at)), n.is) : n \in Below(t, p)}
Width(t) == Max({0} \cup {n.at[1] : n \in {o \in t : o.at # <<>>}})
ArgsOf(t) == [i \in 1..Width(t) |-> Sub(t, <<i>>)]
Put(t, p, new) == (t \ Below(t, p)) \cup {Node(p \o n.at, n.is) : n \in new}

Has(t, kind) == \E n \in t : n.is.kind = kind

\* The nodes of a term have places of their own, and a node that is the k-th argument has the
\* node above it and k - 1 before it.
Places(t) == {n.at : n \in t}
IsTree(t) ==
    /\ IsFiniteSet(t)
    /\ \A n \in t : n = Node(n.at, n.is) /\ n.at \in Seq(Nat \ {0})
    /\ \A n, o \in t : n.at = o.at => n = o
    /\ <<>> \in Places(t)
    /\ \A p \in Places(t) : \A k \in 1..Len(p) :
          /\ SubSeq(p, 1, k - 1) \in Places(t)
          /\ \A j \in 1..p[k] : SubSeq(p, 1, k - 1) \o <<j>> \in Places(t)

\* A program is a term that nobody has routed anything of; its calls are at places of their
\* own in the source.
ASSUME ProgramsAssumption ==
    \A t \in Programs :
        /\ IsTree(t)
        /\ \A n \in t : n.is.kind # "run"
        /\ \A n, o \in t :
              n.is.kind = "call" /\ o.is.kind = "call" /\ n.is.site = o.is.site => n = o

\* The body of a pseudo module is not in the program.
ASSUME PseudoAssumption ==
    \A p \in DOMAIN Pseudo : \A i \in DOMAIN Pseudo[p] :
        Pseudo[p][i].body.site \in Int /\ Pseudo[p][i].body.site <= 0

-----------------------------------------------------------------------------
(* The registry and the signatures.                                        *)

RowsOf(m, op) == SelectSeq(Descriptor[m].rows, LAMBDA row : row.op = op)
AllRows(op) == {row \in UNION {ToSet(Descriptor[m].rows) : m \in Module} : row.op = op}

Matches(line, types) ==
    LET f == Len(line.fixed)
        n == Len(types)
        tail == {types[i] : i \in f + 1..n}
    IN  /\ \A i \in 1..Min({f, n}) : types[i] = line.fixed[i]
        /\ \/ line.kind = "fixed" /\ n = f
           \/ line.kind = "repeat" /\ n > f /\ tail \subseteq line.set
           \/ /\ line.kind = "fold" /\ n - f \in 2..line.most
              /\ tail \subseteq line.set /\ line.main \in tail

Anything == -1
ArityFits(row, n) ==
    \/ n = Anything
    \/ row.variadic /\ n >= Len(row.in)
    \/ ~row.variadic /\ n \in (IF row.nreq > 0 THEN row.nreq ELSE Len(row.in))..Len(row.in)

Takes(m, op, types, n) ==
    \E row \in ToSet(RowsOf(m, op)) :
        ArityFits(row, n) /\ \E l \in ToSet(row.sig) : Matches(l, types)

\* The first row, and its first signature, by which m takes the operands.
Hit(m, op, types, n) ==
    LET Fits(row) == ArityFits(row, n) /\ \E l \in ToSet(row.sig) : Matches(l, types)
        row == SelectSeq(RowsOf(m, op), Fits)[1]
    IN  [by |-> m, row |-> row, line |-> SelectSeq(row.sig, LAMBDA l : Matches(l, types))[1]]

\* sig_dispatch: with a list the first of it that takes the operands, without one the
\* module of the highest priority, the earlier loaded of equals.  The set of the hit, or {}.
Takers(op, types, list, n) ==
    {m \in Module : (list.given => m \in ToSet(list.elems)) /\ Takes(m, op, types, n)}
Before(list, m, o) ==
    IF list.given
    THEN SelectInSeq(list.elems, LAMBDA e : e = m) < SelectInSeq(list.elems, LAMBDA e : e = o)
    ELSE \/ Descriptor[m].priority > Descriptor[o].priority
         \/ Descriptor[m].priority = Descriptor[o].priority /\ m < o
Hits(op, types, list, n) ==
    UNION {{Hit(m, op, types, n) :
                m \in {x \in takers : \A o \in takers \ {x} : Before(list, x, o)}} :
            takers \in {Takers(op, types, list, n)}}

\* Mutant of IsCommutative: every operation is.
IsCommutativeAlways(op) == TRUE

\* op_is_decomposable, op_takes_array, op_commutative: some row says so.
Splits(line) == line.kind = "fold" /\ line.split
IsDecomposable(op) ==
    \E row \in AllRows(op) : \E l \in ToSet(row.sig) : Splits(l) /\ l.fixed = <<>>
TakesArray(op) == \E row \in AllRows(op) : \E l \in ToSet(row.sig) : l.array
IsCommutative(op) == \E row \in AllRows(op) : row.commutative

-----------------------------------------------------------------------------
Resolved(named) == IF named.given THEN named ELSE use

Types(args) == SelectSeq([i \in DOMAIN args |-> TypeOf(args[i])], LAMBDA t : t # "value")

-----------------------------------------------------------------------------
(* try_shortcircuit.                                                       *)

Boolean == {"union", "intersection", "difference", "combine"}
Measures == {"volume", "area", "perimeter", "valid"}

\* An operation that says so is also called with one array of its operands.
Spread(op, args) ==
    IF Len(args) = 1 /\ Kind(args[1]) = "array" /\ ArgsOf(args[1]) # <<>> /\ TakesArray(op)
    THEN ArgsOf(args[1]) ELSE args

\* The arguments but for {}: keep.
Operands(c) ==
    LET keep[n \in 0..Len(c.args)] ==
            IF n = 0 THEN <<>>
            ELSE IF c.args[n] = Empty THEN keep[n - 1] ELSE Append(keep[n - 1], c.args[n])
    IN  keep[Len(c.args)]

RefusesArgs(c) ==
    \/ c.op \in Boolean \cup Measures \cup {"export"} /\ \E a \in ToSet(c.args) : Kind(a) = "array"
    \/ c.op = "export" /\ Len(c.args) >= 2 /\ c.args[2] = Empty

FoldsEmpty(c) ==
    \/ c.op \in Boolean /\ Len(c.args) >= 2 /\ Empty \in ToSet(c.args)
    \/ c.op \in Measures /\ c.args = <<Empty>>

Folded(c) ==
    IF c.op \in Measures THEN Value
    ELSE IF Operands(c) = <<>> \/ (c.op = "difference" /\ c.args[1] = Empty) THEN Empty
    ELSE IF Len(Operands(c)) = 1 THEN Operands(c)[1]
    ELSE Call(c.op, Operands(c), NotGiven, c.site)

-----------------------------------------------------------------------------
(* try_decompose.                                                          *)

\* How many operands of a call the module of this hit takes at once: its N' and the N of
\* the signature.
Limit(hit) == IF Splits(hit.line) THEN Min({arity[hit.by], hit.line.most}) ELSE arity[hit.by]

\* Mutant of GroupLimit: a group may be the whole call.
GroupLimitWhole(hit, n) == Min({Limit(hit), n})

GroupLimit(hit, n) == Min({Limit(hit), n - 1})

\* The size of the groups the call is split into, or no size: the largest for which some
\* module takes the first operands.
GroupSizes(c) ==
    LET n == Len(c.args)
        First(k) == Hits(c.op, SubSeq(c.types, 1, k), c.list, Anything)
        Sizes(hit) == {2} \cup {k \in 3..GroupLimit(hit, n) : First(k) # {}}
        mayBe == /\ n > 2 /\ IsDecomposable(c.op) /\ \A a \in ToSet(c.args) : IsMesh(a)
                 /\ c.list.given => ToSet(c.list.elems) \cap Module # {}
    IN  IF ~mayBe \/ \E hit \in First(n) : n <= Limit(hit) THEN {}
        ELSE {k \in 2..n : \E hit \in First(2) :
                Splits(hit.line) /\ k \in Sizes(hit) /\ \A o \in Sizes(hit) : o <= k}

\* Mutant of Group: the list of the call is not handed on.
GroupUnlisted(c, s) == Call(c.op, s, NotGiven, c.site)

\* A call of a group of operands has the operation, the list and the place of the whole.
Group(c, s) == Call(c.op, s, c.named, c.site)

\* build_ktree, one level: k at a time; an operand that is left over goes up as it is.
KTree(c, k, s) ==
    [j \in 1..(Len(s) + k - 1) \div k |->
        LET e == [i \in {x \in 1..k : (j - 1) * k + x <= Len(s)} |-> s[(j - 1) * k + i]]
        IN  IF DOMAIN e = {1} THEN e[1] ELSE Group(c, e)]

\* build_kleftfold, one round: the first k, or what the last round gave and the next k - 1.
KLeftFold(c, k, s) ==
    IF Len(s) <= k THEN <<Group(c, s)>>
    ELSE [i \in 1..Len(s) - k + 1 |->
            IF i = 1 THEN Group(c, SubSeq(s, 1, k)) ELSE s[i + k - 1]]

Round(c, k, s) ==
    IF Len(s) = 1 THEN s
    ELSE IF IsCommutative(c.op) THEN KTree(c, k, s) ELSE KLeftFold(c, k, s)

\* A round leaves fewer operands, until there is one.
Split(c, k) ==
    LET round[d \in 0..Len(c.args)] == IF d = 0 THEN c.args ELSE Round(c, k, round[d - 1])
    IN  round[Len(c.args)][1]

-----------------------------------------------------------------------------
(* try_pseudo_module.                                                      *)

KindsFit(row, args) ==
    \A i \in DOMAIN args :
        LET slot == IF i <= Len(row.in) THEN row.in[i] ELSE row.tail
        IN  slot = "test" \/ (slot = "mesh") = IsMesh(args[i])

PseudoFits(row, args) ==
    /\ IF row.variadic THEN Len(args) >= Len(row.in) ELSE Len(args) \in row.nreq..Len(row.in)
    /\ KindsFit(row, args)
    /\ row.holds
    /\ row.sig = <<>> \/ \E l \in ToSet(row.sig) : Matches(l, Types(args))

\* The rows with which a pseudo module answers the call, by their numbers; one that is badly
\* written is an answer too.
Answers(p, c) ==
    {i \in DOMAIN Pseudo[p] :
        Pseudo[p][i].op = c.op /\ (Pseudo[p][i].broken \/ PseudoFits(Pseudo[p][i], c.args))}

\* The candidates that answer, by their numbers in the list; a module only has to be found,
\* it is routed to later.
Answering(c) ==
    {i \in DOMAIN c.list.elems :
        LET e == c.list.elems[i]
        IN  IF e < 0 THEN -e \in DOMAIN Pseudo /\ Answers(-e, c) # {}
            ELSE e \in Module /\ Takes(e, c.op, c.types, Len(c.args))}

\* The row of the first candidate that answers, if that is a pseudo module.
FirstOf(S) == {i \in S : \A j \in S : i <= j}
PseudoRows(c) ==
    UNION {{Pseudo[-c.list.elems[i]][j] : j \in FirstOf(Answers(-c.list.elems[i], c))} :
            i \in {x \in FirstOf(Answering(c)) : c.list.elems[x] < 0}}

\* The body applied: it calls an operation with a list of its own.
Applied(c, row) ==
    LET args == IF row.variadic THEN <<Array(c.args)>> ELSE c.args
    IN  IF row.broken THEN Failed ELSE Call(row.body.op, args, row.body.list, row.body.site)

-----------------------------------------------------------------------------
(* decide_out_module.                                                      *)

\* The kinds of the arguments are compared with those of the row that won, if it has any.
Accepting(c) ==
    {hit \in Hits(c.op, c.types, c.list, Len(c.args)) :
        hit.row.in = <<>> \/ KindsFit(hit.row, c.args)}

Running(c, hit) ==
    Term([kind |-> "run", op |-> c.op, by |-> hit.by, type |-> hit.line.out, site |-> c.site],
         c.args)

-----------------------------------------------------------------------------
(* ACT_START of the agents whose arguments are known: values, meshes and   *)
(* operations that were routed.  r.at is the place of such a call, r.call  *)
(* the call, with its array spread out.                                    *)

Init ==
    /\ written \in Programs /\ use \in UseLists
    /\ program = written
    /\ arity = [m \in Module |-> Descriptor[m].arity]
    /\ configured = 0

\* The agent of a call, with what it reads of its operands and of USE_MODULES.
Agent(is, operands) ==
    LET args == Spread(is.op, operands)
    IN  [op |-> is.op, args |-> args, named |-> is.named, site |-> is.site,
         types |-> Types(args), list |-> Resolved(is.named)]

ReadyNodes ==
    {n \in program :
        n.is.kind = "call" /\ \A o \in Below(program, n.at) \ {n} : o.is.kind # "call"}
ReadyCalls ==
    {[at |-> n.at, call |-> Agent(n.is, ArgsOf(Sub(program, n.at)))] : n \in ReadyNodes}

Becomes(r, new) ==
    program' = Put(program, r.at, new) /\ UNCHANGED <<written, use, arity, configured>>

ArgsFailed(r) == Failed \in ToSet(r.call.args)
Propagate(r) == ArgsFailed(r) /\ Becomes(r, Failed)

RefuseArgs(r) == ~ArgsFailed(r) /\ RefusesArgs(r.call) /\ Becomes(r, Failed)

Sound(r) == ~ArgsFailed(r) /\ ~RefusesArgs(r.call)
FoldEmpty(r) == Sound(r) /\ FoldsEmpty(r.call) /\ Becomes(r, Folded(r.call))

Whole(r) == Sound(r) /\ ~FoldsEmpty(r.call)
Decompose(r) ==
    Whole(r) /\ \E k \in GroupSizes(r.call) : Becomes(r, Split(r.call, k))

Single(r) == Whole(r) /\ GroupSizes(r.call) = {}
UsePseudo(r) ==
    Single(r) /\ \E row \in PseudoRows(r.call) : Becomes(r, Applied(r.call, row))

ForModule(r) == Single(r) /\ PseudoRows(r.call) = {}
Route(r) == ForModule(r) /\ \E hit \in Accepting(r.call) : Becomes(r, Running(r.call, hit))
Refuse(r) == ForModule(r) /\ Accepting(r.call) = {} /\ Becomes(r, Failed)

\* module("..", {arity: k}): a program may change the group size at any time.
SetArity(m, k) ==
    /\ configured < MaxConfig /\ k # arity[m]
    /\ arity' = [arity EXCEPT ![m] = k] /\ configured' = configured + 1
    /\ UNCHANGED <<written, use, program>>

CallStarts ==
    \E r \in ReadyCalls :
        \/ Propagate(r) \/ RefuseArgs(r) \/ FoldEmpty(r) \/ Decompose(r)
        \/ UsePseudo(r) \/ Route(r) \/ Refuse(r)

Next == CallStarts \/ \E m \in Module, k \in 2..MaxArity : SetArity(m, k)

Spec == Init /\ [][Next]_vars

\* Fairness: the agent of a call whose arguments are known gets to its ACT_START.
FairSpec == Spec /\ WF_vars(CallStarts)

-----------------------------------------------------------------------------
(* What a term denotes: the points of its solid, a point being the set of  *)
(* the operands it lies in.  NoSolid is what {} denotes.                   *)

Operand == 1..6
NoSolid == {{0}}

Present(solids) == {solids[i] : i \in DOMAIN solids} \ {NoSolid}
Joined(op, solids) ==
    IF op = "intersection" THEN {x \in UNION solids : \A s \in solids : x \in s}
    ELSE UNION solids
Combined(op, solids) ==
    IF op = "difference" /\ solids # <<>>
    THEN IF solids[1] = NoSolid THEN NoSolid ELSE solids[1] \ UNION Present(Tail(solids))
    ELSE IF Present(solids) = {} THEN NoSolid ELSE Joined(op, Present(solids))
One(solids) == Combined("union", solids)

\* An array denotes its elements one by one, everything else one solid; an operation on one
\* array is one on its elements.  args is what the arguments denote.
SolidsOf(is, args) ==
    LET each == [i \in DOMAIN args |-> One(args[i])]
    IN  CASE is.kind = "mesh" -> <<{x \in SUBSET Operand : is.id \in x}>>
          [] is.kind = "array" -> each
          [] is.kind \in {"call", "run"} ->
                <<Combined(is.op, IF Len(args) = 1 THEN args[1] ELSE each)>>
          [] OTHER -> <<NoSolid>>

Meaning(t) ==
    LET solids[p \in Places(t)] ==
            LET here == Sub(t, p)
            IN  SolidsOf(Top(here), [i \in 1..Width(here) |-> solids[p \o <<i>>]])
    IN  solids[<<>>]

\* What the rows and the pseudo modules say of themselves is so: an operation that is
\* commutative does not depend on the order, and a body does what its row is for.
Honest ==
    /\ \A m \in Module : \A row \in ToSet(Descriptor[m].rows) :
          row.commutative => row.op # "difference"
    /\ \A p \in DOMAIN Pseudo : \A i \in DOMAIN Pseudo[p] :
          \A op \in {"intersection", "difference"} :
              Pseudo[p][i].op = op <=> Pseudo[p][i].body.op = op

(* However a call was folded, split into groups and handed over to pseudo  *)
(* modules, what runs in the end computes what was written: no operand is  *)
(* lost or counted twice, a difference keeps its order, and {} is neutral  *)
(* (try_shortcircuit, build_ktree, build_kleftfold).                       *)
MeaningKept == ~Has(program, "error") => Meaning(program) = Meaning(written)

\* The call that is written at this place of the source, and whether a {} is written
\* anywhere in it.
AtSite(t, site) == {n \in t : n.is.kind = "call" /\ n.is.site = site}
NamedAt(t, site) == (CHOOSE n \in AtSite(t, site) : TRUE).is.named
HoldsEmpty(t, site) == \E n \in AtSite(t, site) : Has(Below(t, n.at), "empty")

(* A call that names its modules runs in one of them, also the calls it    *)
(* was split into (the language reference: a module that is not in the     *)
(* list is not called).  Said of the calls without a {} written anywhere   *)
(* in them: a call that loses an operand {} loses its list as well         *)
(* (Folded), and so it does when a nested call comes out as {}.            *)
PlainListed ==
    \A n \in program :
        LET run == n.is
            list == Resolved(NamedAt(written, run.site))
        IN  run.kind = "run" /\ run.site > 0 /\ ~HoldsEmpty(written, run.site) /\ list.given
                => run.by \in ToSet(list.elems)

\* Any two of these solids can be put together by a call of op with this list, and so can
\* what comes of it.
Together(op, types, list) ==
    LET outs == UNION {{line.out : line \in ToSet(row.sig)} : row \in AllRows(op)}
    IN  \E closed \in SUBSET (types \cup outs) :
            /\ types \subseteq closed
            /\ \A s, t \in closed : \E hit \in Hits(op, <<s, t>>, list, 2) :
                  Splits(hit.line) /\ hit.line.out \in closed

\* A Boolean call of meshes some listed module takes in pairs, whatever {} is among them.
Serviceable(t) ==
    /\ Top(t).kind = "call" /\ Top(t).op \in Boolean /\ Width(t) >= 2
    /\ \A a \in ToSet(ArgsOf(t)) : Kind(a) \in {"empty", "mesh"}
    /\ \A list \in {Resolved(Top(t).named), use} :
          /\ \A e \in ToSet(list.elems) : e >= 0
          /\ Together(Top(t).op, ToSet(Types(ArgsOf(t))), list)

(* Every call comes to an end although splitting it makes new calls, and   *)
(* one whose operands can be put together in pairs is not refused, however *)
(* it is grouped and whatever group sizes the program asks for in between  *)
(* (try_decompose).                                                        *)
Answered ==
    <>(/\ ~Has(program, "call")
       /\ Has(program, "error") => ~Serviceable(written))
=============================================================================
