--------------------------- MODULE Mediator_proofs ---------------------------
(***************************************************************************)
(* Proofs about Mediator, for any modules, results, failures and crashes.  *)
(*                                                                         *)
(* IInv follows a report from the module process to the operation.  What   *)
(* is on its way keeps its order (Ordered), nothing in between is missing  *)
(* (Expected, Kept), and what was told so far says which reports are still *)
(* to come.  A wire that ends means that the process is over or has sent   *)
(* all it has (Cut), and the end of the mediator that the process is over  *)
(* (Over).                                                                 *)
(***************************************************************************)
EXTENDS Mediator, TLAPS

\* Sequences of events and of records.
In(e, s) == \E i \in 1..Len(s) : s[i] = e

\* The order in which a process says what it has to say; -1 for what is not from it.
Rank(e) ==
    CASE e \in {"HELLO", "ASSERT"} -> 0
      [] e \in {"SAVE_STREAM", "SAVE_VALUE", "ERROR"} -> 1
      [] e = "SAVE_DONE" -> 2
      [] e = "BYE" -> 3
      [] e = "END" -> 4
      [] e = "EOF" -> 5
      [] e \in {"RETURN_OK", "RETURN_ERR"} -> 6
      [] OTHER -> -1

Increasing(s) ==
    \A i, j \in 1..Len(s) :
        i < j /\ Rank(s[i]) # -1 /\ Rank(s[j]) # -1 => Rank(s[i]) < Rank(s[j])
Single(e, s) == \A i, j \in 1..Len(s) : s[i] = e /\ s[j] = e => i = j

Queue == q["planner"]
Wire == chan["planner"]

\* On its way to the mediator.
Coming(e) == In(e, Queue) \/ In(e, Wire)
SaveComing == Coming("SAVE_STREAM") \/ Coming("SAVE_VALUE")

\* Nothing from the process is in the queue.
Unranked == \A e \in Event : In(e, Queue) => Rank(e) = -1

\* The rank of the last thing the application has sent.
Sent == CASE app = "INI" -> -1
          [] app \in {"START", "SAVEBEGIN"} -> 0
          [] app = "SAVEDONE" -> 1
          [] OTHER -> 4

A == <<"ASSERT">>
E == <<"ASSERT", "ERROR">>
B == <<"ASSERT", "SAVE_BEGIN">>
D == <<"ASSERT", "SAVE_BEGIN", "SAVE_DONE">>
Reported == {<<>>, A, E, B, D}

Whole == ~destroyed /\ planner = "up"

\* What was told, before and after the end.
ToldOK ==
    /\ med = "START" => told = <<>>
    /\ med # "DONE" => told \in Reported
    /\ med = "FIN" /\ app = "CLOSING" /\ Whole => told \in {E, D}
    /\ med = "DONE" => \E t \in Reported, r \in Return :
          /\ told = Append(t, r)
          /\ MustTell => r = "RETURN_WHY"
          /\ r = "RETURN_WHY" => MayTell
          /\ app = "CLOSING" /\ Whole => t \in {E, D}

\* The mediator is over when its process is.
Over ==
    /\ med = "START" => child = "none"
    /\ med \in {"RUN", "FIN"} => child # "none"
    /\ med = "DONE" => child # "up"
    /\ med = "FIN" => child # "up" \/ app = "CLOSING"
    /\ reaped => child \in Ending
    /\ child = "none" => app = "INI" /\ ~shut["module"]
    /\ pipe["planner"] = "HDR" => app # "INI"

\* What the process and its end of the wire have done.
App ==
    /\ app = "INI" => /\ pipe["module"] = "HELLO" /\ result = "none" /\ q["module"] = <<>>
                      /\ runner = "wait" /\ appPipe
    /\ runner # "over" => result = "none" /\ ~In("RESULT", q["module"])
    /\ runner = "over" => result # "none"
    /\ app \in {"SAVEBEGIN", "SAVEDONE"} => result \in {"stream", "value"}
    /\ app = "CLOSING" => result # "none" /\ (result # "error" => saved \in {"all", "found"})
    /\ ~appPipe \/ In("RETURN_OK", q["module"]) \/ In("RETURN_ERR", q["module"])
          => pipe["module"] = "FIN"
    /\ pipe["module"] = "FIN" => wended["module"] \/ shut["module"]
    /\ wended["module"] => app = "CLOSING"

\* The wire to the process carries one request.
Asked ==
    /\ child = "none" => chan["module"] = <<>> /\ ~wended["planner"]
    /\ child # "none" /\ pipe["module"] = "HELLO" =>
          chan["module"] = IF wended["planner"] THEN <<"HELLO", "REQ", "END">> ELSE <<"HELLO">>
    /\ pipe["module"] # "HELLO" =>
          chan["module"] \in IF wended["planner"] THEN {<<>>, <<"END">>, <<"REQ", "END">>} ELSE {<<>>}

\* The wire to the mediator ends when the process is over or has sent all it has to send.
Cut ==
    /\ shut["planner"] => child \notin {"none", "up"}
    /\ Whole /\ med \in {"START", "RUN"} => ~shut["module"]
    /\ med = "START" => pipe["planner"] = "HELLO"
    /\ med = "RUN" =>
          /\ pipe["planner"] \in {"DRAIN", "FIN"} => Wire = <<>>
          /\ pipe["planner"] = "DRAIN" => app = "CLOSING"
          /\ pipe["planner"] = "FIN" => child # "up" \/ app = "CLOSING"
          /\ ~medPipe => pipe["planner"] = "FIN" /\ vparser /\ Unranked
    /\ med # "RUN" => Unranked /\ ~medPipe

\* What is on its way is in order, once each, and no more than was sent.
Ordered ==
    /\ Increasing(Queue) /\ Increasing(Wire)
    /\ \A e \in Event, r \in Record : In(e, Queue) /\ In(r, Wire) => Rank(e) < Rank(r)
    /\ \A r \in Record : In(r, Wire) => Rank(r) \in 0..Sent
    /\ \A e \in Event : In(e, Queue) =>
          Rank(e) <= Sent \/ (pipe["planner"] = "FIN" /\ Rank(e) \in {0, 5, 6})

\* The parser, what is put off while it runs, and the events of the mediator itself.
Held ==
    /\ vparser => /\ med = "RUN" /\ told = A
                  /\ held \in {<<>>, <<"SAVE_DONE">>, <<"SAVE_DONE", "BYE">>}
    /\ ~vparser => held = <<>>
    /\ In("PARSED", Queue) => vparser
    /\ Single("PARSED", Queue)
    /\ In("TIMER", Queue) => timer = "fired"
    /\ timer # "none" => armed /\ grace = "timed"
    /\ armed => grace # "off"

\* What comes next after what was told.
Expected ==
    /\ pipe["planner"] = "HELLO" =>
          /\ told = <<>> /\ Unranked
          /\ app # "INI" => Wire # <<>> /\ Head(Wire) = "HELLO"
    /\ pipe["planner"] # "HELLO" =>
          ~In("HELLO", Wire) /\ (In("ASSERT", Queue) \/ told # <<>>)
    /\ In("ASSERT", Queue) => told = <<>>
    /\ SaveComing \/ Coming("ERROR") => told \in {<<>>, A} /\ ~vparser
    /\ Coming("SAVE_DONE") => /\ held = <<>> /\ told \in {<<>>, A, B}
                              /\ SaveComing \/ vparser \/ told = B
    /\ Coming("BYE") => /\ held \in {<<>>, <<"SAVE_DONE">>}
                        /\ Coming("SAVE_DONE") \/ held # <<>> \/ told = D

\* Only what the calculation gave is reported, and only what the application has sent.
Truthful ==
    /\ Coming("ERROR") \/ told = E => result = "error"
    /\ SaveComing \/ Coming("SAVE_DONE") \/ vparser \/ told \in {B, D}
          => result \in {"stream", "value"}
    /\ vparser \/ told = B => app \in {"SAVEDONE", "CLOSING"}
    /\ held # <<>> \/ told \in {E, D} => app = "CLOSING"

\* Nothing the application has sent is lost while its end of the wire is sound.
Kept ==
    pipe["module"] # "FIN" \/ ~shut["module"] =>
        /\ app = "CLOSING" /\ result = "error" => Coming("ERROR") \/ told = E
        /\ app \in {"SAVEDONE", "CLOSING"} /\ result # "error"
              => SaveComing \/ vparser \/ told \in {B, D}
        /\ app = "CLOSING" /\ result # "error" => Coming("SAVE_DONE") \/ held # <<>> \/ told = D

IInv ==
    /\ TypeOK /\ ToldOK /\ Over /\ App /\ Asked /\ Cut /\ Ordered /\ Held
    /\ med = "RUN" => Expected /\ Truthful /\ Kept
-----------------------------------------------------------------------------
(* Sequences: what is in one that grows at its end or loses its head.      *)

\* Nothing is in the empty sequence.
LEMMA InEmpty == ASSUME NEW e PROVE ~In(e, <<>>)
  BY DEF In

\* What Append adds, and what was there.
LEMMA InAppend ==
  ASSUME NEW S, NEW s \in Seq(S), NEW x \in S, NEW e
  PROVE  In(e, Append(s, x)) <=> In(e, s) \/ e = x
<1>1. /\ Len(Append(s, x)) = Len(s) + 1 /\ Len(s) \in Nat
      /\ Append(s, x)[Len(s) + 1] = x
      /\ \A i \in 1..Len(s) : Append(s, x)[i] = s[i]
  OBVIOUS
<1>2. ASSUME In(e, s) PROVE In(e, Append(s, x))
  BY <1>1, <1>2 DEF In
<1>3. ASSUME e = x PROVE In(e, Append(s, x))
  BY <1>1, <1>3 DEF In
<1>4. ASSUME In(e, Append(s, x)) PROVE In(e, s) \/ e = x
  <2>1. PICK i \in 1..Len(s) + 1 : Append(s, x)[i] = e
    BY <1>1, <1>4 DEF In
  <2>2. CASE i = Len(s) + 1
    BY <1>1, <2>1, <2>2
  <2>3. CASE i \in 1..Len(s)
    BY <1>1, <2>1, <2>3 DEF In
  <2> QED BY <1>1, <2>1, <2>2, <2>3
<1> QED BY <1>2, <1>3, <1>4

\* What Tail leaves is all but the head.
LEMMA InTail ==
  ASSUME NEW S, NEW s \in Seq(S), s # <<>>, NEW e
  PROVE  /\ Tail(s) \in Seq(S) /\ Head(s) \in S
         /\ In(e, s) <=> In(e, Tail(s)) \/ e = Head(s)
<1>1. /\ Tail(s) \in Seq(S) /\ Head(s) \in S /\ Head(s) = s[1]
      /\ Len(s) \in Nat \ {0} /\ Len(Tail(s)) = Len(s) - 1
      /\ \A i \in 1..Len(s) - 1 : Tail(s)[i] = s[i + 1]
  OBVIOUS
<1>2. ASSUME In(e, s) PROVE In(e, Tail(s)) \/ e = Head(s)
  <2>1. PICK i \in 1..Len(s) : s[i] = e
    BY <1>2 DEF In
  <2>2. CASE i = 1
    BY <1>1, <2>1, <2>2
  <2>3. CASE i # 1
    <3>1. i - 1 \in 1..Len(Tail(s)) /\ Tail(s)[i - 1] = e
      BY <1>1, <2>1, <2>3
    <3> QED BY <3>1 DEF In
  <2> QED BY <2>2, <2>3
<1>3. ASSUME In(e, Tail(s)) PROVE In(e, s)
  <2>1. PICK i \in 1..Len(Tail(s)) : Tail(s)[i] = e
    BY <1>3 DEF In
  <2>2. i + 1 \in 1..Len(s) /\ s[i + 1] = e
    BY <1>1, <2>1
  <2> QED BY <2>2 DEF In
<1>4. ASSUME e = Head(s) PROVE In(e, s)
  BY <1>1, <1>4 DEF In
<1> QED BY <1>1, <1>2, <1>3, <1>4

\* What is in a sequence over S is in S.
LEMMA InType == ASSUME NEW S, NEW s \in Seq(S), NEW e, In(e, s) PROVE e \in S
  BY DEF In

\* Sequences of up to three elements put behind another.
LEMMA Concats ==
  ASSUME NEW S, NEW s \in Seq(S), NEW x \in S, NEW y \in S, NEW z \in S
  PROVE  /\ s \o <<>> = s
         /\ s \o <<x>> = Append(s, x)
         /\ s \o <<x, y>> = Append(Append(s, x), y)
         /\ s \o <<x, y, z>> = Append(Append(Append(s, x), y), z)
  OBVIOUS

\* The last of up to three.
LEMMA Lasts == ASSUME NEW x, NEW y, NEW z
               PROVE  Last(<<x>>) = x /\ Last(<<x, y>>) = y /\ Last(<<x, y, z>>) = z
  BY DEF Last

\* What is there once at most stays so when something else is added, or it for the first time.
LEMMA SingleAppend ==
  ASSUME NEW S, NEW s \in Seq(S), NEW x \in S, NEW e, Single(e, s), x = e => ~In(e, s)
  PROVE  Single(e, Append(s, x))
<1>1. /\ Len(Append(s, x)) = Len(s) + 1 /\ Len(s) \in Nat
      /\ Append(s, x)[Len(s) + 1] = x
      /\ \A i \in 1..Len(s) : Append(s, x)[i] = s[i]
  OBVIOUS
<1> QED BY <1>1 DEF Single, In

\* What is there once at most is not left when it was the head.
LEMMA SingleTail ==
  ASSUME NEW S, NEW s \in Seq(S), s # <<>>, NEW e, Single(e, s)
  PROVE  Single(e, Tail(s)) /\ (Head(s) = e => ~In(e, Tail(s)))
<1>1. /\ Head(s) = s[1] /\ Len(s) \in Nat \ {0} /\ Len(Tail(s)) = Len(s) - 1
      /\ \A i \in 1..Len(s) - 1 : Tail(s)[i] = s[i + 1] /\ i + 1 \in 1..Len(s)
  OBVIOUS
<1>2. Single(e, Tail(s))
  BY <1>1 DEF Single
<1>3. ASSUME Head(s) = e, In(e, Tail(s)) PROVE FALSE
  <2>1. PICK i \in 1..Len(Tail(s)) : Tail(s)[i] = e
    BY <1>3 DEF In
  <2>2. 1 \in 1..Len(s) /\ i + 1 \in 1..Len(s) /\ s[i + 1] = e /\ s[1] = e /\ i + 1 # 1
    BY <1>1, <1>3, <2>1
  <2> QED BY <2>2 DEF Single
<1> QED BY <1>2, <1>3

\* Ranks are small integers.
LEMMA RankType == \A e : Rank(e) \in -1..6
  BY DEF Rank

\* An order goes on with what comes later than all of it.
LEMMA IncreasingAppend ==
  ASSUME NEW S, NEW s \in Seq(S), NEW x \in S, Increasing(s),
         Rank(x) = -1 \/ \A e \in S : In(e, s) => Rank(e) < Rank(x)
  PROVE  Increasing(Append(s, x))
<1>1. /\ Len(Append(s, x)) = Len(s) + 1 /\ Len(s) \in Nat
      /\ Append(s, x)[Len(s) + 1] = x
      /\ \A i \in 1..Len(s) : Append(s, x)[i] = s[i] /\ s[i] \in S
  OBVIOUS
<1> SUFFICES ASSUME NEW i \in 1..Len(s) + 1, NEW j \in 1..Len(s) + 1, i < j,
                    Rank(Append(s, x)[i]) # -1, Rank(Append(s, x)[j]) # -1
             PROVE  Rank(Append(s, x)[i]) < Rank(Append(s, x)[j])
  BY <1>1 DEF Increasing
<1>2. i \in 1..Len(s)
  BY <1>1
<1>3. CASE j = Len(s) + 1
  <2>1. In(s[i], s) /\ s[i] \in S
    BY <1>1, <1>2 DEF In
  <2> QED BY <1>1, <1>2, <1>3, <2>1
<1>4. CASE j \in 1..Len(s)
  BY <1>1, <1>2, <1>4 DEF Increasing
<1> QED BY <1>1, <1>3, <1>4

\* The head of an order comes before its tail.
LEMMA IncreasingTail ==
  ASSUME NEW S, NEW s \in Seq(S), s # <<>>, Increasing(s)
  PROVE  /\ Increasing(Tail(s))
         /\ \A e \in S : In(e, Tail(s)) /\ Rank(e) # -1 /\ Rank(Head(s)) # -1
                            => Rank(Head(s)) < Rank(e)
<1>1. /\ Head(s) = s[1] /\ Len(s) \in Nat \ {0} /\ Len(Tail(s)) = Len(s) - 1
      /\ \A i \in 1..Len(s) - 1 : Tail(s)[i] = s[i + 1] /\ i + 1 \in 1..Len(s)
  OBVIOUS
<1>2. Increasing(Tail(s))
  BY <1>1 DEF Increasing
<1>3. ASSUME NEW e \in S, In(e, Tail(s)), Rank(e) # -1, Rank(Head(s)) # -1
      PROVE  Rank(Head(s)) < Rank(e)
  <2>1. PICK i \in 1..Len(Tail(s)) : Tail(s)[i] = e
    BY <1>3 DEF In
  <2>2. 1 \in 1..Len(s) /\ i + 1 \in 1..Len(s) /\ s[i + 1] = e /\ 1 < i + 1
    BY <1>1, <2>1
  <2> QED BY <1>1, <1>3, <2>2 DEF Increasing
<1> QED BY <1>2, <1>3

\* The empty sequence is in order.
LEMMA EmptyOrdered == Increasing(<<>>) /\ \A e : Single(e, <<>>)
  BY DEF Increasing, Single

\* Sequences are equal when their elements are.
LEMMA Same ==
  ASSUME NEW S, NEW s \in Seq(S), NEW t \in Seq(S), Len(s) = Len(t),
         \A i \in 1..Len(s) : s[i] = t[i]
  PROVE  s = t
  OBVIOUS

\* Append, element by element.
LEMMA AppendIs ==
  ASSUME NEW S, NEW s \in Seq(S), NEW x \in S
  PROVE  /\ Append(s, x) \in Seq(S) /\ Len(Append(s, x)) = Len(s) + 1
         /\ Append(s, x)[Len(s) + 1] = x
         /\ \A i \in 1..Len(s) : Append(s, x)[i] = s[i]
  OBVIOUS

\* Append to nothing, to one, and to two.
LEMMA AppendNone == ASSUME NEW S, NEW x \in S PROVE Append(<<>>, x) = <<x>>
<1> DEFINE a == <<>>
           b == <<x>>
<1>1. a \in Seq(S) /\ b \in Seq(S) /\ Len(a) = 0 /\ Len(b) = 1 /\ b[1] = x
  OBVIOUS
<1> HIDE DEF a, b
<1>2. Append(a, x) \in Seq(S) /\ Len(Append(a, x)) = 1 /\ Append(a, x)[1] = x
  BY <1>1
<1>3. Append(a, x) = b
  BY <1>1, <1>2, Same
<1> QED BY <1>3 DEF a, b

LEMMA AppendOne == ASSUME NEW S, NEW x \in S, NEW y \in S PROVE Append(<<x>>, y) = <<x, y>>
<1> DEFINE a == <<x>>
           b == <<x, y>>
<1>1. /\ a \in Seq(S) /\ b \in Seq(S) /\ Len(a) = 1 /\ Len(b) = 2
      /\ a[1] = x /\ b[1] = x /\ b[2] = y
  OBVIOUS
<1> HIDE DEF a, b
<1>2. /\ Append(a, y) \in Seq(S) /\ Len(Append(a, y)) = 2
      /\ Append(a, y)[1] = x /\ Append(a, y)[2] = y
  BY <1>1, AppendIs
<1>3. Append(a, y) = b
  BY <1>1, <1>2, Same
<1> QED BY <1>3 DEF a, b

LEMMA AppendTwo ==
  ASSUME NEW S, NEW x \in S, NEW y \in S, NEW z \in S PROVE Append(<<x, y>>, z) = <<x, y, z>>
<1> DEFINE a == <<x, y>>
           b == <<x, y, z>>
<1>1. /\ a \in Seq(S) /\ b \in Seq(S) /\ Len(a) = 2 /\ Len(b) = 3
      /\ a[1] = x /\ a[2] = y /\ b[1] = x /\ b[2] = y /\ b[3] = z
  OBVIOUS
<1> HIDE DEF a, b
<1>2. /\ Append(a, z) \in Seq(S) /\ Len(Append(a, z)) = Len(a) + 1
      /\ Append(a, z)[Len(a) + 1] = z /\ \A i \in 1..Len(a) : Append(a, z)[i] = a[i]
  <2>1. a \in Seq(S)
    BY <1>1
  <2> HIDE <1>1
  <2> QED BY <2>1
<1>3. Append(a, z) = b
  <2>1. 1 \in 1..Len(a) /\ 2 \in 1..Len(a) /\ Len(a) + 1 = 3
    BY <1>1
  <2>2. Append(a, z)[1] = x /\ Append(a, z)[2] = y /\ Append(a, z)[3] = z
    BY <1>1, <1>2, <2>1
  <2>3. ASSUME NEW i \in 1..3 PROVE Append(a, z)[i] = b[i]
    <3>1. i = 1 \/ i = 2 \/ i = 3
      OBVIOUS
    <3> QED BY <1>1, <2>2, <3>1
  <2>4. Append(a, z) \in Seq(S) /\ Len(Append(a, z)) = 3 /\ b \in Seq(S) /\ Len(b) = 3
    BY <1>1, <1>2
  <2> QED BY <2>3, <2>4, Same
<1> QED BY <1>3 DEF a, b

-----------------------------------------------------------------------------
(* The packets that are handled when the parser has ended: FoldLeft over a *)
(* sequence of at most two.                                                *)

Folding(m, s) ==
    CHOOSE iter : iter = [u \in SUBSET (DOMAIN s) |->
        IF u = {} THEN m ELSE Take(iter[u \ {Max(u)}], s[Max(u)])]

\* FoldLeft, with the recursive function it folds by.
LEMMA FoldIsFolding ==
  ASSUME NEW m, NEW s PROVE FoldLeft(Take, m, s) = Folding(m, s)[DOMAIN s]
  BY DEF FoldLeft, MapThenFoldSet, Folding

\* The largest of one, and of two indices.
LEMMA MaxOne == ASSUME NEW n \in Nat PROVE Max({n}) = n
  BY DEF Max

LEMMA MaxTwo == Max({1, 2}) = 2
  BY DEF Max

\* Nothing folded.
LEMMA FoldNone == ASSUME NEW m PROVE FoldLeft(Take, m, <<>>) = m
<1> DEFINE Step(iter) == [u \in SUBSET {} |->
        IF u = {} THEN m ELSE Take(iter[u \ {Max(u)}], <<>>[Max(u)])]
<1>1. DOMAIN <<>> = {}
  OBVIOUS
<1>2. [u \in SUBSET {} |-> m] = Step([u \in SUBSET {} |-> m])
  OBVIOUS
<1>3. Folding(m, <<>>) = Step(Folding(m, <<>>))
  BY <1>1, <1>2 DEF Folding
<1> QED BY <1>1, <1>3, FoldIsFolding

\* One packet folded, with the function that is the fold's witness.
LEMMA FoldOne == ASSUME NEW m, NEW a PROVE FoldLeft(Take, m, <<a>>) = Take(m, a)
<1> DEFINE s == <<a>>
           Step(iter) == [u \in SUBSET {1} |->
               IF u = {} THEN m ELSE Take(iter[u \ {Max(u)}], s[Max(u)])]
           g == [u \in SUBSET {1} |-> IF u = {} THEN m ELSE Take(m, a)]
<1>1. DOMAIN s = {1} /\ s[1] = a /\ {1} \ {1} = {}
  OBVIOUS
<1>2. g = Step(g)
  <2>1. SUFFICES ASSUME NEW u \in SUBSET {1} PROVE g[u] = Step(g)[u]
    OBVIOUS
  <2>2. CASE u = {}
    BY <2>2
  <2>3. CASE u = {1}
    BY <2>3, MaxOne
  <2> QED BY <2>2, <2>3
<1> HIDE DEF g
<1>3. Folding(m, s) = Step(Folding(m, s))
  <2>1. \E iter : iter = Step(iter)
    BY <1>2
  <2> QED BY <1>1, <2>1 DEF Folding
<1> HIDE DEF s
<1>4. Folding(m, s)[{1}] = Take(Folding(m, s)[{}], s[1])
  BY <1>1, <1>3, MaxOne
<1>5. Folding(m, s)[{}] = m
  BY <1>3
<1> QED BY <1>1, <1>4, <1>5, FoldIsFolding DEF s

\* Two packets folded, in their order.
LEMMA FoldTwo ==
  ASSUME NEW m, NEW a, NEW b PROVE FoldLeft(Take, m, <<a, b>>) = Take(Take(m, a), b)
<1> DEFINE s == <<a, b>>
           Step(iter) == [u \in SUBSET {1, 2} |->
               IF u = {} THEN m ELSE Take(iter[u \ {Max(u)}], s[Max(u)])]
           g == [u \in SUBSET {1, 2} |->
               IF u = {} THEN m
               ELSE IF u = {1} THEN Take(m, a)
               ELSE IF u = {2} THEN Take(m, b)
               ELSE Take(Take(m, a), b)]
<1>1. /\ DOMAIN s = {1, 2} /\ s[1] = a /\ s[2] = b
      /\ {1, 2} \ {2} = {1} /\ {1} \ {1} = {}
  OBVIOUS
<1>2. g = Step(g)
  <2>1. SUFFICES ASSUME NEW u \in SUBSET {1, 2} PROVE g[u] = Step(g)[u]
    OBVIOUS
  <2>2. CASE u = {}
    BY <2>2
  <2>3. CASE u = {1}
    BY <2>3, MaxOne
  <2>4. CASE u = {2}
    BY <2>4, MaxOne
  <2>5. CASE u = {1, 2}
    BY <2>5, MaxTwo
  <2>6. u \in {{}, {1}, {2}, {1, 2}}
    OBVIOUS
  <2> QED BY <2>2, <2>3, <2>4, <2>5, <2>6
<1> HIDE DEF g
<1>3. Folding(m, s) = Step(Folding(m, s))
  <2>1. \E iter : iter = Step(iter)
    BY <1>2
  <2> QED BY <1>1, <2>1 DEF Folding
<1> HIDE DEF s
<1>4. Folding(m, s)[{1, 2}] = Take(Folding(m, s)[{1}], s[2])
  BY <1>1, <1>3, MaxTwo
<1>5. Folding(m, s)[{1}] = Take(Folding(m, s)[{}], s[1])
  BY <1>1, <1>3, MaxOne
<1>6. Folding(m, s)[{}] = m
  BY <1>3
<1> QED BY <1>1, <1>4, <1>5, <1>6, FoldIsFolding DEF s

-----------------------------------------------------------------------------

USE DEF medVars, appVars, wireVars, MustTell, MayTell

\* Before anything was started.
LEMMA InitInv == Init => IInv
<1> SUFFICES ASSUME Init PROVE IInv
  OBVIOUS
<1>1. TypeOK
  <2>1. told \in Seq(Message) /\ held \in Seq(Packet)
    BY DEF Init
  <2>2. pipe \in [Side -> {"HELLO", "HDR", "DRAIN", "FIN"}]
    BY DEF Init
  <2>3. wended \in [Side -> BOOLEAN] /\ shut \in [Side -> BOOLEAN]
    BY DEF Init
  <2>4. chan \in [Side -> Seq(Record)] /\ q \in [Side -> Seq(Event)]
    BY DEF Init
  <2> QED BY <2>1, <2>2, <2>3, <2>4 DEF Init, TypeOK, SaveState
<1>2. Queue = <<>> /\ Wire = <<>> /\ q["module"] = <<>>
  BY DEF Init, Queue, Wire, Side
<1>3. \A e : ~In(e, Queue) /\ ~In(e, Wire) /\ ~In(e, q["module"])
  BY <1>2, InEmpty
<1>4. ToldOK /\ Over /\ App
  BY <1>3 DEF Init, ToldOK, Over, App, Reported, Side
<1>5. Cut /\ Held
  BY <1>2, <1>3, EmptyOrdered DEF Init, Cut, Held, Unranked, Side
<1>6. Ordered /\ Asked
  BY <1>2, <1>3, EmptyOrdered DEF Init, Ordered, Asked, Side
<1> QED BY <1>1, <1>4, <1>5, <1>6 DEF Init, IInv

-----------------------------------------------------------------------------
(* Steps that leave the wire alone.                                        *)

LEMMA EnableInv == ASSUME IInv, Enable PROVE IInv'
<1>1. TypeOK'
  BY DEF IInv, TypeOK, Enable
<1>2. ToldOK' /\ Over' /\ App'
  BY DEF IInv, Enable, ToldOK, Over, App, Whole
<1>3. Cut' /\ Held'
  BY DEF IInv, Enable, Cut, Held, Queue, Wire, Unranked, Whole
<1>4. Ordered' /\ Asked'
  BY DEF IInv, Enable, Ordered, Asked, Queue, Wire, Sent
<1> QED BY <1>4, <1>1, <1>2, <1>3 DEF IInv, Enable

LEMMA NotWantedInv == ASSUME IInv, NotWanted PROVE IInv'
<1>1. TypeOK'
  BY DEF IInv, TypeOK, NotWanted, Message, Return
<1>2. ToldOK'
  BY DEF IInv, NotWanted, ToldOK, Over, Whole, Reported, Return
<1>3. Over' /\ App'
  BY DEF IInv, NotWanted, ToldOK, Over, App, Whole
<1>4. Cut' /\ Held'
  BY DEF IInv, NotWanted, Cut, Held, Queue, Wire, Unranked, Whole
<1>5. Ordered' /\ Asked'
  BY DEF IInv, NotWanted, Ordered, Asked, Queue, Wire, Sent
<1> QED BY <1>5, <1>1, <1>2, <1>3, <1>4 DEF IInv, NotWanted

LEMMA AgentWaitInv == ASSUME IInv, AgentWait PROVE IInv'
<1>1. TypeOK'
  BY DEF IInv, TypeOK, AgentWait, Reasons, Message, Return
<1>2. ToldOK'
  BY DEF IInv, AgentWait, AgentGone, Reasons, ToldOK, Over, Whole, Reported, Return, Ending
<1>3. Over' /\ App'
  BY DEF IInv, AgentWait, AgentGone, ToldOK, Over, App, Whole, Ending
<1>4. Cut' /\ Held'
  BY DEF IInv, AgentWait, Cut, Held, Queue, Wire, Unranked, Whole
<1>5. Ordered' /\ Asked'
  BY DEF IInv, AgentWait, Ordered, Asked, Queue, Wire, Sent
<1> QED BY <1>5, <1>1, <1>2, <1>3, <1>4 DEF IInv, AgentWait

LEMMA ReapInv == ASSUME IInv, Reap PROVE IInv'
<1>1. TypeOK'
  BY DEF IInv, TypeOK, Reap
<1>2. ToldOK' /\ Over' /\ App'
  BY DEF IInv, Reap, ToldOK, Over, App, Whole
<1>3. Cut' /\ Held'
  BY DEF IInv, Reap, Cut, Held, Queue, Wire, Unranked, Whole
<1>5. Ordered' /\ Asked'
  BY DEF IInv, Reap, Ordered, Asked, Queue, Wire, Sent
<1>4. (med = "RUN" => Expected /\ Truthful /\ Kept)'
  <2>1. med = "RUN" => Expected' /\ Truthful'
    BY DEF IInv, Reap, Expected, Truthful, Queue, Wire, Unranked, Coming, SaveComing
  <2>2. med = "RUN" => Kept'
    BY DEF IInv, Reap, Kept, Queue, Wire, Coming, SaveComing
  <2> QED BY <2>1, <2>2 DEF Reap
<1> QED BY <1>5, <1>1, <1>2, <1>3, <1>4 DEF IInv

LEMMA PlannerDeathInv == ASSUME IInv, PlannerDeath PROVE IInv'
<1>0. /\ shut' = [shut EXCEPT !["module"] = (child # "none")]
      /\ shut'["planner"] = shut["planner"] /\ shut'["module"] = (child # "none")
  BY DEF IInv, TypeOK, PlannerDeath, Side
<1>1. TypeOK'
  <2>1. shut' \in [Side -> BOOLEAN]
    BY <1>0 DEF IInv, TypeOK, Side
  <2> QED BY <2>1 DEF IInv, TypeOK, PlannerDeath
<1>2. ToldOK' /\ Over' /\ App'
  <2>1. ToldOK'
    BY DEF IInv, PlannerDeath, ToldOK, Whole
  <2>2. Over'
    BY <1>0 DEF IInv, PlannerDeath, Over
  <2>3. App'
    BY <1>0 DEF IInv, PlannerDeath, App, Over
  <2> QED BY <2>1, <2>2, <2>3
<1>3. Cut' /\ Held'
  BY <1>0 DEF IInv, PlannerDeath, Cut, Held, Queue, Wire, Unranked, Whole
<1>5. Ordered' /\ Asked'
  BY DEF IInv, PlannerDeath, Ordered, Asked, Queue, Wire, Sent
<1>4. (med = "RUN" => Expected /\ Truthful /\ Kept)'
  <2>1. med = "RUN" => Expected' /\ Truthful'
    BY DEF IInv, PlannerDeath, Expected, Truthful, Queue, Wire, Unranked, Coming, SaveComing
  <2>2. med = "RUN" => Kept'
    BY <1>0 DEF IInv, PlannerDeath, Over, Kept, Queue, Wire, Coming, SaveComing
  <2> QED BY <2>1, <2>2 DEF PlannerDeath
<1> QED BY <1>5, <1>1, <1>2, <1>3, <1>4 DEF IInv

LEMMA LaunchInv == ASSUME IInv, Launch PROVE IInv'
<1>0. chan'["planner"] = chan["planner"] /\ chan' \in [Side -> Seq(Record)]
  <2>1. <<"HELLO">> \in Seq(Record) /\ "module" # "planner"
    BY DEF Record
  <2> QED BY <2>1 DEF IInv, TypeOK, Launch, Side
<1>1. TypeOK'
  <2>1. told \in Seq(Message) /\ "RETURN_FAILED" \in Message
    BY DEF IInv, TypeOK, Message, Return
  <2>2. told' \in {told, Append(told, "RETURN_FAILED")}
    BY DEF Launch
  <2>3. told' \in Seq(Message)
    BY <2>1, <2>2
  <2>4. /\ med' \in {"START", "RUN", "FIN", "DONE"} /\ enabled' \in BOOLEAN
        /\ medPipe' \in BOOLEAN /\ child' \in {"none", "up"} \cup Ending
    BY DEF IInv, TypeOK, Launch
  <2> QED BY <1>0, <2>3, <2>4 DEF IInv, TypeOK, Launch
<1>2. ToldOK'
  BY <1>0 DEF IInv, Launch, ToldOK, Over, App, Whole, Reported, Return
<1>3. Over' /\ App'
  <2>1. child = "none" /\ ~reaped
    BY DEF IInv, Launch, Over, ToldOK, Ending
  <2>2. Over'
    BY <1>0, <2>1 DEF IInv, Launch, Over, ToldOK, Ending
  <2>3. App'
    BY <1>0, <2>1 DEF IInv, Launch, Over, App
  <2> QED BY <2>2, <2>3
<1>4. Wire = <<>>
  <2>1. Wire \in Seq(Record) /\ Sent = -1
    BY DEF IInv, TypeOK, Wire, Side, Sent, Launch, Over
  <2>2. ASSUME Wire # <<>> PROVE FALSE
    BY <2>1, <2>2, InTail DEF IInv, Ordered
  <2> QED BY <2>2
<1>5. Cut'
  <2>1. ~In("RETURN_OK", Queue) /\ ~In("RETURN_ERR", Queue) /\ Unranked
    <3>1. "RETURN_OK" \in Event /\ "RETURN_ERR" \in Event /\ Unranked
      BY DEF Event, IInv, Cut, Launch
    <3> QED BY <3>1 DEF Unranked, Rank
  <2>2. Queue' = Queue /\ Wire' = Wire /\ (Unranked <=> Unranked')
    BY <1>0 DEF Launch, Queue, Wire, Unranked
  <2>3. UNCHANGED <<shut, pipe, destroyed, planner>> /\ med' \in {"RUN", "DONE"}
        /\ ~shut["module"] /\ ~shut["planner"] /\ pipe["planner"] = "HELLO"
    BY DEF Launch, IInv, Cut, Over
  <2>4. (med' = "RUN") = medPipe'
    BY DEF Launch, IInv, Cut, TypeOK
  <2> QED BY <2>1, <2>2, <2>3, <2>4 DEF Cut, Whole
<1>6. Ordered' /\ Held'
  BY <1>0 DEF IInv, Launch, Ordered, Held, Queue, Wire, Unranked, Whole, Sent
<1>8. Asked'
  <2>1. /\ child = "none" /\ chan["module"] = <<>> /\ ~wended["planner"]
        /\ pipe["module"] = "HELLO"
    BY DEF IInv, Launch, Over, App, Asked
  <2>2. \/ child' = "up" /\ chan'["module"] = <<"HELLO">>
        \/ UNCHANGED <<child, chan>>
    BY DEF Launch, IInv, TypeOK, Side
  <2> QED BY <2>1, <2>2 DEF Asked, Launch
<1>7. (med = "RUN" => Expected /\ Truthful /\ Kept)'
  <2>1. \A e \in Packet \cup {"ASSERT"} : e \in Event /\ Rank(e) # -1
    BY DEF Event, Packet, Rank
  <2>2. \A e \in Packet \cup {"ASSERT"} : ~In(e, Queue) /\ ~In(e, Wire)
    BY <1>4, <2>1, InEmpty DEF IInv, Launch, Cut, Unranked
  <2>3. ~(\E e \in Packet : Coming(e)) /\ ~SaveComing /\ ~In("ASSERT", Queue)
    BY <2>2 DEF Coming, SaveComing, Packet
  <2>4. /\ Queue' = Queue /\ Wire' = Wire /\ told = <<>> /\ ~vparser /\ held = <<>>
        /\ pipe["planner"] = "HELLO" /\ app = "INI" /\ Unranked
    BY <1>0 DEF IInv, Launch, ToldOK, Held, Cut, Over, Queue, Wire
  <2>5. UNCHANGED <<SaveComing, Unranked>> /\ \A e : Coming(e)' = Coming(e)
    BY <2>4 DEF SaveComing, Coming, Unranked
  <2> SUFFICES ASSUME med' = "RUN" PROVE (Expected /\ Truthful /\ Kept)'
    OBVIOUS
  <2>6. told' = <<>> /\ UNCHANGED <<vparser, held, pipe, result, app>>
    BY <2>4 DEF Launch
  <2>7. Expected'
    BY <1>4, <2>3, <2>4, <2>5, <2>6 DEF Expected, Packet
  <2>8. Truthful' /\ Kept'
    BY <2>3, <2>4, <2>5, <2>6 DEF Truthful, Kept, Packet, B, D, E
  <2> QED BY <2>7, <2>8
<1> QED BY <1>1, <1>2, <1>3, <1>5, <1>6, <1>7, <1>8 DEF IInv

-----------------------------------------------------------------------------
(* Steps that put an event of the mediator's own into its queue.           *)

\* How far the application is, by the rank of what it sent last.
LEMMA SentIs ==
  /\ app = "INI" <=> Sent = -1
  /\ app \in {"START", "SAVEBEGIN"} <=> Sent = 0
  /\ app = "SAVEDONE" <=> Sent = 1
  /\ Sent \in {-1, 0, 1, 4}
  BY DEF Sent

\* An event of the mediator's own is behind the reports that wait, and is none of them.
LEMMA OwnEvent ==
  ASSUME IInv, NEW ev \in {"DESTROY", "PARSED", "TIMER"},
         q' = [q EXCEPT !["planner"] = Append(@, ev)],
         UNCHANGED <<pipe, wended, chan, app, child>>
  PROVE  /\ q' \in [Side -> Seq(Event)] /\ UNCHANGED <<Wire, Sent, q["module"]>>
         /\ Queue' = Append(Queue, ev)
         /\ \A e : In(e, Queue') <=> In(e, Queue) \/ e = ev
         /\ \A e \in Packet : Coming(e)' <=> Coming(e)
         /\ SaveComing' <=> SaveComing
         /\ Unranked' <=> Unranked
         /\ Ordered' /\ Asked'
<1>1. /\ Queue \in Seq(Event) /\ ev \in Event /\ Rank(ev) = -1 /\ ev \notin Packet
      /\ "planner" \in Side /\ q \in [Side -> Seq(Event)]
  BY DEF IInv, TypeOK, Queue, Side, Event, Packet, Rank
<1>2. Queue' = Append(Queue, ev) /\ q' \in [Side -> Seq(Event)] /\ q'["module"] = q["module"]
  BY <1>1 DEF Queue, Side
<1>3. Wire' = Wire /\ Sent' = Sent
  BY DEF Wire, Sent
<1>4. \A e : In(e, Queue') <=> In(e, Queue) \/ e = ev
  <2>1. ASSUME NEW e PROVE In(e, Append(Queue, ev)) <=> In(e, Queue) \/ e = ev
    BY <1>1, InAppend
  <2> QED BY <1>2, <2>1
<1>5. \A e \in Packet : Coming(e)' <=> Coming(e)
  <2>1. ASSUME NEW e \in Packet PROVE Coming(e)' <=> Coming(e)
    BY <1>1, <1>3, <1>4 DEF Coming
  <2> QED BY <2>1
<1>6. SaveComing' <=> SaveComing
  BY <1>5 DEF SaveComing, Packet
<1>7. Unranked' <=> Unranked
  BY <1>1, <1>4 DEF Unranked
<1>8. Ordered'
  <2>1. Increasing(Queue')
    BY <1>1, <1>2, IncreasingAppend DEF IInv, Ordered
  <2>2. \A e \in Event, r \in Record : In(e, Queue') /\ In(r, Wire') => Rank(e) < Rank(r)
    BY <1>1, <1>3, <1>4 DEF IInv, Ordered
  <2>3. ASSUME NEW e \in Event, In(e, Queue')
        PROVE  Rank(e) <= Sent' \/ (pipe'["planner"] = "FIN" /\ Rank(e) \in {0, 5, 6})
    BY <1>1, <1>3, <1>4, <2>3, SentIs DEF IInv, Ordered
  <2> QED BY <1>3, <2>1, <2>2, <2>3 DEF IInv, Ordered
<1>9. Asked'
  BY DEF IInv, Asked
<1> QED BY <1>2, <1>3, <1>4, <1>5, <1>6, <1>7, <1>8, <1>9

\* It changes nothing of what is expected.
LEMMA OwnEventReports ==
  ASSUME IInv, NEW ev \in {"DESTROY", "PARSED", "TIMER"},
         q' = [q EXCEPT !["planner"] = Append(@, ev)],
         UNCHANGED <<medVars, appVars, child, pipe, wended, chan, shut>>
  PROVE  (med = "RUN" => Expected /\ Truthful /\ Kept)'
<1>0. UNCHANGED <<pipe, wended, chan, app, child>>
  OBVIOUS
<1>1. /\ In("ASSERT", Queue') <=> In("ASSERT", Queue)
      /\ \A e \in Packet : Coming(e)' <=> Coming(e)
      /\ SaveComing' <=> SaveComing
      /\ Unranked' <=> Unranked
      /\ Wire' = Wire
  BY <1>0, OwnEvent
<1> SUFFICES ASSUME med = "RUN", Expected, Truthful, Kept PROVE Expected' /\ Truthful' /\ Kept'
  BY DEF IInv
<1>2. Expected'
  BY <1>1 DEF Expected, Packet
<1>3. Truthful'
  BY <1>1 DEF Truthful, Packet
<1>4. Kept'
  BY <1>1 DEF Kept, Packet
<1> QED BY <1>2, <1>3, <1>4

LEMMA DestroyInv == ASSUME IInv, Destroy PROVE IInv'
<1>0. /\ q' = [q EXCEPT !["planner"] = Append(@, "DESTROY")]
      /\ UNCHANGED <<pipe, wended, chan, app, child>>
      /\ UNCHANGED <<medVars, appVars, child, pipe, wended, chan, shut>>
  BY DEF Destroy
<1>1. /\ q' \in [Side -> Seq(Event)] /\ UNCHANGED <<Wire, Sent, q["module"]>>
      /\ Queue' = Append(Queue, "DESTROY")
      /\ \A e : In(e, Queue') <=> In(e, Queue) \/ e = "DESTROY"
      /\ Unranked' <=> Unranked
      /\ Ordered' /\ Asked'
  BY <1>0, OwnEvent
<1>2. (med = "RUN" => Expected /\ Truthful /\ Kept)'
  BY <1>0, OwnEventReports
<1>3. TypeOK'
  BY <1>1 DEF IInv, TypeOK, Destroy
<1>4. ToldOK' /\ Over' /\ App'
  BY <1>1 DEF IInv, Destroy, ToldOK, Over, App, Whole
<1>5. Cut'
  BY <1>1 DEF IInv, Destroy, Cut, Whole
<1>6. Held'
  <2>1. Single("PARSED", Queue')
    BY <1>1, SingleAppend DEF IInv, Held, TypeOK, Queue, Side, Event
  <2>2. In("TIMER", Queue') <=> In("TIMER", Queue)
    BY <1>1
  <2>3. In("PARSED", Queue') <=> In("PARSED", Queue)
    BY <1>1
  <2> QED BY <2>1, <2>2, <2>3 DEF IInv, Held, Destroy
<1> QED BY <1>1, <1>2, <1>3, <1>4, <1>5, <1>6 DEF IInv

LEMMA ParsedInv == ASSUME IInv, Parsed PROVE IInv'
<1>0. /\ q' = [q EXCEPT !["planner"] = Append(@, "PARSED")]
      /\ UNCHANGED <<pipe, wended, chan, app, child>>
      /\ UNCHANGED <<medVars, appVars, child, pipe, wended, chan, shut>>
  BY DEF Parsed
<1>1. /\ q' \in [Side -> Seq(Event)] /\ UNCHANGED <<Wire, Sent, q["module"]>>
      /\ Queue' = Append(Queue, "PARSED")
      /\ \A e : In(e, Queue') <=> In(e, Queue) \/ e = "PARSED"
      /\ Unranked' <=> Unranked
      /\ Ordered' /\ Asked'
  BY <1>0, OwnEvent
<1>2. (med = "RUN" => Expected /\ Truthful /\ Kept)'
  BY <1>0, OwnEventReports
<1>3. TypeOK'
  BY <1>1 DEF IInv, TypeOK, Parsed
<1>4. ToldOK' /\ Over' /\ App'
  BY <1>1 DEF IInv, Parsed, ToldOK, Over, App, Whole
<1>5. Cut'
  BY <1>1 DEF IInv, Parsed, Cut, Whole
<1>6. Held'
  <2>1. ~In("PARSED", Queue)
    BY DEF Parsed, Queue, In, ToSet
  <2>2. Single("PARSED", Queue')
    BY <1>1, <2>1, SingleAppend DEF IInv, Held, TypeOK, Queue, Side, Event
  <2>3. In("TIMER", Queue') <=> In("TIMER", Queue)
    BY <1>1
  <2> QED BY <2>2, <2>3 DEF IInv, Held, Parsed
<1> QED BY <1>1, <1>2, <1>3, <1>4, <1>5, <1>6 DEF IInv

LEMMA TimerFiresInv == ASSUME IInv, TimerFires PROVE IInv'
<1>0. /\ q' = [q EXCEPT !["planner"] = Append(@, "TIMER")]
      /\ UNCHANGED <<pipe, wended, chan, app, child>>
      /\ UNCHANGED <<medVars, appVars, child, pipe, wended, chan, shut>>
  BY DEF TimerFires
<1>1. /\ q' \in [Side -> Seq(Event)] /\ UNCHANGED <<Wire, Sent, q["module"]>>
      /\ Queue' = Append(Queue, "TIMER")
      /\ \A e : In(e, Queue') <=> In(e, Queue) \/ e = "TIMER"
      /\ Unranked' <=> Unranked
      /\ Ordered' /\ Asked'
  BY <1>0, OwnEvent
<1>2. (med = "RUN" => Expected /\ Truthful /\ Kept)'
  BY <1>0, OwnEventReports
<1>3. TypeOK'
  BY <1>1 DEF IInv, TypeOK, TimerFires
<1>4. ToldOK' /\ Over' /\ App'
  BY <1>1 DEF IInv, TimerFires, ToldOK, Over, App, Whole
<1>5. Cut'
  BY <1>1 DEF IInv, TimerFires, Cut, Whole
<1>6. Held'
  <2>1. Single("PARSED", Queue')
    BY <1>1, SingleAppend DEF IInv, Held, TypeOK, Queue, Side, Event
  <2>2. In("PARSED", Queue') <=> In("PARSED", Queue)
    BY <1>1
  <2> QED BY <2>1, <2>2 DEF IInv, Held, TimerFires
<1> QED BY <1>1, <1>2, <1>3, <1>4, <1>5, <1>6 DEF IInv

-----------------------------------------------------------------------------
(* Steps of the module process that send nothing.                          *)

Frame == child = "up" /\ UNCHANGED <<planner, grace, destroyed, timer, medVars>>

\* The wire of the mediator is as it was.
LEMMA Quiet ==
  ASSUME IInv, Frame,
         UNCHANGED <<q["planner"], chan, pipe, wended, app, shut["module"]>>,
         result' = result \/ result = "none",
         shut'["planner"] => child' # "up", child' # "none"
  PROVE  /\ ToldOK' /\ Over' /\ Asked' /\ Cut' /\ Ordered' /\ Held'
         /\ (med = "RUN" => Expected /\ Truthful /\ Kept)'
<1>1. med \in {"RUN", "FIN"} /\ med # "DONE" /\ ~reaped /\ UNCHANGED <<med, told, reaped>>
  BY DEF IInv, Over, ToldOK, Frame, TypeOK, Ending
<1>2. ToldOK' /\ Over'
  BY <1>1 DEF IInv, ToldOK, Over, Frame, Whole
<1>3. UNCHANGED <<Queue, Wire, Sent, vparser, held>>
  BY DEF Queue, Wire, Sent, Frame
<1>4. Unranked' <=> Unranked
  BY <1>3 DEF Unranked
<1>5. Asked'
  BY DEF IInv, Asked, Frame
<1>6. Cut'
  BY <1>1, <1>3, <1>4 DEF IInv, Cut, Frame, Whole
<1>7. Ordered'
  BY <1>3 DEF IInv, Ordered
<1>8. Held'
  BY <1>3 DEF IInv, Held, Frame
<1>9. (SaveComing' <=> SaveComing) /\ \A e : Coming(e)' <=> Coming(e)
  BY <1>3 DEF SaveComing, Coming
<1>10. ASSUME med = "RUN" PROVE Expected' /\ Truthful' /\ Kept'
  <2>1. Expected /\ Truthful /\ Kept
    BY <1>10 DEF IInv
  <2>2. Expected'
    BY <1>1, <1>3, <1>4, <1>9, <2>1 DEF Expected
  <2>3. Truthful'
    BY <1>1, <1>3, <1>9, <2>1 DEF Truthful
  <2>4. app = "CLOSING" \/ app = "SAVEDONE" => result # "none"
    BY DEF IInv, App
  <2>5. Kept'
    BY <1>1, <1>3, <1>9, <2>1, <2>4 DEF Kept
  <2> QED BY <2>2, <2>3, <2>5
<1> QED BY <1>1, <1>2, <1>5, <1>6, <1>7, <1>8, <1>10

LEMMA SaveInv == ASSUME IInv, Frame, Save PROVE IInv'
<1>1. UNCHANGED <<q["planner"], chan, pipe, wended, app, shut["module"]>> /\ result' = result
      /\ child' = child /\ child = "up" /\ shut' = shut
  BY DEF Save, Frame
<1>2. shut'["planner"] => child' # "up"
  BY <1>1 DEF IInv, Cut
<1>3. TypeOK'
  BY DEF IInv, TypeOK, Save, SaveState, Frame
<1>4. App'
  BY <1>1 DEF IInv, App, Save
<1> QED BY <1>1, <1>2, <1>3, <1>4, Quiet DEF IInv

LEMMA SignalledInv == ASSUME IInv, Frame, Signalled PROVE IInv'
<1>1. UNCHANGED <<q["planner"], chan, pipe, wended, app, shut["module"]>> /\ result' = result
      /\ child' = child /\ child = "up" /\ shut' = shut
  BY DEF Signalled, Frame
<1>2. shut'["planner"] => child' # "up"
  BY <1>1 DEF IInv, Cut
<1>3. TypeOK'
  BY DEF IInv, TypeOK, Signalled, AskedAgain, SaveState, Frame
<1>4. App'
  BY <1>1 DEF IInv, App, Signalled, AskedAgain
<1> QED BY <1>1, <1>2, <1>3, <1>4, Quiet DEF IInv

\* The process ends.
LEMMA EndsInv ==
  ASSUME IInv, Frame, NEW how \in Ending, Ends(how)
  PROVE  /\ shut' \in [Side -> BOOLEAN] /\ shut'["module"] = shut["module"]
         /\ child' = how /\ child' \notin {"up", "none"}
  BY DEF IInv, TypeOK, Ends, Side, Ending

LEMMA DiesInv == ASSUME IInv, Frame, Dies PROVE IInv'
<1>1. UNCHANGED <<q["planner"], chan, pipe, wended, app, result>>
  BY DEF Dies
<1>2. PICK how \in Ending : Ends(how)
  BY DEF Dies, Ending
<1>3. /\ shut' \in [Side -> BOOLEAN] /\ shut'["module"] = shut["module"]
      /\ child' = how /\ child' \notin {"up", "none"}
  BY <1>2, EndsInv
<1>4. TypeOK'
  BY <1>3 DEF IInv, TypeOK, Dies, Frame
<1>5. App'
  BY <1>3 DEF IInv, App, Dies
<1> QED BY <1>1, <1>3, <1>4, <1>5, Quiet DEF IInv

\* The head of what waits for the application.
LEMMA ModulePopped ==
  ASSUME IInv, q["module"] # <<>>, q' = [q EXCEPT !["module"] = Tail(@)]
  PROVE  /\ q' \in [Side -> Seq(Event)] /\ q'["planner"] = q["planner"]
         /\ Head(q["module"]) \in Event
         /\ \A e : In(e, q["module"]) <=> In(e, q'["module"]) \/ e = Head(q["module"])
<1>1. q \in [Side -> Seq(Event)] /\ "module" \in Side /\ "planner" \in Side
  BY DEF IInv, TypeOK, Side
<1>2. q["module"] \in Seq(Event) /\ Tail(q["module"]) \in Seq(Event)
      /\ Head(q["module"]) \in Event
  BY <1>1
<1>3. q' \in [Side -> Seq(Event)] /\ q'["planner"] = q["planner"]
      /\ q'["module"] = Tail(q["module"])
  BY <1>1, <1>2
<1>4. \A e : In(e, q["module"]) <=> In(e, q'["module"]) \/ e = Head(q["module"])
  BY <1>2, <1>3, InTail
<1> QED BY <1>2, <1>3, <1>4

LEMMA AppDeafInv == ASSUME IInv, Frame, AppDeaf PROVE IInv'
<1>0. q["module"] # <<>> /\ q' = [q EXCEPT !["module"] = Tail(@)]
  BY DEF AppDeaf
<1>1. UNCHANGED <<q["planner"], chan, pipe, wended, app, shut["module"]>> /\ result' = result
      /\ child' = child /\ child = "up" /\ shut' = shut
  BY <1>0, ModulePopped DEF AppDeaf, Frame
<1>2. shut'["planner"] => child' # "up"
  BY <1>1 DEF IInv, Cut
<1>3. TypeOK'
  BY <1>0, ModulePopped DEF IInv, TypeOK, AppDeaf, AskedAgain, SaveState, Frame
<1>4. App'
  BY <1>0, <1>1, ModulePopped DEF IInv, App, AppDeaf, AskedAgain
<1> QED BY <1>1, <1>2, <1>3, <1>4, Quiet DEF IInv

LEMMA AppClosingInv == ASSUME IInv, Frame, AppClosing PROVE IInv'
<1>0. q["module"] # <<>> /\ q' = [q EXCEPT !["module"] = Tail(@)] /\ child = "up"
  BY DEF AppClosing, Frame
<1>1. UNCHANGED <<q["planner"], chan, pipe, wended, app, result, saved, appPipe, runner>>
  BY <1>0, ModulePopped DEF AppClosing
<1>2. /\ shut' \in [Side -> BOOLEAN] /\ shut'["module"] = shut["module"]
      /\ shut'["planner"] => child' # "up"
      /\ child' \in {"up", "exited"}
  <2>1. CASE Ends("exited")
    BY <2>1, EndsInv DEF Ending
  <2>2. CASE child' = child /\ shut' = shut
    BY <1>0, <2>2 DEF IInv, TypeOK, Cut
  <2>3. Ends("exited") \/ (child' = child /\ shut' = shut)
    BY DEF AppClosing
  <2> QED BY <2>1, <2>2, <2>3
<1>3. TypeOK'
  <2>1. q' \in [Side -> Seq(Event)]
    BY <1>0, ModulePopped
  <2>2. runnerTold' = runnerTold
    BY DEF AppClosing
  <2> QED BY <1>1, <1>2, <2>1, <2>2 DEF IInv, TypeOK, Frame, Ending
<1>4. App'
  BY <1>0, <1>1, <1>2, ModulePopped DEF IInv, App, AppClosing
<1> QED BY <1>1, <1>2, <1>3, <1>4, Quiet DEF IInv

LEMMA RunnerInv == ASSUME IInv, Frame, Runner PROVE IInv'
<1>0. /\ q' \in [Side -> Seq(Event)] /\ q'["planner"] = q["planner"]
      /\ \A e : In(e, q'["module"]) <=> In(e, q["module"]) \/ e = "RESULT"
  <2>1. q \in [Side -> Seq(Event)] /\ "module" \in Side /\ "planner" \in Side
        /\ "RESULT" \in Event
    BY DEF IInv, TypeOK, Side, Event
  <2>2. q["module"] \in Seq(Event) /\ Append(q["module"], "RESULT") \in Seq(Event)
    BY <2>1
  <2>3. q' = [q EXCEPT !["module"] = Append(@, "RESULT")]
    BY DEF Runner
  <2>4. q' \in [Side -> Seq(Event)] /\ q'["planner"] = q["planner"]
        /\ q'["module"] = Append(q["module"], "RESULT")
    BY <2>1, <2>2, <2>3
  <2>5. \A e : In(e, q'["module"]) <=> In(e, q["module"]) \/ e = "RESULT"
    BY <2>1, <2>2, <2>4, InAppend
  <2> QED BY <2>4, <2>5
<1>1. /\ UNCHANGED <<q["planner"], chan, pipe, wended, app, shut, child>>
      /\ result = "none" /\ child = "up" /\ runner # "over"
  BY <1>0 DEF Runner, Frame, IInv, App
<1>2. shut'["planner"] => child' # "up"
  BY <1>1 DEF IInv, Cut
<1>3. result' \in {"stream", "value", "error"}
  BY ConstantsAssumption DEF Runner
<1>4. TypeOK'
  BY <1>0, <1>3 DEF IInv, TypeOK, Runner, Frame
<1>5. App'
  BY <1>0, <1>1, <1>3 DEF IInv, App, Runner
<1> QED BY <1>1, <1>2, <1>4, <1>5, Quiet DEF IInv

-----------------------------------------------------------------------------
(* Steps of the module process that send.                                  *)

\* The order of what is on its way, when n is the rank of what was sent last.
Ordering(queue, wire, n) ==
    /\ Increasing(queue) /\ Increasing(wire)
    /\ \A e \in Event, r \in Record : In(e, queue) /\ In(r, wire) => Rank(e) < Rank(r)
    /\ \A r \in Record : In(r, wire) => Rank(r) \in 0..n
    /\ \A e \in Event : In(e, queue) => Rank(e) <= n

\* One more report on the wire, later than those before.
LEMMA SendsOne ==
  ASSUME NEW queue \in Seq(Event), NEW wire \in Seq(Record), NEW n \in Int, NEW x \in Record,
         NEW k \in Nat, Rank(x) = k, k > n, Ordering(queue, wire, n)
  PROVE  /\ Append(wire, x) \in Seq(Record)
         /\ Ordering(queue, Append(wire, x), k)
         /\ \A e : In(e, Append(wire, x)) <=> In(e, wire) \/ e = x
         /\ wire # <<>> => /\ Append(wire, x) # <<>>
                           /\ Head(Append(wire, x)) = Head(wire)
<1>1. /\ Append(wire, x) \in Seq(Record)
      /\ wire # <<>> => Append(wire, x) # <<>> /\ Head(Append(wire, x)) = Head(wire)
  OBVIOUS
<1>2. \A e : In(e, Append(wire, x)) <=> In(e, wire) \/ e = x
  BY InAppend
<1>3. Rank(x) \in Int /\ \A e : Rank(e) \in Int
  BY RankType
<1>4. Increasing(Append(wire, x))
  <2>1. \A r \in Record : In(r, wire) => Rank(r) < Rank(x)
    BY <1>3 DEF Ordering
  <2> QED BY <2>1, IncreasingAppend DEF Ordering
<1>5. ASSUME NEW e \in Event, NEW r \in Record, In(e, queue), In(r, Append(wire, x))
      PROVE  Rank(e) < Rank(r)
  BY <1>2, <1>3, <1>5 DEF Ordering
<1>6. ASSUME NEW r \in Record, In(r, Append(wire, x)) PROVE Rank(r) \in 0..Rank(x)
  BY <1>2, <1>3, <1>6 DEF Ordering
<1>7. ASSUME NEW e \in Event, In(e, queue) PROVE Rank(e) <= Rank(x)
  BY <1>3, <1>7 DEF Ordering
<1> QED BY <1>1, <1>2, <1>4, <1>5, <1>6, <1>7 DEF Ordering

\* A bound of the ranks may be raised.
LEMMA OrderingLoose ==
  ASSUME NEW queue, NEW wire, NEW n \in Int, NEW m \in Int, n <= m, Ordering(queue, wire, n)
  PROVE  Ordering(queue, wire, m)
<1>1. \A e : Rank(e) \in Int
  BY RankType
<1> QED BY <1>1 DEF Ordering

\* Ordered, said of the queue and the wire there are.
LEMMA OrderingIsOrdered == ASSUME Ordering(Queue, Wire, Sent) PROVE Ordered
  BY DEF Ordering, Ordered

\* An application that has not closed talks to a mediator that listens.
LEMMA Speaking ==
  ASSUME IInv, Frame, app # "CLOSING"
  PROVE  /\ med = "RUN" /\ med' = "RUN" /\ pipe["planner"] \in {"HELLO", "HDR"} /\ medPipe
         /\ Ordering(Queue, Wire, Sent) /\ Queue \in Seq(Event) /\ Wire \in Seq(Record)
         /\ Expected /\ Truthful /\ Kept
         /\ UNCHANGED <<planner, grace, destroyed, timer, medVars>>
<1>1. med = "RUN" /\ UNCHANGED <<planner, grace, destroyed, timer, medVars>>
  BY DEF IInv, Over, Frame, TypeOK
<1>2. pipe["planner"] \in {"HELLO", "HDR"} /\ medPipe
  BY <1>1 DEF IInv, Cut, Frame, TypeOK, Side
<1>3. Ordering(Queue, Wire, Sent)
  BY <1>2 DEF IInv, Ordered, Ordering
<1>4. Queue \in Seq(Event) /\ Wire \in Seq(Record)
  BY DEF IInv, TypeOK, Queue, Wire, Side
<1> QED BY <1>1, <1>2, <1>3, <1>4 DEF IInv

\* What a step of it leaves as it was.
LEMMA SpeakingKeeps ==
  ASSUME IInv, Frame, app # "CLOSING", app' # "INI",
         UNCHANGED <<q["planner"], pipe, shut, child, wended["planner"], chan["module"]>>
  PROVE  /\ Over' /\ Asked' /\ Held' /\ Cut'
         /\ UNCHANGED <<Queue, Unranked>>
         /\ ~shut["planner"]
<1>1. child = "up" /\ child' = "up" /\ med = "RUN" /\ med' = "RUN"
      /\ pipe["planner"] \in {"HELLO", "HDR"} /\ medPipe
      /\ UNCHANGED <<planner, grace, destroyed, timer, medVars>>
  BY Speaking DEF Frame
<1>2. UNCHANGED <<Queue, Unranked>>
  BY DEF Queue, Unranked
<1>3. Over'
  BY <1>1 DEF IInv, Over
<1>4. Asked'
  BY <1>1 DEF IInv, Asked
<1>5. Held'
  BY <1>1, <1>2 DEF IInv, Held
<1>6. Cut' /\ ~shut["planner"]
  BY <1>1 DEF IInv, Cut, Whole
<1> QED BY <1>2, <1>3, <1>4, <1>5, <1>6

\* The ranks of the reports.
LEMMA SaveBeginRank == Rank("SAVE_STREAM") = 1 /\ Rank("SAVE_VALUE") = 1 /\ Rank("ERROR") = 1
  BY DEF Rank

LEMMA OtherRanks ==
  /\ Rank("HELLO") = 0 /\ Rank("ASSERT") = 0 /\ Rank("SAVE_DONE") = 2 /\ Rank("BYE") = 3
  /\ Rank("END") = 4 /\ Rank("EOF") = 5 /\ Rank("RETURN_OK") = 6 /\ Rank("RETURN_ERR") = 6
  /\ Rank("REQ") = -1 /\ Rank("PARSED") = -1 /\ Rank("TIMER") = -1
  /\ Rank("DESTROY") = -1 /\ Rank("RESULT") = -1
  BY DEF Rank

\* What the end of the process writes.
LEMMA SendsIs ==
  ASSUME IInv, NEW records \in Seq(Record), Sends("module", records)
  PROVE  /\ chan' \in [Side -> Seq(Record)] /\ wended' \in [Side -> BOOLEAN]
         /\ UNCHANGED <<chan["module"], wended["planner"]>>
         /\ wended'["module"] = (wended["module"] \/ Last(records) = "END")
         /\ Wire' = IF pipe["module"] = "FIN" THEN Wire ELSE Wire \o records
<1>1. chan \in [Side -> Seq(Record)] /\ wended \in [Side -> BOOLEAN]
      /\ "planner" \in Side /\ "module" \in Side /\ Other("module") = "planner"
  BY DEF IInv, TypeOK, Side, Other
<1>2. chan' = [chan EXCEPT !["planner"] = IF pipe["module"] = "FIN" THEN @ ELSE @ \o records]
      /\ wended' = [wended EXCEPT !["module"] = @ \/ Last(records) = "END"]
  BY <1>1 DEF Sends
<1>3. chan["planner"] \o records \in Seq(Record)
  BY <1>1
<1>4. chan' \in [Side -> Seq(Record)] /\ chan'["module"] = chan["module"]
      /\ chan'["planner"] = IF pipe["module"] = "FIN" THEN chan["planner"]
                            ELSE chan["planner"] \o records
  BY <1>1, <1>2, <1>3
<1>5. wended' \in [Side -> BOOLEAN] /\ wended'["planner"] = wended["planner"]
      /\ wended'["module"] = (wended["module"] \/ Last(records) = "END")
  BY <1>1, <1>2
<1> QED BY <1>4, <1>5 DEF Wire

LEMMA AppIniInv == ASSUME IInv, Frame, AppIni PROVE IInv'
<1>0. /\ app = "INI" /\ UNCHANGED <<appPipe, result, saved, runner, runnerTold, pipe, wended, q>>
      /\ child = "up"
  BY DEF AppIni, Frame
<1>1. CASE (\E how \in {"exited", "failed", "mismatch"} : Ends(how)) /\ app' = app /\ chan' = chan
  <2>1. /\ shut' \in [Side -> BOOLEAN] /\ shut'["module"] = shut["module"]
        /\ child' \in Ending /\ child' \notin {"up", "none"}
    <3>1. PICK how \in Ending : Ends(how)
      BY <1>1 DEF Ending
    <3> QED BY <3>1, EndsInv
  <2>2. TypeOK'
    BY <1>0, <1>1, <2>1 DEF IInv, TypeOK, Frame
  <2>3. App'
    BY <1>0, <1>1, <2>1 DEF IInv, App
  <2> QED BY <1>0, <1>1, <2>1, <2>2, <2>3, Quiet DEF IInv
<1>2. CASE /\ app' = "START" /\ chan' = [chan EXCEPT !["planner"] = <<"HELLO">>]
           /\ child' = child /\ shut' = shut
  <2>1. /\ chan' \in [Side -> Seq(Record)] /\ Wire' = <<"HELLO">> /\ chan'["module"] = chan["module"]
        /\ "HELLO" \in Record
    <3>1. <<"HELLO">> \in Seq(Record) /\ "planner" \in Side /\ "module" \in Side
          /\ "HELLO" \in Record
      BY DEF Record, Side
    <3> QED BY <1>2, <3>1 DEF IInv, TypeOK, Wire
  <2>2. /\ med = "RUN" /\ med' = "RUN" /\ pipe["planner"] = "HELLO"
        /\ Ordering(Queue, Wire, -1) /\ Queue \in Seq(Event) /\ Wire \in Seq(Record)
        /\ Expected /\ Truthful /\ Kept /\ Sent' = 0
        /\ UNCHANGED <<planner, grace, destroyed, timer, medVars>>
    BY <1>0, <1>2, Speaking, SentIs DEF IInv, Over, Sent
  <2>3. /\ Over' /\ Asked' /\ Held' /\ Cut'
        /\ UNCHANGED <<Queue, Unranked>>
    BY <1>0, <1>2, <2>1, SpeakingKeeps
  <2>4. /\ \A e : In(e, Wire') <=> In(e, Wire) \/ e = "HELLO"
        /\ Ordering(Queue, Wire', 0)
    <3>1. Wire = <<>>
      <4>1. ASSUME Wire # <<>> PROVE FALSE
        BY <2>2, <4>1, InTail DEF Ordering
      <4> QED BY <4>1
    <3>2. Wire' = Append(Wire, "HELLO")
      BY <2>1, <3>1
    <3>3. Rank("HELLO") = 0 /\ -1 \in Int /\ 0 \in Nat /\ 0 > -1 /\ "HELLO" \in Record
      BY <2>1, OtherRanks
    <3>4. /\ Ordering(Queue, Append(Wire, "HELLO"), 0)
          /\ \A e : In(e, Append(Wire, "HELLO")) <=> In(e, Wire) \/ e = "HELLO"
      BY <2>2, <3>3, SendsOne
    <3> QED BY <3>2, <3>4
  <2>5. TypeOK'
    BY <1>0, <1>2, <2>1 DEF IInv, TypeOK, Frame
  <2>6. ToldOK'
    BY <1>2, <2>2 DEF IInv, ToldOK
  <2>7. App'
    BY <1>0, <1>2 DEF IInv, App
  <2>8. Ordered'
    BY <2>2, <2>3, <2>4 DEF Ordering, Ordered
  <2>9. (\A e \in Packet : Coming(e)' <=> Coming(e)) /\ (SaveComing' <=> SaveComing)
    BY <2>3, <2>4 DEF Coming, SaveComing, Packet
  <2>10. Expected'
    BY <1>0, <1>2, <2>1, <2>2, <2>3, <2>9 DEF Expected, Packet
  <2>11. Truthful' /\ Kept'
    BY <1>0, <1>2, <2>2, <2>9 DEF Truthful, Kept, Packet
  <2> QED BY <2>3, <2>5, <2>6, <2>7, <2>8, <2>10, <2>11 DEF IInv
<1>3. \/ (\E how \in {"exited", "failed", "mismatch"} : Ends(how)) /\ app' = app /\ chan' = chan
      \/ /\ app' = "START" /\ chan' = [chan EXCEPT !["planner"] = <<"HELLO">>]
         /\ child' = child /\ shut' = shut
  BY DEF AppIni
<1> QED BY <1>1, <1>2, <1>3

\* Two more reports on the wire, and three.
LEMMA SendsTwo ==
  ASSUME NEW queue \in Seq(Event), NEW wire \in Seq(Record), NEW n \in Int,
         NEW x \in Record, NEW y \in Record, NEW k \in Nat, NEW l \in Nat,
         Rank(x) = k, Rank(y) = l, k > n, l > k, Ordering(queue, wire, n)
  PROVE  /\ Ordering(queue, wire \o <<x, y>>, l) /\ wire \o <<x, y>> \in Seq(Record)
         /\ \A e : In(e, wire \o <<x, y>>) <=> In(e, wire) \/ e \in {x, y}
         /\ wire # <<>> => wire \o <<x, y>> # <<>> /\ Head(wire \o <<x, y>>) = Head(wire)
<1>1. wire \o <<x, y>> = Append(Append(wire, x), y)
  BY Concats
<1>2. /\ Ordering(queue, Append(wire, x), k) /\ Append(wire, x) \in Seq(Record)
      /\ \A e : In(e, Append(wire, x)) <=> In(e, wire) \/ e = x
      /\ wire # <<>> => Append(wire, x) # <<>> /\ Head(Append(wire, x)) = Head(wire)
  BY SendsOne
<1> DEFINE w == Append(wire, x)
<1> HIDE DEF w
<1>3. /\ Ordering(queue, Append(w, y), l) /\ Append(w, y) \in Seq(Record)
      /\ \A e : In(e, Append(w, y)) <=> In(e, w) \/ e = y
      /\ w # <<>> => Append(w, y) # <<>> /\ Head(Append(w, y)) = Head(w)
  <2>1. k \in Int /\ w \in Seq(Record) /\ Ordering(queue, w, k)
    BY <1>2 DEF w
  <2> QED BY <2>1, SendsOne
<1> QED BY <1>1, <1>2, <1>3 DEF w

LEMMA SendsThree ==
  ASSUME NEW queue \in Seq(Event), NEW wire \in Seq(Record), NEW n \in Int,
         NEW x \in Record, NEW y \in Record, NEW z \in Record,
         Rank(x) >= 0, Rank(x) > n, Rank(y) > Rank(x), Rank(z) > Rank(y), Ordering(queue, wire, n)
  PROVE  /\ Ordering(queue, wire \o <<x, y, z>>, Rank(z)) /\ wire \o <<x, y, z>> \in Seq(Record)
         /\ \A e : In(e, wire \o <<x, y, z>>) <=> In(e, wire) \/ e \in {x, y, z}
         /\ wire # <<>> => wire \o <<x, y, z>> # <<>> /\ Head(wire \o <<x, y, z>>) = Head(wire)
<1> DEFINE w == wire \o <<x, y>>
<1>1. wire \o <<x, y, z>> = Append(w, z)
  BY Concats
<1>2. Rank(x) \in Nat /\ Rank(y) \in Nat /\ Rank(z) \in Nat
  BY RankType
<1>3. /\ Ordering(queue, w, Rank(y)) /\ w \in Seq(Record)
      /\ \A e : In(e, w) <=> In(e, wire) \/ e \in {x, y}
      /\ wire # <<>> => w # <<>> /\ Head(w) = Head(wire)
  BY <1>2, SendsTwo
<1> HIDE DEF w
<1>4. /\ Ordering(queue, Append(w, z), Rank(z)) /\ Append(w, z) \in Seq(Record)
      /\ \A e : In(e, Append(w, z)) <=> In(e, w) \/ e = z
      /\ w # <<>> => Append(w, z) # <<>> /\ Head(Append(w, z)) = Head(w)
  <2>1. Rank(y) \in Int
    BY <1>2
  <2> QED BY <1>2, <1>3, <2>1, SendsOne
<1> QED BY <1>1, <1>3, <1>4

\* What an event in ACT_START does to the application's wire and to its agent.
LEMMA AppStartEvents ==
  ASSUME IInv, AppStart
  PROVE  /\ q' \in [Side -> Seq(Event)] /\ q'["planner"] = q["planner"]
         /\ appPipe' \in BOOLEAN /\ runnerTold' \in BOOLEAN /\ runner' \in {"wait", "calc", "over"}
         /\ ~appPipe' \/ In("RETURN_OK", q'["module"]) \/ In("RETURN_ERR", q'["module"])
               => pipe["module"] = "FIN"
         /\ runner' # "over" => result = "none" /\ ~In("RESULT", q'["module"])
         /\ runner' = "over" => result # "none"
         /\ Head(q["module"]) = "RESULT" => result # "none"
<1> DEFINE ev == Head(q["module"])
<1>1. /\ q["module"] # <<>> /\ q' = [q EXCEPT !["module"] = Tail(@)]
      /\ appPipe' = (appPipe /\ ~(ev \in {"RETURN_OK", "RETURN_ERR"}))
      /\ runnerTold' = (runnerTold \/ ev = "EOF" \/ ~appPipe')
      /\ runner' = IF ev = "REQ" /\ runner = "wait" THEN "calc" ELSE runner
  BY DEF AppStart
<1>2. /\ q' \in [Side -> Seq(Event)] /\ q'["planner"] = q["planner"]
      /\ \A e : In(e, q["module"]) <=> In(e, q'["module"]) \/ e = ev
  BY <1>1, ModulePopped
<1> HIDE DEF ev
<1>3. /\ ~appPipe \/ In("RETURN_OK", q["module"]) \/ In("RETURN_ERR", q["module"])
               => pipe["module"] = "FIN"
      /\ runner # "over" => result = "none" /\ ~In("RESULT", q["module"])
      /\ runner = "over" => result # "none"
      /\ appPipe \in BOOLEAN /\ runnerTold \in BOOLEAN /\ runner \in {"wait", "calc", "over"}
  BY DEF IInv, App, TypeOK
<1>4. ~appPipe' \/ In("RETURN_OK", q'["module"]) \/ In("RETURN_ERR", q'["module"])
               => pipe["module"] = "FIN"
  BY <1>1, <1>2, <1>3
<1>5. /\ runner' # "over" => result = "none" /\ ~In("RESULT", q'["module"])
      /\ runner' = "over" => result # "none"
      /\ ev = "RESULT" => result # "none"
  BY <1>1, <1>2, <1>3
<1>6. appPipe' \in BOOLEAN /\ runnerTold' \in BOOLEAN /\ runner' \in {"wait", "calc", "over"}
  BY <1>1, <1>3
<1> QED BY <1>2, <1>4, <1>5, <1>6 DEF ev

\* A process that has nothing to say goes on, or ends.
LEMMA AppStartQuietInv ==
  ASSUME IInv, Frame, AppStart, app' = app, chan' = chan, wended' = wended,
         Ends("exited") \/ (child' = child /\ shut' = shut)
  PROVE  IInv'
<1>1. UNCHANGED <<q["planner"], chan, pipe, wended, app, result, saved>> /\ child = "up"
      /\ app = "START"
  BY AppStartEvents DEF AppStart, Frame
<1>2. /\ shut' \in [Side -> BOOLEAN] /\ shut'["module"] = shut["module"]
      /\ shut'["planner"] => child' # "up"
      /\ child' \in {"up", "exited"}
  <2>1. CASE Ends("exited")
    BY <2>1, EndsInv DEF Ending
  <2>2. CASE child' = child /\ shut' = shut
    BY <1>1, <2>2 DEF IInv, TypeOK, Cut
  <2> QED BY <2>1, <2>2
<1>3. TypeOK'
  BY <1>1, <1>2, AppStartEvents DEF IInv, TypeOK, Frame, Ending
<1>4. App'
  BY <1>1, <1>2, AppStartEvents DEF IInv, App
<1> QED BY <1>1, <1>2, <1>3, <1>4, Quiet DEF IInv

\* The calculation has given a value: its save begins.
LEMMA AppStartValueInv ==
  ASSUME IInv, Frame, AppStart, Head(q["module"]) = "RESULT", result # "error",
         app' = "SAVEBEGIN", UNCHANGED <<child, shut, chan, wended>>
  PROVE  IInv'
<1>1. app = "START" /\ UNCHANGED <<pipe, result, saved, chan, wended, shut, child>>
  BY DEF AppStart
<1>2. /\ med = "RUN" /\ med' = "RUN" /\ pipe["planner"] \in {"HELLO", "HDR"}
      /\ Expected /\ Truthful /\ Kept /\ Ordering(Queue, Wire, Sent)
      /\ UNCHANGED <<planner, grace, destroyed, timer, medVars>>
  BY <1>1, Speaking
<1>3. /\ Over' /\ Asked' /\ Held' /\ Cut'
      /\ UNCHANGED <<Queue, Unranked>>
  BY <1>1, AppStartEvents, SpeakingKeeps
<1>4. TypeOK'
  BY <1>1, <1>2, AppStartEvents DEF IInv, TypeOK
<1>5. ToldOK'
  BY <1>2 DEF IInv, ToldOK
<1>6. result \in {"stream", "value"}
  BY AppStartEvents DEF IInv, TypeOK
<1>7. App'
  BY <1>1, <1>6, AppStartEvents DEF IInv, App
<1>8. Wire' = Wire /\ Sent' = Sent
  BY <1>1 DEF Wire, Sent
<1>9. Ordered'
  BY <1>2, <1>3, <1>8 DEF Ordering, Ordered
<1>10. (SaveComing' <=> SaveComing) /\ \A e : Coming(e)' <=> Coming(e)
  BY <1>3, <1>8 DEF SaveComing, Coming
<1>11. Expected'
  BY <1>1, <1>2, <1>3, <1>8, <1>10 DEF Expected
<1>12. Truthful' /\ Kept'
  BY <1>1, <1>2, <1>10 DEF Truthful, Kept
<1> QED BY <1>3, <1>4, <1>5, <1>7, <1>9, <1>11, <1>12 DEF IInv

\* It has given none: the error is sent.
LEMMA AppStartErrorInv ==
  ASSUME IInv, Frame, AppStart, Head(q["module"]) = "RESULT", result = "error",
         app' = "CLOSING", Sends("module", <<"ERROR", "END">>), UNCHANGED <<child, shut>>
  PROVE  IInv'
<1>1. app = "START" /\ UNCHANGED <<pipe, result, saved, shut, child>>
  BY DEF AppStart
<1>2. /\ med = "RUN" /\ med' = "RUN" /\ pipe["planner"] \in {"HELLO", "HDR"}
      /\ Expected /\ Truthful /\ Kept /\ Ordering(Queue, Wire, 0)
      /\ Queue \in Seq(Event) /\ Wire \in Seq(Record)
      /\ UNCHANGED <<planner, grace, destroyed, timer, medVars>> /\ Sent' = 4
  BY <1>1, Speaking, SentIs DEF Sent
<1>3. /\ chan' \in [Side -> Seq(Record)] /\ wended' \in [Side -> BOOLEAN]
      /\ UNCHANGED <<chan["module"], wended["planner"]>>
      /\ wended'["module"]
      /\ Wire' = IF pipe["module"] = "FIN" THEN Wire ELSE Wire \o <<"ERROR", "END">>
  <2>1. <<"ERROR", "END">> \in Seq(Record)
    BY DEF Record, Packet
  <2>2. Last(<<"ERROR", "END">>) = "END"
    BY Lasts
  <2> QED BY <2>1, <2>2, SendsIs
<1>4. /\ Over' /\ Asked' /\ Held' /\ Cut'
      /\ UNCHANGED <<Queue, Unranked>>
  BY <1>1, <1>3, AppStartEvents, SpeakingKeeps
<1>5. /\ Ordering(Queue, Wire', 4)
      /\ \A e : In(e, Wire') <=> In(e, Wire) \/ (pipe["module"] # "FIN" /\ e \in {"ERROR", "END"})
      /\ Wire # <<>> => Wire' # <<>> /\ Head(Wire') = Head(Wire)
  <2>1. /\ Rank("ERROR") = 1 /\ Rank("END") = 4 /\ "ERROR" \in Record /\ "END" \in Record
        /\ 0 \in Int /\ 1 \in Nat /\ 4 \in Nat /\ 1 > 0 /\ 4 > 1
    BY SaveBeginRank, OtherRanks DEF Record, Packet
  <2>2. CASE pipe["module"] = "FIN"
    BY <1>2, <1>3, <2>2, OrderingLoose
  <2>3. CASE pipe["module"] # "FIN"
    BY <1>2, <1>3, <2>1, <2>3, SendsTwo
  <2> QED BY <2>2, <2>3
<1>6. TypeOK'
  BY <1>1, <1>2, <1>3, AppStartEvents DEF IInv, TypeOK
<1>7. ToldOK'
  BY <1>2 DEF IInv, ToldOK
<1>8. App'
  BY <1>1, <1>3, AppStartEvents DEF IInv, App
<1>9. Ordered'
  BY <1>2, <1>4, <1>5 DEF Ordering, Ordered
<1>10. /\ \A e \in Packet \ {"ERROR"} : Coming(e)' <=> Coming(e)
       /\ SaveComing' <=> SaveComing
       /\ Coming("ERROR")' <=> Coming("ERROR") \/ pipe["module"] # "FIN"
  BY <1>4, <1>5 DEF Coming, SaveComing, Packet
<1>11. told \in {<<>>, A} /\ ~vparser
  BY <1>1, <1>2 DEF IInv, ToldOK, Reported, Truthful
<1>12. Expected'
  BY <1>1, <1>2, <1>4, <1>5, <1>10, <1>11 DEF Expected, Packet
<1>13. Truthful'
  BY <1>1, <1>2, <1>10, <1>11 DEF Truthful, Packet
<1>14. Kept'
  <2>1. pipe["module"] = "FIN" => shut["module"]
    BY <1>1 DEF IInv, App
  <2> QED BY <1>1, <1>10, <2>1 DEF Kept
<1> QED BY <1>4, <1>6, <1>7, <1>8, <1>9, <1>12, <1>13, <1>14 DEF IInv

LEMMA AppStartInv == ASSUME IInv, Frame, AppStart PROVE IInv'
<1>1. CASE /\ app' = app /\ chan' = chan /\ wended' = wended
           /\ Ends("exited") \/ (child' = child /\ shut' = shut)
  BY <1>1, AppStartQuietInv
<1>2. CASE /\ Head(q["module"]) = "RESULT" /\ result # "error" /\ app' = "SAVEBEGIN"
           /\ UNCHANGED <<child, shut, chan, wended>>
  BY <1>2, AppStartValueInv
<1>3. CASE /\ Head(q["module"]) = "RESULT" /\ result = "error" /\ app' = "CLOSING"
           /\ Sends("module", <<"ERROR", "END">>) /\ UNCHANGED <<child, shut>>
  BY <1>3, AppStartErrorInv
<1>4. CASE Head(q["module"]) = "RESULT" /\ result = "error"
  <2>1. CloseWith(<<"ERROR", "END">>)
    BY <1>4 DEF AppStart
  <2> QED BY <1>1, <1>3, <1>4, <2>1 DEF CloseWith
<1>5. CASE Head(q["module"]) = "RESULT" /\ result # "error"
  BY <1>2, <1>5 DEF AppStart
<1>6. CASE Head(q["module"]) # "RESULT"
  BY <1>1, <1>6 DEF AppStart
<1> QED BY <1>4, <1>5, <1>6

\* The save has begun: the result is announced.
LEMMA AppSaveBeginInv == ASSUME IInv, Frame, AppSaveBegin PROVE IInv'
<1> DEFINE x == IF result = "value" THEN "SAVE_VALUE" ELSE "SAVE_STREAM"
<1>1. /\ app = "SAVEBEGIN" /\ app' = "SAVEDONE" /\ q' = q
      /\ UNCHANGED <<appPipe, pipe, result, saved, runner, runnerTold, shut, child>>
  BY DEF AppSaveBegin
<1>2. /\ med = "RUN" /\ med' = "RUN" /\ pipe["planner"] \in {"HELLO", "HDR"}
      /\ Expected /\ Truthful /\ Kept /\ Ordering(Queue, Wire, 0)
      /\ Queue \in Seq(Event) /\ Wire \in Seq(Record)
      /\ UNCHANGED <<planner, grace, destroyed, timer, medVars>> /\ Sent' = 1
  BY <1>1, Speaking, SentIs DEF Sent
<1>3. /\ chan' \in [Side -> Seq(Record)] /\ wended' \in [Side -> BOOLEAN]
      /\ UNCHANGED <<chan["module"], wended["planner"], wended["module"]>>
      /\ Wire' = IF appPipe /\ pipe["module"] # "FIN" THEN Wire \o <<x>> ELSE Wire
  <2>1. CASE appPipe
    <3>1. <<x>> \in Seq(Record)
      BY DEF Record, Packet
    <3>4. x # "END"
      OBVIOUS
    <3>2. Last(<<x>>) # "END" /\ wended["module"] \in BOOLEAN
      <4> HIDE DEF x
      <4>1. Last(<<x>>) = x
        BY DEF Last
      <4> QED BY <3>4, <4>1 DEF IInv, TypeOK, Side
    <3>3. Sends("module", <<x>>)
      BY <2>1 DEF AppSaveBegin
    <3> HIDE DEF x
    <3> QED BY <2>1, <3>1, <3>2, <3>3, SendsIs
  <2>2. CASE ~appPipe
    BY <2>2 DEF AppSaveBegin, Wire, IInv, TypeOK
  <2> QED BY <2>1, <2>2
<1>4. /\ Over' /\ Asked' /\ Held' /\ Cut'
      /\ UNCHANGED <<Queue, Unranked>>
  BY <1>1, <1>3, SpeakingKeeps
<1>5. /\ Ordering(Queue, Wire', 1)
      /\ \A e : In(e, Wire') <=> In(e, Wire) \/ (appPipe /\ pipe["module"] # "FIN" /\ e = x)
      /\ Wire # <<>> => Wire' # <<>> /\ Head(Wire') = Head(Wire)
  <2>1. /\ Rank(x) = 1 /\ x \in Record /\ 0 \in Int /\ 1 \in Nat /\ 1 > 0 /\ 1 \in Int /\ 0 <= 1
    BY SaveBeginRank DEF Record, Packet
  <2> HIDE DEF x
  <2>2. CASE ~(appPipe /\ pipe["module"] # "FIN")
    BY <1>2, <1>3, <2>1, <2>2, OrderingLoose
  <2>3. CASE appPipe /\ pipe["module"] # "FIN"
    <3>1. Wire' = Append(Wire, x)
      BY <1>2, <1>3, <2>1, <2>3, Concats
    <3> QED BY <1>2, <2>1, <2>3, <3>1, SendsOne
  <2> QED BY <2>2, <2>3
<1>6. TypeOK'
  BY <1>1, <1>2, <1>3 DEF IInv, TypeOK
<1>7. ToldOK'
  BY <1>2 DEF IInv, ToldOK
<1>8. App'
  BY <1>1, <1>3 DEF IInv, App
<1>9. Ordered'
  BY <1>2, <1>4, <1>5 DEF Ordering, Ordered
<1>10. /\ \A e \in Packet \ {"SAVE_VALUE", "SAVE_STREAM"} : Coming(e)' <=> Coming(e)
       /\ SaveComing' <=> SaveComing \/ (appPipe /\ pipe["module"] # "FIN")
  BY <1>4, <1>5 DEF Coming, SaveComing, Packet
<1>11. told \in {<<>>, A} /\ ~vparser
  BY <1>1, <1>2 DEF IInv, ToldOK, Reported, Truthful
<1>12. Expected'
  BY <1>1, <1>2, <1>4, <1>5, <1>10, <1>11 DEF Expected, Packet
<1>13. Truthful'
  BY <1>1, <1>2, <1>10, <1>11 DEF Truthful, Packet, IInv, App
<1>14. Kept'
  <2>1. ~(appPipe /\ pipe["module"] # "FIN") => pipe["module"] = "FIN" /\ shut["module"]
    BY <1>1 DEF IInv, App
  <2> QED BY <1>1, <1>10, <2>1 DEF Kept
<1> QED BY <1>4, <1>6, <1>7, <1>8, <1>9, <1>12, <1>13, <1>14 DEF IInv

\* The save is over, and the wire told of it.
LEMMA AppSaveDoneSendsInv ==
  ASSUME IInv, Frame, AppSaveDone, app' = "CLOSING",
         Sends("module", <<"SAVE_DONE", "BYE", "END">>), UNCHANGED <<child, shut>>
  PROVE  IInv'
<1>1. /\ app = "SAVEDONE" /\ saved \in {"all", "found"} /\ q' = q
      /\ UNCHANGED <<appPipe, pipe, result, saved, runner, runnerTold, shut, child>>
  BY DEF AppSaveDone
<1>2. /\ med = "RUN" /\ med' = "RUN" /\ pipe["planner"] \in {"HELLO", "HDR"}
      /\ Expected /\ Truthful /\ Kept /\ Ordering(Queue, Wire, 1)
      /\ Queue \in Seq(Event) /\ Wire \in Seq(Record)
      /\ UNCHANGED <<planner, grace, destroyed, timer, medVars>> /\ Sent' = 4
  BY <1>1, Speaking, SentIs DEF Sent
<1>3. /\ chan' \in [Side -> Seq(Record)] /\ wended' \in [Side -> BOOLEAN]
      /\ UNCHANGED <<chan["module"], wended["planner"]>>
      /\ wended'["module"]
      /\ Wire' = IF pipe["module"] = "FIN" THEN Wire ELSE Wire \o <<"SAVE_DONE", "BYE", "END">>
  <2>1. <<"SAVE_DONE", "BYE", "END">> \in Seq(Record)
    BY DEF Record, Packet
  <2>2. Last(<<"SAVE_DONE", "BYE", "END">>) = "END"
    BY DEF Last
  <2> QED BY <2>1, <2>2, SendsIs
<1>4. /\ Over' /\ Asked' /\ Held' /\ Cut'
      /\ UNCHANGED <<Queue, Unranked>>
  BY <1>1, <1>3, SpeakingKeeps
<1>5. /\ Ordering(Queue, Wire', 4)
      /\ \A e : In(e, Wire') <=>
            In(e, Wire) \/ (pipe["module"] # "FIN" /\ e \in {"SAVE_DONE", "BYE", "END"})
      /\ Wire # <<>> => Wire' # <<>> /\ Head(Wire') = Head(Wire)
  <2>1. /\ Rank("SAVE_DONE") = 2 /\ Rank("BYE") = 3 /\ Rank("END") = 4
        /\ "SAVE_DONE" \in Record /\ "BYE" \in Record /\ "END" \in Record
        /\ 1 \in Int /\ 2 \in Nat /\ 3 \in Nat /\ 4 \in Nat /\ 2 > 1 /\ 3 > 2 /\ 4 > 3
    BY OtherRanks DEF Record, Packet
  <2>2. CASE pipe["module"] = "FIN"
    BY <1>2, <1>3, <2>2, OrderingLoose
  <2>3. CASE pipe["module"] # "FIN"
    <3>1. Wire' = Wire \o <<"SAVE_DONE", "BYE", "END">>
      BY <1>3, <2>3
    <3>2. /\ Rank("SAVE_DONE") >= 0 /\ Rank("SAVE_DONE") > 1
          /\ Rank("BYE") > Rank("SAVE_DONE") /\ Rank("END") > Rank("BYE")
      BY <2>1
    <3>3. /\ Ordering(Queue, Wire \o <<"SAVE_DONE", "BYE", "END">>, Rank("END"))
          /\ \A e : In(e, Wire \o <<"SAVE_DONE", "BYE", "END">>) <=>
                In(e, Wire) \/ e \in {"SAVE_DONE", "BYE", "END"}
          /\ Wire # <<>> => /\ Wire \o <<"SAVE_DONE", "BYE", "END">> # <<>>
                            /\ Head(Wire \o <<"SAVE_DONE", "BYE", "END">>) = Head(Wire)
      BY <1>2, <2>1, <3>2, SendsThree
    <3> QED BY <2>1, <2>3, <3>1, <3>3
  <2> QED BY <2>2, <2>3
<1>6. TypeOK'
  BY <1>1, <1>2, <1>3 DEF IInv, TypeOK
<1>7. ToldOK'
  BY <1>2 DEF IInv, ToldOK
<1>8. App'
  BY <1>1, <1>3 DEF IInv, App
<1>9. Ordered'
  BY <1>2, <1>4, <1>5 DEF Ordering, Ordered
<1>10. /\ \A e \in Packet \ {"SAVE_DONE", "BYE"} : Coming(e)' <=> Coming(e)
       /\ SaveComing' <=> SaveComing
       /\ Coming("SAVE_DONE")' <=> Coming("SAVE_DONE") \/ pipe["module"] # "FIN"
       /\ Coming("BYE")' <=> Coming("BYE") \/ pipe["module"] # "FIN"
  BY <1>4, <1>5 DEF Coming, SaveComing, Packet
<1>11. /\ told \in {<<>>, A, B} /\ held = <<>> /\ result \in {"stream", "value"}
       /\ vparser => told = A
  BY <1>1, <1>2 DEF IInv, ToldOK, Reported, Truthful, App, Held
<1>12. pipe["module"] # "FIN" => SaveComing \/ vparser \/ told = B
  <2>1. told # D
    BY <1>11 DEF A, B, D
  <2> QED BY <1>1, <1>2, <1>11, <2>1 DEF Kept
<1>13. Expected'
  BY <1>1, <1>2, <1>4, <1>5, <1>10, <1>11, <1>12 DEF Expected, Packet
<1>14. Truthful'
  BY <1>1, <1>2, <1>10, <1>11 DEF Truthful, Packet
<1>15. Kept'
  <2>1. pipe["module"] = "FIN" => shut["module"]
    BY <1>1 DEF IInv, App
  <2> QED BY <1>1, <1>2, <1>10, <1>11, <1>12, <2>1 DEF Kept
<1> QED BY <1>4, <1>6, <1>7, <1>8, <1>9, <1>13, <1>14, <1>15 DEF IInv

LEMMA AppSaveDoneInv == ASSUME IInv, Frame, AppSaveDone PROVE IInv'
<1>1. CASE app' = "CLOSING" /\ Sends("module", <<"SAVE_DONE", "BYE", "END">>)
           /\ UNCHANGED <<child, shut>>
  BY <1>1, AppSaveDoneSendsInv
<1>2. CASE Ends("exited") /\ app' = app /\ chan' = chan /\ wended' = wended
  <2>1. UNCHANGED <<q["planner"], chan, pipe, wended, app, result, q, saved, runner, runnerTold,
                    appPipe>>
    BY <1>2 DEF AppSaveDone
  <2>2. /\ shut' \in [Side -> BOOLEAN] /\ shut'["module"] = shut["module"]
        /\ child' = "exited" /\ child' \notin {"up", "none"}
    BY <1>2, EndsInv DEF Ending
  <2>3. TypeOK'
    BY <2>1, <2>2 DEF IInv, TypeOK, Frame, Ending
  <2>4. App'
    BY <2>1, <2>2 DEF IInv, App
  <2> QED BY <2>1, <2>2, <2>3, <2>4, Quiet DEF IInv
<1>3. CloseWith(<<"SAVE_DONE", "BYE", "END">>)
  BY DEF AppSaveDone
<1> QED BY <1>1, <1>2, <1>3 DEF CloseWith

-----------------------------------------------------------------------------
(* The request, and the end of the wire in the process.                    *)

LEMMA RequestInv == ASSUME IInv, Request PROVE IInv'
<1>1. /\ med = "RUN" /\ ~wended["planner"] /\ pipe["planner"] \in {"HDR", "DRAIN"}
      /\ UNCHANGED <<planner, grace, destroyed, timer, medVars, child, appVars, runner, runnerTold,
                     pipe, shut, q>>
      /\ Sends("planner", <<"REQ", "END">>)
  BY DEF Request
<1>2. child # "none"
  BY <1>1 DEF IInv, Over
<1>3. /\ chan' \in [Side -> Seq(Record)] /\ wended' \in [Side -> BOOLEAN]
      /\ chan'["planner"] = chan["planner"] /\ wended'["module"] = wended["module"]
      /\ chan'["module"] = chan["module"] \o <<"REQ", "END">> /\ wended'["planner"]
  <2>1. chan \in [Side -> Seq(Record)] /\ wended \in [Side -> BOOLEAN]
        /\ "planner" \in Side /\ "module" \in Side /\ Other("planner") = "module"
    BY DEF IInv, TypeOK, Side, Other
  <2>2. <<"REQ", "END">> \in Seq(Record)
    BY DEF Record
  <2>3. Last(<<"REQ", "END">>) = "END"
    BY Lasts
  <2>4. chan' = [chan EXCEPT !["module"] = @ \o <<"REQ", "END">>]
        /\ wended' = [wended EXCEPT !["planner"] = TRUE]
    BY <1>1, <2>1, <2>3 DEF Sends
  <2>5. chan["module"] \o <<"REQ", "END">> \in Seq(Record)
    BY <2>1, <2>2
  <2> QED BY <2>1, <2>4, <2>5
<1>4. TypeOK'
  BY <1>1, <1>3 DEF IInv, TypeOK
<1>5. ToldOK' /\ Over'
  BY <1>1 DEF IInv, ToldOK, Over, Whole
<1>6. App'
  BY <1>1, <1>3 DEF IInv, App
<1>7. Asked'
  <2>1. CASE pipe["module"] = "HELLO"
    <3>1. chan["module"] = <<"HELLO">>
      BY <1>1, <1>2, <2>1 DEF IInv, Asked
    <3>2. chan'["module"] = <<"HELLO", "REQ", "END">>
      <4>1. "HELLO" \in Record /\ "REQ" \in Record /\ "END" \in Record
        BY DEF Record
      <4>2. <<"HELLO">> \o <<"REQ", "END">> = Append(Append(<<"HELLO">>, "REQ"), "END")
        <5>1. <<"HELLO">> \in Seq(Record)
          BY <4>1
        <5> QED BY <4>1, <5>1, Concats
      <4>3. <<"HELLO">> \o <<"REQ", "END">> = <<"HELLO", "REQ", "END">>
        <5>1. Append(<<"HELLO">>, "REQ") = <<"HELLO", "REQ">>
          BY <4>1, AppendOne
        <5>2. Append(<<"HELLO", "REQ">>, "END") = <<"HELLO", "REQ", "END">>
          BY <4>1, AppendTwo
        <5> QED BY <4>2, <5>1, <5>2
      <4> QED BY <1>3, <3>1, <4>3
    <3> QED BY <1>1, <1>2, <1>3, <2>1, <3>2 DEF Asked
  <2>2. CASE pipe["module"] # "HELLO"
    <3>1. chan["module"] = <<>>
      BY <1>1, <2>2 DEF IInv, Asked
    <3>2. chan'["module"] = <<"REQ", "END">>
      BY <1>3, <3>1
    <3> QED BY <1>1, <1>2, <1>3, <2>2, <3>2 DEF Asked
  <2> QED BY <2>1, <2>2
<1>8. UNCHANGED <<Queue, Wire, Sent, Unranked, SaveComing>> /\ \A e : Coming(e)' <=> Coming(e)
  BY <1>1, <1>3 DEF Queue, Wire, Sent, Unranked, SaveComing, Coming
<1>9. Cut' /\ Held'
  BY <1>1, <1>8 DEF IInv, Cut, Held, Whole
<1>10. Ordered'
  BY <1>1, <1>8 DEF IInv, Ordered
<1>11. Expected' /\ Truthful'
  BY <1>1, <1>8 DEF IInv, Expected, Truthful
<1>12. Kept'
  BY <1>1, <1>8 DEF IInv, Kept
<1> QED BY <1>4, <1>5, <1>6, <1>7, <1>9, <1>10, <1>11, <1>12 DEF IInv

\* What an end of the wire may do.
LEMMA PipeIs ==
  ASSUME NEW s \in Side, Pipe(s)
  PROVE  /\ UNCHANGED <<wended, shut>>
         /\ \/ /\ pipe[s] = "HELLO" /\ chan[s] # <<>> /\ Head(chan[s]) = "HELLO"
               /\ chan' = [chan EXCEPT ![s] = Tail(@)] /\ pipe' = [pipe EXCEPT ![s] = "HDR"]
               /\ q' = [q EXCEPT ![s] = @ \o <<"ASSERT">>]
            \/ /\ pipe[s] = "HDR" /\ chan[s] # <<>> /\ Head(chan[s]) = "END"
               /\ chan' = [chan EXCEPT ![s] = Tail(@)] /\ pipe' = [pipe EXCEPT ![s] = "DRAIN"]
               /\ q' = [q EXCEPT ![s] = @ \o <<>>]
            \/ /\ pipe[s] = "HDR" /\ chan[s] # <<>> /\ Head(chan[s]) # "END"
               /\ chan' = [chan EXCEPT ![s] = Tail(@)] /\ pipe' = [pipe EXCEPT ![s] = "HDR"]
               /\ q' = [q EXCEPT ![s] = @ \o <<Head(chan[s])>>]
            \/ /\ pipe[s] = "HELLO" /\ chan[s] = <<>> /\ shut[s]
               /\ chan' = chan /\ pipe' = [pipe EXCEPT ![s] = "FIN"]
               /\ q' = [q EXCEPT ![s] = @ \o <<"ASSERT", "RETURN_ERR">>]
            \/ /\ pipe[s] = "HDR" /\ chan[s] = <<>> /\ shut[s]
               /\ chan' = chan /\ pipe' = [pipe EXCEPT ![s] = "FIN"]
               /\ q' = [q EXCEPT ![s] = @ \o <<"EOF", "RETURN_ERR">>]
            \/ /\ pipe[s] = "DRAIN" /\ wended[s]
               /\ chan' = chan /\ pipe' = [pipe EXCEPT ![s] = "FIN"]
               /\ q' = [q EXCEPT ![s] = @ \o <<"RETURN_OK">>]
            \/ /\ pipe[s] = "DRAIN" /\ ~wended[s] /\ shut[s]
               /\ chan' = chan /\ pipe' = [pipe EXCEPT ![s] = "FIN"]
               /\ q' = [q EXCEPT ![s] = @ \o <<"EOF", "RETURN_ERR">>]
  BY DEF Pipe, Drain

\* Its owner's queue.
LEMMA QueueOne ==
  ASSUME TypeOK, NEW s \in Side, NEW x \in Event, q' = [q EXCEPT ![s] = @ \o <<x>>]
  PROVE  /\ q' \in [Side -> Seq(Event)] /\ q'[s] = Append(q[s], x)
         /\ \A t \in Side \ {s} : q'[t] = q[t]
         /\ \A e : In(e, q'[s]) <=> In(e, q[s]) \/ e = x
<1>1. q \in [Side -> Seq(Event)] /\ q[s] \in Seq(Event)
  BY DEF TypeOK
<1>2. q[s] \o <<x>> = Append(q[s], x) /\ Append(q[s], x) \in Seq(Event)
  BY <1>1, Concats
<1>3. q' \in [Side -> Seq(Event)] /\ q'[s] = Append(q[s], x) /\ \A t \in Side \ {s} : q'[t] = q[t]
  BY <1>1, <1>2
<1>4. \A e : In(e, Append(q[s], x)) <=> In(e, q[s]) \/ e = x
  BY <1>1, InAppend
<1> QED BY <1>3, <1>4

\* A wire tells its owner two events, or none.
LEMMA QueueTwo ==
  ASSUME TypeOK, NEW s \in Side, NEW x \in Event, NEW y \in Event,
         q' = [q EXCEPT ![s] = @ \o <<x, y>>]
  PROVE  /\ q' \in [Side -> Seq(Event)] /\ q'[s] = Append(Append(q[s], x), y)
         /\ \A t \in Side \ {s} : q'[t] = q[t]
         /\ \A e : In(e, q'[s]) <=> In(e, q[s]) \/ e \in {x, y}
<1>1. q \in [Side -> Seq(Event)] /\ q[s] \in Seq(Event)
  BY DEF TypeOK
<1>2. /\ q[s] \o <<x, y>> = Append(Append(q[s], x), y)
      /\ Append(q[s], x) \in Seq(Event) /\ Append(Append(q[s], x), y) \in Seq(Event)
  BY <1>1, Concats
<1>3. /\ q' \in [Side -> Seq(Event)] /\ q'[s] = Append(Append(q[s], x), y)
      /\ \A t \in Side \ {s} : q'[t] = q[t]
  BY <1>1, <1>2
<1>4. \A e : In(e, Append(q[s], x)) <=> In(e, q[s]) \/ e = x
  BY <1>1, InAppend
<1>5. \A e : In(e, Append(Append(q[s], x), y)) <=> In(e, Append(q[s], x)) \/ e = y
  BY <1>2, InAppend
<1> QED BY <1>3, <1>4, <1>5

LEMMA QueueNone ==
  ASSUME TypeOK, NEW s \in Side, q' = [q EXCEPT ![s] = @ \o <<>>]
  PROVE  q' = q
  BY DEF TypeOK

\* The end s of the wire moves on.
LEMMA PipeMoves ==
  ASSUME TypeOK, NEW s \in Side, NEW state \in {"HELLO", "HDR", "DRAIN", "FIN"},
         pipe' = [pipe EXCEPT ![s] = state]
  PROVE  /\ pipe' \in [Side -> {"HELLO", "HDR", "DRAIN", "FIN"}] /\ pipe'[s] = state
         /\ \A t \in Side \ {s} : pipe'[t] = pipe[t]
  BY DEF TypeOK

\* The end s of the wire reads a record.
LEMMA WireRead ==
  ASSUME TypeOK, NEW s \in Side, chan[s] # <<>>, chan' = [chan EXCEPT ![s] = Tail(@)]
  PROVE  /\ chan' \in [Side -> Seq(Record)] /\ chan'[s] = Tail(chan[s])
         /\ \A t \in Side \ {s} : chan'[t] = chan[t]
         /\ Head(chan[s]) \in Record
         /\ \A e : In(e, chan[s]) <=> In(e, chan'[s]) \/ e = Head(chan[s])
<1>1. chan \in [Side -> Seq(Record)] /\ chan[s] \in Seq(Record)
  BY DEF TypeOK
<1>2. Tail(chan[s]) \in Seq(Record) /\ Head(chan[s]) \in Record
  BY <1>1
<1>3. /\ chan' \in [Side -> Seq(Record)] /\ chan'[s] = Tail(chan[s])
      /\ \A t \in Side \ {s} : chan'[t] = chan[t]
  BY <1>1, <1>2
<1>4. \A e : In(e, chan[s]) <=> In(e, chan'[s]) \/ e = Head(chan[s])
  BY <1>1, <1>3, InTail
<1> QED BY <1>2, <1>3, <1>4

\* The request, record by record.
LEMMA ShortTails ==
  /\ Tail(<<"HELLO">>) = <<>> /\ Tail(<<"END">>) = <<>> /\ Tail(<<"REQ", "END">>) = <<"END">>
  /\ Tail(<<"HELLO", "REQ", "END">>) = <<"REQ", "END">>
  /\ Head(<<"HELLO">>) = "HELLO" /\ Head(<<"END">>) = "END" /\ Head(<<"REQ", "END">>) = "REQ"
  OBVIOUS

\* The end of the wire in the process: its state, the request, and what it tells.
LEMMA ModulePipeMoves ==
  ASSUME IInv, child = "up", child' = child, Pipe("module")
  PROVE  /\ pipe' \in [Side -> {"HELLO", "HDR", "DRAIN", "FIN"}] /\ pipe'["planner"] = pipe["planner"]
         /\ chan' \in [Side -> Seq(Record)] /\ chan'["planner"] = chan["planner"]
         /\ q' \in [Side -> Seq(Event)] /\ q'["planner"] = q["planner"]
         /\ pipe["module"] # "FIN"
         /\ pipe'["module"] = "FIN" => wended["module"] \/ shut["module"]
         /\ pipe'["module"] = "FIN" \/ \A e \in {"RETURN_OK", "RETURN_ERR"} :
                In(e, q'["module"]) <=> In(e, q["module"])
         /\ In("RESULT", q'["module"]) <=> In("RESULT", q["module"])
         /\ UNCHANGED <<wended, shut>> /\ Asked'
<1>1. "module" \in Side /\ "planner" \in Side \ {"module"} /\ TypeOK /\ child # "none"
      /\ {"ASSERT", "REQ", "EOF", "RETURN_OK", "RETURN_ERR"} \subseteq Event
  BY DEF Side, IInv, Event
<1>2. UNCHANGED <<wended, shut>>
  BY <1>1, PipeIs
<1>3. CASE /\ pipe["module"] = "HELLO" /\ chan["module"] # <<>> /\ Head(chan["module"]) = "HELLO"
           /\ chan' = [chan EXCEPT !["module"] = Tail(@)] /\ pipe' = [pipe EXCEPT !["module"] = "HDR"]
           /\ q' = [q EXCEPT !["module"] = @ \o <<"ASSERT">>]
  <2>1. chan["module"] = IF wended["planner"] THEN <<"HELLO", "REQ", "END">> ELSE <<"HELLO">>
    BY <1>1, <1>3 DEF IInv, Asked
  <2>2. chan'["module"] = Tail(chan["module"]) /\ pipe'["module"] = "HDR"
    BY <1>1, <1>3, WireRead, PipeMoves
  <2>3. Asked'
    BY <1>1, <1>2, <2>1, <2>2, ShortTails DEF Asked
  <2>4. chan' \in [Side -> Seq(Record)] /\ chan'["planner"] = chan["planner"]
    BY <1>1, <1>3, WireRead
  <2>5. /\ pipe' \in [Side -> {"HELLO", "HDR", "DRAIN", "FIN"}]
        /\ pipe'["planner"] = pipe["planner"]
    BY <1>1, <1>3, PipeMoves
  <2>6. /\ q' \in [Side -> Seq(Event)] /\ q'["planner"] = q["planner"]
        /\ \A e : In(e, q'["module"]) <=> In(e, q["module"]) \/ e = "ASSERT"
    BY <1>1, <1>3, QueueOne
  <2> QED BY <1>2, <1>3, <2>2, <2>3, <2>4, <2>5, <2>6
<1>4. CASE /\ pipe["module"] = "HDR" /\ chan["module"] # <<>> /\ Head(chan["module"]) = "END"
           /\ chan' = [chan EXCEPT !["module"] = Tail(@)]
           /\ pipe' = [pipe EXCEPT !["module"] = "DRAIN"]
           /\ q' = [q EXCEPT !["module"] = @ \o <<>>]
  <2>1. chan["module"] \in IF wended["planner"] THEN {<<>>, <<"END">>, <<"REQ", "END">>} ELSE {<<>>}
    BY <1>4 DEF IInv, Asked
  <2>2. chan'["module"] = Tail(chan["module"]) /\ pipe'["module"] = "DRAIN"
    BY <1>1, <1>4, WireRead, PipeMoves
  <2>3. Asked'
    <3>1. wended["planner"] /\ chan["module"] = <<"END">>
      BY <1>4, <2>1, ShortTails
    <3>2. chan'["module"] = <<>>
      BY <2>2, <3>1, ShortTails
    <3> QED BY <1>1, <1>2, <2>2, <3>1, <3>2 DEF Asked
  <2>4. q' = q
    BY <1>1, <1>4, QueueNone
  <2> QED BY <1>1, <1>2, <1>4, <2>3, <2>4, WireRead, PipeMoves DEF TypeOK
<1>5. CASE /\ pipe["module"] = "HDR" /\ chan["module"] # <<>> /\ Head(chan["module"]) # "END"
           /\ chan' = [chan EXCEPT !["module"] = Tail(@)] /\ pipe' = [pipe EXCEPT !["module"] = "HDR"]
           /\ q' = [q EXCEPT !["module"] = @ \o <<Head(chan["module"])>>]
  <2>1. chan["module"] \in IF wended["planner"] THEN {<<>>, <<"END">>, <<"REQ", "END">>} ELSE {<<>>}
    BY <1>5 DEF IInv, Asked
  <2>2. chan'["module"] = Tail(chan["module"]) /\ pipe'["module"] = "HDR"
    BY <1>1, <1>5, WireRead, PipeMoves
  <2>3. Asked' /\ Head(chan["module"]) = "REQ"
    <3>1. wended["planner"] /\ chan["module"] = <<"REQ", "END">>
      BY <1>5, <2>1, ShortTails
    <3>2. chan'["module"] = <<"END">> /\ Head(chan["module"]) = "REQ"
      BY <2>2, <3>1, ShortTails
    <3> QED BY <1>1, <1>2, <2>2, <3>1, <3>2 DEF Asked
  <2>4. q' = [q EXCEPT !["module"] = @ \o <<"REQ">>]
    BY <1>5, <2>3
  <2>5. chan' \in [Side -> Seq(Record)] /\ chan'["planner"] = chan["planner"]
    BY <1>1, <1>5, WireRead
  <2>6. /\ pipe' \in [Side -> {"HELLO", "HDR", "DRAIN", "FIN"}]
        /\ pipe'["planner"] = pipe["planner"]
    BY <1>1, <1>5, PipeMoves
  <2>7. /\ q' \in [Side -> Seq(Event)] /\ q'["planner"] = q["planner"]
        /\ \A e : In(e, q'["module"]) <=> In(e, q["module"]) \/ e = "REQ"
    BY <1>1, <2>4, QueueOne
  <2> QED BY <1>2, <1>5, <2>2, <2>3, <2>5, <2>6, <2>7
<1>6. CASE /\ pipe["module"] = "HELLO" /\ chan["module"] = <<>>
  <2>1. chan["module"] = IF wended["planner"] THEN <<"HELLO", "REQ", "END">> ELSE <<"HELLO">>
    BY <1>1, <1>6 DEF IInv, Asked
  <2>2. <<"HELLO", "REQ", "END">> # <<>> /\ <<"HELLO">> # <<>>
    OBVIOUS
  <2> QED BY <1>6, <2>1, <2>2
<1>7. CASE /\ pipe["module"] \in {"HDR", "DRAIN"} /\ shut["module"]
           /\ chan' = chan /\ pipe' = [pipe EXCEPT !["module"] = "FIN"]
           /\ q' = [q EXCEPT !["module"] = @ \o <<"EOF", "RETURN_ERR">>]
  <2>1. /\ pipe' \in [Side -> {"HELLO", "HDR", "DRAIN", "FIN"}]
        /\ pipe'["planner"] = pipe["planner"] /\ pipe'["module"] = "FIN"
    BY <1>1, <1>7, PipeMoves
  <2>2. Asked'
    BY <1>1, <1>2, <1>7, <2>1 DEF IInv, Asked
  <2>3. /\ q' \in [Side -> Seq(Event)] /\ q'["planner"] = q["planner"]
        /\ In("RESULT", q'["module"]) <=> In("RESULT", q["module"])
    <3>1. /\ q' \in [Side -> Seq(Event)] /\ q'["planner"] = q["planner"]
          /\ \A e : In(e, q'["module"]) <=> In(e, q["module"]) \/ e \in {"EOF", "RETURN_ERR"}
      <4>1. "EOF" \in Event /\ "RETURN_ERR" \in Event
        BY <1>1
      <4> QED BY <1>1, <1>7, <4>1, QueueTwo
    <3> QED BY <3>1
  <2> QED BY <1>2, <1>7, <2>1, <2>2, <2>3 DEF IInv, TypeOK
<1>8. CASE /\ pipe["module"] = "DRAIN" /\ wended["module"]
           /\ chan' = chan /\ pipe' = [pipe EXCEPT !["module"] = "FIN"]
           /\ q' = [q EXCEPT !["module"] = @ \o <<"RETURN_OK">>]
  <2>1. /\ pipe' \in [Side -> {"HELLO", "HDR", "DRAIN", "FIN"}]
        /\ pipe'["planner"] = pipe["planner"] /\ pipe'["module"] = "FIN"
    BY <1>1, <1>8, PipeMoves
  <2>2. Asked'
    BY <1>1, <1>2, <1>8, <2>1 DEF IInv, Asked
  <2>3. /\ q' \in [Side -> Seq(Event)] /\ q'["planner"] = q["planner"]
        /\ In("RESULT", q'["module"]) <=> In("RESULT", q["module"])
    BY <1>1, <1>8, QueueOne
  <2> QED BY <1>2, <1>8, <2>1, <2>2, <2>3 DEF IInv, TypeOK
<1> QED BY <1>1, <1>3, <1>4, <1>5, <1>6, <1>7, <1>8, PipeIs

LEMMA ModulePipeInv == ASSUME IInv, Frame, ModulePipe PROVE IInv'
<1>1. /\ app # "INI" /\ Pipe("module") /\ child = "up"
      /\ UNCHANGED <<child, appVars, runner, runnerTold, planner, grace, destroyed, timer, medVars>>
  BY DEF ModulePipe, Frame
<1>2. /\ pipe' \in [Side -> {"HELLO", "HDR", "DRAIN", "FIN"}] /\ pipe'["planner"] = pipe["planner"]
      /\ chan' \in [Side -> Seq(Record)] /\ chan'["planner"] = chan["planner"]
      /\ q' \in [Side -> Seq(Event)] /\ q'["planner"] = q["planner"]
      /\ pipe["module"] # "FIN"
      /\ pipe'["module"] = "FIN" => wended["module"] \/ shut["module"]
      /\ pipe'["module"] = "FIN" \/ \A e \in {"RETURN_OK", "RETURN_ERR"} :
             In(e, q'["module"]) <=> In(e, q["module"])
      /\ In("RESULT", q'["module"]) <=> In("RESULT", q["module"])
      /\ UNCHANGED <<wended, shut>> /\ Asked'
  BY <1>1, ModulePipeMoves
<1>3. TypeOK'
  BY <1>1, <1>2 DEF IInv, TypeOK
<1>4. ToldOK' /\ Over'
  BY <1>1, <1>2 DEF IInv, ToldOK, Over, Whole
<1>5. App'
  BY <1>1, <1>2 DEF IInv, App
<1>6. UNCHANGED <<Queue, Wire, Sent, Unranked, SaveComing>> /\ \A e : Coming(e)' <=> Coming(e)
  BY <1>1, <1>2 DEF Queue, Wire, Sent, Unranked, SaveComing, Coming
<1>7. Cut' /\ Held'
  BY <1>1, <1>2, <1>6 DEF IInv, Cut, Held, Whole
<1>8. Ordered'
  BY <1>1, <1>2, <1>6 DEF IInv, Ordered
<1>9. ASSUME med = "RUN" PROVE Expected' /\ Truthful' /\ Kept'
  <2>1. Expected' /\ Truthful'
    BY <1>1, <1>2, <1>6, <1>9 DEF IInv, Expected, Truthful
  <2>2. Kept'
    BY <1>1, <1>2, <1>6, <1>9 DEF IInv, Kept
  <2> QED BY <2>1, <2>2
<1> QED BY <1>1, <1>2, <1>3, <1>4, <1>5, <1>7, <1>8, <1>9 DEF IInv

-----------------------------------------------------------------------------
(* The end of the wire in the planner.                                     *)

\* What follows from what the wire and the queue have become.
LEMMA PlannerPipeRest ==
  ASSUME IInv, med = "RUN", medPipe,
         UNCHANGED <<planner, grace, destroyed, timer, medVars, child, appVars, runner, runnerTold,
                     wended, shut, chan["module"], pipe["module"], q["module"]>>,
         pipe' \in [Side -> {"HELLO", "HDR", "DRAIN", "FIN"}],
         chan' \in [Side -> Seq(Record)], q' \in [Side -> Seq(Event)],
         pipe'["planner"] # "HELLO",
         pipe'["planner"] = "HDR" => app # "INI",
         pipe'["planner"] \in {"DRAIN", "FIN"} => Wire' = <<>>,
         pipe'["planner"] = "DRAIN" => app = "CLOSING",
         pipe'["planner"] = "FIN" => child # "up" \/ app = "CLOSING",
         \A e \in Packet : Coming(e)' <=> Coming(e),
         \A e \in {"PARSED", "TIMER"} : In(e, Queue') <=> In(e, Queue),
         Single("PARSED", Queue'), Ordered',
         ~In("HELLO", Wire'),
         In("ASSERT", Queue') \/ told # <<>>, In("ASSERT", Queue') => told = <<>>
  PROVE  IInv'
<1>1. TypeOK'
  BY DEF IInv, TypeOK
<1>2. ToldOK' /\ Over'
  BY DEF IInv, ToldOK, Over, Whole
<1>3. App' /\ Asked'
  BY DEF IInv, App, Asked
<1>4. Cut'
  BY DEF IInv, Cut, Whole
<1>5. Held'
  BY DEF IInv, Held
<1>6. SaveComing' <=> SaveComing
  BY DEF SaveComing, Packet
<1>7. Expected'
  BY <1>6 DEF IInv, Expected, Packet
<1>8. Truthful'
  BY <1>6 DEF IInv, Truthful, Packet
<1>9. Kept'
  BY <1>6 DEF IInv, Kept, Packet
<1> QED BY <1>1, <1>2, <1>3, <1>4, <1>5, <1>7, <1>8, <1>9 DEF IInv

\* The end of the planner is read while the mediator runs.
LEMMA Listening ==
  ASSUME IInv, PlannerPipe
  PROVE  /\ med = "RUN" /\ medPipe /\ Pipe("planner") /\ TypeOK
         /\ Queue \in Seq(Event) /\ Wire \in Seq(Record) /\ Expected /\ Ordered
         /\ Single("PARSED", Queue)
         /\ "planner" \in Side /\ "module" \in Side \ {"planner"}
         /\ UNCHANGED <<planner, grace, destroyed, timer, medVars, child, appVars, runner, runnerTold,
                        wended, shut>>
<1>1. medPipe /\ Pipe("planner") /\ "planner" \in Side /\ "module" \in Side \ {"planner"}
      /\ UNCHANGED <<planner, grace, destroyed, timer, medVars, child, appVars, runner, runnerTold>>
  BY DEF PlannerPipe, Side
<1>2. med = "RUN" /\ TypeOK /\ Ordered /\ Expected /\ Single("PARSED", Queue)
  BY <1>1 DEF IInv, Cut, Held
<1>3. Queue \in Seq(Event) /\ Wire \in Seq(Record)
  BY <1>1, <1>2 DEF TypeOK, Queue, Wire
<1> QED BY <1>1, <1>2, <1>3, PipeIs

\* Packets are events and records of the ranks 1 to 3.
LEMMA EventRanks == /\ \A e \in Packet : Rank(e) \in 1..3 /\ e \in Event /\ e \in Record
                    /\ \A r \in Record : r \in Packet \/ r \in {"HELLO", "REQ", "END"}
                    /\ {"ASSERT", "EOF", "RETURN_OK", "RETURN_ERR", "PARSED", "TIMER"}
                          \subseteq Event \ Packet
  BY DEF Packet, Rank, Event, Record

\* It reads: what was the head of the wire is the end of the queue.
LEMMA ReadHead ==
  ASSUME IInv, PlannerPipe, Wire # <<>>, chan' = [chan EXCEPT !["planner"] = Tail(@)]
  PROVE  /\ chan' \in [Side -> Seq(Record)] /\ chan'["module"] = chan["module"]
         /\ Wire' = Tail(Wire) /\ Head(Wire) \in Record /\ Rank(Head(Wire)) \in 0..Sent
         /\ \A e : In(e, Wire) <=> In(e, Wire') \/ e = Head(Wire)
         /\ Increasing(Wire')
         /\ \A r \in Record : In(r, Wire') => Rank(r) \in 0..Sent /\ Rank(Head(Wire)) < Rank(r)
         /\ \A e \in Event : In(e, Queue) => Rank(e) < Rank(Head(Wire))
<1>1. /\ TypeOK /\ "planner" \in Side /\ "module" \in Side \ {"planner"} /\ Wire \in Seq(Record)
      /\ Ordered
  BY Listening
<1>2. /\ chan' \in [Side -> Seq(Record)] /\ chan'["module"] = chan["module"] /\ Wire' = Tail(Wire)
      /\ Head(Wire) \in Record /\ \A e : In(e, Wire) <=> In(e, Wire') \/ e = Head(Wire)
  BY <1>1, WireRead DEF Wire
<1>3. Increasing(Wire) /\ \A r \in Record : In(r, Wire) => Rank(r) \in 0..Sent
  BY <1>1 DEF Ordered
<1>4. /\ Increasing(Tail(Wire))
      /\ \A e \in Record : In(e, Tail(Wire)) /\ Rank(e) # -1 /\ Rank(Head(Wire)) # -1
                              => Rank(Head(Wire)) < Rank(e)
  BY <1>1, <1>3, IncreasingTail
<1>5. Rank(Head(Wire)) \in 0..Sent /\ Sent \in Int
  BY <1>2, <1>3, SentIs
<1>6. \A r \in Record : In(r, Wire') => Rank(r) \in 0..Sent /\ Rank(Head(Wire)) < Rank(r)
  BY <1>2, <1>3, <1>4, <1>5
<1>7. \A e \in Event : In(e, Queue) => Rank(e) < Rank(Head(Wire))
  BY <1>1, <1>2 DEF Ordered
<1> QED BY <1>2, <1>4, <1>5, <1>6, <1>7

\* It tells of x, which comes after all that waits.
LEMMA TellsOne ==
  ASSUME IInv, PlannerPipe, NEW x \in Event, Rank(x) >= 0,
         q' = [q EXCEPT !["planner"] = @ \o <<x>>],
         \A e \in Event : In(e, Queue) => Rank(e) < Rank(x)
  PROVE  /\ q' \in [Side -> Seq(Event)] /\ q'["module"] = q["module"]
         /\ \A e : In(e, Queue') <=> In(e, Queue) \/ e = x
         /\ Increasing(Queue') /\ Single("PARSED", Queue')
<1>1. /\ TypeOK /\ "planner" \in Side /\ "module" \in Side \ {"planner"} /\ Queue \in Seq(Event)
      /\ Increasing(Queue) /\ Single("PARSED", Queue) /\ x # "PARSED"
  BY Listening, OtherRanks DEF Ordered
<1>2. /\ q' \in [Side -> Seq(Event)] /\ q'["module"] = q["module"]
      /\ Queue' = Append(Queue, x)
      /\ \A e : In(e, Queue') <=> In(e, Queue) \/ e = x
  BY <1>1, QueueOne DEF Queue
<1>3. Increasing(Queue')
  BY <1>1, <1>2, IncreasingAppend
<1>4. Single("PARSED", Queue')
  BY <1>1, <1>2, SingleAppend
<1> QED BY <1>2, <1>3, <1>4

\* Two events behind all that waits.
LEMMA TellsTwo ==
  ASSUME IInv, PlannerPipe, NEW x \in Event, NEW y \in Event, Rank(x) >= 0, Rank(y) > Rank(x),
         q' = [q EXCEPT !["planner"] = @ \o <<x, y>>],
         \A e \in Event : In(e, Queue) => Rank(e) < Rank(x)
  PROVE  /\ q' \in [Side -> Seq(Event)] /\ q'["module"] = q["module"]
         /\ \A e : In(e, Queue') <=> In(e, Queue) \/ e \in {x, y}
         /\ Increasing(Queue') /\ Single("PARSED", Queue')
<1>1. /\ TypeOK /\ "planner" \in Side /\ "module" \in Side \ {"planner"} /\ Queue \in Seq(Event)
      /\ Increasing(Queue) /\ Single("PARSED", Queue) /\ x # "PARSED" /\ y # "PARSED"
      /\ Rank(x) \in Int /\ Rank(y) \in Int
  BY Listening, OtherRanks, RankType DEF Ordered
<1>2. /\ q' \in [Side -> Seq(Event)] /\ q'["module"] = q["module"]
      /\ Queue' = Append(Append(Queue, x), y)
      /\ \A e : In(e, Queue') <=> In(e, Queue) \/ e \in {x, y}
  <2>1. /\ q' \in [Side -> Seq(Event)] /\ q'["module"] = q["module"]
        /\ q'["planner"] = Append(Append(q["planner"], x), y)
        /\ \A e : In(e, q'["planner"]) <=> In(e, q["planner"]) \/ e \in {x, y}
    <3>1. TypeOK /\ "planner" \in Side /\ "module" \in Side \ {"planner"}
      BY <1>1
    <3>2. /\ q' \in [Side -> Seq(Event)] /\ q'["planner"] = Append(Append(q["planner"], x), y)
          /\ \A t \in Side \ {"planner"} : q'[t] = q[t]
          /\ \A e : In(e, q'["planner"]) <=> In(e, q["planner"]) \/ e \in {x, y}
      BY <3>1, QueueTwo
    <3> QED BY <3>1, <3>2
  <2> QED BY <2>1 DEF Queue
<1> DEFINE s == Append(Queue, x)
<1>3. s \in Seq(Event) /\ Increasing(s) /\ Single("PARSED", s)
      /\ \A e : In(e, s) <=> In(e, Queue) \/ e = x
  BY <1>1, IncreasingAppend, SingleAppend, InAppend
<1>4. Queue' = Append(s, y)
  BY <1>2
<1> HIDE DEF s
<1>5. \A e \in Event : In(e, s) => Rank(e) < Rank(y)
  <2>1. ASSUME NEW e \in Event, In(e, s) PROVE Rank(e) < Rank(y)
    <3>1. Rank(e) \in Int
      BY RankType
    <3> QED BY <1>1, <1>3, <2>1, <3>1
  <2> QED BY <2>1
<1>6. Increasing(Append(s, y))
  BY <1>3, <1>5, IncreasingAppend
<1>7. Single("PARSED", Append(s, y))
  BY <1>1, <1>3, SingleAppend
<1> QED BY <1>2, <1>4, <1>6, <1>7

\* The first record.
LEMMA ReadHelloInv ==
  ASSUME IInv, PlannerPipe,
         pipe["planner"] = "HELLO", Wire # <<>>, Head(Wire) = "HELLO",
         chan' = [chan EXCEPT !["planner"] = Tail(@)], pipe' = [pipe EXCEPT !["planner"] = "HDR"],
         q' = [q EXCEPT !["planner"] = @ \o <<"ASSERT">>]
  PROVE  IInv'
<1>1. /\ med = "RUN" /\ medPipe /\ TypeOK /\ "planner" \in Side /\ "module" \in Side \ {"planner"}
      /\ UNCHANGED <<planner, grace, destroyed, timer, medVars, child, appVars, runner, runnerTold,
                     wended, shut>>
      /\ told = <<>> /\ Unranked
  BY Listening DEF Expected
<1>2. /\ pipe' \in [Side -> {"HELLO", "HDR", "DRAIN", "FIN"}] /\ pipe'["planner"] = "HDR"
      /\ pipe'["module"] = pipe["module"]
  BY <1>1, PipeMoves
<1>3. /\ chan' \in [Side -> Seq(Record)] /\ chan'["module"] = chan["module"]
      /\ 0 \in 0..Sent
      /\ \A e : In(e, Wire) <=> In(e, Wire') \/ e = "HELLO"
      /\ Increasing(Wire')
      /\ \A r \in Record : In(r, Wire') => Rank(r) \in 0..Sent /\ 0 < Rank(r)
      /\ \A e \in Event : In(e, Queue) => Rank(e) < 0
  BY ReadHead, OtherRanks
<1>4. /\ q' \in [Side -> Seq(Event)] /\ q'["module"] = q["module"]
      /\ \A e : In(e, Queue') <=> In(e, Queue) \/ e = "ASSERT"
      /\ Increasing(Queue') /\ Single("PARSED", Queue')
  <2>1. "ASSERT" \in Event /\ Rank("ASSERT") = 0
    BY EventRanks, OtherRanks
  <2>2. Rank("ASSERT") >= 0 /\ \A e \in Event : In(e, Queue) => Rank(e) < Rank("ASSERT")
    BY <1>3, <2>1
  <2> QED BY <2>1, <2>2, TellsOne
<1>5. app # "INI" /\ Sent' = Sent /\ Sent \in Int
  BY <1>1, <1>3, SentIs DEF Sent
<1>6. Ordered'
  <2>1. \A e \in Event, r \in Record : In(e, Queue') /\ In(r, Wire') => Rank(e) < Rank(r)
    <3>1. ASSUME NEW e \in Event, NEW r \in Record, In(e, Queue'), In(r, Wire')
          PROVE  Rank(e) < Rank(r)
      <4>1. Rank(e) \in Int /\ Rank(r) \in Int /\ 0 < Rank(r)
        BY <1>3, <3>1, RankType
      <4>2. CASE e = "ASSERT"
        BY <4>1, <4>2, OtherRanks
      <4>3. CASE In(e, Queue)
        <5>1. Rank(e) < 0
          BY <1>3, <4>3
        <5> QED BY <4>1, <5>1
      <4> QED BY <1>4, <3>1, <4>2, <4>3
    <3> QED BY <3>1
  <2>2. ASSUME NEW e \in Event, In(e, Queue') PROVE Rank(e) <= Sent'
    <3>1. Rank(e) \in Int
      BY RankType
    <3>2. 0 <= Sent
      BY <1>3, <1>5
    <3>3. CASE e = "ASSERT"
      BY <1>5, <3>2, <3>3, OtherRanks
    <3>4. CASE In(e, Queue)
      <4>1. Rank(e) < 0
        BY <1>3, <3>4
      <4> QED BY <1>5, <3>1, <3>2, <4>1
    <3> QED BY <1>4, <2>2, <3>3, <3>4
  <2> QED BY <1>3, <1>4, <1>5, <2>1, <2>2 DEF Ordered
<1>7. \A e \in Packet : Coming(e)' <=> Coming(e)
  <2>1. ASSUME NEW e \in Packet PROVE Coming(e)' <=> Coming(e)
    <3>1. e # "HELLO" /\ e # "ASSERT"
      BY DEF Packet
    <3> QED BY <1>3, <1>4, <3>1 DEF Coming
  <2> QED BY <2>1
<1>8. ~In("HELLO", Wire')
  <2>1. "HELLO" \in Record
    BY DEF Record
  <2> QED BY <1>3, <2>1, OtherRanks
<1>9. \A e \in {"PARSED", "TIMER"} : In(e, Queue') <=> In(e, Queue)
  BY <1>4
<1> QED BY <1>1, <1>2, <1>3, <1>4, <1>5, <1>6, <1>7, <1>8, <1>9, PlannerPipeRest

\* The last record.
LEMMA ReadEndInv ==
  ASSUME IInv, PlannerPipe,
         pipe["planner"] = "HDR", Wire # <<>>, Head(Wire) = "END",
         chan' = [chan EXCEPT !["planner"] = Tail(@)], pipe' = [pipe EXCEPT !["planner"] = "DRAIN"],
         q' = [q EXCEPT !["planner"] = @ \o <<>>]
  PROVE  IInv'
<1>1. /\ med = "RUN" /\ medPipe /\ TypeOK /\ "planner" \in Side /\ "module" \in Side \ {"planner"}
      /\ UNCHANGED <<planner, grace, destroyed, timer, medVars, child, appVars, runner, runnerTold,
                     wended, shut>>
      /\ Expected /\ Ordered /\ Single("PARSED", Queue)
  BY Listening
<1>2. /\ pipe' \in [Side -> {"HELLO", "HDR", "DRAIN", "FIN"}] /\ pipe'["planner"] = "DRAIN"
      /\ pipe'["module"] = pipe["module"]
  BY <1>1, PipeMoves
<1>3. /\ chan' \in [Side -> Seq(Record)] /\ chan'["module"] = chan["module"]
      /\ 4 \in 0..Sent
      /\ \A e : In(e, Wire) <=> In(e, Wire') \/ e = "END"
      /\ \A r \in Record : In(r, Wire') => Rank(r) \in 0..Sent /\ 4 < Rank(r)
  BY ReadHead, OtherRanks
<1>4. q' = q /\ Queue' = Queue /\ q' \in [Side -> Seq(Event)]
  BY <1>1, QueueNone DEF Queue, TypeOK
<1>5. app = "CLOSING" /\ Sent = 4 /\ Sent' = Sent
  <2>1. Sent = 4
    BY <1>3, SentIs
  <2>2. app = "CLOSING"
    BY <1>1, <2>1, SentIs DEF TypeOK
  <2> QED BY <1>1, <2>1, <2>2 DEF Sent
<1>6. Wire' = <<>>
  <2>1. ASSUME Wire' # <<>> PROVE FALSE
    <3>1. Wire' \in Seq(Record)
      BY <1>1, <1>3 DEF Wire
    <3>2. In(Head(Wire'), Wire') /\ Head(Wire') \in Record
      BY <2>1, <3>1, InTail
    <3>3. Rank(Head(Wire')) \in 0..4 /\ 4 < Rank(Head(Wire'))
      BY <1>3, <1>5, <3>2
    <3> QED BY <3>3
  <2> QED BY <2>1
<1>7. \A r : ~In(r, Wire')
  BY <1>6, InEmpty
<1>8. Ordered'
  BY <1>1, <1>4, <1>5, <1>6, <1>7, EmptyOrdered DEF Ordered
<1>9. \A e \in Packet : Coming(e)' <=> Coming(e)
  <2>1. ASSUME NEW e \in Packet PROVE Coming(e)' <=> Coming(e)
    <3>1. e # "END"
      BY DEF Packet
    <3> QED BY <1>3, <1>4, <3>1 DEF Coming
  <2> QED BY <2>1
<1>10. In("ASSERT", Queue') \/ told # <<>>
  BY <1>1, <1>4 DEF Expected
<1>11. In("ASSERT", Queue') => told = <<>>
  BY <1>1, <1>4 DEF Expected
<1> QED BY <1>1, <1>2, <1>3, <1>4, <1>5, <1>6, <1>7, <1>8, <1>9, <1>10, <1>11, PlannerPipeRest

\* A packet.
LEMMA ReadPacketInv ==
  ASSUME IInv, PlannerPipe,
         pipe["planner"] = "HDR", Wire # <<>>, Head(Wire) # "END",
         chan' = [chan EXCEPT !["planner"] = Tail(@)], pipe' = [pipe EXCEPT !["planner"] = "HDR"],
         q' = [q EXCEPT !["planner"] = @ \o <<Head(chan["planner"])>>]
  PROVE  IInv'
<1> DEFINE x == Head(Wire)
<1>1. /\ med = "RUN" /\ medPipe /\ TypeOK /\ "planner" \in Side /\ "module" \in Side \ {"planner"}
      /\ UNCHANGED <<planner, grace, destroyed, timer, medVars, child, appVars, runner, runnerTold,
                     wended, shut>>
      /\ Expected /\ Ordered
  BY Listening
<1>2. /\ pipe' \in [Side -> {"HELLO", "HDR", "DRAIN", "FIN"}] /\ pipe'["planner"] = "HDR"
      /\ pipe'["module"] = pipe["module"]
  BY <1>1, PipeMoves
<1>3. /\ chan' \in [Side -> Seq(Record)] /\ chan'["module"] = chan["module"]
      /\ x \in Record /\ Rank(x) \in 0..Sent
      /\ \A e : In(e, Wire) <=> In(e, Wire') \/ e = x
      /\ Increasing(Wire')
      /\ \A r \in Record : In(r, Wire') => Rank(r) \in 0..Sent /\ Rank(x) < Rank(r)
      /\ \A e \in Event : In(e, Queue) => Rank(e) < Rank(x)
  BY ReadHead
<1>4. /\ q' = [q EXCEPT !["planner"] = @ \o <<x>>] /\ x # "END"
  BY DEF Wire
<1> HIDE DEF x
<1>5. x \in Packet /\ x \in Event
  <2>1. x # "HELLO"
    BY <1>1, <1>3 DEF Expected
  <2>2. x # "REQ"
    BY <1>3, OtherRanks
  <2> QED BY <1>3, <1>4, <2>1, <2>2, EventRanks
<1>6. /\ q' \in [Side -> Seq(Event)] /\ q'["module"] = q["module"]
      /\ \A e : In(e, Queue') <=> In(e, Queue) \/ e = x
      /\ Increasing(Queue') /\ Single("PARSED", Queue')
  <2>1. Rank(x) >= 0
    BY <1>3, SentIs
  <2> QED BY <1>3, <1>4, <1>5, <2>1, TellsOne
<1>7. Sent' = Sent /\ Sent \in Int
  BY <1>1, SentIs DEF Sent
<1>8. Ordered'
  <2>1. ASSUME NEW e \in Event, NEW r \in Record, In(e, Queue'), In(r, Wire')
        PROVE  Rank(e) < Rank(r)
    <3>1. Rank(x) < Rank(r) /\ Rank(e) \in Int /\ Rank(r) \in Int /\ Rank(x) \in Int
      BY <1>3, <2>1, RankType
    <3>2. e = x \/ Rank(e) < Rank(x)
      BY <1>3, <1>6, <2>1
    <3> QED BY <3>1, <3>2
  <2>2. ASSUME NEW e \in Event, In(e, Queue') PROVE Rank(e) <= Sent'
    <3>1. Rank(e) \in Int /\ Rank(x) \in Int /\ Rank(x) <= Sent
      BY <1>3, <1>7, RankType
    <3>2. e = x \/ Rank(e) < Rank(x)
      BY <1>3, <1>6, <2>2
    <3> QED BY <1>7, <3>1, <3>2
  <2>3. \A r \in Record : In(r, Wire') => Rank(r) \in 0..Sent'
    BY <1>3, <1>7
  <2> QED BY <1>3, <1>6, <2>1, <2>2, <2>3 DEF Ordered
<1>9. \A e \in Packet : Coming(e)' <=> Coming(e)
  <2>1. ASSUME NEW e \in Packet PROVE Coming(e)' <=> Coming(e)
    BY <1>3, <1>6 DEF Coming
  <2> QED BY <2>1
<1>10. In("ASSERT", Queue') <=> In("ASSERT", Queue)
  BY <1>5, <1>6, EventRanks
<1>11. \A e \in {"PARSED", "TIMER"} : In(e, Queue') <=> In(e, Queue)
  BY <1>5, <1>6, EventRanks
<1>12. app # "INI"
  BY <1>3, SentIs
<1>13. ~In("HELLO", Wire')
  BY <1>1, <1>3 DEF Expected
<1>14. /\ In("ASSERT", Queue') \/ told # <<>>
       /\ In("ASSERT", Queue') => told = <<>>
  BY <1>1, <1>10 DEF Expected
<1> QED BY <1>1, <1>2, <1>3, <1>6, <1>8, <1>9, <1>11, <1>12, <1>13, <1>14, PlannerPipeRest

\* Nothing comes any more: the wire is over.
LEMMA StopsRest ==
  ASSUME IInv, PlannerPipe, Wire = <<>>, chan' = chan, pipe' = [pipe EXCEPT !["planner"] = "FIN"],
         q' \in [Side -> Seq(Event)], q'["module"] = q["module"],
         NEW X \in SUBSET {"ASSERT", "EOF", "RETURN_OK", "RETURN_ERR"},
         \A e : In(e, Queue') <=> In(e, Queue) \/ e \in X,
         "ASSERT" \in X <=> pipe["planner"] = "HELLO",
         Increasing(Queue'), Single("PARSED", Queue'),
         \A e \in Event : In(e, Queue) => Rank(e) <= Sent,
         child # "up" \/ app = "CLOSING"
  PROVE  IInv'
<1>1. /\ med = "RUN" /\ medPipe /\ TypeOK /\ "planner" \in Side /\ "module" \in Side \ {"planner"}
      /\ UNCHANGED <<planner, grace, destroyed, timer, medVars, child, appVars, runner, runnerTold,
                     wended, shut>>
      /\ Expected /\ Ordered
  BY Listening
<1>2. /\ pipe' \in [Side -> {"HELLO", "HDR", "DRAIN", "FIN"}] /\ pipe'["planner"] = "FIN"
      /\ pipe'["module"] = pipe["module"]
  BY <1>1, PipeMoves
<1>3. Wire' = <<>> /\ Sent' = Sent /\ \A r : ~In(r, Wire') /\ ~In(r, Wire)
  BY <1>1, InEmpty DEF Wire, Sent
<1>4. Ordered'
  <2>1. ASSUME NEW e \in Event, In(e, Queue') PROVE Rank(e) <= Sent' \/ Rank(e) \in {0, 5, 6}
    BY <1>3, <2>1, OtherRanks
  <2> QED BY <1>2, <1>3, <2>1, EmptyOrdered DEF Ordered
<1>5. \A e \in Packet : Coming(e)' <=> Coming(e)
  <2>1. ASSUME NEW e \in Packet PROVE Coming(e)' <=> Coming(e)
    <3>1. e \notin X
      BY DEF Packet
    <3> QED BY <1>3, <3>1 DEF Coming
  <2> QED BY <2>1
<1>6. \A e \in {"PARSED", "TIMER"} : In(e, Queue') <=> In(e, Queue)
  OBVIOUS
<1>7. /\ In("ASSERT", Queue') \/ told # <<>>
      /\ In("ASSERT", Queue') => told = <<>>
  BY <1>1 DEF Expected
<1>8. chan' \in [Side -> Seq(Record)] /\ chan'["module"] = chan["module"]
  BY <1>1 DEF TypeOK
<1> QED BY <1>1, <1>2, <1>3, <1>4, <1>5, <1>6, <1>7, <1>8, PlannerPipeRest

\* While the wire is not over nothing that waits comes after what was sent.
LEMMA NotOver ==
  ASSUME IInv, PlannerPipe, pipe["planner"] # "FIN"
  PROVE  /\ \A e \in Event : In(e, Queue) => Rank(e) <= Sent
         /\ \A e \in Event : In(e, Queue) => Rank(e) < 5 /\ Rank(e) < 6
<1>1. \A e \in Event : In(e, Queue) => Rank(e) <= Sent
  BY Listening DEF Ordered
<1>2. ASSUME NEW e \in Event, In(e, Queue) PROVE Rank(e) < 5 /\ Rank(e) < 6
  <2>1. Rank(e) \in Int /\ Sent \in {-1, 0, 1, 4} /\ Rank(e) <= Sent
    BY <1>1, <1>2, RankType, SentIs
  <2> QED BY <2>1
<1> QED BY <1>1, <1>2

\* The end of the wire of the mediator stops, by any way.
LEMMA StopsInv ==
  ASSUME IInv, PlannerPipe, chan' = chan, pipe' = [pipe EXCEPT !["planner"] = "FIN"],
         \/ /\ pipe["planner"] = "HELLO" /\ Wire = <<>> /\ shut["planner"]
            /\ q' = [q EXCEPT !["planner"] = @ \o <<"ASSERT", "RETURN_ERR">>]
         \/ /\ pipe["planner"] = "HDR" /\ Wire = <<>> /\ shut["planner"]
            /\ q' = [q EXCEPT !["planner"] = @ \o <<"EOF", "RETURN_ERR">>]
         \/ /\ pipe["planner"] = "DRAIN" /\ shut["planner"]
            /\ q' = [q EXCEPT !["planner"] = @ \o <<"EOF", "RETURN_ERR">>]
         \/ /\ pipe["planner"] = "DRAIN"
            /\ q' = [q EXCEPT !["planner"] = @ \o <<"RETURN_OK">>]
  PROVE  IInv'
<1>1. /\ med = "RUN" /\ Expected /\ pipe["planner"] # "FIN"
  BY Listening
<1>2. /\ pipe["planner"] = "DRAIN" => Wire = <<>> /\ app = "CLOSING"
      /\ shut["planner"] => child # "up"
  BY <1>1 DEF IInv, Cut
<1>3. /\ \A e \in Event : In(e, Queue) => Rank(e) <= Sent
      /\ \A e \in Event : In(e, Queue) => Rank(e) < 5 /\ Rank(e) < 6
  BY <1>1, NotOver
<1>4. /\ "ASSERT" \in Event /\ "EOF" \in Event /\ "RETURN_OK" \in Event /\ "RETURN_ERR" \in Event
      /\ Rank("ASSERT") = 0 /\ Rank("EOF") = 5 /\ Rank("RETURN_OK") = 6 /\ Rank("RETURN_ERR") = 6
  BY EventRanks, OtherRanks
<1>5. CASE /\ pipe["planner"] = "HELLO" /\ Wire = <<>> /\ shut["planner"]
           /\ q' = [q EXCEPT !["planner"] = @ \o <<"ASSERT", "RETURN_ERR">>]
  <2>1. \A e \in Event : In(e, Queue) => Rank(e) < Rank("ASSERT")
    <3>1. Unranked
      BY <1>1, <1>5 DEF Expected
    <3> QED BY <1>4, <3>1 DEF Unranked
  <2>2. Rank("ASSERT") >= 0 /\ Rank("RETURN_ERR") > Rank("ASSERT")
    BY <1>4
  <2>3. /\ q' \in [Side -> Seq(Event)] /\ q'["module"] = q["module"]
        /\ \A e : In(e, Queue') <=> In(e, Queue) \/ e \in {"ASSERT", "RETURN_ERR"}
        /\ Increasing(Queue') /\ Single("PARSED", Queue')
    BY <1>4, <1>5, <2>1, <2>2, TellsTwo
  <2>4. {"ASSERT", "RETURN_ERR"} \in SUBSET {"ASSERT", "EOF", "RETURN_OK", "RETURN_ERR"}
    OBVIOUS
  <2>5. "ASSERT" \in {"ASSERT", "RETURN_ERR"} <=> pipe["planner"] = "HELLO"
    BY <1>5
  <2> QED BY <1>2, <1>3, <1>5, <2>3, <2>4, <2>5, StopsRest
<1>6. CASE /\ pipe["planner"] \in {"HDR", "DRAIN"} /\ Wire = <<>> /\ shut["planner"]
           /\ q' = [q EXCEPT !["planner"] = @ \o <<"EOF", "RETURN_ERR">>]
  <2>1. /\ Rank("EOF") >= 0 /\ Rank("RETURN_ERR") > Rank("EOF")
        /\ \A e \in Event : In(e, Queue) => Rank(e) < Rank("EOF")
    BY <1>3, <1>4
  <2>2. /\ q' \in [Side -> Seq(Event)] /\ q'["module"] = q["module"]
        /\ \A e : In(e, Queue') <=> In(e, Queue) \/ e \in {"EOF", "RETURN_ERR"}
        /\ Increasing(Queue') /\ Single("PARSED", Queue')
    BY <1>4, <1>6, <2>1, TellsTwo
  <2>3. {"EOF", "RETURN_ERR"} \in SUBSET {"ASSERT", "EOF", "RETURN_OK", "RETURN_ERR"}
    OBVIOUS
  <2>4. "ASSERT" \in {"EOF", "RETURN_ERR"} <=> pipe["planner"] = "HELLO"
    BY <1>6
  <2> QED BY <1>2, <1>3, <1>6, <2>2, <2>3, <2>4, StopsRest
<1>7. CASE /\ pipe["planner"] = "DRAIN"
           /\ q' = [q EXCEPT !["planner"] = @ \o <<"RETURN_OK">>]
  <2>1. /\ Rank("RETURN_OK") >= 0
        /\ \A e \in Event : In(e, Queue) => Rank(e) < Rank("RETURN_OK")
    BY <1>3, <1>4
  <2>2. /\ q' \in [Side -> Seq(Event)] /\ q'["module"] = q["module"]
        /\ \A e : In(e, Queue') <=> In(e, Queue) \/ e = "RETURN_OK"
        /\ Increasing(Queue') /\ Single("PARSED", Queue')
    BY <1>4, <1>7, <2>1, TellsOne
  <2>3. {"RETURN_OK"} \in SUBSET {"ASSERT", "EOF", "RETURN_OK", "RETURN_ERR"}
        /\ \A e : In(e, Queue') <=> In(e, Queue) \/ e \in {"RETURN_OK"}
    BY <2>2
  <2>4. "ASSERT" \in {"RETURN_OK"} <=> pipe["planner"] = "HELLO"
    BY <1>7
  <2> QED BY <1>2, <1>3, <1>7, <2>2, <2>3, <2>4, StopsRest
<1> QED BY <1>2, <1>5, <1>6, <1>7

LEMMA PlannerPipeInv == ASSUME IInv, PlannerPipe PROVE IInv'
<1>1. "planner" \in Side /\ Pipe("planner")
  BY DEF PlannerPipe, Side
<1>2. Wire = chan["planner"]
  BY DEF Wire
<1> QED BY <1>1, <1>2, PipeIs, ReadHelloInv, ReadEndInv, ReadPacketInv, StopsInv

-----------------------------------------------------------------------------
(* An event of the mediator.                                               *)

\* What the parser, held and what was told become.
LEMMA AfterIs ==
  ASSUME NEW ev, vparser \in BOOLEAN
  PROVE  /\ ev = "ASSERT" =>
               After(ev) = [vparser |-> vparser, held |-> held, told |-> Append(told, "ASSERT")]
         /\ ev \in Packet /\ vparser =>
               After(ev) = [vparser |-> vparser, held |-> Append(held, ev), told |-> told]
         /\ ev = "SAVE_VALUE" /\ ~vparser =>
               After(ev) = [vparser |-> TRUE, held |-> held, told |-> told]
         /\ ev = "SAVE_STREAM" /\ ~vparser =>
               After(ev) = [vparser |-> vparser, held |-> held, told |-> Append(told, "SAVE_BEGIN")]
         /\ ev \in {"SAVE_DONE", "ERROR"} /\ ~vparser =>
               After(ev) = [vparser |-> vparser, held |-> held, told |-> Append(told, ev)]
         /\ ev = "BYE" /\ ~vparser =>
               After(ev) = [vparser |-> vparser, held |-> held, told |-> told]
         /\ ev \notin Packet \cup {"ASSERT", "PARSED"} =>
               After(ev) = [vparser |-> vparser, held |-> held, told |-> told]
<1>1. CASE ev = "ASSERT"
  BY <1>1 DEF After, Packet
<1>2. CASE ev \in Packet /\ vparser
  BY <1>2 DEF After, Packet, Take
<1>3. CASE ev \in Packet /\ ~vparser
  BY <1>3 DEF After, Packet, Take
<1>4. CASE ev \notin Packet \cup {"ASSERT", "PARSED"}
  BY <1>4 DEF After, Packet
<1>5. CASE ev = "PARSED"
  BY <1>5 DEF Packet
<1> QED BY <1>1, <1>2, <1>3, <1>4, <1>5

\* What is put off when both packets came while the value was being parsed.
LEMMA FoldHeld ==
  ASSUME NEW m
  PROVE  FoldLeft(Take, m, <<"SAVE_DONE", "BYE">>) = Take(Take(m, "SAVE_DONE"), "BYE")
<1>1. \A a, b : FoldLeft(Take, m, <<a, b>>) = Take(Take(m, a), b)
  BY FoldTwo
<1> QED BY <1>1, Zenon

\* What the parser's end makes of what was put off.
LEMMA AfterParsed ==
  ASSUME held \in {<<>>, <<"SAVE_DONE">>, <<"SAVE_DONE", "BYE">>}
  PROVE  After("PARSED") =
            [vparser |-> FALSE, held |-> <<>>,
             told |-> IF held = <<>> THEN Append(told, "SAVE_BEGIN")
                                     ELSE Append(Append(told, "SAVE_BEGIN"), "SAVE_DONE")]
<1> DEFINE m == [vparser |-> FALSE, held |-> <<>>, told |-> Append(told, "SAVE_BEGIN")]
           d == [vparser |-> FALSE, held |-> <<>>,
                 told |-> Append(Append(told, "SAVE_BEGIN"), "SAVE_DONE")]
<1>1. After("PARSED") = FoldLeft(Take, m, held)
  BY DEF After, Packet
<1>2. Take(m, "SAVE_DONE") = d /\ Take(d, "BYE") = d
  BY DEF Take
<1> HIDE DEF m, d
<1>3. CASE held = <<>>
  BY <1>1, <1>3, FoldNone DEF m
<1>4. CASE held = <<"SAVE_DONE">>
  <2>1. After("PARSED") = d
    BY <1>1, <1>2, <1>4, FoldOne
  <2>2. held # <<>>
    BY <1>4
  <2> QED BY <2>1, <2>2 DEF d
<1>5. CASE held = <<"SAVE_DONE", "BYE">>
  <2>3. FoldLeft(Take, m, <<"SAVE_DONE", "BYE">>) = Take(Take(m, "SAVE_DONE"), "BYE")
    BY FoldHeld
  <2>1. After("PARSED") = d
    BY <1>1, <1>2, <1>5, <2>3
  <2>2. held # <<>>
    BY <1>5
  <2> QED BY <2>1, <2>2 DEF d
<1> QED BY <1>3, <1>4, <1>5

\* The reports, one after the other.
LEMMA ReportsGrow ==
  /\ Append(<<>>, "ASSERT") = A /\ Append(A, "SAVE_BEGIN") = B /\ Append(B, "SAVE_DONE") = D
  /\ Append(A, "ERROR") = E
  /\ Append(<<>>, "SAVE_DONE") = <<"SAVE_DONE">>
  /\ Append(<<"SAVE_DONE">>, "BYE") = <<"SAVE_DONE", "BYE">>
<1> DEFINE S == {"ASSERT", "SAVE_BEGIN", "SAVE_DONE", "ERROR", "BYE"}
<1>1. /\ "ASSERT" \in S /\ "SAVE_BEGIN" \in S /\ "SAVE_DONE" \in S /\ "ERROR" \in S /\ "BYE" \in S
  OBVIOUS
<1> HIDE DEF S
<1>2. Append(<<>>, "ASSERT") = A /\ Append(<<>>, "SAVE_DONE") = <<"SAVE_DONE">>
  BY <1>1, AppendNone DEF A
<1>3. Append(A, "SAVE_BEGIN") = B
  BY <1>1, AppendOne DEF A, B
<1>4. Append(A, "ERROR") = E
  BY <1>1, AppendOne DEF A, E
<1>5. Append(<<"SAVE_DONE">>, "BYE") = <<"SAVE_DONE", "BYE">>
  BY <1>1, AppendOne
<1>6. Append(B, "SAVE_DONE") = D
  BY <1>1, AppendTwo DEF B, D
<1> QED BY <1>2, <1>3, <1>4, <1>5, <1>6

\* The reports are told apart.
LEMMA ReportsDiffer ==
  /\ A # <<>> /\ E # <<>> /\ B # <<>> /\ D # <<>> /\ A # E /\ A # B /\ A # D /\ E # B /\ E # D
  /\ B # D
  /\ <<"SAVE_DONE">> # <<>> /\ <<"SAVE_DONE", "BYE">> # <<>>
  BY DEF A, B, D, E

\* The event that is handled comes before all that is still on its way.
LEMMA HeadFirst ==
  ASSUME IInv, med = "RUN", Queue # <<>>
  PROVE  /\ Head(Queue) \in Event /\ Tail(Queue) \in Seq(Event)
         /\ \A e : In(e, Queue) <=> In(e, Tail(Queue)) \/ e = Head(Queue)
         /\ Increasing(Tail(Queue)) /\ Single("PARSED", Tail(Queue))
         /\ Head(Queue) = "PARSED" => ~In("PARSED", Tail(Queue))
         /\ Rank(Head(Queue)) # -1 => \A e \in Event :
               In(e, Tail(Queue)) => Rank(e) = -1 \/ Rank(e) > Rank(Head(Queue))
         /\ \A r \in Record : In(r, Wire) => Rank(Head(Queue)) < Rank(r)
<1>1. Queue \in Seq(Event) /\ Increasing(Queue) /\ Single("PARSED", Queue)
  BY DEF IInv, TypeOK, Queue, Side, Ordered, Held
<1>2. /\ Head(Queue) \in Event /\ Tail(Queue) \in Seq(Event)
      /\ \A e : In(e, Queue) <=> In(e, Tail(Queue)) \/ e = Head(Queue)
  BY <1>1, InTail
<1>3. /\ Increasing(Tail(Queue))
      /\ \A e \in Event : In(e, Tail(Queue)) /\ Rank(e) # -1 /\ Rank(Head(Queue)) # -1
                             => Rank(Head(Queue)) < Rank(e)
  BY <1>1, IncreasingTail
<1>4. /\ Single("PARSED", Tail(Queue))
      /\ Head(Queue) = "PARSED" => ~In("PARSED", Tail(Queue))
  BY <1>1, SingleTail
<1>5. ASSUME NEW e \in Event, In(e, Tail(Queue)), Rank(Head(Queue)) # -1
      PROVE  Rank(e) = -1 \/ Rank(e) > Rank(Head(Queue))
  <2>1. Rank(e) \in Int /\ Rank(Head(Queue)) \in Int
    BY RankType
  <2> QED BY <1>3, <1>5, <2>1
<1>6. \A r \in Record : In(r, Wire) => Rank(Head(Queue)) < Rank(r)
  BY <1>2 DEF IInv, Ordered
<1> QED BY <1>2, <1>3, <1>4, <1>5, <1>6

\* Of the process's reports, none that is not later than ev is still on its way.
LEMMA Later ==
  ASSUME IInv, med = "RUN", Queue # <<>>, NEW e \in Packet \cup {"ASSERT"},
         Rank(Head(Queue)) >= Rank(e)
  PROVE  ~In(e, Tail(Queue)) /\ ~In(e, Wire) /\ Rank(e) \in 0..3
<1>1. e \in Event /\ (e = "ASSERT" \/ e \in Record) /\ Rank(e) \in 0..3
      /\ Rank(Head(Queue)) \in Int
  BY EventRanks, OtherRanks, RankType
<1>2. ~In(e, Tail(Queue))
  BY <1>1, HeadFirst
<1>3. CASE e \in Record
  BY <1>1, <1>2, <1>3, HeadFirst
<1>4. CASE e = "ASSERT"
  <2>1. \A r \in Record : In(r, Wire) => r # "ASSERT"
    BY DEF Record, Packet
  <2>2. Wire \in Seq(Record)
    BY DEF IInv, TypeOK, Wire, Side
  <2> QED BY <1>1, <1>2, <1>4, <2>1, <2>2, InType
<1> QED BY <1>1, <1>3, <1>4

\* What the first event does, by kind.
Handling(ev, t, v, h) ==
  /\ v \in BOOLEAN
  /\ \/ /\ ev = "ASSERT" /\ told = <<>> /\ ~vparser /\ held = <<>>
        /\ t = A /\ ~v /\ h = <<>>
     \/ /\ ev = "SAVE_STREAM" /\ told = A /\ ~vparser /\ held = <<>>
        /\ t = B /\ ~v /\ h = <<>>
     \/ /\ ev = "SAVE_VALUE" /\ told = A /\ ~vparser /\ held = <<>>
        /\ t = A /\ v /\ h = <<>>
     \/ /\ ev = "ERROR" /\ told = A /\ ~vparser /\ held = <<>>
        /\ t = E /\ ~v /\ h = <<>>
     \/ /\ ev = "SAVE_DONE" /\ told = A /\ vparser /\ held = <<>>
        /\ t = A /\ v /\ h = <<"SAVE_DONE">>
     \/ /\ ev = "SAVE_DONE" /\ told = B /\ ~vparser /\ held = <<>>
        /\ t = D /\ ~v /\ h = <<>>
     \/ /\ ev = "BYE" /\ told = A /\ vparser /\ held = <<"SAVE_DONE">>
        /\ t = A /\ v /\ h = <<"SAVE_DONE", "BYE">>
     \/ /\ ev = "BYE" /\ told = D /\ ~vparser /\ held = <<>>
        /\ t = D /\ ~v /\ h = <<>>
     \/ /\ ev = "PARSED" /\ told = A /\ vparser /\ held = <<>>
        /\ t = B /\ ~v /\ h = <<>>
     \/ /\ ev = "PARSED" /\ told = A /\ vparser
        /\ held \in {<<"SAVE_DONE">>, <<"SAVE_DONE", "BYE">>}
        /\ t = D /\ ~v /\ h = <<>>
     \/ /\ ev \notin Packet \cup {"ASSERT", "PARSED"}
        /\ t = told /\ v = vparser /\ h = held

\* Every event is handled in one of these ways.
LEMMA Handles ==
  ASSUME IInv, med = "RUN", Queue # <<>>
  PROVE  LET after == After(Head(Queue))
         IN  Handling(Head(Queue), after.told, after.vparser, after.held)
<1> DEFINE ev == Head(Queue)
           after == After(ev)
<1>1. /\ Expected /\ Held /\ Cut /\ vparser \in BOOLEAN /\ told \in Reported
      /\ ev \in Event /\ In(ev, Queue)
  BY HeadFirst DEF IInv, TypeOK, ToldOK
<1>2. ev \in Packet \cup {"ASSERT"} => pipe["planner"] # "HELLO"
  <2>1. ev \in Packet \cup {"ASSERT"} => Rank(ev) # -1
    BY EventRanks, OtherRanks
  <2> QED BY <1>1, <2>1 DEF Expected, Unranked
<1>3. ev \in Packet => Coming(ev) /\ (ev # "ASSERT")
  BY <1>1, EventRanks DEF Coming
<1>4. \A e \in Packet \cup {"ASSERT"} : Rank(ev) > Rank(e) => ~In(e, Queue) /\ ~In(e, Wire)
  <2>1. ASSUME NEW e \in Packet \cup {"ASSERT"}, Rank(ev) > Rank(e)
        PROVE  ~In(e, Queue) /\ ~In(e, Wire)
    <3>1. Rank(ev) \in Int /\ Rank(e) \in Int
      BY RankType
    <3>2. ~In(e, Tail(Queue)) /\ ~In(e, Wire)
      BY <2>1, <3>1, Later
    <3>3. e # ev
      BY <2>1, <3>1
    <3> QED BY <3>2, <3>3, HeadFirst
  <2> QED BY <2>1
<1> DEFINE t == after.told
           v == after.vparser
           h == after.held
<1>12. /\ ev = "ASSERT" => t = Append(told, "ASSERT") /\ v = vparser /\ h = held
       /\ ev \in Packet /\ vparser => t = told /\ v = vparser /\ h = Append(held, ev)
       /\ ev = "SAVE_VALUE" /\ ~vparser => t = told /\ v = TRUE /\ h = held
       /\ ev = "SAVE_STREAM" /\ ~vparser =>
              t = Append(told, "SAVE_BEGIN") /\ v = vparser /\ h = held
       /\ ev \in {"SAVE_DONE", "ERROR"} /\ ~vparser =>
              t = Append(told, ev) /\ v = vparser /\ h = held
       /\ ev = "BYE" /\ ~vparser => t = told /\ v = vparser /\ h = held
       /\ ev \notin Packet \cup {"ASSERT", "PARSED"} => t = told /\ v = vparser /\ h = held
  BY <1>1, AfterIs
<1>13. ev = "PARSED" /\ held \in {<<>>, <<"SAVE_DONE">>, <<"SAVE_DONE", "BYE">>} =>
          /\ h = <<>> /\ v = FALSE
          /\ t = IF held = <<>> THEN Append(told, "SAVE_BEGIN")
                                ELSE Append(Append(told, "SAVE_BEGIN"), "SAVE_DONE")
  <2> SUFFICES ASSUME ev = "PARSED", held \in {<<>>, <<"SAVE_DONE">>, <<"SAVE_DONE", "BYE">>}
               PROVE  /\ h = <<>> /\ v = FALSE
                      /\ t = IF held = <<>> THEN Append(told, "SAVE_BEGIN")
                                            ELSE Append(Append(told, "SAVE_BEGIN"), "SAVE_DONE")
    OBVIOUS
  <2>1. after = After("PARSED")
    OBVIOUS
  <2>2. After("PARSED") =
              [vparser |-> FALSE, held |-> <<>>,
               told |-> IF held = <<>> THEN Append(told, "SAVE_BEGIN")
                                       ELSE Append(Append(told, "SAVE_BEGIN"), "SAVE_DONE")]
    BY AfterParsed
  <2> DEFINE u == IF held = <<>> THEN Append(told, "SAVE_BEGIN")
                              ELSE Append(Append(told, "SAVE_BEGIN"), "SAVE_DONE")
  <2>3. after = [vparser |-> FALSE, held |-> <<>>, told |-> u]
    BY <2>1, <2>2
  <2> HIDE DEF after, ev, u
  <2>4. v = FALSE /\ h = <<>> /\ t = u
    BY <2>3
  <2> QED BY <2>4 DEF u
<1> SUFFICES Handling(ev, t, v, h)
  OBVIOUS
<1> HIDE DEF ev, t, v, h
<1>5. CASE ev = "ASSERT"
  <2>1. told = <<>> /\ ~vparser /\ held = <<>>
    BY <1>1, <1>5, ReportsDiffer DEF Expected, Held
  <2> QED BY <1>1, <1>5, <2>1, <1>12, ReportsGrow DEF Handling
<1>6. CASE ev \in {"SAVE_STREAM", "SAVE_VALUE", "ERROR"}
  <2>1. Rank(ev) > Rank("ASSERT") /\ ev \in Packet
    BY <1>6, SaveBeginRank, OtherRanks DEF Packet
  <2>2. SaveComing \/ Coming("ERROR")
    BY <1>3, <1>6, <2>1 DEF SaveComing
  <2>3. ~In("ASSERT", Queue) /\ told # <<>>
    BY <1>1, <1>2, <1>4, <2>1 DEF Expected
  <2>4. told = A /\ ~vparser /\ held = <<>>
    BY <1>1, <2>2, <2>3 DEF Expected, Held
  <2>5. CASE ev = "SAVE_STREAM"
    <3>1. Append(told, "SAVE_BEGIN") = B
      BY <2>4, ReportsGrow
    <3>2. t = B
      BY <1>12, <2>4, <2>5, <3>1
    <3>3. v = vparser /\ h = held
      BY <1>12, <2>4, <2>5
    <3> QED BY <1>1, <2>4, <2>5, <3>2, <3>3 DEF Handling
  <2>6. CASE ev = "SAVE_VALUE"
    BY <1>1, <2>4, <2>6, <1>12 DEF Handling
  <2>7. CASE ev = "ERROR"
    <3>1. Append(told, "ERROR") = E
      BY <2>4, ReportsGrow
    <3>2. t = E
      BY <1>12, <2>4, <2>7, <3>1
    <3>3. v = vparser /\ h = held
      BY <1>12, <2>4, <2>7
    <3> QED BY <1>1, <2>4, <2>7, <3>2, <3>3 DEF Handling
  <2> QED BY <1>6, <2>5, <2>6, <2>7
<1>7. CASE ev = "SAVE_DONE"
  <2>1. /\ Rank(ev) > Rank("ASSERT") /\ Rank(ev) > Rank("SAVE_STREAM")
        /\ Rank(ev) > Rank("SAVE_VALUE") /\ ev \in Packet
    BY <1>7, SaveBeginRank, OtherRanks DEF Packet
  <2>2. Coming("SAVE_DONE")
    BY <1>3, <1>7, <2>1
  <2>3. ~SaveComing
    BY <1>4, <2>1 DEF SaveComing, Coming, Packet
  <2>4. held = <<>> /\ (vparser \/ told = B)
    BY <1>1, <2>2, <2>3 DEF Expected
  <2>5. CASE vparser
    <3>1. told = A
      BY <1>1, <2>5 DEF Held
    <3> QED BY <1>1, <1>7, <2>1, <2>4, <2>5, <3>1, <1>12, ReportsGrow DEF Handling
  <2>6. CASE ~vparser
    <3>1. told = B
      BY <2>4, <2>6
    <3>2. Append(told, "SAVE_DONE") = D
      BY <3>1, ReportsGrow
    <3>3. t = D
      BY <1>7, <1>12, <2>6, <3>2
    <3>4. v = vparser /\ h = held
      BY <1>7, <1>12, <2>6
    <3> QED BY <1>1, <1>7, <2>4, <2>6, <3>1, <3>3, <3>4 DEF Handling
  <2> QED BY <2>5, <2>6
<1>8. CASE ev = "BYE"
  <2>1. Rank(ev) > Rank("SAVE_DONE") /\ ev \in Packet
    BY <1>8, OtherRanks DEF Packet
  <2>2. Coming("BYE")
    BY <1>3, <1>8, <2>1
  <2>3. ~Coming("SAVE_DONE")
    BY <1>4, <2>1 DEF Coming, Packet
  <2>4. held \in {<<>>, <<"SAVE_DONE">>} /\ (held # <<>> \/ told = D)
    BY <1>1, <2>2, <2>3 DEF Expected
  <2>5. CASE vparser
    <3>1. told = A /\ held = <<"SAVE_DONE">>
      BY <1>1, <2>4, <2>5, ReportsDiffer DEF Held
    <3> QED BY <1>1, <1>8, <2>1, <2>5, <3>1, <1>12, ReportsGrow DEF Handling
  <2>6. CASE ~vparser
    <3>1. told = D /\ held = <<>>
      BY <1>1, <2>4, <2>6 DEF Held
    <3> QED BY <1>1, <1>8, <2>1, <2>6, <3>1, <1>12 DEF Handling
  <2> QED BY <2>5, <2>6
<1>9. CASE ev = "PARSED"
  <2>1. /\ vparser /\ told = A
        /\ held \in {<<>>, <<"SAVE_DONE">>, <<"SAVE_DONE", "BYE">>}
    BY <1>1, <1>9 DEF Held
  <2>2. /\ h = <<>> /\ v = FALSE
        /\ held = <<>> => t = B
        /\ held # <<>> => t = D
    BY <1>9, <1>13, <2>1, ReportsGrow
  <2> QED BY <1>9, <2>1, <2>2, ReportsDiffer DEF Handling
<1>10. CASE ev \notin Packet \cup {"ASSERT", "PARSED"}
  BY <1>1, <1>10, <1>12 DEF Handling
<1> QED BY <1>5, <1>6, <1>7, <1>8, <1>9, <1>10 DEF Packet

\* Whether the wire was cut stays a truth value.
LEMMA RunCuts == ASSUME IInv, Run PROVE cut' \in BOOLEAN
<1>1. cut \in BOOLEAN
  BY DEF IInv, TypeOK
<1> QED BY <1>1 DEF Run

\* What Run does when the mediator is not over yet.
LEMMA RunGoes ==
  ASSUME IInv, Run, med' = "RUN"
  PROVE  /\ med = "RUN" /\ Queue # <<>> /\ Handling(Head(Queue), told', vparser', held')
         /\ Queue' = Tail(Queue) /\ Wire' = Wire /\ q' \in [Side -> Seq(Event)]
         /\ q'["module"] = q["module"]
         /\ UNCHANGED <<planner, grace, destroyed, enabled, reaped, child, appVars, runner,
                        runnerTold, wended, chan, pipe>>
         /\ medPipe' = (medPipe /\ Head(Queue) \notin {"RETURN_OK", "RETURN_ERR"})
         /\ (medPipe' \/ vparser') /\ vparser' \in BOOLEAN
         /\ shut' \in [Side -> BOOLEAN] /\ shut'["planner"] = shut["planner"]
         /\ shut["module"] => shut'["module"]
         /\ shut'["module"] => shut["module"] \/ destroyed
         /\ killSent' \in BOOLEAN
         /\ \/ armed' = armed /\ timer' = timer
            \/ /\ armed' = (grace # "off")
               /\ timer' = IF grace = "timed" /\ ~armed THEN "set" ELSE timer
<1> DEFINE ev == Head(Queue)
           after == After(ev)
           piped == medPipe /\ ev \notin {"RETURN_OK", "RETURN_ERR"}
           over == ~piped /\ ~after.vparser
<1>1. med = "RUN" /\ Queue # <<>> /\ Queue = q["planner"]
  BY DEF Run, Queue
<1>2. Handling(ev, after.told, after.vparser, after.held)
  BY <1>1, Handles
<1>3. /\ told' = after.told /\ vparser' = after.vparser /\ medPipe' = piped
      /\ med' = (IF over THEN "FIN" ELSE "RUN")
      /\ held' = IF over THEN <<>> ELSE after.held
      /\ q' = [q EXCEPT !["planner"] = IF over THEN <<>> ELSE Tail(@)]
      /\ pipe' = [pipe EXCEPT !["planner"] = IF over THEN "FIN" ELSE @]
      /\ ~over => \/ Abandon(ev) /\ destroyed
                  \/ UNCHANGED <<shut, armed, timer, killSent>>
      /\ UNCHANGED <<planner, grace, destroyed, enabled, reaped, child, appVars, runner,
                     runnerTold, wended, chan>>
  BY DEF Run, Queue
<1> HIDE DEF after
<1>4. ~over
  BY <1>3
<1>5. held' = after.held /\ q' = [q EXCEPT !["planner"] = Tail(@)] /\ pipe' = [pipe EXCEPT !["planner"] = @]
  BY <1>3, <1>4
<1>6. TypeOK /\ "planner" \in Side /\ "module" \in Side /\ "planner" # "module"
  BY DEF IInv, Side
<1>7. pipe' = pipe /\ Queue' = Tail(Queue) /\ q' \in [Side -> Seq(Event)]
      /\ q'["module"] = q["module"]
  <2>1. Tail(Queue) \in Seq(Event)
    BY <1>1, HeadFirst
  <2> QED BY <1>5, <1>6, <2>1 DEF TypeOK, Queue
<1>8. Wire' = Wire
  BY <1>3 DEF Wire
<1>9. Handling(ev, told', vparser', held')
  BY <1>2, <1>3, <1>5
<1>10. medPipe' \/ vparser'
  BY <1>3, <1>4
<1>11. vparser' \in BOOLEAN
  BY <1>6, <1>9 DEF Handling, TypeOK
<1>12. CASE Abandon(ev) /\ destroyed
  <2>1. /\ shut' = [shut EXCEPT !["module"] = TRUE]
        /\ armed' = (grace # "off")
        /\ timer' = IF grace = "timed" /\ ~armed THEN "set" ELSE timer
        /\ killSent' = (killSent \/ ~Patient(ev))
    BY <1>12 DEF Abandon
  <2>2. /\ shut' \in [Side -> BOOLEAN] /\ shut'["planner"] = shut["planner"]
        /\ shut'["module"]
    BY <1>6, <2>1 DEF TypeOK
  <2>3. killSent' \in BOOLEAN
    BY <2>1
  <2> QED BY <1>1, <1>3, <1>7, <1>8, <1>9, <1>10, <1>11, <1>12, <2>1, <2>2, <2>3
<1>13. CASE UNCHANGED <<shut, armed, timer, killSent>>
  <2>1. shut' = shut /\ armed' = armed /\ timer' = timer /\ killSent' = killSent
    BY <1>13
  <2>2. shut' \in [Side -> BOOLEAN] /\ killSent' \in BOOLEAN
    BY <1>6, <2>1 DEF TypeOK
  <2> QED BY <1>1, <1>3, <1>7, <1>8, <1>9, <1>10, <1>11, <2>1, <2>2
<1> QED BY <1>3, <1>4, <1>12, <1>13

\* The reports after the event, what is put off, and what is still on its way.
LEMMA RunReports ==
  ASSUME IInv, med = "RUN", Queue # <<>>, Handling(Head(Queue), told', vparser', held'),
         Queue' = Tail(Queue), Wire' = Wire
  PROVE  /\ told' \in Reported /\ held' \in {<<>>, <<"SAVE_DONE">>, <<"SAVE_DONE", "BYE">>}
         /\ vparser' => told' = A
         /\ ~vparser' => held' = <<>>
         /\ vparser /\ Head(Queue) # "PARSED" => vparser'
         /\ \A e : In(e, Queue') => In(e, Queue)
         /\ \A e \in Packet : Coming(e)' => Coming(e)
         /\ \A e \in Packet : Coming(e) /\ e # Head(Queue) => Coming(e)'
         /\ \A e \in Packet : Rank(Head(Queue)) >= Rank(e) => ~Coming(e)'
         /\ Rank(Head(Queue)) >= 0 => ~In("ASSERT", Queue')
         /\ In("ASSERT", Queue) /\ Head(Queue) # "ASSERT" => In("ASSERT", Queue')
<1> DEFINE ev == Head(Queue)
<1>1. /\ Held /\ vparser \in BOOLEAN /\ told \in Reported
      /\ ev \in Event /\ \A e : In(e, Queue) <=> In(e, Queue') \/ e = ev
  BY HeadFirst DEF IInv, TypeOK, ToldOK
<1>2. \A e \in Packet \cup {"ASSERT"} : Rank(ev) >= Rank(e) => ~In(e, Queue') /\ ~In(e, Wire')
  BY Later
<1> HIDE DEF ev
<1>3. Handling(ev, told', vparser', held')
  BY DEF ev
<1>4. /\ told' \in Reported /\ held' \in {<<>>, <<"SAVE_DONE">>, <<"SAVE_DONE", "BYE">>}
      /\ vparser' => told' = A
      /\ ~vparser' => held' = <<>>
      /\ vparser /\ ev # "PARSED" => vparser'
  BY <1>1, <1>3 DEF Handling, Held, Reported, Packet
<1>5. /\ \A e \in Packet : Coming(e)' => Coming(e)
      /\ \A e \in Packet : Coming(e) /\ e # ev => Coming(e)'
  BY <1>1 DEF Coming
<1>6. \A e \in Packet : Rank(ev) >= Rank(e) => ~Coming(e)'
  BY <1>2 DEF Coming
<1>7. Rank(ev) >= 0 => ~In("ASSERT", Queue')
  BY <1>2, OtherRanks
<1>8. ev = Head(Queue)
  BY DEF ev
<1> QED BY <1>1, <1>4, <1>5, <1>6, <1>7, <1>8

\* What is expected, what is true and what is kept, after an event.
LEMMA RunExpected == ASSUME IInv, Run, med' = "RUN" PROVE Expected' /\ Truthful' /\ Kept'
<1> DEFINE ev == Head(Queue)
<1>1. /\ med = "RUN" /\ Queue # <<>> /\ Handling(ev, told', vparser', held')
      /\ Queue' = Tail(Queue) /\ Wire' = Wire /\ pipe' = pipe /\ app' = app /\ result' = result
      /\ shut["module"] => shut'["module"]
  BY RunGoes
<1>2. Expected /\ Truthful /\ Kept /\ Held /\ ev \in Event
  BY <1>1, HeadFirst DEF IInv
<1>3. /\ told' \in Reported /\ held' \in {<<>>, <<"SAVE_DONE">>, <<"SAVE_DONE", "BYE">>}
      /\ vparser' => told' = A
      /\ ~vparser' => held' = <<>>
      /\ vparser /\ ev # "PARSED" => vparser'
      /\ \A e : In(e, Queue') => In(e, Queue)
      /\ \A e \in Packet : Coming(e)' => Coming(e)
      /\ \A e \in Packet : Coming(e) /\ e # ev => Coming(e)'
      /\ \A e \in Packet : Rank(ev) >= Rank(e) => ~Coming(e)'
      /\ Rank(ev) >= 0 => ~In("ASSERT", Queue')
      /\ In("ASSERT", Queue) /\ ev # "ASSERT" => In("ASSERT", Queue')
  BY <1>1, RunReports
<1>4. pipe["planner"] = "HELLO" => Unranked' /\ Rank(ev) = -1
  <2>1. \A e : In(e, Queue') \/ e = ev => In(e, Queue)
    BY <1>1, HeadFirst
  <2> QED BY <1>2, <2>1 DEF Expected, Unranked
<1> HIDE DEF ev
<1>5. /\ Rank("SAVE_STREAM") = 1 /\ Rank("SAVE_VALUE") = 1 /\ Rank("ERROR") = 1
      /\ Rank("SAVE_DONE") = 2 /\ Rank("BYE") = 3 /\ Rank("ASSERT") = 0 /\ Rank("PARSED") = -1
  BY SaveBeginRank, OtherRanks
<1>6. {"SAVE_STREAM", "SAVE_VALUE", "ERROR", "SAVE_DONE", "BYE"} = Packet
  BY DEF Packet
<1>7. /\ Coming("ERROR")' => Coming("ERROR")
      /\ SaveComing' => SaveComing
      /\ Coming("SAVE_DONE")' => Coming("SAVE_DONE")
      /\ Coming("BYE")' => Coming("BYE")
  BY <1>3, <1>6 DEF SaveComing
<1>8. /\ Coming("ERROR") /\ ev # "ERROR" => Coming("ERROR")'
      /\ SaveComing /\ ev \notin {"SAVE_STREAM", "SAVE_VALUE"} => SaveComing'
      /\ Coming("SAVE_DONE") /\ ev # "SAVE_DONE" => Coming("SAVE_DONE")'
      /\ Coming("BYE") /\ ev # "BYE" => Coming("BYE")'
  BY <1>3, <1>6 DEF SaveComing
<1>9. /\ Rank(ev) >= 1 => ~SaveComing' /\ ~Coming("ERROR")'
      /\ Rank(ev) >= 2 => ~Coming("SAVE_DONE")'
      /\ Rank(ev) >= 3 => ~Coming("BYE")'
  BY <1>3, <1>5, <1>6 DEF SaveComing
<1>10. pipe["planner"] = "HELLO" => ev \notin Packet \cup {"ASSERT"}
  BY <1>4, <1>5 DEF Packet
<1>11. /\ ev = "ERROR" => result = "error" /\ app = "CLOSING"
       /\ ev \in {"SAVE_STREAM", "SAVE_VALUE"} =>
              result \in {"stream", "value"} /\ app \in {"SAVEDONE", "CLOSING"}
       /\ ev = "SAVE_DONE" => result \in {"stream", "value"} /\ app = "CLOSING"
       /\ ev = "BYE" => app = "CLOSING"
  <2>1. /\ In(ev, Queue) /\ Ordered
        /\ app \in {"SAVEBEGIN", "SAVEDONE"} => result \in {"stream", "value"}
        /\ app \in {"INI", "START", "SAVEBEGIN", "SAVEDONE", "CLOSING"}
    BY <1>1, HeadFirst DEF IInv, App, TypeOK, ev
  <2>2. ev \in Packet => Rank(ev) <= Sent
    BY <1>2, <1>5, <1>6, <2>1 DEF Ordered
  <2>3. ev \in {"SAVE_STREAM", "SAVE_VALUE", "ERROR"} => app \in {"SAVEDONE", "CLOSING"}
    BY <1>5, <1>6, <2>1, <2>2 DEF Sent
  <2>4. ev \in {"SAVE_DONE", "BYE"} => app = "CLOSING"
    BY <1>5, <1>6, <2>1, <2>2 DEF Sent
  <2>5. /\ ev = "ERROR" => result = "error"
        /\ ev \in {"SAVE_STREAM", "SAVE_VALUE", "SAVE_DONE"} => result \in {"stream", "value"}
    BY <1>2, <2>1 DEF Truthful, Coming, SaveComing
  <2> QED BY <2>1, <2>3, <2>4, <2>5
<1>12. CASE ev = "ASSERT"
  <2>1. told = <<>> /\ told' = A /\ ~vparser /\ ~vparser' /\ held = <<>> /\ held' = <<>>
    BY <1>1, <1>12, ReportsDiffer DEF Handling, Packet
  <2>2. Expected'
    BY <1>1, <1>2, <1>3, <1>4, <1>5, <1>7, <1>8, <1>9, <1>10, <1>12, <2>1, ReportsDiffer DEF Expected
  <2>3. Truthful'
    BY <1>1, <1>2, <1>3, <1>5, <1>7, <1>8, <1>9, <1>12, <2>1, ReportsDiffer DEF Truthful
  <2>4. Kept'
    BY <1>1, <1>2, <1>3, <1>5, <1>7, <1>8, <1>9, <1>12, <2>1, ReportsDiffer DEF Kept
  <2> QED BY <2>2, <2>3, <2>4
<1>13. CASE ev = "SAVE_STREAM"
  <2>1. told = A /\ told' = B /\ ~vparser /\ ~vparser' /\ held = <<>> /\ held' = <<>>
    BY <1>1, <1>13, ReportsDiffer DEF Handling, Packet
  <2>2. Expected'
    BY <1>1, <1>2, <1>3, <1>4, <1>5, <1>7, <1>8, <1>9, <1>10, <1>13, <2>1, ReportsDiffer DEF Expected
  <2>3. Truthful'
    BY <1>1, <1>2, <1>3, <1>5, <1>7, <1>8, <1>9, <1>11, <1>13, <2>1, ReportsDiffer DEF Truthful
  <2>4. Kept'
    BY <1>1, <1>2, <1>3, <1>5, <1>7, <1>8, <1>9, <1>13, <2>1, ReportsDiffer DEF Kept
  <2> QED BY <2>2, <2>3, <2>4
<1>14. CASE ev = "SAVE_VALUE"
  <2>1. told = A /\ told' = A /\ ~vparser /\ vparser' /\ held = <<>> /\ held' = <<>>
    BY <1>1, <1>14, ReportsDiffer DEF Handling, Packet
  <2>2. Expected'
    BY <1>1, <1>2, <1>3, <1>4, <1>5, <1>7, <1>8, <1>9, <1>10, <1>14, <2>1, ReportsDiffer DEF Expected
  <2>3. Truthful'
    BY <1>1, <1>2, <1>3, <1>5, <1>7, <1>8, <1>9, <1>11, <1>14, <2>1, ReportsDiffer DEF Truthful
  <2>4. Kept'
    BY <1>1, <1>2, <1>3, <1>5, <1>7, <1>8, <1>9, <1>14, <2>1, ReportsDiffer DEF Kept
  <2> QED BY <2>2, <2>3, <2>4
<1>15. CASE ev = "ERROR"
  <2>1. told = A /\ told' = E /\ ~vparser /\ ~vparser' /\ held = <<>> /\ held' = <<>>
    BY <1>1, <1>15, ReportsDiffer DEF Handling, Packet
  <2>2. Expected'
    BY <1>1, <1>2, <1>3, <1>4, <1>5, <1>7, <1>8, <1>9, <1>10, <1>15, <2>1, ReportsDiffer DEF Expected
  <2>3. Truthful'
    BY <1>1, <1>2, <1>3, <1>5, <1>7, <1>8, <1>9, <1>11, <1>15, <2>1, ReportsDiffer DEF Truthful
  <2>4. Kept'
    BY <1>1, <1>2, <1>3, <1>5, <1>7, <1>8, <1>9, <1>15, <2>1, ReportsDiffer DEF Kept
  <2> QED BY <2>2, <2>3, <2>4
<1>16. CASE ev = "SAVE_DONE" /\ vparser
  <2>1. told = A /\ told' = A /\ vparser /\ vparser' /\ held = <<>> /\ held' = <<"SAVE_DONE">>
    BY <1>1, <1>16, ReportsDiffer DEF Handling, Packet
  <2>2. Expected'
    BY <1>1, <1>2, <1>3, <1>4, <1>5, <1>7, <1>8, <1>9, <1>10, <1>16, <2>1, ReportsDiffer DEF Expected
  <2>3. Truthful'
    BY <1>1, <1>2, <1>3, <1>5, <1>7, <1>8, <1>9, <1>11, <1>16, <2>1, ReportsDiffer DEF Truthful
  <2>4. Kept'
    BY <1>1, <1>2, <1>3, <1>5, <1>7, <1>8, <1>9, <1>16, <2>1, ReportsDiffer DEF Kept
  <2> QED BY <2>2, <2>3, <2>4
<1>17. CASE ev = "SAVE_DONE" /\ ~vparser
  <2>1. told = B /\ told' = D /\ ~vparser /\ ~vparser' /\ held = <<>> /\ held' = <<>>
    BY <1>1, <1>17, ReportsDiffer DEF Handling, Packet
  <2>2. Expected'
    BY <1>1, <1>2, <1>3, <1>4, <1>5, <1>7, <1>8, <1>9, <1>10, <1>17, <2>1, ReportsDiffer DEF Expected
  <2>3. Truthful'
    BY <1>1, <1>2, <1>3, <1>5, <1>7, <1>8, <1>9, <1>11, <1>17, <2>1, ReportsDiffer DEF Truthful
  <2>4. Kept'
    BY <1>1, <1>2, <1>3, <1>5, <1>7, <1>8, <1>9, <1>17, <2>1, ReportsDiffer DEF Kept
  <2> QED BY <2>2, <2>3, <2>4
<1>18. CASE ev = "BYE" /\ vparser
  <2>1. told = A /\ told' = A /\ vparser /\ vparser' /\ held = <<"SAVE_DONE">> /\ held' = <<"SAVE_DONE", "BYE">>
    BY <1>1, <1>18, ReportsDiffer DEF Handling, Packet
  <2>2. Expected'
    BY <1>1, <1>2, <1>3, <1>4, <1>5, <1>7, <1>8, <1>9, <1>10, <1>18, <2>1, ReportsDiffer DEF Expected
  <2>3. Truthful'
    BY <1>1, <1>2, <1>3, <1>5, <1>7, <1>8, <1>9, <1>11, <1>18, <2>1, ReportsDiffer DEF Truthful
  <2>4. Kept'
    BY <1>1, <1>2, <1>3, <1>5, <1>7, <1>8, <1>9, <1>18, <2>1, ReportsDiffer DEF Kept
  <2> QED BY <2>2, <2>3, <2>4
<1>19. CASE ev = "BYE" /\ ~vparser
  <2>1. told = D /\ told' = D /\ ~vparser /\ ~vparser' /\ held = <<>> /\ held' = <<>>
    BY <1>1, <1>19, ReportsDiffer DEF Handling, Packet
  <2>2. Expected'
    BY <1>1, <1>2, <1>3, <1>4, <1>5, <1>7, <1>8, <1>9, <1>10, <1>19, <2>1, ReportsDiffer DEF Expected
  <2>3. Truthful'
    BY <1>1, <1>2, <1>3, <1>5, <1>7, <1>8, <1>9, <1>11, <1>19, <2>1, ReportsDiffer DEF Truthful
  <2>4. Kept'
    BY <1>1, <1>2, <1>3, <1>5, <1>7, <1>8, <1>9, <1>19, <2>1, ReportsDiffer DEF Kept
  <2> QED BY <2>2, <2>3, <2>4
<1>20. CASE ev = "PARSED" /\ held = <<>>
  <2>1. told = A /\ told' = B /\ vparser /\ ~vparser' /\ held = <<>> /\ held' = <<>>
    BY <1>1, <1>20, ReportsDiffer DEF Handling, Packet
  <2>2. Expected'
    BY <1>1, <1>2, <1>3, <1>4, <1>5, <1>7, <1>8, <1>9, <1>10, <1>20, <2>1, ReportsDiffer DEF Expected
  <2>3. Truthful'
    BY <1>1, <1>2, <1>3, <1>5, <1>7, <1>8, <1>9, <1>20, <2>1, ReportsDiffer DEF Truthful
  <2>4. Kept'
    BY <1>1, <1>2, <1>3, <1>5, <1>7, <1>8, <1>9, <1>20, <2>1, ReportsDiffer DEF Kept
  <2> QED BY <2>2, <2>3, <2>4
<1>21. CASE ev = "PARSED" /\ held # <<>>
  <2>1. told = A /\ told' = D /\ vparser /\ ~vparser' /\ held # <<>> /\ held' = <<>>
    BY <1>1, <1>21, ReportsDiffer DEF Handling, Packet
  <2>2. Expected'
    BY <1>1, <1>2, <1>3, <1>4, <1>5, <1>7, <1>8, <1>9, <1>10, <1>21, <2>1, ReportsDiffer DEF Expected
  <2>3. Truthful'
    BY <1>1, <1>2, <1>3, <1>5, <1>7, <1>8, <1>9, <1>21, <2>1, ReportsDiffer DEF Truthful
  <2>4. Kept'
    BY <1>1, <1>2, <1>3, <1>5, <1>7, <1>8, <1>9, <1>21, <2>1, ReportsDiffer DEF Kept
  <2> QED BY <2>2, <2>3, <2>4
<1>22. CASE ev \notin Packet \cup {"ASSERT", "PARSED"}
  <2>1. told' = told /\ (vparser' <=> vparser) /\ held' = held
    BY <1>1, <1>22 DEF Handling, Packet
  <2>5. /\ Coming("ERROR")' <=> Coming("ERROR")
        /\ SaveComing' <=> SaveComing
        /\ Coming("SAVE_DONE")' <=> Coming("SAVE_DONE")
        /\ Coming("BYE")' <=> Coming("BYE")
        /\ In("ASSERT", Queue') <=> In("ASSERT", Queue)
    BY <1>3, <1>7, <1>8, <1>22 DEF Packet
  <2>2. Expected'
    BY <1>1, <1>2, <1>4, <2>1, <2>5 DEF Expected
  <2>3. Truthful'
    BY <1>1, <1>2, <2>1, <2>5 DEF Truthful
  <2>4. Kept'
    BY <1>1, <1>2, <2>1, <2>5 DEF Kept
  <2> QED BY <2>2, <2>3, <2>4
<1> QED BY <1>2, <1>12, <1>13, <1>14, <1>15, <1>16, <1>17, <1>18, <1>19, <1>20, <1>21, <1>22 DEF Event, Packet

\* The mediator goes on.
LEMMA RunGoesInv == ASSUME IInv, Run, med' = "RUN" PROVE IInv'
<1> DEFINE ev == Head(Queue)
<1>1. /\ med = "RUN" /\ Queue # <<>> /\ Handling(ev, told', vparser', held')
      /\ Queue' = Tail(Queue) /\ Wire' = Wire /\ q' \in [Side -> Seq(Event)]
      /\ q'["module"] = q["module"]
      /\ UNCHANGED <<planner, grace, destroyed, enabled, reaped, child, appVars, runner,
                     runnerTold, wended, chan, pipe>>
      /\ medPipe' = (medPipe /\ ev \notin {"RETURN_OK", "RETURN_ERR"})
      /\ (medPipe' \/ vparser') /\ vparser' \in BOOLEAN
      /\ shut' \in [Side -> BOOLEAN] /\ shut'["planner"] = shut["planner"]
      /\ shut["module"] => shut'["module"]
      /\ shut'["module"] => shut["module"] \/ destroyed
      /\ killSent' \in BOOLEAN
      /\ \/ armed' = armed /\ timer' = timer
         \/ /\ armed' = (grace # "off")
            /\ timer' = IF grace = "timed" /\ ~armed THEN "set" ELSE timer
  BY RunGoes
<1>2. /\ told' \in Reported /\ held' \in {<<>>, <<"SAVE_DONE">>, <<"SAVE_DONE", "BYE">>}
      /\ vparser' => told' = A
      /\ ~vparser' => held' = <<>>
      /\ vparser /\ ev # "PARSED" => vparser'
      /\ \A e : In(e, Queue') => In(e, Queue)
  BY <1>1, RunReports
<1>3. /\ ev \in Event /\ In(ev, Queue)
      /\ Increasing(Queue') /\ Single("PARSED", Queue')
      /\ ev = "PARSED" => ~In("PARSED", Queue')
      /\ Rank(ev) # -1 => \A e \in Event : In(e, Queue') => Rank(e) = -1 \/ Rank(e) > Rank(ev)
  BY <1>1, HeadFirst
<1> HIDE DEF ev
<1>4. TypeOK /\ ToldOK /\ Over /\ App /\ Asked /\ Cut /\ Ordered /\ Held
  BY DEF IInv
<1>5. Expected' /\ Truthful' /\ Kept'
  BY RunExpected
<1>6. held' \in Seq(Packet) /\ told' \in Seq(Message)
  <2>1. <<>> \in Seq(Packet) /\ <<"SAVE_DONE">> \in Seq(Packet)
        /\ <<"SAVE_DONE", "BYE">> \in Seq(Packet)
    BY DEF Packet
  <2>2. <<>> \in Seq(Message) /\ A \in Seq(Message) /\ E \in Seq(Message)
        /\ B \in Seq(Message) /\ D \in Seq(Message)
    BY DEF A, E, B, D, Message
  <2> QED BY <1>2, <2>1, <2>2 DEF Reported
<1>7. armed' \in BOOLEAN /\ timer' \in {"none", "set", "fired"} /\ armed \in BOOLEAN
      /\ timer \in {"none", "set", "fired"}
  BY <1>1, <1>4 DEF TypeOK
<1>8. medPipe' \in BOOLEAN
  BY <1>1
<1>9. TypeOK'
  BY <1>1, <1>4, <1>6, <1>7, <1>8, RunCuts DEF TypeOK, appVars
<1>10. ToldOK'
  BY <1>2 DEF ToldOK
<1>11. Over'
  BY <1>1, <1>4 DEF Over, appVars
<1>12. App'
  BY <1>1, <1>4 DEF App, appVars
<1>13. Asked'
  BY <1>1, <1>4 DEF Asked
<1>14. Cut'
  <2>1. ~medPipe' => pipe["planner"] = "FIN" /\ vparser' /\ Unranked'
    <3> SUFFICES ASSUME ~medPipe' PROVE pipe["planner"] = "FIN" /\ Unranked'
      BY <1>1
    <3>1. CASE ~medPipe
      BY <1>1, <1>2, <1>4, <3>1 DEF Cut, Unranked
    <3>2. CASE medPipe
      <4>1. ev \in {"RETURN_OK", "RETURN_ERR"}
        BY <1>1, <3>2
      <4>2. Rank(ev) = 6
        BY <4>1, OtherRanks
      <4>3. pipe["planner"] = "FIN"
        BY <1>3, <1>4, <4>2, SentIs DEF Ordered
      <4>4. \A e \in Event : In(e, Queue') => Rank(e) = -1
        BY <1>3, <4>2, RankType
      <4> QED BY <4>3, <4>4 DEF Unranked
    <3> QED BY <3>1, <3>2
  <2>2. Whole' => ~shut'["module"]
    BY <1>1, <1>4 DEF Cut, Whole
  <2> QED BY <1>1, <1>4, <2>1, <2>2 DEF Cut, appVars
<1>15. Ordered'
  <2>1. Sent' = Sent
    BY <1>1 DEF Sent, appVars
  <2> QED BY <1>1, <1>2, <1>3, <1>4, <2>1 DEF Ordered
<1>16. Held'
  <2>1. In("PARSED", Queue') => vparser'
    BY <1>2, <1>3, <1>4 DEF Held
  <2>2. timer = "fired" => timer' = "fired"
    BY <1>1, <1>4 DEF Held
  <2>3. /\ timer' # "none" => armed' /\ grace' = "timed"
        /\ armed' => grace' # "off"
    BY <1>1, <1>4, <1>7 DEF Held
  <2>4. In("TIMER", Queue') => timer' = "fired"
    BY <1>2, <1>4, <2>2 DEF Held
  <2>5. vparser' => med' = "RUN" /\ told' = A
    BY <1>2
  <2> QED BY <1>2, <1>3, <2>1, <2>3, <2>4, <2>5 DEF Held
<1> QED BY <1>5, <1>9, <1>10, <1>11, <1>12, <1>13, <1>14, <1>15, <1>16 DEF IInv

\* The wire of a mediator that comes to its end is over, and what was told is all there was.
LEMMA RunEnds ==
  ASSUME IInv, Run, med' # "RUN"
  PROVE  /\ med = "RUN" /\ med' = "FIN" /\ pipe["planner"] = "FIN" /\ Wire = <<>>
         /\ told' \in Reported /\ ~vparser' /\ vparser' \in BOOLEAN /\ medPipe' = FALSE
         /\ app = "CLOSING" /\ Whole => told' \in {E, D}
         /\ held' = <<>> /\ q' = [q EXCEPT !["planner"] = <<>>]
         /\ pipe' = [pipe EXCEPT !["planner"] = "FIN"]
         /\ killSent' = TRUE /\ shut' = [shut EXCEPT !["module"] = TRUE]
         /\ UNCHANGED <<planner, grace, destroyed, enabled, reaped, child, appVars, runner,
                        runnerTold, wended, chan, armed, timer>>
<1> DEFINE ev == Head(Queue)
           after == After(ev)
           piped == medPipe /\ ev \notin {"RETURN_OK", "RETURN_ERR"}
           over == ~piped /\ ~after.vparser
           h == after.held
<1>1. med = "RUN" /\ Queue # <<>> /\ Queue = q["planner"]
  BY DEF Run, Queue
<1>2. Handling(ev, after.told, after.vparser, h)
  BY <1>1, Handles
<1>3. /\ told' = after.told /\ vparser' = after.vparser /\ medPipe' = piped
      /\ med' = (IF over THEN "FIN" ELSE "RUN")
      /\ held' = IF over THEN <<>> ELSE after.held
      /\ q' = [q EXCEPT !["planner"] = IF over THEN <<>> ELSE Tail(@)]
      /\ pipe' = [pipe EXCEPT !["planner"] = IF over THEN "FIN" ELSE @]
      /\ over => /\ killSent' = TRUE /\ shut' = [shut EXCEPT !["module"] = TRUE]
                 /\ UNCHANGED <<armed, timer>>
      /\ UNCHANGED <<planner, grace, destroyed, enabled, reaped, child, appVars, runner,
                     runnerTold, wended, chan>>
  BY DEF Run, Queue
<1>4. /\ ev \in Event /\ In(ev, Queue)
      /\ \A e : In(e, Queue) <=> In(e, Tail(Queue)) \/ e = ev
      /\ Rank(ev) # -1 => \A e \in Event :
            In(e, Tail(Queue)) => Rank(e) = -1 \/ Rank(e) > Rank(ev)
  BY <1>1, HeadFirst
<1> HIDE DEF after, ev, h
<1>5. over
  BY <1>3
<1>6. /\ med' = "FIN" /\ held' = <<>> /\ q' = [q EXCEPT !["planner"] = <<>>]
      /\ pipe' = [pipe EXCEPT !["planner"] = "FIN"]
      /\ killSent' = TRUE /\ shut' = [shut EXCEPT !["module"] = TRUE]
      /\ UNCHANGED <<armed, timer>> /\ medPipe' = FALSE /\ ~vparser'
  BY <1>3, <1>5
<1>7. Handling(ev, told', vparser', h)
  BY <1>2, <1>3
<1>8. told' \in Reported /\ vparser' \in BOOLEAN
  <2>1. told \in Reported
    BY <1>1 DEF IInv, ToldOK
  <2> QED BY <1>7, <2>1 DEF Handling, Reported
<1>9. Cut /\ Ordered /\ Held /\ Kept
  BY <1>1 DEF IInv
<1>10. \/ medPipe /\ ev \in {"RETURN_OK", "RETURN_ERR"}
       \/ ~medPipe
  BY <1>5
<1>11. /\ pipe["planner"] = "FIN"
       /\ \A e \in Packet : ~In(e, Queue)
  <2>1. \A e \in Packet : Rank(e) \in 1..3 /\ e \in Event
    BY EventRanks
  <2>2. CASE ev \in {"RETURN_OK", "RETURN_ERR"}
    <3>1. Rank(ev) = 6
      BY <2>2, OtherRanks
    <3>2. pipe["planner"] = "FIN"
      BY <1>4, <1>9, <3>1, SentIs DEF Ordered
    <3>3. ASSUME NEW e \in Packet PROVE ~In(e, Queue)
      BY <1>4, <2>1, <3>1
    <3> QED BY <3>2, <3>3
  <2>3. CASE ~medPipe
    BY <1>1, <1>9, <2>1, <2>3 DEF Cut, Unranked
  <2> QED BY <1>10, <2>2, <2>3
<1>12. Wire = <<>>
  BY <1>1, <1>9, <1>11 DEF Cut
<1>13. \A e \in Packet : ~Coming(e)
  BY <1>11, <1>12, InEmpty DEF Coming
<1>14. ~SaveComing /\ ~Coming("ERROR") /\ ~Coming("SAVE_DONE")
  BY <1>13 DEF SaveComing, Packet
<1>15. ASSUME app = "CLOSING", Whole PROVE told' \in {E, D}
  <2>1. ~shut["module"]
    BY <1>1, <1>9, <1>15 DEF Cut
  <2>2. /\ result = "error" => told = E
        /\ result # "error" => /\ vparser \/ told \in {B, D}
                               /\ held # <<>> \/ told = D
    BY <1>9, <1>14, <1>15, <2>1 DEF Kept
  <2>3. CASE vparser
    <3>1. told = A
      BY <1>9, <2>3 DEF Held
    <3>2. held # <<>>
      BY <2>2, <3>1, ReportsDiffer
    <3>3. told' = D
      BY <1>6, <1>7, <2>3, <3>1, <3>2, ReportsDiffer DEF Handling
    <3> QED BY <3>3
  <2>4. CASE ~vparser
    <3>1. told = E \/ told = D
      BY <1>9, <2>2, <2>4 DEF Held
    <3>2. told' = told
      BY <1>7, <1>11, <1>4, <2>4, <3>1, ReportsDiffer DEF Handling, Packet
    <3> QED BY <3>1, <3>2
  <2> QED BY <2>3, <2>4
<1> QED BY <1>1, <1>3, <1>6, <1>8, <1>11, <1>12, <1>15

LEMMA RunEndsInv == ASSUME IInv, Run, med' # "RUN" PROVE IInv'
<1>1. /\ med = "RUN" /\ med' = "FIN" /\ pipe["planner"] = "FIN" /\ Wire = <<>>
      /\ told' \in Reported /\ ~vparser' /\ vparser' \in BOOLEAN /\ medPipe' = FALSE
      /\ app = "CLOSING" /\ Whole => told' \in {E, D}
      /\ held' = <<>> /\ q' = [q EXCEPT !["planner"] = <<>>]
      /\ pipe' = [pipe EXCEPT !["planner"] = "FIN"]
      /\ killSent' = TRUE /\ shut' = [shut EXCEPT !["module"] = TRUE]
      /\ UNCHANGED <<planner, grace, destroyed, enabled, reaped, child, appVars, runner,
                     runnerTold, wended, chan, armed, timer>>
  BY RunEnds
<1>2. TypeOK /\ ToldOK /\ Over /\ App /\ Asked /\ Cut /\ Ordered /\ Held
      /\ "planner" \in Side /\ "module" \in Side /\ "planner" # "module"
  BY DEF IInv, Side
<1>3. /\ q' \in [Side -> Seq(Event)] /\ q'["module"] = q["module"] /\ Queue' = <<>>
      /\ pipe' \in [Side -> {"HELLO", "HDR", "DRAIN", "FIN"}] /\ pipe'["module"] = pipe["module"]
      /\ pipe'["planner"] = "FIN"
      /\ shut' \in [Side -> BOOLEAN] /\ shut'["module"] /\ shut'["planner"] = shut["planner"]
  BY <1>1, <1>2 DEF TypeOK, Queue
<1>4. told' \in Seq(Message)
  <2>1. <<>> \in Seq(Message) /\ A \in Seq(Message) /\ E \in Seq(Message)
        /\ B \in Seq(Message) /\ D \in Seq(Message)
    BY DEF A, E, B, D, Message
  <2> QED BY <1>1, <2>1 DEF Reported
<1>5. TypeOK'
  <2>1. held' \in Seq(Packet)
    <3>1. held' = <<>> /\ <<>> \in Seq(Packet)
      BY <1>1
    <3> QED BY <3>1
  <2>2. /\ planner' \in {"up", "dead"} /\ grace' \in Graces
        /\ enabled' \in BOOLEAN /\ destroyed' \in BOOLEAN /\ reaped' \in BOOLEAN
        /\ armed' \in BOOLEAN /\ timer' \in {"none", "set", "fired"}
        /\ cut' \in BOOLEAN
        /\ child' \in {"none", "up"} \cup Ending
        /\ app' \in {"INI", "START", "SAVEBEGIN", "SAVEDONE", "CLOSING"} /\ appPipe' \in BOOLEAN
        /\ runner' \in {"wait", "calc", "over"} /\ runnerTold' \in BOOLEAN
        /\ result' \in {"none", "stream", "value", "error"} /\ saved' \in SaveState
        /\ wended' \in [Side -> BOOLEAN] /\ chan' \in [Side -> Seq(Record)]
    BY <1>1, <1>2, RunCuts DEF TypeOK, appVars
  <2>3. med' \in {"START", "RUN", "FIN", "DONE"} /\ medPipe' \in BOOLEAN /\ killSent' \in BOOLEAN
    BY <1>1
  <2> QED BY <1>1, <1>3, <1>4, <2>1, <2>2, <2>3 DEF TypeOK
<1>6. ToldOK'
  BY <1>1 DEF ToldOK, Whole, appVars
<1>7. Over'
  BY <1>1, <1>2, <1>3 DEF Over, Cut, appVars
<1>8. App'
  BY <1>1, <1>2, <1>3 DEF App, appVars
<1>9. Asked'
  BY <1>1, <1>2, <1>3 DEF Asked
<1>10. \A e : ~In(e, Queue')
  BY <1>3, InEmpty
<1>11. Cut'
  BY <1>1, <1>2, <1>3, <1>10 DEF Cut, Unranked
<1>12. Ordered'
  <2>1. Sent' = Sent /\ Wire' = Wire
    BY <1>1 DEF Sent, Wire, appVars
  <2> QED BY <1>2, <1>3, <1>10, <2>1, EmptyOrdered DEF Ordered
<1>13. Held'
  BY <1>1, <1>2, <1>3, <1>10, EmptyOrdered DEF Held
<1> QED BY <1>1, <1>5, <1>6, <1>7, <1>8, <1>9, <1>11, <1>12, <1>13 DEF IInv

LEMMA RunInv == ASSUME IInv, Run PROVE IInv'
  BY RunGoesInv, RunEndsInv

-----------------------------------------------------------------------------
(* The theorems.                                                           *)

\* Nothing changes.
LEMMA StutterInv == ASSUME IInv, UNCHANGED vars PROVE IInv'
<1>1. UNCHANGED <<planner, grace, destroyed, timer, med, enabled, medPipe, vparser, held, armed,
                  told, cut, reaped, killSent, child, app, appPipe, result, saved, runner,
                  runnerTold, pipe, wended, chan, shut, q>>
  BY DEF vars, medVars, appVars, wireVars
<1>2. UNCHANGED <<Queue, Wire, Sent, Unranked, Whole, SaveComing>> /\ \A e : Coming(e)' <=> Coming(e)
  BY <1>1 DEF Queue, Wire, Sent, Unranked, Whole, SaveComing, Coming
<1>3. TypeOK' /\ ToldOK' /\ Over'
  BY <1>1, <1>2 DEF IInv, TypeOK, ToldOK, Over
<1>4. App' /\ Asked'
  BY <1>1, <1>2 DEF IInv, App, Asked
<1>5. Cut' /\ Ordered' /\ Held'
  BY <1>1, <1>2 DEF IInv, Cut, Ordered, Held
<1>6. ASSUME med = "RUN" PROVE Expected' /\ Truthful' /\ Kept'
  <2>1. Expected /\ Truthful /\ Kept
    BY <1>6 DEF IInv
  <2> QED BY <1>1, <1>2, <2>1 DEF Expected, Truthful, Kept
<1> QED BY <1>1, <1>3, <1>4, <1>5, <1>6 DEF IInv

\* Every step of either process keeps the invariant.
LEMMA NextInv == IInv /\ [Next]_vars => IInv'
<1> SUFFICES ASSUME IInv, [Next]_vars PROVE IInv'
  OBVIOUS
<1>1. CASE PlannerStep
  <2>1. \/ Enable \/ Destroy \/ Request \/ Launch \/ NotWanted \/ Run \/ AgentWait
        \/ PlannerPipe \/ Parsed \/ TimerFires \/ Reap \/ PlannerDeath
    BY <1>1 DEF PlannerStep, MedStep
  <2>2. CASE Enable BY <2>2, EnableInv
  <2>3. CASE Destroy BY <2>3, DestroyInv
  <2>4. CASE Request BY <2>4, RequestInv
  <2>5. CASE Launch BY <2>5, LaunchInv
  <2>6. CASE NotWanted BY <2>6, NotWantedInv
  <2>7. CASE Run BY <2>7, RunInv
  <2>8. CASE AgentWait BY <2>8, AgentWaitInv
  <2>9. CASE PlannerPipe BY <2>9, PlannerPipeInv
  <2>10. CASE Parsed BY <2>10, ParsedInv
  <2>11. CASE TimerFires BY <2>11, TimerFiresInv
  <2>12. CASE Reap BY <2>12, ReapInv
  <2>13. CASE PlannerDeath BY <2>13, PlannerDeathInv
  <2> QED BY <2>1, <2>2, <2>3, <2>4, <2>5, <2>6, <2>7, <2>8, <2>9, <2>10, <2>11, <2>12, <2>13
<1>2. CASE ModuleStep
  <2>1. Frame
    BY <1>2 DEF ModuleStep, Frame
  <2>2. \/ AppIni \/ AppStart \/ AppDeaf \/ AppSaveBegin \/ AppSaveDone \/ AppClosing
        \/ ModulePipe \/ Runner \/ Save \/ Signalled \/ Dies
    BY <1>2 DEF ModuleStep, AppStep
  <2>3. CASE AppIni BY <2>1, <2>3, AppIniInv
  <2>4. CASE AppStart BY <2>1, <2>4, AppStartInv
  <2>5. CASE AppDeaf BY <2>1, <2>5, AppDeafInv
  <2>6. CASE AppSaveBegin BY <2>1, <2>6, AppSaveBeginInv
  <2>7. CASE AppSaveDone BY <2>1, <2>7, AppSaveDoneInv
  <2>8. CASE AppClosing BY <2>1, <2>8, AppClosingInv
  <2>9. CASE ModulePipe BY <2>1, <2>9, ModulePipeInv
  <2>10. CASE Runner BY <2>1, <2>10, RunnerInv
  <2>11. CASE Save BY <2>1, <2>11, SaveInv
  <2>12. CASE Signalled BY <2>1, <2>12, SignalledInv
  <2>13. CASE Dies BY <2>1, <2>13, DiesInv
  <2> QED BY <2>2, <2>3, <2>4, <2>5, <2>6, <2>7, <2>8, <2>9, <2>10, <2>11, <2>12, <2>13
<1>3. CASE UNCHANGED vars
  BY <1>3, StutterInv
<1> QED BY <1>1, <1>2, <1>3 DEF Next

\* IInv is an invariant.
THEOREM Invariance == Spec => []IInv
  BY InitInv, NextInv, PTL DEF Spec

\* The mediator, the process, the wire between them and what waits for each keep their types.
THEOREM TypeCorrect == Spec => []TypeOK
<1>1. IInv => TypeOK
  BY DEF IInv
<1> QED
  BY <1>1, Invariance, PTL

\* What was told is a sequence of reports, and of a mediator that is over, a return after it.
LEMMA ToldIs ==
  ASSUME IInv
  PROVE  \/ told \in Reported /\ med # "DONE"
         \/ /\ med = "DONE" /\ child # "up"
            /\ \E t \in Reported, r \in Return :
                  /\ told = Append(t, r)
                  /\ (MustTell => r = "RETURN_WHY") /\ (r = "RETURN_WHY" => MayTell)
                  /\ app = "CLOSING" /\ Whole => t \in {E, D}
  BY DEF IInv, ToldOK, Over, TypeOK

\* No report is a return.
LEMMA ReportedIs ==
  ASSUME NEW t \in Reported
  PROVE  /\ t \in Seq(Message) /\ Len(t) \in Nat
         /\ \A i \in 1..Len(t) : t[i] \notin Return
<1>1. CASE t = <<>>
  BY <1>1
<1>2. CASE t = A
  BY <1>2 DEF A, Message, Return
<1>3. CASE t = E
  BY <1>3 DEF E, Message, Return
<1>4. CASE t = B
  BY <1>4 DEF B, Message, Return
<1>5. CASE t = D
  BY <1>5 DEF D, Message, Return
<1> QED BY <1>1, <1>2, <1>3, <1>4, <1>5 DEF Reported

\* The end of a mediator is told once, last, when no process is left: with the reason if it crashed
\* or could not load its module, and never with one that compose_agent_error does not give.
THEOREM EndIsTold == Spec => []ReturnTells
<1>1. ASSUME IInv PROVE ReturnTells
  <2> SUFFICES ASSUME NEW i \in 1..Len(told), told[i] \in Return
               PROVE  /\ i = Len(told) /\ med = "DONE" /\ child # "up"
                      /\ (MustTell => told[i] = "RETURN_WHY")
                      /\ (told[i] = "RETURN_WHY" => MayTell)
    BY DEF ReturnTells
  <2>1. told \notin Reported
    BY ReportedIs
  <2>2. PICK t \in Reported, r \in Return :
            told = Append(t, r) /\ (MustTell => r = "RETURN_WHY") /\ (r = "RETURN_WHY" => MayTell)
    BY <1>1, <2>1, ToldIs
  <2>3. med = "DONE" /\ child # "up"
    BY <1>1, <2>1, ToldIs
  <2>4. t \in Seq(Message) /\ Len(t) \in Nat /\ r \in Message
        /\ \A j \in 1..Len(t) : t[j] \notin Return
    BY ReportedIs DEF Message
  <2>5. /\ Len(told) = Len(t) + 1 /\ told[Len(t) + 1] = r
        /\ \A j \in 1..Len(t) : told[j] = t[j]
    BY <2>2, <2>4, AppendIs
  <2>6. i = Len(t) + 1
    BY <2>4, <2>5
  <2> QED BY <2>2, <2>3, <2>5, <2>6
<1> QED
  BY <1>1, Invariance, PTL

\* What was told, as Told has it.
LEMMA ReportsAre ==
  ASSUME NEW t \in Reported
  PROVE  \E first \in {<<>>, <<"ASSERT">>},
            reports \in {<<>>, <<"ERROR">>, <<"SAVE_BEGIN">>, <<"SAVE_BEGIN", "SAVE_DONE">>} :
            t = first \o reports /\ (t \in {E, D} => reports \in {<<"ERROR">>, <<"SAVE_BEGIN", "SAVE_DONE">>})
<1>1. <<>> \in Seq(Message) /\ A \in Seq(Message) /\ A = <<"ASSERT">>
      /\ "ERROR" \in Message /\ "SAVE_BEGIN" \in Message /\ "SAVE_DONE" \in Message
  BY DEF A, Message
<1>2. <<>> \o <<>> = <<>> /\ A \o <<>> = A
  BY <1>1, Concats
<1>3. A \o <<"ERROR">> = E /\ A \o <<"SAVE_BEGIN">> = B
  BY <1>1, Concats, ReportsGrow
<1>4. A \o <<"SAVE_BEGIN", "SAVE_DONE">> = D
  <2>1. A \o <<"SAVE_BEGIN", "SAVE_DONE">> = Append(Append(A, "SAVE_BEGIN"), "SAVE_DONE")
    BY <1>1, Concats
  <2>2. Append(A, "SAVE_BEGIN") = B /\ Append(B, "SAVE_DONE") = D
    BY ReportsGrow
  <2> QED BY <2>1, <2>2
<1>5. CASE t = <<>>
  BY <1>2, <1>5, ReportsDiffer
<1>6. CASE t = A
  BY <1>1, <1>2, <1>6, ReportsDiffer
<1>7. CASE t = E
  BY <1>1, <1>3, <1>7
<1>8. CASE t = B
  BY <1>1, <1>3, <1>8, ReportsDiffer
<1>9. CASE t = D
  BY <1>1, <1>4, <1>9
<1> QED BY <1>5, <1>6, <1>7, <1>8, <1>9 DEF Reported

\* Relayed follows: what was told is one of the reports, and Whole makes it a complete one.
LEMMA RelayedHolds == ASSUME IInv PROVE Relayed
<1> DEFINE Some == {<<>>, <<"ERROR">>, <<"SAVE_BEGIN">>, <<"SAVE_BEGIN", "SAVE_DONE">>}
           All == {<<"ERROR">>, <<"SAVE_BEGIN", "SAVE_DONE">>}
<1>1. CASE told \in Reported /\ med # "DONE"
  <2>1. PICK first \in {<<>>, <<"ASSERT">>}, reports \in Some : told = first \o reports
    BY <1>1, ReportsAre
  <2>2. told = first \o reports \o <<>>
    <3>1. told \in Seq(Message)
      BY <1>1, ReportedIs
    <3>2. told \o <<>> = told
      BY <3>1, Concats
    <3> QED BY <2>1, <3>2
  <2>3. Told(reports)
    BY <2>1, <2>2 DEF Told
  <2> QED BY <1>1, <2>1, <2>3 DEF Relayed
<1>2. CASE told \notin Reported \/ med = "DONE"
  <2>1. PICK t \in Reported, r \in Return :
            told = Append(t, r) /\ (app = "CLOSING" /\ Whole => t \in {E, D})
    BY <1>2, ToldIs
  <2>2. PICK first \in {<<>>, <<"ASSERT">>}, reports \in Some :
            t = first \o reports /\ (t \in {E, D} => reports \in All)
    BY ReportsAre
  <2>3. told = first \o reports \o <<r>>
    <3>1. t \in Seq(Message) /\ r \in Message
      BY ReportedIs DEF Message
    <3>2. t \o <<r>> = Append(t, r)
      BY <3>1, Concats
    <3> QED BY <2>1, <2>2, <3>2
  <2>4. Told(reports)
    BY <2>2, <2>3 DEF Told
  <2>5. app = "CLOSING" /\ ~destroyed /\ planner = "up" => reports \in All
    BY <2>1, <2>2 DEF Whole
  <2> QED BY <2>2, <2>4, <2>5 DEF Relayed
<1> QED BY <1>1, <1>2

\* Reports reach the operation in order, and all of them when the wire was not cut, whatever
\* is put off while a value is parsed.
THEOREM ReportsAreRelayed == Spec => []Relayed
<1>1. IInv => Relayed
  BY RelayedHolds
<1> QED
  BY <1>1, Invariance, PTL

\* A mediator that ends has nothing to kill but a process that has sent its result, and one that was
\* destroyed kills when the grace is over.
LEMMA RunSpares ==
  ASSUME IInv, Run, killSent', ~killSent, child = "up", result \in {"stream", "value"},
         saved \in {"no", "meta"}
  PROVE  grace = "off" \/ timer = "fired"
<1>1. CASE med' # "RUN"
  <2>1. med = "RUN" /\ pipe["planner"] = "FIN"
    BY <1>1, RunEnds
  <2>2. app = "CLOSING"
    BY <2>1 DEF IInv, Cut
  <2> QED BY <2>2 DEF IInv, App
<1>2. CASE med' = "RUN"
  <2> DEFINE ev == Head(q["planner"])
             after == After(ev)
             piped == medPipe /\ ev \notin {"RETURN_OK", "RETURN_ERR"}
             over == ~piped /\ ~after.vparser
  <2>1. /\ med' = IF over THEN "FIN" ELSE "RUN"
        /\ ~over => \/ Abandon(ev) /\ destroyed
                    \/ UNCHANGED <<shut, armed, timer, killSent>>
    BY DEF Run
  <2>2. ~over
    BY <1>2, <2>1
  <2> HIDE DEF over
  <2>3. ~Patient(ev)
    BY <2>1, <2>2 DEF Abandon
  <2>4. grace \in {"off", "timed", "never"}
    BY ConstantsAssumption DEF IInv, TypeOK
  <2>5. CASE grace = "timed"
    <3>1. ev = "TIMER"
      BY <2>3, <2>5 DEF Patient
    <3>2. In("TIMER", Queue)
      <4>1. Queue # <<>> /\ med = "RUN" /\ ev = Head(Queue)
        BY DEF Run, Queue
      <4> HIDE DEF ev
      <4> QED BY <3>1, <4>1, HeadFirst
    <3> QED BY <3>2 DEF IInv, Held
  <2> QED BY <2>3, <2>4, <2>5 DEF Patient
<1> QED BY <1>1, <1>2

\* A process that is writing its result is not killed before the grace of its module is over.
THEOREM SavesAreSpared == Spec => SaveSpared
<1> DEFINE Spares == killSent' /\ ~killSent /\ child = "up" /\ result \in {"stream", "value"}
                        /\ saved \in {"no", "meta"} => grace = "off" \/ timer = "fired"
<1>1. IInv /\ [Next]_vars => [Spares]_vars
  <2> SUFFICES ASSUME IInv, Next PROVE killSent' = killSent \/ Spares
    BY DEF vars, medVars
  <2>1. CASE Run
    BY <2>1, RunSpares
  <2>2. CASE ModuleStep
    BY <2>2 DEF ModuleStep, medVars
  <2>3. CASE PlannerStep /\ ~Run
    BY <2>3 DEF PlannerStep, MedStep, Enable, Destroy, Request, Launch, NotWanted, AgentWait,
                PlannerPipe, Parsed, TimerFires, Reap, PlannerDeath, medVars
  <2> QED BY <2>1, <2>2, <2>3 DEF Next
<1> QED
  BY <1>1, Invariance, PTL DEF Spec, SaveSpared
=============================================================================
