------------------------- MODULE CallRouting_proofs -------------------------
(***************************************************************************)
(* Proofs about CallRouting, for any registry, pseudo modules, programs,   *)
(* candidate lists and group sizes.                                        *)
(*                                                                         *)
(* IInv says of the program what the agent that starts next has to find:   *)
(* a call has the list that was written for it, unless a {} is written in  *)
(* it (Labelled), and a {} that has come up below a call was written in it *)
(* (Covered), so that only such a call is rewritten without its list.      *)
(* What takes the place of a call has to be a Part of it: one lemma for    *)
(* each of the ways in which ACT_START goes on.                            *)
(*                                                                         *)
(* The second half is about what a term computes.  Meaning is a recursive  *)
(* function of a term; what a rewriting step does to it is argued on the   *)
(* relation Denotes, in which a solid is given to every place and each of  *)
(* them Fits the ones below it.  An error may denote any solid, as it may  *)
(* yet go away with what is around it (a difference from {} is {}): so an  *)
(* error Stands for every call, and Kept, that the program still denotes   *)
(* what was written, is inductive where MeaningKept is not.  A term        *)
(* without an error denotes its Meaning and nothing else.                  *)
(***************************************************************************)
EXTENDS CallRouting, FiniteSetTheorems, SequenceTheorems, WellFoundedInduction, TLAPS

-----------------------------------------------------------------------------
(* Numbers.                                                                *)

\* A set of natural numbers that is not empty has a least one.
LEMMA NatMin ==
    ASSUME NEW T, T \subseteq Nat, T # {}
    PROVE  \E x \in T : \A y \in T : ~(y < x)
<1>1. \E x \in T : \A y \in T : ~(<<y, x>> \in OpToRel(<, Nat))
  BY NatLessThanWellFounded, WFMin
<1> QED  BY <1>1 DEF OpToRel

\* A finite set of natural numbers is bounded,
LEMMA FiniteBounded ==
    ASSUME NEW S, S \subseteq Nat, IsFiniteSet(S)
    PROVE  \E b \in Nat : \A x \in S : x <= b
<1>1. Cardinality(S) \in Nat /\ \E f : f \in Bijection(1..Cardinality(S), S)
  BY FS_CardinalityType, FS_NatBijection DEF ExistsBijection
<1> DEFINE c == Cardinality(S)
<1>2. PICK f : f \in Bijection(1..c, S)
  BY <1>1
<1> HIDE DEF c
<1>3. c \in Nat /\ (\A i \in 1..c : f[i] \in Nat) /\ \A x \in S : \E i \in 1..c : f[i] = x
  <2>1. f \in [1..c -> S] /\ \A x \in S : \E i \in 1..c : f[i] = x
    BY <1>2 DEF Bijection, Surjection, Injection
  <2> QED  BY <1>1, <2>1 DEF c
<1> DEFINE Bound(k) == \E b \in Nat : \A i \in 1..k : f[i] <= b
           bad == {k \in 0..c : ~Bound(k)}
<1>4. \A k \in 0..c : Bound(k)
  <2> SUFFICES ASSUME bad # {} PROVE FALSE
    OBVIOUS
  <2>1. PICK k \in bad : \A y \in bad : ~(y < k)
    <3>1. bad \subseteq Nat
      BY <1>3
    <3> HIDE DEF bad
    <3> QED  BY <3>1, NatMin
  <2>2. k \in 0..c /\ ~Bound(k)
    OBVIOUS
  <2>3. k # 0
    <3>1. 0 \in Nat /\ \A i \in 1..0 : f[i] <= 0
      OBVIOUS
    <3> QED  BY <2>2, <3>1
  <2>4. k \in 1..c /\ k - 1 \in 0..c /\ k - 1 < k
    BY <1>3, <2>2, <2>3
  <2>5. Bound(k - 1)
    BY <2>1, <2>4
  <2>6. PICK b \in Nat : \A i \in 1..k - 1 : f[i] <= b
    BY <2>5
  <2>7. f[k] \in Nat
    BY <1>3, <2>4
  <2> DEFINE d == IF f[k] <= b THEN b ELSE f[k]
  <2>8. d \in Nat /\ b <= d /\ f[k] <= d
    BY <2>7
  <2>9. ASSUME NEW i \in 1..k PROVE f[i] <= d
    <3>1. CASE i = k
      BY <2>8, <3>1
    <3>2. CASE i # k
      <4>1. i \in 1..k - 1 /\ f[i] \in Nat
        BY <1>3, <2>4, <3>2
      <4> HIDE DEF d
      <4> QED  BY <4>1, <2>6, <2>8
    <3> QED  BY <3>1, <3>2
  <2> HIDE DEF d
  <2> QED  BY <2>2, <2>8, <2>9
<1>5. PICK b \in Nat : \A i \in 1..c : f[i] <= b
  <2>1. c \in 0..c
    BY <1>3
  <2> QED  BY <1>4, <2>1
<1> QED  BY <1>3, <1>5

\* and has a maximum if it is not empty.
LEMMA MaxOfFinite ==
    ASSUME NEW S, S \subseteq Nat, IsFiniteSet(S), S # {}
    PROVE  Max(S) \in S /\ \A x \in S : x <= Max(S)
<1> DEFINE bounds == {b \in Nat : \A x \in S : x <= b}
<1>1. bounds # {} /\ bounds \subseteq Nat
  BY FiniteBounded
<1>2. PICK b \in bounds : \A y \in bounds : ~(y < b)
  <2> HIDE DEF bounds
  <2> QED  BY <1>1, NatMin
<1>3. b \in S
  <2> SUFFICES ASSUME b \notin S PROVE FALSE
    OBVIOUS
  <2>1. PICK x \in S : TRUE
    OBVIOUS
  <2>2. b \in Nat /\ \A y \in S : y \in Nat /\ y <= b /\ y # b
    OBVIOUS
  <2>3. b - 1 \in Nat /\ \A y \in S : y <= b - 1
    BY <2>1, <2>2
  <2> QED  BY <1>2, <2>2, <2>3
<1>4. \E m \in S : \A x \in S : m >= x
  BY <1>2, <1>3
<1> QED  BY <1>4 DEF Max

-----------------------------------------------------------------------------
(* Places.                                                                 *)

\* A prefix, place by place.
LEMMA PrefixPointwise ==
    ASSUME NEW s \in Seq(Nat), NEW t \in Seq(Nat)
    PROVE  IsPrefix(s, t) <=> Len(s) <= Len(t) /\ \A i \in 1..Len(s) : s[i] = t[i]
<1>1. ASSUME IsPrefix(s, t) PROVE Len(s) <= Len(t) /\ \A i \in 1..Len(s) : s[i] = t[i]
  <2>1. Len(s) <= Len(t) /\ SubSeq(s, 1, Len(s)) = SubSeq(t, 1, Len(s))
    BY <1>1 DEF IsPrefix
  <2>2. \A i \in 1..Len(s) : SubSeq(s, 1, Len(s))[i] = s[i] /\ SubSeq(t, 1, Len(s))[i] = t[i]
    BY <2>1
  <2> QED  BY <2>1, <2>2
<1>2. ASSUME Len(s) <= Len(t), \A i \in 1..Len(s) : s[i] = t[i] PROVE IsPrefix(s, t)
  <2>1. Len(s) \in Nat /\ Len(t) \in Nat
    OBVIOUS
  <2>2. /\ SubSeq(s, 1, Len(s)) \in Seq(Nat) /\ Len(SubSeq(s, 1, Len(s))) = Len(s)
        /\ SubSeq(t, 1, Len(s)) \in Seq(Nat) /\ Len(SubSeq(t, 1, Len(s))) = Len(s)
    BY <1>2, <2>1
  <2>3. \A i \in 1..Len(s) : SubSeq(s, 1, Len(s))[i] = s[i] /\ SubSeq(t, 1, Len(s))[i] = t[i]
    BY <1>2, <2>1
  <2>4. SubSeq(s, 1, Len(s)) = SubSeq(t, 1, Len(s))
    BY <1>2, <2>2, <2>3, SeqEqual
  <2> QED  BY <1>2, <2>4 DEF IsPrefix
<1> QED  BY <1>1, <1>2

\* The numbers of a place below another one.
LEMMA ConcatPlaces ==
    ASSUME NEW p \in Seq(Nat), NEW q \in Seq(Nat)
    PROVE  /\ p \o q \in Seq(Nat)
           /\ Len(p \o q) = Len(p) + Len(q)
           /\ \A i \in 1..Len(p) : (p \o q)[i] = p[i]
           /\ \A i \in 1..Len(q) : (p \o q)[Len(p) + i] = q[i]
OBVIOUS

\* A place below p begins with p.
LEMMA PrefixOfConcat ==
    ASSUME NEW p \in Seq(Nat), NEW q \in Seq(Nat)
    PROVE  IsPrefix(p, p \o q)
<1>1. Len(p) \in Nat /\ Len(q) \in Nat
  OBVIOUS
<1>2. p \o q \in Seq(Nat) /\ Len(p) <= Len(p \o q)
  BY <1>1, ConcatPlaces
<1>3. \A i \in 1..Len(p) : p[i] = (p \o q)[i]
  BY ConcatPlaces
<1> QED  BY <1>2, <1>3, PrefixPointwise

\* Two places keep their order when what they have in common is taken away,
LEMMA PrefixInConcat ==
    ASSUME NEW p \in Seq(Nat), NEW a \in Seq(Nat), NEW b \in Seq(Nat),
           IsPrefix(p \o a, p \o b)
    PROVE  IsPrefix(a, b)
<1>1. Len(p) \in Nat /\ Len(a) \in Nat /\ Len(b) \in Nat
  OBVIOUS
<1>2. p \o a \in Seq(Nat) /\ p \o b \in Seq(Nat)
  BY ConcatPlaces
<1>3. Len(p) + Len(a) <= Len(p) + Len(b)
  BY <1>2, ConcatPlaces, PrefixPointwise
<1>4. \A i \in 1..Len(p \o a) : (p \o a)[i] = (p \o b)[i]
  BY <1>2, PrefixPointwise
<1>5. ASSUME NEW i \in 1..Len(a) PROVE a[i] = b[i]
  <2>1. Len(p) + i \in 1..Len(p \o a) /\ i \in 1..Len(b)
    BY <1>1, <1>3, ConcatPlaces
  <2> QED  BY <2>1, <1>4, ConcatPlaces
<1> QED  BY <1>1, <1>3, <1>5, PrefixPointwise

\* What is below a place below p is below p.
LEMMA PrefixTransitive ==
    ASSUME NEW p \in Seq(Nat), NEW q \in Seq(Nat), NEW r \in Seq(Nat),
           IsPrefix(p, q), IsPrefix(q, r)
    PROVE  IsPrefix(p, r)
<1>1. Len(p) \in Nat /\ Len(q) \in Nat /\ Len(r) \in Nat
  OBVIOUS
<1> QED  BY <1>1, PrefixPointwise

\* Two places above the same place are one above the other.
LEMMA PrefixesCompare ==
    ASSUME NEW p \in Seq(Nat), NEW q \in Seq(Nat), NEW r \in Seq(Nat),
           IsPrefix(p, r), IsPrefix(q, r), ~IsPrefix(q, p)
    PROVE  IsPrefix(p, q)
<1>1. Len(p) \in Nat /\ Len(q) \in Nat /\ Len(r) \in Nat
  OBVIOUS
<1>2. /\ Len(p) <= Len(r) /\ \A i \in 1..Len(p) : p[i] = r[i]
      /\ Len(q) <= Len(r) /\ \A i \in 1..Len(q) : q[i] = r[i]
  BY PrefixPointwise
<1>3. ~(Len(q) <= Len(p))
  <2> SUFFICES ASSUME Len(q) <= Len(p) PROVE IsPrefix(q, p)
    OBVIOUS
  <2>1. \A i \in 1..Len(q) : q[i] = p[i]
    BY <1>1, <1>2
  <2> QED  BY <2>1, PrefixPointwise
<1>4. \A i \in 1..Len(p) : p[i] = q[i]
  BY <1>1, <1>2, <1>3
<1> QED  BY <1>1, <1>3, <1>4, PrefixPointwise

\* The way from a place to one below it.
LEMMA RestOfPlace ==
    ASSUME NEW p \in Seq(Nat), NEW q \in Seq(Nat), IsPrefix(p, q)
    PROVE  /\ SubSeq(q, Len(p) + 1, Len(q)) \in Seq(Nat)
           /\ p \o SubSeq(q, Len(p) + 1, Len(q)) = q
<1> DEFINE rest == SubSeq(q, Len(p) + 1, Len(q))
<1>1. Len(p) \in Nat /\ Len(q) \in Nat /\ Len(p) <= Len(q)
  BY PrefixPointwise
<1>2. rest \in Seq(Nat) /\ Len(rest) = Len(q) - Len(p)
  BY <1>1
<1>3. \A i \in 1..Len(rest) : rest[i] = q[Len(p) + i]
  BY <1>1, <1>2
<1>4. \A i \in 1..Len(p) : p[i] = q[i]
  BY PrefixPointwise
<1> HIDE DEF rest
<1>5. p \o rest \in Seq(Nat) /\ Len(p \o rest) = Len(q)
  BY <1>1, <1>2, ConcatPlaces
<1>6. ASSUME NEW i \in 1..Len(q) PROVE (p \o rest)[i] = q[i]
  <2>1. CASE i <= Len(p)
    BY <2>1, <1>1, <1>2, <1>4
  <2>2. CASE ~(i <= Len(p))
    <3>1. i - Len(p) \in 1..Len(rest)
      BY <2>2, <1>1, <1>2
    <3>2. (p \o rest)[i] = rest[i - Len(p)]
      BY <2>2, <1>1, <1>2
    <3>3. rest[i - Len(p)] = q[Len(p) + (i - Len(p))]
      BY <3>1, <1>3
    <3> QED  BY <3>2, <3>3, <1>1
  <2> QED  BY <2>1, <2>2
<1>7. p \o rest = q
  BY <1>5, <1>6, SeqEqual
<1> QED  BY <1>2, <1>7 DEF rest

\* and when something is put before them.
LEMMA PrefixOfConcats ==
    ASSUME NEW p \in Seq(Nat), NEW a \in Seq(Nat), NEW b \in Seq(Nat), IsPrefix(a, b)
    PROVE  IsPrefix(p \o a, p \o b)
<1>1. Len(p) \in Nat /\ Len(a) \in Nat /\ Len(b) \in Nat
  OBVIOUS
<1>2. p \o a \in Seq(Nat) /\ p \o b \in Seq(Nat)
  BY ConcatPlaces
<1>3. Len(a) <= Len(b) /\ \A i \in 1..Len(a) : a[i] = b[i]
  BY PrefixPointwise
<1>4. Len(p \o a) = Len(p) + Len(a) /\ Len(p \o b) = Len(p) + Len(b)
  BY ConcatPlaces
<1>5. ASSUME NEW i \in 1..Len(p \o a) PROVE (p \o a)[i] = (p \o b)[i]
  <2>1. CASE i <= Len(p)
    <3>1. i \in 1..Len(p)
      BY <2>1
    <3> QED  BY <3>1, ConcatPlaces
  <2>2. CASE ~(i <= Len(p))
    <3> DEFINE j == i - Len(p)
    <3>1. j \in 1..Len(a) /\ j \in 1..Len(b) /\ i = Len(p) + j
      BY <2>2, <1>1, <1>3, <1>4
    <3> HIDE DEF j
    <3>2. (p \o a)[Len(p) + j] = a[j] /\ (p \o b)[Len(p) + j] = b[j]
      BY <3>1, ConcatPlaces
    <3> QED  BY <3>1, <3>2, <1>3
  <2> QED  BY <2>1, <2>2
<1>6. Len(p \o a) <= Len(p \o b)
  BY <1>1, <1>3, <1>4
<1> QED  BY <1>2, <1>5, <1>6, PrefixPointwise

\* The first number of a place says below which argument it is.
LEMMA PrefixBelowArgument ==
    ASSUME NEW i \in Nat, NEW j \in Nat, NEW a \in Seq(Nat), NEW b \in Seq(Nat),
           IsPrefix(<<i>> \o a, <<j>> \o b)
    PROVE  i = j /\ IsPrefix(a, b)
<1>1. <<i>> \in Seq(Nat) /\ <<j>> \in Seq(Nat) /\ Len(<<i>>) = 1 /\ Len(<<j>>) = 1
  OBVIOUS
<1>2. <<i>> \o a \in Seq(Nat) /\ <<j>> \o b \in Seq(Nat) /\ Len(<<i>> \o a) = 1 + Len(a)
  BY <1>1, ConcatPlaces
<1>3. (<<i>> \o a)[1] = i /\ (<<j>> \o b)[1] = j
  BY <1>1, ConcatPlaces
<1>4. 1 \in 1..Len(<<i>> \o a)
  BY <1>2
<1>5. (<<i>> \o a)[1] = (<<j>> \o b)[1]
  BY <1>2, <1>4, PrefixPointwise
<1>6. i = j
  BY <1>3, <1>5
<1> QED  BY <1>1, <1>6, PrefixInConcat

-----------------------------------------------------------------------------
(* What is true of a term.  w is the program as it was written, u the list *)
(* in USE_MODULES.                                                         *)

Shaped(t) == IsFiniteSet(t) /\ \A n \in t : n = Node(n.at, n.is) /\ n.at \in Seq(Nat)

ListIn(u, named) == IF named.given THEN named ELSE u

\* A call has the list that was written, unless it lost it with a {}, and a run is in it.
Labelled(w, u, is) ==
    is.site > 0 /\ ~HoldsEmpty(w, is.site) =>
        /\ is.kind = "call" => is.named = NamedAt(w, is.site)
        /\ is.kind = "run" =>
              LET list == ListIn(u, NamedAt(w, is.site))
              IN  list.given => is.by \in ToSet(list.elems)

\* A {} below a call comes from a {} that is written in it.
Covered(w, t) ==
    \A n, e \in t :
        /\ n.is.kind = "call" /\ n.is.site > 0
        /\ e.is.kind = "empty" /\ IsPrefix(n.at, e.at)
        => HoldsEmpty(w, n.is.site)

Good(w, u, t) ==
    /\ Shaped(t)
    /\ \A n \in t : Labelled(w, u, n.is)
    /\ Covered(w, t)

\* A term that may take the place of another one.
Part(w, u, whole, t) == Good(w, u, t) /\ (Has(t, "empty") => Has(whole, "empty"))

\* A node of the term at p is one of the whole, with its place counted from p.
LEMMA SubMember ==
    ASSUME NEW t, Shaped(t), NEW p \in Seq(Nat), NEW n \in Sub(t, p)
    PROVE  /\ n = Node(n.at, n.is) /\ n.at \in Seq(Nat)
           /\ \E m \in t : n.is = m.is /\ p \o n.at = m.at /\ IsPrefix(p, m.at)
<1>1. PICK m \in Below(t, p) : n = Node(SubSeq(m.at, Len(p) + 1, Len(m.at)), m.is)
  BY DEF Sub
<1>2. m \in t /\ IsPrefix(p, m.at) /\ m.at \in Seq(Nat)
  BY <1>1 DEF Below, Shaped
<1>3. n.at = SubSeq(m.at, Len(p) + 1, Len(m.at)) /\ n.is = m.is
  BY <1>1 DEF Node
<1>4. n.at \in Seq(Nat) /\ p \o n.at = m.at
  BY <1>2, <1>3, RestOfPlace
<1> QED  BY <1>1, <1>2, <1>3, <1>4

\* The term at a place is finite.
LEMMA SubFinite ==
    ASSUME NEW t, IsFiniteSet(t), NEW p
    PROVE  IsFiniteSet(Sub(t, p))
<1> DEFINE moved(n) == Node(SubSeq(n.at, Len(p) + 1, Len(n.at)), n.is)
           f == [n \in Below(t, p) |-> moved(n)]
<1>1. IsFiniteSet(Below(t, p))
  BY FS_Subset DEF Below
<1>2. f \in Surjection(Below(t, p), Sub(t, p))
  BY DEF Surjection, Sub
<1> QED  BY <1>1, <1>2, FS_Surjection

\* A part of a good term is good.
LEMMA SubPart ==
    ASSUME NEW w, NEW u, NEW t, Good(w, u, t), NEW p \in Seq(Nat)
    PROVE  Part(w, u, t, Sub(t, p))
<1> DEFINE s == Sub(t, p)
<1>1. Shaped(t) /\ (\A n \in t : Labelled(w, u, n.is)) /\ Covered(w, t)
  BY DEF Good
<1>2. \A n \in s : /\ n = Node(n.at, n.is) /\ n.at \in Seq(Nat)
                   /\ \E m \in t : n.is = m.is /\ p \o n.at = m.at /\ IsPrefix(p, m.at)
  BY <1>1, SubMember
<1>3. IsFiniteSet(s)
  BY <1>1, SubFinite DEF Shaped
<1> HIDE DEF s
<1>4. Shaped(s)
  BY <1>2, <1>3 DEF Shaped
<1>5. \A n \in s : Labelled(w, u, n.is)
  BY <1>1, <1>2
<1>6. Covered(w, s)
  <2> SUFFICES ASSUME NEW n \in s, NEW e \in s,
                      n.is.kind = "call", n.is.site > 0,
                      e.is.kind = "empty", IsPrefix(n.at, e.at)
               PROVE  HoldsEmpty(w, n.is.site)
    BY DEF Covered
  <2>1. PICK m \in t : n.is = m.is /\ p \o n.at = m.at
    BY <1>2
  <2>2. PICK f \in t : e.is = f.is /\ p \o e.at = f.at
    BY <1>2
  <2>3. IsPrefix(m.at, f.at)
    BY <1>2, <2>1, <2>2, PrefixOfConcats
  <2> QED  BY <1>1, <2>1, <2>2, <2>3 DEF Covered
<1>7. Has(s, "empty") => Has(t, "empty")
  BY <1>2 DEF Has
<1> QED  BY <1>4, <1>5, <1>6, <1>7 DEF Part, Good, s

\* The places of a term begin with a largest number, if any.
LEMMA FirstNumbers ==
    ASSUME NEW t, Shaped(t)
    PROVE  LET first == {0} \cup {n.at[1] : n \in {o \in t : o.at # <<>>}}
           IN  Max(first) \in first /\ (\A x \in first : x <= Max(first)) /\ first \subseteq Nat
<1> DEFINE lower == {o \in t : o.at # <<>>}
           first == {n.at[1] : n \in lower}
           f == [n \in lower |-> n.at[1]]
           all == {0} \cup first
<1>1. IsFiniteSet(lower)
  BY FS_Subset DEF Shaped
<1>2. f \in Surjection(lower, first)
  BY DEF Surjection
<1>3. IsFiniteSet(first)
  BY <1>1, <1>2, FS_Surjection
<1>4. first \subseteq Nat
  BY DEF Shaped
<1>5. IsFiniteSet({0})
  BY FS_Singleton
<1> HIDE DEF first
<1>6. IsFiniteSet(all)
  BY <1>3, <1>5, FS_Union
<1>7. IsFiniteSet(all) /\ all \subseteq Nat /\ all # {}
  BY <1>4, <1>6
<1>8. Max(all) \in all /\ \A x \in all : x <= Max(all)
  <2> HIDE DEF all
  <2> QED  BY <1>7, MaxOfFinite
<1> QED  BY <1>7, <1>8 DEF first

\* The number of the arguments of a term.
LEMMA WidthNat ==
    ASSUME NEW t, Shaped(t)
    PROVE  Width(t) \in Nat
<1> DEFINE first == {0} \cup {n.at[1] : n \in {o \in t : o.at # <<>>}}
<1>1. Max(first) \in first /\ first \subseteq Nat
  BY FirstNumbers
<1>2. Width(t) = Max(first)
  BY DEF Width
<1> HIDE DEF first
<1> QED  BY <1>1, <1>2

\* The arguments of a good term are parts of it.
LEMMA ArgsParts ==
    ASSUME NEW w, NEW u, NEW t, Good(w, u, t)
    PROVE  /\ Width(t) \in Nat
           /\ \A i \in 1..Width(t) : Part(w, u, t, ArgsOf(t)[i])
<1>1. Shaped(t)
  BY DEF Good
<1>2. Width(t) \in Nat
  BY <1>1, WidthNat
<1>3. ASSUME NEW i \in 1..Width(t) PROVE Part(w, u, t, ArgsOf(t)[i])
  <2>1. ArgsOf(t)[i] = Sub(t, <<i>>)
    BY DEF ArgsOf
  <2>2. <<i>> \in Seq(Nat)
    BY <1>2
  <2> QED  BY <2>1, <2>2, SubPart
<1> QED  BY <1>2, <1>3

\* A part of a part is a part.
LEMMA PartTransitive ==
    ASSUME NEW w, NEW u, NEW whole, NEW t, Part(w, u, whole, t), NEW s, Part(w, u, t, s)
    PROVE  Part(w, u, whole, s)
BY DEF Part

\* A finite term stays finite when it is put somewhere.
LEMMA MovedFinite ==
    ASSUME NEW t, IsFiniteSet(t), NEW p
    PROVE  IsFiniteSet({Node(p \o n.at, n.is) : n \in t})
<1> DEFINE moved == {Node(p \o n.at, n.is) : n \in t}
           f == [n \in t |-> Node(p \o n.at, n.is)]
<1>1. f \in Surjection(t, moved)
  BY DEF Surjection
<1> QED  BY <1>1, FS_Surjection

\* A node over finitely many finite terms is a finite term.
LEMMA TermFinite ==
    ASSUME NEW is, NEW args, IsFiniteSet(DOMAIN args),
           \A i \in DOMAIN args : IsFiniteSet(args[i])
    PROVE  IsFiniteSet(Term(is, args))
<1> DEFINE moved(i) == {Node(<<i>> \o n.at, n.is) : n \in args[i]}
           parts == {moved(i) : i \in DOMAIN args}
           f == [i \in DOMAIN args |-> moved(i)]
<1>1. f \in Surjection(DOMAIN args, parts)
  BY DEF Surjection
<1>2. IsFiniteSet(parts)
  BY <1>1, FS_Surjection
<1>3. \A i \in DOMAIN args : IsFiniteSet(moved(i))
  BY MovedFinite
<1>4. \A part \in parts : IsFiniteSet(part)
  BY <1>3
<1>5. IsFiniteSet(UNION parts)
  BY <1>2, <1>4, FS_UNION
<1>6. IsFiniteSet({Node(<<>>, is)})
  BY FS_Singleton
<1>7. Term(is, args) = {Node(<<>>, is)} \cup UNION parts
  BY DEF Term
<1>8. \A S, T : IsFiniteSet(S) /\ IsFiniteSet(T) => IsFiniteSet(S \cup T)
  BY FS_Union
<1>9. IsFiniteSet({Node(<<>>, is)} \cup UNION parts)
  <2> DEFINE top == {Node(<<>>, is)}
             below == UNION parts
  <2>1. IsFiniteSet(top) /\ IsFiniteSet(below)
    BY <1>5, <1>6
  <2> HIDE DEF top, below
  <2>2. IsFiniteSet(top \cup below)
    BY <1>8, <2>1
  <2> QED  BY <2>2 DEF top, below
<1> QED  BY <1>7, <1>9

\* A node over arguments that are parts of a term is a part of it itself.
LEMMA TermPart ==
    ASSUME NEW w, NEW u, NEW whole, NEW is, NEW args,
           IsFiniteSet(DOMAIN args), DOMAIN args \subseteq Nat,
           \A i \in DOMAIN args : Part(w, u, whole, args[i]),
           Labelled(w, u, is), is.kind # "empty",
           is.kind = "call" /\ is.site > 0 /\ Has(whole, "empty") => HoldsEmpty(w, is.site)
    PROVE  Part(w, u, whole, Term(is, args))
<1> DEFINE t == Term(is, args)
<1>1. \A i \in DOMAIN args : /\ Shaped(args[i]) /\ Covered(w, args[i])
                             /\ \A n \in args[i] : Labelled(w, u, n.is)
                             /\ Has(args[i], "empty") => Has(whole, "empty")
  BY DEF Part, Good
<1>2. IsFiniteSet(t)
  BY <1>1, TermFinite DEF Shaped
<1>3. \A n \in t : \/ n = Node(<<>>, is)
                   \/ \E i \in DOMAIN args : \E m \in args[i] : n = Node(<<i>> \o m.at, m.is)
  BY DEF Term
<1> HIDE DEF t
<1>4. ASSUME NEW n \in t
      PROVE  n = Node(n.at, n.is) /\ n.at \in Seq(Nat) /\ Labelled(w, u, n.is)
  <2>1. CASE n = Node(<<>>, is)
    <3>1. n.at = <<>> /\ n.is = is
      BY <2>1 DEF Node
    <3>2. <<>> \in Seq(Nat)
      OBVIOUS
    <3> QED  BY <2>1, <3>1, <3>2
  <2>2. ASSUME NEW i \in DOMAIN args, NEW m \in args[i], n = Node(<<i>> \o m.at, m.is)
        PROVE  n = Node(n.at, n.is) /\ n.at \in Seq(Nat) /\ Labelled(w, u, n.is)
    <3>1. n.at = <<i>> \o m.at /\ n.is = m.is
      BY <2>2 DEF Node
    <3>2. m.at \in Seq(Nat) /\ <<i>> \in Seq(Nat)
      BY <1>1 DEF Shaped
    <3>3. <<i>> \o m.at \in Seq(Nat)
      BY <3>2, ConcatPlaces
    <3> QED  BY <1>1, <2>2, <3>1, <3>3
  <2> QED  BY <1>3, <2>1, <2>2
<1>5. Shaped(t)
  BY <1>2, <1>4 DEF Shaped
<1>6. ASSUME NEW e \in t, e.is.kind = "empty"
      PROVE  \E i \in DOMAIN args : \E m \in args[i] :
                 e.at = <<i>> \o m.at /\ e.is = m.is /\ Has(args[i], "empty")
  <2>1. e # Node(<<>>, is)
    BY <1>6 DEF Node
  <2>2. PICK i \in DOMAIN args : \E m \in args[i] : e = Node(<<i>> \o m.at, m.is)
    BY <1>3, <2>1
  <2>3. PICK m \in args[i] : e = Node(<<i>> \o m.at, m.is)
    BY <2>2
  <2>4. e.at = <<i>> \o m.at /\ e.is = m.is
    BY <2>3 DEF Node
  <2>5. Has(args[i], "empty")
    BY <1>6, <2>4 DEF Has
  <2> QED  BY <2>4, <2>5
<1>7. Has(t, "empty") => Has(whole, "empty")
  BY <1>1, <1>6 DEF Has
<1>8. Covered(w, t)
  <2> SUFFICES ASSUME NEW n \in t, NEW e \in t,
                      n.is.kind = "call", n.is.site > 0,
                      e.is.kind = "empty", IsPrefix(n.at, e.at)
               PROVE  HoldsEmpty(w, n.is.site)
    BY DEF Covered
  <2>1. PICK j \in DOMAIN args : \E f \in args[j] :
                 e.at = <<j>> \o f.at /\ e.is = f.is /\ Has(args[j], "empty")
    BY <1>6
  <2>2. PICK f \in args[j] : e.at = <<j>> \o f.at /\ e.is = f.is /\ Has(args[j], "empty")
    BY <2>1
  <2>3. CASE n = Node(<<>>, is)
    <3>1. n.is = is
      BY <2>3 DEF Node
    <3>2. Has(whole, "empty")
      BY <1>1, <2>2
    <3> QED  BY <3>1, <3>2
  <2>4. ASSUME NEW i \in DOMAIN args, NEW m \in args[i], n = Node(<<i>> \o m.at, m.is)
        PROVE  HoldsEmpty(w, n.is.site)
    <3>1. n.at = <<i>> \o m.at /\ n.is = m.is
      BY <2>4 DEF Node
    <3>2. m.at \in Seq(Nat) /\ f.at \in Seq(Nat) /\ i \in Nat /\ j \in Nat
      BY <1>1 DEF Shaped
    <3>3. IsPrefix(<<i>> \o m.at, <<j>> \o f.at)
      BY <2>2, <3>1
    <3>4. i = j /\ IsPrefix(m.at, f.at)
      BY <3>2, <3>3, PrefixBelowArgument
    <3>5. Covered(w, args[i]) /\ f \in args[i]
      BY <1>1, <2>2, <3>4
    <3> QED  BY <2>2, <3>1, <3>4, <3>5 DEF Covered
  <2> QED  BY <1>3, <2>3, <2>4
<1>9. \A n \in t : Labelled(w, u, n.is)
  BY <1>4
<1>10. Part(w, u, whole, t)
  BY <1>5, <1>7, <1>8, <1>9 DEF Part, Good
<1> QED  BY <1>10 DEF t

\* A part may take the place of the term at that place.
LEMMA PutGood ==
    ASSUME NEW w, NEW u, NEW t, Good(w, u, t), NEW p \in Seq(Nat),
           NEW new, Part(w, u, Sub(t, p), new)
    PROVE  Good(w, u, Put(t, p, new))
<1> DEFINE r == Put(t, p, new)
           moved == {Node(p \o n.at, n.is) : n \in new}
<1>1. Shaped(t) /\ (\A n \in t : Labelled(w, u, n.is)) /\ Covered(w, t)
  BY DEF Good
<1>2. /\ Shaped(new) /\ (\A n \in new : Labelled(w, u, n.is)) /\ Covered(w, new)
      /\ Has(new, "empty") => Has(Sub(t, p), "empty")
  BY DEF Part, Good
<1>3. IsFiniteSet(r)
  <2>1. IsFiniteSet(t \ Below(t, p))
    BY <1>1, FS_Subset DEF Shaped
  <2>2. IsFiniteSet(moved)
    <3>1. IsFiniteSet(new)
      BY <1>2 DEF Shaped
    <3> QED  BY <3>1, MovedFinite
  <2>3. r = (t \ Below(t, p)) \cup moved
    BY DEF Put
  <2> QED  BY <2>1, <2>2, <2>3, FS_Union
<1>4. \A n \in r : \/ n \in t /\ ~IsPrefix(p, n.at)
                   \/ \E m \in new : n = Node(p \o m.at, m.is)
  BY DEF Put, Below
<1>5. \A n \in r : \/ n \in t /\ ~IsPrefix(p, n.at)
                   \/ \E m \in new : n.at = p \o m.at /\ n.is = m.is
  <2>1. \A m \in new : Node(p \o m.at, m.is).at = p \o m.at /\ Node(p \o m.at, m.is).is = m.is
    BY DEF Node
  <2> QED  BY <1>4, <2>1
<1> HIDE DEF r, moved
<1>6. ASSUME NEW n \in r
      PROVE  n = Node(n.at, n.is) /\ n.at \in Seq(Nat) /\ Labelled(w, u, n.is)
  <2>1. CASE n \in t
    BY <1>1, <2>1 DEF Shaped
  <2>2. ASSUME NEW m \in new, n = Node(p \o m.at, m.is)
        PROVE  n = Node(n.at, n.is) /\ n.at \in Seq(Nat) /\ Labelled(w, u, n.is)
    <3>1. n.at = p \o m.at /\ n.is = m.is
      BY <2>2 DEF Node
    <3>2. m.at \in Seq(Nat)
      BY <1>2 DEF Shaped
    <3>3. p \o m.at \in Seq(Nat)
      BY <3>2, ConcatPlaces
    <3> QED  BY <1>2, <2>2, <3>1, <3>3
  <2> QED  BY <1>4, <2>1, <2>2
<1>7. Shaped(r)
  BY <1>3, <1>6 DEF Shaped
<1>8. Covered(w, r)
  <2> SUFFICES ASSUME NEW n \in r, NEW e \in r,
                      n.is.kind = "call", n.is.site > 0,
                      e.is.kind = "empty", IsPrefix(n.at, e.at)
               PROVE  HoldsEmpty(w, n.is.site)
    BY DEF Covered
  <2>1. CASE n \in t /\ e \in t
    BY <1>1, <2>1 DEF Covered
  <2>2. ASSUME NEW m \in new, n.at = p \o m.at, n.is = m.is,
               NEW f \in new, e.at = p \o f.at, e.is = f.is
        PROVE  HoldsEmpty(w, n.is.site)
    <3>1. m.at \in Seq(Nat) /\ f.at \in Seq(Nat)
      BY <1>2 DEF Shaped
    <3>2. IsPrefix(m.at, f.at)
      BY <2>2, <3>1, PrefixInConcat
    <3> QED  BY <1>2, <2>2, <3>2 DEF Covered
  <2>3. ASSUME NEW m \in new, n.at = p \o m.at, e \in t, ~IsPrefix(p, e.at)
        PROVE  FALSE
    <3>1. m.at \in Seq(Nat) /\ n.at \in Seq(Nat) /\ e.at \in Seq(Nat)
      BY <1>2, <1>6 DEF Shaped
    <3>2. IsPrefix(p, n.at)
      BY <2>3, <3>1, PrefixOfConcat
    <3> QED  BY <2>3, <3>1, <3>2, PrefixTransitive
  <2>4. ASSUME n \in t, ~IsPrefix(p, n.at), NEW f \in new, e.at = p \o f.at, e.is = f.is
        PROVE  HoldsEmpty(w, n.is.site)
    <3>1. f.at \in Seq(Nat) /\ n.at \in Seq(Nat) /\ e.at \in Seq(Nat)
      BY <1>2, <1>6 DEF Shaped
    <3>2. IsPrefix(p, e.at)
      BY <2>4, <3>1, PrefixOfConcat
    <3>3. IsPrefix(n.at, p)
      BY <2>4, <3>1, <3>2, PrefixesCompare
    <3>4. Has(Sub(t, p), "empty")
      BY <1>2, <2>4 DEF Has
    <3>5. PICK s \in Sub(t, p) : s.is.kind = "empty"
      BY <3>4 DEF Has
    <3>6. PICK g \in t : s.is = g.is /\ IsPrefix(p, g.at)
      BY <1>1, SubMember
    <3>7. g.at \in Seq(Nat)
      BY <1>1 DEF Shaped
    <3>8. IsPrefix(n.at, g.at)
      BY <3>1, <3>3, <3>6, <3>7, PrefixTransitive
    <3> QED  BY <1>1, <2>4, <3>5, <3>6, <3>8 DEF Covered
  <2> QED  BY <1>5, <2>1, <2>2, <2>3, <2>4
<1>9. Good(w, u, r)
  BY <1>6, <1>7, <1>8 DEF Good
<1> QED  BY <1>9 DEF r

-----------------------------------------------------------------------------
(* What is made of a call.                                                 *)

\* A sequence of terms that may take the place of a term, or of its parts.
Parts(w, u, whole, s) ==
    /\ Len(s) \in Nat /\ DOMAIN s = 1..Len(s)
    /\ \A i \in 1..Len(s) : Part(w, u, whole, s[i])

\* A call at a place of a good program, as the agent has it.
Handled(w, u, whole, c) ==
    /\ Parts(w, u, whole, c.args)
    /\ c.site > 0 /\ ~HoldsEmpty(w, c.site) => c.named = NamedAt(w, c.site)
    /\ c.site > 0 /\ Has(whole, "empty") => HoldsEmpty(w, c.site)
    /\ c.list = ListIn(u, c.named)

\* A value or an error may take the place of any term, a {} that of one that has a {}.
LEMMA LeafPart ==
    ASSUME NEW w, NEW u, NEW whole, NEW is, is.kind \in {"value", "error", "empty"},
           is.kind = "empty" => Has(whole, "empty")
    PROVE  Part(w, u, whole, Leaf(is))
<1>1. \A n \in Leaf(is) : n = Node(<<>>, is)
  BY DEF Leaf
<1>2. \A n \in Leaf(is) : n.at = <<>> /\ n.is = is
  BY <1>1 DEF Node
<1>3. <<>> \in Seq(Nat)
  OBVIOUS
<1>4. IsFiniteSet(Leaf(is))
  BY FS_Singleton DEF Leaf
<1>5. Shaped(Leaf(is))
  BY <1>1, <1>2, <1>3, <1>4 DEF Shaped
<1>6. \A n \in Leaf(is) : Labelled(w, u, n.is)
  BY <1>2 DEF Labelled
<1>7. Covered(w, Leaf(is))
  BY <1>2 DEF Covered
<1>8. Has(Leaf(is), "empty") => Has(whole, "empty")
  BY <1>2 DEF Has
<1> QED  BY <1>5, <1>6, <1>7, <1>8 DEF Part, Good

\* A group of operands is called with the list of the whole (build_ktree, build_kleftfold).
LEMMA GroupPart ==
    ASSUME NEW w, NEW u, NEW whole, NEW c, Handled(w, u, whole, c),
           NEW s, IsFiniteSet(DOMAIN s), DOMAIN s \subseteq Nat,
           \A i \in DOMAIN s : Part(w, u, whole, s[i])
    PROVE  Part(w, u, whole, Group(c, s))
<1> DEFINE is == [kind |-> "call", op |-> c.op, named |-> c.named, site |-> c.site]
<1>1. is.kind = "call" /\ is.named = c.named /\ is.site = c.site
  OBVIOUS
<1>2. Group(c, s) = Term(is, s)
  BY DEF Group, Call
<1> HIDE DEF is
<1>3. Labelled(w, u, is)
  BY <1>1 DEF Labelled, Handled
<1>4. is.kind # "empty"
  BY <1>1
<1>5. is.kind = "call" /\ is.site > 0 /\ Has(whole, "empty") => HoldsEmpty(w, is.site)
  BY <1>1 DEF Handled
<1>6. Part(w, u, whole, Term(is, s))
  BY <1>3, <1>4, <1>5, TermPart
<1> QED  BY <1>2, <1>6

\* A level of build_ktree makes parts of the call of parts of the call.
LEMMA KTreeParts ==
    ASSUME NEW w, NEW u, NEW whole, NEW c, Handled(w, u, whole, c),
           NEW k \in Nat, k >= 2, NEW s, Parts(w, u, whole, s), Len(s) >= 1
    PROVE  Parts(w, u, whole, KTree(c, k, s)) /\ Len(KTree(c, k, s)) >= 1
<1> DEFINE n == Len(s)
           m == (n + k - 1) \div k
           e(j) == [i \in {x \in 1..k : (j - 1) * k + x <= n} |-> s[(j - 1) * k + i]]
           t(j) == IF DOMAIN e(j) = {1} THEN e(j)[1] ELSE Group(c, e(j))
<1>1. n \in Nat /\ DOMAIN s = 1..n /\ \A i \in 1..n : Part(w, u, whole, s[i])
  BY DEF Parts
<1>2. m \in Nat /\ m >= 1
  <2>1. n + k - 1 \in Nat /\ n + k - 1 >= k
    BY <1>1
  <2> QED  BY <2>1
<1>3. ASSUME NEW j \in 1..m PROVE Part(w, u, whole, t(j))
  <2>1. (j - 1) * k \in Nat
    BY <1>2
  <2>2. ASSUME NEW i \in DOMAIN e(j) PROVE i \in 1..k /\ Part(w, u, whole, e(j)[i])
    <3> DEFINE b == (j - 1) * k
    <3>1. i \in 1..k /\ b + i <= n /\ b \in Nat
      BY <2>1
    <3>2. e(j)[i] = s[b + i]
      OBVIOUS
    <3> HIDE DEF b
    <3>3. b + i \in 1..n
      BY <3>1, <1>1
    <3> HIDE DEF e
    <3> QED  BY <3>1, <3>2, <3>3, <1>1
  <2>3. IsFiniteSet(DOMAIN e(j)) /\ DOMAIN e(j) \subseteq Nat
    <3>1. DOMAIN e(j) \subseteq 1..k
      OBVIOUS
    <3>2. IsFiniteSet(1..k)
      BY FS_Interval
    <3> QED  BY <3>1, <3>2, FS_Subset
  <2> HIDE DEF e
  <2>4. CASE DOMAIN e(j) = {1}
    BY <2>2, <2>4
  <2>5. CASE DOMAIN e(j) # {1}
    BY <2>2, <2>3, <2>5, GroupPart
  <2> QED  BY <2>4, <2>5
<1>4. KTree(c, k, s) = [j \in 1..m |-> t(j)]
  BY DEF KTree
<1> HIDE DEF m, t
<1>5. DOMAIN [j \in 1..m |-> t(j)] = 1..m /\ \A j \in 1..m : [i \in 1..m |-> t(i)][j] = t(j)
  OBVIOUS
<1>6. Len([j \in 1..m |-> t(j)]) = m
  BY <1>2
<1> QED  BY <1>2, <1>3, <1>4, <1>5, <1>6 DEF Parts

\* The first elements of a sequence.
LEMMA FirstElements ==
    ASSUME NEW s, NEW k \in Nat
    PROVE  /\ Len(SubSeq(s, 1, k)) = k /\ DOMAIN SubSeq(s, 1, k) = 1..k
           /\ \A i \in 1..k : SubSeq(s, 1, k)[i] = s[i]
<1>1. \A i \in 1..k : s[i] \in {s[x] : x \in 1..k}
  OBVIOUS
<1>2. /\ SubSeq(s, 1, k) \in Seq({s[i] : i \in 1..k}) /\ Len(SubSeq(s, 1, k)) = k
      /\ \A i \in 1..k : SubSeq(s, 1, k)[i] = s[i]
  BY <1>1, SubSeqProperties
<1> QED  BY <1>2

\* So does a round of build_kleftfold.
LEMMA KLeftFoldParts ==
    ASSUME NEW w, NEW u, NEW whole, NEW c, Handled(w, u, whole, c),
           NEW k \in Nat, k >= 2, NEW s, Parts(w, u, whole, s), Len(s) >= 1
    PROVE  Parts(w, u, whole, KLeftFold(c, k, s)) /\ Len(KLeftFold(c, k, s)) >= 1
<1> DEFINE n == Len(s)
           first == SubSeq(s, 1, k)
           t(i) == IF i = 1 THEN Group(c, first) ELSE s[i + k - 1]
<1>1. n \in Nat /\ DOMAIN s = 1..n /\ \A i \in 1..n : Part(w, u, whole, s[i])
  BY DEF Parts
<1>2. CASE n <= k
  <2>1. IsFiniteSet(1..n)
    BY <1>1, FS_Interval
  <2>2. Part(w, u, whole, Group(c, s))
    BY <1>1, <2>1, GroupPart
  <2>3. KLeftFold(c, k, s) = <<Group(c, s)>>
    BY <1>2 DEF KLeftFold
  <2> QED  BY <2>2, <2>3 DEF Parts
<1>3. CASE ~(n <= k)
  <2> DEFINE m == n - k + 1
  <2>1. m \in Nat /\ m >= 1
    BY <1>1, <1>3
  <2>2. Len(first) = k /\ \A i \in 1..k : first[i] = s[i]
    BY FirstElements
  <2>3. DOMAIN first = 1..k
    BY FirstElements
  <2>4. Part(w, u, whole, Group(c, first))
    <3>1. IsFiniteSet(1..k)
      BY FS_Interval
    <3>2. \A i \in 1..k : i \in 1..n
      BY <1>1, <1>3
    <3> HIDE DEF first
    <3> QED  BY <1>1, <2>2, <2>3, <3>1, <3>2, GroupPart
  <2>5. ASSUME NEW i \in 1..m PROVE Part(w, u, whole, t(i))
    <3>1. CASE i = 1
      BY <2>4, <3>1
    <3>2. CASE i # 1
      <4>1. i + k - 1 \in 1..n
        BY <1>1, <1>3
      <4> QED  BY <1>1, <3>2, <4>1
    <3> QED  BY <3>1, <3>2
  <2>6. KLeftFold(c, k, s) = [i \in 1..m |-> t(i)]
    BY <1>3 DEF KLeftFold
  <2> HIDE DEF m, t
  <2>7. DOMAIN [i \in 1..m |-> t(i)] = 1..m /\ \A i \in 1..m : [x \in 1..m |-> t(x)][i] = t(i)
    OBVIOUS
  <2>8. Len([i \in 1..m |-> t(i)]) = m
    BY <2>1
  <2> QED  BY <2>1, <2>5, <2>6, <2>7, <2>8 DEF Parts
<1> QED  BY <1>2, <1>3

\* So does a round of either.
LEMMA RoundParts ==
    ASSUME NEW w, NEW u, NEW whole, NEW c, Handled(w, u, whole, c),
           NEW k \in Nat, k >= 2, NEW s, Parts(w, u, whole, s), Len(s) >= 1
    PROVE  Parts(w, u, whole, Round(c, k, s)) /\ Len(Round(c, k, s)) >= 1
BY KTreeParts, KLeftFoldParts DEF Round

\* What a call is split into is what its rounds leave.
LEMMA RoundsExist ==
    ASSUME NEW c, Len(c.args) \in Nat, NEW k
    PROVE  \E round : /\ round[0] = c.args
                      /\ \A d \in 1..Len(c.args) : round[d] = Round(c, k, round[d - 1])
                      /\ Split(c, k) = round[Len(c.args)][1]
<1> DEFINE n == Len(c.args)
           Step(f, d) == IF d = 0 THEN c.args ELSE Round(c, k, f[d - 1])
           Rounds(m, f) == f = [d \in 0..m |-> Step(f, d)]
           missing == {m \in Nat : ~\E f : Rounds(m, f)}
<1>1. n \in Nat
  OBVIOUS
<1>2. \A m \in Nat : \E f : Rounds(m, f)
  <2> SUFFICES ASSUME missing # {} PROVE FALSE
    OBVIOUS
  <2>1. PICK m \in missing : \A y \in missing : ~(y < m)
    <3>1. missing \subseteq Nat
      OBVIOUS
    <3> HIDE DEF missing
    <3> QED  BY <3>1, NatMin
  <2>2. m \in Nat
    OBVIOUS
  <2>3. CASE m = 0
    <3> DEFINE g == [d \in 0..m |-> c.args]
    <3>1. g = [d \in 0..m |-> Step(g, d)]
      BY <2>3
    <3> QED  BY <3>1
  <2>4. CASE m # 0
    <3>1. m - 1 \in Nat /\ m - 1 < m
      BY <2>2, <2>4
    <3>2. PICK f : Rounds(m - 1, f)
      BY <2>1, <3>1
    <3> DEFINE g == [d \in 0..m |-> IF d = m THEN Round(c, k, f[m - 1]) ELSE f[d]]
    <3>3. \A d \in 0..m - 1 : d \in 0..m /\ d # m /\ g[d] = f[d]
      BY <2>2
    <3>4. \A d \in 0..m - 1 : f[d] = Step(f, d)
      BY <3>2
    <3>5. ASSUME NEW d \in 0..m PROVE g[d] = Step(g, d)
      <4>1. CASE d = m
        <5>1. g[m] = Round(c, k, f[m - 1]) /\ m - 1 \in 0..m - 1
          BY <2>2, <3>1
        <5>2. g[m - 1] = f[m - 1]
          BY <3>3, <5>1
        <5> HIDE DEF g
        <5> QED  BY <2>4, <4>1, <5>1, <5>2
      <4>2. CASE d = 0
        <5>1. 0 \in 0..m - 1
          BY <3>1
        <5>2. g[0] = f[0] /\ f[0] = c.args
          BY <3>3, <3>4, <5>1
        <5> HIDE DEF g
        <5> QED  BY <4>2, <5>2
      <4>3. CASE d # m /\ d # 0
        <5>1. d \in 0..m - 1 /\ d - 1 \in 0..m - 1
          BY <2>2, <4>3
        <5>2. g[d] = f[d] /\ g[d - 1] = f[d - 1] /\ f[d] = Round(c, k, f[d - 1])
          BY <3>3, <3>4, <4>3, <5>1
        <5> HIDE DEF g
        <5> QED  BY <4>3, <5>2
      <4> QED  BY <4>1, <4>2, <4>3
    <3>6. g = [d \in 0..m |-> g[d]]
      OBVIOUS
    <3>7. g = [d \in 0..m |-> Step(g, d)]
      <4> HIDE DEF g
      <4> QED  BY <3>5, <3>6
    <3> QED  BY <3>7
  <2> QED  BY <2>3, <2>4
<1> DEFINE round == CHOOSE f : f = [d \in 0..n |-> Step(f, d)]
<1>3. round = [d \in 0..n |-> Step(round, d)]
  BY <1>1, <1>2
<1>4. Split(c, k) = round[n][1]
  BY DEF Split
<1> HIDE DEF round
<1>5. round[0] = c.args /\ \A d \in 1..n : d - 1 \in 0..n /\ round[d] = Round(c, k, round[d - 1])
  <2> DEFINE step == [d \in 0..n |-> Step(round, d)]
  <2>1. \A d \in 0..n : step[d] = Step(round, d)
    OBVIOUS
  <2>2. round = step
    BY <1>3
  <2> HIDE DEF step
  <2>3. \A d \in 0..n : round[d] = Step(round, d)
    BY <2>1, <2>2
  <2>4. 0 \in 0..n /\ \A d \in 1..n : d \in 0..n /\ d # 0 /\ d - 1 \in 0..n
    BY <1>1
  <2> QED  BY <2>3, <2>4
<1> QED  BY <1>4, <1>5

\* What a call is split into.
LEMMA SplitPart ==
    ASSUME NEW w, NEW u, NEW whole, NEW c, Handled(w, u, whole, c),
           NEW k \in Nat, k >= 2, Len(c.args) >= 1
    PROVE  Part(w, u, whole, Split(c, k))
<1> DEFINE n == Len(c.args)
           Ok(s) == Parts(w, u, whole, s) /\ Len(s) >= 1
<1>1. n \in Nat
  BY DEF Handled, Parts
<1>2. PICK round : /\ round[0] = c.args
                   /\ \A d \in 1..n : round[d] = Round(c, k, round[d - 1])
                   /\ Split(c, k) = round[n][1]
  BY <1>1, RoundsExist
<1> DEFINE bad == {d \in 0..n : ~Ok(round[d])}
<1>3. Ok(round[0])
  BY <1>2 DEF Handled
<1>4. \A s : Ok(s) => Ok(Round(c, k, s))
  BY RoundParts
<1>5. \A d \in 0..n : Ok(round[d])
  <2> SUFFICES ASSUME bad # {} PROVE FALSE
    OBVIOUS
  <2>1. bad \subseteq Nat
    BY <1>1
  <2>2. PICK d \in bad : \A y \in bad : ~(y < d)
    <3> HIDE DEF bad
    <3> QED  BY <2>1, NatMin
  <2> HIDE DEF Ok
  <2>3. d \in 0..n /\ ~Ok(round[d]) /\ d # 0
    BY <1>3
  <2>4. d \in 1..n /\ d - 1 < d
    BY <1>1, <2>3
  <2>5. Ok(round[d - 1])
    BY <1>2, <2>2, <2>4
  <2>6. round[d] = Round(c, k, round[d - 1])
    BY <1>2, <2>4
  <2>7. Ok(Round(c, k, round[d - 1]))
    BY <1>4, <2>5
  <2> QED  BY <2>3, <2>6, <2>7
<1>6. Ok(round[n])
  BY <1>1, <1>5
<1>7. 1 \in 1..Len(round[n])
  BY <1>6 DEF Parts
<1> QED  BY <1>2, <1>6, <1>7 DEF Parts

\* The operands but for {}, as they are gathered.
LEMMA KeepExists ==
    ASSUME NEW c, Len(c.args) \in Nat
    PROVE  \E keep : /\ keep[0] = <<>>
                     /\ \A d \in 1..Len(c.args) :
                           keep[d] = IF c.args[d] = Empty THEN keep[d - 1]
                                     ELSE Append(keep[d - 1], c.args[d])
                     /\ Operands(c) = keep[Len(c.args)]
<1> DEFINE n == Len(c.args)
           Step(f, d) ==
               IF d = 0 THEN <<>>
               ELSE IF c.args[d] = Empty THEN f[d - 1] ELSE Append(f[d - 1], c.args[d])
           Keeps(m, f) == f = [d \in 0..m |-> Step(f, d)]
           missing == {m \in Nat : ~\E f : Keeps(m, f)}
<1>1. n \in Nat
  OBVIOUS
<1>2. \A m \in Nat : \E f : Keeps(m, f)
  <2> SUFFICES ASSUME missing # {} PROVE FALSE
    OBVIOUS
  <2>1. PICK m \in missing : \A y \in missing : ~(y < m)
    <3>1. missing \subseteq Nat
      OBVIOUS
    <3> HIDE DEF missing
    <3> QED  BY <3>1, NatMin
  <2>2. m \in Nat
    OBVIOUS
  <2>3. CASE m = 0
    <3> DEFINE g == [d \in 0..m |-> <<>>]
    <3>1. g = [d \in 0..m |-> Step(g, d)]
      BY <2>3
    <3> QED  BY <3>1
  <2>4. CASE m # 0
    <3>1. m - 1 \in Nat /\ m - 1 < m
      BY <2>2, <2>4
    <3>2. PICK f : Keeps(m - 1, f)
      BY <2>1, <3>1
    <3> DEFINE last == IF c.args[m] = Empty THEN f[m - 1] ELSE Append(f[m - 1], c.args[m])
               g == [d \in 0..m |-> IF d = m THEN last ELSE f[d]]
    <3>3. \A d \in 0..m - 1 : d \in 0..m /\ d # m /\ g[d] = f[d]
      BY <2>2
    <3>4. \A d \in 0..m - 1 : f[d] = Step(f, d)
      BY <3>2
    <3>5. ASSUME NEW d \in 0..m PROVE g[d] = Step(g, d)
      <4>1. CASE d = m
        <5>1. g[m] = last /\ m - 1 \in 0..m - 1
          BY <2>2, <3>1
        <5>2. g[m - 1] = f[m - 1]
          BY <3>3, <5>1
        <5> HIDE DEF g
        <5> QED  BY <2>4, <4>1, <5>1, <5>2
      <4>2. CASE d = 0
        <5>1. 0 \in 0..m - 1
          BY <3>1
        <5>2. g[0] = f[0] /\ f[0] = <<>>
          BY <3>3, <3>4, <5>1
        <5> HIDE DEF g
        <5> QED  BY <4>2, <5>2
      <4>3. CASE d # m /\ d # 0
        <5>1. d \in 0..m - 1 /\ d - 1 \in 0..m - 1
          BY <2>2, <4>3
        <5>2. g[d] = f[d] /\ g[d - 1] = f[d - 1] /\ f[d] = Step(f, d)
          BY <3>3, <3>4, <5>1
        <5> HIDE DEF g
        <5> QED  BY <4>3, <5>2
      <4> QED  BY <4>1, <4>2, <4>3
    <3>6. g = [d \in 0..m |-> g[d]]
      OBVIOUS
    <3>7. g = [d \in 0..m |-> Step(g, d)]
      <4> HIDE DEF g
      <4> QED  BY <3>5, <3>6
    <3> QED  BY <3>7
  <2> QED  BY <2>3, <2>4
<1> DEFINE keep == CHOOSE f : f = [d \in 0..n |-> Step(f, d)]
<1>3. keep = [d \in 0..n |-> Step(keep, d)]
  BY <1>1, <1>2
<1>4. Operands(c) = keep[n]
  BY DEF Operands
<1> HIDE DEF keep
<1>5. keep[0] = <<>> /\ \A d \in 1..n : keep[d] = Step(keep, d)
  <2> DEFINE step == [d \in 0..n |-> Step(keep, d)]
  <2>1. \A d \in 0..n : step[d] = Step(keep, d)
    OBVIOUS
  <2>2. keep = step
    BY <1>3
  <2> HIDE DEF step
  <2>3. \A d \in 0..n : keep[d] = Step(keep, d)
    BY <2>1, <2>2
  <2>4. 0 \in 0..n /\ \A d \in 1..n : d \in 0..n
    BY <1>1
  <2> QED  BY <2>3, <2>4
<1>6. ASSUME NEW d \in 1..n
      PROVE  keep[d] = IF c.args[d] = Empty THEN keep[d - 1] ELSE Append(keep[d - 1], c.args[d])
  <2>1. d # 0 /\ keep[d] = Step(keep, d)
    BY <1>5
  <2> QED  BY <2>1
<1> QED  BY <1>4, <1>5, <1>6

\* The operands but for {} are arguments of the call.
LEMMA OperandsParts ==
    ASSUME NEW w, NEW u, NEW whole, NEW c, Handled(w, u, whole, c)
    PROVE  Parts(w, u, whole, Operands(c))
<1> DEFINE n == Len(c.args)
           S == {c.args[i] : i \in 1..n}
<1>1. n \in Nat /\ \A i \in 1..n : Part(w, u, whole, c.args[i])
  BY DEF Handled, Parts
<1>2. PICK keep : /\ keep[0] = <<>>
                  /\ \A d \in 1..n : keep[d] = IF c.args[d] = Empty THEN keep[d - 1]
                                               ELSE Append(keep[d - 1], c.args[d])
                  /\ Operands(c) = keep[n]
  BY <1>1, KeepExists
<1> DEFINE bad == {d \in 0..n : keep[d] \notin Seq(S)}
<1>3. \A d \in 0..n : keep[d] \in Seq(S)
  <2> SUFFICES ASSUME bad # {} PROVE FALSE
    OBVIOUS
  <2>1. bad \subseteq Nat
    BY <1>1
  <2>2. PICK d \in bad : \A y \in bad : ~(y < d)
    <3> HIDE DEF bad
    <3> QED  BY <2>1, NatMin
  <2>3. d \in 0..n /\ keep[d] \notin Seq(S)
    OBVIOUS
  <2>4. d # 0
    <3>1. <<>> \in Seq(S)
      BY EmptySeq
    <3> HIDE DEF S
    <3> QED  BY <1>2, <2>3, <3>1
  <2>5. d \in 1..n /\ d - 1 < d /\ d - 1 \in 0..n
    BY <1>1, <2>3, <2>4
  <2>6. keep[d - 1] \in Seq(S) /\ c.args[d] \in S
    BY <2>2, <2>5
  <2> HIDE DEF S, bad
  <2>7. Append(keep[d - 1], c.args[d]) \in Seq(S)
    BY <2>6
  <2> QED  BY <1>2, <2>3, <2>5, <2>6, <2>7
<1>4. Operands(c) \in Seq(S)
  BY <1>1, <1>2, <1>3
<1>5. \A x \in S : Part(w, u, whole, x)
  BY <1>1
<1> HIDE DEF S
<1>6. Len(Operands(c)) \in Nat /\ DOMAIN Operands(c) = 1..Len(Operands(c))
  BY <1>4
<1>7. \A i \in 1..Len(Operands(c)) : Operands(c)[i] \in S
  BY <1>4
<1> QED  BY <1>5, <1>6, <1>7 DEF Parts

\* The elements of an array that is an argument are parts of the call (Spread).
LEMMA FirstPart ==
    ASSUME NEW w, NEW u, NEW whole, NEW t, Part(w, u, whole, t)
    PROVE  Parts(w, u, whole, ArgsOf(t))
<1>1. Good(w, u, t)
  BY DEF Part
<1>2. Width(t) \in Nat /\ \A i \in 1..Width(t) : Part(w, u, t, ArgsOf(t)[i])
  BY <1>1, ArgsParts
<1>3. \A i \in 1..Width(t) : Part(w, u, whole, ArgsOf(t)[i])
  BY <1>2, PartTransitive
<1>4. DOMAIN ArgsOf(t) = 1..Width(t) /\ Len(ArgsOf(t)) = Width(t)
  BY <1>2 DEF ArgsOf
<1> QED  BY <1>2, <1>3, <1>4 DEF Parts

\* What try_shortcircuit makes of a call with a {}: if it loses the list, it may.
LEMMA FoldedPart ==
    ASSUME NEW w, NEW u, NEW whole, NEW c, Handled(w, u, whole, c), FoldsEmpty(c)
    PROVE  Part(w, u, whole, Folded(c))
<1>1. Parts(w, u, whole, c.args) /\ Parts(w, u, whole, Operands(c))
  BY OperandsParts DEF Handled
<1>2. PICK i \in DOMAIN c.args : c.args[i] = Empty
  <2>1. CASE Empty \in ToSet(c.args)
    BY <2>1 DEF ToSet
  <2>2. CASE c.args = <<Empty>>
    BY <2>2
  <2> QED  BY <2>1, <2>2 DEF FoldsEmpty
<1>3. Has(Empty, "empty")
  BY DEF Has, Empty, Leaf, Node
<1>4. Has(whole, "empty")
  BY <1>1, <1>2, <1>3 DEF Parts, Part
<1>5. Part(w, u, whole, Empty) /\ Part(w, u, whole, Value)
  BY <1>4, LeafPart DEF Empty, Value
<1>6. Part(w, u, whole, Call(c.op, Operands(c), NotGiven, c.site))
  <2> DEFINE is == [kind |-> "call", op |-> c.op, named |-> NotGiven, site |-> c.site]
             s == Operands(c)
  <2>1. is.kind = "call" /\ is.site = c.site
    OBVIOUS
  <2>2. Call(c.op, s, NotGiven, c.site) = Term(is, s)
    BY DEF Call
  <2> HIDE DEF is, s
  <2>3. is.site > 0 => HoldsEmpty(w, is.site)
    BY <1>4, <2>1 DEF Handled
  <2>4. Labelled(w, u, is)
    BY <2>3 DEF Labelled
  <2>5. DOMAIN s = 1..Len(s) /\ Len(s) \in Nat /\ \A j \in DOMAIN s : Part(w, u, whole, s[j])
    BY <1>1 DEF Parts, s
  <2>6. IsFiniteSet(DOMAIN s) /\ DOMAIN s \subseteq Nat
    BY <2>5, FS_Interval
  <2>7. Part(w, u, whole, Term(is, s))
    BY <2>1, <2>3, <2>4, <2>5, <2>6, TermPart
  <2> QED  BY <2>2, <2>7 DEF s
<1>7. Len(Operands(c)) = 1 => Part(w, u, whole, Operands(c)[1])
  BY <1>1 DEF Parts
<1> QED  BY <1>5, <1>6, <1>7 DEF Folded

\* What try_pseudo_module makes of a call is not a call of the program.
LEMMA AppliedPart ==
    ASSUME NEW w, NEW u, NEW whole, NEW c, Handled(w, u, whole, c),
           NEW row, row.body.site \in Int, row.body.site <= 0
    PROVE  Part(w, u, whole, Applied(c, row))
<1> DEFINE args == IF row.variadic THEN <<Array(c.args)>> ELSE c.args
<1>1. Part(w, u, whole, Failed)
  BY LeafPart DEF Failed
<1>2. Parts(w, u, whole, c.args)
  BY DEF Handled
<1>3. DOMAIN c.args = 1..Len(c.args) /\ Len(c.args) \in Nat
      /\ \A j \in DOMAIN c.args : Part(w, u, whole, c.args[j])
  BY <1>2 DEF Parts
<1>4. IsFiniteSet(DOMAIN c.args) /\ DOMAIN c.args \subseteq Nat
  BY <1>3, FS_Interval
<1>5. Part(w, u, whole, Array(c.args))
  <2> DEFINE is == [kind |-> "array"]
  <2>1. is.kind = "array"
    OBVIOUS
  <2>2. Array(c.args) = Term(is, c.args)
    BY DEF Array
  <2> HIDE DEF is
  <2>3. Labelled(w, u, is)
    BY <2>1 DEF Labelled
  <2> QED  BY <1>3, <1>4, <2>1, <2>2, <2>3, TermPart
<1>6. IsFiniteSet(DOMAIN args) /\ DOMAIN args \subseteq Nat
      /\ \A j \in DOMAIN args : Part(w, u, whole, args[j])
  <2>1. CASE row.variadic
    <3> DEFINE one == <<Array(c.args)>>
    <3>1. DOMAIN one = {1} /\ one[1] = Array(c.args)
      OBVIOUS
    <3>2. IsFiniteSet({1})
      BY FS_Singleton
    <3>3. args = one
      BY <2>1
    <3> HIDE DEF one, args
    <3> QED  BY <1>5, <3>1, <3>2, <3>3
  <2>2. CASE ~row.variadic
    BY <1>3, <1>4, <2>2
  <2> QED  BY <2>1, <2>2
<1>7. Part(w, u, whole, Call(row.body.op, args, row.body.list, row.body.site))
  <2> DEFINE is == [kind |-> "call", op |-> row.body.op, named |-> row.body.list,
                    site |-> row.body.site]
  <2>1. is.kind = "call" /\ is.site = row.body.site
    OBVIOUS
  <2>2. Call(row.body.op, args, row.body.list, row.body.site) = Term(is, args)
    BY DEF Call
  <2> HIDE DEF is, args
  <2>3. ~(is.site > 0)
    BY <2>1
  <2>4. Labelled(w, u, is)
    BY <2>3 DEF Labelled
  <2> QED  BY <1>6, <2>1, <2>2, <2>3, <2>4, TermPart
<1> QED  BY <1>1, <1>7 DEF Applied

\* sig_dispatch answers with a module of the list.
LEMMA HitInList ==
    ASSUME NEW op, NEW types, NEW list, NEW n, NEW hit \in Hits(op, types, list, n)
    PROVE  list.given => hit.by \in ToSet(list.elems)
<1>1. PICK m \in Takers(op, types, list, n) : hit = Hit(m, op, types, n)
  BY DEF Hits
<1>2. hit.by = m
  BY <1>1 DEF Hit
<1> QED  BY <1>1, <1>2 DEF Takers

\* A call is routed to a module of its list (decide_executor).
LEMMA RunningPart ==
    ASSUME NEW w, NEW u, NEW whole, NEW c, Handled(w, u, whole, c),
           NEW hit \in Accepting(c)
    PROVE  Part(w, u, whole, Running(c, hit))
<1> DEFINE is == [kind |-> "run", op |-> c.op, by |-> hit.by, type |-> hit.line.out,
                  site |-> c.site]
<1>1. is.kind = "run" /\ is.by = hit.by /\ is.site = c.site
  OBVIOUS
<1>2. Running(c, hit) = Term(is, c.args)
  BY DEF Running
<1> HIDE DEF is
<1>3. c.list.given => hit.by \in ToSet(c.list.elems)
  <2>1. hit \in Hits(c.op, c.types, c.list, Len(c.args))
    BY DEF Accepting
  <2> QED  BY <2>1, HitInList
<1>4. Labelled(w, u, is)
  <2> SUFFICES ASSUME is.site > 0, ~HoldsEmpty(w, is.site)
               PROVE  LET list == ListIn(u, NamedAt(w, is.site))
                      IN  list.given => is.by \in ToSet(list.elems)
    BY <1>1 DEF Labelled
  <2>1. c.named = NamedAt(w, is.site) /\ c.list = ListIn(u, c.named)
    BY <1>1 DEF Handled
  <2> QED  BY <1>1, <1>3, <2>1
<1>5. DOMAIN c.args = 1..Len(c.args) /\ Len(c.args) \in Nat
      /\ \A j \in DOMAIN c.args : Part(w, u, whole, c.args[j])
  BY DEF Handled, Parts
<1>6. IsFiniteSet(DOMAIN c.args) /\ DOMAIN c.args \subseteq Nat
  BY <1>5, FS_Interval
<1> QED  BY <1>1, <1>2, <1>4, <1>5, <1>6, TermPart

-----------------------------------------------------------------------------
(* The invariant.                                                          *)

\* Every call and every run of the program is labelled with what was written.
IInv == Good(written, use, program)

\* A program as it was written is good.
LEMMA WrittenGood ==
    ASSUME NEW w \in Programs, NEW u
    PROVE  Good(w, u, w)
<1>1. /\ IsFiniteSet(w)
      /\ \A n \in w : n = Node(n.at, n.is) /\ n.at \in Seq(Nat \ {0}) /\ n.is.kind # "run"
      /\ \A n, o \in w :
            n.is.kind = "call" /\ o.is.kind = "call" /\ n.is.site = o.is.site => n = o
  BY ProgramsAssumption DEF IsTree
<1>2. Shaped(w)
  BY <1>1 DEF Shaped
<1>3. ASSUME NEW n \in w PROVE Labelled(w, u, n.is)
  <2>1. CASE n.is.kind = "call"
    <3>1. n \in AtSite(w, n.is.site)
      BY <2>1 DEF AtSite
    <3>2. \A o \in AtSite(w, n.is.site) : o = n
      BY <1>1, <2>1 DEF AtSite
    <3>3. n.is.named = NamedAt(w, n.is.site)
      BY <3>1, <3>2 DEF NamedAt
    <3> QED  BY <2>1, <3>3 DEF Labelled
  <2>2. CASE n.is.kind # "call"
    BY <1>1, <2>2 DEF Labelled
  <2> QED  BY <2>1, <2>2
<1>4. Covered(w, w)
  BY DEF Covered, HoldsEmpty, AtSite, Has, Below
<1> QED  BY <1>2, <1>3, <1>4 DEF Good

\* The call of an agent that is ready is labelled, and its operands are parts of it.
LEMMA AgentHandled ==
    ASSUME IInv, NEW n \in ReadyNodes
    PROVE  LET whole == Sub(program, n.at)
           IN  /\ n.at \in Seq(Nat)
               /\ Handled(written, use, whole, Agent(n.is, ArgsOf(whole)))
<1> DEFINE w == written
           u == use
           whole == Sub(program, n.at)
           args == ArgsOf(whole)
           c == Agent(n.is, args)
<1>1. n \in program /\ n.is.kind = "call"
  BY DEF ReadyNodes
<1>2. Shaped(program) /\ Labelled(w, u, n.is) /\ Covered(w, program) /\ Good(w, u, program)
  BY <1>1 DEF IInv, Good
<1>3. n.at \in Seq(Nat)
  BY <1>1, <1>2 DEF Shaped
<1>4. Part(w, u, program, whole)
  BY <1>2, <1>3, SubPart
<1>5. Part(w, u, whole, whole)
  BY <1>4 DEF Part
<1>6. c.args = Spread(n.is.op, args) /\ c.named = n.is.named /\ c.site = n.is.site
      /\ c.list = ListIn(u, n.is.named)
  BY DEF Agent, Resolved, ListIn
<1>7. ASSUME n.is.site > 0, Has(whole, "empty") PROVE HoldsEmpty(w, n.is.site)
  <2>1. PICK s \in whole : s.is.kind = "empty"
    BY <1>7 DEF Has
  <2>2. PICK e \in program : s.is = e.is /\ IsPrefix(n.at, e.at)
    BY <1>2, <1>3, SubMember
  <2> QED  BY <1>1, <1>2, <1>7, <2>1, <2>2 DEF Covered
<1> HIDE DEF w, u, whole, c
<1>8. Parts(w, u, whole, args)
  BY <1>5, FirstPart
<1>9. Parts(w, u, whole, Spread(n.is.op, args))
  <2> HIDE DEF args
  <2>1. CASE Spread(n.is.op, args) = args
    BY <1>8, <2>1
  <2>2. CASE Spread(n.is.op, args) # args
    <3>1. Len(args) = 1 /\ Spread(n.is.op, args) = ArgsOf(args[1])
      BY <2>2 DEF Spread
    <3>2. Part(w, u, whole, args[1])
      BY <1>8, <3>1 DEF Parts
    <3> QED  BY <3>1, <3>2, FirstPart
  <2> QED  BY <2>1, <2>2
<1>10. n.is.site > 0 /\ ~HoldsEmpty(w, n.is.site) => n.is.named = NamedAt(w, n.is.site)
  BY <1>1, <1>2 DEF Labelled
<1>11. Handled(w, u, whole, c)
  <2> HIDE DEF args
  <2> QED  BY <1>6, <1>7, <1>9, <1>10 DEF Handled
<1> QED  BY <1>3, <1>11 DEF w, u, whole, c

\* What takes the place of a call when its agent starts.
LEMMA StartKeeps ==
    ASSUME IInv, NEW n \in ReadyNodes, NEW new,
           Part(written, use, Sub(program, n.at), new),
           program' = Put(program, n.at, new), written' = written, use' = use
    PROVE  IInv'
<1>1. n.at \in Seq(Nat)
  BY AgentHandled
<1>2. Good(written, use, Put(program, n.at, new))
  BY <1>1, PutGood DEF IInv
<1>3. Good(written', use', program')
  BY <1>2
<1> QED  BY <1>3 DEF IInv

\* Each way in which ACT_START goes on keeps the invariant.
LEMMA CallStartsKeeps == IInv /\ CallStarts => IInv'
<1> SUFFICES ASSUME IInv, CallStarts PROVE IInv'
  OBVIOUS
<1>1. PICK n \in ReadyNodes :
        LET r == [at |-> n.at, call |-> Agent(n.is, ArgsOf(Sub(program, n.at)))]
        IN  \/ Propagate(r) \/ RefuseArgs(r) \/ FoldEmpty(r) \/ Decompose(r)
            \/ UsePseudo(r) \/ Route(r) \/ Refuse(r)
  BY DEF CallStarts, ReadyCalls
<1> DEFINE whole == Sub(program, n.at)
           c == Agent(n.is, ArgsOf(whole))
           r == [at |-> n.at, call |-> c]
           MayBe(new) == Part(written, use, whole, new)
<1>2. Handled(written, use, whole, c)
  BY AgentHandled
<1>3. r.at = n.at /\ r.call = c
  OBVIOUS
<1>4. \A new : Becomes(r, new) /\ MayBe(new) => IInv'
  BY <1>3, StartKeeps DEF Becomes
<1>5. \/ Propagate(r) \/ RefuseArgs(r) \/ FoldEmpty(r) \/ Decompose(r)
      \/ UsePseudo(r) \/ Route(r) \/ Refuse(r)
  BY <1>1
<1>6. MayBe(Failed)
  BY LeafPart DEF Failed
<1> HIDE DEF r, c, MayBe
<1>7. CASE Propagate(r) \/ RefuseArgs(r) \/ Refuse(r)
  BY <1>4, <1>6, <1>7 DEF Propagate, RefuseArgs, Refuse
<1>8. CASE FoldEmpty(r)
  <2>1. FoldsEmpty(c) /\ Becomes(r, Folded(c))
    BY <1>3, <1>8 DEF FoldEmpty
  <2>2. MayBe(Folded(c))
    BY <1>2, <2>1, FoldedPart DEF MayBe
  <2> QED  BY <1>4, <2>1, <2>2
<1>9. CASE Decompose(r)
  <2>1. PICK k \in GroupSizes(c) : Becomes(r, Split(c, k))
    BY <1>3, <1>9 DEF Decompose
  <2>2. Len(c.args) \in Nat
    BY <1>2 DEF Handled, Parts
  <2>3. k \in 2..Len(c.args)
    BY DEF GroupSizes
  <2>4. k \in Nat /\ k >= 2 /\ Len(c.args) >= 1
    BY <2>2, <2>3
  <2>5. MayBe(Split(c, k))
    BY <1>2, <2>4, SplitPart DEF MayBe
  <2> QED  BY <1>4, <2>1, <2>5
<1>10. CASE UsePseudo(r)
  <2>1. PICK row \in PseudoRows(c) : Becomes(r, Applied(c, row))
    BY <1>3, <1>10 DEF UsePseudo
  <2>2. PICK i \in Answering(c) :
           /\ c.list.elems[i] < 0
           /\ row \in {Pseudo[-c.list.elems[i]][j] : j \in FirstOf(Answers(-c.list.elems[i], c))}
    BY DEF PseudoRows, FirstOf
  <2> DEFINE p == -c.list.elems[i]
  <2>3. p \in DOMAIN Pseudo
    BY <2>2 DEF Answering
  <2>4. PICK j \in Answers(p, c) : row = Pseudo[p][j]
    BY <2>2 DEF FirstOf
  <2> HIDE DEF p
  <2>5. j \in DOMAIN Pseudo[p]
    BY DEF Answers
  <2>6. row.body.site \in Int /\ row.body.site <= 0
    BY <2>3, <2>4, <2>5, PseudoAssumption
  <2>7. MayBe(Applied(c, row))
    BY <1>2, <2>6, AppliedPart DEF MayBe
  <2> QED  BY <1>4, <2>1, <2>7
<1>11. CASE Route(r)
  <2>1. PICK hit \in Accepting(c) : Becomes(r, Running(c, hit))
    BY <1>3, <1>11 DEF Route
  <2>2. MayBe(Running(c, hit))
    BY <1>2, RunningPart DEF MayBe
  <2> QED  BY <1>4, <2>1, <2>2
<1> QED  BY <1>5, <1>7, <1>8, <1>9, <1>10, <1>11

(* IInv holds in every reachable state of every program (ACT_START up to   *)
(* the routing, with module() calls in between).                           *)
THEOREM Invariance == Spec => []IInv
<1>1. Init => IInv
  BY WrittenGood DEF Init, IInv
<1>2. IInv /\ [Next]_vars => IInv'
  <2> SUFFICES ASSUME IInv, [Next]_vars PROVE IInv'
    OBVIOUS
  <2>1. CASE CallStarts
    BY <2>1, CallStartsKeeps
  <2>2. ASSUME NEW m \in Module, NEW k \in 2..MaxArity, SetArity(m, k) PROVE IInv'
    <3>1. written' = written /\ use' = use /\ program' = program
      BY <2>2 DEF SetArity
    <3> QED  BY <3>1 DEF IInv
  <2>3. CASE UNCHANGED vars
    <3>1. written' = written /\ use' = use /\ program' = program
      BY <2>3 DEF vars
    <3> QED  BY <3>1 DEF IInv
  <2> QED  BY <2>1, <2>2, <2>3 DEF Next
<1> QED  BY <1>1, <1>2, PTL DEF Spec

(* A call that names its modules runs in one of them, however it was       *)
(* folded, split into groups and routed, unless a {} is written in it      *)
(* (set_module_expr in build_ktree and build_kleftfold, and its absence in *)
(* try_shortcircuit).                                                      *)
THEOREM RunsInItsList == Spec => []PlainListed
<1>1. IInv => PlainListed
  <2> SUFFICES ASSUME IInv, NEW n \in program,
                      n.is.kind = "run", n.is.site > 0, ~HoldsEmpty(written, n.is.site),
                      Resolved(NamedAt(written, n.is.site)).given
               PROVE  n.is.by \in ToSet(Resolved(NamedAt(written, n.is.site)).elems)
    BY DEF PlainListed
  <2>1. Labelled(written, use, n.is)
    BY DEF IInv, Good
  <2>2. Resolved(NamedAt(written, n.is.site)) = ListIn(use, NamedAt(written, n.is.site))
    BY DEF Resolved, ListIn
  <2> QED  BY <2>1, <2>2 DEF Labelled
<1> QED  BY <1>1, Invariance, PTL
-----------------------------------------------------------------------------
(* Terms as sets of nodes.                                                 *)

\* Places are put together in any order of the brackets,
LEMMA ConcatAssoc ==
    ASSUME NEW p \in Seq(Nat), NEW q \in Seq(Nat), NEW r \in Seq(Nat)
    PROVE  (p \o q) \o r = p \o (q \o r)
OBVIOUS

\* the root adds nothing,
LEMMA ConcatRoot ==
    ASSUME NEW p \in Seq(Nat)
    PROVE  <<>> \in Seq(Nat) /\ p \o <<>> = p /\ <<>> \o p = p
OBVIOUS

\* and what is put before two places can be taken away.
LEMMA ConcatCancel ==
    ASSUME NEW p \in Seq(Nat), NEW q \in Seq(Nat), NEW r \in Seq(Nat), p \o q = p \o r
    PROVE  q = r
<1>1. Len(p) \in Nat /\ Len(q) \in Nat /\ Len(r) \in Nat
  OBVIOUS
<1>2. p \o q \in Seq(Nat)
  BY ConcatPlaces
<1>3. \A s \in Seq(Nat) : IsPrefix(s, s)
  BY PrefixPointwise
<1>4. IsPrefix(p \o q, p \o r) /\ IsPrefix(p \o r, p \o q)
  BY <1>2, <1>3
<1>5. IsPrefix(q, r) /\ IsPrefix(r, q)
  BY <1>4, PrefixInConcat
<1>6. Len(q) = Len(r) /\ \A i \in 1..Len(q) : q[i] = r[i]
  BY <1>1, <1>5, PrefixPointwise
<1> QED  BY <1>6, SeqEqual

\* A place is below another one if it is that one and a way on.
LEMMA PrefixIff ==
    ASSUME NEW p \in Seq(Nat), NEW q \in Seq(Nat)
    PROVE  IsPrefix(p, q) <=> \E r \in Seq(Nat) : q = p \o r
BY PrefixOfConcat, RestOfPlace

\* A place is the root or begins with a number.
LEMMA PlaceCases ==
    ASSUME NEW p \in Seq(Nat)
    PROVE  p = <<>> \/ \E i \in Nat, q \in Seq(Nat) : p = <<i>> \o q
<1> SUFFICES ASSUME p # <<>> PROVE \E i \in Nat, q \in Seq(Nat) : p = <<i>> \o q
  OBVIOUS
<1>1. Len(p) \in Nat /\ Len(p) >= 1 /\ p[1] \in Nat
  OBVIOUS
<1> DEFINE one == <<p[1]>>
<1>2. one \in Seq(Nat) /\ Len(one) = 1 /\ one[1] = p[1]
  BY <1>1
<1>3. IsPrefix(one, p)
  <2> HIDE DEF one
  <2> QED  BY <1>1, <1>2, PrefixPointwise
<1> QED  BY <1>1, <1>2, <1>3, RestOfPlace

\* Below an argument is not at the root.
LEMMA ArgumentPlace ==
    ASSUME NEW i \in Nat, NEW q \in Seq(Nat)
    PROVE  /\ <<i>> \in Seq(Nat) /\ <<i>> \o q \in Seq(Nat)
           /\ <<i>> \o q # <<>>
           /\ (<<i>> \o q)[1] = i
<1>1. <<i>> \in Seq(Nat) /\ Len(<<i>>) = 1
  OBVIOUS
<1>2. <<i>> \o q \in Seq(Nat) /\ Len(<<i>> \o q) = 1 + Len(q) /\ Len(q) \in Nat
  BY <1>1, ConcatPlaces
<1>3. (<<i>> \o q)[1] = i
  BY <1>1, ConcatPlaces
<1>4. <<i>> \o q # <<>>
  BY <1>2
<1> QED  BY <1>1, <1>2, <1>3, <1>4

\* The number it begins with says which argument it is.
LEMMA FirstNumber ==
    ASSUME NEW i \in Nat, NEW q \in Seq(Nat), NEW j \in Nat, NEW r \in Seq(Nat),
           <<i>> \o q = <<j>> \o r
    PROVE  i = j /\ q = r
<1>1. (<<i>> \o q)[1] = i /\ (<<j>> \o r)[1] = j
  BY ArgumentPlace
<1>2. i = j
  BY <1>1
<1>3. <<i>> \in Seq(Nat)
  OBVIOUS
<1>4. <<i>> \o q = <<i>> \o r
  BY <1>2
<1> QED  BY <1>2, <1>3, <1>4, ConcatCancel

\* A place and what is there.
LEMMA NodeParts ==
    ASSUME NEW p, NEW x
    PROVE  Node(p, x).at = p /\ Node(p, x).is = x
BY DEF Node

\* Two nodes are equal if their parts are.
LEMMA NodeEqual ==
    ASSUME NEW p, NEW x, NEW q, NEW y
    PROVE  Node(p, x) = Node(q, y) <=> p = q /\ x = y
BY NodeParts

\* Two terms are equal if they have the same nodes.
LEMMA SameTerm ==
    ASSUME NEW s, Shaped(s), NEW t, Shaped(t),
           \A q \in Seq(Nat) : \A x : Node(q, x) \in s <=> Node(q, x) \in t
    PROVE  s = t
<1>1. ASSUME NEW n \in s PROVE n \in t
  <2>1. n = Node(n.at, n.is) /\ n.at \in Seq(Nat)
    BY DEF Shaped
  <2>2. Node(n.at, n.is) \in s
    BY <2>1
  <2>3. Node(n.at, n.is) \in t
    BY <2>1, <2>2
  <2> QED  BY <2>1, <2>3
<1>2. ASSUME NEW n \in t PROVE n \in s
  <2>1. n = Node(n.at, n.is) /\ n.at \in Seq(Nat)
    BY DEF Shaped
  <2>2. Node(n.at, n.is) \in t
    BY <2>1
  <2>3. Node(n.at, n.is) \in s
    BY <2>1, <2>2
  <2> QED  BY <2>1, <2>3
<1> QED  BY <1>1, <1>2

\* The nodes of the term at a place,
LEMMA SubIff ==
    ASSUME NEW t, Shaped(t), NEW p \in Seq(Nat)
    PROVE  /\ Shaped(Sub(t, p))
           /\ \A q \in Seq(Nat) : \A x : Node(q, x) \in Sub(t, p) <=> Node(p \o q, x) \in t
<1>1. Shaped(Sub(t, p))
  BY SubMember, SubFinite DEF Shaped
<1>2. ASSUME NEW q \in Seq(Nat), NEW x, Node(q, x) \in Sub(t, p)
      PROVE  Node(p \o q, x) \in t
  <2> DEFINE n == Node(q, x)
  <2>1. n.at = q /\ n.is = x
    BY NodeParts
  <2>2. n \in Sub(t, p)
    BY <1>2
  <2> HIDE DEF n
  <2>3. PICK m \in t : n.is = m.is /\ p \o n.at = m.at
    <3>1. \A o \in Sub(t, p) : /\ o = Node(o.at, o.is) /\ o.at \in Seq(Nat)
                               /\ \E m \in t : o.is = m.is /\ p \o o.at = m.at /\ IsPrefix(p, m.at)
      BY SubMember
    <3> QED  BY <2>2, <3>1
  <2>4. m = Node(m.at, m.is)
    BY DEF Shaped
  <2> QED  BY <2>1, <2>3, <2>4
<1>3. ASSUME NEW q \in Seq(Nat), NEW x, Node(p \o q, x) \in t
      PROVE  Node(q, x) \in Sub(t, p)
  <2> DEFINE m == Node(p \o q, x)
             r == SubSeq(m.at, Len(p) + 1, Len(m.at))
  <2>1. m.at = p \o q /\ m.is = x
    BY NodeParts
  <2>2. IsPrefix(p, p \o q) /\ p \o q \in Seq(Nat)
    BY PrefixOfConcat, ConcatPlaces
  <2>3. m.at = p \o q /\ m.is = x /\ IsPrefix(p, m.at) /\ m.at \in Seq(Nat)
    BY <2>1, <2>2
  <2>4. Node(r, m.is) \in Sub(t, p)
    BY <1>3, <2>3 DEF Sub, Below
  <2>5. r \in Seq(Nat) /\ p \o r = p \o q
    <3> HIDE DEF m
    <3>1. SubSeq(m.at, Len(p) + 1, Len(m.at)) \in Seq(Nat)
          /\ p \o SubSeq(m.at, Len(p) + 1, Len(m.at)) = m.at
      BY <2>3, RestOfPlace
    <3> QED  BY <2>3, <3>1
  <2> HIDE DEF r, m
  <2>6. r = q
    BY <2>5, ConcatCancel
  <2> QED  BY <2>3, <2>4, <2>6
<1> QED  BY <1>1, <1>2, <1>3

\* of a node over arguments,
LEMMA TermIff ==
    ASSUME NEW is, NEW args, IsFiniteSet(DOMAIN args), DOMAIN args \subseteq Nat,
           \A i \in DOMAIN args : Shaped(args[i])
    PROVE  /\ Shaped(Term(is, args))
           /\ \A x : Node(<<>>, x) \in Term(is, args) <=> x = is
           /\ \A i \in Nat, q \in Seq(Nat) : \A x :
                 Node(<<i>> \o q, x) \in Term(is, args)
                     <=> i \in DOMAIN args /\ Node(q, x) \in args[i]
<1> DEFINE t == Term(is, args)
<1>1. \A n \in t : \/ n = Node(<<>>, is)
                   \/ \E i \in DOMAIN args : \E m \in args[i] : n = Node(<<i>> \o m.at, m.is)
  BY DEF Term
<1>2. Node(<<>>, is) \in t
      /\ \A i \in DOMAIN args : \A m \in args[i] : Node(<<i>> \o m.at, m.is) \in t
  <2>1. Node(<<>>, is) \in t
    BY DEF Term
  <2>2. ASSUME NEW i \in DOMAIN args, NEW m \in args[i] PROVE Node(<<i>> \o m.at, m.is) \in t
    BY DEF Term
  <2> QED  BY <2>1, <2>2
<1>3. IsFiniteSet(t)
  BY TermFinite DEF Shaped
<1> HIDE DEF t
<1>4. \A i \in DOMAIN args : i \in Nat /\ \A m \in args[i] : m.at \in Seq(Nat) /\ m = Node(m.at, m.is)
  BY DEF Shaped
<1>5. ASSUME NEW n \in t PROVE n = Node(n.at, n.is) /\ n.at \in Seq(Nat)
  <2>1. CASE n = Node(<<>>, is)
    <3>1. n.at = <<>> /\ n.is = is
      BY <2>1, NodeParts
    <3>2. <<>> \in Seq(Nat)
      OBVIOUS
    <3> QED  BY <2>1, <3>1, <3>2
  <2>2. ASSUME NEW i \in DOMAIN args, NEW m \in args[i], n = Node(<<i>> \o m.at, m.is)
        PROVE  n = Node(n.at, n.is) /\ n.at \in Seq(Nat)
    <3>1. n.at = <<i>> \o m.at /\ n.is = m.is
      BY <2>2, NodeParts
    <3>2. <<i>> \o m.at \in Seq(Nat)
      BY <1>4, ArgumentPlace
    <3> QED  BY <2>2, <3>1, <3>2
  <2> QED  BY <1>1, <2>1, <2>2
<1>6. ASSUME NEW x PROVE Node(<<>>, x) \in t <=> x = is
  <2>1. ASSUME NEW i \in DOMAIN args, NEW m \in args[i], Node(<<>>, x) = Node(<<i>> \o m.at, m.is)
        PROVE  FALSE
    <3>1. <<>> = <<i>> \o m.at
      <4> DEFINE b == <<i>> \o m.at
      <4>1. Node(<<>>, x) = Node(b, m.is)
        BY <2>1
      <4> HIDE DEF b
      <4>2. <<>> = b
        BY <4>1, NodeEqual
      <4> QED  BY <4>2 DEF b
    <3>2. <<i>> \o m.at # <<>>
      BY <1>4, ArgumentPlace
    <3> QED  BY <3>1, <3>2
  <2>2. Node(<<>>, x) = Node(<<>>, is) <=> x = is
    BY NodeEqual
  <2>3. x = is => Node(<<>>, x) \in t
    BY <1>2
  <2>4. Node(<<>>, x) \in t => Node(<<>>, x) = Node(<<>>, is)
    BY <1>1, <2>1
  <2> QED  BY <2>2, <2>3, <2>4
<1>7. ASSUME NEW i \in Nat, NEW q \in Seq(Nat), NEW x
      PROVE  Node(<<i>> \o q, x) \in t <=> i \in DOMAIN args /\ Node(q, x) \in args[i]
  <2>1. Node(<<i>> \o q, x) # Node(<<>>, is)
    <3> DEFINE a == <<i>> \o q
    <3>1. a # <<>>
      BY ArgumentPlace
    <3> HIDE DEF a
    <3>2. Node(a, x) # Node(<<>>, is)
      BY <3>1, NodeEqual
    <3> QED  BY <3>2 DEF a
  <2>2. ASSUME NEW j \in DOMAIN args, NEW m \in args[j], Node(<<i>> \o q, x) = Node(<<j>> \o m.at, m.is)
        PROVE  i \in DOMAIN args /\ Node(q, x) \in args[i]
    <3>1. <<i>> \o q = <<j>> \o m.at /\ x = m.is
      <4> DEFINE a == <<i>> \o q
                 b == <<j>> \o m.at
      <4>1. Node(a, x) = Node(b, m.is)
        BY <2>2
      <4> HIDE DEF a, b
      <4>2. a = b /\ x = m.is
        BY <4>1, NodeEqual
      <4> QED  BY <4>2 DEF a, b
    <3>2. j \in Nat /\ m.at \in Seq(Nat)
      BY <1>4
    <3>3. i = j /\ q = m.at
      BY <3>1, <3>2, FirstNumber
    <3> QED  BY <1>4, <3>1, <3>3
  <2>3. ASSUME i \in DOMAIN args, Node(q, x) \in args[i] PROVE Node(<<i>> \o q, x) \in t
    <3>1. Node(<<i>> \o Node(q, x).at, Node(q, x).is) \in t
      BY <1>2, <2>3
    <3> QED  BY <3>1, NodeParts
  <2> QED  BY <1>1, <2>1, <2>2, <2>3
<1> QED  BY <1>3, <1>5, <1>6, <1>7 DEF Shaped, t

\* and of a term in which another one has taken a place.
LEMMA PutIff ==
    ASSUME NEW t, Shaped(t), NEW p \in Seq(Nat), NEW new, Shaped(new)
    PROVE  /\ Shaped(Put(t, p, new))
           /\ \A q \in Seq(Nat) : \A x :
                 Node(p \o q, x) \in Put(t, p, new) <=> Node(q, x) \in new
           /\ \A q \in Seq(Nat) : ~IsPrefix(p, q) =>
                 \A x : Node(q, x) \in Put(t, p, new) <=> Node(q, x) \in t
<1> DEFINE r == Put(t, p, new)
           moved == {Node(p \o n.at, n.is) : n \in new}
<1>1. \A n : n \in r <=> (n \in t /\ ~IsPrefix(p, n.at)) \/ n \in moved
  BY DEF Put, Below
<1>2. IsFiniteSet(r)
  <2>1. IsFiniteSet(t \ Below(t, p))
    BY FS_Subset DEF Shaped
  <2>2. IsFiniteSet(moved)
    <3>1. IsFiniteSet(new)
      BY DEF Shaped
    <3> QED  BY <3>1, MovedFinite
  <2>3. r = (t \ Below(t, p)) \cup moved
    BY DEF Put
  <2> QED  BY <2>1, <2>2, <2>3, FS_Union
<1> HIDE DEF r
<1>3. \A m \in new : m.at \in Seq(Nat) /\ m = Node(m.at, m.is)
  BY DEF Shaped
<1>4. ASSUME NEW n \in moved
      PROVE  n = Node(n.at, n.is) /\ n.at \in Seq(Nat) /\ IsPrefix(p, n.at)
  <2>1. PICK m \in new : n = Node(p \o m.at, m.is)
    OBVIOUS
  <2>2. n.at = p \o m.at /\ n.is = m.is
    BY <2>1, NodeParts
  <2>3. p \o m.at \in Seq(Nat) /\ IsPrefix(p, p \o m.at)
    BY <1>3, ConcatPlaces, PrefixOfConcat
  <2> QED  BY <2>1, <2>2, <2>3
<1>5. Shaped(r)
  BY <1>1, <1>2, <1>4 DEF Shaped
<1>6. ASSUME NEW q \in Seq(Nat), NEW x PROVE Node(p \o q, x) \in r <=> Node(q, x) \in new
  <2>1. IsPrefix(p, Node(p \o q, x).at)
    BY NodeParts, PrefixOfConcat
  <2>2. Node(p \o q, x) \in r <=> Node(p \o q, x) \in moved
    BY <1>1, <2>1
  <2>3. ASSUME NEW m \in new, Node(p \o q, x) = Node(p \o m.at, m.is) PROVE Node(q, x) \in new
    <3>1. p \o q = p \o m.at /\ x = m.is
      <4> DEFINE a == p \o q
                 b == p \o m.at
      <4>1. Node(a, x) = Node(b, m.is)
        BY <2>3
      <4> HIDE DEF a, b
      <4>2. a = b /\ x = m.is
        BY <4>1, NodeEqual
      <4> QED  BY <4>2 DEF a, b
    <3>2. q = m.at
      BY <1>3, <3>1, ConcatCancel
    <3> QED  BY <1>3, <3>1, <3>2
  <2>4. ASSUME Node(q, x) \in new PROVE Node(p \o q, x) \in moved
    <3>1. Node(p \o Node(q, x).at, Node(q, x).is) \in moved
      BY <2>4
    <3> QED  BY <3>1, NodeParts
  <2> QED  BY <2>2, <2>3, <2>4
<1>7. ASSUME NEW q \in Seq(Nat), ~IsPrefix(p, q), NEW x
      PROVE  Node(q, x) \in r <=> Node(q, x) \in t
  <2>1. Node(q, x).at = q
    BY NodeParts
  <2>2. Node(q, x) \notin moved
    BY <1>4, <1>7, <2>1
  <2> QED  BY <1>1, <1>7, <2>1, <2>2
<1> QED  BY <1>5, <1>6, <1>7 DEF r

-----------------------------------------------------------------------------
(* A term at a place of a term that was put together.                      *)

\* At the root of a term there is the term itself.
LEMMA SubRoot ==
    ASSUME NEW t, Shaped(t)
    PROVE  Sub(t, <<>>) = t
<1>1. <<>> \in Seq(Nat) /\ \A q \in Seq(Nat) : <<>> \o q = q
  BY ConcatRoot
<1>2. Shaped(Sub(t, <<>>))
      /\ \A q \in Seq(Nat) : \A x : Node(q, x) \in Sub(t, <<>>) <=> Node(<<>> \o q, x) \in t
  BY <1>1, SubIff
<1>3. \A q \in Seq(Nat) : \A x : Node(q, x) \in Sub(t, <<>>) <=> Node(q, x) \in t
  BY <1>1, <1>2
<1> QED  BY <1>2, <1>3, SameTerm

-----------------------------------------------------------------------------
(* Trees.                                                                  *)

\* A place below an argument has the node above it and the arguments before it.
Closed(P) ==
    \A p, q \in Seq(Nat), i \in Nat : (p \o <<i>>) \o q \in P =>
        i >= 1 /\ p \in P /\ \A j \in 1..i : p \o <<j>> \in P

Tree(t) ==
    /\ Shaped(t)
    /\ \A p \in Seq(Nat) : \A x, y : Node(p, x) \in t /\ Node(p, y) \in t => x = y
    /\ <<>> \in Places(t)
    /\ Closed(Places(t))

\* A place of a term is the place of a node.
LEMMA PlaceIff ==
    ASSUME NEW t, Shaped(t)
    PROVE  /\ Places(t) \subseteq Seq(Nat)
           /\ \A p : p \in Places(t) <=> \E x : Node(p, x) \in t
<1>1. \A n \in t : n = Node(n.at, n.is) /\ n.at \in Seq(Nat)
  BY DEF Shaped
<1>2. Places(t) \subseteq Seq(Nat)
  BY <1>1 DEF Places
<1>3. ASSUME NEW p \in Places(t) PROVE \E x : Node(p, x) \in t
  <2>1. PICK n \in t : p = n.at
    BY DEF Places
  <2> QED  BY <1>1, <2>1
<1>4. ASSUME NEW p, NEW x, Node(p, x) \in t PROVE p \in Places(t)
  <2>1. Node(p, x).at \in Places(t)
    BY <1>4 DEF Places
  <2> QED  BY <2>1, NodeParts
<1> QED  BY <1>2, <1>3, <1>4

\* The places of a term at a place,
LEMMA PlacesSub ==
    ASSUME NEW t, Shaped(t), NEW p \in Seq(Nat)
    PROVE  \A q \in Seq(Nat) : q \in Places(Sub(t, p)) <=> p \o q \in Places(t)
<1>1. Shaped(Sub(t, p))
      /\ \A q \in Seq(Nat) : \A x : Node(q, x) \in Sub(t, p) <=> Node(p \o q, x) \in t
  BY SubIff
<1>2. ASSUME NEW q \in Seq(Nat) PROVE q \in Places(Sub(t, p)) <=> p \o q \in Places(t)
  <2>1. q \in Places(Sub(t, p)) <=> \E x : Node(q, x) \in Sub(t, p)
    BY <1>1, PlaceIff
  <2>2. p \o q \in Places(t) <=> \E x : Node(p \o q, x) \in t
    BY PlaceIff
  <2> QED  BY <1>1, <2>1, <2>2
<1> QED  BY <1>2

\* of a node over arguments,
LEMMA PlacesTerm ==
    ASSUME NEW is, NEW args, IsFiniteSet(DOMAIN args), DOMAIN args \subseteq Nat,
           \A i \in DOMAIN args : Shaped(args[i])
    PROVE  /\ <<>> \in Places(Term(is, args))
           /\ \A i \in Nat, q \in Seq(Nat) :
                 <<i>> \o q \in Places(Term(is, args))
                     <=> i \in DOMAIN args /\ q \in Places(args[i])
<1> DEFINE t == Term(is, args)
<1>1. /\ Shaped(t)
      /\ \A x : Node(<<>>, x) \in t <=> x = is
      /\ \A i \in Nat, q \in Seq(Nat) : \A x :
            Node(<<i>> \o q, x) \in t <=> i \in DOMAIN args /\ Node(q, x) \in args[i]
  BY TermIff
<1> HIDE DEF t
<1>2. <<>> \in Places(t)
  BY <1>1, PlaceIff
<1>3. ASSUME NEW i \in Nat, NEW q \in Seq(Nat)
      PROVE  <<i>> \o q \in Places(t) <=> i \in DOMAIN args /\ q \in Places(args[i])
  <2>1. <<i>> \o q \in Places(t) <=> \E x : Node(<<i>> \o q, x) \in t
    BY <1>1, PlaceIff
  <2>2. i \in DOMAIN args => (q \in Places(args[i]) <=> \E x : Node(q, x) \in args[i])
    BY PlaceIff
  <2> QED  BY <1>1, <2>1, <2>2
<1> QED  BY <1>2, <1>3 DEF t

\* and of a term in which another one has taken a place.
LEMMA PlacesPut ==
    ASSUME NEW t, Shaped(t), NEW p \in Seq(Nat), NEW new, Shaped(new)
    PROVE  /\ \A q \in Seq(Nat) : p \o q \in Places(Put(t, p, new)) <=> q \in Places(new)
           /\ \A q \in Seq(Nat) : ~IsPrefix(p, q) =>
                 (q \in Places(Put(t, p, new)) <=> q \in Places(t))
<1> DEFINE r == Put(t, p, new)
<1>1. /\ Shaped(r)
      /\ \A q \in Seq(Nat) : \A x : Node(p \o q, x) \in r <=> Node(q, x) \in new
      /\ \A q \in Seq(Nat) : ~IsPrefix(p, q) => \A x : Node(q, x) \in r <=> Node(q, x) \in t
  BY PutIff
<1> HIDE DEF r
<1>2. /\ \A q : q \in Places(r) <=> \E x : Node(q, x) \in r
      /\ \A q : q \in Places(t) <=> \E x : Node(q, x) \in t
      /\ \A q : q \in Places(new) <=> \E x : Node(q, x) \in new
  BY <1>1, PlaceIff
<1>3. ASSUME NEW q \in Seq(Nat) PROVE p \o q \in Places(r) <=> q \in Places(new)
  BY <1>1, <1>2
<1>4. ASSUME NEW q \in Seq(Nat), ~IsPrefix(p, q) PROVE q \in Places(r) <=> q \in Places(t)
  BY <1>1, <1>2, <1>4
<1> QED  BY <1>3, <1>4 DEF r

\* What is at the root of a tree.
LEMMA TopIff ==
    ASSUME NEW t, Tree(t)
    PROVE  \A x : Node(<<>>, x) \in t <=> x = Top(t)
<1>1. <<>> \in Seq(Nat)
  OBVIOUS
<1>2. Shaped(t) /\ <<>> \in Places(t)
      /\ \A x, y : Node(<<>>, x) \in t /\ Node(<<>>, y) \in t => x = y
  BY <1>1 DEF Tree
<1>3. PICK x : Node(<<>>, x) \in t
  BY <1>2, PlaceIff
<1>4. \E n \in t : n.at = <<>>
  BY <1>3, NodeParts
<1> DEFINE n == CHOOSE n \in t : n.at = <<>>
<1>5. n \in t /\ n.at = <<>>
  BY <1>4
<1>6. n = Node(n.at, n.is)
  <2> HIDE DEF n
  <2> QED  BY <1>2, <1>5 DEF Shaped
<1>7. Top(t) = n.is
  BY DEF Top
<1> HIDE DEF n
<1>8. Node(<<>>, Top(t)) \in t
  BY <1>5, <1>6, <1>7
<1> QED  BY <1>2, <1>8

\* The arguments of a tree are numbered through.
LEMMA WidthIff ==
    ASSUME NEW t, Tree(t)
    PROVE  /\ Width(t) \in Nat
           /\ \A i \in Nat : <<i>> \in Places(t) <=> i \in 1..Width(t)
<1> DEFINE lower == {o \in t : o.at # <<>>}
           first == {n.at[1] : n \in lower}
           all == {0} \cup first
           w == Max(all)
<1>1. Shaped(t)
  BY DEF Tree
<1>2. w \in all /\ (\A x \in all : x <= w) /\ all \subseteq Nat
  BY <1>1, FirstNumbers
<1>3. Width(t) = w
  BY DEF Width
<1> HIDE DEF w
<1>4. w \in Nat
  <2> HIDE DEF all
  <2> QED  BY <1>2
<1>5. ASSUME NEW i \in Nat, <<i>> \in Places(t) PROVE i \in 1..w
  <2>1. PICK n \in t : n.at = <<i>>
    BY <1>5 DEF Places
  <2>2. n.at # <<>> /\ n.at[1] = i
    BY <2>1
  <2>3. i \in all
    BY <2>2
  <2>4. <<i>> \in Seq(Nat) /\ <<>> \in Seq(Nat) /\ (<<>> \o <<i>>) \o <<>> = <<i>>
    BY ConcatRoot
  <2>5. i >= 1
    BY <1>5, <2>4 DEF Tree, Closed
  <2> HIDE DEF all
  <2>6. i <= w
    BY <1>2, <2>3
  <2> QED  BY <1>4, <2>5, <2>6
<1>6. ASSUME NEW i \in 1..w PROVE <<i>> \in Places(t)
  <2>1. w # 0 /\ w \in first
    BY <1>2, <1>4
  <2>2. PICK n \in t : n.at # <<>> /\ n.at[1] = w
    BY <2>1
  <2>3. n.at \in Seq(Nat) /\ n.at \in Places(t)
    BY <1>1 DEF Shaped, Places
  <2>4. PICK k \in Nat, q \in Seq(Nat) : n.at = <<k>> \o q
    BY <2>2, <2>3, PlaceCases
  <2>5. k = w /\ <<k>> \in Seq(Nat)
    BY <2>2, <2>4, ArgumentPlace
  <2>6. <<>> \in Seq(Nat) /\ <<>> \o <<k>> = <<k>> /\ <<i>> \in Seq(Nat) /\ <<>> \o <<i>> = <<i>>
    BY <1>4, <2>5, ConcatRoot
  <2>7. (<<>> \o <<k>>) \o q \in Places(t)
    BY <2>3, <2>4, <2>6
  <2>8. <<>> \o <<i>> \in Places(t)
    BY <2>5, <2>6, <2>7 DEF Tree, Closed
  <2> QED  BY <2>6, <2>8
<1> QED  BY <1>3, <1>4, <1>5, <1>6

-----------------------------------------------------------------------------
(* What is at a place of a tree, and how many arguments it has.            *)

At(t, p) == Top(Sub(t, p))
Wide(t, p) == Width(Sub(t, p))

\* The term at a place of a tree is a tree.
LEMMA TreeSub ==
    ASSUME NEW t, Tree(t), NEW p \in Seq(Nat), p \in Places(t)
    PROVE  Tree(Sub(t, p))
<1> DEFINE s == Sub(t, p)
<1>1. Shaped(t) /\ Closed(Places(t))
      /\ \A q \in Seq(Nat) : \A x, y : Node(q, x) \in t /\ Node(q, y) \in t => x = y
  BY DEF Tree
<1>2. /\ Shaped(s)
      /\ \A q \in Seq(Nat) : \A x : Node(q, x) \in s <=> Node(p \o q, x) \in t
      /\ \A q \in Seq(Nat) : q \in Places(s) <=> p \o q \in Places(t)
  BY <1>1, SubIff, PlacesSub
<1> HIDE DEF s
<1>3. ASSUME NEW q \in Seq(Nat), NEW x, NEW y, Node(q, x) \in s, Node(q, y) \in s
      PROVE  x = y
  <2>1. p \o q \in Seq(Nat)
    BY ConcatPlaces
  <2>2. Node(p \o q, x) \in t /\ Node(p \o q, y) \in t
    BY <1>2, <1>3
  <2> QED  BY <1>1, <2>1, <2>2
<1>4. <<>> \in Places(s)
  BY <1>2, ConcatRoot
<1>5. ASSUME NEW a \in Seq(Nat), NEW b \in Seq(Nat), NEW i \in Nat,
             (a \o <<i>>) \o b \in Places(s)
      PROVE  i >= 1 /\ a \in Places(s) /\ \A j \in 1..i : a \o <<j>> \in Places(s)
  <2> DEFINE pa == p \o a
  <2>1. pa \in Seq(Nat) /\ <<i>> \in Seq(Nat) /\ a \o <<i>> \in Seq(Nat)
        /\ (a \o <<i>>) \o b \in Seq(Nat)
    BY ConcatPlaces
  <2>2. (pa \o <<i>>) \o b = p \o ((a \o <<i>>) \o b)
    <3> DEFINE one == <<i>>
    <3>1. one \in Seq(Nat)
      OBVIOUS
    <3> HIDE DEF one
    <3>2. (p \o a) \o one = p \o (a \o one)
      BY <3>1, ConcatAssoc
    <3>3. a \o one \in Seq(Nat)
      BY <3>1, ConcatPlaces
    <3>4. (p \o (a \o one)) \o b = p \o ((a \o one) \o b)
      BY <3>3, ConcatAssoc
    <3> QED  BY <3>2, <3>4 DEF one
  <2>3. (pa \o <<i>>) \o b \in Places(t)
    BY <1>2, <1>5, <2>1, <2>2
  <2>4. ASSUME NEW j \in Nat PROVE pa \o <<j>> = p \o (a \o <<j>>) /\ a \o <<j>> \in Seq(Nat)
    <3> DEFINE one == <<j>>
    <3>1. one \in Seq(Nat)
      OBVIOUS
    <3> HIDE DEF one
    <3>2. (p \o a) \o one = p \o (a \o one)
      BY <3>1, ConcatAssoc
    <3>3. a \o one \in Seq(Nat)
      BY <3>1, ConcatPlaces
    <3> QED  BY <3>2, <3>3 DEF one
  <2> HIDE DEF pa
  <2>5. i >= 1 /\ pa \in Places(t) /\ \A j \in 1..i : pa \o <<j>> \in Places(t)
    BY <1>1, <2>1, <2>3 DEF Closed
  <2>6. a \in Places(s)
    BY <1>2, <2>5 DEF pa
  <2>7. ASSUME NEW j \in 1..i PROVE a \o <<j>> \in Places(s)
    <3>1. j \in Nat
      OBVIOUS
    <3> QED  BY <1>2, <2>4, <2>5, <3>1
  <2> QED  BY <2>5, <2>6, <2>7
<1>6. Tree(s)
  BY <1>2, <1>3, <1>4, <1>5 DEF Tree, Closed
<1> QED  BY <1>6 DEF s

\* What is at a place is the node there, and its arguments are numbered through.
LEMMA NodeAt ==
    ASSUME NEW t, Tree(t), NEW p \in Seq(Nat), p \in Places(t)
    PROVE  /\ \A x : Node(p, x) \in t <=> x = At(t, p)
           /\ Wide(t, p) \in Nat
           /\ \A i \in Nat : p \o <<i>> \in Places(t) <=> i \in 1..Wide(t, p)
<1> DEFINE s == Sub(t, p)
<1>1. Tree(s) /\ Shaped(t)
  BY TreeSub DEF Tree
<1>2. /\ \A q \in Seq(Nat) : \A x : Node(q, x) \in s <=> Node(p \o q, x) \in t
      /\ \A q \in Seq(Nat) : q \in Places(s) <=> p \o q \in Places(t)
  BY <1>1, SubIff, PlacesSub
<1>3. At(t, p) = Top(s) /\ Wide(t, p) = Width(s)
  BY DEF At, Wide
<1> HIDE DEF s
<1>4. \A x : Node(p, x) \in t <=> x = At(t, p)
  <2>1. <<>> \in Seq(Nat) /\ p \o <<>> = p
    BY ConcatRoot
  <2>2. \A x : Node(<<>>, x) \in s <=> x = Top(s)
    BY <1>1, TopIff
  <2> QED  BY <1>2, <1>3, <2>1, <2>2
<1>5. Wide(t, p) \in Nat /\ \A i \in Nat : <<i>> \in Places(s) <=> i \in 1..Wide(t, p)
  BY <1>1, <1>3, WidthIff
<1>6. ASSUME NEW i \in Nat PROVE p \o <<i>> \in Places(t) <=> i \in 1..Wide(t, p)
  <2>1. <<i>> \in Seq(Nat)
    OBVIOUS
  <2> QED  BY <1>2, <1>5, <2>1
<1> QED  BY <1>4, <1>5, <1>6

\* The same node with the same arguments is the same in both trees.
LEMMA SameAt ==
    ASSUME NEW s, Tree(s), NEW p \in Seq(Nat), p \in Places(s),
           NEW t, Tree(t), NEW q \in Seq(Nat), q \in Places(t),
           \A x : Node(p, x) \in s <=> Node(q, x) \in t,
           \A i \in Nat : p \o <<i>> \in Places(s) <=> q \o <<i>> \in Places(t)
    PROVE  At(s, p) = At(t, q) /\ Wide(s, p) = Wide(t, q)
<1>1. /\ \A x : Node(p, x) \in s <=> x = At(s, p)
      /\ Wide(s, p) \in Nat
      /\ \A i \in Nat : p \o <<i>> \in Places(s) <=> i \in 1..Wide(s, p)
  BY NodeAt
<1>2. /\ \A x : Node(q, x) \in t <=> x = At(t, q)
      /\ Wide(t, q) \in Nat
      /\ \A i \in Nat : q \o <<i>> \in Places(t) <=> i \in 1..Wide(t, q)
  BY NodeAt
<1>3. At(s, p) = At(t, q)
  BY <1>1, <1>2
<1> DEFINE m == Wide(s, p)
           n == Wide(t, q)
<1>4. m \in Nat /\ n \in Nat /\ \A i \in Nat : i \in 1..m <=> i \in 1..n
  BY <1>1, <1>2
<1> HIDE DEF m, n
<1>5. (m \in 1..m <=> m \in 1..n) /\ (n \in 1..m <=> n \in 1..n)
  BY <1>4
<1>6. m = n
  BY <1>4, <1>5
<1> QED  BY <1>3, <1>6 DEF m, n

\* A place with the node above it below another place is there or not at all.
LEMMA PrefixOfArgument ==
    ASSUME NEW p \in Seq(Nat), NEW a \in Seq(Nat), NEW one \in Seq(Nat), Len(one) = 1,
           IsPrefix(p, a \o one), ~IsPrefix(p, a)
    PROVE  p = a \o one
<1>1. IsPrefix(a, a \o one) /\ a \o one \in Seq(Nat)
  BY PrefixOfConcat, ConcatPlaces
<1>2. IsPrefix(a, p)
  BY <1>1, PrefixesCompare
<1>3. PICK e \in Seq(Nat) : p = a \o e
  BY <1>2, PrefixIff
<1>4. IsPrefix(e, one)
  BY <1>3, PrefixInConcat
<1>5. e # <<>>
  <2>1. p = a => IsPrefix(p, a)
    BY PrefixPointwise
  <2> QED  BY <1>3, <2>1, ConcatRoot
<1>6. Len(e) \in Nat /\ Len(e) # 0 /\ Len(e) <= 1 /\ e[1] = one[1]
  <2>1. Len(e) \in Nat /\ Len(e) # 0
    BY <1>5
  <2>2. Len(e) <= Len(one) /\ \A i \in 1..Len(e) : e[i] = one[i]
    BY <1>4, PrefixPointwise
  <2> QED  BY <2>1, <2>2
<1>7. Len(e) = 1 /\ \A i \in 1..1 : e[i] = one[i]
  BY <1>6
<1>8. e = one
  BY <1>7
<1> QED  BY <1>3, <1>8

\* A node over trees is a tree.
LEMMA TreeTerm ==
    ASSUME NEW is, NEW n \in Nat, NEW args, DOMAIN args = 1..n,
           \A i \in 1..n : Tree(args[i])
    PROVE  Tree(Term(is, args))
<1> DEFINE t == Term(is, args)
<1>1. IsFiniteSet(DOMAIN args) /\ DOMAIN args \subseteq Nat /\ \A i \in DOMAIN args : Shaped(args[i])
  BY FS_Interval DEF Tree
<1>2. /\ Shaped(t)
      /\ \A x : Node(<<>>, x) \in t <=> x = is
      /\ \A i \in Nat, q \in Seq(Nat) : \A x :
            Node(<<i>> \o q, x) \in t <=> i \in DOMAIN args /\ Node(q, x) \in args[i]
  BY <1>1, TermIff
<1>3. /\ <<>> \in Places(t)
      /\ \A i \in Nat, q \in Seq(Nat) :
            <<i>> \o q \in Places(t) <=> i \in DOMAIN args /\ q \in Places(args[i])
  BY <1>1, PlacesTerm
<1> HIDE DEF t
<1>4. ASSUME NEW p \in Seq(Nat), NEW x, NEW y, Node(p, x) \in t, Node(p, y) \in t
      PROVE  x = y
  <2>1. CASE p = <<>>
    BY <1>2, <1>4, <2>1
  <2>2. ASSUME NEW i \in Nat, NEW q \in Seq(Nat), p = <<i>> \o q PROVE x = y
    <3>1. i \in DOMAIN args /\ Node(q, x) \in args[i] /\ Node(q, y) \in args[i]
      BY <1>2, <1>4, <2>2
    <3> QED  BY <3>1 DEF Tree
  <2> QED  BY <2>1, <2>2, PlaceCases
<1>5. ASSUME NEW i \in 1..n PROVE <<i>> \in Places(t)
  <2>1. i \in Nat /\ <<i>> \in Seq(Nat) /\ <<>> \in Seq(Nat)
    OBVIOUS
  <2>2. <<i>> \o <<>> = <<i>>
    BY <2>1, ConcatRoot
  <2>3. <<>> \in Places(args[i])
    BY DEF Tree
  <2>4. <<i>> \o <<>> \in Places(t)
    BY <1>3, <2>1, <2>3
  <2> QED  BY <2>2, <2>4
<1>6. ASSUME NEW a \in Seq(Nat), NEW b \in Seq(Nat), NEW i \in Nat,
             (a \o <<i>>) \o b \in Places(t)
      PROVE  i >= 1 /\ a \in Places(t) /\ \A j \in 1..i : a \o <<j>> \in Places(t)
  <2>1. CASE a = <<>>
    <3>1. \A j \in Nat : <<j>> \in Seq(Nat) /\ a \o <<j>> = <<j>>
      BY <2>1, ConcatRoot
    <3>2. i \in 1..n
      <4>1. <<i>> \o b \in Places(t)
        BY <1>6, <3>1
      <4> QED  BY <1>3, <4>1
    <3>3. \A j \in 1..i : j \in Nat /\ j \in 1..n
      BY <3>2
    <3>4. i >= 1
      BY <3>2
    <3>5. a \in Places(t)
      BY <1>3, <2>1
    <3>6. ASSUME NEW j \in 1..i PROVE a \o <<j>> \in Places(t)
      BY <1>5, <3>1, <3>3
    <3> QED  BY <3>4, <3>5, <3>6
  <2>2. ASSUME NEW k \in Nat, NEW e \in Seq(Nat), a = <<k>> \o e
        PROVE  i >= 1 /\ a \in Places(t) /\ \A j \in 1..i : a \o <<j>> \in Places(t)
    <3> DEFINE top == <<k>>
    <3>1. top \in Seq(Nat)
      OBVIOUS
    <3>2. a = top \o e
      BY <2>2
    <3>3. \A q \in Seq(Nat) : top \o q \in Places(t) <=> k \in DOMAIN args /\ q \in Places(args[k])
      BY <1>3
    <3> HIDE DEF top
    <3>4. ASSUME NEW j \in Nat
          PROVE  /\ a \o <<j>> = top \o (e \o <<j>>) /\ e \o <<j>> \in Seq(Nat)
                 /\ (a \o <<j>>) \o b = top \o ((e \o <<j>>) \o b) /\ (e \o <<j>>) \o b \in Seq(Nat)
      <4> DEFINE one == <<j>>
      <4>1. one \in Seq(Nat)
        OBVIOUS
      <4> HIDE DEF one
      <4>2. (top \o e) \o one = top \o (e \o one)
        BY <3>1, <4>1, ConcatAssoc
      <4>3. e \o one \in Seq(Nat)
        BY <4>1, ConcatPlaces
      <4> DEFINE eo == e \o one
      <4>4. eo \in Seq(Nat) /\ a \o one = top \o eo
        BY <3>2, <4>2, <4>3
      <4> HIDE DEF eo
      <4>5. (top \o eo) \o b = top \o (eo \o b)
        BY <3>1, <4>4, ConcatAssoc
      <4>6. eo \o b \in Seq(Nat)
        BY <4>4, ConcatPlaces
      <4> QED  BY <4>4, <4>5, <4>6 DEF eo, one
    <3>5. k \in 1..n /\ (e \o <<i>>) \o b \in Places(args[k])
      BY <1>6, <3>3, <3>4
    <3>6. Closed(Places(args[k]))
      BY <3>5 DEF Tree
    <3>7. i >= 1 /\ e \in Places(args[k]) /\ \A j \in 1..i : e \o <<j>> \in Places(args[k])
      BY <3>5, <3>6 DEF Closed
    <3>8. a \in Places(t)
      BY <3>2, <3>3, <3>5, <3>7
    <3>9. ASSUME NEW j \in 1..i PROVE a \o <<j>> \in Places(t)
      <4>1. j \in Nat
        OBVIOUS
      <4> QED  BY <3>3, <3>4, <3>5, <3>7, <4>1
    <3> QED  BY <3>7, <3>8, <3>9
  <2> QED  BY <2>1, <2>2, PlaceCases
<1>7. Tree(t)
  BY <1>2, <1>3, <1>4, <1>6 DEF Tree, Closed
<1> QED  BY <1>7 DEF t

\* A tree in which a tree has taken a place is a tree.
LEMMA TreePut ==
    ASSUME NEW t, Tree(t), NEW p \in Seq(Nat), p \in Places(t), NEW new, Tree(new)
    PROVE  Tree(Put(t, p, new))
<1> DEFINE r == Put(t, p, new)
<1>1. Shaped(t) /\ Shaped(new) /\ Closed(Places(t)) /\ Closed(Places(new))
      /\ <<>> \in Places(t) /\ <<>> \in Places(new)
  BY DEF Tree
<1>2. /\ Shaped(r)
      /\ \A q \in Seq(Nat) : \A x : Node(p \o q, x) \in r <=> Node(q, x) \in new
      /\ \A q \in Seq(Nat) : ~IsPrefix(p, q) => \A x : Node(q, x) \in r <=> Node(q, x) \in t
  BY <1>1, PutIff
<1>3. /\ \A q \in Seq(Nat) : p \o q \in Places(r) <=> q \in Places(new)
      /\ \A q \in Seq(Nat) : ~IsPrefix(p, q) => (q \in Places(r) <=> q \in Places(t))
  BY <1>1, PlacesPut
<1> HIDE DEF r
<1>4. ASSUME NEW q \in Seq(Nat), NEW x, NEW y, Node(q, x) \in r, Node(q, y) \in r
      PROVE  x = y
  <2>1. CASE IsPrefix(p, q)
    <3>1. PICK e \in Seq(Nat) : q = p \o e
      BY <2>1, PrefixIff
    <3>2. Node(e, x) \in new /\ Node(e, y) \in new
      BY <1>2, <1>4, <3>1
    <3> QED  BY <3>2 DEF Tree
  <2>2. CASE ~IsPrefix(p, q)
    <3>1. Node(q, x) \in t /\ Node(q, y) \in t
      BY <1>2, <1>4, <2>2
    <3> QED  BY <3>1 DEF Tree
  <2> QED  BY <2>1, <2>2
<1>5. p \in Places(r)
  <2>1. p \o <<>> = p /\ <<>> \in Seq(Nat)
    BY ConcatRoot
  <2> QED  BY <1>1, <1>3, <2>1
<1>6. <<>> \in Places(r)
  <2>1. <<>> \in Seq(Nat)
    OBVIOUS
  <2>2. CASE IsPrefix(p, <<>>)
    <3> DEFINE root == <<>>
    <3>1. root \in Seq(Nat) /\ Len(root) = 0 /\ IsPrefix(p, root)
      BY <2>2
    <3> HIDE DEF root
    <3>2. Len(p) <= Len(root)
      BY <3>1, PrefixPointwise
    <3>3. p = <<>>
      BY <3>1, <3>2 DEF root
    <3> QED  BY <1>5, <3>3
  <2>3. CASE ~IsPrefix(p, <<>>)
    BY <1>1, <1>3, <2>1, <2>3
  <2> QED  BY <2>2, <2>3
<1>7. ASSUME NEW a \in Seq(Nat), NEW b \in Seq(Nat), NEW i \in Nat,
             (a \o <<i>>) \o b \in Places(r)
      PROVE  i >= 1 /\ a \in Places(r) /\ \A j \in 1..i : a \o <<j>> \in Places(r)
  <2> DEFINE one(j) == <<j>>
  <2>1. \A j \in Nat : one(j) \in Seq(Nat) /\ Len(one(j)) = 1
    OBVIOUS
  <2>2. \A j, k \in Nat, c, d \in Seq(Nat) : one(j) \o c = one(k) \o d => j = k
    BY FirstNumber
  <2>3. \A c \in Seq(Nat) : c = <<>> \/ \E j \in Nat, d \in Seq(Nat) : c = one(j) \o d
    BY PlaceCases
  <2>4. (a \o one(i)) \o b \in Places(r)
    BY <1>7
  <2>5. /\ \A c, d \in Seq(Nat), j \in Nat : (c \o one(j)) \o d \in Places(t) =>
              j >= 1 /\ c \in Places(t) /\ \A k \in 1..j : c \o one(k) \in Places(t)
        /\ \A c, d \in Seq(Nat), j \in Nat : (c \o one(j)) \o d \in Places(new) =>
              j >= 1 /\ c \in Places(new) /\ \A k \in 1..j : c \o one(k) \in Places(new)
    BY <1>1 DEF Closed
  <2>6. SUFFICES i >= 1 /\ a \in Places(r) /\ \A j \in 1..i : a \o one(j) \in Places(r)
    OBVIOUS
  <2> HIDE DEF one
  <2>7. \A j \in Nat : a \o one(j) \in Seq(Nat)
    BY <2>1, ConcatPlaces
  <2>8. (a \o one(i)) \o b \in Seq(Nat)
    BY <2>7, ConcatPlaces
  <2>9. CASE IsPrefix(p, a)
    <3>1. PICK e \in Seq(Nat) : a = p \o e
      BY <2>9, PrefixIff
    <3>2. \A j \in Nat : a \o one(j) = p \o (e \o one(j)) /\ e \o one(j) \in Seq(Nat)
      <4> SUFFICES ASSUME NEW j \in Nat
                   PROVE  a \o one(j) = p \o (e \o one(j)) /\ e \o one(j) \in Seq(Nat)
        OBVIOUS
      <4>1. one(j) \in Seq(Nat)
        BY <2>1
      <4>2. (p \o e) \o one(j) = p \o (e \o one(j))
        BY <4>1, ConcatAssoc
      <4>3. e \o one(j) \in Seq(Nat)
        BY <4>1, ConcatPlaces
      <4> QED  BY <3>1, <4>2, <4>3
    <3>3. (a \o one(i)) \o b = p \o ((e \o one(i)) \o b) /\ (e \o one(i)) \o b \in Seq(Nat)
      <4> DEFINE eo == e \o one(i)
      <4>1. eo \in Seq(Nat) /\ a \o one(i) = p \o eo
        BY <3>2
      <4> HIDE DEF eo
      <4>2. (p \o eo) \o b = p \o (eo \o b)
        BY <4>1, ConcatAssoc
      <4>3. eo \o b \in Seq(Nat)
        BY <4>1, ConcatPlaces
      <4> QED  BY <4>1, <4>2, <4>3 DEF eo
    <3>4. (e \o one(i)) \o b \in Places(new)
      BY <1>3, <2>4, <3>3
    <3>5. i >= 1 /\ e \in Places(new) /\ \A j \in 1..i : e \o one(j) \in Places(new)
      BY <2>5, <3>4
    <3>6. a \in Places(r)
      BY <1>3, <3>1, <3>5
    <3>7. ASSUME NEW j \in 1..i PROVE a \o one(j) \in Places(r)
      <4>1. j \in Nat
        OBVIOUS
      <4> QED  BY <1>3, <3>2, <3>5, <4>1
    <3> QED  BY <3>5, <3>6, <3>7
  <2>10. CASE ~IsPrefix(p, a)
    <3>1. \E d \in Seq(Nat) : (a \o one(i)) \o d \in Places(t)
      <4>1. CASE ~IsPrefix(p, (a \o one(i)) \o b)
        BY <1>3, <2>4, <2>8, <4>1
      <4>2. CASE IsPrefix(p, (a \o one(i)) \o b)
        <5> DEFINE rest == one(i) \o b
        <5>1. rest \in Seq(Nat) /\ (a \o one(i)) \o b = a \o rest
          <6>1. one(i) \in Seq(Nat)
            BY <2>1
          <6>2. rest \in Seq(Nat)
            BY <6>1, ConcatPlaces
          <6>3. (a \o one(i)) \o b = a \o rest
            BY <6>1, ConcatAssoc
          <6> QED  BY <6>2, <6>3
        <5>2. IsPrefix(a, a \o rest) /\ a \o rest \in Seq(Nat)
          <6> HIDE DEF rest
          <6> QED  BY <5>1, PrefixOfConcat, ConcatPlaces
        <5>3. IsPrefix(a, p)
          <6> HIDE DEF rest
          <6> QED  BY <2>10, <4>2, <5>1, <5>2, PrefixesCompare
        <5>4. PICK e \in Seq(Nat) : p = a \o e
          BY <5>3, PrefixIff
        <5>5. e # <<>>
          <6>1. p = a => IsPrefix(p, a)
            BY PrefixPointwise
          <6> QED  BY <2>10, <5>4, <6>1, ConcatRoot
        <5>6. PICK k \in Nat, d \in Seq(Nat) : e = one(k) \o d
          BY <2>3, <5>5
        <5>7. PICK f \in Seq(Nat) : a \o rest = p \o f
          <6> HIDE DEF rest
          <6> QED  BY <4>2, <5>1, <5>2, PrefixIff
        <5>8. a \o rest = a \o (e \o f) /\ e \o f \in Seq(Nat)
          <6> HIDE DEF rest
          <6>1. (a \o e) \o f = a \o (e \o f)
            BY ConcatAssoc, SMTT(30)
          <6>2. e \o f \in Seq(Nat)
            BY ConcatPlaces
          <6> QED  BY <5>4, <5>7, <6>1, <6>2
        <5>9. rest = e \o f
          <6> HIDE DEF rest
          <6> QED  BY <5>1, <5>8, ConcatCancel
        <5>10. one(i) \o b = one(k) \o (d \o f) /\ d \o f \in Seq(Nat)
          <6>1. one(k) \in Seq(Nat)
            BY <2>1
          <6>2. (one(k) \o d) \o f = one(k) \o (d \o f)
            BY <6>1, ConcatAssoc
          <6>3. d \o f \in Seq(Nat)
            BY ConcatPlaces
          <6> QED  BY <5>6, <5>9, <6>2, <6>3
        <5>11. i = k
          BY <2>2, <5>10
        <5>12. p = (a \o one(i)) \o d
          <6>1. one(i) \in Seq(Nat)
            BY <2>1
          <6>2. (a \o one(i)) \o d = a \o (one(i) \o d)
            BY <6>1, ConcatAssoc, SMTT(30)
          <6> QED  BY <5>4, <5>6, <5>11, <6>2
        <5> QED  BY <5>12
      <4> QED  BY <4>1, <4>2
    <3>2. i >= 1 /\ a \in Places(t) /\ \A j \in 1..i : a \o one(j) \in Places(t)
      BY <2>5, <3>1
    <3>3. a \in Places(r)
      BY <1>3, <2>10, <3>2
    <3>4. ASSUME NEW j \in 1..i PROVE a \o one(j) \in Places(r)
      <4>1. one(j) \in Seq(Nat) /\ Len(one(j)) = 1 /\ a \o one(j) \in Seq(Nat)
        BY <2>1, <2>7
      <4>2. CASE ~IsPrefix(p, a \o one(j))
        BY <1>3, <3>2, <4>1, <4>2
      <4>3. CASE IsPrefix(p, a \o one(j))
        <5>1. p = a \o one(j)
          BY <2>10, <4>1, <4>3, PrefixOfArgument
        <5> QED  BY <1>5, <5>1
      <4> QED  BY <4>2, <4>3
    <3> QED  BY <3>2, <3>3, <3>4
  <2> QED  BY <2>9, <2>10
<1>8. Tree(r)
  BY <1>2, <1>4, <1>6, <1>7 DEF Tree, Closed
<1> QED  BY <1>8 DEF r

\* The places of IsTree are closed in this sense.
LEMMA WrittenTree ==
    ASSUME NEW t, IsTree(t)
    PROVE  Tree(t)
<1>1. /\ IsFiniteSet(t)
      /\ \A n \in t : n = Node(n.at, n.is) /\ n.at \in Seq(Nat \ {0})
      /\ \A n, o \in t : n.at = o.at => n = o
      /\ <<>> \in Places(t)
      /\ \A z \in Places(t) : \A k \in 1..Len(z) :
            /\ SubSeq(z, 1, k - 1) \in Places(t)
            /\ \A j \in 1..z[k] : SubSeq(z, 1, k - 1) \o <<j>> \in Places(t)
  BY DEF IsTree
<1>2. \A s : s \in Seq(Nat \ {0}) => s \in Seq(Nat) /\ \A k \in 1..Len(s) : s[k] >= 1
  OBVIOUS
<1>3. Shaped(t)
  BY <1>1, <1>2 DEF Shaped
<1>4. ASSUME NEW p \in Seq(Nat), NEW x, NEW y, Node(p, x) \in t, Node(p, y) \in t
      PROVE  x = y
  <2>1. Node(p, x).at = Node(p, y).at
    BY NodeParts
  <2>2. Node(p, x) = Node(p, y)
    BY <1>1, <1>4, <2>1
  <2> QED  BY <2>2, NodeEqual
<1>5. ASSUME NEW p \in Seq(Nat), NEW q \in Seq(Nat), NEW i \in Nat,
             (p \o <<i>>) \o q \in Places(t)
      PROVE  i >= 1 /\ p \in Places(t) /\ \A j \in 1..i : p \o <<j>> \in Places(t)
  <2> DEFINE z == (p \o <<i>>) \o q
             k == Len(p) + 1
  <2>1. Len(p) \in Nat /\ Len(q) \in Nat
    OBVIOUS
  <2>2. z \in Seq(Nat) /\ Len(z) = k + Len(q) /\ z[k] = i /\ \A j \in 1..Len(p) : z[j] = p[j]
    <3> DEFINE one == <<i>>
               pi == p \o one
    <3>1. one \in Seq(Nat) /\ Len(one) = 1 /\ one[1] = i
      OBVIOUS
    <3> HIDE DEF one
    <3>2. /\ pi \in Seq(Nat) /\ Len(pi) = k
          /\ (\A j \in 1..Len(p) : pi[j] = p[j]) /\ pi[k] = i
      <4>1. 1 \in 1..Len(one)
        BY <3>1
      <4>2. pi \in Seq(Nat) /\ Len(pi) = Len(p) + Len(one)
            /\ (\A j \in 1..Len(p) : pi[j] = p[j]) /\ pi[Len(p) + 1] = one[1]
        BY <3>1, <4>1, ConcatPlaces
      <4> QED  BY <3>1, <4>2
    <3> HIDE DEF pi
    <3>3. pi \o q \in Seq(Nat) /\ Len(pi \o q) = Len(pi) + Len(q)
          /\ \A j \in 1..Len(pi) : (pi \o q)[j] = pi[j]
      BY <3>2, ConcatPlaces
    <3>4. z = pi \o q
      BY DEF pi, one
    <3> HIDE DEF z
    <3>5. k \in 1..Len(pi) /\ \A j \in 1..Len(p) : j \in 1..Len(pi)
      BY <2>1, <3>2
    <3> QED  BY <3>2, <3>3, <3>4, <3>5
  <2>3. z \in Places(t)
    BY <1>5
  <2> HIDE DEF z
  <2>4. k \in 1..Len(z) /\ k - 1 = Len(p)
    BY <2>1, <2>2
  <2>5. SubSeq(z, 1, k - 1) = p
    <3>1. SubSeq(z, 1, Len(p)) \in Seq(Nat) /\ Len(SubSeq(z, 1, Len(p))) = Len(p)
          /\ \A j \in 1..Len(p) : SubSeq(z, 1, Len(p))[j] = z[j]
      BY <2>1, <2>2
    <3>2. SubSeq(z, 1, Len(p)) = p
      BY <2>2, <3>1
    <3> QED  BY <2>4, <3>2
  <2>6. z[k] >= 1
    <3>1. PICK n \in t : n.at = z
      BY <2>3 DEF Places
    <3>2. z \in Seq(Nat \ {0})
      BY <1>1, <3>1
    <3> QED  BY <1>2, <2>4, <3>2
  <2>7. p \in Places(t) /\ \A j \in 1..z[k] : p \o <<j>> \in Places(t)
    BY <1>1, <2>3, <2>4, <2>5
  <2> QED  BY <2>2, <2>6, <2>7
<1>6. Closed(Places(t))
  BY <1>5 DEF Closed
<1> QED  BY <1>1, <1>3, <1>4, <1>6 DEF Tree

-----------------------------------------------------------------------------
(* What a term may denote.  An error stands for a call that was refused:   *)
(* it may denote any one solid, so that what is around it keeps what it    *)
(* denotes although the error may still go away with it ({} minus that).   *)

SolidSet == {NoSolid} \cup SUBSET SUBSET Operand

\* val may be what a node denotes whose arguments denote args.
Fit(is, val, args) ==
    /\ val \in Seq(SolidSet)
    /\ is.kind # "array" => Len(val) = 1
    /\ is.kind # "error" => val = SolidsOf(is, args)

FitAt(t, f, p) == Fit(At(t, p), f[p], [i \in 1..Wide(t, p) |-> f[p \o <<i>>]])

\* f is what the terms at the places of t denote.
Values(t, f) == \A p \in Places(t) : FitAt(t, f, p)

Denotes(t, val) == Tree(t) /\ \E f : Values(t, f) /\ f[<<>>] = val

\* What fits a node fits the same node elsewhere.
LEMMA FitMoves ==
    ASSUME NEW s, Tree(s), NEW p \in Seq(Nat), p \in Places(s), NEW f,
           NEW t, Tree(t), NEW q \in Seq(Nat), q \in Places(t), NEW g,
           \A x : Node(p, x) \in s <=> Node(q, x) \in t,
           \A i \in Nat : p \o <<i>> \in Places(s) <=> q \o <<i>> \in Places(t),
           f[p] = g[q],
           \A i \in Nat : q \o <<i>> \in Places(t) => f[p \o <<i>>] = g[q \o <<i>>],
           FitAt(t, g, q)
    PROVE  FitAt(s, f, p)
<1>1. At(s, p) = At(t, q) /\ Wide(s, p) = Wide(t, q)
  BY SameAt
<1>2. Wide(t, q) \in Nat /\ \A i \in Nat : q \o <<i>> \in Places(t) <=> i \in 1..Wide(t, q)
  BY NodeAt
<1>3. ASSUME NEW i \in 1..Wide(t, q) PROVE f[p \o <<i>>] = g[q \o <<i>>]
  <2>1. i \in Nat
    OBVIOUS
  <2>2. q \o <<i>> \in Places(t)
    BY <1>2, <2>1
  <2> QED  BY <2>1, <2>2
<1>4. [i \in 1..Wide(s, p) |-> f[p \o <<i>>]] = [i \in 1..Wide(t, q) |-> g[q \o <<i>>]]
  BY <1>1, <1>3
<1> QED  BY <1>1, <1>4 DEF FitAt

\* The term at a place denotes what it denotes in the whole.
LEMMA DenotesSub ==
    ASSUME NEW t, Tree(t), NEW f, Values(t, f), NEW p \in Seq(Nat), p \in Places(t)
    PROVE  Denotes(Sub(t, p), f[p])
<1> DEFINE s == Sub(t, p)
           g == [q \in Places(s) |-> f[p \o q]]
<1>1. Tree(s) /\ Shaped(s) /\ Shaped(t)
  BY TreeSub DEF Tree
<1>2. /\ \A q \in Seq(Nat) : \A x : Node(q, x) \in s <=> Node(p \o q, x) \in t
      /\ \A q \in Seq(Nat) : q \in Places(s) <=> p \o q \in Places(t)
  BY <1>1, SubIff, PlacesSub
<1>3. Places(s) \subseteq Seq(Nat) /\ <<>> \in Places(s)
  BY <1>1, PlaceIff DEF Tree
<1>4. \A q \in Places(s) : g[q] = f[p \o q]
  OBVIOUS
<1> HIDE DEF s, g
<1>5. ASSUME NEW q \in Places(s) PROVE FitAt(s, g, q)
  <2> DEFINE pq == p \o q
  <2>1. q \in Seq(Nat) /\ pq \in Seq(Nat)
    BY <1>3, ConcatPlaces
  <2>2. pq \in Places(t) /\ g[q] = f[pq] /\ \A x : Node(q, x) \in s <=> Node(pq, x) \in t
    BY <1>2, <1>4, <2>1
  <2>3. ASSUME NEW i \in Nat
        PROVE  /\ q \o <<i>> \in Places(s) <=> pq \o <<i>> \in Places(t)
               /\ pq \o <<i>> \in Places(t) => g[q \o <<i>>] = f[pq \o <<i>>]
    <3> DEFINE one == <<i>>
    <3>1. one \in Seq(Nat)
      OBVIOUS
    <3> HIDE DEF one
    <3>2. pq \o one = p \o (q \o one)
      BY <2>1, <3>1, ConcatAssoc
    <3>3. q \o one \in Seq(Nat)
      BY <2>1, <3>1, ConcatPlaces
    <3>4. q \o one \in Places(s) <=> pq \o one \in Places(t)
      BY <1>2, <3>2, <3>3
    <3>5. q \o one \in Places(s) => g[q \o one] = f[pq \o one]
      BY <1>4, <3>2
    <3> QED  BY <3>4, <3>5 DEF one
  <2>4. FitAt(t, f, pq)
    BY <2>2 DEF Values
  <2> HIDE DEF pq
  <2> QED  BY <1>1, <2>1, <2>2, <2>3, <2>4, FitMoves
<1>6. g[<<>>] = f[p]
  BY <1>3, <1>4, ConcatRoot
<1>7. Denotes(s, f[p])
  BY <1>1, <1>5, <1>6 DEF Denotes, Values
<1> QED  BY <1>7 DEF s

\* A tree denotes something only if its arguments do.
LEMMA DenotesArgs ==
    ASSUME NEW t, NEW val, Denotes(t, val)
    PROVE  /\ Width(t) \in Nat
           /\ \E x : /\ \A i \in 1..Width(t) : Denotes(Sub(t, <<i>>), x[i])
                     /\ Fit(Top(t), val, [i \in 1..Width(t) |-> x[i]])
<1>1. PICK f : Values(t, f) /\ f[<<>>] = val
  BY DEF Denotes
<1>2. Tree(t) /\ Shaped(t) /\ <<>> \in Places(t)
  BY DEF Denotes, Tree
<1>3. Width(t) \in Nat /\ \A i \in Nat : <<i>> \in Places(t) <=> i \in 1..Width(t)
  BY <1>2, WidthIff
<1> DEFINE w == Width(t)
           x == [i \in 1..w |-> f[<<i>>]]
<1>4. Sub(t, <<>>) = t
  BY <1>2, SubRoot
<1>5. FitAt(t, f, <<>>)
  BY <1>1, <1>2 DEF Values
<1>6. Fit(Top(t), val, [i \in 1..w |-> f[<<>> \o <<i>>]])
  BY <1>1, <1>4, <1>5 DEF FitAt, At, Wide
<1>7. ASSUME NEW i \in 1..w PROVE <<i>> \in Seq(Nat) /\ <<i>> \in Places(t) /\ <<>> \o <<i>> = <<i>>
  <2>1. i \in Nat
    BY <1>3
  <2>2. <<i>> \in Seq(Nat)
    BY <2>1
  <2>3. <<>> \o <<i>> = <<i>>
    BY <2>2, ConcatRoot
  <2> QED  BY <1>3, <2>1, <2>2, <2>3
<1> HIDE DEF w
<1>8. ASSUME NEW i \in 1..w PROVE Denotes(Sub(t, <<i>>), x[i])
  <2> DEFINE one == <<i>>
  <2>1. one \in Seq(Nat) /\ one \in Places(t) /\ x[i] = f[one]
    BY <1>7
  <2> HIDE DEF one, x
  <2>2. Denotes(Sub(t, one), f[one])
    BY <1>1, <1>2, <2>1, DenotesSub
  <2> QED  BY <2>1, <2>2 DEF one
<1>9. [i \in 1..w |-> f[<<>> \o <<i>>]] = [i \in 1..w |-> x[i]]
  BY <1>7
<1>10. Fit(Top(t), val, [i \in 1..w |-> x[i]])
  BY <1>6, <1>9
<1> HIDE DEF x
<1> QED  BY <1>3, <1>8, <1>10 DEF w

\* What a node over arguments denotes.
LEMMA DenotesTerm ==
    ASSUME NEW is, NEW n \in Nat, NEW args, DOMAIN args = 1..n,
           NEW x, \A i \in 1..n : Denotes(args[i], x[i]),
           NEW val, Fit(is, val, [i \in 1..n |-> x[i]])
    PROVE  Denotes(Term(is, args), val)
<1> DEFINE t == Term(is, args)
           fs == [i \in 1..n |-> CHOOSE f : Values(args[i], f) /\ f[<<>>] = x[i]]
           g == [q \in Places(t) |-> IF q = <<>> THEN val ELSE fs[q[1]][Tail(q)]]
<1>1. \A i \in 1..n : Tree(args[i]) /\ Values(args[i], fs[i]) /\ fs[i][<<>>] = x[i]
  BY DEF Denotes
<1>2. IsFiniteSet(DOMAIN args) /\ DOMAIN args \subseteq Nat /\ \A i \in DOMAIN args : Shaped(args[i])
  <2>1. IsFiniteSet(1..n)
    BY FS_Interval
  <2>2. \A i \in 1..n : Shaped(args[i])
    BY <1>1 DEF Tree
  <2> QED  BY <2>1, <2>2
<1>3. Tree(t)
  BY <1>1, TreeTerm
<1>4. /\ \A y : Node(<<>>, y) \in t <=> y = is
      /\ \A i \in Nat, q \in Seq(Nat) : \A y :
            Node(<<i>> \o q, y) \in t <=> i \in DOMAIN args /\ Node(q, y) \in args[i]
  BY <1>2, TermIff
<1>5. /\ <<>> \in Places(t)
      /\ \A i \in Nat, q \in Seq(Nat) :
            <<i>> \o q \in Places(t) <=> i \in DOMAIN args /\ q \in Places(args[i])
  BY <1>2, PlacesTerm
<1> HIDE DEF t, fs
<1>6. g[<<>>] = val
  BY <1>5
<1>7. ASSUME NEW i \in Nat, NEW q \in Seq(Nat), <<i>> \o q \in Places(t)
      PROVE  g[<<i>> \o q] = fs[i][q]
  <2> DEFINE one == <<i>> \o q
  <2>1. one # <<>> /\ one[1] = i
    BY ArgumentPlace
  <2>2. Tail(one) = q
    OBVIOUS
  <2>3. one \in Places(t)
    BY <1>7
  <2> HIDE DEF one
  <2>4. g[one] = fs[i][q]
    BY <2>1, <2>2, <2>3
  <2> QED  BY <2>4 DEF one
<1> HIDE DEF g
<1>8. \A i \in Nat : <<i>> \in Seq(Nat) /\ <<>> \o <<i>> = <<i>> /\ <<i>> \o <<>> = <<i>>
  BY ConcatRoot
<1>9. ASSUME NEW i \in Nat PROVE <<>> \o <<i>> \in Places(t) <=> i \in 1..n
  <2>1. <<>> \in Seq(Nat) /\ (i \in 1..n => <<>> \in Places(args[i]))
    BY <1>1 DEF Tree
  <2>2. <<i>> \o <<>> \in Places(t) <=> i \in 1..n
    BY <1>5, <2>1
  <2> QED  BY <1>8, <2>2
<1>10. FitAt(t, g, <<>>)
  <2>1. <<>> \in Seq(Nat)
    OBVIOUS
  <2>2. /\ \A y : Node(<<>>, y) \in t <=> y = At(t, <<>>)
        /\ Wide(t, <<>>) \in Nat
        /\ \A i \in Nat : <<>> \o <<i>> \in Places(t) <=> i \in 1..Wide(t, <<>>)
    BY <1>3, <1>5, <2>1, NodeAt
  <2>3. At(t, <<>>) = is
    BY <1>4, <2>2
  <2> DEFINE w == Wide(t, <<>>)
  <2>4. w \in Nat /\ \A i \in Nat : i \in 1..w <=> i \in 1..n
    BY <1>9, <2>2
  <2> HIDE DEF w
  <2>5. (w \in 1..w <=> w \in 1..n) /\ (n \in 1..w <=> n \in 1..n)
    BY <2>4
  <2>6. w = n
    BY <2>4, <2>5
  <2>7. ASSUME NEW i \in 1..n PROVE g[<<>> \o <<i>>] = x[i]
    <3>1. i \in Nat /\ <<>> \in Seq(Nat)
      OBVIOUS
    <3>2. <<i>> \o <<>> \in Places(t)
      BY <1>8, <1>9, <3>1
    <3>3. g[<<i>> \o <<>>] = fs[i][<<>>]
      BY <1>7, <3>1, <3>2
    <3> QED  BY <1>1, <1>8, <3>1, <3>3
  <2>8. [i \in 1..n |-> g[<<>> \o <<i>>]] = [i \in 1..n |-> x[i]]
    BY <2>7
  <2> QED  BY <1>6, <2>3, <2>6, <2>8 DEF FitAt, w
<1>11. ASSUME NEW i \in Nat, NEW q \in Seq(Nat), <<i>> \o q \in Places(t)
       PROVE  FitAt(t, g, <<i>> \o q)
  <2> DEFINE iq == <<i>> \o q
  <2>1. i \in 1..n /\ q \in Places(args[i])
    BY <1>5, <1>11
  <2>2. Tree(args[i]) /\ Values(args[i], fs[i])
    BY <1>1, <2>1
  <2>3. iq \in Seq(Nat) /\ iq \in Places(t) /\ g[iq] = fs[i][q]
    BY <1>7, <1>11, ArgumentPlace
  <2>4. \A y : Node(iq, y) \in t <=> Node(q, y) \in args[i]
    BY <1>4, <2>1
  <2>5. ASSUME NEW j \in Nat
        PROVE  /\ iq \o <<j>> \in Places(t) <=> q \o <<j>> \in Places(args[i])
               /\ q \o <<j>> \in Places(args[i]) => g[iq \o <<j>>] = fs[i][q \o <<j>>]
    <3> DEFINE one == <<j>>
               top == <<i>>
    <3>1. one \in Seq(Nat) /\ top \in Seq(Nat)
      OBVIOUS
    <3> HIDE DEF one, top
    <3>2. iq \o one = top \o (q \o one)
      <4>1. (top \o q) \o one = top \o (q \o one)
        BY <3>1, ConcatAssoc
      <4> QED  BY <4>1 DEF top
    <3>3. q \o one \in Seq(Nat)
      BY <3>1, ConcatPlaces
    <3> HIDE DEF iq
    <3>4. iq \o one \in Places(t) <=> q \o one \in Places(args[i])
      <4>1. <<i>> \o (q \o one) \in Places(t) <=> q \o one \in Places(args[i])
        BY <1>5, <2>1, <3>3
      <4> QED  BY <3>2, <4>1 DEF top
    <3>5. iq \o one \in Places(t) => g[iq \o one] = fs[i][q \o one]
      <4>1. <<i>> \o (q \o one) \in Places(t) => g[<<i>> \o (q \o one)] = fs[i][q \o one]
        BY <1>7, <3>3
      <4> QED  BY <3>2, <4>1 DEF top
    <3> QED  BY <3>4, <3>5 DEF one
  <2>6. FitAt(args[i], fs[i], q)
    BY <2>1, <2>2 DEF Values
  <2> DEFINE s == args[i]
             f == fs[i]
  <2>7. Tree(s) /\ q \in Places(s) /\ FitAt(s, f, q) /\ g[iq] = f[q]
    BY <2>1, <2>2, <2>3, <2>6
  <2>8. /\ \A y : Node(iq, y) \in t <=> Node(q, y) \in s
        /\ \A j \in Nat : iq \o <<j>> \in Places(t) <=> q \o <<j>> \in Places(s)
        /\ \A j \in Nat : q \o <<j>> \in Places(s) => g[iq \o <<j>>] = f[q \o <<j>>]
    BY <2>4, <2>5
  <2> HIDE DEF iq, s, f
  <2>9. FitAt(t, g, iq)
    BY <1>3, <2>3, <2>7, <2>8, FitMoves
  <2> QED  BY <2>9 DEF iq
<1>12. Values(t, g)
  <2> SUFFICES ASSUME NEW p \in Places(t) PROVE FitAt(t, g, p)
    BY DEF Values
  <2>1. p \in Seq(Nat)
    BY <1>3, PlaceIff DEF Tree
  <2>2. CASE p = <<>>
    BY <1>10, <2>2
  <2>3. ASSUME NEW i \in Nat, NEW q \in Seq(Nat), p = <<i>> \o q PROVE FitAt(t, g, p)
    BY <1>11, <2>3
  <2> QED  BY <2>1, <2>2, <2>3, PlaceCases
<1>13. Denotes(t, val)
  BY <1>3, <1>6, <1>12 DEF Denotes
<1> QED  BY <1>13 DEF t

\* What takes a place and denotes the same leaves what the whole denotes.
LEMMA DenotesPut ==
    ASSUME NEW t, Tree(t), NEW f, Values(t, f), NEW p \in Seq(Nat), p \in Places(t),
           NEW new, Denotes(new, f[p])
    PROVE  Denotes(Put(t, p, new), f[<<>>])
<1>1. PICK g : Values(new, g) /\ g[<<>>] = f[p]
  BY DEF Denotes
<1>2. Tree(new) /\ Shaped(new) /\ Shaped(t) /\ <<>> \in Places(new) /\ <<>> \in Places(t)
  BY DEF Denotes, Tree
<1> DEFINE r == Put(t, p, new)
           rest(q) == SubSeq(q, Len(p) + 1, Len(q))
           h == [q \in Places(r) |-> IF IsPrefix(p, q) THEN g[rest(q)] ELSE f[q]]
<1>3. Tree(r)
  BY <1>2, TreePut
<1>4. /\ \A q \in Seq(Nat) : \A x : Node(p \o q, x) \in r <=> Node(q, x) \in new
      /\ \A q \in Seq(Nat) : ~IsPrefix(p, q) => \A x : Node(q, x) \in r <=> Node(q, x) \in t
  BY <1>2, PutIff
<1>5. /\ \A q \in Seq(Nat) : p \o q \in Places(r) <=> q \in Places(new)
      /\ \A q \in Seq(Nat) : ~IsPrefix(p, q) => (q \in Places(r) <=> q \in Places(t))
  BY <1>2, PlacesPut
<1>6. Places(r) \subseteq Seq(Nat) /\ <<>> \in Places(r)
  BY <1>3, PlaceIff DEF Tree
<1>7. ASSUME NEW q \in Seq(Nat), p \o q \in Places(r) PROVE h[p \o q] = g[q]
  <2> DEFINE pq == p \o q
  <2>1. IsPrefix(p, pq) /\ pq \in Seq(Nat)
    BY PrefixOfConcat, ConcatPlaces
  <2>2. p \o rest(pq) = pq /\ rest(pq) \in Seq(Nat)
    <3> HIDE DEF pq
    <3> QED  BY <2>1, RestOfPlace
  <2>3. rest(pq) = q
    <3> DEFINE e == rest(pq)
    <3>1. e \in Seq(Nat) /\ p \o e = p \o q
      BY <2>2
    <3> HIDE DEF e
    <3>2. e = q
      BY <3>1, ConcatCancel
    <3> QED  BY <3>2 DEF e
  <2>4. pq \in Places(r)
    BY <1>7
  <2> HIDE DEF pq, rest, r
  <2>5. h[pq] = g[q]
    BY <2>1, <2>3, <2>4
  <2> QED  BY <2>5 DEF pq
<1>8. \A q \in Places(r) : ~IsPrefix(p, q) => h[q] = f[q]
  OBVIOUS
<1> HIDE DEF r, h
<1>9. p \o <<>> = p /\ <<>> \in Seq(Nat) /\ p \in Places(r) /\ h[p] = f[p]
  <2>1. <<>> \in Seq(Nat) /\ p \o <<>> = p
    BY ConcatRoot
  <2>2. p \in Places(r)
    BY <1>2, <1>5, <2>1
  <2> QED  BY <1>1, <1>7, <2>1, <2>2
<1>10. ASSUME NEW q \in Seq(Nat), p \o q \in Places(r) PROVE FitAt(r, h, p \o q)
  <2> DEFINE pq == p \o q
  <2>1. pq \in Seq(Nat) /\ pq \in Places(r) /\ h[pq] = g[q] /\ q \in Places(new)
    BY <1>5, <1>7, <1>10, ConcatPlaces
  <2>2. \A x : Node(pq, x) \in r <=> Node(q, x) \in new
    BY <1>4
  <2>3. ASSUME NEW i \in Nat
        PROVE  /\ pq \o <<i>> \in Places(r) <=> q \o <<i>> \in Places(new)
               /\ q \o <<i>> \in Places(new) => h[pq \o <<i>>] = g[q \o <<i>>]
    <3> DEFINE one == <<i>>
    <3>1. one \in Seq(Nat)
      OBVIOUS
    <3> HIDE DEF one
    <3>2. pq \o one = p \o (q \o one)
      BY <3>1, ConcatAssoc
    <3>3. q \o one \in Seq(Nat)
      BY <3>1, ConcatPlaces
    <3> HIDE DEF pq
    <3>4. pq \o one \in Places(r) <=> q \o one \in Places(new)
      BY <1>5, <3>2, <3>3
    <3>5. pq \o one \in Places(r) => h[pq \o one] = g[q \o one]
      BY <1>7, <3>2, <3>3
    <3> QED  BY <3>4, <3>5 DEF one
  <2>4. FitAt(new, g, q)
    BY <1>1, <2>1 DEF Values
  <2>5. Tree(r) /\ Tree(new)
    BY <1>2, <1>3
  <2>6. /\ \A i \in Nat : pq \o <<i>> \in Places(r) <=> q \o <<i>> \in Places(new)
        /\ \A i \in Nat : q \o <<i>> \in Places(new) => h[pq \o <<i>>] = g[q \o <<i>>]
    BY <2>3
  <2> HIDE DEF pq
  <2>7. FitAt(r, h, pq)
    BY <2>1, <2>2, <2>4, <2>5, <2>6, FitMoves, ZenonT(60)
  <2> QED  BY <2>7 DEF pq
<1>11. ASSUME NEW q \in Seq(Nat), q \in Places(r), ~IsPrefix(p, q) PROVE FitAt(r, h, q)
  <2>1. q \in Places(t) /\ h[q] = f[q] /\ \A x : Node(q, x) \in r <=> Node(q, x) \in t
    BY <1>4, <1>5, <1>8, <1>11
  <2>2. ASSUME NEW i \in Nat
        PROVE  /\ q \o <<i>> \in Places(r) <=> q \o <<i>> \in Places(t)
               /\ q \o <<i>> \in Places(t) => h[q \o <<i>>] = f[q \o <<i>>]
    <3> DEFINE one == <<i>>
               qi == q \o one
    <3>1. one \in Seq(Nat) /\ Len(one) = 1
      OBVIOUS
    <3> HIDE DEF one
    <3>2. qi \in Seq(Nat)
      BY <3>1, ConcatPlaces
    <3>3. CASE IsPrefix(p, qi)
      <4>1. p = qi
        BY <1>11, <3>1, <3>3, PrefixOfArgument
      <4> QED  BY <1>9, <4>1 DEF one
    <3>4. CASE ~IsPrefix(p, qi)
      BY <1>5, <1>8, <3>2, <3>4 DEF one
    <3> QED  BY <3>3, <3>4
  <2>3. FitAt(t, f, q)
    BY <2>1 DEF Values
  <2> QED  BY <1>3, <1>11, <2>1, <2>2, <2>3, FitMoves
<1>12. Values(r, h)
  <2> SUFFICES ASSUME NEW q \in Places(r) PROVE FitAt(r, h, q)
    BY DEF Values
  <2>1. q \in Seq(Nat)
    BY <1>6
  <2>2. CASE IsPrefix(p, q)
    <3>1. PICK e \in Seq(Nat) : q = p \o e
      BY <2>1, <2>2, PrefixIff
    <3> QED  BY <1>10, <3>1
  <2>3. CASE ~IsPrefix(p, q)
    BY <1>11, <2>1, <2>3
  <2> QED  BY <2>2, <2>3
<1>13. h[<<>>] = f[<<>>]
  <2> DEFINE root == <<>>
  <2>1. root \in Seq(Nat) /\ Len(root) = 0 /\ root \in Places(r)
    BY <1>6
  <2>2. CASE IsPrefix(p, root)
    <3> HIDE DEF root
    <3>1. Len(p) <= Len(root)
      BY <2>1, <2>2, PrefixPointwise
    <3>2. p = root
      BY <2>1, <3>1 DEF root
    <3> QED  BY <1>9, <3>2 DEF root
  <2>3. CASE ~IsPrefix(p, root)
    BY <1>8, <2>1, <2>3
  <2> QED  BY <2>2, <2>3
<1>14. Denotes(r, f[<<>>])
  BY <1>3, <1>12, <1>13 DEF Denotes
<1> QED  BY <1>14 DEF r

-----------------------------------------------------------------------------
(* Solids.                                                                 *)

\* {} is not a set of points of the operands.
LEMMA NotNoSolid == NoSolid \notin SUBSET SUBSET Operand
<1>1. {0} \in NoSolid /\ 0 \notin Operand
  BY DEF NoSolid, Operand
<1>2. {0} \notin SUBSET Operand
  BY <1>1
<1> QED  BY <1>1, <1>2

\* What is left of a set of solids without the {} among them, put together.
Gathered(op, S) == IF S = {} THEN NoSolid ELSE Joined(op, S)

LEMMA JoinedSolid ==
    ASSUME NEW op, NEW S, S \subseteq SolidSet \ {NoSolid}
    PROVE  /\ Joined(op, S) \in SUBSET SUBSET Operand
           /\ Joined(op, S) # NoSolid
           /\ Gathered(op, S) \in SolidSet
<1>1. S \subseteq SUBSET SUBSET Operand
  BY DEF SolidSet
<1>2. Joined(op, S) \in SUBSET SUBSET Operand
  BY <1>1 DEF Joined
<1> QED  BY <1>2, NotNoSolid DEF Gathered, SolidSet

\* A solid alone is put together to itself.
LEMMA JoinedOne ==
    ASSUME NEW op, NEW x
    PROVE  Joined(op, {x}) = x
BY DEF Joined

\* Solids may be put together in groups.
LEMMA JoinedGroups ==
    ASSUME NEW op, NEW F, F # {}, \A S \in F : S # {}
    PROVE  Joined(op, {Joined(op, S) : S \in F}) = Joined(op, UNION F)
<1> DEFINE G == {Joined(op, S) : S \in F}
<1>1. CASE op = "intersection"
  <2>1. ASSUME NEW S \in F, NEW x PROVE x \in Joined(op, S) <=> \A s \in S : x \in s
    BY <1>1 DEF Joined
  <2>2. ASSUME NEW x PROVE x \in Joined(op, G) <=> \A S \in F : x \in Joined(op, S)
    <3>1. x \in Joined(op, G) <=> (\E g \in G : x \in g) /\ \A g \in G : x \in g
      <4> HIDE DEF G
      <4> QED  BY <1>1 DEF Joined
    <3>2. (\A g \in G : x \in g) <=> \A S \in F : x \in Joined(op, S)
      OBVIOUS
    <3>3. \E g \in G : TRUE
      OBVIOUS
    <3> HIDE DEF G
    <3> QED  BY <3>1, <3>2, <3>3
  <2>3. ASSUME NEW x PROVE x \in Joined(op, UNION F) <=> \A S \in F : \A s \in S : x \in s
    <3>1. PICK S \in F : S # {}
      OBVIOUS
    <3>2. x \in Joined(op, UNION F)
            <=> (\E s \in UNION F : x \in s) /\ \A s \in UNION F : x \in s
      BY <1>1 DEF Joined
    <3> QED  BY <3>1, <3>2
  <2> HIDE DEF G
  <2>4. \A x : x \in Joined(op, G) <=> x \in Joined(op, UNION F)
    BY <2>1, <2>2, <2>3
  <2>5. Joined(op, G) = Joined(op, UNION F)
    BY <1>1, <2>4 DEF Joined
  <2> QED  BY <2>5 DEF G
<1>2. CASE op # "intersection"
  <2>1. \A S : Joined(op, S) = UNION S
    BY <1>2 DEF Joined
  <2>2. G = {UNION S : S \in F}
    BY <2>1
  <2>3. UNION {UNION S : S \in F} = UNION UNION F
    OBVIOUS
  <2> QED  BY <2>1, <2>2, <2>3
<1> QED  BY <1>1, <1>2

\* What a sequence of solids is put together to: for a difference
LEMMA CombinedCut ==
    ASSUME NEW n \in Nat, n >= 1, NEW x, x \in [1..n -> SolidSet]
    PROVE  Combined("difference", x) =
              IF x[1] = NoSolid THEN NoSolid ELSE x[1] \ UNION ({x[i] : i \in 2..n} \ {NoSolid})
<1>1. Len(x) = n /\ DOMAIN x = 1..n /\ x # <<>>
  OBVIOUS
<1> DEFINE y == Tail(x)
<1>2. DOMAIN y = 1..(n - 1) /\ \A i \in 1..(n - 1) : y[i] = x[i + 1]
  BY <1>1
<1>3. {y[i] : i \in DOMAIN y} = {x[i] : i \in 2..n}
  <2> HIDE DEF y
  <2>1. ASSUME NEW z \in {y[i] : i \in DOMAIN y} PROVE z \in {x[i] : i \in 2..n}
    <3>1. PICK i \in 1..(n - 1) : z = y[i]
      BY <1>2
    <3>2. i + 1 \in 2..n /\ z = x[i + 1]
      BY <1>2, <3>1
    <3> QED  BY <3>2
  <2>2. ASSUME NEW z \in {x[i] : i \in 2..n} PROVE z \in {y[i] : i \in DOMAIN y}
    <3>1. PICK i \in 2..n : z = x[i]
      OBVIOUS
    <3>2. i - 1 \in 1..(n - 1) /\ (i - 1) + 1 = i
      OBVIOUS
    <3>3. z = y[i - 1]
      BY <1>2, <3>1, <3>2
    <3> QED  BY <1>2, <3>2, <3>3
  <2> QED  BY <2>1, <2>2
<1>4. Present(y) = {x[i] : i \in 2..n} \ {NoSolid}
  <2> HIDE DEF y
  <2> QED  BY <1>3 DEF Present
<1> QED  BY <1>1, <1>4 DEF Combined

\* and for the others.
LEMMA CombinedJoin ==
    ASSUME NEW op, op # "difference", NEW n \in Nat, NEW x, x \in [1..n -> SolidSet]
    PROVE  Combined(op, x) = Gathered(op, {x[i] : i \in 1..n} \ {NoSolid})
<1>1. DOMAIN x = 1..n
  OBVIOUS
<1> QED  BY <1>1 DEF Combined, Gathered, Present

\* It is a solid,
LEMMA CombinedSolid ==
    ASSUME NEW op, NEW n \in Nat, NEW x, x \in [1..n -> SolidSet]
    PROVE  Combined(op, x) \in SolidSet
<1> DEFINE S == {x[i] : i \in 1..n} \ {NoSolid}
<1>1. CASE op # "difference"
  <2>1. Combined(op, x) = Gathered(op, S)
    BY <1>1, CombinedJoin
  <2>2. S \subseteq SolidSet \ {NoSolid}
    OBVIOUS
  <2> HIDE DEF S
  <2> QED  BY <2>1, <2>2, JoinedSolid
<1>2. CASE op = "difference" /\ n >= 1
  <2> DEFINE R == UNION ({x[i] : i \in 2..n} \ {NoSolid})
  <2>1. Combined("difference", x) = IF x[1] = NoSolid THEN NoSolid ELSE x[1] \ R
    BY <1>2, CombinedCut
  <2> HIDE DEF R
  <2>2. x[1] \in SolidSet
    BY <1>2
  <2> QED  BY <1>2, <2>1, <2>2 DEF SolidSet
<1>3. CASE op = "difference" /\ n = 0
  <2>1. DOMAIN x = {} /\ x = <<>>
    BY <1>3
  <2>2. Present(x) = {}
    BY <2>1 DEF Present
  <2> QED  BY <2>1, <2>2 DEF Combined, SolidSet
<1> QED  BY <1>1, <1>2, <1>3

\* and of one solid it is that one.
LEMMA CombinedOne ==
    ASSUME NEW op, NEW x \in SolidSet
    PROVE  Combined(op, <<x>>) = x
<1> DEFINE y == <<x>>
           n == 1
<1>1. y \in [1..n -> SolidSet] /\ y[1] = x /\ n \in Nat /\ n >= 1
  OBVIOUS
<1>2. {y[i] : i \in 1..n} = {x} /\ {y[i] : i \in 2..n} = {}
  OBVIOUS
<1> HIDE DEF y, n
<1>3. CASE op # "difference"
  <2>1. Combined(op, y) = Gathered(op, {y[i] : i \in 1..n} \ {NoSolid})
    BY <1>1, <1>3, CombinedJoin
  <2>2. Combined(op, y) = Gathered(op, {x} \ {NoSolid})
    BY <1>2, <2>1
  <2>3. CASE x = NoSolid
    <3>1. {x} \ {NoSolid} = {}
      BY <2>3
    <3> QED  BY <2>2, <2>3, <3>1 DEF Gathered, y
  <2>4. CASE x # NoSolid
    <3>1. {x} \ {NoSolid} = {x}
      BY <2>4
    <3> QED  BY <2>2, <3>1, JoinedOne DEF Gathered, y
  <2> QED  BY <2>3, <2>4
<1>4. CASE op = "difference"
  <2>1. Combined("difference", y) = IF y[1] = NoSolid THEN NoSolid
                                    ELSE y[1] \ UNION ({y[i] : i \in 2..n} \ {NoSolid})
    BY <1>1, CombinedCut
  <2>2. {y[i] : i \in 2..n} \ {NoSolid} = {}
    BY <1>2
  <2>3. Combined(op, y) = IF x = NoSolid THEN NoSolid ELSE x \ UNION {}
    BY <1>1, <1>4, <2>1, <2>2
  <2> QED  BY <2>3 DEF y
<1> QED  BY <1>3, <1>4

\* One solid for what an argument denotes.
Each(n, x) == [i \in 1..n |-> One(x[i])]

Special == {"intersection", "difference"}

LEMMA OneSolid ==
    ASSUME NEW s \in Seq(SolidSet)
    PROVE  One(s) \in SolidSet
<1>1. Len(s) \in Nat /\ s \in [1..Len(s) -> SolidSet]
  OBVIOUS
<1> DEFINE n == Len(s)
<1>2. n \in Nat /\ s \in [1..n -> SolidSet]
  BY <1>1
<1> HIDE DEF n
<1>3. Combined("union", s) \in SolidSet
  BY <1>2, CombinedSolid
<1> QED  BY <1>3 DEF One

LEMMA EachSolid ==
    ASSUME NEW n \in Nat, NEW x, \A i \in 1..n : x[i] \in Seq(SolidSet)
    PROVE  Each(n, x) \in [1..n -> SolidSet] /\ Each(n, x) \in Seq(SolidSet)
<1>1. \A i \in 1..n : One(x[i]) \in SolidSet
  BY OneSolid
<1>2. Each(n, x) \in [1..n -> SolidSet]
  BY <1>1 DEF Each
<1> QED  BY <1>2

\* The one solid of a sequence of one is that one.
LEMMA OneOfOne ==
    ASSUME NEW s \in Seq(SolidSet), Len(s) = 1
    PROVE  s[1] \in SolidSet /\ s = <<s[1]>> /\ One(s) = s[1]
<1> DEFINE y == s[1]
           t == <<y>>
<1>1. y \in SolidSet
  OBVIOUS
<1> HIDE DEF y
<1>2. y \in SolidSet /\ s = <<y>>
  <2>1. t \in Seq(SolidSet) /\ Len(t) = 1 /\ t[1] = y
    BY <1>1
  <2> HIDE DEF t
  <2>2. \A i \in 1..1 : s[i] = t[i]
    BY <2>1 DEF y
  <2>3. s = t
    BY <2>1, <2>2
  <2> QED  BY <1>1, <2>3 DEF t
<1>3. Combined("union", <<y>>) = y
  BY <1>2, CombinedOne
<1>4. One(s) = y
  BY <1>2, <1>3 DEF One
<1> QED  BY <1>2, <1>4 DEF y

\* An operation but for these two puts solids together.
LEMMA CombinedLikeOne ==
    ASSUME NEW op, op \notin Special, NEW s
    PROVE  Combined(op, s) = One(s)
<1>1. \A S : Joined(op, S) = UNION S /\ Joined("union", S) = UNION S
  BY DEF Joined, Special
<1> QED  BY <1>1 DEF Combined, One, Special

\* An operation on one argument is one on its elements, which comes to the same.
LEMMA CombinedArgument ==
    ASSUME NEW op, NEW s \in Seq(SolidSet), op \in Special => Len(s) = 1
    PROVE  Combined(op, s) = Combined(op, <<One(s)>>)
<1>1. CASE op \in Special
  BY <1>1, OneOfOne
<1>2. CASE op \notin Special
  <2>1. One(s) \in SolidSet
    BY OneSolid
  <2>2. Combined(op, <<One(s)>>) = One(s)
    BY <2>1, CombinedOne
  <2> QED  BY <1>2, <2>2, CombinedLikeOne
<1> QED  BY <1>1, <1>2

\* What a call denotes.
LEMMA CallSolids ==
    ASSUME NEW is, is.kind \in {"call", "run"}, NEW n \in Nat, NEW x,
           \A i \in 1..n : x[i] \in Seq(SolidSet) /\ (is.op \in Special => Len(x[i]) = 1)
    PROVE  SolidsOf(is, [i \in 1..n |-> x[i]]) = <<Combined(is.op, Each(n, x))>>
<1> DEFINE args == [i \in 1..n |-> x[i]]
           each == [i \in DOMAIN args |-> One(args[i])]
<1>1. DOMAIN args = 1..n /\ Len(args) = n /\ \A i \in 1..n : args[i] = x[i]
  OBVIOUS
<1>2. each = Each(n, x)
  BY DEF Each
<1>3. SolidsOf(is, args) = <<Combined(is.op, IF Len(args) = 1 THEN args[1] ELSE each)>>
  BY DEF SolidsOf
<1> SUFFICES SolidsOf(is, args) = <<Combined(is.op, Each(n, x))>>
  OBVIOUS
<1> HIDE DEF args, each
<1>4. CASE n # 1
  BY <1>1, <1>2, <1>3, <1>4
<1>5. CASE n = 1
  <2>1. args[1] = x[1] /\ x[1] \in Seq(SolidSet) /\ (is.op \in Special => Len(x[1]) = 1)
    BY <1>1, <1>5
  <2>2. Combined(is.op, x[1]) = Combined(is.op, <<One(x[1])>>)
    BY <2>1, CombinedArgument
  <2>3. Each(n, x) = <<One(x[1])>>
    BY <1>5 DEF Each
  <2> QED  BY <1>1, <1>3, <1>5, <2>1, <2>2, <2>3
<1> QED  BY <1>4, <1>5

\* What a node denotes is solids, and one if it is no array.
LEMMA SolidsSolid ==
    ASSUME NEW is, NEW n \in Nat, NEW x, \A i \in 1..n : x[i] \in Seq(SolidSet)
    PROVE  /\ SolidsOf(is, [i \in 1..n |-> x[i]]) \in Seq(SolidSet)
           /\ is.kind # "array" => Len(SolidsOf(is, [i \in 1..n |-> x[i]])) = 1
<1> DEFINE args == [i \in 1..n |-> x[i]]
           each == [i \in DOMAIN args |-> One(args[i])]
           v == SolidsOf(is, args)
<1>1. DOMAIN args = 1..n /\ Len(args) = n /\ \A i \in 1..n : args[i] = x[i]
  OBVIOUS
<1>2. each = Each(n, x) /\ each \in Seq(SolidSet) /\ each \in [1..n -> SolidSet]
  <2>1. each = Each(n, x)
    BY DEF Each
  <2>2. Each(n, x) \in [1..n -> SolidSet] /\ Each(n, x) \in Seq(SolidSet)
    BY EachSolid
  <2> QED  BY <2>1, <2>2
<1>3. \A y \in SolidSet : <<y>> \in Seq(SolidSet) /\ Len(<<y>>) = 1
  OBVIOUS
<1>4. CASE is.kind = "mesh"
  <2> DEFINE y == {p \in SUBSET Operand : is.id \in p}
  <2>1. y \in SolidSet
    BY DEF SolidSet
  <2>2. v = <<y>>
    BY <1>4 DEF SolidsOf
  <2> QED  BY <1>3, <2>1, <2>2
<1>5. CASE is.kind = "array"
  <2>1. v = each
    BY <1>5 DEF SolidsOf
  <2> QED  BY <1>2, <1>5, <2>1
<1>6. CASE is.kind \in {"call", "run"}
  <2> DEFINE s == IF Len(args) = 1 THEN args[1] ELSE each
  <2>1. v = <<Combined(is.op, s)>>
    BY <1>6 DEF SolidsOf
  <2>2. s \in Seq(SolidSet)
    <3> HIDE DEF args, each
    <3> QED  BY <1>1, <1>2
  <2> HIDE DEF s, v
  <2>3. Combined(is.op, s) \in SolidSet
    <3> DEFINE m == Len(s)
    <3>1. m \in Nat /\ s \in [1..m -> SolidSet]
      BY <2>2
    <3> HIDE DEF m
    <3> QED  BY <3>1, CombinedSolid
  <2> QED  BY <1>3, <2>1, <2>3 DEF v
<1>7. CASE is.kind \notin {"mesh", "array", "call", "run"}
  <2>1. v = <<NoSolid>>
    BY <1>7 DEF SolidsOf
  <2> QED  BY <1>3, <2>1 DEF SolidSet
<1> QED  BY <1>4, <1>5, <1>6, <1>7

-----------------------------------------------------------------------------
(* What a tree means is the one thing it denotes, but for errors.          *)

MeansAt(t, f, p) == SolidsOf(At(t, p), [i \in 1..Wide(t, p) |-> f[p \o <<i>>]])

Meanings(t, f) == f = [p \in Places(t) |-> MeansAt(t, f, p)]

\* The places of a tree are only so long.
LEMMA PlacesBounded ==
    ASSUME NEW t, Tree(t)
    PROVE  \E b \in Nat : \A p \in Places(t) : Len(p) <= b
<1> DEFINE lengths == {Len(n.at) : n \in t}
           f == [n \in t |-> Len(n.at)]
<1>1. IsFiniteSet(t) /\ \A n \in t : n.at \in Seq(Nat)
  BY DEF Tree, Shaped
<1>2. f \in Surjection(t, lengths)
  BY DEF Surjection
<1>3. IsFiniteSet(lengths)
  BY <1>1, <1>2, FS_Surjection
<1>4. lengths \subseteq Nat
  BY <1>1
<1>5. \A p \in Places(t) : Len(p) \in lengths
  BY DEF Places
<1> HIDE DEF lengths
<1>6. PICK b \in Nat : \A x \in lengths : x <= b
  BY <1>3, <1>4, FiniteBounded
<1> QED  BY <1>5, <1>6

\* What a node means depends on what its arguments mean; they are at longer places.
LEMMA MeansByArguments ==
    ASSUME NEW t, Tree(t), NEW p \in Places(t), NEW f, NEW g,
           \A q \in Places(t) : Len(q) = Len(p) + 1 => f[q] = g[q]
    PROVE  MeansAt(t, f, p) = MeansAt(t, g, p)
<1>1. p \in Seq(Nat)
  BY PlaceIff DEF Tree
<1>2. Wide(t, p) \in Nat /\ \A i \in Nat : p \o <<i>> \in Places(t) <=> i \in 1..Wide(t, p)
  BY <1>1, NodeAt
<1>3. ASSUME NEW i \in 1..Wide(t, p) PROVE f[p \o <<i>>] = g[p \o <<i>>]
  <2> DEFINE one == <<i>>
  <2>1. i \in Nat
    BY <1>2
  <2>2. one \in Seq(Nat) /\ Len(one) = 1
    BY <2>1
  <2>3. p \o one \in Places(t)
    BY <1>2, <2>1
  <2> HIDE DEF one
  <2>4. Len(p \o one) = Len(p) + 1
    <3>1. Len(p \o one) = Len(p) + Len(one)
      BY <1>1, <2>2, ConcatPlaces
    <3> QED  BY <2>2, <3>1
  <2>5. f[p \o one] = g[p \o one]
    BY <2>3, <2>4
  <2> QED  BY <2>5 DEF one
<1>4. [i \in 1..Wide(t, p) |-> f[p \o <<i>>]] = [i \in 1..Wide(t, p) |-> g[p \o <<i>>]]
  BY <1>3
<1> QED  BY <1>4 DEF MeansAt

LEMMA MeansSolids ==
    ASSUME NEW t, Tree(t), NEW p \in Places(t), NEW f,
           \A q \in Places(t) : Len(q) = Len(p) + 1 => f[q] \in Seq(SolidSet)
    PROVE  /\ MeansAt(t, f, p) \in Seq(SolidSet)
           /\ At(t, p).kind # "array" => Len(MeansAt(t, f, p)) = 1
<1>1. p \in Seq(Nat)
  BY PlaceIff DEF Tree
<1>2. Wide(t, p) \in Nat /\ \A i \in Nat : p \o <<i>> \in Places(t) <=> i \in 1..Wide(t, p)
  BY <1>1, NodeAt
<1> DEFINE w == Wide(t, p)
           x == [i \in 1..w |-> f[p \o <<i>>]]
<1>3. ASSUME NEW i \in 1..w PROVE f[p \o <<i>>] \in Seq(SolidSet)
  <2> DEFINE one == <<i>>
  <2>1. i \in Nat
    BY <1>2
  <2>2. one \in Seq(Nat) /\ Len(one) = 1
    BY <2>1
  <2>3. p \o one \in Places(t)
    BY <1>2, <2>1
  <2> HIDE DEF one
  <2>4. Len(p \o one) = Len(p) + 1
    <3>1. Len(p \o one) = Len(p) + Len(one)
      BY <1>1, <2>2, ConcatPlaces
    <3> QED  BY <2>2, <3>1
  <2>5. f[p \o one] \in Seq(SolidSet)
    BY <2>3, <2>4
  <2> QED  BY <2>5 DEF one
<1>4. w \in Nat /\ \A i \in 1..w : x[i] \in Seq(SolidSet)
  BY <1>2, <1>3
<1>5. MeansAt(t, f, p) = SolidsOf(At(t, p), [i \in 1..w |-> x[i]])
  BY DEF MeansAt
<1> DEFINE is == At(t, p)
<1> HIDE DEF w, x, is
<1>6. /\ SolidsOf(is, [i \in 1..w |-> x[i]]) \in Seq(SolidSet)
      /\ is.kind # "array" => Len(SolidsOf(is, [i \in 1..w |-> x[i]])) = 1
  BY <1>4, SolidsSolid
<1> QED  BY <1>5, <1>6 DEF is

\* There is one way to say what the terms in a tree mean,
LEMMA MeaningsAgree ==
    ASSUME NEW t, Tree(t), NEW f, Meanings(t, f), NEW g, Meanings(t, g)
    PROVE  f = g
<1>1. PICK b \in Nat : \A p \in Places(t) : Len(p) <= b
  BY PlacesBounded
<1>2. Places(t) \subseteq Seq(Nat)
  BY PlaceIff DEF Tree
<1>3. /\ f = [p \in Places(t) |-> MeansAt(t, f, p)]
      /\ g = [p \in Places(t) |-> MeansAt(t, g, p)]
  BY DEF Meanings
<1>4. \A p \in Places(t) : f[p] = MeansAt(t, f, p)
  <2> DEFINE step == [p \in Places(t) |-> MeansAt(t, f, p)]
  <2>1. f = step /\ \A p \in Places(t) : step[p] = MeansAt(t, f, p)
    BY <1>3
  <2> HIDE DEF step
  <2> QED  BY <2>1
<1>5. \A p \in Places(t) : g[p] = MeansAt(t, g, p)
  <2> DEFINE step == [p \in Places(t) |-> MeansAt(t, g, p)]
  <2>1. g = step /\ \A p \in Places(t) : step[p] = MeansAt(t, g, p)
    BY <1>3
  <2> HIDE DEF step
  <2> QED  BY <2>1
<1> DEFINE Differs(k) == \E p \in Places(t) : b - Len(p) = k /\ f[p] # g[p]
           bad == {k \in Nat : Differs(k)}
<1>6. \A k \in Nat : ~Differs(k)
  <2> SUFFICES ASSUME bad # {} PROVE FALSE
    OBVIOUS
  <2>1. bad \subseteq Nat
    OBVIOUS
  <2>2. PICK k \in bad : \A y \in bad : ~(y < k)
    <3> HIDE DEF bad
    <3> QED  BY <2>1, NatMin
  <2>3. k \in Nat /\ Differs(k)
    OBVIOUS
  <2>4. PICK p \in Places(t) : b - Len(p) = k /\ f[p] # g[p]
    BY <2>3
  <2>5. ASSUME NEW q \in Places(t), Len(q) = Len(p) + 1 PROVE f[q] = g[q]
    <3>1. Len(p) \in Nat /\ Len(q) \in Nat /\ Len(q) <= b
      BY <1>1, <1>2
    <3>2. b - Len(q) \in Nat /\ b - Len(q) < k
      BY <2>4, <2>5, <3>1
    <3>3. ~Differs(b - Len(q))
      BY <2>2, <3>2
    <3> QED  BY <3>3
  <2>6. MeansAt(t, f, p) = MeansAt(t, g, p)
    <3> HIDE DEF bad, Differs
    <3> QED  BY <2>5, MeansByArguments
  <2> QED  BY <1>4, <1>5, <2>4, <2>6
<1>7. ASSUME NEW p \in Places(t) PROVE f[p] = g[p]
  <2>1. Len(p) \in Nat /\ Len(p) <= b
    BY <1>1, <1>2
  <2>2. b - Len(p) \in Nat
    BY <2>1
  <2> QED  BY <1>6, <2>2
<1>8. DOMAIN f = Places(t) /\ DOMAIN g = Places(t)
      /\ f = [p \in DOMAIN f |-> f[p]] /\ g = [p \in DOMAIN g |-> g[p]]
  BY <1>3
<1> QED  BY <1>7, <1>8

\* and it says what they denote.
LEMMA MeaningsExist ==
    ASSUME NEW t, Tree(t)
    PROVE  \E f : Meanings(t, f) /\ Values(t, f)
<1>1. PICK b \in Nat : \A p \in Places(t) : Len(p) <= b
  BY PlacesBounded
<1>2. Places(t) \subseteq Seq(Nat)
  BY PlaceIff DEF Tree
<1> DEFINE Far(m) == {p \in Places(t) : Len(p) + m > b}
           Solved(m, f) == \A p \in Far(m) : f[p] = MeansAt(t, f, p) /\ f[p] \in Seq(SolidSet)
           missing == {m \in Nat : ~\E f : Solved(m, f)}
<1>3. \A m \in Nat : \E f : Solved(m, f)
  <2> SUFFICES ASSUME missing # {} PROVE FALSE
    OBVIOUS
  <2>1. missing \subseteq Nat
    OBVIOUS
  <2>2. PICK m \in missing : \A y \in missing : ~(y < m)
    <3> HIDE DEF missing
    <3> QED  BY <2>1, NatMin
  <2>3. m \in Nat /\ ~\E f : Solved(m, f)
    OBVIOUS
  <2>4. CASE m = 0
    <3>1. \A p \in Places(t) : Len(p) \in Nat
      BY <1>2
    <3>2. Far(0) = {}
      BY <1>1, <3>1
    <3>3. \A f : Solved(0, f)
      BY <3>2
    <3> QED  BY <2>3, <2>4, <3>3
  <2>5. CASE m # 0
    <3>1. m - 1 \in Nat /\ m - 1 < m
      BY <2>3, <2>5
    <3>2. PICK f : Solved(m - 1, f)
      BY <2>2, <3>1
    <3> DEFINE g == [p \in Places(t) |-> IF p \in Far(m - 1) THEN f[p] ELSE MeansAt(t, f, p)]
    <3>3. /\ \A p \in Far(m - 1) : g[p] = f[p] /\ f[p] = MeansAt(t, f, p) /\ f[p] \in Seq(SolidSet)
          /\ \A p \in Places(t) : p \notin Far(m - 1) => g[p] = MeansAt(t, f, p)
      BY <3>2
    <3>4. ASSUME NEW p \in Far(m), NEW q \in Places(t), Len(q) = Len(p) + 1
          PROVE  q \in Far(m - 1)
      <4>1. Len(p) \in Nat /\ Len(p) + m > b
        BY <1>2
      <4>2. Len(q) + (m - 1) > b
        BY <2>3, <3>4, <4>1
      <4> QED  BY <4>2
    <3>5. ASSUME NEW p \in Far(m) PROVE g[p] = MeansAt(t, g, p) /\ g[p] \in Seq(SolidSet)
      <4>1. p \in Places(t)
        OBVIOUS
      <4>2. \A q \in Places(t) : Len(q) = Len(p) + 1 => q \in Far(m - 1)
        BY <3>4
      <4> HIDE DEF Far, g
      <4>3. \A q \in Places(t) : Len(q) = Len(p) + 1 => f[q] = g[q] /\ f[q] \in Seq(SolidSet)
        BY <3>3, <4>2
      <4>4. MeansAt(t, f, p) = MeansAt(t, g, p)
        BY <4>1, <4>3, MeansByArguments
      <4>5. MeansAt(t, f, p) \in Seq(SolidSet)
        BY <4>1, <4>3, MeansSolids
      <4> QED  BY <3>3, <4>1, <4>4, <4>5
    <3>6. Solved(m, g)
      <4> HIDE DEF g
      <4> QED  BY <3>5
    <3> QED  BY <2>3, <3>6
  <2> QED  BY <2>4, <2>5
<1>4. Far(b + 1) = Places(t)
  <2>1. \A p \in Places(t) : Len(p) \in Nat /\ Len(p) + (b + 1) > b
    BY <1>2
  <2> QED  BY <2>1
<1>5. PICK h : Solved(b + 1, h)
  <2>1. b + 1 \in Nat
    OBVIOUS
  <2> HIDE DEF Solved
  <2> QED  BY <1>3, <2>1
<1> HIDE DEF Far
<1> DEFINE f == [p \in Places(t) |-> h[p]]
<1>6. \A p \in Places(t) : f[p] = h[p] /\ h[p] = MeansAt(t, h, p) /\ h[p] \in Seq(SolidSet)
  BY <1>4, <1>5
<1>7. f = [p \in Places(t) |-> f[p]]
  OBVIOUS
<1> HIDE DEF f
<1>8. ASSUME NEW p \in Places(t) PROVE f[p] = MeansAt(t, f, p) /\ FitAt(t, f, p)
  <2>1. MeansAt(t, h, p) = MeansAt(t, f, p)
    BY <1>6, MeansByArguments
  <2>2. f[p] = MeansAt(t, f, p)
    BY <1>6, <2>1
  <2>3. At(t, p).kind # "array" => Len(MeansAt(t, f, p)) = 1
    BY <1>6, MeansSolids
  <2>4. f[p] = SolidsOf(At(t, p), [i \in 1..Wide(t, p) |-> f[p \o <<i>>]])
    BY <2>2 DEF MeansAt
  <2> QED  BY <1>6, <2>2, <2>3, <2>4 DEF FitAt, Fit
<1>9. Meanings(t, f)
  BY <1>7, <1>8 DEF Meanings
<1>10. Values(t, f)
  BY <1>8 DEF Values
<1> QED  BY <1>9, <1>10

LEMMA MeaningIs ==
    ASSUME NEW t, Tree(t), NEW f, Meanings(t, f)
    PROVE  Meaning(t) = f[<<>>]
<1> DEFINE g == CHOOSE s : s = [p \in Places(t) |-> MeansAt(t, s, p)]
<1>1. g = [p \in Places(t) |-> MeansAt(t, g, p)]
  BY DEF Meanings
<1>2. Meaning(t) = g[<<>>]
  BY DEF Meaning, MeansAt, At, Wide
<1> HIDE DEF g
<1>3. g = f
  <2>1. Meanings(t, g)
    BY <1>1 DEF Meanings
  <2> QED  BY <2>1, MeaningsAgree
<1> QED  BY <1>2, <1>3

\* A tree denotes what it means.
LEMMA MeaningDenoted ==
    ASSUME NEW t, Tree(t)
    PROVE  Denotes(t, Meaning(t))
<1>1. PICK f : Meanings(t, f) /\ Values(t, f)
  BY MeaningsExist
<1>2. Meaning(t) = f[<<>>]
  BY <1>1, MeaningIs
<1> QED  BY <1>1, <1>2 DEF Denotes

\* Without an error it denotes nothing else.
LEMMA DenotedMeaning ==
    ASSUME NEW t, NEW val, Denotes(t, val), ~Has(t, "error")
    PROVE  val = Meaning(t)
<1>1. Tree(t) /\ Shaped(t) /\ <<>> \in Places(t) /\ Places(t) \subseteq Seq(Nat)
  BY PlaceIff DEF Denotes, Tree
<1>2. PICK h : Values(t, h) /\ h[<<>>] = val
  BY DEF Denotes
<1> DEFINE f == [p \in Places(t) |-> h[p]]
<1>3. (\A p \in Places(t) : f[p] = h[p]) /\ f = [p \in Places(t) |-> f[p]]
  OBVIOUS
<1> HIDE DEF f
<1>4. ASSUME NEW p \in Places(t) PROVE f[p] = MeansAt(t, f, p)
  <2>1. Node(p, At(t, p)) \in t
    BY <1>1, NodeAt
  <2>2. At(t, p).kind # "error"
    <3>1. Node(p, At(t, p)).is = At(t, p)
      BY NodeParts
    <3> QED  BY <2>1, <3>1 DEF Has
  <2>3. h[p] = MeansAt(t, h, p)
    BY <1>2, <2>2 DEF Values, FitAt, Fit, MeansAt
  <2>4. MeansAt(t, h, p) = MeansAt(t, f, p)
    BY <1>1, <1>3, MeansByArguments
  <2> QED  BY <1>3, <2>3, <2>4
<1>5. Meanings(t, f)
  BY <1>3, <1>4 DEF Meanings
<1>6. Meaning(t) = f[<<>>]
  BY <1>1, <1>5, MeaningIs
<1> QED  BY <1>1, <1>2, <1>3, <1>6

-----------------------------------------------------------------------------
(* What the call of an agent denotes.                                      *)

\* The operands s denote x.
Standing(s, x) ==
    /\ Len(s) \in Nat /\ DOMAIN s = 1..Len(s)
    /\ \A i \in 1..Len(s) : Denotes(s[i], x[i])

\* A call of op on what stands for x denotes y.
Comes(op, n, x, y) ==
    /\ y = <<Combined(op, Each(n, x))>>
    /\ op \in Special => \A i \in 1..n : Len(x[i]) = 1

\* A term denotes solids, and one if it is no array.
LEMMA DenotedSolids ==
    ASSUME NEW t, NEW val, Denotes(t, val)
    PROVE  Tree(t) /\ val \in Seq(SolidSet) /\ (Kind(t) # "array" => Len(val) = 1)
<1>1. PICK f : Values(t, f) /\ f[<<>>] = val
  BY DEF Denotes
<1>2. Tree(t) /\ Shaped(t) /\ <<>> \in Places(t)
  BY DEF Denotes, Tree
<1>3. Sub(t, <<>>) = t
  BY <1>2, SubRoot
<1>4. FitAt(t, f, <<>>)
  BY <1>1, <1>2 DEF Values
<1> QED  BY <1>1, <1>2, <1>3, <1>4 DEF FitAt, Fit, At, Kind

\* A call or a run of operands, as a term.
LEMMA DenotesCall ==
    ASSUME NEW is, is.kind \in {"call", "run"}, NEW s, NEW x, Standing(s, x),
           is.op \in Special => \A i \in 1..Len(s) : Len(x[i]) = 1
    PROVE  Denotes(Term(is, s), <<Combined(is.op, Each(Len(s), x))>>)
<1> DEFINE n == Len(s)
           val == <<Combined(is.op, Each(n, x))>>
<1>1. n \in Nat /\ DOMAIN s = 1..n /\ \A i \in 1..n : Denotes(s[i], x[i])
  BY DEF Standing
<1>2. \A i \in 1..n : x[i] \in Seq(SolidSet)
  BY <1>1, DenotedSolids
<1> HIDE DEF n
<1>3. \A i \in 1..n : x[i] \in Seq(SolidSet) /\ (is.op \in Special => Len(x[i]) = 1)
  BY <1>2 DEF n
<1>4. SolidsOf(is, [i \in 1..n |-> x[i]]) = val
  BY <1>1, <1>3, CallSolids
<1>5. /\ SolidsOf(is, [i \in 1..n |-> x[i]]) \in Seq(SolidSet)
      /\ is.kind # "array" => Len(SolidsOf(is, [i \in 1..n |-> x[i]])) = 1
  BY <1>1, <1>2, SolidsSolid
<1> HIDE DEF val
<1>6. Fit(is, val, [i \in 1..n |-> x[i]])
  BY <1>4, <1>5 DEF Fit
<1>7. Denotes(Term(is, s), val)
  BY <1>1, <1>6, DenotesTerm
<1> QED  BY <1>7 DEF val, n

\* An array of operands.
LEMMA DenotesArray ==
    ASSUME NEW s, NEW x, Standing(s, x)
    PROVE  Denotes(Array(s), Each(Len(s), x))
<1> DEFINE n == Len(s)
           is == [kind |-> "array"]
           val == Each(n, x)
<1>1. n \in Nat /\ DOMAIN s = 1..n /\ \A i \in 1..n : Denotes(s[i], x[i])
  BY DEF Standing
<1>2. \A i \in 1..n : x[i] \in Seq(SolidSet)
  BY <1>1, DenotedSolids
<1> HIDE DEF n
<1>3. val \in Seq(SolidSet)
  BY <1>1, <1>2, EachSolid
<1>4. SolidsOf(is, [i \in 1..n |-> x[i]]) = val
  <2> DEFINE args == [i \in 1..n |-> x[i]]
  <2>1. DOMAIN args = 1..n /\ \A i \in 1..n : args[i] = x[i]
    OBVIOUS
  <2>2. SolidsOf(is, args) = [i \in DOMAIN args |-> One(args[i])]
    BY DEF SolidsOf
  <2> HIDE DEF args
  <2>3. SolidsOf(is, args) = val
    BY <2>1, <2>2 DEF Each
  <2> QED  BY <2>3 DEF args
<1>5. is.kind = "array" /\ Array(s) = Term(is, s)
  BY DEF Array
<1> HIDE DEF val, is
<1>6. Fit(is, val, [i \in 1..n |-> x[i]])
  BY <1>3, <1>4, <1>5 DEF Fit
<1>7. Denotes(Term(is, s), val)
  BY <1>1, <1>6, DenotesTerm
<1> QED  BY <1>5, <1>7 DEF val, n

\* A term without arguments: an error may denote any solid, {} and a value denote none.
LEMMA DenotesLeaf ==
    ASSUME NEW is, NEW val, Fit(is, val, <<>>)
    PROVE  Denotes(Leaf(is), val)
<1> DEFINE s == <<>>
           n == 0
<1>1. n \in Nat /\ DOMAIN s = 1..n /\ \A i \in 1..n : Denotes(s[i], s[i])
  OBVIOUS
<1>2. [i \in 1..n |-> s[i]] = <<>>
  OBVIOUS
<1>3. Leaf(is) = Term(is, s)
  BY DEF Leaf, Term
<1> HIDE DEF s, n
<1>4. Fit(is, val, [i \in 1..n |-> s[i]])
  BY <1>2
<1>5. Denotes(Term(is, s), val)
  BY <1>1, <1>4, DenotesTerm
<1> QED  BY <1>3, <1>5

LEMMA DenotesFailed ==
    ASSUME NEW y \in SolidSet
    PROVE  Denotes(Failed, <<y>>)
<1> DEFINE is == [kind |-> "error"]
           val == <<y>>
<1>1. is.kind = "error" /\ Failed = Leaf(is) /\ val \in Seq(SolidSet) /\ Len(val) = 1
  BY DEF Failed
<1> HIDE DEF is, val
<1>2. Fit(is, val, <<>>)
  BY <1>1 DEF Fit
<1>3. Denotes(Leaf(is), val)
  BY <1>2, DenotesLeaf
<1> QED  BY <1>1, <1>3 DEF val

LEMMA DenotesNothing ==
    ASSUME NEW kind \in {"empty", "value"}
    PROVE  Denotes(Leaf([kind |-> kind]), <<NoSolid>>)
<1> DEFINE is == [kind |-> kind]
           val == <<NoSolid>>
<1>1. NoSolid \in SolidSet
  BY DEF SolidSet
<1>2. is.kind \in {"empty", "value"} /\ val \in Seq(SolidSet) /\ Len(val) = 1
  BY <1>1
<1> HIDE DEF is
<1>3. SolidsOf(is, <<>>) = val
  BY <1>2 DEF SolidsOf
<1> HIDE DEF val
<1>4. Fit(is, val, <<>>)
  BY <1>2, <1>3 DEF Fit
<1>5. Denotes(Leaf(is), val)
  BY <1>4, DenotesLeaf
<1> QED  BY <1>5 DEF is, val

LEMMA EmptyDenotes ==
    ASSUME NEW val, Denotes(Empty, val)
    PROVE  val = <<NoSolid>>
<1> DEFINE is == [kind |-> "empty"]
           w == Width(Empty)
<1>1. Tree(Empty)
  BY DEF Denotes
<1>2. Top(Empty) = is
  <2>1. Node(<<>>, is) \in Empty
    BY DEF Empty, Leaf
  <2> HIDE DEF is
  <2> QED  BY <1>1, <2>1, TopIff
<1>3. PICK x : Fit(Top(Empty), val, [i \in 1..w |-> x[i]])
  BY DenotesArgs
<1> DEFINE args == [i \in 1..w |-> x[i]]
<1>4. Fit(is, val, args)
  BY <1>2, <1>3
<1> HIDE DEF args
<1>5. is.kind = "empty"
  OBVIOUS
<1> HIDE DEF is
<1>6. val = SolidsOf(is, args)
  BY <1>4, <1>5 DEF Fit
<1> QED  BY <1>5, <1>6 DEF SolidsOf

\* What a call denotes, as the agent has it: with its array spread out.
LEMMA AgentDenotes ==
    ASSUME NEW t, NEW val, Denotes(t, val), Kind(t) = "call",
           NEW c, c = Agent(Top(t), ArgsOf(t)), ~RefusesArgs(c)
    PROVE  \E x : Standing(c.args, x) /\ Comes(c.op, Len(c.args), x, val)
<1> DEFINE is == Top(t)
           w == Width(t)
           args == ArgsOf(t)
<1>1. is.kind = "call" /\ c.op = is.op /\ c.args = Spread(is.op, args)
  BY DEF Agent, Kind
<1>2. w \in Nat
  BY DenotesArgs
<1>3. PICK x : /\ \A i \in 1..w : Denotes(Sub(t, <<i>>), x[i])
               /\ Fit(Top(t), val, [i \in 1..w |-> x[i]])
  BY DenotesArgs
<1>4. val = SolidsOf(is, [i \in 1..w |-> x[i]])
  BY <1>1, <1>3 DEF Fit
<1>5. DOMAIN args = 1..w /\ Len(args) = w /\ \A i \in 1..w : args[i] = Sub(t, <<i>>)
  BY <1>2 DEF ArgsOf
<1>6. \A i \in 1..w : Denotes(args[i], x[i])
  BY <1>3, <1>5
<1> HIDE DEF w, args, is
<1>7. CASE c.args = args
  <2>1. Standing(c.args, x)
    BY <1>2, <1>5, <1>6, <1>7 DEF Standing
  <2>2. ASSUME c.op \in Special, NEW i \in 1..w PROVE Len(x[i]) = 1
    <3>1. args[i] \in ToSet(c.args)
      BY <1>5, <1>7 DEF ToSet
    <3>2. Kind(args[i]) # "array"
      BY <2>2, <3>1 DEF RefusesArgs, Special, Boolean
    <3> QED  BY <1>6, <3>2, DenotedSolids
  <2>3. \A i \in 1..w : x[i] \in Seq(SolidSet) /\ (is.op \in Special => Len(x[i]) = 1)
    BY <1>1, <1>6, <2>2, DenotedSolids
  <2>4. val = <<Combined(is.op, Each(w, x))>>
    BY <1>1, <1>2, <1>4, <2>3, CallSolids
  <2> QED  BY <1>1, <1>5, <1>7, <2>1, <2>2, <2>4 DEF Comes
<1>8. CASE c.args # args
  <2> DEFINE a == args[1]
             v == Width(a)
  <2>1. w = 1 /\ Kind(a) = "array" /\ c.args = ArgsOf(a)
    BY <1>1, <1>5, <1>8 DEF Spread
  <2>2. Denotes(a, x[1])
    BY <1>6, <2>1
  <2> HIDE DEF a
  <2>3. v \in Nat
    BY <2>2, DenotesArgs
  <2>4. PICK y : /\ \A i \in 1..v : Denotes(Sub(a, <<i>>), y[i])
                 /\ Fit(Top(a), x[1], [i \in 1..v |-> y[i]])
    BY <2>2, DenotesArgs
  <2>5. x[1] = Each(v, y)
    <3> DEFINE z == [i \in 1..v |-> y[i]]
    <3>1. DOMAIN z = 1..v /\ \A i \in 1..v : z[i] = y[i]
      OBVIOUS
    <3>2. x[1] = SolidsOf(Top(a), z)
      BY <2>1, <2>4 DEF Fit, Kind
    <3> HIDE DEF z
    <3>3. x[1] = [i \in DOMAIN z |-> One(z[i])]
      BY <2>1, <3>2 DEF SolidsOf, Kind
    <3> QED  BY <3>1, <3>3 DEF Each
  <2>6. DOMAIN c.args = 1..v /\ Len(c.args) = v /\ \A i \in 1..v : c.args[i] = Sub(a, <<i>>)
    <3> DEFINE b == ArgsOf(a)
    <3>1. DOMAIN b = 1..v /\ Len(b) = v /\ \A i \in 1..v : b[i] = Sub(a, <<i>>)
      BY <2>3 DEF ArgsOf
    <3>2. c.args = b
      BY <2>1
    <3> HIDE DEF b
    <3> QED  BY <3>1, <3>2
  <2> HIDE DEF v
  <2>7. \A i \in 1..v : Denotes(c.args[i], y[i])
    BY <2>4, <2>6
  <2>8. Standing(c.args, y)
    BY <2>3, <2>6, <2>7 DEF Standing
  <2>9. ASSUME c.op \in Special, NEW i \in 1..v PROVE Len(y[i]) = 1
    <3>1. c.args[i] \in ToSet(c.args)
      BY <2>6 DEF ToSet
    <3>2. Kind(c.args[i]) # "array"
      BY <2>9, <3>1 DEF RefusesArgs, Special, Boolean
    <3> QED  BY <2>7, <3>2, DenotedSolids
  <2>10. val = <<Combined(is.op, x[1])>>
    <3> DEFINE z == [i \in 1..w |-> x[i]]
    <3>1. Len(z) = 1 /\ z[1] = x[1]
      BY <2>1
    <3>2. val = SolidsOf(is, z)
      BY <1>4
    <3> HIDE DEF z
    <3> QED  BY <1>1, <3>1, <3>2 DEF SolidsOf
  <2> QED  BY <1>1, <2>5, <2>6, <2>8, <2>9, <2>10 DEF Comes
<1> QED  BY <1>7, <1>8

\* A call that is routed denotes what it denoted.
LEMMA RunningDenotes ==
    ASSUME NEW c, NEW x, Standing(c.args, x), NEW val, Comes(c.op, Len(c.args), x, val), NEW hit
    PROVE  Denotes(Running(c, hit), val)
<1> DEFINE is == [kind |-> "run", op |-> c.op, by |-> hit.by, type |-> hit.line.out,
                  site |-> c.site]
<1>1. is.kind = "run" /\ is.op = c.op /\ Running(c, hit) = Term(is, c.args)
  BY DEF Running
<1> HIDE DEF is
<1>2. is.op \in Special => \A i \in 1..Len(c.args) : Len(x[i]) = 1
  BY <1>1 DEF Comes
<1>3. Denotes(Term(is, c.args), <<Combined(is.op, Each(Len(c.args), x))>>)
  BY <1>1, <1>2, DenotesCall
<1> QED  BY <1>1, <1>3 DEF Comes

\* What a call comes to is one solid.
LEMMA ComesSolid ==
    ASSUME NEW op, NEW s, NEW x, Standing(s, x), NEW val, Comes(op, Len(s), x, val)
    PROVE  \E y \in SolidSet : val = <<y>>
<1> DEFINE n == Len(s)
<1>1. n \in Nat /\ \A i \in 1..n : x[i] \in Seq(SolidSet)
  BY DenotedSolids DEF Standing
<1> HIDE DEF n
<1>2. Each(n, x) \in [1..n -> SolidSet]
  BY <1>1, EachSolid
<1>3. Combined(op, Each(n, x)) \in SolidSet
  BY <1>1, <1>2, CombinedSolid
<1> QED  BY <1>3 DEF Comes, n

\* A body that does what its row is for denotes what the call denoted.
LEMMA AppliedDenotes ==
    ASSUME NEW c, NEW x, Standing(c.args, x), NEW val, Comes(c.op, Len(c.args), x, val),
           NEW row, \A op \in Special : c.op = op <=> row.body.op = op
    PROVE  Denotes(Applied(c, row), val)
<1> DEFINE n == Len(c.args)
           s == Each(n, x)
<1>1. n \in Nat /\ DOMAIN c.args = 1..n /\ \A i \in 1..n : Denotes(c.args[i], x[i])
  BY DEF Standing
<1>2. \A i \in 1..n : x[i] \in Seq(SolidSet)
  BY <1>1, DenotedSolids
<1>3. s \in Seq(SolidSet)
  <2> HIDE DEF n
  <2> QED  BY <1>1, <1>2, EachSolid
<1>4. Combined(row.body.op, s) = Combined(c.op, s)
  <2> HIDE DEF s
  <2>1. CASE c.op \in Special
    BY <2>1
  <2>2. CASE c.op \notin Special
    <3>1. row.body.op \notin Special
      BY <2>2
    <3> QED  BY <2>2, <3>1, CombinedLikeOne
  <2> QED  BY <2>1, <2>2
<1> DEFINE is == [kind |-> "call", op |-> row.body.op, named |-> row.body.list,
                  site |-> row.body.site]
<1>5. is.kind = "call" /\ is.op = row.body.op
      /\ \A args : Call(row.body.op, args, row.body.list, row.body.site) = Term(is, args)
  BY DEF Call
<1> HIDE DEF is
<1>6. CASE row.broken
  <2>1. PICK y \in SolidSet : val = <<y>>
    BY ComesSolid
  <2>2. Denotes(Failed, <<y>>)
    BY DenotesFailed
  <2> QED  BY <1>6, <2>1, <2>2 DEF Applied
<1>7. CASE ~row.broken /\ ~row.variadic
  <2>1. is.op \in Special => \A i \in 1..Len(c.args) : Len(x[i]) = 1
    BY <1>5 DEF Comes
  <2>2. Denotes(Term(is, c.args), <<Combined(is.op, s)>>)
    BY <1>5, <2>1, DenotesCall
  <2>3. Applied(c, row) = Term(is, c.args)
    BY <1>5, <1>7 DEF Applied
  <2> QED  BY <1>4, <1>5, <2>2, <2>3 DEF Comes
<1>8. CASE ~row.broken /\ row.variadic
  <2> DEFINE args == <<Array(c.args)>>
             z == <<s>>
             m == 1
  <2>1. Denotes(Array(c.args), s)
    BY DenotesArray
  <2> HIDE DEF s
  <2>2. m \in Nat /\ DOMAIN args = 1..m /\ \A i \in 1..m : Denotes(args[i], z[i])
    BY <2>1
  <2>3. SolidsOf(is, z) = val
    <3>1. Len(z) = 1 /\ z[1] = s
      OBVIOUS
    <3> HIDE DEF z
    <3>2. SolidsOf(is, z) = <<Combined(is.op, z[1])>>
      BY <1>5, <3>1 DEF SolidsOf
    <3> QED  BY <1>4, <1>5, <3>1, <3>2 DEF Comes, s
  <2>4. [i \in 1..m |-> z[i]] = z
    OBVIOUS
  <2>5. Applied(c, row) = Term(is, args)
    BY <1>5, <1>8 DEF Applied
  <2>6. PICK y \in SolidSet : val = <<y>>
    BY ComesSolid
  <2>7. val \in Seq(SolidSet) /\ Len(val) = 1
    BY <2>6
  <2> HIDE DEF m, z, args
  <2>8. Fit(is, val, [i \in 1..m |-> z[i]])
    BY <2>3, <2>4, <2>7 DEF Fit
  <2>9. Denotes(Term(is, args), val)
    BY <2>2, <2>8, DenotesTerm
  <2> QED  BY <2>5, <2>9
<1> QED  BY <1>6, <1>7, <1>8

-----------------------------------------------------------------------------
(* Operands that denote one solid each.                                    *)

\* The operands s are the solids z.
Ones(s, z) ==
    /\ Len(s) \in Nat /\ DOMAIN s = 1..Len(s) /\ z \in [1..Len(s) -> SolidSet]
    /\ \A i \in 1..Len(s) : Denotes(s[i], <<z[i]>>)

\* A call of them.
LEMMA CallOfOnes ==
    ASSUME NEW is, is.kind \in {"call", "run"}, NEW s, NEW z, Ones(s, z)
    PROVE  Denotes(Term(is, s), <<Combined(is.op, z)>>)
<1> DEFINE n == Len(s)
           x == [i \in 1..n |-> <<z[i]>>]
<1>1. n \in Nat /\ DOMAIN s = 1..n /\ z \in [1..n -> SolidSet]
      /\ \A i \in 1..n : Denotes(s[i], <<z[i]>>)
  BY DEF Ones
<1>2. \A i \in 1..n : x[i] = <<z[i]>> /\ x[i] \in Seq(SolidSet) /\ Len(x[i]) = 1
  BY <1>1
<1> HIDE DEF x, n
<1>3. Each(n, x) = z
  <2>1. \A i \in 1..n : z[i] \in SolidSet
    BY <1>1
  <2>2. \A i \in 1..n : One(x[i]) = z[i]
    <3> SUFFICES ASSUME NEW i \in 1..n PROVE One(<<z[i]>>) = z[i]
      BY <1>2
    <3>1. z[i] \in SolidSet
      BY <2>1
    <3> QED  BY <3>1, CombinedOne DEF One
  <2>3. [i \in 1..n |-> One(x[i])] = [i \in 1..n |-> z[i]]
    BY <2>2
  <2>4. [i \in 1..n |-> z[i]] = z
    BY <1>1
  <2> QED  BY <2>3, <2>4 DEF Each
<1>4. Standing(s, x)
  BY <1>1, <1>2 DEF Standing, n
<1>5. is.op \in Special => \A i \in 1..Len(s) : Len(x[i]) = 1
  BY <1>2 DEF n
<1>6. Denotes(Term(is, s), <<Combined(is.op, Each(Len(s), x))>>)
  BY <1>4, <1>5, DenotesCall
<1> QED  BY <1>3, <1>6 DEF n

\* Operands that are no arrays denote one solid each.
LEMMA OnesOf ==
    ASSUME NEW s, NEW x, Standing(s, x), \A i \in 1..Len(s) : Kind(s[i]) # "array"
    PROVE  Ones(s, Each(Len(s), x))
<1> DEFINE n == Len(s)
<1>1. n \in Nat /\ DOMAIN s = 1..n /\ \A i \in 1..n : Denotes(s[i], x[i])
  BY DEF Standing
<1>2. \A i \in 1..n : x[i] \in Seq(SolidSet) /\ Len(x[i]) = 1
  BY <1>1, DenotedSolids
<1> HIDE DEF n
<1>3. Each(n, x) \in [1..n -> SolidSet]
  BY <1>1, <1>2, EachSolid
<1>4. ASSUME NEW i \in 1..n PROVE Denotes(s[i], <<Each(n, x)[i]>>)
  <2>1. x[i] = <<x[i][1]>> /\ One(x[i]) = x[i][1]
    BY <1>2, OneOfOne
  <2>2. Each(n, x)[i] = One(x[i])
    BY DEF Each
  <2> QED  BY <1>1, <2>1, <2>2
<1> QED  BY <1>1, <1>3, <1>4 DEF Ones, n

-----------------------------------------------------------------------------
(* A call that loses its operands {}.                                      *)

LEMMA OnesAppend ==
    ASSUME NEW S, NEW s \in Seq(S), NEW z, Ones(s, z),
           NEW t \in S, NEW v \in SolidSet, Denotes(t, <<v>>)
    PROVE  Ones(Append(s, t), Append(z, v))
<1> DEFINE n == Len(s)
           s1 == Append(s, t)
           z1 == Append(z, v)
<1>1. n \in Nat /\ z \in [1..n -> SolidSet] /\ \A i \in 1..n : Denotes(s[i], <<z[i]>>)
  BY DEF Ones
<1>2. /\ Len(s1) = n + 1 /\ DOMAIN s1 = 1..(n + 1)
      /\ \A i \in 1..n : s1[i] = s[i]
      /\ s1[n + 1] = t
  OBVIOUS
<1>3. z \in Seq(SolidSet) /\ Len(z) = n
  BY <1>1
<1>4. /\ z1 \in [1..(n + 1) -> SolidSet]
      /\ \A i \in 1..n : z1[i] = z[i]
      /\ z1[n + 1] = v
  <2>1. z1 \in Seq(SolidSet) /\ Len(z1) = n + 1
    BY <1>3
  <2>2. (\A i \in 1..n : z1[i] = z[i]) /\ z1[n + 1] = v
    BY <1>3
  <2>3. z1 \in [1..(n + 1) -> SolidSet]
    <3> HIDE DEF z1, n
    <3> QED  BY <2>1
  <2> QED  BY <2>2, <2>3
<1> HIDE DEF n, s1, z1
<1>5. ASSUME NEW i \in 1..(n + 1) PROVE Denotes(s1[i], <<z1[i]>>)
  <2>1. CASE i = n + 1
    BY <1>2, <1>4, <2>1
  <2>2. CASE i # n + 1
    <3>1. i \in 1..n
      BY <1>1, <2>2
    <3> QED  BY <1>1, <1>2, <1>4, <3>1
  <2> QED  BY <2>1, <2>2
<1>6. n + 1 \in Nat
  BY <1>1
<1> QED  BY <1>2, <1>4, <1>5, <1>6 DEF Ones, s1, z1

\* The solids z are those of y up to d, but for {}; the first of y is the first of them if it
\* has to be.
SameBut(m, z, d, y, first) ==
    /\ {z[i] : i \in 1..m} \ {NoSolid} = {y[i] : i \in 1..d} \ {NoSolid}
    /\ first /\ d >= 1 =>
          /\ m >= 1 /\ z[1] = y[1]
          /\ {z[i] : i \in 2..m} \ {NoSolid} = {y[i] : i \in 2..d} \ {NoSolid}

LEMMA SameButSkip ==
    ASSUME NEW m \in Nat, NEW z, NEW d \in Nat, d >= 1, NEW y, NEW first,
           SameBut(m, z, d - 1, y, first), y[d] = NoSolid, ~(first /\ d = 1)
    PROVE  SameBut(m, z, d, y, first)
<1>1. {y[i] : i \in 1..d} = {y[i] : i \in 1..(d - 1)} \cup {y[d]}
  <2>1. 1..d = (1..(d - 1)) \cup {d}
    OBVIOUS
  <2> QED  BY <2>1
<1>2. {z[i] : i \in 1..m} \ {NoSolid} = {y[i] : i \in 1..d} \ {NoSolid}
  BY <1>1 DEF SameBut
<1>3. ASSUME first
      PROVE  /\ m >= 1 /\ z[1] = y[1]
             /\ {z[i] : i \in 2..m} \ {NoSolid} = {y[i] : i \in 2..d} \ {NoSolid}
  <2>1. d >= 2 /\ d - 1 >= 1
    BY <1>3
  <2>2. 2..d = (2..(d - 1)) \cup {d}
    BY <2>1
  <2>3. {y[i] : i \in 2..d} = {y[i] : i \in 2..(d - 1)} \cup {y[d]}
    BY <2>2
  <2> QED  BY <1>3, <2>1, <2>3 DEF SameBut
<1> QED  BY <1>2, <1>3 DEF SameBut

LEMMA SameButAppend ==
    ASSUME NEW m \in Nat, NEW z, z \in [1..m -> SolidSet], NEW d \in Nat, d >= 1, NEW y, NEW first,
           SameBut(m, z, d - 1, y, first), y[d] \in SolidSet, first /\ d = 1 => m = 0
    PROVE  SameBut(m + 1, Append(z, y[d]), d, y, first)
<1> DEFINE z1 == Append(z, y[d])
<1>1. z \in Seq(SolidSet) /\ Len(z) = m
  OBVIOUS
<1>2. (\A i \in 1..m : z1[i] = z[i]) /\ z1[m + 1] = y[d]
  BY <1>1
<1> HIDE DEF z1
<1>3. {y[i] : i \in 1..d} = {y[i] : i \in 1..(d - 1)} \cup {y[d]}
  <2>1. 1..d = (1..(d - 1)) \cup {d}
    OBVIOUS
  <2> QED  BY <2>1
<1>4. {z1[i] : i \in 1..(m + 1)} = {z[i] : i \in 1..m} \cup {y[d]}
  <2>1. 1..(m + 1) = (1..m) \cup {m + 1}
    OBVIOUS
  <2>2. {z1[i] : i \in 1..(m + 1)} = {z1[i] : i \in 1..m} \cup {z1[m + 1]}
    BY <2>1
  <2>3. {z1[i] : i \in 1..m} = {z[i] : i \in 1..m}
    BY <1>2
  <2> QED  BY <1>2, <2>2, <2>3
<1>5. {z1[i] : i \in 1..(m + 1)} \ {NoSolid} = {y[i] : i \in 1..d} \ {NoSolid}
  BY <1>3, <1>4 DEF SameBut
<1>6. ASSUME first
      PROVE  /\ m + 1 >= 1 /\ z1[1] = y[1]
             /\ {z1[i] : i \in 2..(m + 1)} \ {NoSolid} = {y[i] : i \in 2..d} \ {NoSolid}
  <2>1. CASE d = 1
    <3>1. m = 0 /\ m + 1 = 1
      BY <1>6, <2>1
    <3>2. 2..(m + 1) = {} /\ 2..d = {}
      BY <2>1, <3>1
    <3>3. z1[1] = y[1]
      BY <1>2, <2>1, <3>1
    <3> QED  BY <3>1, <3>2, <3>3
  <2>2. CASE d # 1
    <3>1. d >= 2 /\ d - 1 >= 1
      BY <2>2
    <3>2. m >= 1 /\ z[1] = y[1]
          /\ {z[i] : i \in 2..m} \ {NoSolid} = {y[i] : i \in 2..(d - 1)} \ {NoSolid}
      BY <1>6, <3>1 DEF SameBut
    <3>3. 2..d = (2..(d - 1)) \cup {d} /\ 2..(m + 1) = (2..m) \cup {m + 1}
      BY <3>1, <3>2
    <3>4. {y[i] : i \in 2..d} = {y[i] : i \in 2..(d - 1)} \cup {y[d]}
      BY <3>3
    <3>5. {z1[i] : i \in 2..(m + 1)} = {z1[i] : i \in 2..m} \cup {z1[m + 1]}
      BY <3>3
    <3>6. \A i \in 2..m : i \in 1..m
      OBVIOUS
    <3>7. {z1[i] : i \in 2..m} = {z[i] : i \in 2..m}
      BY <1>2, <3>6
    <3>8. z1[1] = z[1]
      BY <1>2, <3>2
    <3>9. {z1[i] : i \in 2..(m + 1)} \ {NoSolid} = {y[i] : i \in 2..d} \ {NoSolid}
      BY <1>2, <3>2, <3>4, <3>5, <3>7
    <3>10. m + 1 >= 1 /\ z1[1] = y[1]
      BY <3>2, <3>8
    <3> QED  BY <3>9, <3>10, Zenon
  <2> QED  BY <2>1, <2>2
<1> QED  BY <1>5, <1>6 DEF SameBut, z1

\* The operands without {} denote the same solids.
LEMMA OperandsSame ==
    ASSUME NEW c, NEW y, Ones(c.args, y)
    PROVE  \E z : /\ Ones(Operands(c), z)
                  /\ SameBut(Len(Operands(c)), z, Len(c.args), y, c.args[1] # Empty)
<1> DEFINE n == Len(c.args)
           S == {c.args[i] : i \in 1..n}
           first == c.args[1] # Empty
           Ok(s, d) == s \in Seq(S) /\ \E z : Ones(s, z) /\ SameBut(Len(s), z, d, y, first)
<1>1. n \in Nat /\ y \in [1..n -> SolidSet] /\ \A i \in 1..n : Denotes(c.args[i], <<y[i]>>)
  BY DEF Ones
<1>2. PICK keep : /\ keep[0] = <<>>
                  /\ \A d \in 1..n : keep[d] = IF c.args[d] = Empty THEN keep[d - 1]
                                               ELSE Append(keep[d - 1], c.args[d])
                  /\ Operands(c) = keep[n]
  BY <1>1, KeepExists
<1> DEFINE bad == {d \in 0..n : ~Ok(keep[d], d)}
<1>3. Ok(<<>>, 0)
  <2> DEFINE s == <<>>
             m == 0
  <2>1. s \in Seq(S) /\ Len(s) = m /\ DOMAIN s = 1..m /\ s \in [1..m -> SolidSet] /\ m \in Nat
        /\ 1..m = {}
    BY EmptySeq
  <2> HIDE DEF s, m, S
  <2>2. Ones(s, s)
    BY <2>1 DEF Ones
  <2>3. SameBut(m, s, m, y, first)
    <3>1. ~(m >= 1)
      BY DEF m
    <3> QED  BY <2>1, <3>1 DEF SameBut
  <2>4. Ok(s, m)
    BY <2>1, <2>2, <2>3
  <2> QED  BY <2>4 DEF s, m
<1>4. ASSUME NEW d \in 1..n, NEW s, Ok(s, d - 1), d = 1 => s = <<>>
      PROVE  Ok(IF c.args[d] = Empty THEN s ELSE Append(s, c.args[d]), d)
  <2>1. PICK z : Ones(s, z) /\ SameBut(Len(s), z, d - 1, y, first)
    BY <1>4
  <2>2. d \in Nat /\ d >= 1 /\ Len(s) \in Nat /\ s \in Seq(S)
    BY <1>4
  <2>3. y[d] \in SolidSet /\ Denotes(c.args[d], <<y[d]>>) /\ c.args[d] \in S
    BY <1>1
  <2> HIDE DEF S
  <2>4. CASE c.args[d] = Empty
    <3>1. <<y[d]>> = <<NoSolid>>
      BY <2>3, <2>4, EmptyDenotes
    <3>2. y[d] = NoSolid
      BY <3>1
    <3>3. ~(first /\ d = 1)
      BY <2>4
    <3> HIDE DEF first
    <3>4. SameBut(Len(s), z, d, y, first)
      BY <2>1, <2>2, <3>2, <3>3, SameButSkip
    <3> QED  BY <2>1, <2>2, <2>4, <3>4
  <2>5. CASE c.args[d] # Empty
    <3> DEFINE s1 == Append(s, c.args[d])
               z1 == Append(z, y[d])
               m == Len(s)
    <3>1. Ones(s1, z1)
      BY <2>1, <2>2, <2>3, OnesAppend
    <3>2. m = 0 \/ d # 1
      <4>1. d = 1 => s = <<>>
        BY <1>4
      <4> QED  BY <4>1
    <3>3. s1 \in Seq(S) /\ Len(s1) = m + 1 /\ m \in Nat
      BY <2>2, <2>3
    <3>4. z \in [1..m -> SolidSet] /\ SameBut(m, z, d - 1, y, first)
      BY <2>1 DEF Ones
    <3> HIDE DEF m, first, s1
    <3>5. SameBut(m + 1, z1, d, y, first)
      BY <2>2, <2>3, <3>2, <3>3, <3>4, SameButAppend
    <3> HIDE DEF z1
    <3>6. Ok(s1, d)
      BY <3>1, <3>3, <3>5
    <3> QED  BY <2>5, <3>6 DEF s1
  <2> QED  BY <2>4, <2>5
<1>5. \A d \in 0..n : Ok(keep[d], d)
  <2> SUFFICES ASSUME bad # {} PROVE FALSE
    OBVIOUS
  <2>1. bad \subseteq Nat
    BY <1>1
  <2>2. PICK d \in bad : \A b \in bad : ~(b < d)
    <3> HIDE DEF bad
    <3> QED  BY <2>1, NatMin
  <2> HIDE DEF Ok
  <2>3. d \in 0..n /\ ~Ok(keep[d], d)
    OBVIOUS
  <2>4. d # 0
    BY <1>2, <1>3, <2>3
  <2>5. d \in 1..n /\ d - 1 < d /\ d - 1 \in 0..n /\ (d = 1 => d - 1 = 0)
    BY <1>1, <2>3, <2>4
  <2>6. Ok(keep[d - 1], d - 1)
    BY <2>2, <2>5
  <2>7. d = 1 => keep[d - 1] = <<>>
    BY <1>2, <2>5
  <2>8. Ok(IF c.args[d] = Empty THEN keep[d - 1] ELSE Append(keep[d - 1], c.args[d]), d)
    BY <1>4, <2>5, <2>6, <2>7
  <2> QED  BY <1>2, <2>3, <2>5, <2>8
<1>6. Ok(Operands(c), n)
  <2> HIDE DEF Ok
  <2> QED  BY <1>1, <1>2, <1>5
<1> QED  BY <1>6

\* so that what is put together of them is the same,
LEMMA SameCombined ==
    ASSUME NEW op, NEW m \in Nat, NEW z, z \in [1..m -> SolidSet],
           NEW n \in Nat, n >= 1, NEW y, y \in [1..n -> SolidSet],
           NEW first, SameBut(m, z, n, y, first), op = "difference" => first
    PROVE  Combined(op, z) = Combined(op, y)
<1>1. CASE op # "difference"
  <2>1. Combined(op, z) = Gathered(op, {z[i] : i \in 1..m} \ {NoSolid})
    BY <1>1, CombinedJoin
  <2>2. Combined(op, y) = Gathered(op, {y[i] : i \in 1..n} \ {NoSolid})
    BY <1>1, CombinedJoin
  <2> QED  BY <2>1, <2>2 DEF SameBut
<1>2. CASE op = "difference"
  <2>1. m >= 1 /\ z[1] = y[1]
        /\ {z[i] : i \in 2..m} \ {NoSolid} = {y[i] : i \in 2..n} \ {NoSolid}
    BY <1>2 DEF SameBut
  <2> DEFINE Cut(a, b) == IF a = NoSolid THEN NoSolid ELSE a \ UNION b
  <2>2. Combined("difference", z) = Cut(z[1], {z[i] : i \in 2..m} \ {NoSolid})
    BY <2>1, CombinedCut
  <2>3. Combined("difference", y) = Cut(y[1], {y[i] : i \in 2..n} \ {NoSolid})
    BY CombinedCut
  <2> HIDE DEF Cut
  <2> QED  BY <1>2, <2>1, <2>2, <2>3
<1> QED  BY <1>1, <1>2

\* and what try_shortcircuit makes of the call denotes what it denoted.
LEMMA FoldedDenotes ==
    ASSUME NEW c, NEW x, Standing(c.args, x), NEW val, Comes(c.op, Len(c.args), x, val),
           ~RefusesArgs(c), FoldsEmpty(c)
    PROVE  Denotes(Folded(c), val)
<1> DEFINE n == Len(c.args)
           y == Each(n, x)
           s == Operands(c)
<1>1. n \in Nat /\ DOMAIN c.args = 1..n
  BY DEF Standing
<1>2. \A i \in 1..n : Kind(c.args[i]) # "array"
  <2>1. \A a \in ToSet(c.args) : Kind(a) # "array"
    BY DEF RefusesArgs, FoldsEmpty
  <2> QED  BY <1>1, <2>1 DEF ToSet
<1>3. Ones(c.args, y)
  BY <1>2, OnesOf
<1>4. val = <<Combined(c.op, y)>>
  BY DEF Comes
<1>5. Denotes(Empty, <<NoSolid>>) /\ Denotes(Value, <<NoSolid>>)
  BY DenotesNothing DEF Empty, Value
<1> HIDE DEF n, y
<1>6. n >= 1 /\ y \in [1..n -> SolidSet] /\ \A i \in 1..n : Denotes(c.args[i], <<y[i]>>)
  <2>1. CASE c.args = <<Empty>>
    BY <1>3, <2>1 DEF n, Ones
  <2>2. CASE n >= 2
    BY <1>3, <2>2 DEF n, Ones
  <2> QED  BY <2>1, <2>2 DEF FoldsEmpty, n
<1>7. ASSUME c.args[1] = Empty PROVE y[1] = NoSolid
  <2>1. 1 \in 1..n
    BY <1>1, <1>6
  <2>2. Denotes(Empty, <<y[1]>>)
    BY <1>6, <1>7, <2>1
  <2>3. <<y[1]>> = <<NoSolid>>
    BY <2>2, EmptyDenotes
  <2> QED  BY <2>3
<1>8. CASE c.op \in Measures
  <2>1. c.args = <<Empty>>
    BY <1>8 DEF FoldsEmpty, Measures, Boolean
  <2>2. n = 1 /\ c.args[1] = Empty
    BY <2>1 DEF n
  <2>3. y = <<NoSolid>>
    BY <1>6, <1>7, <2>2
  <2>4. NoSolid \in SolidSet
    BY DEF SolidSet
  <2>5. Combined(c.op, <<NoSolid>>) = NoSolid
    BY <2>4, CombinedOne
  <2>6. Folded(c) = Value
    BY <1>8 DEF Folded
  <2> QED  BY <1>4, <1>5, <2>3, <2>5, <2>6
<1>9. CASE c.op \notin Measures /\ c.op = "difference" /\ c.args[1] = Empty
  <2>1. Combined("difference", y) = NoSolid
    <3>1. y[1] = NoSolid
      BY <1>7, <1>9
    <3> QED  BY <1>1, <1>6, <3>1, CombinedCut
  <2>2. Folded(c) = Empty
    BY <1>9 DEF Folded
  <2> QED  BY <1>4, <1>5, <1>9, <2>1, <2>2
<1>10. CASE c.op \notin Measures /\ ~(c.op = "difference" /\ c.args[1] = Empty)
  <2> DEFINE m == Len(s)
             first == c.args[1] # Empty
  <2>1. PICK z : Ones(s, z) /\ SameBut(Len(s), z, n, y, c.args[1] # Empty)
    BY <1>3, OperandsSame DEF n
  <2>2. /\ m \in Nat /\ z \in [1..m -> SolidSet] /\ DOMAIN s = 1..m
        /\ SameBut(m, z, n, y, first)
        /\ c.op = "difference" => first
        /\ \A i \in 1..m : Denotes(s[i], <<z[i]>>)
    BY <1>10, <2>1 DEF Ones
  <2> HIDE DEF s, m, first
  <2>3. Combined(c.op, z) = Combined(c.op, y)
    BY <1>1, <1>6, <2>2, SameCombined
  <2>4. val = <<Combined(c.op, z)>>
    BY <1>4, <2>3
  <2>5. CASE s = <<>>
    <3>1. m = 0
      BY <2>5 DEF m
    <3>2. z = <<>>
      BY <2>2, <3>1
    <3>3. c.op # "difference"
      BY <1>6, <2>2, <3>1 DEF SameBut
    <3>4. Combined(c.op, z) = NoSolid
      <4>1. DOMAIN z = {}
        BY <3>2
      <4>2. Present(z) = {}
        BY <4>1 DEF Present
      <4> QED  BY <3>3, <4>2 DEF Combined
    <3>5. Folded(c) = Empty
      <4>1. Operands(c) = <<>>
        BY <2>5 DEF s
      <4> QED  BY <1>10, <4>1, Zenon DEF Folded
    <3> QED  BY <1>5, <2>4, <3>4, <3>5
  <2>6. CASE s # <<>> /\ m = 1
    <3>1. z = <<z[1]>> /\ z[1] \in SolidSet /\ 1 \in 1..m
      BY <2>2, <2>6
    <3>2. Combined(c.op, <<z[1]>>) = z[1]
      BY <3>1, CombinedOne
    <3>3. Folded(c) = s[1]
      BY <1>10, <2>6 DEF Folded, s, m
    <3>4. val = <<z[1]>>
      <4> DEFINE v == z[1]
      <4>1. z = <<v>> /\ Combined(c.op, <<v>>) = v
        BY <3>1, <3>2
      <4> HIDE DEF v
      <4>2. val = <<v>>
        BY <2>4, <4>1
      <4> QED  BY <4>2 DEF v
    <3> QED  BY <2>2, <3>1, <3>3, <3>4
  <2>7. CASE s # <<>> /\ m # 1
    <3> DEFINE is == [kind |-> "call", op |-> c.op, named |-> NotGiven, site |-> c.site]
    <3>1. is.kind = "call" /\ is.op = c.op /\ Call(c.op, s, NotGiven, c.site) = Term(is, s)
      BY DEF Call
    <3> HIDE DEF is
    <3>2. Denotes(Term(is, s), <<Combined(is.op, z)>>)
      BY <2>1, <3>1, CallOfOnes DEF s
    <3>3. Folded(c) = Call(c.op, s, NotGiven, c.site)
      BY <1>10, <2>7 DEF Folded, s, m
    <3> QED  BY <2>4, <3>1, <3>2, <3>3
  <2> QED  BY <2>5, <2>6, <2>7
<1> QED  BY <1>8, <1>9, <1>10

-----------------------------------------------------------------------------
(* A call that is split into calls of groups of its operands.              *)

\* The solids z at the numbers I, without {}.
Among(z, I) == {z[i] : i \in I} \ {NoSolid}

\* The groups G are all of 1..n, and y is what comes of the solids of each.
Groups(n, m, G) ==
    /\ \A j \in 1..m : G[j] \subseteq 1..n
    /\ \A i \in 1..n : \E j \in 1..m : i \in G[j]
ByGroup(op, z, m, G, y) == \A j \in 1..m : y[j] = Gathered(op, Among(z, G[j]))

\* Where the j-th group of k begins, and that i is in one of m groups.
Begin(j, k) == (j - 1) * k
InAGroup(i, m, k) == \E j \in 1..m : \E x \in 1..k : i = Begin(j, k) + x

\* The solids of groups, put together, are what the solids are.
LEMMA Regrouped ==
    ASSUME NEW op, NEW n \in Nat, NEW z, z \in [1..n -> SolidSet],
           NEW m \in Nat, NEW G, Groups(n, m, G), NEW y, ByGroup(op, z, m, G, y)
    PROVE  Gathered(op, Among(y, 1..m)) = Gathered(op, Among(z, 1..n))
<1> DEFINE Of(j) == {z[i] : i \in G[j]} \ {NoSolid}
           F == {Of(j) : j \in 1..m} \ {{}}
           all == {z[i] : i \in 1..n} \ {NoSolid}
           groups == {y[j] : j \in 1..m} \ {NoSolid}
<1> USE DEF Among, Groups, ByGroup
<1>1. \A j \in 1..m : Of(j) \subseteq SolidSet \ {NoSolid}
  OBVIOUS
<1>2. UNION F = all
  <2>1. ASSUME NEW v \in UNION F PROVE v \in all
    <3>1. PICK j \in 1..m : v \in Of(j)
      OBVIOUS
    <3>2. G[j] \subseteq 1..n
      OBVIOUS
    <3> QED  BY <3>1, <3>2
  <2>2. ASSUME NEW v \in all PROVE v \in UNION F
    <3>1. PICK i \in 1..n : v = z[i] /\ v # NoSolid
      OBVIOUS
    <3>2. PICK j \in 1..m : i \in G[j]
      OBVIOUS
    <3>3. v \in Of(j) /\ Of(j) \in F
      BY <3>1, <3>2
    <3> QED  BY <3>3
  <2> QED  BY <2>1, <2>2
<1>3. groups = {Joined(op, S) : S \in F}
  <2>1. ASSUME NEW v \in groups PROVE v \in {Joined(op, S) : S \in F}
    <3>1. PICK j \in 1..m : v = y[j] /\ v # NoSolid
      OBVIOUS
    <3>2. v = Gathered(op, Of(j))
      BY <3>1
    <3> HIDE DEF Of
    <3>3. Of(j) # {} /\ v = Joined(op, Of(j))
      BY <3>1, <3>2 DEF Gathered
    <3> QED  BY <3>3
  <2>2. ASSUME NEW S \in F PROVE Joined(op, S) \in groups
    <3>1. PICK j \in 1..m : S = Of(j) /\ Of(j) # {}
      OBVIOUS
    <3>2. y[j] = Gathered(op, Of(j))
      OBVIOUS
    <3> HIDE DEF Of
    <3>3. y[j] = Joined(op, S)
      BY <3>1, <3>2 DEF Gathered
    <3>4. Joined(op, S) # NoSolid
      BY <1>1, <3>1, JoinedSolid
    <3> QED  BY <3>3, <3>4
  <2> QED  BY <2>1, <2>2
<1>4. \A S \in F : S # {}
  OBVIOUS
<1> HIDE DEF F, all, groups
<1>5. CASE F = {}
  <2>1. all = {} /\ groups = {}
    BY <1>2, <1>3, <1>5
  <2> QED  BY <2>1 DEF all, groups
<1>6. CASE F # {}
  <2>1. all # {} /\ groups # {}
    BY <1>2, <1>3, <1>4, <1>6
  <2>2. Joined(op, groups) = Joined(op, all)
    BY <1>2, <1>3, <1>4, <1>6, JoinedGroups
  <2>3. Gathered(op, groups) = Gathered(op, all)
    BY <2>1, <2>2 DEF Gathered
  <2> QED  BY <2>3 DEF all, groups
<1> QED  BY <1>5, <1>6

\* One solid is a group.
LEMMA GatheredOne ==
    ASSUME NEW op, NEW v
    PROVE  Gathered(op, {v} \ {NoSolid}) = v
<1>1. CASE v = NoSolid
  <2>1. {v} \ {NoSolid} = {}
    BY <1>1
  <2> QED  BY <1>1, <2>1 DEF Gathered
<1>2. CASE v # NoSolid
  <2>1. {v} \ {NoSolid} = {v} /\ {v} # {}
    BY <1>2
  <2> QED  BY <2>1, JoinedOne DEF Gathered
<1> QED  BY <1>1, <1>2

LEMMA GroupDenotes ==
    ASSUME NEW c, NEW s, NEW z, Ones(s, z)
    PROVE  Denotes(Group(c, s), <<Combined(c.op, z)>>)
<1> DEFINE is == [kind |-> "call", op |-> c.op, named |-> c.named, site |-> c.site]
<1>1. is.kind = "call" /\ is.op = c.op /\ Group(c, s) = Term(is, s)
  BY DEF Group, Call
<1> HIDE DEF is
<1>2. Denotes(Term(is, s), <<Combined(is.op, z)>>)
  BY <1>1, CallOfOnes
<1> QED  BY <1>1, <1>2

\* How many groups of k there are, and where they begin.
LEMMA Levels ==
    ASSUME NEW n \in Nat, n >= 1, NEW k \in Nat, k >= 2, NEW m, m = (n + k - 1) \div k
    PROVE  /\ m \in Nat /\ m >= 1 /\ (n >= 2 => m < n)
           /\ m * k <= n + k - 1 /\ m * k >= n
<1>1. m \in Nat /\ m * k <= n + k - 1 /\ n + k - 1 < m * k + k
  OBVIOUS
<1>2. m >= 1
  BY <1>1
<1>3. m * k >= n
  <2>1. m * k \in Nat
    BY <1>1
  <2> QED  BY <1>1, <2>1
<1>4. ASSUME n >= 2 PROVE m < n
  <2> SUFFICES ASSUME m >= n PROVE FALSE
    BY <1>1
  <2>1. m * k >= n * k
    BY <1>1
  <2>2. n * k >= n + k
    <3>1. (n - 2) * k >= 0 /\ (n - 2) * (k - 2) >= 0
      BY <1>4
    <3>2. n * k = (n - 2) * (k - 2) + 2 * n + 2 * k - 4
      OBVIOUS
    <3> QED  BY <1>4, <3>1, <3>2
  <2> QED  BY <1>1, <2>1, <2>2
<1> QED  BY <1>1, <1>2, <1>3, <1>4

LEMMA GroupBegins ==
    ASSUME NEW n \in Nat, n >= 1, NEW k \in Nat, k >= 2, NEW m, m = (n + k - 1) \div k,
           NEW j \in 1..m
    PROVE  Begin(j, k) \in Nat /\ Begin(j, k) < n
<1>1. m \in Nat /\ m >= 1 /\ m * k <= n + k - 1
  BY Levels
<1>2. j \in Nat /\ j >= 1 /\ m - j >= 0
  BY <1>1
<1>3. (m - j) * k >= 0
  BY <1>1, <1>2
<1>4. (m - j) * k = m * k - j * k /\ (j - 1) * k = j * k - k
  BY <1>1, <1>2
<1>5. m * k \in Int /\ j * k \in Int
  BY <1>1, <1>2
<1>6. (j - 1) * k < n
  BY <1>1, <1>3, <1>4, <1>5
<1>7. (j - 1) * k \in Nat
  BY <1>2
<1> QED  BY <1>6, <1>7 DEF Begin

LEMMA EachInAGroup ==
    ASSUME NEW n \in Nat, n >= 1, NEW k \in Nat, k >= 2, NEW m, m = (n + k - 1) \div k,
           NEW i \in 1..n
    PROVE  InAGroup(i, m, k)
<1> DEFINE q == (i - 1) \div k
           r == (i - 1) % k
<1>1. m \in Nat /\ m >= 1 /\ m * k >= n
  BY Levels
<1>2. q \in Nat /\ r \in 0..(k - 1) /\ i - 1 = k * q + r
  OBVIOUS
<1> HIDE DEF q, r
<1>3. q < m
  <2> SUFFICES ASSUME q >= m PROVE FALSE
    BY <1>1, <1>2
  <2>1. (q - m) * k >= 0
    BY <1>1, <1>2
  <2>2. (q - m) * k = k * q - m * k
    BY <1>1, <1>2
  <2>3. k * q \in Int /\ m * k \in Int
    BY <1>1, <1>2
  <2> QED  BY <1>1, <1>2, <2>1, <2>2, <2>3
<1>4. q + 1 \in 1..m /\ r + 1 \in 1..k
  BY <1>1, <1>2, <1>3
<1>5. i = ((q + 1) - 1) * k + (r + 1)
  <2>1. (q + 1) - 1 = q /\ k * q = q * k
    BY <1>2
  <2> QED  BY <1>2, <2>1
<1> QED  BY <1>4, <1>5 DEF Begin, InAGroup

\* s may be what the call of op on what denotes z has become.
Grouped(op, z, s) == \E y : Ones(s, y) /\ Combined(op, y) = Combined(op, z)

\* A level of build_ktree puts together what was there.
LEMMA KTreeGrouped ==
    ASSUME NEW c, c.op # "difference", NEW k \in Nat, k >= 2,
           NEW s, NEW z, Ones(s, z), Len(s) >= 1
    PROVE  /\ Grouped(c.op, z, KTree(c, k, s))
           /\ Len(KTree(c, k, s)) >= 1 /\ (Len(s) >= 2 => Len(KTree(c, k, s)) < Len(s))
<1> DEFINE n == Len(s)
           op == c.op
           m == (n + k - 1) \div k
           D(b) == {x \in 1..k : b + x <= n}
           e(b) == [i \in D(b) |-> s[b + i]]
           t(j) == IF DOMAIN e(Begin(j, k)) = {1} THEN e(Begin(j, k))[1]
                   ELSE Group(c, e(Begin(j, k)))
           G == [j \in 1..m |-> {Begin(j, k) + x : x \in D(Begin(j, k))}]
           y == [j \in 1..m |-> Gathered(op, Among(z, G[j]))]
           tree == [j \in 1..m |-> t(j)]
<1>1. /\ n \in Nat /\ n >= 1 /\ DOMAIN s = 1..n /\ z \in [1..n -> SolidSet]
      /\ \A i \in 1..n : Denotes(s[i], <<z[i]>>)
  BY DEF Ones
<1>2. KTree(c, k, s) = tree
  BY DEF KTree, Begin
<1> HIDE DEF n
<1>3. m \in Nat /\ m >= 1 /\ (n >= 2 => m < n)
  BY <1>1, Levels
<1>4. \A j \in 1..m : Begin(j, k) \in Nat /\ Begin(j, k) < n
  BY <1>1, GroupBegins
<1>5. \A i \in 1..n : InAGroup(i, m, k)
  BY <1>1, EachInAGroup
<1> HIDE DEF m
<1>6. ASSUME NEW b \in Nat, b < n,
             NEW g, g = IF DOMAIN e(b) = {1} THEN e(b)[1] ELSE Group(c, e(b))
      PROVE  Denotes(g, <<Gathered(op, Among(z, {b + x : x \in D(b)}))>>)
  <2> DEFINE w == IF n - b <= k THEN n - b ELSE k
             eb == [i \in 1..w |-> s[b + i]]
             zb == [i \in 1..w |-> z[b + i]]
  <2>1. w \in Nat /\ w >= 1 /\ D(b) = 1..w
    BY <1>1, <1>6
  <2>2. \A i \in 1..w : b + i \in 1..n
    BY <1>1, <1>6
  <2> HIDE DEF w
  <2>3. e(b) = eb
    BY <2>1
  <2>4. DOMAIN eb = 1..w /\ Len(eb) = w /\ \A i \in 1..w : eb[i] = s[b + i]
    BY <2>1
  <2>5. zb \in [1..w -> SolidSet] /\ \A i \in 1..w : zb[i] = z[b + i]
    BY <1>1, <2>2
  <2>6. Among(z, {b + x : x \in D(b)}) = {zb[i] : i \in 1..w} \ {NoSolid}
    BY <2>1 DEF Among
  <2> HIDE DEF eb, zb, e, D
  <2>7. \A i \in 1..w : Denotes(eb[i], <<zb[i]>>)
    BY <1>1, <2>2, <2>4, <2>5
  <2>8. Ones(eb, zb)
    BY <2>1, <2>4, <2>5, <2>7 DEF Ones
  <2>9. CASE w = 1
    <3>1. g = eb[1]
      BY <1>6, <2>3, <2>4, <2>9
    <3>2. {zb[i] : i \in 1..w} = {zb[1]} /\ 1 \in 1..w
      BY <2>9
    <3>3. Gathered(op, {zb[i] : i \in 1..w} \ {NoSolid}) = zb[1]
      BY <3>2, GatheredOne
    <3> QED  BY <2>6, <2>7, <3>1, <3>2, <3>3
  <2>10. CASE w # 1
    <3>1. 1..w # {1}
      <4>1. 2 \in 1..w
        BY <2>1, <2>10
      <4> QED  BY <4>1
    <3>2. g = Group(c, eb)
      BY <1>6, <2>3, <2>4, <3>1
    <3>3. Denotes(g, <<Combined(op, zb)>>)
      BY <2>8, <3>2, GroupDenotes
    <3>4. Combined(op, zb) = Gathered(op, {zb[i] : i \in 1..w} \ {NoSolid})
      BY <2>1, <2>5, CombinedJoin
    <3> QED  BY <2>6, <3>3, <3>4
  <2> QED  BY <2>9, <2>10
<1>7. ASSUME NEW j \in 1..m PROVE Denotes(t(j), <<y[j]>>)
  <2> DEFINE b == Begin(j, k)
  <2>1. b \in Nat /\ b < n
    BY <1>4
  <2>2. y[j] = Gathered(op, Among(z, {b + x : x \in D(b)}))
    OBVIOUS
  <2>3. t(j) = IF DOMAIN e(b) = {1} THEN e(b)[1] ELSE Group(c, e(b))
    OBVIOUS
  <2> HIDE DEF y, t, e, D, b
  <2> QED  BY <1>6, <2>1, <2>2, <2>3
<1>8. \A j \in 1..m : G[j] \subseteq 1..n
  <2> SUFFICES ASSUME NEW j \in 1..m, NEW x \in D(Begin(j, k)) PROVE Begin(j, k) + x \in 1..n
    OBVIOUS
  <2> DEFINE b == Begin(j, k)
  <2>1. b \in Nat /\ x \in 1..k /\ b + x <= n
    BY <1>4
  <2> HIDE DEF b
  <2>2. b + x \in 1..n
    BY <1>1, <2>1
  <2> QED  BY <2>2 DEF b
<1>9. \A i \in 1..n : \E j \in 1..m : i \in G[j]
  <2> SUFFICES ASSUME NEW i \in 1..n PROVE \E j \in 1..m : i \in G[j]
    OBVIOUS
  <2>1. PICK j \in 1..m, x \in 1..k : i = Begin(j, k) + x
    BY <1>5 DEF InAGroup
  <2>2. x \in D(Begin(j, k))
    BY <1>1, <2>1
  <2> QED  BY <2>1, <2>2
<1>10. \A j \in 1..m : y[j] = Gathered(op, Among(z, G[j]))
  <2> HIDE DEF G
  <2> QED  OBVIOUS
<1> HIDE DEF G
<1>11. DOMAIN y = 1..m /\ y = [j \in 1..m |-> y[j]]
  OBVIOUS
<1>12. DOMAIN tree = 1..m /\ Len(tree) = m /\ \A j \in 1..m : tree[j] = t(j)
  <2> HIDE DEF t
  <2> QED  BY <1>3
<1> HIDE DEF y, tree, t
<1>13. \A j \in 1..m : y[j] \in SolidSet
  <2> SUFFICES ASSUME NEW j \in 1..m PROVE y[j] \in SolidSet
    OBVIOUS
  <2>1. Among(z, G[j]) \subseteq SolidSet \ {NoSolid}
    BY <1>1, <1>8 DEF Among
  <2> QED  BY <1>10, <2>1, JoinedSolid
<1>14. y \in [1..m -> SolidSet]
  BY <1>11, <1>13
<1>15. Ones(tree, y)
  BY <1>3, <1>7, <1>12, <1>14 DEF Ones
<1>16. Combined(op, y) = Combined(op, z)
  <2>1. Combined(op, y) = Gathered(op, Among(y, 1..m))
    BY <1>3, <1>14, CombinedJoin DEF Among
  <2>2. Combined(op, z) = Gathered(op, Among(z, 1..n))
    BY <1>1, CombinedJoin DEF Among
  <2>3. Groups(n, m, G) /\ ByGroup(op, z, m, G, y)
    BY <1>8, <1>9, <1>10 DEF Groups, ByGroup
  <2>4. Gathered(op, Among(y, 1..m)) = Gathered(op, Among(z, 1..n))
    BY <1>1, <1>3, <2>3, Regrouped
  <2> QED  BY <2>1, <2>2, <2>4
<1>17. Grouped(op, z, tree)
  BY <1>15, <1>16 DEF Grouped
<1> QED  BY <1>2, <1>3, <1>12, <1>17 DEF n

\* So does a round of build_kleftfold, also of a difference: what is taken from the first
\* operand may be taken a group at a time.
LEMMA KLeftFoldGrouped ==
    ASSUME NEW c, NEW k \in Nat, k >= 2, NEW s, NEW z, Ones(s, z), Len(s) >= 1
    PROVE  /\ Grouped(c.op, z, KLeftFold(c, k, s))
           /\ Len(KLeftFold(c, k, s)) >= 1
           /\ (Len(s) >= 2 => Len(KLeftFold(c, k, s)) < Len(s))
<1> DEFINE n == Len(s)
           op == c.op
<1>1. /\ n \in Nat /\ n >= 1 /\ DOMAIN s = 1..n /\ z \in [1..n -> SolidSet]
      /\ \A i \in 1..n : Denotes(s[i], <<z[i]>>)
  BY DEF Ones
<1>2. CASE n <= k
  <2> DEFINE g == Group(c, s)
             v == Combined(op, z)
             fold == <<g>>
             y == <<v>>
             m == 1
  <2>1. Denotes(g, <<v>>)
    BY GroupDenotes
  <2>2. v \in SolidSet
    <3> HIDE DEF n
    <3> QED  BY <1>1, CombinedSolid
  <2>3. KLeftFold(c, k, s) = fold
    BY <1>2 DEF KLeftFold
  <2>4. Combined(op, y) = v
    <3> HIDE DEF v
    <3> QED  BY <2>2, CombinedOne
  <2> HIDE DEF g, v
  <2>5. Len(fold) = m /\ m = 1 /\ DOMAIN fold = 1..m /\ y \in [1..m -> SolidSet]
        /\ \A i \in 1..m : Denotes(fold[i], <<y[i]>>)
    BY <2>1, <2>2
  <2> HIDE DEF m, y, fold
  <2>6. Ones(fold, y)
    BY <2>5 DEF Ones
  <2>7. Grouped(op, z, fold)
    BY <2>4, <2>6 DEF Grouped, v
  <2> QED  BY <2>3, <2>5, <2>7
<1>3. CASE ~(n <= k)
  <2> DEFINE m == n - k + 1
             first == SubSeq(s, 1, k)
             zf == [i \in 1..k |-> z[i]]
             v == Combined(op, zf)
             t(i) == IF i = 1 THEN Group(c, first) ELSE s[i + k - 1]
             fold == [i \in 1..m |-> t(i)]
             y == [i \in 1..m |-> IF i = 1 THEN v ELSE z[i + k - 1]]
  <2>1. m \in Nat /\ m >= 1 /\ m < n /\ k < n
        /\ (\A i \in 1..k : i \in 1..n) /\ \A i \in 2..m : i + k - 1 \in 1..n
    BY <1>1, <1>3
  <2>2. zf \in [1..k -> SolidSet] /\ \A i \in 1..k : zf[i] = z[i]
    BY <1>1, <2>1
  <2>3. Len(first) = k /\ DOMAIN first = 1..k /\ \A i \in 1..k : first[i] = s[i]
    BY FirstElements
  <2>4. Ones(first, zf)
    <3> HIDE DEF first, zf, n
    <3>1. \A i \in 1..k : Denotes(first[i], <<zf[i]>>)
      BY <1>1, <2>1, <2>2, <2>3
    <3> QED  BY <2>2, <2>3, <3>1 DEF Ones
  <2>5. Denotes(Group(c, first), <<v>>)
    BY <2>4, GroupDenotes
  <2>6. v \in SolidSet
    <3> HIDE DEF zf
    <3> QED  BY <2>2, CombinedSolid
  <2>7. KLeftFold(c, k, s) = fold
    BY <1>3 DEF KLeftFold
  <2> HIDE DEF first, v, m, n
  <2>8. y[1] = v /\ \A i \in 2..m : y[i] = z[i + k - 1]
    BY <2>1
  <2>9. DOMAIN fold = 1..m /\ Len(fold) = m /\ fold[1] = Group(c, first)
        /\ \A i \in 2..m : fold[i] = s[i + k - 1]
    <3>1. DOMAIN fold = 1..m /\ Len(fold) = m
      BY <2>1
    <3>2. 1 \in 1..m /\ \A i \in 2..m : i \in 1..m /\ i # 1
      BY <2>1
    <3> QED  BY <3>1, <3>2
  <2>10. y \in [1..m -> SolidSet]
    <3>1. \A i \in 1..m : i # 1 => i \in 2..m
      BY <2>1
    <3>2. \A i \in 1..m : i # 1 => z[i + k - 1] \in SolidSet
      BY <1>1, <2>1, <3>1
    <3> QED  BY <2>6, <3>2
  <2> HIDE DEF y, fold, zf
  <2>11. ASSUME NEW i \in 1..m PROVE Denotes(fold[i], <<y[i]>>)
    <3>1. CASE i = 1
      BY <2>5, <2>8, <2>9, <3>1
    <3>2. CASE i # 1
      <4>1. i \in 2..m
        BY <2>1, <3>2
      <4>2. fold[i] = s[i + k - 1] /\ y[i] = z[i + k - 1] /\ i + k - 1 \in 1..n
        BY <2>1, <2>8, <2>9, <4>1
      <4> QED  BY <1>1, <4>2
    <3> QED  BY <3>1, <3>2
  <2>12. Ones(fold, y)
    BY <2>1, <2>9, <2>10, <2>11 DEF Ones
  <2>13. Combined(op, y) = Combined(op, z)
    <3>1. CASE op # "difference"
      <4> DEFINE G == [i \in 1..m |-> IF i = 1 THEN 1..k ELSE {i + k - 1}]
      <4>1. G[1] = 1..k /\ \A i \in 2..m : G[i] = {i + k - 1}
        BY <2>1
      <4> HIDE DEF G
      <4>2. \A i \in 1..m : G[i] \subseteq 1..n
        <5> SUFFICES ASSUME NEW i \in 1..m PROVE G[i] \subseteq 1..n
          OBVIOUS
        <5>1. CASE i = 1
          BY <2>1, <4>1, <5>1
        <5>2. CASE i # 1
          <6>1. i \in 2..m
            BY <2>1, <5>2
          <6> QED  BY <2>1, <4>1, <6>1
        <5> QED  BY <5>1, <5>2
      <4>3. \A i \in 1..n : \E j \in 1..m : i \in G[j]
        <5> SUFFICES ASSUME NEW i \in 1..n PROVE \E j \in 1..m : i \in G[j]
          OBVIOUS
        <5>1. CASE i <= k
          <6>1. 1 \in 1..m /\ i \in G[1]
            BY <2>1, <4>1, <5>1
          <6> QED  BY <6>1
        <5>2. CASE ~(i <= k)
          <6>1. i - k + 1 \in 2..m /\ (i - k + 1) + k - 1 = i
            BY <1>1, <5>2 DEF m
          <6>2. i \in G[i - k + 1] /\ i - k + 1 \in 1..m
            BY <4>1, <6>1
          <6> QED  BY <6>2
        <5> QED  BY <5>1, <5>2
      <4>4. \A i \in 1..m : y[i] = Gathered(op, Among(z, G[i]))
        <5> SUFFICES ASSUME NEW i \in 1..m PROVE y[i] = Gathered(op, Among(z, G[i]))
          OBVIOUS
        <5>1. CASE i = 1
          <6>1. v = Gathered(op, Among(zf, 1..k))
            BY <2>2, <3>1, CombinedJoin DEF v, Among
          <6>2. Among(zf, 1..k) = Among(z, G[i])
            BY <2>2, <4>1, <5>1 DEF Among
          <6> QED  BY <2>8, <5>1, <6>1, <6>2
        <5>2. CASE i # 1
          <6>1. i \in 2..m
            BY <2>1, <5>2
          <6>2. {z[x] : x \in G[i]} = {y[i]}
            BY <2>8, <4>1, <6>1
          <6> QED  BY <6>2, GatheredOne DEF Among
        <5> QED  BY <5>1, <5>2
      <4>5. Combined(op, y) = Gathered(op, Among(y, 1..m))
        BY <2>1, <2>10, <3>1, CombinedJoin DEF Among
      <4>6. Combined(op, z) = Gathered(op, Among(z, 1..n))
        BY <1>1, <3>1, CombinedJoin DEF Among
      <4>7. Groups(n, m, G) /\ ByGroup(op, z, m, G, y)
        BY <4>2, <4>3, <4>4 DEF Groups, ByGroup
      <4>8. Gathered(op, Among(y, 1..m)) = Gathered(op, Among(z, 1..n))
        BY <1>1, <2>1, <4>7, Regrouped
      <4> QED  BY <4>5, <4>6, <4>8
    <3>2. CASE op = "difference"
      <4> DEFINE A == {zf[i] : i \in 2..k} \ {NoSolid}
                 B == {y[i] : i \in 2..m} \ {NoSolid}
                 C == {z[i] : i \in 2..n} \ {NoSolid}
      <4>1. zf[1] = z[1] /\ z[1] \in SolidSet
        BY <1>1, <2>1, <2>2
      <4>2. v = IF z[1] = NoSolid THEN NoSolid ELSE z[1] \ UNION A
        <5>1. Combined("difference", zf)
                = IF zf[1] = NoSolid THEN NoSolid ELSE zf[1] \ UNION A
          BY <2>2, CombinedCut
        <5> HIDE DEF A
        <5> QED  BY <3>2, <4>1, <5>1 DEF v
      <4>3. Combined("difference", y) = IF v = NoSolid THEN NoSolid ELSE v \ UNION B
        <5>1. Combined("difference", y)
                = IF y[1] = NoSolid THEN NoSolid ELSE y[1] \ UNION B
          BY <2>1, <2>10, CombinedCut
        <5> HIDE DEF B
        <5> QED  BY <2>8, <5>1
      <4>4. Combined("difference", z) = IF z[1] = NoSolid THEN NoSolid ELSE z[1] \ UNION C
        BY <1>1, CombinedCut
      <4>5. C = A \cup B
        <5>1. ASSUME NEW i \in 2..k PROVE i \in 2..n /\ zf[i] = z[i]
          <6>1. i \in 1..k
            OBVIOUS
          <6> QED  BY <1>1, <2>1, <2>2, <6>1
        <5>2. ASSUME NEW i \in 2..m PROVE i + k - 1 \in 2..n /\ y[i] = z[i + k - 1]
          BY <1>1, <2>1, <2>8
        <5>3. ASSUME NEW i \in 2..n, ~(i <= k) PROVE i - k + 1 \in 2..m /\ y[i - k + 1] = z[i]
          <6>1. i - k + 1 \in 2..m /\ (i - k + 1) + k - 1 = i
            BY <1>1, <5>3 DEF m
          <6> QED  BY <2>8, <6>1
        <5>4. ASSUME NEW a \in C PROVE a \in A \cup B
          <6>1. PICK i \in 2..n : a = z[i] /\ a # NoSolid
            OBVIOUS
          <6>2. CASE i <= k
            <7>1. i \in 2..k
              BY <6>2
            <7>2. a = zf[i]
              BY <5>1, <6>1, <7>1
            <7> QED  BY <6>1, <7>1, <7>2
          <6>3. CASE ~(i <= k)
            BY <5>3, <6>1, <6>3
          <6> QED  BY <6>2, <6>3
        <5>5. ASSUME NEW a \in A \cup B PROVE a \in C
          <6>1. CASE a \in A
            <7>1. PICK i \in 2..k : a = zf[i] /\ a # NoSolid
              BY <6>1
            <7>2. a = z[i] /\ i \in 2..n
              BY <5>1, <7>1
            <7> QED  BY <7>1, <7>2
          <6>2. CASE a \in B
            <7>1. PICK i \in 2..m : a = y[i] /\ a # NoSolid
              BY <6>2
            <7>2. a = z[i + k - 1] /\ i + k - 1 \in 2..n
              BY <5>2, <7>1
            <7> QED  BY <7>1, <7>2
          <6> QED  BY <6>1, <6>2
        <5> HIDE DEF A, B, C
        <5> QED  BY <5>4, <5>5
      <4> HIDE DEF A, B, C
      <4>6. CASE z[1] = NoSolid
        BY <3>2, <4>2, <4>3, <4>4, <4>6
      <4>7. CASE z[1] # NoSolid
        <5>1. v = z[1] \ UNION A
          BY <4>2, <4>7
        <5>2. v # NoSolid
          <6>1. z[1] \in SUBSET SUBSET Operand
            BY <4>1, <4>7 DEF SolidSet
          <6>2. v \in SUBSET SUBSET Operand
            BY <5>1, <6>1
          <6> QED  BY <6>2, NotNoSolid
        <5>3. v \ UNION B = z[1] \ UNION C
          BY <4>5, <5>1
        <5> QED  BY <3>2, <4>3, <4>4, <4>7, <5>2, <5>3
      <4> QED  BY <4>6, <4>7
    <3> QED  BY <3>1, <3>2
  <2>14. Grouped(op, z, fold)
    BY <2>12, <2>13 DEF Grouped
  <2> QED  BY <2>1, <2>7, <2>9, <2>14 DEF n
<1> QED  BY <1>2, <1>3

\* So that the call it ends with denotes what the call denoted.
LEMMA SplitDenotes ==
    ASSUME NEW c, NEW x, Standing(c.args, x), NEW val, Comes(c.op, Len(c.args), x, val),
           \A i \in 1..Len(c.args) : Kind(c.args[i]) # "array",
           IsCommutative(c.op) => c.op # "difference",
           NEW k \in Nat, k >= 2, Len(c.args) >= 1
    PROVE  Denotes(Split(c, k), val)
<1> DEFINE n == Len(c.args)
           y == Each(n, x)
           op == c.op
           Ok(s, d) == Grouped(op, y, s) /\ Len(s) >= 1 /\ (Len(s) = 1 \/ Len(s) + d <= n)
<1>1. Ones(c.args, y)
  BY OnesOf
<1>2. n \in Nat /\ n >= 1 /\ val = <<Combined(op, y)>>
  BY DEF Standing, Comes
<1>3. PICK round : /\ round[0] = c.args
                   /\ \A d \in 1..n : round[d] = Round(c, k, round[d - 1])
                   /\ Split(c, k) = round[n][1]
  BY <1>2, RoundsExist
<1> HIDE DEF y
<1>4. Ok(round[0], 0)
  <2>1. Grouped(op, y, c.args)
    BY <1>1 DEF Grouped
  <2> QED  BY <1>2, <1>3, <2>1
<1> DEFINE bad == {d \in 0..n : ~Ok(round[d], d)}
<1>5. ASSUME NEW d \in 1..n, NEW s, Ok(s, d - 1) PROVE Ok(Round(c, k, s), d)
  <2>1. PICK z : Ones(s, z) /\ Combined(op, z) = Combined(op, y)
    BY <1>5 DEF Grouped
  <2>2. Len(s) \in Nat /\ Len(s) >= 1
    BY <1>5, <2>1 DEF Ones
  <2>3. CASE Len(s) = 1
    <3>1. Round(c, k, s) = s
      BY <2>3 DEF Round
    <3> QED  BY <1>5, <2>3, <3>1
  <2>4. CASE Len(s) # 1
    <3> DEFINE r == Round(c, k, s)
    <3>1. Len(s) >= 2
      <4> DEFINE l == Len(s)
      <4>1. l \in Nat /\ l >= 1 /\ l # 1
        BY <2>2, <2>4
      <4> HIDE DEF l
      <4>2. l >= 2
        BY <4>1
      <4> QED  BY <4>2 DEF l
    <3>2. Grouped(op, z, r) /\ Len(r) >= 1 /\ Len(r) < Len(s)
      <4>1. CASE IsCommutative(op)
        <5>1. op # "difference" /\ r = KTree(c, k, s)
          BY <2>4, <4>1 DEF Round
        <5> HIDE DEF r
        <5> QED  BY <2>1, <2>2, <3>1, <5>1, KTreeGrouped
      <4>2. CASE ~IsCommutative(op)
        <5>1. r = KLeftFold(c, k, s)
          BY <2>4, <4>2 DEF Round
        <5> HIDE DEF r
        <5> QED  BY <2>1, <2>2, <3>1, <5>1, KLeftFoldGrouped
      <4> QED  BY <4>1, <4>2
    <3> HIDE DEF r
    <3>3. Grouped(op, y, r) /\ Len(r) \in Nat
      BY <2>1, <3>2 DEF Grouped, Ones
    <3>4. Len(r) + d <= n
      BY <1>2, <1>5, <2>2, <2>4, <3>2, <3>3
    <3> QED  BY <3>2, <3>3, <3>4 DEF r
  <2> QED  BY <2>3, <2>4
<1>6. \A d \in 0..n : Ok(round[d], d)
  <2> SUFFICES ASSUME bad # {} PROVE FALSE
    OBVIOUS
  <2>1. bad \subseteq Nat
    BY <1>2
  <2>2. PICK d \in bad : \A b \in bad : ~(b < d)
    <3> HIDE DEF bad
    <3> QED  BY <2>1, NatMin
  <2> HIDE DEF Ok
  <2>3. d \in 0..n /\ ~Ok(round[d], d)
    OBVIOUS
  <2>4. d # 0
    BY <1>4, <2>3
  <2>5. d \in 1..n /\ d - 1 < d /\ d - 1 \in 0..n
    BY <1>2, <2>3, <2>4
  <2>6. Ok(round[d - 1], d - 1)
    BY <2>2, <2>5
  <2>7. round[d] = Round(c, k, round[d - 1])
    BY <1>3, <2>5
  <2>8. Ok(Round(c, k, round[d - 1]), d)
    BY <1>5, <2>5, <2>6
  <2> QED  BY <2>3, <2>7, <2>8
<1> DEFINE s == round[n]
<1>7. Ok(s, n)
  <2>1. n \in 0..n
    BY <1>2
  <2> HIDE DEF Ok
  <2> QED  BY <1>6, <2>1
<1> HIDE DEF s
<1>8. PICK z : Ones(s, z) /\ Combined(op, z) = Combined(op, y)
  BY <1>7 DEF Grouped
<1>9. Len(s) = 1
  <2>1. Len(s) \in Nat
    BY <1>8 DEF Ones
  <2> QED  BY <1>2, <1>7, <2>1
<1>10. z \in [1..1 -> SolidSet] /\ Denotes(s[1], <<z[1]>>)
  BY <1>8, <1>9 DEF Ones
<1> DEFINE v == z[1]
<1>11. z = <<v>> /\ v \in SolidSet
  BY <1>10
<1> HIDE DEF v
<1>12. Combined(op, z) = v
  BY <1>11, CombinedOne
<1>13. val = <<v>> /\ Denotes(s[1], <<v>>)
  BY <1>2, <1>8, <1>10, <1>12 DEF v
<1>14. Split(c, k) = s[1]
  BY <1>3 DEF s
<1> QED  BY <1>13, <1>14

-----------------------------------------------------------------------------
(* What becomes of a call denotes what the call denoted.                   *)

\* What takes the place of a call must denote what the call denotes, whatever that is.
Stands(whole, new) == \A val : Denotes(whole, val) => Denotes(new, val)

\* The program denotes what was written.
Kept == Denotes(program, Meaning(written))

LEMMA StandsKept ==
    ASSUME IInv, Kept, NEW n \in ReadyNodes, NEW new, Stands(Sub(program, n.at), new),
           program' = Put(program, n.at, new), written' = written
    PROVE  Kept'
<1>1. PICK f : Values(program, f) /\ f[<<>>] = Meaning(written)
  BY DEF Kept, Denotes
<1>2. Tree(program)
  BY DEF Kept, Denotes
<1>3. n.at \in Seq(Nat) /\ n.at \in Places(program)
  BY AgentHandled DEF ReadyNodes, Places
<1>4. Denotes(Sub(program, n.at), f[n.at])
  BY <1>1, <1>2, <1>3, DenotesSub
<1>5. Denotes(new, f[n.at])
  BY <1>4 DEF Stands
<1>6. Denotes(Put(program, n.at, new), f[<<>>])
  BY <1>1, <1>2, <1>3, <1>5, DenotesPut
<1>7. Denotes(program', Meaning(written'))
  BY <1>1, <1>6
<1> QED  BY <1>7 DEF Kept

\* The call of an agent is the one at its place.
LEMMA AgentOfWhole ==
    ASSUME IInv, Kept, NEW n \in ReadyNodes
    PROVE  Top(Sub(program, n.at)) = n.is /\ n.is.kind = "call"
<1> DEFINE p == n.at
           x == n.is
<1>1. Tree(program) /\ n \in program /\ n = Node(p, x) /\ x.kind = "call"
  BY DEF Kept, Denotes, ReadyNodes, Tree, Shaped
<1>2. p \in Seq(Nat) /\ p \in Places(program)
  BY AgentHandled DEF ReadyNodes, Places
<1> HIDE DEF p, x
<1>3. Node(p, x) \in program /\ Node(p, At(program, p)) \in program
  BY <1>1, <1>2, NodeAt
<1>4. At(program, p) = x
  BY <1>1, <1>2, <1>3 DEF Tree
<1> QED  BY <1>1, <1>4 DEF At, p, x

\* An error stands for any call.
LEMMA FailedStands ==
    ASSUME NEW whole, Kind(whole) = "call"
    PROVE  Stands(whole, Failed)
<1> SUFFICES ASSUME NEW val, Denotes(whole, val) PROVE Denotes(Failed, val)
  BY DEF Stands
<1>1. val \in Seq(SolidSet) /\ Len(val) = 1
  BY DenotedSolids
<1>2. val[1] \in SolidSet /\ val = <<val[1]>>
  BY <1>1, OneOfOne
<1> DEFINE y == val[1]
<1>3. y \in SolidSet /\ val = <<y>>
  BY <1>2
<1> HIDE DEF y
<1> QED  BY <1>3, DenotesFailed

\* What a call becomes stands for it if it denotes what the operation comes to.
LEMMA StandsForCall ==
    ASSUME NEW whole, Kind(whole) = "call", NEW c, c = Agent(Top(whole), ArgsOf(whole)),
           ~RefusesArgs(c), NEW new,
           \A x, val : Standing(c.args, x) /\ Comes(c.op, Len(c.args), x, val) => Denotes(new, val)
    PROVE  Stands(whole, new)
<1> SUFFICES ASSUME NEW val, Denotes(whole, val) PROVE Denotes(new, val)
  BY DEF Stands
<1>1. PICK x : Standing(c.args, x) /\ Comes(c.op, Len(c.args), x, val)
  BY AgentDenotes
<1> QED  BY <1>1

\* A difference is not split as if its operands had no order.
LEMMA DifferenceKeepsOrder ==
    ASSUME Honest, NEW op, IsCommutative(op)
    PROVE  op # "difference"
<1>1. PICK row \in AllRows(op) : row.commutative
  BY DEF IsCommutative
<1>2. PICK m \in Module : row \in ToSet(Descriptor[m].rows) /\ row.op = op
  BY DEF AllRows
<1> QED  BY <1>1, <1>2 DEF Honest

\* Each way in which ACT_START goes on keeps what the program denotes.
LEMMA CallStartsKept ==
    ASSUME Honest, IInv, Kept, CallStarts
    PROVE  Kept'
<1>1. PICK n \in ReadyNodes :
        LET r == [at |-> n.at, call |-> Agent(n.is, ArgsOf(Sub(program, n.at)))]
        IN  \/ Propagate(r) \/ RefuseArgs(r) \/ FoldEmpty(r) \/ Decompose(r)
            \/ UsePseudo(r) \/ Route(r) \/ Refuse(r)
  BY DEF CallStarts, ReadyCalls
<1> DEFINE whole == Sub(program, n.at)
           c == Agent(n.is, ArgsOf(whole))
           r == [at |-> n.at, call |-> c]
           Answer(x, val) == Standing(c.args, x) /\ Comes(c.op, Len(c.args), x, val)
<1>2. r.at = n.at /\ r.call = c
  OBVIOUS
<1>3. \A new : Becomes(r, new) /\ Stands(whole, new) => Kept'
  BY <1>2, StandsKept DEF Becomes
<1>4. \/ Propagate(r) \/ RefuseArgs(r) \/ FoldEmpty(r) \/ Decompose(r)
      \/ UsePseudo(r) \/ Route(r) \/ Refuse(r)
  BY <1>1
<1>5. Top(whole) = n.is /\ Kind(whole) = "call"
  BY AgentOfWhole DEF Kind
<1>6. c = Agent(Top(whole), ArgsOf(whole))
  BY <1>5
<1> HIDE DEF r, c, whole
<1>7. Stands(whole, Failed)
  BY <1>5, FailedStands
<1>8. ASSUME Sound(r), NEW new, \A x, val : Answer(x, val) => Denotes(new, val)
      PROVE  Stands(whole, new)
  <2>1. ~RefusesArgs(c)
    BY <1>2, <1>8 DEF Sound
  <2> QED  BY <1>5, <1>6, <1>8, <2>1, StandsForCall
<1>9. CASE Propagate(r) \/ RefuseArgs(r) \/ Refuse(r)
  BY <1>3, <1>7, <1>9 DEF Propagate, RefuseArgs, Refuse
<1>10. CASE FoldEmpty(r)
  <2>1. Sound(r) /\ ~RefusesArgs(c) /\ FoldsEmpty(c) /\ Becomes(r, Folded(c))
    BY <1>2, <1>10 DEF FoldEmpty, Sound
  <2>2. \A x, val : Answer(x, val) => Denotes(Folded(c), val)
    BY <2>1, FoldedDenotes
  <2> HIDE DEF Answer
  <2>3. Stands(whole, Folded(c))
    BY <1>8, <2>1, <2>2
  <2> QED  BY <1>3, <2>1, <2>3
<1>11. CASE Decompose(r)
  <2>1. PICK k \in GroupSizes(c) : Becomes(r, Split(c, k))
    BY <1>2, <1>11 DEF Decompose
  <2>2. Sound(r)
    BY <1>11 DEF Decompose, Whole
  <2>3. k \in 2..Len(c.args) /\ \A a \in ToSet(c.args) : IsMesh(a)
    BY DEF GroupSizes
  <2>4. IsCommutative(c.op) => c.op # "difference"
    BY DifferenceKeepsOrder
  <2>5. ASSUME NEW x, NEW val, Answer(x, val) PROVE Denotes(Split(c, k), val)
    <3>1. Len(c.args) \in Nat /\ DOMAIN c.args = 1..Len(c.args)
      BY <2>5 DEF Standing
    <3>2. k \in Nat /\ k >= 2 /\ Len(c.args) >= 1
      BY <2>3, <3>1
    <3>3. \A i \in 1..Len(c.args) : Kind(c.args[i]) # "array"
      BY <2>3, <3>1 DEF ToSet, IsMesh, TypeOf
    <3> QED  BY <2>4, <2>5, <3>2, <3>3, SplitDenotes
  <2> HIDE DEF Answer
  <2>6. Stands(whole, Split(c, k))
    BY <1>8, <2>2, <2>5
  <2> QED  BY <1>3, <2>1, <2>6
<1>12. CASE UsePseudo(r)
  <2>1. PICK row \in PseudoRows(c) : Becomes(r, Applied(c, row))
    BY <1>2, <1>12 DEF UsePseudo
  <2>2. Sound(r)
    BY <1>12 DEF UsePseudo, Single, Whole
  <2>3. PICK i \in Answering(c) :
           /\ c.list.elems[i] < 0
           /\ row \in {Pseudo[-c.list.elems[i]][j] : j \in FirstOf(Answers(-c.list.elems[i], c))}
    BY DEF PseudoRows, FirstOf
  <2> DEFINE p == -c.list.elems[i]
  <2>4. p \in DOMAIN Pseudo
    BY <2>3 DEF Answering
  <2>5. PICK j \in Answers(p, c) : row = Pseudo[p][j]
    BY <2>3 DEF FirstOf
  <2> HIDE DEF p
  <2>6. j \in DOMAIN Pseudo[p] /\ row.op = c.op
    BY <2>5 DEF Answers
  <2>7. \A op \in Special : c.op = op <=> row.body.op = op
    BY <2>4, <2>5, <2>6 DEF Honest, Special
  <2>8. \A x, val : Answer(x, val) => Denotes(Applied(c, row), val)
    BY <2>7, AppliedDenotes
  <2> HIDE DEF Answer
  <2>9. Stands(whole, Applied(c, row))
    BY <1>8, <2>2, <2>8
  <2> QED  BY <1>3, <2>1, <2>9
<1>13. CASE Route(r)
  <2>1. PICK hit \in Accepting(c) : Becomes(r, Running(c, hit))
    BY <1>2, <1>13 DEF Route
  <2>2. Sound(r)
    BY <1>13 DEF Route, ForModule, Single, Whole
  <2>3. \A x, val : Answer(x, val) => Denotes(Running(c, hit), val)
    BY RunningDenotes
  <2> HIDE DEF Answer
  <2>4. Stands(whole, Running(c, hit))
    BY <1>8, <2>2, <2>3
  <2> QED  BY <1>3, <2>1, <2>4
<1> QED  BY <1>4, <1>9, <1>10, <1>11, <1>12, <1>13

(* If what the rows and the pseudo modules say of themselves is so, what   *)
(* runs in the end computes what was written, however the calls were       *)
(* folded, split into groups and handed over to pseudo modules, in         *)
(* whatever order and with whatever group sizes (try_shortcircuit,         *)
(* build_ktree, build_kleftfold, try_pseudo_module).                       *)
THEOREM ComputesWhatIsWritten ==
    ASSUME Honest
    PROVE  Spec => []MeaningKept
<1>1. Init => Kept
  <2> SUFFICES ASSUME Init PROVE Kept
    OBVIOUS
  <2>1. Tree(written) /\ program = written
    BY ProgramsAssumption, WrittenTree DEF Init
  <2> QED  BY <2>1, MeaningDenoted DEF Kept
<1>2. Kept /\ IInv /\ [Next]_vars => Kept'
  <2> SUFFICES ASSUME Kept, IInv, [Next]_vars PROVE Kept'
    OBVIOUS
  <2>1. CASE CallStarts
    BY <2>1, CallStartsKept
  <2>2. ASSUME NEW m \in Module, NEW k \in 2..MaxArity, SetArity(m, k) PROVE Kept'
    <3>1. written' = written /\ program' = program
      BY <2>2 DEF SetArity
    <3>2. Denotes(program', Meaning(written'))
      BY <3>1 DEF Kept
    <3> QED  BY <3>2 DEF Kept
  <2>3. CASE UNCHANGED vars
    <3>1. written' = written /\ program' = program
      BY <2>3 DEF vars
    <3>2. Denotes(program', Meaning(written'))
      BY <3>1 DEF Kept
    <3> QED  BY <3>2 DEF Kept
  <2> QED  BY <2>1, <2>2, <2>3 DEF Next
<1>3. Kept => MeaningKept
  <2> SUFFICES ASSUME Kept, ~Has(program, "error") PROVE Meaning(program) = Meaning(written)
    BY DEF MeaningKept
  <2>1. Denotes(program, Meaning(written))
    BY DEF Kept
  <2> QED  BY <2>1, DenotedMeaning
<1> QED  BY <1>1, <1>2, <1>3, Invariance, PTL DEF Spec
=============================================================================
