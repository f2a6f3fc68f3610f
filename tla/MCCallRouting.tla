---------------------------- MODULE MCCallRouting ----------------------------
(***************************************************************************)
(* Instances of CallRouting for TLC: the rows of cgal, manifold, geogram   *)
(* and nef for the Boolean operations, loft_ruled and volume.              *)
(***************************************************************************)
EXTENDS CallRouting

Many == 99
Fold(main, others, most, out) ==
    [kind |-> "fold", fixed |-> <<>>, main |-> main, set |-> {main} \cup others,
     most |-> most, split |-> TRUE, array |-> FALSE, out |-> out]
Fixed(types, out) ==
    [kind |-> "fixed", fixed |-> types, main |-> out, set |-> {}, most |-> 0,
     split |-> FALSE, array |-> FALSE, out |-> out]
Repeat(types, out) ==
    [Fixed(<<>>, out) EXCEPT !.kind = "repeat", !.set = types, !.array = TRUE]

Row(op, in, variadic, commutative, sig) ==
    [op |-> op, in |-> in, nreq |-> 0, variadic |-> variadic, tail |-> "mesh",
     commutative |-> commutative, sig |-> sig]
Meshes(n) == [i \in 1..n |-> "mesh"]
Solids(variadic, line) ==
    <<Row("union", Meshes(2), variadic, TRUE, <<line>>),
      Row("intersection", Meshes(2), variadic, TRUE, <<line>>),
      Row("difference", Meshes(2), variadic, FALSE, <<line>>)>>

Cgal == 1
Manifold == 2
Geogram == 3
Nef == 4
Unloaded == 5

MCDescriptor ==
    <<[priority |-> 20, arity |-> 2, rows |->
         Solids(FALSE, Fold("cg", {"mf", "gg"}, 2, "cg"))
         \o <<Row("volume", Meshes(1), FALSE, FALSE, <<Fixed(<<"cg">>, "value")>>),
              Row("loft_ruled", <<>>, TRUE, FALSE, <<Repeat({"c2"}, "cg")>>),
              Row("offset", <<"mesh", "value">>, FALSE, FALSE,
                  <<Fixed(<<"c2">>, "c2"), Fixed(<<"cg">>, "cg")>>)>>],
      [priority |-> 10, arity |-> 2, rows |->
         Solids(TRUE, Fold("mf", {"gg"}, Many, "mf"))
         \o <<Row("volume", Meshes(1), FALSE, FALSE, <<Fixed(<<"mf">>, "value")>>)>>],
      [priority |-> 6, arity |-> 2, rows |-> Solids(TRUE, Fold("gg", {"mf"}, 3, "gg"))],
      [priority |-> 5, arity |-> 2, rows |-> Solids(TRUE, Fold("nf", {"cg", "mf", "gg"}, Many, "nf"))]>>

\* A pseudo module for three operands and one for any number; they hand over to named modules.
List(elems) == [given |-> TRUE, elems |-> elems]
PseudoRow(op, in, variadic, body, site) ==
    [op |-> op, in |-> in, nreq |-> Len(in), variadic |-> variadic, tail |-> "mesh",
     holds |-> TRUE, broken |-> FALSE, sig |-> <<>>,
     body |-> [op |-> op, list |-> List(<<body>>), site |-> site]]
MCPseudo ==
    <<<<[PseudoRow("union", Meshes(2), FALSE, Geogram, -1) EXCEPT !.holds = FALSE],
        PseudoRow("union", Meshes(2), FALSE, Geogram, -1),
        PseudoRow("difference", <<"mesh", "test">>, FALSE, Nef, -2),
        PseudoRow("loft_ruled", <<"mesh">>, TRUE, Cgal, -3)>>,
      <<[PseudoRow("intersection", Meshes(2), FALSE, Cgal, -4) EXCEPT !.broken = TRUE]>>>>

Mesh(i, type) == Leaf([kind |-> "mesh", id |-> i, type |-> type])
\* The operands of a call: their types in turn, some of them replaced by {}.
OperandsOf(types, n, gone) ==
    [i \in 1..n |-> IF i \in gone THEN Empty ELSE Mesh(i, types[((i - 1) % Len(types)) + 1])]

TypePatterns == {<<"mf">>, <<"mf", "gg">>, <<"mf", "mf", "nf">>, <<"cg", "mf">>, <<"c2", "mf">>}
SomeLists ==
    {NotGiven, List(<<Geogram>>), List(<<0, Unloaded, Nef, Manifold>>), List(<<-1, Manifold>>)}

Flat(ops, most, lists) ==
    {Call(op, OperandsOf(types, n, gone), list, 1) :
        op \in ops, types \in TypePatterns, n \in 1..most, gone \in SUBSET (1..most),
        list \in lists}
FlatPrograms == Flat({"union", "intersection", "difference"}, 4, SomeLists)

Mf(i) == Mesh(i, "mf")
OtherPrograms ==
    {Call("difference",
          <<Call("union", <<Mf(1), Empty, Mf(2)>>, list, 2),
            Call("difference", <<Empty, Mf(6)>>, NotGiven, 3),
            Call("intersection", <<Mf(3), Mf(4), Mesh(5, "gg")>>, NotGiven, 4)>>, NotGiven, 1)
        : list \in SomeLists}
    \cup {Call("union", <<Mf(1), Call("difference", <<Empty, Mf(6)>>, NotGiven, 2), Mf(3)>>,
               list, 1) : list \in SomeLists}
    \cup {Call("loft_ruled", args, list, 1) :
            args \in {<<Mesh(1, "c2"), Mesh(2, "c2"), Mesh(3, "c2")>>,
                      <<Array(<<Mesh(1, "c2"), Mesh(2, "c2")>>)>>, <<Array(<<>>)>>},
            list \in {NotGiven, List(<<-1>>), List(<<>>)}}
    \cup {Call("volume", <<a>>, NotGiven, 1) :
            a \in {Empty, Mf(1), Mesh(1, "gg"), Array(<<Mf(1)>>),
                   Call("union", <<Mf(1), Mf(2), Mf(3)>>, List(<<Manifold>>), 2)}}
    \cup {Call("export", <<Value, Empty>>, NotGiven, 1),
          Call("offset", <<Mesh(1, "cg"), Value>>, NotGiven, 1),
          Call("offset", <<Value, Mesh(1, "cg")>>, NotGiven, 1),
          Call("union", <<Mf(1), Value, Mf(2)>>, NotGiven, 1),
          Call("intersection", <<Mf(1), Mf(2)>>, List(<<-2, Manifold>>), 1)}

MCPrograms == FlatPrograms \cup OtherPrograms
MCUseLists == {NotGiven, List(<<Nef, Manifold, Cgal>>)}

ASSUME InstanceIsHonest == Honest
=============================================================================
