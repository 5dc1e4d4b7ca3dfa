----------------------------- MODULE MCDatalog -----------------------------
(* Small programs for Datalog: a graph of two nodes with every set of edges,  *)
(* and rules over it in several orders.                                      *)
EXTENDS Datalog

Nodes == {"a", "b"}
Relations == {"edge", "node", "path", "loop", "far", "apart", "sink", "bad", "good"}

X == Var("X")
Y == Var("Y")
Z == Var("Z")
A == Const("a")

Edge == Rule("path", <<X, Y>>, <<Atom("edge", <<X, Y>>)>>)
StepRight == Rule("path", <<X, Z>>, <<Atom("path", <<X, Y>>), Atom("edge", <<Y, Z>>)>>)
Twice == Rule("path", <<X, Z>>, <<Atom("path", <<X, Y>>), Atom("path", <<Y, Z>>)>>)
Loop == Rule("loop", <<X>>, <<Atom("path", <<X, X>>)>>)
FromA == Rule("far", <<Y, A>>, <<Atom("path", <<A, Y>>)>>)
Apart2 == Rule("apart", <<X, Y>>, <<Atom("path", <<X, Y>>), Neq(X, Y)>>)
Sink == Rule("sink", <<X>>, <<Atom("node", <<X>>), Not("edge", <<X, A>>)>>)

EdgeFacts == {SetToSeq(E) : E \in SUBSET ({"edge"} \X (Nodes \X Nodes))}
Facts == {e \o <<<<"node", <<"a">>>>, <<"node", <<"b">>>>>> : e \in EdgeFacts}
Orders == {<<Edge, StepRight, Loop>>, <<Loop, StepRight, Edge>>,
           <<FromA, Twice, Edge>>, <<Apart2, Edge, Twice>>,
           <<Sink, Twice, FromA, Edge>>}
Queries == {[name |-> "path", args |-> <<"a", "">>], [name |-> "path", args |-> <<"", "">>],
            [name |-> "loop", args |-> <<"">>], [name |-> "far", args |-> <<"", "a">>]}
\* A program with nothing to evaluate.
Idle == [facts |-> <<>>, rules |-> <<>>, query |-> [name |-> "path", args |-> <<"", "">>]]
Evaluated1 == [facts : Facts, rules : Orders, query : Queries] \cup {Idle}
\* TLC evaluates Evaluated1 once, and what a .cfg substitutes at every use.
Programs1 == Evaluated1

\* A node is good unless it is bad, and bad when it has an edge to itself.
Good == Rule("good", <<X>>, <<Atom("node", <<X>>), Not("bad", <<X>>)>>)
Bad == Rule("bad", <<X>>, <<Atom("edge", <<X, X>>)>>)
NegationPrograms == [facts : Facts, rules : {<<Good, Bad>>},
                     query : {[name |-> "good", args |-> <<"">>]}]

\* The programs are ones the theorems are about, but for the negation of bad.
ASSUME MCPrograms ==
  /\ \A p \in Programs1 : IsProgram(p) /\ NegatesFactsOnly(p)
  /\ \A p \in NegationPrograms : IsProgram(p) /\ ~NegatesFactsOnly(p)
=============================================================================
