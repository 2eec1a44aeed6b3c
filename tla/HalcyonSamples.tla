----------------------------- MODULE HalcyonSamples -----------------------------
(* The Halcyon programs the other modules are run on: expressions as the    *)
(* parser builds them, written with one short name per kind of node.        *)
EXTENDS Integers, Sequences, FiniteSets, TLC

(* Nodes.                                                                   *)
I(n) == [k |-> "lit", v |-> [t |-> "int", n |-> n]]
B(b) == [k |-> "lit", v |-> [t |-> "bool", n |-> b]]
V(x) == [k |-> "var", x |-> x]
L(ps, b) == [k |-> "lambda", ps |-> ps, body |-> b]
A(f, a) == [k |-> "apply", f |-> f, a |-> a]
Let(x, b, e) == [k |-> "let", rec |-> FALSE, x |-> x, bound |-> b, body |-> e]
Rec(x, b, e) == [k |-> "let", rec |-> TRUE, x |-> x, bound |-> b, body |-> e]
If(c, a, b) == [k |-> "if", c |-> c, a |-> a, b |-> b]
Op(op, a, b) == [k |-> "bin", op |-> op, a |-> a, b |-> b]
Un(op, a) == [k |-> op, a |-> a]
Ls(es) == [k |-> "list", es |-> es]
C(c) == [k |-> "constr", c |-> c]
F(b) == [k |-> "builtin", c |-> b]
M(e, bs) == [k |-> "match", a |-> e, bs |-> bs]
PV(x) == [k |-> "pvar", x |-> x]
PC(h, r) == [k |-> "pcons", h |-> h, r |-> r]
PN == [k |-> "pnil"]
PW == [k |-> "pwild"]
PK(c, ps) == [k |-> "pconstr", c |-> c, ps |-> ps]
PL(ps) == [k |-> "plist", ps |-> ps]
PI(n) == [k |-> "plit", v |-> [t |-> "int", n |-> n]]

(* One program each for folding, failures, recursion in the tail and not,    *)
(* partial application, captures two functions deep, copies, nested and      *)
(* missing patterns, constructors as functions, builtins, polymorphism, a    *)
(* program without a type, and an operator on the value of a conditional.   *)
Sum == L(<<"l", "acc">>, M(V("l"), <<<<PN, V("acc")>>,
   <<PC(PV("h"), PV("r")), A(A(V("sum"), V("r")), Op("add", V("acc"), V("h")))>>>>))
Programs == [
 fold |-> Op("mul", Op("add", I(1), I(2)), Un("neg", I(4))),
 divz |-> Op("add", I(1), Op("div", I(4), I(0))),
 sum |-> Rec("sum", Sum, A(A(V("sum"), Ls(<<I(1), I(2), I(3)>>)), I(0))),
 fact |-> Rec("f", L(<<"n">>, If(Op("lt", V("n"), I(1)), I(1), Op("mul", V("n"), A(V("f"), Op("sub", V("n"), I(1)))))), A(V("f"), I(3))),
 curry |-> Let("add", L(<<"a", "b", "c">>, Op("sub", Op("sub", V("a"), V("b")), V("c"))),
   Let("g", A(V("add"), I(10)), Op("add", A(A(V("g"), I(1)), I(2)), A(A(V("g"), I(3)), I(4))))),
 deep |-> Let("w", I(7), Let("k", L(<<"x">>, L(<<"y">>, L(<<"z">>,
    Op("add", V("x"), Op("mul", V("y"), Op("add", V("w"), V("z"))))))), A(A(A(V("k"), I(2)), I(3)), I(4)))),
 copy |-> Let("a", I(7), Let("b", V("a"), Let("c", V("b"), Ls(<<V("c"), A(F("head"), Ls(<<I(1)>>))>>)))),
 tree |-> M(A(A(C("Node"), A(C("Leaf"), I(1))), A(C("Leaf"), I(2))), <<
    <<PK("Node", <<PK("Leaf", <<PI(2)>>), PW>>), I(0)>>,
    <<PK("Node", <<PK("Leaf", <<PV("l")>>), PK("Leaf", <<PV("r")>>)>>), Ls(<<V("r"), V("l")>>)>>>>),
 ctor |-> Let("mk", A(C("Node"), C("Nil")), Op("eq", A(V("mk"), C("Nil")), A(A(C("Node"), C("Nil")), C("Nil")))),
 miss |-> M(Ls(<<I(1)>>), <<<<PL(<<PV("a"), PV("b")>>), V("a")>>, <<PN, I(0)>>>>),
 bool |-> Un("not", Op("and", Op("ne", I(1), I(1)), B(1))),
 map |-> Rec("map", L(<<"f", "l">>, If(A(F("isNil"), V("l")), Ls(<<>>),
    A(A(F("cons"), A(V("f"), A(F("head"), V("l")))), A(A(V("map"), V("f")), A(F("tail"), V("l")))))),
    Let("d", I(3), A(A(V("map"), L(<<"e">>, Op("mul", V("e"), V("d")))), Ls(<<I(1), I(2)>>)))),
 poly |-> Let("id", L(<<"x">>, V("x")), If(A(V("id"), B(1)), A(V("id"), I(1)), I(2))),
 pair |-> Let("dup", L(<<"x">>, A(A(F("cons"), V("x")), Ls(<<V("x")>>))), A(F("isNil"), A(V("dup"), A(V("dup"), I(1))))),
 tl |-> A(F("head"), Ls(<<>>)),
 mono |-> A(L(<<"x">>, Let("y", V("x"), If(V("y"), I(1), I(2)))), I(3)),
 joint |-> Un("neg", If(B(1), I(1), I(2)))
]

Arity == [Node |-> 2, Leaf |-> 1, Nil |-> 0]
TV(n) == [k |-> "var", n |-> n]
TD == [k |-> "data", d |-> "Tree", ts |-> <<TV(0)>>]
Fn(a, b) == [k |-> "fun", a |-> a, b |-> b]
Sc(t) == [q |-> {0}, t |-> t]
Schemes == [Node |-> Sc(Fn(TD, Fn(TD, TD))), Leaf |-> Sc(Fn(TV(0), TD)), Nil |-> Sc(TD)]

----------------------------------------------------------------------------
(* Sources of the parser: every shape over every shape in one place, beside *)
(* a simple other expression.                                               *)
X == [k |-> "var", v |-> "x"]
UserOps ==
  ("++" :> [level |-> 7, assoc |-> "right"]) @@ ("<>" :> [level |-> 5, assoc |-> "left"])
  @@ ("~~" :> [level |-> 3, assoc |-> "non"])
Ap(f, a) == [k |-> "apply", a |-> f, b |-> a]
User(o, a, b) == Ap(Ap([k |-> "var", v |-> o], a), b)
Over(S, T) ==
  {[k |-> "bin", op |-> o, a |-> a, b |-> b] : o \in {"<", "+"}, a \in S, b \in T}
  \cup {User(o, a, b) : o \in DOMAIN UserOps, a \in S, b \in T}
  \cup {[k |-> "unary", op |-> o, a |-> a] : o \in {"-", "!"}, a \in S}
  \cup {Ap(a, b) : a \in S, b \in T}
  \cup {[k |-> "let", x |-> "y", a |-> a, b |-> b] : a \in S, b \in T}
  \cup {[k |-> "match", a |-> X, bs |-> <<<<"y", a>>, <<"z", b>>>>] : a \in S, b \in T}
  \cup {[k |-> "if", c |-> a, a |-> b, b |-> a] : a \in S, b \in T}
  \cup {[k |-> "lambda", ps |-> <<"y", "z">>, a |-> a] : a \in S}
  \cup {[k |-> "list", es |-> <<a, b>>] : a \in S, b \in T}
Shallow == {X} \cup Over({X}, {X})
Deep == Over(Shallow, {X}) \cup Over({X}, Shallow)
Sources == {[def |-> Ap(X, X), expr |-> x] : x \in Deep}
           \cup {[def |-> x, expr |-> X] : x \in Deep}

----------------------------------------------------------------------------
(* Imports: all graphs of three files and a main program, of which q is     *)
(* missing.                                                                 *)
Lists(S, n) == UNION {[1 .. m -> S] : m \in 0 .. n}
Graphs ==
  {("m" :> m) @@ ("a" :> a) @@ ("b" :> b) @@ ("p" :> p) :
     m \in Lists({"a", "b", "q"}, 2), a \in Lists({"a", "b"}, 2),
     b \in Lists({"a"}, 2), p \in {<<>>, <<"b">>, <<"a", "b">>}}
Defines == [a |-> "f", b |-> "g", p |-> "h", m |-> "g"]
================================================================================
