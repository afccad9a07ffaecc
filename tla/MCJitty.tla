------------------------------ MODULE MCJitty ------------------------------
(***************************************************************************)
(* A data specification for checking the jitty rewriter: Booleans, Peano   *)
(* numbers with equality and predecessor, a higher-order symbol f whose    *)
(* rule returns the function g, curried symbols h and q whose rules have   *)
(* different arities, constants with conditional zero-arity rules, and one *)
(* ill-formed equation that the rewriter must reject.                      *)
(***************************************************************************)
EXTENDS Jitty

S(f)        == Fs(f)
A1(h, u)    == App(h, <<u>>)
A2(h, u, w) == App(h, <<u, w>>)
x == Var("x")
y == Var("y")
z == S("z")
Succ(u) == A1(S("s"), u)

MCSortOf ==
  [f \in {"true", "false", "z", "one", "c", "d"} |-> <<>>] @@
  [f \in {"s", "p", "g", "bad", NFSymbol} |-> <<1>>] @@
  ("eq" :> <<2>>) @@ ("f" :> <<1, 1>>) @@ ("h" :> <<1, 1>>) @@ ("q" :> <<1, 1>>)

MCTrueTerm == S("true")

MCEquations ==
  << [lhs |-> A2(S("eq"), x, x),               cond |-> MCTrueTerm, rhs |-> S("true")],
     [lhs |-> A2(S("eq"), z, Succ(y)),         cond |-> MCTrueTerm, rhs |-> S("false")],
     [lhs |-> A2(S("eq"), Succ(x), z),         cond |-> MCTrueTerm, rhs |-> S("false")],
     [lhs |-> A2(S("eq"), Succ(x), Succ(y)),   cond |-> MCTrueTerm, rhs |-> A2(S("eq"), x, y)],
     [lhs |-> A1(S("p"), Succ(x)),             cond |-> MCTrueTerm, rhs |-> x],
     [lhs |-> A1(S("p"), x),                   cond |-> A2(S("eq"), x, z), rhs |-> z],
     [lhs |-> A1(S("f"), x),                   cond |-> MCTrueTerm, rhs |-> S("g")],
     [lhs |-> A1(S("g"), y),                   cond |-> MCTrueTerm, rhs |-> Succ(y)],
     [lhs |-> S("one"),                        cond |-> MCTrueTerm, rhs |-> Succ(z)],
     [lhs |-> S("c"),   cond |-> A2(S("eq"), S("one"), Succ(z)),      rhs |-> S("true")],
     [lhs |-> S("d"),   cond |-> A2(S("eq"), S("one"), z),            rhs |-> S("true")],
     [lhs |-> A1(S("h"), z),                   cond |-> MCTrueTerm, rhs |-> S("g")],
     [lhs |-> A1(A1(S("h"), Succ(x)), y),      cond |-> MCTrueTerm, rhs |-> x],
     [lhs |-> A1(S("q"), z),                   cond |-> A2(S("eq"), z, z), rhs |-> S("g")],
     [lhs |-> A1(A1(S("q"), Succ(x)), Succ(y)), cond |-> MCTrueTerm, rhs |-> y],
     [lhs |-> A1(S("bad"), x),                 cond |-> MCTrueTerm, rhs |-> y] >>

(* vx is bound to the function g, vy is unbound. *)
MCSigma == "vx" :> S("g")

MCInputs ==
  { A2(S("eq"), Succ(z), S("one")),
    A2(S("eq"), Succ(z), Succ(Succ(z))),
    A1(S("p"), Succ(S("one"))),
    A1(S("p"), A1(S("p"), z)),
    A1(A1(S("f"), z), Succ(z)),
    A1(S("f"), S("one")),
    A1(Var("vx"), S("one")),
    A1(Var("vy"), S("one")),
    A1(S("g"), A1(S("p"), Succ(z))),
    S("c"), S("d"), Var("vx"),
    A1(S("p"), Var("vy")),
    A1(S("h"), Succ(z)),
    A1(A1(S("h"), S("one")), z),
    A1(S("q"), S("one")),
    A1(A1(S("q"), z), Succ(z)),
    A1(A1(S("q"), Succ(z)), S("one")),
    A1(S("s"), A1(Var("vy"), S("g"))),
    A1(S("bad"), z) }
=============================================================================
