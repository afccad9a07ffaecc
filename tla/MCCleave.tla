------------------------------ MODULE MCCleave ------------------------------
(* An LPS with the parameters x and w and a summation variable e, all     *)
(* over {0, 1}.  The expressions are the variables, the constant 0 and    *)
(* three conditions; the pool holds every summand built from them: any   *)
(* condition, tau or a(d) for a data expression d, and any data          *)
(* expression assigned to x and to w.                                     *)
EXTENDS Cleave

CONSTANTS tau, intern, noact

DataExprs == {"x", "w", "e", "0"}
CondExprs == {"true", "w==0", "x==w"}

MCExprs == DataExprs \cup CondExprs

MCFV == [ex \in DataExprs \cup CondExprs |->
           CASE ex \in {"x", "w", "e"} -> {ex}
             [] ex = "w==0"            -> {"w"}
             [] ex = "x==w"            -> {"x", "w"}
             [] OTHER                  -> {}]

MCEval(ex, u) ==
  CASE ex \in {"x", "w", "e"} -> u[ex]
    [] ex = "0"               -> 0
    [] ex = "true"            -> TRUE
    [] ex = "w==0"            -> u["w"] = 0
    [] ex = "x==w"            -> u["x"] = u["w"]

MCPool == [cond : CondExprs, act : {tau} \cup DataExprs,
           asg : [{"x", "w"} -> DataExprs]]
=============================================================================
