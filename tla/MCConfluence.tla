---------------------------- MODULE MCConfluence ----------------------------
(* A linear process with two Boolean parameters x and y, summation         *)
(* variables over {0, 1}, and a pool of five summands; every subsequence   *)
(* of the pool is an input LPS.                                            *)
EXTENDS Confluence

CONSTANTS tau, ctau, none

MCStates == [x : 0 .. 1, y : 0 .. 1]
MCE == 0 .. 1

(* tau . (x == 0) -> P(x = 1)                                               *)
T1 == [var |-> none, act |-> tau,
       cond |-> [p \in MCStates \X MCE |-> p[1].x = 0],
       arg  |-> [p \in MCStates \X MCE |-> 0],
       next |-> [p \in MCStates \X MCE |-> [p[1] EXCEPT !.x = 1]]]
(* sum e . tau . P(y = e)                                                   *)
T2 == [var |-> "e", act |-> tau,
       cond |-> [p \in MCStates \X MCE |-> TRUE],
       arg  |-> [p \in MCStates \X MCE |-> 0],
       next |-> [p \in MCStates \X MCE |-> [p[1] EXCEPT !.y = p[2]]]]
(* a(y) . P()                                                               *)
A == [var |-> none, act |-> "a",
      cond |-> [p \in MCStates \X MCE |-> TRUE],
      arg  |-> [p \in MCStates \X MCE |-> p[1].y],
      next |-> [p \in MCStates \X MCE |-> p[1]]]
(* b(x) . P()                                                               *)
B == [A EXCEPT !.act = "b", !.arg = [p \in MCStates \X MCE |-> p[1].x]]
(* sum f . (y == f) -> c(f) . P()                                           *)
C == [var |-> "f", act |-> "c",
      cond |-> [p \in MCStates \X MCE |-> p[1].y = p[2]],
      arg  |-> [p \in MCStates \X MCE |-> p[2]],
      next |-> [p \in MCStates \X MCE |-> p[1]]]
(* The same summand with its variable named e, as in T2.                    *)
CShared == [C EXCEPT !.var = "e"]

(* sum e . (y == 0) -> tau . P(x = e, y = 1): paired with itself.          *)
T3 == [var |-> "e", act |-> tau,
       cond |-> [p \in MCStates \X MCE |-> p[1].y = 0],
       arg  |-> [p \in MCStates \X MCE |-> 0],
       next |-> [p \in MCStates \X MCE |-> [x |-> p[2], y |-> 1]]]

MCPool == <<T1, T2, A, B, C>>
MCPoolShared == <<T1, T2, A, B, CShared, T3>>
=============================================================================
