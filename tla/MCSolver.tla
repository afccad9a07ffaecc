------------------------------ MODULE MCSolver ------------------------------
(***************************************************************************)
(* Model of the mcrl2xi solver: a specification that parses and one that  *)
(* does not; an expression with two solutions, one with none, and one     *)
(* that is not of the shape 'x:T.b'.                                       *)
(***************************************************************************)
EXTENDS Solver, TLC

CONSTANTS sOk, sBad, eTwo, eNone, eBad

MCSpecs == {sOk, sBad}
MCExprs == {eTwo, eNone, eBad}
MCParses == {sOk}
MCWellFormed == {eTwo, eNone}
MCSolutions == (eTwo :> 2) @@ (eNone :> 0) @@ (eBad :> 0)

=============================================================================
