----------------------------- MODULE RewriteSpec -----------------------------
(***************************************************************************)
(* The abstract specification of rewrite(term, sigma): in one step the     *)
(* result goes from None to the normal form RefNF(input).                  *)
(***************************************************************************)
EXTENDS RewriteRef

VARIABLES input, result
vars == <<input, result>>

Init == input \in Inputs /\ result = None

Rewrite == result = None /\ result' = RefNF(input) /\ UNCHANGED input

Spec == Init /\ [][Rewrite]_vars /\ WF_vars(Rewrite)

(***************************************************************************)
(* Rewrite is enabled exactly until it is taken, so WF_vars(Rewrite) says  *)
(* no more than that a result eventually appears.  CheckedSpec states it   *)
(* that way, which spares TLC evaluating ENABLED over the recursive RefNF. *)
(***************************************************************************)
CheckedSpec == Init /\ [][Rewrite]_vars /\ <>(result # None)
=============================================================================
