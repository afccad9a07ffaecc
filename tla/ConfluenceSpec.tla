--------------------------- MODULE ConfluenceSpec ---------------------------
(***************************************************************************)
(* What confluence reduction promises (confluence_checker::run in          *)
(* src/libraries/lps/include/mcrl2/lps/confluence.h): in one step, some    *)
(* tau summands of the linear process, each of them confluent, get the     *)
(* action ctau, and nothing else of the process changes; and the step is   *)
(* taken.  Which confluent summands are renamed is left open: the          *)
(* rewriter may fail to prove a condition that holds.                      *)
(*                                                                         *)
(* A summand is a record of its action act and of its condition cond,      *)
(* action argument arg and next state next, functions of the state and of  *)
(* the value of its summation variable.                                    *)
(***************************************************************************)
EXTENDS Integers, Sequences

CONSTANTS
  States,   \* valuations of the process parameters
  E,        \* the domain of summation variables
  Tau,      \* the empty multi-action
  CTau      \* the ctau action

VARIABLES
  lps,      \* the action summands
  done      \* run() has returned

avars == <<lps, done>>

(* The transitions of an LPS L: a ctau summand keeps its steps as tau     *)
(* steps, labelled with the action and its argument.                       *)
ActOf(L, k) == IF L[k].act = CTau THEN Tau ELSE L[k].act
LabelOf(L, k, s, e) == <<ActOf(L, k), L[k].arg[s, e]>>
ReachIn(L, s, l) ==
  UNION {{L[k].next[s, e] : e \in {e \in E : L[k].cond[s, e] /\ LabelOf(L, k, s, e) = l}} :
           k \in DOMAIN L}

(***************************************************************************)
(* Tau summand t of L is confluent: for every tau step s -> s1 by t and    *)
(* every step s -l-> s2 of any summand, either both are tau steps to the   *)
(* same state, or s1 -l-> s2, or s1 -l-> s3 and s2 -> s3 by t for some s3. *)
(* Then giving t's steps priority loses no behaviour up to branching       *)
(* bisimulation.                                                           *)
(***************************************************************************)
SemConfluent(L, t) ==
  \A s \in States, et \in E, k \in DOMAIN L, ek \in E :
    L[t].cond[s, et] /\ L[k].cond[s, ek] =>
      LET s1 == L[t].next[s, et]
          s2 == L[k].next[s, ek]
          l  == LabelOf(L, k, s, ek)
      IN  \/ l[1] = Tau /\ s1 = s2
          \/ s2 \in ReachIn(L, s1, l)
          \/ \E s3 \in ReachIn(L, s1, l), e \in E :
               L[t].cond[s2, e] /\ L[t].next[s2, e] = s3

(* L with the summands of R given the action ctau. *)
Renamed(L, R) ==
  [k \in DOMAIN L |-> IF k \in R THEN [L[k] EXCEPT !.act = CTau] ELSE L[k]]

Init == done = FALSE

Run ==
  /\ ~done
  /\ done' = TRUE
  /\ \E R \in SUBSET {k \in DOMAIN lps : lps[k].act = Tau /\ SemConfluent(lps, k)} :
       lps' = Renamed(lps, R)

Spec == Init /\ [][Run]_avars /\ WF_avars(Run)
=============================================================================
