----------------------------- MODULE Confluence -----------------------------
(***************************************************************************)
(* Confluence reduction of a linear process                                *)
(* (src/libraries/lps/include/mcrl2/lps/confluence.h):                     *)
(* confluence_checker::run marks the tau summands whose confluence         *)
(* condition the rewriter proves to be a tautology, and renames their      *)
(* action to ctau.                                                         *)
(*                                                                         *)
(* A summand has at most one summation variable, named var (NoVar for      *)
(* none), ranging over E; its condition, action argument and next state    *)
(* are functions of the state and the value of that variable.  A           *)
(* condition built by square_confluence_condition and its siblings is a    *)
(* formula over the process parameters and the free summation variables:   *)
(* two summands whose variables have the same name share one free          *)
(* variable, which is how the code builds the formula (no renaming).       *)
(***************************************************************************)
EXTENDS Integers, Sequences, FiniteSets

CONSTANTS
  States,        \* valuations of the process parameters
  E,             \* the domain of summation variables
  Pool,          \* a sequence of summands the input LPS is taken from
  Tau,           \* the empty multi-action
  CTau,          \* the ctau action that run() gives confluent summands
  NoVar          \* the name of an absent summation variable

VARIABLES
  lps,           \* the action summands of the specification
  confluence_type,
  pc, i, j,
  result         \* the vector of confluent summand indices

vars == <<lps, confluence_type, pc, i, j, result>>

N == Len(lps)

Cond(k, s, e) == lps[k].cond[s, e]
Arg(k, s, e)  == lps[k].arg[s, e]
Next_(k, s, e) == lps[k].next[s, e]

(* confluence_summand::is_tau, lines 107-110.                              *)
IsTau(k) == lps[k].act = Tau

(* The values the free summation variables of a condition for (i, j) can  *)
(* take: one variable when both summands use the same name.                *)
Valuations(a, b) ==
  {v \in E \X E : lps[a].var = lps[b].var /\ lps[a].var # NoVar => v[1] = v[2]}

(* Mutant: the condition on the action arguments (fj = fj_gi) is left out.*)
SquareCondition_NoArgs(a, b, s, ea, eb) ==
  LET gi == Next_(a, s, ea)
      gj == Next_(b, s, eb)
  IN Cond(a, s, ea) /\ Cond(b, s, eb) =>
       /\ Cond(a, gj, ea) /\ Cond(b, gi, eb)
       /\ Next_(b, gi, eb) = Next_(a, gj, ea)

(* square_confluence_condition, lines 159-205: ci /\ cj => ci[d:=gj] /\    *)
(* cj[d:=gi] /\ fj = fj[d:=gi] /\ gj[d:=gi] = gi[d:=gj].                   *)
SquareCondition(a, b, s, ea, eb) ==
  LET gi == Next_(a, s, ea)
      gj == Next_(b, s, eb)
  IN Cond(a, s, ea) /\ Cond(b, s, eb) =>
       /\ Cond(a, gj, ea) /\ Cond(b, gi, eb)
       /\ Arg(b, s, eb) = Arg(b, gi, eb)
       /\ Next_(b, gi, eb) = Next_(a, gj, ea)

(* triangular_confluence_condition, lines 211-242: ci /\ cj =>            *)
(* cj[d:=gi] /\ fj = fj[d:=gi] /\ gj[d:=gi] = gj.                          *)
TriangularCondition(a, b, s, ea, eb) ==
  LET gi == Next_(a, s, ea)
  IN Cond(a, s, ea) /\ Cond(b, s, eb) =>
       /\ Cond(b, gi, eb)
       /\ Arg(b, s, eb) = Arg(b, gi, eb)
       /\ Next_(b, gi, eb) = Next_(b, s, eb)

(* trivial_confluence_condition, lines 247-269: ci /\ cj => aj is tau /\  *)
(* gi = gj.                                                                *)
TrivialCondition(a, b, s, ea, eb) ==
  Cond(a, s, ea) /\ Cond(b, s, eb) =>
    IsTau(b) /\ Next_(a, s, ea) = Next_(b, s, eb)

ConditionFor(t, a, b, s, ea, eb) ==
  CASE t = "C" -> SquareCondition(a, b, s, ea, eb)
    [] t = "T" -> TriangularCondition(a, b, s, ea, eb)
    [] t = "Z" -> TrivialCondition(a, b, s, ea, eb)

(* The condition holds for every value of its free variables: what        *)
(* is_tautology (lines 279-288) asks the rewriter after closing the        *)
(* formula with forall.                                                    *)
IsValid(t, a, b) ==
  \A s \in States, v \in Valuations(a, b) : ConditionFor(t, a, b, s, v[1], v[2])

-----------------------------------------------------------------------------
(* compute_confluent_summands, lines 321-332: the summands of the          *)
(* specification, and the type asked for.                                  *)
Init ==
  /\ lps \in {SelectSeq(Pool, LAMBDA x : x \in S) : S \in SUBSET {Pool[k] : k \in DOMAIN Pool}}
  /\ confluence_type \in {"C", "T", "Z"}
  /\ pc = "outer" /\ i = 1 /\ j = 1
  /\ result = <<>>

(* Lines 338-341: a summand with an action is skipped.                     *)
SkipSummand ==
  /\ pc = "outer" /\ i <= N /\ ~IsTau(i)
  /\ i' = i + 1
  /\ UNCHANGED <<lps, confluence_type, pc, j, result>>

(* Lines 342-345: a tau summand is checked against every summand.          *)
StartCheck ==
  /\ pc = "outer" /\ i <= N /\ IsTau(i)
  /\ pc' = "inner" /\ j' = 1
  /\ UNCHANGED <<lps, confluence_type, i, result>>

(* is_confluent, lines 293-299: the condition for (i, j) goes to the       *)
(* rewriter.  The rewriter proves only valid formulas, and may fail to     *)
(* prove a valid one; a failure returns false at once.                     *)
CheckPair ==
  /\ pc = "inner" /\ j <= N
  /\ \E proven \in IF IsValid(confluence_type, i, j) THEN BOOLEAN ELSE {FALSE} :
       IF proven THEN /\ j' = j + 1
                      /\ UNCHANGED <<pc, i>>
                 ELSE /\ pc' = "outer" /\ i' = i + 1
                      /\ UNCHANGED j
  /\ UNCHANGED <<lps, confluence_type, result>>

(* Lines 300-301 and 347: every condition was proven, i is confluent.      *)
AllPairsProven ==
  /\ pc = "inner" /\ j > N
  /\ result' = Append(result, i)
  /\ pc' = "outer" /\ i' = i + 1
  /\ UNCHANGED <<lps, confluence_type, j>>

(* Mutant: the index after i is recorded.                                   *)
Relabel_Shifted ==
  /\ pc = "outer" /\ i > N
  /\ lps' = [k \in DOMAIN lps |->
               IF \E n \in DOMAIN result : result[n] + 1 = k
               THEN [lps[k] EXCEPT !.act = CTau] ELSE lps[k]]
  /\ result' = [n \in DOMAIN result |-> result[n] + 1]
  /\ pc' = "done"
  /\ UNCHANGED <<confluence_type, i, j>>

(* run, lines 355-364: the confluent summands get the action ctau.         *)
Relabel ==
  /\ pc = "outer" /\ i > N
  /\ lps' = [k \in DOMAIN lps |->
               IF \E n \in DOMAIN result : result[n] = k
               THEN [lps[k] EXCEPT !.act = CTau] ELSE lps[k]]
  /\ pc' = "done"
  /\ UNCHANGED <<confluence_type, i, j, result>>

Next ==
  \/ SkipSummand \/ StartCheck \/ CheckPair \/ AllPairsProven \/ Relabel

Spec == Init /\ [][Next]_vars

(* compute_confluent_summands and is_confluent are loops over a finite     *)
(* vector of summands with nothing to wait for: run() keeps stepping.      *)
FairSpec == Spec /\ WF_vars(Next)

-----------------------------------------------------------------------------
TypeOK ==
  /\ pc \in {"outer", "inner", "done"} /\ confluence_type \in {"C", "T", "Z"}
  /\ i \in 1 .. N + 1 /\ j \in 1 .. N + 1
  /\ result \in Seq(1 .. N)
  /\ \A n \in DOMAIN result : lps[result[n]].act \in {Tau, CTau}

(* The reference: what confluence reduction promises, with done the      *)
(* return of run().                                                        *)
Abs == INSTANCE ConfluenceSpec WITH done <- (pc = "done")

(* Every summand compute_confluent_summands reports, and run() renames to *)
(* ctau, is confluent in the LPS: giving its steps priority over the      *)
(* others loses no behaviour up to branching bisimulation.  The           *)
(* conditions of lines 159-269 quantify over the summation variables of   *)
(* both summands, so this fails when the two use the same name, since the *)
(* code does not rename them apart (a summand paired with itself always   *)
(* does).                                                                  *)
MarkedAreConfluent ==
  \A n \in DOMAIN result : Abs!SemConfluent(lps, result[n])


(* run() implements confluence reduction: the summands it renames to ctau *)
(* in its single change of the LPS are confluent tau summands of the LPS  *)
(* it was given, no other summand changes, and run() returns.  The        *)
(* rename in Relabel reads the index vector compute_confluent_summands    *)
(* built; the conditions of lines 159-269 must imply the semantic         *)
(* confluence for this to hold.                                            *)
ImplementsConfluenceSpec == Abs!Spec

=============================================================================
