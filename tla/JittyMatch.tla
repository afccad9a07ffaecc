----------------------------- MODULE JittyMatch -----------------------------
(***************************************************************************)
(* The pure parts of the jitty rewriter: the matcher match_jitty, the      *)
(* instantiation subst_values, the rule well-formedness check and the      *)
(* strategy built from the equations of each head symbol.                  *)
(*                                                                         *)
(* An assignment list is a sequence of records [var, term, nf] in binding  *)
(* order, as jitty_assignments_for_a_rewrite_rule; nf is the flag          *)
(* variable_is_a_normal_form.                                              *)
(***************************************************************************)
EXTENDS DataTerms, SequencesExt

CONSTANTS
  Equations,  \* sequence of [lhs, cond, rhs] in declaration order
  TrueTerm    \* sort_bool::true_()

Fail(asg) == [ok |-> FALSE, asg |-> asg]
Bound(asg, v) == {j \in DOMAIN asg : asg[j].var = v}

(***************************************************************************)
(* match_jitty(t, p, assignments, term_context_guarantees_normal_form).    *)
(* A repeated variable matches only the identical term; the head and the   *)
(* arguments of an application pattern are matched in order, with the     *)
(* normal-form flag set, and the first failure ends the match.             *)
(***************************************************************************)
RECURSIVE MatchJitty(_, _, _, _), MatchArgs(_, _, _, _)
MatchJitty(t, p, asg, nf) ==
  CASE IsFs(p)  -> [ok |-> p = t, asg |-> asg]
    [] IsVar(p) ->
         IF Bound(asg, p.v) # {}
           THEN [ok |-> asg[CHOOSE j \in Bound(asg, p.v) : TRUE].term = t, asg |-> asg]
           ELSE [ok |-> TRUE, asg |-> Append(asg, [var |-> p.v, term |-> t, nf |-> nf])]
    [] ~IsApp(t) \/ Len(p.a) # Len(t.a) -> Fail(asg)
    [] OTHER ->
         LET h == MatchJitty(t.h, p.h, asg, TRUE)
         IN  IF h.ok THEN MatchArgs(t.a, p.a, h.asg, 1) ELSE h

MatchArgs(ts, ps, asg, j) ==
  IF j > Len(ps) THEN [ok |-> TRUE, asg |-> asg]
  ELSE LET m == MatchJitty(ts[j], ps[j], asg, TRUE)
       IN  IF m.ok THEN MatchArgs(ts, ps, m.asg, j + 1) ELSE m

(***************************************************************************)
(* subst_values: replace bound variables by their terms; a value bound     *)
(* with the normal-form flag is wrapped in Rewritten@@term so that         *)
(* rewrite_aux returns it without rewriting it again.                      *)
(***************************************************************************)
RECURSIVE SubstValues(_, _)
SubstValues(asg, t) ==
  CASE IsFs(t)  -> t
    [] IsVar(t) ->
         IF Bound(asg, t.v) = {} THEN t
         ELSE LET b == asg[CHOOSE j \in Bound(asg, t.v) : TRUE]
              IN  IF b.nf THEN NFTag(b.term) ELSE b.term
    [] OTHER    -> App(SubstValues(asg, t.h),
                       [j \in DOMAIN t.a |-> SubstValues(asg, t.a[j])])

(***************************************************************************)
(* CheckRewriteRule: an equation whose condition or right-hand side uses a *)
(* variable that its left-hand side does not bind is rejected with a       *)
(* warning; the remaining equations are kept.                              *)
(***************************************************************************)
CheckRewriteRule(eq) ==
  /\ IsFs(NestedHead(eq.lhs))
  /\ Vars(eq.cond) \cup Vars(eq.rhs) \subseteq Vars(eq.lhs)

Accepted == {j \in DOMAIN Equations : CheckRewriteRule(Equations[j])}

LhsHead(j) == NestedHead(Equations[j].lhs).f
RuleArity(j) == NumArgs(Equations[j].lhs)

(***************************************************************************)
(* create_strategy.  The positions whose argument must be a normal form    *)
(* before the rule is matched: those holding a non-variable pattern and    *)
(* those holding a variable that occurs more than once in the pattern.     *)
(* Rules are tried by ascending arity, in declaration order within one     *)
(* arity; each needed position is evaluated once, just before the first   *)
(* rule that needs it.                                                     *)
(***************************************************************************)
NeededPositions(lhs) ==
  LET occ == VarOccurrences(lhs)
      Repeated(v) == Cardinality({j \in DOMAIN occ : occ[j] = v}) > 1
  IN  {i \in 0 .. NumArgs(lhs) - 1 :
         ~IsVar(ArgOf(lhs, i)) \/ Repeated(ArgOf(lhs, i).v)}

RulesOf(op) ==
  SetToSortSeq({j \in Accepted : LhsHead(j) = op},
               LAMBDA a, b : RuleArity(a) < RuleArity(b)
                             \/ (RuleArity(a) = RuleArity(b) /\ a < b))

EvalStep(i) == [k |-> "eval", i |-> i]
RuleStep(j) == [k |-> "rule", r |-> j]

CreateStrategy(op) ==
  LET Add(acc, j) ==
        LET need == SetToSortSeq(NeededPositions(Equations[j].lhs) \ acc.done,
                                 LAMBDA a, b : a < b)
        IN  [steps |-> acc.steps \o [n \in DOMAIN need |-> EvalStep(need[n])]
                                 \o <<RuleStep(j)>>,
             done  |-> acc.done \cup ToSet(need)]
  IN  FoldLeft(Add, [steps |-> <<>>, done |-> {}], RulesOf(op)).steps

(* rebuild_strategy: one strategy per symbol, empty where no rule exists. *)
JittyStrat == [f \in DOMAIN SortOf |-> CreateStrategy(f)]
=============================================================================
