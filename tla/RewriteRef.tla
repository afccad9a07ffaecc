----------------------------- MODULE RewriteRef -----------------------------
(***************************************************************************)
(* What rewrite(term, sigma) promises (spec.md 4.4, 8): it returns the     *)
(* normal form of the term under the accepted equations, with the free     *)
(* variables of the term replaced by their values in sigma.                *)
(*                                                                         *)
(* RefNF is a reference definition written independently of the jitty     *)
(* control: innermost rewriting, with its own matcher and substitution.    *)
(* For a confluent and terminating equation set every strategy reaches     *)
(* this normal form.                                                       *)
(***************************************************************************)
EXTENDS JittyMatch

CONSTANTS
  Sigma,   \* the substitution: variable name -> normal-form term
  Inputs,  \* the terms handed to rewrite
  None

(* mutable_indexed_substitution: an unbound variable maps to itself. *)
SigmaOf(v) == IF v \in DOMAIN Sigma THEN Sigma[v] ELSE Var(v)

(* Syntactic matching of a pattern against a term: a binding or NoMatch. *)
NoMatch == "@fail" :> None

RECURSIVE PMatch(_, _, _)
PMatch(p, t, b) ==
  CASE b = NoMatch -> NoMatch
    [] IsFs(p)  -> IF p = t THEN b ELSE NoMatch
    [] IsVar(p) -> IF p.v \in DOMAIN b
                     THEN IF b[p.v] = t THEN b ELSE NoMatch
                     ELSE [w \in DOMAIN b \cup {p.v} |-> IF w = p.v THEN t ELSE b[w]]
    [] ~IsApp(t) \/ Len(t.a) # Len(p.a) -> NoMatch
    [] OTHER    -> LET RECURSIVE Args(_, _)
                       Args(j, c) == IF j > Len(p.a) THEN c
                                     ELSE Args(j + 1, PMatch(p.a[j], t.a[j], c))
                   IN  Args(1, PMatch(p.h, t.h, b))

RECURSIVE Subst(_, _)
Subst(b, t) ==
  CASE IsVar(t) -> IF t.v \in DOMAIN b THEN b[t.v] ELSE t
    [] IsApp(t) -> App(Subst(b, t.h), [j \in DOMAIN t.a |-> Subst(b, t.a[j])])
    [] OTHER    -> t

(* The binding under which the flat arguments of t match rule j. *)
RuleMatch(j, t) ==
  LET lhs == Equations[j].lhs
      ps  == FlatArgs(lhs)
      RECURSIVE Go(_, _)
      Go(i, b) == IF i > Len(ps) THEN b ELSE Go(i + 1, PMatch(ps[i], FlatArgs(t)[i], b))
  IN  Go(1, [w \in {} |-> None])

RECURSIVE RefNF(_), RefReduce(_, _)
RefNF(t) ==
  CASE IsVar(t)       -> SigmaOf(t.v)
    [] IsFs(t)        -> RefReduce(t.f, t)
    [] IsNFTagged(t)  -> t.a[1]
    [] OTHER ->
         LET h    == RefNF(t.h)
             args == [j \in DOMAIN t.a |-> RefNF(t.a[j])]
         IN  IF IsFs(NestedHead(h)) THEN RefReduce(NestedHead(h).f, App(h, args))
                                    ELSE App(h, args)

(* t is op applied to normal forms: apply the first rule that fires. *)
RefReduce(op, t) ==
  LET Fires(j) ==
        /\ LhsHead(j) = op
        /\ RuleArity(j) <= NumArgs(t)
        /\ RuleMatch(j, t) # NoMatch
        /\ \/ Equations[j].cond = TrueTerm
           \/ RefNF(Subst(RuleMatch(j, t), Equations[j].cond)) = TrueTerm
      fired == {j \in Accepted : Fires(j)}
  IN  IF fired = {} THEN t
      ELSE LET j  == CHOOSE j \in fired : \A i \in fired : j <= i
               ra == RuleArity(j)
           IN  RefNF(BuildHigherOrder(Subst(RuleMatch(j, t), Equations[j].rhs),
                                      FlatArgs(t), ra, ResidualSort(SortOf[op], ra)))

=============================================================================
