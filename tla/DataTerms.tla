----------------------------- MODULE DataTerms -----------------------------
(***************************************************************************)
(* Data expressions as the jitty rewriter sees them                        *)
(* (src/libraries/data/source/detail/rewrite/jitty.cpp): function symbols, *)
(* variables and applications head(args).  An application whose head is   *)
(* itself an application is a curried (higher-order) call f(u1)(u2).       *)
(* Terms are records; a symbol's sort is the sequence of the sizes of its  *)
(* domain groups, so f : D -> (D -> D) has sort <<1, 1>>.                  *)
(*                                                                         *)
(* Abstractions and where-clauses are not part of this term language: the  *)
(* functions that rewrite them are not in the source tree (see README).    *)
(***************************************************************************)
EXTENDS Naturals, Sequences

CONSTANTS
  SortOf     \* symbol -> sequence of domain-group sizes

Fs(f)          == [k |-> "fs", f |-> f]
Var(v)         == [k |-> "var", v |-> v]
App(h, args)   == [k |-> "app", h |-> h, a |-> args]

IsFs(t)  == t.k = "fs"
IsVar(t) == t.k = "var"
IsApp(t) == t.k = "app"

(***************************************************************************)
(* this_term_is_in_normal_form(): the auxiliary symbol Rewritten@@term     *)
(* that subst_values puts around a value known to be a normal form.        *)
(***************************************************************************)
NFSymbol == "Rewritten@@term"
NFTag(u) == App(Fs(NFSymbol), <<u>>)
IsNFTagged(t) == IsApp(t) /\ t.h = Fs(NFSymbol)

(* get_nested_head: the head under a chain of applications. *)
RECURSIVE NestedHead(_)
NestedHead(t) == IF IsApp(t) THEN NestedHead(t.h) ELSE t

(* All arguments of a curried application, innermost group first. *)
RECURSIVE FlatArgs(_)
FlatArgs(t) == IF IsApp(t) THEN FlatArgs(t.h) \o t.a ELSE <<>>

(* recursive_number_of_args *)
NumArgs(t) == Len(FlatArgs(t))

(* get_argument_of_higher_order_term(t, i), with i counted from 0. *)
ArgOf(t, i) == FlatArgs(t)[i + 1]

(***************************************************************************)
(* The loop that builds "this potential higher order term": starting from  *)
(* head, apply it to consecutive groups of args (positions i, i+1, ...)    *)
(* as long as the sort is a function sort and arguments remain.            *)
(***************************************************************************)
RECURSIVE BuildHigherOrder(_, _, _, _)
BuildHigherOrder(result, args, i, sort) ==
  IF sort = <<>> \/ i >= Len(args)
    THEN result
    ELSE LET end == i + Head(sort)
         IN  BuildHigherOrder(App(result, SubSeq(args, i + 1, end)),
                              args, end, Tail(sort))

(* detail::residual_sort(s, i): the sort left after i arguments. *)
RECURSIVE ResidualSort(_, _)
ResidualSort(sort, i) ==
  IF i = 0 \/ sort = <<>> THEN sort ELSE ResidualSort(Tail(sort), i - Head(sort))

(* The symbols occurring in a term. *)
RECURSIVE Symbols(_)
Symbols(t) ==
  CASE IsFs(t)  -> {t.f}
    [] IsVar(t) -> {}
    [] OTHER    -> Symbols(t.h) \cup UNION {Symbols(t.a[j]) : j \in DOMAIN t.a}

(* Variables occurring in a term, counted per occurrence. *)
RECURSIVE VarOccurrences(_)
VarOccurrences(t) ==
  CASE IsFs(t)  -> <<>>
    [] IsVar(t) -> <<t.v>>
    [] OTHER    -> VarOccurrences(t.h) \o
                   LET RECURSIVE Occ(_)
                       Occ(s) == IF s = <<>> THEN <<>>
                                 ELSE VarOccurrences(Head(s)) \o Occ(Tail(s))
                   IN  Occ(t.a)

Vars(t) == {VarOccurrences(t)[j] : j \in DOMAIN VarOccurrences(t)}

(* All subterms of a term, the term included. *)
RECURSIVE Subterms(_)
Subterms(t) ==
  {t} \cup IF IsApp(t)
             THEN Subterms(t.h) \cup UNION {Subterms(t.a[j]) : j \in DOMAIN t.a}
             ELSE {}
=============================================================================
