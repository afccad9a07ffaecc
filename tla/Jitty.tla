------------------------------- MODULE Jitty -------------------------------
(***************************************************************************)
(* The jitty rewriter (src/libraries/data/source/detail/rewrite/jitty.cpp) *)
(* as a state machine.  The recursion of rewrite_aux is made explicit: the *)
(* variable stack holds one frame per active call, the top frame runs.     *)
(*                                                                         *)
(*   aux   rewrite_aux(term): dispatch on the shape of the term            *)
(*   fun   rewrite_aux_function_symbol(op, term): run op's strategy        *)
(*   const rewrite_aux_const_function_symbol(op)                           *)
(*   hd    rewrite_aux on an application whose nested head is no symbol:   *)
(*         rewrite the head first                                          *)
(*   args  the head became a variable: rewrite each argument               *)
(*                                                                         *)
(* A frame that calls rewrite_aux pushes an aux frame and records in       *)
(* "wait" what the value is for; the callee's return puts the value in     *)
(* the caller's "ret".  "return rewrite_aux(x)" (a tail call) replaces the *)
(* frame by an aux frame for x.                                            *)
(***************************************************************************)
EXTENDS RewriteRef

VARIABLES input, result, stack
jvars == <<input, result, stack>>

Strat == JittyStrat

Frame(kind, t) ==
  [kind |-> kind, term |-> t, op |-> None, head |-> None, arity |-> 0,
   rw |-> <<>>, pc |-> 1, asg |-> <<>>, wait |-> "none", i |-> 0, ret |-> None]

AuxFrame(t) == Frame("aux", t)

FunFrame(op, t) ==
  [Frame("fun", t) EXCEPT !.op = op, !.arity = NumArgs(t),
                          !.rw = [i \in 0 .. NumArgs(t) - 1 |-> None]]

Top == stack[Len(stack)]

SetTop(fr) == stack' = [stack EXCEPT ![Len(stack)] = fr] /\ UNCHANGED <<input, result>>

(* The top frame becomes fr and calls rewrite_aux(t). *)
Call(fr, t) ==
  /\ stack' = Append([stack EXCEPT ![Len(stack)] = fr], AuxFrame(t))
  /\ UNCHANGED <<input, result>>

(* The top frame returns v to its caller, or to rewrite() at the bottom. *)
ReturnValue(v) ==
  /\ IF Len(stack) = 1
       THEN stack' = <<>> /\ result' = v
       ELSE stack' = [Front(stack) EXCEPT ![Len(stack) - 1].ret = v] /\ UNCHANGED result
  /\ UNCHANGED input

Running(kind) == stack # <<>> /\ Top.kind = kind
Idle(kind)    == Running(kind) /\ Top.wait = "none"
Resumed(kind, w) == Running(kind) /\ Top.wait = w /\ Top.ret # None

(***************************************************************************)
(* rewrite_aux: a tagged normal form is returned as it is; an application  *)
(* with a symbol as nested head runs that symbol's strategy; any other     *)
(* application first rewrites its head; a symbol runs its zero-arity       *)
(* rules; a variable is looked up in sigma.                                *)
(***************************************************************************)
RewriteAux ==
  /\ Idle("aux")
  /\ LET t  == Top.term
         nh == NestedHead(t)
     IN  CASE IsNFTagged(t) -> ReturnValue(t.a[1])
           [] IsApp(t) /\ IsFs(nh) /\ nh.f # NFSymbol -> SetTop(FunFrame(nh.f, t))
           [] IsApp(t) -> Call([Top EXCEPT !.kind = "hd", !.wait = "head"], t.h)
           [] IsFs(t)  -> SetTop([Top EXCEPT !.kind = "const", !.op = t.f])
           [] OTHER    -> ReturnValue(SigmaOf(t.v))

(* The head came back as t: dispatch on its nested head. *)
HeadRewritten ==
  /\ Resumed("hd", "head")
  /\ LET t == Top.ret
     IN  IF IsFs(NestedHead(t))
           THEN SetTop(FunFrame(NestedHead(t).f, App(t, Top.term.a)))
           ELSE SetTop([Top EXCEPT !.kind = "args", !.head = t, !.wait = "none",
                                   !.ret = None])

(* Variable head: the arguments are rewritten in order by the application *)
(* constructor with jitty_argument_rewriter.                              *)
ArgsStep ==
  /\ Idle("args")
  /\ IF Len(Top.rw) < Len(Top.term.a)
       THEN Call([Top EXCEPT !.wait = "arg"], Top.term.a[Len(Top.rw) + 1])
       ELSE ReturnValue(App(Top.head, Top.rw))

ArgRewritten ==
  /\ Resumed("args", "arg")
  /\ SetTop([Top EXCEPT !.rw = Append(@, Top.ret), !.wait = "none", !.ret = None])

-----------------------------------------------------------------------------
(* rewrite_aux_function_symbol *)

Steps == Strat[Top.op]
InStrategy == Top.pc <= Len(Steps)
Step == Steps[Top.pc]
(* Mutant: the break leaves the program counter one past the loop's end. *)
Leave_PastEnd == [Top EXCEPT !.pc = Len(Steps) + 2]

Leave == [Top EXCEPT !.pc = Len(Steps) + 1]   \* break out of the strategy loop
(* Mutant: assignments.size is not reset after a failed attempt. *)
AfterAttempt_KeepsAssignments(asg) ==
  [Top EXCEPT !.pc = @ + 1, !.asg = asg, !.wait = "none", !.ret = None]

(* The end of an attempt that did not fire, with the assignments the match *)
(* left behind: assignments.size = 0, then the next strategy step.         *)
AfterAttempt(asg) ==
  [Top EXCEPT !.pc = @ + 1, !.asg = <<>>, !.wait = "none", !.ret = None]

(* The argument at position i as the matcher sees it. *)
Current(fr, i) == IF fr.rw[i] # None THEN fr.rw[i] ELSE ArgOf(fr.term, i)

(* Mutant: every argument is passed to match_jitty as a normal form. *)
MatchRule_AllNormal(fr, lhs) ==
  LET RECURSIVE Go(_, _)
      Go(i, m) == IF i >= NumArgs(lhs) \/ ~m.ok THEN m
                  ELSE Go(i + 1, MatchJitty(Current(fr, i), ArgOf(lhs, i), m.asg, TRUE))
  IN  Go(0, [ok |-> TRUE, asg |-> fr.asg])

(* The loop over the positions of a rule's left-hand side. *)
MatchRule(fr, lhs) ==
  LET RECURSIVE Go(_, _)
      Go(i, m) == IF i >= NumArgs(lhs) \/ ~m.ok THEN m
                  ELSE Go(i + 1, MatchJitty(Current(fr, i), ArgOf(lhs, i), m.asg,
                                            fr.rw[i] # None))
  IN  Go(0, [ok |-> TRUE, asg |-> fr.asg])

(* A rule with a true condition fires: rewrite its instantiated right-hand *)
(* side; when the term has more arguments than the rule, the instance is   *)
(* first applied to the remaining (unrewritten) arguments.                 *)
Fire(fr, eq, asg) ==
  LET ra == NumArgs(eq.lhs)
      rhs == SubstValues(asg, eq.rhs)
  IN  IF ra = fr.arity
        THEN SetTop(AuxFrame(rhs))
        ELSE SetTop(AuxFrame(BuildHigherOrder(rhs, FlatArgs(fr.term), ra,
                                              ResidualSort(SortOf[fr.op], ra))))

(* An evaluation step, lines 497-513: a position past the arity breaks    *)
(* out of the loop, a position already rewritten is skipped (line 503),    *)
(* any other is rewritten by a nested rewrite_aux.                         *)
EvalArgument ==
  /\ Idle("fun") /\ InStrategy /\ Step.k = "eval"
  /\ LET i == Step.i
     IN  CASE i >= Top.arity   -> SetTop(Leave)
           [] Top.rw[i] # None -> SetTop([Top EXCEPT !.pc = @ + 1])
           [] OTHER            -> Call([Top EXCEPT !.wait = "arg", !.i = i], ArgOf(Top.term, i))

ArgumentRewritten ==
  /\ Resumed("fun", "arg")
  /\ SetTop([Top EXCEPT !.rw[Top.i] = Top.ret, !.pc = @ + 1, !.wait = "none",
                         !.ret = None])

TryRule ==
  /\ Idle("fun") /\ InStrategy /\ Step.k = "rule"
  /\ LET eq == Equations[Step.r]
         m  == MatchRule(Top, eq.lhs)
     IN  CASE NumArgs(eq.lhs) > Top.arity -> SetTop(Leave)
           [] ~m.ok                       -> SetTop(AfterAttempt(m.asg))
           [] eq.cond = TrueTerm          -> Fire(Top, eq, m.asg)
           [] OTHER -> Call([Top EXCEPT !.asg = m.asg, !.wait = "cond"],
                            SubstValues(m.asg, eq.cond))

ConditionRewritten ==
  /\ Resumed("fun", "cond")
  /\ IF Top.ret = TrueTerm
       THEN Fire(Top, Equations[Step.r], Top.asg)
       ELSE SetTop(AfterAttempt(Top.asg))

(* No rule applies: rewrite the arguments not yet rewritten, in order, and *)
(* rebuild the higher-order term from op's sort.                           *)
RewriteRemaining ==
  /\ Idle("fun") /\ ~InStrategy
  /\ LET todo == {i \in DOMAIN Top.rw : Top.rw[i] = None}
     IN  IF todo # {}
           THEN LET i == CHOOSE i \in todo : \A j \in todo : i <= j
                IN  Call([Top EXCEPT !.wait = "final", !.i = i], ArgOf(Top.term, i))
           ELSE ReturnValue(BuildHigherOrder(Fs(Top.op),
                              [n \in 1 .. Top.arity |-> Top.rw[n - 1]], 0, SortOf[Top.op]))

RemainingRewritten ==
  /\ Resumed("fun", "final")
  /\ SetTop([Top EXCEPT !.rw[Top.i] = Top.ret, !.wait = "none", !.ret = None])

-----------------------------------------------------------------------------
(* rewrite_aux_const_function_symbol: only leading zero-arity rules count; *)
(* their condition is rewritten as it is, under sigma.                     *)

ConstStep ==
  /\ Idle("const")
  /\ CASE ~InStrategy \/ Step.k = "eval"                -> ReturnValue(Fs(Top.op))
       [] NumArgs(Equations[Step.r].lhs) > 0             -> ReturnValue(Fs(Top.op))
       [] Equations[Step.r].cond = TrueTerm -> SetTop(AuxFrame(Equations[Step.r].rhs))
       [] OTHER -> Call([Top EXCEPT !.wait = "cond"], Equations[Step.r].cond)

ConstConditionRewritten ==
  /\ Resumed("const", "cond")
  /\ IF Top.ret = TrueTerm
       THEN SetTop(AuxFrame(Equations[Step.r].rhs))
       ELSE SetTop(AfterAttempt(<<>>))

-----------------------------------------------------------------------------
(* rewrite(term, sigma) *)
JInit ==
  /\ input \in Inputs
  /\ result = None
  /\ stack = <<AuxFrame(input)>>

JNext ==
  \/ RewriteAux \/ HeadRewritten \/ ArgsStep \/ ArgRewritten
  \/ EvalArgument \/ ArgumentRewritten \/ TryRule \/ ConditionRewritten
  \/ RewriteRemaining \/ RemainingRewritten
  \/ ConstStep \/ ConstConditionRewritten

(* One rewrite call runs on one thread to completion. *)
JSpec == JInit /\ [][JNext]_jvars /\ WF_jvars(JNext)

(* The refinement mapping: the result is visible once rewrite returns. *)
Abstract == INSTANCE RewriteSpec WITH input <- input, result <- result

-----------------------------------------------------------------------------
(* Properties *)

Terms == UNION {Subterms(t) : t \in Inputs}   \* used only to bound TypeOK

TypeOK ==
  /\ result = None \/ result.k \in {"fs", "var", "app"}
  /\ \A n \in DOMAIN stack :
       /\ stack[n].kind \in {"aux", "fun", "const", "hd", "args"}
       /\ stack[n].wait \in {"none", "arg", "cond", "head", "final"}
       /\ stack[n].kind \in {"fun", "const"} =>
            stack[n].pc \in 1 .. Len(Strat[stack[n].op]) + 1
       /\ \A j \in DOMAIN stack[n].asg : stack[n].asg[j].nf \in BOOLEAN
  /\ input \in Inputs

(***************************************************************************)
(* What the rewriter treats as already normal is normal: an argument it    *)
(* cached as rewritten is the normal form of that argument, and every      *)
(* value it bound with variable_is_a_normal_form, or wrapped in            *)
(* Rewritten@@term, is a normal form.  A false claim here is returned      *)
(* unrewritten by rewrite_aux.                                             *)
(***************************************************************************)
NormalFormClaimsHold ==
  \A n \in DOMAIN stack :
    LET fr == stack[n] IN
    /\ fr.kind = "fun" =>
         \A i \in DOMAIN fr.rw : fr.rw[i] # None => fr.rw[i] = RefNF(ArgOf(fr.term, i))
    /\ \A j \in DOMAIN fr.asg : fr.asg[j].nf => RefNF(fr.asg[j].term) = fr.asg[j].term
    /\ \A u \in Subterms(fr.term) : IsNFTagged(u) => RefNF(u.a[1]) = u.a[1]

(***************************************************************************)
(* rewrite(term, sigma) implements the abstract specification: it returns, *)
(* and what it returns is the normal form of the term.  As RefNF never     *)
(* contains Rewritten@@term, this includes the assertion in                *)
(* RewriterJitty::rewrite that no normal-form tag is left in the result.   *)
(***************************************************************************)
RewritesToNormalForm == Abstract!CheckedSpec
=============================================================================
