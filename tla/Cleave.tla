------------------------------- MODULE Cleave -------------------------------
(***************************************************************************)
(* lpscleave (src/tools/experimental/lpscleave/lpscleave.cpp and          *)
(* dependency_cleave.cpp): the process parameters of an LPS are split in  *)
(* those of a left and a right component, each summand is owned by the    *)
(* component the -s option names, and dependency_cleave builds each       *)
(* component from the summands.  A summand the owner can perform on its   *)
(* own (the set L_X) gets a tag action; every other summand becomes a     *)
(* pair of summands, one in each component, that synchronise on the       *)
(* values of the variables S^i_X (actions syncleft_i and syncright_i).    *)
(*                                                                         *)
(* Expressions are names with a syntactic set of free variables (FV, what *)
(* find_free_variables returns) and a value (Eval).  A summand has one    *)
(* summation variable SumVar, a condition, at most one action with one    *)
(* argument, and an assignment for every parameter (the parameter itself  *)
(* for none).  The tool is one run of a function from its input to its   *)
(* two outputs, so the model is the operators and the inputs.             *)
(***************************************************************************)
EXTENDS Integers, Sequences, FiniteSets, Functions

CONSTANTS
  P,          \* the process parameters
  SumVar,     \* the name of the summation variable of every summand
  D,          \* the values of every variable
  Exprs,      \* the expressions, parameters among them
  FV,         \* Exprs -> SUBSET (P \cup {SumVar})
  Eval(_, _), \* Eval(ex, u): the value of ex under u \in [P \cup {SumVar} -> D]
  Tau,        \* the empty multi-action
  Intern,     \* the intern action that replaces tau in an owning summand
  NoAct,      \* the action of a summand that only synchronises
  Pool,       \* the summands an input LPS is built from
  MaxSummands

(* Every expression reads only its free variables. *)
ASSUME /\ P \subseteq Exprs
       /\ \A ex \in Exprs, u, w \in [P \cup {SumVar} -> D] :
            (\A x \in FV[ex] : u[x] = w[x]) => Eval(ex, u) = Eval(ex, w)

VARIABLES
  lps,         \* spec.process().action_summands()
  parameters,  \* the -p option: the parameters of the left component
  indices      \* the -s option: the summands the left component performs

vars == <<lps, parameters, indices>>

Vars == P \cup {SumVar}
N == Len(lps)

ActFV(s) == IF s.act = Tau THEN {} ELSE FV[s.act]
AsgFV(s, Q) == UNION {FV[s.asg[p]] : p \in Q}

(***************************************************************************)
(* compute_dependencies(spec, summand, X, W): S^i_X is the free variables *)
(* of the condition, of the action and the X-assignments minus X (set_1), *)
(* and of the W-assignments minus W (set_2).  The summand is in L_X when  *)
(* every W-assignment is the identity and set_1 is empty.                 *)
(***************************************************************************)
compute_dependencies(s, X, W) ==
  LET set_1 == (ActFV(s) \cup AsgFV(s, X)) \ X
      set_2 == AsgFV(s, W) \ W
  IN  [S_i_X  |-> FV[s.cond] \cup set_1 \cup set_2,
       in_L_X |-> (\A p \in W : s.asg[p] = p) /\ set_1 = {}]

(***************************************************************************)
(* cleave_summand<owning>(spec, i, Pc, Po, ...): the summand i of the     *)
(* component with parameters Pc.  The dependencies are those of the owner *)
(* in both components.  A component sums over the parameters of the other *)
(* in S^i_X; the owner keeps the action (intern for tau) and adds the tag *)
(* or the sync action, the other component only syncs, and drops the      *)
(* summand when the owner performs it alone.  Both keep the assignments   *)
(* to their own parameters.                                               *)
(***************************************************************************)
cleave_summand(owning, s, i, Pc, Po) ==
  LET deps == IF owning THEN compute_dependencies(s, Pc, Po)
                        ELSE compute_dependencies(s, Po, Pc)
  IN  IF ~owning /\ deps.in_L_X THEN {}
      ELSE {[idx  |-> i,
             sum  |-> {SumVar} \cup (Po \cap deps.S_i_X),
             cond |-> s.cond,
             act  |-> IF ~owning THEN NoAct
                      ELSE IF s.act = Tau THEN Intern ELSE s.act,
             tag  |-> owning /\ deps.in_L_X,
             sync |-> deps.S_i_X,
             asg  |-> [p \in Pc |-> s.asg[p]]]}

(***************************************************************************)
(* dependency_cleave(spec, Pc, owned, right_process): the owned summands  *)
(* with an index below the number of summands (a larger one only gets a   *)
(* warning), then the summands of the other indices.  The order of the    *)
(* summands of an LPS does not change its behaviour, so a set is kept.    *)
(***************************************************************************)
dependency_cleave(Pc, owned) ==
  LET Po == P \ Pc
      all == 0 .. N - 1
  IN  UNION {cleave_summand(TRUE, lps[i + 1], i, Pc, Po) : i \in owned \cap all}
        \cup UNION {cleave_summand(FALSE, lps[i + 1], i, Pc, Po) : i \in all \ owned}

(* run(): the left component from the options, the right one from their   *)
(* complements.                                                           *)
LeftSpec  == dependency_cleave(parameters, indices)
RightSpec == dependency_cleave(P \ parameters, (0 .. N - 1) \ indices)

-----------------------------------------------------------------------------
(* The input: one to MaxSummands summands of the pool, a non-empty -p     *)
(* option (an empty one only prints the parameters) and any -s option,    *)
(* including an index past the last summand.                              *)
Init ==
  /\ lps \in UNION {[1 .. n -> Pool] : n \in 1 .. MaxSummands}
  /\ parameters \in SUBSET P \ {{}}
  /\ indices \in SUBSET (0 .. Len(lps))

(* The tool computes its outputs and stops. *)
Spec == Init /\ [][FALSE]_vars

-----------------------------------------------------------------------------
(* The behaviour of an LPS: from the parameter values v, the labelled     *)
(* steps of its summands for every value of the summation variable.  The  *)
(* label of a(e) is the value of e; intern is hidden to tau.              *)
Label(a, u) == IF a \in {Tau, Intern} THEN Tau ELSE Eval(a, u)

Extensions(v, Q) == {u \in [Vars -> D] : \A p \in Q : u[p] = v[p]}

OriginalSteps(v) ==
  UNION {{<<Label(s.act, u), [p \in P |-> Eval(s.asg[p], u)]>> :
            u \in {u \in Extensions(v, P) : Eval(s.cond, u)}} : s \in Range(lps)}

(* A component summand c of the component with parameters Pc can take    *)
(* the values u: its own parameters are those of v, and every variable it *)
(* does not sum over is one its expressions do not read.                  *)
Enabled(c, Pc, v) == {u \in Extensions(v, Pc) : Eval(c.cond, u)}

Update(c, Pc, u, v) == [p \in P |-> IF p \in Pc THEN Eval(c.asg[p], u) ELSE v[p]]

(***************************************************************************)
(* The composition the code describes: a tagged summand is performed by   *)
(* its owner alone, the other summands i synchronise syncleft_i with      *)
(* syncright_i on equal values, the owner contributing the action; the    *)
(* tags, the sync actions and intern are hidden.                          *)
(***************************************************************************)
ComposedSteps(v) ==
  LET Pl == parameters
      Pr == P \ parameters
      alone(c, Pc) == {<<Label(c.act, u), Update(c, Pc, u, v)>> : u \in Enabled(c, Pc, v)}
  IN  UNION {alone(c, Pl) : c \in {c \in LeftSpec : c.tag}}
        \cup UNION {alone(c, Pr) : c \in {c \in RightSpec : c.tag}}
        \cup UNION {{<<Label(IF l.act = NoAct THEN r.act ELSE l.act, IF l.act = NoAct THEN ur ELSE ul),
                       [p \in P |-> IF p \in Pl THEN Eval(l.asg[p], ul) ELSE Eval(r.asg[p], ur)]>> :
                       <<ul, ur>> \in {w \in Enabled(l, Pl, v) \X Enabled(r, Pr, v) :
                                         \A x \in l.sync : w[1][x] = w[2][x]}} :
                     <<l, r>> \in {lr \in LeftSpec \X RightSpec :
                                     ~lr[1].tag /\ ~lr[2].tag /\ lr[1].idx = lr[2].idx
                                     /\ lr[1].sync = lr[2].sync}}

-----------------------------------------------------------------------------
(***************************************************************************)
(* The two components, run in parallel as the code describes, have the    *)
(* steps of the original LPS from every state: a summand the owner        *)
(* performs alone must not need the other's parameters, and a             *)
(* synchronised one must fix every value both sides read.  The owner of a *)
(* summand in L_X sums over the other's parameters in its condition       *)
(* (lines 118-125), with nothing to fix them.                             *)
(***************************************************************************)
CleavePreservesBehaviour ==
  \A v \in [P -> D] : ComposedSteps(v) = OriginalSteps(v)

=============================================================================
