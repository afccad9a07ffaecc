--------------------------- MODULE StategraphLocal ---------------------------
(***************************************************************************)
(* The control flow marking of the local stategraph algorithm             *)
(* (src/libraries/pbes/include/mcrl2/pbes/detail/                          *)
(*  stategraph_local_algorithm.h): the belongs sets of every local control *)
(* flow graph, the initial marking from the significant variables, and the *)
(* fixpoint loop of compute_control_flow_marking with its per-graph        *)
(* worklist (rule 1) and its pass across graphs (rule 2).                  *)
(*                                                                         *)
(* The PBES is abstracted to what the marking reads: the parameters of     *)
(* each equation, the targets of its predicate variables with the          *)
(* parameters they use or change, and, per vertex u = X(e), predicate      *)
(* variable i and parameter d of its target, the free variables of the     *)
(* argument for d after substituting e (Flow).  The control flow graphs    *)
(* themselves are the result of stategraph_algorithm::run and are given.   *)
(***************************************************************************)
EXTENDS Integers, FiniteSets, Sequences

CONSTANTS
  J,           \* number of local control flow graphs
  Vertices,    \* the vertices of all graphs
  VGraph,      \* Vertices -> 0 .. J-1, the graph a vertex belongs to
  VName,       \* Vertices -> Names, the equation X of a vertex X(e)
  Edges,       \* set of <<u, i, v>>: edge from u to v labelled i
  Names,       \* the equations' names
  Params,      \* Names -> set of parameters
  DataParams,  \* Names -> the parameters data_parameter_indices yields
  PredVars,    \* Names -> sequence of the target names of X's predicate variables
  Used,        \* Names -> sequence of the parameters each predicate variable uses
  Changed,     \* Names -> sequence of the parameters each predicate variable changes
  SigChoices,  \* the possible Vertices -> significant_variables(u)
  Flow,        \* <<u, i, d>> -> FV(rewr(e_l, [var(u) := val(u)]))
  ArgFV        \* <<X, i, d>> -> FV(e_l), without substitution

VARIABLES
  sig,        \* significant_variables(u): fixed by the PBES, one of SigChoices
  marking,    \* u.marking() for every vertex
  pc,         \* where compute_control_flow_marking is
  j,          \* the graph the current pass is at
  todo,       \* the worklist of the rule-1 pass
  pending,    \* the vertices of graph j the rule-2 pass has still to visit
  stableint,
  stableext

vars == <<sig, marking, pc, j, todo, pending, stableint, stableext>>

VerticesOf(k) == {u \in Vertices : VGraph[u] = k}
PredIdx(X) == 0 .. Len(PredVars[X]) - 1
Target(X, i) == PredVars[X][i + 1]
OutEdges(u) == {e \in Edges : e[1] = u}
Successors(u) == {e[3] : e \in OutEdges(u)}

(* default_rules_predicate: V.has_label(X, i) *)
HasLabel(k, X, i) == \E e \in Edges : VGraph[e[1]] = k /\ VName[e[1]] = X /\ e[2] = i

(***************************************************************************)
(* compute_belongs: for a vertex X(e) of graph k, the data parameters of X *)
(* minus those some predicate variable i uses or changes while graph k has *)
(* no edge labelled i out of X.  A name with no vertex in graph k has no   *)
(* entry, which belongs_contains and belongs_intersection read as empty.   *)
(***************************************************************************)
Belongs(k, X) ==
  IF \E u \in VerticesOf(k) : VName[u] = X
    THEN {m \in DataParams[X] :
            \A i \in PredIdx(X) :
              m \in Used[X][i + 1] \cup Changed[X][i + 1] => HasLabel(k, X, i)}
    ELSE {}

BelongsIntersection(W, k, X) == W \cap Belongs(k, X)

(* Mutant: rule 1 runs over every parameter of v, not v's marking.        *)
UpdateMarkingRule1_AllParams(M, u) ==
  M[u] \cup UNION {UNION {BelongsIntersection(Flow[<<u, e[2], d>>], VGraph[u], VName[u]) :
                             d \in Params[VName[e[3]]]} : e \in OutEdges(u)}

(* update_marking_rule1: what every edge (u, i, v) adds for each d marked at v. *)
UpdateMarkingRule1(M, u) ==
  M[u] \cup UNION {UNION {BelongsIntersection(Flow[<<u, e[2], d>>], VGraph[u], VName[u]) :
                             d \in M[e[3]]} : e \in OutEdges(u)}

(* update_marking_rule2(i, Vj, Bj, Vk, Bk, u, v): the belongs set it is    *)
(* handed as B is that of u's graph j, for both Y and X.                   *)
UpdateMarkingRule2(M, u, i, v) ==
  LET k == VGraph[u]
  IN  M[u] \cup UNION {BelongsIntersection(Flow[<<u, i, d>>], k, VName[u]) :
                        d \in {d \in M[v] : d \notin Belongs(k, VName[v])}}

(***************************************************************************)
(* One vertex u of graph j in the rule-2 pass: for each predicate variable *)
(* i of X with target Y and each vertex v = Y(f) of a graph k > j, rule 2  *)
(* is applied when v marks a d that is not in Bk[Y].  Rule 2 only writes   *)
(* u, which lies in another graph than every v it reads.                   *)
(***************************************************************************)
ExtUpdate(M, u) ==
  LET X == VName[u]
      pairs == {p \in PredIdx(X) \X Vertices :
                  /\ VGraph[p[2]] > VGraph[u]
                  /\ VName[p[2]] = Target(X, p[1])
                  /\ \E d \in M[p[2]] : d \notin Belongs(VGraph[p[2]], VName[p[2]])}
  IN  M[u] \cup UNION {UpdateMarkingRule2(M, u, p[1], p[2]) : p \in pairs}

-----------------------------------------------------------------------------
Init ==
  /\ sig \in SigChoices
  /\ marking = [u \in Vertices |-> {}]
  /\ pc = "init"
  /\ j = 0
  /\ todo = {}
  /\ pending = {}
  /\ stableint = FALSE
  /\ stableext = FALSE
(* Mutant: the significant variables are marked without the belongs filter. *)
InitialMarking_Unfiltered ==
  /\ pc = "init"
  /\ marking' = sig
  /\ pc' = "int_round"
  /\ UNCHANGED <<sig, j, todo, pending, stableint, stableext>>


(* The initial marking: significant variables that belong. *)
InitialMarking ==
  /\ pc = "init"
  /\ marking' = [u \in Vertices |-> BelongsIntersection(sig[u], VGraph[u], VName[u])]
  /\ pc' = "int_round"
  /\ UNCHANGED <<sig, j, todo, pending, stableint, stableext>>
(* Mutant: stableint is not set back to true at the start of a round. *)
IntRound_NoReset ==
  /\ pc = "int_round"
  /\ j' = 0
  /\ todo' = VerticesOf(0)
  /\ pc' = "int_loop"
  /\ UNCHANGED <<sig, marking, pending, stableint, stableext>>


(* while (!stableint): stableint = true, then the graphs in order. *)
IntRound ==
  /\ pc = "int_round"
  /\ stableint' = TRUE
  /\ j' = 0
  /\ todo' = VerticesOf(0)
  /\ pc' = "int_loop"
  /\ UNCHANGED <<sig, marking, pending, stableext>>
(* Mutant: a change re-queues the successors but leaves stableint alone. *)
IntStep_KeepsStable ==
  /\ pc = "int_loop"
  /\ \E u \in todo :
       LET new == UpdateMarkingRule1(marking, u)
       IN  /\ marking' = [marking EXCEPT ![u] = new]
           /\ todo' = IF new # marking[u] THEN (todo \ {u}) \cup Successors(u) ELSE todo \ {u}
  /\ UNCHANGED <<sig, pc, j, pending, stableint, stableext>>

(* Mutant: the loop over the graphs runs to j = J. *)
IntNextGraph_Overrun ==
  /\ pc = "int_loop" /\ todo = {} /\ j < J
  /\ j' = j + 1
  /\ todo' = VerticesOf(j + 1)
  /\ UNCHANGED <<sig, marking, pc, pending, stableint, stableext>>


(***************************************************************************)
(* Take a vertex off the worklist (std::set of pointers: the order is that *)
(* of the addresses, so any) and apply rule 1; when its marking grew, its  *)
(* successors go back on the worklist and the round is not stable.         *)
(***************************************************************************)
IntStep ==
  /\ pc = "int_loop"
  /\ \E u \in todo :
       LET new == UpdateMarkingRule1(marking, u)
           changed == new # marking[u]
       IN  /\ marking' = [marking EXCEPT ![u] = new]
           /\ todo' = IF changed THEN (todo \ {u}) \cup Successors(u) ELSE todo \ {u}
           /\ stableint' = (stableint /\ ~changed)
  /\ UNCHANGED <<sig, pc, j, pending, stableext>>

IntNextGraph ==
  /\ pc = "int_loop" /\ todo = {} /\ j < J - 1
  /\ j' = j + 1
  /\ todo' = VerticesOf(j + 1)
  /\ UNCHANGED <<sig, marking, pc, pending, stableint, stableext>>

IntEnd ==
  /\ pc = "int_loop" /\ todo = {} /\ j = J - 1
  /\ pc' = IF stableint THEN "ext_round" ELSE "int_round"
  /\ UNCHANGED <<sig, marking, j, todo, pending, stableint, stableext>>

ExtRound ==
  /\ pc = "ext_round"
  /\ stableext' = TRUE
  /\ j' = 0
  /\ pending' = VerticesOf(0)
  /\ pc' = "ext_loop"
  /\ UNCHANGED <<sig, marking, todo, stableint>>

(* The rule-2 pass at one vertex of graph j; a change unsettles both loops. *)
ExtStep ==
  /\ pc = "ext_loop"
  /\ \E u \in pending :
       LET new == ExtUpdate(marking, u)
           changed == new # marking[u]
       IN  /\ marking' = [marking EXCEPT ![u] = new]
           /\ pending' = pending \ {u}
           /\ stableint' = (stableint /\ ~changed)
           /\ stableext' = (stableext /\ ~changed)
  /\ UNCHANGED <<sig, pc, j, todo>>

ExtNextGraph ==
  /\ pc = "ext_loop" /\ pending = {} /\ j < J - 1
  /\ j' = j + 1
  /\ pending' = VerticesOf(j + 1)
  /\ UNCHANGED <<sig, marking, pc, todo, stableint, stableext>>

(* End of a rule-2 pass: repeat it, or stable = stableint. *)
ExtEnd ==
  /\ pc = "ext_loop" /\ pending = {} /\ j = J - 1
  /\ pc' = CASE ~stableext -> "ext_round"
             [] stableint  -> "done"
             [] OTHER      -> "int_round"
  /\ UNCHANGED <<sig, marking, j, todo, pending, stableint, stableext>>

Next ==
  \/ InitialMarking \/ IntRound \/ IntStep \/ IntNextGraph \/ IntEnd
  \/ ExtRound \/ ExtStep \/ ExtNextGraph \/ ExtEnd

(* run() executes the loops on one thread to their end. *)
Spec == Init /\ [][Next]_vars /\ WF_vars(Next)

-----------------------------------------------------------------------------
(* The reference: the least marking above the initial one that both rules  *)
(* leave unchanged, computed by plain iteration.                           *)
InitialMarkingOf == [u \in Vertices |-> BelongsIntersection(sig[u], VGraph[u], VName[u])]
RulesApplied(M) == [u \in Vertices |-> UpdateMarkingRule1(M, u) \cup ExtUpdate(M, u)]
RECURSIVE LeastFixpointFrom(_)
LeastFixpointFrom(M) == IF RulesApplied(M) = M THEN M ELSE LeastFixpointFrom(RulesApplied(M))

(***************************************************************************)
(* is_marked_in_other_graph(Y, d, k0): some graph k other than k0 has      *)
(* (Y, d) in its belongs set and a vertex Y(e) whose marking holds d.      *)
(***************************************************************************)
IsMarkedInOtherGraph(M, Y, d, k0) ==
  \E k \in (0 .. J - 1) \ {k0} :
    /\ d \in Belongs(k, Y)
    /\ \E v \in VerticesOf(k) : VName[v] = Y /\ d \in M[v]

(***************************************************************************)
(* compute_control_flow_marking_old, lines 469-599.  Its rule 1 (lines     *)
(* 518-553): for an edge (u, i, v) and each d marked at v, the variables   *)
(* of the argument for d, not substituted, that belong to u's equation in *)
(* u's graph.  Its cross-graph rule (lines 556-594): for a predicate       *)
(* variable i of X = name(u) with target Y and a parameter d of Y not in  *)
(* Bk[Y], the variables of Bk[X] in the argument for d once d is marked    *)
(* for Y in another graph.  Both rules only add, so the loop, which runs  *)
(* until a whole pass changes nothing, ends at their least fixpoint above  *)
(* the initial marking, whatever the order of its worklist.                *)
(***************************************************************************)
OldRule1(M, u) ==
  M[u] \cup UNION {UNION {ArgFV[<<VName[u], e[2], d>>] \cap Belongs(VGraph[u], VName[u]) :
                            d \in M[e[3]]} : e \in OutEdges(u)}

OldCrossRule(M, u) ==
  LET k == VGraph[u]
      X == VName[u]
      calls == UNION {{<<i, d>> : d \in Params[Target(X, i)]} : i \in PredIdx(X)}
  IN  M[u] \cup UNION {Belongs(k, X) \cap ArgFV[<<X, c[1], c[2]>>] :
                         c \in {c \in calls : /\ c[2] \notin Belongs(k, Target(X, c[1]))
                                              /\ IsMarkedInOtherGraph(M, Target(X, c[1]), c[2], k)}}

RECURSIVE OldFixpointFrom(_)
OldFixpointFrom(M) ==
  LET next == [u \in Vertices |-> OldRule1(M, u) \cup OldCrossRule(M, u)]
  IN  IF next = M THEN M ELSE OldFixpointFrom(next)

compute_control_flow_marking_old == OldFixpointFrom(InitialMarkingOf)

-----------------------------------------------------------------------------
(* Properties *)

TypeOK ==
  /\ sig \in SigChoices
  /\ marking \in [Vertices -> SUBSET UNION {Params[X] : X \in Names}]
  /\ pc \in {"init", "int_round", "int_loop", "ext_round", "ext_loop", "done"}
  /\ j \in 0 .. J - 1
  /\ todo \subseteq Vertices /\ pending \subseteq Vertices
  /\ stableint \in BOOLEAN /\ stableext \in BOOLEAN

(***************************************************************************)
(* Every variable marked at a vertex X(e) of graph k belongs to X in graph *)
(* k.  A marked variable of Y that is no parameter of Y makes             *)
(* find_parameter_index throw "variable not found" in rule 1.              *)
(***************************************************************************)
MarkingWithinBelongs ==
  \A u \in Vertices : marking[u] \subseteq Belongs(VGraph[u], VName[u])

(***************************************************************************)
(* When compute_control_flow_marking returns, the marking is the least     *)
(* fixpoint of its two rules above the initial marking.  The worklist puts *)
(* the successors of a changed vertex back, while rule 1 reads successors  *)
(* to update predecessors, so the outer loop has to catch what the         *)
(* worklist misses.                                                        *)
(***************************************************************************)
ResultIsLeastFixpoint ==
  pc = "done" => marking = LeastFixpointFrom(InitialMarkingOf)

(***************************************************************************)
(* compute_control_flow_marking marks no parameter that the old algorithm *)
(* does not: substituting the vertex's value before taking the free       *)
(* variables of an argument can only remove dependencies, and the rule-2  *)
(* pass only adds variables the argument reads.                           *)
(***************************************************************************)
MarkingWithinOld ==
  pc = "done" => \A u \in Vertices : marking[u] \subseteq compute_control_flow_marking_old[u]

(* The loops of compute_control_flow_marking terminate. *)
Terminates == <>(pc = "done")

(***************************************************************************)
(* The cross-graph rule of compute_control_flow_marking_old (lines 562-594 *)
(* with is_marked_in_other_graph, lines 178-209) holds of the result: when *)
(* a parameter d of Y is not in Bk[Y] but is marked for Y in another graph, *)
(* the variables of X in Bk that the argument for d uses are marked at     *)
(* every vertex X(e) of graph k calling Y.                                 *)
(***************************************************************************)
CrossGraphMarkingPropagated ==
  pc = "done" =>
    \A u \in Vertices :
      LET k == VGraph[u]  X == VName[u] IN
      \A i \in PredIdx(X) : \A d \in Params[Target(X, i)] :
        (d \notin Belongs(k, Target(X, i)) /\ IsMarkedInOtherGraph(marking, Target(X, i), d, k))
          => Belongs(k, X) \cap ArgFV[<<X, i, d>>] \subseteq marking[u]
=============================================================================
