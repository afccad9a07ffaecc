------------------------- MODULE MCStategraphLocal -------------------------
(***************************************************************************)
(* Two equations X(a, b) and Y(c, d), each calling the other once.  Graph  *)
(* 0 holds X(e0) -> Y(f0) and no edge out of Y, so d, which Y's predicate *)
(* variable uses, does not belong to Y there; graph 1 holds the chain      *)
(* Y(f1) -> X(e1) -> Y(f2) -> X(e2) -> Y(f3), in which a marking has to  *)
(* travel backwards four steps.  The vertices of graph 1 are also the ones whose worklist    *)
(* order matters.                                                          *)
(***************************************************************************)
EXTENDS StategraphLocal, TLC

CONSTANTS x0, y0, y1, x1, y2, x2, y3

MCVertices == {x0, y0, y1, x1, y2, x2, y3}
MCVGraph == (x0 :> 0) @@ (y0 :> 0) @@ [u \in {y1, x1, y2, x2, y3} |-> 1]
MCVName == [u \in {x0, x1, x2} |-> "X"] @@ [u \in {y0, y1, y2, y3} |-> "Y"]
MCEdges == {<<x0, 0, y0>>, <<y1, 0, x1>>, <<x1, 0, y2>>, <<y2, 0, x2>>, <<x2, 0, y3>>}
MCParams == ("X" :> {"a", "b"}) @@ ("Y" :> {"c", "d"})
MCPredVars == ("X" :> <<"Y">>) @@ ("Y" :> <<"X">>)
MCUsed == ("X" :> <<{"a"}>>) @@ ("Y" :> <<{"d"}>>)
MCChanged == ("X" :> <<{}>>) @@ ("Y" :> <<{}>>)
(* Significant variables: none at X vertices, any at the Y vertices. *)
MCSigChoices == {(y0 :> s0) @@ (y1 :> s1) @@ (y3 :> s3) @@ [u \in MCVertices |-> {}] :
                   <<s0, s1, s3>> \in (SUBSET {"c", "d"}) \X (SUBSET {"c", "d"}) \X (SUBSET {"c", "d"})}

FlowDomain == UNION {{<<u, i, d>> : d \in MCParams[MCPredVars[MCVName[u]][i + 1]]} :
                       <<u, i>> \in {<<u, i>> \in MCVertices \X {0} : TRUE}}
MCFlowGiven == (<<x0, 0, "c">> :> {"b"}) @@ (<<x0, 0, "d">> :> {"a"})
            @@ (<<x2, 0, "c">> :> {"a"}) @@ (<<y2, 0, "a">> :> {"c"})
            @@ (<<x1, 0, "c">> :> {"a"}) @@ (<<y1, 0, "a">> :> {"c"})
MCFlow == [t \in FlowDomain |-> IF t \in DOMAIN MCFlowGiven THEN MCFlowGiven[t] ELSE {}]
(* The unsubstituted arguments: each holds the variables Flow gives it at *)
(* any vertex, since substituting a value only removes variables.          *)
MCArgFV == [t \in {<<"X", 0, "c">>, <<"X", 0, "d">>, <<"Y", 0, "a">>, <<"Y", 0, "b">>} |->
              CASE t = <<"X", 0, "c">> -> {"a", "b"}
                [] t = <<"X", 0, "d">> -> {"a"}
                [] t = <<"Y", 0, "a">> -> {"c"}
                [] OTHER -> {}]
=============================================================================
