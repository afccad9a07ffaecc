------------------------------ MODULE SetSpec ------------------------------
(***************************************************************************)
(* What the interning set promises its clients: a finite set of keys with *)
(* emplace (insert, reporting whether the key was new), count, erase and  *)
(* clear.                                                                   *)
(***************************************************************************)
CONSTANTS Keys, None

VARIABLES contents, inserted, counted
vars == <<contents, inserted, counted>>

Init == contents = {} /\ inserted = None /\ counted = None

Insert(k) == contents' = contents \cup {k} /\ inserted' = (k \notin contents)
             /\ UNCHANGED counted

Member(k) == counted' = (k \in contents) /\ UNCHANGED <<contents, inserted>>

Remove(k) == k \in contents /\ contents' = contents \ {k} /\ UNCHANGED <<inserted, counted>>

ClearAll == contents # {} /\ contents' = {} /\ UNCHANGED <<inserted, counted>>

Next == \E k \in Keys : Insert(k) \/ Member(k) \/ Remove(k) \/ ClearAll

Spec == Init /\ [][Next]_vars
=============================================================================
