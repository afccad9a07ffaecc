--------------------------- MODULE MCUnorderedSet ---------------------------
(***************************************************************************)
(* Five keys whose hashes collide in the four initial buckets (k1, k2 and  *)
(* k5 share bucket 0; k3 and k4 bucket 1) and separate only after one or   *)
(* two doublings, so that emplace, erase and rehash meet crowded buckets.  *)
(***************************************************************************)
EXTENDS UnorderedSet, TLC

CONSTANTS k1, k2, k3, k4, k5

MCKeys == {k1, k2, k3, k4, k5}
MCHash == (k1 :> 0) @@ (k2 :> 4) @@ (k3 :> 1) @@ (k4 :> 5) @@ (k5 :> 12)
=============================================================================
