---------------------------- MODULE UnorderedSet ----------------------------
(***************************************************************************)
(* The hash set behind the term store's interning table                    *)
(* (src/libraries/utilities/include/mcrl2/utilities/                       *)
(*  unordered_set_implementation.h): separate chaining over a power-of-two *)
(* number of buckets, a bucket index computed as hash & mask, new nodes    *)
(* pushed at the front of their bucket, an element counter, and a rehash   *)
(* that doubles the buckets when the load factor reaches its maximum       *)
(* (unless the set is instantiated ThreadSafe).                            *)
(*                                                                         *)
(* Each call runs to completion: concurrent callers must serialise their   *)
(* calls with a global lock (spec.md section 5).                           *)
(***************************************************************************)
EXTENDS Integers, Sequences, FiniteSets, Bitwise

CONSTANTS
  Keys,           \* the keys that can be stored (model values)
  Hash,           \* Keys -> Nat, the hash function m_hash
  MaxLoadFactor,  \* max_load_factor(), a whole number here
  ThreadSafe,     \* the ThreadSafe template parameter
  RehashArgs,     \* the arguments offered to the public rehash(n)
  MaxBuckets,     \* bound on the bucket count (model size)
  None

ASSUME Hash \in [Keys -> Nat] /\ MaxLoadFactor \in Nat \ {0} /\ ThreadSafe \in BOOLEAN

VARIABLES
  buckets,   \* m_buckets: bucket index -> sequence of keys, front first
  mask,      \* m_buckets_mask
  count,     \* m_number_of_elements
  inserted,  \* the bool that the last emplace returned (None before any)
  counted    \* what the last count(k) returned (None before any)

svars == <<buckets, mask, count, inserted, counted>>

minimum_size == 4

BucketCount == Len(buckets)

(* utilities::round_up_to_power_of_two *)
RoundUpToPowerOfTwo(n) ==
  CHOOSE p \in {2^e : e \in 0 .. n} : p >= n /\ (p = 1 \/ p \div 2 < n)

(* find_bucket_index: hash & m_buckets_mask, a 0-based bucket number. *)
FindBucketIndex(k) == Hash[k] & mask

(* Mutant: the bucket walk stops after its first node. *)
FindImpl_FrontOnly(b, k) == buckets[b + 1] # <<>> /\ buckets[b + 1][1] = k

(* find_impl: is a key equal to k in bucket b? *)
FindImpl(b, k) == \E j \in DOMAIN buckets[b + 1] : buckets[b + 1][j] = k

Stored == UNION {{buckets[b][j] : j \in DOMAIN buckets[b]} : b \in DOMAIN buckets}

TotalNodes == LET Sizes[b \in 0 .. BucketCount] ==
                    IF b = 0 THEN 0 ELSE Sizes[b - 1] + Len(buckets[b])
              IN  Sizes[BucketCount]

(* The table rebuilt by rehash: nb buckets, filled from the node list. *)
Refill(old_keys, nb) ==
  LET Fill[j \in 0 .. Len(old_keys)] ==
        IF j = 0 THEN [b \in 1 .. nb |-> <<>>]
        ELSE LET k == old_keys[j]
                 b == (Hash[k] & (nb - 1)) + 1
             IN  [Fill[j - 1] EXCEPT ![b] = <<k>> \o @]
  IN  Fill[Len(old_keys)]

(* All nodes of a table, collected bucket by bucket, each pushed at the   *)
(* front of one list (so the list comes out reversed).                    *)
CollectNodes(tbl) ==
  LET F[b \in 0 .. Len(tbl)] == IF b = 0 THEN <<>> ELSE F[b - 1] \o tbl[b]
      flat == F[Len(tbl)]
  IN  [j \in 1 .. Len(flat) |-> flat[Len(flat) + 1 - j]]

(* Mutant: the requested size is not rounded up to a power of two. *)
RehashSize_Unrounded(n) == IF n > minimum_size THEN n ELSE minimum_size

(* The requested size: a power of two, at least minimum_size. *)
RehashSize(n) ==
  IF RoundUpToPowerOfTwo(n) > minimum_size THEN RoundUpToPowerOfTwo(n) ELSE minimum_size


(* Mutant: m_buckets_mask keeps its old value. *)
Rehashed_KeepsMask(tbl, msk, n) ==
  IF RehashSize(n) <= Len(tbl) THEN [tbl |-> tbl, mask |-> msk]
  ELSE [tbl |-> Refill(CollectNodes(tbl), RehashSize(n)), mask |-> msk]

(***************************************************************************)
(* rehash(number_of_buckets): the table and mask after the call.  Only a   *)
(* larger table is built; the node list is inserted node by node, each at  *)
(* the front of its new bucket, and the mask becomes size - 1.  The        *)
(* element counter is not touched.                                         *)
(***************************************************************************)
Rehashed(tbl, msk, n) ==
  IF RehashSize(n) <= Len(tbl) THEN [tbl |-> tbl, mask |-> msk]
  ELSE [tbl |-> Refill(CollectNodes(tbl), RehashSize(n)), mask |-> RehashSize(n) - 1]

(* The public rehash(n), when it grows the table. *)
Rehash(n) ==
  /\ RehashSize(n) > BucketCount
  /\ RehashSize(n) <= MaxBuckets
  /\ LET r == Rehashed(buckets, mask, n) IN buckets' = r.tbl /\ mask' = r.mask
  /\ UNCHANGED <<count, inserted, counted>>

(* rehash_if_needed: load_factor() >= max_load_factor() and not ThreadSafe. *)
NeedsRehash(n, nb) == n >= MaxLoadFactor * nb /\ ~ThreadSafe

(***************************************************************************)
(* emplace_impl(bucket_index, k): push a new node at the front of bucket   *)
(* b, count it, and rehash to twice the buckets when the load factor has  *)
(* reached its maximum (rehash_if_needed).                                 *)
(***************************************************************************)
emplace_impl(b, k) ==
  LET pushed == [buckets EXCEPT ![b + 1] = <<k>> \o @]
      grown  == IF NeedsRehash(count + 1, BucketCount)
                  THEN Rehashed(pushed, mask, 2 * BucketCount)
                  ELSE [tbl |-> pushed, mask |-> mask]
  IN  /\ Len(grown.tbl) <= MaxBuckets
      /\ buckets' = grown.tbl /\ mask' = grown.mask
      /\ count' = count + 1
      /\ inserted' = TRUE
      /\ UNCHANGED counted

(* emplace(k): look the key up in its bucket, and emplace_impl if absent. *)
Emplace(k) ==
  LET b == FindBucketIndex(k)
  IN  IF FindImpl(b, k)
        THEN inserted' = FALSE /\ UNCHANGED <<buckets, mask, count, counted>>
        ELSE emplace_impl(b, k)

(* Mutant: the counter is decremented whether or not the key was found. *)
EraseKey_AlwaysCounts(k) ==
  LET b == FindBucketIndex(k) + 1
      pos == {j \in DOMAIN buckets[b] : buckets[b][j] = k}
  IN  /\ count' = count - 1
      /\ buckets' = IF pos = {} THEN buckets
                    ELSE LET j == CHOOSE j \in pos : \A i \in pos : j <= i
                         IN  [buckets EXCEPT ![b] = SubSeq(@, 1, j - 1) \o SubSeq(@, j + 1, Len(@))]
      /\ UNCHANGED <<mask, inserted, counted>>

(***************************************************************************)
(* erase(key): walk the key's bucket and unlink the first equal node,      *)
(* counting it; a key that is absent leaves the set as it is.              *)
(***************************************************************************)
EraseKey(k) ==
  LET b == FindBucketIndex(k) + 1
      pos == {j \in DOMAIN buckets[b] : buckets[b][j] = k}
  IN  /\ pos # {}
      /\ LET j == CHOOSE j \in pos : \A i \in pos : j <= i
         IN  buckets' = [buckets EXCEPT ![b] = SubSeq(@, 1, j - 1) \o SubSeq(@, j + 1, Len(@))]
      /\ count' = count - 1
      /\ UNCHANGED <<mask, inserted, counted>>

(***************************************************************************)
(* erase(it), for an iterator at node j of bucket b: the node after        *)
(* it.key_before_it() is unlinked and the counter decremented, without    *)
(* looking at the key.                                                     *)
(***************************************************************************)
EraseIterator(b, j) ==
  /\ buckets' = [buckets EXCEPT ![b] = SubSeq(@, 1, j - 1) \o SubSeq(@, j + 1, Len(@))]
  /\ count' = count - 1
  /\ UNCHANGED <<mask, inserted, counted>>

(* count(k): find(k) != end(), the lookup in the bucket hash & mask names. *)
Count(k) ==
  /\ counted' = FindImpl(FindBucketIndex(k), k)
  /\ UNCHANGED <<buckets, mask, count, inserted>>

(* clear(): erase every node through the iterator, one decrement each. *)
Clear ==
  /\ buckets' = [b \in DOMAIN buckets |-> <<>>]
  /\ count' = count - TotalNodes
  /\ UNCHANGED <<mask, inserted, counted>>

Init ==
  /\ buckets = [b \in 1 .. minimum_size |-> <<>>]
  /\ mask = minimum_size - 1
  /\ count = 0
  /\ inserted = None
  /\ counted = None

Next ==
  \/ \E k \in Keys : Emplace(k) \/ EraseKey(k) \/ Count(k)
  \/ \E b \in DOMAIN buckets : \E j \in DOMAIN buckets[b] : EraseIterator(b, j)
  \/ \E n \in RehashArgs : Rehash(n)
  \/ Clear

Spec == Init /\ [][Next]_svars

-----------------------------------------------------------------------------
(* Properties *)

TypeOK ==
  /\ BucketCount \in {2^e : e \in 2 .. 10} /\ BucketCount <= MaxBuckets
  /\ \A b \in DOMAIN buckets : buckets[b] \in Seq(Keys)
  /\ mask \in Nat /\ count \in Int
  /\ inserted \in BOOLEAN \cup {None} /\ counted \in BOOLEAN \cup {None}

(***************************************************************************)
(* Hash-consing rests on this: however emplace, erase, clear and the two   *)
(* kinds of rehash interleave, no key is ever stored in two nodes.  A key  *)
(* left in a bucket that its current hash & mask does not name is missed  *)
(* by the next emplace, which then stores it a second time.               *)
(***************************************************************************)
UniqueKeys ==
  \A b1, b2 \in DOMAIN buckets :
    \A j1 \in DOMAIN buckets[b1], j2 \in DOMAIN buckets[b2] :
      buckets[b1][j1] = buckets[b2][j2] => b1 = b2 /\ j1 = j2

(***************************************************************************)
(* m_number_of_elements, which size() and the load factor read, equals the *)
(* number of nodes after any sequence of calls, rehashes included.         *)
(***************************************************************************)
CountIsExact == count = TotalNodes

(* The set the table stands for, and the abstract specification. *)
Abstract == INSTANCE SetSpec WITH contents <- Stored, inserted <- inserted,
                                  counted <- counted

(***************************************************************************)
(* The table implements a set: emplace reports whether the key was new,    *)
(* count whether it is present, erase (by key or iterator) removes exactly *)
(* the key, clear empties it, rehash changes nothing a client can see.     *)
(***************************************************************************)
ImplementsSet == Abstract!Spec
=============================================================================
