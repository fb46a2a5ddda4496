------------------------------- MODULE Coverage -------------------------------
(***************************************************************************)
(* crates/fs-cov: a run's edge bitmap holds a saturating hit count for each *)
(* bucket; a virgin map holds, for each bucket, the highest hit-count class *)
(* any folded run has reached.                                              *)
(***************************************************************************)
EXTENDS Integers

CONSTANT Buckets

Count == 0 .. 255
Class == 0 .. 8
Bitmap == [Buckets -> Count]
VirginMap == [Buckets -> Class]

\* Mutant: counts are not classified.
ClassifyCount_Raw(count) == count

\* Equal counts up to 3, then powers of two, but one class for 32..127.
ClassifyCount(count) ==
  CASE count <= 3 -> count
    [] count \in 4 .. 7 -> 4
    [] count \in 8 .. 15 -> 5
    [] count \in 16 .. 31 -> 6
    [] count \in 32 .. 127 -> 7
    [] OTHER -> 8

NoHits == [b \in Buckets |-> 0]

Advances(virgin, map, b) == ClassifyCount(map[b]) > virgin[b]

\* VirginMap::has_new_bits answers HasNewBits and leaves the map Folded.
HasNewBits(virgin, map) == \E b \in Buckets : Advances(virgin, map, b)
Folded(virgin, map) ==
  [b \in Buckets |-> IF Advances(virgin, map, b) THEN ClassifyCount(map[b]) ELSE virgin[b]]
===============================================================================
