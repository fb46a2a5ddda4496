---------------------------- MODULE MCParallelFuzz ----------------------------
(***************************************************************************)
(* Two workers and four cases over five programs: two that advance one      *)
(* bucket each, one that dominates both and crashes, one with nothing new   *)
(* that crashes with the same signature, and one that shows nothing.        *)
(***************************************************************************)
EXTENDS ParallelFuzz

MCHits ==
  [p \in Progs |-> CASE p = "left" -> [b \in Buckets |-> IF b = 1 THEN 2 ELSE 0]
                     [] p = "right" -> [b \in Buckets |-> IF b = 2 THEN 1 ELSE 0]
                     [] p = "both" -> [b \in Buckets |-> IF b = 1 THEN 200 ELSE 1]
                     [] OTHER -> NoHits]
MCSig == [p \in Progs |-> IF p \in {"both", "oops"} THEN "sig" ELSE NoCrash]
MCOutcome ==
  [p \in Progs |-> CASE p \in {"left", "idle"} -> "done" [] p = "oops" -> "other" [] OTHER -> "budget"]
===============================================================================
