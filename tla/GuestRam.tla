------------------------------- MODULE GuestRam -------------------------------
(***************************************************************************)
(* What a fuzz case may assume of guest RAM, whatever implements it: one    *)
(* flat byte array with permissions, and a Reset that puts every byte of    *)
(* both planes back to the golden snapshot.  CowRam implements this by      *)
(* overlaying pages, Mmu by copying dirty blocks back.                      *)
(***************************************************************************)
EXTENDS GuestBytes

VARIABLES gmem, gperms,   \* the golden planes
          mem, perms,     \* the working planes
          res             \* what the last operation returned

gvars == <<gmem, gperms>>
vars == <<gmem, gperms, mem, perms, res>>

Init ==
  /\ gmem \in [Offs -> Val]
  /\ gperms \in [Offs -> Perm]
  /\ mem = gmem
  /\ perms = gperms
  /\ res = Ok

Load(a, n, flag) ==
  /\ res' = ReadResult(mem, perms, a, n, flag)
  /\ UNCHANGED <<gmem, gperms, mem, perms>>

Store(a, n, d) ==
  /\ mem' = StoredMem(mem, Committed(perms, a, n), a, d)
  /\ perms' = StoredPerms(perms, Committed(perms, a, n))
  /\ res' = Verdict(perms, a, n, "WRITE")
  /\ UNCHANGED gvars

Shadow(a, n, mask) ==
  /\ Aligned(a, n)
  /\ perms' = ShadowedPerms(perms, Span(a, n) \cap Offs, mask)
  /\ res' = Ok
  /\ UNCHANGED <<gmem, gperms, mem>>

Reset ==
  /\ mem' = gmem
  /\ perms' = gperms
  /\ res' = Ok
  /\ UNCHANGED gvars

Next ==
  \/ \E n \in Widths, a \in 0 .. Size :
       \/ \E flag \in {"READ", "EXEC"} : Load(a, n, flag)
       \/ \E d \in [0 .. n - 1 -> Val] : Store(a, n, d)
       \/ \E mask \in SUBSET Span(a, n) : Shadow(a, n, mask)
  \/ Reset

Spec == Init /\ [][Next]_vars
===============================================================================
