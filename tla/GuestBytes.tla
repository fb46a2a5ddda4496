------------------------------ MODULE GuestBytes ------------------------------
(***************************************************************************)
(* The byte planes of the soft MMU (crates/fs-mmu): one value and one set   *)
(* of permission flags per byte of guest RAM, and what a checked access     *)
(* returns or commits.  Mmu, CowRam and the abstract GuestRam are all built *)
(* from these operators.  Addresses are offsets from the RAM base, which    *)
(* is aligned to every access width.                                        *)
(***************************************************************************)
EXTENDS Integers

CONSTANTS Size,     \* bytes of guest RAM
          Val,      \* byte values
          Widths    \* access widths the bus offers (1, 2 and 4 in the code)

ASSUME SizeAssumption == Size \in Nat /\ Size > 0
ASSUME WidthsAssumption == Widths \subseteq Nat \ {0}

\* The permission bits PERM_*; a permission byte is a set of them.
Flags == {"READ", "WRITE", "EXEC", "RAW", "ACC", "VTAINT"}
Perm == SUBSET Flags

FAST_PTR_FORBIDDEN == {"RAW", "ACC"}

Offs == 0 .. Size - 1
Span(a, n) == a .. a + n - 1

\* check_align: 1/2/4-byte accesses must be naturally aligned.
Aligned(a, n) == a % n = 0

Fault(a, kind) == [ok |-> FALSE, addr |-> a, kind |-> kind]
Ok == [ok |-> TRUE]

\* in-bounds and carrying the flag the access needs
Allows(perms, i, flag) == i \in Offs /\ flag \in perms[i]

\* The first byte of the access that the byte-wise path faults on.
FirstBad(perms, a, n, flag) ==
  CHOOSE i \in Span(a, n) :
    /\ ~Allows(perms, i, flag)
    /\ \A j \in Span(a, n) : j < i => Allows(perms, j, flag)

\* The verdict on an access, whichever of the fast and byte-wise paths runs:
\* alignment first, then the lowest byte that is unmapped or not permitted.
Verdict(perms, a, n, flag) ==
  IF ~Aligned(a, n)
    THEN Fault(a, "Unaligned")
  ELSE IF \A i \in Span(a, n) : Allows(perms, i, flag)
    THEN Ok
  ELSE LET b == FirstBad(perms, a, n, flag)
       IN  Fault(b, IF b \in Offs THEN "Permission" ELSE "Unmapped")

\* read and fetch_bytes: the bytes, or the fault.
ReadResult(mem, perms, a, n, flag) ==
  LET v == Verdict(perms, a, n, flag)
  IN  IF v.ok THEN [ok |-> TRUE, data |-> [k \in 0 .. n - 1 |-> mem[a + k]]]
      ELSE v

\* The bytes a store commits.  The byte-wise path commits every byte below the
\* first one it faults on, and an unaligned store commits none.
Committed(perms, a, n) ==
  IF Aligned(a, n)
    THEN {i \in Span(a, n) : \A j \in a .. i : Allows(perms, j, "WRITE")}
  ELSE {}

\* A committed byte becomes readable and initialised.
Upgrade(p) == (p \cup {"READ"}) \ {"RAW"}

StoredMem(mem, S, a, d) == [i \in Offs |-> IF i \in S THEN d[i - a] ELSE mem[i]]
StoredPerms(perms, S) ==
  [i \in Offs |-> IF i \in S THEN Upgrade(perms[i]) ELSE perms[i]]

\* write_shadow: VTAINT is set on the bytes of mask and cleared on the others.
ShadowPerm(p, tainted) == IF tainted THEN p \cup {"VTAINT"} ELSE p \ {"VTAINT"}
ShadowedPerms(perms, S, mask) ==
  [i \in Offs |-> IF i \in S THEN ShadowPerm(perms[i], i \in mask) ELSE perms[i]]

\* fast_ptr hands out a host pointer only if every byte has all of need and none
\* of FAST_PTR_FORBIDDEN; anything else must take the checked path.
FastOk(perms, a, n, need) ==
  /\ Aligned(a, n)
  /\ \A i \in Span(a, n) :
       i \in Offs /\ need \subseteq perms[i] /\ perms[i] \cap FAST_PTR_FORBIDDEN = {}

\* A store through that pointer changes the content and nothing else.
FastStoredMem(mem, a, n, d) ==
  [i \in Offs |-> IF i \in Span(a, n) THEN d[i - a] ELSE mem[i]]
===============================================================================
