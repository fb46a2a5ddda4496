--------------------------------- MODULE Mmu ----------------------------------
(***************************************************************************)
(* Mmu (crates/fs-mmu) under Snapshot (crates/fs-platform): guest RAM whose *)
(* snapshot reset copies back only the 64-byte blocks marked dirty.  Content*)
(* writes mark their block; the permission-only operations (protect, poison,*)
(* set_vtaint, write_shadow) do not.                                        *)
(*                                                                          *)
(* The dirty list is modelled as the number of times it holds each block    *)
(* (its order never matters), the dirty bitmap as the set of marked blocks. *)
(***************************************************************************)
EXTENDS GuestBytes

CONSTANTS DIRTY_BLOCK,   \* bytes per dirty block (64)
          WORD_BITS      \* blocks per word of the dirty bitmap (64)

ASSUME BlockAssumption ==
  /\ DIRTY_BLOCK \in Nat /\ DIRTY_BLOCK > 0
  /\ WORD_BITS \in Nat /\ WORD_BITS > 0

BlockOf(i) == i \div DIRTY_BLOCK
WordOf(b) == b \div WORD_BITS
Blocks == {BlockOf(i) : i \in Offs}

VARIABLES mem, perms,      \* the working planes
          gmem, gperms,    \* Snapshot's golden planes
          dirty,           \* block -> entries in the dirty list
          dirty_bitmap     \* blocks whose bitmap bit is set

mmuVars == <<mem, perms, dirty, dirty_bitmap>>
goldenVars == <<gmem, gperms>>

DirtyBlocks == {b \in Blocks : dirty[b] > 0}

\* The state Snapshot::capture leaves: golden is a copy of the planes, tracking
\* is switched on and everything is clean.
MmuInit ==
  /\ mem \in [Offs -> Val]
  /\ perms \in [Offs -> Perm]
  /\ gmem = mem
  /\ gperms = perms
  /\ dirty = [b \in Blocks |-> 0]
  /\ dirty_bitmap = {}

\* Mutant: the bitmap is set but not tested.
MarkDirty_NoTest(S) ==
  LET touched == {BlockOf(i) : i \in S}
  IN  /\ dirty' = [b \in Blocks |-> IF b \in touched THEN dirty[b] + 1 ELSE dirty[b]]
      /\ dirty_bitmap' = dirty_bitmap \cup touched

\* Mutant: the block number is rounded up.
MarkDirty_RoundsUp(S) ==
  LET touched == {BlockOf(i + DIRTY_BLOCK - 1) : i \in S}
  IN  /\ dirty' = [b \in Blocks |->
                     IF b \in touched \ dirty_bitmap THEN dirty[b] + 1 ELSE dirty[b]]
      /\ dirty_bitmap' = dirty_bitmap \cup touched

\* mark_dirty for every byte of S: a block is pushed only if its bit is clear.
MarkDirty(S) ==
  LET touched == {BlockOf(i) : i \in S}
  IN  /\ dirty' = [b \in Blocks |->
                     IF b \in touched \ dirty_bitmap THEN dirty[b] + 1 ELSE dirty[b]]
      /\ dirty_bitmap' = dirty_bitmap \cup touched

\* write, with its byte-wise fallback: what was committed before a fault is
\* marked dirty as well.
MmuStore(a, n, d) ==
  LET S == Committed(perms, a, n)
  IN  /\ mem' = StoredMem(mem, S, a, d)
      /\ perms' = StoredPerms(perms, S)
      /\ MarkDirty(S)

\* write, then the store_taint scatter a successful store makes under KMSAN.
MmuTaintedStore(a, n, d, mask) ==
  LET S == Committed(perms, a, n)
  IN  /\ mem' = StoredMem(mem, S, a, d)
      /\ perms' = IF Verdict(perms, a, n, "WRITE").ok
                    THEN ShadowedPerms(StoredPerms(perms, S), S, mask)
                    ELSE StoredPerms(perms, S)
      /\ MarkDirty(S)

\* Mutant: the fast path forgets to mark what it writes.
MmuFastStore_Unmarked(a, n, d) ==
  /\ FastOk(perms, a, n, {"READ", "WRITE"})
  /\ mem' = FastStoredMem(mem, a, n, d)
  /\ UNCHANGED <<perms, dirty, dirty_bitmap>>

\* A chain-JIT store through fast_ptr, which marks its blocks before handing the
\* pointer out.
MmuFastStore(a, n, d) ==
  /\ FastOk(perms, a, n, {"READ", "WRITE"})
  /\ mem' = FastStoredMem(mem, a, n, d)
  /\ MarkDirty(Span(a, n))
  /\ UNCHANGED perms

\* protect stamps byte by byte and stops at the first byte outside RAM.
Stamped(p0, a, n, p) == [i \in Offs |-> IF i \in Span(a, n) THEN p ELSE p0[i]]
\* set_vtaint ORs one bit and keeps the others.
Tainted(p0, a, n) == [i \in Offs |-> IF i \in Span(a, n) THEN p0[i] \cup {"VTAINT"} ELSE p0[i]]
InRam(a, n) == Span(a, n) \subseteq Offs

\* reset_dirty: both planes of every block in the dirty list, then clear_dirty,
\* which zeroes the whole bitmap word of each listed block.
ResetMem == [i \in Offs |-> IF BlockOf(i) \in DirtyBlocks THEN gmem[i] ELSE mem[i]]
ResetPerms == [i \in Offs |-> IF BlockOf(i) \in DirtyBlocks THEN gperms[i] ELSE perms[i]]
ClearDirty ==
  /\ dirty' = [b \in Blocks |-> 0]
  /\ dirty_bitmap' = {b \in dirty_bitmap : \A c \in DirtyBlocks : WordOf(c) # WordOf(b)}

-------------------------------------------------------------------------------
MmuTypeOK ==
  /\ mem \in [Offs -> Val] /\ perms \in [Offs -> Perm]
  /\ gmem \in [Offs -> Val] /\ gperms \in [Offs -> Perm]
  /\ dirty \in [Blocks -> Nat]
  /\ dirty_bitmap \subseteq Blocks

\* The bitmap says exactly which blocks the list holds, each once: clear_dirty
\* may therefore drop whole words, and the list never outgrows RAM
\* (Mmu::mark_dirty, Mmu::clear_dirty).
BitmapMatches ==
  \A b \in Blocks : dirty[b] = IF b \in dirty_bitmap THEN 1 ELSE 0

\* A byte whose content left golden lies in a block reset_dirty copies back.
ContentCovered == \A i \in Offs : mem[i] # gmem[i] => BlockOf(i) \in DirtyBlocks
===============================================================================
