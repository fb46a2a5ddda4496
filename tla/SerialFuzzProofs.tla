--------------------------- MODULE SerialFuzzProofs ---------------------------
(***************************************************************************)
(* For every RAM size, block size, heap layout and flag combination: the    *)
(* dirty list and its bitmap agree, every difference from golden is         *)
(* recorded, and so every case starts from the snapshot.  The replays of    *)
(* the crash minimiser do too unless --kmsan is on, and the replays of the  *)
(* KMSAN minimiser never meet a tainted byte.                               *)
(*                                                                          *)
(* Covered alone is not inductive: that mark_dirty may skip a block whose   *)
(* bit is set needs BitmapMatches, and a replay is golden only because no   *)
(* recorded range is outstanding in its phase (RangesPutBack).              *)
(***************************************************************************)
EXTENDS SerialFuzz, WellFoundedInduction, TLAPS

\* The part of TypeOK the induction needs.
Typing ==
  /\ MmuTypeOK
  /\ live \in [Objects -> LiveAlloc]
  /\ dirtied \subseteq Offs
  /\ opts \in Options
  /\ fresh \in BOOLEAN

Quiet == {"seeds", "sreplay", "kminimise", "kreplay"}
CrashPhases == {"minimise", "replay"}

\* Where no recorded range is outstanding.
RangesPutBack ==
  /\ phase \in Quiet => dirtied = {}
  /\ phase \in CrashPhases /\ ~opts.kmsan => dirtied = {}
  /\ ~opts.sanitize /\ ~opts.kmsan => dirtied = {}

Untainted(p) == \A i \in Offs : "VTAINT" \notin p[i] /\ "RAW" \notin p[i]

\* Golden has no taint, and neither has a replay of the KMSAN minimiser.
TaintAbsent ==
  /\ Untainted(gperms)
  /\ phase = "kreplay" => Untainted(perms) /\ regs_taint = FALSE /\ kmsan_hit = {}

MemInv == Typing /\ BitmapMatches /\ Covered /\ RangesPutBack
IInv == MemInv /\ CaseStartsGolden /\ ReplayStartsGolden /\ TaintAbsent

-------------------------------------------------------------------------------
LEMMA BlockFacts == \A i \in Offs : BlockOf(i) \in Blocks
  BY DEF Blocks

\* Marking keeps list and bitmap in step and loses no block.
LEMMA MarkDirtyKeeps ==
  ASSUME MmuTypeOK, BitmapMatches, NEW S \in SUBSET Offs, MarkDirty(S)
  PROVE  /\ dirty' \in [Blocks -> Nat] /\ dirty_bitmap' \subseteq Blocks
         /\ BitmapMatches'
         /\ \A b \in Blocks : dirty'[b] > 0 <=> (dirty[b] > 0 \/ b \in {BlockOf(i) : i \in S})
<1> DEFINE touched == {BlockOf(i) : i \in S}
<1>1. touched \subseteq Blocks
  BY BlockFacts
<1>2. /\ dirty' = [b \in Blocks |->
                     IF b \in touched \ dirty_bitmap THEN dirty[b] + 1 ELSE dirty[b]]
      /\ dirty_bitmap' = dirty_bitmap \cup touched
  BY DEF MarkDirty
<1>3. dirty \in [Blocks -> Nat] /\ dirty_bitmap \subseteq Blocks
  BY DEF MmuTypeOK
<1>4. \A b \in Blocks : dirty[b] = IF b \in dirty_bitmap THEN 1 ELSE 0
  BY DEF BitmapMatches
<1> HIDE DEF touched
<1>5. dirty' \in [Blocks -> Nat] /\ dirty_bitmap' \subseteq Blocks
  BY <1>1, <1>2, <1>3
<1>6. \A b \in Blocks : dirty'[b] = IF b \in dirty_bitmap' THEN 1 ELSE 0
  BY <1>2, <1>3, <1>4
<1>7. \A b \in Blocks : dirty'[b] > 0 <=> (dirty[b] > 0 \/ b \in touched)
  BY <1>2, <1>3, <1>4, <1>6
<1> QED BY <1>5, <1>6, <1>7 DEF BitmapMatches, touched

\* clear_dirty zeroes whole words, and every bit it can drop that way is the bit
\* of a listed block.
LEMMA ClearDirtyKeeps ==
  ASSUME MmuTypeOK, BitmapMatches, ClearDirty
  PROVE  /\ dirty' = [b \in Blocks |-> 0] /\ dirty_bitmap' = {}
         /\ BitmapMatches'
<1>1. \A b \in dirty_bitmap : b \in DirtyBlocks
  BY DEF MmuTypeOK, BitmapMatches, DirtyBlocks
<1>2. dirty_bitmap' = {}
  BY <1>1 DEF ClearDirty
<1>3. dirty' = [b \in Blocks |-> 0]
  BY DEF ClearDirty
<1> QED BY <1>2, <1>3 DEF BitmapMatches

\* What reset_dirty leaves.
LEMMA ResetFacts ==
  ASSUME MemInv
  PROVE  /\ ResetMem = gmem
         /\ ResetPerms \in [Offs -> Perm]
         /\ \A i \in Offs : i \notin dirtied => ResetPerms[i] = gperms[i]
         /\ Restored(ResetPerms) = gperms
         /\ dirtied = {} => ResetPerms = gperms
<1>1. /\ mem \in [Offs -> Val] /\ perms \in [Offs -> Perm]
      /\ gmem \in [Offs -> Val] /\ gperms \in [Offs -> Perm]
  BY DEF MemInv, Typing, MmuTypeOK
<1>2. \A i \in Offs : mem[i] # gmem[i] => BlockOf(i) \in DirtyBlocks
  BY DEF MemInv, Covered, ContentCovered
<1>3. \A i \in Offs : perms[i] # gperms[i] => BlockOf(i) \in DirtyBlocks \/ i \in dirtied
  BY DEF MemInv, Covered
<1>4. ResetMem = gmem
  BY <1>1, <1>2 DEF ResetMem
<1>5. ResetPerms \in [Offs -> Perm]
  BY <1>1 DEF ResetPerms
<1>6. \A i \in Offs : i \notin dirtied => ResetPerms[i] = gperms[i]
  BY <1>1, <1>3 DEF ResetPerms
<1>7. Restored(ResetPerms) = gperms
  BY <1>1, <1>5, <1>6 DEF Restored
<1>8. dirtied = {} => ResetPerms = gperms
  BY <1>1, <1>5, <1>6
<1> QED BY <1>4, <1>5, <1>6, <1>7, <1>8

LEMMA StoreTypes ==
  ASSUME perms \in [Offs -> Perm], mem \in [Offs -> Val], NEW n \in Widths, NEW a \in Offs,
         NEW d \in [0 .. n - 1 -> Val], NEW S, S = Committed(perms, a, n)
  PROVE  /\ S \subseteq Offs
         /\ StoredMem(mem, S, a, d) \in [Offs -> Val]
         /\ StoredPerms(perms, S) \in [Offs -> Perm]
         /\ \A i \in Offs : i \notin S =>
              StoredMem(mem, S, a, d)[i] = mem[i] /\ StoredPerms(perms, S)[i] = perms[i]
<1>1. n \in Nat /\ a \in Int /\ Offs \subseteq Int
  BY WidthsAssumption, SizeAssumption DEF Offs
<1>2. S \subseteq Offs \cap Span(a, n)
  BY <1>1 DEF Committed, Allows, Span
<1>3. \A i \in S : i - a \in 0 .. n - 1
  BY <1>1, <1>2 DEF Span
<1>4. StoredMem(mem, S, a, d) \in [Offs -> Val]
  BY <1>2, <1>3 DEF StoredMem
<1>5. \A q \in Perm : Upgrade(q) \in Perm
  BY DEF Upgrade, Perm, Flags
<1>6. StoredPerms(perms, S) \in [Offs -> Perm]
  BY <1>5 DEF StoredPerms
<1> QED BY <1>2, <1>4, <1>6 DEF StoredMem, StoredPerms

-------------------------------------------------------------------------------
\* The four ways a step changes guest memory.

\* A reset without the permission ranges: only ranges still recorded can differ.
LEMMA SnapResetKeeps ==
  ASSUME IInv, NEW p \in Phases, SnapReset(p), p # "case",
         p \in Quiet => dirtied = {},
         p \in CrashPhases /\ ~opts.kmsan => dirtied = {}
  PROVE  IInv'
<1>1. MemInv /\ MmuTypeOK /\ BitmapMatches /\ Typing /\ RangesPutBack
  BY DEF IInv, MemInv, Typing
<1>2. /\ phase' = p /\ fresh' = TRUE /\ mem' = ResetMem /\ perms' = ResetPerms
      /\ ClearDirty /\ kmsan_hit' = {} /\ regs_taint' = FALSE
      /\ gmem' = gmem /\ gperms' = gperms /\ live' = live /\ dirtied' = dirtied /\ opts' = opts
  BY DEF SnapReset, ResetCpu, goldenVars, sanVars
<1>3. /\ dirty' = [b \in Blocks |-> 0] /\ dirty_bitmap' = {} /\ BitmapMatches'
  BY <1>1, <1>2, ClearDirtyKeeps
<1>4. /\ mem' = gmem /\ perms' \in [Offs -> Perm]
      /\ \A i \in Offs : i \notin dirtied => perms'[i] = gperms[i]
      /\ dirtied = {} => perms' = gperms
  BY <1>1, <1>2, ResetFacts
<1>5. Typing'
  <2>1. MmuTypeOK'
    BY <1>1, <1>2, <1>3, <1>4 DEF MmuTypeOK
  <2> QED BY <1>1, <1>2, <2>1 DEF Typing
<1>6. Covered'
  BY <1>2, <1>4 DEF Covered, ContentCovered
<1>7. RangesPutBack'
  BY <1>1, <1>2 DEF RangesPutBack
<1>8. CaseStartsGolden'
  BY <1>2 DEF CaseStartsGolden
<1>9. ReplayStartsGolden'
  BY <1>2, <1>4 DEF ReplayStartsGolden, Golden, Quiet, CrashPhases
<1>10. TaintAbsent'
  BY <1>2, <1>4 DEF IInv, TaintAbsent, Untainted, Quiet
<1> QED BY <1>3, <1>5, <1>6, <1>7, <1>8, <1>9, <1>10 DEF IInv, MemInv

\* A store: what it changes lies in the blocks it marks.
LEMMA StoreKeeps ==
  ASSUME MemInv, NEW S \in SUBSET Offs, MarkDirty(S),
         mem' \in [Offs -> Val], perms' \in [Offs -> Perm],
         \A i \in Offs : i \notin S => mem'[i] = mem[i] /\ perms'[i] = perms[i],
         UNCHANGED <<gmem, gperms, live, dirtied, opts, phase>>, fresh' = FALSE
  PROVE  MemInv'
<1>1. MmuTypeOK /\ BitmapMatches /\ Typing /\ Covered /\ RangesPutBack
  BY DEF MemInv, Typing
<1>2. /\ dirty' \in [Blocks -> Nat] /\ dirty_bitmap' \subseteq Blocks
      /\ BitmapMatches'
      /\ \A b \in Blocks : dirty'[b] > 0 <=> (dirty[b] > 0 \/ b \in {BlockOf(i) : i \in S})
  BY <1>1, MarkDirtyKeeps
<1>3. Typing'
  BY <1>1, <1>2 DEF Typing, MmuTypeOK
<1>4. \A i \in Offs : i \in S \/ BlockOf(i) \in DirtyBlocks => BlockOf(i) \in DirtyBlocks'
  BY <1>2, BlockFacts DEF DirtyBlocks
<1>5. \A i \in Offs : mem'[i] # gmem'[i] => BlockOf(i) \in DirtyBlocks'
  BY <1>1, <1>4 DEF Covered, ContentCovered
<1>6. \A i \in Offs : perms'[i] # gperms'[i] => BlockOf(i) \in DirtyBlocks' \/ i \in dirtied'
  BY <1>1, <1>4 DEF Covered
<1>7. RangesPutBack'
  BY <1>1 DEF RangesPutBack
<1> QED BY <1>2, <1>3, <1>5, <1>6, <1>7 DEF MemInv, Covered, ContentCovered

\* A permission-only edit: what it changes has been recorded.
LEMMA PermEditKeeps ==
  ASSUME MemInv, perms' \in [Offs -> Perm], live' \in [Objects -> LiveAlloc],
         dirtied' \subseteq Offs, dirtied \subseteq dirtied',
         \A i \in Offs : perms'[i] # perms[i] => i \in dirtied',
         UNCHANGED <<mem, gmem, gperms, dirty, dirty_bitmap, opts, phase>>,
         phase = "case", opts.sanitize \/ opts.kmsan, fresh' = FALSE
  PROVE  MemInv'
<1>1. MmuTypeOK /\ BitmapMatches /\ Typing /\ Covered /\ RangesPutBack
  BY DEF MemInv, Typing
<1>2. DirtyBlocks' = DirtyBlocks
  BY DEF DirtyBlocks
<1>3. Typing'
  BY <1>1 DEF Typing, MmuTypeOK
<1>4. Covered'
  BY <1>1, <1>2 DEF Covered, ContentCovered
<1>5. RangesPutBack'
  BY DEF RangesPutBack, Quiet, CrashPhases
<1> QED BY <1>1, <1>3, <1>4, <1>5 DEF MemInv, BitmapMatches

\* restore_dirtied_perms outside a reset, or no change at all.
LEMMA OracleKeeps ==
  ASSUME MemInv, UNCHANGED <<mem, gmem, gperms, dirty, dirty_bitmap, live, opts>>,
         \/ perms' = Restored(perms) /\ dirtied' = {}
         \/ UNCHANGED <<perms, dirtied>> /\ RangesPutBack',
         fresh' = FALSE
  PROVE  MemInv'
<1>1. MmuTypeOK /\ BitmapMatches /\ Typing /\ Covered
  BY DEF MemInv, Typing
<1>2. DirtyBlocks' = DirtyBlocks
  BY DEF DirtyBlocks
<1>3. CASE perms' = Restored(perms) /\ dirtied' = {}
  <2>1. perms' \in [Offs -> Perm]
    BY <1>1, <1>3 DEF MmuTypeOK, Restored
  <2>2. \A i \in Offs : perms'[i] = IF i \in dirtied THEN gperms[i] ELSE perms[i]
    BY <1>3 DEF Restored
  <2>3. Covered'
    BY <1>1, <1>2, <1>3, <2>2 DEF Covered, ContentCovered
  <2>4. RangesPutBack'
    BY <1>3 DEF RangesPutBack
  <2> QED BY <1>1, <1>3, <2>1, <2>3, <2>4 DEF MemInv, Typing, MmuTypeOK, BitmapMatches
<1>4. CASE UNCHANGED <<perms, dirtied>> /\ RangesPutBack'
  BY <1>1, <1>2, <1>4 DEF MemInv, Typing, MmuTypeOK, BitmapMatches, Covered, ContentCovered
<1> QED BY <1>3, <1>4

-------------------------------------------------------------------------------
\* Stamping and tainting stay within the span.
LEMMA StampFacts ==
  ASSUME NEW p \in [Offs -> Perm], NEW a, NEW n, NEW q \in Perm
  PROVE  /\ Stamped(p, a, n, q) \in [Offs -> Perm]
         /\ \A i \in Offs : i \notin Span(a, n) => Stamped(p, a, n, q)[i] = p[i]
  BY DEF Stamped

LEMMA TaintFacts ==
  ASSUME NEW p \in [Offs -> Perm], NEW a, NEW n
  PROVE  /\ Tainted(p, a, n) \in [Offs -> Perm]
         /\ \A i \in Offs : i \notin Span(a, n) => Tainted(p, a, n)[i] = p[i]
<1>1. \A r \in Perm : r \cup {"VTAINT"} \in Perm
  BY DEF Perm, Flags
<1> QED BY <1>1 DEF Tainted

LEMMA PermConstants == RW \in Perm /\ UNINIT \in Perm /\ {} \in Perm
  BY DEF RW, UNINIT, Perm, Flags

\* What every allocator event guarantees: the bytes it re-stamps are recorded.
EditRecorded ==
  /\ perms' \in [Offs -> Perm]
  /\ live' \in [Objects -> LiveAlloc]
  /\ dirtied' \subseteq Offs /\ dirtied \subseteq dirtied'
  /\ \A i \in Offs : perms'[i] # perms[i] => i \in dirtied'

LEMMA AllocRecorded ==
  ASSUME Typing, NEW a \in Objects, NEW req \in Requests, Alloc(a, req)
  PROVE  EditRecorded
<1> DEFINE bucket == kmalloc_bucket(req)
           slack == bucket - req
           opened == Stamped(perms, a, req, RW)
<1>1. /\ a \in Int /\ req \in Nat /\ bucket \in Nat /\ bucket >= req /\ req > 0
      /\ perms \in [Offs -> Perm] /\ live \in [Objects -> LiveAlloc] /\ dirtied \subseteq Offs
      /\ Offs \subseteq Int
  BY HeapAssumption, SizeAssumption DEF Typing, MmuTypeOK, Offs
<1>2. dirtied' = dirtied \cup (Span(a, bucket) \cap Offs)
  BY DEF Alloc, mark_dirtied
<1>3. Span(a, req) \subseteq Span(a, bucket) /\ Span(a + req, slack) \subseteq Span(a, bucket)
  BY <1>1 DEF Span
<1>4. opened \in [Offs -> Perm] /\ \A i \in Offs : i \notin Span(a, req) => opened[i] = perms[i]
  BY <1>1, StampFacts, PermConstants
<1> DEFINE closed == Stamped(opened, a + req, slack, {})
<1>5. closed \in [Offs -> Perm] /\ \A i \in Offs : i \notin Span(a + req, slack) => closed[i] = opened[i]
  <2> HIDE DEF opened
  <2> QED BY <1>4, StampFacts, PermConstants
<1>6. /\ Stamped(perms, a, req, UNINIT) \in [Offs -> Perm]
      /\ \A i \in Offs : i \notin Span(a, req) => Stamped(perms, a, req, UNINIT)[i] = perms[i]
  BY <1>1, StampFacts, PermConstants
<1>7. [size |-> bucket, req |-> req, guard |-> TRUE] \in LiveAlloc
  BY <1>1 DEF LiveAlloc
<1>8. /\ perms' \in {perms, Stamped(perms, a, req, UNINIT), opened, closed}
      /\ live' \in {live, [live EXCEPT ![a] = [size |-> bucket, req |-> req, guard |-> TRUE]]}
  BY DEF Alloc
<1> HIDE DEF bucket, slack, opened, closed
<1>9. live' \in [Objects -> LiveAlloc]
  BY <1>1, <1>7, <1>8
<1>10. perms' \in [Offs -> Perm]
  BY <1>1, <1>4, <1>5, <1>6, <1>8
<1>11. \A i \in Offs : i \notin Span(a, bucket) => perms'[i] = perms[i]
  BY <1>3, <1>4, <1>5, <1>6, <1>8
<1> QED BY <1>1, <1>2, <1>9, <1>10, <1>11 DEF EditRecorded

LEMMA CacheAllocRecorded ==
  ASSUME Typing, NEW a \in Objects, NEW n \in Requests, CacheAlloc(a, n)
  PROVE  EditRecorded
<1>1. /\ n \in Nat /\ perms \in [Offs -> Perm] /\ live \in [Objects -> LiveAlloc]
      /\ dirtied \subseteq Offs
  BY HeapAssumption DEF Typing, MmuTypeOK
<1>2. dirtied' = dirtied \cup (Span(a, n) \cap Offs)
  BY DEF CacheAlloc, mark_dirtied
<1>3. \A q \in {RW, UNINIT} :
        /\ Stamped(perms, a, n, q) \in [Offs -> Perm]
        /\ \A i \in Offs : i \notin Span(a, n) => Stamped(perms, a, n, q)[i] = perms[i]
  BY <1>1, StampFacts, PermConstants
<1>4. [size |-> n, req |-> 0, guard |-> FALSE] \in LiveAlloc
  BY <1>1 DEF LiveAlloc
<1>5. /\ perms' \in {perms, Stamped(perms, a, n, UNINIT), Stamped(perms, a, n, RW)}
      /\ live' \in {live, [live EXCEPT ![a] = [size |-> n, req |-> 0, guard |-> FALSE]]}
  BY DEF CacheAlloc
<1>6. live' \in [Objects -> LiveAlloc]
  BY <1>1, <1>4, <1>5
<1> QED BY <1>1, <1>2, <1>3, <1>5, <1>6 DEF EditRecorded

LEMMA FreeRecorded ==
  ASSUME Typing, NEW a \in Objects, Free(a)
  PROVE  EditRecorded
<1> DEFINE n == live[a].size
<1>1. /\ perms \in [Offs -> Perm] /\ live \in [Objects -> LiveAlloc] /\ dirtied \subseteq Offs
  BY DEF Typing, MmuTypeOK
<1>2. /\ Stamped(perms, a, n, {}) \in [Offs -> Perm]
      /\ \A i \in Offs : i \notin Span(a, n) => Stamped(perms, a, n, {})[i] = perms[i]
  BY <1>1, StampFacts, PermConstants
<1>3. Dead \in LiveAlloc
  BY DEF Dead, LiveAlloc
<1>4. CASE ~is_live(a)
  BY <1>1, <1>4 DEF Free, EditRecorded
<1>5. CASE is_live(a)
  <2>1. /\ dirtied' = dirtied \cup (Span(a, n) \cap Offs)
        /\ live' = [live EXCEPT ![a] = Dead]
        /\ perms' \in {perms, Stamped(perms, a, n, {})}
    BY <1>5 DEF Free, mark_dirtied
  <2>2. live' \in [Objects -> LiveAlloc]
    BY <1>1, <1>3, <2>1
  <2> HIDE DEF n
  <2> QED BY <1>1, <1>2, <2>1, <2>2 DEF EditRecorded
<1> QED BY <1>4, <1>5

LEMMA KsizeRecorded ==
  ASSUME Typing, NEW a \in Objects, Ksize(a)
  PROVE  EditRecorded
<1> DEFINE sz == live[a].size
           slack == IF live[a].req = 0 THEN 0 ELSE sz - live[a].req
           start == a + live[a].req
<1>1. /\ perms \in [Offs -> Perm] /\ live \in [Objects -> LiveAlloc] /\ dirtied \subseteq Offs
      /\ a \in Int /\ sz \in Nat /\ live[a].req \in Nat
  BY HeapAssumption, SizeAssumption DEF Typing, MmuTypeOK, LiveAlloc, Offs
<1>2. Span(start, slack) \subseteq Span(a, sz)
  BY <1>1 DEF Span
<1>3. live' = live
  BY DEF Ksize, sanVars
<1>4. CASE ~is_live(a)
  BY <1>1, <1>3, <1>4 DEF Ksize, EditRecorded
<1>5. CASE is_live(a)
  <2>1. /\ dirtied' = dirtied \cup (Span(a, sz) \cap Offs)
        /\ perms' \in {Stamped(perms, start, slack, UNINIT), Stamped(perms, a, sz, RW)}
    BY <1>5 DEF Ksize, mark_dirtied
  <2>2. /\ Stamped(perms, start, slack, UNINIT) \in [Offs -> Perm]
        /\ \A i \in Offs : i \notin Span(start, slack) =>
             Stamped(perms, start, slack, UNINIT)[i] = perms[i]
    BY <1>1, StampFacts, PermConstants
  <2>3. /\ Stamped(perms, a, sz, RW) \in [Offs -> Perm]
        /\ \A i \in Offs : i \notin Span(a, sz) => Stamped(perms, a, sz, RW)[i] = perms[i]
    BY <1>1, StampFacts, PermConstants
  <2> HIDE DEF sz, slack, start
  <2> QED BY <1>1, <1>2, <1>3, <2>1, <2>2, <2>3 DEF EditRecorded
<1> QED BY <1>4, <1>5

LEMMA PagesRecorded ==
  ASSUME Typing, NEW a \in Objects, NEW o \in Orders, AllocPages(a, o) \/ FreePages(a, o)
  PROVE  EditRecorded
<1>1. /\ perms \in [Offs -> Perm] /\ live \in [Objects -> LiveAlloc] /\ dirtied \subseteq Offs
  BY DEF Typing, MmuTypeOK
<1>2. live' = live
  BY DEF AllocPages, FreePages
<1>3. /\ Stamped(perms, a, PageLen(o), RW) \in [Offs -> Perm]
      /\ \A i \in Offs : i \notin Span(a, PageLen(o)) =>
           Stamped(perms, a, PageLen(o), RW)[i] = perms[i]
  BY <1>1, StampFacts, PermConstants
<1>6. /\ Stamped(perms, a, PageLen(o), {}) \in [Offs -> Perm]
      /\ \A i \in Offs : i \notin Span(a, PageLen(o)) =>
           Stamped(perms, a, PageLen(o), {})[i] = perms[i]
  BY <1>1, StampFacts, PermConstants
<1>4. CASE o > MAX_ORDER
  BY <1>1, <1>2, <1>4 DEF AllocPages, FreePages, EditRecorded
<1>5. CASE ~(o > MAX_ORDER)
  <2>1. /\ dirtied' = dirtied \cup (Span(a, PageLen(o)) \cap Offs)
        /\ perms' \in {perms, Stamped(perms, a, PageLen(o), RW), Stamped(perms, a, PageLen(o), {})}
    BY <1>5 DEF AllocPages, FreePages, mark_dirtied
  <2> QED BY <1>1, <1>2, <1>3, <1>6, <2>1 DEF EditRecorded
<1> QED BY <1>4, <1>5

LEMMA SeedRecorded ==
  ASSUME Typing, NEW a \in Objects, NEW n, NEW initialised \in BOOLEAN, SeedTaint(a, n, initialised)
  PROVE  EditRecorded
<1>1. /\ perms \in [Offs -> Perm] /\ live \in [Objects -> LiveAlloc] /\ dirtied \subseteq Offs
  BY DEF Typing, MmuTypeOK
<1>2. live' = live
  BY DEF SeedTaint, sanVars
<1>3. /\ Tainted(perms, a, n) \in [Offs -> Perm]
      /\ \A i \in Offs : i \notin Span(a, n) => Tainted(perms, a, n)[i] = perms[i]
  BY <1>1, TaintFacts
<1>4. CASE initialised
  BY <1>1, <1>2, <1>4 DEF SeedTaint, EditRecorded
<1>5. CASE ~initialised
  BY <1>1, <1>2, <1>3, <1>5 DEF SeedTaint, mark_dirtied, EditRecorded
<1> QED BY <1>4, <1>5

-------------------------------------------------------------------------------
LEMMA RunFacts ==
  /\ Runs = {"sreplay", "trace", "case", "replay", "kreplay"}
  /\ AfterRun["sreplay"] = "seeds" /\ AfterRun["trace"] = "inject"
  /\ AfterRun["case"] = "crash" /\ AfterRun["replay"] = "minimise"
  /\ AfterRun["kreplay"] = "kminimise"
  BY DEF Runs, AfterRun

LEMMA InitIInv == Init => IInv
<1> SUFFICES ASSUME Init PROVE IInv
  OBVIOUS
<1>1. Typing
  <2>1. MmuTypeOK
    BY DEF Init, MmuInit, MmuTypeOK
  <2>2. live \in [Objects -> LiveAlloc]
    BY DEF Init, SanInit, Dead, LiveAlloc
  <2> QED BY <2>1, <2>2 DEF Init, SanInit, Typing
<1>2. BitmapMatches /\ Covered
  BY DEF Init, MmuInit, BitmapMatches, Covered, ContentCovered
<1>3. RangesPutBack
  BY DEF Init, SanInit, RangesPutBack
<1>4. CaseStartsGolden /\ ReplayStartsGolden
  BY DEF Init, CaseStartsGolden, ReplayStartsGolden
<1>5. TaintAbsent
  BY DEF Init, MmuInit, TaintAbsent, Untainted
<1> QED BY <1>1, <1>2, <1>3, <1>4, <1>5 DEF IInv, MemInv

\* A run in progress: only memory and taint are left to show.
LEMMA RunStepKeeps ==
  ASSUME IInv, RunStep, MemInv',
         phase' = "kreplay" => Untainted(perms') /\ regs_taint' = FALSE /\ kmsan_hit' = {}
  PROVE  IInv'
  BY DEF IInv, RunStep, goldenVars, CaseStartsGolden, ReplayStartsGolden, TaintAbsent, Untainted

LEMMA StoreStepKeeps ==
  ASSUME IInv, NEW n \in Widths, NEW a \in Offs, NEW d \in [0 .. n - 1 -> Val],
         Runs_Store(n, a, d) \/ Runs_TaintedStore(n, a, d)
  PROVE  IInv'
<1> DEFINE S == Committed(perms, a, n)
           sp == StoredPerms(perms, S)
<1>1. /\ perms \in [Offs -> Perm] /\ mem \in [Offs -> Val] /\ MemInv
      /\ phase = "kreplay" => Untainted(perms) /\ regs_taint = FALSE /\ kmsan_hit = {}
  BY DEF IInv, MemInv, Typing, MmuTypeOK, TaintAbsent
<1>2. /\ S \subseteq Offs
      /\ StoredMem(mem, S, a, d) \in [Offs -> Val]
      /\ sp \in [Offs -> Perm]
      /\ \A i \in Offs : i \notin S => StoredMem(mem, S, a, d)[i] = mem[i] /\ sp[i] = perms[i]
  <2>1. PICK T : T = Committed(perms, a, n)
    OBVIOUS
  <2>2. /\ T \subseteq Offs
        /\ StoredMem(mem, T, a, d) \in [Offs -> Val]
        /\ StoredPerms(perms, T) \in [Offs -> Perm]
        /\ \A i \in Offs : i \notin T =>
             StoredMem(mem, T, a, d)[i] = mem[i] /\ StoredPerms(perms, T)[i] = perms[i]
    BY <1>1, <2>1, StoreTypes
  <2> QED BY <2>1, <2>2
<1>3. Untainted(perms) => Untainted(sp)
  BY DEF Untainted, StoredPerms, Upgrade
<1>4. \A mask : /\ ShadowedPerms(sp, S, mask) \in [Offs -> Perm]
                /\ \A i \in Offs : i \notin S => ShadowedPerms(sp, S, mask)[i] = sp[i]
  <2>1. \A q \in Perm : q \cup {"VTAINT"} \in Perm /\ q \ {"VTAINT"} \in Perm
    BY DEF Perm, Flags
  <2> HIDE DEF S, sp
  <2> TAKE mask
  <2>2. ShadowedPerms(sp, S, mask) \in [Offs -> Perm]
    BY <1>2, <2>1 DEF ShadowedPerms, ShadowPerm
  <2>3. \A i \in Offs : i \notin S => ShadowedPerms(sp, S, mask)[i] = sp[i]
    BY DEF ShadowedPerms
  <2> QED BY <2>2, <2>3
<1>5. Untainted(sp) => Untainted(ShadowedPerms(sp, S, {}))
  <2> HIDE DEF S, sp
  <2> QED BY DEF Untainted, ShadowedPerms, ShadowPerm
<1>6. /\ RunStep /\ MarkDirty(S) /\ mem' = StoredMem(mem, S, a, d)
      /\ UNCHANGED <<live, dirtied, phase, kmsan_hit, regs_taint>>
  BY DEF Runs_Store, Runs_TaintedStore, MmuStore, MmuTaintedStore, sanVars
<1>7. PICK mask \in {{}} \cup (IF regs_taint THEN {Span(a, n)} ELSE {}) :
        perms' = sp \/ perms' = ShadowedPerms(sp, S, mask)
  BY DEF Runs_Store, Runs_TaintedStore, MmuStore, MmuTaintedStore
<1>8. regs_taint = FALSE => mask = {}
  BY <1>7
<1> HIDE DEF S, sp
<1>9. /\ perms' \in [Offs -> Perm] /\ mem' \in [Offs -> Val]
      /\ \A i \in Offs : i \notin S => mem'[i] = mem[i] /\ perms'[i] = perms[i]
  BY <1>2, <1>4, <1>6, <1>7
<1>10. phase' = "kreplay" => Untainted(perms') /\ regs_taint' = FALSE /\ kmsan_hit' = {}
  BY <1>1, <1>3, <1>5, <1>6, <1>7, <1>8
<1>11. UNCHANGED <<gmem, gperms, opts>> /\ fresh' = FALSE
  BY <1>6 DEF RunStep, goldenVars
<1>12. S \in SUBSET Offs
  BY <1>2
<1>13. MemInv'
  BY <1>1, <1>6, <1>9, <1>11, <1>12, StoreKeeps
<1> QED BY <1>6, <1>10, <1>13, RunStepKeeps

LEMMA FastStoreKeeps ==
  ASSUME IInv, NEW n \in Widths, NEW a \in Offs, NEW d \in [0 .. n - 1 -> Val],
         Runs_FastStore(n, a, d)
  PROVE  IInv'
<1>1. /\ perms \in [Offs -> Perm] /\ mem \in [Offs -> Val] /\ MemInv
  BY DEF IInv, MemInv, Typing, MmuTypeOK
<1>2. /\ RunStep /\ phase = "case" /\ FastOk(perms, a, n, {"READ", "WRITE"})
      /\ mem' = FastStoredMem(mem, a, n, d) /\ MarkDirty(Span(a, n))
      /\ UNCHANGED <<perms, live, dirtied, phase, gmem, gperms, opts>> /\ fresh' = FALSE
  BY DEF Runs_FastStore, MmuFastStore, sanVars, RunStep, goldenVars
<1>3. Span(a, n) \in SUBSET Offs
  BY <1>2 DEF FastOk
<1>4. /\ mem' \in [Offs -> Val]
      /\ \A i \in Offs : i \notin Span(a, n) => mem'[i] = mem[i]
  <2>1. \A i \in Span(a, n) : i - a \in 0 .. n - 1
    BY WidthsAssumption, SizeAssumption DEF Span, Offs
  <2> QED BY <1>1, <1>2, <2>1 DEF FastStoredMem
<1>5. MemInv'
  BY <1>1, <1>2, <1>3, <1>4, StoreKeeps
<1> QED BY <1>2, <1>5, RunStepKeeps

LEMMA HookKeeps ==
  ASSUME IInv, NEW a \in Objects, SanHook(a) \/ KmsanHook(a)
  PROVE  IInv'
<1>1. Typing /\ MemInv
  BY DEF IInv, MemInv
<1>2. UNCHANGED <<mem, dirty, dirty_bitmap, phase, gmem, gperms, opts>> /\ fresh' = FALSE
  BY DEF SanHook, KmsanHook, Hook, RunStep, goldenVars
<1>3. EditRecorded
  BY <1>1, AllocRecorded, CacheAllocRecorded, FreeRecorded, KsizeRecorded, PagesRecorded,
     SeedRecorded DEF SanHook, KmsanHook, Hook
<1>4. RunStep /\ phase = "case" /\ (opts.sanitize \/ opts.kmsan)
  BY DEF SanHook, KmsanHook, Hook
<1>5. MemInv'
  BY <1>1, <1>2, <1>3, <1>4, PermEditKeeps DEF EditRecorded
<1> QED BY <1>2, <1>4, <1>5, RunStepKeeps

-------------------------------------------------------------------------------
\* The loop's own steps: between runs nothing but an oracle touches memory.
LEMMA BeginCaseKeeps ==
  ASSUME IInv, BeginCase
  PROVE  IInv'
<1>1. MemInv /\ MmuTypeOK /\ BitmapMatches /\ Typing
  BY DEF IInv, MemInv, Typing
<1>2. /\ phase' = "case" /\ mem' = ResetMem /\ perms' = Restored(ResetPerms) /\ ClearDirty
      /\ dirtied' = {} /\ ubsan' = {} /\ kmsan_hit' = {} /\ regs_taint' = FALSE
      /\ live' = [a \in Objects |-> Dead] /\ quarantine' = << >> /\ page_quarantine' = << >>
      /\ gmem' = gmem /\ gperms' = gperms /\ opts' = opts /\ fresh' = TRUE
  BY DEF BeginCase, ResetCpu, NewSanitizer, goldenVars
<1>3. dirty' = [b \in Blocks |-> 0] /\ dirty_bitmap' = {} /\ BitmapMatches'
  BY <1>1, <1>2, ClearDirtyKeeps
<1>4. mem' = gmem /\ perms' = gperms
  BY <1>1, <1>2, ResetFacts
<1>5. Typing'
  <2>1. MmuTypeOK'
    BY <1>1, <1>2, <1>3, <1>4 DEF MmuTypeOK
  <2>2. live' \in [Objects -> LiveAlloc]
    BY <1>2 DEF Dead, LiveAlloc
  <2> QED BY <1>1, <1>2, <2>1, <2>2 DEF Typing
<1>6. Covered' /\ RangesPutBack'
  BY <1>2, <1>4 DEF Covered, ContentCovered, RangesPutBack
<1>7. CaseStartsGolden' /\ ReplayStartsGolden'
  BY <1>2, <1>4 DEF CaseStartsGolden, ReplayStartsGolden, Golden
<1>8. TaintAbsent'
  BY <1>2 DEF IInv, TaintAbsent, Untainted
<1> QED BY <1>3, <1>5, <1>6, <1>7, <1>8 DEF IInv, MemInv

\* Outside the runs the remaining conjuncts hold by the phase alone.
LEMMA BetweenRuns ==
  ASSUME IInv, MemInv', fresh' = FALSE, gperms' = gperms, phase' # "kreplay"
  PROVE  IInv'
  BY DEF IInv, CaseStartsGolden, ReplayStartsGolden, TaintAbsent, Untainted

LEMMA LoopKeeps ==
  ASSUME IInv, EndSeeds \/ EndRun \/ EndMinimise \/ EndKmsanMinimise \/ UbsanOracle
               \/ CrashOracle \/ KmsanOracle
  PROVE  IInv'
<1>1. MemInv /\ RangesPutBack
  BY DEF IInv, MemInv
<1>2. UNCHANGED <<mem, gmem, gperms, dirty, dirty_bitmap, live, opts>> /\ fresh' = FALSE
  BY DEF EndSeeds, EndRun, EndMinimise, EndKmsanMinimise, UbsanOracle, CrashOracle, KmsanOracle,
         Goto, mmuVars, goldenVars, sanVars
<1>3. /\ phase' # "kreplay"
      /\ \/ perms' = Restored(perms) /\ dirtied' = {}
         \/ UNCHANGED <<perms, dirtied>> /\ RangesPutBack'
  <2>1. CASE EndRun
    <3>1. phase \in Runs /\ phase' = AfterRun[phase] /\ UNCHANGED <<perms, dirtied, opts>>
      BY <2>1 DEF EndRun, Goto, mmuVars
    <3> QED BY <1>1, <3>1, RunFacts DEF RangesPutBack, Quiet, CrashPhases
  <2>2. CASE EndSeeds \/ EndMinimise \/ EndKmsanMinimise \/ UbsanOracle
    BY <1>1, <2>2 DEF EndSeeds, EndMinimise, EndKmsanMinimise, UbsanOracle, Goto, mmuVars,
       RangesPutBack, Quiet, CrashPhases
  <2>3. CASE CrashOracle
    BY <1>1, <2>3 DEF CrashOracle, RangesPutBack, Quiet, CrashPhases
  <2>4. CASE KmsanOracle
    BY <1>1, <2>4 DEF KmsanOracle, RangesPutBack, Quiet, CrashPhases
  <2> QED BY <2>1, <2>2, <2>3, <2>4
<1>4. MemInv'
  BY <1>1, <1>2, <1>3, OracleKeeps
<1> QED BY <1>2, <1>3, <1>4, BetweenRuns

\* Steps of a run that leave guest memory alone.
LEMMA QuietStepKeeps ==
  ASSUME IInv, Runs_DivByZero \/ Runs_TaintedLoad \/ Runs_TaintedBranch
  PROVE  IInv'
<1>1. /\ MemInv /\ RangesPutBack
      /\ phase = "kreplay" => Untainted(perms) /\ regs_taint = FALSE /\ kmsan_hit = {}
  BY DEF IInv, MemInv, TaintAbsent
<1>2. /\ RunStep /\ UNCHANGED <<mem, perms, gmem, gperms, dirty, dirty_bitmap, live, dirtied, opts>>
      /\ fresh' = FALSE
  BY DEF Runs_DivByZero, Runs_TaintedLoad, Runs_TaintedBranch, RunStep, mmuVars, goldenVars, sanVars
<1>3. CASE Runs_DivByZero \/ Runs_TaintedLoad
  <2>1. phase = "kreplay" => ~TaintVisible
    BY <1>1 DEF TaintVisible, Untainted
  <2>2. /\ phase' = phase /\ kmsan_hit' = kmsan_hit
        /\ regs_taint' = regs_taint \/ TaintVisible
    BY <1>3 DEF Runs_DivByZero, Runs_TaintedLoad
  <2>3. phase' = "kreplay" => Untainted(perms') /\ regs_taint' = FALSE /\ kmsan_hit' = {}
    <3>1. phase = "kreplay" => Runs_DivByZero
      BY <1>3, <2>1 DEF Runs_TaintedLoad
    <3> QED BY <1>1, <1>2, <2>2, <3>1 DEF Runs_DivByZero
  <2>4. RangesPutBack'
    BY <1>1, <1>2, <2>2 DEF RangesPutBack
  <2>5. MemInv'
    BY <1>1, <1>2, <2>4, OracleKeeps
  <2> QED BY <1>2, <2>3, <2>5, RunStepKeeps
<1>4. CASE Runs_TaintedBranch
  <2>1. phase \in Runs /\ phase' = AfterRun[phase]
    BY <1>4 DEF Runs_TaintedBranch, RunStep
  <2>2. RangesPutBack' /\ phase' # "kreplay"
    BY <1>1, <1>2, <2>1, RunFacts DEF RangesPutBack, Quiet, CrashPhases
  <2>3. MemInv'
    BY <1>1, <1>2, <2>2, OracleKeeps
  <2> QED BY <1>2, <2>2, <2>3, BetweenRuns
<1> QED BY <1>3, <1>4

LEMMA NextIInv == IInv /\ [Next]_vars => IInv'
<1> SUFFICES ASSUME IInv, [Next]_vars PROVE IInv'
  OBVIOUS
<1>1. RangesPutBack
  BY DEF IInv, MemInv
<1>2. ASSUME BeginSeed PROVE IInv'
  BY <1>1, <1>2, SnapResetKeeps, RunFacts DEF BeginSeed, RangesPutBack, Quiet, CrashPhases, Phases
<1>3. ASSUME BeginTrace PROVE IInv'
  BY <1>1, <1>3, SnapResetKeeps, RunFacts DEF BeginTrace, RangesPutBack, Quiet, CrashPhases, Phases
<1>4. ASSUME BeginReplay PROVE IInv'
  BY <1>1, <1>4, SnapResetKeeps, RunFacts DEF BeginReplay, RangesPutBack, Quiet, CrashPhases, Phases
<1>5. ASSUME BeginKmsanReplay PROVE IInv'
  BY <1>1, <1>5, SnapResetKeeps, RunFacts
     DEF BeginKmsanReplay, RangesPutBack, Quiet, CrashPhases, Phases
<1>6. ASSUME BeginCase PROVE IInv'
  BY <1>6, BeginCaseKeeps
<1>7. ASSUME NEW n \in Widths, NEW a \in Offs, NEW d \in [0 .. n - 1 -> Val],
             Runs_Store(n, a, d) \/ Runs_TaintedStore(n, a, d) \/ Runs_FastStore(n, a, d)
      PROVE  IInv'
  BY <1>7, StoreStepKeeps, FastStoreKeeps
<1>8. ASSUME NEW a \in Objects, SanHook(a) \/ KmsanHook(a) PROVE IInv'
  BY <1>8, HookKeeps
<1>9. CASE Runs_DivByZero \/ Runs_TaintedLoad \/ Runs_TaintedBranch
  BY <1>9, QuietStepKeeps
<1>10. CASE \/ EndSeeds \/ EndRun \/ EndMinimise \/ EndKmsanMinimise \/ UbsanOracle
            \/ CrashOracle \/ KmsanOracle
  BY <1>10, LoopKeeps
<1>11. CASE UNCHANGED vars
  BY <1>11 DEF vars, mmuVars, goldenVars, sanVars, cpuVars, IInv, MemInv, Typing, MmuTypeOK,
     BitmapMatches, Covered, ContentCovered, DirtyBlocks, RangesPutBack, CaseStartsGolden, Golden,
     ReplayStartsGolden, TaintAbsent, Untainted
<1> QED BY <1>2, <1>3, <1>4, <1>5, <1>6, <1>7, <1>8, <1>9, <1>10, <1>11 DEF Next

LEMMA AlwaysIInv == Spec => []IInv
  BY InitIInv, NextIInv, PTL DEF Spec

\* mark_dirty's bitmap and list agree in every reachable state, so clear_dirty may
\* zero whole words and the list never holds a block twice.
THEOREM SerialBitmapMatches == Spec => []BitmapMatches
<1>1. IInv => BitmapMatches
  BY DEF IInv, MemInv
<1> QED BY <1>1, AlwaysIInv, PTL

\* Every byte that left golden is in a dirty block or, if only its permissions did,
\* in a range the hooks recorded.
THEOREM SerialCovered == Spec => []Covered
<1>1. IInv => Covered
  BY DEF IInv, MemInv
<1> QED BY <1>1, AlwaysIInv, PTL

\* Every case of the serial loop starts from the golden snapshot.
THEOREM SerialCaseStartsGolden == Spec => []CaseStartsGolden
<1>1. IInv => CaseStartsGolden
  BY DEF IInv
<1> QED BY <1>1, AlwaysIInv, PTL

\* So does every seed replay, every KMSAN replay and, without --kmsan, every
\* replay of the crash minimiser.
THEOREM SerialReplayStartsGolden == Spec => []ReplayStartsGolden
<1>1. IInv => ReplayStartsGolden
  BY DEF IInv
<1> QED BY <1>1, AlwaysIInv, PTL

\* No replay of minimize_program_kmsan can meet taint, whatever the program does.
THEOREM SerialKmsanReplayInert == Spec => []KmsanReplayInert
<1>1. IInv => KmsanReplayInert
  BY DEF IInv, TaintAbsent, KmsanReplayInert, TaintVisible, Untainted
<1> QED BY <1>1, AlwaysIInv, PTL

-------------------------------------------------------------------------------
\* The quarantine queues.

\* A set with 0 and the successors of its members has every natural number.
LEMMA NatSetInduction ==
  ASSUME NEW S, 0 \in S, \A n \in Nat : n \in S => n + 1 \in S
  PROVE  \A n \in Nat : n \in S
<1> DEFINE T == {n \in Nat : n \notin S}
<1> SUFFICES ASSUME T # {} PROVE FALSE
  OBVIOUS
<1>1. PICK n \in T : \A k \in T : <<k, n>> \notin OpToRel(<, Nat)
  <2>1. T \subseteq Nat
    OBVIOUS
  <2> HIDE DEF T
  <2> QED BY <2>1, NatLessThanWellFounded, WFMin
<1>2. n \in Nat \ {0} /\ n - 1 \in Nat /\ n - 1 < n
  OBVIOUS
<1>3. n - 1 \notin T
  BY <1>1, <1>2 DEF OpToRel
<1> QED BY <1>2, <1>3

\* One step of evict_quarantine's retain, and the whole of it up to the queue's n-th entry.
Retain(k, x, a) == IF x = a THEN k ELSE Append(k, x)
Retaining(q, a, n, f) == [i \in 0 .. n |-> IF i = 0 THEN << >> ELSE Retain(f[i - 1], q[i], a)]

LEMMA RetainExists == ASSUME NEW q, NEW a PROVE \A n \in Nat : \E f : f = Retaining(q, a, n, f)
<1> DEFINE S == {n \in Nat : \E f : f = Retaining(q, a, n, f)}
<1>1. 0 \in S
  <2> DEFINE f == [i \in 0 .. 0 |-> << >>]
  <2>1. f = Retaining(q, a, 0, f)
    BY DEF Retaining
  <2> QED BY <2>1
<1>2. ASSUME NEW n \in Nat, n \in S PROVE n + 1 \in S
  <2>1. PICK f : f = Retaining(q, a, n, f)
    BY <1>2
  <2> DEFINE g == [i \in 0 .. n + 1 |-> IF i = n + 1 THEN Retain(f[n], q[n + 1], a) ELSE f[i]]
  <2>2. ASSUME NEW i \in 0 .. n + 1
        PROVE  g[i] = IF i = 0 THEN << >> ELSE Retain(g[i - 1], q[i], a)
    <3>1. CASE i = n + 1
      BY <3>1
    <3>2. CASE i \in 0 .. n
      <4>1. g[i] = f[i] /\ f[i] = IF i = 0 THEN << >> ELSE Retain(f[i - 1], q[i], a)
        BY <2>1, <3>2 DEF Retaining
      <4>2. i # 0 => g[i - 1] = f[i - 1]
        BY <3>2
      <4> QED BY <4>1, <4>2
    <3> QED BY <3>1, <3>2
  <2>3. g = Retaining(q, a, n + 1, g)
    BY <2>2 DEF Retaining
  <2>4. \E h : h = Retaining(q, a, n + 1, h)
    <3> HIDE DEF g
    <3> QED BY <2>3
  <2> QED BY <2>4
<1>3. \A n \in Nat : n \in S
  <2> HIDE DEF S
  <2> QED BY <1>1, <1>2, NatSetInduction
<1> QED BY <1>3

\* What evict_quarantine leaves: no occurrence of a, only entries of the queue, none twice.
LEMMA EvictedFacts ==
  ASSUME NEW q \in Seq(Objects), NEW a, NoRepeats(q)
  PROVE  /\ Evicted(q, a) \in Seq(Objects) /\ Len(Evicted(q, a)) <= Len(q)
         /\ NoRepeats(Evicted(q, a))
         /\ \A i \in 1 .. Len(Evicted(q, a)) :
              Evicted(q, a)[i] # a /\ \E j \in 1 .. Len(q) : Evicted(q, a)[i] = q[j]
<1> DEFINE M == Len(q)
           P(f) == f = Retaining(q, a, M, f)
           Kept == CHOOSE f : P(f)
<1>1. M \in Nat /\ \A i \in 1 .. M : q[i] \in Objects
  OBVIOUS
<1>2. \E f : P(f)
  BY <1>1, RetainExists
<1>3. P(Kept)
  <2> HIDE DEF P
  <2> QED BY <1>2
<1>4. Evicted(q, a) = Kept[M]
  BY DEF Evicted, Retaining, Retain
<1> HIDE DEF Kept
<1>5. Kept[0] = << >> /\ \A i \in 1 .. M : Kept[i] = Retain(Kept[i - 1], q[i], a)
  BY <1>1, <1>3 DEF Retaining
<1> DEFINE Good(k, n) ==
             /\ k \in Seq(Objects) /\ Len(k) <= n /\ NoRepeats(k)
             /\ \A i \in 1 .. Len(k) : k[i] # a /\ \E j \in 1 .. n : k[i] = q[j]
           S == {n \in Nat : n <= M => Good(Kept[n], n)}
<1>6. 0 \in S
  <2>1. << >> \in Seq(Objects) /\ Len(<< >>) = 0 /\ NoRepeats(<< >>)
    BY DEF NoRepeats
  <2>2. Good(<< >>, 0)
    BY <2>1
  <2> HIDE DEF Good
  <2> QED BY <1>5, <2>2
<1>7. ASSUME NEW n \in Nat, n \in S PROVE n + 1 \in S
  <2> SUFFICES ASSUME n + 1 <= M PROVE Good(Kept[n + 1], n + 1)
    OBVIOUS
  <2> DEFINE k == Kept[n]
             x == q[n + 1]
  <2>1. Good(k, n)
    BY <1>1, <1>7
  <2>2. Kept[n + 1] = Retain(k, x, a) /\ x \in Objects
    BY <1>1, <1>5
  <2> HIDE DEF k
  <2>3. CASE x = a
    BY <2>1, <2>2, <2>3 DEF Retain
  <2>4. CASE x # a
    <3> DEFINE e == Append(k, x)
    <3>1. /\ e \in Seq(Objects) /\ Len(e) = Len(k) + 1 /\ Len(k) \in Nat /\ e[Len(e)] = x
          /\ \A i \in 1 .. Len(k) : e[i] = k[i]
      BY <2>1, <2>2
    <3>2. \A i \in 1 .. Len(k) : k[i] # x
      <4> SUFFICES ASSUME NEW i \in 1 .. Len(k), k[i] = x PROVE FALSE
        OBVIOUS
      <4>1. PICK j \in 1 .. n : k[i] = q[j]
        BY <2>1
      <4>2. j \in 1 .. M /\ n + 1 \in 1 .. M /\ q[j] = q[n + 1] /\ j # n + 1
        BY <1>1, <4>1
      <4> QED BY <4>2 DEF NoRepeats
    <3> HIDE DEF e
    <3>3. NoRepeats(e)
      <4> SUFFICES ASSUME NEW i \in 1 .. Len(e), NEW j \in 1 .. Len(e), e[i] = e[j] PROVE i = j
        BY DEF NoRepeats
      <4>1. CASE i \in 1 .. Len(k) /\ j \in 1 .. Len(k)
        BY <2>1, <3>1, <4>1 DEF NoRepeats
      <4>2. CASE i = Len(e) \/ j = Len(e)
        BY <3>1, <3>2, <4>2
      <4> QED BY <3>1, <4>1, <4>2
    <3>4. ASSUME NEW i \in 1 .. Len(e) PROVE e[i] # a /\ \E j \in 1 .. n + 1 : e[i] = q[j]
      <4>1. CASE i \in 1 .. Len(k)
        <5>1. e[i] = k[i] /\ k[i] # a
          BY <2>1, <3>1, <4>1
        <5>2. PICK j \in 1 .. n : k[i] = q[j]
          BY <2>1, <4>1
        <5> QED BY <5>1, <5>2
      <4>2. CASE i = Len(e)
        BY <2>4, <3>1, <4>2
      <4> QED BY <3>1, <4>1, <4>2
    <3>5. Good(e, n + 1)
      BY <2>1, <3>1, <3>3, <3>4
    <3> QED BY <2>2, <2>4, <3>5 DEF Retain, e
  <2> QED BY <2>3, <2>4
<1>8. M \in S
  <2> HIDE DEF S
  <2> QED BY <1>1, <1>6, <1>7, NatSetInduction
<1> QED BY <1>1, <1>4, <1>8

\* A queue that is sound for a set L of live addresses.
QueueSound(q, L) ==
  /\ q \in Seq(Objects) /\ NoRepeats(q)
  /\ \A i \in 1 .. Len(q) : q[i] \notin L
  /\ Len(q) <= QUARANTINE_CAP \/ QUARANTINE_CAP = 0

LEMMA EmptyQueue == ASSUME NEW L PROVE QueueSound(<< >>, L)
<1>1. QUARANTINE_CAP \in Nat
  BY HeapAssumption
<1> QED BY <1>1 DEF QueueSound, NoRepeats

\* An address that comes to life leaves the queue.
LEMMA EvictSound ==
  ASSUME NEW q, NEW L, NEW a, QueueSound(q, L)
  PROVE  QueueSound(Evicted(q, a), L \cup {a})
<1> DEFINE e == Evicted(q, a)
<1>1. /\ q \in Seq(Objects) /\ NoRepeats(q) /\ \A i \in 1 .. Len(q) : q[i] \notin L
      /\ Len(q) <= QUARANTINE_CAP \/ QUARANTINE_CAP = 0
  BY DEF QueueSound
<1>2. /\ e \in Seq(Objects) /\ Len(e) <= Len(q) /\ NoRepeats(e)
      /\ \A i \in 1 .. Len(e) : e[i] # a /\ \E j \in 1 .. Len(q) : e[i] = q[j]
  BY <1>1, EvictedFacts
<1>3. QUARANTINE_CAP \in Nat /\ Len(q) \in Nat /\ Len(e) \in Nat
  BY <1>1, <1>2, HeapAssumption
<1> HIDE DEF e
<1>4. \A i \in 1 .. Len(e) : e[i] \notin L \cup {a}
  BY <1>1, <1>2
<1>5. QueueSound(e, L \cup {a})
  BY <1>1, <1>2, <1>3, <1>4 DEF QueueSound
<1> QED BY <1>5 DEF e

\* An address that dies joins it, and pushes the oldest out of a full one.
LEMMA QuarantineAddSound ==
  ASSUME NEW q, NEW L, NEW a \in Objects, a \in L, QueueSound(q, L)
  PROVE  QueueSound(Quarantined(q, a), L \ {a})
<1> DEFINE full == Len(q) >= QUARANTINE_CAP /\ q # << >>
           t == IF full THEN Tail(q) ELSE q
           e == Append(t, a)
<1>1. /\ q \in Seq(Objects) /\ NoRepeats(q) /\ \A i \in 1 .. Len(q) : q[i] \notin L
      /\ Len(q) <= QUARANTINE_CAP \/ QUARANTINE_CAP = 0
      /\ QUARANTINE_CAP \in Nat /\ Len(q) \in Nat
  BY HeapAssumption DEF QueueSound
<1>2. /\ t \in Seq(Objects) /\ Len(t) \in Nat /\ NoRepeats(t)
      /\ \A i \in 1 .. Len(t) : t[i] \notin L
      /\ Len(t) + 1 <= QUARANTINE_CAP \/ QUARANTINE_CAP = 0
  <2>1. CASE ~full
    BY <1>1, <2>1
  <2>2. CASE full
    <3>1. /\ t = Tail(q) /\ t \in Seq(Objects) /\ Len(t) = Len(q) - 1 /\ Len(q) > 0
          /\ \A i \in 1 .. Len(t) : t[i] = q[i + 1]
      BY <1>1, <2>2
    <3> HIDE DEF t
    <3>2. NoRepeats(t)
      BY <1>1, <3>1 DEF NoRepeats
    <3>3. \A i \in 1 .. Len(t) : t[i] \notin L
      BY <1>1, <3>1
    <3> QED BY <1>1, <2>2, <3>1, <3>2, <3>3
  <2> QED BY <2>1, <2>2
<1> HIDE DEF t
<1>3. /\ e \in Seq(Objects) /\ Len(e) = Len(t) + 1 /\ e[Len(e)] = a
      /\ \A i \in 1 .. Len(t) : e[i] = t[i]
  BY <1>2
<1> HIDE DEF e
<1>4. \A i \in 1 .. Len(t) : t[i] # a
  BY <1>2
<1>5. NoRepeats(e)
  <2> SUFFICES ASSUME NEW i \in 1 .. Len(e), NEW j \in 1 .. Len(e), e[i] = e[j] PROVE i = j
    BY DEF NoRepeats
  <2>1. CASE i \in 1 .. Len(t) /\ j \in 1 .. Len(t)
    BY <1>2, <1>3, <2>1 DEF NoRepeats
  <2>2. CASE i = Len(e) \/ j = Len(e)
    BY <1>2, <1>3, <1>4, <2>2
  <2> QED BY <1>2, <1>3, <2>1, <2>2
<1>6. \A i \in 1 .. Len(e) : e[i] \notin L \ {a}
  BY <1>2, <1>3
<1>7. QueueSound(e, L \ {a})
  BY <1>2, <1>3, <1>5, <1>6 DEF QueueSound
<1> QED BY <1>7 DEF Quarantined, e, t

\* Fewer live addresses, or none at all, disturb no queue.
LEMMA FewerLive ==
  ASSUME NEW q, NEW L, NEW a, QueueSound(q, L)
  PROVE  QueueSound(q, L \ {a})
BY DEF QueueSound

-------------------------------------------------------------------------------
\* The allocator events.

Live == {a \in Objects : is_live(a)}

\* The rest of SanTypeOK, and QuarantineSound.
HeapInv ==
  /\ QueueSound(quarantine, Live)
  /\ page_live \subseteq Objects /\ QueueSound(page_quarantine, page_live)

\* Reviving or dropping one object.
LEMMA LiveChanges ==
  ASSUME live \in [Objects -> LiveAlloc], NEW a \in Objects, NEW e \in LiveAlloc,
         live' = [live EXCEPT ![a] = e]
  PROVE  Live' = IF e.size > 0 THEN Live \cup {a} ELSE Live \ {a}
<1>1. \A x \in Objects : live'[x] = IF x = a THEN e ELSE live[x]
  OBVIOUS
<1> QED BY <1>1 DEF Live, is_live

LEMMA PagesUntouched ==
  ASSUME HeapInv, UNCHANGED <<page_live, page_quarantine>>, QueueSound(quarantine', Live')
  PROVE  HeapInv'
BY DEF HeapInv, QueueSound, NoRepeats

LEMMA ObjectsUntouched ==
  ASSUME HeapInv, UNCHANGED <<live, quarantine>>
  PROVE  QueueSound(quarantine', Live')
BY DEF HeapInv, Live, is_live

LEMMA AllocHeap ==
  ASSUME Typing, HeapInv, NEW a \in Objects, NEW req \in Requests, Alloc(a, req)
  PROVE  HeapInv'
<1> DEFINE e == [size |-> kmalloc_bucket(req), req |-> req, guard |-> TRUE]
<1>1. UNCHANGED <<page_live, page_quarantine>>
  BY DEF Alloc
<1>2. CASE UNCHANGED <<live, quarantine>>
  BY <1>1, <1>2, ObjectsUntouched, PagesUntouched
<1>3. CASE live' = [live EXCEPT ![a] = e] /\ quarantine' = Evicted(quarantine, a)
  <2>1. e \in LiveAlloc /\ e.size > 0
    BY HeapAssumption DEF LiveAlloc
  <2> HIDE DEF e
  <2>2. Live' = Live \cup {a}
    BY <1>3, <2>1, LiveChanges DEF Typing
  <2>3. QueueSound(quarantine', Live')
    BY <1>3, <2>2, EvictSound DEF HeapInv
  <2> QED BY <1>1, <2>3, PagesUntouched
<1> QED BY <1>2, <1>3 DEF Alloc

LEMMA CacheAllocHeap ==
  ASSUME Typing, HeapInv, NEW a \in Objects, NEW n \in Requests, CacheAlloc(a, n)
  PROVE  HeapInv'
<1> DEFINE e == [size |-> n, req |-> 0, guard |-> FALSE]
<1>1. UNCHANGED <<page_live, page_quarantine>>
  BY DEF CacheAlloc
<1>2. CASE UNCHANGED <<live, quarantine>>
  BY <1>1, <1>2, ObjectsUntouched, PagesUntouched
<1>3. CASE live' = [live EXCEPT ![a] = e] /\ quarantine' = Evicted(quarantine, a)
  <2>1. e \in LiveAlloc /\ e.size > 0
    BY HeapAssumption DEF LiveAlloc
  <2> HIDE DEF e
  <2>2. Live' = Live \cup {a}
    BY <1>3, <2>1, LiveChanges DEF Typing
  <2>3. QueueSound(quarantine', Live')
    BY <1>3, <2>2, EvictSound DEF HeapInv
  <2> QED BY <1>1, <2>3, PagesUntouched
<1> QED BY <1>2, <1>3 DEF CacheAlloc

LEMMA FreeHeap ==
  ASSUME Typing, HeapInv, NEW a \in Objects, Free(a)
  PROVE  HeapInv'
<1>1. UNCHANGED <<page_live, page_quarantine>>
  BY DEF Free
<1>2. CASE UNCHANGED <<live, quarantine>>
  BY <1>1, <1>2, ObjectsUntouched, PagesUntouched
<1>3. CASE /\ is_live(a) /\ live' = [live EXCEPT ![a] = Dead]
           /\ quarantine' \in {quarantine, Quarantined(quarantine, a)}
  <2>1. Dead \in LiveAlloc /\ ~(Dead.size > 0)
    BY DEF Dead, LiveAlloc
  <2>2. Live' = Live \ {a} /\ a \in Live
    BY <1>3, <2>1, LiveChanges DEF Typing, Live
  <2>3. QueueSound(quarantine', Live')
    <3>1. QueueSound(quarantine, Live)
      BY DEF HeapInv
    <3>2. QueueSound(quarantine, Live \ {a})
      BY <3>1, FewerLive
    <3>3. QueueSound(Quarantined(quarantine, a), Live \ {a})
      BY <2>2, <3>1, QuarantineAddSound
    <3> QED BY <1>3, <2>2, <3>2, <3>3
  <2> QED BY <1>1, <2>3, PagesUntouched
<1> QED BY <1>2, <1>3 DEF Free

LEMMA PagesHeap ==
  ASSUME Typing, HeapInv, NEW a \in Objects, NEW o, AllocPages(a, o) \/ FreePages(a, o)
  PROVE  HeapInv'
<1>1. QueueSound(quarantine', Live')
  BY ObjectsUntouched DEF AllocPages, FreePages
<1>2. page_live \subseteq Objects /\ QueueSound(page_quarantine, page_live)
  BY DEF HeapInv
<1>3. page_live' \subseteq Objects /\ QueueSound(page_quarantine', page_live')
  <2>1. CASE UNCHANGED <<page_live, page_quarantine>>
    BY <1>2, <2>1
  <2>2. CASE page_live' = page_live \cup {a} /\ page_quarantine' = Evicted(page_quarantine, a)
    BY <1>2, <2>2, EvictSound
  <2>3. CASE page_live' = page_live \ {a} /\ page_quarantine' = page_quarantine
    BY <1>2, <2>3, FewerLive
  <2>4. CASE /\ page_live' = page_live \ {a} /\ a \in page_live
             /\ page_quarantine' = Quarantined(page_quarantine, a)
    BY <1>2, <2>4, QuarantineAddSound
  <2>5. CASE AllocPages(a, o)
    BY <2>1, <2>2, <2>5 DEF AllocPages
  <2>6. CASE FreePages(a, o)
    BY <2>3, <2>4, <2>6 DEF FreePages
  <2> QED BY <2>5, <2>6
<1> QED BY <1>1, <1>3 DEF HeapInv, QueueSound, NoRepeats

LEMMA HeapUntouched == ASSUME HeapInv, UNCHANGED sanVars PROVE HeapInv'
BY ObjectsUntouched, PagesUntouched DEF sanVars

LEMMA HookHeap ==
  ASSUME Typing, HeapInv, NEW a \in Objects, SanHook(a) \/ KmsanHook(a)
  PROVE  HeapInv'
<1>1. ASSUME NEW s \in Requests, Alloc(a, s) \/ CacheAlloc(a, s) PROVE HeapInv'
  BY <1>1, AllocHeap, CacheAllocHeap
<1>2. CASE Free(a)
  BY <1>2, FreeHeap
<1>3. ASSUME NEW o \in Orders, AllocPages(a, o) \/ FreePages(a, o) PROVE HeapInv'
  BY <1>3, PagesHeap
<1>4. CASE UNCHANGED sanVars
  BY <1>4, HeapUntouched
<1> QED BY <1>1, <1>2, <1>3, <1>4 DEF SanHook, KmsanHook, Hook, Ksize, SeedTaint

LEMMA NewSanitizerHeap == NewSanitizer => HeapInv'
<1> SUFFICES ASSUME NewSanitizer PROVE HeapInv'
  OBVIOUS
<1>1. quarantine' = << >> /\ page_live' = {} /\ page_quarantine' = << >>
  BY DEF NewSanitizer
<1>2. QueueSound(quarantine', Live') /\ QueueSound(page_quarantine', page_live')
  BY <1>1, EmptyQueue
<1> QED BY <1>1, <1>2 DEF HeapInv, QueueSound, NoRepeats

LEMMA NextHeap == Typing /\ HeapInv /\ [Next]_vars => HeapInv'
<1> SUFFICES ASSUME Typing, HeapInv, [Next]_vars PROVE HeapInv'
  OBVIOUS
<1>1. CASE BeginCase
  BY <1>1, NewSanitizerHeap DEF BeginCase
<1>2. ASSUME NEW a \in Objects, SanHook(a) \/ KmsanHook(a) PROVE HeapInv'
  BY <1>2, HookHeap
<1>3. ASSUME UNCHANGED sanVars PROVE HeapInv'
  BY <1>3, HeapUntouched
<1>4. ASSUME BeginSeed \/ BeginTrace \/ BeginReplay \/ BeginKmsanReplay PROVE UNCHANGED sanVars
  BY <1>4 DEF BeginSeed, BeginTrace, BeginReplay, BeginKmsanReplay, SnapReset
<1>5. ASSUME EndSeeds \/ EndRun \/ EndMinimise \/ EndKmsanMinimise \/ UbsanOracle
             \/ CrashOracle \/ KmsanOracle
      PROVE  UNCHANGED sanVars
  BY <1>5 DEF EndSeeds, EndRun, EndMinimise, EndKmsanMinimise, UbsanOracle, CrashOracle,
    KmsanOracle, Goto
<1>6. ASSUME Runs_DivByZero \/ Runs_TaintedLoad \/ Runs_TaintedBranch PROVE UNCHANGED sanVars
  BY <1>6 DEF Runs_DivByZero, Runs_TaintedLoad, Runs_TaintedBranch
<1>7. ASSUME NEW n, NEW a, NEW d,
             Runs_Store(n, a, d) \/ Runs_TaintedStore(n, a, d) \/ Runs_FastStore(n, a, d)
      PROVE  UNCHANGED sanVars
  BY <1>7 DEF Runs_Store, Runs_TaintedStore, Runs_FastStore
<1>8. ASSUME UNCHANGED vars PROVE UNCHANGED sanVars
  BY <1>8 DEF vars
<1> QED BY <1>1, <1>2, <1>3, <1>4, <1>5, <1>6, <1>7, <1>8 DEF Next

LEMMA AlwaysHeapInv == Spec => []HeapInv
<1>1. Init => HeapInv
  <2> SUFFICES ASSUME Init PROVE HeapInv
    OBVIOUS
  <2>1. quarantine = << >> /\ page_live = {} /\ page_quarantine = << >>
    BY DEF Init, SanInit
  <2>2. QueueSound(quarantine, Live) /\ QueueSound(page_quarantine, page_live)
    BY <2>1, EmptyQueue
  <2> QED BY <2>1, <2>2 DEF HeapInv
<1>2. IInv => Typing
  BY DEF IInv, MemInv
<1> QED BY <1>1, <1>2, AlwaysIInv, NextHeap, PTL DEF Spec

\* Whatever the guest's allocators report, in any order and with any bogus address or order:
\* a quarantined address is never live, is queued once, and neither queue outgrows its cap.
THEOREM SerialQuarantineSound == Spec => []QuarantineSound
<1>1. HeapInv => QuarantineSound
  BY DEF HeapInv, QueueSound, QuarantineSound, Live
<1> QED BY <1>1, AlwaysHeapInv, PTL

-------------------------------------------------------------------------------
\* Types.

LoopTypes ==
  /\ phase \in Phases
  /\ ubsan \subseteq Runs /\ kmsan_hit \subseteq Runs
  /\ regs_taint \in BOOLEAN /\ cmplog \in BOOLEAN

LEMMA NextLoopTypes == LoopTypes /\ [Next]_vars => LoopTypes'
<1> SUFFICES ASSUME LoopTypes, [Next]_vars PROVE LoopTypes'
  OBVIOUS
<1>1. Runs \subseteq Phases /\ \A r \in Runs : AfterRun[r] \in Phases
  BY RunFacts DEF Phases
<1>2. ASSUME NEW p \in Runs, SnapReset(p) PROVE LoopTypes'
  BY <1>1, <1>2 DEF SnapReset, ResetCpu, LoopTypes
<1>3. CASE BeginSeed \/ BeginTrace \/ BeginReplay \/ BeginKmsanReplay
  BY <1>2, <1>3, RunFacts DEF BeginSeed, BeginTrace, BeginReplay, BeginKmsanReplay
<1>4. CASE BeginCase
  BY <1>1, <1>4, RunFacts DEF BeginCase, ResetCpu, LoopTypes
<1>5. CASE EndRun
  BY <1>1, <1>5 DEF EndRun, Goto, LoopTypes
<1>6. CASE EndSeeds \/ EndMinimise \/ EndKmsanMinimise \/ UbsanOracle
  BY <1>6 DEF EndSeeds, EndMinimise, EndKmsanMinimise, UbsanOracle, Goto, cpuVars, LoopTypes, Phases
<1>7. CASE CrashOracle \/ KmsanOracle
  BY <1>7 DEF CrashOracle, KmsanOracle, cpuVars, LoopTypes, Phases
<1>8. CASE Runs_DivByZero
  BY <1>8 DEF Runs_DivByZero, RunStep, LoopTypes
<1>9. CASE Runs_TaintedLoad
  BY <1>9 DEF Runs_TaintedLoad, RunStep, LoopTypes
<1>10. CASE Runs_TaintedBranch
  BY <1>1, <1>10 DEF Runs_TaintedBranch, RunStep, LoopTypes
<1>11. ASSUME NEW n, NEW a, NEW d,
              Runs_Store(n, a, d) \/ Runs_TaintedStore(n, a, d) \/ Runs_FastStore(n, a, d)
       PROVE  LoopTypes'
  BY <1>11 DEF Runs_Store, Runs_TaintedStore, Runs_FastStore, RunStep, LoopTypes
<1>12. ASSUME NEW a, SanHook(a) \/ KmsanHook(a) PROVE LoopTypes'
  BY <1>12 DEF SanHook, KmsanHook, Hook, RunStep, LoopTypes
<1>13. CASE UNCHANGED vars
  BY <1>13 DEF vars, cpuVars, LoopTypes
<1> QED BY <1>3, <1>4, <1>5, <1>6, <1>7, <1>8, <1>9, <1>10, <1>11, <1>12, <1>13 DEF Next

\* The loop, the guest's memory, the cpu's logs and the heap bookkeeping keep their types.
THEOREM SerialTypeCorrect == Spec => []TypeOK
<1>1. Init => LoopTypes
  BY DEF Init, LoopTypes, Phases
<1>2. IInv /\ HeapInv /\ LoopTypes => TypeOK
  BY DEF IInv, MemInv, Typing, HeapInv, QueueSound, LoopTypes, TypeOK, SanTypeOK
<1> QED BY <1>1, <1>2, AlwaysIInv, AlwaysHeapInv, NextLoopTypes, PTL DEF Spec
===============================================================================
