------------------------------- MODULE Sanitizer -------------------------------
(***************************************************************************)
(* The kernel-heap sanitizer as run_case drives it: Sanitizer (kmalloc      *)
(* objects), PageSanitizer (page ranges) and KmsanCtx's taint seeding, all  *)
(* of them permission-only edits of the Mmu, and the list of byte ranges    *)
(* (SanCtx::dirtied, KmsanCtx::dirtied) that puts those edits back.         *)
(* An action is one allocator event, the hook having already paired the     *)
(* call with its return and translated the pointer to RAM.                  *)
(***************************************************************************)
EXTENDS Mmu, Sequences

CONSTANTS Objects,          \* addresses the guest's allocators hand out
          Requests,         \* kmalloc and kmem_cache object sizes
          Buckets,          \* SLUB's kmalloc buckets
          PAGE,             \* bytes per page of PageSanitizer
          Orders,           \* buddy orders a page hook may report
          MAX_ORDER,        \* page_range_len is None above this (19)
          QUARANTINE_CAP    \* freed ranges remembered (4096)

\* kmalloc_bucket: the smallest bucket that fits, else the next power of two.
FitsIn(s, S) == CHOOSE b \in S : b >= s /\ \A c \in S : c >= s => b <= c
kmalloc_bucket(s) ==
  IF \E b \in Buckets : s <= b THEN FitsIn(s, Buckets)
  ELSE FitsIn(s, {2 ^ k : k \in 0 .. s})

PageLen(order) == PAGE * 2 ^ order

ASSUME HeapAssumption ==
  /\ Objects \subseteq Offs
  /\ Requests \subseteq Nat \ {0}
  /\ \A s \in Requests : kmalloc_bucket(s) \in Nat /\ kmalloc_bucket(s) >= s
  /\ \A o \in Orders : o \in Nat /\ PageLen(o) \in Nat
  /\ MAX_ORDER \in Nat /\ QUARANTINE_CAP \in Nat

VARIABLES live,             \* object -> LiveAlloc
          quarantine,       \* freed objects, oldest first
          page_live,        \* bases of live page ranges
          page_quarantine,  \* freed page ranges, oldest first
          dirtied           \* bytes of the ranges mark_dirtied recorded

sanVars == <<live, quarantine, page_live, page_quarantine>>

RW == {"READ", "WRITE"}
UNINIT == {"WRITE", "RAW"}

\* req is 0 for an allocation without slack; guard is free_poisons.
Dead == [size |-> 0, req |-> 0, guard |-> FALSE]
LiveAlloc == [size : Nat, req : Nat, guard : BOOLEAN]
is_live(a) == live[a].size > 0

NewSanitizer ==
  /\ live' = [a \in Objects |-> Dead]
  /\ quarantine' = << >>
  /\ page_live' = {}
  /\ page_quarantine' = << >>

SanInit ==
  /\ live = [a \in Objects |-> Dead]
  /\ quarantine = << >>
  /\ page_live = {}
  /\ page_quarantine = << >>
  /\ dirtied = {}

\* Bytes outside RAM, which restore_dirtied_perms skips, are left out.
mark_dirtied(a, n) == dirtied' = dirtied \cup (Span(a, n) \cap Offs)

\* restore_dirtied_perms on a permission plane.
Restored(p0) == [i \in Offs |-> IF i \in dirtied THEN gperms[i] ELSE p0[i]]

\* evict_quarantine's retain: the queue without a, its order kept.
Evicted(q, a) ==
  LET Kept[n \in 0 .. Len(q)] ==
        IF n = 0 THEN << >> ELSE IF q[n] = a THEN Kept[n - 1] ELSE Append(Kept[n - 1], q[n])
  IN  Kept[Len(q)]

\* Mutant: the oldest entry is never dropped.
Quarantined_Unbounded(q, a) == Append(q, a)

Quarantined(q, a) ==
  Append(IF Len(q) >= QUARANTINE_CAP /\ q # << >> THEN Tail(q) ELSE q, a)

\* kmalloc returned: alloc_with_slack stamps the payload and poisons the slack
\* when the slack lies in RAM, then the payload is opened for reading.
Alloc(a, req) ==
  LET bucket == kmalloc_bucket(req)
      slack == bucket - req
      opened == Stamped(perms, a, req, RW)
  IN  /\ mark_dirtied(a, bucket)
      /\ IF is_live(a) THEN UNCHANGED <<perms, live, quarantine>>
         ELSE IF ~InRam(a, req)
           THEN /\ perms' = Stamped(perms, a, req, UNINIT)
                /\ UNCHANGED <<live, quarantine>>
         ELSE /\ perms' = IF slack > 0 /\ InRam(a + req, slack)
                            THEN Stamped(opened, a + req, slack, {}) ELSE opened
              /\ live' = [live EXCEPT ![a] = [size |-> bucket, req |-> req, guard |-> TRUE]]
              /\ quarantine' = Evicted(quarantine, a)
      /\ UNCHANGED <<page_live, page_quarantine>>

\* kmem_cache_alloc returned: alloc_exact_no_uaf_guard.
CacheAlloc(a, n) ==
  /\ mark_dirtied(a, n)
  /\ IF is_live(a) THEN UNCHANGED <<perms, live, quarantine>>
     ELSE IF ~InRam(a, n)
       THEN /\ perms' = Stamped(perms, a, n, UNINIT)
            /\ UNCHANGED <<live, quarantine>>
     ELSE /\ perms' = Stamped(perms, a, n, RW)
          /\ live' = [live EXCEPT ![a] = [size |-> n, req |-> 0, guard |-> FALSE]]
          /\ quarantine' = Evicted(quarantine, a)
  /\ UNCHANGED <<page_live, page_quarantine>>

\* kfree returned.  A free of a dead address is an InvalidFree and touches
\* nothing; a poison that runs off RAM has already dropped the allocation.
Free(a) ==
  /\ IF ~is_live(a) THEN UNCHANGED <<perms, live, quarantine, dirtied>>
     ELSE /\ mark_dirtied(a, live[a].size)
          /\ live' = [live EXCEPT ![a] = Dead]
          /\ IF ~live[a].guard THEN UNCHANGED <<perms, quarantine>>
             ELSE /\ perms' = Stamped(perms, a, live[a].size, {})
                  /\ quarantine' = IF InRam(a, live[a].size)
                                     THEN Quarantined(quarantine, a) ELSE quarantine
  /\ UNCHANGED <<page_live, page_quarantine>>

\* ksize/krealloc: reopen_slack, then the whole allocation is opened; a slack
\* that runs off RAM fails after stamping what it could.
Ksize(a) ==
  LET sz == live[a].size
      slack == IF live[a].req = 0 THEN 0 ELSE sz - live[a].req
      start == a + live[a].req
  IN  /\ IF ~is_live(a) THEN UNCHANGED <<perms, dirtied>>
         ELSE /\ mark_dirtied(a, sz)
              /\ perms' = IF slack > 0 /\ ~InRam(start, slack)
                            THEN Stamped(perms, start, slack, UNINIT)
                            ELSE Stamped(perms, a, sz, RW)
      /\ UNCHANGED sanVars

\* The page allocator returned a range of PAGE << order bytes.
AllocPages(a, order) ==
  /\ IF order > MAX_ORDER THEN UNCHANGED <<perms, dirtied, page_live, page_quarantine>>
     ELSE /\ mark_dirtied(a, PageLen(order))
          /\ IF a \in page_live THEN UNCHANGED <<perms, page_live, page_quarantine>>
             ELSE /\ perms' = Stamped(perms, a, PageLen(order), RW)
                  /\ IF InRam(a, PageLen(order))
                       THEN /\ page_live' = page_live \cup {a}
                            /\ page_quarantine' = Evicted(page_quarantine, a)
                       ELSE UNCHANGED <<page_live, page_quarantine>>
  /\ UNCHANGED <<live, quarantine>>

\* free_pages: the order the guest passes decides the length, and the range is
\* dropped from page_live before the order is checked.
FreePages(a, order) ==
  /\ page_live' = page_live \ {a}
  /\ IF order > MAX_ORDER THEN UNCHANGED <<perms, dirtied, page_quarantine>>
     ELSE /\ mark_dirtied(a, PageLen(order))
          /\ IF a \notin page_live THEN UNCHANGED <<perms, page_quarantine>>
             ELSE /\ perms' = Stamped(perms, a, PageLen(order), {})
                  /\ page_quarantine' = IF InRam(a, PageLen(order))
                                          THEN Quarantined(page_quarantine, a)
                                          ELSE page_quarantine
  /\ UNCHANGED <<live, quarantine>>

\* KMSAN seeding of a fresh allocation; initialised is __GFP_ZERO or a cache
\* with a constructor.
SeedTaint(a, n, initialised) ==
  /\ IF initialised THEN UNCHANGED <<perms, dirtied>>
     ELSE /\ mark_dirtied(a, n)
          /\ perms' = Tainted(perms, a, n)
  /\ UNCHANGED sanVars

-------------------------------------------------------------------------------
SanTypeOK ==
  /\ live \in [Objects -> LiveAlloc]
  /\ quarantine \in Seq(Objects)
  /\ page_live \subseteq Objects
  /\ page_quarantine \in Seq(Objects)
  /\ dirtied \subseteq Offs

NoRepeats(q) == \A i, j \in 1 .. Len(q) : q[i] = q[j] => i = j

\* A quarantined address is not live, is queued once, and the queues stay within
\* their cap (Sanitizer::free, ::evict_quarantine, PageSanitizer::free_pages).
QuarantineSound ==
  /\ NoRepeats(quarantine) /\ NoRepeats(page_quarantine)
  /\ \A i \in 1 .. Len(quarantine) : ~is_live(quarantine[i])
  /\ \A i \in 1 .. Len(page_quarantine) : page_quarantine[i] \notin page_live
  /\ Len(quarantine) <= QUARANTINE_CAP \/ QUARANTINE_CAP = 0
  /\ Len(page_quarantine) <= QUARANTINE_CAP \/ QUARANTINE_CAP = 0
===============================================================================
