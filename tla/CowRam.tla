-------------------------------- MODULE CowRam --------------------------------
(***************************************************************************)
(* CowRam (crates/fs-mmu): a lane's private view over the shared golden     *)
(* image.  A page is read straight through to golden until the first store  *)
(* or shadow write copies both of its planes into an overlay; reset drops   *)
(* the overlays and copies nothing.                                         *)
(*                                                                          *)
(* The overlay of page pn is kept as functions on the bytes of that page    *)
(* that exist (a final partial page is clamped, as page_mem does).          *)
(***************************************************************************)
EXTENDS GuestBytes, Sequences

CONSTANT PAGE_SIZE
ASSUME PageAssumption == PAGE_SIZE \in Nat /\ PAGE_SIZE > 0

PageOf(i) == i \div PAGE_SIZE
Pages == {PageOf(i) : i \in Offs}
PageBytes(pn) == {i \in Offs : PageOf(i) = pn}

\* A naturally aligned access stays within one page.
ASSUME SinglePage ==
  \A n \in Widths, a \in Offs :
    Aligned(a, n) => \A i \in Span(a, n) : PageOf(i) = PageOf(a)

\* dir[pn] for a page without an overlay (u32::MAX in the code)
SENTINEL == -1

VARIABLES gmem, gperms,   \* Arc<Golden>
          dir,            \* page -> index into pages, or SENTINEL
          pages,          \* the overlays, in copy-on-write order
          dirty,          \* the overlaid page numbers, in the same order
          res             \* what the last operation returned

gvars == <<gmem, gperms>>
vars == <<gmem, gperms, dir, pages, dirty, res>>

GoldenPage(pn) == [mem |-> [i \in PageBytes(pn) |-> gmem[i]],
                   perms |-> [i \in PageBytes(pn) |-> gperms[i]]]

\* Both planes of page pn come from the overlay or both from golden.
resolve(pn) == IF dir[pn] = SENTINEL THEN GoldenPage(pn) ELSE pages[dir[pn] + 1]

\* The planes an access sees.
mem == [i \in Offs |-> resolve(PageOf(i)).mem[i]]
perms == [i \in Offs |-> resolve(PageOf(i)).perms[i]]

\* CowRam::new over a captured golden image.
Init ==
  /\ gmem \in [Offs -> Val]
  /\ gperms \in [Offs -> Perm]
  /\ dir = [pn \in Pages |-> SENTINEL]
  /\ pages = << >>
  /\ dirty = << >>
  /\ res = Ok

\* ensure_page, then page pn's overlay replaced by new (the page after the
\* caller's in-place update of what resolve returned).
WithPage(pn, new) ==
  IF dir[pn] = SENTINEL
    THEN /\ pages' = Append(pages, new)
         /\ dir' = [dir EXCEPT ![pn] = Len(pages)]
         /\ dirty' = Append(dirty, pn)
    ELSE /\ pages' = [pages EXCEPT ![dir[pn] + 1] = new]
         /\ UNCHANGED <<dir, dirty>>

\* Mutant: an overlay that keeps bytes of other pages.
Restrict2Page_Unclamped(f, pn) == f

Restrict2Page(f, pn) == [i \in PageBytes(pn) |-> f[i]]

\* load, ifetch16: never allocates an overlay.
Load(a, n, flag) ==
  /\ res' = ReadResult(mem, perms, a, n, flag)
  /\ UNCHANGED <<gmem, gperms, dir, pages, dirty>>

\* store: the page is copied only once a byte is known to be writable; a fault
\* in the middle leaves the bytes below it committed.
Store(a, n, d) ==
  LET S == Committed(perms, a, n)
      pn == PageOf(a)
  IN  /\ res' = Verdict(perms, a, n, "WRITE")
      /\ IF S = {} THEN UNCHANGED <<dir, pages, dirty>>
         ELSE WithPage(pn, [mem |-> Restrict2Page(StoredMem(mem, S, a, d), pn),
                            perms |-> Restrict2Page(StoredPerms(perms, S), pn)])
      /\ UNCHANGED gvars

\* Mutant: the fast path does not ask for READ, which a store must grant.
FastStoreNeed_WriteOnly == {"WRITE"}

\* What the chain JIT asks fast_ptr for before a store.
FastStoreNeed == {"READ", "WRITE"}

\* fast_ptr with a store through the pointer: the page is overlaid, its
\* content written, its permissions left alone.
FastStore(a, n, d) ==
  LET pn == PageOf(a)
  IN  /\ FastOk(perms, a, n, FastStoreNeed)
      /\ WithPage(pn, [mem |-> Restrict2Page(FastStoredMem(mem, a, n, d), pn),
                       perms |-> Restrict2Page(perms, pn)])
      /\ res' = Ok
      /\ UNCHANGED gvars

\* write_shadow: outside RAM it does nothing, otherwise it overlays the page.
Shadow(a, n, mask) ==
  LET pn == PageOf(a)
  IN  /\ Aligned(a, n)
      /\ IF a \notin Offs THEN UNCHANGED <<dir, pages, dirty>>
         ELSE WithPage(pn, [mem |-> Restrict2Page(mem, pn),
                            perms |-> Restrict2Page(
                              ShadowedPerms(perms, Span(a, n) \cap Offs, mask), pn)])
      /\ res' = Ok
      /\ UNCHANGED gvars

\* Mutant: the list of dirty pages survives.
Reset_KeepsDirty ==
  /\ dir' = [pn \in Pages |-> SENTINEL]
  /\ pages' = << >>
  /\ res' = Ok
  /\ UNCHANGED <<gmem, gperms, dirty>>

\* reset: forget the overlays of the dirty pages.
Reset ==
  /\ dir' = [pn \in Pages |->
               IF \E k \in 1 .. Len(dirty) : dirty[k] = pn THEN SENTINEL ELSE dir[pn]]
  /\ pages' = << >>
  /\ dirty' = << >>
  /\ res' = Ok
  /\ UNCHANGED gvars

Next ==
  \/ \E n \in Widths, a \in 0 .. Size :
       \/ \E flag \in {"READ", "EXEC"} : Load(a, n, flag)
       \/ \E d \in [0 .. n - 1 -> Val] : Store(a, n, d) \/ FastStore(a, n, d)
       \/ \E mask \in SUBSET Span(a, n) : Shadow(a, n, mask)
  \/ Reset

Spec == Init /\ [][Next]_vars

-------------------------------------------------------------------------------
PageImage(pn) == [mem : [PageBytes(pn) -> Val], perms : [PageBytes(pn) -> Perm]]

TypeOK ==
  /\ gmem \in [Offs -> Val]
  /\ gperms \in [Offs -> Perm]
  /\ dir \in [Pages -> Int]
  /\ pages \in Seq(UNION {PageImage(pn) : pn \in Pages})
  /\ dirty \in Seq(Pages)

\* The directory, the overlay list and the dirty list name the same pages: the
\* k-th overlay is the page that the k-th dirty entry names and dir points to.
\* reset walks only dirty and trusts this (CowRam::ensure_page, CowRam::reset).
DirMatches ==
  /\ Len(pages) = Len(dirty)
  /\ \A k \in 1 .. Len(dirty) : dir[dirty[k]] = k - 1 /\ pages[k] \in PageImage(dirty[k])
  /\ \A pn \in Pages :
       dir[pn] # SENTINEL => dir[pn] + 1 \in 1 .. Len(dirty) /\ dirty[dir[pn] + 1] = pn

\* A lane's overlaid RAM behaves as one flat array with an exact reset: every
\* load, store, fast-path store, shadow write and reset of CowRam is one of
\* GuestRam, with the same result (doc of CowRam: "mirror Mmu byte-for-byte").
Flat == INSTANCE GuestRam
ImplementsGuestRam == Flat!Spec
===============================================================================
