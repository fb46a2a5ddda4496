------------------------------ MODULE LaneProofs ------------------------------
(***************************************************************************)
(* The lanes: the copy-on-write RAM each one runs on, and the batch that    *)
(* runs them together.                                                      *)
(*                                                                          *)
(* CowRam keeps its directory, overlays and dirty list in step and is, for  *)
(* every RAM size, page size and golden image, an implementation of         *)
(* GuestRam.  The converged path of VecSystem does to every lane what the   *)
(* scalar machine would, for any number of lanes, any guest program, golden *)
(* image, timer and budget.                                                 *)
(***************************************************************************)
EXTENDS CowRam, VecSystem, SequenceTheorems, TLAPS

-------------------------------------------------------------------------------
(* A lane's RAM. *)

Inv == TypeOK /\ DirMatches

\* Every byte of RAM lies in a page of the directory (Golden::num_pages).
LEMMA PageOfType == \A i \in Offs : PageOf(i) \in Pages /\ i \in PageBytes(PageOf(i))
BY DEF Pages, PageBytes

\* What resolve returns for a page is an image of exactly that page.
LEMMA ResolveType ==
  ASSUME Inv
  PROVE  \A pn \in Pages : resolve(pn) \in PageImage(pn)
<1> SUFFICES ASSUME NEW pn \in Pages
             PROVE  resolve(pn) \in PageImage(pn)
  OBVIOUS
<1>1. CASE dir[pn] = SENTINEL
  <2>1. /\ [i \in PageBytes(pn) |-> gmem[i]] \in [PageBytes(pn) -> Val]
        /\ [i \in PageBytes(pn) |-> gperms[i]] \in [PageBytes(pn) -> Perm]
    BY DEF Inv, TypeOK, PageBytes
  <2> QED BY <1>1, <2>1 DEF resolve, GoldenPage, PageImage
<1>2. CASE dir[pn] # SENTINEL
  BY <1>2 DEF Inv, DirMatches, resolve
<1> QED BY <1>1, <1>2

\* The planes an access sees are total on RAM.
LEMMA PlanesType ==
  ASSUME Inv
  PROVE  mem \in [Offs -> Val] /\ perms \in [Offs -> Perm]
<1>1. \A i \in Offs : resolve(PageOf(i)).mem[i] \in Val /\ resolve(PageOf(i)).perms[i] \in Perm
  BY PageOfType, ResolveType DEF PageImage
<1> QED BY <1>1 DEF mem, perms

\* ensure_page followed by an in-place update changes what one page resolves to
\* and no other, and keeps dir, pages and dirty in step.
LEMMA WithPageLemma ==
  ASSUME Inv, NEW pn \in Pages, NEW new \in PageImage(pn), WithPage(pn, new),
         UNCHANGED gvars
  PROVE  /\ Inv'
         /\ \A q \in Pages : resolve(q)' = IF q = pn THEN new ELSE resolve(q)
<1> DEFINE Images == UNION {PageImage(q) : q \in Pages}
<1>0. new \in Images
  OBVIOUS
<1>1. /\ gmem \in [Offs -> Val] /\ gperms \in [Offs -> Perm]
      /\ dir \in [Pages -> Int] /\ pages \in Seq(Images) /\ dirty \in Seq(Pages)
      /\ Len(pages) = Len(dirty) /\ Len(dirty) \in Nat
  BY DEF Inv, TypeOK, DirMatches
<1>g. gmem' = gmem /\ gperms' = gperms /\ \A q : GoldenPage(q)' = GoldenPage(q)
  BY DEF gvars, GoldenPage
<1> HIDE DEF Images
<1>2. CASE dir[pn] = SENTINEL
  <2>1. /\ pages' = Append(pages, new)
        /\ dir' = [dir EXCEPT ![pn] = Len(pages)]
        /\ dirty' = Append(dirty, pn)
    BY <1>2 DEF WithPage
  <2>2. pages' \in Seq(Images) /\ dirty' \in Seq(Pages) /\ dir' \in [Pages -> Int]
    BY <2>1, <1>0, <1>1
  <2>3. /\ Len(pages') = Len(pages) + 1 /\ Len(dirty') = Len(dirty) + 1
        /\ \A k \in 1 .. Len(dirty) : pages'[k] = pages[k] /\ dirty'[k] = dirty[k]
        /\ pages'[Len(dirty) + 1] = new /\ dirty'[Len(dirty) + 1] = pn
    BY <2>1, <1>0, <1>1
  <2>4. \A k \in 1 .. Len(dirty) : dirty[k] # pn
    BY <1>1, <1>2 DEF Inv, DirMatches, SENTINEL
  <2>5. /\ dir'[pn] = Len(dirty) /\ dir'[pn] # SENTINEL
        /\ \A q \in Pages : q # pn => dir'[q] = dir[q]
    BY <2>1, <1>1 DEF SENTINEL
  <2>6. \A k \in 1 .. Len(dirty') : dir'[dirty'[k]] = k - 1 /\ pages'[k] \in PageImage(dirty'[k])
    <3> SUFFICES ASSUME NEW k \in 1 .. Len(dirty')
                 PROVE  dir'[dirty'[k]] = k - 1 /\ pages'[k] \in PageImage(dirty'[k])
      OBVIOUS
    <3>1. CASE k \in 1 .. Len(dirty)
      <4>1. dirty[k] \in Pages /\ dir[dirty[k]] = k - 1 /\ pages[k] \in PageImage(dirty[k])
        BY <3>1, <1>1 DEF Inv, DirMatches
      <4> QED BY <3>1, <4>1, <2>3, <2>4, <2>5
    <3>2. CASE k = Len(dirty) + 1
      BY <3>2, <2>3, <2>5, <1>1
    <3> QED BY <3>1, <3>2, <2>3, <1>1
  <2>7. \A q \in Pages :
          dir'[q] # SENTINEL => dir'[q] + 1 \in 1 .. Len(dirty') /\ dirty'[dir'[q] + 1] = q
    <3> SUFFICES ASSUME NEW q \in Pages, dir'[q] # SENTINEL
                 PROVE  dir'[q] + 1 \in 1 .. Len(dirty') /\ dirty'[dir'[q] + 1] = q
      OBVIOUS
    <3>1. CASE q = pn
      BY <3>1, <2>3, <2>5, <1>1
    <3>2. CASE q # pn
      <4>1. dir[q] + 1 \in 1 .. Len(dirty) /\ dirty[dir[q] + 1] = q
        BY <3>2, <2>5 DEF Inv, DirMatches
      <4> QED BY <4>1, <3>2, <2>3, <2>5, <1>1
    <3> QED BY <3>1, <3>2
  <2>8. Inv'
    BY <2>2, <2>3, <2>6, <2>7, <1>1, <1>g DEF Inv, TypeOK, DirMatches, Images, Pages,
      PageOf, PageBytes, PageImage
  <2>9. \A q \in Pages : resolve(q)' = IF q = pn THEN new ELSE resolve(q)
    <3> SUFFICES ASSUME NEW q \in Pages
                 PROVE  resolve(q)' = IF q = pn THEN new ELSE resolve(q)
      OBVIOUS
    <3>1. CASE q = pn
      BY <3>1, <2>3, <2>5, <1>1 DEF resolve
    <3>2. CASE q # pn
      <4>1. CASE dir[q] = SENTINEL
        BY <3>2, <4>1, <2>5, <1>g DEF resolve
      <4>2. CASE dir[q] # SENTINEL
        <5>1. dir[q] + 1 \in 1 .. Len(dirty)
          BY <4>2 DEF Inv, DirMatches
        <5> QED BY <3>2, <4>2, <5>1, <2>3, <2>5 DEF resolve
      <4> QED BY <4>1, <4>2
    <3> QED BY <3>1, <3>2
  <2> QED BY <2>8, <2>9
<1>3. CASE dir[pn] # SENTINEL
  <2>1. /\ pages' = [pages EXCEPT ![dir[pn] + 1] = new]
        /\ dir' = dir /\ dirty' = dirty
    BY <1>3 DEF WithPage
  <2>2. dir[pn] + 1 \in 1 .. Len(dirty) /\ dirty[dir[pn] + 1] = pn
    BY <1>3 DEF Inv, DirMatches
  <2>3. pages' \in Seq(Images) /\ Len(pages') = Len(pages)
        /\ \A k \in 1 .. Len(pages) :
             pages'[k] = IF k = dir[pn] + 1 THEN new ELSE pages[k]
    BY <2>1, <1>0, <1>1, <2>2
  <2>4. \A k \in 1 .. Len(dirty') : dir'[dirty'[k]] = k - 1 /\ pages'[k] \in PageImage(dirty'[k])
    BY <2>1, <2>2, <2>3, <1>1 DEF Inv, DirMatches
  <2>5. Inv'
    BY <2>1, <2>3, <2>4, <1>1, <1>g DEF Inv, TypeOK, DirMatches, Images, Pages,
      PageOf, PageBytes, PageImage
  <2>6. \A q \in Pages : resolve(q)' = IF q = pn THEN new ELSE resolve(q)
    <3> SUFFICES ASSUME NEW q \in Pages
                 PROVE  resolve(q)' = IF q = pn THEN new ELSE resolve(q)
      OBVIOUS
    <3>1. CASE dir[q] = SENTINEL
      BY <3>1, <1>3, <2>1, <1>g DEF resolve
    <3>2. CASE dir[q] # SENTINEL
      <4>1. dir[q] + 1 \in 1 .. Len(dirty) /\ dirty[dir[q] + 1] = q
        BY <3>2 DEF Inv, DirMatches
      <4>2. q # pn => dir[q] + 1 # dir[pn] + 1
        BY <4>1, <2>2
      <4> QED BY <3>2, <4>1, <4>2, <2>1, <2>3, <1>1, <1>3 DEF resolve
    <3> QED BY <3>1, <3>2
  <2> QED BY <2>5, <2>6
<1> QED BY <1>2, <1>3

\* One page's worth of new planes, written through WithPage, is what a later
\* access sees; every other byte is as before.
LEMMA PlaneUpdate ==
  ASSUME Inv, NEW pn \in Pages,
         NEW M \in [Offs -> Val], NEW P \in [Offs -> Perm],
         \A i \in Offs : PageOf(i) # pn => M[i] = mem[i] /\ P[i] = perms[i],
         WithPage(pn, [mem |-> Restrict2Page(M, pn), perms |-> Restrict2Page(P, pn)]),
         UNCHANGED gvars
  PROVE  Inv' /\ mem' = M /\ perms' = P
<1> DEFINE new == [mem |-> Restrict2Page(M, pn), perms |-> Restrict2Page(P, pn)]
<1>1. new \in PageImage(pn)
  BY DEF PageImage, Restrict2Page, PageBytes
<1>2. WithPage(pn, new)
  OBVIOUS
<1>3. /\ new.mem = Restrict2Page(M, pn)
      /\ new.perms = Restrict2Page(P, pn)
  OBVIOUS
<1> HIDE DEF new
<1>4. Inv' /\ \A q \in Pages : resolve(q)' = IF q = pn THEN new ELSE resolve(q)
  BY <1>1, <1>2, WithPageLemma
<1>5. ASSUME NEW i \in Offs
      PROVE  resolve(PageOf(i))'.mem[i] = M[i] /\ resolve(PageOf(i))'.perms[i] = P[i]
  <2>1. PageOf(i) \in Pages /\ i \in PageBytes(PageOf(i))
    BY PageOfType
  <2>2. CASE PageOf(i) = pn
    BY <2>1, <2>2, <1>3, <1>4 DEF Restrict2Page
  <2>3. CASE PageOf(i) # pn
    <3>1. resolve(PageOf(i))' = resolve(PageOf(i))
      BY <2>1, <2>3, <1>4
    <3>2. mem[i] = resolve(PageOf(i)).mem[i] /\ perms[i] = resolve(PageOf(i)).perms[i]
      BY DEF mem, perms
    <3> QED BY <3>1, <3>2, <2>3
  <2> QED BY <2>2, <2>3
<1>6. /\ mem' = [i \in Offs |-> resolve(PageOf(i))'.mem[i]]
      /\ perms' = [i \in Offs |-> resolve(PageOf(i))'.perms[i]]
  BY DEF mem, perms, PageOf
<1>7. mem' = M /\ perms' = P
  BY <1>5, <1>6
<1> QED BY <1>4, <1>7

\* The bytes a store commits are a run from its first byte, inside one page.
LEMMA CommittedLemma ==
  ASSUME NEW p, NEW n \in Widths, NEW a \in 0 .. Size, Committed(p, a, n) # {}
  PROVE  /\ a \in Offs
         /\ Aligned(a, n)
         /\ Committed(p, a, n) \subseteq Offs \cap Span(a, n)
         /\ \A i \in Committed(p, a, n) : PageOf(i) = PageOf(a)
<1>1. Aligned(a, n) /\ n \in Nat /\ n > 0 /\ Size \in Nat
  BY WidthsAssumption, SizeAssumption DEF Committed
<1>2. PICK i \in Committed(p, a, n) : TRUE
  OBVIOUS
<1>3. i \in Span(a, n) /\ \A j \in a .. i : Allows(p, j, "WRITE")
  BY <1>1, <1>2 DEF Committed
<1>4. a \in a .. i
  BY <1>1, <1>3 DEF Span
<1>5. a \in Offs
  BY <1>3, <1>4 DEF Allows
<1>6. Committed(p, a, n) \subseteq Offs \cap Span(a, n)
  <2> SUFFICES ASSUME NEW k \in Committed(p, a, n)
               PROVE  k \in Offs /\ k \in Span(a, n)
    OBVIOUS
  <2>1. k \in Span(a, n) /\ \A j \in a .. k : Allows(p, j, "WRITE")
    BY <1>1 DEF Committed
  <2>2. k \in a .. k
    BY <2>1, <1>1 DEF Span
  <2> QED BY <2>1, <2>2 DEF Allows
<1> QED BY <1>1, <1>5, <1>6, SinglePage

\* An operation that touches neither golden nor the overlays changes no byte.
LEMMA UnchangedLemma ==
  ASSUME Inv, UNCHANGED <<gmem, gperms, dir, pages, dirty>>
  PROVE  Inv' /\ mem' = mem /\ perms' = perms
<1>1. Inv'
  BY DEF Inv, TypeOK, DirMatches
<1>2. \A q : resolve(q)' = resolve(q)
  BY DEF resolve, GoldenPage
<1>3. /\ mem' = [i \in Offs |-> resolve(PageOf(i))'.mem[i]]
      /\ perms' = [i \in Offs |-> resolve(PageOf(i))'.perms[i]]
  BY DEF mem, perms, PageOf
<1> QED BY <1>1, <1>2, <1>3 DEF mem, perms

LEMMA StoreStep ==
  ASSUME Inv, NEW n \in Widths, NEW a \in 0 .. Size, NEW d \in [0 .. n - 1 -> Val],
         Store(a, n, d)
  PROVE  /\ Inv'
         /\ mem' = StoredMem(mem, Committed(perms, a, n), a, d)
         /\ perms' = StoredPerms(perms, Committed(perms, a, n))
<1> DEFINE S == Committed(perms, a, n)
           M == StoredMem(mem, S, a, d)
           P == StoredPerms(perms, S)
<1>0. mem \in [Offs -> Val] /\ perms \in [Offs -> Perm] /\ n \in Nat /\ Size \in Nat
  BY PlanesType, WidthsAssumption, SizeAssumption
<1>1. CASE S = {}
  <2>1. UNCHANGED <<gmem, gperms, dir, pages, dirty>>
    BY <1>1 DEF Store, gvars
  <2>2. M = mem /\ P = perms
    BY <1>0, <1>1 DEF StoredMem, StoredPerms
  <2>3. Inv' /\ mem' = mem /\ perms' = perms
    BY <2>1, UnchangedLemma
  <2> QED BY <2>2, <2>3
<1>2. CASE S # {}
  <2>1. a \in Offs /\ S \subseteq Offs \cap Span(a, n) /\ \A i \in S : PageOf(i) = PageOf(a)
    BY <1>2, CommittedLemma
  <2>2. \A i \in S : d[i - a] \in Val
    BY <1>0, <2>1 DEF Span
  <2> HIDE DEF S
  <2>3. M \in [Offs -> Val] /\ P \in [Offs -> Perm]
    <3>1. \A i \in Offs : Upgrade(perms[i]) \in Perm
      BY <1>0 DEF Upgrade, Perm, Flags
    <3>2. M \in [Offs -> Val]
      BY <1>0, <2>1, <2>2 DEF StoredMem
    <3> QED BY <3>1, <3>2, <1>0 DEF StoredPerms
  <2>4. \A i \in Offs : PageOf(i) # PageOf(a) => M[i] = mem[i] /\ P[i] = perms[i]
    BY <2>1, <1>0 DEF StoredMem, StoredPerms
  <2>5. /\ WithPage(PageOf(a), [mem |-> Restrict2Page(M, PageOf(a)),
                                perms |-> Restrict2Page(P, PageOf(a))])
        /\ UNCHANGED gvars
    BY <1>2 DEF Store, S
  <2>6. PageOf(a) \in Pages
    BY <2>1, PageOfType
  <2> HIDE DEF M, P
  <2> QED BY <2>3, <2>4, <2>5, <2>6, PlaneUpdate DEF M, P, S
<1> QED BY <1>1, <1>2

\* Where fast_ptr hands out a pointer, the checked store would commit every byte
\* and upgrade no permission (Bus::fast_ptr: "bit-for-bit what write() would have
\* done").
LEMMA FastIsChecked ==
  ASSUME NEW p \in [Offs -> Perm], NEW n \in Widths, NEW a \in 0 .. Size,
         FastOk(p, a, n, FastStoreNeed)
  PROVE  /\ a \in Offs
         /\ Span(a, n) \subseteq Offs
         /\ Committed(p, a, n) = Span(a, n)
         /\ StoredPerms(p, Span(a, n)) = p
         /\ Verdict(p, a, n, "WRITE") = Ok
<1>1. Aligned(a, n) /\ n \in Nat /\ n > 0 /\ Size \in Nat
  BY WidthsAssumption, SizeAssumption DEF FastOk
<1>2. \A i \in Span(a, n) : i \in Offs /\ "READ" \in p[i] /\ "WRITE" \in p[i] /\ "RAW" \notin p[i]
  BY DEF FastOk, FastStoreNeed, FAST_PTR_FORBIDDEN
<1>3. \A i \in Span(a, n) : Allows(p, i, "WRITE")
  BY <1>2 DEF Allows
<1>4. a \in Offs /\ Span(a, n) \subseteq Offs
  <2>1. a \in Span(a, n)
    BY <1>1 DEF Span
  <2> QED BY <2>1, <1>2
<1>5. Committed(p, a, n) = Span(a, n)
  <2>1. \A i \in Span(a, n) : a .. i \subseteq Span(a, n)
    BY <1>1 DEF Span
  <2> QED BY <1>1, <1>3, <2>1 DEF Committed
<1>6. \A i \in Span(a, n) : Upgrade(p[i]) = p[i]
  BY <1>2 DEF Upgrade
<1>7. StoredPerms(p, Span(a, n)) = p
  BY <1>6, <1>4 DEF StoredPerms
<1>8. Verdict(p, a, n, "WRITE") = Ok
  BY <1>1, <1>3 DEF Verdict
<1> QED BY <1>4, <1>5, <1>7, <1>8

LEMMA FastStoreStep ==
  ASSUME Inv, NEW n \in Widths, NEW a \in 0 .. Size, NEW d \in [0 .. n - 1 -> Val],
         FastStore(a, n, d)
  PROVE  /\ Inv'
         /\ mem' = StoredMem(mem, Committed(perms, a, n), a, d)
         /\ perms' = StoredPerms(perms, Committed(perms, a, n))
         /\ res' = Verdict(perms, a, n, "WRITE")
<1> DEFINE M == FastStoredMem(mem, a, n, d)
<1>0. mem \in [Offs -> Val] /\ perms \in [Offs -> Perm] /\ n \in Nat /\ Size \in Nat
  BY PlanesType, WidthsAssumption, SizeAssumption
<1>1. FastOk(perms, a, n, FastStoreNeed)
  BY DEF FastStore
<1>2. /\ a \in Offs
      /\ Span(a, n) \subseteq Offs
      /\ Committed(perms, a, n) = Span(a, n)
      /\ StoredPerms(perms, Span(a, n)) = perms
      /\ Verdict(perms, a, n, "WRITE") = Ok
  BY <1>0, <1>1, FastIsChecked
<1>3. \A i \in Span(a, n) : d[i - a] \in Val
  BY <1>0 DEF Span
<1>4. M \in [Offs -> Val] /\ M = StoredMem(mem, Committed(perms, a, n), a, d)
  BY <1>0, <1>2, <1>3 DEF FastStoredMem, StoredMem
<1>5. \A i \in Span(a, n) : PageOf(i) = PageOf(a)
  BY <1>1, <1>2, SinglePage DEF FastOk
<1>6. \A i \in Offs : PageOf(i) # PageOf(a) => M[i] = mem[i] /\ perms[i] = perms[i]
  BY <1>0, <1>5 DEF FastStoredMem
<1>7. /\ WithPage(PageOf(a), [mem |-> Restrict2Page(M, PageOf(a)),
                              perms |-> Restrict2Page(perms, PageOf(a))])
      /\ UNCHANGED gvars /\ res' = Ok
  BY DEF FastStore
<1>8. PageOf(a) \in Pages
  BY <1>2, PageOfType
<1> HIDE DEF M
<1>9. Inv' /\ mem' = M /\ perms' = perms
  BY <1>0, <1>4, <1>6, <1>7, <1>8, PlaneUpdate
<1> QED BY <1>2, <1>4, <1>7, <1>9

LEMMA ShadowStep ==
  ASSUME Inv, NEW n \in Widths, NEW a \in 0 .. Size, NEW mask \in SUBSET Span(a, n),
         Shadow(a, n, mask)
  PROVE  /\ Inv'
         /\ mem' = mem
         /\ perms' = ShadowedPerms(perms, Span(a, n) \cap Offs, mask)
<1> DEFINE S == Span(a, n) \cap Offs
           P == ShadowedPerms(perms, S, mask)
<1>0. mem \in [Offs -> Val] /\ perms \in [Offs -> Perm] /\ n \in Nat /\ Size \in Nat
  BY PlanesType, WidthsAssumption, SizeAssumption
<1>1. CASE a \notin Offs
  <2>1. S = {}
    BY <1>0, <1>1 DEF Span, Offs
  <2>2. P = perms
    BY <1>0, <2>1 DEF ShadowedPerms
  <2>3. UNCHANGED <<gmem, gperms, dir, pages, dirty>>
    BY <1>1 DEF Shadow, gvars
  <2> QED BY <2>2, <2>3, UnchangedLemma
<1>2. CASE a \in Offs
  <2>1. \A i \in Offs : ShadowPerm(perms[i], i \in mask) \in Perm
    BY <1>0 DEF ShadowPerm, Perm, Flags
  <2>2. P \in [Offs -> Perm]
    BY <2>1, <1>0 DEF ShadowedPerms
  <2>3. \A i \in S : PageOf(i) = PageOf(a)
    BY <1>2, SinglePage DEF Shadow
  <2>4. \A i \in Offs : PageOf(i) # PageOf(a) => mem[i] = mem[i] /\ P[i] = perms[i]
    BY <2>3, <1>0 DEF ShadowedPerms
  <2>5. /\ WithPage(PageOf(a), [mem |-> Restrict2Page(mem, PageOf(a)),
                                perms |-> Restrict2Page(P, PageOf(a))])
        /\ UNCHANGED gvars
    BY <1>2 DEF Shadow
  <2>6. PageOf(a) \in Pages
    BY <1>2, PageOfType
  <2> HIDE DEF P
  <2>7. Inv' /\ mem' = mem /\ perms' = P
    BY <1>0, <2>2, <2>4, <2>5, <2>6, PlaneUpdate
  <2> QED BY <2>7 DEF P
<1> QED BY <1>1, <1>2

\* Dropping the overlays that dirty names drops them all, so the lane reads
\* golden everywhere (CowRam::reset copies nothing back).
LEMMA ResetStep ==
  ASSUME Inv, Reset
  PROVE  Inv' /\ mem' = gmem /\ perms' = gperms
<1>1. \A pn \in Pages : dir'[pn] = SENTINEL
  <2> SUFFICES ASSUME NEW pn \in Pages, dir[pn] # SENTINEL
               PROVE  \E k \in 1 .. Len(dirty) : dirty[k] = pn
    BY DEF Reset
  <2> QED BY DEF Inv, DirMatches
<1>2. /\ dir' \in [Pages -> Int] /\ pages' = << >> /\ dirty' = << >>
      /\ gmem' = gmem /\ gperms' = gperms
      /\ gmem \in [Offs -> Val] /\ gperms \in [Offs -> Perm]
  BY DEF Reset, Inv, TypeOK, gvars, SENTINEL
<1>3. TypeOK'
  BY <1>2 DEF TypeOK
<1>4. DirMatches'
  BY <1>1, <1>2 DEF DirMatches
<1>5. ASSUME NEW i \in Offs
      PROVE  resolve(PageOf(i))'.mem[i] = gmem[i] /\ resolve(PageOf(i))'.perms[i] = gperms[i]
  <2>1. PageOf(i) \in Pages /\ i \in PageBytes(PageOf(i))
    BY PageOfType
  <2>2. resolve(PageOf(i))' = GoldenPage(PageOf(i))
    BY <1>1, <1>2, <2>1 DEF resolve, GoldenPage
  <2> QED BY <2>1, <2>2 DEF GoldenPage
<1>6. /\ mem' = [i \in Offs |-> resolve(PageOf(i))'.mem[i]]
      /\ perms' = [i \in Offs |-> resolve(PageOf(i))'.perms[i]]
  BY DEF mem, perms, PageOf
<1> QED BY <1>2, <1>3, <1>4, <1>5, <1>6 DEF Inv

LEMMA InitInv == Init => Inv
<1> SUFFICES ASSUME Init PROVE Inv
  OBVIOUS
<1>1. TypeOK
  BY DEF Init, TypeOK, SENTINEL
<1>2. DirMatches
  BY DEF Init, DirMatches
<1> QED BY <1>1, <1>2 DEF Inv

LEMMA NextInv == Inv /\ [Next]_vars => Inv'
<1> SUFFICES ASSUME Inv, [Next]_vars PROVE Inv'
  OBVIOUS
<1>1. ASSUME NEW n \in Widths, NEW a \in 0 .. Size, NEW flag \in {"READ", "EXEC"},
             Load(a, n, flag)
      PROVE  Inv'
  BY <1>1, UnchangedLemma DEF Load
<1>2. ASSUME NEW n \in Widths, NEW a \in 0 .. Size, NEW d \in [0 .. n - 1 -> Val],
             Store(a, n, d)
      PROVE  Inv'
  BY <1>2, StoreStep
<1>3. ASSUME NEW n \in Widths, NEW a \in 0 .. Size, NEW d \in [0 .. n - 1 -> Val],
             FastStore(a, n, d)
      PROVE  Inv'
  BY <1>3, FastStoreStep
<1>4. ASSUME NEW n \in Widths, NEW a \in 0 .. Size, NEW mask \in SUBSET Span(a, n),
             Shadow(a, n, mask)
      PROVE  Inv'
  BY <1>4, ShadowStep
<1>5. CASE Reset
  BY <1>5, ResetStep
<1>6. CASE UNCHANGED vars
  BY <1>6, UnchangedLemma DEF vars
<1> QED BY <1>1, <1>2, <1>3, <1>4, <1>5, <1>6 DEF Next

\* Type correctness of CowRam's directory, overlays and dirty list.
THEOREM CowTypeCorrect == Spec => []TypeOK
<1>1. Inv => TypeOK
  BY DEF Inv
<1> QED BY InitInv, NextInv, <1>1, PTL DEF Spec

\* The directory, the overlays and the dirty list always name the same pages, so
\* reset's walk of the dirty list misses none (CowRam::ensure_page, ::reset).
THEOREM CowDirMatches == Spec => []DirMatches
<1>1. Inv => DirMatches
  BY DEF Inv
<1> QED BY InitInv, NextInv, <1>1, PTL DEF Spec

\* A step of CowRam is the same step of the flat RAM, with the same result.
LEMMA NextRefines == Inv /\ [Next]_vars => [Flat!Next]_(Flat!vars)
<1> SUFFICES ASSUME Inv, [Next]_vars PROVE [Flat!Next]_(Flat!vars)
  OBVIOUS
<1> USE DEF Flat!Offs, Offs
<1>0. /\ \A p, a, n : Flat!Committed(p, a, n) = Committed(p, a, n)
      /\ \A p, a, n, f : Flat!Verdict(p, a, n, f) = Verdict(p, a, n, f)
      /\ \A m, p, a, n, f : Flat!ReadResult(m, p, a, n, f) = ReadResult(m, p, a, n, f)
      /\ \A m, S, a, d : Flat!StoredMem(m, S, a, d) = StoredMem(m, S, a, d)
      /\ \A p, S : Flat!StoredPerms(p, S) = StoredPerms(p, S)
      /\ \A p, S, mask : Flat!ShadowedPerms(p, S, mask) = ShadowedPerms(p, S, mask)
      /\ \A a, n : Flat!Span(a, n) = Span(a, n) /\ Flat!Aligned(a, n) = Aligned(a, n)
      /\ Flat!Ok = Ok
  BY DEF Flat!Committed, Committed, Flat!Verdict, Verdict, Flat!ReadResult, ReadResult,
    Flat!StoredMem, StoredMem, Flat!StoredPerms, StoredPerms, Flat!ShadowedPerms,
    ShadowedPerms, Flat!Span, Span, Flat!Aligned, Aligned, Flat!Ok, Ok, Flat!Allows,
    Allows, Flat!FirstBad, FirstBad, Flat!Fault, Fault, Flat!Upgrade, Upgrade,
    Flat!ShadowPerm, ShadowPerm
<1>1. ASSUME NEW n \in Widths, NEW a \in 0 .. Size, NEW flag \in {"READ", "EXEC"},
             Load(a, n, flag)
      PROVE  Flat!Next
  <2>1. Flat!Load(a, n, flag)
    BY <1>0, <1>1, UnchangedLemma DEF Load, Flat!Load
  <2> QED BY <2>1 DEF Flat!Next
<1>2. ASSUME NEW n \in Widths, NEW a \in 0 .. Size, NEW d \in [0 .. n - 1 -> Val],
             Store(a, n, d)
      PROVE  Flat!Next
  <2>1. res' = Verdict(perms, a, n, "WRITE") /\ UNCHANGED gvars
    BY <1>2 DEF Store
  <2>2. Flat!Store(a, n, d)
    BY <1>0, <1>2, <2>1, StoreStep DEF Flat!Store, Flat!gvars, gvars
  <2> QED BY <2>2 DEF Flat!Next
<1>3. ASSUME NEW n \in Widths, NEW a \in 0 .. Size, NEW d \in [0 .. n - 1 -> Val],
             FastStore(a, n, d)
      PROVE  Flat!Next
  <2>1. UNCHANGED gvars
    BY <1>3 DEF FastStore
  <2>2. Flat!Store(a, n, d)
    BY <1>0, <1>3, <2>1, FastStoreStep DEF Flat!Store, Flat!gvars, gvars
  <2> QED BY <2>2 DEF Flat!Next
<1>4. ASSUME NEW n \in Widths, NEW a \in 0 .. Size, NEW mask \in SUBSET Span(a, n),
             Shadow(a, n, mask)
      PROVE  Flat!Next
  <2>1. UNCHANGED gvars /\ res' = Ok /\ Aligned(a, n)
    BY <1>4 DEF Shadow
  <2>2. Flat!Shadow(a, n, mask)
    BY <1>0, <1>4, <2>1, ShadowStep DEF Flat!Shadow, gvars
  <2> QED BY <1>0, <2>2 DEF Flat!Next
<1>5. CASE Reset
  <2>1. UNCHANGED gvars /\ res' = Ok
    BY <1>5 DEF Reset
  <2>2. Flat!Reset
    BY <1>0, <1>5, <2>1, ResetStep DEF Flat!Reset, Flat!gvars, gvars
  <2> QED BY <2>2 DEF Flat!Next
<1>6. CASE UNCHANGED vars
  BY <1>6, UnchangedLemma DEF vars, Flat!vars
<1> QED BY <1>1, <1>2, <1>3, <1>4, <1>5, <1>6 DEF Next

LEMMA InitRefines == Init => Flat!Init
<1> SUFFICES ASSUME Init PROVE Flat!Init
  OBVIOUS
<1>1. gmem \in [Offs -> Val] /\ gperms \in [Offs -> Perm] /\ res = Ok
  BY DEF Init
<1>2. \A i \in Offs : resolve(PageOf(i)).mem[i] = gmem[i] /\ resolve(PageOf(i)).perms[i] = gperms[i]
  <2> SUFFICES ASSUME NEW i \in Offs
               PROVE  resolve(PageOf(i)).mem[i] = gmem[i] /\ resolve(PageOf(i)).perms[i] = gperms[i]
    OBVIOUS
  <2>1. PageOf(i) \in Pages /\ i \in PageBytes(PageOf(i))
    BY PageOfType
  <2>2. resolve(PageOf(i)) = GoldenPage(PageOf(i))
    BY <2>1 DEF Init, resolve
  <2> QED BY <2>1, <2>2 DEF GoldenPage
<1>3. mem = gmem /\ perms = gperms
  BY <1>1, <1>2 DEF mem, perms
<1> QED BY <1>1, <1>3 DEF Flat!Init, Flat!Offs, Offs, Flat!Perm, Perm, Flat!Flags, Flags,
  Flat!Ok, Ok

\* CowRam is the flat, exactly resettable RAM: for every RAM size, page size,
\* golden image and sequence of loads, checked stores, fast-path stores, shadow
\* writes and resets, a lane observes what GuestRam would return.
THEOREM CowImplementsGuestRam == Spec => ImplementsGuestRam
BY InitInv, NextInv, InitRefines, NextRefines, PTL DEF Spec, Flat!Spec, ImplementsGuestRam

-------------------------------------------------------------------------------
(* The batch. *)

\* A page no lane has copied (any_lane_overlaid) is golden in every lane's view.
LEMMA UncopiedIsGolden ==
  ASSUME NEW p \in PageNames, ~any_lane_overlaid(p), NEW l \in Lanes
  PROVE  View(overlay[l])[p] = Golden[p]
<1>1. p \notin DOMAIN overlay[l]
  BY DEF any_lane_overlaid
<1> QED BY <1>1 DEF View

\* A group that shared_fetch16 serves has one instruction, and each of its lanes would
\* fetch that instruction itself.
LEMMA SharedFetch ==
  ASSUME Converged, shared_fetch16.k \in Packed \/ shared_fetch16.k = "load",
         NEW l \in active, l \in Lanes
  PROVE  /\ shared_fetch16 = text[View(overlay[l])["text"]][lanes[l].pc]
         /\ ~any_lane_overlaid(Table(lanes[l]))
<1> DEFINE copied == any_lane_overlaid(Table(lanes[first])) \/ any_lane_overlaid("text")
           declined == [k |-> "declined"]
<1>1. shared_fetch16 = IF copied THEN declined ELSE text[Golden["text"]][lanes[first].pc]
  BY DEF shared_fetch16
<1>2. declined.k = "declined"
  OBVIOUS
<1>3. ~copied
  BY <1>1, <1>2 DEF Packed
<1>4. lanes[l].pc = lanes[first].pc /\ Table(lanes[l]) = Table(lanes[first])
  BY DEF Converged, Table
<1>5. View(overlay[l])["text"] = Golden["text"]
  BY <1>3, UncopiedIsGolden DEF PageNames
<1> QED BY <1>1, <1>3, <1>4, <1>5

\* A table's name is a page, and so is the page a table's value leads to.
LEMMA PagesOfLane ==
  ASSUME NEW c, NEW t, NEW va
  PROVE  Table(c) \in PageNames /\ Leaf(t, va) \in PageNames
BY DEF Table, Leaf, PageNames

\* What the interpreter makes of the instructions the group may share.
LEMMA ExecPacked ==
  ASSUME NEW c, NEW ov, NEW i, i.k \in Packed
  PROVE  Exec(c, ov, i) = Result(Retired([c EXCEPT !.reg = alu(i, c.reg)]), ov, "continue")
BY DEF Exec, Packed

LEMMA ExecLoad ==
  ASSUME NEW c, NEW ov, NEW i, i.k = "load", Readable(c, Leaf(View(ov)[Table(c)], c.reg))
  PROVE  Exec(c, ov, i) = Result(Retired([c EXCEPT !.reg = View(ov)[Leaf(View(ov)[Table(c)], c.reg)]]),
                                 ov, "continue")
BY DEF Exec, Packed

\* The packed operation and the broadcast load give a lane what Exec gives it alone, if the
\* lanes agree on the status bits a load depends on.
LEMMA PayloadIsScalar ==
  ASSUME Fast, NEW l \in active, l \in Lanes, shared_fetch16.k = "load" => SameStatus
  PROVE  Payload(l) = step_system(lanes[l], overlay[l])
<1> DEFINE i == shared_fetch16
           c == lanes[l]
           ov == overlay[l]
<1>1. /\ i = text[View(ov)["text"]][c.pc]
      /\ ~any_lane_overlaid(Table(c))
  BY SharedFetch DEF Fast
<1>2. step_system(c, ov) = Exec(c, ov, i)
  BY <1>1 DEF Fast, step_system
<1>3. CASE i.k \in Packed
  <2>1. Exec(c, ov, i) = Result(Retired([c EXCEPT !.reg = alu(i, c.reg)]), ov, "continue")
    BY <1>3, ExecPacked
  <2>2. Payload(l) = Result(Retired([c EXCEPT !.reg = alu(i, c.reg)]), ov, "continue")
    BY <1>3 DEF Payload
  <2> QED BY <1>2, <2>1, <2>2
<1>4. CASE i.k = "load" /\ try_shared_load /\ i.k \notin Packed
  <2> DEFINE page == Leaf(View(ov)[Table(c)], c.reg)
  <2>1. c.reg = lanes[first].reg /\ Table(c) = Table(lanes[first]) /\ c.priv = lanes[first].priv
    BY <1>4 DEF try_shared_load, Fast, Converged, Table
  <2>2. View(ov)[Table(c)] = Golden[Table(c)]
    BY <1>1, PagesOfLane, UncopiedIsGolden
  <2>3. page = SharedPage
    BY <2>1, <2>2 DEF SharedPage
  <2>4. Readable(c, page)
    BY <1>4, <2>1, <2>3 DEF try_shared_load, Readable, SameStatus
  <2>5. View(ov)[page] = Golden[SharedPage]
    BY <1>4, <2>3, PagesOfLane, UncopiedIsGolden DEF try_shared_load
  <2>6. Exec(c, ov, i) = Result(Retired([c EXCEPT !.reg = View(ov)[page]]), ov, "continue")
    BY <1>4, <2>4, ExecLoad
  <2>7. Payload(l) = Result(Retired([c EXCEPT !.reg = Golden[SharedPage]]), ov, "continue")
    BY <1>4 DEF Payload
  <2> QED BY <1>2, <2>5, <2>6, <2>7
<1> QED BY <1>3, <1>4 DEF Fast

\* A result has its three parts.
LEMMA ResultParts ==
  ASSUME NEW c, NEW ov, NEW out
  PROVE  /\ Result(c, ov, out).c = c
         /\ Result(c, ov, out).ov = ov
         /\ Result(c, ov, out).out = out
BY DEF Result

\* What one lane sees of a step of the batch.
LaneMatches(l) ==
    /\ lanes'[l] = Scalar(l).c /\ overlay'[l] = Scalar(l).ov
    /\ l \in active => (l \in active' <=> Scalar(l).out = "continue")
    /\ l \in active \ active' => exit'[l] = Scalar(l).out

LEMMA StepIsOutcome ==
  ASSUME Step, NEW l \in Lanes, l \in active => Outcome(l) = Scalar(l)
  PROVE  LaneMatches(l)
<1>1. CASE l \in active
  <2>1. lanes'[l] = Outcome(l).c /\ overlay'[l] = Outcome(l).ov
    BY <1>1 DEF Step
  <2>2. l \in active' <=> Outcome(l).out = "continue"
    BY <1>1 DEF Step
  <2>3. l \in active \ active' => exit'[l] = Outcome(l).out
    BY <1>1 DEF Step
  <2> QED BY <1>1, <2>1, <2>2, <2>3 DEF LaneMatches
<1>2. CASE l \notin active
  <2>1. lanes'[l] = lanes[l] /\ overlay'[l] = overlay[l]
    BY <1>2 DEF Step
  <2>2. Scalar(l).c = lanes[l] /\ Scalar(l).ov = overlay[l]
    BY <1>2, ResultParts DEF Scalar
  <2> QED BY <1>2, <2>1, <2>2 DEF LaneMatches
<1> QED BY <1>1, <1>2

(***************************************************************************)
(* Every step of the batch is, for every lane, the step of the scalar      *)
(* machine on that lane alone (system.rs run_batch and its shared fetch,   *)
(* packed operation and broadcast load, against Cpu::step_system), except  *)
(* for a broadcast load by lanes with different status words.  It needs no *)
(* invariant: what step checks before it shares is enough by itself.       *)
(***************************************************************************)
THEOREM VecLanesMatchScalar == BatchSpec => LanesMatchScalar
<1>1. ASSUME Step, NEW l \in Lanes, ~(Fast /\ shared_fetch16.k = "load" /\ ~SameStatus)
      PROVE  LaneMatches(l)
  <2>1. ASSUME l \in active PROVE Outcome(l) = Scalar(l)
    <3>1. Scalar(l) = step_system(lanes[l], overlay[l])
      BY <2>1 DEF Scalar
    <3>2. CASE Fast
      <4>1. Payload(l) = step_system(lanes[l], overlay[l])
        BY <1>1, <2>1, <3>2, PayloadIsScalar
      <4> QED BY <3>1, <3>2, <4>1 DEF Outcome
    <3>3. CASE ~Fast
      BY <3>1, <3>3 DEF Outcome
    <3> QED BY <3>2, <3>3
  <2> QED BY <1>1, <2>1, StepIsOutcome
<1>2. [BatchNext]_laneVars =>
      [Step => \A l \in Lanes :
                  \/ Fast /\ shared_fetch16.k = "load" /\ ~SameStatus
                  \/ /\ lanes'[l] = Scalar(l).c /\ overlay'[l] = Scalar(l).ov
                     /\ l \in active => (l \in active' <=> Scalar(l).out = "continue")
                     /\ l \in active \ active' => exit'[l] = Scalar(l).out]_laneVars
  BY <1>1, Zenon DEF LaneMatches
<1> QED BY <1>2, PTL DEF BatchSpec, LanesMatchScalar
===============================================================================
