--------------------------------- MODULE Sv32 ---------------------------------
(***************************************************************************)
(* Sv32 translation and the software TLB of a hart (Cpu::xlate, fast_pa and *)
(* xlate_golden_readonly in crates/fs-riscv/src/lib.rs), with the guest     *)
(* editing its page tables, fencing or not, and the fuzzer resetting the    *)
(* hart and its memory to a snapshot.                                       *)
(*                                                                          *)
(* A table has Fanout entries per level (1024), the TLB its own number of   *)
(* slots (256).                                                             *)
(* Privilege, SUM and MXR are read per access and never cached, so they are *)
(* inputs of an access.  Offsets within a page pass through unchanged and   *)
(* are left out: an address is a page number.                               *)
(***************************************************************************)
EXTENDS Integers, FiniteSets

CONSTANTS Fanout,     \* entries of a table
          TLB_SIZE,   \* slots of the TLB
          Tables,     \* physical pages that hold page tables
          Ptes,       \* the entries a guest may write
          BootTables, \* the page tables the guest may have built at first
          Modes,      \* effective privilege, SUM and MXR of an access
          Bare,       \* satp with MODE = 0
          Empty,      \* an empty TLB slot
          NoSnap,     \* before the snapshot is captured
          MaxEdits    \* bound on the guest's page-table stores

Perms == {"R", "W", "X", "U"}
PteType == [v : BOOLEAN, perms : SUBSET Perms, a : BOOLEAN, d : BOOLEAN, ppn : Nat]

ASSUME Sv32Constants ==
  /\ Fanout \in Nat \ {0} /\ TLB_SIZE \in Nat \ {0}
  /\ Tables \subseteq Nat
  /\ Ptes \subseteq PteType
  /\ BootTables \subseteq [Tables \X (0 .. Fanout - 1) -> PteType]
  /\ Modes \subseteq [p : {"U", "S", "M"}, sum : BOOLEAN, mxr : BOOLEAN]
  /\ Bare \notin Tables
  /\ Empty \notin [vpn : Nat, ppn : Nat, perms : SUBSET Perms, d : BOOLEAN]
  /\ MaxEdits \in Nat

VARIABLES pt,         \* the page tables
          satp,
          tlb,
          edited,     \* entries the guest stored to since the last flush
          snap,       \* the snapshot of pt (the golden image), satp, tlb and edited
          overlaid,   \* table pages written since the snapshot
          edits

xlateVars == <<pt, satp, tlb, edited, snap, overlaid, edits>>

Entries == Tables \X (0 .. Fanout - 1)
Vpns == 0 .. Fanout * Fanout - 1
Accesses == {"R", "W", "X"}

hi(vpn) == vpn \div Fanout
lo(vpn) == vpn % Fanout

\* leaf_perm_priv_ok
leaf_perm_priv_ok(acc, m, perms) ==
  /\ acc \in perms \/ (acc = "R" /\ m.mxr /\ "X" \in perms)
  /\ CASE m.p = "U" -> "U" \in perms
       [] m.p = "S" -> "U" \notin perms \/ (acc # "X" /\ m.sum)
       [] OTHER -> TRUE

Translated(m) == m.p # "M" /\ satp # Bare

Usable(pte) == pte.v /\ ("W" \in pte.perms => "R" \in pte.perms)
IsLeaf(pte) == pte.perms \cap {"R", "X"} # {}

\* The walk of vpn through the tables in mem from root: the entry that maps it, or none.
\* A pointer to a page that holds no table is read as an invalid entry.
NoLeaf == [ok |-> FALSE]
Leaf(mem, root, vpn) ==
  LET top == <<root, hi(vpn)>>
      low == <<mem[top].ppn, lo(vpn)>>
  IN  IF ~Usable(mem[top]) THEN NoLeaf
      ELSE IF IsLeaf(mem[top])
        THEN IF mem[top].ppn % Fanout # 0 THEN NoLeaf
             ELSE [ok |-> TRUE, at |-> top, ppn |-> mem[top].ppn + lo(vpn)]
      ELSE IF low \in Entries /\ Usable(mem[low]) /\ IsLeaf(mem[low])
        THEN [ok |-> TRUE, at |-> low, ppn |-> mem[low].ppn]
      ELSE NoLeaf

\* The entries that walk reads.
Path(mem, root, vpn) ==
  LET top == <<root, hi(vpn)>>
  IN  {top} \cup ({<<mem[top].ppn, lo(vpn)>>} \cap
                  IF Usable(mem[top]) /\ ~IsLeaf(mem[top]) THEN Entries ELSE {})

slot(vpn) == vpn % TLB_SIZE

Hit(vpn) == tlb[slot(vpn)] # Empty /\ tlb[slot(vpn)].vpn = vpn

\* The outcome of a translation: a page, a page fault, or a fast path that declines.
Page(n) == [res |-> "page", ppn |-> n]
PageFault == [res |-> "fault", ppn |-> 0]
Declined == [res |-> "declined", ppn |-> 0]

\* A walk for access acc: permissions are checked before the alignment of a superpage;
\* either way it is a fault.
WalkOk(vpn, acc, m) ==
  LET l == Leaf(pt, satp, vpn) IN l.ok /\ leaf_perm_priv_ok(acc, m, pt[l.at].perms)

\* A hit that is allowed but writes to a page not known to be dirty walks.
Walks(vpn, acc, m) ==
  \/ ~Hit(vpn)
  \/ /\ Hit(vpn)
     /\ leaf_perm_priv_ok(acc, m, tlb[slot(vpn)].perms)
     /\ acc = "W" /\ ~tlb[slot(vpn)].d

\* What xlate returns.
XlateResult(vpn, acc, m) ==
  IF ~Translated(m) THEN Page(vpn)
  ELSE IF Walks(vpn, acc, m)
    THEN IF WalkOk(vpn, acc, m) THEN Page(Leaf(pt, satp, vpn).ppn) ELSE PageFault
  ELSE IF leaf_perm_priv_ok(acc, m, tlb[slot(vpn)].perms) THEN Page(tlb[slot(vpn)].ppn)
  ELSE PageFault

\* The TLB entry of a leaf that maps vpn to ppn.
Refill(vpn, ppn, pte, acc) ==
  [vpn |-> vpn, ppn |-> ppn, perms |-> pte.perms, d |-> acc = "W" \/ pte.d]

\* The writes of a successful walk: A and D in the entry, the TLB slot.  The store of an
\* entry that was just read would also fault on a byte that is readable but not writable,
\* which fs-cli never makes of guest RAM.
Walk(vpn, acc) ==
  LET l == Leaf(pt, satp, vpn)
      pte == pt[l.at]
      touches == ~pte.a \/ (acc = "W" /\ ~pte.d)
  IN  /\ pt' = IF touches THEN [pt EXCEPT ![l.at].a = TRUE, ![l.at].d = @ \/ acc = "W"] ELSE pt
      /\ overlaid' = IF touches THEN overlaid \cup {l.at[1]} ELSE overlaid
      /\ tlb' = [tlb EXCEPT ![slot(vpn)] = Refill(vpn, l.ppn, pte, acc)]

Xlate(vpn, acc, m) ==
  /\ Translated(m) /\ Walks(vpn, acc, m) /\ WalkOk(vpn, acc, m)
  /\ Walk(vpn, acc)
  /\ UNCHANGED <<satp, edited, snap, edits>>

\* Mutant: a store may use an entry not known to be dirty.
fast_pa_AnyHit(vpn, acc, m) ==
  IF ~Translated(m) THEN Page(vpn)
  ELSE IF Hit(vpn) /\ leaf_perm_priv_ok(acc, m, tlb[slot(vpn)].perms)
    THEN Page(tlb[slot(vpn)].ppn)
  ELSE Declined

\* fast_pa
fast_pa(vpn, acc, m) ==
  IF ~Translated(m) THEN Page(vpn)
  ELSE IF /\ Hit(vpn)
          /\ leaf_perm_priv_ok(acc, m, tlb[slot(vpn)].perms)
          /\ acc = "W" => tlb[slot(vpn)].d
    THEN Page(tlb[slot(vpn)].ppn)
  ELSE Declined

\* Mutant: only the leaf's own table page is asked about.
Trusted_LeafOnly(vpn) == Leaf(snap.pt, satp, vpn).at[1] \notin overlaid

\* page_overlaid is asked for each table page the walk reads.
Trusted(vpn) == \A e \in Path(snap.pt, satp, vpn) : e[1] \notin overlaid

\* xlate_golden_readonly
xlate_golden_readonly(vpn, acc, m) ==
  LET l == Leaf(snap.pt, satp, vpn)
  IN  IF ~Translated(m) THEN Page(vpn)
      ELSE IF /\ l.ok
              /\ Trusted(vpn)
              /\ leaf_perm_priv_ok(acc, m, snap.pt[l.at].perms)
              /\ snap.pt[l.at].a
              /\ acc = "W" => snap.pt[l.at].d
        THEN Page(l.ppn)
      ELSE Declined

-------------------------------------------------------------------------------
FlushedTlb == [s \in 0 .. TLB_SIZE - 1 |-> Empty]

\* The guest stores an entry of one of its tables; it may or may not fence afterwards.
EditPte(e, pte) ==
  /\ edits < MaxEdits
  /\ pt[e] # pte
  /\ pt' = [pt EXCEPT ![e] = pte]
  /\ edited' = edited \cup {e}
  /\ overlaid' = overlaid \cup {e[1]}
  /\ edits' = edits + 1
  /\ UNCHANGED <<satp, tlb, snap>>

\* csrw satp
SetSatp(t) ==
  /\ t # satp
  /\ satp' = t
  /\ tlb' = FlushedTlb
  /\ edited' = {}
  /\ UNCHANGED <<pt, snap, overlaid, edits>>

SfenceVma ==
  /\ tlb' = FlushedTlb
  /\ edited' = {}
  /\ UNCHANGED <<pt, satp, snap, overlaid, edits>>

\* Snapshot::capture, Golden::from_mmu: once, when the agent asks for it.
Capture ==
  /\ snap = NoSnap
  /\ snap' = [pt |-> pt, satp |-> satp, tlb |-> tlb, edited |-> edited]
  /\ overlaid' = {}
  /\ UNCHANGED <<pt, satp, tlb, edited, edits>>

\* Mutant: the hart's TLB survives the reset of memory.
Reset_KeepsTlb ==
  /\ snap # NoSnap
  /\ pt' = snap.pt /\ satp' = snap.satp /\ edited' = snap.edited
  /\ overlaid' = {}
  /\ UNCHANGED <<tlb, snap, edits>>

\* Snapshot::reset: memory and the whole hart, TLB included.
Reset ==
  /\ snap # NoSnap
  /\ pt' = snap.pt /\ satp' = snap.satp /\ edited' = snap.edited
  /\ tlb' = snap.tlb
  /\ overlaid' = {}
  /\ UNCHANGED <<snap, edits>>

XlateInit ==
  /\ pt \in BootTables
  /\ satp = Bare
  /\ tlb = FlushedTlb
  /\ edited = {}
  /\ snap = NoSnap
  /\ overlaid = {}
  /\ edits = 0

XlateNext ==
  \/ \E vpn \in Vpns, acc \in Accesses, m \in Modes : Xlate(vpn, acc, m)
  \/ \E e \in Entries, pte \in Ptes : EditPte(e, pte)
  \/ \E t \in Tables \cup {Bare} : SetSatp(t)
  \/ SfenceVma \/ Capture \/ Reset

XlateSpec == XlateInit /\ [][XlateNext]_xlateVars

-------------------------------------------------------------------------------
\* The guest owes vpn no fence: nothing its walk reads was stored to since the last flush.
Fenced(vpn) == Path(pt, satp, vpn) \cap edited = {}

\* Entry e of a TLB says what the tables say of vpn, and claims a page dirty only if its
\* entry is.
Agrees(mem, root, vpn, e) ==
  LET l == Leaf(mem, root, vpn)
  IN  /\ l.ok
      /\ l.ppn = e.ppn /\ mem[l.at].perms = e.perms
      /\ mem[l.at].a
      /\ e.d => mem[l.at].d

\* A TLB t agrees with the tables for every page it holds that is owed no fence.
Coherent(mem, root, t, stored) ==
  root # Bare =>
    \A vpn \in Vpns :
      (t[slot(vpn)] # Empty /\ t[slot(vpn)].vpn = vpn /\ Path(mem, root, vpn) \cap stored = {}) =>
         Agrees(mem, root, vpn, t[slot(vpn)])

\* "A stale entry can never be architecturally observed" (doc of Tlb): an entry of a page
\* the guest owes no fence for says what the tables say now, across satp switches, aliased
\* slots, superpages, A/D updates and snapshot resets, and claims a page dirty only if its
\* entry is.
TlbCoherent == Coherent(pt, satp, tlb, edited)

\* Whatever fast_pa answers, xlate would answer right now without walking, so the JIT's
\* inlined access writes no A/D bit less and faults no access less than the interpreter
\* (doc of fast_pa: "provably identical to what a real, fresh xlate call would compute").
FastPaSound ==
  \A vpn \in Vpns, acc \in Accesses, m \in Modes :
    fast_pa(vpn, acc, m) # Declined =>
      /\ XlateResult(vpn, acc, m) = fast_pa(vpn, acc, m)
      /\ Translated(m) => ~Walks(vpn, acc, m)

\* Whatever the read-only walk of the golden image answers for a page the guest owes no
\* fence for, the lane's own xlate would answer too, without changing a byte of the lane's
\* page tables (doc of xlate_golden_readonly).
GoldenReadonlySound ==
  snap # NoSnap => \A vpn \in Vpns, acc \in Accesses, m \in Modes :
    (xlate_golden_readonly(vpn, acc, m) # Declined /\ (Translated(m) => Fenced(vpn))) =>
      /\ XlateResult(vpn, acc, m) = xlate_golden_readonly(vpn, acc, m)
      /\ (Translated(m) /\ Walks(vpn, acc, m)) =>
           LET pte == pt[Leaf(pt, satp, vpn).at] IN pte.a /\ (acc = "W" => pte.d)
===============================================================================
