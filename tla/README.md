# TLA+ models of fuzzsoft

fuzzsoft is a full-system snapshot fuzzer: an RV32IMAC emulator boots a Linux
kernel once, takes a golden snapshot, and then, case after case, resets to it,
injects a program of system calls, runs the guest and looks for new coverage,
kernel crashes and sanitizer reports. Its worth rests on a few promises that
unit tests hardly reach: that nothing of one case survives into the next, that
the fast paths behave like the checked ones, that threads which mostly avoid the
lock lose nothing, that several harts on one host thread are coherent. This
directory models those parts, model-checks them, and proves the central
properties for every size.

## Inventory

| Component (crate) | State | Operations | Hard behaviour | What makes it correct | Status |
|---|---|---|---|---|---|
| Soft MMU `Mmu` (fs-mmu) | content and permission planes, dirty list, dirty bitmap | load, store, fetch, write_shadow, fast_ptr, protect, poison, set_vtaint, reset_dirty | byte-wise stores that fault half way; permission edits that mark nothing dirty; a raw pointer for compiled code | list and bitmap agree; whatever left golden is found by reset | `GuestBytes`, `Mmu` |
| `Golden`, `CowRam` (fs-mmu) | shared golden image; per lane a page directory, overlays, dirty list | the same, plus `reset` dropping overlays | first write copies, a faulting one may not have to; reset trusts the dirty list | a lane is flat RAM with an exact reset | `CowRam`, `GuestRam` |
| `Snapshot`, `Machine`, `Clint`, run loops (fs-platform) | golden planes, cpu, CLINT, UART length | capture, reset, run, run_until | traps retire nothing; the hart keeps a copy of the compare register | reset is exact; a run ends; the timer is exact | capture/reset in `SerialFuzz`; loops and CLINT in `Hart` |
| SMP scheduler `run_smp` (fs-platform, fs-riscv) | harts, turn, tick, recorded stores, reservations | lr/sc/amo/store, traps, end of turn | invalidation only at the end of a turn; first hypercall freezes all | no sc.w succeeds after a foreign store; termination | `SmpSched` |
| Serial fuzz loop (fs-cli `cmd_fuzz`) | corpus, sanitizer contexts, cpu logs | seed replay, CMPLOG trace, case, three oracles, two minimisers | several runs share one machine and one cpu inside an iteration | every run starts from the snapshot; a report is the case's own | `SerialFuzz` |
| Parallel fuzz loop (fs-cli `run_parallel`) | `Shared` behind a mutex, an atomic counter, thread-local copies | claim, run, pre-check, critical section, minimise, final flush | decisions on stale copies | no coverage lost, each crash once, counters exact, all threads leave | `ParallelFuzz` |
| Coverage maps (fs-cov) | hit counts, classes | classify, has_new_bits | | | `Coverage` |
| Heap sanitizers (fs-san, fs-cli `SanCtx`, `KmsanCtx`) | live and quarantined ranges, recorded ranges | kmalloc, kmem_cache_alloc, kfree, ksize, page alloc/free, taint seeding | steps that fail half way; queues at their cap | every edit is recorded; queues and live set disjoint | `Sanitizer` |
| PC hooks (fs-san) | per family, pending arguments by return address | entry, return, clear_pending | tasks that sleep or are preempted inside a call, interrupts at an entry, tail calls, all through one site | a return is paired with its own call | `PcHooks` |
| Sv32 and TLB (fs-riscv) | TLB, satp, page tables in RAM | xlate, fast_pa, xlate_golden_readonly, sfence.vma | staleness, A/D bits, reset of hart and tables together | agrees with the walk; shortcuts answer only what xlate would | `Sv32` |
| Traps and CSRs (fs-riscv) | privilege, mstatus, interrupt enables, delegation, compare registers | take_trap, mret, sret, CSR writes, interrupts | delegation, nesting | MPRV confined to M; priority and enables decide every step | `Hart` |
| JIT chains (fs-jit) | two direct-mapped tables, arena | lookup, compile, admit, run natively, leave early, fall back | timers, deadline and CLINT stores inside a chain, aliases, instructions across pages, collisions, a full arena | is the interpreter; coverage comparable | `JitChain` over `Interp` |
| Lanes (fs-vec) | per lane a hart, a copy-on-write view, a mask, coverage; interleaved memory | inject, run_batch, step, reset_batch | one lane's fetch and translation stand for all | every lane is a scalar run | `VecSystem`, `VecMmu`, `VecCpu` |
| Programs (fs-prog), agent (boot/) | calls, resource references, scratch image, fixups | generate, mutate, prefix, subset, minimise, lower | indices that shift under every edit | references keep their meaning; scratch does not overlap | `Syscalls`, `Programs`, `Lowering`, `Cmplog` |
| Loader, covmap, diff, encoder, host memory | | | | | not modelled |

How they interact: `cmd_fuzz` boots one `Machine`, then either hands a `Golden`
to `run_parallel` (each worker a `CowMachine` and a cpu of its own) or captures a
`Snapshot` and loops serially. A run calls `Cpu::step_system` (or a JIT cache)
over the `Bus` trait, which `Mmu`, `CowRam`, `Machine`, `CowMachine` and
`RecordingBus` implement; on the serial path `run_case` also drives the
allocator hooks, which edit the permission plane behind the guest's back.
`PROJECT.json` lists every component, its hazards at their source lines, and the
map from definitions to code.

## Modules

`GuestBytes` holds the operators every memory is built from: the verdict on a
checked access, which bytes a faulting store still commits, the permission
upgrade of a written byte, the conditions of `fast_ptr`. A permission byte is a
set of flags; an address is an offset into RAM.

`GuestRam` is the abstract specification: a flat array with permissions and an
exact `Reset`. `CowRam` is the code: `dir`, `pages`, `dirty`, golden planes; one
action each for load, store, fast-path store, shadow write and reset.
`ImplementsGuestRam` is `GuestRam`'s specification with `mem` and `perms` read
through the directory.

`Mmu` has the planes, the dirty list (as a count per block) and the bitmap (as
the set of marked blocks), and an operator per method. `Sanitizer` extends it
with `Sanitizer`, `PageSanitizer` and the seeding of `KmsanCtx`; an action is one
allocator event as `run_case` handles it, its error paths included; `dirtied` is
the set of bytes in the recorded ranges of whichever context the flags built.
`SerialFuzz` extends that with the loop: `phase` is where it is, and a run is a
phase in which stores, taint steps, divisions and hooks may happen in any number
and order. The logs of the cpu hold the names of the runs that filled them, so
that a property can ask whose entries an oracle reads. A load sees taint where a readable
byte has VTAINT or RAW, as `read_raw_state` has it; the snapshot has neither, because
fs-cli maps RAM without RAW and seeds taint in cases only.

`SmpSched` models `run_smp` with the reservations of its harts. `watched` is
auxiliary: the physical bytes a hart's LR read, emptied by the first foreign
write to them. A guest step is any of lr, sc, amo, store, another instruction, a
trap without retirement, halt (the store to `tohost` that causes it included) or
hypercall. Atomic words are aligned (a misaligned `sc.w` that faults half way is not
modelled). Page walks also store, when they set A or D bits; these stores are not
modelled, because they need paging on, and with paging on `NoSpuriousSc` fails
already.

`Coverage` and `ParallelFuzz` model the worker threads. Guest runs are
deterministic and private to a worker, so a program is what its run shows
(`Hits`, `Sig`, `Outcome`), a case up to the decision to lock is one step, and a
critical section is one step. `ran` and `reports` are auxiliary.

`Syscalls` is the table of system calls: argument types, the kind of resource an
argument wants, what a call produces and how. TLC runs four of its descriptions; the
others reach the proofs, which range over every subset of the table, and the
assumption that names are unique. `Programs` edits programs over it:
`prog` is a sequence of calls whose resource references (`refs`) are kept apart
from their other arguments (`data`); an action is one generator step or one
mutator with the renumbering it does, and the minimiser's loop with `keep`,
`tried` and `rejected`. `Lowering` lays a program out in scratch and makes its
fixups, and interprets the result as the agent does; `Cmplog` is the substitution
of logged operands, as functions.

`Sv32` is `xlate` with its TLB, whose number of slots (`TLB_SIZE`) is apart from the
number of entries in a table. The fault of a walk whose A/D write-back fails has no
branch: the write goes to the word the walk has just read, fs-cli maps all of RAM
readable and writable, and the sanitizers take both rights or neither. Page tables are
`pt`; `edited` is auxiliary and holds the entries the guest has written since its last
fence, because staleness there is architectural. Privilege, SUM and MXR are inputs of an access, since the code
reads them per access and never caches them. `fast_pa` and
`xlate_golden_readonly` are operators on the same state.

`Hart` is one iteration of `run_until` per step: CLINT sync, timers, the pending
interrupt of highest priority or else an instruction, and the trap it raises. Of
the pc it keeps only whether it stands at a trap vector; `doubled` remembers that
an instruction there has faulted. A CSR write changes one interrupt line of `mie` or
`mip`, any line the privilege may write, or sets one of `mideleg`, `medeleg` and
`stimecmp`; writing several lines at once is several steps.

`PcHooks` shows every pc of the guest to the hooks, before the step, as `run_case`
does. The hooks know nothing of tasks, so neither does the guest's state: `live` holds
the calls in flight by return address, and any of them may return next, which is what a
kernel does that switches tasks inside a call that sleeps or is preempted. A task
interrupted at a hooked pc, after the hooks saw it, is `parked` and resumed at any later
time. `crossed`, `strays` and `spurious` are auxiliary: the sites whose calls have
returned out of order or met a stash not their own since the site was last idle, and
counts of what the hooks were shown twice and reported twice.

`Interp` is the interpreter as an abstract specification: `run_case`'s loop below its
deadline, one instruction, trap or interrupt a step. Virtual pages map to physical ones
or nowhere, and an instruction of two half-words may have its second one on another
page. A store is told apart by where it goes (RAM or CLINT) and by whether its VIRTUAL
address lies in the CLINT's physical window, because the JIT asks the latter. `JitChain`
adds both caches, the arena and the chain in progress, with the clock as the driver left
it, and steps link by link inside it; a gated case, and every instruction that is not
admitted, goes through the decode cache of `BlockCache`. `Arch` is the refinement
mapping, which puts the pc where the chain has got to. `iedges` is what the
interpreter's driver would have recorded.

`VecSystem` has a scalar `step_system` on one lane's hart and view, and the
converged path that fetches and translates through the first lane and reads the
golden image. `VecMmu` and `VecCpu` are the user-mode executor: a batch is a
record, `step` chooses between the vector step and the lanes one by one.

Operators named `X_Suffix` with a comment "Mutant" are defective variants of `X`;
no specification uses them. `PROJECT.json` pairs each with the property that
fails when it replaces `X`.

## Runs

| Run | Instance | Checks |
|---|---|---|
| `cow_ram` | 3 bytes, pages of 2 (the last one partial), widths 1 and 2 | types; directory, overlays and dirty list agree; refinement of `GuestRam` |
| `serial_fuzz` | 4 bytes in 2 dirty blocks sharing a bitmap word; two objects, one with slack, one near the end of RAM; quarantine of 1; three flag combinations | types; bitmap; every difference from golden is known; cases and replays start golden; KMSAN replays see no taint; quarantine |
| `cmplog_trace` | as above | violated: see Findings |
| `smp_sched` | 3 harts, 3 words of 2 bytes, quantum 2, deadline 8, paging off | types; no spurious sc.w; one hypercall; termination |
| `smp_paged` | paging on | violated: see Findings |
| `parallel_fuzz` | 2 workers, 4 cases, sync every 2, 2 buckets, 5 programs, up to 2 seeds | types; the seven properties below; termination |
| `programs` | programs of up to 3 calls over pipe2, epoll_create1, epoll_ctl and vmsplice; 40 bytes of scratch | types; references; minimisation; delivery of resources; scratch layout |
| `sv32` | tables of 2 entries, a superpage, TLB of 2 aliasing slots, 4 access modes, one guest edit | TLB against walk; both shortcuts |
| `hart` | 5 instructions; delegation as firmware programs it; compare values in the past, in the run and never reached | MPRV; exact timer; termination |
| `pc_hooks` | 3 call sites (an allocation, a delayed free, a free reported at entry), one tail call, 2 register files, 2 tasks to park, 2 calls in flight or parked, 2 strays | pairing; no report from another case |
| `jit_chain` | 126 guests of 8 half-words in 2 pages seen through 4 virtual ones; chains and runs of up to 3, 4 slots in each table, an arena of 7, a deadline of 11, timers inside and outside | refinement of `Interp` but for four known differences; coverage edges |
| `vec_system` | 3 lanes, every program of 3 free instructions between two loads, 5 instructions of budget, a timer in the run | every lane is a scalar machine |

Why the bounds are enough. Memory: an access of width 2 can be aligned, cross
into the partial page, fault on its first or second byte, and touch one block or
neighbour the other; two blocks in one bitmap word exercise the word-wide clear.
`MCInit` fixes one golden image with a write-only byte, so that partial faults
and the permission upgrade happen; the proofs cover the others. Heap: a request
with and without slack, slack inside and outside RAM, reuse of an address, a full
queue. Harts: with three, the round wraps and a hart can stop while two others
contend; the deadline lets each have two turns. Workers: four cases over two
workers let one lag behind a new class found by the other, both find the same
coverage, and both crash with the same signature. `MaxSeeds`, `Cases` and
`Deadline` bound the behaviours; the first two are inputs of the program anyway.
Programs: three calls are the least in which an edit can sit before, between and
after a producer and its consumer (the fail_nth preamble, which takes two of them,
leaves room for one call behind it, so that what it shifts is left to the proofs, which
hold for every length; with four calls TLC does not end in minutes); the four descriptions produce by return value
and through an out array, take a nullable pointer, and nest pointers; 40 bytes of
scratch are reached by the larger layouts, so the cap bites. Sv32: two slots for
four pages make every page alias another, a guest edit can hit the root, the leaf
table or the superpage, and one edit with a snapshot before or after it is enough
for each side to be stale; `MaxEdits` names the bound. Hart: five instructions let
a handler nest in a handler, return and be interrupted again. Hooks: two calls in
flight or parked (`MaxCalls`) are the least that can return out of order, and two strays
(`MaxStrays`) the least in which one leaves a stash and another meets it. JIT: chains
that fit and do not fit the slots, the page, the length limit and the arena; a timer due
before, in and after a chain; a last instruction whose other half the second mapping
finds on another page, on the same one or nowhere; a deadline that falls inside chains. Lanes: a
group of two can remain when a third is masked off with its copy of a page.
`MCVecSystem` also assumes `VecStepMatches`, which TLC evaluates: on some 60,000
two-lane batches (every instruction at either half of a word, equal, different,
misaligned and unmapped addresses, every mix of permissions, every mask) the
vector step of `VecCpu` is its scalar step. `MCPrograms` assumes `CmplogSolves` in
the same way: below `MAX_CANDIDATES` every substitution that turns a comparison is among
the candidates, and at the cap the scan stops early.

Fairness. `run_smp` is one host thread that never blocks: weak fairness of its
next step. `run_parallel`: weak fairness of each worker, because the host
schedules every thread, the mutex is held for bounded time, and a case ends with
its instruction budget; and of `Spawn`, since the seed list is finite. That
budget counts retired instructions; a guest that traps for ever without retiring
one would break this assumption (see the hazards). `Hart`: weak fairness of
the loop's next iteration, which nothing can block. `Termination` there does not
assume that budget away: it says which guests use it up, and excludes the one kind
that does not, a guest whose trap vector faults. The liveness runs may stop when
the work is done, and a chain when its deadline is reached, so these runs do not
check for deadlock.

## What the properties say

* `DirMatches`, `ImplementsGuestRam` — a lane cannot be told from flat RAM, through
  copy-on-write, partial faults, the JIT's pointer and reset.
* `BitmapMatches`, `Covered` — the dirty list and the recorded ranges together
  know every byte that left the snapshot.
* `CaseStartsGolden`, `ReplayStartsGolden` — hence no run inherits anything.
* `KmsanReplayInert` — the KMSAN minimiser's replays can never raise a hit.
* `QuarantineSound` — quarantined addresses are dead, queued once, within the cap.
* `NoSpuriousSc`, `OneHypercall`, `Termination` — the SMP promises.
* `LocalLags`, `CoverageKept`, `CorpusCovers`, `LocalPrefix`, `CrashOnce`,
  `StatsBalance`, `Termination` — the parallel promises, the first being the
  invariant the doc of `Shared` names.
* `WellFormed`, `NoRewire` — after any edit a reference names an earlier call that
  produces what it wants, and the same call as before; the second is what an
  off-by-one in renumbering breaks while the first still holds. Insertion, removal and
  the preamble may change no reference at all, re-picking and wiring the one they pick.
* `SubsetThreads`, `OneMinimal` — a minimiser's candidate is the program restricted
  to the kept calls, and it stops only when no single deletion reproduces.
* `ThreadDelivered`, `ScratchSound` — the agent hands each call the resource its
  reference names; pointees are disjoint, aligned and below the cap.
* `TlbCoherent` — a hit agrees with the walk wherever the guest owes no fence, across
  snapshot resets. `FastPaSound`, `GoldenReadonlySound` — the shortcuts of the JIT
  and of the lanes answer only what `xlate` would, and skip no A/D update.
* `MprvOnlyInM`, `TimerExact`, `Termination` — privilege, time and progress of a run.
* `PairedReturn`, `SpuriousBounded` — a call that returns is reported with its own
  arguments as long as the calls in flight from its site return last in, first out and
  no stray meets two of them, whatever happens at other sites and happened at this one
  before it was last idle; and a report too many has a stray of the same case to blame,
  in any order of returns.
* `RefinesButKnown`, `EdgeParityButKnown` — the chain JIT is the interpreter but for
  four known differences, each confined to its condition: what lies past the end of the
  page a run began on may be another mapping's (`CrossesPage`); the clock is as old as
  the chain (`Lagging`); the deadline is overrun by less than a chain (`Overrun`); after
  a CLINT store it did not see a chain goes on with an interrupt due (`Unpolled`). TLC
  finds a violation when any one of them is not allowed. The coverage differs by three
  named classes of edges only.
* `LanesMatchScalar` — lane by lane, a batch step is the scalar machine's.

## Findings

Two runs are expected to fail, because the code departs from its comments: the
CMPLOG trace records nothing, since the reset after `set_cmplog(true)` undoes it
(`cmplog_trace`); with paging on, a foreign store does not drop a reservation
(`smp_paged`). Other properties are stated with the exception the code needs, and
fail without it:

* crash minimisation under `--kmsan` starts from a tainted machine
  (`ReplayStartsGolden`);
* a store that misses the first byte of the reserved word does not drop the
  reservation (`BaseStores` in `MCSmpSched`);
* a chain attributes a trap to its entry, compares a hop with its terminal's own length
  and may end past the deadline, so the JIT's bitmap differs from the interpreter's
  (`EdgeParityButKnown`);
* the JIT asks of a store's virtual address whether it reached the CLINT, so under paging
  a chain may run on with an interrupt due; it tests the deadline and sets the clock once
  per chain; and it finds an instruction by its first half's address although the second
  half may be on a page another mapping does not share (`RefinesButKnown`);
* calls from one site that return out of order, as tasks switched inside them do, are
  reported with each other's arguments, and an interrupt at a hooked entry leaves a stash
  that can later answer for another call (`PairedReturn`); the module's doc also says a
  free is reported at its entry, where the code and the property wait for the return;
* lanes that differ in SUM, MXR or MPRV still count as converged, and a broadcast
  load then translates with the first lane's (`LanesMatchScalar`).

Met while modelling, without a property of their own: after a crash has been
minimised, the KMSAN and UBSAN oracles read the last replay's log; the tick of
`run_smp` counts steps where its doc says retired instructions (and has to, or a
trapping hart would keep it from returning); `take_trap` keeps the reservation its
docs say it drops; the KMSAN minimiser never shortens a program; a minimisation
may take 35 replays, not 28; the C reproducer leaves nested pointers as offsets;
address structures are four bytes longer than their comments say; CMPLOG drops
pairs past its cap. `PROJECT.json` quotes the lines. Also worth knowing:
`free_pages` inside `free_pages` is reported twice where both are hooked, a shrunk
out buffer can be read past its end by a fixup, and `VecMmu` stores are all or
nothing where `Mmu` commits byte by byte.

## Proofs

All theorems hold for every value of the constants that satisfies the named
assumptions (`SizeAssumption`, `WidthsAssumption`, `PageAssumption`,
`SinglePage`, `BlockAssumption`, `HeapAssumption`, `SmpAssumption`,
`ParallelAssumption`, `HartConstants`, `VecAssumption`, `Sv32Constants`,
`InterpAssumption`, `JitAssumption`, `HooksAssumption`, `ProgramBounds`, `DescsInTable`, `NamesUnique`,
`NullsNullable`), which say that sizes are positive, that an
aligned access stays in a page, that hooks report addresses in RAM, that there are
finitely many programs (a program is at most `MAX_CALLS` calls of 32-bit arguments),
that the tables have their types, that no two descriptions share a name, and that the
generator makes NULL only for a nullable pointer.

The library's induction theorems take an operator, which the provers cannot
instantiate. Where a proof needs induction (chains decoded step by step, the
quarantine's scan, sums over the workers' programs) it goes over the SET of numbers
or subsets for which the claim holds: `NatSetInduction` and `SubsetInduction` derive
that from the existence of minimal elements, and the local recursive function's
defining equation does the rest.

* `LaneProofs`, on `CowRam`: types, `DirMatches`, and the refinement. The inductive invariant
  is types together with `DirMatches`: without the latter an overlay update could
  hit the wrong page. One lemma says what replacing a page's overlay does to the
  planes read through the directory; each action's step then maps to a step of
  `GuestRam`, the fast store to an ordinary store, because the bytes it may touch
  already carry READ and lack RAW, so the upgrade changes nothing.
* `SerialFuzzProofs`: `BitmapMatches`, `Covered`, `CaseStartsGolden`,
  `ReplayStartsGolden`, `KmsanReplayInert`. `Covered` is not inductive alone: a
  replay starts after a reset that clears the dirty list but not the recorded
  ranges. The invariant adds `RangesPutBack`, which says in which phases a byte
  outside every dirty block may still differ in its permissions, and
  `TaintAbsent`, which says when no byte carries taint. Reset then yields golden
  because everything it does not copy back already is. `QuarantineSound` and the
  types need `HeapInv`, which says of both queues that they repeat nothing, hold only
  dead addresses and respect the cap; the lemma under it is that `retain`
  (`Evicted`) keeps a queue without repeats and drops exactly the address that is
  allocated again.
* `SmpSchedProofs`: types, `OneHypercall`, and `NoSpuriousSc` under `PagingOff` and
  `BaseWritten`. The invariant says, of every hart with a reservation, that its
  word is still watched or that a byte of it is among the stores recorded in this
  turn, so that the end of the turn drops it; and that the running hart's own is
  always watched. `smp_paged` shows that the first is needed; see Findings for the second.
* `ParallelFuzzProofs`: every invariant of the run: types, `LocalLags`, `CoverageKept`,
  `CorpusCovers`, `LocalPrefix`, `CrashOnce`, `StatsBalance`.
  `LocalLags` is inductive with types because folding is monotone and idempotent
  (lemmas on `Folded` and `HasNewBits`); `CoverageKept` follows from it, since a
  run that is not new locally is not new in a map at least as large. `StatsBalance`
  speaks of the end of the loop only; its inductive form `BalanceInv` holds at every
  step: cases claimed are run or being run; every run is in a worker's unflushed counts
  or in the shared ones; every crash is counted or its worker waits for the mutex;
  and a worker leaves with nothing unflushed. Lemmas on `MapThenSumSet` say what
  changing one summand does.
* `CpuProofs`, on `Hart`: types, `MprvOnlyInM`, and `TimerExact` under `SoftwareInM` (no
  delegation set contains the machine software interrupt). The inductive invariant
  is types with `MprvOnlyInM`. For `TimerExact`, a lemma says that with the machine
  timer deliverable the chosen interrupt is the timer or the machine software
  interrupt, so that M-mode is entered either way; if the latter were delegated it
  would come first and enter S-mode, and the timer would follow only then.
* `LaneProofs`, on `VecSystem`: `LanesMatchScalar`. It needs no invariant: what a step checks
  before it shares is enough. A page no lane has copied is golden in every lane's
  view, so the shared fetch is each lane's own fetch; the packed operation and the
  broadcast load then give each lane what `Exec` gives it alone.
* `CpuProofs`, on `Sv32`: `TlbCoherent`, `FastPaSound`, `GoldenReadonlySound`. A reset brings back
  a whole hart, TLB included, so the invariant holds coherence of the snapshot as
  well as of the hart, and that the golden image agrees with the hart's memory
  outside the overlaid pages. The heart is that an A/D update by a walk changes no
  translation any cached entry stands for: it only adds bits that the comparison of
  entry and walk does not see. The two shortcuts then follow from coherence without
  further induction.
* `JitChainProofs`: `RefinesButKnown` and `EdgeParityButKnown`. The invariant says
  that both caches hold what some mapping finds at the physical address of the tag
  (`BlocksGood`, `SlotsGood`), that a running chain is one of its entry's physical
  address, was entered below the deadline and as many instructions ago as it has
  retired, and that, unless it has stored to the CLINT unseen, no interrupt falls due
  before its last instruction (`NativeGood`), which is what `Admitted` establishes and
  each link uses up by one. Decoding is by induction over the length of a run; the lemma
  under it (`SameFetch`) is that two mappings of one physical address fetch the same
  instruction as long as it ends on the page. With that, each native link is `Exec` of
  the instruction the interpreter would fetch, at the time it would, or falls under the
  one difference whose condition holds. Nothing is assumed of the code's layout or of
  the page table, except that the guest changes neither during a case.
* `ProgramsProofs`: types, `WellFormed`, `NoRewire`, `SubsetThreads`, `OneMinimal`. The
  one notion all edits share is `Carried`: the calls K of the old program are calls of
  the new one at positions e, and their references, except those in X, follow them. It
  has two consequences for every strictly increasing e. If the old program is
  well-formed, so is the new one, as soon as the fresh calls and the references in X
  are good (`CarriedWf`); and nothing outside X is rewired (`CarriedThreads`, by lemmas on `Rank` and `Nth`, the code's index remapping). It then
  remains to show for each edit which e it stands for: insertion, removal, one
  replaced argument, a producer inserted before its use, the preamble with its cut
  tail, the minimiser's subset. `OneMinimal` needs that every call tried and kept in
  this pass stands for a rejected candidate, and that the kept set is never empty.

* `PcHooksProofs`: `PairedReturn` and `SpuriousBounded`, both under `OneConvention`:
  a hooked function tail-calls only functions with its own calling convention (as
  `kmalloc` to `__kmalloc`). Across two, as `kmalloc` to `kmem_cache_alloc`, two
  families hold a stash for one return and both answer; without the hypothesis TLC
  finds `PairedReturn` violated. The invariant `HooksInv` has two parts, both per site.
  `Marks`: at a site that has not crossed, the last stashes of its list are those of the
  calls in flight from it, in entry order, a call that has just returned counting as the
  last (`Holds`); what strays left lies below. Counting from the bottom is not inductive,
  because leftovers shift every position, and the top alone says nothing of the calls
  below it. A site becomes good again when a call enters it with none in flight, whatever
  is left in its list, which is why old mispairings do not matter. `Charges` makes
  strays pay, at crossed sites too: the reports made too often, plus those a parked task
  or the current pc will repeat, plus the stashes no call will pop (`Left`), are at most
  the strays of the site in this case. Each step moves a charge from one term to another
  or adds a stray with it; a new case starts with every term at zero.

Only model-checked: the three `Termination`s (liveness), and the properties of `VecMmu`
and `VecCpu`, which `vec_system` evaluates on bounded inputs. `ThreadDelivered` and
`ScratchSound` are about layouts that `Lowering` computes by recursion over argument
types, which keeps the SMT backend out of any module above it; they stay with TLC.

## Not modelled, and the plan

Out of reach or without state worth a model: the arithmetic of instructions and the
decoder (compared with Spike by fs-diff), the x86 encoder, the loader, reporting
tools, `fs-hostmem` (a prototype that no crate uses; its behaviour is the host's
mmap), the dictionaries (pools of constants). Left out of modelled parts: guests that
rewrite code after it was compiled, and the A bits that the JIT's decoding ahead sets in
the page table; the CLINT of `run_smp` and the A/D stores of page walks under it;
`batch.rs`; VecCpu's atomics; taint transfer through each operator;
corpus files. `Lowering` and `Syscalls` are recursive over argument types, so their
properties stay with TLC.

Next, in order:

1. `Hart` composed with `SmpSched`: per-hart timers against the global tick.
2. Code that stops being golden under both JIT caches, as `--jobs` would make it.
