------------------------------- MODULE JitChain -------------------------------
(***************************************************************************)
(* The chain JIT (fs-jit: ChainCache over BlockCache and Arena) under       *)
(* run_case_jit_chain.  Straight-line runs of code are compiled once, keyed *)
(* by physical address, and a whole run retires inside one run_block call,  *)
(* without the driver's per-instruction deadline test, CLINT sync and       *)
(* interrupt poll.  Instructions that do not run natively are served from   *)
(* the decode cache of BlockCache.  The interpreter of Interp is what it    *)
(* must look like from outside.                                             *)
(*                                                                          *)
(* Inside a chain the hart's pc in memory is stale; the native code knows   *)
(* where it is as the entry pc it read on entry plus a static offset.       *)
(***************************************************************************)
EXTENDS Interp, Sequences

CONSTANTS MAX_CHAIN_LEN,   \* instructions compiled in one pass (64)
          MAX_RUN_LEN,     \* instructions decoded in one pass (64)
          Slots, BSlots,   \* sizes of the two direct-mapped tables
          ArenaCap         \* instructions the arena has room for

ASSUME JitAssumption ==
  /\ MAX_CHAIN_LEN \in Nat \ {0} /\ MAX_RUN_LEN \in Nat \ {0}
  /\ Slots \in Nat \ {0} /\ BSlots \in Nat \ {0} /\ ArenaCap \in Nat

VARIABLES gated,      \* whether a sanitizer or cmplog keeps this case out of the chains
          blocks,     \* slot -> CachedInsn
          slots,      \* slot -> ChainSlot
          arena,      \* instructions written to the arena
          native,     \* the chain running, its next instruction and the CLINT's clock
          edges,      \* coverage edges reported by take_last_edge
          iedges      \* ghost: the edges run_case would have recorded

caches == <<blocks, slots, arena>>
jitVars == <<gated, caches, native, edges, iedges>>
vars == <<guest, m, jitVars>>

NoInsn == [tag |-> -1, inst |-> FetchFault]
None == [tag |-> -1, steps |-> << >>]
Idle == [entry |-> 0, steps |-> << >>, at |-> 0, mtime |-> 0]
Running == native.at > 0

is_alu_link(i) == i.k \in {"alu", "auipc", "load", "mtime", "store", "decoy", "clint", "alias", "tohost"}
is_terminal(i) == i.k \in {"branch", "jal"}
Step(i, offset) == [inst |-> i, offset |-> offset]

\* A run of decoded instructions from va: decode_chain's takes what compiles and ends with a
\* branch or jal, compile_run's ("block") takes everything up to any control transfer.  Both
\* follow the virtual addresses for as long as they map to the physical page the run began on.
Takes(i, tier) == IF tier = "chain" THEN is_alu_link(i) \/ is_terminal(i) ELSE i.k # "fault"
Ends(i, tier) == is_terminal(i) \/ (tier = "block" /\ i.k \in {"mret", "hole"})
Cap(tier) == IF tier = "chain" THEN MAX_CHAIN_LEN ELSE MAX_RUN_LEN
Begun(va, tier) == IF Takes(Fetched(va), tier) THEN <<Step(Fetched(va), 0)>> ELSE << >>
Grown(va, tier, steps) ==
  LET last == steps[Len(steps)]
      offset == last.offset + last.inst.ilen
      a == Plus(va, offset)
  IN  IF \/ steps = << >> \/ Ends(last.inst, tier)
         \/ PageOf(xlate(a)) # PageOf(xlate(va)) \/ ~Takes(Fetched(a), tier)
        THEN steps ELSE Append(steps, Step(Fetched(a), offset))
Run(va, tier) ==
  LET Chain[n \in 1 .. Cap(tier)] ==
        IF n = 1 THEN Begun(va, tier) ELSE Grown(va, tier, Chain[n - 1])
  IN  Chain[Cap(tier)]
decode_chain(va) == Run(va, "chain")

\* BlockCache::fetch: the cached instruction if the tag matches the address of its first
\* half, else the one compile_run decodes, which enters its whole run in the cache.
bslot(pa) == pa % BSlots
Hit(va) == blocks[bslot(xlate(va))].tag = xlate(va)
BlockFetched(va) == IF Mapped(va) /\ Hit(va) THEN blocks[bslot(xlate(va))].inst ELSE Fetched(va)
compile_run(va) ==
  LET steps == Run(va, "block")
      pa(k) == xlate(Plus(va, steps[k].offset))
      into(i) == {k \in DOMAIN steps : bslot(pa(k)) = i}
      last(i) == CHOOSE k \in into(i) : \A j \in into(i) : j <= k
  IN  [i \in 0 .. BSlots - 1 |-> IF into(i) = {} THEN blocks[i]
                                 ELSE [tag |-> pa(last(i)), inst |-> steps[last(i)].inst]]
fetch(va) == blocks' = IF Mapped(va) /\ ~Hit(va) THEN compile_run(va) ELSE blocks

\* lookup_or_compile: the slot's chain if its tag matches, else a fresh one, empty when
\* nothing compiles or the arena is full.  Every caller's is_golden_page says yes.
slot(pa) == pa % Slots
Fits(steps) == arena + Len(steps) <= ArenaCap
Looked(va) ==
  LET pa == xlate(va)
  IN  IF slots[slot(pa)].tag = pa THEN slots[slot(pa)]
      ELSE [tag |-> pa, steps |-> IF Fits(decode_chain(va)) THEN decode_chain(va) ELSE << >>]
lookup_or_compile(va) ==
  LET pa == xlate(va)
  IN  /\ slots' = [slots EXCEPT ![slot(pa)] = Looked(va)]
      /\ arena' = IF slots[slot(pa)].tag = pa THEN arena ELSE arena + Len(Looked(va).steps)

\* Mutant: one instruction too many is admitted.
Admitted_OffByOne(steps) == steps # << >> /\ m.mtimecmp + 1 >= m.retired + Len(steps)

\* The admission guard: no timer deadline inside the chain.  mtimecmp stands for the nearer
\* of the two deadlines, as the driver's sync has just copied it to the hart.
Admitted(steps) == steps # << >> /\ m.mtimecmp >= m.retired + Len(steps)

\* Edges: run_case compares with both fall-through distances, the chain with the
\* instruction's own.  run_case records none past its deadline.
InterpEdge(from, to) == {e \in {<<from, to>>} : to \notin {Plus(from, 1), Plus(from, 2)}}
edge_if_not_fallthrough_by(from, to, ilen) == {e \in {<<from, to>>} : to # Plus(from, ilen)}
Report(e, from, to) ==
  /\ edges' = edges \cup e
  /\ iedges' = iedges \cup (IF m.retired < Deadline THEN InterpEdge(from, to) ELSE {})

-------------------------------------------------------------------------------
\* The driver's loop head: between run_block calls, below the deadline.
Driver == ~Running /\ ~m.stopped /\ m.retired < Deadline /\ UNCHANGED <<guest, gated>>

\* The sanitizer gate: BlockCache::run_block, one instruction or interrupt, and run_case's
\* own test for an edge.
GatedStep ==
  /\ Driver /\ gated
  /\ IF Due(m) THEN m' = Trapped(m) /\ UNCHANGED blocks
               ELSE m' \in Exec(m, BlockFetched(m.pc), m.retired) /\ fetch(m.pc)
  /\ Report(InterpEdge(m.pc, m'.pc), m.pc, m'.pc)
  /\ UNCHANGED <<slots, arena, native>>

\* poll_interrupt, after the CLINT sync.
PollInterrupt ==
  /\ Driver /\ ~gated /\ Due(m)
  /\ m' = Trapped(m)
  /\ Report({<<m.pc, Vector>>}, m.pc, Vector)
  /\ UNCHANGED <<caches, native>>

\* run_block's own translation of pc faults.
PcFault ==
  /\ Driver /\ ~gated /\ ~Due(m) /\ ~Mapped(m.pc)
  /\ m' = Trapped(m)
  /\ Report({<<m.pc, Vector>>}, m.pc, Vector)
  /\ UNCHANGED <<caches, native>>

\* run_block looks the chain up and enters it ...
Lookup == Driver /\ ~gated /\ ~Due(m) /\ Mapped(m.pc) /\ lookup_or_compile(m.pc)
EnterChain ==
  /\ Lookup /\ Admitted(Looked(m.pc).steps)
  /\ native' = [entry |-> m.pc, steps |-> Looked(m.pc).steps, at |-> 1, mtime |-> m.retired]
  /\ UNCHANGED <<m, blocks, edges, iedges>>

\* ... or falls back to one instruction of the block cache.
SingleStep ==
  /\ Lookup /\ ~Admitted(Looked(m.pc).steps)
  /\ fetch(m.pc)
  /\ m' \in Exec(m, BlockFetched(m.pc), m.retired)
  /\ Report(edge_if_not_fallthrough_by(m.pc, m'.pc, BlockFetched(m.pc).ilen), m.pc, m'.pc)
  /\ UNCHANGED native

Cur == native.steps[native.at]
CurPc == Plus(native.entry, Cur.offset)
IsLast == native.at = Len(native.steps)
AfterCur == Plus(CurPc, Cur.inst.ilen)
Advance == native' = IF IsLast THEN Idle ELSE [native EXCEPT !.at = @ + 1]
Leave == native' = Idle
NativeStep == Running /\ UNCHANGED <<guest, gated, caches>>

\* Retiring an instruction leaves pc in memory alone, but for the chain's last one.
Bumped(s) == [s EXCEPT !.retired = @ + 1, !.pc = IF IsLast THEN AfterCur ELSE @]
\* An early return from the chain commits pc.
Committed(s) == [s EXCEPT !.retired = @ + 1, !.pc = AfterCur]

\* Mutant: auipc uses the pc in memory.
Auipc_MemoryPc == m.pc + Cur.offset + 1

Auipc == CurPc

\* emit_step's ALU arms, and a load or store that succeeds.  A load of the CLINT's clock sees
\* it as the driver's sync left it on entry.
NativeLink ==
  /\ NativeStep
  /\ Cur.inst.k \in {"alu", "auipc", "load", "mtime", "store"}
  /\ m' = Bumped([m EXCEPT !.reg = CASE Cur.inst.k = "alu" -> (@ + Cur.inst.off) % 2
                                     [] Cur.inst.k = "auipc" -> Auipc
                                     [] Cur.inst.k = "mtime" -> native.mtime
                                     [] OTHER -> @])
  /\ Advance
  /\ Report({}, CurPc, AfterCur)

\* jit_store's call-out asks store_may_assert_interrupt about the virtual address: a store
\* that reaches the CLINT through another one does not stop the chain.
UnseenStore ==
  /\ NativeStep
  /\ Cur.inst.k = "alias"
  /\ \E s \in ClintStores(m) : m' = Bumped(s)
  /\ Advance
  /\ Report({}, CurPc, AfterCur)

\* TAG_TRAP: the call-out has put this instruction's address in pc; run_block vectors the
\* trap and reports an edge from the chain's entry.
NativeTrap ==
  /\ NativeStep
  /\ Cur.inst.k \in {"load", "store", "decoy"}
  /\ m' = Trapped([m EXCEPT !.pc = CurPc])
  /\ Leave
  /\ Report({<<native.entry, Vector>>}, CurPc, Vector)

\* Mutant: the early exit reports the terminal instruction's edge.
RepollEdge_Terminal(pc) ==
  LET last == native.steps[Len(native.steps)]
  IN  IF is_terminal(last.inst)
        THEN edge_if_not_fallthrough_by(Plus(native.entry, last.offset), pc, last.inst.ilen) ELSE {}

RepollEdge(pc) == {}

\* TAG_REPOLL: a store whose virtual address lies in the CLINT's window retires and stops the
\* chain, wherever it went.
NativeRepoll ==
  /\ NativeStep
  /\ \/ Cur.inst.k = "clint" /\ \E s \in ClintStores(m) : m' = Committed(s)
     \/ Cur.inst.k = "decoy" /\ m' = Committed(m)
  /\ Leave
  /\ Report(RepollEdge(AfterCur), CurPc, AfterCur)

\* TAG_HALT
NativeHalt ==
  /\ NativeStep
  /\ Cur.inst.k = "tohost"
  /\ m' = Committed([m EXCEPT !.stopped = TRUE])
  /\ Leave
  /\ Report({}, CurPc, AfterCur)

\* The terminal branch or jal.
NativeTerminal ==
  /\ NativeStep
  /\ is_terminal(Cur.inst)
  /\ \E pc \in {Plus(CurPc, Cur.inst.off)} \cup (IF Cur.inst.k = "branch" THEN {AfterCur} ELSE {}) :
       /\ m' = [m EXCEPT !.retired = @ + 1, !.pc = pc,
                         !.reg = IF Cur.inst.k = "jal" THEN AfterCur ELSE @]
       /\ Report(edge_if_not_fallthrough_by(CurPc, pc, Cur.inst.ilen), CurPc, pc)
  /\ Leave

JitInit ==
  /\ Init
  /\ gated \in BOOLEAN
  /\ blocks = [i \in 0 .. BSlots - 1 |-> NoInsn]
  /\ slots = [i \in 0 .. Slots - 1 |-> None]
  /\ arena = 0
  /\ native = Idle
  /\ edges = {} /\ iedges = {}

JitNext ==
  \/ GatedStep \/ PollInterrupt \/ PcFault \/ EnterChain \/ SingleStep
  \/ NativeLink \/ UnseenStore \/ NativeTrap \/ NativeRepoll \/ NativeHalt \/ NativeTerminal

JitSpec == JitInit /\ [][JitNext]_vars

-------------------------------------------------------------------------------
\* The hart as the guest would see it: inside a chain, at the next instruction.
Arch == IF Running THEN [m EXCEPT !.pc = CurPc] ELSE m

Interpreter == INSTANCE Interp WITH m <- Arch

\* The instruction about to execute, the clock it sees, and where its run began.
Doing == IF Running THEN Cur.inst ELSE BlockFetched(m.pc)
Clock == IF Running THEN native.mtime ELSE m.retired
Start == IF Running THEN native.entry ELSE m.pc
Offset == IF Running THEN Cur.offset ELSE 0

\* The four ways in which a step is known to differ from the interpreter's.  The entry was
\* compiled through another mapping, with another second page behind the page it is keyed by:
CrossesPage == (Start % PageSize) + Offset + Doing.ilen > PageSize
\* the clock stood still since the chain was entered, less than MAX_CHAIN_LEN ago:
Lagging == Running /\ native.at > 1 /\ m.retired < Clock + MAX_CHAIN_LEN
\* this chain has stored to the CLINT without being stopped:
Unpolled == Running /\ \E j \in 1 .. native.at - 1 : native.steps[j].inst.k = "alias"
\* the deadline has passed inside this chain:
Overrun == Lagging /\ Clock < Deadline

KnownStep ==
  /\ ~Arch.stopped
  /\ Arch' \in Exec(Arch, Doing, Clock)
  /\ Doing # Fetched(Arch.pc) => CrossesPage
  /\ Clock # Arch.retired => Lagging
  /\ Due(Arch) => Unpolled
  /\ Arch.retired >= Deadline => Overrun
  /\ UNCHANGED guest

\* --jit-chain implements the interpreter but for four known differences: whatever is
\* compiled, evicted or found at another virtual address, every instruction a chain or the
\* block cache retires, every fault and every interrupt is one the interpreter would have
\* performed at that point, with the same pc, link values and virtual time, except that an
\* instruction past the end of the page its run began on may be another mapping's, that a
\* load of the clock and the deadline are as old as the chain, and that after a store to the
\* CLINT through an address outside its window the chain goes on with the interrupt due.
RefinesButKnown == Interpreter!Init /\ [][Interpreter!Next \/ KnownStep]_<<guest, Arch>>

\* "so --jit-chain's coverage bitmap stays comparable to --jit/the plain interpreter's"
\* (ChainSlot::terminal): between calls the two have recorded the same edges, but for traps,
\* which a chain attributes to its entry, hops as long as the other instruction size, and the
\* last edge of a chain that overran the deadline.
EdgeParityButKnown ==
  ~Running =>
    \A e \in (edges \ iedges) \cup (iedges \ edges) :
      \/ e[2] = Vector
      \/ e[2] \in {Plus(e[1], 1), Plus(e[1], 2)}
      \/ m.retired > Deadline /\ e[2] = m.pc
===============================================================================
