-------------------------------- MODULE Interp --------------------------------
(***************************************************************************)
(* The reference interpreter the JIT must agree with: run_case's loop       *)
(* around Cpu::step_system, one instruction or one interrupt a step         *)
(* (fs-riscv).  Of the guest's code only what decides control and time is   *)
(* kept.  An address counts half-words; a page is named by its first        *)
(* address, and any virtual page may map to any physical one.               *)
(***************************************************************************)
EXTENDS Integers

CONSTANTS VaSize, PaSize,        \* half-words of virtual and of physical memory
          PageSize,              \* half-words per page
          Halves, Wide,          \* half-words of code; those that begin a 4-byte instruction
          decode_compressed,     \* the instruction a half-word is,
          decode,                \* and the one two half-words are
          Guests,                \* guests: their code and their page table
          Vector,                \* the trap vector
          Compares,              \* values a guest stores to mtimecmp
          Deadline               \* run_case's bound on retired instructions

\* Stores, by where they go and whether their virtual address lies in the CLINT's physical
\* window: store (RAM, no), decoy (RAM, yes), clint (CLINT, yes), alias (CLINT, no).  mtime
\* loads the CLINT's clock; hole is an instruction that traps; csr turns interrupts on or off.
Kinds == {"alu", "auipc", "load", "mtime", "store", "decoy", "clint", "alias", "tohost",
          "branch", "jal", "csr", "mret", "hole"}
Inst == [k : Kinds, ilen : {1, 2}, off : -VaSize .. VaSize]

Va == 0 .. VaSize - 1
Pa == 0 .. PaSize - 1
PageOf(a) == a - (a % PageSize)
VPages == {PageOf(a) : a \in Va}
PPages == {PageOf(a) : a \in Pa}
Unmapped == -1

ASSUME InterpAssumption ==
  /\ PageSize \in Nat \ {0} /\ VaSize \in Nat \ {0} /\ PaSize \in Nat \ {0}
  /\ VaSize % PageSize = 0 /\ PaSize % PageSize = 0
  /\ Wide \subseteq Halves
  /\ decode_compressed \in [Halves \ Wide -> {i \in Inst : i.ilen = 1}]
  /\ decode \in [Wide -> [Halves -> {i \in Inst : i.ilen = 2}]]
  /\ Guests \subseteq [code : [Pa -> Halves], pages : [VPages -> PPages \cup {Unmapped}]]
  /\ Vector \in Va
  /\ Compares \subseteq Nat
  /\ Deadline \in Nat

VARIABLES code, pages,   \* the guest's code and page table, which it does not modify
          m              \* the hart and its CLINT

guest == <<code, pages>>

Plus(va, n) == (va + n) % VaSize
Mapped(va) == pages[PageOf(va)] # Unmapped
xlate(va) == pages[PageOf(va)] + (va % PageSize)

\* A fetch that cannot be translated.
FetchFault == [k |-> "fault", ilen |-> 0, off |-> 0]

\* Cpu::step's fetch: either half may be on a page that is not mapped.
Fetched(va) ==
  LET lo == code[xlate(va)]
      next == Plus(va, 1)
  IN  CASE ~Mapped(va) -> FetchFault
        [] Mapped(va) /\ lo \notin Wide -> decode_compressed[lo]
        [] Mapped(va) /\ lo \in Wide -> IF Mapped(next) THEN decode[lo][code[xlate(next)]] ELSE FetchFault

\* reg is what the last register write depends on: a count, an address or a time.
Machine == [pc : Va, epc : Va, ie : BOOLEAN, reg : Nat, retired : Nat, mtimecmp : Nat,
            msip : BOOLEAN, stopped : BOOLEAN]

\* take_trap
Trapped(s) == [s EXCEPT !.pc = Vector, !.epc = s.pc, !.ie = FALSE]
\* exec_one's commit.
Retired(s, pc) == [s EXCEPT !.pc = pc, !.retired = @ + 1]
\* sync_timer, update_timers and pending_interrupt.
Due(s) == s.ie /\ (s.msip \/ s.retired >= s.mtimecmp)

\* A store to the CLINT sets the compare register or the software interrupt.
ClintStores(s) == {[s EXCEPT !.mtimecmp = c] : c \in Compares} \cup {[s EXCEPT !.msip = b] : b \in BOOLEAN}

\* What one instruction may do (exec_one, then finish_exit) when the CLINT's clock shows now;
\* whether a load or a store faults and a branch is taken depend on data the model leaves open.
Exec(s, i, now) ==
  LET next == Plus(s.pc, i.ilen)
      target == Plus(s.pc, i.off)
  IN  CASE i.k = "alu"    -> {Retired([s EXCEPT !.reg = (@ + i.off) % 2], next)}
        [] i.k = "auipc"  -> {Retired([s EXCEPT !.reg = s.pc], next)}
        [] i.k = "mtime"  -> {Retired([s EXCEPT !.reg = now], next)}
        [] i.k \in {"load", "store", "decoy"} -> {Retired(s, next), Trapped(s)}
        [] i.k \in {"clint", "alias"} -> {Retired(t, next) : t \in ClintStores(s)}
        [] i.k = "tohost" -> {Retired([s EXCEPT !.stopped = TRUE], next)}
        [] i.k = "branch" -> {Retired(s, next), Retired(s, target)}
        [] i.k = "jal"    -> {Retired([s EXCEPT !.reg = next], target)}
        [] i.k = "csr"    -> {Retired([s EXCEPT !.ie = ~@], next)}
        [] i.k = "mret"   -> {Retired([s EXCEPT !.ie = TRUE], s.epc)}
        [] i.k \in {"hole", "fault"} -> {Trapped(s)}

Init ==
  /\ \E g \in Guests : code = g.code /\ pages = g.pages
  /\ m = [pc |-> 0, epc |-> 0, ie |-> FALSE, reg |-> 0, retired |-> 0, mtimecmp |-> 0,
          msip |-> FALSE, stopped |-> FALSE]

\* run_case's loop: below the deadline the CLINT is synced, so that its clock shows the
\* virtual time, and step_system takes an interrupt or executes an instruction.
Next ==
  /\ ~m.stopped /\ m.retired < Deadline
  /\ m' \in IF Due(m) THEN {Trapped(m)} ELSE Exec(m, Fetched(m.pc), m.retired)
  /\ UNCHANGED guest

Spec == Init /\ [][Next]_<<guest, m>>
===============================================================================
