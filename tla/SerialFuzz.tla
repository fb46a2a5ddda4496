------------------------------ MODULE SerialFuzz ------------------------------
(***************************************************************************)
(* The serial fuzz loop of cmd_fuzz (crates/fs-cli): one Machine, one       *)
(* golden Snapshot, reset before every run.  Saved seeds are replayed       *)
(* first.  An iteration then may trace a corpus entry for CMPLOG, runs one  *)
(* case, and passes the crash, KMSAN and UBSAN oracles in that order; a new *)
(* crash or a new KMSAN hit is minimised on the spot by replaying subsets   *)
(* of the program.                                                          *)
(*                                                                          *)
(* Snapshot::reset restores dirty blocks and the cpu.  Permission-only      *)
(* edits survive it; the loop puts them back from the dirtied ranges, and   *)
(* where it does so is what this module is about.                           *)
(***************************************************************************)
EXTENDS Sanitizer

VARIABLES opts,        \* the command line's flags
          phase,       \* where the loop is
          fresh,       \* nothing has run since the last reset
          ubsan,       \* the runs whose div-by-zero hits the cpu's log holds
          kmsan_hit,   \* the runs whose KMSAN report the cpu holds (at most one)
          regs_taint,  \* some register carries taint
          cmplog       \* the cpu records comparison operands

cpuVars == <<ubsan, kmsan_hit, regs_taint, cmplog>>
vars == <<mmuVars, goldenVars, sanVars, dirtied, opts, phase, fresh, cpuVars>>

\* Each run phase, and the phase its end leads to.
AfterRun == [sreplay |-> "seeds", trace |-> "inject", case |-> "crash",
             replay |-> "minimise", kreplay |-> "kminimise"]
Runs == DOMAIN AfterRun
Phases == Runs \cup {"seeds", "choose", "inject", "crash", "minimise", "kmsan",
                     "kminimise", "ubsan"}

\* The flag combinations cmd_fuzz accepts on its serial path.
Options ==
  {o \in [sanitize : BOOLEAN, kmsan : BOOLEAN, ubsan : BOOLEAN, cmplog : BOOLEAN,
          jit : {"off", "jit", "jit_chain"}] :
     /\ ~(o.sanitize /\ o.jit # "off")
     /\ ~(o.sanitize /\ o.kmsan)}

\* --ubsan and --kmsan arm the cpu before Snapshot::capture, so the golden clone
\* is armed with empty logs; --cmplog is not armed there.  Only the hooks, which are
\* not yet installed, mark a byte RAW or VTAINT.
Init ==
  /\ MmuInit
  /\ \A i \in Offs : "VTAINT" \notin perms[i] /\ "RAW" \notin perms[i]
  /\ SanInit
  /\ opts \in Options
  /\ phase = "seeds"
  /\ fresh = FALSE
  /\ ubsan = {}
  /\ kmsan_hit = {}
  /\ regs_taint = FALSE
  /\ cmplog = FALSE

\* What Snapshot::reset does to the cpu: the golden clone has empty logs and no
\* comparison recording.
ResetCpu ==
  /\ ubsan' = {}
  /\ kmsan_hit' = {}
  /\ regs_taint' = FALSE
  /\ cmplog' = FALSE

\* Snapshot::reset and nothing else, before the run of phase p.
SnapReset(p) ==
  /\ phase' = p
  /\ fresh' = TRUE
  /\ mem' = ResetMem
  /\ perms' = ResetPerms
  /\ ClearDirty
  /\ ResetCpu
  /\ UNCHANGED <<goldenVars, sanVars, dirtied, opts>>

\* The loop moves on without touching guest memory.
Goto(p) ==
  /\ phase' = p
  /\ fresh' = FALSE
  /\ UNCHANGED <<mmuVars, goldenVars, sanVars, opts>>

-------------------------------------------------------------------------------
\* replay_seeds, one saved program at a time.
BeginSeed == phase = "seeds" /\ SnapReset("sreplay")

\* Hits recorded while replaying seeds are flushed before the first case.
EndSeeds ==
  /\ phase = "seeds"
  /\ Goto("choose")
  /\ ubsan' = {}
  /\ kmsan_hit' = {}
  /\ UNCHANGED <<dirtied, regs_taint, cmplog>>

\* --cmplog: recording is switched on, then the snapshot is reset, then the corpus
\* entry runs without hooks.
BeginTrace == phase = "choose" /\ opts.cmplog /\ SnapReset("trace")

\* Mutant: the sanitizer's edits are forgotten instead of put back.
BeginCase_NoRestore ==
  /\ phase \in {"choose", "inject"}
  /\ phase' = "case"
  /\ fresh' = TRUE
  /\ mem' = ResetMem
  /\ perms' = ResetPerms
  /\ ClearDirty
  /\ ResetCpu
  /\ dirtied' = {}
  /\ NewSanitizer
  /\ UNCHANGED <<goldenVars, opts>>

\* The top of a case: reset, then the sanitizer's edits put back, then fresh
\* sanitizer bookkeeping.
BeginCase ==
  /\ phase \in {"choose", "inject"}
  /\ phase' = "case"
  /\ fresh' = TRUE
  /\ mem' = ResetMem
  /\ perms' = Restored(ResetPerms)
  /\ ClearDirty
  /\ ResetCpu
  /\ dirtied' = {}
  /\ NewSanitizer
  /\ UNCHANGED <<goldenVars, opts>>

-------------------------------------------------------------------------------
\* Steps of a run.  What a step never touches:
RunStep ==
  /\ phase \in Runs
  /\ fresh' = FALSE
  /\ UNCHANGED <<goldenVars, opts, cmplog>>

\* A store: an injected program word, or a guest store that leaves taint alone.
Runs_Store(n, a, d) ==
  /\ RunStep
  /\ MmuStore(a, n, d)
  /\ UNCHANGED <<sanVars, dirtied, phase, ubsan, kmsan_hit, regs_taint>>

\* A guest store under KMSAN: store_taint writes the stored register's taint.
Runs_TaintedStore(n, a, d) ==
  /\ RunStep /\ opts.kmsan
  /\ \E mask \in {{}} \cup (IF regs_taint THEN {Span(a, n)} ELSE {}) :
       MmuTaintedStore(a, n, d, mask)
  /\ UNCHANGED <<sanVars, dirtied, phase, ubsan, kmsan_hit, regs_taint>>

\* A chain-JIT store through fast_ptr.  The chain falls back to the interpreter
\* whenever a cpu log is armed, and only the case itself runs through it.
Runs_FastStore(n, a, d) ==
  /\ RunStep /\ phase = "case"
  /\ opts.jit = "jit_chain" /\ ~opts.kmsan /\ ~opts.ubsan
  /\ MmuFastStore(a, n, d)
  /\ UNCHANGED <<sanVars, dirtied, phase, ubsan, kmsan_hit, regs_taint>>

\* A division by zero, logged by the cpu whichever run it happens in.
Runs_DivByZero ==
  /\ RunStep /\ opts.ubsan
  /\ ubsan' = ubsan \cup {phase}
  /\ UNCHANGED <<mmuVars, sanVars, dirtied, phase, kmsan_hit, regs_taint>>

\* Under KMSAN a load that succeeds taints its register with what read_raw_state finds.
TaintVisible == \E i \in Offs : "READ" \in perms[i] /\ perms[i] \cap {"RAW", "VTAINT"} # {}
Runs_TaintedLoad ==
  /\ RunStep /\ opts.kmsan /\ TaintVisible
  /\ regs_taint' = TRUE
  /\ UNCHANGED <<mmuVars, sanVars, dirtied, phase, ubsan, kmsan_hit>>

\* A branch on a tainted register stashes a report and ends the run.
Runs_TaintedBranch ==
  /\ RunStep /\ opts.kmsan /\ regs_taint
  /\ kmsan_hit' = {phase}
  /\ phase' = AfterRun[phase]
  /\ UNCHANGED <<mmuVars, sanVars, dirtied, ubsan, regs_taint>>

\* The allocator hooks, which only the case's own run_case drives.
Hook(A) ==
  /\ RunStep /\ phase = "case" /\ opts.jit = "off"
  /\ A
  /\ UNCHANGED <<mem, dirty, dirty_bitmap, phase, ubsan, kmsan_hit, regs_taint>>

SanHook(a) ==
  /\ opts.sanitize
  /\ \/ \E s \in Requests : Hook(Alloc(a, s)) \/ Hook(CacheAlloc(a, s))
     \/ Hook(Free(a))
     \/ Hook(Ksize(a))
     \/ \E o \in Orders : Hook(AllocPages(a, o)) \/ Hook(FreePages(a, o))

KmsanHook(a) ==
  /\ opts.kmsan
  /\ \E s \in Requests, initialised \in BOOLEAN : Hook(SeedTaint(a, s, initialised))

\* The run ends: hypercall, halt or budget.
EndRun ==
  /\ phase \in Runs
  /\ Goto(AfterRun[phase])
  /\ cmplog' = FALSE
  /\ UNCHANGED <<dirtied, ubsan, kmsan_hit, regs_taint>>

-------------------------------------------------------------------------------
\* Mutant: minimisation starts without the clean-up.
CrashOracle_NoRestore ==
  /\ phase = "crash"
  /\ fresh' = FALSE
  /\ phase' \in {"minimise", "kmsan"}
  /\ UNCHANGED <<mmuVars, dirtied, goldenVars, sanVars, opts, cpuVars>>

\* The crash oracle: on a new kernel crash SanCtx's ranges, and only those, are
\* put back before the program is minimised.
CrashOracle ==
  /\ phase = "crash"
  /\ fresh' = FALSE
  /\ \/ /\ phase' = "minimise"
        /\ IF opts.sanitize THEN perms' = Restored(perms) /\ dirtied' = {}
           ELSE UNCHANGED <<perms, dirtied>>
     \/ /\ phase' = "kmsan"
        /\ UNCHANGED <<perms, dirtied>>
  /\ UNCHANGED <<mem, dirty, dirty_bitmap, goldenVars, sanVars, opts, cpuVars>>

\* minimize_program: one candidate, through Snapshot::reset alone.
BeginReplay == phase = "minimise" /\ SnapReset("replay")

EndMinimise ==
  /\ phase = "minimise"
  /\ Goto("kmsan")
  /\ UNCHANGED <<dirtied, cpuVars>>

\* Mutant: as above, for a KMSAN hit.
KmsanOracle_NoRestore ==
  /\ phase = "kmsan"
  /\ fresh' = FALSE
  /\ phase' \in {"ubsan"} \cup (IF kmsan_hit # {} THEN {"kminimise"} ELSE {})
  /\ kmsan_hit' = {}
  /\ UNCHANGED <<mmuVars, dirtied, goldenVars, sanVars, opts, ubsan, regs_taint, cmplog>>

\* The KMSAN oracle takes the cpu's report; a new pc is minimised after
\* KmsanCtx's ranges are put back.
KmsanOracle ==
  /\ phase = "kmsan"
  /\ fresh' = FALSE
  /\ kmsan_hit' = {}
  /\ \/ /\ kmsan_hit # {}
        /\ phase' = "kminimise"
        /\ perms' = Restored(perms)
        /\ dirtied' = {}
     \/ /\ phase' = "ubsan"
        /\ UNCHANGED <<perms, dirtied>>
  /\ UNCHANGED <<mem, dirty, dirty_bitmap, goldenVars, sanVars, opts, ubsan, regs_taint, cmplog>>

\* minimize_program_kmsan: a candidate, then the report it may have raised is taken.
BeginKmsanReplay ==
  /\ phase = "kminimise"
  /\ SnapReset("kreplay")

EndKmsanMinimise ==
  /\ phase = "kminimise"
  /\ Goto("ubsan")
  /\ kmsan_hit' = {}
  /\ UNCHANGED <<dirtied, ubsan, regs_taint, cmplog>>

\* The UBSAN oracle drains the log and the iteration is over.
UbsanOracle ==
  /\ phase = "ubsan"
  /\ Goto("choose")
  /\ ubsan' = {}
  /\ UNCHANGED <<dirtied, kmsan_hit, regs_taint, cmplog>>

Next ==
  \/ BeginSeed \/ EndSeeds \/ BeginTrace \/ BeginCase
  \/ \E n \in Widths, a \in Offs : \E d \in [0 .. n - 1 -> Val] :
       Runs_Store(n, a, d) \/ Runs_TaintedStore(n, a, d) \/ Runs_FastStore(n, a, d)
  \/ Runs_DivByZero \/ Runs_TaintedLoad \/ Runs_TaintedBranch
  \/ \E a \in Objects : SanHook(a) \/ KmsanHook(a)
  \/ EndRun \/ CrashOracle \/ BeginReplay \/ EndMinimise
  \/ KmsanOracle \/ BeginKmsanReplay \/ EndKmsanMinimise \/ UbsanOracle

Spec == Init /\ [][Next]_vars

-------------------------------------------------------------------------------
TypeOK ==
  /\ MmuTypeOK
  /\ SanTypeOK
  /\ opts \in Options
  /\ phase \in Phases
  /\ fresh \in BOOLEAN
  /\ ubsan \subseteq Runs /\ kmsan_hit \subseteq Runs
  /\ regs_taint \in BOOLEAN /\ cmplog \in BOOLEAN

\* Every difference from golden is known to somebody: content lies in a dirty
\* block, a permission in a dirty block or in a recorded range (Mmu::mark_dirty,
\* SanCtx::mark_dirtied, KmsanCtx::mark_dirtied).
Covered ==
  /\ ContentCovered
  /\ \A i \in Offs : perms[i] # gperms[i] => BlockOf(i) \in DirtyBlocks \/ i \in dirtied

Golden == mem = gmem /\ perms = gperms

\* No state of an earlier run reaches a case: when it starts, guest memory, every
\* permission bit, the cpu's logs and taint and the sanitizer's bookkeeping are
\* the snapshot's (Snapshot::reset, restore_dirtied_perms).
CaseStartsGolden ==
  phase = "case" /\ fresh =>
    /\ Golden
    /\ ubsan = {} /\ kmsan_hit = {} /\ ~regs_taint
    /\ dirtied = {} /\ quarantine = << >> /\ page_quarantine = << >>

\* A replay that decides whether a crash or a KMSAN hit still happens starts from
\* the snapshot.  For crashes this holds without --kmsan only: the crash oracle does
\* not put seeded taint back before it starts minimising (cmd_fuzz, "cleaned up now").
ReplayStartsGolden ==
  fresh => /\ phase \in {"sreplay", "kreplay"} => Golden
           /\ phase = "replay" /\ ~opts.kmsan => Golden

\* The replays of minimize_program_kmsan see no taint at all: nothing seeds it
\* (run_case_bus drives no hooks) and the case's taint has been put back, so no
\* candidate can raise the hit again and the program is never shortened.
KmsanReplayInert == phase = "kreplay" => ~TaintVisible /\ ~regs_taint /\ kmsan_hit = {}

-------------------------------------------------------------------------------
\* The trace's comment: the base program is traced "with fs-riscv's cmp-operand
\* recording on".
TraceRecords == phase = "trace" => cmplog
===============================================================================
