------------------------------- MODULE VecCpu -------------------------------
(***************************************************************************)
(* The user-mode vectorised executor (fs-vec/src/lib.rs): step on a batch  *)
(* of lanes with one program counter and two registers each, over a shared *)
(* VecMmu.  A converged group is fetched and decoded once and executed by  *)
(* one masked vector operation; otherwise each lane runs alone.  The two   *)
(* must agree on every batch, which BatchMatches states.                   *)
(*                                                                         *)
(* A batch is a record of vectors (functions on LaneIds), the active mask  *)
(* and the memory.  Register a is rs1, register d is rs2 and rd.           *)
(***************************************************************************)
EXTENDS VecMmu, FiniteSetsExt

CONSTANTS Decode(_),        \* the instruction a halfword, or the first half of a word, means
          IsCompressed(_)   \* its low two bits are not 11

Mod == 256
ilen(half) == IF IsCompressed(half) THEN 1 ELSE 2
select(mask, new, old) == [l \in LaneIds |-> IF l \in mask THEN new[l] ELSE old[l]]

taken(a, d) == a = d                                    \* branch_taken, of the operands
alu(a, d) == (a + d) % Mod
muldiv(a, d) == IF d = 0 THEN Mod - 1 ELSE a \div d     \* divu, with its answer for zero
Sized(i) == IF i.k \in {"lw", "sw"} THEN 2 ELSE 1
\* lh sign-extends its halfword, lhu and lw do not.
Extended(i, v) == IF i.k = "lh" /\ v >= 8 THEN v + Mod - 16 ELSE v
-----------------------------------------------------------------------------
(* step_lane: one lane alone. *)

Halt(b, l, why) == [b EXCEPT !.active = @ \ {l}, !.exit[l] = why]
Advance(b, l, next) == [b EXCEPT !.pc[l] = next % Mod, !.retired[l] = @ + 1]

step_lane(b, l) ==
    LET pc == b.pc[l]  a == b.a[l]  d == b.d[l]
        lo == ifetch16_lane(b.mem, l, pc)
        hi == ifetch16_lane(b.mem, l, (pc + 1) % Mod)
        i == Decode(lo.val)
        next == pc + ilen(lo.val)
        loaded == load_lane(b.mem, l, a, Sized(i))
        stored == Checked(b.mem, l, a, Sized(i), "W")
        rd(v) == Advance([b EXCEPT !.d[l] = v], l, next)
        put(v) == [b EXCEPT !.mem = store_lane(b.mem, l, a, Sized(i), v)]
    IN  IF ~lo.ok THEN Halt(b, l, lo.kind)
        ELSE IF ~IsCompressed(lo.val) /\ ~hi.ok THEN Halt(b, l, hi.kind)
        ELSE CASE i.k = "lui"    -> rd(i.imm)
               [] i.k = "auipc"  -> rd((pc + i.imm) % Mod)
               [] i.k = "op"     -> rd(alu(a, d))
               [] i.k = "mul"    -> rd(muldiv(a, d))
               [] i.k = "branch" -> Advance(b, l, IF taken(a, d) THEN pc + i.imm ELSE next)
               [] i.k = "jal"    -> Advance([b EXCEPT !.d[l] = next % Mod], l, pc + i.imm)
               [] i.k = "jalr"   -> Advance([b EXCEPT !.a[l] = next % Mod], l, a)   \* rd is rs1
               [] i.k \in {"lh", "lhu", "lw"} ->
                      IF loaded.ok THEN rd(Extended(i, loaded.val)) ELSE Halt(b, l, loaded.kind)
               [] i.k \in {"sh", "sw"} ->
                      IF stored.ok THEN Advance(put(d), l, next) ELSE Halt(b, l, stored.kind)
               [] i.k = "ecall"  -> Halt(b, l, "ecall")

\* The scalar loop of step; lanes are visited in order and touch only their own state.
step_lanes(b) ==
    LET visit[l \in 0 .. N] ==
            IF l = 0 THEN b
            ELSE IF l - 1 \in b.active THEN step_lane(visit[l - 1], l - 1) ELSE visit[l - 1]
    IN  visit[N]
-----------------------------------------------------------------------------
(* try_simd_fast_step: the converged group at once. *)

lanes_converged(b) == \A l, k \in b.active : b.pc[l] = b.pc[k]
first(b) == Min(b.active)

\* One line per halfword; lanes whose bytes differ decline.
Agreed(b, addr) ==
    /\ Same(b.mem, addr, 1, b.active, "X")
    /\ \A l \in b.active : load_same(b.mem, addr, 1)[l] = load_same(b.mem, addr, 1)[first(b)]
GroupHalf(b, addr) == load_same(b.mem, addr, 1)[first(b)]
fetch_converged(b) ==
    LET pc == b.pc[first(b)]
    IN  Agreed(b, pc) /\ (IsCompressed(GroupHalf(b, pc)) \/ Agreed(b, (pc + 1) % Mod))

Packed == {"lui", "auipc", "op", "mul", "branch", "jal", "jalr", "lh", "lhu", "lw", "sh", "sw"}
Shared(b) == Decode(GroupHalf(b, b.pc[first(b)]))
FastStep(b) ==
    b.active # {} /\ lanes_converged(b) /\ fetch_converged(b) /\ Shared(b).k \in Packed

advance_pc_converged(b, mask, step) ==
    [b EXCEPT !.pc = select(mask, [l \in LaneIds |-> (b.pc[l] + step) % Mod], @),
              !.retired = select(mask, [l \in LaneIds |-> b.retired[l] + 1], @)]
Jump(b, targets) ==
    [b EXCEPT !.pc = select(b.active, targets, @),
              !.retired = select(b.active, [l \in LaneIds |-> b.retired[l] + 1], @)]

\* A lane the vector access did not serve is re-checked alone, and halted on its fault.
Faulted(b, served, bit, size) ==
    [b EXCEPT !.active = @ \ (b.active \ served),
              !.exit = [l \in LaneIds |-> IF l \in b.active \ served
                                          THEN Checked(b.mem, l, b.a[l], size, bit).kind ELSE @[l]]]

SameAddress(b) == \A l \in b.active : b.a[l] = b.a[first(b)]
try_simd_load(b, i, len) ==
    LET size == Sized(i)
        same == SameAddress(b) /\ Same(b.mem, b.a[first(b)], size, b.active, "R")
        served == IF same THEN b.active ELSE Serviced(b.mem, b.a, size, b.active, "R")
        raw == IF same THEN load_same(b.mem, b.a[first(b)], size)
               ELSE load_gather_fast(b.mem, b.a, size, b.active)
        value == [l \in LaneIds |-> Extended(i, raw[l])]
    IN  advance_pc_converged([Faulted(b, served, "R", size) EXCEPT !.d = select(served, value, @)],
                             served, len)

try_simd_store(b, i, len) ==
    LET size == Sized(i)
        same == SameAddress(b) /\ Same(b.mem, b.a[first(b)], size, b.active, "W")
        served == IF same THEN b.active ELSE Serviced(b.mem, b.a, size, b.active, "W")
    IN  advance_pc_converged(
            [Faulted(b, served, "W", size) EXCEPT
                !.mem = IF same THEN store_same(@, b.a[first(b)], size, b.active, b.d)
                        ELSE store_scatter_fast(@, b.a, size, b.active, b.d)],
            served, len)

simd_step(b) ==
    LET i == Shared(b)
        len == ilen(GroupHalf(b, b.pc[first(b)]))
        act == b.active
        link == [l \in LaneIds |-> (b.pc[l] + len) % Mod]
        rd(v) == advance_pc_converged([b EXCEPT !.d = select(act, v, @)], act, len)
        target == [l \in LaneIds |-> (b.pc[l] + i.imm) % Mod]
    IN  CASE i.k = "lui"    -> rd([l \in LaneIds |-> i.imm])
          [] i.k = "auipc"  -> rd(target)
          [] i.k = "op"     -> rd([l \in LaneIds |-> alu(b.a[l], b.d[l])])
          [] i.k = "mul"    -> rd([l \in LaneIds |-> IF l \in act THEN muldiv(b.a[l], b.d[l]) ELSE 0])
          [] i.k = "branch" -> Jump(b, [l \in LaneIds |-> IF taken(b.a[l], b.d[l]) THEN target[l]
                                                          ELSE link[l]])
          [] i.k = "jal"    -> Jump([b EXCEPT !.d = select(act, link, @)], target)
          [] i.k = "jalr"   -> Jump([b EXCEPT !.a = select(act, link, @)], b.a)
          [] i.k \in {"lh", "lhu", "lw"} -> try_simd_load(b, i, len)
          [] i.k \in {"sh", "sw"} -> try_simd_store(b, i, len)

step(b) == IF FastStep(b) THEN simd_step(b) ELSE step_lanes(b)

(***************************************************************************)
(* On a batch, the vector step is the lanes' own steps: registers, memory, *)
(* permissions, masks and faults of every lane, and nothing of a lane that *)
(* was masked off.                                                         *)
(***************************************************************************)
BatchMatches(b) == step(b) = step_lanes(b)
=============================================================================
