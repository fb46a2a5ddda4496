----------------------------- MODULE VecSystem -----------------------------
(***************************************************************************)
(* The full-system vectorised executor (fs-vec/src/system.rs): a batch of  *)
(* lanes, each a hart with a copy-on-write view of one golden RAM image.   *)
(* A step runs every active lane through the scalar interpreter, unless    *)
(* the lanes agree closely enough to fetch, translate and execute once for *)
(* the whole group, against the golden image.                              *)
(*                                                                         *)
(* RAM is a few pages of one value each: the program text, two page        *)
(* tables, a kernel page and a user page.  A table's value says which of   *)
(* the last two pages virtual address 0 means, and which 1 means.  A hart  *)
(* has one register; its sret goes to the next instruction, in the mode    *)
(* the register put in SPP.  A lane's own translation walks its own view   *)
(* of RAM: the software TLB is module Sv32's subject.                      *)
(***************************************************************************)
EXTENDS Naturals

CONSTANTS Lanes,      \* lane numbers
          Texts,      \* programs: text[v][pc] is the instruction at pc when the
                      \* text page holds v
          Golden,     \* the golden image, [PageNames -> Vals]
          Vector,     \* stvec
          Timecmp,    \* stimecmp, in retired instructions
          Budget      \* run_batch's per-lane instruction budget

PageNames == {"text", "table0", "table1", "kernel", "user"}
Vals == {0, 1}

ASSUME VecAssumption ==
    /\ Lanes \subseteq Nat /\ Lanes # {}
    /\ Golden \in [PageNames -> Vals]
    /\ Timecmp \in Nat /\ Budget \in Nat

VARIABLES
    text,       \* the guest program, fixed for a behaviour
    running,    \* inside run_batch
    lanes,      \* each lane's hart
    overlay,    \* each lane's private pages: a function on a set of pages
    active,     \* the lanes not yet masked off
    exit,       \* why a lane was masked off
    cov         \* each lane's coverage edges

laneVars == <<text, running, lanes, overlay, active, exit, cov>>

\* The hart every lane is cloned from.
Template == [pc |-> 1, reg |-> 0, priv |-> "S", sum |-> FALSE, root |-> 0, ie |-> TRUE,
             retired |-> 0]
Table(c) == IF c.root = 0 THEN "table0" ELSE "table1"

View(ov) == [p \in PageNames |-> IF p \in DOMAIN ov THEN ov[p] ELSE Golden[p]]
Write(ov, p, v) == [q \in DOMAIN ov \cup {p} |-> IF q = p THEN v ELSE ov[q]]

\* Leaf page of a data address under a table's value, and who may read it.
Leaf(table, va) == IF table = va THEN "kernel" ELSE "user"
Readable(c, p) == IF p = "user" THEN c.priv = "U" \/ c.sum ELSE c.priv = "S"
-----------------------------------------------------------------------------
(* The scalar machine: Cpu::step_system on one lane. *)

\* The delegated timer: enabled in U-mode, and in S-mode under sstatus.SIE.
Due(c) == (c.ie \/ c.priv = "U") /\ c.retired >= Timecmp
Trapped(c) == [c EXCEPT !.pc = Vector, !.ie = FALSE, !.priv = "S"]
Retired(c) == [c EXCEPT !.pc = @ + 1, !.retired = @ + 1]
Result(c, ov, out) == [c |-> c, ov |-> ov, out |-> out]

\* The packed instruction class, Op and OpImm: a constant, or the other value.
Packed == {"alu", "li"}
alu(i, a) == IF i.k = "li" THEN 1 ELSE 1 - a

SPP(c) == IF c.reg = 1 THEN "U" ELSE "S"

Exec(c, ov, i) ==
    LET page == Leaf(View(ov)[Table(c)], c.reg)
        done(d) == Result(Retired(d), ov, "continue")
        fault == Result(Trapped(c), ov, "continue")
    IN  CASE i.k \in Packed -> done([c EXCEPT !.reg = alu(i, @)])
          [] i.k = "load"   -> IF Readable(c, page) THEN done([c EXCEPT !.reg = View(ov)[page]])
                               ELSE fault
          [] i.k = "store"  -> IF c.priv = "S"
                               THEN Result(Retired(c), Write(ov, i.page, c.reg), "continue")
                               ELSE fault
          [] i.k = "branch" -> IF c.reg = 1 THEN done([c EXCEPT !.pc = i.to - 1]) ELSE done(c)
          [] i.k = "sum"    -> IF c.priv = "S" THEN done([c EXCEPT !.sum = (c.reg = 1)]) ELSE fault
          [] i.k = "satp"   -> IF c.priv = "S" THEN done([c EXCEPT !.root = c.reg]) ELSE fault
          [] i.k = "sret"   -> IF c.priv = "S" THEN done([c EXCEPT !.priv = SPP(c), !.ie = TRUE])
                               ELSE fault
          [] i.k = "tohost" -> Result(Retired(c), ov, "halt")
          [] i.k = "done"   -> Result(Retired(c), ov, "hypercall")

step_system(c, ov) ==
    IF Due(c) THEN Result(Trapped(c), ov, "continue")
    ELSE Exec(c, ov, text[View(ov)["text"]][c.pc])
-----------------------------------------------------------------------------
(* The converged path. *)

first == CHOOSE l \in active : \A k \in active : l <= k

\* Lanes that may be fetched and translated for as one.
Converged_AnyPriv ==
    \A l \in active : lanes[l].pc = lanes[first].pc /\ lanes[l].root = lanes[first].root
Converged ==
    \A l \in active : /\ lanes[l].pc = lanes[first].pc
                      /\ lanes[l].priv = lanes[first].priv
                      /\ lanes[l].root = lanes[first].root

\* The golden image speaks for a page only while no lane, active or not, has copied it.
any_lane_overlaid(p) == \E l \in Lanes : p \in DOMAIN overlay[l]

\* The group's instruction, fetched once; the walk reads the first lane's table.
shared_fetch16 ==
    IF any_lane_overlaid(Table(lanes[first])) \/ any_lane_overlaid("text") THEN [k |-> "declined"]
    ELSE text[Golden["text"]][lanes[first].pc]

SharedPage == Leaf(Golden[Table(lanes[first])], lanes[first].reg)
try_shared_load ==
    /\ \A l \in active : lanes[l].reg = lanes[first].reg
    /\ Readable(lanes[first], SharedPage)
    /\ ~any_lane_overlaid(Table(lanes[first])) /\ ~any_lane_overlaid(SharedPage)

Fast ==
    /\ Converged
    /\ \A l \in active : ~Due(lanes[l])
    /\ shared_fetch16.k \in Packed \/ (shared_fetch16.k = "load" /\ try_shared_load)

\* One packed operation, or one golden read broadcast to the group.
Payload(l) ==
    LET value == IF shared_fetch16.k \in Packed THEN alu(shared_fetch16, lanes[l].reg)
                 ELSE Golden[SharedPage]
    IN  Result(Retired([lanes[l] EXCEPT !.reg = value]), overlay[l], "continue")

Outcome(l) == IF Fast THEN Payload(l) ELSE step_system(lanes[l], overlay[l])
-----------------------------------------------------------------------------
Edge(l, o) ==
    LET prev == lanes[l].pc  cur == o.c.pc
    IN  {e \in {<<prev, cur>>} : o.out = "continue" /\ cur \notin {prev + 1, prev + 2}}

Exhausted == {l \in active : lanes[l].retired - Template.retired >= Budget}

\* The head of run_batch's loop: lanes out of budget are masked off.
MaskBudget ==
    /\ running /\ Exhausted # {}
    /\ active' = active \ Exhausted
    /\ exit' = [l \in Lanes |-> IF l \in Exhausted THEN "budget" ELSE exit[l]]
    /\ UNCHANGED <<text, running, lanes, overlay, cov>>

\* Every active lane advances by one instruction, or takes one trap.
Step ==
    /\ running /\ Exhausted = {} /\ active # {}
    /\ lanes' = [l \in Lanes |-> IF l \in active THEN Outcome(l).c ELSE lanes[l]]
    /\ overlay' = [l \in Lanes |-> IF l \in active THEN Outcome(l).ov ELSE overlay[l]]
    /\ cov' = [l \in Lanes |-> IF l \in active THEN cov[l] \cup Edge(l, Outcome(l)) ELSE cov[l]]
    /\ active' = {l \in active : Outcome(l).out = "continue"}
    /\ exit' = [l \in Lanes |-> IF l \in active \ active' THEN Outcome(l).out ELSE exit[l]]
    /\ UNCHANGED <<text, running>>

EndBatch ==
    /\ running /\ active = {}
    /\ running' = FALSE
    /\ UNCHANGED <<text, lanes, overlay, active, exit, cov>>

\* A program injected into a lane: its words land in the lane's own copy of the page.
inject_lane(l, v) ==
    /\ ~running /\ active = Lanes
    /\ overlay' = [overlay EXCEPT ![l] = Write(@, "kernel", v)]
    /\ UNCHANGED <<text, running, lanes, active, exit, cov>>

RunBatch ==
    /\ ~running /\ active = Lanes
    /\ running' = TRUE
    /\ UNCHANGED <<text, lanes, overlay, active, exit, cov>>

ResetLanes ==
    /\ lanes' = [l \in Lanes |-> Template]
    /\ overlay' = [l \in Lanes |-> [p \in {} |-> 0]]
    /\ active' = Lanes
    /\ exit' = [l \in Lanes |-> "none"]
    /\ cov' = [l \in Lanes |-> {}]
reset_batch == ~running /\ active # Lanes /\ ResetLanes /\ UNCHANGED <<text, running>>

BatchInit ==
    /\ text \in Texts
    /\ running = FALSE
    /\ lanes = [l \in Lanes |-> Template]
    /\ overlay = [l \in Lanes |-> [p \in {} |-> 0]]
    /\ active = Lanes
    /\ exit = [l \in Lanes |-> "none"]
    /\ cov = [l \in Lanes |-> {}]

BatchNext ==
    \/ MaskBudget \/ Step \/ EndBatch \/ RunBatch \/ reset_batch
    \/ \E l \in Lanes, v \in Vals : inject_lane(l, v)

BatchSpec == BatchInit /\ [][BatchNext]_laneVars
-----------------------------------------------------------------------------
\* What the scalar machine makes of a lane, active or masked off.
Scalar(l) == IF l \in active THEN step_system(lanes[l], overlay[l])
             ELSE Result(lanes[l], overlay[l], exit[l])
SameStatus == \A l \in active : lanes[l].sum = lanes[first].sum

(***************************************************************************)
(* A step of the batch is, for every lane, exactly the step the scalar     *)
(* machine would take alone on that lane's hart and RAM: no lane sees      *)
(* another's text, page tables, data, traps or exit, although the group is *)
(* fetched and translated through one lane and read from the golden image. *)
(* The one exception is a broadcast load by lanes whose status words       *)
(* differ, which the convergence test does not compare.                    *)
(***************************************************************************)
LanesMatchScalar ==
    [][Step => \A l \in Lanes :
                  \/ Fast /\ shared_fetch16.k = "load" /\ ~SameStatus
                  \/ /\ lanes'[l] = Scalar(l).c /\ overlay'[l] = Scalar(l).ov
                     /\ l \in active => (l \in active' <=> Scalar(l).out = "continue")
                     /\ l \in active \ active' => exit'[l] = Scalar(l).out]_laneVars
=============================================================================
