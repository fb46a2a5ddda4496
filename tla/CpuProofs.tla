------------------------------ MODULE CpuProofs ------------------------------
(***************************************************************************)
(* Proofs about the two halves of Cpu in fs-riscv that Hart and Sv32 model. *)
(*                                                                          *)
(* Privilege, traps and time under run_until, for every deadline, every set *)
(* of compare values and every delegation a guest may program.  The         *)
(* software TLB and the two shortcuts around it, for tables of any size,    *)
(* any page tables and any sequence of stores to them, fences, satp writes, *)
(* accesses and snapshot resets.                                            *)
(***************************************************************************)
EXTENDS Hart, Sv32, TLAPS

-------------------------------------------------------------------------------
(* Hart: privilege, traps and the timer. *)

\* The inductive invariant: types, and MPRV only in M-mode.
HartInv == TypeOK /\ MprvOnlyInM

\* A trap (take_trap) leaves a privilege mode and a status word, and raises the privilege or
\* keeps it; a status word with MPRV set can only have come from M, which traps to M.
LEMMA TrapKeeps ==
  ASSUME HartInv, NEW deleg, NEW cause, take_trap(deleg, cause)
  PROVE  /\ priv' \in Privs
         /\ mstatus' \in MStatus
         /\ mstatus'.MPRV => priv' = "M"
         /\ atVector' \in BOOLEAN
<1> DEFINE to_s == priv # "M" /\ cause \in deleg
<1>1. CASE to_s
  <2>1. /\ priv' = "S" /\ atVector' = TRUE
        /\ mstatus' = [mstatus EXCEPT !.SPIE = mstatus.SIE, !.SIE = FALSE, !.SPP = priv]
    BY <1>1 DEF take_trap
  <2>2. priv \in {"U", "S"}
    BY <1>1 DEF HartInv, TypeOK, Privs
  <2>3. mstatus' \in MStatus
    BY <2>1, <2>2 DEF HartInv, TypeOK, MStatus
  <2>4. mstatus'.MPRV = mstatus.MPRV
    BY <2>1 DEF HartInv, TypeOK, MStatus
  <2> QED BY <1>1, <2>1, <2>3, <2>4 DEF HartInv, MprvOnlyInM, Privs
<1>2. CASE ~to_s
  <2>1. /\ priv' = "M" /\ atVector' = TRUE
        /\ mstatus' = [mstatus EXCEPT !.MPIE = mstatus.MIE, !.MIE = FALSE, !.MPP = priv]
    BY <1>2 DEF take_trap
  <2>2. mstatus' \in MStatus
    BY <2>1 DEF HartInv, TypeOK, MStatus
  <2> QED BY <2>1, <2>2 DEF Privs
<1> QED BY <1>1, <1>2

\* mret and sret (ReturnTo): the mode returned to decides whether MPRV survives.
LEMMA ReturnKeeps ==
  ASSUME NEW new \in Privs, NEW s \in MStatus, ReturnTo(new, s)
  PROVE  /\ priv' \in Privs
         /\ mstatus' \in MStatus
         /\ mstatus'.MPRV => priv' = "M"
<1>1. priv' = new /\ mstatus' = [s EXCEPT !.MPRV = s.MPRV /\ new = "M"]
  BY DEF ReturnTo
<1>2. (s.MPRV /\ new = "M") \in BOOLEAN
  OBVIOUS
<1>3. mstatus' \in MStatus
  BY <1>1, <1>2 DEF MStatus
<1>4. mstatus'.MPRV = (s.MPRV /\ new = "M")
  BY <1>1 DEF MStatus
<1> QED BY <1>1, <1>3, <1>4

\* The loop's head (Iterate) refreshes the hart's compare register from the CLINT.
LEMMA SyncKeeps ==
  ASSUME HartInv, Iterate
  PROVE  mtimecmp' \in 0 .. Never
BY DEF HartInv, TypeOK, Iterate

\* A step that retires an instruction stays within run_until's bound.
LEMMA RetireKeeps ==
  ASSUME HartInv, Iterate, retired' = retired + 1
  PROVE  retired' \in 0 .. Deadline
BY HartConstants DEF HartInv, TypeOK, Iterate

\* A hart out of reset (Csr::default): all types, and MPRV clear.
LEMMA HartInit == Init => HartInv
<1> SUFFICES ASSUME Init PROVE HartInv
  OBVIOUS
<1>1. mstatus \in MStatus /\ mstatus.MPRV = FALSE /\ priv \in Privs
  BY DEF Init, MStatus, Privs
<1>2. clint \in [msip : BOOLEAN, mtimecmp : 0 .. Never]
  BY HartConstants DEF Init
<1>3. mie \subseteq Lines /\ soft \subseteq {1, 9}
  BY DEF Init
<1>4. mideleg \in Midelegs \cup {{}} /\ medeleg \in Medelegs \cup {{}}
  BY DEF Init
<1>5. /\ stimecmp \in 0 .. Never /\ mtimecmp \in 0 .. Never
      /\ retired \in 0 .. Deadline
  BY HartConstants DEF Init
<1>6. atVector \in BOOLEAN /\ doubled \in BOOLEAN /\ stop \in {"run", "halt", "hypercall", "budget"}
  BY DEF Init
<1> QED BY <1>1, <1>2, <1>3, <1>4, <1>5, <1>6 DEF HartInv, TypeOK, MprvOnlyInM

\* The parts of the type invariant other than privilege and status.
Rest ==
  /\ mie \subseteq Lines /\ soft \subseteq {1, 9}
  /\ mideleg \in Midelegs \cup {{}} /\ medeleg \in Medelegs \cup {{}}
  /\ stimecmp \in 0 .. Never /\ mtimecmp \in 0 .. Never
  /\ clint \in [msip : BOOLEAN, mtimecmp : 0 .. Never]
  /\ retired \in 0 .. Deadline
  /\ doubled \in BOOLEAN
  /\ stop \in {"run", "halt", "hypercall", "budget"}

\* The invariant of the next state, from its parts.
LEMMA HartAssemble ==
  ASSUME Rest', priv' \in Privs, mstatus' \in MStatus, mstatus'.MPRV => priv' = "M",
         atVector' \in BOOLEAN
  PROVE  HartInv'
BY DEF Rest, HartInv, TypeOK, MprvOnlyInM

\* Every step of run_until's loop preserves the invariant.
LEMMA HartStep == HartInv /\ [Next]_vars => HartInv'
<1> SUFFICES ASSUME HartInv, [Next]_vars PROVE HartInv'
  OBVIOUS
<1>0. Rest /\ priv \in Privs /\ mstatus \in MStatus /\ (mstatus.MPRV => priv = "M")
      /\ atVector \in BOOLEAN
  BY DEF HartInv, TypeOK, MprvOnlyInM, Rest
<1> DEFINE quiet == UNCHANGED <<mie, soft, mideleg, medeleg, stimecmp>>
<1>1. CASE TakeInterrupt
  <2>1. Iterate /\ take_trap(mideleg, Pending) /\ quiet /\ UNCHANGED <<doubled, clint, retired, stop>>
    BY <1>1 DEF TakeInterrupt, csrVars
  <2>2. Rest'
    BY <1>0, <2>1, SyncKeeps DEF Rest
  <2> QED BY <2>1, <2>2, TrapKeeps, HartAssemble
<1>2. ASSUME NEW c \in Faults, Fault(c) PROVE HartInv'
  <2>1. /\ Iterate /\ take_trap(medeleg, c) /\ quiet /\ UNCHANGED <<clint, retired, stop>>
        /\ doubled' = (doubled \/ atVector)
    BY <1>2 DEF Fault, Execute, csrVars
  <2>2. doubled' \in BOOLEAN
    BY <2>1
  <2>3. Rest'
    BY <1>0, <2>1, <2>2, SyncKeeps DEF Rest
  <2> QED BY <2>1, <2>3, TrapKeeps, HartAssemble
<1>3. CASE Plain
  <2>1. Iterate /\ Retire /\ quiet /\ UNCHANGED <<priv, mstatus, doubled, clint, stop>>
    BY <1>3 DEF Plain, Execute, csrVars
  <2>2. Rest' /\ atVector' \in BOOLEAN
    BY <1>0, <2>1, SyncKeeps, RetireKeeps DEF Rest, Retire
  <2> QED BY <1>0, <2>1, <2>2, HartAssemble
<1>4. CASE Ecall
  <2>1. /\ Iterate /\ take_trap(medeleg, E_ECALL[priv]) /\ retired' = retired + 1
        /\ quiet /\ UNCHANGED <<doubled, clint, stop>>
    BY <1>4 DEF Ecall, Execute, csrVars
  <2>2. Rest'
    BY <1>0, <2>1, SyncKeeps, RetireKeeps DEF Rest
  <2> QED BY <2>1, <2>2, TrapKeeps, HartAssemble
<1>5. ASSUME NEW how \in {"halt", "hypercall"}, Leave(how) PROVE HartInv'
  <2>1. /\ Iterate /\ Retire /\ quiet /\ UNCHANGED <<priv, mstatus, doubled, clint>>
        /\ stop' = how
    BY <1>5 DEF Leave, Execute, csrVars
  <2>2. Rest' /\ atVector' \in BOOLEAN
    BY <1>0, <2>1, SyncKeeps, RetireKeeps DEF Rest, Retire
  <2> QED BY <1>0, <2>1, <2>2, HartAssemble
<1>6. CASE Mret
  <2> DEFINE s == [mstatus EXCEPT !.MIE = mstatus.MPIE, !.MPIE = TRUE, !.MPP = "U"]
  <2>1. /\ Iterate /\ Retire /\ quiet /\ UNCHANGED <<doubled, clint, stop>>
        /\ ReturnTo(mstatus.MPP, s)
    BY <1>6 DEF Mret, Execute, csrVars
  <2>2. s \in MStatus /\ mstatus.MPP \in Privs
    BY <1>0 DEF MStatus, Privs
  <2>3. Rest' /\ atVector' \in BOOLEAN
    BY <1>0, <2>1, SyncKeeps, RetireKeeps DEF Rest, Retire
  <2> HIDE DEF s
  <2> QED BY <2>1, <2>2, <2>3, ReturnKeeps, HartAssemble
<1>7. CASE Sret
  <2> DEFINE s == [mstatus EXCEPT !.SIE = mstatus.SPIE, !.SPIE = TRUE, !.SPP = "U"]
  <2>1. /\ Iterate /\ Retire /\ quiet /\ UNCHANGED <<doubled, clint, stop>>
        /\ ReturnTo(mstatus.SPP, s)
    BY <1>7 DEF Sret, Execute, csrVars
  <2>2. s \in MStatus /\ mstatus.SPP \in Privs
    BY <1>0 DEF MStatus, Privs
  <2>3. Rest' /\ atVector' \in BOOLEAN
    BY <1>0, <2>1, SyncKeeps, RetireKeeps DEF Rest, Retire
  <2> HIDE DEF s
  <2> QED BY <2>1, <2>2, <2>3, ReturnKeeps, HartAssemble
<1>8. CASE WriteStatus
  <2>1. Iterate /\ Retire /\ quiet /\ UNCHANGED <<priv, doubled, clint, stop>>
    BY <1>8 DEF WriteStatus, Execute, csrVars
  <2>2. Rest' /\ atVector' \in BOOLEAN
    BY <1>0, <2>1, SyncKeeps, RetireKeeps DEF Rest, Retire
  <2>3. mstatus' \in MStatus /\ (mstatus'.MPRV => priv' = "M")
    <3>1. ASSUME priv = "M", NEW b \in {"MIE", "MPIE", "MPRV"}, mstatus' = [mstatus EXCEPT ![b] = ~mstatus[b]]
          PROVE  mstatus' \in MStatus
      BY <1>0, <3>1 DEF MStatus
    <3>2. ASSUME NEW p \in Privs, mstatus' = [mstatus EXCEPT !.MPP = p]
          PROVE  mstatus' \in MStatus /\ mstatus'.MPRV = mstatus.MPRV
      BY <1>0, <3>2 DEF MStatus
    <3>3. ASSUME NEW b \in {"SIE", "SPIE"}, mstatus' = [mstatus EXCEPT ![b] = ~mstatus[b]]
          PROVE  mstatus' \in MStatus /\ mstatus'.MPRV = mstatus.MPRV
      BY <1>0, <3>3 DEF MStatus
    <3>4. ASSUME NEW p \in {"U", "S"}, mstatus' = [mstatus EXCEPT !.SPP = p]
          PROVE  mstatus' \in MStatus /\ mstatus'.MPRV = mstatus.MPRV
      BY <1>0, <3>4 DEF MStatus
    <3> QED BY <1>0, <1>8, <2>1, <3>1, <3>2, <3>3, <3>4 DEF WriteStatus
  <2> QED BY <1>0, <2>1, <2>2, <2>3, HartAssemble
<1>9. CASE WriteCsr
  <2>1. Iterate /\ Retire /\ UNCHANGED <<priv, mstatus, doubled, clint, stop>>
    BY <1>9 DEF WriteCsr, Execute
  <2>2. /\ mie' \subseteq Lines /\ soft' \subseteq {1, 9}
        /\ mideleg' \in Midelegs \cup {{}} /\ medeleg' \in Medelegs \cup {{}}
        /\ stimecmp' \in 0 .. Never
    BY <1>0, <1>9, HartConstants DEF WriteCsr, Toggled, Rest
  <2>3. Rest' /\ atVector' \in BOOLEAN
    BY <1>0, <2>1, <2>2, SyncKeeps, RetireKeeps DEF Rest, Retire
  <2> QED BY <1>0, <2>1, <2>3, HartAssemble
<1>10. CASE StoreClint
  <2>1. Iterate /\ Retire /\ quiet /\ UNCHANGED <<priv, mstatus, doubled, stop>>
    BY <1>10 DEF StoreClint, Execute, csrVars
  <2>2. clint' \in [msip : BOOLEAN, mtimecmp : 0 .. Never]
    <3>1. CASE clint' = [clint EXCEPT !.msip = ~clint.msip]
      BY <1>0, <3>1 DEF Rest
    <3>2. ASSUME NEW c \in Compares, clint' = [clint EXCEPT !.mtimecmp = c]
          PROVE  clint' \in [msip : BOOLEAN, mtimecmp : 0 .. Never]
      BY <1>0, <3>2, HartConstants DEF Rest
    <3> QED BY <1>10, <3>1, <3>2 DEF StoreClint
  <2>3. Rest' /\ atVector' \in BOOLEAN
    BY <1>0, <2>1, <2>2, SyncKeeps, RetireKeeps DEF Rest, Retire
  <2> QED BY <1>0, <2>1, <2>3, HartAssemble
<1>11. CASE OutOfBudget
  BY <1>0, <1>11, HartAssemble DEF OutOfBudget, csrVars, Rest
<1>12. CASE UNCHANGED vars
  BY <1>0, <1>12, HartAssemble DEF vars, Rest
<1> QED BY <1>1, <1>2, <1>3, <1>4, <1>5, <1>6, <1>7, <1>8, <1>9, <1>10, <1>11, <1>12 DEF Next

\* The hart keeps its types for every deadline, compare value and delegation (run_until).
THEOREM HartTypeCorrect == Spec => []TypeOK
<1>1. HartInv => TypeOK
  BY DEF HartInv
<1> QED BY <1>1, HartInit, HartStep, PTL DEF Spec

\* However traps, interrupts, mret and sret nest, MPRV is never set outside M-mode, so
\* effective_priv never lends S or U code the privilege an earlier trap left in MPP.
THEOREM HartMprvOnlyInM == Spec => []MprvOnlyInM
<1>1. HartInv => MprvOnlyInM
  BY DEF HartInv
<1> QED BY <1>1, HartInit, HartStep, PTL DEF Spec

\* Machine software interrupts are handled in M-mode, as the privileged architecture has it
\* (Csr::write accepts any delegation).
SoftwareInM == \A d \in Midelegs : 3 \notin d

\* With the machine timer deliverable, the interrupt taken is the timer or the machine
\* software interrupt: none of those before them in pending_interrupt's order can be enabled.
LEMMA MachineFirst ==
  ASSUME HartInv, SoftwareInM, retired >= clint.mtimecmp, 7 \in mie \ mideleg,
         priv # "M" \/ mstatus.MIE
  PROVE  Interrupts # {} /\ Pending \in {3, 7} /\ Pending \notin mideleg
<1>1. 7 \in Interrupts
  BY DEF Interrupts, Enabled, mip, Timecmp, Priority, Lines
<1>2. Interrupts \subseteq {1, 3, 5, 7, 9}
  BY DEF Interrupts, Enabled, mip, HartInv, TypeOK
<1>3. 3 \notin mideleg
  BY DEF HartInv, TypeOK, SoftwareInM
<1>4. /\ Priority[1] = 5 /\ Priority[3] = 2 /\ Priority[5] = 6 /\ Priority[7] = 3
      /\ Priority[9] = 4
  BY DEF Priority, Lines
<1>5. \E i \in Interrupts : \A j \in Interrupts : Priority[i] <= Priority[j]
  <2>1. CASE 3 \in Interrupts
    <3>1. \A j \in Interrupts : Priority[3] <= Priority[j]
      BY <1>2, <1>4
    <3> QED BY <2>1, <3>1
  <2>2. CASE 3 \notin Interrupts
    <3>1. \A j \in Interrupts : Priority[7] <= Priority[j]
      BY <1>2, <1>4, <2>2
    <3> QED BY <1>1, <3>1
  <2> QED BY <2>1, <2>2
<1>6. Pending \in Interrupts /\ \A j \in Interrupts : Priority[Pending] <= Priority[j]
  <2> DEFINE best(i) == \A j \in Interrupts : Priority[i] <= Priority[j]
  <2>1. Pending = CHOOSE i \in Interrupts : best(i)
    BY DEF Pending
  <2>2. \E i \in Interrupts : best(i)
    BY <1>5
  <2> HIDE DEF best
  <2>3. Pending \in Interrupts /\ best(Pending)
    BY <2>1, <2>2
  <2> QED BY <2>3 DEF best
<1>7. Pending \in {3, 7}
  BY <1>1, <1>2, <1>4, <1>6
<1> QED BY <1>1, <1>3, <1>7

\* The machine timer is a strict function of retired instructions (doc of run): from the
\* instruction its compare value is reached at, nothing retires before M-mode is entered.
THEOREM HartTimerExact ==
  ASSUME SoftwareInM
  PROVE  Spec => TimerExact
<1> DEFINE due == /\ stop = "run" /\ retired < Deadline
                  /\ retired >= clint.mtimecmp /\ 7 \in mie \ mideleg
                  /\ priv # "M" \/ mstatus.MIE
           taken == retired' = retired /\ priv' = "M" /\ ~mstatus'.MIE
<1>1. HartInv /\ [Next]_vars => [due => taken]_vars
  <2> SUFFICES ASSUME HartInv, Next, due PROVE taken
    OBVIOUS
  <2>1. Interrupts # {} /\ Pending \in {3, 7} /\ Pending \notin mideleg
    BY MachineFirst
  <2>2. TakeInterrupt
    <3>1. ~Execute
      BY <2>1 DEF Execute
    <3>2. ~OutOfBudget
      BY HartConstants DEF OutOfBudget, HartInv, TypeOK
    <3>3. /\ ~Plain /\ ~Ecall /\ ~Mret /\ ~Sret /\ ~WriteStatus /\ ~WriteCsr /\ ~StoreClint
          /\ \A c \in Faults : ~Fault(c)
          /\ \A how \in {"halt", "hypercall"} : ~Leave(how)
      BY <3>1 DEF Fault, Plain, Ecall, Leave, Mret, Sret, WriteStatus, WriteCsr, StoreClint
    <3> QED BY <3>2, <3>3 DEF Next
  <2>3. /\ retired' = retired /\ priv' = "M"
        /\ mstatus' = [mstatus EXCEPT !.MPIE = mstatus.MIE, !.MIE = FALSE, !.MPP = priv]
    BY <2>1, <2>2 DEF TakeInterrupt, take_trap
  <2>4. ~mstatus'.MIE
    BY <2>3 DEF HartInv, TypeOK, MStatus
  <2> QED BY <2>3, <2>4
<1>2. TimerExact <=> [][due => taken]_vars
  BY DEF TimerExact
<1> QED BY <1>1, <1>2, HartInit, HartStep, PTL DEF Spec

-------------------------------------------------------------------------------
(* Sv32: the TLB and the shortcuts. *)

Mem == [Entries -> PteType]
TlbEntry == [vpn : Nat, ppn : Nat, perms : SUBSET Perms, d : BOOLEAN]
Tlb == [0 .. TLB_SIZE - 1 -> TlbEntry \cup {Empty}]

\* The part of the state a snapshot holds.
StateOK(mem, root, t, stored) ==
  /\ mem \in Mem
  /\ root \in Tables \cup {Bare}
  /\ t \in Tlb
  /\ Coherent(mem, root, t, stored)

\* The golden image is the lane's memory but for the pages marked overlaid.
GoldenAgrees == \A e \in Entries : e[1] \notin overlaid => pt[e] = snap.pt[e]

\* Reset brings back a whole hart, so what holds of the hart must hold of the snapshot.
Sv32Inv ==
  /\ StateOK(pt, satp, tlb, edited)
  /\ snap # NoSnap => /\ StateOK(snap.pt, snap.satp, snap.tlb, snap.edited)
                      /\ GoldenAgrees
-------------------------------------------------------------------------------
\* The indices of a virtual page number are in range.
LEMMA Indices ==
  ASSUME NEW vpn \in Vpns
  PROVE  /\ hi(vpn) \in 0 .. Fanout - 1
         /\ lo(vpn) \in 0 .. Fanout - 1
         /\ slot(vpn) \in 0 .. TLB_SIZE - 1
         /\ vpn \in Nat
<1>1. Fanout \in Nat /\ Fanout > 0
  BY Sv32Constants
<1>2. vpn \in Nat /\ vpn < Fanout * Fanout
  BY <1>1 DEF Vpns
<1>3. vpn % Fanout \in 0 .. Fanout - 1
  BY <1>1, <1>2
<1>4. vpn \div Fanout \in 0 .. Fanout - 1
  <2>1. vpn \div Fanout \in Nat /\ Fanout * (vpn \div Fanout) <= vpn
    BY <1>1, <1>2
  <2>2. ASSUME vpn \div Fanout >= Fanout PROVE FALSE
    BY <1>1, <1>2, <2>1, <2>2
  <2> QED BY <1>1, <2>1, <2>2
<1>5. vpn % TLB_SIZE \in 0 .. TLB_SIZE - 1
  <2>1. TLB_SIZE \in Nat /\ TLB_SIZE > 0
    BY Sv32Constants
  <2> QED BY <1>2, <2>1
<1> QED BY <1>2, <1>3, <1>4, <1>5 DEF hi, lo, slot

\* What a walk that succeeds reads, and that the entry it ends at is one of a table.
LEMMA LeafFacts ==
  ASSUME NEW mem \in Mem, NEW root \in Tables, NEW vpn \in Vpns, Leaf(mem, root, vpn).ok
  PROVE  /\ Leaf(mem, root, vpn).at \in Path(mem, root, vpn)
         /\ Leaf(mem, root, vpn).at \in Entries
         /\ Leaf(mem, root, vpn).ppn \in Nat
<1> DEFINE top == <<root, hi(vpn)>>
           low == <<mem[top].ppn, lo(vpn)>>
<1>1. top \in Entries /\ mem[top] \in PteType
  BY Indices DEF Entries, Mem
<1>2. lo(vpn) \in Nat
  BY Indices, Sv32Constants
<1> QED BY <1>1, <1>2 DEF Leaf, Path, NoLeaf, Mem, PteType

\* A walk depends on nothing but the entries it reads.
LEMMA SamePath ==
  ASSUME NEW mem \in Mem, NEW new \in Mem, NEW root \in Tables, NEW vpn \in Vpns,
         \A e \in Path(new, root, vpn) : new[e] = mem[e]
  PROVE  /\ Leaf(new, root, vpn) = Leaf(mem, root, vpn)
         /\ Path(new, root, vpn) = Path(mem, root, vpn)
<1> DEFINE top == <<root, hi(vpn)>>
           low == <<mem[top].ppn, lo(vpn)>>
<1>1. top \in Entries
  BY Indices DEF Entries
<1>2. new[top] = mem[top]
  BY DEF Path
<1>3. CASE Usable(mem[top]) /\ ~IsLeaf(mem[top]) /\ low \in Entries
  <2>1. new[low] = mem[low]
    BY <1>2, <1>3 DEF Path
  <2> QED BY <1>2, <1>3, <2>1 DEF Leaf, Path
<1>4. CASE ~Usable(mem[top])
  <2>1. Leaf(new, root, vpn) = Leaf(mem, root, vpn)
    BY <1>2, <1>4 DEF Leaf
  <2>2. Path(new, root, vpn) = {top} /\ Path(mem, root, vpn) = {top}
    BY <1>2, <1>4 DEF Path
  <2> QED BY <2>1, <2>2
<1>5. CASE Usable(mem[top]) /\ IsLeaf(mem[top])
  <2>1. Leaf(new, root, vpn) = Leaf(mem, root, vpn)
    BY <1>2, <1>5 DEF Leaf
  <2>2. Path(new, root, vpn) = {top} /\ Path(mem, root, vpn) = {top}
    BY <1>2, <1>5 DEF Path
  <2> QED BY <2>1, <2>2
<1>6. CASE Usable(mem[top]) /\ ~IsLeaf(mem[top]) /\ low \notin Entries
  BY <1>2, <1>6 DEF Leaf, Path
<1> QED BY <1>3, <1>4, <1>5, <1>6

\* The accessed and dirty bits do not change where a walk leads.
LEMMA SameWalk ==
  ASSUME NEW mem \in Mem, NEW new \in Mem, NEW root \in Tables, NEW vpn \in Vpns,
         \A e \in Entries : /\ new[e].v = mem[e].v
                            /\ new[e].perms = mem[e].perms
                            /\ new[e].ppn = mem[e].ppn
  PROVE  /\ Leaf(new, root, vpn) = Leaf(mem, root, vpn)
         /\ Path(new, root, vpn) = Path(mem, root, vpn)
<1> DEFINE top == <<root, hi(vpn)>>
           low == <<mem[top].ppn, lo(vpn)>>
<1>1. top \in Entries
  BY Indices DEF Entries
<1>2. /\ Usable(new[top]) <=> Usable(mem[top])
      /\ IsLeaf(new[top]) <=> IsLeaf(mem[top])
      /\ new[top].ppn = mem[top].ppn
  BY <1>1 DEF Usable, IsLeaf
<1>3. low \in Entries => /\ Usable(new[low]) <=> Usable(mem[low])
                         /\ IsLeaf(new[low]) <=> IsLeaf(mem[low])
                         /\ new[low].ppn = mem[low].ppn
  BY DEF Usable, IsLeaf
<1>4. CASE ~Usable(mem[top])
  <2>1. Leaf(new, root, vpn) = Leaf(mem, root, vpn)
    BY <1>2, <1>4 DEF Leaf
  <2>2. Path(new, root, vpn) = {top} /\ Path(mem, root, vpn) = {top}
    BY <1>2, <1>4 DEF Path
  <2> QED BY <2>1, <2>2
<1>5. CASE Usable(mem[top]) /\ IsLeaf(mem[top])
  <2>1. Leaf(new, root, vpn) = Leaf(mem, root, vpn)
    BY <1>2, <1>5 DEF Leaf
  <2>2. Path(new, root, vpn) = {top} /\ Path(mem, root, vpn) = {top}
    BY <1>2, <1>5 DEF Path
  <2> QED BY <2>1, <2>2
<1>6. CASE Usable(mem[top]) /\ ~IsLeaf(mem[top]) /\ low \notin Entries
  BY <1>2, <1>6 DEF Leaf, Path
<1>7. CASE Usable(mem[top]) /\ ~IsLeaf(mem[top]) /\ low \in Entries
  BY <1>2, <1>3, <1>7 DEF Leaf, Path
<1> QED BY <1>4, <1>5, <1>6, <1>7
-------------------------------------------------------------------------------
\* A flushed TLB holds nothing.
LEMMA FlushedCoherent ==
  ASSUME NEW mem, NEW root, NEW stored
  PROVE  FlushedTlb \in Tlb /\ Coherent(mem, root, FlushedTlb, stored)
BY Indices DEF FlushedTlb, Tlb, Coherent

LEMMA InitSv32Inv == XlateInit => Sv32Inv
<1> SUFFICES ASSUME XlateInit PROVE Sv32Inv
  OBVIOUS
<1>1. pt \in Mem
  BY Sv32Constants DEF XlateInit, Mem, Entries
<1>2. FlushedTlb \in Tlb /\ Coherent(pt, satp, FlushedTlb, edited)
  BY FlushedCoherent
<1> QED BY <1>1, <1>2 DEF XlateInit, Sv32Inv, StateOK

\* The guest's store to an entry, fenced or not: whatever page is still owed no fence reads
\* the same entries as before.
LEMMA EditCoherent ==
  ASSUME NEW mem \in Mem, NEW root \in Tables \cup {Bare}, NEW t, NEW stored,
         NEW e \in Entries, NEW pte \in PteType, Coherent(mem, root, t, stored)
  PROVE  Coherent([mem EXCEPT ![e] = pte], root, t, stored \cup {e})
<1> DEFINE new == [mem EXCEPT ![e] = pte]
<1>1. new \in Mem
  BY DEF Mem
<1>2. SUFFICES ASSUME root # Bare, NEW vpn \in Vpns,
                      t[slot(vpn)] # Empty, t[slot(vpn)].vpn = vpn,
                      Path(new, root, vpn) \cap (stored \cup {e}) = {}
               PROVE  Agrees(new, root, vpn, t[slot(vpn)])
  BY DEF Coherent
<1> HIDE DEF new
<1>3. root \in Tables
  BY <1>2
<1>4. \A x \in Path(new, root, vpn) : new[x] = mem[x]
  <2>1. Path(new, root, vpn) \subseteq Entries
    BY <1>3, Indices DEF Path, Entries
  <2> QED BY <1>2, <2>1 DEF Mem, new
<1>5. /\ Leaf(new, root, vpn) = Leaf(mem, root, vpn)
      /\ Path(new, root, vpn) = Path(mem, root, vpn)
  BY <1>1, <1>3, <1>4, SamePath
<1>6. Agrees(mem, root, vpn, t[slot(vpn)])
  BY <1>2, <1>5 DEF Coherent
<1>7. Leaf(mem, root, vpn).at \in Path(new, root, vpn)
  BY <1>3, <1>5, <1>6, LeafFacts DEF Agrees
<1> QED BY <1>4, <1>5, <1>6, <1>7 DEF Agrees

\* The walk's own writes: setting A and D sends no walk elsewhere, and the slot it fills
\* holds what it found.
LEMMA WalkCoherent ==
  ASSUME NEW mem \in Mem, NEW root \in Tables, NEW t \in Tlb, NEW stored,
         Coherent(mem, root, t, stored),
         NEW vpn \in Vpns, NEW acc, Leaf(mem, root, vpn).ok,
         NEW new \in Mem,
         \A e \in Entries : /\ new[e].v = mem[e].v
                            /\ new[e].perms = mem[e].perms
                            /\ new[e].ppn = mem[e].ppn
                            /\ mem[e].a => new[e].a
                            /\ mem[e].d => new[e].d,
         new[Leaf(mem, root, vpn).at].a,
         acc = "W" => new[Leaf(mem, root, vpn).at].d,
         NEW e0, e0 = Refill(vpn, Leaf(mem, root, vpn).ppn, mem[Leaf(mem, root, vpn).at], acc)
  PROVE  /\ [t EXCEPT ![slot(vpn)] = e0] \in Tlb
         /\ Coherent(new, root, [t EXCEPT ![slot(vpn)] = e0], stored)
<1> DEFINE l == Leaf(mem, root, vpn)
           u == [t EXCEPT ![slot(vpn)] = e0]
<1>1. l.at \in Entries /\ l.ppn \in Nat
  BY LeafFacts
<1>2. /\ e0.vpn = vpn /\ e0.ppn = l.ppn /\ e0.perms = mem[l.at].perms
      /\ e0.d <=> (acc = "W" \/ mem[l.at].d)
  BY DEF Refill
<1>3. e0 \in TlbEntry
  BY <1>1, Indices DEF TlbEntry, Refill, Mem, PteType
<1>4. u \in Tlb
  BY <1>3, Indices DEF Tlb
<1>5. ASSUME root # Bare, NEW v \in Vpns, u[slot(v)] # Empty, u[slot(v)].vpn = v,
             Path(new, root, v) \cap stored = {}
      PROVE  Agrees(new, root, v, u[slot(v)])
  <2>1. Leaf(new, root, v) = Leaf(mem, root, v) /\ Path(new, root, v) = Path(mem, root, v)
    BY SameWalk
  <2>2. CASE slot(v) = slot(vpn)
    <3>1. u[slot(v)] = e0
      BY <2>2, Indices DEF Tlb
    <3>2. v = vpn
      BY <1>2, <1>5, <3>1
    <3> QED BY <1>1, <1>2, <2>1, <3>1, <3>2 DEF Agrees
  <2>3. CASE slot(v) # slot(vpn)
    <3>1. u[slot(v)] = t[slot(v)]
      BY <2>3, Indices DEF Tlb
    <3>2. Agrees(mem, root, v, t[slot(v)])
      BY <1>5, <2>1, <3>1 DEF Coherent
    <3>3. Leaf(mem, root, v).at \in Entries
      BY <3>2, LeafFacts DEF Agrees
    <3> QED BY <2>1, <3>1, <3>2, <3>3 DEF Agrees
  <2> QED BY <2>2, <2>3
<1>6. Coherent(new, root, u, stored)
  BY <1>5 DEF Coherent
<1> QED BY <1>4, <1>6
-------------------------------------------------------------------------------
\* The entry after a walk: A set, D as well for a store.
AfterWalk(mem, at, acc) ==
  IF ~mem[at].a \/ (acc = "W" /\ ~mem[at].d)
    THEN [mem EXCEPT ![at].a = TRUE, ![at].d = @ \/ acc = "W"] ELSE mem

LEMMA WalkWrites ==
  ASSUME NEW mem \in Mem, NEW at \in Entries, NEW acc, NEW new, new = AfterWalk(mem, at, acc)
  PROVE  /\ new \in Mem
         /\ \A e \in Entries : /\ new[e].v = mem[e].v
                               /\ new[e].perms = mem[e].perms
                               /\ new[e].ppn = mem[e].ppn
                               /\ mem[e].a => new[e].a
                               /\ mem[e].d => new[e].d
                               /\ e # at => new[e] = mem[e]
         /\ new[at].a
         /\ acc = "W" => new[at].d
BY DEF Mem, PteType, AfterWalk

LEMMA XlateKeeps ==
  ASSUME Sv32Inv, NEW vpn \in Vpns, NEW acc \in Accesses, NEW m \in Modes, Xlate(vpn, acc, m)
  PROVE  Sv32Inv'
<1> DEFINE l == Leaf(pt, satp, vpn)
<1>1. satp \in Tables /\ l.ok /\ pt \in Mem /\ tlb \in Tlb
  BY DEF Xlate, Translated, WalkOk, Sv32Inv, StateOK
<1>2. l.at \in Entries
  BY <1>1, LeafFacts
<1>3. pt' = AfterWalk(pt, l.at, acc)
  BY DEF Xlate, Walk, AfterWalk
<1>4. /\ pt' \in Mem
      /\ \A e \in Entries : /\ pt'[e].v = pt[e].v
                            /\ pt'[e].perms = pt[e].perms
                            /\ pt'[e].ppn = pt[e].ppn
                            /\ pt[e].a => pt'[e].a
                            /\ pt[e].d => pt'[e].d
                            /\ e # l.at => pt'[e] = pt[e]
      /\ pt'[l.at].a
      /\ acc = "W" => pt'[l.at].d
  BY <1>1, <1>2, <1>3, WalkWrites
<1>5. tlb' = [tlb EXCEPT ![slot(vpn)] = Refill(vpn, l.ppn, pt[l.at], acc)]
  BY DEF Xlate, Walk
<1>6. Coherent(pt, satp, tlb, edited)
  BY DEF Sv32Inv, StateOK
<1>7. tlb' \in Tlb /\ Coherent(pt', satp, tlb', edited)
  <2> HIDE DEF l
  <2> DEFINE e0 == Refill(vpn, l.ppn, pt[l.at], acc)
  <2> QED BY <1>1, <1>4, <1>5, <1>6, WalkCoherent DEF l
<1>8. StateOK(pt, satp, tlb, edited)'
  BY <1>1, <1>4, <1>7 DEF StateOK, Xlate
<1>9. snap # NoSnap => GoldenAgrees'
  <2> SUFFICES ASSUME snap # NoSnap, NEW e \in Entries, e[1] \notin overlaid'
               PROVE  pt'[e] = snap'.pt[e]
    BY DEF GoldenAgrees
  <2>1. e[1] \notin overlaid /\ snap' = snap
    BY DEF Xlate, Walk
  <2>2. pt[e] = snap.pt[e]
    BY <2>1 DEF Sv32Inv, GoldenAgrees
  <2>3. CASE e # l.at
    BY <1>4, <2>1, <2>2, <2>3
  <2>4. CASE e = l.at
    <3>1. pt' = pt
      BY <1>3, <2>4 DEF Xlate, Walk, AfterWalk
    <3> QED BY <2>1, <2>2, <3>1
  <2> QED BY <2>3, <2>4
<1> QED BY <1>8, <1>9 DEF Sv32Inv, Xlate

LEMMA EditKeeps ==
  ASSUME Sv32Inv, NEW e \in Entries, NEW pte \in Ptes, EditPte(e, pte)
  PROVE  Sv32Inv'
<1>1. pte \in PteType
  BY Sv32Constants
<1>2. /\ pt \in Mem /\ satp \in Tables \cup {Bare} /\ tlb \in Tlb
      /\ Coherent(pt, satp, tlb, edited)
  BY DEF Sv32Inv, StateOK
<1>3. /\ pt' = [pt EXCEPT ![e] = pte] /\ edited' = edited \cup {e}
      /\ overlaid' = overlaid \cup {e[1]}
      /\ UNCHANGED <<satp, tlb, snap>>
  BY DEF EditPte
<1>4. Coherent(pt', satp, tlb, edited')
  BY <1>1, <1>2, <1>3, EditCoherent
<1>5. pt' \in Mem
  BY <1>1, <1>2, <1>3 DEF Mem
<1>6. StateOK(pt, satp, tlb, edited)'
  BY <1>2, <1>3, <1>4, <1>5 DEF StateOK
<1>7. snap # NoSnap => GoldenAgrees'
  BY <1>2, <1>3 DEF Sv32Inv, GoldenAgrees, Mem
<1> QED BY <1>3, <1>6, <1>7 DEF Sv32Inv

LEMMA NextSv32Inv == Sv32Inv /\ [XlateNext]_xlateVars => Sv32Inv'
<1> SUFFICES ASSUME Sv32Inv, [XlateNext]_xlateVars PROVE Sv32Inv'
  OBVIOUS
<1>1. ASSUME NEW t \in Tables \cup {Bare}, SetSatp(t) PROVE Sv32Inv'
  <2>1. FlushedTlb \in Tlb /\ Coherent(pt, t, FlushedTlb, edited')
    BY FlushedCoherent
  <2> QED BY <1>1, <2>1 DEF SetSatp, Sv32Inv, StateOK, GoldenAgrees
<1>2. CASE SfenceVma
  <2>1. FlushedTlb \in Tlb /\ Coherent(pt, satp, FlushedTlb, edited')
    BY FlushedCoherent
  <2> QED BY <1>2, <2>1 DEF SfenceVma, Sv32Inv, StateOK, GoldenAgrees
<1>3. CASE Capture
  BY <1>3 DEF Capture, Sv32Inv, StateOK, GoldenAgrees
<1>4. CASE Reset
  BY <1>4 DEF Reset, Sv32Inv, StateOK, GoldenAgrees
<1>5. CASE UNCHANGED xlateVars
  BY <1>5 DEF xlateVars, Sv32Inv, StateOK, GoldenAgrees
<1> QED BY <1>1, <1>2, <1>3, <1>4, <1>5, XlateKeeps, EditKeeps DEF XlateNext

LEMMA AlwaysSv32Inv == XlateSpec => []Sv32Inv
BY InitSv32Inv, NextSv32Inv, PTL DEF XlateSpec

\* "A stale entry can never be architecturally observed" (doc of Tlb): a TLB entry for a page
\* the guest owes no fence for says what the page tables say now, in every reachable state.
THEOREM Sv32TlbCoherent == XlateSpec => []TlbCoherent
<1>1. Sv32Inv => TlbCoherent
  BY DEF Sv32Inv, StateOK, TlbCoherent
<1> QED BY <1>1, AlwaysSv32Inv, PTL

\* fast_pa answers only what xlate would answer without walking ("provably identical to what
\* a real, fresh xlate call would compute", doc of fast_pa).
THEOREM Sv32FastPaSound == XlateSpec => []FastPaSound
<1>1. FastPaSound
  <2> SUFFICES ASSUME NEW vpn \in Vpns, NEW acc \in Accesses, NEW m \in Modes,
                      fast_pa(vpn, acc, m) # Declined
               PROVE  /\ XlateResult(vpn, acc, m) = fast_pa(vpn, acc, m)
                      /\ Translated(m) => ~Walks(vpn, acc, m)
    BY DEF FastPaSound
  <2> QED BY DEF fast_pa, XlateResult, Walks
<1> QED BY <1>1, PTL

\* xlate_golden_readonly: what its walk of the golden image answers for a page owed no fence,
\* the lane's own xlate answers too, and that leaves the lane's page tables as they are.
THEOREM Sv32GoldenReadonlySound == XlateSpec => []GoldenReadonlySound
<1>1. ASSUME Sv32Inv PROVE GoldenReadonlySound
  <2> SUFFICES ASSUME snap # NoSnap, NEW vpn \in Vpns, NEW acc \in Accesses, NEW m \in Modes,
                      xlate_golden_readonly(vpn, acc, m) # Declined,
                      Translated(m) => Fenced(vpn)
               PROVE  /\ XlateResult(vpn, acc, m) = xlate_golden_readonly(vpn, acc, m)
                      /\ (Translated(m) /\ Walks(vpn, acc, m)) =>
                           LET pte == pt[Leaf(pt, satp, vpn).at] IN pte.a /\ (acc = "W" => pte.d)
    BY DEF GoldenReadonlySound
  <2>1. CASE ~Translated(m)
    BY <2>1 DEF XlateResult, xlate_golden_readonly
  <2>2. CASE Translated(m)
    <3> DEFINE l == Leaf(snap.pt, satp, vpn)
    <3>1. /\ l.ok /\ Trusted(vpn)
          /\ leaf_perm_priv_ok(acc, m, snap.pt[l.at].perms)
          /\ snap.pt[l.at].a /\ (acc = "W" => snap.pt[l.at].d)
          /\ xlate_golden_readonly(vpn, acc, m) = Page(l.ppn)
      BY <2>2 DEF xlate_golden_readonly
    <3>2. /\ satp \in Tables /\ pt \in Mem /\ snap.pt \in Mem
          /\ Coherent(pt, satp, tlb, edited)
      BY <1>1, <2>2 DEF Sv32Inv, StateOK, Translated
    <3>3. \A e \in Path(snap.pt, satp, vpn) : snap.pt[e] = pt[e]
      <4>1. Path(snap.pt, satp, vpn) \subseteq Entries
        BY <3>2, Indices DEF Path, Entries
      <4> QED BY <1>1, <3>1, <4>1 DEF Trusted, Sv32Inv, GoldenAgrees
    <3>4. l = Leaf(pt, satp, vpn)
      BY <3>2, <3>3, SamePath
    <3>5. snap.pt[l.at] = pt[l.at]
      BY <3>1, <3>2, <3>3, LeafFacts
    <3>6. CASE Walks(vpn, acc, m)
      <4>1. WalkOk(vpn, acc, m)
        BY <3>1, <3>4, <3>5 DEF WalkOk
      <4>2. XlateResult(vpn, acc, m) = Page(l.ppn)
        BY <2>2, <3>4, <3>6, <4>1 DEF XlateResult
      <4> QED BY <3>1, <3>4, <3>5, <4>2
    <3>7. CASE ~Walks(vpn, acc, m)
      <4>1. Hit(vpn)
        BY <3>7 DEF Walks
      <4>2. Agrees(pt, satp, vpn, tlb[slot(vpn)])
        BY <2>2, <3>2, <4>1 DEF Coherent, Hit, Fenced, Translated
      <4>3. tlb[slot(vpn)].perms = pt[l.at].perms /\ tlb[slot(vpn)].ppn = l.ppn
        BY <3>4, <4>2 DEF Agrees
      <4>4. XlateResult(vpn, acc, m) = Page(l.ppn)
        BY <2>2, <3>1, <3>5, <3>7, <4>3 DEF XlateResult
      <4> QED BY <3>1, <3>7, <4>4
    <3> QED BY <3>6, <3>7
  <2> QED BY <2>1, <2>2
<1> QED BY <1>1, AlwaysSv32Inv, PTL
===============================================================================
