--------------------------------- MODULE Hart ---------------------------------
(***************************************************************************)
(* Privilege, traps, interrupts and virtual time of one hart (fs-riscv:     *)
(* step_system, take_trap, pending_interrupt, the CSR file) under the       *)
(* single-hart driver loop run_until of fs-platform, with its CLINT.        *)
(*                                                                          *)
(* A step of the specification is one iteration of that loop: refresh the   *)
(* CLINT and the timers, take a pending interrupt, or else execute one      *)
(* instruction and deliver the trap it raises.  Registers and addresses are *)
(* left out; of the pc only whether it is a trap vector is kept.            *)
(***************************************************************************)
EXTENDS Integers, FiniteSets

CONSTANTS Deadline,     \* run_until's bound on retired instructions
          Never,        \* a compare value that is not reached (u64::MAX)
          Compares,     \* the compare values a guest programs
          Midelegs,     \* the delegations it programs
          Medelegs

ASSUME HartConstants ==
  /\ Deadline \in Nat /\ Never \in Nat /\ Never > Deadline
  /\ Compares \subseteq 0 .. Never
  /\ Midelegs \subseteq SUBSET {1, 3, 5, 7, 9, 11}
  /\ Medelegs \subseteq SUBSET (0 .. 15)

VARIABLES priv,        \* the privilege mode
          mstatus,
          mie,         \* the interrupts enabled
          soft,        \* mip's bits that only software writes (SSIP, SEIP)
          mideleg, medeleg,
          stimecmp,
          mtimecmp,    \* the hart's copy of the CLINT compare register
          clint,       \* msip and mtimecmp
          retired,     \* insns_retired, the virtual time
          atVector,    \* pc is where take_trap put it
          doubled,     \* history: an instruction at a trap vector has faulted
          stop         \* why the run stopped

vars == <<priv, mstatus, mie, soft, mideleg, medeleg, stimecmp, mtimecmp, clint, retired,
          atVector, doubled, stop>>

Level == [U |-> 0, S |-> 1, M |-> 3]
Privs == {"U", "S", "M"}
MStatus == [SIE : BOOLEAN, MIE : BOOLEAN, SPIE : BOOLEAN, MPIE : BOOLEAN,
            SPP : {"U", "S"}, MPP : Privs, MPRV : BOOLEAN]
Lines == {1, 3, 5, 7, 9, 11}
SBits == {1, 5, 9}          \* S_INT_MASK
E_ILLEGAL == 2
E_ECALL == [U |-> 8, S |-> 9, M |-> 11]
Faults == {2, 13}           \* illegal instruction, load page fault: an instruction that
                            \* raises one does not retire

\* Mutant: the step uses the compare value of the previous sync.
Timecmp_Stale == mtimecmp

\* sync_timer, apply_clint, update_timers: the pending bits every step starts from.
Timecmp == clint.mtimecmp

mip == soft \cup {i \in {3} : clint.msip} \cup {i \in {5} : retired >= stimecmp}
            \cup {i \in {7} : retired >= Timecmp}

\* pending_interrupt: the enabled ones.
Enabled(i) ==
  /\ i \in mip \cap mie
  /\ IF i \in mideleg THEN priv = "U" \/ (priv = "S" /\ mstatus.SIE)
                      ELSE priv # "M" \/ mstatus.MIE

Priority == [i \in Lines |->
               CASE i = 11 -> 1 [] i = 3 -> 2 [] i = 7 -> 3 [] i = 9 -> 4 [] i = 1 -> 5 [] i = 5 -> 6]
Interrupts == {i \in DOMAIN Priority : Enabled(i)}
Pending == CHOOSE i \in Interrupts : \A j \in Interrupts : Priority[i] <= Priority[j]

\* Mutant: entering a handler leaves its interrupts enabled.
take_trap_KeepsEnable(deleg, cause) ==
  LET to_s == priv # "M" /\ cause \in deleg
  IN  /\ priv' = IF to_s THEN "S" ELSE "M"
      /\ mstatus' = IF to_s THEN [mstatus EXCEPT !.SPIE = mstatus.SIE, !.SPP = priv]
                    ELSE [mstatus EXCEPT !.MPIE = mstatus.MIE, !.MPP = priv]
      /\ atVector' = TRUE

\* take_trap
take_trap(deleg, cause) ==
  LET to_s == priv # "M" /\ cause \in deleg
  IN  /\ priv' = IF to_s THEN "S" ELSE "M"
      /\ mstatus' = IF to_s THEN [mstatus EXCEPT !.SPIE = mstatus.SIE, !.SIE = FALSE, !.SPP = priv]
                    ELSE [mstatus EXCEPT !.MPIE = mstatus.MIE, !.MIE = FALSE, !.MPP = priv]
      /\ atVector' = TRUE

csrVars == <<mie, soft, mideleg, medeleg, stimecmp>>

\* The head of run_until's loop.
Iterate ==
  /\ stop = "run" /\ retired < Deadline
  /\ mtimecmp' = clint.mtimecmp

TakeInterrupt ==
  /\ Iterate
  /\ Interrupts # {}
  /\ take_trap(mideleg, Pending)
  /\ UNCHANGED <<csrVars, doubled, clint, retired, stop>>

\* Nothing is pending: an instruction executes.
Execute == Iterate /\ Interrupts = {}

Retire == retired' = retired + 1 /\ atVector' = FALSE

\* An instruction that faults: it traps and does not retire.
Fault(cause) ==
  /\ Execute
  /\ take_trap(medeleg, cause)
  /\ doubled' = (doubled \/ atVector)
  /\ UNCHANGED <<csrVars, clint, retired, stop>>

\* Any instruction that touches none of this state.
Plain ==
  /\ Execute
  /\ Retire
  /\ UNCHANGED <<priv, mstatus, csrVars, doubled, clint, stop>>

\* ecall counts as retired although it traps.
Ecall ==
  /\ Execute
  /\ take_trap(medeleg, E_ECALL[priv])
  /\ retired' = retired + 1
  /\ UNCHANGED <<csrVars, doubled, clint, stop>>

\* A store to tohost, or ecall with the reserved a7 (finish_exit).
Leave(how) ==
  /\ Execute
  /\ Retire
  /\ stop' = how
  /\ UNCHANGED <<priv, mstatus, csrVars, doubled, clint>>

\* mret, sret; below the required privilege they are illegal.
ReturnTo(new, s) ==
  /\ priv' = new
  /\ mstatus' = [s EXCEPT !.MPRV = @ /\ new = "M"]

Mret ==
  /\ Execute
  /\ priv = "M"
  /\ ReturnTo(mstatus.MPP, [mstatus EXCEPT !.MIE = mstatus.MPIE, !.MPIE = TRUE, !.MPP = "U"])
  /\ Retire
  /\ UNCHANGED <<csrVars, doubled, clint, stop>>

\* Mutant: sret leaves MPRV alone.
Sret_KeepsMprv ==
  /\ Execute
  /\ priv # "U"
  /\ priv' = mstatus.SPP
  /\ mstatus' = [mstatus EXCEPT !.SIE = mstatus.SPIE, !.SPIE = TRUE, !.SPP = "U"]
  /\ Retire
  /\ UNCHANGED <<csrVars, doubled, clint, stop>>

Sret ==
  /\ Execute
  /\ priv # "U"
  /\ ReturnTo(mstatus.SPP, [mstatus EXCEPT !.SIE = mstatus.SPIE, !.SPIE = TRUE, !.SPP = "U"])
  /\ Retire
  /\ UNCHANGED <<csrVars, doubled, clint, stop>>

-------------------------------------------------------------------------------
\* CSR instructions (Csr::write); one of a higher privilege is a Fault(E_ILLEGAL).
\* mstatus and sstatus are changed a field at a time, as csrs and csrc do.
WriteStatus ==
  /\ Execute
  /\ \/ priv = "M" /\ \E b \in {"MIE", "MPIE", "MPRV"} : mstatus' = [mstatus EXCEPT ![b] = ~@]
     \/ priv = "M" /\ \E p \in Privs : mstatus' = [mstatus EXCEPT !.MPP = p]
     \/ priv # "U" /\ \E b \in {"SIE", "SPIE"} : mstatus' = [mstatus EXCEPT ![b] = ~@]
     \/ priv # "U" /\ \E p \in {"U", "S"} : mstatus' = [mstatus EXCEPT !.SPP = p]
  /\ Retire
  /\ UNCHANGED <<priv, csrVars, doubled, clint, stop>>

\* mie, sie, sip, mideleg, medeleg, stimecmp.  STIP is refreshed before it is next used,
\* so a write to sip or mip lasts only for SSIP and SEIP.
Toggled(S, i) == (S \ {i}) \cup ({i} \ S)
WriteCsr ==
  /\ Execute
  /\ \/ \E i \in Lines :
          /\ priv = "M" \/ (priv = "S" /\ i \in SBits)
          /\ mie' = Toggled(mie, i)
        /\ UNCHANGED <<soft, mideleg, medeleg, stimecmp>>
     \/ priv # "U" /\ \E i \in {1, 9} \cap Lines : soft' = Toggled(soft, i)
        /\ UNCHANGED <<mie, mideleg, medeleg, stimecmp>>
     \/ priv = "M" /\ mideleg' \in Midelegs
        /\ UNCHANGED <<mie, soft, medeleg, stimecmp>>
     \/ priv = "M" /\ medeleg' \in Medelegs
        /\ UNCHANGED <<mie, soft, mideleg, stimecmp>>
     \/ priv # "U" /\ stimecmp' \in Compares
        /\ UNCHANGED <<mie, soft, mideleg, medeleg>>
  /\ Retire
  /\ UNCHANGED <<priv, mstatus, doubled, clint, stop>>

\* Clint::store
StoreClint ==
  /\ Execute
  /\ \/ clint' = [clint EXCEPT !.msip = ~@]
     \/ \E c \in Compares : clint' = [clint EXCEPT !.mtimecmp = c]
  /\ Retire
  /\ UNCHANGED <<priv, mstatus, csrVars, doubled, stop>>

\* The loop condition fails.
OutOfBudget ==
  /\ stop = "run" /\ retired >= Deadline
  /\ stop' = "budget"
  /\ UNCHANGED <<priv, mstatus, csrVars, mtimecmp, doubled, clint, retired, atVector>>

Init ==
  /\ priv = "M"
  /\ mstatus = [SIE |-> FALSE, MIE |-> FALSE, SPIE |-> FALSE, MPIE |-> FALSE, SPP |-> "U",
                MPP |-> "U", MPRV |-> FALSE]
  /\ mie = {} /\ soft = {} /\ mideleg = {} /\ medeleg = {}
  /\ stimecmp = Never /\ mtimecmp = Never
  /\ clint = [msip |-> FALSE, mtimecmp |-> 0]
  /\ retired = 0
  /\ atVector = FALSE /\ doubled = FALSE
  /\ stop = "run"

Next ==
  \/ TakeInterrupt
  \/ \E c \in Faults : Fault(c)
  \/ Plain \/ Ecall
  \/ \E how \in {"halt", "hypercall"} : Leave(how)
  \/ Mret \/ Sret
  \/ WriteStatus \/ WriteCsr \/ StoreClint
  \/ OutOfBudget

\* The loop has no other way out than its condition and its returns, so it always goes on.
Spec == Init /\ [][Next]_vars /\ WF_vars(Next)

-------------------------------------------------------------------------------
TypeOK ==
  /\ priv \in Privs
  /\ mstatus \in MStatus
  /\ mie \subseteq Lines /\ soft \subseteq {1, 9}
  /\ mideleg \in Midelegs \cup {{}} /\ medeleg \in Medelegs \cup {{}}
  /\ stimecmp \in 0 .. Never /\ mtimecmp \in 0 .. Never
  /\ clint \in [msip : BOOLEAN, mtimecmp : 0 .. Never]
  /\ retired \in 0 .. Deadline
  /\ atVector \in BOOLEAN /\ doubled \in BOOLEAN
  /\ stop \in {"run", "halt", "hypercall", "budget"}

\* effective_priv honours MPRV in every mode, so the bit must be clear whenever the hart
\* is not in M: loads and stores of S and U code would otherwise be checked with the
\* privilege an earlier trap left in MPP.
MprvOnlyInM == mstatus.MPRV => priv = "M"

\* Timer interrupts are "a strict function of retired instructions" (doc of run): while
\* the CLINT's compare value is reached and the machine timer is enabled and deliverable,
\* no instruction retires; the hart enters a machine-mode handler instead.
TimerExact ==
  [][/\ stop = "run" /\ retired < Deadline
     /\ retired >= clint.mtimecmp /\ 7 \in mie \ mideleg
     /\ priv # "M" \/ mstatus.MIE
     => retired' = retired /\ priv' = "M" /\ ~mstatus'.MIE]_vars

\* run_until returns, unless a trap vector of the guest itself faults.  Traps retire
\* nothing, so this rests on a handler being entered with its own interrupts off and on
\* traps never lowering the privilege: without such a fault they cannot go on for ever
\* without an instruction of a handler retiring.
Termination == <>(stop # "run" \/ doubled)
===============================================================================
