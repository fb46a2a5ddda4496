------------------------------- MODULE SmpSched -------------------------------
(***************************************************************************)
(* run_smp (crates/fs-platform): a fixed-quantum round-robin over the harts *)
(* of one shared machine, with the LR/SC reservation of each Cpu            *)
(* (crates/fs-riscv).  Every store of a turn goes through RecordingBus; at  *)
(* the end of the turn each other hart's reservation that falls in a        *)
(* written span is dropped.                                                 *)
(*                                                                          *)
(* A reservation holds the virtual address LR was given; RecordingBus       *)
(* records physical addresses.  Translate gives each hart's mapping, so     *)
(* that a machine with paging off and one with paging on are both           *)
(* instances.  A span is kept as the set of its bytes.                      *)
(***************************************************************************)
EXTENDS Integers

CONSTANTS N,                 \* harts 0 .. N - 1
          WORD,              \* bytes per word (4)
          Words,             \* number of words of memory
          Translate,         \* hart -> virtual byte address -> physical one
          Atomics,           \* words the guest uses lr.w, sc.w and amo on (aligned)
          Stores,            \* <<address, size>> of the guest's plain stores
          Quantum,           \* instructions per turn
          Deadline           \* deadline_ticks

Harts == 0 .. N - 1
Addrs == 0 .. WORD * Words - 1

ASSUME SmpAssumption ==
  /\ N \in Nat \ {0} /\ WORD \in Nat \ {0} /\ Words \in Nat \ {0}
  /\ Translate \in [Harts -> [Addrs -> Addrs]]
  /\ Atomics \subseteq {a \in Addrs : a % WORD = 0 /\ a + WORD - 1 \in Addrs}
  /\ Stores \subseteq {s \in Addrs \X (Nat \ {0}) : s[1] + s[2] - 1 \in Addrs}
  /\ Quantum \in Nat /\ Deadline \in Nat

VARIABLES stop_on_hypercall,
          reservation,   \* hart -> virtual address, or None
          watched,       \* hart -> physical bytes of the word its LR read, until
                         \*         another hart writes one of them (auxiliary)
          cur,           \* the hart whose turn it is
          stepped,       \* the turn has made a step
          retired,       \* instructions retired in this turn
          writes,        \* physical bytes stored in this turn (RecordingBus)
          stops,         \* hart -> why it stopped, or "Running"
          tick,          \* the scheduler's global tick
          done           \* run_smp has returned

vars == <<stop_on_hypercall, reservation, watched, cur, stepped, retired, writes,
          stops, tick, done>>

None == -1
WordAt(va) == va .. va + WORD - 1

\* The physical bytes behind a virtual span.
Phys(h, vas) == {Translate[h][va] : va \in vas}

Init ==
  /\ stop_on_hypercall \in BOOLEAN
  /\ reservation = [h \in Harts |-> None]
  /\ watched = [h \in Harts |-> {}]
  /\ cur = 0
  /\ stepped = FALSE
  /\ retired = 0
  /\ writes = {}
  /\ stops = [h \in Harts |-> "Running"]
  /\ tick = 0
  /\ done = FALSE

-------------------------------------------------------------------------------
\* A turn ends once its hart has stopped or used its quantum, or time is up; the
\* test comes after a step, so every turn makes at least one.
TurnOver == stepped /\ (stops[cur] # "Running" \/ retired >= Quantum \/ tick >= Deadline)

\* One pass of the inner loop: the tick advances whatever the step does, the
\* retired count only if it retires an instruction.
Step(retires) ==
  /\ ~done /\ ~TurnOver
  /\ stepped' = TRUE
  /\ tick' = tick + 1
  /\ retired' = IF retires THEN retired + 1 ELSE retired
  /\ UNCHANGED <<stop_on_hypercall, cur, done>>

\* The bytes P go to memory: recorded, and any word another hart watches is lost.
Written(P) ==
  /\ writes' = writes \cup P
  /\ watched' = [h \in Harts |-> IF h # cur /\ watched[h] \cap P # {} THEN {} ELSE watched[h]]

LrW(va) ==
  /\ Step(TRUE)
  /\ reservation' = [reservation EXCEPT ![cur] = va]
  /\ watched' = [watched EXCEPT ![cur] = Phys(cur, WordAt(va))]
  /\ UNCHANGED <<writes, stops>>

\* sc.w stores iff the reservation names this very address, and spends it.
ScW(va) ==
  /\ Step(TRUE)
  /\ IF reservation[cur] = va THEN Written(Phys(cur, WordAt(va)))
     ELSE UNCHANGED <<writes, watched>>
  /\ reservation' = [reservation EXCEPT ![cur] = None]
  /\ UNCHANGED stops

AmoW(va) ==
  /\ Step(TRUE)
  /\ Written(Phys(cur, WordAt(va)))
  /\ reservation' = [reservation EXCEPT ![cur] = None]
  /\ UNCHANGED stops

\* A plain store; a misaligned one goes byte by byte and may fault after the
\* first k bytes.  The hart's own reservation is left alone.
Store(va, k, n) ==
  /\ Step(k = n)
  /\ k = n \/ va % n # 0
  /\ Written(Phys(cur, va .. va + k - 1))
  /\ UNCHANGED <<reservation, stops>>

\* Any other instruction, or (without retiring) an interrupt or a fault: take_trap
\* leaves the reservation alone.
Other(retires) ==
  /\ Step(retires)
  /\ UNCHANGED <<reservation, watched, writes, stops>>

\* A word store to tohost: a store like any other, which ends the hart.
Halt(va) ==
  /\ Step(TRUE)
  /\ Written(Phys(cur, WordAt(va)))
  /\ stops' = [stops EXCEPT ![cur] = "Halt"]
  /\ UNCHANGED reservation

Hypercall ==
  /\ Step(TRUE)
  /\ stops' = [stops EXCEPT ![cur] = "Hypercall"]
  /\ UNCHANGED <<reservation, watched, writes>>

-------------------------------------------------------------------------------
\* Mutant: the end of the turn drops nothing.
Invalidated_Never(r) == r

\* Cpu::invalidate_reservation, for every span of the turn.
Invalidated(r) == IF r \in writes THEN None ELSE r

\* Mutant: the round is not closed.
NextHart_NoWrap == cur + 1

\* The next hart of the round that has not stopped.
NextHart ==
  LET dist(h) == IF h > cur THEN h - cur ELSE h - cur + N
  IN  CHOOSE h \in Harts :
        /\ stops[h] = "Running"
        /\ \A g \in Harts : stops[g] = "Running" => dist(h) <= dist(g)

\* Mutant: a hypercall parks its own hart only.
Finished_Parks ==
  \/ \A h \in Harts : stops[h] # "Running"
  \/ tick >= Deadline

Finished ==
  \/ stop_on_hypercall /\ stops[cur] = "Hypercall"
  \/ \A h \in Harts : stops[h] # "Running"
  \/ tick >= Deadline

\* Mutant: the tick counts within a turn instead of across all of them.
EndTurn_FreshTick ==
  /\ ~done /\ TurnOver
  /\ reservation' = [h \in Harts |-> IF h = cur THEN reservation[h] ELSE Invalidated(reservation[h])]
  /\ writes' = {}
  /\ stepped' = FALSE
  /\ retired' = 0
  /\ IF Finished
       THEN /\ done' = TRUE
            /\ stops' = [h \in Harts |-> IF stops[h] = "Running" THEN "Budget" ELSE stops[h]]
            /\ UNCHANGED cur
       ELSE /\ cur' = NextHart
            /\ UNCHANGED <<done, stops>>
  /\ tick' = 0
  /\ UNCHANGED <<stop_on_hypercall, watched>>

EndTurn ==
  /\ ~done /\ TurnOver
  /\ reservation' = [h \in Harts |-> IF h = cur THEN reservation[h] ELSE Invalidated(reservation[h])]
  /\ writes' = {}
  /\ stepped' = FALSE
  /\ retired' = 0
  /\ IF Finished
       THEN /\ done' = TRUE
            /\ stops' = [h \in Harts |-> IF stops[h] = "Running" THEN "Budget" ELSE stops[h]]
            /\ UNCHANGED cur
       ELSE /\ cur' = NextHart
            /\ UNCHANGED <<done, stops>>
  /\ UNCHANGED <<stop_on_hypercall, watched, tick>>

Next ==
  \/ \E va \in Atomics : LrW(va) \/ ScW(va) \/ AmoW(va)
  \/ \E s \in Stores : \E k \in 1 .. s[2] : Store(s[1], k, s[2])
  \/ \E retires \in BOOLEAN : Other(retires)
  \/ \E s \in Stores : s[2] = WORD /\ Halt(s[1])
  \/ Hypercall
  \/ EndTurn

\* run_smp is one host thread that never waits: it always makes its next step.
Spec == Init /\ [][Next]_vars /\ WF_vars(Next)

-------------------------------------------------------------------------------
TypeOK ==
  /\ stop_on_hypercall \in BOOLEAN
  /\ reservation \in [Harts -> Addrs \cup {None}]
  /\ watched \in [Harts -> SUBSET Addrs]
  /\ cur \in Harts
  /\ stepped \in BOOLEAN /\ done \in BOOLEAN
  /\ retired \in Nat /\ tick \in Nat
  /\ writes \subseteq Addrs
  /\ stops \in [Harts -> {"Running", "Halt", "Hypercall", "Budget"}]

\* The guests for which dropping a reservation by its address alone is enough:
\* virtual addresses are physical ones, and whatever writes a byte of a word used
\* for lr.w writes the word's first byte too.
PagingOff == \A h \in Harts, va \in Addrs : Translate[h][va] = va
BaseWritten ==
  \A a \in Atomics :
    /\ \A b \in Atomics : WordAt(b) \cap WordAt(a) # {} => a \in WordAt(b)
    /\ \A s \in Stores : \A k \in 1 .. s[2] :
         /\ k = s[2] \/ s[1] % s[2] # 0
         /\ (s[1] .. s[1] + k - 1) \cap WordAt(a) # {}
         => a \in s[1] .. s[1] + k - 1

\* A hart that may execute sc.w now (its turn is on), or a hart in the state
\* run_smp returns, holds a reservation only on a word nobody else has written
\* since its LR (doc of invalidate_reservation: a store by any other hart to the
\* same word "must also invalidate it, or sc.w can spuriously succeed").
NoSpuriousSc ==
  \A h \in Harts : (done \/ h = cur) /\ reservation[h] # None => watched[h] # {}

\* With stop_on_hypercall the first hypercall freezes the machine: no second hart
\* gets to one (run_smp: "the FIRST hart to return a Stop::Hypercall halts the
\* WHOLE scheduler").
OneHypercall ==
  stop_on_hypercall =>
    \A g, h \in Harts : stops[g] = "Hypercall" /\ stops[h] = "Hypercall" => g = h

\* run_smp returns, even if a hart traps forever without retiring anything.
Termination == <>done
===============================================================================
