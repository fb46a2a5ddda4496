---------------------------- MODULE SmpSchedProofs ----------------------------
(***************************************************************************)
(* What run_smp guarantees for every number of harts, quantum, deadline and *)
(* guest instruction mix: types, a single hypercall when asked to freeze on *)
(* it, and, for a guest that runs with paging off and never writes only the *)
(* tail of a reserved word, that no sc.w succeeds spuriously.               *)
(***************************************************************************)
EXTENDS SmpSched, WellFoundedInduction, TLAPS

\* The steps of Next that run an instruction.
Instruction ==
  \/ \E va \in Atomics : LrW(va) \/ ScW(va) \/ AmoW(va)
  \/ \E s \in Stores : \E k \in 1 .. s[2] : Store(s[1], k, s[2])
  \/ \E retires \in BOOLEAN : Other(retires)
  \/ \E s \in Stores : s[2] = WORD /\ Halt(s[1])
  \/ Hypercall

\* Translation maps addresses to addresses.
LEMMA PhysAddrs ==
  ASSUME NEW h \in Harts, NEW S \in SUBSET Addrs
  PROVE  Phys(h, S) \subseteq Addrs
BY SmpAssumption DEF Phys

\* The bytes of an access of the guest are addresses.
LEMMA AccessAddrs ==
  /\ \A a \in Atomics : a \in Addrs /\ WordAt(a) \subseteq Addrs
  /\ \A s \in Stores : \A k \in 1 .. s[2] :
       /\ s[1] \in Addrs /\ s[2] \in Nat
       /\ s[1] .. s[1] + k - 1 \subseteq Addrs
BY SmpAssumption DEF Addrs, WordAt

\* A word store is to addresses.
LEMMA TohostAddrs ==
  ASSUME NEW s \in Stores, s[2] = WORD
  PROVE  WordAt(s[1]) \in SUBSET Addrs
BY SmpAssumption DEF Addrs, WordAt

\* When a turn ends and run_smp goes on, some hart is left to run, so that
\* NextHart names one.
LEMMA NextHartRuns ==
  ASSUME TypeOK, ~Finished
  PROVE  NextHart \in Harts /\ stops[NextHart] = "Running"
<1> DEFINE dist(h) == IF h > cur THEN h - cur ELSE h - cur + N
           Running == {h \in Harts : stops[h] = "Running"}
           P(h) == /\ stops[h] = "Running"
                   /\ \A g \in Harts : stops[g] = "Running" => dist(h) <= dist(g)
           D == {n \in Nat : \E h \in Running : dist(h) = n}
<1>1. PICK r \in Harts : stops[r] = "Running"
  BY DEF Finished
<1>2. \A h \in Harts : dist(h) \in Nat
  BY SmpAssumption DEF TypeOK, Harts
<1>3. dist(r) \in D
  BY <1>1, <1>2
<1>4. \E n \in D : \A m \in D : n <= m
  <2> HIDE DEF D
  <2>1. D \subseteq Nat /\ D # {}
    <3>1. D # {} BY <1>3
    <3> QED BY <3>1 DEF D
  <2>2. \E n \in D : \A m \in D : <<m, n>> \notin OpToRel(<, Nat)
    BY <2>1, NatLessThanWellFounded, WFMin
  <2>3. \A n, m \in Nat : m < n => <<m, n>> \in OpToRel(<, Nat)
    BY DEF OpToRel
  <2>4. \A n, m \in Nat : ~(m < n) => n <= m
    OBVIOUS
  <2> QED BY <2>1, <2>2, <2>3, <2>4
<1>5. PICK n \in D : \A m \in D : n <= m
  BY <1>4
<1>6. PICK h \in Running : dist(h) = n
  BY <1>5
<1>7. \A g \in Harts : stops[g] = "Running" => dist(h) <= dist(g)
  BY <1>2, <1>5, <1>6
<1>8. \E k \in Harts : P(k)
  BY <1>6, <1>7
<1>9. NextHart = CHOOSE k \in Harts : P(k)
  BY DEF NextHart
<1> HIDE DEF P
<1>10. NextHart \in Harts /\ P(NextHart)
  BY <1>8, <1>9
<1> QED BY <1>10 DEF P

-------------------------------------------------------------------------------
LEMMA InitTypeOK == Init => TypeOK
<1> SUFFICES ASSUME Init PROVE TypeOK
  OBVIOUS
<1>1. 0 \in Harts
  BY SmpAssumption DEF Harts
<1>2. stop_on_hypercall \in BOOLEAN /\ stepped \in BOOLEAN /\ done \in BOOLEAN
  BY Zenon DEF Init
<1>3. /\ reservation \in [Harts -> Addrs \cup {None}]
      /\ watched \in [Harts -> SUBSET Addrs]
      /\ stops \in [Harts -> {"Running", "Halt", "Hypercall", "Budget"}]
  BY DEF Init
<1> QED BY <1>1, <1>2, <1>3 DEF Init, TypeOK

LEMMA TypeOKInductive == TypeOK /\ [Next]_vars => TypeOK'
<1> SUFFICES ASSUME TypeOK, [Next]_vars PROVE TypeOK'
  OBVIOUS
<1> USE DEF TypeOK
<1>1. ASSUME NEW va \in Atomics, LrW(va) PROVE TypeOK'
  <2>1. va \in Addrs /\ Phys(cur, WordAt(va)) \subseteq Addrs
    BY AccessAddrs, PhysAddrs
  <2> QED BY <1>1, <2>1 DEF LrW, Step
<1>2. ASSUME NEW va \in Atomics, ScW(va) PROVE TypeOK'
  <2>1. Phys(cur, WordAt(va)) \subseteq Addrs
    BY AccessAddrs, PhysAddrs
  <2> QED BY <1>2, <2>1 DEF ScW, Step, Written
<1>3. ASSUME NEW va \in Atomics, AmoW(va) PROVE TypeOK'
  <2>1. Phys(cur, WordAt(va)) \subseteq Addrs
    BY AccessAddrs, PhysAddrs
  <2> QED BY <1>3, <2>1 DEF AmoW, Step, Written
<1>4. ASSUME NEW s \in Stores, NEW k \in 1 .. s[2], Store(s[1], k, s[2]) PROVE TypeOK'
  <2>1. Phys(cur, s[1] .. s[1] + k - 1) \subseteq Addrs
    BY AccessAddrs, PhysAddrs
  <2> QED BY <1>4, <2>1 DEF Store, Step, Written
<1>5. ASSUME NEW retires \in BOOLEAN, Other(retires) PROVE TypeOK'
  BY <1>5 DEF Other, Step
<1>6. ASSUME NEW s \in Stores, s[2] = WORD, Halt(s[1]) PROVE TypeOK'
  <2>1. Phys(cur, WordAt(s[1])) \subseteq Addrs
    BY <1>6, TohostAddrs, PhysAddrs
  <2> QED BY <1>6, <2>1 DEF Halt, Step, Written
<1>9. CASE Hypercall
  BY <1>9 DEF Hypercall, Step
<1>7. CASE EndTurn
  <2>1. cur' \in Harts
    BY <1>7, NextHartRuns DEF EndTurn
  <2>2. reservation' \in [Harts -> Addrs \cup {None}]
    BY <1>7 DEF EndTurn, Invalidated
  <2>3. stops' \in [Harts -> {"Running", "Halt", "Hypercall", "Budget"}]
    BY <1>7 DEF EndTurn
  <2> QED BY <1>7, <2>1, <2>2, <2>3 DEF EndTurn
<1>8. CASE UNCHANGED vars
  BY <1>8 DEF vars
<1> QED BY <1>1, <1>2, <1>3, <1>4, <1>5, <1>6, <1>7, <1>8, <1>9 DEF Next

\* Every variable of run_smp keeps its type: the hart given the next turn is one
\* that exists, whichever harts have stopped, and recorded writes are addresses.
THEOREM SmpTypeCorrect == Spec => []TypeOK
<1>1. Init => TypeOK
  BY InitTypeOK
<1> QED BY <1>1, TypeOKInductive, PTL DEF Spec

-------------------------------------------------------------------------------
\* A hypercall is the current hart's, and nothing runs after it.
HypercallFreezes ==
  stop_on_hypercall => \A h \in Harts : stops[h] = "Hypercall" => h = cur /\ (stepped \/ done)

LEMMA HypercallInductive == TypeOK /\ HypercallFreezes /\ [Next]_vars => HypercallFreezes'
<1> SUFFICES ASSUME TypeOK, HypercallFreezes, [Next]_vars PROVE HypercallFreezes'
  OBVIOUS
<1> USE DEF HypercallFreezes
<1>1. CASE Instruction
  <2>1. /\ ~done /\ ~TurnOver /\ stepped' = TRUE
        /\ UNCHANGED <<stop_on_hypercall, cur, done>>
        /\ \/ UNCHANGED stops
           \/ \E reason : stops' = [stops EXCEPT ![cur] = reason]
    BY <1>1 DEF Instruction, LrW, ScW, AmoW, Store, Other, Halt, Hypercall, Step
  <2> QED BY <2>1 DEF TypeOK
<1>2. CASE EndTurn
  <2>1. CASE Finished
    BY <1>2, <2>1 DEF EndTurn, TypeOK
  <2>2. CASE ~Finished
    BY <1>2, <2>2 DEF EndTurn, Finished
  <2> QED BY <2>1, <2>2
<1>3. CASE UNCHANGED vars
  BY <1>3 DEF vars
<1> QED BY <1>1, <1>2, <1>3 DEF Next, Instruction

\* Called with stop_on_hypercall, run_smp never lets a second hart reach a
\* hypercall: the first one ends the turn, and the turn's end the scheduler.
THEOREM SmpOneHypercall == Spec => []OneHypercall
<1>1. Init => TypeOK /\ HypercallFreezes
  BY InitTypeOK DEF Init, HypercallFreezes
<1>2. HypercallFreezes => OneHypercall
  BY DEF HypercallFreezes, OneHypercall
<1> QED BY <1>1, <1>2, TypeOKInductive, HypercallInductive, PTL DEF Spec

-------------------------------------------------------------------------------
\* A reservation is on a word of the guest's atomics.  Its word is still watched
\* whole, unless the turn in progress is another hart's and has recorded a write
\* of the word's first byte.
Reserved(h) ==
  reservation[h] # None =>
    /\ reservation[h] \in Atomics
    /\ \/ watched[h] = WordAt(reservation[h])
       \/ h # cur /\ ~done /\ reservation[h] \in writes

WatchInv ==
  /\ \A h \in Harts : Reserved(h)
  /\ done => writes = {}

\* With paging off a span is its own translation.
LEMMA PhysBare ==
  ASSUME PagingOff, NEW h \in Harts, NEW S \in SUBSET Addrs
  PROVE  Phys(h, S) = S
BY DEF Phys, PagingOff

\* A write of the bytes P that, whenever it touches an atomic word, touches the
\* word's first byte keeps what is known of each reservation it leaves alone.
LEMMA WrittenKeeps ==
  ASSUME TypeOK, WatchInv, ~done,
         NEW P \in SUBSET Addrs, Written(P),
         \A a \in Atomics : P \cap WordAt(a) # {} => a \in P,
         UNCHANGED <<cur, done>>,
         \A h \in Harts : reservation'[h] \in {reservation[h], None}
  PROVE  WatchInv'
<1>1. ASSUME NEW h \in Harts PROVE Reserved(h)'
  <2> SUFFICES ASSUME reservation'[h] # None PROVE Reserved(h)'
    BY DEF Reserved
  <2>1. reservation'[h] = reservation[h] /\ Reserved(h)
    BY DEF WatchInv
  <2>2. reservation[h] \in Atomics
    BY <2>1 DEF Reserved
  <2>3. CASE h # cur /\ reservation[h] \in writes
    BY <2>1, <2>2, <2>3 DEF Reserved, Written
  <2>4. CASE watched[h] = WordAt(reservation[h]) /\ (h = cur \/ watched[h] \cap P = {})
    <3>1. watched'[h] = watched[h]
      BY <2>4 DEF Written, TypeOK
    <3> QED BY <2>1, <2>2, <2>4, <3>1 DEF Reserved
  <2>5. CASE watched[h] = WordAt(reservation[h]) /\ h # cur /\ watched[h] \cap P # {}
    <3>1. reservation[h] \in P
      BY <2>2, <2>5
    <3>2. reservation[h] \in writes'
      BY <3>1 DEF Written
    <3> QED BY <2>1, <2>2, <2>5, <3>2 DEF Reserved
  <2> QED BY <2>1, <2>3, <2>4, <2>5 DEF Reserved
<1> QED BY <1>1 DEF WatchInv

LEMMA WatchInductive ==
  ASSUME PagingOff, BaseWritten
  PROVE  TypeOK /\ WatchInv /\ [Next]_vars => WatchInv'
<1> SUFFICES ASSUME TypeOK, WatchInv, [Next]_vars PROVE WatchInv'
  OBVIOUS
<1>0. cur \in Harts /\ None \notin Addrs
  BY SmpAssumption DEF TypeOK, None, Addrs
<1>a. ASSUME NEW va \in Atomics
      PROVE  /\ WordAt(va) \in SUBSET Addrs
             /\ Phys(cur, WordAt(va)) = WordAt(va)
             /\ \A a \in Atomics : WordAt(va) \cap WordAt(a) # {} => a \in WordAt(va)
  BY <1>0, AccessAddrs, PhysBare, BaseWritten DEF BaseWritten
<1>1. ASSUME NEW va \in Atomics, LrW(va) PROVE WatchInv'
  <2>1. /\ ~done /\ UNCHANGED <<cur, done, writes>>
        /\ reservation' = [reservation EXCEPT ![cur] = va]
        /\ watched' = [watched EXCEPT ![cur] = WordAt(va)]
    BY <1>1, <1>a DEF LrW, Step
  <2>2. ASSUME NEW h \in Harts PROVE Reserved(h)'
    <3>1. CASE h = cur
      BY <2>1, <3>1 DEF TypeOK, Reserved
    <3>2. CASE h # cur
      BY <2>1, <3>2 DEF TypeOK, Reserved, WatchInv
    <3> QED BY <3>1, <3>2
  <2> QED BY <2>1, <2>2 DEF WatchInv
<1>2. ASSUME NEW va \in Atomics, ScW(va) PROVE WatchInv'
  <2>1. /\ ~done /\ UNCHANGED <<cur, done>>
        /\ reservation' = [reservation EXCEPT ![cur] = None]
    BY <1>2 DEF ScW, Step
  <2>2. CASE reservation[cur] = va
    <3>1. Written(WordAt(va))
      BY <1>2, <2>2, <1>a DEF ScW
    <3> QED BY <2>1, <3>1, <1>a, WrittenKeeps DEF TypeOK
  <2>3. CASE reservation[cur] # va
    <3>1. UNCHANGED <<writes, watched>>
      BY <1>2, <2>3 DEF ScW
    <3> QED BY <2>1, <3>1 DEF TypeOK, WatchInv, Reserved
  <2> QED BY <2>2, <2>3
<1>3. ASSUME NEW va \in Atomics, AmoW(va) PROVE WatchInv'
  <2>1. /\ ~done /\ UNCHANGED <<cur, done>>
        /\ reservation' = [reservation EXCEPT ![cur] = None]
        /\ Written(WordAt(va))
    BY <1>3, <1>a DEF AmoW, Step
  <2> QED BY <2>1, <1>a, WrittenKeeps DEF TypeOK
<1>4. ASSUME NEW s \in Stores, NEW k \in 1 .. s[2], Store(s[1], k, s[2]) PROVE WatchInv'
  <2> DEFINE P == s[1] .. s[1] + k - 1
  <2>1. P \in SUBSET Addrs /\ Phys(cur, P) = P
    BY <1>0, AccessAddrs, PhysBare
  <2>2. \A a \in Atomics : P \cap WordAt(a) # {} => a \in P
    BY <1>4, BaseWritten DEF BaseWritten, Store
  <2>3. ~done /\ UNCHANGED <<cur, done, reservation>> /\ Written(P)
    BY <1>4, <2>1 DEF Store, Step
  <2> HIDE DEF P
  <2> QED BY <2>1, <2>2, <2>3, WrittenKeeps
<1>5. ASSUME UNCHANGED <<reservation, watched, writes, cur, done>> PROVE WatchInv'
  BY <1>5 DEF WatchInv, Reserved
<1>6. ASSUME NEW retires \in BOOLEAN, Other(retires) PROVE WatchInv'
  BY <1>5, <1>6 DEF Other, Step
<1>7. ASSUME NEW s \in Stores, s[2] = WORD, Halt(s[1]) PROVE WatchInv'
  <2> DEFINE P == WordAt(s[1])
  <2>1. P \in SUBSET Addrs /\ Phys(cur, P) = P
    BY <1>0, <1>7, TohostAddrs, PhysBare
  <2>2. \A a \in Atomics : P \cap WordAt(a) # {} => a \in P
    <3>1. s[2] \in 1 .. s[2] /\ P = s[1] .. s[1] + s[2] - 1
      BY <1>7, SmpAssumption DEF WordAt
    <3> HIDE DEF P
    <3> QED BY <1>7, <3>1, BaseWritten DEF BaseWritten
  <2>3. ~done /\ UNCHANGED <<cur, done, reservation>> /\ Written(P)
    BY <1>7, <2>1 DEF Halt, Step
  <2> HIDE DEF P
  <2> QED BY <2>1, <2>2, <2>3, WrittenKeeps
<1>10. CASE Hypercall
  BY <1>5, <1>10 DEF Hypercall, Step
<1>8. CASE EndTurn
  <2>1. ASSUME NEW h \in Harts, reservation'[h] # None
        PROVE  /\ reservation'[h] = reservation[h]
               /\ watched[h] = WordAt(reservation[h]) /\ reservation[h] \in Atomics
    <3>1. reservation'[h] = IF h = cur THEN reservation[h] ELSE Invalidated(reservation[h])
      BY <1>8 DEF EndTurn
    <3>2. reservation'[h] = reservation[h] /\ (h = cur \/ reservation[h] \notin writes)
      BY <2>1, <3>1 DEF Invalidated
    <3> QED BY <2>1, <3>2 DEF WatchInv, Reserved
  <2>2. UNCHANGED watched /\ writes' = {}
    BY <1>8 DEF EndTurn
  <2> QED BY <2>1, <2>2 DEF WatchInv, Reserved
<1>9. CASE UNCHANGED vars
  BY <1>5, <1>9 DEF vars
<1> QED BY <1>1, <1>2, <1>3, <1>4, <1>6, <1>7, <1>8, <1>9, <1>10 DEF Next

\* Dropping the other harts' reservations only at the end of a turn, and by their
\* first byte only, is enough for a guest that runs with paging off and writes
\* its lock words whole: no hart's sc.w succeeds after another hart's write.
THEOREM SmpNoSpuriousSc ==
  ASSUME PagingOff, BaseWritten
  PROVE  Spec => []NoSpuriousSc
<1>1. Init => TypeOK /\ WatchInv
  BY InitTypeOK DEF Init, WatchInv, Reserved
<1>2. TypeOK /\ WatchInv => NoSpuriousSc
  <2> SUFFICES ASSUME TypeOK, WatchInv, NEW h \in Harts, done \/ h = cur, reservation[h] # None
               PROVE  watched[h] # {}
    BY DEF NoSpuriousSc
  <2>1. watched[h] = WordAt(reservation[h]) /\ reservation[h] \in Atomics
    BY DEF WatchInv, Reserved
  <2>2. reservation[h] \in WordAt(reservation[h])
    <3>1. \A r \in Addrs : r \in WordAt(r)
      BY SmpAssumption DEF WordAt, Addrs
    <3> QED BY <2>1, <3>1, AccessAddrs
  <2> QED BY <2>1, <2>2
<1> QED BY <1>1, <1>2, TypeOKInductive, WatchInductive, PTL DEF Spec
===============================================================================
