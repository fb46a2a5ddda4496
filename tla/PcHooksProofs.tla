----------------------------- MODULE PcHooksProofs -----------------------------
(***************************************************************************)
(* Proofs that the allocator hooks pair returns with calls, for every       *)
(* System.map, set of call sites, tasks, calls in flight and strays.        *)
(***************************************************************************)
EXTENDS PcHooks, FiniteSetTheorems, SequenceTheorems, TLAPS

\* A hooked function jumps only to one with the same convention.  Across two conventions
\* both families hold a stash for the one return, and both answer.
OneConvention == \A t \in TailCalls : How(t[1]) = How(t[2])

-------------------------------------------------------------------------------
(* The state, with mode as a parameter so that a step that keeps it keeps them.         *)

Calls == [fn : Symbols, regs : RegFiles]
Entries == [at : {"entry"}, fn : Symbols, site : DOMAIN Sites, regs : RegFiles, first : BOOLEAN]
Returns == [at : {"return"}, fn : Symbols, site : DOMAIN Sites, regs : RegFiles]
Agains == [at : {"again"}, site : DOMAIN Sites]
Pcs == {Plain} \cup Entries \cup Returns \cup Agains
Parks == {Plain} \cup {p \in Entries : ~p.first} \cup Agains

\* Stash and AtEntry in mode m, and the values stashed.
Arg(m, f, regs) ==
  IF m = "kmsan" THEN <<Read(regs, KNOWN_SYMBOLS[f].reg), regs[GFP_FLAGS_REG]>>
  ELSE <<Read(regs, KNOWN_SYMBOLS[f].reg)>>
EntryReport(m, f) == m = "sanitize" /\ How(f) \in {"page_free", "ksize"}
Payloads(m) == {Arg(m, f, regs) : f \in Symbols, regs \in RegFiles}

\* Calls from a site are stashed, and the stashes of its calls.
Stashed(m, s) == How(Sites[s]) \in Families[m]
Queue(m, P, s) == IF Stashed(m, s) THEN P[How(Sites[s])][s] ELSE << >>

\* No other family has a stash for the site.
OneQueue(m, P) ==
  \A h \in AllFamilies, s \in DOMAIN Sites :
    ~(h = How(Sites[s]) /\ Stashed(m, s)) => P[h][s] = << >>

\* The calls whose stash the hooks should still hold: those in flight, and one that has
\* just returned.
Expected(calls, p, s) ==
  IF p.at = "return" /\ p.site = s THEN Append(calls, [fn |-> p.fn, regs |-> p.regs]) ELSE calls

\* The last stashes of q are those of the calls in E.
Holds(m, q, E) ==
  /\ Len(q) >= Len(E)
  /\ \A i \in 1 .. Len(E) : q[Len(q) - Len(E) + i] = Arg(m, E[i].fn, E[i].regs)

\* The stashes no call will pop.
Left(q, E) == IF Len(q) > Len(E) THEN Len(q) - Len(E) ELSE 0

\* Tasks parked at an entry that will report again, and the report the current pc will make.
Repeat(m, p, s) == p.at = "entry" /\ p.site = s /\ EntryReport(m, p.fn)
Repeats(m, pk, s) == {t \in Tasks : Repeat(m, pk[t], s)}
Owed(m, calls, p, s) ==
  IF \/ Repeat(m, p, s) /\ ~p.first
     \/ p.at = "again" /\ p.site = s /\ calls # << >>
  THEN 1 ELSE 0

SameHow(x, s) == How(x.fn) = How(Sites[s])

Shape ==
  /\ mode \in DOMAIN Families
  /\ pending \in [AllFamilies -> [DOMAIN Sites -> Seq(Payloads(mode))]]
  /\ OneQueue(mode, pending)
  /\ live \in [DOMAIN Sites -> Seq(Calls)]
  /\ \A s \in DOMAIN Sites : \A i \in 1 .. Len(live[s]) : SameHow(live[s][i], s)
  /\ pc \in Pcs
  /\ pc.at \in {"entry", "return"} => SameHow(pc, pc.site)
  /\ parked \in [Tasks -> Parks]
  /\ \A t \in Tasks : parked[t].at = "entry" => SameHow(parked[t], parked[t].site)
  /\ strays \in [DOMAIN Sites -> Nat]
  /\ spurious \in [DOMAIN Sites -> Nat]

Marks ==
  \A s \in DOMAIN Sites :
    Stashed(mode, s) /\ s \notin crossed =>
      Holds(mode, Queue(mode, pending, s), Expected(live[s], pc, s))

Stepped == pc.at = "again" /\ live[pc.site] # << >> => pc.site \in crossed

Charge(m, P, calls, pk, p, n, s) ==
  n + Left(Queue(m, P, s), Expected(calls, p, s)) + Cardinality(Repeats(m, pk, s)) + Owed(m, calls, p, s)

Charges ==
  \A s \in DOMAIN Sites : Charge(mode, pending, live[s], parked, pc, spurious[s], s) <= strays[s]

HooksInv == Shape /\ Marks /\ Stepped /\ Charges

-------------------------------------------------------------------------------
(* Sequences.                                                                           *)

LEMMA SubSeqFacts ==
  ASSUME NEW S, NEW q \in Seq(S), NEW a \in Int, NEW b \in Int, 1 <= a, b <= Len(q), a <= b + 1
  PROVE  /\ SubSeq(q, a, b) \in Seq(S) /\ Len(SubSeq(q, a, b)) = b - a + 1
         /\ \A j \in 1 .. b - a + 1 : SubSeq(q, a, b)[j] = q[a + j - 1]
<1>1. \A i \in a .. b : q[i] \in S
  OBVIOUS
<1> QED
  BY <1>1, SubSeqProperties

LEMMA LastDropped ==
  ASSUME NEW S, NEW q \in Seq(S), q # << >>
  PROVE  /\ Len(q) \in Nat /\ Len(q) >= 1 /\ q[Len(q)] \in S
         /\ SubSeq(q, 1, Len(q) - 1) \in Seq(S) /\ Len(SubSeq(q, 1, Len(q) - 1)) = Len(q) - 1
         /\ \A i \in 1 .. Len(q) - 1 : SubSeq(q, 1, Len(q) - 1)[i] = q[i]
<1>1. Len(q) \in Nat /\ Len(q) >= 1 /\ q[Len(q)] \in S
  OBVIOUS
<1>2. PICK n \in Nat : n = Len(q) - 1
  BY <1>1
<1>3. /\ SubSeq(q, 1, n) \in Seq(S) /\ Len(SubSeq(q, 1, n)) = n - 1 + 1
      /\ \A j \in 1 .. n - 1 + 1 : SubSeq(q, 1, n)[j] = q[1 + j - 1]
  BY <1>1, <1>2, SubSeqFacts
<1>4. Len(SubSeq(q, 1, n)) = n /\ \A j \in 1 .. n : SubSeq(q, 1, n)[j] = q[j]
  BY <1>3
<1> QED
  BY <1>1, <1>2, <1>3, <1>4

LEMMA Removed ==
  ASSUME NEW S, NEW q \in Seq(S), NEW i \in 1 .. Len(q)
  PROVE  /\ RemoveAt(q, i) \in Seq(S) /\ Len(RemoveAt(q, i)) = Len(q) - 1
         /\ \A j \in 1 .. Len(q) - 1 : RemoveAt(q, i)[j] = IF j < i THEN q[j] ELSE q[j + 1]
<1> DEFINE a == SubSeq(q, 1, i - 1)
           b == SubSeq(q, i + 1, Len(q))
<1>1. Len(q) \in Nat /\ i \in Int /\ 1 <= i /\ i <= Len(q)
  OBVIOUS
<1>2. /\ a \in Seq(S) /\ Len(a) = i - 1
      /\ \A j \in 1 .. i - 1 : a[j] = q[j]
  <2>1. /\ a \in Seq(S) /\ Len(a) = i - 1 - 1 + 1
        /\ \A j \in 1 .. i - 1 - 1 + 1 : a[j] = q[1 + j - 1]
    BY <1>1, SubSeqFacts
  <2> HIDE DEF a
  <2> QED
    BY <1>1, <2>1
<1>3. /\ b \in Seq(S) /\ Len(b) = Len(q) - i
      /\ \A j \in 1 .. Len(q) - i : b[j] = q[i + j]
  <2>1. /\ b \in Seq(S) /\ Len(b) = Len(q) - (i + 1) + 1
        /\ \A j \in 1 .. Len(q) - (i + 1) + 1 : b[j] = q[i + 1 + j - 1]
    BY <1>1, SubSeqFacts
  <2> HIDE DEF b
  <2> QED
    BY <1>1, <2>1
<1>4. RemoveAt(q, i) = a \o b
  BY DEF RemoveAt
<1> HIDE DEF a, b
<1>5. /\ a \o b \in Seq(S) /\ Len(a \o b) = Len(a) + Len(b)
      /\ \A j \in 1 .. Len(a) + Len(b) : (a \o b)[j] = IF j <= Len(a) THEN a[j] ELSE b[j - Len(a)]
  BY <1>2, <1>3, ConcatProperties
<1>6. Len(a \o b) = Len(q) - 1
  BY <1>1, <1>2, <1>3, <1>5
<1>7. ASSUME NEW j \in 1 .. Len(q) - 1
      PROVE  (a \o b)[j] = IF j < i THEN q[j] ELSE q[j + 1]
  <2>1. j \in 1 .. Len(a) + Len(b)
    BY <1>1, <1>2, <1>3
  <2>2. CASE j < i
    <3>1. j <= Len(a) /\ j \in 1 .. i - 1
      BY <1>1, <1>2, <2>2
    <3>2. (a \o b)[j] = a[j] /\ a[j] = q[j]
      BY <1>2, <1>5, <2>1, <3>1
    <3> QED
      BY <2>2, <3>2
  <2>3. CASE j >= i
    <3>1. j - Len(a) \in 1 .. Len(q) - i /\ ~(j <= Len(a)) /\ i + (j - Len(a)) = j + 1
      BY <1>1, <1>2, <2>3
    <3>2. b[j - Len(a)] = q[i + (j - Len(a))]
      BY <1>3, <3>1
    <3>3. (a \o b)[j] = b[j - Len(a)]
      BY <1>5, <2>1, <3>1
    <3>4. ~(j < i)
      BY <1>1, <2>3
    <3> QED
      BY <3>1, <3>2, <3>3, <3>4
  <2>4. j < i \/ j >= i
    BY <1>1
  <2> QED
    BY <2>2, <2>3, <2>4
<1> QED
  BY <1>4, <1>5, <1>6, <1>7

LEMMA LastBack ==
  ASSUME NEW S, NEW q \in Seq(S), q # << >>
  PROVE  Append(RemoveAt(q, Len(q)), q[Len(q)]) = q
<1>1. Len(q) \in 1 .. Len(q)
  OBVIOUS
<1> DEFINE r == RemoveAt(q, Len(q))
<1>2. /\ r \in Seq(S) /\ Len(r) = Len(q) - 1
      /\ \A j \in 1 .. Len(q) - 1 : r[j] = IF j < Len(q) THEN q[j] ELSE q[j + 1]
  BY <1>1, Removed
<1> HIDE DEF r
<1>3. q[Len(q)] \in S
  BY <1>1
<1>4. Append(r, q[Len(q)]) \in Seq(S) /\ Len(Append(r, q[Len(q)])) = Len(q)
  BY <1>1, <1>2, <1>3
<1>5. \A j \in 1 .. Len(q) : Append(r, q[Len(q)])[j] = q[j]
  BY <1>1, <1>2, <1>3
<1>6. Append(r, q[Len(q)]) = q
  BY <1>4, <1>5, SeqEqual
<1> QED
  BY <1>6 DEF r

-------------------------------------------------------------------------------
(* What the stashes hold.                                                               *)

LEMMA HoldsNothing ==
  ASSUME NEW m, NEW S, NEW q \in Seq(S)
  PROVE  Holds(m, q, << >>)
BY DEF Holds

LEMMA HoldsPushed ==
  ASSUME NEW m, NEW S, NEW q \in Seq(S), NEW E \in Seq(Calls), NEW c \in Calls,
         Arg(m, c.fn, c.regs) \in S, Holds(m, q, E)
  PROVE  Holds(m, Append(q, Arg(m, c.fn, c.regs)), Append(E, c))
<1> DEFINE v == Arg(m, c.fn, c.regs)
           k == Len(E)
           n == Len(q)
<1>1. /\ Len(Append(q, v)) = n + 1 /\ Append(q, v)[n + 1] = v
      /\ \A j \in 1 .. n : Append(q, v)[j] = q[j]
  OBVIOUS
<1>2. /\ Len(Append(E, c)) = k + 1 /\ Append(E, c)[k + 1] = c
      /\ \A j \in 1 .. k : Append(E, c)[j] = E[j]
  OBVIOUS
<1>3. k \in Nat /\ n \in Nat /\ n >= k
  BY DEF Holds
<1>4. \A i \in 1 .. k : q[n - k + i] = Arg(m, E[i].fn, E[i].regs)
  BY DEF Holds
<1> HIDE DEF v, k, n
<1>5. ASSUME NEW i \in 1 .. k + 1
      PROVE  Append(q, v)[(n + 1) - (k + 1) + i] = Arg(m, Append(E, c)[i].fn, Append(E, c)[i].regs)
  <2>1. CASE i = k + 1
    <3>1. (n + 1) - (k + 1) + i = n + 1
      BY <1>3, <2>1
    <3> QED
      BY <1>1, <1>2, <2>1, <3>1 DEF v
  <2>2. CASE i # k + 1
    <3>1. i \in 1 .. k /\ (n + 1) - (k + 1) + i = n - k + i /\ n - k + i \in 1 .. n
      BY <1>3, <2>2
    <3> QED
      BY <1>1, <1>2, <1>4, <3>1
  <2> QED
    BY <2>1, <2>2
<1>6. n + 1 >= k + 1
  BY <1>3
<1>7. Holds(m, Append(q, v), Append(E, c))
  BY <1>1, <1>2, <1>5, <1>6 DEF Holds
<1> QED
  BY <1>7 DEF v

LEMMA HoldsPopped ==
  ASSUME NEW m, NEW S, NEW q \in Seq(S), NEW E \in Seq(Calls), NEW c \in Calls,
         Holds(m, q, Append(E, c))
  PROVE  /\ q # << >> /\ q[Len(q)] = Arg(m, c.fn, c.regs)
         /\ Holds(m, SubSeq(q, 1, Len(q) - 1), E)
<1> DEFINE k == Len(E)
           n == Len(q)
           r == SubSeq(q, 1, n - 1)
<1>1. /\ Len(Append(E, c)) = k + 1 /\ Append(E, c)[k + 1] = c
      /\ \A j \in 1 .. k : Append(E, c)[j] = E[j]
  OBVIOUS
<1>2. k \in Nat /\ n \in Nat /\ n >= k + 1
  BY <1>1 DEF Holds
<1>3. \A i \in 1 .. k + 1 : q[n - (k + 1) + i] = Arg(m, Append(E, c)[i].fn, Append(E, c)[i].regs)
  BY <1>1 DEF Holds
<1>4. q # << >>
  BY <1>2
<1>5. Len(r) = n - 1 /\ \A i \in 1 .. n - 1 : r[i] = q[i]
  BY <1>4, LastDropped
<1> HIDE DEF k, n, r
<1>6. q[n] = Arg(m, c.fn, c.regs)
  <2>1. k + 1 \in 1 .. k + 1 /\ n - (k + 1) + (k + 1) = n
    BY <1>2
  <2> QED
    BY <1>1, <1>3, <2>1
<1>7. ASSUME NEW i \in 1 .. k
      PROVE  r[(n - 1) - k + i] = Arg(m, E[i].fn, E[i].regs)
  <2>1. i \in 1 .. k + 1 /\ (n - 1) - k + i = n - (k + 1) + i /\ n - (k + 1) + i \in 1 .. n - 1
    BY <1>2
  <2> QED
    BY <1>1, <1>3, <1>5, <2>1
<1>8. n - 1 >= k
  BY <1>2
<1>9. Holds(m, r, E)
  BY <1>5, <1>7, <1>8 DEF Holds, k
<1> QED
  BY <1>4, <1>6, <1>9 DEF n, r

-------------------------------------------------------------------------------
(* What an observation does to the stashes of each site.                                *)

LEMMA ModeFacts ==
  /\ \A f, regs : Stash(f, regs) = Arg(mode, f, regs)
  /\ \A f : AtEntry(f) = EntryReport(mode, f)
  /\ \A f : Stashes(f) = (How(f) \in Families[mode])
  /\ \A m \in DOMAIN Families : Families[m] \subseteq AllFamilies
  /\ \A m, f : EntryReport(m, f) => m = "sanitize" /\ How(f) \notin Families[m]
<1>1. \A m, f : EntryReport(m, f) => m = "sanitize" /\ How(f) \notin Families[m]
  BY DEF EntryReport, Families
<1>2. \A m \in DOMAIN Families : Families[m] \subseteq AllFamilies
  BY DEF AllFamilies
<1> QED
  BY <1>1, <1>2 DEF Stash, Arg, AtEntry, EntryReport, Stashes

LEMMA PcCases ==
  ASSUME NEW p \in Pcs
  PROVE  /\ p.at \in {"plain", "entry", "return", "again"}
         /\ p.at = "plain" <=> p = Plain
         /\ p.at = "entry" <=> p \in Entries
         /\ p.at = "return" <=> p \in Returns
         /\ p.at = "again" <=> p \in Agains
         /\ p.at = "entry" => p.fn \in Symbols /\ p.site \in DOMAIN Sites /\ p.regs \in RegFiles /\ p.first \in BOOLEAN
         /\ p.at = "return" => p.fn \in Symbols /\ p.site \in DOMAIN Sites /\ p.regs \in RegFiles
         /\ p.at = "again" => p.site \in DOMAIN Sites
BY DEF Pcs, Plain, Entries, Returns, Agains

LEMMA ParkCases ==
  ASSUME NEW p \in Parks
  PROVE  p \in Pcs /\ p.at # "return" /\ (p.at = "entry" => ~p.first)
BY DEF Parks, Pcs, Plain, Entries, Agains

LEMMA QueueType ==
  ASSUME NEW m \in DOMAIN Families, NEW P \in [AllFamilies -> [DOMAIN Sites -> Seq(Payloads(m))]],
         NEW s \in DOMAIN Sites
  PROVE  Queue(m, P, s) \in Seq(Payloads(m))
<1>1. CASE Stashed(m, s)
  <2>1. How(Sites[s]) \in AllFamilies
    BY <1>1, ModeFacts DEF Stashed
  <2> QED
    BY <1>1, <2>1 DEF Queue
<1>2. CASE ~Stashed(m, s)
  BY <1>2 DEF Queue
<1> QED
  BY <1>1, <1>2

LEMMA EntrySeen ==
  ASSUME Shape, Observe, pc.at = "entry"
  PROVE  /\ pending' \in [AllFamilies -> [DOMAIN Sites -> Seq(Payloads(mode))]]
         /\ OneQueue(mode, pending')
         /\ \A s \in DOMAIN Sites :
              Queue(mode, pending', s) =
                IF s = pc.site /\ Stashed(mode, s) THEN Append(Queue(mode, pending, s), Arg(mode, pc.fn, pc.regs))
                ELSE Queue(mode, pending, s)
         /\ spurious' = IF ~pc.first /\ EntryReport(mode, pc.fn)
                          THEN [spurious EXCEPT ![pc.site] = @ + 1] ELSE spurious
<1> DEFINE h == How(pc.fn)
           v == Arg(mode, pc.fn, pc.regs)
           u == pc.site
<1>1. pc.fn \in Symbols /\ u \in DOMAIN Sites /\ pc.regs \in RegFiles /\ pc.first \in BOOLEAN /\ mode \in DOMAIN Families
  BY PcCases DEF Shape
<1>2. v \in Payloads(mode)
  BY <1>1 DEF Payloads
<1>3. h = How(Sites[u])
  BY DEF Shape, SameHow
<1>4. pending' = IF h \in Families[mode] THEN [pending EXCEPT ![h][u] = Append(@, v)] ELSE pending
  BY ModeFacts DEF Observe
<1>5. pending \in [AllFamilies -> [DOMAIN Sites -> Seq(Payloads(mode))]] /\ OneQueue(mode, pending)
  BY DEF Shape
<1>6. h \in Families[mode] => h \in AllFamilies
  BY <1>1, ModeFacts
<1>7. spurious' = IF ~pc.first /\ EntryReport(mode, pc.fn)
                    THEN [spurious EXCEPT ![u] = @ + 1] ELSE spurious
  <2>1. Events = IF EntryReport(mode, pc.fn) THEN {Event(h, v)} ELSE {}
    BY ModeFacts DEF Events
  <2>2. Cardinality(Events) = IF EntryReport(mode, pc.fn) THEN 1 ELSE 0
    BY <2>1, FS_EmptySet, FS_Singleton
  <2>3. spurious' = IF ~pc.first THEN [spurious EXCEPT ![u] = @ + Cardinality(Events)] ELSE spurious
    BY <1>1 DEF Observe
  <2>4. [spurious EXCEPT ![u] = @ + 0] = spurious
    BY <1>1 DEF Shape
  <2> QED
    BY <2>2, <2>3, <2>4
<1> HIDE DEF h, v, u
<1>8. CASE h \in Families[mode]
  <2>1. pending' = [pending EXCEPT ![h][u] = Append(@, v)]
    BY <1>4, <1>8
  <2>2. Append(pending[h][u], v) \in Seq(Payloads(mode))
    BY <1>1, <1>2, <1>5, <1>6, <1>8
  <2>3. pending' \in [AllFamilies -> [DOMAIN Sites -> Seq(Payloads(mode))]]
    BY <1>1, <1>5, <1>6, <1>8, <2>1, <2>2
  <2>4. ASSUME NEW g \in AllFamilies, NEW s \in DOMAIN Sites
        PROVE  pending'[g][s] = IF g = h /\ s = u THEN Append(pending[g][s], v) ELSE pending[g][s]
    BY <1>1, <1>5, <1>6, <1>8, <2>1
  <2>5. OneQueue(mode, pending')
    <3> SUFFICES ASSUME NEW g \in AllFamilies, NEW s \in DOMAIN Sites, ~(g = How(Sites[s]) /\ Stashed(mode, s))
                 PROVE  pending'[g][s] = << >>
      BY DEF OneQueue
    <3>1. ~(g = h /\ s = u)
      BY <1>3, <1>8 DEF Stashed, u
    <3> QED
      BY <1>5, <2>4, <3>1 DEF OneQueue
  <2>6. ASSUME NEW s \in DOMAIN Sites
        PROVE  Queue(mode, pending', s) =
                 IF s = u /\ Stashed(mode, s) THEN Append(Queue(mode, pending, s), v) ELSE Queue(mode, pending, s)
    <3>1. CASE Stashed(mode, s)
      <4>1. How(Sites[s]) \in AllFamilies
        BY <1>1, <3>1, ModeFacts DEF Stashed
      <4>2. s = u => How(Sites[s]) = h
        BY <1>3 DEF u
      <4>3. Queue(mode, pending', s) = pending'[How(Sites[s])][s] /\ Queue(mode, pending, s) = pending[How(Sites[s])][s]
        BY <3>1 DEF Queue
      <4> QED
        BY <2>4, <3>1, <4>1, <4>2, <4>3
    <3>2. CASE ~Stashed(mode, s)
      BY <3>2 DEF Queue
    <3> QED
      BY <3>1, <3>2
  <2> QED
    BY <1>7, <2>3, <2>5, <2>6 DEF u, v
<1>9. CASE h \notin Families[mode]
  <2>1. pending' = pending
    BY <1>4, <1>9
  <2>2. ~Stashed(mode, u)
    BY <1>3, <1>9 DEF Stashed, u
  <2> QED
    BY <1>5, <1>7, <2>1, <2>2 DEF u
<1> QED
  BY <1>8, <1>9

LEMMA ReturnAnswer ==
  ASSUME Shape, pc.at \in {"return", "again"}
  PROVE  /\ Answering(pc.site) = IF Queue(mode, pending, pc.site) = << >> THEN {} ELSE {How(Sites[pc.site])}
         /\ Queue(mode, pending, pc.site) # << >> =>
              /\ How(Sites[pc.site]) \in AllFamilies /\ Stashed(mode, pc.site)
              /\ Queue(mode, pending, pc.site) = pending[How(Sites[pc.site])][pc.site]
         /\ Events = IF Queue(mode, pending, pc.site) = << >> THEN {}
                     ELSE {Event(How(Sites[pc.site]), Queue(mode, pending, pc.site)[Len(Queue(mode, pending, pc.site))])}
<1> DEFINE u == pc.site
           h == How(Sites[u])
           q == Queue(mode, pending, u)
<1>1. u \in DOMAIN Sites /\ mode \in DOMAIN Families
  BY PcCases DEF Shape
<1>2. Families[mode] \subseteq AllFamilies
  BY <1>1, ModeFacts
<1>3. q # << >> => h \in AllFamilies /\ Stashed(mode, u) /\ q = pending[h][u]
  BY <1>2 DEF Queue, Stashed
<1>4. Ready(u) = IF q = << >> THEN {} ELSE {h}
  <2>1. \A g \in Families[mode] : g # h => pending[g][u] = << >>
    BY <1>1, <1>2 DEF Shape, OneQueue
  <2>2. h \in Families[mode] => pending[h][u] = q
    BY DEF Queue, Stashed
  <2>3. h \notin Families[mode] => q = << >>
    BY DEF Queue, Stashed
  <2> HIDE DEF h, q, u
  <2> QED
    BY <2>1, <2>2, <2>3 DEF Ready
<1>5. q # << >> => h \in Families[mode]
  BY DEF Queue, Stashed
<1> HIDE DEF h, q, u
<1>6. Answering(u) = IF q = << >> THEN {} ELSE {h}
  <2>1. CASE q = << >>
    BY <1>4, <2>1 DEF Answering
  <2>2. CASE q # << >> /\ h = "alloc"
    <3>1. Ready(u) = {"alloc"}
      BY <1>4, <2>2
    <3>2. Ready(u) \ {"free"} = {"alloc"}
      BY <3>1
    <3> QED
      BY <2>2, <3>1, <3>2 DEF Answering
  <2>3. CASE q # << >> /\ h # "alloc"
    <3>1. Ready(u) = {h} /\ "alloc" \notin Ready(u)
      BY <1>4, <2>3
    <3> QED
      BY <2>3, <3>1 DEF Answering
  <2> QED
    BY <2>1, <2>2, <2>3
<1>7. Events = IF q = << >> THEN {} ELSE {Event(h, q[Len(q)])}
  <2>1. Events = {Event(g, Popped(pending[g][u])[1]) : g \in Answering(u)}
    BY DEF Events, u
  <2>2. CASE q = << >>
    BY <1>6, <2>1, <2>2
  <2>3. CASE q # << >>
    <3>1. Answering(u) = {h} /\ pending[h][u] = q
      BY <1>3, <1>6, <2>3
    <3>2. Popped(q)[1] = q[Len(q)]
      BY DEF Popped
    <3> QED
      BY <2>1, <2>3, <3>1, <3>2
  <2> QED
    BY <2>2, <2>3
<1> QED
  BY <1>3, <1>6, <1>7 DEF h, q, u

LEMMA ReturnSeen ==
  ASSUME Shape, Observe, pc.at \in {"return", "again"}
  PROVE  /\ pending' \in [AllFamilies -> [DOMAIN Sites -> Seq(Payloads(mode))]]
         /\ OneQueue(mode, pending')
         /\ \A s \in DOMAIN Sites :
              Queue(mode, pending', s) =
                IF s = pc.site /\ Queue(mode, pending, s) # << >>
                  THEN SubSeq(Queue(mode, pending, s), 1, Len(Queue(mode, pending, s)) - 1)
                  ELSE Queue(mode, pending, s)
         /\ spurious' = IF pc.at = "again" /\ Queue(mode, pending, pc.site) # << >>
                          THEN [spurious EXCEPT ![pc.site] = @ + 1] ELSE spurious
<1> DEFINE u == pc.site
           h == How(Sites[u])
           q == Queue(mode, pending, u)
           r == SubSeq(q, 1, Len(q) - 1)
<1>1. u \in DOMAIN Sites /\ mode \in DOMAIN Families
  BY PcCases DEF Shape
<1>2. /\ Answering(u) = IF q = << >> THEN {} ELSE {h}
      /\ q # << >> => h \in AllFamilies /\ Stashed(mode, u) /\ q = pending[h][u]
      /\ Events = IF q = << >> THEN {} ELSE {Event(h, q[Len(q)])}
  BY ReturnAnswer
<1>3. pending \in [AllFamilies -> [DOMAIN Sites -> Seq(Payloads(mode))]] /\ OneQueue(mode, pending)
  BY DEF Shape
<1>4. pending' = [g \in AllFamilies |->
                    IF g \in Answering(u) THEN [pending[g] EXCEPT ![u] = Popped(@)[2]] ELSE pending[g]]
  BY DEF Observe
<1>5. spurious' = IF pc.at = "again" /\ q # << >> THEN [spurious EXCEPT ![u] = @ + 1] ELSE spurious
  <2>1. Cardinality(Events) = IF q = << >> THEN 0 ELSE 1
    BY <1>2, FS_EmptySet, FS_Singleton
  <2>2. spurious' = IF pc.at = "again" THEN [spurious EXCEPT ![u] = @ + Cardinality(Events)] ELSE spurious
    BY DEF Observe
  <2>3. [spurious EXCEPT ![u] = @ + 0] = spurious
    BY <1>1 DEF Shape
  <2> HIDE DEF q
  <2> QED
    BY <2>1, <2>2, <2>3
<1>6. q \in Seq(Payloads(mode))
  BY <1>1, <1>3, QueueType
<1>7. q # << >> => r \in Seq(Payloads(mode))
  BY <1>6, LastDropped
<1>8. \A x : Popped(x)[2] = SubSeq(x, 1, Len(x) - 1)
  BY DEF Popped
<1> HIDE DEF h, q, u, r
<1>9. CASE q # << >>
  <2>1. pending' = [g \in AllFamilies |-> IF g = h THEN [pending[g] EXCEPT ![u] = Popped(@)[2]] ELSE pending[g]]
    BY <1>2, <1>4, <1>9
  <2>2. Popped(pending[h][u])[2] = r
    BY <1>2, <1>8, <1>9 DEF r
  <2>3. ASSUME NEW g \in AllFamilies, NEW s \in DOMAIN Sites
        PROVE  pending'[g][s] = IF g = h /\ s = u THEN r ELSE pending[g][s]
    BY <1>1, <1>2, <1>3, <1>9, <2>1, <2>2
  <2>4. pending' \in [AllFamilies -> [DOMAIN Sites -> Seq(Payloads(mode))]]
    <3>1. \A g \in AllFamilies : [pending[g] EXCEPT ![u] = r] \in [DOMAIN Sites -> Seq(Payloads(mode))]
      BY <1>1, <1>3, <1>7, <1>9
    <3>2. \A g \in AllFamilies : pending[g] \in [DOMAIN Sites -> Seq(Payloads(mode))]
      BY <1>3
    <3>3. pending' = [g \in AllFamilies |-> IF g = h THEN [pending[g] EXCEPT ![u] = r] ELSE pending[g]]
      BY <2>1, <2>2
    <3> QED
      BY <3>1, <3>2, <3>3
  <2>5. OneQueue(mode, pending')
    <3> SUFFICES ASSUME NEW g \in AllFamilies, NEW s \in DOMAIN Sites, ~(g = How(Sites[s]) /\ Stashed(mode, s))
                 PROVE  pending'[g][s] = << >>
      BY DEF OneQueue
    <3>1. ~(g = h /\ s = u)
      BY <1>2, <1>9 DEF h
    <3> QED
      BY <1>3, <2>3, <3>1 DEF OneQueue
  <2>6. ASSUME NEW s \in DOMAIN Sites
        PROVE  Queue(mode, pending', s) = IF s = u THEN r ELSE Queue(mode, pending, s)
    <3>1. CASE Stashed(mode, s)
      <4>1. How(Sites[s]) \in AllFamilies
        BY <1>1, <3>1, ModeFacts DEF Stashed
      <4>2. s = u => How(Sites[s]) = h
        BY DEF h
      <4>3. Queue(mode, pending', s) = pending'[How(Sites[s])][s] /\ Queue(mode, pending, s) = pending[How(Sites[s])][s]
        BY <3>1 DEF Queue
      <4> QED
        BY <2>3, <4>1, <4>2, <4>3
    <3>2. CASE ~Stashed(mode, s)
      <4>1. s # u
        BY <1>2, <1>9, <3>2
      <4> QED
        BY <3>2, <4>1 DEF Queue
    <3> QED
      BY <3>1, <3>2
  <2>7. \A s \in DOMAIN Sites : s = u => Queue(mode, pending, s) = q
    BY DEF q
  <2>8. \A s \in DOMAIN Sites :
          Queue(mode, pending', s) = IF s = u /\ Queue(mode, pending, s) # << >>
                                       THEN SubSeq(Queue(mode, pending, s), 1, Len(Queue(mode, pending, s)) - 1)
                                       ELSE Queue(mode, pending, s)
    <3> TAKE s \in DOMAIN Sites
    <3>1. CASE s = u
      BY <1>9, <2>6, <2>7, <3>1 DEF r
    <3>2. CASE s # u
      BY <2>6, <3>2
    <3> QED
      BY <3>1, <3>2
  <2> QED
    BY <1>5, <2>4, <2>5, <2>8 DEF u, q
<1>10. CASE q = << >>
  <2>1. pending' = pending
    <3>1. pending' = [g \in AllFamilies |-> pending[g]]
      BY <1>2, <1>4, <1>10
    <3> QED
      BY <1>3, <3>1
  <2>2. \A s \in DOMAIN Sites : s = u => Queue(mode, pending, s) = << >>
    BY <1>10 DEF q
  <2> QED
    BY <1>3, <1>5, <2>1, <2>2 DEF u, q
<1> QED
  BY <1>9, <1>10

-------------------------------------------------------------------------------
(* The charge of each site.                                                             *)

LEMMA RepeatsFinite ==
  ASSUME NEW m, NEW pk, NEW s
  PROVE  IsFiniteSet(Repeats(m, pk, s)) /\ Cardinality(Repeats(m, pk, s)) \in Nat
<1>1. Repeats(m, pk, s) \subseteq Tasks
  BY DEF Repeats
<1> QED
  BY <1>1, HooksAssumption, FS_Subset, FS_CardinalityType

LEMMA RepeatsMoved ==
  ASSUME NEW m, NEW pk, NEW pk2, NEW t \in Tasks, NEW x, NEW s,
         \A w \in Tasks : pk2[w] = IF w = t THEN x ELSE pk[w]
  PROVE  Cardinality(Repeats(m, pk2, s))
           = Cardinality(Repeats(m, pk, s)) - (IF Repeat(m, pk[t], s) THEN 1 ELSE 0)
               + (IF Repeat(m, x, s) THEN 1 ELSE 0)
<1> DEFINE A == Repeats(m, pk, s)
           B == Repeats(m, pk2, s)
<1>1. IsFiniteSet(A) /\ IsFiniteSet(B) /\ Cardinality(A) \in Nat /\ Cardinality(B) \in Nat
  BY RepeatsFinite
<1>3. /\ t \in A <=> Repeat(m, pk[t], s)
      /\ t \in B <=> Repeat(m, x, s)
      /\ A \ {t} = B \ {t}
  BY DEF Repeats
<1> HIDE DEF A, B
<1>4. /\ Cardinality(A \ {t}) = IF t \in A THEN Cardinality(A) - 1 ELSE Cardinality(A)
      /\ Cardinality(B \ {t}) = IF t \in B THEN Cardinality(B) - 1 ELSE Cardinality(B)
  BY <1>1, FS_RemoveElement
<1>5. Cardinality(B) = Cardinality(A) - (IF Repeat(m, pk[t], s) THEN 1 ELSE 0) + (IF Repeat(m, x, s) THEN 1 ELSE 0)
  <2>1. Cardinality(A \ {t}) = Cardinality(B \ {t})
    BY <1>3
  <2>2. PICK a \in Nat, b \in Nat : a = Cardinality(A) /\ b = Cardinality(B)
    BY <1>1
  <2>3. (IF t \in A THEN a - 1 ELSE a) = (IF t \in B THEN b - 1 ELSE b)
    BY <1>4, <2>1, <2>2
  <2>4. b = a - (IF t \in A THEN 1 ELSE 0) + (IF t \in B THEN 1 ELSE 0)
    BY <2>3
  <2> QED
    BY <1>3, <2>2, <2>4
<1> QED
  BY <1>5 DEF A, B

LEMMA LeftFacts ==
  ASSUME NEW S, NEW q \in Seq(S), NEW T, NEW E \in Seq(T)
  PROVE  /\ Left(q, E) \in Nat
         /\ q = << >> => Left(q, E) = 0
         /\ \A r \in Seq(S), F \in Seq(T) :
              /\ Len(r) - Len(F) <= Len(q) - Len(E) => Left(r, F) <= Left(q, E)
              /\ Len(r) - Len(F) <= Len(q) - Len(E) + 1 => Left(r, F) <= Left(q, E) + 1
BY DEF Left

LEMMA OwedType ==
  ASSUME NEW m, NEW calls, NEW p, NEW s
  PROVE  /\ Owed(m, calls, p, s) \in {0, 1}
         /\ p.at \in {"plain", "return"} => Owed(m, calls, p, s) = 0
BY DEF Owed, Repeat

LEMMA ExpectedFacts ==
  ASSUME NEW calls \in Seq(Calls), NEW p \in Pcs, NEW s \in DOMAIN Sites
  PROVE  /\ Expected(calls, p, s) \in Seq(Calls)
         /\ ~(p.at = "return" /\ p.site = s) => Expected(calls, p, s) = calls
         /\ p.at = "return" /\ p.site = s =>
              /\ [fn |-> p.fn, regs |-> p.regs] \in Calls
              /\ Expected(calls, p, s) = Append(calls, [fn |-> p.fn, regs |-> p.regs])
              /\ Len(Expected(calls, p, s)) = Len(calls) + 1
<1>1. CASE p.at = "return" /\ p.site = s
  <2>1. [fn |-> p.fn, regs |-> p.regs] \in Calls
    BY <1>1, PcCases DEF Calls
  <2>2. Expected(calls, p, s) = Append(calls, [fn |-> p.fn, regs |-> p.regs])
    BY <1>1 DEF Expected
  <2> HIDE DEF Calls
  <2> QED
    BY <1>1, <2>1, <2>2
<1>2. CASE ~(p.at = "return" /\ p.site = s)
  BY <1>2 DEF Expected
<1> QED
  BY <1>1, <1>2

LEMMA ShapeFacts ==
  ASSUME Shape, NEW s \in DOMAIN Sites
  PROVE  /\ mode \in DOMAIN Families
         /\ Queue(mode, pending, s) \in Seq(Payloads(mode)) /\ Len(Queue(mode, pending, s)) \in Nat
         /\ live[s] \in Seq(Calls) /\ Len(live[s]) \in Nat
         /\ strays[s] \in Nat /\ spurious[s] \in Nat
         /\ Left(Queue(mode, pending, s), Expected(live[s], pc, s)) \in Nat
         /\ Cardinality(Repeats(mode, parked, s)) \in Nat
         /\ Owed(mode, live[s], pc, s) \in {0, 1}
<1>1. mode \in DOMAIN Families /\ live[s] \in Seq(Calls) /\ strays[s] \in Nat /\ spurious[s] \in Nat /\ pc \in Pcs
  BY DEF Shape
<1>2. Queue(mode, pending, s) \in Seq(Payloads(mode))
  BY <1>1, QueueType DEF Shape
<1>3. Expected(live[s], pc, s) \in Seq(Calls)
  BY <1>1, ExpectedFacts
<1>4. Left(Queue(mode, pending, s), Expected(live[s], pc, s)) \in Nat
  BY <1>2, <1>3, LeftFacts
<1>5. Len(Queue(mode, pending, s)) \in Nat /\ Len(live[s]) \in Nat
  BY <1>1, <1>2
<1> QED
  BY <1>1, <1>2, <1>4, <1>5, RepeatsFinite, OwedType

\* Once a return address is seen, the calls still in flight are the ones that are held.
LEMMA ReturnSite ==
  ASSUME Shape, Marks, Stepped, Observe, pc.at \in {"return", "again"}, NEW s \in DOMAIN Sites
  PROVE  /\ Stashed(mode, s) /\ s \notin crossed => Holds(mode, Queue(mode, pending', s), live[s])
         /\ spurious'[s] \in Nat
         /\ spurious'[s] + Left(Queue(mode, pending', s), live[s])
              <= spurious[s] + Left(Queue(mode, pending, s), Expected(live[s], pc, s)) + Owed(mode, live[s], pc, s)
<1> DEFINE q == Queue(mode, pending, s)
           q1 == Queue(mode, pending', s)
           E == Expected(live[s], pc, s)
           calls == live[s]
           S == Payloads(mode)
<1>1. /\ mode \in DOMAIN Families /\ q \in Seq(S) /\ calls \in Seq(Calls) /\ spurious[s] \in Nat
      /\ Len(q) \in Nat /\ Len(calls) \in Nat /\ Owed(mode, calls, pc, s) \in {0, 1}
      /\ Left(q, E) \in Nat
  BY ShapeFacts
<1>2. /\ pending' \in [AllFamilies -> [DOMAIN Sites -> Seq(S)]]
      /\ q1 = IF s = pc.site /\ q # << >> THEN SubSeq(q, 1, Len(q) - 1) ELSE q
      /\ spurious' = IF pc.at = "again" /\ Queue(mode, pending, pc.site) # << >>
                       THEN [spurious EXCEPT ![pc.site] = @ + 1] ELSE spurious
  BY ReturnSeen
<1>3. pc \in Pcs /\ pc.site \in DOMAIN Sites /\ spurious \in [DOMAIN Sites -> Nat]
  BY PcCases DEF Shape
<1>4. spurious'[s] = IF pc.at = "again" /\ s = pc.site /\ q # << >> THEN spurious[s] + 1 ELSE spurious[s]
  BY <1>2, <1>3
<1>5. /\ E \in Seq(Calls)
      /\ ~(pc.at = "return" /\ pc.site = s) => E = calls
      /\ pc.at = "return" /\ pc.site = s =>
           [fn |-> pc.fn, regs |-> pc.regs] \in Calls /\ E = Append(calls, [fn |-> pc.fn, regs |-> pc.regs])
           /\ Len(E) = Len(calls) + 1
  BY <1>1, <1>3, ExpectedFacts
<1>6. Stashed(mode, s) /\ s \notin crossed => Holds(mode, q, E)
  BY DEF Marks
<1>7. pc.at = "again" /\ s = pc.site /\ s \notin crossed => calls = << >>
  BY DEF Stepped
<1>8. pc.at = "again" /\ s = pc.site /\ calls # << >> => Owed(mode, calls, pc, s) = 1
  BY DEF Owed
<1>9. q1 \in Seq(S)
  BY <1>1, <1>2, QueueType
<1> HIDE DEF q, q1, E, calls, S
<1>10. q # << >> => Len(q) >= 1 /\ Len(SubSeq(q, 1, Len(q) - 1)) = Len(q) - 1
  BY <1>1, LastDropped
<1>11. CASE s # pc.site
  <2>1. q1 = q /\ E = calls /\ spurious'[s] = spurious[s]
    BY <1>2, <1>4, <1>5, <1>11
  <2> QED
    BY <1>1, <1>6, <2>1 DEF q, q1, E, calls
<1>12. CASE s = pc.site /\ pc.at = "return"
  <2>1. spurious'[s] = spurious[s] /\ Len(E) = Len(calls) + 1
    BY <1>4, <1>5, <1>12
  <2>2. Stashed(mode, s) /\ s \notin crossed => Holds(mode, q1, calls)
    <3> SUFFICES ASSUME Stashed(mode, s), s \notin crossed PROVE Holds(mode, q1, calls)
      OBVIOUS
    <3> DEFINE c == [fn |-> pc.fn, regs |-> pc.regs]
    <3>1. c \in Calls /\ E = Append(calls, c)
      BY <1>5, <1>12
    <3> HIDE DEF c
    <3>2. Holds(mode, q, Append(calls, c))
      BY <1>6, <3>1
    <3>3. q # << >> /\ Holds(mode, SubSeq(q, 1, Len(q) - 1), calls)
      BY <1>1, <3>1, <3>2, HoldsPopped
    <3> QED
      BY <1>2, <1>12, <3>3
  <2>3. Left(q1, calls) <= Left(q, E)
    <3>1. CASE q = << >>
      <4>1. q1 = << >>
        BY <1>2, <3>1
      <4>2. Left(q1, calls) = 0
        BY <1>1, <1>9, <4>1, LeftFacts
      <4> QED
        BY <1>1, <4>2
    <3>2. CASE q # << >>
      <4>1. q1 = SubSeq(q, 1, Len(q) - 1)
        BY <1>2, <1>12, <3>2
      <4>2. Len(q1) = Len(q) - 1
        BY <1>10, <3>2, <4>1
      <4>3. Len(q1) - Len(calls) <= Len(q) - Len(E)
        BY <1>1, <2>1, <4>2
      <4> QED
        BY <1>1, <1>5, <1>9, <4>3, LeftFacts
    <3> QED
      BY <3>1, <3>2
  <2>4. Left(q1, calls) \in Nat
    BY <1>1, <1>9, LeftFacts
  <2>5. spurious'[s] + Left(q1, calls) <= spurious[s] + Left(q, E) + Owed(mode, calls, pc, s)
    BY <1>1, <2>1, <2>3, <2>4
  <2> QED
    BY <1>1, <2>1, <2>2, <2>5 DEF q, q1, E, calls
<1>13. CASE s = pc.site /\ pc.at = "again"
  <2>1. E = calls
    BY <1>5, <1>13
  <2>2. Stashed(mode, s) /\ s \notin crossed => Holds(mode, q1, calls)
    BY <1>7, <1>9, <1>13, HoldsNothing
  <2>3. CASE q = << >>
    <3>1. q1 = q /\ spurious'[s] = spurious[s]
      BY <1>2, <1>4, <2>3
    <3>2. spurious'[s] + Left(q1, calls) <= spurious[s] + Left(q, E) + Owed(mode, calls, pc, s)
      BY <1>1, <2>1, <3>1
    <3> QED
      BY <1>1, <2>2, <3>1, <3>2 DEF q, q1, E, calls
  <2>4. CASE q # << >>
    <3>1. spurious'[s] = spurious[s] + 1
      BY <1>4, <1>13, <2>4
    <3>2. q1 = SubSeq(q, 1, Len(q) - 1)
      BY <1>2, <1>13, <2>4
    <3>3. Len(q1) = Len(q) - 1 /\ Len(q) >= 1
      BY <1>10, <2>4, <3>2
    <3>4. Left(q1, calls) \in Nat /\ Left(q1, calls) <= Left(q, E)
      <4>1. Len(q1) - Len(calls) <= Len(q) - Len(E)
        BY <1>1, <2>1, <3>3
      <4> QED
        BY <1>1, <1>5, <1>9, <4>1, LeftFacts
    <3>5. calls = << >> => Left(q1, calls) = Left(q, E) - 1
      BY <1>1, <2>1, <3>3 DEF Left
    <3>6. spurious'[s] + Left(q1, calls) <= spurious[s] + Left(q, E) + Owed(mode, calls, pc, s)
      BY <1>1, <1>8, <1>13, <3>1, <3>4, <3>5
    <3> QED
      BY <1>1, <2>2, <3>1, <3>6 DEF q, q1, E, calls
  <2> QED
    BY <2>3, <2>4
<1> QED
  BY <1>11, <1>12, <1>13

-------------------------------------------------------------------------------
(* Every action keeps the invariant.                                                    *)

\* A step that keeps the mode, stated with its new values.
ShapeOf(m, P, lv, pk, p, st, sp) ==
  /\ P \in [AllFamilies -> [DOMAIN Sites -> Seq(Payloads(m))]]
  /\ OneQueue(m, P)
  /\ lv \in [DOMAIN Sites -> Seq(Calls)]
  /\ \A s \in DOMAIN Sites : \A i \in 1 .. Len(lv[s]) : SameHow(lv[s][i], s)
  /\ p \in Pcs
  /\ p.at \in {"entry", "return"} => SameHow(p, p.site)
  /\ pk \in [Tasks -> Parks]
  /\ \A t \in Tasks : pk[t].at = "entry" => SameHow(pk[t], pk[t].site)
  /\ st \in [DOMAIN Sites -> Nat]
  /\ sp \in [DOMAIN Sites -> Nat]

SiteOk(m, P, lv, pk, p, st, cr, sp, s) ==
  /\ Stashed(m, s) /\ s \notin cr => Holds(m, Queue(m, P, s), Expected(lv[s], p, s))
  /\ Charge(m, P, lv[s], pk, p, sp[s], s) <= st[s]

LEMMA StepFrom ==
  ASSUME mode' = mode, mode \in DOMAIN Families,
         ShapeOf(mode, pending', live', parked', pc', strays', spurious'),
         pc'.at = "again" /\ live'[pc'.site] # << >> => pc'.site \in crossed',
         \A s \in DOMAIN Sites : SiteOk(mode, pending', live', parked', pc', strays', crossed', spurious', s)
  PROVE  HooksInv'
<1>1. Shape'
  BY DEF Shape, ShapeOf
<1>2. Marks'
  BY DEF Marks, SiteOk
<1>3. Charges'
  BY DEF Charges, SiteOk
<1>4. Stepped'
  BY DEF Stepped
<1> QED
  BY <1>1, <1>2, <1>3, <1>4 DEF HooksInv

LEMMA StepOf ==
  ASSUME HooksInv
  PROVE  /\ mode \in DOMAIN Families
         /\ ShapeOf(mode, pending, live, parked, pc, strays, spurious)
         /\ Stepped /\ Shape /\ Marks /\ Charges
         /\ \A s \in DOMAIN Sites : SiteOk(mode, pending, live, parked, pc, strays, crossed, spurious, s)
<1>1. mode \in DOMAIN Families /\ ShapeOf(mode, pending, live, parked, pc, strays, spurious)
  BY DEF HooksInv, Shape, ShapeOf
<1>2. \A s \in DOMAIN Sites : SiteOk(mode, pending, live, parked, pc, strays, crossed, spurious, s)
  BY DEF HooksInv, Marks, Charges, SiteOk
<1> QED
  BY <1>1, <1>2 DEF HooksInv

LEMMA EntryPc ==
  ASSUME NEW f \in Symbols, NEW s \in DOMAIN Sites, NEW regs \in RegFiles
  PROVE  /\ Entry(f, s, regs) \in Pcs /\ Entry(f, s, regs).at = "entry" /\ Entry(f, s, regs).fn = f
         /\ Entry(f, s, regs).site = s /\ Entry(f, s, regs).first
BY DEF Pcs, Entry, Entries

LEMMA ReturnPc ==
  ASSUME NEW c \in Calls, NEW s \in DOMAIN Sites
  PROVE  /\ Return(c, s) \in Pcs /\ Return(c, s).at = "return" /\ Return(c, s).fn = c.fn
         /\ Return(c, s).site = s /\ [fn |-> Return(c, s).fn, regs |-> Return(c, s).regs] = c
BY DEF Pcs, Return, Returns, Calls

LEMMA AgainPc ==
  ASSUME NEW s \in DOMAIN Sites
  PROVE  /\ Again(s) \in Pcs /\ Again(s) \in Parks /\ Again(s).at = "again" /\ Again(s).site = s
         /\ \A m, u : ~Repeat(m, Again(s), u)
BY DEF Pcs, Parks, Again, Agains, Repeat

LEMMA PlainPc ==
  /\ Plain \in Pcs /\ Plain \in Parks /\ Plain.at = "plain"
  /\ \A m, s : ~Repeat(m, Plain, s)
  /\ \A m, calls, s : Expected(calls, Plain, s) = calls /\ Owed(m, calls, Plain, s) = 0
BY DEF Pcs, Parks, Plain, Repeat, Expected, Owed

LEMMA KeepCallFn ==
  ASSUME HooksInv, NEW u \in DOMAIN Sites, NEW regs \in RegFiles, CallFn(u, regs)
  PROVE  HooksInv'
<1> DEFINE p == Entry(Sites[u], u, regs)
<1>1. /\ mode' = mode /\ pending' = pending /\ live' = live /\ parked' = parked /\ strays' = strays
      /\ crossed' = crossed /\ spurious' = spurious /\ pc = Plain /\ pc' = p
  BY DEF CallFn, Quiet, ghosts
<1>2. Sites[u] \in Symbols
  BY HooksAssumption
<1>3. p \in Pcs /\ p.at = "entry" /\ p.fn = Sites[u] /\ p.site = u /\ p.first
  BY <1>2, EntryPc
<1> HIDE DEF p
<1>4. ShapeOf(mode, pending', live', parked', pc', strays', spurious')
  BY <1>1, <1>3, StepOf DEF ShapeOf, SameHow
<1>5. ASSUME NEW s \in DOMAIN Sites
      PROVE  SiteOk(mode, pending', live', parked', pc', strays', crossed', spurious', s)
  <2>1. Expected(live[s], pc, s) = live[s] /\ Expected(live[s], p, s) = live[s]
    BY <1>1, <1>3 DEF Expected, Plain
  <2>2. Owed(mode, live[s], pc, s) = 0 /\ Owed(mode, live[s], p, s) = 0
    BY <1>1, <1>3 DEF Owed, Plain, Repeat
  <2> QED
    BY <1>1, <2>1, <2>2, StepOf DEF SiteOk, Charge
<1> QED
  BY <1>1, <1>3, <1>4, <1>5, StepOf, StepFrom

\* What a seen return address leaves, with the current pc left.
LEMMA SeenReturn ==
  ASSUME HooksInv, Observe, pc.at \in {"return", "again"}, NEW s \in DOMAIN Sites
  PROVE  /\ pending' \in [AllFamilies -> [DOMAIN Sites -> Seq(Payloads(mode))]] /\ OneQueue(mode, pending')
         /\ spurious' \in [DOMAIN Sites -> Nat]
         /\ SiteOk(mode, pending', live, parked, Plain, strays, crossed, spurious', s)
<1>2. /\ Shape /\ Marks /\ Stepped /\ mode \in DOMAIN Families
      /\ ShapeOf(mode, pending, live, parked, pc, strays, spurious)
  BY StepOf
<1>3. pending' \in [AllFamilies -> [DOMAIN Sites -> Seq(Payloads(mode))]] /\ OneQueue(mode, pending')
  BY <1>2, ReturnSeen
<1>4. spurious' \in [DOMAIN Sites -> Nat]
  <2>1. \A u \in DOMAIN Sites : spurious'[u] \in Nat
    BY <1>2, ReturnSite
  <2>2. spurious' = [u \in DOMAIN Sites |-> spurious'[u]]
    BY <1>2, ReturnSeen DEF ShapeOf
  <2> QED
    BY <2>1, <2>2
<1>5. /\ Stashed(mode, s) /\ s \notin crossed => Holds(mode, Queue(mode, pending', s), live[s])
      /\ spurious'[s] + Left(Queue(mode, pending', s), live[s])
           <= spurious[s] + Left(Queue(mode, pending, s), Expected(live[s], pc, s)) + Owed(mode, live[s], pc, s)
  BY <1>2, ReturnSite
<1>6. Charge(mode, pending, live[s], parked, pc, spurious[s], s) <= strays[s]
  BY StepOf DEF SiteOk
<1>7. /\ spurious[s] \in Nat /\ Left(Queue(mode, pending, s), Expected(live[s], pc, s)) \in Nat
      /\ Cardinality(Repeats(mode, parked, s)) \in Nat /\ Owed(mode, live[s], pc, s) \in {0, 1} /\ strays[s] \in Nat
  BY <1>2, ShapeFacts
<1>8. spurious'[s] \in Nat /\ Left(Queue(mode, pending', s), live[s]) \in Nat
  <2>1. Queue(mode, pending', s) \in Seq(Payloads(mode)) /\ live[s] \in Seq(Calls)
    BY <1>2, <1>3, QueueType DEF ShapeOf
  <2> QED
    BY <1>4, <2>1, LeftFacts
<1>9. Charge(mode, pending', live[s], parked, Plain, spurious'[s], s) <= strays[s]
  BY <1>5, <1>6, <1>7, <1>8, PlainPc DEF Charge
<1> QED
  BY <1>3, <1>4, <1>5, <1>9, PlainPc DEF SiteOk

LEMMA KeepProceed ==
  ASSUME HooksInv, Proceed
  PROVE  HooksInv'
<1>1. /\ mode' = mode /\ live' = live /\ parked' = parked /\ strays' = strays /\ crossed' = crossed
      /\ pc.at \in {"return", "again"} /\ Observe /\ pc' = Plain
  BY DEF Proceed, ghosts
<1>2. mode \in DOMAIN Families /\ ShapeOf(mode, pending, live, parked, pc, strays, spurious) /\ pc.site \in DOMAIN Sites
  BY <1>1, StepOf, PcCases DEF ShapeOf
<1>3. ShapeOf(mode, pending', live', parked', pc', strays', spurious')
  BY <1>1, <1>2, SeenReturn, PlainPc DEF ShapeOf
<1>4. \A s \in DOMAIN Sites : SiteOk(mode, pending', live', parked', pc', strays', crossed', spurious', s)
  BY <1>1, SeenReturn
<1> QED
  BY <1>1, <1>2, <1>3, <1>4, PlainPc, StepFrom

\* Parking a task that was nowhere in particular at a pc with no report of its own.
LEMMA ParkAgain ==
  ASSUME HooksInv, NEW t \in Tasks, parked[t] = Plain, NEW u \in DOMAIN Sites, NEW s
  PROVE  Cardinality(Repeats(mode, [parked EXCEPT ![t] = Again(u)], s)) = Cardinality(Repeats(mode, parked, s))
<1>1. DOMAIN parked = Tasks
  BY DEF HooksInv, Shape
<1>2. ~Repeat(mode, parked[t], s) /\ ~Repeat(mode, Again(u), s)
  BY PlainPc, AgainPc
<1> DEFINE pk == [parked EXCEPT ![t] = Again(u)]
<1>5. \A w \in Tasks : pk[w] = IF w = t THEN Again(u) ELSE parked[w]
  BY <1>1
<1>3. Cardinality(Repeats(mode, pk, s))
        = Cardinality(Repeats(mode, parked, s)) - (IF Repeat(mode, parked[t], s) THEN 1 ELSE 0)
            + (IF Repeat(mode, Again(u), s) THEN 1 ELSE 0)
  <2> HIDE DEF pk
  <2> QED
    BY <1>5, RepeatsMoved
<1>4. Cardinality(Repeats(mode, parked, s)) \in Nat
  BY RepeatsFinite
<1> QED
  BY <1>2, <1>3, <1>4

LEMMA KeepInterruptReturn ==
  ASSUME HooksInv, NEW t \in Tasks, Interrupt(t), pc.at # "entry"
  PROVE  HooksInv'
<1> DEFINE pk == [parked EXCEPT ![t] = Again(pc.site)]
<1>1. /\ mode' = mode /\ live' = live /\ parked' = pk /\ strays' = strays /\ crossed' = crossed
      /\ parked[t] = Plain /\ pc # Plain /\ Observe /\ pc' = Plain
  BY DEF Interrupt, ghosts
<1>2. mode \in DOMAIN Families /\ ShapeOf(mode, pending, live, parked, pc, strays, spurious) /\ pc \in Pcs
  BY StepOf DEF ShapeOf
<1>3. pc.at \in {"return", "again"} /\ pc.site \in DOMAIN Sites
  BY <1>1, <1>2, PcCases
<1>4. ShapeOf(mode, pending', live', parked', pc', strays', spurious')
  <2>1. pk \in [Tasks -> Parks] /\ \A w \in Tasks : pk[w].at = "entry" => SameHow(pk[w], pk[w].site)
    <3>1. Again(pc.site) \in Parks /\ Again(pc.site).at = "again"
      BY <1>3, AgainPc
    <3> HIDE DEF Parks
    <3> QED
      BY <1>2, <3>1 DEF ShapeOf
  <2> QED
    BY <1>1, <1>2, <1>3, <2>1, SeenReturn, PlainPc DEF ShapeOf
<1>5. ASSUME NEW s \in DOMAIN Sites
      PROVE  SiteOk(mode, pending', live', parked', pc', strays', crossed', spurious', s)
  <2>1. Cardinality(Repeats(mode, pk, s)) = Cardinality(Repeats(mode, parked, s))
    BY <1>1, <1>3, ParkAgain
  <2>2. SiteOk(mode, pending', live, parked, Plain, strays, crossed, spurious', s)
    BY <1>1, <1>3, SeenReturn
  <2> HIDE DEF pk
  <2> QED
    BY <1>1, <2>1, <2>2 DEF SiteOk, Charge
<1> QED
  BY <1>1, <1>2, <1>4, <1>5, PlainPc, StepFrom

LEMMA StrayFacts ==
  ASSUME HooksInv, NEW u \in DOMAIN Sites, NEW b, Stray(u, b)
  PROVE  /\ strays' \in [DOMAIN Sites -> Nat]
         /\ \A s \in DOMAIN Sites : strays'[s] = IF s = u THEN strays[s] + 1 ELSE strays[s]
         /\ \A s \in DOMAIN Sites : s \in crossed => s \in crossed'
         /\ \A s \in DOMAIN Sites : s # u => (s \in crossed' <=> s \in crossed)
         /\ b => u \in crossed'
BY DEF HooksInv, Shape, Stray

LEMMA KeepInterruptEntry ==
  ASSUME HooksInv, NEW t \in Tasks, Interrupt(t), pc.at = "entry"
  PROVE  HooksInv'
<1> DEFINE u == pc.site
           x == [pc EXCEPT !.first = FALSE]
           pk == [parked EXCEPT ![t] = x]
<1>1. /\ mode' = mode /\ live' = live /\ parked' = pk /\ Stray(u, live[u] # << >>)
      /\ parked[t] = Plain /\ pc # Plain /\ Observe /\ pc' = Plain
  BY DEF Interrupt
<1>2. /\ mode \in DOMAIN Families /\ ShapeOf(mode, pending, live, parked, pc, strays, spurious) /\ pc \in Pcs
      /\ Shape
  BY StepOf DEF ShapeOf
<1>3. u \in DOMAIN Sites /\ pc \in Entries /\ SameHow(pc, u)
  BY <1>2, PcCases DEF ShapeOf
<1>4. x \in Parks /\ x.at = "entry" /\ x.site = u /\ x.fn = pc.fn
  BY <1>3 DEF Entries, Parks
<1>5. /\ pending' \in [AllFamilies -> [DOMAIN Sites -> Seq(Payloads(mode))]] /\ OneQueue(mode, pending')
      /\ \A s \in DOMAIN Sites :
           Queue(mode, pending', s) =
             IF s = u /\ Stashed(mode, s) THEN Append(Queue(mode, pending, s), Arg(mode, pc.fn, pc.regs))
             ELSE Queue(mode, pending, s)
      /\ spurious' = IF ~pc.first /\ EntryReport(mode, pc.fn)
                       THEN [spurious EXCEPT ![u] = @ + 1] ELSE spurious
  BY <1>1, <1>2, EntrySeen
<1>6. /\ strays' \in [DOMAIN Sites -> Nat]
      /\ \A s \in DOMAIN Sites : strays'[s] = IF s = u THEN strays[s] + 1 ELSE strays[s]
      /\ \A s \in DOMAIN Sites : s \in crossed => s \in crossed'
      /\ \A s \in DOMAIN Sites : s # u => (s \in crossed' <=> s \in crossed)
      /\ live[u] # << >> => u \in crossed'
  BY <1>1, <1>3, StrayFacts
<1>7. EntryReport(mode, pc.fn) => ~Stashed(mode, u)
  BY <1>3, ModeFacts DEF Stashed, SameHow
<1> HIDE DEF u, x
<1>8. ShapeOf(mode, pending', live', parked', pc', strays', spurious')
  <2>1. pk \in [Tasks -> Parks] /\ \A w \in Tasks : pk[w].at = "entry" => SameHow(pk[w], pk[w].site)
    <3>1. SameHow(x, u)
      BY <1>3, <1>4 DEF SameHow
    <3> HIDE DEF Parks
    <3> QED
      BY <1>2, <1>4, <3>1 DEF ShapeOf
  <2>2. spurious' \in [DOMAIN Sites -> Nat]
    BY <1>2, <1>3, <1>5 DEF ShapeOf
  <2> QED
    BY <1>1, <1>2, <1>5, <1>6, <2>1, <2>2, PlainPc DEF ShapeOf
<1>9. ASSUME NEW s \in DOMAIN Sites
      PROVE  SiteOk(mode, pending', live', parked', pc', strays', crossed', spurious', s)
  <2> DEFINE q == Queue(mode, pending, s)
             q1 == Queue(mode, pending', s)
             r == IF EntryReport(mode, pc.fn) THEN 1 ELSE 0
             o == Owed(mode, live[s], pc, s)
             n == Cardinality(Repeats(mode, parked, s))
  <2>1. /\ q \in Seq(Payloads(mode)) /\ live[s] \in Seq(Calls) /\ Len(q) \in Nat /\ Len(live[s]) \in Nat
        /\ strays[s] \in Nat /\ spurious[s] \in Nat /\ n \in Nat /\ o \in {0, 1}
        /\ q1 \in Seq(Payloads(mode))
    BY <1>2, <1>5, ShapeFacts, QueueType
  <2>2. Expected(live[s], pc, s) = live[s] /\ Expected(live[s], Plain, s) = live[s] /\ Owed(mode, live[s], Plain, s) = 0
    <3>1. Expected(live[s], pc, s) = live[s]
      BY DEF Expected
    <3> QED
      BY <3>1, PlainPc
  <2>3. /\ Stashed(mode, s) /\ s \notin crossed => Holds(mode, q, live[s])
        /\ spurious[s] + Left(q, live[s]) + n + o <= strays[s]
    BY <2>2, StepOf DEF SiteOk, Charge
  <2>4. Left(q, live[s]) \in Nat /\ Left(q1, live[s]) \in Nat
    BY <2>1, LeftFacts
  <2>5. Stashed(mode, s) /\ s \notin crossed' => Holds(mode, q1, live[s])
    <3>1. CASE s = u
      BY <1>6, <2>1, <3>1, HoldsNothing
    <3>2. CASE s # u
      BY <1>5, <1>6, <2>3, <3>2
    <3> QED
      BY <3>1, <3>2
  <2>6. Cardinality(Repeats(mode, pk, s)) = n - 0 + (IF Repeat(mode, x, s) THEN 1 ELSE 0)
    <3>1. DOMAIN parked = Tasks /\ ~Repeat(mode, parked[t], s)
      BY <1>1, <1>2, PlainPc DEF ShapeOf
    <3>2. Cardinality(Repeats(mode, pk, s))
            = n - (IF Repeat(mode, parked[t], s) THEN 1 ELSE 0) + (IF Repeat(mode, x, s) THEN 1 ELSE 0)
      <4>1. \A w \in Tasks : pk[w] = IF w = t THEN x ELSE parked[w]
        BY <3>1
      <4> HIDE DEF pk
      <4>2. Cardinality(Repeats(mode, pk, s))
              = Cardinality(Repeats(mode, parked, s)) - (IF Repeat(mode, parked[t], s) THEN 1 ELSE 0)
                  + (IF Repeat(mode, x, s) THEN 1 ELSE 0)
        BY <4>1, RepeatsMoved
      <4> QED
        BY <4>2
    <3> QED
      BY <3>1, <3>2
  <2>7. Repeat(mode, x, s) <=> s = u /\ r = 1
    BY <1>4 DEF Repeat
  <2>8. s = u => o = IF ~pc.first THEN r ELSE 0
    BY <1>3 DEF Owed, Repeat, Entries, u
  <2>9. spurious'[s] = spurious[s] + (IF s = u /\ ~pc.first THEN r ELSE 0)
    BY <1>2, <1>3, <1>5, <2>1 DEF ShapeOf
  <2>10. r \in {0, 1}
    OBVIOUS
  <2>11. Left(q1, live[s]) <= Left(q, live[s]) + (IF s = u /\ r = 0 THEN 1 ELSE 0)
    <3>1. CASE s = u /\ Stashed(mode, s)
      <4>1. Len(q1) = Len(q) + 1
        BY <1>5, <2>1, <3>1
      <4>2. Len(q1) - Len(live[s]) <= Len(q) - Len(live[s]) + 1
        BY <2>1, <4>1
      <4>3. r = 0
        BY <1>7, <3>1
      <4>4. Left(q1, live[s]) <= Left(q, live[s]) + 1
        BY <2>1, <4>2, LeftFacts
      <4> QED
        BY <3>1, <4>3, <4>4
    <3>2. CASE ~(s = u /\ Stashed(mode, s))
      <4>1. q1 = q
        BY <1>5, <3>2
      <4> QED
        BY <2>4, <4>1
    <3> QED
      BY <3>1, <3>2
  <2>12. strays'[s] = IF s = u THEN strays[s] + 1 ELSE strays[s]
    BY <1>6
  <2> HIDE DEF q, q1, r, o, n, pk
  <2>13. spurious'[s] + Left(q1, live[s]) + Cardinality(Repeats(mode, pk, s)) + 0 <= strays'[s]
    <3>1. CASE s = u
      <4>1. Cardinality(Repeats(mode, pk, s)) = n + r
        BY <2>1, <2>6, <2>7, <2>10, <3>1
      <4>2. Left(q1, live[s]) <= Left(q, live[s]) + (1 - r)
        BY <2>4, <2>10, <2>11, <3>1
      <4>3. spurious'[s] = spurious[s] + o
        BY <2>1, <2>8, <2>9, <2>10, <3>1
      <4>4. strays'[s] = strays[s] + 1
        BY <2>12, <3>1
      <4>5. o \in Int /\ r \in Int
        BY <2>1, <2>10
      <4>6. PICK a \in Nat, b \in Nat, c \in Nat, e \in Nat :
              a = spurious[s] /\ b = Left(q, live[s]) /\ c = Left(q1, live[s]) /\ e = strays[s]
        BY <2>1, <2>4
      <4>7. a + b + n + o <= e /\ c <= b + (1 - r)
        BY <2>3, <4>2, <4>6
      <4>8. (a + o) + c + (n + r) + 0 <= e + 1
        BY <2>1, <4>5, <4>7
      <4> QED
        BY <4>1, <4>3, <4>4, <4>6, <4>8
    <3>2. CASE s # u
      BY <2>1, <2>3, <2>4, <2>6, <2>7, <2>9, <2>10, <2>11, <2>12, <3>2
    <3> QED
      BY <3>1, <3>2
  <2> QED
    BY <1>1, <2>2, <2>5, <2>13 DEF SiteOk, Charge, q1
<1> QED
  BY <1>1, <1>2, <1>8, <1>9, PlainPc, StepFrom

\* Coming to a return address charges a stray for the stash it may take from a call in flight.
LEMMA ReachSite ==
  ASSUME HooksInv, NEW u \in DOMAIN Sites, Reach(u), pc = Plain, NEW s \in DOMAIN Sites
  PROVE  /\ pc' = Again(u) /\ strays' \in [DOMAIN Sites -> Nat]
         /\ live[u] # << >> => u \in crossed'
         /\ SiteOk(mode, pending, live, parked, pc', strays', crossed', spurious, s)
<1>1. Shape /\ SiteOk(mode, pending, live, parked, Plain, strays, crossed, spurious, s)
  BY StepOf
<1>2. pc' = Again(u) /\ (live[u] # << >> => Stray(u, TRUE)) /\ (live[u] = << >> => strays' = strays /\ crossed' = crossed)
  BY DEF Reach, ghosts
<1>3. /\ strays' \in [DOMAIN Sites -> Nat]
      /\ strays'[s] = IF s = u /\ live[u] # << >> THEN strays[s] + 1 ELSE strays[s]
      /\ s \in crossed => s \in crossed'
      /\ live[u] # << >> => u \in crossed'
  <2>1. CASE live[u] = << >>
    BY <1>1, <1>2, <2>1 DEF Shape
  <2>2. CASE live[u] # << >>
    BY <1>2, <2>2, StrayFacts
  <2> QED
    BY <2>1, <2>2
<1>4. Expected(live[s], Again(u), s) = live[s] /\ Expected(live[s], Plain, s) = live[s] /\ Owed(mode, live[s], Plain, s) = 0
  BY AgainPc, PlainPc DEF Expected
<1>5. Owed(mode, live[s], Again(u), s) = IF s = u /\ live[u] # << >> THEN 1 ELSE 0
  BY AgainPc DEF Owed
<1>6. Charge(mode, pending, live[s], parked, Again(u), spurious[s], s) <= strays'[s]
  <2>1. Left(Queue(mode, pending, s), live[s]) \in Nat
    BY <1>1, ShapeFacts, LeftFacts
  <2>2. spurious[s] + Left(Queue(mode, pending, s), live[s]) + Cardinality(Repeats(mode, parked, s)) + 0 <= strays[s]
    BY <1>1, <1>4 DEF SiteOk, Charge
  <2>3. spurious[s] \in Nat /\ strays[s] \in Nat /\ Cardinality(Repeats(mode, parked, s)) \in Nat
    BY <1>1, ShapeFacts
  <2>4. spurious[s] + Left(Queue(mode, pending, s), live[s]) + Cardinality(Repeats(mode, parked, s))
          + Owed(mode, live[s], Again(u), s) <= strays'[s]
    <3>1. CASE s = u /\ live[u] # << >>
      BY <1>3, <1>5, <2>1, <2>2, <2>3, <3>1
    <3>2. CASE ~(s = u /\ live[u] # << >>)
      BY <1>3, <1>5, <2>1, <2>2, <2>3, <3>2
    <3> QED
      BY <3>1, <3>2
  <2> QED
    BY <1>4, <2>4 DEF Charge
<1> QED
  BY <1>1, <1>2, <1>3, <1>4, <1>6 DEF SiteOk

LEMMA KeepBranch ==
  ASSUME HooksInv, NEW u \in DOMAIN Sites, Branch(u)
  PROVE  HooksInv'
<1>1. /\ mode' = mode /\ pending' = pending /\ live' = live /\ parked' = parked /\ spurious' = spurious
      /\ pc = Plain /\ Reach(u)
  BY DEF Branch, Quiet
<1>2. pc' = Again(u) /\ strays' \in [DOMAIN Sites -> Nat] /\ (live[u] # << >> => u \in crossed')
  BY <1>1, ReachSite
<1>3. mode \in DOMAIN Families /\ ShapeOf(mode, pending, live, parked, pc, strays, spurious)
  BY StepOf
<1>4. pc' \in Pcs /\ pc'.at = "again" /\ pc'.site = u
  BY <1>2, AgainPc
<1>5. ShapeOf(mode, pending', live', parked', pc', strays', spurious')
  BY <1>1, <1>2, <1>3, <1>4 DEF ShapeOf
<1>6. \A s \in DOMAIN Sites : SiteOk(mode, pending', live', parked', pc', strays', crossed', spurious', s)
  BY <1>1, ReachSite
<1> QED
  BY <1>1, <1>2, <1>3, <1>4, <1>5, <1>6, StepFrom

LEMMA KeepResume ==
  ASSUME HooksInv, NEW t \in Tasks, Resume(t)
  PROVE  HooksInv'
<1> DEFINE x == parked[t]
           pk == [parked EXCEPT ![t] = Plain]
<1>1. /\ mode' = mode /\ pending' = pending /\ live' = live /\ parked' = pk /\ spurious' = spurious
      /\ pc = Plain /\ x # Plain
      /\ x.at = "again" => Reach(x.site)
      /\ x.at # "again" => pc' = x /\ strays' = strays /\ crossed' = crossed
  BY DEF Resume, Quiet, ghosts
<1>2. mode \in DOMAIN Families /\ ShapeOf(mode, pending, live, parked, pc, strays, spurious) /\ Shape
  BY StepOf
<1>3. x \in Parks
  BY <1>2 DEF ShapeOf
<1>4. x \in Pcs /\ x.at # "return" /\ x.at # "plain" /\ (x.at = "entry" => ~x.first) /\ x.at \in {"entry", "again"}
      /\ x.site \in DOMAIN Sites
  BY <1>1, <1>3, ParkCases, PcCases
<1>5. pk \in [Tasks -> Parks] /\ \A w \in Tasks : pk[w] = IF w = t THEN Plain ELSE parked[w]
  <2> HIDE DEF Parks
  <2> QED
    BY <1>2, PlainPc DEF ShapeOf
<1>6. \A w \in Tasks : pk[w].at = "entry" => SameHow(pk[w], pk[w].site)
  BY <1>2, <1>5, PlainPc DEF ShapeOf
<1>7. x.at = "entry" => SameHow(x, x.site)
  BY <1>2 DEF ShapeOf
<1> HIDE DEF pk, x
<1>8. ASSUME NEW s \in DOMAIN Sites
      PROVE  Cardinality(Repeats(mode, pk, s))
               = Cardinality(Repeats(mode, parked, s)) - (IF Repeat(mode, x, s) THEN 1 ELSE 0)
  <2>1. Cardinality(Repeats(mode, pk, s))
          = Cardinality(Repeats(mode, parked, s)) - (IF Repeat(mode, parked[t], s) THEN 1 ELSE 0)
              + (IF Repeat(mode, Plain, s) THEN 1 ELSE 0)
    BY <1>5, RepeatsMoved
  <2>2. Cardinality(Repeats(mode, parked, s)) \in Nat
    BY RepeatsFinite
  <2> QED
    BY <2>1, <2>2, PlainPc DEF x
<1>9. CASE x.at = "again"
  <2>1. pc' = Again(x.site) /\ strays' \in [DOMAIN Sites -> Nat] /\ (live[x.site] # << >> => x.site \in crossed')
    BY <1>1, <1>4, <1>9, ReachSite
  <2>2. pc' \in Pcs /\ pc'.at = "again" /\ pc'.site = x.site
    BY <1>4, <2>1, AgainPc
  <2>3. ShapeOf(mode, pending', live', parked', pc', strays', spurious')
    BY <1>1, <1>2, <1>5, <1>6, <2>1, <2>2 DEF ShapeOf
  <2>4. ASSUME NEW s \in DOMAIN Sites
        PROVE  SiteOk(mode, pending', live', parked', pc', strays', crossed', spurious', s)
    <3>1. SiteOk(mode, pending, live, parked, pc', strays', crossed', spurious, s)
      BY <1>1, <1>4, <1>9, ReachSite
    <3>2. Cardinality(Repeats(mode, pk, s)) = Cardinality(Repeats(mode, parked, s))
      BY <1>8, <1>9, RepeatsFinite DEF Repeat
    <3> QED
      BY <1>1, <3>1, <3>2 DEF SiteOk, Charge
  <2> QED
    BY <1>1, <1>2, <2>1, <2>2, <2>3, <2>4, StepFrom
<1>10. CASE x.at = "entry"
  <2>1. pc' = x /\ strays' = strays /\ crossed' = crossed
    BY <1>1, <1>10
  <2>2. ShapeOf(mode, pending', live', parked', pc', strays', spurious')
    BY <1>1, <1>2, <1>4, <1>5, <1>6, <1>7, <1>10, <2>1 DEF ShapeOf
  <2>3. ASSUME NEW s \in DOMAIN Sites
        PROVE  SiteOk(mode, pending', live', parked', pc', strays', crossed', spurious', s)
    <3> DEFINE n == Cardinality(Repeats(mode, parked, s))
               l == Left(Queue(mode, pending, s), live[s])
               o == Owed(mode, live[s], x, s)
    <3>1. Expected(live[s], x, s) = live[s] /\ Expected(live[s], Plain, s) = live[s] /\ Owed(mode, live[s], Plain, s) = 0
      BY <1>10, PlainPc DEF Expected
    <3>2. o = IF Repeat(mode, x, s) THEN 1 ELSE 0
      BY <1>4, <1>10 DEF Owed
    <3>3. Cardinality(Repeats(mode, pk, s)) = n - o
      BY <1>8, <3>2
    <3>4. SiteOk(mode, pending, live, parked, Plain, strays, crossed, spurious, s)
      BY <1>1, StepOf
    <3>5. spurious[s] + l + n + 0 <= strays[s]
      BY <3>1, <3>4 DEF SiteOk, Charge
    <3>6. spurious[s] \in Nat /\ l \in Nat /\ n \in Nat /\ strays[s] \in Nat /\ o \in Int
      BY <1>2, <3>2, ShapeFacts, LeftFacts
    <3> HIDE DEF n, l, o
    <3>7. spurious[s] + l + (n - o) + o <= strays[s]
      BY <3>5, <3>6
    <3> QED
      BY <1>1, <2>1, <3>1, <3>3, <3>4, <3>7 DEF SiteOk, Charge, l, o
  <2> QED
    BY <1>1, <1>2, <1>10, <2>1, <2>2, <2>3, StepFrom
<1> QED
  BY <1>4, <1>9, <1>10

\* A call leaves the ones in flight from its site.
LEMMA CallGone ==
  ASSUME Shape, NEW u \in DOMAIN Sites, NEW i \in DOMAIN live[u]
  PROVE  /\ i \in 1 .. Len(live[u]) /\ live[u] \in Seq(Calls) /\ live[u] # << >> /\ Len(live[u]) \in Nat
         /\ live[u][i] \in Calls /\ SameHow(live[u][i], u)
         /\ RemoveAt(live[u], i) \in Seq(Calls) /\ Len(RemoveAt(live[u], i)) = Len(live[u]) - 1
         /\ \A j \in 1 .. Len(live[u]) - 1 : SameHow(RemoveAt(live[u], i)[j], u)
<1>1. live[u] \in Seq(Calls) /\ \A j \in 1 .. Len(live[u]) : SameHow(live[u][j], u)
  BY DEF Shape
<1>2. i \in 1 .. Len(live[u]) /\ live[u] # << >> /\ Len(live[u]) \in Nat /\ live[u][i] \in Calls
  <2> HIDE DEF Calls
  <2> QED
    BY <1>1
<1>3. /\ RemoveAt(live[u], i) \in Seq(Calls) /\ Len(RemoveAt(live[u], i)) = Len(live[u]) - 1
      /\ \A j \in 1 .. Len(live[u]) - 1 : RemoveAt(live[u], i)[j] = IF j < i THEN live[u][j] ELSE live[u][j + 1]
  BY <1>1, <1>2, Removed
<1>4. ASSUME NEW j \in 1 .. Len(live[u]) - 1
      PROVE  SameHow(RemoveAt(live[u], i)[j], u)
  <2>1. j \in 1 .. Len(live[u]) /\ j + 1 \in 1 .. Len(live[u])
    BY <1>2
  <2>2. SameHow(live[u][j], u) /\ SameHow(live[u][j + 1], u)
    BY <1>1, <2>1
  <2>3. RemoveAt(live[u], i)[j] = live[u][j] \/ RemoveAt(live[u], i)[j] = live[u][j + 1]
    BY <1>3
  <2> QED
    BY <2>2, <2>3
<1> QED
  BY <1>1, <1>2, <1>3, <1>4

LEMMA LiveLess ==
  ASSUME Shape, NEW u \in DOMAIN Sites, NEW i \in DOMAIN live[u], live' = [live EXCEPT ![u] = RemoveAt(@, i)]
  PROVE  /\ live' \in [DOMAIN Sites -> Seq(Calls)]
         /\ \A s \in DOMAIN Sites : live'[s] = IF s = u THEN RemoveAt(live[u], i) ELSE live[s]
         /\ \A s \in DOMAIN Sites : \A j \in 1 .. Len(live'[s]) : SameHow(live'[s][j], s)
<1>1. live \in [DOMAIN Sites -> Seq(Calls)]
  BY DEF Shape
<1>2. \A s \in DOMAIN Sites : live'[s] = IF s = u THEN RemoveAt(live[u], i) ELSE live[s]
  BY <1>1
<1>3. RemoveAt(live[u], i) \in Seq(Calls)
  BY CallGone
<1>4. live' \in [DOMAIN Sites -> Seq(Calls)]
  <2> HIDE DEF Calls
  <2> QED
    BY <1>1, <1>3
<1>5. ASSUME NEW s \in DOMAIN Sites, NEW j \in 1 .. Len(live'[s])
      PROVE  SameHow(live'[s][j], s)
  <2>1. CASE s = u
    BY <1>2, <2>1, CallGone
  <2>2. CASE s # u
    BY <1>2, <2>2 DEF Shape
  <2> QED
    BY <2>1, <2>2
<1> QED
  BY <1>2, <1>4, <1>5

LEMMA KeepTailCall ==
  ASSUME OneConvention, HooksInv, NEW u \in DOMAIN Sites, NEW i \in DOMAIN live[u], NEW g \in Hooked,
         NEW regs \in RegFiles, TailCall(u, i, g, regs)
  PROVE  HooksInv'
<1> DEFINE p == Entry(g, u, regs)
<1>1. /\ mode' = mode /\ pending' = pending /\ live' = [live EXCEPT ![u] = RemoveAt(@, i)]
      /\ parked' = parked /\ spurious' = spurious /\ pc = Plain /\ pc' = p
      /\ Stray(u, Len(live[u]) > 1) /\ <<live[u][i].fn, g>> \in TailCalls
  BY DEF TailCall, Quiet
<1>2. mode \in DOMAIN Families /\ ShapeOf(mode, pending, live, parked, pc, strays, spurious) /\ Shape
  BY StepOf
<1>3. g \in Symbols
  BY DEF Hooked
<1>4. p \in Pcs /\ p.at = "entry" /\ p.fn = g /\ p.site = u /\ p.first
  BY <1>3, EntryPc
<1>5. How(g) = How(Sites[u])
  <2>1. How(live[u][i].fn) = How(g)
    BY <1>1 DEF OneConvention
  <2> QED
    BY <1>2, <2>1, CallGone DEF SameHow
<1> HIDE DEF p
<1>6. /\ live' \in [DOMAIN Sites -> Seq(Calls)]
      /\ \A s \in DOMAIN Sites : live'[s] = IF s = u THEN RemoveAt(live[u], i) ELSE live[s]
      /\ \A s \in DOMAIN Sites : \A j \in 1 .. Len(live'[s]) : SameHow(live'[s][j], s)
  BY <1>1, <1>2, LiveLess
<1>7. /\ strays' \in [DOMAIN Sites -> Nat]
      /\ \A s \in DOMAIN Sites : strays'[s] = IF s = u THEN strays[s] + 1 ELSE strays[s]
      /\ \A s \in DOMAIN Sites : s \in crossed => s \in crossed'
      /\ Len(live[u]) > 1 => u \in crossed'
  BY <1>1, StrayFacts
<1>8. ShapeOf(mode, pending', live', parked', pc', strays', spurious')
  BY <1>1, <1>2, <1>4, <1>5, <1>6, <1>7 DEF ShapeOf, SameHow
<1>9. ASSUME NEW s \in DOMAIN Sites
      PROVE  SiteOk(mode, pending', live', parked', pc', strays', crossed', spurious', s)
  <2> DEFINE q == Queue(mode, pending, s)
             n == Cardinality(Repeats(mode, parked, s))
  <2>1. /\ Expected(live'[s], p, s) = live'[s] /\ Owed(mode, live'[s], p, s) = 0
        /\ Expected(live[s], Plain, s) = live[s] /\ Owed(mode, live[s], Plain, s) = 0
    BY <1>4, PlainPc DEF Expected, Owed
  <2>2. SiteOk(mode, pending, live, parked, Plain, strays, crossed, spurious, s)
    BY <1>1, StepOf
  <2>3. (Stashed(mode, s) /\ s \notin crossed => Holds(mode, q, live[s])) /\ spurious[s] + Left(q, live[s]) + n + 0 <= strays[s]
    BY <2>1, <2>2 DEF SiteOk, Charge
  <2>4. spurious[s] \in Nat /\ n \in Nat /\ strays[s] \in Nat /\ q \in Seq(Payloads(mode)) /\ Len(q) \in Nat
        /\ live[s] \in Seq(Calls)
    BY <1>2, ShapeFacts
  <2>5. Left(q, live[s]) \in Nat
    BY <2>4, LeftFacts
  <2> HIDE DEF q, n
  <2>6. CASE s # u
    <3>1. live'[s] = live[s] /\ strays'[s] = strays[s] /\ (s \in crossed => s \in crossed')
      BY <1>6, <1>7, <2>6
    <3> QED
      BY <1>1, <2>1, <2>3, <3>1 DEF SiteOk, Charge, q, n
  <2>7. CASE s = u
    <3>1. /\ live'[s] \in Seq(Calls) /\ Len(live'[s]) = Len(live[s]) - 1 /\ Len(live[s]) \in Nat
          /\ strays'[s] = strays[s] + 1 /\ live[s] # << >>
      BY <1>2, <1>6, <1>7, <2>7, CallGone
    <3>2. s \notin crossed' => live'[s] = << >>
      <4>1. s \notin crossed' => ~(Len(live[s]) > 1)
        BY <1>7, <2>7
      <4>2. s \notin crossed' => Len(live'[s]) <= 0
        BY <3>1, <4>1
      <4> QED
        BY <3>1, <4>2
    <3>3. Stashed(mode, s) /\ s \notin crossed' => Holds(mode, q, live'[s])
      BY <2>4, <3>2, HoldsNothing
    <3>4. Left(q, live'[s]) \in Nat /\ Left(q, live'[s]) <= Left(q, live[s]) + 1
      <4>1. Len(q) - Len(live'[s]) <= Len(q) - Len(live[s]) + 1
        BY <2>4, <3>1
      <4> QED
        BY <2>4, <3>1, <4>1, LeftFacts
    <3>5. spurious[s] + Left(q, live'[s]) + n + 0 <= strays'[s]
      BY <2>3, <2>4, <2>5, <3>1, <3>4
    <3> QED
      BY <1>1, <2>1, <3>3, <3>5 DEF SiteOk, Charge, q, n
  <2> QED
    BY <2>6, <2>7
<1> QED
  BY <1>1, <1>2, <1>4, <1>8, <1>9, StepFrom

LEMMA KeepReturnFn ==
  ASSUME HooksInv, NEW u \in DOMAIN Sites, NEW i \in DOMAIN live[u], ReturnFn(u, i)
  PROVE  HooksInv'
<1> DEFINE c == live[u][i]
           p == Return(c, u)
<1>1. /\ mode' = mode /\ pending' = pending /\ live' = [live EXCEPT ![u] = RemoveAt(@, i)]
      /\ parked' = parked /\ strays' = strays /\ spurious' = spurious /\ pc = Plain /\ pc' = p
      /\ crossed' = IF i = Len(live[u]) THEN crossed ELSE crossed \cup {u}
  BY DEF ReturnFn, Quiet
<1>2. mode \in DOMAIN Families /\ ShapeOf(mode, pending, live, parked, pc, strays, spurious) /\ Shape
  BY StepOf
<1>3. c \in Calls /\ SameHow(c, u)
  BY <1>2, CallGone
<1>4. /\ p \in Pcs /\ p.at = "return" /\ p.fn = c.fn /\ p.site = u
      /\ [fn |-> p.fn, regs |-> p.regs] = c
  BY <1>3, ReturnPc
<1>5. /\ live' \in [DOMAIN Sites -> Seq(Calls)]
      /\ \A s \in DOMAIN Sites : live'[s] = IF s = u THEN RemoveAt(live[u], i) ELSE live[s]
      /\ \A s \in DOMAIN Sites : \A j \in 1 .. Len(live'[s]) : SameHow(live'[s][j], s)
  BY <1>1, <1>2, LiveLess
<1> HIDE DEF p
<1>6. ShapeOf(mode, pending', live', parked', pc', strays', spurious')
  BY <1>1, <1>2, <1>3, <1>4, <1>5 DEF ShapeOf, SameHow
<1>7. ASSUME NEW s \in DOMAIN Sites
      PROVE  SiteOk(mode, pending', live', parked', pc', strays', crossed', spurious', s)
  <2> DEFINE q == Queue(mode, pending, s)
             n == Cardinality(Repeats(mode, parked, s))
             E == Expected(live'[s], p, s)
  <2>1. Owed(mode, live'[s], p, s) = 0 /\ Expected(live[s], Plain, s) = live[s] /\ Owed(mode, live[s], Plain, s) = 0
    BY <1>4, PlainPc, OwedType
  <2>2. SiteOk(mode, pending, live, parked, Plain, strays, crossed, spurious, s)
    BY <1>1, StepOf
  <2>3. (Stashed(mode, s) /\ s \notin crossed => Holds(mode, q, live[s])) /\ spurious[s] + Left(q, live[s]) + n + 0 <= strays[s]
    BY <2>1, <2>2 DEF SiteOk, Charge
  <2>4. CASE s # u
    <3>1. live'[s] = live[s] /\ E = live[s] /\ (s \in crossed' <=> s \in crossed)
      BY <1>1, <1>4, <1>5, <2>4 DEF Expected
    <3> HIDE DEF E
    <3> QED
      BY <1>1, <2>1, <2>3, <3>1 DEF SiteOk, Charge, E
  <2>5. CASE s = u
    <3>1. /\ live[s] \in Seq(Calls) /\ live[s] # << >> /\ i \in 1 .. Len(live[s]) /\ live'[s] = RemoveAt(live[s], i)
          /\ live'[s] \in Seq(Calls) /\ Len(live'[s]) = Len(live[s]) - 1 /\ Len(live[s]) \in Nat
      BY <1>2, <1>5, <2>5, CallGone
    <3>2. E = Append(live'[s], c)
      BY <1>4, <2>5 DEF Expected
    <3>3. E \in Seq(Calls) /\ Len(E) = Len(live[s])
      <4> HIDE DEF Calls, c
      <4> QED
        BY <1>3, <3>1, <3>2
    <3>4. s \notin crossed' => E = live[s] /\ s \notin crossed
      <4> SUFFICES ASSUME s \notin crossed' PROVE E = live[s] /\ s \notin crossed
        OBVIOUS
      <4>1. i = Len(live[s]) /\ s \notin crossed
        BY <1>1, <2>5
      <4>2. E = Append(RemoveAt(live[s], Len(live[s])), live[s][Len(live[s])])
        BY <2>5, <3>1, <3>2, <4>1
      <4> HIDE DEF E
      <4> QED
        BY <3>1, <4>1, <4>2, LastBack
    <3>5. Left(q, E) = Left(q, live[s])
      BY <3>3 DEF Left
    <3> HIDE DEF E
    <3>6. Stashed(mode, s) /\ s \notin crossed' => Holds(mode, q, E)
      BY <2>3, <3>4
    <3> QED
      BY <1>1, <2>1, <2>3, <3>5, <3>6 DEF SiteOk, Charge, E
  <2> QED
    BY <2>4, <2>5
<1> QED
  BY <1>1, <1>2, <1>4, <1>6, <1>7, StepFrom

LEMMA KeepEnter ==
  ASSUME HooksInv, Enter
  PROVE  HooksInv'
<1> DEFINE u == pc.site
           c == [fn |-> pc.fn, regs |-> pc.regs]
           v == Arg(mode, pc.fn, pc.regs)
<1>1. /\ mode' = mode /\ parked' = parked /\ strays' = strays /\ pc.at = "entry" /\ Observe /\ pc' = Plain
      /\ live' = [live EXCEPT ![u] = Append(@, c)]
      /\ crossed' = IF live[u] = << >> THEN crossed \ {u} ELSE crossed
  BY DEF Enter
<1>2. mode \in DOMAIN Families /\ ShapeOf(mode, pending, live, parked, pc, strays, spurious) /\ Shape /\ pc \in Pcs
  BY StepOf DEF ShapeOf
<1>3. u \in DOMAIN Sites /\ c \in Calls /\ SameHow(c, u) /\ pc.first \in BOOLEAN /\ v \in Payloads(mode)
      /\ v = Arg(mode, c.fn, c.regs)
  BY <1>1, <1>2, PcCases DEF ShapeOf, SameHow, Calls, Payloads
<1>4. /\ pending' \in [AllFamilies -> [DOMAIN Sites -> Seq(Payloads(mode))]] /\ OneQueue(mode, pending')
      /\ \A s \in DOMAIN Sites :
           Queue(mode, pending', s) =
             IF s = u /\ Stashed(mode, s) THEN Append(Queue(mode, pending, s), v) ELSE Queue(mode, pending, s)
      /\ spurious' = IF ~pc.first /\ EntryReport(mode, pc.fn)
                       THEN [spurious EXCEPT ![u] = @ + 1] ELSE spurious
  BY <1>1, <1>2, EntrySeen
<1>5. \A s \in DOMAIN Sites :
        Owed(mode, live[s], pc, s) = IF s = u /\ ~pc.first /\ EntryReport(mode, pc.fn) THEN 1 ELSE 0
  BY <1>1 DEF Owed, Repeat
<1> HIDE DEF u, c, v
<1>6. \A s \in DOMAIN Sites : live'[s] = IF s = u THEN Append(live[u], c) ELSE live[s]
  BY <1>1, <1>2 DEF ShapeOf
<1>7. live[u] \in Seq(Calls) /\ Append(live[u], c) \in Seq(Calls) /\ Len(Append(live[u], c)) = Len(live[u]) + 1
  <2>1. live[u] \in Seq(Calls)
    BY <1>2, <1>3 DEF ShapeOf
  <2> HIDE DEF Calls
  <2> QED
    BY <1>3, <2>1
<1>8. live' \in [DOMAIN Sites -> Seq(Calls)]
  <2> HIDE DEF Calls
  <2> QED
    BY <1>1, <1>2, <1>3, <1>7 DEF ShapeOf
<1>9. ASSUME NEW s \in DOMAIN Sites, NEW j \in 1 .. Len(live'[s])
      PROVE  SameHow(live'[s][j], s)
  <2>1. CASE s = u
    <3>1. \A k \in 1 .. Len(live[u]) : SameHow(live[u][k], u)
      BY <1>2, <1>3 DEF ShapeOf
    <3>2. live'[s][j] = c \/ \E k \in 1 .. Len(live[u]) : live'[s][j] = live[u][k]
      <4>1. j \in 1 .. Len(live[u]) + 1 /\ live'[s] = Append(live[u], c)
        BY <1>6, <1>7, <2>1
      <4> HIDE DEF Calls
      <4> QED
        BY <1>7, <4>1
    <3> QED
      BY <1>3, <2>1, <3>1, <3>2
  <2>2. CASE s # u
    BY <1>2, <1>6, <2>2 DEF ShapeOf
  <2> QED
    BY <2>1, <2>2
<1>10. spurious' \in [DOMAIN Sites -> Nat]
  BY <1>2, <1>3, <1>4 DEF ShapeOf
<1>11. ShapeOf(mode, pending', live', parked', pc', strays', spurious')
  BY <1>1, <1>2, <1>4, <1>8, <1>9, <1>10, PlainPc DEF ShapeOf
<1>12. ASSUME NEW s \in DOMAIN Sites
       PROVE  SiteOk(mode, pending', live', parked', pc', strays', crossed', spurious', s)
  <2> DEFINE q == Queue(mode, pending, s)
             q1 == Queue(mode, pending', s)
             n == Cardinality(Repeats(mode, parked, s))
             o == Owed(mode, live[s], pc, s)
  <2>1. Expected(live[s], pc, s) = live[s] /\ Expected(live'[s], Plain, s) = live'[s] /\ Owed(mode, live'[s], Plain, s) = 0
    BY <1>1, PlainPc DEF Expected
  <2>2. (Stashed(mode, s) /\ s \notin crossed => Holds(mode, q, live[s])) /\ spurious[s] + Left(q, live[s]) + n + o <= strays[s]
    BY <2>1, StepOf DEF SiteOk, Charge
  <2>3. spurious[s] \in Nat /\ n \in Nat /\ strays[s] \in Nat /\ q \in Seq(Payloads(mode)) /\ Len(q) \in Nat
        /\ live[s] \in Seq(Calls) /\ Len(live[s]) \in Nat /\ o \in {0, 1}
    BY <1>2, ShapeFacts
  <2>4. Left(q, live[s]) \in Nat
    BY <2>3, LeftFacts
  <2>5. spurious'[s] = spurious[s] + o
    BY <1>2, <1>3, <1>4, <1>5, <2>3 DEF ShapeOf
  <2>6. q1 = IF s = u /\ Stashed(mode, s) THEN Append(q, v) ELSE q
    BY <1>4
  <2> HIDE DEF q, q1, n, o
  <2>7. Left(q1, live'[s]) \in Nat /\ Left(q1, live'[s]) <= Left(q, live[s])
    <3>1. q1 \in Seq(Payloads(mode)) /\ live'[s] \in Seq(Calls)
      BY <1>3, <1>8, <2>3, <2>6
    <3>2. CASE s = u /\ Stashed(mode, s)
      <4>1. Len(q1) = Len(q) + 1
        BY <1>3, <2>3, <2>6, <3>2
      <4>2. Len(live'[s]) = Len(live[s]) + 1
        BY <1>6, <1>7, <3>2
      <4>3. Len(q1) - Len(live'[s]) <= Len(q) - Len(live[s])
        BY <2>3, <4>1, <4>2
      <4> QED
        BY <2>3, <3>1, <4>3, LeftFacts
    <3>3. CASE ~Stashed(mode, s)
      <4>1. q1 = << >>
        BY <2>6, <3>3 DEF Queue, q
      <4>2. Left(q1, live'[s]) = 0
        BY <3>1, <4>1, LeftFacts
      <4> QED
        BY <2>4, <4>2
    <3>4. CASE s # u
      BY <1>6, <2>4, <2>6, <3>4
    <3> QED
      BY <3>2, <3>3, <3>4
  <2>8. Stashed(mode, s) /\ s \notin crossed' => Holds(mode, q1, live'[s])
    <3> SUFFICES ASSUME Stashed(mode, s), s \notin crossed' PROVE Holds(mode, q1, live'[s])
      OBVIOUS
    <3>1. CASE s = u
      <4>1. Holds(mode, q, live[s])
        <5>1. CASE live[s] = << >>
          BY <2>3, <5>1, HoldsNothing
        <5>2. CASE live[s] # << >>
          BY <1>1, <2>2, <3>1, <5>2
        <5> QED
          BY <5>1, <5>2
      <4>2. q1 = Append(q, Arg(mode, c.fn, c.regs)) /\ live'[s] = Append(live[s], c)
        BY <1>3, <1>6, <2>6, <3>1
      <4>3. Holds(mode, Append(q, Arg(mode, c.fn, c.regs)), Append(live[s], c))
        BY <1>3, <2>3, <4>1, HoldsPushed
      <4> QED
        BY <4>2, <4>3
    <3>2. CASE s # u
      BY <1>1, <1>6, <2>2, <2>6, <3>2
    <3> QED
      BY <3>1, <3>2
  <2>9. spurious'[s] + Left(q1, live'[s]) + n + 0 <= strays[s]
    <3>1. o \in Int
      BY <2>3
    <3>2. PICK a \in Nat, b \in Nat, d \in Nat : a = spurious[s] /\ b = Left(q, live[s]) /\ d = Left(q1, live'[s])
      BY <2>3, <2>4, <2>7
    <3>3. a + b + n + o <= strays[s] /\ d <= b
      BY <2>2, <2>7, <3>2
    <3>4. (a + o) + d + n + 0 <= strays[s]
      BY <2>3, <3>1, <3>3
    <3> QED
      BY <2>5, <3>2, <3>4
  <2> QED
    BY <1>1, <2>1, <2>8, <2>9 DEF SiteOk, Charge, q1, n
<1> QED
  BY <1>1, <1>2, <1>11, <1>12, PlainPc, StepFrom

Emptied(P) == P = [h \in AllFamilies |-> [s \in DOMAIN Sites |-> << >>]]

\* Nothing is in flight and nothing is pending.
LEMMA FreshOk ==
  ASSUME NEW m \in DOMAIN Families, NEW P, NEW lv, NEW pk, NEW p, NEW st, NEW cr, NEW sp,
         Emptied(P), Fresh(lv, pk, p, st, cr, sp)
  PROVE  /\ ShapeOf(m, P, lv, pk, p, st, sp) /\ p = Plain
         /\ \A s \in DOMAIN Sites : SiteOk(m, P, lv, pk, p, st, cr, sp, s)
<1>1. /\ lv = [s \in DOMAIN Sites |-> << >>] /\ pk = [t \in Tasks |-> Plain] /\ p = Plain
      /\ st = [s \in DOMAIN Sites |-> 0] /\ sp = [s \in DOMAIN Sites |-> 0]
  BY DEF Fresh
<1>2. \A S : << >> \in Seq(S)
  OBVIOUS
<1>3. P \in [AllFamilies -> [DOMAIN Sites -> Seq(Payloads(m))]] /\ OneQueue(m, P)
  BY <1>2 DEF OneQueue, Emptied
<1>4. lv \in [DOMAIN Sites -> Seq(Calls)] /\ \A s \in DOMAIN Sites : lv[s] = << >>
  BY <1>1, <1>2
<1>5. pk \in [Tasks -> Parks] /\ \A t \in Tasks : pk[t] = Plain
  BY <1>1, PlainPc
<1>6. st \in [DOMAIN Sites -> Nat] /\ sp \in [DOMAIN Sites -> Nat]
  BY <1>1
<1>7. ShapeOf(m, P, lv, pk, p, st, sp)
  <2>1. \A s \in DOMAIN Sites : \A i \in 1 .. Len(lv[s]) : SameHow(lv[s][i], s)
    BY <1>4
  <2>2. \A t \in Tasks : pk[t].at = "entry" => SameHow(pk[t], pk[t].site)
    BY <1>5, PlainPc
  <2>3. p \in Pcs /\ p.at = "plain"
    BY <1>1, PlainPc
  <2> QED
    BY <1>3, <1>4, <1>5, <1>6, <2>1, <2>2, <2>3 DEF ShapeOf
<1>8. ASSUME NEW s \in DOMAIN Sites PROVE SiteOk(m, P, lv, pk, p, st, cr, sp, s)
  <2>1. Queue(m, P, s) = << >>
    <3>1. Stashed(m, s) => How(Sites[s]) \in AllFamilies
      BY ModeFacts DEF Stashed
    <3> QED
      BY <3>1 DEF Queue, Emptied
  <2>2. Expected(lv[s], p, s) = << >> /\ Owed(m, lv[s], p, s) = 0
    BY <1>1, <1>4, PlainPc
  <2>3. Repeats(m, pk, s) = {}
    BY <1>5, PlainPc DEF Repeats
  <2>4. Cardinality(Repeats(m, pk, s)) = 0
    BY <2>3, FS_EmptySet
  <2>5. Left(<< >>, << >>) = 0 /\ Holds(m, << >>, << >>)
    BY DEF Left, Holds
  <2>6. sp[s] = 0 /\ st[s] = 0
    BY <1>1
  <2>7. Charge(m, P, lv[s], pk, p, sp[s], s) = 0 + 0 + 0 + 0
    BY <2>1, <2>2, <2>4, <2>5, <2>6 DEF Charge
  <2> QED
    BY <2>1, <2>2, <2>5, <2>6, <2>7 DEF SiteOk
<1> QED
  BY <1>1, <1>7, <1>8

LEMMA KeepNewCase ==
  ASSUME HooksInv, NewCase
  PROVE  HooksInv'
<1>1. /\ mode' = mode /\ Emptied(pending')
      /\ Fresh(live', parked', pc', strays', crossed', spurious')
  BY DEF NewCase, clear_pending, Emptied
<1>2. mode \in DOMAIN Families
  BY StepOf
<1>3. /\ ShapeOf(mode, pending', live', parked', pc', strays', spurious') /\ pc' = Plain
      /\ \A s \in DOMAIN Sites : SiteOk(mode, pending', live', parked', pc', strays', crossed', spurious', s)
  BY <1>1, <1>2, FreshOk
<1> QED
  BY <1>1, <1>2, <1>3, PlainPc, StepFrom

-------------------------------------------------------------------------------
(* The theorems.                                                                        *)

LEMMA HooksInvInit ==
  ASSUME Init
  PROVE  HooksInv
<1>1. /\ mode \in DOMAIN Families /\ Emptied(pending)
      /\ Fresh(live, parked, pc, strays, crossed, spurious)
  BY DEF Init, Emptied
<1>2. /\ ShapeOf(mode, pending, live, parked, pc, strays, spurious) /\ pc = Plain
      /\ \A s \in DOMAIN Sites : SiteOk(mode, pending, live, parked, pc, strays, crossed, spurious, s)
  BY <1>1, FreshOk
<1>3. Shape
  BY <1>1, <1>2 DEF Shape, ShapeOf
<1>4. Marks /\ Charges
  BY <1>2 DEF Marks, Charges, SiteOk
<1>5. Stepped
  BY <1>2, PlainPc DEF Stepped
<1> QED
  BY <1>3, <1>4, <1>5 DEF HooksInv

LEMMA HooksInvNext ==
  ASSUME OneConvention, HooksInv, [Next]_vars
  PROVE  HooksInv'
<1>1. ASSUME NEW t \in Tasks, Interrupt(t) PROVE HooksInv'
  BY <1>1, KeepInterruptEntry, KeepInterruptReturn
<1>2. ASSUME NEW t \in Tasks, Resume(t) PROVE HooksInv'
  BY <1>2, KeepResume
<1>3. ASSUME NEW s \in DOMAIN Sites, Branch(s) PROVE HooksInv'
  BY <1>3, KeepBranch
<1>4. ASSUME NEW s \in DOMAIN Sites, NEW regs \in RegFiles, CallFn(s, regs) PROVE HooksInv'
  BY <1>4, KeepCallFn
<1>5. ASSUME NEW s \in DOMAIN Sites, NEW i \in DOMAIN live[s], NEW g \in Hooked, NEW regs \in RegFiles,
             TailCall(s, i, g, regs)
      PROVE  HooksInv'
  BY <1>5, KeepTailCall
<1>6. ASSUME NEW s \in DOMAIN Sites, NEW i \in DOMAIN live[s], ReturnFn(s, i) PROVE HooksInv'
  BY <1>6, KeepReturnFn
<1>7. CASE Enter
  BY <1>7, KeepEnter
<1>8. CASE Proceed
  BY <1>8, KeepProceed
<1>9. CASE NewCase
  BY <1>9, KeepNewCase
<1>10. CASE UNCHANGED vars
  BY <1>10 DEF vars, HooksInv, Shape, Marks, Stepped, Charges
<1> QED
  BY <1>1, <1>2, <1>3, <1>4, <1>5, <1>6, <1>7, <1>8, <1>9, <1>10 DEF Next

LEMMA HooksInvPaired ==
  ASSUME HooksInv
  PROVE  PairedReturn
<1> SUFFICES ASSUME pc.at = "return", pc.site \notin crossed PROVE Paired
  BY DEF PairedReturn
<1> DEFINE u == pc.site
           c == [fn |-> pc.fn, regs |-> pc.regs]
           q == Queue(mode, pending, u)
<1>1. Shape /\ Marks /\ pc \in Pcs
  BY DEF HooksInv, Shape
<1>2. u \in DOMAIN Sites /\ How(pc.fn) = How(Sites[u])
  BY <1>1, PcCases DEF Shape, SameHow
<1>3. Events = IF q = << >> THEN {} ELSE {Event(How(Sites[u]), q[Len(q)])}
  BY <1>1, ReturnAnswer
<1>4. CASE Stashed(mode, u)
  <2>1. live[u] \in Seq(Calls) /\ q \in Seq(Payloads(mode))
    BY <1>1, <1>2, ShapeFacts
  <2>2. c \in Calls /\ Expected(live[u], pc, u) = Append(live[u], c)
    BY <1>1, <1>2, <2>1, ExpectedFacts
  <2>3. Holds(mode, q, Expected(live[u], pc, u))
    BY <1>1, <1>2, <1>4 DEF Marks
  <2>4. c.fn = pc.fn /\ c.regs = pc.regs
    OBVIOUS
  <2> HIDE DEF c, q, u
  <2>5. q # << >> /\ q[Len(q)] = Arg(mode, c.fn, c.regs)
    BY <2>1, <2>2, <2>3, HoldsPopped
  <2>6. Events = {Event(How(pc.fn), Stash(pc.fn, pc.regs))}
    BY <1>2, <1>3, <2>4, <2>5, ModeFacts
  <2>7. Stashes(pc.fn)
    BY <1>2, <1>4, ModeFacts DEF Stashed
  <2> QED
    BY <2>6, <2>7 DEF Paired
<1>5. CASE ~Stashed(mode, u)
  <2>1. q = << >> /\ ~Stashes(pc.fn)
    BY <1>2, <1>5, ModeFacts DEF Queue, Stashed
  <2> QED
    BY <1>3, <2>1 DEF Paired
<1> QED
  BY <1>4, <1>5

LEMMA HooksInvSpurious ==
  ASSUME HooksInv
  PROVE  SpuriousBounded
<1> SUFFICES ASSUME NEW s \in DOMAIN Sites PROVE spurious[s] <= strays[s]
  BY DEF SpuriousBounded
<1>1. Charge(mode, pending, live[s], parked, pc, spurious[s], s) <= strays[s]
  BY DEF HooksInv, Charges
<1>2. /\ spurious[s] \in Nat /\ strays[s] \in Nat
      /\ Left(Queue(mode, pending, s), Expected(live[s], pc, s)) \in Nat
      /\ Cardinality(Repeats(mode, parked, s)) \in Nat /\ Owed(mode, live[s], pc, s) \in Nat
  BY ShapeFacts DEF HooksInv
<1> QED
  BY <1>1, <1>2 DEF Charge

\* What the hooks report when a call has just returned is that call with its own arguments,
\* and nothing else, whichever tasks have calls in flight from the same site, as long as
\* those calls return last in, first out and no stray met another of them.
THEOREM HooksPairedReturn == OneConvention => (Spec => []PairedReturn)
<1> SUFFICES ASSUME OneConvention PROVE Spec => []PairedReturn
  OBVIOUS
<1>1. Init => HooksInv
  BY HooksInvInit
<1>2. HooksInv /\ [Next]_vars => HooksInv'
  BY HooksInvNext
<1>3. HooksInv => PairedReturn
  BY HooksInvPaired
<1> QED
  BY <1>1, <1>2, <1>3, PTL DEF Spec

\* Events nothing in the guest caused are at most one for each stray at their site in the
\* same case, in whatever order the calls return.
THEOREM HooksSpuriousBounded == OneConvention => (Spec => []SpuriousBounded)
<1> SUFFICES ASSUME OneConvention PROVE Spec => []SpuriousBounded
  OBVIOUS
<1>1. Init => HooksInv
  BY HooksInvInit
<1>2. HooksInv /\ [Next]_vars => HooksInv'
  BY HooksInvNext
<1>3. HooksInv => SpuriousBounded
  BY HooksInvSpurious
<1> QED
  BY <1>1, <1>2, <1>3, PTL DEF Spec
===============================================================================
