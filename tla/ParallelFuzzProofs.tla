-------------------------- MODULE ParallelFuzzProofs --------------------------
(***************************************************************************)
(* Why a worker of run_parallel may skip the mutex: for any number of       *)
(* workers, cases, programs and buckets and any SYNC_INTERVAL, a local      *)
(* coverage map never leads the shared one, so that "nothing new" against   *)
(* the local map is "nothing new" against the shared one, and the corpus    *)
(* reproduces exactly the coverage found.                                   *)
(***************************************************************************)
EXTENDS ParallelFuzz, FiniteSetTheorems, SequenceTheorems, WellFoundedInduction, TLAPS

-------------------------------------------------------------------------------
\* Facts about the coverage maps.

LEMMA ClassifyCountType == \A c \in Count : ClassifyCount(c) \in Class
BY DEF ClassifyCount, Count, Class

LEMMA HitClass == \A p \in Progs, b \in Buckets : ClassifyCount(Hits[p][b]) \in Class
BY ParallelAssumption, ClassifyCountType DEF Bitmap

\* What folding a program's bitmap does to a map.
LEMMA FoldedProperties ==
  ASSUME NEW v \in VirginMap, NEW p \in Progs
  PROVE  /\ Folded(v, Hits[p]) \in VirginMap
         /\ AtMost(v, Folded(v, Hits[p]))
         /\ ~HasNewBits(Folded(v, Hits[p]), Hits[p])
         /\ ~HasNewBits(v, Hits[p]) => Folded(v, Hits[p]) = v
<1>1. \A b \in Buckets : v[b] \in Class /\ ClassifyCount(Hits[p][b]) \in Class
  BY HitClass DEF VirginMap
<1>2. Folded(v, Hits[p]) \in VirginMap
  BY <1>1 DEF Folded, VirginMap
<1>3. AtMost(v, Folded(v, Hits[p])) /\ ~HasNewBits(Folded(v, Hits[p]), Hits[p])
  BY <1>1 DEF Folded, AtMost, HasNewBits, Advances, Class
<1>4. ASSUME ~HasNewBits(v, Hits[p]) PROVE Folded(v, Hits[p]) = v
  BY <1>2, <1>4 DEF Folded, HasNewBits, VirginMap
<1> QED BY <1>2, <1>3, <1>4

LEMMA AtMostRefl == ASSUME NEW v \in VirginMap PROVE AtMost(v, v)
<1>1. ASSUME NEW b \in Buckets PROVE v[b] <= v[b]
  <2>1. v[b] \in Int
    BY DEF VirginMap, Class
  <2> QED BY <2>1
<1> QED BY <1>1 DEF AtMost

LEMMA AtMostTrans ==
  ASSUME NEW u \in VirginMap, NEW v \in VirginMap, NEW x \in VirginMap,
         AtMost(u, v), AtMost(v, x)
  PROVE  AtMost(u, x)
<1>1. ASSUME NEW b \in Buckets PROVE u[b] <= x[b]
  <2>1. u[b] \in Int /\ v[b] \in Int /\ x[b] \in Int
    BY DEF VirginMap, Class
  <2>2. u[b] <= v[b] /\ v[b] <= x[b]
    BY DEF AtMost
  <2> QED BY <2>1, <2>2
<1> QED BY <1>1 DEF AtMost

\* A larger map finds fewer runs new, and folds to a larger map.
LEMMA AtMostMonotone ==
  ASSUME NEW u \in VirginMap, NEW v \in VirginMap, NEW p \in Progs, AtMost(u, v)
  PROVE  /\ HasNewBits(v, Hits[p]) => HasNewBits(u, Hits[p])
         /\ AtMost(Folded(u, Hits[p]), Folded(v, Hits[p]))
<1>1. \A b \in Buckets : /\ u[b] \in Class /\ v[b] \in Class
                         /\ ClassifyCount(Hits[p][b]) \in Class
                         /\ u[b] <= v[b]
  BY HitClass DEF VirginMap, AtMost
<1>2. HasNewBits(v, Hits[p]) => HasNewBits(u, Hits[p])
  BY <1>1 DEF HasNewBits, Advances, Class
<1>3. ASSUME NEW b \in Buckets
      PROVE  Folded(u, Hits[p])[b] <= Folded(v, Hits[p])[b]
  <2> DEFINE c == ClassifyCount(Hits[p][b])
  <2>1. Folded(u, Hits[p])[b] = IF c > u[b] THEN c ELSE u[b]
    BY DEF Folded, Advances
  <2>2. Folded(v, Hits[p])[b] = IF c > v[b] THEN c ELSE v[b]
    BY DEF Folded, Advances
  <2>3. c \in Int /\ u[b] \in Int /\ v[b] \in Int /\ u[b] <= v[b]
    BY <1>1 DEF Class
  <2> HIDE DEF c
  <2> QED BY <2>1, <2>2, <2>3
<1>4. AtMost(Folded(u, Hits[p]), Folded(v, Hits[p]))
  BY <1>3 DEF AtMost
<1> QED BY <1>2, <1>4

-------------------------------------------------------------------------------
\* Types.

LEMMA InitTypeOK == Init => TypeOK
<1> SUFFICES ASSUME Init PROVE TypeOK
  OBVIOUS
<1>1. NoHits \in VirginMap
  BY DEF NoHits, VirginMap, Class
<1>2. Zero \in [Counters -> Nat]
  BY DEF Zero
<1>3. prog \in [Workers -> Progs]
  BY ParallelAssumption DEF Init
<1>4. corpus \in Seq(Progs) /\ local_corpus \in [Workers -> Seq(Progs)]
  BY SMT DEF Init
<1>5. spawned \in BOOLEAN
  BY Zenon DEF Init
<1>6. locally_new \in [Workers -> BOOLEAN]
  BY DEF Init
<1> QED BY <1>1, <1>2, <1>3, <1>4, <1>5, <1>6 DEF Init, TypeOK

LEMMA CountedType ==
  ASSUME NEW s \in [Counters -> Nat], NEW p \in Progs
  PROVE  Counted(s, p) \in [Counters -> Nat]
BY DEF Counted

LEMMA AdmittedType ==
  ASSUME NEW c \in Seq(Progs), NEW v, NEW p \in Progs
  PROVE  Admitted(c, v, p) \in Seq(Progs)
BY DEF Admitted

LEMMA FlushType ==
  ASSUME TypeOK, NEW w \in Workers, Flush(w)
  PROVE  stats' \in [Counters -> Nat] /\ local_stats' \in [Workers -> [Counters -> Nat]]
<1>1. Zero \in [Counters -> Nat]
  BY DEF Zero
<1> QED BY <1>1 DEF TypeOK, Flush

LEMMA TypeOKInductive == TypeOK /\ [Next]_vars => TypeOK'
<1> SUFFICES ASSUME TypeOK, [Next]_vars PROVE TypeOK'
  OBVIOUS
<1> USE DEF TypeOK, shared, local
<1>1. ASSUME NEW p \in Progs, ReplaySeed(p) PROVE TypeOK'
  <2>1. corpus' \in Seq(Progs) /\ virgin' \in VirginMap
    BY <1>1, AdmittedType, FoldedProperties DEF ReplaySeed
  <2> QED BY <1>1, <2>1 DEF ReplaySeed
<1>2. CASE Spawn
  BY <1>2 DEF Spawn
<1>3. ASSUME NEW w \in Workers, Start(w) PROVE TypeOK'
  BY <1>3 DEF Start
<1>4. ASSUME NEW w \in Workers, Claim(w) PROVE TypeOK'
  BY <1>4 DEF Claim
<1>5. ASSUME NEW w \in Workers, NEW p \in Progs, RunCase(w, p) PROVE TypeOK'
  <2>1. local_stats' \in [Workers -> [Counters -> Nat]]
    BY <1>5, CountedType DEF RunCase
  <2>2. local_virgin' \in [Workers -> VirginMap]
    BY <1>5, FoldedProperties DEF RunCase
  <2>3. locally_new' \in [Workers -> BOOLEAN]
    BY <1>5 DEF RunCase, HasNewBits
  <2>4. /\ prog' \in [Workers -> Progs] /\ ran' \in [Progs -> Nat]
        /\ cases_since_sync' \in [Workers -> Nat]
        /\ pc' \in [Workers -> {"start", "claim", "case", "lock", "minimise", "flush", "exit"}]
    BY <1>5 DEF RunCase
  <2> QED BY <1>5, <2>1, <2>2, <2>3, <2>4 DEF RunCase
<1>6. ASSUME NEW w \in Workers, Lock(w) PROVE TypeOK'
  <2>1. prog[w] \in Progs /\ Sig[prog[w]] \in Sigs \cup {NoCrash}
    BY ParallelAssumption
  <2>2. virgin' \in VirginMap /\ corpus' \in Seq(Progs)
    BY <1>6, <2>1, AdmittedType, FoldedProperties DEF Lock
  <2>3. stats' \in [Counters -> Nat] /\ local_stats' \in [Workers -> [Counters -> Nat]]
    BY <1>6, FlushType DEF Lock
  <2>4. local_corpus' \in [Workers -> Seq(Progs)]
    <3>1. \A c \in Seq(Progs) : Extended(c) \in Seq(Progs)
      BY <2>2 DEF Extended
    <3> QED BY <1>6, <3>1 DEF Lock
  <2>5. crash_sigs' \subseteq Sigs /\ crashes' \in Nat
    BY <1>6, <2>1 DEF Lock, NewCrash
  <2>6. /\ local_virgin' \in [Workers -> VirginMap]
        /\ cases_since_sync' \in [Workers -> Nat]
        /\ pc' \in [Workers -> {"start", "claim", "case", "lock", "minimise", "flush", "exit"}]
    BY <1>6, <2>2 DEF Lock
  <2> QED BY <1>6, <2>2, <2>3, <2>4, <2>5, <2>6 DEF Lock
<1>7. ASSUME NEW w \in Workers, HandleNewCrash(w) PROVE TypeOK'
  <2>1. reports' \in [Sigs -> Nat]
    <3>1. \A x \in Sigs : [reports EXCEPT ![x] = @ + 1] \in [Sigs -> Nat]
      OBVIOUS
    <3>2. ASSUME NEW x, x \notin Sigs, NEW e PROVE [reports EXCEPT ![x] = e] = reports
      BY <3>2
    <3> QED BY <1>7, <3>1, <3>2 DEF HandleNewCrash
  <2> QED BY <1>7, <2>1 DEF HandleNewCrash
<1>8. ASSUME NEW w \in Workers, FinalFlush(w) PROVE TypeOK'
  <2>1. stats' \in [Counters -> Nat] /\ local_stats' \in [Workers -> [Counters -> Nat]]
    BY <1>8, FlushType DEF FinalFlush
  <2> QED BY <1>8, <2>1 DEF FinalFlush
<1>9. CASE UNCHANGED vars
  BY <1>9 DEF vars
<1> QED BY <1>1, <1>2, <1>3, <1>4, <1>5, <1>6, <1>7, <1>8, <1>9 DEF Next, Worker

\* The workers' and the shared state keep their types.
THEOREM ParallelTypeCorrect == Spec => []TypeOK
BY InitTypeOK, TypeOKInductive, PTL DEF Spec

-------------------------------------------------------------------------------
\* The map a worker's local map may reach: the shared one, with the worker's own
\* run folded in while the worker is on its way to do so.
Bound(w) ==
  IF pc[w] = "lock" /\ locally_new[w] THEN Folded(virgin, Hits[prog[w]]) ELSE virgin

\* The shared map only grows.
LEMMA VirginGrows ==
  ASSUME TypeOK, [Next]_vars
  PROVE  AtMost(virgin, virgin')
<1>0. AtMost(virgin, virgin)
  BY AtMostRefl DEF TypeOK
<1>1. ASSUME NEW p \in Progs, ReplaySeed(p) PROVE AtMost(virgin, virgin')
  BY <1>1, FoldedProperties DEF ReplaySeed, TypeOK
<1>2. ASSUME NEW w \in Workers, Lock(w) PROVE AtMost(virgin, virgin')
  BY <1>0, <1>2, FoldedProperties DEF Lock, TypeOK
<1>3. ASSUME UNCHANGED virgin PROVE AtMost(virgin, virgin')
  BY <1>0, <1>3
<1> QED
  BY <1>1, <1>2, <1>3
  DEF Next, Worker, Spawn, Start, Claim, RunCase, HandleNewCrash, FinalFlush, vars, shared

LEMMA BoundType == ASSUME TypeOK, NEW w \in Workers PROVE Bound(w) \in VirginMap
BY FoldedProperties DEF Bound, TypeOK

\* A worker that neither runs a case nor takes the mutex keeps its bound.
LEMMA BoundGrows ==
  ASSUME TypeOK, TypeOK', [Next]_vars, NEW w \in Workers,
         (pc'[w] = "lock") = (pc[w] = "lock"),
         locally_new'[w] = locally_new[w], prog'[w] = prog[w]
  PROVE  AtMost(Bound(w), Bound(w)')
<1>1. AtMost(virgin, virgin') /\ virgin \in VirginMap /\ virgin' \in VirginMap
  BY VirginGrows DEF TypeOK
<1>2. prog[w] \in Progs
  BY DEF TypeOK
<1>3. AtMost(Folded(virgin, Hits[prog[w]]), Folded(virgin', Hits[prog[w]]))
  BY <1>1, <1>2, AtMostMonotone
<1>4. CASE pc[w] = "lock" /\ locally_new[w]
  BY <1>3, <1>4 DEF Bound
<1>5. CASE ~(pc[w] = "lock" /\ locally_new[w])
  BY <1>1, <1>5 DEF Bound
<1> QED BY <1>4, <1>5

LEMMA LocalLagsInductive ==
  ASSUME TypeOK, LocalLags, [Next]_vars
  PROVE  LocalLags'
<1>0. TypeOK'
  BY TypeOKInductive
<1>1. \A w \in Workers : AtMost(local_virgin[w], Bound(w))
  BY DEF LocalLags, Bound
<1>2. SUFFICES ASSUME NEW w \in Workers PROVE AtMost(local_virgin'[w], Bound(w)')
  BY DEF LocalLags, Bound
<1>3. virgin' \in VirginMap /\ AtMost(virgin', virgin')
  BY <1>0, AtMostRefl DEF TypeOK
<1>4. CASE Start(w)
  <2>1. local_virgin'[w] = virgin' /\ pc'[w] = "claim"
    BY <1>4 DEF Start, TypeOK, shared
  <2> QED BY <1>3, <2>1 DEF Bound
<1>5. ASSUME NEW p \in Progs, RunCase(w, p) PROVE AtMost(local_virgin'[w], Bound(w)')
  <2>1. AtMost(local_virgin[w], virgin) /\ virgin \in VirginMap /\ local_virgin[w] \in VirginMap
    BY <1>1, <1>5 DEF RunCase, Bound, TypeOK
  <2>2. /\ local_virgin'[w] = Folded(local_virgin[w], Hits[p])
        /\ virgin' = virgin /\ prog'[w] = p
        /\ locally_new'[w] = HasNewBits(local_virgin[w], Hits[p])
        /\ pc'[w] = IF MustLock(locally_new'[w], p, cases_since_sync[w] + 1)
                      THEN "lock" ELSE "claim"
    BY <1>5 DEF RunCase, TypeOK, shared
  <2>3. CASE HasNewBits(local_virgin[w], Hits[p])
    <3>1. Bound(w)' = Folded(virgin, Hits[p])
      BY <2>2, <2>3 DEF Bound, MustLock
    <3> QED BY <2>1, <2>2, <3>1, AtMostMonotone
  <2>4. CASE ~HasNewBits(local_virgin[w], Hits[p])
    <3>1. Bound(w)' = virgin
      BY <2>2, <2>4 DEF Bound
    <3>2. local_virgin'[w] = local_virgin[w]
      BY <2>1, <2>2, <2>4, FoldedProperties
    <3> QED BY <2>1, <3>1, <3>2
  <2> QED BY <2>3, <2>4
<1>6. CASE Lock(w)
  <2>1. local_virgin'[w] = virgin' /\ pc'[w] # "lock"
    BY <1>6 DEF Lock, TypeOK
  <2> QED BY <1>3, <2>1 DEF Bound
<1>7. ASSUME /\ local_virgin'[w] = local_virgin[w]
             /\ (pc'[w] = "lock") = (pc[w] = "lock")
             /\ locally_new'[w] = locally_new[w] /\ prog'[w] = prog[w]
      PROVE  AtMost(local_virgin'[w], Bound(w)')
  <2>1. AtMost(local_virgin[w], Bound(w)) /\ AtMost(Bound(w), Bound(w)')
    BY <1>0, <1>1, <1>7, BoundGrows
  <2>2. /\ local_virgin[w] \in VirginMap /\ Bound(w) \in VirginMap
        /\ Bound(w)' \in VirginMap
    <3>1. Bound(w)' \in VirginMap
      BY <1>0, FoldedProperties DEF Bound, TypeOK
    <3> QED BY <3>1, BoundType DEF TypeOK
  <2> QED BY <1>7, <2>1, <2>2, AtMostTrans
<1>8. ASSUME NEW x \in Workers, x # w, Worker(x) PROVE AtMost(local_virgin'[w], Bound(w)')
  BY <1>7, <1>8
  DEF Worker, Start, Claim, RunCase, Lock, HandleNewCrash, FinalFlush, TypeOK, local
<1>9. CASE Claim(w) \/ HandleNewCrash(w) \/ FinalFlush(w)
  BY <1>7, <1>9 DEF Claim, HandleNewCrash, FinalFlush, TypeOK, local
<1>10. CASE Spawn \/ (\E p \in Progs : ReplaySeed(p)) \/ UNCHANGED vars
  BY <1>7, <1>10 DEF Spawn, ReplaySeed, vars, local
<1> QED BY <1>4, <1>5, <1>6, <1>8, <1>9, <1>10 DEF Next, Worker

LEMMA InitLags == Init => LocalLags
<1> SUFFICES ASSUME Init PROVE LocalLags
  OBVIOUS
<1>1. \A w \in Workers : local_virgin[w] = NoHits /\ pc[w] = "start"
  BY DEF Init
<1>2. virgin = NoHits /\ NoHits \in VirginMap
  BY DEF Init, NoHits, VirginMap, Class
<1> QED BY <1>1, <1>2, AtMostRefl DEF LocalLags

\* "a thread-local snapshot only ever lags this shared copy, never leads it":
\* the invariant run_parallel's unlocked pre-check rests on.
THEOREM ParallelLocalLags == Spec => []LocalLags
BY InitTypeOK, InitLags, TypeOKInductive, LocalLagsInductive, PTL DEF Spec

-------------------------------------------------------------------------------
\* A case whose pre-check fails shows nothing new to the shared map either.
LEMMA CoverageKeptInductive ==
  ASSUME TypeOK, LocalLags, CoverageKept, [Next]_vars
  PROVE  CoverageKept'
<1>0. TypeOK'
  BY TypeOKInductive
<1> DEFINE Carried(q) == \E w \in Workers : pc[w] = "lock" /\ locally_new[w] /\ prog[w] = q
<1>1. SUFFICES ASSUME NEW q \in Progs, ran'[q] > 0
               PROVE  ~HasNewBits(virgin', Hits[q]) \/ Carried(q)'
  BY DEF CoverageKept
<1>2. AtMost(virgin, virgin') /\ virgin \in VirginMap /\ virgin' \in VirginMap
  BY <1>0, VirginGrows DEF TypeOK
<1>3. ASSUME ~HasNewBits(virgin, Hits[q]) PROVE ~HasNewBits(virgin', Hits[q])
  BY <1>2, <1>3, AtMostMonotone
<1>4. ran[q] > 0 => ~HasNewBits(virgin, Hits[q]) \/ Carried(q)
  BY DEF CoverageKept
<1>5. ASSUME NEW w \in Workers, NEW p \in Progs, RunCase(w, p)
      PROVE  ~HasNewBits(virgin', Hits[q]) \/ Carried(q)'
  <2>1. /\ pc[w] = "case" /\ virgin' = virgin /\ prog'[w] = p
        /\ locally_new'[w] = HasNewBits(local_virgin[w], Hits[p])
        /\ locally_new'[w] => pc'[w] = "lock"
        /\ \A x \in Workers : x # w => /\ pc'[x] = pc[x] /\ prog'[x] = prog[x]
                                       /\ locally_new'[x] = locally_new[x]
        /\ \A r \in Progs : r # p => ran'[r] = ran[r]
    BY <1>5 DEF RunCase, TypeOK, shared, MustLock
  <2>2. CASE q = p
    <3>1. AtMost(local_virgin[w], virgin) /\ local_virgin[w] \in VirginMap
      BY <2>1 DEF LocalLags, TypeOK
    <3>2. CASE HasNewBits(local_virgin[w], Hits[p])
      BY <2>1, <2>2, <3>2
    <3>3. CASE ~HasNewBits(local_virgin[w], Hits[p])
      BY <1>2, <2>1, <2>2, <3>1, <3>3, AtMostMonotone
    <3> QED BY <3>2, <3>3
  <2>3. CASE q # p
    <3>1. ran[q] > 0
      BY <2>1, <2>3, <1>1
    <3>2. Carried(q) => Carried(q)'
      BY <2>1
    <3> QED BY <1>3, <1>4, <3>1, <3>2
  <2> QED BY <2>2, <2>3
<1>6. ASSUME NEW w \in Workers, Lock(w)
      PROVE  ~HasNewBits(virgin', Hits[q]) \/ Carried(q)'
  <2>1. /\ ran' = ran /\ prog' = prog /\ locally_new' = locally_new
        /\ locally_new[w] => virgin' = Folded(virgin, Hits[prog[w]])
        /\ \A x \in Workers : x # w => pc'[x] = pc[x]
    BY <1>6 DEF Lock, TypeOK
  <2>2. CASE locally_new[w] /\ prog[w] = q
    BY <1>2, <2>1, <2>2, FoldedProperties
  <2>3. CASE ~(locally_new[w] /\ prog[w] = q)
    <3>1. Carried(q) => Carried(q)'
      BY <2>1, <2>3
    <3> QED BY <1>1, <1>3, <1>4, <2>1, <3>1
  <2> QED BY <2>2, <2>3
<1>7. ASSUME /\ ran' = ran /\ prog' = prog /\ locally_new' = locally_new
             /\ \A x \in Workers : pc[x] = "lock" => pc'[x] = "lock"
      PROVE  ~HasNewBits(virgin', Hits[q]) \/ Carried(q)'
  BY <1>1, <1>3, <1>4, <1>7
<1>8. ASSUME NEW w \in Workers,
             Start(w) \/ Claim(w) \/ HandleNewCrash(w) \/ FinalFlush(w)
      PROVE  ~HasNewBits(virgin', Hits[q]) \/ Carried(q)'
  BY <1>7, <1>8 DEF Start, Claim, HandleNewCrash, FinalFlush, TypeOK
<1>9. CASE Spawn \/ (\E p \in Progs : ReplaySeed(p)) \/ UNCHANGED vars
  BY <1>7, <1>9 DEF Spawn, ReplaySeed, vars
<1> QED BY <1>5, <1>6, <1>8, <1>9 DEF Next, Worker

\* Skipping the mutex never loses coverage: every program a worker ran is covered
\* by the shared map, or its worker is about to fold it in.
THEOREM ParallelCoverageKept == Spec => []CoverageKept
<1>1. Init => CoverageKept
  <2> SUFFICES ASSUME Init PROVE CoverageKept
    OBVIOUS
  <2>1. \A p \in Progs : ~(ran[p] > 0)
    BY DEF Init
  <2> QED BY <2>1 DEF CoverageKept
<1> QED
  BY <1>1, InitTypeOK, InitLags, TypeOKInductive, LocalLagsInductive, CoverageKeptInductive, PTL
  DEF Spec

-------------------------------------------------------------------------------
\* CorpusCovers of any corpus c and map v.
Covers(c, v) ==
  /\ \A i \in DOMAIN c : ~HasNewBits(v, Hits[c[i]])
  /\ \A b \in Buckets : v[b] > 0 =>
       \E i \in DOMAIN c : ClassifyCount(Hits[c[i]][b]) = v[b]
  /\ \A i \in DOMAIN c : \E b \in Buckets : \A j \in 1 .. i - 1 :
       ClassifyCount(Hits[c[j]][b]) < ClassifyCount(Hits[c[i]][b])

\* Admitting a program and folding its run belong together.
LEMMA AdmitCovers ==
  ASSUME NEW c \in Seq(Progs), NEW v \in VirginMap, NEW p \in Progs, Covers(c, v)
  PROVE  Covers(Admitted(c, v, p), Folded(v, Hits[p]))
<1> DEFINE d == Admitted(c, v, p)
           u == Folded(v, Hits[p])
           cl(q, b) == ClassifyCount(Hits[q][b])
<1>1. CASE ~HasNewBits(v, Hits[p])
  <2>1. d = c /\ u = v
    BY <1>1, FoldedProperties DEF Admitted
  <2> QED BY <2>1
<1>2. CASE HasNewBits(v, Hits[p])
  <2>1. /\ d \in Seq(Progs) /\ Len(d) = Len(c) + 1 /\ d[Len(d)] = p
        /\ \A i \in 1 .. Len(c) : d[i] = c[i]
        /\ DOMAIN d = 1 .. Len(d) /\ DOMAIN c = 1 .. Len(c) /\ Len(c) \in Nat
    BY <1>2 DEF Admitted
  <2>2. u \in VirginMap /\ AtMost(v, u) /\ ~HasNewBits(u, Hits[p])
    BY FoldedProperties
  <2>3. \A q \in Progs, b \in Buckets : cl(q, b) \in Int /\ v[b] \in Int
    BY HitClass DEF VirginMap, Class
  <2>4. \A i \in 1 .. Len(c) : c[i] \in Progs
    BY <2>1
  <2>5. ASSUME NEW i \in DOMAIN d PROVE ~HasNewBits(u, Hits[d[i]])
    <3>1. CASE i = Len(d)
      BY <2>1, <2>2, <3>1
    <3>2. CASE i # Len(d)
      <4>1. i \in 1 .. Len(c) /\ d[i] = c[i]
        BY <2>1, <3>2
      <4>2. ~HasNewBits(v, Hits[c[i]])
        BY <2>1, <4>1 DEF Covers
      <4> QED BY <2>2, <2>4, <4>1, <4>2, AtMostMonotone
    <3> QED BY <3>1, <3>2
  <2>6. ASSUME NEW b \in Buckets, u[b] > 0 PROVE \E i \in DOMAIN d : cl(d[i], b) = u[b]
    <3>1. CASE Advances(v, Hits[p], b)
      <4>1. u[b] = cl(p, b)
        BY <3>1 DEF Folded
      <4>2. Len(d) \in DOMAIN d
        BY <2>1
      <4> QED BY <2>1, <4>1, <4>2
    <3>2. CASE ~Advances(v, Hits[p], b)
      <4>1. u[b] = v[b]
        BY <3>2 DEF Folded
      <4>2. PICK i \in DOMAIN c : cl(c[i], b) = v[b]
        BY <2>6, <4>1 DEF Covers
      <4>3. i \in DOMAIN d /\ d[i] = c[i]
        BY <2>1, <4>2
      <4> QED BY <4>1, <4>2, <4>3
    <3> QED BY <3>1, <3>2
  <2>7. ASSUME NEW i \in DOMAIN d
        PROVE  \E b \in Buckets : \A j \in 1 .. i - 1 : cl(d[j], b) < cl(d[i], b)
    <3>1. CASE i = Len(d)
      <4>1. PICK b \in Buckets : cl(p, b) > v[b]
        BY <1>2 DEF HasNewBits, Advances
      <4>2. ASSUME NEW j \in 1 .. i - 1 PROVE cl(d[j], b) < cl(d[i], b)
        <5>1. j \in 1 .. Len(c) /\ d[j] = c[j] /\ d[i] = p
          BY <2>1, <3>1
        <5>2. ~(cl(c[j], b) > v[b])
          BY <2>1, <5>1 DEF Covers, HasNewBits, Advances
        <5>3. cl(c[j], b) \in Int /\ cl(p, b) \in Int /\ v[b] \in Int
          BY <2>3, <2>4, <5>1
        <5> HIDE DEF cl
        <5> QED BY <4>1, <5>1, <5>2, <5>3
      <4> QED BY <4>2
    <3>2. CASE i # Len(d)
      <4>1. i \in DOMAIN c /\ d[i] = c[i] /\ \A j \in 1 .. i - 1 : d[j] = c[j]
        BY <2>1, <3>2
      <4>2. PICK b \in Buckets : \A j \in 1 .. i - 1 : cl(c[j], b) < cl(c[i], b)
        BY <4>1 DEF Covers
      <4> QED BY <4>1, <4>2
    <3> QED BY <3>1, <3>2
  <2>8. Covers(d, u)
    <3> HIDE DEF d, u
    <3> QED BY <2>5, <2>6, <2>7 DEF Covers
  <2> QED BY <2>8
<1> QED BY <1>1, <1>2

\* However the workers interleave, the corpus run_parallel saves reproduces the
\* whole shared coverage map, and no entry was redundant when it was admitted.
THEOREM ParallelCorpusCovers == Spec => []CorpusCovers
<1>1. Init => CorpusCovers
  BY DEF Init, CorpusCovers, NoHits
<1>2. TypeOK /\ CorpusCovers /\ [Next]_vars => CorpusCovers'
  <2> SUFFICES ASSUME TypeOK, CorpusCovers, [Next]_vars PROVE Covers(corpus', virgin')
    BY DEF CorpusCovers, Covers
  <2>0. Covers(corpus, virgin) /\ corpus \in Seq(Progs) /\ virgin \in VirginMap
    BY DEF CorpusCovers, Covers, TypeOK
  <2>1. ASSUME NEW p \in Progs, ReplaySeed(p) PROVE Covers(corpus', virgin')
    BY <2>0, <2>1, AdmitCovers DEF ReplaySeed
  <2>2. ASSUME NEW w \in Workers, Lock(w) PROVE Covers(corpus', virgin')
    <3>1. prog[w] \in Progs
      BY DEF TypeOK
    <3>2. CASE locally_new[w]
      BY <2>0, <2>2, <3>1, <3>2, AdmitCovers DEF Lock
    <3>3. CASE ~locally_new[w]
      BY <2>0, <2>2, <3>3 DEF Lock
    <3> QED BY <3>2, <3>3
  <2>3. ASSUME UNCHANGED <<virgin, corpus>> PROVE Covers(corpus', virgin')
    BY <2>0, <2>3
  <2> QED
    BY <2>1, <2>2, <2>3
    DEF Next, Worker, Spawn, Start, Claim, RunCase, HandleNewCrash, FinalFlush, vars, shared
<1> QED BY <1>1, <1>2, InitTypeOK, TypeOKInductive, PTL DEF Spec

-------------------------------------------------------------------------------
\* Local corpora.

LEMMA PrefixMeans ==
  ASSUME NEW c \in Seq(Progs), NEW d \in Seq(Progs)
  PROVE  IsPrefix(c, d) <=> Len(c) <= Len(d) /\ \A i \in 1 .. Len(c) : c[i] = d[i]
<1>1. ASSUME Len(c) <= Len(d)
      PROVE  /\ SubSeq(c, 1, Len(c)) \in Seq(Progs) /\ SubSeq(d, 1, Len(c)) \in Seq(Progs)
             /\ Len(SubSeq(c, 1, Len(c))) = Len(c) /\ Len(SubSeq(d, 1, Len(c))) = Len(c)
             /\ \A i \in 1 .. Len(c) : SubSeq(c, 1, Len(c))[i] = c[i]
             /\ \A i \in 1 .. Len(c) : SubSeq(d, 1, Len(c))[i] = d[i]
  BY <1>1
<1>2. \A s \in Seq(Progs), t \in Seq(Progs) :
        s = t <=> Len(s) = Len(t) /\ \A i \in 1 .. Len(s) : s[i] = t[i]
  BY SeqEqual
<1> QED BY <1>1, <1>2 DEF IsPrefix

LEMMA PrefixTrans ==
  ASSUME NEW c \in Seq(Progs), NEW d \in Seq(Progs), NEW e \in Seq(Progs),
         IsPrefix(c, d), IsPrefix(d, e)
  PROVE  IsPrefix(c, e)
<1>1. /\ Len(c) \in Nat /\ Len(d) \in Nat /\ Len(e) \in Nat
      /\ Len(c) <= Len(d) /\ \A i \in 1 .. Len(c) : c[i] = d[i]
      /\ Len(d) <= Len(e) /\ \A i \in 1 .. Len(d) : d[i] = e[i]
  BY PrefixMeans
<1>2. Len(c) <= Len(e) /\ \A i \in 1 .. Len(c) : c[i] = e[i]
  BY <1>1
<1> QED BY <1>2, PrefixMeans

\* The shared corpus only grows at its end.
LEMMA CorpusGrows ==
  ASSUME TypeOK, [Next]_vars
  PROVE  IsPrefix(corpus, corpus')
<1>1. corpus \in Seq(Progs) /\ IsPrefix(corpus, corpus)
  BY PrefixMeans DEF TypeOK
<1>2. ASSUME NEW v, NEW p \in Progs PROVE IsPrefix(corpus, Admitted(corpus, v, p))
  <2>1. CASE HasNewBits(v, Hits[p])
    <3> DEFINE d == Append(corpus, p)
    <3>1. d \in Seq(Progs) /\ Len(d) = Len(corpus) + 1 /\ Len(corpus) \in Nat
      BY <1>1
    <3>2. \A i \in 1 .. Len(corpus) : d[i] = corpus[i]
      BY <1>1
    <3> HIDE DEF d
    <3>3. IsPrefix(corpus, d)
      BY <1>1, <3>1, <3>2, PrefixMeans
    <3> QED BY <2>1, <3>3 DEF Admitted, d
  <2>2. CASE ~HasNewBits(v, Hits[p])
    BY <1>1, <2>2 DEF Admitted
  <2> QED BY <2>1, <2>2
<1>3. ASSUME NEW p \in Progs, ReplaySeed(p) PROVE IsPrefix(corpus, corpus')
  BY <1>2, <1>3 DEF ReplaySeed
<1>4. ASSUME NEW w \in Workers, Lock(w) PROVE IsPrefix(corpus, corpus')
  BY <1>1, <1>2, <1>4 DEF Lock, TypeOK
<1>5. ASSUME UNCHANGED corpus PROVE IsPrefix(corpus, corpus')
  BY <1>1, <1>5
<1> QED
  BY <1>3, <1>4, <1>5
  DEF Next, Worker, Spawn, Start, Claim, RunCase, HandleNewCrash, FinalFlush, vars, shared

\* Appending the entries past a prefix's length makes it the whole.
LEMMA ExtendedIsCorpus ==
  ASSUME corpus' \in Seq(Progs), NEW c \in Seq(Progs), IsPrefix(c, corpus')
  PROVE  Extended(c) = corpus'
<1> DEFINE d == corpus'
           tail == SubSeq(d, Len(c) + 1, Len(d))
<1>1. /\ Len(c) \in Nat /\ Len(d) \in Nat /\ Len(c) <= Len(d)
      /\ \A i \in 1 .. Len(c) : c[i] = d[i]
  BY PrefixMeans
<1>2. CASE Len(d) > Len(c)
  <2>1. /\ tail \in Seq(Progs) /\ Len(tail) = Len(d) - Len(c)
        /\ \A i \in 1 .. Len(d) - Len(c) : tail[i] = d[Len(c) + i]
    BY <1>1, <1>2
  <2> HIDE DEF tail
  <2>2. /\ c \o tail \in Seq(Progs) /\ Len(c \o tail) = Len(d)
        /\ \A i \in 1 .. Len(d) : (c \o tail)[i] = IF i <= Len(c) THEN c[i] ELSE tail[i - Len(c)]
    BY <1>1, <2>1
  <2>3. \A i \in 1 .. Len(d) : (c \o tail)[i] = d[i]
    BY <1>1, <2>1, <2>2
  <2>4. c \o tail = d
    BY <2>2, <2>3, SeqEqual
  <2> QED BY <1>2, <2>4 DEF Extended, tail
<1>3. CASE Len(d) = Len(c)
  <2>1. c = d
    BY <1>1, <1>3, SeqEqual
  <2> QED BY <1>3, <2>1 DEF Extended
<1> QED BY <1>1, <1>2, <1>3

LEMMA LocalPrefixInductive ==
  ASSUME TypeOK, LocalPrefix, [Next]_vars
  PROVE  LocalPrefix'
<1>0. TypeOK' /\ IsPrefix(corpus, corpus')
  BY TypeOKInductive, CorpusGrows
<1>1. SUFFICES ASSUME NEW w \in Workers, pc'[w] # "start"
               PROVE  IsPrefix(local_corpus'[w], corpus')
  BY DEF LocalPrefix
<1>2. /\ corpus \in Seq(Progs) /\ corpus' \in Seq(Progs)
      /\ local_corpus[w] \in Seq(Progs) /\ local_corpus'[w] \in Seq(Progs)
  BY <1>0 DEF TypeOK
<1>3. IsPrefix(corpus', corpus')
  BY <1>2, PrefixMeans
<1>4. ASSUME pc[w] # "start" PROVE IsPrefix(local_corpus[w], corpus')
  BY <1>0, <1>2, <1>4, PrefixTrans DEF LocalPrefix
<1>5. CASE Start(w)
  <2>1. local_corpus'[w] = corpus'
    BY <1>5 DEF Start, TypeOK, shared
  <2> QED BY <1>3, <2>1
<1>6. CASE Lock(w)
  <2>1. pc[w] = "lock" /\ local_corpus'[w] = Extended(local_corpus[w])
    BY <1>6 DEF Lock, TypeOK
  <2>2. Extended(local_corpus[w]) = corpus'
    BY <1>2, <1>4, <2>1, ExtendedIsCorpus
  <2> QED BY <1>3, <2>1, <2>2
<1>7. ASSUME local_corpus'[w] = local_corpus[w], pc[w] # "start"
      PROVE  IsPrefix(local_corpus'[w], corpus')
  BY <1>4, <1>7
<1>8. ASSUME NEW x \in Workers, x # w, Worker(x) PROVE IsPrefix(local_corpus'[w], corpus')
  BY <1>1, <1>7, <1>8
  DEF Worker, Start, Claim, RunCase, Lock, HandleNewCrash, FinalFlush, TypeOK, local
<1>9. ASSUME Claim(w) \/ HandleNewCrash(w) \/ FinalFlush(w) \/ \E p \in Progs : RunCase(w, p)
      PROVE  IsPrefix(local_corpus'[w], corpus')
  BY <1>7, <1>9 DEF Claim, HandleNewCrash, FinalFlush, RunCase, TypeOK, local
<1>10. CASE Spawn \/ (\E p \in Progs : ReplaySeed(p)) \/ UNCHANGED vars
  BY <1>1, <1>7, <1>10 DEF Spawn, ReplaySeed, vars, local
<1> QED BY <1>5, <1>6, <1>8, <1>9, <1>10 DEF Next, Worker

\* A worker's corpus is always a prefix of the shared one, so that catching up by length
\* alone (local_corpus.extend_from_slice of the tail) gives it the shared corpus exactly:
\* no entry is missed or duplicated, however the workers interleave.
THEOREM ParallelLocalPrefix == Spec => []LocalPrefix
<1>1. Init => LocalPrefix
  BY DEF Init, LocalPrefix
<1> QED BY <1>1, InitTypeOK, TypeOKInductive, LocalPrefixInductive, PTL DEF Spec

-------------------------------------------------------------------------------
\* Crash reports.

\* The workers on their way to minimise and write signature s.
Minimising(s) == {w \in Workers : pc[w] = "minimise" /\ Sig[prog[w]] = s}

LEMMA MinimisingFinite == ASSUME NEW s PROVE IsFiniteSet(Minimising(s))
BY FS_Subset, ParallelAssumption DEF Minimising

LEMMA CrashOnceInductive ==
  ASSUME TypeOK, CrashOnce, [Next]_vars
  PROVE  CrashOnce'
<1>0. TypeOK'
  BY TypeOKInductive
<1> DEFINE Carried(q) == \E w \in Workers : pc[w] = "lock" /\ prog[w] = q
<1>1. SUFFICES ASSUME NEW s \in Sigs
               PROVE  /\ reports'[s] + Cardinality(Minimising(s)')
                           = IF s \in crash_sigs' THEN 1 ELSE 0
                      /\ \A q \in Progs : ran'[q] > 0 /\ Sig[q] = s =>
                           s \in crash_sigs' \/ Carried(q)'
  BY DEF CrashOnce, Minimising
<1>2. /\ reports[s] + Cardinality(Minimising(s)) = IF s \in crash_sigs THEN 1 ELSE 0
      /\ \A q \in Progs : ran[q] > 0 /\ Sig[q] = s => s \in crash_sigs \/ Carried(q)
  BY DEF CrashOnce, Minimising
<1>3. /\ reports[s] \in Nat /\ IsFiniteSet(Minimising(s)) /\ Cardinality(Minimising(s)) \in Nat
  BY MinimisingFinite, FS_CardinalityType DEF TypeOK
<1> DEFINE Kept == /\ reports'[s] + Cardinality(Minimising(s)')
                        = IF s \in crash_sigs' THEN 1 ELSE 0
                   /\ \A q \in Progs : ran'[q] > 0 /\ Sig[q] = s =>
                        s \in crash_sigs' \/ Carried(q)'
<1>4. ASSUME NEW w \in Workers, NEW p \in Progs, RunCase(w, p) PROVE Kept
  <2>1. /\ pc[w] = "case" /\ prog'[w] = p /\ reports' = reports /\ crash_sigs' = crash_sigs
        /\ pc'[w] \in {"lock", "claim"} /\ (Sig[p] # NoCrash => pc'[w] = "lock")
        /\ \A x \in Workers : x # w => pc'[x] = pc[x] /\ prog'[x] = prog[x]
        /\ \A r \in Progs : r # p => ran'[r] = ran[r]
    BY <1>4 DEF RunCase, TypeOK, shared, MustLock
  <2>2. Minimising(s)' = Minimising(s)
    BY <2>1 DEF Minimising
  <2>3. \A q \in Progs : Carried(q) => Carried(q)'
    BY <2>1
  <2>4. s # NoCrash
    BY ParallelAssumption
  <2>5. ASSUME NEW q \in Progs, ran'[q] > 0, Sig[q] = s PROVE s \in crash_sigs' \/ Carried(q)'
    <3>1. CASE q = p
      BY <2>1, <2>4, <2>5, <3>1
    <3>2. CASE q # p
      BY <1>2, <2>1, <2>3, <2>5, <3>2
    <3> QED BY <3>1, <3>2
  <2> QED BY <1>2, <2>1, <2>2, <2>5
<1>5. ASSUME NEW w \in Workers, Lock(w) PROVE Kept
  <2>1. /\ pc[w] = "lock" /\ ran' = ran /\ prog' = prog /\ reports' = reports
        /\ crash_sigs' = IF NewCrash(prog[w]) THEN crash_sigs \cup {Sig[prog[w]]} ELSE crash_sigs
        /\ pc'[w] = IF NewCrash(prog[w]) THEN "minimise" ELSE "claim"
        /\ \A x \in Workers : x # w => pc'[x] = pc[x]
    BY <1>5 DEF Lock, TypeOK
  <2>2. w \notin Minimising(s)
    BY <2>1 DEF Minimising
  <2>3. CASE Sig[prog[w]] = s
    <3>1. s # NoCrash /\ s \in crash_sigs'
      BY <2>1, <2>3, ParallelAssumption DEF NewCrash
    <3>2. CASE s \in crash_sigs
      <4>1. Minimising(s)' = Minimising(s)
        BY <2>1, <2>3, <3>2 DEF Minimising, NewCrash
      <4> QED BY <1>2, <2>1, <3>1, <3>2, <4>1
    <3>3. CASE s \notin crash_sigs
      <4>1. Minimising(s)' = Minimising(s) \cup {w}
        BY <2>1, <2>3, <3>1, <3>3 DEF Minimising, NewCrash
      <4>2. Cardinality(Minimising(s)') = Cardinality(Minimising(s)) + 1
        BY <1>3, <2>2, <4>1, FS_AddElement
      <4> QED BY <1>2, <1>3, <2>1, <3>1, <3>3, <4>2
    <3> QED BY <3>2, <3>3
  <2>4. CASE Sig[prog[w]] # s
    <3>1. (s \in crash_sigs') = (s \in crash_sigs)
      BY <2>1, <2>4
    <3>2. Minimising(s)' = Minimising(s)
      BY <2>1, <2>4 DEF Minimising
    <3>3. \A q \in Progs : Sig[q] = s /\ Carried(q) => Carried(q)'
      BY <2>1, <2>4
    <3> QED BY <1>2, <2>1, <3>1, <3>2, <3>3
  <2> QED BY <2>3, <2>4
<1>6. ASSUME NEW w \in Workers, HandleNewCrash(w) PROVE Kept
  <2>1. /\ pc[w] = "minimise" /\ pc'[w] = "claim" /\ prog' = prog /\ ran' = ran
        /\ crash_sigs' = crash_sigs
        /\ reports' = [reports EXCEPT ![Sig[prog[w]]] = @ + 1]
        /\ \A x \in Workers : x # w => pc'[x] = pc[x]
    BY <1>6 DEF HandleNewCrash, TypeOK, shared
  <2>2. \A q \in Progs : Carried(q) => Carried(q)'
    BY <2>1
  <2>3. CASE Sig[prog[w]] = s
    <3>1. Minimising(s)' = Minimising(s) \ {w} /\ w \in Minimising(s)
      BY <2>1, <2>3 DEF Minimising
    <3>2. Cardinality(Minimising(s)') = Cardinality(Minimising(s)) - 1
      BY <1>3, <3>1, FS_RemoveElement
    <3>3. reports'[s] = reports[s] + 1
      BY <2>1, <2>3 DEF TypeOK
    <3> QED BY <1>2, <1>3, <2>1, <2>2, <3>2, <3>3
  <2>4. CASE Sig[prog[w]] # s
    <3>1. Minimising(s)' = Minimising(s)
      BY <2>1, <2>4 DEF Minimising
    <3>2. reports'[s] = reports[s]
      BY <2>1, <2>4 DEF TypeOK
    <3> QED BY <1>2, <2>1, <2>2, <3>1, <3>2
  <2> QED BY <2>3, <2>4
<1>7. ASSUME /\ reports' = reports /\ crash_sigs' = crash_sigs /\ ran' = ran /\ prog' = prog
             /\ \A x \in Workers : /\ (pc[x] = "lock") = (pc'[x] = "lock")
                                   /\ (pc[x] = "minimise") = (pc'[x] = "minimise")
      PROVE  Kept
  <2>1. Minimising(s)' = Minimising(s)
    BY <1>7 DEF Minimising
  <2>2. \A q \in Progs : Carried(q) => Carried(q)'
    BY <1>7
  <2> QED BY <1>2, <1>7, <2>1, <2>2
<1>8. ASSUME NEW w \in Workers, Start(w) \/ Claim(w) \/ FinalFlush(w) PROVE Kept
  BY <1>7, <1>8 DEF Start, Claim, FinalFlush, TypeOK, shared
<1>9. CASE Spawn \/ (\E p \in Progs : ReplaySeed(p)) \/ UNCHANGED vars
  BY <1>7, <1>9 DEF Spawn, ReplaySeed, vars, shared
<1> QED BY <1>4, <1>5, <1>6, <1>8, <1>9 DEF Next, Worker

\* However many workers hit the same crash at once, its signature is minimised and written
\* exactly once, and every crash a worker saw is in the signature set or about to be.
THEOREM ParallelCrashOnce == Spec => []CrashOnce
<1>1. Init => CrashOnce
  <2> SUFFICES ASSUME Init, NEW s \in Sigs
               PROVE  /\ reports[s] + Cardinality(Minimising(s)) = IF s \in crash_sigs THEN 1 ELSE 0
                      /\ \A p \in Progs : ~(ran[p] > 0)
    BY DEF CrashOnce, Minimising
  <2>1. reports[s] = 0 /\ crash_sigs = {} /\ \A p \in Progs : ran[p] = 0
    BY DEF Init
  <2>2. Minimising(s) = {}
    BY DEF Init, Minimising
  <2> QED BY <2>1, <2>2, FS_EmptySet
<1> QED BY <1>1, InitTypeOK, TypeOKInductive, CrashOnceInductive, PTL DEF Spec

-------------------------------------------------------------------------------
\* Sums over finite sets.

SumOver(f, S) == MapThenSumSet(LAMBDA x : f[x], S)

Pick(s) == CHOOSE x \in s : TRUE

\* What the sum of f over each subset of S is, given the sums over smaller ones.
Summed(f, T, g) == [s \in T |-> IF s = {} THEN 0 ELSE f[Pick(s)] + g[s \ {Pick(s)}]]

LEMMA PickRemoves ==
  ASSUME NEW S, IsFiniteSet(S), NEW s \in SUBSET S, s # {}
  PROVE  /\ Pick(s) \in s /\ s \ {Pick(s)} \in SUBSET S
         /\ Cardinality(s) \in Nat \ {0} /\ Cardinality(s \ {Pick(s)}) = Cardinality(s) - 1
<1>1. Pick(s) \in s
  BY DEF Pick
<1>2. IsFiniteSet(s)
  BY FS_Subset
<1> QED BY <1>1, <1>2, FS_RemoveElement, FS_CardinalityType, FS_EmptySet

\* A set with 0 and the successors of its members has every natural number.
LEMMA NatSetInduction ==
  ASSUME NEW S, 0 \in S, \A n \in Nat : n \in S => n + 1 \in S
  PROVE  \A n \in Nat : n \in S
<1> DEFINE T == {n \in Nat : n \notin S}
<1> SUFFICES ASSUME T # {} PROVE FALSE
  OBVIOUS
<1>1. PICK n \in T : \A k \in T : <<k, n>> \notin OpToRel(<, Nat)
  <2>1. T \subseteq Nat
    OBVIOUS
  <2> HIDE DEF T
  <2> QED BY <2>1, NatLessThanWellFounded, WFMin
<1>2. n \in Nat \ {0} /\ n - 1 \in Nat /\ n - 1 < n
  OBVIOUS
<1>3. n - 1 \notin T
  BY <1>1, <1>2 DEF OpToRel
<1> QED BY <1>2, <1>3

\* Induction over the subsets of a finite set, one element at a time.
LEMMA SubsetInduction ==
  ASSUME NEW S, IsFiniteSet(S), NEW Q, {} \in Q,
         \A s \in SUBSET S : s # {} /\ s \ {Pick(s)} \in Q => s \in Q
  PROVE  \A s \in SUBSET S : s \in Q
<1> DEFINE N == {n \in Nat : \A s \in SUBSET S : Cardinality(s) = n => s \in Q}
<1>1. 0 \in N
  BY FS_EmptySet, FS_Subset
<1>2. ASSUME NEW n \in Nat, n \in N PROVE n + 1 \in N
  <2> SUFFICES ASSUME NEW s \in SUBSET S, Cardinality(s) = n + 1 PROVE s \in Q
    OBVIOUS
  <2>1. s # {}
    BY FS_EmptySet
  <2>2. s \ {Pick(s)} \in SUBSET S /\ Cardinality(s \ {Pick(s)}) = n
    BY <2>1, PickRemoves
  <2> QED BY <1>2, <2>1, <2>2
<1>3. \A n \in Nat : n \in N
  <2> HIDE DEF N
  <2> QED BY <1>1, <1>2, NatSetInduction
<1>4. \A s \in SUBSET S : Cardinality(s) \in Nat
  BY FS_Subset, FS_CardinalityType
<1> QED BY <1>3, <1>4

\* The sum's recursion is well defined.
LEMMA SumExists ==
  ASSUME NEW S, IsFiniteSet(S), NEW f
  PROVE  \E g : g = Summed(f, SUBSET S, g)
<1> DEFINE Upto(n) == {s \in SUBSET S : Cardinality(s) <= n}
           N == {n \in Nat : \E g : g = Summed(f, Upto(n), g)}
<1>0. \A s \in SUBSET S : Cardinality(s) \in Nat /\ Cardinality(s) <= Cardinality(S)
  BY FS_Subset, FS_CardinalityType
<1>1. 0 \in N
  <2>1. \A s \in Upto(0) : s = {}
    BY <1>0, FS_EmptySet, FS_Subset
  <2> DEFINE g == [s \in Upto(0) |-> 0]
  <2>2. g = Summed(f, Upto(0), g)
    BY <2>1 DEF Summed
  <2> QED BY <2>2
<1>2. ASSUME NEW n \in Nat, n \in N PROVE n + 1 \in N
  <2>1. PICK g : g = Summed(f, Upto(n), g)
    BY <1>2
  <2> DEFINE h == [s \in Upto(n + 1) |-> IF s = {} THEN 0 ELSE f[Pick(s)] + g[s \ {Pick(s)}]]
  <2>2. ASSUME NEW s \in Upto(n + 1), s # {} PROVE h[s \ {Pick(s)}] = g[s \ {Pick(s)}]
    <3> DEFINE t == s \ {Pick(s)}
    <3>1. t \in Upto(n)
      BY <2>2, <1>0, PickRemoves
    <3>2. t \in Upto(n + 1)
      BY <3>1, <1>0
    <3> HIDE DEF t
    <3>3. h[t] = IF t = {} THEN 0 ELSE f[Pick(t)] + g[t \ {Pick(t)}]
      BY <3>2
    <3>4. g[t] = IF t = {} THEN 0 ELSE f[Pick(t)] + g[t \ {Pick(t)}]
      BY <2>1, <3>1 DEF Summed
    <3>5. h[t] = g[t]
      BY <3>3, <3>4
    <3> QED BY <3>5 DEF t
  <2>3. h = Summed(f, Upto(n + 1), h)
    BY <2>2 DEF Summed
  <2>4. \E k : k = Summed(f, Upto(n + 1), k)
    <3> HIDE DEF h
    <3> QED BY <2>3
  <2> HIDE DEF Upto
  <2> QED BY <2>4
<1>3. \A n \in Nat : n \in N
  <2> HIDE DEF N
  <2> QED BY <1>1, <1>2, NatSetInduction
<1>4. Cardinality(S) \in Nat /\ Upto(Cardinality(S)) = SUBSET S
  BY <1>0, FS_CardinalityType
<1> QED BY <1>3, <1>4

\* The sums over the subsets of S, one element at a time.
LEMMA SumSteps ==
  ASSUME NEW S, IsFiniteSet(S), NEW f
  PROVE  \E g : g[S] = SumOver(f, S) /\ g = Summed(f, SUBSET S, g)
<1> DEFINE g == CHOOSE h : h = Summed(f, SUBSET S, h)
<1>1. SumOver(f, S) = g[S]
  BY DEF SumOver, MapThenSumSet, MapThenFoldSet, Summed, Pick
<1>2. g = Summed(f, SUBSET S, g)
  <2> DEFINE P(h) == h = Summed(f, SUBSET S, h)
  <2>1. \E h : P(h)
    BY SumExists
  <2> HIDE DEF P
  <2>2. P(CHOOSE h : P(h))
    BY <2>1
  <2> QED BY <2>2 DEF P
<1> HIDE DEF g
<1> QED BY <1>1, <1>2

LEMMA SumZero ==
  ASSUME NEW S, IsFiniteSet(S), NEW f, \A x \in S : f[x] = 0
  PROVE  SumOver(f, S) = 0
<1>1. PICK g : g[S] = SumOver(f, S) /\ g = Summed(f, SUBSET S, g)
  BY SumSteps
<1> DEFINE Q == {s \in SUBSET S : g[s] = 0}
<1>2. {} \in Q
  BY <1>1 DEF Summed
<1>3. ASSUME NEW s \in SUBSET S, s # {}, s \ {Pick(s)} \in Q PROVE s \in Q
  <2>1. g[s] = f[Pick(s)] + g[s \ {Pick(s)}]
    BY <1>1, <1>3 DEF Summed
  <2>2. f[Pick(s)] = 0 /\ g[s \ {Pick(s)}] = 0
    BY <1>3, PickRemoves
  <2> QED BY <2>1, <2>2
<1>4. S \in Q
  <2> HIDE DEF Q
  <2> QED BY <1>2, <1>3, SubsetInduction
<1> QED BY <1>1, <1>4

\* Changing one summand changes the sum by as much.
LEMMA SumChange ==
  ASSUME NEW S, IsFiniteSet(S), NEW f, NEW h, NEW p,
         \A x \in S : f[x] \in Int /\ h[x] \in Int /\ (x # p => h[x] = f[x])
  PROVE  /\ SumOver(f, S) \in Int
         /\ SumOver(h, S) = SumOver(f, S) + IF p \in S THEN h[p] - f[p] ELSE 0
<1>1. PICK F : F[S] = SumOver(f, S) /\ F = Summed(f, SUBSET S, F)
  BY SumSteps
<1>2. PICK H : H[S] = SumOver(h, S) /\ H = Summed(h, SUBSET S, H)
  BY SumSteps
<1> DEFINE Q == {s \in SUBSET S : /\ F[s] \in Int
                                  /\ H[s] = F[s] + IF p \in s THEN h[p] - f[p] ELSE 0}
<1>3. {} \in Q
  <2>1. F[{}] = 0 /\ H[{}] = 0
    BY <1>1, <1>2 DEF Summed
  <2> QED BY <2>1
<1>4. ASSUME NEW s \in SUBSET S, s # {}, s \ {Pick(s)} \in Q PROVE s \in Q
  <2> DEFINE x == Pick(s)
             t == s \ {x}
  <2>1. x \in s /\ t \in SUBSET S
    BY <1>4, PickRemoves
  <2>2. F[s] = f[x] + F[t] /\ H[s] = h[x] + H[t]
    BY <1>1, <1>2, <1>4 DEF Summed
  <2>3. F[t] \in Int /\ H[t] = F[t] + IF p \in t THEN h[p] - f[p] ELSE 0
    BY <1>4
  <2>4. f[x] \in Int /\ h[x] \in Int /\ (x # p => h[x] = f[x])
    BY <2>1
  <2>5. p \in s => f[p] \in Int /\ h[p] \in Int
    OBVIOUS
  <2>6. (p \in t) = (p \in s /\ p # x)
    OBVIOUS
  <2> HIDE DEF x, t
  <2>7. CASE p = x
    BY <2>1, <2>2, <2>3, <2>4, <2>6, <2>7
  <2>8. CASE p # x
    BY <2>2, <2>3, <2>4, <2>5, <2>6, <2>8
  <2> QED BY <2>7, <2>8
<1>5. S \in Q
  <2> HIDE DEF Q
  <2> QED BY <1>3, <1>4, SubsetInduction
<1> QED BY <1>1, <1>2, <1>5

-------------------------------------------------------------------------------
\* The printed statistics.

\* The programs whose runs counter k counts.
Counting(k) == IF k = "finished" THEN Progs ELSE {p \in Progs : Outcome[p] = k}
Crashing == {p \in Progs : Sig[p] # NoCrash}

\* Workers between claiming a case and running it, local counts not yet flushed, and crashes
\* not yet counted under the mutex.
InCase == [w \in Workers |-> IF pc[w] = "case" THEN 1 ELSE 0]
Unflushed(k) == [w \in Workers |-> local_stats[w][k]]
Uncounted == [w \in Workers |-> IF pc[w] = "lock" /\ Sig[prog[w]] # NoCrash THEN 1 ELSE 0]

\* Every case claimed is being run or has been run once; every run is counted locally or in
\* the shared counters; every crash is counted or its worker is waiting for the mutex.
ClaimsBalance ==
  SumOver(ran, Progs) + SumOver(InCase, Workers) = IF counter < Cases THEN counter ELSE Cases
CountsBalance ==
  \A k \in Counters : stats[k] + SumOver(Unflushed(k), Workers) = SumOver(ran, Counting(k))
CrashesBalance == crashes + SumOver(Uncounted, Workers) = SumOver(ran, Crashing)

\* A worker leaves only when no case is left, and takes no count with it.
LeavesClean ==
  \A w \in Workers : /\ pc[w] \in {"flush", "exit"} => counter >= Cases
                     /\ pc[w] = "exit" => local_stats[w] = Zero

BalanceInv == ClaimsBalance /\ CountsBalance /\ CrashesBalance /\ LeavesClean

LEMMA WorkerSum ==
  ASSUME NEW f \in [Workers -> Nat], NEW h \in [Workers -> Nat], NEW w \in Workers,
         \A x \in Workers : x # w => h[x] = f[x]
  PROVE  /\ SumOver(f, Workers) \in Int
         /\ SumOver(h, Workers) = SumOver(f, Workers) + (h[w] - f[w])
<1>1. \A x \in Workers : f[x] \in Int /\ h[x] \in Int /\ (x # w => h[x] = f[x])
  OBVIOUS
<1> QED BY <1>1, ParallelAssumption, SumChange

LEMMA ProgSum ==
  ASSUME NEW f \in [Progs -> Nat], NEW p \in Progs, NEW T \in SUBSET Progs
  PROVE  /\ SumOver(f, T) \in Int
         /\ SumOver([f EXCEPT ![p] = @ + 1], T) = SumOver(f, T) + IF p \in T THEN 1 ELSE 0
<1> DEFINE h == [f EXCEPT ![p] = @ + 1]
<1>1. \A x \in T : f[x] \in Int /\ h[x] \in Int /\ (x # p => h[x] = f[x])
  OBVIOUS
<1>2. IsFiniteSet(T)
  BY ParallelAssumption, FS_Subset
<1>3. h[p] - f[p] = 1
  OBVIOUS
<1> HIDE DEF h
<1>4. /\ SumOver(f, T) \in Int
      /\ SumOver(h, T) = SumOver(f, T) + IF p \in T THEN h[p] - f[p] ELSE 0
  BY <1>1, <1>2, SumChange
<1> QED BY <1>3, <1>4 DEF h

LEMMA BalanceTypes ==
  ASSUME TypeOK
  PROVE  /\ InCase \in [Workers -> Nat] /\ Uncounted \in [Workers -> Nat]
         /\ \A k \in Counters : Unflushed(k) \in [Workers -> Nat]
         /\ SumOver(InCase, Workers) \in Int /\ SumOver(Uncounted, Workers) \in Int
         /\ \A k \in Counters : SumOver(Unflushed(k), Workers) \in Int
         /\ \A T \in SUBSET Progs : SumOver(ran, T) \in Int
<1>1. /\ InCase \in [Workers -> Nat] /\ Uncounted \in [Workers -> Nat]
      /\ \A k \in Counters : Unflushed(k) \in [Workers -> Nat]
  BY DEF TypeOK, InCase, Uncounted, Unflushed
<1>2. PICK w : w \in Workers
  BY ParallelAssumption
<1>3. SumOver(InCase, Workers) \in Int /\ SumOver(Uncounted, Workers) \in Int
  BY <1>1, <1>2, WorkerSum
<1>4. ASSUME NEW k \in Counters PROVE SumOver(Unflushed(k), Workers) \in Int
  BY <1>1, <1>2, WorkerSum
<1>5. PICK p : p \in Progs
  BY ParallelAssumption
<1>6. ASSUME NEW T \in SUBSET Progs PROVE SumOver(ran, T) \in Int
  BY <1>5, ProgSum DEF TypeOK
<1> QED BY <1>1, <1>3, <1>4, <1>6

\* A worker's flush moves its counts and loses none.
LEMMA FlushBalance ==
  ASSUME TypeOK, TypeOK', CountsBalance, NEW w \in Workers, Flush(w), ran' = ran
  PROVE  CountsBalance'
<1> SUFFICES ASSUME NEW k \in Counters
             PROVE  stats'[k] + SumOver(Unflushed(k)', Workers) = SumOver(ran', Counting(k))
  BY DEF CountsBalance, Counting
<1>1. Unflushed(k) \in [Workers -> Nat] /\ Unflushed(k)' \in [Workers -> Nat]
  BY BalanceTypes DEF TypeOK, Unflushed
<1>2. \A x \in Workers : x # w => Unflushed(k)'[x] = Unflushed(k)[x]
  BY DEF Flush, Unflushed, TypeOK
<1>3. Unflushed(k)'[w] = 0 /\ Unflushed(k)[w] = local_stats[w][k]
  BY DEF Flush, Unflushed, TypeOK, Zero
<1>4. /\ SumOver(Unflushed(k), Workers) \in Int
      /\ SumOver(Unflushed(k)', Workers)
           = SumOver(Unflushed(k), Workers) + (Unflushed(k)'[w] - Unflushed(k)[w])
  BY <1>1, <1>2, WorkerSum
<1>5. stats'[k] = stats[k] + local_stats[w][k] /\ stats[k] \in Nat /\ local_stats[w][k] \in Nat
  BY DEF Flush, TypeOK
<1>6. stats[k] + SumOver(Unflushed(k), Workers) = SumOver(ran, Counting(k))
  BY DEF CountsBalance
<1> QED BY <1>3, <1>4, <1>5, <1>6

\* Counts are untouched by a step that runs and flushes nothing.
LEMMA CountsKept ==
  ASSUME CountsBalance, stats' = stats, local_stats' = local_stats, ran' = ran
  PROVE  CountsBalance'
BY DEF CountsBalance, Unflushed, Counting

LEMMA RunCaseBalance ==
  ASSUME TypeOK, TypeOK', BalanceInv, NEW w \in Workers, NEW p \in Progs, RunCase(w, p)
  PROVE  ClaimsBalance' /\ CountsBalance' /\ CrashesBalance'
<1>1. /\ pc[w] = "case" /\ pc'[w] # "case" /\ prog'[w] = p
      /\ pc'[w] = "lock" \/ Sig[p] = NoCrash
      /\ counter' = counter /\ stats' = stats /\ crashes' = crashes
      /\ ran' = [ran EXCEPT ![p] = @ + 1]
      /\ local_stats'[w] = Counted(local_stats[w], p)
      /\ \A x \in Workers : x # w => /\ pc'[x] = pc[x] /\ prog'[x] = prog[x]
                                     /\ local_stats'[x] = local_stats[x]
  BY DEF RunCase, TypeOK, shared, MustLock
<1>2. /\ ran \in [Progs -> Nat]
      /\ InCase \in [Workers -> Nat] /\ InCase' \in [Workers -> Nat]
      /\ Uncounted \in [Workers -> Nat] /\ Uncounted' \in [Workers -> Nat]
  BY DEF TypeOK, InCase, Uncounted
<1>3. \A T \in SUBSET Progs :
        /\ SumOver(ran, T) \in Int
        /\ SumOver(ran', T) = SumOver(ran, T) + IF p \in T THEN 1 ELSE 0
  <2> TAKE T \in SUBSET Progs
  <2>1. /\ SumOver(ran, T) \in Int
        /\ SumOver([ran EXCEPT ![p] = @ + 1], T) = SumOver(ran, T) + IF p \in T THEN 1 ELSE 0
    BY <1>2, ProgSum
  <2> QED BY <1>1, <2>1
<1>4. ClaimsBalance'
  <2>1. InCase[w] = 1 /\ InCase'[w] = 0 /\ \A x \in Workers : x # w => InCase'[x] = InCase[x]
    BY <1>1 DEF InCase
  <2>2. /\ SumOver(InCase, Workers) \in Int
        /\ SumOver(InCase', Workers) = SumOver(InCase, Workers) + (InCase'[w] - InCase[w])
    BY <1>2, <2>1, WorkerSum
  <2>3. SumOver(ran, Progs) \in Int /\ SumOver(ran', Progs) = SumOver(ran, Progs) + 1
    BY <1>3
  <2> QED BY <1>1, <2>1, <2>2, <2>3 DEF BalanceInv, ClaimsBalance
<1>5. CountsBalance'
  <2> SUFFICES ASSUME NEW k \in Counters
               PROVE  stats'[k] + SumOver(Unflushed(k)', Workers) = SumOver(ran', Counting(k))
    BY DEF CountsBalance, Counting
  <2>1. Unflushed(k) \in [Workers -> Nat] /\ Unflushed(k)' \in [Workers -> Nat]
    BY BalanceTypes DEF TypeOK, Unflushed
  <2>2. /\ \A x \in Workers : x # w => Unflushed(k)'[x] = Unflushed(k)[x]
        /\ Unflushed(k)'[w] = Unflushed(k)[w] + IF k \in {"finished", Outcome[p]} THEN 1 ELSE 0
    BY <1>1, <2>1 DEF Unflushed, Counted
  <2>3. /\ SumOver(Unflushed(k), Workers) \in Int
        /\ SumOver(Unflushed(k)', Workers)
             = SumOver(Unflushed(k), Workers) + (Unflushed(k)'[w] - Unflushed(k)[w])
    BY <2>1, <2>2, WorkerSum
  <2>4. (k \in {"finished", Outcome[p]}) = (p \in Counting(k))
    BY DEF Counting
  <2>5. Counting(k) \in SUBSET Progs
    BY DEF Counting
  <2>6. /\ SumOver(ran, Counting(k)) \in Int
        /\ SumOver(ran', Counting(k)) = SumOver(ran, Counting(k)) + IF p \in Counting(k) THEN 1 ELSE 0
    BY <1>3, <2>5
  <2>7. stats[k] \in Nat /\ stats[k] + SumOver(Unflushed(k), Workers) = SumOver(ran, Counting(k))
    BY DEF TypeOK, BalanceInv, CountsBalance
  <2>8. Unflushed(k)[w] \in Nat
    BY <2>1
  <2> QED BY <1>1, <2>2, <2>3, <2>4, <2>6, <2>7, <2>8
<1>6. CrashesBalance'
  <2>1. /\ \A x \in Workers : x # w => Uncounted'[x] = Uncounted[x]
        /\ Uncounted[w] = 0 /\ Uncounted'[w] = IF p \in Crashing THEN 1 ELSE 0
    BY <1>1 DEF Uncounted, Crashing
  <2>2. /\ SumOver(Uncounted, Workers) \in Int
        /\ SumOver(Uncounted', Workers)
             = SumOver(Uncounted, Workers) + (Uncounted'[w] - Uncounted[w])
    BY <1>2, <2>1, WorkerSum
  <2>3. Crashing \in SUBSET Progs
    BY DEF Crashing
  <2>4. /\ SumOver(ran, Crashing) \in Int
        /\ SumOver(ran', Crashing) = SumOver(ran, Crashing) + IF p \in Crashing THEN 1 ELSE 0
    BY <1>3, <2>3
  <2>5. crashes \in Nat /\ crashes + SumOver(Uncounted, Workers) = SumOver(ran, Crashing)
    BY DEF TypeOK, BalanceInv, CrashesBalance
  <2>6. crashes' + SumOver(Uncounted', Workers) = SumOver(ran', Crashing)
    BY <1>1, <2>1, <2>2, <2>4, <2>5
  <2> QED BY <2>6 DEF CrashesBalance, Crashing
<1> QED BY <1>4, <1>5, <1>6

LEMMA LockBalance ==
  ASSUME TypeOK, TypeOK', BalanceInv, NEW w \in Workers, Lock(w)
  PROVE  ClaimsBalance' /\ CountsBalance' /\ CrashesBalance'
<1>1. /\ pc[w] = "lock" /\ pc'[w] \notin {"lock", "case"}
      /\ Flush(w) /\ ran' = ran /\ prog' = prog /\ counter' = counter
      /\ crashes' = IF Sig[prog[w]] # NoCrash THEN crashes + 1 ELSE crashes
      /\ \A x \in Workers : x # w => pc'[x] = pc[x]
  BY DEF Lock, TypeOK
<1>2. ClaimsBalance'
  <2>1. InCase' = InCase
    BY <1>1 DEF InCase
  <2> QED BY <1>1, <2>1 DEF BalanceInv, ClaimsBalance
<1>3. CountsBalance'
  BY <1>1, FlushBalance DEF BalanceInv
<1>4. CrashesBalance'
  <2>1. /\ \A x \in Workers : x # w => Uncounted'[x] = Uncounted[x]
        /\ Uncounted[w] = (IF Sig[prog[w]] # NoCrash THEN 1 ELSE 0) /\ Uncounted'[w] = 0
    BY <1>1 DEF Uncounted
  <2>2. Uncounted \in [Workers -> Nat] /\ Uncounted' \in [Workers -> Nat]
    BY DEF TypeOK, Uncounted
  <2>3. /\ SumOver(Uncounted, Workers) \in Int
        /\ SumOver(Uncounted', Workers)
             = SumOver(Uncounted, Workers) + (Uncounted'[w] - Uncounted[w])
    BY <2>1, <2>2, WorkerSum
  <2>4. crashes \in Nat /\ crashes + SumOver(Uncounted, Workers) = SumOver(ran, Crashing)
    BY DEF TypeOK, BalanceInv, CrashesBalance
  <2>5. crashes' + SumOver(Uncounted', Workers) = SumOver(ran, Crashing)
    BY <1>1, <2>1, <2>3, <2>4
  <2> QED BY <1>1, <2>5 DEF CrashesBalance, Crashing
<1> QED BY <1>2, <1>3, <1>4

LEMMA ClaimBalance ==
  ASSUME TypeOK, TypeOK', BalanceInv, NEW w \in Workers, Claim(w)
  PROVE  ClaimsBalance' /\ CountsBalance' /\ CrashesBalance'
<1>1. /\ pc[w] = "claim" /\ counter' = counter + 1
      /\ pc'[w] = IF counter < Cases THEN "case" ELSE "flush"
      /\ ran' = ran /\ prog' = prog /\ stats' = stats /\ local_stats' = local_stats
      /\ crashes' = crashes
      /\ \A x \in Workers : x # w => pc'[x] = pc[x]
  BY DEF Claim, TypeOK, shared, local
<1>2. ClaimsBalance'
  <2>1. /\ \A x \in Workers : x # w => InCase'[x] = InCase[x]
        /\ InCase[w] = 0 /\ InCase'[w] = IF counter < Cases THEN 1 ELSE 0
    BY <1>1 DEF InCase
  <2>2. InCase \in [Workers -> Nat] /\ InCase' \in [Workers -> Nat]
    BY DEF TypeOK, InCase
  <2>3. /\ SumOver(InCase, Workers) \in Int
        /\ SumOver(InCase', Workers) = SumOver(InCase, Workers) + (InCase'[w] - InCase[w])
    BY <2>1, <2>2, WorkerSum
  <2>4. counter \in Nat /\ Cases \in Nat /\ SumOver(ran, Progs) \in Int
    BY BalanceTypes, ParallelAssumption DEF TypeOK
  <2> QED BY <1>1, <2>1, <2>3, <2>4 DEF BalanceInv, ClaimsBalance
<1>3. CountsBalance'
  BY <1>1, CountsKept DEF BalanceInv
<1>4. CrashesBalance'
  <2>1. Uncounted' = Uncounted
    BY <1>1 DEF Uncounted
  <2> QED BY <1>1, <2>1 DEF BalanceInv, CrashesBalance, Crashing
<1> QED BY <1>2, <1>3, <1>4

\* A worker that leaves does so after the counter has passed Cases.
LEMMA LeavesCleanInductive ==
  ASSUME TypeOK, TypeOK', LeavesClean, [Next]_vars
  PROVE  LeavesClean'
<1>1. SUFFICES ASSUME NEW w \in Workers
               PROVE  /\ pc'[w] \in {"flush", "exit"} => counter' >= Cases
                      /\ pc'[w] = "exit" => local_stats'[w] = Zero
  BY DEF LeavesClean
<1>2. counter \in Nat /\ counter' \in Nat /\ Cases \in Nat
  BY ParallelAssumption DEF TypeOK
<1>3. counter' >= counter
  BY <1>2 DEF Next, Worker, ReplaySeed, Spawn, Start, Claim, RunCase, Lock, HandleNewCrash,
    FinalFlush, vars
<1>4. /\ pc[w] \in {"flush", "exit"} => counter' >= Cases
      /\ pc[w] = "exit" => local_stats[w] = Zero
  BY <1>2, <1>3 DEF LeavesClean
<1>5. CASE Claim(w)
  BY <1>2, <1>5 DEF Claim, TypeOK
<1>6. CASE FinalFlush(w)
  <2>1. pc[w] = "flush" /\ local_stats'[w] = Zero
    BY <1>6 DEF FinalFlush, Flush, TypeOK
  <2> QED BY <1>4, <2>1
<1>7. ASSUME Start(w) \/ Lock(w) \/ HandleNewCrash(w) \/ \E p \in Progs : RunCase(w, p)
      PROVE  pc'[w] \notin {"flush", "exit"}
  BY <1>7 DEF Start, Lock, HandleNewCrash, RunCase, TypeOK
<1>8. ASSUME pc'[w] = pc[w], local_stats'[w] = local_stats[w]
      PROVE  /\ pc'[w] \in {"flush", "exit"} => counter' >= Cases
             /\ pc'[w] = "exit" => local_stats'[w] = Zero
  BY <1>4, <1>8
<1>9. ASSUME NEW x \in Workers, x # w, Worker(x)
      PROVE  pc'[w] = pc[w] /\ local_stats'[w] = local_stats[w]
  <2>1. CASE Start(x) \/ Claim(x) \/ HandleNewCrash(x)
    BY <1>9, <2>1 DEF Start, Claim, HandleNewCrash, TypeOK, local
  <2>2. ASSUME NEW p \in Progs, RunCase(x, p)
        PROVE  pc'[w] = pc[w] /\ local_stats'[w] = local_stats[w]
    BY <1>9, <2>2 DEF RunCase, TypeOK
  <2>3. CASE Lock(x) \/ FinalFlush(x)
    <3>1. Flush(x)
      BY <2>3 DEF Lock, FinalFlush
    <3>2. local_stats'[w] = local_stats[w]
      BY <1>9, <3>1 DEF Flush, TypeOK
    <3>3. pc'[w] = pc[w]
      BY <1>9, <2>3 DEF Lock, FinalFlush, TypeOK
    <3> QED BY <3>2, <3>3
  <2> QED BY <1>9, <2>1, <2>2, <2>3 DEF Worker
<1>10. ASSUME Spawn \/ (\E p \in Progs : ReplaySeed(p)) \/ UNCHANGED vars
       PROVE  pc'[w] = pc[w] /\ local_stats'[w] = local_stats[w]
  BY <1>10 DEF Spawn, ReplaySeed, vars, local
<1> QED BY <1>5, <1>6, <1>7, <1>8, <1>9, <1>10 DEF Next, Worker

LEMMA BalanceInductive ==
  ASSUME TypeOK, BalanceInv, [Next]_vars
  PROVE  BalanceInv'
<1>0. TypeOK'
  BY TypeOKInductive
<1>1. LeavesClean'
  BY <1>0, LeavesCleanInductive DEF BalanceInv
<1> DEFINE Kept == ClaimsBalance' /\ CountsBalance' /\ CrashesBalance'
<1>2. ASSUME NEW w \in Workers, Claim(w) PROVE Kept
  BY <1>0, <1>2, ClaimBalance
<1>3. ASSUME NEW w \in Workers, NEW p \in Progs, RunCase(w, p) PROVE Kept
  BY <1>0, <1>3, RunCaseBalance
<1>4. ASSUME NEW w \in Workers, Lock(w) PROVE Kept
  BY <1>0, <1>4, LockBalance
<1>5. ASSUME /\ ran' = ran /\ counter' = counter /\ crashes' = crashes /\ prog' = prog
             /\ \A x \in Workers : /\ (pc[x] = "lock") = (pc'[x] = "lock")
                                   /\ (pc[x] = "case") = (pc'[x] = "case")
             /\ CountsBalance'
      PROVE  Kept
  <2>1. InCase' = InCase /\ Uncounted' = Uncounted
    BY <1>5 DEF InCase, Uncounted
  <2> QED BY <1>5, <2>1 DEF BalanceInv, ClaimsBalance, CrashesBalance, Crashing
<1>6. ASSUME NEW w \in Workers, FinalFlush(w) PROVE Kept
  <2>1. CountsBalance'
    BY <1>0, <1>6, FlushBalance DEF FinalFlush, BalanceInv
  <2> QED BY <1>5, <1>6, <2>1 DEF FinalFlush, TypeOK
<1>7. ASSUME NEW w \in Workers, Start(w) \/ HandleNewCrash(w) PROVE Kept
  <2>1. CountsBalance'
    BY <1>7, CountsKept DEF Start, HandleNewCrash, BalanceInv, shared, local
  <2> QED BY <1>5, <1>7, <2>1 DEF Start, HandleNewCrash, TypeOK, shared
<1>8. ASSUME Spawn \/ (\E p \in Progs : ReplaySeed(p)) \/ UNCHANGED vars PROVE Kept
  <2>1. CountsBalance'
    BY <1>8, CountsKept DEF Spawn, ReplaySeed, vars, BalanceInv, shared, local
  <2> QED BY <1>5, <1>8, <2>1 DEF Spawn, ReplaySeed, vars, shared
<1>9. Kept
  <2> HIDE DEF Kept
  <2> QED BY <1>2, <1>3, <1>4, <1>6, <1>7, <1>8 DEF Next, Worker
<1> QED BY <1>1, <1>9 DEF BalanceInv

LEMMA InitBalance == Init => BalanceInv
<1> SUFFICES ASSUME Init PROVE BalanceInv
  OBVIOUS
<1>1. TypeOK
  BY InitTypeOK
<1>2. \A w \in Workers : /\ pc[w] = "start" /\ InCase[w] = 0 /\ Uncounted[w] = 0
                         /\ \A k \in Counters : Unflushed(k)[w] = 0
  BY DEF Init, InCase, Uncounted, Unflushed, Zero
<1>3. \A p \in Progs : ran[p] = 0
  BY DEF Init
<1>4. /\ SumOver(InCase, Workers) = 0 /\ SumOver(Uncounted, Workers) = 0
      /\ \A k \in Counters : SumOver(Unflushed(k), Workers) = 0
  BY <1>2, SumZero, ParallelAssumption
<1>5. ASSUME NEW T \in SUBSET Progs PROVE SumOver(ran, T) = 0
  BY <1>3, SumZero, FS_Subset, ParallelAssumption
<1>6. Counting("finished") = Progs /\ Crashing \in SUBSET Progs
      /\ \A k \in Counters : Counting(k) \in SUBSET Progs
  BY DEF Counting, Crashing
<1>7. counter = 0 /\ crashes = 0 /\ \A k \in Counters : stats[k] = 0
  BY DEF Init, Zero
<1>8. Cases \in Nat
  BY ParallelAssumption
<1>9. ClaimsBalance
  BY <1>4, <1>5, <1>7, <1>8 DEF ClaimsBalance
<1>10. CountsBalance /\ CrashesBalance
  BY <1>4, <1>5, <1>6, <1>7 DEF CountsBalance, CrashesBalance
<1> QED BY <1>2, <1>9, <1>10 DEF BalanceInv, LeavesClean

\* When every worker has left, nothing is in flight.
LEMMA BalanceAtExit == ASSUME TypeOK, BalanceInv PROVE StatsBalance
<1> SUFFICES ASSUME \A w \in Workers : pc[w] = "exit"
             PROVE  /\ stats["finished"] = Cases
                    /\ stats["finished"] = SumOver(ran, Progs)
                    /\ \A k \in {"done", "budget"} :
                         stats[k] = SumOver(ran, {p \in Progs : Outcome[p] = k})
                    /\ crashes = SumOver(ran, Crashing)
  BY DEF StatsBalance, SumOver, Crashing
<1>1. \A w \in Workers : /\ InCase[w] = 0 /\ Uncounted[w] = 0
                         /\ \A k \in Counters : Unflushed(k)[w] = 0
  BY DEF BalanceInv, LeavesClean, InCase, Uncounted, Unflushed, Zero
<1>2. /\ SumOver(InCase, Workers) = 0 /\ SumOver(Uncounted, Workers) = 0
      /\ \A k \in Counters : SumOver(Unflushed(k), Workers) = 0
  BY <1>1, SumZero, ParallelAssumption
<1>3. counter \in Nat /\ counter >= Cases /\ Cases \in Nat
  BY ParallelAssumption DEF BalanceInv, LeavesClean, TypeOK
<1>4. SumOver(ran, Progs) \in Int /\ crashes \in Nat /\ \A k \in Counters : stats[k] \in Nat
  BY BalanceTypes DEF TypeOK
<1>5. SumOver(ran, Progs) = Cases
  BY <1>2, <1>3, <1>4 DEF BalanceInv, ClaimsBalance
<1>6. \A k \in Counters : stats[k] = SumOver(ran, Counting(k))
  BY <1>2, <1>4 DEF BalanceInv, CountsBalance
<1>7. Counting("finished") = Progs
      /\ \A k \in {"done", "budget"} : Counting(k) = {p \in Progs : Outcome[p] = k}
  BY DEF Counting
<1>8. stats["finished"] = SumOver(ran, Progs)
  BY <1>6, <1>7 DEF Counters
<1>9. ASSUME NEW k \in {"done", "budget"}
      PROVE  stats[k] = SumOver(ran, {p \in Progs : Outcome[p] = k})
  BY <1>6, <1>7 DEF Counters
<1>10. crashes = SumOver(ran, Crashing)
  BY <1>2, <1>4 DEF BalanceInv, CrashesBalance
<1> QED BY <1>5, <1>8, <1>9, <1>10

\* When run_parallel's workers have all left, the statistics it prints are exact: the number
\* of cases asked for, each run and counted once, per outcome, with every crash counted, for
\* any number of workers and any interleaving of claims, cases, flushes and exits.
THEOREM ParallelStatsBalance == Spec => []StatsBalance
BY InitTypeOK, InitBalance, TypeOKInductive, BalanceInductive, BalanceAtExit, PTL DEF Spec
===============================================================================
