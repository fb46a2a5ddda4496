----------------------------- MODULE ParallelFuzz -----------------------------
(***************************************************************************)
(* The --jobs path of crates/fs-cli: seeds are replayed on one guest, then  *)
(* run_parallel's worker threads claim case numbers from an atomic counter, *)
(* run each case on a guest of their own, and share coverage, corpus and    *)
(* crash signatures behind one mutex, which a worker takes only when its    *)
(* own snapshot says the case may matter, or every SYNC_INTERVAL cases.     *)
(*                                                                          *)
(* The guest is deterministic, so a program is what its run shows: Hits,    *)
(* Sig and Outcome.  Mutation and generation produce any program.  What a   *)
(* worker does under the mutex is one step; what it does to its own guest   *)
(* in a case, nobody else sees, is one step too.                            *)
(***************************************************************************)
EXTENDS Coverage, FiniteSetsExt, SequencesExt

CONSTANTS Workers, Cases, SYNC_INTERVAL,
          Progs,             \* programs
          Hits,              \* program -> its run's edge bitmap
          Sigs, Sig,         \* crash signatures; program -> one of them, or NoCrash
          Outcome,           \* program -> how its run stops
          MaxSeeds           \* bound: seeds in the corpus directory

NoCrash == "NoCrash"

ASSUME ParallelAssumption ==
  /\ IsFiniteSet(Workers) /\ Workers # {}
  /\ Cases \in Nat /\ MaxSeeds \in Nat /\ SYNC_INTERVAL \in Nat \ {0}
  /\ \* a program is at most MAX_CALLS calls of 32-bit arguments
     IsFiniteSet(Progs) /\ Progs # {}
  /\ Hits \in [Progs -> Bitmap]
  /\ NoCrash \notin Sigs /\ Sig \in [Progs -> Sigs \cup {NoCrash}]
  /\ Outcome \in [Progs -> {"done", "budget", "other"}]

Counters == {"done", "budget", "finished"}

VARIABLES
  seeds,             \* seeds replayed so far
  spawned,           \* run_parallel has started its workers
  virgin, corpus, crash_sigs, crashes, stats,    \* Shared
  counter,           \* cases claimed
  pc,                \* worker -> what it does next
  prog,              \* worker -> the program of its case
  locally_new,       \* worker -> its pre-check's answer
  local_virgin, local_corpus, local_stats, cases_since_sync,
  ran,               \* program -> how often a worker ran it (auxiliary)
  reports            \* signature -> how often it was minimised and written (auxiliary)

shared == <<virgin, corpus, crash_sigs, crashes, stats>>
local == <<local_virgin, local_corpus, local_stats, cases_since_sync>>
vars == <<seeds, spawned, shared, counter, pc, prog, locally_new, local, ran, reports>>

Zero == [k \in Counters |-> 0]

Init ==
  /\ seeds = 0 /\ spawned = FALSE
  /\ virgin = NoHits /\ corpus = <<>>
  /\ crash_sigs = {} /\ crashes = 0 /\ stats = Zero
  /\ counter = 0
  /\ pc = [w \in Workers |-> "start"]
  /\ prog = [w \in Workers |-> CHOOSE p \in Progs : TRUE]
  /\ locally_new = [w \in Workers |-> FALSE]
  /\ local_virgin = [w \in Workers |-> NoHits]
  /\ local_corpus = [w \in Workers |-> <<>>]
  /\ local_stats = [w \in Workers |-> Zero]
  /\ cases_since_sync = [w \in Workers |-> 0]
  /\ ran = [p \in Progs |-> 0]
  /\ reports = [s \in Sigs |-> 0]

-------------------------------------------------------------------------------
\* Mutant: every program is kept.
Admitted_Always(c, v, p) == Append(c, p)

\* Coverage admission: a program that advances the map is kept.
Admitted(c, v, p) == IF HasNewBits(v, Hits[p]) THEN Append(c, p) ELSE c

\* replay_seeds: one seed.  A crash is printed only; the signature set is not fed.
ReplaySeed(p) ==
  /\ ~spawned /\ seeds < MaxSeeds
  /\ seeds' = seeds + 1
  /\ corpus' = Admitted(corpus, virgin, p)
  /\ virgin' = Folded(virgin, Hits[p])
  /\ UNCHANGED <<spawned, crash_sigs, crashes, stats, counter, pc, prog, locally_new,
                 local, ran, reports>>

Spawn ==
  /\ ~spawned
  /\ spawned' = TRUE
  /\ UNCHANGED <<seeds, shared, counter, pc, prog, locally_new, local, ran, reports>>

\* A worker's first act: copy the shared map and corpus.
Start(w) ==
  /\ spawned /\ pc[w] = "start"
  /\ local_virgin' = [local_virgin EXCEPT ![w] = virgin]
  /\ local_corpus' = [local_corpus EXCEPT ![w] = corpus]
  /\ pc' = [pc EXCEPT ![w] = "claim"]
  /\ UNCHANGED <<seeds, spawned, shared, counter, prog, locally_new, local_stats,
                 cases_since_sync, ran, reports>>

\* Mutant: a worker that finds no case left asks again.
Claim_Spins(w) ==
  /\ pc[w] = "claim"
  /\ counter' = IF counter < Cases THEN counter + 1 ELSE counter
  /\ pc' = [pc EXCEPT ![w] = IF counter < Cases THEN "case" ELSE "claim"]
  /\ UNCHANGED <<seeds, spawned, shared, prog, locally_new, local, ran, reports>>

\* counter.fetch_add, which goes past Cases once for every worker that leaves.
Claim(w) ==
  /\ pc[w] = "claim"
  /\ counter' = counter + 1
  /\ pc' = [pc EXCEPT ![w] = IF counter < Cases THEN "case" ELSE "flush"]
  /\ UNCHANGED <<seeds, spawned, shared, prog, locally_new, local, ran, reports>>

\* The local counters after a case that ran p.
Counted(s, p) ==
  [k \in Counters |-> IF k \in {"finished", Outcome[p]} THEN s[k] + 1 ELSE s[k]]

\* Mutant: new coverage waits for the next periodic sync.
MustLock_NewWaits(new, p, since) == Sig[p] # NoCrash \/ since >= SYNC_INTERVAL

\* Whether the case just run makes the worker take the mutex.
MustLock(new, p, since) == new \/ Sig[p] # NoCrash \/ since >= SYNC_INTERVAL

\* A case, up to the decision to take the mutex: all of it is the worker's own.
RunCase(w, p) ==
  LET new == HasNewBits(local_virgin[w], Hits[p])
  IN  /\ pc[w] = "case"
      /\ prog' = [prog EXCEPT ![w] = p]
      /\ ran' = [ran EXCEPT ![p] = @ + 1]
      /\ local_stats' = [local_stats EXCEPT ![w] = Counted(@, p)]
      /\ cases_since_sync' = [cases_since_sync EXCEPT ![w] = @ + 1]
      /\ locally_new' = [locally_new EXCEPT ![w] = new]
      /\ local_virgin' = [local_virgin EXCEPT ![w] = Folded(@, Hits[p])]
      /\ pc' = [pc EXCEPT ![w] =
                  IF MustLock(new, p, cases_since_sync[w] + 1) THEN "lock" ELSE "claim"]
      /\ UNCHANGED <<seeds, spawned, shared, counter, local_corpus, reports>>

\* Mutant: the local counters are flushed but kept.
Flush_NoReset(w) ==
  /\ stats' = [k \in Counters |-> stats[k] + local_stats[w][k]]
  /\ UNCHANGED local_stats

\* The local counters go into the shared ones and start again.
Flush(w) ==
  /\ stats' = [k \in Counters |-> stats[k] + local_stats[w][k]]
  /\ local_stats' = [local_stats EXCEPT ![w] = Zero]

\* Mutant: the whole shared corpus is appended.
Extended_Whole(c) == IF Len(corpus') > Len(c) THEN c \o corpus' ELSE c

\* A local corpus is brought up to date by the shared one's entries past its length.
Extended(c) == IF Len(corpus') > Len(c) THEN c \o SubSeq(corpus', Len(c) + 1, Len(corpus')) ELSE c

\* Mutant: signatures are not deduplicated.
NewCrash_Always(p) == Sig[p] # NoCrash

\* crash_sigs.insert said the signature is new.
NewCrash(p) == Sig[p] # NoCrash /\ Sig[p] \notin crash_sigs

\* The critical section.
Lock(w) ==
  LET p == prog[w]
  IN  /\ pc[w] = "lock"
      /\ Flush(w)
      /\ corpus' = IF locally_new[w] THEN Admitted(corpus, virgin, p) ELSE corpus
      /\ virgin' = IF locally_new[w] THEN Folded(virgin, Hits[p]) ELSE virgin
      /\ crashes' = IF Sig[p] # NoCrash THEN crashes + 1 ELSE crashes
      /\ crash_sigs' = IF NewCrash(p) THEN crash_sigs \cup {Sig[p]} ELSE crash_sigs
      /\ local_virgin' = [local_virgin EXCEPT ![w] = virgin']
      /\ local_corpus' = [local_corpus EXCEPT ![w] = Extended(@)]
      /\ cases_since_sync' = [cases_since_sync EXCEPT ![w] = 0]
      /\ pc' = [pc EXCEPT ![w] = IF NewCrash(p) THEN "minimise" ELSE "claim"]
      /\ UNCHANGED <<seeds, spawned, counter, prog, locally_new, ran, reports>>

\* handle_new_crash, outside the mutex: it re-runs the worker's guest, with a
\* bitmap of its own, and writes crashes/crash_<sig>.
HandleNewCrash(w) ==
  /\ pc[w] = "minimise"
  /\ reports' = [reports EXCEPT ![Sig[prog[w]]] = @ + 1]
  /\ pc' = [pc EXCEPT ![w] = "claim"]
  /\ UNCHANGED <<seeds, spawned, shared, counter, prog, locally_new, local, ran>>

FinalFlush(w) ==
  /\ pc[w] = "flush"
  /\ Flush(w)
  /\ pc' = [pc EXCEPT ![w] = "exit"]
  /\ UNCHANGED <<seeds, spawned, virgin, corpus, crash_sigs, crashes, counter, prog,
                 locally_new, local_virgin, local_corpus, cases_since_sync, ran, reports>>

Worker(w) ==
  \/ Start(w)
  \/ Claim(w)
  \/ \E p \in Progs : RunCase(w, p)
  \/ Lock(w)
  \/ HandleNewCrash(w)
  \/ FinalFlush(w)

Next ==
  \/ \E p \in Progs : ReplaySeed(p)
  \/ Spawn
  \/ \E w \in Workers : Worker(w)

\* The main thread replays a finite seed list and spawns; the host runs every
\* thread, and every case has an instruction budget.
Spec == Init /\ [][Next]_vars /\ WF_vars(Spawn) /\ \A w \in Workers : WF_vars(Worker(w))

-------------------------------------------------------------------------------
TypeOK ==
  /\ seeds \in Nat /\ spawned \in BOOLEAN /\ counter \in Nat
  /\ virgin \in VirginMap /\ corpus \in Seq(Progs)
  /\ crash_sigs \subseteq Sigs /\ crashes \in Nat /\ stats \in [Counters -> Nat]
  /\ pc \in [Workers -> {"start", "claim", "case", "lock", "minimise", "flush", "exit"}]
  /\ prog \in [Workers -> Progs]
  /\ locally_new \in [Workers -> BOOLEAN]
  /\ local_virgin \in [Workers -> VirginMap]
  /\ local_corpus \in [Workers -> Seq(Progs)]
  /\ local_stats \in [Workers -> [Counters -> Nat]]
  /\ cases_since_sync \in [Workers -> Nat]
  /\ ran \in [Progs -> Nat] /\ reports \in [Sigs -> Nat]

AtMost(v, u) == \A b \in Buckets : v[b] <= u[b]

\* "a thread-local snapshot only ever lags this shared copy, never leads it" (doc
\* of Shared), except for the very run the worker is about to fold in.
LocalLags ==
  \A w \in Workers :
    AtMost(local_virgin[w],
           IF pc[w] = "lock" /\ locally_new[w] THEN Folded(virgin, Hits[prog[w]]) ELSE virgin)

\* Skipping the mutex loses no coverage: whatever a worker ran is in the shared
\* map, unless the worker is on its way to fold it in.
CoverageKept ==
  \A p \in Progs : ran[p] > 0 =>
    \/ ~HasNewBits(virgin, Hits[p])
    \/ \E w \in Workers : pc[w] = "lock" /\ locally_new[w] /\ prog[w] = p

\* The corpus reproduces the shared map, and every entry was needed when it came:
\* the map is the fold of the corpus, and each program advances the fold of the
\* ones before it.
CorpusCovers ==
  /\ \A i \in DOMAIN corpus : ~HasNewBits(virgin, Hits[corpus[i]])
  /\ \A b \in Buckets : virgin[b] > 0 =>
       \E i \in DOMAIN corpus : ClassifyCount(Hits[corpus[i]][b]) = virgin[b]
  /\ \A i \in DOMAIN corpus : \E b \in Buckets : \A j \in 1 .. i - 1 :
       ClassifyCount(Hits[corpus[j]][b]) < ClassifyCount(Hits[corpus[i]][b])

\* A local corpus is a prefix of the shared one, which is what lets it be brought
\* up to date by length alone.
LocalPrefix == \A w \in Workers : pc[w] # "start" => IsPrefix(local_corpus[w], corpus)

\* Each signature is minimised and written once, by one worker; none is forgotten.
CrashOnce ==
  \A s \in Sigs :
    LET minimising == {w \in Workers : pc[w] = "minimise" /\ Sig[prog[w]] = s}
    IN  /\ reports[s] + Cardinality(minimising) = IF s \in crash_sigs THEN 1 ELSE 0
        /\ \A p \in Progs : ran[p] > 0 /\ Sig[p] = s =>
             s \in crash_sigs \/ \E w \in Workers : pc[w] = "lock" /\ prog[w] = p

\* When every worker has left, the counters printed are those of the cases asked
\* for: each claimed, run and counted once.
StatsBalance ==
  (\A w \in Workers : pc[w] = "exit") =>
    /\ stats["finished"] = Cases
    /\ stats["finished"] = MapThenSumSet(LAMBDA p : ran[p], Progs)
    /\ \A k \in {"done", "budget"} :
         stats[k] = MapThenSumSet(LAMBDA p : ran[p], {p \in Progs : Outcome[p] = k})
    /\ crashes = MapThenSumSet(LAMBDA p : ran[p], {p \in Progs : Sig[p] # NoCrash})

\* run_parallel returns: every worker leaves.
Termination == <>(\A w \in Workers : pc[w] = "exit")
===============================================================================
