------------------------------- MODULE Programs -------------------------------
(***************************************************************************)
(* Typed syscall programs (crates/fs-prog: genr, mutate, batch, cmplog) and *)
(* the crash minimiser of fs-cli.  A program is a sequence of calls whose   *)
(* resource arguments are seeds or results of earlier calls; every edit has *)
(* to renumber those references.                                            *)
(*                                                                          *)
(* A call keeps its resource references (the skeleton) apart from its other *)
(* arguments (the data), the split batch.rs describes.  The random choices  *)
(* of the generator are \E; a bias only changes their odds.                 *)
(***************************************************************************)
EXTENDS Syscalls, Integers

CONSTANTS MAX_CALLS,
          RingMin,       \* smallest forced ring (3 in the code)
          Descs,         \* the descriptions the generator draws from
          DataVals(_),   \* the values of a non-resource argument type
          NULL,          \* the NULL pointer
          WILD           \* a number in a pointer's place, with no pointee behind it

ASSUME ProgramBounds == MAX_CALLS \in Nat \ {0} /\ RingMin \in Nat \ {0}
ASSUME DescsInTable == Descs \subseteq SYSCALLS

VARIABLES prog,      \* the program
          phase,     \* "gen", "edit", "min" or "done"
          keep,      \* the minimiser's kept calls
          tried,     \* those whose removal this pass has tried
          rejected,  \* the candidates that did not reproduce the crash
          tries      \* the replays so far

minVars == <<keep, tried, rejected, tries>>
vars == <<prog, phase, minVars>>

\* ResRef
Seed == [call |-> 0, slot |-> 0]
Produced(i, s) == [call |-> i, slot |-> s]
IsSeed(r) == r.call = 0

\* kind_at, over the slots 0 .. slot_count - 1.
Slots(d) == 0 .. d.produces.count - 1

\* build_pool of the calls before position n, and the part of it an argument of kind
\* want may refer to.
Compatible(p, n, want) ==
  {r \in {Produced(i, s) : i \in 1 .. n - 1, s \in 0 .. 1} :
     /\ r.slot \in Slots(p[r.call].desc)
     /\ kind_compat(want, p[r.call].desc.produces.kind)}

\* pick_res, pick_res_biased: a compatible producer or a seed.
pick_res(p, n, want) == {Seed} \cup Compatible(p, n, want)

DataArgs(d) == DOMAIN d.args \ ResArgs(d)
Data(d) == {f \in [DataArgs(d) -> UNION {DataVals(d.args[j]) : j \in DataArgs(d)}] :
              \A j \in DataArgs(d) : f[j] \in DataVals(d.args[j])}

\* Only a nullable pointer is ever generated as NULL, and none as a stray number.
ASSUME NullsNullable ==
  \A d \in SYSCALLS : \A j \in DataArgs(d) :
    DataVals(d.args[j]) \cap {NULL, WILD} # {} => d.args[j].t = "ptr" /\ d.args[j].nullable

\* generate_args for a call of d placed at position n after p's first n - 1 calls.
Calls(p, n, d) ==
  LET refs == {f \in [ResArgs(d) -> UNION {pick_res(p, n, d.args[j].kind) : j \in ResArgs(d)}] :
                 \A j \in ResArgs(d) : f[j] \in pick_res(p, n, d.args[j].kind)}
  IN  {[desc |-> d, refs |-> r, data |-> x] : r \in refs, x \in Data(d)}

\* p with every resource reference r replaced by F(r).
MapRefs(p, F(_)) ==
  [i \in DOMAIN p |-> [p[i] EXCEPT !.refs = [j \in DOMAIN p[i].refs |-> F(p[i].refs[j])]]]

\* Mutant: a reference to the call at the insertion point itself is not moved.
renumber_after_insert_Strict(p, at) ==
  MapRefs(p, LAMBDA r : IF r.call > at THEN Produced(r.call + 1, r.slot) ELSE r)

renumber_after_insert(p, at) ==
  MapRefs(p, LAMBDA r : IF r.call >= at THEN Produced(r.call + 1, r.slot) ELSE r)

\* Mutant: a reference to the removed call is left dangling.
renumber_after_remove_Dangling(p, at) ==
  MapRefs(p, LAMBDA r : IF r.call > at THEN Produced(r.call - 1, r.slot) ELSE r)

\* A reference to the removed call becomes a seed.
renumber_after_remove(p, at) ==
  MapRefs(p, LAMBDA r : IF r.call = at THEN Seed
                        ELSE IF r.call > at THEN Produced(r.call - 1, r.slot) ELSE r)

Inserted(p, at, c) ==
  LET q == renumber_after_insert(p, at)
  IN  SubSeq(q, 1, at - 1) \o <<c>> \o SubSeq(q, at, Len(q))

-------------------------------------------------------------------------------
Init ==
  /\ prog = << >>
  /\ phase = "gen"
  /\ keep = {} /\ tried = {} /\ rejected = {} /\ tries = 0

\* generate: one call of the loop; a recipe fixes only which descriptions follow.
GenCall(d) ==
  /\ phase = "gen"
  /\ Len(prog) < MAX_CALLS
  /\ \E c \in Calls(prog, Len(prog) + 1, d) : prog' = Append(prog, c)
  /\ UNCHANGED <<phase, minVars>>

\* build_same_kind_ring as build_epoll_ring calls it: n producers, then n links that
\* close the ring, each with a real event.
GenRing(n) ==
  LET producer == find_desc("epoll_create1")
      linker == find_desc("epoll_ctl")
      link(i, x) == [desc |-> linker,
                     refs |-> [j \in {1, 3} |-> IF j = 1 THEN Produced(i, 0)
                                                ELSE Produced((i % n) + 1, 0)],
                     data |-> x]
  IN  /\ phase = "gen" /\ prog = << >>
      /\ 2 * n <= MAX_CALLS
      /\ \E made \in Calls(<< >>, 1, producer), x \in Data(linker) :
           /\ x[4] # NULL
           /\ prog' = [i \in 1 .. 2 * n |-> IF i <= n THEN made ELSE link(i - n, x)]
      /\ phase' = "edit"
      /\ UNCHANGED minVars

EndGen ==
  /\ phase = "gen" /\ prog # << >>
  /\ phase' = "edit"
  /\ UNCHANGED <<prog, minVars>>

\* An edit of the program in the corpus.
Edit(p) == phase = "edit" /\ prog' = p /\ UNCHANGED <<phase, minVars>>

\* Mutant: the preamble makes a program longer than the agent's buffer.
Truncated_Never(p) == p

\* The program with its tail beyond MAX_CALLS cut.
Truncated(p) == SubSeq(p, 1, IF Len(p) < MAX_CALLS THEN Len(p) ELSE MAX_CALLS)

\* prepend_fail_inject: the preamble's write always uses the preamble's open, every
\* other reference moves by two, the tail beyond MAX_CALLS is cut.
PrependFailInject ==
  LET open == find_desc("openat$fail_nth")
      write == find_desc("write$fail_nth")
      moved == MapRefs(prog, LAMBDA r : IF IsSeed(r) THEN r ELSE Produced(r.call + 2, r.slot))
  IN  \E c1 \in Calls(<< >>, 1, open), x \in Data(write) :
        Edit(Truncated(<<c1, [desc |-> write, refs |-> [j \in {1} |-> Produced(1, 0)],
                              data |-> x]>> \o moved))

InsertCall(d) ==
  /\ Len(prog) < MAX_CALLS
  /\ \E at \in 1 .. Len(prog) + 1 : \E c \in Calls(prog, at, d) : Edit(Inserted(prog, at, c))

RemoveCall(at) ==
  /\ Len(prog) > 1
  /\ Edit(renumber_after_remove(SubSeq(prog, 1, at - 1) \o SubSeq(prog, at + 1, Len(prog)), at))

\* mutate_random_arg on a resource argument.
RepickRef(i, j) ==
  \E r \in pick_res(prog, i, prog[i].desc.args[j].kind) : Edit([prog EXCEPT ![i].refs[j] = r])

\* wire_producer, and splice_resource_use, which is its first half: use a producer that
\* precedes the call, or insert one somewhere before it.
WireProducer(i, j) ==
  LET want == prog[i].desc.args[j].kind
      have == Compatible(prog, i, want)
  IN  IF have # {} THEN \E r \in have : Edit([prog EXCEPT ![i].refs[j] = r])
      ELSE /\ Len(prog) < MAX_CALLS
           /\ \E d \in Descs, at \in 1 .. i :
                /\ d.produces.count > 0 /\ kind_compat(want, d.produces.kind)
                /\ \E c \in Calls(prog, at, d) :
                     Edit([Inserted(prog, at, c) EXCEPT ![i + 1].refs[j] = Produced(at, 0)])

\* mutate_random_arg on data, toggle_flag_bit, resize_buffer, mutate_interesting_int,
\* mutate_dict_const: one data argument changes.
MutateData(i, j) ==
  \E v \in DataVals(prog[i].desc.args[j]) : Edit([prog EXCEPT ![i].data[j] = v])

\* mutate_cmplog overwrites any immediate that equals an operand of a logged comparison,
\* the 0 of a NULL pointer included.
MutateCmplog(i, j) ==
  /\ prog[i].desc.args[j].t = "ptr"
  /\ prog[i].data[j] \in {NULL, WILD}
  /\ Edit([prog EXCEPT ![i].data[j] = WILD])

-------------------------------------------------------------------------------
\* subset_prog: the kept calls in order.  References to kept calls are re-indexed,
\* references to dropped ones become seeds.
Rank(S, i) == Cardinality({k \in S : k <= i})
Nth(S, n) == CHOOSE i \in S : Rank(S, i) = n

\* Mutant: references keep their old index.
subset_prog_NoRemap(p, S) ==
  MapRefs([n \in 1 .. Cardinality(S) |-> p[Nth(S, n)]],
          LAMBDA r : IF r.call \in S THEN r ELSE Seed)

subset_prog(p, S) ==
  MapRefs([n \in 1 .. Cardinality(S) |-> p[Nth(S, n)]],
          LAMBDA r : IF r.call \in S THEN Produced(Rank(S, r.call), r.slot) ELSE Seed)

\* minimize_program, minimize_program_kmsan: a pass tries to drop each kept call in
\* turn; a candidate that still crashes becomes the new set and starts a new pass.
BeginMinimise ==
  /\ phase = "edit"
  /\ phase' = "min"
  /\ keep' = DOMAIN prog
  /\ tried' = {} /\ rejected' = {} /\ tries' = 0
  /\ UNCHANGED prog

PassDone == Cardinality(keep) <= 1 \/ tried = keep
Victim == Nth(keep \ tried, 1)
Candidate == keep \ {Victim}

\* Mutant: after a success the pass goes on instead of starting over.
Accept_SamePass ==
  /\ phase = "min" /\ ~PassDone
  /\ keep' = Candidate
  /\ tries' = tries + 1
  /\ UNCHANGED <<prog, phase, tried, rejected>>

Accept ==
  /\ phase = "min" /\ ~PassDone
  /\ keep' = Candidate
  /\ tried' = {}
  /\ tries' = tries + 1
  /\ UNCHANGED <<prog, phase, rejected>>

Reject ==
  /\ phase = "min" /\ ~PassDone
  /\ tried' = tried \cup {Victim}
  /\ rejected' = rejected \cup {Candidate}
  /\ tries' = tries + 1
  /\ UNCHANGED <<prog, phase, keep>>

EndMinimise ==
  /\ phase = "min" /\ PassDone
  /\ phase' = "done"
  /\ UNCHANGED <<prog, minVars>>

\* The corpus entry itself is left as it was.
Resume ==
  /\ phase = "done"
  /\ phase' = "edit"
  /\ keep' = {} /\ tried' = {} /\ rejected' = {} /\ tries' = 0
  /\ UNCHANGED prog

Next ==
  \/ \E d \in Descs : GenCall(d) \/ InsertCall(d)
  \/ \E n \in RingMin .. MAX_CALLS \div 2 : GenRing(n)
  \/ EndGen
  \/ PrependFailInject
  \/ \E i \in DOMAIN prog :
       \/ RemoveCall(i)
       \/ \E j \in ResArgs(prog[i].desc) : RepickRef(i, j) \/ WireProducer(i, j)
       \/ \E j \in DataArgs(prog[i].desc) : MutateData(i, j) \/ MutateCmplog(i, j)
  \/ BeginMinimise \/ Accept \/ Reject \/ EndMinimise \/ Resume

Spec == Init /\ [][Next]_vars

-------------------------------------------------------------------------------
\* The program that is lowered and run in this state.
Running ==
  CASE phase = "min" /\ ~PassDone -> subset_prog(prog, Candidate)
    [] phase = "done" -> subset_prog(prog, keep)
    [] OTHER -> prog

TypeOK ==
  /\ Len(prog) <= MAX_CALLS
  /\ \A i \in DOMAIN prog :
       /\ prog[i].desc \in SYSCALLS
       /\ DOMAIN prog[i].refs = ResArgs(prog[i].desc)
       /\ \A j \in DataArgs(prog[i].desc) :
            LET ty == prog[i].desc.args[j]
            IN  \/ prog[i].data[j] \in DataVals(ty)
                \/ ty.t = "ptr" /\ ty.nullable /\ prog[i].data[j] = WILD
  /\ phase \in {"gen", "edit", "min", "done"}
  /\ keep \subseteq DOMAIN prog /\ tried \subseteq keep
  /\ rejected \subseteq SUBSET DOMAIN prog
  /\ tries \in Nat

\* Whatever sequence of generation, mutation, preamble and minimisation led here, every
\* resource argument is a seed or refers to a strictly earlier call, to a slot that call
\* really has, of a compatible kind (Prog::is_well_formed; "Every operation preserves
\* the threading invariant").
WellFormed ==
  \A i \in DOMAIN Running : \A j \in DOMAIN Running[i].refs :
    LET r == Running[i].refs[j]
    IN  \/ IsSeed(r)
        \/ r \in Compatible(Running, i, Running[i].desc.args[j].kind)

\* The kept calls K of p reappear as the calls I of q, in order, with the same
\* descriptions; each reference outside the arguments X still names the same producer, or
\* is a seed because that producer is gone.
Threads(p, q, K, I, X) ==
  LET e(i) == Nth(I, Rank(K, i))
  IN  \A i \in K :
        /\ q[e(i)].desc = p[i].desc
        /\ \A j \in DOMAIN p[i].refs :
             \/ <<i, j>> \in X
             \/ LET r == p[i].refs[j]
                IN  q[e(i)].refs[j] = IF r.call \in K THEN Produced(e(r.call), r.slot) ELSE Seed

\* Only the argument j of call i was asked to change: it is re-picked, or wired to the
\* producer inserted for it.
Repicks(p, q, I, i, j) ==
  /\ Cardinality(I) = Len(p)
  /\ Threads(p, q, DOMAIN p, I, {<<i, j>>})
  /\ I = DOMAIN q \/ q[Nth(I, Rank(DOMAIN p, i))].refs[j].call \in DOMAIN q \ I

\* Renumbering never rewires: an edit carries all old calls over except a removed one
\* (or, behind the fail_nth preamble, the cut tail), and their references follow them.
\* Well-formedness alone would accept a reference that silently moved to another
\* compatible call (renumber_after_insert, renumber_after_remove, prepend_fail_inject).
NoRewire ==
  [][phase = "edit" /\ phase' = "edit" =>
       \/ \E K \in SUBSET DOMAIN prog, I \in SUBSET DOMAIN prog' :
            /\ Cardinality(K) = Cardinality(I)
            /\ K = DOMAIN prog \/ I = DOMAIN prog'
            /\ Threads(prog, prog', K, I, {})
       \/ \E I \in SUBSET DOMAIN prog', i \in DOMAIN prog :
            \E j \in DOMAIN prog[i].refs : Repicks(prog, prog', I, i, j)
       \/ /\ prog'[1].desc.name = "openat$fail_nth"
          /\ Threads(prog, prog', 1 .. Len(prog') - 2, 3 .. Len(prog'), {})]_vars

\* The minimiser's candidate is the original program restricted to the kept calls:
\* references to kept producers survive with their producer, the others are seeds
\* (doc of subset_prog: "keeping resource threading valid").
SubsetThreads ==
  /\ phase = "min" /\ ~PassDone =>
       Threads(prog, subset_prog(prog, Candidate), Candidate, DOMAIN subset_prog(prog, Candidate), {})
  /\ phase = "done" => Threads(prog, subset_prog(prog, keep), keep, DOMAIN subset_prog(prog, keep), {})

\* The minimised program is one call or has had every single further deletion replayed
\* without the crash (doc of minimize_program: "a minimal call subset").
OneMinimal ==
  phase = "done" => Cardinality(keep) = 1 \/ \A i \in keep : keep \ {i} \in rejected
===============================================================================
