------------------------------- MODULE PcHooks -------------------------------
(***************************************************************************)
(* Learning allocator calls from the pc (fs-san: PcHooks, the symbol table  *)
(* of linux.rs).  run_case shows every pc to the hooks before it steps the  *)
(* hart: a hooked entry stashes its argument under the return address, and  *)
(* reaching that address pops the stash and reports the call.               *)
(*                                                                          *)
(* The hooks see pcs and registers, never tasks, so the guest is the calls  *)
(* in flight, whichever tasks made them: a kernel with a task for every     *)
(* call returns from them in any order, switching tasks inside a call that  *)
(* sleeps or is preempted.  A trap taken at a hooked pc, after the hooks    *)
(* have seen it and before its instruction runs, parks the task there; it   *)
(* may be resumed much later, and the hooks then see the same pc again.     *)
(***************************************************************************)
EXTENDS Integers, FiniteSets, SequencesExt

CONSTANTS Symbols,      \* the System.map's names
          Sites,        \* return addresses, each with the function called there
          TailCalls,    \* pairs of hooked functions, the first jumping to the second
          RegFiles,     \* argument registers at an entry
          Tasks,        \* tasks that may be parked at a hooked pc
          MaxCalls,     \* calls in flight and parked tasks, when a call is made
          MaxStrays     \* strays in one case

\* Convention and KNOWN_SYMBOLS: how a symbol is hooked, and in which argument register
\* (a0 = 10, a1 = 11, a2 = 12; 0 for none) what it stashes or reports is found.
Alloc(r) == [how |-> "alloc", reg |-> r]
CacheAlloc(r) == [how |-> "cache", reg |-> r]
FreePtr(r) == [how |-> "free", reg |-> r]
Ksize(r) == [how |-> "ksize", reg |-> r]
PageAlloc(r) == [how |-> "page_alloc", reg |-> r]
PageFree(r) == [how |-> "page_free", reg |-> r]

KNOWN_SYMBOLS ==
  [kmalloc |-> Alloc(10), __kmalloc |-> Alloc(10), __kmalloc_noprof |-> Alloc(10),
   kmalloc_noprof |-> Alloc(10), __kmalloc_node |-> Alloc(10), kmalloc_trace |-> Alloc(12),
   kmem_cache_alloc |-> CacheAlloc(10), kmem_cache_alloc_noprof |-> CacheAlloc(10),
   kfree |-> FreePtr(10), kmem_cache_free |-> FreePtr(11), kfree_sensitive |-> FreePtr(10),
   ksize |-> Ksize(10), __ksize |-> Ksize(10),
   __get_free_pages |-> PageAlloc(11), get_zeroed_page |-> PageAlloc(0),
   __get_free_page |-> PageAlloc(0), get_free_page |-> PageAlloc(0),
   free_pages |-> PageFree(10), free_page |-> PageFree(10)]

\* register_kernel_allocator_hooks: the known names the System.map has.
Hooked == Symbols \cap DOMAIN KNOWN_SYMBOLS
GFP_FLAGS_REG == 11

ASSUME HooksAssumption ==
  /\ \A s \in DOMAIN Sites : Sites[s] \in Symbols
  /\ TailCalls \subseteq Hooked \X Hooked
  /\ IsFiniteSet(Tasks) /\ MaxCalls \in Nat /\ MaxStrays \in Nat

VARIABLES mode,      \* --sanitize or --kmsan
          pending,   \* query family -> return address -> stash
          live,      \* return address -> calls in flight past their entry, in entry order
          parked,    \* task -> the hooked pc it was interrupted at, Plain for none
          pc,        \* where the guest is
          strays,    \* ghost: return address -> observations no call and no return made
          crossed,   \* ghost: return addresses whose calls and stashes are out of step
          spurious   \* ghost: return address -> events nothing new in the guest caused

ghosts == <<strays, crossed>>
vars == <<mode, pending, live, parked, pc, strays, crossed, spurious>>

\* The stashes each mode's queries keep.
Families == [sanitize |-> {"alloc", "free", "cache", "page_alloc"}, kmsan |-> {"alloc", "cache"}]
AllFamilies == UNION {Families[m] : m \in DOMAIN Families}

\* The value a hook reads from the register file.
Read(regs, r) == IF r = 0 THEN 0 ELSE regs[r]
Stash(f, regs) ==
  IF mode = "kmsan" THEN <<Read(regs, KNOWN_SYMBOLS[f].reg), regs[GFP_FLAGS_REG]>>
  ELSE <<Read(regs, KNOWN_SYMBOLS[f].reg)>>

How(f) == IF f \in Hooked THEN KNOWN_SYMBOLS[f].how ELSE "none"
Stashes(f) == How(f) \in Families[mode]
\* free_pages and ksize are reported at the entry itself.
AtEntry(f) == mode = "sanitize" /\ How(f) \in {"page_free", "ksize"}

\* Plain code, a function's entry (first: not shown to the hooks yet), the return of a call,
\* and a return address seen again after a trap or reached by a branch.
Plain == [at |-> "plain"]
Entry(f, s, regs) == [at |-> "entry", fn |-> f, site |-> s, regs |-> regs, first |-> TRUE]
Return(call, s) == [at |-> "return", fn |-> call.fn, site |-> s, regs |-> call.regs]
Again(s) == [at |-> "again", site |-> s]

Event(h, payload) == [how |-> h, payload |-> payload]

\* Mutant: the oldest stash of a return address is popped.
Popped_Fifo(q) == <<Head(q), Tail(q)>>

\* The stash a return pops, and what it leaves.
Popped(q) == <<q[Len(q)], SubSeq(q, 1, Len(q) - 1)>>

\* What the queries report at a pc: on_pc asks for allocations before frees and reports at
\* most one of them; on_cache_alloc_pc and on_page_pc are asked as well.
Ready(s) == {h \in Families[mode] : pending[h][s] # << >>}
Answering(s) ==
  IF mode = "sanitize" THEN IF "alloc" \in Ready(s) THEN Ready(s) \ {"free"} ELSE Ready(s)
  ELSE IF "alloc" \in Ready(s) THEN {"alloc"} ELSE Ready(s)

Events ==
  IF pc.at = "entry" THEN IF AtEntry(pc.fn) THEN {Event(How(pc.fn), Stash(pc.fn, pc.regs))} ELSE {}
  ELSE {Event(h, Popped(pending[h][pc.site])[1]) : h \in Answering(pc.site)}

\* on_pc, on_cache_alloc_pc, on_page_pc, ksize_hit or on_kmsan_alloc_pc at the current pc, an
\* entry or a return address.  At any other pc they find nothing.
Observe ==
  /\ pending' =
       IF pc.at = "entry"
         THEN IF Stashes(pc.fn)
                THEN [pending EXCEPT ![How(pc.fn)][pc.site] = Append(@, Stash(pc.fn, pc.regs))]
                ELSE pending
         ELSE [h \in AllFamilies |->
                 IF h \in Answering(pc.site)
                   THEN [pending[h] EXCEPT ![pc.site] = Popped(@)[2]] ELSE pending[h]]
  /\ spurious' =
       IF pc.at = "again" \/ (pc.at = "entry" /\ ~pc.first)
         THEN [spurious EXCEPT ![pc.site] = @ + Cardinality(Events)] ELSE spurious

Quiet == pc = Plain /\ UNCHANGED <<pending, spurious>>

-------------------------------------------------------------------------------
Strays == FoldFunction(+, 0, strays)

\* A stray leaves a stash no call will pop, or pops one some call still needs.
Stray(s, others) ==
  /\ Strays < MaxStrays
  /\ strays' = [strays EXCEPT ![s] = @ + 1]
  /\ crossed' = IF others THEN crossed \cup {s} ELSE crossed

\* The guest comes to a return address that no call returns to now.
Reach(s) ==
  /\ pc' = Again(s)
  /\ IF live[s] # << >> THEN Stray(s, TRUE) ELSE UNCHANGED ghosts

\* A trap is taken instead of the instruction the hooks have just seen.
Interrupt(t) ==
  /\ pc # Plain /\ parked[t] = Plain
  /\ Observe
  /\ parked' = [parked EXCEPT ![t] = IF pc.at = "entry" THEN [pc EXCEPT !.first = FALSE] ELSE Again(pc.site)]
  /\ IF pc.at = "entry" THEN Stray(pc.site, live[pc.site] # << >>) ELSE UNCHANGED ghosts
  /\ pc' = Plain
  /\ UNCHANGED <<mode, live>>

\* A parked task goes on where it was.
Resume(t) ==
  /\ Quiet /\ parked[t] # Plain
  /\ parked' = [parked EXCEPT ![t] = Plain]
  /\ IF parked[t].at = "again" THEN Reach(parked[t].site) ELSE pc' = parked[t] /\ UNCHANGED ghosts
  /\ UNCHANGED <<mode, live>>

\* The address after a call is a branch's target too.
Branch(s) ==
  /\ Quiet
  /\ Reach(s)
  /\ UNCHANGED <<mode, live, parked>>

InFlight ==
  Cardinality(UNION {{s} \X DOMAIN live[s] : s \in DOMAIN Sites}) + Cardinality({t \in Tasks : parked[t] # Plain})

CallFn(s, regs) ==
  /\ Quiet /\ InFlight < MaxCalls
  /\ pc' = Entry(Sites[s], s, regs)
  /\ UNCHANGED <<mode, live, parked, ghosts>>

\* A hooked function jumps to another one, the return address unchanged: the stash of the
\* first one is left behind.
TailCall(s, i, g, regs) ==
  /\ Quiet /\ <<live[s][i].fn, g>> \in TailCalls
  /\ live' = [live EXCEPT ![s] = RemoveAt(@, i)]
  /\ pc' = Entry(g, s, regs)
  /\ Stray(s, Len(live[s]) > 1)
  /\ UNCHANGED <<mode, parked>>

\* Any call in flight returns; the calls from one site may do so in any order.
ReturnFn(s, i) ==
  /\ Quiet
  /\ live' = [live EXCEPT ![s] = RemoveAt(@, i)]
  /\ pc' = Return(live[s][i], s)
  /\ crossed' = IF i = Len(live[s]) THEN crossed ELSE crossed \cup {s}
  /\ UNCHANGED <<mode, parked, strays>>

\* The instruction at an entry runs, and with it the call; a call with no other one in flight
\* from its site starts from a clean slate.
Enter ==
  /\ pc.at = "entry"
  /\ Observe
  /\ live' = [live EXCEPT ![pc.site] = Append(@, [fn |-> pc.fn, regs |-> pc.regs])]
  /\ crossed' = IF live[pc.site] = << >> THEN crossed \ {pc.site} ELSE crossed
  /\ pc' = Plain
  /\ UNCHANGED <<mode, parked, strays>>

\* The instruction at a return address runs.
Proceed ==
  /\ pc.at \in {"return", "again"}
  /\ Observe
  /\ pc' = Plain
  /\ UNCHANGED <<mode, live, parked, ghosts>>

\* Mutant: the delayed frees are left in place.
clear_pending_KeepsFrees(p) == [h \in AllFamilies |-> IF h = "free" THEN p[h] ELSE [s \in DOMAIN Sites |-> << >>]]

clear_pending(p) == [h \in AllFamilies |-> [s \in DOMAIN Sites |-> << >>]]

\* Nothing is in flight and no ghost is set.
Fresh(lv, pk, p, st, cr, sp) ==
  /\ lv = [s \in DOMAIN Sites |-> << >>]
  /\ pk = [t \in Tasks |-> Plain]
  /\ p = Plain
  /\ st = [s \in DOMAIN Sites |-> 0] /\ cr = {} /\ sp = [s \in DOMAIN Sites |-> 0]

\* The case ends wherever the guest is; the next one starts from the snapshot.
NewCase ==
  /\ pending' = clear_pending(pending)
  /\ Fresh(live', parked', pc', strays', crossed', spurious')
  /\ UNCHANGED mode

Init ==
  /\ mode \in DOMAIN Families
  /\ pending = [h \in AllFamilies |-> [s \in DOMAIN Sites |-> << >>]]
  /\ Fresh(live, parked, pc, strays, crossed, spurious)

Next ==
  \/ \E t \in Tasks : Interrupt(t) \/ Resume(t)
  \/ \E s \in DOMAIN Sites :
       \/ Branch(s)
       \/ \E regs \in RegFiles : CallFn(s, regs)
       \/ \E i \in DOMAIN live[s], g \in Hooked, regs \in RegFiles : TailCall(s, i, g, regs)
       \/ \E i \in DOMAIN live[s] : ReturnFn(s, i)
  \/ Enter \/ Proceed
  \/ NewCase

Spec == Init /\ [][Next]_vars

-------------------------------------------------------------------------------
\* What the hooks report when a call has just returned is that call, with the arguments it was
\* entered with, and nothing else.
Paired ==
  pc.at = "return" =>
    Events = IF Stashes(pc.fn) THEN {Event(How(pc.fn), Stash(pc.fn, pc.regs))} ELSE {}

\* Pairing by return address survives any tasks calling through the same site, every stash
\* left behind at it and every earlier mispairing, as long as the calls in flight from the
\* site since it was last idle return last in, first out and no stray met another of them.
PairedReturn == pc.at = "return" => pc.site \in crossed \/ Paired

\* An event is reported for nothing only after a stray at the same site earlier in the same
\* case, at most once for each, in whatever order the calls return.  In particular nothing an
\* earlier case left in flight is ever reported.
SpuriousBounded == \A s \in DOMAIN Sites : spurious[s] <= strays[s]
===============================================================================
