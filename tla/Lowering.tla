------------------------------- MODULE Lowering -------------------------------
(***************************************************************************)
(* Lowering a program for the guest (crates/fs-prog/src/lower.rs) and the   *)
(* agent's loop that runs the result (boot/agent.c).  Pointees are bump-    *)
(* allocated in a scratch region of fixed size; a resource argument becomes *)
(* a fixup that the agent resolves from an earlier call's return value or   *)
(* from the word the kernel wrote into that call's out array.               *)
(*                                                                          *)
(* A data value keeps only sizes: len for a buffer or string, fields for a  *)
(* struct; a pointer is its pointee, NULL or WILD.                           *)
(***************************************************************************)
EXTENDS Programs, SequencesExt

CONSTANT ScratchCap     \* DEFAULT_SCRATCH_CAP
ASSUME ScratchCapType == ScratchCap \in Nat

\* ArgValue
Imm == [len |-> 0, fields |-> << >>]
Bytes(n) == [len |-> n, fields |-> << >>]
Fields(vals) == [len |-> 0, fields |-> vals]

round_up(x, align) == ((x + align - 1) \div align) * align

RECURSIVE value_size_align(_, _)

\* Field offsets, padded size and alignment.
struct_layout(fields, vals) ==
  LET place(acc, i) ==
        LET sa == value_size_align(fields[i], vals[i])
            off == round_up(acc.end, sa.align)
        IN  [end |-> off + sa.size, align |-> IF sa.align > acc.align THEN sa.align ELSE acc.align,
             offsets |-> Append(acc.offsets, off)]
      all == FoldLeft(place, [end |-> 0, align |-> 1, offsets |-> << >>],
                      [i \in DOMAIN fields |-> i])
  IN  [all EXCEPT !.end = round_up(all.end, all.align)]

value_size_align(ty, v) ==
  CASE ty.t = "int" -> [size |-> ty.bits \div 8, align |-> ty.bits \div 8]
    [] ty.t \in {"buf", "str"} -> [size |-> v.len, align |-> 1]
    [] ty.t = "struct" -> LET l == struct_layout(ty.fields, v.fields) IN [size |-> l.end, align |-> l.align]
    [] OTHER -> [size |-> 4, align |-> 4]

\* ScratchWriter: the cursor and the segments written, each with the size asked for.
NewWriter == [cursor |-> 0, segs |-> << >>]

\* ScratchWriter::write: a start at or past the cap writes nothing, data that overflows
\* is truncated.
Write(w, size, align) ==
  LET off == round_up(w.cursor, align)
      n == IF size < ScratchCap - off THEN size ELSE ScratchCap - off
  IN  IF off >= ScratchCap THEN [w |-> w, off |-> ScratchCap]
      ELSE [w |-> [cursor |-> off + n, segs |-> Append(w.segs, [lo |-> off, hi |-> off + n])],
            off |-> off]

RECURSIVE build_bytes(_, _, _)

\* Mutant: the parent's place is taken before its nested pointees are written.
serialize_into_OuterFirst(w, ty, v) ==
  LET sa == value_size_align(ty, v)
      own == Write(w, sa.size, sa.align)
  IN  [own EXCEPT !.w.segs = build_bytes(w, ty, v).segs \o
                             SubSeq(own.w.segs, Len(w.segs) + 1, Len(own.w.segs))]

\* serialize_into: nested pointees first, then the value itself.
serialize_into(w, ty, v) ==
  LET sa == value_size_align(ty, v)
  IN  Write(build_bytes(w, ty, v), sa.size, sa.align)

\* build_bytes: the writer after the pointees nested in v.
build_bytes(w, ty, v) ==
  CASE ty.t = "ptr" /\ v # NULL -> serialize_into(w, ty.inner, v).w
    [] ty.t = "struct" ->
         FoldLeft(LAMBDA acc, i : build_bytes(acc, ty.fields[i], v.fields[i]), w,
                  [i \in DOMAIN v.fields |-> i])
    [] OTHER -> w

\* lower_arg for argument j of call i.  ptrs holds the scratch offset each pointer
\* argument was given.
lower_arg(l, c, i, j) ==
  IF j \in ResArgs(c.desc) \/ c.desc.args[j].t # "ptr" \/ c.data[j] \in {NULL, WILD} THEN l
  ELSE LET s == serialize_into(l.w, c.desc.args[j].inner, c.data[j])
       IN  [w |-> s.w, ptrs |-> l.ptrs @@ (<<i, j>> :> s.off)]

lower_with_cap(p) ==
  LET call(l, i) == FoldLeft(LAMBDA acc, j : lower_arg(acc, p[i], i, j), l,
                             [j \in DOMAIN p[i].desc.args |-> j])
  IN  FoldLeft(call, [w |-> NewWriter, ptrs |-> << >>], [i \in DOMAIN p |-> i])

\* out_array_off
OutArrayOff(l, p, i) == l.ptrs[<<i, p[i].desc.produces.arg>>]

\* Mutant: slots of an out array are taken to be bytes.
FixupSrc_Bytes(l, p, r) ==
  IF p[r.call].desc.produces.how = "out"
  THEN [kind |-> "mem", at |-> OutArrayOff(l, p, r.call) + r.slot]
  ELSE [kind |-> "reg", at |-> r.call]

\* FixupSrc: where the agent finds the resource r.
FixupSrc(l, p, r) ==
  IF p[r.call].desc.produces.how = "out"
  THEN [kind |-> "mem", at |-> OutArrayOff(l, p, r.call) + 4 * r.slot]
  ELSE [kind |-> "reg", at |-> r.call]

\* Fixup entries in the order lower_arg pushes them, at most MAX_FIXUPS of them on the
\* wire (Syscalls!FixupsFit).
Fixups(l, p) ==
  {[call |-> i, arg |-> j, src |-> FixupSrc(l, p, p[i].refs[j]), want |-> p[i].refs[j]] :
     <<i, j>> \in {x \in (DOMAIN p) \X (1 .. 6) : /\ x[2] \in DOMAIN p[x[1]].refs
                                                  /\ ~IsSeed(p[x[1]].refs[x[2]])}}

-------------------------------------------------------------------------------
\* The guest kernel's part: a call that fills an out array stores one word per slot at
\* the address it was given.  Written(l, p, n) is the scratch after the first n calls, as
\* the last writer of each byte.
Stores(l, p, i) ==
  IF p[i].desc.produces.how # "out" THEN << >>
  ELSE [b \in {OutArrayOff(l, p, i) + k : k \in 0 .. 4 * p[i].desc.produces.count - 1} |->
          <<i, b - OutArrayOff(l, p, i)>>]

Written(l, p, n) == FoldLeft(LAMBDA acc, i : Stores(l, p, i) @@ acc, << >>, [i \in 1 .. n |-> i])

\* The agent's fixup loop: what call f.call receives for the fixup f.
Received(l, p, f) ==
  IF f.src.kind = "reg" THEN Produced(f.src.at, 0)
  ELSE LET mem == Written(l, p, f.call - 1)
           bytes == [k \in 0 .. 3 |-> IF f.src.at + k \in DOMAIN mem THEN mem[f.src.at + k]
                                      ELSE <<0, 0>>]
       IN  IF \E i \in DOMAIN p, s \in 0 .. 1 : \A k \in 0 .. 3 : bytes[k] = <<i, 4 * s + k>>
           THEN LET b == bytes[0] IN Produced(b[1], b[2] \div 4)
           ELSE Seed

\* The program whose out arrays all have room (their buffers may have been resized, or
\* cut at the cap).
Reserved(l, p, i) ==
  LET off == OutArrayOff(l, p, i)
      need == 4 * p[i].desc.produces.count
  IN  /\ off + need <= ScratchCap
      /\ \E n \in DOMAIN l.w.segs : l.w.segs[n].lo = off /\ l.w.segs[n].hi >= off + need

\* A resource argument receives the very resource its reference names, whatever else the
\* program's calls lay out in scratch or write there, provided the out array it comes
\* from still has the room its description asks for (lower_arg's fixups, agent.c).
ThreadDelivered ==
  LET p == Running
      l == lower_with_cap(p)
  IN  \A f \in Fixups(l, p) :
        (f.src.kind = "mem" => Reserved(l, p, f.want.call)) => Received(l, p, f) = f.want

\* The pointees of a program never overlap, stay below the cap, and each pointer argument
\* that was not pushed past the cap points at its own pointee, aligned for its type;
\* pointees are laid out in the order they are allocated (ScratchWriter::write).
ScratchSound ==
  LET p == Running
      l == lower_with_cap(p)
  IN  /\ \A n \in DOMAIN l.w.segs :
           /\ l.w.segs[n].hi <= ScratchCap
           /\ n > 1 => l.w.segs[n - 1].hi <= l.w.segs[n].lo
      /\ \A x \in DOMAIN l.ptrs :
           LET sa == value_size_align(p[x[1]].desc.args[x[2]].inner, p[x[1]].data[x[2]])
           IN  \/ l.ptrs[x] = ScratchCap
               \/ /\ l.ptrs[x] % sa.align = 0
                  /\ \E n \in DOMAIN l.w.segs :
                       /\ l.w.segs[n].lo = l.ptrs[x]
                       /\ l.w.segs[n].hi = l.ptrs[x] + sa.size \/ l.w.segs[n].hi = ScratchCap

-------------------------------------------------------------------------------
\* What the table promises the code above.  A resource nested in a pointee would get no
\* fixup.
RECURSIVE HasRes(_)
HasRes(ty) ==
  CASE ty.t = "res" -> TRUE
    [] ty.t = "ptr" -> HasRes(ty.inner)
    [] ty.t = "struct" -> \E i \in DOMAIN ty.fields : HasRes(ty.fields[i])
    [] OTHER -> FALSE

ASSUME TableSound ==
  /\ \A d, e \in SYSCALLS : d.name = e.name => d = e
  /\ \A d \in SYSCALLS :
       /\ Len(d.args) <= 6
       /\ \A j \in DOMAIN d.args :
            /\ d.args[j].t = "len" => d.args[j].of < j
            /\ d.args[j].t # "res" => ~HasRes(d.args[j])
       /\ d.produces.how = "out" =>
            LET a == d.args[d.produces.arg]
            IN  a.t = "ptr" /\ ~a.nullable /\ a.inner.t = "buf"
                /\ \A n \in a.inner.lens : n >= 4 * d.produces.count
  /\ \A r \in RECIPES : \A i \in DOMAIN r : \E d \in SYSCALLS : d.name = r[i]
===============================================================================
