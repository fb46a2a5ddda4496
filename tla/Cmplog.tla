-------------------------------- MODULE Cmplog --------------------------------
(***************************************************************************)
(* The comparison-log mutation (crates/fs-prog/src/cmplog.rs): a value of   *)
(* the program that equals one operand of a logged comparison is replaced   *)
(* by the other operand or a neighbour of it.  A byte has Base values and   *)
(* windows are little-endian.                                               *)
(***************************************************************************)
EXTENDS Integers, Sequences, FiniteSets

CONSTANTS Base,              \* 256
          Widths,            \* {1, 2, 4}
          BUFFER_SCAN_CAP,
          MAX_UNIQUE_PAIRS,
          MAX_CANDIDATES     \* at least 1

\* Base to the power w, for the widths used.
Modulus[w \in Nat] == IF w = 0 THEN 1 ELSE Base * Modulus[w - 1]

\* near, near_masked
near(x, w) == {x, (x + 1) % Modulus[w], (x - 1) % Modulus[w]}

\* The other sides of the logged pairs that match a value v of width w, each with its pair
\* and side: what three substitutes are pushed for.
Others(v, pairs, w) ==
  {o \in {<<p, i, p[i] % Modulus[w]>> : p \in pairs, i \in 1 .. 2} :
     v = o[1][3 - o[2]] % Modulus[w] /\ o[3] # v}

\* The window of width w at offset off (from 0).
Window(buf, off, w) ==
  LET val[k \in 0 .. w] == IF k = 0 THEN 0 ELSE val[k - 1] + buf[off + k] * Modulus[k - 1]
  IN  val[w]

\* sort, dedup and truncate: the smallest pairs.
Before(p, q) == p[1] < q[1] \/ (p[1] = q[1] /\ p[2] < q[2])
Kept(pairs) == {p \in pairs : Cardinality({q \in pairs : Before(q, p)}) < MAX_UNIQUE_PAIRS}

Substitutes(v, pairs, w) == UNION {near(o[3], w) : o \in Others(v, pairs, w)}

\* scan_imm, over a value as wide as a register; found candidates were pushed before.
scan_imm(v, pairs, w, found) ==
  LET pushed(p) == 3 * Cardinality({o \in Others(v, pairs, w) : Before(o[1], p)})
  IN  Substitutes(v, {p \in pairs : found + pushed(p) < MAX_CANDIDATES}, w)

\* The windows scan_bytes looks at, the widest first and from left to right, until
\* MAX_CANDIDATES have been pushed; found were pushed for earlier leaves.
Scanned(buf, pairs, found) ==
  LET scan_len == IF Len(buf) < BUFFER_SCAN_CAP THEN Len(buf) ELSE BUFFER_SCAN_CAP
      sites == {<<off, w>> \in (0 .. scan_len) \X Widths : off + w <= scan_len}
      hits == UNION {{<<s, o>> : o \in Others(Window(buf, s[1], s[2]), pairs, s[2])} : s \in sites}
      sooner(t, s) == t[2] > s[2] \/ (t[2] = s[2] /\ t[1] < s[1])
  IN  {s \in sites : found + 3 * Cardinality({h \in hits : sooner(h[1], s)}) < MAX_CANDIDATES}

\* scan_bytes
scan_bytes(buf, pairs, found) ==
  UNION {{[off |-> s[1], width |-> s[2], val |-> v] :
            v \in Substitutes(Window(buf, s[1], s[2]), pairs, s[2])} : s \in Scanned(buf, pairs, found)}

\* apply
apply(buf, c) ==
  [k \in DOMAIN buf |-> IF k - 1 \in c.off .. c.off + c.width - 1
                        THEN (c.val \div Modulus[k - 1 - c.off]) % Base ELSE buf[k]]

-------------------------------------------------------------------------------
\* A value of register width w compared with magic is replaced by magic or a neighbour,
\* whatever other pair sorts after its own.
SolvesImm(vals, w) ==
  \A v, magic, x, y \in vals :
    v # magic /\ ~Before(<<x, y>>, <<v, magic>>) =>
      near(magic, w) \subseteq scan_imm(v, Kept({<<v, magic>>, <<x, y>>}), w, 0)

\* One substitution makes a scanned window that was compared with magic equal to it, one
\* above it and one below it, and leaves every other byte alone, provided the pair is
\* among the kept ones and the window is reached.
Solves(bufs, vals) ==
  \A buf \in bufs, magic \in vals, w \in Widths : \A off \in 0 .. Len(buf) - w :
    LET here == Window(buf, off, w)
        pairs == Kept({<<here, magic>>})
        cands == {c \in scan_bytes(buf, pairs, 0) : c.off = off /\ c.width = w}
    IN  <<off, w>> \in Scanned(buf, pairs, 0) /\ magic < Modulus[w] /\ here # magic =>
          /\ near(magic, w) \subseteq {Window(apply(buf, c), off, w) : c \in cands}
          /\ \A c \in cands : \A k \in DOMAIN buf :
               apply(buf, c)[k] = buf[k] \/ k - 1 \in off .. off + w - 1
===============================================================================
