---------------------------- MODULE MCVecSystem ----------------------------
(***************************************************************************)
(* Three lanes over every program that loads its injected input, runs      *)
(* three free instructions, loads again and is done.  The trap handler is  *)
(* an ALU operation and the DONE hypercall.  A store to the text page can  *)
(* turn the storing lane's next instruction into an ALU operation.         *)
(***************************************************************************)
EXTENDS VecSystem, Sequences

I(k) == [k |-> k]
Menu == {I("alu"), I("li"), I("load"), I("sum"), I("satp"), I("sret"), I("tohost"),
         [k |-> "store", page |-> "text"], [k |-> "store", page |-> "table0"],
         [k |-> "store", page |-> "user"], [k |-> "branch", to |-> 4]}
MCTexts ==
    {[v \in Vals |-> <<I("load"), s[1], IF v = 0 THEN s[2] ELSE I("alu"), s[3], I("load"), I("done")>>
                     \o <<I("alu"), I("done")>>] : s \in [1 .. 3 -> Menu]}
MCGolden == [p \in PageNames |-> IF p \in {"table1", "user"} THEN 1 ELSE 0]
-----------------------------------------------------------------------------
(***************************************************************************)
(* The user-mode executor, on two lanes with two words each: every         *)
(* instruction, at either halfword of a text word that the lanes may have  *)
(* changed or lost, with equal, different, misaligned and unmapped         *)
(* addresses, every mix of data permissions and every mask.                *)
(***************************************************************************)
Op(k, imm) == [k |-> k, imm |-> imm]
InstTable == <<Op("lui", 7), Op("auipc", 3), Op("op", 0), Op("mul", 0), Op("branch", 2), Op("jal", 2),
            Op("jalr", 0), Op("ecall", 0), Op("lh", 0), Op("lhu", 0), Op("lw", 0), Op("sh", 0),
            Op("sw", 0)>>
MCDecode(h) == InstTable[(h % 13) + 1]
MCIsCompressed(h) == h % 13 < 8

V == INSTANCE VecCpu WITH N <- 2, Base <- 2, NumWords <- 2, Decode <- MCDecode,
                          IsCompressed <- MCIsCompressed

Pair(x, y) == [l \in 0 .. 1 |-> IF l = 0 THEN x ELSE y]
RWX == {"R", "W", "X"}
DataPerms == {Pair({}, {}), Pair({"W", "RAW"}, {"W", "RAW"}), Pair(RWX, RWX), Pair(RWX, {"R"})}
Line(x0, x1, y0, y1) == [i \in 0 .. 3 |-> <<x0, x1, y0, y1>>[i + 1]]
Batches ==
    {[pc |-> pc, a |-> a, d |-> Pair(3, 150), retired |-> Pair(0, 0), exit |-> Pair("none", "none"),
      active |-> act,
      mem |-> [content |-> Line(Pair(h, h), Pair(k, h), Pair(9, 4), Pair(12, 1)),
               perms |-> Line(Pair(RWX, RWX), Pair(RWX, x), p, q)]] :
        pc \in {Pair(2, 2), Pair(3, 3), Pair(2, 3)},
        a \in {Pair(4, 4), Pair(5, 5), Pair(4, 5), Pair(3, 4), Pair(1, 4), Pair(6, 3)},
        act \in SUBSET {0, 1}, h \in 0 .. 12, k \in {2, 7}, x \in {RWX, {"R"}},
        p \in DataPerms, q \in DataPerms}

\* The vector step is the lanes' own steps (VecCpu::step against step_lane).
ASSUME VecStepMatches == \A b \in Batches : V!BatchMatches(b)
=============================================================================
