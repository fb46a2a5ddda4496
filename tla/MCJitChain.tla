------------------------------ MODULE MCJitChain ------------------------------
(***************************************************************************)
(* Two physical pages of four half-words under four virtual ones.  Every    *)
(* guest arms the timer, then runs a mix of the listed instructions; the    *)
(* last half-word is the trap handler's mret.  In the first family the      *)
(* first page ends in a jump into the second or its alias; in the second it *)
(* ends in the first half of an alu instruction, whose other half the upper *)
(* mapping finds on the second page, on the first again, or nowhere.        *)
(***************************************************************************)
EXTENDS JitChain, TLC

H(k, wide, off) == [k |-> k, wide |-> wide, off |-> off]
I(k) == H(k, FALSE, 0)
W(k) == H(k, TRUE, 0)
B(k, off) == H(k, FALSE, off)

MCHalves == {H(k, wide, off) : k \in Kinds, wide \in BOOLEAN, off \in {-5, 0, 1, 2, 3, 9}}
MCWide == {h \in MCHalves : h.wide}
\* The second half of an instruction is where its immediate is.
MCDecodeCompressed == [h \in MCHalves \ MCWide |-> [k |-> h.k, ilen |-> 1, off |-> h.off]]
MCDecode == [lo \in MCWide |-> [hi \in MCHalves |-> [k |-> lo.k, ilen |-> 2, off |-> hi.off]]]

Code(a, b, c, d, e, f, g) ==
  0 :> a @@ 1 :> b @@ 2 :> c @@ 3 :> d @@ 4 :> e @@ 5 :> f @@ 6 :> g @@ 7 :> I("mret")
Pages(upper) == 0 :> 0 @@ 4 :> 4 @@ 8 :> 0 @@ 12 :> upper

Jumping ==
  {[code |-> Code(I("clint"), b, c, B("jal", d), e, f, B("jal", -5)), pages |-> Pages(4)] :
     b \in {I("csr"), I("alu")}, c \in {I("alias"), I("decoy"), I("load")}, d \in {1, 9},
     e \in {W("load"), B("branch", 2), I("mtime")},
     f \in {I("hole"), I("store"), I("tohost")}}
Straddling ==
  {[code |-> Code(I("clint"), b, c, W("alu"), B("alu", 1), I("auipc"), B("jal", 3)), pages |-> Pages(u)] :
     b \in {I("csr"), I("auipc")}, c \in {I("alias"), I("store"), I("mtime")}, u \in {4, 0, Unmapped}}

MCGuests == Jumping \cup Straddling
===============================================================================
