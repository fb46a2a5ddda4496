-------------------------------- MODULE MCSv32 --------------------------------
(***************************************************************************)
(* Two-entry tables: a root and a leaf table (pages 4 and 5), four pages of *)
(* address space whose TLB slots alias in pairs.                            *)
(***************************************************************************)
EXTENDS Sv32

Pte(v, perms, ad, ppn) == [v |-> v, perms |-> perms, a |-> ad, d |-> ad, ppn |-> ppn]

\* The guest remaps a page to a fresh read-write one, or to one already marked accessed
\* and dirty that only MXR makes readable (misaligned if it is put in the root).
MCPtes == {Pte(TRUE, {"R", "W"}, FALSE, 2), Pte(TRUE, {"X"}, TRUE, 1)}

Mode(p, sum, mxr) == [p |-> p, sum |-> sum, mxr |-> mxr]
MCModes == {Mode("U", FALSE, FALSE), Mode("S", FALSE, TRUE), Mode("S", TRUE, FALSE),
            Mode("M", FALSE, FALSE)}

\* A leaf table behind the root's first entry, a superpage behind its second.
MCBootTables ==
  {[e \in Entries |-> CASE e = <<4, 0>> -> Pte(TRUE, {}, FALSE, 5)
                        [] e = <<4, 1>> -> Pte(TRUE, {"R", "W"}, FALSE, 0)
                        [] e = <<5, 0>> -> Pte(TRUE, {"R"}, TRUE, 1)
                        [] e = <<5, 1>> -> Pte(TRUE, {"R", "W", "U"}, TRUE, 2)]}
===============================================================================
