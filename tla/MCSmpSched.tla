------------------------------ MODULE MCSmpSched ------------------------------
(***************************************************************************)
(* Three harts, three words of two bytes; lr.w, sc.w and amo on the first   *)
(* and the last word.  Bare: paging off.  Paged: all harts share one address*)
(* space that rotates the words, so that no virtual address is its physical *)
(* one.                                                                     *)
(*                                                                          *)
(* BaseStores: every store that touches an atomic word reaches its first    *)
(* byte, one of them misaligned and able to fault half way.                 *)
(***************************************************************************)
EXTENDS SmpSched

Bare == [h \in Harts |-> [va \in Addrs |-> va]]
Paged == [h \in Harts |-> [va \in Addrs |-> (va + WORD) % (WORD * Words)]]

AtomicWords == {0, WORD * (Words - 1)}
BaseStores == {<<0, 2>>, <<0, 1>>, <<3, 2>>}
===============================================================================
