------------------------------- MODULE MCCowRam -------------------------------
(***************************************************************************)
(* Three bytes in pages of two: one full page and a clamped last page.      *)
(* The golden images put a writable, an uninitialised and a write-only or   *)
(* forbidden byte next to each other, so that a two-byte store commits, is  *)
(* refused, and faults between its bytes.                                   *)
(***************************************************************************)
EXTENDS CowRam

RW == {"READ", "WRITE"}
RX == {"READ", "EXEC"}
RAWW == {"WRITE", "RAW"}

GoldenImages == { <<RW, RAWW, {"WRITE"}>>, <<RAWW, {}, RX>> }

MCInit ==
  /\ Init
  /\ gmem = [i \in Offs |-> 0]
  /\ \E g \in GoldenImages : gperms = [i \in Offs |-> g[i + 1]]
MCSpec == MCInit /\ [][Next]_vars
===============================================================================
