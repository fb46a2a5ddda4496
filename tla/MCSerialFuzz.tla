----------------------------- MODULE MCSerialFuzz -----------------------------
(***************************************************************************)
(* Four bytes in two dirty blocks sharing one bitmap word; an object at    *)
(* offset 0 whose bucket has slack and one near the end of RAM.             *)
(***************************************************************************)
EXTENDS SerialFuzz

MCOptions ==
  {[sanitize |-> TRUE, kmsan |-> FALSE, ubsan |-> FALSE, cmplog |-> TRUE, jit |-> "off"],
   [sanitize |-> FALSE, kmsan |-> TRUE, ubsan |-> TRUE, cmplog |-> TRUE, jit |-> "off"],
   [sanitize |-> FALSE, kmsan |-> FALSE, ubsan |-> FALSE, cmplog |-> TRUE, jit |-> "jit_chain"]}

MCInit ==
  /\ mem = [i \in Offs |-> 0]
  /\ perms = [i \in Offs |-> IF i = Size - 1 THEN {"WRITE"} ELSE {"READ", "WRITE"}]
  /\ opts \in MCOptions
  /\ Init
MCSpec == MCInit /\ [][Next]_vars
===============================================================================
