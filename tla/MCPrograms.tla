------------------------------ MODULE MCPrograms ------------------------------
(***************************************************************************)
(* Programs of up to MAX_CALLS calls over a producer of two descriptors     *)
(* through an out array, a producer of an epoll descriptor and a consumer   *)
(* of both with an optional pointee, and a call with pointees in its pointee. *)
(***************************************************************************)
EXTENDS Lowering, Cmplog

MCDescs == {find_desc("pipe2"), find_desc("epoll_create1"), find_desc("epoll_ctl"),
            find_desc("vmsplice")}

\* An out buffer may have been shrunk to 3 bytes or be as generated; other arguments
\* take one value each, a nullable pointer two.
MCDataVals(ty) ==
  CASE ty.t = "ptr" /\ ty.inner.t = "buf" -> {Bytes(3), Bytes(8)}
    [] ty.t = "ptr" /\ ty.inner.t = "str" -> {Bytes(n) : n \in {2, 20} \cap ty.inner.lens}
    [] ty = Ptr(IOVEC2) -> LET iov == Fields(<<Bytes(3), Imm>>) IN {Fields(<<iov, iov>>)}
    [] ty.t = "ptr" -> {Fields(<<Imm, Imm, Imm>>)} \cup (IF ty.nullable THEN {NULL} ELSE {})
    [] OTHER -> {Imm}

\* The comparison-log mutation on buffers of up to three three-valued bytes.
ASSUME CmplogSolves == /\ SolvesImm(0 .. 8, 2)
                       /\ Solves(UNION {[1 .. n -> 0 .. Base - 1] : n \in 0 .. 3}, 0 .. 8)
===============================================================================
