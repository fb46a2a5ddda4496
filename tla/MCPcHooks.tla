------------------------------ MODULE MCPcHooks ------------------------------
(***************************************************************************)
(* Call sites of an allocation, stashed and reported on return, of a free,  *)
(* which is delayed to its return too, and of a page free, reported at its  *)
(* entry; kmalloc jumps to __kmalloc, and the System.map has other names.   *)
(***************************************************************************)
EXTENDS PcHooks

MCSymbols == {"kmalloc_noprof", "__kmalloc_noprof", "kmem_cache_alloc", "kfree",
              "__get_free_pages", "free_pages", "ksize", "schedule"}
MCSites == [s1 |-> "kmalloc_noprof", s2 |-> "kfree", s3 |-> "free_pages"]
MCTailCalls == {<<"kmalloc_noprof", "__kmalloc_noprof">>}
MCRegFiles == {[r \in {10, 11, 12} |-> v] : v \in {1, 2}}
MCSymmetry == Permutations(Tasks)
===============================================================================
