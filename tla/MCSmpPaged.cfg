SPECIFICATION Spec
CONSTANTS
  N = 3
  WORD = 2
  Words = 3
  Translate <- Paged
  Atomics <- AtomicWords
  Stores <- BaseStores
  Quantum = 2
  Deadline = 7
INVARIANT NoSpuriousSc
CHECK_DEADLOCK FALSE
