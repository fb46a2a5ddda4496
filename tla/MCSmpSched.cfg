SPECIFICATION Spec
CONSTANTS
  N = 3
  WORD = 2
  Words = 3
  Translate <- Bare
  Atomics <- AtomicWords
  Stores <- BaseStores
  Quantum = 2
  Deadline = 8
INVARIANTS TypeOK NoSpuriousSc OneHypercall
PROPERTY Termination
CHECK_DEADLOCK FALSE
