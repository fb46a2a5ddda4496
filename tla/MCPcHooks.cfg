SPECIFICATION Spec
CONSTANTS
  Symbols <- MCSymbols
  Sites <- MCSites
  TailCalls <- MCTailCalls
  RegFiles <- MCRegFiles
  Tasks = {t1, t2}
  MaxCalls = 2
  MaxStrays = 2
SYMMETRY MCSymmetry
INVARIANTS PairedReturn SpuriousBounded
