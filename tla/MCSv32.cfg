SPECIFICATION XlateSpec
CONSTANTS
  Fanout = 2
  TLB_SIZE = 2
  Tables = {4, 5}
  Bare = Bare
  Empty = Empty
  NoSnap = NoSnap
  BootTables <- MCBootTables
  MaxEdits = 1
  Ptes <- MCPtes
  Modes <- MCModes
INVARIANTS TlbCoherent FastPaSound GoldenReadonlySound
