SPECIFICATION MCSpec
CONSTANTS
  Size = 3
  Val = {0, 1}
  Widths = {1, 2}
  PAGE_SIZE = 2
INVARIANTS TypeOK DirMatches
PROPERTY ImplementsGuestRam
