SPECIFICATION JitSpec
CONSTANTS
  VaSize = 16
  PaSize = 8
  PageSize = 4
  Halves <- MCHalves
  Wide <- MCWide
  decode_compressed <- MCDecodeCompressed
  decode <- MCDecode
  Guests <- MCGuests
  Vector = 7
  Compares = {3, 6, 20}
  Deadline = 11
  MAX_CHAIN_LEN = 3
  MAX_RUN_LEN = 3
  Slots = 4
  BSlots = 4
  ArenaCap = 7
INVARIANT EdgeParityButKnown
PROPERTY RefinesButKnown
CHECK_DEADLOCK FALSE
