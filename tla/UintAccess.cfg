CONSTANTS
  Bits = 4
  IntBits = 8
  ByteBits = 2
  PieceBits = {2}
  SizeRange = 32
  ShiftRange = 16
SPECIFICATION AccessSpec
INVARIANT AccessTypeOK
PROPERTY ImplementsBitArray
