SPECIFICATION Spec
CONSTANTS
  NullSlot = 7
  PoolCapacity = 2
  InitialPools = 2
  Texts = {"a"}
  TinyTexts = {"t"}
  NoText = "-"
  Values <- MCValues
  MaxNesting = 1
  MaxIndex = 1
  MaxRefused = 3
  MaxWork = 6
  Inputs <- MCInputs
  ReadFilters <- MCFilters
  Limits = {1, 2}
  Base = 128
  BufferSize = 140
  HeaderSize = 5
  DigitOf <- MCDigits
  PemSize = 4096
  TmpSize = 3072
  ByteBits = 3
  MantissaMax = 1048575
  ExponentMax = 5
INVARIANTS TypeOK SlotsOnce StringsCounted ParsedAsMeant FormatsAgree
