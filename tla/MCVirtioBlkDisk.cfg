SPECIFICATION FairSpec
CONSTANTS
  block_size = 2
  block_count = 3
  Byte <- MCByte
  MaxBuf = 4
INVARIANTS WriteIsPrefix ReadSeesDisk ShortOnlyAtEnd
PROPERTY CallReturns
