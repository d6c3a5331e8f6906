SPECIFICATION Spec
CONSTANTS
  SECTOR_SIZE = 1
  MAX_IO_BYTES = 5
  BLOCK_COUNT = 1
  usize_max = 15
  Byte = {b0, b1}
  NoCap = NoCap
  MaxServers = 2
  Clients = {c1}
  ERRNO = 30
  MaxTries = 1
  MaxCalls = 3
  MaxAsks = 1
SYMMETRY ByteSymmetry
 
PROPERTIES ExecutedInOrder SectorsAreRegisters
