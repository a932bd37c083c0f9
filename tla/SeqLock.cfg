CONSTANTS
  NumWords = 2
  Readers = {r1}
  Reads = 2
  MaxWrites = 3
SPECIFICATION WriterSpec
INVARIANTS NoTornRead IInv
PROPERTIES RegisterSpec ReadsReturn
