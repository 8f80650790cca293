\* Every instruction on four-bit words, against what the mnemonics mean.
SPECIFICATION Spec
CONSTANTS
  WordBits = 4
  RamBytes = 12
  PageBytes = 4
  MaxRun = 1
  Regs <- MCRegs
  SysCalls <- MCSysCalls
  Starts <- MCStarts
INVARIANTS TypeOK ListingNames
PROPERTIES
  ISASpec
  CompareDecides
  RunEnds
CHECK_DEADLOCK FALSE
