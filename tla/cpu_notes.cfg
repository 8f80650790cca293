\* What notes.txt says of the instructions, against what the processor does.
SPECIFICATION Spec
CONSTANTS
  WordBits = 4
  RamBytes = 12
  PageBytes = 4
  MaxRun = 1
  Regs <- MCRegs
  SysCalls <- MCSysCalls
  Starts <- MCNotesStarts
PROPERTY NotesSpec
CHECK_DEADLOCK FALSE
