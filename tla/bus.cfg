\* Processes and their memory through the system bus.
SPECIFICATION BusSpec
CONSTANTS
  MaxProcesses = 2
  NFrames = 6
  NDiskPages = 2
  VPages = {0, 1}
  TlbSize = 1
  WordMod = 16
  RamPages = 2
  RomPages = 1
  PageBytes = 2
  Byte = {0, 1}
  Data = {1}
  Sizes = {2}
  MaxCalls = 6
  Addresses = {1, 2, 6, 10}
INVARIANTS BusTypeOK FramesKept DiskUntouched
PROPERTIES MemorySpec
CHECK_DEADLOCK FALSE
