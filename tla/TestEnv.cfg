\* Vm: three frames, two pages, two contents.  Strings: words of two bytes, seven bytes
\* of memory.  Harness: more characters than the UART holds, more words than reads in flight.
SPECIFICATION MCSpec
CONSTANTS
  W = 2  Vals = {0, 1}  Codes = {5}  MsgLen = 1
  Base = 4  WordSize = 2  Size = 7
  StrLen = 3  TxDepth = 2  FfDepth = 2  SigWords = {0, 1, 3}  Junk = {0, 5}
INVARIANTS TypeOK FramesOwnedOnce AssertionsHold NoNestedFault HostSeesAll
  LibraryCorrect OutputComplete
PROPERTIES AccessCompletes ExitReported FlatSpec SimulationEnds
