SPECIFICATION FairLogSpec
CONSTANTS
  Producers = {p1}
  MaxPut = 3
  MaxLen = 2
  MaxStart = 2
  Builds = {"posix", "win32"}
  Spurious = TRUE
  Exit = exit
  MaxSize = 1
  MaxFile = 2
  MaxDay = 2
  MaxFail = 1
  Big = {1}
  None = none
INVARIANTS LoggerTypeOK FifoExact Retained FilesSound
PROPERTIES StopCompletes AcceptedIsLogged
