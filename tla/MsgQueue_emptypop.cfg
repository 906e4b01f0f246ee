SPECIFICATION Spec
CONSTANTS
  Producers = {p1, p2}
  MaxPut = 2
  MaxLen = 2
  MaxStart = 1
  Builds = {"posix"}
  Spurious = FALSE
  Exit = exit
INVARIANT NoEmptyPop
