SPECIFICATION Spec
CONSTANTS
  Addr = {a1, a2}
  Null = null
  MaxMsg = 2
  MaxIn = 1
  MaxOut = 1
  MaxOrphan = 1
INVARIANT SendSafe
