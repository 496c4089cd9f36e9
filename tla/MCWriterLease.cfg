CONSTANTS
  a1 = a1
  a2 = a2
  a3 = a3
  p1 = p1
  p2 = p2
  Actor = {a1, a2, a3}
  Proc = {p1, p2}
  ProcOf <- MCProcOf
  None = None
  Inode = {i1, i2, i3}
  NoFile = NoFile
SPECIFICATION Spec
INVARIANTS
  TypeOK
  WriterAlone
  IdleLeavesNothing
PROPERTY ImplementsLease
CHECK_DEADLOCK FALSE
