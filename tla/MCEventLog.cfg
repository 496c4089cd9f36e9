CONSTANTS
  Proc = {p1, p2}
  Digest = {d1}
  None = None
  MaxAppends = 3
SPECIFICATION Spec
INVARIANTS
  TypeOK
  LogSound
  BlobsSound
PROPERTY ImplementsDurableLog
