CONSTANTS
  Proc = {p1, p2}
  Digest = {d1}
  None = None
  MaxAppends = 3
SPECIFICATION Spec
INVARIANT StoreOpens
