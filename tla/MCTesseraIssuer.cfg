SPECIFICATION Spec

CONSTANTS
  Secrets = {s1, s2}
  Who = {w1}
  Owner = Owner
  Settings <- Various
  Slots = {f1}
  None = None
  BatMaxMint = 2
  MaxBatch = 1
  MaxKeysets = 4
  MaxCount = 2
  MaxNow = 3

SYMMETRY Interchangeable

INVARIANT TypeOK
INVARIANT UsedOnce
INVARIANT SpentKept
INVARIANT Supply
INVARIANT ForwardsCounted
INVARIANT QuotaKept
INVARIANT IssuerInv
