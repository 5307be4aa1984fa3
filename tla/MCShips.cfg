SPECIFICATION Spec

CONSTANTS
  Holders = {h1, h2}
  Issuer = Issuer
  Secrets = {s1, s2}
  Rids = {r1, r2}
  None = None
  Careful = TRUE
  BatMaxMint = 1
  MaxOffers = 1
  MaxWindow = 1
  MaxMsgs = 3

SYMMETRY Interchangeable
CHECK_DEADLOCK FALSE

INVARIANT ShipsInv
INVARIANT OneHolder
INVARIANT FreshHeld
INVARIANT NothingLost
INVARIANT GiveSettled
INVARIANT PendOpen
