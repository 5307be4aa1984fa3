SPECIFICATION Spec

CONSTANTS
  Quotes = {q1}
  Amount <- OneSat
  Wires = {w1, w2}
  NoRequest = NoRequest
  Nodes = {"lnbits", "lnd"}
  Day = 2
  TTL = 1
  Late = 0
  MaxNow = 6

SYMMETRY Interchangeable

INVARIANT TypeOK
INVARIANT DInv
INVARIANT MintsBacked
INVARIANT LedgerExact
PROPERTY PaidKept
PROPERTY CheckedBeforeForgotten
PROPERTY NoDepositLost
