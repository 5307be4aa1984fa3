SPECIFICATION Spec

CONSTANTS
  Quotes = {q1, q2}
  Secrets = {s1}
  Outputs = {}
  Invoices = {h1}
  NoHash = NoHash
  Wires = {w1}
  NoRequest = NoRequest
  Nodes = {"lnbits", "lnd"}
  SelfMethod = TRUE
  InOrder = FALSE
  OperatorLooks = FALSE
  MaxAttempts = 2

SYMMETRY Interchangeable

INVARIANT TypeOK
INVARIANT NoLostProof
INVARIANT InflightExact
INVARIANT IInv
