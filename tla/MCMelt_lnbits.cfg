SPECIFICATION Spec

CONSTANTS
  Quotes = {q1, q2}
  Secrets = {s1}
  Outputs = {b1}
  Invoices = {h1}
  NoHash = NoHash
  Wires = {w1, w2}
  NoRequest = NoRequest
  Nodes = {"lnbits"}
  SelfMethod = FALSE
  InOrder = FALSE
  OperatorLooks = TRUE
  MaxAttempts = 2

SYMMETRY Interchangeable

INVARIANT NoDoublePay
INVARIANT CInv
PROPERTY DecidedOnce
PROPERTY KeepsPromise
