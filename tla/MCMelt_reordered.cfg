SPECIFICATION Spec

CONSTANTS
  Quotes = {q1}
  Secrets = {s1}
  Outputs = {}
  Invoices = {h1}
  NoHash = NoHash
  Wires = {w1, w2}
  NoRequest = NoRequest
  Nodes = {"lnd"}
  SelfMethod = FALSE
  InOrder = FALSE
  OperatorLooks = TRUE
  MaxAttempts = 2

SYMMETRY Interchangeable

INVARIANT NoDoublePay
