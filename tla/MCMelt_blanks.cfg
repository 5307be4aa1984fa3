SPECIFICATION Spec

CONSTANTS
  Quotes = {q1}
  Secrets = {s1, s2}
  Outputs = {b1}
  Invoices = {h1}
  NoHash = NoHash
  Wires = {w1}
  NoRequest = NoRequest
  Nodes = {"lnbits"}
  SelfMethod = FALSE
  InOrder = FALSE
  OperatorLooks = TRUE
  MaxAttempts = 1

SYMMETRY Interchangeable

INVARIANT SignedOnce
