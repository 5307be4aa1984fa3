SPECIFICATION FairSpec

CONSTANTS
  Quotes = {q1}
  Secrets = {s1}
  Outputs = {}
  Invoices = {h1}
  NoHash = NoHash
  Wires = {w1, w2}
  NoRequest = NoRequest
  Nodes = {"lnd"}
  SelfMethod = FALSE
  InOrder = TRUE
  OperatorLooks = TRUE
  MaxAttempts = 2

PROPERTY KeepsPromise
PROPERTY SettledReconciles
PROPERTY FailedReconciles
