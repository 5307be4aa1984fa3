SPECIFICATION Spec

CONSTANTS
  Secrets = {s1}
  Who = {w1}
  Owner = Owner
  Settings <- Windows
  Slots = {f1}
  None = None
  BatMaxMint = 2
  MaxBatch = 1
  MaxKeysets = 4
  MaxCount = 2
  MaxNow = 3

PROPERTY WindowChangeRekeys
