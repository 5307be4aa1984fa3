SPECIFICATION Spec
CONSTANTS
  TopBit = 10
  Programs <- MCPrograms
  Reserves <- MCReserves
  Tries = 4
INVARIANT TypeOK
INVARIANT ChecksPass
INVARIANT Books
INVARIANT Solvent
INVARIANT LocksHold
PROPERTY Progress
