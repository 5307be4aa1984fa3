SPECIFICATION Spec

CONSTANTS
  Quotes = {q1}
  Amount <- OneSat
  Wires = {w1, w2}
  NoRequest = NoRequest
  Nodes = {"lnbits"}
  Day = 4
  TTL = 1
  Late = 1
  MaxNow = 9

SYMMETRY Interchangeable

PROPERTY CheckedBeforeForgotten
