CONSTANTS
  Cells = 18
  Word = 4
  Near = 6
  Values = {99}
SPECIFICATION Spec
INVARIANTS
  BytesDelivered
