SPECIFICATION Spec
CONSTANTS
  Requests = {r1, r2}
  MaxTokens = 3
SYMMETRY Sym
INVARIANT
  SingleUse
