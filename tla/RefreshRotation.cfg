SPECIFICATION Spec
CONSTANTS
  Requests = {r1, r2}
  MaxTokens = 3
SYMMETRY Sym
INVARIANTS
  TypeOK
  RotatedIsDead
  SingleUseUnlessRaced
  UnusedStaysValid
  LogoutIsFinal
