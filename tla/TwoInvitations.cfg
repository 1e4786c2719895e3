SPECIFICATION Spec
CONSTANTS
  Requests = {r1, r2}
  Users = {u1, u2}
  MaxRows = 2
  MaxTokens = 3
SYMMETRY Sym
INVARIANT
  OneLiveInvitation
