SPECIFICATION Spec
CONSTANTS
  Requests = {r1, r2}
  Users = {u1, u2}
  MaxRows = 3
  MaxTokens = 4
SYMMETRY Sym
INVARIANTS
  TypeOK
  LiveIsMailed
  MemberUsedUp
