SPECIFICATION Spec
CONSTANTS
  Requests = {r1, r2}
  MaxUsers = 2
  MaxTokens = 3
SYMMETRY Sym
INVARIANTS
  TypeOK
  VerifiedHasProof
  RedeemedIsDead
  NewestLinkWins
  CooldownUnlessRaced
  SessionsAreVerified
PROPERTY
  AnsweredAccountStays
