SPECIFICATION FairSpec
CONSTANTS
  Requests = {r1, r2}
  k1 = k1
  k2 = k2
  Kids = {k1, k2}
  NoKid = NoKid
  MaxVersion = 3
  Docs <- Rotation
  Issued <- SomeTokens
INVARIANTS
  TypeOK
  AdmittedByAccessToken
PROPERTIES
  KnownKeyFound
  RecoversFromRotation
