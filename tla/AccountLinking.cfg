SPECIFICATION Spec
CONSTANTS
  g1 = g1
  g2 = g2
  e1 = e1
  e2 = e2
  p1 = p1
  p2 = p2
  Claims <- Moving
  SignUps <- FirstAddress
  Requests = {r1, r2}
  Emails = {e1, e2}
  Subjects = {g1, g2}
  ProviderOf <- OwnProvider
  Passwords = {p1, p2}
  NoPassword = NoPassword
  Nobody = Nobody
  MaxUsers = 2
SYMMETRY Sym
INVARIANTS
  TypeOK
  AnswerIsLinked
  AutoLinkedOnlyIfRaced
  PasswordlessCanSignIn
PROPERTY
  CredentialsStayUnlessStale
