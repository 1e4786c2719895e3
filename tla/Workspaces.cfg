SPECIFICATION Spec
CONSTANTS
  Requests = {r1, r2, r3}
  Users = {owner, other}
  Owner = owner
  TaskIds = {t1}
  NoTask = NoTask
  Values = {a, b}
SYMMETRY Sym
INVARIANTS
  TypeOK
  DeletedAdmitsNobody
  RowsHaveWorkspace
  WritersAreMembers
PROPERTY
  NoLostUpdateUnlessStale
