SPECIFICATION Spec
CONSTANTS
  r1 = r1
  r2 = r2
  r3 = r3
  r4 = r4
  u1 = u1
  u2 = u2
  t1 = t1
  t2 = t2
  t3 = t3
  e1 = e1
  e2 = e2
  NULL = NULL
  Requests = {r1, r2, r3, r4}
  UserIds = {u1, u2}
  TokenIds = {t1, t2, t3}
  Emails = {e1, e2}
SYMMETRY Symmetry
INVARIANTS
  TypeOK
  EmailsUnique
  ChangesComeWithTokens
  UsedTokensTookEffect
  AnswersHold
PROPERTIES
  RowsOnlyGrow
