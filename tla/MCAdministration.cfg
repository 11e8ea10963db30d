CONSTANTS
  j2 = j2
  q2 = q2
  Jobs = {j1, j2}
  Editing = {q1, q2}
  Plans <- MCPlans
  LastHour = 2
  t1 = t1
  c2 = c2
  Users = {su, u1}
  Teams = {t1, t2}
  Superuser = su
  Nobody = Nobody
  Changes = {c1, c2}
  MaxChanges = 3
  ca = ca
  cb = cb
  i1 = i1
  i2 = i2
  Certs = {ca, cb}
  SelfSigned = SelfSigned
  Missing = Missing
  Installs = {i1, i2}
SPECIFICATION AdministrationSpec
SYMMETRY MCSymmetry
INVARIANT AdministrationTypeOK NextRunFollowsPlan PrimaryIsMembership DeletedUsersManageNothing ActiveIsServed
PROPERTY LastSuperadminGoes RunsAreSteps
CHECK_DEADLOCK FALSE
