\* Logging out and hanging up leaves the player at the logic server.
SPECIFICATION Spec
CONSTANTS
  s1 = s1  s2 = s2  s3 = s3
  u1 = u1  u2 = u2
  Sessions = {s1}
  Uids = {u1}
  NoUid = NoUid
  Nil = Nil
  Auth = Auth
  Logic = Logic
  Stypes = {Auth, Logic}
  Impatient = FALSE
  LateReads = FALSE
  MaxTag = 2
  MaxPending = 2
  MaxAttempts = 1
INVARIANTS
  LostIsTold
