\* Clients that wait for answers, in every order of requests, answers, closes
\* and lost servers: three connections at a time, two accounts.
SPECIFICATION Spec
CONSTANTS
  s1 = s1  s2 = s2  s3 = s3
  u1 = u1  u2 = u2
  Sessions = {s1, s2, s3}
  Uids = {u1, u2}
  NoUid = NoUid
  Nil = Nil
  Auth = Auth
  Logic = Logic
  Stypes = {Auth, Logic}
  Impatient = FALSE
  LateReads = FALSE
  MaxTag = 3
  MaxPending = 2
  MaxAttempts = 2
SYMMETRY Symmetry
INVARIANTS
  TypeOK
  OneSession
  
  TagsDistinct
  
  OneLink
PROPERTIES
  LoginStands
