\* One user over two days after its first: a first login, grants, payments and the rank, with a
\* failing query anywhere.
SPECIFICATION FairSpec
CONSTANTS
  MaxFaults = 1
  Users = {u1}
  Others = {u2}
  UCHIP = 2
  LOGIN_BONUES <- LoginBonues
  RANK = 1
  Impatient = FALSE
  MaxDay = 2
  MaxRequests = 4
  Contents <- SysMsgs
INVARIANTS
  TypeOK
  PaidPerDay
  CacheAgrees
  VersionNamesData
PROPERTIES
  
  MessagesReloaded
CHECK_DEADLOCK FALSE
