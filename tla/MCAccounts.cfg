\* First logins with one key in flight together, and upgrades to the same name.
SPECIFICATION Spec
CONSTANTS
  MaxFaults = 1
  MaxRequests = 5
  Clients = {"c1", "c2", "c3"}
  Keys = {"k1", "k2"}
  GuestKey <- SharedKey
  Names = {"a", "b"}
INVARIANTS
  TypeOK
  OneAccountPerKey
  
CHECK_DEADLOCK FALSE
