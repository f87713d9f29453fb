SPECIFICATION Spec
CONSTANTS
  u1 = u1
  u2 = u2
  r1 = r1
  Uids = {u1, u2}
  Robots = {r1}
  Zones <- OneZone
  RobotZone <- AllInFirstZone
  PLAYER_NUM = 1
  NoPlayer = NoPlayer
  MaxLogins = 2
  MaxMatch = 3
  MaxPending = 2
SYMMETRY Symmetry
INVARIANTS
  TypeOK
  OnlineCount
  
  SeatsAgree
  GatheringCount
  OneGatheringRoom
  MachingIsPlaying
  
PROPERTIES
  PlaceKept
