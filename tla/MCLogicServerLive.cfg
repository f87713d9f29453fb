SPECIFICATION FairSpec
CONSTANTS
  u1 = u1
  u2 = u2
  r1 = r1
  Uids = {u1, u2}
  Robots = {r1}
  Zones <- OneZone
  RobotZone <- AllInFirstZone
  PLAYER_NUM = 1
  NoPlayer = NoPlayer
  MaxLogins = 1
  MaxMatch = 2
  MaxPending = 1
PROPERTIES
  
  ReturnerSeated
