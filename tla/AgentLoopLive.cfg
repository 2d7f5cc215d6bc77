CONSTANTS
  k1 = k1  k2 = k2
  s1 = s1  s2 = s2  s3 = s3  s4 = s4  s5 = s5
  None = None
  Keys = {k1}
  Sessions = {s1, s2, s3}
  KeyOf <- OneKeyOf
  Texts = {1, 2}
  UserOf <- OneUserOf
  Patient = {}
  Histories <- FreshOnly
  MaxSessions = 1
  MaxRounds = 1
  EndChCap = 1
  MayIdle = {s1}
  MsgBound = 4
SPECIFICATION LoopFairSpec
PROPERTIES
  HandlersReturn
  ShutdownCompletes
CHECK_DEADLOCK FALSE
