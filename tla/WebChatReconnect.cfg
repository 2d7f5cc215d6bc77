CONSTANTS
  k1 = k1  k2 = k2
  s1 = s1  s2 = s2  s3 = s3
  w1 = w1  w2 = w2
  t1 = t1  t2 = t2  t3 = t3
  None = None
  Torn = Torn
  Keys = {k1}
  Sessions = {s1, s2}
  KeyOf <- PairKeyOf
  Sockets = {w1, w2}
  Texts = {t1, t2}
  Histories <- FreshOnly
  OneTab = {}
  SoundDisk = {k1}
  MaxCrashes = 0
  MaxSessions = 1
  MaxRounds = 2
  EndChCap = 1
  MayIdle = {}
  MsgBound = 6
SPECIFICATION WebSpec
SYMMETRY ChatSymmetry
INVARIANTS
  SavedStaysSaved
CHECK_DEADLOCK FALSE
