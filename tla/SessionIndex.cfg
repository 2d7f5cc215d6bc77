CONSTANTS
  k1 = k1
  s1 = s1  s2 = s2
  w1 = w1
  t1 = t1  t2 = t2  t3 = t3
  j1 = j1  j2 = j2
  None = None
  Torn = Torn
  Keys = {k1}
  Sessions = {s1, s2}
  KeyOf <- MCKeyOf
  Sockets = {w1}
  Texts = {t1, t2, t3}
  Histories <- FreshOnly
  OneTab = {k1}
  SoundDisk = {}
  MaxCrashes = 1
  MaxSessions = 1
  MaxRounds = 3
  EndChCap = 1
  MayIdle = {s1}
  MsgBound = 6
  Jobs = {j1, j2}
  PoorService = {1}
  PoorStore = {0}
SPECIFICATION IndexSpec
SYMMETRY ChatSymmetry
INVARIANTS
  IndexTypeOK
  HitsWereAsked
  CacheIsIndex
  QuestionsAreIndexed
CHECK_DEADLOCK FALSE
