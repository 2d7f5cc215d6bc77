CONSTANTS
  k1 = k1  k2 = k2
  s1 = s1  s2 = s2  s3 = s3
  w1 = w1  w2 = w2
  t1 = t1  t2 = t2  t3 = t3
  None = None
  Torn = Torn
  Keys = {k1, k2}
  Sessions = {s1, s2, s3}
  KeyOf <- MCKeyOf
  Sockets = {w1, w2}
  Texts = {t1, t2, t3}
  Histories <- FreshOnly
  OneTab = {k1}
  SoundDisk = {k1}
  MaxCrashes = 1
  MaxSessions = 1
  MaxRounds = 2
  EndChCap = 1
  MayIdle = {s1}
  MsgBound = 6
SPECIFICATION WebSpec
SYMMETRY ChatSymmetry
INVARIANTS
  ShelteredStaysSaved
  DeliveredIsKept
  AnswersBehindQuestions
  FileIsOneInstant
CHECK_DEADLOCK FALSE
