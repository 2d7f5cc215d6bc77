CONSTANTS
  k1 = k1  k2 = k2
  s1 = s1  s2 = s2  s3 = s3  s4 = s4  s5 = s5
  None = None
  Keys = {k1, k2}
  Sessions = {s1, s2, s3, s4, s5}
  KeyOf <- MCKeyOf
  Texts = {1, 2, 3, 4}
  UserOf <- MCUserOf
  Patient = {k2}
  Histories <- FreshOnly
  MaxSessions = 1
  MaxRounds = 1
  EndChCap = 1
  MayIdle = {}
  MsgBound = 6
SPECIFICATION LoopSpec
SYMMETRY SessionSymmetry
INVARIANTS
  LoopTypeOK
  AnswersFollowQuestions
  QuestionRecordedOnce
  NothingActiveAfterStop
  PatientAnswersKept
  QuestionAskedOnce
CHECK_DEADLOCK FALSE
