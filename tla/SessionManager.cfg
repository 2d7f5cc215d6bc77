CONSTANTS
  k1 = k1  k2 = k2
  s1 = s1  s2 = s2  s3 = s3
  hello = hello
  None = None
  Keys = {k1, k2}
  Sessions = {s1, s2, s3}
  KeyOf <- MCKeyOf
  Texts = {hello}
  Histories <- SavedOnly
  MaxSessions = 1
  MaxRounds = 1
  EndChCap = 1
  MayIdle = {s1}
  MsgBound = 2
SPECIFICATION FairSpec
INVARIANTS
  ActiveIsCurrent
  EndedInOnePlace
  SedimentedIsFinal
PROPERTIES
  ImplementsLifecycle
  EndedEventuallyClosed
  IdleEventuallyEnded
CHECK_DEADLOCK FALSE
