CONSTANTS
  explicit = explicit  lamp = lamp  fan = fan  motion = motion
  h1 = h1  h2 = h2  daily = daily  web = web
  None = None
  Batches <- MCBatches
  Contents <- MCContents
  Binary = {lamp, fan}
  Sensors = {motion}
  MinDays = 2
  DayLength = 2
  LookbackDays = 2
  Near = 2
  Now = 6
  Rules <- MCRules
  Supported = {explicit}
  Handlers = {h1, h2}
  Requests <- MCRequests
  Daily = daily
  Publishers = {web}
  MaxInputs = 3
  MaxCrashes = 1
SPECIFICATION FairSpec
INVARIANTS
  SmartTypeOK
  QuietAfterStop
  FindingsAreTrue
PROPERTIES
  ImplementsRuleLifecycle
  StopCompletes
