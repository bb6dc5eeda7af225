SPECIFICATION FairSpec
CONSTANTS
  None = None
  Devices = {d1, d2}
  Slots = {r1}
  MaxFrames = 1
  Inputs = {"controller", "connect", "lose", "reset"}
INVARIANT RunningHadSession
PROPERTIES
  RolloutEnds
  FailedIsRetried
