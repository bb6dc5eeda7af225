SPECIFICATION FairSpec
CONSTANTS
  a1 = a1
  a2 = a2
  Apps = {a1, a2}
  Offered <- MCOffered
  ChanCap = 1
  MaxCommands = 3
  MaxBeats = 1
  NoTask = NoTask
INVARIANTS TypeOK HandlesAgree  LastAckHolds
PROPERTIES AnswersInOrder EnrollmentSettles ClientLeaves
CHECK_DEADLOCK FALSE
