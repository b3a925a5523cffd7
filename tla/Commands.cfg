SPECIFICATION FairSpec
CONSTANTS
  Msgs = {m1, m2}
  Boot = boot
  MaxChannel = 2
  DefaultMaxChannel = 3
  m1 = m1
  m2 = m2
  boot = boot
INVARIANT TypeOK
INVARIANT ArraysCoverChannels
INVARIANT PasswordAnswerFresh
INVARIANT OkMeansAccepted
INVARIANT ConnectionSettles
PROPERTY EveryCommandEnds
CHECK_DEADLOCK FALSE
