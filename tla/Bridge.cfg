SPECIFICATION FairBridgeSpec
CONSTANTS
  Msgs = {m1}
  Boot = boot
  MaxChannel = 2
  DefaultMaxChannel = 3
  Tunnels = {t1}
  Base = 4
  MessageSizes = {0, 40}
  HeaderSizes = {0, 60, 199}
  BodySizes = {0, 11, 12, 300}
  m1 = m1
  t1 = t1
  boot = boot
INVARIANT BridgeTypeOK
INVARIANT FramesTakeApart
PROPERTY SunapiAnswered
PROPERTY EveryMessageServed
CHECK_DEADLOCK FALSE
