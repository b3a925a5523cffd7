SPECIFICATION FairSpec
CONSTANTS
  Links = {bridge, broker}
  Bridge = bridge
  Msgs = {m1}
  SubTopics <- BridgeTopics
  GiveUp = 2
  MaxBackoff = 2
  bridge = bridge
  broker = broker
  m1 = m1
INVARIANT TypeOK
INVARIANT StatusFalseInOutage
INVARIANT ServiceComplete
INVARIANT RetriesPaced
INVARIANT GiveUpOnlyAfterOutage
PROPERTY OutageClockNeverRestarted
PROPERTY ServiceSpec
PROPERTY OutageResolves
PROPERTY ReachableBrokerServes
CHECK_DEADLOCK FALSE
