SPECIFICATION FairSpec
CONSTANTS
  Links = {bridge}
  Bridge = bridge
  Msgs = {}
  SubTopics <- BridgeTopics
  GiveUp = 3
  MaxBackoff = 2
  bridge = bridge
PROPERTY RestoreAttempted
CHECK_DEADLOCK FALSE
