SPECIFICATION Spec
CONSTANTS
  Links = {bridge}
  Bridge = bridge
  Msgs = {m1}
  SubTopics <- BridgeTopics
  GiveUp = 3
  MaxBackoff = 2
  bridge = bridge
  m1 = m1
INVARIANT NoReplyThrows
CHECK_DEADLOCK FALSE
