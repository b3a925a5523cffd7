SPECIFICATION ServedSpec
CONSTANTS
  c1 = c1
  r1 = r1
  r2 = r2
  Channels = {c1}
  Requests = {r1, r2}
  Messages <- MixedMessages
  UpdateTimeOut = 0
  CurlTimeout = 1
  WaitTimeout = 1
SYMMETRY RequestSymmetry
INVARIANT TypeOK
INVARIANT LoneViewComplete
INVARIANT LoneViewInTime
PROPERTY ViewServiceSpec
CHECK_DEADLOCK FALSE
