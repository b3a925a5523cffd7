SPECIFICATION FairServedSpec
CONSTANTS
  N = 1
  Requests = {view1, view2}
  Others = {}
  Malformed = {}
  Versionless = {}
  UpdateTimeOut = 2
  CurlTimeout = 2
  WaitTimeout = 2
  view1 = view1
  view2 = view2
INVARIANT LoneAnswerInTime
PROPERTY EveryRequestAnswered
PROPERTY ViewServiceSpec
CHECK_DEADLOCK FALSE
