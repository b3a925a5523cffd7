SPECIFICATION Spec
CONSTANTS
  N = 2
  Requests = {view1, bad, other}
  Others = {other}
  Malformed = {bad}
  Versionless = {other}
  UpdateTimeOut = 1
  CurlTimeout = 1
  WaitTimeout = 1
  view1 = view1
  bad = bad
  other = other
INVARIANT TypeOK
INVARIANT LoneAnswerComplete
CHECK_DEADLOCK FALSE
