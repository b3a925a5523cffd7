SPECIFICATION Spec
CONSTANTS
  v1 = v1
  v2 = v2
  v3 = v3
  Views = {v1, v2, v3}
  Lines = 2
  Versions = 2
INVARIANT LatestIsOfTheList
CHECK_DEADLOCK FALSE
