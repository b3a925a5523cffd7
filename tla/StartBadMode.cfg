SPECIFICATION FairSpec
CONSTANTS
  Arguments <- FiveArguments
  Commands = {cmd1, cmd2}
  cmd1 = cmd1
  cmd2 = cmd2
INVARIANT OutOfRangeStartsBoth
CHECK_DEADLOCK FALSE
