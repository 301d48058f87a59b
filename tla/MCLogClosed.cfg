CONSTANTS
  U32 = 4
  Times = {0, 1, Never}
  Never = Never
  Null = Null
  Wild = Wild
  Cut = Cut
  Unreadable = Unreadable
  Traces <- CoreTraces
  Calls = {}
  MaxCalls = 0
SPECIFICATION Spec
INVARIANT LogClosedOnce
CHECK_DEADLOCK FALSE
