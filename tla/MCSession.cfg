CONSTANTS
  U32 = 4
  Times = {0, 1, Never}
  Never = Never
  Null = Null
  Wild = Wild
  Cut = Cut
  Unreadable = Unreadable
  Traces <- SmallTraces
  Calls <- SmallCalls
  MaxCalls = 4
SPECIFICATION Spec
INVARIANT TypeOK DeclaredNeverCrashes HartsKeepTheirView HartsFollowConfig VerdictSound
PROPERTY EveryFileEnds
CHECK_DEADLOCK FALSE
