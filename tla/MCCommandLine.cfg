CONSTANTS
  Unlimited = 64
  MaxInt = 4
  Null = Null
  Wild = Wild
  Numbers <- SmallNumbers
  Leading <- SmallLeading
  Given <- SmallGiven
  Environment <- SmallEnvironment
  Readable <- SmallReadable
SPECIFICATION Spec
INVARIANT TypeOK DoesWhatWasAsked NoWordLost PositionalsNotStarved OnlyCheckedTextsAreUsed NothingMisplaced
PROPERTY EveryTurnUsesText
CHECK_DEADLOCK FALSE
