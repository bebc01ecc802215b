CONSTANTS
  Senders = {"format", "clocksim"}
  NTags = 3
  Skew = TRUE
  Size = 2
SPECIFICATION ChainSpec
INVARIANTS WordsAligned WordsFollow
PROPERTY EveryWordGiven
