CONSTANTS
  Ids = {"c", "d"}
  NoId = NoId
  NoFinal = NoFinal
  Classes = {"auth", "transient"}
  MaxTurns = 2
SPECIFICATION Spec
INVARIANTS
  TypeOK
  ConversationKept
  OutcomeIsTrue
PROPERTIES
  StallMeansSilence
  TurnEnds
CHECK_DEADLOCK FALSE
