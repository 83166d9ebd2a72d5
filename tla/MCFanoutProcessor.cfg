CONSTANTS
  MaxDests = 3
  MaxClones = 4
  Configs <- RegularConfigs
SPECIFICATION FairSpec
INVARIANTS
  TypeOK
  OneOutcome
  OutcomeJustified
  FallbackOnlyWhenTriggered
  FlightsAccounted
  NoRequestForgotten
PROPERTIES
  RequestResolves
CHECK_DEADLOCK FALSE
