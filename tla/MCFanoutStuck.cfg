CONSTANTS
  MaxDests = 2
  MaxClones = 4
  Configs <- PrimaryLastConfigs
SPECIFICATION FairSpec
PROPERTIES
  RequestResolves
CHECK_DEADLOCK FALSE
