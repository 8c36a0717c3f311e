\* Three requests over two paths, and every variant of the configuration.
SPECIFICATION Spec
CONSTANTS
  Configs <- MCConfigs
  SeqMod = 2
INVARIANTS
  TypeOK
  AnswersInOrder
  NoConnectionLeft
  AuthenticatedAsConfigured
PROPERTIES
  ClientReturns
  DemoServerStops
CHECK_DEADLOCK FALSE
