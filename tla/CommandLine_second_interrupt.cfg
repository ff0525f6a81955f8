CONSTANTS
  Stock <- MCStock
  JsonMax = 2
  Sigints = 2
  TraceIds = {1, 2, 3}
  Answers <- MCAnswers
  RootTrace = 1
  MaxTraces = 2
  Manifest <- MCManifest
  OldTopics <- MCOldTopics
  MaxCallbacks = 2
  MaxClients = 2
  Ephemeral <- MCEphemeral
  Invocations <- MCApi
  Followers <- MCFollowers
SPECIFICATION CommandLineSpec
PROPERTIES SecondInterruptEnds
CHECK_DEADLOCK FALSE
