CONSTANTS
  Stock <- MCStock
  JsonMax = 2
  Sigints = 1
  TraceIds = {1, 2, 3}
  Answers <- MCAnswers
  RootTrace = 1
  MaxTraces = 2
  Manifest <- MCManifest
  OldTopics <- MCOldTopics
  MaxCallbacks = 2
  MaxClients = 2
  Ephemeral <- MCEphemeral
  Invocations <- MCInvocations
  Followers <- MCFollowers
SPECIFICATION CommandLineSpec
INVARIANTS CliTypeOK AnswerExact TokensFit TraceAnswerExact InstallComplete FirstCallbackWins RegistrationHeals
PROPERTIES InterruptEnds LoginEnds
CHECK_DEADLOCK FALSE
