SPECIFICATION Spec
CONSTANTS
    Commands = {c1, c2}
    MaxRunning = 2
    Servers = {s1, s2}
    NoServer = NoServer
    MaxTokens = 3
    NoToken = NoToken
    Choices <- FewChoices
SYMMETRY Symmetric
INVARIANTS
    TypeOK
    OneAuthState
PROPERTIES
    SessionsAccounted
    StoredSessionLive
    IssuerRecorded
    LoginAsksFirst
CHECK_DEADLOCK FALSE
