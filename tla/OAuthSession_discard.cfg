SPECIFICATION Spec
CONSTANTS
    Commands = {c1, c2}
    MaxRunning = 1
    Servers = {s1, s2}
    NoServer = NoServer
    MaxTokens = 2
    NoToken = NoToken
    Choices <- AllChoices
SYMMETRY Symmetric
PROPERTY DiscardsConfirmed
CHECK_DEADLOCK FALSE
