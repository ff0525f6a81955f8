SPECIFICATION Spec
CONSTANTS
    Clients = {c1, c2}
    Keys <- Members
    NoKey = NoKey
    Commands <- RemoveMembers
    Starts <- BothThere
    MaxWrites = 1
INVARIANT ForceForgivesRemoved
