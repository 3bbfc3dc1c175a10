SPECIFICATION Spec
CONSTANTS
    u1 = u1  u2 = u2  listener = listener  test = test
    envToken = envToken  newToken = newToken  envChat = envChat
    Empty = Empty  None = None
    Updates = {u1, u2}
    Senders = {listener, test}
    Testers = {test}
    Tokens = {envToken, newToken, Empty}
    Chats = {envChat, Empty}
    Bodies <- MCBodies
    Base <- MCBase
    Minute = 1
    MaxTime = 2
    MaxUpdates = 2
    MaxMessages = 3
    MaxRestarts = 1
INVARIANTS TypeOK AtMostTwoPeriods PostsAsConfigured Survives
SYMMETRY Symmetry
CHECK_DEADLOCK FALSE
