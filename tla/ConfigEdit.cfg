SPECIFICATION Spec
CONSTANTS
    h1 = h1
    h2 = h2
    c1 = c1
    c2 = c2
    u1 = u1
    u2 = u2
    None = None
    Handlers = {h1, h2}
    Rows = {1, 2}
    Cameras = {c1, c2}
    Urls = {u1, u2}
    Inputs <- MCInputs
    Changes <- MCChanges
    MaxRequests = 2
    MaxCrashes = 1
PROPERTY EditReachesWorker
CHECK_DEADLOCK FALSE
