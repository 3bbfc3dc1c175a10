SPECIFICATION Spec
CONSTANTS
    yard = yard
    hall = hall
    browser = browser
    Cameras = {yard}
    Kinds = {"fire", "stream_up"}
    Clients = {browser}
    Capacity = 1
    Wire = 1
    WsCapacity = 1
    MaxEvents = 3
    MaxFaults = 1
PROPERTY BroadcastReachesConnected
CHECK_DEADLOCK FALSE
