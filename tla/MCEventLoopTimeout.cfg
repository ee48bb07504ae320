\* A client that stops reading outlives its timeout.
CONSTANTS
    Fd = {f1}
    Listen = listen
    None = None
    MaxEvents = 1
    MaxChunks = 2
    MaxInbox = 2
    MaxBacklog = 1
SPECIFICATION FairSpec
PROPERTIES TimedOutClientsLeave
CHECK_DEADLOCK FALSE
