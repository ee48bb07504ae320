\* Two clients, one event per batch: whether the loop gets round to everything.
CONSTANTS
    Fd = {f1, f2}
    Listen = listen
    None = None
    MaxEvents = 1
    MaxChunks = 2
    MaxInbox = 1
    MaxBacklog = 1
SPECIFICATION FairSpec
PROPERTIES PeerCloseNoticed BufferedDataServed BacklogServed
CHECK_DEADLOCK FALSE
