\* A removed client leaves its descriptor open.
CONSTANTS
    Fd = {f1}
    Listen = listen
    None = None
    MaxEvents = 1
    MaxChunks = 2
    MaxInbox = 2
    MaxBacklog = 1
SPECIFICATION Spec
INVARIANTS DescriptorsClosed
CHECK_DEADLOCK FALSE
