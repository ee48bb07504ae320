\* Up to two frames, reads of any size up to one that holds the longest frame.
CONSTANTS
    None = None
    Sendable <- MCSendable
    MaxSent = 2
    BufferSize = 280
    ReadSizes <- MCReadSizes
SPECIFICATION Spec
INVARIANTS TypeOK WholeFramesArrive NoPieces SettingsStored
