\* A GET whose header block takes a CONTINUATION.
CONSTANTS
    Streams = 2
    Request = {page}
    Found = {page}
    Get = {page}
    Features = {"splitGet"}
    MaxFrags = 3
    MaxControl = 1
    None = None
SPECIFICATION Spec
INVARIANTS HpackInSync
