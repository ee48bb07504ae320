\* Two streams: split header blocks, bodies, trailers, resets, GOAWAY, control frames.
CONSTANTS
    Streams = 2
    Request = {page, none}
    Found = {page}
    Get = {page, none}
    Features = {"splitBody", "trailers"}
    MaxFrags = 4
    MaxControl = 2
    None = None
SPECIFICATION Spec
INVARIANTS TypeOK HpackInSync OneReply AnsweredAtOnce OpenMeansBlock
PROPERTIES ResetIsFinal ImplementsExchange
