\* Every pair of a header size and a document size.
CONSTANTS
    MaxFrame = 20
    FrameHeader = 9
    Record = 29
    HeaderSizes <- MCHeaderSizes
    BodySizes <- MCBodySizes
SPECIFICATION FairSpec
INVARIANTS TypeOK FitsRecord NoEmptyWrite FramesAreDocument WholeReply
PROPERTIES Terminates
