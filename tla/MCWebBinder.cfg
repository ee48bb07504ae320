\* Two bindings, then one request at a time while two changes happen.
CONSTANTS
    None = None
    Dir = Dir
    Piece <- MCPiece
    Slash = "/"
    Url <- MCUrl
    BindUrl <- MCBindUrl
    DirPath <- MCDirPath
    FilePath <- MCFilePath
    Holds <- MCHolds
    MaxBinds = 2
    MaxChanges = 2
SPECIFICATION Spec
INVARIANTS TypeOK LatestBindingServes AnswersWereTrue LinksLead
