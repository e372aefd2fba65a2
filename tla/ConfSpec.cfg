SPECIFICATION MCSpec
CONSTANTS
    PatternChar <- MCPatternChar
    TextChar <- MCTextChar
    Latin1 <- MCLatin1
    MaxPattern = 5
    MaxText = 4
    Conf = {"inputs.conf", "server.conf", "indexes.conf", "props.conf"}
    Pattern = {"default", "<index>", "volume:<volume>", "lmpool:<name>", "lmpool:a"}
    Header = {"default", "lmpool:<name>", "lmpool:a"}
    Key = {"attr.<name>", "disabled"}
    Name = {"default", "lmpool:a", "lmpool:b", "volume:v"}
    Option = {"attr.x", "disabled"}
    Lmpool = {"lmpool:<name>", "lmpool:a"}
    Match <- MCMatch
    MaxFiles = 2
    MaxLines = 3
INVARIANTS
    MatchesGlob
    SliceInOrder
    JudgedByAll
CHECK_DEADLOCK FALSE
