SPECIFICATION MCSpec
CONSTANTS
    Stanza = {"default", "s"}
    Key = {"k"}
    DefaultLimit = 2
    LimitArg = {0, 1}
    MaxFiles = 2
    MaxLines = 4
    AppsIn <- MCAppsIn
    Hidden = {3}
    UserApps = {1, 2}
    Volume = {"volume:v"}
    Content <- MCContent
    Install <- MCInstall
    Options <- MCOptions
INVARIANTS
    MeansTheFiles
    WithinLimit
    StanzaIndexed
    HighestWins
    OnlyAsked
CHECK_DEADLOCK FALSE
