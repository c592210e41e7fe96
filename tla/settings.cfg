SPECIFICATION Spec
CONSTANTS
    None = None
    Null = Null
    NotText = NotText
    Blank = Blank
    NoFile = NoFile
    Explicit = Explicit
    User = User
    Nowhere = Nowhere
    NoStartup = NoStartup
    NoConfig = NoConfig
    NoBackend = NoBackend
    NoCache = NoCache
    NoThread = NoThread
    NoRecord = NoRecord
    NoSnapshot = NoSnapshot
    NoCwd = NoCwd
    Real <- MCReal
    Launch <- MCLaunch
    Texts <- MCTexts
    Size <- MCSize
    MaxInputBytes = 4
    Startups <- MCStartups
    CodexArguments <- MCCodexArguments
    ReplyArguments <- MCReplyArguments
    Models <- MCModels
    Efforts <- MCEfforts
    Catalogs <- MCCatalogs
    Directories <- MCDirectories
    i1 = i1
    i2 = i2
    Ids = {i1}
    MaxProcesses = 1
INVARIANTS TypeOK TurnsAuthorised NoFallback
PROPERTIES PolicyIsConfined HighestLayerWins
