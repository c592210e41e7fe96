SPECIFICATION Spec
CONSTANTS
    None = None
    Null = Null
    NotText = NotText
    Blank = Blank
    NoFile = NoFile
    Explicit = Explicit
    User = User
    Nowhere = Nowhere
    NoStartup = NoStartup
    NoConfig = NoConfig
    NoBackend = NoBackend
    NoCache = NoCache
    NoThread = NoThread
    NoRecord = NoRecord
    NoSnapshot = NoSnapshot
    NoCwd = NoCwd
    Real <- MCReal
    Launch <- MCLaunch
    Texts <- MCTexts
    Size <- MCSize
    MaxInputBytes = 4
    Startups <- CatalogStartups
    CodexArguments <- CatalogCodexArguments
    ReplyArguments <- CatalogReplyArguments
    Models <- MCModels
    Efforts <- MCEfforts
    Catalogs <- MCCatalogs
    Directories <- CatalogDirectories
    i1 = i1
    i2 = i2
    Ids = {i1, i2}
    MaxProcesses = 3
SYMMETRY Symmetry
INVARIANTS CacheIsOwn UnavailableIsFresh
