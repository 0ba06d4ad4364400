SPECIFICATION PolledSpec
CONSTANTS
    LockedNoTagThreshold = 3
    NfcFCleanNoTagThreshold = 2
    NfcFInconclusiveFallbackThreshold = 3
    Window = 4
    CacheRemoval = 3
    NoCache = NoCache
    NothingThere = NothingThere
    AntennaTags <- MCAntennaTags
INVARIANTS
    InStep
    ReportsWhatWasThere
PROPERTIES
    ALocksOnlyAfterF
    LockKeptThroughDoubt
    ANotStarved
