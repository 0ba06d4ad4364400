SPECIFICATION ReadFairSpec
CONSTANTS
    LockedNoTagThreshold = 3
    NfcFCleanNoTagThreshold = 2
    NfcFInconclusiveFallbackThreshold = 3
    Window = 0
    CacheRemoval = 3
    NoCache = NoCache
    NothingThere = NothingThere
    AntennaTags <- MCAntennaTags
PROPERTIES
    TagIsRead
