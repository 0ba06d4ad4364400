SPECIFICATION ScanSpec
CONSTANTS
    LockedNoTagThreshold = 3
    NfcFCleanNoTagThreshold = 2
    NfcFInconclusiveFallbackThreshold = 3
    Window = 5
PROPERTIES
    NoPermanentFLock
