SPECIFICATION AppSpec
CONSTANTS
    Attempts = {1, 2}
    Builds = {"device", "sdl"}
    HintDelay = 0
    ExitDelay = 1
    Wrap = 3
    MaxLag = 1
INVARIANTS
    OnePressOneEffect
    DialogHasKeys
PROPERTIES
    ImplementsEscHold
    NewFailuresShown
