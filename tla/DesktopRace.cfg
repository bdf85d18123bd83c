SPECIFICATION Spec
CONSTANTS
    files = files
    calculator = calculator
    files2 = files2
    calculator2 = calculator2
    App = {files, calculator}
    Launch <- MCLaunch
    OldApps = {calculator}
    MAX_CLIENTS = 2
    MAX_WINDOWS = 1
    SOCKBUF = 2
    MaxEvents = 1
    MaxCrash = 1
PROPERTY
    NoRace
CHECK_DEADLOCK FALSE
