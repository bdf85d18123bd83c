SPECIFICATION Spec
CONSTANTS
    files = files
    calculator = calculator
    files2 = files2
    calculator2 = calculator2
    App = {files, calculator, files2}
    Launch <- MCLaunch
    OldApps = {calculator}
    MAX_CLIENTS = 1
    MAX_WINDOWS = 1
    SOCKBUF = 1
    MaxEvents = 1
    MaxCrash = 1
PROPERTIES
    HandshakeEnds
    WindowsReclaimed
    CompositorReturns
CHECK_DEADLOCK FALSE
