SPECIFICATION ScreenSpec
CONSTANTS
    files = files
    calculator = calculator
    files2 = files2
    calculator2 = calculator2
    App = {files, calculator}
    Launch <- MCLaunch
    OldApps = {}
    MAX_CLIENTS = 2
    MAX_WINDOWS = 2
    SOCKBUF = 2
    MaxEvents = 1
    MaxCrash = 1
    Dock = {"Files","Notes"}
    Boot = "Files"
    MAX_WINS = 2
    Desktops = {"d1","d2"}
    Home = "d1"
    Panels = {"power","quick"}
    AppNames = {"browser","textedit","notes","terminal","calendar","clock","files","store"}
    Builtin = {"vyro://home","vyro://net"}
    HomeUrl = "vyro://home"
    Web = {"a.com","b.org"}
    MAX_TABS = 3
    TE_MAX = 6
    Heights = {0,1,2}
    MAX_NOTES = 3
    Seeded = 2
    TITLE_MAX = 2
    Welcome <- MCWelcome
    BODY_MAX = 2
    Untitled = 1
    SeededBody = 1
    MaxWord = 1
    HIST_SIZE = 2
    MaxEntered = 4
    Years = {1899,1900,1901,1999,2000,2001}
    MaxTime = 6
    Tree <- MCTree
    FatRoot <- MCFat
    RootDir = "root"
    Packages <- MCPackages
    Cards = {1,3}
    Clients = {"textedit","files","settings","terminal"}
    BUF_CAP = 5
    VISIBLE_LINES = 2
    OnDisk <- MCOnDisk
    Folders <- MCFolders
    StartPath <- MCStart
    VISIBLE_ROWS = 2
    Toggles = {"dark_mode"}
    Sliders = {"volume","accent"}
    Levels = {0,1}
    ROWS = 2
    COLS = 4
    TAB = 2
    MaxOutput = 7
    VGA_ROWS = 3
    VGA_COLS = 3
    MAX_INPUT = 4
    HISTORY_SIZE = 2
    TypedChars = {"a","b"}
    MaxHistory = 3
    Outputs <- MCOutputs
INVARIANTS
    WindowsOwned
    OneSlot
    WindowHeld
    EventsForCreator
    ReplyFirst
    WindowsHeld
    
    ClientsAgree
    LineShown
CHECK_DEADLOCK FALSE
