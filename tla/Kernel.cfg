SPECIFICATION KernelSpec
CONSTANTS
    HEAP_START = 64
    HEAP_SIZE = 256
    Request = {8, 20, 60, 300}
    MAX_TASKS = 3
    Spawned = 3
    Turns = 2
    Quantum = 2
    MAX_PIPES = 1
    PIPE_BUF_SIZE = 2
    MAX_MSGS = 2
    PipeByte = {0, 1}
    Payload = {"m1", "m2"}
    MostBytes = 3
    Cells = 7
    UserNames = {"a"}
    Known = {"a", "bin", ".."}
    Texts = {"t"}
    Packages = {"libc", "libtext"}
    Deps <- MCDeps
    PAGE_SIZE = 4
    PMM_MEM_START = 4
    PMM_MEM_END = 24
    MEMMAP_MAX_ENTRIES = 4
    Firmware <- MCFirmware
    KB_BUFFER_SIZE = 2
    Printable = {"a"}
    Arrows = {"up"}
    MaxPushed = 4
    FB_WIDTH = 5
    FB_HEIGHT = 3
    Moves <- MCMoves
    Computers <- MCComputers
    MAX_TABLES = 3
    MAX_CPUS = 3
    ACPI_MAX_LAPIC = 3
    ACPI_MAX_IOAPIC = 1
    Limbs = 2
    Width = 2
    Bases = {3, 7, 14}
    Exponents = {0, 2, 5, 11}
    Moduli = {2, 5, 11, 13, 15}
    EmBytes = {0, 1, 255}
    EmLens = {7, 8}
    MinFill = 2
    DigestPrefix <- MCPrefix
    Digests <- MCDigests
    P = 11
    N = 7
    Generator <- MCGenerator
    Keys <- MCKeys
    Hashes = {0, 3, 8, 15}
    SigInts = {0, 1, 2, 3, 4, 5, 6, 7}
    LimbWidth = 6
    ByteBits = 7
    BlockBytes = 4
    ChaChaBytes = 4
    KeyStream <- MCKeyStream
    PolyKeys <- MCPolyKeys
    MacInMax = 22
    Aads <- MCAads
    PlainTexts <- MCPlainTexts
    Tampered <- MCTampered
INVARIANTS
    Tiled
    Restored
    PagesSafe
    DevicesRight
    CryptoRight
PROPERTIES
    
    CallReturns
    RunsToEnd
    ChannelSpec
    TreeSpec
