CONSTANTS
    Threads = {t1, t2}
    MaxFd <- MC_MaxFdIo
    StdFds <- MC_StdFdsIo
    MaxOpens <- MC_MaxOpensIo
    MaxSize <- MC_MaxSizeIo
    MaxIov <- MC_MaxIov
    BLOCK_SIZE <- MC_BLOCK_SIZE
    Tty = Tty
    a = a
    f = f
    Root = Root
    DirA = DirA
    DirB = DirB
    FileF = FileF
    Cwd = DirA
    NoEntry = NoEntry
    Sep = Sep
    Dot = Dot
    NoErr = NoErr
    Names <- MC_Names
    Dentries <- MC_Dentries
    IsDir <- MC_IsDir
    Child <- MC_Child
    OpenPaths <- MC_OpenPathsIo
    AT_FDCWD = AT_FDCWD
    NoDesc = NoDesc
    None = None

SPECIFICATION Spec
VIEW MC_IoView
CONSTRAINT MC_IoConstraint

PROPERTY ReadvStopsOnShortRead
