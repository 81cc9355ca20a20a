CONSTANTS
    Threads = {t1}
    MaxFd <- MC_MaxFd
    StdFds <- MC_StdFds
    MaxOpens <- MC_MaxOpens
    MaxSize <- MC_MaxSize
    MaxIov <- MC_MaxIov
    BLOCK_SIZE <- MC_BLOCK_SIZE
    Tty = Tty
    a = a
    f = f
    Root = Root
    DirA = DirA
    DirB = DirB
    FileF = FileF
    Cwd = DirA
    NoEntry = NoEntry
    Sep = Sep
    Dot = Dot
    NoErr = NoErr
    Names <- MC_Names
    Dentries <- MC_Dentries
    IsDir <- MC_IsDir
    Child <- MC_Child
    OpenPaths <- MC_OpenPaths
    AT_FDCWD = AT_FDCWD
    NoDesc = NoDesc
    None = None
    LogLevel = 3
    Pid = 3

SPECIFICATION DSpec

INVARIANT FsSyscallsServed
