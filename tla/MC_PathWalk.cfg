CONSTANTS
    a = a
    f = f
    Root = Root
    DirA = DirA
    FileF = FileF
    FileAF = FileAF
    NoEntry = NoEntry
    Sep = Sep
    Dot = Dot
    NoErr = NoErr
    Names <- MC_Names
    Dentries <- MC_Dentries
    IsDir <- MC_IsDir
    Child <- MC_Child
SPECIFICATION Spec
INVARIANT FindFileFollowsTree
