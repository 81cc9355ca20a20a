----------------------------- MODULE FdSyscalls -----------------------------
(***************************************************************************)
(* The file-descriptor system calls of one process                         *)
(* (src/crates/kernel/src/syscall/fs.rs): openat, close, dup3, fcntl64,    *)
(* ioctl, getdents64, newfstatat, read, write, readv and writev, run by    *)
(* the threads of a process that share its fd table.                       *)
(*                                                                         *)
(* Every handler takes the process-inner lock, does its fd-table work and  *)
(* releases it without awaiting, so on the single hart each handler is one *)
(* action, except readv and writev: they await file.read/write once per   *)
(* buffer, and other threads run between two buffers.  Each of their       *)
(* buffers is one action.  A read/write of a paged file runs read_at or    *)
(* write_at synchronously, so one buffer is atomic.                        *)
(*                                                                         *)
(* The fd table (FdTable, fs/file.rs), FileDescriptor, the open file's     *)
(* offset (PagedFile) and the tty are not in this source tree; they are    *)
(* modelled from the specification (section 3): add takes the smallest    *)
(* unused fd, add_from the smallest unused fd >= arg, insert replaces a    *)
(* slot, and a cloned FileDescriptor shares its open file and copies its   *)
(* flags.  Paths are resolved by path_walk over a fixed dentry tree      *)
(* (PathWalk); the tree has regular files of their own sizes.             *)
(***************************************************************************)
EXTENDS Integers, Sequences, FiniteSets, PathWalk
LOCAL INSTANCE FiniteSetsExt
LOCAL INSTANCE Functions

CONSTANTS
    Threads,     \* the threads of the process
    MaxFd,       \* bound: fds are 0 .. MaxFd - 1
    StdFds,      \* the process starts with the console on fds 0 .. StdFds - 1
    MaxOpens,    \* bound on the number of successful opens
    MaxSize,     \* bound on the size of the regular file
    MaxIov,      \* bound on the number of buffers of one readv/writev
    BLOCK_SIZE,  \* st_blksize, the unit of st_blocks
    Tty,         \* the console, a character device
    Root,        \* the VFS root directory
    Cwd,         \* the process's cwd
    OpenPaths,   \* the non-empty paths an openat or newfstatat may pass
    AT_FDCWD,    \* -100isize as usize
    NoDesc,      \* an empty fd-table slot
    None         \* no value

Fds == 0 .. MaxFd - 1
OfdIds == 0 .. MaxOpens          \* open files; 0 is the console
BufLens == 1 .. 2                \* lengths of one user buffer
Access == {"RDONLY", "WRONLY", "RDWR"}

\* errno (src/crates/utils/defines/src/error.rs)
EBADF == -9
EEXIST == -17
EISDIR == -21
EINVAL == -22
ENOTTY == -25

\* fcntl64 commands
F_DUPFD == 0
F_GETFD == 1
F_SETFD == 2
F_DUPFD_CLOEXEC == 1030
FcntlCmds == {F_DUPFD, F_GETFD, F_SETFD, F_DUPFD_CLOEXEC, 3}

\* The flags argument of an openat (the mode is ignored): the bits the
\* handler tests, and whether it also carries a bit OpenFlags does not
\* define ("unknown"), or ASYNC or DSYNC ("async"), or neither ("none").
OpenFlagSet == [acc : Access, create : BOOLEAN, excl : BOOLEAN,
                directory : BOOLEAN, cloexec : BOOLEAN,
                unsupported : {"none"}]
UnsupportedFlags == {"unknown", "async"}

Calls == {"openat", "close", "dup3", "fcntl64", "ioctl", "getdents64",
          "newfstatat", "read", "write", "readv", "writev"}

VARIABLES
    fdt,        \* fdt[fd]: the FileDescriptor in slot fd, or NoDesc
    ofd,        \* ofd[o]: the open file o ([obj, pos]); pos is its offset
    nopen,      \* open files created so far (ids 1 .. nopen)
    fsize,      \* fsize[d]: the data_len of regular file d
    pc,         \* pc[t]: t's readv/writev in progress, or [op |-> "idle"]
    span,       \* span[t]: the file positions t's last readv/writev moved over
    setfd,      \* history: the bit of the most recent F_SETFD on each slot
    ev,         \* the system call the last step completed and its result
    panicked    \* a todo!() was reached: the kernel panicked

vars == << fdt, ofd, nopen, fsize, pc, span, setfd, ev, panicked >>

\* The regular files of the tree.
Paged == {d \in Dentries : ~IsDir(d)}

Desc == [ofd : OfdIds, acc : Access, cloexec : BOOLEAN]
Idle == [op |-> "idle", ofd |-> 0, iov |-> << >>, tot |-> 0, short |-> FALSE]
NoEvent == [thr |-> None, call |-> "none", fd |-> 0, arg |-> 0, flag |-> FALSE,
            ret |-> 0, out |-> None]

\* The event of a completed call: its thread, its fd and argument, the
\* CLOEXEC flag of a dup3, the result, and what it wrote to user memory
\* (the Stat of a newfstatat; None for the others).
Event(t, call, fd, arg, flag, ret) ==
    [thr |-> t, call |-> call, fd |-> fd, arg |-> arg, flag |-> flag, ret |-> ret,
     out |-> None]

(***************************************************************************)
(* FdTable and FileDescriptor (fs/file.rs, from the specification)         *)
(***************************************************************************)
Used == {fd \in Fds : fdt[fd] # NoDesc}

\* FdTable::add: the smallest unused fd.
FdTableAdd == Min(Fds \ Used)

\* FdTable::add_from(desc, arg): the smallest unused fd that is >= arg.
FdTableAddFrom(arg) == Min({fd \in Fds \ Used : fd >= arg})

Readable(d) == d.acc \in {"RDONLY", "RDWR"}
Writable(d) == d.acc \in {"WRONLY", "RDWR"}

\* The object behind the open file of a descriptor.
ObjOf(d) == ofd[d.ofd].obj
IsDirObj(obj) == obj \in Dentries /\ IsDir(obj)

(***************************************************************************)
(* File::read / File::write on an open file o (PagedFile, DirFile, tty;    *)
(* from the specification).  A paged file reads and writes at its offset   *)
(* through read_at / write_at and advances it; a directory refuses with    *)
(* EISDIR; the console transfers the whole buffer.  Result: the count or   *)
(* the error, and the open file's and the file's new state.                *)
(***************************************************************************)
\* Mutant: a read of a paged file is not clamped to the end of the file.
FileReadNoClamp(o, len) ==
    CASE IsDirObj(ofd[o].obj) -> [ret |-> EISDIR, pos |-> ofd[o].pos, size |-> 0]
      [] ofd[o].obj = Tty     -> [ret |-> len, pos |-> ofd[o].pos, size |-> 0]
      [] OTHER -> [ret |-> len, pos |-> ofd[o].pos + len, size |-> fsize[ofd[o].obj]]

FileRead(o, len) ==
    CASE IsDirObj(ofd[o].obj) -> [ret |-> EISDIR, pos |-> ofd[o].pos, size |-> 0]
      [] ofd[o].obj = Tty     -> [ret |-> len, pos |-> ofd[o].pos, size |-> 0]
      [] OTHER ->
         LET sz == fsize[ofd[o].obj]
             n  == IF ofd[o].pos >= sz THEN 0 ELSE Min({len, sz - ofd[o].pos})
         IN  [ret |-> n, pos |-> ofd[o].pos + n, size |-> sz]

FileWrite(o, len) ==
    CASE IsDirObj(ofd[o].obj) -> [ret |-> EISDIR, pos |-> ofd[o].pos, size |-> 0]
      [] ofd[o].obj = Tty     -> [ret |-> len, pos |-> ofd[o].pos, size |-> 0]
      [] OTHER -> [ret |-> len, pos |-> ofd[o].pos + len,
                   size |-> Max({fsize[ofd[o].obj], ofd[o].pos + len})]

\* Bound on the file sizes: a write of n more bytes of regular file d may
\* start only if it and every buffer still to come of the writevs in
\* progress on d stay within MaxSize, from the highest offset or size
\* of d reached.
FileTop(d) == Max({fsize[d]} \cup {ofd[o].pos : o \in {o2 \in OfdIds : ofd[o2].obj = d}})
PendingWrite(d) ==
    LET pending(t) == IF pc[t].op = "writev" /\ ofd[pc[t].ofd].obj = d
                      THEN SumFunction(pc[t].iov) ELSE 0
    IN  MapThenSumSet(pending, Threads)
WriteFits(o, n) ==
    LET d == ofd[o].obj
    IN  d \in Paged => FileTop(d) + PendingWrite(d) + n <= MaxSize

\* The file positions a transfer of n bytes at the open file's offset
\* moves over (none for the console and for directories).
Moved(o, n) == IF ofd[o].obj \in Paged /\ n > 0
               THEN ofd[o].pos .. ofd[o].pos + n - 1 ELSE {}

\* Apply a transfer result r to open file o and the file size.
Apply(o, r) ==
    /\ ofd' = [ofd EXCEPT ![o].pos = r.pos]
    /\ fsize' = IF ofd[o].obj \in Paged
                THEN [fsize EXCEPT ![ofd[o].obj] = r.size] ELSE fsize

Init ==
    /\ fdt = [fd \in Fds |->
                 IF fd < StdFds THEN [ofd |-> 0, acc |-> "RDWR", cloexec |-> FALSE]
                 ELSE NoDesc]
    /\ ofd = [o \in OfdIds |-> IF o = 0 THEN [obj |-> Tty, pos |-> 0]
                                        ELSE [obj |-> None, pos |-> 0]]
    /\ nopen = 0
    /\ fsize \in [Paged -> 0 .. MaxSize]
    /\ pc = [t \in Threads |-> Idle]
    /\ span = [t \in Threads |-> {}]
    /\ setfd = [fd \in Fds |-> None]
    /\ ev = NoEvent
    /\ panicked = FALSE

(***************************************************************************)
(* Handlers                                                                *)
(***************************************************************************)

\* A synchronous handler completes call with result ret; readv/writev
\* state, the history of the file positions and the panic flag unchanged.
DoneWith(t, call, fd, arg, flag, ret) ==
    /\ ev' = Event(t, call, fd, arg, flag, ret)
    /\ UNCHANGED << pc, span, panicked >>

Done(t, call, fd, arg, ret) == DoneWith(t, call, fd, arg, FALSE, ret)

\* A handler that returns ret and changes no state.
Answer(t, call, fd, arg, err) ==
    /\ Done(t, call, fd, arg, err)
    /\ UNCHANGED << fdt, ofd, nopen, fsize, setfd >>

\* path.starts_with('/')
Absolute(path) == path # << >> /\ Head(path) = Sep

\* Mutant: the AT_FDCWD test comes before the absolute-path test.
StartDirCwdFirst(dir_fd, path) ==
    CASE dir_fd = AT_FDCWD            -> Cwd
      [] Absolute(path)               -> Root
      [] fdt[dir_fd] = NoDesc         -> EBADF
      [] ~IsDirObj(ObjOf(fdt[dir_fd])) -> ENOTDIR
      [] OTHER                        -> ObjOf(fdt[dir_fd])

\* resolve_path_with_dir_fd(dir_fd, path) up to the walk: the start
\* directory, or its error.  An absolute path ignores dir_fd; AT_FDCWD
\* starts at the cwd; otherwise the slot must hold a directory.
StartDir(dir_fd, path) ==
    CASE Absolute(path)               -> Root
      [] dir_fd = AT_FDCWD            -> Cwd
      [] fdt[dir_fd] = NoDesc         -> EBADF
      [] ~IsDirObj(ObjOf(fdt[dir_fd])) -> ENOTDIR
      [] OTHER                        -> ObjOf(fdt[dir_fd])

\* path_walk of every path from every dentry, computed once: the tree
\* never changes.
Walked == [d \in Dentries, path \in OpenPaths \cup {<< >>} |-> PathWalk(d, path)]

\* resolve_path_with_dir_fd(dir_fd, path): path_walk from the start
\* directory.
Resolve(dir_fd, path) ==
    IF StartDir(dir_fd, path) \in Dentries
    THEN Walked[StartDir(dir_fd, path), path]
    ELSE [err |-> StartDir(dir_fd, path), dir |-> NoEntry, last |-> << >>]

\* The dentry of the last component in its directory (lookup).
Target(p2i) == IF p2i.err = NoErr THEN Lookup(p2i.dir, p2i.last) ELSE NoEntry

\* The error of sys_openat for an existing entry, or None.
OpenExistingError(target, fl) ==
    CASE fl.create /\ fl.excl                        -> EEXIST
      [] IsDir(target) /\ fl.acc # "RDONLY"         -> EISDIR
      [] ~IsDir(target) /\ fl.directory             -> ENOTDIR
      [] OTHER                                      -> None

\* A todo!(): the kernel panics and the call never returns.
Panic ==
    /\ panicked' = TRUE
    /\ ev' = NoEvent
    /\ UNCHANGED << fdt, ofd, nopen, fsize, pc, span, setfd >>

\* sys_openat(dir_fd, path, flags): OpenFlags::from_bits, which fails on
\* an undefined bit, and the ASYNC/DSYNC test both end in todo!(); then
\* path resolution, the lookup of the last component, and a new open file
\* added at the smallest unused fd.
Openat(t, dir_fd, path, fl) ==
    LET p2i    == Resolve(dir_fd, path)
        target == Target(p2i)
        Ans(e) == Answer(t, "openat", dir_fd, path, e)
    IN
    \* todo!("[low] unsupported OpenFlags") / todo!("[low] unsupported openflags")
    \/ /\ fl.unsupported \in UnsupportedFlags
       /\ Panic
    \/ /\ fl.unsupported = "none" /\ p2i.err # NoErr
       /\ Ans(p2i.err)
    \/ /\ fl.unsupported = "none" /\ p2i.err = NoErr /\ target # NoEntry
       /\ OpenExistingError(target, fl) # None
       /\ Ans(OpenExistingError(target, fl))
    \/ /\ fl.unsupported = "none" /\ p2i.err = NoErr /\ target # NoEntry
       /\ OpenExistingError(target, fl) = None
       /\ nopen < MaxOpens /\ Used # Fds
       /\ LET o == nopen + 1
              fd == FdTableAdd
          IN  /\ nopen' = o
              /\ ofd' = [ofd EXCEPT ![o] = [obj |-> target, pos |-> 0]]
              /\ fdt' = [fdt EXCEPT ![fd] = [ofd |-> o, acc |-> fl.acc,
                                              cloexec |-> fl.cloexec]]
              /\ setfd' = [setfd EXCEPT ![fd] = None]
              /\ Done(t, "openat", dir_fd, path, fd)
       /\ UNCHANGED fsize
    \/ /\ fl.unsupported = "none" /\ p2i.err = NoErr /\ target = NoEntry
       /\ ~fl.create
       /\ Ans(ENOENT)
    \* todo!("[mid] openat create file")
    \/ /\ fl.unsupported = "none" /\ p2i.err = NoErr /\ target = NoEntry
       /\ fl.create
       /\ Panic

\* sys_close(fd): remove the slot, EBADF if it was empty.
Close(t, fd) ==
    \/ /\ fdt[fd] = NoDesc
       /\ Answer(t, "close", fd, 0, EBADF)
    \/ /\ fdt[fd] # NoDesc
       /\ fdt' = [fdt EXCEPT ![fd] = NoDesc]
       /\ setfd' = [setfd EXCEPT ![fd] = None]
       /\ Done(t, "close", fd, 0, 0)
       /\ UNCHANGED << ofd, nopen, fsize >>

\* Mutant: dup3 ignores the CLOEXEC flag.
Dup3NoCloexec(t, old, new, flags) ==
    \/ /\ flags = "unknown"
       /\ Panic
    \/ /\ flags # "unknown" /\ fdt[old] = NoDesc
       /\ Answer(t, "dup3", old, new, EBADF)
    \/ /\ flags # "unknown" /\ fdt[old] # NoDesc /\ old = new
       /\ Answer(t, "dup3", old, new, EINVAL)
    \/ /\ flags # "unknown" /\ fdt[old] # NoDesc /\ old # new
       /\ fdt' = [fdt EXCEPT ![new] = fdt[old]]
       /\ setfd' = [setfd EXCEPT ![new] = None]
       /\ DoneWith(t, "dup3", old, new, flags = "cloexec", new)
       /\ UNCHANGED << ofd, nopen, fsize >>

\* sys_dup3(old_fd, new_fd, flags): flags is "none", "cloexec" or
\* "unknown" (a bit OpenFlags does not define), on which from_bits fails
\* and todo!() panics.  The lookup of old_fd comes before the
\* old_fd == new_fd test; the clone keeps old_fd's flags and gains
\* CLOEXEC if flags has it; insert replaces slot new_fd.
Dup3(t, old, new, flags) ==
    \/ /\ flags = "unknown"
       /\ Panic
    \/ /\ flags # "unknown" /\ fdt[old] = NoDesc
       /\ Answer(t, "dup3", old, new, EBADF)
    \/ /\ flags # "unknown" /\ fdt[old] # NoDesc /\ old = new
       /\ Answer(t, "dup3", old, new, EINVAL)
    \/ /\ flags # "unknown" /\ fdt[old] # NoDesc /\ old # new
       /\ fdt' = [fdt EXCEPT ![new] =
                     [fdt[old] EXCEPT !.cloexec = IF flags = "cloexec" THEN TRUE ELSE @]]
       /\ setfd' = [setfd EXCEPT ![new] = None]
       /\ DoneWith(t, "dup3", old, new, flags = "cloexec", new)
       /\ UNCHANGED << ofd, nopen, fsize >>

\* Mutant: F_SETFD sets the bit for any non-zero arg.
SetCloexecNonZero(d, arg) == [d EXCEPT !.cloexec = (arg # 0)]

\* F_SETFD: the close-on-exec bit becomes arg & 1.
SetCloexec(d, arg) == [d EXCEPT !.cloexec = (arg % 2 = 1)]

\* sys_fcntl64(fd, cmd, arg).  Unknown commands fail with EINVAL before
\* the fd is looked at.
Fcntl64(t, fd, cmd, arg) ==
    \/ /\ cmd \notin {F_DUPFD, F_DUPFD_CLOEXEC, F_GETFD, F_SETFD}
       /\ Answer(t, "fcntl64", fd, cmd, EINVAL)
    \/ /\ cmd \in {F_DUPFD, F_DUPFD_CLOEXEC, F_GETFD, F_SETFD}
       /\ fdt[fd] = NoDesc
       /\ Answer(t, "fcntl64", fd, cmd, EBADF)
    \/ /\ cmd \in {F_DUPFD, F_DUPFD_CLOEXEC} /\ fdt[fd] # NoDesc
       /\ \E fd2 \in Fds \ Used : fd2 >= arg
       /\ LET new == FdTableAddFrom(arg)
              d   == IF cmd = F_DUPFD_CLOEXEC
                     THEN [fdt[fd] EXCEPT !.cloexec = TRUE] ELSE fdt[fd]
          IN  /\ fdt' = [fdt EXCEPT ![new] = d]
              /\ setfd' = [setfd EXCEPT ![new] = None]
              /\ Done(t, "fcntl64", fd, cmd, new)
       /\ UNCHANGED << ofd, nopen, fsize >>
    \/ /\ cmd = F_GETFD /\ fdt[fd] # NoDesc
       /\ Answer(t, "fcntl64", fd, cmd, IF fdt[fd].cloexec THEN 1 ELSE 0)
    \/ /\ cmd = F_SETFD /\ fdt[fd] # NoDesc
       /\ fdt' = [fdt EXCEPT ![fd] = SetCloexec(@, arg)]
       /\ setfd' = [setfd EXCEPT ![fd] = arg % 2]
       /\ Done(t, "fcntl64", fd, cmd, 0)
       /\ UNCHANGED << ofd, nopen, fsize >>

\* sys_ioctl(fd, request, argp): EBADF, ENOTTY unless a character device,
\* then the device's ioctl (the console's: 0).
Ioctl(t, fd) ==
    Answer(t, "ioctl", fd, 0,
         CASE fdt[fd] = NoDesc        -> EBADF
           [] ObjOf(fdt[fd]) # Tty    -> ENOTTY
           [] OTHER                   -> 0)

\* sys_getdents64(fd, buf): EBADF unless the slot holds a directory; the
\* entries written (their count abstracted to 0) change no state here.
Getdents64(t, fd) ==
    Answer(t, "getdents64", fd, 0,
         IF fdt[fd] = NoDesc \/ ~IsDirObj(ObjOf(fdt[fd])) THEN EBADF ELSE 0)

\* The data_len of the inode behind obj.  Only the regular files' sizes are
\* state here; the directories' and the console's are taken as 0.
DataLen(obj) == IF obj \in Paged THEN fsize[obj] ELSE 0

\* StatMode::from(meta.mode()) (fs/inode.rs): InodeMode::Dir, Regular
\* and CharDevice become StatMode::DIR, REGULAR and CHAR_DEVICE.
StatModeOf(obj) ==
    CASE IsDirObj(obj) -> "DIR" [] obj = Tty -> "CHAR_DEVICE" [] OTHER -> "REGULAR"

\* Mutant: st_blocks is st_size / st_blksize rounded down.
StatFromMetaFloor(obj) ==
    [ino    |-> obj,
     mode   |-> StatModeOf(obj),
     size   |-> DataLen(obj),
     blocks |-> DataLen(obj) \div BLOCK_SIZE]

\* stat_from_meta (fs/mod.rs): the fields that depend on the inode.  The
\* inode number is the inode's identity (obj); st_dev, st_nlink, st_uid,
\* st_gid, st_rdev are constants and the times are not modelled.
\* st_blocks = st_size.div_ceil(st_blksize).
StatFromMeta(obj) ==
    [ino    |-> obj,
     mode   |-> StatModeOf(obj),
     size   |-> DataLen(obj),
     blocks |-> (DataLen(obj) + BLOCK_SIZE - 1) \div BLOCK_SIZE]

\* sys_newfstatat(dir_fd, path, statbuf, flags): an empty path needs
\* AT_EMPTY_PATH and stats the open file in slot dir_fd (fd_table.get, so
\* AT_FDCWD is EBADF); otherwise the path is resolved and its last
\* component looked up.  On success statbuf receives stat_from_meta.
Newfstatat(t, dir_fd, path, atEmpty) ==
    LET p2i == Resolve(dir_fd, path)
        err == CASE path = << >> /\ ~atEmpty                        -> ENOENT
                 [] path = << >> /\ (dir_fd = AT_FDCWD \/ fdt[dir_fd] = NoDesc) -> EBADF
                 [] path = << >>                                    -> 0
                 [] p2i.err # NoErr                                 -> p2i.err
                 [] Target(p2i) = NoEntry                           -> ENOENT
                 [] OTHER                                           -> 0
        obj == IF path = << >> THEN ObjOf(fdt[dir_fd]) ELSE Target(p2i)
    IN  /\ ev' = [Event(t, "newfstatat", dir_fd, path, FALSE, err) EXCEPT
                     !.out = IF err = 0 THEN StatFromMeta(obj) ELSE None]
        /\ UNCHANGED << fdt, ofd, nopen, fsize, setfd, pc, span, panicked >>

\* Mutant: prepare_io tests the write permission for a read and the read
\* permission for a write.
PrepareIoSwapped(fd, read) ==
    CASE fdt[fd] = NoDesc                       -> EBADF
      [] (read /\ Writable(fdt[fd])) \/ (~read /\ Readable(fdt[fd])) -> None
      [] OTHER                                  -> EBADF

\* prepare_io::<READ>(fd): EBADF unless the slot holds a descriptor that
\* is readable (READ) or writable (not READ); else None (the clone).
PrepareIo(fd, read) ==
    CASE fdt[fd] = NoDesc                       -> EBADF
      [] (read /\ Readable(fdt[fd])) \/ (~read /\ Writable(fdt[fd])) -> None
      [] OTHER                                  -> EBADF

\* The transfer of len bytes through open file o.
Transfer(o, read, len) == IF read THEN FileRead(o, len) ELSE FileWrite(o, len)

\* sys_read(fd, buf) and sys_write(fd, buf) with a buffer of len bytes:
\* prepare_io, then one await of the file's read or write.
ReadWrite(t, fd, read, len) ==
    LET call == IF read THEN "read" ELSE "write"
    IN
    \/ /\ PrepareIo(fd, read) # None
       /\ Answer(t, call, fd, len, PrepareIo(fd, read))
    \/ /\ PrepareIo(fd, read) = None
       /\ LET o == fdt[fd].ofd
              r == Transfer(o, read, len)
          IN  /\ ~read => WriteFits(o, len)
              /\ Apply(o, r)
              /\ Done(t, call, fd, len, r.ret)
       /\ UNCHANGED << fdt, nopen, setfd >>

\* sys_readv / sys_writev up to the loop: prepare_io, and Ok(0) at once
\* for an empty iovec.  Otherwise the thread keeps the cloned descriptor's
\* open file and its buffers, and goes on in VectorStep.
VectorBegin(t, fd, read, iov) ==
    LET call == IF read THEN "readv" ELSE "writev"
    IN
    \/ /\ PrepareIo(fd, read) # None
       /\ Answer(t, call, fd, Len(iov), PrepareIo(fd, read))
    \/ /\ PrepareIo(fd, read) = None /\ iov = << >>
       /\ span' = [span EXCEPT ![t] = {}]
       /\ ev' = Event(t, call, fd, 0, FALSE, 0)
       /\ UNCHANGED << fdt, ofd, nopen, fsize, pc, setfd, panicked >>
    \/ /\ PrepareIo(fd, read) = None /\ iov # << >>
       /\ ~read => WriteFits(fdt[fd].ofd, SumFunction(iov))
       /\ pc' = [pc EXCEPT ![t] = [op |-> call, ofd |-> fdt[fd].ofd, iov |-> iov,
                                   tot |-> 0, short |-> FALSE]]
       /\ span' = [span EXCEPT ![t] = {}]
       /\ ev' = NoEvent
       /\ UNCHANGED << fdt, ofd, nopen, fsize, setfd, panicked >>

\* One iteration of the readv/writev loop, resumed after the previous
\* buffer's await: the next buffer's read or write.  An error returns it
\* (the bytes already moved are dropped), 0 bytes breaks the loop, and
\* the last buffer ends the call with the total.
VectorStep(t) ==
    LET p    == pc[t]
        read == p.op = "readv"
        len  == Head(p.iov)
        r    == Transfer(p.ofd, read, len)
        tot  == p.tot + r.ret
        ret  == CASE r.ret < 0 -> r.ret [] r.ret = 0 -> p.tot [] OTHER -> tot
        last == r.ret <= 0 \/ Tail(p.iov) = << >>
    IN
    /\ p.op \in {"readv", "writev"}
    /\ Apply(p.ofd, r)
    /\ span' = [span EXCEPT ![t] = @ \cup Moved(p.ofd, r.ret)]
    /\ pc' = [pc EXCEPT ![t] =
                 IF last THEN Idle
                 ELSE [p EXCEPT !.iov = Tail(p.iov), !.tot = tot,
                                !.short = (r.ret < len)]]
    /\ ev' = IF last THEN Event(t, p.op, 0, 0, FALSE, ret) ELSE NoEvent
    /\ UNCHANGED << fdt, nopen, setfd, panicked >>

\* sys_readv(fd, iovec) and sys_writev(fd, iovec): the same steps, with
\* prepare_io::<true> and file.read, or prepare_io::<false> and file.write.
ReadvBegin(t, fd, iov) == VectorBegin(t, fd, TRUE, iov)
WritevBegin(t, fd, iov) == VectorBegin(t, fd, FALSE, iov)
ReadvStep(t) == pc[t].op = "readv" /\ VectorStep(t)
WritevStep(t) == pc[t].op = "writev" /\ VectorStep(t)

\* After a kernel panic nothing runs.
Halted ==
    /\ panicked
    /\ UNCHANGED vars

DirFds == Fds \cup {AT_FDCWD}
PlainOpen == [acc |-> "RDONLY", create |-> FALSE, excl |-> FALSE,
              directory |-> FALSE, cloexec |-> FALSE, unsupported |-> "none"]
Iovecs == UNION {[1 .. n -> BufLens] : n \in 0 .. MaxIov}

\* The flags worth trying after the walk p2i: with an unsupported bit,
\* which is refused before the walk, one set; one set when the walk
\* failed, CREATE or not for a missing entry, and DIRECTORY only for a
\* regular file.
FlagChoices(p2i) ==
    LET target == Target(p2i)
    IN  {[PlainOpen EXCEPT !.unsupported = u] : u \in UnsupportedFlags} \cup
        (CASE p2i.err # NoErr   -> {PlainOpen}
          [] target = NoEntry  -> {[PlainOpen EXCEPT !.create = c] : c \in BOOLEAN}
          [] IsDir(target)     -> {fl \in OpenFlagSet : ~fl.directory}
          [] OTHER             -> OpenFlagSet)

\* A system call by thread t, which is not inside a readv/writev.
Syscall(t, call) ==
    /\ ~panicked
    /\ pc[t].op = "idle"
    /\ CASE call = "openat" ->
              \E dir_fd \in DirFds, path \in OpenPaths :
                  \* inputs that the handler ignores take one value
                  /\ Absolute(path) => dir_fd = AT_FDCWD
                  /\ \E fl \in FlagChoices(Resolve(dir_fd, path)) :
                        Openat(t, dir_fd, path, fl)
         [] call = "close" -> \E fd \in Fds : Close(t, fd)
         [] call = "dup3" ->
              \E old, new \in Fds, flags \in {"none", "cloexec", "unknown"} :
                  Dup3(t, old, new, flags)
         [] call = "fcntl64" ->
              \E fd \in Fds, cmd \in FcntlCmds, arg \in Fds :
                  /\ cmd \in {F_GETFD, 3} => arg = 0
                  /\ cmd = 3 => fd = 0
                  /\ Fcntl64(t, fd, cmd, arg)
         [] call = "ioctl" -> \E fd \in Fds : Ioctl(t, fd)
         [] call = "getdents64" -> \E fd \in Fds : Getdents64(t, fd)
         [] call = "newfstatat" ->
              \E dir_fd \in DirFds, path \in OpenPaths \cup {<< >>}, atEmpty \in BOOLEAN :
                  \* inputs that the handler ignores take one value
                  /\ Absolute(path) => dir_fd = AT_FDCWD
                  /\ path # << >> => atEmpty
                  /\ Newfstatat(t, dir_fd, path, atEmpty)
         [] call \in {"read", "write"} ->
              \E fd \in Fds, len \in BufLens : ReadWrite(t, fd, call = "read", len)
         [] call = "readv" -> \E fd \in Fds, iov \in Iovecs : ReadvBegin(t, fd, iov)
         [] call = "writev" -> \E fd \in Fds, iov \in Iovecs : WritevBegin(t, fd, iov)

Next ==
    \/ \E t \in Threads, call \in Calls : Syscall(t, call)
    \/ \E t \in Threads : ~panicked /\ (ReadvStep(t) \/ WritevStep(t))
    \/ Halted

Spec == Init /\ [][Next]_vars

(***************************************************************************)
(* Properties                                                              *)
(***************************************************************************)

TypeOK ==
    /\ fdt \in [Fds -> Desc \cup {NoDesc}]
    /\ ofd \in [OfdIds -> [obj : Dentries \cup {Tty, None}, pos : 0 .. MaxSize]]
    /\ nopen \in 0 .. MaxOpens
    /\ fsize \in [Paged -> 0 .. MaxSize]
    /\ \A t \in Threads : pc[t].op \in {"idle", "readv", "writev"}
    /\ span \in [Threads -> SUBSET (0 .. MaxSize - 1)]
    /\ setfd \in [Fds -> {None, 0, 1}]
    /\ panicked \in BOOLEAN

\* dup3(a, b, flags) and fcntl64(a, F_DUPFD[_CLOEXEC], arg) leave slot a as
\* it was and give the new slot a descriptor of a's open file, with a's
\* access mode, whose close-on-exec bit is set if the call asked for it
\* (spec 7, property 5; scenario E).  F_DUPFD's new fd is the smallest
\* unused one >= arg.
DupSharesOpenFile ==
    [][ LET e == ev'
            cloexecAsked == \/ e.call = "dup3" /\ e.flag
                            \/ e.call = "fcntl64" /\ e.arg = F_DUPFD_CLOEXEC
            isDup == \/ e.call = "dup3"
                     \/ e.call = "fcntl64" /\ e.arg \in {F_DUPFD, F_DUPFD_CLOEXEC}
        IN  isDup /\ e.ret >= 0 =>
              /\ e.ret # e.fd
              /\ fdt'[e.fd] = fdt[e.fd]
              /\ fdt'[e.ret].ofd = fdt[e.fd].ofd
              /\ fdt'[e.ret].acc = fdt[e.fd].acc
              /\ cloexecAsked => fdt'[e.ret].cloexec
              /\ e.call = "fcntl64" => fdt[e.ret] = NoDesc
      ]_vars

\* fcntl64(fd, F_GETFD) reflects the most recent F_SETFD on that fd (spec
\* 7, property 6), whatever other threads did to other slots or to the
\* open file in between, as long as the slot was not closed or replaced.
GetfdReflectsSetfd ==
    [][ LET e == ev'
        IN  e.call = "fcntl64" /\ e.arg = F_GETFD /\ e.ret >= 0
            /\ setfd[e.fd] # None => e.ret = setfd[e.fd]
      ]_vars

\* The error codes of the section 6 table: close of an unused fd, read or
\* write on an fd missing or lacking the access, getdents64 on anything but
\* a directory return EBADF, and ioctl on an open non-character device
\* returns ENOTTY; and only in those cases.
FdErrorsMatchSpec ==
    [][ LET e == ev'
            d == fdt[e.fd]
        IN  /\ e.call = "close" => (e.ret = EBADF <=> d = NoDesc)
            /\ e.call = "read" =>
                 (e.ret = EBADF <=> d = NoDesc \/ ~Readable(d))
            /\ e.call = "write" =>
                 (e.ret = EBADF <=> d = NoDesc \/ ~Writable(d))
            /\ e.call = "getdents64" =>
                 (e.ret = EBADF <=> d = NoDesc \/ ~IsDirObj(ObjOf(d)))
            /\ e.call = "ioctl" =>
                 (e.ret = ENOTTY <=> d # NoDesc /\ ObjOf(d) # Tty)
      ]_vars

\* A successful openat opens the dentry that the path's names lead to, from
\* the root for an absolute path, from the cwd for AT_FDCWD, and from the
\* directory open in dir_fd otherwise (sections 4.4 and 6).
OpenatOpensNamedEntry ==
    [][ LET e == ev'
            from == CASE Absolute(e.arg)    -> Root
                      [] e.fd = AT_FDCWD    -> Cwd
                      [] OTHER              -> ObjOf(fdt[e.fd])
        IN  e.call = "openat" /\ e.ret >= 0 =>
              ofd'[fdt'[e.ret].ofd].obj = Descend(from, Words(e.arg))
      ]_vars

\* A successful newfstatat describes the entry the call names: with an
\* empty path and AT_EMPTY_PATH the file open in slot dir_fd, otherwise the
\* dentry the path's names lead to from the root, the cwd or the directory
\* open in dir_fd (sections 4.4 and 6); its st_size is that file's
\* data_len as the writes so far left it, and st_blocks the number of
\* st_blksize blocks that hold st_size bytes, rounded up (stat_from_meta).
StatReportsNamedEntry ==
    [][ LET e    == ev'
            obj  == CASE e.arg = << >>      -> ObjOf(fdt[e.fd])
                      [] Absolute(e.arg)    -> Descend(Root, Words(e.arg))
                      [] e.fd = AT_FDCWD    -> Descend(Cwd, Words(e.arg))
                      [] OTHER              -> Descend(ObjOf(fdt[e.fd]), Words(e.arg))
            size == IF obj \in Paged THEN fsize[obj] ELSE 0
        IN  e.call = "newfstatat" /\ e.ret = 0 =>
              /\ e.out.ino = obj
              /\ e.out.size = size
              /\ e.out.blocks * BLOCK_SIZE >= size
              /\ (e.out.blocks - 1) * BLOCK_SIZE < size \/ e.out.blocks = 0
      ]_vars

\* readv stops at a short read (section 6 table): once a buffer was filled
\* only in part, the call moves over no more bytes.
ReadvStopsOnShortRead ==
    [][ \A t \in Threads :
          pc[t].op = "readv" /\ pc[t].short => span'[t] = span[t] ]_vars

\* No system call reaches a todo!(): openat with CREATE of a missing file
\* creates it (spec 6, scenario A) instead of panicking the kernel, and
\* flags it does not support (an undefined bit, ASYNC, DSYNC) are refused
\* or ignored, not a kernel panic.
NoKernelPanic == ~panicked

====
