---------------------------- MODULE MC_FdSyscalls ----------------------------
(***************************************************************************)
(* Bounds for checking FdSyscalls.  The main run: one thread, three fds    *)
(* with the console on fd 0, so that open, dup onto a used slot, a hole    *)
(* below a used fd and a full table all occur; one open (of the file or of *)
(* the directory); a file of at most 2 bytes; buffers of 1 or 2 bytes and  *)
(* iovecs of up to 2 buffers, so that a read is short and a readv stops    *)
(* on 0.  Handlers other than readv/writev are atomic, so a second thread  *)
(* adds no behaviour to the properties of that run.                        *)
(***************************************************************************)
EXTENDS FdSyscalls

CONSTANTS a, f, DirA, DirB, FileF

\* The tree: the root holds directory a and regular file f, a holds
\* directory a, and the cwd is the root's a.  An absolute and a relative
\* "a" name different directories; "f" exists only under the root;
\* "/f/a" has a regular file as an intermediate component; "/" has an
\* empty last component.
MC_Names == {a, f}
MC_Dentries == {Root, DirA, DirB, FileF}
MC_IsDir(d) == d \in {Root, DirA, DirB}
MC_Child(d, n) ==
    CASE d = Root /\ n = a -> DirA
      [] d = Root /\ n = f -> FileF
      [] d = DirA /\ n = a -> DirB
      [] OTHER             -> NoEntry
MC_OpenPaths == {<< f >>, << a >>, << a, Sep, f >>, << Sep, a >>, << Sep, f >>,
                 << Sep, f, Sep, a >>, << Sep >>}

MC_MaxFd == 3
MC_StdFds == 1
MC_MaxOpens == 1
MC_MaxSize == 2
MC_MaxIov == 2
\* Blocks of 2 bytes: the file sizes 0 .. 2 are zero, a part of and a
\* whole block.
MC_BLOCK_SIZE == 2

\* For the runs about readv/writev: one fd besides the console, on which
\* two threads do I/O and which can be reopened; a second open of the file, so that a
\* write through another offset can extend the file under a reader, and a
\* 3-byte file, so that a one-byte write fits between the two buffers of a
\* writev.  The run about short reads starts with no console fd, so that
\* both fds are free for two opens of the file.
MC_MaxFdIo == 2
MC_StdFdsIo == 0
MC_MaxOpensIo == 2
MC_MaxSizeIo == 3
\* The file is opened by its absolute path; no other path matters there.
MC_OpenPathsIo == {<< Sep, f >>}

\* The readv/writev runs leave out behaviours that set a close-on-exec
\* bit, which no readv or writev reads.
MC_IoConstraint ==
    \A fd \in Fds : setfd[fd] = None /\ (fdt[fd] = NoDesc \/ ~fdt[fd].cloexec)

\* States are told apart without the history variables ev and span: no
\* action reads them, and the properties of this run read only ev',
\* which each step computes from the state it leaves.
MC_View == << fdt, ofd, nopen, fsize, pc, setfd, panicked >>

\* The same, keeping span, which the readv/writev properties read.
MC_IoView == << fdt, ofd, nopen, fsize, pc, span, setfd, panicked >>

====
