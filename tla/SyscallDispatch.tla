--------------------------- MODULE SyscallDispatch ---------------------------
(***************************************************************************)
(* The system-call entry point (syscall in                                 *)
(* src/crates/kernel/src/syscall/mod.rs) in front of the file-system       *)
(* handlers of FdSyscalls.  The match on the id reaches a handler only for *)
(* the ids with an arm; the arms of openat, close, dup3, fcntl64, ioctl,   *)
(* getdents64, readv, writev and newfstatat are commented out, so those    *)
(* ids take the default arm: exit_process(curr_process(), -10), and the    *)
(* call returns 0.  The exit ends every thread of the process.            *)
(*                                                                         *)
(* Logging is left out except where it changes what happens: the entry    *)
(* log lines format name(id), which is unreachable!() for an id the       *)
(* declare_syscall_id! table does not list, and log::debug!/trace! format *)
(* their arguments only when the logger's level (set by the build,        *)
(* xtask build --clog) enables them.                                      *)
(***************************************************************************)
EXTENDS FdSyscalls

CONSTANTS
    LogLevel,   \* the logger's max level: 0 off, 1 error .. 4 debug, 5 trace
    Pid         \* the pid of the calling process

VARIABLE exitCode   \* the process's exit code once exit_process ran, or None

dvars == << vars, exitCode >>

\* The file-system ids the match of syscall() has an arm for.
Dispatched == {"read", "write"}

DInit == Init /\ exitCode = None

DEBUG == 4
TRACE == 5

\* The ids of the declare_syscall_id! table that name() knows: every
\* file-system id is there; Undeclared stands for an id that is not.
Undeclared == "undeclared"

\* The level of syscall()'s entry log lines for id with first argument
\* arg0: debug, or trace for stdin/stdout/stderr I/O, ppoll and pids 1, 2.
EntryLevel(id, arg0) ==
    IF /\ ~(\/ id \in {"read", "readv"} /\ arg0 = 0
            \/ id \in {"write", "writev"} /\ arg0 \in {1, 2})
       /\ Pid \notin {1, 2}
    THEN DEBUG ELSE TRACE

\* The entry log line is formatted, and name(id) evaluated.
NameEvaluated(id, arg0) == EntryLevel(id, arg0) <= LogLevel

\* The Ok(ret) arm's exit log line, under the same condition as the entry
\* line, formats name(id) too.
ExitNameEvaluated(id, arg0) == EntryLevel(id, arg0) <= LogLevel

\* syscall(id, args) for an id the table does not declare: name(id) in
\* the entry log line reaches unreachable!() if that line is enabled;
\* otherwise the default arm ends the process with exit code -10 and
\* returns Ok(0), whose exit log line would call name(id) again.
DispatchUndeclared(t) ==
    /\ exitCode = None /\ ~panicked /\ pc[t].op = "idle"
    /\ \/ /\ NameEvaluated(Undeclared, 0) \/ ExitNameEvaluated(Undeclared, 0)
          /\ panicked' = TRUE
          /\ ev' = NoEvent
          /\ UNCHANGED << fdt, ofd, nopen, fsize, pc, span, setfd, exitCode >>
       \/ /\ ~NameEvaluated(Undeclared, 0) /\ ~ExitNameEvaluated(Undeclared, 0)
          /\ exitCode' = -10
          /\ ev' = Event(t, Undeclared, 0, 0, FALSE, 0)
          /\ UNCHANGED << fdt, ofd, nopen, fsize, pc, span, setfd, panicked >>

\* syscall(id, args) for a file-system id: its handler, or the default
\* arm, which ends the process with exit code -10.  The result arms then
\* return ret, or err.as_isize(), the negative errno the handlers give;
\* their log lines format name(id) of a declared id and error_info of a
\* declared errno, which never panic.
Dispatch(t, call) ==
    /\ exitCode = None
    /\ \/ /\ call \in Dispatched
          /\ Syscall(t, call)
          /\ UNCHANGED exitCode
       \/ /\ call \notin Dispatched
          /\ ~panicked /\ pc[t].op = "idle"
          /\ exitCode' = -10
          /\ ev' = Event(t, call, 0, 0, FALSE, 0)
          /\ UNCHANGED << fdt, ofd, nopen, fsize, pc, span, setfd, panicked >>

\* The process has exited or the kernel panicked: nothing runs.
DHalted ==
    /\ exitCode # None \/ panicked
    /\ UNCHANGED dvars

DNext ==
    \/ \E t \in Threads, call \in Calls : Dispatch(t, call)
    \/ \E t \in Threads : DispatchUndeclared(t)
    \/ \E t \in Threads : exitCode = None /\ ~panicked
          /\ (ReadvStep(t) \/ WritevStep(t))
          /\ UNCHANGED exitCode
    \/ DHalted

DSpec == DInit /\ [][DNext]_dvars

\* Every file-system call of the section 6 table reaches its handler
\* (section 4.5: only unsupported ids end the process with -10), so no
\* sequence of those calls ends the calling process.
FsSyscallsServed == exitCode # None => ev.call = Undeclared

\* A system call with an unsupported id ends the calling process with exit
\* code -10 (section 4.5) and never stops the kernel, whatever the log
\* level the kernel was built with.
UnsupportedIdExits == ~panicked

====
