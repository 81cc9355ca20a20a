------------------------- MODULE MC_SyscallDispatch -------------------------
(* Bounds for SyscallDispatch: one thread, the tree and bounds of          *)
(* MC_FdSyscalls.                                                          *)
EXTENDS SyscallDispatch, MC_FdSyscalls

====
