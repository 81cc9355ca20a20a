# TLA+ models of the asynclear kernel core

These modules model the three subsystems the specification (`spec.md`) calls the core of the kernel:

- the single-hart cooperative executor;
- the paged-inode engine with its page cache over the FAT32 file backend;
- the file-system system calls, with the dispatch in front of them.

Each module is translated from the Rust source under `src/`. Code that is not in this tree is modelled from the specification and marked `spec_modelled` in `PROJECT.json`:

- `FdTable`;
- `FileDescriptor`;
- `PagedFile`'s offset;
- `DEntryDir::lookup`;
- the console.

`PROJECT.json` lists the components, the runs, the mutants, the source lines behind each definition (`map`), the findings and the hazards.

## The system and how its parts interact

| Part | Source | Role |
|---|---|---|
| Executor | `kernel/src/executor/mod.rs` | `TASK_QUEUE` is a bounded FIFO of `Runnable`s (capacity `TASK_LIMIT`; `push_task` panics when it is full). On every wake, `spawn_with`'s schedule closure runs `action()` and then pushes. `run_until_shutdown` drains the queue, then either returns if `SHUTDOWN` is set or calls `hart_suspend`. |
| Paged inode | `kernel/src/fs/inode.rs` | `read_at` / `write_at` go page by page through the `PageCache`. Each page is `Invalid`, `Synced` or `Dirty`. Invalid pages are loaded with the backend's `read_page`. `data_len` is in the inode metadata. |
| FAT32 file | `kernel/src/fs/fat32/file.rs` | `read_page` walks the file's cluster chain and copies the sectors of one page into a frame. `write_page` is `todo!()`. |
| Path walk | `kernel/src/fs/mod.rs` | `path_walk` trims every leading and trailing `/`, splits on `/` and descends through every component but the last with `DEntryDir::lookup`. `find_file` then looks up the last component. |
| fs syscalls | `kernel/src/syscall/fs.rs` | openat, close, dup3, fcntl64, ioctl, getdents64, newfstatat, read, write, readv, writev. They work on the process's fd table, and read/write reach the paged inode through `PagedFile`. |
| Dispatch | `kernel/src/syscall/mod.rs` | `syscall(id, args)` logs its entry with `name(id)`, then matches the id to a handler. An unmatched id ends the process with -10. `name` comes from `declare_syscall_id!` and is `unreachable!()` for an id the table does not list. |

A syscall runs inside a user thread's task on the executor. Handlers await `read`/`write`. A paged file's `read_at`/`write_at` is synchronous: its page lock is taken with `block_on` and never contended on one hart. So a single buffer transfer is atomic, and other tasks run only between the awaits of a handler.

## Modules

| Module | Models | State ↔ code |
|---|---|---|
| `FatFile` | `FatFile::page_id_to_cluster_pos`, `read_page`, `from_dir_entry`/`create` (valid files) | Operators only (no variables). Disk byte *j* of chain sector *s* is the integer `s*SECTOR_SIZE+j`, the file position it holds. A frame byte that no sector copy wrote is `Junk`. |
| `File` | The abstract file a paged inode promises (spec 4.2) | `content`, `size`; `WriteAt` is one step. `Read` is an operator. |
| `PagedInode` | `PagedInode::read_at`, `write_at`, `get_or_init_page` over `FatFile` | `data_len`, `cache` (page id → `[state, frame]`), `nclusters`, `panicked` (a `read_page` out-of-bounds index), `written` (history). Each call is one action. Its page loop is the recursive `ReadLoop` / `WriteLoop`, one recursion per loop iteration. |
| `Executor` | `TaskQueue`, `spawn_with`, `run_until_shutdown` and the async_task state they drive | `queue`, `tstate`, `polls`, `shutdown`, `hart`, `overflow` (see the first list below). |
| `PathWalk` | `path_walk`, `find_file` and `DEntryDir::lookup` (from the spec) | Operators only. A path is a sequence of tokens, each the separator `Sep` or a name (a model value). A component is a sequence of names, so an empty component or several names run together look up nothing. `TrimStart`, `TrimEnd`, `Split` and `WalkFrom` are recursive. |
| `FdSyscalls` | Every handler in `syscall/fs.rs` | `fdt` (the fd table), `ofd` (open files: dentry or console, and offset), `nopen`, `fsize` (size of each regular file of the tree), `pc` (a readv/writev between awaits), and three history variables: `span`, `setfd`, `ev` (see the second list below). Paths go through `StartDir`/`Resolve` (`resolve_path_with_dir_fd`) and `PathWalk`. |
| `SyscallDispatch` | The match of `syscall()` for the fs ids, and an undeclared id | Adds `exitCode` and the constants `LogLevel` (the build's log level) and `Pid` (see the third list below). |
| `MC_*` | Bounds for TLC | — |

In `Executor`, a poll is split in two steps:

- `RunBegin` is `fetch_task` plus `run` starting.
- `RunEnd` is the future returning. It may have woken or spawned another task, set `SHUTDOWN`, or woken itself (`yield_now`).

The other actions: `QueueEmpty` is the `SHUTDOWN` test and the suspend, and `Interrupt` ends a suspend and may wake a task.

What a wake does to a task (`Effect`) is async_task's state machine, not code of this repository. It is taken from the spec: exactly one `Runnable` per wake, and a double wake collapses. The repository's own code is the schedule closure (`Schedule`, `PushAll`), the capacity `TASK_LIMIT` of `TaskQueue::new` (`Capacity`), and the loop.

In `FdSyscalls`:

- Each handler is one action, because it does its fd-table work under the process lock without awaiting.
- readv/writev are `ReadvBegin`/`WritevBegin` (`prepare_io`), then one `ReadvStep`/`WritevStep` per buffer, because they await each buffer. The two calls share their steps (`VectorBegin`, `VectorStep`), as the two handlers share their code. That an await of a file's read/write is a suspension point, where another thread may run, is taken from spec section 5; `PagedFile` is not under `src/`.
- dup3 with a flags word that `OpenFlags::from_bits` rejects reaches `todo!()` (`Panic`) before the fd is looked up.
- openat first checks its flags: an undefined bit, or ASYNC/DSYNC, reaches `todo!()` (`Panic`) before the path is resolved.
- newfstatat writes `StatFromMeta` of the entry (the `out` field of `ev`): the inode's identity as `st_ino`, its mode, `st_size` = data_len and `st_blocks` = data_len rounded up to `BLOCK_SIZE` blocks. Only the regular files' sizes are state; directories and the console count 0.
- openat and newfstatat take a path from a small set over a fixed tree, resolve it from the root, the cwd or the directory open in `dir_fd`, and walk it with `PathWalk`.

In `SyscallDispatch`:

- `Dispatched = {read, write}`, the only fs arms not commented out.
- Any other fs id runs `exit_process(-10)`.
- `DispatchUndeclared` is a call with an id outside the table. If the entry log line is enabled, `name(id)` panics the kernel. That line is at debug level, or at trace for stdin/stdout I/O and pids 1 and 2. Otherwise the default arm ends the process with -10. `ExitNameEvaluated` is the `Ok(ret)` arm's exit log line: it is enabled under the same condition and formats `name(id)` too, so the panic condition is the disjunction of the two.

## Runs

| Run | Result | What it shows |
|---|---|---|
| `paged_inode` (`MC_PagedInode.cfg`) | pass, 6.7k states | The file the cache presents is checked four ways: `TypeOK`, `WrittenBytesPersist`, `ReadReturnsFile`, `SyncedPagesHoldFileBytes` (listed below). |
| `paged_inode_refines_file` | violation | `write_at` does not implement the abstract write. A partial write to an uncached page after page 0 skips `read_page`, because `full_page_range` is a byte range tested with a page id. |
| `paged_inode_synced_write` | violation | A write into a resident `Synced` page leaves it `Synced`. |
| `paged_inode_chain_end_panic` | violation | A write that starts inside a file whose size exactly fills its cluster chain, and ends past it, indexes `clusters` out of bounds. |
| `executor` (`MC_Executor.cfg`) | pass, 2.6k states | `TypeOK` bounds the queue by `TASK_LIMIT`: a push at the limit panics and never grows the queue. Every scheduled task runs (`ScheduledTaskRuns`), and `SHUTDOWN` makes the loop return (`ShutdownReturns`), unless the kernel has panicked on a full queue. |
| `path_walk` (`MC_PathWalk.cfg`) | pass, 728 states | `FindFileFollowsTree` on every path of up to 5 tokens from either directory (listed below). |
| `path_walk_empty` | violation | `path_walk("")` returns last component `""`, not `"."` (spec property 7). `"".split('/')` yields one empty component, so the let-else is dead. |
| `fd_syscalls` (`MC_FdSyscalls.cfg`) | pass, 377k states, about 1 min | Five properties: `OpenatOpensNamedEntry`, `StatReportsNamedEntry`, `DupSharesOpenFile`, `GetfdReflectsSetfd`, `FdErrorsMatchSpec` (listed below). |
| `openat_create` | violation | openat with CREATE on a missing file reaches `todo!()`; so do flags with an undefined bit, ASYNC or DSYNC. |
| `readv_short_read` | violation | readv continues after a short read and picks up bytes appended meanwhile. |
| `fs_syscalls_dispatched` | violation | openat, close, dup3 and the other fs ids end the process with -10. |
| `unsupported_id_debug_log` | violation | With console logging at DEBUG (`xtask build --clog DEBUG`), a call with an id missing from the table panics the kernel in `name(id)` instead of exiting with -10. |

What the passing properties check:

- In `paged_inode`:
  - `WrittenBytesPersist`: written bytes survive every later load and write.
  - `ReadReturnsFile`: every possible `read_at`, and `read_file` (a `read_at` of `data_len` bytes at 0, also an action), returns exactly the abstract file's bytes.
  - `SyncedPagesHoldFileBytes`: loaded pages hold the right disk sectors.
- In `path_walk`:
  - `FindFileFollowsTree`: `find_file` returns a dentry only if it is the one the path's names lead to, whatever separators surround them. On a plain path it returns exactly that dentry, or the error of the first failing component. The reference `Descend` folds the names over the tree.
- In `fd_syscalls`:
  - `OpenatOpensNamedEntry`: a successful openat opens the dentry its path names: from the root for an absolute path, from the cwd for AT_FDCWD, from `dir_fd`'s directory otherwise.
  - `StatReportsNamedEntry`: a successful newfstatat describes the entry it names (the open file for an empty path with AT_EMPTY_PATH), with the size the writes so far left and `st_blocks` rounded up.
  - `DupSharesOpenFile`: dup3 and F_DUPFD share the open file and honour CLOEXEC.
  - `GetfdReflectsSetfd`: F_GETFD reflects the last F_SETFD.
  - `FdErrorsMatchSpec`: the section 6 error codes are returned exactly when due.

Every property of a passing run has a mutant in `PROJECT.json`: a plausible bug in the mapped code, which TLC finds violating it.

## Bounds and why they are enough

- **PagedInode.** Pages of 4 bytes, sectors of 2, one sector per cluster, so a page spans 2 clusters.
  - Files are up to 8 bytes, in chains of up to 4 clusters.
  - Reads and writes are up to 3 bytes, so they cross a page boundary.
  - Every initial file size from 0 to the chain's capacity is enumerated, including a size that fills the chain exactly (the panic) and a chain that ends mid-page.
  - One written value suffices: which value was written is checked against the history. The value is never compared with another written value.
- **Executor.** Three tasks with `TASK_LIMIT` 2 can find the queue full, so the overflow panic is reached. A queue one slot larger (the `CapacityPlusOne` mutant) breaks `TypeOK`. Up to 3 polls per task let tasks yield and wake each other repeatedly.
- **PathWalk.** The root holds directory `a` and file `f`; `a` holds file `f`. Paths of up to 5 tokens over `{/, a, f}` (364 paths) include:
  - missing names, and a name under a regular file;
  - doubled, leading and trailing separators, and names run together.
- **FdSyscalls tree.** The root holds directory `a` and file `f`, `a` holds directory `a`, and the cwd is `/a`. So absolute and relative `a` name different directories. The paths tried are `f`, `a`, `a/f`, `/a`, `/f`, `/f/a` and `/`. Through `dir_fd`, they also give ENOENT at an intermediate component, ENOTDIR and EBADF.
- **FdSyscalls.** Three fds with the console on fd 0 give a hole below a used fd, a dup onto a used slot and a full table.
  - The run has one open, a 2-byte file, buffers of 1–2 bytes and iovecs of up to 2 buffers.
  - `BLOCK_SIZE` is 2 (the kernel takes the block device's, `drivers::qemu_block::BLOCK_SIZE`), so the sizes 0, 1 and 2 are no block, part of a block and a whole block: the cases where rounding up and down differ or agree.
  - One thread suffices for the passing run: every handler except readv/writev is atomic, and readv/writev are exercised by the violation runs with two threads (2 fds, 2 opens, a 3-byte file).
  - The passing run identifies states by a VIEW without the history variables `ev` and `span`, which no action reads; its action properties read `ev'` only.
  - The readv/writev runs add a CONSTRAINT that leaves out close-on-exec changes, which those calls never read.
  - Inputs that a handler ignores take a single value (for example the flags of an openat whose path failed to resolve).

## Fairness

Only the executor has liveness properties. On the single hart, `run_until_shutdown` always takes its next step, so `RunBegin`, `RunEnd(t)` and `QueueEmpty` are weakly fair. A poll always returns, because the futures here are bounded by `MaxPolls`. Interrupts are not fair: nothing in the code guarantees one will come. So `ScheduledTaskRuns` must hold without them: a woken task is in the queue and is drained before any suspend.

## Not modelled, and why

- **The interrupt race.** The window between the empty-queue check and `hart_suspend` is not modelled: interrupt handlers run only while suspended. The trap code that decides when interrupts are enabled is not under `src/`.
- **`block_on`:** it busy-polls, but here it only takes an uncontended page lock.
- **Inode times, `InodeMeta::new`'s inode counter, and the DirInode wrappers.** These are planned with a VFS module.
- **The VFS `Lazy` init (`fs/mod.rs`).** It mounts the root FAT32 once and prints the root's names. The tree in the models is its result.
- **readv/writev atomicity.** Not asserted: the spec lists it as a known gap. The model still has the interleaving, and `readv_short_read` shows one of its effects.
- **dup3(a, a) on an unused `a`.** It returns EBADF where the spec's table says EINVAL. The model keeps the code's order; no run asserts it (see the hazards).
- **Non-fs system calls.** Their handlers (process, thread, time) are not under `src/`.
- **The stat times, `st_dev` and the other constant `Stat` fields.** No property reads them.
- **A close or dup3 by a second thread during readv/writev (hazard at `fs.rs:81`).** readv/writev look up the descriptor once and keep the `Arc<File>` across their awaits. Checking that the transfer keeps using that file needs a second thread in the main `fd_syscalls` run. With two threads that run grows past a million states and does not finish within its time budget. The small two-thread bounds are used by `readv_short_read`, and no run slot is left for a separate instance.
- **User-pointer checks (EFAULT).** A bad pointer in a later readv/writev buffer returns EFAULT and drops the count of bytes already moved (hazard at `fs.rs:128`); the spec gives no semantics to compare with.
- **The memory module.** Constant-offset address arithmetic. Its constants (`PA_TO_VA`, `PAGE_SIZE`) are in `common::config`, which is not under `src/`.
- **Error code tables and xtask build tooling.** They have no state worth checking.
- **`write_page`:** it is `todo!()` and never called.

## Plan for later work

1. Compose `FdSyscalls` reads and writes with `PagedInode`, so that syscall-level reads return the paged file's bytes.
2. The executor running syscall tasks: user threads as tasks whose awaits are the readv/writev suspension points.
