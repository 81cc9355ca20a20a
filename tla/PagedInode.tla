----------------------------- MODULE PagedInode -----------------------------
(***************************************************************************)
(* A paged inode over the FAT32 file backend: PagedInode::read_at,         *)
(* write_at and get_or_init_page (src/crates/kernel/src/fs/inode.rs) with  *)
(* the page cache they fill, and FatFile::read_page as the backend.        *)
(*                                                                         *)
(* read_at and write_at are synchronous: on the kernel's single hart no    *)
(* other task runs while one of them executes (state_guard is taken with   *)
(* block_on and never contended), so each call is one action.  Its loop    *)
(* over pages is a RECURSIVE operator that follows the code's iterations.  *)
(*                                                                         *)
(* Abstracted: the a/m/c times (no property here reads them), the          *)
(* PageCache map's locks (uncontended on one hart).  A kernel panic in     *)
(* read_page ends the system: the action sets panicked and changes nothing *)
(* else, and the only step left is Halted.                                 *)
(***************************************************************************)
EXTENDS FatFile, Integers, Sequences, TLC
LOCAL INSTANCE FiniteSetsExt

CONSTANTS
    MaxLen,       \* bound on data_len: offsets and lengths stay below it
    MaxIo,        \* bound on the length of one read_at or write_at buffer
    MaxClusters,  \* bound on the length of the cluster chain
    Values,       \* the byte values a write_at stores
    NoWrite,      \* marks a position no write_at has stored a byte at
    Hole          \* the abstract file's value of a position past its end

ASSUME MaxClusters * ClusterBytes <= MaxLen

Positions == 0 .. MaxLen - 1
PageIds == 0 .. (MaxLen - 1) \div PAGE_SIZE
\* (Positions enumerated, so that TLC tests membership by equality.)
Byte == {q : q \in Positions} \cup Values \cup {Junk}
PageState == {"Invalid", "Synced", "Dirty"}

VARIABLES
    data_len,   \* InodeMetaInner::data_len
    cache,      \* PageCache: page_id -> BackedPage [state, frame]
    nclusters,  \* FatFile::clusters, its length
    panicked,   \* a kernel panic has happened
    written     \* history: the last value write_at stored at each position

vars == << data_len, cache, nclusters, panicked, written >>

(***************************************************************************)
(* Helpers                                                                 *)
(***************************************************************************)

\* A frame fresh from the allocator holds unspecified bytes.
JunkFrame == [i \in PageOffsets |-> Junk]

\* get_or_init_page: the cached page, or a new BackedPage in state Invalid.
GetOrInitPage(c, page_id) ==
    IF page_id \in DOMAIN c THEN c
    ELSE c @@ (page_id :> [state |-> "Invalid", frame |-> JunkFrame])

\* usize::next_multiple_of(PAGE_SIZE)
NextMultipleOfPage(x) == ((x + PAGE_SIZE - 1) \div PAGE_SIZE) * PAGE_SIZE

\* offset & !PAGE_OFFSET_MASK
PageFloor(x) == (x \div PAGE_SIZE) * PAGE_SIZE

\* One iteration of read_at's loop after another, from nread to read_end.
\* Returns the cache, the bytes copied out and whether read_page panicked.
RECURSIVE ReadLoop(_, _, _, _, _)
ReadLoop(c, offset, nread, read_end, out) ==
    IF nread >= read_end
    THEN [cache |-> c, out |-> out, panic |-> FALSE]
    ELSE
      LET page_id     == (offset + nread) \div PAGE_SIZE
          page_offset == (offset + nread) % PAGE_SIZE
          c1          == GetOrInitPage(c, page_id)
          load        == c1[page_id].state = "Invalid"
      IN
      IF load /\ ReadPagePanics(nclusters, page_id)
      THEN [cache |-> c1, out |-> out, panic |-> TRUE]
      ELSE
        LET page == IF load
                    THEN [state |-> "Synced",
                          frame |-> ReadPage(nclusters, c1[page_id].frame, page_id)]
                    ELSE c1[page_id]
            copy_len == Min({read_end - nread, PAGE_SIZE - page_offset})
        IN  ReadLoop([c1 EXCEPT ![page_id] = page], offset, nread + copy_len,
                     read_end,
                     out \o [i \in 1 .. copy_len |-> page.frame[page_offset + i - 1]])

\* Whether write_at reads the backend before writing into an Invalid page:
\* the code tests the page id against full_page_range, a range of BYTE
\* offsets (offset & !PAGE_OFFSET_MASK)..(offset + len).next_multiple_of().
WriteNeedsRead(page_id, curr_last_page_id, offset, len) ==
    /\ page_id <= curr_last_page_id
    /\ PageFloor(offset) <= page_id
    /\ page_id < NextMultipleOfPage(offset + len)

\* Mutant: the Invalid -> Dirty store is missing, the page stays Invalid.
WrittenPageStateNoDirty(invalid, state) == state

\* The state a page has after write_at copied into it: an Invalid page
\* becomes Dirty; a resident page is written through frame_mut() and its
\* state is not stored again.
WrittenPageState(invalid, state) == IF invalid THEN "Dirty" ELSE state

\* One iteration of write_at's loop after another, from nwrite to len.
RECURSIVE WriteLoop(_, _, _, _, _, _)
WriteLoop(c, offset, len, v, curr_last_page_id, nwrite) ==
    IF nwrite >= len
    THEN [cache |-> c, panic |-> FALSE]
    ELSE
      LET page_id     == (offset + nwrite) \div PAGE_SIZE
          page_offset == (offset + nwrite) % PAGE_SIZE
          c1          == GetOrInitPage(c, page_id)
          invalid     == c1[page_id].state = "Invalid"
          read        == invalid /\ WriteNeedsRead(page_id, curr_last_page_id, offset, len)
      IN
      IF read /\ ReadPagePanics(nclusters, page_id)
      THEN [cache |-> c1, panic |-> TRUE]
      ELSE
        LET frame0 == IF read THEN ReadPage(nclusters, c1[page_id].frame, page_id)
                      ELSE c1[page_id].frame
            state  == WrittenPageState(invalid, c1[page_id].state)
            copy_len == Min({len - nwrite, PAGE_SIZE - page_offset})
            frame  == [i \in PageOffsets |->
                          IF i \in page_offset .. page_offset + copy_len - 1
                          THEN v ELSE frame0[i]]
        IN  WriteLoop([c1 EXCEPT ![page_id] = [state |-> state, frame |-> frame]],
                      offset, len, v, curr_last_page_id, nwrite + copy_len)

(***************************************************************************)
(* Initial states: a FatFile opened from a directory entry (file size at   *)
(* most its chain's bytes) or created (one cluster, size 0), with an empty *)
(* page cache.                                                             *)
(***************************************************************************)
Init ==
    /\ nclusters \in 1 .. MaxClusters
    /\ data_len \in 0 .. nclusters * ClusterBytes
    /\ ValidFile(nclusters, data_len)
    /\ cache = [p \in {} |-> [state |-> "Invalid", frame |-> JunkFrame]]
    /\ panicked = FALSE
    /\ written = [q \in Positions |-> NoWrite]

(***************************************************************************)
(* Actions                                                                 *)
(***************************************************************************)

\* Mutant: the read is not clamped to data_len - offset.
ReadResultNoClamp(offset, len) ==
    IF offset >= data_len
    THEN [cache |-> cache, out |-> << >>, panic |-> FALSE]
    ELSE ReadLoop(cache, offset, 0, len, << >>)

\* read_at(meta, buf, offset) with buf.len() = len: the early return when
\* offset >= data_len, else the loop up to min(len, data_len - offset).
\* The bytes it copies out (field out) are its result, not state.
ReadResult(offset, len) ==
    IF offset >= data_len
    THEN [cache |-> cache, out |-> << >>, panic |-> FALSE]
    ELSE ReadLoop(cache, offset, 0, Min({len, data_len - offset}), << >>)

\* PagedInode::read_at
ReadAt(offset, len) ==
    /\ ~panicked
    /\ LET r == ReadResult(offset, len)
       IN  IF r.panic
           THEN panicked' = TRUE /\ UNCHANGED cache
           ELSE cache' = r.cache /\ UNCHANGED panicked
    /\ UNCHANGED << data_len, nclusters, written >>

\* read_file(file) (fs/mod.rs): a buffer reserved for data_len bytes,
\* then read_at(meta, out, 0), all without a suspension point.
ReadFile == ReadAt(0, data_len)

\* Mutant: the new length is added to data_len instead of taken as a max.
NewDataLenAdd(len0, end) == len0 + end

\* The data_len write_at leaves: usize::max(inner.data_len, offset + len).
NewDataLen(len0, end) == Max({len0, end})

\* PagedInode::write_at(meta, buf, offset): len bytes of value v.
WriteAt(offset, len, v) ==
    /\ ~panicked
    /\ LET r == WriteLoop(cache, offset, len, v, data_len \div PAGE_SIZE, 0)
       IN  IF r.panic
           THEN panicked' = TRUE /\ UNCHANGED << cache, data_len, written >>
           ELSE /\ cache' = r.cache
                /\ data_len' = NewDataLen(data_len, offset + len)
                /\ written' = [q \in Positions |->
                                  IF q \in offset .. offset + len - 1
                                  THEN v ELSE written[q]]
                /\ UNCHANGED panicked
    /\ UNCHANGED nclusters

\* After a kernel panic nothing runs.
Halted ==
    /\ panicked
    /\ UNCHANGED vars

Next ==
    \/ \E offset \in 0 .. MaxLen, len \in 0 .. MaxIo : ReadAt(offset, len)
    \/ \E offset \in 0 .. MaxLen, len \in 0 .. MaxIo, v \in Values :
          offset + len <= MaxLen /\ WriteAt(offset, len, v)
    \/ ReadFile
    \/ Halted

Spec == Init /\ [][Next]_vars

(***************************************************************************)
(* The file the cache presents: a position below data_len reads from its   *)
(* page's frame once the page is loaded, and otherwise from what read_page *)
(* would load.                                                             *)
(***************************************************************************)
View(q) ==
    LET p     == q \div PAGE_SIZE
        frame == IF p \in DOMAIN cache THEN cache[p].frame ELSE JunkFrame
    IN  IF p \in DOMAIN cache /\ cache[p].state # "Invalid"
        THEN frame[q % PAGE_SIZE]
        ELSE ReadPage(nclusters, frame, p)[q % PAGE_SIZE]

(***************************************************************************)
(* Properties                                                              *)
(***************************************************************************)

TypeOK ==
    /\ data_len \in 0 .. MaxLen
    /\ nclusters \in 1 .. MaxClusters
    /\ DOMAIN cache \subseteq PageIds
    /\ \A p \in DOMAIN cache :
          cache[p] \in [state : PageState, frame : [PageOffsets -> Byte]]
    /\ panicked \in BOOLEAN
    /\ written \in [Positions -> Values \cup {NoWrite}]

\* Read-your-writes across calls (spec 8.2, scenario B): every byte a
\* write_at stored and no later write_at replaced is inside data_len and is
\* what the cache presents, however many reads, page loads and writes to
\* other positions of the same pages came between.  Breaks if a write
\* leaves its page reloadable from the backend, or a read reloads a page
\* that holds written bytes.
WrittenBytesPersist ==
    \A q \in Positions :
        written[q] # NoWrite => q < data_len /\ View(q) = written[q]

\* The file the paged inode presents, as an instance of the abstract file.
AbsFile == INSTANCE File WITH
    content  <- [q \in Positions |-> IF q < data_len THEN View(q) ELSE Hole],
    size     <- data_len

\* Every read_at that can be issued now returns exactly the file's bytes of
\* its range (AbsFile!Read): its length is min(len, data_len - offset) and
\* byte i is the byte at offset + i, whether its page is resident or is
\* loaded by this very call; and read_file returns the whole file.
\* Checks the page/offset arithmetic of the loop, the clamp to data_len
\* and the load of Invalid pages.
ReadReturnsFile ==
    ~panicked =>
        \A offset \in 0 .. MaxLen, len \in (0 .. MaxIo) \cup {data_len} :
            LET r == ReadResult(offset, len)
            IN  ~r.panic => r.out = AbsFile!Read(offset, len)

\* A page in state Synced holds exactly what the backend would load for it
\* (spec 3: Dirty marks a page that differs from the backend).  A write
\* into a resident Synced page must move it to Dirty, or the future
\* write-back would skip modified data.
SyncedMatchesBackend ==
    \A p \in DOMAIN cache :
        cache[p].state = "Synced" =>
            cache[p].frame = ReadPage(nclusters, cache[p].frame, p)

\* A loaded page holds the file's own bytes: a byte of a Synced page that
\* lies inside the cluster chain and that no write replaced is the disk
\* byte of the same file position (the integer q, by the disk abstraction
\* of FatFile), whichever cluster and sector read_page took it from.
SyncedPagesHoldFileBytes ==
    \A p \in DOMAIN cache, i \in PageOffsets :
        LET q == p * PAGE_SIZE + i
        IN  (/\ cache[p].state = "Synced"
             /\ q < nclusters * ClusterBytes
             /\ written[q] = NoWrite) => cache[p].frame[i] = q

\* No sequence of read_at and write_at calls on a valid FAT32 file makes
\* read_page index past the end of the file's cluster chain.
NoKernelPanic == ~panicked

=============================================================================
