------------------------------ MODULE FatFile ------------------------------
(***************************************************************************)
(* The FAT32 regular-file backend of a paged inode                         *)
(* (src/crates/kernel/src/fs/fat32/file.rs).                               *)
(*                                                                         *)
(* A FatFile keeps its cluster chain, resolved eagerly when the file is    *)
(* opened.  Only the length of the chain matters here: the bytes on disk  *)
(* are abstracted to their place in the chain, byte j of the chain's       *)
(* sector s reading as the integer s * SECTOR_SIZE + j, the file position  *)
(* it holds.  A frame byte that no sector copy has written holds the model *)
(* value Junk (the frame's prior contents, unspecified).                   *)
(***************************************************************************)
EXTENDS Integers

CONSTANTS
    PAGE_SIZE,           \* bytes per page (4096 in the kernel)
    SECTOR_SIZE,         \* bytes per sector (512 in the kernel)
    SECTOR_PER_CLUSTER,  \* FileAllocTable::sector_per_cluster()
    Junk                 \* the unspecified prior contents of a frame byte

ASSUME /\ SECTOR_SIZE \in Nat \ {0}
       /\ PAGE_SIZE \in Nat \ {0}
       /\ PAGE_SIZE % SECTOR_SIZE = 0
       /\ SECTOR_PER_CLUSTER \in Nat \ {0}

\* SECOTR_COUNT_PER_PAGE
SECTOR_COUNT_PER_PAGE == PAGE_SIZE \div SECTOR_SIZE

ClusterBytes == SECTOR_PER_CLUSTER * SECTOR_SIZE

\* The offsets of the bytes of one page.
PageOffsets == 0 .. PAGE_SIZE - 1

\* page_id_to_cluster_pos: the index in the chain of the cluster that holds
\* the first sector of the page, and the sector offset within that cluster.
ClusterPos(page_id) ==
    LET sector_index == page_id * SECTOR_COUNT_PER_PAGE
    IN  << sector_index \div SECTOR_PER_CLUSTER,
           sector_index % SECTOR_PER_CLUSTER >>

\* read_page indexes clusters[cluster_index] before its loop checks the chain
\* length: a page whose first sector lies past the chain is an out-of-bounds
\* index, a kernel panic.
ReadPagePanics(nclusters, page_id) == ClusterPos(page_id)[1] >= nclusters

\* Mutant: the loop never moves on to the next cluster of the chain
\* (cluster_index += 1 missing) and rereads the first cluster's sectors.
ReadPageNoAdvance(nclusters, frame, page_id) ==
    [i \in PageOffsets |->
        LET first  == page_id * SECTOR_COUNT_PER_PAGE
            sector == first - (first % SECTOR_PER_CLUSTER)
                        + (((first % SECTOR_PER_CLUSTER) + i \div SECTOR_SIZE)
                           % SECTOR_PER_CLUSTER)
        IN  IF sector \div SECTOR_PER_CLUSTER < nclusters
            THEN sector * SECTOR_SIZE + (i % SECTOR_SIZE)
            ELSE frame[i]]

\* read_page on a page that does not panic: the loop copies sector after
\* sector of the chain, starting at the page's first sector, until the page
\* is full or the chain ends.  Sector k of the page is the chain's sector
\* page_id * SECTOR_COUNT_PER_PAGE + k; it is copied iff its cluster is in
\* the chain.  A byte of an uncopied sector keeps the frame's prior value.
ReadPage(nclusters, frame, page_id) ==
    [i \in PageOffsets |->
        LET sector == page_id * SECTOR_COUNT_PER_PAGE + i \div SECTOR_SIZE
        IN  IF sector \div SECTOR_PER_CLUSTER < nclusters
            THEN sector * SECTOR_SIZE + (i % SECTOR_SIZE)
            ELSE frame[i]]

\* from_dir_entry asserts that the file size fits in its cluster chain;
\* create allocates one cluster for an empty file.
ValidFile(nclusters, file_size) ==
    /\ nclusters >= 1
    /\ file_size <= nclusters * ClusterBytes

=============================================================================
