--------------------------- MODULE MC_PagedInode ---------------------------
(***************************************************************************)
(* Model-checking instance of PagedInode.  Pages of 4 bytes, sectors of 2  *)
(* (two sectors per page, as 4096/512 gives eight) and one sector per      *)
(* cluster, so a page spans two clusters, the chain can end in the middle  *)
(* of a page, and a file whose chain fills whole pages exists.  A file of  *)
(* at most 8 bytes (two pages) and buffers of at most 3 bytes let a write  *)
(* cover a page boundary, a part of a page, and reach past the end.        *)
(***************************************************************************)
EXTENDS PagedInode

MC_PAGE_SIZE == 4
MC_SECTOR_SIZE == 2
MC_SECTOR_PER_CLUSTER == 1
MC_MaxLen == 8
MC_MaxIo == 3
MC_MaxClusters == 4

=============================================================================
