-------------------------------- MODULE File --------------------------------
(***************************************************************************)
(* What a byte-addressable (paged) inode promises its callers, whatever    *)
(* cache sits underneath: a sequence of bytes of length size, a read_at    *)
(* that returns the bytes [offset, min(offset+len, size)), a write_at that *)
(* stores its bytes and extends size to max(size, offset+len).  Bytes of   *)
(* a gap a write opens past the old end are unspecified (spec 4.2, C).     *)
(* Bytes at or past size are the constant Hole.                            *)
(***************************************************************************)
EXTENDS Integers, Sequences
LOCAL INSTANCE FiniteSetsExt

CONSTANTS
    MaxLen,    \* bound on the file length
    MaxIo,     \* bound on the length of one read or write
    Values,    \* the byte values a write stores
    Byte,      \* every value a byte of the file may hold
    Hole       \* the value of a position at or past the end of the file

VARIABLES
    content,   \* content[q]: the byte at position q
    size       \* the file length

Positions == 0 .. MaxLen - 1

vars == << content, size >>

TypeOK ==
    /\ size \in 0 .. MaxLen
    /\ content \in [Positions -> Byte \cup {Hole}]
    /\ \A q \in Positions : q >= size <=> content[q] = Hole

\* What read_at(offset, len) returns; a read changes nothing of the file.
Read(offset, len) ==
    IF offset >= size THEN << >>
    ELSE [i \in 1 .. Min({len, size - offset}) |-> content[offset + i - 1]]

\* Stated as a relation on content' rather than by choosing the gap bytes,
\* so that TLC checks it without enumerating the gap's possible contents.
WriteAt(offset, len, v) ==
    LET newSize == Max({size, offset + len})
    IN  /\ size' = newSize
        /\ \A q \in Positions :
              \/ q \in offset .. offset + len - 1 /\ content'[q] = v
              \/ q \notin offset .. offset + len - 1 /\ q < size
                    /\ content'[q] = content[q]
              \/ q \notin offset .. offset + len - 1 /\ q \in size .. newSize - 1
                    /\ content'[q] \in Byte
              \/ q >= newSize /\ content'[q] = Hole

Next ==
    \E offset \in 0 .. MaxLen, len \in 0 .. MaxIo, v \in Values :
          offset + len <= MaxLen /\ WriteAt(offset, len, v)

\* The specification as a property of a refining model: any initial file.
Spec == [][Next]_vars

=============================================================================
