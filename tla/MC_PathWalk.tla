---------------------------- MODULE MC_PathWalk ----------------------------
(***************************************************************************)
(* path_walk and find_file checked on every small argument.  The tree:    *)
(* the root holds directory a and regular file f; a holds regular file f  *)
(* and no a.  Paths of up to 5 tokens over {/, a, f} reach a missing name, *)
(* a name under a regular file, doubled, leading and trailing separators  *)
(* and names run together, from either directory.  No walk changes the   *)
(* tree, so each state is the arguments of one walk.                      *)
(***************************************************************************)
EXTENDS PathWalk
LOCAL INSTANCE SequencesExt

CONSTANTS a, f, Root, DirA, FileF, FileAF

VARIABLES
    start,      \* the start_dir argument of a walk
    path        \* the path argument

vars == << start, path >>

MC_Names == {a, f}
MC_Dentries == {Root, DirA, FileF, FileAF}
MC_IsDir(d) == d \in {Root, DirA}
MC_Child(d, n) ==
    CASE d = Root /\ n = a -> DirA
      [] d = Root /\ n = f -> FileF
      [] d = DirA /\ n = f -> FileAF
      [] OTHER             -> NoEntry

StartDirs == {Root, DirA}
MaxLen == 5
Paths == BoundedSeq(Tokens, MaxLen)

Init == start \in StartDirs /\ path \in Paths

Next == UNCHANGED vars

Spec == Init /\ [][Next]_vars

\* find_file resolves a path only to the dentry its names lead to from
\* the start directory (whatever separators surround them), and on a plain
\* path ("a", "/a/f", "a/f/") it returns exactly that dentry or the error
\* of the first failing component (section 5).
FindFileFollowsTree ==
    /\ FindFile(start, path) \in Dentries =>
          FindFile(start, path) = Descend(start, Words(path))
    /\ Plain(path) => FindFile(start, path) = Descend(start, Words(path))

\* path_walk("") walks nowhere and names "." (spec 7, property 7).
PathWalkEmptyIsDot ==
    path = << >> => PathWalk(start, path) = [err |-> NoErr, dir |-> start, last |-> Dot]

====
