------------------------------ MODULE PathWalk ------------------------------
(***************************************************************************)
(* path_walk and find_file (src/crates/kernel/src/fs/mod.rs) over a fixed  *)
(* dentry tree.                                                            *)
(*                                                                         *)
(* A path is a sequence of tokens: the separator Sep or a name.  A name is *)
(* an indivisible model value, so a component is a sequence of names: one *)
(* name, or several run together (a name no directory holds), or none     *)
(* (the empty component between two separators).                          *)
(*                                                                         *)
(* DEntryDir::lookup (fs/dentry.rs) is not in this source tree; it is      *)
(* modelled from the specification (4.4) as the directory's child of that *)
(* name, and no child for any other component.                            *)
(***************************************************************************)
EXTENDS Integers, Sequences
LOCAL INSTANCE SequencesExt

CONSTANTS
    Names,      \* component names
    Dentries,   \* the dentries of the tree
    IsDir(_),   \* IsDir(d): d is a DEntry::Dir (else DEntry::Paged)
    Child(_, _),\* Child(d, n): the child of directory d named n, or NoEntry
    NoEntry,    \* no dentry
    Sep,        \* the character '/'
    Dot,        \* the component "."
    NoErr       \* no error

ENOENT == -2
ENOTDIR == -20

Tokens == {Sep} \cup Names

\* DEntryDir::lookup(name): a child only for a single-name component.
Lookup(d, comp) == IF Len(comp) = 1 THEN Child(d, comp[1]) ELSE NoEntry

\* str::trim_start_matches('/') and trim_end_matches('/'): every leading
\* (trailing) separator is removed.
RECURSIVE TrimStart(_)
TrimStart(p) == IF p # << >> /\ Head(p) = Sep THEN TrimStart(Tail(p)) ELSE p

RECURSIVE TrimEnd(_)
TrimEnd(p) == IF p # << >> /\ Last(p) = Sep THEN TrimEnd(Front(p)) ELSE p

\* str::split('/'): the components between separators; one (empty)
\* component for the empty string.
RECURSIVE Split(_)
Split(p) ==
    LET i == SelectInSeq(p, LAMBDA x : x = Sep)
    IN  IF i = 0 THEN << p >>
        ELSE << SubSeq(p, 1, i - 1) >> \o Split(SubSeq(p, i + 1, Len(p)))

\* Mutant: the loop looks every component up in the start directory
\* (ret.dir is never advanced).
RECURSIVE WalkFromNoDescend(_, _)
WalkFromNoDescend(dir, comps) ==
    IF Len(comps) = 1
    THEN [err |-> NoErr, dir |-> dir, last |-> comps[1]]
    ELSE LET next == Lookup(dir, Head(comps))
         IN  CASE next = NoEntry -> [err |-> ENOENT, dir |-> dir, last |-> << >>]
               [] ~IsDir(next)   -> [err |-> ENOTDIR, dir |-> dir, last |-> << >>]
               [] OTHER          -> WalkFromNoDescend(dir, Tail(comps))

\* The for loop of path_walk from directory dir: each component but the
\* last must name a directory to descend into; the last is kept.
RECURSIVE WalkFrom(_, _)
WalkFrom(dir, comps) ==
    IF Len(comps) = 1
    THEN [err |-> NoErr, dir |-> dir, last |-> comps[1]]
    ELSE LET next == Lookup(dir, Head(comps))
         IN  CASE next = NoEntry -> [err |-> ENOENT, dir |-> dir, last |-> << >>]
               [] ~IsDir(next)   -> [err |-> ENOTDIR, dir |-> dir, last |-> << >>]
               [] OTHER          -> WalkFrom(next, Tail(comps))

\* path_walk(start_dir, path): the directory of the last component and
\* that component, or the error of the first failing one.
PathWalk(start_dir, p) ==
    LET comps == Split(TrimEnd(TrimStart(p)))
    IN  IF comps = << >>
        THEN [err |-> NoErr, dir |-> start_dir, last |-> Dot]
        ELSE WalkFrom(start_dir, comps)

\* find_file(start_dir, path): the dentry of the last component, or the
\* error (ENOENT if the last component is not in its directory).
FindFile(start_dir, p) ==
    LET p2i == PathWalk(start_dir, p)
        d   == IF p2i.last = Dot THEN NoEntry ELSE Lookup(p2i.dir, p2i.last)
    IN  CASE p2i.err # NoErr -> p2i.err
          [] d = NoEntry     -> ENOENT
          [] OTHER           -> d

(***************************************************************************)
(* Reference definitions                                                   *)
(***************************************************************************)
\* The names of a path, in order, without its separators.
Words(p) == SelectSeq(p, LAMBDA x : x # Sep)

\* A plain path: at least one name, names and separators alternate.
Plain(p) == Words(p) # << >> /\ \A i \in 1 .. Len(p) - 1 : (p[i] = Sep) # (p[i + 1] = Sep)

\* The reference descent: from start, each name is looked up in the
\* dentry reached so far; a name under a regular file is ENOTDIR.
DescendStep(d, n) ==
    CASE d \in {ENOENT, ENOTDIR}  -> d
      [] ~IsDir(d)                -> ENOTDIR
      [] Child(d, n) = NoEntry    -> ENOENT
      [] OTHER                    -> Child(d, n)
Descend(d, ns) == FoldLeft(DescendStep, d, ns)

====
