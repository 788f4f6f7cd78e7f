-------------------------------- MODULE Names -------------------------------
(***************************************************************************)
(* How the FAT32 driver finds a file by its path (kern/fs/fat32.cpp): what *)
(* tf_fopen strips, tf_walk from directory to directory, tf_find_file from *)
(* entry to entry, and tf_compare_filename with a long name, which takes   *)
(* several entries, the last of its pieces first; and what ls lists.       *)
(*                                                                         *)
(* A name is a sequence of characters; a directory the files it has and    *)
(* had, which the entries are made from as the FAT specification says.     *)
(***************************************************************************)
EXTENDS Integers, Sequences, SequencesExt

CONSTANTS
    Capacity,   \* characters in an entry of a long name, 13 in the code
    Sub         \* the cluster of a directory in the root directory

Root == 2                   \* the root directory's cluster

ASSUME NamesAssumption == {Capacity, Sub} \subseteq Nat /\ Capacity > 0 /\ Sub > Root

Nul == "nul"
Erased == "erased"          \* 0xe5, in place of the first character
Pad == "pad"                \* 0xffff
Slash == "/"
NotThere == -1
Undefined == -2             \* the bytes of a file are taken for entries

Lower(ch) == IF ch = "A" THEN "a" ELSE ch
Same(x, y) == Len(x) = Len(y) /\ \A i \in 1..Len(x) : Lower(x[i]) = Lower(y[i])

\* the entries that n characters take
Pieces(n) == (n + Capacity - 1) \div Capacity

-----------------------------------------------------------------------------
(* The entries of a directory: a file has a long name, or none, and a      *)
(* short one.  An entry is "last" if its sequence number says that a chain *)
(* begins with it; the number of a deleted one does not.                   *)

Piece(name, k) ==
    [i \in 1..Capacity |->
        LET p == (k - 1) * Capacity + i
        IN  IF p <= Len(name) THEN name[p] ELSE IF p = Len(name) + 1 THEN Nul ELSE Pad]

EntriesOf(file) ==
    LET n == Pieces(Len(file.long))
    IN  Append([j \in 1..n |->
                  [long |-> TRUE, last |-> j = 1 /\ ~file.deleted, pieces |-> n,
                   name |-> Piece(file.long, n - j + 1)]],
               [long |-> FALSE, name |-> IF file.deleted THEN <<Erased>> ELSE file.short,
                is |-> file.is])

Directory(files) ==
    LET entries[i \in 0..Len(files)] ==
            IF i = 0 THEN <<>> ELSE entries[i - 1] \o EntriesOf(files[i])
    IN  entries[Len(files)]

-----------------------------------------------------------------------------
(* The search *)

\* up to the first slash
Component(path) ==
    LET i == SelectInSeq(path, LAMBDA ch : ch = Slash)
    IN  IF i = 0 THEN path ELSE SubSeq(path, 1, i - 1)

From(path, i) == SubSeq(path, i, Len(path))

\* reformatted_file, filled up with zeroes
Reformatted(entry, i) == IF i <= Len(entry.name) THEN entry.name[i] ELSE Nul

\* Mutant: an entry that goes on after the component is taken for it
SegmentPrefix(entry, path) ==
    LET name == Component(path)
    IN  \A i \in 1..Len(name) :
            i <= Capacity => Lower(name[i]) = Lower(Reformatted(entry, i))

\* tf_compare_filename_segment
Segment(entry, path) ==
    LET name == Component(path)
    IN  /\ \A i \in 1..Len(name) :
            i <= Capacity => Lower(name[i]) = Lower(Reformatted(entry, i))
        /\ Len(name) <= Capacity => Reformatted(entry, Len(name) + 1) = Nul

\* What tf_compare_filename says of the entry at pos, and where it goes on or, when it
\* matches, the file's short entry is.  The length of a long name is compared with that
\* of all that is left of the path.
CompareFilename(dir, pos, path) ==
    IF pos > Len(dir) THEN [says |-> "no more", pos |-> pos]
    ELSE LET e == dir[pos]
             short == pos + e.pieces
         IN  IF ~e.long
             THEN IF Segment(e, path) THEN [says |-> "match", pos |-> pos]
                  ELSE [says |-> "differs", pos |-> pos + 1]
             ELSE IF ~e.last THEN [says |-> "no more", pos |-> pos]
             ELSE IF /\ Pieces(Len(path)) = e.pieces
                     /\ \A i \in 0..(e.pieces - 1) :
                            Segment(dir[short - 1 - i], From(path, Capacity * i + 1))
                  THEN [says |-> "match", pos |-> short]
                  ELSE [says |-> "differs", pos |-> short]

\* tf_find_file: the position of the short entry, or 0
FindFile(dir, path) ==
    LET search[pos \in 1..(Len(dir) + 1)] ==
            LET r == CompareFilename(dir, pos, path)
            IN  IF r.says = "match" THEN r.pos
                ELSE IF r.says = "differs" THEN search[r.pos] ELSE 0
    IN  search[1]

\* tf_walk, one round after the other: where the path leads from fp, and the directory
\* that was searched last.  It does not look whether what it walks into is a directory.
Walk(tree, path) ==
    LET walk[n \in 0..Len(path), fp \in DOMAIN tree, searched \in DOMAIN tree \cup {NotThere}] ==
            LET rest == From(path, n + 1)
                name == IF rest # <<>> /\ rest[1] = Slash THEN Tail(rest) ELSE rest
                at == FindFile(Directory(tree[fp]), name)
                is == Directory(tree[fp])[at].is
                next == Len(path) - Len(name) + Len(Component(name)) + 1
            IN  IF name = <<>> THEN [found |-> fp, searched |-> searched]
                ELSE IF at = 0 THEN [found |-> NotThere, searched |-> fp]
                ELSE IF next >= Len(path) THEN [found |-> is, searched |-> fp]
                ELSE IF is \notin DOMAIN tree THEN [found |-> Undefined, searched |-> fp]
                ELSE walk[next, is, fp]
    IN  walk[0, Root, NotThere]

\* tf_fopen: "/../" is not opened, and of any other "/." both characters are dropped
Open(tree, path) ==
    IF IsPrefix(<<Slash, ".", ".", Slash>>, path)
    THEN [found |-> NotThere, searched |-> NotThere]
    ELSE Walk(tree, IF IsPrefix(<<Slash, ".">>, path) THEN From(path, 3) ELSE path)

-----------------------------------------------------------------------------
(* ls: the names of a directory, in len bytes *)

\* copylfn of each piece, up to the padding: the Nul, if there is one, is a part
LongName(dir, pos) ==
    LET n == dir[pos].pieces
    IN  SelectSeq(FlattenSeq([k \in 1..n |-> dir[pos + n - k].name]), LAMBDA ch : ch # Pad)

BaseLength == 19            \* DIENT_BASE_LEN
Item(name, is) == [name |-> SelectSeq(name, LAMBDA ch : ch # Nul), is |-> is]

\* Mutant: after a long name, the short one of the same file is listed too
ListingTwice(dir, len) ==
    LET list[pos \in 1..(Len(dir) + 1), readn \in Nat] ==
            LET e == dir[pos]
                name == IF e.long THEN LongName(dir, pos) ELSE e.name
                next == readn + BaseLength + Len(name)
            IN  IF pos > Len(dir) \/ readn + 11 >= len THEN <<>>
                ELSE IF ~e.long THEN <<Item(name, e.is)>> \o list[pos + 1, next]
                ELSE IF ~e.last THEN list[pos + 1, readn]
                ELSE IF 2 * Capacity * e.pieces + readn >= len THEN <<>>
                ELSE <<Item(name, dir[pos + e.pieces].is)>> \o list[pos + e.pieces, next]
    IN  list[1, 0]

\* It looks for room for less than it then writes.  A deleted file is listed under what
\* is left of its short name.
Listing(dir, len) ==
    LET list[pos \in 1..(Len(dir) + 1), readn \in Nat] ==
            LET e == dir[pos]
                name == IF e.long THEN LongName(dir, pos) ELSE e.name
                next == readn + BaseLength + Len(name)
            IN  IF pos > Len(dir) \/ readn + 11 >= len THEN <<>>
                ELSE IF ~e.long THEN <<Item(name, e.is)>> \o list[pos + 1, next]
                ELSE IF ~e.last THEN list[pos + 1, readn]
                ELSE IF 2 * Capacity * e.pieces + readn >= len THEN <<>>
                ELSE <<Item(name, dir[pos + e.pieces].is)>> \o list[pos + e.pieces + 1, next]
    IN  list[1, 0]

-----------------------------------------------------------------------------
(* What a path means *)

Named(files, name) ==
    {file \in Range(files) : ~file.deleted /\ (Same(file.long, name) \/ Same(file.short, name))}

\* what is between the slashes, and the names among it
Parts(path) ==
    LET grow(s, ch) ==
            IF ch = Slash THEN Append(s, <<>>)
            ELSE [s EXCEPT ![Len(s)] = Append(@, ch)]
    IN  FoldLeft(grow, <<<<>>>>, path)
Split(path) == SelectSeq(Parts(path), LAMBDA name : name \notin {<<>>, <<".">>})

\* where names lead to, one after the other
Reached(tree, names) ==
    LET step(at, name) ==
            IF at \notin DOMAIN tree \/ Named(tree[at], name) = {} THEN NotThere
            ELSE (CHOOSE file \in Named(tree[at], name) : TRUE).is
    IN  FoldLeft(step, Root, names)
Meaning(tree, path) == Reached(tree, Split(path))

\* the names a directory should be listed with, and whether there is room for all
Items(files) ==
    LET there == SelectSeq(files, LAMBDA file : ~file.deleted)
    IN  [i \in 1..Len(there) |->
            Item(IF there[i].long = <<>> THEN there[i].short ELSE there[i].long, there[i].is)]
Roomy(files, len) ==
    LET add(sum, file) == sum + BaseLength + 12 + 2 * Capacity * Pieces(Len(file.long))
    IN  len > FoldLeft(add, 0, files)

\* names that begin with a dot in the root, and ".."
Dotted(path) == Split(path) # <<>> /\ Split(path)[1][1] = "."

\* Nothing with a long name has been deleted, what a slash follows is called by its short
\* name, and after a "/." in front there is neither a "." nor more than one slash at the
\* beginning or two elsewhere.
Plainly(tree, path) ==
    LET names == Split(path)
        parts == Parts(IF IsPrefix(<<Slash, ".">>, path) THEN From(path, 3) ELSE path)
    IN  /\ \A at \in DOMAIN tree : \A file \in Range(tree[at]) : file.deleted => file.long = <<>>
        /\ \A i \in 1..Len(parts) :
            /\ parts[i] # <<".">>
            /\ parts[i] = <<>> => i \in {1, Len(parts)} \/ parts[i - 1] # <<>>
        /\ \A k \in 1..Len(names) : k < Len(names) \/ path[Len(path)] = Slash =>
            LET at == Reached(tree, SubSeq(names, 1, k - 1))
            IN  at \in DOMAIN tree /\
                \E file \in Range(tree[at]) : ~file.deleted /\ Same(file.short, names[k])
=============================================================================
