-------------------------------- MODULE Fat ---------------------------------
(***************************************************************************)
(* The FAT32 driver (kern/fs/fat32.cpp) as far as it is defined: the one   *)
(* sector it keeps, the allocation table, and what open and read do to     *)
(* them, for one caller at a time, which nothing in the driver sees to.    *)
(* The table takes several sectors, so an operation on a chain stores and  *)
(* fetches them in turn; one step is what happens between two fetches.     *)
(*                                                                         *)
(* tf_fwrite copies over its own parameter and not into the buffer, so     *)
(* what follows a write of more than one byte, which every change of a     *)
(* directory is, is undefined: tf_create, tf_mkdir, tf_remove and write    *)
(* are left out, and with them every change of a directory or of data.     *)
(* The root directory and a cluster are one sector each.                   *)
(***************************************************************************)
EXTENDS Names

CONSTANTS
    Files,      \* in the root directory
    LastCluster,    \* the volume's last cluster, and the last the search looks at
    PerSector,  \* entries of the table in a sector
    Bytes,      \* bytes in a cluster
    MaxLen,     \* bound: the clusters of a file to begin with
    Counts,     \* bound: the bytes a read asks for
    Trees, Plain,   \* the directories that a volume may have; bound: Plain with any
                    \* chains, the others with one, and what is in them is only opened
    Paths(_),   \* bound: the paths that are opened in them
    Lens,       \* bound: how many bytes a listing has room for
    Skips       \* whether tf_free_clusterchain goes on one entry too far and leaves the
                \* last cluster: {TRUE} is the code

ASSUME FatAssumption ==
    /\ LastCluster \in Nat /\ LastCluster > 2
    /\ {PerSector, Bytes, MaxLen} \cup Counts \subseteq Nat \ {0}
    /\ Skips \subseteq BOOLEAN
    /\ Plain \in Trees /\ Sub > LastCluster + 1
    \* a directory has no two files under one name
    /\ \A t \in Trees : \A at \in DOMAIN t : \A i, j \in 1..Len(t[at]) :
        i # j /\ ~t[at][i].deleted /\ ~t[at][j].deleted => t[at][i].short # t[at][j].short

Clusters == (Root + 1)..LastCluster
Entries == 0..LastCluster
Eoc == LastCluster + 1             \* TF_MARK_EOC32, greater than any cluster
Free == 0

\* sectors: those of the table and one for each cluster
TableSector(x) == <<"table", x \div PerSector>>
DataSector(x) == <<"data", x>>
In(s) == {x \in Entries : TableSector(x) = s}

VARIABLES
    skips,      \* which of Skips this driver does
    size,       \* each file's size and first cluster in the root directory
    start,
    tree,       \* the directories
    stored,     \* the allocation table on the card
    current, buffer, dirty, \* tf_info; of buffer, the entries of the table in it
    doing, file,    \* what the caller is doing, and to which file
    asked,      \* where a read begins and how many bytes it asks for
    fp,         \* the handle
    left, hops,    \* the bytes still to read; tf_unsafe_fseek's cluster_idx
    cl, entry, wrapped, \* cluster and fat_entry, or the search's
    looked,     \* the path that has been looked up, where that led, and what is listed
    got         \* what the last read has returned so far: clusters and offsets in them

volume == <<skips, size, start, tree>>
cache == <<stored, current, buffer, dirty>>
call == <<file, asked>>
locals == <<left, hops, cl, entry, wrapped>>
results == <<got, looked>>
fatVars == <<volume, cache, doing, call, fp, locals, results>>

Ascending(s) == \A i \in 1..(Len(s) - 1) : s[i] < s[i + 1]
Chains == {s \in UNION {[1..k -> Clusters] : k \in 1..MaxLen} : Ascending(s)}
Linked(layout) ==
    [x \in Entries |->
        IF x <= Root THEN Eoc
        ELSE IF \E f \in Files : x \in Range(layout[f])
        THEN LET s == layout[CHOOSE f \in Files : x \in Range(layout[f])]
                 i == CHOOSE i \in 1..Len(s) : s[i] = x
             IN  IF i = Len(s) THEN Eoc ELSE s[i + 1]
        ELSE Free]

\* between calls
AnyFile == CHOOSE f \in Files : TRUE
NoRequest == [from |-> 0, count |-> 0]
NoLookup == [path |-> <<>>, found |-> NotThere, len |-> 0, items |-> <<>>]
NoHandle == [size |-> 0, start |-> 0, cluster |-> 0, idx |-> 0, pos |-> 0]

\* a mounted volume: tf_init has read the root directory
FatInit ==
    /\ skips \in Skips
    /\ tree \in Trees
    /\ \E layout \in [Files -> Chains] :
        /\ \A f, g \in Files : f /= g => Range(layout[f]) \cap Range(layout[g]) = {}
        /\ start = [f \in Files |-> layout[f][1]]
        /\ stored = Linked(layout)
        /\ size \in [Files -> 1..(MaxLen * Bytes)]
        /\ \A f \in Files :
            size[f] > Bytes * (Len(layout[f]) - 1) /\ size[f] <= Bytes * Len(layout[f])
        /\ tree # Plain =>
            skips /\ \A f \in Files : size[f] = 1 /\ start[f] <= Root + Cardinality(Files)
    /\ current = DataSector(Root) /\ buffer = <<>> /\ dirty = FALSE
    /\ doing = "idle" /\ file = AnyFile /\ asked = NoRequest /\ fp = NoHandle
    /\ left = 0 /\ hops = 0 /\ cl = 0 /\ entry = 0 /\ wrapped = FALSE /\ got = <<>>
    /\ looked = NoLookup

-----------------------------------------------------------------------------
(* The sector in memory *)

\* the allocation table, wherever the newest copy of an entry is: in the sector in memory,
\* if it is one of the table's
Table == [x \in Entries |-> IF x \in DOMAIN buffer THEN buffer[x] ELSE stored[x]]

\* Mutant: a dirty sector is not stored before the next is fetched
Forget(s) ==
    /\ stored' = stored
    /\ current' = s

\* tf_fetch, with tf_store
Fetch(s) ==
    /\ stored' = IF s /= current /\ dirty THEN Table ELSE stored
    /\ current' = s

Fetched(s) == IF s = current THEN buffer ELSE [x \in In(s) |-> stored[x]]
StillDirty(s) == dirty /\ s = current

\* tf_get_fat_entry
Entry(x) == Fetched(TableSector(x))[x]
GetEntry(x) ==
    /\ Fetch(TableSector(x))
    /\ buffer' = Fetched(TableSector(x))
    /\ dirty' = StillDirty(TableSector(x))

\* tf_set_fat_entry
SetEntry(x, v) ==
    /\ Fetch(TableSector(x))
    /\ buffer' = [Fetched(TableSector(x)) EXCEPT ![x] = v]
    /\ dirty' = (StillDirty(TableSector(x)) \/ Entry(x) /= v)

GetData(x) ==
    /\ Fetch(DataSector(x))
    /\ buffer' = Fetched(DataSector(x))
    /\ dirty' = StillDirty(DataSector(x))

Doing(label) == doing = label
Then(label) == doing' = label

-----------------------------------------------------------------------------
(* open, which is tf_fopen and tf_fclose *)

Handle(f) ==
    [size |-> size[f], start |-> start[f], cluster |-> start[f], idx |-> 0, pos |-> 0]

\* tf_fnopen walks the path; the directories that it searches follow each other in memory.
Lookup(searched) == IF searched = NotThere THEN UNCHANGED cache ELSE GetData(searched)

\* whether or not the file is there, and with a second try if not
OpenToRead(path, to) ==
    /\ Doing("idle")
    /\ Lookup(to.searched)
    /\ looked' = [NoLookup EXCEPT !.path = path, !.found = to.found]
    /\ Then("close")
    /\ UNCHANGED <<volume, call, fp, locals, got>>

\* ls of a directory.  Bound: there is a handle; ls does not give it back.
Ls(path, at, len) ==
    /\ Doing("idle")
    /\ GetData(at)
    /\ looked' = [path |-> path, found |-> at, len |-> len,
                  items |-> Listing(Directory(tree[at]), len)]
    /\ Then("close")
    /\ UNCHANGED <<volume, call, fp, locals, got>>

\* O_CREATE of a file that there is
Create(f, to) ==
    /\ Doing("idle")
    /\ Lookup(to.searched)
    /\ file' = f /\ fp' = [Handle(f) EXCEPT !.size = 1]
    /\ Then("second")
    /\ UNCHANGED <<volume, asked, locals, results>>

Second ==
    /\ Doing("second")
    /\ GetEntry(fp.start)
    /\ cl' = Entry(fp.start)
    /\ Then(IF Entry(fp.start) = Eoc THEN "close" ELSE "first entry")
    /\ UNCHANGED <<volume, call, fp, left, hops, entry, wrapped, results>>

\* tf_free_clusterchain
FirstEntry ==
    /\ Doing("first entry")
    /\ GetEntry(cl)
    /\ entry' = Entry(cl)
    /\ Then("free")
    /\ UNCHANGED <<volume, call, fp, left, hops, cl, wrapped, results>>

GoesOn == entry < Eoc /\ entry > Root

FreeCluster ==
    /\ Doing("free") /\ (GoesOn \/ (~skips /\ entry = Eoc))
    /\ SetEntry(cl, Free)
    /\ Then(IF GoesOn THEN "next" ELSE "mark")
    /\ UNCHANGED <<volume, call, fp, locals, results>>

NextCluster ==
    /\ Doing("next")
    /\ GetEntry(entry)
    /\ entry' = Entry(entry)
    /\ cl' = IF skips THEN Entry(entry) ELSE entry
    /\ Then("free")
    /\ UNCHANGED <<volume, call, fp, left, hops, wrapped, results>>

EndOfChain ==
    /\ Doing("free") /\ ~GoesOn /\ (skips \/ entry /= Eoc)
    /\ Then("mark")
    /\ UNCHANGED <<volume, cache, call, fp, locals, results>>

Mark ==
    /\ Doing("mark")
    /\ SetEntry(fp.start, Eoc)
    /\ Then("close")
    /\ UNCHANGED <<volume, call, fp, locals, results>>

-----------------------------------------------------------------------------
(* read: tf_fopen, tf_fseek, tf_fread and tf_fclose *)

\* Mutant: the hops are counted from the first cluster, not from the handle's
SeekFromStart(h, pos) ==
    /\ hops' = pos \div Bytes
    /\ fp' = [h EXCEPT !.idx = pos \div Bytes, !.pos = pos]
    /\ Then(IF pos \div Bytes > h.idx THEN "hop" ELSE "read")

\* tf_unsafe_fseek to a place inside the file.  A new handle and a sequential read only
\* seek forward.
Seek(h, pos) ==
    /\ hops' = pos \div Bytes - h.idx
    /\ fp' = [h EXCEPT !.idx = pos \div Bytes, !.pos = pos]
    /\ Then(IF pos \div Bytes > h.idx THEN "hop" ELSE "read")

\* A place at or behind the end is an error, which read does not look at.
Read(f, to, offset, count) ==
    /\ Doing("idle")
    /\ Lookup(to.searched)
    /\ LET from == IF offset < size[f] THEN offset ELSE 0
       IN  Seek(Handle(f), from) /\ asked' = [from |-> from, count |-> count]
    /\ file' = f /\ left' = count
    /\ UNCHANGED <<volume, cl, entry, wrapped, results>>

Arrived == IF hops = 1 THEN "read" ELSE "hop"

\* The ends of a chain, 0x0ffffff8 to 0x0fffffff under the mask, are one Eoc
Hop ==
    /\ Doing("hop")
    /\ GetEntry(fp.cluster)
    /\ LET next == Entry(fp.cluster) IN
        IF next /= Eoc
        THEN /\ fp' = [fp EXCEPT !.cluster = next]
             /\ hops' = hops - 1
             /\ Then(Arrived)
             /\ UNCHANGED <<cl, wrapped>>
        ELSE /\ cl' = fp.cluster /\ wrapped' = FALSE
             /\ Then("search")
             /\ UNCHANGED <<fp, hops>>
    /\ UNCHANGED <<volume, call, left, entry, results>>

\* tf_find_free_cluster_from, and tf_find_free_cluster after it.  Bound: a cluster is free.
\* The code looks behind the last cluster, up to all sectors over the sectors of a cluster,
\* and returns that number when nothing is free.
Search ==
    /\ Doing("search")
    /\ GetEntry(cl)
    /\ IF Entry(cl) = Free THEN Then("link") /\ UNCHANGED <<cl, wrapped>>
       ELSE IF cl < LastCluster THEN cl' = cl + 1 /\ UNCHANGED <<doing, wrapped>>
       ELSE /\ ~wrapped
            /\ cl' = 0 /\ wrapped' = TRUE /\ UNCHANGED doing
    /\ UNCHANGED <<volume, call, fp, left, hops, entry, results>>

Link ==
    /\ Doing("link")
    /\ SetEntry(fp.cluster, cl)
    /\ Then("end")
    /\ UNCHANGED <<volume, call, fp, locals, results>>

End ==
    /\ Doing("end")
    /\ SetEntry(cl, Eoc)
    /\ fp' = [fp EXCEPT !.cluster = cl]
    /\ hops' = hops - 1
    /\ Then(Arrived)
    /\ UNCHANGED <<volume, call, left, cl, entry, wrapped, results>>

Smallest(a, b) == IF a < b THEN a ELSE b

\* One round of tf_fread.  It seeks to where it ends, if that is inside the file, also when
\* it has read all it was asked for.
ReadSector ==
    /\ Doing("read") /\ left > 0
    /\ GetData(fp.cluster)
    /\ LET from == fp.pos % Bytes
           x == Smallest(Smallest(Bytes - from, fp.size - fp.pos), left)
       IN  /\ got' = got \o [k \in 1..x |-> <<fp.cluster, from + k - 1>>]
           /\ IF fp.pos + x < fp.size
              THEN left' = left - x /\ Seek(fp, fp.pos + x)
              ELSE left' = 0 /\ Then("close") /\ UNCHANGED <<fp, hops>>
    /\ UNCHANGED <<volume, call, cl, entry, wrapped, looked>>

Done ==
    /\ Doing("read") /\ left = 0
    /\ Then("close")
    /\ UNCHANGED <<volume, cache, call, fp, locals, results>>

\* tf_fclose, which writes nothing: the handle is not dirty.  What changed in the table
\* stays in memory.
Close ==
    /\ Doing("close")
    /\ Then("idle")
    /\ file' = AnyFile /\ asked' = NoRequest /\ fp' = NoHandle
    /\ left' = 0 /\ hops' = 0 /\ cl' = 0 /\ entry' = 0 /\ wrapped' = FALSE /\ got' = <<>>
    /\ looked' = NoLookup
    /\ UNCHANGED <<volume, cache>>

-----------------------------------------------------------------------------
FatNext ==
    \/ /\ Doing("idle")
       /\ \E path \in Paths(tree) :
          \E to \in {Open(tree, path)} :
            \/ to.found # Undefined /\ OpenToRead(path, to)
            \/ \E at \in DOMAIN tree \cap {to.found}, len \in Lens : Ls(path, at, len)
            \/ /\ tree = Plain         \* bound
               /\ \E f \in Files \cap {to.found} :
                    \/ Create(f, to)
                    \/ \E offset \in 0..(MaxLen * Bytes), count \in Counts :
                        Read(f, to, offset, count)
    \/ Second \/ FirstEntry \/ FreeCluster \/ NextCluster \/ EndOfChain \/ Mark
    \/ Hop \/ Search \/ Link \/ End \/ ReadSector \/ Done \/ Close

FatSpec == FatInit /\ [][FatNext]_fatVars

-----------------------------------------------------------------------------
(* Properties *)

Truncating(f) == file = f /\ doing \in {"first entry", "free", "next", "mark"}

\* the clusters of a file, which are those after the first no more once it is truncated
Chain(f) ==
    LET after[i \in 0..LastCluster] ==
            IF i = 0 THEN <<start[f]>>
            ELSE LET s == after[i - 1]
                 IN  IF Table[s[Len(s)]] \in Clusters THEN Append(s, Table[s[Len(s)]]) ELSE s
    IN  IF Truncating(f) THEN <<start[f]>> ELSE after[LastCluster]

\* However the entries of the table go back and forth between the card and the one sector
\* in memory (tf_fetch, fat32.cpp:309), while chains are cut and grow: no cluster is in two
\* files or twice in one, every file's chain ends, and in a driver that frees all the
\* clusters of a chain none is lost.
ClustersAccountedFor ==
    /\ \A f \in Files :
        /\ IsInjective(Chain(f))
        /\ \A g \in Files \ {f} : Range(Chain(f)) \cap Range(Chain(g)) = {}
        /\ LET last == Chain(f)[Len(Chain(f))]
           IN  Table[last] = Eoc \/ Truncating(f) \/ (doing = "end" /\ last = cl)
    /\ doing = "idle" /\ ~skips =>
        \A x \in Clusters : Table[x] = Free \/ \E f \in Files : x \in Range(Chain(f))

\* A read returns the bytes of the file from where it begins, in order and up to the end
\* or as many as it asks for, whatever it has had to look up, store and allocate on the
\* way (tf_fread and tf_unsafe_fseek, fat32.cpp:1122).
ReadsItsOwn ==
    doing = "close" /\ got /= <<>> =>
        got = [k \in 1..Smallest(asked.count, size[file] - asked.from) |->
                LET p == asked.from + k - 1
                IN  <<Chain(file)[p \div Bytes + 1], p % Bytes>>]

\* The path that is looked up (tf_walk, fat32.cpp:498) never leads to another file than
\* the one that it names, and to that one if it names each directory on the way by its
\* short name; names with a dot in front apart, a directory in which a file with a long
\* name has been deleted, and a path with a "." or one slash too many on its way.
\* No path of the run goes on behind a plain file, whose bytes tf_walk would read as entries.
LeadsThere ==
    LET path == looked.path
    IN  path # <<>> /\ ~Dotted(path) =>
            /\ looked.found \in {NotThere, Meaning(tree, path)}
            /\ Plainly(tree, path) => looked.found = Meaning(tree, path)

\* ls (fat32.cpp:164) lists what a directory has in its order and by its long names, all of
\* it if there is room, and what it lists can be opened: the one walks the long entries
\* from the last piece up and the other from the first piece down, and both have to come
\* out at the same short entry, past entries that were deleted.
LsListsWhatOpens ==
    LET files == tree[looked.found]
        items == SelectSeq(looked.items, LAMBDA item : item.name # <<Erased>>)
        prefix == IF looked.path = <<Slash>> THEN <<Slash>> ELSE Append(looked.path, Slash)
    IN  looked.len > 0 =>
            /\ IsPrefix(items, Items(files))
            /\ Roomy(files, looked.len) => items = Items(files)
            /\ \A i \in 1..Len(items) : LET path == prefix \o items[i].name IN
                Plainly(tree, path) => Open(tree, path).found = items[i].is

=============================================================================
