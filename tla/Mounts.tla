------------------------------- MODULE Mounts -------------------------------
(***************************************************************************)
(* The mounted file systems (kern/fs/vfs.cpp): mount, umount, and how a    *)
(* path finds the one it belongs to, which is how every call with a path   *)
(* begins.                                                                 *)
(*                                                                         *)
(* vfsgetFs takes no lock, and with an absolute path none is taken before  *)
(* it either: interrupts are on, and a tick lets other processes mount and *)
(* unmount between two of its slots.  From the first lock of a call        *)
(* interrupts stay off until it is over, so mount (which has kalloc before *)
(* it looks for a slot), umount, and a lookup after getAbPath has taken    *)
(* p->lock for a relative path, are not interrupted.                       *)
(*                                                                         *)
(* workDir is always "/", since no directory of a DeviceFS can be entered; *)
(* a close that clears workDir, or anything else that is not the caller's  *)
(* (Files), is where the model ends.                                       *)
(***************************************************************************)
EXTENDS Files, SequencesExt

CONSTANTS
    NFILESYSTEM,
    Points,     \* bound: where file systems are mounted, sequences of characters
    Paths,      \* bound: the absolute paths that are looked up
    RootPath, DevPath   \* what vfsinit mounts: "/" and "/dev"

ASSUME MountsAssumption ==
    /\ NFILESYSTEM \in Nat /\ NFILESYSTEM >= 2
    /\ {RootPath, DevPath} \subseteq Points /\ RootPath # DevPath
    /\ \A q \in Points \cup Paths : Len(q) \in Nat \ {0}

FsSlot == 0..NFILESYSTEM - 1
NoFs == <<>>

\* vfsinit
Mounted == [i \in FsSlot |-> IF i = 0 THEN DevPath ELSE IF i = 1 THEN RootPath ELSE NoFs]

VARIABLES
    mountedFS,  \* mountPos of each, or NoFs
    points,     \* how many file systems the calls have left at each place
    look,       \* what each process is looking up
    masked      \* the process that runs with interrupts off, or 0

mountVars == <<mountedFS, points, look, masked>>

\* path and the slots that are still to be compared, vfsgetFs's best match with its
\* length; the places that matched when it began, and whether something was unmounted since
Idle == [path |-> <<>>, i |-> 0, best |-> 0, length |-> 0, due |-> {}, unmounted |-> FALSE]

MountsInit ==
    /\ Init
    /\ mountedFS = Mounted
    /\ points = [q \in Points |-> IF q \in {DevPath, RootPath} THEN 1 ELSE 0]
    /\ look = [p \in Proc |-> Idle] /\ masked = 0

\* Bound: nobody has had a file open while file systems come and go, and there are the
\* first two while there are files.
NoFiles == (\A h \in Handle : ref[h] = 0) /\ \A p \in Proc : at[p] = "idle"
Continues(p) == halt = "no" /\ life[p] = "live" /\ masked \in {0, p}

-----------------------------------------------------------------------------
(* vfsgetFs *)

Here(path) == {q \in Points : points[q] > 0 /\ IsPrefix(q, path)}

Begun(path) == [path |-> path, i |-> 0, best |-> 0, length |-> 0,
                due |-> Here(path), unmounted |-> FALSE]

\* getAbPath makes path of what the call is given
GetAbPath(p, path, relative) ==
    /\ Continues(p) /\ look[p] = Idle
    /\ look' = [look EXCEPT ![p] = Begun(path)]
    /\ masked' = IF relative THEN p ELSE 0
    /\ UNCHANGED <<mountedFS, points>>

\* The loop stops at the end of the path by the slot's number and not by the character's.
Matches(i, path) == Len(path) <= i \/ IsPrefix(mountedFS[i], path)

\* l, after a slot in which it has found something better, or has not
Passed(l, better) ==
    [path |-> l.path, i |-> l.i + 1,
     best |-> IF better THEN l.i ELSE l.best,
     length |-> IF better THEN Len(mountedFS[l.i]) ELSE l.length,
     due |-> l.due, unmounted |-> l.unmounted]

\* Mutant: the last match counts
LastBetter(l) == mountedFS[l.i] # NoFs /\ Matches(l.i, l.path)

Better(l) ==
    /\ mountedFS[l.i] # NoFs
    /\ Matches(l.i, l.path) /\ Len(mountedFS[l.i]) > l.length

\* one slot, in one step
Compare(p) ==
    LET l == look[p]
    IN  /\ Continues(p) /\ l.path # <<>> /\ l.i < NFILESYSTEM
        /\ look' = [look EXCEPT ![p] = Passed(l, Better(l))]
        /\ UNCHANGED <<mountedFS, points, masked>>

\* what it returns, from the table as it is now
Found(p) == mountedFS[look[p].best]
Answers(p) == look[p].i = NFILESYSTEM

\* The rest of the call, which begins with a call through what was found.
Use(p) ==
    /\ Continues(p) /\ Answers(p) /\ Found(p) # NoFs
    /\ look' = [look EXCEPT ![p] = Idle]
    /\ masked' = 0
    /\ UNCHANGED <<mountedFS, points>>
UsePanics(p) == Continues(p) /\ Answers(p) /\ Found(p) = NoFs /\ Panic /\ UNCHANGED mountVars

-----------------------------------------------------------------------------
(* sys_mount and sys_umount2 *)

FreeSlots == {i \in FsSlot : mountedFS[i] = NoFs}

\* Bound: there is a page for the file system.
Vfsmount(p, point) ==
    /\ Continues(p) /\ look[p] = Idle
    /\ \E i \in FreeSlots :
        /\ \A j \in FreeSlots : i <= j
        /\ mountedFS' = [mountedFS EXCEPT ![i] = point]
    /\ points' = [points EXCEPT ![point] = @ + 1]
    /\ UNCHANGED <<look, masked>>

\* "mount file system"
VfsmountPanics(p) ==
    /\ Continues(p) /\ look[p] = Idle /\ FreeSlots = {}
    /\ Panic /\ UNCHANGED mountVars

\* the first that is mounted there; delete gives its page back
Vfsumount(p, point) ==
    /\ Continues(p) /\ look[p] = Idle
    /\ \E i \in FsSlot :
        /\ mountedFS[i] = point /\ \A j \in FsSlot : mountedFS[j] = point => i <= j
        /\ mountedFS' = [mountedFS EXCEPT ![i] = NoFs]
    /\ points' = [points EXCEPT ![point] = @ - 1]
    /\ look' = [q \in Proc |-> IF look[q] = Idle THEN Idle
                               ELSE [look[q] EXCEPT !.unmounted = TRUE]]
    /\ UNCHANGED masked

-----------------------------------------------------------------------------
MountsStep(p) ==
    \/ \E path \in Paths, relative \in BOOLEAN : GetAbPath(p, path, relative)
    \/ Compare(p) \/ Use(p)
    \/ \E point \in Points : Vfsmount(p, point) \/ Vfsumount(p, point)

MountsNext ==
    \/ mountedFS = Mounted /\ (\A p \in Proc : look[p] = Idle) /\ Next /\ UNCHANGED mountVars
    \/ NoFiles /\ \E p \in Proc :
        \/ MountsStep(p) /\ UNCHANGED vars
        \/ UsePanics(p) \/ VfsmountPanics(p)

MountsSpec == MountsInit /\ [][MountsNext]_<<vars, mountVars>>

-----------------------------------------------------------------------------
(* Properties *)

\* vfsgetFs (vfs.cpp:55-77) finds the file system with the longest mount point that the
\* path begins with, of those that were mounted when it began and are mounted since,
\* whatever is mounted while it looks and whatever had been unmounted before; if the path
\* is longer than the numbers of the slots, and as long as nothing is unmounted meanwhile.
LookupSound ==
    \A p \in Proc : LET l == look[p] IN
        Answers(p) /\ l.due # {} /\ ~l.unmounted /\ Len(l.path) >= NFILESYSTEM =>
            Found(p) \in Here(l.path) /\ \A q \in l.due : Len(Found(p)) >= Len(q)
=============================================================================
