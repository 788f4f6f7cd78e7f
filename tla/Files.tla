--------------------------------- MODULE Files ---------------------------------
(***************************************************************************)
(* Open files: the table of handles with its reference counts, the         *)
(* descriptors of each process and the areas it has mapped                 *)
(* (kern/fs/vfs.cpp, syscall/syscallfile.cpp and the parts of fork, exit   *)
(* and freeproc in proc/proc.cpp that copy and drop them).                 *)
(*                                                                         *)
(* allocFileHandle gives the table's lock back before it raises ref, so    *)
(* another open may find the same handle.  With pop_off as written no      *)
(* timer comes in between, since interrupts stay off after the first lock  *)
(* of a system call; Preempt = TRUE lets other processes in.               *)
(*                                                                         *)
(* Every mounted file system is a DeviceFS, whose files have no position   *)
(* and are no directories.  NULL is 0.                                     *)
(***************************************************************************)
EXTENDS Integers, FiniteSets, FiniteSetsExt

CONSTANTS
    Proc,        \* processes
    Live,        \* those that run at first
    NFILE,       \* handles in the system
    NOFILE,      \* descriptors of a process
    NVMA,        \* areas in the system
    NOMMAPFILE,  \* areas of a process
    Flags,       \* what opens ask for: sets of "read" and "write"
    MaxLen,      \* the longest area asked for, in pages: a bound
    MaxRef,      \* how far ref may be raised: a bound
    Preempt      \* whether the timer may come after a lock is released

ASSUME FilesAssumption ==
    /\ {NFILE, NOFILE, NVMA, NOMMAPFILE, MaxLen, MaxRef} \subseteq Nat
    /\ Flags \subseteq SUBSET {"read", "write"}
    /\ NFILE < NOFILE  \* or registFileHandle would write beyond ofile
    /\ IsFiniteSet(Proc) /\ Live \subseteq Proc /\ 0 \notin Proc /\ Preempt \in BOOLEAN

Handle == 1..NFILE
Area == 1..NVMA
Fd == 0..NOFILE - 1
Slot == 0..NOMMAPFILE - 1

FD_NONE == [type |-> "none", may |-> {}]
FD_DEVICE(access) == [type |-> "device", may |-> access]
FD_PIPE(access) == [type |-> "pipe", may |-> access]
Mode == [type : {"none", "device", "pipe"}, may : SUBSET {"read", "write"}]

VARIABLES
    ref, mode,  \* fileTable: the count; type, and readable and writable as a set
    ofile,      \* ofile of each process
    area,       \* the array vma: f and length of each element
    vma,        \* vma of each process: the areas it has mapped
    life,       \* "unused", "live" or "zombie"
    at,         \* where a process is between a lock's release and its next step
    f0, f1,     \* the handles it has picked there
    halt        \* "no", "panic", or "stray" when a close has cleared a word elsewhere

vars == <<ref, mode, ofile, area, vma, life, at, f0, f1, halt>>
calls == <<at, f0, f1>>
handles == <<ref, mode>>
areas == <<area, vma>>

NoArea == [f |-> 0, length |-> 0]

Init ==
    /\ ref = [h \in Handle |-> 0]
    /\ mode = [h \in Handle |-> FD_NONE]
    /\ ofile = [p \in Proc |-> [d \in Fd |-> 0]]
    /\ area = [a \in Area |-> NoArea]
    /\ vma = [p \in Proc |-> [s \in Slot |-> 0]]
    /\ life = [p \in Proc |-> IF p \in Live THEN "live" ELSE "unused"]
    /\ at = [p \in Proc |-> "idle"]
    /\ f0 = [p \in Proc |-> 0]
    /\ f1 = [p \in Proc |-> 0]
    /\ halt = "no"

\* p executes, at the given place
Runs(p, place) ==
    /\ halt = "no" /\ life[p] = "live" /\ at[p] = place
    /\ Preempt \/ \A q \in Proc \ {p} : at[q] = "idle"

Panic ==
    /\ halt' = "panic"
    /\ UNCHANGED <<handles, ofile, areas, life, calls>>

Goes(p, place) == at' = [at EXCEPT ![p] = place]

\* The call is over; locals are forgotten
Returns(p) ==
    /\ Goes(p, "idle")
    /\ f0' = [f0 EXCEPT ![p] = 0] /\ f1' = [f1 EXCEPT ![p] = 0]

-----------------------------------------------------------------------------
(* The handles *)

Unused == {h \in Handle : ref[h] = 0 /\ mode[h].type = "none"}

\* What allocFileHandle finds under the lock; ref is raised later
AllocFileHandle(h) == h \in Unused /\ \A g \in Unused : h <= g

FreeFd(p) == {d \in Fd : ofile[p][d] = 0}

\* Mutant: a descriptor in use is taken over
RegistOver(p, h, fd) ==
    IF fd < 0 THEN FreeFd(p) # {} /\ ofile' = [ofile EXCEPT ![p][Min(FreeFd(p))] = h]
    ELSE fd <= NFILE /\ ofile' = [ofile EXCEPT ![p][fd] = h]

\* registFileHandle, where it succeeds: an fd below 0 asks for any descriptor, and one
\* above NFILE, which is less than NOFILE, is refused
RegistFileHandle(p, h, fd) ==
    IF fd < 0 THEN FreeFd(p) # {} /\ ofile' = [ofile EXCEPT ![p][Min(FreeFd(p))] = h]
    ELSE fd <= NFILE /\ ofile[p][fd] = 0 /\ ofile' = [ofile EXCEPT ![p][fd] = h]

\* vfsopen, vfscreatePipe and vfschdir begin by picking a handle
Pick(p) ==
    /\ Runs(p, "idle")
    /\ \E h \in Handle : AllocFileHandle(h) /\ f0' = [f0 EXCEPT ![p] = h]
    /\ \E place \in {"open", "pipe", "chdir"} : Goes(p, place)
    /\ UNCHANGED <<handles, ofile, areas, life, f1, halt>>

\* "alloc file", with the lock held
PickPanics(p) ==
    /\ Runs(p, "idle") \/ Runs(p, "pipe")
    /\ Unused = {}
    /\ Panic

-----------------------------------------------------------------------------
(* open, close, dup, dup3 *)

Open(p) ==
    /\ Runs(p, "open")
    /\ ref' = [ref EXCEPT ![f0[p]] = 1]
    /\ \E access \in Flags : mode' = [mode EXCEPT ![f0[p]] = FD_DEVICE(access)]
    /\ RegistFileHandle(p, f0[p], -1)
    /\ Returns(p)
    /\ UNCHANGED <<areas, life, halt>>

\* "registFileHandle": too few descriptors are left for an open or a pipe
RegistPanics(p) ==
    /\ \E fds \in 1..2 : /\ Cardinality(FreeFd(p)) < fds
                        /\ Runs(p, IF fds = 1 THEN "open" ELSE "pipe2")
    /\ Panic

\* sys_close, which takes any number for a descriptor; vfsclose does nothing
Close(p) ==
    /\ Runs(p, "idle")
    /\ \E d \in Fd : ofile' = [ofile EXCEPT ![p][d] = 0]
    /\ UNCHANGED <<handles, areas, life, calls, halt>>

\* -1 is the last element of vma, which lies before ofile in struct proc: the area stays
\* in use and nobody can unmap it
CloseSlot(p) ==
    /\ Runs(p, "idle")
    /\ \E d \in -NOMMAPFILE..-1 : vma' = [vma EXCEPT ![p][NOMMAPFILE + d] = 0]
    /\ UNCHANGED <<handles, ofile, area, life, calls, halt>>

\* Beyond both a word of something else is cleared: workDir, another process, a lock.
\* What becomes of the system is left open.
CloseStrays(p) ==
    /\ Runs(p, "idle")
    /\ halt' = "stray"
    /\ UNCHANGED <<handles, ofile, areas, life, calls>>

\* vfsdup raises ref under the lock, after its assertion
VfsDup(h) == ref[h] \in 1..MaxRef - 1 /\ ref' = [ref EXCEPT ![h] = @ + 1]

\* sys_dup, and sys_dup3 with the descriptor it asks for
Dup(p) ==
    /\ Runs(p, "idle")
    /\ \E old \in Fd, new \in Fd \cup {-1} :
        /\ ofile[p][old] # 0
        /\ VfsDup(ofile[p][old])
        /\ RegistFileHandle(p, ofile[p][old], new)
    /\ UNCHANGED <<mode, areas, life, calls, halt>>

\* Descriptors sys_dup3 does not get, and NOFILE for all that are beyond the table
Refused(p) == {d \in 0..NOFILE : d > NFILE \/ ofile[p][d] # 0}

\* sys_dup3 finds its descriptor in use or above NFILE; vfsclose leaves ref as it is
Dup3Fails(p) ==
    /\ Runs(p, "idle")
    /\ \E old \in Fd, new \in Refused(p) : ofile[p][old] # 0 /\ VfsDup(ofile[p][old])
    /\ UNCHANGED <<mode, ofile, areas, life, calls, halt>>

\* vfsdup(NULL), when sys_dup3 is given a closed descriptor or none; or, since getFileByFd
\* lets NOFILE through, of the first characters of workDir, in sys_dup too, which also
\* panics when no descriptor is left
DupPanics(p) == Runs(p, "idle") /\ Panic

-----------------------------------------------------------------------------
(* pipe2, chdir *)

PipeSecond(p) ==
    /\ Runs(p, "pipe")
    /\ \E h \in Handle :
        /\ h \in Unused \ {f0[p]} /\ \A g \in Unused \ {f0[p]} : h <= g
        /\ f1' = [f1 EXCEPT ![p] = h]
    /\ ref' = [ref EXCEPT ![f0[p]] = 1]
    /\ Goes(p, "pipe2")
    /\ UNCHANGED <<mode, ofile, areas, life, f0, halt>>

\* The second allocFileHandle finds nothing but the first one's handle
PipePanics(p) == Runs(p, "pipe") /\ Unused \subseteq {f0[p]} /\ Panic

\* The least two free descriptors go to the read end and the write end; when
\* sys_pipe2's copyout fails they stay open
Pipe(p) ==
    /\ Runs(p, "pipe2")
    /\ ref' = [ref EXCEPT ![f1[p]] = 1]
    /\ mode' = [mode EXCEPT ![f0[p]] = FD_PIPE({"read"}), ![f1[p]] = FD_PIPE({"write"})]
    /\ Cardinality(FreeFd(p)) >= 2
    /\ LET fd0 == Min(FreeFd(p))
           fd1 == Min(FreeFd(p) \ {fd0}) IN
        ofile' = [ofile EXCEPT ![p][fd0] = f0[p], ![p][fd1] = f1[p]]
    /\ Returns(p)
    /\ UNCHANGED <<areas, life, halt>>

\* There is no page for the pipe: freeFileHandle of both
PipeNoPage(p) ==
    /\ Runs(p, "pipe2")
    /\ ref' = [ref EXCEPT ![f0[p]] = 0, ![f1[p]] = 0]
    /\ mode' = [mode EXCEPT ![f0[p]] = FD_NONE, ![f1[p]] = FD_NONE]
    /\ Returns(p)
    /\ UNCHANGED <<ofile, areas, life, halt>>

\* vfschdir takes and gives back p->lock in getAbPath while ref is 1 already
ChdirRef(p) ==
    /\ Runs(p, "chdir")
    /\ ref' = [ref EXCEPT ![f0[p]] = 1]
    /\ Goes(p, "chdir2")
    /\ UNCHANGED <<mode, ofile, areas, life, f0, f1, halt>>

\* A device is no directory: freeFileHandle, and -1
Chdir(p) ==
    /\ Runs(p, "chdir2")
    /\ ref' = [ref EXCEPT ![f0[p]] = 0]
    /\ mode' = [mode EXCEPT ![f0[p]] = FD_NONE]
    /\ Returns(p)
    /\ UNCHANGED <<ofile, areas, life, halt>>

-----------------------------------------------------------------------------
(* Areas *)

FreeAreas == {a \in Area : area[a].f = 0}
Mapped(p) == {s \in Slot : vma[p][s] # 0}

\* sys_mmap; when p->vma is full the area belongs to nobody
Mmap(p) ==
    /\ Runs(p, "idle")
    /\ FreeAreas # {}
    /\ \E d \in Fd, len \in 1..MaxLen :
        LET a == Min(FreeAreas) IN
        /\ ofile[p][d] # 0 /\ VfsDup(ofile[p][d])
        /\ area' = [area EXCEPT ![a] = [f |-> ofile[p][d], length |-> len]]
        /\ vma' = IF Mapped(p) = Slot THEN vma
                  ELSE [vma EXCEPT ![p][Min(Slot \ Mapped(p))] = a]
    /\ UNCHANGED <<mode, ofile, life, calls, halt>>

\* allocVma's 0 is written through
MmapPanics(p) ==
    /\ Runs(p, "idle") /\ FreeAreas = {}
    /\ \E d \in Fd : ofile[p][d] # 0
    /\ Panic

\* Mutant: the slot still names the area that was freed
MunmapKeepsSlot(p) ==
    /\ Runs(p, "idle")
    /\ \E s \in Mapped(p), sz \in 1..MaxLen :
        LET a == vma[p][s]
            left == area[a].length - sz IN
        /\ area[a].length > 0
        /\ area' = [area EXCEPT ![a] = IF left = 0 THEN NoArea
                                       ELSE [@ EXCEPT !.length = left]]
    /\ UNCHANGED <<handles, ofile, vma, life, calls, halt>>

\* sys_munmap of pages nobody has touched; addr is not moved.  Areas may
\* overlap after one was unmapped, and s is any that has the address
Munmap(p) ==
    /\ Runs(p, "idle")
    /\ \E s \in Mapped(p), sz \in 1..MaxLen :
        LET a == vma[p][s]
            left == area[a].length - sz IN
        /\ area[a].length > 0
        /\ area' = [area EXCEPT ![a] = IF left = 0 THEN NoArea
                                       ELSE [@ EXCEPT !.length = left]]
        /\ vma' = IF left = 0 THEN [vma EXCEPT ![p][s] = 0] ELSE vma
    /\ UNCHANGED <<handles, ofile, life, calls, halt>>

\* vmunmap of a page that is mapped, by munmap or exit
UnmapPanics(p) == Runs(p, "idle") /\ Mapped(p) # {} /\ Panic

-----------------------------------------------------------------------------
(* fork and clone, exit, wait *)

\* Mutant: the handle behind a copied area is not counted
ForkDupsFiles(p, h) == Cardinality({d \in Fd : ofile[p][d] = h})

\* How often fork calls vfsdup for a handle
ForkDups(p, h) ==
    Cardinality({d \in Fd : ofile[p][d] = h}) +
    Cardinality({s \in Mapped(p) : area[vma[p][s]].f = h})

ForkRefs(p) == [h \in Handle |-> ref[h] + ForkDups(p, h)]

\* The areas allocVma finds for the slots of the parent, in their order
Copies(p, g) ==
    /\ \A s, r \in Mapped(p) : s < r => g[s] < g[r]
    /\ \A a \in FreeAreas, s \in Mapped(p) : a < g[s] => \E r \in Mapped(p) : g[r] = a

Fork(p, child) ==
    /\ Runs(p, "idle") /\ life[child] = "unused"
    /\ \A h \in Handle : ForkRefs(p)[h] <= MaxRef
    /\ ref' = ForkRefs(p)
    /\ ofile' = [ofile EXCEPT ![child] =
                    [d \in Fd |-> IF ofile[p][d] # 0 THEN ofile[p][d] ELSE @[d]]]
    /\ \E g \in [Mapped(p) -> FreeAreas] :
        /\ Copies(p, g)
        /\ vma' = [vma EXCEPT ![child] =
                      [s \in Slot |-> IF s \in Mapped(p) THEN g[s] ELSE 0]]
        /\ area' = [a \in Area |-> IF \E s \in Mapped(p) : g[s] = a
                                   THEN area[vma[p][CHOOSE s \in Mapped(p) : g[s] = a]]
                                   ELSE area[a]]
    /\ life' = [life EXCEPT ![child] = "live"]
    /\ UNCHANGED <<mode, calls, halt>>

\* allocVma's 0 is written through
ForkPanics(p) ==
    /\ Runs(p, "idle")
    /\ Cardinality(Mapped(p)) > Cardinality(FreeAreas)
    /\ Panic

\* p->vma keeps its pointers, freeproc clears them
Exit(p) ==
    /\ Runs(p, "idle")
    /\ ofile' = [ofile EXCEPT ![p] = [d \in Fd |-> 0]]
    /\ area' = [a \in Area |-> IF \E s \in Mapped(p) : vma[p][s] = a THEN NoArea ELSE area[a]]
    /\ life' = [life EXCEPT ![p] = "zombie"]
    /\ UNCHANGED <<handles, vma, calls, halt>>

\* freeproc, by a parent in wait
Reap(p) ==
    /\ halt = "no" /\ life[p] = "zombie"
    /\ vma' = [vma EXCEPT ![p] = [s \in Slot |-> 0]]
    /\ life' = [life EXCEPT ![p] = "unused"]
    /\ UNCHANGED <<handles, ofile, area, calls, halt>>

Next ==
    \E p \in Proc :
        \/ Pick(p) \/ PickPanics(p) \/ Open(p) \/ RegistPanics(p)
        \/ Close(p) \/ CloseSlot(p) \/ CloseStrays(p)
        \/ Dup(p) \/ Dup3Fails(p) \/ DupPanics(p)
        \/ PipeSecond(p) \/ PipePanics(p) \/ Pipe(p) \/ PipeNoPage(p)
        \/ ChdirRef(p) \/ Chdir(p)
        \/ Mmap(p) \/ MmapPanics(p) \/ Munmap(p) \/ UnmapPanics(p)
        \/ \E child \in Proc : Fork(p, child)
        \/ ForkPanics(p) \/ Exit(p) \/ Reap(p)

Spec == Init /\ [][Next]_vars

-----------------------------------------------------------------------------
(* Properties *)

Lives == {p \in Proc : life[p] = "live"}

\* Every descriptor and every area in use refers to a handle that is open, and
\* ref is at least the number of them: the handle of an open file is not given
\* out again by allocFileHandle (vfs.cpp:96) and vfsdup does not panic
\* (vfs.cpp:331); as long as no close has cleared a word elsewhere.
RefsCover ==
    halt # "stray" => \A h \in Handle :
        LET uses == Cardinality({use \in Proc \X Fd : ofile[use[1]][use[2]] = h}) +
                    Cardinality({a \in Area : area[a].f = h}) IN
        /\ ref[h] >= uses
        /\ uses > 0 => mode[h].type # "none"

\* A process's slots name areas that are in use, and no two slots, of one
\* process or of two, name the same one (proc.cpp:729-739,
\* syscallfile.cpp:249-254 and 283-287), with the same proviso.
AreasApart ==
    halt # "stray" => \A p \in Lives : \A s \in Mapped(p) :
        /\ area[vma[p][s]].f # 0
        /\ \A q \in Lives : \A r \in Mapped(q) :
            vma[p][s] = vma[q][r] => p = q /\ s = r

FT == INSTANCE FileTable WITH
        File <- Handle, None <- 0, table <- ofile, lost <- halt = "stray",
        maps <- [p \in Proc |-> [s \in Slot |->
                    IF p \in Lives /\ vma[p][s] # 0 THEN area[vma[p][s]].f ELSE 0]]

\* Descriptors and areas behave as references to open files: an open never
\* returns one that somebody else refers to, dup and fork share, and an open
\* file keeps its kind while anybody refers to it, until a close clears a word elsewhere.
ActsAsFileTable == FT!Spec
=============================================================================
