------------------------------- MODULE Memory -------------------------------
(***************************************************************************)
(* Physical pages and page tables: kalloc and kfree (kern/mm/kalloc.cpp),  *)
(* walk, MapPages, vmunmap, Uvmcreate and freewalk (kern/mm/vm.cpp), and   *)
(* those who use them: allocproc, proc_pagetable and freeproc              *)
(* (kern/proc/proc.cpp), the page faults of mapped areas                   *)
(* (kern/trap/trap.cpp), sys_munmap and exit, and the arguments that       *)
(* sys_execve copies (kern/syscall).                                       *)
(*                                                                         *)
(* Processes share the free list; whoever runs can lose the hart before    *)
(* and after every piece under kmem.lock, and those pieces are the steps.  *)
(*                                                                         *)
(* A process has no memory but its mapped areas here: what Uvmalloc,       *)
(* UvmInit and Uvmcopy do needs p->kpagetable, which nobody ever sets.     *)
(* sys_close of a number below 0, which clears an element of vma, is in    *)
(* Files.                                                                  *)
(***************************************************************************)
EXTENDS Integers, SequencesExt

CONSTANTS
    Procs,      \* slots of procTable
    NPages,     \* pages between kernel_end and PHYSTOP that kvmInit leaves
    Fan,        \* entries of a table: 512
    PGSIZE,     \* bytes of a page: 4096
    Gap,        \* pages below MAXVA that sys_mmap keeps clear of: 5
    Lowest,     \* the lowest page that it gets to: a bound
    NOMMAPFILE, \* areas that a process has room for: 16
    Lengths,    \* what sys_mmap ...
    Sizes,      \* ... and sys_munmap are asked for, in bytes
    MAXARG,     \* arguments that sys_execve has room for
    Swapped,    \* whether proc_pagetable gives MapPages the size where it expects the
                \* physical address, and the other way round: {TRUE} as it is written
    Inverted,   \* whether vmunmap takes an entry that is in use for one that is not:
                \* {TRUE} as it is written
    Overlap     \* whether allocproc may find a slot that it has given away and that fork
                \* has not yet made RUNNABLE: TRUE as it is written

Boot == "boot"
Threads == Procs \cup {Boot}
Contents == {"ones", "fives", "zeroes", "file", "string"}

ASSUME MemoryAssumption ==
    /\ {NPages, Fan, PGSIZE, Gap, NOMMAPFILE, MAXARG} \subseteq Nat \ {0} /\ Fan > 1
    /\ Lowest \in Nat
    /\ Lengths \subseteq Int /\ Sizes \subseteq Int
    /\ Swapped \subseteq BOOLEAN /\ Inverted \subseteq BOOLEAN /\ Overlap \in BOOLEAN
    /\ Procs \cap (Contents \cup {Boot, "none"}) = {}

Pages == 1..NPages
NULL == 0
Trampoline == NPages + 1    \* the kernel's own page of that name
Idx == 0..Fan - 1
TRAMPOLINE == Fan * Fan * Fan - 1
TRAPFRAME == TRAMPOLINE - 1
UserVas == Lowest..TRAPFRAME - 1
PX(level, va) == (va \div IF level = 0 THEN 1 ELSE IF level = 1 THEN Fan ELSE Fan * Fan) % Fan

VARIABLES
    freelist,   \* kmem.freelist
    mem,        \* what each page was last filled with: "ones" by kfree, "fives" by kalloc,
                \* "zeroes", "file", "string", or the process whose registers it holds
    entry,      \* the entries of a page that was zeroed to be a table
    state, trapframe, pagetable,    \* of each process
    areas,      \* its mapped areas (vma): from which address, and how many bytes
    at,         \* where each thread is in the kernel, "user", "gone", or "spins" in panic
    loc,        \* its local variables
    panicked    \* "no", or why

pages == <<freelist, mem, entry>>
procs == <<state, trapframe, pagetable, areas>>
memoryVars == <<pages, procs, at, loc, panicked>>

Zero == [to |-> NULL, leaf |-> FALSE]
ZeroTable == [i \in Idx |-> Zero]
NoArea == [addr |-> -1, length |-> 0]
NoAreas == [i \in 1..NOMMAPFILE |-> NoArea]
NoLocals == [child |-> "none", root |-> NULL, va |-> 0, pa |-> NULL, new |-> NULL,
             todo |-> <<>>, swapped |-> FALSE]

MemoryInit ==
    /\ freelist = [i \in 1..NPages |-> NPages + 1 - i]
    /\ mem = [pg \in Pages |-> "ones"] /\ entry = [pg \in Pages |-> ZeroTable]
    /\ state = [p \in Procs |-> "UNUSED"]
    /\ trapframe = [p \in Procs |-> NULL] /\ pagetable = [p \in Procs |-> NULL]
    /\ areas = [p \in Procs |-> NoAreas]
    /\ at = [t \in Threads |-> IF t = Boot THEN "user" ELSE "gone"]
    /\ loc = [t \in Threads |-> NoLocals] /\ panicked = "no"

Runs(t, label) == panicked = "no" /\ at[t] = label
GoOn(t, label, locals) ==
    /\ at' = [at EXCEPT ![t] = label] /\ loc' = [loc EXCEPT ![t] = locals]
    /\ UNCHANGED panicked
ToUser(t) == GoOn(t, "user", NoLocals)
\* panic where interrupts are off, and what the program does not come back from: the hart
\* stops
Panic(why) == panicked' = why /\ UNCHANGED <<pages, procs, at, loc>>

-----------------------------------------------------------------------------
(* kalloc and kfree *)

Full == freelist = <<>>

\* kalloc under the lock; what it fills the page with comes afterwards
Take(t, label) ==
    /\ freelist' = Tail(freelist)
    /\ GoOn(t, label, [loc[t] EXCEPT !.new = Head(freelist)])
    /\ UNCHANGED <<mem, entry>>

Fill(pg, with) ==
    /\ mem' = [mem EXCEPT ![pg] = with] /\ entry' = [entry EXCEPT ![pg] = ZeroTable]
    /\ UNCHANGED freelist

\* the pages of todo, one after the other
Kfree(t) ==
    /\ Runs(t, "kfree")
    /\ IF loc[t].todo = <<>> THEN GoOn(t, "kfreed", loc[t]) /\ UNCHANGED pages
       ELSE Fill(Head(loc[t].todo), "ones") /\ GoOn(t, "push", loc[t])
    /\ UNCHANGED procs
Push(t) ==
    /\ Runs(t, "push")
    /\ freelist' = <<Head(loc[t].todo)>> \o freelist
    /\ GoOn(t, "kfree", [loc[t] EXCEPT !.todo = Tail(@)])
    /\ UNCHANGED <<mem, entry, procs>>

-----------------------------------------------------------------------------
(* Page tables *)

\* A page that was not zeroed has PTE_V everywhere
IsTable(pg) == pg \in Pages /\ mem[pg] = "zeroes"

\* walk from a root: the last table on the way to va, and its level
Walk(root, va) ==
    LET Down[level \in 0..2] ==
            IF level = 2 THEN [table |-> root, level |-> 2]
            ELSE LET up == Down[level + 1]
                     pte == entry[up.table][PX(level + 1, va)]
                 IN IF up.level # level + 1 \/ ~IsTable(up.table) \/ pte = Zero THEN up
                    ELSE [table |-> pte.to, level |-> level]
    IN Down[0]

\* the page that va is mapped to
To(table, level, va) == entry[table][PX(level, va)].to
Lookup(root, va) ==
    LET mid == To(root, 2, va)
        last == To(mid, 1, va)
    IN IF IsTable(root) /\ IsTable(mid) /\ IsTable(last) THEN To(last, 0, va) ELSE NULL

\* the tables below a root, in the order in which freewalk frees them
Tables(root) ==
    LET Below[level \in 0..2] ==
            [pg \in Pages |->
                IF level = 0 THEN <<pg>>
                ELSE Append(FlattenSeq([i \in 1..Fan |->
                                IF entry[pg][i - 1] = Zero THEN <<>>
                                ELSE Below[level - 1][entry[pg][i - 1].to]]), pg)]
    IN Below[2][root]

\* walk has a new table: zeroes it and links it
Link(t) ==
    /\ Runs(t, "link")
    /\ LET w == Walk(loc[t].root, loc[t].va)
           pte == [to |-> loc[t].new, leaf |-> FALSE]
       IN /\ mem' = [mem EXCEPT ![loc[t].new] = "zeroes"]
          /\ entry' = [entry EXCEPT ![loc[t].new] = ZeroTable,
                                    ![w.table][PX(w.level, loc[t].va)] = pte]
    /\ GoOn(t, "map", [loc[t] EXCEPT !.new = NULL])
    /\ UNCHANGED <<freelist, procs>>

\* MapPages of one page, up to the next kalloc.  What it maps and what it does next goes
\* by the address.
Leaf(t, w) == entry' = [entry EXCEPT ![w.table][PX(0, loc[t].va)] =
                                        [to |-> loc[t].pa, leaf |-> TRUE]]
MapPages(t) ==
    /\ Runs(t, "map")
    /\ LET w == Walk(loc[t].root, loc[t].va)
       IN IF ~IsTable(w.table) THEN Panic("undefined")
          ELSE IF w.level > 0 /\ ~Full THEN Take(t, "link") /\ UNCHANGED procs
          ELSE IF w.level > 0 THEN GoOn(t, "unmapped", loc[t]) /\ UNCHANGED <<pages, procs>>
          ELSE IF entry[w.table][PX(0, loc[t].va)] # Zero THEN Panic("ramap")
          \* the next of the many pages lies at MAXVA
          ELSE IF loc[t].swapped THEN Panic("get pagetable entry")
          ELSE /\ Leaf(t, w) /\ GoOn(t, "mapped", loc[t])
               /\ UNCHANGED <<freelist, mem, procs>>

\* whether vmunmap, which frees nothing here, gets past a page
Unmappable(root, va, inverted) ==
    LET w == Walk(root, va)
    IN /\ w.level = 0 /\ IsTable(w.table)
       /\ inverted <=> entry[w.table][PX(0, va)] = Zero

\* ... past the pages up to the k-th of vs, the second time only as it is written.  (Who
\* unmaps its own trapframe does not come back either.)
GetsPast(root, vs, k, inverted) ==
    \A j \in 1..k : /\ vs[j] \in UserVas /\ Unmappable(root, vs[j], inverted)
                    /\ inverted \/ \A i \in 1..j - 1 : vs[i] # vs[j]

\* the pages that it unmaps: all, or those up to one where it panics
Unmaps(root, vs, inverted) ==
    {va \in UserVas : \E k \in DOMAIN vs : vs[k] = va /\ GetsPast(root, vs, k, inverted)}
Cleared(root, V) ==
    [pg \in Pages |-> [i \in Idx |->
        IF \E va \in V : i = PX(0, va) /\ Walk(root, va) = [table |-> pg, level |-> 0]
        THEN Zero ELSE entry[pg][i]]]

-----------------------------------------------------------------------------
(* Areas: in bytes, where page tables and vmunmap go by pages *)

MAXVA == Fan * Fan * Fan * PGSIZE
PGROUNDDOWN(addr) == (addr \div PGSIZE) * PGSIZE
Bytes(area) == area.addr..area.addr + area.length - 1

\* the pages of n bytes from an address: none if n is negative
VasOf(addr, n) ==
    [k \in 1..IF n < 0 THEN 0 ELSE (n + PGSIZE - 1) \div PGSIZE |-> addr \div PGSIZE + k - 1]

\* the first of some slots, if there is one
First(slots) == {i \in slots : \A j \in slots : i <= j}

-----------------------------------------------------------------------------
(* The life of a process *)

\* allocproc and freeproc hold p->lock, allocproc from its search to its end.  Then the
\* slot is UNUSED and anybody's until fork makes it RUNNABLE.
Locked(p) == \E u \in Threads : loc[u].child = p /\ at[u] # "forks"
Forking(p) == \E u \in Threads : loc[u].child = p /\ at[u] = "forks"

\* allocproc, by userinit or by fork: its caller goes on when there is no page (fork with
\* -1), which changes nothing
Allocproc(t, p) ==
    /\ Runs(t, "user") /\ state[p] = "UNUSED" /\ ~Full
    /\ ~Locked(p)
    /\ Forking(p) => Overlap
    /\ \E swapped \in Swapped :
        GoOn(t, "trapframe", [NoLocals EXCEPT !.child = p, !.new = Head(freelist),
                                              !.swapped = swapped])
    /\ freelist' = Tail(freelist)
    /\ UNCHANGED <<mem, entry, procs>>

Trapframe(t) ==
    /\ Runs(t, "trapframe")
    /\ Fill(loc[t].new, "fives")
    /\ trapframe' = [trapframe EXCEPT ![loc[t].child] = loc[t].new]
    /\ GoOn(t, "Uvmcreate", [loc[t] EXCEPT !.new = NULL])
    /\ UNCHANGED <<state, pagetable, areas>>

Uvmcreate(t) ==
    /\ Runs(t, "Uvmcreate")
    /\ IF Full THEN GoOn(t, "nopage", loc[t]) /\ UNCHANGED pages ELSE Take(t, "root")
    /\ UNCHANGED procs

Root(t) ==
    /\ Runs(t, "root")
    /\ Fill(loc[t].new, "zeroes")
    /\ GoOn(t, "map", [loc[t] EXCEPT !.root = loc[t].new, !.new = NULL, !.va = TRAMPOLINE,
                                     !.pa = Trampoline])
    /\ UNCHANGED procs

MappedTrampoline(t) ==
    /\ Runs(t, "mapped") /\ loc[t].va = TRAMPOLINE
    /\ GoOn(t, "map", [loc[t] EXCEPT !.va = TRAPFRAME, !.pa = trapframe[loc[t].child]])
    /\ UNCHANGED <<pages, procs>>

\* the rest of allocproc.  (What it fills the trapframe with, fork overwrites.)
MappedTrapframe(t) ==
    /\ Runs(t, "mapped") /\ loc[t].va = TRAPFRAME
    /\ pagetable' = [pagetable EXCEPT ![loc[t].child] = loc[t].root]
    /\ GoOn(t, "forks", loc[t])
    /\ UNCHANGED <<pages, state, trapframe, areas>>

\* the rest of fork and of initFirstProc
Fork(t) ==
    LET p == loc[t].child
    IN /\ Runs(t, "forks")
       /\ mem' = [mem EXCEPT ![trapframe[p]] = p]
       /\ areas' = [areas EXCEPT ![p] = IF t = Boot THEN NoAreas ELSE areas[t]]
       /\ state' = [state EXCEPT ![p] = "RUNNABLE"]
       /\ at' = [at EXCEPT ![t] = IF t = Boot THEN "gone" ELSE "user", ![p] = "user"]
       /\ loc' = [loc EXCEPT ![t] = NoLocals]
       /\ UNCHANGED <<freelist, entry, trapframe, pagetable, panicked>>

\* proc_pagetable gives the tables back.  (The second mapping never fails: it needs no
\* table that the first has not made.)
Unmapped(t) ==
    /\ Runs(t, "unmapped") /\ loc[t].va = TRAMPOLINE
    /\ GoOn(t, "kfree", [loc[t] EXCEPT !.todo = Tables(loc[t].root), !.root = NULL])
    /\ UNCHANGED <<pages, procs>>

\* allocproc takes no notice that proc_pagetable has returned 0.  Uvmcopy and fork fail if
\* there is still no page; if there is, Uvmcopy writes through 0, as UvmInit does.
Failed(t) ==
    /\ \/ Runs(t, "nopage")
       \/ Runs(t, "kfreed") /\ loc[t].va = TRAMPOLINE
    /\ IF Full /\ t # Boot THEN ToUser(t) /\ UNCHANGED <<pages, procs>>
       ELSE Panic("kerneltrap")

\* exit unmaps one area after the other, whether or not a page was ever there.  Interrupts
\* are on: where vmunmap panics, that is no end to the others.
Exit(p) ==
    LET vs == FlattenSeq([i \in 1..NOMMAPFILE |-> VasOf(areas[p][i].addr, areas[p][i].length)])
    IN /\ Runs(p, "user") /\ p \in Procs
       /\ \E inverted \in Inverted :
            /\ entry' = Cleared(pagetable[p], Unmaps(pagetable[p], vs, inverted))
            /\ IF GetsPast(pagetable[p], vs, Len(vs), inverted)
               THEN state' = [state EXCEPT ![p] = "ZOMBIE"] /\ GoOn(p, "gone", NoLocals)
               ELSE GoOn(p, "spins", NoLocals) /\ UNCHANGED state
       /\ UNCHANGED <<freelist, mem, trapframe, pagetable, areas>>

\* wait finds a zombie, and freeproc frees its trapframe first
Freeproc(t, p) ==
    /\ Runs(t, "user") /\ t \in Procs /\ state[p] = "ZOMBIE"
    /\ ~Locked(p)
    /\ GoOn(t, "kfree", [NoLocals EXCEPT !.child = p, !.va = TRAPFRAME,
                                         !.todo = <<trapframe[p]>>])
    /\ trapframe' = [trapframe EXCEPT ![p] = NULL]
    /\ UNCHANGED <<pages, state, pagetable, areas>>

\* Mutant: freeProcPagetable has vmunmap free the trapframe, which is free
FreesTrapframe(t) ==
    LET root == pagetable[loc[t].child]
    IN /\ Runs(t, "kfreed") /\ loc[t].va = TRAPFRAME
       /\ GoOn(t, "kfree", [loc[t] EXCEPT !.va = 0,
                                !.todo = <<Lookup(root, TRAPFRAME)>> \o Tables(root)])
       /\ pagetable' = [pagetable EXCEPT ![loc[t].child] = NULL]
       /\ UNCHANGED <<pages, state, trapframe, areas>>

\* freeProcPagetable
FreeProcPagetable(t) ==
    LET root == pagetable[loc[t].child]
    IN /\ Runs(t, "kfreed") /\ loc[t].va = TRAPFRAME
       /\ \E inverted \in Inverted :
            IF \E va \in {TRAMPOLINE, TRAPFRAME} : ~Unmappable(root, va, inverted)
            THEN Panic("vmunmap")
            ELSE IF \E va \in UserVas : Lookup(root, va) # NULL THEN Panic("freewalk: leaf")
            ELSE /\ GoOn(t, "kfree", [loc[t] EXCEPT !.va = 0, !.todo = Tables(root)])
                 /\ pagetable' = [pagetable EXCEPT ![loc[t].child] = NULL]
                 /\ UNCHANGED <<pages, state, trapframe, areas>>
Reaped(t) ==
    /\ Runs(t, "kfreed") /\ loc[t].va = 0 /\ loc[t].child # "none"
    /\ state' = [state EXCEPT ![loc[t].child] = "UNUSED"]
    /\ ToUser(t)
    /\ UNCHANGED <<pages, trapframe, pagetable, areas>>

-----------------------------------------------------------------------------
(* Mapped areas *)

\* sys_mmap goes by the sum of the lengths: once a part of an area is unmapped, or where
\* areas are no whole pages, the address can lie in another one.  Who has no slot left has
\* nothing mapped.  (That a sum of integers is one is said for the proofs.)
Mmap(p, length) ==
    LET vmasz == FoldFunction(+, 0, [i \in 1..NOMMAPFILE |-> areas[p][i].length])
        addr == PGROUNDDOWN(MAXVA - PGSIZE * Gap - vmasz - length)
    IN /\ Runs(p, "user") /\ p \in Procs /\ addr \in Int /\ addr >= Lowest * PGSIZE
       /\ \E i \in First({i \in 1..NOMMAPFILE : areas[p][i] = NoArea}) :
            areas' = [areas EXCEPT ![p][i] = [addr |-> addr, length |-> length]]
       /\ UNCHANGED <<pages, state, trapframe, pagetable, at, loc, panicked>>

\* sys_munmap shortens the first area that the address lies in, which begins where it began
Munmap(p, addr, sz) ==
    LET vs == VasOf(addr, sz)
    IN /\ Runs(p, "user") /\ p \in Procs
       /\ \E inverted \in Inverted, i \in First({i \in 1..NOMMAPFILE : addr \in Bytes(areas[p][i])}) :
            LET left == areas[p][i].length - sz
            IN IF addr % PGSIZE # 0
               THEN GoOn(p, "spins", NoLocals) /\ UNCHANGED <<entry, areas>>
               ELSE /\ entry' = Cleared(pagetable[p], Unmaps(pagetable[p], vs, inverted))
                    /\ IF ~GetsPast(pagetable[p], vs, Len(vs), inverted)
                       THEN GoOn(p, "spins", NoLocals) /\ UNCHANGED areas
                       ELSE /\ areas' = [areas EXCEPT ![p][i] =
                                            IF left = 0 THEN NoArea ELSE [@ EXCEPT !.length = left]]
                            /\ UNCHANGED <<at, loc, panicked>>
       /\ UNCHANGED <<freelist, mem, state, trapframe, pagetable>>

\* A page fault in an area: UserTrap has no page to zero, or one.  Interrupts are off.  (The
\* areas are readable: one that is not faults again, and MapPages panics with "ramap", as it
\* does at the trapframe.)
Fault(p, va) ==
    /\ Runs(p, "user") /\ p \in Procs
    /\ \E i \in 1..NOMMAPFILE : \E addr \in Bytes(areas[p][i]) : va = addr \div PGSIZE
    /\ IF Full \/ va \notin UserVas THEN Panic("kerneltrap")
       ELSE /\ Lookup(pagetable[p], va) = NULL
            /\ freelist' = Tail(freelist)
            /\ GoOn(p, "fault", [NoLocals EXCEPT !.va = va, !.root = pagetable[p],
                                                 !.new = Head(freelist)])
            /\ UNCHANGED <<mem, entry, procs>>

\* Mutant: without memset
FaultLeaves(p) ==
    /\ Runs(p, "fault")
    /\ Fill(loc[p].new, "fives")
    /\ GoOn(p, "map", [loc[p] EXCEPT !.pa = loc[p].new, !.new = NULL])
    /\ UNCHANGED procs

FaultZeroes(p) ==
    /\ Runs(p, "fault")
    /\ Fill(loc[p].new, "zeroes")
    /\ GoOn(p, "map", [loc[p] EXCEPT !.pa = loc[p].new, !.new = NULL])
    /\ UNCHANGED procs

\* nobody looks at what MapPages returns
FaultReads(p) ==
    /\ at[p] \in {"mapped", "unmapped"} /\ Runs(p, at[p]) /\ loc[p].va \in UserVas
    /\ mem' = [mem EXCEPT ![loc[p].pa] = "file"]
    /\ ToUser(p)
    /\ UNCHANGED <<freelist, entry, procs>>

-----------------------------------------------------------------------------
(* sys_execve: a page for each argument, given back before it returns (exec *)
(* itself ends at p->kpagetable)                                           *)

Execve(p) ==
    /\ Runs(p, "user") /\ p \in Procs
    /\ GoOn(p, "argv", [NoLocals EXCEPT !.root = pagetable[p]])
    /\ UNCHANGED <<pages, procs>>

\* the next argument: there is none or no page for it, or it is copied there.  When argv
\* is filled up, every way out reads or writes the element behind it.
Argv(p) ==
    /\ Runs(p, "argv")
    /\ IF Len(loc[p].todo) = MAXARG THEN Panic("undefined")
       ELSE /\ \/ GoOn(p, "kfree", loc[p]) /\ UNCHANGED pages
               \/ ~Full /\ Take(p, "arg")
            /\ UNCHANGED procs

\* fetchaddr and fetchstr, from an address that is mapped or from any other; when fetchstr
\* fails, all there is to do is to give the pages back
Arg(p) ==
    /\ Runs(p, "arg")
    /\ \E va \in UserVas \cup {TRAPFRAME} :
        IF Lookup(loc[p].root, va) = NULL THEN Panic("kernel virtual address")
        ELSE /\ Fill(loc[p].new, "string")
             /\ GoOn(p, "argv", [loc[p] EXCEPT !.todo = Append(@, loc[p].new), !.new = NULL])
             /\ UNCHANGED procs

ExecveDone(p) ==
    /\ Runs(p, "kfreed") /\ loc[p].child = "none"
    /\ ToUser(p)
    /\ UNCHANGED <<pages, procs>>

-----------------------------------------------------------------------------
Thread(t) ==
    \/ \E p \in Procs : Allocproc(t, p) \/ Freeproc(t, p)
    \/ Kfree(t) \/ Push(t) \/ Link(t) \/ MapPages(t)
    \/ Trapframe(t) \/ Uvmcreate(t) \/ Root(t) \/ MappedTrampoline(t) \/ MappedTrapframe(t)
    \/ Fork(t) \/ Unmapped(t) \/ Failed(t) \/ FreeProcPagetable(t) \/ Reaped(t)
Process(p) ==
    \/ Exit(p) \/ FaultZeroes(p) \/ FaultReads(p)
    \/ Execve(p) \/ Argv(p) \/ Arg(p) \/ ExecveDone(p)
    \/ \E length \in Lengths : Mmap(p, length)
    \/ \E i \in 1..NOMMAPFILE : \E addr \in Bytes(areas[p][i]) :
         Fault(p, addr \div PGSIZE) \/ \E sz \in Sizes : Munmap(p, addr, sz)

MemoryNext ==
    \/ \E t \in Threads : Thread(t)
    \/ \E p \in Procs : Process(p)

MemorySpec == MemoryInit /\ [][MemoryNext]_memoryVars

-----------------------------------------------------------------------------
\* The page tables in use: those of processes and those that allocproc is making
Roots == ({pagetable[p] : p \in Procs} \cup {loc[t].root : t \in Threads}) \ {NULL}
\* A thread has a page to itself when it is not yet linked, or no longer
Taken(t) == ({loc[t].new} \cup ToSet(loc[t].todo)) \ {NULL}
Held == UNION {{loc[t].new, loc[t].pa} \cup ToSet(loc[t].todo) : t \in Threads}

\* kalloc.cpp:37-68, vm.cpp:68-87, 227-239: a page is on the free list once and in kfree's
\* pattern, or taken by one thread, or the trapframe of one process, or one table or the
\* frame at one address of one root, or it is forgotten: never two of these.
PagesApart ==
    LET tables == [r \in Roots |-> Tables(r)]
        frames == [u \in Roots \X UserVas |-> Lookup(u[1], u[2])]
        inTables == UNION {ToSet(tables[r]) : r \in Roots}
        inFrames == {frames[u] : u \in Roots \X UserVas}
        trapframes == {trapframe[p] : p \in Procs}
        free == ToSet(freelist)
    IN panicked = "no" =>
        /\ IsInjective(freelist)
        /\ free \cap (inTables \cup inFrames \cup trapframes \cup Held) = {}
        /\ \A pg \in free : mem[pg] = "ones"
        /\ \A r \in Roots : IsInjective(tables[r])
        /\ \A r, s \in Roots : r # s => ToSet(tables[r]) \cap ToSet(tables[s]) = {}
        /\ \A u, w \in Roots \X UserVas : u # w /\ frames[u] = frames[w] => frames[u] = NULL
        /\ \A p, q \in Procs : p # q /\ trapframe[p] = trapframe[q] => trapframe[p] = NULL
        /\ inTables \cap (inFrames \cup trapframes) = {} /\ inFrames \cap trapframes \subseteq {NULL}
        /\ \A t \in Threads : Taken(t) \cap (inTables \cup inFrames \cup trapframes) = {}
        /\ \A t, u \in Threads : t # u => Taken(t) \cap Taken(u) = {}

\* vm.cpp:68-145, kalloc.cpp:37-68: a process finds in its memory what it has mapped
\* there, whatever others allocate, free and map.  Two areas of one process may overlap: an
\* unmap of one then takes a page from the other, which AddressSpaces allows.
Space(p) == [va \in UserVas \cup {TRAPFRAME, TRAMPOLINE} |->
    IF state[p] # "RUNNABLE" THEN "none"
    ELSE LET pg == Lookup(pagetable[p], va)
         IN IF pg = NULL THEN "none" ELSE IF pg = Trampoline THEN "trampoline" ELSE mem[pg]]
Spaces == INSTANCE AddressSpaces WITH
    Vaddrs <- UserVas \cup {TRAPFRAME, TRAMPOLINE},
    Image <- [p \in Procs |-> [va \in UserVas \cup {TRAPFRAME, TRAMPOLINE} |->
        IF va = TRAMPOLINE THEN "trampoline" ELSE IF va = TRAPFRAME THEN p ELSE "none"]],
    space <- [p \in Procs |-> Space(p)]
ActsAsAddressSpaces == Spaces!Spec
=============================================================================
