# A verification development of PageFaultOS (RISC-V 64, K210)

PageFaultOS is a small Unix-like kernel in C++ for the two harts of a Kendryte
K210.  This directory holds TLA+ models of the kernel, the TLC configurations that
check them on small instances, and theorems about them that TLAPS proves for every
value of the constants.  `PROJECT.json` is the index: the components, the runs, the
lines each definition models, the hazards, the theorems.

Paths are relative to `src/kern/` unless they start with `src/`.

| module | what it is | run | proofs |
|---|---|---|---|
| `SpinLock` | push_off/pop_off, acquire, release, holding, curproc, with interrupts | spinlock | `MemoryProofs` |
| `Sched` | scheduler, sleep, wakeup, prepareSched, yield | sched | `SchedProofs` |
| `ProcTree` | allocproc, fork/clone, exit, wait, wait4, freeproc | proc_tree | `ProcTreeProofs` |
| `Pipe` implements `ByteChannel` | piperead, pipewrite, pipeclose | pipe | `PipeProofs` |
| `Traps` implements `Processor` | user and kernel traps, the timer, system calls, over one set of control registers | traps | `TrapsProofs` |
| `Interrupts` | firmware, PLIC, DevIntr: from the device to the handler | interrupts, interrupts_k210 | `TrapsProofs` |
| `Memory` implements `AddressSpaces` | kalloc, kfree, page tables, page faults | memory | `MemoryProofs` |
| `Files` implements `FileTable` | handles, descriptors, mapped areas | files | `MountsProofs` |
| `Mounts` extends `Files` | mount, umount, vfsgetFs | files | `MountsProofs` |
| `Disk` implements `BlockDevice` | sleep lock, SD card sectors, DMA, its interrupt | disk | `DiskProofs` |
| `Boot` extends `Disk`, `Pins` | pins, clocks and sd_init, then the disk path | disk | `DiskProofs` |
| `Fat` extends `Names` | cluster chains through one sector; paths, long names, ls | fat | `DiskProofs` |
| `Console` implements `LineEditor` | consoleintr, consoleread | console | `ConsoleProofs` |

`MCSpinLock`, `MCMounts`, `MCMemory` and `MCFat` add what a configuration cannot say:
symmetry sets, mount points and paths, how often allocproc is called, small volumes.
Every other module is checked as it is.
To check one: `tlc -config Sched.cfg Sched.tla`; to prove one: `tlapm DiskProofs.tla`.

## 1. Inventory

The makefiles build the K210 platform.  Hart 0 boots, runs `scheduler()` and, under
it, every process; hart 1 spins at the end of `main` (init/main.cpp:89-91) and does
nothing but take interrupts.  A system call runs in its process, on a kernel stack,
and may be interrupted wherever interrupts are enabled; the timer interrupt switches
it out only there and only while it is RUNNING (trap/trap.cpp).

**Spin locks and interrupt masking** (sync/spinlock.cpp, trap/intr.cpp, `curproc` of
proc/proc.cpp).  State: `locked` and `cpu` of each lock; `noff` and `intena` of each
hart.  Operations: push_off, pop_off, acquire, release, holding.  Used by everything
below.  Hard: holding reads two words that the other hart may change in between;
push_off reads SIE before it clears it; handlers take locks.  Correct when locks
exclude, holding answers exactly, no hart spins on its own lock, interrupts are
masked in critical sections, `noff` counts the locks and `intena` is what the
outermost push_off found.

**Scheduler, sleep and wakeup** (proc/proc.cpp, switch.S).  State: `state`, `chan` and
lock of each process, the context hart 0 executes.  Operations: scheduler, sleep,
wakeup, prepareSched, yield.  `p->lock` is taken by one context and released by the
next, across `pswitch`; wakeup, called by processes and by handlers of either hart,
writes `p->state` without that lock.  Correct when the lock is handed over at every
switch, nobody is left RUNNING on no hart, no wakeup is lost, RUNNABLE processes run.

**Processes** (proc/proc.cpp).  State: `procTable` (state, parent, xstate, pid).
Operations: allocproc, fork, clone, exit, wait, wait4, freeproc; scheduler wakes init
when it passes a zombie.  Hard: parents and children exit in any order; a child exits
while its parent is about to sleep; slots are reused; wait4 shifts the status each
time it looks.  Correct when each process but init has a living parent, waiters are
woken, a reaped status is the child's own, and init hears of the zombies it inherits.

**Pipe** (proc/pipe.cpp, reached through fs/vfs.cpp).  State: a ring of 512 bytes, two
32-bit counters that wrap, two flags for its ends.  Operations: piperead, pipewrite,
pipeclose.  Hard: requests longer than the ring are cut up by sleeps, writers compete,
the counters wrap, the last close frees the object.  Correct when it is a FIFO
channel, nobody sleeps without a reason, nobody is in it when it is freed, and
readers see the end of the file.

**Disk path** (sync/sleeplock.cpp, driver/sdcard.cpp, spi.c, dmac.cpp).  State: the
sleep lock, the card's command, the DMA channel and its interrupt.  Operations:
acquiresleep, releasesleep, sdcard_read_sector, sdcard_write_sector, dmac_wait_idle,
dmac_intr.  Hard: the end of a transfer is polled, slept for and interrupted for at
once; an interrupt may be late, or be cleared by the next transfer; a call that fails
panics, with the lock given back, and the card may still be at work.  Correct when
sectors are read and written atomically, commands stay apart, and whoever waits for
the lock is woken.

**Console** (console/console.cpp).  State: a ring of 128 characters, `read_index` and
`write_index`.  Operations: consoleintr (from the UART's interrupt, without a lock),
consoleread, consolewrite.  Hard: erasing moves the same end as typing; several
readers share a line; nobody checks for room.  Correct when characters are delivered
once and in order, and no reader sleeps while a line waits.

**Files** (fs/vfs.cpp, file.cpp, syscall/syscallfile.cpp).  State: the table of NFILE
handles with reference counts, the descriptors of each process, the areas it has
mapped.  Operations: open, close, dup, dup3, pipe2, mmap, munmap, and the copies that
fork and exit make.  Hard: allocFileHandle raises `ref` after it has released the
table's lock; vfsclose is empty, so handles are never freed; areas live in a table of
their own; sys_close stores NULL at whatever number it is given, and dup3 may fail after
it has raised `ref`.  Correct when a handle belongs to one open file and lives as long as
descriptors or areas refer to it.

**Mounted file systems** (fs/vfs.cpp).  State: NFILESYSTEM slots.  Operations: mount,
umount, and vfsgetFs, which every call with a path begins with.  Hard: vfsgetFs takes
no lock, so that others mount and unmount between two slots.  Correct when a path
finds the longest mount point.

**Device file system** (fs/devicefs.cpp).  No state; routes a path to the console or
to a sector.

**FAT32** (fs/fat32.cpp).  State: one cached sector without a lock, the allocation
table on the card, TF_FILE_HANDLES handles.  Operations: open, read, seek, ls, write,
create, remove.  Hard: cluster chains are walked and freed over several sectors that
replace each other in the cache; a long name is several entries, the last piece first.
Correct when chains are disjoint and complete, a read returns the file's own bytes, and
a path leads to the file it names.  createFileSystem (fs/vfs.cpp:79-90) makes a DeviceFS
for FAT32 too, so no mounted file system reaches it in this tree.

**Memory** (mm/kalloc.cpp, vm.cpp; allocVma and mmap in proc.cpp and syscallfile.cpp;
proc/exec.cpp).  State: a free list under a spin lock, page tables, per-process areas.
Operations: kalloc, kfree, walk, MapPages, vmunmap, Uvmcreate, freewalk, the page fault,
mmap, munmap.  Hard: the list runs out in the middle of building a table; tables are undone
while others build theirs; the areas of a process may lie on each other.  Correct when no page is used twice, and a process finds in
its memory what it has mapped.  Several callers pass size and physical address to
MapPages in the wrong order (proc_pagetable, Uvmalloc, UvmInit, Uvmcopy).

**Traps** (trap/trap.cpp, kernelvec.S, proc/trampoline.S, syscall/syscall.cpp,
sync/timer.cpp).  State: the hart's control registers, each process's trapframe, the
frames of nested traps.  Operations: uservec, UserTrap, syscall, UserTrapRet, userret,
kernelvec, KernelTrap, the timer's yield.  Hard: one set of registers for everybody,
and a switch in the middle of a KernelTrap.  Correct when every process finds its
registers as it left them.

**Interrupts** (trap/trap.cpp's DevIntr, trap/plic.cpp, the firmware's trap handler).
State: PLIC, mie, mip, sip, stval.  The K210 has no supervisor external interrupt: the
firmware forwards one as a software interrupt, masks, and relies on the kernel to have
it unmasked.  Correct when each device interrupt is recognised and served, and ticks go
on.

**Boot** (init/main.cpp, driver/fpioa.c, sysctl.c, gpiohs.c, sdcard.cpp's sd_init).
State: which function each pin has, clocks, the card's state.  Hard: answers of the card
get lost and commands are repeated.  Correct when the functions are where the driver
looks for them, and driver and card agree on what an address is.

**Buffer cache** (fs/bio.cpp): only its `init` is called.  **Timer** (sync/timer.cpp):
ticks and their lock; it is in `Sched`, `Traps` and `Interrupts`.

Not the kernel's own logic or not built: **virtio disk** (fs/virtio.cpp, QEMU only),
**firmware** apart from what it does to interrupts (src/rustsbi, vendored), **user
programs** (src/user; what init does is process 1 of `ProcTree`), **kernel library**
(libs/), **flashing tool** (src/tools).

## 2. What the models take as given

**The two layers.**  As it is written, the kernel stops early: pop_off panics when it
closes a push_off that is not the outermost (trap/intr.cpp:24), so any two nested locks
end in a panic; prepareSched's first assertion lacks its `!` (proc/proc.cpp:305); no
system call is in the table, since syscall_init is never called; proc_pagetable maps the
trampoline to the wrong place.  A model that stopped there would say nothing of the rest.
So each such place is a constant, and the properties are stated of both layers where
they hold of both:

| constant | module | as written | as meant |
|---|---|---|---|
| `Asserts` | `Sched` | TRUE: sleep and yield panic | FALSE: pop_off and prepareSched panic where their comments say |
| `EndsClose` | `Pipe` | FALSE: vfsclose is empty | TRUE: the last close of an end reaches pipeclose |
| `Workload` | `ProcTree` | which defects' steps are switched on: "full", "childless", "overlap" | {} |
| `Known` | `Traps` | {FALSE}: every system call panics | {TRUE, FALSE} |
| `Swapped`, `Inverted` | `Memory` | {TRUE} | {FALSE} |
| `Overlap` | `Memory` | TRUE: allocproc may find a slot that fork has not made RUNNABLE yet | FALSE |
| `Preempt` | `Files` | FALSE: interrupts stay off after the first lock | TRUE |
| `Skips` | `Fat` | {TRUE}: freeing a chain looks one entry too far | {FALSE} |
| `Acks` | `Interrupts` | {FALSE}: acknowledged under QEMU only | {TRUE} |

A constant that is a set is chosen once, in Init, and a run with both members checks
both layers.  `SpinLock` is the code as written; `Pipe`, `ProcTree`, `Disk`, `Console`,
`Traps` and `Memory` stand on a pop_off that nests and restores interrupts.  Where the
kernel as written gets as far, interrupts stay off after the first lock and fewer steps
interleave, so that what is safe in these models is safe there.

`Files` and `Mounts` follow the code as written here: from the first lock of a call to
its end nobody else runs (`masked`), and only a lookup of an absolute path, which takes
no lock, is interrupted.  With `Preempt = TRUE` TLC finds `RefsCover` violated: two opens
get one handle (vfs.cpp:92-100).  So what is said of counts and of the table of files is
said of the kernel whose interrupts stay off, and would not survive the repair of pop_off.

`Overlap` is the other such case.  Between allocproc, which finds an UNUSED slot and gives
its lock back, and fork's RUNNABLE a second fork can be given the same slot
(proc/proc.cpp:206); the interrupts that stay off keep it from running.  `Memory` has a
pop_off that restores interrupts, and says what it says of forks that do not overlap;
with `Overlap = TRUE`, three slots, 13 pages and no areas TLC finds ActsAsAddressSpaces violated.

**A close that strays.**  sys_close (syscall/syscallfile.cpp:42-53) stores NULL at
`ofile[fd]` for any fd.  A descriptor is closed, and a number from -NOMMAPFILE to -1
clears an element of `vma`, which lies before it; `Files` has both.  Any other number
clears a word of workDir, of another process, of a lock, and no property of any module
is claimed of what follows: in `Files` and `Mounts` it is the step `CloseStrays`, after
which the properties promise nothing; the other modules leave it out.

**Composition.**  Modules meet at named facts instead of in one large state space:
`Sched` uses a spin lock as its holder, which is `SpinLock`'s MutualExclusion and
HoldingExact; `Pipe`, `Console` and `ProcTree` take what a call does under a lock on
hart 0 as one step, which is `Sched`'s NoLostWakeup and `SpinLock`'s InterruptsOff;
their fairness is `Sched`'s RunnableRuns; `Traps` has device interrupts whose DevIntr
recognises them, which is `Interrupts`' RecognisesDevices, and leaves their handling to
`Console` and `Disk`; `Fat`'s one step between two fetches stands on `BlockDevice`, which
`Disk` implements; `Memory` and `Files` share the areas, `Files` with their files and
`Memory` with their addresses and pages.  Two modules are composed by extending: `Boot` leads into
`Disk`'s behaviours, `Mounts` into `Files`'.  Where a fact is not there, the model does
not assume it: dmac_wait_idle's test lies outside the lock it sleeps with, and is a step
of its own in `Disk`; wakeup from hart 1 is step by step in `Sched`.

**Interrupts.**  A handler runs on either hart.  `SpinLock` lets one run wherever SIE is
set, also between push_off's read and its intr_off; `Sched` has handlers on hart 1
write `p->state` at any moment; `Disk`'s handler and device go on at any moment;
`Interrupts` has machine traps between any two steps of a handler.  `Console`'s handler
runs on hart 0; on hart 1 it would race with consoleread (hazard at console.cpp:34),
and nothing is claimed about that.

**Boot.**  SPI0's clock runs when main begins (nothing in the kernel enables it).  A
byte that is lost on the wire makes an answer silent or an error, never a different
success.  The bytes clocked out for the card to finish are sent with its select line
low, as the code does, and are part of the command before.  Hart 1 and interrupts during
boot are left out: neither touches pins, clocks or card.

## 3. The modules

**SpinLock.**  `locked`, `owner` are the lock's words; `sie`, `noff`, `intena`, `old` the
hart's; `pc`, `fn`, `arg` where it is; `inIntr`, `saved` the frame below a handler;
`held` is a history variable: the locks the client may rely on.  One access to shared
memory is one action: `ReadLocked` and `ReadCpu` are the two operands of holding's
`&&`, `TestAndSet` one turn of acquire's loop, `SetCpu`, `ClearCpu`, `Unlock` one
store each; `PushOff` and `PopOff` are what runs with interrupts off on memory of the
hart's own.  panic() spins for ever and is an absorbing `pc`.  A client may call
acquire and release with any lock at any time; whoever abuses them panics.

**Sched.**  `state`, `onChan`, `plock` per process; `lk` and `event` are one condition
and its lock, the pattern all callers of sleep share; `cur` is what hart 0 executes;
`spc`, `si` are scheduler's place and index; `wi` is the loop variable of each wakeup.
sleep's statements are actions of their own (`SleepAcquire`, `SleepRelease`,
`SleepChan`, `SleepState`, `PrepareSched`, `ReturnToSleep`, `Reacquire`), and so are
the test and the store of wakeup (`WakeTest`, `WakeWrite`), because hart 1's wakeup
falls between them.

**ByteChannel** is a bounded FIFO queue with two ends; **Pipe** the code, with the
counters modulo `Wrap`, requests, the sleeps in their middle, failing copyin and
copyout, and closing.  `EndsClose = FALSE` is the empty vfsclose of the tree.

**ProcTree.**  One slot of `procTable` is one process; a step ends where the timer may
switch the process out (it holds no lock).  `ForkAlloc`, `ForkParent`, `ForkReady`
are fork's three stages, `ExitReparent` and `ExitZombie` exit's two.  `xstate` is a
pair: the status and how often wait4 has shifted it.  `Workload` switches on what
leads to an overrun or a panic as written ("full", "childless"), and "overlap", forks
that interleave.

**BlockDevice** is a set of sectors whose reads and writes take effect in one step;
**Disk** the path: `locked` the sleep lock, `pc` a call's place, `card` the command's
progress, `dma` whose transfer the channel makes, `irq` its interrupt, `handler`
dmac_intr between clearing the interrupt and its wakeup.  Register layouts are left
out.  Where the card answers with an error or not in time the code panics: after
releasesleep (`GivesUp`), once without (`TokenFails`).  panic only spins, so the others go
on; `by` is whose command the card has, and a card that is given one while it is still at
work for a panicked process is "lost": from there on anything is read and written.
BlockDevice has such calls fail, a failed write take effect late or never, and promises
nothing of a device that is lost.

**LineEditor** is a line that is typed, erased and delivered; typing further ahead than
the ring has room spoils what waits but not its length, as consoleintr does.
**Console** is the ring with its indexes.

**Pins** is fpioa.c: `io` maps each pin to its function, with the pulls apart, and
`function_config` is the table of what a function asks of its pin, row by row.
**Boot** is main up to the scheduler: `step` its place, one command of sd_init with its
answer per step, `sd` the card with its mode, `timeout` the tries that are left; `noisy`
lets answers get lost.  From "scheduler" on, its steps are `Disk`'s.

**FileTable** has descriptors and areas that refer to open files, until all is `lost`;
**Files** the handles with `ref` and `mode`, `ofile`, the areas `vma` and the table `area`
they are taken from.  An open is two steps, the search under the lock and the rest (`at`,
`f0`, `f1`).  close is three actions: of a descriptor (`Close`), of a slot of `vma`
(`CloseSlot`), and of anything else (`CloseStrays`).  registFileHandle refuses what is
above NFILE although NOFILE is more, and dup3 then leaves `ref` raised (`Dup3Fails`);
getFileByFd lets NOFILE through, and vfsdup of what lies there panics (`DupPanics`).
**Mounts** adds the slots `mountedFS` and the lookup of each process, `look`, one slot per
step; `due` and `unmounted` are history variables: what the lookup ought to consider.

**Processor** gives each process registers that change by its own instructions and calls
only; **Traps** has `sepc`, `scause`, `sstatus`, `stvec` once, each process's trapframe `tf`,
the frames of nested KernelTraps, and `kpc`, where each thread is in the kernel.  Where the
code runs with interrupts off a stretch is one step; where it should and does not, a
trap can come in.

**Interrupts** has the machine's registers of each hart and DevIntr step by step; one
trap of the firmware is one step, since it runs with everything masked.

**AddressSpaces** gives each process pages at addresses; **Memory** has the free list,
what each page holds, tables of `Fan` entries on three levels, and every call of kalloc
and kfree as a step of its own, so that others come in between and the list runs out
anywhere.  An area is an address and a length in bytes, as sys_mmap computes them from
the lengths of the areas that are there: after a munmap it may lie on another one, and
unmapping either takes the page that both have.  `at` is where a thread is; a thread whose
panic finds no lock held spins, and the others go on.

**Names** has lookup and ls as operators on directories: `Entries` of names as the FAT
specification lays them out, the comparison backwards over long entries, the walk.
**Fat** adds the state: `stored` and `buffer` are the allocation table on the card and the
sector of it in memory, `doing` where open, the freeing of a chain or a read is; a step is
what happens between two fetches of a sector.

## 4. The runs

| run | question | instance | distinct states |
|---|---|---|---|
| `spinlock` | do locks exclude, mask and count in every interleaving of two harts and their handlers? | 2 harts, 2 locks, symmetric in both | 50 438 |
| `sched` | are locks handed over, wakeups kept, processes run? | 3 processes, handlers on hart 1 | 28 555 |
| `proc_tree` | fork, exit and wait in every order | init and 2 slots, 2 statuses | 73 742 |
| `pipe` | is it a FIFO channel that wakes, ends and is freed safely? | 1 reader, 2 writers, ring 2, counters of 2 bits, requests to 3 | 114 808 |
| `traps` | does each process keep its registers, and share the hart? | 1 process that forks a second, registers of 2 values | 98 123 |
| `interrupts` | are devices and ticks recognised and served? | 2 harts, 2 sources, 2 characters, kernels that acknowledge and that do not | 103 510 |
| `interrupts_k210` | does the timer outlive a device interrupt on the K210? It does not | 1 hart, 1 character | - |
| `memory` | is a page used once, is what is mapped found? | 2 processes (symmetric), 10 pages of 2 bytes, tables of 3 entries, areas of 3 bytes, munmaps of 2, allocproc 3 times | 372 406 |
| `files` | do descriptors share and keep open files; do paths find their mount? | 2 processes (symmetric), 2 handles, 4 descriptors, 2 areas; 3 slots, 3 mount points, 3 paths | 871 648 |
| `disk` | is the card found and agreed with, and then a device of atomic sectors that does not stop? | 4 kinds of pin before, 4 cards, noisy or not; 2 processes, 2 sectors, 2 contents | 284 328 |
| `fat` | do chains, reads, lookups and ls get what they are meant to? | 2 files, 5 clusters, 3 table entries to a sector, reads of 4 bytes over clusters of 2; names of 0 to 4 characters, 2 to a long entry | 256 612 |
| `console` | is it a line editor whose lines are read? | 2 readers, ring 3, requests to 3, 7 characters | 18 913 |

**Why the bounds are enough to mean something.**

- Two harts and two locks give nesting, contention and a handler that takes the
  interrupted code's lock.  Three processes let one sleep while a second raises the event
  and a third is between the two.
- In `proc_tree` init, a parent and a child are what orphans need, and two slots mean that
  each is reused; the table of four also has slot 0, which allocproc never gives out.
- A ring of two and a request of three force a sleep in the middle of a write, and with
  counters modulo 4 both ring and counters wrap; a second writer competes for the room.
  `Wrap` is a multiple of `PIPESIZE` as 2^32 is of 512.  A ring of three with seven
  characters is overrun and wraps twice.
- In `traps` the second process comes from fork, so that both ways into user mode occur.
  Registers are told apart by two values and two program counters: a frame of one that
  reaches the other shows.
- In `interrupts` each hart can have a device interrupt and a tick at once, and two
  characters let a source stay raised while it is handled.
- In `memory` a process takes four pages (its trapframe and three tables) and the pages of its
  areas, so that ten run out while the second is being made or maps, and are enough for both
  to live and have a page mapped at once.  `Fan` = 3 has an area's two pages in two tables, one of
  them that of trampoline and trapframe.  Areas of three bytes are two pages, of
  which a munmap of two bytes takes one and leaves a byte of length: the next area then lies
  on what is left, and unmapping one takes the other's page.  Each of these was seen in the
  run: two live processes with a page each, overlapping areas, a page that one area takes
  from another, unmaps of several pages, a thread that spins, zombies that have areas.
  `MaxForks` bounds how often allocproc is called, since the free list's order goes by all
  that was ever allocated.  `Lengths` and `Sizes` are positive in the run (0 and negative
  ones are in the definitions and the proofs).  Three slots pass too (710 446 states).
- In `files` two handles run out at once and are the two ends of a pipe; two areas are one
  fewer than both processes can ask for; of four descriptors dup3 is refused the last, as it
  is refused 101 to 119 of 120.  Three slots are the two of vfsinit and one that
  is mounted, unmounted and reused; the mount points are prefixes of each other, and one
  path ("/de") begins with a mount point in the middle of a component.  Nobody has files
  open while file systems come and go (`NoFiles`): the two only share the process that
  calls.  A lookup by a relative path is not interrupted, one by an absolute path is.
- In `disk` the sectors are 0 and the last whose byte address 32 bits hold; `Tries` = 2 and
  `SlowTries` = 3 let a loop succeed at its first and last try and run out.
- In `fat` the table's eight entries take three sectors, so that a chain crosses them in
  every order; a file has up to three clusters.  Names of up to four characters take no,
  one or two long entries, exactly full, with a terminator or padded.  `Plain` volumes
  have every chain, the others every arrangement of names (`Trees`).  A handle is free
  for every call, and a cluster for a read that takes one.
- `MaxN`, `MaxIndex`, `MaxRef`, `MaxLen`, `MaxChars` and `MaxSlow` are the bounds on otherwise
  unbounded quantities (the console's 32-bit indexes take 2^31 characters to overflow);
  `Shifts` is the three shifts by 8 that a 32-bit xstate stands before its status is gone.

**What they show.**  Each property of a passing run is broken by at least one plausible
change of the code, kept in the modules as operators marked `Mutant` and listed under
`mutants`: a dropped wakeup, an `if` for a `while`, an index raised too early, a loop
one slot short, a counter not wrapped, a register not saved.  Most properties are about
several actors or several steps; the type invariants are not run but proved, where there
are theorems.

`CHECK_DEADLOCK FALSE` stands in the runs whose system may stop: absorbing panics, a pipe
all have closed, a keyboard that has used up its bound, a volume on which nothing is
asked for any more.  `sched` and `interrupts` are checked for deadlock.

## 5. Where the code departs from what its text says

**Found violated by a run.**  `interrupts_k210`: the firmware says that a machine timer
interrupt is forwarded to a supervisor timer interrupt (src/rustsbi/rustsbi-k210/src/main.rs:429),
and masks it while a device interrupt is on its way; the kernel acknowledges that under
`#ifdef QEMU` only (trap/trap.cpp:177).  On the K210 the first key press ends all ticks.

**Met while modelling.**  These have no run of their own; each is a step, a constant or
a bound in the module named, so that TLC shows it when the constant is set.

- *Locks.*  pop_off turns interrupts on only when `noff` is 1 after its decrement, which its
  own panic excludes: after the first acquire and release interrupts stay off until
  somebody calls intr_on, and `intena`, which is recorded rightly (IntenaIsBefore), is never
  used.  prepareSched's assertion `holding` lacks its `!` (proc/proc.cpp:305): with
  `Asserts = TRUE` the first sleep or yield panics.
- *Wakeups.*  The lock of `p->lock` in wakeup is commented out (proc.cpp:332-335), although
  :278-279 argues from it that no wakeup is lost.  Among callers on hart 0 none is
  (NoLostWakeup); one from hart 1 can be.
- *Processes.*  wait without children returns -1 and keeps `p->lock`; allocproc's loop does
  not end at the end of the table (`ForkOverruns`); two forks under way get the same slot
  (proc.cpp:206, masked by the interrupts that stay off; `Workload = {"overlap"}`); init's
  `wait(0)` asks for process 0 and returns at once (src/user/init.c:8).
- *Files.*  vfsclose is empty: handles are never freed, pipeclose never runs and readers
  never see the end of the file.  sys_close checks no number (`CloseSlot`, `CloseStrays`),
  registFileHandle compares with NFILE and not NOFILE (`Dup3Fails`), getFileByFd is off by one
  (`DupPanics`).  vfswrite reports 0 bytes for a pipe (vfs.cpp:186).
  allocVma returns 0 when its table is full and the callers write through it.
- *Mounts.*  vfsgetFs tests the path's end by the slot's number (vfs.cpp:64), so that a path
  shorter than that number matches any file system; without a match it returns slot 0
  even if that is empty; its prefixes do not end at a "/".  vfsumount deletes a file
  system others may be using.  vfsopenat computes a path and opens another.
- *Disk.*  dmac_wait_idle tests the channel before it takes the lock it sleeps with; the
  interrupt may be handled in between, and the process sleeps for ever with the disk
  locked.  LockWaitersWoken says that this and a panic with the lock held (sdcard.cpp:362)
  are the only ways for the disk to stop.  The other panics give the lock back
  (sdcard.cpp:354, 396, 415, 425, 437), also while the card may still be programming: the
  next process commands it then.  CommandsApart and BlockDevice have this as the one
  exception and show that there is no other.  A card whose answer to ACMD41 is lost is ready and fails the next CMD55: panic.
- *Traps.*  A tick that finds no process, or hart 1, is dereferenced in KernelTrap
  (trap.cpp:140).  syscall_init is never called, so every system call panics (`Known`).  A
  machine interrupt between a page fault and its read of stval makes the fault one at
  address 9, and the process is killed.
- *Memory.*  proc_pagetable swaps MapPages' arguments and vmunmap's test is inverted
  (`Swapped`, `Inverted`): as written no process can be created.  allocproc ignores a failed
  page table; a fork that fails half way leaks its trapframe; munmap and exit leak
  the pages of areas; a fault in an area without PROT_READ maps it twice and panics.  A new
  area's address may lie on an old one after munmap (syscallfile.cpp:242-245), so that one
  process's munmap of the one takes away pages of the other; across processes nothing is
  shared (`Memory` computes the address the same way).
- *FAT32.*  tf_fwrite copies over its own parameter (fat32.cpp:1430).  Opening an existing
  file to create it frees every other cluster of its chain and loses the rest
  (`Skips`); the search for a free cluster may give out one past the last; a read past
  the first cluster may allocate; open with O_DIRECTORY of a file leaks one of the five
  handles, and so does every ls.  A long name is compared with the length of the whole
  remaining path (fat32.cpp:1334), so that a long-named directory on the way is not found
  by it; a deleted long entry ends a search (:1371) but not a listing; "/.x" opens "x"; of
  two slashes in front, or three further on, one is left and nothing is found (:502);
  whether what is walked into is a directory is not checked.  ls tests for less room
  than it writes (:174, :210) and lists deleted files under a damaged short name.
- *Console.*  consoleintr races with the reader when hart 1 handles it (console.cpp:34).
- *Build.*  The makefiles build part of the objects, and some names do not match
  (kernvec and kernelvec, clockInit and initClock): the tree does not link as it is.

The sleep lock is not fair: a process that asks again at once may overtake its waiters
for ever, and nothing in the code promises otherwise.

## 6. Fairness

- `Sched`: hart 0 never stops executing; strong, because acquire's loop finds a lock
  of hart 1's handler free between two interrupts, though not at every moment.  A
  handler on hart 1 that has started goes on.  `Yield(p)` is strong for each process:
  in user mode nobody can mask the timer.  From this, RunnableRuns.
- `Pipe`, `Console`: a process that has been woken goes on (RunnableRuns).  No
  process has to call, no key has to be pressed.
- `ProcTree`: the scheduler's round comes to every zombie, and a process in a system
  call goes on.  Nobody has to fork, exit or wait.
- `Disk`: RUNNABLE processes run, the transfer and the card's programming end, and the
  PLIC delivers a raised interrupt.  A handler that finds nothing to wake is still run.
  `Boot` adds that hart 0, alone, goes on with main.
- `Traps`: code in the kernel goes on; the scheduler's round reaches every process
  (strong: the round is what `Sched` has); the timer that is set interrupts, strong
  because code that can be interrupted alternates with code that cannot.  No
  process has to leave user mode by itself: HartIsShared rests on the timer.
- `Interrupts`: handlers, the firmware and the clocks go on, and a software interrupt is
  taken, since no code keeps interrupts off for ever; a timer interrupt is taken if it
  can be again and again (strong), as software interrupts come first.  Its properties
  say what they need of the devices: ticks arrive once devices go quiet, the UART is
  served unless the disk never is quiet, because the PLIC offers the disk's lower number
  first.

## 7. The theorems

Each holds for every value of the constants that satisfies the assumption its module
declares: `NullAssumption` (SpinLock), `SchedAssumption`, `ProcTreeAssumption`,
`PipeAssumption`, `MemoryAssumption`, `TrapsAssumption`, `InterruptsAssumption`, `FilesAssumption`,
`MountsAssumption`, `DiskAssumption`, `BootAssumption`, `FatAssumption`, `ConsoleAssumption`.  TLC
evaluates them in the runs.  They say what is a number, that names of nothing are not names of something,
and little else: NFILE is less than NOFILE (100 and 120), a process table has a slot for init and one more, the pipe's counters
wrap at a multiple of its ring that is not the ring itself, the set of processes of
`Files` is finite, root and dev are two mount points, a page table has two entries or more.

**MemoryProofs** is about spin locks and about what kmem.lock, one of them, guards; it extends
`SpinLock` and `Memory` (whose Init, Next and Spec are named MemoryInit and so on).

`SpinLock` (any harts, any locks): `Exclusion`, `HoldingIsExact`, `Masked` and
`IntenaRecords`.  MutualExclusion is not inductive: it says
nothing of a lock whose word is taken while `lock->cpu` is still null, or cleared
already.  `WordInv` says that one hart at most possesses a lock in those windows too, that
its word is set while one does, and that `lock->cpu` names exactly the holder; `CallInv`
ties `pc`, `fn` and `arg` and says what holding's answer has established; `DepthInv`
counts the push_off of a call in progress beside the locks held; `MaskInv` has SIE clear
while `noff` is not 0 and lets an interrupted push_off resume with the SIE it read.
That `noff` counts the locks and that `intena` is what push_off cleared follow, because a handler that runs between push_off's
read and its intr_off gives back every lock it took.

`Memory` (any processes, pages, mapped addresses, any size of a table, Swapped and Inverted as
written, as meant, or both, areas of any length wherever sys_mmap computes them): `PagesStayApart`,
`MemoryTypeCorrect`, `Invariance`, `MemoryIsAddressSpaces`, all under the hypothesis ~Overlap.  PagesApart
says where pages are and nothing of what a thread is about to do with those it has taken, which
root it works on and whether that is a tree, so a step can break it from a state that it allows.
The invariant, `MemoryInv`, names every use that a page can be put to (`Claims`: the free list, a
thread's hand, a trapframe, the tables of a root, the page at an address) and says what pages
each has (`Has`); `Apart` is that no two share a page.  Then most steps are one sentence: a page
moves from this claim to that one and no other grows (`Moved`, `Kept`, `Passing`).  What says
that it does move only once is `Task`: a thread is serving itself, making a process or reaping
one, and where it is in that tells what it has; `Alone`: no two threads are about the same child
or the same root; `Slot`: what a process has, by its state.

Two of the lemmas are about recursion.  The tables of a root are what two levels of entries refer
to (`TablesOf`), and freewalk's order, a FlattenSeq of FlattenSeqs, has each of them once
(`TablesIs`): this is induction over the length of a sequence, from a least counterexample
(`Least`, `UpTo`), which is how a set rather than an operator can carry it.  walk has three
levels, so its recursive function is three equations (`WalkIs`); in a tree two addresses meet in
the same entry only if they are equal (`Paths`, `OneWay`), and this is what MapPages, walk's new
table and vmunmap need to change what they are about and nothing else (`LeafTree`, `LinkTree`,
`ClearTree`).

`MemoryIsAddressSpaces` is the refinement of `AddressSpaces` by `Memory`.  What a process finds
at an address is the end of a walk and then the content of a page, and MemoryInv says nothing of
contents.  `ViewInv` does: what a root maps for areas is a page of zeroes or of a file
(`FilledAt`); a process that runs has its own registers at TRAPFRAME and the trampoline
(`Equipped`); a thread in the middle of MapPages finds nothing yet where it maps, and the page it
holds is zeroed, or is the trapframe of the child that it makes (`Laid`).  Then each step of a
thread changes nothing that any process finds (`Still`: taking and giving back pages, new tables,
everything done to a process that does not run), or it changes it for one process (`OnlySees`),
by a Start, a Map, a Read, an Unmap or an End.  An address says nothing of which area it belongs
to, so that areas that lie on each other need no case of their own.  That the others do not see it is what MemoryInv
is for: a page in a thread's hand is at nobody's address, and an entry that changes is in the tree
of one root.

**ProcTreeProofs** (a table of any size).  `TypeCorrect` and `StatusDelivered` hold for
every workload; `TreeIsSound` and `WaitersAreWoken` while forks do not overlap, the
hypothesis `"overlap" \notin Workload`.  The invariant `Tree` is TreeSound,
NoWaiterForgotten, `PcInv` (what each `pc` says of its process: one that is exiting is
not init and has no children left, one in wait4 is the parent of whom it waits for) and
`ForkInv` (one fork at a time, its slot free and its own).  They are needed because exit
is two steps: between reparenting and ZOMBIE no child may appear or come back.

**SchedProofs** (any number of processes, with or without wakeups from hart 1).
`HandedOver`, `NobodyIsStranded`, `NoWakeupLost`, `NeverPanics`, `TypeCorrect`.  What carries
LockHandoff is where control is (`PlaceInv`: hart 0 runs slot si or the scheduler, everyone
else is at a pswitch) and which locks hart 0 holds there, which noff counts (`HoldInv`).
`StateInv` says what a state tells of its process: RUNNING only while hart 0 is in it,
SLEEPING only with its channel set and on its way out or away.  NoLostWakeup needs
`EventInv`: between a process's test and its SLEEPING nobody on hart 0 can have raised the
event, because the condition lock, then p->lock with interrupts off, keep them away.
`PanicInv` is NeverPanics: it is stated for ~Asserts, where pop_off and prepareSched panic
only on what their comments name.

**PipeProofs** (any ring, readers, writers and bytes, any width of the counters).
`PipeIsByteChannel`, `NobodySleepsInVain`, `DeletedIsUnused`, `TypeCorrect`.  nread and nwrite
wrap, so the lemmas on the ring are about remainders: as PIPESIZE divides Wrap, a
counter's slot is the same before and after the wrap, slots less than PIPESIZE apart
differ, and `nwrite - nread` modulo Wrap is what is in the ring although either may have
passed the other.  Then a byte stored is an Append to the queue and a byte read its Head.
`EndsInv`: whoever has a handle keeps that end open and nobody else is in a call;
`CallInv`: a write that sleeps has bytes left.

**DiskProofs** (any processes, sectors, contents).  `DiskIsBlockDevice`: reads and writes
are atomic, a read when its transfer ends, a write when the card programs it.
`CommandsStayApart`, `DiskTypes`.  The invariant: who is between acquiresleep and
releasesleep is the lock's holder, `Stage` says what card and channel are doing at each
of its places, and `CardFree` what they do when nobody is: nothing, or what a panicked
process has left.  No wakeup and no interrupt appears in it: safety of the disk does
not depend on them, only its progress does.  The same module proves about `Boot`, which
starts at power-on: `BoardIsReady`, from `PinsGiven` (which pins have their function
after each call of fpioa_set_function) and `AgreedInv` (what driver and card agree on
after each command of sd_init, whatever kind of card it is and whatever answers were
lost), and `BootedDiskIsBlockDevice` and `BootedCommandsApart`, since main does nothing to the
disk path but clear the channel's interrupt.

`Fat` is in the same module (any files, volume, width of the table's sectors, size of a cluster,
offset and count; a driver that frees all of a chain, that leaves the last, or either):
`FatInvariance`, `ClustersAreAccountedFor`, `ReadsReturnTheirOwn`.  Both properties speak of
what Chain finds by following the table, and neither is inductive: while a chain is freed or
grows, the table leads nowhere for some steps, and what a read has returned says nothing of
where its handle is.  `FatInv` says instead that there is a layout, a sequence of clusters for
each file, which the code keeps nowhere.  `CacheInv` makes the table one thing, although its
newest entries are partly in memory; `LinksInv` has the table lead along the layout, but for
the chain that is being cut or has just grown; `AccountInv` has each other cluster free, if the
driver frees them all; `CutInv` says how far a chain has been freed, also for the driver that
goes on one entry too far; `ReadInv` where on its chain the handle is, and that what has been
returned is the file up to there.  Then most steps leave the table as it is (`Quiet`), and the
others set one entry of one chain (`SetInChain`); only Mark and Link change the layout.  That
Chain finds the layout (`ChainIs`) is the end of a recursion, which a least counterexample
reaches (`Climbs`); and it fits into LastCluster steps because its clusters differ (`ChainFits`).

**ConsoleProofs** (a ring of any size, any readers).  `TypeCorrect`, `NoLineIsMissed`,
`ConsoleIsLineEditor`.  `SlotsApart`: indexes less than INPUT_BUF apart have different
slots, which is what makes a store into the ring an Append to what is pending as long as
there is room (`StoreAppends`), and spoil only what was there when there is none
(`StoreEnds`); `SegmentParts` makes a read a SubSeq.

**MountsProofs** (any slots, mount points and paths).  `LookupsAreSound`.  A lookup looks
at one slot after the other while the table changes, and returns an index; that what
lies there in the end is the longest match needs three facts.  `TableInv`: `points`
counts the slots that hold each mount point, so that what is mounted is in some slot.
`BestInv`: what has been found lies at `best`, is a prefix of the path and has the
length that is remembered.  `Kept`: a mount point that was due when the lookup began is
in a slot it will still come to, or no longer than what it has found.  A mount fills an
empty slot, which disturbs none of them; an unmount ends the claim (`unmounted`).

`MountsProofs` is also about the `Files` that `Mounts` extends (any processes, handles,
descriptors and areas), up to a close that strays; from then on FileTable is lost.
`AreasStayApart` holds for every build.  `RefsAreEnough` and
`FilesAreFileTable` have the hypothesis ~Preempt, that no call is switched out after it has
released a lock of the tables; it is what the runs check too, because with Preempt TLC
refutes RefsCover (two calls can be given one handle).  The count of uses is a sum of two
cardinalities; the lemmas on it say that a step changes one use at a time, and by how
much.  `PickedInv` is what it needs beside: a handle that a call has picked and not
registered yet has no uses, and two calls have not picked the same.

**TrapsProofs** is about both sides of a trap, which is why one module extends `Traps` and
`Interrupts` (whose Init, Next and Spec are named InterruptsInit and so on).

`Traps` (any processes and values): `TrapsAreNested`, and `HartsAreProcessors`, the refinement of
`Processor`.  TrapsNestRight speaks of the moment of a trap; the invariant says what the
hart's registers hold at every line in between.  `PlaceInv`: who has the hart, and that
everybody else is behind a pswitch.  `ModeInv`: the mode, the vector and SIE at each line.
`FrameInv`: at most one KernelTrap is active in a thread, and it knows where to go on.
`CsrInv`: what sepc and sstatus say from the trap until they are read, though a switch and
other processes' traps may lie in between.  For the refinement, where a process's
registers are - on the hart, in its trapframe, in sepc and a0 - follows from its line
alone (`ViewIs`); a step is then compared with the abstract processor's, action by action:
an instruction, a call, a return, an exit, a fork, or nothing.

`Interrupts` (any harts): `DevicesAreRecognised` and `NothingStaysMasked`.  `MarkInv`:
from the firmware's store until DevIntr has cleared SSIP, stval says 9; user code
takes the software interrupt before it can fault, and one in DevIntr does
not fault.  MaskedForAReason is inductive with it, for kernels that acknowledge and for
those that do not.

**Only model-checked.**

- What must eventually happen: RunnableRuns, ReadersSeeTheEnd, InitWokenForZombies,
  LockWaitersWoken, LinesAreRead, HartIsShared, InterruptsServed, TicksArrive, CardFound.
  Liveness under fairness and ENABLED are out of the prover's reach.
- LeadsThere and LsListsWhatOpens, of `Names`: paths, long names and directories are walked by
  recursions within recursions (Walk, FindFile, Directory, Listing, FoldLeft, SelectSeq).  What they
  return for every volume is an induction for each of them, over data whose shape (what mkfs.fat
  may have written) would first have to be a formula.

## 8. What is not modelled, and what comes next

Section 1 lists every part; `PROJECT.json` gives each its status and reason.

- *Cannot be modelled faithfully, because the code is undefined or ends at once:* writing to
  FAT32 (tf_fwrite); exec, which copies from the page table nobody sets; growproc, brk and the
  copy of memory in fork, which use that table too; the real-time clock, which needs functions
  that are defined nowhere; virtio, which does not compile.
- *Not reached:* the buffer cache beyond its init, sleepTime, uartIntr and buffered output,
  the DMA and SPI modes nobody calls, TrapEntry.S.
- *Abstracted:* register layouts; registers other than a0 and the program counter; times and
  getpid; formats of stat and getdents; output and echo of the console; names, messages and
  logging everywhere; what happens to a call in a file system that umount has deleted; races
  inside `Fat`, which has one caller at a time although nothing in the driver sees to that
  (hazard at fat32.cpp:311).

Theorems worth proving next: that FindFile finds the one file of a well-formed directory that a
name means, from which LeadsThere starts.
