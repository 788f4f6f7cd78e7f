---------------------------- MODULE MountsProofs ----------------------------
(***************************************************************************)
(* Proofs about Mounts and the Files it extends, for any number of slots,  *)
(* processes, handles, descriptors and areas, and any mount points and     *)
(* paths.                                                                  *)
(*                                                                         *)
(* A lookup that nothing is unmounted in is sound.  The slots change under *)
(* its hands; what carries it is that a file system mounted when it began  *)
(* still is in a slot it will come to, or its best match is as long        *)
(* already (Kept).                                                         *)
(*                                                                         *)
(* Areas stay apart, and as long as a call is not interrupted after a lock *)
(* is released, counts cover uses and Files implements FileTable: a handle *)
(* that a call has picked has no uses and is nobody else's (PickedInv).    *)
(***************************************************************************)
EXTENDS Mounts, FiniteSetTheorems, TLAPS

\* Where the loop is with the process's path, and what it has found
Looks(l) ==
    l \in [path : Paths, i : 0..NFILESYSTEM, best : FsSlot, length : Nat,
           due : SUBSET Points, unmounted : BOOLEAN]

SlotsOf(q) == {i \in FsSlot : mountedFS[i] = q}

\* slots and calls agree on what is mounted
TableInv ==
    /\ mountedFS \in [FsSlot -> Points \cup {NoFs}]
    /\ points \in [Points -> Nat]
    /\ \A q \in Points : points[q] = Cardinality(SlotsOf(q))

LookType ==
    /\ look = [p \in Proc |-> look[p]]
    /\ \A p \in Proc : look[p] = Idle \/ Looks(look[p])

\* a lookup of a long path that nothing was unmounted in
Undisturbed(l) == l # Idle /\ ~l.unmounted /\ Len(l.path) >= NFILESYSTEM

\* the best match is in the table, and a match
BestInv == \A p \in Proc : LET l == look[p] IN
    Undisturbed(l) /\ l.length > 0 =>
        /\ mountedFS[l.best] \in Points /\ IsPrefix(mountedFS[l.best], l.path)
        /\ l.length = Len(mountedFS[l.best])

Kept == \A p \in Proc : LET l == look[p] IN
    Undisturbed(l) => \A q \in l.due :
        /\ IsPrefix(q, l.path)
        /\ l.length >= Len(q) \/ \E j \in FsSlot : j >= l.i /\ mountedFS[j] = q

MInv == TableInv /\ LookType /\ BestInv /\ Kept

-----------------------------------------------------------------------------
(* Mount points *)

\* NoFs is no place: Len of a place is not 0
LEMMA PlaceNotEmpty == NoFs \notin Points
  BY MountsAssumption DEF NoFs

\* Idle is told from a lookup by its path
LEMMA IdleHasNoPath == ASSUME NEW l, Looks(l) PROVE l # Idle /\ l.path # <<>>
  BY MountsAssumption DEF Looks, Idle

\* The slots of a table that hold q are finitely many.
LEMMA FewSlots ==
    ASSUME NEW S, S \subseteq FsSlot
    PROVE  IsFiniteSet(S) /\ Cardinality(S) \in Nat
<1>1. IsFiniteSet(FsSlot)
  BY FS_Interval, MountsAssumption DEF FsSlot
<1> QED
  BY <1>1, FS_Subset, FS_CardinalityType

\* A place that is counted is in a slot, and the other way round.
LEMMA CountedIsThere ==
    ASSUME TableInv, NEW q \in Points
    PROVE  points[q] > 0 <=> \E i \in FsSlot : mountedFS[i] = q
<1>1. IsFiniteSet(SlotsOf(q)) /\ Cardinality(SlotsOf(q)) \in Nat
  BY FewSlots DEF SlotsOf
<1>2. Cardinality(SlotsOf(q)) = 0 <=> SlotsOf(q) = {}
  BY <1>1, FS_EmptySet
<1>3. points[q] = Cardinality(SlotsOf(q))
  BY DEF TableInv
<1> QED
  BY <1>1, <1>2, <1>3 DEF SlotsOf

-----------------------------------------------------------------------------
(* The invariant is inductive. *)

LEMMA MountsBegin == MountsInit => MInv
<1> SUFFICES ASSUME MountsInit PROVE MInv
  OBVIOUS
<1>1. /\ mountedFS \in [FsSlot -> Points \cup {NoFs}] /\ points \in [Points -> Nat]
      /\ mountedFS[0] = DevPath /\ mountedFS[1] = RootPath
      /\ \A i \in FsSlot \ {0, 1} : mountedFS[i] = NoFs
      /\ {0, 1} \subseteq FsSlot
  BY MountsAssumption DEF MountsInit, Mounted, FsSlot
<1>2. ASSUME NEW q \in Points PROVE points[q] = Cardinality(SlotsOf(q))
  <2>1. SlotsOf(q) = IF q = DevPath THEN {0} ELSE IF q = RootPath THEN {1} ELSE {}
    BY <1>1, PlaceNotEmpty, MountsAssumption DEF SlotsOf
  <2>2. Cardinality({0}) = 1 /\ Cardinality({1}) = 1 /\ Cardinality({}) = 0
    BY FS_Singleton, FS_EmptySet
  <2>3. points[q] = IF q \in {DevPath, RootPath} THEN 1 ELSE 0
    BY DEF MountsInit
  <2> QED
    BY <2>1, <2>2, <2>3, MountsAssumption
<1>3. \A p \in Proc : look[p] = Idle
  BY DEF MountsInit
<1> QED
  BY <1>1, <1>2, <1>3 DEF MInv, TableInv, LookType, BestInv, Kept, Undisturbed

\* A lookup begins: whatever is counted is in some slot, all of which are before it.
LEMMA BeginKeeps ==
    ASSUME MInv, NEW p \in Proc, NEW path \in Paths, NEW relative \in BOOLEAN,
           GetAbPath(p, path, relative)
    PROVE  MInv'
<1> DEFINE l == Begun(path)
<1>1. /\ mountedFS' = mountedFS /\ points' = points
      /\ look' = [look EXCEPT ![p] = l]
  BY DEF GetAbPath
<1>2. Looks(l) /\ l.i = 0 /\ l.length = 0 /\ l.due = Here(path) /\ l.path = path
  BY MountsAssumption DEF Looks, Begun, Here, FsSlot
<1> HIDE DEF l
<1>3. TableInv'
  BY <1>1 DEF MInv, TableInv, SlotsOf
<1>4. LookType'
  BY <1>1, <1>2 DEF MInv, LookType
<1>5. BestInv'
  BY <1>1, <1>2 DEF MInv, BestInv, LookType
<1>6. \A q \in Here(path) : IsPrefix(q, path) /\ \E j \in FsSlot : j >= 0 /\ mountedFS[j] = q
  BY CountedIsThere DEF MInv, Here, FsSlot
<1>7. Kept'
  BY <1>1, <1>2, <1>6 DEF MInv, Kept, LookType
<1> QED
  BY <1>3, <1>4, <1>5, <1>7 DEF MInv

\* The loop comes to the next slot.
LEMMA CompareKeeps ==
    ASSUME MInv, NEW p \in Proc, Compare(p) PROVE MInv'
<1> DEFINE l == look[p]
           i == l.i
           better == Better(l)
           next == Passed(l, better)
<1>1. /\ mountedFS' = mountedFS /\ points' = points /\ look' = [look EXCEPT ![p] = next]
      /\ l.path # <<>> /\ i < NFILESYSTEM
  BY DEF Compare
<1>2. Looks(l)
  BY <1>1 DEF MInv, LookType, Idle
<1>3. i \in FsSlot /\ mountedFS[i] \in Points \cup {NoFs}
  BY <1>1, <1>2, MountsAssumption DEF Looks, FsSlot, MInv, TableInv
<1>4. /\ next.path = l.path /\ next.due = l.due /\ next.unmounted = l.unmounted
      /\ next.i = i + 1
      /\ next.best = (IF better THEN i ELSE l.best)
      /\ next.length = (IF better THEN Len(mountedFS[i]) ELSE l.length)
  BY DEF Passed
<1>5. Looks(next)
  <2>1. /\ l.path \in Paths /\ l.i + 1 \in 0..NFILESYSTEM /\ l.best \in FsSlot
        /\ l.length \in Nat /\ l.due \in SUBSET Points /\ l.unmounted \in BOOLEAN
    BY <1>1, <1>2, MountsAssumption DEF Looks
  <2>2. better => Len(mountedFS[i]) \in Nat
    BY <1>3, MountsAssumption DEF Better
  <2> QED
    BY <2>1, <2>2, <1>3 DEF Looks, Passed
<1>6. TableInv'
  BY <1>1 DEF MInv, TableInv, SlotsOf
<1>7. LookType'
  BY <1>1, <1>5 DEF MInv, LookType
<1>8. /\ \A q \in Proc : look'[q] = IF q = p THEN next ELSE look[q]
      /\ Undisturbed(next) =>
            /\ Undisturbed(l)
            /\ better <=> /\ mountedFS[i] # NoFs /\ IsPrefix(mountedFS[i], l.path)
                          /\ Len(mountedFS[i]) > l.length
  <2>1. \A q \in Proc : look'[q] = IF q = p THEN next ELSE look[q]
    BY <1>1 DEF MInv, LookType
  <2>2. Undisturbed(next) => Undisturbed(l) /\ ~(Len(l.path) <= i)
    BY <1>1, <1>2, <1>4, IdleHasNoPath, MountsAssumption DEF Undisturbed, Looks
  <2>3. Undisturbed(next) =>
            (better <=> /\ mountedFS[i] # NoFs /\ IsPrefix(mountedFS[i], l.path)
                        /\ Len(mountedFS[i]) > l.length)
    BY <2>2 DEF Better, Matches
  <2> QED
    BY <2>1, <2>2, <2>3
<1> HIDE DEF better, next
<1>9. BestInv'
  <2>1. ASSUME Undisturbed(next), next.length > 0
        PROVE  /\ mountedFS[next.best] \in Points /\ IsPrefix(mountedFS[next.best], l.path)
               /\ next.length = Len(mountedFS[next.best])
    BY <2>1, <1>3, <1>4, <1>8 DEF MInv, BestInv
  <2> QED
    BY <2>1, <1>1, <1>4, <1>8 DEF BestInv, MInv
<1>10. Kept'
  <2>1. ASSUME Undisturbed(next), NEW q \in l.due
        PROVE  /\ IsPrefix(q, l.path)
               /\ next.length >= Len(q) \/ \E j \in FsSlot : j >= i + 1 /\ mountedFS[j] = q
    <3>1. /\ IsPrefix(q, l.path)
          /\ l.length >= Len(q) \/ \E j \in FsSlot : j >= i /\ mountedFS[j] = q
      BY <2>1, <1>8 DEF MInv, Kept
    <3>2. q \in Points /\ Len(q) \in Nat /\ q # NoFs /\ l.length \in Nat
      BY <1>2, PlaceNotEmpty, MountsAssumption DEF Looks
    <3>3. CASE mountedFS[i] = q
      BY <2>1, <3>1, <3>2, <3>3, <1>4, <1>8
    <3>4. CASE mountedFS[i] # q
      <4>1. next.length >= l.length
        BY <2>1, <1>2, <1>3, <1>4, <1>8, MountsAssumption DEF Looks
      <4>2. ASSUME NEW j \in FsSlot, j >= i, mountedFS[j] = q PROVE j >= i + 1
        BY <4>2, <3>4, <1>3 DEF FsSlot
      <4>3. next.length \in Nat
        BY <1>5 DEF Looks
      <4> QED
        BY <3>1, <3>2, <4>1, <4>2, <4>3
    <3> QED
      BY <3>3, <3>4
  <2> QED
    BY <2>1, <1>1, <1>4, <1>8 DEF Kept, MInv
<1> QED
  BY <1>6, <1>7, <1>9, <1>10 DEF MInv

\* The call is over.
LEMMA UseKeeps ==
    ASSUME MInv, NEW p \in Proc, Use(p) PROVE MInv'
<1>1. mountedFS' = mountedFS /\ points' = points /\ look' = [look EXCEPT ![p] = Idle]
  BY DEF Use
<1>2. \A q \in Proc : look'[q] = IF q = p THEN Idle ELSE look[q]
  BY <1>1 DEF MInv, LookType
<1>3. TableInv'
  BY <1>1 DEF MInv, TableInv, SlotsOf
<1>4. LookType'
  BY <1>1 DEF MInv, LookType
<1>5. BestInv'
  BY <1>1, <1>2 DEF MInv, BestInv, Undisturbed
<1>6. Kept'
  BY <1>1, <1>2 DEF MInv, Kept, Undisturbed
<1> QED
  BY <1>3, <1>4, <1>5, <1>6 DEF MInv

\* A file system comes into an empty slot, which no lookup has as a match.
LEMMA VfsmountKeeps ==
    ASSUME MInv, NEW p \in Proc, NEW point \in Points, Vfsmount(p, point) PROVE MInv'
<1>1. PICK i \in FsSlot : mountedFS[i] = NoFs /\ mountedFS' = [mountedFS EXCEPT ![i] = point]
  BY DEF Vfsmount, FreeSlots
<1>2. look' = look /\ points' = [points EXCEPT ![point] = @ + 1]
  BY DEF Vfsmount
<1>3. /\ mountedFS'[i] = point
      /\ \A j \in FsSlot : mountedFS[j] \in Points => mountedFS'[j] = mountedFS[j]
  BY <1>1, PlaceNotEmpty DEF MInv, TableInv
<1>4. TableInv'
  <2>1. ASSUME NEW q \in Points PROVE points'[q] = Cardinality(SlotsOf(q)')
    <3>1. points[q] = Cardinality(SlotsOf(q)) /\ points[q] \in Nat
      BY DEF MInv, TableInv
    <3>2. CASE q = point
      <4>1. SlotsOf(q)' = SlotsOf(q) \cup {i} /\ i \notin SlotsOf(q)
        BY <3>2, <1>1, PlaceNotEmpty DEF SlotsOf, MInv, TableInv
      <4>2. IsFiniteSet(SlotsOf(q))
        BY FewSlots DEF SlotsOf
      <4>3. Cardinality(SlotsOf(q) \cup {i}) = Cardinality(SlotsOf(q)) + 1
        BY <4>1, <4>2, FS_AddElement
      <4>4. points'[q] = points[q] + 1
        BY <1>2, <3>2 DEF MInv, TableInv
      <4> QED
        BY <3>1, <4>1, <4>3, <4>4
    <3>3. CASE q # point
      <4>1. SlotsOf(q)' = SlotsOf(q)
        BY <3>3, <1>1, PlaceNotEmpty DEF SlotsOf, MInv, TableInv
      <4>2. points'[q] = points[q]
        BY <1>2, <3>3 DEF MInv, TableInv
      <4> QED
        BY <3>1, <4>1, <4>2
    <3> QED
      BY <3>2, <3>3
  <2>2. /\ mountedFS' \in [FsSlot -> Points \cup {NoFs}]
        /\ points' \in [Points -> Nat]
    BY <1>1, <1>2 DEF MInv, TableInv
  <2> QED
    BY <2>1, <2>2 DEF TableInv
<1>5. LookType'
  BY <1>2 DEF MInv, LookType
<1>6. \A q \in Proc : look[q] # Idle => Looks(look[q])
  BY DEF MInv, LookType
<1>7. BestInv'
  BY <1>2, <1>3, <1>6 DEF MInv, BestInv, Undisturbed, Looks
<1>8. Kept'
  BY <1>2, <1>3, <1>6 DEF MInv, Kept, Undisturbed, Looks
<1> QED
  BY <1>4, <1>5, <1>7, <1>8 DEF MInv

\* A file system goes: no lookup that is under way counts any more.
LEMMA VfsumountKeeps ==
    ASSUME MInv, NEW p \in Proc, NEW point \in Points, Vfsumount(p, point) PROVE MInv'
<1>1. PICK i \in FsSlot : mountedFS[i] = point /\ mountedFS' = [mountedFS EXCEPT ![i] = NoFs]
  BY DEF Vfsumount
<1>2. /\ points' = [points EXCEPT ![point] = @ - 1]
      /\ look' = [q \in Proc |-> IF look[q] = Idle THEN Idle
                                 ELSE [look[q] EXCEPT !.unmounted = TRUE]]
  BY DEF Vfsumount
<1>3. TableInv'
  <2>1. ASSUME NEW q \in Points
        PROVE  points'[q] = Cardinality(SlotsOf(q)') /\ points'[q] \in Nat
    <3>1. points[q] = Cardinality(SlotsOf(q)) /\ points[q] \in Nat
      BY DEF MInv, TableInv
    <3>2. CASE q = point
      <4>1. SlotsOf(q)' = SlotsOf(q) \ {i} /\ i \in SlotsOf(q)
        BY <3>2, <1>1, PlaceNotEmpty DEF SlotsOf, MInv, TableInv
      <4>2. IsFiniteSet(SlotsOf(q))
        BY FewSlots DEF SlotsOf
      <4>3. Cardinality(SlotsOf(q) \ {i}) = Cardinality(SlotsOf(q)) - 1
        BY <4>1, <4>2, FS_RemoveElement
      <4>4. points'[q] = points[q] - 1
        BY <1>2, <3>2 DEF MInv, TableInv
      <4>5. Cardinality(SlotsOf(q)') \in Nat
        BY <4>1, FewSlots DEF SlotsOf
      <4> QED
        BY <3>1, <4>1, <4>3, <4>4, <4>5
    <3>3. CASE q # point
      <4>1. SlotsOf(q)' = SlotsOf(q)
        BY <3>3, <1>1, PlaceNotEmpty DEF SlotsOf, MInv, TableInv
      <4>2. points'[q] = points[q]
        BY <1>2, <3>3 DEF MInv, TableInv
      <4> QED
        BY <3>1, <4>1, <4>2
    <3> QED
      BY <3>2, <3>3
  <2>2. mountedFS' \in [FsSlot -> Points \cup {NoFs}]
    BY <1>1 DEF MInv, TableInv
  <2>3. points' = [q \in Points |-> points'[q]]
    BY <1>2 DEF MInv, TableInv
  <2> QED
    BY <2>1, <2>2, <2>3 DEF TableInv
<1>4. \A q \in Proc : \/ look'[q] = Idle
                      \/ Looks(look'[q]) /\ look'[q].unmounted
  BY <1>2 DEF MInv, LookType, Looks
<1>5. LookType'
  BY <1>2, <1>4 DEF LookType
<1>6. \A q \in Proc : ~Undisturbed(look'[q])
  BY <1>4 DEF Undisturbed
<1>7. BestInv' /\ Kept'
  BY <1>6 DEF BestInv, Kept
<1> QED
  BY <1>3, <1>5, <1>7 DEF MInv

\* Calls on open files, and panics, leave the lookups alone.
LEMMA ElsewhereKeeps ==
    ASSUME MInv, UNCHANGED mountVars PROVE MInv'
<1>1. mountedFS' = mountedFS /\ points' = points /\ look' = look
  BY DEF mountVars
<1>2. TableInv'
  BY <1>1 DEF MInv, TableInv, SlotsOf
<1> QED
  BY <1>1, <1>2 DEF MInv, LookType, BestInv, Kept

LEMMA MountsStepKeeps ==
    ASSUME MInv, [MountsNext]_<<vars, mountVars>> PROVE MInv'
<1>1. ASSUME NEW p \in Proc, MountsStep(p) PROVE MInv'
  BY <1>1, BeginKeeps, CompareKeeps, UseKeeps, VfsmountKeeps, VfsumountKeeps DEF MountsStep
<1>2. ASSUME NEW p \in Proc, UsePanics(p) \/ VfsmountPanics(p) PROVE MInv'
  BY <1>2, ElsewhereKeeps DEF UsePanics, VfsmountPanics
<1> QED
  BY <1>1, <1>2, ElsewhereKeeps DEF MountsNext

-----------------------------------------------------------------------------
\* When the loop has seen every slot, what it would still come to is nothing.
LEMMA LookupFromInvariant == MInv => LookupSound
<1> SUFFICES ASSUME MInv, NEW p \in Proc, Answers(p), look[p].due # {}, ~look[p].unmounted,
                    Len(look[p].path) >= NFILESYSTEM
             PROVE  /\ Found(p) \in Here(look[p].path)
                    /\ \A q \in look[p].due : Len(Found(p)) >= Len(q)
  BY DEF LookupSound
<1> DEFINE l == look[p]
<1>1. l # Idle
  BY MountsAssumption DEF Answers, Idle
<1>2. Looks(l) /\ Undisturbed(l)
  BY <1>1 DEF MInv, LookType, Undisturbed
<1>3. ASSUME NEW q \in l.due PROVE q \in Points /\ l.length >= Len(q) /\ Len(q) \in Nat \ {0}
  <2>1. q \in Points /\ Len(q) \in Nat \ {0}
    BY <1>2, MountsAssumption DEF Looks
  <2>2. l.length >= Len(q) \/ \E j \in FsSlot : j >= NFILESYSTEM /\ mountedFS[j] = q
    BY <1>2 DEF MInv, Kept, Answers
  <2> QED
    BY <2>1, <2>2, MountsAssumption DEF FsSlot
<1>4. l.length > 0
  BY <1>2, <1>3 DEF Looks
<1>5. Found(p) \in Points /\ IsPrefix(Found(p), l.path) /\ l.length = Len(Found(p))
  BY <1>2, <1>4 DEF MInv, BestInv, Found
<1>6. points[Found(p)] > 0
  BY <1>2, <1>5, CountedIsThere DEF MInv, Found, Looks
<1> QED
  BY <1>3, <1>5, <1>6 DEF Here

\* Whatever is mounted while a path is looked up, and whatever had been unmounted before,
\* vfsgetFs returns the file system with the longest mount point of those that were
\* mounted when it began, or a longer one, if nothing is unmounted meanwhile and the path is
\* no shorter than the number of slots.
THEOREM LookupsAreSound == MountsSpec => []LookupSound
<1>1. MountsInit => MInv
  BY MountsBegin
<1>2. MInv /\ [MountsNext]_<<vars, mountVars>> => MInv'
  BY MountsStepKeeps
<1>3. MInv => LookupSound
  BY LookupFromInvariant
<1> QED
  BY <1>1, <1>2, <1>3, PTL DEF MountsSpec

-----------------------------------------------------------------------------
(* Files: what the variables are *)

Place == {"idle", "open", "pipe", "pipe2", "chdir", "chdir2"}

FilesType ==
    /\ ref \in [Handle -> Nat] /\ mode \in [Handle -> Mode]
    /\ ofile \in [Proc -> [Fd -> Handle \cup {0}]]
    /\ area \in [Area -> [f : Handle \cup {0}, length : Int]]
    /\ vma \in [Proc -> [Slot -> Area \cup {0}]]
    /\ life \in [Proc -> {"unused", "live", "zombie"}]
    /\ at \in [Proc -> Place]
    /\ f0 \in [Proc -> Handle \cup {0}] /\ f1 \in [Proc -> Handle \cup {0}]
    /\ halt \in {"no", "panic", "stray"}

\* What is not open is not for reading or writing.
NoneInv == \A h \in Handle : mode[h].type = "none" => mode[h] = FD_NONE

\* exit has closed what a process had open; fork relies on it.
ClosedInv == \A p \in Proc : life[p] # "live" => ofile[p] = [d \in Fd |-> 0]

\* The least element of a set of numbers
LEMMA LeastIs ==
    ASSUME NEW S, S \subseteq Nat, S # {}
    PROVE  Min(S) \in S /\ \A x \in S : Min(S) <= x
<1> DEFINE Below == {0..x - 1 : x \in S}
<1>1. \A x \in S : 0..x - 1 \subseteq Nat /\ IsFiniteSet(0..x - 1)
  BY FS_Interval
<1>2. Below \subseteq FiniteSubsetsOf(Nat) /\ Below # {}
  BY <1>1 DEF FiniteSubsetsOf
<1>3. PICK B \in Below : \A C \in Below : ~(<<C, B>> \in StrictSubsetOrdering(Nat))
  BY <1>2, FS_StrictSubsetOrderingWellFounded, WFMin
<1>4. PICK x \in S : B = 0..x - 1
  OBVIOUS
<1>5. ASSUME NEW y \in S PROVE x <= y
  <2> SUFFICES ASSUME y < x PROVE FALSE
    BY <1>5
  <2>1. 0..y - 1 \subseteq 0..x - 1 /\ y \in 0..x - 1 /\ y \notin 0..y - 1
    OBVIOUS
  <2>2. <<0..y - 1, B>> \in StrictSubsetOrdering(Nat)
    BY <2>1, <1>1, <1>4 DEF StrictSubsetOrdering
  <2> QED
    BY <2>2, <1>3
<1> QED
  BY <1>5 DEF Min

\* registFileHandle takes the least descriptor that is free, sys_mmap the least area and slot.
LEMMA LeastFree ==
    ASSUME NEW p \in Proc
    PROVE  /\ FreeFd(p) # {} =>
                /\ Min(FreeFd(p)) \in Fd /\ ofile[p][Min(FreeFd(p))] = 0
                /\ \A d \in Fd : d < Min(FreeFd(p)) => ofile[p][d] # 0
           /\ FreeAreas # {} => Min(FreeAreas) \in Area /\ area[Min(FreeAreas)].f = 0
           /\ Mapped(p) # Slot =>
                /\ Min(Slot \ Mapped(p)) \in Slot /\ vma[p][Min(Slot \ Mapped(p))] = 0
<1>1. FreeFd(p) \subseteq Nat /\ FreeAreas \subseteq Nat /\ Slot \ Mapped(p) \subseteq Nat
  BY FilesAssumption DEF FreeFd, FreeAreas, Mapped, Fd, Area, Slot
<1>2. ASSUME FreeFd(p) # {}
      PROVE  /\ Min(FreeFd(p)) \in Fd /\ ofile[p][Min(FreeFd(p))] = 0
             /\ \A d \in Fd : d < Min(FreeFd(p)) => ofile[p][d] # 0
  <2>1. Min(FreeFd(p)) \in FreeFd(p) /\ \A d \in FreeFd(p) : Min(FreeFd(p)) <= d
    BY <1>1, <1>2, LeastIs
  <2>2. ASSUME NEW d \in Fd, d < Min(FreeFd(p)), ofile[p][d] = 0 PROVE FALSE
    <3>1. d \in FreeFd(p)
      BY <2>2 DEF FreeFd
    <3> QED
      BY <3>1, <2>1, <2>2, <1>1
  <2> QED
    BY <2>1, <2>2 DEF FreeFd
<1>3. FreeAreas # {} => Min(FreeAreas) \in Area /\ area[Min(FreeAreas)].f = 0
  <2>1. FreeAreas # {} => Min(FreeAreas) \in FreeAreas
    BY <1>1, LeastIs
  <2> QED
    BY <2>1 DEF FreeAreas
<1>4. Mapped(p) # Slot =>
          Min(Slot \ Mapped(p)) \in Slot /\ vma[p][Min(Slot \ Mapped(p))] = 0
  <2>1. Mapped(p) # Slot => Slot \ Mapped(p) # {}
    BY DEF Mapped
  <2>2. Mapped(p) # Slot => Min(Slot \ Mapped(p)) \in Slot \ Mapped(p)
    BY <2>1, <1>1, LeastIs
  <2> QED
    BY <2>2 DEF Mapped
<1> QED
  BY <1>2, <1>3, <1>4

\* The types hold at first, and everything is closed.
LEMMA FilesBegin == Init => FilesType /\ NoneInv /\ ClosedInv
<1> SUFFICES ASSUME Init PROVE FilesType /\ NoneInv /\ ClosedInv
  OBVIOUS
<1>1. FilesType
  <2>1. ref \in [Handle -> Nat] /\ mode \in [Handle -> Mode]
    BY DEF Init, Mode, FD_NONE
  <2>2. area \in [Area -> [f : Handle \cup {0}, length : Int]]
    BY DEF Init, NoArea
  <2>3. /\ ofile \in [Proc -> [Fd -> Handle \cup {0}]]
        /\ vma \in [Proc -> [Slot -> Area \cup {0}]]
    BY DEF Init
  <2>4. /\ life \in [Proc -> {"unused", "live", "zombie"}] /\ at \in [Proc -> Place]
        /\ f0 \in [Proc -> Handle \cup {0}] /\ f1 \in [Proc -> Handle \cup {0}]
        /\ halt \in {"no", "panic", "stray"}
    BY DEF Init, Place
  <2> QED
    BY <2>1, <2>2, <2>3, <2>4 DEF FilesType
<1>2. NoneInv /\ ClosedInv
  BY DEF Init, NoneInv, ClosedInv, FD_NONE
<1> QED
  BY <1>1, <1>2

\* The kinds of a handle
LEMMA Kinds ==
    /\ FD_NONE \in Mode /\ FD_NONE.type = "none"
    /\ \A access \in Flags : FD_DEVICE(access) \in Mode /\ FD_DEVICE(access).type # "none"
    /\ FD_PIPE({"read"}) \in Mode /\ FD_PIPE({"write"}) \in Mode
    /\ FD_PIPE({"read"}).type # "none" /\ FD_PIPE({"write"}).type # "none"
<1>1. \A access \in SUBSET {"read", "write"} :
          FD_DEVICE(access) \in Mode /\ FD_DEVICE(access).type # "none"
  BY DEF FD_DEVICE, Mode
<1> QED
  BY <1>1, FilesAssumption DEF FD_NONE, FD_PIPE, Mode

\* registFileHandle writes one entry of the process's ofile.
LEMMA RegistTypes ==
    ASSUME FilesType, NEW p \in Proc, NEW h \in Handle \cup {0}, NEW fd \in Fd \cup {-1},
           RegistFileHandle(p, h, fd)
    PROVE  \E d \in Fd :
              /\ ofile[p][d] = 0
              /\ fd < 0 => d = Min(FreeFd(p)) /\ \A e \in Fd : e < d => ofile[p][e] # 0
              /\ ofile' = [ofile EXCEPT ![p][d] = h]
              /\ ofile' \in [Proc -> [Fd -> Handle \cup {0}]]
<1>1. ASSUME NEW d, d \in Fd
      PROVE  [ofile EXCEPT ![p][d] = h] \in [Proc -> [Fd -> Handle \cup {0}]]
  BY DEF FilesType
<1>2. CASE fd < 0
  <2>1. FreeFd(p) # {} /\ ofile' = [ofile EXCEPT ![p][Min(FreeFd(p))] = h]
    BY <1>2 DEF RegistFileHandle
  <2> QED
    BY <2>1, <1>1, LeastFree
<1>3. CASE ~(fd < 0)
  <2>1. fd \in Fd /\ ofile[p][fd] = 0 /\ ofile' = [ofile EXCEPT ![p][fd] = h]
    BY <1>3 DEF RegistFileHandle
  <2> QED
    BY <2>1, <1>1, <1>3
<1> QED
  BY <1>2, <1>3

\* vfsdup's new count
LEMMA DupTypes ==
    ASSUME FilesType, NEW h \in Handle, VfsDup(h)
    PROVE  /\ ref' = [ref EXCEPT ![h] = @ + 1]
           /\ ref' \in [Handle -> Nat] /\ ref'[h] = ref[h] + 1
           /\ \A g \in Handle \ {h} : ref'[g] = ref[g]
  BY DEF FilesType, VfsDup

\* A call that is over has forgotten its handles.
LEMMA ReturnsTypes ==
    ASSUME FilesType, NEW p \in Proc, Returns(p)
    PROVE  /\ at' \in [Proc -> Place]
           /\ f0' \in [Proc -> Handle \cup {0}] /\ f1' \in [Proc -> Handle \cup {0}]
  BY DEF FilesType, Returns, Goes, Place

\* How often fork calls vfsdup for a handle
LEMMA DupsCount ==
    ASSUME NEW p \in Proc, NEW h
    PROVE  /\ IsFiniteSet({d \in Fd : ofile[p][d] = h})
           /\ IsFiniteSet({s \in Mapped(p) : area[vma[p][s]].f = h})
           /\ Cardinality({d \in Fd : ofile[p][d] = h}) \in Nat
           /\ Cardinality({s \in Mapped(p) : area[vma[p][s]].f = h}) \in Nat
           /\ ForkDups(p, h) \in Nat
<1>1. IsFiniteSet(Fd) /\ IsFiniteSet(Slot)
  <2>1. 0 \in Int /\ NOFILE - 1 \in Int /\ NOMMAPFILE - 1 \in Int
    BY FilesAssumption
  <2>2. IsFiniteSet(0..NOFILE - 1) /\ IsFiniteSet(0..NOMMAPFILE - 1)
    BY <2>1, FS_Interval
  <2> QED
    BY <2>2 DEF Fd, Slot
<1>2. /\ IsFiniteSet({d \in Fd : ofile[p][d] = h})
      /\ IsFiniteSet({s \in Mapped(p) : area[vma[p][s]].f = h})
  <2>1. {d \in Fd : ofile[p][d] = h} \subseteq Fd
    OBVIOUS
  <2>2. {s \in Mapped(p) : area[vma[p][s]].f = h} \subseteq Slot
    BY DEF Mapped
  <2> QED
    BY <2>1, <2>2, <1>1, FS_Subset
<1>3. /\ Cardinality({d \in Fd : ofile[p][d] = h}) \in Nat
      /\ Cardinality({s \in Mapped(p) : area[vma[p][s]].f = h}) \in Nat
  BY <1>2, FS_CardinalityType
<1> QED
  BY <1>2, <1>3 DEF ForkDups

\* What fork does to counts and descriptors
LEMMA ForkDoes ==
    ASSUME FilesType, NEW p \in Proc, NEW child \in Proc, Fork(p, child)
    PROVE  /\ life[p] = "live" /\ life[child] = "unused" /\ child # p
           /\ ref' \in [Handle -> Nat]
           /\ \A h \in Handle : ref'[h] = ref[h] + ForkDups(p, h)
           /\ ofile' \in [Proc -> [Fd -> Handle \cup {0}]]
           /\ \A q \in Proc : \A d \in Fd :
                  ofile'[q][d] = IF q = child /\ ofile[p][d] # 0 THEN ofile[p][d] ELSE ofile[q][d]
           /\ mode' = mode /\ life' = [life EXCEPT ![child] = "live"]
           /\ UNCHANGED <<calls, halt>>
<1>1. life[p] = "live" /\ life[child] = "unused" /\ child # p
  BY DEF Fork, Runs
<1>2. /\ ref' \in [Handle -> Nat]
      /\ \A h \in Handle : ref'[h] = ref[h] + ForkDups(p, h)
  <2>1. ref' = [h \in Handle |-> ref[h] + ForkDups(p, h)]
    BY DEF Fork, ForkRefs
  <2>2. \A h \in Handle : ref[h] \in Nat /\ ForkDups(p, h) \in Nat
    BY DupsCount DEF FilesType
  <2> QED
    BY <2>1, <2>2
<1>3. /\ ofile' \in [Proc -> [Fd -> Handle \cup {0}]]
      /\ \A q \in Proc : \A d \in Fd :
             ofile'[q][d] = IF q = child /\ ofile[p][d] # 0 THEN ofile[p][d] ELSE ofile[q][d]
  <2>1. ofile' = [ofile EXCEPT ![child] =
                     [d \in Fd |-> IF ofile[p][d] # 0 THEN ofile[p][d] ELSE @[d]]]
    BY DEF Fork
  <2> QED
    BY <2>1 DEF FilesType
<1> QED
  BY <1>1, <1>2, <1>3 DEF Fork

\* The areas it copies, each to a free one of its own
LEMMA ForkAreas ==
    ASSUME FilesType, NEW p \in Proc, NEW child \in Proc, Fork(p, child)
    PROVE  /\ vma' \in [Proc -> [Slot -> Area \cup {0}]]
           /\ area' \in [Area -> [f : Handle \cup {0}, length : Int]]
           /\ \E g \in [Mapped(p) -> FreeAreas] :
                 /\ \A s, r \in Mapped(p) : g[s] = g[r] => s = r
                 /\ \A q \in Proc : \A s \in Slot :
                        vma'[q][s] = IF q # child THEN vma[q][s]
                                     ELSE IF s \in Mapped(p) THEN g[s] ELSE 0
                 /\ \A s \in Mapped(p) : area'[g[s]] = area[vma[p][s]]
                 /\ \A a \in Area : (\A s \in Mapped(p) : g[s] # a) => area'[a] = area[a]
<1>1. PICK g \in [Mapped(p) -> FreeAreas] :
          /\ Copies(p, g)
          /\ vma' = [vma EXCEPT ![child] = [s \in Slot |-> IF s \in Mapped(p) THEN g[s] ELSE 0]]
          /\ area' = [a \in Area |-> IF \E s \in Mapped(p) : g[s] = a
                                     THEN area[vma[p][CHOOSE s \in Mapped(p) : g[s] = a]]
                                     ELSE area[a]]
  BY DEF Fork
<1>2. \A s, r \in Mapped(p) : g[s] = g[r] => s = r
  <2>1. Mapped(p) \subseteq Int /\ FreeAreas \subseteq Int
    BY FilesAssumption DEF Mapped, Slot, FreeAreas, Area
  <2>2. \A s, r \in Mapped(p) : s < r => g[s] < g[r]
    BY <1>1 DEF Copies
  <2>3. \A s \in Mapped(p) : g[s] \in Int
    BY <2>1
  <2> QED
    BY <2>1, <2>2, <2>3
<1>3. \A s \in Mapped(p) : g[s] \in Area /\ vma[p][s] \in Area
  BY DEF FreeAreas, Mapped, FilesType
<1>4. /\ vma' \in [Proc -> [Slot -> Area \cup {0}]]
      /\ \A q \in Proc : \A s \in Slot :
             vma'[q][s] = IF q # child THEN vma[q][s]
                          ELSE IF s \in Mapped(p) THEN g[s] ELSE 0
  BY <1>1, <1>3 DEF FilesType
<1>5. \A s \in Mapped(p) : area'[g[s]] = area[vma[p][s]]
  BY <1>1, <1>2, <1>3
<1>6. \A a \in Area : (\A s \in Mapped(p) : g[s] # a) => area'[a] = area[a]
  BY <1>1
<1>7. area' \in [Area -> [f : Handle \cup {0}, length : Int]]
  <2>1. area' = [a \in Area |-> area'[a]]
    BY <1>1
  <2>2. ASSUME NEW a \in Area PROVE area'[a] \in [f : Handle \cup {0}, length : Int]
    <3>1. CASE \E s \in Mapped(p) : g[s] = a
      BY <3>1, <1>3, <1>5 DEF FilesType
    <3>2. CASE \A s \in Mapped(p) : g[s] # a
      BY <3>2, <1>6 DEF FilesType
    <3> QED
      BY <3>1, <3>2
  <2> QED
    BY <2>1, <2>2
<1> QED
  BY <1>2, <1>4, <1>5, <1>6, <1>7

\* What mmap does with the least free area and, if there is one, the least free slot
LEMMA MmapDoes ==
    ASSUME FilesType, NEW p \in Proc, Mmap(p)
    PROVE  \E d \in Fd, a \in Area :
              /\ ofile[p][d] \in Handle /\ area[a].f = 0
              /\ ref' = [ref EXCEPT ![ofile[p][d]] = @ + 1]
              /\ ref' \in [Handle -> Nat] /\ ref'[ofile[p][d]] = ref[ofile[p][d]] + 1
              /\ \A h \in Handle \ {ofile[p][d]} : ref'[h] = ref[h]
              /\ area' \in [Area -> [f : Handle \cup {0}, length : Int]]
              /\ area'[a].f = ofile[p][d]
              /\ \A b \in Area \ {a} : area'[b] = area[b]
              /\ vma' \in [Proc -> [Slot -> Area \cup {0}]]
              /\ \/ vma' = vma
                 \/ \E s \in Slot : vma[p][s] = 0 /\ vma' = [vma EXCEPT ![p][s] = a]
<1> DEFINE a == Min(FreeAreas)
           s == Min(Slot \ Mapped(p))
<1>1. a \in Area /\ area[a].f = 0
  BY LeastFree DEF Mmap
<1>2. PICK d \in Fd, len \in 1..MaxLen :
          /\ ofile[p][d] # 0 /\ VfsDup(ofile[p][d])
          /\ area' = [area EXCEPT ![a] = [f |-> ofile[p][d], length |-> len]]
          /\ vma' = IF Mapped(p) = Slot THEN vma ELSE [vma EXCEPT ![p][s] = a]
  BY DEF Mmap
<1> HIDE DEF a, s
<1>3. ofile[p][d] \in Handle
  BY <1>2 DEF FilesType
<1>4. /\ area' \in [Area -> [f : Handle \cup {0}, length : Int]]
      /\ area'[a].f = ofile[p][d]
      /\ \A b \in Area \ {a} : area'[b] = area[b]
  <2>1. [f |-> ofile[p][d], length |-> len] \in [f : Handle \cup {0}, length : Int]
    BY <1>3
  <2> QED
    BY <2>1, <1>1, <1>2 DEF FilesType
<1>5. /\ vma' \in [Proc -> [Slot -> Area \cup {0}]]
      /\ vma' = vma \/ \E r \in Slot : vma[p][r] = 0 /\ vma' = [vma EXCEPT ![p][r] = a]
  <2>1. CASE Mapped(p) = Slot
    BY <2>1, <1>2 DEF FilesType
  <2>2. CASE Mapped(p) # Slot
    <3>1. s \in Slot /\ vma[p][s] = 0
      BY <2>2, LeastFree DEF s
    <3> QED
      BY <3>1, <2>2, <1>1, <1>2 DEF FilesType
  <2> QED
    BY <2>1, <2>2
<1>6. /\ ref' = [ref EXCEPT ![ofile[p][d]] = @ + 1]
      /\ ref' \in [Handle -> Nat] /\ ref'[ofile[p][d]] = ref[ofile[p][d]] + 1
      /\ \A h \in Handle \ {ofile[p][d]} : ref'[h] = ref[h]
  BY <1>2, <1>3, DupTypes
<1> QED
  BY <1>1, <1>3, <1>4, <1>5, <1>6

\* munmap cuts an area short, or frees it and its slot; exit frees all of the process.
LEMMA MunmapDoes ==
    ASSUME FilesType, NEW p \in Proc, Munmap(p)
    PROVE  \E s \in Mapped(p) :
              LET a == vma[p][s] IN
              /\ s \in Slot /\ a \in Area
              /\ area' \in [Area -> [f : Handle \cup {0}, length : Int]]
              /\ \A b \in Area \ {a} : area'[b] = area[b]
              /\ vma' \in [Proc -> [Slot -> Area \cup {0}]]
              /\ \/ area'[a].f = 0 /\ vma' = [vma EXCEPT ![p][s] = 0]
                 \/ area'[a].f = area[a].f /\ vma' = vma
<1>1. PICK s \in Mapped(p), sz \in 1..MaxLen :
          LET a == vma[p][s]
              left == area[a].length - sz IN
          /\ area' = [area EXCEPT ![a] = IF left = 0 THEN NoArea
                                         ELSE [@ EXCEPT !.length = left]]
          /\ vma' = IF left = 0 THEN [vma EXCEPT ![p][s] = 0] ELSE vma
  BY DEF Munmap
<1> DEFINE a == vma[p][s]
           left == area[a].length - sz
<1>2. s \in Slot /\ a \in Area
  BY DEF Mapped, FilesType
<1>3. area[a] \in [f : Handle \cup {0}, length : Int] /\ left \in Int
  BY <1>2, FilesAssumption DEF FilesType
<1>4. area' = [area EXCEPT ![a] = IF left = 0 THEN NoArea
                                  ELSE [area[a] EXCEPT !.length = left]]
  BY <1>1
<1>5. vma' = IF left = 0 THEN [vma EXCEPT ![p][s] = 0] ELSE vma
  BY <1>1
<1> HIDE DEF a, left
<1>6. NoArea \in [f : Handle \cup {0}, length : Int] /\ NoArea.f = 0
  BY DEF NoArea
<1>7. /\ [area[a] EXCEPT !.length = left] \in [f : Handle \cup {0}, length : Int]
      /\ [area[a] EXCEPT !.length = left].f = area[a].f
  BY <1>3
<1>8. /\ area' \in [Area -> [f : Handle \cup {0}, length : Int]]
      /\ \A b \in Area \ {a} : area'[b] = area[b]
      /\ area'[a].f = IF left = 0 THEN 0 ELSE area[a].f
  BY <1>2, <1>4, <1>6, <1>7 DEF FilesType
<1>9. vma' \in [Proc -> [Slot -> Area \cup {0}]]
  BY <1>2, <1>5 DEF FilesType
<1> QED
  BY <1>2, <1>5, <1>8, <1>9 DEF a

\* exit closes the process's descriptors and frees the areas of its slots.
LEMMA ExitDoes ==
    ASSUME FilesType, NEW p \in Proc, Exit(p)
    PROVE  /\ ofile' = [ofile EXCEPT ![p] = [d \in Fd |-> 0]]
           /\ ofile' \in [Proc -> [Fd -> Handle \cup {0}]]
           /\ area' \in [Area -> [f : Handle \cup {0}, length : Int]]
           /\ \A a \in Area : IF \E s \in Mapped(p) : vma[p][s] = a THEN area'[a].f = 0
                              ELSE area'[a] = area[a]
           /\ life' = [life EXCEPT ![p] = "zombie"]
           /\ UNCHANGED <<handles, vma, calls, halt>>
<1>1. ofile' = [ofile EXCEPT ![p] = [d \in Fd |-> 0]]
  BY DEF Exit
<1>2. ofile' \in [Proc -> [Fd -> Handle \cup {0}]]
  BY <1>1 DEF FilesType
<1>3. area' = [a \in Area |-> IF \E s \in Mapped(p) : vma[p][s] = a THEN NoArea ELSE area[a]]
  BY DEF Exit
<1>4. NoArea \in [f : Handle \cup {0}, length : Int] /\ NoArea.f = 0
  BY DEF NoArea
<1>5. /\ area' \in [Area -> [f : Handle \cup {0}, length : Int]]
      /\ \A a \in Area : IF \E s \in Mapped(p) : vma[p][s] = a THEN area'[a].f = 0
                         ELSE area'[a] = area[a]
  BY <1>3, <1>4 DEF FilesType
<1> QED
  BY <1>1, <1>2, <1>5 DEF Exit

\* The least two free descriptors, which a pipe is given
LEMMA PipeFds ==
    ASSUME FilesType, NEW p \in Proc, Pipe(p)
    PROVE  \E d, e \in Fd :
              /\ d < e /\ ofile[p][d] = 0 /\ ofile[p][e] = 0
              /\ \A x \in Fd : x < d \/ (d < x /\ x < e) => ofile[p][x] # 0
              /\ ofile' = [ofile EXCEPT ![p][d] = f0[p], ![p][e] = f1[p]]
              /\ ofile' \in [Proc -> [Fd -> Handle \cup {0}]]
<1> DEFINE d == Min(FreeFd(p))
           e == Min(FreeFd(p) \ {d})
<1>1. FreeFd(p) \subseteq Nat /\ FreeFd(p) \subseteq Fd
  BY FilesAssumption DEF FreeFd, Fd
<1>2. FreeFd(p) # {} /\ FreeFd(p) \ {d} # {}
  <2>1. Cardinality(FreeFd(p)) >= 2
    BY DEF Pipe
  <2>2. Cardinality({}) = 0 /\ Cardinality({d}) = 1
    BY FS_EmptySet, FS_Singleton
  <2>3. FreeFd(p) # {} /\ FreeFd(p) # {d}
    BY <2>1, <2>2
  <2> QED
    BY <2>3
<1>3. d \in FreeFd(p) /\ \A x \in FreeFd(p) : d <= x
  BY <1>1, <1>2, LeastIs
<1>4. e \in FreeFd(p) \ {d} /\ \A x \in FreeFd(p) \ {d} : e <= x
  BY <1>1, <1>2, LeastIs
<1>5. ofile' = [ofile EXCEPT ![p][d] = f0[p], ![p][e] = f1[p]]
  BY DEF Pipe
<1> HIDE DEF d, e
<1>6. d \in Fd /\ e \in Fd /\ d < e /\ ofile[p][d] = 0 /\ ofile[p][e] = 0
  BY <1>1, <1>3, <1>4 DEF FreeFd
<1>7. ASSUME NEW x \in Fd, x < d \/ (d < x /\ x < e), ofile[p][x] = 0 PROVE FALSE
  <2>1. x \in FreeFd(p)
    BY <1>7 DEF FreeFd
  <2> QED
    BY <2>1, <1>7, <1>1, <1>3, <1>4
<1>8. ofile' \in [Proc -> [Fd -> Handle \cup {0}]]
  BY <1>5, <1>6 DEF FilesType
<1> QED
  BY <1>5, <1>6, <1>7, <1>8

\* A number below 0 is a slot counted from the end of vma.
LEMMA CloseSlotDoes ==
    ASSUME FilesType, NEW p \in Proc, CloseSlot(p)
    PROVE  /\ vma' \in [Proc -> [Slot -> Area \cup {0}]]
           /\ \E s \in Slot : \A q \in Proc, r \in Slot :
                 vma'[q][r] = IF q = p /\ r = s THEN 0 ELSE vma[q][r]
<1>1. PICK s \in Slot : vma' = [vma EXCEPT ![p][s] = 0]
  <2>1. PICK d \in -NOMMAPFILE..-1 : vma' = [vma EXCEPT ![p][NOMMAPFILE + d] = 0]
    BY DEF CloseSlot
  <2>2. NOMMAPFILE + d \in Slot
    BY FilesAssumption DEF Slot
  <2> QED
    BY <2>1, <2>2
<1> QED
  BY <1>1 DEF FilesType

\* What happens to the files: their own steps, and panics for want of a file system or of a
\* slot for one
FilesStep == Next \/ \E p \in Proc : UsePanics(p) \/ VfsmountPanics(p)

\* A panic changes nothing else.
LEMMA PanicsOnly ==
    ASSUME NEW p \in Proc,
           \/ PickPanics(p) \/ RegistPanics(p) \/ DupPanics(p) \/ PipePanics(p)
           \/ MmapPanics(p) \/ UnmapPanics(p) \/ ForkPanics(p)
           \/ UsePanics(p) \/ VfsmountPanics(p)
    PROVE  Panic /\ halt = "no"
  BY DEF Runs, Continues, PickPanics, RegistPanics, DupPanics, PipePanics, MmapPanics,
         UnmapPanics, ForkPanics, UsePanics, VfsmountPanics

\* The types hold after every step.
LEMMA FilesTypeNext == ASSUME FilesType, [FilesStep]_vars PROVE FilesType'
<1> USE DEF calls, handles, areas
<1>1. ASSUME NEW p \in Proc, Pick(p) PROVE FilesType'
  <2>1. /\ \E place \in Place : at' = [at EXCEPT ![p] = place]
        /\ \E h \in Handle : f0' = [f0 EXCEPT ![p] = h]
        /\ UNCHANGED <<ref, mode, ofile, area, vma, life, f1, halt>>
    BY <1>1 DEF Pick, Goes, Place
  <2> QED
    BY <2>1 DEF FilesType
<1>2. ASSUME NEW p \in Proc, Open(p) PROVE FilesType'
  <2>1. ref' \in [Handle -> Nat]
    BY <1>2 DEF Open, FilesType
  <2>2. mode' \in [Handle -> Mode]
    <3>1. PICK access \in Flags : mode' = [mode EXCEPT ![f0[p]] = FD_DEVICE(access)]
      BY <1>2 DEF Open
    <3>2. FD_DEVICE(access) \in Mode
      BY Kinds
    <3> QED
      BY <3>1, <3>2 DEF FilesType
  <2>3. RegistFileHandle(p, f0[p], -1) /\ Returns(p)
    BY <1>2 DEF Open
  <2>4. f0[p] \in Handle \cup {0} /\ -1 \in Fd \cup {-1}
    BY DEF FilesType
  <2>5. ofile' \in [Proc -> [Fd -> Handle \cup {0}]]
    BY <2>3, <2>4, RegistTypes
  <2>6. UNCHANGED <<area, vma, life, halt>>
    BY <1>2 DEF Open
  <2> QED
    BY <2>1, <2>2, <2>3, <2>5, <2>6, ReturnsTypes DEF FilesType
<1>3. ASSUME NEW p \in Proc, Close(p) PROVE FilesType'
  <2>1. ofile' \in [Proc -> [Fd -> Handle \cup {0}]]
    BY <1>3 DEF Close, FilesType
  <2> QED
    BY <2>1, <1>3 DEF FilesType, Close
<1>4. ASSUME NEW p \in Proc, Dup(p) PROVE FilesType'
  <2>1. PICK old \in Fd, new \in Fd \cup {-1} :
            /\ ofile[p][old] # 0 /\ VfsDup(ofile[p][old])
            /\ RegistFileHandle(p, ofile[p][old], new)
    BY <1>4 DEF Dup
  <2>2. ofile[p][old] \in Handle
    BY <2>1 DEF FilesType
  <2>3. ref' \in [Handle -> Nat] /\ ofile' \in [Proc -> [Fd -> Handle \cup {0}]]
    BY <2>1, <2>2, DupTypes, RegistTypes
  <2> QED
    BY <2>3, <1>4 DEF FilesType, Dup
<1>5. ASSUME NEW p \in Proc, Dup3Fails(p) PROVE FilesType'
  <2>1. PICK old \in Fd : ofile[p][old] # 0 /\ VfsDup(ofile[p][old])
    BY <1>5 DEF Dup3Fails
  <2>2. ref' \in [Handle -> Nat]
    BY <2>1, DupTypes DEF FilesType
  <2> QED
    BY <2>2, <1>5 DEF FilesType, Dup3Fails
<1>6. ASSUME NEW p \in Proc, PipeSecond(p) PROVE FilesType'
  <2>1. /\ ref' \in [Handle -> Nat]
        /\ \E h \in Handle : f1' = [f1 EXCEPT ![p] = h]
        /\ at' = [at EXCEPT ![p] = "pipe2"]
        /\ UNCHANGED <<mode, ofile, area, vma, life, f0, halt>>
    BY <1>6 DEF PipeSecond, Goes, FilesType
  <2>2. at' \in [Proc -> Place]
    BY <2>1 DEF FilesType, Place
  <2> QED
    BY <2>1, <2>2 DEF FilesType
<1>7. ASSUME NEW p \in Proc, Pipe(p) PROVE FilesType'
  <2>1. ref' \in [Handle -> Nat] /\ mode' \in [Handle -> Mode]
    BY <1>7, Kinds DEF Pipe, FilesType
  <2>2. ofile' \in [Proc -> [Fd -> Handle \cup {0}]]
    BY <1>7, PipeFds
  <2>3. Returns(p) /\ UNCHANGED <<area, vma, life, halt>>
    BY <1>7 DEF Pipe
  <2> QED
    BY <2>1, <2>2, <2>3, ReturnsTypes DEF FilesType
<1>8. ASSUME NEW p \in Proc, PipeNoPage(p) PROVE FilesType'
  <2>1. ref' \in [Handle -> Nat] /\ mode' \in [Handle -> Mode]
    BY <1>8, Kinds DEF PipeNoPage, FilesType
  <2>2. Returns(p) /\ UNCHANGED <<ofile, area, vma, life, halt>>
    BY <1>8 DEF PipeNoPage
  <2> QED
    BY <2>1, <2>2, ReturnsTypes DEF FilesType
<1>9. ASSUME NEW p \in Proc, ChdirRef(p) PROVE FilesType'
  <2>1. ref' \in [Handle -> Nat] /\ at' \in [Proc -> Place]
    BY <1>9 DEF ChdirRef, Goes, FilesType, Place
  <2> QED
    BY <2>1, <1>9 DEF FilesType, ChdirRef
<1>10. ASSUME NEW p \in Proc, Chdir(p) PROVE FilesType'
  <2>1. ref' \in [Handle -> Nat] /\ mode' \in [Handle -> Mode]
    BY <1>10, Kinds DEF Chdir, FilesType
  <2>2. Returns(p) /\ UNCHANGED <<ofile, area, vma, life, halt>>
    BY <1>10 DEF Chdir
  <2> QED
    BY <2>1, <2>2, ReturnsTypes DEF FilesType
<1>11. ASSUME NEW p \in Proc, Mmap(p) PROVE FilesType'
  <2>1. /\ ref' \in [Handle -> Nat]
        /\ area' \in [Area -> [f : Handle \cup {0}, length : Int]]
        /\ vma' \in [Proc -> [Slot -> Area \cup {0}]]
    BY <1>11, MmapDoes
  <2> QED
    BY <2>1, <1>11 DEF FilesType, Mmap
<1>12. ASSUME NEW p \in Proc, Munmap(p) PROVE FilesType'
  <2>1. /\ area' \in [Area -> [f : Handle \cup {0}, length : Int]]
        /\ vma' \in [Proc -> [Slot -> Area \cup {0}]]
    BY <1>12, MunmapDoes
  <2> QED
    BY <2>1, <1>12 DEF FilesType, Munmap
<1>13. ASSUME NEW p \in Proc, NEW child \in Proc, Fork(p, child) PROVE FilesType'
  <2>1. life' \in [Proc -> {"unused", "live", "zombie"}]
    BY <1>13 DEF FilesType, Fork
  <2> QED
    BY <2>1, <1>13, ForkDoes, ForkAreas DEF FilesType
<1>14. ASSUME NEW p \in Proc, Exit(p) PROVE FilesType'
  <2>1. life' \in [Proc -> {"unused", "live", "zombie"}]
    BY <1>14 DEF FilesType, Exit
  <2> QED
    BY <2>1, <1>14, ExitDoes DEF FilesType
<1>15. ASSUME NEW p \in Proc, Reap(p) PROVE FilesType'
  <2>1. /\ life' \in [Proc -> {"unused", "live", "zombie"}]
        /\ vma' \in [Proc -> [Slot -> Area \cup {0}]]
    BY <1>15 DEF FilesType, Reap
  <2> QED
    BY <2>1, <1>15 DEF FilesType, Reap
<1>16. ASSUME NEW p \in Proc, Panic \/ CloseStrays(p) PROVE FilesType'
  BY <1>16 DEF FilesType, Panic, CloseStrays
<1>17. ASSUME UNCHANGED vars PROVE FilesType'
  BY <1>17 DEF FilesType, vars
<1>18. ASSUME NEW p \in Proc, CloseSlot(p) PROVE FilesType'
  <2>1. vma' \in [Proc -> [Slot -> Area \cup {0}]]
    BY <1>18, CloseSlotDoes
  <2> QED
    BY <2>1, <1>18 DEF FilesType, CloseSlot
<1> QED
  BY <1>1, <1>2, <1>3, <1>4, <1>5, <1>6, <1>7, <1>8, <1>9, <1>10, <1>11, <1>12, <1>13, <1>14,
     <1>15, <1>16, <1>17, <1>18, PanicsOnly DEF FilesStep, Next

-----------------------------------------------------------------------------
(* Files: what is closed, and the areas *)

\* What is not open may not be used, after every step.
LEMMA NoneNext == ASSUME FilesType, NoneInv, [FilesStep]_vars PROVE NoneInv'
<1>1. ASSUME mode' = mode PROVE NoneInv'
  BY <1>1 DEF NoneInv
<1>2. ASSUME NEW p \in Proc, Open(p) PROVE NoneInv'
  BY <1>2, Kinds DEF NoneInv, FilesType, Open
<1>3. ASSUME NEW p \in Proc, Pipe(p) PROVE NoneInv'
  BY <1>3, Kinds DEF NoneInv, FilesType, Pipe
<1>4. ASSUME NEW p \in Proc, PipeNoPage(p) \/ Chdir(p) PROVE NoneInv'
  BY <1>4 DEF NoneInv, FilesType, PipeNoPage, Chdir
<1>5. ASSUME NEW p \in Proc,
             \/ Pick(p) \/ Close(p) \/ CloseSlot(p) \/ CloseStrays(p) \/ Dup(p)
             \/ Dup3Fails(p) \/ PipeSecond(p) \/ ChdirRef(p) \/ Mmap(p) \/ Munmap(p) \/ Exit(p)
             \/ Reap(p) \/ Panic
             \/ \E child \in Proc : Fork(p, child)
      PROVE  mode' = mode
  BY <1>5 DEF Pick, Close, CloseSlot, CloseStrays, Dup, Dup3Fails, PipeSecond, ChdirRef, Mmap,
              Munmap, Exit, Reap, Panic, Fork, handles
<1>6. ASSUME UNCHANGED vars PROVE mode' = mode
  BY <1>6 DEF vars
<1> QED
  BY <1>1, <1>2, <1>3, <1>4, <1>5, <1>6, PanicsOnly DEF FilesStep, Next

\* Only a live process writes its descriptors, and exit closes them.
LEMMA ClosedNext == ASSUME FilesType, ClosedInv, [FilesStep]_vars PROVE ClosedInv'
<1>1. ASSUME NEW p \in Proc, life[p] = "live", life' = life,
             \A q \in Proc \ {p} : ofile'[q] = ofile[q]
      PROVE  ClosedInv'
  BY <1>1 DEF ClosedInv
<1>2. ASSUME life' = life, ofile' = ofile PROVE ClosedInv'
  BY <1>2 DEF ClosedInv
<1>3. ASSUME NEW p \in Proc, Open(p) \/ Close(p) \/ Dup(p) \/ Pipe(p)
      PROVE  life[p] = "live" /\ life' = life /\ \A q \in Proc \ {p} : ofile'[q] = ofile[q]
  BY <1>3 DEF Open, Close, Dup, Pipe, Runs, RegistFileHandle, FilesType
<1>4. ASSUME NEW p \in Proc,
             \/ Pick(p) \/ Dup3Fails(p) \/ PipeSecond(p) \/ PipeNoPage(p) \/ ChdirRef(p)
             \/ Chdir(p) \/ CloseSlot(p) \/ CloseStrays(p) \/ Mmap(p) \/ Munmap(p) \/ Panic
      PROVE  life' = life /\ ofile' = ofile
  BY <1>4 DEF CloseSlot, CloseStrays, Pick, Dup3Fails, PipeSecond, PipeNoPage, ChdirRef, Chdir,
              Mmap, Munmap, Panic
<1>5. ASSUME NEW p \in Proc, NEW child \in Proc, Fork(p, child) PROVE ClosedInv'
  <2>1. /\ life' = [life EXCEPT ![child] = "live"]
        /\ \A q \in Proc \ {child} : ofile'[q] = ofile[q]
    BY <1>5 DEF Fork, FilesType
  <2> QED
    BY <2>1 DEF ClosedInv, FilesType
<1>6. ASSUME NEW p \in Proc, Exit(p) PROVE ClosedInv'
  BY <1>6 DEF Exit, ClosedInv, FilesType
<1>7. ASSUME NEW p \in Proc, Reap(p) PROVE ClosedInv'
  BY <1>7 DEF Reap, ClosedInv, FilesType
<1>8. ASSUME UNCHANGED vars PROVE life' = life /\ ofile' = ofile
  BY <1>8 DEF vars
<1> QED
  BY <1>1, <1>2, <1>3, <1>4, <1>5, <1>6, <1>7, <1>8, PanicsOnly DEF FilesStep, Next

Apart(p, s) ==
    life[p] = "live" /\ vma[p][s] # 0 =>
        /\ area[vma[p][s]].f # 0
        /\ \A q \in Proc, r \in Slot :
              life[q] = "live" /\ vma[q][r] = vma[p][s] => p = q /\ s = r

AllApart == \A p \in Proc, s \in Slot : Apart(p, s)

LEMMA ApartIs == AllApart => AreasApart
  BY DEF AllApart, AreasApart, Apart, Lives, Mapped

\* mmap and fork take areas that nobody's slot names, since those have files; munmap and exit
\* free areas that nobody else's slot names.
LEMMA ApartNext == ASSUME FilesType, AllApart, [FilesStep]_vars PROVE AllApart'
<1>1. \A p \in Proc, s \in Slot : Apart(p, s)
  BY DEF AllApart
<1>2. ASSUME \A p \in Proc, s \in Slot : Apart(p, s)' PROVE AllApart'
  BY <1>2 DEF AllApart
<1>3. ASSUME UNCHANGED <<area, vma, life>> PROVE AllApart'
  BY <1>1, <1>2, <1>3 DEF Apart
<1>4. ASSUME NEW p \in Proc, Mmap(p) PROVE AllApart'
  <2>1. PICK d \in Fd, a \in Area :
            /\ ofile[p][d] \in Handle /\ area[a].f = 0
            /\ area'[a].f = ofile[p][d]
            /\ \A b \in Area \ {a} : area'[b] = area[b]
            /\ \/ vma' = vma
               \/ \E s \in Slot : vma[p][s] = 0 /\ vma' = [vma EXCEPT ![p][s] = a]
    BY <1>4, MmapDoes
  <2>2. area'[a].f # 0 /\ a # 0 /\ life' = life /\ life[p] = "live"
    BY <1>4, <2>1 DEF Mmap, Handle, Area, Runs
  <2>3. \A q \in Proc, r \in Slot : life[q] = "live" => vma[q][r] # a
    BY <1>1, <2>1, <2>2 DEF Apart
  <2>4. CASE vma' = vma
    BY <1>1, <1>2, <2>1, <2>2, <2>3, <2>4 DEF Apart, FilesType
  <2>5. ASSUME NEW s \in Slot, vma[p][s] = 0, vma' = [vma EXCEPT ![p][s] = a]
        PROVE  AllApart'
    <3>1. \A q \in Proc, r \in Slot :
              vma'[q][r] = IF q = p /\ r = s THEN a ELSE vma[q][r]
      BY <2>5 DEF FilesType
    <3>2. \A q \in Proc, r \in Slot : vma[q][r] \in Area \cup {0}
      BY DEF FilesType
    <3> QED
      BY <1>1, <1>2, <2>1, <2>2, <2>3, <3>1, <3>2 DEF Apart
  <2> QED
    BY <2>1, <2>4, <2>5
<1>5. ASSUME NEW p \in Proc, Munmap(p) PROVE AllApart'
  <2>1. PICK s \in Mapped(p) :
            LET a == vma[p][s] IN
            /\ s \in Slot /\ a \in Area
            /\ \A b \in Area \ {a} : area'[b] = area[b]
            /\ \/ area'[a].f = 0 /\ vma' = [vma EXCEPT ![p][s] = 0]
               \/ area'[a].f = area[a].f /\ vma' = vma
    BY <1>5, MunmapDoes
  <2>2. life' = life /\ life[p] = "live" /\ s \in Slot /\ vma[p][s] # 0
    BY <1>5, <2>1 DEF Munmap, Runs, Mapped
  <2>3. \A q \in Proc, r \in Slot : vma[q][r] \in Area \cup {0}
    BY DEF FilesType
  <2>4. CASE vma' = vma /\ area'[vma[p][s]].f = area[vma[p][s]].f
    BY <1>1, <1>2, <2>1, <2>2, <2>3, <2>4 DEF Apart
  <2>5. CASE vma' = [vma EXCEPT ![p][s] = 0]
    <3>1. \A q \in Proc, r \in Slot :
              vma'[q][r] = IF q = p /\ r = s THEN 0 ELSE vma[q][r]
      BY <2>2, <2>5 DEF FilesType
    <3> QED
      BY <1>1, <1>2, <2>1, <2>2, <2>3, <3>1 DEF Apart
  <2> QED
    BY <2>1, <2>4, <2>5
<1>6. ASSUME NEW p \in Proc, NEW child \in Proc, Fork(p, child) PROVE AllApart'
  <2>1. PICK g \in [Mapped(p) -> FreeAreas] :
            /\ \A s, r \in Mapped(p) : g[s] = g[r] => s = r
            /\ \A q \in Proc : \A s \in Slot :
                   vma'[q][s] = IF q # child THEN vma[q][s]
                                ELSE IF s \in Mapped(p) THEN g[s] ELSE 0
            /\ \A s \in Mapped(p) : area'[g[s]] = area[vma[p][s]]
            /\ \A a \in Area : (\A s \in Mapped(p) : g[s] # a) => area'[a] = area[a]
    BY <1>6, ForkAreas
  <2>2. life[p] = "live" /\ child # p /\ life' = [life EXCEPT ![child] = "live"]
    BY <1>6, ForkDoes
  <2>3. \A s \in Mapped(p) : g[s] \in Area /\ g[s] # 0 /\ area[g[s]].f = 0
    BY DEF FreeAreas, Area
  <2>4. \A q \in Proc : life'[q] = IF q = child THEN "live" ELSE life[q]
    BY <2>2 DEF FilesType
  <2>5. \A q \in Proc, r \in Slot : vma[q][r] \in Area \cup {0}
    BY DEF FilesType
  <2>6. ASSUME NEW q \in Proc, NEW r \in Slot, life[q] = "live", vma[q][r] # 0
        PROVE  area[vma[q][r]].f # 0 /\ \A s \in Mapped(p) : g[s] # vma[q][r]
    BY <1>1, <2>3, <2>6 DEF Apart
  <2>7. ASSUME NEW q \in Proc, NEW r \in Slot, q # child PROVE Apart(q, r)'
    <3>1. SUFFICES ASSUME life[q] = "live", vma[q][r] # 0
                   PROVE  /\ area'[vma[q][r]].f # 0
                          /\ \A o \in Proc, t \in Slot :
                                life'[o] = "live" /\ vma'[o][t] = vma[q][r] => q = o /\ r = t
      BY <2>1, <2>4, <2>7 DEF Apart
    <3>2. area'[vma[q][r]].f # 0
      BY <3>1, <2>1, <2>5, <2>6
    <3>3. ASSUME NEW o \in Proc, NEW t \in Slot, life'[o] = "live", vma'[o][t] = vma[q][r]
          PROVE  q = o /\ r = t
      BY <1>1, <3>1, <3>3, <2>1, <2>4, <2>6 DEF Apart
    <3> QED
      BY <3>2, <3>3
  <2>8. ASSUME NEW r \in Slot PROVE Apart(child, r)'
    <3>1. CASE r \notin Mapped(p)
      BY <3>1, <2>1 DEF Apart
    <3>2. CASE r \in Mapped(p)
      <4>1. vma'[child][r] = g[r] /\ area'[g[r]] = area[vma[p][r]]
        BY <3>2, <2>1
      <4>2. area[vma[p][r]].f # 0
        BY <3>2, <2>2, <2>6 DEF Mapped
      <4>3. ASSUME NEW o \in Proc, NEW t \in Slot, life'[o] = "live", vma'[o][t] = g[r]
            PROVE  child = o /\ r = t
        BY <4>3, <3>2, <2>1, <2>3, <2>4, <2>6
      <4> QED
        BY <4>1, <4>2, <4>3 DEF Apart
    <3> QED
      BY <3>1, <3>2
  <2> QED
    BY <1>2, <2>7, <2>8
<1>7. ASSUME NEW p \in Proc, Exit(p) PROVE AllApart'
  <2>1. /\ \A a \in Area : IF \E s \in Mapped(p) : vma[p][s] = a THEN area'[a].f = 0
                           ELSE area'[a] = area[a]
        /\ life' = [life EXCEPT ![p] = "zombie"] /\ vma' = vma /\ life[p] = "live"
    BY <1>7, ExitDoes DEF Exit, Runs
  <2>2. \A q \in Proc : life'[q] = IF q = p THEN "zombie" ELSE life[q]
    BY <2>1 DEF FilesType
  <2>3. ASSUME NEW q \in Proc \ {p}, NEW r \in Slot, life[q] = "live", vma[q][r] # 0
        PROVE  area'[vma[q][r]] = area[vma[q][r]]
    <3>1. vma[q][r] \in Area
      BY <2>3 DEF FilesType
    <3>2. \A s \in Mapped(p) : vma[p][s] # vma[q][r]
      BY <1>1, <2>1, <2>3 DEF Apart, Mapped
    <3> QED
      BY <3>1, <3>2, <2>1
  <2> QED
    BY <1>1, <1>2, <2>1, <2>2, <2>3 DEF Apart
<1>8. ASSUME NEW p \in Proc, Reap(p) PROVE AllApart'
  <2>1. /\ life[p] # "live" /\ area' = area
        /\ \A q \in Proc : life'[q] = IF q = p THEN "unused" ELSE life[q]
        /\ \A q \in Proc \ {p} : vma'[q] = vma[q]
    BY <1>8 DEF Reap, FilesType
  <2> QED
    BY <1>1, <1>2, <2>1 DEF Apart
<1>9. ASSUME NEW p \in Proc,
             \/ Pick(p) \/ Open(p) \/ Close(p) \/ CloseStrays(p) \/ Dup(p) \/ Dup3Fails(p)
             \/ PipeSecond(p) \/ Pipe(p) \/ PipeNoPage(p) \/ ChdirRef(p) \/ Chdir(p) \/ Panic
      PROVE  UNCHANGED <<area, vma, life>>
  BY <1>9 DEF Pick, Open, Close, CloseStrays, Dup, Dup3Fails, PipeSecond, Pipe, PipeNoPage,
              ChdirRef, Chdir, Panic, areas
<1>10. ASSUME UNCHANGED vars PROVE UNCHANGED <<area, vma, life>>
  BY <1>10 DEF vars
<1>11. ASSUME NEW p \in Proc, CloseSlot(p) PROVE AllApart'
  <2>1. area' = area /\ life' = life
    BY <1>11 DEF CloseSlot
  <2>2. \A q \in Proc, r \in Slot : vma'[q][r] \in {0, vma[q][r]}
    BY <1>11, CloseSlotDoes
  <2> QED
    BY <1>1, <1>2, <2>1, <2>2 DEF Apart
<1> QED
  BY <1>3, <1>4, <1>5, <1>6, <1>7, <1>8, <1>9, <1>10, <1>11, PanicsOnly DEF FilesStep, Next

-----------------------------------------------------------------------------
(* Files: counts and uses, where the timer leaves a call alone *)

\* The handles a call has picked are still as allocFileHandle found them, but for ref.
PickedInv == \A p \in Proc :
    /\ at[p] \in {"open", "pipe", "chdir"} => f0[p] \in Unused
    /\ at[p] \in {"pipe2", "chdir2"} =>
          f0[p] \in Handle /\ mode[f0[p]] = FD_NONE /\ ref[f0[p]] = 1
    /\ at[p] = "pipe2" => f1[p] \in Unused

\* A handle that a call has picked is left to it: until the call is over nobody else runs.
LEMMA PickedNext ==
    ASSUME ~Preempt, FilesType, NoneInv, PickedInv, [FilesStep]_vars PROVE PickedInv'
<1>1. ASSUME NEW p \in Proc, \A q \in Proc \ {p} : at'[q] = "idle",
             \/ at'[p] = "idle"
             \/ at'[p] \in {"open", "pipe", "chdir"} /\ f0'[p] \in Unused'
             \/ /\ at'[p] \in {"pipe2", "chdir2"}
                /\ f0'[p] \in Handle /\ mode'[f0'[p]] = FD_NONE /\ ref'[f0'[p]] = 1
                /\ at'[p] = "pipe2" => f1'[p] \in Unused'
      PROVE  PickedInv'
  BY <1>1 DEF PickedInv
<1>2. ASSUME NEW p \in Proc, NEW place, Runs(p, place)
      PROVE  at[p] = place /\ \A q \in Proc \ {p} : at[q] = "idle"
  BY <1>2 DEF Runs
<1>3. ASSUME NEW p \in Proc, Pick(p) PROVE PickedInv'
  <2>1. /\ at' = [at EXCEPT ![p] = at'[p]] /\ at'[p] \in {"open", "pipe", "chdir"}
        /\ f0'[p] \in Unused /\ ref' = ref /\ mode' = mode
    BY <1>3 DEF Pick, Goes, handles, AllocFileHandle, FilesType
  <2>2. Unused' = Unused
    BY <2>1 DEF Unused
  <2>3. \A q \in Proc \ {p} : at[q] = "idle"
    BY <1>2, <1>3 DEF Pick
  <2> QED
    BY <1>1, <2>1, <2>2, <2>3 DEF FilesType
<1>4. ASSUME NEW p \in Proc, PipeSecond(p) PROVE PickedInv'
  <2>1. at[p] = "pipe" /\ \A q \in Proc \ {p} : at[q] = "idle"
    BY <1>2, <1>4 DEF PipeSecond
  <2>2. /\ f0[p] \in Unused /\ f0' = f0 /\ mode' = mode /\ at' = [at EXCEPT ![p] = "pipe2"]
        /\ ref' = [ref EXCEPT ![f0[p]] = 1] /\ f1'[p] \in Unused \ {f0[p]}
    BY <2>1, <1>4 DEF PipeSecond, Goes, PickedInv, FilesType
  <2>3. f0[p] \in Handle /\ mode'[f0[p]] = FD_NONE /\ ref'[f0[p]] = 1 /\ f1'[p] \in Unused'
    BY <2>2 DEF Unused, NoneInv, FilesType
  <2> QED
    BY <1>1, <2>1, <2>2, <2>3 DEF FilesType
<1>5. ASSUME NEW p \in Proc, ChdirRef(p) PROVE PickedInv'
  <2>1. at[p] = "chdir" /\ \A q \in Proc \ {p} : at[q] = "idle"
    BY <1>2, <1>5 DEF ChdirRef
  <2>2. /\ f0[p] \in Unused /\ f0' = f0 /\ mode' = mode /\ at' = [at EXCEPT ![p] = "chdir2"]
        /\ ref' = [ref EXCEPT ![f0[p]] = 1]
    BY <2>1, <1>5 DEF ChdirRef, Goes, PickedInv, FilesType
  <2>3. f0[p] \in Handle /\ mode'[f0[p]] = FD_NONE /\ ref'[f0[p]] = 1
    BY <2>2 DEF Unused, NoneInv, FilesType
  <2> QED
    BY <1>1, <2>1, <2>2, <2>3 DEF FilesType
<1>6. ASSUME NEW p \in Proc, Open(p) \/ Pipe(p) \/ PipeNoPage(p) \/ Chdir(p) PROVE PickedInv'
  <2>1. \A q \in Proc \ {p} : at[q] = "idle"
    BY <1>2, <1>6 DEF Open, Pipe, PipeNoPage, Chdir
  <2>2. at' = [at EXCEPT ![p] = "idle"]
    BY <1>6 DEF Open, Pipe, PipeNoPage, Chdir, Returns, Goes
  <2> QED
    BY <1>1, <2>1, <2>2 DEF FilesType
<1>7. ASSUME NEW p \in Proc,
             \/ Close(p) \/ CloseSlot(p) \/ Dup(p) \/ Dup3Fails(p) \/ Mmap(p) \/ Munmap(p)
             \/ Exit(p) \/ \E child \in Proc : Fork(p, child)
      PROVE  PickedInv'
  <2>1. Runs(p, "idle") /\ at' = at
    BY <1>7 DEF Close, CloseSlot, Dup, Dup3Fails, Mmap, Munmap, Exit, Fork, calls
  <2> QED
    BY <1>1, <1>2, <2>1
<1>8. ASSUME UNCHANGED <<at, f0, f1, ref, mode>> PROVE PickedInv'
  BY <1>8 DEF PickedInv, Unused
<1>9. ASSUME NEW p \in Proc, Reap(p) \/ CloseStrays(p) \/ Panic
      PROVE  UNCHANGED <<at, f0, f1, ref, mode>>
  BY <1>9 DEF Reap, CloseStrays, Panic, calls, handles
<1>10. ASSUME UNCHANGED vars PROVE UNCHANGED <<at, f0, f1, ref, mode>>
  BY <1>10 DEF vars
<1> QED
  BY <1>3, <1>4, <1>5, <1>6, <1>7, <1>8, <1>9, <1>10, PanicsOnly DEF FilesStep, Next

FdUses(h) == {use \in Proc \X Fd : ofile[use[1]][use[2]] = h}
AreaUses(h) == {a \in Area : area[a].f = h}
Uses(h) == Cardinality(FdUses(h)) + Cardinality(AreaUses(h))
Used(h) == (\E p \in Proc, d \in Fd : ofile[p][d] = h) \/ \E a \in Area : area[a].f = h

Covered(h) == ref[h] >= Uses(h) /\ (Used(h) => mode[h].type # "none")

\* There are finitely many uses.
LEMMA UsesCount ==
    ASSUME NEW h
    PROVE  /\ IsFiniteSet(FdUses(h)) /\ IsFiniteSet(AreaUses(h))
           /\ Cardinality(FdUses(h)) \in Nat /\ Cardinality(AreaUses(h)) \in Nat
           /\ Uses(h) \in Nat /\ (Uses(h) > 0 <=> Used(h))
<1>1. IsFiniteSet(Proc \X Fd) /\ IsFiniteSet(Area)
  <2>1. 0 \in Int /\ 1 \in Int /\ NOFILE - 1 \in Int /\ NVMA \in Int
    BY FilesAssumption
  <2>2. IsFiniteSet(0..NOFILE - 1) /\ IsFiniteSet(1..NVMA)
    BY <2>1, FS_Interval
  <2> QED
    BY <2>2, FilesAssumption, FS_Product DEF Fd, Area
<1>2. IsFiniteSet(FdUses(h)) /\ IsFiniteSet(AreaUses(h))
  <2>1. FdUses(h) \subseteq Proc \X Fd /\ AreaUses(h) \subseteq Area
    BY DEF FdUses, AreaUses
  <2> QED
    BY <2>1, <1>1, FS_Subset
<1>3. Cardinality(FdUses(h)) \in Nat /\ Cardinality(AreaUses(h)) \in Nat
  BY <1>2, FS_CardinalityType
<1>4. /\ Cardinality(FdUses(h)) = 0 <=> FdUses(h) = {}
      /\ Cardinality(AreaUses(h)) = 0 <=> AreaUses(h) = {}
  BY <1>2, FS_EmptySet
<1>5. Used(h) <=> FdUses(h) # {} \/ AreaUses(h) # {}
  <2>1. (\E p \in Proc, d \in Fd : ofile[p][d] = h) <=> FdUses(h) # {}
    <3>1. ASSUME NEW p \in Proc, NEW d \in Fd, ofile[p][d] = h PROVE <<p, d>> \in FdUses(h)
      BY <3>1 DEF FdUses
    <3>2. ASSUME NEW use \in FdUses(h)
          PROVE  use[1] \in Proc /\ use[2] \in Fd /\ ofile[use[1]][use[2]] = h
      BY DEF FdUses
    <3> QED
      BY <3>1, <3>2
  <2>2. (\E a \in Area : area[a].f = h) <=> AreaUses(h) # {}
    BY DEF AreaUses
  <2> QED
    BY <2>1, <2>2 DEF Used
<1> QED
  BY <1>2, <1>3, <1>4, <1>5 DEF Uses

AllCover == \A h \in Handle : Covered(h)

LEMMA CoverIs == AllCover => RefsCover
<1>1. \A h \in Handle : Uses(h) > 0 <=> Used(h)
  BY UsesCount
<1> QED
  BY <1>1 DEF AllCover, RefsCover, Covered, Uses, FdUses, AreaUses

\* A step adds no more uses of a handle than the descriptors D and the areas A it writes.
LEMMA UsesNext ==
    ASSUME NEW h, NEW D, NEW A, IsFiniteSet(D), IsFiniteSet(A),
           \A p \in Proc, d \in Fd : ofile'[p][d] = h => ofile[p][d] = h \/ <<p, d>> \in D,
           \A a \in Area : area'[a].f = h => area[a].f = h \/ a \in A
    PROVE  /\ Uses(h)' \in Nat
           /\ Cardinality(D) \in Nat /\ Cardinality(A) \in Nat
           /\ Uses(h)' <= Uses(h) + Cardinality(D) + Cardinality(A)
           /\ Used(h)' => Used(h) \/ D # {} \/ A # {}
<1>1. FdUses(h)' \subseteq FdUses(h) \cup D /\ AreaUses(h)' \subseteq AreaUses(h) \cup A
  <2>1. ASSUME NEW use \in FdUses(h)' PROVE use \in FdUses(h) \cup D
    <3>1. use \in Proc \X Fd /\ use = <<use[1], use[2]>> /\ ofile'[use[1]][use[2]] = h
      BY DEF FdUses
    <3>2. ofile[use[1]][use[2]] = h \/ use \in D
      BY <3>1
    <3> QED
      BY <3>1, <3>2 DEF FdUses
  <2>2. AreaUses(h)' \subseteq AreaUses(h) \cup A
    BY DEF AreaUses
  <2> QED
    BY <2>1, <2>2
<1>2. /\ IsFiniteSet(FdUses(h)) /\ IsFiniteSet(AreaUses(h))
      /\ Cardinality(FdUses(h)) \in Nat /\ Cardinality(AreaUses(h)) \in Nat
      /\ Cardinality(D) \in Nat /\ Cardinality(A) \in Nat
  BY UsesCount, FS_CardinalityType
<1>3. ASSUME NEW S, NEW T, NEW U, IsFiniteSet(S), IsFiniteSet(T), U \subseteq S \cup T
      PROVE  Cardinality(U) \in Nat /\ Cardinality(U) <= Cardinality(S) + Cardinality(T)
  <2>1. /\ IsFiniteSet(S \cup T)
        /\ Cardinality(S \cup T) = Cardinality(S) + Cardinality(T) - Cardinality(S \cap T)
    BY <1>3, FS_Union
  <2>2. IsFiniteSet(U) /\ Cardinality(U) <= Cardinality(S \cup T)
    BY <2>1, <1>3, FS_Subset
  <2>3. IsFiniteSet(S \cap T)
    BY <1>3, FS_Intersection
  <2> QED
    BY <2>1, <2>2, <2>3, <1>3, FS_CardinalityType
<1>4. /\ Cardinality(FdUses(h)') \in Nat
      /\ Cardinality(FdUses(h)') <= Cardinality(FdUses(h)) + Cardinality(D)
  BY <1>1, <1>2, <1>3
<1>5. /\ Cardinality(AreaUses(h)') \in Nat
      /\ Cardinality(AreaUses(h)') <= Cardinality(AreaUses(h)) + Cardinality(A)
  BY <1>1, <1>2, <1>3
<1>6. Used(h)' => Used(h) \/ D # {} \/ A # {}
  BY DEF Used
<1> QED
  BY <1>2, <1>4, <1>5, <1>6 DEF Uses

\* What no longer is used, or is used as before, stays covered.
LEMMA NoMoreUses ==
    ASSUME NEW h \in Handle, Covered(h), ref[h] \in Nat, ref'[h] \in Nat,
           \/ ref'[h] >= ref[h] /\ mode'[h] = mode[h]
           \/ ~Used(h),
           \A p \in Proc, d \in Fd : ofile'[p][d] = h => ofile[p][d] = h,
           \A a \in Area : area'[a].f = h => area[a].f = h
    PROVE  Covered(h)'
<1>1. IsFiniteSet({}) /\ Cardinality({}) = 0
  BY FS_EmptySet
<1>2. Uses(h)' \in Nat /\ Uses(h)' <= Uses(h) + 0 + 0 /\ (Used(h)' => Used(h))
  BY <1>1, UsesNext
<1>3. Uses(h) \in Nat /\ (Uses(h) > 0 <=> Used(h))
  BY UsesCount
<1> QED
  BY <1>2, <1>3 DEF Covered

\* A handle's one new use, which is counted: a descriptor, or an area
LEMMA OneMoreFd ==
    ASSUME NEW h \in Handle, NEW u, ref'[h] \in Nat, ref'[h] >= Uses(h) + 1,
           mode'[h].type # "none",
           \A p \in Proc, d \in Fd : ofile'[p][d] = h => ofile[p][d] = h \/ <<p, d>> = u,
           area' = area
    PROVE  Covered(h)'
<1>1. IsFiniteSet({}) /\ Cardinality({}) = 0 /\ IsFiniteSet({u}) /\ Cardinality({u}) = 1
  BY FS_EmptySet, FS_Singleton
<1>2. /\ \A p \in Proc, d \in Fd : ofile'[p][d] = h => ofile[p][d] = h \/ <<p, d>> \in {u}
      /\ \A a \in Area : area'[a].f = h => area[a].f = h \/ a \in {}
  OBVIOUS
<1>3. Uses(h)' \in Nat /\ Uses(h)' <= Uses(h) + Cardinality({u}) + Cardinality({})
  BY <1>1, <1>2, UsesNext
<1>4. Uses(h) \in Nat
  BY UsesCount
<1> QED
  BY <1>1, <1>3, <1>4 DEF Covered

LEMMA OneMoreArea ==
    ASSUME NEW h \in Handle, NEW b, ref'[h] \in Nat, ref'[h] >= Uses(h) + 1,
           mode'[h].type # "none", ofile' = ofile,
           \A a \in Area : area'[a].f = h => area[a].f = h \/ a = b
    PROVE  Covered(h)'
<1>1. IsFiniteSet({}) /\ Cardinality({}) = 0 /\ IsFiniteSet({b}) /\ Cardinality({b}) = 1
  BY FS_EmptySet, FS_Singleton
<1>2. /\ \A p \in Proc, d \in Fd : ofile'[p][d] = h => ofile[p][d] = h \/ <<p, d>> \in {}
      /\ \A a \in Area : area'[a].f = h => area[a].f = h \/ a \in {b}
  OBVIOUS
<1>3. Uses(h)' \in Nat /\ Uses(h)' <= Uses(h) + Cardinality({}) + Cardinality({b})
  BY <1>1, <1>2, UsesNext
<1>4. Uses(h) \in Nat
  BY UsesCount
<1> QED
  BY <1>1, <1>3, <1>4 DEF Covered

\* fork counts every descriptor and area it copies.
LEMMA ForkCovers ==
    ASSUME FilesType, FilesType', NEW p \in Proc, NEW child \in Proc, Fork(p, child),
           NEW h \in Handle, Covered(h)
    PROVE  Covered(h)'
<1> DEFINE fds == {d \in Fd : ofile[p][d] = h}
           slots == {s \in Mapped(p) : area[vma[p][s]].f = h}
           D == {child} \X fds
<1>1. PICK g \in [Mapped(p) -> FreeAreas] :
          /\ \A s \in Mapped(p) : area'[g[s]] = area[vma[p][s]]
          /\ \A a \in Area : (\A s \in Mapped(p) : g[s] # a) => area'[a] = area[a]
  BY ForkAreas
<1> DEFINE A == {g[s] : s \in slots}
<1>2. /\ IsFiniteSet(fds) /\ IsFiniteSet(slots)
      /\ Cardinality(fds) \in Nat /\ Cardinality(slots) \in Nat
      /\ ForkDups(p, h) = Cardinality(fds) + Cardinality(slots)
  BY DupsCount DEF ForkDups
<1>3. IsFiniteSet(D) /\ Cardinality(D) = Cardinality(fds)
  <2>1. IsFiniteSet({child}) /\ Cardinality({child}) = 1
    BY FS_Singleton
  <2>2. IsFiniteSet(D) /\ Cardinality(D) = Cardinality({child}) * Cardinality(fds)
    BY <2>1, <1>2, FS_Product
  <2> QED
    BY <2>1, <2>2, <1>2
<1>4. IsFiniteSet(A) /\ Cardinality(A) <= Cardinality(slots) /\ Cardinality(A) \in Nat
  <2>1. [s \in slots |-> g[s]] \in Surjection(slots, A)
    BY DEF Surjection
  <2>2. IsFiniteSet(A) /\ Cardinality(A) <= Cardinality(slots)
    BY <2>1, <1>2, FS_Surjection
  <2> QED
    BY <2>2, FS_CardinalityType
<1>5. /\ \A q \in Proc : \A d \in Fd :
            ofile'[q][d] = IF q = child /\ ofile[p][d] # 0 THEN ofile[p][d] ELSE ofile[q][d]
      /\ ref'[h] = ref[h] + ForkDups(p, h) /\ mode' = mode
  BY ForkDoes
<1>6. \A q \in Proc, d \in Fd : ofile'[q][d] = h => ofile[q][d] = h \/ <<q, d>> \in D
  BY <1>5
<1>7. \A a \in Area : area'[a].f = h => area[a].f = h \/ a \in A
  <2>1. SUFFICES ASSUME NEW a \in Area, area'[a].f = h, area[a].f # h PROVE a \in A
    OBVIOUS
  <2>2. PICK s \in Mapped(p) : g[s] = a
    BY <2>1, <1>1
  <2>3. s \in slots
    BY <2>1, <2>2, <1>1
  <2> QED
    BY <2>2, <2>3
<1>8. D # {} \/ A # {} => Used(h)
  <2>1. fds # {} => Used(h)
    BY DEF Used
  <2>2. slots # {} => Used(h)
    BY DEF Used, Mapped, FilesType
  <2> QED
    BY <2>1, <2>2
<1> HIDE DEF fds, slots, D, A
<1>9. /\ Uses(h)' \in Nat /\ Uses(h)' <= Uses(h) + Cardinality(D) + Cardinality(A)
      /\ Used(h)' => Used(h) \/ D # {} \/ A # {}
  BY <1>3, <1>4, <1>6, <1>7, UsesNext
<1>10. Uses(h) \in Nat /\ ref[h] \in Nat
  BY UsesCount DEF FilesType
<1> QED
  BY <1>2, <1>3, <1>4, <1>5, <1>8, <1>9, <1>10 DEF Covered

\* AllCover holds after every step: a new use is counted, or its handle had no use.
LEMMA CoverNext ==
    ASSUME ~Preempt, FilesType, NoneInv, PickedInv, AllCover, [FilesStep]_vars PROVE AllCover'
<1>1. FilesType'
  BY FilesTypeNext
<1>2. \A h \in Handle : Covered(h) /\ ref[h] \in Nat /\ ref'[h] \in Nat /\ 0 # h
  <2>1. \A h \in Handle : ref[h] \in Nat /\ ref'[h] \in Nat
    BY <1>1 DEF FilesType
  <2>2. \A h \in Handle : Covered(h)
    BY DEF AllCover
  <2> QED
    BY <2>1, <2>2 DEF Handle
<1>3. ASSUME \A h \in Handle : Covered(h)' PROVE AllCover'
  BY <1>3 DEF AllCover
<1>4. \A h \in Handle : mode[h] = FD_NONE => ~Used(h) /\ Uses(h) = 0
  <2>1. \A h \in Handle : Uses(h) \in Nat /\ (Uses(h) > 0 <=> Used(h))
    BY UsesCount
  <2> QED
    BY <1>2, <2>1 DEF Covered, FD_NONE
<1>5. \A h \in Unused : h \in Handle /\ mode[h] = FD_NONE /\ ref[h] = 0
  BY DEF Unused, NoneInv
<1>6. ASSUME ref' = ref, mode' = mode,
             \A h \in Handle, p \in Proc, d \in Fd : ofile'[p][d] = h => ofile[p][d] = h,
             \A h \in Handle, a \in Area : area'[a].f = h => area[a].f = h
      PROVE  AllCover'
  <2>1. \A h \in Handle : Covered(h)'
    BY <1>2, <1>6, NoMoreUses
  <2> QED
    BY <2>1, <1>3
<1>7. ASSUME NEW p \in Proc, Pick(p) \/ CloseSlot(p) \/ CloseStrays(p) \/ Reap(p) \/ Panic
      PROVE  AllCover'
  BY <1>6, <1>7 DEF Pick, CloseSlot, CloseStrays, Reap, Panic, handles, areas
<1>8. ASSUME NEW p \in Proc, Close(p) PROVE AllCover'
  <2>1. PICK d \in Fd : ofile' = [ofile EXCEPT ![p][d] = 0]
    BY <1>8 DEF Close
  <2>2. \A h \in Handle, q \in Proc, e \in Fd : ofile'[q][e] = h => ofile[q][e] = h
    BY <2>1, <1>2 DEF FilesType
  <2> QED
    BY <1>6, <1>8, <2>2 DEF Close, handles, areas
<1>9. ASSUME NEW p \in Proc, Munmap(p) PROVE AllCover'
  <2>1. PICK s \in Mapped(p) :
            LET a == vma[p][s] IN
            /\ a \in Area /\ \A b \in Area \ {a} : area'[b] = area[b]
            /\ area'[a].f = 0 \/ area'[a].f = area[a].f
    BY <1>9, MunmapDoes
  <2>2. \A h \in Handle, a \in Area : area'[a].f = h => area[a].f = h
    BY <2>1, <1>2
  <2> QED
    BY <1>6, <1>9, <2>2 DEF Munmap, handles
<1>10. ASSUME NEW p \in Proc, Exit(p) PROVE AllCover'
  <2>1. /\ \A q \in Proc, d \in Fd : ofile'[q][d] = IF q = p THEN 0 ELSE ofile[q][d]
        /\ \A a \in Area : area'[a].f = 0 \/ area'[a] = area[a]
        /\ ref' = ref /\ mode' = mode
    BY <1>10, ExitDoes DEF FilesType, handles
  <2> QED
    BY <1>2, <1>6, <2>1
<1>11. ASSUME NEW p \in Proc, Dup(p) PROVE AllCover'
  <2>1. PICK old \in Fd, new \in Fd \cup {-1} :
            /\ ofile[p][old] # 0 /\ VfsDup(ofile[p][old])
            /\ RegistFileHandle(p, ofile[p][old], new)
    BY <1>11 DEF Dup
  <2>2. PICK g \in Handle : g = ofile[p][old] /\ Used(g)
    BY <2>1 DEF FilesType, Used
  <2>3. PICK d \in Fd : ofile' = [ofile EXCEPT ![p][d] = g]
    BY <2>1, <2>2, RegistTypes
  <2>4. ref'[g] = ref[g] + 1 /\ \A h \in Handle \ {g} : ref'[h] = ref[h]
    BY <2>1, <2>2, DupTypes
  <2>5. mode' = mode /\ area' = area
    BY <1>11 DEF Dup, areas
  <2>6. \A q \in Proc, e \in Fd :
            ofile'[q][e] = IF q = p /\ e = d THEN g ELSE ofile[q][e]
    BY <2>3 DEF FilesType
  <2>7. ASSUME NEW h \in Handle \ {g} PROVE Covered(h)'
    BY <1>2, <2>4, <2>5, <2>6, <2>7, NoMoreUses
  <2>8. Covered(g)'
    <3>1. ref[g] >= Uses(g) /\ Uses(g) \in Nat /\ mode[g].type # "none"
      BY <1>2, <2>2, UsesCount DEF Covered
    <3>2. \A q \in Proc, e \in Fd : ofile'[q][e] = g => ofile[q][e] = g \/ <<q, e>> = <<p, d>>
      BY <2>6
    <3>3. ref'[g] >= Uses(g) + 1
      BY <1>2, <2>2, <2>4, <3>1
    <3> QED
      BY <1>2, <2>5, <3>1, <3>2, <3>3, OneMoreFd
  <2> QED
    BY <1>3, <2>7, <2>8
<1>12. ASSUME NEW p \in Proc, Dup3Fails(p) PROVE AllCover'
  <2>1. PICK old \in Fd : ofile[p][old] # 0 /\ VfsDup(ofile[p][old])
    BY <1>12 DEF Dup3Fails
  <2>2. ofile[p][old] \in Handle
    BY <2>1 DEF FilesType
  <2>3. \A h \in Handle : ref'[h] = ref[h] \/ ref'[h] = ref[h] + 1
    BY <2>1, <2>2, DupTypes
  <2>4. \A h \in Handle : ref'[h] >= ref[h]
    BY <1>2, <2>3
  <2>5. mode' = mode /\ ofile' = ofile /\ area' = area
    BY <1>12 DEF Dup3Fails, areas
  <2>6. \A h \in Handle : Covered(h)'
    BY <1>2, <2>4, <2>5, NoMoreUses
  <2> QED
    BY <1>3, <2>6
<1>13. ASSUME NEW p \in Proc, Mmap(p) PROVE AllCover'
  <2>1. PICK d \in Fd, a \in Area :
            /\ ofile[p][d] \in Handle
            /\ ref'[ofile[p][d]] = ref[ofile[p][d]] + 1
            /\ \A h \in Handle \ {ofile[p][d]} : ref'[h] = ref[h]
            /\ area'[a].f = ofile[p][d]
            /\ \A b \in Area \ {a} : area'[b] = area[b]
    BY <1>13, MmapDoes
  <2>2. PICK g \in Handle : g = ofile[p][d] /\ Used(g)
    BY <2>1 DEF Used
  <2>3. mode' = mode /\ ofile' = ofile
    BY <1>13 DEF Mmap
  <2>4. /\ ref'[g] = ref[g] + 1 /\ \A h \in Handle \ {g} : ref'[h] = ref[h]
        /\ \A b \in Area : area'[b].f = IF b = a THEN g ELSE area[b].f
    BY <2>1, <2>2
  <2>5. ASSUME NEW h \in Handle \ {g} PROVE Covered(h)'
    BY <1>2, <2>3, <2>4, <2>5, NoMoreUses
  <2>6. Covered(g)'
    <3>1. ref[g] >= Uses(g) /\ Uses(g) \in Nat /\ mode[g].type # "none"
      BY <1>2, <2>2, UsesCount DEF Covered
    <3>2. \A b \in Area : area'[b].f = g => area[b].f = g \/ b = a
      BY <2>4
    <3>3. ref'[g] >= Uses(g) + 1
      BY <1>2, <2>2, <2>4, <3>1
    <3> QED
      BY <1>2, <2>3, <3>1, <3>2, <3>3, OneMoreArea
  <2> QED
    BY <1>3, <2>5, <2>6
<1>14. ASSUME NEW p \in Proc, PipeSecond(p) \/ ChdirRef(p) PROVE AllCover'
  <2>1. /\ f0[p] \in Unused
        /\ ref' = [ref EXCEPT ![f0[p]] = 1] /\ mode' = mode /\ ofile' = ofile /\ area' = area
    BY <1>14 DEF PipeSecond, ChdirRef, Runs, PickedInv, areas
  <2>2. f0[p] \in Handle /\ ref[f0[p]] = 0
    BY <2>1, <1>5
  <2>3. \A h \in Handle : ref'[h] >= ref[h]
    BY <2>1, <2>2, <1>2 DEF FilesType
  <2>4. \A h \in Handle : Covered(h)'
    BY <1>2, <2>1, <2>3, NoMoreUses
  <2> QED
    BY <1>3, <2>4
<1>15. ASSUME NEW p \in Proc, PipeNoPage(p) \/ Chdir(p) PROVE AllCover'
  <2>1. /\ \A h \in Handle \ {f0[p], f1[p]} : ref'[h] = ref[h] /\ mode'[h] = mode[h]
        /\ Chdir(p) => \A h \in Handle \ {f0[p]} : ref'[h] = ref[h] /\ mode'[h] = mode[h]
        /\ ofile' = ofile /\ area' = area
    BY <1>15 DEF PipeNoPage, Chdir, areas, FilesType
  <2>2. /\ f0[p] \in Handle /\ ~Used(f0[p])
        /\ Chdir(p) \/ (f1[p] \in Handle /\ ~Used(f1[p]))
    BY <1>4, <1>5, <1>15 DEF PipeNoPage, Chdir, Runs, PickedInv
  <2>3. ASSUME NEW h \in Handle PROVE Covered(h)'
    <3>1. ~Used(h) \/ (ref'[h] >= ref[h] /\ mode'[h] = mode[h])
      BY <1>2, <2>1, <2>2
    <3> QED
      BY <1>2, <2>1, <3>1, NoMoreUses
  <2> QED
    BY <1>3, <2>3
<1>16. ASSUME NEW p \in Proc, Open(p) PROVE AllCover'
  <2>1. PICK g \in Handle : g = f0[p] /\ mode[g] = FD_NONE
    BY <1>5, <1>16 DEF Open, Runs, PickedInv
  <2>2. Uses(g) = 0
    BY <1>4, <2>1
  <2>3. RegistFileHandle(p, g, -1) /\ -1 \in Fd \cup {-1}
    BY <1>16, <2>1 DEF Open
  <2>4. PICK d \in Fd : ofile' = [ofile EXCEPT ![p][d] = g]
    BY <2>1, <2>3, RegistTypes
  <2>5. /\ ref'[g] = 1 /\ mode'[g].type # "none" /\ area' = area
        /\ \A h \in Handle \ {g} : ref'[h] = ref[h] /\ mode'[h] = mode[h]
    BY <1>16, <2>1, Kinds DEF Open, FilesType, areas
  <2>6. \A q \in Proc, e \in Fd :
            ofile'[q][e] = IF q = p /\ e = d THEN g ELSE ofile[q][e]
    BY <2>4 DEF FilesType
  <2>7. ASSUME NEW h \in Handle \ {g} PROVE Covered(h)'
    <3>1. ref'[h] >= ref[h] /\ mode'[h] = mode[h]
      BY <1>2, <2>5
    <3> QED
      BY <1>2, <2>5, <2>6, <2>7, <3>1, NoMoreUses
  <2>8. Covered(g)'
    <3>1. \A q \in Proc, e \in Fd : ofile'[q][e] = g => ofile[q][e] = g \/ <<q, e>> = <<p, d>>
      BY <2>6
    <3>2. ref'[g] >= Uses(g) + 1
      BY <2>2, <2>5
    <3> QED
      BY <1>2, <2>5, <3>1, <3>2, OneMoreFd
  <2> QED
    BY <1>3, <2>7, <2>8
<1>17. ASSUME NEW p \in Proc, Pipe(p) PROVE AllCover'
  <2>1. PICK g \in Handle, k \in Handle :
            /\ g = f0[p] /\ mode[g] = FD_NONE /\ ref[g] = 1
            /\ k = f1[p] /\ mode[k] = FD_NONE /\ ref[k] = 0
    BY <1>5, <1>17 DEF Pipe, Runs, PickedInv
  <2>2. Uses(g) = 0 /\ Uses(k) = 0 /\ g # k
    BY <1>4, <2>1
  <2>3. PICK d \in Fd, e \in Fd :
            /\ d < e /\ ofile' = [ofile EXCEPT ![p][d] = g, ![p][e] = k]
    BY <1>17, <2>1, PipeFds
  <2>4. /\ ref'[g] = 1 /\ ref'[k] = 1 /\ area' = area
        /\ mode'[g].type # "none" /\ mode'[k].type # "none"
        /\ \A h \in Handle \ {g, k} : ref'[h] = ref[h] /\ mode'[h] = mode[h]
    BY <1>17, <2>1, <2>2, Kinds DEF Pipe, FilesType, areas
  <2>5. \A q \in Proc, x \in Fd :
            ofile'[q][x] = IF q = p /\ x = e THEN k
                           ELSE IF q = p /\ x = d THEN g ELSE ofile[q][x]
    BY <2>3 DEF FilesType
  <2>6. ASSUME NEW h \in Handle \ {g, k} PROVE Covered(h)'
    <3>1. ref'[h] >= ref[h] /\ mode'[h] = mode[h]
      BY <1>2, <2>4
    <3> QED
      BY <1>2, <2>4, <2>5, <2>6, <3>1, NoMoreUses
  <2>7. Covered(g)'
    <3>1. \A q \in Proc, x \in Fd : ofile'[q][x] = g => ofile[q][x] = g \/ <<q, x>> = <<p, d>>
      BY <2>2, <2>5
    <3>2. ref'[g] >= Uses(g) + 1
      BY <2>2, <2>4
    <3> QED
      BY <1>2, <2>4, <3>1, <3>2, OneMoreFd
  <2>8. Covered(k)'
    <3>1. \A q \in Proc, x \in Fd : ofile'[q][x] = k => ofile[q][x] = k \/ <<q, x>> = <<p, e>>
      BY <2>2, <2>5
    <3>2. ref'[k] >= Uses(k) + 1
      BY <2>2, <2>4
    <3> QED
      BY <1>2, <2>4, <3>1, <3>2, OneMoreFd
  <2> QED
    BY <1>3, <2>6, <2>7, <2>8
<1>18. ASSUME NEW p \in Proc, NEW child \in Proc, Fork(p, child) PROVE AllCover'
  BY <1>1, <1>2, <1>3, <1>18, ForkCovers
<1>19. ASSUME UNCHANGED vars PROVE AllCover'
  BY <1>6, <1>19 DEF vars
<1> QED
  BY <1>7, <1>8, <1>9, <1>10, <1>11, <1>12, <1>13, <1>14, <1>15, <1>16, <1>17, <1>18, <1>19,
     PanicsOnly DEF FilesStep, Next

FInv == FilesType /\ NoneInv /\ ClosedInv /\ AllApart
CInv == FInv /\ PickedInv /\ AllCover

\* Nothing is in use at first.
LEMMA FilesStart == Init => FInv /\ CInv
<1> SUFFICES ASSUME Init PROVE FInv /\ PickedInv /\ AllCover
  BY DEF CInv
<1>1. FilesType /\ NoneInv /\ ClosedInv
  BY FilesBegin
<1>2. AllApart
  <2>1. \A p \in Proc : Mapped(p) = {}
    BY DEF Mapped, Init
  <2> QED
    BY <2>1 DEF AllApart, Apart, Mapped
<1>3. PickedInv
  BY DEF PickedInv, Init
<1>4. AllCover
  <2>1. ASSUME NEW h \in Handle PROVE Covered(h)
    <3>1. ~Used(h) /\ ref[h] = 0
      BY DEF Used, Init, NoArea, Handle
    <3> QED
      BY <3>1, UsesCount DEF Covered
  <2> QED
    BY <2>1 DEF AllCover
<1> QED
  BY <1>1, <1>2, <1>3, <1>4 DEF FInv

\* Lookups, mounts and unmounts leave the files alone.
LEMMA FilesStepIs == ASSUME [MountsNext]_<<vars, mountVars>> PROVE [FilesStep]_vars
  BY DEF MountsNext, FilesStep

\* The invariants are inductive.
LEMMA FInvNext == ASSUME FInv, [FilesStep]_vars PROVE FInv'
  BY FilesTypeNext, NoneNext, ClosedNext, ApartNext DEF FInv

LEMMA CInvNext == ASSUME ~Preempt, CInv, [FilesStep]_vars PROVE CInv'
<1>1. FInv /\ FInv'
  BY FInvNext DEF CInv
<1>2. PickedInv' /\ AllCover'
  BY <1>1, PickedNext, CoverNext DEF CInv, FInv
<1> QED
  BY <1>1, <1>2 DEF CInv

\* The areas of all live processes are apart, whatever they map, unmap and copy, whatever
\* numbers below 0 they close, and whether or not the timer comes between the steps of a call
\* (proc.cpp:729-739, syscallfile.cpp:42-53 and 249-287), until a close clears a word elsewhere.
THEOREM AreasStayApart == MountsSpec => []AreasApart
<1>1. MountsInit => FInv
  BY FilesStart DEF MountsInit
<1>2. FInv /\ [MountsNext]_<<vars, mountVars>> => FInv'
  BY FInvNext, FilesStepIs
<1>3. FInv => AreasApart
  BY ApartIs DEF FInv
<1> QED
  BY <1>1, <1>2, <1>3, PTL DEF MountsSpec

\* As long as no timer comes after a lock is released, which pop_off sees to, ref counts at
\* least every descriptor and area that refers to a handle, for any number of processes,
\* handles and descriptors: allocFileHandle (vfs.cpp:96) gives out no handle that is in use.
\* dup3 may fail and leave ref too high; a close that clears a word elsewhere ends the promise.
THEOREM RefsAreEnough == ASSUME ~Preempt PROVE MountsSpec => []RefsCover
<1>1. MountsInit => CInv
  BY FilesStart DEF MountsInit
<1>2. CInv /\ [MountsNext]_<<vars, mountVars>> => CInv'
  BY CInvNext, FilesStepIs
<1>3. CInv => RefsCover
  BY CoverIs DEF CInv
<1> QED
  BY <1>1, <1>2, <1>3, PTL DEF MountsSpec

-----------------------------------------------------------------------------
(* Files implements FileTable *)

\* The handle behind each area of a live process, as FileTable has it
Behind(p, s) == IF life[p] = "live" /\ vma[p][s] # 0 THEN area[vma[p][s]].f ELSE 0
Maps == [p \in Proc |-> [s \in Slot |-> Behind(p, s)]]

\* Maps is what FileTable is given for its maps.
LEMMA MapsIs ==
    Maps = [p \in Proc |-> [s \in Slot |->
               IF p \in Lives /\ vma[p][s] # 0 THEN area[vma[p][s]].f ELSE 0]]
  BY DEF Maps, Behind, Lives

LEMMA MapsIsNext ==
    Maps' = [p \in Proc |-> [s \in Slot |->
                IF p \in Lives /\ vma[p][s] # 0 THEN area[vma[p][s]].f ELSE 0]]'
  BY DEF Maps, Behind, Lives

\* What does not change what FileTable has is a stutter of it.
LEMMA Stutters ==
    ASSUME ofile' = ofile, mode' = mode,
           \A p \in Proc, s \in Slot : Behind(p, s)' = Behind(p, s)
    PROVE  UNCHANGED FT!tables
<1>1. Maps' = Maps
  BY DEF Maps
<1> QED
  BY <1>1, MapsIs, MapsIsNext DEF FT!tables

\* Nobody refers to a handle without uses.
LEMMA FreshIs ==
    ASSUME NEW h \in Handle, FilesType, ~Used(h) PROVE h \in FT!Fresh
<1>1. \A p \in Proc, d \in Fd : ofile[p][d] # h
  BY DEF Used
<1>2. \A p \in Proc, s \in Slot : Behind(p, s) # h
  <2>1. ASSUME NEW p \in Proc, NEW s \in Slot, vma[p][s] # 0 PROVE area[vma[p][s]].f # h
    BY <2>1 DEF Used, FilesType
  <2> QED
    BY <2>1 DEF Behind, Handle
<1>3. \A p \in Proc, s \in Slot : Maps[p][s] # h
  BY <1>2 DEF Maps
<1>4. h \notin FT!Used
  BY <1>1, <1>3, MapsIs DEF FT!Used
<1> QED
  BY <1>4 DEF FT!Fresh

\* The slots of others, and one's own other slots, name areas that a step on the area of one
\* slot leaves alone.
LEMMA OnlyItsSlot ==
    ASSUME FilesType, AllApart, NEW p \in Proc, NEW s \in Mapped(p), life[p] = "live",
           life' = life,
           \A b \in Area \ {vma[p][s]} : area'[b] = area[b],
           vma' = vma \/ vma' = [vma EXCEPT ![p][s] = 0],
           NEW q \in Proc, NEW r \in Slot, q # p \/ r # s
    PROVE  Behind(q, r)' = Behind(q, r)
<1>1. vma'[q][r] = vma[q][r] /\ vma[q][r] \in Area \cup {0}
  BY DEF FilesType, Mapped
<1>2. s \in Slot /\ vma[p][s] # 0 /\ Apart(p, s)
  BY DEF AllApart, Mapped
<1>3. life[q] = "live" => vma[q][r] # vma[p][s]
  BY <1>2 DEF Apart
<1> QED
  BY <1>1, <1>3 DEF Behind

\* mmap maps, unless the process has no slot left and nobody gets the area.
LEMMA MapRefines == ASSUME CInv, NEW p \in Proc, Mmap(p)
                    PROVE  FT!Map(p) \/ UNCHANGED FT!tables
<1>1. PICK d \in Fd, a \in Area :
          /\ ofile[p][d] \in Handle /\ area[a].f = 0 /\ area'[a].f = ofile[p][d]
          /\ \A b \in Area \ {a} : area'[b] = area[b]
          /\ \/ vma' = vma
             \/ \E s \in Slot : vma[p][s] = 0 /\ vma' = [vma EXCEPT ![p][s] = a]
  BY MmapDoes DEF CInv, FInv
<1>2. /\ ofile' = ofile /\ mode' = mode /\ life' = life /\ life[p] = "live"
      /\ a # 0 /\ ofile[p][d] # 0
  BY <1>1 DEF Mmap, Runs, Area, Handle
<1>3. ASSUME NEW q \in Proc, NEW r \in Slot, life[q] = "live", vma[q][r] # 0
      PROVE  vma[q][r] \in Area \ {a} /\ area'[vma[q][r]] = area[vma[q][r]]
  <2>1. vma[q][r] \in Area /\ area[vma[q][r]].f # 0
    BY <1>3 DEF AllApart, CInv, FInv, FilesType, Apart
  <2> QED
    BY <2>1, <1>1
<1>4. CASE vma' = vma
  <2>1. \A q \in Proc, r \in Slot : Behind(q, r)' = Behind(q, r)
    BY <1>2, <1>3, <1>4 DEF Behind
  <2> QED
    BY <1>2, <2>1, Stutters
<1>5. ASSUME NEW s \in Slot, vma[p][s] = 0, vma' = [vma EXCEPT ![p][s] = a]
      PROVE  FT!Map(p)
  <2>1. \A q \in Proc, r \in Slot :
            vma'[q][r] = IF q = p /\ r = s THEN a ELSE vma[q][r]
    BY <1>5 DEF CInv, FInv, FilesType
  <2>2. \A q \in Proc, r \in Slot :
            Behind(q, r)' = IF q = p /\ r = s THEN ofile[p][d] ELSE Behind(q, r)
    BY <1>1, <1>2, <1>3, <2>1 DEF Behind
  <2>3. Maps' = [Maps EXCEPT ![p][s] = ofile[p][d]]
    BY <2>2 DEF Maps
  <2>4. Maps[p][s] = 0
    BY <1>5 DEF Maps, Behind
  <2> QED
    BY <1>2, <2>3, <2>4, MapsIs, MapsIsNext DEF FT!Map
<1> QED
  BY <1>1, <1>4, <1>5

\* An open's handle has no uses, so that FileTable may take it.
LEMMA OpenRefines == ASSUME CInv, NEW p \in Proc, Open(p) PROVE FT!Open(p)
<1>1. PICK g \in Handle : g = f0[p] /\ mode[g] = FD_NONE /\ ref[g] = 0
  BY DEF CInv, FInv, PickedInv, NoneInv, Unused, Open, Runs
<1>2. g \in FT!Fresh
  BY <1>1, FreshIs DEF AllCover, CInv, FInv, Covered, FD_NONE
<1>3. PICK access \in Flags : mode' = [mode EXCEPT ![g] = FD_DEVICE(access)]
  BY <1>1 DEF Open
<1>4. RegistFileHandle(p, g, -1) /\ -1 \in Fd \cup {-1} /\ -1 < 0
  BY <1>1 DEF Open
<1>5. PICK d \in Fd :
          /\ ofile[p][d] = 0 /\ \A e \in Fd : e < d => ofile[p][e] # 0
          /\ ofile' = [ofile EXCEPT ![p][d] = g]
  BY <1>4, RegistTypes DEF CInv, FInv
<1>6. Maps' = Maps
  BY DEF Maps, Behind, Open, areas
<1> QED
  BY <1>2, <1>3, <1>5, <1>6, Kinds, MapsIs, MapsIsNext DEF FT!Open, FT!IsLeastFree

\* The two ends of a pipe
LEMMA OpenTwoRefines == ASSUME CInv, NEW p \in Proc, Pipe(p) PROVE FT!OpenTwo(p)
<1>1. PICK g \in Handle, k \in Handle :
          /\ g = f0[p] /\ mode[g] = FD_NONE /\ ref[g] = 1
          /\ k = f1[p] /\ mode[k] = FD_NONE /\ ref[k] = 0
  BY DEF CInv, FInv, PickedInv, NoneInv, Unused, Pipe, Runs
<1>2. g \in FT!Fresh /\ k \in FT!Fresh /\ g # k
  BY <1>1, FreshIs DEF AllCover, CInv, FInv, Covered, FD_NONE
<1>3. mode' = [mode EXCEPT ![g] = FD_PIPE({"read"}), ![k] = FD_PIPE({"write"})]
  BY <1>1 DEF Pipe
<1>4. PICK d \in Fd, e \in Fd :
          /\ d < e /\ ofile[p][d] = 0 /\ ofile[p][e] = 0
          /\ \A x \in Fd : x < d \/ (d < x /\ x < e) => ofile[p][x] # 0
          /\ ofile' = [ofile EXCEPT ![p][d] = g, ![p][e] = k]
  <2>1. FilesType
    BY DEF CInv, FInv
  <2>2. PICK d \in Fd, e \in Fd :
            /\ d < e /\ ofile[p][d] = 0 /\ ofile[p][e] = 0
            /\ \A x \in Fd : x < d \/ (d < x /\ x < e) => ofile[p][x] # 0
            /\ ofile' = [ofile EXCEPT ![p][d] = f0[p], ![p][e] = f1[p]]
            /\ ofile' \in [Proc -> [Fd -> Handle \cup {0}]]
    BY <2>1, PipeFds
  <2> QED
    BY <1>1, <2>2
<1>5. Maps' = Maps
  BY DEF Maps, Behind, Pipe, areas
<1>6. FT!IsLeastFree(p, d) /\ \A x \in Fd : d < x /\ x < e => ofile[p][x] # 0
  BY <1>4 DEF FT!IsLeastFree
<1>7. PICK m \in Mode, n \in Mode : mode' = [mode EXCEPT ![g] = m, ![k] = n]
  BY <1>3, Kinds
<1> QED
  BY <1>2, <1>4, <1>5, <1>6, <1>7, MapsIs, MapsIsNext DEF FT!OpenTwo

\* dup and dup3 share the handle.
LEMMA DupRefines == ASSUME CInv, NEW p \in Proc, Dup(p) PROVE FT!Dup(p)
<1>1. PICK old \in Fd, new \in Fd \cup {-1} :
          /\ ofile[p][old] # 0 /\ RegistFileHandle(p, ofile[p][old], new)
  BY DEF Dup
<1>2. ofile[p][old] \in Handle \cup {0}
  BY DEF CInv, FInv, FilesType
<1>3. PICK d \in Fd : ofile[p][d] = 0 /\ ofile' = [ofile EXCEPT ![p][d] = ofile[p][old]]
  BY <1>1, <1>2, RegistTypes DEF CInv, FInv
<1>4. Maps' = Maps /\ mode' = mode
  BY DEF Maps, Behind, Dup, areas
<1> QED
  BY <1>1, <1>3, <1>4, MapsIs, MapsIsNext DEF FT!Dup

\* close clears one descriptor.
LEMMA CloseRefines == ASSUME CInv, NEW p \in Proc, Close(p) PROVE FT!Close(p)
<1>1. Maps' = Maps /\ mode' = mode
  BY DEF Maps, Behind, Close, areas, handles
<1> QED
  BY <1>1, MapsIs, MapsIsNext DEF Close, FT!Close

\* So does close of a number below 0, with a slot.
LEMMA CloseSlotRefines == ASSUME CInv, NEW p \in Proc, CloseSlot(p) PROVE FT!Unmap(p)
<1>1. PICK s \in Slot :
          \A q \in Proc, r \in Slot : vma'[q][r] = IF q = p /\ r = s THEN 0 ELSE vma[q][r]
  BY CloseSlotDoes DEF CInv, FInv
<1>2. ofile' = ofile /\ mode' = mode /\ area' = area /\ life' = life
  BY DEF CloseSlot, handles
<1>3. \A q \in Proc, r \in Slot : Behind(q, r)' = IF q = p /\ r = s THEN 0 ELSE Behind(q, r)
  BY <1>1, <1>2 DEF Behind
<1>4. Maps' = [Maps EXCEPT ![p][s] = 0]
  BY <1>3 DEF Maps
<1> QED
  BY <1>2, <1>4, MapsIs, MapsIsNext DEF FT!Unmap

\* munmap frees the area of one slot, or cuts it short.
LEMMA UnmapRefines == ASSUME CInv, NEW p \in Proc, Munmap(p)
                      PROVE  FT!Unmap(p) \/ UNCHANGED FT!tables
<1>1. PICK s \in Mapped(p) :
          LET a == vma[p][s] IN
          /\ s \in Slot /\ a \in Area /\ \A b \in Area \ {a} : area'[b] = area[b]
          /\ \/ area'[a].f = 0 /\ vma' = [vma EXCEPT ![p][s] = 0]
             \/ area'[a].f = area[a].f /\ vma' = vma
  BY MunmapDoes DEF CInv, FInv
<1>2. ofile' = ofile /\ mode' = mode /\ life' = life /\ life[p] = "live"
  BY DEF Munmap, handles, Runs
<1>3. \A q \in Proc, r \in Slot : q # p \/ r # s => Behind(q, r)' = Behind(q, r)
  BY <1>1, <1>2, OnlyItsSlot DEF CInv, FInv
<1>4. CASE vma' = vma /\ area'[vma[p][s]].f = area[vma[p][s]].f
  <2>1. Behind(p, s)' = Behind(p, s)
    BY <1>2, <1>4 DEF Behind
  <2> QED
    BY <1>2, <1>3, <2>1, Stutters
<1>5. CASE vma' = [vma EXCEPT ![p][s] = 0]
  <2>1. Behind(p, s)' = 0
    BY <1>1, <1>5 DEF Behind, CInv, FInv, FilesType
  <2>2. Maps' = [Maps EXCEPT ![p][s] = 0]
    BY <1>3, <2>1 DEF Maps
  <2> QED
    BY <1>1, <1>2, <2>2, MapsIs, MapsIsNext DEF FT!Unmap
<1> QED
  BY <1>1, <1>4, <1>5

\* The child's descriptors were closed, so that it has its parent's only.
LEMMA ForkRefines == ASSUME CInv, NEW p \in Proc, NEW child \in Proc, Fork(p, child)
                     PROVE  child \in Proc \ {p} /\ FT!Fork(p, child)
<1>1. /\ life[p] = "live" /\ life[child] = "unused" /\ child # p /\ mode' = mode
      /\ life' = [life EXCEPT ![child] = "live"]
      /\ ofile' \in [Proc -> [Fd -> Handle \cup {0}]]
      /\ \A q \in Proc : \A d \in Fd :
            ofile'[q][d] = IF q = child /\ ofile[p][d] # 0 THEN ofile[p][d] ELSE ofile[q][d]
  BY ForkDoes DEF CInv, FInv
<1>2. ofile' = [ofile EXCEPT ![child] = ofile[p]]
  <2>1. ofile[child] = [d \in Fd |-> 0]
    BY <1>1 DEF CInv, FInv, ClosedInv
  <2>2. \A q \in Proc, d \in Fd :
            ofile'[q][d] = [ofile EXCEPT ![child] = ofile[p]][q][d]
    BY <1>1, <2>1 DEF CInv, FInv, FilesType
  <2>3. [ofile EXCEPT ![child] = ofile[p]] \in [Proc -> [Fd -> Handle \cup {0}]]
    BY DEF CInv, FInv, FilesType
  <2> QED
    BY <1>1, <2>2, <2>3
<1>3. PICK g \in [Mapped(p) -> FreeAreas] :
          /\ \A q \in Proc : \A s \in Slot :
                 vma'[q][s] = IF q # child THEN vma[q][s]
                              ELSE IF s \in Mapped(p) THEN g[s] ELSE 0
          /\ \A s \in Mapped(p) : area'[g[s]] = area[vma[p][s]]
          /\ \A a \in Area : (\A s \in Mapped(p) : g[s] # a) => area'[a] = area[a]
  BY ForkAreas DEF CInv, FInv
<1>4. \A s \in Mapped(p) : g[s] # 0 /\ area[g[s]].f = 0
  BY DEF FreeAreas, Area
<1>5. \A q \in Proc : life'[q] = IF q = child THEN "live" ELSE life[q]
  BY <1>1 DEF CInv, FInv, FilesType
<1>6. ASSUME NEW q \in Proc \ {child}, NEW r \in Slot PROVE Behind(q, r)' = Behind(q, r)
  <2>1. CASE life[q] = "live" /\ vma[q][r] # 0
    <3>1. vma[q][r] \in Area /\ area[vma[q][r]].f # 0
      BY <2>1 DEF AllApart, CInv, FInv, FilesType, Apart
    <3>2. \A s \in Mapped(p) : g[s] # vma[q][r]
      BY <3>1, <1>4
    <3> QED
      BY <3>1, <3>2, <1>3, <1>5, <1>6 DEF Behind
  <2>2. CASE ~(life[q] = "live" /\ vma[q][r] # 0)
    BY <2>2, <1>3, <1>5, <1>6 DEF Behind
  <2> QED
    BY <2>1, <2>2
<1>7. ASSUME NEW r \in Slot PROVE Behind(child, r)' = Behind(p, r)
  <2>1. CASE r \in Mapped(p)
    <3>1. vma'[child][r] = g[r] /\ g[r] # 0 /\ area'[g[r]] = area[vma[p][r]]
      BY <2>1, <1>3, <1>4
    <3> QED
      BY <2>1, <3>1, <1>1, <1>5 DEF Behind, Mapped
  <2>2. CASE r \notin Mapped(p)
    BY <2>2, <1>3 DEF Behind, Mapped
  <2> QED
    BY <2>1, <2>2
<1>8. Maps' = [Maps EXCEPT ![child] = Maps[p]]
  BY <1>6, <1>7 DEF Maps
<1> QED
  BY <1>1, <1>2, <1>8, MapsIs, MapsIsNext DEF FT!Fork

\* The areas of others' slots are not among those that exit frees.
LEMMA ExitRefines == ASSUME CInv, NEW p \in Proc, Exit(p) PROVE FT!Exit(p)
<1>1. /\ ofile' = [ofile EXCEPT ![p] = [d \in Fd |-> 0]] /\ mode' = mode /\ vma' = vma
      /\ \A a \in Area : (\A s \in Mapped(p) : vma[p][s] # a) => area'[a] = area[a]
      /\ life' = [life EXCEPT ![p] = "zombie"] /\ life[p] = "live"
  BY ExitDoes DEF CInv, FInv, Exit, Runs, handles
<1>2. \A q \in Proc : life'[q] = IF q = p THEN "zombie" ELSE life[q]
  BY <1>1 DEF CInv, FInv, FilesType
<1>3. ASSUME NEW q \in Proc \ {p}, NEW r \in Slot PROVE Behind(q, r)' = Behind(q, r)
  <2>1. CASE life[q] = "live" /\ vma[q][r] # 0
    <3>1. vma[q][r] \in Area
      BY <2>1 DEF CInv, FInv, FilesType
    <3>2. \A s \in Mapped(p) : vma[p][s] # vma[q][r]
      BY <1>1, <1>3, <2>1 DEF AllApart, CInv, FInv, Apart, Mapped
    <3>3. area'[vma[q][r]] = area[vma[q][r]]
      BY <1>1, <3>1, <3>2
    <3> QED
      BY <3>3, <1>1, <1>2, <1>3 DEF Behind
  <2>2. CASE ~(life[q] = "live" /\ vma[q][r] # 0)
    BY <2>2, <1>1, <1>2, <1>3 DEF Behind
  <2> QED
    BY <2>1, <2>2
<1>4. \A r \in Slot : Behind(p, r)' = 0
  BY <1>2 DEF Behind
<1>5. Maps' = [Maps EXCEPT ![p] = [s \in Slot |-> 0]]
  BY <1>3, <1>4 DEF Maps
<1> QED
  BY <1>1, <1>5, MapsIs, MapsIsNext DEF FT!Exit

\* Every other step is a stutter: handles are prepared, counted and given back, and a zombie
\* is reaped, whose areas are gone already.
LEMMA OtherStutters ==
    ASSUME CInv, NEW p \in Proc,
           \/ Pick(p) \/ Dup3Fails(p) \/ PipeSecond(p) \/ PipeNoPage(p) \/ ChdirRef(p)
           \/ Chdir(p) \/ Reap(p) \/ Panic \/ UNCHANGED vars
    PROVE  UNCHANGED FT!tables
<1>1. ASSUME ofile' = ofile, mode' = mode, area' = area, vma' = vma, life' = life
      PROVE  UNCHANGED FT!tables
  BY <1>1, Stutters DEF Behind
<1>2. CASE Pick(p) \/ Dup3Fails(p) \/ PipeSecond(p) \/ ChdirRef(p) \/ Panic \/ UNCHANGED vars
  BY <1>1, <1>2 DEF Pick, Dup3Fails, PipeSecond, ChdirRef, Panic, vars, handles, areas
<1>3. CASE PipeNoPage(p)
  <2>1. mode[f0[p]] = FD_NONE /\ mode[f1[p]] = FD_NONE
    BY <1>3 DEF PipeNoPage, Runs, CInv, FInv, PickedInv, Unused, NoneInv
  <2>2. mode' = [mode EXCEPT ![f0[p]] = FD_NONE, ![f1[p]] = FD_NONE]
    BY <1>3 DEF PipeNoPage
  <2>3. mode' = mode
    BY <2>1, <2>2 DEF CInv, FInv, FilesType
  <2> QED
    BY <1>1, <1>3, <2>3 DEF PipeNoPage, areas
<1>4. CASE Chdir(p)
  <2>1. mode[f0[p]] = FD_NONE
    BY <1>4 DEF Chdir, Runs, CInv, PickedInv
  <2>2. mode' = mode
    BY <1>4, <2>1 DEF Chdir, CInv, FInv, FilesType
  <2> QED
    BY <1>1, <1>4, <2>2 DEF Chdir, areas
<1>5. CASE Reap(p)
  <2>1. /\ life[p] # "live" /\ area' = area /\ ofile' = ofile /\ mode' = mode
        /\ \A q \in Proc : life'[q] = IF q = p THEN "unused" ELSE life[q]
        /\ \A q \in Proc \ {p} : vma'[q] = vma[q]
    BY <1>5 DEF Reap, CInv, FInv, FilesType, handles
  <2>2. \A q \in Proc, s \in Slot : Behind(q, s)' = Behind(q, s)
    BY <2>1 DEF Behind
  <2> QED
    BY <2>1, <2>2, Stutters
<1> QED
  BY <1>2, <1>3, <1>4, <1>5

\* Only a close that strays loses anything.
LEMMA LostOnly ==
    ASSUME NEW p \in Proc,
           \/ Pick(p) \/ Open(p) \/ Close(p) \/ CloseSlot(p) \/ Dup(p) \/ Dup3Fails(p)
           \/ PipeSecond(p) \/ Pipe(p) \/ PipeNoPage(p) \/ ChdirRef(p) \/ Chdir(p)
           \/ Mmap(p) \/ Munmap(p) \/ Exit(p) \/ Reap(p) \/ (Panic /\ halt = "no")
           \/ (\E child \in Proc : Fork(p, child)) \/ UNCHANGED vars
    PROVE  UNCHANGED (halt = "stray")
  BY DEF Pick, Open, Close, CloseSlot, Dup, Dup3Fails, PipeSecond, Pipe, PipeNoPage, ChdirRef,
         Chdir, Mmap, Munmap, Exit, Reap, Panic, Fork, vars

\* Every step is one of FileTable or a stutter.
LEMMA TableStep == ASSUME CInv, [FilesStep]_vars PROVE [FT!Next]_(FT!vars)
<1>1. ASSUME NEW p \in Proc,
             \/ FT!Open(p) \/ FT!OpenTwo(p) \/ FT!Close(p) \/ FT!Dup(p) \/ FT!Exit(p)
             \/ FT!Map(p) \/ FT!Unmap(p)
             \/ \E child \in Proc \ {p} : FT!Fork(p, child)
      PROVE  FT!Call
  BY <1>1 DEF FT!Call
<1>2. ASSUME FT!Call \/ UNCHANGED FT!tables, UNCHANGED (halt = "stray")
      PROVE  [FT!Next]_(FT!vars)
  BY <1>2 DEF FT!Next, FT!vars
<1>3. ASSUME NEW p \in Proc,
             \/ Open(p) \/ Pipe(p) \/ Dup(p) \/ Close(p) \/ CloseSlot(p) \/ Exit(p)
             \/ \E child \in Proc : Fork(p, child)
      PROVE  FT!Call
  BY <1>1, <1>3, OpenRefines, OpenTwoRefines, DupRefines, CloseRefines, CloseSlotRefines,
     ExitRefines, ForkRefines
<1>4. ASSUME NEW p \in Proc, Mmap(p) \/ Munmap(p) PROVE FT!Call \/ UNCHANGED FT!tables
  BY <1>1, <1>4, MapRefines, UnmapRefines
<1>5. ASSUME UNCHANGED vars PROVE [FT!Next]_(FT!vars)
  <2>1. ofile' = ofile /\ mode' = mode /\ area' = area /\ vma' = vma /\ life' = life
    BY <1>5 DEF vars
  <2>2. UNCHANGED FT!tables
    BY <2>1, Stutters DEF Behind
  <2>3. UNCHANGED (halt = "stray")
    BY <1>5 DEF vars
  <2> QED
    BY <1>2, <2>2, <2>3
<1>6. ASSUME NEW p \in Proc, CloseStrays(p) PROVE FT!Next
  BY <1>6 DEF CloseStrays, FT!Next, FT!Lose
<1> QED
  BY <1>2, <1>3, <1>4, <1>5, <1>6, OtherStutters, LostOnly, PanicsOnly DEF FilesStep, Next

\* Nothing is open at first.
LEMMA TableBegin == Init => FT!Init
<1> SUFFICES ASSUME Init PROVE FT!Init
  OBVIOUS
<1>1. Maps = [p \in Proc |-> [s \in Slot |-> 0]]
  BY DEF Init, Maps, Behind
<1>2. mode \in [Handle -> Mode]
  BY FilesBegin DEF FilesType
<1> QED
  BY <1>1, <1>2, MapsIs DEF Init, FT!Init

\* Files implements FileTable: with calls that are not interrupted, descriptors and areas are
\* references to open files that open makes and dup, mmap and fork share, and that keep their
\* kind while anybody refers to them, until a close clears a word elsewhere.
THEOREM FilesAreFileTable == ASSUME ~Preempt PROVE MountsSpec => ActsAsFileTable
<1>1. MountsInit => CInv /\ FT!Init
  BY FilesStart, TableBegin DEF MountsInit
<1>2. CInv /\ [MountsNext]_<<vars, mountVars>> => CInv' /\ [FT!Next]_(FT!vars)
  BY CInvNext, TableStep, FilesStepIs
<1> QED
  BY <1>1, <1>2, PTL DEF MountsSpec, ActsAsFileTable, FT!Spec
=============================================================================
