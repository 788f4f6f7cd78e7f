---------------------------- MODULE ConsoleProofs ----------------------------
(***************************************************************************)
(* Proofs about Console, for any ring, characters, readers and bounds.     *)
(*                                                                         *)
(* The refinement rests on one fact of arithmetic: indexes less than       *)
(* INPUT_BUF apart have slots of their own, so that a character stored at  *)
(* write_index leaves all that is pending alone until the ring is full.    *)
(***************************************************************************)
EXTENDS Console, SequenceTheorems, TLAPS

\* An index names a cell of the ring
LEMMA SlotInRing == ASSUME NEW i \in Nat PROVE Slot(i) \in 0..INPUT_BUF - 1
  BY ConsoleAssumption DEF Slot

\* A positive multiple of b is no less than b
LEMMA MultipleIsFar ==
    ASSUME NEW b \in Nat \ {0}, NEW k \in Int, k >= 1 PROVE b * k >= b
<1>1. b * k = b * (k - 1) + b
  OBVIOUS
<1>2. b * (k - 1) >= 0
  OBVIOUS
<1> QED
  BY <1>1, <1>2

\* Indexes less than INPUT_BUF apart have different slots
LEMMA SlotsApart ==
    ASSUME NEW i \in Nat, NEW j \in Nat, i < j, j < i + INPUT_BUF
    PROVE  Slot(i) # Slot(j)
<1> DEFINE N == INPUT_BUF
           p == i \div N
           q == j \div N
<1>1. N \in Nat \ {0}
  BY ConsoleAssumption
<1> HIDE DEF N
<1>2. p \in Int /\ q \in Int /\ i = N * p + (i % N) /\ j = N * q + (j % N)
  BY <1>1
<1> HIDE DEF p, q
<1> SUFFICES ASSUME i % N = j % N PROVE FALSE
  BY DEF Slot, N
<1>3. i % N \in Int
  BY <1>1
<1>4. N * q - N * p = j - i
  BY <1>1, <1>2, <1>3
<1>5. N * (q - p) = j - i
  BY <1>1, <1>2, <1>4
<1>6. q - p >= 1
  <2> SUFFICES ASSUME q - p <= 0 PROVE FALSE
    BY <1>2
  <2>1. N * (p - q) >= 0
    BY <1>1, <1>2
  <2>2. N * (p - q) = i - j
    BY <1>1, <1>2, <1>5
  <2> QED
    BY <2>1, <2>2
<1>7. N * (q - p) >= N
  BY <1>1, <1>2, <1>6, MultipleIsFar
<1> QED
  BY <1>1, <1>5, <1>7 DEF N

-----------------------------------------------------------------------------
(* What is pending *)

Rings == [0..INPUT_BUF - 1 -> Char]

\* Pending, of ring b between indexes r and w
Segment(b, r, w) == [m \in 1..w - r |-> b[Slot(r + m - 1)]]

\* A segment is a sequence as long as its indexes are apart
LEMMA SegmentSeq ==
    ASSUME NEW b \in Rings, NEW r \in Nat, NEW w \in Nat, r <= w
    PROVE  /\ Segment(b, r, w) \in Seq(Char) /\ Len(Segment(b, r, w)) = w - r
           /\ Segment(b, r, w) \in [1..w - r -> Char]
           /\ \A m \in 1..w - r : Segment(b, r, w)[m] = b[Slot(r + m - 1)]
<1>1. \A m \in 1..w - r : b[Slot(r + m - 1)] \in Char
  <2> TAKE m \in 1..w - r
  <2>1. r + m - 1 \in Nat
    OBVIOUS
  <2>2. Slot(r + m - 1) \in 0..INPUT_BUF - 1
    BY <2>1, SlotInRing
  <2> QED
    BY <2>2 DEF Rings
<1>2. w - r \in Nat
  OBVIOUS
<1>3. Segment(b, r, w) \in [1..w - r -> Char]
  BY <1>1 DEF Segment
<1>4. \A m \in 1..w - r : Segment(b, r, w)[m] = b[Slot(r + m - 1)]
  BY DEF Segment
<1>5. \A d \in Nat : \A f \in [1..d -> Char] : f \in Seq(Char) /\ Len(f) = d
  OBVIOUS
<1> QED
  BY <1>2, <1>3, <1>4, <1>5

\* B is ring b with c stored at index w, which goes up to v; r is behind them
Stored(b, B, r, w, v, c) ==
    /\ b \in Rings /\ B \in Rings /\ c \in Char
    /\ r \in Nat /\ w \in Nat /\ v \in Nat /\ r <= w /\ v = w + 1
    /\ B[Slot(w)] = c
    /\ \A s \in 0..INPUT_BUF - 1 : s # Slot(w) => B[s] = b[s]

\* A character stored at w goes behind what is there, which stays as it is while
\* there was room
LEMMA StoreAppends ==
    ASSUME NEW b, NEW B, NEW r, NEW w, NEW v, NEW c, Stored(b, B, r, w, v, c),
           w - r < INPUT_BUF
    PROVE  Segment(B, r, v) = Append(Segment(b, r, w), c)
<1> DEFINE S == Segment(b, r, w)
<1>0. /\ b \in Rings /\ B \in Rings /\ c \in Char
      /\ r \in Nat /\ w \in Nat /\ v \in Nat /\ r <= w /\ v = w + 1
  BY DEF Stored
<1>1. Slot(w) \in 0..INPUT_BUF - 1
  BY <1>0, SlotInRing
<1>2. B \in Rings /\ B[Slot(w)] = c
  BY DEF Stored
<1>3. \A m \in 1..w - r : B[Slot(r + m - 1)] = S[m]
  <2> TAKE m \in 1..w - r
  <2>1. r + m - 1 \in Nat /\ r + m - 1 < w /\ w < (r + m - 1) + INPUT_BUF
    BY <1>0, ConsoleAssumption
  <2>2. Slot(r + m - 1) # Slot(w) /\ Slot(r + m - 1) \in 0..INPUT_BUF - 1
    BY <1>0, <2>1, SlotsApart, SlotInRing
  <2>3. S[m] = b[Slot(r + m - 1)]
    BY <1>0 DEF Segment
  <2> QED
    BY <1>0, <2>2, <2>3 DEF Stored
<1>4. v - r = (w - r) + 1 /\ w - r \in Nat /\ r <= v
  BY <1>0
<1>5. S \in Seq(Char) /\ Len(S) = w - r
  BY <1>0, SegmentSeq
<1> HIDE DEF S
<1>6. Segment(B, r, v) \in Seq(Char) /\ Len(Segment(B, r, v)) = (w - r) + 1
      /\ \A m \in 1..(w - r) + 1 : Segment(B, r, v)[m] = B[Slot(r + m - 1)]
  <2>1. Segment(B, r, v) \in Seq(Char) /\ Len(Segment(B, r, v)) = v - r
        /\ \A m \in 1..v - r : Segment(B, r, v)[m] = B[Slot(r + m - 1)]
    BY <1>0, <1>2, <1>4, SegmentSeq
  <2> QED
    BY <1>0, <2>1, <1>4
<1>7. Append(S, c) \in Seq(Char) /\ Len(Append(S, c)) = (w - r) + 1
      /\ Append(S, c)[(w - r) + 1] = c
      /\ \A m \in 1..w - r : Append(S, c)[m] = S[m]
  BY <1>0, <1>4, <1>5
<1>8. \A m \in 1..(w - r) + 1 : Segment(B, r, v)[m] = Append(S, c)[m]
  <2> TAKE m \in 1..(w - r) + 1
  <2>1. CASE m = (w - r) + 1
    <3>1. r + m - 1 = w
      BY <1>0, <2>1
    <3> QED
      BY <3>1, <2>1, <1>2, <1>6, <1>7
  <2>2. CASE m \in 1..w - r
    BY <1>0, <2>2, <1>3, <1>6, <1>7
  <2>3. m = (w - r) + 1 \/ m \in 1..w - r
    BY <1>0, <1>4
  <2> QED
    BY <1>0, <2>1, <2>2, <2>3
<1>9. Segment(B, r, v) = Append(S, c)
  BY <1>0, <1>6, <1>7, <1>8, SeqEqual
<1> QED
  BY <1>0, <1>9 DEF S

\* It is the last that is pending, in a full ring too, and the rest is either as
\* it was or the same character
LEMMA StoreEnds ==
    ASSUME NEW b, NEW B, NEW r, NEW w, NEW v, NEW c, Stored(b, B, r, w, v, c)
    PROVE  /\ Segment(B, r, v) \in [1..(w - r) + 1 -> Char]
           /\ Segment(B, r, v)[(w - r) + 1] = c
           /\ \A m \in 1..w - r : Segment(B, r, v)[m] \in {c, Segment(b, r, w)[m]}
<1>0. /\ b \in Rings /\ B \in Rings /\ c \in Char
      /\ r \in Nat /\ w \in Nat /\ v \in Nat /\ r <= w /\ v = w + 1
  BY DEF Stored
<1>1. Slot(w) \in 0..INPUT_BUF - 1
  BY <1>0, SlotInRing
<1>2. B \in Rings /\ B[Slot(w)] = c
  BY DEF Stored
<1>3. v - r = (w - r) + 1 /\ w - r \in Nat /\ r <= v
  BY <1>0
<1>4. Segment(B, r, v) \in [1..(w - r) + 1 -> Char]
      /\ \A m \in 1..(w - r) + 1 : Segment(B, r, v)[m] = B[Slot(r + m - 1)]
  <2>1. Segment(B, r, v) \in [1..v - r -> Char]
        /\ \A m \in 1..v - r : Segment(B, r, v)[m] = B[Slot(r + m - 1)]
    BY <1>0, <1>2, <1>3, SegmentSeq
  <2> QED
    BY <1>0, <2>1, <1>3
<1>5. r + ((w - r) + 1) - 1 = w /\ (w - r) + 1 \in 1..(w - r) + 1
  BY <1>0
<1>6. Segment(B, r, v)[(w - r) + 1] = c
  BY <1>0, <1>2, <1>3, <1>4, <1>5
<1>7. \A m \in 1..w - r : Segment(B, r, v)[m] \in {c, Segment(b, r, w)[m]}
  <2> TAKE m \in 1..w - r
  <2>1. r + m - 1 \in Nat
    BY <1>0
  <2>2. Slot(r + m - 1) \in 0..INPUT_BUF - 1
    BY <1>0, <2>1, SlotInRing
  <2>3. B[Slot(r + m - 1)] \in {c, b[Slot(r + m - 1)]}
    BY <1>0, <2>2 DEF Stored
  <2>4. Segment(b, r, w)[m] = b[Slot(r + m - 1)]
    BY <1>0 DEF Segment
  <2>5. m \in 1..(w - r) + 1
    BY <1>0, <1>3
  <2> QED
    BY <1>0, <1>4, <2>3, <2>4, <2>5
<1> QED
  BY <1>0, <1>4, <1>6, <1>7

\* What is left when either end moves
LEMMA SegmentParts ==
    ASSUME NEW b \in Rings, NEW r \in Nat, NEW w \in Nat, r <= w, NEW k \in 0..w - r
    PROVE  /\ Segment(b, r + k, w) = SubSeq(Segment(b, r, w), k + 1, w - r)
           /\ Segment(b, r, r + k) = SubSeq(Segment(b, r, w), 1, k)
<1> DEFINE S == Segment(b, r, w)
<1>1. S \in Seq(Char) /\ Len(S) = w - r /\ \A m \in 1..w - r : S[m] = b[Slot(r + m - 1)]
  BY SegmentSeq
<1>2. r + k \in Nat /\ r + k <= w /\ w - (r + k) = (w - r) - k /\ w - r \in Nat
      /\ (r + k) - r = k
  OBVIOUS
<1>3. Segment(b, r + k, w) \in Seq(Char) /\ Len(Segment(b, r + k, w)) = (w - r) - k
      /\ \A m \in 1..(w - r) - k : Segment(b, r + k, w)[m] = b[Slot(r + k + m - 1)]
  BY <1>2, SegmentSeq
<1>4. Segment(b, r, r + k) \in Seq(Char) /\ Len(Segment(b, r, r + k)) = k
      /\ \A m \in 1..k : Segment(b, r, r + k)[m] = b[Slot(r + m - 1)]
  BY <1>2, SegmentSeq
<1> HIDE DEF S
<1>5. SubSeq(S, k + 1, w - r) \in Seq(Char) /\ Len(SubSeq(S, k + 1, w - r)) = (w - r) - k
      /\ \A m \in 1..(w - r) - k : SubSeq(S, k + 1, w - r)[m] = S[k + m]
  <2>1. \A m \in k + 1..w - r : S[m] \in Char
    BY <1>1, <1>2
  <2>2. /\ SubSeq(S, k + 1, w - r) \in Seq(Char)
        /\ Len(SubSeq(S, k + 1, w - r)) = IF k + 1 <= w - r THEN (w - r) - (k + 1) + 1 ELSE 0
        /\ \A m \in 1..(w - r) - (k + 1) + 1 : SubSeq(S, k + 1, w - r)[m] = S[k + 1 + m - 1]
    BY <1>2, <2>1, SubSeqProperties
  <2> QED
    BY <1>2, <2>2
<1>6. SubSeq(S, 1, k) \in Seq(Char) /\ Len(SubSeq(S, 1, k)) = k
      /\ \A m \in 1..k : SubSeq(S, 1, k)[m] = S[m]
  <2>1. \A m \in 1..k : S[m] \in Char
    BY <1>1, <1>2
  <2>2. /\ SubSeq(S, 1, k) \in Seq(Char)
        /\ Len(SubSeq(S, 1, k)) = IF 1 <= k THEN k - 1 + 1 ELSE 0
        /\ \A m \in 1..k - 1 + 1 : SubSeq(S, 1, k)[m] = S[1 + m - 1]
    BY <2>1, SubSeqProperties
  <2> QED
    BY <2>2
<1>7. \A m \in 1..(w - r) - k : Segment(b, r + k, w)[m] = SubSeq(S, k + 1, w - r)[m]
  <2> TAKE m \in 1..(w - r) - k
  <2>1. k + m \in 1..w - r /\ r + k + m - 1 = r + (k + m) - 1
    BY <1>2
  <2> QED
    BY <2>1, <1>1, <1>3, <1>5
<1>8. \A m \in 1..k : Segment(b, r, r + k)[m] = SubSeq(S, 1, k)[m]
  <2> TAKE m \in 1..k
  <2>1. m \in 1..w - r
    BY <1>2
  <2> QED
    BY <2>1, <1>1, <1>4, <1>6
<1>9. Segment(b, r + k, w) = SubSeq(S, k + 1, w - r)
  BY <1>3, <1>5, <1>7, SeqEqual
<1>10. Segment(b, r, r + k) = SubSeq(S, 1, k)
  BY <1>4, <1>6, <1>8, SeqEqual
<1> QED
  BY <1>9, <1>10 DEF S

-----------------------------------------------------------------------------
(* What the steps do with it *)

\* What TypeOK says of Pending
LEMMA PendingFacts ==
    ASSUME TypeOK
    PROVE  /\ buf \in Rings /\ read_index \in Nat /\ write_index \in Nat
           /\ read_index <= write_index
           /\ Pending = Segment(buf, read_index, write_index)
           /\ Pending \in Seq(Char) /\ Len(Pending) = write_index - read_index
           /\ Len(Pending) \in Nat /\ DOMAIN Pending = 1..Len(Pending)
<1>1. /\ buf \in Rings /\ read_index \in Nat /\ write_index \in Nat
      /\ read_index <= write_index
  BY ConsoleAssumption DEF TypeOK, Rings
<1>2. Pending = Segment(buf, read_index, write_index)
  BY DEF Pending, Segment
<1>3. Pending \in Seq(Char) /\ Len(Pending) = write_index - read_index
  BY <1>1, <1>2, SegmentSeq
<1> QED
  BY <1>1, <1>2, <1>3

\* Pending' as a segment
PendingNext == Pending' = Segment(buf', read_index', write_index')

\* Pending' is the segment of the next ring and indexes
LEMMA PendingNextFact == PendingNext
  BY DEF PendingNext, Pending, Segment, Slot

\* consoleintr stores c: it is appended, or the ring was full
LEMMA TypeStep ==
    ASSUME TypeOK, NEW c \in Char, Type(c)
    PROVE  /\ Len(Pending) < INPUT_BUF => Pending' = Append(Pending, c)
           /\ Pending' \in [1..Len(Pending) + 1 -> Char]
           /\ Pending'[Len(Pending) + 1] = c
           /\ \A m \in DOMAIN Pending : Pending'[m] \in {c, Pending[m]}
<1> DEFINE B == buf'
           v == write_index'
           P == Pending'
<1>1. B = [buf EXCEPT ![Slot(write_index)] = c] /\ v = write_index + 1
      /\ P = Segment(B, read_index, v)
  BY PendingNextFact DEF Type, Stores, PendingNext
<1>2. Stored(buf, B, read_index, write_index, v, c)
  <2>1. /\ buf \in Rings /\ read_index \in Nat /\ write_index \in Nat
        /\ read_index <= write_index /\ Slot(write_index) \in 0..INPUT_BUF - 1
    BY PendingFacts, SlotInRing
  <2>2. B \in Rings /\ B[Slot(write_index)] = c
        /\ \A s \in 0..INPUT_BUF - 1 : s # Slot(write_index) => B[s] = buf[s]
    BY <1>1, <2>1 DEF Rings
  <2> QED
    BY <1>1, <2>1, <2>2 DEF Stored
<1> HIDE DEF B, v, P
<1> DEFINE S == Segment(buf, read_index, write_index)
           d == write_index - read_index
<1>4. S = Pending /\ d = Len(Pending) /\ DOMAIN Pending = 1..Len(Pending)
  BY PendingFacts
<1>5. d < INPUT_BUF => Segment(B, read_index, v) = Append(S, c)
  BY <1>2, StoreAppends
<1>6. /\ Segment(B, read_index, v) \in [1..d + 1 -> Char]
      /\ Segment(B, read_index, v)[d + 1] = c
      /\ \A m \in 1..d : Segment(B, read_index, v)[m] \in {c, S[m]}
  BY <1>2, StoreEnds
<1> HIDE DEF S, d
<1> QED
  BY <1>1, <1>4, <1>5, <1>6 DEF P

\* consoleintr takes back the last character
LEMMA BackspaceStep ==
    ASSUME TypeOK, Backspace
    PROVE  /\ Pending # <<>> /\ Len(Pending) - 1 \in Nat
           /\ Pending' = SubSeq(Pending, 1, Len(Pending) - 1)
<1>1. Len(Pending) >= 1
  BY PendingFacts DEF Backspace
<1> DEFINE k == Len(Pending) - 1
<1>2. k \in 0..write_index - read_index /\ write_index - 1 = read_index + k
  BY <1>1, PendingFacts
<1>3. Pending' = Segment(buf, read_index, read_index + k)
  BY <1>2, PendingNextFact DEF Backspace, PendingNext
<1> HIDE DEF k
<1>4. Segment(buf, read_index, read_index + k) = SubSeq(Pending, 1, k)
  <2>1. /\ buf \in Rings /\ read_index \in Nat /\ write_index \in Nat
        /\ read_index <= write_index
    BY PendingFacts
  <2>2. Segment(buf, read_index, read_index + k) =
            SubSeq(Segment(buf, read_index, write_index), 1, k)
    BY <1>2, <2>1, SegmentParts
  <2> QED
    BY <2>2, PendingFacts
<1> QED
  BY <1>1, <1>3, <1>4, PendingFacts DEF k

\* consoleread's loop takes the first k characters and delivers them
LEMMA TakesStep ==
    ASSUME TypeOK, NEW k \in Nat, NEW lost \in 0..1, lost <= k, Takes(k, lost)
    PROVE  /\ k \in 0..Len(Pending)
           /\ Pending' = SubSeq(Pending, k + 1, Len(Pending))
           /\ \A m \in DOMAIN Pending' :
                \E j \in DOMAIN Pending : Pending'[m] = Pending[j]
           /\ k = Len(Pending) => DOMAIN Pending' = {}
           /\ got' \in Seq(Char) /\ Len(got') = k - lost
           /\ read_index' \in 0..write_index /\ UNCHANGED <<buf, write_index>>
<1>1. k \in 0..Len(Pending)
  BY PendingFacts DEF Takes
<1> DEFINE P == Pending'
<1>2. P = Segment(buf, read_index + k, write_index)
  BY PendingNextFact DEF Takes, PendingNext
<1>3. k \in 0..write_index - read_index
  BY <1>1, PendingFacts
<1> HIDE DEF P
<1>4. P = SubSeq(Pending, k + 1, Len(Pending))
  <2>1. /\ buf \in Rings /\ read_index \in Nat /\ write_index \in Nat
        /\ read_index <= write_index
    BY PendingFacts
  <2>2. Segment(buf, read_index + k, write_index) =
            SubSeq(Segment(buf, read_index, write_index), k + 1, write_index - read_index)
    BY <1>3, <2>1, SegmentParts
  <2> QED
    BY <1>2, <2>2, PendingFacts
<1>5. \A i \in k + 1..Len(Pending) : Pending[i] \in Char
  BY <1>1, PendingFacts
<1>6. P \in Seq(Char) /\ Len(P) = Len(Pending) - k
      /\ \A m \in 1..Len(Pending) - k : P[m] = Pending[k + m]
  <2>1. /\ P \in Seq(Char)
        /\ Len(P) = IF k + 1 <= Len(Pending) THEN Len(Pending) - (k + 1) + 1 ELSE 0
        /\ \A m \in 1..Len(Pending) - (k + 1) + 1 : P[m] = Pending[k + 1 + m - 1]
    BY <1>1, <1>4, <1>5, PendingFacts, SubSeqProperties
  <2> QED
    BY <1>1, <2>1, PendingFacts
<1>7. \A m \in DOMAIN P : \E j \in DOMAIN Pending : P[m] = Pending[j]
  <2> TAKE m \in DOMAIN P
  <2>1. m \in 1..Len(Pending) - k
    BY <1>6
  <2>2. k + m \in DOMAIN Pending
    BY <1>1, <2>1, PendingFacts
  <2> QED
    BY <1>6, <2>1, <2>2
<1>8. k = Len(Pending) => DOMAIN P = {}
  BY <1>1, <1>6, PendingFacts
<1>9. got' \in Seq(Char) /\ Len(got') = k - lost
  <2>1. got' = SubSeq(Pending, 1, k - lost) /\ k - lost \in 0..Len(Pending)
    BY <1>1 DEF Takes
  <2>2. \A i \in 1..k - lost : Pending[i] \in Char
    BY <2>1, PendingFacts
  <2>3. got' \in Seq(Char) /\ Len(got') = IF 1 <= k - lost THEN (k - lost) - 1 + 1 ELSE 0
    BY <2>1, <2>2, SubSeqProperties
  <2> QED
    BY <2>1, <2>3
<1>10. read_index' \in 0..write_index /\ UNCHANGED <<buf, write_index>>
  BY <1>3, PendingFacts DEF Takes
<1> QED
  BY <1>1, <1>4, <1>7, <1>8, <1>9, <1>10 DEF P

-----------------------------------------------------------------------------
(* Invariants *)

\* What consoleread's two outcomes do apart from the caller's own entries
LEMMA ReadSleepsStep ==
    ASSUME TypeOK, NEW r \in Readers, ReadSleeps(r)
    PROVE  /\ Takes(Len(Pending), 0) /\ Len(Pending) <= MaxN
           /\ \E m \in 0..MaxN : n' = [n EXCEPT ![r] = m]
           /\ at' = [at EXCEPT ![r] = "asleep"]
<1>1. PICK size \in 1..MaxN :
        /\ Len(Pending) < size /\ Takes(Len(Pending), 0)
        /\ n' = [n EXCEPT ![r] = size - Len(Pending)]
  BY DEF ReadSleeps
<1>2. Len(Pending) <= MaxN /\ size - Len(Pending) \in 0..MaxN
  BY <1>1, PendingFacts, ConsoleAssumption
<1> QED
  BY <1>1, <1>2 DEF ReadSleeps

\* the same of a read that returns
LEMMA ReadTakes ==
    ASSUME TypeOK, NEW r \in Readers, Read(r)
    PROVE  /\ \E k \in 1..MaxN, lost \in 0..1 : Takes(k, lost)
           /\ n' = [n EXCEPT ![r] = 0] /\ at' = [at EXCEPT ![r] = "idle"]
<1>1. PICK size \in 1..MaxN : \E k \in 1..size :
        Takes(k, 0) \/ Takes(k, 1)
  BY DEF Read
<1>2. PICK k \in 1..size : Takes(k, 0) \/ Takes(k, 1)
  BY <1>1
<1>3. k \in 1..MaxN
  BY ConsoleAssumption
<1> QED
  BY <1>2, <1>3 DEF Read

\* consoleinit establishes both invariants
LEMMA TypeOKInit == Init => TypeOK /\ NoLineMissed
  BY ConsoleAssumption DEF Init, TypeOK, NoLineMissed

\* TypeOK is inductive: one step per action
LEMMA TypeOKNext ==
    ASSUME TypeOK, [Next]_vars
    PROVE  TypeOK'
<1>1. ASSUME NEW c \in Char, Type(c) PROVE TypeOK'
  <2>1. buf' \in [0..INPUT_BUF - 1 -> Char] /\ write_index' \in read_index..MaxIndex
    <3>1. buf' = [buf EXCEPT ![Slot(write_index)] = c] /\ write_index' = write_index + 1
          /\ write_index < MaxIndex
      BY <1>1 DEF Type, Stores
    <3>2. buf' \in [0..INPUT_BUF - 1 -> Char]
      BY <3>1 DEF TypeOK
    <3>3. write_index' \in read_index..MaxIndex
      BY <3>1, ConsoleAssumption DEF TypeOK
    <3> QED
      BY <3>2, <3>3
  <2>2. at' \in [Readers -> {"idle", "asleep", "woken"}]
    BY <1>1 DEF TypeOK, Type, Woken
  <2> QED
    BY <1>1, <2>1, <2>2 DEF TypeOK, Type
<1>2. CASE Backspace
  <2>1. write_index' \in read_index..MaxIndex
    BY <1>2, ConsoleAssumption DEF TypeOK, Backspace
  <2> QED
    BY <1>2, <2>1 DEF TypeOK, Backspace
<1>3. ASSUME NEW k \in Nat, k <= MaxN, NEW lost \in 0..1, lost <= k, Takes(k, lost)
      PROVE  /\ read_index' \in 0..MaxIndex /\ write_index' \in read_index'..MaxIndex
             /\ got' \in Seq(Char) /\ Len(got') <= MaxN
             /\ buf' \in [0..INPUT_BUF - 1 -> Char]
  <2>1. /\ got' \in Seq(Char) /\ Len(got') = k - lost
        /\ read_index' \in 0..write_index /\ UNCHANGED <<buf, write_index>>
    BY <1>3, TakesStep
  <2> QED
    BY <1>3, <2>1, ConsoleAssumption DEF TypeOK
<1>4. ASSUME NEW r \in Readers, ReadSleeps(r) PROVE TypeOK'
  <2>1. PICK m \in 0..MaxN : n' = [n EXCEPT ![r] = m]
    BY <1>4, ReadSleepsStep
  <2>2. Takes(Len(Pending), 0) /\ Len(Pending) <= MaxN /\ Len(Pending) \in Nat
    BY <1>4, ReadSleepsStep, PendingFacts
  <2>3. n' \in [Readers -> 0..MaxN]
    BY <2>1 DEF TypeOK
  <2>4. at' \in [Readers -> {"idle", "asleep", "woken"}]
    BY <1>4, ReadSleepsStep DEF TypeOK
  <2> QED
    BY <1>3, <2>2, <2>3, <2>4 DEF TypeOK
<1>5. ASSUME NEW r \in Readers, Read(r) PROVE TypeOK'
  <2>1. PICK k \in 1..MaxN, lost \in 0..1 : Takes(k, lost)
    BY <1>5, ReadTakes
  <2>2. n' \in [Readers -> 0..MaxN] /\ at' \in [Readers -> {"idle", "asleep", "woken"}]
    BY <1>5, ReadTakes, ConsoleAssumption DEF TypeOK
  <2>3. k \in Nat /\ k <= MaxN /\ lost <= k
    BY ConsoleAssumption
  <2> QED
    BY <1>3, <2>1, <2>2, <2>3 DEF TypeOK
<1>6. CASE UNCHANGED vars
  BY <1>6 DEF TypeOK, vars
<1> QED
  BY <1>1, <1>2, <1>4, <1>5, <1>6 DEF Next, ReadStep

\* NoLineMissed is inductive relative to TypeOK
LEMMA NoLineMissedNext ==
    ASSUME TypeOK, NoLineMissed, [Next]_vars
    PROVE  NoLineMissed'
<1>1. ASSUME NEW c \in Char, Type(c) PROVE NoLineMissed'
  <2>1. CASE c = newline
    <3>1. \A r \in Readers : at'[r] # "asleep"
      BY <1>1, <2>1 DEF Type, Woken
    <3> QED
      BY <3>1 DEF NoLineMissed
  <2>2. CASE c # newline
    <3>1. SUFFICES ASSUME NEW r \in Readers, at'[r] = "asleep", NEW m \in DOMAIN Pending'
                   PROVE  Pending'[m] # newline
      BY DEF NoLineMissed
    <3>2. /\ DOMAIN Pending' = 1..Len(Pending) + 1
          /\ Pending'[Len(Pending) + 1] = c
          /\ \A j \in DOMAIN Pending : Pending'[j] \in {c, Pending[j]}
      BY <1>1, TypeStep
    <3>3. m = Len(Pending) + 1 \/ m \in DOMAIN Pending
      BY <3>2, PendingFacts
    <3>4. \A j \in DOMAIN Pending : Pending[j] # newline
      BY <1>1, <2>2, <3>1 DEF Type, NoLineMissed
    <3> QED
      BY <2>2, <3>2, <3>3, <3>4
  <2> QED
    BY <2>1, <2>2
<1>2. CASE Backspace
  <2>1. Pending' = SubSeq(Pending, 1, Len(Pending) - 1) /\ Len(Pending) - 1 \in Nat
    BY <1>2, BackspaceStep
  <2>2. \A i \in 1..Len(Pending) - 1 : Pending[i] \in Char /\ i \in DOMAIN Pending
    BY <2>1, PendingFacts
  <2> DEFINE P == Pending'
             l == Len(Pending) - 1
  <2>3. P \in Seq(Char) /\ Len(P) = (IF 1 <= l THEN l - 1 + 1 ELSE 0)
        /\ \A i \in 1..l - 1 + 1 : P[i] = Pending[1 + i - 1]
    BY <2>1, <2>2, SubSeqProperties
  <2>4. \A i \in DOMAIN P : i \in DOMAIN Pending /\ P[i] = Pending[i]
    BY <2>1, <2>2, <2>3
  <2> QED
    BY <1>2, <2>4 DEF NoLineMissed, Backspace
<1>3. ASSUME NEW r \in Readers, ReadSleeps(r) PROVE NoLineMissed'
  <2>1. Takes(Len(Pending), 0) /\ Len(Pending) \in Nat
    BY <1>3, ReadSleepsStep, PendingFacts
  <2>2. DOMAIN Pending' = {}
    BY <2>1, TakesStep
  <2> QED
    BY <2>2 DEF NoLineMissed
<1>4. ASSUME NEW r \in Readers, Read(r) PROVE NoLineMissed'
  <2>1. PICK k \in 1..MaxN, lost \in 0..1 : Takes(k, lost)
    BY <1>4, ReadTakes
  <2>2. k \in Nat /\ lost <= k
    BY ConsoleAssumption
  <2>3. \A m \in DOMAIN Pending' : \E j \in DOMAIN Pending : Pending'[m] = Pending[j]
    BY <2>1, <2>2, TakesStep
  <2>4. \A q \in Readers : at'[q] = "asleep" => at[q] = "asleep"
    BY <1>4, ReadTakes DEF TypeOK
  <2> QED
    BY <2>3, <2>4 DEF NoLineMissed
<1>5. CASE UNCHANGED vars
  BY <1>5 DEF NoLineMissed, vars, Pending, Slot
<1> QED
  BY <1>1, <1>2, <1>3, <1>4, <1>5 DEF Next, ReadStep

\* consoleintr and consoleread keep the indexes in order and the ring, the calls and
\* what they deliver in their ranges, for a ring of any size.
THEOREM TypeCorrect == Spec => []TypeOK
<1>1. Init => TypeOK
  BY TypeOKInit
<1>2. TypeOK /\ [Next]_vars => TypeOK'
  BY TypeOKNext
<1> QED
  BY <1>1, <1>2, PTL DEF Spec

\* Although only a newline wakes, and what waits may be erased, typed over or taken
\* by another, no reader sleeps in consoleread while a whole line is there.
THEOREM NoLineIsMissed == Spec => []NoLineMissed
<1>1. Init => TypeOK /\ NoLineMissed
  BY TypeOKInit
<1>2. (TypeOK /\ NoLineMissed) /\ [Next]_vars => (TypeOK /\ NoLineMissed)'
  BY TypeOKNext, NoLineMissedNext
<1> QED
  BY <1>1, <1>2, PTL DEF Spec

-----------------------------------------------------------------------------
(* Refinement *)

\* The ring is a line editor, whatever its size and however often the indexes go
\* round it: a step of the handler or of a reader is a step of the editor, and
\* past the ring's end it spoils no more than what waits.
THEOREM ConsoleIsLineEditor == Spec => ActsAsLineEditor
<1>1. Init => Editor!Init
  <2> SUFFICES ASSUME Init PROVE Pending = <<>> /\ got = <<>>
    BY DEF Editor!Init
  <2>1. TypeOK /\ Len(Pending) = 0
    BY TypeOKInit, PendingFacts DEF Init
  <2> QED
    BY <2>1, PendingFacts DEF Init
<1>2. ASSUME TypeOK, [Next]_vars PROVE [Editor!Next]_(Editor!vars)
  <2>1. ASSUME NEW c \in Char, Type(c) PROVE Editor!Next
    <3>1. UNCHANGED got
      BY <2>1 DEF Type
    <3>2. CASE Len(Pending) < INPUT_BUF
      BY <1>2, <2>1, <3>1, <3>2, TypeStep DEF Editor!Next, Editor!Type
    <3>3. CASE Len(Pending) >= INPUT_BUF
      BY <1>2, <2>1, <3>1, <3>3, TypeStep DEF Editor!Next, Editor!TypeTooFar
    <3> QED
      BY <1>2, <3>2, <3>3, PendingFacts, ConsoleAssumption
  <2>2. CASE Backspace
    <3>1. UNCHANGED got
      BY <2>2 DEF Backspace
    <3> QED
      BY <1>2, <2>2, <3>1, BackspaceStep DEF Editor!Next, Editor!Erase
  <2>3. ASSUME NEW k \in Nat, NEW lost \in 0..1, lost <= k, Takes(k, lost)
        PROVE  Editor!Next
    <3>1. k \in 0..Len(Pending) /\ Pending' = SubSeq(Pending, k + 1, Len(Pending))
      BY <1>2, <2>3, TakesStep
    <3>2. Editor!Deliver(k, lost)
      BY <2>3, <3>1 DEF Takes, Editor!Deliver
    <3> QED
      BY <3>1, <3>2 DEF Editor!Next
  <2>4. ASSUME NEW r \in Readers, ReadSleeps(r) PROVE Editor!Next
    <3>1. Takes(Len(Pending), 0) /\ Len(Pending) \in Nat
      BY <1>2, <2>4, ReadSleepsStep, PendingFacts
    <3> QED
      BY <2>3, <3>1
  <2>5. ASSUME NEW r \in Readers, Read(r) PROVE Editor!Next
    <3>1. PICK k \in 1..MaxN, lost \in 0..1 : Takes(k, lost)
      BY <1>2, <2>5, ReadTakes
    <3>2. k \in Nat /\ lost <= k
      BY ConsoleAssumption
    <3> QED
      BY <2>3, <3>1, <3>2
  <2>6. CASE UNCHANGED vars
    BY <2>6 DEF vars, Editor!vars, Pending, Slot
  <2> QED
    BY <1>2, <2>1, <2>2, <2>4, <2>5, <2>6 DEF Next, ReadStep
<1>3. Spec => []TypeOK
  BY TypeCorrect
<1> QED
  BY <1>1, <1>2, <1>3, PTL DEF Spec, ActsAsLineEditor, Editor!Spec
=============================================================================
