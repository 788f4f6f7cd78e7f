------------------------------ MODULE PipeProofs ------------------------------
(***************************************************************************)
(* Proofs about Pipe for any processes, bytes, ring, width of the counters *)
(* and requests: the pipe is a ByteChannel, nobody sleeps in it without a  *)
(* reason, and nobody is in it when it is deleted.                         *)
(*                                                                         *)
(* The counters wrap, so the refinement rests on PIPESIZE dividing Wrap:   *)
(* a counter's slot is then the same before and after the wrap, slots less *)
(* than PIPESIZE apart differ, and Avail and Room are differences although *)
(* the counters they are made of may have passed each other.               *)
(***************************************************************************)
EXTENDS Pipe, SequenceTheorems, TLAPS

\* Who has an end open keeps it open, and is the only one to be in a call
EndsInv ==
    /\ \A r \in Readers : r \in handles => readable
    /\ \A w \in Writers : w \in handles => writeable
    /\ \A p \in Users : at[p] # "idle" => p \in handles

\* A write that sleeps has bytes left
CallInv ==
    \A w \in Writers : IF at[w] = "idle" THEN i[w] = 0 ELSE i[w] < n[w]

IInv == TypeOK /\ EndsInv /\ CallInv /\ AsleepForAReason /\ NoUseAfterDelete

-----------------------------------------------------------------------------
(* Counters that wrap *)

\* A positive multiple of b is no less than b
LEMMA FarMultiple ==
    ASSUME NEW b \in Nat \ {0}, NEW k \in Int, k >= 1 PROVE b * k >= b
<1>1. b * k = b * (k - 1) + b /\ b * (k - 1) >= 0
  OBVIOUS
<1> QED
  BY <1>1

\* Division with remainder has one result
LEMMA OneRemainder ==
    ASSUME NEW b \in Nat \ {0}, NEW q \in Int, NEW p \in Int,
           NEW r \in 0..b - 1, NEW s \in 0..b - 1, b * q + r = b * p + s
    PROVE  q = p /\ r = s
<1>1. b * (q - p) = s - r /\ b * (p - q) = r - s
  OBVIOUS
<1>2. ~(q - p >= 1)
  BY <1>1, FarMultiple
<1>3. ~(p - q >= 1)
  BY <1>1, FarMultiple
<1>4. q = p
  BY <1>2, <1>3
<1> QED
  BY <1>4

\* x % b is x, brought into the range of b
LEMMA ModIs ==
    ASSUME NEW b \in Nat \ {0}, NEW x \in Int, NEW q \in Int, NEW r \in 0..b - 1,
           x = b * q + r
    PROVE  x % b = r
<1>1. x % b \in 0..b - 1 /\ x \div b \in Int /\ x = b * (x \div b) + (x % b)
  OBVIOUS
<1> DEFINE d == x \div b
           s == x % b
<1>2. s \in 0..b - 1 /\ d \in Int /\ b * q + r = b * d + s
  BY <1>1
<1> HIDE DEF d, s
<1>3. r = s
  BY <1>2, OneRemainder
<1> QED
  BY <1>3 DEF s

\* One turn either way is all it takes for what the code computes
LEMMA ModNear ==
    ASSUME NEW b \in Nat \ {0}, NEW x \in Int, -b <= x, x < b + b
    PROVE  x % b = IF x < 0 THEN x + b ELSE IF x < b THEN x ELSE x - b
<1>1. CASE x < 0
  <2>1. x = b * (-1) + (x + b) /\ x + b \in 0..b - 1
    BY <1>1
  <2> QED
    BY <1>1, <2>1, ModIs
<1>2. CASE x >= 0 /\ x < b
  <2>1. x = b * 0 + x /\ x \in 0..b - 1
    BY <1>2
  <2> QED
    BY <1>2, <2>1, ModIs
<1>3. CASE x >= b
  <2>1. x = b * 1 + (x - b) /\ x - b \in 0..b - 1
    BY <1>3
  <2> QED
    BY <1>3, <2>1, ModIs
<1> QED
  BY <1>1, <1>2, <1>3

\* Wrapping a counter leaves its slot alone, because PIPESIZE divides Wrap
LEMMA WrapKeepsSlot ==
    ASSUME NEW x \in Nat
    PROVE  /\ (x % Wrap) % PIPESIZE = x % PIPESIZE
           /\ x % Wrap \in 0..Wrap - 1 /\ x % PIPESIZE \in 0..PIPESIZE - 1
<1> DEFINE P == PIPESIZE
           W == Wrap
           t == W \div P
           d == x \div W
           y == x % W
           e == x \div P
           r == x % P
<1>1. P \in Nat \ {0} /\ W \in Nat \ {0} /\ W % P = 0
  BY PipeAssumption
<1>2. t \in Int /\ W = P * t
  BY <1>1
<1>3. d \in Int /\ y \in 0..W - 1 /\ x = W * d + y
  BY <1>1
<1>4. e \in Int /\ r \in 0..P - 1 /\ x = P * e + r
  BY <1>1
<1> HIDE DEF P, W, t, d, y, e, r
<1>5. W * d = P * (t * d) /\ t * d \in Int
  BY <1>1, <1>2, <1>3
<1> DEFINE u == t * d
<1>6. u \in Int /\ W * d = P * u
  BY <1>5
<1> HIDE DEF u
<1>7. y = P * (e - u) + r
  BY <1>1, <1>3, <1>4, <1>6
<1>8. y \in Int /\ e - u \in Int
  BY <1>1, <1>3, <1>4, <1>6
<1>9. y % P = r
  BY <1>1, <1>4, <1>7, <1>8, ModIs
<1> QED
  BY <1>3, <1>4, <1>9 DEF P, W, y, r

\* The slot of a counter, wrapped or not
LEMMA SlotIs ==
    ASSUME NEW c \in Nat, NEW k \in Nat
    PROVE  /\ Slot(c, k) = (c + k) % PIPESIZE /\ Slot(c, k) \in 0..PIPESIZE - 1
           /\ \A j \in Nat : Slot((c + k) % Wrap, j) = Slot(c, k + j)
<1>1. \A a, b \in Nat : Slot(a, b) = (a + b) % PIPESIZE /\ Slot(a, b) \in 0..PIPESIZE - 1
  BY WrapKeepsSlot DEF Slot
<1>2. ASSUME NEW j \in Nat PROVE Slot((c + k) % Wrap, j) = Slot(c, k + j)
  <2> DEFINE P == PIPESIZE
             x == c + k
             y == x % Wrap
  <2>0. P \in Nat \ {0} /\ x \in Nat
    BY PipeAssumption
  <2> HIDE DEF x
  <2>1. y \in Nat /\ y % P = x % P
    BY <2>0, WrapKeepsSlot
  <2> HIDE DEF y
  <2>2. Slot(y, j) = (y + j) % P /\ Slot(c, k + j) = (x + j) % P
    <3>1. k + j \in Nat /\ c + (k + j) = x + j
      BY DEF x
    <3> QED
      BY <1>1, <2>1, <3>1
  <2> HIDE DEF P
  <2>3. (y + j) % P = (x + j) % P
    <3> DEFINE q == y \div P
               p == x \div P
               r == x % P
               d == (x + j) \div P
               s == (x + j) % P
    <3>1. /\ q \in Int /\ p \in Int /\ r \in 0..P - 1 /\ y = P * q + r /\ x = P * p + r
          /\ d \in Int /\ s \in 0..P - 1 /\ x + j = P * d + s
      BY <2>0, <2>1
    <3> HIDE DEF q, p, r, d, s
    <3>2. y + j = P * (q - p + d) + s
      <4>1. P * (q - p + d) = P * q - P * p + P * d
        BY <2>0, <3>1
      <4> QED
        BY <2>0, <3>1, <4>1
    <3>3. y + j \in Int /\ q - p + d \in Int
      BY <2>0, <2>1, <3>1
    <3>4. (y + j) % P = s
      BY <2>0, <3>1, <3>2, <3>3, ModIs
    <3> QED
      BY <3>4 DEF s
  <2> QED
    BY <2>2, <2>3 DEF P, x, y
<1> QED
  BY <1>1, <1>2

\* Slots less than PIPESIZE apart differ
LEMMA SlotsDiffer ==
    ASSUME NEW c \in Nat, NEW j \in Nat, NEW k \in Nat, j < k, k < j + PIPESIZE
    PROVE  Slot(c, j) # Slot(c, k)
<1> DEFINE P == PIPESIZE
           x == c + j
           y == c + k
           q == x \div P
           p == y \div P
           r == x % P
<1>1. P \in Nat \ {0} /\ x \in Nat /\ y \in Nat /\ y - x = k - j
  BY PipeAssumption
<1>2. Slot(c, j) = x % P /\ Slot(c, k) = y % P
  BY SlotIs
<1> HIDE DEF P, x, y
<1> SUFFICES ASSUME y % P = r PROVE FALSE
  BY <1>2
<1>3. q \in Int /\ p \in Int /\ r \in 0..P - 1 /\ x = P * q + r /\ y = P * p + r
  BY <1>1
<1> HIDE DEF q, p, r
<1>4. P * (p - q) = k - j /\ P * (q - p) = j - k
  <2>1. P * (p - q) = P * p - P * q /\ P * (q - p) = P * q - P * p
    BY <1>1, <1>3
  <2> QED
    BY <1>1, <1>3, <2>1
<1>5. ~(p - q >= 1)
  <2> SUFFICES ASSUME p - q >= 1 PROVE FALSE
    OBVIOUS
  <2>1. P * (p - q) >= P
    BY <1>1, <1>3, FarMultiple
  <2> QED
    BY <1>1, <1>4, <2>1 DEF P
<1>6. ~(q - p >= 0)
  <2> SUFFICES ASSUME q - p >= 0 PROVE FALSE
    OBVIOUS
  <2>1. P * (q - p) >= 0
    BY <1>1, <1>3
  <2> QED
    BY <1>4, <2>1
<1> QED
  BY <1>3, <1>5, <1>6

\* Avail and Room of counters that may have wrapped
LEMMA Distances ==
    ASSUME NEW r \in 0..Wrap - 1, NEW w \in 0..Wrap - 1, NEW len \in 0..PIPESIZE,
           len = (w - r) % Wrap
    PROVE  /\ (r + PIPESIZE - w) % Wrap = PIPESIZE - len
           /\ w = (r + len) % Wrap
           /\ len = 0 => r = w
           /\ \A k \in 0..len : (w - ((r + k) % Wrap)) % Wrap = len - k
           /\ \A k \in 0..PIPESIZE - len : (((w + k) % Wrap) - r) % Wrap = len + k
<1> DEFINE P == PIPESIZE
           W == Wrap
           Near(x) == IF x < 0 THEN x + W ELSE IF x < W THEN x ELSE x - W
<1>1. P \in Nat \ {0} /\ W \in Nat \ {0} /\ P < W
  BY PipeAssumption
<1> HIDE DEF P, W
<1>2. r \in 0..W - 1 /\ w \in 0..W - 1 /\ len \in 0..P /\ len = (w - r) % W
  BY DEF P, W
<1> HIDE DEF Near
<1>3. \A x \in Int : -W <= x /\ x < W + W => x % W = Near(x)
  BY <1>1, ModNear DEF Near
<1>4. len = IF w - r < 0 THEN w - r + W ELSE w - r
  <2>1. w - r \in Int /\ -W <= w - r /\ w - r < W + W
    BY <1>1, <1>2
  <2>2. len = Near(w - r)
    BY <1>2, <1>3, <2>1
  <2> QED
    BY <1>1, <1>2, <2>2 DEF Near
<1>5. (r + P - w) % W = P - len
  <2>1. r + P - w \in Int /\ -W <= r + P - w /\ r + P - w < W + W
    BY <1>1, <1>2
  <2>2. (r + P - w) % W = Near(r + P - w)
    BY <1>3, <2>1
  <2> QED
    BY <1>1, <1>2, <1>4, <2>2 DEF Near
<1>6. w = (r + len) % W /\ (len = 0 => r = w)
  <2>1. r + len \in Int /\ -W <= r + len /\ r + len < W + W
    BY <1>1, <1>2
  <2>2. (r + len) % W = Near(r + len)
    BY <1>3, <2>1
  <2> QED
    BY <1>1, <1>2, <1>4, <2>2 DEF Near
<1>7. ASSUME NEW k \in 0..len PROVE (w - ((r + k) % W)) % W = len - k
  <2> DEFINE x == (r + k) % W
  <2>1. r + k \in Int /\ -W <= r + k /\ r + k < W + W
    BY <1>1, <1>2
  <2>2. x = Near(r + k)
    BY <1>3, <2>1
  <2> HIDE DEF x
  <2>3. x \in 0..W - 1 /\ x = IF r + k < W THEN r + k ELSE r + k - W
    BY <1>1, <1>2, <2>2 DEF Near
  <2>4. w - x \in Int /\ -W <= w - x /\ w - x < W + W
    BY <1>1, <1>2, <2>3
  <2>5. (w - x) % W = Near(w - x)
    BY <1>3, <2>4
  <2>6. (w - x) % W = len - k
    BY <1>1, <1>2, <1>4, <2>3, <2>5 DEF Near
  <2> QED
    BY <2>6 DEF x
<1>8. ASSUME NEW k \in 0..P - len PROVE (((w + k) % W) - r) % W = len + k
  <2> DEFINE x == (w + k) % W
  <2>1. w + k \in Int /\ -W <= w + k /\ w + k < W + W
    BY <1>1, <1>2
  <2>2. x = Near(w + k)
    BY <1>3, <2>1
  <2> HIDE DEF x
  <2>3. x \in 0..W - 1 /\ x = IF w + k < W THEN w + k ELSE w + k - W
    BY <1>1, <1>2, <2>2 DEF Near
  <2>4. x - r \in Int /\ -W <= x - r /\ x - r < W + W
    BY <1>1, <1>2, <2>3
  <2>5. (x - r) % W = Near(x - r)
    BY <1>3, <2>4
  <2>6. (x - r) % W = len + k
    BY <1>1, <1>2, <1>4, <2>3, <2>5 DEF Near
  <2> QED
    BY <2>6 DEF x
<1> QED
  BY <1>5, <1>6, <1>7, <1>8 DEF P, W

-----------------------------------------------------------------------------
(* What is in the ring *)

Rings == [0..PIPESIZE - 1 -> Byte]

\* The bytes of ring b from counter r on
Content(b, r, len) == [m \in 1..len |-> b[Slot(r, m - 1)]]

\* They are a sequence
LEMMA ContentSeq ==
    ASSUME NEW b \in Rings, NEW r \in Nat, NEW len \in Nat
    PROVE  /\ Content(b, r, len) \in Seq(Byte) /\ Len(Content(b, r, len)) = len
           /\ \A m \in 1..len : Content(b, r, len)[m] = b[Slot(r, m - 1)]
                                /\ b[Slot(r, m - 1)] \in Byte
<1>1. \A m \in 1..len : b[Slot(r, m - 1)] \in Byte
  <2> TAKE m \in 1..len
  <2>1. m - 1 \in Nat
    OBVIOUS
  <2>2. Slot(r, m - 1) \in 0..PIPESIZE - 1
    BY <2>1, SlotIs
  <2> QED
    BY <2>2 DEF Rings
<1>2. Content(b, r, len) \in [1..len -> Byte]
  BY <1>1 DEF Content
<1>3. \A m \in 1..len : Content(b, r, len)[m] = b[Slot(r, m - 1)]
  BY DEF Content
<1>4. \A d \in Nat : \A f \in [1..d -> Byte] : f \in Seq(Byte) /\ Len(f) = d
  OBVIOUS
<1> QED
  BY <1>1, <1>2, <1>3, <1>4

\* The loop of piperead takes the first k of them, and hands over those it copied out
LEMMA ContentParts ==
    ASSUME NEW b \in Rings, NEW r \in Nat, NEW len \in Nat, NEW k \in 0..len
    PROVE  /\ Content(b, (r + k) % Wrap, len - k) = SubSeq(Content(b, r, len), k + 1, len)
           /\ Content(b, r, k) = SubSeq(Content(b, r, len), 1, k)
<1> DEFINE S == Content(b, r, len)
           c == (r + k) % Wrap
           T == Content(b, c, len - k)
           H == Content(b, r, k)
<1>1. S \in Seq(Byte) /\ Len(S) = len
      /\ \A m \in 1..len : S[m] = b[Slot(r, m - 1)] /\ S[m] \in Byte
  BY ContentSeq
<1>2. c \in Nat /\ \A j \in Nat : Slot(c, j) = Slot(r, k + j)
  <2>1. r + k \in Nat /\ k \in Nat
    OBVIOUS
  <2>2. \A j \in Nat : Slot((r + k) % Wrap, j) = Slot(r, k + j)
    BY <2>1, SlotIs
  <2>3. (r + k) % Wrap \in 0..Wrap - 1
    BY <2>1, WrapKeepsSlot
  <2> QED
    BY <2>2, <2>3
<1> HIDE DEF c, S
<1>3. T \in Seq(Byte) /\ Len(T) = len - k
      /\ \A m \in 1..len - k : T[m] = b[Slot(c, m - 1)]
  <2>1. len - k \in Nat
    OBVIOUS
  <2> QED
    BY <1>2, <2>1, ContentSeq
<1>4. H \in Seq(Byte) /\ Len(H) = k /\ \A m \in 1..k : H[m] = b[Slot(r, m - 1)]
  <2>1. k \in Nat
    OBVIOUS
  <2> QED
    BY <2>1, ContentSeq
<1> HIDE DEF T, H
<1>5. SubSeq(S, k + 1, len) \in Seq(Byte) /\ Len(SubSeq(S, k + 1, len)) = len - k
      /\ \A m \in 1..len - k : SubSeq(S, k + 1, len)[m] = S[k + m]
  <2>1. \A m \in k + 1..len : S[m] \in Byte
    BY <1>1
  <2>2. /\ SubSeq(S, k + 1, len) \in Seq(Byte)
        /\ Len(SubSeq(S, k + 1, len)) = IF k + 1 <= len THEN len - (k + 1) + 1 ELSE 0
        /\ \A m \in 1..len - (k + 1) + 1 : SubSeq(S, k + 1, len)[m] = S[k + 1 + m - 1]
    BY <2>1, SubSeqProperties
  <2> QED
    BY <2>2
<1>6. SubSeq(S, 1, k) \in Seq(Byte) /\ Len(SubSeq(S, 1, k)) = k
      /\ \A m \in 1..k : SubSeq(S, 1, k)[m] = S[m]
  <2>1. \A m \in 1..k : S[m] \in Byte
    BY <1>1
  <2>2. /\ SubSeq(S, 1, k) \in Seq(Byte)
        /\ Len(SubSeq(S, 1, k)) = IF 1 <= k THEN k - 1 + 1 ELSE 0
        /\ \A m \in 1..k - 1 + 1 : SubSeq(S, 1, k)[m] = S[1 + m - 1]
    BY <2>1, SubSeqProperties
  <2> QED
    BY <2>2
<1>7. \A m \in 1..len - k : T[m] = SubSeq(S, k + 1, len)[m]
  <2> TAKE m \in 1..len - k
  <2>1. m - 1 \in Nat /\ k + m \in 1..len /\ k + (m - 1) = (k + m) - 1
    OBVIOUS
  <2>2. T[m] = b[Slot(r, (k + m) - 1)]
    BY <1>2, <1>3, <2>1
  <2> QED
    BY <1>1, <1>5, <2>1, <2>2
<1>8. \A m \in 1..k : H[m] = SubSeq(S, 1, k)[m]
  <2> TAKE m \in 1..k
  <2>1. m \in 1..len
    OBVIOUS
  <2> QED
    BY <2>1, <1>1, <1>4, <1>6
<1>9. T = SubSeq(S, k + 1, len)
  BY <1>3, <1>5, <1>7, SeqEqual
<1>10. H = SubSeq(S, 1, k)
  BY <1>4, <1>6, <1>8, SeqEqual
<1> QED
  BY <1>9, <1>10 DEF T, H, S, c

\* B is ring b after pipewrite's loop, which starts at w, has stored bs
StoredIn(b, B, w, k, bs) ==
    B = [s \in DOMAIN b |->
           IF \E m \in 1..k : Slot(w, m - 1) = s
           THEN bs[CHOOSE m \in 1..k : Slot(w, m - 1) = s] ELSE b[s]]

\* ... each byte in a slot of its own, away from the len that are there
Fits(b, B, r, w, len, k, bs) ==
    /\ \A m \in 1..k : B[Slot(w, m - 1)] = bs[m]
    /\ \A m \in 1..len : B[Slot(r, m - 1)] = b[Slot(r, m - 1)]

\* That is so while there is room.
LEMMA StoreSlots ==
    ASSUME NEW b \in Rings, NEW r \in Nat, NEW w \in Nat, NEW len \in Nat,
           w = (r + len) % Wrap, NEW k \in Nat, len + k <= PIPESIZE,
           NEW bs \in [1..k -> Byte], NEW B, StoredIn(b, B, w, k, bs)
    PROVE  B \in Rings /\ Fits(b, B, r, w, len, k, bs)
<1> USE DEF StoredIn
<1>1. \A j \in Nat : Slot(w, j) = Slot(r, len + j) /\ Slot(w, j) \in 0..PIPESIZE - 1
  BY SlotIs
<1>2. ASSUME NEW m \in 1..k PROVE B[Slot(w, m - 1)] = bs[m]
  <2> DEFINE s == Slot(w, m - 1)
             t == CHOOSE x \in 1..k : Slot(w, x - 1) = s
  <2>1. m - 1 \in Nat
    OBVIOUS
  <2>2. s \in DOMAIN b
    BY <1>1, <2>1 DEF Rings
  <2>3. B[s] = bs[t]
    BY <2>2
  <2>4. t \in 1..k /\ Slot(w, t - 1) = s
    OBVIOUS
  <2> HIDE DEF t
  <2>5. t - 1 \in Nat /\ (t - 1 < m - 1 => m - 1 < t - 1 + PIPESIZE)
        /\ (m - 1 < t - 1 => t - 1 < m - 1 + PIPESIZE)
    BY <2>4, PipeAssumption
  <2>6. ~(t - 1 < m - 1) /\ ~(m - 1 < t - 1)
    BY <2>1, <2>4, <2>5, SlotsDiffer
  <2>7. t = m
    BY <2>1, <2>4, <2>5, <2>6
  <2> QED
    BY <2>3, <2>7
<1>3. ASSUME NEW m \in 1..len PROVE B[Slot(r, m - 1)] = b[Slot(r, m - 1)]
  <2>1. m - 1 \in Nat
    OBVIOUS
  <2>2. ASSUME NEW x \in 1..k PROVE Slot(w, x - 1) # Slot(r, m - 1)
    <3>1. x - 1 \in Nat /\ len + (x - 1) \in Nat /\ m - 1 < len + (x - 1)
          /\ len + (x - 1) < m - 1 + PIPESIZE
      BY PipeAssumption
    <3>2. Slot(r, m - 1) # Slot(r, len + (x - 1))
      BY <2>1, <3>1, SlotsDiffer
    <3> QED
      BY <1>1, <3>1, <3>2
  <2>3. Slot(r, m - 1) \in DOMAIN b
    BY <2>1, SlotIs DEF Rings
  <2> QED
    BY <2>2, <2>3
<1>4. B \in Rings
  <2>1. ASSUME NEW s \in 0..PIPESIZE - 1 PROVE B[s] \in Byte
    <3>1. CASE \E m \in 1..k : Slot(w, m - 1) = s
      <4>1. PICK m \in 1..k : Slot(w, m - 1) = s
        BY <3>1
      <4> QED
        BY <1>2, <4>1
    <3>2. CASE ~\E m \in 1..k : Slot(w, m - 1) = s
      BY <3>2 DEF Rings
    <3> QED
      BY <3>1, <3>2
  <2>2. DOMAIN b = 0..PIPESIZE - 1
    BY DEF Rings
  <2> QED
    BY <2>1, <2>2 DEF Rings
<1> QED
  BY <1>2, <1>3, <1>4 DEF Fits

\* Two sequences, one behind the other
LEMMA Concatenated ==
    ASSUME NEW S \in Seq(Byte), NEW T \in Seq(Byte)
    PROVE  /\ S \o T \in Seq(Byte) /\ Len(S \o T) = Len(S) + Len(T)
           /\ \A m \in 1..Len(S) : (S \o T)[m] = S[m]
           /\ \A m \in 1..Len(T) : (S \o T)[Len(S) + m] = T[m]
  OBVIOUS

\* The bytes bs have gone behind those of S
Behind(S, T, bs) == T = S \o bs

\* They go behind what is there, which stays as it is
LEMMA StoreAppends ==
    ASSUME NEW b \in Rings, NEW B \in Rings, NEW r \in Nat, NEW w \in Nat,
           NEW len \in Nat, w = (r + len) % Wrap, NEW k \in Nat,
           NEW bs \in [1..k -> Byte], Fits(b, B, r, w, len, k, bs)
    PROVE  Behind(Content(b, r, len), Content(B, r, len + k), bs)
<1> DEFINE S == Content(b, r, len)
           T == Content(B, r, len + k)
<1>1. \A j \in Nat : Slot(w, j) = Slot(r, len + j)
  BY SlotIs
<1>2. S \in Seq(Byte) /\ Len(S) = len /\ \A m \in 1..len : S[m] = b[Slot(r, m - 1)]
  BY ContentSeq
<1>3. T \in Seq(Byte) /\ Len(T) = len + k
      /\ \A m \in 1..len + k : T[m] = B[Slot(r, m - 1)]
  <2>1. len + k \in Nat
    OBVIOUS
  <2> QED
    BY <2>1, ContentSeq
<1>4. bs \in Seq(Byte) /\ Len(bs) = k
  OBVIOUS
<1> HIDE DEF S, T
<1> DEFINE Q == S \o bs
<1>5. Q \in Seq(Byte) /\ Len(Q) = len + k
      /\ (\A m \in 1..len : Q[m] = S[m]) /\ (\A m \in 1..k : Q[len + m] = bs[m])
  BY <1>2, <1>4, Concatenated
<1> HIDE DEF Q
<1>6. ASSUME NEW m \in 1..len + k PROVE T[m] = Q[m]
  <2>1. CASE m \in 1..len
    BY <2>1, <1>2, <1>3, <1>5 DEF Fits
  <2>2. CASE m \notin 1..len
    <3> DEFINE x == m - len
    <3>1. x \in 1..k /\ m = len + x /\ x - 1 \in Nat /\ m - 1 = len + (x - 1)
      BY <2>2
    <3> HIDE DEF x
    <3>2. Slot(r, m - 1) = Slot(w, x - 1)
      BY <1>1, <3>1
    <3>3. T[m] = B[Slot(w, x - 1)]
      BY <1>3, <3>2
    <3>4. T[m] = bs[x]
      BY <3>1, <3>3 DEF Fits
    <3> QED
      BY <1>5, <3>1, <3>4
  <2> QED
    BY <2>1, <2>2
<1>7. T = Q
  BY <1>3, <1>5, <1>6, SeqEqual
<1> QED
  BY <1>7 DEF S, T, Q, Behind

-----------------------------------------------------------------------------
(* What the loops do with it *)

Queue == [m \in 1..Avail |-> buf[Slot(nread, m - 1)]]

\* What TypeOK says of the ring
LEMMA RingFacts ==
    ASSUME TypeOK
    PROVE  /\ nread \in 0..Wrap - 1 /\ nwrite \in 0..Wrap - 1 /\ buf \in Rings
           /\ Avail \in 0..PIPESIZE /\ Room = PIPESIZE - Avail
           /\ nwrite = (nread + Avail) % Wrap /\ (Avail = 0 => nread = nwrite)
           /\ Queue = Content(buf, nread, Avail)
           /\ Queue \in Seq(Byte) /\ Len(Queue) = Avail
<1>1. nread \in 0..Wrap - 1 /\ nwrite \in 0..Wrap - 1 /\ buf \in Rings
  BY DEF TypeOK, Rings
<1>2. Avail \in 0..PIPESIZE
  <2>1. nwrite - nread \in Int /\ Wrap \in Nat \ {0}
    BY <1>1, PipeAssumption
  <2>2. (nwrite - nread) % Wrap \in 0..Wrap - 1
    BY <2>1
  <2> QED
    BY <2>2, PipeAssumption DEF TypeOK, Avail
<1>3. /\ (nread + PIPESIZE - nwrite) % Wrap = PIPESIZE - Avail
      /\ nwrite = (nread + Avail) % Wrap /\ (Avail = 0 => nread = nwrite)
  BY <1>1, <1>2, Distances DEF Avail
<1>4. Queue = Content(buf, nread, Avail)
  BY DEF Queue, Content
<1>5. nread \in Nat /\ Avail \in Nat
  BY <1>1, <1>2
<1> QED
  BY <1>1, <1>2, <1>3, <1>4, <1>5, ContentSeq DEF Room

\* Queue' and Avail' in the next ring and counters
QueueNext ==
    Queue' = Content(buf', nread', Avail') /\ Avail' = (nwrite' - nread') % Wrap

\* They are what their definitions say.
LEMMA QueueNextFact == QueueNext
  BY DEF QueueNext, Queue, Content, Avail, Slot

\* Nothing happens to the ring
LEMMA NothingStep == ASSUME UNCHANGED ring PROVE UNCHANGED <<Queue, Avail>>
  BY DEF ring, Queue, Avail, Slot

\* piperead's loop takes k bytes off the front
LEMMA TakenStep ==
    ASSUME TypeOK, NEW k \in 0..Avail, NEW lost \in 0..1, lost <= k,
           Taken(k, lost), UNCHANGED <<nwrite, buf>>
    PROVE  /\ nread' \in 0..Wrap - 1 /\ Avail' = Avail - k
           /\ Queue' = SubSeq(Queue, k + 1, Len(Queue))
           /\ got' = SubSeq(Queue, 1, k - lost) /\ Len(got') = k - lost
<1>1. nread' = (nread + k) % Wrap /\ got' = Content(buf, nread, k - lost)
      /\ nwrite' = nwrite /\ buf' = buf
  BY DEF Taken, Content
<1>2. /\ nread \in 0..Wrap - 1 /\ nwrite \in 0..Wrap - 1 /\ buf \in Rings
      /\ Avail \in 0..PIPESIZE /\ Queue = Content(buf, nread, Avail) /\ Len(Queue) = Avail
  BY RingFacts
<1>3. k \in Nat /\ nread + k \in Nat /\ nread \in Nat /\ Avail \in Nat /\ k - lost \in Nat
      /\ k - lost \in 0..Avail
  BY <1>2
<1>4. nread' \in 0..Wrap - 1
  BY <1>1, <1>3, WrapKeepsSlot
<1>5. Avail' = Avail - k
  <2>1. (nwrite - ((nread + k) % Wrap)) % Wrap = Avail - k
    BY <1>2, Distances DEF Avail
  <2> QED
    BY <1>1, <2>1, QueueNextFact DEF QueueNext
<1> DEFINE a == Avail
<1>6. Queue' = Content(buf, (nread + k) % Wrap, a - k)
  BY <1>1, <1>5, QueueNextFact DEF QueueNext
<1>7. a \in Nat /\ k \in 0..a /\ k - lost \in 0..a
  BY <1>3
<1> HIDE DEF a
<1>8. Content(buf, (nread + k) % Wrap, a - k) = SubSeq(Content(buf, nread, a), k + 1, a)
  BY <1>2, <1>3, <1>7, ContentParts
<1>9. Content(buf, nread, k - lost) = SubSeq(Content(buf, nread, a), 1, k - lost)
  BY <1>2, <1>3, <1>7, ContentParts
<1>10. Len(Content(buf, nread, k - lost)) = k - lost
  BY <1>2, <1>3, ContentSeq
<1> QED
  BY <1>1, <1>2, <1>4, <1>5, <1>6, <1>8, <1>9, <1>10 DEF a

\* pipewrite's loop puts k bytes at the end
LEMMA StoredStep ==
    ASSUME TypeOK, NEW k \in 0..Room, Stored(k), UNCHANGED nread
    PROVE  /\ nwrite' \in 0..Wrap - 1 /\ buf' \in Rings
           /\ k \in 0..PIPESIZE - Avail /\ Avail' = Avail + k
           /\ \E bs \in [1..k -> Byte] : Queue' = Queue \o bs
           /\ k = 0 => Queue' = Queue
<1>1. /\ nread \in 0..Wrap - 1 /\ nwrite \in 0..Wrap - 1 /\ buf \in Rings
      /\ Avail \in 0..PIPESIZE /\ Queue = Content(buf, nread, Avail)
      /\ nwrite = (nread + Avail) % Wrap /\ Room = PIPESIZE - Avail
      /\ Queue \in Seq(Byte)
  BY RingFacts
<1> DEFINE B == buf'
<1>2. PICK bs \in [1..k -> Byte] : StoredIn(buf, B, nwrite, k, bs)
  BY DEF Stored, StoredIn
<1>3. k \in Nat /\ k \in 0..PIPESIZE - Avail /\ nread \in Nat /\ nwrite \in Nat
      /\ Avail \in Nat /\ Avail + k <= PIPESIZE /\ nwrite + k \in Nat
  BY <1>1, PipeAssumption
<1>4. nwrite' = (nwrite + k) % Wrap
  BY DEF Stored
<1>5. nwrite' \in 0..Wrap - 1
  BY <1>3, <1>4, WrapKeepsSlot
<1>6. Avail' = Avail + k
  <2>1. (((nwrite + k) % Wrap) - nread) % Wrap = Avail + k
    BY <1>1, <1>3, Distances DEF Avail
  <2> QED
    BY <1>4, <2>1, QueueNextFact DEF QueueNext
<1> DEFINE a == Avail
<1>7. Queue' = Content(B, nread, a + k)
  BY <1>6, QueueNextFact DEF QueueNext
<1>8. a \in Nat /\ a + k <= PIPESIZE /\ nwrite = (nread + a) % Wrap
  BY <1>1, <1>3
<1> HIDE DEF a, B
<1>9. B \in Rings /\ Fits(buf, B, nread, nwrite, a, k, bs)
  BY <1>1, <1>2, <1>3, <1>8, StoreSlots
<1>10. Behind(Content(buf, nread, a), Content(B, nread, a + k), bs)
  <2>1. /\ buf \in Rings /\ B \in Rings /\ nread \in Nat /\ nwrite \in Nat /\ a \in Nat
        /\ nwrite = (nread + a) % Wrap /\ k \in Nat /\ bs \in [1..k -> Byte]
        /\ Fits(buf, B, nread, nwrite, a, k, bs)
    BY <1>1, <1>3, <1>8, <1>9
  <2> QED
    BY <2>1, StoreAppends
<1>11. Queue' = Queue \o bs
  BY <1>1, <1>7, <1>10 DEF a, Behind
<1>12. ASSUME k = 0 PROVE Queue \o bs = Queue
  <2>1. bs \in Seq(Byte) /\ Len(bs) = 0
    BY <1>12
  <2> DEFINE Q == Queue \o bs
  <2>2. Q \in Seq(Byte) /\ Len(Q) = Len(Queue) /\ \A m \in 1..Len(Queue) : Q[m] = Queue[m]
    BY <1>1, <2>1, Concatenated
  <2> HIDE DEF Q
  <2>3. Q = Queue
    BY <1>1, <2>2, SeqEqual
  <2> QED
    BY <2>3 DEF Q
<1> QED
  BY <1>3, <1>5, <1>6, <1>9, <1>11, <1>12 DEF B

-----------------------------------------------------------------------------
(* The calls *)

\* Processes hold one end only
LEMMA Apart ==
    /\ Readers \subseteq Users /\ Writers \subseteq Users
    /\ \A r \in Readers : r \notin Writers
    /\ \A p \in Users : p \in Readers \/ p \in Writers
  BY PipeAssumption DEF Users

\* Who comes back from piperead has taken what its loop took
LEMMA ReadTakes ==
    ASSUME TypeOK, NEW r \in Readers, Read(r)
    PROVE  \E k \in 0..Avail, lost \in 0..1 :
             lost <= k /\ k <= MaxN /\ (Avail # 0 => k # 0) /\ Taken(k, lost)
<1>1. Avail \in Nat /\ MaxN \in Nat
  BY RingFacts, PipeAssumption
<1>2. PICK size \in 1..MaxN : \/ Taken(Least(size, Avail), 0)
                              \/ \E k \in 1..Least(size, Avail) : Taken(k, 1)
  BY DEF Read
<1> DEFINE l == Least(size, Avail)
<1>3. l \in 0..Avail /\ l <= MaxN /\ (Avail # 0 => l # 0)
  BY <1>1 DEF Least
<1> HIDE DEF l
<1>4. CASE Taken(l, 0)
  <2>1. 0 \in 0..1 /\ 0 <= l
    BY <1>1, <1>3
  <2> QED
    BY <1>3, <1>4, <2>1
<1>5. ASSUME NEW k \in 1..l, Taken(k, 1) PROVE k \in 0..Avail /\ 1 <= k /\ k <= MaxN /\ k # 0
  BY <1>1, <1>3
<1>6. 1 \in 0..1
  OBVIOUS
<1> QED
  BY <1>2, <1>4, <1>5, <1>6 DEF l

\* A write that does not sleep for want of room has room for a byte
LEMMA WriteStores ==
    ASSUME TypeOK, CallInv, NEW w \in Writers, Write(w)
    PROVE  Room # 0 /\ \E k \in 0..Room : Stored(k)
<1>1. Room \in Nat /\ i[w] \in Nat
  BY RingFacts, PipeAssumption DEF TypeOK
<1>2. PICK size \in 1..MaxN :
        /\ Calls(w, size)
        /\ \/ i[w] + Room >= size /\ Stored(size - i[w])
           \/ \E k \in 0..Room - 1 : i[w] + k < size /\ Stored(k)
  BY DEF Write
<1>3. size \in Nat /\ i[w] < size
  BY <1>1, <1>2 DEF Calls, CallInv
<1>4. CASE i[w] + Room >= size /\ Stored(size - i[w])
  <2>1. size - i[w] \in 0..Room /\ Room # 0
    BY <1>1, <1>3, <1>4
  <2> QED
    BY <1>4, <2>1
<1>5. ASSUME NEW k \in 0..Room - 1, Stored(k) PROVE Room # 0 /\ k \in 0..Room
  BY <1>1
<1> QED
  BY <1>2, <1>4, <1>5

\* One that does fills the ring
LEMMA WriteFills ==
    ASSUME TypeOK, NEW w \in Writers, WriteSleeps(w) \/ WriteBroken(w)
    PROVE  Room \in 0..Room /\ Stored(Room)
<1>1. Room \in Nat
  BY RingFacts, PipeAssumption
<1> QED
  BY <1>1 DEF WriteSleeps, WriteBroken

\* What any step of a writer does to the ring
LEMMA WriterStores ==
    ASSUME TypeOK, CallInv, NEW w \in Writers, WriteStep(w)
    PROVE  (\E k \in 0..Room : Stored(k)) /\ UNCHANGED <<nread, ends, got>>
<1>1. CASE Write(w)
  BY <1>1, WriteStores DEF Write, WriteReturns
<1>2. CASE WriteSleeps(w)
  BY <1>2, WriteFills DEF WriteSleeps
<1>3. CASE WriteBroken(w)
  BY <1>3, WriteFills DEF WriteBroken, WriteReturns
<1> QED
  BY <1>1, <1>2, <1>3 DEF WriteStep

-----------------------------------------------------------------------------
(* The invariant *)

\* The constructor leaves an empty pipe with both ends open.
LEMMA InitHolds == Init => IInv
<1> SUFFICES ASSUME Init PROVE IInv
  OBVIOUS
<1>1. Avail = 0
  <2>1. 0 - 0 \in Int /\ -Wrap <= 0 - 0 /\ 0 - 0 < Wrap + Wrap /\ Wrap \in Nat \ {0}
    BY PipeAssumption
  <2>2. (0 - 0) % Wrap = 0
    BY <2>1, ModNear
  <2> QED
    BY <2>2 DEF Init, Avail
<1>2. TypeOK
  BY <1>1, PipeAssumption DEF Init, TypeOK
<1>3. EndsInv /\ CallInv /\ AsleepForAReason /\ NoUseAfterDelete
  BY Apart DEF Init, EndsInv, CallInv, AsleepForAReason, NoUseAfterDelete
<1> QED
  BY <1>2, <1>3 DEF IInv

\* Every step keeps the types.
LEMMA TypeNext ==
    ASSUME IInv, [Next]_vars
    PROVE  TypeOK'
<1> USE Apart
<1>0. TypeOK /\ CallInv /\ MaxN \in Nat
  BY PipeAssumption DEF IInv
<1>1. ASSUME NEW r \in Readers, ReadSleeps(r) PROVE TypeOK'
  <2>1. UNCHANGED Avail
    BY <1>1, NothingStep DEF ReadSleeps
  <2>2. PICK size \in 1..MaxN : n' = [n EXCEPT ![r] = size]
    BY <1>1 DEF ReadSleeps, Sleeps
  <2>3. n' \in [Users -> 0..MaxN]
    BY <1>0, <2>2 DEF TypeOK
  <2>4. at' \in [Users -> {"idle", "nread", "nwrite", "woken"}]
    BY <1>0, <1>1 DEF ReadSleeps, TypeOK
  <2> QED
    BY <1>0, <1>1, <2>1, <2>3, <2>4 DEF ReadSleeps, ring, ends, TypeOK
<1>2. ASSUME NEW r \in Readers, Read(r) PROVE TypeOK'
  <2>1. PICK k \in 0..Avail, lost \in 0..1 : lost <= k /\ k <= MaxN /\ Taken(k, lost)
    BY <1>0, <1>2, ReadTakes
  <2>2. UNCHANGED <<nwrite, buf, ends, i>>
    BY <1>2 DEF Read
  <2>3. nread' \in 0..Wrap - 1 /\ Avail' = Avail - k /\ Len(got') = k - lost
    BY <1>0, <2>1, <2>2, TakenStep
  <2>4. Avail' <= PIPESIZE /\ Len(got') <= MaxN
    BY <1>0, <2>1, <2>3, RingFacts, PipeAssumption
  <2>5. n' \in [Users -> 0..MaxN]
    BY <1>0, <1>2 DEF Read, Returns, TypeOK
  <2>6. at' \in [Users -> {"idle", "nread", "nwrite", "woken"}]
    BY <1>0, <1>2 DEF Read, Wakeup, TypeOK
  <2> QED
    BY <1>0, <2>2, <2>3, <2>4, <2>5, <2>6 DEF ends, TypeOK
<1>3. ASSUME NEW w \in Writers, WriteStep(w) PROVE TypeOK'
  <2>1. PICK k \in 0..Room : Stored(k)
    BY <1>0, <1>3, WriterStores
  <2>2. UNCHANGED <<nread, ends, got>>
    BY <1>0, <1>3, WriterStores
  <2>3. /\ nwrite' \in 0..Wrap - 1 /\ buf' \in Rings /\ Avail' = Avail + k
        /\ k \in 0..PIPESIZE - Avail
    BY <1>0, <2>1, <2>2, StoredStep
  <2>4. Avail' <= PIPESIZE
    BY <1>0, <2>3, RingFacts, PipeAssumption
  <2>5. /\ n' \in [Users -> 0..MaxN] /\ i' \in [Writers -> 0..MaxN - 1]
        /\ at' \in [Users -> {"idle", "nread", "nwrite", "woken"}]
    <3>1. CASE WriteSleeps(w)
      <4>1. PICK size \in 1..MaxN :
              /\ i[w] + Room < size
              /\ n' = [n EXCEPT ![w] = size] /\ i' = [i EXCEPT ![w] = @ + Room]
        BY <3>1 DEF WriteSleeps, Sleeps
      <4>2. i[w] + Room \in 0..MaxN - 1
        BY <1>0, <4>1, RingFacts, PipeAssumption DEF TypeOK
      <4>3. n' \in [Users -> 0..MaxN] /\ i' \in [Writers -> 0..MaxN - 1]
        BY <1>0, <4>1, <4>2 DEF TypeOK
      <4>4. at' \in [Users -> {"idle", "nread", "nwrite", "woken"}]
        BY <1>0, <3>1 DEF WriteSleeps, Wakeup, TypeOK
      <4> QED
        BY <4>3, <4>4
    <3>2. CASE WriteBroken(w) \/ Write(w)
      <4>1. n' = [n EXCEPT ![w] = 0] /\ i' = [i EXCEPT ![w] = 0]
        BY <3>2 DEF WriteBroken, Write, WriteReturns, Returns
      <4>2. n' \in [Users -> 0..MaxN] /\ i' \in [Writers -> 0..MaxN - 1]
        <5>1. 0 \in 0..MaxN - 1
          BY <1>0, <3>2 DEF WriteBroken, Write
        <5> QED
          BY <1>0, <4>1, <5>1 DEF TypeOK
      <4>3. at' \in [Users -> {"idle", "nread", "nwrite", "woken"}]
        BY <1>0, <3>2 DEF WriteBroken, Write, Wakeup, TypeOK
      <4> QED
        BY <4>2, <4>3
    <3> QED
      BY <1>3, <3>1, <3>2 DEF WriteStep
  <2> QED
    BY <1>0, <2>2, <2>3, <2>4, <2>5 DEF ends, TypeOK, Rings
<1>4. ASSUME NEW p \in Users, CloseRead(p) \/ CloseWrite(p) PROVE TypeOK'
  <2>1. UNCHANGED <<ring, n, i, got>> /\ handles' \subseteq Users
    BY <1>0, <1>4 DEF CloseRead, CloseWrite, Close, TypeOK
  <2>2. UNCHANGED Avail
    BY <2>1, NothingStep
  <2>3. /\ readable' \in BOOLEAN /\ writeable' \in BOOLEAN /\ deleted' \in BOOLEAN
        /\ at' \in [Users -> {"idle", "nread", "nwrite", "woken"}]
    BY <1>0, <1>4 DEF CloseRead, CloseWrite, Wakeup, TypeOK
  <2> QED
    BY <1>0, <2>1, <2>2, <2>3 DEF ring, TypeOK
<1>5. CASE UNCHANGED vars
  <2>1. UNCHANGED Avail
    BY <1>5, NothingStep DEF vars, ring
  <2> QED
    BY <1>0, <1>5, <2>1 DEF vars, TypeOK
<1> QED
  BY <1>1, <1>2, <1>3, <1>4, <1>5 DEF Next, ReadStep

\* Every step leaves who has no end with no call, and the ends of the others open.
LEMMA EndsNext ==
    ASSUME IInv, [Next]_vars
    PROVE  EndsInv'
<1> USE Apart DEF EndsInv
<1>0. TypeOK /\ EndsInv /\ CallInv
  BY DEF IInv
<1>1. ASSUME NEW r \in Readers, ReadStep(r) PROVE EndsInv'
  <2>1. r \in handles /\ UNCHANGED ends
    BY <1>1 DEF ReadStep, ReadSleeps, Read, Calls
  <2>2. \A p \in Users : p # r /\ at'[p] # "idle" => at[p] # "idle"
    BY <1>0, <1>1 DEF ReadStep, ReadSleeps, Read, Wakeup, TypeOK
  <2> QED
    BY <1>0, <2>1, <2>2 DEF ends
<1>2. ASSUME NEW w \in Writers, WriteStep(w) PROVE EndsInv'
  <2>1. w \in handles
    BY <1>2 DEF WriteStep, WriteSleeps, WriteBroken, Write, Calls
  <2>2. UNCHANGED ends
    BY <1>0, <1>2, WriterStores
  <2>3. \A p \in Users : p # w /\ at'[p] # "idle" => at[p] # "idle"
    BY <1>0, <1>2 DEF WriteStep, WriteSleeps, WriteBroken, Write, Wakeup, TypeOK
  <2> QED
    BY <1>0, <2>1, <2>2, <2>3 DEF ends
<1>3. ASSUME NEW p \in Users, CloseRead(p) \/ CloseWrite(p) PROVE EndsInv'
  <2>1. at[p] = "idle" /\ handles' = handles \ {p}
    BY <1>3 DEF CloseRead, CloseWrite, Close
  <2>2. \A q \in Users : at'[q] # "idle" => at[q] # "idle"
    BY <1>0, <1>3 DEF CloseRead, CloseWrite, Wakeup, TypeOK
  <2>3. /\ ~readable' => ~readable \/ handles' \cap Readers = {}
        /\ ~writeable' => ~writeable \/ handles' \cap Writers = {}
    BY <1>0, <1>3 DEF CloseRead, CloseWrite, TypeOK
  <2>4. readable' \in BOOLEAN /\ writeable' \in BOOLEAN
    BY <1>0, <1>3 DEF CloseRead, CloseWrite, TypeOK
  <2> QED
    BY <1>0, <2>1, <2>2, <2>3, <2>4
<1>4. CASE UNCHANGED vars
  BY <1>0, <1>4 DEF vars, ends
<1> QED
  BY <1>1, <1>2, <1>3, <1>4 DEF Next

\* Every step leaves a write that sleeps with bytes to store.
LEMMA CallNext ==
    ASSUME IInv, [Next]_vars
    PROVE  CallInv'
<1> USE Apart DEF CallInv
<1>0. TypeOK /\ CallInv
  BY DEF IInv
<1>1. ASSUME NEW r \in Readers, ReadStep(r) PROVE CallInv'
  <2>1. \A w \in Writers : (at'[w] = "idle" <=> at[w] = "idle") /\ n'[w] = n[w] /\ i'[w] = i[w]
    BY <1>0, <1>1 DEF ReadStep, ReadSleeps, Read, Wakeup, Sleeps, Returns, TypeOK
  <2> QED
    BY <1>0, <2>1
<1>2. ASSUME NEW w \in Writers, WriteStep(w) PROVE CallInv'
  <2>1. \A v \in Writers : v # w =>
          (at'[v] = "idle" <=> at[v] = "idle") /\ n'[v] = n[v] /\ i'[v] = i[v]
    BY <1>0, <1>2
    DEF WriteStep, WriteSleeps, WriteBroken, Write, WriteReturns, Wakeup, Sleeps, Returns, TypeOK
  <2>2. CASE WriteSleeps(w)
    <3>1. at'[w] # "idle" /\ i'[w] < n'[w]
      BY <1>0, <2>2 DEF WriteSleeps, Wakeup, Sleeps, TypeOK
    <3> QED
      BY <1>0, <2>1, <3>1
  <2>3. CASE WriteBroken(w) \/ Write(w)
    <3>1. at'[w] = "idle" /\ i'[w] = 0
      BY <1>0, <2>3 DEF WriteBroken, Write, WriteReturns, Wakeup, TypeOK
    <3> QED
      BY <1>0, <2>1, <3>1
  <2> QED
    BY <1>2, <2>2, <2>3 DEF WriteStep
<1>3. ASSUME NEW p \in Users, CloseRead(p) \/ CloseWrite(p) PROVE CallInv'
  <2>1. \A w \in Writers : at'[w] = "idle" <=> at[w] = "idle"
    BY <1>0, <1>3 DEF CloseRead, CloseWrite, Wakeup, TypeOK
  <2>2. UNCHANGED <<n, i>>
    BY <1>3 DEF CloseRead, CloseWrite, Close
  <2> QED
    BY <1>0, <2>1, <2>2
<1>4. CASE UNCHANGED vars
  BY <1>0, <1>4 DEF vars
<1> QED
  BY <1>1, <1>2, <1>3, <1>4 DEF Next

\* Every step that ends somebody's reason to sleep wakes him.
LEMMA AsleepNext ==
    ASSUME IInv, [Next]_vars
    PROVE  AsleepForAReason'
<1> USE Apart DEF AsleepForAReason
<1>0. TypeOK /\ EndsInv /\ CallInv /\ AsleepForAReason
  BY DEF IInv
<1>1. ASSUME NEW r \in Readers, ReadSleeps(r) PROVE AsleepForAReason'
  <2>1. UNCHANGED <<nread, nwrite, Avail, readable, writeable>>
    BY <1>1, NothingStep DEF ReadSleeps, ring, ends
  <2>2. nread = nwrite /\ writeable
    BY <1>0, <1>1, RingFacts DEF ReadSleeps
  <2>3. \A p \in Users : p # r => at'[p] = at[p]
    BY <1>0, <1>1 DEF ReadSleeps, TypeOK
  <2> QED
    BY <1>0, <2>1, <2>2, <2>3
<1>2. ASSUME NEW r \in Readers, Read(r) PROVE AsleepForAReason'
  <2>1. \A w \in Writers : at'[w] # "nwrite"
    BY <1>0, <1>2 DEF Read, Wakeup, TypeOK
  <2>2. \A q \in Readers : at'[q] = "nread" => at[q] = "nread"
    BY <1>0, <1>2 DEF Read, Wakeup, TypeOK
  <2>3. CASE Avail = 0
    <3>1. PICK k \in 0..Avail, lost \in 0..1 : lost <= k /\ Taken(k, lost)
      BY <1>0, <1>2, ReadTakes
    <3>2. k = 0
      BY <2>3, <3>1
    <3>3. nread' = nread
      <4>1. nread \in 0..Wrap - 1 /\ Wrap \in Nat \ {0}
        BY <1>0, PipeAssumption DEF TypeOK
      <4>2. nread % Wrap = nread
        BY <4>1, ModNear
      <4> QED
        BY <3>1, <3>2, <4>1, <4>2 DEF Taken
    <3> QED
      BY <1>0, <1>2, <2>1, <2>2, <3>3 DEF Read, ends
  <2>4. CASE Avail # 0
    <3>1. Wrap \in Nat \ {0} /\ nread \in Nat
      BY <1>0, PipeAssumption DEF TypeOK
    <3>2. nread # nwrite
      <4> SUFFICES ASSUME nread = nwrite PROVE FALSE
        OBVIOUS
      <4>1. nwrite - nread \in Int /\ -Wrap <= nwrite - nread /\ nwrite - nread < Wrap + Wrap
            /\ nwrite - nread = 0
        BY <3>1
      <4>2. (nwrite - nread) % Wrap = 0
        BY <3>1, <4>1, ModNear
      <4> QED
        BY <2>4, <4>2 DEF Avail
    <3> QED
      BY <1>0, <2>1, <2>2, <3>2
  <2> QED
    BY <2>3, <2>4
<1>3. ASSUME NEW w \in Writers, WriteStep(w) PROVE AsleepForAReason'
  <2>1. PICK k \in 0..Room : Stored(k)
    BY <1>0, <1>3, WriterStores
  <2>2. UNCHANGED <<nread, readable, writeable>>
    BY <1>0, <1>3, WriterStores DEF ends
  <2>3. Avail' = Avail + k /\ k \in 0..PIPESIZE - Avail /\ Avail \in Nat /\ PIPESIZE \in Nat
    BY <1>0, <2>1, <2>2, StoredStep, RingFacts, PipeAssumption
  <2>4. \A v \in Writers : v # w /\ at'[v] = "nwrite" => Avail' = PIPESIZE /\ readable
    <3>1. \A v \in Writers : v # w /\ at'[v] = "nwrite" => at[v] = "nwrite"
      BY <1>0, <1>3 DEF WriteStep, WriteSleeps, WriteBroken, Write, Wakeup, TypeOK
    <3>2. Avail = PIPESIZE => Avail' = PIPESIZE
      BY <2>3
    <3> QED
      BY <1>0, <3>1, <3>2
  <2>5. CASE WriteSleeps(w)
    <3>1. Stored(Room) /\ Room \in 0..Room /\ readable
      BY <1>0, <2>5, WriteFills DEF WriteSleeps
    <3>2. Avail' = Avail + Room /\ Room = PIPESIZE - Avail
      BY <1>0, <2>2, <3>1, StoredStep, RingFacts
    <3>3. \A r \in Readers : at'[r] # "nread"
      BY <1>0, <2>5 DEF WriteSleeps, Wakeup, TypeOK
    <3> QED
      BY <2>2, <2>3, <2>4, <3>1, <3>2, <3>3
  <2>6. CASE Write(w)
    <3>1. at'[w] = "idle" /\ \A r \in Readers : at'[r] # "nread"
      BY <1>0, <2>6 DEF Write, Wakeup, TypeOK
    <3> QED
      BY <2>2, <2>4, <3>1
  <2>7. CASE WriteBroken(w)
    <3>1. at'[w] = "idle" /\ \A r \in Readers : at'[r] = at[r]
      BY <1>0, <2>7 DEF WriteBroken, TypeOK
    <3>2. \A r \in Readers : at[r] = "idle"
      BY <1>0, <2>7 DEF WriteBroken, EndsInv
    <3> QED
      BY <2>2, <2>4, <3>1, <3>2
  <2> QED
    BY <1>3, <2>5, <2>6, <2>7 DEF WriteStep
<1>4. ASSUME NEW p \in Users, CloseRead(p) \/ CloseWrite(p) PROVE AsleepForAReason'
  <2>1. UNCHANGED <<nread, nwrite, Avail>>
    BY <1>4, NothingStep DEF CloseRead, CloseWrite, Close, ring
  <2>2. \A q \in Users, chan \in {"nread", "nwrite"} : at'[q] = chan => at[q] = chan
    BY <1>0, <1>4 DEF CloseRead, CloseWrite, Wakeup, TypeOK
  <2>3. /\ readable' = readable \/ \A w \in Writers : at'[w] # "nwrite"
        /\ writeable' = writeable \/ \A r \in Readers : at'[r] # "nread"
    BY <1>0, <1>4 DEF CloseRead, CloseWrite, Wakeup, TypeOK
  <2> QED
    BY <1>0, <2>1, <2>2, <2>3
<1>5. CASE UNCHANGED vars
  <2>1. UNCHANGED Avail
    BY <1>5, NothingStep DEF vars, ring
  <2> QED
    BY <1>0, <1>5, <2>1 DEF vars, ring, ends
<1> QED
  BY <1>1, <1>2, <1>3, <1>4, <1>5 DEF Next, ReadStep

\* The step that deletes the pipe closes the last end, and none follows it.
LEMMA DeleteNext ==
    ASSUME IInv, [Next]_vars
    PROVE  NoUseAfterDelete'
<1> USE Apart DEF NoUseAfterDelete
<1>0. TypeOK /\ EndsInv /\ CallInv /\ NoUseAfterDelete
  BY DEF IInv
<1>1. ASSUME NEW r \in Readers, ReadStep(r) PROVE ~deleted'
  BY <1>1 DEF ReadStep, ReadSleeps, Read, Calls, ends
<1>2. ASSUME NEW w \in Writers, WriteStep(w) PROVE ~deleted'
  <2>1. ~deleted
    BY <1>2 DEF WriteStep, WriteSleeps, WriteBroken, Write, Calls
  <2> QED
    BY <1>0, <1>2, <2>1, WriterStores DEF ends
<1>3. ASSUME NEW p \in Users, CloseRead(p) \/ CloseWrite(p) PROVE NoUseAfterDelete'
  <2>1. p \in handles /\ handles' = handles \ {p} /\ ~deleted
    BY <1>0, <1>3 DEF CloseRead, CloseWrite, Close
  <2>2. SUFFICES ASSUME deleted' PROVE handles' = {} /\ \A q \in Users : at'[q] = "idle"
    OBVIOUS
  <2>3. handles' \cap Readers = {} /\ handles' \cap Writers = {}
    BY <1>0, <1>3, <2>1, <2>2 DEF CloseRead, CloseWrite, EndsInv
  <2>4. handles' = {}
    BY <1>0, <2>1, <2>3 DEF TypeOK
  <2>5. \A q \in Users : at[q] = "idle"
    BY <1>0, <1>3, <2>1, <2>4 DEF EndsInv, CloseRead, CloseWrite, Close
  <2>6. \A q \in Users : at'[q] = "idle"
    BY <1>0, <1>3, <2>5 DEF CloseRead, CloseWrite, Wakeup, TypeOK
  <2> QED
    BY <2>4, <2>6
<1>4. CASE UNCHANGED vars
  BY <1>0, <1>4 DEF vars, ends
<1> QED
  BY <1>1, <1>2, <1>3, <1>4 DEF Next

\* IInv is inductive.
LEMMA IInvNext == ASSUME IInv, [Next]_vars PROVE IInv'
  BY TypeNext, EndsNext, CallNext, AsleepNext, DeleteNext DEF IInv

-----------------------------------------------------------------------------
(* Theorems *)

\* piperead and pipewrite keep the counters no more than a ring apart, and the
\* calls in their ranges, however wide the counters are.
THEOREM TypeCorrect == Spec => []TypeOK
<1>1. IInv => TypeOK
  BY DEF IInv
<1> QED
  BY <1>1, InitHolds, IInvNext, PTL DEF Spec

\* pipe.cpp:33 and 60: a reader sleeps only on an empty pipe that can still be
\* written, a writer only on a full one that can still be read.
THEOREM NobodySleepsInVain == Spec => []AsleepForAReason
<1>1. IInv => AsleepForAReason
  BY DEF IInv
<1> QED
  BY <1>1, InitHolds, IInvNext, PTL DEF Spec

\* pipeclose's `delete this` leaves nobody asleep in the pipe or with a handle of it.
THEOREM DeletedIsUnused == Spec => []NoUseAfterDelete
<1>1. IInv => NoUseAfterDelete
  BY DEF IInv
<1> QED
  BY <1>1, InitHolds, IInvNext, PTL DEF Spec

\* A read is a read of the channel, or an end of file
LEMMA ReadRefines ==
    ASSUME IInv, NEW r \in Readers, Read(r) PROVE Channel!Next
<1>0. TypeOK /\ EndsInv
  BY DEF IInv
<1>1. PICK k \in 0..Avail, lost \in 0..1 :
        lost <= k /\ (Avail # 0 => k # 0) /\ Taken(k, lost)
  BY <1>0, ReadTakes
<1>2. UNCHANGED <<nwrite, buf, ends>> /\ (Avail # 0 \/ ~writeable) /\ r \in handles
  BY DEF Read, Calls
<1>3. /\ Queue' = SubSeq(Queue, k + 1, Len(Queue))
      /\ got' = SubSeq(Queue, 1, k - lost) /\ Len(got') = k - lost
  BY <1>0, <1>1, <1>2, TakenStep
<1>4. readable /\ UNCHANGED <<readable, writeable>>
  BY <1>0, <1>2 DEF EndsInv, ends
<1>5. Avail \in 0..PIPESIZE /\ Queue \in Seq(Byte) /\ Len(Queue) = Avail
  BY <1>0, RingFacts
<1>6. CASE k # 0
  <2>1. k \in 1..PIPESIZE /\ k <= Len(Queue)
    BY <1>5, <1>6, PipeAssumption
  <2>2. Channel!Take(k, lost)
    BY <1>3, <1>4, <2>1 DEF Channel!Take, Queue
  <2> QED
    BY <2>1, <2>2 DEF Channel!Next
<1>7. CASE k = 0
  <2>1. Avail = 0 /\ ~writeable /\ Queue = <<>>
    BY <1>1, <1>2, <1>5, <1>7
  <2>2. lost = 0 /\ got' = <<>> /\ Queue' = Queue
    BY <1>1, <1>3, <1>7, <2>1
  <2>3. Channel!EndOfFile
    BY <1>4, <2>1, <2>2 DEF Channel!EndOfFile, Queue
  <2> QED
    BY <2>3 DEF Channel!Next
<1> QED
  BY <1>6, <1>7

\* A writer's step is a write of the channel, or none
LEMMA WriteRefines ==
    ASSUME IInv, NEW w \in Writers, WriteStep(w)
    PROVE  Channel!Next \/ UNCHANGED Channel!vars
<1>0. TypeOK /\ EndsInv /\ CallInv
  BY DEF IInv
<1>1. PICK k \in 0..Room : Stored(k)
  BY <1>0, WriterStores
<1>2. UNCHANGED <<nread, ends, got>>
  BY <1>0, WriterStores
<1>3. w \in handles
  BY DEF WriteStep, WriteSleeps, WriteBroken, Write, Calls
<1>4. writeable /\ UNCHANGED <<readable, writeable, got>>
  BY <1>0, <1>2, <1>3 DEF EndsInv, ends
<1>5. /\ k \in 0..PIPESIZE - Avail
      /\ k = 0 => Queue' = Queue
      /\ \E bs \in [1..k -> Byte] : Queue' = Queue \o bs
  BY <1>0, <1>1, <1>2, StoredStep
<1>6. Avail \in 0..PIPESIZE /\ Len(Queue) = Avail
  BY <1>0, RingFacts
<1>7. CASE k = 0
  BY <1>4, <1>5, <1>7 DEF Channel!vars, Queue
<1>8. CASE k # 0
  <2>1. k \in 1..PIPESIZE /\ Len(Queue) + k <= PIPESIZE
    BY <1>5, <1>6, <1>8, PipeAssumption
  <2>2. Channel!Fill(k)
    BY <1>4, <1>5, <2>1 DEF Channel!Fill, Queue
  <2> QED
    BY <2>1, <2>2 DEF Channel!Next
<1> QED
  BY <1>7, <1>8

\* Closing the read end closes the channel's, unless it is not the last handle or
\* pipeclose is not called
LEMMA CloseReadRefines ==
    ASSUME IInv, NEW r \in Readers, CloseRead(r)
    PROVE  Channel!Next \/ UNCHANGED Channel!vars
<1>1. UNCHANGED <<ring, got, writeable>> /\ (readable' = FALSE \/ UNCHANGED readable)
  BY DEF CloseRead, Close
<1>2. UNCHANGED Queue
  BY <1>1, NothingStep
<1>3. readable
  BY DEF CloseRead, Close, IInv, EndsInv
<1>4. readable' = FALSE => Channel!CloseRead
  BY <1>1, <1>2, <1>3 DEF Channel!CloseRead, Queue
<1>5. UNCHANGED readable => UNCHANGED Channel!vars
  BY <1>1, <1>2 DEF Channel!vars, Queue
<1> QED
  BY <1>1, <1>4, <1>5 DEF Channel!Next

\* The same for the write end
LEMMA CloseWriteRefines ==
    ASSUME IInv, NEW w \in Writers, CloseWrite(w)
    PROVE  Channel!Next \/ UNCHANGED Channel!vars
<1>1. UNCHANGED <<ring, got, readable>> /\ (writeable' = FALSE \/ UNCHANGED writeable)
  BY DEF CloseWrite, Close
<1>2. UNCHANGED Queue
  BY <1>1, NothingStep
<1>3. writeable
  BY DEF CloseWrite, Close, IInv, EndsInv
<1>4. writeable' = FALSE => Channel!CloseWrite
  BY <1>1, <1>2, <1>3 DEF Channel!CloseWrite, Queue
<1>5. UNCHANGED writeable => UNCHANGED Channel!vars
  BY <1>1, <1>2 DEF Channel!vars, Queue
<1> QED
  BY <1>1, <1>4, <1>5 DEF Channel!Next

\* The pipe is a first-in-first-out channel of PIPESIZE bytes: whatever the position
\* of the counters, and however calls are cut up by sleeps or by a copy that fails,
\* each byte comes out once and in order, and a read is empty only at the end.
THEOREM PipeIsByteChannel == Spec => Fifo
<1>1. Init => Channel!Init
  <2> SUFFICES ASSUME Init PROVE Channel!Init
    OBVIOUS
  <2>1. Avail = 0
    <3>1. TypeOK /\ nread = 0 /\ nwrite = 0
      BY InitHolds DEF Init, IInv
    <3>2. 0 - 0 \in Int /\ -Wrap <= 0 - 0 /\ 0 - 0 < Wrap + Wrap /\ Wrap \in Nat \ {0}
      BY PipeAssumption
    <3>3. (0 - 0) % Wrap = 0
      BY <3>2, ModNear
    <3> QED
      BY <3>1, <3>3 DEF Avail
  <2>2. Queue = <<>>
    BY <2>1, InitHolds, RingFacts DEF IInv
  <2> QED
    BY <2>2 DEF Init, Channel!Init, Queue
<1>2. ASSUME IInv, [Next]_vars PROVE [Channel!Next]_(Channel!vars)
  <2>1. ASSUME NEW r \in Readers, ReadSleeps(r) PROVE UNCHANGED Channel!vars
    BY <2>1, NothingStep DEF ReadSleeps, ends, Channel!vars, Queue
  <2>2. ASSUME NEW r \in Readers, Read(r) PROVE Channel!Next
    BY <1>2, <2>2, ReadRefines
  <2>3. ASSUME NEW w \in Writers, WriteStep(w) PROVE Channel!Next \/ UNCHANGED Channel!vars
    BY <1>2, <2>3, WriteRefines
  <2>4. ASSUME NEW r \in Readers, CloseRead(r) PROVE Channel!Next \/ UNCHANGED Channel!vars
    BY <1>2, <2>4, CloseReadRefines
  <2>5. ASSUME NEW w \in Writers, CloseWrite(w) PROVE Channel!Next \/ UNCHANGED Channel!vars
    BY <1>2, <2>5, CloseWriteRefines
  <2>6. CASE UNCHANGED vars
    BY <2>6, NothingStep DEF vars, ends, ring, Channel!vars, Queue
  <2> QED
    BY <1>2, <2>1, <2>2, <2>3, <2>4, <2>5, <2>6 DEF Next, ReadStep
<1> QED
  BY <1>1, <1>2, InitHolds, IInvNext, PTL DEF Spec, Fifo, Channel!Spec
=============================================================================
