---------------------------- MODULE WordsProofs ----------------------------
(***************************************************************************)
(* The packed words compute positions, for every word size that is a power *)
(* of two and every capacity that new() accepts.                           *)
(***************************************************************************)
EXTENDS Words, TLAPS

-----------------------------------------------------------------------------
(* Remainders                                                              *)

\* A number is taken apart into quotient and remainder in one way only.
LEMMA SplitUnique ==
  ASSUME NEW m \in Nat, NEW q \in Int, NEW r \in 0 .. (m - 1),
         NEW k \in Int, NEW s \in 0 .. (m - 1), (m * q) + r = (m * k) + s
  PROVE  q = k /\ r = s
<1>1. m * (q - k) = s - r
  OBVIOUS
<1>2. CASE q - k >= 1
  <2>1. m * (q - k) >= m
    BY <1>2
  <2> QED BY <1>1, <2>1
<1>3. CASE k - q >= 1
  <2>1. m * (k - q) >= m
    BY <1>3
  <2>2. m * (k - q) = r - s
    BY <1>1
  <2> QED BY <2>1, <2>2
<1> QED BY <1>2, <1>3, <1>1

\* What % and \div give for a number that is already taken apart.
LEMMA ModIs ==
  ASSUME NEW m \in Nat, NEW q \in Int, NEW r \in 0 .. (m - 1)
  PROVE  ((m * q) + r) % m = r /\ ((m * q) + r) \div m = q
<1> DEFINE a == (m * q) + r
           k == a \div m
           s == a % m
<1>1. m > 0 /\ a \in Int
  OBVIOUS
<1>2. k \in Int /\ s \in 0 .. (m - 1) /\ a = (m * k) + s
  BY <1>1
<1> HIDE DEF k, s
<1>3. q = k /\ r = s
  BY <1>2, SplitUnique
<1> QED BY <1>3 DEF k, s

\* Every number is taken apart by % and \div.
LEMMA ModSplit ==
  ASSUME NEW m \in Nat, m > 0, NEW a \in Int
  PROVE  /\ a \div m \in Int /\ a % m \in 0 .. (m - 1)
         /\ a = (m * (a \div m)) + (a % m)
OBVIOUS

\* Wrapping an operand changes nothing in a wrapping addition.
LEMMA ModAdd ==
  ASSUME NEW m \in Nat, m > 0, NEW a \in Int, NEW c \in Int
  PROVE  ((a % m) + c) % m = (a + c) % m
<1> DEFINE k == a \div m
           s == a % m
<1>1. k \in Int /\ s \in 0 .. (m - 1) /\ a = (m * k) + s
  BY ModSplit
<1> HIDE DEF k, s
<1> DEFINE j == (s + c) \div m
           t == (s + c) % m
<1>2. j \in Int /\ t \in 0 .. (m - 1) /\ s + c = (m * j) + t
  BY <1>1, ModSplit
<1> HIDE DEF j, t
<1>3. a + c = (m * (k + j)) + t
  BY <1>1, <1>2
<1>4. (a + c) % m = t
  <2>1. k + j \in Int
    BY <1>1, <1>2
  <2>2. ((m * (k + j)) + t) % m = t
    BY <2>1, <1>2, ModIs
  <2> QED BY <2>2, <1>3
<1> QED BY <1>4 DEF t, s

-----------------------------------------------------------------------------
(* Powers of two                                                           *)

Divides(d, n) == \E q \in Nat : n = d * q

\* A factor of a power of two, other than 1, is even.
LEMMA FactorEven ==
  ASSUME NEW n, PowerOfTwo(n), NEW d \in Nat, Divides(d, n), d > 1
  PROVE  \E h \in Nat : d = 2 * h
<1> PICK q \in Nat : n = d * q
  BY DEF Divides
<1>1. n \in Nat /\ n > 0
  BY DEF PowerOfTwo
<1>2. q > 0
  <2>1. q # 0
    BY <1>1
  <2> QED BY <2>1
<1>3. d \in 2 .. n
  <2>1. d * q >= d
    BY <1>2
  <2> QED BY <2>1, <1>1
<1>4. n % d = 0
  <2>1. ((d * q) + 0) % d = 0
    BY ModIs
  <2> QED BY <2>1
<1>5. d % 2 = 0
  BY <1>1, <1>3, <1>4 DEF PowerOfTwo
<1>6. d = (2 * (d \div 2)) + (d % 2) /\ d \div 2 \in Nat
  OBVIOUS
<1> QED BY <1>5, <1>6

\* A factor of a power of two is a power of two.
LEMMA FactorPower ==
  ASSUME NEW n, PowerOfTwo(n), NEW f \in Nat, Divides(f, n)
  PROVE  PowerOfTwo(f)
<1> PICK q \in Nat : n = f * q
  BY DEF Divides
<1>1. f > 0 /\ n \in Nat /\ n > 0
  <2>1. n \in Nat /\ n > 0
    BY DEF PowerOfTwo
  <2>2. f # 0
    BY <2>1
  <2> QED BY <2>1, <2>2
<1>2. ASSUME NEW d \in 2 .. f, f % d = 0 PROVE d % 2 = 0
  <2> DEFINE k == f \div d
  <2>1. k \in Int /\ f = (d * k) + (f % d)
    BY ModSplit, <1>1
  <2>2. f = d * k
    BY <2>1, <1>2
  <2> HIDE DEF k
  <2>3. k \in Nat
    <3>1. CASE k < 0
      <4>1. d * k < 0
        BY <3>1, <2>1
      <4> QED BY <4>1, <2>2
    <3> QED BY <3>1, <2>1
  <2>4. Divides(d, n)
    <3>1. n = d * (k * q) /\ k * q \in Nat
      BY <2>2, <2>3
    <3> QED BY <3>1 DEF Divides
  <2>5. PICK h \in Nat : d = 2 * h
    BY <2>4, FactorEven
  <2>6. ((2 * h) + 0) % 2 = 0
    BY <2>5
  <2> QED BY <2>5, <2>6
<1> QED BY <1>1, <1>2 DEF PowerOfTwo

\* While a word has room for more than four laps, it has room for four laps of twice
\* the length: the number of laps is even, and so is half of it.
LEMMA RoomToDouble ==
  ASSUME NEW n, PowerOfTwo(n), NEW lap \in Nat, NEW laps \in Nat,
         n = lap * laps, laps > 4
  PROVE  \E h \in Nat : h >= 4 /\ n = (lap * 2) * h
<1>1. Divides(laps, n)
  <2>1. n = laps * lap
    OBVIOUS
  <2> QED BY <2>1 DEF Divides
<1>2. PICK h \in Nat : laps = 2 * h
  BY <1>1, FactorEven
<1>3. n = (lap * 2) * h
  BY <1>2
<1>4. Divides(h, n)
  <2>1. n = h * (lap * 2) /\ lap * 2 \in Nat
    BY <1>3
  <2> QED BY <2>1 DEF Divides
<1>5. h > 1
  BY <1>2
<1>6. PICK i \in Nat : h = 2 * i
  BY <1>4, <1>5, FactorEven
<1>7. h >= 4
  BY <1>2, <1>6
<1> QED BY <1>3, <1>7

-----------------------------------------------------------------------------
(* Packing                                                                 *)

\* The word of a position keeps the index and the lap modulo the number of laps.
LEMMA PackMod ==
  ASSUME NEW m \in Nat, m > 0, NEW laps \in Nat, laps > 0,
         NEW lap \in Int, NEW idx \in 0 .. (m - 1)
  PROVE  /\ lap % laps \in 0 .. (laps - 1)
         /\ (m * (lap % laps)) + idx \in 0 .. ((m * laps) - 1)
         /\ ((lap * m) + idx) % (m * laps) = (m * (lap % laps)) + idx
<1> DEFINE k == lap \div laps
           r == lap % laps
<1>1. k \in Int /\ r \in 0 .. (laps - 1) /\ lap = (laps * k) + r
  BY ModSplit
<1> HIDE DEF k, r
<1> DEFINE w == m * laps
           s == (m * r) + idx
<1>2. w \in Nat
  OBVIOUS
<1>3. s \in 0 .. (w - 1)
  <2>1. m * ((laps - 1) - r) >= 0
    BY <1>1
  <2>2. m * ((laps - 1) - r) = (w - m) - (m * r)
    BY <1>1
  <2>3. m * r >= 0 /\ m * r \in Int
    BY <1>1
  <2> HIDE DEF w
  <2> QED BY <2>1, <2>2, <2>3, <1>2
<1>4. (lap * m) + idx = (w * k) + s
  <2>1. lap * m = (w * k) + (m * r)
    BY <1>1
  <2> HIDE DEF w
  <2> QED BY <2>1, <1>1, <1>2
<1> HIDE DEF w, s
<1>5. ((w * k) + s) % w = s
  BY <1>1, <1>2, <1>3, ModIs
<1>6. ((lap * m) + idx) % w = s
  BY <1>4, <1>5
<1>7. r \in 0 .. (laps - 1) /\ s \in 0 .. (w - 1)
  BY <1>1, <1>3
<1> QED BY <1>6, <1>7 DEF w, s, r

-----------------------------------------------------------------------------
(* The inductive invariant                                                 *)

\* `lap` is never longer than twice the capacity, and divides the word into at least
\* four laps; the word is the packed position.
WordsInv ==
  /\ cap \in Nat /\ cap >= 1 /\ 4 * cap < WORD
  /\ one_lap \in Nat /\ one_lap >= 2 /\ one_lap <= 2 * cap
  /\ WORD % one_lap = 0 /\ WORD \div one_lap >= 4
  /\ p \in [lap : Nat, idx : 0 .. (cap - 1)]
  /\ word = Pack(p)
  /\ Doubling => p = P!Origin

\* How many laps a word counts.
LEMMA LapsIs ==
  ASSUME NEW m \in Nat, m > 0, WORD % m = 0, WORD \div m >= 4
  PROVE  WORD \div m \in Nat /\ WORD = m * (WORD \div m) /\ Divides(m, WORD)
<1>1. WORD \in Nat
  BY WordsAssumption DEF PowerOfTwo
<1>2. WORD \div m \in Int /\ WORD = (m * (WORD \div m)) + (WORD % m)
  BY <1>1, ModSplit
<1>3. WORD \div m \in Nat /\ WORD = m * (WORD \div m)
  BY <1>1, <1>2
<1> QED BY <1>3 DEF Divides

\* And when that number is known.
LEMMA LapsAre ==
  ASSUME NEW m \in Nat, m > 0, NEW laps \in Nat, laps >= 4, WORD = m * laps
  PROVE  WORD % m = 0 /\ WORD \div m >= 4
<1>1. ((m * laps) + 0) % m = 0 /\ ((m * laps) + 0) \div m = laps
  BY ModIs
<1>2. (m * laps) + 0 = WORD
  OBVIOUS
<1> QED BY <1>1, <1>2

\* The number of laps in a word.
LapCount == WORD \div one_lap

\* Packing, in terms of the number of laps.
LEMMA PackIs ==
  ASSUME WordsInv, NEW lap \in Int, NEW idx \in 0 .. (one_lap - 1)
  PROVE  /\ lap % LapCount \in 0 .. (LapCount - 1)
         /\ (one_lap * (lap % LapCount)) + idx \in 0 .. (WORD - 1)
         /\ Pack([lap |-> lap, idx |-> idx]) = (one_lap * (lap % LapCount)) + idx
<1>1. /\ LapCount \in Nat /\ LapCount > 0 /\ WORD = one_lap * LapCount
      /\ one_lap \in Nat /\ one_lap > 0
  BY LapsIs DEF LapCount, WordsInv
<1> HIDE DEF LapCount
<1>2. /\ lap % LapCount \in 0 .. (LapCount - 1)
      /\ (one_lap * (lap % LapCount)) + idx \in 0 .. ((one_lap * LapCount) - 1)
      /\ ((lap * one_lap) + idx) % (one_lap * LapCount) = (one_lap * (lap % LapCount)) + idx
  BY <1>1, PackMod, Zenon
<1> QED BY <1>1, <1>2 DEF Pack

\* The word at hand: an index that leaves room for one more, above it whole laps.
LEMMA WordIs ==
  ASSUME WordsInv
  PROVE  /\ p.lap \in Nat /\ p.idx \in 0 .. (cap - 1) /\ p.idx + 1 \in 0 .. (one_lap - 1)
         /\ p = [lap |-> p.lap, idx |-> p.idx]
         /\ p.lap % LapCount \in 0 .. (LapCount - 1)
         /\ word = (one_lap * (p.lap % LapCount)) + p.idx
         /\ word \in 0 .. (WORD - 1)
         /\ word + 1 = Pack(P!PlusOne(p))
         /\ word + 1 < WORD
<1>1. /\ p.lap \in Nat /\ p.idx \in 0 .. (cap - 1)
      /\ p = [lap |-> p.lap, idx |-> p.idx]
      /\ cap \in Nat /\ one_lap \in Nat /\ one_lap >= 2
  BY DEF WordsInv
<1>2. p.idx + 1 \in 0 .. (one_lap - 1)
  <2>1. CASE Doubling
    <3>1. p.idx = 0
      BY <2>1 DEF WordsInv, P!Origin
    <3> QED BY <3>1, <1>1
  <2>2. CASE ~Doubling
    BY <2>2, <1>1 DEF Doubling
  <2> QED BY <2>1, <2>2
<1>3. p.idx \in 0 .. (one_lap - 1)
  BY <1>1, <1>2
<1>4. /\ p.lap % LapCount \in 0 .. (LapCount - 1)
      /\ (one_lap * (p.lap % LapCount)) + p.idx \in 0 .. (WORD - 1)
      /\ Pack([lap |-> p.lap, idx |-> p.idx]) = (one_lap * (p.lap % LapCount)) + p.idx
  BY <1>1, <1>3, PackIs
<1>5. word = (one_lap * (p.lap % LapCount)) + p.idx
  BY <1>1, <1>4 DEF WordsInv
<1>6. /\ (one_lap * (p.lap % LapCount)) + (p.idx + 1) \in 0 .. (WORD - 1)
      /\ Pack([lap |-> p.lap, idx |-> p.idx + 1]) = (one_lap * (p.lap % LapCount)) + (p.idx + 1)
  BY <1>1, <1>2, PackIs
<1>7. P!PlusOne(p) = [lap |-> p.lap, idx |-> p.idx + 1]
  BY DEF P!PlusOne
<1>8. one_lap * (p.lap % LapCount) \in Int /\ WORD \in Nat
  BY <1>1, <1>4, WordsAssumption, LapsIs DEF PowerOfTwo, LapCount, WordsInv
<1> QED BY <1>1, <1>2, <1>4, <1>5, <1>6, <1>7, <1>8

\* What the masks take out of the word and of the word after it.
LEMMA MasksGive ==
  ASSUME WordsInv
  PROVE  /\ Index(word) = p.idx /\ Index(word + 1) = p.idx + 1
         /\ Lap(word) = one_lap * (p.lap % LapCount) /\ Lap(word + 1) = Lap(word)
<1> DEFINE r == p.lap % LapCount
<1>1. /\ one_lap \in Nat /\ r \in Int
      /\ p.idx \in 0 .. (one_lap - 1) /\ p.idx + 1 \in 0 .. (one_lap - 1)
      /\ word = (one_lap * r) + p.idx
  BY WordIs DEF WordsInv
<1> HIDE DEF r
<1>2. ((one_lap * r) + p.idx) % one_lap = p.idx
  BY <1>1, ModIs
<1>3. ((one_lap * r) + (p.idx + 1)) % one_lap = p.idx + 1
  BY <1>1, ModIs
<1>4. one_lap * r \in Int
  BY <1>1
<1>5. word + 1 = (one_lap * r) + (p.idx + 1)
  BY <1>1, <1>4
<1>6. Index(word) = p.idx /\ Index(word + 1) = p.idx + 1
  BY <1>1, <1>2, <1>3, <1>5 DEF Index
<1>7. Lap(word) = word - p.idx /\ Lap(word + 1) = (word + 1) - (p.idx + 1)
  BY <1>6 DEF Lap, Index
<1>8. Lap(word) = one_lap * r /\ Lap(word + 1) = one_lap * r
  BY <1>1, <1>4, <1>5, <1>7
<1> QED BY <1>6, <1>8 DEF r

\* Adding a lap to the word, and taking one from it, gives the words of the
\* positions a lap away.
LEMMA LapsAway ==
  ASSUME WordsInv
  PROVE  /\ WrappingAddLap(word) = Pack(P!AddLap(p))
         /\ WrappingSubLap(word) = Pack(P!SubLap(p))
<1> DEFINE a == (p.lap * one_lap) + p.idx
<1>1. /\ p.lap \in Nat /\ p.idx \in Nat /\ one_lap \in Nat /\ a \in Int
      /\ WORD \in Nat /\ WORD > 0
  BY WordIs, WordsAssumption DEF WordsInv, PowerOfTwo
<1>2. word = a % WORD
  BY DEF WordsInv, Pack
<1>3. a + one_lap = ((p.lap + 1) * one_lap) + p.idx
  BY <1>1
<1>4. a + (0 - one_lap) = ((p.lap - 1) * one_lap) + p.idx
  BY <1>1
<1>5. Pack(P!AddLap(p)) = (a + one_lap) % WORD
  BY <1>3 DEF Pack, P!AddLap
<1>6. Pack(P!SubLap(p)) = (a + (0 - one_lap)) % WORD
  BY <1>4 DEF Pack, P!SubLap
<1> HIDE DEF a
<1>7. one_lap \in Int /\ 0 - one_lap \in Int /\ a % WORD \in Int
  BY <1>1
<1>8. ((a % WORD) + one_lap) % WORD = (a + one_lap) % WORD
  BY <1>1, <1>7, ModAdd, Zenon
<1>9. ((a % WORD) + (0 - one_lap)) % WORD = (a + (0 - one_lap)) % WORD
  BY <1>1, <1>7, ModAdd, Zenon
<1>10. word - one_lap = word + (0 - one_lap)
  BY <1>1, <1>2, <1>7
<1> QED BY <1>2, <1>5, <1>6, <1>8, <1>9, <1>10 DEF WrappingAddLap, WrappingSubLap

\* Two positions with indices up to `cap` have the same word only if they have the
\* same index and the same lap modulo the number of laps.
LEMMA EqualWords ==
  ASSUME WordsInv, ~Doubling, NEW lap \in Nat, NEW idx \in 0 .. cap
  PROVE  word = Pack([lap |-> lap, idx |-> idx]) <=> P!Same(p, [lap |-> lap, idx |-> idx])
<1> DEFINE r == p.lap % LapCount
           s == lap % LapCount
<1>1. /\ one_lap \in Nat /\ r \in Int /\ p.idx \in 0 .. (one_lap - 1)
      /\ word = (one_lap * r) + p.idx
  BY WordIs DEF WordsInv
<1>2. idx \in 0 .. (one_lap - 1)
  BY DEF WordsInv, Doubling
<1>3. s \in Int /\ Pack([lap |-> lap, idx |-> idx]) = (one_lap * s) + idx
  BY <1>2, PackIs
<1>4. P!Same(p, [lap |-> lap, idx |-> idx]) <=> (p.idx = idx /\ r = s)
  BY DEF P!Same, LapCount
<1> HIDE DEF r, s
<1>5. ASSUME (one_lap * r) + p.idx = (one_lap * s) + idx PROVE p.idx = idx /\ r = s
  BY <1>1, <1>2, <1>3, <1>5, SplitUnique
<1> QED BY <1>1, <1>3, <1>4, <1>5

-----------------------------------------------------------------------------
(* Steps                                                                   *)

\* new() starts the loop with two laps' worth of room to spare, and at the origin.
LEMMA InitInd == Init => WordsInv
<1> SUFFICES ASSUME Init PROVE WordsInv
  OBVIOUS
<1>1. WORD \in Nat /\ WORD >= 8 /\ PowerOfTwo(WORD)
  BY WordsAssumption DEF PowerOfTwo
<1>2. cap \in Nat /\ cap >= 1 /\ 4 * cap < WORD
  BY <1>1 DEF Init, CapOk
<1>3. one_lap = 2 /\ word = 0 /\ p = [lap |-> 0, idx |-> 0]
  BY DEF Init, P!Origin
<1>4. WORD % 2 = 0 /\ WORD \div 2 >= 4
  <2>1. WORD = WORD * 1
    BY <1>1
  <2>2. Divides(WORD, WORD)
    BY <2>1 DEF Divides
  <2>3. WORD > 1
    BY <1>1
  <2>4. PICK h \in Nat : WORD = 2 * h
    BY <1>1, <2>2, <2>3, FactorEven, Zenon
  <2> QED BY <1>1, <2>4
<1>5. Pack(p) = 0
  BY <1>1, <1>3 DEF Pack
<1>6. p \in [lap : Nat, idx : 0 .. (cap - 1)]
  BY <1>2, <1>3
<1> QED BY <1>2, <1>3, <1>4, <1>5, <1>6 DEF WordsInv, P!Origin

\* A round of the loop: `lap *= 2` does not overflow.
LEMMA DoubleInd ==
  ASSUME WordsInv, Double
  PROVE  WordsInv'
<1>1. WORD \in Nat /\ WORD >= 8 /\ PowerOfTwo(WORD)
  BY WordsAssumption DEF PowerOfTwo
<1>2. /\ cap \in Nat /\ cap >= 1 /\ 4 * cap < WORD
      /\ one_lap \in Nat /\ one_lap >= 2 /\ one_lap <= cap
  BY DEF WordsInv, Double, Doubling
<1>3. LapCount \in Nat /\ WORD = one_lap * LapCount
  BY <1>2, LapsIs DEF WordsInv, LapCount
<1>4. LapCount > 4
  <2> SUFFICES ASSUME LapCount <= 4 PROVE FALSE
    BY <1>3
  <2>1. one_lap * (4 - LapCount) >= 0
    BY <1>2, <1>3
  <2>2. one_lap * (4 - LapCount) = (4 * one_lap) - WORD
    BY <1>2, <1>3
  <2> QED BY <2>1, <2>2, <1>1, <1>2
<1>5. PICK h \in Nat : h >= 4 /\ WORD = (one_lap * 2) * h
  BY <1>1, <1>2, <1>3, <1>4, RoomToDouble
<1>6. one_lap' = one_lap * 2
  <2>1. one_lap * 2 < WORD
    BY <1>1, <1>2
  <2> QED BY <2>1, <1>1, <1>2 DEF Double
<1>7. UNCHANGED <<cap, word, p>> /\ p = P!Origin /\ Doubling
  BY DEF Double, WordsInv
<1>8. one_lap' \in Nat /\ one_lap' >= 2 /\ one_lap' <= 2 * cap /\ WORD = one_lap' * h
  BY <1>2, <1>5, <1>6
<1>9. WORD % one_lap' = 0 /\ WORD \div one_lap' >= 4
  <2>1. one_lap' > 0
    BY <1>8
  <2> QED BY <1>5, <1>8, <2>1, LapsAre, Zenon
<1>10. p.lap = 0 /\ p.idx = 0
  BY <1>7 DEF P!Origin
<1>11. word' = Pack(p)'
  <2>1. word = 0
    BY <1>1, <1>2, <1>10 DEF WordsInv, Pack
  <2>2. Pack(p)' = ((0 * one_lap') + 0) % WORD
    BY <1>7, <1>10 DEF Pack
  <2>3. \A x \in Nat : (0 * x) + 0 = 0
    OBVIOUS
  <2>4. 0 % WORD = 0
    BY <1>1
  <2> QED BY <2>1, <2>2, <2>3, <2>4, <1>7, <1>8
<1>12. p \in [lap : Nat, idx : 0 .. (cap - 1)]
  BY DEF WordsInv
<1> QED BY <1>2, <1>7, <1>8, <1>9, <1>11, <1>12 DEF WordsInv, P!Origin

\* head or tail moves on: the next index, or index 0 of the next lap.
LEMMA MoveInd ==
  ASSUME WordsInv, Move
  PROVE  WordsInv'
<1>1. /\ cap \in Nat /\ cap >= 1 /\ p.lap \in Nat /\ p.idx \in 0 .. (cap - 1)
      /\ one_lap \in Nat /\ one_lap > cap
  BY WordIs DEF WordsInv, Move, Doubling
<1>2. UNCHANGED <<cap, one_lap>> /\ ~Doubling /\ word' = NewTail(word) /\ p' = P!Succ(p)
  BY DEF Move
<1>3. word' = Pack(p')
  <2>1. CASE p.idx + 1 < cap
    <3>1. NewTail(word) = word + 1
      BY <2>1, MasksGive DEF NewTail
    <3>2. P!Succ(p) = P!PlusOne(p)
      BY <2>1 DEF P!Succ, P!PlusOne
    <3> QED BY <3>1, <3>2, <1>2, WordIs
  <2>2. CASE ~(p.idx + 1 < cap)
    <3> DEFINE r == p.lap % LapCount
    <3>1. NewTail(word) = ((one_lap * r) + one_lap) % WORD
      BY <2>2, MasksGive DEF NewTail, WrappingAddLap
    <3>2. P!Succ(p) = [lap |-> p.lap + 1, idx |-> 0]
      BY <2>2 DEF P!Succ
    <3>3. one_lap * r = (p.lap * one_lap) % WORD
      <4>1. p.lap \in Int /\ 0 \in 0 .. (one_lap - 1)
        BY <1>1
      <4>2. Pack([lap |-> p.lap, idx |-> 0]) = (one_lap * r) + 0 /\ r \in Int
        BY <4>1, PackIs
      <4>3. Pack([lap |-> p.lap, idx |-> 0]) = ((p.lap * one_lap) + 0) % WORD
        BY DEF Pack
      <4>4. (p.lap * one_lap) + 0 = p.lap * one_lap /\ (one_lap * r) + 0 = one_lap * r
        BY <1>1, <4>2
      <4> QED BY <4>2, <4>3, <4>4
    <3> HIDE DEF r
    <3> DEFINE a == p.lap * one_lap
    <3>4. a \in Int /\ one_lap \in Int /\ WORD \in Nat /\ WORD > 0
      BY <1>1, WordsAssumption DEF PowerOfTwo
    <3>5. ((p.lap + 1) * one_lap) + 0 = a + one_lap
      BY <1>1
    <3>6. Pack(P!Succ(p)) = (a + one_lap) % WORD
      BY <3>2, <3>5 DEF Pack
    <3> HIDE DEF a
    <3>7. ((a % WORD) + one_lap) % WORD = (a + one_lap) % WORD
      BY <3>4, ModAdd, Zenon
    <3> QED BY <3>1, <3>3, <3>6, <3>7, <1>2 DEF a
  <2> QED BY <2>1, <2>2
<1>4. p' \in [lap : Nat, idx : 0 .. (cap - 1)]
  BY <1>1, <1>2 DEF P!Succ
<1>5. ~Doubling'
  BY <1>2 DEF Doubling
<1>6. Pack(p)' = Pack(p')
  BY <1>2 DEF Pack
<1> QED BY <1>2, <1>3, <1>4, <1>5, <1>6 DEF WordsInv

\* The invariant holds for ever.
LEMMA WordsInductive == Spec => []WordsInv
<1>1. WordsInv /\ [Next]_wordVars => WordsInv'
  <2> SUFFICES ASSUME WordsInv, [Next]_wordVars PROVE WordsInv'
    OBVIOUS
  <2>1. CASE Double
    BY <2>1, DoubleInd
  <2>2. CASE Move
    BY <2>2, MoveInd
  <2>3. CASE UNCHANGED wordVars
    BY <2>3 DEF wordVars, WordsInv, Pack, Doubling, P!Origin
  <2> QED BY <2>1, <2>2, <2>3 DEF Next
<1> QED BY <1>1, InitInd, PTL DEF Spec

-----------------------------------------------------------------------------
(* Theorems                                                                *)

\* The "masking invariant" that the SAFETY comments of src/lib.rs appeal to, for every
\* word size, every capacity that new() accepts and any number of laps: words are
\* packed positions, indices stay below N, `+ 1` does not reach the lap.
THEOREM IndicesInBounds == Spec => []MaskingInvariant
<1>1. WordsInv => MaskingInvariant
  <2> SUFFICES ASSUME WordsInv PROVE MaskingInvariant
    OBVIOUS
  <2>1. Index(word) < cap
    BY WordIs, MasksGive DEF WordsInv
  <2> QED BY <2>1, WordIs, MasksGive DEF MaskingInvariant, WordsInv
<1> QED BY <1>1, WordsInductive, PTL

\* `+ 1`, `wrapping_add(one_lap)` and `wrapping_sub(one_lap)` of the source compute
\* PlusOne, AddLap and SubLap of Positions, on which the proofs about the queue rest.
THEOREM WordsArePositions == Spec => []WordArithmetic
<1>1. WordsInv => WordArithmetic
  BY WordIs, LapsAway DEF WordArithmetic
<1> QED BY <1>1, WordsInductive, PTL

\* `==` on words is Same on positions, however far apart the two are.
THEOREM EqualMeansSame == Spec => []EqualityIsSame
<1>1. WordsInv => EqualityIsSame
  <2> SUFFICES ASSUME WordsInv, ~Doubling, NEW lap \in 0 .. MaxLap, NEW idx \in 0 .. cap
               PROVE  word = Pack([lap |-> lap, idx |-> idx])
                        <=> P!Same(p, [lap |-> lap, idx |-> idx])
    BY DEF EqualityIsSame
  <2>1. lap \in Nat
    BY WordsAssumption
  <2> QED BY <2>1, EqualWords
<1> QED BY <1>1, WordsInductive, PTL

\* one_lap_for computes what its comment says without overflow, and the assertion of
\* new() leaves the four laps that LapsAssumption asks for.
THEOREM LapsFit == Spec => []OneLapFits
<1>1. WordsInv => OneLapFits
  <2> SUFFICES ASSUME WordsInv PROVE OneLapFits
    OBVIOUS
  <2>1. one_lap \in Nat /\ one_lap >= 2 /\ one_lap <= 2 * cap /\ cap \in Nat
    BY DEF WordsInv
  <2>2. PowerOfTwo(one_lap)
    BY <2>1, LapsIs, FactorPower, WordsAssumption DEF WordsInv
  <2>3. one_lap \div 2 <= cap
    BY <2>1
  <2>4. ~Doubling => one_lap > cap
    BY <2>1 DEF Doubling
  <2> QED BY <2>2, <2>3, <2>4 DEF OneLapFits, WordsInv
<1> QED BY <1>1, WordsInductive, PTL
=============================================================================
