------------------------------- MODULE Words -------------------------------
(***************************************************************************)
(* The packed words of src/lib.rs, wrapping included: one_lap_for finds    *)
(* how many low bits are the index, and then a word is walked through more *)
(* laps than it can count, next to the position that module Positions says *)
(* it stands for.                                                          *)
(***************************************************************************)
EXTENDS Integers

CONSTANTS
  WORD,     \* how many values Index has, 2^64 or 2^32; usize, which N has, is no wider
  MaxLap    \* bound: laps walked

\* The powers of two, without exponents: no divisor but 1 is odd.
PowerOfTwo(n) == n \in Nat \ {0} /\ \A d \in 2 .. n : n % d = 0 => d % 2 = 0

ASSUME WordsAssumption == PowerOfTwo(WORD) /\ WORD >= 8 /\ MaxLap \in Nat

VARIABLES
  cap,      \* N
  one_lap,  \* `lap` in the loop of one_lap_for, then the field of the queue
  word,     \* a word that head or tail holds
  p         \* the position it stands for

wordVars == <<cap, one_lap, word, p>>

\* Mutant of CapOk: bounded by isize::MAX in place of half of it.
CapOkIsizeMax(n) == n > 0 /\ n <= (WORD \div 2) - 1

\* The assertions of new(); isize::MAX is WORD / 2 - 1.
CapOk(n) == n > 0 /\ n <= ((WORD \div 2) - 1) \div 2

\* w & (one_lap - 1) and w & !(one_lap - 1).
Index(w) == w % one_lap
Lap(w) == w - (w % one_lap)

\* Mutant of WrappingSubLap: saturates at zero.
SaturatingSubLap(w) == IF w < one_lap THEN 0 ELSE w - one_lap

WrappingAddLap(w) == (w + one_lap) % WORD
WrappingSubLap(w) == (w - one_lap) % WORD

\* Mutant of NewTail: one index too many in each lap.
NewTailOffByOne(w) == IF Index(w) + 1 <= cap THEN w + 1 ELSE WrappingAddLap(Lap(w))

\* new_tail of push_or_else, new of pop.
NewTail(w) == IF Index(w) + 1 < cap THEN w + 1 ELSE WrappingAddLap(Lap(w))

P == INSTANCE Positions WITH N <- cap, Laps <- WORD \div one_lap

Init ==
  /\ cap \in {n \in 1 .. (WORD - 1) : CapOk(n)}
  /\ one_lap = 2
  /\ word = 0
  /\ p = P!Origin

\* Mutant of Doubling: until lap is as long as the capacity.
DoublingToCap == one_lap < cap

\* The loop of one_lap_for, `while lap < need`.
Doubling == one_lap < cap + 1

\* Mutant of Double: the next number in place of the next power of two.
CountUp ==
  /\ Doubling
  /\ one_lap' = one_lap + 1
  /\ UNCHANGED <<cap, word, p>>

Double ==
  /\ Doubling
  /\ one_lap' = (one_lap * 2) % WORD
  /\ UNCHANGED <<cap, word, p>>

\* head or tail is moved once new() has returned.
Move ==
  /\ ~Doubling
  /\ p.lap < MaxLap
  /\ word' = NewTail(word)
  /\ p' = P!Succ(p)
  /\ UNCHANGED <<cap, one_lap>>

Next == Double \/ Move

Spec == Init /\ [][Next]_wordVars

-----------------------------------------------------------------------------
(* Properties                                                              *)

Pack(q) == ((q.lap * one_lap) + q.idx) % WORD

\* Every word that head or tail ever holds is the packed position, also after
\* the word has wrapped; its index is below N ("SAFETY: `index < N` by masking
\* invariant", twice in src/lib.rs); and the plain `tail + 1` and `head + 1`
\* neither overflow nor carry into the lap.
MaskingInvariant ==
  /\ word = Pack(p)
  /\ Index(word) < cap
  /\ word + 1 < WORD
  /\ Lap(word + 1) = Lap(word)

\* The arithmetic of the source is that of Positions: on the words of p it gives
\* the words of PlusOne, AddLap and SubLap.
WordArithmetic ==
  /\ word + 1 = Pack(P!PlusOne(p))
  /\ WrappingAddLap(word) = Pack(P!AddLap(p))
  /\ WrappingSubLap(word) = Pack(P!SubLap(p))

\* `==` on a position's word and a stamp's word is Same on what they stand for,
\* whatever the distance between the two.
EqualityIsSame ==
  ~Doubling =>
    \A lap \in 0 .. MaxLap, idx \in 0 .. cap :
      LET q == [lap |-> lap, idx |-> idx] IN word = Pack(q) <=> P!Same(p, q)

\* one_lap_for ends with the "smallest power of two strictly greater than `cap`" (its
\* comment), and has not overflowed on the way: the bound that new() asserts leaves
\* room for four laps in a word, which is what LapsAssumption of Positions asks for.
OneLapFits ==
  /\ PowerOfTwo(one_lap)
  /\ one_lap \div 2 <= cap
  /\ ~Doubling => one_lap > cap
  /\ WORD % one_lap = 0
  /\ WORD \div one_lap >= 4
=============================================================================
