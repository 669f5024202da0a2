----------------------------- MODULE Positions -----------------------------
(***************************************************************************)
(* The machine words that `head`, `tail` and the slot stamps hold.         *)
(*                                                                         *)
(* src/lib.rs packs two numbers into one word: the bits below `one_lap`    *)
(* are an index into the buffer, the bits above it count laps.  A position *)
(* is kept here as those two fields.  `lap` counts every lap since `new()`;*)
(* the word has room for its value modulo Laps only, where Laps is         *)
(* 2^width / one_lap, so the program can compare positions only with Same. *)
(* Module Words shows that the masks and wrapping additions of the source  *)
(* compute these operators on the packed words.                            *)
(***************************************************************************)
EXTENDS Integers

CONSTANTS
  N,     \* the capacity, a const parameter of Queue<T, N>
  Laps   \* how many laps a word can tell apart: 2^width / one_lap

\* new() asserts N > 0.  Its second assertion, N <= isize::MAX / 2, leaves at
\* least two bits above `one_lap` whatever the width of the word.
ASSUME NAssumption == N \in Nat \ {0}
ASSUME LapsAssumption == Laps \in Nat /\ Laps >= 4

Slots == 0 .. (N - 1)

\* What head and tail can hold, and what a stamp can hold (`tail + 1` too).
Position == [lap : Nat, idx : Slots]
Stamp    == [lap : Nat, idx : 0 .. N]

Origin == [lap |-> 0, idx |-> 0]

\* Mutant of Succ: the index runs on past N - 1.
SuccUnwrapped(p) == [lap |-> p.lap, idx |-> p.idx + 1]

\* `new_tail` of push_or_else and `new` of pop: the next index of this lap, or
\* index 0 of the next lap after index N - 1.
Succ(p) ==
  IF p.idx + 1 < N THEN [lap |-> p.lap, idx |-> p.idx + 1]
                   ELSE [lap |-> p.lap + 1, idx |-> 0]

\* `tail + 1`, `head + 1`: never carries into the lap because N < one_lap.
PlusOne(p) == [lap |-> p.lap, idx |-> p.idx + 1]

\* `.wrapping_add(self.one_lap)` and `.wrapping_sub(self.one_lap)`.
AddLap(p) == [lap |-> p.lap + 1, idx |-> p.idx]
SubLap(p) == [lap |-> p.lap - 1, idx |-> p.idx]

\* `==` on words.
Same(p, q) == p.idx = q.idx /\ p.lap % Laps = q.lap % Laps

\* The order in which positions are handed out.
Leq(p, q) == p.lap < q.lap \/ (p.lap = q.lap /\ p.idx <= q.idx)

\* The position k steps after p, and the number of positions in [p, q).
Advance(p, k) == [lap |-> p.lap + (p.idx + k) \div N, idx |-> (p.idx + k) % N]
Distance(p, q) == (q.lap - p.lap) * N + q.idx - p.idx

\* The lap in which slot i is next reached, counting from position p on.
LapAt(p, i) == IF p.idx <= i THEN p.lap ELSE p.lap + 1
=============================================================================
