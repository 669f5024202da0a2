------------------------------ MODULE Backoff ------------------------------
(***************************************************************************)
(* Backoff of src/lib.rs: the counter that one call of push_or_else or pop *)
(* keeps while it retries.  spin() follows a lost compare-and-swap or a    *)
(* closure that said retry, snooze() a stamp that said wait; what the      *)
(* other threads do decides which, so they come in any order.              *)
(***************************************************************************)
EXTENDS Integers

CONSTANT MaxSpun   \* bound: spin_loop() hints counted, beyond it there are "many"

ASSUME MaxSpunAssumption == MaxSpun \in Nat

VARIABLES
  std,     \* the `std` feature of the build: is there a yield_now()?
  spins,   \* Backoff::spins
  spun,    \* spin_loop() hints the call has executed
  last     \* how it passed its last backoff

backoffVars == <<std, spins, spun, last>>

Least(a, b) == IF a < b THEN a ELSE b

\* Backoff::new()
Init ==
  /\ std \in BOOLEAN
  /\ spins = 0
  /\ spun = 0
  /\ last = "none"

\* Yield beyond `threshold` if the build can, and leave the counter alone.
Yield(threshold) ==
  /\ std /\ spins > threshold
  /\ last' = "yield"
  /\ UNCHANGED <<std, spins, spun>>

\* Otherwise 1 << spins.min(threshold) hints; the counter goes up to `limit`.
Burn(threshold, limit) ==
  /\ ~(std /\ spins > threshold)
  /\ last' = "burn"
  /\ spun' = Least(spun + 2 ^ Least(spins, threshold), MaxSpun)
  /\ spins' = IF spins < limit THEN spins + 1 ELSE spins
  /\ UNCHANGED std

\* Mutant of Spin: starts over after a yield.
SpinAfresh ==
  \/ std /\ spins > 6 /\ spins' = 0 /\ last' = "yield" /\ UNCHANGED <<std, spun>>
  \/ Burn(6, 8)

Spin == Yield(6) \/ Burn(6, 8)

\* Mutant of Snooze: the counter stops at the threshold it has to pass.
SnoozeStuck == Yield(8) \/ Burn(8, 8)

Snooze == Yield(8) \/ Burn(8, 10)

Next == Spin \/ Snooze

\* A call that keeps retrying keeps backing off.
Spec == Init /\ [][Next]_backoffVars /\ WF_backoffVars(Next)

-----------------------------------------------------------------------------
(* Properties                                                              *)

\* With `std` a call burns at most 1 + 2 + ... + 256 hints, however long it waits
\* and in whatever order spin() and snooze() come: "exponential spinning; with
\* `std` it yields past a threshold".
BurnsLittle == std => spun <= 511

\* With `std` a call that waits for ever comes to yield at every retry, although
\* neither threshold is the limit of its own counter and spin() and snooze()
\* share one: a thread that waits for a preempted slot owner ends up leaving the
\* processor to it.
YieldsInTheEnd == std ~> [](last = "yield")
=============================================================================
