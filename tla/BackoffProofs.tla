--------------------------- MODULE BackoffProofs ---------------------------
(***************************************************************************)
(* What a call of push or pop can burn while it waits, however long.       *)
(***************************************************************************)
EXTENDS Backoff, TLAPS

\* With `std`, the hints executed so far are paid for by the counter: 1 + 2 + ...
\* up to the last power, and the counter stops at 9, beyond both thresholds.
SpunInv ==
  /\ std \in BOOLEAN /\ spins \in Nat /\ spun \in Nat
  /\ std => spins \in 0 .. 9 /\ spun <= 2 ^ spins - 1

\* The powers that 1 << spins can come to below the thresholds.
LEMMA Powers ==
  /\ 2 ^ 0 = 1 /\ 2 ^ 1 = 2 /\ 2 ^ 2 = 4 /\ 2 ^ 3 = 8 /\ 2 ^ 4 = 16 /\ 2 ^ 5 = 32
  /\ 2 ^ 6 = 64 /\ 2 ^ 7 = 128 /\ 2 ^ 8 = 256 /\ 2 ^ 9 = 512
OBVIOUS

\* While 1 << spins hints are executed, the counter is below its limit: both go up.
LEMMA PowerSucc ==
  ASSUME NEW k \in 0 .. 8
  PROVE  2 ^ k \in Nat /\ 2 ^ (k + 1) = 2 ^ k + 2 ^ k
<1>1. CASE k = 0 BY <1>1, Powers
<1>2. CASE k = 1 BY <1>2, Powers
<1>3. CASE k = 2 BY <1>3, Powers
<1>4. CASE k = 3 BY <1>4, Powers
<1>5. CASE k = 4 BY <1>5, Powers
<1>6. CASE k = 5 BY <1>6, Powers
<1>7. CASE k = 6 BY <1>7, Powers
<1>8. CASE k = 7 BY <1>8, Powers
<1>9. CASE k = 8 BY <1>9, Powers
<1> QED BY <1>1, <1>2, <1>3, <1>4, <1>5, <1>6, <1>7, <1>8, <1>9

\* spin() and snooze() burn within the budget of the counter.
LEMMA BurnInd ==
  ASSUME SpunInv, NEW threshold \in 0 .. 8, NEW limit \in Nat, limit > threshold,
         Burn(threshold, limit)
  PROVE  SpunInv'
<1>1. UNCHANGED std /\ spins' \in Nat
  BY DEF Burn, SpunInv
<1> DEFINE k == Least(spins, threshold)
<1>2. k \in 0 .. 8
  BY DEF Least, SpunInv
<1>3. 2 ^ k \in Nat
  BY <1>2, PowerSucc
<1>4. spun' \in Nat /\ spun' <= spun + 2 ^ k
  BY <1>3, MaxSpunAssumption DEF Burn, SpunInv, Least
<1>5. ASSUME std PROVE spins' \in 0 .. 9 /\ spun' <= 2 ^ spins' - 1
  <2>1. k = spins /\ spins' = spins + 1 /\ spins \in 0 .. 8
    BY <1>5 DEF Burn, SpunInv, Least
  <2>2. 2 ^ (spins + 1) = 2 ^ spins + 2 ^ spins
    BY <2>1, PowerSucc
  <2>3. spun <= 2 ^ spins - 1 /\ spun \in Nat
    BY <1>5 DEF SpunInv
  <2> HIDE DEF k
  <2> QED BY <1>3, <1>4, <2>1, <2>2, <2>3
<1> QED BY <1>1, <1>4, <1>5 DEF SpunInv

\* With `std` one call burns at most 511 hints in all, in whatever order spin() and
\* snooze() come and however long it waits.
THEOREM Burns == Spec => []BurnsLittle
<1>1. Init => SpunInv
  BY Powers DEF Init, SpunInv
<1>2. SpunInv /\ [Next]_backoffVars => SpunInv'
  <2> SUFFICES ASSUME SpunInv, [Next]_backoffVars PROVE SpunInv'
    OBVIOUS
  <2>1. CASE Burn(6, 8)
    BY <2>1, BurnInd
  <2>2. CASE Burn(8, 10)
    BY <2>2, BurnInd
  <2>3. CASE Yield(6) \/ Yield(8) \/ UNCHANGED backoffVars
    BY <2>3 DEF Yield, SpunInv, backoffVars
  <2> QED BY <2>1, <2>2, <2>3 DEF Next, Spin, Snooze
<1>3. SpunInv => BurnsLittle
  <2> SUFFICES ASSUME SpunInv, std PROVE spun <= 511
    BY DEF BurnsLittle
  <2>1. spins \in 0 .. 9 /\ spun \in Nat /\ spun <= 2 ^ spins - 1
    BY DEF SpunInv
  <2>2. 2 ^ spins \in Nat /\ 2 ^ spins <= 512
    <3>1. CASE spins = 0 BY <3>1, Powers
    <3>2. CASE spins = 1 BY <3>2, Powers
    <3>3. CASE spins = 2 BY <3>3, Powers
    <3>4. CASE spins = 3 BY <3>4, Powers
    <3>5. CASE spins = 4 BY <3>5, Powers
    <3>6. CASE spins = 5 BY <3>6, Powers
    <3>7. CASE spins = 6 BY <3>7, Powers
    <3>8. CASE spins = 7 BY <3>8, Powers
    <3>9. CASE spins = 8 BY <3>9, Powers
    <3>10. CASE spins = 9 BY <3>10, Powers
    <3> QED BY <2>1, <3>1, <3>2, <3>3, <3>4, <3>5, <3>6, <3>7, <3>8, <3>9, <3>10
  <2> QED BY <2>1, <2>2
<1> QED BY <1>1, <1>2, <1>3, PTL DEF Spec
=============================================================================
