---------------------------- MODULE QueueProofs ----------------------------
(***************************************************************************)
(* Safety of Queue for every capacity, every number of threads and calls,  *)
(* every set of values and every word size, with and without stale loads.  *)
(***************************************************************************)
EXTENDS QueueInv, TLAPS

-----------------------------------------------------------------------------
(* Facts about positions                                                   *)

\* Two lap counters less than a word's worth of laps apart have equal words only
\* if they are equal.
LEMMA ModDistinct ==
  ASSUME NEW a \in Nat, NEW b \in Nat,
         a - b < Laps, b - a < Laps, a % Laps = b % Laps
  PROVE  a = b
<1>1. Laps \in Nat /\ Laps > 0
  BY LapsAssumption
<1> DEFINE qa == a \div Laps
           qb == b \div Laps
<1>2. qa \in Int /\ qb \in Int /\ a % Laps \in Int
  BY <1>1
<1>3. a = (Laps * qa) + (a % Laps) /\ b = (Laps * qb) + (b % Laps)
  BY <1>1
<1> HIDE DEF qa, qb
<1>4. a - b = Laps * (qa - qb)
  BY <1>1, <1>2, <1>3
<1>5. CASE qa = qb
  BY <1>4, <1>5, <1>2, <1>1
<1>6. CASE qa - qb >= 1
  <2>1. Laps * (qa - qb) >= Laps
    BY <1>6, <1>2, <1>1
  <2> QED BY <2>1, <1>4, <1>1
<1>7. CASE qb - qa >= 1
  <2>1. Laps * (qb - qa) >= Laps
    BY <1>7, <1>2, <1>1
  <2>2. b - a = Laps * (qb - qa)
    BY <1>4, <1>2, <1>1
  <2> QED BY <2>1, <2>2, <1>1
<1> QED BY <1>2, <1>5, <1>6, <1>7

\* `==` on words that are less than a word's worth of laps apart is equality.
LEMMA SameIsEqual ==
  ASSUME NEW p \in Stamp, NEW q \in Stamp,
         p.lap - q.lap < Laps, q.lap - p.lap < Laps, Same(p, q)
  PROVE  p = q
<1>1. p.lap \in Nat /\ q.lap \in Nat
  BY DEF Stamp
<1>2. p.lap % Laps = q.lap % Laps /\ p.idx = q.idx
  BY DEF Same
<1>3. p.lap = q.lap
  BY <1>1, <1>2, ModDistinct
<1> QED BY <1>2, <1>3 DEF Stamp

\* A position has an index below N, so get_unchecked(index) is in bounds.
LEMMA PositionType ==
  ASSUME NEW p \in Position
  PROVE  /\ p \in Stamp /\ p.idx \in Slots /\ p.lap \in Nat
         /\ Succ(p) \in Position
         /\ PlusOne(p) \in Stamp
         /\ AddLap(p) \in Position
         /\ p.lap >= 1 => SubLap(p) \in Position /\ SubLap(Succ(p)) \in Position
BY NAssumption DEF Position, Stamp, Slots, Succ, PlusOne, AddLap, SubLap

\* Moving on by one position changes the next lap of that position's slot only.
LEMMA LapAtSucc ==
  ASSUME NEW p \in Position, NEW i \in Slots
  PROVE  LapAt(Succ(p), i) = IF i = p.idx THEN LapAt(p, i) + 1 ELSE LapAt(p, i)
BY NAssumption DEF LapAt, Succ, Position, Slots

\* Succ is the next position in the order.
LEMMA SuccOrder ==
  ASSUME NEW p \in Position, NEW q \in Position
  PROVE  /\ Leq(p, Succ(p)) /\ p # Succ(p)
         /\ Leq(q, p) => Leq(q, Succ(p))
         /\ Leq(p, q) /\ p # q => Leq(Succ(p), q)
         /\ Leq(Succ(p), q) => Leq(p, q) /\ p # q
         /\ Succ(AddLap(p)) = AddLap(Succ(p))
BY NAssumption DEF Leq, Succ, Position, Slots, AddLap

\* The order is antisymmetric.
LEMMA LeqAntisym ==
  ASSUME NEW p \in Position, NEW q \in Position, Leq(p, q), Leq(q, p)
  PROVE  p = q
<1>1. p.lap = q.lap /\ p.idx = q.idx
  BY NAssumption DEF Leq, Position, Slots
<1> QED BY <1>1 DEF Position

-----------------------------------------------------------------------------
(* The inductive invariant                                                 *)

\* Queue::new() establishes the invariant.
LEMMA InitInd ==
  ASSUME Init
  PROVE  IndInv
<1> USE NAssumption, BoundsAssumption
<1>1. TypeOK
  BY DEF Init, NewQueue, NoCalls, TypeOK, Position, Stamp, Slots, Origin, Answered
<1>2. Window
  BY DEF Init, NewQueue, NoCalls, Window, Leq, AddLap, Origin
<1>3. SlotExclusive
  BY DEF Init, NewQueue, NoCalls, SlotExclusive, Owns, OwnerSteps
<1>4. Unowned
  BY DEF Init, NewQueue, NoCalls, Unowned, FreeSlot, PushLap, PopLap, LapAt, Pair, Origin, Slots
<1>5. ASSUME NEW t \in Threads PROVE OwnerInv(t) /\ LoopInv(t)
  BY DEF Init, NewQueue, NoCalls, OwnerInv, LoopInv, PushSteps
<1>6. Quiet
  BY DEF Init, NewQueue, NoCalls, Quiet
<1> QED BY <1>1, <1>2, <1>3, <1>4, <1>5, <1>6 DEF IndInv

\* A thread in the middle of a call keeps the queue from being dropped.
LEMMA BusyAlive ==
  ASSUME IndInv, NEW t \in Threads, ~AtRest(t)
  PROVE  alive
BY DEF IndInv, Quiet

\* A step that changes no shared memory and neither gains nor gives up a slot.
LEMMA LocalStep ==
  ASSUME IndInv, TypeOK', NEW t \in Threads, NEW next,
         UNCHANGED shared, alive,
         ~Owns(t), next \notin OwnerSteps, Goto(t, next),
         \A u \in Threads \ {t} : pos'[u] = pos[u] /\ val'[u] = val[u],
         LoopInv(t)'
  PROVE  IndInv'
<1>1. UNCHANGED <<head, tail, stamp, value, alive>>
  BY DEF shared
<1>2. ~Owns(t)'
  BY DEF Goto, Owns, IndInv, TypeOK
<1>3. \A u \in Threads \ {t} : pc'[u] = pc[u] /\ Owns(u)' = Owns(u)
  BY DEF Goto, Owns, IndInv, TypeOK
<1>4. Window'
  BY <1>1 DEF IndInv, Window
<1>5. SlotExclusive'
  BY <1>2, <1>3 DEF IndInv, SlotExclusive
<1>6. ASSUME NEW i \in Slots PROVE Owned(i)' = Owned(i)
  BY <1>2, <1>3 DEF Owned
<1>7. Unowned'
  BY <1>1, <1>6 DEF IndInv, Unowned, FreeSlot, FullSlot, PushLap, PopLap
<1>8. ASSUME NEW u \in Threads \ {t} PROVE OwnerInv(u)' /\ LoopInv(u)'
  BY <1>1, <1>3 DEF IndInv, OwnerInv, LoopInv, Pushing, Popping, Evicting, Replacing,
     PushLap, PopLap
<1>9. OwnerInv(t)'
  BY <1>2 DEF OwnerInv, Owns, OwnerSteps
<1>10. Quiet'
  BY <1>1 DEF Quiet
<1> QED BY <1>4, <1>5, <1>7, <1>8, <1>9, <1>10 DEF IndInv

-----------------------------------------------------------------------------
(* The loops up to their compare-and-swap.                                 *)

\* Where the stamps can be, relative to tail: this is why a word must be able to
\* tell four laps apart.
LEMMA StampBounds ==
  ASSUME IndInv, NEW i \in Slots
  PROVE  /\ stamp[i] \in Stamp
         /\ stamp[i].idx \in {i, i + 1}
         /\ tail.lap - 2 <= stamp[i].lap
         /\ stamp[i].lap <= tail.lap + 1
         /\ stamp[i].idx = i + 1 => stamp[i].lap <= tail.lap
<1>1. /\ stamp[i] \in Stamp /\ head \in Position /\ tail \in Position
      /\ pos \in [Threads -> Position]
  BY DEF IndInv, TypeOK
<1>2. head.lap <= tail.lap /\ tail.lap <= head.lap + 1
  BY <1>1 DEF IndInv, Window, Leq, AddLap, Position
<1>3. CASE ~Owned(i)
  <2>1. FreeSlot(i) \/ FullSlot(i)
    BY <1>3 DEF IndInv, Unowned
  <2> QED BY <1>1, <1>2, <2>1 DEF FreeSlot, FullSlot, PushLap, PopLap, LapAt, Pair,
          Position, Slots
<1>4. CASE Owned(i)
  <2>1. PICK t \in Threads : Owns(t) /\ pos[t].idx = i
    BY <1>4 DEF Owned
  <2>2. OwnerInv(t) /\ pos[t] \in Position
    BY <1>1 DEF IndInv
  <2>3. Pushing(t, i) \/ Popping(t, i) \/ Evicting(t, i) \/ Replacing(t, i)
    BY <2>1, <2>2 DEF OwnerInv, Owns, OwnerSteps
  <2> QED BY <1>1, <1>2, <2>1, <2>2, <2>3 DEF Pushing, Popping, Evicting, Replacing,
          PushLap, PopLap, LapAt, Pair, Position, Slots
<1> QED BY <1>3, <1>4

\* A Relaxed load returns a position not ahead of the current one.
LEMMA RelaxedLoad ==
  ASSUME IndInv, NEW cur \in Position, NEW seen \in Position, InReach(cur, tail),
         NEW p \in Relaxed(cur, seen)
  PROVE  p \in Position /\ Leq(p, cur) /\ InReach(p, tail)
BY DEF Relaxed, Position, Leq, Slots

\* An Acquire load returns a stamp not ahead of the current one.
LEMMA AcquireLoad ==
  ASSUME IndInv, NEW i \in Slots, NEW s \in Acquired(i)
  PROVE  /\ s \in Stamp /\ s.idx \in {i, i + 1}
         /\ Leq(s, stamp[i]) /\ InReach(s, tail)
         /\ s.lap <= tail.lap + 1
         /\ s.idx = i + 1 => s.lap <= tail.lap
<1>1. tail \in Position
  BY DEF IndInv, TypeOK
<1> QED BY <1>1, StampBounds, LapsAssumption, NAssumption
        DEF Acquired, Stamp, Position, Leq, InReach, Slots

\* The current positions are in reach of any loop that loads them.
LEMMA CurrentInReach ==
  ASSUME IndInv
  PROVE  /\ head \in Position /\ tail \in Position
         /\ InReach(head, tail) /\ InReach(tail, tail)
<1>1. head \in Position /\ tail \in Position
  BY DEF IndInv, TypeOK
<1> QED BY <1>1, LapsAssumption DEF IndInv, Window, Leq, AddLap, InReach, Position

\* Beginning a call changes nothing but the thread's own locals.
LEMMA BeginInd ==
  ASSUME IndInv, NEW t \in Threads, Begins(t), calls' \in [Threads -> 0 .. MaxCalls]
  PROVE  IndInv'
<1>1. PICK o \in {"push", "force", "pop"}, v \in Values \cup {NoValue},
           first \in {"LoadTail", "LoadHead"} :
        Begin(t, o, v, first) /\ (first = "LoadTail" => v \in Values)
  BY DEF Begins
<1>2. TypeOK
  BY DEF IndInv
<1>3. TypeOK'
  BY <1>1, <1>2 DEF Begin, TypeOK, Goto, shared, PushSteps, PopSteps
<1>4. UNCHANGED shared /\ alive /\ Goto(t, first) /\ ~Owns(t) /\ first \notin OwnerSteps
  BY <1>1 DEF Begin, AtRest, Owns, Answered, OwnerSteps
<1>5. LoopInv(t)'
  BY <1>1, <1>2 DEF Begin, LoopInv, Goto, TypeOK, PushSteps
<1>6. \A u \in Threads \ {t} : pos'[u] = pos[u] /\ val'[u] = val[u]
  BY <1>1, <1>2 DEF Begin, TypeOK
<1> QED BY <1>3, <1>4, <1>5, <1>6, LocalStep

\* A call that is counted begins like any other.
LEMMA CallInd ==
  ASSUME IndInv, NEW t \in Threads, CallPush(t) \/ CallForcePush(t) \/ CallPop(t)
  PROVE  Begins(t) /\ IndInv'
<1>1. Begins(t)
  BY DEF Begins, CallPush, CallForcePush, CallPop, Call
<1>2. calls' \in [Threads -> 0 .. MaxCalls]
  BY BoundsAssumption DEF IndInv, TypeOK, CallPush, CallForcePush, CallPop, Call
<1> QED BY <1>1, <1>2, BeginInd

LEMMA LoadTailInd ==
  ASSUME IndInv, NEW t \in Threads, LoadTail(t) \/ CasTailErr(t)
  PROVE  IndInv'
<1>1. TypeOK /\ val[t] \in Values
  BY DEF IndInv, LoopInv, LoadTail, CasTailErr, PushSteps, Reload
<1>2. PICK p \in Relaxed(tail, pos[t]) : pos' = [pos EXCEPT ![t] = p]
  BY DEF LoadTail, CasTailErr, Reload
<1>3. p \in Position /\ Leq(p, tail) /\ InReach(p, tail)
  BY <1>1, CurrentInReach, RelaxedLoad DEF TypeOK
<1>4. TypeOK'
  BY <1>1, <1>2, <1>3 DEF TypeOK, LoadTail, CasTailErr, Goto, shared, PushSteps, Reload
<1>5. UNCHANGED shared /\ Goto(t, "TailStamp") /\ ~Owns(t) /\ "TailStamp" \notin OwnerSteps
  BY DEF LoadTail, CasTailErr, Owns, OwnerSteps, Reload
<1>6. alive
  BY BusyAlive DEF LoadTail, CasTailErr, AtRest, Answered, Reload
<1>7. LoopInv(t)'
  BY <1>1, <1>2, <1>3, <1>5 DEF LoadTail, CasTailErr, LoopInv, Goto, TypeOK, shared,
     InReach, Reload
<1>8. \A u \in Threads \ {t} : pos'[u] = pos[u] /\ val'[u] = val[u]
  BY <1>1, <1>2 DEF TypeOK, LoadTail, CasTailErr, Reload
<1> QED BY <1>4, <1>5, <1>6, <1>7, <1>8, LocalStep

LEMMA LoadHeadInd ==
  ASSUME IndInv, NEW t \in Threads, LoadHead(t) \/ CasHeadErr(t)
  PROVE  IndInv'
<1>1. TypeOK
  BY DEF IndInv
<1>2. PICK p \in Relaxed(head, pos[t]) : pos' = [pos EXCEPT ![t] = p]
  BY DEF LoadHead, CasHeadErr, Reload
<1>3. p \in Position /\ Leq(p, head) /\ InReach(p, tail)
  BY <1>1, CurrentInReach, RelaxedLoad DEF TypeOK
<1>4. TypeOK'
  BY <1>1, <1>2, <1>3 DEF TypeOK, LoadHead, CasHeadErr, Goto, shared, PopSteps, Reload
<1>5. UNCHANGED shared /\ Goto(t, "HeadStamp") /\ ~Owns(t) /\ "HeadStamp" \notin OwnerSteps
  BY DEF LoadHead, CasHeadErr, Owns, OwnerSteps, Reload
<1>6. alive
  BY BusyAlive DEF LoadHead, CasHeadErr, AtRest, Answered, Reload
<1>7. LoopInv(t)'
  BY <1>1, <1>2, <1>3, <1>5 DEF LoadHead, CasHeadErr, LoopInv, Goto, TypeOK, shared, InReach,
     PushSteps, Reload
<1>8. \A u \in Threads \ {t} : pos'[u] = pos[u] /\ val'[u] = val[u]
  BY <1>1, <1>2 DEF TypeOK, LoadHead, CasHeadErr, Reload
<1> QED BY <1>4, <1>5, <1>6, <1>7, <1>8, LocalStep

LEMMA TailStampInd ==
  ASSUME IndInv, NEW t \in Threads, TailStamp(t)
  PROVE  IndInv'
<1>1. TypeOK /\ val[t] \in Values /\ Leq(pos[t], tail) /\ InReach(pos[t], tail)
  BY DEF IndInv, LoopInv, TailStamp, PushSteps, Retry
<1>2. pos[t] \in Position /\ pos[t].idx \in Slots /\ tail \in Position
  BY <1>1, PositionType DEF TypeOK
<1>3. PICK s \in Acquired(pos[t].idx) :
        \/ Same(pos[t], s) /\ Goto(t, "CasTail")
        \/ Same(AddLap(s), PlusOne(pos[t])) /\ Goto(t, "Full")
        \/ Goto(t, "LoadTail")
  BY DEF TailStamp, Retry
<1>4. /\ s \in Stamp /\ s.idx \in {pos[t].idx, pos[t].idx + 1}
      /\ Leq(s, stamp[pos[t].idx]) /\ InReach(s, tail)
      /\ s.lap <= tail.lap + 1
      /\ s.idx = pos[t].idx + 1 => s.lap <= tail.lap
  BY <1>2, AcquireLoad
<1>5. ASSUME Same(pos[t], s) PROVE s = pos[t]
  <2>1. pos[t].lap - s.lap < Laps /\ s.lap - pos[t].lap < Laps
    BY <1>1, <1>2, <1>4, LapsAssumption DEF Leq, InReach, Position, Stamp
  <2> QED BY <1>2, <1>4, <1>5, <2>1, SameIsEqual, PositionType
<1>6. ASSUME Same(AddLap(s), PlusOne(pos[t])) PROVE AddLap(s) = PlusOne(pos[t])
  <2>1. s.lap <= tail.lap
    BY <1>2, <1>4, <1>6 DEF Same, AddLap, PlusOne, Position, Slots
  <2>2. AddLap(s) \in Stamp
    BY <1>4 DEF AddLap, Stamp
  <2>3. PlusOne(pos[t]) \in Stamp
    BY <1>2, PositionType
  <2>4. /\ AddLap(s).lap - PlusOne(pos[t]).lap < Laps
        /\ PlusOne(pos[t]).lap - AddLap(s).lap < Laps
    BY <1>1, <1>2, <1>4, <2>1, LapsAssumption DEF AddLap, PlusOne, Leq, InReach, Position, Stamp
  <2> QED BY <1>6, <2>2, <2>3, <2>4, SameIsEqual
<1>7. PICK next \in {"CasTail", "Full", "LoadTail"} :
        /\ Goto(t, next)
        /\ next = "CasTail" => s = pos[t]
        /\ next = "Full" => AddLap(s) = PlusOne(pos[t])
  BY <1>3, <1>5, <1>6
<1>8. TypeOK'
  BY <1>1, <1>7 DEF TypeOK, TailStamp, Goto, shared, PushSteps, Retry
<1>9. UNCHANGED shared /\ ~Owns(t) /\ next \notin OwnerSteps
  BY DEF TailStamp, Owns, OwnerSteps, Retry
<1>10. alive
  BY BusyAlive DEF TailStamp, AtRest, Answered, Retry
<1>11. LoopInv(t)'
  <2>1. pc'[t] = next /\ pos' = pos /\ val' = val /\ UNCHANGED <<head, tail, stamp>>
    BY <1>1, <1>7 DEF Goto, TypeOK, TailStamp, shared, Retry
  <2>2. next = "Full" => Leq(PlusOne(pos[t]), AddLap(stamp[pos[t].idx])) /\ pos[t].lap >= 1
    <3>1. stamp[pos[t].idx] \in Stamp
      BY <1>1, <1>2 DEF TypeOK
    <3> QED BY <1>2, <1>4, <1>7, <3>1 DEF AddLap, PlusOne, Leq, Stamp, Position
  <2> QED BY <1>1, <1>4, <1>7, <2>1, <2>2 DEF LoopInv, InReach
<1>12. \A u \in Threads \ {t} : pos'[u] = pos[u] /\ val'[u] = val[u]
  BY DEF TailStamp, Retry
<1> QED BY <1>7, <1>8, <1>9, <1>10, <1>11, <1>12, LocalStep

LEMMA HeadStampInd ==
  ASSUME IndInv, NEW t \in Threads, HeadStamp(t)
  PROVE  IndInv'
<1>1. TypeOK /\ Leq(pos[t], head) /\ InReach(pos[t], tail) /\ Leq(head, tail)
  BY DEF IndInv, LoopInv, HeadStamp, Window, Retry
<1>2. pos[t] \in Position /\ pos[t].idx \in Slots /\ tail \in Position /\ head \in Position
  BY <1>1, PositionType DEF TypeOK
<1>3. PICK s \in Acquired(pos[t].idx) :
        \/ Same(PlusOne(pos[t]), s) /\ Goto(t, "CasHead")
        \/ Same(s, pos[t]) /\ Goto(t, "Empty")
        \/ Goto(t, "LoadHead")
  BY DEF HeadStamp, Retry
<1>4. /\ s \in Stamp /\ s.idx \in {pos[t].idx, pos[t].idx + 1}
      /\ Leq(s, stamp[pos[t].idx]) /\ InReach(s, tail)
      /\ s.lap <= tail.lap + 1
  BY <1>2, AcquireLoad
<1>5. ASSUME Same(PlusOne(pos[t]), s) PROVE s = PlusOne(pos[t])
  <2>1. PlusOne(pos[t]) \in Stamp
    BY <1>2, PositionType
  <2>2. PlusOne(pos[t]).lap - s.lap < Laps /\ s.lap - PlusOne(pos[t]).lap < Laps
    BY <1>1, <1>2, <1>4, LapsAssumption DEF Leq, InReach, Position, Stamp, PlusOne
  <2> QED BY <1>4, <1>5, <2>1, <2>2, SameIsEqual
<1>6. ASSUME Same(s, pos[t]) PROVE s = pos[t]
  <2>1. pos[t].lap - s.lap < Laps /\ s.lap - pos[t].lap < Laps
    BY <1>1, <1>2, <1>4, LapsAssumption DEF Leq, InReach, Position, Stamp
  <2> QED BY <1>2, <1>4, <1>6, <2>1, SameIsEqual, PositionType
<1>7. PICK next \in {"CasHead", "Empty", "LoadHead"} :
        /\ Goto(t, next)
        /\ next = "CasHead" => s = PlusOne(pos[t])
        /\ next = "Empty" => s = pos[t]
  BY <1>3, <1>5, <1>6
<1>8. TypeOK'
  BY <1>1, <1>7 DEF TypeOK, HeadStamp, Goto, shared, PopSteps, Retry
<1>9. UNCHANGED shared /\ ~Owns(t) /\ next \notin OwnerSteps
  BY DEF HeadStamp, Owns, OwnerSteps, Retry
<1>10. alive
  BY BusyAlive DEF HeadStamp, AtRest, Answered, Retry
<1>11. LoopInv(t)'
  <2>1. pc'[t] = next /\ pos' = pos /\ val' = val /\ UNCHANGED <<head, tail, stamp>>
    BY <1>1, <1>7 DEF Goto, TypeOK, HeadStamp, shared, Retry
  <2> QED BY <1>1, <1>4, <1>7, <2>1 DEF LoopInv, InReach, PushSteps
<1>12. \A u \in Threads \ {t} : pos'[u] = pos[u] /\ val'[u] = val[u]
  BY DEF HeadStamp, Retry
<1> QED BY <1>7, <1>8, <1>9, <1>10, <1>11, <1>12, LocalStep

LEMMA GiveUpInd ==
  ASSUME IndInv, NEW t \in Threads, PushFull(t) \/ ForceCasErr(t) \/ Empty(t)
  PROVE  IndInv'
<1>1. TypeOK /\ Origin \in Position
  BY NAssumption DEF IndInv, Position, Origin, Slots
<1>2. PICK next \in {"Err", "None", "LoadTail", "LoadHead"} :
        Goto(t, next) /\ (next = "LoadTail" => pc[t] \in PushSteps)
  BY DEF PushFull, ForceCasErr, Empty, Return, PushSteps, Retry, GiveUp
<1>3. pos' = pos \/ pos' = [pos EXCEPT ![t] = Origin]
  BY DEF PushFull, ForceCasErr, Empty, Return, Retry, GiveUp
<1>4. UNCHANGED <<shared, op, val, calls>>
  BY DEF PushFull, ForceCasErr, Empty, Retry, GiveUp
<1>5. TypeOK'
  BY <1>1, <1>2, <1>3, <1>4 DEF TypeOK, Goto, shared, PopSteps, PushSteps, Answered
<1>6. ~Owns(t) /\ next \notin OwnerSteps
  BY DEF PushFull, ForceCasErr, Empty, Owns, OwnerSteps, Retry, GiveUp
<1>7. alive
  BY BusyAlive DEF PushFull, ForceCasErr, Empty, AtRest, Answered, Retry, GiveUp
<1>8. LoopInv(t)'
  BY <1>1, <1>2, <1>4 DEF IndInv, LoopInv, Goto, TypeOK, PushSteps
<1>9. \A u \in Threads \ {t} : pos'[u] = pos[u] /\ val'[u] = val[u]
  BY <1>1, <1>3, <1>4 DEF TypeOK
<1> QED BY <1>2, <1>4, <1>5, <1>6, <1>7, <1>8, <1>9, LocalStep

-----------------------------------------------------------------------------
(* What the owner of a slot does with it.                                  *)

\* A step of an owner that touches its own slot only, and keeps the slot or
\* leaves it free or full.
LEMMA OwnerStep ==
  ASSUME IndInv, TypeOK', NEW t \in Threads, NEW i \in Slots, NEW next,
         Owns(t), pos[t].idx = i,
         UNCHANGED <<head, tail, alive>>, Goto(t, next),
         \A u \in Threads \ {t} : pos'[u] = pos[u] /\ val'[u] = val[u],
         \A j \in Slots \ {i} : stamp'[j] = stamp[j] /\ value'[j] = value[j],
         Leq(stamp[i], stamp'[i]),
         OwnerInv(t)', LoopInv(t)',
         \/ next \in OwnerSteps /\ pos'[t] = pos[t]
         \/ /\ next \notin OwnerSteps
            /\ FreeSlot(i)' \/ FullSlot(i)'
  PROVE  IndInv'
<1>1. TypeOK /\ stamp[i] \in Stamp /\ stamp'[i] \in Stamp
  BY DEF IndInv, TypeOK
<1>2. \A u \in Threads \ {t} : pc'[u] = pc[u] /\ Owns(u)' = Owns(u)
  BY <1>1 DEF Goto, Owns, TypeOK
<1>3. pc'[t] = next
  BY <1>1 DEF Goto, TypeOK
<1>4. alive
  BY BusyAlive DEF Owns, OwnerSteps, AtRest, Answered
<1>5. \A u \in Threads \ {t} : Owns(u) => pos[u].idx # i
  BY DEF IndInv, SlotExclusive
<1>6. Window' /\ Quiet'
  BY <1>4 DEF IndInv, Window, Quiet
<1>7. SlotExclusive'
  BY <1>2, <1>3, <1>5 DEF IndInv, SlotExclusive, Owns
<1>8. Unowned'
  <2> SUFFICES ASSUME NEW j \in Slots, ~Owned(j)'
               PROVE  FreeSlot(j)' \/ FullSlot(j)'
    BY DEF Unowned
  <2>1. CASE j = i
    <3>1. next \notin OwnerSteps
      BY <1>3, <2>1 DEF Owned, Owns
    <3> QED BY <2>1, <3>1
  <2>2. CASE j # i
    <3>1. ~Owned(j)
      BY <1>2, <2>2 DEF Owned
    <3>2. FreeSlot(j) \/ FullSlot(j)
      BY <3>1 DEF IndInv, Unowned
    <3> QED BY <2>2, <3>2 DEF FreeSlot, FullSlot, PushLap, PopLap
  <2> QED BY <2>1, <2>2
<1>9. ASSUME NEW u \in Threads \ {t} PROVE OwnerInv(u)' /\ LoopInv(u)'
  <2>1. pos[u].idx \in Slots /\ pos[u] \in Position
    BY <1>1, PositionType DEF TypeOK
  <2>2. OwnerInv(u)'
    <3>1. CASE Owns(u)
      <4>1. stamp'[pos[u].idx] = stamp[pos[u].idx] /\ value'[pos[u].idx] = value[pos[u].idx]
        BY <1>5, <2>1, <3>1
      <4>2. OwnerInv(u)
        BY DEF IndInv
      <4> QED BY <1>2, <4>1, <4>2 DEF OwnerInv, Pushing, Popping, Evicting, Replacing,
              PushLap, PopLap
    <3>2. CASE ~Owns(u)
      BY <1>2, <3>2 DEF OwnerInv, Owns, OwnerSteps
    <3> QED BY <3>1, <3>2
  <2>3. LoopInv(u)'
    <3>1. LoopInv(u)
      BY DEF IndInv
    <3>2. /\ stamp[pos[u].idx] \in Stamp /\ stamp'[pos[u].idx] \in Stamp
          /\ Leq(stamp[pos[u].idx], stamp'[pos[u].idx])
      <4>1. stamp[pos[u].idx] \in Stamp /\ stamp'[pos[u].idx] \in Stamp
        BY <1>1, <2>1 DEF TypeOK
      <4> QED BY <2>1, <4>1 DEF Leq, Stamp
    <3>3. ASSUME NEW p \in Stamp
          PROVE  /\ Leq(p, stamp[pos[u].idx]) => Leq(p, stamp'[pos[u].idx])
                 /\ Leq(p, AddLap(stamp[pos[u].idx])) => Leq(p, AddLap(stamp'[pos[u].idx]))
      BY <3>2 DEF Leq, AddLap, Stamp
    <3>4. pos[u] \in Stamp /\ PlusOne(pos[u]) \in Stamp
      BY <2>1, PositionType
    <3> QED BY <1>2, <3>1, <3>3, <3>4 DEF LoopInv, InReach
  <2> QED BY <2>2, <2>3
<1> QED BY <1>6, <1>7, <1>8, <1>9 DEF IndInv

\* write_value, read_value and replace_value.
LEMMA PayloadInd ==
  ASSUME IndInv, NEW t \in Threads, Write(t) \/ Read(t) \/ Replace(t)
  PROVE  IndInv'
<1>0. PICK i \in Slots : pos[t].idx = i
  BY PositionType DEF IndInv, TypeOK
<1>1. TypeOK /\ stamp[i] \in Stamp /\ Owns(t) /\ OwnerInv(t)
  BY DEF IndInv, TypeOK, Write, Read, Replace, Owns, OwnerSteps, Swap
<1>2. UNCHANGED <<head, tail, stamp, alive, op, pos, calls>>
  BY DEF Write, Read, Replace, Swap
<1>3. PICK next \in {"Publish", "Release", "Restamp"}, v \in Values \cup {NoValue},
           w \in Values \cup {NoValue} :
        /\ Goto(t, next)
        /\ value' = [value EXCEPT ![i] = v]
        /\ val' = [val EXCEPT ![t] = w]
  BY <1>0, <1>1 DEF Write, Read, Replace, TypeOK, Swap
<1>4. TypeOK'
  BY <1>1, <1>2, <1>3 DEF TypeOK, Goto, OwnerSteps
<1>5. /\ \A u \in Threads \ {t} : pos'[u] = pos[u] /\ val'[u] = val[u]
      /\ \A j \in Slots \ {i} : stamp'[j] = stamp[j] /\ value'[j] = value[j]
      /\ Leq(stamp[i], stamp'[i])
      /\ next \in OwnerSteps /\ pos'[t] = pos[t]
  BY <1>1, <1>2, <1>3 DEF TypeOK, Leq, Stamp, OwnerSteps
<1>6. LoopInv(t)'
  BY <1>1, <1>3 DEF LoopInv, Goto, TypeOK, PushSteps
<1>7. OwnerInv(t)'
  <2>1. pc'[t] = next /\ value'[i] = v
    BY <1>1, <1>3 DEF Goto, TypeOK
  <2>2. CASE Write(t)
    BY <1>0, <1>1, <1>2, <2>1, <2>2 DEF OwnerInv, Write, Goto, TypeOK, Pushing,
       PushLap, PopLap, Swap
  <2>3. CASE Read(t)
    BY <1>0, <1>1, <1>2, <2>1, <2>3 DEF OwnerInv, Read, Goto, TypeOK, Popping,
       PushLap, PopLap, Swap
  <2>4. CASE Replace(t)
    BY <1>0, <1>1, <1>2, <2>1, <2>4 DEF OwnerInv, Replace, Goto, TypeOK, Replacing,
       PushLap, PopLap, Swap
  <2> QED BY <2>2, <2>3, <2>4
<1> QED BY <1>0, <1>1, <1>2, <1>3, <1>4, <1>5, <1>6, <1>7, OwnerStep

\* The stamp stores that hand a slot on: full to a popper, or free to a pusher.
LEMMA HandOnInd ==
  ASSUME IndInv, NEW t \in Threads, Publish(t) \/ Restamp(t) \/ Release(t)
  PROVE  IndInv'
<1>0. PICK i \in Slots : pos[t].idx = i
  BY PositionType DEF IndInv, TypeOK
<1>1. TypeOK /\ stamp[i] \in Stamp /\ Owns(t) /\ OwnerInv(t)
  BY DEF IndInv, TypeOK, Publish, Restamp, Release, Owns, OwnerSteps, HandOn
<1>2. UNCHANGED <<head, tail, value, alive, op, val, calls>>
  BY DEF Publish, Restamp, Release, HandOn
<1>3. pos[t] \in Position /\ pos[t].lap \in Nat /\ head \in Position /\ tail \in Position
  BY <1>1, PositionType DEF TypeOK
<1>4. PICK next \in {"Ok", "None", "Some"}, s \in {PlusOne(pos[t]), AddLap(pos[t])} :
        /\ Return(t, next)
        /\ stamp' = [stamp EXCEPT ![i] = s]
        /\ Publish(t) \/ Restamp(t) => s = PlusOne(pos[t])
        /\ Release(t) => s = AddLap(pos[t])
  BY <1>0 DEF Publish, Restamp, Release, HandOn
<1>5. s \in Stamp /\ Origin \in Position /\ stamp'[i] = s
  <2>1. s \in Stamp
    BY <1>3, <1>4, PositionType
  <2>2. stamp'[i] = s
    BY <1>1, <1>4 DEF TypeOK
  <2> QED BY <2>1, <2>2, NAssumption DEF Origin, Position, Slots
<1>6. TypeOK'
  BY <1>1, <1>2, <1>4, <1>5 DEF TypeOK, Return, Goto, Answered
<1>7. /\ \A u \in Threads \ {t} : pos'[u] = pos[u] /\ val'[u] = val[u]
      /\ \A j \in Slots \ {i} : stamp'[j] = stamp[j] /\ value'[j] = value[j]
      /\ Goto(t, next) /\ next \notin OwnerSteps
  BY <1>1, <1>2, <1>4 DEF TypeOK, Return, OwnerSteps
<1>8. LoopInv(t)' /\ OwnerInv(t)'
  BY <1>1, <1>7 DEF LoopInv, OwnerInv, Goto, TypeOK, PushSteps
<1>9. /\ Leq(stamp[i], s)
      /\ FreeSlot(i)' \/ FullSlot(i)'
  <2>1. CASE Publish(t)
    <3>1. Pushing(t, i) /\ value[i] \in Values /\ s = PlusOne(pos[t])
      BY <1>0, <1>1, <1>4, <2>1 DEF OwnerInv, Publish, HandOn
    <3> QED BY <1>0, <1>2, <1>3, <1>5, <3>1 DEF Pushing, FullSlot, PushLap, PopLap, Pair, PlusOne,
            Leq, Position, Slots
  <2>2. CASE Restamp(t)
    <3>1. Replacing(t, i) /\ value[i] \in Values /\ s = PlusOne(pos[t])
      BY <1>0, <1>1, <1>4, <2>2 DEF OwnerInv, Restamp, HandOn
    <3> QED BY <1>0, <1>2, <1>3, <1>5, <3>1 DEF Replacing, FullSlot, PushLap, PopLap, Pair, PlusOne,
            Leq, Position, Slots
  <2>3. CASE Release(t)
    <3>1. Popping(t, i) /\ value[i] = NoValue /\ s = AddLap(pos[t])
      BY <1>0, <1>1, <1>4, <2>3 DEF OwnerInv, Release, HandOn
    <3> QED BY <1>0, <1>2, <1>3, <1>5, <3>1 DEF Popping, FreeSlot, PushLap, PopLap, Pair, AddLap,
            Leq, Position
  <2> QED BY <2>1, <2>2, <2>3
<1> QED BY <1>0, <1>1, <1>2, <1>5, <1>6, <1>7, <1>8, <1>9, OwnerStep

-----------------------------------------------------------------------------
(* The steps that move tail or head.                                       *)

\* The stamp of an owned slot lags behind both positions.
LEMMA OwnedStamp ==
  ASSUME IndInv, NEW i \in Slots, Owned(i)
  PROVE  /\ ~Leq(Pair(PushLap(i), i), stamp[i])
         /\ ~Leq(Pair(PopLap(i), i + 1), stamp[i])
<1>1. PICK t \in Threads : Owns(t) /\ pos[t].idx = i
  BY DEF Owned
<1>2. OwnerInv(t) /\ pos[t] \in Position /\ head \in Position /\ tail \in Position
  BY DEF IndInv, TypeOK
<1>3. Pushing(t, i) \/ Popping(t, i) \/ Evicting(t, i) \/ Replacing(t, i)
  BY <1>1, <1>2 DEF OwnerInv, Owns, OwnerSteps
<1> QED BY <1>1, <1>2, <1>3 DEF Pushing, Popping, Evicting, Replacing, PushLap, PopLap,
        LapAt, Pair, Leq, Position, Slots

\* A stamp that has reached tail shows that the slot at tail is free.
LEMMA TailSlotFree ==
  ASSUME IndInv, Leq(tail, stamp[tail.idx])
  PROVE  ~Owned(tail.idx) /\ FreeSlot(tail.idx)
<1>1. PICK i \in Slots : tail.idx = i
  BY DEF IndInv, TypeOK, Position
<1>2. tail \in Position /\ head \in Position
  BY DEF IndInv, TypeOK
<1>3. tail = Pair(PushLap(i), i)
  BY <1>1, <1>2 DEF PushLap, LapAt, Pair, Position, Slots
<1>4. ~Owned(i)
  BY <1>1, <1>3, OwnedStamp
<1>5. ~FullSlot(i)
  BY <1>1, <1>2 DEF FullSlot, PushLap, PopLap, LapAt, Pair, Leq, Position, Slots
<1> QED BY <1>1, <1>4, <1>5 DEF IndInv, Unowned

\* A stamp one past head shows that the slot at head holds a value.
LEMMA HeadSlotFull ==
  ASSUME IndInv, Leq(PlusOne(head), stamp[head.idx])
  PROVE  ~Owned(head.idx) /\ FullSlot(head.idx)
<1>1. PICK i \in Slots : head.idx = i
  BY DEF IndInv, TypeOK, Position
<1>2. tail \in Position /\ head \in Position
  BY DEF IndInv, TypeOK
<1>3. PlusOne(head) = Pair(PopLap(i), i + 1)
  BY <1>1, <1>2 DEF PopLap, LapAt, Pair, PlusOne, Position, Slots
<1>4. ~Owned(i)
  BY <1>1, <1>3, OwnedStamp
<1>5. ~FreeSlot(i)
  BY <1>1, <1>2 DEF FreeSlot, PushLap, PopLap, LapAt, Pair, PlusOne, Leq, Position, Slots
<1> QED BY <1>1, <1>4, <1>5 DEF IndInv, Unowned

\* tail moves on from a slot that is t's alone and counts as free.
LEMMA TailStep ==
  ASSUME IndInv, TypeOK', NEW t \in Threads, NEW next \in OwnerSteps,
         pos[t] = tail, tail' = Succ(tail), Goto(t, next),
         UNCHANGED <<head, stamp, value, alive, pos, val>>,
         NotOvertaken(tail'),
         PopLap(tail.idx) = tail.lap,
         \A u \in Threads \ {t} : Owns(u) => pos[u].idx # tail.idx,
         OwnerInv(t)', alive
  PROVE  IndInv'
<1>1. TypeOK /\ tail \in Position /\ head \in Position
  BY DEF IndInv, TypeOK
<1>2. \A u \in Threads \ {t} : pc'[u] = pc[u] /\ Owns(u)' = Owns(u)
  BY <1>1 DEF Goto, Owns, TypeOK
<1>3. pc'[t] = next /\ Owns(t)'
  BY <1>1 DEF Goto, TypeOK, Owns
<1>4. ASSUME NEW i \in Slots, i # tail.idx PROVE PushLap(i)' = PushLap(i)
  BY <1>1, <1>4, LapAtSucc DEF PushLap
<1>5. Window'
  <2>1. tail # AddLap(head)
    BY <1>1 DEF PopLap, LapAt, AddLap, Position, Slots
  <2>2. AddLap(head) \in Position
    BY <1>1, PositionType
  <2> QED BY <1>1, <2>1, <2>2, SuccOrder DEF IndInv, Window
<1>6. SlotExclusive'
  BY <1>2, <1>3 DEF IndInv, SlotExclusive
<1>7. Unowned'
  <2> SUFFICES ASSUME NEW j \in Slots, ~Owned(j)'
               PROVE  FreeSlot(j)' \/ FullSlot(j)'
    BY DEF Unowned
  <2>1. j # tail.idx
    BY <1>3 DEF Owned
  <2>2. ~Owned(j)
    BY <1>2, <2>1 DEF Owned
  <2>3. FreeSlot(j) \/ FullSlot(j)
    BY <2>2 DEF IndInv, Unowned
  <2> QED BY <1>4, <2>1, <2>3 DEF FreeSlot, FullSlot, PopLap
<1>8. ASSUME NEW u \in Threads \ {t} PROVE OwnerInv(u)' /\ LoopInv(u)'
  <2>1. OwnerInv(u) /\ LoopInv(u) /\ pos[u] \in Position /\ pos[u].idx \in Slots
    BY <1>1, PositionType DEF IndInv, TypeOK
  <2>2. OwnerInv(u)'
    <3>1. CASE Owns(u)
      <4>1. PushLap(pos[u].idx)' = PushLap(pos[u].idx) /\ pos[u].idx # tail.idx
        BY <1>4, <2>1, <3>1
      <4> QED BY <1>2, <2>1, <4>1 DEF OwnerInv, Pushing, Popping, Evicting, Replacing, PopLap
    <3>2. CASE ~Owns(u)
      BY <1>2, <3>2 DEF OwnerInv, Owns, OwnerSteps
    <3> QED BY <3>1, <3>2
  <2>3. LoopInv(u)'
    <3>1. Leq(pos[u], tail) => Leq(pos[u], tail')
      BY <1>1, <2>1, SuccOrder
    <3>2. Holds(u) => InReach(pos[u], tail')
      BY DEF NotOvertaken
    <3> QED BY <1>2, <2>1, <3>1, <3>2 DEF LoopInv, Holds, InReach
  <2> QED BY <2>2, <2>3
<1>9. LoopInv(t)'
  BY <1>3 DEF LoopInv, OwnerSteps, PushSteps
<1>10. Quiet'
  BY DEF Quiet
<1> QED BY <1>5, <1>6, <1>7, <1>8, <1>9, <1>10 DEF IndInv

\* head moves on from a full slot, which becomes t's.
LEMMA HeadStep ==
  ASSUME IndInv, TypeOK', NEW t \in Threads, NEW next \in OwnerSteps,
         ~Owns(t), pos[t].idx = head.idx, head' = Succ(head), Goto(t, next),
         UNCHANGED <<tail, stamp, value, alive, pos, val>>,
         ~Owned(head.idx), FullSlot(head.idx),
         OwnerInv(t)', alive
  PROVE  IndInv'
<1>1. TypeOK /\ tail \in Position /\ head \in Position
  BY DEF IndInv, TypeOK
<1>2. \A u \in Threads \ {t} : pc'[u] = pc[u] /\ Owns(u)' = Owns(u)
  BY <1>1 DEF Goto, Owns, TypeOK
<1>3. pc'[t] = next /\ Owns(t)'
  BY <1>1 DEF Goto, TypeOK, Owns
<1>4. ASSUME NEW i \in Slots, i # head.idx PROVE PopLap(i)' = PopLap(i)
  BY <1>1, <1>4, LapAtSucc DEF PopLap
<1>5. Window'
  <2>1. tail # head
    BY <1>1 DEF FullSlot, PushLap, PopLap, LapAt, Position
  <2>2. AddLap(head) \in Position /\ Succ(AddLap(head)) = AddLap(Succ(head))
    BY <1>1, PositionType, SuccOrder
  <2> QED BY <1>1, <2>1, <2>2, SuccOrder DEF IndInv, Window
<1>6. SlotExclusive'
  BY <1>2, <1>3 DEF IndInv, SlotExclusive, Owned
<1>7. Unowned'
  <2> SUFFICES ASSUME NEW j \in Slots, ~Owned(j)'
               PROVE  FreeSlot(j)' \/ FullSlot(j)'
    BY DEF Unowned
  <2>1. j # head.idx
    BY <1>3 DEF Owned
  <2>2. ~Owned(j)
    BY <1>2 DEF Owned
  <2>3. FreeSlot(j) \/ FullSlot(j)
    BY <2>2 DEF IndInv, Unowned
  <2> QED BY <1>4, <2>1, <2>3 DEF FreeSlot, FullSlot, PushLap
<1>8. ASSUME NEW u \in Threads \ {t} PROVE OwnerInv(u)' /\ LoopInv(u)'
  <2>1. OwnerInv(u) /\ LoopInv(u) /\ pos[u] \in Position /\ pos[u].idx \in Slots
    BY <1>1, PositionType DEF IndInv, TypeOK
  <2>2. OwnerInv(u)'
    <3>1. CASE Owns(u)
      <4>1. PopLap(pos[u].idx)' = PopLap(pos[u].idx)
        BY <1>4, <2>1, <3>1 DEF Owned
      <4> QED BY <1>2, <2>1, <4>1 DEF OwnerInv, Pushing, Popping, Evicting, Replacing, PushLap
    <3>2. CASE ~Owns(u)
      BY <1>2, <3>2 DEF OwnerInv, Owns, OwnerSteps
    <3> QED BY <3>1, <3>2
  <2>3. LoopInv(u)'
    <3>1. Leq(pos[u], head) => Leq(pos[u], head')
      BY <1>1, <2>1, SuccOrder
    <3> QED BY <1>2, <2>1, <3>1 DEF LoopInv, InReach
  <2> QED BY <2>2, <2>3
<1>9. LoopInv(t)'
  BY <1>3 DEF LoopInv, OwnerSteps, PushSteps
<1>10. Quiet'
  BY DEF Quiet
<1> QED BY <1>5, <1>6, <1>7, <1>8, <1>9, <1>10 DEF IndInv

LEMMA CasTailOkInd ==
  ASSUME IndInv, NEW t \in Threads, CasTailOk(t)
  PROVE  IndInv' /\ tail' = Succ(tail)
<1>1. /\ TypeOK /\ val[t] \in Values
      /\ Leq(pos[t], tail) /\ InReach(pos[t], tail)
      /\ Leq(pos[t], stamp[pos[t].idx])
  BY DEF IndInv, LoopInv, CasTailOk, PushSteps, MoveTail
<1>2. pos[t] \in Position /\ tail \in Position /\ head \in Position
  BY <1>1 DEF TypeOK
<1>3. pos[t] = tail
  <2>1. tail.lap - pos[t].lap < Laps /\ pos[t].lap - tail.lap < Laps
    BY <1>1, <1>2, LapsAssumption DEF Leq, InReach, Position
  <2>2. Same(tail, pos[t])
    BY DEF CasTailOk, MoveTail
  <2> QED BY <1>2, <2>1, <2>2, SameIsEqual, PositionType
<1>4. ~Owned(tail.idx) /\ FreeSlot(tail.idx)
  BY <1>1, <1>3, TailSlotFree
<1>5. tail' = Succ(tail) /\ Goto(t, "Write") /\ NotOvertaken(tail')
  BY <1>3 DEF CasTailOk, MoveTail
<1>6. UNCHANGED <<head, stamp, value, alive, pos, val>>
  BY DEF CasTailOk, MoveTail
<1>7. TypeOK'
  <2>1. Succ(tail) \in Position
    BY <1>2, PositionType
  <2> QED BY <1>1, <1>5, <2>1 DEF TypeOK, CasTailOk, Goto, OwnerSteps, MoveTail
<1>8. alive
  BY BusyAlive DEF CasTailOk, AtRest, Answered, MoveTail
<1>9. PopLap(tail.idx) = tail.lap
  BY <1>2, <1>4 DEF FreeSlot, PushLap, LapAt, Position, Slots
<1>10. OwnerInv(t)'
  <2>1. PICK i \in Slots : tail.idx = i
    BY <1>2 DEF Position
  <2>2. PushLap(i)' = PushLap(i) + 1 /\ PushLap(i) = PopLap(i) /\ PopLap(i)' = PopLap(i)
    BY <1>2, <1>4, <1>5, <1>6, <2>1, LapAtSucc DEF FreeSlot, PushLap, PopLap
  <2>3. stamp[i] = tail /\ tail = Pair(PopLap(i), i) /\ value[i] = NoValue
    BY <1>2, <1>4, <1>8, <1>9, <2>1 DEF FreeSlot, PushLap, LapAt, Pair, Position, Slots
  <2>4. pc'[t] = "Write"
    BY <1>1, <1>5 DEF Goto, TypeOK
  <2> QED BY <1>1, <1>3, <1>6, <2>1, <2>2, <2>3, <2>4 DEF OwnerInv, Pushing
<1>11. \A u \in Threads \ {t} : Owns(u) => pos[u].idx # tail.idx
  BY <1>4 DEF Owned
<1>12. "Write" \in OwnerSteps
  BY DEF OwnerSteps
<1> QED BY <1>3, <1>5, <1>6, <1>7, <1>8, <1>9, <1>10, <1>11, <1>12, TailStep

\* The unconditional store is safe: nobody else can have moved tail.
LEMMA StoreTailInd ==
  ASSUME IndInv, NEW t \in Threads, StoreTail(t)
  PROVE  IndInv' /\ tail' = Succ(tail)
<1>1. TypeOK /\ OwnerInv(t) /\ Owns(t)
  BY DEF IndInv, StoreTail, Owns, OwnerSteps, MoveTail
<1>2. pos[t] \in Position /\ tail \in Position /\ head \in Position
  BY <1>1 DEF TypeOK
<1>3. /\ pos[t] = tail /\ Evicting(t, tail.idx)
      /\ value[tail.idx] \in Values /\ val[t] \in Values
  BY <1>1 DEF OwnerInv, StoreTail, Evicting, MoveTail
<1>4. tail' = Succ(tail) /\ Goto(t, "Replace") /\ NotOvertaken(tail')
  BY <1>3 DEF StoreTail, MoveTail
<1>5. UNCHANGED <<head, stamp, value, alive, pos, val>>
  BY DEF StoreTail, MoveTail
<1>6. TypeOK'
  <2>1. Succ(tail) \in Position
    BY <1>2, PositionType
  <2> QED BY <1>1, <1>4, <2>1 DEF TypeOK, StoreTail, Goto, OwnerSteps, MoveTail
<1>7. alive
  BY BusyAlive DEF StoreTail, AtRest, Answered, MoveTail
<1>8. PopLap(tail.idx) = tail.lap
  BY <1>3 DEF Evicting
<1>9. OwnerInv(t)'
  <2>1. PICK i \in Slots : tail.idx = i
    BY <1>2 DEF Position
  <2>2. PushLap(i)' = PushLap(i) + 1 /\ PushLap(i) = tail.lap /\ PopLap(i)' = PopLap(i)
    BY <1>2, <1>4, <1>5, <2>1, LapAtSucc DEF PushLap, PopLap, LapAt, Position, Slots
  <2>3. tail = Pair(PopLap(i), i)
    BY <1>2, <1>8, <2>1 DEF Pair, Position
  <2>4. pc'[t] = "Replace"
    BY <1>1, <1>4 DEF Goto, TypeOK
  <2> QED BY <1>3, <1>5, <1>8, <2>1, <2>2, <2>3, <2>4 DEF OwnerInv, Evicting, Replacing
<1>10. \A u \in Threads \ {t} : Owns(u) => pos[u].idx # tail.idx
  BY <1>1, <1>3 DEF IndInv, SlotExclusive
<1>11. "Replace" \in OwnerSteps
  BY DEF OwnerSteps
<1> QED BY <1>3, <1>4, <1>5, <1>6, <1>7, <1>8, <1>9, <1>10, <1>11, TailStep

LEMMA CasHeadOkInd ==
  ASSUME IndInv, NEW t \in Threads, CasHeadOk(t)
  PROVE  IndInv' /\ head' = Succ(head)
<1>1. /\ TypeOK /\ Leq(pos[t], head) /\ InReach(pos[t], tail) /\ Leq(head, tail)
      /\ Leq(PlusOne(pos[t]), stamp[pos[t].idx])
  BY DEF IndInv, LoopInv, CasHeadOk, Window, MoveHead
<1>2. pos[t] \in Position /\ tail \in Position /\ head \in Position
  BY <1>1 DEF TypeOK
<1>3. pos[t] = head
  <2>1. head.lap - pos[t].lap < Laps /\ pos[t].lap - head.lap < Laps
    BY <1>1, <1>2, LapsAssumption DEF Leq, InReach, Position
  <2>2. Same(head, pos[t])
    BY DEF CasHeadOk, MoveHead
  <2> QED BY <1>2, <2>1, <2>2, SameIsEqual, PositionType
<1>4. ~Owned(head.idx) /\ FullSlot(head.idx)
  BY <1>1, <1>3, HeadSlotFull
<1>5. head' = Succ(head) /\ Goto(t, "Read") /\ ~Owns(t) /\ "Read" \in OwnerSteps
  BY <1>3 DEF CasHeadOk, Owns, OwnerSteps, MoveHead
<1>6. UNCHANGED <<tail, stamp, value, alive, pos, val>>
  BY DEF CasHeadOk, MoveHead
<1>7. TypeOK'
  <2>1. Succ(head) \in Position
    BY <1>2, PositionType
  <2> QED BY <1>1, <1>5, <2>1 DEF TypeOK, CasHeadOk, Goto, OwnerSteps, MoveHead
<1>8. alive
  BY BusyAlive DEF CasHeadOk, AtRest, Answered, MoveHead
<1>9. OwnerInv(t)'
  <2>1. PICK i \in Slots : head.idx = i
    BY <1>2 DEF Position
  <2>2. PopLap(i)' = PopLap(i) + 1 /\ PushLap(i) = PopLap(i) + 1 /\ PushLap(i)' = PushLap(i)
    BY <1>2, <1>4, <1>5, <1>6, <2>1, LapAtSucc DEF FullSlot, PushLap, PopLap
  <2>3. PopLap(i) = head.lap
    BY <1>2, <2>1 DEF PopLap, LapAt, Position, Slots
  <2>4. stamp[i] = Pair(head.lap, i + 1) /\ value[i] \in Values
    BY <1>4, <1>8, <2>1, <2>3 DEF FullSlot
  <2>5. pc'[t] = "Read"
    BY <1>1, <1>5 DEF Goto, TypeOK
  <2> QED BY <1>3, <1>6, <2>1, <2>2, <2>3, <2>4, <2>5 DEF OwnerInv, Popping
<1> QED BY <1>3, <1>4, <1>5, <1>6, <1>7, <1>8, <1>9, HeadStep

LEMMA ForceCasOkInd ==
  ASSUME IndInv, NEW t \in Threads, ForceCasOk(t)
  PROVE  IndInv' /\ head' = Succ(head)
<1>1. /\ TypeOK /\ Window /\ val[t] \in Values
      /\ Leq(pos[t], tail) /\ InReach(pos[t], tail) /\ pos[t].lap >= 1
      /\ Leq(PlusOne(pos[t]), AddLap(stamp[pos[t].idx]))
  BY DEF IndInv, LoopInv, ForceCasOk, PushSteps, MoveHead
<1>2. /\ pos[t] \in Position /\ pos[t].idx \in Slots /\ tail \in Position /\ head \in Position
      /\ SubLap(pos[t]) \in Position
  BY <1>1, PositionType DEF TypeOK
<1>3. head = SubLap(pos[t])
  <2>1. /\ head.lap - SubLap(pos[t]).lap < Laps
        /\ SubLap(pos[t]).lap - head.lap < Laps
    BY <1>1, <1>2, LapsAssumption DEF Window, Leq, InReach, Position, SubLap, AddLap
  <2>2. Same(head, SubLap(pos[t]))
    BY DEF ForceCasOk, MoveHead
  <2> QED BY <1>2, <2>1, <2>2, SameIsEqual, PositionType
<1>4. pos[t] = tail /\ head.idx = tail.idx /\ head.lap = tail.lap - 1 /\ tail.lap >= 1
  BY <1>1, <1>2, <1>3 DEF Window, Leq, AddLap, SubLap, Position, Slots
<1>5. ~Owned(head.idx) /\ FullSlot(head.idx)
  <2>1. stamp[pos[t].idx] \in Stamp
    BY <1>1, <1>2 DEF TypeOK
  <2>2. Leq(PlusOne(head), stamp[head.idx])
    BY <1>1, <1>2, <1>3, <2>1 DEF Leq, PlusOne, AddLap, SubLap, Position, Stamp
  <2> QED BY <2>2, HeadSlotFull
<1>6. head' = Succ(head)
  BY <1>2, <1>3 DEF ForceCasOk, SubLap, Succ, Position, MoveHead
<1>7. Goto(t, "StoreTail") /\ ~Owns(t) /\ "StoreTail" \in OwnerSteps
  BY DEF ForceCasOk, Owns, OwnerSteps, MoveHead
<1>8. UNCHANGED <<tail, stamp, value, alive, pos, val>>
  BY DEF ForceCasOk, MoveHead
<1>9. TypeOK'
  <2>1. Succ(head) \in Position
    BY <1>2, PositionType
  <2> QED BY <1>1, <1>6, <1>7, <2>1 DEF TypeOK, ForceCasOk, Goto, OwnerSteps, MoveHead
<1>10. alive
  BY BusyAlive DEF ForceCasOk, AtRest, Answered, MoveHead
<1>11. OwnerInv(t)'
  <2>1. PICK i \in Slots : tail.idx = i
    BY <1>2 DEF Position
  <2>2. PopLap(i)' = PopLap(i) + 1 /\ PopLap(i) = head.lap
    BY <1>2, <1>4, <1>6, <2>1, LapAtSucc DEF PopLap, LapAt, Position, Slots
  <2>3. stamp[i] = Pair(tail.lap - 1, i + 1) /\ value[i] \in Values
    BY <1>4, <1>5, <1>10, <2>1, <2>2 DEF FullSlot
  <2>4. PopLap(i)' = tail.lap
    BY <1>2, <1>4, <2>2 DEF Position
  <2>5. pc'[t] = "StoreTail"
    BY <1>1, <1>7 DEF Goto, TypeOK
  <2> QED BY <1>1, <1>4, <1>8, <2>1, <2>3, <2>4, <2>5 DEF OwnerInv, Evicting
<1> QED BY <1>4, <1>5, <1>6, <1>7, <1>8, <1>9, <1>10, <1>11, HeadStep

\* drop(&mut self) runs when nobody else is using the queue.
LEMMA DropInd ==
  ASSUME IndInv, Drop
  PROVE  IndInv'
<1>1. /\ UNCHANGED <<head, tail, stamp, pc, op, pos, val, calls>>
      /\ \A t \in Threads : AtRest(t)
      /\ alive' = FALSE
  BY DEF Drop, local
<1>2. TypeOK'
  BY <1>1 DEF IndInv, TypeOK, Drop
<1>3. Window' /\ SlotExclusive' /\ Quiet'
  BY <1>1 DEF IndInv, Window, SlotExclusive, Owns, Quiet, AtRest
<1>4. Unowned'
  BY <1>1 DEF IndInv, Unowned, Owned, Owns, FreeSlot, FullSlot, PushLap, PopLap
<1>5. ASSUME NEW t \in Threads PROVE OwnerInv(t)' /\ LoopInv(t)'
  BY <1>1 DEF OwnerInv, LoopInv, AtRest, Answered, PushSteps
<1> QED BY <1>2, <1>3, <1>4, <1>5 DEF IndInv

-----------------------------------------------------------------------------
(* Theorems                                                                *)

\* Every step preserves the invariant, and moves head and tail only to the next
\* position.
LEMMA NextInd ==
  ASSUME IndInv, [Next]_vars
  PROVE  /\ IndInv'
         /\ head' = head \/ head' = Succ(head)
         /\ tail' = tail \/ tail' = Succ(tail)
<1>1. CASE UNCHANGED vars
  <2>1. UNCHANGED <<head, tail, stamp, value, alive, pc, op, pos, val, calls>>
    BY <1>1 DEF vars, shared, local
  <2>2. TypeOK' /\ Window' /\ SlotExclusive' /\ Quiet'
    BY <2>1 DEF IndInv, TypeOK, Window, SlotExclusive, Owns, Quiet, AtRest
  <2>3. Unowned'
    BY <2>1 DEF IndInv, Unowned, Owned, Owns, FreeSlot, FullSlot, PushLap, PopLap
  <2>4. ASSUME NEW t \in Threads PROVE OwnerInv(t)' /\ LoopInv(t)'
    BY <2>1 DEF IndInv, OwnerInv, LoopInv, Pushing, Popping, Evicting, Replacing,
       PushLap, PopLap, InReach
  <2> QED BY <2>1, <2>2, <2>3, <2>4 DEF IndInv
<1>2. CASE Drop
  <2>1. UNCHANGED <<head, tail>>
    BY <1>2 DEF Drop
  <2> QED BY <1>2, <2>1, DropInd
<1>3. ASSUME NEW t \in Threads, CallPush(t) \/ CallForcePush(t) \/ CallPop(t)
      PROVE  IndInv' /\ UNCHANGED <<head, tail>>
  <2>1. UNCHANGED <<head, tail>>
    BY <1>3 DEF CallPush, CallForcePush, CallPop, Call, Begin, shared
  <2> QED BY <1>3, <2>1, CallInd
<1>4. ASSUME NEW t \in Threads,
             \/ LoadTail(t) \/ CasTailErr(t) \/ TailStamp(t) \/ PushFull(t) \/ ForceCasErr(t)
             \/ LoadHead(t) \/ CasHeadErr(t) \/ HeadStamp(t) \/ Empty(t)
      PROVE  IndInv' /\ UNCHANGED <<head, tail>>
  <2>1. UNCHANGED <<head, tail>>
    BY <1>4 DEF LoadTail, CasTailErr, TailStamp, PushFull, ForceCasErr, LoadHead, CasHeadErr,
       HeadStamp, Empty, shared, Reload, Retry, GiveUp
  <2> QED BY <1>4, <2>1, LoadTailInd, LoadHeadInd, TailStampInd, HeadStampInd, GiveUpInd
<1>5. ASSUME NEW t \in Threads,
             Write(t) \/ Read(t) \/ Replace(t) \/ Publish(t) \/ Restamp(t) \/ Release(t)
      PROVE  IndInv' /\ UNCHANGED <<head, tail>>
  <2>1. UNCHANGED <<head, tail>>
    BY <1>5 DEF Write, Read, Replace, Publish, Restamp, Release, Swap, HandOn
  <2> QED BY <1>5, <2>1, PayloadInd, HandOnInd
<1>6. ASSUME NEW t \in Threads, CasTailOk(t) \/ StoreTail(t)
      PROVE  IndInv' /\ head' = head /\ tail' = Succ(tail)
  <2>1. UNCHANGED head
    BY <1>6 DEF CasTailOk, StoreTail, MoveTail
  <2> QED BY <1>6, <2>1, CasTailOkInd, StoreTailInd
<1>7. ASSUME NEW t \in Threads, CasHeadOk(t) \/ ForceCasOk(t)
      PROVE  IndInv' /\ tail' = tail /\ head' = Succ(head)
  <2>1. UNCHANGED tail
    BY <1>7 DEF CasHeadOk, ForceCasOk, MoveHead
  <2> QED BY <1>7, <2>1, CasHeadOkInd, ForceCasOkInd
<1> QED BY <1>1, <1>2, <1>3, <1>4, <1>5, <1>6, <1>7 DEF Next, Step, Push, ForcePush, Pop

\* IndInv holds in every state, for every capacity, number of threads and word
\* size: the stamps of src/lib.rs always tell who may use a slot.
THEOREM Inductive == Spec => []IndInv
<1>1. Init => IndInv
  BY InitInd
<1>2. IndInv /\ [Next]_vars => IndInv'
  BY NextInd
<1> QED BY <1>1, <1>2, PTL DEF Spec

\* Every variable keeps its type; in particular `head.wrapping_sub(one_lap)` of
\* force_push never reaches below lap 0.
THEOREM TypeCorrect == Spec => []TypeOK
<1>1. IndInv => TypeOK
  BY DEF IndInv
<1> QED BY <1>1, Inductive, PTL

\* No slot ever has two owners: write_value, read_value and replace_value of
\* src/lib.rs never race.
THEOREM Exclusive == Spec => []SlotExclusive
<1>1. IndInv => SlotExclusive
  BY DEF IndInv
<1> QED BY <1>1, Inductive, PTL

\* assume_init() is only applied to live values, and write_value only to dead
\* ones: no double read, no leak.
THEOREM Live == Spec => []ValuesLive
<1>1. IndInv => ValuesLive
  <2> SUFFICES ASSUME IndInv, NEW t \in Threads
               PROVE  /\ pc[t] \in {"Read", "StoreTail", "Replace"} => value[pos[t].idx] # NoValue
                      /\ pc[t] = "Write" => value[pos[t].idx] = NoValue
    BY DEF ValuesLive
  <2>1. OwnerInv(t)
    BY DEF IndInv
  <2> QED BY <2>1, ValuesAssumption DEF OwnerInv
<1> QED BY <1>1, Inductive, PTL

\* The length that drop() and len() compute from two words is the number of
\* positions between them; equal words are equal positions.
LEMMA LenOfIs ==
  IndInv =>
    /\ Distance(head, tail) \in 0 .. N
    /\ LenOf(head, tail) = Distance(head, tail)
    /\ Distance(head, tail) = 0 <=> tail = head
    /\ Distance(head, tail) = N <=> tail = AddLap(head)
    /\ Same(tail, head) <=> tail = head
    /\ Same(AddLap(head), tail) <=> tail = AddLap(head)
<1> SUFFICES ASSUME IndInv
             PROVE  /\ Distance(head, tail) \in 0 .. N
                    /\ LenOf(head, tail) = Distance(head, tail)
                    /\ Distance(head, tail) = 0 <=> tail = head
                    /\ Distance(head, tail) = N <=> tail = AddLap(head)
                    /\ Same(tail, head) <=> tail = head
                    /\ Same(AddLap(head), tail) <=> tail = AddLap(head)
  OBVIOUS
<1>1. head \in Position /\ tail \in Position /\ Window
  BY DEF IndInv, TypeOK
<1>2. /\ head.idx \in 0 .. (N - 1) /\ tail.idx \in 0 .. (N - 1)
      /\ head.lap \in Nat /\ tail.lap \in Nat /\ N \in Nat /\ N > 0
  BY <1>1, NAssumption DEF Position, Slots
<1>3. \/ tail.lap = head.lap /\ head.idx <= tail.idx
      \/ tail.lap = head.lap + 1 /\ tail.idx <= head.idx
  BY <1>1, <1>2 DEF Window, Leq, AddLap
<1>4. Same(tail, head) <=> tail.lap = head.lap /\ tail.idx = head.idx
  BY <1>2, <1>3, LapsAssumption, ModDistinct DEF Same
<1>5. Same(AddLap(head), tail) <=> tail.lap = head.lap + 1 /\ tail.idx = head.idx
  BY <1>2, <1>3, LapsAssumption, ModDistinct DEF Same, AddLap
<1>6. /\ tail = head <=> tail.lap = head.lap /\ tail.idx = head.idx
      /\ tail = AddLap(head) <=> tail.lap = head.lap + 1 /\ tail.idx = head.idx
  BY <1>1 DEF Position, AddLap
<1> DEFINE d == Distance(head, tail)
<1>7. d = IF tail.lap = head.lap THEN tail.idx - head.idx ELSE N + tail.idx - head.idx
  BY <1>2, <1>3 DEF Distance
<1> HIDE DEF d
<1>8. d \in 0 .. N /\ LenOf(head, tail) = d
  BY <1>2, <1>3, <1>4, <1>6, <1>7 DEF LenOf
<1>9. (d = 0 <=> tail = head) /\ (d = N <=> tail = AddLap(head))
  BY <1>2, <1>3, <1>6, <1>7
<1> QED BY <1>4, <1>5, <1>6, <1>8, <1>9 DEF d

\* The slots drop() visits are the taken ones.
LEMMA DropSlotsTaken ==
  ASSUME IndInv, NEW i
  PROVE  i \in DropSlots <=> i \in Slots /\ PushLap(i) = PopLap(i) + 1
<1> DEFINE h == head.idx
           t == tail.idx
           l == LenOf(head, tail)
<1>1. head \in Position /\ tail \in Position /\ Window
  BY DEF IndInv, TypeOK
<1>2. h \in 0 .. (N - 1) /\ t \in 0 .. (N - 1) /\ head.lap \in Nat /\ tail.lap \in Nat /\ N \in Nat
  BY <1>1, NAssumption DEF Position, Slots
<1>3. \/ tail.lap = head.lap /\ h <= t
      \/ tail.lap = head.lap + 1 /\ t <= h
  BY <1>1, <1>2 DEF Window, Leq, AddLap
<1>4. Same(tail, head) => tail.lap = head.lap
  BY <1>2, <1>3, LapsAssumption, ModDistinct DEF Same
<1>5. tail.lap = head.lap /\ h = t => Same(tail, head)
  BY DEF Same
<1>6. l = IF tail.lap = head.lap THEN t - h ELSE N - h + t
  BY <1>2, <1>3, <1>4, <1>5 DEF LenOf
<1>7. i \in DropSlots <=>
        \E k \in 0 .. (l - 1) : i = IF h + k < N THEN h + k ELSE h + k - N
  BY DEF DropSlots, DropIndex
<1>8. ASSUME i \in Slots PROVE PushLap(i) = PopLap(i) + 1 <=>
        IF tail.lap = head.lap THEN h <= i /\ i < t ELSE h <= i \/ i < t
  BY <1>2, <1>3, <1>8 DEF PushLap, PopLap, LapAt, Slots
<1> HIDE DEF h, t, l
<1>9. ASSUME NEW k \in 0 .. (l - 1), i = IF h + k < N THEN h + k ELSE h + k - N
      PROVE  i \in Slots /\ IF tail.lap = head.lap THEN h <= i /\ i < t ELSE h <= i \/ i < t
  BY <1>2, <1>3, <1>6, <1>9 DEF Slots
<1>10. ASSUME i \in Slots, IF tail.lap = head.lap THEN h <= i /\ i < t ELSE h <= i \/ i < t
       PROVE  \E k \in 0 .. (l - 1) : i = IF h + k < N THEN h + k ELSE h + k - N
  <2> DEFINE k == IF h <= i THEN i - h ELSE i - h + N
  <2>1. k \in 0 .. (l - 1) /\ i = IF h + k < N THEN h + k ELSE h + k - N
    BY <1>2, <1>3, <1>6, <1>10 DEF Slots
  <2> QED BY <2>1
<1> QED BY <1>7, <1>8, <1>9, <1>10

\* drop() drops every value stored and nothing else, wherever the positions
\* stand in their lap and however often they have wrapped.
THEOREM DropsExactly == Spec => []DropExact
<1>1. IndInv => DropExact
  <2> SUFFICES ASSUME IndInv, alive, \A t \in Threads : AtRest(t)
               PROVE  DropSlots = {i \in Slots : value[i] # NoValue}
    BY DEF DropExact
  <2>1. ASSUME NEW i \in Slots PROVE PushLap(i) = PopLap(i) + 1 <=> value[i] # NoValue
    <3>1. ~Owned(i)
      BY DEF Owned, Owns, AtRest, OwnerSteps, Answered
    <3>2. FreeSlot(i) \/ FullSlot(i)
      BY <3>1 DEF IndInv, Unowned
    <3>3. PopLap(i) \in Nat
      BY DEF IndInv, TypeOK, PopLap, LapAt, Position
    <3> QED BY <3>2, <3>3, ValuesAssumption DEF FreeSlot, FullSlot
  <2> QED BY <2>1, DropSlotsTaken
<1> QED BY <1>1, Inductive, PTL

\* head and tail advance one position at a time, never cross, and never move
\* more than a lap apart, although force_push stores tail unconditionally.
THEOREM Advances == Spec => PositionsAdvance
<1>1. ASSUME IndInv, [Next]_vars
      PROVE  [/\ head' # head => head' = Succ(head)
              /\ tail' # tail => tail' = Succ(tail)
              /\ Leq(head', tail') /\ Leq(tail', AddLap(head'))]_<<head, tail>>
  <2>1. IndInv' /\ (head' = head \/ head' = Succ(head)) /\ (tail' = tail \/ tail' = Succ(tail))
    BY <1>1, NextInd
  <2> QED BY <2>1 DEF IndInv, Window
<1> QED BY <1>1, Inductive, PTL DEF Spec, PositionsAdvance

\* A stamp store moves the stamp of the owner's slot forward: from free to full, from
\* full to free a lap on, or, after an eviction, from full to full a lap on.
LEMMA HandOnGrows ==
  ASSUME IndInv, NEW t \in Threads, Publish(t) \/ Restamp(t) \/ Release(t), NEW i \in Slots
  PROVE  Leq(stamp[i], stamp'[i]) /\ Leq(stamp'[i], AddLap(stamp[i]))
<1> DEFINE k == pos[t].idx
<1>1. /\ stamp \in [Slots -> Stamp] /\ pos[t] \in Position /\ k \in Slots
      /\ pos[t].lap \in Nat /\ k \in Nat
      /\ stamp[i].lap \in Nat /\ stamp[i].idx \in Nat
  <2>1. stamp \in [Slots -> Stamp] /\ pos[t] \in Position
    BY DEF IndInv, TypeOK
  <2>2. stamp[i] \in Stamp /\ k \in Slots /\ pos[t].lap \in Nat
    BY <2>1 DEF Position
  <2> QED BY <2>1, <2>2, NAssumption DEF Slots, Stamp
<1>2. CASE i # k
  <2>1. stamp'[i] = stamp[i]
    BY <1>1, <1>2 DEF Publish, Restamp, Release, HandOn
  <2> QED BY <2>1, <1>1 DEF Leq, AddLap
<1>3. CASE i = k
  <2>1. CASE Publish(t)
    <3>1. stamp[k] = pos[t] /\ stamp'[k] = PlusOne(pos[t])
      BY <2>1, <1>1 DEF Publish, HandOn, IndInv, OwnerInv, Pushing
    <3> QED BY <3>1, <1>1, <1>3 DEF Leq, AddLap, PlusOne
  <2>2. CASE Restamp(t)
    <3>1. stamp[k] = Pair(pos[t].lap - 1, k + 1) /\ stamp'[k] = PlusOne(pos[t])
      BY <2>2, <1>1 DEF Restamp, HandOn, IndInv, OwnerInv, Replacing
    <3> QED BY <3>1, <1>1, <1>3 DEF Leq, AddLap, PlusOne, Pair
  <2>3. CASE Release(t)
    <3>1. stamp[k] = Pair(pos[t].lap, k + 1) /\ stamp'[k] = AddLap(pos[t])
      BY <2>3, <1>1 DEF Release, HandOn, IndInv, OwnerInv, Popping
    <3> QED BY <3>1, <1>1, <1>3 DEF Leq, AddLap, Pair
  <2> QED BY <2>1, <2>2, <2>3
<1> QED BY <1>2, <1>3

\* Stamps only grow, by at most a lap at a time: what a loop of push or pop has read
\* of a slot stays a lower bound, however long ago it was.
THEOREM StampsGrow == Spec => StampsAdvance
<1>1. ASSUME IndInv, [Next]_vars
      PROVE  [\A i \in Slots : Leq(stamp[i], stamp'[i])
                                 /\ Leq(stamp'[i], AddLap(stamp[i]))]_stamp
  <2>1. ASSUME NEW t \in Threads, Publish(t) \/ Restamp(t) \/ Release(t)
        PROVE  \A i \in Slots : Leq(stamp[i], stamp'[i]) /\ Leq(stamp'[i], AddLap(stamp[i]))
    BY <1>1, <2>1, HandOnGrows
  <2>2. CASE UNCHANGED vars \/ Drop
    BY <2>2 DEF vars, shared, Drop
  <2>3. ASSUME NEW t \in Threads, CallPush(t) \/ CallForcePush(t) \/ CallPop(t)
        PROVE  UNCHANGED stamp
    BY <2>3 DEF CallPush, CallForcePush, CallPop, Call, Begin, shared
  <2>4. ASSUME NEW t \in Threads,
               \/ LoadTail(t) \/ CasTailErr(t) \/ TailStamp(t) \/ PushFull(t) \/ ForceCasErr(t)
               \/ LoadHead(t) \/ CasHeadErr(t) \/ HeadStamp(t) \/ Empty(t)
        PROVE  UNCHANGED stamp
    BY <2>4 DEF LoadTail, CasTailErr, TailStamp, PushFull, ForceCasErr, LoadHead, CasHeadErr,
       HeadStamp, Empty, shared, Reload, Retry, GiveUp
  <2>5. ASSUME NEW t \in Threads,
               \/ Write(t) \/ Read(t) \/ Replace(t) \/ CasTailOk(t) \/ StoreTail(t)
               \/ CasHeadOk(t) \/ ForceCasOk(t)
        PROVE  UNCHANGED stamp
    BY <2>5 DEF Write, Read, Replace, Swap, CasTailOk, StoreTail, MoveTail, CasHeadOk,
       ForceCasOk, MoveHead
  <2> QED BY <1>1, <2>1, <2>2, <2>3, <2>4, <2>5 DEF Next, Step, Push, ForcePush, Pop
<1> QED BY <1>1, Inductive, PTL DEF Spec, StampsAdvance

\* The slot at tail and the slot at head, when nobody owns them, are free or full, and
\* head and tail agree with that.
LEMMA StampSettles ==
  ASSUME IndInv
  PROVE  /\ ~Owned(tail.idx) => \/ stamp[tail.idx] = tail
                                \/ /\ AddLap(stamp[tail.idx]) = PlusOne(tail)
                                   /\ AddLap(head) = tail
         /\ ~Owned(head.idx) => \/ stamp[head.idx] = PlusOne(head)
                                \/ stamp[head.idx] = head /\ tail = head
<1>1. /\ head \in Position /\ tail \in Position /\ head.idx \in Slots /\ tail.idx \in Slots
      /\ Leq(head, tail) /\ Leq(tail, AddLap(head))
  BY DEF IndInv, TypeOK, Position, Window
<1>2. \A i \in Slots : ~Owned(i) => FreeSlot(i) \/ FullSlot(i)
  BY DEF IndInv, Unowned
<1>3. PushLap(tail.idx) = tail.lap /\ PopLap(head.idx) = head.lap
  BY <1>1 DEF PushLap, PopLap, LapAt, Position, Slots
<1>4. ASSUME ~Owned(tail.idx), FullSlot(tail.idx)
      PROVE  AddLap(stamp[tail.idx]) = PlusOne(tail) /\ AddLap(head) = tail
  <2>1. PopLap(tail.idx) = tail.lap - 1 /\ stamp[tail.idx] = Pair(tail.lap - 1, tail.idx + 1)
    BY <1>1, <1>3, <1>4 DEF FullSlot, PopLap, LapAt, Position, Slots
  <2>2. head.lap = tail.lap - 1 /\ head.idx = tail.idx
    BY <1>1, <2>1, NAssumption DEF PopLap, LapAt, Leq, AddLap, Position, Slots
  <2> QED BY <1>1, <2>1, <2>2 DEF AddLap, PlusOne, Pair, Position
<1>5. ASSUME ~Owned(tail.idx), FreeSlot(tail.idx) PROVE stamp[tail.idx] = tail
  BY <1>1, <1>3, <1>5 DEF FreeSlot, Pair, Position
<1>6. ASSUME ~Owned(head.idx), FullSlot(head.idx) PROVE stamp[head.idx] = PlusOne(head)
  BY <1>1, <1>3, <1>6 DEF FullSlot, Pair, PlusOne
<1>7. ASSUME ~Owned(head.idx), FreeSlot(head.idx)
      PROVE  stamp[head.idx] = head /\ tail = head
  <2>1. PushLap(head.idx) = head.lap /\ stamp[head.idx] = Pair(head.lap, head.idx)
    BY <1>3, <1>7 DEF FreeSlot
  <2>2. head.lap = tail.lap /\ head.idx = tail.idx
    BY <1>1, <2>1, NAssumption DEF PushLap, LapAt, Leq, AddLap, Position, Slots
  <2> QED BY <1>1, <2>1, <2>2 DEF Pair, Position
<1> QED BY <1>1, <1>2, <1>4, <1>5, <1>6, <1>7

\* A push or a pop that has loaded the current position of a slot nobody owns does not
\* retry: only owners of a slot keep the loops of src/lib.rs going.
THEOREM OnlyOwnersDelay == Spec => []NoIdleWait
<1>1. IndInv => NoIdleWait
  <2> SUFFICES ASSUME IndInv PROVE NoIdleWait
    OBVIOUS
  <2> QED BY StampSettles DEF NoIdleWait, Same, Owned
<1> QED BY <1>1, Inductive, PTL
=============================================================================
