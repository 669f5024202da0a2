-------------------------- MODULE ObserversProofs --------------------------
(***************************************************************************)
(* What len, is_empty and is_full answer, for every capacity, every number *)
(* of threads and watchers and every word size.                            *)
(***************************************************************************)
EXTENDS Observers, QueueProofs

WatchSteps == {"LenTail", "LenHead", "LenCheck", "EmptyHead", "EmptyTail", "FullTail", "FullHead"}

Replies == [op : {"none", "len", "is_empty", "is_full"}, len : Int, flag : BOOLEAN]

WatchType ==
  /\ wpc \in [Watchers -> WatchSteps \cup {"Rest"}]
  /\ wtail \in [Watchers -> Position]
  /\ whead \in [Watchers -> Position]
  /\ ans \in [Watchers -> Replies]
  /\ seen \in [Watchers -> SUBSET Int]

\* The loaded positions are not ahead of the shared ones, and not a word behind.
\* What the second load will find was true at some instant of the call, or is
\* true now: a length was seen that refutes the other answer, or nothing has moved.
WatchInv(w) ==
  /\ wpc[w] # "Rest" => Length \in seen[w]
  /\ wpc[w] \in {"LenHead", "LenCheck", "FullHead"} =>
       Leq(wtail[w], tail) /\ InReach(wtail[w], tail)
  /\ wpc[w] = "EmptyTail" => Leq(whead[w], head) /\ InReach(whead[w], tail)
  /\ wpc[w] = "LenCheck" => tail # wtail[w] \/ LenOf(whead[w], wtail[w]) \in seen[w]
  /\ wpc[w] = "EmptyTail" => tail = whead[w] \/ \E n \in seen[w] : n # 0
  /\ wpc[w] = "FullHead" => AddLap(head) = wtail[w] \/ \E n \in seen[w] : n # N

\* The answer of watcher w was true at one instant of its call.
Truthful(w) ==
  CASE ans[w].op = "none" -> TRUE
    [] ans[w].op = "len" -> ans[w].len \in seen[w]
    [] ans[w].op = "is_empty" -> \E n \in seen[w] : ans[w].flag <=> n = 0
    [] ans[w].op = "is_full" -> \E n \in seen[w] : ans[w].flag <=> n = N

\* The inductive invariant of the watchers.
WatchedInv ==
  /\ WatchType
  /\ \A w \in Watchers : WatchInv(w) /\ (wpc[w] = "Rest" => Truthful(w))

-----------------------------------------------------------------------------
\* The length from the two positions, and its extremes.
LEMMA LengthIs ==
  IndInv =>
    /\ Length \in 0 .. N
    /\ LenOf(head, tail) = Length
    /\ Length = 0 <=> tail = head
    /\ Length = N <=> tail = AddLap(head)
BY LenOfIs DEF Length

\* Nothing of the watchers changes, and neither do the positions.
LEMMA WatchUnmoved ==
  ASSUME WatchedInv, UNCHANGED <<head, tail, watch>>
  PROVE  WatchedInv'
BY DEF WatchedInv, WatchType, WatchInv, Truthful, watch, Length, Distance, InReach, Leq, AddLap

\* A step of the queue's threads: what a watcher has loaded stays behind, and a
\* length that it has not seen is recorded.
LEMMA QueueStepWatched ==
  ASSUME IndInv, IndInv', WatchedInv, QueueStep,
         head' = head \/ head' = Succ(head), tail' = tail \/ tail' = Succ(tail),
         head' = head \/ tail' = tail
  PROVE  WatchedInv'
<1>1. /\ head \in Position /\ tail \in Position
      /\ wtail \in [Watchers -> Position] /\ whead \in [Watchers -> Position]
      /\ UNCHANGED <<wpc, wtail, whead, ans>>
  BY DEF IndInv, TypeOK, WatchedInv, WatchType, QueueStep
<1>2. /\ Length \in 0 .. N
      /\ Length = 0 <=> tail = head
      /\ Length = N <=> tail = AddLap(head)
  BY LengthIs
<1>3. /\ (Length \in 0 .. N)'
      /\ (Length = 0 <=> tail = head)'
      /\ (Length = N <=> tail = AddLap(head))'
  BY LengthIs, PTL
<1>4. ASSUME NEW w \in Watchers
      PROVE  seen'[w] = IF wpc[w] = "Rest" THEN seen[w] ELSE seen[w] \cup {Length'}
  BY DEF QueueStep
<1>5. seen' \in [Watchers -> SUBSET Int]
  <2>1. Length' \in Int
    BY <1>3, NAssumption
  <2> HIDE DEF Length
  <2> QED BY <2>1 DEF QueueStep, WatchedInv, WatchType
<1>6. WatchType'
  BY <1>1, <1>5 DEF WatchedInv, WatchType
<1>7. ASSUME NEW w \in Watchers PROVE WatchInv(w)'
  <2>1. /\ WatchInv(w) /\ wtail[w] \in Position /\ whead[w] \in Position
        /\ wpc'[w] = wpc[w] /\ wtail'[w] = wtail[w] /\ whead'[w] = whead[w]
    BY <1>1 DEF WatchedInv
  <2>2. wpc[w] # "Rest" => Length' \in seen'[w] /\ seen[w] \subseteq seen'[w]
    BY <1>4
  <2>3. /\ wpc[w] \in {"LenHead", "LenCheck", "FullHead"} =>
             Leq(wtail[w], tail') /\ InReach(wtail[w], tail')
        /\ wpc[w] = "EmptyTail" => Leq(whead[w], head') /\ InReach(whead[w], tail')
    <3>1. Leq(wtail[w], tail) => Leq(wtail[w], tail')
      BY <1>1, <2>1, SuccOrder
    <3>2. Leq(whead[w], head) => Leq(whead[w], head')
      BY <1>1, <2>1, SuccOrder
    <3> QED BY <2>1, <3>1, <3>2 DEF QueueStep, WatchInv
  <2>4. ASSUME wpc[w] = "LenCheck"
        PROVE  tail' # wtail[w] \/ LenOf(whead[w], wtail[w]) \in seen'[w]
    <3>1. tail # wtail[w] => tail' # wtail[w]
      <4>1. Leq(wtail[w], tail)
        BY <2>1, <2>4 DEF WatchInv
      <4>2. ASSUME tail' = wtail[w], tail' = Succ(tail) PROVE FALSE
        BY <1>1, <2>1, <4>1, <4>2, SuccOrder DEF Leq, Succ, Position, Slots
      <4> QED BY <4>2
    <3> QED BY <2>1, <2>2, <2>4, <3>1 DEF WatchInv
  <2>5. ASSUME wpc[w] = "EmptyTail"
        PROVE  tail' = whead[w] \/ \E n \in seen'[w] : n # 0
    <3>1. CASE tail = whead[w]
      <4>1. head = tail
        <5>1. Leq(whead[w], head) /\ Leq(head, tail)
          BY <2>1, <2>5 DEF WatchInv, IndInv, Window
        <5> QED BY <1>1, <3>1, <5>1 DEF Leq, Position, Slots
      <4>2. CASE tail' = tail
        BY <3>1, <4>2
      <4>3. CASE tail' # tail
        <5>1. tail' # head'
          BY <4>1, <4>3
        <5>2. Length' # 0
          BY <1>3, <5>1
        <5> QED BY <2>2, <2>5, <5>2
      <4> QED BY <4>2, <4>3
    <3>2. CASE \E n \in seen[w] : n # 0
      BY <2>2, <2>5, <3>2
    <3> QED BY <2>1, <2>5, <3>1, <3>2 DEF WatchInv
  <2>6. ASSUME wpc[w] = "FullHead"
        PROVE  AddLap(head') = wtail[w] \/ \E n \in seen'[w] : n # N
    <3>1. CASE AddLap(head) = wtail[w]
      <4>1. tail = AddLap(head)
        <5>1. Leq(wtail[w], tail) /\ Leq(tail, wtail[w])
          BY <2>1, <2>6, <3>1 DEF WatchInv, IndInv, Window
        <5>2. tail = wtail[w]
          BY <1>1, <2>1, <5>1, LeqAntisym
        <5> QED BY <3>1, <5>2
      <4>2. CASE head' = head
        BY <3>1, <4>2
      <4>3. CASE head' # head
        <5>1. tail' = AddLap(head)
          BY <4>1, <4>3
        <5>2. AddLap(head') # AddLap(head)
          BY <1>1, <4>3, SuccOrder, PositionType DEF AddLap, Position
        <5>3. Length' # N
          BY <1>3, <5>1, <5>2
        <5> QED BY <2>2, <2>6, <5>3
      <4> QED BY <4>2, <4>3
    <3>2. CASE \E n \in seen[w] : n # N
      BY <2>2, <2>6, <3>2
    <3> QED BY <2>1, <2>6, <3>1, <3>2 DEF WatchInv
  <2>7. /\ LenOf(whead[w], wtail[w])' = LenOf(whead[w], wtail[w])
        /\ AddLap(head)' = AddLap(head')
    BY <2>1 DEF LenOf, Same, AddLap
  <2> QED BY <2>1, <2>2, <2>3, <2>4, <2>5, <2>6, <2>7 DEF WatchInv, InReach, Leq
<1>8. ASSUME NEW w \in Watchers, wpc'[w] = "Rest" PROVE Truthful(w)'
  BY <1>1, <1>4, <1>8 DEF WatchedInv, Truthful
<1> QED BY <1>6, <1>7, <1>8 DEF WatchedInv

\* No step moves both positions.
LEMMA OneMoves ==
  ASSUME NEW t \in Threads, CallPush(t) \/ CallForcePush(t) \/ CallPop(t) \/ Step(t)
  PROVE  head' = head \/ tail' = tail
<1>1. CASE CallPush(t) \/ CallForcePush(t) \/ CallPop(t)
  BY <1>1 DEF CallPush, CallForcePush, CallPop, Call, Begin, shared
<1>2. CASE \/ LoadTail(t) \/ TailStamp(t) \/ CasTailErr(t) \/ PushFull(t) \/ ForceCasErr(t)
           \/ LoadHead(t) \/ HeadStamp(t) \/ CasHeadErr(t) \/ Empty(t)
  BY <1>2 DEF LoadTail, TailStamp, CasTailErr, PushFull, ForceCasErr, LoadHead, HeadStamp,
     CasHeadErr, Empty, Reload, Retry, GiveUp, shared
<1>3. CASE \/ CasTailOk(t) \/ Write(t) \/ Publish(t) \/ ForceCasOk(t) \/ StoreTail(t) \/ Replace(t)
           \/ Restamp(t) \/ CasHeadOk(t) \/ Read(t) \/ Release(t)
  BY <1>3 DEF CasTailOk, Write, Publish, ForceCasOk, StoreTail, Replace, Restamp, CasHeadOk, Read,
     Release, MoveTail, MoveHead, Swap, HandOn
<1> QED BY <1>1, <1>2, <1>3 DEF Step, Push, ForcePush, Pop

\* A step of a watcher, given what it does to that watcher.
LEMMA WatcherStep ==
  ASSUME IndInv, WatchedInv, NEW w \in Watchers, UNCHANGED <<head, tail>>, WatchType',
         \A x \in Watchers \ {w} :
           /\ wpc'[x] = wpc[x] /\ wtail'[x] = wtail[x] /\ whead'[x] = whead[x]
           /\ ans'[x] = ans[x] /\ seen'[x] = seen[x],
         WatchInv(w)', wpc'[w] = "Rest" => Truthful(w)'
  PROVE  WatchedInv'
<1>1. ASSUME NEW x \in Watchers \ {w}
      PROVE  WatchInv(x)' /\ (wpc'[x] = "Rest" => Truthful(x)')
  <2>1. /\ Length' = Length /\ LenOf(whead[x], wtail[x])' = LenOf(whead[x], wtail[x])
        /\ AddLap(head)' = AddLap(head)
        /\ Leq(wtail[x], tail)' = Leq(wtail[x], tail) /\ Leq(whead[x], head)' = Leq(whead[x], head)
        /\ InReach(wtail[x], tail)' = InReach(wtail[x], tail)
        /\ InReach(whead[x], tail)' = InReach(whead[x], tail)
    BY DEF Length, LenOf, Same, Distance, InReach, Leq, AddLap
  <2>2. WatchInv(x) /\ (wpc[x] = "Rest" => Truthful(x))
    BY DEF WatchedInv
  <2>3. WatchInv(x)'
    BY <2>1, <2>2 DEF WatchInv
  <2>4. wpc'[x] = "Rest" => Truthful(x)'
    BY <2>2 DEF Truthful
  <2> QED BY <2>3, <2>4
<1> QED BY <1>1 DEF WatchedInv

\* The call begins, and the first loads.
LEMMA LoadsWatched ==
  ASSUME IndInv, WatchedInv, NEW w \in Watchers,
         Look(w) \/ EmptyHead(w) \/ FullTail(w) \/ LenTail(w) \/ LenHead(w)
  PROVE  WatchedInv'
<1>1. /\ WatchType /\ WatchInv(w) /\ head \in Position /\ tail \in Position /\ Window
      /\ UNCHANGED <<head, tail>>
  BY DEF IndInv, TypeOK, WatchedInv, Look, EmptyHead, FullTail, LenTail, LenHead, TakeHead, TakeTail,
     vars, shared
<1>2. /\ Length \in 0 .. N /\ LenOf(head, tail) = Length
      /\ Length = 0 <=> tail = head
      /\ Length = N <=> tail = AddLap(head)
  BY LengthIs
<1>3. InReach(head, tail) /\ InReach(tail, tail) /\ Leq(head, head) /\ Leq(tail, tail)
  BY <1>1, CurrentInReach DEF Leq, Position, Slots
<1>4. Length' = Length
  BY <1>1 DEF Length, Distance
<1>5. CASE Look(w)
  <2>1. /\ wpc'[w] \in {"LenTail", "EmptyHead", "FullTail"} /\ seen'[w] = {Length}
        /\ seen' = [seen EXCEPT ![w] = {Length}] /\ wpc' \in [Watchers -> WatchSteps \cup {"Rest"}]
        /\ UNCHANGED <<wtail, whead, ans>>
        /\ \A x \in Watchers \ {w} : wpc'[x] = wpc[x] /\ seen'[x] = seen[x]
    BY <1>1, <1>5 DEF Look, WGoto, WatchType, WatchSteps
  <2>2. WatchType'
    BY <1>1, <1>2, <2>1, NAssumption DEF WatchType
  <2>3. WatchInv(w)' /\ wpc'[w] # "Rest"
    BY <1>4, <2>1 DEF WatchInv
  <2> QED BY <1>1, <2>1, <2>2, <2>3, WatcherStep
<1>6. CASE EmptyHead(w)
  <2>1. /\ wpc'[w] = "EmptyTail" /\ whead'[w] = head /\ wpc[w] # "Rest"
        /\ UNCHANGED <<wtail, ans, seen>>
        /\ \A x \in Watchers \ {w} : wpc'[x] = wpc[x] /\ whead'[x] = whead[x]
    BY <1>1, <1>6 DEF EmptyHead, TakeHead, WGoto, WatchType
  <2>2. WatchType'
    BY <1>1, <1>6 DEF EmptyHead, TakeHead, WGoto, WatchType, WatchSteps
  <2>3. WatchInv(w)'
    BY <1>1, <1>2, <1>3, <1>4, <2>1 DEF WatchInv, InReach, Leq
  <2> QED BY <1>1, <2>1, <2>2, <2>3, WatcherStep
<1>7. CASE FullTail(w)
  <2>1. /\ wpc'[w] = "FullHead" /\ wtail'[w] = tail /\ wpc[w] # "Rest"
        /\ UNCHANGED <<whead, ans, seen>>
        /\ \A x \in Watchers \ {w} : wpc'[x] = wpc[x] /\ wtail'[x] = wtail[x]
    BY <1>1, <1>7 DEF FullTail, TakeTail, WGoto, WatchType
  <2>2. WatchType'
    BY <1>1, <1>7 DEF FullTail, TakeTail, WGoto, WatchType, WatchSteps
  <2>3. WatchInv(w)'
    BY <1>1, <1>2, <1>3, <1>4, <2>1 DEF WatchInv, InReach, Leq, AddLap
  <2> QED BY <1>1, <2>1, <2>2, <2>3, WatcherStep
<1>8. CASE LenTail(w)
  <2>1. /\ wpc'[w] = "LenHead" /\ wtail'[w] = tail /\ wpc[w] # "Rest"
        /\ UNCHANGED <<whead, ans, seen>>
        /\ \A x \in Watchers \ {w} : wpc'[x] = wpc[x] /\ wtail'[x] = wtail[x]
    BY <1>1, <1>8 DEF LenTail, TakeTail, WGoto, WatchType
  <2>2. WatchType'
    BY <1>1, <1>8 DEF LenTail, TakeTail, WGoto, WatchType, WatchSteps
  <2>3. WatchInv(w)'
    BY <1>1, <1>3, <1>4, <2>1 DEF WatchInv, InReach, Leq
  <2> QED BY <1>1, <2>1, <2>2, <2>3, WatcherStep
<1>9. CASE LenHead(w)
  <2>1. /\ wpc[w] = "LenHead" /\ wpc'[w] = "LenCheck" /\ whead'[w] = head
        /\ UNCHANGED <<wtail, ans, seen>>
        /\ \A x \in Watchers \ {w} : wpc'[x] = wpc[x] /\ whead'[x] = whead[x]
    BY <1>1, <1>9 DEF LenHead, TakeHead, WGoto, WatchType
  <2>2. WatchType'
    BY <1>1, <1>9 DEF LenHead, TakeHead, WGoto, WatchType, WatchSteps
  <2>3. tail # wtail[w] \/ LenOf(head, wtail[w]) \in seen[w]
    BY <1>1, <1>2, <2>1 DEF WatchInv
  <2>4. LenOf(whead[w], wtail[w])' = LenOf(head, wtail[w])
    BY <2>1 DEF LenOf, Same
  <2>5. WatchInv(w)'
    BY <1>1, <1>4, <2>1, <2>3, <2>4 DEF WatchInv, InReach, Leq
  <2> QED BY <1>1, <2>1, <2>2, <2>5, WatcherStep
<1> QED BY <1>5, <1>6, <1>7, <1>8, <1>9

\* The last load: what it finds was true at some instant of the call.
LEMMA RepliesWatched ==
  ASSUME IndInv, WatchedInv, NEW w \in Watchers, EmptyTail(w) \/ FullHead(w) \/ LenCheck(w)
  PROVE  WatchedInv'
<1>1. /\ WatchType /\ WatchInv(w) /\ head \in Position /\ tail \in Position /\ Window
      /\ UNCHANGED <<head, tail>> /\ wtail[w] \in Position /\ whead[w] \in Position
      /\ ans[w] \in Replies /\ AddLap(head) \in Position
  BY PositionType DEF IndInv, TypeOK, WatchedInv, WatchType, EmptyTail, FullHead, LenCheck, Flag,
     Reply, vars, shared
<1>2. /\ Length \in 0 .. N /\ LenOf(head, tail) = Length
      /\ Length = 0 <=> tail = head
      /\ Length = N <=> tail = AddLap(head)
  BY LengthIs
<1>3. ASSUME NEW answer \in Replies, Reply(w, answer)
      PROVE  /\ WatchType' /\ WatchInv(w)'
             /\ ans'[w] = answer /\ seen' = seen /\ wpc'[w] = "Rest"
             /\ \A x \in Watchers \ {w} :
                  /\ wpc'[x] = wpc[x] /\ wtail'[x] = wtail[x] /\ whead'[x] = whead[x]
                  /\ ans'[x] = ans[x] /\ seen'[x] = seen[x]
  <2>1. Origin \in Position
    BY NAssumption DEF Origin, Position, Slots
  <2>2. wpc'[w] = "Rest"
    BY <1>1, <1>3 DEF Reply, WGoto, WatchType
  <2>3. WatchInv(w)'
    BY <2>2 DEF WatchInv
  <2> QED BY <1>1, <1>3, <2>1, <2>2, <2>3 DEF Reply, WGoto, WatchType
<1>4. CASE EmptyTail(w)
  <2> DEFINE flag == Same(tail, whead[w])
             answer == [ans[w] EXCEPT !.op = "is_empty", !.flag = flag]
  <2>1. flag <=> tail = whead[w]
    <3>1. tail.lap - whead[w].lap < Laps /\ whead[w].lap - tail.lap < Laps
      BY <1>1, <1>4, LapsAssumption DEF EmptyTail, WatchInv, Window, Leq, InReach, Position
    <3> QED BY <1>1, <3>1, SameIsEqual, PositionType DEF Same
  <2>2. \E n \in seen[w] : flag <=> n = 0
    <3>1. CASE tail = whead[w]
      <4>1. tail = head
        <5>1. Leq(whead[w], head) /\ Leq(head, tail)
          BY <1>1, <1>4 DEF EmptyTail, WatchInv, Window
        <5> QED BY <1>1, <3>1, <5>1 DEF Leq, Position, Slots
      <4>2. Length = 0 /\ Length \in seen[w]
        BY <1>1, <1>2, <1>4, <4>1 DEF EmptyTail, WatchInv
      <4> QED BY <2>1, <3>1, <4>2
    <3>2. CASE tail # whead[w]
      BY <1>1, <1>4, <2>1, <3>2 DEF EmptyTail, WatchInv
    <3> QED BY <3>1, <3>2
  <2>3. flag \in BOOLEAN
    BY DEF Same
  <2> HIDE DEF flag
  <2>4. answer \in Replies /\ answer.op = "is_empty" /\ answer.flag = flag
    BY <1>1, <2>3 DEF Replies
  <2>5. Reply(w, answer)
    BY <1>4 DEF EmptyTail, Flag, flag
  <2> HIDE DEF answer
  <2>6. Truthful(w)'
    BY <1>3, <2>2, <2>4, <2>5 DEF Truthful
  <2> QED BY <1>1, <1>3, <2>4, <2>5, <2>6, WatcherStep
<1>5. CASE FullHead(w)
  <2> DEFINE flag == Same(AddLap(head), wtail[w])
             answer == [ans[w] EXCEPT !.op = "is_full", !.flag = flag]
  <2>1. flag <=> AddLap(head) = wtail[w]
    <3>1. AddLap(head).lap - wtail[w].lap < Laps /\ wtail[w].lap - AddLap(head).lap < Laps
      BY <1>1, <1>5, LapsAssumption DEF FullHead, WatchInv, Window, Leq, InReach, Position, AddLap
    <3> QED BY <1>1, <3>1, SameIsEqual, PositionType DEF Same
  <2>2. \E n \in seen[w] : flag <=> n = N
    <3>1. CASE AddLap(head) = wtail[w]
      <4>1. tail = AddLap(head)
        <5>1. Leq(wtail[w], tail) /\ Leq(tail, AddLap(head))
          BY <1>1, <1>5 DEF FullHead, WatchInv, Window
        <5> QED BY <1>1, <3>1, <5>1 DEF Leq, Position, Slots
      <4>2. Length = N /\ Length \in seen[w]
        BY <1>1, <1>2, <1>5, <4>1 DEF FullHead, WatchInv
      <4> QED BY <2>1, <3>1, <4>2
    <3>2. CASE AddLap(head) # wtail[w]
      BY <1>1, <1>5, <2>1, <3>2 DEF FullHead, WatchInv
    <3> QED BY <3>1, <3>2
  <2>3. flag \in BOOLEAN
    BY DEF Same
  <2> HIDE DEF flag
  <2>4. answer \in Replies /\ answer.op = "is_full" /\ answer.flag = flag
    BY <1>1, <2>3 DEF Replies
  <2>5. Reply(w, answer)
    BY <1>5 DEF FullHead, Flag, flag
  <2> HIDE DEF answer
  <2>6. Truthful(w)'
    BY <1>3, <2>2, <2>4, <2>5 DEF Truthful
  <2> QED BY <1>1, <1>3, <2>4, <2>5, <2>6, WatcherStep
<1>6. CASE LenCheck(w)
  <2> DEFINE l == LenOf(whead[w], wtail[w])
             answer == [ans[w] EXCEPT !.op = "len", !.len = l]
  <2>1. CASE Same(tail, wtail[w]) /\ Reply(w, answer)
    <3>1. tail = wtail[w]
      <4>1. tail.lap - wtail[w].lap < Laps /\ wtail[w].lap - tail.lap < Laps
        BY <1>1, <1>6, LapsAssumption DEF LenCheck, WatchInv, Leq, InReach, Position
      <4> QED BY <1>1, <2>1, <4>1, SameIsEqual, PositionType
    <3>2. l \in seen[w]
      BY <1>1, <1>6, <3>1 DEF LenCheck, WatchInv
    <3>3. l \in Int
      BY <1>1, <3>2 DEF WatchType
    <3> HIDE DEF l
    <3>4. answer \in Replies /\ answer.op = "len" /\ answer.len = l
      BY <1>1, <3>3 DEF Replies
    <3> HIDE DEF answer
    <3>5. Truthful(w)'
      BY <1>3, <2>1, <3>2, <3>4 DEF Truthful
    <3> QED BY <1>1, <1>3, <2>1, <3>4, <3>5, WatcherStep
  <2>2. CASE WGoto(w, "LenTail") /\ UNCHANGED <<vars, wtail, whead, ans, looks, seen>>
    <3>1. /\ wpc[w] = "LenCheck" /\ wpc'[w] = "LenTail" /\ WatchType'
          /\ \A x \in Watchers \ {w} : wpc'[x] = wpc[x]
      BY <1>1, <1>6, <2>2 DEF LenCheck, WGoto, WatchType, WatchSteps
    <3>2. Length' = Length
      BY <1>1 DEF Length, Distance
    <3>3. WatchInv(w)'
      BY <1>1, <2>2, <3>1, <3>2 DEF WatchInv
    <3> QED BY <1>1, <2>2, <3>1, <3>3, WatcherStep
  <2> QED BY <1>6, <2>1, <2>2 DEF LenCheck
<1> QED BY <1>4, <1>5, <1>6

\* Both inductive invariants hold together.
LEMMA WatchedInd ==
  ASSUME IndInv, WatchedInv, [WatchedNext]_allVars
  PROVE  IndInv' /\ WatchedInv'
<1>1. CASE UNCHANGED vars /\ UNCHANGED watch
  <2>1. IndInv'
    BY <1>1, NextInd
  <2>2. UNCHANGED <<head, tail>>
    BY <1>1 DEF vars, shared
  <2> QED BY <1>1, <2>1, <2>2, WatchUnmoved
<1>2. CASE QueueStep
  <2>1. PICK t \in Threads : CallPush(t) \/ CallForcePush(t) \/ CallPop(t) \/ Step(t)
    BY <1>2 DEF QueueStep
  <2>2. Next
    BY <2>1 DEF Next
  <2>3. IndInv' /\ (head' = head \/ head' = Succ(head)) /\ (tail' = tail \/ tail' = Succ(tail))
    BY <2>2, NextInd
  <2>4. head' = head \/ tail' = tail
    BY <2>1, OneMoves
  <2> QED BY <1>2, <2>3, <2>4, QueueStepWatched
<1>3. CASE WatchedDrop
  <2>1. UNCHANGED <<head, tail, watch>> /\ IndInv'
    BY <1>3, DropInd DEF WatchedDrop, Drop
  <2> QED BY <2>1, WatchUnmoved
<1>4. ASSUME NEW w \in Watchers, Look(w) \/ WatchStep(w)
      PROVE  IndInv' /\ WatchedInv'
  <2>1. UNCHANGED vars
    BY <1>4 DEF Look, WatchStep, EmptyHead, EmptyTail, FullTail, FullHead, LenTail, LenHead, LenCheck,
       TakeTail, TakeHead, Flag, Reply
  <2>2. IndInv'
    BY <2>1, NextInd
  <2> QED BY <1>4, <2>2, LoadsWatched, RepliesWatched DEF WatchStep
<1> QED BY <1>1, <1>2, <1>3, <1>4 DEF WatchedNext, allVars

\* Every answer of len, is_empty and is_full was true at one instant of its call,
\* although each reads head and tail at different instants.
THEOREM AnswersTrue == WatchedSpec => []AnswerWasTrue
<1>1. WatchedInit => IndInv /\ WatchedInv
  <2> SUFFICES ASSUME WatchedInit PROVE IndInv /\ WatchedInv
    OBVIOUS
  <2>1. IndInv
    BY InitInd DEF WatchedInit
  <2>2. Origin \in Position
    BY NAssumption DEF Origin, Position, Slots
  <2>3. WatchType
    BY <2>2 DEF WatchedInit, InitWatch, WatchType, Replies
  <2>4. ASSUME NEW w \in Watchers PROVE WatchInv(w) /\ Truthful(w)
    BY DEF WatchedInit, InitWatch, WatchInv, Truthful
  <2> QED BY <2>1, <2>3, <2>4 DEF WatchedInv
<1>2. IndInv /\ WatchedInv /\ [WatchedNext]_allVars => IndInv' /\ WatchedInv'
  BY WatchedInd
<1>3. WatchedInv => AnswerWasTrue
  BY DEF WatchedInv, Truthful, AnswerWasTrue
<1> QED BY <1>1, <1>2, <1>3, PTL DEF WatchedSpec
=============================================================================
