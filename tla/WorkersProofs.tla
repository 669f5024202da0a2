--------------------------- MODULE WorkersProofs ---------------------------
(***************************************************************************)
(* The two tests of heapless#583 never fail, for any capacity and any      *)
(* number of rounds: no worker finds the queue full or empty, and all      *)
(* items survive.                                                          *)
(*                                                                         *)
(* Both are arguments about Fifo, which the queue implements.  Refill: an  *)
(* item is in the queue or with one worker, so a worker that enqueues has  *)
(* left a place for it.  Pass: the queue stores one item for each worker   *)
(* that has enqueued and not yet dequeued.                                 *)
(***************************************************************************)
EXTENDS Workers, LinearProofs, FiniteSetTheorems

\* No item is twice in queue q or with the threads whose calls are c, and none
\* is missing.
Scattered(q, c) ==
  /\ \A j, k \in 1 .. Len(q) : q[j] = q[k] => j = k
  /\ \A t, u \in Threads : c[t].val \in Values /\ c[t].val = c[u].val => t = u
  /\ \A k \in 1 .. Len(q), t \in Threads : q[k] # c[t].val
  /\ \A v \in Values : \/ \E k \in 1 .. Len(q) : q[k] = v
                       \/ \E t \in Threads : c[t].val = v

RefillInv ==
  /\ Contents \in Seq(Values)
  /\ Scattered(Contents, Calls)
  /\ \A t \in Threads : Calls[t].tag \in {"Rest", "pop", "None", "Some", "push", "Ok"}

\* The threads whose item is in the queue.
Owed(c) == {t \in Threads : c[t].tag \in {"Ok", "pop"}}

PassInv ==
  /\ Len(Contents) = Cardinality(Owed(Calls))
  /\ \A t \in Threads : Calls[t].tag \in {"Rest", "push", "Ok", "pop", "Some"}

WorkersInv ==
  /\ IndInv /\ CallInv
  /\ \/ test = "refill" /\ RefillInv
     \/ test = "pass" /\ PassInv

-----------------------------------------------------------------------------
(* What the moves of Fifo do to the items.                                 *)

\* Only the values matter.
LEMMA SameKeeps ==
  ASSUME NEW q, NEW c, NEW d, Scattered(q, c), \A u \in Threads : d[u].val = c[u].val
  PROVE  Scattered(q, d)
BY DEF Scattered

\* An item goes from a worker to the end of the queue.
LEMMA PushKeeps ==
  ASSUME NEW q \in Seq(Values), NEW c, NEW d, NEW t \in Threads, Scattered(q, c),
         c[t].val \in Values, d[t].val = NoValue,
         \A u \in Threads \ {t} : d[u].val = c[u].val
  PROVE  Append(q, c[t].val) \in Seq(Values) /\ Scattered(Append(q, c[t].val), d)
<1> DEFINE x == c[t].val
           r == Append(q, x)
<1>1. /\ r \in Seq(Values) /\ Len(q) \in Nat /\ Len(r) = Len(q) + 1
      /\ \A k \in 1 .. Len(q) : r[k] = q[k]
      /\ r[Len(q) + 1] = x
  BY AppendProperties
<1>2. \A k \in 1 .. Len(q) : q[k] # x
  BY DEF Scattered
<1>3. x \in Values /\ \A u \in Threads \ {t} : d[u].val # x
  BY DEF Scattered
<1> HIDE DEF x, r
<1>4. \A j, k \in 1 .. Len(r) : r[j] = r[k] => j = k
  BY <1>1, <1>2 DEF Scattered
<1>5. \A u, w \in Threads : d[u].val \in Values /\ d[u].val = d[w].val => u = w
  BY ValuesAssumption DEF Scattered
<1>6. \A k \in 1 .. Len(r), u \in Threads : r[k] # d[u].val
  <2>1. ASSUME NEW k \in 1 .. Len(q), NEW u \in Threads PROVE q[k] # d[u].val
    <3>1. q[k] \in Values
      BY ElementOfSeq
    <3> QED BY <3>1, ValuesAssumption DEF Scattered
  <2>2. \A u \in Threads : x # d[u].val
    BY <1>3, ValuesAssumption
  <2> QED BY <1>1, <2>1, <2>2
<1>7. ASSUME NEW v \in Values
      PROVE  (\E k \in 1 .. Len(r) : r[k] = v) \/ (\E u \in Threads : d[u].val = v)
  <2>1. CASE v = x
    BY <1>1, <2>1
  <2>2. CASE \E k \in 1 .. Len(q) : q[k] = v
    BY <1>1, <2>2
  <2>3. CASE v # x /\ \E u \in Threads : c[u].val = v
    BY <2>3 DEF x
  <2> QED BY <2>1, <2>2, <2>3 DEF Scattered
<1> QED BY <1>1, <1>4, <1>5, <1>6, <1>7 DEF Scattered, r, x

\* The item at the front goes to a worker.
LEMMA PopKeeps ==
  ASSUME NEW q \in Seq(Values), NEW c, NEW d, NEW t \in Threads, Scattered(q, c),
         q # <<>>, c[t].val = NoValue, d[t].val = Head(q),
         \A u \in Threads \ {t} : d[u].val = c[u].val
  PROVE  Tail(q) \in Seq(Values) /\ Scattered(Tail(q), d)
<1> DEFINE x == Head(q)
           r == Tail(q)
<1>1. /\ r \in Seq(Values) /\ Len(q) \in Nat /\ Len(q) >= 1 /\ Len(r) = Len(q) - 1
      /\ \A k \in 1 .. Len(r) : r[k] = q[k + 1]
      /\ x = q[1] /\ x \in Values
  <2>1. Len(q) \in Nat /\ Len(q) # 0
    BY EmptySeq, LenProperties
  <2>2. x = q[1]
    BY DEF x
  <2> QED BY <2>1, <2>2, HeadTailProperties
<1>2. d[t].val = x
  BY DEF x
<1> HIDE DEF x, r
<1>3. \A j, k \in 1 .. Len(r) : r[j] = r[k] => j = k
  <2>1. \A k \in 1 .. Len(r) : k + 1 \in 1 .. Len(q) /\ k \in Int
    BY <1>1
  <2>2. ASSUME NEW j \in 1 .. Len(r), NEW k \in 1 .. Len(r), r[j] = r[k] PROVE j = k
    <3>1. q[j + 1] = q[k + 1]
      BY <1>1, <2>2
    <3>2. j + 1 = k + 1
      BY <2>1, <3>1 DEF Scattered
    <3> QED BY <2>1, <3>2
  <2> QED BY <2>2
<1>4. \A u \in Threads : x # c[u].val
  BY <1>1 DEF Scattered
<1>5. \A u, w \in Threads : d[u].val \in Values /\ d[u].val = d[w].val => u = w
  BY <1>2, <1>4 DEF Scattered
<1>6. ASSUME NEW k \in 1 .. Len(r), NEW u \in Threads PROVE r[k] # d[u].val
  <2>1. r[k] = q[k + 1] /\ k + 1 \in 1 .. Len(q) /\ k + 1 # 1 /\ 1 \in 1 .. Len(q)
    BY <1>1
  <2>2. q[k + 1] # x
    BY <1>1, <2>1 DEF Scattered
  <2> QED BY <1>2, <2>1, <2>2 DEF Scattered
<1>7. ASSUME NEW v \in Values
      PROVE  (\E k \in 1 .. Len(r) : r[k] = v) \/ (\E u \in Threads : d[u].val = v)
  <2>1. CASE v = x
    BY <1>2, <2>1
  <2>2. CASE v # x /\ \E k \in 1 .. Len(q) : q[k] = v
    <3>1. PICK k \in 1 .. Len(q) : q[k] = v
      BY <2>2
    <3>2. k - 1 \in 1 .. Len(r) /\ (k - 1) + 1 = k
      BY <1>1, <2>2, <3>1
    <3>3. r[k - 1] = v
      BY <1>1, <3>1, <3>2
    <3> QED BY <3>2, <3>3
  <2>3. CASE \E u \in Threads : c[u].val = v
    BY <2>3, ValuesAssumption
  <2> QED BY <2>1, <2>2, <2>3 DEF Scattered
<1> QED BY <1>1, <1>3, <1>5, <1>6, <1>7 DEF Scattered, r, x

\* When all N items are in the queue no worker has one.
LEMMA FullQueueHasAll ==
  ASSUME NEW q \in Seq(Values), NEW c, NEW t \in Threads, Scattered(q, c), Len(q) = N
  PROVE  c[t].val \notin Values
<1>1. q \in [1 .. N -> Values] /\ N \in Nat
  BY NAssumption, LenProperties
<1>2. q \in Injection(1 .. N, Values)
  BY <1>1 DEF Scattered, Injection, IsInjective
<1>3. IsFiniteSet(1 .. N) /\ Cardinality(1 .. N) = N
  BY <1>1, NAssumption, FS_Interval
<1>4. q \in Surjection(1 .. N, Values)
  BY <1>2, <1>3, WorkersAssumption, FS_Injection
<1>5. \A v \in Values : \E k \in 1 .. N : q[k] = v
  BY <1>4 DEF Surjection
<1> QED BY <1>5 DEF Scattered

-----------------------------------------------------------------------------
(* The steps of a worker.                                                  *)

\* A worker begins a call: an item it holds stays with it.
LEMMA RefillCall ==
  ASSUME IndInv, CallInv, RefillInv, IndInv', NEW t \in Threads, TakeOut(t) \/ PutBack(t)
  PROVE  Begins(t) /\ RefillInv'
<1>1. \/ CallOf(t).tag \in {"Rest", "None", "Ok"} /\ CallOf(t).val = NoValue
         /\ Begin(t, "pop", NoValue, "LoadHead")
      \/ CallOf(t).tag = "Some" /\ CallOf(t).val = val[t] /\ val[t] \in Values
         /\ Begin(t, "push", val[t], "LoadTail")
  <2>1. AtRest(t) /\ Carries(t)
    BY DEF TakeOut, PutBack, AtRest, Answered, CallInv
  <2>2. CallOf(t) = [tag |-> pc[t], val |-> val[t]]
    BY <2>1, RestAnswers
  <2> QED BY <2>1, <2>2 DEF TakeOut, PutBack, CallPop, Call, Carries
<1>2. Begins(t) /\ ThreadStep(t)
  BY <1>1 DEF Begins, ThreadStep
<1>3. Contents' = Contents /\ CallOf(t)' = [tag |-> op'[t], val |-> val'[t]]
  BY <1>2, CallBegins
<1>4. op'[t] \in {"push", "pop"} /\ val'[t] = CallOf(t).val
  BY <1>1 DEF Begin, IndInv, TypeOK
<1>5. Calls' = [Calls EXCEPT ![t] = CallOf(t)'] /\ Calls[t] = CallOf(t)
  BY <1>2, CallsFrame
<1>6. Calls \in [Threads -> Abstract!Requests \cup Abstract!Answers]
  BY CallsTyped
<1>7. \A u \in Threads : Calls'[u].val = Calls[u].val
  BY <1>3, <1>4, <1>5, <1>6
<1>8. Scattered(Contents, Calls')
  BY <1>7, SameKeeps DEF RefillInv
<1>9. \A u \in Threads : Calls'[u].tag \in {"Rest", "pop", "None", "Some", "push", "Ok"}
  BY <1>3, <1>4, <1>5, <1>6 DEF RefillInv
<1> QED BY <1>2, <1>3, <1>8, <1>9 DEF RefillInv

\* A worker takes a step in its call.
LEMMA RefillStep ==
  ASSUME IndInv, CallInv, RefillInv, NEW t \in Threads, Step(t)
  PROVE  RefillInv'
<1>1. /\ Contents \in Seq(Values) /\ Scattered(Contents, Calls)
      /\ Calls \in [Threads -> Abstract!Requests \cup Abstract!Answers]
  BY CallsTyped DEF RefillInv
<1>2. /\ Calls[t].tag = "push" => Calls[t].val \in Values
      /\ Calls[t].tag = "pop" => Calls[t].val = NoValue
      /\ Calls[t].tag # "force"
  BY <1>1 DEF Abstract!Requests, Abstract!Answers, RefillInv
<1>3. CASE UNCHANGED <<Contents, Calls>>
  BY <1>3 DEF RefillInv
<1>4. ASSUME NEW tag \in {"Ok", "None", "Some"}, NEW v,
             Calls' = [Calls EXCEPT ![t] = [tag |-> tag, val |-> v]]
      PROVE  /\ Calls'[t].val = v /\ \A u \in Threads \ {t} : Calls'[u].val = Calls[u].val
             /\ \A u \in Threads :
                  Calls'[u].tag \in {"Rest", "pop", "None", "Some", "push", "Ok"}
  BY <1>1, <1>4 DEF RefillInv
<1>5. CASE /\ Calls[t].tag = "push" /\ Contents' = Append(Contents, Calls[t].val)
           /\ Calls' = [Calls EXCEPT ![t] = [tag |-> "Ok", val |-> NoValue]]
  <2>1. /\ Calls'[t].val = NoValue /\ \A u \in Threads \ {t} : Calls'[u].val = Calls[u].val
        /\ \A u \in Threads : Calls'[u].tag \in {"Rest", "pop", "None", "Some", "push", "Ok"}
    BY <1>4, <1>5
  <2>2. /\ Append(Contents, Calls[t].val) \in Seq(Values)
        /\ Scattered(Append(Contents, Calls[t].val), Calls')
    BY <1>1, <1>2, <1>5, <2>1, PushKeeps
  <2> QED BY <1>5, <2>1, <2>2 DEF RefillInv
<1>6. CASE Calls[t].tag = "push" /\ Len(Contents) = N
  BY <1>1, <1>2, <1>6, FullQueueHasAll
<1>7. CASE /\ Calls[t].tag = "pop" /\ Contents # <<>> /\ Contents' = Tail(Contents)
           /\ Calls' = [Calls EXCEPT ![t] = [tag |-> "Some", val |-> Head(Contents)]]
  <2>1. /\ Calls'[t].val = Head(Contents)
        /\ \A u \in Threads \ {t} : Calls'[u].val = Calls[u].val
        /\ \A u \in Threads : Calls'[u].tag \in {"Rest", "pop", "None", "Some", "push", "Ok"}
    <3> DEFINE x == Head(Contents)
    <3>1. Calls' = [Calls EXCEPT ![t] = [tag |-> "Some", val |-> x]]
      BY <1>7
    <3> HIDE DEF x
    <3>2. /\ Calls'[t].val = x
          /\ \A u \in Threads \ {t} : Calls'[u].val = Calls[u].val
          /\ \A u \in Threads : Calls'[u].tag \in {"Rest", "pop", "None", "Some", "push", "Ok"}
      BY <1>4, <3>1
    <3> QED BY <3>2 DEF x
  <2>2. Tail(Contents) \in Seq(Values) /\ Scattered(Tail(Contents), Calls')
    BY <1>1, <1>2, <1>7, <2>1, PopKeeps
  <2> QED BY <1>7, <2>1, <2>2, Zenon DEF RefillInv
<1>8. CASE /\ Calls[t].tag = "pop" /\ Contents' = Contents
           /\ Calls' = [Calls EXCEPT ![t] = [tag |-> "None", val |-> NoValue]]
  <2>1. /\ \A u \in Threads : Calls'[u].val = Calls[u].val
        /\ \A u \in Threads : Calls'[u].tag \in {"Rest", "pop", "None", "Some", "push", "Ok"}
    BY <1>2, <1>4, <1>8
  <2>2. Scattered(Contents, Calls')
    BY <1>1, <2>1, SameKeeps
  <2> QED BY <1>1, <1>8, <2>1, <2>2 DEF RefillInv
<1> QED BY <1>2, <1>3, <1>5, <1>6, <1>7, <1>8, StepMoves

\* A worker that begins a call neither adds an item nor takes one.
LEMMA PassCall ==
  ASSUME IndInv, CallInv, PassInv, IndInv', NEW t \in Threads, PutIn(t) \/ TakeAny(t)
  PROVE  Begins(t) /\ PassInv'
<1>1. \/ CallOf(t).tag \in {"Rest", "Some"} /\ \E v \in Values : Begin(t, "push", v, "LoadTail")
      \/ CallOf(t).tag = "Ok" /\ Begin(t, "pop", NoValue, "LoadHead")
  <2>1. AtRest(t)
    BY DEF PutIn, TakeAny, AtRest, Answered
  <2>2. CallOf(t) = [tag |-> pc[t], val |-> val[t]]
    BY <2>1, RestAnswers
  <2> QED BY <2>1, <2>2 DEF PutIn, TakeAny, CallPush, CallPop, Call
<1>2. Begins(t) /\ ThreadStep(t)
  BY <1>1 DEF Begins, ThreadStep
<1>3. Contents' = Contents /\ CallOf(t)' = [tag |-> op'[t], val |-> val'[t]]
  BY <1>2, CallBegins
<1>4. \/ CallOf(t).tag \in {"Rest", "Some"} /\ op'[t] = "push"
      \/ CallOf(t).tag = "Ok" /\ op'[t] = "pop"
  BY <1>1 DEF Begin, IndInv, TypeOK
<1>5. Calls' = [Calls EXCEPT ![t] = CallOf(t)'] /\ Calls[t] = CallOf(t)
  BY <1>2, CallsFrame
<1>6. Calls \in [Threads -> Abstract!Requests \cup Abstract!Answers]
  BY CallsTyped
<1>7. \A u \in Threads :
        /\ Calls'[u].tag \in {"Rest", "push", "Ok", "pop", "Some"}
        /\ Calls'[u].tag \in {"Ok", "pop"} <=> Calls[u].tag \in {"Ok", "pop"}
  BY <1>3, <1>4, <1>5, <1>6 DEF PassInv
<1>8. Owed(Calls') = Owed(Calls)
  BY <1>7 DEF Owed
<1>9. Len(Contents') = Cardinality(Owed(Calls'))
  BY <1>3, <1>8, Zenon DEF PassInv
<1> QED BY <1>2, <1>7, <1>9 DEF PassInv

\* A worker's push adds its item, and its pop takes one that is there.
LEMMA PassStep ==
  ASSUME IndInv, CallInv, PassInv, NEW t \in Threads, Step(t)
  PROVE  PassInv'
<1>1. /\ Contents \in Seq(Values \cup {NoValue})
      /\ Calls \in [Threads -> Abstract!Requests \cup Abstract!Answers]
  BY CallsTyped, ContentsSeq
<1>2. /\ Len(Contents) = Cardinality(Owed(Calls))
      /\ \A u \in Threads : Calls[u].tag \in {"Rest", "push", "Ok", "pop", "Some"}
  BY DEF PassInv
<1>3. Owed(Calls) \subseteq Threads /\ IsFiniteSet(Owed(Calls))
  <2>1. Owed(Calls) \in SUBSET Threads
    BY DEF Owed
  <2> QED BY <2>1, WorkersAssumption, FS_Subset
<1>4. Cardinality(Owed(Calls)) \in Nat
  BY <1>3, FS_CardinalityType
<1>5. CASE UNCHANGED <<Contents, Calls>>
  BY <1>5 DEF PassInv
<1>6. CASE /\ Calls[t].tag = "push" /\ Contents' = Append(Contents, Calls[t].val)
           /\ Calls' = [Calls EXCEPT ![t] = [tag |-> "Ok", val |-> NoValue]]
  <2>1. \A u \in Threads : Calls'[u].tag \in {"Rest", "push", "Ok", "pop", "Some"}
    BY <1>1, <1>2, <1>6
  <2>2. Owed(Calls') = Owed(Calls) \cup {t} /\ t \notin Owed(Calls)
    BY <1>1, <1>6 DEF Owed
  <2>3. Cardinality(Owed(Calls')) = Cardinality(Owed(Calls)) + 1
    BY <1>3, <2>2, FS_AddElement
  <2>4. Len(Append(Contents, Calls[t].val)) = Len(Contents) + 1
    <3>1. Calls[t].val \in Values \cup {NoValue}
      BY <1>1 DEF Abstract!Requests, Abstract!Answers
    <3> QED BY <1>1, <3>1, AppendProperties
  <2>5. Len(Contents') = Cardinality(Owed(Calls'))
    BY <1>2, <1>6, <2>3, <2>4, Zenon
  <2> QED BY <2>1, <2>5 DEF PassInv
<1>7. CASE Calls[t].tag = "push" /\ Len(Contents) = N
  <2>1. Owed(Calls) \in SUBSET (Threads \ {t})
    BY <1>7 DEF Owed
  <2>2. IsFiniteSet(Threads \ {t}) /\ Cardinality(Threads \ {t}) = Cardinality(Threads) - 1
    BY WorkersAssumption, FS_RemoveElement
  <2>3. Cardinality(Owed(Calls)) <= Cardinality(Threads) - 1 /\ Cardinality(Threads) \in Nat
    BY <2>1, <2>2, WorkersAssumption, FS_Subset, FS_CardinalityType
  <2> QED BY <1>2, <1>4, <1>7, <2>3, WorkersAssumption, NAssumption
<1>8. CASE /\ Calls[t].tag = "pop" /\ Contents # <<>> /\ Contents' = Tail(Contents)
           /\ Calls' = [Calls EXCEPT ![t] = [tag |-> "Some", val |-> Head(Contents)]]
  <2>1. PICK x : Calls' = [Calls EXCEPT ![t] = [tag |-> "Some", val |-> x]]
    BY <1>8, Zenon
  <2>2. \A u \in Threads : Calls'[u].tag \in {"Rest", "push", "Ok", "pop", "Some"}
    BY <1>1, <1>2, <2>1
  <2>3. Calls[t].tag = "pop"
    BY <1>8
  <2>4. Owed(Calls') = Owed(Calls) \ {t} /\ t \in Owed(Calls)
    BY <1>1, <2>1, <2>3 DEF Owed
  <2>5. Cardinality(Owed(Calls')) = Cardinality(Owed(Calls)) - 1
    BY <1>3, <2>4, FS_RemoveElement
  <2>6. Len(Tail(Contents)) = Len(Contents) - 1
    BY <1>1, <1>8, HeadTailProperties
  <2>7. Len(Contents') = Cardinality(Owed(Calls'))
    BY <1>2, <1>8, <2>5, <2>6, Zenon
  <2> QED BY <2>2, <2>7 DEF PassInv
<1>9. CASE Calls[t].tag = "pop" /\ Contents = <<>>
  <2>1. t \in Owed(Calls)
    BY <1>9 DEF Owed
  <2>2. Cardinality(Owed(Calls)) = 0
    BY <1>2, <1>9
  <2> QED BY <1>3, <2>1, <2>2, FS_EmptySet
<1>10. Calls[t].tag # "force"
  BY <1>2
<1> QED BY <1>5, <1>6, <1>7, <1>8, <1>9, <1>10, StepMoves

-----------------------------------------------------------------------------
(* The queues the tests start with.                                        *)

\* A queue that new() and N enqueues have filled satisfies the slot invariant.
LEMMA FilledInd ==
  ASSUME Filled
  PROVE  IndInv /\ CallInv
<1> USE NAssumption, BoundsAssumption
<1>1. /\ pc = [t \in Threads |-> "Rest"] /\ op = [t \in Threads |-> "pop"]
      /\ pos = [t \in Threads |-> Origin] /\ val = [t \in Threads |-> NoValue]
      /\ calls = [t \in Threads |-> 0] /\ alive = TRUE
      /\ head = [lap |-> 0, idx |-> 0] /\ tail = [lap |-> 1, idx |-> 0]
      /\ stamp = [i \in Slots |-> [lap |-> 0, idx |-> i + 1]]
      /\ value \in [Slots -> Values]
  BY DEF Filled, NoCalls, Origin, AddLap, PlusOne
<1>2. TypeOK
  BY <1>1 DEF TypeOK, Position, Stamp, Slots, Origin, Answered
<1>3. Window /\ SlotExclusive /\ Quiet
  BY <1>1 DEF Window, Leq, AddLap, SlotExclusive, Owns, OwnerSteps, Quiet
<1>4. Unowned
  BY <1>1 DEF Unowned, FullSlot, PushLap, PopLap, LapAt, Pair, Slots
<1>5. ASSUME NEW t \in Threads PROVE OwnerInv(t) /\ LoopInv(t) /\ Carries(t)
  BY <1>1 DEF OwnerInv, LoopInv, Carries, PushSteps, PopSteps
<1> QED BY <1>2, <1>3, <1>4, <1>5 DEF IndInv, CallInv

\* All items are in the filled queue.
LEMMA FilledRefill ==
  ASSUME Filled
  PROVE  RefillInv
<1>1. IndInv /\ alive /\ \A t \in Threads : AtRest(t) /\ pc[t] = "Rest" /\ val[t] = NoValue
  BY FilledInd DEF Filled, NoCalls, AtRest, Answered
<1>2. LenOf(head, tail) = N
  <2>1. tail = AddLap(head)
    BY DEF Filled
  <2> QED BY <1>1, <2>1, LenOfIs
<1>3. /\ Contents \in Seq(Values \cup {NoValue}) /\ Len(Contents) = N /\ N \in Nat
      /\ \A k \in 0 .. (N - 1) : value[DropIndex(k)] = Contents[k + 1]
  <2>1. /\ Contents \in Seq(Values \cup {NoValue})
        /\ Len(Contents) = LenOf(head, tail)
        /\ \A k \in 0 .. (LenOf(head, tail) - 1) : value[DropIndex(k)] = Contents[k + 1]
    BY <1>1, RestContents
  <2> QED BY <1>2, <2>1, NAssumption
<1>4. /\ value \in [Slots -> Values]
      /\ \A i, j \in Slots : i # j => value[i] # value[j]
  BY DEF Filled
<1>5. ASSUME NEW k \in 1 .. N PROVE k - 1 \in Slots /\ Contents[k] = value[k - 1]
  <2>1. k - 1 \in 0 .. (N - 1) /\ k = (k - 1) + 1
    BY <1>3
  <2>2. DropIndex(k - 1) = k - 1
    BY <1>3, <2>1 DEF DropIndex, Filled, Origin
  <2>3. value[DropIndex(k - 1)] = Contents[(k - 1) + 1]
    BY <1>3, <2>1
  <2> QED BY <2>1, <2>2, <2>3 DEF Slots
<1>6. Contents \in Seq(Values)
  <2>1. \A k \in 1 .. Len(Contents) : Contents[k] \in Values
    BY <1>3, <1>4, <1>5
  <2> QED BY <1>3, <2>1
<1>7. \A t \in Threads : Calls[t] = [tag |-> "Rest", val |-> NoValue]
  BY <1>1 DEF Calls, CallOf
<1>8. IsFiniteSet(Slots) /\ Cardinality(Slots) = N
  BY NAssumption, FS_Interval DEF Slots
<1>9. value \in Surjection(Slots, Values)
  <2>1. value \in Injection(Slots, Values)
    BY <1>4 DEF Injection, IsInjective
  <2> QED BY <1>8, <2>1, WorkersAssumption, FS_Injection
<1>10. \A j, k \in 1 .. N : Contents[j] = Contents[k] => j = k
  BY <1>3, <1>4, <1>5
<1>11. \A k \in 1 .. N, t \in Threads : Contents[k] # Calls[t].val
  BY <1>4, <1>5, <1>7, ValuesAssumption
<1>12. ASSUME NEW v \in Values PROVE \E k \in 1 .. N : Contents[k] = v
  <2>1. PICK i \in Slots : value[i] = v
    BY <1>9 DEF Surjection
  <2>2. i + 1 \in 1 .. N /\ (i + 1) - 1 = i
    BY <1>3, <2>1 DEF Slots
  <2>3. Contents[i + 1] = v
    BY <1>5, <2>1, <2>2
  <2> QED BY <2>2, <2>3
<1>13. \A t, u \in Threads : Calls[t].val \in Values /\ Calls[t].val = Calls[u].val => t = u
  BY <1>7, ValuesAssumption
<1>14. Scattered(Contents, Calls)
  BY <1>3, <1>10, <1>11, <1>12, <1>13 DEF Scattered
<1> QED BY <1>6, <1>7, <1>14 DEF RefillInv

\* No item is in the new queue, and no worker has put one in.
LEMMA NewPass ==
  ASSUME Init
  PROVE  PassInv
<1>1. Contents = <<>> /\ Calls = [t \in Threads |-> [tag |-> "Rest", val |-> NoValue]]
  BY InitRefines DEF Abstract!Init, Calls
<1>2. Owed(Calls) = {}
  BY <1>1 DEF Owed
<1>3. Cardinality(Owed(Calls)) = 0 /\ Len(Contents) = 0
  BY <1>1, <1>2, FS_EmptySet
<1> QED BY <1>1, <1>3 DEF PassInv

-----------------------------------------------------------------------------
(* The theorems.                                                           *)

\* The invariant of the two tests.
LEMMA WorkersInd == WorkersSpec => []WorkersInv
<1>1. ASSUME WorkersInit PROVE WorkersInv
  <2>1. CASE test = "refill" /\ Filled
    BY <2>1, FilledInd, FilledRefill DEF WorkersInv
  <2>2. CASE test = "pass" /\ Init
    BY <2>2, InitInd, InitRefines, NewPass DEF WorkersInv
  <2> QED BY <1>1, <2>1, <2>2 DEF WorkersInit
<1>2. ASSUME WorkersInv, NEW t \in Threads, Work(t), UNCHANGED test PROVE WorkersInv'
  <2>1. IndInv /\ CallInv
    BY <1>2 DEF WorkersInv
  <2>2. TakeOut(t) \/ PutBack(t) \/ PutIn(t) \/ TakeAny(t) => CallPush(t) \/ CallPop(t)
    <3>1. PutBack(t) => val[t] \in Values
      BY <2>1 DEF PutBack, CallInv, Carries
    <3> QED BY <3>1 DEF TakeOut, PutBack, PutIn, TakeAny, CallPush
  <2>3. Next
    BY <1>2, <2>2 DEF Work, Next
  <2>4. IndInv' /\ CallInv'
    BY <2>1, <2>3, NextInd, CallInvInd
  <2>5. CASE test = "refill" /\ RefillInv
    <3>1. RefillInv'
      BY <1>2, <2>1, <2>4, <2>5, RefillCall, RefillStep DEF Work
    <3> QED BY <1>2, <2>4, <2>5, <3>1 DEF WorkersInv
  <2>6. CASE test = "pass" /\ PassInv
    <3>1. PassInv'
      BY <1>2, <2>1, <2>4, <2>6, PassCall, PassStep DEF Work
    <3> QED BY <1>2, <2>4, <2>6, <3>1 DEF WorkersInv
  <2> QED BY <1>2, <2>5, <2>6 DEF WorkersInv
<1>3. ASSUME WorkersInv, UNCHANGED <<vars, test>> PROVE WorkersInv'
  <2>1. UNCHANGED vars
    BY <1>3
  <2>2. IndInv' /\ CallInv'
    BY <1>3, <2>1, NextInd, CallInvInd DEF WorkersInv
  <2>3. Contents' = Contents /\ Calls' = Calls
    BY <2>1 DEF vars, shared, local, Contents, ValueAt, LogicalTail, CallOf, Calls, AtRest,
       Distance, Advance, Succ
  <2> QED BY <1>3, <2>2, <2>3 DEF WorkersInv, RefillInv, PassInv
<1>4. WorkersInv /\ [(\E t \in Threads : Work(t)) /\ UNCHANGED test]_<<vars, test>> => WorkersInv'
  BY <1>2, <1>3
<1> QED BY <1>1, <1>4, PTL DEF WorkersSpec

\* enqueue never reports a full queue to a worker of either test: the bug of
\* heapless#583 is absent for every capacity N, up to N workers and any number of rounds.
THEOREM EnqueueSucceeds == WorkersSpec => []NeverFull
<1>1. WorkersInv => NeverFull
  <2> SUFFICES ASSUME WorkersInv, NEW t \in Threads, pc[t] = "Err" PROVE FALSE
    BY DEF NeverFull
  <2>1. Calls[t].tag = "Err"
    BY RestIs DEF AtRest, Answered
  <2> QED BY <2>1 DEF WorkersInv, RefillInv, PassInv
<1> QED BY <1>1, WorkersInd, PTL

\* A dequeue that follows the worker's own enqueue never finds the queue empty.
THEOREM DequeueSucceeds == WorkersSpec => []NeverEmpty
<1>1. WorkersInv => NeverEmpty
  <2> SUFFICES ASSUME WorkersInv, test = "pass", NEW t \in Threads, pc[t] = "None" PROVE FALSE
    BY DEF NeverEmpty
  <2>1. Calls[t].tag = "None"
    BY RestIs DEF AtRest, Answered
  <2> QED BY <2>1 DEF WorkersInv, PassInv
<1> QED BY <1>1, WorkersInd, PTL

\* Every item is in the queue or with one worker, once, at every instant.
THEOREM NothingLost == WorkersSpec => []ItemsSurvive
<1>1. WorkersInv => ItemsSurvive
  <2> SUFFICES ASSUME WorkersInv, test = "refill", NEW v \in Values
               PROVE  Cardinality({k \in DOMAIN Contents : Contents[k] = v})
                        + Cardinality({t \in Threads : CallOf(t).val = v}) = 1
    BY DEF ItemsSurvive
  <2> DEFINE K == {k \in DOMAIN Contents : Contents[k] = v}
             T == {t \in Threads : CallOf(t).val = v}
  <2>1. Contents \in Seq(Values) /\ Scattered(Contents, Calls)
    BY DEF WorkersInv, RefillInv
  <2>2. DOMAIN Contents = 1 .. Len(Contents) /\ \A t \in Threads : Calls[t] = CallOf(t)
    BY <2>1, LenProperties DEF Calls
  <2>3. \/ K = {} /\ \E t : T = {t}
        \/ T = {} /\ \E k : K = {k}
    <3>1. CASE \E k \in 1 .. Len(Contents) : Contents[k] = v
      <4>1. PICK k \in 1 .. Len(Contents) : Contents[k] = v
        BY <3>1
      <4>2. K = {k} /\ T = {}
        BY <2>1, <2>2, <4>1 DEF Scattered
      <4> QED BY <4>2
    <3>2. CASE ~\E k \in 1 .. Len(Contents) : Contents[k] = v
      <4>1. PICK t \in Threads : Calls[t].val = v
        BY <2>1, <3>2 DEF Scattered
      <4>2. T = {t} /\ K = {}
        BY <2>1, <2>2, <3>2, <4>1 DEF Scattered
      <4> QED BY <4>2
    <3> QED BY <3>1, <3>2
  <2> HIDE DEF K, T
  <2>4. Cardinality(K) + Cardinality(T) = 1
    <3>1. Cardinality({}) = 0 /\ \A x : Cardinality({x}) = 1
      BY FS_EmptySet, FS_Singleton
    <3>2. \/ Cardinality(K) = 0 /\ Cardinality(T) = 1
          \/ Cardinality(K) = 1 /\ Cardinality(T) = 0
      BY <2>3, <3>1, Zenon
    <3> QED BY <3>2
  <2> QED BY <2>4 DEF K, T
<1> QED BY <1>1, WorkersInd, PTL
=============================================================================
