------------------------------- MODULE Queue -------------------------------
(***************************************************************************)
(* Queue<T, N> of src/lib.rs: push, force_push, pop and drop, called by    *)
(* concurrent threads.  One action is one access to shared memory, with    *)
(* the thread-local computation up to the next access.                     *)
(*                                                                         *)
(* Memory model.  head and tail change by SeqCst operations only, which    *)
(* are interleaved steps.  With StaleLoads a Relaxed load of head or tail  *)
(* may return an older value, though none older than one the same call has *)
(* already seen, and an Acquire load of a stamp may return an older stamp  *)
(* (more than a real machine allows: coherence across calls is left out).  *)
(* After fence(SeqCst) a load returns a value that was current after the   *)
(* fence: the fence and the load are one step.                             *)
(***************************************************************************)
EXTENDS Positions, Sequences

CONSTANTS
  Threads,     \* the callers
  Values,      \* the payloads
  NoValue,     \* an uninitialised or moved-out MaybeUninit<T>
  Ops,         \* the operations the callers of this instance use
  MaxCalls,    \* bound: calls each thread makes
  StaleLoads   \* may Relaxed loads return stale values?

ASSUME ValuesAssumption == NoValue \notin Values
ASSUME OpsAssumption == Ops \subseteq {"push", "force", "pop"}
ASSUME BoundsAssumption == MaxCalls \in Nat /\ StaleLoads \in BOOLEAN

VARIABLES
  head, tail,  \* the two positions
  stamp,       \* per slot: Slot::stamp
  value,       \* per slot: Slot::value; NoValue once read() moved it out
  pc,          \* per thread: its next access, or the answer it returned
  op,          \* per thread: the operation of its current or last call
  pos,         \* per thread: the local `tail` (push_or_else) or `head` (pop)
  val,         \* per thread: the value it brings in or takes out
  calls,       \* per thread: calls made so far
  alive        \* FALSE once dropped

shared == <<head, tail, stamp, value, alive>>
local  == <<pc, op, pos, val, calls>>
vars   == <<shared, local>>

\* Between calls pc is the answer of the last call.
Answered == {"Rest", "Ok", "Err", "None", "Some"}
AtRest(t) == pc[t] \in Answered

\* The control states of the three loops.
PushSteps  == {"LoadTail", "TailStamp", "CasTail", "Full"}
PopSteps   == {"LoadHead", "HeadStamp", "CasHead", "Empty"}
OwnerSteps == {"Write", "Publish", "StoreTail", "Replace", "Restamp", "Read", "Release"}

\* Thread t has won a compare-and-swap for slot pos[t].idx and has not yet
\* handed the slot on by storing its stamp.
Owns(t) == pc[t] \in OwnerSteps

\* Thread t will still compare its loaded position with shared memory.
Holds(t) == pc[t] \in {"TailStamp", "CasTail", "Full", "HeadStamp", "CasHead", "Empty"}

\* Bound: while a thread holds a loaded position the queue does not run so many
\* laps ahead that the word of that position comes around again (2^64 / one_lap
\* laps with 64-bit words).
InReach(p, newTail) == newTail.lap + 1 - p.lap < Laps
NotOvertaken(newTail) == \A u \in Threads : Holds(u) => InReach(pos[u], newTail)

\* What a Relaxed load of a position that is now `cur` can return to a thread
\* that has already seen `seen`.
Relaxed(cur, seen) ==
  IF StaleLoads
  THEN {p \in [lap : 0 .. cur.lap, idx : Slots] :
          Leq(seen, p) /\ Leq(p, cur) /\ InReach(p, tail)}
  ELSE {cur}

\* What an Acquire load of the stamp of slot i can return.
Acquired(i) ==
  IF StaleLoads
  THEN {s \in [lap : 0 .. stamp[i].lap, idx : {i, i + 1}] :
          Leq(s, stamp[i]) /\ InReach(s, tail)}
  ELSE {stamp[i]}

Goto(t, next) == pc' = [pc EXCEPT ![t] = next]

\* The call ends: its locals are gone, `answer` and val[t] go to the caller.
Return(t, answer) ==
  /\ Goto(t, answer)
  /\ pos' = [pos EXCEPT ![t] = Origin]

-----------------------------------------------------------------------------
(* The kinds of access to shared memory that the actions are made of.      *)

\* A load, or a failed compare-and-swap, gives thread t a new local position.
Reload(t, cur, next) ==
  /\ \E p \in Relaxed(cur, pos[t]) : pos' = [pos EXCEPT ![t] = p]
  /\ Goto(t, next)
  /\ UNCHANGED <<shared, op, val, calls>>

\* A load decides where to go on, or that the call is over.
Retry(t, next) == Goto(t, next) /\ UNCHANGED <<shared, op, pos, val, calls>>
GiveUp(t, answer) == Return(t, answer) /\ UNCHANGED <<shared, op, val, calls>>

MoveTail(t, next) ==
  /\ NotOvertaken(Succ(pos[t]))
  /\ tail' = Succ(pos[t])
  /\ Goto(t, next)
  /\ UNCHANGED <<head, stamp, value, alive, op, pos, val, calls>>

MoveHead(t, newHead, next) ==
  /\ head' = newHead
  /\ Goto(t, next)
  /\ UNCHANGED <<tail, stamp, value, alive, op, pos, val, calls>>

\* The owner of a slot leaves `inside` in it and goes on with `outside`.
Swap(t, inside, outside, next) ==
  /\ value' = [value EXCEPT ![pos[t].idx] = inside]
  /\ val' = [val EXCEPT ![t] = outside]
  /\ Goto(t, next)
  /\ UNCHANGED <<head, tail, stamp, alive, op, pos, calls>>

\* slot.stamp_store(s): the owner hands its slot on and returns.
HandOn(t, s, answer) ==
  /\ stamp' = [stamp EXCEPT ![pos[t].idx] = s]
  /\ Return(t, answer)
  /\ UNCHANGED <<head, tail, value, alive, op, val, calls>>

-----------------------------------------------------------------------------
\* Queue::new()
NewQueue ==
  /\ head = Origin
  /\ tail = Origin
  /\ stamp = [i \in Slots |-> [lap |-> 0, idx |-> i]]
  /\ value = [i \in Slots |-> NoValue]
  /\ alive = TRUE

NoCalls ==
  /\ pc = [t \in Threads |-> "Rest"]
  /\ op = [t \in Threads |-> "pop"]
  /\ pos = [t \in Threads |-> Origin]
  /\ val = [t \in Threads |-> NoValue]
  /\ calls = [t \in Threads |-> 0]

Init == NewQueue /\ NoCalls

Begin(t, o, v, first) ==
  /\ AtRest(t) /\ alive
  /\ o \in Ops
  /\ op' = [op EXCEPT ![t] = o]
  /\ val' = [val EXCEPT ![t] = v]
  /\ Goto(t, first)
  /\ UNCHANGED <<shared, pos>>

Call(t, o, v, first) ==
  /\ Begin(t, o, v, first)
  /\ calls[t] < MaxCalls
  /\ calls' = [calls EXCEPT ![t] = @ + 1]

CallPush(t) == \E v \in Values : Call(t, "push", v, "LoadTail")
CallForcePush(t) == \E v \in Values : Call(t, "force", v, "LoadTail")
CallPop(t) == Call(t, "pop", NoValue, "LoadHead")

-----------------------------------------------------------------------------
(* push_or_else: the loop shared by push and force_push.                   *)

\* let mut tail = self.tail.0.load(Relaxed), and the reloads after a backoff.
LoadTail(t) == pc[t] = "LoadTail" /\ Reload(t, tail, "TailStamp")

\* The stamp decides: free for this position, still full from the last lap, or
\* neither (another thread is at work there, or our tail is old): snooze, retry.
TailStamp(t) ==
  /\ pc[t] = "TailStamp"
  /\ \E s \in Acquired(pos[t].idx) :
       \/ Same(pos[t], s) /\ Retry(t, "CasTail")
       \/ Same(AddLap(s), PlusOne(pos[t])) /\ Retry(t, "Full")
       \/ /\ ~Same(pos[t], s)
          /\ ~Same(AddLap(s), PlusOne(pos[t]))
          /\ Retry(t, "LoadTail")

\* Mutant of CasTailOk: a plain store in place of the compare-and-swap.
CasTailStore(t) == pc[t] = "CasTail" /\ MoveTail(t, "Write")

CasTailOk(t) ==
  /\ pc[t] = "CasTail"
  /\ Same(tail, pos[t])
  /\ MoveTail(t, "Write")

\* compare_exchange_weak lost the race, or failed spuriously: Err(t) is the new
\* local tail and the loop goes straight back to the stamp.
CasTailErr(t) == pc[t] = "CasTail" /\ Reload(t, tail, "TailStamp")

\* slot.write_value(value)
Write(t) == pc[t] = "Write" /\ Swap(t, val[t], NoValue, "Publish")

\* Mutant of Publish: returns without storing the stamp.
PublishUnstamped(t) ==
  /\ pc[t] = "Publish"
  /\ GiveUp(t, IF op[t] = "push" THEN "Ok" ELSE "None")

\* slot.stamp_store(tail + 1); Ok(()), which force_push turns into None.
Publish(t) ==
  /\ pc[t] = "Publish"
  /\ HandOn(t, PlusOne(pos[t]), IF op[t] = "push" THEN "Ok" ELSE "None")

-----------------------------------------------------------------------------
(* The closures of push and of force_push, called when the slot is full.   *)

\* Mutant of PushFull: takes the stamp's word for it.
PushFullUnchecked(t) == pc[t] = "Full" /\ op[t] = "push" /\ GiveUp(t, "Err")

\* Mutant of PushFull: without the fence, head may be stale.
PushFullUnfenced(t) ==
  /\ pc[t] = "Full" /\ op[t] = "push"
  /\ \E h \in Relaxed(head, Origin) :
       \/ Same(AddLap(h), pos[t]) /\ GiveUp(t, "Err")
       \/ ~Same(AddLap(h), pos[t]) /\ Retry(t, "LoadTail")

\* fence(SeqCst); is head one lap behind our tail?  Then Err(v), else retry.
PushFull(t) ==
  /\ pc[t] = "Full" /\ op[t] = "push"
  /\ \/ Same(AddLap(head), pos[t]) /\ GiveUp(t, "Err")
     \/ ~Same(AddLap(head), pos[t]) /\ Retry(t, "LoadTail")

\* Mutants of ForceCasOk: a plain store to head; new_head computed from tail in
\* place of new_tail.
ForceStore(t) ==
  /\ pc[t] = "Full" /\ op[t] = "force"
  /\ MoveHead(t, SubLap(Succ(pos[t])), "StoreTail")
ForceCasOldHead(t) ==
  /\ pc[t] = "Full" /\ op[t] = "force"
  /\ Same(head, SubLap(pos[t]))
  /\ MoveHead(t, SubLap(pos[t]), "StoreTail")

\* Take the oldest position away from the poppers.
ForceCasOk(t) ==
  /\ pc[t] = "Full" /\ op[t] = "force"
  /\ Same(head, SubLap(pos[t]))
  /\ MoveHead(t, SubLap(Succ(pos[t])), "StoreTail")

ForceCasErr(t) == pc[t] = "Full" /\ op[t] = "force" /\ Retry(t, "LoadTail")

\* self.tail.0.store(new_tail, SeqCst): a plain store, not a compare-and-swap.
StoreTail(t) == pc[t] = "StoreTail" /\ MoveTail(t, "Replace")

\* Mutant of Replace: leaves the old value in the slot and returns the new one.
ReplaceNot(t) == pc[t] = "Replace" /\ Swap(t, value[pos[t].idx], val[t], "Restamp")

\* let old = slot.replace_value(v)
Replace(t) == pc[t] = "Replace" /\ Swap(t, val[t], value[pos[t].idx], "Restamp")

\* slot.stamp_store(tail + 1); Err(old), which .err() turns into Some(old).
Restamp(t) == pc[t] = "Restamp" /\ HandOn(t, PlusOne(pos[t]), "Some")

-----------------------------------------------------------------------------
(* pop                                                                     *)

LoadHead(t) == pc[t] = "LoadHead" /\ Reload(t, head, "HeadStamp")

\* Published for this position, not yet pushed to, or neither: snooze, retry.
HeadStamp(t) ==
  /\ pc[t] = "HeadStamp"
  /\ \E s \in Acquired(pos[t].idx) :
       \/ Same(PlusOne(pos[t]), s) /\ Retry(t, "CasHead")
       \/ Same(s, pos[t]) /\ Retry(t, "Empty")
       \/ /\ ~Same(PlusOne(pos[t]), s)
          /\ ~Same(s, pos[t])
          /\ Retry(t, "LoadHead")

\* Mutant of CasHeadOk: a plain store in place of the compare-and-swap.
CasHeadStore(t) == pc[t] = "CasHead" /\ MoveHead(t, Succ(pos[t]), "Read")

CasHeadOk(t) ==
  /\ pc[t] = "CasHead"
  /\ Same(head, pos[t])
  /\ MoveHead(t, Succ(pos[t]), "Read")

CasHeadErr(t) == pc[t] = "CasHead" /\ Reload(t, head, "HeadStamp")

\* let msg = slot.read_value(): moves the value out of the slot.
Read(t) == pc[t] = "Read" /\ Swap(t, NoValue, value[pos[t].idx], "Release")

\* Mutant of Release: the stamp of this lap, without wrapping_add(one_lap).
ReleaseSameLap(t) == pc[t] = "Release" /\ HandOn(t, pos[t], "Some")

\* slot.stamp_store(head.wrapping_add(one_lap)); Some(msg)
Release(t) == pc[t] = "Release" /\ HandOn(t, AddLap(pos[t]), "Some")

\* Mutant of Empty: takes the stamp's word for it.
EmptyUnchecked(t) == pc[t] = "Empty" /\ GiveUp(t, "None")

\* Mutant of Empty: without the fence, tail may be stale.
EmptyUnfenced(t) ==
  /\ pc[t] = "Empty"
  /\ \E p \in Relaxed(tail, Origin) :
       \/ Same(p, pos[t]) /\ GiveUp(t, "None")
       \/ ~Same(p, pos[t]) /\ Retry(t, "LoadHead")

\* fence(SeqCst); is tail where our head is?  Then None, else retry.
Empty(t) ==
  /\ pc[t] = "Empty"
  /\ \/ Same(tail, pos[t]) /\ GiveUp(t, "None")
     \/ ~Same(tail, pos[t]) /\ Retry(t, "LoadHead")

-----------------------------------------------------------------------------
(* drop                                                                    *)

\* Mutant of LenOf: equal indices are taken for an empty queue.
LenOfNeverFull(h, t) ==
  IF h.idx < t.idx THEN t.idx - h.idx
  ELSE IF h.idx > t.idx THEN N - h.idx + t.idx
  ELSE 0

\* The length that drop() and len() compute from the two words.
LenOf(h, t) ==
  IF h.idx < t.idx THEN t.idx - h.idx
  ELSE IF h.idx > t.idx THEN N - h.idx + t.idx
  ELSE IF Same(t, h) THEN 0 ELSE N

\* Mutant of DropIndex: counts from slot 0 in place of head's.
DropIndexFromZero(i) == i

\* The slot drop() visits in its i-th iteration, and all it visits.
DropIndex(i) == IF head.idx + i < N THEN head.idx + i ELSE head.idx + i - N
DropSlots == {DropIndex(i) : i \in 0 .. (LenOf(head, tail) - 1)}

\* drop(&mut self): the exclusive borrow means that no call is in progress.
Drop ==
  /\ alive
  /\ \A t \in Threads : AtRest(t)
  /\ value' = [i \in Slots |-> IF i \in DropSlots THEN NoValue ELSE value[i]]
  /\ alive' = FALSE
  /\ UNCHANGED <<head, tail, stamp, local>>

-----------------------------------------------------------------------------
Push(t) ==
  \/ LoadTail(t) \/ TailStamp(t) \/ CasTailOk(t) \/ CasTailErr(t)
  \/ Write(t) \/ Publish(t) \/ PushFull(t)

ForcePush(t) ==
  \/ ForceCasOk(t) \/ ForceCasErr(t) \/ StoreTail(t) \/ Replace(t) \/ Restamp(t)

Pop(t) ==
  \/ LoadHead(t) \/ HeadStamp(t) \/ CasHeadOk(t) \/ CasHeadErr(t)
  \/ Read(t) \/ Release(t) \/ Empty(t)

Step(t) == Push(t) \/ ForcePush(t) \/ Pop(t)

Next ==
  \/ \E t \in Threads : CallPush(t) \/ CallForcePush(t) \/ CallPop(t) \/ Step(t)
  \/ Drop

Spec == Init /\ [][Next]_vars

-----------------------------------------------------------------------------
(* Properties                                                              *)

TypeOK ==
  /\ head \in Position /\ tail \in Position
  /\ stamp \in [Slots -> Stamp]
  /\ value \in [Slots -> Values \cup {NoValue}]
  /\ pc \in [Threads -> Answered \cup PushSteps \cup PopSteps \cup OwnerSteps]
  /\ op \in [Threads -> {"push", "force", "pop"}]
  /\ pos \in [Threads -> Position]
  /\ val \in [Threads -> Values \cup {NoValue}]
  /\ calls \in [Threads -> 0 .. MaxCalls]
  /\ alive \in BOOLEAN

\* No two threads are ever between a won compare-and-swap and the stamp store
\* for the same slot, so write_value, read_value and replace_value never race:
\* the SAFETY comments of Slot ("caller owns this slot") and of force_push.
SlotExclusive ==
  \A t, u \in Threads :
    t # u /\ Owns(t) /\ Owns(u) => pos[t].idx # pos[u].idx

\* assume_init() is only ever applied to a value that was written and not yet
\* moved out, and write_value never overwrites one: nothing is read twice,
\* nothing leaks.
ValuesLive ==
  \A t \in Threads :
    /\ pc[t] \in {"Read", "StoreTail", "Replace"} => value[pos[t].idx] # NoValue
    /\ pc[t] = "Write" => value[pos[t].idx] = NoValue

\* Whenever drop() may run, the slots it derives from head and tail are exactly
\* those that hold a value: none is leaked, none is dropped twice.
DropExact ==
  alive /\ (\A t \in Threads : AtRest(t)) => DropSlots = {i \in Slots : value[i] # NoValue}

\* head and tail only ever move to the next position, although force_push
\* stores tail unconditionally and computes head from its own local tail; and
\* they never move apart by more than one lap or cross.
PositionsAdvance ==
  [][/\ head' # head => head' = Succ(head)
     /\ tail' # tail => tail' = Succ(tail)
     /\ Leq(head', tail') /\ Leq(tail', AddLap(head'))]_<<head, tail>>

\* The stamp of a slot only ever grows, and by at most one lap at a time, whoever
\* stores it: a stamp that a loop has read and that has been replaced since does not
\* come back, so a compare-and-swap won on the strength of it is still justified.
StampsAdvance ==
  [][\A i \in Slots : Leq(stamp[i], stamp'[i]) /\ Leq(stamp'[i], AddLap(stamp[i]))]_stamp

\* No call waits for a slot that no thread is at work on: there, the stamp settles
\* what a push with the current tail and a pop with the current head do.  The push
\* finds the slot free, or full, and then head one lap behind, so that push returns
\* Err and force_push may evict; the pop finds a value, or none, and then tail where
\* head is.  The retries of push_or_else and pop ("else" branches, `snooze`) are for
\* loads that are old and for slots in use.
NoIdleWait ==
  LET InUse(i) == \E t \in Threads : Owns(t) /\ pos[t].idx = i IN
  /\ ~InUse(tail.idx) =>
       LET s == stamp[tail.idx] IN
       \/ Same(tail, s)
       \/ Same(AddLap(s), PlusOne(tail)) /\ Same(AddLap(head), tail)
  /\ ~InUse(head.idx) =>
       LET s == stamp[head.idx] IN
       \/ Same(PlusOne(head), s)
       \/ Same(s, head) /\ Same(tail, head)

-----------------------------------------------------------------------------
(* Linearizability: the queue implements Fifo.  An operation takes effect  *)
(* when it moves a position by compare-and-swap, or, if it fails, when it  *)
(* loads the other position after its fence.                               *)

\* A force_push that has taken the oldest position has also appended its value,
\* although its store to tail is still to come.
LogicalTail == IF \E t \in Threads : pc[t] = "StoreTail" THEN Succ(tail) ELSE tail

\* The value pushed to position p: in the slot, or still on its way there.
ValueAt(p) ==
  IF \E t \in Threads : pc[t] \in {"Write", "StoreTail", "Replace"} /\ pos[t] = p
  THEN val[CHOOSE t \in Threads : pc[t] \in {"Write", "StoreTail", "Replace"} /\ pos[t] = p]
  ELSE value[p.idx]

Contents ==
  IF alive
  THEN [k \in 1 .. Distance(head, LogicalTail) |-> ValueAt(Advance(head, k - 1))]
  ELSE <<>>

\* The pending request or the answer of thread t, from where it stands.
CallOf(t) ==
  LET R(tag, v) == [tag |-> tag, val |-> v] IN
  CASE AtRest(t) \/ pc[t] \in {"Release", "Restamp"} ->
         R(IF AtRest(t) THEN pc[t] ELSE "Some", val[t])
    [] pc[t] \in {"Write", "Publish"} ->
         R(IF op[t] = "push" THEN "Ok" ELSE "None", NoValue)
    [] pc[t] \in {"Read", "StoreTail", "Replace"} -> R("Some", value[pos[t].idx])
    [] OTHER -> R(op[t], val[t])

Abstract == INSTANCE Fifo WITH
  queue <- Contents,
  call  <- [t \in Threads |-> CallOf(t)]

\* Every behaviour of the queue is one of the atomic bounded FIFO: values come
\* out in the order they went in, exactly once; push fails only when N values
\* are stored and pop only when none is (the guarantee of heapless#583 that
\* tests/repro583.rs and tests/smoke.rs look for); force_push evicts the
\* oldest value, and only from a full queue.
Linearizable == Abstract!Spec
=============================================================================
