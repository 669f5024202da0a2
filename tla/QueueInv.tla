------------------------------ MODULE QueueInv ------------------------------
(***************************************************************************)
(* The inductive invariant of Queue.                                       *)
(*                                                                         *)
(* The argument is local to a slot.  PushLap(i) and PopLap(i) are the laps *)
(* in which slot i will next be pushed to and popped from.  They are equal *)
(* while the slot is free and one apart while it is taken; the stamp says  *)
(* which, except while a thread owns the slot, when it lags behind.        *)
(***************************************************************************)
EXTENDS Queue

PushLap(i) == LapAt(tail, i)
PopLap(i)  == LapAt(head, i)

Pair(l, i) == [lap |-> l, idx |-> i]

\* tail is at most one lap ahead of head, and never behind it.
Window == Leq(head, tail) /\ Leq(tail, AddLap(head))

\* A slot that nobody owns is free, and stamped for the next push, or holds a
\* value, and is stamped for the next pop.
FreeSlot(i) ==
  /\ PushLap(i) = PopLap(i)
  /\ stamp[i] = Pair(PushLap(i), i)
  /\ alive => value[i] = NoValue

FullSlot(i) ==
  /\ PushLap(i) = PopLap(i) + 1
  /\ stamp[i] = Pair(PopLap(i), i + 1)
  /\ alive => value[i] \in Values

Owned(i) == \E t \in Threads : Owns(t) /\ pos[t].idx = i

Unowned == \A i \in Slots : ~Owned(i) => FreeSlot(i) \/ FullSlot(i)

\* A pusher's slot counts as taken, and its stamp still says free.
Pushing(t, i) ==
  /\ pos[t] = Pair(PopLap(i), i)
  /\ PushLap(i) = PopLap(i) + 1
  /\ stamp[i] = pos[t]

\* A popper's slot counts as free, and its stamp still says taken.
Popping(t, i) ==
  /\ PushLap(i) = PopLap(i)
  /\ PopLap(i) = pos[t].lap + 1
  /\ stamp[i] = Pair(pos[t].lap, i + 1)

\* A force_push that has moved head and not yet tail: the slot counts as free,
\* but is the very slot tail points at, and its stamp says taken.
Evicting(t, i) ==
  /\ pos[t] = tail
  /\ PopLap(i) = tail.lap
  /\ stamp[i] = Pair(tail.lap - 1, i + 1)
  /\ tail.lap >= 1

\* It has moved both: taken again, one lap on, with the stamp of the last lap.
Replacing(t, i) ==
  /\ pos[t] = Pair(PopLap(i), i)
  /\ PushLap(i) = PopLap(i) + 1
  /\ stamp[i] = Pair(pos[t].lap - 1, i + 1)
  /\ pos[t].lap >= 1

OwnerInv(t) ==
  LET i == pos[t].idx IN
  /\ pc[t] = "Write"     => Pushing(t, i)   /\ value[i] = NoValue /\ val[t] \in Values
  /\ pc[t] = "Publish"   => Pushing(t, i)   /\ value[i] \in Values
  /\ pc[t] = "Read"      => Popping(t, i)   /\ value[i] \in Values
  /\ pc[t] = "Release"   => Popping(t, i)   /\ value[i] = NoValue
  /\ pc[t] = "StoreTail" => Evicting(t, i)  /\ value[i] \in Values /\ val[t] \in Values
  /\ pc[t] = "Replace"   => Replacing(t, i) /\ value[i] \in Values /\ val[t] \in Values
  /\ pc[t] = "Restamp"   => Replacing(t, i) /\ value[i] \in Values

\* What a thread in a loop knows: its position is not ahead of the shared one
\* and not a whole word behind, and the stamp is at least what it has read.
LoopInv(t) ==
  LET s == stamp[pos[t].idx] IN
  /\ pc[t] \in PushSteps => val[t] \in Values
  /\ pc[t] \in {"TailStamp", "CasTail", "Full"} => Leq(pos[t], tail) /\ InReach(pos[t], tail)
  /\ pc[t] \in {"HeadStamp", "CasHead", "Empty"} => Leq(pos[t], head) /\ InReach(pos[t], tail)
  /\ pc[t] \in {"CasTail", "Empty"} => Leq(pos[t], s)
  /\ pc[t] = "Full"    => Leq(PlusOne(pos[t]), AddLap(s)) /\ pos[t].lap >= 1
  /\ pc[t] = "CasHead" => Leq(PlusOne(pos[t]), s)

\* Dropping needs the exclusive borrow, and nothing is called afterwards.
Quiet == ~alive => \A t \in Threads : AtRest(t)

\* The inductive invariant: every step of push, force_push, pop and drop in
\* src/lib.rs preserves it.
IndInv ==
  /\ TypeOK
  /\ Window
  /\ SlotExclusive
  /\ Unowned
  /\ \A t \in Threads : OwnerInv(t) /\ LoopInv(t)
  /\ Quiet

\* What a thread carries at each point of its call: the value it brings in, the
\* value it takes out, or nothing.  Needed for the refinement only.
Carries(t) ==
  /\ pc[t] \in {"Rest", "Ok", "None", "Publish"} \cup PopSteps => val[t] = NoValue
  /\ pc[t] \in {"Err", "Some", "Release", "Restamp"} => val[t] \in Values
  /\ pc[t] \in PopSteps => op[t] = "pop"
  /\ pc[t] \in PushSteps \cup {"Write", "Publish"} => op[t] \in {"push", "force"}

CallInv == \A t \in Threads : Carries(t)

\* Thread t begins a call, whether or not somebody counts it.
Begins(t) ==
  \/ \E v \in Values : Begin(t, "push", v, "LoadTail") \/ Begin(t, "force", v, "LoadTail")
  \/ Begin(t, "pop", NoValue, "LoadHead")
=============================================================================
