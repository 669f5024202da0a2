------------------------------ MODULE Workers ------------------------------
(***************************************************************************)
(* The regression tests for heapless#583 (tests/repro583.rs, and           *)
(* regression_583_no_panic_under_contention of tests/smoke.rs): workers    *)
(* that take items out of a full queue and put them back, and workers that *)
(* put one in and take one out.  The bound MaxCalls of Queue stands for    *)
(* their number of rounds, two calls each.                                 *)
(***************************************************************************)
EXTENDS Queue, FiniteSets

\* The first test enqueues N items, each different, before the workers start; in
\* the second there are "max 2 items in flight < N", one per worker.
ASSUME WorkersAssumption ==
  /\ IsFiniteSet(Values) /\ Cardinality(Values) = N
  /\ IsFiniteSet(Threads) /\ Cardinality(Threads) <= N

VARIABLE test   \* which of the two tests this is: "refill" or "pass"

\* The state after `new()` and N calls of enqueue, with N different items.
Filled ==
  /\ head = Origin
  /\ tail = AddLap(Origin)
  /\ stamp = [i \in Slots |-> PlusOne([lap |-> 0, idx |-> i])]
  /\ value \in {f \in [Slots -> Values] : \A i, j \in Slots : i # j => f[i] # f[j]}
  /\ alive = TRUE
  /\ NoCalls

-----------------------------------------------------------------------------
(* dequeue, then enqueue what came out, on a queue that starts full.       *)

\* if let Some(v) = q0.dequeue()
TakeOut(t) == pc[t] \in {"Rest", "None", "Ok"} /\ CallPop(t)

\* q0.enqueue(v); a worker whose enqueue fails panics (the queue that its
\* message drains is then of no use to anybody) and makes no more calls.
PutBack(t) == pc[t] = "Some" /\ Call(t, "push", val[t], "LoadTail")

-----------------------------------------------------------------------------
(* enqueue, then dequeue, on a queue that starts empty.                    *)

\* q0.enqueue(k as u8).unwrap()
PutIn(t) == pc[t] \in {"Rest", "Some"} /\ CallPush(t)

\* if q0.dequeue().is_none() { panic!(..) }
TakeAny(t) == pc[t] = "Ok" /\ CallPop(t)

-----------------------------------------------------------------------------
WorkersInit ==
  \/ test = "refill" /\ Filled
  \/ test = "pass" /\ Init

Work(t) ==
  \/ test = "refill" /\ (TakeOut(t) \/ PutBack(t))
  \/ test = "pass" /\ (PutIn(t) \/ TakeAny(t))
  \/ Step(t)

WorkersSpec ==
  WorkersInit /\ [][(\E t \in Threads : Work(t)) /\ UNCHANGED test]_<<vars, test>>

-----------------------------------------------------------------------------
(* Properties                                                              *)

\* No worker ever sees a full queue: "enqueue fails on a non-full queue under
\* contention" in heapless::mpmc, and must not here.  A worker that enqueues has
\* room for its item, be it in a slot whose popper has not yet stored the stamp.
NeverFull == \A t \in Threads : pc[t] # "Err"

\* A worker that dequeues after its own enqueue finds an item, be it another's:
\* "a `None` here would be a linearizability violation, not just a panic".
NeverEmpty == test = "pass" => \A t \in Threads : op[t] = "pop" => pc[t] # "None"

\* "All N items survive", and they do at every instant: each of the N values is in
\* the queue once or in the hands of one worker.
ItemsSurvive ==
  test = "refill" =>
    \A v \in Values :
      Cardinality({k \in DOMAIN Contents : Contents[k] = v})
        + Cardinality({t \in Threads : CallOf(t).val = v}) = 1
=============================================================================
