------------------------------ MODULE QueueAba ------------------------------
(***************************************************************************)
(* Queue without the bound NotOvertaken: a thread may be preempted between *)
(* its load of a position and its compare-and-swap for any number of laps. *)
(* Words are all the program can compare, so the compare-and-swap succeeds *)
(* when the word has come around.  What it then acts on is the current     *)
(* position, which has the same word.  push and pop only.                  *)
(***************************************************************************)
EXTENDS Queue

CasTailAnyLap(t) ==
  /\ pc[t] = "CasTail"
  /\ Same(tail, pos[t])
  /\ tail' = Succ(tail)
  /\ pos' = [pos EXCEPT ![t] = tail]
  /\ Goto(t, "Write")
  /\ UNCHANGED <<head, stamp, value, alive, op, val, calls>>

CasHeadAnyLap(t) ==
  /\ pc[t] = "CasHead"
  /\ Same(head, pos[t])
  /\ head' = Succ(head)
  /\ pos' = [pos EXCEPT ![t] = head]
  /\ Goto(t, "Read")
  /\ UNCHANGED <<tail, stamp, value, alive, op, val, calls>>

PushAnyLap(t) ==
  \/ LoadTail(t) \/ TailStamp(t) \/ CasTailAnyLap(t) \/ CasTailErr(t)
  \/ Write(t) \/ Publish(t) \/ PushFull(t)

PopAnyLap(t) ==
  \/ LoadHead(t) \/ HeadStamp(t) \/ CasHeadAnyLap(t) \/ CasHeadErr(t)
  \/ Read(t) \/ Release(t) \/ Empty(t)

StepAnyLap(t) == CallPush(t) \/ CallPop(t) \/ PushAnyLap(t) \/ PopAnyLap(t)

AbaSpec == Init /\ [][\E t \in Threads : StepAnyLap(t)]_vars
=============================================================================
