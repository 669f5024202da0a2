------------------------------- MODULE Fifo --------------------------------
(***************************************************************************)
(* What Queue<T, N> promises: a FIFO of at most N values whose operations  *)
(* take effect at one instant between their call and their return.         *)
(*                                                                         *)
(* call[t] is the request thread t is waiting on, or the answer to its     *)
(* last request once that took effect.  This is the VecDeque oracle of     *)
(* tests/differential.rs, shared by concurrent callers.                    *)
(***************************************************************************)
EXTENDS Integers, Sequences

CONSTANTS N, Threads, Values, NoValue

VARIABLES
  queue,   \* the values stored, oldest first
  call,    \* per thread: the pending request or the last answer
  alive    \* FALSE once the queue has been dropped

fifoVars == <<queue, call, alive>>

Requests == [tag : {"push", "force"}, val : Values] \cup [tag : {"pop"}, val : {NoValue}]
Answers  == [tag : {"Err", "Some"}, val : Values]
            \cup [tag : {"Rest", "Ok", "None"}, val : {NoValue}]

Pending(t, tag) == call[t].tag = tag /\ alive

Answer(t, tag, val) == call' = [call EXCEPT ![t] = [tag |-> tag, val |-> val]]

Init ==
  /\ queue = <<>>
  /\ call = [t \in Threads |-> [tag |-> "Rest", val |-> NoValue]]
  /\ alive = TRUE

\* A thread that has its answer makes the next request.
Request(t) ==
  /\ call[t] \in Answers
  /\ \E r \in Requests : call' = [call EXCEPT ![t] = r]
  /\ alive
  /\ UNCHANGED <<queue, alive>>

\* push: Ok(()) if there was room, Err(v) if the queue was full.
Push(t) ==
  /\ Pending(t, "push")
  /\ \/ /\ Len(queue) < N
        /\ queue' = Append(queue, call[t].val)
        /\ Answer(t, "Ok", NoValue)
     \/ /\ Len(queue) = N
        /\ Answer(t, "Err", call[t].val)
        /\ UNCHANGED queue
  /\ UNCHANGED alive

\* force_push: None if there was room, else Some(oldest) in exchange for v.
ForcePush(t) ==
  /\ Pending(t, "force")
  /\ \/ /\ Len(queue) < N
        /\ queue' = Append(queue, call[t].val)
        /\ Answer(t, "None", NoValue)
     \/ /\ Len(queue) = N
        /\ queue' = Append(Tail(queue), call[t].val)
        /\ Answer(t, "Some", Head(queue))
  /\ UNCHANGED alive

\* pop: Some(oldest), or None if the queue was empty.
Pop(t) ==
  /\ Pending(t, "pop")
  /\ \/ /\ queue # <<>>
        /\ queue' = Tail(queue)
        /\ Answer(t, "Some", Head(queue))
     \/ /\ queue = <<>>
        /\ Answer(t, "None", NoValue)
        /\ UNCHANGED queue
  /\ UNCHANGED alive

\* drop(&mut self): nobody else is using the queue; the values go with it.
Discard ==
  /\ alive
  /\ \A t \in Threads : call[t] \in Answers
  /\ alive' = FALSE
  /\ queue' = <<>>
  /\ UNCHANGED call

Next ==
  \/ \E t \in Threads : Request(t) \/ Push(t) \/ ForcePush(t) \/ Pop(t)
  \/ Discard

Spec == Init /\ [][Next]_fifoVars
=============================================================================
