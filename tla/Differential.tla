---------------------------- MODULE Differential ----------------------------
(***************************************************************************)
(* The fuzz target fuzz/fuzz_targets/queue_differential.rs, and check_ops  *)
(* of tests/differential.rs: one thread runs any sequence of operations on *)
(* a queue and on a VecDeque, and asserts after each that they agree.      *)
(* At the end the queue goes out of scope, as Dropping models it.          *)
(* The bound MaxCalls of Queue is the target's take(4096).                 *)
(***************************************************************************)
EXTENDS Dropping

CONSTANT Fuzzer   \* the only thread

ASSUME FuzzerAssumption == Threads = {Fuzzer}

VARIABLES
  model,   \* the VecDeque
  todo     \* the Op whose answer has not been compared yet, or "none"

allVars == <<vars, dropVars, model, todo>>

\* What the queue answered, and the answer written as (tag, value).
Answer == [tag |-> pc[Fuzzer], val |-> val[Fuzzer]]
Says(tag, v) == [tag |-> tag, val |-> v]

\* model.pop_front()
PopFront == IF model = <<>> THEN Says("None", NoValue) ELSE Says("Some", Head(model))

\* The right-hand side of the assertion for the operation o on value v.
Expected(o, v) ==
  CASE o = "push"  -> IF Len(model) < N THEN Says("Ok", NoValue) ELSE Says("Err", v)
    [] o = "force" -> IF Len(model) = N THEN PopFront ELSE Says("None", NoValue)
    [] o = "pop"   -> PopFront

\* What the target does to its VecDeque for that operation.
Updated(o, v) ==
  CASE o = "push"  -> IF Len(model) < N THEN Append(model, v) ELSE model
    [] o = "force" -> Append(IF Len(model) = N THEN Tail(model) ELSE model, v)
    [] o = "pop"   -> IF model = <<>> THEN model ELSE Tail(model)

DiffInit == Init /\ BeforeDrop /\ model = <<>> /\ todo = [op |-> "none", val |-> NoValue]

\* The next Op of the input: its call on the queue begins.
StartOp ==
  /\ loop = "before" /\ todo.op = "none"
  /\ CallPush(Fuzzer) \/ CallForcePush(Fuzzer) \/ CallPop(Fuzzer)
  /\ todo' = [op |-> op'[Fuzzer], val |-> val'[Fuzzer]]
  /\ UNCHANGED <<dropVars, model>>

RunOp == Step(Fuzzer) /\ UNCHANGED <<dropVars, model, todo>>

\* The call has returned and the VecDeque follows; assert_eq! passed.
CompareOp ==
  /\ AtRest(Fuzzer) /\ todo.op # "none"
  /\ Answer = Expected(todo.op, todo.val)
  /\ model' = Updated(todo.op, todo.val)
  /\ todo' = [op |-> "none", val |-> NoValue]
  /\ UNCHANGED <<vars, dropVars>>

\* The queue goes out of scope after the last operation; its payload is taken to be
\* one that needs dropping.
EndOps == todo.op = "none" /\ DropStep /\ UNCHANGED <<model, todo>>

DiffNext == StartOp \/ RunOp \/ CompareOp \/ EndOps

DiffSpec == DiffInit /\ [][DiffNext]_allVars

-----------------------------------------------------------------------------
(* Properties                                                              *)

\* No assert_eq! of the fuzz target fails, on any sequence of operations.
AssertsHold ==
  AtRest(Fuzzer) /\ todo.op # "none" => Answer = Expected(todo.op, todo.val)

\* Between operations len(), is_empty() and is_full() agree with the VecDeque
\* (Op::Len, Op::IsEmpty, Op::IsFull of tests/differential.rs), and the values that
\* are stored from head to tail are those of the VecDeque, in its order: what
\* drop() will find.
ObserversAgree ==
  AtRest(Fuzzer) /\ todo.op = "none" /\ loop = "before" =>
    /\ LenOf(head, tail) = Len(model)
    /\ Same(tail, head) <=> model = <<>>
    /\ Same(AddLap(head), tail) <=> Len(model) = N
    /\ Contents = model
=============================================================================
