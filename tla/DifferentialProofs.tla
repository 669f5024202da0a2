------------------------- MODULE DifferentialProofs -------------------------
(***************************************************************************)
(* The fuzz target never fails an assertion, on any sequence of operations *)
(* and for any capacity, and the queue it drops at the end runs the        *)
(* destructors of what is stored, oldest first.                            *)
(*                                                                         *)
(* The first follows from the refinement: the call in flight has or has    *)
(* not yet taken effect in Fifo, and the VecDeque is what Fifo was before. *)
(***************************************************************************)
EXTENDS Differential, LinearProofs

AllOps == {"push", "force", "pop"}

\* The operation has not taken effect: the VecDeque is up to date.
InFlight ==
  /\ CallOf(Fuzzer) = Says(todo.op, todo.val)
  /\ Contents = model

\* It has: the answer and the contents are what the target is about to expect.
TookEffect ==
  /\ CallOf(Fuzzer) = Expected(todo.op, todo.val)
  /\ Contents = Updated(todo.op, todo.val)

Fuzzing ==
  /\ IndInv /\ CallInv /\ alive
  /\ i = 0 /\ gone = <<>> /\ stored = <<>>
  /\ \/ todo.op = "none" /\ AtRest(Fuzzer) /\ Contents = model
     \/ todo.op \in AllOps /\ (InFlight \/ TookEffect)

\* The loop of drop() has run i destructors; the values to come are still in
\* their slots.
DropLoop ==
  /\ todo.op = "none" /\ AtRest(Fuzzer)
  /\ head.idx \in Slots /\ LenOf(head, tail) \in 0 .. N
  /\ value \in [Slots -> Values \cup {NoValue}]
  /\ stored \in Seq(Values \cup {NoValue}) /\ Len(stored) = LenOf(head, tail)
  /\ gone \in Seq(Values \cup {NoValue}) /\ Len(gone) = i /\ i \in 0 .. Len(stored)
  /\ \A k \in 1 .. i : gone[k] = stored[k]
  /\ loop = "running" => \A k \in i .. (Len(stored) - 1) : value[DropIndex(k)] = stored[k + 1]
  /\ loop = "finished" => i = Len(stored)

DiffInv == IF loop = "before" THEN Fuzzing ELSE DropLoop

-----------------------------------------------------------------------------
(* While the target runs its operations.                                   *)

\* An operation that is in flight takes effect as the VecDeque will.
LEMMA EffectExpected ==
  ASSUME InFlight, todo.op \in AllOps, Fuzzer \in Threads, UNCHANGED <<model, todo>>,
         Abstract!Push(Fuzzer) \/ Abstract!ForcePush(Fuzzer) \/ Abstract!Pop(Fuzzer)
  PROVE  TookEffect'
<1>1. Calls[Fuzzer] = CallOf(Fuzzer) /\ Calls'[Fuzzer] = CallOf(Fuzzer)'
  BY DEF Calls
<1>2. Calls[Fuzzer].tag = todo.op /\ Calls[Fuzzer].val = todo.val /\ Contents = model
  BY <1>1 DEF InFlight, Says
<1>3. N \in Nat /\ N > 0
  BY NAssumption
<1>4. Calls = [u \in Threads |-> CallOf(u)]
  BY DEF Calls
<1> SUFFICES /\ CallOf(Fuzzer)' = Expected(todo.op, todo.val)
             /\ Contents' = Updated(todo.op, todo.val)
  BY DEF TookEffect, Expected, Updated, PopFront, Says
<1>5. CASE Abstract!Push(Fuzzer)
  <2>1. /\ Calls[Fuzzer].tag = "push"
        /\ \/ /\ Len(Contents) < N
              /\ Contents' = Append(Contents, Calls[Fuzzer].val)
              /\ Calls' = [Calls EXCEPT ![Fuzzer] = [tag |-> "Ok", val |-> NoValue]]
           \/ /\ Len(Contents) = N
              /\ Calls' = [Calls EXCEPT ![Fuzzer] = [tag |-> "Err", val |-> Calls[Fuzzer].val]]
              /\ UNCHANGED Contents
    BY <1>5 DEF Abstract!Push, Abstract!Pending, Abstract!Answer, Calls
  <2>2. todo.op = "push"
    BY <1>2, <2>1
  <2>3. /\ Expected(todo.op, todo.val) =
             IF Len(model) < N THEN Says("Ok", NoValue) ELSE Says("Err", todo.val)
        /\ Updated(todo.op, todo.val) =
             IF Len(model) < N THEN Append(model, todo.val) ELSE model
    BY <2>2 DEF Expected, Updated
  <2>4. CASE Len(Contents) < N
    <3>1. Contents' = Append(model, todo.val) /\ Len(model) < N
      BY <1>2, <1>3, <2>1, <2>4
    <3>2. Calls'[Fuzzer] = [tag |-> "Ok", val |-> NoValue]
      BY <1>3, <1>4, <2>1, <2>4
    <3> QED BY <1>1, <2>3, <3>1, <3>2 DEF Says
  <2>5. CASE Len(Contents) = N
    <3>1. Contents' = model /\ ~(Len(model) < N)
      BY <1>2, <1>3, <2>1, <2>5
    <3>2. Calls'[Fuzzer] = [tag |-> "Err", val |-> todo.val]
      BY <1>2, <1>3, <1>4, <2>1, <2>5
    <3> QED BY <1>1, <2>3, <3>1, <3>2 DEF Says
  <2> QED BY <2>1, <2>4, <2>5
<1>6. CASE Abstract!ForcePush(Fuzzer)
  <2>1. /\ Calls[Fuzzer].tag = "force"
        /\ \/ /\ Len(Contents) < N
              /\ Contents' = Append(Contents, Calls[Fuzzer].val)
              /\ Calls' = [Calls EXCEPT ![Fuzzer] = [tag |-> "None", val |-> NoValue]]
           \/ /\ Len(Contents) = N
              /\ Contents' = Append(Tail(Contents), Calls[Fuzzer].val)
              /\ Calls' = [Calls EXCEPT ![Fuzzer] = [tag |-> "Some", val |-> Head(Contents)]]
    BY <1>6 DEF Abstract!ForcePush, Abstract!Pending, Abstract!Answer, Calls
  <2>2. todo.op = "force"
    BY <1>2, <2>1
  <2>3. /\ Expected(todo.op, todo.val) =
             IF Len(model) = N THEN PopFront ELSE Says("None", NoValue)
        /\ Updated(todo.op, todo.val) =
             Append(IF Len(model) = N THEN Tail(model) ELSE model, todo.val)
    BY <2>2 DEF Expected, Updated
  <2>4. CASE Len(Contents) < N
    <3>1. Contents' = Append(model, todo.val) /\ Len(model) # N
      BY <1>2, <1>3, <2>1, <2>4
    <3>2. Calls'[Fuzzer] = [tag |-> "None", val |-> NoValue]
      BY <1>3, <1>4, <2>1, <2>4
    <3> QED BY <1>1, <2>3, <3>1, <3>2 DEF Says
  <2>5. CASE Len(Contents) = N
    <3>1. Len(model) = N /\ model # <<>>
      BY <1>2, <1>3, <2>5
    <3>2. PopFront = Says("Some", Head(model))
      BY <3>1 DEF PopFront
    <3>3. ~(Len(Contents) < N)
      BY <1>3, <2>5
    <3>4. /\ Contents' = Append(Tail(Contents), Calls[Fuzzer].val)
          /\ Calls' = [Calls EXCEPT ![Fuzzer] = [tag |-> "Some", val |-> Head(Contents)]]
      BY <2>1, <3>3, Zenon
    <3>5. Contents' = Append(Tail(model), todo.val)
      BY <1>2, <3>4, Zenon
    <3>6. Calls'[Fuzzer] = [tag |-> "Some", val |-> Head(model)]
      BY <1>2, <1>4, <3>4, Zenon
    <3>7. Updated(todo.op, todo.val) = Append(Tail(model), todo.val)
      BY <2>3, <3>1, Zenon
    <3>8. Expected(todo.op, todo.val) = Says("Some", Head(model))
      BY <2>3, <3>1, <3>2, Zenon
    <3> QED BY <1>1, <3>5, <3>6, <3>7, <3>8, Zenon DEF Says
  <2> QED BY <2>1, <2>4, <2>5
<1>7. CASE Abstract!Pop(Fuzzer)
  <2>1. /\ Calls[Fuzzer].tag = "pop"
        /\ \/ /\ Contents # <<>>
              /\ Contents' = Tail(Contents)
              /\ Calls' = [Calls EXCEPT ![Fuzzer] = [tag |-> "Some", val |-> Head(Contents)]]
           \/ /\ Contents = <<>>
              /\ Calls' = [Calls EXCEPT ![Fuzzer] = [tag |-> "None", val |-> NoValue]]
              /\ UNCHANGED Contents
    BY <1>7 DEF Abstract!Pop, Abstract!Pending, Abstract!Answer, Calls
  <2>2. todo.op = "pop"
    BY <1>2, <2>1
  <2>3. /\ Expected(todo.op, todo.val) = PopFront
        /\ Updated(todo.op, todo.val) = IF model = <<>> THEN model ELSE Tail(model)
    BY <2>2 DEF Expected, Updated
  <2>4. CASE Contents = <<>>
    <3>1. Contents' = model /\ model = <<>>
      BY <1>2, <2>1, <2>4
    <3>2. Calls'[Fuzzer] = [tag |-> "None", val |-> NoValue]
      BY <1>4, <2>1, <2>4
    <3>3. PopFront = Says("None", NoValue)
      BY <3>1 DEF PopFront
    <3> QED BY <1>1, <2>3, <3>1, <3>2, <3>3 DEF Says
  <2>5. CASE Contents # <<>>
    <3>1. /\ Contents' = Tail(model) /\ model # <<>>
      BY <1>2, <2>1, <2>5, Zenon
    <3>2. Calls'[Fuzzer] = [tag |-> "Some", val |-> Head(model)]
      BY <1>2, <1>4, <2>1, <2>5, Zenon
    <3>3. PopFront = Says("Some", Head(model))
      BY <3>1 DEF PopFront
    <3>4. Updated(todo.op, todo.val) = Tail(model)
      BY <2>3, <3>1, Zenon
    <3> QED BY <1>1, <2>3, <3>1, <3>2, <3>3, <3>4, Zenon DEF Says
  <2> QED BY <2>4, <2>5
<1> QED BY <1>5, <1>6, <1>7

\* The answer of an operation that took effect is no request.
LEMMA ExpectedTag ==
  ASSUME NEW o \in AllOps, NEW v
  PROVE  Expected(o, v).tag \in {"Ok", "Err", "None", "Some"}
BY DEF Expected, PopFront, Says, AllOps

\* Starting an operation, a step of it, and comparing its answer.
LEMMA FuzzingInd ==
  ASSUME Fuzzing, loop = "before", StartOp \/ RunOp \/ CompareOp
  PROVE  Fuzzing' /\ loop' = "before"
<1>1. Fuzzer \in Threads /\ IndInv /\ CallInv /\ alive
  BY FuzzerAssumption DEF Fuzzing
<1>2. UNCHANGED <<i, gone, stored, loop>>
  BY DEF StartOp, RunOp, CompareOp, dropVars
<1>3. CASE StartOp
  <2>1. CallPush(Fuzzer) \/ CallForcePush(Fuzzer) \/ CallPop(Fuzzer)
    BY <1>3 DEF StartOp
  <2>2. Next
    BY <1>1, <2>1 DEF Next
  <2>3. IndInv' /\ CallInv'
    BY <1>1, <2>2, NextInd, CallInvInd
  <2>4. /\ Contents' = Contents /\ alive'
        /\ CallOf(Fuzzer)' = [tag |-> op'[Fuzzer], val |-> val'[Fuzzer]]
        /\ op'[Fuzzer] \in AllOps
    BY <1>1, <2>1, <2>3, CallInd, CallBegins DEF AllOps
  <2>5. todo' = [op |-> op'[Fuzzer], val |-> val'[Fuzzer]] /\ todo.op = "none" /\ model' = model
    BY <1>3 DEF StartOp
  <2>6. Contents = model
    BY <2>5 DEF Fuzzing, AllOps
  <2>7. InFlight' /\ todo'.op \in AllOps
    BY <2>4, <2>5, <2>6 DEF InFlight, Says
  <2> QED BY <1>2, <2>3, <2>4, <2>7 DEF Fuzzing
<1>4. CASE RunOp
  <2>1. Step(Fuzzer) /\ UNCHANGED <<model, todo>>
    BY <1>4 DEF RunOp
  <2>2. Next
    BY <1>1, <2>1 DEF Next
  <2>3. IndInv' /\ CallInv'
    BY <1>1, <2>2, NextInd, CallInvInd
  <2>4. alive' = alive /\ ~AtRest(Fuzzer)
    <3>1. alive' = alive
      BY <1>1, <2>1, Frame DEF ThreadStep
    <3>2. ~AtRest(Fuzzer)
      BY <2>1 DEF Step, Push, ForcePush, Pop, LoadTail, TailStamp, CasTailOk, CasTailErr, Write,
         Publish, PushFull, ForceCasOk, ForceCasErr, StoreTail, Replace, Restamp, LoadHead,
         HeadStamp, CasHeadOk, CasHeadErr, Read, Release, Empty, AtRest, Answered
    <3> QED BY <3>1, <3>2
  <2>5. todo.op \in AllOps /\ (InFlight \/ TookEffect)
    BY <2>4 DEF Fuzzing
  <2>6. \/ Abstract!Push(Fuzzer) \/ Abstract!ForcePush(Fuzzer) \/ Abstract!Pop(Fuzzer)
        \/ UNCHANGED <<Contents, Calls, alive>>
    BY <1>1, <2>1, StepEffect
  <2>7. CASE UNCHANGED <<Contents, Calls, alive>>
    <3>1. Calls[Fuzzer] = CallOf(Fuzzer) /\ Calls'[Fuzzer] = CallOf(Fuzzer)'
      BY <1>1 DEF Calls
    <3>2. CallOf(Fuzzer)' = CallOf(Fuzzer) /\ Contents' = Contents
      BY <2>7, <3>1
    <3>3. /\ Expected(todo.op, todo.val)' = Expected(todo.op, todo.val)
          /\ Updated(todo.op, todo.val)' = Updated(todo.op, todo.val)
          /\ Says(todo.op, todo.val)' = Says(todo.op, todo.val)
      BY <2>1 DEF Expected, Updated, PopFront, Says
    <3>4. InFlight' \/ TookEffect'
      BY <2>1, <2>5, <3>2, <3>3 DEF InFlight, TookEffect
    <3> QED BY <1>1, <1>2, <2>1, <2>3, <2>4, <2>5, <3>4 DEF Fuzzing
  <2>8. CASE Abstract!Push(Fuzzer) \/ Abstract!ForcePush(Fuzzer) \/ Abstract!Pop(Fuzzer)
    <3>1. Calls[Fuzzer].tag \in {"push", "force", "pop"} /\ Calls[Fuzzer] = CallOf(Fuzzer)
      BY <1>1, <2>8 DEF Abstract!Push, Abstract!ForcePush, Abstract!Pop, Abstract!Pending, Calls
    <3>2. ~TookEffect
      BY <2>5, <3>1, ExpectedTag DEF TookEffect
    <3>3. TookEffect'
      BY <1>1, <2>1, <2>5, <2>8, <3>2, EffectExpected
    <3> QED BY <1>1, <1>2, <2>1, <2>3, <2>4, <2>5, <3>3 DEF Fuzzing
  <2> QED BY <2>6, <2>7, <2>8
<1>5. CASE CompareOp
  <2>1. /\ AtRest(Fuzzer) /\ todo.op # "none" /\ model' = Updated(todo.op, todo.val)
        /\ todo' = [op |-> "none", val |-> NoValue] /\ UNCHANGED vars
    BY <1>5 DEF CompareOp
  <2>2. CallOf(Fuzzer).tag \in Answered
    BY <1>1, <2>1, RestAnswers DEF AtRest
  <2>3. ~InFlight
    BY <2>1, <2>2 DEF InFlight, Says, Fuzzing, AllOps, Answered
  <2>4. Contents = model'
    BY <2>1, <2>3 DEF Fuzzing, TookEffect
  <2>5. IndInv' /\ CallInv'
    BY <1>1, <2>1, NextInd, CallInvInd
  <2>6. Contents' = Contents /\ alive' = alive /\ AtRest(Fuzzer)'
    BY <2>1 DEF vars, shared, local, Contents, ValueAt, LogicalTail, Distance, Advance, Succ, AtRest
  <2> QED BY <1>1, <1>2, <2>1, <2>4, <2>5, <2>6 DEF Fuzzing
<1> QED BY <1>2, <1>3, <1>4, <1>5

-----------------------------------------------------------------------------
(* Between operations, and when the queue goes out of scope.               *)

\* drop() begins with nothing dropped and all values in their slots.
LEMMA BeginDropInd ==
  ASSUME Fuzzing, loop = "before", todo.op = "none", BeginDrop, UNCHANGED <<model, todo>>
  PROVE  DropLoop'
<1>1. IndInv /\ alive /\ AtRest(Fuzzer) /\ i = 0 /\ gone = <<>>
  BY FuzzerAssumption DEF Fuzzing, BeginDrop
<1>2. stored' = Contents /\ loop' = "running" /\ UNCHANGED <<head, tail, value, pc, i, gone>>
  BY DEF BeginDrop, vars, shared, local
<1>3. /\ Contents \in Seq(Values \cup {NoValue})
      /\ Len(Contents) = LenOf(head, tail)
      /\ LenOf(head, tail) \in 0 .. N
      /\ \A k \in 0 .. (LenOf(head, tail) - 1) : value[DropIndex(k)] = Contents[k + 1]
  BY <1>1, FuzzerAssumption, RestContents
<1>4. head.idx \in Slots /\ value \in [Slots -> Values \cup {NoValue}]
  BY <1>1 DEF IndInv, TypeOK, Position
<1>5. /\ LenOf(head, tail)' = LenOf(head, tail)
      /\ \A k \in 0 .. (LenOf(head, tail) - 1) : DropIndex(k)' = DropIndex(k)
  BY <1>2 DEF LenOf, Same, DropIndex
<1>6. i' = 0 /\ gone' = <<>> /\ gone' \in Seq(Values \cup {NoValue}) /\ Len(gone') = 0
  BY <1>1, <1>2
<1>7. i' \in 0 .. Len(stored')
  BY <1>2, <1>3, <1>6
<1>8. \A k \in i' .. (Len(stored') - 1) : value'[DropIndex(k)'] = stored'[k + 1]
  BY <1>2, <1>3, <1>5, <1>6
<1>9. todo'.op = "none" /\ AtRest(Fuzzer)'
  BY <1>1, <1>2 DEF AtRest
<1> QED BY <1>2, <1>3, <1>4, <1>5, <1>6, <1>7, <1>8, <1>9 DEF DropLoop

\* One destructor more, whether or not it panics.
LEMMA DropValueInd ==
  ASSUME DropLoop, NEW after \in {"running", "unwound"}, DropValue(after), UNCHANGED <<model, todo>>
  PROVE  DropLoop'
<1>1. /\ loop = "running" /\ loop' = after
      /\ i < LenOf(head, tail) /\ i' = i + 1
      /\ gone' = Append(gone, value[DropIndex(i)])
      /\ value' = [value EXCEPT ![DropIndex(i)] = NoValue]
      /\ UNCHANGED <<head, tail, pc, stored>>
  BY DEF DropValue, local
<1>2. /\ head.idx \in 0 .. (N - 1) /\ N \in Nat /\ LenOf(head, tail) \in 0 .. N
      /\ Len(stored) = LenOf(head, tail) /\ i \in 0 .. (Len(stored) - 1)
  BY <1>1, NAssumption DEF DropLoop, Slots
<1>3. ASSUME NEW k \in 0 .. (Len(stored) - 1) PROVE DropIndex(k) \in Slots /\ DropIndex(k)' = DropIndex(k)
  BY <1>1, <1>2 DEF DropIndex, Slots
<1>4. LenOf(head, tail)' = LenOf(head, tail)
  BY <1>1 DEF LenOf, Same
<1>5. value' \in [Slots -> Values \cup {NoValue}]
  BY <1>1 DEF DropLoop
<1>6. value[DropIndex(i)] = stored[i + 1] /\ value[DropIndex(i)] \in Values \cup {NoValue}
  BY <1>1, <1>2, <1>3 DEF DropLoop
<1>7. /\ gone \in Seq(Values \cup {NoValue}) /\ Len(gone) = i /\ \A k \in 1 .. i : gone[k] = stored[k]
  BY DEF DropLoop
<1>8. /\ gone' \in Seq(Values \cup {NoValue}) /\ Len(gone') = i + 1
      /\ gone'[i + 1] = stored[i + 1]
      /\ \A k \in 1 .. i : gone'[k] = gone[k]
  BY <1>1, <1>6, <1>7, AppendProperties
<1>9. \A k \in 1 .. i' : gone'[k] = stored'[k]
  BY <1>1, <1>2, <1>7, <1>8
<1>10. \A k \in i' .. (Len(stored') - 1) : value'[DropIndex(k)'] = stored'[k + 1]
  <2> SUFFICES ASSUME NEW k \in (i + 1) .. (Len(stored) - 1)
               PROVE  value'[DropIndex(k)'] = stored[k + 1]
    BY <1>1
  <2>1. k \in 0 .. (Len(stored) - 1) /\ k \in i .. (Len(stored) - 1)
    BY <1>2
  <2>2. DropIndex(k) \in Slots /\ DropIndex(k)' = DropIndex(k)
    BY <1>3, <2>1
  <2>3. DropIndex(k) # DropIndex(i)
    BY <1>2, <2>1 DEF DropIndex
  <2>4. value[DropIndex(k)] = stored[k + 1]
    BY <1>1, <2>1 DEF DropLoop
  <2>5. value'[DropIndex(k)] = value[DropIndex(k)]
    BY <1>1, <2>2, <2>3 DEF DropLoop
  <2> QED BY <2>2, <2>4, <2>5
<1>11. todo'.op = "none" /\ AtRest(Fuzzer)' /\ stored' \in Seq(Values \cup {NoValue})
  BY <1>1 DEF AtRest, DropLoop
<1>12. i' \in 0 .. Len(stored') /\ Len(gone') = i' /\ Len(stored') = LenOf(head, tail)'
  BY <1>1, <1>2, <1>4, <1>8
<1> QED BY <1>1, <1>2, <1>4, <1>5, <1>8, <1>9, <1>10, <1>11, <1>12 DEF DropLoop, Slots

\* The invariant of the target holds in every state.
LEMMA DiffInd == DiffSpec => []DiffInv
<1>1. DiffInit => DiffInv
  <2> SUFFICES ASSUME DiffInit PROVE Fuzzing /\ loop = "before"
    BY DEF DiffInv
  <2>1. Init /\ BeforeDrop /\ model = <<>> /\ todo.op = "none"
    BY DEF DiffInit
  <2>2. IndInv /\ CallInv /\ Abstract!Init
    BY <2>1, InitInd, InitRefines
  <2>3. Contents = <<>>
    BY <2>2 DEF Abstract!Init
  <2>4. AtRest(Fuzzer) /\ alive
    BY <2>1, FuzzerAssumption DEF Init, NewQueue, NoCalls, AtRest, Answered
  <2> QED BY <2>1, <2>2, <2>3, <2>4 DEF Fuzzing, BeforeDrop
<1>2. DiffInv /\ [DiffNext]_allVars => DiffInv'
  <2> SUFFICES ASSUME DiffInv, [DiffNext]_allVars PROVE DiffInv'
    OBVIOUS
  <2>1. CASE UNCHANGED allVars
    <3>1. UNCHANGED vars /\ UNCHANGED <<i, gone, stored, loop, model, todo>>
      BY <2>1 DEF allVars, dropVars
    <3>2. UNCHANGED <<head, tail, value, pc, op, pos, val, alive>>
      BY <3>1 DEF vars, shared, local
    <3>3. ASSUME Fuzzing PROVE Fuzzing'
      <4>1. IndInv' /\ CallInv'
        BY <3>1, <3>3, NextInd, CallInvInd DEF Fuzzing
      <4>2. Contents' = Contents /\ CallOf(Fuzzer)' = CallOf(Fuzzer) /\ AtRest(Fuzzer)' = AtRest(Fuzzer)
        BY <3>2 DEF Contents, ValueAt, LogicalTail, Distance, Advance, Succ, AtRest, CallOf
      <4>3. /\ Expected(todo.op, todo.val)' = Expected(todo.op, todo.val)
            /\ Updated(todo.op, todo.val)' = Updated(todo.op, todo.val)
            /\ Says(todo.op, todo.val)' = Says(todo.op, todo.val)
        BY <3>1 DEF Expected, Updated, PopFront, Says
      <4>4. InFlight' = InFlight /\ TookEffect' = TookEffect
        BY <3>1, <4>2, <4>3 DEF InFlight, TookEffect
      <4> QED BY <3>1, <3>2, <3>3, <4>1, <4>2, <4>4 DEF Fuzzing
    <3>4. ASSUME DropLoop PROVE DropLoop'
      BY <3>1, <3>2, <3>4 DEF DropLoop, AtRest, LenOf, Same, DropIndex
    <3> QED BY <3>1, <3>3, <3>4 DEF DiffInv
  <2>2. CASE loop = "before" /\ (StartOp \/ RunOp \/ CompareOp)
    BY <2>2, FuzzingInd DEF DiffInv
  <2>3. CASE loop # "before" /\ (StartOp \/ RunOp \/ CompareOp)
    <3>1. AtRest(Fuzzer) /\ todo.op = "none" /\ RunOp
      BY <2>3 DEF DiffInv, DropLoop, StartOp, CompareOp
    <3>2. ~AtRest(Fuzzer)
      BY <3>1 DEF RunOp, Step, Push, ForcePush, Pop, LoadTail, TailStamp, CasTailOk, CasTailErr, Write,
         Publish, PushFull, ForceCasOk, ForceCasErr, StoreTail, Replace, Restamp, LoadHead,
         HeadStamp, CasHeadOk, CasHeadErr, Read, Release, Empty, AtRest, Answered
    <3> QED BY <3>1, <3>2
  <2>4. CASE EndOps /\ BeginDrop
    <3>1. Fuzzing /\ loop = "before" /\ todo.op = "none" /\ UNCHANGED <<model, todo>> /\ loop' = "running"
      BY <2>4 DEF EndOps, BeginDrop, DiffInv
    <3>2. DropLoop'
      BY <2>4, <3>1, BeginDropInd
    <3> QED BY <3>1, <3>2 DEF DiffInv
  <2>5. CASE EndOps /\ (DropNext \/ DropPanics)
    <3>1. DropLoop /\ UNCHANGED <<model, todo>> /\ loop' # "before"
      BY <2>5 DEF EndOps, DropNext, DropPanics, DropValue, DiffInv
    <3>2. DropLoop'
      BY <2>5, <3>1, DropValueInd DEF DropNext, DropPanics
    <3> QED BY <3>1, <3>2 DEF DiffInv
  <2>6. CASE EndOps /\ EndDrop
    <3>1. /\ DropLoop /\ loop' = "finished" /\ i = LenOf(head, tail)
          /\ UNCHANGED <<head, tail, value, pc, i, gone, stored, todo>>
      BY <2>6 DEF EndOps, EndDrop, DiffInv, vars, shared, local
    <3>2. DropLoop'
      BY <3>1 DEF DropLoop, AtRest, LenOf, Same
    <3> QED BY <3>1, <3>2 DEF DiffInv
  <2> QED BY <2>1, <2>2, <2>3, <2>4, <2>5, <2>6 DEF DiffNext, EndOps, DropStep
<1> QED BY <1>1, <1>2, PTL DEF DiffSpec

\* No assert_eq! of the fuzz target fails, whatever operations the input lists, for
\* every capacity and however often the positions wrap.
THEOREM FuzzNeverFails == DiffSpec => []AssertsHold
<1>1. DiffInv => AssertsHold
  <2> SUFFICES ASSUME DiffInv, AtRest(Fuzzer), todo.op # "none"
               PROVE  Answer = Expected(todo.op, todo.val)
    BY DEF AssertsHold
  <2>1. Fuzzing /\ Fuzzer \in Threads /\ CallInv
    BY FuzzerAssumption DEF DiffInv, DropLoop, Fuzzing
  <2>2. CallOf(Fuzzer) = Answer /\ CallOf(Fuzzer).tag \in Answered
    BY <2>1, RestAnswers DEF Answer, AtRest
  <2>3. ~InFlight
    BY <2>1, <2>2 DEF InFlight, Says, Fuzzing, AllOps, Answered
  <2> QED BY <2>1, <2>2, <2>3 DEF Fuzzing, TookEffect
<1> QED BY <1>1, DiffInd, PTL

\* Between operations len(), is_empty() and is_full() agree with the VecDeque, and
\* the queue stores what the VecDeque stores, in its order.
THEOREM QueueIsDeque == DiffSpec => []ObserversAgree
<1>1. DiffInv => ObserversAgree
  <2> SUFFICES ASSUME DiffInv, AtRest(Fuzzer), todo.op = "none", loop = "before"
               PROVE  /\ LenOf(head, tail) = Len(model)
                      /\ Same(tail, head) <=> model = <<>>
                      /\ Same(AddLap(head), tail) <=> Len(model) = N
                      /\ Contents = model
    BY DEF ObserversAgree
  <2>1. IndInv /\ alive /\ Contents = model
    BY DEF DiffInv, Fuzzing, AllOps
  <2>2. /\ model \in Seq(Values \cup {NoValue})
        /\ Len(model) = LenOf(head, tail)
    BY <2>1, FuzzerAssumption, RestContents
  <2>3. model = <<>> <=> Len(model) = 0
    BY <2>2, EmptySeq
  <2> QED BY <2>1, <2>2, <2>3, LenOfIs
<1> QED BY <1>1, DiffInd, PTL

\* drop() runs the destructors of the stored values oldest first, each at most once
\* even if one panics, and all of them if none does.
THEOREM DropsInOrder == DiffSpec => []DropsOldestFirst
<1>1. DiffInv => DropsOldestFirst
  <2> SUFFICES ASSUME DiffInv PROVE DropsOldestFirst
    OBVIOUS
  <2>1. CASE loop = "before"
    <3>1. gone = <<>> /\ stored = <<>>
      BY <2>1 DEF DiffInv, Fuzzing
    <3>2. Len(gone) = 0
      BY <3>1
    <3>3. SubSeq(stored, 1, Len(gone)) = <<>>
      BY <3>2, SubSeqEmpty
    <3> QED BY <2>1, <3>1, <3>3 DEF DropsOldestFirst
  <2>2. CASE loop # "before"
    <3>1. /\ stored \in Seq(Values \cup {NoValue})
          /\ gone \in Seq(Values \cup {NoValue}) /\ Len(gone) = i /\ i \in 0 .. Len(stored)
          /\ \A k \in 1 .. i : gone[k] = stored[k]
          /\ loop = "finished" => i = Len(stored)
      BY <2>2 DEF DiffInv, DropLoop
    <3>2. Len(stored) \in Nat /\ \A k \in 1 .. Len(stored) : stored[k] \in Values \cup {NoValue}
      BY <3>1, LenProperties, ElementOfSeq
    <3>3. /\ SubSeq(stored, 1, i) \in Seq(Values \cup {NoValue})
          /\ Len(SubSeq(stored, 1, i)) = i
          /\ \A k \in 1 .. i : SubSeq(stored, 1, i)[k] = stored[k]
      BY <3>1, <3>2
    <3>4. gone = SubSeq(stored, 1, i)
      BY <3>1, <3>3, SeqEqual
    <3>5. loop = "finished" => gone = stored
      BY <3>1, SeqEqual
    <3> QED BY <3>1, <3>4, <3>5 DEF DropsOldestFirst
  <2> QED BY <2>1, <2>2
<1> QED BY <1>1, DiffInd, PTL
=============================================================================
