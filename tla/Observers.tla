----------------------------- MODULE Observers -----------------------------
(***************************************************************************)
(* len, is_empty and is_full of src/lib.rs, called while other threads     *)
(* push, force_push and pop.  Each reads head and tail one at a time, with *)
(* SeqCst loads, so the pair it compares may never have existed.           *)
(***************************************************************************)
EXTENDS Queue

CONSTANTS
  Watchers,   \* the threads that make these calls
  MaxLooks    \* bound: calls each watcher makes

ASSUME WatchAssumption == Watchers \cap Threads = {} /\ MaxLooks \in Nat

VARIABLES
  wpc,      \* per watcher: its next load, or "Rest"
  wtail,    \* per watcher: the local `tail`
  whead,    \* per watcher: the local `head`
  ans,      \* per watcher: the kind of its last answer, and its last answers
  looks,    \* per watcher: calls made so far
  seen      \* history, per watcher: lengths the queue had during its last call

watch == <<wpc, wtail, whead, ans, looks, seen>>
allVars == <<vars, watch>>

\* The number of positions handed out and not yet taken.
Length == Distance(head, tail)

WGoto(w, next) == wpc' = [wpc EXCEPT ![w] = next]

InitWatch ==
  /\ wpc = [w \in Watchers |-> "Rest"]
  /\ wtail = [w \in Watchers |-> Origin]
  /\ whead = [w \in Watchers |-> Origin]
  /\ ans = [w \in Watchers |-> [op |-> "none", len |-> 0, flag |-> FALSE]]
  /\ looks = [w \in Watchers |-> 0]
  /\ seen = [w \in Watchers |-> {}]

Look(w) ==
  /\ wpc[w] = "Rest" /\ alive
  /\ looks[w] < MaxLooks
  /\ looks' = [looks EXCEPT ![w] = @ + 1]
  /\ seen' = [seen EXCEPT ![w] = {Length}]
  /\ \E first \in {"LenTail", "EmptyHead", "FullTail"} : WGoto(w, first)
  /\ UNCHANGED <<vars, wtail, whead, ans>>

TakeTail(w, next) ==
  /\ wtail' = [wtail EXCEPT ![w] = tail]
  /\ WGoto(w, next)
  /\ UNCHANGED <<vars, whead, ans, looks, seen>>

TakeHead(w, next) ==
  /\ whead' = [whead EXCEPT ![w] = head]
  /\ WGoto(w, next)
  /\ UNCHANGED <<vars, wtail, ans, looks, seen>>

\* The call returns; its locals are gone.
Reply(w, answer) ==
  /\ ans' = [ans EXCEPT ![w] = answer]
  /\ wtail' = [wtail EXCEPT ![w] = Origin]
  /\ whead' = [whead EXCEPT ![w] = Origin]
  /\ WGoto(w, "Rest")
  /\ UNCHANGED <<vars, looks, seen>>

Flag(w, o, b) == Reply(w, [ans[w] EXCEPT !.op = o, !.flag = b])

\* is_empty: head, then tail.
EmptyHead(w) == wpc[w] = "EmptyHead" /\ TakeHead(w, "EmptyTail")
EmptyTail(w) == wpc[w] = "EmptyTail" /\ Flag(w, "is_empty", Same(tail, whead[w]))

\* is_full: tail, then head.
FullTail(w) == wpc[w] = "FullTail" /\ TakeTail(w, "FullHead")
FullHead(w) == wpc[w] = "FullHead" /\ Flag(w, "is_full", Same(AddLap(head), wtail[w]))

\* len: tail, head, and tail again until it has not moved in between.
LenTail(w) == wpc[w] = "LenTail" /\ TakeTail(w, "LenHead")
LenHead(w) == wpc[w] = "LenHead" /\ TakeHead(w, "LenCheck")

\* Mutant of LenCheck: does not look at tail again.
LenUnchecked(w) ==
  /\ wpc[w] = "LenCheck"
  /\ Reply(w, [ans[w] EXCEPT !.op = "len", !.len = LenOf(whead[w], wtail[w])])

\* Mutant of LenCheck: compares tail with the head it has loaded.
LenComparesHead(w) ==
  /\ wpc[w] = "LenCheck"
  /\ \/ /\ Same(tail, whead[w])
        /\ Reply(w, [ans[w] EXCEPT !.op = "len", !.len = LenOf(whead[w], wtail[w])])
     \/ /\ ~Same(tail, whead[w])
        /\ WGoto(w, "LenTail")
        /\ UNCHANGED <<vars, wtail, whead, ans, looks, seen>>

LenCheck(w) ==
  /\ wpc[w] = "LenCheck"
  /\ \/ /\ Same(tail, wtail[w])
        /\ Reply(w, [ans[w] EXCEPT !.op = "len", !.len = LenOf(whead[w], wtail[w])])
     \/ /\ ~Same(tail, wtail[w])
        /\ WGoto(w, "LenTail")
        /\ UNCHANGED <<vars, wtail, whead, ans, looks, seen>>

WatchStep(w) ==
  \/ EmptyHead(w) \/ EmptyTail(w)
  \/ FullTail(w) \/ FullHead(w)
  \/ LenTail(w) \/ LenHead(w) \/ LenCheck(w)

\* A step of the queue's own threads.  The bound of NotOvertaken also covers the
\* positions that the watchers hold.
QueueStep ==
  /\ \E t \in Threads : CallPush(t) \/ CallForcePush(t) \/ CallPop(t) \/ Step(t)
  /\ \A w \in Watchers :
       /\ wpc[w] \in {"LenHead", "LenCheck", "FullHead"} => InReach(wtail[w], tail')
       /\ wpc[w] \in {"EmptyTail"} => InReach(whead[w], tail')
  /\ seen' = [w \in Watchers |->
                IF wpc[w] = "Rest" THEN seen[w] ELSE seen[w] \cup {Length'}]
  /\ UNCHANGED <<wpc, wtail, whead, ans, looks>>

WatchedDrop ==
  /\ \A w \in Watchers : wpc[w] = "Rest"
  /\ Drop
  /\ UNCHANGED watch

WatchedInit == Init /\ InitWatch

WatchedNext ==
  \/ QueueStep
  \/ WatchedDrop
  \/ \E w \in Watchers : Look(w) \/ WatchStep(w)

WatchedSpec == WatchedInit /\ [][WatchedNext]_allVars

\* The watchers keep running; the threads of the queue may be suspended anywhere.
WatchedFairSpec == WatchedSpec /\ \A w \in Watchers : WF_allVars(WatchStep(w))

-----------------------------------------------------------------------------
(* Properties                                                              *)

\* Every answer was true at one instant of its call, although head and tail
\* were loaded at different instants: len is a length the queue had, is_empty
\* and is_full answer for one.
AnswerWasTrue ==
  \A w \in Watchers : wpc[w] = "Rest" =>
    CASE ans[w].op = "none" -> TRUE
      [] ans[w].op = "len" -> ans[w].len \in seen[w]
      [] ans[w].op = "is_empty" -> \E n \in seen[w] : ans[w].flag <=> n = 0
      [] ans[w].op = "is_full" -> \E n \in seen[w] : ans[w].flag <=> n = N

\* Every call of len, is_empty and is_full returns even if the queue's threads are
\* suspended in the middle of theirs: len's loop runs again only because a push
\* moved tail, and never waits for a slot's owner as push and pop do.
LooksEnd == \A w \in Watchers : wpc[w] # "Rest" ~> wpc[w] = "Rest"

\* force_push "replaces the oldest element if full", so in an instance without
\* pop the number of elements stored never falls, and neither does len().
LenNeverFalls == [][\A w \in Watchers : ans'[w].len >= ans[w].len]_ans
=============================================================================
