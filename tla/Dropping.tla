------------------------------ MODULE Dropping ------------------------------
(***************************************************************************)
(* The loop of drop(&mut self), one destructor at a time, for a payload    *)
(* type whose destructor may panic.  drop_value runs user code in the      *)
(* middle of the loop; when it unwinds, the loop is abandoned, and the     *)
(* buffer, an array of MaybeUninit, drops nothing by itself.               *)
(***************************************************************************)
EXTENDS Queue

VARIABLES
  i,       \* the loop variable, 0 before the loop
  gone,    \* the values whose destructors have run, in that order
  stored,  \* history: the contents when drop() began
  loop     \* "before", "running", "finished" or "unwound"

dropVars == <<i, gone, stored, loop>>

BeforeDrop == i = 0 /\ gone = <<>> /\ stored = <<>> /\ loop = "before"

\* The exclusive borrow: no call is in progress.
BeginDrop ==
  /\ loop = "before" /\ \A t \in Threads : AtRest(t)
  /\ stored' = Contents
  /\ loop' = "running"
  /\ UNCHANGED <<vars, i, gone>>

\* drop_value() of the slot: its value is gone whether or not the destructor
\* panics.
DropValue(after) ==
  /\ loop = "running" /\ i < LenOf(head, tail)
  /\ gone' = Append(gone, value[DropIndex(i)])
  /\ value' = [value EXCEPT ![DropIndex(i)] = NoValue]
  /\ i' = i + 1
  /\ loop' = after
  /\ UNCHANGED <<head, tail, stamp, alive, local, stored>>

DropNext == DropValue("running")
DropPanics == DropValue("unwound")

EndDrop ==
  /\ loop = "running" /\ i = LenOf(head, tail)
  /\ loop' = "finished"
  /\ UNCHANGED <<vars, i, gone, stored>>

DropStep == BeginDrop \/ DropNext \/ DropPanics \/ EndDrop

-----------------------------------------------------------------------------
(* Properties                                                              *)

\* Destructors run on the stored values, oldest first, each at most once even
\* when one of them panics (the rest is leaked); and if none does, all of them run.
DropsOldestFirst ==
  /\ gone = SubSeq(stored, 1, Len(gone))
  /\ loop = "finished" => gone = stored
=============================================================================
