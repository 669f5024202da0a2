--------------------------- MODULE QueueLiveness ---------------------------
(***************************************************************************)
(* Progress of Queue<T, N>: which calls return, and who they depend on.    *)
(***************************************************************************)
EXTENDS Queue

CONSTANT Stalled   \* threads that may be suspended at any point, for good

ASSUME StalledAssumption == Stalled \subseteq Threads

Running == Threads \ Stalled

\* A running thread keeps taking steps (the scheduler is fair to it, and its
\* stores become visible), and compare_exchange_weak does not fail spuriously
\* for ever.  Nothing obliges a thread to make another call.
Fair(t) ==
  /\ WF_vars(Step(t))
  /\ SF_vars(CasTailOk(t) \/ CasHeadOk(t) \/ ForceCasOk(t))

FairSpec == Spec /\ \A t \in Running : Fair(t)

\* Every call returns when no thread is suspended for good: the retry loops of
\* push_or_else and pop wait for stamps that their owners do store.
CallsReturn ==
  (\A t \in Stalled : Fair(t)) => \A t \in Threads : ~AtRest(t) ~> AtRest(t)

\* Only a slot holder can hold others up: a thread that is suspended for good in one
\* of the loops, before its compare-and-swap, or between two calls, keeps nobody
\* else from returning, whatever position and stamp it has loaded.  This is what
\* README.md asks of interrupt handlers: "ISRs that don't preempt each other's slot
\* holders", for which an interrupted call is a suspended thread.
OnlyHoldersBlock ==
  <>[](\A t \in Stalled : ~Owns(t)) => \A t \in Running : ~AtRest(t) ~> AtRest(t)

\* README.md and the crate documentation call the queue lock-free: whatever
\* some threads do, of the running ones with a call in progress one completes.
LockFree ==
  (\E t \in Running : ~AtRest(t)) ~> (\E t \in Running : AtRest(t))
=============================================================================
