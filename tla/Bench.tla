------------------------------- MODULE Bench -------------------------------
(***************************************************************************)
(* run_mpmc and run_spsc of benches/mpmc.rs (contention_sum_conserved of   *)
(* tests/smoke.rs is the same with one consumer): producers push each item *)
(* until it goes in, consumers pop until a shared counter says that all    *)
(* items have been consumed.  The calls are not bounded: a producer or a   *)
(* consumer may poll the queue for ever.                                   *)
(***************************************************************************)
EXTENDS Queue, FiniteSets

CONSTANTS
  Producers, Consumers,
  PER          \* items of each producer

ASSUME BenchAssumption ==
  /\ Threads = Producers \cup Consumers
  /\ Producers \cap Consumers = {}
  /\ IsFiniteSet(Producers)
  /\ PER \in Nat
  /\ Values = [from : Producers, no : 1 .. PER]

VARIABLES
  sent,      \* per producer: items pushed or being pushed
  consumed,  \* the shared counter
  got,       \* per consumer: the items it has popped, in order
  done       \* the threads that have left their loop

bench == <<sent, consumed, got, done>>
allVars == <<vars, bench>>

TOTAL == Cardinality(Values)

BenchInit ==
  /\ Init
  /\ sent = [p \in Producers |-> 0]
  /\ consumed = 0
  /\ got = [c \in Consumers |-> <<>>]
  /\ done = {}

\* The next call of a loop; nobody counts calls.
Invoke(t, o, v, first) == Begin(t, o, v, first) /\ UNCHANGED calls

Leave(t) == done' = done \cup {t} /\ UNCHANGED vars

\* for i in 0..PER: the next item, or the end of the thread.
NextItem(p) ==
  /\ p \notin done /\ pc[p] \in {"Rest", "Ok"}
  /\ \/ /\ sent[p] < PER
        /\ sent' = [sent EXCEPT ![p] = @ + 1]
        /\ Invoke(p, "push", [from |-> p, no |-> sent[p] + 1], "LoadTail")
        /\ UNCHANGED done
     \/ /\ sent[p] = PER
        /\ Leave(p)
        /\ UNCHANGED sent
  /\ UNCHANGED <<consumed, got>>

\* while !q.push(base + i) {}
PushAgain(p) ==
  /\ pc[p] = "Err"
  /\ Invoke(p, "push", val[p], "LoadTail")
  /\ UNCHANGED bench

FirstPop(c) == pc[c] = "Rest" /\ Invoke(c, "pop", NoValue, "LoadHead") /\ UNCHANGED bench

\* if q.pop().is_some() { if consumed.fetch_add(1) + 1 >= TOTAL { break } }
Consume(c) ==
  /\ c \notin done /\ pc[c] = "Some"
  /\ consumed' = consumed + 1
  /\ got' = [got EXCEPT ![c] = Append(@, val[c])]
  /\ \/ consumed + 1 >= TOTAL /\ Leave(c)
     \/ /\ consumed + 1 < TOTAL
        /\ Invoke(c, "pop", NoValue, "LoadHead")
        /\ UNCHANGED done
  /\ UNCHANGED sent

\* Mutant of FoundNone: a consumer that finds nothing only tries again.
FoundNoneTryAgain(c) ==
  /\ c \notin done /\ pc[c] = "None"
  /\ Invoke(c, "pop", NoValue, "LoadHead")
  /\ UNCHANGED bench

\* else if consumed.load() >= TOTAL { break }
FoundNone(c) ==
  /\ c \notin done /\ pc[c] = "None"
  /\ \/ consumed >= TOTAL /\ Leave(c)
     \/ /\ consumed < TOTAL
        /\ Invoke(c, "pop", NoValue, "LoadHead")
        /\ UNCHANGED done
  /\ UNCHANGED <<sent, consumed, got>>

Work(t) ==
  \/ t \in Producers /\ (NextItem(t) \/ PushAgain(t))
  \/ t \in Consumers /\ (FirstPop(t) \/ Consume(t) \/ FoundNone(t))
  \/ Step(t) /\ UNCHANGED bench

\* Every thread keeps running, and compare_exchange_weak does not fail spuriously
\* for ever.
BenchSpec ==
  /\ BenchInit
  /\ [][\E t \in Threads : Work(t)]_allVars
  /\ \A t \in Threads :
       /\ WF_allVars(Work(t))
       /\ SF_allVars((CasTailOk(t) \/ CasHeadOk(t)) /\ UNCHANGED bench)

-----------------------------------------------------------------------------
(* Properties                                                              *)

Items(s) == {s[k] : k \in DOMAIN s}

\* Nothing is invented, lost, duplicated or reordered on the way from one producer
\* to one consumer: run_spsc's assert_eq!(v, expected) and the sum of smoke.rs.
Delivered ==
  /\ \A c \in Consumers : Items(got[c]) \subseteq Values
  /\ \A c \in Consumers : \A j, k \in DOMAIN got[c] :
       j < k /\ got[c][j].from = got[c][k].from => got[c][j].no < got[c][k].no
  /\ \A c, d \in Consumers : c # d => Items(got[c]) \cap Items(got[d]) = {}
  /\ consumed = TOTAL => UNION {Items(got[c]) : c \in Consumers} = Values

\* The bench comes to an end, with everything consumed and, as its header says,
\* with the queue drained, so that the next iteration can reuse it: no producer
\* retries for ever against a queue that it takes for full, and no consumer polls
\* for ever a queue that it takes for empty.
BenchEnds == <>(done = Threads /\ consumed = TOTAL /\ Contents = <<>>)
=============================================================================
