# nure-queue in TLA+

A verification project for `nure-queue`, a bounded multi-producer
multi-consumer queue with static storage (`src/src/lib.rs`, Vyukov's algorithm
after Crossbeam's `ArrayQueue`). The modules model the queue one access to
shared memory at a time, TLC checks them on small instances, and TLAPS proves
the safety properties, linearizability and the arithmetic of the packed words
among them, for every capacity, number of threads and word size.

Line numbers below are those of `src/src/lib.rs`.

## The system

**State.** `head` and `tail` are two atomic words. Each of the `N` slots has a
stamp (an atomic word) and a payload that may be uninitialised. A word packs an
index (the bits below `one_lap`) and a lap count (the bits above it).

| Part | Lines | State | Operations |
|---|---|---|---|
| Queue core | 259-485, 525-558 | `head`, `tail`, slots | `new`, `push`/`enqueue`, `force_push`, `pop`/`dequeue`, `drop` |
| Slot | 142-234 | stamp, payload | `stamp_load`, `stamp_store`, `write_value`, `read_value`, `replace_value`, `drop_value` |
| Packed words | 127-136, 285-287 and the masks in every operation | `one_lap` | split, next position, `wrapping_add`/`wrapping_sub` of a lap, equality |
| Observers | 487-522 | none | `len`, `is_empty`, `is_full` |
| Backoff | 82-125 | a counter local to a call | `spin`, `snooze` |
| Shim, padding, `Debug`, `Default` | 43-80, 272-276, 560-564 | none | none of interest |
| Clients: tests, fuzz target, bench | `src/tests`, `src/fuzz`, `src/benches` | a `VecDeque`, a shared counter | sequences of calls, retry and polling loops |
| Vendored `lfqueue` | `src/third-party/lfqueue` | its own | compared with in the benchmark, not used by the queue |

**Interaction.** Threads meet only in shared memory. A pusher loads `tail`
(Relaxed), then the stamp of that slot (Acquire). If the stamp equals `tail` the
slot is free: the pusher moves `tail` by compare-and-swap, and from then on owns
the slot until it stores the stamp `tail + 1` (Release). A popper does the same
with `head`, and hands the slot on with the stamp of the next lap. A pusher that
finds last lap's stamp calls a closure: that of `push` looks at `head` after a
fence and gives up if the queue is full; that of `force_push` moves `head` by
compare-and-swap, stores `tail`, and exchanges the payload in place.

**What is hard.** Interleavings of these steps; loads that are stale when they
are used; the window between a won compare-and-swap and the stamp store, in
which a slot looks full or empty and is not (the failure of `heapless::mpmc`
that `tests/repro583.rs` is about); the unconditional store of `force_push`;
words that wrap; `drop` and the observers, which derive everything from two
words. The repository's tests run these parts sequentially or under stress: the
README of the crate says that "full MPMC interleavings exceed loom's branch
budget". `PROJECT.json` lists each hazard at its line with the properties that
are aimed at it.

**What makes each part correct.** Core: linearizability; exclusive use of a
slot; payloads read only while initialised and never overwritten while live;
positions that only move to the next position; calls that return. Words:
indices in bounds, no accidental equality. Observers: an answer that was true
at some instant of the call, and always one. Drop: exactly the stored values,
oldest first. Backoff: a bounded number of spins. Clients: no spurious full or
empty queue, nothing lost, duplicated or reordered, loops that end.

## Modules

| Module | What it is |
|---|---|
| `Positions` | A word as the pair (lap, index), and the operators of the source on it |
| `Words` | The loop of `one_lap_for`, and the packed words themselves, modulo the size of a word, next to the positions they stand for |
| `Fifo` | Abstract specification: an atomic bounded FIFO with pending requests and answers |
| `Queue` | The queue: `push`, `force_push`, `pop`, `drop`; safety properties and the refinement to `Fifo` |
| `QueueInv` | The inductive invariant of `Queue` |
| `QueueProofs` | Lemmas about positions; the safety theorems of the core |
| `WordsProofs` | The words compute the positions, for every size of word |
| `LinearProofs` | `Queue` implements `Fifo` |
| `QueueLiveness` | Fairness, and which calls return |
| `Observers` | `len`, `is_empty`, `is_full` running beside `Queue` |
| `Backoff` | The counter of one call that keeps retrying, with and without `std` |
| `Dropping` | The loop of `drop`, one destructor at a time |
| `QueueAba` | `push` and `pop` without the bound `NotOvertaken` |
| `Differential` | The fuzz target: any sequence of calls, compared with a `VecDeque`, and then `Dropping` |
| `Workers` | The two loops of `tests/repro583.rs` as clients of `Queue` |
| `Bench` | The polling producers and consumers of `benches/mpmc.rs` as clients of `Queue` |
| `ObserversProofs`, `BackoffProofs`, `DifferentialProofs`, `WorkersProofs`, `BenchProofs` | The safety theorems of those modules |
| `MCQueue`, `MCWorkers`, `MCBench`, `MCWords` | Symmetry sets and values of constants for TLC, and the comparison with real masks |

`Observers`, `Dropping` (and `Differential`, by way of it), `QueueAba`,
`QueueLiveness`, `Workers` and `Bench` all extend `Queue` and use its actions
unchanged (`QueueAba` replaces two of them, which is its point).

Definitions marked "Mutant of" are wrong variants of the definition that
follows them. They are used by no specification: putting one in place of the
original must make TLC report the property that `PROJECT.json` names with it.

### Queue

`pc[t]` is the next access to shared memory of thread `t`, or, between calls,
the answer of its last call. `pos[t]` is the local `tail` of `push_or_else` or
`head` of `pop`, `val[t]` the value on its way in or out. One action is one
access, with the local computation up to the next one:

| Code | Actions |
|---|---|
| `push_or_else` | `LoadTail` (341, 379, 382), `TailStamp` (355-383), `CasTailOk`, `CasTailErr` (357-373), `Write` (366), `Publish` (367-368) |
| closure of `push` | `PushFull` (376, 389-396) |
| closure of `force_push` | `ForceCasOk`, `ForceCasErr` (409-417, 424), `StoreTail` (418), `Replace` (420), `Restamp` (421-422, 427) |
| `pop` | `LoadHead` (433, 473, 476), `HeadStamp` (441-477), `CasHeadOk`, `CasHeadErr` (443-464), `Read` (457), `Release` (458-459), `Empty` (467-471) |
| `drop` | `Drop` (525-558), with `LenOf` and `DropSlots`; for a payload type that needs dropping |

The operators these actions share are named for what they do: `MoveTail` and
`MoveHead` are the successful compare-and-swaps, `HandOn` the stamp store that
ends an ownership, `Reload`, `Retry` and `GiveUp` the ways a loop iteration
ends, `Begin` the entry of a call. `NewQueue` and `NoCalls` are the two halves
of `Init`, so that a client can start from another queue (`Workers`, which
starts from a full one).

`Backoff` changes no shared state, so in `Queue` a backoff is simply the gap
before the next action; the module `Backoff` models its counter.
`compare_exchange_weak` may fail spuriously: `CasTailErr`, `CasHeadErr` and
`ForceCasErr` are enabled whether or not the comparison would succeed.

*Moved-out payloads.* `read_value` leaves the bits in place; the model sets the
slot to `NoValue`, so that a second read, or an overwrite of a live value,
shows.

*Memory model.* All modifications of `head` and `tail` are `SeqCst`, and a
successful compare-and-swap always acts on the latest value: these are
interleaved steps. With `StaleLoads`, a Relaxed load of `head` or `tail` (and
the value a failed compare-and-swap returns) is any position up to the current
one but not before one the same call has seen, and an Acquire load of a stamp
is any earlier stamp of that slot. This allows more than the language does: it
forgets what the thread saw in earlier calls, and includes the stamp of a free
slot that a `force_push` skips. After `fence(SeqCst)` a Relaxed load sees a
value that was current at or after the fence, so fence and load are one step.
That the fences matter is shown by the mutants `PushFullUnfenced` and
`EmptyUnfenced`, whose loads may be stale: with them `Workers` sees a full, or
an empty, queue where there is none. Payload accesses are ordered by the stamps
(Release store, Acquire load of the very stamp that admits the thread), so they
need no staleness of their own once `SlotExclusive` holds.

*Words.* Positions keep the whole lap count and are compared with `Same`, which
sees only the lap modulo `Laps`, as equality of words does. `Laps` is 4 in the
runs without liveness properties, the smallest value that `new()` can lead to;
the wrap of a 64-bit word thus happens after four laps.

### Words

`Words` is about the numbers behind positions. `Double` is one round of the loop
of `one_lap_for`, whose variable is already called by the name of the field it
ends up in; once the loop is done (`~Doubling`), `Move` moves one of `head` and
`tail` on, any number of times. `p` is the position that `word` stands for, moved
by `Succ` of `Positions`. The constant `WORD` is the number of values of `Index`.
That it is a power of two is stated without exponents, of which the prover knows
nothing: every divisor but 1 is even (`PowerOfTwo`; `MCWords` has TLC confirm
that this means 2^k).

### Clients and environments

`Differential` keeps the `VecDeque` of the fuzz target as `model` and the
operation under way as `todo`; `Expected` is the right-hand side of each
`assert_eq!`, `Updated` what the target does to the `VecDeque`. The observers
are compared between operations, as `check_ops` of `tests/differential.rs` does.

In `Workers` the last answer in `pc` decides the next call, and `test` says
which of the two tests is running. `TakeOut` and `PutBack` are the
dequeue-then-enqueue loop, `PutIn` and `TakeAny` the enqueue-then-dequeue loop.
A worker that would panic stops.

`Bench` counts items (`sent`, `consumed`, `got`) instead of calls: its polling
loops may call `push` and `pop` without bound, and its state space is finite
because the items are.

`Dropping` splits the single action `Drop` of `Queue` into its loop. The
destructor of a payload is user code and may panic; the loop is then abandoned
(`DropPanics`), and what it has not reached is leaked. That nothing is dropped twice after a panic
follows from the loop being abandoned; the order and the slots, at a head that has
wrapped, are what `DropsOldestFirst` is about.

### Bounds

- `MaxCalls`, `MaxLooks`: calls per thread. In `Workers` they stand for the
  number of rounds, in `Differential` for `take(4096)`. `Bench` has none.
- `NotOvertaken`, `InReach`: while a thread holds a loaded position, the others
  do not go so far ahead that the same word comes around again, 2^64 / one_lap
  laps with 64-bit words. Without this bound every algorithm of this kind has an
  ABA problem; it restricts how long a thread may be preempted, not how far the
  words run. `QueueAba` shows what happens without it. The runs with liveness
  properties take `Laps` large enough (8 with capacity one) for the few calls or
  items they have, so that the bound never disables a step there.
- `MaxLap`: laps walked by `Words`.
- `MaxSpun`: spin hints counted by `Backoff`, above the limit that is checked.

## Runs

| Run | Instance | Checks |
|---|---|---|
| `queue` | N = 2, 2 threads, 3 calls each, 2 values, stale loads | `TypeOK`, `SlotExclusive`, `ValuesLive`, `DropExact`, `IndInv`, `NoIdleWait`, `PositionsAdvance`, `StampsAdvance`, `Linearizable` |
| `queue_wrap` | N = 1, 3 threads, 2 calls each, 2 values, stale loads | `SlotExclusive`, `ValuesLive`, `Linearizable` |
| `liveness` | N = 1, 3 threads, 2 calls each, `force_push` and `pop`, one may stall | `CallsReturn`, `OnlyHoldersBlock` |
| `observers` | N = 2, 2 threads, 2 calls each, that may all stall, 1 fair watcher | `AnswerWasTrue`, `LooksEnd` |
| `words` | 6-bit words, every capacity `new()` accepts (1..15), 40 laps | `MaskingInvariant`, `WordArithmetic`, `EqualityIsSame`, `OneLapFits`, `MasksSplitWords` |
| `backoff` | with and without `std` | `BurnsLittle`, `YieldsInTheEnd` |
| `differential` | N = 3, 1 thread, 16 operations, then `drop` with panicking destructors | `AssertsHold`, `ObserversAgree`, `DropsOldestFirst` |
| `workers` | N = 3, 3 workers, 4 calls each, stale loads | `NeverFull`, `NeverEmpty`, `ItemsSurvive` |
| `bench` | N = 1, 2 producers of 2 items, 2 consumers, unbounded calls | `Delivered`, `BenchEnds` |
| `aba` | N = 1, 2 threads, no bound on preemption | `SlotExclusive`, violated |
| `lock_free` | N = 1, 2 threads, one may stall | `LockFree`, violated |
| `len_during_force_push` | N = 1, 2 threads without `pop`, 1 watcher | `LenNeverFalls`, violated |

Why these bounds are enough to be interesting: with N = 2 and six calls the
queue fills, empties and wraps, and every action and every branch of the loops
is taken, the spurious failures included. N = 1 with six calls goes through six
laps of a word that can count four, and three threads let a pusher, a popper
and an evicting pusher meet at its one slot. With six-bit words the capacities
1..15 include every relation of N to a power of two, and up to 40 laps wrap
every word at least once. Capacity three in `differential` is not a power of
two, so the words have unused indices, and 16 operations lead through five
laps. In `workers` (the tests have two, N = 4) one worker may be between its
compare-and-swap and its stamp store while two others come past it. The
liveness of `push` on a queue that really fills is in `bench`, that of
`force_push` in `liveness`. In `bench` two producers compete for one slot and
two consumers for the last item and for the counter. The theorems remove the
bounds for the properties they cover.

Deadlock is not checked: threads stop when they have made their calls, and
after `drop` nothing is left to do.

### Linearizability

`Linearizable` is `Fifo`'s specification under the refinement mapping at the end
of `Queue`. `Contents` lists the values from `head` to `tail`, taking a value
that is still on its way into its slot from its pusher. A call takes effect at
its compare-and-swap on `tail` or `head`; at the load of `head` or `tail` after
the fence if it answers `Err` or `None`; and at the compare-and-swap on `head`
if it evicts, although `tail` is stored later (`LogicalTail`).

### Progress

`Fair(t)` asks that a running thread keeps taking steps (a fair scheduler, and
stores that become visible), and, by strong fairness of the three successful
compare-and-swaps, that `compare_exchange_weak` does not fail spuriously for
ever; the three are one strong fairness condition, as no two of them are ever
enabled for one thread. Calls are bounded, so strong fairness hides no livelock
between threads that keep winning against each other for ever: each win is one
of finitely many calls. `CallsReturn` says that under this assumption every
call returns.

`LockFree` drops the assumption for one thread. It fails: a thread suspended
between its compare-and-swap (358, 412, 450) and its stamp store (367, 421, 458)
leaves the others in their retry loops: a pop behind a push in 466-473, a pop
behind a pop or a force_push in 474-476, a push in 375-382. Both properties and the
violated one are checked with one thread that may stall; `CallsReturn` adds its
fairness as a hypothesis.

What holds instead is stated by four properties. `OnlyHoldersBlock`: a thread
that stalls anywhere else, in the middle of its loop included, blocks nobody.
The README's rule for bare metal, "ISRs that don't preempt each other's slot
holders" (`src/README.md:25`), is sufficient for the same reason: a call that a
handler has interrupted is a thread suspended until the handler ends.
`NoIdleWait` is the safety side of it, and is proved: with the current position
of a slot that nobody owns, a push or a pop is settled by the stamp and by the
other position, and does not retry. `LooksEnd`: the observers return although no thread of the queue is assumed to
take another step; their loop (502-519) repeats only when `tail` has moved, and
calls are bounded. `YieldsInTheEnd`: with `std`, a thread that waits for a slot
holder comes to leave it the processor at every retry.

`BenchEnds` uses the fairness of `CallsReturn` for each thread's whole loop: the
threads of the benchmark are started and joined, so none is suspended for good.
There calls are not bounded, and strong fairness of a thread's successful
compare-and-swaps does assume something more, that a producer does not lose
every race; it cannot lose for ever, as every lost race is an item of another.

### Findings

1. *Not lock-free* (`lock_free`). The crate calls itself "static + truly
   lock-free" (`src/README.md:7`). As above, a running thread may depend on a
   suspended one. The note on interrupts in the same README describes the effect
   and calls it "lock-free, not wait-free".
2. *`len` falls during `force_push`* (`len_during_force_push`). `force_push`
   "replac[es] the oldest element if full" (405), but it moves `head` before
   `tail`; in between `len()` answers N - 1 and, with N = 1, `is_empty()`
   answers true. Calls of `push`, `pop` and `force_push` alone never notice,
   which is what `Linearizable` shows.
3. *Ownership after a word has come around* (`aba`). The SAFETY comment of
   `write_value` says that exclusive access holds because a "unique index [is]
   acquired via tail CAS" (154-155). The compare-and-swap (358) compares words.
   A pusher preempted before it, for exactly as long as the word of `tail` takes
   to come around, wins on the strength of a stamp that is a word old, and the
   slot has two owners. That is about 2^63 pushes away with 64-bit words and
   about 2^31 where `Index` is a 32-bit `usize` (65-68). The comment holds under
   the bound `NotOvertaken`, the assumption of the theorem `Exclusive`.

`AnswerWasTrue` is the positive side of the second finding: with respect to the
two words themselves, the observers always answer for one instant.

## Proofs

For every `N >= 1`, every `Laps >= 4`, arbitrary sets of threads and values, any
number of calls, with stale loads or without:

| Module | Theorem | Statement |
|---|---|---|
| `QueueProofs` | `Inductive` | `Spec => []IndInv` |
| | `TypeCorrect` | `Spec => []TypeOK` |
| | `Exclusive` | `Spec => []SlotExclusive` |
| | `Live` | `Spec => []ValuesLive` |
| | `DropsExactly` | `Spec => []DropExact` |
| | `Advances` | `Spec => PositionsAdvance` |
| | `StampsGrow` | `Spec => StampsAdvance` |
| | `OnlyOwnersDelay` | `Spec => []NoIdleWait` |
| `LinearProofs` | `Refines` | `Spec => Linearizable` |
| `ObserversProofs` | `AnswersTrue` | `WatchedSpec => []AnswerWasTrue` |
| `DifferentialProofs` | `FuzzNeverFails` | `DiffSpec => []AssertsHold` |
| | `QueueIsDeque` | `DiffSpec => []ObserversAgree` |
| | `DropsInOrder` | `DiffSpec => []DropsOldestFirst` |
| `WorkersProofs` | `EnqueueSucceeds` | `WorkersSpec => []NeverFull` |
| | `DequeueSucceeds` | `WorkersSpec => []NeverEmpty` |
| | `NothingLost` | `WorkersSpec => []ItemsSurvive` |
| `BenchProofs` | `ItemsArrive` | `BenchSpec => []Delivered` |
| `WordsProofs` | `IndicesInBounds` | `Spec => []MaskingInvariant` |
| | `WordsArePositions` | `Spec => []WordArithmetic` |
| | `EqualMeansSame` | `Spec => []EqualityIsSame` |
| | `LapsFit` | `Spec => []OneLapFits` |
| `BackoffProofs` | `Burns` | `Spec => []BurnsLittle` |

Assumptions: those named in `Positions` and `Queue` (N > 0, Laps >= 4, `NoValue`
is not a value), and the bound `NotOvertaken` in the guards. `Words` asks that a
word has a power of two of values, at least eight. `Differential` has
one thread. `Workers` has N items and, in its second test, at most N workers
("max 2 items in flight < N", `src/tests/repro583.rs:52`). The items of `Bench`
are numbered by producer, and there are finitely many producers; the number of
producers, of consumers and of items is otherwise free.

**The core** (`QueueProofs`). None of the properties is inductive: that two
threads do not own a slot depends on what the stamp said when each of them read
it. `IndInv` states, slot by slot, what the stamp means. `PushLap(i)` and
`PopLap(i)` are the laps in which slot `i` will next be pushed to and popped
from, read off `tail` and `head`. If nobody owns the slot they are equal (free,
stamped for the push) or one apart (full, stamped for the pop). An owner has
moved one of them and not yet the stamp, so the stamp lags in a way that depends
on the kind of owner (`Pushing`, `Popping`, `Evicting`, `Replacing`). A thread in
a loop knows only lower bounds, which stale loads cannot invalidate because
stamps and positions only grow: its position is not ahead of the shared one, and
the stamp is at least what it has read (`LoopInv`).

A compare-and-swap that succeeds turns the lower bound into an equality:
`TailSlotFree` and `HeadSlotFull` show that a slot at `tail` with a stamp not
below `tail`, or at `head` with a stamp above `head`, has no owner. The store of
`force_push` is safe because between its two writes the slot at `tail` still
has last lap's stamp, so nobody else can win the compare-and-swap on `tail`
(`Evicting`, `StoreTailInd`). Equality of words is equality of positions
because everything a thread compares lies within `Laps` laps (`SameIsEqual`,
`StampBounds`): this is where at least four laps are needed. `DropSlotsTaken`
shows that the arithmetic of `drop` yields the slots whose two laps differ.

`StampsGrow` and `OnlyOwnersDelay` read the same invariant in another way. A
stamp store is made by an owner, and the invariant says what stamp it replaces
(`HandOnGrows`). A slot without an owner is free or full; at `tail` and at `head`
this leaves one place for the other position, since the two are at most a lap
apart (`StampSettles`).

Steps fall into four kinds with one lemma each: steps that change no shared
memory (`LocalStep`), steps of an owner on its slot (`OwnerStep`), steps that
move `tail` (`TailStep`) or `head` (`HeadStep`).

**Linearizability** (`LinearProofs`). `Contents` is defined through positions and
a choice of threads. `ContentsIs` turns it into a ring: `Size` values of `Held`
from `head` on, where `Held[i]` is what slot `i` stands for, be it in the slot or
still in the hands of the thread that will put it there (`Carriers`).
`SlotExclusive` makes that thread unique. Four facts about rings (`RingAppend`,
`RingTail`, `RingEvict`, `RingOutside`) then give what each step does to the
contents. A successful push appends because its slot lies just outside the ring;
a pop and an eviction move the start of the ring; the store of `tail` after an
eviction, the writes and the reads of an owner change nothing
(`StoreTailContents`, `WriteContents`, `ReadContents`). `Err` and `None` need
their own argument: the load after the fence compares with a local position that
may be old, and `PushErrContents` and `PopNoneContents` show that when the two
words are equal the queue has N, or no, values at that instant, an unfinished
`force_push` included. The latter needs what a popper in state `Empty` knows
about the stamp, a conjunct of `LoopInv`. `CallInv` adds what each thread
carries (`Carries`), and determines requests and answers.

**The observers** (`ObserversProofs`). `seen[w]` is the set of lengths the queue
has had during the call of watcher `w`. `WatchInv` keeps that a watcher which has
loaded both words in `len` has seen the length they give, or `tail` has moved
since; that one which has loaded `head` in `is_empty` finds `tail` there or has
seen a queue that was not empty; and the like for `is_full`. Positions only move
forward, so a `tail` that is the same at the second load has not moved in
between; equality of words means that because of the bound `NotOvertaken`.

**The clients** argue about `Fifo` only: `StepEffect` and `StepMoves` say how a
step of a thread can show there. The fuzz target (`DiffInv`): the call in flight
either has not taken effect, and the `VecDeque` equals the contents, or it has,
and answer and contents are what the target will compute; in `drop`, the values
not yet reached are still in the slots `DropIndex` will name. The refill test
(`RefillInv`): every item is once in the queue or with one worker, so that when
the queue is full no worker has an item to enqueue (a pigeonhole argument,
`FullQueueHasAll`). The other test (`PassInv`): as many items are stored as
workers have enqueued and not yet dequeued. The benchmark (`Flow`): the items of
one producer are in order in the queue and behind all those that any consumer
has, so that a popped item is later than all its consumer has and new to every
other consumer; the counter is the number of different items counted, hence at
`TOTAL` all of them.

**Words** (`WordsProofs`). The theorems discharge for the program what `Positions`
assumes: its operators are those of the source, and a word counts at least four
laps. `WordsInv` says that `lap` divides the word into at least four laps and is
at most twice the capacity, and that the word is the packed position. The
doubling preserves this because `new()` has bounded the capacity by a quarter of
the word: while `lap <= cap`, a word has more than four laps, an even number
because it divides a power of two, and half of that divides it as well, so it is
not three (`RoomToDouble`). Induction over the rounds of the loop is induction
over steps of the specification, which is why the loop is an action. The rest is
arithmetic of remainders, each number being quotient and remainder in one way
only (`SplitUnique`): the packed word is `one_lap * (lap % laps) + idx`
(`PackIs`), from which the masks take the two parts (`MasksGive`).

**Backoff** (`BackoffProofs`). `SpunInv` bounds the spin hints so far by the
counter, which never decreases.

Each of these invariants was checked with TLC, on the instance of its run or a
smaller one, before it was proved.

**Only model-checked.** `MasksSplitWords`, for six-bit words: that `&` with
`one_lap - 1` and with its complement is the remainder and the multiple that
`Words` has in its place; what `&` computes is a recursion over bits, out of the
prover's reach. And liveness, since the prover has no account of fairness: `CallsReturn`,
`OnlyHoldersBlock`, `LooksEnd`, `YieldsInTheEnd`, `BenchEnds`.

## Not modelled

- `capacity`, `Default`, `Debug`, the atomics shim and padding: no state, no
  branch that depends on state.
- Panics and unwinding in `push`, `force_push` and `pop`: none of them runs user
  code while it owns a slot. Destructors in `drop` are in `Dropping`.
- Interrupt controllers: cores and priorities (see `OnlyHoldersBlock`).
- Timing: the durations of `spin_loop()` and `yield_now()`, and what criterion
  measures.
- The unit tests that are fixed sequences of calls: `differential` covers every
  sequence of their length.
- The vendored `lfqueue`: a different queue, which the benchmark compares with.

## Plan

Done: positions and words, the core with its abstract specification, liveness,
observers, backoff, drop with panics, the clients, and a theorem for every safety
property but `MasksSplitWords`. Nothing planned is left; a change to `src/lib.rs`
should start from the definitions that `map` in `PROJECT.json` names for the
lines it touches.
