---------------------------- MODULE LinearProofs ----------------------------
(***************************************************************************)
(* Linearizability of Queue for every capacity, every number of threads,   *)
(* every set of values and every word size: Queue implements Fifo.         *)
(*                                                                         *)
(* The contents are read off the ring: Size values from head on, where     *)
(* Held[i] is the value slot i stands for, be it in the slot or still in   *)
(* the hands of the thread that will put it there.                         *)
(***************************************************************************)
EXTENDS QueueProofs, SequenceTheorems

\* The index n slots on from slot 0, for n below 2 * N.
Wrap(n) == IF n < N THEN n ELSE n - N

\* The n entries of f from slot h on, around the ring.
Ring(f, h, n) == [k \in 1 .. n |-> f[Wrap(h + k - 1)]]

-----------------------------------------------------------------------------
(* The ring as a sequence.                                                 *)

RingIsSeq(V, f, h, n) ==
  /\ Ring(f, h, n) \in Seq(V)
  /\ Len(Ring(f, h, n)) = n
  /\ \A k \in 1 .. n : Ring(f, h, n)[k] = f[Wrap(h + k - 1)]

\* A stretch of the ring, at most once around, is a sequence.
LEMMA RingSeq ==
  ASSUME NEW V, NEW f \in [Slots -> V], NEW h \in Slots, NEW n \in 0 .. N
  PROVE  RingIsSeq(V, f, h, n)
<1>1. n \in Nat /\ N \in Nat
  BY NAssumption
<1>2. ASSUME NEW k \in 1 .. n PROVE f[Wrap(h + k - 1)] \in V
  BY <1>1 DEF Wrap, Slots
<1>3. Ring(f, h, n) \in [1 .. n -> V]
  BY <1>2 DEF Ring
<1> QED BY <1>1, <1>3 DEF Ring, RingIsSeq

\* Filling the slot behind the stretch appends to it.
LEMMA RingAppend ==
  ASSUME NEW V, NEW f \in [Slots -> V], NEW h \in Slots, NEW n \in 0 .. (N - 1), NEW v \in V
  PROVE  Ring([f EXCEPT ![Wrap(h + n)] = v], h, n + 1) = Append(Ring(f, h, n), v)
<1> DEFINE g == [f EXCEPT ![Wrap(h + n)] = v]
           a == Ring(g, h, n + 1)
           b == Append(Ring(f, h, n), v)
<1>1. n \in Nat /\ N \in Nat /\ n + 1 \in 0 .. N /\ n \in 0 .. N
  BY NAssumption
<1>2. g \in [Slots -> V]
  OBVIOUS
<1> HIDE DEF g
<1>3. /\ a \in Seq(V) /\ Len(a) = n + 1
      /\ \A k \in 1 .. (n + 1) : a[k] = g[Wrap(h + k - 1)]
  <2>1. RingIsSeq(V, g, h, n + 1)
    BY <1>1, <1>2, RingSeq
  <2> QED BY <1>1, <1>2, <2>1 DEF RingIsSeq
<1>4. /\ Ring(f, h, n) \in Seq(V) /\ Len(Ring(f, h, n)) = n
      /\ \A k \in 1 .. n : Ring(f, h, n)[k] = f[Wrap(h + k - 1)]
  <2>1. RingIsSeq(V, f, h, n)
    BY <1>1, RingSeq
  <2> QED BY <1>1, <2>1 DEF RingIsSeq
<1>5. /\ b \in Seq(V) /\ Len(b) = n + 1 /\ b[n + 1] = v
      /\ \A k \in 1 .. n : b[k] = Ring(f, h, n)[k]
  BY <1>1, <1>4, AppendProperties
<1>6. ASSUME NEW k \in 1 .. (n + 1) PROVE a[k] = b[k]
  <2>1. Wrap(h + k - 1) \in Slots /\ Wrap(h + n) \in Slots
    BY <1>1 DEF Wrap, Slots
  <2>2. CASE k = n + 1
    <3>1. h + k - 1 = h + n
      BY <1>1, <2>2 DEF Slots
    <3>2. a[k] = v
      BY <1>3, <2>1, <3>1 DEF g
    <3> QED BY <1>5, <2>2, <3>2
  <2>3. CASE k # n + 1
    <3>1. k \in 1 .. n
      BY <1>1, <2>3
    <3>2. Wrap(h + k - 1) # Wrap(h + n)
      BY <1>1, <3>1 DEF Wrap, Slots
    <3>3. a[k] = f[Wrap(h + k - 1)]
      BY <1>3, <2>1, <3>2 DEF g
    <3> QED BY <1>4, <1>5, <3>1, <3>3
  <2> QED BY <2>2, <2>3
<1> HIDE DEF a, b
<1>7. a = b
  BY <1>3, <1>5, <1>6, SeqEqual
<1> QED BY <1>7 DEF a, b, g

\* Starting one slot later drops the first entry.
LEMMA RingTail ==
  ASSUME NEW V, NEW f \in [Slots -> V], NEW h \in Slots, NEW n \in 1 .. N
  PROVE  /\ Ring(f, h, n) # <<>>
         /\ Head(Ring(f, h, n)) = f[h]
         /\ Tail(Ring(f, h, n)) = Ring(f, Wrap(h + 1), n - 1)
<1> DEFINE a == Ring(f, h, n)
           b == Ring(f, Wrap(h + 1), n - 1)
<1>1. n \in Nat /\ N \in Nat /\ n - 1 \in 0 .. N /\ n \in 0 .. N /\ Wrap(h + 1) \in Slots
  BY NAssumption DEF Wrap, Slots
<1>2. /\ a \in Seq(V) /\ Len(a) = n
      /\ \A k \in 1 .. n : a[k] = f[Wrap(h + k - 1)]
  <2>1. RingIsSeq(V, f, h, n)
    BY <1>1, RingSeq
  <2> QED BY <1>1, <2>1 DEF RingIsSeq
<1>3. /\ b \in Seq(V) /\ Len(b) = n - 1
      /\ \A k \in 1 .. (n - 1) : b[k] = f[Wrap(Wrap(h + 1) + k - 1)]
  <2>1. RingIsSeq(V, f, Wrap(h + 1), n - 1)
    BY <1>1, RingSeq
  <2> QED BY <1>1, <2>1 DEF RingIsSeq
<1> HIDE DEF a, b
<1>4. a # <<>>
  BY <1>1, <1>2
<1>5. Head(a) = f[h]
  <2>1. Wrap(h + 1 - 1) = h
    BY <1>1 DEF Wrap, Slots
  <2>2. a[1] = f[h]
    BY <1>1, <1>2, <2>1
  <2> QED BY <1>2, <1>4, <2>2
<1>6. /\ Tail(a) \in Seq(V) /\ Len(Tail(a)) = n - 1
      /\ \A k \in 1 .. (n - 1) : Tail(a)[k] = a[k + 1]
  BY <1>1, <1>2, <1>4, HeadTailProperties
<1>7. ASSUME NEW k \in 1 .. (n - 1) PROVE Tail(a)[k] = b[k]
  <2>1. Wrap(Wrap(h + 1) + k - 1) = Wrap(h + (k + 1) - 1)
    BY <1>1 DEF Wrap, Slots
  <2>2. k + 1 \in 1 .. n
    BY <1>1
  <2>3. a[k + 1] = f[Wrap(h + (k + 1) - 1)]
    BY <1>2, <2>2
  <2>4. b[k] = f[Wrap(Wrap(h + 1) + k - 1)]
    BY <1>3
  <2>5. Tail(a)[k] = a[k + 1]
    BY <1>6
  <2> QED BY <2>1, <2>3, <2>4, <2>5
<1>8. Tail(a) = b
  BY <1>3, <1>6, <1>7, SeqEqual
<1> QED BY <1>4, <1>5, <1>8 DEF a, b

\* Replacing the first entry of a full ring and starting one slot later appends the
\* new entry to all but the first.
LEMMA RingEvict ==
  ASSUME NEW V, NEW f \in [Slots -> V], NEW h \in Slots, NEW v \in V
  PROVE  Ring([f EXCEPT ![h] = v], Wrap(h + 1), N) = Append(Ring(f, Wrap(h + 1), N - 1), v)
<1>1. N \in Nat /\ N - 1 \in 0 .. (N - 1) /\ Wrap(h + 1) \in Slots
  BY NAssumption DEF Wrap, Slots
<1>2. Wrap(Wrap(h + 1) + (N - 1)) = h /\ (N - 1) + 1 = N
  BY <1>1 DEF Wrap, Slots
<1>3. Ring([f EXCEPT ![Wrap(Wrap(h + 1) + (N - 1))] = v], Wrap(h + 1), (N - 1) + 1)
        = Append(Ring(f, Wrap(h + 1), N - 1), v)
  BY <1>1, RingAppend
<1> QED BY <1>2, <1>3

\* A slot outside the stretch does not matter.
LEMMA RingOutside ==
  ASSUME NEW f, NEW g, NEW h \in Slots, NEW n \in 0 .. N, NEW i,
         \A j \in Slots \ {i} : f[j] = g[j],
         \A k \in 0 .. (n - 1) : i # Wrap(h + k)
  PROVE  Ring(g, h, n) = Ring(f, h, n)
<1>1. n \in Nat /\ N \in Nat
  BY NAssumption
<1>2. ASSUME NEW k \in 1 .. n PROVE g[Wrap(h + k - 1)] = f[Wrap(h + k - 1)]
  <2>1. k - 1 \in 0 .. (n - 1) /\ h + (k - 1) = h + k - 1
    BY <1>1 DEF Slots
  <2>2. i # Wrap(h + k - 1)
    BY <2>1
  <2>3. Wrap(h + k - 1) \in Slots
    BY <1>1 DEF Wrap, Slots
  <2> QED BY <2>2, <2>3
<1> QED BY <1>2 DEF Ring

-----------------------------------------------------------------------------
(* The contents of the queue as a stretch of the ring.                     *)

\* The threads that hold the value of a taken position in val.
Carriers == {u \in Threads : pc[u] \in {"Write", "StoreTail", "Replace"}}

\* The value each slot stands for.
Held ==
  [i \in Slots |->
     IF \E u \in Carriers : pos[u].idx = i
     THEN val[CHOOSE u \in Carriers : pos[u].idx = i]
     ELSE value[i]]

\* The number of values stored.
Size == Distance(head, LogicalTail)

\* What Held is, without CHOOSE: no slot has two carriers.
LEMMA HeldIs ==
  IndInv =>
    /\ Held \in [Slots -> Values \cup {NoValue}]
    /\ \A u \in Carriers : Held[pos[u].idx] = val[u]
    /\ \A j \in Slots : (\A u \in Carriers : pos[u].idx # j) => Held[j] = value[j]
<1> SUFFICES ASSUME IndInv
             PROVE  /\ Held \in [Slots -> Values \cup {NoValue}]
                    /\ \A u \in Carriers : Held[pos[u].idx] = val[u]
                    /\ \A j \in Slots :
                         (\A u \in Carriers : pos[u].idx # j) => Held[j] = value[j]
  OBVIOUS
<1>1. /\ pos \in [Threads -> Position] /\ val \in [Threads -> Values \cup {NoValue}]
      /\ value \in [Slots -> Values \cup {NoValue}] /\ SlotExclusive
  BY DEF IndInv, TypeOK
<1>2. \A u, w \in Carriers : pos[u].idx = pos[w].idx => u = w
  BY <1>1 DEF SlotExclusive, Carriers, Owns, OwnerSteps
<1>3. ASSUME NEW u \in Carriers PROVE pos[u].idx \in Slots /\ u \in Threads
  BY <1>1 DEF Carriers, Position
<1>4. ASSUME NEW u \in Carriers PROVE Held[pos[u].idx] = val[u]
  <2>1. (CHOOSE w \in Carriers : pos[w].idx = pos[u].idx) = u
    BY <1>2
  <2> QED BY <1>3, <2>1 DEF Held
<1>5. ASSUME NEW i \in Slots, \A u \in Carriers : pos[u].idx # i PROVE Held[i] = value[i]
  BY <1>5 DEF Held
<1>6. ASSUME NEW i \in Slots PROVE Held[i] \in Values \cup {NoValue}
  <2>1. CASE \E u \in Carriers : pos[u].idx = i
    BY <1>1, <1>3, <1>4, <2>1
  <2>2. CASE \A u \in Carriers : pos[u].idx # i
    BY <1>1, <1>5, <2>2
  <2> QED BY <2>1, <2>2
<1>7. Held = [i \in Slots |-> Held[i]]
  BY DEF Held
<1> QED BY <1>4, <1>5, <1>6, <1>7

\* The number of values stored, from the two positions.  A force_push that has
\* still to store tail has left a slot free.
LEMMA SizeIs ==
  IndInv =>
    LET d == IF tail.lap = head.lap THEN tail.idx - head.idx ELSE N + tail.idx - head.idx
        e == \E u \in Threads : pc[u] = "StoreTail"
    IN  /\ Size \in 0 .. N /\ d \in 0 .. N
        /\ e => d < N /\ Size = d + 1
        /\ ~e => Size = d
        /\ tail.lap = head.lap \/ tail.lap = head.lap + 1
        /\ tail.lap = head.lap => head.idx <= tail.idx
        /\ tail.lap # head.lap => tail.idx <= head.idx
<1> DEFINE d == IF tail.lap = head.lap THEN tail.idx - head.idx ELSE N + tail.idx - head.idx
           e == \E u \in Threads : pc[u] = "StoreTail"
<1> SUFFICES ASSUME IndInv
             PROVE  /\ Size \in 0 .. N /\ d \in 0 .. N
                    /\ e => d < N /\ Size = d + 1
                    /\ ~e => Size = d
                    /\ tail.lap = head.lap \/ tail.lap = head.lap + 1
                    /\ tail.lap = head.lap => head.idx <= tail.idx
                    /\ tail.lap # head.lap => tail.idx <= head.idx
  OBVIOUS
<1>1. head \in Position /\ tail \in Position /\ Window
  BY DEF IndInv, TypeOK
<1>2. /\ head.idx \in 0 .. (N - 1) /\ tail.idx \in 0 .. (N - 1)
      /\ head.lap \in Nat /\ tail.lap \in Nat /\ N \in Nat
  BY <1>1, NAssumption DEF Position, Slots
<1>3. \/ tail.lap = head.lap /\ head.idx <= tail.idx
      \/ tail.lap = head.lap + 1 /\ tail.idx <= head.idx
  BY <1>1, <1>2 DEF Window, Leq, AddLap
<1>4. d \in 0 .. N
  BY <1>2, <1>3
<1>5. ASSUME ~e PROVE Size = d
  BY <1>2, <1>3, <1>5 DEF Size, LogicalTail, Distance
<1>6. ASSUME e PROVE d < N /\ Size = d + 1
  <2>1. PICK u \in Threads : pc[u] = "StoreTail"
    BY <1>6
  <2>2. pos[u] = tail /\ PopLap(tail.idx) = tail.lap
    BY <2>1 DEF IndInv, OwnerInv, Evicting
  <2>3. d < N
    BY <1>2, <1>3, <2>2 DEF PopLap, LapAt
  <2>4. Size = Distance(head, Succ(tail))
    BY <1>6 DEF Size, LogicalTail
  <2>5. Distance(head, Succ(tail)) = d + 1
    <3>1. CASE tail.idx + 1 < N
      <4>1. Succ(tail).lap = tail.lap /\ Succ(tail).idx = tail.idx + 1
        BY <3>1 DEF Succ
      <4> QED BY <1>2, <1>3, <4>1 DEF Distance
    <3>2. CASE tail.idx = N - 1
      <4>1. Succ(tail).lap = tail.lap + 1 /\ Succ(tail).idx = 0
        BY <1>2, <3>2 DEF Succ
      <4>2. tail.lap = head.lap
        BY <1>2, <1>3, <2>3, <3>2
      <4> QED BY <1>2, <3>2, <4>1, <4>2 DEF Distance
    <3> QED BY <1>2, <3>1, <3>2
  <2> QED BY <2>3, <2>4, <2>5
<1> QED BY <1>2, <1>3, <1>4, <1>5, <1>6

\* The position k steps after p, for k less than a lap.
LEMMA AdvanceIs ==
  ASSUME NEW p \in Position, NEW k \in 0 .. (N - 1)
  PROVE  /\ Advance(p, k) = Pair(LapAt(p, Wrap(p.idx + k)), Wrap(p.idx + k))
         /\ Wrap(p.idx + k) \in Slots
<1>1. p.idx \in 0 .. (N - 1) /\ p.lap \in Nat /\ N \in Nat /\ N > 0
  BY NAssumption DEF Position, Slots
<1> DEFINE a == p.idx
<1> HIDE DEF a
<1>2. a \in 0 .. (N - 1)
  BY <1>1 DEF a
<1>3. (a + k) \div N = (IF a + k < N THEN 0 ELSE 1) /\ (a + k) % N = (IF a + k < N THEN a + k ELSE a + k - N)
  BY <1>1, <1>2
<1> QED BY <1>1, <1>2, <1>3 DEF a, Advance, Pair, LapAt, Wrap, Slots

\* The contents are the Size values held from head on.
LEMMA ContentsIs ==
  IndInv =>
    /\ alive => Contents = Ring(Held, head.idx, Size)
    /\ ~alive => Contents = <<>>
<1> SUFFICES ASSUME IndInv, alive
             PROVE  Contents = Ring(Held, head.idx, Size)
  BY DEF Contents
<1>1. /\ pos \in [Threads -> Position] /\ head \in Position /\ tail \in Position
      /\ head.idx \in Slots
  BY DEF IndInv, TypeOK, Position
<1>2. Size \in 0 .. N /\ N \in Nat
  BY SizeIs, NAssumption
<1>3. ASSUME NEW u \in Carriers PROVE u \in Threads /\ pos[u] = Pair(PopLap(pos[u].idx), pos[u].idx)
  <2>1. u \in Threads /\ OwnerInv(u) /\ pos[u] \in Position
    BY <1>1 DEF IndInv, Carriers
  <2>2. CASE pc[u] = "StoreTail"
    BY <1>1, <2>1, <2>2 DEF OwnerInv, Evicting, Pair, Position
  <2>3. CASE pc[u] # "StoreTail"
    BY <2>1, <2>3 DEF OwnerInv, Carriers, Pushing, Replacing
  <2> QED BY <2>1, <2>2, <2>3
<1>4. ASSUME NEW k \in 1 .. Size
      PROVE  ValueAt(Advance(head, k - 1)) = Held[Wrap(head.idx + k - 1)]
  <2> DEFINE i == Wrap(head.idx + k - 1)
             p == Advance(head, k - 1)
  <2>1. k - 1 \in 0 .. (N - 1) /\ head.idx + (k - 1) = head.idx + k - 1
    BY <1>1, <1>2 DEF Slots
  <2>2. p = Pair(PopLap(i), i) /\ i \in Slots
    BY <1>1, <2>1, AdvanceIs DEF PopLap
  <2> HIDE DEF i, p
  <2>3. p.idx = i
    BY <2>2 DEF Pair
  <2>4. ASSUME NEW u \in Carriers PROVE pos[u].idx = i <=> pos[u] = p
    BY <1>3, <2>2, <2>3
  <2>5. CASE \A u \in Carriers : pos[u].idx # i
    <3>1. ValueAt(p) = value[i]
      BY <2>3, <2>4, <2>5 DEF ValueAt, Carriers
    <3> QED BY <2>2, <2>5, <3>1, HeldIs DEF p, i
  <2>6. CASE \E u \in Carriers : pos[u].idx = i
    <3>1. PICK u \in Carriers : pos[u].idx = i
      BY <2>6
    <3>2. \A w \in Carriers : pos[w].idx = i => w = u
      BY <3>1 DEF IndInv, SlotExclusive, Carriers, Owns, OwnerSteps
    <3>3. u = CHOOSE w \in Threads : pc[w] \in {"Write", "StoreTail", "Replace"} /\ pos[w] = p
      BY <2>4, <3>1, <3>2 DEF Carriers
    <3>4. ValueAt(p) = val[u]
      BY <1>3, <2>4, <3>1, <3>3 DEF ValueAt, Carriers
    <3> QED BY <3>1, <3>4, HeldIs DEF p, i
  <2> QED BY <2>5, <2>6 DEF p, i
<1> QED BY <1>4 DEF Contents, Ring, Size

\* The contents are a sequence.
LEMMA ContentsSeq ==
  ASSUME IndInv
  PROVE  Contents \in Seq(Values \cup {NoValue})
<1>1. CASE alive
  <2>1. Contents = Ring(Held, head.idx, Size)
    BY <1>1, ContentsIs
  <2>2. Held \in [Slots -> Values \cup {NoValue}] /\ Size \in 0 .. N
    BY HeldIs, SizeIs
  <2>3. head.idx \in Slots
    BY DEF IndInv, TypeOK, Position
  <2>4. Ring(Held, head.idx, Size) \in Seq(Values \cup {NoValue})
    <3>1. RingIsSeq(Values \cup {NoValue}, Held, head.idx, Size)
      BY <2>2, <2>3, RingSeq
    <3> QED BY <2>2, <2>3, <3>1 DEF RingIsSeq
  <2> QED BY <2>1, <2>4, Zenon
<1>2. CASE ~alive
  BY <1>2, ContentsIs
<1> QED BY <1>1, <1>2

\* While no call is under way the contents are the values in the slots that drop() will visit, and
\* as many as len() says.
LEMMA RestContents ==
  ASSUME IndInv, alive, \A t \in Threads : AtRest(t)
  PROVE  /\ Contents \in Seq(Values \cup {NoValue})
         /\ Len(Contents) = LenOf(head, tail)
         /\ LenOf(head, tail) \in 0 .. N
         /\ \A k \in 0 .. (LenOf(head, tail) - 1) : value[DropIndex(k)] = Contents[k + 1]
<1>1. Carriers = {} /\ ~\E u \in Threads : pc[u] = "StoreTail"
  BY DEF Carriers, AtRest, Answered
<1>2. Size = Distance(head, tail)
  BY <1>1 DEF Size, LogicalTail
<1>3. Size = LenOf(head, tail) /\ Size \in 0 .. N
  BY <1>2, LenOfIs
<1>4. Held \in [Slots -> Values \cup {NoValue}] /\ \A k \in Slots : Held[k] = value[k]
  BY <1>1, HeldIs
<1>5. Contents = Ring(Held, head.idx, Size)
  BY ContentsIs
<1>6. head.idx \in Slots /\ N \in Nat
  BY NAssumption DEF IndInv, TypeOK, Position
<1>7. /\ Contents \in Seq(Values \cup {NoValue}) /\ Len(Contents) = Size
      /\ \A k \in 1 .. Size : Contents[k] = Held[Wrap(head.idx + k - 1)]
  <2> DEFINE V == Values \cup {NoValue}
             h == head.idx
             n == Size
             f == Held
  <2>1. f \in [Slots -> V] /\ h \in Slots /\ n \in 0 .. N
    BY <1>3, <1>4, <1>6
  <2> HIDE DEF V, h, n, f
  <2>2. /\ Ring(f, h, n) \in Seq(V) /\ Len(Ring(f, h, n)) = n
        /\ \A k \in 1 .. n : Ring(f, h, n)[k] = f[Wrap(h + k - 1)]
    <3>1. RingIsSeq(V, f, h, n)
      BY <2>1, RingSeq
    <3> QED BY <2>1, <3>1 DEF RingIsSeq
  <2> QED BY <1>5, <2>2, Zenon DEF V, h, n, f
<1>8. ASSUME NEW k \in 0 .. (Size - 1) PROVE value[DropIndex(k)] = Contents[k + 1]
  <2>1. k + 1 \in 1 .. Size /\ head.idx + (k + 1) - 1 = head.idx + k
    BY <1>3, <1>6 DEF Slots
  <2>2. DropIndex(k) = Wrap(head.idx + k) /\ DropIndex(k) \in Slots
    BY <1>3, <1>6 DEF DropIndex, Wrap, Slots
  <2> QED BY <1>4, <1>7, <2>1, <2>2
<1> QED BY <1>3, <1>7, <1>8

-----------------------------------------------------------------------------
(* What a step of one thread leaves alone.                                 *)

ThreadStep(t) == Begins(t) \/ Step(t)

\* The other threads keep their place, their locals and, where they own a slot,
\* the value in it.
LEMMA Frame ==
  ASSUME IndInv, NEW t \in Threads, ThreadStep(t)
  PROVE  /\ alive /\ alive' = alive
         /\ \A u \in Threads \ {t} :
              /\ pc'[u] = pc[u] /\ op'[u] = op[u] /\ pos'[u] = pos[u] /\ val'[u] = val[u]
              /\ Owns(u) => value'[pos[u].idx] = value[pos[u].idx]
<1>1. TypeOK /\ SlotExclusive
  BY DEF IndInv
<1>2. CASE Begins(t)
  BY <1>1, <1>2 DEF Begins, Begin, Goto, shared, TypeOK
<1>3. ASSUME Step(t) PROVE alive
  <2>1. ~AtRest(t)
    BY <1>3 DEF Step, Push, ForcePush, Pop, LoadTail, TailStamp, CasTailOk, CasTailErr, Write,
       Publish, PushFull, ForceCasOk, ForceCasErr, StoreTail, Replace, Restamp, LoadHead,
       HeadStamp, CasHeadOk, CasHeadErr, Read, Release, Empty, AtRest, Answered
  <2> QED BY <2>1, BusyAlive
<1>4. CASE Write(t) \/ Replace(t) \/ Read(t)
  <2>1. Owns(t)
    BY <1>4 DEF Write, Replace, Read, Owns, OwnerSteps
  <2>2. PICK x, y, z : Swap(t, x, y, z)
    BY <1>4 DEF Write, Replace, Read
  <2>3. alive
    BY <1>3, <1>4 DEF Step, Push, ForcePush, Pop
  <2> QED BY <1>1, <2>1, <2>2, <2>3 DEF Swap, Goto, TypeOK, SlotExclusive
<1>5. CASE \/ LoadTail(t) \/ TailStamp(t) \/ CasTailOk(t) \/ CasTailErr(t) \/ Publish(t)
           \/ PushFull(t) \/ ForceCasOk(t) \/ ForceCasErr(t) \/ StoreTail(t) \/ Restamp(t)
           \/ LoadHead(t) \/ HeadStamp(t) \/ CasHeadOk(t) \/ CasHeadErr(t) \/ Release(t) \/ Empty(t)
  <2>1. alive
    BY <1>3, <1>5 DEF Step, Push, ForcePush, Pop
  <2>2. \/ \E c, x : Reload(t, c, x)
        \/ \E x : Retry(t, x) \/ GiveUp(t, x) \/ MoveTail(t, x)
        \/ \E x, y : MoveHead(t, x, y) \/ HandOn(t, x, y)
    BY <1>5 DEF LoadTail, TailStamp, CasTailOk, CasTailErr, Publish, PushFull, ForceCasOk,
       ForceCasErr, StoreTail, Restamp, LoadHead, HeadStamp, CasHeadOk, CasHeadErr, Release, Empty
  <2> QED BY <1>1, <2>1, <2>2 DEF Reload, Retry, GiveUp, MoveTail, MoveHead, HandOn, Return, Goto,
          shared, TypeOK
<1> QED BY <1>2, <1>4, <1>5 DEF ThreadStep, Step, Push, ForcePush, Pop

\* Every thread carries what its place in the call says.
LEMMA ThreadCarries ==
  ASSUME IndInv, CallInv, NEW t \in Threads, ThreadStep(t)
  PROVE  CallInv'
<1>1. TypeOK
  BY DEF IndInv
<1>2. Carries(t)'
  <2>1. Carries(t) /\ OwnerInv(t) /\ LoopInv(t)
    BY DEF CallInv, IndInv
  <2>2. CASE Begins(t)
    BY <1>1, <2>2 DEF Carries, Begins, Begin, Goto, TypeOK, PushSteps, PopSteps
  <2>3. CASE LoadTail(t) \/ TailStamp(t) \/ CasTailErr(t) \/ ForceCasErr(t) \/ CasTailOk(t)
    BY <1>1, <2>1, <2>3 DEF Carries, LoadTail, TailStamp, CasTailErr, ForceCasErr, CasTailOk,
       Reload, Retry, MoveTail, Goto, TypeOK, PushSteps, PopSteps
  <2>4. CASE LoadHead(t) \/ HeadStamp(t) \/ CasHeadErr(t) \/ Empty(t)
    BY <1>1, <2>1, <2>4 DEF Carries, LoadHead, HeadStamp, CasHeadErr, Empty,
       Reload, Retry, GiveUp, Return, Goto, TypeOK, PushSteps, PopSteps
  <2>5. CASE PushFull(t)
    BY <1>1, <2>1, <2>5 DEF Carries, LoopInv, PushFull, Retry, GiveUp, Return, Goto, TypeOK,
       PushSteps, PopSteps
  <2>6. CASE ForceCasOk(t) \/ CasHeadOk(t) \/ StoreTail(t)
    BY <1>1, <2>1, <2>6 DEF Carries, ForceCasOk, CasHeadOk, StoreTail, MoveHead, MoveTail, Goto,
       TypeOK, PushSteps, PopSteps
  <2>7. CASE Write(t) \/ Replace(t) \/ Read(t)
    BY <1>1, <2>1, <2>7 DEF Carries, OwnerInv, Write, Replace, Read, Swap, Goto,
       TypeOK, PushSteps, PopSteps
  <2>8. CASE Publish(t) \/ Restamp(t) \/ Release(t)
    BY <1>1, <2>1, <2>8 DEF Carries, Publish, Restamp, Release, HandOn, Return, Goto,
       TypeOK, PushSteps, PopSteps
  <2> QED BY <2>2, <2>3, <2>4, <2>5, <2>6, <2>7, <2>8
          DEF ThreadStep, Step, Push, ForcePush, Pop
<1>3. ASSUME NEW u \in Threads \ {t} PROVE Carries(u)'
  BY Frame DEF CallInv, Carries
<1> QED BY <1>2, <1>3 DEF CallInv

\* Nor does drop() or stuttering change what the threads carry.
LEMMA CallInvInd ==
  ASSUME IndInv, CallInv, [Next]_vars
  PROVE  CallInv'
<1>1. CASE Drop \/ UNCHANGED vars
  BY <1>1 DEF CallInv, Carries, Drop, vars, local
<1>2. ASSUME NEW t \in Threads, CallPush(t) \/ CallForcePush(t) \/ CallPop(t) \/ Step(t)
      PROVE  CallInv'
  <2>1. ThreadStep(t)
    BY <1>2, CallInd DEF ThreadStep
  <2> QED BY <2>1, ThreadCarries
<1> QED BY <1>1, <1>2 DEF Next

-----------------------------------------------------------------------------
(* What a step does to the contents.                                       *)

\* A slot keeps its value if the step neither writes to it nor has anything to do
\* with the carrier that t is or becomes.
LEMMA HeldKept ==
  ASSUME IndInv, IndInv', NEW t \in Threads, ThreadStep(t),
         NEW i \in Slots, value'[i] = value[i],
         t \in Carriers => pos[t].idx # i,
         t \in Carriers' => pos'[t].idx # i
  PROVE  Held'[i] = Held[i]
<1>1. /\ \A u \in Carriers : Held[pos[u].idx] = val[u]
      /\ (\A u \in Carriers : pos[u].idx # i) => Held[i] = value[i]
  BY HeldIs
<1>2. /\ (\A u \in Carriers : Held[pos[u].idx] = val[u])'
      /\ (\A j \in Slots : (\A u \in Carriers : pos[u].idx # j) => Held[j] = value[j])'
  BY HeldIs, PTL
<1>3. /\ \A u \in Carriers' : Held'[pos'[u].idx] = val'[u]
      /\ (\A u \in Carriers' : pos'[u].idx # i) => Held'[i] = value'[i]
  BY <1>2
<1>4. \A u \in Threads \ {t} :
        /\ u \in Carriers <=> u \in Carriers'
        /\ pos'[u] = pos[u] /\ val'[u] = val[u]
  BY Frame DEF Carriers
<1>5. Carriers \subseteq Threads /\ Carriers' \subseteq Threads
  BY DEF Carriers
<1>6. CASE \A u \in Carriers : pos[u].idx # i
  <2>1. \A u \in Carriers' : pos'[u].idx # i
    BY <1>4, <1>5, <1>6
  <2> QED BY <1>1, <1>3, <1>6, <2>1
<1>7. CASE \E u \in Carriers : pos[u].idx = i
  BY <1>1, <1>3, <1>4, <1>5, <1>7
<1> QED BY <1>6, <1>7

\* A step that moves neither position nor any value leaves the contents alone.
LEMMA ContentsKept ==
  ASSUME IndInv, IndInv', NEW t \in Threads, ThreadStep(t),
         UNCHANGED <<head, tail>>, Held' = Held,
         pc[t] # "StoreTail", pc'[t] # "StoreTail"
  PROVE  Contents' = Contents
<1>1. alive /\ alive'
  BY Frame
<1>2. (\E u \in Threads : pc[u] = "StoreTail") <=> (\E u \in Threads : pc'[u] = "StoreTail")
  BY Frame
<1>3. LogicalTail' = LogicalTail
  BY <1>2 DEF LogicalTail, Succ
<1>4. Size' = Size
  BY <1>3 DEF Size, Distance
<1>5. Contents = Ring(Held, head.idx, Size)
  BY <1>1, ContentsIs
<1>6. (alive => Contents = Ring(Held, head.idx, Size))'
  BY ContentsIs, PTL
<1> QED BY <1>1, <1>4, <1>5, <1>6 DEF Ring

\* The steps of the loops, and the stores of stamps, move no value.
LEMMA LoopContents ==
  ASSUME IndInv, IndInv', NEW t \in Threads, ThreadStep(t),
         UNCHANGED <<head, tail, value>>, t \notin Carriers, t \notin Carriers'
  PROVE  Contents' = Contents
<1>1. ASSUME NEW i \in Slots PROVE Held'[i] = Held[i]
  BY HeldKept
<1>2. Held = [i \in Slots |-> Held[i]] /\ Held' = [i \in Slots |-> Held'[i]]
  BY DEF Held
<1>3. Held' = Held
  BY <1>1, <1>2
<1>4. pc[t] # "StoreTail" /\ pc'[t] # "StoreTail"
  BY DEF Carriers
<1> QED BY <1>3, <1>4, ContentsKept

\* write_value and replace_value: the value goes from the thread into the slot.
LEMMA WriteContents ==
  ASSUME IndInv, IndInv', NEW t \in Threads, Write(t) \/ Replace(t)
  PROVE  Contents' = Contents
<1>1. /\ TypeOK /\ ThreadStep(t)
  BY DEF IndInv, ThreadStep, Step, Push, ForcePush
<1>2. pos[t] \in Position /\ pos[t].idx \in Slots /\ pos' = pos /\ UNCHANGED <<head, tail>>
  BY <1>1 DEF TypeOK, Position, Write, Replace, Swap
<1>3. value' = [value EXCEPT ![pos[t].idx] = val[t]]
  BY DEF Write, Replace, Swap
<1>4. t \in Carriers /\ t \notin Carriers' /\ pc[t] # "StoreTail" /\ pc'[t] # "StoreTail"
  BY <1>1 DEF Carriers, Write, Replace, Swap, Goto, TypeOK
<1>5. ASSUME NEW i \in Slots, i # pos[t].idx PROVE Held'[i] = Held[i]
  <2>1. value'[i] = value[i]
    BY <1>1, <1>3, <1>5 DEF TypeOK
  <2> QED BY <1>1, <1>2, <1>4, <1>5, <2>1, HeldKept
<1>6. Held'[pos[t].idx] = Held[pos[t].idx]
  <2>1. Held[pos[t].idx] = val[t]
    BY <1>4, HeldIs
  <2>2. (\A j \in Slots : (\A u \in Carriers : pos[u].idx # j) => Held[j] = value[j])'
    BY HeldIs, PTL
  <2>3. ASSUME NEW u \in Carriers' PROVE pos'[u].idx # pos[t].idx
    <3>1. u \in Threads /\ u # t
      BY <1>4 DEF Carriers
    <3>2. Owns(u) /\ Owns(t)
      BY <1>1, <1>4, <3>1, Frame DEF Carriers, Owns, OwnerSteps
    <3> QED BY <1>2, <3>1, <3>2 DEF IndInv, SlotExclusive
  <2>4. Held'[pos[t].idx] = value'[pos[t].idx]
    BY <1>2, <2>2, <2>3
  <2>5. value'[pos[t].idx] = val[t]
    BY <1>1, <1>2, <1>3 DEF TypeOK
  <2> QED BY <2>1, <2>4, <2>5
<1>7. Held = [i \in Slots |-> Held[i]] /\ Held' = [i \in Slots |-> Held'[i]]
  BY DEF Held
<1>8. Held' = Held
  BY <1>5, <1>6, <1>7
<1> QED BY <1>1, <1>2, <1>4, <1>8, ContentsKept

\* read_value: the slot that is emptied is outside the stretch.
LEMMA ReadContents ==
  ASSUME IndInv, IndInv', NEW t \in Threads, Read(t)
  PROVE  Contents' = Contents
<1>1. TypeOK /\ ThreadStep(t)
  BY DEF IndInv, ThreadStep, Step, Pop
<1> DEFINE i == pos[t].idx
<1>2. i \in Slots /\ UNCHANGED <<head, tail, pos>> /\ head \in Position /\ tail \in Position
  BY <1>1 DEF TypeOK, Position, Read, Swap
<1>3. t \notin Carriers /\ t \notin Carriers' /\ pc[t] # "StoreTail" /\ pc'[t] # "StoreTail"
  BY <1>1 DEF Carriers, Read, Swap, Goto, TypeOK
<1>4. ASSUME NEW j \in Slots \ {i} PROVE Held[j] = Held'[j]
  <2>1. value'[j] = value[j]
    BY <1>1 DEF TypeOK, Read, Swap
  <2> QED BY <1>1, <1>3, <2>1, HeldKept
<1>5. PushLap(i) = PopLap(i)
  BY DEF IndInv, OwnerInv, Read, Popping
<1>6. (\E u \in Threads : pc[u] = "StoreTail") => i # tail.idx
  <2> SUFFICES ASSUME NEW u \in Threads, pc[u] = "StoreTail" PROVE i # tail.idx
    OBVIOUS
  <2>1. pos[u] = tail
    BY DEF IndInv, OwnerInv, Evicting
  <2>2. u # t /\ Owns(u) /\ Owns(t)
    BY <1>3 DEF Owns, OwnerSteps, Read
  <2> QED BY <2>1, <2>2 DEF IndInv, SlotExclusive
<1> DEFINE d == IF tail.lap = head.lap THEN tail.idx - head.idx ELSE N + tail.idx - head.idx
           e == \E u \in Threads : pc[u] = "StoreTail"
<1>7. /\ Size \in 0 .. N /\ d \in 0 .. N
      /\ e => d < N /\ Size = d + 1
      /\ ~e => Size = d
      /\ tail.lap = head.lap \/ tail.lap = head.lap + 1
      /\ tail.lap = head.lap => head.idx <= tail.idx
      /\ tail.lap # head.lap => tail.idx <= head.idx
  BY SizeIs
<1>8. /\ head.idx \in 0 .. (N - 1) /\ tail.idx \in 0 .. (N - 1) /\ i \in 0 .. (N - 1)
      /\ head.lap \in Nat /\ tail.lap \in Nat /\ N \in Nat
  BY <1>2, NAssumption DEF Position, Slots
<1>9. ASSUME NEW k \in 0 .. (Size - 1) PROVE i # Wrap(head.idx + k)
  <2>1. IF tail.lap = head.lap THEN ~(head.idx <= i /\ i < tail.idx)
                               ELSE ~(head.idx <= i \/ i < tail.idx)
    BY <1>5, <1>7, <1>8 DEF PushLap, PopLap, LapAt
  <2>2. e => i # tail.idx
    BY <1>6
  <2> HIDE DEF e, i
  <2> QED BY <1>7, <1>8, <2>1, <2>2 DEF Wrap
<1>10. Ring(Held', head.idx, Size) = Ring(Held, head.idx, Size)
  <2>1. head.idx \in Slots /\ Size \in 0 .. N
    BY <1>2, <1>7 DEF Position
  <2>2. /\ \A j \in Slots \ {i} : Held[j] = Held'[j]
        /\ \A k \in 0 .. (Size - 1) : i # Wrap(head.idx + k)
    BY <1>4, <1>9
  <2> HIDE DEF i
  <2> QED BY <2>1, <2>2, RingOutside
<1>11. alive /\ alive'
  BY <1>1, Frame
<1>12. e <=> (\E u \in Threads : pc'[u] = "StoreTail")
  BY <1>1, <1>3, Frame
<1>13. LogicalTail' = LogicalTail
  BY <1>2, <1>12 DEF LogicalTail, Succ
<1>14. Size' = Size
  BY <1>2, <1>13 DEF Size, Distance
<1>15. Contents = Ring(Held, head.idx, Size)
  BY <1>11, ContentsIs
<1>16. (alive => Contents = Ring(Held, head.idx, Size))'
  BY ContentsIs, PTL
<1> QED BY <1>2, <1>10, <1>11, <1>14, <1>15, <1>16

\* The index of the next position.
LEMMA SuccIs ==
  ASSUME NEW p \in Position
  PROVE  /\ Succ(p).idx = Wrap(p.idx + 1)
         /\ Succ(p).lap = IF p.idx = N - 1 THEN p.lap + 1 ELSE p.lap
BY NAssumption DEF Succ, Wrap, Position, Slots

\* A force_push that has still to store tail owns the slot at tail.
LEMMA EvictorOwns ==
  ASSUME IndInv, NEW u \in Threads, pc[u] = "StoreTail"
  PROVE  Owns(u) /\ pos[u] = tail /\ stamp[tail.idx] = Pair(tail.lap - 1, tail.idx + 1)
BY DEF IndInv, OwnerInv, Evicting, Owns, OwnerSteps

\* The compare-and-swap of tail is where push, or a force_push that finds room,
\* takes effect.
LEMMA CasTailContents ==
  ASSUME IndInv, IndInv', NEW t \in Threads, CasTailOk(t)
  PROVE  Len(Contents) < N /\ Contents' = Append(Contents, val[t])
<1>1. TypeOK /\ ThreadStep(t) /\ Leq(pos[t], tail) /\ InReach(pos[t], tail)
      /\ Leq(pos[t], stamp[pos[t].idx]) /\ val[t] \in Values
  BY DEF IndInv, LoopInv, CasTailOk, ThreadStep, Step, Push, PushSteps
<1>2. pos[t] \in Position /\ tail \in Position /\ head \in Position
  BY <1>1 DEF TypeOK
<1>3. pos[t] = tail
  <2>1. tail.lap - pos[t].lap < Laps /\ pos[t].lap - tail.lap < Laps
    BY <1>1, <1>2, LapsAssumption DEF Leq, InReach, Position
  <2>2. Same(tail, pos[t])
    BY DEF CasTailOk
  <2> QED BY <1>2, <2>1, <2>2, SameIsEqual, PositionType
<1>4. ~Owned(tail.idx) /\ FreeSlot(tail.idx)
  BY <1>1, <1>3, TailSlotFree
<1>5. /\ tail' = Succ(tail) /\ UNCHANGED <<head, value, pos, val>> /\ pc' = [pc EXCEPT ![t] = "Write"]
  BY <1>3 DEF CasTailOk, MoveTail, Goto
<1>6. ~\E u \in Threads : pc[u] = "StoreTail"
  BY <1>4, EvictorOwns DEF Owned
<1>7. ~\E u \in Threads : pc'[u] = "StoreTail"
  BY <1>1, <1>5, <1>6 DEF TypeOK
<1> DEFINE d == IF tail.lap = head.lap THEN tail.idx - head.idx ELSE N + tail.idx - head.idx
<1>8. /\ Size \in 0 .. N /\ Size = d
      /\ tail.lap = head.lap \/ tail.lap = head.lap + 1
      /\ tail.lap = head.lap => head.idx <= tail.idx
      /\ tail.lap # head.lap => tail.idx <= head.idx
  BY <1>6, SizeIs
<1>9. Size' = IF tail'.lap = head.lap THEN tail'.idx - head.idx ELSE N + tail'.idx - head.idx
  <2>1. LogicalTail' = Succ(tail)
    BY <1>5, <1>7 DEF LogicalTail
  <2>2. Size' = Distance(head, Succ(tail))
    BY <1>5, <2>1 DEF Size, Distance
  <2>3. (Window /\ tail \in Position)'
    BY DEF IndInv, TypeOK
  <2>4. Leq(head, Succ(tail)) /\ Leq(Succ(tail), AddLap(head)) /\ Succ(tail) \in Position
    BY <1>5, <2>3 DEF Window, Leq, AddLap
  <2>5. \/ Succ(tail).lap = head.lap
        \/ Succ(tail).lap = head.lap + 1
    BY <1>2, <2>4 DEF Leq, AddLap, Position, Slots
  <2> QED BY <1>2, <1>5, <2>2, <2>4, <2>5, NAssumption DEF Distance, Position, Slots
<1>10. tail.lap = head.lap => head.idx <= tail.idx
  BY <1>8
<1>11. tail.lap # head.lap => tail.idx < head.idx
  BY <1>2, <1>4, <1>8 DEF FreeSlot, PushLap, PopLap, LapAt, Position, Slots
<1>12. /\ head.idx \in 0 .. (N - 1) /\ tail.idx \in 0 .. (N - 1)
       /\ head.lap \in Nat /\ tail.lap \in Nat /\ N \in Nat
  BY <1>2, NAssumption DEF Position, Slots
<1>13. Size < N /\ Size' = Size + 1 /\ Wrap(head.idx + Size) = tail.idx
  BY <1>2, <1>5, <1>8, <1>9, <1>11, <1>12, SuccIs DEF Wrap
<1>14. Held \in [Slots -> Values \cup {NoValue}] /\ (Held \in [Slots -> Values \cup {NoValue}])'
  BY HeldIs, PTL
<1>15. Held' = [Held EXCEPT ![tail.idx] = val[t]]
  <2>1. t \notin Carriers /\ t \in Carriers'
    BY <1>1, <1>5 DEF CasTailOk, Carriers, TypeOK
  <2>2. ASSUME NEW i \in Slots, i # tail.idx PROVE Held'[i] = Held[i]
    BY <1>1, <1>3, <1>5, <2>1, <2>2, HeldKept
  <2>3. (\A u \in Carriers : Held[pos[u].idx] = val[u])'
    BY HeldIs, PTL
  <2>4. Held'[tail.idx] = val[t]
    BY <1>3, <1>5, <2>1, <2>3
  <2> QED BY <1>14, <2>2, <2>4
<1>16. alive /\ alive'
  BY <1>1, Frame
<1>17. Contents = Ring(Held, head.idx, Size)
  BY <1>16, ContentsIs
<1>18. (alive => Contents = Ring(Held, head.idx, Size))'
  BY ContentsIs, PTL
<1>19. Contents' = Ring([Held EXCEPT ![tail.idx] = val[t]], head.idx, Size + 1)
  BY <1>5, <1>13, <1>15, <1>16, <1>18
<1>20. Size \in 0 .. (N - 1) /\ Size \in 0 .. N /\ head.idx \in Slots /\ val[t] \in Values \cup {NoValue}
  BY <1>1, <1>8, <1>12, <1>13 DEF Slots
<1>21. Contents' = Append(Contents, val[t])
  <2>1. Ring([Held EXCEPT ![Wrap(head.idx + Size)] = val[t]], head.idx, Size + 1)
          = Append(Ring(Held, head.idx, Size), val[t])
    BY <1>14, <1>20, RingAppend
  <2> QED BY <1>13, <1>17, <1>19, <2>1
<1>22. Len(Contents) = Size
  <2>1. RingIsSeq(Values \cup {NoValue}, Held, head.idx, Size)
    BY <1>14, <1>17, <1>20, RingSeq
  <2> QED BY <1>14, <1>17, <1>20, <2>1 DEF RingIsSeq
<1> QED BY <1>13, <1>21, <1>22

\* The store to tail changes nothing: the force_push took effect before it.
LEMMA StoreTailContents ==
  ASSUME IndInv, IndInv', NEW t \in Threads, StoreTail(t)
  PROVE  Contents' = Contents
<1>1. TypeOK /\ ThreadStep(t) /\ pc[t] = "StoreTail"
  BY DEF IndInv, StoreTail, ThreadStep, Step, ForcePush
<1>2. pos[t] = tail /\ Owns(t)
  BY <1>1, EvictorOwns
<1>3. /\ tail' = Succ(tail) /\ UNCHANGED <<head, value, pos, val>> /\ pc' = [pc EXCEPT ![t] = "Replace"]
  BY <1>2 DEF StoreTail, MoveTail, Goto
<1>4. ~\E u \in Threads : pc'[u] = "StoreTail"
  <2>1. ASSUME NEW u \in Threads \ {t}, pc[u] = "StoreTail" PROVE FALSE
    BY <1>2, <2>1, EvictorOwns DEF IndInv, SlotExclusive
  <2> QED BY <1>1, <1>3, <2>1 DEF TypeOK
<1>5. LogicalTail' = LogicalTail
  BY <1>1, <1>3, <1>4 DEF LogicalTail
<1>6. Size' = Size
  BY <1>3, <1>5 DEF Size, Distance
<1>7. t \in Carriers /\ t \in Carriers' /\ tail.idx \in Slots
  BY <1>1, <1>3 DEF Carriers, TypeOK, Position
<1>8. ASSUME NEW i \in Slots, i # tail.idx PROVE Held'[i] = Held[i]
  BY <1>1, <1>2, <1>3, <1>8, HeldKept
<1>9. Held'[tail.idx] = Held[tail.idx]
  <2>1. (\A u \in Carriers : Held[pos[u].idx] = val[u])'
    BY HeldIs, PTL
  <2>2. Held'[tail.idx] = val[t]
    BY <1>2, <1>3, <1>7, <2>1
  <2>3. Held[tail.idx] = val[t]
    BY <1>2, <1>7, HeldIs
  <2> QED BY <2>2, <2>3
<1>10. Held = [i \in Slots |-> Held[i]] /\ Held' = [i \in Slots |-> Held'[i]]
  BY DEF Held
<1>11. Held' = Held
  BY <1>8, <1>9, <1>10
<1>12. alive /\ alive'
  BY <1>1, Frame
<1>13. Contents = Ring(Held, head.idx, Size)
  BY <1>12, ContentsIs
<1>14. (alive => Contents = Ring(Held, head.idx, Size))'
  BY ContentsIs, PTL
<1> QED BY <1>3, <1>6, <1>11, <1>12, <1>13, <1>14

\* The compare-and-swap of head is where a successful pop takes effect.
LEMMA CasHeadContents ==
  ASSUME IndInv, IndInv', NEW t \in Threads, CasHeadOk(t)
  PROVE  /\ Contents # <<>> /\ Contents' = Tail(Contents)
         /\ Head(Contents) = value[head.idx] /\ pos[t] = head
<1>1. TypeOK /\ ThreadStep(t) /\ Leq(pos[t], head) /\ InReach(pos[t], tail) /\ Leq(head, tail)
      /\ Leq(PlusOne(pos[t]), stamp[pos[t].idx])
  BY DEF IndInv, LoopInv, CasHeadOk, Window, ThreadStep, Step, Pop
<1>2. pos[t] \in Position /\ tail \in Position /\ head \in Position
  BY <1>1 DEF TypeOK
<1>3. pos[t] = head
  <2>1. head.lap - pos[t].lap < Laps /\ pos[t].lap - head.lap < Laps
    BY <1>1, <1>2, LapsAssumption DEF Leq, InReach, Position
  <2>2. Same(head, pos[t])
    BY DEF CasHeadOk
  <2> QED BY <1>2, <2>1, <2>2, SameIsEqual, PositionType
<1>4. ~Owned(head.idx) /\ FullSlot(head.idx)
  BY <1>1, <1>3, HeadSlotFull
<1>5. /\ head' = Succ(head) /\ UNCHANGED <<tail, value, pos, val>> /\ pc' = [pc EXCEPT ![t] = "Read"]
  BY <1>3 DEF CasHeadOk, MoveHead, Goto
<1> DEFINE d == IF tail.lap = head.lap THEN tail.idx - head.idx ELSE N + tail.idx - head.idx
           e == \E u \in Threads : pc[u] = "StoreTail"
<1>6. e <=> \E u \in Threads : pc'[u] = "StoreTail"
  BY <1>1, <1>5 DEF TypeOK, CasHeadOk
<1>7. /\ Size \in 0 .. N /\ d \in 0 .. N
      /\ e => Size = d + 1
      /\ ~e => Size = d
      /\ tail.lap = head.lap \/ tail.lap = head.lap + 1
      /\ tail.lap = head.lap => head.idx <= tail.idx
      /\ tail.lap # head.lap => tail.idx <= head.idx
  BY SizeIs
<1>8. /\ head.idx \in 0 .. (N - 1) /\ tail.idx \in 0 .. (N - 1)
      /\ head.lap \in Nat /\ tail.lap \in Nat /\ N \in Nat
  BY <1>2, NAssumption DEF Position, Slots
<1>9. d >= 1
  BY <1>4, <1>7, <1>8 DEF FullSlot, PushLap, PopLap, LapAt
<1>10. Size' = Size - 1
  <2>1. LogicalTail' = LogicalTail /\ LogicalTail \in Position
    BY <1>2, <1>5, <1>6, PositionType DEF LogicalTail
  <2>2. Size' = Distance(Succ(head), LogicalTail) /\ Size = Distance(head, LogicalTail)
    BY <1>5, <2>1 DEF Size, Distance
  <2>3. PICK a \in Int : a = LogicalTail.lap - head.lap
    BY <1>8, <2>1 DEF Position
  <2>4. PICK b \in Int : b = a * N
    BY <1>8, <2>3
  <2>5. CASE head.idx = N - 1
    <3>1. LogicalTail.lap - Succ(head).lap = a - 1 /\ Succ(head).idx = 0
      BY <1>2, <1>8, <2>1, <2>3, <2>5, SuccIs DEF Position, Wrap
    <3>2. (a - 1) * N = b - N
      BY <1>8, <2>3, <2>4
    <3> QED BY <1>8, <2>1, <2>2, <2>3, <2>4, <2>5, <3>1, <3>2 DEF Distance, Position, Slots
  <2>6. CASE head.idx # N - 1
    <3>1. LogicalTail.lap - Succ(head).lap = a /\ Succ(head).idx = head.idx + 1
      BY <1>2, <1>8, <2>1, <2>3, <2>6, SuccIs DEF Position, Wrap
    <3> QED BY <1>8, <2>1, <2>2, <2>3, <2>4, <3>1 DEF Distance, Position, Slots
  <2> QED BY <2>5, <2>6
<1>11. t \notin Carriers /\ t \notin Carriers'
  BY <1>1, <1>5 DEF CasHeadOk, Carriers, TypeOK
<1>12. Held' = Held
  <2>1. ASSUME NEW i \in Slots PROVE Held'[i] = Held[i]
    BY <1>1, <1>5, <1>11, HeldKept
  <2>2. Held = [i \in Slots |-> Held[i]] /\ Held' = [i \in Slots |-> Held'[i]]
    BY DEF Held
  <2> QED BY <2>1, <2>2
<1>13. Held \in [Slots -> Values \cup {NoValue}] /\ Held[head.idx] = value[head.idx]
  <2>1. \A u \in Carriers : pos[u].idx # head.idx
    BY <1>4 DEF Owned, Carriers, Owns, OwnerSteps
  <2> QED BY <1>8, <2>1, HeldIs DEF Slots
<1>14. alive /\ alive'
  BY <1>1, Frame
<1>15. Contents = Ring(Held, head.idx, Size)
  BY <1>14, ContentsIs
<1>16. (alive => Contents = Ring(Held, head.idx, Size))'
  BY ContentsIs, PTL
<1>17. Contents' = Ring(Held, Wrap(head.idx + 1), Size - 1)
  BY <1>2, <1>5, <1>10, <1>12, <1>14, <1>16, SuccIs
<1>18. Size \in 1 .. N /\ head.idx \in Slots
  BY <1>7, <1>8, <1>9 DEF Slots
<1>19. /\ Contents # <<>> /\ Head(Contents) = Held[head.idx]
       /\ Tail(Contents) = Ring(Held, Wrap(head.idx + 1), Size - 1)
  BY <1>13, <1>15, <1>18, RingTail
<1> QED BY <1>3, <1>13, <1>17, <1>19

\* The compare-and-swap of head by a force_push on a full queue is where it both
\* evicts the oldest value and appends its own.
LEMMA ForceCasContents ==
  ASSUME IndInv, IndInv', NEW t \in Threads, ForceCasOk(t)
  PROVE  /\ Len(Contents) = N /\ Contents' = Append(Tail(Contents), val[t])
         /\ Head(Contents) = value[pos[t].idx]
<1>1. /\ TypeOK /\ ThreadStep(t) /\ Window /\ val[t] \in Values
      /\ Leq(pos[t], tail) /\ InReach(pos[t], tail) /\ pos[t].lap >= 1
      /\ Leq(PlusOne(pos[t]), AddLap(stamp[pos[t].idx]))
  BY DEF IndInv, LoopInv, ForceCasOk, PushSteps, ThreadStep, Step, ForcePush
<1>2. /\ pos[t] \in Position /\ pos[t].idx \in Slots /\ tail \in Position /\ head \in Position
      /\ SubLap(pos[t]) \in Position
  BY <1>1, PositionType DEF TypeOK
<1>3. head = SubLap(pos[t])
  <2>1. /\ head.lap - SubLap(pos[t]).lap < Laps
        /\ SubLap(pos[t]).lap - head.lap < Laps
    BY <1>1, <1>2, LapsAssumption DEF Window, Leq, InReach, Position, SubLap, AddLap
  <2>2. Same(head, SubLap(pos[t]))
    BY DEF ForceCasOk
  <2> QED BY <1>2, <2>1, <2>2, SameIsEqual, PositionType
<1>4. pos[t] = tail /\ head.idx = tail.idx /\ head.lap = tail.lap - 1 /\ tail.lap >= 1
  BY <1>1, <1>2, <1>3 DEF Window, Leq, AddLap, SubLap, Position, Slots
<1>5. ~Owned(head.idx)
  <2>1. stamp[pos[t].idx] \in Stamp
    BY <1>1, <1>2 DEF TypeOK
  <2>2. Leq(PlusOne(head), stamp[head.idx])
    BY <1>1, <1>2, <1>3, <2>1 DEF Leq, PlusOne, AddLap, SubLap, Position, Stamp
  <2> QED BY <2>2, HeadSlotFull
<1>6. head' = Succ(head)
  BY <1>2, <1>3 DEF ForceCasOk, SubLap, Succ, Position, MoveHead
<1>7. UNCHANGED <<tail, value, pos, val>> /\ pc' = [pc EXCEPT ![t] = "StoreTail"]
  BY DEF ForceCasOk, MoveHead, Goto
<1>8. /\ head.idx \in 0 .. (N - 1) /\ tail.idx \in 0 .. (N - 1)
      /\ head.lap \in Nat /\ tail.lap \in Nat /\ N \in Nat
  BY <1>2, NAssumption DEF Position, Slots
<1>9. Size = N
  <2>1. ~\E u \in Threads : pc[u] = "StoreTail"
    BY <1>4, <1>5, EvictorOwns DEF Owned
  <2> QED BY <1>4, <1>8, <2>1, SizeIs
<1>10. Size' = N
  <2>1. \E u \in Threads : pc'[u] = "StoreTail"
    BY <1>1, <1>7 DEF TypeOK
  <2>2. Size' = Distance(Succ(head), Succ(tail))
    BY <1>6, <1>7, <2>1 DEF Size, LogicalTail, Distance, Succ
  <2>3. Succ(tail).idx = Succ(head).idx /\ Succ(tail).lap = Succ(head).lap + 1
        /\ Succ(tail).idx \in Int /\ Succ(head).lap \in Int
    BY <1>2, <1>4, <1>8, SuccIs DEF Wrap
  <2> QED BY <1>8, <2>2, <2>3 DEF Distance
<1>11. Held \in [Slots -> Values \cup {NoValue}] /\ (Held \in [Slots -> Values \cup {NoValue}])'
  BY HeldIs, PTL
<1>12. t \notin Carriers /\ t \in Carriers'
  BY <1>1, <1>7 DEF ForceCasOk, Carriers, TypeOK
<1>13. Held' = [Held EXCEPT ![head.idx] = val[t]]
  <2>1. ASSUME NEW i \in Slots, i # head.idx PROVE Held'[i] = Held[i]
    BY <1>1, <1>4, <1>7, <1>12, <2>1, HeldKept
  <2>2. (\A u \in Carriers : Held[pos[u].idx] = val[u])'
    BY HeldIs, PTL
  <2>3. Held'[head.idx] = val[t]
    BY <1>4, <1>7, <1>12, <2>2
  <2> QED BY <1>11, <2>1, <2>3
<1>14. Held[head.idx] = value[head.idx]
  <2>1. \A u \in Carriers : pos[u].idx # head.idx
    BY <1>5 DEF Owned, Carriers, Owns, OwnerSteps
  <2> QED BY <1>8, <2>1, HeldIs DEF Slots
<1>15. alive /\ alive'
  BY <1>1, Frame
<1>16. Contents = Ring(Held, head.idx, N)
  BY <1>9, <1>15, ContentsIs
<1>17. (alive => Contents = Ring(Held, head.idx, Size))'
  BY ContentsIs, PTL
<1>18. Contents' = Ring(Held', Wrap(head.idx + 1), N)
  BY <1>2, <1>6, <1>10, <1>15, <1>17, SuccIs
<1>19. N \in 0 .. N /\ N \in 1 .. N /\ head.idx \in Slots /\ val[t] \in Values \cup {NoValue}
  BY <1>1, <1>8, NAssumption DEF Slots
<1>20. Contents' = Append(Tail(Contents), val[t])
  <2>1. Tail(Contents) = Ring(Held, Wrap(head.idx + 1), N - 1)
    BY <1>11, <1>16, <1>19, RingTail
  <2>2. Ring([Held EXCEPT ![head.idx] = val[t]], Wrap(head.idx + 1), N)
          = Append(Ring(Held, Wrap(head.idx + 1), N - 1), val[t])
    BY <1>11, <1>19, RingEvict
  <2> QED BY <1>13, <1>18, <2>1, <2>2
<1>21. Len(Contents) = N
  <2>1. RingIsSeq(Values \cup {NoValue}, Held, head.idx, N)
    BY <1>11, <1>16, <1>19, RingSeq
  <2> QED BY <1>11, <1>16, <1>19, <2>1 DEF RingIsSeq
<1>22. Head(Contents) = Held[head.idx]
  BY <1>11, <1>16, <1>19, RingTail
<1> QED BY <1>4, <1>14, <1>20, <1>21, <1>22

\* push returns Err only if N values are stored at the load after its fence.
LEMMA PushErrContents ==
  ASSUME IndInv, NEW t \in Threads, pc[t] = "Full", Same(AddLap(head), pos[t])
  PROVE  Len(Contents) = N
<1>1. /\ TypeOK /\ Window /\ Leq(pos[t], tail) /\ InReach(pos[t], tail)
  BY DEF IndInv, LoopInv
<1>2. /\ pos[t] \in Position /\ tail \in Position /\ head \in Position
      /\ AddLap(head) \in Position
  BY <1>1, PositionType DEF TypeOK
<1>3. AddLap(head) = pos[t]
  <2>1. /\ AddLap(head).lap - pos[t].lap < Laps
        /\ pos[t].lap - AddLap(head).lap < Laps
    BY <1>1, <1>2, LapsAssumption DEF Window, Leq, InReach, Position, AddLap
  <2> QED BY <1>2, <2>1, SameIsEqual, PositionType
<1>4. /\ head.idx \in 0 .. (N - 1) /\ tail.idx \in 0 .. (N - 1)
      /\ head.lap \in Nat /\ tail.lap \in Nat /\ N \in Nat
  BY <1>2, NAssumption DEF Position, Slots
<1>5. tail.idx = head.idx /\ tail.lap = head.lap + 1
  BY <1>1, <1>2, <1>3, <1>4 DEF Window, Leq, AddLap
<1>6. Size = N
  BY <1>4, <1>5, SizeIs
<1>7. alive
  BY BusyAlive DEF AtRest, Answered
<1>8. Contents = Ring(Held, head.idx, N) /\ Held \in [Slots -> Values \cup {NoValue}]
  BY <1>6, <1>7, ContentsIs, HeldIs
<1>9. N \in 0 .. N /\ head.idx \in Slots
  BY <1>4 DEF Slots
<1>10. RingIsSeq(Values \cup {NoValue}, Held, head.idx, N)
  BY <1>8, <1>9, RingSeq
<1> QED BY <1>8, <1>10 DEF RingIsSeq

\* pop returns None only if nothing is stored at the load after its fence.
LEMMA PopNoneContents ==
  ASSUME IndInv, NEW t \in Threads, pc[t] = "Empty", Same(tail, pos[t])
  PROVE  Contents = <<>>
<1>1. /\ TypeOK /\ Leq(head, tail) /\ Leq(pos[t], head) /\ InReach(pos[t], tail)
      /\ Leq(pos[t], stamp[pos[t].idx])
  BY DEF IndInv, LoopInv, Window
<1>2. pos[t] \in Position /\ tail \in Position /\ head \in Position
  BY <1>1 DEF TypeOK
<1>3. tail = pos[t]
  <2>1. tail.lap - pos[t].lap < Laps /\ pos[t].lap - tail.lap < Laps
    BY <1>1, <1>2, LapsAssumption DEF Leq, InReach, Position
  <2> QED BY <1>2, <2>1, SameIsEqual, PositionType
<1>4. /\ head.idx \in 0 .. (N - 1) /\ tail.idx \in 0 .. (N - 1)
      /\ head.lap \in Nat /\ tail.lap \in Nat /\ N \in Nat
  BY <1>2, NAssumption DEF Position, Slots
<1>5. tail.idx = head.idx /\ tail.lap = head.lap
  BY <1>1, <1>3, <1>4 DEF Leq
<1>6. ~\E u \in Threads : pc[u] = "StoreTail"
  BY <1>1, <1>3, <1>4, EvictorOwns DEF Leq, Pair
<1>7. Size = 0
  BY <1>4, <1>5, <1>6, SizeIs
<1>8. alive
  BY BusyAlive DEF AtRest, Answered
<1>9. Contents = Ring(Held, head.idx, 0) /\ Held \in [Slots -> Values \cup {NoValue}]
  BY <1>7, <1>8, ContentsIs, HeldIs
<1>10. 0 \in 0 .. N /\ head.idx \in Slots
  BY <1>4 DEF Slots
<1>11. Contents \in Seq(Values \cup {NoValue}) /\ Len(Contents) = 0
  <2>1. RingIsSeq(Values \cup {NoValue}, Held, head.idx, 0)
    BY <1>9, <1>10, RingSeq
  <2> QED BY <1>9, <1>10, <2>1 DEF RingIsSeq
<1> QED BY <1>11

-----------------------------------------------------------------------------
(* Every step of Queue is a step of Fifo or changes nothing there.         *)

\* The requests and answers of Fifo.
Calls == [t \in Threads |-> CallOf(t)]

\* A step of t leaves the calls of the others alone.
LEMMA CallsFrame ==
  ASSUME IndInv, NEW t \in Threads, ThreadStep(t)
  PROVE  /\ Calls' = [Calls EXCEPT ![t] = CallOf(t)']
         /\ Calls[t] = CallOf(t)
         /\ CallOf(t)' = CallOf(t) => Calls' = Calls
<1>1. ASSUME NEW u \in Threads \ {t} PROVE CallOf(u)' = CallOf(u)
  BY Frame DEF CallOf, AtRest, Owns, OwnerSteps
<1>2. /\ Calls = [u \in Threads |-> CallOf(u)]
      /\ Calls' = [u \in Threads |-> CallOf(u)']
  BY DEF Calls
<1>3. Calls[t] = CallOf(t)
  BY <1>2
<1>4. Calls' = [Calls EXCEPT ![t] = CallOf(t)']
  BY <1>1, <1>2
<1> QED BY <1>1, <1>2, <1>3, <1>4

\* A thread at rest has the answer to its last call.
LEMMA RestIs ==
  ASSUME NEW t \in Threads, AtRest(t)
  PROVE  CallOf(t) = [tag |-> pc[t], val |-> val[t]] /\ Calls[t] = CallOf(t)
BY DEF CallOf, Calls, AtRest, Answered

\* It is one that Fifo can give.
LEMMA RestAnswers ==
  ASSUME CallInv, NEW t \in Threads, AtRest(t)
  PROVE  CallOf(t) = [tag |-> pc[t], val |-> val[t]] /\ CallOf(t) \in Abstract!Answers
<1>1. CallOf(t) = [tag |-> pc[t], val |-> val[t]]
  BY RestIs
<1>2. Carries(t)
  BY DEF CallInv
<1> QED BY <1>1, <1>2 DEF Abstract!Answers, Carries, AtRest, Answered

\* Every thread has a request of Fifo pending or an answer of Fifo.
LEMMA CallsTyped ==
  ASSUME IndInv, CallInv
  PROVE  Calls \in [Threads -> Abstract!Requests \cup Abstract!Answers]
<1>1. ASSUME NEW t \in Threads PROVE CallOf(t) \in Abstract!Requests \cup Abstract!Answers
  <2>1. Carries(t) /\ OwnerInv(t) /\ LoopInv(t) /\ TypeOK
    BY DEF CallInv, IndInv
  <2>2. pc[t] \in Answered \cup PushSteps \cup PopSteps \cup OwnerSteps
    BY <2>1 DEF TypeOK
  <2>3. CASE AtRest(t)
    BY <2>3, RestAnswers
  <2>4. CASE pc[t] \in PushSteps \cup PopSteps
    <3>1. CallOf(t) = [tag |-> op[t], val |-> val[t]]
      BY <2>4 DEF CallOf, AtRest, Answered, PushSteps, PopSteps
    <3>2. \/ op[t] \in {"push", "force"} /\ val[t] \in Values
          \/ op[t] = "pop" /\ val[t] = NoValue
      BY <2>1, <2>4 DEF Carries, LoopInv
    <3> QED BY <3>1, <3>2 DEF Abstract!Requests
  <2>5. CASE pc[t] \in OwnerSteps
    <3>1. \/ CallOf(t) = [tag |-> "Some", val |-> val[t]] /\ val[t] \in Values
          \/ CallOf(t) = [tag |-> "Ok", val |-> NoValue]
          \/ CallOf(t) = [tag |-> "None", val |-> NoValue]
          \/ CallOf(t) = [tag |-> "Some", val |-> value[pos[t].idx]] /\ value[pos[t].idx] \in Values
      BY <2>1, <2>5 DEF CallOf, AtRest, Answered, Carries, OwnerInv, OwnerSteps
    <3> QED BY <3>1 DEF Abstract!Answers
  <2> QED BY <2>2, <2>3, <2>4, <2>5 DEF AtRest
<1> QED BY <1>1 DEF Calls

\* Calling a method leaves the contents alone and makes a request.
LEMMA CallBegins ==
  ASSUME IndInv, IndInv', NEW t \in Threads, Begins(t)
  PROVE  /\ ThreadStep(t) /\ AtRest(t)
         /\ Contents' = Contents /\ alive /\ alive' = alive
         /\ CallOf(t)' = [tag |-> op'[t], val |-> val'[t]]
         /\ CallOf(t)' \in Abstract!Requests
         /\ op'[t] \in {"push", "force", "pop"}
<1>1. ThreadStep(t) /\ TypeOK /\ AtRest(t)
  BY DEF ThreadStep, IndInv, Begins, Begin
<1>2. UNCHANGED <<head, tail, value>>
  BY DEF Begins, Begin, shared
<1>3. t \notin Carriers /\ t \notin Carriers'
  BY <1>1 DEF Begins, Begin, Goto, Carriers, AtRest, Answered, TypeOK
<1>4. Contents' = Contents /\ alive /\ alive' = alive
  BY <1>1, <1>2, <1>3, LoopContents, Frame
<1>5. \/ pc'[t] = "LoadTail" /\ op'[t] \in {"push", "force"} /\ val'[t] \in Values
      \/ pc'[t] = "LoadHead" /\ op'[t] = "pop" /\ val'[t] = NoValue
  BY <1>1 DEF Begins, Begin, Goto, TypeOK
<1>6. CallOf(t)' = [tag |-> op'[t], val |-> val'[t]]
  BY <1>5 DEF CallOf, AtRest, Answered
<1>7. CallOf(t)' \in Abstract!Requests
  BY <1>5, <1>6 DEF Abstract!Requests
<1> QED BY <1>1, <1>4, <1>5, <1>6, <1>7

\* Which is a request of Fifo.
LEMMA CallRefines ==
  ASSUME IndInv, CallInv, IndInv', NEW t \in Threads, Begins(t)
  PROVE  Abstract!Request(t)
<1>1. /\ ThreadStep(t) /\ AtRest(t) /\ Contents' = Contents /\ alive /\ alive' = alive
      /\ CallOf(t)' \in Abstract!Requests
  BY CallBegins
<1>2. Calls[t] \in Abstract!Answers /\ Calls' = [Calls EXCEPT ![t] = CallOf(t)']
  BY <1>1, CallsFrame, RestAnswers
<1> QED BY <1>1, <1>2 DEF Abstract!Request, Calls

\* A step of a loop that decides nothing.
LEMMA LoopRefines ==
  ASSUME IndInv, IndInv', NEW t \in Threads, ThreadStep(t), UNCHANGED <<shared, op, val>>,
         pc[t] \in PushSteps \cup PopSteps, pc'[t] \in PushSteps \cup PopSteps
  PROVE  UNCHANGED <<Contents, Calls, alive>>
<1>1. UNCHANGED <<head, tail, value, alive>>
  BY DEF shared
<1>2. t \notin Carriers /\ t \notin Carriers'
  BY DEF Carriers, PushSteps, PopSteps
<1>3. Contents' = Contents
  BY <1>1, <1>2, LoopContents
<1>4. CallOf(t)' = CallOf(t)
  BY DEF CallOf, AtRest, Answered, PushSteps, PopSteps
<1> QED BY <1>1, <1>3, <1>4, CallsFrame

\* The loops up to their compare-and-swap, and the calls that fail.
LEMMA SearchRefines ==
  ASSUME IndInv, CallInv, IndInv', NEW t \in Threads,
         \/ LoadTail(t) \/ CasTailErr(t) \/ TailStamp(t) \/ PushFull(t) \/ ForceCasErr(t)
         \/ LoadHead(t) \/ CasHeadErr(t) \/ HeadStamp(t) \/ Empty(t)
  PROVE  \/ Abstract!Push(t) \/ Abstract!Pop(t)
         \/ UNCHANGED <<Contents, Calls, alive>>
<1>1. ThreadStep(t) /\ TypeOK /\ Carries(t)
  BY DEF ThreadStep, Step, Push, ForcePush, Pop, IndInv, CallInv
<1>2. CASE \/ LoadTail(t) \/ CasTailErr(t) \/ TailStamp(t) \/ ForceCasErr(t)
           \/ LoadHead(t) \/ CasHeadErr(t) \/ HeadStamp(t)
  <2>1. /\ pc[t] \in PushSteps \cup PopSteps /\ pc'[t] \in PushSteps \cup PopSteps
        /\ UNCHANGED <<shared, op, val>>
    BY <1>1, <1>2 DEF LoadTail, CasTailErr, TailStamp, ForceCasErr, LoadHead, CasHeadErr, HeadStamp,
       Reload, Retry, Goto, TypeOK, PushSteps, PopSteps
  <2> QED BY <1>1, <2>1, LoopRefines
<1>3. CASE PushFull(t)
  <2>1. CASE Retry(t, "LoadTail")
    <3>1. /\ pc[t] \in PushSteps \cup PopSteps /\ pc'[t] \in PushSteps \cup PopSteps
          /\ UNCHANGED <<shared, op, val>>
      BY <1>1, <1>3, <2>1 DEF PushFull, Retry, Goto, TypeOK, PushSteps, PopSteps
    <3> QED BY <1>1, <3>1, LoopRefines
  <2>2. CASE Same(AddLap(head), pos[t]) /\ GiveUp(t, "Err")
    <3>1. /\ pc[t] = "Full" /\ op[t] = "push" /\ pc'[t] = "Err"
          /\ UNCHANGED <<head, tail, value, alive, op, val>>
      BY <1>1, <1>3, <2>2 DEF PushFull, GiveUp, Return, Goto, TypeOK, shared
    <3>2. Len(Contents) = N
      BY <2>2, <3>1, PushErrContents
    <3>3. t \notin Carriers /\ t \notin Carriers'
      BY <3>1 DEF Carriers
    <3>4. Contents' = Contents /\ alive
      BY <1>1, <3>1, <3>3, LoopContents, Frame
    <3>5. /\ CallOf(t) = [tag |-> "push", val |-> val[t]]
          /\ CallOf(t)' = [tag |-> "Err", val |-> val[t]]
      BY <3>1 DEF CallOf, AtRest, Answered
    <3>6. Calls[t] = CallOf(t) /\ Calls' = [Calls EXCEPT ![t] = CallOf(t)']
      BY <1>1, CallsFrame
    <3>7. /\ Calls[t].tag = "push"
          /\ Calls' = [Calls EXCEPT ![t] = [tag |-> "Err", val |-> Calls[t].val]]
      BY <3>5, <3>6
    <3>8. Abstract!Push(t)
      BY <3>1, <3>2, <3>4, <3>7 DEF Abstract!Push, Abstract!Pending, Abstract!Answer, Calls
    <3> QED BY <3>8
  <2> QED BY <1>3, <2>1, <2>2 DEF PushFull
<1>4. CASE Empty(t)
  <2>1. CASE Retry(t, "LoadHead")
    <3>1. /\ pc[t] \in PushSteps \cup PopSteps /\ pc'[t] \in PushSteps \cup PopSteps
          /\ UNCHANGED <<shared, op, val>>
      BY <1>1, <1>4, <2>1 DEF Empty, Retry, Goto, TypeOK, PushSteps, PopSteps
    <3> QED BY <1>1, <3>1, LoopRefines
  <2>2. CASE Same(tail, pos[t]) /\ GiveUp(t, "None")
    <3>1. /\ pc[t] = "Empty" /\ op[t] = "pop" /\ val[t] = NoValue /\ pc'[t] = "None"
          /\ UNCHANGED <<head, tail, value, alive, op, val>>
      BY <1>1, <1>4, <2>2 DEF Empty, GiveUp, Return, Goto, TypeOK, shared, Carries, PopSteps
    <3>2. Contents = <<>>
      BY <2>2, <3>1, PopNoneContents
    <3>3. t \notin Carriers /\ t \notin Carriers'
      BY <3>1 DEF Carriers
    <3>4. Contents' = Contents /\ alive
      BY <1>1, <3>1, <3>3, LoopContents, Frame
    <3>5. /\ CallOf(t) = [tag |-> "pop", val |-> NoValue]
          /\ CallOf(t)' = [tag |-> "None", val |-> NoValue]
      BY <3>1 DEF CallOf, AtRest, Answered
    <3>6. Calls[t] = CallOf(t) /\ Calls' = [Calls EXCEPT ![t] = CallOf(t)']
      BY <1>1, CallsFrame
    <3>7. Abstract!Pop(t)
      BY <3>1, <3>2, <3>4, <3>5, <3>6 DEF Abstract!Pop, Abstract!Pending, Abstract!Answer, Calls
    <3> QED BY <3>7
  <2> QED BY <1>4, <2>1, <2>2 DEF Empty
<1> QED BY <1>2, <1>3, <1>4

\* The steps by which calls that succeed take effect.
LEMMA EffectRefines ==
  ASSUME IndInv, CallInv, IndInv', NEW t \in Threads,
         CasTailOk(t) \/ ForceCasOk(t) \/ CasHeadOk(t)
  PROVE  Abstract!Push(t) \/ Abstract!ForcePush(t) \/ Abstract!Pop(t)
<1>1. /\ ThreadStep(t) /\ TypeOK /\ Carries(t)
      /\ Calls[t] = CallOf(t) /\ Calls' = [Calls EXCEPT ![t] = CallOf(t)']
      /\ alive /\ alive' = alive
  <2>1. ThreadStep(t) /\ TypeOK /\ Carries(t)
    BY DEF ThreadStep, Step, Push, ForcePush, Pop, IndInv, CallInv
  <2> QED BY <2>1, CallsFrame, Frame
<1>2. CASE CasTailOk(t)
  <2>1. Len(Contents) < N /\ Contents' = Append(Contents, val[t])
    BY <1>2, CasTailContents
  <2>2. pc[t] = "CasTail" /\ pc'[t] = "Write" /\ op[t] \in {"push", "force"} /\ UNCHANGED <<op, val>>
    BY <1>1, <1>2 DEF CasTailOk, MoveTail, Goto, TypeOK, Carries, PushSteps
  <2>3. /\ CallOf(t) = [tag |-> op[t], val |-> val[t]]
        /\ CallOf(t)' = [tag |-> IF op[t] = "push" THEN "Ok" ELSE "None", val |-> NoValue]
    BY <2>2 DEF CallOf, AtRest, Answered
  <2>4. CASE op[t] = "push"
    BY <1>1, <2>1, <2>3, <2>4 DEF Abstract!Push, Abstract!Pending, Abstract!Answer, Calls
  <2>5. CASE op[t] = "force"
    BY <1>1, <2>1, <2>3, <2>5 DEF Abstract!ForcePush, Abstract!Pending, Abstract!Answer, Calls
  <2> QED BY <2>2, <2>4, <2>5
<1>3. CASE ForceCasOk(t)
  <2>1. /\ Len(Contents) = N /\ Contents' = Append(Tail(Contents), val[t])
        /\ Head(Contents) = value[pos[t].idx]
    BY <1>3, ForceCasContents
  <2>2. pc[t] = "Full" /\ pc'[t] = "StoreTail" /\ op[t] = "force" /\ UNCHANGED <<op, val, value, pos>>
    BY <1>1, <1>3 DEF ForceCasOk, MoveHead, Goto, TypeOK
  <2>3. /\ CallOf(t) = [tag |-> "force", val |-> val[t]]
        /\ CallOf(t)' = [tag |-> "Some", val |-> value[pos[t].idx]]
    BY <2>2 DEF CallOf, AtRest, Answered
  <2>4. Calls[t].tag = "force" /\ Calls[t].val = val[t]
    BY <1>1, <2>3
  <2>5. Contents' = Append(Tail(Contents), Calls[t].val)
    BY <2>1, <2>4, Zenon
  <2>6. Calls' = [Calls EXCEPT ![t] = [tag |-> "Some", val |-> Head(Contents)]]
    BY <1>1, <2>1, <2>3, Zenon
  <2>7. Abstract!ForcePush(t)
    BY <1>1, <2>1, <2>4, <2>5, <2>6 DEF Abstract!ForcePush, Abstract!Pending, Abstract!Answer, Calls
  <2> QED BY <2>7
<1>4. CASE CasHeadOk(t)
  <2>1. /\ Contents # <<>> /\ Contents' = Tail(Contents)
        /\ Head(Contents) = value[pos[t].idx]
    BY <1>4, CasHeadContents
  <2>2. /\ pc[t] = "CasHead" /\ pc'[t] = "Read" /\ op[t] = "pop" /\ val[t] = NoValue
        /\ UNCHANGED <<op, val, value, pos>>
    BY <1>1, <1>4 DEF CasHeadOk, MoveHead, Goto, TypeOK, Carries, PopSteps
  <2>3. /\ CallOf(t) = [tag |-> "pop", val |-> NoValue]
        /\ CallOf(t)' = [tag |-> "Some", val |-> value[pos[t].idx]]
    BY <2>2 DEF CallOf, AtRest, Answered
  <2>4. Calls[t].tag = "pop"
    BY <1>1, <2>3
  <2>5. Calls' = [Calls EXCEPT ![t] = [tag |-> "Some", val |-> Head(Contents)]]
    BY <1>1, <2>1, <2>3, Zenon
  <2>6. Abstract!Pop(t)
    BY <1>1, <2>1, <2>4, <2>5 DEF Abstract!Pop, Abstract!Pending, Abstract!Answer, Calls
  <2> QED BY <2>6
<1> QED BY <1>2, <1>3, <1>4

\* What an owner does with its slot nobody can see.
LEMMA OwnerRefines ==
  ASSUME IndInv, CallInv, IndInv', NEW t \in Threads,
         \/ StoreTail(t) \/ Write(t) \/ Replace(t) \/ Read(t)
         \/ Publish(t) \/ Restamp(t) \/ Release(t)
  PROVE  UNCHANGED <<Contents, Calls, alive>>
<1>1. /\ ThreadStep(t) /\ TypeOK /\ Carries(t)
  BY DEF ThreadStep, Step, Push, ForcePush, Pop, IndInv, CallInv
<1>2. pos[t].idx \in Slots
  BY <1>1 DEF TypeOK, Position
<1>3. CASE StoreTail(t)
  <2>1. CallOf(t)' = CallOf(t)
    BY <1>1, <1>3 DEF StoreTail, MoveTail, Goto, TypeOK, CallOf, AtRest, Answered
  <2> QED BY <1>1, <1>3, <2>1, StoreTailContents, CallsFrame, Frame
<1>4. CASE Write(t) \/ Replace(t) \/ Read(t)
  <2>1. CallOf(t)' = CallOf(t)
    BY <1>1, <1>2, <1>4 DEF Write, Replace, Read, Swap, Goto, TypeOK, CallOf, AtRest, Answered
  <2> QED BY <1>1, <1>4, <2>1, WriteContents, ReadContents, CallsFrame, Frame
<1>5. CASE Publish(t) \/ Restamp(t) \/ Release(t)
  <2>1. CallOf(t)' = CallOf(t)
    BY <1>1, <1>2, <1>5 DEF Publish, Restamp, Release, HandOn, Return, Goto, TypeOK, CallOf,
       AtRest, Answered, Carries
  <2>2. t \notin Carriers /\ t \notin Carriers' /\ UNCHANGED <<head, tail, value>>
    BY <1>1, <1>5 DEF Publish, Restamp, Release, HandOn, Return, Goto, TypeOK, Carriers
  <2> QED BY <1>1, <2>1, <2>2, LoopContents, CallsFrame, Frame
<1> QED BY <1>3, <1>4, <1>5

\* drop() discards the contents.
LEMMA DropRefines ==
  ASSUME IndInv, CallInv, Drop
  PROVE  Abstract!Discard
<1>1. alive /\ alive' = FALSE /\ UNCHANGED <<pc, op, pos, val>> /\ \A t \in Threads : AtRest(t)
  BY DEF Drop, local
<1>2. Contents' = <<>>
  BY <1>1 DEF Contents
<1>3. \A t \in Threads : CallOf(t)' = CallOf(t)
  BY <1>1 DEF CallOf, AtRest
<1>4. \A t \in Threads : CallOf(t) \in Abstract!Answers
  BY <1>1, RestAnswers
<1> QED BY <1>1, <1>2, <1>3, <1>4 DEF Abstract!Discard

\* Queue::new() is the empty queue.
LEMMA InitRefines ==
  ASSUME Init
  PROVE  Abstract!Init /\ CallInv
<1>1. IndInv /\ alive
  BY InitInd DEF Init, NewQueue
<1>2. \A t \in Threads : pc[t] = "Rest" /\ val[t] = NoValue
  BY DEF Init, NoCalls
<1>3. CallInv
  BY <1>2 DEF CallInv, Carries, PopSteps, PushSteps
<1>4. Contents = <<>>
  <2>1. ~\E t \in Threads : pc[t] = "StoreTail"
    BY <1>2
  <2>2. head = Origin /\ tail = Origin
    BY DEF Init, NewQueue
  <2>3. Size = 0 /\ head.idx \in Slots
    BY <2>1, <2>2, NAssumption DEF Size, LogicalTail, Distance, Origin, Slots
  <2>4. Contents = Ring(Held, head.idx, 0) /\ Held \in [Slots -> Values \cup {NoValue}]
    BY <1>1, <2>3, ContentsIs, HeldIs
  <2>5. 0 \in 0 .. N
    BY NAssumption
  <2>6. Contents \in Seq(Values \cup {NoValue}) /\ Len(Contents) = 0
    <3>1. RingIsSeq(Values \cup {NoValue}, Held, head.idx, 0)
      BY <2>3, <2>4, <2>5, RingSeq
    <3> QED BY <2>3, <2>4, <2>5, <3>1 DEF RingIsSeq
  <2> QED BY <2>6
<1>5. \A t \in Threads : CallOf(t) = [tag |-> "Rest", val |-> NoValue]
  BY <1>2 DEF CallOf, AtRest, Answered
<1> QED BY <1>1, <1>3, <1>4, <1>5 DEF Abstract!Init

\* Within a call a thread takes effect in Fifo, or does nothing there.
LEMMA StepEffect ==
  ASSUME IndInv, CallInv, NEW t \in Threads, Step(t)
  PROVE  \/ Abstract!Push(t) \/ Abstract!ForcePush(t) \/ Abstract!Pop(t)
         \/ UNCHANGED <<Contents, Calls, alive>>
<1>1. IndInv'
  BY NextInd DEF Next
<1>2. CASE \/ LoadTail(t) \/ CasTailErr(t) \/ TailStamp(t) \/ PushFull(t) \/ ForceCasErr(t)
           \/ LoadHead(t) \/ CasHeadErr(t) \/ HeadStamp(t) \/ Empty(t)
  BY <1>1, <1>2, SearchRefines
<1>3. CASE CasTailOk(t) \/ ForceCasOk(t) \/ CasHeadOk(t)
  BY <1>1, <1>3, EffectRefines
<1>4. CASE \/ StoreTail(t) \/ Write(t) \/ Replace(t) \/ Read(t)
           \/ Publish(t) \/ Restamp(t) \/ Release(t)
  BY <1>1, <1>4, OwnerRefines
<1> QED BY <1>2, <1>3, <1>4 DEF Step, Push, ForcePush, Pop

\* The five ways in which a step can show, for threads that do not call force_push.
LEMMA StepMoves ==
  ASSUME IndInv, CallInv, NEW t \in Threads, Step(t), Calls[t].tag # "force"
  PROVE  \/ UNCHANGED <<Contents, Calls>>
         \/ /\ Calls[t].tag = "push" /\ Len(Contents) < N
            /\ Contents' = Append(Contents, Calls[t].val)
            /\ Calls' = [Calls EXCEPT ![t] = [tag |-> "Ok", val |-> NoValue]]
         \/ /\ Calls[t].tag = "push" /\ Len(Contents) = N
            /\ Contents' = Contents
            /\ Calls' = [Calls EXCEPT ![t] = [tag |-> "Err", val |-> Calls[t].val]]
         \/ /\ Calls[t].tag = "pop" /\ Contents # <<>>
            /\ Contents' = Tail(Contents)
            /\ Calls' = [Calls EXCEPT ![t] = [tag |-> "Some", val |-> Head(Contents)]]
         \/ /\ Calls[t].tag = "pop" /\ Contents = <<>>
            /\ Contents' = Contents
            /\ Calls' = [Calls EXCEPT ![t] = [tag |-> "None", val |-> NoValue]]
<1>1. ~Abstract!ForcePush(t)
  BY DEF Abstract!ForcePush, Abstract!Pending, Calls
<1>2. Abstract!Push(t) \/ Abstract!Pop(t) \/ UNCHANGED <<Contents, Calls, alive>>
  BY <1>1, StepEffect
<1> QED BY <1>2, Zenon DEF Abstract!Push, Abstract!Pop, Abstract!Pending, Abstract!Answer, Calls

\* Every step of the queue is one of the bounded FIFO, or invisible there.
LEMMA StepRefines ==
  ASSUME IndInv, CallInv, [Next]_vars
  PROVE  [Abstract!Next]_(Abstract!fifoVars)
<1>1. IndInv'
  BY NextInd
<1>2. CASE UNCHANGED vars
  BY <1>2 DEF vars, shared, local, Abstract!fifoVars, Contents, ValueAt, LogicalTail, CallOf, AtRest,
     Distance, Advance, Succ
<1>3. CASE Drop
  BY <1>3, DropRefines DEF Abstract!Next
<1>4. ASSUME NEW t \in Threads, CallPush(t) \/ CallForcePush(t) \/ CallPop(t)
      PROVE  Abstract!Next
  BY <1>1, <1>4, CallInd, CallRefines DEF Abstract!Next
<1>5. ASSUME NEW t \in Threads, Step(t)
      PROVE  Abstract!Next \/ UNCHANGED Abstract!fifoVars
  BY <1>5, StepEffect DEF Abstract!Next, Abstract!fifoVars, Calls
<1> QED BY <1>2, <1>3, <1>4, <1>5 DEF Next

\* Linearizability: every behaviour of push, force_push, pop and drop of src/lib.rs,
\* called by any number of threads, is one of an atomic FIFO of at most N values.
THEOREM Refines == Spec => Linearizable
<1>1. Init => IndInv /\ CallInv /\ Abstract!Init
  BY InitInd, InitRefines
<1>2. IndInv /\ CallInv /\ [Next]_vars => IndInv' /\ CallInv'
  BY NextInd, CallInvInd
<1>3. IndInv /\ CallInv /\ [Next]_vars => [Abstract!Next]_(Abstract!fifoVars)
  BY StepRefines
<1> QED BY <1>1, <1>2, <1>3, PTL DEF Spec, Linearizable, Abstract!Spec
=============================================================================
