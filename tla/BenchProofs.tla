---------------------------- MODULE BenchProofs ----------------------------
(***************************************************************************)
(* The producers and consumers of the benchmark, for any number of them,   *)
(* any capacity and any number of items: nothing is invented, duplicated   *)
(* or reordered, and when the shared counter says that all is consumed,    *)
(* all is.                                                                 *)
(*                                                                         *)
(* An argument about Fifo again.  The items of one producer are in order   *)
(* in the queue, behind those that any consumer has; so what a consumer    *)
(* pops is later than all it has popped and new to every other.            *)
(***************************************************************************)
EXTENDS Bench, LinearProofs, FiniteSetTheorems

\* How many items of producer p have gone into the queue.
Entered ==
  [p \in Producers |-> IF Calls[p].tag \in {"push", "Err"} THEN sent[p] - 1 ELSE sent[p]]

\* What a consumer has taken out, the item in its hands included.
Streams ==
  [c \in Consumers |-> IF Calls[c].tag = "Some" /\ c \notin done
                       THEN Append(got[c], Calls[c].val) ELSE got[c]]

\* The items of a producer in sequence q come in order.
InOrder(q) ==
  \A j, k \in 1 .. Len(q) : j < k /\ q[j].from = q[k].from => q[j].no < q[k].no

\* Those in sequence r come before those in sequence q.
Before(r, q) ==
  \A j \in 1 .. Len(r), k \in 1 .. Len(q) : r[j].from = q[k].from => r[j].no < q[k].no

\* The contents q of the queue, the streams s of the consumers, and the numbers e
\* of items that have gone in.
Flow(q, s, e) ==
  /\ InOrder(q)
  /\ \A k \in 1 .. Len(q) : q[k].no <= e[q[k].from]
  /\ \A c \in Consumers : InOrder(s[c]) /\ Before(s[c], q)
  /\ \A c \in Consumers : \A k \in 1 .. Len(s[c]) : s[c][k].no <= e[s[c][k].from]
  /\ \A c, d \in Consumers : c # d =>
       \A j \in 1 .. Len(s[c]), k \in 1 .. Len(s[d]) : s[c][j] # s[d][k]

BenchType ==
  /\ sent \in [Producers -> 0 .. PER]
  /\ consumed \in Nat
  /\ got \in [Consumers -> Seq(Values)]
  /\ Contents \in Seq(Values)

\* Where the threads stand in their loops.
ProducerInv(p) ==
  /\ Calls[p].tag \in {"Rest", "push", "Ok", "Err"}
  /\ Calls[p].tag \in {"push", "Err"} =>
       sent[p] >= 1 /\ Calls[p].val = [from |-> p, no |-> sent[p]]

ConsumerInv(c) ==
  /\ Calls[c].tag \in {"Rest", "pop", "Some", "None"}
  /\ c \in done => Calls[c].tag \in {"Some", "None"}

Taken == UNION {Items(got[c]) : c \in Consumers}

BenchInv ==
  /\ IndInv /\ CallInv /\ BenchType
  /\ \A p \in Producers : ProducerInv(p)
  /\ \A c \in Consumers : ConsumerInv(c)
  /\ Flow(Contents, Streams, Entered)
  /\ consumed = Cardinality(Taken)

-----------------------------------------------------------------------------
(* What the moves of Fifo do to the order of the items.                    *)

\* An item has a producer and a number.
LEMMA ItemIs ==
  ASSUME NEW v \in Values
  PROVE  v.from \in Producers /\ v.no \in Int /\ v.no >= 1
BY BenchAssumption

\* An item later than all others of its producer may come last.
LEMMA InOrderAppend ==
  ASSUME NEW r \in Seq(Values), NEW x \in Values, InOrder(r),
         \A j \in 1 .. Len(r) : r[j].from = x.from => r[j].no < x.no
  PROVE  InOrder(Append(r, x))
<1>1. /\ Len(r) \in Nat /\ Len(Append(r, x)) = Len(r) + 1
      /\ \A k \in 1 .. Len(r) : Append(r, x)[k] = r[k]
      /\ Append(r, x)[Len(r) + 1] = x
  BY AppendProperties, LenProperties
<1> DEFINE w == Append(r, x)
<1> HIDE DEF w
<1>2. ASSUME NEW j \in 1 .. Len(w), NEW k \in 1 .. Len(w), j < k, w[j].from = w[k].from
      PROVE  w[j].no < w[k].no
  <2>1. j \in 1 .. Len(r) /\ w[j] = r[j]
    BY <1>1, <1>2 DEF w
  <2>2. CASE k \in 1 .. Len(r)
    BY <1>1, <1>2, <2>1, <2>2 DEF InOrder, w
  <2>3. CASE k = Len(r) + 1
    BY <1>1, <1>2, <2>1, <2>3 DEF w
  <2> QED BY <1>1, <2>2, <2>3 DEF w
<1> QED BY <1>2 DEF InOrder, w

\* A producer's next item goes to the end of the queue.
LEMMA FlowPush ==
  ASSUME NEW q \in Seq(Values), NEW s \in [Consumers -> Seq(Values)],
         NEW e \in [Producers -> Nat], NEW x \in Values,
         Flow(q, s, e), x.no = e[x.from] + 1
  PROVE  /\ Append(q, x) \in Seq(Values)
         /\ Flow(Append(q, x), s, [e EXCEPT ![x.from] = @ + 1])
<1> DEFINE w == Append(q, x)
           f == [e EXCEPT ![x.from] = @ + 1]
<1>1. /\ w \in Seq(Values) /\ Len(q) \in Nat /\ Len(w) = Len(q) + 1
      /\ \A k \in 1 .. Len(q) : w[k] = q[k]
      /\ w[Len(q) + 1] = x
  BY AppendProperties, LenProperties
<1>2. x.from \in Producers /\ e[x.from] \in Nat
  BY ItemIs
<1>3. ASSUME NEW r \in Seq(Values), NEW k \in 1 .. Len(r), r[k].no <= e[r[k].from]
      PROVE  r[k].no <= f[r[k].from] /\ (r[k].from = x.from => r[k].no < x.no)
  <2>1. r[k] \in Values
    BY ElementOfSeq
  <2>2. r[k].from \in Producers /\ r[k].no \in Int /\ e[r[k].from] \in Nat
    BY <2>1, ItemIs
  <2> QED BY <1>2, <1>3, <2>2
<1>4. f[x.from] = x.no /\ x.no \in Int
  BY <1>2
<1> HIDE DEF w, f
<1>5. InOrder(w)
  BY <1>3, InOrderAppend DEF Flow, w
<1>6. \A k \in 1 .. Len(w) : w[k].no <= f[w[k].from]
  <2>1. \A k \in 1 .. Len(q) : q[k].no <= f[q[k].from]
    BY <1>3 DEF Flow
  <2>2. x.no <= f[x.from]
    BY <1>4
  <2>3. \A k \in 1 .. Len(w) : k \in 1 .. Len(q) \/ k = Len(q) + 1
    BY <1>1
  <2> QED BY <1>1, <2>1, <2>2, <2>3
<1>7. ASSUME NEW c \in Consumers PROVE Before(s[c], w)
  <2>1. /\ Before(s[c], q)
        /\ \A j \in 1 .. Len(s[c]) : s[c][j].from = x.from => s[c][j].no < x.no
    BY <1>3 DEF Flow
  <2>2. \A k \in 1 .. Len(w) : k \in 1 .. Len(q) \/ k = Len(q) + 1
    BY <1>1
  <2> QED BY <1>1, <2>1, <2>2 DEF Before
<1>8. ASSUME NEW c \in Consumers, NEW k \in 1 .. Len(s[c])
      PROVE  s[c][k].no <= f[s[c][k].from]
  BY <1>3 DEF Flow
<1> QED BY <1>1, <1>5, <1>6, <1>7, <1>8 DEF Flow, w, f

\* The front of the queue goes to consumer a.
LEMMA FlowPop ==
  ASSUME NEW q \in Seq(Values), NEW s \in [Consumers -> Seq(Values)],
         NEW e \in [Producers -> Nat], NEW a \in Consumers,
         Flow(q, s, e), q # <<>>
  PROVE  /\ Tail(q) \in Seq(Values) /\ Head(q) \in Values
         /\ Flow(Tail(q), [s EXCEPT ![a] = Append(@, Head(q))], e)
<1> DEFINE x == Head(q)
           w == Tail(q)
           r == Append(s[a], x)
<1>1. /\ w \in Seq(Values) /\ Len(q) \in Nat /\ Len(q) >= 1 /\ Len(w) = Len(q) - 1
      /\ \A k \in 1 .. Len(w) : w[k] = q[k + 1]
      /\ x = q[1] /\ x \in Values
  <2>1. Len(q) \in Nat /\ Len(q) # 0
    BY EmptySeq, LenProperties
  <2>2. x = q[1]
    BY DEF x
  <2> QED BY <2>1, <2>2, HeadTailProperties
<1>2. s[a] \in Seq(Values) /\ Len(s[a]) \in Nat
  BY LenProperties
<1> HIDE DEF x, w
<1>3. /\ r \in Seq(Values) /\ Len(r) = Len(s[a]) + 1
      /\ \A k \in 1 .. Len(s[a]) : r[k] = s[a][k]
      /\ r[Len(s[a]) + 1] = x
  BY <1>1, <1>2, AppendProperties
<1> HIDE DEF r
<1>4. \A k \in 1 .. Len(w) : k + 1 \in 1 .. Len(q) /\ 1 < k + 1 /\ w[k] = q[k + 1]
  BY <1>1
<1>5. 1 \in 1 .. Len(q) /\ x = q[1]
  BY <1>1
<1>6. InOrder(w)
  <2>1. ASSUME NEW j \in 1 .. Len(w), NEW k \in 1 .. Len(w), j < k, w[j].from = w[k].from
        PROVE  w[j].no < w[k].no
    <3>1. j + 1 < k + 1
      BY <1>1, <2>1
    <3>2. /\ j + 1 \in 1 .. Len(q) /\ k + 1 \in 1 .. Len(q)
          /\ w[j] = q[j + 1] /\ w[k] = q[k + 1]
      BY <1>4
    <3>3. InOrder(q)
      BY DEF Flow
    <3>4. q[j + 1].no < q[k + 1].no
      BY <2>1, <3>1, <3>2, <3>3 DEF InOrder
    <3> QED BY <3>2, <3>4
  <2> QED BY <2>1 DEF InOrder
<1>7. \A k \in 1 .. Len(w) : w[k].no <= e[w[k].from]
  BY <1>4 DEF Flow
<1>8. \A k \in 1 .. Len(w) : x.from = w[k].from => x.no < w[k].no
  BY <1>4, <1>5 DEF Flow, InOrder
<1>9. \A c \in Consumers : Before(s[c], w)
  BY <1>4 DEF Flow, Before
<1>10. \A c \in Consumers : \A j \in 1 .. Len(s[c]) : s[c][j].from = x.from => s[c][j].no < x.no
  BY <1>5 DEF Flow, Before
<1>11. \A k \in 1 .. Len(r) : k \in 1 .. Len(s[a]) \/ k = Len(s[a]) + 1
  BY <1>2, <1>3
<1>12. InOrder(r)
  BY <1>1, <1>2, <1>10, InOrderAppend DEF Flow, r
<1>13. Before(r, w)
  BY <1>3, <1>8, <1>9, <1>11 DEF Before
<1>14. \A k \in 1 .. Len(r) : r[k].no <= e[r[k].from]
  BY <1>3, <1>5, <1>11 DEF Flow
<1>15. ASSUME NEW d \in Consumers, d # a, NEW j \in 1 .. Len(r), NEW k \in 1 .. Len(s[d])
       PROVE  r[j] # s[d][k]
  <2>1. CASE j \in 1 .. Len(s[a])
    BY <1>3, <1>15, <2>1 DEF Flow
  <2>2. CASE j = Len(s[a]) + 1
    <3>1. x.no \in Int
      BY <1>1, ItemIs
    <3>2. s[d][k] # x
      BY <1>10, <3>1
    <3> QED BY <1>3, <2>2, <3>2
  <2> QED BY <1>11, <2>1, <2>2
<1> DEFINE z == [s EXCEPT ![a] = r]
<1>16. z[a] = r /\ \A c \in Consumers \ {a} : z[c] = s[c]
  OBVIOUS
<1> HIDE DEF z
<1>17. \A c \in Consumers : InOrder(z[c]) /\ Before(z[c], w)
  BY <1>9, <1>12, <1>13, <1>16 DEF Flow
<1>18. \A c \in Consumers : \A k \in 1 .. Len(z[c]) : z[c][k].no <= e[z[c][k].from]
  BY <1>14, <1>16 DEF Flow
<1>19. ASSUME NEW c \in Consumers, NEW d \in Consumers, c # d,
              NEW j \in 1 .. Len(z[c]), NEW k \in 1 .. Len(z[d])
       PROVE  z[c][j] # z[d][k]
  <2>1. CASE c = a
    BY <1>15, <1>16, <1>19, <2>1
  <2>2. CASE d = a
    BY <1>15, <1>16, <1>19, <2>2
  <2>3. CASE c # a /\ d # a
    BY <1>16, <1>19, <2>3 DEF Flow
  <2> QED BY <2>1, <2>2, <2>3
<1>20. Flow(w, z, e)
  BY <1>6, <1>7, <1>17, <1>18, <1>19 DEF Flow
<1> QED BY <1>1, <1>20 DEF z, r, w, x

-----------------------------------------------------------------------------
(* The steps of a thread within a call.                                    *)

\* The types of what the invariant speaks of.
LEMMA BenchTyped ==
  ASSUME BenchInv
  PROVE  /\ Calls \in [Threads -> Abstract!Requests \cup Abstract!Answers]
         /\ Entered \in [Producers -> Nat]
         /\ Streams \in [Consumers -> Seq(Values)]
<1>1. Calls \in [Threads -> Abstract!Requests \cup Abstract!Answers]
  BY CallsTyped DEF BenchInv
<1>2. ASSUME NEW p \in Producers PROVE Entered[p] \in Nat
  <2>1. sent[p] \in 0 .. PER /\ PER \in Nat
    BY BenchAssumption DEF BenchInv, BenchType
  <2>2. Calls[p].tag \in {"push", "Err"} => sent[p] >= 1
    BY DEF BenchInv, ProducerInv
  <2> QED BY <2>1, <2>2 DEF Entered
<1>3. ASSUME NEW c \in Consumers PROVE Streams[c] \in Seq(Values)
  <2>1. got[c] \in Seq(Values) /\ c \in Threads
    BY BenchAssumption DEF BenchInv, BenchType
  <2>2. Calls[c].tag = "Some" => Calls[c].val \in Values
    BY <1>1, <2>1 DEF Abstract!Requests, Abstract!Answers
  <2>3. Calls[c].tag = "Some" => Append(got[c], Calls[c].val) \in Seq(Values)
    BY <2>1, <2>2, AppendProperties
  <2> QED BY <2>1, <2>3 DEF Streams
<1> QED BY <1>1, <1>2, <1>3 DEF Entered, Streams

\* A step of t leaves alone what the other threads keep.
Apart(t) ==
  \A u \in Threads \ {t} :
    /\ u \in Producers => sent'[u] = sent[u]
    /\ u \in Consumers => got'[u] = got[u]
    /\ u \in done' <=> u \in done

\* So what the invariant says of them stays true.
LEMMA OthersKept ==
  ASSUME BenchInv, NEW t \in Threads, NEW r, Calls' = [Calls EXCEPT ![t] = r], Apart(t)
  PROVE  /\ Calls'[t] = r
         /\ \A p \in Producers \ {t} : ProducerInv(p)' /\ Entered'[p] = Entered[p]
         /\ \A c \in Consumers \ {t} : ConsumerInv(c)' /\ Streams'[c] = Streams[c]
<1>1. Calls'[t] = r /\ \A u \in Threads \ {t} : Calls'[u] = Calls[u]
  BY BenchTyped
<1>2. ASSUME NEW p \in Producers \ {t} PROVE ProducerInv(p)' /\ Entered'[p] = Entered[p]
  <2>1. Calls'[p] = Calls[p] /\ ProducerInv(p) /\ sent'[p] = sent[p]
    BY <1>1, BenchAssumption DEF BenchInv, Apart
  <2> QED BY <2>1 DEF ProducerInv, Entered
<1>3. ASSUME NEW c \in Consumers \ {t} PROVE ConsumerInv(c)' /\ Streams'[c] = Streams[c]
  <2>1. Calls'[c] = Calls[c] /\ ConsumerInv(c) /\ got'[c] = got[c] /\ (c \in done' <=> c \in done)
    BY <1>1, BenchAssumption DEF BenchInv, Apart
  <2> QED BY <2>1 DEF ConsumerInv, Streams
<1> QED BY <1>1, <1>2, <1>3

\* Each of the five moves of Fifo preserves the invariant.
LEMMA BenchStep ==
  ASSUME BenchInv, NEW t \in Threads, Step(t), UNCHANGED bench
  PROVE  BenchInv'
<1>1. IndInv /\ CallInv /\ IndInv' /\ CallInv'
  BY NextInd, CallInvInd DEF BenchInv, Next
<1>2. /\ Calls \in [Threads -> Abstract!Requests \cup Abstract!Answers]
      /\ Entered \in [Producers -> Nat] /\ Streams \in [Consumers -> Seq(Values)]
  BY BenchTyped
<1>3. /\ UNCHANGED <<sent, consumed, got, done>> /\ Taken' = Taken
      /\ Contents \in Seq(Values) /\ Flow(Contents, Streams, Entered)
  BY DEF bench, Taken, Items, BenchInv, BenchType
<1>4. /\ DOMAIN Entered' = Producers /\ DOMAIN Streams' = Consumers
      /\ Entered' = [p \in Producers |-> Entered'[p]] /\ Streams' = [c \in Consumers |-> Streams'[c]]
  BY DEF Entered, Streams
<1>5. SUFFICES /\ Contents' \in Seq(Values) /\ Flow(Contents', Streams', Entered')
               /\ \A p \in Producers : ProducerInv(p)'
               /\ \A c \in Consumers : ConsumerInv(c)'
  BY <1>1, <1>3 DEF BenchInv, BenchType
<1>6. /\ t \in Producers => ProducerInv(t) /\ t \notin Consumers
      /\ t \in Consumers => ConsumerInv(t) /\ t \notin Producers
      /\ t \in Producers \/ t \in Consumers
  BY BenchAssumption DEF BenchInv
<1>7. Apart(t)
  BY DEF Apart, bench
<1>8. CASE UNCHANGED <<Contents, Calls>>
  <2>1. Streams' = Streams /\ Entered' = Entered
    BY <1>3, <1>8 DEF Streams, Entered
  <2> QED BY <1>3, <1>8, <2>1 DEF BenchInv, ProducerInv, ConsumerInv
<1>9. CASE /\ Calls[t].tag = "push" /\ Contents' = Append(Contents, Calls[t].val)
           /\ Calls' = [Calls EXCEPT ![t] = [tag |-> "Ok", val |-> NoValue]]
  <2>1. t \in Producers /\ t \notin Consumers /\ ProducerInv(t)
    BY <1>6, <1>9 DEF ConsumerInv
  <2>2. /\ Calls'[t] = [tag |-> "Ok", val |-> NoValue]
        /\ \A p \in Producers \ {t} : ProducerInv(p)' /\ Entered'[p] = Entered[p]
        /\ \A c \in Consumers \ {t} : ConsumerInv(c)' /\ Streams'[c] = Streams[c]
    BY <1>7, <1>9, OthersKept
  <2>3. ProducerInv(t)'
    BY <2>2 DEF ProducerInv
  <2>4. sent[t] \in Nat /\ Entered[t] = sent[t] - 1 /\ Entered'[t] = sent[t]
    BY <1>3, <1>9, <2>1, <2>2, BenchAssumption DEF Entered, BenchInv, BenchType
  <2>5. Entered' = [Entered EXCEPT ![t] = @ + 1] /\ Streams' = Streams
    BY <1>2, <1>4, <2>1, <2>2, <2>4
  <2>6. /\ Calls[t].val \in Values /\ Calls[t].val.from = t
        /\ Calls[t].val.no = Entered[t] + 1
    <3>1. Calls[t].val \in Values
      BY <1>2, <1>9 DEF Abstract!Requests, Abstract!Answers
    <3>2. Calls[t].val = [from |-> t, no |-> sent[t]]
      BY <1>9, <2>1 DEF ProducerInv
    <3> QED BY <2>4, <3>1, <3>2
  <2>7. /\ Append(Contents, Calls[t].val) \in Seq(Values)
        /\ Flow(Append(Contents, Calls[t].val), Streams, [Entered EXCEPT ![Calls[t].val.from] = @ + 1])
    BY <1>2, <1>3, <2>6, FlowPush
  <2>8. Contents' \in Seq(Values) /\ Flow(Contents', Streams', Entered')
    BY <1>9, <2>5, <2>6, <2>7
  <2> QED BY <2>1, <2>2, <2>3, <2>8
<1>10. CASE /\ Calls[t].tag = "push" /\ Contents' = Contents
           /\ Calls' = [Calls EXCEPT ![t] = [tag |-> "Err", val |-> Calls[t].val]]
  <2>1. t \in Producers /\ t \notin Consumers /\ ProducerInv(t)
    BY <1>6, <1>10 DEF ConsumerInv
  <2>2. /\ Calls'[t] = [tag |-> "Err", val |-> Calls[t].val]
        /\ \A p \in Producers \ {t} : ProducerInv(p)' /\ Entered'[p] = Entered[p]
        /\ \A c \in Consumers \ {t} : ConsumerInv(c)' /\ Streams'[c] = Streams[c]
    BY <1>7, <1>10, OthersKept
  <2>3. ProducerInv(t)' /\ Entered'[t] = Entered[t]
    BY <1>3, <1>10, <2>1, <2>2 DEF ProducerInv, Entered
  <2>4. Entered' = Entered /\ Streams' = Streams
    BY <1>2, <1>4, <2>1, <2>2, <2>3
  <2> QED BY <1>3, <1>10, <2>1, <2>2, <2>3, <2>4
<1>11. CASE /\ Calls[t].tag = "pop" /\ Contents # <<>> /\ Contents' = Tail(Contents)
            /\ Calls' = [Calls EXCEPT ![t] = [tag |-> "Some", val |-> Head(Contents)]]
  <2> DEFINE x == Head(Contents)
  <2>1. t \in Consumers /\ t \notin Producers /\ t \notin done /\ Calls[t].tag = "pop"
    BY <1>6, <1>11 DEF ProducerInv, ConsumerInv
  <2>2. /\ Tail(Contents) \in Seq(Values) /\ x \in Values
        /\ Flow(Tail(Contents), [Streams EXCEPT ![t] = Append(@, x)], Entered)
    BY <1>2, <1>3, <1>11, <2>1, FlowPop
  <2>3. Calls' = [Calls EXCEPT ![t] = [tag |-> "Some", val |-> x]]
    BY <1>11
  <2> HIDE DEF x
  <2>4. /\ Calls'[t] = [tag |-> "Some", val |-> x]
        /\ \A p \in Producers \ {t} : ProducerInv(p)' /\ Entered'[p] = Entered[p]
        /\ \A c \in Consumers \ {t} : ConsumerInv(c)' /\ Streams'[c] = Streams[c]
    BY <1>7, <2>3, OthersKept
  <2>5. ConsumerInv(t)'
    BY <2>4 DEF ConsumerInv
  <2>6. Streams[t] = got[t] /\ Streams'[t] = Append(got[t], x)
    BY <1>3, <2>1, <2>4 DEF Streams
  <2>7. Entered' = Entered
    BY <1>2, <1>4, <2>1, <2>4
  <2>8. Streams' = [Streams EXCEPT ![t] = Append(@, x)]
    BY <1>2, <1>4, <2>1, <2>4, <2>6
  <2>9. Contents' \in Seq(Values) /\ Flow(Contents', Streams', Entered')
    BY <1>11, <2>2, <2>7, <2>8, Zenon
  <2> QED BY <2>1, <2>4, <2>5, <2>9
<1>12. CASE /\ Calls[t].tag = "pop" /\ Contents' = Contents
            /\ Calls' = [Calls EXCEPT ![t] = [tag |-> "None", val |-> NoValue]]
  <2>1. t \in Consumers /\ t \notin Producers /\ ConsumerInv(t)
    BY <1>6, <1>12 DEF ProducerInv
  <2>2. /\ Calls'[t] = [tag |-> "None", val |-> NoValue]
        /\ \A p \in Producers \ {t} : ProducerInv(p)' /\ Entered'[p] = Entered[p]
        /\ \A c \in Consumers \ {t} : ConsumerInv(c)' /\ Streams'[c] = Streams[c]
    BY <1>7, <1>12, OthersKept
  <2>3. ConsumerInv(t)' /\ Streams'[t] = Streams[t]
    BY <1>3, <1>12, <2>1, <2>2 DEF ConsumerInv, Streams
  <2>4. Entered' = Entered /\ Streams' = Streams
    BY <1>2, <1>4, <2>1, <2>2, <2>3
  <2> QED BY <1>3, <1>12, <2>1, <2>2, <2>3, <2>4
<1>13. Calls[t].tag # "force"
  BY <1>6 DEF ProducerInv, ConsumerInv
<1> QED BY <1>1, <1>8, <1>9, <1>10, <1>11, <1>12, <1>13, StepMoves

-----------------------------------------------------------------------------
(* The steps of a thread between calls.                                    *)

\* The items can be counted.
LEMMA ItemsFinite == IsFiniteSet(Values)
<1> DEFINE f == [z \in Producers \X (1 .. PER) |-> [from |-> z[1], no |-> z[2]]]
<1>1. IsFiniteSet(Producers \X (1 .. PER))
  <2>1. IsFiniteSet(1 .. PER)
    BY BenchAssumption, FS_Interval
  <2> QED BY <2>1, BenchAssumption, FS_Product
<1>2. f \in Surjection(Producers \X (1 .. PER), Values)
  <2>1. f \in [Producers \X (1 .. PER) -> Values]
    BY BenchAssumption
  <2>2. ASSUME NEW v \in Values PROVE \E z \in Producers \X (1 .. PER) : f[z] = v
    <3>1. v = [from |-> v.from, no |-> v.no] /\ v.from \in Producers /\ v.no \in 1 .. PER
      BY BenchAssumption
    <3>2. <<v.from, v.no>> \in Producers \X (1 .. PER)
      BY <3>1
    <3>3. f[<<v.from, v.no>>] = v
      BY <3>1, <3>2
    <3> QED BY <3>2, <3>3
  <2> QED BY <2>1, <2>2 DEF Surjection
<1> QED BY <1>1, <1>2, FS_Surjection

\* The items the consumers have counted are items.
LEMMA TakenFinite ==
  ASSUME BenchInv
  PROVE  Taken \in SUBSET Values /\ IsFiniteSet(Taken)
<1>1. ASSUME NEW c \in Consumers, NEW k \in DOMAIN got[c] PROVE got[c][k] \in Values
  <2>1. got[c] \in Seq(Values)
    BY DEF BenchInv, BenchType
  <2> QED BY <2>1, LenProperties, ElementOfSeq
<1>2. Taken \in SUBSET Values
  BY <1>1 DEF Taken, Items
<1> QED BY <1>2, ItemsFinite, FS_Subset

\* A thread that begins a call or leaves its loop moves nothing.
LEMMA TurnKeeps ==
  ASSUME BenchInv, IndInv', CallInv', NEW t \in Threads, NEW r,
         Contents' = Contents, Calls' = [Calls EXCEPT ![t] = r], Apart(t),
         t \in Producers => ProducerInv(t)' /\ Entered'[t] = Entered[t],
         t \in Consumers => ConsumerInv(t)' /\ Streams'[t] = Streams[t],
         sent' \in [Producers -> 0 .. PER], got' \in [Consumers -> Seq(Values)],
         consumed' \in Nat, consumed' = Cardinality(Taken')
  PROVE  BenchInv'
<1>1. /\ \A p \in Producers \ {t} : ProducerInv(p)' /\ Entered'[p] = Entered[p]
      /\ \A c \in Consumers \ {t} : ConsumerInv(c)' /\ Streams'[c] = Streams[c]
  BY OthersKept
<1>2. Entered' = Entered /\ Streams' = Streams
  <2>1. /\ \A p \in Producers : Entered'[p] = Entered[p]
        /\ \A c \in Consumers : Streams'[c] = Streams[c]
    BY <1>1
  <2> QED BY <2>1 DEF Entered, Streams
<1>3. /\ \A p \in Producers : ProducerInv(p)'
      /\ \A c \in Consumers : ConsumerInv(c)'
  BY <1>1
<1>4. BenchType'
  BY DEF BenchType, BenchInv
<1>5. Flow(Contents', Streams', Entered')
  BY <1>2 DEF BenchInv
<1> QED BY <1>3, <1>4, <1>5 DEF BenchInv

\* Calling a method of the queue.
LEMMA InvokeIs ==
  ASSUME BenchInv, NEW t \in Threads, Begins(t), calls' = calls
  PROVE  /\ IndInv' /\ CallInv' /\ Contents' = Contents
         /\ Calls' = [Calls EXCEPT ![t] = [tag |-> op'[t], val |-> val'[t]]]
         /\ Calls'[t] = [tag |-> op'[t], val |-> val'[t]]
<1>1. IndInv /\ CallInv /\ TypeOK
  BY DEF BenchInv, IndInv
<1>2. ThreadStep(t)
  BY DEF ThreadStep
<1>3. IndInv' /\ CallInv'
  BY <1>1, <1>2, BeginInd, ThreadCarries DEF TypeOK
<1>4. Contents' = Contents /\ CallOf(t)' = [tag |-> op'[t], val |-> val'[t]]
  BY <1>1, <1>3, CallBegins
<1>5. Calls' = [Calls EXCEPT ![t] = CallOf(t)']
  BY <1>1, <1>2, CallsFrame
<1> QED BY <1>3, <1>4, <1>5 DEF Calls

\* Calling push.
LEMMA InvokePush ==
  ASSUME BenchInv, NEW t \in Threads, NEW v \in Values, Invoke(t, "push", v, "LoadTail")
  PROVE  /\ IndInv' /\ CallInv' /\ Contents' = Contents
         /\ Calls' = [Calls EXCEPT ![t] = [tag |-> "push", val |-> v]]
         /\ Calls'[t] = [tag |-> "push", val |-> v]
<1>1. Begins(t) /\ calls' = calls
  BY DEF Invoke, Begins
<1>2. op'[t] = "push" /\ val'[t] = v
  BY DEF Invoke, Begin, BenchInv, IndInv, TypeOK
<1> QED BY <1>1, <1>2, InvokeIs

\* Calling pop.
LEMMA InvokePop ==
  ASSUME BenchInv, NEW t \in Threads, Invoke(t, "pop", NoValue, "LoadHead")
  PROVE  /\ IndInv' /\ CallInv' /\ Contents' = Contents
         /\ Calls' = [Calls EXCEPT ![t] = [tag |-> "pop", val |-> NoValue]]
         /\ Calls'[t] = [tag |-> "pop", val |-> NoValue]
<1>1. Begins(t) /\ calls' = calls
  BY DEF Invoke, Begins
<1>2. op'[t] = "pop" /\ val'[t] = NoValue
  BY DEF Invoke, Begin, BenchInv, IndInv, TypeOK
<1> QED BY <1>1, <1>2, InvokeIs

\* Leaving the loop, or waiting.
LEMMA IdleIs ==
  ASSUME BenchInv, UNCHANGED vars
  PROVE  IndInv' /\ CallInv' /\ Contents' = Contents /\ Calls' = Calls
<1>1. IndInv' /\ CallInv'
  BY NextInd, CallInvInd DEF BenchInv
<1>2. Contents' = Contents /\ Calls' = Calls
  BY DEF vars, shared, local, Contents, ValueAt, LogicalTail, CallOf, Calls, AtRest,
     Distance, Advance, Succ
<1> QED BY <1>1, <1>2

\* A producer goes on to its next item, tries again, or is done.
LEMMA ProducerTurn ==
  ASSUME BenchInv, NEW p \in Producers, NextItem(p) \/ PushAgain(p)
  PROVE  BenchInv'
<1>1. /\ p \in Threads /\ p \notin Consumers /\ ProducerInv(p) /\ PER \in Nat
      /\ sent \in [Producers -> 0 .. PER] /\ got \in [Consumers -> Seq(Values)]
      /\ consumed \in Nat /\ consumed = Cardinality(Taken)
  BY BenchAssumption DEF BenchInv, BenchType
<1>2. AtRest(p) /\ Calls[p] = [tag |-> pc[p], val |-> val[p]] /\ Carries(p)
  <2>1. AtRest(p)
    BY DEF NextItem, PushAgain, AtRest, Answered
  <2> QED BY <1>1, <2>1, RestIs DEF BenchInv, CallInv
<1>3. UNCHANGED <<consumed, got>> /\ Taken' = Taken
  BY DEF NextItem, PushAgain, bench, Taken, Items
<1>4. CASE /\ pc[p] \in {"Rest", "Ok"} /\ sent[p] < PER /\ sent' = [sent EXCEPT ![p] = @ + 1]
           /\ Invoke(p, "push", [from |-> p, no |-> sent[p] + 1], "LoadTail")
           /\ UNCHANGED done
  <2> DEFINE x == [from |-> p, no |-> sent[p] + 1]
  <2>1. x \in Values
    BY <1>1, <1>4, BenchAssumption
  <2>2. /\ IndInv' /\ CallInv' /\ Contents' = Contents
        /\ Calls' = [Calls EXCEPT ![p] = [tag |-> "push", val |-> x]]
        /\ Calls'[p] = [tag |-> "push", val |-> x]
    BY <1>1, <1>4, <2>1, InvokePush
  <2>3. sent' \in [Producers -> 0 .. PER] /\ sent'[p] = sent[p] + 1 /\ sent[p] \in Nat
    BY <1>1, <1>4
  <2>4. ProducerInv(p)'
    BY <2>2, <2>3 DEF ProducerInv
  <2>5. Entered'[p] = Entered[p]
    BY <1>2, <1>4, <2>2, <2>3 DEF Entered
  <2>6. Apart(p)
    BY <1>1, <1>3, <1>4 DEF Apart
  <2> QED BY <1>1, <1>3, <2>2, <2>3, <2>4, <2>5, <2>6, TurnKeeps
<1>5. CASE NextItem(p) /\ Leave(p) /\ UNCHANGED sent
  <2>1. IndInv' /\ CallInv' /\ Contents' = Contents /\ Calls' = [Calls EXCEPT ![p] = Calls[p]]
    BY <1>5, IdleIs, BenchTyped DEF Leave
  <2>2. Calls' = Calls
    BY <1>5, IdleIs DEF Leave
  <2>3. ProducerInv(p)' /\ Entered'[p] = Entered[p]
    BY <1>1, <1>5, <2>2 DEF ProducerInv, Entered
  <2>4. Apart(p)
    BY <1>1, <1>3, <1>5 DEF Apart, Leave
  <2> QED BY <1>1, <1>3, <1>5, <2>1, <2>3, <2>4, TurnKeeps
<1>6. CASE PushAgain(p)
  <2>1. pc[p] = "Err" /\ val[p] \in Values /\ Invoke(p, "push", val[p], "LoadTail") /\ UNCHANGED bench
    BY <1>2, <1>6 DEF PushAgain, Carries
  <2>2. /\ IndInv' /\ CallInv' /\ Contents' = Contents
        /\ Calls' = [Calls EXCEPT ![p] = [tag |-> "push", val |-> val[p]]]
        /\ Calls'[p] = [tag |-> "push", val |-> val[p]]
    BY <1>1, <2>1, InvokePush
  <2>3. ProducerInv(p)' /\ Entered'[p] = Entered[p] /\ UNCHANGED <<sent, got, done>>
    BY <1>1, <1>2, <2>1, <2>2 DEF ProducerInv, Entered, bench
  <2>4. Apart(p)
    BY <2>3 DEF Apart
  <2> QED BY <1>1, <1>3, <2>2, <2>3, <2>4, TurnKeeps
<1> QED BY <1>4, <1>5, <1>6 DEF NextItem

\* A consumer counts its item, which is new to all of them.
LEMMA ConsumeCounts ==
  ASSUME BenchInv, NEW c \in Consumers, Consume(c)
  PROVE  /\ Calls[c] = [tag |-> "Some", val |-> val[c]] /\ val[c] \in Values
         /\ Streams[c] = got'[c] /\ got' \in [Consumers -> Seq(Values)]
         /\ consumed' = Cardinality(Taken') /\ consumed' \in Nat
<1>1. /\ c \in Threads /\ ConsumerInv(c) /\ got \in [Consumers -> Seq(Values)]
      /\ consumed \in Nat /\ consumed = Cardinality(Taken)
  BY BenchAssumption DEF BenchInv, BenchType
<1>2. /\ c \notin done /\ pc[c] = "Some" /\ consumed' = consumed + 1
      /\ got' = [got EXCEPT ![c] = Append(@, val[c])]
  BY DEF Consume
<1>3. Calls[c] = [tag |-> "Some", val |-> val[c]] /\ val[c] \in Values
  <2>1. AtRest(c) /\ Carries(c)
    BY <1>1, <1>2 DEF AtRest, Answered, BenchInv, CallInv
  <2> QED BY <1>1, <1>2, <2>1, RestIs DEF Carries
<1> DEFINE x == val[c]
           g == got[c]
           w == Append(g, x)
<1>4. /\ w \in Seq(Values) /\ Len(g) \in Nat /\ Len(w) = Len(g) + 1
      /\ \A k \in 1 .. Len(g) : w[k] = g[k]
      /\ w[Len(g) + 1] = x /\ DOMAIN w = 1 .. Len(w) /\ DOMAIN g = 1 .. Len(g)
  BY <1>1, <1>3, AppendProperties, LenProperties
<1>5. Streams[c] = w /\ got'[c] = w
  BY <1>1, <1>2, <1>3 DEF Streams
<1>6. got' \in [Consumers -> Seq(Values)] /\ \A d \in Consumers \ {c} : got'[d] = got[d]
  BY <1>1, <1>2, <1>4
<1> HIDE DEF w
<1>7. Items(w) = Items(g) \cup {x}
  <2>1. \A k \in 1 .. Len(w) : k \in 1 .. Len(g) \/ k = Len(g) + 1
    BY <1>4
  <2>2. Len(g) + 1 \in 1 .. Len(w) /\ \A k \in 1 .. Len(g) : k \in 1 .. Len(w)
    BY <1>4
  <2> QED BY <1>4, <2>1, <2>2 DEF Items
<1>8. Taken' = Taken \cup {x}
  <2>1. /\ \A y : y \in Taken <=> \E d \in Consumers : y \in Items(got[d])
        /\ \A y : y \in Taken' <=> \E d \in Consumers : y \in Items(got'[d])
    BY DEF Taken, Items
  <2>2. /\ Items(got'[c]) = Items(got[c]) \cup {x}
        /\ \A d \in Consumers \ {c} : Items(got'[d]) = Items(got[d])
    BY <1>5, <1>6, <1>7
  <2>3. \A y : y \in Taken' <=> y \in Taken \/ y = x
    BY <2>1, <2>2
  <2> QED BY <2>3
<1>9. x \notin Items(g)
  <2>1. ASSUME NEW k \in 1 .. Len(g) PROVE g[k] # x
    <3>1. InOrder(w)
      BY <1>5 DEF BenchInv, Flow
    <3>2. k \in 1 .. Len(w) /\ Len(g) + 1 \in 1 .. Len(w) /\ k < Len(g) + 1
      BY <1>4
    <3>3. w[k].from = w[Len(g) + 1].from => w[k].no < w[Len(g) + 1].no
      BY <3>1, <3>2 DEF InOrder
    <3>4. x.no \in Int
      BY <1>3, ItemIs
    <3> QED BY <1>4, <3>3, <3>4
  <2> QED BY <1>4, <2>1 DEF Items
<1>10. ASSUME NEW d \in Consumers, d # c PROVE x \notin Items(got[d])
  <2>1. ASSUME NEW k \in 1 .. Len(got[d]) PROVE got[d][k] # x
    <3>1. got[d] \in Seq(Values) /\ d \in Threads /\ Len(got[d]) \in Nat
      BY <1>1, BenchAssumption, LenProperties
    <3>2. Streams[d] = got[d] \/ Streams[d] = Append(got[d], Calls[d].val)
      BY DEF Streams
    <3>3. k \in 1 .. Len(Streams[d]) /\ Streams[d][k] = got[d][k]
      <4>1. CASE Streams[d] = got[d]
        BY <4>1
      <4>2. CASE Calls[d].tag = "Some" /\ Streams[d] = Append(got[d], Calls[d].val)
        <5>1. Calls[d].val \in Values
          BY <3>1, <4>2, BenchTyped DEF Abstract!Requests, Abstract!Answers
        <5> QED BY <3>1, <4>2, <5>1, AppendProperties
      <4> QED BY <4>1, <4>2 DEF Streams
    <3>4. Len(g) + 1 \in 1 .. Len(Streams[c]) /\ Streams[c][Len(g) + 1] = x
      BY <1>4, <1>5
    <3>5. Streams[c][Len(g) + 1] # Streams[d][k]
      BY <1>10, <3>3, <3>4 DEF BenchInv, Flow
    <3> QED BY <3>3, <3>4, <3>5
  <2>2. DOMAIN got[d] = 1 .. Len(got[d])
    BY <1>1, LenProperties
  <2> QED BY <2>1, <2>2 DEF Items
<1>11. x \notin Taken
  BY <1>9, <1>10 DEF Taken
<1>12. Cardinality(Taken') = Cardinality(Taken) + 1
  BY <1>8, <1>11, TakenFinite, FS_AddElement
<1> QED BY <1>1, <1>2, <1>3, <1>5, <1>6, <1>12

\* A consumer calls pop, counts what it got, or is done.
LEMMA ConsumerTurn ==
  ASSUME BenchInv, NEW c \in Consumers, FirstPop(c) \/ Consume(c) \/ FoundNone(c)
  PROVE  BenchInv'
<1>1. /\ c \in Threads /\ c \notin Producers /\ ConsumerInv(c)
      /\ sent \in [Producers -> 0 .. PER] /\ got \in [Consumers -> Seq(Values)]
      /\ consumed \in Nat /\ consumed = Cardinality(Taken)
  BY BenchAssumption DEF BenchInv, BenchType
<1>2. AtRest(c) /\ Calls[c] = [tag |-> pc[c], val |-> val[c]]
  <2>1. AtRest(c)
    BY DEF FirstPop, Consume, FoundNone, AtRest, Answered
  <2> QED BY <1>1, <2>1, RestIs
<1>3. /\ sent' = sent /\ got' \in [Consumers -> Seq(Values)]
      /\ consumed' = Cardinality(Taken') /\ consumed' \in Nat
      /\ \A d \in Consumers \ {c} : got'[d] = got[d]
      /\ Streams[c] = got'[c]
  <2>1. CASE Consume(c)
    <3>1. sent' = sent /\ \A d \in Consumers \ {c} : got'[d] = got[d]
      BY <1>1, <2>1 DEF Consume
    <3> QED BY <2>1, <3>1, ConsumeCounts
  <2>2. CASE FirstPop(c) \/ FoundNone(c)
    <3>1. UNCHANGED <<sent, got, consumed>> /\ Taken' = Taken
      BY <2>2 DEF FirstPop, FoundNone, bench, Taken, Items
    <3>2. Streams[c] = got[c]
      BY <1>2, <2>2 DEF Streams, FirstPop, FoundNone
    <3> QED BY <1>1, <3>1, <3>2
  <2> QED BY <2>1, <2>2
<1>4. CASE Invoke(c, "pop", NoValue, "LoadHead") /\ UNCHANGED done
  <2>1. /\ IndInv' /\ CallInv' /\ Contents' = Contents
        /\ Calls' = [Calls EXCEPT ![c] = [tag |-> "pop", val |-> NoValue]]
        /\ Calls'[c] = [tag |-> "pop", val |-> NoValue]
    BY <1>1, <1>4, InvokePop
  <2>2. c \notin done
    BY <1>1, <1>2 DEF ConsumerInv, FirstPop, Consume, FoundNone
  <2>3. ConsumerInv(c)' /\ Streams'[c] = Streams[c]
    <3>1. Calls'[c].tag = "pop" /\ c \notin done'
      BY <1>4, <2>1, <2>2
    <3>2. ConsumerInv(c)'
      BY <3>1 DEF ConsumerInv
    <3>3. Streams'[c] = got'[c]
      BY <3>1 DEF Streams
    <3> QED BY <1>3, <3>2, <3>3
  <2>4. Apart(c)
    BY <1>3, <1>4 DEF Apart
  <2> QED BY <1>1, <1>3, <2>1, <2>3, <2>4, TurnKeeps
<1>5. CASE pc[c] \in {"Some", "None"} /\ Leave(c)
  <2>1. IndInv' /\ CallInv' /\ Contents' = Contents /\ Calls' = Calls
    BY <1>5, IdleIs DEF Leave
  <2>2. Calls' = [Calls EXCEPT ![c] = Calls[c]]
    BY <2>1, BenchTyped
  <2>3. ConsumerInv(c)' /\ Streams'[c] = Streams[c]
    BY <1>2, <1>3, <1>5, <2>1 DEF ConsumerInv, Streams, Leave
  <2>4. Apart(c)
    BY <1>3, <1>5 DEF Apart, Leave
  <2> QED BY <1>1, <1>3, <2>1, <2>2, <2>3, <2>4, TurnKeeps
<1> QED BY <1>4, <1>5 DEF FirstPop, Consume, FoundNone, bench

-----------------------------------------------------------------------------
(* The theorem.                                                            *)

\* The benchmark starts with an empty queue and nothing sent.
LEMMA BenchStarts ==
  ASSUME BenchInit
  PROVE  BenchInv
<1>1. IndInv /\ CallInv
  BY InitInd, InitRefines DEF BenchInit
<1>2. Contents = <<>> /\ \A t \in Threads : Calls[t] = [tag |-> "Rest", val |-> NoValue]
  BY InitRefines DEF BenchInit, Abstract!Init, Calls
<1>3. /\ sent = [p \in Producers |-> 0] /\ consumed = 0 /\ done = {}
      /\ got = [c \in Consumers |-> <<>>]
  BY DEF BenchInit
<1>4. BenchType
  BY <1>2, <1>3, BenchAssumption DEF BenchType
<1>5. (\A p \in Producers : ProducerInv(p)) /\ (\A c \in Consumers : ConsumerInv(c))
  BY <1>2, <1>3, BenchAssumption DEF ProducerInv, ConsumerInv
<1>6. \A c \in Consumers : Streams[c] = <<>>
  BY <1>2, <1>3, BenchAssumption DEF Streams
<1>7. Len(<<>>) = 0
  OBVIOUS
<1>8. Flow(Contents, Streams, Entered)
  BY <1>2, <1>6, <1>7 DEF Flow, InOrder, Before
<1>9. Taken = {}
  BY <1>3 DEF Taken, Items
<1>10. Cardinality(Taken) = 0
  BY <1>9, FS_EmptySet
<1> QED BY <1>1, <1>3, <1>4, <1>5, <1>8, <1>10 DEF BenchInv

\* The order of the items is an invariant of the benchmark.
LEMMA BenchInd == BenchSpec => []BenchInv
<1>1. BenchInit => BenchInv
  BY BenchStarts
<1>2. ASSUME BenchInv, NEW t \in Threads, Work(t) PROVE BenchInv'
  BY <1>2, BenchStep, ProducerTurn, ConsumerTurn DEF Work
<1>3. ASSUME BenchInv, UNCHANGED allVars PROVE BenchInv'
  <2>1. UNCHANGED vars /\ UNCHANGED <<sent, consumed, got, done>>
    BY <1>3 DEF allVars, bench
  <2>2. IndInv' /\ CallInv' /\ Contents' = Contents /\ Calls' = Calls
    BY <1>3, <2>1, IdleIs
  <2>3. Entered' = Entered /\ Streams' = Streams /\ Taken' = Taken
    BY <2>1, <2>2 DEF Entered, Streams, Taken, Items
  <2> QED BY <1>3, <2>1, <2>2, <2>3 DEF BenchInv, BenchType, ProducerInv, ConsumerInv
<1>4. BenchInv /\ [\E t \in Threads : Work(t)]_allVars => BenchInv'
  BY <1>2, <1>3
<1> QED BY <1>1, <1>4, PTL DEF BenchSpec

\* The assertions of run_spsc and contention_sum_conserved, for run_mpmc with any
\* number of threads: consumers receive only what was sent, each producer's items in
\* order and once, and everything by the time the counter reaches TOTAL.
THEOREM ItemsArrive == BenchSpec => []Delivered
<1>1. BenchInv => Delivered
  <2> SUFFICES ASSUME BenchInv PROVE Delivered
    OBVIOUS
  <2>1. ASSUME NEW c \in Consumers
        PROVE  /\ got[c] \in Seq(Values) /\ DOMAIN got[c] = 1 .. Len(got[c])
               /\ \A k \in 1 .. Len(got[c]) :
                    k \in 1 .. Len(Streams[c]) /\ Streams[c][k] = got[c][k]
    <3>1. got[c] \in Seq(Values) /\ c \in Threads /\ Len(got[c]) \in Nat
          /\ DOMAIN got[c] = 1 .. Len(got[c])
      BY BenchAssumption, LenProperties DEF BenchInv, BenchType
    <3>2. CASE Streams[c] = got[c]
      BY <3>1, <3>2
    <3>3. CASE Calls[c].tag = "Some" /\ Streams[c] = Append(got[c], Calls[c].val)
      <4>1. Calls[c].val \in Values
        BY <3>1, <3>3, BenchTyped DEF Abstract!Requests, Abstract!Answers
      <4> QED BY <3>1, <3>3, <4>1, AppendProperties
    <3> QED BY <3>1, <3>2, <3>3 DEF Streams
  <2>2. \A c \in Consumers : Items(got[c]) \subseteq Values
    BY <2>1, ElementOfSeq DEF Items
  <2>3. ASSUME NEW c \in Consumers, NEW j \in DOMAIN got[c], NEW k \in DOMAIN got[c],
               j < k, got[c][j].from = got[c][k].from
        PROVE  got[c][j].no < got[c][k].no
    <3>1. InOrder(Streams[c])
      BY DEF BenchInv, Flow
    <3>2. /\ j \in 1 .. Len(Streams[c]) /\ Streams[c][j] = got[c][j]
          /\ k \in 1 .. Len(Streams[c]) /\ Streams[c][k] = got[c][k]
      BY <2>1
    <3> QED BY <2>3, <3>1, <3>2 DEF InOrder
  <2>4. ASSUME NEW c \in Consumers, NEW d \in Consumers, c # d
        PROVE  Items(got[c]) \cap Items(got[d]) = {}
    <3>1. \A j \in 1 .. Len(Streams[c]), k \in 1 .. Len(Streams[d]) : Streams[c][j] # Streams[d][k]
      BY <2>4 DEF BenchInv, Flow
    <3>2. \A j \in DOMAIN got[c], k \in DOMAIN got[d] : got[c][j] # got[d][k]
      BY <2>1, <3>1
    <3> QED BY <3>2 DEF Items
  <2>5. consumed = TOTAL => Taken = Values
    BY TakenFinite, ItemsFinite, FS_Subset DEF BenchInv, TOTAL
  <2> QED BY <2>2, <2>3, <2>4, <2>5 DEF Delivered, Taken
<1> QED BY <1>1, BenchInd, PTL
=============================================================================
