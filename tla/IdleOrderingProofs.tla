------------------------- MODULE IdleOrderingProofs -------------------------
(***************************************************************************)
(* Proofs about module IdleOrdering, for every finite set of tasks: with   *)
(* the Relaxed, Release and Acquire accesses that idle.rs makes, no        *)
(* wake-up is lost, and the thread that returns from idle() sees what the  *)
(* tasks it waited for have written, those it spawned and all that these   *)
(* spawned among them.                                                     *)
(***************************************************************************)
EXTENDS IdleOrdering, FiniteSetTheorems, TLAPS

\* What a thread or a message knows, and a value in the modification order.
Facts == [pos : Nat \ {0}, seen : SUBSET Tasks]
Values == [val : Nat, rel : Facts]

Shapes ==
  /\ spawned \in Seq(Values) /\ spawned # <<>>
  /\ known \in [Threads -> Facts]
  /\ queue \in Seq(Facts)
  /\ at \in [Tasks -> Nat]
  /\ track \in [Tasks -> {"new", "running", "notify", "done", "lost"}]
  /\ rx \in {"out", "load", "recv"}

\* Nobody knows of more than the last value of the counter would teach.
Within(k, n, S) == k.pos <= n /\ k.seen \subseteq S

Bounded ==
  /\ \A i \in 1..Len(spawned) : Within(spawned[i].rel, i, Last.rel.seen)
  /\ \A p \in Threads : Within(known[p], Len(spawned), Last.rel.seen)
  /\ \A i \in 1..Len(queue) : Within(queue[i], Len(spawned), Last.rel.seen)

\* Only what a completed task wrote is seen, and what is not new was counted.
Placed ==
  \A t \in Tasks :
    /\ t \in Last.rel.seen => track[t] \in {"notify", "done"}
    /\ track[t] = "new" => at[t] = 0
    /\ track[t] # "new" => at[t] \in 1..Len(spawned)

\* Each value in the modification order is the number of tasks counted so far
\* whose writes an acquiring reader of that value does not see.
Unseen(a, i, S) == {t \in Tasks : a[t] \in 1..i /\ t \notin S}
Exact ==
  \A i \in 1..Len(spawned) :
    spawned[i].val = Cardinality(Unseen(at, i, spawned[i].rel.seen))

\* When the counter is zero, Main knows it, or is going to be told.
ZeroTold ==
  Last.val = 0 =>
    \/ known[Main].pos = Len(spawned)
    \/ \E i \in 1..Len(queue) : queue[i].pos = Len(spawned)
    \/ \E t \in Tasks : track[t] = "notify" /\ known[t].pos = Len(spawned)

\* The inductive invariant.
OrderInv == Shapes /\ Bounded /\ Placed /\ Exact /\ ZeroTold /\ NoLostWakeup

\* What Merge knows is what either side knows.
LEMMA MergeFacts ==
  ASSUME NEW k \in Facts, NEW l \in Facts
  PROVE  /\ Merge(k, l) \in Facts
         /\ Merge(k, l).seen = k.seen \union l.seen
         /\ Merge(k, l).pos \in {k.pos, l.pos}
         /\ Merge(k, l).pos >= k.pos /\ Merge(k, l).pos >= l.pos
<1>1. Merge(k, l) = [pos  |-> IF k.pos > l.pos THEN k.pos ELSE l.pos,
                     seen |-> k.seen \union l.seen]
  BY DEF Merge
<1>2. k.pos \in Nat \ {0} /\ l.pos \in Nat \ {0}
      /\ k.seen \in SUBSET Tasks /\ l.seen \in SUBSET Tasks
  BY DEF Facts
<1>3. QED
  BY <1>1, <1>2 DEF Facts

\* The last value is one of the modification order.
LEMMA LastValue ==
  ASSUME Shapes
  PROVE  /\ Len(spawned) \in Nat \ {0}
         /\ Last = spawned[Len(spawned)]
         /\ Last.val \in Nat /\ Last.rel \in Facts
<1>1. spawned \in Seq(Values) /\ spawned # <<>>
  BY DEF Shapes
<1>2. Len(spawned) \in Nat \ {0}
  BY <1>1
<1>3. spawned[Len(spawned)] \in Values
  BY <1>1, <1>2
<1>4. QED
  BY <1>2, <1>3 DEF Last, Values

\* An access of the counter that writes e appends e to its modification order.
LEMMA Written ==
  ASSUME Shapes, NEW e \in Values, spawned' = Append(spawned, e)
  PROVE  /\ Len(spawned') = Fresh /\ Last' = e
         /\ \A i \in 1..Len(spawned) : spawned'[i] = spawned[i]
         /\ spawned'[Fresh] = e
         /\ spawned' \in Seq(Values) /\ spawned' # <<>>
BY DEF Shapes, Last, Fresh

\* A new counter is zero, and everyone knows it.
LEMMA InitOrderInv == Init => OrderInv
<1> SUFFICES ASSUME Init PROVE OrderInv
  OBVIOUS
<1> USE DEF Init, Nothing
<1>1. Shapes
  <2>1. [val |-> 0, rel |-> Nothing] \in Values
    BY DEF Values, Facts
  <2>2. QED
    BY <2>1 DEF Shapes, Facts
<1>2. Len(spawned) = 1 /\ Last = [val |-> 0, rel |-> Nothing]
  BY DEF Last
<1>3. Bounded
  BY <1>2 DEF Bounded, Within, Last
<1>4. Placed
  BY <1>2 DEF Placed
<1>5. Exact
  <2>1. \A S : Unseen(at, 1, S) = {}
    BY DEF Unseen
  <2>2. Cardinality({}) = 0
    BY FS_EmptySet
  <2>3. spawned[1].val = 0 /\ \A i \in 1..Len(spawned) : i = 1
    BY <1>2
  <2>4. QED
    BY <2>1, <2>2, <2>3 DEF Exact
<1>6. ZeroTold /\ NoLostWakeup
  BY <1>2, ThreadsAssumption DEF ZeroTold, NoLostWakeup, Threads
<1>7. QED
  BY <1>1, <1>3, <1>4, <1>5, <1>6 DEF OrderInv

\* reserve() counts a task that no one sees, and leaves the counter above zero.
LEMMA ReserveOrderInv ==
  ASSUME OrderInv, NEW p \in Threads, NEW t \in Tasks, Reserve(p, t)
  PROVE  OrderInv'
<1> DEFINE e == [val |-> Last.val + 1, rel |-> Last.rel]
<1>0. /\ Shapes /\ Bounded /\ Placed /\ Exact
      /\ Len(spawned) \in Nat \ {0} /\ Fresh = Len(spawned) + 1 /\ Fresh \in Nat \ {0}
      /\ Last = spawned[Len(spawned)]
      /\ Last.val \in Nat /\ Last.rel \in Facts /\ e \in Values
  BY LastValue DEF OrderInv, Fresh, Values
<1>1. /\ Len(spawned') = Fresh /\ Last' = e
      /\ \A i \in 1..Len(spawned) : spawned'[i] = spawned[i]
      /\ spawned'[Fresh] = e
      /\ spawned' \in Seq(Values) /\ spawned' # <<>>
  BY <1>0, Written DEF Reserve
<1>2. /\ track[t] = "new" /\ p # t
      /\ track' = [track EXCEPT ![t] = "running"] /\ at' = [at EXCEPT ![t] = Fresh]
      /\ UNCHANGED <<queue, rx>>
  BY ThreadsAssumption DEF Reserve, MaySpawn
<1>3. /\ known' \in [Threads -> Facts]
      /\ known'[p].pos = Fresh /\ known'[p].seen = known[p].seen
      /\ known'[t].pos = Fresh /\ known'[t].seen = known[p].seen
      /\ \A q \in Threads \ {p, t} : known'[q] = known[q]
  <2>1. /\ known \in [Threads -> Facts] /\ t \in Threads
        /\ known' = [known EXCEPT ![p].pos = Fresh,
                                  ![t] = [pos |-> Fresh, seen |-> known[p].seen]]
    BY <1>0 DEF Reserve, Shapes, Threads
  <2>2. known[p] \in Facts
    BY <2>1
  <2>3. [pos |-> Fresh, seen |-> known[p].seen] \in Facts
    BY <1>0, <2>2 DEF Facts
  <2>4. [known[p] EXCEPT !.pos = Fresh] = [pos |-> Fresh, seen |-> known[p].seen]
    BY <2>2 DEF Facts
  <2>5. known' = [known EXCEPT ![p] = [pos |-> Fresh, seen |-> known[p].seen],
                               ![t] = [pos |-> Fresh, seen |-> known[p].seen]]
    BY <2>1, <2>4
  <2> DEFINE k == [pos |-> Fresh, seen |-> known[p].seen]
  <2>6. k.pos = Fresh /\ k.seen = known[p].seen
    OBVIOUS
  <2>7. k \in Facts /\ known' = [known EXCEPT ![p] = k, ![t] = k]
    BY <2>3, <2>5
  <2> HIDE DEF k
  <2>8. known \in [Threads -> Facts] /\ t \in Threads
    BY <2>1
  <2>9. known' = [q \in Threads |-> IF q \in {p, t} THEN k ELSE known[q]]
    BY <2>7, <2>8
  <2>10. QED
    BY <2>6, <2>7, <2>8, <2>9
<1>4. Shapes'
  BY <1>0, <1>1, <1>2, <1>3 DEF Shapes
<1>5. Bounded'
  <2>1. \A i \in 1..Len(spawned') : Within(spawned'[i].rel, i, Last'.rel.seen)
    <3>1. ASSUME NEW i \in 1..Len(spawned)
          PROVE  Within(spawned'[i].rel, i, Last'.rel.seen)
      BY <1>0, <1>1 DEF Bounded, Within
    <3>2. Within(Last.rel, Len(spawned), Last.rel.seen) /\ Last.rel.pos \in Nat
      BY <1>0 DEF Bounded, Facts
    <3>3. Within(spawned'[Fresh].rel, Fresh, Last'.rel.seen)
      BY <1>0, <1>1, <3>2 DEF Within
    <3>4. QED
      BY <1>0, <1>1, <3>1, <3>3
  <2>2. ASSUME NEW q \in Threads PROVE Within(known'[q], Len(spawned'), Last'.rel.seen)
    <3>1. Within(known[q], Len(spawned), Last.rel.seen) /\ known[q].pos \in Nat
      BY <1>0 DEF Bounded, Shapes, Facts
    <3>2. Within(known[p], Len(spawned), Last.rel.seen)
      BY <1>0 DEF Bounded
    <3>3. QED
      BY <1>0, <1>1, <1>3, <3>1, <3>2 DEF Within
  <2>3. ASSUME NEW i \in 1..Len(queue)
        PROVE  Within(queue[i], Len(spawned'), Last'.rel.seen)
    <3>1. Within(queue[i], Len(spawned), Last.rel.seen) /\ queue[i] \in Facts
      BY <1>0 DEF Bounded, Shapes
    <3>2. QED
      BY <1>0, <1>1, <3>1 DEF Within, Facts
  <2>4. QED
    BY <1>2, <2>1, <2>2, <2>3 DEF Bounded
<1>6. Placed'
  BY <1>0, <1>1, <1>2 DEF Placed, Shapes
<1>7. Exact'
  <2> DEFINE U == Unseen(at, Len(spawned), Last.rel.seen)
  <2>1. ASSUME NEW i \in 1..Len(spawned)
        PROVE  spawned'[i].val = Cardinality(Unseen(at', i, spawned'[i].rel.seen))
    <3>1. Unseen(at', i, spawned'[i].rel.seen) = Unseen(at, i, spawned[i].rel.seen)
      BY <1>0, <1>1, <1>2 DEF Unseen, Placed, Shapes
    <3>2. QED
      BY <1>0, <1>1, <3>1 DEF Exact
  <2>2. spawned'[Fresh].val = Cardinality(Unseen(at', Fresh, spawned'[Fresh].rel.seen))
    <3>1. t \notin U
      BY <1>0, <1>2 DEF Unseen, Placed
    <3>2. t \notin Last.rel.seen
      BY <1>0, <1>2 DEF Placed
    <3>3. ASSUME NEW u \in Tasks PROVE at[u] \in Nat /\ at[u] <= Len(spawned)
      <4>1. CASE track[u] = "new"
        BY <1>0, <4>1 DEF Placed
      <4>2. CASE track[u] # "new"
        BY <1>0, <4>2 DEF Placed
      <4>3. QED
        BY <4>1, <4>2
    <3>4. Unseen(at', Fresh, Last.rel.seen) = U \union {t}
      BY <1>0, <1>2, <3>2, <3>3 DEF Unseen, Shapes
    <3>5. IsFiniteSet(U)
      BY TasksAssumption, FS_Subset DEF Unseen
    <3>6. Cardinality(U \union {t}) = Cardinality(U) + 1
      BY <3>1, <3>5, FS_AddElement
    <3>7. Cardinality(U) = Last.val
      BY <1>0 DEF Exact
    <3>8. spawned'[Fresh].val = Last.val + 1 /\ spawned'[Fresh].rel = Last.rel
      BY <1>1
    <3> HIDE DEF U
    <3>9. QED
      BY <3>4, <3>6, <3>7, <3>8
  <2>3. \A i \in 1..Len(spawned') : i \in 1..Len(spawned) \/ i = Fresh
    BY <1>0, <1>1
  <2>4. QED
    BY <2>1, <2>2, <2>3 DEF Exact
<1>8. ZeroTold' /\ NoLostWakeup'
  BY <1>0, <1>1 DEF ZeroTold, NoLostWakeup
<1>9. QED
  BY <1>4, <1>5, <1>6, <1>7, <1>8 DEF OrderInv

\* with() releases what the task has seen and written; the one that takes the
\* counter to zero knows of all that was released before.
LEMMA CompleteOrderInv ==
  ASSUME OrderInv, NEW t \in Tasks, Complete(t)
  PROVE  OrderInv'
<1> DEFINE n == Len(spawned)
           own == [pos |-> Fresh, seen |-> known[t].seen \union {t}]
           e == [val |-> Last.val - 1, rel |-> Merge(Last.rel, own)]
           U == Unseen(at, n, Last.rel.seen)
<1>0. /\ Shapes /\ Bounded /\ Placed /\ Exact
      /\ n \in Nat \ {0} /\ Fresh = n + 1 /\ Fresh \in Nat \ {0}
      /\ Last = spawned[n] /\ Last.val \in Nat /\ Last.rel \in Facts
      /\ t \in Threads /\ track[t] = "running"
      /\ at[t] \in 1..n /\ t \notin Last.rel.seen
  BY LastValue DEF OrderInv, Fresh, Threads, Complete, Placed
<1>1. own \in Facts /\ own.seen \subseteq Last.rel.seen \union {t}
  BY <1>0 DEF Shapes, Facts, Bounded, Within
<1>2. /\ Merge(Last.rel, own) \in Facts /\ Merge(own, Last.rel) \in Facts
      /\ Merge(Last.rel, own).seen = Last.rel.seen \union {t}
      /\ Merge(own, Last.rel).seen = Last.rel.seen \union {t}
      /\ Merge(Last.rel, own).pos = Fresh /\ Merge(own, Last.rel).pos = Fresh
  <2>1. Last.rel.pos \in Nat /\ Last.rel.pos <= n /\ own.pos = Fresh
    BY <1>0 DEF Bounded, Within, Facts
  <2>2. own.seen \union Last.rel.seen = Last.rel.seen \union {t}
    BY <1>1
  <2>3. own.seen \in SUBSET Tasks /\ own.pos \in Nat
    BY <1>1 DEF Facts
  <2> HIDE DEF own
  <2>4. /\ Merge(Last.rel, own) \in Facts
        /\ Merge(Last.rel, own).seen = Last.rel.seen \union own.seen
        /\ Merge(Last.rel, own).pos \in {Last.rel.pos, own.pos}
        /\ Merge(Last.rel, own).pos >= own.pos
    BY <1>0, <1>1, MergeFacts
  <2>5. /\ Merge(own, Last.rel) \in Facts
        /\ Merge(own, Last.rel).seen = own.seen \union Last.rel.seen
        /\ Merge(own, Last.rel).pos \in {own.pos, Last.rel.pos}
        /\ Merge(own, Last.rel).pos >= own.pos
    BY <1>0, <1>1, MergeFacts
  <2>6. QED
    BY <1>0, <2>1, <2>2, <2>3, <2>4, <2>5
<1>3. /\ IsFiniteSet(U) /\ t \in U
      /\ Cardinality(U) = Last.val
      /\ Cardinality(U \ {t}) = Last.val - 1
      /\ Last.val - 1 \in Nat
  <2>1. IsFiniteSet(U) /\ t \in U
    BY <1>0, TasksAssumption, FS_Subset DEF Unseen
  <2>2. Cardinality(U) = Last.val
    BY <1>0 DEF Exact
  <2>3. /\ IsFiniteSet(U \ {t})
        /\ Cardinality(U \ {t}) = Cardinality(U) - 1
    BY <2>1, FS_RemoveElement
  <2>4. Cardinality(U \ {t}) \in Nat
    BY <2>3, FS_CardinalityType
  <2>5. QED
    BY <2>1, <2>2, <2>3, <2>4
<1>4. e \in Values
  BY <1>2, <1>3 DEF Values
<1>5. /\ Len(spawned') = Fresh /\ Last' = e
      /\ \A i \in 1..n : spawned'[i] = spawned[i]
      /\ spawned'[Fresh] = e
      /\ spawned' \in Seq(Values) /\ spawned' # <<>>
  BY <1>0, <1>4, Written DEF Complete
<1>6. /\ track' = [track EXCEPT ![t] = IF Last.val = 1 THEN "notify" ELSE "done"]
      /\ UNCHANGED <<queue, at, rx>>
  BY DEF Complete
<1>7. /\ known' \in [Threads -> Facts]
      /\ known'[t].pos = Fresh /\ known'[t].seen \subseteq Last.rel.seen \union {t}
      /\ \A q \in Threads \ {t} : known'[q] = known[q]
  <2>1. known' = [known EXCEPT ![t] =
                    IF Last.val = 1 THEN Merge(own, Last.rel) ELSE own]
    BY DEF Complete
  <2>2. known \in [Threads -> Facts]
    BY <1>0 DEF Shapes
  <2>3. own.pos = Fresh
    OBVIOUS
  <2> HIDE DEF own
  <2>4. QED
    BY <1>0, <1>1, <1>2, <2>1, <2>2, <2>3
<1> HIDE DEF own
<1>8. Last'.val = Last.val - 1 /\ Last'.rel = Merge(Last.rel, own)
  BY <1>5
<1> HIDE DEF e
<1>9. Shapes'
  BY <1>0, <1>5, <1>6, <1>7 DEF Shapes
<1>10. Bounded'
  <2>1. Last'.rel.seen = Last.rel.seen \union {t} /\ Last'.rel.pos = Fresh
    BY <1>2, <1>8
  <2>2. \A i \in 1..Len(spawned') : Within(spawned'[i].rel, i, Last'.rel.seen)
    <3>1. ASSUME NEW i \in 1..n PROVE Within(spawned'[i].rel, i, Last'.rel.seen)
      BY <1>0, <1>5, <2>1 DEF Bounded, Within
    <3>2. Within(spawned'[Fresh].rel, Fresh, Last'.rel.seen)
      BY <1>0, <1>5, <2>1 DEF Within
    <3>3. QED
      BY <1>0, <1>5, <3>1, <3>2
  <2>3. ASSUME NEW q \in Threads PROVE Within(known'[q], Len(spawned'), Last'.rel.seen)
    <3>1. Within(known[q], n, Last.rel.seen) /\ known[q].pos \in Nat
      BY <1>0 DEF Bounded, Shapes, Facts
    <3>2. QED
      BY <1>0, <1>5, <1>7, <2>1, <3>1 DEF Within
  <2>4. ASSUME NEW i \in 1..Len(queue)
        PROVE  Within(queue[i], Len(spawned'), Last'.rel.seen)
    <3>1. Within(queue[i], n, Last.rel.seen) /\ queue[i] \in Facts
      BY <1>0 DEF Bounded, Shapes
    <3>2. QED
      BY <1>0, <1>5, <2>1, <3>1 DEF Within, Facts
  <2>5. QED
    BY <1>6, <2>2, <2>3, <2>4 DEF Bounded
<1>11. Placed'
  BY <1>0, <1>2, <1>5, <1>6, <1>8 DEF Placed, Shapes
<1>12. Exact'
  <2>1. ASSUME NEW i \in 1..n
        PROVE  spawned'[i].val = Cardinality(Unseen(at', i, spawned'[i].rel.seen))
    BY <1>0, <1>5, <1>6 DEF Exact
  <2>2. spawned'[Fresh].val = Cardinality(Unseen(at', Fresh, spawned'[Fresh].rel.seen))
    <3>1. \A u \in Tasks : at[u] \in 1..Fresh <=> at[u] \in 1..n
      BY <1>0 DEF Placed, Shapes
    <3>2. Unseen(at', Fresh, Last'.rel.seen) = U \ {t}
      BY <1>2, <1>6, <1>8, <3>1 DEF Unseen
    <3>3. QED
      BY <1>3, <1>5, <1>8, <3>2
  <2>3. \A i \in 1..Len(spawned') : i \in 1..n \/ i = Fresh
    BY <1>0, <1>5
  <2>4. QED
    BY <2>1, <2>2, <2>3 DEF Exact
<1>13. ZeroTold' /\ NoLostWakeup'
  <2>1. Last'.val = 0 => track'[t] = "notify" /\ known'[t].pos = Len(spawned')
    BY <1>0, <1>5, <1>6, <1>7, <1>8 DEF Shapes
  <2>2. QED
    BY <2>1 DEF ZeroTold, NoLostWakeup
<1>14. QED
  BY <1>9, <1>10, <1>11, <1>12, <1>13 DEF OrderInv

\* A step that leaves the counter alone and starts no task.
LEMMA CounterAlone ==
  ASSUME OrderInv, UNCHANGED <<spawned, at>>,
         \A u \in Tasks : /\ track'[u] = "new" <=> track[u] = "new"
                          /\ track[u] \in {"notify", "done"} =>
                               track'[u] \in {"notify", "done"}
  PROVE  /\ Last' = Last /\ Placed' /\ Exact'
         /\ \A i \in 1..Len(spawned) : Within(spawned'[i].rel, i, Last'.rel.seen)
<1>1. Last' = Last
  BY DEF Last
<1>2. Exact'
  BY DEF OrderInv, Exact
<1>3. Placed'
  BY <1>1 DEF OrderInv, Placed
<1>4. QED
  BY <1>1, <1>2, <1>3 DEF OrderInv, Bounded

\* The notification carries what the sender knows.
LEMMA SendOrderInv ==
  ASSUME OrderInv, NEW t \in Tasks, Send(t)
  PROVE  OrderInv'
<1>0. /\ Shapes /\ Bounded /\ ZeroTold /\ t \in Threads
      /\ track[t] = "notify" /\ track' = [track EXCEPT ![t] = "done"]
      /\ queue' = Append(queue, known[t])
      /\ UNCHANGED <<spawned, known, at, rx>>
  BY DEF OrderInv, Send, Threads
<1>1. Last' = Last /\ Placed' /\ Exact'
      /\ \A i \in 1..Len(spawned) : Within(spawned'[i].rel, i, Last'.rel.seen)
  BY <1>0, CounterAlone DEF Shapes
<1>2. /\ Len(queue') = Len(queue) + 1 /\ Len(queue) \in Nat
      /\ \A i \in 1..Len(queue) : queue'[i] = queue[i]
      /\ queue'[Len(queue) + 1] = known[t]
      /\ queue' \in Seq(Facts)
  BY <1>0 DEF Shapes
<1>3. Shapes'
  BY <1>0, <1>2 DEF Shapes
<1>4. Bounded'
  <2>1. \A i \in 1..Len(queue') : Within(queue'[i], Len(spawned), Last.rel.seen)
    BY <1>0, <1>2 DEF Bounded
  <2>2. QED
    BY <1>0, <1>1, <2>1 DEF Bounded
<1>5. ZeroTold'
  <2>1. CASE known[Main].pos = Len(spawned)
    BY <1>0, <1>1, <2>1 DEF ZeroTold
  <2>2. ASSUME NEW i \in 1..Len(queue), queue[i].pos = Len(spawned) PROVE ZeroTold'
    <3>1. i \in 1..Len(queue') /\ queue'[i].pos = Len(spawned')
      BY <1>0, <1>2, <2>2
    <3>2. QED
      BY <3>1 DEF ZeroTold
  <2>3. ASSUME NEW u \in Tasks, track[u] = "notify", known[u].pos = Len(spawned)
        PROVE  ZeroTold'
    <3>1. CASE u = t
      <4>1. Len(queue') \in 1..Len(queue') /\ queue'[Len(queue')].pos = Len(spawned')
        BY <1>0, <1>2, <2>3, <3>1
      <4>2. QED
        BY <4>1 DEF ZeroTold
    <3>2. CASE u # t
      <4>1. track'[u] = "notify" /\ known'[u].pos = Len(spawned')
        BY <1>0, <2>3, <3>2 DEF Shapes
      <4>2. QED
        BY <4>1 DEF ZeroTold
    <3>3. QED
      BY <3>1, <3>2
  <2>4. QED
    BY <1>0, <1>1, <2>1, <2>2, <2>3 DEF ZeroTold
<1>6. NoLostWakeup'
  BY <1>2 DEF NoLostWakeup
<1>7. QED
  BY <1>1, <1>3, <1>4, <1>5, <1>6 DEF OrderInv

\* A Track that is dropped, and a call of idle(), tell nobody anything.
LEMMA LoseOrCallOrderInv ==
  ASSUME OrderInv, CallIdle \/ \E t \in Tasks : Lose(t)
  PROVE  OrderInv'
<1>0. /\ Shapes /\ Bounded /\ ZeroTold /\ NoLostWakeup
      /\ UNCHANGED <<spawned, known, queue, at>>
      /\ rx' = "load" \/ rx' = rx
      /\ \A u \in Tasks : /\ track'[u] = "new" <=> track[u] = "new"
                          /\ track[u] \in {"notify", "done"} => track'[u] = track[u]
      /\ Shapes'
  BY DEF OrderInv, CallIdle, Lose, Shapes
<1>1. Last' = Last /\ Placed' /\ Exact'
  BY <1>0, CounterAlone
<1>2. Bounded' /\ ZeroTold' /\ NoLostWakeup'
  BY <1>0, <1>1 DEF Bounded, ZeroTold, NoLostWakeup
<1>3. QED
  BY <1>0, <1>1, <1>2 DEF OrderInv

\* What Main learns from k it knows afterwards.
LEMMA MainLearns ==
  ASSUME OrderInv, NEW k \in Facts, Within(k, Len(spawned), Last.rel.seen),
         NEW l \in Facts, Within(l, Len(spawned), Last.rel.seen),
         known' = [known EXCEPT ![Main] = Merge(k, l)],
         UNCHANGED spawned,
         \A i \in 1..Len(queue') : Within(queue'[i], Len(spawned), Last.rel.seen)
  PROVE  /\ known' \in [Threads -> Facts] /\ Bounded'
         /\ known'[Main].pos >= k.pos /\ known'[Main].pos >= l.pos
         /\ known'[Main].pos \in Nat /\ known'[Main].pos <= Len(spawned)
         /\ known'[Main].seen = k.seen \union l.seen
         /\ \A t \in Tasks : known'[t] = known[t]
<1>1. /\ Shapes /\ Bounded /\ Main \in Threads /\ Main \notin Tasks
      /\ Len(spawned) \in Nat /\ Last' = Last
  BY ThreadsAssumption, LastValue DEF OrderInv, Threads, Last
<1>2. /\ Merge(k, l) \in Facts
      /\ Merge(k, l).seen = k.seen \union l.seen
      /\ Merge(k, l).pos \in {k.pos, l.pos}
      /\ Merge(k, l).pos >= k.pos /\ Merge(k, l).pos >= l.pos
  BY MergeFacts
<1>3. k.pos \in Nat /\ l.pos \in Nat /\ Merge(k, l).pos \in Nat
  BY <1>2 DEF Facts
<1>4. Within(Merge(k, l), Len(spawned), Last.rel.seen)
  BY <1>1, <1>2, <1>3 DEF Within
<1>5. /\ known' \in [Threads -> Facts] /\ known'[Main] = Merge(k, l)
      /\ \A p \in Threads \ {Main} : known'[p] = known[p]
  BY <1>1, <1>2 DEF Shapes
<1>6. \A p \in Threads : Within(known'[p], Len(spawned), Last.rel.seen)
  BY <1>1, <1>4, <1>5 DEF Bounded
<1>7. Bounded'
  BY <1>1, <1>6 DEF Bounded
<1>8. QED
  BY <1>1, <1>2, <1>3, <1>4, <1>5, <1>7 DEF Within, Threads

\* A load that returns a stale value leaves Main to be told of the last one.
LEMMA LoadOrderInv ==
  ASSUME OrderInv, NEW i \in 1..Len(spawned), Load(i)
  PROVE  /\ OrderInv'
         /\ known'[Main].pos = i
         /\ spawned[i].rel.seen \subseteq known'[Main].seen
<1> DEFINE k == [pos |-> i, seen |-> known[Main].seen]
<1>0. /\ Shapes /\ Bounded /\ Exact /\ ZeroTold /\ Main \in Threads
      /\ Len(spawned) \in Nat /\ Last = spawned[Len(spawned)]
      /\ rx = "load" /\ i >= known[Main].pos
      /\ known' = [known EXCEPT ![Main] = Merge(k, spawned[i].rel)]
      /\ rx' = IF spawned[i].val = 0 THEN "out" ELSE "recv"
      /\ UNCHANGED <<spawned, queue, at, track>>
  BY LastValue DEF OrderInv, Load, Threads
<1>1. /\ k \in Facts /\ k.pos = i
      /\ Within(k, Len(spawned), Last.rel.seen)
  BY <1>0 DEF Shapes, Facts, Bounded, Within
<1>2. spawned[i] \in Values
  BY <1>0 DEF Shapes
<1>3. /\ spawned[i].rel \in Facts /\ spawned[i].rel.pos \in Nat
      /\ Within(spawned[i].rel, i, Last.rel.seen)
  BY <1>0, <1>2 DEF Bounded, Values, Facts
<1>4. Within(spawned[i].rel, Len(spawned), Last.rel.seen)
  BY <1>0, <1>3 DEF Within
<1> HIDE DEF k
<1>5. /\ known' \in [Threads -> Facts] /\ Bounded'
      /\ known'[Main].pos = i
      /\ spawned[i].rel.seen \subseteq known'[Main].seen
      /\ \A t \in Tasks : known'[t] = known[t]
  <2>1. \A j \in 1..Len(queue') : Within(queue'[j], Len(spawned), Last.rel.seen)
    BY <1>0 DEF Bounded
  <2>2. /\ known' \in [Threads -> Facts] /\ Bounded'
        /\ known'[Main].seen = k.seen \union spawned[i].rel.seen
        /\ \A t \in Tasks : known'[t] = known[t]
    BY <1>0, <1>1, <1>3, <1>4, <2>1, MainLearns
  <2>3. known'[Main] = Merge(k, spawned[i].rel)
    BY <1>0 DEF Shapes
  <2>4. Merge(k, spawned[i].rel).pos = i
    <3>1. /\ Merge(k, spawned[i].rel).pos \in {k.pos, spawned[i].rel.pos}
          /\ Merge(k, spawned[i].rel).pos >= k.pos
      BY <1>1, <1>3, MergeFacts
    <3>2. spawned[i].rel.pos <= i
      BY <1>3 DEF Within
    <3>3. QED
      BY <1>1, <1>3, <3>1, <3>2
  <2>5. QED
    BY <2>2, <2>3, <2>4
<1>6. Last' = Last /\ Placed' /\ Exact'
  BY <1>0, CounterAlone
<1>7. Shapes'
  BY <1>0, <1>5 DEF Shapes
<1>8. ZeroTold' /\ NoLostWakeup'
  <2>1. CASE known[Main].pos = Len(spawned)
    <3>1. i = Len(spawned)
      BY <1>0, <2>1
    <3>2. rx' = IF Last.val = 0 THEN "out" ELSE "recv"
      BY <1>0, <3>1
    <3>3. QED
      BY <1>0, <1>5, <1>6, <3>1, <3>2 DEF ZeroTold, NoLostWakeup
  <2>2. CASE \E j \in 1..Len(queue) : queue[j].pos = Len(spawned)
    <3>1. queue # <<>>
      BY <2>2 DEF Shapes
    <3>2. QED
      BY <1>0, <2>2, <3>1 DEF ZeroTold, NoLostWakeup
  <2>3. CASE \E t \in Tasks : track[t] = "notify" /\ known[t].pos = Len(spawned)
    BY <1>0, <1>5, <2>3 DEF ZeroTold, NoLostWakeup
  <2>4. CASE Last.val # 0
    BY <1>6, <2>4 DEF ZeroTold, NoLostWakeup
  <2>5. QED
    BY <1>0, <2>1, <2>2, <2>3, <2>4 DEF ZeroTold
<1>9. QED
  BY <1>5, <1>6, <1>7, <1>8 DEF OrderInv

\* A message is forgotten only by who has read it.
LEMMA RecvOrderInv ==
  ASSUME OrderInv, Recv
  PROVE  OrderInv'
<1>0. /\ Shapes /\ Bounded /\ ZeroTold /\ Main \in Threads
      /\ queue # <<>> /\ queue' = Tail(queue) /\ rx' = "load"
      /\ known' = [known EXCEPT ![Main] = Merge(known[Main], Head(queue))]
      /\ UNCHANGED <<spawned, at, track>>
  BY DEF OrderInv, Recv, Threads
<1>1. /\ queue \in Seq(Facts) /\ Len(queue) \in Nat \ {0} /\ Head(queue) = queue[1]
      /\ queue' \in Seq(Facts) /\ Len(queue') = Len(queue) - 1
      /\ \A j \in 1..Len(queue') : queue'[j] = queue[j + 1]
  BY <1>0 DEF Shapes
<1>2. /\ Head(queue) \in Facts /\ Within(Head(queue), Len(spawned), Last.rel.seen)
      /\ known[Main] \in Facts /\ Within(known[Main], Len(spawned), Last.rel.seen)
  BY <1>0, <1>1 DEF Bounded, Shapes
<1>3. \A j \in 1..Len(queue') : Within(queue'[j], Len(spawned), Last.rel.seen)
  <2>1. ASSUME NEW j \in 1..Len(queue')
        PROVE  j + 1 \in 1..Len(queue) /\ queue'[j] = queue[j + 1]
    BY <1>1
  <2>2. QED
    BY <1>0, <2>1 DEF Bounded
<1>4. /\ known' \in [Threads -> Facts] /\ Bounded'
      /\ known'[Main].pos >= known[Main].pos /\ known'[Main].pos >= Head(queue).pos
      /\ known'[Main].pos \in Nat /\ known'[Main].pos <= Len(spawned)
      /\ \A t \in Tasks : known'[t] = known[t]
  BY <1>0, <1>2, <1>3, MainLearns
<1>5. Last' = Last /\ Placed' /\ Exact'
  BY <1>0, CounterAlone
<1>6. Shapes'
  BY <1>0, <1>1, <1>4 DEF Shapes
<1>7. ZeroTold'
  <2> SUFFICES ASSUME Last.val = 0 PROVE ZeroTold'
    BY <1>5 DEF ZeroTold
  <2>1. Len(spawned) \in Nat /\ known[Main].pos \in Nat /\ Head(queue).pos \in Nat
    BY <1>0, <1>2, LastValue DEF Facts
  <2>2. CASE known[Main].pos = Len(spawned) \/ Head(queue).pos = Len(spawned)
    BY <1>0, <1>4, <2>1, <2>2 DEF ZeroTold
  <2>3. ASSUME NEW j \in 1..Len(queue), j # 1, queue[j].pos = Len(spawned)
        PROVE  ZeroTold'
    <3>1. j - 1 \in 1..Len(queue') /\ queue'[j - 1] = queue[j]
      BY <1>1, <2>3
    <3>2. QED
      BY <1>0, <2>3, <3>1 DEF ZeroTold
  <2>4. CASE \E t \in Tasks : track[t] = "notify" /\ known[t].pos = Len(spawned)
    BY <1>0, <1>4, <2>4 DEF ZeroTold
  <2>5. QED
    BY <1>0, <1>1, <2>2, <2>3, <2>4 DEF ZeroTold
<1>8. NoLostWakeup'
  BY <1>0 DEF NoLostWakeup
<1>9. QED
  BY <1>4, <1>5, <1>6, <1>7, <1>8 DEF OrderInv

\* In every state the counter's history and what is known of it fit together.
THEOREM OrderInvCorrect == Spec => []OrderInv
<1>1. OrderInv /\ [Next]_vars => OrderInv'
  <2> SUFFICES ASSUME OrderInv, [Next]_vars PROVE OrderInv'
    OBVIOUS
  <2>1. CASE UNCHANGED vars
    BY <2>1 DEF vars, OrderInv, Shapes, Bounded, Placed, Exact, ZeroTold, NoLostWakeup,
                Last
  <2>2. ASSUME NEW i \in DOMAIN spawned, Load(i) PROVE OrderInv'
    <3>1. i \in 1..Len(spawned)
      BY <2>2 DEF OrderInv, Shapes
    <3>2. QED
      BY <2>2, <3>1, LoadOrderInv
  <2>3. QED
    BY <2>1, <2>2, ReserveOrderInv, CompleteOrderInv, SendOrderInv,
       LoseOrCallOrderInv, RecvOrderInv DEF Next
<1>2. QED
  BY <1>1, InitOrderInv, PTL DEF Spec

-----------------------------------------------------------------------------
\* A value of zero is read together with the writes of all tasks counted before.
LEMMA ZeroSeesAll ==
  ASSUME OrderInv, NEW i \in 1..Len(spawned), spawned[i].val = 0,
         NEW t \in Tasks, at[t] \in 1..i
  PROVE  t \in spawned[i].rel.seen /\ track[t] \in {"notify", "done"}
<1>1. Unseen(at, i, spawned[i].rel.seen) = {}
  <2>1. IsFiniteSet(Unseen(at, i, spawned[i].rel.seen))
    BY TasksAssumption, FS_Subset DEF Unseen
  <2>2. Cardinality(Unseen(at, i, spawned[i].rel.seen)) = 0
    BY DEF OrderInv, Exact
  <2>3. QED
    BY <2>1, <2>2, FS_EmptySet
<1>2. t \in spawned[i].rel.seen
  BY <1>1 DEF Unseen
<1>3. t \in Last.rel.seen
  BY <1>2 DEF OrderInv, Bounded, Within
<1>4. QED
  BY <1>2, <1>3 DEF OrderInv, Placed

\* Who spawns is counted already.
Ancestry ==
  /\ by \in [Tasks -> Threads]
  /\ \A t \in Tasks :
       track[t] # "new" /\ by[t] \in Tasks => track[by[t]] # "new"

\* Any zero that Main may still load is younger than the reservation of every task
\* it spawned and of all that these spawned, though nothing orders Main after
\* reservations on other threads.
RootsCounted ==
  \A i \in 1..Len(spawned) :
    spawned[i].val = 0 /\ i >= known[Main].pos =>
      \A t \in Tasks : Rooted(t) => at[t] \in 1..i

RootInv == Ancestry /\ RootsCounted

\* A task is counted when it has a root.
LEMMA RootedCounted ==
  ASSUME OrderInv, NEW t \in Tasks, Rooted(t)
  PROVE  at[t] \in 1..Len(spawned)
BY DEF Rooted, OrderInv, Placed

\* A step that reserves nothing gives no task new ancestors.
LEMMA RootedStays ==
  ASSUME UNCHANGED by, \A u \in Tasks : track'[u] = "new" <=> track[u] = "new",
         NEW t \in Tasks, Rooted(t)'
  PROVE  Rooted(t)
<1>1. PICK S \in SUBSET Tasks :
        t \in S /\ \A u \in S : track'[u] # "new" /\ by'[u] \in S \union {Main}
  BY DEF Rooted
<1>2. \A u \in S : track[u] # "new" /\ by[u] \in S \union {Main}
  BY <1>1
<1>3. QED
  BY <1>1, <1>2 DEF Rooted

\* A task with a root had it before, or it is new and its spawner is Main or has one.
LEMMA RootedGrows ==
  ASSUME OrderInv, Ancestry, NEW p \in Threads, NEW t \in Tasks, Reserve(p, t),
         NEW u \in Tasks, Rooted(u)'
  PROVE  IF u = t THEN p = Main \/ (p \in Tasks /\ Rooted(p)) ELSE Rooted(u)
<1>1. PICK S \in SUBSET Tasks :
        u \in S /\ \A v \in S : track'[v] # "new" /\ by'[v] \in S \union {Main}
  BY DEF Rooted
<1> DEFINE R == S \ {t}
<1>2. /\ track[t] = "new" /\ by' = [by EXCEPT ![t] = p]
      /\ track' = [track EXCEPT ![t] = "running"] /\ p # t
      /\ track \in [Tasks -> {"new", "running", "notify", "done", "lost"}]
      /\ by \in [Tasks -> Threads]
  BY ThreadsAssumption DEF Reserve, MaySpawn, OrderInv, Shapes, Ancestry
<1>3. \A v \in R : track[v] # "new" /\ by[v] \in R \union {Main}
  <2> SUFFICES ASSUME NEW v \in R PROVE track[v] # "new" /\ by[v] \in R \union {Main}
    OBVIOUS
  <2>1. track'[v] = track[v] /\ by'[v] = by[v]
    BY <1>2
  <2>2. by[v] # t
    BY <1>1, <1>2, <2>1 DEF Ancestry
  <2>3. QED
    BY <1>1, <2>1, <2>2
<1>4. ASSUME NEW v \in R PROVE Rooted(v)
  <2>1. R \in SUBSET Tasks
    OBVIOUS
  <2>2. QED
    BY <1>3, <2>1 DEF Rooted
<1>5. CASE u # t
  BY <1>1, <1>4, <1>5
<1>6. CASE u = t
  <2>1. by'[t] = p
    BY <1>2
  <2>2. p = Main \/ p \in R
    BY <1>1, <1>2, <1>6, <2>1
  <2>3. QED
    BY <1>4, <1>6, <2>2
<1>7. QED
  BY <1>5, <1>6

\* Main goes past all zeros when it spawns; and no zero comes after a task that
\* runs, since a reader of it would see that task completed.
LEMMA ReserveRootInv ==
  ASSUME OrderInv, RootInv, NEW p \in Threads, NEW t \in Tasks, Reserve(p, t)
  PROVE  RootInv'
<1>0. /\ Shapes /\ Bounded /\ Placed /\ Main \in Threads /\ Main # t /\ t \in Threads
      /\ Len(spawned) \in Nat \ {0} /\ Fresh = Len(spawned) + 1
      /\ Last.val \in Nat /\ Last.rel \in Facts
      /\ track[t] = "new" /\ track' = [track EXCEPT ![t] = "running"]
      /\ by' = [by EXCEPT ![t] = p] /\ at' = [at EXCEPT ![t] = Fresh]
      /\ p \in Tasks => track[p] = "running"
      /\ known' = [known EXCEPT ![p].pos = Fresh,
                                ![t] = [pos |-> Fresh, seen |-> known[p].seen]]
  BY LastValue, ThreadsAssumption DEF OrderInv, Fresh, Threads, Reserve, MaySpawn
<1>1. /\ Len(spawned') = Fresh
      /\ \A i \in 1..Len(spawned) : spawned'[i] = spawned[i]
      /\ spawned'[Fresh].val = Last.val + 1
  <2> DEFINE e == [val |-> Last.val + 1, rel |-> Last.rel]
  <2>1. e \in Values /\ spawned' = Append(spawned, e)
    BY <1>0 DEF Values, Reserve
  <2>2. e.val = Last.val + 1
    OBVIOUS
  <2> HIDE DEF e
  <2>3. QED
    BY <1>0, <2>1, <2>2, Written
<1>2. Ancestry'
  BY <1>0 DEF RootInv, Ancestry, Shapes
<1>3. RootsCounted'
  <2> SUFFICES ASSUME NEW i \in 1..Len(spawned'), spawned'[i].val = 0,
                      i >= known'[Main].pos, NEW u \in Tasks, Rooted(u)'
               PROVE  at'[u] \in 1..i
    BY DEF RootsCounted
  <2>1. i \in 1..Len(spawned) /\ spawned[i].val = 0
    BY <1>0, <1>1
  <2>2. p # Main /\ i >= known[Main].pos
    <3>1. known \in [Threads -> Facts] /\ known[Main].pos \in Nat
      BY <1>0 DEF Shapes, Facts
    <3>2. p = Main => known'[Main].pos = Fresh
      BY <1>0, <3>1 DEF Facts
    <3>3. p # Main => known'[Main] = known[Main]
      BY <1>0, <3>1
    <3>4. QED
      BY <1>0, <2>1, <3>2, <3>3
  <2>3. CASE u # t
    <3>1. Rooted(u)
      BY <2>3, RootedGrows DEF RootInv
    <3>2. QED
      BY <1>0, <2>1, <2>2, <2>3, <3>1 DEF RootInv, RootsCounted, Shapes
  <2>4. CASE u = t
    <3>1. p \in Tasks /\ Rooted(p)
      BY <2>2, <2>4, RootedGrows DEF RootInv
    <3>2. at[p] \in 1..i
      BY <2>1, <2>2, <3>1 DEF RootInv, RootsCounted
    <3>3. track[p] \in {"notify", "done"}
      BY <2>1, <3>1, <3>2, ZeroSeesAll
    <3>4. QED
      BY <1>0, <3>1, <3>3
  <2>5. QED
    BY <2>3, <2>4
<1>4. QED
  BY <1>2, <1>3 DEF RootInv

\* A zero that with() writes is younger than all reservations.
LEMMA CompleteRootInv ==
  ASSUME OrderInv, RootInv, NEW t \in Tasks, Complete(t)
  PROVE  RootInv'
<1>0. /\ Shapes /\ Main # t /\ t \in Threads /\ Main \in Threads
      /\ Len(spawned) \in Nat \ {0} /\ UNCHANGED <<at, by>>
      /\ track[t] = "running" /\ Fresh = Len(spawned) + 1
      /\ track' = [track EXCEPT ![t] = IF Last.val = 1 THEN "notify" ELSE "done"]
  BY LastValue, ThreadsAssumption DEF OrderInv, Threads, Complete, Fresh
<1>1. known'[Main] = known[Main]
  BY <1>0 DEF Complete, Shapes
<1>2. /\ Len(spawned') = Fresh
      /\ \A i \in 1..Len(spawned) : spawned'[i] = spawned[i]
  BY <1>0 DEF Complete, Shapes
<1>3. \A u \in Tasks : track'[u] = "new" <=> track[u] = "new"
  BY <1>0 DEF Shapes
<1>4. Ancestry'
  BY <1>0, <1>3 DEF RootInv, Ancestry
<1>5. RootsCounted'
  <2> SUFFICES ASSUME NEW i \in 1..Len(spawned'), spawned'[i].val = 0,
                      i >= known'[Main].pos, NEW u \in Tasks, Rooted(u)'
               PROVE  at'[u] \in 1..i
    BY DEF RootsCounted
  <2>1. Rooted(u)
    BY <1>0, <1>3, RootedStays
  <2>2. CASE i = Fresh
    BY <1>0, <2>1, <2>2, RootedCounted
  <2>3. CASE i \in 1..Len(spawned)
    BY <1>0, <1>1, <1>2, <2>1, <2>3 DEF RootInv, RootsCounted
  <2>4. QED
    BY <1>0, <1>2, <2>2, <2>3
<1>6. QED
  BY <1>4, <1>5 DEF RootInv

\* Elsewhere Main only learns of younger values.
LEMMA OtherRootInv ==
  ASSUME OrderInv, RootInv, UNCHANGED <<spawned, at, by>>,
         known'[Main].pos \in Nat, known'[Main].pos >= known[Main].pos,
         \A u \in Tasks : track'[u] = "new" <=> track[u] = "new"
  PROVE  RootInv'
<1>1. Ancestry'
  BY DEF RootInv, Ancestry
<1>2. RootsCounted'
  <2> SUFFICES ASSUME NEW i \in 1..Len(spawned), spawned[i].val = 0,
                      i >= known'[Main].pos, NEW u \in Tasks, Rooted(u)'
               PROVE  at[u] \in 1..i
    BY DEF RootsCounted
  <2>1. Rooted(u)
    BY RootedStays
  <2>2. known[Main].pos \in Nat /\ i \in Nat
    BY LastValue, ThreadsAssumption DEF OrderInv, Shapes, Facts, Threads
  <2>3. i >= known[Main].pos
    BY <2>2
  <2>4. QED
    BY <2>1, <2>3 DEF RootInv, RootsCounted
<1>3. QED
  BY <1>1, <1>2 DEF RootInv

\* No zero that Main may load is older than a task that idle() waits for.
THEOREM RootInvCorrect == Spec => [](OrderInv /\ RootInv)
<1>1. Init => RootInv
  <2> SUFFICES ASSUME Init PROVE RootInv
    OBVIOUS
  <2>1. Ancestry
    BY DEF Init, Ancestry, Threads
  <2>2. RootsCounted
    BY DEF Init, RootsCounted, Rooted
  <2>3. QED
    BY <2>1, <2>2 DEF RootInv
<1>2. OrderInv /\ RootInv /\ [Next]_vars => RootInv'
  <2> SUFFICES ASSUME OrderInv, RootInv, [Next]_vars PROVE RootInv'
    OBVIOUS
  <2>0. known \in [Threads -> Facts] /\ Main \in Threads /\ known[Main].pos \in Nat
    BY DEF OrderInv, Shapes, Facts, Threads
  <2>1. CASE UNCHANGED vars
    BY <2>0, <2>1, OtherRootInv DEF vars
  <2>2. ASSUME NEW t \in Tasks, Send(t) PROVE RootInv'
    <3>1. /\ UNCHANGED <<spawned, known, at, by>> /\ track[t] = "notify"
          /\ track' = [track EXCEPT ![t] = "done"]
      BY <2>2 DEF Send
    <3>2. \A u \in Tasks : track'[u] = "new" <=> track[u] = "new"
      BY <3>1 DEF OrderInv, Shapes
    <3>3. QED
      BY <2>0, <3>1, <3>2, OtherRootInv
  <2>3. ASSUME NEW t \in Tasks, Lose(t) PROVE RootInv'
    <3>1. /\ UNCHANGED <<spawned, known, at, by>> /\ track[t] = "running"
          /\ track' = [track EXCEPT ![t] = "lost"]
      BY <2>3 DEF Lose
    <3>2. \A u \in Tasks : track'[u] = "new" <=> track[u] = "new"
      BY <3>1 DEF OrderInv, Shapes
    <3>3. QED
      BY <2>0, <3>1, <3>2, OtherRootInv
  <2>4. CASE CallIdle
    BY <2>0, <2>4, OtherRootInv DEF CallIdle
  <2>5. ASSUME NEW i \in DOMAIN spawned, Load(i) PROVE RootInv'
    <3>1. i \in 1..Len(spawned) /\ Len(spawned) \in Nat
      BY <2>5, LastValue DEF OrderInv, Shapes
    <3>2. known'[Main].pos = i /\ i >= known[Main].pos
      BY <2>5, <3>1, LoadOrderInv DEF Load
    <3>3. UNCHANGED <<spawned, at, by, track>>
      BY <2>5 DEF Load
    <3>4. QED
      BY <3>1, <3>2, <3>3, OtherRootInv
  <2>6. CASE Recv
    <3>1. /\ queue # <<>>
          /\ known' = [known EXCEPT ![Main] = Merge(known[Main], Head(queue))]
          /\ UNCHANGED <<spawned, at, by, track>>
      BY <2>6 DEF Recv
    <3>2. Head(queue) \in Facts /\ known[Main] \in Facts
      BY <2>0, <3>1 DEF OrderInv, Shapes
    <3>3. /\ Merge(known[Main], Head(queue)) \in Facts
          /\ Merge(known[Main], Head(queue)).pos >= known[Main].pos
      BY <3>2, MergeFacts
    <3>4. known'[Main].pos \in Nat /\ known'[Main].pos >= known[Main].pos
      BY <2>0, <3>1, <3>3 DEF Facts
    <3>5. QED
      BY <3>1, <3>4, OtherRootInv
  <2>7. QED
    BY <2>1, <2>2, <2>3, <2>4, <2>5, <2>6, ReserveRootInv, CompleteRootInv DEF Next
<1>3. QED
  BY <1>1, <1>2, OrderInvCorrect, PTL DEF Spec
-----------------------------------------------------------------------------
\* No value of the model leaves its type: no thread knows of more of the counter
\* than there is.
THEOREM TypeCorrect == Spec => []TypeOK
<1>1. OrderInv /\ RootInv => TypeOK
  <2> SUFFICES ASSUME OrderInv, RootInv PROVE TypeOK
    OBVIOUS
  <2>0. Shapes /\ Bounded /\ Placed /\ Len(spawned) \in Nat
    BY LastValue DEF OrderInv
  <2>1. ASSUME NEW k \in Facts, Within(k, Len(spawned), Last.rel.seen)
        PROVE  k \in Knowledge
    BY <2>0, <2>1 DEF Facts, Within, Knowledge
  <2>2. ASSUME NEW i \in DOMAIN spawned
        PROVE  spawned[i].val \in Nat /\ spawned[i].rel \in Knowledge
    <3>1. i \in 1..Len(spawned) /\ spawned[i] \in Values
      BY <2>0, <2>2 DEF Shapes
    <3>2. /\ spawned[i].val \in Nat /\ spawned[i].rel \in Facts
          /\ Within(spawned[i].rel, i, Last.rel.seen)
      BY <2>0, <3>1 DEF Values, Bounded
    <3>3. Within(spawned[i].rel, Len(spawned), Last.rel.seen)
      BY <2>0, <3>1, <3>2 DEF Within, Facts
    <3>4. QED
      BY <2>1, <3>2, <3>3
  <2>3. known \in [Threads -> Knowledge]
    BY <2>0, <2>1 DEF Shapes, Bounded
  <2>4. ASSUME NEW i \in DOMAIN queue PROVE queue[i] \in Knowledge
    <3>1. i \in 1..Len(queue) /\ queue[i] \in Facts
      BY <2>0, <2>4 DEF Shapes
    <3>2. QED
      BY <2>0, <2>1, <3>1 DEF Bounded
  <2>5. at \in [Tasks -> 0..Len(spawned)]
    <3>1. ASSUME NEW t \in Tasks PROVE at[t] \in 0..Len(spawned)
      BY <2>0 DEF Placed
    <3>2. QED
      BY <2>0, <3>1 DEF Shapes
  <2>6. QED
    BY <2>0, <2>2, <2>3, <2>4, <2>5 DEF TypeOK, Shapes, RootInv, Ancestry
<1>2. QED
  BY <1>1, RootInvCorrect, PTL

\* idle.rs, however stale the loads of Rx::idle are: its caller never sleeps on
\* an idle runtime with no notification on its way.
THEOREM WakeupCorrect == Spec => []NoLostWakeup
<1>1. OrderInv => NoLostWakeup
  BY DEF OrderInv
<1>2. QED
  BY <1>1, OrderInvCorrect, PTL

\* Release in with() and Acquire in idle() are enough: whoever returns from
\* idle() sees what every task it knows to be reserved has written.  Nor does it
\* take more than the Relaxed fetch_add of reserve() for idle() to wait for all that
\* its caller spawned and for what these tasks spawned on other threads, whatever
\* its loads return.
THEOREM ReturnCorrect == Spec => ReturnSeesTasks
<1> DEFINE Seen ==
      rx # "out" /\ rx' = "out" =>
        \A t \in Tasks : at[t] \in 1..known[Main].pos' \/ Rooted(t) =>
          t \in known[Main].seen' /\ track[t] \in {"notify", "done"}
<1>1. OrderInv /\ RootInv /\ [Next]_vars => [Seen]_vars
  <2> SUFFICES ASSUME OrderInv, RootInv, Next, rx # "out", rx' = "out",
                      NEW t \in Tasks, at[t] \in 1..known[Main].pos' \/ Rooted(t)
               PROVE  t \in known[Main].seen' /\ track[t] \in {"notify", "done"}
    BY DEF vars
  <2>1. PICK i \in DOMAIN spawned : Load(i)
    BY DEF Next, Reserve, Complete, Send, Lose, CallIdle, Recv
  <2>2. i \in 1..Len(spawned) /\ spawned[i].val = 0 /\ i >= known[Main].pos
    BY <2>1 DEF OrderInv, Shapes, Load
  <2>3. known'[Main].pos = i /\ spawned[i].rel.seen \subseteq known'[Main].seen
    BY <2>1, <2>2, LoadOrderInv
  <2>4. at[t] \in 1..i
    BY <2>2, <2>3 DEF RootInv, RootsCounted
  <2>5. QED
    BY <2>2, <2>3, <2>4, ZeroSeesAll
<1>2. QED
  BY <1>1, RootInvCorrect, PTL DEF Spec, ReturnSeesTasks
=============================================================================
