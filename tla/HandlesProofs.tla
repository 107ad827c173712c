---------------------------- MODULE HandlesProofs ----------------------------
(***************************************************************************)
(* Proofs about module Handles, for any number of runtimes and of threads  *)
(* and for both builders: references are counted exactly, so nothing is    *)
(* kept but from outside and by the cycle that the current-thread builder  *)
(* makes; compat_sender of the thread pool goes with its Runtime; no       *)
(* thread starts too late for it; and failed builds are not piled up.      *)
(***************************************************************************)
EXTENDS Handles, TLAPS

\* The objects of a build are distinct from each other and from another's.
LEMMA ObjectsDiffer ==
  /\ \A r \in Runtimes :
       /\ Sender(r) \in Objects /\ Closure(r) \in Objects /\ Shared(r) \in Objects
  /\ \A r, q : /\ Sender(r) # Closure(q) /\ Sender(r) # Shared(q)
               /\ Closure(r) # Shared(q)
               /\ Sender(r) = Sender(q) => r = q
               /\ Closure(r) = Closure(q) => r = q
               /\ Shared(r) = Shared(q) => r = q
  /\ \A o \in Objects : \E r \in Runtimes : o \in {Sender(r), Closure(r), Shared(r)}
BY DEF Sender, Closure, Shared, Objects

\* References go from compat_sender, once filled, to the handle and from there to
\* the closure; whether they go on from there depends on the builder.
LEMMA ChildrenOf ==
  ASSUME NEW r, NEW f
  PROVE  /\ Children(Sender(r), f) = IF r \in f THEN {Shared(r)} ELSE {}
         /\ Children(Shared(r), f) = {Closure(r)}
         /\ Children(Closure(r), f) = IF Kind = "pool" THEN {} ELSE {Sender(r)}
BY DEF Children, ClosureRefs, Sender, Closure, Shared

\* References stay within what one build allocates.
LEMMA ChildrenBuilt ==
  ASSUME NEW r \in Runtimes, NEW f, NEW o \in Objects, NEW c \in Children(o, f)
  PROVE  c \in Objects /\ (c \in Built(r) <=> o \in Built(r))
<1>1. PICK q \in Runtimes : o \in {Sender(q), Closure(q), Shared(q)}
  BY ObjectsDiffer
<1>2. c \in {Sender(q), Closure(q), Shared(q)}
  BY <1>1, ChildrenOf
<1>3. QED
  BY <1>1, <1>2, ObjectsDiffer DEF Built

\* Where the references of the objects in S lead.
Follow(S, f) == S \union UNION {Children(o, f) : o \in S}

\* The cycles: in the current-thread builder whatever belongs to a build whose
\* compat_sender is filled, in the thread pool builder nothing.
Looped(f) == IF Kind = "pool" THEN {} ELSE UNION {Built(r) : r \in f}

\* Only within a cycle does a chain of references have three links.
LEMMA ChainsShort ==
  ASSUME NEW f \in SUBSET Runtimes, NEW x \in Objects, NEW y \in Children(x, f),
         NEW p \in Children(y, f), NEW o \in Children(p, f)
  PROVE  o \in Looped(f)
<1>1. PICK r \in Runtimes : x \in {Sender(r), Closure(r), Shared(r)}
  BY ObjectsDiffer
<1>2. /\ Children(Sender(r), f) = IF r \in f THEN {Shared(r)} ELSE {}
      /\ Children(Shared(r), f) = {Closure(r)}
      /\ Children(Closure(r), f) = IF Kind = "pool" THEN {} ELSE {Sender(r)}
  BY ChildrenOf
<1>3. Kind # "pool" /\ r \in f
  BY <1>1, <1>2
<1>4. o \in {Sender(r), Closure(r), Shared(r)}
  BY <1>1, <1>2
<1>5. QED
  BY <1>3, <1>4 DEF Looped, Built

\* What is on a cycle is referred to from the cycle.
LEMMA LoopsClosed ==
  ASSUME NEW f \in SUBSET Runtimes, NEW o \in Looped(f)
  PROVE  /\ o \in Objects
         /\ \E c \in Looped(f) : o \in Children(c, f)
<1>1. PICK r \in f : Kind # "pool" /\ o \in {Sender(r), Closure(r), Shared(r)}
  BY DEF Looped, Built
<1>2. {Sender(r), Closure(r), Shared(r)} \subseteq Looped(f)
  BY <1>1 DEF Looped, Built
<1>3. QED
  BY <1>1, <1>2, ChildrenOf, ObjectsDiffer

\* Three rounds of counting leave the cycles and what can be reached from outside,
\* if what is referred to was there before.
LEMMA CountingExact ==
  ASSUME NEW S \in SUBSET Objects, NEW f \in SUBSET Runtimes, NEW h,
         Held(h) \subseteq S, Looped(f) \subseteq S,
         \A o \in S : Children(o, f) \subseteq S
  PROVE  /\ Counted(S, h, f) =
              Follow(Follow(Follow(Held(h), f), f), f) \union Looped(f)
         /\ Held(h) \subseteq Counted(S, h, f) /\ Counted(S, h, f) \subseteq S
         /\ \A o \in Counted(S, h, f) : Children(o, f) \subseteq Counted(S, h, f)
<1> DEFINE A == Sweep(S, h, f)
           B == Sweep(A, h, f)
           C == Sweep(B, h, f)
           H == Held(h)
           D == Follow(Follow(Follow(H, f), f), f)
<1>1. C = Counted(S, h, f)
  BY DEF Counted
<1>2. ASSUME NEW T \in SUBSET Objects, H \subseteq T, Looped(f) \subseteq T,
             \A o \in T : Children(o, f) \subseteq T
      PROVE  /\ Sweep(T, h, f) \subseteq T /\ H \subseteq Sweep(T, h, f)
             /\ Looped(f) \subseteq Sweep(T, h, f)
             /\ \A o \in Sweep(T, h, f) : Children(o, f) \subseteq Sweep(T, h, f)
  <2>1. Looped(f) \subseteq Sweep(T, h, f)
    BY <1>2, LoopsClosed DEF Sweep
  <2>2. QED
    BY <1>2, <2>1 DEF Sweep
<1>3. /\ A \subseteq S /\ H \subseteq A /\ Looped(f) \subseteq A
      /\ \A o \in A : Children(o, f) \subseteq A
  BY <1>2
<1>4. /\ B \subseteq A /\ H \subseteq B /\ Looped(f) \subseteq B
      /\ \A o \in B : Children(o, f) \subseteq B
  BY <1>2, <1>3
<1>5. /\ C \subseteq B /\ H \subseteq C /\ Looped(f) \subseteq C
      /\ \A o \in C : Children(o, f) \subseteq C
  BY <1>2, <1>3, <1>4
<1>6. D \union Looped(f) \subseteq C
  BY <1>5 DEF Follow
<1>7. C \subseteq D \union Looped(f)
  <2> SUFFICES ASSUME NEW o \in C PROVE o \in D \union Looped(f)
    OBVIOUS
  <2>1. ASSUME NEW x, NEW T \in SUBSET Objects, x \in Sweep(T, h, f)
        PROVE  x \in H \/ \E y \in T : x \in Children(y, f)
    BY <2>1 DEF Sweep
  <2>2. CASE o \in H
    BY <2>2 DEF Follow
  <2>3. ASSUME NEW p \in B, o \in Children(p, f) PROVE o \in D \union Looped(f)
    <3>1. CASE p \in H
      BY <2>3, <3>1 DEF Follow
    <3>2. ASSUME NEW q \in A, p \in Children(q, f) PROVE o \in D \union Looped(f)
      <4>1. CASE q \in H
        BY <2>3, <3>2, <4>1 DEF Follow
      <4>2. ASSUME NEW y \in S, q \in Children(y, f) PROVE o \in Looped(f)
        <5>1. y \in Objects
          BY <4>2
        <5>2. QED
          BY <2>3, <3>2, <4>2, <5>1, ChainsShort
      <4>3. QED
        BY <2>1, <4>1, <4>2
    <3>3. QED
      BY <2>1, <1>3, <3>1, <3>2
  <2>4. QED
    BY <2>1, <2>2, <2>3, <1>3, <1>4
<1>8. QED
  BY <1>1, <1>3, <1>4, <1>5, <1>6, <1>7
-----------------------------------------------------------------------------
\* Who holds what.
HolderTypes ==
  /\ alive \subseteq Objects
  /\ filled \subseteq Runtimes
  /\ held \in [Holders -> SUBSET alive]
  /\ runtime \in [Runtimes -> {"none", "building", "failed", "launched", "ready",
                              "closing", "gone"}]
  /\ thread \in [Threads -> [of : Runtimes \union {None},
                             at : {"off", "starting", "upgraded", "running"}]]
  /\ \A r \in filled : runtime[r] \in {"ready", "closing", "gone"}

\* The locals of build() and the Builder hold what is being built.
BuildHolds ==
  \A r \in Runtimes : runtime[r] \in {"building", "launched"} =>
    held[Build] = {Sender(r)} /\ held[Builder] = {Closure(r)}

\* A Runtime holds its tokio 0.2 runtime, and that of the thread pool its
\* compat_sender.
RuntimeHolds ==
  \A r \in Runtimes :
    /\ runtime[r] \in {"launched", "ready", "closing"} => Shared(r) \in held[r]
    /\ Kind = "pool" /\ runtime[r] \in {"ready", "closing"} => Sender(r) \in held[r]

ThreadHolds ==
  \A w \in Threads :
    /\ thread[w].at = "off" => thread[w].of = None
    /\ thread[w].at # "off" =>
         /\ thread[w].of \in Runtimes
         /\ Shared(thread[w].of) \in held[w]
         /\ runtime[thread[w].of] \in {"launched", "ready", "closing"}

\* compat_sender is held by build(), by its Runtime and by threads that start.
SenderHolders ==
  \A x \in Holders, r \in Runtimes : Sender(r) \in held[x] =>
    \/ x = Build /\ runtime[r] \in {"building", "launched"}
    \/ x = r /\ runtime[r] \in {"ready", "closing"}
    \/ x \in Threads /\ thread[x].of = r

\* Handles are held only of what was launched, closures only by the Builder, one
\* at a time.
OtherHolders ==
  /\ \A x \in Holders, r \in Runtimes :
       /\ Shared(r) \in held[x] => runtime[r] \notin {"none", "building", "failed"}
       /\ Closure(r) \in held[x] => x = Builder /\ runtime[r] # "none"
  /\ \A r, q \in Runtimes :
       Closure(r) \in held[Builder] /\ Closure(q) \in held[Builder] => r = q

\* Nothing is kept but from outside and by the cycles.
KeptExactly ==
  alive = Reached(Reached(Reached(Held(held)))) \union Looped(filled)

\* What is referred to from inside is allocated.
Complete == \A o \in alive : Children(o, filled) \subseteq alive

HolderInv ==
  /\ HolderTypes /\ BuildHolds /\ RuntimeHolds /\ ThreadHolds /\ SenderHolders
  /\ OtherHolders /\ Complete /\ KeptExactly

\* Nothing is built yet.
LEMMA InitHolderInv == Init => HolderInv
<1> SUFFICES ASSUME Init PROVE HolderInv
  OBVIOUS
<1>1. HolderTypes
  BY DEF Init, HolderTypes
<1>2. /\ BuildHolds /\ RuntimeHolds /\ ThreadHolds /\ SenderHolders /\ OtherHolders
      /\ Complete
  BY DEF Init, BuildHolds, RuntimeHolds, ThreadHolds, SenderHolders, OtherHolders,
         Complete, Holders
<1>3. KeptExactly
  <2>1. Held(held) = {}
    BY DEF Init, Held
  <2>2. Reached({}) = {}
    BY DEF Reached
  <2>3. QED
    BY <2>1, <2>2 DEF Init, KeptExactly, Looped
<1>4. QED
  BY <1>1, <1>2, <1>3 DEF HolderInv

\* When the holders let go of some references and take others, of what is
\* allocated, the counts follow.
LEMMA ReholdKeeps ==
  ASSUME NEW S \in SUBSET Objects, NEW f \in SUBSET Runtimes,
         NEW h \in [Holders -> SUBSET S], Looped(f) \subseteq S,
         \A o \in S : Children(o, f) \subseteq S, Rehold(S, h, f)
  PROVE  /\ held' = h /\ filled' = f
         /\ alive' \subseteq Objects /\ held' \in [Holders -> SUBSET alive']
         /\ Complete' /\ KeptExactly'
<1>1. Held(h) \subseteq S
  BY DEF Held
<1>2. held' = h /\ filled' = f /\ alive' = Counted(S, h, f)
  BY DEF Rehold
<1>3. /\ alive' = Follow(Follow(Follow(Held(h), f), f), f) \union Looped(f)
      /\ Held(h) \subseteq alive' /\ alive' \subseteq S
      /\ \A o \in alive' : Children(o, f) \subseteq alive'
  BY <1>1, <1>2, CountingExact
<1>4. held' \in [Holders -> SUBSET alive']
  <2>1. \A x \in Holders : h[x] \subseteq Held(h)
    BY DEF Held
  <2>2. QED
    BY <1>2, <1>3, <2>1
<1>5. Complete'
  BY <1>2, <1>3 DEF Complete
<1>6. KeptExactly'
  BY <1>2, <1>3 DEF KeptExactly, Reached, Follow
<1>7. QED
  BY <1>2, <1>3, <1>4, <1>5, <1>6

\* The same when nothing is allocated and no compat_sender is filled.
LEMMA ReholdSame ==
  ASSUME HolderInv, NEW h \in [Holders -> SUBSET alive],
         Rehold(alive, h, filled)
  PROVE  /\ held' = h /\ filled' = filled
         /\ alive' \subseteq Objects /\ held' \in [Holders -> SUBSET alive']
         /\ Complete' /\ KeptExactly'
BY ReholdKeeps DEF HolderInv, HolderTypes, KeptExactly, Complete

\* What touches neither the threads nor what they hold.
LEMMA ThreadsUntouched ==
  ASSUME ThreadHolds, UNCHANGED thread, \A w \in Threads : held'[w] = held[w],
         \A r \in Runtimes : runtime[r] \in {"launched", "ready", "closing"} =>
           runtime'[r] \in {"launched", "ready", "closing"}
  PROVE  ThreadHolds'
BY DEF ThreadHolds

\* The steps of build().
LEMMA BuildingHolderInv ==
  ASSUME HolderInv, NEW r \in Runtimes,
         Prepare(r) \/ BuildFails(r) \/ Launch(r) \/ Publish(r) \/ DropBuilder
  PROVE  HolderInv'
<1> USE DEF HolderInv, HolderTypes
<1>d. /\ {Builder, Build, Clones} \subseteq Holders /\ r \in Holders
      /\ Runtimes \subseteq Holders /\ Threads \subseteq Holders
      /\ r \notin Threads \union {Builder, Build, Clones}
      /\ Builder # Build /\ Build # Clones /\ Builder # Clones
      /\ Threads \intersect (Runtimes \union {Builder, Build, Clones}) = {}
      /\ Runtimes \intersect {Builder, Build, Clones} = {}
  BY DistinctHolders DEF Holders
<1>1. CASE Prepare(r)
  <2> DEFINE S == alive \union {Sender(r), Closure(r)}
             h == [held EXCEPT ![Build] = {Sender(r)}, ![Builder] = {Closure(r)}]
  <2>1. S \in SUBSET Objects /\ h \in [Holders -> SUBSET S]
    BY ObjectsDiffer, <1>d
  <2>2. runtime[r] = "none" /\ held[Build] = {} /\ r \notin filled
    BY <1>1 DEF Prepare
  <2>3. /\ \A o \in S : Children(o, filled) \subseteq S
        /\ Looped(filled) \subseteq S
    BY <2>2, ChildrenOf DEF Complete, KeptExactly
  <2>4. /\ held' = h /\ filled' = filled
        /\ alive' \subseteq Objects /\ held' \in [Holders -> SUBSET alive']
        /\ Complete' /\ KeptExactly'
    BY <1>1, <2>1, <2>3, ReholdKeeps DEF Prepare
  <2>5. runtime' = [runtime EXCEPT ![r] = "building"] /\ UNCHANGED thread
    BY <1>1 DEF Prepare
  <2>6. /\ held'[Build] = {Sender(r)} /\ held'[Builder] = {Closure(r)}
        /\ \A x \in Holders \ {Build, Builder} : held'[x] = held[x]
    BY <2>4, <1>d
  <2>7. HolderTypes'
    BY <2>2, <2>4, <2>5
  <2>8. BuildHolds'
    BY <2>2, <2>5, <2>6 DEF BuildHolds
  <2>9. RuntimeHolds' /\ ThreadHolds'
    <3>1. RuntimeHolds'
      BY <2>2, <2>5, <2>6, <1>d DEF RuntimeHolds
    <3>2. ThreadHolds'
      BY <2>2, <2>5, <2>6, <1>d, ThreadsUntouched
    <3>3. QED
      BY <3>1, <3>2
  <2>10. SenderHolders'
    BY <2>2, <2>5, <2>6, <1>d, ObjectsDiffer DEF SenderHolders
  <2>11. OtherHolders'
    BY <2>2, <2>5, <2>6, <1>d, ObjectsDiffer DEF OtherHolders
  <2>12. QED
    BY <2>4, <2>7, <2>8, <2>9, <2>10, <2>11
<1>2. CASE BuildFails(r)
  <2> DEFINE h == [held EXCEPT ![Build] = {}]
  <2>1. h \in [Holders -> SUBSET alive]
    OBVIOUS
  <2>2. runtime[r] = "building" /\ held[Build] = {Sender(r)}
    BY <1>2 DEF BuildFails, BuildHolds
  <2>3. /\ held' = h /\ filled' = filled
        /\ alive' \subseteq Objects /\ held' \in [Holders -> SUBSET alive']
        /\ Complete' /\ KeptExactly'
    BY <1>2, <2>1, ReholdSame DEF BuildFails
  <2>4. runtime' = [runtime EXCEPT ![r] = "failed"] /\ UNCHANGED thread
    BY <1>2 DEF BuildFails
  <2>5. held'[Build] = {} /\ \A x \in Holders \ {Build} : held'[x] = held[x]
    BY <2>3, <1>d
  <2>6. HolderTypes'
    BY <2>2, <2>3, <2>4
  <2>7. BuildHolds'
    BY <2>2, <2>4, <2>5, <1>d, ObjectsDiffer DEF BuildHolds
  <2>8. RuntimeHolds' /\ ThreadHolds'
    <3>1. RuntimeHolds'
      BY <2>2, <2>4, <2>5, <1>d DEF RuntimeHolds
    <3>2. ThreadHolds'
      BY <2>2, <2>4, <2>5, <1>d, ThreadsUntouched
    <3>3. QED
      BY <3>1, <3>2
  <2>9. SenderHolders'
    BY <2>2, <2>4, <2>5, <1>d, ObjectsDiffer DEF SenderHolders
  <2>10. OtherHolders'
    BY <2>2, <2>4, <2>5, <1>d, ObjectsDiffer DEF OtherHolders
  <2>11. QED
    BY <2>3, <2>6, <2>7, <2>8, <2>9, <2>10
<1>3. CASE Launch(r)
  <2> DEFINE S == alive \union {Shared(r)}
             h == [held EXCEPT ![r] = {Shared(r)}]
  <2>1. S \in SUBSET Objects /\ h \in [Holders -> SUBSET S]
    BY ObjectsDiffer, <1>d
  <2>2. /\ runtime[r] = "building" /\ r \notin filled
        /\ held[Build] = {Sender(r)} /\ held[Builder] = {Closure(r)}
    BY <1>3 DEF Launch, BuildHolds
  <2>3. /\ \A o \in S : Children(o, filled) \subseteq S
        /\ Looped(filled) \subseteq S
    <3>1. Closure(r) \in alive
      BY <2>2, <1>d
    <3>2. QED
      BY <3>1, ChildrenOf DEF Complete, KeptExactly
  <2>4. /\ held' = h /\ filled' = filled
        /\ alive' \subseteq Objects /\ held' \in [Holders -> SUBSET alive']
        /\ Complete' /\ KeptExactly'
    BY <1>3, <2>1, <2>3, ReholdKeeps DEF Launch
  <2>5. runtime' = [runtime EXCEPT ![r] = "launched"] /\ UNCHANGED thread
    BY <1>3 DEF Launch
  <2>6. held'[r] = {Shared(r)} /\ \A x \in Holders \ {r} : held'[x] = held[x]
    BY <2>4, <1>d
  <2>7. HolderTypes'
    BY <2>2, <2>4, <2>5
  <2>8. BuildHolds'
    BY <2>2, <2>5, <2>6, <1>d DEF BuildHolds
  <2>9. RuntimeHolds' /\ ThreadHolds'
    <3>1. RuntimeHolds'
      BY <2>2, <2>5, <2>6, <1>d DEF RuntimeHolds
    <3>2. ThreadHolds'
      BY <2>2, <2>5, <2>6, <1>d, ThreadsUntouched
    <3>3. QED
      BY <3>1, <3>2
  <2>10. SenderHolders'
    BY <2>2, <2>5, <2>6, <1>d, ObjectsDiffer DEF SenderHolders
  <2>11. OtherHolders'
    BY <2>2, <2>5, <2>6, <1>d, ObjectsDiffer DEF OtherHolders
  <2>12. QED
    BY <2>4, <2>7, <2>8, <2>9, <2>10, <2>11
<1>4. CASE Publish(r)
  <2> DEFINE f == filled \union {r}
             K == IF Kind = "pool" THEN {Sender(r)} ELSE {}
             h == [held EXCEPT ![Build] = {}, ![r] = @ \union K]
  <2>1. /\ runtime[r] = "launched" /\ held[Build] = {Sender(r)}
        /\ Shared(r) \in held[r]
    BY <1>4 DEF Publish, BuildHolds, RuntimeHolds
  <2>2. Sender(r) \in alive /\ Shared(r) \in alive /\ Closure(r) \in alive
    <3>1. Sender(r) \in alive /\ Shared(r) \in alive
      BY <2>1, <1>d
    <3>2. QED
      BY <3>1, ChildrenOf DEF Complete
  <2>3. f \in SUBSET Runtimes /\ h \in [Holders -> SUBSET alive]
    BY <2>2
  <2>4. \A o \in alive : Children(o, f) \subseteq alive
    <3> SUFFICES ASSUME NEW o \in alive PROVE Children(o, f) \subseteq alive
      OBVIOUS
    <3>1. PICK q \in Runtimes : o \in {Sender(q), Closure(q), Shared(q)}
      BY ObjectsDiffer
    <3>2. Children(o, f) = Children(o, filled) \/ o = Sender(r)
      <4>1. /\ Children(Sender(q), f) = IF q \in f THEN {Shared(q)} ELSE {}
            /\ Children(Shared(q), f) = {Closure(q)}
            /\ Children(Closure(q), f) = IF Kind = "pool" THEN {} ELSE {Sender(q)}
        BY ChildrenOf
      <4>2. /\ Children(Sender(q), filled) = IF q \in filled THEN {Shared(q)} ELSE {}
            /\ Children(Shared(q), filled) = {Closure(q)}
            /\ Children(Closure(q), filled) = IF Kind = "pool" THEN {} ELSE {Sender(q)}
        BY ChildrenOf
      <4>3. q # r => (q \in f <=> q \in filled)
        OBVIOUS
      <4> HIDE DEF f
      <4>4. QED
        BY <3>1, <4>1, <4>2, <4>3
    <3>3. QED
      BY <2>2, <3>2, ChildrenOf DEF Complete
  <2>l. Looped(f) \subseteq alive
    <3>1. Looped(f) \subseteq Looped(filled) \union Built(r)
      BY DEF Looped
    <3>2. QED
      BY <2>2, <3>1 DEF KeptExactly, Built
  <2>5. /\ held' = h /\ filled' = f
        /\ alive' \subseteq Objects /\ held' \in [Holders -> SUBSET alive']
        /\ Complete' /\ KeptExactly'
    BY <1>4, <2>3, <2>4, <2>l, ReholdKeeps DEF Publish
  <2>6. runtime' = [runtime EXCEPT ![r] = "ready"] /\ UNCHANGED thread
    BY <1>4 DEF Publish
  <2>7. /\ held'[Build] = {} /\ held'[r] = held[r] \union K
        /\ \A x \in Holders \ {Build, r} : held'[x] = held[x]
    BY <2>5, <1>d
  <2>8. HolderTypes'
    BY <2>1, <2>5, <2>6
  <2>9. BuildHolds'
    BY <2>1, <2>6, <2>7, ObjectsDiffer DEF BuildHolds
  <2>10. RuntimeHolds' /\ ThreadHolds'
    <3>1. RuntimeHolds'
      BY <2>1, <2>6, <2>7, <1>d DEF RuntimeHolds
    <3>2. ThreadHolds'
      BY <2>1, <2>6, <2>7, <1>d, ThreadsUntouched
    <3>3. QED
      BY <3>1, <3>2
  <2>11. SenderHolders'
    BY <2>1, <2>6, <2>7, <1>d, ObjectsDiffer DEF SenderHolders
  <2>12. OtherHolders'
    BY <2>1, <2>6, <2>7, <1>d, ObjectsDiffer DEF OtherHolders
  <2>13. QED
    BY <2>5, <2>8, <2>9, <2>10, <2>11, <2>12
<1>5. CASE DropBuilder
  <2> DEFINE h == [held EXCEPT ![Builder] = {}]
  <2>1. h \in [Holders -> SUBSET alive] /\ held[Build] = {}
    BY <1>5 DEF DropBuilder
  <2>2. /\ held' = h /\ filled' = filled
        /\ alive' \subseteq Objects /\ held' \in [Holders -> SUBSET alive']
        /\ Complete' /\ KeptExactly'
    BY <1>5, <2>1, ReholdSame DEF DropBuilder
  <2>3. UNCHANGED <<runtime, thread>>
    BY <1>5 DEF DropBuilder
  <2>4. held'[Builder] = {} /\ \A x \in Holders \ {Builder} : held'[x] = held[x]
    BY <2>2, <1>d
  <2>5. BuildHolds' /\ RuntimeHolds' /\ ThreadHolds'
    <3>1. BuildHolds'
      BY <2>1, <2>3, <2>4, <1>d, ObjectsDiffer DEF BuildHolds
    <3>2. RuntimeHolds'
      BY <2>3, <2>4, <1>d DEF RuntimeHolds
    <3>3. ThreadHolds'
      BY <2>3, <2>4, <1>d, ThreadsUntouched
    <3>4. QED
      BY <3>1, <3>2, <3>3
  <2>6. SenderHolders'
    BY <2>3, <2>4, <1>d DEF SenderHolders
  <2>7. OtherHolders'
    BY <2>3, <2>4, <1>d DEF OtherHolders
  <2>8. QED
    BY <2>2, <2>3, <2>5, <2>6, <2>7
<1>6. QED
  BY <1>1, <1>2, <1>3, <1>4, <1>5

Places == [of : Runtimes \union {None},
           at : {"off", "starting", "upgraded", "running"}]

\* Only thread w moves, to c.
Moves(w, c) ==
  /\ thread' \in [Threads -> Places] /\ thread'[w] = c
  /\ \A v \in Threads \ {w} : thread'[v] = thread[v]

\* A thread takes G, of the runtime it belongs to, and lets go of the rest.
LEMMA ThreadTakes ==
  ASSUME HolderInv, NEW w \in Threads, NEW G \in SUBSET alive,
         NEW c \in Places,
         c.at = "off" => c.of = None /\ G = {},
         c.at # "off" =>
           /\ c.of \in Runtimes /\ Shared(c.of) \in G
           /\ \A q \in Runtimes : Sender(q) \in G => q = c.of
           /\ runtime[c.of] \in {"launched", "ready", "closing"},
         \A q \in Runtimes :
           /\ Closure(q) \notin G
           /\ Shared(q) \in G => runtime[q] \notin {"none", "building", "failed"},
         Moves(w, c), UNCHANGED runtime,
         Rehold(alive, [held EXCEPT ![w] = G], filled)
  PROVE  HolderInv'
<1> USE DEF HolderInv, HolderTypes
<1> DEFINE h == [held EXCEPT ![w] = G]
<1>d. /\ w \in Holders /\ w \notin Runtimes \union {Builder, Build, Clones}
      /\ Runtimes \subseteq Holders /\ {Builder, Build, Clones} \subseteq Holders
  BY DistinctHolders DEF Holders
<1>1. h \in [Holders -> SUBSET alive]
  OBVIOUS
<1>2. /\ held' = h /\ filled' = filled
      /\ alive' \subseteq Objects /\ held' \in [Holders -> SUBSET alive']
      /\ Complete' /\ KeptExactly'
  BY <1>1, ReholdSame
<1>3. /\ held'[w] = G /\ \A x \in Holders \ {w} : held'[x] = held[x]
      /\ thread'[w] = c /\ \A v \in Threads \ {w} : thread'[v] = thread[v]
      /\ Threads \subseteq Holders
  BY <1>2, <1>d DEF Holders, Moves
<1>4. HolderTypes'
  BY <1>2 DEF Moves, Places
<1>5. BuildHolds' /\ RuntimeHolds'
  BY <1>3, <1>d DEF BuildHolds, RuntimeHolds
<1>6. ThreadHolds'
  <2> SUFFICES ASSUME NEW v \in Threads
      PROVE  /\ thread'[v].at = "off" => thread'[v].of = None
             /\ thread'[v].at # "off" =>
                  /\ thread'[v].of \in Runtimes
                  /\ Shared(thread'[v].of) \in held'[v]
                  /\ runtime'[thread'[v].of] \in {"launched", "ready", "closing"}
    BY DEF ThreadHolds
  <2>1. CASE v = w
    BY <1>3, <2>1
  <2>2. CASE v # w
    BY <1>3, <2>2 DEF ThreadHolds
  <2>3. QED
    BY <2>1, <2>2
<1>7. SenderHolders'
  <2> SUFFICES ASSUME NEW x \in Holders, NEW r \in Runtimes, Sender(r) \in held'[x]
      PROVE  \/ x = Build /\ runtime'[r] \in {"building", "launched"}
             \/ x = r /\ runtime'[r] \in {"ready", "closing"}
             \/ x \in Threads /\ thread'[x].of = r
    BY DEF SenderHolders
  <2>1. CASE x = w
    BY <1>3, <2>1, ObjectsDiffer
  <2>2. CASE x # w
    BY <1>3, <2>2 DEF SenderHolders
  <2>3. QED
    BY <2>1, <2>2
<1>8. OtherHolders'
  BY <1>3, <1>d DEF OtherHolders
<1>9. QED
  BY <1>2, <1>4, <1>5, <1>6, <1>7, <1>8

\* on_thread_start and on_thread_stop.
LEMMA ThreadsHolderInv ==
  ASSUME HolderInv, NEW w \in Threads,
         Upgrade(w) \/ SetGuards(w) \/ Stop(w) \/ \E r \in Runtimes : Start(w, r)
  PROVE  HolderInv'
<1> USE DEF HolderInv, HolderTypes
<1>0. w \in Holders /\ held[w] \subseteq alive /\ Runtimes \subseteq Holders
  BY DEF Holders
<1>1. ASSUME NEW q \in Runtimes, Start(w, q) PROVE HolderInv'
  <2>1. /\ runtime[q] \in {"launched", "ready"} /\ UNCHANGED runtime
        /\ Rehold(alive, [held EXCEPT ![w] = {Shared(q)}], filled)
    BY <1>1 DEF Start
  <2>2. {Shared(q)} \in SUBSET alive
    BY <1>0, <2>1 DEF RuntimeHolds
  <2>3. PICK c \in Places : c = [of |-> q, at |-> "starting"]
    BY DEF Places
  <2>4. Moves(w, c) /\ c.of = q /\ c.at = "starting"
    BY <1>1, <2>3 DEF Start, Moves, Places
  <2>5. \A p \in Runtimes :
          /\ Sender(p) \notin {Shared(q)} /\ Closure(p) \notin {Shared(q)}
          /\ Shared(p) \in {Shared(q)} => runtime[p] \notin {"none", "building", "failed"}
    BY <2>1, ObjectsDiffer
  <2>6. QED
    BY <2>1, <2>2, <2>4, <2>5, ThreadTakes
<1>r. PICK r \in Runtimes \union {None} : r = thread[w].of
  OBVIOUS
<1>2. ASSUME thread[w].at # "off"
      PROVE  /\ r \in Runtimes /\ Shared(r) \in held[w] /\ Shared(r) \in alive
             /\ runtime[r] \in {"launched", "ready", "closing"}
             /\ \A q \in Runtimes :
                  /\ Sender(q) \in held[w] => q = r
                  /\ Closure(q) \notin held[w]
                  /\ Shared(q) \in held[w] =>
                       runtime[q] \notin {"none", "building", "failed"}
  BY <1>0, <1>2, <1>r, DistinctHolders DEF ThreadHolds, SenderHolders, OtherHolders
<1>3. ASSUME thread' = [thread EXCEPT ![w] = [of |-> None, at |-> "off"]],
             UNCHANGED runtime, Rehold(alive, [held EXCEPT ![w] = {}], filled)
      PROVE  HolderInv'
  <2>1. PICK c \in Places : c = [of |-> None, at |-> "off"]
    BY DEF Places
  <2>2. Moves(w, c) /\ c.of = None /\ c.at = "off"
    BY <1>3, <2>1 DEF Moves, Places
  <2>3. PICK G \in SUBSET alive : G = {}
    OBVIOUS
  <2>4. Rehold(alive, [held EXCEPT ![w] = G], filled)
    BY <1>3, <2>3
  <2>5. /\ c.at = "off" => c.of = None /\ G = {}
        /\ c.at # "off" => FALSE
        /\ \A q \in Runtimes : Closure(q) \notin G /\ Shared(q) \notin G
    BY <2>2, <2>3
  <2>6. QED
    BY <1>3, <2>2, <2>4, <2>5, ThreadTakes
<1>4. CASE Upgrade(w)
  <2>1. CASE Sender(r) \in alive
    <3>1. /\ thread[w].at = "starting" /\ UNCHANGED runtime
          /\ thread' = [thread EXCEPT ![w].at = "upgraded"]
          /\ Rehold(alive, [held EXCEPT ![w] = held[w] \union {Sender(r)}], filled)
      BY <1>4, <1>r, <2>1 DEF Upgrade
    <3>2. PICK c \in Places : c = [of |-> r, at |-> "upgraded"]
      BY <1>2, <3>1 DEF Places
    <3>3. Moves(w, c) /\ c.of = r /\ c.at = "upgraded"
      BY <1>r, <3>1, <3>2 DEF Moves, Places
    <3>4. PICK G \in SUBSET alive : G = held[w] \union {Sender(r)}
      BY <1>0, <2>1
    <3>5. /\ Shared(r) \in G /\ runtime[r] \in {"launched", "ready", "closing"}
          /\ r \in Runtimes
          /\ \A q \in Runtimes :
               /\ Sender(q) \in G => q = r
               /\ Closure(q) \notin G
               /\ Shared(q) \in G => runtime[q] \notin {"none", "building", "failed"}
      BY <1>2, <3>1, <3>4, ObjectsDiffer
    <3>6. Rehold(alive, [held EXCEPT ![w] = G], filled)
      BY <3>1, <3>4
    <3>7. QED
      BY <3>1, <3>3, <3>5, <3>6, ThreadTakes
  <2>2. CASE Sender(r) \notin alive
    BY <1>3, <1>4, <1>r, <2>2 DEF Upgrade
  <2>3. QED
    BY <2>1, <2>2
<1>5. CASE SetGuards(w)
  <2>1. /\ thread[w].at = "upgraded" /\ UNCHANGED runtime
        /\ thread' = [thread EXCEPT ![w].at = "running"]
        /\ Rehold(alive, [held EXCEPT ![w] = {Shared(r)}], filled)
    BY <1>5, <1>r DEF SetGuards
  <2>2. PICK c \in Places : c = [of |-> r, at |-> "running"]
    BY <1>2, <2>1 DEF Places
  <2>3. Moves(w, c) /\ c.of = r /\ c.at = "running"
    BY <1>r, <2>1, <2>2 DEF Moves, Places
  <2>4. PICK G \in SUBSET alive : G = {Shared(r)}
    BY <1>2, <2>1
  <2>5. /\ Shared(r) \in G /\ runtime[r] \in {"launched", "ready", "closing"}
        /\ r \in Runtimes
        /\ \A q \in Runtimes :
             /\ Sender(q) \notin G /\ Closure(q) \notin G
             /\ Shared(q) \in G => runtime[q] \notin {"none", "building", "failed"}
    BY <1>2, <2>1, <2>4, ObjectsDiffer
  <2>6. Rehold(alive, [held EXCEPT ![w] = G], filled)
    BY <2>1, <2>4
  <2>7. QED
    BY <2>1, <2>3, <2>5, <2>6, ThreadTakes
<1>6. CASE Stop(w)
  BY <1>3, <1>6 DEF Stop
<1>7. QED
  BY <1>1, <1>4, <1>5, <1>6

\* What the program does: clones, and the end of a Runtime.
LEMMA ProgramHolderInv ==
  ASSUME HolderInv, NEW r \in Runtimes,
         Clone(r) \/ DropClones(r) \/ Close(r) \/ Drop(r)
  PROVE  HolderInv'
<1> USE DEF HolderInv, HolderTypes
<1>d. /\ {Builder, Build, Clones} \subseteq Holders /\ r \in Holders
      /\ Runtimes \subseteq Holders /\ Threads \subseteq Holders
      /\ Build # Clones /\ Builder # Clones
      /\ Threads \intersect (Runtimes \union {Builder, Build, Clones}) = {}
      /\ Runtimes \intersect {Builder, Build, Clones} = {}
  BY DistinctHolders DEF Holders
<1>1. ASSUME NEW G \in SUBSET alive,
             \A q \in Runtimes :
               /\ Sender(q) \notin G /\ Closure(q) \notin G
               /\ Shared(q) \in G => runtime[q] \notin {"none", "building", "failed"},
             UNCHANGED <<runtime, thread>>,
             Rehold(alive, [held EXCEPT ![Clones] = G], filled)
      PROVE  HolderInv'
  <2> DEFINE h == [held EXCEPT ![Clones] = G]
  <2>1. h \in [Holders -> SUBSET alive]
    OBVIOUS
  <2>2. /\ held' = h /\ filled' = filled
        /\ alive' \subseteq Objects /\ held' \in [Holders -> SUBSET alive']
        /\ Complete' /\ KeptExactly'
    BY <1>1, <2>1, ReholdSame
  <2>3. held'[Clones] = G /\ \A x \in Holders \ {Clones} : held'[x] = held[x]
    BY <2>2, <1>d
  <2>4. BuildHolds' /\ RuntimeHolds'
    BY <1>1, <2>3, <1>d DEF BuildHolds, RuntimeHolds
  <2>5. ThreadHolds'
    BY <1>1, <2>3, <1>d, ThreadsUntouched
  <2>6. SenderHolders'
    BY <1>1, <2>3, <1>d DEF SenderHolders
  <2>7. OtherHolders'
    BY <1>1, <2>3, <1>d DEF OtherHolders
  <2>8. QED
    BY <1>1, <2>2, <2>4, <2>5, <2>6, <2>7
<1>2. \A q \in Runtimes :
        /\ Sender(q) \notin held[Clones] /\ Closure(q) \notin held[Clones]
        /\ Shared(q) \in held[Clones] => runtime[q] \notin {"none", "building", "failed"}
  BY <1>d DEF SenderHolders, OtherHolders
<1>3. CASE Clone(r)
  <2>1. Shared(r) \in alive
    BY <1>3, <1>d DEF Clone, RuntimeHolds
  <2>2. held[Clones] \union {Shared(r)} \in SUBSET alive
    BY <2>1, <1>d
  <2>3. \A q \in Runtimes :
          LET G == held[Clones] \union {Shared(r)} IN
          /\ Sender(q) \notin G /\ Closure(q) \notin G
          /\ Shared(q) \in G => runtime[q] \notin {"none", "building", "failed"}
    BY <1>2, <1>3, ObjectsDiffer DEF Clone
  <2>4. QED
    BY <1>1, <1>3, <2>2, <2>3 DEF Clone
<1>4. CASE DropClones(r)
  <2>1. held[Clones] \ {Shared(r)} \in SUBSET alive
    BY <1>d
  <2>2. QED
    BY <1>1, <1>2, <1>4, <2>1 DEF DropClones
<1>5. CASE Close(r)
  <2>1. /\ runtime[r] = "ready" /\ runtime' = [runtime EXCEPT ![r] = "closing"]
        /\ UNCHANGED <<alive, filled, held, thread>>
    BY <1>5 DEF Close
  <2>2. HolderTypes' /\ BuildHolds' /\ RuntimeHolds'
    BY <2>1 DEF BuildHolds, RuntimeHolds
  <2>3. ThreadHolds'
    BY <2>1, ThreadsUntouched
  <2>4. SenderHolders' /\ OtherHolders' /\ Complete' /\ KeptExactly'
    <3>1. SenderHolders' /\ OtherHolders'
      BY <2>1 DEF SenderHolders, OtherHolders
    <3>2. Complete' /\ KeptExactly'
      BY <2>1 DEF Complete, KeptExactly, Reached
    <3>3. QED
      BY <3>1, <3>2
  <2>5. QED
    BY <2>2, <2>3, <2>4
<1>6. CASE Drop(r)
  <2> DEFINE h == [held EXCEPT ![r] = {}]
  <2>1. /\ runtime[r] = "closing" /\ \A w \in Threads : thread[w].of # r
        /\ runtime' = [runtime EXCEPT ![r] = "gone"] /\ UNCHANGED thread
        /\ Rehold(alive, h, filled)
    BY <1>6 DEF Drop
  <2>2. h \in [Holders -> SUBSET alive]
    OBVIOUS
  <2>3. /\ held' = h /\ filled' = filled
        /\ alive' \subseteq Objects /\ held' \in [Holders -> SUBSET alive']
        /\ Complete' /\ KeptExactly'
    BY <2>1, <2>2, ReholdSame
  <2>4. held'[r] = {} /\ \A x \in Holders \ {r} : held'[x] = held[x]
    BY <2>3, <1>d
  <2>5. HolderTypes'
    BY <2>1, <2>3
  <2>6. BuildHolds' /\ RuntimeHolds'
    BY <2>1, <2>4, <1>d DEF BuildHolds, RuntimeHolds
  <2>7. ThreadHolds'
    BY <2>1, <2>4, <1>d DEF ThreadHolds
  <2>8. SenderHolders'
    BY <2>1, <2>4, <1>d DEF SenderHolders
  <2>9. OtherHolders'
    BY <2>1, <2>4, <1>d DEF OtherHolders
  <2>10. QED
    BY <2>3, <2>5, <2>6, <2>7, <2>8, <2>9
<1>7. QED
  BY <1>3, <1>4, <1>5, <1>6

\* In every state of a builder and its runtimes the references are held as HolderInv
\* says.
THEOREM HolderInvCorrect == Spec => []HolderInv
<1>1. HolderInv /\ [Next]_vars => HolderInv'
  <2> SUFFICES ASSUME HolderInv, [Next]_vars PROVE HolderInv'
    OBVIOUS
  <2>1. CASE UNCHANGED vars
    <3>1. /\ HolderTypes' /\ BuildHolds' /\ RuntimeHolds' /\ ThreadHolds'
          /\ SenderHolders' /\ OtherHolders'
      BY <2>1 DEF vars, HolderInv, HolderTypes, BuildHolds, RuntimeHolds, ThreadHolds,
                  SenderHolders, OtherHolders
    <3>2. Complete' /\ KeptExactly'
      BY <2>1 DEF vars, HolderInv, Complete, KeptExactly, Reached
    <3>3. QED
      BY <3>1, <3>2 DEF HolderInv
  <2>2. ASSUME NEW r \in Runtimes,
               Prepare(r) \/ BuildFails(r) \/ Launch(r) \/ Publish(r)
        PROVE  HolderInv'
    BY <2>2, BuildingHolderInv
  <2>3. CASE DropBuilder
    <3>1. \E r \in Runtimes : TRUE
      <4>1. held[Builder] # {} /\ held[Builder] \subseteq Objects
        BY <2>3 DEF DropBuilder, HolderInv, HolderTypes, Holders
      <4>2. QED
        BY <4>1, ObjectsDiffer
    <3>2. QED
      BY <2>3, <3>1, BuildingHolderInv
  <2>4. ASSUME NEW w \in Threads,
               Upgrade(w) \/ SetGuards(w) \/ Stop(w) \/ \E r \in Runtimes : Start(w, r)
        PROVE  HolderInv'
    BY <2>4, ThreadsHolderInv
  <2>5. ASSUME NEW r \in Runtimes, Clone(r) \/ DropClones(r) \/ Close(r) \/ Drop(r)
        PROVE  HolderInv'
    BY <2>5, ProgramHolderInv
  <2>6. QED
    BY <2>1, <2>2, <2>3, <2>4, <2>5 DEF Next
<1>2. QED
  BY <1>1, InitHolderInv, PTL DEF Spec

\* No reference of either builder and its runtimes dangles.
THEOREM TypeCorrect == Spec => []TypeOK
<1>1. HolderInv => TypeOK
  BY DEF HolderInv, HolderTypes, TypeOK
<1>2. QED
  BY <1>1, HolderInvCorrect, PTL

\* The thread pool builder makes no cycle of references, however many runtimes
\* it builds and in whatever order everything is dropped.
THEOREM NoOrphansCorrect ==
  ASSUME Kind = "pool"
  PROVE  Spec => []NoOrphans
<1>1. HolderInv => NoOrphans
  BY DEF HolderInv, KeptExactly, NoOrphans, Looped
<1>2. QED
  BY <1>1, HolderInvCorrect, PTL

\* So when the program has let go of everything, the thread pool builder included,
\* nothing is left: what the current-thread builder fails to do.
THEOREM NothingKeptCorrect ==
  ASSUME Kind = "pool"
  PROVE  Spec => []NothingKeptAtLast
<1>1. NoOrphans => NothingKeptAtLast
  BY DEF NoOrphans, NothingKeptAtLast, Reached
<1>2. QED
  BY <1>1, NoOrphansCorrect, PTL

\* The current-thread builder makes a cycle with each runtime it builds: nothing of
\* that is ever freed.
THEOREM EveryBuildLeaks ==
  ASSUME Kind = "local"
  PROVE  Spec => [](\A r \in filled : Built(r) \subseteq alive)
<1>1. HolderInv => \A r \in filled : Built(r) \subseteq alive
  BY DEF HolderInv, KeptExactly, Looped
<1>2. QED
  BY <1>1, HolderInvCorrect, PTL

\* threadpool/mod.rs: once a Runtime is dropped, its compat_sender is deallocated.
THEOREM SenderFreedCorrect ==
  ASSUME Kind = "pool"
  PROVE  Spec => []SenderFreed
<1>1. HolderInv => SenderFreed
  <2> SUFFICES ASSUME HolderInv, NEW r \in Runtimes,
                      runtime[r] = "gone", Sender(r) \in alive
               PROVE  FALSE
    BY DEF SenderFreed
  <2>1. Held(held) \in SUBSET Objects
    BY DEF Held, HolderInv, HolderTypes
  <2>2. ASSUME NEW X \in SUBSET Objects
        PROVE  /\ Reached(X) \in SUBSET Objects
               /\ Sender(r) \in Reached(X) => Sender(r) \in X
    <3>1. ASSUME NEW x \in X, NEW c \in Children(x, filled)
          PROVE  c \in Objects /\ c # Sender(r)
      <4>1. PICK q \in Runtimes : x \in {Sender(q), Closure(q), Shared(q)}
        BY ObjectsDiffer
      <4>2. QED
        BY <3>1, <4>1, ChildrenOf, ObjectsDiffer
    <3>2. QED
      BY <2>2, <3>1 DEF Reached
  <2>3. Sender(r) \in Reached(Reached(Reached(Held(held))))
    BY DEF HolderInv, KeptExactly, Looped
  <2>4. Sender(r) \in Held(held)
    BY <2>1, <2>2, <2>3
  <2>5. PICK x \in Holders : Sender(r) \in held[x]
    BY <2>4 DEF Held
  <2>6. QED
    BY <2>5, DistinctHolders DEF HolderInv, SenderHolders, ThreadHolds, HolderTypes
<1>2. QED
  BY <1>1, HolderInvCorrect, PTL

\* No thread of either kind of runtime starts too late for compat_sender: in the
\* thread pool build() holds it and then the Runtime, which waits for its threads;
\* in the other the thread itself does, through the handle and the closure.
THEOREM UpgradeSucceedsCorrect == Spec => []UpgradeSucceeds
<1>1. HolderInv => UpgradeSucceeds
  <2> SUFFICES ASSUME HolderInv, NEW w \in Threads, thread[w].at = "starting"
               PROVE  Sender(thread[w].of) \in alive
    BY DEF UpgradeSucceeds
  <2>1. PICK r \in Runtimes : r = thread[w].of
    BY DEF HolderInv, ThreadHolds
  <2>2. Shared(r) \in held[w] /\ runtime[r] \in {"launched", "ready", "closing"}
    BY <2>1 DEF HolderInv, ThreadHolds
  <2>3. \A x \in Holders : held[x] \subseteq alive
    BY DEF HolderInv, HolderTypes
  <2>4. CASE Kind = "pool"
    <3>1. Sender(r) \in held[Build] \/ Sender(r) \in held[r]
      BY <2>2, <2>4 DEF HolderInv, BuildHolds, RuntimeHolds
    <3>2. QED
      BY <2>1, <2>3, <3>1 DEF Holders
  <2>5. CASE Kind # "pool"
    <3>1. Shared(r) \in alive
      BY <2>2, <2>3 DEF Holders
    <3>2. Closure(r) \in alive
      BY <3>1, ChildrenOf DEF HolderInv, Complete
    <3>3. Sender(r) \in alive
      BY <2>5, <3>2, ChildrenOf DEF HolderInv, Complete
    <3>4. QED
      BY <2>1, <3>3
  <2>6. QED
    BY <2>4, <2>5
<1>2. QED
  BY <1>1, HolderInvCorrect, PTL
=============================================================================
