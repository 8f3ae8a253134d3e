----------------------------- MODULE PoolProofs ------------------------------
(***************************************************************************)
(* Accounts is an invariant of RequestPath: the control socket of httpd    *)
(* has room for every item, and no slot, job or chunk is forgotten.        *)
(***************************************************************************)
EXTENDS RequestPathProofs, PoolInvariant

-----------------------------------------------------------------------------
(***************************************************************************)
(* Queues of work items.                                                   *)
(***************************************************************************)

\* The oldest item, no close of a session left unmatched, is taken.
LEMMA MatchedTail ==
  ASSUME NEW q \in Seq(WorkItem), q # <<>>, Matched(q, FALSE)
  PROVE  Matched(Tail(q), FALSE)
<1> SUFFICES ASSUME NEW i \in DOMAIN Tail(q), EndsAt(Tail(q), i)
             PROVE  \E j \in DOMAIN Tail(q) : Follows(Tail(q), i, j)
  BY DEF Matched
<1>1. /\ DOMAIN Tail(q) = 1..(Len(q) - 1) /\ DOMAIN q = 1..Len(q)
      /\ Len(q) \in Nat \ {0}
      /\ \A m \in DOMAIN Tail(q) : m + 1 \in DOMAIN q /\ Tail(q)[m] = q[m + 1]
  BY TailElements
<1>2. PICK j \in DOMAIN q : Follows(q, i + 1, j)
  <2>1. i + 1 \in DOMAIN q /\ EndsAt(q, i + 1)
    BY <1>1 DEF EndsAt
  <2> QED BY <2>1 DEF Matched
<1>3. PICK k \in DOMAIN Tail(q) : j = k + 1
  <2>1. i \in Nat /\ j \in Nat /\ i + 1 < j /\ i >= 1 /\ j <= Len(q)
    BY <1>1, <1>2 DEF Follows
  <2>2. j - 1 \in DOMAIN Tail(q) /\ j = (j - 1) + 1
    BY <1>1, <2>1
  <2> QED BY <2>2
<1>4. i < k /\ FreesAt(Tail(q), k)
  BY <1>1, <1>2, <1>3 DEF Follows, FreesAt
<1>5. ASSUME NEW m \in DOMAIN Tail(q), i < m, m < k
      PROVE  ~EndsAt(Tail(q), m) /\ ~FreesAt(Tail(q), m)
  <2>1. m + 1 \in DOMAIN q /\ i + 1 < m + 1 /\ m + 1 < j /\ Tail(q)[m] = q[m + 1]
    BY <1>1, <1>3, <1>5
  <2> QED BY <1>2, <2>1 DEF Follows, Apart, EndsAt, FreesAt
<1> QED BY <1>3, <1>4, <1>5 DEF Follows, Apart

\* What holds with nothing pending holds with a finalize item pending.
LEMMA MatchedPending ==
  ASSUME NEW q, Matched(q, FALSE), NEW b PROVE Matched(q, b)
BY DEF Matched

\* Items appended do not come between those that were queued.
LEMMA ApartAppend ==
  ASSUME NEW q \in Seq(WorkItem), NEW w \in WorkItem
  PROVE  \A i, j \in DOMAIN q : Follows(q, i, j) => Follows(Append(q, w), i, j)
<1> SUFFICES ASSUME NEW i \in DOMAIN q, NEW j \in DOMAIN q, Follows(q, i, j)
             PROVE  Follows(Append(q, w), i, j)
  OBVIOUS
<1>1. /\ DOMAIN q = 1..Len(q) /\ DOMAIN Append(q, w) = 1..(Len(q) + 1)
      /\ Len(q) \in Nat
      /\ \A m \in DOMAIN q : m \in DOMAIN Append(q, w) /\ Append(q, w)[m] = q[m]
  BY AppendElements
<1>2. \A m \in DOMAIN Append(q, w) : m < j => m \in DOMAIN q
  BY <1>1
<1> QED BY <1>1, <1>2 DEF Follows, Apart, EndsAt, FreesAt

\* A data or close item is queued.
LEMMA MatchedAppend ==
  ASSUME NEW q \in Seq(WorkItem), NEW w \in WorkItem, NEW b \in BOOLEAN,
         Matched(q, b), w.fn \in {"data", "close"}
  PROVE  Matched(Append(q, w), b)
<1> DEFINE r == Append(q, w)
<1>1. /\ DOMAIN q = 1..Len(q) /\ DOMAIN r = 1..(Len(q) + 1) /\ Len(q) \in Nat
      /\ \A m \in DOMAIN q : m \in DOMAIN r /\ r[m] = q[m]
      /\ r[Len(q) + 1] = w /\ Len(r) = Len(q) + 1
  BY AppendElements
<1> SUFFICES ASSUME NEW i \in DOMAIN r, EndsAt(r, i)
             PROVE  \/ \E j \in DOMAIN r : Follows(r, i, j)
                    \/ b /\ Apart(r, i, Len(r) + 1)
  BY DEF Matched
<1>2. i \in DOMAIN q /\ EndsAt(q, i)
  BY <1>1 DEF EndsAt
<1>3. CASE \E j \in DOMAIN q : Follows(q, i, j)
  BY <1>1, <1>2, <1>3, ApartAppend
<1>4. CASE b /\ Apart(q, i, Len(q) + 1)
  <2>1. \A m \in DOMAIN r : i < m /\ m < Len(r) + 1 =>
          ~EndsAt(r, m) /\ ~FreesAt(r, m)
    BY <1>1, <1>4 DEF Apart, EndsAt, FreesAt
  <2> QED BY <1>4, <2>1 DEF Apart
<1> QED BY <1>2, <1>3, <1>4 DEF Matched

\* The pending finalize item is queued.
LEMMA MatchedFinalize ==
  ASSUME NEW q \in Seq(WorkItem), NEW w \in WorkItem, NEW b \in BOOLEAN,
         Matched(q, b), w.fn = "finalize"
  PROVE  Matched(Append(q, w), FALSE)
<1> DEFINE r == Append(q, w)
<1>1. /\ DOMAIN q = 1..Len(q) /\ DOMAIN r = 1..(Len(q) + 1) /\ Len(q) \in Nat
      /\ \A m \in DOMAIN q : m \in DOMAIN r /\ r[m] = q[m]
      /\ r[Len(q) + 1] = w
  BY AppendElements
<1> SUFFICES ASSUME NEW i \in DOMAIN r, EndsAt(r, i)
             PROVE  \E j \in DOMAIN r : Follows(r, i, j)
  BY DEF Matched
<1>2. i \in DOMAIN q /\ EndsAt(q, i)
  BY <1>1 DEF EndsAt
<1>3. CASE \E j \in DOMAIN q : Follows(q, i, j)
  BY <1>1, <1>2, <1>3, ApartAppend
<1>4. CASE Apart(q, i, Len(q) + 1)
  <2>1. Len(q) + 1 \in DOMAIN r /\ i < Len(q) + 1 /\ FreesAt(r, Len(q) + 1)
    BY <1>1, <1>2 DEF FreesAt
  <2>2. \A m \in DOMAIN r : i < m /\ m < Len(q) + 1 =>
          ~EndsAt(r, m) /\ ~FreesAt(r, m)
    BY <1>1, <1>4 DEF Apart, EndsAt, FreesAt
  <2> QED BY <2>1, <2>2 DEF Follows, Apart
<1> QED BY <1>2, <1>3, <1>4 DEF Matched

\* The close of a session is queued, its finalize item to follow.
LEMMA MatchedEnd ==
  ASSUME NEW q \in Seq(WorkItem), NEW w \in WorkItem, Matched(q, FALSE)
  PROVE  w.fn = "sessClose" => Matched(Append(q, w), TRUE)
<1> SUFFICES ASSUME w.fn = "sessClose" PROVE Matched(Append(q, w), TRUE)
  OBVIOUS
<1> DEFINE r == Append(q, w)
<1>1. /\ DOMAIN q = 1..Len(q) /\ DOMAIN r = 1..(Len(q) + 1) /\ Len(q) \in Nat
      /\ \A m \in DOMAIN q : m \in DOMAIN r /\ r[m] = q[m]
      /\ Len(r) = Len(q) + 1
  BY AppendElements
<1> SUFFICES ASSUME NEW i \in DOMAIN r, EndsAt(r, i)
             PROVE  \/ \E j \in DOMAIN r : Follows(r, i, j)
                    \/ Apart(r, i, Len(r) + 1)
  BY DEF Matched
<1>2. CASE i \in DOMAIN q
  <2>1. EndsAt(q, i)
    BY <1>1, <1>2 DEF EndsAt
  <2> QED BY <1>1, <1>2, <2>1, ApartAppend DEF Matched
<1>3. CASE i = Len(q) + 1
  BY <1>1, <1>3 DEF Apart
<1> QED BY <1>1, <1>2, <1>3

-----------------------------------------------------------------------------
(***************************************************************************)
(* Counting the items: each has a place of its own, a job's, the first of  *)
(* a slot (its close or finalize item) or the second (the close of its     *)
(* session).                                                               *)
(***************************************************************************)
Places == (Jobs \X {1}) \cup (Slots \X {2, 3})

\* The slot whose session the item at place i of the queue ends.
EndedSlot(i) ==
  IF \E j \in DOMAIN work : Follows(work, i, j)
    THEN work[CHOOSE j \in DOMAIN work : Follows(work, i, j)].arg
    ELSE httpd.slot

Place(i) ==
  CASE work[i].fn = "data"                   -> <<work[i].arg, 1>>
    [] work[i].fn \in {"close", "finalize"}  -> <<work[i].arg, 2>>
    [] work[i].fn = "sessClose"              -> <<EndedSlot(i), 3>>

\* There are as many places as jobs and twice as many as slots.
LEMMA PlacesCounted ==
  /\ IsFiniteSet(Places)
  /\ Cardinality(Places) = Cardinality(Jobs) + 2 * Cardinality(Slots)
  /\ Cardinality(Jobs) \in Nat /\ Cardinality(Slots) \in Nat
<1>1. /\ IsFiniteSet(Jobs) /\ Cardinality(Jobs) \in Nat
      /\ IsFiniteSet(Slots) /\ Cardinality(Slots) \in Nat
  BY FS_CardinalityType, JobPool, DelegateFits
<1>2. IsFiniteSet({1}) /\ Cardinality({1}) = 1
  BY FS_Singleton
<1>3. IsFiniteSet({2, 3}) /\ Cardinality({2, 3}) = 2
  <2>1. IsFiniteSet({2}) /\ Cardinality({2}) = 1
    BY FS_Singleton
  <2>2. {2} \cup {3} = {2, 3} /\ 3 \notin {2}
    OBVIOUS
  <2> QED BY <2>1, <2>2, FS_AddElement
<1>4. IsFiniteSet(Jobs \X {1}) /\ Cardinality(Jobs \X {1}) = Cardinality(Jobs)
  <2>1. IsFiniteSet(Jobs \X {1})
        /\ Cardinality(Jobs \X {1}) = Cardinality(Jobs) * Cardinality({1})
    BY <1>1, <1>2, FS_Product
  <2> QED BY <1>1, <1>2, <2>1
<1>5. IsFiniteSet(Slots \X {2, 3})
      /\ Cardinality(Slots \X {2, 3}) = 2 * Cardinality(Slots)
  <2>1. IsFiniteSet(Slots \X {2, 3})
        /\ Cardinality(Slots \X {2, 3}) = Cardinality(Slots) * Cardinality({2, 3})
    BY <1>1, <1>3, FS_Product
  <2> QED BY <1>1, <1>3, <2>1
<1>6. (Jobs \X {1}) \cap (Slots \X {2, 3}) = {}
  OBVIOUS
<1>7. Cardinality({}) = 0
  BY FS_EmptySet
<1>8. IsFiniteSet(Places)
      /\ Cardinality(Places) = Cardinality(Jobs \X {1})
           + Cardinality(Slots \X {2, 3}) - Cardinality({})
  BY <1>4, <1>5, <1>6, FS_Union DEF Places
<1> QED BY <1>1, <1>4, <1>5, <1>7, <1>8

\* The items of a queue in use.
LEMMA ItemsTyped ==
  ASSUME IInv
  PROVE  /\ work \in Seq(WorkItem) /\ Len(work) \in Nat
         /\ DOMAIN work = 1..Len(work)
         /\ \A i \in DOMAIN work :
              /\ work[i] \in WorkItem
              /\ work[i].fn = "data" => work[i].arg \in QueuedJobs
              /\ work[i].fn = "close" => work[i].arg \in Held("close")
              /\ work[i].fn = "finalize" => work[i].arg \in Held("finalize")
<1>1. work \in Seq(WorkItem)
  BY DEF IInv, TypeOK, ServerTypeOK
<1>2. \A i \in DOMAIN work : work[i] \in Range(work) /\ work[i] \in WorkItem
  BY <1>1 DEF Range
<1> QED BY <1>1, <1>2, HeldIs DEF QueuedJobs, WorkSlots

\* The slot of a session that an item ends has a finalize item, or httpd is
\* about to queue it.
LEMMA EndedHeld ==
  ASSUME IInv, Paired, NEW i \in DOMAIN work, EndsAt(work, i)
  PROVE  /\ EndedSlot(i) \in Slots
         /\ \/ \E j \in DOMAIN work : /\ Follows(work, i, j)
                                      /\ EndedSlot(i) = work[j].arg
                                      /\ EndedSlot(i) \in Held("finalize")
            \/ /\ EndedSlot(i) \in Held("httpd")
               /\ Apart(work, i, Len(work) + 1)
<1>1. CASE \E j \in DOMAIN work : Follows(work, i, j)
  <2>1. PICK j \in DOMAIN work :
          Follows(work, i, j) /\ EndedSlot(i) = work[j].arg
    BY <1>1 DEF EndedSlot
  <2>2. work[j] \in WorkItem /\ work[j].fn = "finalize"
        /\ work[j].arg \in Held("finalize")
    BY <2>1, ItemsTyped DEF Follows, FreesAt
  <2> QED BY <2>1, <2>2 DEF WorkItem
<1>2. CASE ~\E j \in DOMAIN work : Follows(work, i, j)
  <2>1. httpd.at = "queueFinalize" /\ Apart(work, i, Len(work) + 1)
        /\ EndedSlot(i) = httpd.slot
    BY <1>2 DEF Paired, Matched, EndedSlot
  <2>2. httpd.slot \in Slots /\ httpd.slot \in Held("httpd")
    BY <2>1, HeldIs DEF IInv, Shape, TypeOK, ServerTypeOK
  <2> QED BY <2>1, <2>2
<1> QED BY <1>1, <1>2

\* No two items end the session of one slot.
LEMMA EndedOnce ==
  ASSUME IInv, Paired, NEW i \in DOMAIN work, NEW j \in DOMAIN work,
         EndsAt(work, i), EndsAt(work, j), i < j
  PROVE  EndedSlot(i) # EndedSlot(j)
<1>1. i \in Nat /\ j \in Nat /\ j <= Len(work) /\ Len(work) \in Nat
  BY ItemsTyped
<1>2. ~Apart(work, i, Len(work) + 1)
  BY <1>1 DEF Apart
<1>3. PICK a \in DOMAIN work : /\ Follows(work, i, a)
                               /\ EndedSlot(i) = work[a].arg
                               /\ EndedSlot(i) \in Held("finalize")
  BY <1>2, EndedHeld
<1>4. a < j
  <2>1. a \in Nat /\ ~(i < j /\ j < a) /\ a # j
    BY <1>3, ItemsTyped DEF Follows, Apart, EndsAt, FreesAt
  <2> QED BY <1>1, <2>1
<1>5. CASE EndedSlot(j) \in Held("httpd")
  BY <1>3, <1>5 DEF IInv, SlotOwnership, HeldApart, Holders
<1>6. ASSUME NEW b \in DOMAIN work, Follows(work, j, b),
             EndedSlot(j) = work[b].arg
      PROVE  EndedSlot(i) # EndedSlot(j)
  <2>1. a # b /\ work[a].fn = "finalize" /\ work[b].fn = "finalize"
    BY <1>1, <1>3, <1>4, <1>6, ItemsTyped DEF Follows, FreesAt
  <2>2. work[a] # work[b]
    BY <2>1 DEF IInv, SlotOwnership, WorkOnce
  <2>3. work[a].arg # work[b].arg
    BY <2>1, <2>2, ItemsTyped DEF WorkItem
  <2> QED BY <1>3, <1>6, <2>3
<1> QED BY <1>5, <1>6, EndedHeld

\* Each item has a place, and no two have the same.
LEMMA PlacesOnce ==
  ASSUME IInv, Paired
  PROVE  /\ \A i \in DOMAIN work : Place(i) \in Places
         /\ \A i, j \in DOMAIN work : Place(i) = Place(j) => i = j
<1>1. \A i \in DOMAIN work :
        \/ /\ work[i].fn = "data" /\ work[i].arg \in Jobs
           /\ Place(i) = <<work[i].arg, 1>>
        \/ /\ work[i].fn \in {"close", "finalize"} /\ work[i].arg \in Slots
           /\ Place(i) = <<work[i].arg, 2>>
        \/ /\ EndsAt(work, i) /\ EndedSlot(i) \in Slots
           /\ Place(i) = <<EndedSlot(i), 3>>
  <2> SUFFICES ASSUME NEW i \in DOMAIN work
               PROVE  \/ /\ work[i].fn = "data" /\ work[i].arg \in Jobs
                         /\ Place(i) = <<work[i].arg, 1>>
                      \/ /\ work[i].fn \in {"close", "finalize"}
                         /\ work[i].arg \in Slots
                         /\ Place(i) = <<work[i].arg, 2>>
                      \/ /\ EndsAt(work, i) /\ EndedSlot(i) \in Slots
                         /\ Place(i) = <<EndedSlot(i), 3>>
    OBVIOUS
  <2>1. work[i] \in WorkItem
    BY ItemsTyped
  <2>2. CASE work[i].fn = "data"
    BY <2>1, <2>2 DEF WorkItem, Place
  <2>3. CASE work[i].fn \in {"close", "finalize"}
    BY <2>1, <2>3 DEF WorkItem, Place
  <2>4. CASE work[i].fn = "sessClose"
    BY <2>4, EndedHeld DEF EndsAt, Place
  <2> QED BY <2>1, <2>2, <2>3, <2>4 DEF WorkItem
<1>2. \A i \in DOMAIN work : Place(i) \in Places
  BY <1>1 DEF Places
<1>3. ASSUME NEW i \in DOMAIN work, NEW j \in DOMAIN work, Place(i) = Place(j)
      PROVE  i = j
  <2>1. CASE work[i].fn = "data"
    <3>1. work[j].fn = "data" /\ work[i].arg = work[j].arg
      BY <1>1, <1>3, <2>1 DEF EndsAt
    <3> QED BY <2>1, <3>1, PoolOwnershipIs
            DEF IInv, Jobbing, Pooled, DataItems
  <2>2. CASE work[i].fn \in {"close", "finalize"}
    <3>1. work[j].fn \in {"close", "finalize"} /\ work[i].arg = work[j].arg
      BY <1>1, <1>3, <2>2 DEF EndsAt
    <3>2. work[i].fn = work[j].fn
      BY <2>2, <3>1, ItemsTyped DEF IInv, SlotOwnership, HeldApart, Holders
    <3>3. work[i] = work[j]
      BY <2>2, <3>1, <3>2, ItemsTyped DEF WorkItem
    <3> QED BY <2>2, <3>3 DEF IInv, SlotOwnership, WorkOnce
  <2>3. CASE EndsAt(work, i)
    <3>1. EndsAt(work, j) /\ EndedSlot(i) = EndedSlot(j)
      BY <1>1, <1>3, <2>3 DEF EndsAt
    <3>2. i \in Nat /\ j \in Nat
      BY ItemsTyped
    <3>3. ~(i < j) /\ ~(j < i)
      BY <2>3, <3>1, EndedOnce
    <3> QED BY <3>2, <3>3
  <2> QED BY <1>1, <2>1, <2>2, <2>3
<1> QED BY <1>2, <1>3

\* So the queue is shorter than the places by those that no item has.
LEMMA PlacesFree ==
  ASSUME IInv, Paired, NEW free \in SUBSET Places,
         \A i \in DOMAIN work : Place(i) \notin free
  PROVE  Len(work) + Cardinality(free)
           <= Cardinality(Jobs) + 2 * Cardinality(Slots)
<1> DEFINE items == 1..Len(work)
           taken == Places \ free
           f == [i \in items |-> Place(i)]
<1>1. items = DOMAIN work /\ Len(work) \in Nat
  BY ItemsTyped
<1>2. f \in [items -> taken]
  BY <1>1, PlacesOnce
<1>3. \A i, j \in items : f[i] = f[j] => i = j
  BY <1>1, PlacesOnce
<1>4. /\ IsFiniteSet(taken) /\ IsFiniteSet(free)
      /\ Cardinality(free) \in Nat /\ Cardinality(taken) \in Nat
      /\ Cardinality(taken) = Cardinality(Places) - Cardinality(free)
  <2>1. IsFiniteSet(taken)
        /\ Cardinality(taken) = Cardinality(Places) - Cardinality(Places \cap free)
    BY PlacesCounted, FS_Difference
  <2>2. Places \cap free = free
    OBVIOUS
  <2>3. IsFiniteSet(free)
    BY PlacesCounted, FS_Subset
  <2>4. Cardinality(free) \in Nat /\ Cardinality(taken) \in Nat
    BY <2>1, <2>3, FS_CardinalityType
  <2> QED BY <2>1, <2>2, <2>3, <2>4
<1>5. IsFiniteSet(items) /\ Cardinality(items) = Len(work)
  <2>1. IsFiniteSet(items)
        /\ Cardinality(items) = IF 1 > Len(work) THEN 0 ELSE Len(work) - 1 + 1
    BY <1>1, FS_Interval
  <2> QED BY <1>1, <2>1
<1>6. ~(Cardinality(taken) < Cardinality(items))
  <2> HIDE DEF items, taken, f
  <2> QED BY <1>2, <1>3, <1>4, <1>5, FS_PigeonHole
<1> QED BY <1>1, <1>4, <1>5, <1>6, PlacesCounted

\* One place is free: that of a job, when no data is queued, or the second of
\* the slot of the data queued, as its session has not been closed.
LEMMA OneFree ==
  ASSUME IInv, Paired, StreamsHeld
  PROVE  \E x \in Places : x[2] # 2 /\ \A i \in DOMAIN work : Place(i) # x
<1>1. CASE \E i \in DOMAIN work : work[i].fn = "data"
  <2>1. PICK s \in Held("delegate") \cup Held("close") :
          \E i \in DOMAIN work : work[i].fn = "data"
            /\ s = jobData[work[i].arg].slot
    BY <1>1, ItemsTyped DEF StreamsHeld
  <2>2. s \in Slots
    BY <2>1 DEF IInv, Jobbing, DataItems, DataSlot
  <2>3. s \notin Held("finalize") /\ s \notin Held("httpd")
    BY <2>1 DEF IInv, SlotOwnership, HeldApart, Holders
  <2>4. \A i \in DOMAIN work : EndsAt(work, i) => EndedSlot(i) # s
    BY <2>3, EndedHeld
  <2>5. \A i \in DOMAIN work : Place(i) # <<s, 3>>
    BY <2>4, ItemsTyped DEF Place, EndsAt, WorkItem
  <2>6. <<s, 3>> \in Places
    BY <2>2 DEF Places
  <2> QED BY <2>5, <2>6
<1>2. CASE \A i \in DOMAIN work : work[i].fn # "data"
  <2>1. PICK j \in Jobs : TRUE
    BY JobPool
  <2>2. \A i \in DOMAIN work : Place(i) # <<j, 1>>
    BY <1>2, ItemsTyped DEF Place, WorkItem
  <2>3. <<j, 1>> \in Places
    BY DEF Places
  <2> QED BY <2>2, <2>3
<1> QED BY <1>1, <1>2

\* The bound of WorkBound holds in every state the node can be in.
LEMMA QueueBound ==
  ASSUME IInv, Paired, StreamsHeld
  PROVE  Len(work) + 1 <= Cardinality(Jobs) + 2 * Cardinality(Slots)
<1>1. PICK x \in Places : \A i \in DOMAIN work : Place(i) # x
  BY OneFree
<1>2. IsFiniteSet({x}) /\ Cardinality({x}) = 1
  BY FS_Singleton
<1>3. {x} \in SUBSET Places /\ \A i \in DOMAIN work : Place(i) \notin {x}
  BY <1>1
<1>4. Len(work) + Cardinality({x})
        <= Cardinality(Jobs) + 2 * Cardinality(Slots)
  BY <1>3, PlacesFree
<1> QED BY <1>2, <1>4

\* The cardinality of two places.
LEMMA TwoFree ==
  ASSUME IInv, Paired, NEW x \in Places, NEW y \in Places, x # y,
         \A i \in DOMAIN work : Place(i) # x /\ Place(i) # y
  PROVE  Len(work) + 2 <= Cardinality(Jobs) + 2 * Cardinality(Slots)
<1>1. IsFiniteSet({x}) /\ Cardinality({x}) = 1
  BY FS_Singleton
<1>2. {x} \cup {y} = {x, y} /\ y \notin {x}
  OBVIOUS
<1>3. Cardinality({x, y}) = 2
  BY <1>1, <1>2, FS_AddElement
<1>4. {x, y} \in SUBSET Places /\ \A i \in DOMAIN work : Place(i) \notin {x, y}
  OBVIOUS
<1>5. Len(work) + Cardinality({x, y})
        <= Cardinality(Jobs) + 2 * Cardinality(Slots)
  BY <1>4, PlacesFree
<1> QED BY <1>3, <1>5

\* There is room for the finalize item that httpd queues.
LEMMA RoomToFinalize ==
  ASSUME IInv, Paired, StreamsHeld, httpd.at = "queueFinalize"
  PROVE  Len(work) + 2 <= Cardinality(Jobs) + 2 * Cardinality(Slots)
<1>1. PICK x \in Places : x[2] # 2 /\ \A i \in DOMAIN work : Place(i) # x
  BY OneFree
<1> DEFINE y == <<httpd.slot, 2>>
<1>2. httpd.slot \in Slots /\ httpd.slot \in Held("httpd")
  BY HeldIs DEF IInv, Shape, TypeOK, ServerTypeOK
<1>3. httpd.slot \notin Held("close") /\ httpd.slot \notin Held("finalize")
  BY <1>2 DEF IInv, SlotOwnership, HeldApart, Holders
<1>4. \A i \in DOMAIN work : Place(i) # y
  BY <1>3, ItemsTyped DEF Place, WorkItem
<1>5. y \in Places /\ y # x
  BY <1>1, <1>2 DEF Places
<1> QED BY <1>1, <1>4, <1>5, TwoFree

\* There is room for what the delegate task queues.
LEMMA RoomForDelegate ==
  ASSUME IInv, Paired, delegate.slot # None
  PROVE  Len(work) + 2 <= Cardinality(Jobs) + 2 * Cardinality(Slots)
<1> DEFINE x == <<delegate.slot, 2>>
           y == <<delegate.slot, 3>>
<1>1. delegate.slot \in Slots /\ delegate.slot \in Held("delegate")
  BY HeldIs DEF IInv, TypeOK, TaskTypeOK
<1>2. \A h \in {"httpd", "close", "finalize"} : delegate.slot \notin Held(h)
  BY <1>1 DEF IInv, SlotOwnership, HeldApart, Holders
<1>3. \A i \in DOMAIN work : Place(i) # x
  BY <1>2, ItemsTyped DEF Place, WorkItem
<1>4. \A i \in DOMAIN work : EndsAt(work, i) => EndedSlot(i) # delegate.slot
  BY <1>2, EndedHeld
<1>5. \A i \in DOMAIN work : Place(i) # y
  BY <1>4, ItemsTyped DEF Place, EndsAt, WorkItem
<1>6. x \in Places /\ y \in Places /\ x # y
  BY <1>1 DEF Places
<1> QED BY <1>3, <1>5, <1>6, TwoFree

-----------------------------------------------------------------------------
(***************************************************************************)
(* The steps, one kind after the other: jobs and chunks.                   *)
(***************************************************************************)

\* What a step that takes the oldest item leaves of the items of a kind.
LEMMA ItemsTaken ==
  ASSUME TypeOK, work # <<>>, work' = Tail(work), NEW fn
  PROVE  WorkSlots(fn) = WorkSlots(fn)' \cup
           (IF Head(work).fn = fn THEN {Head(work).arg} ELSE {})
<1>1. Range(work) = {Head(work)} \cup Range(work')
  BY TailRange DEF TypeOK, ServerTypeOK
<1> QED BY <1>1 DEF WorkSlots

\* What a step that queues item w adds to the items of a kind.
LEMMA ItemsQueued ==
  ASSUME TypeOK, NEW w \in WorkItem, work' = Append(work, w), NEW fn
  PROVE  WorkSlots(fn)' = WorkSlots(fn) \cup
           (IF w.fn = fn THEN {w.arg} ELSE {})
<1>1. Range(work') = Range(work) \cup {w}
  BY AppendRange DEF TypeOK, ServerTypeOK
<1> QED BY <1>1 DEF WorkSlots

\* What the type and job invariants say of a queued job.
LEMMA QueuedAre ==
  ASSUME IInv
  PROVE  \A j \in QueuedJobs :
           \E i \in DataItems : work[i].arg = j
<1> SUFFICES ASSUME NEW j \in QueuedJobs PROVE \E i \in DataItems : work[i].arg = j
  OBVIOUS
<1>1. PICK w \in Range(work) : w.fn = "data" /\ w.arg = j
  BY DEF QueuedJobs, WorkSlots
<1>2. PICK i \in DOMAIN work : work[i] = w
  BY <1>1, ItemsTyped DEF Range
<1> QED BY <1>1, <1>2 DEF DataItems

\* A queued job is no other task's, and it is a job.
LEMMA QueuedApart ==
  ASSUME IInv
  PROVE  \A j \in QueuedJobs : j \in Jobs /\ j # httpd.job /\ j # chunkCall.job
BY QueuedAre, ItemsAreJobs, PoolOwnershipIs DEF IInv, Jobbing, Pooled

\* A step that leaves the queue alone, and the ends of sessions.
LEMMA StillStocked ==
  ASSUME Stocked, work' = work,
         \A j \in QueuedJobs : jobData'[j] = jobData[j],
         httpd.at = "queueFinalize" => httpd'.at = "queueFinalize",
         delegate.slot # None => delegate'.slot = delegate.slot,
         Roomy /\ JobsHeld => JobsHeld',
         Roomy /\ ChunksHeld => ChunksHeld'
  PROVE  Stocked'
<1>1. QueuedJobs' = QueuedJobs /\ WorkSlots("close")' = WorkSlots("close")
  BY DEF QueuedJobs, WorkSlots
<1>2. StreamsHeld => StreamsHeld'
  BY <1>1, HeldIs, HeldIsNext DEF StreamsHeld
<1>3. Paired => Paired'
  BY MatchedPending DEF Paired, Matched, Apart, Follows, EndsAt, FreesAt
<1>4. Len(work') <= WorkCap
  BY DEF Stocked
<1> QED BY <1>2, <1>3, <1>4 DEF Stocked, Roomy

\* A step that leaves the jobs and chunks alone, too.
LEMMA Elsewhere ==
  ASSUME Stocked, UNCHANGED <<work, jobData, usedJobs, usedChunks>>,
         chunkCall'.job = chunkCall.job, chunkCall'.chunk = chunkCall.chunk,
         httpd'.job = httpd.job,
         httpd.at = "queueFinalize" => httpd'.at = "queueFinalize",
         delegate.slot # None => delegate'.slot = delegate.slot
  PROVE  Stocked'
<1>1. QueuedJobs' = QueuedJobs
  BY DEF QueuedJobs, WorkSlots
<1>2. JobsHeld => JobsHeld'
  BY <1>1 DEF JobsHeld
<1>3. ChunksHeld => ChunksHeld'
  BY <1>1 DEF ChunksHeld
<1> QED BY <1>2, <1>3, StillStocked

\* The rest of the data worker: the job it ran is free.
LEMMA EndDataStocked ==
  ASSUME IInv, Stocked, EndData, UNCHANGED taskVars PROVE Stocked'
<1>1. /\ UNCHANGED <<work, usedChunks, chunkCall, delegate>>
      /\ httpd.at = "freeJob" /\ httpd' = IdleTask
      /\ usedJobs' = usedJobs \ {httpd.job}
      /\ jobData' = [jobData EXCEPT ![httpd.job] = [slot |-> None, chunk |-> None]]
  BY DEF EndData, FreeJob, taskVars
<1>2. \A j \in QueuedJobs : jobData'[j] = jobData[j]
  BY <1>1, QueuedApart DEF IInv, TypeOK, ServerTypeOK
<1>3. QueuedJobs' = QueuedJobs
  BY <1>1 DEF QueuedJobs, WorkSlots
<1>4. JobsHeld => JobsHeld'
  BY <1>1, <1>3 DEF JobsHeld
<1>5. ChunksHeld => ChunksHeld'
  <2>1. {jobData'[j].chunk : j \in QueuedJobs} = {jobData[j].chunk : j \in QueuedJobs}
    BY <1>2
  <2> QED BY <1>1, <1>3, <2>1 DEF ChunksHeld
<1> QED BY <1>1, <1>2, <1>4, <1>5, StillStocked

\* The allocations of a call, and the return of what it got too little of.
LEMMA CallStocked ==
  ASSUME IInv, Stocked, AllocChunk \/ AllocJob \/ DropData, UNCHANGED taskVars
  PROVE  Stocked'
<1>1. UNCHANGED <<work, jobData, httpd, delegate>>
  BY DEF AllocChunk, AllocJob, DropData, taskVars
<1>2. QueuedJobs' = QueuedJobs
  BY <1>1 DEF QueuedJobs, WorkSlots
<1>3. chunkCall.at = "chunk" => chunkCall.chunk = None
  BY DEF IInv, Shape
<1>4. chunkCall.at = "job" => chunkCall.job = None
  BY DEF IInv, Shape
<1>5. (JobsHeld => JobsHeld') /\ (ChunksHeld => ChunksHeld')
  <2>1. CASE AllocChunk
    <3>1. PICK c : /\ usedChunks' = usedChunks \cup ({c} \ {None})
                   /\ chunkCall' = [chunkCall EXCEPT !.at = "job", !.chunk = c]
      BY <2>1 DEF AllocChunk
    <3>2. chunkCall'.chunk = c /\ chunkCall'.job = chunkCall.job
          /\ usedJobs' = usedJobs
      BY <2>1, <3>1 DEF AllocChunk, IInv, TypeOK, ServerTypeOK
    <3>3. JobsHeld => JobsHeld'
      BY <1>1, <1>2, <3>2 DEF JobsHeld
    <3>4. chunkCall.chunk = None
      BY <1>3, <2>1 DEF AllocChunk
    <3>5. ChunksHeld => ChunksHeld'
      BY <1>1, <1>2, <3>1, <3>2, <3>4 DEF ChunksHeld
    <3> QED BY <3>3, <3>5
  <2>2. CASE AllocJob
    <3>1. PICK j : /\ usedJobs' = usedJobs \cup ({j} \ {None})
                   /\ chunkCall' = [chunkCall EXCEPT !.at = "queue", !.job = j]
      BY <2>2 DEF AllocJob
    <3>2. chunkCall'.job = j /\ chunkCall'.chunk = chunkCall.chunk
          /\ usedChunks' = usedChunks
      BY <2>2, <3>1 DEF AllocJob, IInv, TypeOK, ServerTypeOK
    <3>3. ChunksHeld => ChunksHeld'
      BY <1>1, <1>2, <3>2 DEF ChunksHeld
    <3>4. chunkCall.job = None
      BY <1>4, <2>2 DEF AllocJob
    <3>5. JobsHeld => JobsHeld'
      BY <1>1, <1>2, <3>1, <3>2, <3>4 DEF JobsHeld
    <3> QED BY <3>3, <3>5
  <2>3. CASE DropData
    <3>1. /\ usedChunks' = usedChunks \ {chunkCall.chunk}
          /\ usedJobs' = usedJobs \ {chunkCall.job}
          /\ chunkCall'.chunk = None /\ chunkCall'.job = None
      BY <2>3 DEF DropData, NoCall
    <3> QED BY <1>1, <1>2, <3>1 DEF JobsHeld, ChunksHeld
  <2> QED BY <2>1, <2>2, <2>3
<1> QED BY <1>1, <1>5, StillStocked

-----------------------------------------------------------------------------
(***************************************************************************)
(* Items run by httpd.                                                     *)
(***************************************************************************)

\* When httpd takes an item, none of its own is pending; the queue is shorter
\* by one and its ends of sessions are matched as before.
LEMMA TakenMatched ==
  ASSUME IInv, Stocked, work # <<>>, httpd.at = "idle"
  PROVE  /\ Paired => Matched(work, FALSE) /\ Matched(Tail(work), FALSE)
         /\ Tail(work) \in Seq(WorkItem)
         /\ Len(Tail(work)) = Len(work) - 1 /\ Len(work) \in Nat
         /\ Len(work) <= WorkCap
<1>1. work \in Seq(WorkItem)
  BY ItemsTyped
<1>2. Paired => Matched(work, FALSE)
  BY DEF Paired
<1>3. Paired => Matched(Tail(work), FALSE)
  BY <1>1, <1>2, MatchedTail
<1>4. /\ Tail(work) \in Seq(WorkItem) /\ Len(work) \in Nat
      /\ Len(Tail(work)) = Len(work) - 1
  BY <1>1
<1> QED BY <1>2, <1>3, <1>4 DEF Stocked

\* How Paired reads after a step.
LEMMA PairedNext == Paired' <=> Matched(work', httpd'.at = "queueFinalize")
BY DEF Paired, Matched, Apart, Follows, EndsAt, FreesAt

\* The data worker sends a piece: it has the job, and the chunk is free.
LEMMA RunDataStocked ==
  ASSUME IInv, Stocked, RunData, UNCHANGED taskVars PROVE Stocked'
<1>0. PICK j, c : j = Head(work).arg /\ c = jobData[j].chunk
  OBVIOUS
<1>1. /\ work # <<>> /\ Head(work).fn = "data" /\ work' = Tail(work)
      /\ httpd.at = "idle" /\ httpd'.at = "freeJob" /\ httpd'.job = j
      /\ usedChunks' = usedChunks \ {c}
      /\ UNCHANGED <<jobData, usedJobs, chunkCall, delegate>>
  BY <1>0 DEF RunData, TakeWork, FreeChunk, IdleTask, taskVars
<1>2. /\ QueuedJobs = QueuedJobs' \cup {j}
      /\ WorkSlots("close") = WorkSlots("close")'
  <2>1. TypeOK
    BY DEF IInv
  <2>2. QueuedJobs = QueuedJobs' \cup
          (IF Head(work).fn = "data" THEN {Head(work).arg} ELSE {})
    BY <1>1, <2>1, ItemsTaken DEF QueuedJobs
  <2>3. WorkSlots("close") = WorkSlots("close")' \cup
          (IF Head(work).fn = "close" THEN {Head(work).arg} ELSE {})
    BY <1>1, <2>1, ItemsTaken
  <2> QED BY <1>0, <1>1, <2>2, <2>3
<1>3. Len(work') <= WorkCap /\ (Paired => Paired')
  <2>1. (httpd'.at = "queueFinalize") = FALSE
    BY <1>1
  <2>2. /\ Paired => Matched(work', FALSE)
        /\ Len(work') = Len(work) - 1 /\ Len(work) \in Nat
        /\ Len(work) <= WorkCap
    BY <1>1, TakenMatched
  <2>3. Len(work') <= WorkCap
    BY <2>2, ServerAssumption
  <2> QED BY <2>1, <2>2, <2>3, PairedNext
<1>4. StreamsHeld => StreamsHeld'
  BY <1>1, <1>2, HeldIs, HeldIsNext DEF StreamsHeld
<1>5. JobsHeld => JobsHeld'
  <2>1. httpd.job = None
    BY <1>1 DEF IInv, Shape
  <2>2. j # None
    BY <1>2, QueuedApart, ServerAssumption
  <2> QED BY <1>1, <1>2, <2>1, <2>2 DEF JobsHeld
<1>6. ChunksHeld => ChunksHeld'
  BY <1>0, <1>1, <1>2 DEF ChunksHeld
<1> QED BY <1>3, <1>4, <1>5, <1>6 DEF Stocked, Roomy

\* The session is deleted, or the slot given back: the item is gone.
LEMMA ItemStocked ==
  ASSUME IInv, Stocked, RunSessClose \/ RunFinalize, UNCHANGED taskVars
  PROVE  Stocked'
<1>1. /\ work # <<>> /\ Head(work).fn \in {"sessClose", "finalize"}
      /\ work' = Tail(work)
      /\ httpd.at = "idle" /\ httpd' = httpd
      /\ UNCHANGED <<jobData, usedJobs, usedChunks, chunkCall, delegate>>
  BY DEF RunSessClose, RunFinalize, TakeWork, poolVars, taskVars
<1>2. /\ QueuedJobs' = QueuedJobs
      /\ WorkSlots("close") = WorkSlots("close")'
  <2>1. TypeOK
    BY DEF IInv
  <2>2. QueuedJobs = QueuedJobs' \cup
          (IF Head(work).fn = "data" THEN {Head(work).arg} ELSE {})
    BY <1>1, <2>1, ItemsTaken DEF QueuedJobs
  <2>3. WorkSlots("close") = WorkSlots("close")' \cup
          (IF Head(work).fn = "close" THEN {Head(work).arg} ELSE {})
    BY <1>1, <2>1, ItemsTaken
  <2> QED BY <1>1, <2>2, <2>3
<1>3. Len(work') <= WorkCap /\ (Paired => Paired')
  <2>1. (httpd'.at = "queueFinalize") = FALSE
    BY <1>1
  <2>2. /\ Paired => Matched(work', FALSE)
        /\ Len(work') = Len(work) - 1 /\ Len(work) \in Nat
        /\ Len(work) <= WorkCap
    BY <1>1, TakenMatched
  <2>3. Len(work') <= WorkCap
    BY <2>2, ServerAssumption
  <2> QED BY <2>1, <2>2, <2>3, PairedNext
<1>4. StreamsHeld => StreamsHeld'
  BY <1>1, <1>2, HeldIs, HeldIsNext DEF StreamsHeld
<1>5. (JobsHeld => JobsHeld') /\ (ChunksHeld => ChunksHeld')
  BY <1>1, <1>2 DEF JobsHeld, ChunksHeld
<1> QED BY <1>3, <1>4, <1>5 DEF Stocked, Roomy

\* The close worker ends a reply: no data of its slot waits, and the close of
\* the session takes the place of the item.
LEMMA RunCloseStocked ==
  ASSUME IInv, Stocked, RunClose, UNCHANGED taskVars PROVE Stocked'
<1>0. PICK s, w : /\ s = Head(work).arg
                  /\ w = [fn |-> "sessClose", arg |-> slot[s].req]
  OBVIOUS
<1>1. /\ work # <<>> /\ Head(work).fn = "close"
      /\ work' = IF Len(Tail(work)) < WorkCap THEN Append(Tail(work), w)
                 ELSE Tail(work)
      /\ httpd.at = "idle" /\ httpd'.at = "queueFinalize" /\ httpd'.job = None
      /\ UNCHANGED <<jobData, usedJobs, usedChunks, chunkCall, delegate>>
  BY <1>0 DEF RunClose, TakeWork, IdleTask, poolVars, taskVars
<1>2. PICK q \in Seq(WorkItem) :
        /\ q = Tail(work) /\ Range(work) = {Head(work)} \cup Range(q)
        /\ Len(q) = Len(work) - 1 /\ Len(work) \in Nat /\ Len(work) <= WorkCap
        /\ Paired => Matched(q, FALSE)
  <2>1. work \in Seq(WorkItem)
    BY ItemsTyped
  <2> QED BY <1>1, <2>1, TakenMatched, TailRange
<1>3. w \in WorkItem /\ w.fn = "sessClose" /\ s \in Held("close")
  <2>1. s \in Held("close")
    BY <1>0, <1>1, <1>2, HeldIs DEF WorkSlots
  <2>2. slot[s].req \in Sockets
    BY <2>1 DEF IInv, Waiting, Live, Open
  <2> QED BY <1>0, <2>1, <2>2 DEF WorkItem
<1>4. /\ work' = Append(q, w) /\ Range(work') = Range(q) \cup {w}
      /\ Len(work') = Len(work)
  <2>0. Len(q) < WorkCap
    BY <1>2, ServerAssumption
  <2>1. work' = Append(q, w)
    BY <1>1, <1>2, <2>0
  <2>2. Range(Append(q, w)) = Range(q) \cup {w}
    BY <1>3, AppendRange
  <2>3. Len(Append(q, w)) = Len(q) + 1
    BY <1>3
  <2> QED BY <1>2, <2>1, <2>2, <2>3
<1>5. /\ QueuedJobs' = QueuedJobs
      /\ WorkSlots("close") \subseteq WorkSlots("close")' \cup {s}
  <2>1. \A v \in Range(work) : v \in Range(work') \/ v = Head(work)
    BY <1>2, <1>4
  <2>2. \A v \in Range(work') : v \in Range(work) \/ v = w
    BY <1>2, <1>4
  <2> QED BY <1>0, <1>1, <1>3, <2>1, <2>2 DEF QueuedJobs, WorkSlots
<1>6. \A j \in QueuedJobs : jobData[j].slot # s
  <2> SUFFICES ASSUME NEW j \in QueuedJobs PROVE jobData[j].slot # s
    OBVIOUS
  <2>1. PICK i \in DataItems : work[i].arg = j
    BY QueuedAre
  <2>2. i \in Nat \ {0} /\ 1 \in 1..i /\ work[1] = Head(work)
    BY <1>1, <2>1, ItemsTyped DEF DataItems
  <2> QED BY <1>0, <1>1, <2>1, <2>2
          DEF IInv, Streaming, StreamsFirst, DataSlot
<1>7. StreamsHeld => StreamsHeld'
  BY <1>1, <1>5, <1>6, HeldIs, HeldIsNext DEF StreamsHeld
<1>8. Paired => Paired'
  <2>1. Paired => Matched(Append(q, w), TRUE)
    BY <1>2, <1>3, MatchedEnd
  <2>2. (httpd'.at = "queueFinalize") = TRUE
    BY <1>1
  <2> QED BY <1>4, <2>1, <2>2, PairedNext
<1>9. (JobsHeld => JobsHeld') /\ (ChunksHeld => ChunksHeld')
  <2>1. httpd.job = None
    BY <1>1 DEF IInv, Shape
  <2> QED BY <1>1, <1>5, <2>1 DEF JobsHeld, ChunksHeld
<1> QED BY <1>2, <1>4, <1>7, <1>8, <1>9 DEF Stocked, Roomy

-----------------------------------------------------------------------------
(***************************************************************************)
(* Items queued: none of them is dropped.                                  *)
(***************************************************************************)

\* An item queued with two places free goes into the control socket.
LEMMA ItemFits ==
  ASSUME IInv, Stocked, Roomy, NEW w \in WorkItem, QueueWork(w),
         Len(work) + 2 <= Cardinality(Jobs) + 2 * Cardinality(Slots)
  PROVE  work' = Append(work, w) /\ Len(work') <= WorkCap
<1>1. /\ Len(work) \in Nat /\ WorkCap \in Nat /\ work \in Seq(WorkItem)
      /\ Cardinality(Jobs) \in Nat /\ Cardinality(Slots) \in Nat
  BY ItemsTyped, PlacesCounted, ServerAssumption
<1>2. Len(work) < WorkCap
  BY <1>1 DEF Roomy
<1>3. work' = Append(work, w)
  BY <1>2 DEF QueueWork
<1>4. Len(Append(work, w)) = Len(work) + 1
  BY <1>1
<1> QED BY <1>1, <1>2, <1>3, <1>4

\* With or without room, the control socket holds no more than it can.
LEMMA QueuedFits ==
  ASSUME IInv, Stocked, NEW w \in WorkItem, QueueWork(w)
  PROVE  Len(work') <= WorkCap
<1>1. Len(work) \in Nat /\ WorkCap \in Nat /\ work \in Seq(WorkItem)
      /\ Len(work) <= WorkCap
  BY ItemsTyped, ServerAssumption DEF Stocked
<1>2. Len(Append(work, w)) = Len(work) + 1
  BY <1>1
<1> QED BY <1>1, <1>2 DEF QueueWork

\* The close worker queues the finalize item.
LEMMA QueueFinalizeStocked ==
  ASSUME IInv, Stocked, QueueFinalize, UNCHANGED taskVars PROVE Stocked'
<1>0. PICK w : w = [fn |-> "finalize", arg |-> httpd.slot]
  OBVIOUS
<1>1. /\ httpd.at = "queueFinalize" /\ QueueWork(w) /\ httpd'.at = "idle"
      /\ httpd'.job = None
      /\ UNCHANGED <<jobData, usedJobs, usedChunks, chunkCall, delegate>>
  BY <1>0 DEF QueueFinalize, IdleTask, poolVars, taskVars
<1>2. w \in WorkItem /\ w.fn = "finalize"
  BY <1>0, <1>1 DEF WorkItem, IInv, Shape, TypeOK, ServerTypeOK
<1>3. httpd.job = None
  BY <1>1 DEF IInv, Shape
<1>4. ASSUME Roomy
      PROVE  StreamsHeld' /\ Paired' /\ JobsHeld' /\ ChunksHeld'
  <2>1. StreamsHeld /\ Paired /\ JobsHeld /\ ChunksHeld
    BY <1>4 DEF Stocked
  <2>2. work' = Append(work, w)
    <3>1. Len(work) + 2 <= Cardinality(Jobs) + 2 * Cardinality(Slots)
      BY <1>1, <2>1, RoomToFinalize
    <3> QED BY <1>1, <1>2, <1>4, <3>1, ItemFits
  <2>3. QueuedJobs' = QueuedJobs /\ WorkSlots("close")' = WorkSlots("close")
    <3>1. TypeOK
      BY DEF IInv
    <3>2. QueuedJobs' = QueuedJobs \cup (IF w.fn = "data" THEN {w.arg} ELSE {})
      BY <1>2, <2>2, <3>1, ItemsQueued DEF QueuedJobs
    <3>3. WorkSlots("close")' = WorkSlots("close") \cup
            (IF w.fn = "close" THEN {w.arg} ELSE {})
      BY <1>2, <2>2, <3>1, ItemsQueued
    <3> QED BY <1>2, <3>2, <3>3
  <2>4. StreamsHeld'
    BY <1>1, <2>1, <2>3, HeldIs, HeldIsNext DEF StreamsHeld
  <2>5. Paired'
    <3>1. Matched(work, TRUE)
      BY <1>1, <2>1 DEF Paired
    <3>2. Matched(Append(work, w), FALSE)
      BY <1>2, <3>1, ItemsTyped, MatchedFinalize
    <3>3. (httpd'.at = "queueFinalize") = FALSE
      BY <1>1
    <3> QED BY <2>2, <3>2, <3>3, PairedNext
  <2>6. JobsHeld' /\ ChunksHeld'
    BY <1>1, <1>3, <2>1, <2>3 DEF JobsHeld, ChunksHeld
  <2> QED BY <2>4, <2>5, <2>6
<1> QED BY <1>1, <1>2, <1>4, QueuedFits DEF Stocked, Roomy

\* The delegate task queues the close of the log it has read: the slot passes
\* to the item.
LEMMA EndOfLogStocked ==
  ASSUME IInv, Stocked, EndOfLog PROVE Stocked'
<1>0. PICK w : w = [fn |-> "close", arg |-> delegate.slot]
  OBVIOUS
<1>1. /\ delegate.slot # None /\ QueueWork(w) /\ chunkCall.at = "idle"
      /\ UNCHANGED <<jobData, usedJobs, usedChunks, chunkCall, httpd>>
  BY <1>0 DEF EndOfLog, QueueClose, CloseWork, poolVars
<1>2. w \in WorkItem /\ w.fn = "close" /\ w.arg = delegate.slot
  BY <1>0, <1>1 DEF WorkItem, IInv, TypeOK, TaskTypeOK
<1>3. ASSUME Roomy
      PROVE  StreamsHeld' /\ Paired' /\ JobsHeld' /\ ChunksHeld'
  <2>1. StreamsHeld /\ Paired /\ JobsHeld /\ ChunksHeld
    BY <1>3 DEF Stocked
  <2>2. work' = Append(work, w)
    <3>1. Len(work) + 2 <= Cardinality(Jobs) + 2 * Cardinality(Slots)
      BY <1>1, <2>1, RoomForDelegate
    <3> QED BY <1>1, <1>2, <1>3, <3>1, ItemFits
  <2>3. /\ QueuedJobs' = QueuedJobs
        /\ WorkSlots("close")' = WorkSlots("close") \cup {delegate.slot}
    <3>1. TypeOK
      BY DEF IInv
    <3>2. QueuedJobs' = QueuedJobs \cup (IF w.fn = "data" THEN {w.arg} ELSE {})
      BY <1>2, <2>2, <3>1, ItemsQueued DEF QueuedJobs
    <3>3. WorkSlots("close")' = WorkSlots("close") \cup
            (IF w.fn = "close" THEN {w.arg} ELSE {})
      BY <1>2, <2>2, <3>1, ItemsQueued
    <3> QED BY <1>2, <3>2, <3>3
  <2>4. StreamsHeld'
    BY <1>1, <2>1, <2>3, HeldIs, HeldIsNext DEF StreamsHeld
  <2>5. Paired'
    <3>1. Matched(Append(work, w), httpd.at = "queueFinalize")
      BY <1>2, <2>1, ItemsTyped, MatchedAppend DEF Paired
    <3> QED BY <1>1, <2>2, <3>1, PairedNext
  <2>6. JobsHeld' /\ ChunksHeld'
    BY <1>1, <2>1, <2>3 DEF JobsHeld, ChunksHeld
  <2> QED BY <2>4, <2>5, <2>6
<1> QED BY <1>1, <1>2, <1>3, QueuedFits DEF Stocked, Roomy

\* The delegate task queues a job: its chunk and slot are in it.
LEMMA QueueDataStocked ==
  ASSUME IInv, Stocked, QueueData, UNCHANGED taskVars PROVE Stocked'
<1>0. PICK j, c, s, w : /\ j = chunkCall.job /\ c = chunkCall.chunk
                        /\ s = chunkCall.slot
                        /\ w = [fn |-> "data", arg |-> j]
  OBVIOUS
<1>1. /\ chunkCall.at = "queue" /\ j # None /\ c # None /\ QueueWork(w)
      /\ jobData' = [jobData EXCEPT ![j] = [slot |-> s, chunk |-> c]]
      /\ chunkCall'.job = None /\ chunkCall'.chunk = None
      /\ UNCHANGED <<usedJobs, usedChunks, httpd, delegate>>
  BY <1>0 DEF QueueData, NoCall, taskVars
<1>2. w \in WorkItem /\ w.fn = "data" /\ w.arg = j /\ j \in Jobs
  BY <1>0, <1>1 DEF WorkItem, IInv, TypeOK, ServerTypeOK
<1>3. delegate.slot = s /\ s # None
  BY <1>0, <1>1 DEF IInv, Shape
<1>4. /\ jobData'[j].slot = s /\ jobData'[j].chunk = c
      /\ \A i \in QueuedJobs : i # j /\ jobData'[i] = jobData[i]
  BY <1>0, <1>1, <1>2, QueuedApart DEF IInv, TypeOK, ServerTypeOK
<1>5. ASSUME Roomy
      PROVE  StreamsHeld' /\ Paired' /\ JobsHeld' /\ ChunksHeld'
  <2>1. StreamsHeld /\ Paired /\ JobsHeld /\ ChunksHeld
    BY <1>5 DEF Stocked
  <2>2. work' = Append(work, w)
    <3>1. Len(work) + 2 <= Cardinality(Jobs) + 2 * Cardinality(Slots)
      BY <1>1, <1>3, <2>1, RoomForDelegate
    <3> QED BY <1>1, <1>2, <1>5, <3>1, ItemFits
  <2>3. /\ QueuedJobs' = QueuedJobs \cup {j}
        /\ WorkSlots("close")' = WorkSlots("close")
    <3>1. TypeOK
      BY DEF IInv
    <3>2. QueuedJobs' = QueuedJobs \cup (IF w.fn = "data" THEN {w.arg} ELSE {})
      BY <1>2, <2>2, <3>1, ItemsQueued DEF QueuedJobs
    <3>3. WorkSlots("close")' = WorkSlots("close") \cup
            (IF w.fn = "close" THEN {w.arg} ELSE {})
      BY <1>2, <2>2, <3>1, ItemsQueued
    <3> QED BY <1>2, <3>2, <3>3
  <2>4. StreamsHeld'
    BY <1>1, <1>3, <1>4, <2>1, <2>3, HeldIs, HeldIsNext DEF StreamsHeld
  <2>5. Paired'
    <3>1. Matched(Append(work, w), httpd.at = "queueFinalize")
      BY <1>2, <2>1, ItemsTyped, MatchedAppend DEF Paired
    <3> QED BY <1>1, <2>2, <3>1, PairedNext
  <2>6. JobsHeld'
    BY <1>0, <1>1, <2>1, <2>3 DEF JobsHeld
  <2>7. ChunksHeld'
    <3>1. \A i \in QueuedJobs : jobData[i].chunk = jobData'[i].chunk
      BY <1>4
    <3> QED BY <1>0, <1>1, <1>4, <2>1, <2>3, <3>1 DEF ChunksHeld
  <2> QED BY <2>4, <2>5, <2>6, <2>7
<1> QED BY <1>1, <1>2, <1>5, QueuedFits DEF Stocked, Roomy

-----------------------------------------------------------------------------
(***************************************************************************)
(* Every step.                                                             *)
(***************************************************************************)

\* The httpd task handles a session or is in an endpoint callback.
LEMMA HttpdStocked ==
  ASSUME IInv, Stocked,
         \/ (\E k \in Sockets : HandleSession(k))
         \/ PostRequest \/ PostFails \/ Refuse \/ Release
  PROVE  Stocked'
<1>1. UNCHANGED <<work, jobData, usedJobs, usedChunks, chunkCall, delegate>>
  BY DEF HandleSession, AcceptRequest, SlotsExhausted, NotFound, PostRequest,
         PostFails, Refuse, Release, poolVars, taskVars
<1>2. httpd' # httpd => httpd.at \in {"idle", "post", "refuse", "release"}
  BY DEF HandleSession, AcceptRequest, SlotsExhausted, NotFound, PostRequest,
         PostFails, Refuse, Release
<1>3. httpd'.job \in {httpd.job, None}
  <2>1. IdleTask.job = None
        /\ \A s \in Slots : [IdleTask EXCEPT !.at = "post", !.slot = s].job = None
    BY DEF IdleTask
  <2>2. \A x \in {"refuse", "release"} : [httpd EXCEPT !.at = x].job = httpd.job
    BY DEF IInv, TypeOK, ServerTypeOK
  <2> QED BY <2>1, <2>2 DEF HandleSession, AcceptRequest, SlotsExhausted,
             NotFound, PostRequest, PostFails, Refuse, Release
<1>4. httpd'.job = httpd.job
      /\ (httpd.at = "queueFinalize" => httpd'.at = "queueFinalize")
  <2>1. httpd' # httpd => httpd.job = None
    BY <1>2 DEF IInv, Shape
  <2> QED BY <1>2, <1>3, <2>1
<1> QED BY <1>1, <1>4, Elsewhere

\* The delegate task takes a request or reads a piece.
LEMMA DelegateStocked ==
  ASSUME IInv, Stocked, DelegateTake \/ ReadPiece PROVE Stocked'
<1>1. UNCHANGED <<work, jobData, usedJobs, usedChunks, httpd>>
  BY DEF DelegateTake, ReadPiece, serverVars, poolVars
<1>2. chunkCall'.job = chunkCall.job /\ chunkCall'.chunk = chunkCall.chunk
  <2>1. CASE DelegateTake
    BY <2>1 DEF DelegateTake, serverVars
  <2>2. CASE ReadPiece
    BY <2>2 DEF ReadPiece, NoCall, IInv, Shape
  <2> QED BY <2>1, <2>2
<1>3. delegate.slot # None => delegate'.slot = delegate.slot
  BY DEF DelegateTake, ReadPiece, IInv, TypeOK, TaskTypeOK
<1> QED BY <1>1, <1>2, <1>3, Elsewhere

\* No step of any task queues more than fits, or forgets a job or a chunk.
LEMMA StockedKept ==
  ASSUME IInv, Stocked, [Next]_vars, ~Restart PROVE Stocked'
<1> USE DEF clientVars, poolVars, serverVars, taskVars
<1>1. CASE UNCHANGED <<work, jobData, usedJobs, usedChunks, chunkCall, httpd,
                       delegate>>
  BY <1>1, Elsewhere
<1>2. CASE ClientStep
  BY <1>1, <1>2 DEF ClientStep, Ask
<1>3. CASE \E k \in Sockets : HandleSession(k)
  BY <1>3, HttpdStocked
<1>4. CASE HandleWork
  BY <1>4, RunDataStocked, RunCloseStocked, ItemStocked DEF HandleWork, RunWork
<1>5. CASE HttpdContinues
  BY <1>5, EndDataStocked, QueueFinalizeStocked, HttpdStocked
     DEF HttpdContinues
<1>6. CASE LoopStep
  BY <1>1, <1>6
     DEF LoopStep, SendCommand, CommandRefused, HandleLog, DelegatePost,
         HandleOta, HandleSendStatus, Inform, InformRelease,
         HandleRebootRequired
<1>7. CASE RadioStep \/ OtaStep
  BY <1>1, <1>7 DEF RadioStep, RadioReports, ReportSend, LoseReport, OtaStep,
                    UpdateStarts, UpdateEnds
<1>8. CASE DelegateStep
  BY <1>8, CallStocked, QueueDataStocked, DelegateStocked, EndOfLogStocked
     DEF DelegateStep
<1>9. CASE PanicReboot \/ UNCHANGED vars
  BY <1>1, <1>9 DEF PanicReboot, vars
<1> QED
  BY <1>2, <1>3, <1>4, <1>5, <1>6, <1>7, <1>8, <1>9 DEF Next

-----------------------------------------------------------------------------
(***************************************************************************)
(* Slots: when nothing is lost, each step passes a slot on or frees it.    *)
(***************************************************************************)

\* A step that at most takes s from where it was, and passes it on to b or
\* gives it back.
LEMMA Carried ==
  ASSUME SlotsHeld, NEW s, NEW b \in Holders,
         usedSlots' \subseteq usedSlots \cup {s},
         \A h \in Holders : Held(h) \ {s} \subseteq Held(h)',
         s \in Held(b)' \/ s \notin usedSlots'
  PROVE  SlotsHeld'
<1>1. ASSUME NEW t \in usedSlots' PROVE \E h \in Holders : t \in Held(h)'
  BY DEF SlotsHeld, Somewhere
<1> QED BY <1>1 DEF SlotsHeld, Somewhere

\* The holders whose variables a step leaves alone hold what they held.
LEMMA HeldStill ==
  /\ httpd'.slot = httpd.slot => Held("httpd")' = Held("httpd")
  /\ eventQ' = eventQ => Held("event")' = Held("event")
  /\ loop'.slot = loop.slot => Held("loop")' = Held("loop")
  /\ radio' = radio => Held("radio")' = Held("radio")
  /\ delegateQ' = delegateQ => Held("delegateQ")' = Held("delegateQ")
  /\ delegate'.slot = delegate.slot => Held("delegate")' = Held("delegate")
  /\ work' = work => /\ Held("close")' = Held("close")
                     /\ Held("finalize")' = Held("finalize")
BY HeldIs, HeldIsNext DEF WorkSlots

\* A step that moves no slot.
LEMMA NothingMoved ==
  ASSUME SlotsHeld, UNCHANGED <<usedSlots, eventQ, radio, delegateQ, work>>,
         httpd'.slot = httpd.slot, loop'.slot = loop.slot,
         delegate'.slot = delegate.slot
  PROVE  SlotsHeld'
BY HeldStill, Carried DEF Holders, SlotsHeld, Somewhere

\* The event loop takes the oldest event: its slot is the loop's or the
\* codec's.
LEMMA TakenCarried ==
  ASSUME IInv, SlotsHeld, NEW id, TakeEvent(id),
         UNCHANGED <<usedSlots, httpd, delegateQ, delegate, work>>,
         \/ loop'.slot = Head(eventQ).ctx /\ radio' = radio
         \/ \E c : /\ radio' = radio \cup {c} /\ c.ctx = Head(eventQ).ctx
                   /\ loop' = loop
  PROVE  SlotsHeld'
<1>0. PICK s : s = Head(eventQ).ctx
  OBVIOUS
<1>1. /\ Held("event")' = Held("event") \ {s} /\ loop.at = "idle"
  BY <1>0, EventTail DEF TakeEvent, IInv, SlotOwnership
<1>2. /\ Held("loop") = {} /\ Held("radio") \subseteq Held("radio")'
  BY HeldIs, HeldIsNext, <1>1 DEF IInv, Shape
<1>3. s = None \/ s \in Held("loop")' \/ s \in Held("radio")'
  BY <1>0, HeldIsNext
<1>4. None \notin usedSlots'
  BY ServerAssumption DEF IInv, TypeOK, ServerTypeOK
<1>5. \A h \in Holders : Held(h) \ {s} \subseteq Held(h)'
  BY <1>1, <1>2, HeldStill DEF Holders
<1> QED BY <1>3, <1>4, <1>5, Carried DEF Holders

\* The steps of the event loop task.
LEMMA LoopCarried ==
  ASSUME IInv, SlotsHeld, LoopStep, ~Restart PROVE SlotsHeld'
<1> USE DEF clientVars, poolVars, serverVars
<1>1. ASSUME NEW id \in GateEvents, SendCommand(id) PROVE SlotsHeld'
  BY <1>1, TakenCarried DEF SendCommand
<1>2. ASSUME NEW id \in GateEvents, CommandRefused(id) PROVE SlotsHeld'
  BY <1>2, TakenCarried DEF CommandRefused
<1>3. CASE HandleLog
  BY <1>3, TakenCarried DEF HandleLog, IdleLoop
<1>4. CASE HandleOta \/ HandleSendStatus
  BY <1>4, TakenCarried DEF HandleOta, HandleSendStatus
<1>5. CASE DelegatePost
  <2>0. PICK s : s = loop.slot
    OBVIOUS
  <2>1. /\ UNCHANGED <<usedSlots, httpd, eventQ, radio, delegate, work>>
        /\ delegateQ' = Append(delegateQ, s) /\ loop.at = "delegate"
    BY <1>5, <2>0 DEF DelegatePost
  <2>2. s \in Slots /\ s \in Held("loop") /\ Held("loop") = {s}
    BY <2>0, <2>1, HeldIs DEF IInv, Shape, TypeOK, TaskTypeOK
  <2>3. s \notin Held("delegateQ")
    BY <2>2 DEF IInv, SlotOwnership, HeldApart, Holders
  <2>4. Held("delegateQ")' = Held("delegateQ") \cup {s}
    BY <2>1, <2>2, <2>3, DelegateAppend DEF IInv, SlotOwnership
  <2>5. \A h \in Holders : Held(h) \ {s} \subseteq Held(h)'
    BY <2>1, <2>2, <2>4, HeldStill DEF Holders
  <2> QED BY <2>1, <2>4, <2>5, Carried DEF Holders
<1>6. CASE Inform
  <2>1. UNCHANGED <<usedSlots, httpd, eventQ, radio, delegateQ, delegate, work>>
        /\ loop'.slot = loop.slot
    BY <1>6 DEF Inform, IInv, TypeOK, TaskTypeOK
  <2> QED BY <2>1, NothingMoved
<1>7. CASE InformRelease
  <2>1. /\ UNCHANGED <<httpd, eventQ, radio, delegateQ, delegate, work>>
        /\ usedSlots' = usedSlots \ {loop.slot}
    BY <1>7 DEF InformRelease, FreeSlot
  <2>2. \A h \in Holders : Held(h) \ {loop.slot} \subseteq Held(h)'
    BY <2>1, HeldStill, HeldIs DEF Holders
  <2> QED BY <2>1, <2>2, Carried DEF Holders
<1> QED BY <1>1, <1>2, <1>3, <1>4, <1>5, <1>6, <1>7
        DEF LoopStep, HandleRebootRequired

\* A report takes the slot of its command back to the event queue.
LEMMA ReportCarried ==
  ASSUME IInv, SlotsHeld, NEW cmd \in radio, NEW ok \in BOOLEAN,
         ReportSend(cmd, ok)
  PROVE  SlotsHeld'
<1>0. PICK s, e : s = cmd.ctx /\ e = Event("SEND_STATUS", s, ok)
  OBVIOUS
<1>1. /\ UNCHANGED <<usedSlots, httpd, loop, delegateQ, delegate, work>>
      /\ radio' = radio \ {cmd} /\ eventQ' = Append(eventQ, e)
  BY <1>0 DEF ReportSend, serverVars, poolVars
<1>2. e \in EventRecord /\ e.ctx = s /\ s \in Slots /\ s \in Held("radio")
  BY <1>0, HeldIs DEF Event, EventRecord, EventIds, ContextIds, IInv, TypeOK,
                      TaskTypeOK
<1>3. s \notin Held("event")
  BY <1>2 DEF IInv, SlotOwnership, HeldApart, Holders
<1>4. Held("event")' = Held("event") \cup ({s} \ {None})
  BY <1>1, <1>2, <1>3, EventAppend DEF IInv, SlotOwnership
<1>5. Held("radio") \ {s} \subseteq Held("radio")'
  BY <1>0, <1>1, HeldIs, HeldIsNext
<1>6. \A h \in Holders : Held(h) \ {s} \subseteq Held(h)'
  BY <1>1, <1>4, <1>5, HeldStill DEF Holders
<1>7. s \in Held("event")'
  BY <1>2, <1>4, ServerAssumption
<1> QED BY <1>1, <1>6, <1>7, Carried DEF Holders

\* An installed update posts an event without a slot.
LEMMA OtaCarried == ASSUME IInv, SlotsHeld, OtaStep PROVE SlotsHeld'
<1>0. PICK e : e = Event("REBOOT_REQUIRED", None, TRUE)
  OBVIOUS
<1>1. /\ UNCHANGED <<usedSlots, httpd, loop, radio, delegateQ, delegate, work>>
      /\ eventQ' = eventQ \/ eventQ' = Append(eventQ, e)
  BY <1>0 DEF OtaStep, UpdateStarts, UpdateEnds, serverVars, poolVars
<1>2. Held("event") \subseteq Held("event")'
  <2>1. e \in EventRecord /\ e.ctx = None
    BY <1>0 DEF Event, EventRecord, EventIds
  <2>2. None \notin Held("event")
    BY HeldIs
  <2>3. CASE eventQ' = Append(eventQ, e)
    BY <2>1, <2>2, <2>3, EventAppend DEF IInv, SlotOwnership
  <2> QED BY <1>1, <2>3, HeldStill
<1>3. None \notin usedSlots'
  BY <1>1, ServerAssumption DEF IInv, TypeOK, ServerTypeOK
<1>4. \A h \in Holders : Held(h) \ {None} \subseteq Held(h)'
  BY <1>1, <1>2, HeldStill DEF Holders
<1> QED BY <1>1, <1>3, <1>4, Carried DEF Holders

\* The httpd task accepts a request, and passes its slot on or frees it.
LEMMA HttpdCarried ==
  ASSUME IInv, SlotsHeld,
         \/ (\E k \in Sockets : HandleSession(k))
         \/ PostRequest \/ PostFails \/ Refuse \/ Release
  PROVE  SlotsHeld'
<1> USE DEF clientVars, poolVars, taskVars
<1>1. ASSUME NEW k \in Sockets, HandleSession(k) PROVE SlotsHeld'
  <2>1. CASE AcceptRequest(k)
    <3>1. PICK s \in Slots : /\ usedSlots' = usedSlots \cup {s}
                             /\ httpd' = [IdleTask EXCEPT !.at = "post", !.slot = s]
      BY <2>1 DEF AcceptRequest
    <3>2. /\ UNCHANGED <<eventQ, loop, radio, delegateQ, delegate, work>>
          /\ httpd.at = "idle" /\ httpd'.slot = s
      BY <1>1, <2>1, <3>1 DEF HandleSession, AcceptRequest, IdleTask
    <3>3. Held("httpd") = {} /\ s \in Held("httpd")'
      BY <3>2, HeldIs, HeldIsNext, ServerAssumption DEF IInv, Shape
    <3>4. \A h \in Holders : Held(h) \ {s} \subseteq Held(h)'
      BY <3>2, <3>3, HeldStill DEF Holders
    <3> QED BY <3>1, <3>3, <3>4, Carried DEF Holders
  <2>2. CASE SlotsExhausted(k) \/ NotFound(k)
    BY <1>1, <2>2, NothingMoved DEF HandleSession, SlotsExhausted, NotFound
  <2> QED BY <1>1, <2>1, <2>2 DEF HandleSession
<1>2. CASE PostFails \/ Refuse
  <2>1. UNCHANGED <<usedSlots, eventQ, loop, radio, delegateQ, delegate, work>>
    BY <1>2 DEF PostFails, Refuse
  <2>2. httpd'.slot = httpd.slot
    BY <1>2 DEF PostFails, Refuse, IInv, TypeOK, ServerTypeOK
  <2> QED BY <2>1, <2>2, NothingMoved
<1>3. CASE Release
  <2>1. /\ UNCHANGED <<eventQ, loop, radio, delegateQ, delegate, work>>
        /\ usedSlots' = usedSlots \ {httpd.slot}
    BY <1>3 DEF Release, FreeSlot
  <2>2. \A h \in Holders : Held(h) \ {httpd.slot} \subseteq Held(h)'
    BY <2>1, HeldStill, HeldIs DEF Holders
  <2> QED BY <2>1, <2>2, Carried DEF Holders
<1>4. CASE PostRequest
  <2>0. PICK s, e : s = httpd.slot
                    /\ e = Event(EventOf(asked[slot[s].req]), s, TRUE)
    OBVIOUS
  <2>1. /\ UNCHANGED <<usedSlots, loop, radio, delegateQ, delegate, work>>
        /\ httpd.at = "post" /\ eventQ' = Append(eventQ, e)
    BY <1>4, <2>0 DEF PostRequest
  <2>2. s \in Slots /\ s \in Live /\ s \in Held("httpd")
    BY <2>0, <2>1, LiveAreSlots, HeldIs DEF Live, Open, IInv, Shape
  <2>3. asked[slot[s].req] \in Endpoints
    BY <2>2 DEF IInv, Routing, AskedOf
  <2>4. e \in EventRecord /\ e.ctx = s
    BY <2>0, <2>2, <2>3 DEF Event, EventRecord, EventOf, EventIds, ContextIds,
       RequestIds, GateEvents, Endpoints, GateEndpoints
  <2>5. s \notin Held("event")
    BY <2>2 DEF IInv, SlotOwnership, HeldApart, Holders
  <2>6. Held("event")' = Held("event") \cup {s}
    BY <2>1, <2>2, <2>4, <2>5, EventAppend, ServerAssumption
       DEF IInv, SlotOwnership
  <2>7. Held("httpd") \ {s} \subseteq Held("httpd")'
    BY <2>0, HeldIs
  <2>8. \A h \in Holders : Held(h) \ {s} \subseteq Held(h)'
    BY <2>1, <2>6, <2>7, HeldStill DEF Holders
  <2> QED BY <2>1, <2>6, <2>8, Carried DEF Holders
<1> QED BY <1>1, <1>2, <1>3, <1>4

\* httpd takes an item: the slot of a close item is httpd's, that of a
\* finalize item is free.
LEMMA RunCarried ==
  ASSUME IInv, Stocked, SlotsHeld, RunWork, UNCHANGED taskVars
  PROVE  SlotsHeld'
<1> USE DEF clientVars, poolVars, taskVars
<1>0. PICK s : s = Head(work).arg
  OBVIOUS
<1>1. /\ UNCHANGED <<eventQ, loop, radio, delegateQ, delegate>>
      /\ work # <<>> /\ httpd.at = "idle"
  BY DEF RunWork, RunData, RunClose, RunSessClose, RunFinalize, TakeWork
<1>2. Held("httpd") = {}
  BY <1>1, HeldIs DEF IInv, Shape
<1>3. ASSUME work' = Tail(work), NEW fn \in {"close", "finalize"}
      PROVE  /\ Head(work).fn = fn \/ Held(fn)' = Held(fn)
             /\ Held(fn) \ {s} \subseteq Held(fn)'
  <2>1. TypeOK
    BY DEF IInv
  <2>2. WorkSlots(fn) = WorkSlots(fn)' \cup
          (IF Head(work).fn = fn THEN {Head(work).arg} ELSE {})
    BY <1>1, <1>3, <2>1, ItemsTaken
  <2>3. Held(fn) = WorkSlots(fn) /\ Held(fn)' = WorkSlots(fn)'
    BY HeldIs, HeldIsNext
  <2> QED BY <1>0, <2>2, <2>3
<1>4. CASE RunData \/ RunSessClose
  <2>1. /\ UNCHANGED usedSlots /\ work' = Tail(work)
        /\ Head(work).fn \notin {"close", "finalize"}
    BY <1>4 DEF RunData, RunSessClose, TakeWork
  <2>2. Held("close")' = Held("close") /\ Held("finalize")' = Held("finalize")
    BY <1>3, <2>1
  <2>3. None \notin usedSlots'
    BY <2>1, ServerAssumption DEF IInv, TypeOK, ServerTypeOK
  <2>4. \A h \in Holders : Held(h) \ {None} \subseteq Held(h)'
    BY <1>1, <1>2, <2>2, HeldStill DEF Holders
  <2> QED BY <2>1, <2>3, <2>4, Carried DEF Holders
<1>5. CASE RunFinalize
  <2>1. /\ usedSlots' = usedSlots \ {s} /\ work' = Tail(work)
    BY <1>0, <1>5 DEF RunFinalize, FreeSlot
  <2>2. \A h \in Holders : Held(h) \ {s} \subseteq Held(h)'
    BY <1>1, <1>2, <1>3, <2>1, HeldStill DEF Holders
  <2> QED BY <2>1, <2>2, Carried DEF Holders
<1>6. CASE RunClose
  <2>0. PICK w : w = [fn |-> "sessClose", arg |-> slot[s].req]
    OBVIOUS
  <2>1. /\ UNCHANGED usedSlots /\ Head(work).fn = "close" /\ httpd'.slot = s
        /\ work' = IF Len(Tail(work)) < WorkCap THEN Append(Tail(work), w)
                   ELSE Tail(work)
    BY <1>0, <1>6, <2>0 DEF RunClose, TakeWork, IdleTask
  <2>2. PICK q \in Seq(WorkItem) :
          q = Tail(work) /\ Range(work) = {Head(work)} \cup Range(q)
    <3>1. work \in Seq(WorkItem)
      BY ItemsTyped
    <3> QED BY <1>1, <3>1, TailElements, TailRange
  <2>3. w \in WorkItem /\ s \in Slots
    <3>1. s \in Held("close")
      BY <1>0, <2>1, <2>2, HeldIs DEF WorkSlots
    <3>2. slot[s].req \in Sockets /\ s \in Slots
      BY <3>1, LiveAreSlots DEF IInv, Waiting, Live, Open
    <3> QED BY <2>0, <3>2 DEF WorkItem
  <2>4. Range(q) \subseteq Range(work')
    <3>1. Range(Append(q, w)) = Range(q) \cup {w}
      BY <2>3, AppendRange
    <3> QED BY <2>1, <2>2, <3>1
  <2>5. \A v \in Range(work) : v = Head(work) \/ v \in Range(work')
    BY <2>2, <2>4
  <2>6. /\ Held("close") \ {s} \subseteq Held("close")'
        /\ Held("finalize") \subseteq Held("finalize")'
    BY <1>0, <2>1, <2>5, HeldIs, HeldIsNext DEF WorkSlots
  <2>7. s \in Held("httpd")'
    BY <2>1, <2>3, HeldIsNext, ServerAssumption
  <2>8. \A h \in Holders : Held(h) \ {s} \subseteq Held(h)'
    BY <1>1, <1>2, <2>6, HeldStill DEF Holders
  <2> QED BY <2>1, <2>7, <2>8, Carried DEF Holders
<1> QED BY <1>4, <1>5, <1>6 DEF RunWork

\* What is queued to httpd, with room for it: the slot is in the item.
LEMMA QueueCarried ==
  ASSUME IInv, Stocked, Roomy, SlotsHeld,
         \/ EndOfLog
         \/ (QueueFinalize \/ QueueData) /\ UNCHANGED taskVars
  PROVE  SlotsHeld'
<1> USE DEF clientVars, poolVars, taskVars
<1>0. StreamsHeld /\ Paired
  BY DEF Stocked
<1>1. ASSUME NEW w \in WorkItem, QueueWork(w),
             Len(work) + 2 <= Cardinality(Jobs) + 2 * Cardinality(Slots),
             NEW fn \in {"close", "finalize"}
      PROVE  /\ Held(fn) \subseteq Held(fn)'
             /\ w.fn = fn => w.arg \in Held(fn)'
  <2>1. TypeOK /\ work' = Append(work, w)
    BY <1>1, ItemFits DEF IInv
  <2>2. WorkSlots(fn)' = WorkSlots(fn) \cup
          (IF w.fn = fn THEN {w.arg} ELSE {})
    BY <2>1, ItemsQueued
  <2> QED BY <2>2, HeldIs, HeldIsNext
<1>2. CASE EndOfLog
  <2>0. PICK w, s : w = [fn |-> "close", arg |-> s] /\ s = delegate.slot
    OBVIOUS
  <2>1. /\ QueueWork(w) /\ s # None
        /\ UNCHANGED <<usedSlots, httpd, eventQ, loop, radio, delegateQ>>
    BY <1>2, <2>0 DEF EndOfLog, QueueClose, CloseWork
  <2>2. w \in WorkItem /\ Held("delegate") = {s}
    BY <2>0, <2>1, HeldIs DEF WorkItem, IInv, TypeOK, TaskTypeOK
  <2>3. Len(work) + 2 <= Cardinality(Jobs) + 2 * Cardinality(Slots)
    BY <1>0, <2>0, <2>1, RoomForDelegate
  <2>4. /\ Held("close") \subseteq Held("close")'
        /\ Held("finalize") \subseteq Held("finalize")'
        /\ s \in Held("close")'
    BY <1>1, <2>0, <2>1, <2>2, <2>3
  <2>5. \A h \in Holders : Held(h) \ {s} \subseteq Held(h)'
    BY <2>1, <2>2, <2>4, HeldStill DEF Holders
  <2> QED BY <2>1, <2>4, <2>5, Carried DEF Holders
<1>3. CASE QueueFinalize /\ UNCHANGED taskVars
  <2>0. PICK w, s : w = [fn |-> "finalize", arg |-> s] /\ s = httpd.slot
    OBVIOUS
  <2>1. /\ QueueWork(w) /\ httpd.at = "queueFinalize"
        /\ UNCHANGED <<usedSlots, eventQ, loop, radio, delegateQ, delegate>>
    BY <1>3, <2>0 DEF QueueFinalize
  <2>2. w \in WorkItem /\ Held("httpd") = {s}
    BY <2>0, <2>1, HeldIs DEF WorkItem, IInv, Shape, TypeOK, ServerTypeOK
  <2>3. Len(work) + 2 <= Cardinality(Jobs) + 2 * Cardinality(Slots)
    BY <1>0, <2>1, RoomToFinalize
  <2>4. /\ Held("close") \subseteq Held("close")'
        /\ Held("finalize") \subseteq Held("finalize")'
        /\ s \in Held("finalize")'
    BY <1>1, <2>0, <2>1, <2>2, <2>3
  <2>5. \A h \in Holders : Held(h) \ {s} \subseteq Held(h)'
    BY <2>1, <2>2, <2>4, HeldStill DEF Holders
  <2> QED BY <2>1, <2>4, <2>5, Carried DEF Holders
<1>4. CASE QueueData /\ UNCHANGED taskVars
  <2>0. PICK w : w = [fn |-> "data", arg |-> chunkCall.job]
    OBVIOUS
  <2>1. /\ QueueWork(w) /\ chunkCall.at = "queue" /\ chunkCall.job # None
        /\ UNCHANGED <<usedSlots, httpd, eventQ, loop, radio, delegateQ, delegate>>
    BY <1>4, <2>0 DEF QueueData
  <2>2. w \in WorkItem /\ delegate.slot # None
    BY <2>0, <2>1 DEF WorkItem, IInv, Shape, TypeOK, ServerTypeOK
  <2>3. Len(work) + 2 <= Cardinality(Jobs) + 2 * Cardinality(Slots)
    BY <1>0, <2>2, RoomForDelegate
  <2>4. /\ Held("close") \subseteq Held("close")'
        /\ Held("finalize") \subseteq Held("finalize")'
    BY <1>1, <2>1, <2>2, <2>3
  <2>5. None \notin usedSlots'
    BY <2>1, ServerAssumption DEF IInv, TypeOK, ServerTypeOK
  <2>6. \A h \in Holders : Held(h) \ {None} \subseteq Held(h)'
    BY <2>1, <2>4, HeldStill DEF Holders
  <2> QED BY <2>1, <2>5, <2>6, Carried DEF Holders
<1> QED BY <1>2, <1>3, <1>4

\* The delegate task takes a slot from its queue.
LEMMA TakeCarried == ASSUME IInv, SlotsHeld, DelegateTake PROVE SlotsHeld'
<1>0. PICK s : s = Head(delegateQ)
  OBVIOUS
<1>1. /\ UNCHANGED <<usedSlots, httpd, eventQ, loop, radio, work>>
      /\ delegate.slot = None /\ delegate'.slot = s
      /\ delegateQ # <<>> /\ delegateQ' = Tail(delegateQ)
  BY <1>0 DEF DelegateTake, serverVars, poolVars
<1>2. Held("delegateQ")' = Held("delegateQ") \ {s} /\ s \in Slots
  BY <1>0, <1>1, DelegateTail DEF IInv, SlotOwnership
<1>3. Held("delegate") = {} /\ s \in Held("delegate")'
  BY <1>1, <1>2, HeldIs, HeldIsNext, ServerAssumption
<1>4. \A h \in Holders : Held(h) \ {s} \subseteq Held(h)'
  BY <1>1, <1>2, <1>3, HeldStill DEF Holders
<1> QED BY <1>1, <1>3, <1>4, Carried DEF Holders

\* When nothing is lost, no step of any task forgets a slot.
LEMMA SlotsKept ==
  ASSUME IInv, Stocked, NoLoss, SlotsHeld, [Next]_vars, ~Restart
  PROVE  SlotsHeld'
<1> USE DEF clientVars, poolVars, serverVars, taskVars
<1>0. Roomy /\ ~LossyPost
  BY DEF NoLoss
<1>1. CASE UNCHANGED <<usedSlots, httpd, eventQ, loop, radio, delegateQ,
                       delegate, work>>
  BY <1>1, NothingMoved
<1>2. CASE ClientStep
  BY <1>1, <1>2 DEF ClientStep, Ask
<1>3. CASE \E k \in Sockets : HandleSession(k)
  BY <1>3, HttpdCarried
<1>4. CASE HandleWork
  BY <1>4, RunCarried DEF HandleWork
<1>5. CASE HttpdContinues
  <2>1. CASE EndData /\ UNCHANGED taskVars
    <3>1. httpd.at = "freeJob" /\ httpd'.slot = None
      BY <2>1 DEF EndData, IdleTask
    <3>2. httpd'.slot = httpd.slot
      BY <3>1 DEF IInv, Shape
    <3> QED BY <2>1, <3>2, NothingMoved DEF EndData
  <2> QED BY <1>0, <1>5, <2>1, QueueCarried, HttpdCarried DEF HttpdContinues
<1>6. CASE LoopStep
  BY <1>6, LoopCarried
<1>7. CASE RadioStep
  BY <1>0, <1>7, ReportCarried DEF RadioStep, RadioReports, LoseReport
<1>8. CASE DelegateStep
  <2>1. CASE (AllocChunk \/ AllocJob \/ DropData) /\ UNCHANGED taskVars
    BY <1>1, <2>1 DEF AllocChunk, AllocJob, DropData
  <2>2. CASE ReadPiece
    <3>1. delegate'.slot = delegate.slot
      BY <2>2 DEF ReadPiece, IInv, TypeOK, TaskTypeOK
    <3> QED BY <2>2, <3>1, NothingMoved DEF ReadPiece
  <2> QED BY <1>0, <1>8, <2>1, <2>2, QueueCarried, TakeCarried DEF DelegateStep
<1>9. CASE OtaStep
  BY <1>9, OtaCarried
<1>10. CASE PanicReboot \/ UNCHANGED vars
  BY <1>1, <1>10 DEF PanicReboot, vars
<1> QED
  BY <1>2, <1>3, <1>4, <1>5, <1>6, <1>7, <1>8, <1>9, <1>10 DEF Next

-----------------------------------------------------------------------------
(***************************************************************************)
(* The invariant, and what follows from it.                                *)
(***************************************************************************)

\* The node that just started has nothing queued and nothing allocated.
LEMMA InitAccounts == Init => Accounts
<1> SUFFICES ASSUME Init PROVE Accounts
  OBVIOUS
<1>1. work = <<>> /\ usedSlots = {} /\ usedChunks = {} /\ usedJobs = {}
  BY DEF Init, ServerInit
<1>2. Len(work) <= WorkCap /\ DOMAIN work = {} /\ Range(work) = {}
  BY <1>1, ServerAssumption DEF Range
<1>3. QueuedJobs = {}
  BY <1>2 DEF QueuedJobs, WorkSlots
<1>4. StreamsHeld /\ JobsHeld /\ ChunksHeld /\ SlotsHeld
  BY <1>1, <1>3 DEF StreamsHeld, JobsHeld, ChunksHeld, SlotsHeld
<1>5. Paired
  BY <1>2 DEF Paired, Matched
<1> QED BY <1>2, <1>4, <1>5 DEF Accounts, Stocked

\* A restart sets every variable back.
LEMMA RestartAccounts == Restart => Accounts'
<1>1. Restart => Init'
  BY DEF Restart, Init, ServerInit
<1> QED BY <1>1, InitAccounts, PTL

\* Every step of every task keeps Accounts.
LEMMA NextAccounts == IInv /\ Accounts /\ [Next]_vars => Accounts'
<1> SUFFICES ASSUME IInv, Accounts, [Next]_vars, ~Restart PROVE Accounts'
  BY RestartAccounts
<1>1. Stocked'
  BY StockedKept DEF Accounts
<1>2. NoLoss => SlotsHeld'
  BY SlotsKept DEF Accounts
<1> QED BY <1>1, <1>2 DEF Accounts, NoLoss, Roomy

\* In every behaviour the control socket holds what it can hold; where it has
\* room for 11 items (pools of 4) none is dropped and no job or chunk is
\* forgotten, and where no post is lost, no slot.
THEOREM AccountsInvariance == Spec => []Accounts
<1>1. Init => Accounts
  BY InitAccounts
<1>2. IInv /\ Accounts /\ [Next]_vars => Accounts'
  BY NextAccounts
<1> QED BY <1>1, <1>2, Invariance, PTL DEF Spec

\* However many items the control socket can hold, no more than one for each
\* job and two for each slot, less one, wait in it (the callers of
\* httpd_queue_work in http_server.c).
THEOREM WorkBounded == Spec => []WorkBound
<1>1. IInv /\ Accounts => WorkBound
  <2> SUFFICES ASSUME IInv, Accounts PROVE WorkBound
    OBVIOUS
  <2>1. /\ Len(work) \in Nat /\ WorkCap \in Nat
        /\ Cardinality(Jobs) \in Nat /\ Cardinality(Slots) \in Nat
    BY ItemsTyped, PlacesCounted, ServerAssumption
  <2>2. CASE Roomy
    <3>1. Len(work) + 1 <= Cardinality(Jobs) + 2 * Cardinality(Slots)
      BY <2>2, QueueBound DEF Accounts, Stocked
    <3> QED BY <2>1, <3>1 DEF WorkBound
  <2>3. CASE ~Roomy
    BY <2>1, <2>3 DEF Accounts, Stocked, Roomy, WorkBound
  <2> QED BY <2>2, <2>3
<1> QED BY <1>1, Invariance, AccountsInvariance, PTL

\* With room in the control socket and no post lost, what is allocated is in
\* some task's hands or in some queue, and nothing else is (bank_alloc and
\* bank_free in http_server.c).
THEOREM PoolsAccountedFor == Spec => [](NoLoss => PoolsAccounted)
<1>1. IInv /\ Accounts => (NoLoss => PoolsAccounted)
  <2> SUFFICES ASSUME IInv, Accounts, NoLoss PROVE PoolsAccounted
    OBVIOUS
  <2>1. SlotsHeld /\ JobsHeld /\ ChunksHeld
    BY DEF Accounts, Stocked, NoLoss
  <2>2. usedSlots = UNION {Held(h) : h \in Holders}
    BY <2>1 DEF SlotsHeld, Somewhere, IInv, SlotOwnership, HeldInUse
  <2>3. \A j \in QueuedJobs : j \in usedJobs /\ jobData[j].chunk \in usedChunks
    BY QueuedAre, PoolOwnershipIs DEF IInv, Jobbing, Pooled, DataChunk
  <2>4. usedJobs = QueuedJobs \cup ({chunkCall.job, httpd.job} \ {None})
    BY <2>1, <2>3 DEF JobsHeld, IInv, Jobbing
  <2>5. usedChunks = {jobData[j].chunk : j \in QueuedJobs}
                     \cup ({chunkCall.chunk} \ {None})
    BY <2>1, <2>3 DEF ChunksHeld, IInv, Jobbing
  <2> QED BY <2>2, <2>4, <2>5 DEF PoolsAccounted, QueuedJobs
<1> QED BY <1>1, Invariance, AccountsInvariance, PTL

\* A slot that is held is open or answered.
LEMMA HeldParts == ASSUME IInv PROVE Somewhere \subseteq Open \cup Answered
BY HeldIs DEF Somewhere, Holders, Open, Answered, IInv, Shape, TypeOK,
              ServerTypeOK, TaskTypeOK

\* With room in the control socket, no post lost and no more sessions than
\* slots, a request that finds no slot finds one whose reply is complete: the
\* order of http_server_send_response and bank_free is the only cause.
THEOREM OnlyLateRelease ==
  Spec => [](NoLoss /\ SlotsSuffice => OnlyLateReleaseExhausts)
<1>1. IInv /\ Accounts => (NoLoss /\ SlotsSuffice => OnlyLateReleaseExhausts)
  <2> SUFFICES ASSUME IInv, Accounts, NoLoss, SlotsSuffice, usedSlots = Slots,
                      NEW k \in Sockets, session[k] # "async", Answered = {}
               PROVE  FALSE
    BY DEF OnlyLateReleaseExhausts
  <2> DEFINE others == Sockets \ {k}
             f == [s \in Slots |-> slot[s].req]
  <2>1. Slots \subseteq Live
    BY HeldParts DEF Accounts, SlotsHeld, Live
  <2>2. f \in [Slots -> others]
    BY <2>1 DEF IInv, Waiting
  <2>3. \A s, t \in Slots : f[s] = f[t] => s = t
    BY <2>1 DEF IInv, Waiting
  <2>4. /\ IsFiniteSet(others) /\ Cardinality(others) = Cardinality(Sockets) - 1
        /\ Cardinality(Sockets) \in Nat /\ Cardinality(Slots) \in Nat
        /\ IsFiniteSet(Slots)
    BY FS_RemoveElement, FS_CardinalityType, DelegateFits DEF SlotsSuffice
  <2>5. Cardinality(others) < Cardinality(Slots)
    BY <2>4 DEF SlotsSuffice
  <2> HIDE DEF f, others
  <2> QED BY <2>2, <2>3, <2>4, <2>5, FS_PigeonHole
<1> QED BY <1>1, Invariance, AccountsInvariance, PTL

\* With room for the 11 items, no caller of httpd_queue_work finds the control
\* socket full: httpd about to queue a finalize item, or the delegate task
\* with a log in hand, has room for one more.  (The close of a session takes
\* the place of the item that queues it.)
THEOREM NothingDropped ==
  Spec => [](Roomy => ((httpd.at = "queueFinalize" \/ delegate.slot # None)
                         => Len(work) < WorkCap))
<1>1. IInv /\ Accounts =>
        (Roomy => ((httpd.at = "queueFinalize" \/ delegate.slot # None)
                     => Len(work) < WorkCap))
  <2> SUFFICES ASSUME IInv, Accounts, Roomy,
                      httpd.at = "queueFinalize" \/ delegate.slot # None
               PROVE  Len(work) < WorkCap
    OBVIOUS
  <2>1. Paired /\ StreamsHeld
    BY DEF Accounts, Stocked
  <2>2. Len(work) + 2 <= Cardinality(Jobs) + 2 * Cardinality(Slots)
    BY <2>1, RoomToFinalize, RoomForDelegate
  <2>3. /\ Len(work) \in Nat /\ WorkCap \in Nat
        /\ Cardinality(Jobs) \in Nat /\ Cardinality(Slots) \in Nat
    BY ItemsTyped, PlacesCounted, ServerAssumption
  <2> QED BY <2>2, <2>3 DEF Roomy
<1> QED BY <1>1, Invariance, AccountsInvariance, PTL
=============================================================================
