-------------------------- MODULE RequestPathLemmas -------------------------
(***************************************************************************)
(* Lemmas the invariance proof of RequestPath rests on: what Append and    *)
(* Tail do to the queues, and what moving a slot from one place to another *)
(* does to its ownership.                                                  *)
(***************************************************************************)
EXTENDS RequestPathInvariant, TLAPS

EventRecord == [id : EventIds, ctx : Slots \cup {None}, success : BOOLEAN]

\* The elements of a queue after its head is taken.
LEMMA TailElements ==
  ASSUME NEW S, NEW q \in Seq(S), q # <<>>
  PROVE  /\ Tail(q) \in Seq(S)
         /\ 1 \in DOMAIN q /\ Head(q) = q[1] /\ q[1] \in S
         /\ DOMAIN Tail(q) = 1..(Len(q) - 1)
         /\ DOMAIN q = 1..Len(q)
         /\ Len(q) \in Nat \ {0}
         /\ \A i \in DOMAIN Tail(q) : i + 1 \in DOMAIN q /\ Tail(q)[i] = q[i + 1]
  OBVIOUS

\* The elements of a queue after an element is appended.
LEMMA AppendElements ==
  ASSUME NEW S, NEW q \in Seq(S), NEW e \in S
  PROVE  /\ Append(q, e) \in Seq(S)
         /\ Len(q) \in Nat
         /\ DOMAIN q = 1..Len(q)
         /\ DOMAIN Append(q, e) = 1..(Len(q) + 1)
         /\ \A i \in DOMAIN q : i \in DOMAIN Append(q, e)
                                /\ Append(q, e)[i] = q[i]
         /\ Append(q, e)[Len(q) + 1] = e
  OBVIOUS

\* The range of a queue whose head is taken.
LEMMA TailRange ==
  ASSUME NEW S, NEW q \in Seq(S), q # <<>>
  PROVE  Range(q) = {Head(q)} \cup Range(Tail(q))
<1>1. Range(q) \subseteq {Head(q)} \cup Range(Tail(q))
  <2> SUFFICES ASSUME NEW i \in DOMAIN q, i # 1
               PROVE  q[i] \in Range(Tail(q))
    BY TailElements DEF Range
  <2>1. i - 1 \in DOMAIN Tail(q) /\ Tail(q)[i - 1] = q[i]
    BY TailElements
  <2> QED BY <2>1 DEF Range
<1>2. {Head(q)} \cup Range(Tail(q)) \subseteq Range(q)
  BY TailElements DEF Range
<1> QED BY <1>1, <1>2

\* The range of a queue after an append.
LEMMA AppendRange ==
  ASSUME NEW S, NEW q \in Seq(S), NEW e \in S
  PROVE  Range(Append(q, e)) = Range(q) \cup {e}
<1>1. Range(q) \cup {e} \subseteq Range(Append(q, e))
  BY AppendElements DEF Range
<1>2. Range(Append(q, e)) \subseteq Range(q) \cup {e}
  <2> SUFFICES ASSUME NEW i \in DOMAIN Append(q, e), i \notin DOMAIN q
               PROVE  Append(q, e)[i] = e
    BY AppendElements DEF Range
  <2>1. i = Len(q) + 1
    BY AppendElements
  <2> QED BY <2>1, AppendElements
<1> QED BY <1>1, <1>2

-----------------------------------------------------------------------------
(***************************************************************************)
(* Ownership.                                                              *)
(***************************************************************************)

\* Slot s moves to place b, from a place that gives it up or from none; the
\* other places gain nothing.
LEMMA MoveSlot ==
  ASSUME HeldApart, HeldInUse, NEW b \in Holders, NEW s \in usedSlots',
         usedSlots \subseteq usedSlots',
         \A h \in Holders \ {b} : Held(h)' \subseteq Held(h) \ {s},
         Held(b)' \subseteq Held(b) \cup {s}
  PROVE  HeldApart' /\ HeldInUse'
BY DEF HeldApart, HeldInUse

\* Slot s is given back: no place has it any more, and none gains a slot.
LEMMA ReturnSlot ==
  ASSUME HeldApart, HeldInUse, NEW s,
         usedSlots' = usedSlots \ {s},
         \A h \in Holders : Held(h)' \subseteq Held(h) \ {s}
  PROVE  HeldApart' /\ HeldInUse'
BY DEF HeldApart, HeldInUse

\* No place gains a slot.
LEMMA KeepSlots ==
  ASSUME HeldApart, HeldInUse, usedSlots' = usedSlots,
         \A h \in Holders : Held(h)' \subseteq Held(h)
  PROVE  HeldApart' /\ HeldInUse'
BY DEF HeldApart, HeldInUse

\* Held, place by place.
LEMMA HeldIs ==
  /\ Held("httpd") = {httpd.slot} \ {None}
  /\ Held("event") = {e.ctx : e \in Range(eventQ)} \ {None}
  /\ Held("loop") = {loop.slot} \ {None}
  /\ Held("radio") = {c.ctx : c \in radio}
  /\ Held("delegateQ") = Range(delegateQ)
  /\ Held("delegate") = {delegate.slot} \ {None}
  /\ Held("close") = WorkSlots("close")
  /\ Held("finalize") = WorkSlots("finalize")
BY DEF Held

\* Held after the step, place by place.
LEMMA HeldIsNext ==
  /\ Held("httpd")' = {httpd'.slot} \ {None}
  /\ Held("event")' = {e.ctx : e \in Range(eventQ')} \ {None}
  /\ Held("loop")' = {loop'.slot} \ {None}
  /\ Held("radio")' = {c.ctx : c \in radio'}
  /\ Held("delegateQ")' = Range(delegateQ')
  /\ Held("delegate")' = {delegate'.slot} \ {None}
  /\ Held("close")' = WorkSlots("close")'
  /\ Held("finalize")' = WorkSlots("finalize")'
BY DEF Held

-----------------------------------------------------------------------------
(***************************************************************************)
(* The queues as places of slots.                                          *)
(***************************************************************************)
\* The event loop takes the oldest event.
LEMMA EventTail ==
  ASSUME TypeOK, EventsOnce, eventQ # <<>>, eventQ' = Tail(eventQ)
  PROVE  /\ EventsOnce'
         /\ Held("event")' = Held("event") \ {Head(eventQ).ctx}
         /\ Head(eventQ) \in EventRecord /\ Head(eventQ) = eventQ[1]
         /\ 1 \in DOMAIN eventQ
         /\ Head(eventQ).ctx # None => Head(eventQ).ctx \in Held("event")
<1>1. eventQ \in Seq(EventRecord)
  BY DEF TypeOK, TaskTypeOK, EventRecord
<1>2. EventsOnce'
  <2> SUFFICES ASSUME NEW i \in DOMAIN eventQ', NEW j \in DOMAIN eventQ',
                      eventQ'[i].ctx # None, eventQ'[i].ctx = eventQ'[j].ctx
               PROVE  i = j
    BY DEF EventsOnce
  <2>1. i + 1 = j + 1
    BY <1>1, TailElements DEF EventsOnce
  <2> QED BY <1>1, <2>1, TailElements
<1>3. \A e \in Range(Tail(eventQ)) : e.ctx # None => e.ctx # Head(eventQ).ctx
  <2> SUFFICES ASSUME NEW i \in DOMAIN Tail(eventQ),
                      Tail(eventQ)[i].ctx # None,
                      Tail(eventQ)[i].ctx = Head(eventQ).ctx
               PROVE  FALSE
    BY DEF Range
  <2>1. i + 1 \in DOMAIN eventQ /\ eventQ[i + 1].ctx = eventQ[1].ctx
    BY <1>1, TailElements
  <2>2. i + 1 = 1
    BY <1>1, <2>1, TailElements DEF EventsOnce
  <2> QED BY <1>1, <2>2, TailElements
<1>4. Held("event")' = Held("event") \ {Head(eventQ).ctx}
  BY <1>1, <1>3, TailRange, HeldIs, HeldIsNext
<1> QED BY <1>1, <1>2, <1>4, TailElements, TailRange, HeldIs

\* The loop's queue gains an event whose slot it does not have yet.
LEMMA EventAppend ==
  ASSUME TypeOK, EventsOnce, NEW e \in EventRecord,
         e.ctx \notin Held("event"), eventQ' = Append(eventQ, e)
  PROVE  /\ EventsOnce'
         /\ Held("event")' = Held("event") \cup ({e.ctx} \ {None})
<1>1. eventQ \in Seq(EventRecord)
  BY DEF TypeOK, TaskTypeOK, EventRecord
<1>2. EventsOnce'
  <2> SUFFICES ASSUME NEW i \in DOMAIN eventQ', NEW j \in DOMAIN eventQ',
                      eventQ'[i].ctx # None, eventQ'[i].ctx = eventQ'[j].ctx
               PROVE  i = j
    BY DEF EventsOnce
  <2>1. \A k \in DOMAIN eventQ : eventQ[k].ctx # None => eventQ[k].ctx # e.ctx
    BY HeldIs DEF Range
  <2>2. \A k \in DOMAIN eventQ' :
           \/ k \in DOMAIN eventQ /\ eventQ'[k] = eventQ[k]
           \/ k = Len(eventQ) + 1 /\ eventQ'[k] = e
    BY <1>1, AppendElements
  <2> QED BY <2>1, <2>2 DEF EventsOnce
<1>3. Held("event")' = Held("event") \cup ({e.ctx} \ {None})
  BY <1>1, AppendRange, HeldIs, HeldIsNext
<1> QED BY <1>2, <1>3

\* The delegate task takes the oldest slot of its queue.
LEMMA DelegateTail ==
  ASSUME TypeOK, IsInjective(delegateQ), delegateQ # <<>>,
         delegateQ' = Tail(delegateQ)
  PROVE  /\ IsInjective(delegateQ)'
         /\ Held("delegateQ")' = Held("delegateQ") \ {Head(delegateQ)}
         /\ Head(delegateQ) \in Held("delegateQ")
         /\ Head(delegateQ) \in Slots
<1>1. delegateQ \in Seq(Slots)
  BY DEF TypeOK, TaskTypeOK
<1>2. IsInjective(delegateQ)'
  <2> SUFFICES ASSUME NEW i \in DOMAIN delegateQ', NEW j \in DOMAIN delegateQ',
                      delegateQ'[i] = delegateQ'[j]
               PROVE  i = j
    BY DEF IsInjective
  <2>1. i + 1 = j + 1
    BY <1>1, TailElements DEF IsInjective
  <2> QED BY <1>1, <2>1, TailElements
<1>3. Head(delegateQ) \notin Range(Tail(delegateQ))
  <2> SUFFICES ASSUME NEW i \in DOMAIN Tail(delegateQ),
                      Tail(delegateQ)[i] = Head(delegateQ)
               PROVE  FALSE
    BY DEF Range
  <2>1. i + 1 = 1
    BY <1>1, TailElements DEF IsInjective
  <2> QED BY <1>1, <2>1, TailElements
<1> QED BY <1>1, <1>2, <1>3, TailElements, TailRange, HeldIs, HeldIsNext

\* The delegate queue gains a slot it does not have yet.
LEMMA DelegateAppend ==
  ASSUME TypeOK, IsInjective(delegateQ), NEW s \in Slots,
         s \notin Held("delegateQ"), delegateQ' = Append(delegateQ, s)
  PROVE  /\ IsInjective(delegateQ)'
         /\ Held("delegateQ")' = Held("delegateQ") \cup {s}
<1>1. delegateQ \in Seq(Slots)
  BY DEF TypeOK, TaskTypeOK
<1>2. IsInjective(delegateQ)'
  <2> SUFFICES ASSUME NEW i \in DOMAIN delegateQ', NEW j \in DOMAIN delegateQ',
                      delegateQ'[i] = delegateQ'[j]
               PROVE  i = j
    BY DEF IsInjective
  <2>1. \A k \in DOMAIN delegateQ : delegateQ[k] # s
    BY HeldIs DEF Range
  <2>2. \A k \in DOMAIN delegateQ' :
           \/ k \in DOMAIN delegateQ /\ delegateQ'[k] = delegateQ[k]
           \/ k = Len(delegateQ) + 1 /\ delegateQ'[k] = s
    BY <1>1, AppendElements
  <2> QED BY <2>1, <2>2 DEF IsInjective
<1> QED BY <1>1, <1>2, AppendRange, HeldIs, HeldIsNext

\* The work queue: the arguments of the items with function fn in a queue q.
ItemArgs(q, fn) == {w.arg : w \in {v \in Range(q) : v.fn = fn}}

ItemsOnce(q) ==
  \A i, j \in DOMAIN q : q[i].fn # "data" /\ q[i] = q[j] => i = j

\* The arguments of the items left when the oldest item is taken.
LEMMA ItemArgsTail ==
  ASSUME NEW q \in Seq(WorkItem), q # <<>>, ItemsOnce(q), NEW fn, fn # "data"
  PROVE  /\ ItemsOnce(Tail(q))
         /\ ItemArgs(q, fn) = ItemArgs(Tail(q), fn) \cup
              (IF Head(q).fn = fn THEN {Head(q).arg} ELSE {})
         /\ Head(q).fn = fn => Head(q).arg \notin ItemArgs(Tail(q), fn)
<1>1. ItemsOnce(Tail(q))
  <2> SUFFICES ASSUME NEW i \in DOMAIN Tail(q), NEW j \in DOMAIN Tail(q),
                      Tail(q)[i].fn # "data", Tail(q)[i] = Tail(q)[j]
               PROVE  i = j
    BY DEF ItemsOnce
  <2>1. i + 1 = j + 1
    BY TailElements DEF ItemsOnce
  <2> QED BY <2>1, TailElements
<1>2. Head(q) \notin Range(Tail(q)) \/ Head(q).fn = "data"
  <2> SUFFICES ASSUME NEW i \in DOMAIN Tail(q), Tail(q)[i] = Head(q),
                      Head(q).fn # "data"
               PROVE  FALSE
    BY DEF Range
  <2>1. i + 1 = 1
    BY TailElements DEF ItemsOnce
  <2> QED BY <2>1, TailElements
<1>3. ItemArgs(q, fn) = ItemArgs(Tail(q), fn) \cup
              (IF Head(q).fn = fn THEN {Head(q).arg} ELSE {})
  BY TailRange DEF ItemArgs
<1>4. ASSUME Head(q).fn = fn, Head(q).arg \in ItemArgs(Tail(q), fn)
      PROVE  FALSE
  <2>1. PICK w \in Range(Tail(q)) : w.fn = fn /\ w.arg = Head(q).arg
    BY <1>4 DEF ItemArgs
  <2>2. w \in WorkItem /\ Head(q) \in WorkItem
    BY TailElements DEF Range
  <2>3. w = Head(q)
    BY <1>4, <2>1, <2>2 DEF WorkItem
  <2> QED BY <1>2, <1>4, <2>3
<1> QED BY <1>1, <1>3, <1>4

\* The arguments of the items when an item is appended.
LEMMA ItemArgsAppend ==
  ASSUME NEW q \in Seq(WorkItem), NEW w \in WorkItem, ItemsOnce(q),
         w.fn # "data" => w.arg \notin ItemArgs(q, w.fn), NEW fn
  PROVE  /\ ItemsOnce(Append(q, w))
         /\ ItemArgs(Append(q, w), fn) = ItemArgs(q, fn) \cup
              (IF w.fn = fn THEN {w.arg} ELSE {})
<1>1. ItemsOnce(Append(q, w))
  <2> SUFFICES ASSUME NEW i \in DOMAIN Append(q, w),
                      NEW j \in DOMAIN Append(q, w),
                      Append(q, w)[i].fn # "data",
                      Append(q, w)[i] = Append(q, w)[j]
               PROVE  i = j
    BY DEF ItemsOnce
  <2>1. \A k \in DOMAIN q : q[k].fn # "data" => q[k] # w
    BY DEF Range, ItemArgs
  <2> QED BY <2>1, AppendElements DEF ItemsOnce
<1>2. ItemArgs(Append(q, w), fn) = ItemArgs(q, fn) \cup
              (IF w.fn = fn THEN {w.arg} ELSE {})
  BY AppendRange DEF ItemArgs
<1> QED BY <1>1, <1>2

\* The httpd task takes its oldest work item: which slots leave its queue.
LEMMA WorkTail ==
  ASSUME TypeOK, WorkOnce, work # <<>>, work' = Tail(work)
  PROVE  /\ WorkOnce'
         /\ Head(work) \in WorkItem /\ Head(work) = work[1]
         /\ 1 \in DOMAIN work /\ Head(work) \in Range(work)
         /\ Range(work') \subseteq Range(work)
         /\ Head(work).fn = "close" =>
              /\ Head(work).arg \in Held("close")
              /\ Held("close")' = Held("close") \ {Head(work).arg}
              /\ Held("finalize")' = Held("finalize")
         /\ Head(work).fn = "finalize" =>
              /\ Head(work).arg \in Held("finalize")
              /\ Held("close")' = Held("close")
              /\ Held("finalize")' = Held("finalize") \ {Head(work).arg}
         /\ Head(work).fn \in {"data", "sessClose"} =>
              /\ Held("close")' = Held("close")
              /\ Held("finalize")' = Held("finalize")
         /\ Head(work).fn = "sessClose" =>
              \A w \in Range(work') : w.fn = "sessClose"
                                        => w.arg # Head(work).arg
<1>1. work \in Seq(WorkItem)
  BY DEF TypeOK, ServerTypeOK
<1>2. ItemsOnce(work)
  BY DEF WorkOnce, ItemsOnce
<1>3. WorkOnce'
  BY <1>1, <1>2, ItemArgsTail DEF WorkOnce, ItemsOnce
<1>4. \A fn : WorkSlots(fn) = ItemArgs(work, fn)
              /\ WorkSlots(fn)' = ItemArgs(work', fn)
  BY DEF WorkSlots, ItemArgs
<1>5. /\ Held("close") = ItemArgs(work, "close")
      /\ Held("close")' = ItemArgs(work', "close")
      /\ Held("finalize") = ItemArgs(work, "finalize")
      /\ Held("finalize")' = ItemArgs(work', "finalize")
  BY <1>4, HeldIs, HeldIsNext
<1>6. Head(work).fn = "sessClose" =>
        Head(work).arg \notin ItemArgs(work', "sessClose")
  BY <1>1, <1>2, ItemArgsTail
<1>7. Head(work) \in WorkItem /\ Head(work) \in Range(work)
      /\ Range(work') \subseteq Range(work)
      /\ Head(work) = work[1] /\ 1 \in DOMAIN work
  BY <1>1, TailElements, TailRange
<1>8. /\ "close" # "data" /\ "finalize" # "data"
      /\ ItemArgs(work, "close") = ItemArgs(work', "close") \cup
           (IF Head(work).fn = "close" THEN {Head(work).arg} ELSE {})
      /\ ItemArgs(work, "finalize") = ItemArgs(work', "finalize") \cup
           (IF Head(work).fn = "finalize" THEN {Head(work).arg} ELSE {})
      /\ Head(work).fn = "close" =>
           Head(work).arg \notin ItemArgs(work', "close")
      /\ Head(work).fn = "finalize" =>
           Head(work).arg \notin ItemArgs(work', "finalize")
  BY <1>1, <1>2, ItemArgsTail
<1>9. Head(work).fn = "sessClose" =>
        \A w \in Range(work') : w.fn = "sessClose" => w.arg # Head(work).arg
  BY <1>6 DEF ItemArgs
<1> QED BY <1>3, <1>5, <1>7, <1>8, <1>9, ZenonT(30)

\* A work item is queued, or dropped because the control socket is full.
LEMMA WorkQueued ==
  ASSUME TypeOK, WorkOnce, NEW w \in WorkItem, QueueWork(w),
         w.fn # "data" => w.arg \notin WorkSlots(w.fn)
  PROVE  /\ WorkOnce'
         /\ work' \in Seq(WorkItem)
         /\ Range(work') \subseteq Range(work) \cup {w}
         /\ Held("close")' \subseteq Held("close") \cup
              (IF w.fn = "close" THEN {w.arg} ELSE {})
         /\ Held("finalize")' \subseteq Held("finalize") \cup
              (IF w.fn = "finalize" THEN {w.arg} ELSE {})
         /\ \A i \in DOMAIN work' :
              \/ i \in DOMAIN work /\ work'[i] = work[i]
              \/ work'[i] = w /\ \A j \in DOMAIN work : j < i
<1>1. work \in Seq(WorkItem)
  BY DEF TypeOK, ServerTypeOK
<1>2. CASE work' = work
  BY <1>1, <1>2, HeldIs, HeldIsNext DEF WorkOnce, WorkSlots
<1>3. CASE work' = Append(work, w)
  <2>1. ItemsOnce(work) /\ (w.fn # "data" => w.arg \notin ItemArgs(work, w.fn))
    BY DEF WorkOnce, ItemsOnce, WorkSlots, ItemArgs
  <2>2. /\ Held("close") = ItemArgs(work, "close")
        /\ Held("close")' = ItemArgs(work', "close")
        /\ Held("finalize") = ItemArgs(work, "finalize")
        /\ Held("finalize")' = ItemArgs(work', "finalize")
    BY HeldIs, HeldIsNext DEF ItemArgs, WorkSlots
  <2>3. WorkOnce'
    BY <1>1, <1>3, <2>1, ItemArgsAppend DEF WorkOnce, ItemsOnce
  <2>4. /\ ItemArgs(work', "close") = ItemArgs(work, "close") \cup
             (IF w.fn = "close" THEN {w.arg} ELSE {})
        /\ ItemArgs(work', "finalize") = ItemArgs(work, "finalize") \cup
             (IF w.fn = "finalize" THEN {w.arg} ELSE {})
    BY <1>1, <1>3, <2>1, ItemArgsAppend
  <2>5. /\ work' \in Seq(WorkItem)
        /\ Range(work') \subseteq Range(work) \cup {w}
        /\ \A i \in DOMAIN work' :
              \/ i \in DOMAIN work /\ work'[i] = work[i]
              \/ work'[i] = w /\ \A j \in DOMAIN work : j < i
    BY <1>1, <1>3, AppendElements, AppendRange
  <2> QED BY <2>2, <2>3, <2>4, <2>5
<1> QED BY <1>2, <1>3 DEF QueueWork

-----------------------------------------------------------------------------
(***************************************************************************)
(* What the parts of the invariant depend on.                              *)
(***************************************************************************)
holdVars == <<httpd, eventQ, loop, radio, delegateQ, delegate, work>>

\* The places of slots depend on the queues and the tasks' variables.
LEMMA FrameHeld ==
  ASSUME UNCHANGED holdVars
  PROVE  /\ \A h \in Holders : Held(h)' = Held(h)
         /\ Open' = Open
         /\ Answered' = Answered
BY DEF holdVars, Held, Holders, Open, Answered, WorkSlots

\* So does the ownership of slots, and on what is allocated.
LEMMA FrameOwnership ==
  ASSUME SlotOwnership, UNCHANGED <<holdVars, usedSlots>>
  PROVE  SlotOwnership'
<1>1. HeldInUse' /\ HeldApart'
  BY FrameHeld DEF SlotOwnership, HeldInUse, HeldApart
<1> QED
  BY <1>1 DEF SlotOwnership, EventsOnce, RadioOnce, WorkOnce, IsInjective,
              holdVars

\* The data items depend on the work queue and the jobs' contents.
LEMMA FrameData ==
  ASSUME UNCHANGED <<work, jobData>>
  PROVE  /\ DataItems' = DataItems
         /\ DataSlots' = DataSlots
         /\ \A i \in DataItems : /\ DataSlot(i)' = DataSlot(i)
                                 /\ DataChunk(i)' = DataChunk(i)
BY DEF DataItems, DataSlots, DataSlot, DataChunk

\* The ownership of jobs depends on these and on the objects in the hands
\* of the two tasks.
LEMMA FrameJobbing ==
  ASSUME Jobbing, UNCHANGED <<work, jobData, usedJobs, usedChunks>>,
         chunkCall'.job = chunkCall.job, chunkCall'.chunk = chunkCall.chunk,
         httpd'.job = httpd.job
  PROVE  Jobbing'
BY FrameData DEF Jobbing, PoolOwnership

\* A slot that streams nothing may change places.
LEMMA FrameStreaming ==
  ASSUME Streaming, UNCHANGED <<work, jobData>>,
         usedSlots \subseteq usedSlots', NEW s, s \notin DataSlots,
         \A h \in Holders \ {"delegate", "close"} :
           Held(h)' \subseteq Held(h) \cup {s}
  PROVE  Streaming'
<1>1. StreamsInUse' /\ StreamsApart'
  BY FrameData DEF Streaming, StreamsInUse, StreamsApart
<1>2. StreamsFirst'
  BY FrameData DEF Streaming, StreamsFirst
<1> QED BY <1>1, <1>2 DEF Streaming

\* The live slots keep their requests and their sessions wait on.
LEMMA FrameWaiting ==
  ASSUME Waiting, Live' \subseteq Live,
         \A s \in Live' : /\ slot'[s].req = slot[s].req
                          /\ session'[slot[s].req] = session[slot[s].req]
  PROVE  Waiting'
BY DEF Waiting

\* A step that passes slot s on to place b, and touches no pool, no session
\* and no queued work, keeps what the invariant says of those.
LEMMA PassOn ==
  ASSUME IInv, NEW b \in Holders, NEW s \in usedSlots,
         b \in {"delegate", "close"} \/ s \notin DataSlots,
         UNCHANGED <<work, jobData, usedSlots, usedJobs, usedChunks, slot,
                     session, asked>>,
         chunkCall'.job = chunkCall.job, chunkCall'.chunk = chunkCall.chunk,
         httpd'.job = httpd.job,
         \A h \in Holders \ {b} : Held(h)' \subseteq Held(h) \ {s},
         Held(b)' \subseteq Held(b) \cup {s},
         Open' \subseteq Live
  PROVE  /\ HeldApart' /\ HeldInUse' /\ WorkOnce'
         /\ Closings' /\ Jobbing' /\ Streaming' /\ Waiting'
         /\ Live' \subseteq Live
         /\ DataSlots' = DataSlots
         /\ \A t : AskedOf(t)' = AskedOf(t)
<1>1. HeldApart' /\ HeldInUse' /\ WorkOnce'
  BY MoveSlot DEF IInv, SlotOwnership, WorkOnce
<1>2. Closings' /\ Jobbing'
  BY FrameJobbing DEF IInv, Closings
<1>3. Streaming'
  <2>1. StreamsInUse' /\ StreamsFirst'
    BY FrameData DEF IInv, Streaming, StreamsInUse, StreamsFirst
  <2>2. ASSUME NEW h \in Holders \ {"delegate", "close"}
        PROVE  DataSlots' \cap Held(h)' = {}
    BY FrameData DEF IInv, Streaming, StreamsApart
  <2> QED BY <2>1, <2>2 DEF Streaming, StreamsApart
<1>4. Live' \subseteq Live
  BY FrameData DEF Live
<1>5. Waiting'
  BY <1>4, FrameWaiting DEF IInv
<1> QED BY <1>1, <1>2, <1>3, <1>4, <1>5, FrameData DEF AskedOf

\* Queueing a work item that is not data leaves the queued data as it is.
LEMMA QueuedOther ==
  ASSUME TypeOK, WorkOnce, NEW w \in WorkItem, QueueWork(w), w.fn # "data",
         w.arg \notin WorkSlots(w.fn), UNCHANGED jobData
  PROVE  /\ DataItems' = DataItems
         /\ \A i \in DataItems : /\ work'[i] = work[i]
                                 /\ DataSlot(i)' = DataSlot(i)
                                 /\ DataChunk(i)' = DataChunk(i)
         /\ DataSlots' = DataSlots
<1>1. \A i \in DOMAIN work' : \/ i \in DOMAIN work /\ work'[i] = work[i]
                              \/ work'[i] = w
  BY WorkQueued
<1>2. \A i \in DOMAIN work : i \in DOMAIN work' /\ work'[i] = work[i]
  <2>1. work \in Seq(WorkItem)
    BY DEF TypeOK, ServerTypeOK
  <2> QED BY <2>1, AppendElements DEF QueueWork
<1>3. DataItems' = DataItems
  BY <1>1, <1>2 DEF DataItems
<1>4. \A i \in DataItems : work'[i] = work[i]
  BY <1>2 DEF DataItems
<1>5. \A i \in DataItems : /\ DataSlot(i)' = DataSlot(i)
                           /\ DataChunk(i)' = DataChunk(i)
  BY <1>4 DEF DataSlot, DataChunk
<1> QED BY <1>3, <1>4, <1>5 DEF DataSlots

\* A step that passes slot s on to httpd in a work item, or loses that item.
LEMMA PassToHttpd ==
  ASSUME IInv, NEW s \in usedSlots, NEW fn \in {"close", "finalize"},
         QueueWork([fn |-> fn, arg |-> s]),
         s \notin Held("close"), s \notin Held("finalize"),
         fn = "close" \/ s \notin DataSlots,
         UNCHANGED <<jobData, usedSlots, usedJobs, usedChunks, slot,
                     session, asked>>,
         chunkCall'.job = chunkCall.job, chunkCall'.chunk = chunkCall.chunk,
         httpd'.job = httpd.job,
         \A h \in Holders \ {"close", "finalize"} :
           Held(h)' \subseteq Held(h) \ {s},
         Held("close")' \subseteq Held("close") \cup {s} => Open' \subseteq Live
  PROVE  /\ HeldApart' /\ HeldInUse' /\ WorkOnce' /\ work' \in Seq(WorkItem)
         /\ Closings' /\ Jobbing' /\ Streaming' /\ Waiting'
         /\ Live' \subseteq Live
         /\ DataSlots' = DataSlots
         /\ Held("close")' \subseteq Held("close") \cup
              (IF fn = "close" THEN {s} ELSE {})
         /\ \A t : AskedOf(t)' = AskedOf(t)
<1> DEFINE w == [fn |-> fn, arg |-> s]
<1>1. w \in WorkItem /\ w.fn = fn /\ w.arg = s /\ fn # "data"
      /\ fn # "sessClose"
  BY DEF WorkItem, IInv, TypeOK, ServerTypeOK
<1>2. s \notin WorkSlots(fn) /\ TypeOK /\ WorkOnce
  BY HeldIs DEF IInv, SlotOwnership
<1> HIDE DEF w
<1>3. QueueWork(w)
  BY DEF w
<1>4. /\ WorkOnce' /\ work' \in Seq(WorkItem)
      /\ Range(work') \subseteq Range(work) \cup {w}
      /\ Held("close")' \subseteq Held("close") \cup
           (IF fn = "close" THEN {s} ELSE {})
      /\ Held("finalize")' \subseteq Held("finalize") \cup
           (IF fn = "finalize" THEN {s} ELSE {})
      /\ \A i \in DOMAIN work' :
           \/ i \in DOMAIN work /\ work'[i] = work[i]
           \/ work'[i] = w /\ \A j \in DOMAIN work : j < i
  BY <1>1, <1>2, <1>3, WorkQueued
<1>5. /\ DataItems' = DataItems
      /\ \A i \in DataItems : /\ work'[i] = work[i]
                              /\ DataSlot(i)' = DataSlot(i)
                              /\ DataChunk(i)' = DataChunk(i)
      /\ DataSlots' = DataSlots
  BY <1>1, <1>2, <1>3, QueuedOther
<1>6. HeldApart' /\ HeldInUse'
  <2>1. fn \in Holders /\ Holders = {"close", "finalize"} \cup
                                    (Holders \ {"close", "finalize"})
    BY DEF Holders
  <2>2. \A h \in Holders \ {fn} : Held(h)' \subseteq Held(h) \ {s}
    BY <1>4, <2>1
  <2>3. Held(fn)' \subseteq Held(fn) \cup {s}
    BY <1>4
  <2> QED BY <2>1, <2>2, <2>3, MoveSlot DEF IInv, SlotOwnership
<1>7. Closings'
  BY <1>1, <1>4 DEF IInv, Closings
<1>8. Jobbing'
  <2>1. PoolOwnership'
    BY <1>5 DEF IInv, Jobbing, PoolOwnership, DataItems, DataChunk
  <2> QED BY <1>5, <2>1 DEF IInv, Jobbing
<1>9. Streaming'
  <2>1. StreamsInUse'
    BY <1>5 DEF IInv, Streaming, StreamsInUse
  <2>2. StreamsApart'
    BY <1>4, <1>5 DEF IInv, Streaming, StreamsApart, Holders
  <2>3. StreamsFirst'
    <3> SUFFICES ASSUME NEW i \in DataItems, NEW j \in 1..i,
                        work'[j].fn = "close"
                 PROVE  work'[j].arg # DataSlot(i)
      BY <1>5 DEF StreamsFirst
    <3>1. i \in DOMAIN work /\ DOMAIN work = 1..Len(work) /\ Len(work) \in Nat
      BY DEF DataItems, IInv, TypeOK, ServerTypeOK
    <3>2. j \in DOMAIN work
      BY <3>1
    <3>3. work'[j] = work[j]
      <4>1. work \in Seq(WorkItem)
        BY DEF IInv, TypeOK, ServerTypeOK
      <4> QED BY <1>1, <3>2, <4>1, <1>3, AppendElements DEF QueueWork
    <3> QED BY <3>3 DEF IInv, Streaming, StreamsFirst
  <2> QED BY <2>1, <2>2, <2>3 DEF Streaming
<1>10. Live' \subseteq Live
  BY <1>4, <1>5 DEF Live
<1>11. Waiting'
  BY <1>10, FrameWaiting DEF IInv
<1>12. \A t : AskedOf(t)' = AskedOf(t)
  BY DEF AskedOf
<1> QED BY <1>4, <1>5, <1>6, <1>7, <1>8, <1>9, <1>10, <1>11, <1>12

\* PoolOwnership in terms of the data items.
Pooled ==
  /\ \A i \in DataItems :
       /\ work[i].arg \in usedJobs \ {chunkCall.job, httpd.job}
       /\ DataChunk(i) \in usedChunks \ {chunkCall.chunk}
  /\ \A i, j \in DataItems : i # j =>
       /\ work[i].arg # work[j].arg
       /\ DataChunk(i) # DataChunk(j)

\* The two forms are the same.
LEMMA PoolOwnershipIs == PoolOwnership <=> Pooled
BY DEF PoolOwnership, Pooled, DataItems, DataChunk

\* They are the same after a step.
LEMMA PoolOwnershipNext == PoolOwnership' <=> Pooled'
BY DEF PoolOwnership, Pooled, DataItems, DataChunk

\* The queued data after httpd took an item and queued the close of a
\* session, or no item.
LEMMA DataShift ==
  ASSUME IInv, UNCHANGED jobData, work' \in Seq(WorkItem),
         \A i \in DOMAIN work' : \/ i + 1 \in DOMAIN work
                                    /\ work'[i] = work[i + 1]
                                 \/ work'[i].fn = "sessClose"
  PROVE  /\ \A i \in DataItems' : /\ i \in Nat \ {0} /\ i + 1 \in DataItems
                                  /\ work'[i] = work[i + 1]
                                  /\ DataSlot(i)' = DataSlot(i + 1)
                                  /\ DataChunk(i)' = DataChunk(i + 1)
         /\ DataSlots' \subseteq DataSlots
         /\ StreamsFirst'
<1>1. ASSUME NEW i \in DataItems'
      PROVE  /\ i \in Nat \ {0} /\ i + 1 \in DataItems
             /\ work'[i] = work[i + 1]
             /\ DataSlot(i)' = DataSlot(i + 1)
             /\ DataChunk(i)' = DataChunk(i + 1)
  <2>1. i \in DOMAIN work' /\ work'[i].fn = "data"
    BY DEF DataItems
  <2>2. i \in Nat \ {0}
    BY <2>1
  <2>3. i + 1 \in DataItems /\ work'[i] = work[i + 1]
    BY <2>1 DEF DataItems
  <2>4. jobData'[work'[i].arg] = jobData[work[i + 1].arg]
    BY <2>3
  <2> QED BY <2>2, <2>3, <2>4 DEF DataSlot, DataChunk
<1>2. DataSlots' \subseteq DataSlots
  <2> SUFFICES ASSUME NEW i \in DataItems'
               PROVE  DataSlot(i)' \in DataSlots
    BY DEF DataSlots
  <2> QED BY <1>1 DEF DataSlots
<1>3. StreamsFirst'
  <2> SUFFICES ASSUME NEW i \in DataItems', NEW j \in 1..i,
                      work'[j].fn = "close"
               PROVE  work'[j].arg # DataSlot(i)'
    BY DEF StreamsFirst
  <2>1. i + 1 \in DataItems /\ DataSlot(i)' = DataSlot(i + 1)
        /\ i \in Nat \ {0} /\ i \in DOMAIN work'
    BY <1>1 DEF DataItems
  <2>2. j \in DOMAIN work' /\ j + 1 \in 1..(i + 1)
    BY <2>1
  <2>3. work'[j] = work[j + 1]
    BY <2>2
  <2> QED BY <2>1, <2>2, <2>3 DEF IInv, Streaming, StreamsFirst
<1> QED BY <1>1, <1>2, <1>3

\* In such a step no job or chunk changes hands.
LEMMA ShiftJobbing ==
  ASSUME IInv, UNCHANGED <<jobData, usedJobs, usedChunks, chunkCall>>,
         work' \in Seq(WorkItem), httpd'.job = httpd.job,
         \A i \in DOMAIN work' : \/ i + 1 \in DOMAIN work
                                    /\ work'[i] = work[i + 1]
                                 \/ work'[i].fn = "sessClose"
  PROVE  Jobbing'
<1>1. \A i \in DataItems' : /\ i \in Nat \ {0} /\ i + 1 \in DataItems
                            /\ work'[i] = work[i + 1]
                            /\ DataSlot(i)' = DataSlot(i + 1)
                            /\ DataChunk(i)' = DataChunk(i + 1)
  BY DataShift
<1>2. Pooled /\ Pooled'
  <2>1. Pooled
    BY PoolOwnershipIs DEF IInv, Jobbing
  <2>2. Pooled'
    BY <1>1, <2>1 DEF Pooled
  <2> QED BY <2>1, <2>2
<1> QED BY <1>1, <1>2, PoolOwnershipNext DEF IInv, Jobbing

\* The reply on live slot s is completed: the others wait on.
LEMMA Completed ==
  ASSUME IInv, NEW s \in Live, NEW x,
         session' = [session EXCEPT ![slot[s].req] = x],
         slot' = slot, Live' \subseteq Live \ {s}
  PROVE  Waiting'
<1>1. DOMAIN session = Sockets
  BY DEF IInv, TypeOK, ServerTypeOK
<1>2. \A t \in Live \ {s} : slot[t].req \in Sockets
                            /\ slot[t].req # slot[s].req
  BY DEF IInv, Waiting
<1> QED BY <1>1, <1>2, FrameWaiting DEF IInv

\* Live slots are allocated.
LEMMA LiveAreSlots == IInv => Live \subseteq Slots /\ Live \subseteq usedSlots
<1> SUFFICES ASSUME IInv PROVE Live \subseteq usedSlots /\ usedSlots \subseteq Slots
  OBVIOUS
<1>1. usedSlots \subseteq Slots
  BY DEF IInv, TypeOK, ServerTypeOK
<1>2. \A h \in Holders : Held(h) \subseteq usedSlots
  BY DEF IInv, SlotOwnership, HeldInUse
<1>3. httpd.at \in {"post", "refuse"} => httpd.slot \in usedSlots
  BY <1>2, HeldIs DEF IInv, Shape, Holders
<1>4. loop.at \in {"delegate", "answer"} => loop.slot \in usedSlots
  BY <1>2, HeldIs DEF IInv, Shape, Holders
<1> QED
  BY <1>1, <1>2, <1>3, <1>4 DEF Live, Open, Holders, IInv, Streaming,
                                StreamsInUse

\* A step after which every slot is where it was: it changes no session that
\* waits or closes, and posts nothing but the request for a restart.
LEMMA Quiet ==
  ASSUME IInv, TypeOK', Shape', Jobbing', EventsOnce',
         UNCHANGED <<work, usedSlots, radio, delegateQ>>,
         \A i \in DataItems : DataSlot(i)' = DataSlot(i),
         \A e \in Range(eventQ') : e \in Range(eventQ)
                                   \/ e.id = "REBOOT_REQUIRED",
         \A t \in Slots : slot'[t].req = slot[t].req,
         \A k \in Sockets : session[k] \in {"async", "closing"} =>
           session'[k] = session[k] /\ asked'[k] = asked[k],
         \A h \in Holders : Held(h)' = Held(h),
         Open' \subseteq Open,
         loop'.at = "delegate" => loop' = loop
  PROVE  IInv'
<1>1. DataItems' = DataItems /\ DataSlots' = DataSlots
  BY DEF DataItems, DataSlots
<1>2. SlotOwnership'
  BY DEF IInv, SlotOwnership, HeldInUse, HeldApart, RadioOnce, WorkOnce,
         IsInjective
<1>3. Closings'
  <2> SUFFICES ASSUME NEW w \in Range(work), w.fn = "sessClose"
               PROVE  session'[w.arg] = "closing"
    BY DEF Closings
  <2>1. w \in WorkItem
    BY DEF IInv, TypeOK, ServerTypeOK, Range
  <2> QED BY <2>1 DEF IInv, Closings, WorkItem
<1>4. Streaming'
  <2>1. StreamsInUse' /\ StreamsApart'
    BY <1>1 DEF IInv, Streaming, StreamsInUse, StreamsApart
  <2>2. StreamsFirst'
    BY <1>1 DEF IInv, Streaming, StreamsFirst
  <2> QED BY <2>1, <2>2 DEF Streaming
<1>5. Live' \subseteq Live
  BY <1>1 DEF Live
<1>6. \A s \in Live : s \in Slots /\ slot[s].req \in Sockets
                      /\ session[slot[s].req] = "async"
  BY LiveAreSlots DEF IInv, Waiting
<1>7. \A s \in Live : slot'[s].req = slot[s].req /\ AskedOf(s)' = AskedOf(s)
  BY <1>6 DEF AskedOf
<1>8. Waiting'
  BY <1>5, <1>6, FrameWaiting DEF IInv
<1>9. Routing'
  <2>1. LogSlots' = LogSlots
    BY <1>1 DEF LogSlots, Holders
  <2>2. LogSlots \subseteq Live
    BY DEF LogSlots, Live, Open
  <2>3. \A c \in radio : c.ctx \in Live
    BY HeldIs DEF Live, Open
  <2>4. ASSUME NEW e \in Range(eventQ'), e.id # "REBOOT_REQUIRED"
        PROVE  e \in Range(eventQ) /\ e.ctx \in Live
    <3>1. e \in Range(eventQ) /\ e.ctx # None
      BY <2>4 DEF IInv, Shape
    <3> QED BY <3>1, HeldIs DEF Live, Open
  <2>5. loop'.at = "delegate" => loop.slot \in Live /\ loop.at = "delegate"
                                 /\ loop' = loop
    BY DEF Live, Open
  <2> QED
    BY <1>5, <1>7, <2>1, <2>2, <2>3, <2>4, <2>5
       DEF IInv, Routing, GateEvents
<1> QED BY <1>2, <1>3, <1>4, <1>8, <1>9 DEF IInv

\* The end of a reply keeps the type of reply.
LEMMA EndReplyType ==
  ASSUME ServerTypeOK, NEW k \in Sockets, NEW v \in Verdicts, EndReply(k, v)
  PROVE  reply' \in [Sockets -> [heads : Nat, chunks : Seq(Nat),
                                 verdict : Verdicts, ends : Nat]]
BY DEF ServerTypeOK, EndReply

\* A chunk sent keeps the type of reply.
LEMMA SendChunkType ==
  ASSUME ServerTypeOK, NEW k \in Sockets, NEW b \in BOOLEAN, NEW n \in Nat,
         SendChunk(k, b, n)
  PROVE  reply' \in [Sockets -> [heads : Nat, chunks : Seq(Nat),
                                 verdict : Verdicts, ends : Nat]]
BY DEF ServerTypeOK, SendChunk
=============================================================================
