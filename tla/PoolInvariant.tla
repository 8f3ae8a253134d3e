---------------------------- MODULE PoolInvariant ----------------------------
(***************************************************************************)
(* What WorkBound, PoolsAccounted and OnlyLateReleaseExhausts rest on,     *)
(* besides IInv: that the control socket of httpd has room for all that is *)
(* ever queued, why it has, and that nothing allocated is forgotten.       *)
(***************************************************************************)
EXTENDS RequestPathInvariant

\* Constants for which the control socket drops nothing, and for which
\* nothing at all is lost.
Roomy  == Cardinality(Jobs) + 2 * Cardinality(Slots) - 1 <= WorkCap
NoLoss == Roomy /\ ~LossyPost

\* No more sessions than async slots (max_open_sockets, MAX_ASYNC_REQUESTS).
SlotsSuffice == IsFiniteSet(Sockets) /\ Cardinality(Sockets) <= Cardinality(Slots)

\* In a queue q of work items: the item at place i ends a session, the one at
\* place j is the next that ends a session or gives back a slot, and gives
\* back a slot.
EndsAt(q, i)  == q[i].fn = "sessClose"
FreesAt(q, i) == q[i].fn = "finalize"

Apart(q, i, j) ==
  \A m \in DOMAIN q : i < m /\ m < j => ~EndsAt(q, m) /\ ~FreesAt(q, m)

Follows(q, i, j) == j \in DOMAIN q /\ i < j /\ FreesAt(q, j) /\ Apart(q, i, j)

\* Each close of a session is followed by its slot's finalize item, which may
\* be about to be queued.
Matched(q, pending) ==
  \A i \in DOMAIN q : EndsAt(q, i) =>
    (\E j \in DOMAIN q : Follows(q, i, j)) \/ (pending /\ Apart(q, i, Len(q) + 1))

Paired == Matched(work, httpd.at = "queueFinalize")

\* The jobs queued to httpd.
QueuedJobs == WorkSlots("data")

\* The slot of a queued job is with the delegate task or in a close item.
StreamsHeld ==
  \A j \in QueuedJobs : jobData[j].slot \in Held("delegate") \cup Held("close")

\* What is allocated is in some task's hands or in some queue.
Somewhere  == UNION {Held(h) : h \in Holders}
SlotsHeld  == usedSlots \subseteq Somewhere
JobsHeld   == usedJobs \subseteq QueuedJobs
                                 \cup ({chunkCall.job, httpd.job} \ {None})
ChunksHeld == usedChunks \subseteq {jobData[j].chunk : j \in QueuedJobs}
                                   \cup ({chunkCall.chunk} \ {None})

\* What does not depend on whether posts are lost.
Stocked ==
  /\ Len(work) <= WorkCap
  /\ Roomy => StreamsHeld /\ Paired /\ JobsHeld /\ ChunksHeld

Accounts == Stocked /\ (NoLoss => SlotsHeld)
=============================================================================
