------------------------ MODULE RequestPathInvariant ------------------------
(***************************************************************************)
(* The inductive invariant of RequestPath: what the type invariant and the *)
(* ownership of slots, jobs and chunks rest on from one step to the next.  *)
(* It holds whether or not posts and work items are lost.                  *)
(***************************************************************************)
EXTENDS RequestPath

DataItems == {i \in DOMAIN work : work[i].fn = "data"}

\* The slot and the chunk of the data item at place i of the work queue.
DataSlot(i)  == jobData[work[i].arg].slot
DataChunk(i) == jobData[work[i].arg].chunk
DataSlots    == {DataSlot(i) : i \in DataItems}

\* The fields of a task's state that go together.
Shape ==
  /\ httpd.slot # None <=> httpd.at \in {"post", "refuse", "release",
                                         "queueFinalize"}
  /\ httpd.job # None <=> httpd.at = "freeJob"
  /\ loop.slot # None <=> loop.at # "idle"
  /\ chunkCall.at # "idle" => /\ chunkCall.slot = delegate.slot
                              /\ delegate.slot # None
  /\ chunkCall.at \in {"idle", "chunk"} => chunkCall.chunk = None
  /\ chunkCall.at # "queue" => chunkCall.job = None
  /\ \A e \in Range(eventQ) : e.ctx = None <=> e.id = "REBOOT_REQUIRED"

\* A session whose close is queued is closing.
Closings ==
  \A w \in Range(work) : w.fn = "sessClose" => session[w.arg] = "closing"

\* Queued jobs are filled in, and allocated with their chunks, once each.
Jobbing ==
  /\ \A i \in DataItems : DataSlot(i) \in Slots /\ DataChunk(i) \in Chunks
  /\ httpd.job # None => httpd.job \in usedJobs
  /\ chunkCall.job # None => chunkCall.job \in usedJobs \ {httpd.job}
  /\ chunkCall.chunk # None => chunkCall.chunk \in usedChunks
  /\ PoolOwnership

\* The slot of queued data is with the delegate task, in a later close item
\* or, if that item was lost, nowhere: it stays allocated.
StreamsInUse == DataSlots \subseteq usedSlots

StreamsApart ==
  \A h \in Holders \ {"delegate", "close"} : DataSlots \cap Held(h) = {}

StreamsFirst ==
  \A i \in DataItems : \A j \in 1..i :
    work[j].fn = "close" => work[j].arg # DataSlot(i)

Streaming == StreamsInUse /\ StreamsApart /\ StreamsFirst

\* The slots through which something may still be sent: they belong to
\* distinct sessions that wait.
Live == Open \cup DataSlots

Waiting ==
  /\ \A s \in Live : /\ slot[s].req \in Sockets
                     /\ session[slot[s].req] = "async"
  /\ \A s, t \in Live : slot[s].req = slot[t].req => s = t

\* Each is where the endpoint that was asked for takes it.
AskedOf(s) == asked[slot[s].req]

LogSlots == Held("delegateQ") \cup Held("delegate") \cup Held("close")
            \cup DataSlots

Routing ==
  /\ \A s \in Live : AskedOf(s) \in Endpoints
  /\ \A e \in Range(eventQ) :
       /\ e.id \in GateEvents => AskedOf(e.ctx) =
            IF e.id = "GATE_OPEN" THEN "/open-gate" ELSE "/close-gate"
       /\ e.id = "LOG" => AskedOf(e.ctx) = "/get-log"
  /\ \A c \in radio : AskedOf(c.ctx) =
       IF c.command = "OPEN_LOCK" THEN "/open-gate" ELSE "/close-gate"
  /\ loop.at = "delegate" => AskedOf(loop.slot) = "/get-log"
  /\ \A s \in LogSlots : AskedOf(s) = "/get-log"

IInv ==
  /\ TypeOK
  /\ Shape
  /\ SlotOwnership
  /\ Closings
  /\ Jobbing
  /\ Streaming
  /\ Waiting
  /\ Routing
=============================================================================
