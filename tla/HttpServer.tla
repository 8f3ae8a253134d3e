----------------------------- MODULE HttpServer -----------------------------
(***************************************************************************)
(* The HTTP server of the node: components/http-server/http_server.c on    *)
(* top of the ESP-IDF httpd library.                                       *)
(*                                                                         *)
(* One task, httpd, reads requests and runs the work items that any task   *)
(* queues with httpd_queue_work.  A request that matches an endpoint is    *)
(* detached from that task (httpd_req_async_handler_begin) and is          *)
(* represented by an object of a fixed pool, the async slot; the pointer   *)
(* to the slot is the context that travels through the rest of the node    *)
(* and comes back with the answer.  This module has the server's state,    *)
(* the steps of the httpd task and the operations other tasks call;        *)
(* RequestPath adds those tasks.                                           *)
(***************************************************************************)
EXTENDS Naturals, Sequences, FiniteSets

CONSTANTS
  Sockets,   \* the sessions httpd keeps open (max_open_sockets, 4)
  Slots,     \* g_async_objs (MAX_ASYNC_REQUESTS, 4)
  Chunks,    \* g_chunk_objs (LOG_CHUNK_POOL, 4)
  Jobs,      \* g_job_objs (SEND_JOB_POOL, 4)
  WorkCap,   \* work items the control socket of httpd can hold
  None       \* a null pointer

ASSUME ServerAssumption ==
  /\ WorkCap \in Nat
  /\ None \notin Sockets \cup Slots \cup Chunks \cup Jobs

\* SEND_JOB_POOL is a positive number.
ASSUME JobPool == IsFiniteSet(Jobs) /\ Jobs # {}

\* The endpoints home-node.c registers, and a target that matches none.
GateEndpoints == {"/open-gate", "/close-gate"}
Endpoints     == GateEndpoints \cup {"/get-log", "/ota-update"}
Targets       == Endpoints \cup {"unmatched"}

VARIABLES
  panicked,    \* a CPU exception stopped the node; only a reboot follows
  session,     \* what httpd knows of each socket
  asked,       \* the target of the last request made on each socket
  reply,       \* what has been sent on each socket for that request
  slot,        \* contents of the async slots
  usedSlots,   \* async slots handed out by g_async_bank
  usedChunks,  \* chunks handed out by g_chunk_bank
  usedJobs,    \* jobs handed out by g_job_bank
  chunkData,   \* contents of the chunks: the number of a piece of the log
  jobData,     \* contents of the jobs: a slot and a chunk
  work,        \* work items queued to httpd, oldest first
  httpd,       \* what the httpd task is in the middle of
  chunkCall    \* the running call of http_server_send_chunked_response

poolVars   == <<usedSlots, usedChunks, usedJobs, slot, chunkData, jobData>>
clientVars == <<session, asked, reply>>
serverVars == <<panicked, clientVars, poolVars, work, httpd, chunkCall>>

-----------------------------------------------------------------------------
Verdicts == {"none", "success", "Failed", "failure", "404"}

\* heads: how often the header fields were set for a streamed reply; chunks:
\* the pieces of the log sent, in order; ends: terminating chunks sent.
NoReply == [heads |-> 0, chunks |-> <<>>, verdict |-> "none", ends |-> 0]

IdleTask == [at |-> "idle", slot |-> None, job |-> None]
NoCall   == [at |-> "idle", slot |-> None, n |-> 0,
             chunk |-> None, job |-> None]

WorkItem == [fn : {"data"}, arg : Jobs]
            \cup [fn : {"close", "finalize"}, arg : Slots]
            \cup [fn : {"sessClose"}, arg : Sockets]

ServerTypeOK ==
  /\ panicked \in BOOLEAN
  /\ session \in [Sockets -> {"idle", "request", "async", "closing"}]
  /\ asked \in [Sockets -> Targets]
  /\ reply \in [Sockets -> [heads : Nat, chunks : Seq(Nat),
                            verdict : Verdicts, ends : Nat]]
  /\ slot \in [Slots -> [req : Sockets \cup {None}, started : BOOLEAN]]
  /\ usedSlots \in SUBSET Slots
  /\ usedChunks \in SUBSET Chunks
  /\ usedJobs \in SUBSET Jobs
  /\ chunkData \in [Chunks -> Nat]
  /\ jobData \in [Jobs -> [slot : Slots \cup {None},
                           chunk : Chunks \cup {None}]]
  /\ work \in Seq(WorkItem)
  /\ httpd \in [at : {"idle", "post", "refuse", "release", "freeJob",
                      "queueFinalize"},
                slot : Slots \cup {None}, job : Jobs \cup {None}]
  /\ chunkCall \in [at : {"idle", "chunk", "job", "queue"},
                    slot : Slots \cup {None}, n : Nat,
                    chunk : Chunks \cup {None}, job : Jobs \cup {None}]

\* http_server_init, with the static objects zeroed by the loader.
ServerInit ==
  /\ panicked = FALSE
  /\ session = [k \in Sockets |-> "idle"]
  /\ asked = [k \in Sockets |-> "unmatched"]
  /\ reply = [k \in Sockets |-> NoReply]
  /\ slot = [s \in Slots |-> [req |-> None, started |-> FALSE]]
  /\ usedSlots = {}
  /\ usedChunks = {}
  /\ usedJobs = {}
  /\ chunkData = [c \in Chunks |-> 0]
  /\ jobData = [j \in Jobs |-> [slot |-> None, chunk |-> None]]
  /\ work = <<>>
  /\ httpd = IdleTask
  /\ chunkCall = NoCall

-----------------------------------------------------------------------------
(***************************************************************************)
(* Operations of the server.  Each is a conjunction of the updates one     *)
(* call makes; the caller's step adds the rest.                            *)
(***************************************************************************)

\* httpd_queue_work: every caller ignores its result, so an item that finds
\* the control socket full is dropped.
QueueWork(item) ==
  work' = IF Len(work) < WorkCap THEN Append(work, item) ELSE work

\* The end of a reply on socket k with verdict v.
EndReply(k, v) ==
  reply' = [reply EXCEPT ![k] =
              [heads |-> @.heads, chunks |-> @.chunks,
               verdict |-> v, ends |-> @.ends + 1]]

\* A chunk of a streamed reply on socket k, after the header fields unless
\* they were set before.
SendChunk(k, started, piece) ==
  reply' = [reply EXCEPT ![k] =
              [heads |-> IF started THEN @.heads ELSE @.heads + 1,
               chunks |-> Append(@.chunks, piece),
               verdict |-> @.verdict, ends |-> @.ends]]

\* http_server_send_response, then httpd_req_async_handler_complete in
\* http_server_close_async_connection: the session belongs to httpd again.
Respond(s, v) ==
  LET k == slot[s].req IN
    /\ EndReply(k, v)
    /\ session' = [session EXCEPT ![k] = "idle"]

\* Mutants of InitSlot: a field keeps the value of the slot's last use.
InitSlotKeepsRequest(s, k) == slot' = [slot EXCEPT ![s].started = FALSE]
InitSlotKeepsStarted(s, k) == slot' = [slot EXCEPT ![s].req = k]

\* master_request_handler: the fields of an async slot just allocated.
InitSlot(s, k) == slot' = [slot EXCEPT ![s] = [req |-> k, started |-> FALSE]]

CloseWork(s) == [fn |-> "close", arg |-> s]

\* Mutants of QueueClose: it overtakes the data, comes twice, is forgotten.
QueueCloseFirst(s)     == work' = <<CloseWork(s)>> \o work
QueueCloseTwice(s)     == work' = work \o <<CloseWork(s), CloseWork(s)>>
QueueCloseForgotten(s) == work' = work

\* http_server_send_chunked_response without data: the close worker is queued
\* after all data.
QueueClose(s) == QueueWork(CloseWork(s))

\* Mutant of FreeSlot: the slot is not given back.
FreeSlotForgotten(s) == usedSlots' = usedSlots

\* bank_free(g_async_bank, ..): the object keeps its contents.
FreeSlot(s) == usedSlots' = usedSlots \ {s}

\* bank_free of a chunk or a job.  Nothing reads the contents of a free
\* object, so they are erased.
FreeChunk(c) ==
  /\ usedChunks' = usedChunks \ {c}
  /\ chunkData' = [chunkData EXCEPT ![c] = 0]

FreeJob(j) ==
  /\ usedJobs' = usedJobs \ {j}
  /\ jobData' = [jobData EXCEPT ![j] = [slot |-> None, chunk |-> None]]

-----------------------------------------------------------------------------
(***************************************************************************)
(* The clients.  Every reply carries "Connection: close", so a client      *)
(* sends one request per connection and a socket is reused by a new        *)
(* connection.                                                             *)
(***************************************************************************)
Ask(k, target) ==
  /\ ~panicked
  /\ session[k] = "idle"
  /\ session' = [session EXCEPT ![k] = "request"]
  /\ asked' = [asked EXCEPT ![k] = target]
  /\ reply' = [reply EXCEPT ![k] = NoReply]
  /\ UNCHANGED <<panicked, poolVars, work, httpd, chunkCall>>

-----------------------------------------------------------------------------
(***************************************************************************)
(* The httpd task: it handles a readable session or runs a work item.      *)
(***************************************************************************)

\* master_request_handler, a registered target and a free slot: the request
\* is detached, the slot initialised, and the endpoint's callback entered.
AcceptRequest(k) ==
  /\ ~panicked /\ httpd.at = "idle"
  /\ session[k] = "request" /\ asked[k] \in Endpoints
  /\ \E s \in Slots \ usedSlots :
       /\ usedSlots' = usedSlots \cup {s}
       /\ InitSlot(s, k)
       /\ httpd' = [IdleTask EXCEPT !.at = "post", !.slot = s]
  /\ session' = [session EXCEPT ![k] = "async"]
  /\ UNCHANGED <<panicked, asked, reply, usedChunks, usedJobs, chunkData,
                 jobData, work, chunkCall>>

\* master_request_handler, a registered target and no free slot: bank_alloc
\* returns NULL, and async_slot->response_started is assigned before the
\* NULL test that would answer 503; the store faults.
SlotsExhausted(k) ==
  /\ ~panicked /\ httpd.at = "idle"
  /\ session[k] = "request" /\ asked[k] \in Endpoints
  /\ usedSlots = Slots
  /\ panicked' = TRUE
  /\ UNCHANGED <<clientVars, poolVars, work, httpd, chunkCall>>

\* master_request_handler, no record with that URI: a 404 at once, without
\* detaching the request.
NotFound(k) ==
  /\ ~panicked /\ httpd.at = "idle"
  /\ session[k] = "request" /\ asked[k] \notin Endpoints
  /\ EndReply(k, "404")
  /\ session' = [session EXCEPT ![k] = "idle"]
  /\ UNCHANGED <<panicked, asked, poolVars, work, httpd, chunkCall>>

\* The httpd task takes the oldest work item, which has function fn.
TakeWork(fn) ==
  /\ ~panicked /\ httpd.at = "idle"
  /\ work # <<>> /\ Head(work).fn = fn

\* Mutant of RunData: the job is given back with the chunk, and once more.
RunDataFreesJob ==
  /\ TakeWork("data")
  /\ LET j == Head(work).arg
         s == jobData[j].slot
         c == jobData[j].chunk
         k == slot[s].req
     IN /\ SendChunk(k, slot[s].started, chunkData[c])
        /\ slot' = [slot EXCEPT ![s].started = TRUE]
        /\ FreeChunk(c)
        /\ FreeJob(j)
        /\ httpd' = [IdleTask EXCEPT !.at = "freeJob", !.job = j]
  /\ work' = Tail(work)
  /\ UNCHANGED <<panicked, session, asked, usedSlots, chunkCall>>

\* http_async_data_worker up to bank_free(g_chunk_bank, ..).
RunData ==
  /\ TakeWork("data")
  /\ LET j == Head(work).arg
         s == jobData[j].slot
         c == jobData[j].chunk
         k == slot[s].req
     IN /\ SendChunk(k, slot[s].started, chunkData[c])
        /\ slot' = [slot EXCEPT ![s].started = TRUE]
        /\ FreeChunk(c)
        /\ httpd' = [IdleTask EXCEPT !.at = "freeJob", !.job = j]
  /\ work' = Tail(work)
  /\ UNCHANGED <<panicked, session, asked, usedSlots, usedJobs, jobData,
                 chunkCall>>

\* http_async_data_worker, the rest: bank_free(g_job_bank, job).
EndData ==
  /\ ~panicked /\ httpd.at = "freeJob"
  /\ FreeJob(httpd.job)
  /\ httpd' = IdleTask
  /\ UNCHANGED <<panicked, clientVars, usedSlots, usedChunks, slot,
                 chunkData, work, chunkCall>>

\* http_async_close_worker up to httpd_sess_trigger_close: the last chunk,
\* the request completed, and the close of its session queued.
RunClose ==
  /\ TakeWork("close")
  /\ LET s == Head(work).arg
         k == slot[s].req
         closing == [fn |-> "sessClose", arg |-> k]
     IN /\ EndReply(k, "none")
        /\ session' = [session EXCEPT ![k] = "closing"]
        /\ work' = IF Len(Tail(work)) < WorkCap
                     THEN Append(Tail(work), closing) ELSE Tail(work)
        /\ httpd' = [IdleTask EXCEPT !.at = "queueFinalize", !.slot = s]
  /\ UNCHANGED <<panicked, asked, poolVars, chunkCall>>

\* Mutant of QueueFinalize: the free that was to be deferred is forgotten.
ForgetFinalize ==
  /\ ~panicked /\ httpd.at = "queueFinalize"
  /\ httpd' = IdleTask
  /\ UNCHANGED <<panicked, clientVars, poolVars, work, chunkCall>>

\* http_async_close_worker, the rest: "Defer actual free".
QueueFinalize ==
  /\ ~panicked /\ httpd.at = "queueFinalize"
  /\ QueueWork([fn |-> "finalize", arg |-> httpd.slot])
  /\ httpd' = IdleTask
  /\ UNCHANGED <<panicked, clientVars, poolVars, chunkCall>>

\* The work item of httpd_sess_trigger_close: the session is deleted and its
\* place is open to a new connection.
RunSessClose ==
  /\ TakeWork("sessClose")
  /\ session' = [session EXCEPT ![Head(work).arg] = "idle"]
  /\ work' = Tail(work)
  /\ UNCHANGED <<panicked, asked, reply, poolVars, httpd, chunkCall>>

\* http_async_finalize_worker.
RunFinalize ==
  /\ TakeWork("finalize")
  /\ FreeSlot(Head(work).arg)
  /\ work' = Tail(work)
  /\ UNCHANGED <<panicked, clientVars, usedChunks, usedJobs, slot, chunkData,
                 jobData, httpd, chunkCall>>

RunWork == RunData \/ RunClose \/ RunSessClose \/ RunFinalize

-----------------------------------------------------------------------------
(***************************************************************************)
(* http_server_send_chunked_response with data, in the task that calls it. *)
(* The two allocations are separate: httpd may free a chunk and a job      *)
(* between them.                                                           *)
(***************************************************************************)

\* bank_alloc returns a free object of the pool, or NULL when there is none.
Alloc(pool, used) == IF used = pool THEN {None} ELSE pool \ used

AllocChunk ==
  /\ ~panicked /\ chunkCall.at = "chunk"
  /\ \E c \in Alloc(Chunks, usedChunks) :
       /\ usedChunks' = usedChunks \cup ({c} \ {None})
       /\ chunkCall' = [chunkCall EXCEPT !.at = "job", !.chunk = c]
  /\ UNCHANGED <<panicked, clientVars, usedSlots, usedJobs, slot, chunkData,
                 jobData, work, httpd>>

AllocJob ==
  /\ ~panicked /\ chunkCall.at = "job"
  /\ \E j \in Alloc(Jobs, usedJobs) :
       /\ usedJobs' = usedJobs \cup ({j} \ {None})
       /\ chunkCall' = [chunkCall EXCEPT !.at = "queue", !.job = j]
  /\ UNCHANGED <<panicked, clientVars, usedSlots, usedChunks, slot,
                 chunkData, jobData, work, httpd>>

\* Mutant of QueueData: only the chunk is tested for NULL.
QueueDataNoJobTest ==
  /\ ~panicked /\ chunkCall.at = "queue"
  /\ chunkCall.chunk # None
  /\ chunkData' = [chunkData EXCEPT ![chunkCall.chunk] = chunkCall.n]
  /\ jobData' = IF chunkCall.job = None THEN jobData
                ELSE [jobData EXCEPT ![chunkCall.job] =
                        [slot |-> chunkCall.slot, chunk |-> chunkCall.chunk]]
  /\ QueueWork([fn |-> "data", arg |-> chunkCall.job])
  /\ chunkCall' = NoCall
  /\ UNCHANGED <<panicked, clientVars, usedSlots, usedChunks, usedJobs, slot,
                 httpd>>

\* Both objects: they are filled and the data job is queued.
QueueData ==
  /\ ~panicked /\ chunkCall.at = "queue"
  /\ chunkCall.chunk # None /\ chunkCall.job # None
  /\ chunkData' = [chunkData EXCEPT ![chunkCall.chunk] = chunkCall.n]
  /\ jobData' = [jobData EXCEPT
                   ![chunkCall.job] = [slot |-> chunkCall.slot,
                                       chunk |-> chunkCall.chunk]]
  /\ QueueWork([fn |-> "data", arg |-> chunkCall.job])
  /\ chunkCall' = NoCall
  /\ UNCHANGED <<panicked, clientVars, usedSlots, usedChunks, usedJobs, slot,
                 httpd>>

\* Mutant of DropData: nothing is given back when one object is missing.
DropDataLeaks ==
  /\ ~panicked /\ chunkCall.at = "queue"
  /\ None \in {chunkCall.chunk, chunkCall.job}
  /\ chunkCall' = NoCall
  /\ UNCHANGED <<panicked, clientVars, poolVars, work, httpd>>

\* One object is missing: the other is given back and the piece of the log
\* is skipped ("best effort").
DropData ==
  /\ ~panicked /\ chunkCall.at = "queue"
  /\ None \in {chunkCall.chunk, chunkCall.job}
  /\ usedChunks' = usedChunks \ {chunkCall.chunk}
  /\ usedJobs' = usedJobs \ {chunkCall.job}
  /\ chunkCall' = NoCall
  /\ UNCHANGED <<panicked, clientVars, usedSlots, slot, chunkData, jobData,
                 work, httpd>>
=============================================================================
