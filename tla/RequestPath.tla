---------------------------- MODULE RequestPath -----------------------------
(***************************************************************************)
(* A request from the socket to the gate and back: the HTTP server         *)
(* (HttpServer) with the tasks that carry its requests.                    *)
(*                                                                         *)
(*   user_request.c           the endpoint callbacks, in the httpd task    *)
(*   routine_event_handler.c  the event loop task and the delegate task    *)
(*   user_output.c            the answers those tasks give                 *)
(*   ota_service.c            the semaphore a request gives, and the       *)
(*                            restart an installed update asks for         *)
(*                                                                         *)
(* External, modelled from how this code uses it: the event loop (an       *)
(* ordered queue; a post may fail), the message codec and ESP-NOW (a       *)
(* command is refused at once or reported later, once, with its context),  *)
(* and the log capture (a sequence of pieces).                             *)
(***************************************************************************)
EXTENDS HttpServer, Functions

CONSTANTS
  DelegateCap,   \* DELEGATE_QUEUE_LENGTH (4)
  MaxLog,        \* bound of the model: pieces in a log snapshot
  LossyPost,     \* whether a post nobody checks may be lost
  Requested      \* the targets clients ask for

ASSUME PathAssumption ==
  /\ DelegateCap \in Nat
  /\ MaxLog \in Nat
  /\ LossyPost \in BOOLEAN
  /\ Requested \subseteq Targets

\* DELEGATE_QUEUE_LENGTH is no less than MAX_ASYNC_REQUESTS.
ASSUME DelegateFits ==
  IsFiniteSet(Slots) /\ Cardinality(Slots) <= DelegateCap

VARIABLES
  eventQ,        \* the default event loop's queue
  loop,          \* what the event loop task is in the middle of
  radio,         \* commands given to the codec and not yet reported on
  delegateQ,     \* delegate_queue: the slots of the log requests
  delegate,      \* the delegate task: the slot and the pieces read so far
  startUpdate,   \* the binary semaphore start_update
  ota            \* the OTA task: waiting on it, or updating

taskVars == <<eventQ, loop, radio, delegateQ, delegate, startUpdate, ota>>
vars     == <<serverVars, taskVars>>

-----------------------------------------------------------------------------
\* The event each endpoint's callback posts.
EventOf(target) ==
  CASE target = "/open-gate"  -> "GATE_OPEN"
    [] target = "/close-gate" -> "GATE_CLOSE"
    [] target = "/get-log"    -> "LOG"
    [] target = "/ota-update" -> "OTA_UPDATE"

\* The command of the gate node that a gate event becomes.
CommandOf(id) ==
  CASE id = "GATE_OPEN"  -> "OPEN_LOCK"
    [] id = "GATE_CLOSE" -> "CLOSE_LOCK"

GateEvents == {"GATE_OPEN", "GATE_CLOSE"}
Commands   == {"OPEN_LOCK", "CLOSE_LOCK"}
RequestIds == GateEvents \cup {"LOG", "OTA_UPDATE"}
ContextIds == RequestIds \cup {"SEND_STATUS"}
EventIds   == ContextIds \cup {"REBOOT_REQUIRED"}

Event(id, ctx, ok) == [id |-> id, ctx |-> ctx, success |-> ok]
IdleLoop           == [at |-> "idle", slot |-> None, verdict |-> "none"]
IdleDelegate       == [slot |-> None, n |-> 0]

TaskTypeOK ==
  /\ eventQ \in Seq([id : EventIds, ctx : Slots \cup {None},
                     success : BOOLEAN])
  /\ loop \in [at : {"idle", "delegate", "answer", "release"},
               slot : Slots \cup {None}, verdict : Verdicts]
  /\ radio \in SUBSET [command : Commands, ctx : Slots]
  /\ delegateQ \in Seq(Slots)
  /\ delegate \in [slot : Slots \cup {None}, n : Nat]
  /\ startUpdate \in BOOLEAN
  /\ ota \in {"waiting", "updating"}

TypeOK == ServerTypeOK /\ TaskTypeOK

Init ==
  /\ ServerInit
  /\ eventQ = <<>>
  /\ loop = IdleLoop
  /\ radio = {}
  /\ delegateQ = <<>>
  /\ delegate = IdleDelegate
  /\ startUpdate = FALSE
  /\ ota = "waiting"

-----------------------------------------------------------------------------
(***************************************************************************)
(* The httpd task in an endpoint callback (gate_open_request_handler and   *)
(* the three others, which differ in the event they post).                 *)
(***************************************************************************)

\* USER_REQUEST_post_event succeeds and the callback returns.
PostRequest ==
  /\ ~panicked /\ httpd.at = "post"
  /\ LET s == httpd.slot IN
       eventQ' = Append(eventQ, Event(EventOf(asked[slot[s].req]), s, TRUE))
  /\ httpd' = IdleTask
  /\ UNCHANGED <<panicked, clientVars, poolVars, work, chunkCall, loop, radio,
                 delegateQ, delegate, startUpdate, ota>>

\* Mutant of PostFails: the event goes out although the client is refused.
PostFailsButPosts ==
  /\ ~panicked /\ httpd.at = "post"
  /\ LET s == httpd.slot IN
       eventQ' = Append(eventQ, Event(EventOf(asked[slot[s].req]), s, TRUE))
  /\ httpd' = [httpd EXCEPT !.at = "refuse"]
  /\ UNCHANGED <<panicked, clientVars, poolVars, work, chunkCall, loop, radio,
                 delegateQ, delegate, startUpdate, ota>>

\* USER_REQUEST_post_event fails: the callback answers and closes itself.
PostFails ==
  /\ ~panicked /\ httpd.at = "post"
  /\ httpd' = [httpd EXCEPT !.at = "refuse"]
  /\ UNCHANGED <<panicked, clientVars, poolVars, work, chunkCall, taskVars>>

Refuse ==
  /\ ~panicked /\ httpd.at = "refuse"
  /\ Respond(httpd.slot, "failure")
  /\ httpd' = [httpd EXCEPT !.at = "release"]
  /\ UNCHANGED <<panicked, asked, poolVars, work, chunkCall, taskVars>>

Release ==
  /\ ~panicked /\ httpd.at = "release"
  /\ FreeSlot(httpd.slot)
  /\ httpd' = IdleTask
  /\ UNCHANGED <<panicked, clientVars, usedChunks, usedJobs, slot, chunkData,
                 jobData, work, chunkCall, taskVars>>

-----------------------------------------------------------------------------
(***************************************************************************)
(* The event loop task: routine_event_handler, one event at a time.        *)
(***************************************************************************)

\* The loop takes the oldest event, which has identifier id.
TakeEvent(id) ==
  /\ ~panicked /\ loop.at = "idle"
  /\ eventQ # <<>> /\ Head(eventQ).id = id
  /\ eventQ' = Tail(eventQ)

\* routine_user_request_events_handler, a gate event: the codec takes the
\* command.
SendCommand(id) ==
  /\ TakeEvent(id)
  /\ radio' = radio \cup {[command |-> CommandOf(id), ctx |-> Head(eventQ).ctx]}
  /\ UNCHANGED <<serverVars, loop, delegateQ, delegate, startUpdate, ota>>

\* The codec refuses it: the client is told at the end of the handler.
CommandRefused(id) ==
  /\ TakeEvent(id)
  /\ loop' = [at |-> "answer", slot |-> Head(eventQ).ctx, verdict |-> "Failed"]
  /\ UNCHANGED <<serverVars, radio, delegateQ, delegate, startUpdate, ota>>

\* A log event: delegate_post is called.
HandleLog ==
  /\ TakeEvent("LOG")
  /\ loop' = [IdleLoop EXCEPT !.at = "delegate", !.slot = Head(eventQ).ctx]
  /\ UNCHANGED <<serverVars, radio, delegateQ, delegate, startUpdate, ota>>

\* Mutant of DelegatePost: the LOG case runs on into the OTA case, which
\* answers.
DelegatePostFallsThrough ==
  /\ ~panicked /\ loop.at = "delegate"
  /\ Len(delegateQ) < DelegateCap
  /\ delegateQ' = Append(delegateQ, loop.slot)
  /\ loop' = [loop EXCEPT !.at = "answer", !.verdict = "success"]
  /\ UNCHANGED <<serverVars, eventQ, radio, delegate, startUpdate, ota>>

\* Mutant of DelegatePost: pdPASS is not ESP_OK, and the post is retried.
DelegatePostRetried ==
  /\ ~panicked /\ loop.at = "delegate"
  /\ Len(delegateQ) < DelegateCap
  /\ delegateQ' = Append(delegateQ, loop.slot)
  /\ UNCHANGED <<serverVars, eventQ, loop, radio, delegate, startUpdate, ota>>

\* xQueueSend with portMAX_DELAY: the loop is blocked until there is room.
DelegatePost ==
  /\ ~panicked /\ loop.at = "delegate"
  /\ Len(delegateQ) < DelegateCap
  /\ delegateQ' = Append(delegateQ, loop.slot)
  /\ loop' = IdleLoop
  /\ UNCHANGED <<serverVars, eventQ, radio, delegate, startUpdate, ota>>

\* An OTA event: ota_process_start gives the semaphore and returns ESP_OK
\* whether or not it had been given already; the client is told "success".
HandleOta ==
  /\ TakeEvent("OTA_UPDATE")
  /\ startUpdate' = TRUE
  /\ loop' = [at |-> "answer", slot |-> Head(eventQ).ctx,
              verdict |-> "success"]
  /\ UNCHANGED <<serverVars, radio, delegateQ, delegate, ota>>

\* routine_message_service_events_handler.
HandleSendStatus ==
  /\ TakeEvent("SEND_STATUS")
  /\ loop' = [at |-> "answer", slot |-> Head(eventQ).ctx,
              verdict |-> IF Head(eventQ).success THEN "success" ELSE "Failed"]
  /\ UNCHANGED <<serverVars, radio, delegateQ, delegate, startUpdate, ota>>

\* user_request_response_inform_command_status up to the completion of the
\* request.
Inform ==
  /\ ~panicked /\ loop.at = "answer"
  /\ Respond(loop.slot, loop.verdict)
  /\ loop' = [loop EXCEPT !.at = "release"]
  /\ UNCHANGED <<panicked, asked, poolVars, work, httpd, chunkCall, eventQ,
                 radio, delegateQ, delegate, startUpdate, ota>>

\* The rest of it: bank_free(g_async_bank, ..).
InformRelease ==
  /\ ~panicked /\ loop.at = "release"
  /\ FreeSlot(loop.slot)
  /\ loop' = IdleLoop
  /\ UNCHANGED <<panicked, clientVars, usedChunks, usedJobs, slot, chunkData,
                 jobData, work, httpd, chunkCall, eventQ, radio, delegateQ,
                 delegate, startUpdate, ota>>

\* A restart: all the state modelled is RAM.
Restart ==
  /\ panicked' = FALSE
  /\ session' = [k \in Sockets |-> "idle"]
  /\ asked' = [k \in Sockets |-> "unmatched"]
  /\ reply' = [k \in Sockets |-> NoReply]
  /\ slot' = [s \in Slots |-> [req |-> None, started |-> FALSE]]
  /\ usedSlots' = {} /\ usedChunks' = {} /\ usedJobs' = {}
  /\ chunkData' = [c \in Chunks |-> 0]
  /\ jobData' = [j \in Jobs |-> [slot |-> None, chunk |-> None]]
  /\ work' = <<>>
  /\ httpd' = IdleTask
  /\ chunkCall' = NoCall
  /\ eventQ' = <<>>
  /\ loop' = IdleLoop
  /\ radio' = {}
  /\ delegateQ' = <<>>
  /\ delegate' = IdleDelegate
  /\ startUpdate' = FALSE
  /\ ota' = "waiting"

\* routine_ota_service_events_handler: the restart an update asks for.
HandleRebootRequired ==
  /\ ~panicked /\ loop.at = "idle"
  /\ eventQ # <<>> /\ Head(eventQ).id = "REBOOT_REQUIRED"
  /\ Restart

\* The panic handler restarts the node.
PanicReboot ==
  /\ panicked
  /\ Restart

-----------------------------------------------------------------------------
(***************************************************************************)
(* The message codec and the radio.                                        *)
(***************************************************************************)

\* The outcome of a command is posted as MESSAGE_SERVICE_ROUTINE_EVENT_-
\* SEND_STATUS, with the context it was given with.
ReportSend(cmd, ok) ==
  /\ ~panicked
  /\ radio' = radio \ {cmd}
  /\ eventQ' = Append(eventQ, Event("SEND_STATUS", cmd.ctx, ok))
  /\ UNCHANGED <<serverVars, loop, delegateQ, delegate, startUpdate, ota>>

\* The event queue is full and the report is lost.
LoseReport(cmd) ==
  /\ ~panicked /\ LossyPost
  /\ radio' = radio \ {cmd}
  /\ UNCHANGED <<serverVars, eventQ, loop, delegateQ, delegate, startUpdate,
                 ota>>

-----------------------------------------------------------------------------
(***************************************************************************)
(* The delegate task: delegate_run_task and delegated_to_task_send_log.    *)
(***************************************************************************)
DelegateTake ==
  /\ ~panicked /\ delegate.slot = None
  /\ delegateQ # <<>>
  /\ delegate' = [slot |-> Head(delegateQ), n |-> 0]
  /\ delegateQ' = Tail(delegateQ)
  /\ UNCHANGED <<serverVars, eventQ, loop, radio, startUpdate, ota>>

\* log_snapshot_read returns the next piece, and it is sent.
ReadPiece ==
  /\ ~panicked /\ delegate.slot # None /\ chunkCall.at = "idle"
  /\ delegate.n < MaxLog
  /\ delegate' = [delegate EXCEPT !.n = @ + 1]
  /\ chunkCall' = [NoCall EXCEPT !.at = "chunk", !.slot = delegate.slot,
                                 !.n = delegate.n + 1]
  /\ UNCHANGED <<panicked, clientVars, poolVars, work, httpd, eventQ, loop,
                 radio, delegateQ, startUpdate, ota>>

\* log_snapshot_read returns 0: http_server_send_chunked_response without
\* data queues the close worker.
EndOfLog ==
  /\ ~panicked /\ delegate.slot # None /\ chunkCall.at = "idle"
  /\ QueueClose(delegate.slot)
  /\ delegate' = IdleDelegate
  /\ UNCHANGED <<panicked, clientVars, poolVars, httpd, chunkCall, eventQ,
                 loop, radio, delegateQ, startUpdate, ota>>

-----------------------------------------------------------------------------
(***************************************************************************)
(* The OTA task, seen from here.                                           *)
(***************************************************************************)

\* xSemaphoreTake returns, given or after 24 hours.  Bound of the model: the
\* timer does not fire while a restart is queued, a matter of milliseconds.
UpdateStarts ==
  /\ ~panicked /\ ota = "waiting"
  /\ \/ startUpdate
     \/ \A i \in DOMAIN eventQ : eventQ[i].id # "REBOOT_REQUIRED"
  /\ startUpdate' = FALSE
  /\ ota' = "updating"
  /\ UNCHANGED <<serverVars, eventQ, loop, radio, delegateQ, delegate>>

\* One pass of the loop of ota_task: an image was installed, or not.
UpdateEnds(installed) ==
  /\ ~panicked /\ ota = "updating"
  /\ ota' = "waiting"
  /\ eventQ' = IF installed
                 THEN Append(eventQ, Event("REBOOT_REQUIRED", None, TRUE))
                 ELSE eventQ
  /\ UNCHANGED <<serverVars, loop, radio, delegateQ, delegate, startUpdate>>

-----------------------------------------------------------------------------
(***************************************************************************)
(* Who does what.                                                          *)
(***************************************************************************)
ClientStep == \E k \in Sockets, target \in Requested :
                Ask(k, target) /\ UNCHANGED taskVars

\* The httpd task handles the readable session k.
HandleSession(k) ==
  (AcceptRequest(k) \/ SlotsExhausted(k) \/ NotFound(k)) /\ UNCHANGED taskVars

\* The httpd task runs a work item.
HandleWork == RunWork /\ UNCHANGED taskVars

\* The httpd task goes on with what it is in the middle of.
HttpdContinues ==
  \/ (EndData \/ QueueFinalize) /\ UNCHANGED taskVars
  \/ PostRequest \/ PostFails \/ Refuse \/ Release

LoopStep ==
  \/ \E id \in GateEvents : SendCommand(id) \/ CommandRefused(id)
  \/ HandleLog \/ DelegatePost
  \/ HandleOta
  \/ HandleSendStatus
  \/ Inform \/ InformRelease
  \/ HandleRebootRequired

RadioReports(cmd) == \E ok \in BOOLEAN : ReportSend(cmd, ok)

RadioStep == \E cmd \in radio : RadioReports(cmd) \/ LoseReport(cmd)

DelegateStep ==
  \/ (AllocChunk \/ AllocJob \/ QueueData \/ DropData) /\ UNCHANGED taskVars
  \/ DelegateTake \/ ReadPiece \/ EndOfLog

OtaStep == UpdateStarts \/ \E installed \in BOOLEAN : UpdateEnds(installed)

Next ==
  \/ ClientStep
  \/ \E k \in Sockets : HandleSession(k)
  \/ HandleWork
  \/ HttpdContinues
  \/ LoopStep
  \/ RadioStep
  \/ DelegateStep
  \/ OtaStep
  \/ PanicReboot

Spec == Init /\ [][Next]_vars

\* Every task runs when it can.  One turn of httpd's select loop looks at its
\* control socket and at every readable session, so neither waits for ever
\* although the task is now and then busy with the other.  The codec reports
\* on every command it took, and a panic reboots.
Fairness ==
  /\ \A k \in Sockets : SF_vars(HandleSession(k))
  /\ SF_vars(HandleWork)
  /\ WF_vars(HttpdContinues)
  /\ WF_vars(LoopStep)
  /\ \A c \in [command : Commands, ctx : Slots] :
       WF_vars(c \in radio /\ RadioReports(c))
  /\ WF_vars(DelegateStep)
  /\ WF_vars(PanicReboot)

FairSpec == Spec /\ Fairness

-----------------------------------------------------------------------------
(***************************************************************************)
(* Where the pointer to an async slot can be: in the local variables of a  *)
(* task, in a queue, with the codec, in a work item.                       *)
(***************************************************************************)
Holders == {"httpd", "event", "loop", "radio", "delegateQ", "delegate",
            "close", "finalize"}

WorkSlots(fn) == {w.arg : w \in {v \in Range(work) : v.fn = fn}}

Held(h) ==
  CASE h = "httpd"     -> {httpd.slot} \ {None}
    [] h = "event"     -> {e.ctx : e \in Range(eventQ)} \ {None}
    [] h = "loop"      -> {loop.slot} \ {None}
    [] h = "radio"     -> {c.ctx : c \in radio}
    [] h = "delegateQ" -> Range(delegateQ)
    [] h = "delegate"  -> {delegate.slot} \ {None}
    [] h = "close"     -> WorkSlots("close")
    [] h = "finalize"  -> WorkSlots("finalize")

\* The slots through which some task may still answer.
Open ==
  (IF httpd.at \in {"post", "refuse"} THEN {httpd.slot} ELSE {})
  \cup (IF loop.at \in {"delegate", "answer"} THEN {loop.slot} ELSE {})
  \cup Held("event") \cup Held("radio")
  \cup Held("delegateQ") \cup Held("delegate") \cup Held("close")

\* The slots whose reply is complete and which wait for their release.
Answered ==
  (IF httpd.at \in {"release", "queueFinalize"} THEN {httpd.slot} ELSE {})
  \cup (IF loop.at = "release" THEN {loop.slot} ELSE {})
  \cup Held("finalize")

-----------------------------------------------------------------------------
(***************************************************************************)
(* Properties.                                                             *)
(***************************************************************************)

HeldInUse == \A h \in Holders : Held(h) \subseteq usedSlots

HeldApart == \A g, h \in Holders : g # h => Held(g) \cap Held(h) = {}

EventsOnce ==
  \A i, j \in DOMAIN eventQ :
    eventQ[i].ctx # None /\ eventQ[i].ctx = eventQ[j].ctx => i = j

RadioOnce == \A b, c \in radio : b.ctx = c.ctx => b = c

WorkOnce ==
  \A i, j \in DOMAIN work : work[i].fn # "data" /\ work[i] = work[j] => i = j

\* An async slot is a bare pointer passed from task to task: each slot in
\* use is in one place, once, and no place has a slot that was given back.
\* So no slot is freed twice, answered twice or used after bank_free, in
\* whatever order the tasks run.
SlotOwnership ==
  /\ HeldInUse
  /\ HeldApart
  /\ EventsOnce
  /\ IsInjective(delegateQ)
  /\ RadioOnce
  /\ WorkOnce

\* A context that comes back with an outcome leads to the connection of the
\* client that asked, and to no other: open slots belong to distinct sessions
\* that still wait, and each is on the path of the endpoint asked for.
AnswerReachesAsker ==
  /\ \A s \in Open : /\ slot[s].req \in Sockets
                     /\ session[slot[s].req] = "async"
  /\ \A s, t \in Open : s # t => slot[s].req # slot[t].req
  /\ \A c \in radio :
       asked[slot[c.ctx].req] =
         IF c.command = "OPEN_LOCK" THEN "/open-gate" ELSE "/close-gate"
  /\ \A s \in Held("delegateQ") \cup Held("delegate") \cup Held("close") :
       asked[slot[s].req] = "/get-log"

\* A data job is run through the slot of its own request, still open: the
\* close item of that request comes after it in the queue ("Order preserved
\* because this is queued AFTER all data jobs"), and the finalize item that
\* frees the slot later still.
DataBeforeClose ==
  \A i \in DOMAIN work : work[i].fn = "data" =>
    LET s == jobData[work[i].arg].slot IN
      /\ s \in usedSlots /\ s \notin Answered
      /\ session[slot[s].req] = "async"
      /\ asked[slot[s].req] = "/get-log"
      /\ \A j \in 1..i : work[j].fn \in {"close", "finalize"}
                           => work[j].arg # s

\* A job or chunk is in one place: two jobs queued are distinct and carry
\* distinct chunks, all of them allocated, and none is one that the delegate
\* task is filling or that httpd is giving back.
PoolOwnership ==
  LET Queued == {i \in DOMAIN work : work[i].fn = "data"} IN
    /\ \A i \in Queued :
         /\ work[i].arg \in usedJobs \ {chunkCall.job, httpd.job}
         /\ jobData[work[i].arg].chunk \in usedChunks \ {chunkCall.chunk}
    /\ \A i, j \in Queued : i # j =>
         /\ work[i].arg # work[j].arg
         /\ jobData[work[i].arg].chunk # jobData[work[j].arg].chunk

\* What a client reads of the log is in order and without repetition, with
\* the header fields once and before the first piece, and it ends once,
\* though the pieces pass through a pool that may run out of objects.
StreamOrder ==
  \A k \in Sockets :
    LET r == reply[k] IN
      /\ \A i, j \in DOMAIN r.chunks : i < j => r.chunks[i] < r.chunks[j]
      /\ r.heads = IF r.chunks = <<>> THEN 0 ELSE 1
      /\ r.ends = IF session[k] \in {"request", "async"} THEN 0 ELSE r.ends
      /\ r.ends <= 1

\* The event loop task, which also reports on the gate and restarts the node
\* after an update, never blocks in xQueueSend on the delegate queue, because
\* the queue is as long as the pool of slots.
LoopNeverBlocks == loop.at = "delegate" => Len(delegateQ) < DelegateCap

\* No object of a pool is lost: what is allocated is in some task's hands, so
\* the pools are full again when the node is quiet.  (When no post is lost.)
PoolsAccounted ==
  LET queued == WorkSlots("data") IN
    /\ usedSlots = UNION {Held(h) : h \in Holders}
    /\ usedJobs = queued \cup ({chunkCall.job, httpd.job} \ {None})
    /\ usedChunks = {jobData[j].chunk : j \in queued}
                    \cup ({chunkCall.chunk} \ {None})

\* With as many slots as sessions, a request finds the pool empty only while
\* some finished reply's slot waits for its bank_free: the order "complete
\* the request, then free the slot" is the only source of the shortage.
OnlyLateReleaseExhausts ==
  usedSlots = Slots /\ (\E k \in Sockets : session[k] \notin {"async"})
    => Answered # {}

\* At most one item for each job and two for each slot wait in the control
\* socket of httpd, less one, as a slot with data queued is not closed: a
\* mailbox of that size (11 for the pools of 4) loses none, though nobody
\* looks at what httpd_queue_work returns.
WorkBound ==
  Len(work) <= Cardinality(Jobs) + 2 * Cardinality(Slots) - 1

\* "MAX_ASYNC_REQUESTS" requests at a time, and "Server Busy" to the next:
\* no number of clients makes the request handler fault.
NeverPanics == ~panicked

\* The node keeps what RequestService promises its clients.
Service == INSTANCE RequestService WITH
  waiting <- {k \in Sockets : session[k] \in {"request", "async"}},
  answer  <- [k \in Sockets |-> [chunks |-> reply[k].chunks,
                                 verdict |-> reply[k].verdict,
                                 ends |-> reply[k].ends]]

ServiceSpec == Service!Spec

\* Every request is answered in full, or ended by a restart.
RequestEnds ==
  \A k \in Sockets : (session[k] \in {"request", "async"})
                       ~> (session[k] \notin {"request", "async"})

\* Every slot handed out comes back to the pool.
SlotsComeBack == \A s \in Slots : (s \in usedSlots) ~> (s \notin usedSlots)
=============================================================================
