------------------------------ MODULE Startup -------------------------------
(***************************************************************************)
(* How the node comes up: app_main (main/home-node.c) with what it calls   *)
(* in user_request.c, user_output.c, http_server.c and                     *)
(* routine_event_handler.c, while the display's tasks (Gui), the server,   *)
(* the event loop and the delegate task already run and requests arrive.   *)
(*                                                                         *)
(* Each component finds the others through pointers that main fills in one *)
(* after the other.  `made' is the set of those that are filled, `failed'  *)
(* of those whose initialisation has failed: main looks at next to none of *)
(* the results and goes on.  A task that follows a pointer that is not     *)
(* filled stops the node (`fault').                                        *)
(*                                                                         *)
(* External: LVGL's port, Wi-Fi, ESP-NOW with discovery, peer registry and *)
(* codec, the event adapter, the sync manager, esp_http_server, the bank   *)
(* of pools, log capture.  A call of one that is not initialised faults or *)
(* returns an error: which, is its own affair.                             *)
(***************************************************************************)
EXTENDS Gui

CONSTANTS
  DelegateQueueLength,   \* DELEGATE_QUEUE_LENGTH
  MaxRequests,           \* bound of the model: requests
  MaxTroubles            \* bound of the model: what goes wrong with main

ASSUME StartupAssumption ==
  /\ DelegateQueueLength \in Nat \ {0}
  /\ MaxRequests \in Nat /\ MaxTroubles \in Nat

VARIABLES
  main,        \* where app_main is
  made,        \* the pointers that are not NULL
  failed,      \* those whose initialisation has failed since the restart
  fault,       \* the null pointer a task has followed
  wifi,        \* off, connecting, or connected: `proceed'
  discovery,   \* off, on, found, or signalled to main
  uriCount,    \* uri_count: how many endpoints httpd serves
  httpd,       \* the request in master_request_handler
  eventQ,      \* the event loop's queue
  radio,       \* commands on which the codec has still to report
  delegateQ,   \* logs to be streamed
  requests,    \* how many requests have been made
  troubles     \* how many initialisations have failed, or made main abort

nodeVars  == <<main, made, failed, fault, wifi, discovery, uriCount, httpd, eventQ,
               radio, delegateQ>>
vars == <<guiVars, nodeVars, requests, troubles>>

-----------------------------------------------------------------------------
\* user_request_create registers them in this order.
Endpoints == <<"/close-gate", "/open-gate", "/get-log", "/ota-update">>

Gate    == {"/close-gate", "/open-gate"}
Targets == Gate \cup {"/get-log", "/ota-update"}

\* The pointers, and what else main sets up: LVGL, Wi-Fi, the delegate task.
Pointers == {"lvgl", "sync_manager", "event_adapter", "delegate_queue",
             "delegate_task", "wifi", "log_capture", "transport",
             "peer_registry", "discovery_service", "message_codec",
             "http_server", "bank_pools", "user_request", "user_output",
             "start_update"}

Places == {"lcd", "worker", "screen", "building", "gui", "sync", "adapter",
           "handlers", "booting", "wifi", "scanning", "connecting",
           "connected", "transport", "started", "peers", "registry", "seeker",
           "codec", "server", "pools", "uris", "events", "response",
           "discovery", "waiting", "ota", "up"}

TypeOK ==
  /\ GuiTypeOK
  /\ main \in Places
  /\ made \subseteq Pointers /\ failed \subseteq Pointers
  /\ fault \in Pointers \cup {"none"}
  /\ wifi \in {"off", "connecting", "connected"}
  /\ discovery \in {"off", "on", "found", "signalled"}
  /\ uriCount \in 0..Len(Endpoints)
  /\ httpd \in Targets \cup {"idle"}
  /\ eventQ \in Seq(Targets \cup {"report", "discovered"})
  /\ radio \in Nat /\ delegateQ \in Nat
  /\ requests \in 0..MaxRequests /\ troubles \in 0..MaxTroubles
  /\ worker = "none" <=> main \in {"lcd", "worker"}
  /\ screen = "building" <=> main = "building"
  /\ screen = "none" <=> main \in {"lcd", "worker", "screen"}

Init ==
  /\ GuiInit
  /\ main = "lcd" /\ made = {} /\ failed = {} /\ fault = "none"
  /\ wifi = "off" /\ discovery = "off"
  /\ uriCount = 0 /\ httpd = "idle"
  /\ eventQ = <<>> /\ radio = 0 /\ delegateQ = 0
  /\ requests = 0 /\ troubles = 0

Restart ==
  /\ GuiReset
  /\ main' = "lcd" /\ made' = {} /\ failed' = {} /\ fault' = "none"
  /\ wifi' = "off" /\ discovery' = "off"
  /\ uriCount' = 0 /\ httpd' = "idle"
  /\ eventQ' = <<>> /\ radio' = 0 /\ delegateQ' = 0
  /\ UNCHANGED requests

PanicReboot ==
  /\ fault # "none"
  /\ Restart
  /\ UNCHANGED troubles

\* A pointer is followed; or two, one after the other.
Follow(p) == fault' = IF p \in made THEN "none" ELSE p

FollowBoth(p, q) == IF p \in made THEN Follow(q) ELSE Follow(p)

\* Something goes wrong with main.
Trouble ==
  /\ troubles < MaxTroubles
  /\ troubles' = troubles + 1

-----------------------------------------------------------------------------
(***************************************************************************)
(* app_main.                                                               *)
(***************************************************************************)
Goes(from, to) ==
  /\ fault = "none" /\ main = from
  /\ main' = to

Makes(pointers) == made' = made \cup pointers

\* What main does not touch.
Elsewhere == UNCHANGED <<httpd, eventQ, radio, delegateQ, requests>>

\* A step that leaves the display alone: some pointers are filled in, the
\* initialisation of others fails.
Outcome(from, to, good, bad) ==
  /\ Goes(from, to) /\ Makes(good)
  /\ failed' = failed \cup bad
  /\ IF bad = {} THEN UNCHANGED troubles ELSE Trouble
  /\ UNCHANGED <<guiVars, fault, wifi, discovery, uriCount>> /\ Elsewhere

Prepare(from, to, pointers) == Outcome(from, to, pointers, {})

\* An initialisation whose result nobody looks at.
Attempt(from, to, pointers) ==
  Prepare(from, to, pointers) \/ Outcome(from, to, {}, pointers)

\* A step that tells or sets up the display.
Display(from, to, step) ==
  /\ Goes(from, to) /\ step
  /\ UNCHANGED <<made, failed, fault, wifi, discovery, uriCount, troubles>>
  /\ Elsewhere

\* Main itself follows what is not there.
Trips(at, p) ==
  /\ fault = "none" /\ main = at
  /\ p \notin made /\ fault' = p
  /\ UNCHANGED <<guiVars, main, made, failed, wifi, discovery, uriCount,
                 troubles>>
  /\ Elsewhere

\* lvgl_port_init.
LvglInit ==
  \/ /\ Goes("lcd", "worker") /\ PortInit /\ Makes({"lvgl"})
     /\ UNCHANGED <<failed, fault, wifi, discovery, uriCount, troubles>>
     /\ Elsewhere
  \/ Outcome("lcd", "worker", {}, {"lvgl"})

\* The rest of lcd_init: the worker, the home screen.
LcdInit ==
  \/ Display("worker", "screen", UiWorkerInit)
  \/ "lvgl" \in made
     /\ Display("screen", "building", UiHomeInit("none", "building"))
  \/ Trips("screen", "lvgl")
  \/ Display("building", "gui", UiHomeInit("building", "built"))

\* gui_op_init: the queue and the task wait for the first news.
GuiOpInit == Display("gui", "sync", UNCHANGED guiVars)

\* sync_manager_init, and event_system_adapter_init.
EventsInit ==
  \/ Attempt("sync", "adapter", {"sync_manager"})
  \/ Attempt("adapter", "handlers", {"event_adapter"})

\* Mutant of HandlersInit: routine_handler_init is not called.
HandlersForgotten == Prepare("handlers", "booting", {})

\* routine_handler_init: the queue, then the task.
HandlersInit ==
  \/ Attempt("handlers", "booting", {"delegate_queue", "delegate_task"})
  \/ Outcome("handlers", "booting", {"delegate_queue"}, {"delegate_task"})

Tell ==
  \/ Display("booting", "wifi", GuiInform("BOOTING"))
  \/ Display("scanning", "connecting", GuiInform("AP_SCANNING"))
  \/ Display("connected", "transport", GuiInform("STA_CONNECTED"))
  \/ Display("started", "peers", GuiInform("ESPNOW_STARTED"))

\* wifi_initialize, with the callback that sets `proceed'.
WifiInit ==
  \/ /\ Goes("wifi", "scanning") /\ wifi' = "connecting"
     /\ UNCHANGED <<guiVars, made, failed, fault, discovery, uriCount,
                    troubles>>
     /\ Elsewhere
  \/ Outcome("wifi", "scanning", {}, {"wifi"})

\* Mutant of AwaitWifi: main waits for the callback's next call.
AwaitNextCall ==
  /\ Goes("connecting", "connected")
  /\ wifi = "connecting" /\ wifi' = "connected"
  /\ Makes({"log_capture"})
  /\ UNCHANGED <<guiVars, failed, fault, discovery, uriCount, troubles>>
  /\ Elsewhere

\* `proceed' is polled; then log_capture_init.
AwaitWifi == wifi = "connected"
             /\ Attempt("connecting", "connected", {"log_capture"})

\* esp_now_transport_init, if what it returns is not ESP_FAIL.
TransportInit == Attempt("transport", "started", {"transport"})

\* What does look at a result ends main at once: for the panel and its bus,
\* in ui_worker_init and gui_op_init, for the channel, and ESP_FAIL of
\* esp_now_transport_init.
Abort ==
  /\ fault = "none" /\ main \in {"lcd", "worker", "gui", "transport"}
  /\ Trouble /\ Restart

\* peer_registry_init; what it returns is used before it is tested, and
\* then an interface of the transport.
PeersInit ==
  \/ Attempt("peers", "registry", {"peer_registry"})
  \/ "peer_registry" \in made /\ Prepare("registry", "seeker", {})
  \/ Trips("registry", "peer_registry")
  \/ "peer_registry" \in made /\ Trips("registry", "transport")

\* discovery_service_init and message_codec_init.
CodecInit ==
  \/ Attempt("seeker", "codec", {"discovery_service"})
  \/ Attempt("codec", "server", {"message_codec"})

\* user_request_create: http_server_init, to httpd_start.  If that fails, it
\* returns an error at which nobody looks.
ServerInit ==
  \/ Prepare("server", "pools", {"http_server"})
  \/ Outcome("server", "response", {}, {"http_server"})

\* The rest of http_server_init, and the interface.
PoolsInit ==
  \/ Prepare("pools", "uris", {"bank_pools", "user_request"})
  \/ Outcome("pools", "uris", {"user_request"}, {"bank_pools"})

\* http_server_register_uri, one endpoint after the other.  One that httpd
\* does not take is one for which no request is accepted.
RegisterUri ==
  /\ uriCount' = uriCount + 1
  /\ Goes("uris", IF uriCount' = Len(Endpoints) THEN "events" ELSE "uris")
  /\ UNCHANGED <<guiVars, made, failed, fault, wifi, discovery, troubles>>
  /\ Elsewhere

\* The five events.  Whether the adapter delivers an event that is posted
\* before is its own affair: PostRequest has both.
RegisterEvents == Prepare("events", "response", {})

\* user_request_response_create; a server that did not start is tried again,
\* and may fail again.
ResponseCreate ==
  \/ Prepare("response", "discovery",
             {"http_server", "bank_pools", "user_output"})
  \/ "http_server" \notin made /\ Prepare("response", "discovery", {})

\* start_discovery.  Without its service, or without the transport, it may
\* return an error, at which nobody looks.
StartDiscovery ==
  \/ /\ "discovery_service" \in made
     /\ Goes("discovery", "waiting") /\ discovery' = "on"
     /\ UNCHANGED <<guiVars, made, failed, fault, wifi, uriCount, troubles>>
     /\ Elsewhere
  \/ /\ ~({"discovery_service", "transport"} \subseteq made)
     /\ Prepare("discovery", "waiting", {})
  \/ Trips("discovery", "discovery_service")

\* sync_manager_signal_wait, for ever; without the manager it may return.
AwaitDiscovery ==
  \/ /\ discovery = "signalled" \/ "sync_manager" \notin made
     /\ Prepare("waiting", "ota", {})
  \/ Trips("waiting", "sync_manager")

\* ota_service_init: the client, the semaphore, the task.  If there is no
\* client or no semaphore, main goes on as if there were.  (A task that
\* cannot be made is no pointer: requests find the semaphore.)
OtaInit == Attempt("ota", "up", {"start_update"})

MainStep ==
  \/ LvglInit \/ LcdInit \/ GuiOpInit \/ EventsInit \/ HandlersInit \/ Tell
  \/ WifiInit \/ AwaitWifi \/ TransportInit \/ PeersInit \/ CodecInit
  \/ ServerInit \/ PoolsInit \/ RegisterUri \/ RegisterEvents
  \/ ResponseCreate \/ StartDiscovery \/ AwaitDiscovery \/ OtaInit

-----------------------------------------------------------------------------
(***************************************************************************)
(* The tasks that serve requests meanwhile.                                *)
(***************************************************************************)

\* Main and the display stay where they are; nothing runs after a fault.
Meanwhile ==
  /\ fault = "none"
  /\ UNCHANGED <<guiVars, main, made, failed, wifi, uriCount, troubles>>

\* A step of the display's tasks.
Shows(step) ==
  /\ fault = "none" /\ step
  /\ UNCHANGED <<nodeVars, requests, troubles>>

DisplayStep ==
  \/ Shows(GuiOpStep) \/ Shows(TakeJob) \/ Shows(WorkerLocks)
  \/ Shows(RunJob) \/ Shows(PortLocks) \/ Shows(PortUnlocks)

\* A client's request reaches master_request_handler: a slot from the bank.
Accept(uri) ==
  /\ requests < MaxRequests
  /\ httpd = "idle" /\ \E i \in 1..uriCount : uri = Endpoints[i]
  /\ httpd' = uri
  /\ requests' = requests + 1
  /\ Follow("bank_pools")
  /\ Meanwhile /\ UNCHANGED <<discovery, eventQ, radio, delegateQ>>

\* The endpoint's callback posts, or refuses through its own pointer.
PostRequest ==
  /\ httpd # "idle"
  /\ httpd' = "idle"
  /\ \/ /\ "event_adapter" \in made
        /\ eventQ' = Append(eventQ, httpd) /\ UNCHANGED fault
     \/ Follow("user_request") /\ UNCHANGED eventQ
  /\ Meanwhile /\ UNCHANGED <<discovery, radio, delegateQ, requests>>

TakeEvent(ids) ==
  /\ eventQ # <<>> /\ Head(eventQ) \in ids
  /\ eventQ' = Tail(eventQ)
  /\ Meanwhile /\ UNCHANGED <<httpd, requests>>

\* message_codec_send_command, and the answer at once if it is refused.
HandleGate ==
  /\ TakeEvent(Gate)
  /\ \/ Follow("message_codec") /\ radio' = radio + 1
     \/ Follow("user_output") /\ UNCHANGED radio
  /\ UNCHANGED <<discovery, delegateQ>>

\* delegate_post waits while its queue is full.
HandleLog ==
  /\ TakeEvent({"/get-log"})
  /\ delegateQ < DelegateQueueLength
  /\ Follow("delegate_queue")
  /\ delegateQ' = delegateQ + 1
  /\ UNCHANGED <<discovery, radio>>

HandleOta ==
  /\ TakeEvent({"/ota-update"})
  /\ FollowBoth("start_update", "user_output")
  /\ UNCHANGED <<discovery, radio, delegateQ>>

HandleReport ==
  /\ TakeEvent({"report"})
  /\ Follow("user_output")
  /\ UNCHANGED <<discovery, radio, delegateQ>>

\* sync_manager_signal_set.
HandleDiscovery ==
  /\ TakeEvent({"discovered"})
  /\ \/ Follow("sync_manager") /\ discovery' = "signalled"
     \/ "sync_manager" \notin made /\ UNCHANGED <<fault, discovery>>
  /\ UNCHANGED <<radio, delegateQ>>

LoopStep ==
  HandleGate \/ HandleLog \/ HandleOta \/ HandleReport \/ HandleDiscovery

\* delegated_to_task_send_log; a log that cannot be read ends at once.
SendLog ==
  /\ "delegate_task" \in made
  /\ delegateQ > 0
  /\ delegateQ' = delegateQ - 1
  /\ FollowBoth("log_capture", "user_output") \/ Follow("user_output")
  /\ Meanwhile /\ UNCHANGED <<discovery, httpd, eventQ, radio, requests>>

-----------------------------------------------------------------------------
(***************************************************************************)
(* The world.                                                              *)
(***************************************************************************)
ReportSend ==
  /\ radio > 0
  /\ radio' = radio - 1
  /\ eventQ' = Append(eventQ, "report")
  /\ Meanwhile /\ UNCHANGED <<fault, discovery, httpd, delegateQ, requests>>

WifiConnects ==
  /\ fault = "none" /\ wifi = "connecting"
  /\ wifi' = "connected"
  /\ UNCHANGED <<guiVars, main, made, failed, fault, discovery, uriCount,
                 troubles>>
  /\ Elsewhere

GateFound ==
  /\ discovery = "on"
  /\ discovery' = "found"
  /\ eventQ' = IF "event_adapter" \in made
                 THEN Append(eventQ, "discovered") ELSE eventQ
  /\ Meanwhile /\ UNCHANGED <<fault, httpd, radio, delegateQ, requests>>

WorldStep ==
  \/ \E uri \in Targets : Accept(uri)
  \/ ReportSend \/ WifiConnects \/ GateFound

Next ==
  \/ MainStep \/ DisplayStep \/ LoopStep \/ PostRequest \/ SendLog
  \/ WorldStep \/ Abort \/ PanicReboot

Spec == Init /\ [][Next]_vars

\* Each task runs when it can; Wi-Fi connects and the gate node is found some
\* time.  The port's task sleeps between two turns, so the worker that waits
\* for the lock gets it.
Fairness ==
  /\ WF_vars(PanicReboot)
  /\ WF_vars(MainStep)
  /\ WF_vars(Shows(GuiOpStep))
  /\ WF_vars(Shows(TakeJob \/ RunJob))
  /\ SF_vars(Shows(WorkerLocks))
  /\ WF_vars(Shows(PortUnlocks))
  /\ WF_vars(LoopStep)
  /\ WF_vars(PostRequest)
  /\ WF_vars(SendLog)
  /\ WF_vars(WifiConnects)
  /\ WF_vars(GateFound)

FairSpec == Spec /\ Fairness

-----------------------------------------------------------------------------
(***************************************************************************)
(* Properties.                                                             *)
(***************************************************************************)

\* "Lock the mutex due to the LVGL APIs are not thread-safe": no two tasks
\* are inside LVGL at once.
LvglExclusive == \A t1, t2 \in InLvgl : t1 = t2

\* Once the home screen is built, the worker and the port's task keep out of
\* each other's way, whatever is queued: main's unlocked construction of the
\* screen is the only breach of the lock.
LockedOnceBuilt == screen # "building" => LvglExclusive

\* Where main is while there may be endpoints, and it has more to make.
Answerless == {"uris", "events", "response"}
Open       == Answerless \cup {"discovery", "waiting", "ota"}

\* What may be followed although its initialisation has failed.
Unchecked ==
  {"lvgl", "sync_manager", "delegate_queue", "log_capture", "transport",
   "peer_registry", "discovery_service", "message_codec", "bank_pools",
   "start_update"}

Excused(p) ==
  \/ p = "user_output" /\ main \in Answerless
  \/ p = "start_update" /\ main \in Open
  \/ p \in failed \cap Unchecked

\* A task that runs while main fills in its pointers follows one too soon in
\* two cases only: the interface for answers, for a request between the first
\* endpoint and user_request_response_create, and the semaphore, for an update
\* asked for before ota_service_init.  Any other pointer that is followed
\* although it is not there is one whose initialisation has failed in this
\* boot, unnoticed; and for a server that does not start, twice, nobody pays.
EarlyOrFailed == fault # "none" => Excused(fault)

\* The order in which things happen.
Rank == [nothing |-> 0, BOOTING |-> 1, AP_SCANNING |-> 2, STA_CONNECTED |-> 3,
         ESPNOW_STARTED |-> 4]

\* Two queues and three tasks lie between app_main and a label, and it still
\* never goes back to an older event, except by a restart.
ScreenNeverGoesBack ==
  [][main' = "lcd" \/ \A l \in Labels : Rank[shown[l]] <= Rank[shown'[l]]]_vars

\* The last thing app_main tells the display reaches the screen: no queue
\* drops it and no task keeps the lock.
LastNewsShown ==
  main = "peers" ~> (shown["main_label"] = "ESPNOW_STARTED" \/ main = "lcd")

\* What has failed such that main waits for ever, as nobody has told it.
Stuck ==
  \/ main = "connecting" /\ "wifi" \in failed
  \/ /\ main = "waiting"
     /\ failed \cap {"event_adapter", "delegate_task", "transport",
                     "discovery_service"} # {}

\* The node comes up and stays up, unless an initialisation has failed on
\* which one of main's two waits depends: no signal is lost between the tasks
\* that give it and main, in whatever order they come, and neither requests
\* that come too early nor other failures cost more than restarts.
NodeComesUp == <>[](main = "up" \/ Stuck)
=============================================================================
