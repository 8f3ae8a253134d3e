# Verification of the gate lock's home node

The home node is an ESP32 firmware: clients on the local network ask it over
HTTP to open or close the gate, to stream its log, or to update itself; it
forwards gate commands to the gate node over ESP-NOW and reports the outcome.
This directory has TLA+ specifications of that firmware, configurations that
model-check them with TLC, and proofs that TLAPS checks.

All paths below are relative to the repository (`src/`).

## 1. Inventory

| Part | Source | State it keeps | Operations |
|---|---|---|---|
| HTTP server | `components/http-server/http_server.c` | three object pools (async slots, log chunks, send jobs), the URI table, the work queue of esp_http_server | `http_server_init`, `http_server_register_uri`, `master_request_handler`, `http_server_send_response`, `http_server_close_async_connection`, `http_server_send_chunked_response`, the data, close and finalize workers |
| User requests | `components/user-request/user_request.c` | a pointer to the server's interface | `user_request_create`; one callback for each endpoint, run in the httpd task: post an event, or refuse |
| User output | `components/user-request-response/user_output.c` | a pointer to the server's interface | `user_request_response_create`, `send_log`, `inform_command_status` |
| Routine event handler | `main/routine_event_handler.c` | the delegate queue | the handlers of request, message, OTA and discovery events (event loop task); the delegate task that streams a log |
| OTA service | `components/ota-service/ota_service.c` | a semaphore, two flags, the HTTP client, the redirect flag, the boot partitions | `ota_task`, `ota_process_start`, `ota_set_valid`, `ota_service_init` |
| Boot | `main/home-node.c` | `proceed`, and how far it is | `app_main`: the order in which all the above comes up |
| GUI | `components/gui-component` | a queue of updates, a queue of LVGL jobs, the home screen | `lcd_init`, `gui_inform`, `gui_op_task`, `ui_worker_task`, the jobs; the task and the lock of LVGL's port |
| SD logger | `components/sd-card-logging` | mounted, file, running | `start`, `stop`, `deinit` (not part of the program, see 7) |
| mDNS | `components/mdns-service` | none | three library calls at boot |
| Scripts | `flash_firmware.py`, `token_test.py`, `.github/workflows/build.yml` | files | download, patch, flash, release |

External, and seen only through the calls this repository makes: FreeRTOS,
esp_http_server, esp_http_client, esp_ota and the bootloader, the bank pool,
the event adapter, the message codec, ESP-NOW, discovery, the sync manager,
log capture, Wi-Fi provisioning and LVGL.

### How the parts interact

A request goes through up to six hands:

    client -> httpd task (master_request_handler, endpoint callback)
           -> event loop task (routine_event_handler)
              -> message codec, radio -> event loop task          (gate)
              -> delegate task -> work items in the httpd task    (log)
              -> OTA task's semaphore                             (update)
           -> reply on the client's socket

Main and the display are a second path, of news and not of requests:

    app_main -> gui_op_queue -> gui_op_task -> notify_queue
             -> ui_worker_task, under the lock of LVGL's port -> a label

What travels with a request is the address of an async slot. Nothing counts references and
nothing checks the pointer when it comes back, so the whole design rests on
one idea that is written nowhere: a slot in use is in exactly one hand.

### What is hard, and the properties that answer it

Four tasks on two cores interleave at every call. The hazards are in
`PROJECT.json`, each at its line; the important ones are

* **ownership of slots, jobs and chunks** (`SlotOwnership`, `PoolOwnership`,
  `PoolsAccounted`): no second answer, no use after `bank_free`, no leak;
* **the right client** (`AnswerReachesAsker`): slots and sockets are reused
  while contexts are still in queues and in the air;
* **order of a stream** (`DataBeforeClose`, `StreamOrder`): data, close and
  finalize are separate work items, queued by two tasks among others';
* **limits** (`LoopNeverBlocks`, `WorkBound`, `OnlyLateReleaseExhausts`,
  `NeverPanics`): a blocking post in the event loop, a control socket whose
  overflow nobody notices, a pool that is empty when a request arrives;
* **failure and restart** (`ServiceSpec`, `IInv` with lost posts): refused
  events, refused and lost commands, a restart in the middle of everything;
* **progress** (`RequestEnds`, `SlotsComeBack`).

The update adds flash, which survives what the tasks do not: three tasks and
the bootloader read and write two partitions and a boot record, and power may
go at any write.

* **a node that boots** (`AlwaysBoots`, `RollbackTargetKept`): a download goes
  into the only partition that could be fallen back on, and the task goes on
  downloading after it has asked for the restart;
* **trust** (`TrustEarned`, `RejectedStaysOut`, `NeverDowngrades`): what is
  confirmed has worked, what failed does not come back, nothing goes backwards,
  though the only record of a failure is in the partition that the next
  download erases;
* **progress** (`TrialEnds`, `RequestTaken`).

`app_main` brings the parts up one after the other, each finding the next
through a pointer that main fills in, while the parts that are up already run.

* **pointers** (`EarlyOrFailed`): a request, a report or main itself can follow
  one that is not there yet, or never will be, since main ignores most of the
  results of its initialisations;
* **signals** (`NodeComesUp`): main waits for Wi-Fi and for discovery, either
  of which may be done first, or may be waited for in vain when something has
  failed unnoticed; no restart may leave the node in a loop;
* **the lock** (`LvglExclusive`, `LockedOnceBuilt`): main, the worker and the
  port's task all call LVGL, which is not made for that;
* **the screen** (`ScreenNeverGoesBack`, `LastNewsShown`): between main and a
  label lie two queues and two tasks.

Two rules are pure and turn on single bytes: which version is newer
(`VersionsInOrder`) and which endpoint a URI names (`EndpointsFound`).

## 2. Modules

| Module | Models |
|---|---|
| `HttpServer` | the server's state, the steps of the httpd task, the operations other tasks call |
| `RequestPath` | `HttpServer` composed with the endpoint callbacks, the event loop task, the delegate task, the codec and the OTA task as a request sees it; the properties |
| `RequestService` | what a client is promised: the abstract specification that `RequestPath` implements |
| `RequestPathInvariant` | the inductive invariant `IInv`, of who holds what |
| `ReplyInvariant` | `Replies`: what has been sent, is queued and is still to be sent to each client |
| `PoolInvariant` | `Accounts`: that nothing allocated is forgotten, and that the control socket has room |
| `MCRequestPath` | finite instances for TLC |
| `RequestPathLemmas` | facts about queues, functions and records, and what one step does to the invariant's parts |
| `RequestPathProofs` | the theorems that follow from `IInv` |
| `ReplyProofs` | the order of streams, and that `RequestPath` implements `RequestService` |
| `PoolProofs` | the theorems about pools and limits |
| `OtaUpdate` | `ota_service.c`, with `app_main` from `user_request_create` on, the event handlers that restart the node, the partitions and the bootloader; the properties |
| `OtaUpdateInvariant` | the inductive invariant `UpdateInv` |
| `OtaUpdateProofs` | the theorems |
| `UpdateService` | what an update promises: the abstract specification that `OtaUpdate` implements |
| `UpdateServiceProofs` | the proof that it does |
| `Gui` | `gui_inform`, `gui_op_task`, `ui_worker_task`, the jobs, the screen, the lock and the task of LVGL's port |
| `Startup` | `app_main` with the parts of the request path as far as their pointers go, composed with `Gui`; the properties |
| `StartupInvariant` | the inductive invariant `BootInv` |
| `StartupProofs` | the theorems |
| `TextRules` | `is_update_available` and the URI table, as operators on sequences of bytes |
| `MCStartup` | `StartupInvariant` and `TextRules` for TLC |
| `TextProofs` | the proofs of the two rules |

`OtaUpdate` and `RequestPath` are not composed. They meet in one event and one
semaphore: `RequestPath` answers the request and gives the semaphore,
`OtaUpdate` starts from the event. Neither looks at the other's state.
`Startup` has the same tasks as `RequestPath` and the same end of `app_main` as
`OtaUpdate`, but asks another question of them, which pointers they follow, and
abstracts from everything else.

### State of the request path

`slot`, `chunkData`, `jobData` are the static object arrays; `usedSlots`,
`usedChunks`, `usedJobs` are what the three banks have handed out. `work` is
the control socket of httpd, in which `httpd_queue_work` and
`httpd_sess_trigger_close` put items. `session` is the library's view of a
socket: `idle` (a client may send a request), `request` (one has arrived),
`async` (detached by `httpd_req_async_handler_begin`), `closing` (completed,
its close still queued). `asked` and `reply` are ghosts of a kind: the target a
client asked for and what has reached it, which is all a client can see.
`eventQ`, `delegateQ`, `startUpdate`, `radio` are the queues between tasks.
`httpd`, `loop`, `delegate`, `chunkCall` and `ota` are the tasks' locations and
locals, and exist only because another task can run between two calls:

* `httpd_req_async_handler_complete`, then `bank_free`
  (`http_server.c:308`/`315`): `Inform` then `InformRelease`, and `Refuse` then
  `Release`;
* the two `bank_alloc` of a chunk and a job (`383`/`384`): `AllocChunk`,
  `AllocJob`, then `QueueData` or `DropData`;
* the two `bank_free` of the data worker (`371`/`372`): `RunData`, `EndData`;
* the trigger of the close and the deferred free (`345`/`348`): `RunClose`,
  `QueueFinalize`;
* the entry of the callback and its post: `AcceptRequest`, then `PostRequest`
  or `PostFails`.

A call of the library, or of the bank pool, is one step.

### Modelling decisions of the request path

* The 404 of an unknown target is sent on the raw request, which is what the
  code's cast amounts to there; no slot is taken.
* A log is a sequence of numbered pieces. `ReadPiece` may be followed by
  `EndOfLog` after any number up to `MaxLog`; a piece that finds no chunk or no
  job is skipped, as the code does.
* `http_server_send_response` ends a reply in one step.
* Each reply carries `Connection: close`: a client makes no second request on a
  session that is closing, but may reuse a session completed without a close.
* The order in which httpd runs the close of a session and the finalize item is
  the queue's; which readable session it takes next is left open.
* The codec reports once on each command it accepted. (That it reports twice
  is not considered: `routine_message_service_events_handler` could not tell,
  and the slot would be answered twice.)
* `GATE_STATUS` (`routine_event_handler.c:201`) is posted by no callback.
* `UpdateStarts` lets the OTA task run after a given semaphore or after its 24
  hours; the timer does not fire while a restart is already in the event queue.
* `Restart` clears everything: all the state of this part is RAM.

### State of the update

`image`, `state` and `boot` are flash: what each of the two partitions holds
(a version, and whether the image is complete), the bootloader's record of it
(`ESP_OTA_IMG_*`) and the partition the record points at. Everything else is
RAM, and `Restart` sets it back: `phase` is how far `app_main` is, `ota` where
`ota_task` is in one pass of its loop, `validationPending`, `updatePending`,
`startUpdate`, `handleOpen` (`update_handle`) and `expectRedirect` are the
variables of the source, `offer` is `manifest.version`, `located` tells what
`response_buffer` holds. `rejected` is history.

The OTA task's places are the calls at which another task, or a power cut, can
come in between: the wait, the manifest, the checks, the request, the first
read, `esp_ota_begin`, each write, `esp_ota_end`,
`esp_ota_set_boot_partition`, the post. Each exit of the loop is an action
that names its cause.

### Modelling decisions of the update

* A version is a number: its place in the order of `strcmp`, which is how
  `is_update_available` compares. (That `1.10.0` is less than `1.9.0` in that
  order is not this module's subject.)
* The bootloader is external: with rollback enabled (`sdkconfig.defaults`), an
  image still on trial at the next boot is aborted and the other chosen; an
  image that does not verify is passed over for the other one. `esp_ota_begin`
  refuses while the running image is on trial, which is what
  `ESP_ERR_OTA_ROLLBACK_INVALID_STATE` is for; nothing in this repository
  would.
* An image is written in two steps, header and rest; `whole` means that it
  verifies. A file that is damaged on the way never becomes whole.
* A `Bad` release is one that never comes past discovery: it crashes, hangs
  until someone presses reset, or cannot find the gate node. `PowerLoss` is
  every restart that nobody in the program asked for.
* One event of each kind that restarts the node is kept in the queue: what
  stands behind the first is never handled.
* `TimerMayEnd` (bound): the 24 hours of `ota_task` do not end in the instant
  between the cause of a restart and the restart. They do end at any other
  moment, also when the event that restarts was lost.
* A second look at `esp_http_client_is_complete_data_received` and the
  workaround of the first read that returns nothing are part of
  `DataComplete`.
* `ota_set_valid(false)` has no caller. The factory partition that one of the
  partition tables has is not modelled.

### State of the start-up and the display

`main` is the call of `app_main` that comes next. `made` is the set of the
pointers that are filled in: the interface pointers of `user_request.c` and
`user_output.c`, the server's handle, the banks, the delegate queue, the log
buffer, the registry, the codec, the semaphore of the update, and with them
what is no pointer of this repository but must have been set up: LVGL's port,
Wi-Fi, the event adapter, the delegate task, the transport, discovery. `failed`
is the set of those whose initialisation has failed since the restart. `fault`
is the pointer that a task has followed although it was not filled in. `wifi` is `proceed` with its
callback, `discovery` the discovery service with the signal of the sync
manager, `uriCount` the variable of the server. `httpd`, `eventQ`, `radio` and
`delegateQ` say where requests are, and no more of them than what pointers
their handlers follow next. `requests` and `troubles` count what the world may
still do; a restart does not reset them.

In `Gui`, `guiQueue` is `gui_op_queue`, `posting` the setters `gui_op_task` has
still to call for one event, `jobQueue` is `notify_queue`, `worker` and `job`
the place and the message of `ui_worker_task`, `port` and `lock` the task and
the lock of LVGL's port, `screen` is `home_screen` and `shown` the event whose
text a label has.

### Modelling decisions of the start-up and the display

* The display is modelled as it is built with `CONFIG_FEATURE_GUI`
  (`sdkconfig.defaults:25`); the two target files turn it off, and
  `gui_op_dummy.c` then makes all of it empty. `CMakeLists.txt` lists the
  dummies in either case, with the same function names; which object the
  linker takes is not modelled.
* `ui_home_init` is two steps, since the port's task can run in between; all
  other calls of LVGL are made under the lock and are one step.
* An event that is posted before `user_request_create` has registered it may be
  delivered or refused: that is the adapter's affair, and `PostRequest` has
  both.
* Every initialisation may fail. `app_main` ignores what most of them return:
  `lvgl_port_init`, `sync_manager_init`, `event_system_adapter_init`,
  `routine_handler_init` (its queue, or only its task), `wifi_initialize`,
  `log_capture_init`, `esp_now_transport_init` when it returns anything but
  `ESP_FAIL`, `peer_registry_init` (used, then tested), `discovery_service_init`,
  `message_codec_init`, `user_request_create` and
  `user_request_response_create` (the server does not start, or the banks are
  not made), `start_discovery`, `ota_service_init` (no client, or no
  semaphore). In each of these main goes on without the pointer (`Attempt`,
  `Outcome`), and whoever needs it later follows it. The results that are looked
  at end main with `ESP_ERROR_CHECK`: those of the panel and its bus, of
  `ui_worker_init`, `gui_op_init` and `esp_wifi_get_channel`, and `ESP_FAIL` of
  the transport; they are one action, `Abort`.
* What a component of another repository does when it is called without having
  been initialised is its own affair: it faults, or returns an error and the
  caller goes on (`HandleGate`, `StartDiscovery`, `AwaitDiscovery`,
  `HandleDiscovery`, `PeersInit`). Both happen in the model.
* If `ota_service_init` cannot make its task, the semaphore exists and requests
  are answered: `start_update` is then made. `OtaUpdate`, whose subject the
  task is, leaves out that its initialisation fails.
* `mdns_service_start` keeps nothing that others read; its result is
  overwritten.
* Heights, fonts and texts are left out. An event stands for the text that
  `gui_op_task` sets for it.
* A version is a sequence of bytes, `v1.2.3` as `build.yml` takes it from a
  tag, with what `git describe` and the build may add behind it. A URI is a
  sequence of bytes that are not NUL.

## 3. Runs

The first four runs use `MCRequestPath`, the next six `OtaUpdate`, whose
constants need no module of their own (`update` checks `OtaUpdateInvariant`);
the last two are of `MCStartup` and `Startup`.

| Run | Asks | Bounds | Result |
|---|---|---|---|
| `safety` | do ownership, routing, order, limits, accounts and the promise to clients hold in every interleaving? | 2 sockets, 2 slots, 2 chunks, 2 jobs, logs of at most 2 pieces, every endpoint; control socket of 10 | holds; 294 268 states |
| `lossy` | do the invariants `IInv` and `Replies` and the promise survive lost reports and dropped work items? | 1 chunk, 1 job, control socket of 2, `LossyPost`; `/open-gate`, `/get-log`, `/ota-update` | holds; 522 354 states |
| `live` | is every request answered, does every slot come back? | 1 chunk, 1 job, 1 piece, a gate and a log endpoint | holds; 60 801 states |
| `exhausted` | does a request ever make the handler fault? | as `safety` with 1 chunk, 1 job | **violated**: see 6 |
| `update` | does the node always boot, and into the right image; does a trial end, is a request heard; does it do what `UpdateService` promises? | 4 releases, the second bad; 2 events; the post of the restart may be lost | holds; 101 440 states |
| `early_request` | is a request to update harmless before the task exists? | as `update` | **violated** |
| `open_handle` | is every OTA handle closed at the end of a pass? | as `update` | **violated** |
| `lost_update` | is an update that was put off made after the verification? | as `update` | **violated** |
| `stale_redirect` | does the buffer hold the URL that is followed? | as `update` | **violated** |
| `skipped_release` | is a release skipped only if it was tried? | as `update` | **violated** |
| `boot` | does the node come up whatever comes early, is the screen in order, is LVGL's lock kept; do versions and URIs compare as they should? | 1 request, 1 failed initialisation, of any kind, queues of 10, 16 and 4 as in the source; URIs of up to 4 bytes, a buffer of 3 and up to 3 records; releases with numbers 0, 9, 10 and 11 | holds; 401 258 states |
| `unlocked_screen` | is LVGL ever used by two tasks at once? | as `boot` | **violated** |

Why the bounds are enough to be interesting. Two sockets and two slots make
every conflict of two requests happen, reuse included: each slot and each
socket is used again and again, behaviours being unbounded in length. Two
chunks with two pieces per log make the pool run out between the two
allocations, and two logs share it. `WorkCap` 10 is above what `WorkBound`
says is ever queued, so the first run loses nothing because nothing can be
lost; in `lossy` it is 2, and items of all four kinds are dropped. The sizes
of the source are 4 throughout; three sockets, three slots and log requests
only were checked once (559 105 states, same invariants). For the properties
that are proved, no bound matters.

Four releases, because the shortest stories need them: the first is running,
the second fails and is rolled back, the third replaces it and is on trial
while the fourth is already published, so that the task could overwrite what
there is to fall back on. With three, dropping `esp_ota_begin`'s refusal is not
noticed. Two events are a request in front of the event that restarts, and one
behind. Five releases of which two are bad were checked once (291 350 states,
same properties), and so was the loss of the post of `VERIFICATION_PENDING`,
under which the safety properties hold; `TrialEnds` does not then, which is why
`Lossy` leaves it out: the code posts once and does not look.

One request is enough to follow any pointer that is not there, since a fault
ends the boot; one failure, since what has failed is only forgotten by a
restart. Two failures with one request (1 997 896 states) and two requests with
one failure (2 642 863 states) were checked once for the safety properties.
A delegate task that could not be made stops the event loop only when its queue
is full, which takes more requests than that: with a queue of 1, two requests
and one failure `NodeComesUp` was checked once (2 621 359 states); it holds, and
fails there if `Stuck` leaves the delegate task out.
The GUI queues have their real lengths, 10 and 16, and app_main tells four
things that make seven jobs, so nothing is ever dropped. `LastNewsShown` is
about the order of two queues, two tasks and a lock, and says nothing about a
queue that overflows; with queues of 1 it fails. Numbers of one and two
digits are what the order of versions turns on; a buffer of three bytes has
URIs that are shorter, just as long and longer, one of them a prefix of
another.

`SYMMETRY` is used where only safety is checked; sockets, slots, chunks and
jobs are interchangeable there. `MaxLog`, the sets `Sockets`..., `MaxVersion`,
`MaxEvents`, `MaxRequests` and `MaxTroubles` are the only bounds: no action has
a guard that the code does not have, but for `UpdateStarts` and `TimerMayEnd`
(above).

No run turns off deadlock checking: a client can always ask, or a task can
always move.

### Fairness

`FairSpec` assumes: every task runs when it can (weak fairness of the event
loop, of the delegate task, of httpd's continuation: FreeRTOS tasks of equal or
higher priority that block on queues only); httpd serves its control socket and
each readable session infinitely often if they are ready infinitely often
(strong fairness: one turn of its select loop looks at all of them, so neither
starves); the codec reports on each command it accepted; the panic handler
reboots. Clients, the OTA task and the success of a post carry no fairness.
Both liveness properties are for the loss-free configuration: with lost posts
they are false, as the code retries nothing.

`FairSpec` of `OtaUpdate` assumes that the panic handler reboots and that each
of the three tasks runs when it can. For main that includes that discovery
finds the gate node some time (when the image works); for the OTA task, that a
read ends some time, with data, an error or the end of the file. Power cuts,
requests and releases carry no fairness, and neither has the choice between the
outcomes of a call: every download may fail.

`FairSpec` of `Startup` assumes that each task that was made runs when it can,
that Wi-Fi connects and the gate node is found some time after each is started, and that
the panic handler reboots. `ui_worker_task` gets LVGL's lock if it is free
again and again (strong fairness): the port's task sleeps between two turns.
Requests, reports of the codec and failures carry no fairness. Where a failure
leaves main waiting for what nobody will give, `Stuck` says so, and
`NodeComesUp` lets it wait.

## 4. Refinement

`RequestService` says what a client is promised: one reply per request, of the
kind its endpoint answers with; a log in order, no piece twice; nothing after
the end; a restart forgets. Its variables are what a client sees. `RequestPath`
implements it (`ServiceSpec`) with `waiting` the sockets whose session is in
`request` or `async`, checked in `safety` and, under loss, in `lossy`, and
proved (5).

`UpdateService` says what an update is to its owner: a release runs; one that
was published, is newer and was never rolled back may be put on trial; a trial
ends confirmed, if the release works, or back where it began, and then that
release is condemned. Its variables are `runs`, `trial`, `fallback`,
`condemned` and `published`. It knows nothing of partitions, records, tasks or
power. `OtaUpdate` implements it (`PromiseKept`, defined in
`OtaUpdateInvariant`) with `runs` the version in the partition that is running,
`fallback` the version in the other one during a trial and the one running
otherwise. Checked in `update` and proved (5).

## 5. Proofs

### The request path: who holds what

For all values of the constants, from

* `ServerAssumption`: `WorkCap` is a natural number, `None` is no object;
* `JobPool`: there are finitely many send jobs and at least one
  (`SEND_JOB_POOL` is 4);
* `PathAssumption`: the types of the other constants;
* `DelegateFits` (only `LoopNeverWaits`): the delegate queue is as long as the
  slot pool, which is what `DELEGATE_QUEUE_LENGTH` and `MAX_ASYNC_REQUESTS`
  say;

TLAPS proves in `RequestPathProofs`

| Theorem | Says |
|---|---|
| `Invariance` | `Spec => []IInv` |
| `TypeCorrect` | `Spec => []TypeOK` |
| `SlotsOwned` | `Spec => []SlotOwnership` |
| `PoolsOwned` | `Spec => []PoolOwnership` |
| `AnswersReachAskers` | `Spec => []AnswerReachesAsker` |
| `DataRunsBeforeClose` | `Spec => []DataBeforeClose` |
| `LoopNeverWaits` | `Spec => []LoopNeverBlocks` |

The argument. None of the properties is inductive alone. That an answer
reaches the asker needs the slot to be in one hand (or another task reuses it);
that it is in one hand needs, for log requests, that queued data items are
attached to a slot that is with the delegate task or in a *later* close item
(or the close would overtake them); that in turn needs queued jobs to be
distinct and allocated (or a job is refilled while queued). `IInv` is the
conjunction of `TypeOK`, `Shape` (the fields of a task's location agree),
`SlotOwnership`, `Closings`, `Jobbing` (queued jobs and chunks),
`Streaming` (data items and their slots), `Waiting` (open slots belong to
distinct waiting sessions) and `Routing` (what was asked is where that
endpoint takes it). It is formulated so that it survives lost posts and dropped
work items: a lost close item leaves its slot allocated and in no hand, which
`IInv` allows and `PoolsAccounted` does not. Each action has a lemma; the
lemmas about queues (`Append`, `Tail`, ranges) are in `RequestPathLemmas`.
`LoopNeverWaits` is a pigeonhole: a full delegate queue and the loop would hold
more distinct slots than there are.

### The request path: what a client gets

`ReplyProofs` has, without any further assumption, so also when posts and work
items are lost,

| Theorem | Says |
|---|---|
| `RepliesInvariance` | `Spec => []Replies` |
| `StreamsInOrder` | `Spec => []StreamOrder` |
| `ServiceKept` | `Spec => ServiceSpec`: `RequestPath` implements `RequestService` |
| `EndsAsPromised` | what has ended belongs to no waiting request, ended with a word of its endpoint, and a refusal is all of its reply |
| `NothingAfterEnd` | a reply that has ended is not added to, changed or ended again, until the next request on its socket or a restart |

The argument. A piece of a log is in one of three places: sent, in a data item,
or with the delegate task. `Replies` orders all three for each request: what is
sent is increasing (`RepliesWhole`), what is queued is later and increasing in
the order of the queue (`QueuedInOrder`), what the delegate task holds or
reads next is later still (`ReadInOrder`). That `ReadInOrder` speaks of the
piece in hand or the next one (`Upto`) is what makes it survive a piece that
was skipped. `Started` ties `response_started` to what was sent, so the header
fields go out once; `Unsent` says that nothing is sent for a slot before the
delegate task has it, so a refusal is never mixed with a stream. `AnswersFit`
carries the kind of answer along with events and the loop's verdict. Losing an
item removes a piece from the middle, which keeps every order.

The refinement is proved step by step (`NextPromised`). `SendIsStream` maps the
data worker to `Stream`; `RespondFinishes`, used for the refusal and for the
answer of the event loop, the close worker (`CloseFinishes`) and the 404
(`NotFoundFinishes`) map to `Finish`; a restart to `Reboot`, a client's request to
`Ask`; everything else is a stutter, detaching a request and deleting a session
included (`SessionUnseen`). The last two theorems follow from the mapped steps
alone (`PromisedEnds`).

### The request path: pools and limits

`PoolProofs` has

| Theorem | Says |
|---|---|
| `AccountsInvariance` | `Spec => []Accounts` |
| `WorkBounded` | `Spec => []WorkBound`, whatever is lost and however large `WorkCap` |
| `NothingDropped` | with `Roomy`, whoever queues a work item finds room |
| `PoolsAccountedFor` | with `NoLoss`, `PoolsAccounted` always holds |
| `OnlyLateRelease` | with `NoLoss` and `SlotsSuffice`, `OnlyLateReleaseExhausts` always holds |

The hypotheses are about constants. `Roomy` is `WorkCap` at least
`WorkBound`'s number, 11 for the pools of the source; the control socket of
esp_http_server is a UDP socket of the loopback interface whose mailbox is set
in the build's configuration, not in this repository. `NoLoss` adds
that no post is lost: with a lost post a slot is lost, which is a fact about
the code (`IInv` holds then, these two do not). `SlotsSuffice`: no more
sessions than slots, `max_open_sockets` and `MAX_ASYNC_REQUESTS`, both 4.

The argument. Once nothing is dropped, each object is in some hand or queue
(`SlotsHeld`, `JobsHeld`, `ChunksHeld`), by one lemma per action; the slot of a
queued job is with the delegate task or in a close item (`StreamsHeld`). That
nothing is dropped is where the work is, and it is circular: it rests on the
accounts, and they on it. The bound is a count. Each item in the queue is given a
place of its own: a data item the place of its job, a close or finalize item
the first of the two places of its slot, the end of a session the second place
of the slot that is finalized next. `Paired` says that there is such a slot and
that no two ends of sessions share one (between an end and its finalize item
there is no other, `Apart`). That is an injection into one place per job and
two per slot. One place is always free, since a slot with data queued is not
closed, or not finalized yet; when the finalize item is about to be queued, or
the delegate task has a log in hand, two are. So there is room for one more in
each state in which an item is queued.

`OnlyLateRelease`: if the pool is empty and a request has arrived, the sessions
that wait are fewer than the slots; the slots in hands that are still open
belong to distinct waiting sessions (`Waiting`); so some slot in use is
answered already.

### The update

For all values of the constants, from `OtaAssumption`: there is a release to
start with and it works, `MaxEvents` is a natural number and `Lossy` a set of
events. TLAPS proves in `OtaUpdateProofs`

| Theorem | Says |
|---|---|
| `UpdateInvariance` | `Spec => []UpdateInv` |
| `UpdateTypeCorrect` | `Spec => []TypeOK` |
| `BootsAlways` | `Spec => []AlwaysBoots` |
| `FallbackKept` | `Spec => []RollbackTargetKept` |
| `ConfirmedWorks` | `Spec => []TrustEarned` |
| `RejectedForGood` | `Spec => []RejectedStaysOut` |
| `OnlyUpgrades` | `Spec => []NeverDowngrades` |

The argument. A download is safe because the partition that is running is
confirmed whenever a write happens (`OnTrialIdle`), and the partition that is
written to is either idle or itself the one to be booted (`BootRecord`); in
both cases the one that runs is what there is to fall back on (`Fallback`).
`RejectedStaysOut` is the subtle one. `LastInvalid` sees one version only, and
a download erases it. It suffices because (`Remembered`) each version that was
ever rolled back is on record, or not above what runs, or below what is newest:
a release is downloaded only if it is above what runs and not the one on
record, and then all that were rolled back are below it (`Offered`), also when
it is left half written (`Downloaded`). That the server's releases only grow is
used there. `TrustEarned` needs that main is past discovery in the very boot
whose image the event confirms (`Discovered`).

Each group of actions has a lemma. `FlashKept` and `TaskKept` deal once with
the parts that a step leaves alone, `QuietKeeps` with the ten ways in which a
pass ends or goes on without touching flash, `WriteKeeps` with the writes.

`UpdatePromiseKept` (`UpdateServiceProofs`) is `Spec => PromiseKept`. It rests
on `UpdateInv`. Of all steps only those of the bootloader and one of the event
loop are visible: `RestartMaps` has the five ways in which a node boots (the
trial failed; the image to be tried is not complete and was passed over in an
earlier boot or in this one; the trial begins; all is as before) and maps each
to `RollBack`, `Try` or a stutter, `VerificationMaps` maps the confirmation.
`Unseen` says which changes of flash cannot be seen: the OTA task writes only
when nothing is on trial, and never to the partition that is running, which is
why a download, half written or not, is no step of the service at all.

### The start-up and the display

For all lengths of both queues, except 0, and any number of requests and of
failures (`GuiAssumption`, `StartupAssumption`), TLAPS proves in
`StartupProofs`

| Theorem | Says |
|---|---|
| `BootInvariance` | `Spec => []BootInv` |
| `BootTypeCorrect` | `Spec => []TypeOK` |
| `LockKept` | `Spec => []LockedOnceBuilt` |
| `OnlyEarlyOrFailed` | `Spec => []EarlyOrFailed`, and a node that is up and had no failure follows none |
| `NewsInOrder` | `Spec => ScreenNeverGoesBack` |

The argument. That few pointers are followed too soon needs that someone who
is asked something was asked through an endpoint (`NothingAsked`), that there
is an endpoint only from a certain place of `app_main` on and with its server
and an attempt at its pools (`Serving`), that no event is in the loop before its
handler (`Handled`), and what has been made or has failed there (`Prepared`,
with `Tried`). Most steps of main are an `Outcome` between two places: one lemma
(`OutcomeNode`) says what each must deliver (`Delivers`), and another
(`TripsNode`) that main itself follows only what it has tried to make. The
steps of all other tasks share `MeanwhileNode`, which asks only what they
follow; `Asking` says that this is made, late or failed.

That the screen never goes back needs an order over
the whole path: what is nearer to the screen is no newer (`InOrder`), each
queue is in order (`Sorted`), and everything is at most as new as what main has
told last (`Told`). With queues so short that news is dropped both still hold:
a dropped event leaves the order as it is. Each of the six operations of the
display has a lemma for its types and one for the order.

### The two rules about texts

From `TextAssumption` (the buffer has at least one byte, there is a number of
records, letters are bytes other than NUL, releases have numbers), for all
values of those constants, TLAPS proves in `TextProofs`

| Theorem | Says |
|---|---|
| `VersionsAgree`, `VersionsStayInOrder` | `OrderAgrees`, and with it `Spec => []VersionsInOrder` |
| `EndpointsApart`, `EndpointsStayFound` | `LookupFinds`, and with it `Spec => []EndpointsFound` |

The argument. `StrcmpFirst` says that `strcmp` tells the first difference. Two
numbers with equally many digits differ first in a digit that is greater in the
greater number (`DecimalOrder`): either their fronts, `n \div 10`, differ, or
only their last digits do. A tag is regrouped around the number in which two
releases part (`TagAround`), and what stands before that is the same in both.
A record with a byte left for the NUL has the bytes of its URI and no others
(`BufferType`), so it matches that URI only; the table holds the records in the
order of registration (`TableHolds`).

Both need induction, over the digits of a number and over the records of a
table. The library's induction theorems take an operator as a parameter, which
no installed prover instantiates, so induction is done with sets: `Least` (from
the well-foundedness of `<`, `WFMin`) and `Inductive`, a set that contains each
number all of whose predecessors it contains is all of `Nat`. In the same way
`DecimalDefined` and `FilledExists` show that the recursive functions `Decimal`
and the one in `FoldLeft` exist, by building them up to n for each n.

### Only model-checked

The liveness properties `RequestEnds`, `SlotsComeBack`, `TrialEnds`,
`RequestTaken`, `LastNewsShown` and `NodeComesUp`: temporal reasoning under
fairness needs `ENABLED`, which TLAPS does not have. Every other property of a
passing run is proved.

## 6. What was found

**A null pointer when the slots are used up.** `master_request_handler` writes
`async_slot->response_started` (`http_server.c:437`) before it tests the
pointer (`440`). The 503 "Server Busy" branch is therefore unreachable and an
empty pool faults. It does get empty although slots and sockets are both 4,
since a finished request is completed before its slot is freed. Run `exhausted`
shows it; `OnlyLateReleaseExhausts` shows that this window is the only cause.

**An update asked for too early.** `app_main` opens the endpoints
(`home-node.c:236`) long before `ota_service_init` (`270`) makes the semaphore
that `ota_process_start` gives (`ota_service.c:642`). A request in between stops
the node with an assertion. If the image was on trial, the restart rolls it
back although nothing is wrong with it. Run `early_request`.

**An update put off is lost.** `ota_set_valid` signals the update that came
during the trial (`ota_service.c:653`), and its only caller restarts the node
(`routine_event_handler.c:134`). The client has been told "success". Run
`lost_update`.

**A good release skipped.** `detect_last_invalid_app` takes the version of the
rolled back image from its partition, where the next download has put its own.
If that download fails half way, the release it was about counts as the one
that was rolled back and is never tried. Run `skipped_release`.

**A handle left open.** Of the ways out of the download loop after
`esp_ota_begin`, one calls `esp_ota_abort`. Run `open_handle`.

**A stale redirect.** `expect_redirect` is set and never cleared. After the
first redirect an answer that is none is treated as one, with a buffer that
does not hold a URL. Run `stale_redirect`.

**The screen is built without the lock.** The comment at `lcd_device.c:150`
says why LVGL needs its lock, over a call that is commented out; `ui_home_init`
(`162`) is called without it while the port's task runs. Run
`unlocked_screen`. `LockedOnceBuilt` shows that this is the only such place.

More, which no run is made for because a passing property states exactly how
far they go. A request that is answered between the first endpoint
(`user_request.c:155`) and `user_request_response_create` (`home-node.c:237`)
is answered through a null pointer (`user_output.c:60`); that and the semaphore
of `early_request` are all that is late when every initialisation succeeds.
When one fails, `app_main` mostly does not notice. The peer registry's interface
is used (`home-node.c:181`) before it is tested (`184`). Without its client or
its semaphore (`ota_service.c:694-698`, `712-713`), `ota_service_init` returns
an error at which `home-node.c:270` does not look: the node is up, and the next
request for an update gives a semaphore that is not there. `EarlyOrFailed`
allows these and shows that nobody follows a pointer for any other reason, such
as a server that did not start. Without its transport (other errors than
`ESP_FAIL`, `171`), discovery (`208`) or event adapter (`124`), or with a log
request too many for a delegate task that was not made (`126`), main waits at
`257` for ever, its endpoints open and its OTA task never made; without Wi-Fi it
waits at `145`. `NodeComesUp` shows that no other failure keeps the node from
coming up.

Versions are compared byte by byte:
`VersionsInOrder` holds where the numbers that differ first have the same
number of digits, and not otherwise (`v1.10.0` is no update for `v1.9.0`);
likewise `EndpointsFound` holds for URIs shorter than the buffer, and
`http_server_register_uri` accepts one that just fills it
(`http_server.c:466`).

## 7. Plan

1. (done) `HttpServer`, `RequestPath`, `RequestService`, `IInv`, first theorems.
2. (done) `OtaUpdate`, `UpdateInv`, its theorems.
3. (done) `Gui`, `Startup`, `BootInv`, its theorems; `TextRules`.
4. (done) `UpdateService`, and the proof that `OtaUpdate` implements it.
5. (done) Theorems: `StreamOrder`, `PoolsAccounted` without loss, `WorkBound`,
   `OnlyLateReleaseExhausts`, `Spec => ServiceSpec`; the rules about texts.
6. The safety half of progress, which needs no fairness: that each task that
   holds a request can move, or waits for one that can (an invariant each of
   the liveness properties rests on).

### Not modelled

* The SD logger (`components/sd-card-logging`): the program does not contain
  it. `main/CMakeLists.txt` does not require the component, and the only call
  is commented out (`home-node.c:151`). Its life cycle would be a sequential
  module about code nobody runs.
* mDNS: three library calls, no state. NVS: erased if it cannot be read.
* Fonts, icons and layout: data.
* The Python scripts and the workflow: sequential I/O around the network and
  the build.
* What runs out of memory once the node is up, and a connection that neither delivers nor fails
  (`ota_service.c:564`, `http_server.c:435`): the library decides both.
