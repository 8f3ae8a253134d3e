----------------------------- MODULE OtaUpdate ------------------------------
(***************************************************************************)
(* How the node updates its firmware: components/ota-service/ota_service.c *)
(* with the part of app_main (main/home-node.c) that starts it and the     *)
(* part of main/routine_event_handler.c that restarts the node for it.     *)
(*                                                                         *)
(* Three tasks: main brings the node up, the event loop handles requests   *)
(* and restarts, the OTA task downloads.  Power may be lost at any moment. *)
(* External, modelled from how this code uses it: esp_ota and the          *)
(* bootloader with its rollback (CONFIG_BOOTLOADER_APP_ROLLBACK_ENABLE),   *)
(* esp_http_client, the event loop, and the server that has the releases.  *)
(*                                                                         *)
(* A version is a number: its place in the order of strcmp, by which       *)
(* is_update_available compares.                                           *)
(***************************************************************************)
EXTENDS Naturals, Sequences

CONSTANTS
  MaxVersion,   \* bound of the model: releases, 1 is the one first flashed
  Bad,          \* releases that never get as far as the end of discovery
  MaxEvents,    \* bound of the model: events queued when a request comes
  Lossy         \* the events whose post, which nobody checks, may be lost

Partitions == {"ota_0", "ota_1"}
Versions   == 1..MaxVersion
EventIds   == {"OTA_UPDATE", "REBOOT_REQUIRED", "VERIFICATION_PENDING"}

ASSUME OtaAssumption ==
  /\ MaxVersion \in Nat \ {0}
  /\ Bad \subseteq 2..MaxVersion
  /\ MaxEvents \in Nat
  /\ Lossy \subseteq EventIds

VARIABLES
  \* Flash: it survives a restart.
  image,         \* what each partition holds
  state,         \* the bootloader's record of each partition
  boot,          \* the partition the bootloader will try
  \* RAM.
  running,       \* the partition this boot runs from
  phase,         \* how far main is
  validationPending, updatePending,
  startUpdate,   \* the semaphore, given
  eventQ,        \* the event loop's queue
  loop,          \* the event loop task: idle, or about to restart
  panicked,      \* an assertion stopped the node
  ota,           \* where the OTA task is
  offer,         \* manifest.version
  handleOpen,    \* whether update_handle is open
  leaked,        \* whether an open handle is in no variable
  expectRedirect,
  located,       \* whether response_buffer holds the URL of a redirect
  \* The world.
  latest,        \* the newest release
  rejected       \* history: versions that ran and were rolled back

flashVars  == <<image, state, boot>>
bootVars   == <<running, phase, rejected>>
signalVars == <<validationPending, updatePending, startUpdate>>
eventVars  == <<eventQ, loop>>
taskVars   == <<offer, handleOpen, leaked, expectRedirect, located>>
vars == <<flashVars, bootVars, signalVars, eventVars, panicked, ota, taskVars,
          latest>>

-----------------------------------------------------------------------------
Blank    == [v |-> 0, whole |-> FALSE]
Other(p) == IF p = "ota_0" THEN "ota_1" ELSE "ota_0"

Phases   == {"starting", "discovering", "semaphore", "task", "up"}
Places   == {"none", "waiting", "manifest", "check", "answered", "download",
             "write", "more", "end", "setBoot", "post"}

\* The semaphore is made before the task that waits on it.
TypeOK ==
  /\ image \in [Partitions -> [v : 0..MaxVersion, whole : BOOLEAN]]
  /\ state \in [Partitions -> {"undefined", "new", "pending", "valid",
                               "aborted"}]
  /\ boot \in Partitions /\ running \in Partitions
  /\ phase \in Phases
  /\ validationPending \in BOOLEAN /\ updatePending \in BOOLEAN
  /\ startUpdate \in BOOLEAN
  /\ eventQ \in Seq(EventIds)
  /\ loop \in {"idle", "restart"}
  /\ panicked \in BOOLEAN
  /\ ota \in Places
  /\ ota = "none" <=> phase \in {"starting", "discovering", "semaphore"}
  /\ offer \in 0..MaxVersion
  /\ handleOpen \in BOOLEAN /\ leaked \in BOOLEAN
  /\ expectRedirect \in BOOLEAN /\ located \in BOOLEAN
  /\ latest \in Versions
  /\ rejected \in SUBSET Versions

\* A node flashed over USB: no otadata, release 1 in the first partition.
Init ==
  /\ image = [p \in Partitions |->
                IF p = "ota_0" THEN [v |-> 1, whole |-> TRUE] ELSE Blank]
  /\ state = [p \in Partitions |-> "undefined"]
  /\ boot = "ota_0" /\ running = "ota_0"
  /\ phase = "starting"
  /\ validationPending = FALSE /\ updatePending = FALSE
  /\ startUpdate = FALSE
  /\ eventQ = <<>>
  /\ loop = "idle"
  /\ panicked = FALSE
  /\ ota = "none"
  /\ offer = 0
  /\ handleOpen = FALSE /\ leaked = FALSE
  /\ expectRedirect = FALSE /\ located = FALSE
  /\ latest = 1
  /\ rejected = {}

-----------------------------------------------------------------------------
(***************************************************************************)
(* Restart.                                                                *)
(***************************************************************************)

\* The bootloader: an image that was on trial and is not confirmed is
\* aborted and the other one chosen, a new one goes on trial; if the image
\* chosen does not verify, the other is loaded.
Bootloader ==
  LET onTrial == state[boot] = "pending"
      chosen  == IF onTrial THEN Other(boot) ELSE boot
      decided == IF onTrial THEN [state EXCEPT ![boot] = "aborted"] ELSE state
  IN /\ boot' = chosen
     /\ state' = IF decided[chosen] = "new"
                   THEN [decided EXCEPT ![chosen] = "pending"] ELSE decided
     /\ running' = IF image[chosen].whole THEN chosen ELSE Other(chosen)
     /\ rejected' = IF onTrial /\ running = boot
                      THEN rejected \cup {image[boot].v} ELSE rejected

\* RAM starts from zero.
Restart ==
  /\ Bootloader
  /\ phase' = "starting"
  /\ validationPending' = FALSE /\ updatePending' = FALSE
  /\ startUpdate' = FALSE
  /\ eventQ' = <<>> /\ loop' = "idle"
  /\ panicked' = FALSE
  /\ ota' = "none"
  /\ offer' = 0
  /\ handleOpen' = FALSE /\ leaked' = FALSE
  /\ expectRedirect' = FALSE /\ located' = FALSE
  /\ UNCHANGED <<image, latest>>

\* Power fails, someone presses reset, or a bad image crashes.
PowerLoss == Restart

PanicReboot == panicked /\ Restart

-----------------------------------------------------------------------------
\* The post of an event that restarts the node, whose result is ignored.  One
\* in the queue is enough: none behind it is handled.
Post(id) ==
  \/ eventQ' = IF \E i \in DOMAIN eventQ : eventQ[i] = id
                 THEN eventQ ELSE Append(eventQ, id)
  \/ id \in Lossy /\ eventQ' = eventQ

-----------------------------------------------------------------------------
(***************************************************************************)
(* The main task: app_main from user_request_create, and ota_service_init. *)
(***************************************************************************)

\* user_request_create: the endpoints answer from here on.
ServicesUp ==
  /\ ~panicked /\ phase = "starting"
  /\ phase' = "discovering"
  /\ UNCHANGED <<flashVars, running, rejected, signalVars, eventVars,
                 panicked, ota, taskVars, latest>>

\* Mutant of DiscoveryDone: main does not wait for it.
DiscoverySkipped ==
  /\ ~panicked /\ phase = "discovering"
  /\ phase' = "semaphore"
  /\ UNCHANGED <<flashVars, running, rejected, signalVars, eventVars,
                 panicked, ota, taskVars, latest>>

\* sync_manager_signal_wait returns, and ota_service_init makes the client
\* and the semaphore.  An image that is no good does not come to this point.
DiscoveryDone ==
  /\ ~panicked /\ phase = "discovering"
  /\ image[running].v \notin Bad
  /\ phase' = "semaphore"
  /\ UNCHANGED <<flashVars, running, rejected, signalVars, eventVars,
                 panicked, ota, taskVars, latest>>

\* Mutant of CreateTask: main goes on although there is no task.
CreateTaskFails ==
  /\ ~panicked /\ phase = "semaphore"
  /\ phase' = "task"
  /\ UNCHANGED <<flashVars, running, rejected, signalVars, eventVars,
                 panicked, ota, taskVars, latest>>

\* xTaskCreate: the OTA task may run before main does anything else.
CreateTask ==
  /\ ~panicked /\ phase = "semaphore"
  /\ phase' = "task"
  /\ ota' = "waiting"
  /\ UNCHANGED <<flashVars, running, rejected, signalVars, eventVars,
                 panicked, taskVars, latest>>

\* Mutant of CheckPending: the event is forgotten.
CheckPendingSilent ==
  /\ ~panicked /\ phase = "task"
  /\ phase' = "up"
  /\ validationPending' = (state[running] = "pending")
  /\ UNCHANGED <<flashVars, running, rejected, updatePending, startUpdate,
                 eventVars, panicked, ota, taskVars, latest>>

\* The rest of ota_service_init: is the running image on trial?
CheckPending ==
  /\ ~panicked /\ phase = "task"
  /\ phase' = "up"
  /\ validationPending' = (state[running] = "pending")
  /\ IF validationPending' THEN Post("VERIFICATION_PENDING")
                           ELSE UNCHANGED eventQ
  /\ UNCHANGED <<flashVars, running, rejected, updatePending, startUpdate,
                 loop, panicked, ota, taskVars, latest>>

MainStep == ServicesUp \/ DiscoveryDone \/ CreateTask \/ CheckPending

-----------------------------------------------------------------------------
(***************************************************************************)
(* The event loop task.                                                    *)
(***************************************************************************)
TakeEvent(id) ==
  /\ ~panicked /\ loop = "idle"
  /\ eventQ # <<>> /\ Head(eventQ) = id
  /\ eventQ' = Tail(eventQ)

\* ota_process_start for a request: xSemaphoreGive asserts that there is a
\* semaphore.
HandleRequest ==
  /\ TakeEvent("OTA_UPDATE")
  /\ IF phase = "discovering"
       THEN panicked' = TRUE /\ UNCHANGED startUpdate
       ELSE startUpdate' = TRUE /\ UNCHANGED panicked
  /\ UNCHANGED <<flashVars, bootVars, validationPending, updatePending, loop,
                 ota, taskVars, latest>>

\* ota_set_valid(true): the image is confirmed, and an update that came too
\* early is signalled again.
HandleVerification ==
  /\ TakeEvent("VERIFICATION_PENDING")
  /\ state' = [state EXCEPT ![boot] = "valid"]
  /\ startUpdate' = (startUpdate \/ updatePending)
  /\ loop' = "restart"
  /\ UNCHANGED <<image, boot, bootVars, validationPending, updatePending,
                 panicked, ota, taskVars, latest>>

\* esp_restart at the end of that handler.
RestartVerified ==
  /\ ~panicked /\ loop = "restart"
  /\ Restart

\* REBOOT_REQUIRED: esp_restart.
HandleReboot ==
  /\ ~panicked /\ loop = "idle"
  /\ eventQ # <<>> /\ Head(eventQ) = "REBOOT_REQUIRED"
  /\ Restart

LoopStep ==
  HandleRequest \/ HandleVerification \/ RestartVerified \/ HandleReboot

-----------------------------------------------------------------------------
(***************************************************************************)
(* The OTA task: one pass of the loop of ota_task.                         *)
(***************************************************************************)

\* Mutant of NextUpdatePartition: it starts from the partition to be booted.
NextAfterBoot == Other(boot)

\* esp_ota_get_next_update_partition(NULL).
NextUpdatePartition == Other(running)

IsInvalid(v) ==
  \E p \in Partitions : state[p] = "aborted" /\ image[p].v = v

\* Mutant of LastInvalid: versions are not compared.
LastInvalidIgnored(v) == FALSE

\* detect_last_invalid_app: the version in the partition whose image was
\* rolled back last.
LastInvalid(v) == v # 0 /\ IsInvalid(v)

\* Mutant of IsUpdateAvailable: the same version will do.
SameVersionWillDo(v) == v >= image[running].v

\* is_update_available.
IsUpdateAvailable(v) == v > image[running].v

\* The OTA task's location alone changes.
Goes(from, to) ==
  /\ ~panicked /\ ota = from
  /\ ota' = to

Unsignalled == UNCHANGED <<flashVars, bootVars, signalVars, eventVars,
                           panicked, latest>>

\* Bound of the model: the 24 hours do not end in the instant between the
\* cause of a restart and the restart.
TimerMayEnd ==
  /\ phase = "up" /\ loop = "idle"
  /\ \A i \in DOMAIN eventQ : eventQ[i] = "OTA_UPDATE"

\* xSemaphoreTake returns, signalled or after 24 hours, and the flag says
\* whether to go on.
TakeSignal ==
  /\ ~panicked /\ ota = "waiting"
  /\ startUpdate \/ TimerMayEnd
  /\ startUpdate' = FALSE
  /\ updatePending' = validationPending
  /\ ota' = IF validationPending THEN "waiting" ELSE "manifest"
  /\ UNCHANGED <<flashVars, bootVars, validationPending, eventVars, panicked,
                 taskVars, latest>>

\* fetch_ota_manifest: the buffer is cleared, and then holds the manifest.
FetchManifest ==
  /\ Goes("manifest", "check")
  /\ offer' = latest
  /\ located' = FALSE
  /\ UNCHANGED <<handleOpen, leaked, expectRedirect>> /\ Unsignalled

\* It fails; the answer may have been a redirect, which sets the flag.
FetchFails ==
  /\ Goes("manifest", "waiting")
  /\ expectRedirect' \in {expectRedirect, TRUE}
  /\ located' = FALSE
  /\ UNCHANGED <<offer, handleOpen, leaked>> /\ Unsignalled

SkipInvalid ==
  /\ Goes("check", "waiting")
  /\ LastInvalid(offer)
  /\ UNCHANGED taskVars /\ Unsignalled

SkipOld ==
  /\ Goes("check", "waiting")
  /\ ~LastInvalid(offer) /\ ~IsUpdateAvailable(offer)
  /\ UNCHANGED taskVars /\ Unsignalled

\* Mutant of RequestFails: task_fatal_error, as the example this came from.
RequestFatal ==
  /\ Goes("check", "none")
  /\ ~LastInvalid(offer) /\ IsUpdateAvailable(offer)
  /\ UNCHANGED taskVars /\ Unsignalled

\* esp_http_client_perform of the firmware's URL; _http_event_handler stores
\* the URL of a redirect in the buffer.
RequestFirmware(next, location) ==
  /\ Goes("check", next)
  /\ ~LastInvalid(offer) /\ IsUpdateAvailable(offer)
  /\ expectRedirect' = (expectRedirect \/ location)
  /\ located' = location
  /\ UNCHANGED <<offer, handleOpen, leaked>> /\ Unsignalled

RequestAnswered == \E location \in BOOLEAN :
                     RequestFirmware("answered", location)
RequestFails    == \E location \in BOOLEAN :
                     RequestFirmware("waiting", location)

\* The URL in the buffer is opened; the buffer is cleared.
FollowRedirect ==
  /\ \/ Goes("answered", "download")
     \/ Goes("answered", "waiting")
  /\ expectRedirect
  /\ located' = FALSE
  /\ UNCHANGED <<offer, handleOpen, leaked, expectRedirect>> /\ Unsignalled

\* No redirect: the read finds a closed connection whose body was read to
\* the end, or an error.
NoRedirect ==
  /\ \/ Goes("answered", "end")
     \/ Goes("answered", "waiting")
  /\ ~expectRedirect
  /\ UNCHANGED taskVars /\ Unsignalled

\* A read fails or the connection is reset: "continue", without the abort.
ReadFails ==
  /\ Goes("download", "waiting") \/ Goes("more", "waiting")
  /\ UNCHANGED taskVars /\ Unsignalled

\* The first piece is too short to hold the header, or esp_ota_begin fails.
BeginFails ==
  /\ Goes("download", "waiting")
  /\ UNCHANGED taskVars /\ Unsignalled

\* Mutant of Begin: an image on trial may begin an update.
BeginOnTrial ==
  /\ Goes("download", "write")
  /\ leaked' = (leaked \/ handleOpen)
  /\ handleOpen' = TRUE
  /\ UNCHANGED <<offer, expectRedirect, located>> /\ Unsignalled

\* esp_ota_begin with the first piece: refused while the running image is
\* on trial.  The handle that update_handle had is overwritten.
Begin ==
  /\ Goes("download", "write")
  /\ state[running] # "pending"
  /\ leaked' = (leaked \/ handleOpen)
  /\ handleOpen' = TRUE
  /\ UNCHANGED <<offer, expectRedirect, located>> /\ Unsignalled

Write(content) ==
  /\ image' = [image EXCEPT ![NextUpdatePartition] = content]
  /\ UNCHANGED <<state, boot, bootVars, signalVars, eventVars, panicked,
                 latest>>

\* esp_ota_write of the first piece: erased, then written.
WriteHeader ==
  /\ Goes("write", "more")
  /\ Write([v |-> offer, whole |-> FALSE])
  /\ UNCHANGED taskVars

\* The pieces after it, to the last.  A file that is damaged never gets here.
WriteRest ==
  /\ Goes("more", "more")
  /\ ~image[NextUpdatePartition].whole
  /\ Write([v |-> offer, whole |-> TRUE])
  /\ UNCHANGED taskVars

\* esp_ota_write fails, with the first sector erased or a later one:
\* esp_ota_abort.
WriteFails ==
  /\ \/ Goes("write", "waiting") /\ Write(Blank)
     \/ Goes("more", "waiting") /\ Write([v |-> offer, whole |-> FALSE])
  /\ handleOpen' = FALSE
  /\ UNCHANGED <<offer, leaked, expectRedirect, located>>

\* A read returns nothing and all data has been received, be it nothing.
DataComplete ==
  /\ Goes("download", "end") \/ Goes("more", "end")
  /\ UNCHANGED taskVars /\ Unsignalled

\* esp_ota_end: it closes the handle and checks the image.
EndUpdate ==
  /\ \/ Goes("end", "setBoot") /\ handleOpen
                               /\ image[NextUpdatePartition].whole
     \/ Goes("end", "waiting")
  /\ handleOpen' = FALSE
  /\ UNCHANGED <<offer, leaked, expectRedirect, located>> /\ Unsignalled

\* Mutant of SetBoot: no trial, as without the bootloader's rollback.
SetBootTrusted ==
  /\ Goes("setBoot", "post")
  /\ boot' = NextUpdatePartition
  /\ state' = [state EXCEPT ![NextUpdatePartition] = "undefined"]
  /\ UNCHANGED <<image, bootVars, signalVars, eventVars, panicked, taskVars,
                 latest>>

\* esp_ota_set_boot_partition.
SetBoot ==
  /\ Goes("setBoot", "post")
  /\ boot' = NextUpdatePartition
  /\ state' = [state EXCEPT ![NextUpdatePartition] = "new"]
  /\ UNCHANGED <<image, bootVars, signalVars, eventVars, panicked, taskVars,
                 latest>>

SetBootFails ==
  /\ Goes("setBoot", "waiting")
  /\ UNCHANGED taskVars /\ Unsignalled

PostReboot ==
  /\ Goes("post", "waiting")
  /\ Post("REBOOT_REQUIRED")
  /\ UNCHANGED <<flashVars, bootVars, signalVars, loop, panicked, taskVars,
                 latest>>

OtaStep ==
  \/ TakeSignal \/ FetchManifest \/ FetchFails \/ SkipInvalid \/ SkipOld
  \/ RequestAnswered \/ RequestFails \/ FollowRedirect \/ NoRedirect
  \/ ReadFails \/ BeginFails \/ Begin \/ WriteHeader \/ WriteRest \/ WriteFails
  \/ DataComplete \/ EndUpdate \/ SetBoot \/ SetBootFails \/ PostReboot

-----------------------------------------------------------------------------
(***************************************************************************)
(* The world.                                                              *)
(***************************************************************************)

\* A client asks for an update and the endpoint's callback posts the event.
Request ==
  /\ ~panicked /\ phase # "starting"
  /\ Len(eventQ) < MaxEvents
  /\ eventQ' = Append(eventQ, "OTA_UPDATE")
  /\ UNCHANGED <<flashVars, bootVars, signalVars, loop, panicked, ota,
                 taskVars, latest>>

\* A new release.
Publish ==
  /\ latest < MaxVersion
  /\ latest' = latest + 1
  /\ UNCHANGED <<flashVars, bootVars, signalVars, eventVars, panicked, ota,
                 taskVars>>

Next ==
  \/ PowerLoss \/ PanicReboot
  \/ MainStep \/ LoopStep \/ OtaStep
  \/ Request \/ Publish

Spec == Init /\ [][Next]_vars

\* Every task runs when it can, discovery finds the gate node, and a read
\* ends some time: with data, an error or the end of the file.
Fairness ==
  /\ WF_vars(PanicReboot)
  /\ WF_vars(MainStep)
  /\ WF_vars(LoopStep)
  /\ WF_vars(OtaStep)

FairSpec == Spec /\ Fairness

-----------------------------------------------------------------------------
(***************************************************************************)
(* Properties.                                                             *)
(***************************************************************************)

\* Whatever was interrupted, and though an update may be installed over one
\* that waits for its restart: the image that runs is complete, and so is the
\* one that a restart at this moment would load.
AlwaysBoots == image[running].whole

\* While an image is on trial, the one to fall back on is there, complete
\* and known to work.
RollbackTargetKept ==
  state[running] = "pending" =>
    LET old == image[Other(running)] IN old.whole /\ old.v \notin Bad

\* An image is confirmed only when it has shown that it works: what the
\* bootloader is bound to is complete and gets through discovery.
TrustEarned ==
  state[boot] \in {"undefined", "valid"} =>
    image[boot].whole /\ image[boot].v \notin Bad

\* "marked invalid, and skipped later on updates": a release that was rolled
\* back is never chosen again, whatever is downloaded, interrupted or
\* published in between.
RejectedStaysOut ==
  state[boot] = "new" => image[boot].v \notin rejected

\* An image chosen for the next boot is newer than the one it replaces.
NeverDowngrades ==
  state[boot] \in {"new", "pending"} /\ image[boot].whole
    => image[boot].v > image[Other(boot)].v

\* A good image does not stay on trial, where any power cut undoes it.
TrialEnds ==
  (state[running] = "pending" /\ image[running].v \notin Bad)
    ~> (state[running] # "pending")

\* A request to update that was answered "success" is taken up by the OTA
\* task, unless the node restarts: no failure of an earlier update leaves
\* the task unable to hear it.
RequestTaken == startUpdate ~> ~startUpdate

\* "Wait till discovery complete for OTA to start": a request to update does
\* no harm before.
NeverAsserts == ~panicked

\* "must be freed via esp_ota_end()": a pass that is over has no handle open.
HandlesFreed == ota = "waiting" => ~handleOpen /\ ~leaked

\* "Update maybe pending if previous was stopped because of an earlier
\* verification pending": the restart after the verification keeps it.
PendingUpdateKept == [][RestartVerified => ~updatePending]_vars

\* "The response buffer contains the redirect url" when it is followed.
RedirectIsFresh == [][FollowRedirect => located]_vars

\* "If not verfied, it will be marked invalid, and skipped later on updates":
\* a release is skipped as invalid only if it ran and was not verified.
SkippedOnlyIfTried == [][SkipInvalid => offer \in rejected]_vars
=============================================================================
