------------------------ MODULE UpdateServiceProofs -------------------------
(***************************************************************************)
(* OtaUpdate implements UpdateService: every step of the node is a step of *)
(* the abstract service or changes nothing that it speaks of.              *)
(***************************************************************************)
EXTENDS OtaUpdateProofs

USE DEF Partitions, Versions, EventIds, Promise!vars

\* The release to fall back on, as the abstract service sees it.
Standby == image[IF OnTrial THEN Other(running) ELSE running].v

\* A step that leaves the record, the choice and the history of trials alone,
\* and writes only where nothing runs and nothing is to be fallen back on.
LEMMA Unseen ==
  ASSUME UpdateInv,
         UNCHANGED <<running, rejected, latest>>,
         state'[running] = "pending" <=> state[running] = "pending",
         UNCHANGED image \/ (~OnTrial /\ image'[running] = image[running])
  PROVE  UNCHANGED Promise!vars
<1>1. CASE UNCHANGED image
  BY <1>1 DEF OnTrial, Other
<1>2. CASE ~OnTrial /\ image'[running] = image[running]
  BY <1>2 DEF OnTrial, Other
<1> QED
  BY <1>1, <1>2

\* A restart ends a trial, begins one, or boots what ran before.
LEMMA RestartMaps ==
  ASSUME UpdateInv, Restart PROVE [Promise!Next]_(Promise!vars)
<1> USE DEF UpdateInv, Restart, Bootloader
<1>1. CASE state[boot] = "pending" /\ running = boot
  \* The trial has failed.
  <2>1. OnTrial /\ running' = Other(running)
    BY <1>1 DEF OnTrial, Fallback, Works, Other, TypeOK
  <2>2. state'[running'] # "pending"
    BY <1>1, <2>1 DEF Fallback, Other, TypeOK
  <2>3. Standby = image[Other(running)].v /\ ~OnTrial'
    BY <2>1, <2>2 DEF Standby, OnTrial
  <2>4. image'[running'].v = Standby /\ Standby' = Standby
    BY <2>1, <2>3 DEF Standby, OnTrial
  <2>5. rejected' = rejected \cup {image[running].v} /\ latest' = latest
    BY <1>1
  <2>6. Promise!RollBack
    BY <2>1, <2>3, <2>4, <2>5 DEF Promise!RollBack, Standby
  <2> QED
    BY <2>6 DEF Promise!Next
<1>2. CASE state[boot] = "pending" /\ running # boot
  \* The image to be tried was not complete: what fell back stays.
  <2>1. running = Other(boot) /\ running' = running
    BY <1>2 DEF Fallback, Works, Other, TypeOK
  <2>2. state[running] # "pending" /\ state'[running] # "pending"
    BY <1>2, <2>1 DEF Fallback, Other, TypeOK
  <2> QED
    BY <1>2, <2>1, <2>2, Unseen
<1>3. CASE state[boot] = "new" /\ image[boot].whole
  \* The image that was chosen goes on trial.
  <2>1. running = Other(boot) /\ running' = boot /\ running' = Other(running)
    BY <1>3 DEF BootRecord, Other, TypeOK
  <2>2. ~OnTrial /\ OnTrial'
    BY <1>3, <2>1 DEF OnTrial, Fallback, Other, TypeOK
  <2>3. Standby' = image[Other(boot)].v /\ Standby = image[running].v
    BY <2>1, <2>2 DEF Standby, OnTrial, Other
  <2>4. image[boot].v > image[running].v /\ image[boot].v <= latest
        /\ image[boot].v \notin rejected
    BY <1>3, <2>1 DEF NeverDowngrades, Contents, RejectedStaysOut, TypeOK
  <2>5. image[boot].v \in 1..MaxVersion
    BY <2>4, ImageType, OtaAssumption DEF OtaAssumption, TypeOK
  <2>6. rejected' = rejected /\ latest' = latest /\ image' = image
    BY <1>3
  <2>7. Promise!Try(image[boot].v)
    BY <2>1, <2>2, <2>3, <2>4, <2>6 DEF Promise!Try, Standby
  <2> QED
    BY <2>5, <2>7 DEF Promise!Next
<1>4. CASE state[boot] = "new" /\ ~image[boot].whole
  <2>1. running = Other(boot) /\ running' = running
    BY <1>4 DEF BootRecord, Other, TypeOK
  <2>2. state[running] # "pending" /\ state'[running] # "pending"
    BY <1>4, <2>1 DEF Fallback, Other, TypeOK
  <2> QED
    BY <1>4, <2>1, <2>2, Unseen
<1>5. CASE state[boot] \notin {"new", "pending"}
  <2>1. running = boot /\ running' = running /\ UNCHANGED <<state, rejected>>
    BY <1>5 DEF BootRecord, AlwaysBoots, TypeOK
  <2> QED
    BY <2>1, Unseen
<1> QED
  BY <1>1, <1>2, <1>3, <1>4, <1>5

\* ota_set_valid ends the trial of an image that works.
LEMMA VerificationMaps ==
  ASSUME UpdateInv, HandleVerification PROVE Promise!Confirm
<1> USE DEF UpdateInv, HandleVerification, TakeEvent, bootVars
<1>1. phase = "up" /\ running = boot /\ state[boot] = "pending"
  <2>1. 1 \in DOMAIN eventQ /\ eventQ[1] = "VERIFICATION_PENDING"
    BY DEF TypeOK
  <2> QED
    BY <2>1 DEF Discovered
<1>2. image[running].v \notin Bad
  BY <1>1 DEF Discovered
<1>3. OnTrial /\ ~OnTrial' /\ running' = running /\ image' = image
  BY <1>1 DEF OnTrial, TypeOK
<1> QED
  BY <1>2, <1>3 DEF Promise!Confirm

\* The OTA task writes and chooses behind the back of the image that runs, and
\* not while that is on trial.
LEMMA OtaUnseen ==
  ASSUME UpdateInv, OtaStep PROVE UNCHANGED Promise!vars
<1> USE DEF UpdateInv, Goes, flashVars, bootVars, signalVars, eventVars,
            taskVars
<1>1. CASE UNCHANGED <<image, state, running, rejected, latest>>
  BY <1>1, Unseen
<1>2. CASE WriteHeader \/ WriteRest \/ (WriteFails /\ ota \in {"write", "more"})
  <2>1. ~OnTrial
    BY <1>2 DEF OnTrialIdle, OnTrial, WriteHeader, WriteRest
  <2>2. UNCHANGED <<state, running, rejected, latest>>
        /\ image'[running] = image[running]
    BY <1>2 DEF WriteHeader, WriteRest, WriteFails, Write, TypeOK,
                NextUpdatePartition, Other
  <2> QED
    BY <2>1, <2>2, Unseen
<1>3. CASE SetBoot
  <2>1. state'[running] = state[running]
    BY <1>3 DEF SetBoot, TypeOK, NextUpdatePartition, Other
  <2>2. UNCHANGED <<image, running, rejected, latest>>
    BY <1>3 DEF SetBoot
  <2> QED
    BY <2>1, <2>2, Unseen
<1>4. CASE WriteFails
  BY <1>2, <1>4 DEF WriteFails
<1>5. CASE TakeSignal \/ FetchManifest \/ FetchFails \/ SkipInvalid \/ SkipOld
           \/ RequestAnswered \/ RequestFails \/ FollowRedirect
  BY <1>1, <1>5 DEF TakeSignal, FetchManifest, FetchFails, SkipInvalid, SkipOld,
     RequestAnswered, RequestFails, RequestFirmware, FollowRedirect, Unsignalled
<1>6. CASE NoRedirect \/ ReadFails \/ BeginFails \/ Begin \/ DataComplete
           \/ EndUpdate \/ SetBootFails \/ PostReboot
  BY <1>1, <1>6 DEF NoRedirect, ReadFails, BeginFails, Begin, DataComplete,
     EndUpdate, SetBootFails, PostReboot, Unsignalled
<1> QED
  BY <1>2, <1>3, <1>4, <1>5, <1>6 DEF OtaStep

\* Every step of the node is one the abstract service allows.
LEMMA StepMaps ==
  ASSUME UpdateInv, [Next]_vars PROVE [Promise!Next]_(Promise!vars)
<1> USE DEF flashVars, bootVars, signalVars, eventVars, taskVars
<1>1. CASE PowerLoss \/ PanicReboot \/ RestartVerified \/ HandleReboot
  BY <1>1, RestartMaps
  DEF PowerLoss, PanicReboot, RestartVerified, HandleReboot
<1>2. CASE HandleVerification
  BY <1>2, VerificationMaps DEF Promise!Next
<1>3. CASE OtaStep
  BY <1>3, OtaUnseen
<1>4. CASE Publish
  <2>1. Promise!Publish
    BY <1>4 DEF Publish, Promise!Publish, OnTrial
  <2> QED
    BY <2>1 DEF Promise!Next
<1>5. CASE MainStep \/ HandleRequest \/ Request
  <2>1. UNCHANGED <<image, state, running, rejected, latest>>
    BY <1>5 DEF MainStep, ServicesUp, DiscoveryDone, CreateTask, CheckPending,
                HandleRequest, Request
  <2> QED
    BY <2>1, Unseen
<1>6. CASE UNCHANGED vars
  <2>1. UNCHANGED <<image, state, running, rejected, latest>>
    BY <1>6 DEF vars
  <2> QED
    BY <2>1, Unseen
<1> QED
  BY <1>1, <1>2, <1>3, <1>4, <1>5, <1>6 DEF Next, LoopStep

\* The node keeps the abstract service's promise, for any number of releases
\* and any set of bad ones.
THEOREM UpdatePromiseKept == Spec => PromiseKept
<1>1. Init => Promise!Init
  BY DEF Init, Promise!Init, OnTrial
<1>2. UpdateInv /\ [Next]_vars => [Promise!Next]_(Promise!vars)
  BY StepMaps
<1> QED
  BY <1>1, <1>2, UpdateInvariance, PTL DEF Spec, Promise!Spec, PromiseKept
=============================================================================
