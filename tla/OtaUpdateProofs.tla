-------------------------- MODULE OtaUpdateProofs ---------------------------
(***************************************************************************)
(* What is proved of OtaUpdate: UpdateInv is an invariant, and with it the *)
(* properties of flash that it contains or implies.                        *)
(***************************************************************************)
EXTENDS OtaUpdateInvariant, TLAPS

USE DEF Partitions, Versions, EventIds

\* What the type invariant says of one partition.
LEMMA ImageType ==
  ASSUME TypeOK, NEW p \in Partitions
  PROVE  /\ image[p].v \in Nat /\ image[p].v <= MaxVersion
         /\ image[p].whole \in BOOLEAN
<1>1. image[p] \in [v : 0..MaxVersion, whole : BOOLEAN]
  BY DEF TypeOK
<1> QED
  BY <1>1, OtaAssumption DEF OtaAssumption

\* The bootloader's choice is an image that is complete, and what it does to
\* the record keeps the flash properties.
LEMMA RestartKeeps ==
  ASSUME UpdateInv, Restart PROVE UpdateInv'
<1> USE DEF UpdateInv, Restart, Bootloader
<1>1. TypeOK'
  <2>1. running = boot => image[boot].v \in Versions
    <3>1. image[running].v # 0 /\ running \in Partitions
      BY DEF TypeOK, AlwaysBoots, Contents
    <3> QED
      BY <3>1, ImageType, OtaAssumption DEF OtaAssumption
  <2>2. rejected' \in SUBSET Versions
    BY <2>1 DEF TypeOK
  <2>3. boot' \in Partitions /\ running' \in Partitions
    BY DEF TypeOK, Other
  <2>4. state' \in [Partitions -> {"undefined", "new", "pending", "valid",
                                  "aborted"}]
    BY DEF TypeOK, Other
  <2>5. image' \in [Partitions -> [v : 0..MaxVersion, whole : BOOLEAN]]
    BY DEF TypeOK
  <2>6. eventQ' \in Seq(EventIds)
    OBVIOUS
  <2>7. offer' \in 0..MaxVersion /\ latest' \in Versions
    BY OtaAssumption DEF OtaAssumption, TypeOK
  <2> QED
    BY <2>2, <2>3, <2>4, <2>5, <2>6, <2>7 DEF TypeOK, Phases, Places
<1>2. AlwaysBoots'
  BY DEF TypeOK, AlwaysBoots, Other
<1>3. TrustEarned'
  BY DEF TypeOK, AlwaysBoots, TrustEarned, Fallback, BootRecord, Works, Other
<1>4. RejectedStaysOut'
  BY DEF TypeOK, RejectedStaysOut, Fallback, BootRecord, Other
<1>5. NeverDowngrades'
  BY DEF TypeOK, NeverDowngrades, Fallback, BootRecord, Other
<1>6. Contents'
  BY DEF TypeOK, Contents, Other
<1>7. BootRecord'
  BY DEF TypeOK, AlwaysBoots, TrustEarned, Fallback, BootRecord, Works, Other
<1>8. Fallback'
  BY DEF TypeOK, Fallback, BootRecord, Works, Other
<1>9. Discovered'
  BY DEF TypeOK, Discovered
<1>10. OnTrialIdle'
  BY DEF TypeOK, OnTrialIdle
<1>11. Offered' /\ Downloaded'
  BY DEF TypeOK, Offered, Downloaded, Chosen
<1>12. Remembered'
  BY DEF TypeOK, Remembered, Behind, Target, NextUpdatePartition, Contents,
         AlwaysBoots, NeverDowngrades, Fallback, BootRecord, Works, Other
<1> QED
  BY <1>1, <1>2, <1>3, <1>4, <1>5, <1>6, <1>7, <1>8, <1>9, <1>10, <1>11, <1>12

\* The queue after a post: the events there were, and perhaps one more.
LEMMA PostType ==
  ASSUME TypeOK, NEW id \in EventIds, Post(id)
  PROVE  eventQ' \in Seq(EventIds)
<1>1. Append(eventQ, id) \in Seq(EventIds) /\ eventQ \in Seq(EventIds)
  BY DEF TypeOK
<1> QED
  BY <1>1 DEF Post

\* What is said of flash alone is kept by a step that leaves flash alone.
LEMMA FlashKept ==
  ASSUME UpdateInv, UNCHANGED <<image, state, boot, running, rejected>>
  PROVE  /\ AlwaysBoots' /\ TrustEarned' /\ RejectedStaysOut'
         /\ NeverDowngrades' /\ BootRecord' /\ Fallback'
<1> USE DEF UpdateInv
<1>1. AlwaysBoots' /\ TrustEarned' /\ RejectedStaysOut' /\ NeverDowngrades'
  BY DEF AlwaysBoots, TrustEarned, RejectedStaysOut, NeverDowngrades, Other
<1>2. BootRecord' /\ Fallback'
  BY DEF BootRecord, Fallback, Works, Other
<1> QED
  BY <1>1, <1>2

\* Places of the OTA task where it has nothing in hand.
Idle == {"waiting", "manifest", "post"}

\* What is said of flash and the OTA task is kept when the task stays where
\* it is, gives up, or goes on with the release it has chosen.
LEMMA TaskKept ==
  ASSUME UpdateInv,
         UNCHANGED <<image, state, boot, running, rejected, offer>>,
         latest' \in {latest, latest + 1},
         handleOpen' => handleOpen,
         \/ ota' = ota
         \/ ota' \in Idle /\ (ota # "write" \/ ~handleOpen')
         \/ ota \in {"answered", "download", "more"}
            /\ ota' \in {"download", "end"}
  PROVE  Contents' /\ OnTrialIdle' /\ Offered' /\ Downloaded' /\ Remembered'
<1> USE DEF UpdateInv, Idle
<1>1. latest \in Nat /\ latest' \in Nat /\ latest <= latest' /\ offer \in Nat
  BY OtaAssumption DEF OtaAssumption, TypeOK
<1>2. rejected \subseteq Nat
  BY OtaAssumption DEF OtaAssumption, TypeOK
<1>3. \A p \in Partitions : image[p].v \in Nat
  BY ImageType
<1>4. Contents'
  BY <1>1, <1>2, <1>3 DEF Contents
<1>5. OnTrialIdle'
  BY DEF OnTrialIdle
<1>6. Offered'
  BY DEF Offered, Chosen
<1>7. Downloaded'
  BY DEF Downloaded, Target, NextUpdatePartition, Other
<1>8. Remembered'
  BY <1>1, <1>2 DEF Remembered, Behind, Target, NextUpdatePartition, Other
<1> QED
  BY <1>4, <1>5, <1>6, <1>7, <1>8

\* A step of main: once past discovery, what runs works.
LEMMA MainKeeps ==
  ASSUME UpdateInv, MainStep PROVE UpdateInv'
<1> USE DEF UpdateInv, flashVars, signalVars, eventVars, taskVars
<1>1. CASE ServicesUp \/ DiscoveryDone \/ CreateTask
  <2>1. TypeOK'
    <3>1. CASE ServicesUp
      BY <3>1 DEF ServicesUp, TypeOK, Phases
    <3>2. CASE DiscoveryDone
      BY <3>2 DEF DiscoveryDone, TypeOK, Phases
    <3>3. CASE CreateTask
      BY <3>3 DEF CreateTask, TypeOK, Phases, Places
    <3> QED
      BY <1>1, <3>1, <3>2, <3>3
  <2> USE <1>1 DEF ServicesUp, DiscoveryDone, CreateTask
  <2>2. Discovered'
    BY DEF Discovered, TypeOK
  <2>3. ota' = ota \/ (ota' = "waiting" /\ ota # "write")
    BY DEF TypeOK
  <2> QED
    BY <2>1, <2>2, <2>3, FlashKept, TaskKept DEF Idle
<1>2. CASE CheckPending
  <2> USE <1>2 DEF CheckPending
  <2>1. TypeOK'
    BY PostType DEF TypeOK, Phases, Places
  <2>2. Discovered'
    BY DEF Discovered, BootRecord, TypeOK, Post
  <2> QED
    BY <2>1, <2>2, FlashKept, TaskKept
<1> QED
  BY <1>1, <1>2 DEF MainStep

\* A request, and a release.
LEMMA RequestKeeps ==
  ASSUME UpdateInv, Request \/ Publish PROVE UpdateInv'
<1> USE DEF UpdateInv, Request, Publish, flashVars, bootVars, signalVars,
            eventVars, taskVars
<1>1. eventQ' \in Seq(EventIds)
  <2>1. eventQ \in Seq(EventIds) /\ "OTA_UPDATE" \in EventIds
    BY DEF TypeOK
  <2> QED
    BY <2>1
<1>2. latest' \in Versions
  BY OtaAssumption DEF OtaAssumption, TypeOK
<1>3. TypeOK'
  <2>1. CASE Request
    BY <1>1, <1>2, <2>1 DEF TypeOK
  <2>2. CASE Publish
    BY <1>1, <1>2, <2>2 DEF TypeOK
  <2> QED
    BY <2>1, <2>2
<1>4. Discovered'
  <2>1. CASE Request
    <3>1. \A i \in DOMAIN eventQ' : eventQ'[i] = "VERIFICATION_PENDING" =>
            i \in DOMAIN eventQ /\ eventQ[i] = eventQ'[i]
      BY <2>1 DEF TypeOK
    <3> QED
      BY <2>1, <3>1 DEF Discovered
  <2>2. CASE Publish
    BY <2>2 DEF Discovered
  <2> QED
    BY <2>1, <2>2
<1> QED
  BY <1>3, <1>4, FlashKept, TaskKept

\* The event loop takes a request.
LEMMA HandleRequestKeeps ==
  ASSUME UpdateInv, HandleRequest PROVE UpdateInv'
<1> USE DEF UpdateInv, HandleRequest, TakeEvent, flashVars, bootVars, taskVars
<1>1. eventQ' \in Seq(EventIds)
  <2>1. eventQ \in Seq(EventIds) /\ eventQ # <<>>
    BY DEF TypeOK
  <2> QED
    BY <2>1
<1>2. TypeOK'
  BY <1>1, ZenonT(30) DEF TypeOK
<1>3. Discovered'
  BY DEF Discovered, TypeOK
<1> QED
  BY <1>2, <1>3, FlashKept, TaskKept

\* The image on trial is confirmed: it is the one to be booted, and it works.
LEMMA HandleVerificationKeeps ==
  ASSUME UpdateInv, HandleVerification PROVE UpdateInv'
<1> USE DEF UpdateInv, HandleVerification, TakeEvent, bootVars, taskVars
<1>1. TypeOK'
  BY OtaAssumption DEF OtaAssumption, TypeOK, Phases, Places
<1>2. running = boot /\ state[boot] = "pending" /\ Works(boot)
  BY DEF Discovered, AlwaysBoots, Works, TypeOK
<1>3. AlwaysBoots' /\ TrustEarned'
  BY <1>2 DEF AlwaysBoots, TrustEarned, Works, TypeOK
<1>4. RejectedStaysOut' /\ NeverDowngrades'
  BY <1>2 DEF RejectedStaysOut, NeverDowngrades, Other, TypeOK
<1>5. Contents'
  BY DEF Contents, TypeOK
<1>6. BootRecord' /\ Fallback'
  BY <1>2 DEF BootRecord, Fallback, Works, Other, TypeOK
<1>7. Discovered'
  BY DEF Discovered, TypeOK
<1>8. OnTrialIdle' /\ Offered' /\ Downloaded'
  BY <1>2 DEF OnTrialIdle, Offered, Downloaded, Chosen, Target,
     NextUpdatePartition, Other, TypeOK
<1>9. Remembered'
  BY <1>2 DEF Remembered, Behind, Target, NextUpdatePartition, Other, TypeOK
<1> QED
  BY <1>1, <1>2, <1>3, <1>4, <1>5, <1>6, <1>7, <1>8, <1>9

\* The place of the task, the main task being past its creation.
LEMMA TaskRuns ==
  ASSUME TypeOK, ota # "none"
  PROVE  phase \in {"task", "up"}
  BY DEF TypeOK, Phases

\* A step of the OTA task that leaves flash and the signals alone, and either
\* gives up or goes on with the release it has chosen.
LEMMA QuietKeeps ==
  ASSUME UpdateInv, Unsignalled, offer' = offer,
         ota # "none", ota' \in Places \ {"none"},
         handleOpen' \in BOOLEAN, leaked' \in BOOLEAN,
         expectRedirect' \in BOOLEAN, located' \in BOOLEAN,
         handleOpen' => handleOpen,
         \/ ota' \in Idle /\ (ota # "write" \/ ~handleOpen')
         \/ ota \in {"answered", "download", "more"}
            /\ ota' \in {"download", "end"}
  PROVE  UpdateInv'
<1> USE DEF UpdateInv, Unsignalled, flashVars, bootVars, signalVars, eventVars
<1>1. TypeOK'
  BY TaskRuns DEF TypeOK
<1>2. Discovered'
  BY DEF Discovered
<1> QED
  BY <1>1, <1>2, FlashKept, TaskKept

\* The steps by which a pass ends early, or goes on to the end of the file.
LEMMA PassKeeps ==
  ASSUME UpdateInv,
         \/ FetchFails \/ SkipInvalid \/ SkipOld \/ RequestFails
         \/ FollowRedirect \/ NoRedirect \/ ReadFails \/ BeginFails
         \/ DataComplete \/ SetBootFails
  PROVE  UpdateInv'
<1> USE DEF Goes, Idle, Places, taskVars
<1>0. TypeOK
  BY DEF UpdateInv
<1>1. CASE FetchFails
  BY <1>0, <1>1, QuietKeeps DEF FetchFails, TypeOK
<1>2. CASE SkipInvalid \/ SkipOld
  BY <1>0, <1>2, QuietKeeps DEF SkipInvalid, SkipOld, TypeOK
<1>3. CASE RequestFails
  BY <1>0, <1>3, QuietKeeps DEF RequestFails, RequestFirmware, TypeOK
<1>4. CASE FollowRedirect
  BY <1>0, <1>4, QuietKeeps DEF FollowRedirect, TypeOK
<1>5. CASE NoRedirect
  <2>1. CASE Goes("answered", "waiting")
    BY <1>0, <1>5, <2>1, QuietKeeps DEF NoRedirect, TypeOK
  <2>2. CASE Goes("answered", "end")
    BY <1>0, <1>5, <2>2, QuietKeeps DEF NoRedirect, TypeOK
  <2> QED
    BY <1>5, <2>1, <2>2 DEF NoRedirect
<1>6. CASE ReadFails \/ BeginFails
  BY <1>0, <1>6, QuietKeeps DEF ReadFails, BeginFails, TypeOK
<1>7. CASE DataComplete
  BY <1>0, <1>7, QuietKeeps DEF DataComplete, TypeOK
<1>8. CASE SetBootFails
  BY <1>0, <1>8, QuietKeeps DEF SetBootFails, TypeOK
<1> QED
  BY <1>1, <1>2, <1>3, <1>4, <1>5, <1>6, <1>7, <1>8

\* The signal is taken, or the timer has ended.
LEMMA TakeSignalKeeps ==
  ASSUME UpdateInv, TakeSignal PROVE UpdateInv'
<1> USE DEF UpdateInv, TakeSignal, flashVars, bootVars, eventVars, taskVars
<1>1. phase \in {"task", "up"}
  BY TaskRuns
<1>2. ota' \in {"waiting", "manifest"}
  OBVIOUS
<1>3. TypeOK'
  BY <1>1, <1>2 DEF TypeOK, Places
<1>4. Discovered'
  BY DEF Discovered
<1> QED
  BY <1>2, <1>3, <1>4, FlashKept, TaskKept DEF Idle

\* The manifest names the newest release; all that was rolled back is behind
\* it or on record.
LEMMA FetchManifestKeeps ==
  ASSUME UpdateInv, FetchManifest PROVE UpdateInv'
<1> USE DEF UpdateInv, FetchManifest, Goes, Unsignalled, flashVars, bootVars,
            signalVars, eventVars
<1>1. phase \in {"task", "up"}
  BY TaskRuns
<1>2. offer' \in 0..MaxVersion
  BY OtaAssumption DEF OtaAssumption, TypeOK
<1>3. TypeOK'
  BY <1>1, <1>2 DEF TypeOK, Places
<1>4. Contents'
  BY OtaAssumption DEF Contents, TypeOK, OtaAssumption
<1>5. Discovered' /\ OnTrialIdle'
  BY DEF Discovered, OnTrialIdle
<1>6. Offered'
  BY DEF Offered, Chosen, Contents
<1>7. Downloaded'
  BY DEF Downloaded, Target, NextUpdatePartition, Other
<1>8. Remembered'
  BY DEF Remembered, Behind, Target, NextUpdatePartition, Other
<1> QED
  BY <1>3, <1>4, <1>5, <1>6, <1>7, <1>8, FlashKept

\* The checks passed: the release is newer than what runs and than whatever
\* was rolled back, for what is not on record is behind.
LEMMA RequestAnsweredKeeps ==
  ASSUME UpdateInv, RequestAnswered PROVE UpdateInv'
<1> USE DEF UpdateInv, Goes, Unsignalled, flashVars, bootVars, signalVars,
            eventVars
<1>1. PICK location \in BOOLEAN : RequestFirmware("answered", location)
  BY DEF RequestAnswered
<1> USE <1>1 DEF RequestFirmware
<1>2. phase \in {"task", "up"}
  BY TaskRuns
<1>3. TypeOK'
  BY <1>2 DEF TypeOK, Places
<1>4. offer > image[running].v
  BY DEF IsUpdateAvailable
<1>5. ASSUME NEW r \in rejected PROVE r < offer
  <2>1. r <= offer /\ Behind(r, offer)
    BY DEF Offered, Chosen, Remembered
  <2>2. r \in Nat /\ r # 0 /\ offer \in Nat /\ image[running].v \in Nat
    BY <1>5, ImageType, OtaAssumption DEF OtaAssumption, TypeOK
  <2>3. r <= image[running].v => r < offer
    BY <1>4, <2>2
  <2>4. ~(state[Target] = "aborted" /\ image[Target].v = offer)
    BY <1>4, <2>2 DEF LastInvalid, IsInvalid, Target, NextUpdatePartition,
                      Other
  <2> QED
    BY <2>1, <2>2, <2>3, <2>4 DEF Behind
<1>6. Contents' /\ Discovered' /\ OnTrialIdle'
  BY DEF Contents, Discovered, OnTrialIdle
<1>7. Offered'
  BY <1>4, <1>5, ImageType, OtaAssumption
  DEF Offered, Chosen, TypeOK, OtaAssumption
<1>8. Downloaded'
  BY <1>4, <1>5 DEF Downloaded, Target, NextUpdatePartition, Other
<1>9. Remembered'
  BY DEF Remembered, Behind, Target, NextUpdatePartition, Other
<1> QED
  BY <1>3, <1>6, <1>7, <1>8, <1>9, FlashKept

\* The handle is opened; the image that runs is not on trial.
LEMMA BeginKeeps ==
  ASSUME UpdateInv, Begin PROVE UpdateInv'
<1> USE DEF UpdateInv, Begin, Goes, Unsignalled, flashVars, bootVars,
            signalVars, eventVars
<1>1. phase \in {"task", "up"}
  BY TaskRuns
<1>2. leaked' \in BOOLEAN /\ handleOpen' \in BOOLEAN
  BY DEF TypeOK
<1>3. TypeOK'
  BY <1>1, <1>2 DEF TypeOK, Places
<1>4. Contents' /\ Discovered' /\ OnTrialIdle'
  BY DEF Contents, Discovered, OnTrialIdle
<1>5. Offered' /\ Downloaded'
  BY DEF Offered, Downloaded, Chosen, Target, NextUpdatePartition, Other
<1>6. Remembered'
  BY DEF Remembered, Behind, Target, NextUpdatePartition, Other
<1> QED
  BY <1>3, <1>4, <1>5, <1>6, FlashKept

\* The handle is closed, and an image that is complete goes on to be chosen.
LEMMA EndUpdateKeeps ==
  ASSUME UpdateInv, EndUpdate PROVE UpdateInv'
<1> USE DEF UpdateInv, EndUpdate, Goes, Unsignalled, flashVars, bootVars,
            signalVars, eventVars
<1>1. phase \in {"task", "up"}
  BY TaskRuns
<1>2. TypeOK'
  BY <1>1, ZenonT(30) DEF TypeOK, Places
<1>3. Contents' /\ Discovered'
  BY DEF Contents, Discovered
<1>4. OnTrialIdle'
  BY DEF OnTrialIdle
<1>5. Offered'
  BY DEF Offered, Chosen
<1>6. Downloaded'
  BY DEF Downloaded, Target, NextUpdatePartition, Other
<1>7. Remembered'
  BY DEF Remembered, Behind, Target, NextUpdatePartition, Other
<1> QED
  BY <1>2, <1>3, <1>4, <1>5, <1>6, <1>7, FlashKept

\* What a write may put in the partition that is not running: nothing of the
\* release, a part of it, or all of it.
Piece(content) ==
  \/ content = Blank
  \/ content.v = offer /\ content \in [v : 0..MaxVersion, whole : BOOLEAN]

\* A write touches only the partition that does not run, and what it puts
\* there is newer than what runs and than whatever was rolled back.
LEMMA WriteKeeps ==
  ASSUME UpdateInv, NEW content, Piece(content), Write(content),
         ota \in {"write", "more"}, ota' \in {"more", "waiting"},
         ota' = "waiting" => ~handleOpen',
         content = Blank => ota' = "waiting",
         handleOpen' \in BOOLEAN, handleOpen' => handleOpen,
         UNCHANGED <<offer, leaked, expectRedirect, located>>
  PROVE  UpdateInv'
<1> USE DEF UpdateInv, Write, bootVars, signalVars, eventVars
<1>1. phase \in {"task", "up"}
  BY TaskRuns
<1>2. /\ offer \in Nat /\ offer > image[running].v /\ offer # 0
      /\ offer <= latest
      /\ \A r \in rejected : r \in Nat /\ r # 0 /\ r < offer
      /\ state[running] # "pending"
  BY ImageType, OtaAssumption
  DEF OtaAssumption, TypeOK, Offered, Chosen, Contents, OnTrialIdle
<1>3. /\ Target \in Partitions /\ running \in Partitions /\ Target # running
      /\ \A p \in Partitions : p = Target \/ p = running
      /\ Target' = Target
  BY DEF TypeOK, Target, NextUpdatePartition, Other
<1>4. content \in [v : 0..MaxVersion, whole : BOOLEAN]
  <2>1. 0 \in 0..MaxVersion
    BY OtaAssumption DEF OtaAssumption
  <2>2. Blank \in [v : 0..MaxVersion, whole : BOOLEAN]
    BY <2>1 DEF Blank
  <2> QED
    BY <2>2 DEF Piece
<1>5. /\ image' \in [Partitions -> [v : 0..MaxVersion, whole : BOOLEAN]]
      /\ image'[Target] = content /\ image'[running] = image[running]
  BY <1>3, <1>4 DEF TypeOK, Target
<1>6. TypeOK'
  BY <1>1, <1>5 DEF TypeOK, Places
<1>7. AlwaysBoots'
  BY <1>5 DEF AlwaysBoots
<1>8. \/ boot = running
      \/ boot = Target /\ state[boot] \in {"new", "pending"}
  <2>1. boot \in Partitions
    BY DEF TypeOK
  <2>2. boot = Target \/ boot = running
    BY <1>3, <2>1
  <2>3. running # boot => state[boot] \in {"new", "pending"}
    BY DEF BootRecord
  <2> QED
    BY <1>3, <2>2, <2>3
<1>9. boot = running => state[boot] \notin {"new", "pending"}
  BY <1>2 DEF BootRecord
<1>10. TrustEarned'
  BY <1>5, <1>8 DEF TrustEarned
<1>11. RejectedStaysOut'
  BY <1>2, <1>5, <1>8, <1>9 DEF RejectedStaysOut, Piece, Blank
<1>12. NeverDowngrades'
  BY <1>2, <1>3, <1>5, <1>8, <1>9
  DEF NeverDowngrades, Piece, Blank, Target, NextUpdatePartition, Other, TypeOK
<1>13. Contents'
  BY <1>2, <1>3, <1>5, OtaAssumption
  DEF Contents, Piece, Blank, OtaAssumption, TypeOK
<1>14. BootRecord'
  BY DEF BootRecord
<1>15. Fallback'
  BY <1>3, <1>5, <1>8, <1>9
  DEF Fallback, Works, Target, NextUpdatePartition, Other, TypeOK
<1>16. Discovered'
  BY <1>5 DEF Discovered
<1>17. OnTrialIdle'
  BY <1>2 DEF OnTrialIdle
<1>18. Offered'
  BY <1>2, <1>5 DEF Offered, Chosen
<1>19. Downloaded'
  BY <1>2, <1>3, <1>5 DEF Downloaded, Piece
<1>20. Remembered'
  BY <1>2, OtaAssumption DEF Remembered, Behind, OtaAssumption, TypeOK
<1> QED
  BY <1>6, <1>7, <1>10, <1>11, <1>12, <1>13, <1>14, <1>15, <1>16, <1>17,
     <1>18, <1>19, <1>20

\* The pieces of the file.
LEMMA PieceKeeps ==
  ASSUME UpdateInv, WriteHeader \/ WriteRest \/ WriteFails
  PROVE  UpdateInv'
<1> DEFINE Release(whole) == [v |-> offer, whole |-> whole]
<1> USE DEF Goes, taskVars
<1>1. /\ offer \in 0..MaxVersion
      /\ handleOpen \in BOOLEAN
  BY DEF UpdateInv, TypeOK
<1>2. /\ Piece(Release(TRUE)) /\ Piece(Release(FALSE)) /\ Piece(Blank)
      /\ Release(TRUE) # Blank
  BY <1>1 DEF Piece, Blank
<1>3. Release(FALSE) # Blank \/ offer = 0
  BY DEF Blank
<1>4. ota \in {"write", "more"} => offer # 0
  BY ImageType, OtaAssumption
  DEF UpdateInv, Offered, Chosen, TypeOK, OtaAssumption
<1>5. CASE WriteHeader
  <2>1. /\ Write(Release(FALSE)) /\ ota = "write" /\ ota' = "more"
        /\ UNCHANGED <<offer, handleOpen, leaked, expectRedirect, located>>
    BY <1>5 DEF WriteHeader
  <2> HIDE DEF Release
  <2> QED
    BY <1>1, <1>2, <1>3, <1>4, <2>1, WriteKeeps
<1>6. CASE WriteRest
  <2>1. /\ Write(Release(TRUE)) /\ ota = "more" /\ ota' = "more"
        /\ UNCHANGED <<offer, handleOpen, leaked, expectRedirect, located>>
    BY <1>6 DEF WriteRest
  <2> HIDE DEF Release
  <2> QED
    BY <1>1, <1>2, <2>1, WriteKeeps
<1>7. CASE WriteFails
  <2>1. /\ Write(Blank) \/ Write(Release(FALSE))
        /\ ota \in {"write", "more"} /\ ota' = "waiting" /\ handleOpen' = FALSE
        /\ UNCHANGED <<offer, leaked, expectRedirect, located>>
    BY <1>7 DEF WriteFails
  <2> HIDE DEF Release
  <2> QED
    BY <1>2, <2>1, WriteKeeps
<1> QED
  BY <1>5, <1>6, <1>7

\* The new image is chosen: the one that runs is confirmed, and is what there
\* is to fall back on.
LEMMA SetBootKeeps ==
  ASSUME UpdateInv, SetBoot PROVE UpdateInv'
<1> USE DEF UpdateInv, SetBoot, Goes, bootVars, signalVars, eventVars, taskVars
<1>1. phase \in {"task", "up"}
  BY TaskRuns
<1>2. /\ Target \in Partitions /\ running \in Partitions /\ Target # running
      /\ \A p \in Partitions : p = Target \/ p = running
      /\ Other(Target) = running /\ Other(running) = Target
      /\ Target' = Target /\ boot' = Target
  BY DEF TypeOK, Target, NextUpdatePartition, Other
<1>3. boot = running \/ boot = Target
  BY <1>2 DEF TypeOK
<1>4. state[running] \in {"undefined", "valid"} /\ Works(running)
  <2>1. CASE boot = running
    BY <2>1 DEF TypeOK, BootRecord, OnTrialIdle, TrustEarned, Works
  <2>2. CASE boot = Target
    BY <2>2, <1>2 DEF TypeOK, BootRecord, Fallback
  <2> QED
    BY <1>3, <2>1, <2>2
<1>5. /\ state'[Target] = "new" /\ state'[running] = state[running]
      /\ state' \in [Partitions -> {"undefined", "new", "pending", "valid",
                                    "aborted"}]
  BY <1>2 DEF TypeOK, Target
<1>6. /\ image[Target].whole
      /\ image[Target].v > image[running].v
      /\ \A r \in rejected : r < image[Target].v
      /\ image[Target].v \in Nat /\ rejected \subseteq Nat
  BY <1>2, ImageType, OtaAssumption DEF Downloaded, TypeOK, OtaAssumption
<1>7. TypeOK'
  BY <1>1, <1>2, <1>5 DEF TypeOK, Places
<1>8. AlwaysBoots'
  BY DEF AlwaysBoots
<1>9. TrustEarned'
  BY <1>2, <1>5 DEF TrustEarned
<1>10. RejectedStaysOut'
  BY <1>2, <1>6 DEF RejectedStaysOut
<1>11. NeverDowngrades'
  BY <1>2, <1>6 DEF NeverDowngrades, Other
<1>12. Contents'
  BY DEF Contents
<1>13. BootRecord'
  BY <1>2, <1>4, <1>5 DEF BootRecord
<1>14. Fallback'
  BY <1>2, <1>4, <1>5 DEF Fallback, Works, Other
<1>15. Discovered'
  <2>1. \A i \in DOMAIN eventQ :
          ~(eventQ[i] = "VERIFICATION_PENDING" /\ loop = "idle")
    BY DEF Discovered, OnTrialIdle
  <2> QED
    BY <2>1 DEF Discovered
<1>16. OnTrialIdle'
  BY <1>4, <1>5 DEF OnTrialIdle
<1>17. Offered'
  BY DEF Offered, Chosen
<1>18. Downloaded'
  BY <1>2, <1>6 DEF Downloaded
<1>19. Remembered'
  BY <1>6, <1>2, OtaAssumption
  DEF Remembered, Behind, Contents, TypeOK, OtaAssumption
<1> QED
  BY <1>7, <1>8, <1>9, <1>10, <1>11, <1>12, <1>13, <1>14, <1>15, <1>16, <1>17,
     <1>18, <1>19

\* The restart is asked for.
LEMMA PostRebootKeeps ==
  ASSUME UpdateInv, PostReboot PROVE UpdateInv'
<1> USE DEF UpdateInv, PostReboot, Goes, flashVars, bootVars, signalVars,
            taskVars
<1>1. phase \in {"task", "up"}
  BY TaskRuns
<1>2. eventQ' \in Seq(EventIds)
  BY PostType
<1>3. TypeOK'
  BY <1>1, <1>2 DEF TypeOK, Places
<1>4. Discovered'
  <2>1. \A i \in DOMAIN eventQ' : eventQ'[i] = "VERIFICATION_PENDING" =>
          i \in DOMAIN eventQ /\ eventQ[i] = eventQ'[i]
    BY SMTT(30) DEF TypeOK, Post
  <2> QED
    BY <2>1 DEF Discovered
<1> QED
  BY <1>3, <1>4, FlashKept, TaskKept DEF Idle

\* A node as it is flashed.
LEMMA InitEstablishes == Init => UpdateInv
<1> SUFFICES ASSUME Init PROVE UpdateInv
  OBVIOUS
<1> USE OtaAssumption DEF Init, OtaAssumption
<1>1. /\ boot = "ota_0" /\ running = "ota_0"
      /\ image["ota_0"] = [v |-> 1, whole |-> TRUE] /\ image["ota_1"] = Blank
      /\ state["ota_0"] = "undefined" /\ state["ota_1"] = "undefined"
  OBVIOUS
<1>2. TypeOK
  <2>1. \A p \in Partitions : image[p] \in [v : 0..MaxVersion, whole : BOOLEAN]
    BY <1>1 DEF Blank
  <2>2. image \in [Partitions -> [v : 0..MaxVersion, whole : BOOLEAN]]
    BY <2>1
  <2>3. eventQ \in Seq(EventIds)
    OBVIOUS
  <2>4. state \in [Partitions -> {"undefined", "new", "pending", "valid",
                                 "aborted"}]
    OBVIOUS
  <2>5. offer \in 0..MaxVersion /\ latest \in Versions
        /\ rejected \in SUBSET Versions
    OBVIOUS
  <2> QED
    BY <2>2, <2>3, <2>4, <2>5 DEF TypeOK, Phases, Places
<1>3. 1 \notin Bad
  OBVIOUS
<1>4. AlwaysBoots /\ TrustEarned /\ RejectedStaysOut /\ NeverDowngrades
  BY <1>1, <1>3 DEF AlwaysBoots, TrustEarned, RejectedStaysOut, NeverDowngrades
<1>5. Contents /\ BootRecord /\ Fallback
  BY <1>1 DEF Contents, BootRecord, Fallback, Blank
<1>6. Discovered /\ OnTrialIdle /\ Offered /\ Downloaded /\ Remembered
  BY <1>1, <1>3
  DEF Discovered, OnTrialIdle, Offered, Downloaded, Remembered, Chosen
<1> QED
  BY <1>2, <1>4, <1>5, <1>6 DEF UpdateInv

\* A step of any task, and of the world.
LEMMA NextKeeps == UpdateInv /\ [Next]_vars => UpdateInv'
<1> SUFFICES ASSUME UpdateInv, [Next]_vars PROVE UpdateInv'
  OBVIOUS
<1>1. CASE PowerLoss \/ PanicReboot
  BY <1>1, RestartKeeps DEF PowerLoss, PanicReboot
<1>2. CASE MainStep
  BY <1>2, MainKeeps
<1>3. CASE LoopStep
  BY <1>3, HandleRequestKeeps, HandleVerificationKeeps, RestartKeeps
  DEF LoopStep, RestartVerified, HandleReboot
<1>4. CASE OtaStep
  BY <1>4, PassKeeps, TakeSignalKeeps, FetchManifestKeeps, RequestAnsweredKeeps,
     BeginKeeps, PieceKeeps, EndUpdateKeeps, SetBootKeeps, PostRebootKeeps
  DEF OtaStep
<1>5. CASE Request \/ Publish
  BY <1>5, RequestKeeps
<1>6. CASE UNCHANGED vars
  <2> USE <1>6 DEF UpdateInv, vars, flashVars, bootVars, signalVars, eventVars,
                   taskVars
  <2>1. TypeOK'
    BY DEF TypeOK
  <2>2. Discovered'
    BY DEF Discovered
  <2> QED
    BY <2>1, <2>2, FlashKept, TaskKept
<1> QED
  BY <1>1, <1>2, <1>3, <1>4, <1>5, <1>6 DEF Next

-----------------------------------------------------------------------------
\* UpdateInv is an invariant: whatever is downloaded, interrupted, published or
\* rolled back, flash and the tasks stay as it says.
THEOREM UpdateInvariance == Spec => []UpdateInv
<1>1. Init => UpdateInv
  BY InitEstablishes
<1>2. UpdateInv /\ [Next]_vars => UpdateInv'
  BY NextKeeps
<1> QED
  BY <1>1, <1>2, PTL DEF Spec

\* Every variable has its type, for any number of releases.
THEOREM UpdateTypeCorrect == Spec => []TypeOK
<1>1. UpdateInv => TypeOK
  BY DEF UpdateInv
<1> QED
  BY <1>1, UpdateInvariance, PTL

\* The image that runs is complete, however often power is lost.
THEOREM BootsAlways == Spec => []AlwaysBoots
<1>1. UpdateInv => AlwaysBoots
  BY DEF UpdateInv
<1> QED
  BY <1>1, UpdateInvariance, PTL

\* While an image is on trial, one that works is there to fall back on.
THEOREM FallbackKept == Spec => []RollbackTargetKept
<1>1. UpdateInv => RollbackTargetKept
  <2> SUFFICES ASSUME UpdateInv, state[running] = "pending"
               PROVE  Works(Other(running))
    BY DEF RollbackTargetKept, Works
  <2>1. running = boot
    BY DEF UpdateInv, TypeOK, BootRecord
  <2> QED
    BY <2>1 DEF UpdateInv, Fallback
<1> QED
  BY <1>1, UpdateInvariance, PTL

\* An image is confirmed only when it works.
THEOREM ConfirmedWorks == Spec => []TrustEarned
<1>1. UpdateInv => TrustEarned
  BY DEF UpdateInv
<1> QED
  BY <1>1, UpdateInvariance, PTL

\* A release that was rolled back is never chosen again.
THEOREM RejectedForGood == Spec => []RejectedStaysOut
<1>1. UpdateInv => RejectedStaysOut
  BY DEF UpdateInv
<1> QED
  BY <1>1, UpdateInvariance, PTL

\* An image that is chosen is newer than the one it replaces.
THEOREM OnlyUpgrades == Spec => []NeverDowngrades
<1>1. UpdateInv => NeverDowngrades
  BY DEF UpdateInv
<1> QED
  BY <1>1, UpdateInvariance, PTL
=============================================================================
