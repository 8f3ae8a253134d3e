------------------------- MODULE OtaUpdateInvariant -------------------------
(***************************************************************************)
(* The inductive invariant of OtaUpdate: how the boot record, the contents *)
(* of the two partitions and the place of the OTA task go together.        *)
(***************************************************************************)
EXTENDS OtaUpdate

Target == NextUpdatePartition

Works(p) == image[p].whole /\ image[p].v \notin Bad

\* What the versions in flash can be.
Contents ==
  /\ \A p \in Partitions : image[p].v <= latest
  /\ \A p \in Partitions : image[p].whole => image[p].v # 0
  /\ \A r \in rejected : r <= latest
  /\ offer <= latest

\* Only the partition to be booted is new or on trial; it is new until it is
\* booted, and when it does not run it is one or the other.
BootRecord ==
  /\ \A p \in Partitions : state[p] \in {"new", "pending"} => p = boot
  /\ state[boot] # "aborted"
  /\ state[boot] = "new" => running # boot
  /\ running # boot => state[boot] \in {"new", "pending"}

\* What there is to fall back on.
Fallback ==
  state[boot] \in {"new", "pending"} =>
    /\ state[Other(boot)] \in {"undefined", "valid"}
    /\ Works(Other(boot))

\* main has come past discovery only with an image that works, and the event
\* that confirms it is about the image that is to be booted.
Discovered ==
  /\ phase \notin {"starting", "discovering"} => image[running].v \notin Bad
  /\ \A i \in DOMAIN eventQ :
       eventQ[i] = "VERIFICATION_PENDING" /\ loop = "idle" =>
         /\ phase = "up"
         /\ running = boot /\ state[boot] = "pending"

\* An image on trial changes nothing in flash.
OnTrialIdle ==
  state[running] = "pending" =>
    ~handleOpen /\ ota \notin {"write", "more", "setBoot"}

\* The release that is being fetched is newer than what runs and than what
\* was rolled back.
Chosen == {"answered", "download", "write", "more", "end", "setBoot"}

Offered ==
  /\ ota \in Chosen => /\ offer > image[running].v
                       /\ \A r \in rejected : r < offer
  /\ ota \in Chosen \cup {"check"} => \A r \in rejected : r <= offer

\* So is the image that the open handle, or the boot record next, stands for.
Downloaded ==
  /\ (handleOpen /\ ota # "write") \/ ota = "setBoot" =>
       (image[Target].whole =>
          /\ image[Target].v > image[running].v
          /\ \A r \in rejected : r < image[Target].v)
  /\ ota = "setBoot" => image[Target].whole

\* A version that was rolled back is behind, or on record.
Behind(r, v) ==
  \/ r <= image[running].v
  \/ state[Target] = "aborted" /\ image[Target].v = r
  \/ r < v

Remembered ==
  \A r \in rejected :
    /\ Behind(r, latest)
    /\ ota = "check" => Behind(r, offer)

UpdateInv ==
  /\ TypeOK
  /\ AlwaysBoots
  /\ TrustEarned
  /\ RejectedStaysOut
  /\ NeverDowngrades
  /\ Contents
  /\ BootRecord
  /\ Fallback
  /\ Discovered
  /\ OnTrialIdle
  /\ Offered
  /\ Downloaded
  /\ Remembered
-----------------------------------------------------------------------------
(***************************************************************************)
(* What UpdateService calls things.                                        *)
(***************************************************************************)
OnTrial == state[running] = "pending"

Promise == INSTANCE UpdateService WITH
  runs      <- image[running].v,
  trial     <- OnTrial,
  fallback  <- image[IF OnTrial THEN Other(running) ELSE running].v,
  condemned <- rejected,
  published <- latest

\* The two partitions, the boot record and the three tasks keep the promise
\* of the abstract service through every power cut, failure and retry: the
\* release that runs changes only by a trial of a newer one that was never
\* rolled back, and a trial ends in trust that was earned or in the release
\* that ran before it.
PromiseKept == Promise!Spec
=============================================================================
