--------------------------- MODULE UpdateService ----------------------------
(***************************************************************************)
(* What the node promises of the firmware it runs, whatever its tasks do   *)
(* and whenever power fails: it moves on only by a restart into a newer    *)
(* release that is on trial; a release on trial either is kept because it  *)
(* works, or gives way to the one that ran before and never runs again.    *)
(* Partitions, boot record, downloads and events are OtaUpdate's business, *)
(* which implements this specification.                                    *)
(***************************************************************************)
EXTENDS Naturals

CONSTANTS
  MaxVersion,   \* bound of the model: releases, 1 is the one first flashed
  Bad           \* releases that do not work

VARIABLES
  runs,         \* the release that runs
  trial,        \* whether it is on trial
  fallback,     \* the release that runs if it fails: itself when trusted
  condemned,    \* the releases that failed
  published     \* the newest release

vars == <<runs, trial, fallback, condemned, published>>

Init ==
  /\ runs = 1 /\ ~trial /\ fallback = 1
  /\ condemned = {}
  /\ published = 1

Publish ==
  /\ published < MaxVersion
  /\ published' = published + 1
  /\ UNCHANGED <<runs, trial, fallback, condemned>>

\* A trial begins: only a trusted release has a successor.
Try(v) ==
  /\ ~trial
  /\ v > runs /\ v <= published /\ v \notin condemned
  /\ runs' = v /\ trial' = TRUE
  /\ UNCHANGED <<fallback, condemned, published>>

Confirm ==
  /\ trial /\ runs \notin Bad
  /\ trial' = FALSE /\ fallback' = runs
  /\ UNCHANGED <<runs, condemned, published>>

RollBack ==
  /\ trial
  /\ runs' = fallback /\ trial' = FALSE
  /\ condemned' = condemned \cup {runs}
  /\ UNCHANGED <<fallback, published>>

Next ==
  \/ Publish
  \/ \E v \in 1..MaxVersion : Try(v)
  \/ Confirm
  \/ RollBack

Spec == Init /\ [][Next]_vars
=============================================================================
