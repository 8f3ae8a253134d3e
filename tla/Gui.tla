-------------------------------- MODULE Gui ---------------------------------
(***************************************************************************)
(* The display: components/gui-component.  gui_inform puts what happened   *)
(* into a queue; gui_op_task turns it into jobs for the widgets and puts   *)
(* them into a second queue; ui_worker_task runs them inside LVGL, under   *)
(* the lock of LVGL's port, whose own task draws under the same lock.      *)
(* Nothing here decides when it starts: app_main does, in Startup.         *)
(***************************************************************************)
EXTENDS Naturals, Sequences

CONSTANTS
  GuiQueueLength,   \* of gui_op_queue
  JobQueueLength    \* of notify_queue

ASSUME GuiAssumption ==
  /\ GuiQueueLength \in Nat \ {0}
  /\ JobQueueLength \in Nat \ {0}

VARIABLES
  guiQueue,   \* gui_op_queue
  posting,    \* the jobs gui_op_task has still to post for one event
  jobQueue,   \* notify_queue
  worker,     \* ui_worker_task: where it is,
  job,        \* and the job it has taken
  port,       \* the task of LVGL's port: where it is
  lock,       \* who has the port's lock
  screen,     \* home_screen
  shown       \* the event each label shows

guiVars == <<guiQueue, posting, jobQueue, worker, job, port, lock, screen,
             shown>>

-----------------------------------------------------------------------------
\* What app_main tells the display.
Events == {"BOOTING", "AP_SCANNING", "STA_CONNECTED", "ESPNOW_STARTED"}
Labels == {"main_label", "wifi_ssid"}

\* The setters gui_op_task calls for an event.
Setters(event) ==
  CASE event = "BOOTING"        -> <<"load_screen", "main_label">>
    [] event = "AP_SCANNING"    -> <<"main_label", "wifi_ssid">>
    [] event = "STA_CONNECTED"  -> <<"main_label", "wifi_ssid">>
    [] event = "ESPNOW_STARTED" -> <<"main_label">>

Jobs == [cb : Labels \cup {"load_screen"}, event : Events]

NoJob == [cb |-> "load_screen", event |-> "BOOTING"]

GuiTypeOK ==
  /\ guiQueue \in Seq(Events) /\ Len(guiQueue) <= GuiQueueLength
  /\ posting \in Seq(Jobs)
  /\ jobQueue \in Seq(Jobs) /\ Len(jobQueue) <= JobQueueLength
  /\ worker \in {"none", "idle", "locking", "inside"}
  /\ job \in Jobs
  /\ port \in {"none", "asleep", "inside"}
  /\ lock \in {"nobody", "worker", "port"}
  /\ screen \in {"none", "building", "built"}
  /\ shown \in [Labels -> Events \cup {"nothing"}]

GuiInit ==
  /\ guiQueue = <<>> /\ posting = <<>> /\ jobQueue = <<>>
  /\ worker = "none" /\ job = NoJob
  /\ port = "none" /\ lock = "nobody"
  /\ screen = "none"
  /\ shown = [l \in Labels |-> "nothing"]

\* A restart: all of it is RAM.
GuiReset ==
  /\ guiQueue' = <<>> /\ posting' = <<>> /\ jobQueue' = <<>>
  /\ worker' = "none" /\ job' = NoJob
  /\ port' = "none" /\ lock' = "nobody"
  /\ screen' = "none"
  /\ shown' = [l \in Labels |-> "nothing"]

-----------------------------------------------------------------------------
(***************************************************************************)
(* What main calls.                                                        *)
(***************************************************************************)

\* lvgl_port_init: the port's task runs from here on.
PortInit ==
  /\ port' = "asleep"
  /\ UNCHANGED <<guiQueue, posting, jobQueue, worker, job, lock, screen,
                 shown>>

\* Mutant of UiWorkerInit: the queue without the task.
UiWorkerNoTask == UNCHANGED guiVars

\* ui_worker_init.
UiWorkerInit ==
  /\ worker' = "idle"
  /\ UNCHANGED <<guiQueue, posting, jobQueue, job, port, lock, screen, shown>>

\* ui_home_init, from its first call of LVGL to its last.
UiHomeInit(from, to) ==
  /\ screen = from
  /\ screen' = to
  /\ UNCHANGED <<guiQueue, posting, jobQueue, worker, job, port, lock, shown>>

\* gui_inform: dropped when the queue stays full for 50 ms.
GuiInform(event) ==
  /\ guiQueue' = IF Len(guiQueue) < GuiQueueLength
                   THEN Append(guiQueue, event) ELSE guiQueue
  /\ UNCHANGED <<posting, jobQueue, worker, job, port, lock, screen, shown>>

-----------------------------------------------------------------------------
(***************************************************************************)
(* gui_op_task.                                                            *)
(***************************************************************************)
TakeNews ==
  /\ posting = <<>> /\ guiQueue # <<>>
  /\ LET event == Head(guiQueue) IN
       posting' = [i \in DOMAIN Setters(event) |->
                     [cb |-> Setters(event)[i], event |-> event]]
  /\ guiQueue' = Tail(guiQueue)
  /\ UNCHANGED <<jobQueue, worker, job, port, lock, screen, shown>>

\* ui_worker_process_job: it waits while the queue is full.
ProcessJob ==
  /\ posting # <<>>
  /\ Len(jobQueue) < JobQueueLength
  /\ jobQueue' = Append(jobQueue, Head(posting))
  /\ posting' = Tail(posting)
  /\ UNCHANGED <<guiQueue, worker, job, port, lock, screen, shown>>

GuiOpStep == TakeNews \/ ProcessJob

-----------------------------------------------------------------------------
(***************************************************************************)
(* ui_worker_task.                                                         *)
(***************************************************************************)

\* Mutant of TakeJob: the newest first.
TakeNewest ==
  /\ worker = "idle" /\ jobQueue # <<>>
  /\ worker' = "locking"
  /\ job' = jobQueue[Len(jobQueue)]
  /\ jobQueue' = SubSeq(jobQueue, 1, Len(jobQueue) - 1)
  /\ UNCHANGED <<guiQueue, posting, port, lock, screen, shown>>

TakeJob ==
  /\ worker = "idle" /\ jobQueue # <<>>
  /\ worker' = "locking"
  /\ job' = Head(jobQueue)
  /\ jobQueue' = Tail(jobQueue)
  /\ UNCHANGED <<guiQueue, posting, port, lock, screen, shown>>

\* Mutant of WorkerLocks: the callback is called without the lock.
WorkerDoesNotLock ==
  /\ worker = "locking"
  /\ worker' = "inside"
  /\ UNCHANGED <<guiQueue, posting, jobQueue, job, port, lock, screen, shown>>

WorkerLocks ==
  /\ worker = "locking" /\ lock = "nobody"
  /\ worker' = "inside" /\ lock' = "worker"
  /\ UNCHANGED <<guiQueue, posting, jobQueue, job, port, screen, shown>>

\* A label that has no object yet stays as it is.
Show == IF job.cb \in Labels /\ screen = "built"
          THEN [shown EXCEPT ![job.cb] = job.event] ELSE shown

\* Mutant of RunJob: the lock is kept.
RunJobLocked ==
  /\ worker = "inside"
  /\ shown' = Show
  /\ worker' = "idle"
  /\ UNCHANGED <<guiQueue, posting, jobQueue, job, port, lock, screen>>

\* The callback, and lvgl_port_unlock.
RunJob ==
  /\ worker = "inside"
  /\ shown' = Show
  /\ worker' = "idle" /\ lock' = "nobody"
  /\ UNCHANGED <<guiQueue, posting, jobQueue, job, port, screen>>

-----------------------------------------------------------------------------
(***************************************************************************)
(* The task of LVGL's port: its timers, and the drawing.                   *)
(***************************************************************************)
PortLocks ==
  /\ port = "asleep" /\ lock = "nobody"
  /\ port' = "inside" /\ lock' = "port"
  /\ UNCHANGED <<guiQueue, posting, jobQueue, worker, job, screen, shown>>

PortUnlocks ==
  /\ port = "inside"
  /\ port' = "asleep" /\ lock' = "nobody"
  /\ UNCHANGED <<guiQueue, posting, jobQueue, worker, job, screen, shown>>

\* The tasks that are inside LVGL.
InLvgl ==
  {t \in {"main", "worker", "port"} :
     \/ t = "main"   /\ screen = "building"
     \/ t = "worker" /\ worker = "inside"
     \/ t = "port"   /\ port = "inside"}
=============================================================================
