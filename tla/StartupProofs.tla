--------------------------- MODULE StartupProofs ---------------------------
(***************************************************************************)
(* BootInv is an inductive invariant of Startup, for queues of any length  *)
(* and any number of requests and troubles, and the theorems that follow.  *)
(***************************************************************************)
EXTENDS StartupInvariant, SequenceTheorems, TLAPS

News == Events \cup {"nothing"}

-----------------------------------------------------------------------------
(***************************************************************************)
(* Types of the display.                                                   *)
(***************************************************************************)

\* The age of news is a number.
LEMMA RankType == \A e \in News : Rank[e] \in 0..4
BY DEF News, Events, Rank

\* What gui_op_task calls for an event.
LEMMA SettersType ==
  \A e \in Events : Setters(e) \in Seq(Labels \cup {"load_screen"})
<1> SUFFICES ASSUME NEW e \in Events
             PROVE  Setters(e) \in Seq(Labels \cup {"load_screen"})
  OBVIOUS
<1>1. CASE e = "BOOTING"
  BY <1>1 DEF Setters, Labels
<1>2. CASE e = "AP_SCANNING"
  BY <1>2 DEF Setters, Labels
<1>3. CASE e = "STA_CONNECTED"
  BY <1>3 DEF Setters, Labels
<1>4. CASE e = "ESPNOW_STARTED"
  BY <1>4 DEF Setters, Labels
<1> QED
  BY <1>1, <1>2, <1>3, <1>4 DEF Events

\* Taking news keeps the display's types: its jobs are jobs.
LEMMA TakeNewsType ==
  ASSUME GuiTypeOK, TakeNews PROVE GuiTypeOK'
<1> DEFINE e == Head(guiQueue)
<1>1. e \in Events /\ guiQueue' \in Seq(Events)
      /\ Len(guiQueue') = Len(guiQueue) - 1
  BY HeadTailProperties DEF GuiTypeOK, TakeNews
<1>2. posting' \in Seq(Jobs)
  <2>1. Setters(e) \in Seq(Labels \cup {"load_screen"})
    BY <1>1, SettersType
  <2>2. posting' = [i \in 1..Len(Setters(e)) |->
                      [cb |-> Setters(e)[i], event |-> e]]
    BY <2>1 DEF TakeNews
  <2>3. \A i \in 1..Len(Setters(e)) :
          [cb |-> Setters(e)[i], event |-> e] \in Jobs
    BY <1>1, <2>1 DEF Jobs
  <2>4. Len(Setters(e)) \in Nat
    BY <2>1
  <2> HIDE DEF e
  <2> QED
    BY <2>2, <2>3, <2>4
<1> QED
  BY <1>1, <1>2, GuiAssumption DEF GuiTypeOK, TakeNews, GuiAssumption

\* Posting a job does: ProcessJob tests the length of the queue.
LEMMA ProcessJobType ==
  ASSUME GuiTypeOK, ProcessJob PROVE GuiTypeOK'
<1>1. Head(posting) \in Jobs /\ posting' \in Seq(Jobs)
  BY HeadTailProperties DEF GuiTypeOK, ProcessJob
<1>2. jobQueue' \in Seq(Jobs) /\ Len(jobQueue') = Len(jobQueue) + 1
  BY <1>1, AppendProperties DEF GuiTypeOK, ProcessJob
<1> QED
  BY <1>1, <1>2, GuiAssumption DEF GuiTypeOK, ProcessJob, GuiAssumption

\* Taking a job does.
LEMMA TakeJobType ==
  ASSUME GuiTypeOK, TakeJob PROVE GuiTypeOK'
<1>1. Head(jobQueue) \in Jobs /\ jobQueue' \in Seq(Jobs)
      /\ Len(jobQueue') = Len(jobQueue) - 1
  BY HeadTailProperties DEF GuiTypeOK, TakeJob
<1> QED
  BY <1>1, GuiAssumption DEF GuiTypeOK, TakeJob, GuiAssumption

\* Showing a label does: a job's event is one of the events.
LEMMA RunJobType ==
  ASSUME GuiTypeOK, RunJob PROVE GuiTypeOK'
<1>1. shown' \in [Labels -> Events \cup {"nothing"}]
  BY DEF GuiTypeOK, RunJob, Show, Jobs
<1> QED
  BY <1>1 DEF GuiTypeOK, RunJob

\* Taking and giving back the lock do.
LEMMA LockType ==
  ASSUME GuiTypeOK, WorkerLocks \/ PortLocks \/ PortUnlocks
  PROVE  GuiTypeOK'
BY DEF GuiTypeOK, WorkerLocks, PortLocks, PortUnlocks

\* Telling the display does: GuiInform drops what has no room.
LEMMA GuiInformType ==
  ASSUME GuiTypeOK, NEW e \in Events, GuiInform(e) PROVE GuiTypeOK'
<1>1. guiQueue' \in Seq(Events) /\ Len(guiQueue') <= GuiQueueLength
  <2>1. CASE Len(guiQueue) < GuiQueueLength
    <3>1. guiQueue' = Append(guiQueue, e)
      BY <2>1 DEF GuiInform
    <3> QED
      BY <2>1, <3>1, AppendProperties, GuiAssumption
         DEF GuiTypeOK, GuiAssumption
  <2> QED
    BY <2>1 DEF GuiTypeOK, GuiInform
<1> QED
  BY <1>1 DEF GuiTypeOK, GuiInform

\* The display starts typed,
LEMMA GuiResetType == GuiInit => GuiTypeOK
BY GuiAssumption
   DEF GuiAssumption, GuiInit, GuiTypeOK, NoJob, Jobs, Events, Labels

\* and whatever main does to it leaves it typed.
LEMMA GuiSetType ==
  ASSUME GuiTypeOK, GuiReset \/ UNCHANGED guiVars \/ PortInit \/ UiWorkerInit
                    \/ UiHomeInit("none", "building")
                    \/ UiHomeInit("building", "built")
  PROVE  GuiTypeOK'
<1>1. CASE GuiReset
  BY <1>1, GuiAssumption
     DEF GuiAssumption, GuiReset, GuiTypeOK, NoJob, Jobs, Events, Labels
<1>2. CASE UNCHANGED guiVars
  BY <1>2 DEF GuiTypeOK, guiVars
<1>3. CASE PortInit \/ UiWorkerInit
  BY <1>3 DEF GuiTypeOK, PortInit, UiWorkerInit
<1>4. CASE UiHomeInit("none", "building") \/ UiHomeInit("building", "built")
  BY <1>4 DEF GuiTypeOK, UiHomeInit
<1> QED
  BY <1>1, <1>2, <1>3, <1>4

\* The display's tasks keep the types, and what main has set up.
LEMMA GuiStepType ==
  ASSUME GuiTypeOK, GuiOpStep \/ TakeJob \/ WorkerLocks \/ RunJob \/ PortLocks
                    \/ PortUnlocks
  PROVE  GuiTypeOK' /\ screen' = screen
         /\ (worker' = "none" <=> worker = "none")
<1>1. GuiTypeOK'
  BY TakeNewsType, ProcessJobType, TakeJobType, RunJobType, LockType
     DEF GuiOpStep
<1> QED
  BY <1>1 DEF GuiOpStep, TakeNews, ProcessJob, TakeJob, WorkerLocks, RunJob,
              PortLocks, PortUnlocks

-----------------------------------------------------------------------------
(***************************************************************************)
(* What main has prepared, and what follows it.                            *)
(***************************************************************************)
NodeInv ==
  TypeOK /\ EarlyOrFailed /\ Prepared /\ Serving /\ Handled /\ NothingAsked

\* A node that has just started has prepared nothing and is asked nothing.
LEMMA RestartNode ==
  ASSUME TypeOK, Restart, troubles' \in 0..MaxTroubles PROVE NodeInv'
<1> USE DEF Restart
<1>1. GuiTypeOK'
  BY GuiSetType DEF TypeOK
<1>2. TypeOK'
  BY <1>1 DEF TypeOK, Places, GuiReset, Endpoints
<1> QED
  BY <1>2 DEF NodeInv, EarlyOrFailed, Prepared, Serving, Handled,
              NothingAsked, Asked, Handling, Connected, Transported, Coded

\* The same when it was main that gave up.
LEMMA AbortNode ==
  ASSUME NodeInv, Abort PROVE NodeInv'
BY RestartNode, StartupAssumption
   DEF Abort, Trouble, NodeInv, TypeOK, StartupAssumption

\* The steps of main that leave the display alone, and what the place they
\* lead to asks of them: that something is made, or was tried.
Delivers(from, to, good, bad) ==
  \/ <<from, to>> \in {<<"adapter", "handlers">>, <<"wifi", "scanning">>,
                       <<"registry", "seeker">>, <<"events", "response">>,
                       <<"server", "response">>, <<"discovery", "waiting">>,
                       <<"waiting", "ota">>}
  \/ from = "lcd" /\ to = "worker" /\ "lvgl" \in bad
  \/ from = "sync" /\ to = "adapter" /\ "sync_manager" \in good \cup bad
  \/ /\ from = "handlers" /\ to = "booting"
     /\ "delegate_queue" \in good \cup bad
  \/ /\ from = "connecting" /\ to = "connected"
     /\ "log_capture" \in good \cup bad
  \/ from = "transport" /\ to = "started" /\ "transport" \in good \cup bad
  \/ from = "peers" /\ to = "registry" /\ "peer_registry" \in good \cup bad
  \/ from = "seeker" /\ to = "codec" /\ "discovery_service" \in good \cup bad
  \/ from = "codec" /\ to = "server" /\ "message_codec" \in good \cup bad
  \/ from = "server" /\ to = "pools" /\ "http_server" \in good
  \/ /\ from = "pools" /\ to = "uris" /\ "user_request" \in good
     /\ "bank_pools" \in good \cup bad
  \/ /\ from = "response" /\ to = "discovery"
     /\ "user_output" \in good \/ "http_server" \notin made
  \/ from = "ota" /\ to = "up" /\ "start_update" \in good \cup bad

\* Such a step keeps the types,
LEMMA OutcomeType ==
  ASSUME TypeOK, NEW from \in Places, NEW to \in Places,
         NEW good \in SUBSET Pointers, NEW bad \in SUBSET Pointers,
         Outcome(from, to, good, bad), Delivers(from, to, good, bad)
  PROVE  TypeOK'
<1> USE DEF Outcome, Goes, Makes, Elsewhere, TypeOK
<1>1. GuiTypeOK' /\ UNCHANGED guiVars
  BY GuiSetType
<1>2. troubles' \in 0..MaxTroubles
  BY StartupAssumption DEF Trouble, StartupAssumption
<1>3. /\ from \in {"lcd", "worker"} <=> to \in {"lcd", "worker"}
      /\ from # "building" /\ to # "building"
      /\ from \in {"lcd", "worker", "screen"} <=>
           to \in {"lcd", "worker", "screen"}
  BY DEF Delivers
<1> QED
  BY <1>1, <1>2, <1>3 DEF guiVars

\* what is prepared,
LEMMA OutcomePrepared ==
  ASSUME NodeInv, NEW from \in Places, NEW to \in Places,
         NEW good \in SUBSET Pointers, NEW bad \in SUBSET Pointers,
         Outcome(from, to, good, bad), Delivers(from, to, good, bad)
  PROVE  Prepared'
<1> USE DEF NodeInv, Outcome, Goes, Makes
<1>1. main = from /\ main' = to /\ made' = made \cup good
      /\ failed' = failed \cup bad /\ uriCount' = uriCount
  OBVIOUS
<1>2. \A P : Tried(P) => Tried(P)'
  BY <1>1 DEF Tried
<1>3. \A q \in good \cup bad : q \in made' \cup failed'
  BY <1>1
<1>4. CASE <<from, to>> \in {<<"adapter", "handlers">>, <<"wifi", "scanning">>,
                       <<"registry", "seeker">>, <<"events", "response">>,
                       <<"server", "response">>, <<"discovery", "waiting">>,
                       <<"waiting", "ota">>}
  BY <1>1, <1>4 DEF Prepared, Tried, Handling, Connected, Transported, Coded,
                    Places
<1>5. CASE from \in {"lcd", "sync", "handlers", "connecting", "transport"}
  BY <1>1, <1>5 DEF Prepared, Delivers, Tried, Handling, Connected,
                    Transported, Coded, Places
<1>6. CASE from \in {"peers", "seeker", "codec", "ota"}
  BY <1>1, <1>6 DEF Prepared, Delivers, Tried, Handling, Connected,
                    Transported, Coded, Places
<1>7. CASE from \in {"server", "pools", "response"}
  <2>1. from = "pools" => uriCount = 0
    BY <1>1 DEF Serving, Answerless, Answering, TypeOK
  <2> QED
    BY <1>1, <1>7, <2>1
       DEF Prepared, Delivers, Tried, Handling, Connected, Transported, Coded,
           Places, Endpoints
<1> QED
  BY <1>4, <1>5, <1>6, <1>7 DEF Delivers

\* and that an endpoint finds what it needs.
LEMMA OutcomeNode ==
  ASSUME NodeInv, NEW from \in Places, NEW to \in Places,
         NEW good \in SUBSET Pointers, NEW bad \in SUBSET Pointers,
         Outcome(from, to, good, bad), Delivers(from, to, good, bad)
  PROVE  NodeInv'
<1>1. TypeOK' /\ Prepared'
  BY OutcomeType, OutcomePrepared DEF NodeInv
<1> USE DEF NodeInv, Outcome, Goes, Makes, Elsewhere
<1>2. EarlyOrFailed' /\ NothingAsked'
  BY DEF EarlyOrFailed, NothingAsked, Asked
<1>3. Handled'
  BY DEF Handled, Delivers, Handling, Places
<1>4. Serving'
  BY DEF Serving, Tried, Delivers, Answerless, Answering, TypeOK
<1> QED
  BY <1>1, <1>2, <1>3, <1>4

\* An initialisation that is tried delivers what it can.
LEMMA AttemptNode ==
  ASSUME NodeInv, NEW from \in Places, NEW to \in Places,
         NEW P \in SUBSET Pointers, Attempt(from, to, P),
         Delivers(from, to, P, {}), Delivers(from, to, {}, P)
  PROVE  NodeInv'
BY OutcomeNode DEF Attempt, Prepare

\* Main follows only what it has tried to make.
LEMMA TripsNode ==
  ASSUME NodeInv, NEW at \in Places, NEW p \in Pointers, Trips(at, p),
         Excused(p)
  PROVE  NodeInv'
<1> USE DEF Trips, Elsewhere, NodeInv
<1>1. TypeOK'
  BY GuiSetType DEF TypeOK, guiVars
<1> QED
  BY <1>1 DEF EarlyOrFailed, Excused, NothingAsked, Asked, Prepared, Tried,
              Serving, Handled

\* lvgl_port_init.
LEMMA LvglInitNode ==
  ASSUME NodeInv, LvglInit PROVE NodeInv'
<1>1. CASE Outcome("lcd", "worker", {}, {"lvgl"})
  BY <1>1, OutcomeNode DEF Delivers, Places, Pointers
<1>2. CASE ~Outcome("lcd", "worker", {}, {"lvgl"})
  <2> USE <1>2 DEF LvglInit, Goes, Makes, Elsewhere, NodeInv
  <2>1. GuiTypeOK'
    BY GuiSetType DEF TypeOK
  <2>2. TypeOK'
    BY <2>1 DEF TypeOK, Places, Pointers, PortInit
  <2> QED
    BY <2>2 DEF EarlyOrFailed, NothingAsked, Asked, Prepared, Tried, Serving,
       Handled, Handling, Connected, Transported, Coded, Answerless, Answering
<1> QED
  BY <1>1, <1>2

\* A step that tells or sets up the display.
LEMMA DisplayNode ==
  ASSUME NodeInv, LcdInit \/ GuiOpInit \/ Tell PROVE NodeInv'
<1> DEFINE Homes ==
      \/ Display("worker", "screen", UiWorkerInit)
      \/ Display("screen", "building", UiHomeInit("none", "building"))
      \/ Display("building", "gui", UiHomeInit("building", "built"))
<1>1. CASE Trips("screen", "lvgl")
  <2>1. Excused("lvgl")
    BY <1>1 DEF Trips, NodeInv, Prepared, Tried, Excused, Unchecked
  <2> QED
    BY <1>1, <2>1, TripsNode DEF Places, Pointers
<1>2. CASE Homes
  <2> USE DEF Display, Goes, Elsewhere, NodeInv
  <2>1. GuiTypeOK'
    BY <1>2, GuiSetType DEF TypeOK
  <2>2. TypeOK'
    BY <1>2, <2>1 DEF TypeOK, Places, UiWorkerInit, UiHomeInit
  <2> QED
    BY <1>2, <2>2 DEF EarlyOrFailed, NothingAsked, Asked, Prepared, Tried,
       Serving, Handled, Handling, Connected, Transported, Coded, Answerless,
       Answering
<1>3. CASE GuiOpInit \/ Tell
  <2> USE DEF Display, Goes, Elsewhere, NodeInv
  <2>1. GuiTypeOK'
    BY <1>3, GuiSetType, GuiInformType DEF TypeOK, GuiOpInit, Tell, Events
  <2>2. TypeOK'
    BY <1>3, <2>1 DEF TypeOK, GuiOpInit, Tell, Places, guiVars, GuiInform
  <2>3. Prepared'
    BY <1>3 DEF GuiOpInit, Tell, Prepared, Tried, Handling, Connected,
       Transported, Coded, Places
  <2> QED
    BY <1>3, <2>2, <2>3 DEF GuiOpInit, Tell, EarlyOrFailed, NothingAsked,
       Asked, Serving, Tried, Handled, Handling, Places, Answerless, Answering
<1> QED
  BY <1>1, <1>2, <1>3 DEF LcdInit

\* wifi_initialize makes nothing that others follow.
LEMMA WifiInitNode ==
  ASSUME NodeInv, WifiInit PROVE NodeInv'
<1>1. CASE Outcome("wifi", "scanning", {}, {"wifi"})
  BY <1>1, OutcomeNode DEF Delivers, Places, Pointers
<1>2. CASE ~Outcome("wifi", "scanning", {}, {"wifi"})
  <2> USE <1>2 DEF WifiInit, Goes, Elsewhere, NodeInv
  <2>1. TypeOK'
    BY GuiSetType DEF TypeOK, Places, guiVars
  <2> QED
    BY <2>1 DEF EarlyOrFailed, NothingAsked, Asked, Prepared, Tried, Serving,
       Handled, Handling, Connected, Transported, Coded, Answerless,
       Answering, Places
<1> QED
  BY <1>1, <1>2

\* peer_registry_init: when it fails, main itself follows the pointer.
LEMMA PeersInitNode ==
  ASSUME NodeInv, PeersInit PROVE NodeInv'
<1>1. CASE Attempt("peers", "registry", {"peer_registry"})
  BY <1>1, AttemptNode DEF Delivers, Places, Pointers
<1>2. CASE Prepare("registry", "seeker", {})
  BY <1>2, OutcomeNode DEF Prepare, Delivers, Places
<1>3. ASSUME NEW p \in {"peer_registry", "transport"}, Trips("registry", p)
      PROVE  NodeInv'
  <2>1. Excused(p)
    BY <1>3 DEF Trips, NodeInv, Prepared, Tried, Excused, Unchecked,
       Transported, Connected, Handling, Places
  <2> QED
    BY <1>3, <2>1, TripsNode DEF Places, Pointers
<1> QED
  BY <1>1, <1>2, <1>3 DEF PeersInit

\* user_request_create, but for the endpoints: when the server does not
\* start, there are none.
LEMMA ServerNode ==
  ASSUME NodeInv, ServerInit \/ PoolsInit PROVE NodeInv'
<1>1. CASE ServerInit
  BY <1>1, OutcomeNode DEF ServerInit, Prepare, Delivers, Places, Pointers
<1>2. CASE PoolsInit
  BY <1>2, OutcomeNode DEF PoolsInit, Prepare, Delivers, Places, Pointers
<1> QED
  BY <1>1, <1>2

\* An endpoint is registered when its server and its pools are made.
LEMMA RegisterUriNode ==
  ASSUME NodeInv, RegisterUri PROVE NodeInv'
<1> USE DEF RegisterUri, Goes, Elsewhere, NodeInv
<1>1. main' \in {"uris", "events"} /\ uriCount < Len(Endpoints)
      /\ main = "uris"
  BY DEF Prepared
<1>2. TypeOK'
  BY <1>1, GuiSetType DEF TypeOK, Places, guiVars, Endpoints
<1>3. Prepared'
  BY <1>1, <1>2 DEF Prepared, Tried, Handling, Connected, Transported, Coded,
                    Places, Endpoints, TypeOK
<1> QED
  BY <1>1, <1>2, <1>3 DEF EarlyOrFailed, NothingAsked, Asked, Prepared, Tried,
     Serving, Handled, Handling, Places, Answerless, Answering, TypeOK

\* The second attempt to start the server serves nothing if it fails.
LEMMA ResponseCreateNode ==
  ASSUME NodeInv, ResponseCreate PROVE NodeInv'
BY OutcomeNode DEF ResponseCreate, Prepare, Delivers, Places, Pointers

\* start_discovery.
LEMMA StartDiscoveryNode ==
  ASSUME NodeInv, StartDiscovery PROVE NodeInv'
<1>1. CASE Prepare("discovery", "waiting", {})
  BY <1>1, OutcomeNode DEF Prepare, Delivers, Places
<1>2. CASE Trips("discovery", "discovery_service")
  <2>1. Excused("discovery_service")
    BY <1>2 DEF Trips, NodeInv, Prepared, Tried, Excused, Unchecked, Coded,
       Transported, Connected, Handling, Places
  <2> QED
    BY <1>2, <2>1, TripsNode DEF Places, Pointers
<1>3. CASE Goes("discovery", "waiting") /\ discovery' = "on"
           /\ UNCHANGED <<guiVars, made, failed, fault, wifi, uriCount,
                          troubles>>
           /\ Elsewhere
  <2> USE <1>3 DEF Goes, Elsewhere, NodeInv
  <2>1. TypeOK'
    BY GuiSetType DEF TypeOK, Places, guiVars
  <2> QED
    BY <2>1 DEF EarlyOrFailed, NothingAsked, Asked, Prepared, Tried, Serving,
       Handled, Handling, Connected, Transported, Coded, Answerless,
       Answering, Places
<1> QED
  BY <1>1, <1>2, <1>3 DEF StartDiscovery

\* sync_manager_signal_wait.
LEMMA AwaitDiscoveryNode ==
  ASSUME NodeInv, AwaitDiscovery PROVE NodeInv'
<1>1. CASE Prepare("waiting", "ota", {})
  BY <1>1, OutcomeNode DEF Prepare, Delivers, Places
<1>2. CASE Trips("waiting", "sync_manager")
  <2>1. Excused("sync_manager")
    BY <1>2 DEF Trips, NodeInv, Prepared, Tried, Excused, Unchecked,
       Handling, Places
  <2> QED
    BY <1>2, <2>1, TripsNode DEF Places, Pointers
<1> QED
  BY <1>1, <1>2 DEF AwaitDiscovery

\* Every step of app_main keeps what is made where it should be.
LEMMA MainNode ==
  ASSUME NodeInv, MainStep PROVE NodeInv'
<1>1. CASE EventsInit \/ AwaitWifi \/ TransportInit \/ CodecInit \/ OtaInit
  BY <1>1, AttemptNode DEF EventsInit, AwaitWifi, TransportInit, CodecInit,
     OtaInit, Delivers, Places, Pointers
<1>2. CASE HandlersInit
  BY <1>2, AttemptNode, OutcomeNode
     DEF HandlersInit, Delivers, Places, Pointers
<1>3. CASE RegisterEvents
  BY <1>3, OutcomeNode DEF RegisterEvents, Prepare, Delivers, Places
<1> QED
  BY <1>1, <1>2, <1>3, LvglInitNode, DisplayNode, WifiInitNode, PeersInitNode,
     ServerNode, RegisterUriNode, ResponseCreateNode, StartDiscoveryNode,
     AwaitDiscoveryNode DEF MainStep

-----------------------------------------------------------------------------
(***************************************************************************)
(* The same for the tasks that serve requests.                             *)
(***************************************************************************)
\* An event that is added, or taken, is one of those there are.
EventIds == Targets \cup {"report", "discovered"}

\* What is added to the event queue is an event, and nothing else changes.
LEMMA AppendEvent ==
  ASSUME NEW q \in Seq(EventIds), NEW e \in EventIds, NEW r, r = Append(q, e)
  PROVE  r \in Seq(EventIds)
         /\ \A i \in DOMAIN r : r[i] = e \/ (i \in DOMAIN q /\ r[i] = q[i])
BY AppendProperties

\* What is left of it is what was behind its head.
LEMMA TailEvent ==
  ASSUME NEW q \in Seq(EventIds), q # <<>>
  PROVE  /\ Tail(q) \in Seq(EventIds) /\ Head(q) = q[1] /\ 1 \in DOMAIN q
         /\ \A i \in DOMAIN Tail(q) : i+1 \in DOMAIN q /\ Tail(q)[i] = q[i+1]
BY HeadTailProperties

\* Whoever is asked something follows what is made, or what is excused.
LEMMA Asking ==
  ASSUME NodeInv, Asked
  PROVE  /\ "user_request" \in made
         /\ \A p \in {"bank_pools", "message_codec", "delegate_queue",
                      "log_capture", "user_output", "start_update"} :
              p \in made \/ Excused(p)
         /\ uriCount > 0 /\ main \in Handling
<1>1. uriCount > 0
  BY DEF NodeInv, NothingAsked, TypeOK
<1>2. /\ main \in Answerless \cup Answering
      /\ "user_request" \in made /\ Tried({"bank_pools"})
      /\ main \in Answering => "user_output" \in made
  BY <1>1 DEF NodeInv, Serving
<1>3. main \in Coded /\ main \in Transported /\ main \in Connected
      /\ main \in Handling
  BY <1>2 DEF Answerless, Answering, Handling, Connected, Transported, Coded,
              Places
<1>4. Tried({"message_codec", "delegate_queue", "log_capture"})
      /\ (main = "up" => Tried({"start_update"}))
  BY <1>3 DEF NodeInv, Prepared, Tried
<1>5. main \in Open \/ main = "up"
  BY <1>2 DEF Answerless, Answering, Open
<1> QED
  BY <1>1, <1>2, <1>3, <1>4, <1>5 DEF Tried, Excused, Unchecked

\* A task other than main keeps NodeInv if it is asked something only where
\* there is an endpoint, and follows nothing but what is excused.
LEMMA MeanwhileNode ==
  ASSUME NodeInv, Meanwhile, eventQ' \in Seq(EventIds),
         httpd' \in Targets \cup {"idle"}, radio' \in Nat, delegateQ' \in Nat,
         discovery' \in {"off", "on", "found", "signalled"},
         requests' \in 0..MaxRequests,
         fault' \in Pointers \cup {"none"},
         fault' # "none" => Excused(fault'),
         eventQ' # <<>> \/ discovery' # "off" => main \in Handling,
         Asked' => uriCount > 0
  PROVE  NodeInv'
<1> USE DEF Meanwhile, NodeInv
<1>1. TypeOK'
  BY GuiSetType DEF TypeOK, guiVars, EventIds
<1>2. EarlyOrFailed'
  BY DEF EarlyOrFailed, Excused
<1> QED
  BY <1>1, <1>2 DEF NothingAsked, Prepared, Tried, Serving, Handled

\* A request is accepted: an endpoint exists, so the pools do.
LEMMA AcceptNode ==
  ASSUME NodeInv, NEW uri \in Targets, Accept(uri) PROVE NodeInv'
<1> USE DEF Accept, Follow
<1>1. uriCount > 0
  BY DEF NodeInv, TypeOK
<1>2. "bank_pools" \in made \/ Excused("bank_pools")
  BY <1>1 DEF NodeInv, Serving, Tried, Excused, Unchecked
<1>3. requests' \in 0..MaxRequests
  BY StartupAssumption DEF NodeInv, TypeOK, StartupAssumption
<1>4. main \in Handling
  BY <1>1 DEF NodeInv, Serving, Answerless, Answering, Handling, Places
<1>5. fault' \in Pointers \cup {"none"} /\ (fault' # "none" => Excused(fault'))
  BY <1>2 DEF Pointers
<1> QED
  BY <1>1, <1>3, <1>4, <1>5, MeanwhileNode DEF NodeInv, TypeOK, EventIds

\* The callback of an endpoint follows user_request's pointer, which is made.
LEMMA PostRequestNode ==
  ASSUME NodeInv, PostRequest PROVE NodeInv'
<1> USE DEF PostRequest, Follow
<1>1. Asked /\ httpd \in EventIds /\ eventQ \in Seq(EventIds)
  BY DEF Asked, NodeInv, TypeOK, EventIds
<1>2. uriCount > 0 /\ "user_request" \in made /\ main \in Handling
  BY <1>1, Asking
<1>3. eventQ' \in Seq(EventIds)
  BY <1>1, AppendEvent
<1>4. fault' = "none"
  BY <1>2 DEF Meanwhile
<1> QED
  BY <1>2, <1>3, <1>4, MeanwhileNode DEF NodeInv, TypeOK

\* The event loop: it follows nothing but what is excused.
LEMMA LoopNode ==
  ASSUME NodeInv, LoopStep PROVE NodeInv'
<1> USE DEF LoopStep, HandleGate, HandleLog, HandleOta, HandleReport,
            HandleDiscovery, TakeEvent
<1>1. eventQ \in Seq(EventIds) /\ eventQ # <<>> /\ eventQ' = Tail(eventQ)
      /\ Meanwhile
  BY DEF NodeInv, TypeOK, EventIds
<1>2. eventQ' \in Seq(EventIds)
  BY <1>1, TailEvent
<1>3. \A i \in DOMAIN eventQ' :
        i+1 \in DOMAIN eventQ /\ eventQ'[i] = eventQ[i+1]
  BY <1>1, TailEvent
<1>4. main \in Handling
  BY <1>1 DEF NodeInv, Handled
<1>5. CASE HandleDiscovery
  <2>1. Asked' => Asked
    BY <1>3, <1>5 DEF Asked
  <2>2. Asked' => uriCount > 0
    BY <2>1, Asking
  <2>3. "sync_manager" \in made \/ Excused("sync_manager")
    BY <1>4 DEF NodeInv, Prepared, Tried, Excused, Unchecked
  <2>4. fault' \in {"none", "sync_manager"}
        /\ (fault' # "none" => "sync_manager" \notin made)
    BY <1>1, <1>5 DEF Follow, Meanwhile
  <2> QED
    BY <1>1, <1>2, <1>4, <1>5, <2>2, <2>3, <2>4, MeanwhileNode
       DEF NodeInv, TypeOK, Pointers
<1>6. CASE ~HandleDiscovery
  <2>1. Head(eventQ) # "discovered"
    BY <1>6 DEF Gate
  <2>2. Asked
    BY <1>1, <2>1, TailEvent DEF Asked
  <2>3. radio' \in Nat /\ delegateQ' \in Nat
    BY <1>6 DEF NodeInv, TypeOK
  <2>4. /\ fault' \in {"none", "message_codec", "delegate_queue",
                       "user_output", "start_update"}
        /\ fault' # "none" => fault' \notin made
    BY <1>6 DEF Follow, FollowBoth
  <2>5. fault' \in Pointers \cup {"none"}
        /\ (fault' # "none" => Excused(fault'))
    BY <2>2, <2>4, Asking DEF Pointers
  <2> QED
    BY <1>1, <1>2, <1>4, <1>6, <2>2, <2>3, <2>5, Asking, MeanwhileNode
       DEF NodeInv, TypeOK
<1> QED
  BY <1>5, <1>6

\* The delegate task: nor does it.
LEMMA SendLogNode ==
  ASSUME NodeInv, SendLog PROVE NodeInv'
<1> USE DEF SendLog
<1>1. Asked /\ delegateQ' \in Nat
  BY DEF Asked, NodeInv, TypeOK
<1>2. fault' \in {"none", "log_capture", "user_output"}
      /\ (fault' # "none" => fault' \notin made)
  BY DEF Follow, FollowBoth
<1>3. fault' \in Pointers \cup {"none"}
      /\ (fault' # "none" => Excused(fault'))
  BY <1>1, <1>2, Asking DEF Pointers
<1> QED
  BY <1>1, <1>3, Asking, MeanwhileNode DEF NodeInv, TypeOK, EventIds

\* The codec reports on a command that was asked for.
LEMMA ReportSendNode ==
  ASSUME NodeInv, ReportSend PROVE NodeInv'
<1> USE DEF ReportSend
<1>1. Asked /\ radio' \in Nat /\ eventQ' \in Seq(EventIds)
  BY AppendEvent DEF Asked, NodeInv, TypeOK, EventIds
<1> QED
  BY <1>1, Asking, MeanwhileNode DEF NodeInv, TypeOK, Meanwhile

\* Discovery asks for nothing.
LEMMA GateFoundNode ==
  ASSUME NodeInv, GateFound PROVE NodeInv'
<1> USE DEF GateFound
<1>1. eventQ \in Seq(EventIds) /\ "discovered" \in EventIds
  BY DEF NodeInv, TypeOK, EventIds
<1>2. eventQ' \in Seq(EventIds)
      /\ \A i \in DOMAIN eventQ' :
           \/ eventQ'[i] = "discovered"
           \/ i \in DOMAIN eventQ /\ eventQ'[i] = eventQ[i]
  BY <1>1, AppendEvent
<1>3. Asked' => Asked
  BY <1>2 DEF Asked
<1>4. main \in Handling
  BY DEF NodeInv, Handled
<1> QED
  BY <1>2, <1>3, <1>4, Asking, MeanwhileNode DEF NodeInv, TypeOK, Meanwhile

\* Nor does Wi-Fi.
LEMMA WifiConnectsNode ==
  ASSUME NodeInv, WifiConnects PROVE NodeInv'
<1> USE DEF WifiConnects, Elsewhere, NodeInv
<1>1. TypeOK'
  BY GuiSetType DEF TypeOK, guiVars
<1> QED
  BY <1>1 DEF EarlyOrFailed, Excused, NothingAsked, Asked, Prepared, Tried,
              Serving, Handled

\* Nor do the tasks of the display.
LEMMA DisplayStepNode ==
  ASSUME NodeInv, DisplayStep PROVE NodeInv'
<1> USE DEF NodeInv, nodeVars
<1>1. GuiTypeOK' /\ screen' = screen /\ (worker' = "none" <=> worker = "none")
  BY GuiStepType DEF DisplayStep, Shows, TypeOK
<1>2. UNCHANGED <<nodeVars, requests, troubles>>
  BY DEF DisplayStep, Shows
<1>3. TypeOK'
  BY <1>1, <1>2 DEF TypeOK
<1> QED
  BY <1>2, <1>3 DEF EarlyOrFailed, Excused, NothingAsked, Asked, Prepared,
     Tried, Serving, Handled

\* Every step of the node.
LEMMA NodeInvNext ==
  ASSUME NodeInv, [Next]_vars PROVE NodeInv'
<1>1. CASE PanicReboot
  BY <1>1, RestartNode DEF PanicReboot, NodeInv, TypeOK
<1>2. CASE UNCHANGED vars
  BY <1>2, GuiSetType DEF vars, nodeVars, guiVars, NodeInv, TypeOK, GuiTypeOK,
     EarlyOrFailed, Excused, NothingAsked, Asked, Prepared, Tried, Serving,
     Handled
<1>3. CASE WorldStep
  BY <1>3, AcceptNode, ReportSendNode, WifiConnectsNode, GateFoundNode
     DEF WorldStep
<1> QED
  BY <1>1, <1>2, <1>3, MainNode, AbortNode, DisplayStepNode, LoopNode,
     PostRequestNode, SendLogNode DEF Next

-----------------------------------------------------------------------------
(***************************************************************************)
(* The lock, and the order of the news.                                    *)
(***************************************************************************)
Order == InOrder /\ Sorted

\* Whatever leaves the display and the last news alone keeps the order.
LEMMA SameOrder ==
  ASSUME Order,
         UNCHANGED <<guiQueue, posting, jobQueue, shown, InWorker, Told>>
  PROVE  Order'
BY DEF Order, InOrder, Sorted, NoNewer, OnScreen, InJobs, InPosting, InNews

\* On a screen without news and with empty queues there is nothing to order.
LEMMA InitOrder == Init => Order
<1> SUFFICES ASSUME Init PROVE Order
  OBVIOUS
<1> USE DEF Init, GuiInit
<1>1. OnScreen \subseteq {0} /\ Told = 0
  BY DEF OnScreen, Rank, Labels, Told, Handling, Places
<1>2. InWorker = {} /\ InJobs = {} /\ InPosting = {} /\ InNews = {}
  BY DEF InWorker, InJobs, InPosting, InNews
<1>3. InOrder
  BY <1>1, <1>2 DEF InOrder, NoNewer
<1>4. Sorted
  BY DEF Sorted
<1> QED
  BY <1>3, <1>4 DEF Order

\* The same after a restart.
LEMMA RestartOrder == Restart => Order'
<1> SUFFICES ASSUME Restart PROVE Order'
  OBVIOUS
<1> USE DEF Restart, GuiReset
<1>1. OnScreen' \subseteq {0} /\ Told' = 0
  BY DEF OnScreen, Rank, Labels, Told, Handling, Places
<1>2. InWorker' = {} /\ InJobs' = {} /\ InPosting' = {} /\ InNews' = {}
  BY DEF InWorker, InJobs, InPosting, InNews
<1> QED
  BY <1>1, <1>2 DEF Order, InOrder, NoNewer, Sorted

\* The age of the news at each place.
LEMMA AgeType ==
  ASSUME GuiTypeOK
  PROVE  /\ OnScreen \subseteq 0..4 /\ InWorker \subseteq 0..4
         /\ InJobs \subseteq 0..4 /\ InPosting \subseteq 0..4
         /\ InNews \subseteq 0..4 /\ Told \in 0..4
<1>1. \A e \in Events : Rank[e] \in 0..4
  BY RankType DEF News
<1>2. OnScreen \subseteq 0..4
  BY RankType DEF OnScreen, GuiTypeOK, News
<1>3. /\ InWorker \subseteq 0..4 /\ InJobs \subseteq 0..4
      /\ InPosting \subseteq 0..4
  <2>1. \A j \in Jobs : Rank[j.event] \in 0..4
    BY <1>1 DEF Jobs
  <2>2. InWorker \subseteq 0..4
    BY <2>1 DEF InWorker, GuiTypeOK
  <2>3. \A i \in DOMAIN jobQueue : jobQueue[i] \in Jobs
    BY DEF GuiTypeOK
  <2>4. \A i \in DOMAIN posting : posting[i] \in Jobs
    BY DEF GuiTypeOK
  <2> QED
    BY <2>1, <2>2, <2>3, <2>4 DEF InJobs, InPosting
<1>4. InNews \subseteq 0..4
  BY <1>1 DEF InNews, GuiTypeOK
<1> QED
  BY <1>2, <1>3, <1>4 DEF Told

\* The event at the head of the queue is the oldest in it.
LEMMA TakeNewsOrder ==
  ASSUME GuiTypeOK, Order, TakeNews, main' = main PROVE Order'
<1> DEFINE e == Head(guiQueue)
<1>1. /\ e = guiQueue[1] /\ 1 \in DOMAIN guiQueue /\ e \in Events
      /\ \A i \in DOMAIN guiQueue' :
           /\ i+1 \in DOMAIN guiQueue /\ guiQueue'[i] = guiQueue[i+1]
           /\ i \in Nat /\ i >= 1
  BY HeadTailProperties DEF GuiTypeOK, TakeNews
<1>2. \A i \in DOMAIN posting' : posting'[i].event = e
  BY DEF TakeNews
<1>3. UNCHANGED <<OnScreen, InWorker, InJobs, Told>>
  BY DEF TakeNews, OnScreen, InWorker, InJobs, Told
<1>4. InPosting' \subseteq {Rank[e]} /\ Rank[e] \in InNews
  BY <1>1, <1>2 DEF InPosting, InNews
<1>5. InNews' \subseteq InNews /\ \A t \in InNews' : Rank[e] <= t
  BY <1>1 DEF InNews, Order, Sorted
<1>6. InOrder'
  BY <1>3, <1>4, <1>5 DEF Order, InOrder, NoNewer
<1>7. Sorted'
  <2>1. \A i, j \in DOMAIN guiQueue' :
          i <= j => Rank[guiQueue'[i]] <= Rank[guiQueue'[j]]
    BY <1>1 DEF Order, Sorted
  <2>2. jobQueue' = jobQueue
    BY DEF TakeNews
  <2> QED
    BY <1>2, <2>1, <2>2 DEF Order, Sorted
<1> QED
  BY <1>6, <1>7 DEF Order

\* The jobs of an event are no older than those that wait before them.
LEMMA ProcessJobOrder ==
  ASSUME GuiTypeOK, Order, ProcessJob, main' = main PROVE Order'
<1> DEFINE e == Head(posting).event
<1>1. /\ Head(posting) = posting[1] /\ 1 \in DOMAIN posting
      /\ \A i \in DOMAIN posting' :
           i+1 \in DOMAIN posting /\ posting'[i] = posting[i+1]
  BY HeadTailProperties DEF GuiTypeOK, ProcessJob
<1>2. /\ Len(jobQueue) \in Nat /\ DOMAIN jobQueue = 1..Len(jobQueue)
      /\ DOMAIN jobQueue' = 1..Len(jobQueue)+1
      /\ jobQueue'[Len(jobQueue)+1] = Head(posting)
      /\ \A i \in DOMAIN jobQueue : jobQueue'[i] = jobQueue[i]
  <2>1. Head(posting) \in Jobs
    BY <1>1 DEF GuiTypeOK
  <2> QED
    BY <2>1, AppendProperties DEF GuiTypeOK, ProcessJob
<1>3. UNCHANGED <<OnScreen, InWorker, InNews, Told>>
  BY DEF ProcessJob, OnScreen, InWorker, InNews, Told
<1>4. InPosting' \subseteq InPosting /\ Rank[e] \in InPosting
  BY <1>1 DEF InPosting
<1>5. \A t \in InPosting' : t = Rank[e]
  BY <1>1 DEF InPosting, Order, Sorted
<1>6. InJobs' \subseteq InJobs \cup {Rank[e]}
  <2> SUFFICES ASSUME NEW i \in DOMAIN jobQueue'
               PROVE  Rank[jobQueue'[i].event] \in InJobs \cup {Rank[e]}
    BY DEF InJobs
  <2>1. i \in DOMAIN jobQueue \/ i = Len(jobQueue)+1
    BY <1>2
  <2> QED
    BY <1>2, <2>1 DEF InJobs
<1>7. Rank[e] <= Rank[e]
  <2>1. Rank[e] \in 0..4
    BY <1>4, AgeType
  <2> QED
    BY <2>1
<1>8. InOrder'
  BY <1>3, <1>4, <1>5, <1>6, <1>7 DEF Order, InOrder, NoNewer
<1>9. Sorted'
  <2>1. \A t \in InJobs : t <= Rank[e]
    BY <1>4 DEF Order, InOrder, NoNewer
  <2>2. \A i \in DOMAIN jobQueue : Rank[jobQueue[i].event] <= Rank[e]
    BY <2>1 DEF InJobs
  <2>3. ASSUME NEW i \in DOMAIN jobQueue', NEW j \in DOMAIN jobQueue', i <= j
        PROVE  Rank[jobQueue'[i].event] <= Rank[jobQueue'[j].event]
    <3>1. CASE j \in DOMAIN jobQueue
      <4>1. i \in DOMAIN jobQueue
        BY <1>2, <2>3, <3>1
      <4> QED
        BY <1>2, <2>3, <3>1, <4>1 DEF Order, Sorted
    <3>2. CASE j = Len(jobQueue)+1 /\ i \in DOMAIN jobQueue
      BY <1>2, <2>2, <3>2
    <3>3. CASE j = Len(jobQueue)+1 /\ i = j
      BY <1>2, <1>7, <3>3
    <3> QED
      BY <1>2, <2>3, <3>1, <3>2, <3>3
  <2>4. \A i, j \in DOMAIN posting' : posting'[i].event = posting'[j].event
    BY <1>1 DEF Order, Sorted
  <2> QED
    BY <2>3, <2>4 DEF Order, Sorted, ProcessJob
<1> QED
  BY <1>8, <1>9 DEF Order

\* The job at the head of the queue is the oldest in it.
LEMMA TakeJobOrder ==
  ASSUME GuiTypeOK, Order, TakeJob, main' = main PROVE Order'
<1> DEFINE e == Head(jobQueue).event
<1>1. /\ Head(jobQueue) = jobQueue[1] /\ 1 \in DOMAIN jobQueue
      /\ \A i \in DOMAIN jobQueue' :
           /\ i+1 \in DOMAIN jobQueue /\ jobQueue'[i] = jobQueue[i+1]
           /\ i \in Nat /\ i >= 1
  BY HeadTailProperties DEF GuiTypeOK, TakeJob
<1>2. UNCHANGED <<OnScreen, InPosting, InNews, Told>>
  BY DEF TakeJob, OnScreen, InPosting, InNews, Told
<1>3. InWorker' = {Rank[e]} /\ Rank[e] \in InJobs
  BY <1>1 DEF TakeJob, InWorker, InJobs
<1>4. InJobs' \subseteq InJobs /\ \A t \in InJobs' : Rank[e] <= t
  BY <1>1 DEF InJobs, Order, Sorted
<1>5. InOrder'
  BY <1>2, <1>3, <1>4 DEF Order, InOrder, NoNewer
<1>6. Sorted'
  <2>1. \A i, j \in DOMAIN jobQueue' :
          i <= j => Rank[jobQueue'[i].event] <= Rank[jobQueue'[j].event]
    BY <1>1 DEF Order, Sorted
  <2> QED
    BY <2>1 DEF Order, Sorted, TakeJob
<1> QED
  BY <1>5, <1>6 DEF Order

\* A job shows what is no older than what was shown.
LEMMA RunJobOrder ==
  ASSUME GuiTypeOK, Order, RunJob
  PROVE  /\ main' = main => Order'
         /\ \A l \in Labels : Rank[shown[l]] <= Rank[shown'[l]]
<1>1. Rank[job.event] \in InWorker /\ InWorker' = {}
  BY DEF RunJob, InWorker
<1>2. \A l \in Labels : shown'[l] = shown[l] \/ shown'[l] = job.event
  BY DEF RunJob, Show, GuiTypeOK
<1>3. OnScreen' \subseteq OnScreen \cup InWorker
  BY <1>1, <1>2 DEF OnScreen
<1>4. \A l \in Labels : Rank[shown[l]] <= Rank[shown'[l]]
  <2> SUFFICES ASSUME NEW l \in Labels PROVE Rank[shown[l]] <= Rank[shown'[l]]
    OBVIOUS
  <2>1. Rank[shown[l]] \in OnScreen
    BY DEF OnScreen
  <2>2. Rank[shown[l]] \in 0..4
    BY <2>1, AgeType
  <2>3. Rank[shown[l]] <= Rank[job.event]
    BY <1>1, <2>1 DEF Order, InOrder, NoNewer
  <2> QED
    BY <1>2, <2>2, <2>3
<1>5. ASSUME main' = main PROVE Order'
  <2>1. UNCHANGED <<InJobs, InPosting, InNews, Told>>
    BY <1>5 DEF RunJob, InJobs, InPosting, InNews, Told
  <2>2. InOrder'
    BY <1>1, <1>3, <2>1 DEF Order, InOrder, NoNewer
  <2> QED
    BY <2>2 DEF Order, Sorted, RunJob
<1> QED
  BY <1>4, <1>5

\* Main tells what is newer than all it has told.
LEMMA TellOrder ==
  ASSUME GuiTypeOK, Order, Tell PROVE Order'
<1> PICK e \in Events : GuiInform(e) /\ Told' = Rank[e] /\ Told <= Rank[e]
  BY DEF Tell, Display, Goes, Events, Told, Rank, Handling, Places
<1>1. UNCHANGED <<OnScreen, InWorker, InJobs, InPosting>>
  BY DEF GuiInform, OnScreen, InWorker, InJobs, InPosting
<1>2. \A t \in OnScreen \cup InWorker \cup InJobs \cup InPosting \cup InNews :
        t <= Rank[e]
  BY AgeType, RankType DEF Order, InOrder, NoNewer, News
<1>3. CASE guiQueue' = guiQueue
  <2>1. InNews' = InNews
    BY <1>3 DEF InNews
  <2>2. InOrder'
    BY <1>1, <1>2, <2>1 DEF Order, InOrder, NoNewer
  <2> QED
    BY <1>3, <2>2 DEF Order, Sorted, GuiInform
<1>4. CASE guiQueue' = Append(guiQueue, e)
  <2>1. /\ Len(guiQueue) \in Nat /\ DOMAIN guiQueue = 1..Len(guiQueue)
        /\ DOMAIN guiQueue' = 1..Len(guiQueue)+1
        /\ guiQueue'[Len(guiQueue)+1] = e
        /\ \A i \in DOMAIN guiQueue : guiQueue'[i] = guiQueue[i]
    BY <1>4, AppendProperties DEF GuiTypeOK
  <2>2. InNews' \subseteq InNews \cup {Rank[e]}
    <3> SUFFICES ASSUME NEW i \in DOMAIN guiQueue'
                 PROVE  Rank[guiQueue'[i]] \in InNews \cup {Rank[e]}
      BY DEF InNews
    <3>1. i \in DOMAIN guiQueue \/ i = Len(guiQueue)+1
      BY <2>1
    <3> QED
      BY <2>1, <3>1 DEF InNews
  <2>3. Rank[e] <= Rank[e]
    BY RankType DEF News
  <2>4. InOrder'
    BY <1>1, <1>2, <2>2, <2>3 DEF Order, InOrder, NoNewer
  <2>5. ASSUME NEW i \in DOMAIN guiQueue', NEW j \in DOMAIN guiQueue', i <= j
        PROVE  Rank[guiQueue'[i]] <= Rank[guiQueue'[j]]
    <3>1. CASE j \in DOMAIN guiQueue
      <4>1. i \in DOMAIN guiQueue
        BY <2>1, <2>5, <3>1
      <4> QED
        BY <2>1, <2>5, <3>1, <4>1 DEF Order, Sorted
    <3>2. CASE j = Len(guiQueue)+1 /\ i \in DOMAIN guiQueue
      <4>1. Rank[guiQueue[i]] <= Rank[e]
        BY <1>2, <3>2 DEF InNews
      <4> QED
        BY <2>1, <3>2, <4>1
    <3>3. CASE j = Len(guiQueue)+1 /\ i = j
      BY <2>1, <2>3, <3>3
    <3> QED
      BY <2>1, <2>5, <3>1, <3>2, <3>3
  <2> QED
    BY <2>4, <2>5 DEF Order, Sorted, GuiInform
<1> QED
  BY <1>3, <1>4 DEF GuiInform

\* What main's steps are that neither tell nor set up the display.
Quiet ==
  \/ GuiOpInit \/ EventsInit \/ HandlersInit \/ WifiInit \/ AwaitWifi
  \/ TransportInit \/ PeersInit \/ CodecInit \/ ServerInit \/ PoolsInit
  \/ RegisterUri \/ RegisterEvents \/ ResponseCreate \/ StartDiscovery
  \/ AwaitDiscovery \/ OtaInit

\* They leave the display, and the age of the last news, as they are.
LEMMA QuietSteps ==
  ASSUME Quiet PROVE UNCHANGED guiVars /\ main' # "lcd" /\ Told' = Told
<1> USE DEF Outcome, Prepare, Attempt, Trips, Display, Goes, Told, Handling,
            Places
<1>1. CASE GuiOpInit \/ EventsInit \/ HandlersInit \/ WifiInit
  BY <1>1 DEF GuiOpInit, EventsInit, HandlersInit, WifiInit
<1>2. CASE AwaitWifi \/ TransportInit \/ PeersInit \/ CodecInit
  BY <1>2 DEF AwaitWifi, TransportInit, PeersInit, CodecInit
<1>3. CASE ServerInit \/ PoolsInit \/ RegisterUri \/ RegisterEvents
  BY <1>3 DEF ServerInit, PoolsInit, RegisterUri, RegisterEvents
<1>4. CASE ResponseCreate \/ StartDiscovery \/ AwaitDiscovery \/ OtaInit
  BY <1>4 DEF ResponseCreate, StartDiscovery, AwaitDiscovery, OtaInit
<1> QED
  BY <1>1, <1>2, <1>3, <1>4 DEF Quiet

\* Main's other steps tell nothing.
LEMMA MainOrder ==
  ASSUME TypeOK, Order, MainStep PROVE Order'
<1>1. CASE LvglInit \/ LcdInit
  <2> USE DEF LvglInit, LcdInit, Display, Outcome, Trips, Goes, PortInit,
              UiWorkerInit, UiHomeInit, guiVars
  <2>1. UNCHANGED <<guiQueue, posting, jobQueue, shown, Told>>
    BY <1>1 DEF Told, Handling, Places
  <2>2. UNCHANGED InWorker
    BY <1>1 DEF InWorker, TypeOK
  <2> QED
    BY <2>1, <2>2, SameOrder
<1>2. CASE Tell
  BY <1>2, TellOrder DEF TypeOK
<1>3. CASE Quiet
  BY <1>3, QuietSteps, SameOrder DEF guiVars, InWorker
<1> QED
  BY <1>1, <1>2, <1>3 DEF MainStep, Quiet

\* The tasks of the display.
LEMMA DisplayOrder ==
  ASSUME TypeOK, Order, DisplayStep PROVE Order'
<1>1. main' = main /\ Told' = Told /\ GuiTypeOK
  BY DEF DisplayStep, Shows, nodeVars, Told, TypeOK
<1>2. CASE TakeNews \/ ProcessJob \/ TakeJob \/ RunJob
  BY <1>1, <1>2, TakeNewsOrder, ProcessJobOrder, TakeJobOrder, RunJobOrder
<1>3. CASE WorkerLocks \/ PortLocks \/ PortUnlocks
  BY <1>1, <1>3, SameOrder DEF WorkerLocks, PortLocks, PortUnlocks, InWorker
<1> QED
  BY <1>2, <1>3 DEF DisplayStep, Shows, GuiOpStep

\* Whatever happens, nothing newer is shown before what is older.
LEMMA OrderNext ==
  ASSUME TypeOK, Order, [Next]_vars PROVE Order'
<1>1. CASE MainStep
  BY <1>1, MainOrder
<1>2. CASE DisplayStep
  BY <1>2, DisplayOrder
<1>3. CASE Abort \/ PanicReboot
  BY <1>3, RestartOrder DEF Abort, PanicReboot
<1>4. CASE LoopStep \/ PostRequest \/ SendLog \/ WorldStep \/ UNCHANGED vars
  <2>1. UNCHANGED guiVars /\ main' = main
    BY <1>4 DEF LoopStep, HandleGate, HandleLog, HandleOta, HandleReport,
       HandleDiscovery, TakeEvent, PostRequest, SendLog, WorldStep, Accept,
       ReportSend, WifiConnects, GateFound, Meanwhile, vars, nodeVars
  <2> QED
    BY <2>1, SameOrder DEF guiVars, InWorker, Told
<1> QED
  BY <1>1, <1>2, <1>3, <1>4 DEF Next

\* The lock is with the one that is inside.
LEMMA LockedNext ==
  ASSUME TypeOK, Locked, [Next]_vars PROVE Locked'
<1>1. CASE UNCHANGED <<lock, worker, port>> /\ (main' = main \/ main' # "lcd")
  BY <1>1 DEF Locked
<1>2. CASE Restart
  BY <1>2 DEF Restart, GuiReset, Locked
<1>3. CASE LvglInit \/ LcdInit
  <2>1. CASE Goes("lcd", "worker") /\ PortInit
    BY <2>1 DEF Goes, PortInit, Locked
  <2>2. CASE Display("worker", "screen", UiWorkerInit)
    BY <2>2 DEF Display, Goes, UiWorkerInit, Locked, TypeOK
  <2>3. CASE \/ Display("screen", "building", UiHomeInit("none", "building"))
             \/ Display("building", "gui", UiHomeInit("building", "built"))
    BY <1>1, <2>3 DEF Display, Goes, UiHomeInit
  <2>4. CASE \/ Outcome("lcd", "worker", {}, {"lvgl"})
             \/ Trips("screen", "lvgl")
    BY <1>1, <2>4 DEF Outcome, Trips, Goes, guiVars
  <2> QED
    BY <1>3, <2>1, <2>2, <2>3, <2>4 DEF LvglInit, LcdInit
<1>4. CASE DisplayStep
  <2>1. main' = main
    BY <1>4 DEF DisplayStep, Shows, nodeVars
  <2>2. CASE TakeNews \/ ProcessJob \/ TakeJob
    BY <2>1, <2>2 DEF TakeNews, ProcessJob, TakeJob, Locked
  <2>3. CASE WorkerLocks \/ RunJob
    BY <2>1, <2>3 DEF WorkerLocks, RunJob, Locked
  <2>4. CASE PortLocks \/ PortUnlocks
    BY <1>4, <2>1, <2>4 DEF PortLocks, PortUnlocks, Locked
  <2> QED
    BY <1>4, <2>2, <2>3, <2>4 DEF DisplayStep, Shows, GuiOpStep
<1>5. CASE Tell \/ Quiet
  <2>1. CASE Tell
    BY <1>1, <2>1 DEF Tell, Display, Goes, GuiInform
  <2>2. CASE Quiet
    BY <1>1, <2>2, QuietSteps DEF guiVars
  <2> QED
    BY <1>5, <2>1, <2>2
<1>6. CASE LoopStep \/ PostRequest \/ SendLog \/ WorldStep \/ UNCHANGED vars
  BY <1>1, <1>6 DEF LoopStep, HandleGate, HandleLog, HandleOta, HandleReport,
     HandleDiscovery, TakeEvent, PostRequest, SendLog, WorldStep, Accept,
     ReportSend, WifiConnects, GateFound, Meanwhile, vars, guiVars, nodeVars
<1> QED
  BY <1>2, <1>3, <1>4, <1>5, <1>6 DEF Next, MainStep, Quiet, Abort, PanicReboot

-----------------------------------------------------------------------------
(***************************************************************************)
(* The theorems.                                                           *)
(***************************************************************************)
\* BootInv holds initially.
LEMMA BootInvInit == Init => BootInv
<1> SUFFICES ASSUME Init PROVE BootInv
  OBVIOUS
<1>1. TypeOK
  BY GuiResetType, StartupAssumption
     DEF Init, TypeOK, GuiInit, Places, Endpoints, StartupAssumption
<1>2. /\ EarlyOrFailed /\ Prepared /\ Serving /\ Handled /\ NothingAsked
      /\ Locked
  BY DEF Init, GuiInit, EarlyOrFailed, Prepared, Serving, Handled,
     NothingAsked, Asked, Locked, Handling, Connected, Transported, Coded
<1> QED
  BY <1>1, <1>2, InitOrder DEF BootInv, Order

\* Every step keeps BootInv.
LEMMA BootInvNext == BootInv /\ [Next]_vars => BootInv'
<1> SUFFICES ASSUME BootInv, [Next]_vars PROVE BootInv'
  OBVIOUS
<1>1. NodeInv /\ Order
  BY DEF BootInv, NodeInv, Order
<1>2. NodeInv' /\ Order' /\ Locked'
  BY <1>1, NodeInvNext, OrderNext, LockedNext DEF BootInv
<1> QED
  BY <1>2 DEF BootInv, NodeInv, Order

\* Every state that can be reached is in BootInv: what is made at each place
\* of app_main, who has LVGL's lock, and in which order news is on its way.
THEOREM BootInvariance == Spec => []BootInv
BY BootInvInit, BootInvNext, PTL DEF Spec

\* Every variable keeps its type, for queues of any length.
THEOREM BootTypeCorrect == Spec => []TypeOK
<1>1. BootInv => TypeOK
  BY DEF BootInv
<1> QED
  BY <1>1, BootInvariance, PTL

\* Once the home screen is built, ui_worker_task and the task of LVGL's port
\* are never inside LVGL at once.
THEOREM LockKept == Spec => []LockedOnceBuilt
<1>1. BootInv => LockedOnceBuilt
  BY DEF BootInv, Locked, LockedOnceBuilt, LvglExclusive, InLvgl
<1> QED
  BY <1>1, BootInvariance, PTL

\* For any number of requests and of failures: a pointer that is followed
\* although it is not there is the interface for answers, before
\* user_request_response_create, the semaphore, before ota_service_init, or
\* one whose initialisation has failed in this boot.  A node whose
\* initialisations have all succeeded follows none once it is up.
THEOREM OnlyEarlyOrFailed ==
  Spec => [](EarlyOrFailed /\ (main = "up" /\ failed = {} => fault = "none"))
<1>1. BootInv => EarlyOrFailed
                 /\ (main = "up" /\ failed = {} => fault = "none")
  BY DEF BootInv, EarlyOrFailed, Excused, Answerless, Open
<1> QED
  BY <1>1, BootInvariance, PTL

\* No label of the home screen goes back to an older event, however long the
\* two queues are and however late the tasks run.
THEOREM NewsInOrder == Spec => ScreenNeverGoesBack
<1>1. ASSUME BootInv, [Next]_vars
      PROVE  [main' = "lcd"
              \/ \A l \in Labels : Rank[shown[l]] <= Rank[shown'[l]]]_vars
  <2>1. CASE Restart
    BY <2>1 DEF Restart
  <2>2. CASE DisplayStep /\ RunJob
    BY <1>1, <2>2, RunJobOrder DEF BootInv, TypeOK, Order
  <2>3. CASE shown' = shown
    <3>1. \A l \in Labels : Rank[shown[l]] \in 0..4
      BY <1>1, AgeType DEF BootInv, TypeOK, OnScreen
    <3> QED
      BY <2>3, <3>1
  <2>4. Restart \/ (DisplayStep /\ RunJob) \/ shown' = shown
    <3>1. CASE DisplayStep
      BY <3>1 DEF DisplayStep, Shows, GuiOpStep, TakeNews, ProcessJob, TakeJob,
         WorkerLocks, PortLocks, PortUnlocks
    <3>2. CASE MainStep
      <4>1. CASE LvglInit \/ LcdInit \/ Tell
        BY <4>1 DEF LvglInit, LcdInit, Tell, Display, Outcome, Trips, PortInit,
           UiWorkerInit, UiHomeInit, GuiInform, guiVars
      <4>2. CASE Quiet
        BY <4>2, QuietSteps DEF guiVars
      <4> QED
        BY <3>2, <4>1, <4>2 DEF MainStep, Quiet
    <3>3. CASE LoopStep \/ PostRequest \/ SendLog \/ WorldStep
               \/ UNCHANGED vars
      BY <3>3 DEF LoopStep, HandleGate, HandleLog, HandleOta, HandleReport,
         HandleDiscovery, TakeEvent, PostRequest, SendLog, WorldStep, Accept,
         ReportSend, WifiConnects, GateFound, Meanwhile, vars, guiVars
    <3> QED
      BY <1>1, <3>1, <3>2, <3>3 DEF Next, Abort, PanicReboot
  <2> QED
    BY <2>1, <2>2, <2>3, <2>4
<1> QED
  BY <1>1, BootInvariance, PTL DEF Spec, ScreenNeverGoesBack
=============================================================================
