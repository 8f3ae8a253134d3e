-------------------------- MODULE StartupInvariant --------------------------
(***************************************************************************)
(* The inductive invariant of Startup: what is made when main has come to  *)
(* a place, where a request can be, who holds the lock, and how old the    *)
(* news is that is still on its way to the screen.                         *)
(***************************************************************************)
EXTENDS Startup

\* Places main is at once it has tried to make something.
Handling    == Places \ {"lcd", "worker", "screen", "building", "gui", "sync",
                         "adapter", "handlers"}
Connected   == Handling \ {"booting", "wifi", "scanning", "connecting"}
Transported == Connected \ {"connected", "transport"}
Coded       == Transported \ {"started", "peers", "registry", "seeker",
                              "codec"}
Answering   == {"discovery", "waiting", "ota", "up"}

Tried(pointers) == pointers \subseteq made \cup failed

Prepared ==
  /\ main \in {"worker", "screen"} => Tried({"lvgl"})
  /\ main \in {"adapter", "handlers"} \cup Handling => Tried({"sync_manager"})
  /\ main \in Handling => Tried({"delegate_queue"})
  /\ main \in Connected => Tried({"log_capture"})
  /\ main \in Transported => Tried({"transport"})
  /\ main = "registry" => Tried({"peer_registry"})
  /\ main \in Coded => Tried({"discovery_service", "message_codec"})
  /\ main = "codec" => Tried({"discovery_service"})
  /\ main = "pools" => "http_server" \in made
  /\ main = "uris" =>
       /\ uriCount < Len(Endpoints)
       /\ {"http_server", "user_request"} \subseteq made
       /\ Tried({"bank_pools"})
  /\ main = "up" => Tried({"start_update"})

\* An endpoint is served only where main has made, or tried to make, what its
\* requests will need: all of it but the interface for answers, which comes
\* next, and the semaphore.
Serving ==
  uriCount > 0 =>
    /\ main \in Answerless \cup Answering
    /\ {"http_server", "user_request"} \subseteq made
    /\ Tried({"bank_pools"})
    /\ main \in Answering => "user_output" \in made

\* No event is posted before there is a handler.
Handled == eventQ # <<>> \/ discovery # "off" => main \in Handling

\* There is nothing to do for a client before there is an endpoint.
Asked ==
  \/ httpd # "idle" \/ radio > 0 \/ delegateQ > 0
  \/ \E i \in DOMAIN eventQ : eventQ[i] # "discovered"

NothingAsked == uriCount = 0 => ~Asked

Locked ==
  /\ lock = "worker" <=> worker = "inside"
  /\ lock = "port" <=> port = "inside"
  /\ main = "lcd" => port = "none"

\* Where news can be, and what was the last that main told.
Told ==
  IF main \notin Handling \ {"booting"} THEN 0
  ELSE IF main \in {"wifi", "scanning"} THEN 1
  ELSE IF main \in {"connecting", "connected"} THEN 2
  ELSE IF main \in {"transport", "started"} THEN 3 ELSE 4

OnScreen  == {Rank[shown[l]] : l \in Labels}
InWorker  == IF worker \in {"locking", "inside"} THEN {Rank[job.event]} ELSE {}
InJobs    == {Rank[jobQueue[i].event] : i \in DOMAIN jobQueue}
InPosting == {Rank[posting[i].event] : i \in DOMAIN posting}
InNews    == {Rank[guiQueue[i]] : i \in DOMAIN guiQueue}

NoNewer(S, T) == \A s \in S, t \in T : s <= t

\* What is nearer to the screen is no newer.
InOrder ==
  /\ NoNewer(OnScreen, InWorker)
  /\ NoNewer(OnScreen \cup InWorker, InJobs)
  /\ NoNewer(OnScreen \cup InWorker \cup InJobs, InPosting)
  /\ NoNewer(OnScreen \cup InWorker \cup InJobs \cup InPosting, InNews)
  /\ NoNewer(OnScreen \cup InWorker \cup InJobs \cup InPosting \cup InNews,
             {Told})

\* Each queue is in the order of the events; the jobs of one event are of
\* the same age.
Sorted ==
  /\ \A i, j \in DOMAIN jobQueue :
       i <= j => Rank[jobQueue[i].event] <= Rank[jobQueue[j].event]
  /\ \A i, j \in DOMAIN guiQueue :
       i <= j => Rank[guiQueue[i]] <= Rank[guiQueue[j]]
  /\ \A i, j \in DOMAIN posting : posting[i].event = posting[j].event

BootInv ==
  /\ TypeOK
  /\ EarlyOrFailed
  /\ Prepared
  /\ Serving
  /\ Handled
  /\ NothingAsked
  /\ Locked
  /\ InOrder
  /\ Sorted
=============================================================================
