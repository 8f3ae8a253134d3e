----------------------------- MODULE ReplyProofs -----------------------------
(***************************************************************************)
(* What a client reads: Replies is an invariant of RequestPath, whether or *)
(* not posts and work items are lost, so streams are in order and each     *)
(* step of the node is a step of RequestService.                           *)
(***************************************************************************)
EXTENDS RequestPathProofs, ReplyInvariant

\* The data items left after a step that takes d items from the work queue,
\* at the places they have before it.
Shifted(d) ==
  \A i \in DataItems' : /\ i + d \in DataItems
                        /\ DataSlot(i)' = DataSlot(i + d)
                        /\ Piece(i)' = Piece(i + d)

\* A step that sends no piece, queues none and takes on no request.
Passes ==
  /\ Live' \subseteq Live /\ Early' \subseteq Early
  /\ \E d \in {0, 1} : Shifted(d)
  /\ \A s \in Live' : /\ slot'[s] = slot[s]
                      /\ reply'[slot[s].req].chunks = reply[slot[s].req].chunks

-----------------------------------------------------------------------------
(***************************************************************************)
(* What the parts of Replies depend on.                                    *)
(***************************************************************************)

\* Early slots and those of queued data are live.
LEMMA EarlyAreLive ==
  /\ Early \subseteq Live
  /\ \A i \in DataItems : DataSlot(i) \in DataSlots /\ DataSlot(i) \in Live
  /\ delegate.slot # None => delegate.slot \in Live
BY HeldIs DEF Early, Live, Open, DataSlots

\* They are so after the step.
LEMMA EarlyAreLiveNext ==
  /\ Early' \subseteq Live'
  /\ \A i \in DataItems' : DataSlot(i)' \in DataSlots' /\ DataSlot(i)' \in Live'
  /\ delegate'.slot # None => delegate'.slot \in Live'
BY HeldIsNext DEF Early, Live, Open, DataSlots

\* The places of the data items are numbers.
LEMMA PlacesAreNats ==
  ASSUME TypeOK PROVE \A i \in DataItems : i \in Nat \ {0} /\ i \in DOMAIN work
BY DEF TypeOK, ServerTypeOK, DataItems

\* They are so after the step.
LEMMA PlacesAreNatsNext ==
  ASSUME IInv' PROVE \A i \in DataItems' : i \in Nat \ {0}
BY DEF IInv, TypeOK, ServerTypeOK, DataItems

\* A step that passes things on keeps what Replies says of slots and pieces.
LEMMA PassesKeeps ==
  ASSUME IInv, IInv', Replies, Passes
  PROVE  Started' /\ Unsent' /\ QueuedInOrder'
<1>1. \A s \in Live' : Sent(s)' = Sent(s) /\ slot'[s].started = slot[s].started
  BY DEF Passes, Sent
<1>2. Started'
  BY <1>1 DEF Passes, Replies, Started
<1>3. Unsent'
  BY <1>1, EarlyAreLiveNext DEF Passes, Replies, Unsent
<1>4. QueuedInOrder'
  <2>1. PICK d \in {0, 1} : Shifted(d)
    BY DEF Passes
  <2>2. \A i \in DataItems' : i \in Nat
    BY PlacesAreNatsNext
  <2>3. ASSUME NEW i \in DataItems'
        PROVE  /\ Piece(i)' \in 1..MaxLog
               /\ \A m \in DOMAIN Sent(DataSlot(i))' :
                    Sent(DataSlot(i))'[m] < Piece(i)'
    <3>1. /\ i + d \in DataItems
          /\ DataSlot(i)' = DataSlot(i + d)
          /\ Piece(i)' = Piece(i + d)
          /\ Sent(DataSlot(i))' = Sent(DataSlot(i + d))
      BY <1>1, <2>1, EarlyAreLiveNext DEF Shifted, Sent
    <3> QED BY <3>1 DEF Replies, QueuedInOrder
  <2>4. ASSUME NEW i \in DataItems', NEW j \in DataItems', i < j,
               DataSlot(i)' = DataSlot(j)'
        PROVE  Piece(i)' < Piece(j)'
    <3>1. i + d < j + d
      BY <2>2, <2>4
    <3> QED BY <2>1, <2>4, <3>1 DEF Shifted, Replies, QueuedInOrder
  <2> QED BY <2>3, <2>4 DEF QueuedInOrder
<1> QED BY <1>2, <1>3, <1>4

\* It keeps what Replies says of the delegate task, unless that starts on
\* another log or goes back.
LEMMA PassesReads ==
  ASSUME IInv, IInv', Replies, Passes,
         delegate'.slot = delegate.slot \/ delegate'.slot = None,
         delegate'.n <= MaxLog,
         chunkCall'.at # "idle" => chunkCall'.n = delegate'.n /\ delegate'.n # 0,
         delegate'.slot # None => Upto <= Upto'
  PROVE  ReadInOrder'
<1> SUFFICES ASSUME delegate'.slot # None
             PROVE  /\ \A i \in DataItems' : DataSlot(i)' = delegate'.slot
                                               => Piece(i)' < Upto'
                    /\ \A m \in DOMAIN Sent(delegate.slot)' :
                         Sent(delegate.slot)'[m] < Upto'
  BY DEF ReadInOrder
<1> DEFINE t == delegate.slot
<1>1. delegate'.slot = t /\ t # None /\ t \in Live' /\ t \in Live
  BY EarlyAreLiveNext, EarlyAreLive
<1>2. Upto \in Int /\ Upto' \in Int /\ Upto <= Upto'
  BY DEF IInv, TypeOK, TaskTypeOK, Upto
<1>3. /\ \A i \in DataItems : DataSlot(i) = t => Piece(i) < Upto
      /\ \A m \in DOMAIN Sent(t) : Sent(t)[m] < Upto
  BY <1>1 DEF Replies, ReadInOrder
<1>4. Sent(t) \in Seq(Nat) /\ Sent(t)' = Sent(t) /\ Sent(delegate.slot)' = Sent(t)
  BY <1>1 DEF Passes, Sent, IInv, Waiting, TypeOK, ServerTypeOK
<1>5. PICK d \in {0, 1} : Shifted(d)
  BY DEF Passes
<1>6. \A i \in DataItems : Piece(i) \in Int
  BY DEF Replies, QueuedInOrder
<1> QED BY <1>1, <1>2, <1>3, <1>4, <1>5, <1>6 DEF Shifted

-----------------------------------------------------------------------------
(***************************************************************************)
(* The steps that pass things on.                                          *)
(***************************************************************************)

\* A step that leaves the work queue and what its items carry alone.
LEMMA PassesStill ==
  ASSUME IInv, UNCHANGED <<slot, work, jobData, chunkData>>,
         Open' \subseteq Live, Early' \subseteq Early,
         \A s \in Live : reply'[slot[s].req].chunks = reply[slot[s].req].chunks
  PROVE  Passes
<1>1. DataItems' = DataItems /\ DataSlots' = DataSlots
      /\ \A i \in DataItems : DataSlot(i)' = DataSlot(i)
                            /\ DataChunk(i)' = DataChunk(i)
  BY FrameData
<1>2. Live' \subseteq Live
  BY <1>1 DEF Live
<1>3. Shifted(0)
  BY <1>1, PlacesAreNats DEF Shifted, Piece, IInv
<1> QED BY <1>2, <1>3 DEF Passes

\* A step that touches no request, no pool and no work item.
LEMMA PassesSlots ==
  ASSUME IInv, UNCHANGED <<reply, slot, work, jobData, chunkData>>,
         Open' \subseteq Live, Early' \subseteq Early
  PROVE  Passes
BY PassesStill

\* The end of a reply adds no piece to any.
LEMMA EndKeepsChunks ==
  ASSUME TypeOK, NEW k, NEW v, EndReply(k, v)
  PROVE  \A l \in Sockets : reply'[l].chunks = reply[l].chunks
BY DEF TypeOK, ServerTypeOK, EndReply

\* The requests of live slots belong to sockets that wait.
LEMMA LiveWait ==
  ASSUME IInv
  PROVE  \A s \in Live : /\ s \in Slots
                        /\ slot[s].req \in Sockets
                        /\ session[slot[s].req] = "async"
BY LiveAreSlots DEF IInv, Waiting

\* Ask, NotFound and the steps that touch only the pools' marks and panicked.
LEMMA ElsewherePasses ==
  ASSUME IInv, UNCHANGED <<holdVars, slot, jobData, chunkData>>,
         \A k \in Sockets : session[k] = "async" =>
           reply'[k].chunks = reply[k].chunks
  PROVE  Passes
<1>1. Open' = Open /\ \A h \in Holders : Held(h)' = Held(h)
  BY FrameHeld
<1>2. Early' = Early
  BY <1>1 DEF Early, holdVars, Holders
<1> QED BY <1>1, <1>2, LiveWait, PassesStill DEF Live, holdVars

\* The httpd task in an endpoint callback.
LEMMA CallbackPasses ==
  ASSUME IInv, PostRequest \/ PostFails \/ Refuse \/ Release
  PROVE  Passes
<1>1. /\ UNCHANGED <<slot, work, jobData, chunkData, loop, radio, delegateQ,
                     delegate>>
      /\ \A l \in Sockets : reply'[l].chunks = reply[l].chunks
  BY EndKeepsChunks DEF PostRequest, PostFails, Refuse, Release, clientVars,
     poolVars, taskVars, Respond, FreeSlot, IInv
<1>2. /\ Held("loop")' = Held("loop") /\ Held("radio")' = Held("radio")
      /\ Held("delegateQ")' = Held("delegateQ")
      /\ Held("delegate")' = Held("delegate") /\ Held("close")' = Held("close")
  BY <1>1, HeldIs, HeldIsNext DEF WorkSlots
<1>3. /\ httpd'.at \in {"post", "refuse"} => httpd.at \in {"post", "refuse"}
                                            /\ httpd'.slot = httpd.slot
      /\ \/ Held("event")' = Held("event")
         \/ Held("event")' = Held("event") \cup {httpd.slot}
            /\ httpd.at \in {"post", "refuse"}
  <2>1. CASE PostRequest
    <3> DEFINE e == Event(EventOf(asked[slot[httpd.slot].req]), httpd.slot, TRUE)
    <3>1. httpd.at = "post" /\ httpd.slot # None /\ httpd.slot \in Slots
          /\ eventQ' = Append(eventQ, e) /\ httpd' = IdleTask
      BY <2>1 DEF PostRequest, IInv, Shape, TypeOK, ServerTypeOK
    <3>2. AskedOf(httpd.slot) \in Endpoints
      BY <3>1 DEF IInv, Routing, Live, Open
    <3>3. e \in EventRecord /\ e.ctx = httpd.slot
      BY <3>1, <3>2 DEF Event, EventRecord, EventOf, EventIds, ContextIds,
         RequestIds, GateEvents, Endpoints, GateEndpoints, AskedOf
    <3>4. httpd.slot \notin Held("event")
      BY <3>1, HeldIs DEF IInv, SlotOwnership, HeldApart, Holders
    <3> HIDE DEF e
    <3>5. Held("event")' = Held("event") \cup {httpd.slot}
      BY <3>1, <3>3, <3>4, EventAppend DEF IInv, SlotOwnership
    <3> QED BY <3>1, <3>5 DEF IdleTask
  <2>2. CASE ~PostRequest
    <3>1. eventQ' = eventQ
      BY <2>2 DEF PostFails, Refuse, Release, taskVars
    <3>2. Held("event")' = Held("event")
      BY <3>1, HeldIs, HeldIsNext
    <3>3. \/ httpd.at = "post" /\ httpd'.at = "refuse"
             /\ httpd'.slot = httpd.slot
          \/ httpd'.at = "release" \/ httpd'.at = "idle"
      BY <2>2 DEF PostFails, Refuse, Release, IdleTask, IInv, TypeOK,
         ServerTypeOK
    <3> QED BY <3>2, <3>3
  <2> QED BY <2>1, <2>2
<1>4. Open' \subseteq Open
  BY <1>1, <1>2, <1>3 DEF Open
<1>5. Early' \subseteq Early
  BY <1>1, <1>2, <1>3 DEF Early
<1> QED BY <1>1, <1>4, <1>5, LiveWait, PassesStill DEF Live

\* The event loop task, but for a restart.
LEMMA LoopPasses ==
  ASSUME IInv, NEW id, SendCommand(id) \/ CommandRefused(id) \/ HandleLog
               \/ HandleOta \/ HandleSendStatus,
         id \in GateEvents
  PROVE  Passes
<1> DEFINE e == Head(eventQ)
<1>1. /\ UNCHANGED <<reply, slot, work, jobData, chunkData, httpd, delegateQ,
                     delegate>>
      /\ eventQ # <<>> /\ eventQ' = Tail(eventQ) /\ loop.at = "idle"
      /\ e.id # "REBOOT_REQUIRED"
  BY DEF SendCommand, CommandRefused, HandleLog, HandleOta, HandleSendStatus,
     TakeEvent, serverVars, clientVars, poolVars, GateEvents
<1>2. /\ Held("event")' = Held("event") \ {e.ctx}
      /\ e.ctx \in Held("event")
  <2>1. e \in Range(eventQ)
    BY <1>1, EventTail DEF IInv, SlotOwnership, Range
  <2>2. e.ctx # None
    BY <1>1, <2>1 DEF IInv, Shape
  <2> QED BY <1>1, <2>2, EventTail DEF IInv, SlotOwnership
<1>3. /\ Held("delegateQ")' = Held("delegateQ")
      /\ Held("delegate")' = Held("delegate") /\ Held("close")' = Held("close")
  BY <1>1, HeldIs, HeldIsNext DEF WorkSlots
<1>4. /\ Held("radio")' \subseteq Held("radio") \cup {e.ctx}
      /\ loop'.at \in {"delegate", "answer"} => loop'.slot = e.ctx
  <2>1. CASE SendCommand(id)
    <3>1. loop' = loop /\ radio' = radio \cup {[command |-> CommandOf(id),
                                               ctx |-> e.ctx]}
      BY <2>1 DEF SendCommand
    <3> QED BY <1>1, <3>1, HeldIs, HeldIsNext
  <2>2. CASE ~SendCommand(id)
    <3>1. radio' = radio
      BY <2>2 DEF CommandRefused, HandleLog, HandleOta, HandleSendStatus
    <3>2. loop'.slot = e.ctx
      <4>1. CASE HandleLog
        BY <4>1 DEF HandleLog, IdleLoop
      <4>2. CASE CommandRefused(id) \/ HandleOta \/ HandleSendStatus
        BY <4>2 DEF CommandRefused, HandleOta, HandleSendStatus
      <4> QED BY <2>2, <4>1, <4>2
    <3> QED BY <3>1, <3>2, HeldIs, HeldIsNext
  <2> QED BY <2>1, <2>2
<1> HIDE DEF e
<1>5. Open' \subseteq Open
  BY <1>1, <1>2, <1>3, <1>4 DEF Open
<1>6. Early' \subseteq Early
  BY <1>1, <1>2, <1>3, <1>4 DEF Early
<1> QED BY <1>1, <1>5, <1>6, PassesSlots DEF Live

\* The slot of a log request goes into the delegate queue.
LEMMA DelegatePostPasses == ASSUME IInv, DelegatePost PROVE Passes
<1>1. /\ UNCHANGED <<reply, slot, work, jobData, chunkData, httpd, eventQ,
                     radio, delegate>>
      /\ loop.at = "delegate" /\ loop' = IdleLoop
      /\ delegateQ' = Append(delegateQ, loop.slot)
  BY DEF DelegatePost, serverVars, clientVars, poolVars
<1>2. loop.slot \in Slots /\ loop.slot \notin Held("delegateQ")
  BY <1>1, HeldIs DEF IInv, Shape, TypeOK, TaskTypeOK, SlotOwnership, HeldApart,
                      Holders
<1>3. Held("delegateQ")' = Held("delegateQ") \cup {loop.slot}
  BY <1>1, <1>2, DelegateAppend DEF IInv, SlotOwnership
<1>4. /\ Held("event")' = Held("event") /\ Held("radio")' = Held("radio")
      /\ Held("delegate")' = Held("delegate") /\ Held("close")' = Held("close")
      /\ loop'.at = "idle"
  BY <1>1, HeldIs, HeldIsNext DEF WorkSlots, IdleLoop
<1>5. Open' \subseteq Open
  BY <1>1, <1>3, <1>4 DEF Open
<1>6. Early' \subseteq Early
  BY <1>1, <1>3, <1>4 DEF Early
<1> QED BY <1>1, <1>5, <1>6, PassesSlots DEF Live

\* An answer to the client, and the release of its slot.
LEMMA InformPasses == ASSUME IInv, Inform \/ InformRelease PROVE Passes
<1>1. /\ UNCHANGED <<slot, work, jobData, chunkData, httpd, eventQ, radio,
                     delegateQ, delegate>>
      /\ \A l \in Sockets : reply'[l].chunks = reply[l].chunks
      /\ loop'.at \in {"release", "idle"}
  BY EndKeepsChunks DEF Inform, InformRelease, clientVars, poolVars, Respond,
     FreeSlot, IInv, TypeOK, TaskTypeOK, IdleLoop
<1>2. /\ Held("event")' = Held("event") /\ Held("radio")' = Held("radio")
      /\ Held("delegateQ")' = Held("delegateQ")
      /\ Held("delegate")' = Held("delegate") /\ Held("close")' = Held("close")
  BY <1>1, HeldIs, HeldIsNext DEF WorkSlots
<1>3. Open' \subseteq Open
  BY <1>1, <1>2 DEF Open
<1>4. Early' \subseteq Early
  BY <1>1, <1>2 DEF Early
<1> QED BY <1>1, <1>3, <1>4, LiveWait, PassesStill DEF Live

\* The report on a command, posted or lost, and the end of an update.
LEMMA ReportPasses ==
  ASSUME IInv, NEW cmd \in radio, NEW ok \in BOOLEAN,
         ReportSend(cmd, ok) \/ LoseReport(cmd)
  PROVE  Passes
<1>1. /\ UNCHANGED <<reply, slot, work, jobData, chunkData, httpd, loop,
                     delegateQ, delegate>>
      /\ radio' = radio \ {cmd}
  BY DEF ReportSend, LoseReport, serverVars, clientVars, poolVars
<1>2. /\ Held("delegateQ")' = Held("delegateQ")
      /\ Held("delegate")' = Held("delegate") /\ Held("close")' = Held("close")
      /\ Held("radio")' \subseteq Held("radio") /\ cmd.ctx \in Held("radio")
  BY <1>1, HeldIs, HeldIsNext DEF WorkSlots
<1>3. Held("event")' \subseteq Held("event") \cup {cmd.ctx}
  <2>1. CASE ReportSend(cmd, ok)
    <3> DEFINE e == Event("SEND_STATUS", cmd.ctx, ok)
    <3>1. e \in EventRecord /\ e.ctx = cmd.ctx
      BY DEF Event, EventRecord, EventIds, ContextIds, IInv, TypeOK, TaskTypeOK
    <3>2. eventQ' = Append(eventQ, e)
      BY <2>1 DEF ReportSend
    <3>3. e.ctx \notin Held("event")
      BY <1>2, <3>1 DEF IInv, SlotOwnership, HeldApart, Holders
    <3> HIDE DEF e
    <3> QED BY <3>1, <3>2, <3>3, EventAppend DEF IInv, SlotOwnership
  <2>2. CASE LoseReport(cmd)
    BY <2>2, HeldIs, HeldIsNext DEF LoseReport
  <2> QED BY <2>1, <2>2
<1>4. Open' \subseteq Open
  BY <1>1, <1>2, <1>3 DEF Open
<1>5. Early' \subseteq Early
  BY <1>1, <1>2, <1>3 DEF Early
<1> QED BY <1>1, <1>4, <1>5, PassesSlots DEF Live

\* The request for a restart is no client's.
LEMMA OtaPasses == ASSUME IInv, OtaStep PROVE Passes
<1>1. /\ UNCHANGED <<reply, slot, work, jobData, chunkData, httpd, loop, radio,
                     delegateQ, delegate>>
      /\ \/ eventQ' = eventQ
         \/ eventQ' = Append(eventQ, Event("REBOOT_REQUIRED", None, TRUE))
  BY DEF OtaStep, UpdateStarts, UpdateEnds, serverVars, clientVars, poolVars
<1>2. /\ Held("delegateQ")' = Held("delegateQ")
      /\ Held("delegate")' = Held("delegate") /\ Held("close")' = Held("close")
      /\ Held("radio")' = Held("radio")
  BY <1>1, HeldIs, HeldIsNext DEF WorkSlots
<1>3. Held("event")' = Held("event")
  <2> DEFINE e == Event("REBOOT_REQUIRED", None, TRUE)
  <2>1. e \in EventRecord /\ e.ctx = None
    BY DEF Event, EventRecord, EventIds
  <2>2. e.ctx \notin Held("event")
    BY <2>1, HeldIs
  <2> HIDE DEF e
  <2>3. eventQ' = eventQ \/ eventQ' = Append(eventQ, e)
    BY <1>1 DEF e
  <2> QED BY <2>1, <2>2, <2>3, EventAppend, HeldIs, HeldIsNext
          DEF IInv, SlotOwnership
<1>4. Open' \subseteq Open
  BY <1>1, <1>2, <1>3 DEF Open
<1>5. Early' \subseteq Early
  BY <1>1, <1>2, <1>3 DEF Early
<1> QED BY <1>1, <1>4, <1>5, PassesSlots DEF Live

-----------------------------------------------------------------------------
(***************************************************************************)
(* The delegate task and the work items, but for data.                     *)
(***************************************************************************)
\* A step that takes d items from the work queue and queues no data.
LEMMA PassesWork ==
  ASSUME IInv, UNCHANGED <<slot, chunkData>>,
         Open' \subseteq Open, Early' \subseteq Early,
         \A l \in Sockets : reply'[l].chunks = reply[l].chunks,
         NEW d \in {0, 1},
         \A i \in DataItems' : /\ i + d \in DataItems
                               /\ DataSlot(i)' = DataSlot(i + d)
                               /\ DataChunk(i)' = DataChunk(i + d)
  PROVE  Passes
<1>1. DataSlots' \subseteq DataSlots
  <2> SUFFICES ASSUME NEW i \in DataItems' PROVE DataSlot(i)' \in DataSlots
    BY DEF DataSlots
  <2> QED BY DEF DataSlots
<1>2. Live' \subseteq Live
  BY <1>1 DEF Live
<1>3. Shifted(d)
  BY DEF Shifted, Piece
<1> QED BY <1>2, <1>3, LiveWait DEF Passes

\* The other places than those of work items.
LEMMA OpenParts ==
  ASSUME UNCHANGED <<eventQ, loop, radio, delegateQ>>,
         Held("delegate")' \cup Held("close")'
           \subseteq Held("delegate") \cup Held("close"),
         httpd' = httpd \/ httpd'.at \notin {"post", "refuse"}
  PROVE  Open' \subseteq Open /\ Early' \subseteq Early
<1>1. /\ Held("event")' = Held("event") /\ Held("loop")' = Held("loop")
      /\ Held("radio")' = Held("radio")
      /\ Held("delegateQ")' = Held("delegateQ")
  BY HeldIs, HeldIsNext
<1>2. Open' \subseteq Open
  BY <1>1 DEF Open
<1>3. Early' \subseteq Early
  BY <1>1 DEF Early
<1> QED BY <1>2, <1>3

\* The httpd task gives a job back.
LEMMA EndDataPasses ==
  ASSUME IInv, EndData, UNCHANGED taskVars PROVE Passes
<1>1. /\ UNCHANGED <<slot, chunkData, reply, work, eventQ, loop, radio,
                     delegateQ, delegate>>
      /\ httpd.at = "freeJob" /\ httpd' = IdleTask
      /\ jobData' = [jobData EXCEPT ![httpd.job] = [slot |-> None, chunk |-> None]]
  BY DEF EndData, FreeJob, clientVars, taskVars
<1>2. \A i \in DataItems : work[i].arg # httpd.job /\ work[i].arg \in Jobs
  BY ItemsAreJobs, PoolOwnershipIs DEF IInv, Jobbing, Pooled
<1>3. DataItems' = DataItems
  BY <1>1 DEF DataItems
<1>4. \A i \in DataItems' : /\ i + 0 \in DataItems
                            /\ DataSlot(i)' = DataSlot(i + 0)
                            /\ DataChunk(i)' = DataChunk(i + 0)
  <2> SUFFICES ASSUME NEW i \in DataItems
               PROVE  /\ i + 0 = i
                      /\ DataSlot(i)' = DataSlot(i) /\ DataChunk(i)' = DataChunk(i)
    BY <1>3
  <2>1. jobData'[work'[i].arg] = jobData[work[i].arg]
    BY <1>1, <1>2 DEF IInv, TypeOK, ServerTypeOK
  <2>2. i \in Nat
    BY PlacesAreNats DEF IInv
  <2> QED BY <2>1, <2>2 DEF DataSlot, DataChunk
<1>5. Open' \subseteq Open /\ Early' \subseteq Early
  <2>1. Held("delegate")' = Held("delegate") /\ Held("close")' = Held("close")
    BY <1>1, HeldIs, HeldIsNext DEF WorkSlots
  <2>2. httpd'.at = "idle"
    BY <1>1 DEF IdleTask
  <2> QED BY <1>1, <2>1, <2>2, OpenParts
<1> QED BY <1>1, <1>4, <1>5, PassesWork

\* The delegate task takes on a log, and reads a piece of it.
LEMMA DelegatePasses ==
  ASSUME IInv, DelegateTake \/ ReadPiece PROVE Passes
<1>1. /\ UNCHANGED <<slot, chunkData, reply, work, jobData, eventQ, loop, radio,
                     httpd>>
  BY DEF DelegateTake, ReadPiece, serverVars, clientVars, poolVars
<1>2. /\ Held("delegateQ")' \subseteq Held("delegateQ")
      /\ Held("delegate")' \subseteq Held("delegate") \cup Held("delegateQ")
  <2>1. CASE DelegateTake
    <3>1. /\ delegateQ # <<>> /\ delegateQ' = Tail(delegateQ)
          /\ delegate'.slot = Head(delegateQ)
      BY <2>1 DEF DelegateTake
    <3> QED BY <3>1, DelegateTail, HeldIsNext DEF IInv, SlotOwnership
  <2>2. CASE ReadPiece
    <3>1. delegateQ' = delegateQ /\ delegate'.slot = delegate.slot
      BY <2>2 DEF ReadPiece, IInv, TypeOK, TaskTypeOK
    <3> QED BY <3>1, HeldIs, HeldIsNext
  <2> QED BY <2>1, <2>2
<1>3. /\ Held("event")' = Held("event") /\ Held("radio")' = Held("radio")
      /\ Held("close")' = Held("close")
  BY <1>1, HeldIs, HeldIsNext DEF WorkSlots
<1>4. Open' \subseteq Open
  BY <1>1, <1>2, <1>3 DEF Open
<1>5. Early' \subseteq Early
  BY <1>1, <1>2, <1>3 DEF Early
<1> QED BY <1>1, <1>4, <1>5, PassesSlots DEF Live

\* An item that is not data is queued: the close of a log's request, or the
\* release of a slot.
LEMMA QueueingPasses ==
  ASSUME IInv, EndOfLog \/ (QueueFinalize /\ UNCHANGED taskVars) PROVE Passes
<1> DEFINE fn == IF EndOfLog THEN "close" ELSE "finalize"
           s == IF EndOfLog THEN delegate.slot ELSE httpd.slot
           w == [fn |-> fn, arg |-> s]
<1>1. /\ UNCHANGED <<slot, chunkData, reply, jobData, eventQ, loop, radio,
                     delegateQ>>
      /\ QueueWork(w)
      /\ httpd' = httpd \/ httpd'.at = "idle"
  BY DEF EndOfLog, QueueFinalize, QueueClose, CloseWork, clientVars, poolVars,
         taskVars, IdleTask
<1>2. /\ s # None /\ s \in Slots
      /\ s \in Held(IF EndOfLog THEN "delegate" ELSE "httpd")
  BY HeldIs DEF EndOfLog, QueueFinalize, IInv, Shape, TypeOK, ServerTypeOK,
                TaskTypeOK
<1>3. s \notin WorkSlots(fn) /\ w \in WorkItem /\ w.fn = fn /\ w.arg = s
      /\ fn # "data"
  BY <1>2, HeldIs DEF IInv, SlotOwnership, HeldApart, Holders, WorkItem
<1>4. \A i \in DataItems' : /\ i + 0 \in DataItems
                            /\ DataSlot(i)' = DataSlot(i + 0)
                            /\ DataChunk(i)' = DataChunk(i + 0)
  <2> HIDE DEF w, fn, s
  <2> QED BY <1>1, <1>3, QueuedOther, PlacesAreNats DEF IInv, SlotOwnership
<1>5. Held("delegate")' \cup Held("close")'
           \subseteq Held("delegate") \cup Held("close")
  <2>1. Held("close")' \subseteq Held("close") \cup
          (IF fn = "close" THEN {s} ELSE {})
    <3> HIDE DEF w, fn, s
    <3> QED BY <1>1, <1>3, WorkQueued DEF IInv, SlotOwnership
  <2>2. delegate'.slot \in {delegate.slot, None}
    BY DEF EndOfLog, QueueFinalize, IdleDelegate, taskVars
  <2> QED BY <1>2, <2>1, <2>2, HeldIs, HeldIsNext
<1>6. Open' \subseteq Open /\ Early' \subseteq Early
  BY <1>1, <1>5, OpenParts
<1> HIDE DEF w, fn, s
<1> QED BY <1>1, <1>4, <1>6, PassesWork

\* Work items other than data.
LEMMA WorkPasses ==
  ASSUME IInv, RunClose \/ RunSessClose \/ RunFinalize, UNCHANGED taskVars
  PROVE  Passes
<1>1. /\ UNCHANGED <<slot, chunkData, jobData, eventQ, loop, radio, delegateQ,
                     delegate>>
      /\ \A l \in Sockets : reply'[l].chunks = reply[l].chunks
      /\ work # <<>>
      /\ httpd' = httpd \/ httpd'.at = "queueFinalize"
  BY EndKeepsChunks DEF RunClose, RunSessClose, RunFinalize, TakeWork,
     clientVars, poolVars, taskVars, FreeSlot, IdleTask, IInv
<1> DEFINE q == Tail(work)
<1>2. /\ q \in Seq(WorkItem)
      /\ \A i \in DOMAIN q : i + 1 \in DOMAIN work /\ q[i] = work[i + 1]
      /\ Range(q) \subseteq Range(work) /\ Head(work) \in Range(work)
  BY <1>1, TailElements, TailRange DEF IInv, TypeOK, ServerTypeOK
<1>3. /\ work' \in Seq(WorkItem)
      /\ \A w \in Range(work') : w \in Range(work) \/ w.fn = "sessClose"
      /\ \A i \in DOMAIN work' : \/ i + 1 \in DOMAIN work
                                    /\ work'[i] = work[i + 1]
                                 \/ work'[i].fn = "sessClose"
  <2>1. CASE work' = q
    <3> HIDE DEF q
    <3> QED BY <1>2, <2>1
  <2>2. CASE work' # q
    <3> DEFINE s == Head(work).arg
               w == [fn |-> "sessClose", arg |-> slot[s].req]
    <3>1. RunClose /\ work' = Append(q, w) /\ Head(work).fn = "close"
      BY <2>2 DEF RunClose, RunSessClose, RunFinalize, TakeWork
    <3>2. s \in Live
      <4>1. s \in WorkSlots("close")
        <5> HIDE DEF q
        <5> QED BY <1>2, <3>1 DEF WorkSlots
      <4> QED BY <4>1, HeldIs DEF Live, Open
    <3>3. w \in WorkItem /\ w.fn = "sessClose"
      BY <3>2, LiveWait DEF WorkItem
    <3> HIDE DEF w, q
    <3>4. /\ work' \in Seq(WorkItem)
          /\ Range(work') = Range(q) \cup {w}
          /\ \A i \in DOMAIN q : work'[i] = q[i]
      BY <1>2, <3>1, <3>3, AppendElements, AppendRange
    <3>5. ASSUME NEW i \in DOMAIN work', i \notin DOMAIN q
          PROVE  work'[i] = w
      BY <1>2, <3>1, <3>3, <3>5, AppendElements
    <3> QED BY <1>2, <3>3, <3>4, <3>5
  <2> QED BY <2>1, <2>2
<1>4. \A i \in DataItems' : /\ i + 1 \in DataItems
                            /\ DataSlot(i)' = DataSlot(i + 1)
                            /\ DataChunk(i)' = DataChunk(i + 1)
  BY <1>1, <1>3, DataShift
<1>5. Held("close")' \subseteq Held("close")
                     /\ Held("delegate")' = Held("delegate")
  BY <1>1, <1>3, HeldIs, HeldIsNext DEF WorkSlots
<1>6. Open' \subseteq Open /\ Early' \subseteq Early
  BY <1>1, <1>5, OpenParts
<1> QED BY <1>1, <1>4, <1>6, PassesWork

\* The steps that take on a request, send a piece or queue one, and restarts.
Accepts(k) == AcceptRequest(k) /\ UNCHANGED taskVars
SendsData  == RunData /\ UNCHANGED taskVars
QueuesData == QueueData /\ UNCHANGED taskVars

\* All other steps only pass things on.
LEMMA StepPasses ==
  ASSUME IInv, [Next]_vars
  PROVE  \/ Passes
         \/ \E k \in Sockets : Accepts(k)
         \/ SendsData \/ QueuesData \/ Restart
<1>1. CASE ClientStep
  <2>1. PICK k \in Sockets, target \in Requested :
          Ask(k, target) /\ UNCHANGED taskVars
    BY <1>1 DEF ClientStep
  <2>2. /\ session[k] = "idle" /\ reply' = [reply EXCEPT ![k] = NoReply]
        /\ UNCHANGED <<holdVars, slot, jobData, chunkData>>
    BY <2>1 DEF Ask, poolVars, taskVars, holdVars
  <2>3. \A l \in Sockets : session[l] = "async" =>
           reply'[l].chunks = reply[l].chunks
    BY <2>2 DEF IInv, TypeOK, ServerTypeOK
  <2> QED BY <2>2, <2>3, ElsewherePasses
<1>2. ASSUME NEW k \in Sockets, HandleSession(k), ~Accepts(k) PROVE Passes
  <2>1. /\ UNCHANGED <<holdVars, slot, jobData, chunkData>>
        /\ \A l \in Sockets : reply'[l].chunks = reply[l].chunks
    BY <1>2, EndKeepsChunks
       DEF HandleSession, Accepts, SlotsExhausted, NotFound, clientVars,
           poolVars, taskVars, holdVars, IInv
  <2> QED BY <2>1, ElsewherePasses
<1>3. CASE HandleWork
  BY <1>3, WorkPasses DEF HandleWork, RunWork, SendsData
<1>4. CASE HttpdContinues
  BY <1>4, EndDataPasses, QueueingPasses, CallbackPasses DEF HttpdContinues
<1>5. CASE LoopStep
  <2>1. "GATE_OPEN" \in GateEvents
    BY DEF GateEvents
  <2> QED
    BY <1>5, <2>1, LoopPasses, DelegatePostPasses, InformPasses
       DEF LoopStep, HandleRebootRequired
<1>6. CASE RadioStep
  BY <1>6, ReportPasses DEF RadioStep, RadioReports
<1>7. CASE DelegateStep
  <2>1. ASSUME AllocChunk \/ AllocJob \/ DropData, UNCHANGED taskVars
        PROVE  Passes
    <3>1. UNCHANGED <<holdVars, slot, jobData, chunkData, reply>>
      BY <2>1 DEF AllocChunk, AllocJob, DropData, clientVars, taskVars, holdVars
    <3> QED BY <3>1, ElsewherePasses
  <2> QED
    BY <1>7, <2>1, DelegatePasses, QueueingPasses DEF DelegateStep, QueuesData
<1>8. CASE OtaStep
  BY <1>8, OtaPasses
<1>9. CASE PanicReboot
  BY <1>9 DEF PanicReboot
<1>10. CASE UNCHANGED vars
  <2>1. UNCHANGED <<holdVars, slot, jobData, chunkData, reply>>
    BY <1>10 DEF vars, serverVars, clientVars, poolVars, taskVars, holdVars
  <2> QED BY <2>1, ElsewherePasses
<1> QED
  BY <1>1, <1>2, <1>3, <1>4, <1>5, <1>6, <1>7, <1>8, <1>9, <1>10 DEF Next

-----------------------------------------------------------------------------
(***************************************************************************)
(* The steps that do more.                                                 *)
(***************************************************************************)
\* A request is taken on: nothing was sent for it.
LEMMA AcceptStreams ==
  ASSUME IInv, IInv', Replies, NEW k \in Sockets, Accepts(k)
  PROVE  Started' /\ Unsent' /\ QueuedInOrder' /\ ReadInOrder'
<1>1. PICK s \in Slots \ usedSlots :
        /\ slot' = [slot EXCEPT ![s] = [req |-> k, started |-> FALSE]]
        /\ httpd' = [at |-> "post", slot |-> s, job |-> None]
  <2>1. PICK s \in Slots \ usedSlots :
          /\ InitSlot(s, k)
          /\ httpd' = [IdleTask EXCEPT !.at = "post", !.slot = s]
    BY DEF Accepts, AcceptRequest
  <2> QED BY <2>1 DEF InitSlot, IdleTask
<1>2. /\ session[k] = "request"
      /\ UNCHANGED <<reply, chunkData, jobData, work, chunkCall>>
      /\ UNCHANGED <<eventQ, loop, radio, delegateQ, delegate>>
  BY DEF Accepts, AcceptRequest, taskVars
<1>3. /\ reply[k].chunks = <<>> /\ slot'[s].req = k /\ ~slot'[s].started
      /\ \A t \in Slots \ {s} : slot'[t] = slot[t]
  BY <1>1, <1>2 DEF IInv, TypeOK, ServerTypeOK, Replies, RepliesWhole, Whole
<1>4. Sent(s)' = <<>>
  BY <1>2, <1>3 DEF Sent
<1>5. \A t \in Live : t # s /\ slot'[t] = slot[t] /\ Sent(t)' = Sent(t)
  BY <1>2, <1>3, LiveAreSlots DEF Sent
<1>6. DataItems' = DataItems /\ DataSlots' = DataSlots
      /\ \A i \in DataItems : /\ DataSlot(i)' = DataSlot(i)
                              /\ DataChunk(i)' = DataChunk(i)
                              /\ Piece(i)' = Piece(i)
  BY <1>2, FrameData DEF Piece
<1>7. /\ \A h \in Holders \ {"httpd"} : Held(h)' = Held(h)
  BY <1>2, HeldIs, HeldIsNext DEF Holders, WorkSlots
<1>8. Live' \subseteq Live \cup {s}
  BY <1>1, <1>2, <1>6, <1>7 DEF Live, Open, Holders
<1>9. Early' \subseteq Early \cup {s}
  BY <1>1, <1>2, <1>7 DEF Early, Holders
<1>10. Started'
  BY <1>3, <1>4, <1>5, <1>8 DEF Replies, Started
<1>11. Unsent'
  BY <1>4, <1>5, <1>9, EarlyAreLive DEF Replies, Unsent
<1>12. \A i \in DataItems : Sent(DataSlot(i))' = Sent(DataSlot(i))
  BY <1>5, <1>6, EarlyAreLive DEF Sent
<1>13. QueuedInOrder'
  BY <1>6, <1>12 DEF Replies, QueuedInOrder
<1>14. ReadInOrder'
  <2>1. delegate.slot # None => Sent(delegate.slot)' = Sent(delegate.slot)
    BY <1>2, <1>5, EarlyAreLive DEF Sent
  <2>2. Upto' = Upto
    BY <1>2 DEF Upto
  <2> QED BY <1>2, <1>6, <2>1, <2>2 DEF Replies, ReadInOrder
<1> QED BY <1>10, <1>11, <1>13, <1>14

\* The slot of queued data has left the places before the delegate task.
LEMMA EarlyNotStreaming == ASSUME IInv PROVE Early \cap DataSlots = {}
BY HeldIs DEF Early, IInv, Shape, Streaming, StreamsApart, Holders

\* A piece is sent: it is later than those sent on its session, and earlier
\* than those that wait.
LEMMA SendStreams ==
  ASSUME IInv, IInv', Replies, SendsData
  PROVE  Started' /\ Unsent' /\ QueuedInOrder' /\ ReadInOrder'
<1>0. PICK s, c, k, p :
        /\ s = jobData[Head(work).arg].slot /\ c = jobData[Head(work).arg].chunk
        /\ k = slot[s].req /\ p = chunkData[c]
  OBVIOUS
<1>1. /\ work # <<>> /\ Head(work).fn = "data" /\ work' = Tail(work)
      /\ SendChunk(k, slot[s].started, p)
      /\ slot' = [slot EXCEPT ![s].started = TRUE]
      /\ chunkData' = [chunkData EXCEPT ![c] = 0]
      /\ httpd'.at = "freeJob"
      /\ UNCHANGED <<jobData, chunkCall, eventQ, loop, radio, delegateQ,
                     delegate>>
  BY <1>0 DEF SendsData, RunData, TakeWork, FreeChunk, IdleTask, taskVars
<1>2. /\ 1 \in DataItems /\ DataSlot(1) = s /\ DataChunk(1) = c /\ Piece(1) = p
  BY <1>0, <1>1, WorkTail DEF DataItems, DataSlot, DataChunk, Piece, IInv,
                              SlotOwnership
<1>3. s \in Live /\ s \in DataSlots /\ s \in Slots /\ k \in Sockets
      /\ s \notin Early /\ c \in Chunks
  BY <1>0, <1>2, EarlyAreLive, LiveWait, EarlyNotStreaming DEF IInv, Jobbing
<1>4. /\ slot'[s].req = k /\ slot'[s].started
      /\ \A t \in Slots \ {s} : slot'[t] = slot[t]
  <2>1. slot \in [Slots -> [req : Sockets \cup {None}, started : BOOLEAN]]
    BY DEF IInv, TypeOK, ServerTypeOK
  <2>2. slot'[s] = [slot[s] EXCEPT !.started = TRUE]
        /\ \A t \in Slots \ {s} : slot'[t] = slot[t]
    BY <1>1, <1>3, <2>1
  <2> QED BY <1>0, <1>3, <2>1, <2>2
<1>5. /\ reply'[k].chunks = Append(reply[k].chunks, p)
      /\ \A l \in Sockets \ {k} : reply'[l] = reply[l]
  BY <1>1, <1>3 DEF SendChunk, IInv, TypeOK, ServerTypeOK
<1>6. Sent(s)' = Append(Sent(s), p)
  BY <1>0, <1>4, <1>5 DEF Sent
<1>7. \A t \in Live \ {s} : slot'[t] = slot[t] /\ Sent(t)' = Sent(t)
  <2> SUFFICES ASSUME NEW t \in Live \ {s}
               PROVE  slot'[t] = slot[t] /\ Sent(t)' = Sent(t)
    OBVIOUS
  <2>1. slot[t].req \in Sockets /\ slot[t].req # k /\ slot'[t] = slot[t]
    BY <1>0, <1>3, <1>4, LiveWait DEF IInv, Waiting
  <2> QED BY <1>5, <2>1 DEF Sent
<1>8. \A i \in DataItems' : /\ i \in Nat \ {0} /\ i + 1 \in DataItems
                            /\ DataSlot(i)' = DataSlot(i + 1)
                            /\ DataChunk(i)' = DataChunk(i + 1)
  BY <1>1, TakenWork, DataShift
<1>9. \A i \in DataItems' : Piece(i)' = Piece(i + 1)
  <2> SUFFICES ASSUME NEW i \in DataItems'
               PROVE  chunkData'[DataChunk(i)'] = chunkData[DataChunk(i + 1)]
    BY DEF Piece
  <2>1. DataChunk(i + 1) # c /\ DataChunk(i + 1) \in Chunks
    BY <1>2, <1>8, PoolOwnershipIs DEF IInv, Jobbing, Pooled
  <2> QED BY <1>1, <1>8, <2>1 DEF IInv, TypeOK, ServerTypeOK
<1>10. Live' \subseteq Live /\ Early' \subseteq Early
  <2>1. /\ Held("close")' = Held("close") /\ Held("delegate")' = Held("delegate")
    BY <1>1, WorkTail, HeldIs, HeldIsNext DEF IInv, SlotOwnership
  <2>2. Open' \subseteq Open /\ Early' \subseteq Early
    BY <1>1, <2>1, OpenParts
  <2>3. DataSlots' \subseteq DataSlots
    BY <1>1, TakenWork, DataShift
  <2> QED BY <2>2, <2>3 DEF Live
<1>11. Sent(s) \in Seq(Nat) /\ p \in Nat
  BY <1>0, <1>3 DEF Sent, IInv, TypeOK, ServerTypeOK
<1>12. /\ Sent(s)' # <<>>
       /\ \A m \in DOMAIN Sent(s)' : \/ m \in DOMAIN Sent(s)
                                        /\ Sent(s)'[m] = Sent(s)[m]
                                     \/ Sent(s)'[m] = p
  <2> DEFINE q == Sent(s)
  <2> HIDE DEF q
  <2>1. /\ Append(q, p) # <<>>
        /\ \A m \in DOMAIN Append(q, p) : \/ m \in DOMAIN q
                                             /\ Append(q, p)[m] = q[m]
                                          \/ Append(q, p)[m] = p
    <3>1. q \in Seq(Nat) /\ p \in Nat
      BY <1>11 DEF q
    <3> QED BY <3>1, AppendElements
  <2> QED BY <1>6, <2>1 DEF q
<1>13. Started'
  BY <1>4, <1>7, <1>10, <1>12 DEF Replies, Started
<1>14. Unsent'
  BY <1>3, <1>7, <1>10, EarlyAreLive DEF Replies, Unsent
<1>15. QueuedInOrder'
  <2>1. ASSUME NEW i \in DataItems'
        PROVE  /\ Piece(i)' \in 1..MaxLog
               /\ \A m \in DOMAIN Sent(DataSlot(i))' :
                    Sent(DataSlot(i))'[m] < Piece(i)'
    <3>0. PICK t : t = DataSlot(i + 1)
      OBVIOUS
    <3>1. /\ i + 1 \in DataItems /\ 1 < i + 1 /\ Piece(i)' = Piece(i + 1)
          /\ t \in Live /\ DataSlot(i)' = t
      BY <1>8, <1>9, <3>0, EarlyAreLive
    <3>2. /\ Piece(i + 1) \in 1..MaxLog
          /\ \A m \in DOMAIN Sent(t) : Sent(t)[m] < Piece(i + 1)
          /\ t = s => p < Piece(i + 1)
      BY <1>2, <3>0, <3>1 DEF Replies, QueuedInOrder
    <3>3. Sent(DataSlot(i))' = Sent(t)'
      BY <3>1 DEF Sent
    <3>4. CASE t = s
      BY <1>12, <3>1, <3>2, <3>3, <3>4
    <3>5. CASE t # s
      BY <1>7, <3>1, <3>2, <3>3, <3>5
    <3> QED BY <3>4, <3>5, <3>1, <3>2
  <2>2. ASSUME NEW i \in DataItems', NEW l \in DataItems', i < l,
               DataSlot(i)' = DataSlot(l)'
        PROVE  Piece(i)' < Piece(l)'
    BY <1>8, <1>9, <2>2 DEF Replies, QueuedInOrder
  <2> QED BY <2>1, <2>2 DEF QueuedInOrder
<1>16. ReadInOrder'
  <2> SUFFICES ASSUME delegate.slot # None
               PROVE  /\ \A i \in DataItems' : DataSlot(i)' = delegate.slot
                                                 => Piece(i)' < Upto
                      /\ \A m \in DOMAIN Sent(delegate.slot)' :
                           Sent(delegate.slot)'[m] < Upto
    BY <1>1 DEF Replies, ReadInOrder, Upto
  <2>0. PICK t : t = delegate.slot
    OBVIOUS
  <2>1. t \in Live /\ Sent(delegate.slot)' = Sent(t)'
    BY <1>1, <2>0, EarlyAreLive DEF Sent
  <2>2. /\ \A i \in DataItems : DataSlot(i) = t => Piece(i) < Upto
        /\ \A m \in DOMAIN Sent(t) : Sent(t)[m] < Upto
    BY <2>0 DEF Replies, ReadInOrder
  <2>3. t = s => p < Upto
    BY <1>2, <2>2
  <2>4. \A m \in DOMAIN Sent(t)' : Sent(t)'[m] < Upto
    BY <1>7, <1>12, <2>1, <2>2, <2>3
  <2>5. \A i \in DataItems' : DataSlot(i)' = t => Piece(i)' < Upto
    BY <1>8, <1>9, <2>2
  <2> QED BY <2>0, <2>1, <2>4, <2>5
<1> QED BY <1>13, <1>14, <1>15, <1>16

\* A piece is queued, or dropped because the control socket is full: it is
\* the latest that the delegate task has read.
LEMMA QueueStreams ==
  ASSUME IInv, IInv', Replies, QueuesData
  PROVE  Started' /\ Unsent' /\ QueuedInOrder' /\ ReadInOrder'
<1>0. PICK s, c, j, n :
        /\ s = chunkCall.slot /\ c = chunkCall.chunk
        /\ j = chunkCall.job /\ n = chunkCall.n
  OBVIOUS
<1> DEFINE w == [fn |-> "data", arg |-> j]
<1>1. /\ chunkCall.at = "queue" /\ c # None /\ j # None
      /\ chunkData' = [chunkData EXCEPT ![c] = n]
      /\ jobData' = [jobData EXCEPT ![j] = [slot |-> s, chunk |-> c]]
      /\ QueueWork(w) /\ chunkCall'.at = "idle"
      /\ UNCHANGED <<slot, reply, httpd, eventQ, loop, radio, delegateQ,
                     delegate>>
  BY <1>0 DEF QueuesData, QueueData, NoCall, clientVars, taskVars
<1>2. /\ s = delegate.slot /\ s # None /\ s \in Slots /\ s \in Live
      /\ c \in Chunks /\ j \in Jobs
      /\ n = delegate.n /\ n \in 1..MaxLog /\ Upto = n /\ Upto' = n + 1
  <2>1. s = delegate.slot /\ s # None /\ s \in Slots /\ c \in Chunks
        /\ j \in Jobs
    BY <1>0, <1>1 DEF IInv, Shape, TypeOK, ServerTypeOK, TaskTypeOK
  <2>2. n = delegate.n /\ n # 0 /\ n <= MaxLog /\ n \in Nat
    BY <1>0, <1>1 DEF Replies, ReadInOrder, IInv, TypeOK, TaskTypeOK
  <2> QED BY <1>1, <2>1, <2>2, EarlyAreLive, PathAssumption DEF Upto
<1>3. /\ work \in Seq(WorkItem) /\ w \in WorkItem /\ w.fn = "data" /\ w.arg = j
      /\ DOMAIN work = 1..Len(work) /\ Len(work) \in Nat
  BY <1>2 DEF IInv, TypeOK, ServerTypeOK, WorkItem
<1>4. /\ Held("close")' \subseteq Held("close")
      /\ \A i \in DOMAIN work' :
           \/ i \in DOMAIN work /\ work'[i] = work[i]
           \/ work'[i] = w /\ \A l \in DOMAIN work : l < i
  <2> HIDE DEF w
  <2> QED BY <1>1, <1>3, WorkQueued DEF IInv, SlotOwnership
<1>5. \A i \in DataItems : /\ work[i].arg \in Jobs /\ work[i].arg # j
                           /\ DataChunk(i) # c /\ DataChunk(i) \in Chunks
  BY <1>0, <1>1, ItemsAreJobs, PoolOwnershipIs DEF IInv, Jobbing, Pooled
<1>6. /\ \A i \in DataItems : /\ jobData'[work[i].arg] = jobData[work[i].arg]
                              /\ chunkData'[DataChunk(i)] = chunkData[DataChunk(i)]
      /\ jobData'[j] = [slot |-> s, chunk |-> c]
      /\ chunkData'[c] = n
  BY <1>1, <1>2, <1>5 DEF IInv, TypeOK, ServerTypeOK
<1>7. \A i \in DataItems' :
        \/ /\ i \in DataItems
           /\ DataSlot(i)' = DataSlot(i) /\ Piece(i)' = Piece(i)
        \/ /\ DataSlot(i)' = s /\ Piece(i)' = n
           /\ \A l \in DataItems : l < i
           /\ i = Len(work) + 1
  <2> SUFFICES ASSUME NEW i \in DataItems'
               PROVE  \/ /\ i \in DataItems
                         /\ DataSlot(i)' = DataSlot(i) /\ Piece(i)' = Piece(i)
                      \/ /\ DataSlot(i)' = s /\ Piece(i)' = n
                         /\ \A l \in DataItems : l < i
                         /\ i = Len(work) + 1
    OBVIOUS
  <2>1. i \in DOMAIN work' /\ work'[i].fn = "data"
    BY DEF DataItems
  <2>2. CASE i \in DOMAIN work /\ work'[i] = work[i]
    <3>1. i \in DataItems
      BY <2>1, <2>2 DEF DataItems
    <3> QED BY <1>6, <2>2, <3>1 DEF DataSlot, DataChunk, Piece
  <2>3. CASE work'[i] = w /\ \A l \in DOMAIN work : l < i
    <3>1. i = Len(work) + 1
      <4> HIDE DEF w
      <4> QED BY <1>1, <1>3, <2>1, <2>3, AppendElements DEF QueueWork
    <3>2. \A l \in DataItems : l < i
      BY <2>3 DEF DataItems
    <3> QED BY <1>6, <2>3, <3>1, <3>2 DEF DataSlot, DataChunk, Piece
  <2> QED BY <1>4, <2>1, <2>2, <2>3
<1>8. Live' \subseteq Live /\ Early' \subseteq Early
  <2>1. Open' \subseteq Open /\ Early' \subseteq Early
    BY <1>1, <1>4, OpenParts, HeldIs, HeldIsNext
  <2>2. DataSlots' \subseteq Live
    <3> SUFFICES ASSUME NEW i \in DataItems' PROVE DataSlot(i)' \in Live
      BY DEF DataSlots
    <3> QED BY <1>2, <1>7, EarlyAreLive
  <2> QED BY <2>1, <2>2 DEF Live
<1>9. \A t : slot'[t] = slot[t] /\ Sent(t)' = Sent(t)
  BY <1>1 DEF Sent
<1>10. Started' /\ Unsent'
  BY <1>8, <1>9 DEF Replies, Started, Unsent
<1>11. /\ \A i \in DataItems : DataSlot(i) = s => Piece(i) < n
       /\ \A m \in DOMAIN Sent(s) : Sent(s)[m] < n
       /\ \A i \in DataItems : Piece(i) \in 1..MaxLog
  BY <1>2 DEF Replies, ReadInOrder, QueuedInOrder
<1>12. Sent(s) \in Seq(Nat)
  BY <1>2, LiveWait DEF Sent, IInv, TypeOK, ServerTypeOK
<1>13. QueuedInOrder'
  <2>1. ASSUME NEW i \in DataItems'
        PROVE  /\ Piece(i)' \in 1..MaxLog
               /\ \A m \in DOMAIN Sent(DataSlot(i))' :
                    Sent(DataSlot(i))'[m] < Piece(i)'
    <3>1. CASE i \in DataItems /\ DataSlot(i)' = DataSlot(i)
               /\ Piece(i)' = Piece(i)
      <4>1. Sent(DataSlot(i))' = Sent(DataSlot(i))
        BY <1>1, <3>1 DEF Sent
      <4> QED BY <3>1, <4>1 DEF Replies, QueuedInOrder
    <3>2. CASE DataSlot(i)' = s /\ Piece(i)' = n
      <4>1. Sent(DataSlot(i))' = Sent(s)
        BY <1>1, <3>2 DEF Sent
      <4> QED BY <1>2, <1>11, <3>2, <4>1
    <3> QED BY <1>7, <3>1, <3>2
  <2>2. ASSUME NEW i \in DataItems', NEW l \in DataItems', i < l,
               DataSlot(i)' = DataSlot(l)'
        PROVE  Piece(i)' < Piece(l)'
    <3>1. i \in Nat /\ l \in Nat
      BY PlacesAreNatsNext
    <3>2. \A m \in DataItems : m < Len(work) + 1
      BY <1>3 DEF DataItems
    <3>3. i \in DataItems /\ DataSlot(i)' = DataSlot(i) /\ Piece(i)' = Piece(i)
      BY <1>3, <1>7, <2>2, <3>1, <3>2
    <3>4. CASE l \in DataItems /\ DataSlot(l)' = DataSlot(l)
               /\ Piece(l)' = Piece(l)
      BY <2>2, <3>3, <3>4 DEF Replies, QueuedInOrder
    <3>5. CASE DataSlot(l)' = s /\ Piece(l)' = n
      BY <1>11, <2>2, <3>3, <3>5
    <3> QED BY <1>7, <3>4, <3>5
  <2> QED BY <2>1, <2>2 DEF QueuedInOrder
<1>14. ReadInOrder'
  <2>1. /\ delegate'.slot = s /\ delegate'.n = delegate.n /\ n <= MaxLog
    BY <1>1, <1>2, PathAssumption
  <2>2. Sent(delegate.slot)' = Sent(s)
    BY <1>1, <2>1 DEF Sent
  <2>3. \A i \in DataItems' : DataSlot(i)' = s => Piece(i)' < n + 1
    BY <1>2, <1>7, <1>11, PathAssumption
  <2>4. \A m \in DOMAIN Sent(s) : Sent(s)[m] < n + 1
    BY <1>2, <1>11, <1>12, PathAssumption
  <2> QED BY <1>1, <1>2, <2>1, <2>2, <2>3, <2>4 DEF ReadInOrder
<1> QED BY <1>10, <1>13, <1>14

-----------------------------------------------------------------------------
(***************************************************************************)
(* The other parts of Replies.                                             *)
(***************************************************************************)
\* Only the delegate task reads the log, and calls the server with a piece.
LEMMA OnlyDelegate ==
  ASSUME [Next]_vars, ~DelegateStep, ~Restart
  PROVE  UNCHANGED <<delegate, chunkCall>>
<1> USE DEF taskVars, serverVars, clientVars, poolVars
<1>1. CASE ClientStep
  BY <1>1 DEF ClientStep, Ask
<1>2. CASE \E k \in Sockets : HandleSession(k)
  BY <1>2 DEF HandleSession, AcceptRequest, SlotsExhausted, NotFound
<1>3. CASE HandleWork
  BY <1>3 DEF HandleWork, RunWork, RunData, RunClose, RunSessClose, RunFinalize
<1>4. CASE HttpdContinues
  BY <1>4 DEF HttpdContinues, EndData, QueueFinalize, PostRequest, PostFails,
              Refuse, Release
<1>5. CASE LoopStep
  BY <1>5 DEF LoopStep, SendCommand, CommandRefused, HandleLog, DelegatePost,
              HandleOta, HandleSendStatus, Inform, InformRelease,
              HandleRebootRequired
<1>6. CASE RadioStep \/ OtaStep
  BY <1>6 DEF RadioStep, RadioReports, ReportSend, LoseReport, OtaStep,
              UpdateStarts, UpdateEnds
<1>7. CASE PanicReboot \/ UNCHANGED vars
  BY <1>7 DEF PanicReboot, vars
<1> QED
  BY <1>1, <1>2, <1>3, <1>4, <1>5, <1>6, <1>7 DEF Next

\* The delegate task takes on a log of which nothing was read.
LEMMA TakeReads ==
  ASSUME IInv, IInv', Replies, DelegateTake PROVE ReadInOrder'
<1>0. PICK s : s = Head(delegateQ)
  OBVIOUS
<1>1. /\ delegate' = [slot |-> s, n |-> 0] /\ delegate.slot = None
      /\ delegateQ # <<>> /\ delegateQ' = Tail(delegateQ)
      /\ UNCHANGED <<reply, slot, work, jobData, chunkData, chunkCall>>
  BY <1>0 DEF DelegateTake, serverVars, clientVars, poolVars
<1>2. chunkCall.at = "idle" /\ MaxLog \in Nat
  BY <1>1, PathAssumption DEF IInv, Shape
<1>3. s \in Early /\ s \notin DataSlots
  <2>1. s \in Early
    BY <1>0, <1>1, DelegateTail DEF IInv, SlotOwnership, Early
  <2> QED BY <2>1, EarlyNotStreaming
<1>4. Sent(s) = <<>> /\ Sent(delegate.slot)' = Sent(s)
  BY <1>1, <1>3 DEF Replies, Unsent, Sent
<1>5. \A i \in DataItems' : DataSlot(i)' # s
  BY <1>1, <1>3, FrameData DEF DataSlots
<1> QED BY <1>1, <1>2, <1>4, <1>5 DEF ReadInOrder

\* What it has read is kept in order by every step that passes things on.
LEMMA ReadKept ==
  ASSUME IInv, IInv', Replies, [Next]_vars, Passes, ~Restart
  PROVE  ReadInOrder'
<1>1. /\ delegate.n <= MaxLog /\ delegate.n \in Nat /\ MaxLog \in Nat
      /\ delegate \in [slot : Slots \cup {None}, n : Nat]
      /\ chunkCall.at # "idle" => chunkCall.n = delegate.n /\ delegate.n # 0
      /\ chunkCall.at = "idle" => Upto = delegate.n + 1
      /\ chunkCall.at # "idle" => Upto = delegate.n
  BY PathAssumption DEF Replies, ReadInOrder, Upto, IInv, TypeOK, TaskTypeOK
<1>2. CASE UNCHANGED <<delegate, chunkCall>>
  <2>1. Upto' = Upto
    BY <1>2 DEF Upto
  <2> QED BY <1>1, <1>2, <2>1, PassesReads
<1>3. CASE (AllocChunk \/ AllocJob) /\ UNCHANGED taskVars
  <2>1. chunkCall.at # "idle" /\ chunkCall'.at # "idle"
        /\ chunkCall'.n = chunkCall.n
    BY <1>3 DEF AllocChunk, AllocJob, IInv, TypeOK, ServerTypeOK
  <2>2. delegate' = delegate
    BY <1>3 DEF taskVars
  <2>3. Upto' = Upto
    BY <2>1, <2>2 DEF Upto
  <2> QED BY <1>1, <2>1, <2>2, <2>3, PassesReads
<1>4. CASE (QueueData \/ DropData) /\ UNCHANGED taskVars
  <2>1. chunkCall'.at = "idle" /\ delegate' = delegate
    BY <1>4 DEF QueueData, DropData, NoCall, taskVars
  <2>2. Upto' = delegate.n + 1
    BY <2>1 DEF Upto
  <2> QED BY <1>1, <2>1, <2>2, PassesReads
<1>5. CASE DelegateTake
  BY <1>5, TakeReads
<1>6. CASE ReadPiece
  <2>1. /\ chunkCall.at = "idle" /\ delegate.n < MaxLog
        /\ delegate' = [delegate EXCEPT !.n = @ + 1]
        /\ chunkCall'.at = "chunk" /\ chunkCall'.n = delegate.n + 1
    BY <1>6 DEF ReadPiece, NoCall
  <2>2. delegate'.slot = delegate.slot /\ delegate'.n = delegate.n + 1
    BY <1>1, <2>1
  <2>3. Upto' = delegate.n + 1 /\ Upto = delegate.n + 1
    BY <1>1, <2>1, <2>2 DEF Upto
  <2> QED BY <1>1, <2>1, <2>2, <2>3, PassesReads
<1>7. CASE EndOfLog
  <2>1. delegate'.slot = None /\ delegate'.n = 0 /\ chunkCall'.at = "idle"
    BY <1>7 DEF EndOfLog, IdleDelegate
  <2> QED BY <1>1, <2>1, PassesReads
<1> QED
  BY <1>2, <1>3, <1>4, <1>5, <1>6, <1>7, OnlyDelegate DEF DelegateStep

\* RepliesWhole after a step, session by session.
LEMMA WholeNext ==
  ASSUME \A k \in Sockets : Whole(session'[k], reply'[k]) PROVE RepliesWhole'
BY DEF RepliesWhole, Whole, Increasing

\* The end of a reply that has not ended, on a session that waits no more.
LEMMA EndWhole ==
  ASSUME TypeOK, RepliesWhole, NEW k \in Sockets, NEW v, EndReply(k, v),
         session[k] \in {"request", "async"},
         session'[k] \notin {"request", "async"},
         \A l \in Sockets \ {k} : session'[l] = session[l]
  PROVE  RepliesWhole'
<1> SUFFICES ASSUME NEW l \in Sockets PROVE Whole(session'[l], reply'[l])
  BY WholeNext
<1>1. CASE l = k
  <2>1. session'[l] \notin {"request", "async"}
    BY <1>1
  <2>2. /\ reply'[l].ends = reply[l].ends + 1
        /\ reply'[l].chunks = reply[l].chunks
        /\ reply'[l].heads = reply[l].heads
    BY <1>1 DEF EndReply, TypeOK, ServerTypeOK
  <2>3. reply[l].ends = 0
    BY <1>1 DEF RepliesWhole, Whole
  <2> QED BY <2>1, <2>2, <2>3 DEF RepliesWhole, Whole
<1>2. CASE l # k
  <2>1. session'[l] = session[l] /\ reply'[l] = reply[l]
    BY <1>2 DEF EndReply, TypeOK, ServerTypeOK
  <2> QED BY <2>1 DEF RepliesWhole
<1> QED BY <1>1, <1>2

\* A piece added to a reply: after the header fields, and in order.
LEMMA SendWhole ==
  ASSUME IInv, Replies, SendsData PROVE RepliesWhole'
<1>0. PICK s, c, k, p :
        /\ s = jobData[Head(work).arg].slot /\ c = jobData[Head(work).arg].chunk
        /\ k = slot[s].req /\ p = chunkData[c]
  OBVIOUS
<1>1. /\ work # <<>> /\ Head(work).fn = "data" /\ work' = Tail(work)
      /\ SendChunk(k, slot[s].started, p)
      /\ session' = session
  BY <1>0 DEF SendsData, RunData, TakeWork
<1>2. /\ 1 \in DataItems /\ DataSlot(1) = s /\ Piece(1) = p
  BY <1>0, <1>1, WorkTail DEF DataItems, DataSlot, DataChunk, Piece, IInv,
                              SlotOwnership
<1>3. s \in Live /\ k \in Sockets /\ session[k] = "async"
  BY <1>0, <1>2, EarlyAreLive, LiveWait
<1>4. /\ p \in 1..MaxLog
      /\ \A m \in DOMAIN reply[k].chunks : reply[k].chunks[m] < p
      /\ slot[s].started <=> reply[k].chunks # <<>>
  BY <1>0, <1>2, <1>3 DEF Replies, QueuedInOrder, Started, Sent
<1> DEFINE q == reply[k].chunks
           wasStarted == slot[s].started
<1>5. q \in Seq(Nat) /\ p \in Nat /\ Increasing(q)
      /\ reply[k].heads = (IF q = <<>> THEN 0 ELSE 1) /\ reply[k].ends = 0
  BY <1>3, <1>4, PathAssumption DEF IInv, TypeOK, ServerTypeOK, Replies,
                                    RepliesWhole, Whole
<1>6. /\ reply'[k].chunks = Append(q, p)
      /\ reply'[k].heads = IF wasStarted THEN reply[k].heads
                           ELSE reply[k].heads + 1
      /\ reply'[k].ends = reply[k].ends
      /\ \A l \in Sockets \ {k} : reply'[l] = reply[l]
  BY <1>1, <1>3 DEF SendChunk, IInv, TypeOK, ServerTypeOK
<1> SUFFICES ASSUME NEW l \in Sockets PROVE Whole(session'[l], reply'[l])
  BY WholeNext
<1>7. CASE l = k
  <2>1. Append(q, p) # <<>> /\ Increasing(Append(q, p))
    <3> HIDE DEF q
    <3>1. \A m \in DOMAIN q : q[m] < p
      BY <1>4 DEF q
    <3>2. Append(q, p) # <<>>
      BY <1>5
    <3>3. ASSUME NEW a \in DOMAIN Append(q, p), NEW b \in DOMAIN Append(q, p),
                 a < b
          PROVE  Append(q, p)[a] < Append(q, p)[b]
      <4>1. /\ DOMAIN Append(q, p) = 1..(Len(q) + 1) /\ DOMAIN q = 1..Len(q)
            /\ Len(q) \in Nat /\ Append(q, p)[Len(q) + 1] = p
            /\ \A m \in DOMAIN q : Append(q, p)[m] = q[m]
        BY <1>5, AppendElements
      <4>2. a \in DOMAIN q /\ (b \in DOMAIN q \/ b = Len(q) + 1)
        BY <3>3, <4>1
      <4> QED BY <1>5, <3>1, <3>3, <4>1, <4>2 DEF Increasing
    <3> QED BY <3>2, <3>3 DEF Increasing
  <2>2. reply'[k].heads = 1
    BY <1>4, <1>5, <1>6
  <2>3. reply'[l].chunks # <<>> /\ Increasing(reply'[l].chunks)
    BY <1>6, <1>7, <2>1
  <2>4. session'[l] = "async" /\ reply'[l].ends = 0 /\ reply'[l].heads = 1
    BY <1>1, <1>3, <1>5, <1>6, <1>7, <2>2
  <2> QED BY <2>3, <2>4 DEF Whole
<1>8. CASE l # k
  BY <1>1, <1>6, <1>8 DEF Replies, RepliesWhole
<1> QED BY <1>7, <1>8

\* What was sent stays in order, with its header fields, and ended at most
\* once, whatever the step.
LEMMA WholeKept ==
  ASSUME IInv, Replies, [Next]_vars, ~Restart PROVE RepliesWhole'
<1> USE DEF clientVars, serverVars
<1>1. CASE UNCHANGED <<session, reply>>
  BY <1>1, WholeNext DEF Replies, RepliesWhole
<1>2. ASSUME NEW k \in Sockets, NEW target, Ask(k, target) PROVE RepliesWhole'
  <2>1. /\ session' = [session EXCEPT ![k] = "request"]
        /\ reply' = [reply EXCEPT ![k] = NoReply]
    BY <1>2 DEF Ask
  <2>2. /\ session'[k] = "request" /\ reply'[k] = NoReply
        /\ \A l \in Sockets \ {k} : session'[l] = session[l]
                                    /\ reply'[l] = reply[l]
    BY <2>1 DEF IInv, TypeOK, ServerTypeOK
  <2>3. /\ NoReply.ends = 0 /\ NoReply.heads = 0 /\ NoReply.chunks = <<>>
        /\ Increasing(<<>>)
    BY DEF NoReply, Increasing
  <2>4. Whole("request", NoReply)
    BY <2>3 DEF Whole
  <2> QED BY <2>2, <2>4, WholeNext DEF Replies, RepliesWhole
<1>3. ASSUME NEW k \in Sockets, AcceptRequest(k) PROVE RepliesWhole'
  <2>1. session' = [session EXCEPT ![k] = "async"] /\ reply' = reply
        /\ session[k] = "request"
    BY <1>3 DEF AcceptRequest
  <2>2. session'[k] = "async"
        /\ \A l \in Sockets \ {k} : session'[l] = session[l]
    BY <2>1 DEF IInv, TypeOK, ServerTypeOK
  <2>3. Whole("async", reply[k])
    BY <2>1 DEF Replies, RepliesWhole, Whole
  <2> QED BY <2>1, <2>2, <2>3, WholeNext DEF Replies, RepliesWhole
<1>4. ASSUME NEW k \in Sockets, NotFound(k) PROVE RepliesWhole'
  <2>1. /\ session[k] = "request" /\ EndReply(k, "404")
        /\ session' = [session EXCEPT ![k] = "idle"]
    BY <1>4 DEF NotFound
  <2>2. /\ session'[k] = "idle"
        /\ \A l \in Sockets \ {k} : session'[l] = session[l]
    BY <2>1 DEF IInv, TypeOK, ServerTypeOK
  <2> QED BY <2>1, <2>2, EndWhole DEF IInv, Replies
<1>5. ASSUME NEW s \in Live, NEW v, Respond(s, v) PROVE RepliesWhole'
  <2>1. PICK k \in Sockets : /\ k = slot[s].req
                             /\ session[k] \in {"request", "async"}
    BY LiveWait
  <2>2. /\ EndReply(k, v) /\ session'[k] = "idle"
        /\ \A l \in Sockets \ {k} : session'[l] = session[l]
    BY <1>5, <2>1 DEF Respond, IInv, TypeOK, ServerTypeOK
  <2> QED BY <2>1, <2>2, EndWhole DEF IInv, Replies
<1>6. CASE Refuse \/ Inform
  <2>1. CASE Refuse
    BY <1>5, <2>1 DEF Refuse, Live, Open
  <2>2. CASE Inform
    BY <1>5, <2>2 DEF Inform, Live, Open
  <2> QED BY <1>6, <2>1, <2>2
<1>7. CASE RunClose
  <2>1. /\ EndReply(slot[Head(work).arg].req, "none") /\ work # <<>>
        /\ Head(work).fn = "close"
        /\ session' = [session EXCEPT ![slot[Head(work).arg].req] = "closing"]
    BY <1>7 DEF RunClose, TakeWork
  <2>2. Head(work).arg \in Live
    <3>1. Head(work) \in Range(work)
      BY <2>1, TailElements DEF IInv, TypeOK, ServerTypeOK, Range
    <3>2. Head(work).arg \in WorkSlots("close")
      BY <2>1, <3>1 DEF WorkSlots
    <3> QED BY <3>2, HeldIs DEF Live, Open
  <2>3. PICK k \in Sockets : /\ k = slot[Head(work).arg].req
                             /\ session[k] \in {"request", "async"}
    BY <2>2, LiveWait
  <2>4. /\ EndReply(k, "none") /\ session'[k] = "closing"
        /\ \A l \in Sockets \ {k} : session'[l] = session[l]
    BY <2>1, <2>3 DEF IInv, TypeOK, ServerTypeOK
  <2> QED BY <2>3, <2>4, EndWhole DEF IInv, Replies
<1>8. CASE RunSessClose
  <2>1. /\ session' = [session EXCEPT ![Head(work).arg] = "idle"]
        /\ reply' = reply
    BY <1>8 DEF RunSessClose
  <2>2. \A l \in Sockets : session'[l] \in {session[l], "idle"}
    BY <2>1 DEF IInv, TypeOK, ServerTypeOK
  <2>3. \A l \in Sockets : Whole("idle", reply[l])
    BY DEF Replies, RepliesWhole, Whole
  <2> QED BY <2>1, <2>2, <2>3, WholeNext DEF Replies, RepliesWhole
<1>9. CASE RunData /\ UNCHANGED taskVars
  BY <1>9, SendWhole DEF SendsData
<1>10. CASE ClientStep
  BY <1>2, <1>10 DEF ClientStep
<1>11. ASSUME NEW k \in Sockets, HandleSession(k) PROVE RepliesWhole'
  BY <1>1, <1>3, <1>4, <1>11 DEF HandleSession, SlotsExhausted
<1>12. CASE HandleWork
  BY <1>1, <1>7, <1>8, <1>9, <1>12 DEF HandleWork, RunWork, RunFinalize
<1>13. CASE HttpdContinues
  BY <1>1, <1>6, <1>13 DEF HttpdContinues, EndData, QueueFinalize, PostRequest,
                           PostFails, Release
<1>14. CASE LoopStep
  BY <1>1, <1>6, <1>14
     DEF LoopStep, SendCommand, CommandRefused, HandleLog, DelegatePost,
         HandleOta, HandleSendStatus, InformRelease, HandleRebootRequired
<1>15. CASE RadioStep \/ OtaStep
  BY <1>1, <1>15 DEF RadioStep, RadioReports, ReportSend, LoseReport, OtaStep,
                     UpdateStarts, UpdateEnds
<1>16. CASE DelegateStep
  BY <1>1, <1>16 DEF DelegateStep, AllocChunk, AllocJob, QueueData, DropData,
                     DelegateTake, ReadPiece, EndOfLog
<1>17. CASE PanicReboot \/ UNCHANGED vars
  BY <1>1, <1>17 DEF PanicReboot, vars
<1> QED
  BY <1>10, <1>11, <1>12, <1>13, <1>14, <1>15, <1>16, <1>17 DEF Next

\* A live slot keeps its request, and that what it asked for.
LEMMA AskedKept ==
  ASSUME IInv, [Next]_vars, ~Restart
  PROVE  \A s \in Live : AskedOf(s)' = AskedOf(s)
<1> USE DEF clientVars, poolVars, serverVars
<1> SUFFICES ASSUME NEW s \in Live PROVE asked'[slot'[s].req] = asked[slot[s].req]
  BY DEF AskedOf
<1>0. s \in Slots /\ s \in usedSlots /\ slot[s].req \in Sockets
      /\ session[slot[s].req] = "async"
  BY LiveWait, LiveAreSlots
<1>1. CASE UNCHANGED <<slot, asked>>
  BY <1>1
<1>2. CASE ClientStep
  <2>1. PICK k \in Sockets, target \in Requested : Ask(k, target)
    BY <1>2 DEF ClientStep
  <2>2. session[k] = "idle" /\ asked' = [asked EXCEPT ![k] = target]
        /\ slot' = slot
    BY <2>1 DEF Ask
  <2> QED BY <1>0, <2>2 DEF IInv, TypeOK, ServerTypeOK
<1>3. ASSUME NEW k \in Sockets, HandleSession(k)
      PROVE  asked'[slot'[s].req] = asked[slot[s].req]
  <2>1. CASE AcceptRequest(k)
    <3>1. PICK t \in Slots \ usedSlots : InitSlot(t, k)
      BY <2>1 DEF AcceptRequest
    <3>2. asked' = asked /\ slot'[s] = slot[s]
      BY <1>0, <2>1, <3>1 DEF AcceptRequest, InitSlot, IInv, TypeOK, ServerTypeOK
    <3> QED BY <3>2
  <2> QED BY <1>1, <1>3, <2>1 DEF HandleSession, SlotsExhausted, NotFound
<1>4. CASE HandleWork
  <2>1. CASE RunData
    <3>1. PICK t : slot' = [slot EXCEPT ![t].started = TRUE]
      BY <2>1 DEF RunData
    <3>2. asked' = asked /\ slot'[s].req = slot[s].req
      BY <1>0, <2>1, <3>1, SMTT(30) DEF RunData, IInv, TypeOK, ServerTypeOK
    <3> QED BY <3>2
  <2> QED BY <1>1, <1>4, <2>1 DEF HandleWork, RunWork, RunClose, RunSessClose,
                                  RunFinalize
<1>5. CASE HttpdContinues
  BY <1>1, <1>5 DEF HttpdContinues, EndData, QueueFinalize, PostRequest,
                    PostFails, Refuse, Release
<1>6. CASE LoopStep
  BY <1>1, <1>6
     DEF LoopStep, SendCommand, CommandRefused, HandleLog, DelegatePost,
         HandleOta, HandleSendStatus, Inform, InformRelease,
         HandleRebootRequired
<1>7. CASE RadioStep \/ OtaStep
  BY <1>1, <1>7 DEF RadioStep, RadioReports, ReportSend, LoseReport, OtaStep,
                    UpdateStarts, UpdateEnds
<1>8. CASE DelegateStep
  BY <1>1, <1>8 DEF DelegateStep, AllocChunk, AllocJob, QueueData, DropData,
                    DelegateTake, ReadPiece, EndOfLog
<1>9. CASE PanicReboot \/ UNCHANGED vars
  BY <1>1, <1>9 DEF PanicReboot, vars
<1> QED
  BY <1>2, <1>3, <1>4, <1>5, <1>6, <1>7, <1>8, <1>9 DEF Next

\* Events and answers of live slots are those of the tasks' queues.
LEMMA EventsAreLive ==
  ASSUME IInv
  PROVE  /\ \A e \in Range(eventQ) : e.id # "REBOOT_REQUIRED" => e.ctx \in Live
         /\ \A c \in radio : c.ctx \in Live
         /\ loop.at = "answer" => loop.slot \in Live
BY HeldIs DEF IInv, Shape, Live, Open

\* New events and a new answer fit if the others did.
LEMMA FitsNext ==
  ASSUME IInv, Replies, \A s \in Live : AskedOf(s)' = AskedOf(s),
         \A e \in Range(eventQ') : e \in Range(eventQ) \/
           /\ e.id = "OTA_UPDATE" => AskedOf(e.ctx)' = "/ota-update"
           /\ e.id = "SEND_STATUS" => AskedOf(e.ctx)' \in GateEndpoints,
         \/ loop'.at # "answer"
         \/ loop' = loop
         \/ loop'.verdict \in Service!Allowed(asked'[slot'[loop'.slot].req])
  PROVE  AnswersFit'
<1>1. \A e \in Range(eventQ') :
        /\ e.id = "OTA_UPDATE" => AskedOf(e.ctx)' = "/ota-update"
        /\ e.id = "SEND_STATUS" => AskedOf(e.ctx)' \in GateEndpoints
  BY EventsAreLive DEF Replies, AnswersFit
<1>2. loop'.at = "answer" =>
        loop'.verdict \in Service!Allowed(asked'[slot'[loop'.slot].req])
  <2>1. loop.at = "answer" =>
          asked'[slot'[loop.slot].req] = asked[slot[loop.slot].req]
    BY EventsAreLive DEF AskedOf
  <2>2. loop.at = "answer" =>
          loop.verdict \in Service!Allowed(asked[slot[loop.slot].req])
    BY DEF Replies, AnswersFit, AskedOf
  <2> QED BY <2>1, <2>2
<1> QED BY <1>1, <1>2 DEF AnswersFit, AskedOf, Service!Allowed

\* Every event and every answer fits the request it is for.
LEMMA FitsKept ==
  ASSUME IInv, IInv', Replies, [Next]_vars, ~Restart PROVE AnswersFit'
<1> USE DEF clientVars, poolVars, serverVars, taskVars
<1>0. \A s \in Live : AskedOf(s)' = AskedOf(s)
  BY AskedKept
<1>1. CASE UNCHANGED <<eventQ, loop>>
  BY <1>0, <1>1, FitsNext
<1>2. ASSUME NEW e \in EventRecord, eventQ' = Append(eventQ, e), loop' = loop,
             /\ e.id = "OTA_UPDATE" => AskedOf(e.ctx)' = "/ota-update"
             /\ e.id = "SEND_STATUS" => AskedOf(e.ctx)' \in GateEndpoints
      PROVE  AnswersFit'
  <2>1. eventQ \in Seq(EventRecord)
    BY DEF IInv, TypeOK, TaskTypeOK, EventRecord
  <2>2. Range(eventQ') = Range(eventQ) \cup {e}
    BY <1>2, <2>1, AppendRange
  <2> QED BY <1>0, <1>2, <2>2, FitsNext
<1>3. CASE PostRequest
  <2>0. PICK s, e : s = httpd.slot
                    /\ e = Event(EventOf(asked[slot[s].req]), s, TRUE)
    OBVIOUS
  <2>1. /\ httpd.at = "post" /\ eventQ' = Append(eventQ, e) /\ loop' = loop
    BY <1>3, <2>0 DEF PostRequest
  <2>2. s \in Slots /\ s \in Live
    BY <2>0, <2>1, LiveWait DEF Live, Open
  <2>3. AskedOf(s) \in Endpoints /\ AskedOf(s)' = AskedOf(s)
    BY <1>0, <2>2 DEF IInv, Routing
  <2>4. e \in EventRecord /\ e.ctx = s /\ e.id = EventOf(AskedOf(s))
    BY <2>0, <2>2, <2>3 DEF Event, EventRecord, EventOf, EventIds, ContextIds,
       RequestIds, GateEvents, Endpoints, GateEndpoints, AskedOf
  <2>5. /\ e.id = "OTA_UPDATE" => AskedOf(s) = "/ota-update"
        /\ e.id # "SEND_STATUS"
    BY <2>3, <2>4 DEF EventOf, Endpoints, GateEndpoints
  <2>6. AskedOf(e.ctx)' = AskedOf(s)
    BY <2>3, <2>4 DEF AskedOf
  <2> QED BY <1>2, <2>1, <2>4, <2>5, <2>6
<1>4. ASSUME NEW cmd \in radio, NEW ok \in BOOLEAN, ReportSend(cmd, ok)
      PROVE  AnswersFit'
  <2>0. PICK e : e = Event("SEND_STATUS", cmd.ctx, ok)
    OBVIOUS
  <2>1. /\ eventQ' = Append(eventQ, e) /\ loop' = loop
    BY <1>4, <2>0 DEF ReportSend
  <2>2. e \in EventRecord /\ e.id = "SEND_STATUS" /\ e.ctx = cmd.ctx
    BY <2>0 DEF Event, EventRecord, EventIds, ContextIds, IInv, TypeOK, TaskTypeOK
  <2>3. AskedOf(cmd.ctx) \in GateEndpoints /\ cmd.ctx \in Live
    BY EventsAreLive DEF IInv, Routing, GateEndpoints
  <2>4. AskedOf(e.ctx)' = AskedOf(cmd.ctx)
    BY <1>0, <2>2, <2>3 DEF AskedOf
  <2> QED BY <1>2, <2>1, <2>2, <2>3, <2>4
<1>5. ASSUME NEW installed, UpdateEnds(installed) PROVE AnswersFit'
  <2>0. PICK e : e = Event("REBOOT_REQUIRED", None, TRUE)
    OBVIOUS
  <2>1. /\ eventQ' = Append(eventQ, e) \/ eventQ' = eventQ
        /\ loop' = loop
    BY <1>5, <2>0 DEF UpdateEnds
  <2>2. e \in EventRecord /\ e.id = "REBOOT_REQUIRED"
    BY <2>0 DEF Event, EventRecord, EventIds
  <2> QED BY <1>1, <1>2, <2>1, <2>2
\* The event loop takes event e.
<1>6. ASSUME NEW id, TakeEvent(id)
      PROVE  /\ Range(eventQ') \subseteq Range(eventQ)
             /\ Head(eventQ) \in Range(eventQ) /\ Head(eventQ).id = id
             /\ id # "REBOOT_REQUIRED" => Head(eventQ).ctx \in Live
  <2>1. eventQ \in Seq(EventRecord) /\ eventQ # <<>> /\ eventQ' = Tail(eventQ)
        /\ Head(eventQ).id = id
    BY <1>6 DEF TakeEvent, IInv, TypeOK, TaskTypeOK, EventRecord
  <2>2. Range(eventQ) = {Head(eventQ)} \cup Range(eventQ')
    BY <2>1, TailRange
  <2> QED BY <2>1, <2>2, EventsAreLive
<1>7. ASSUME NEW id, TakeEvent(id), loop' = loop \/ loop'.at # "answer"
      PROVE  AnswersFit'
  <2>1. Range(eventQ') \subseteq Range(eventQ)
    BY <1>6, <1>7
  <2> QED BY <1>0, <1>7, <2>1, FitsNext
<1>8. ASSUME NEW id, TakeEvent(id), id # "REBOOT_REQUIRED",
             loop'.slot = Head(eventQ).ctx,
             loop'.verdict \in Service!Allowed(AskedOf(Head(eventQ).ctx))
      PROVE  AnswersFit'
  <2>0. PICK s : s = Head(eventQ).ctx
    OBVIOUS
  <2>1. /\ Range(eventQ') \subseteq Range(eventQ) /\ s \in Live
    BY <1>6, <1>8, <2>0
  <2>2. asked'[slot'[loop'.slot].req] = AskedOf(Head(eventQ).ctx)
    BY <1>0, <1>8, <2>0, <2>1 DEF AskedOf
  <2> QED BY <1>0, <1>8, <2>1, <2>2, FitsNext
<1>9. ASSUME NEW id \in GateEvents, SendCommand(id) PROVE AnswersFit'
  BY <1>7, <1>9 DEF SendCommand
<1>10. ASSUME NEW id \in GateEvents, CommandRefused(id) PROVE AnswersFit'
  <2>1. TakeEvent(id) /\ loop'.slot = Head(eventQ).ctx
        /\ loop'.verdict = "Failed" /\ id # "REBOOT_REQUIRED"
    BY <1>10 DEF CommandRefused, GateEvents
  <2>2. AskedOf(Head(eventQ).ctx) \in {"/open-gate", "/close-gate"}
    BY <1>6, <2>1 DEF IInv, Routing
  <2> QED BY <1>8, <2>1, <2>2 DEF Service!Allowed
<1>11. CASE HandleLog
  BY <1>7, <1>11 DEF HandleLog, IdleLoop
<1>12. CASE HandleOta
  <2>1. TakeEvent("OTA_UPDATE") /\ loop'.slot = Head(eventQ).ctx
        /\ loop'.verdict = "success"
    BY <1>12 DEF HandleOta
  <2>2. AskedOf(Head(eventQ).ctx) = "/ota-update"
    BY <1>6, <2>1 DEF Replies, AnswersFit
  <2> QED BY <1>8, <2>1, <2>2 DEF Service!Allowed
<1>13. CASE HandleSendStatus
  <2>1. TakeEvent("SEND_STATUS") /\ loop'.slot = Head(eventQ).ctx
        /\ loop'.verdict \in {"success", "Failed"}
    BY <1>13 DEF HandleSendStatus
  <2>2. AskedOf(Head(eventQ).ctx) \in {"/open-gate", "/close-gate"}
    BY <1>6, <2>1 DEF Replies, AnswersFit, GateEndpoints
  <2> QED BY <1>8, <2>1, <2>2 DEF Service!Allowed
<1>14. CASE DelegatePost \/ Inform \/ InformRelease
  <2>1. eventQ' = eventQ /\ loop'.at # "answer"
    BY <1>14 DEF DelegatePost, Inform, InformRelease, IdleLoop, IInv, TypeOK,
       TaskTypeOK
  <2> QED BY <1>0, <2>1, FitsNext
<1>15. CASE ClientStep
  BY <1>1, <1>15 DEF ClientStep
<1>16. CASE \E k \in Sockets : HandleSession(k)
  BY <1>1, <1>16 DEF HandleSession
<1>17. CASE HandleWork
  BY <1>1, <1>17 DEF HandleWork
<1>18. CASE HttpdContinues
  BY <1>1, <1>3, <1>18 DEF HttpdContinues, PostFails, Refuse, Release
<1>19. CASE LoopStep
  BY <1>9, <1>10, <1>11, <1>12, <1>13, <1>14, <1>19
     DEF LoopStep, HandleRebootRequired
<1>20. CASE RadioStep
  BY <1>1, <1>4, <1>20 DEF RadioStep, RadioReports, LoseReport
<1>21. CASE OtaStep
  BY <1>1, <1>5, <1>21 DEF OtaStep, UpdateStarts
<1>22. CASE DelegateStep
  BY <1>1, <1>22 DEF DelegateStep, DelegateTake, ReadPiece, EndOfLog
<1>23. CASE PanicReboot \/ UNCHANGED vars
  BY <1>1, <1>23 DEF PanicReboot, vars
<1> QED
  BY <1>15, <1>16, <1>17, <1>18, <1>19, <1>20, <1>21, <1>22, <1>23 DEF Next

-----------------------------------------------------------------------------
(***************************************************************************)
(* The invariant.                                                          *)
(***************************************************************************)
\* The node that just started has sent nothing and has nothing to send.
LEMMA InitReplies == Init => Replies
<1> SUFFICES ASSUME Init PROVE Replies
  OBVIOUS
<1>1. /\ Range(eventQ) = {} /\ Range(delegateQ) = {} /\ DOMAIN work = {}
      /\ WorkSlots("close") = {}
  BY DEF Init, ServerInit, Range, WorkSlots
<1>2. DataItems = {} /\ DataSlots = {}
  BY <1>1 DEF DataItems, DataSlots
<1>3. Open = {} /\ Early = {} /\ Live = {}
  BY <1>1, <1>2, HeldIs DEF Open, Early, Live, Init, ServerInit, IdleTask,
     IdleLoop, IdleDelegate
<1>4. RepliesWhole
  <2>1. Whole("idle", NoReply)
    BY DEF Whole, NoReply, Increasing
  <2> QED BY <2>1 DEF RepliesWhole, Init, ServerInit
<1>5. Started /\ Unsent /\ QueuedInOrder
  BY <1>2, <1>3 DEF Started, Unsent, QueuedInOrder
<1>6. ReadInOrder
  BY PathAssumption DEF ReadInOrder, Init, ServerInit, IdleDelegate, NoCall
<1>7. AnswersFit
  BY <1>1 DEF AnswersFit, Init, IdleLoop
<1> QED BY <1>4, <1>5, <1>6, <1>7 DEF Replies

\* A restart sets every variable back.
LEMMA RestartReplies == Restart => Replies'
<1>1. Restart => Init'
  BY DEF Restart, Init, ServerInit
<1> QED BY <1>1, InitReplies, PTL

\* Every step of every task keeps Replies.
LEMMA NextReplies == IInv /\ Replies /\ [Next]_vars => Replies'
<1> SUFFICES ASSUME IInv, Replies, [Next]_vars, ~Restart PROVE Replies'
  BY RestartReplies
<1>1. IInv'
  BY NextKeeps
<1>2. RepliesWhole' /\ AnswersFit'
  BY <1>1, WholeKept, FitsKept
<1>3. Started' /\ Unsent' /\ QueuedInOrder' /\ ReadInOrder'
  BY <1>1, StepPasses, PassesKeeps, ReadKept, AcceptStreams, SendStreams,
     QueueStreams
<1> QED BY <1>2, <1>3 DEF Replies

\* Whatever is lost, in every behaviour what is sent, queued and read of the
\* logs is in order and every answer fits its request.
THEOREM RepliesInvariance == Spec => []Replies
<1>1. Init => Replies
  BY InitReplies
<1>2. IInv /\ Replies /\ [Next]_vars => Replies'
  BY NextReplies
<1> QED BY <1>1, <1>2, Invariance, PTL DEF Spec

\* What a client reads (http_async_data_worker): the pieces of the log in
\* order and without repetition, header fields once and first, one end.
THEOREM StreamsInOrder == Spec => []StreamOrder
<1>1. Replies => StreamOrder
  BY DEF Replies, RepliesWhole, Whole, Increasing, StreamOrder
<1> QED BY <1>1, RepliesInvariance, PTL

-----------------------------------------------------------------------------
(***************************************************************************)
(* The refinement of RequestService.                                       *)
(***************************************************************************)
WaitingOn == {k \in Sockets : session[k] \in {"request", "async"}}
AnswerOf  == [k \in Sockets |-> [chunks |-> reply[k].chunks,
                                 verdict |-> reply[k].verdict,
                                 ends |-> reply[k].ends]]

\* A step of the abstract service, or none.
Promised == [Service!Next]_(Service!vars)

\* What the abstract service sees is in session, asked and reply.
LEMMA ServiceSees ==
  /\ UNCHANGED Service!vars <=> UNCHANGED <<WaitingOn, asked, AnswerOf>>
  /\ UNCHANGED <<session, asked, reply>> => UNCHANGED Service!vars
BY DEF Service!vars, WaitingOn, AnswerOf

\* The end of a reply on a session that waits is the abstract Finish.
LEMMA EndFinishes ==
  ASSUME TypeOK, RepliesWhole, NEW k \in Sockets, NEW v, EndReply(k, v),
         session[k] \in {"request", "async"},
         session'[k] \notin {"request", "async"},
         \A l \in Sockets \ {k} : session'[l] = session[l], asked' = asked,
         v \in Service!Allowed(asked[k]),
         v = "none" \/ reply[k].chunks = <<>>
  PROVE  Promised
<1>1. reply[k].ends = 0
  BY DEF RepliesWhole, Whole
<1>2. /\ reply'[k].chunks = reply[k].chunks /\ reply'[k].verdict = v
      /\ reply'[k].ends = 1
      /\ \A l \in Sockets \ {k} : reply'[l] = reply[l]
  BY <1>1 DEF EndReply, TypeOK, ServerTypeOK
<1>3. k \in WaitingOn /\ WaitingOn' = WaitingOn \ {k}
  BY DEF WaitingOn
<1>4. AnswerOf' = [AnswerOf EXCEPT ![k].verdict = v, ![k].ends = 1]
  BY <1>2 DEF AnswerOf
<1>5. AnswerOf[k].chunks = reply[k].chunks /\ AnswerOf[k].ends = 0
  BY <1>1 DEF AnswerOf
<1>6. Service!Finish(k, v)
  BY <1>3, <1>4, <1>5 DEF Service!Finish, WaitingOn, AnswerOf
<1> QED BY <1>6 DEF Promised, Service!Next

\* A client's request is the abstract Ask.
LEMMA AskIsAsk ==
  ASSUME TypeOK, NEW k \in Sockets, NEW target \in Requested, Ask(k, target)
  PROVE  Promised
<1>1. /\ session[k] = "idle" /\ session'[k] = "request"
      /\ \A l \in Sockets \ {k} : session'[l] = session[l]
      /\ reply'[k] = NoReply
      /\ \A l \in Sockets \ {k} : reply'[l] = reply[l]
      /\ asked' = [asked EXCEPT ![k] = target]
  BY DEF Ask, TypeOK, ServerTypeOK
<1>2. k \notin WaitingOn /\ WaitingOn' = WaitingOn \cup {k}
  BY <1>1 DEF WaitingOn
<1>3. AnswerOf' = [AnswerOf EXCEPT ![k] = Service!NoAnswer]
  <2>1. /\ reply'[k].chunks = <<>> /\ reply'[k].verdict = "none"
        /\ reply'[k].ends = 0
    BY <1>1 DEF NoReply
  <2>2. \A l \in Sockets \ {k} : reply'[l] = reply[l]
    BY <1>1
  <2> QED BY <2>1, <2>2 DEF AnswerOf, Service!NoAnswer
<1>4. Service!Ask(k, target)
  BY <1>1, <1>2, <1>3 DEF Service!Ask, WaitingOn, AnswerOf
<1>5. target \in Service!Targets
  BY PathAssumption DEF Targets, Endpoints, GateEndpoints, Service!Targets
<1> QED BY <1>4, <1>5 DEF Promised, Service!Next

\* A piece that the data worker sends is the next of the abstract stream.
LEMMA SendIsStream ==
  ASSUME IInv, Replies, SendsData PROVE Promised
<1>0. PICK s, c, k, p :
        /\ s = jobData[Head(work).arg].slot /\ c = jobData[Head(work).arg].chunk
        /\ k = slot[s].req /\ p = chunkData[c]
  OBVIOUS
<1>1. /\ work # <<>> /\ Head(work).fn = "data" /\ work' = Tail(work)
      /\ SendChunk(k, slot[s].started, p)
      /\ session' = session /\ asked' = asked
  BY <1>0 DEF SendsData, RunData, TakeWork
<1>2. /\ 1 \in DataItems /\ DataSlot(1) = s /\ Piece(1) = p
  BY <1>0, <1>1, WorkTail DEF DataItems, DataSlot, DataChunk, Piece, IInv,
                              SlotOwnership
<1>3. s \in Live /\ k \in Sockets /\ session[k] = "async"
  BY <1>0, <1>2, EarlyAreLive, LiveWait
<1>4. /\ p \in 1..MaxLog
      /\ \A m \in DOMAIN reply[k].chunks : reply[k].chunks[m] < p
  BY <1>0, <1>2, <1>3 DEF Replies, QueuedInOrder, Sent
<1>5. asked[k] = "/get-log"
  BY <1>0, <1>2, EarlyAreLive DEF IInv, Routing, LogSlots, AskedOf
<1>6. /\ reply'[k].chunks = Append(reply[k].chunks, p)
      /\ reply'[k].verdict = reply[k].verdict
      /\ reply'[k].ends = reply[k].ends
      /\ \A l \in Sockets \ {k} : reply'[l] = reply[l]
  BY <1>1, <1>3 DEF SendChunk, IInv, TypeOK, ServerTypeOK
<1>7. k \in WaitingOn /\ WaitingOn' = WaitingOn
  BY <1>1, <1>3 DEF WaitingOn
<1>8. AnswerOf' = [AnswerOf EXCEPT ![k].chunks = Append(@, p)]
  BY <1>3, <1>6 DEF AnswerOf
<1>9. AnswerOf[k].chunks = reply[k].chunks
  BY <1>3 DEF AnswerOf
<1>10. Service!Stream(k, p)
  BY <1>1, <1>4, <1>5, <1>7, <1>8, <1>9 DEF Service!Stream, WaitingOn, AnswerOf
<1> QED BY <1>3, <1>4, <1>10 DEF Promised, Service!Next

\* A restart is the abstract Reboot.
LEMMA RestartIsReboot == ASSUME Restart PROVE Promised
<1>1. WaitingOn' = {} /\ AnswerOf' = [k \in Sockets |-> Service!NoAnswer]
  BY DEF Restart, WaitingOn, AnswerOf, NoReply, Service!NoAnswer
<1>2. Service!Reboot
  BY <1>1 DEF Restart, Service!Reboot, WaitingOn, AnswerOf
<1> QED BY <1>2 DEF Promised, Service!Next

\* An answer through a live slot that nothing was sent through is a Finish.
LEMMA RespondFinishes ==
  ASSUME IInv, Replies, NEW s \in Early, NEW v, Respond(s, v),
         v \in Service!Allowed(AskedOf(s)), asked' = asked
  PROVE  Promised
<1>1. PICK k \in Sockets : k = slot[s].req /\ session[k] = "async"
  BY EarlyAreLive, LiveWait
<1>2. /\ EndReply(k, v) /\ session'[k] = "idle"
      /\ \A l \in Sockets \ {k} : session'[l] = session[l]
  BY <1>1 DEF Respond, IInv, TypeOK, ServerTypeOK
<1>3. reply[k].chunks = <<>>
  BY <1>1 DEF Replies, Unsent, Sent
<1> QED BY <1>1, <1>2, <1>3, EndFinishes DEF IInv, Replies, AskedOf

\* The refusal in an endpoint callback.
LEMMA RefuseFinishes == ASSUME IInv, Replies, Refuse PROVE Promised
<1>1. httpd.slot \in Early /\ Respond(httpd.slot, "failure") /\ asked' = asked
  BY DEF Refuse, Early
<1>2. AskedOf(httpd.slot) \in Endpoints
  BY <1>1, EarlyAreLive DEF IInv, Routing
<1>3. "failure" \in Service!Allowed(AskedOf(httpd.slot))
  BY <1>2 DEF Service!Allowed, Endpoints, GateEndpoints
<1> QED BY <1>1, <1>3, RespondFinishes

\* The answer of the event loop task.
LEMMA InformFinishes == ASSUME IInv, Replies, Inform PROVE Promised
<1>1. loop.slot \in Early /\ Respond(loop.slot, loop.verdict) /\ asked' = asked
  BY DEF Inform, Early
<1>2. loop.verdict \in Service!Allowed(AskedOf(loop.slot))
  BY DEF Inform, Replies, AnswersFit
<1> QED BY <1>1, <1>2, RespondFinishes

\* The 404 of a target that is no endpoint.
LEMMA NotFoundFinishes ==
  ASSUME IInv, Replies, NEW k \in Sockets, NotFound(k) PROVE Promised
<1>1. /\ session[k] = "request" /\ EndReply(k, "404") /\ asked' = asked
      /\ asked[k] \notin Endpoints
      /\ session'[k] = "idle"
      /\ \A l \in Sockets \ {k} : session'[l] = session[l]
  BY DEF NotFound, IInv, TypeOK, ServerTypeOK
<1>2. asked[k] = "unmatched"
  BY <1>1 DEF IInv, TypeOK, ServerTypeOK, Targets
<1>3. "404" \in Service!Allowed(asked[k])
  BY <1>2 DEF Service!Allowed
<1>4. reply[k].chunks = <<>>
  BY <1>1 DEF Replies, RepliesWhole, Whole
<1> QED BY <1>1, <1>3, <1>4, EndFinishes DEF IInv, Replies

\* The last chunk that the close worker sends.
LEMMA CloseFinishes == ASSUME IInv, Replies, RunClose PROVE Promised
<1>0. PICK s : s = Head(work).arg
  OBVIOUS
<1>1. /\ work # <<>> /\ Head(work).fn = "close" /\ asked' = asked
      /\ EndReply(slot[s].req, "none")
      /\ session' = [session EXCEPT ![slot[s].req] = "closing"]
  BY <1>0 DEF RunClose, TakeWork
<1>2. s \in Held("close")
  <2>1. Head(work) \in Range(work)
    BY <1>1, TailElements DEF IInv, TypeOK, ServerTypeOK, Range
  <2> QED BY <1>0, <1>1, <2>1, HeldIs DEF WorkSlots
<1>3. s \in Live /\ AskedOf(s) = "/get-log"
  BY <1>2 DEF Live, Open, IInv, Routing, LogSlots
<1>4. PICK k \in Sockets : k = slot[s].req /\ session[k] = "async"
  BY <1>3, LiveWait
<1>5. /\ EndReply(k, "none") /\ session'[k] = "closing"
      /\ \A l \in Sockets \ {k} : session'[l] = session[l]
  BY <1>1, <1>4 DEF IInv, TypeOK, ServerTypeOK
<1>6. "none" \in Service!Allowed(asked[k])
  BY <1>3, <1>4 DEF AskedOf, Service!Allowed
<1> QED BY <1>1, <1>4, <1>5, <1>6, EndFinishes DEF IInv, Replies

\* What the abstract service does not see of a session: that its request is
\* detached, and that it is deleted.
LEMMA SessionUnseen ==
  ASSUME UNCHANGED <<asked, reply>>, NEW k \in Sockets,
         \A l \in Sockets \ {k} : session'[l] = session[l],
         session[k] \in {"request", "async"}
           <=> session'[k] \in {"request", "async"}
  PROVE  Promised
<1>1. WaitingOn' = WaitingOn /\ AnswerOf' = AnswerOf
  BY DEF WaitingOn, AnswerOf
<1> QED BY <1>1, ServiceSees DEF Promised

\* Every step of the node is a step of the abstract service, or none.
LEMMA NextPromised ==
  ASSUME IInv, Replies, [Next]_vars PROVE Promised
<1> USE DEF clientVars, serverVars
<1>1. CASE UNCHANGED <<session, asked, reply>>
  BY <1>1, ServiceSees DEF Promised
<1>2. ASSUME NEW k \in Sockets, HandleSession(k) PROVE Promised
  <2>1. CASE AcceptRequest(k)
    <3>1. /\ session[k] = "request" /\ session'[k] = "async"
          /\ \A l \in Sockets \ {k} : session'[l] = session[l]
          /\ UNCHANGED <<asked, reply>>
      BY <2>1 DEF AcceptRequest, IInv, TypeOK, ServerTypeOK
    <3> QED BY <3>1, SessionUnseen
  <2>2. CASE NotFound(k)
    BY <2>2, NotFoundFinishes
  <2> QED BY <1>1, <1>2, <2>1, <2>2 DEF HandleSession, SlotsExhausted
<1>3. CASE RunSessClose
  <2>0. PICK k : k = Head(work).arg
    OBVIOUS
  <2>1. /\ work # <<>> /\ Head(work).fn = "sessClose"
        /\ session' = [session EXCEPT ![k] = "idle"]
        /\ UNCHANGED <<asked, reply>>
    BY <1>3, <2>0 DEF RunSessClose, TakeWork
  <2>2. Head(work) \in Range(work) /\ Head(work) \in WorkItem
    BY <2>1, TailElements DEF IInv, TypeOK, ServerTypeOK, Range
  <2>3. k \in Sockets /\ session[k] = "closing"
    BY <2>0, <2>1, <2>2 DEF WorkItem, IInv, Closings
  <2>4. session'[k] = "idle"
        /\ \A l \in Sockets \ {k} : session'[l] = session[l]
    BY <2>1, <2>3 DEF IInv, TypeOK, ServerTypeOK
  <2> QED BY <2>1, <2>3, <2>4, SessionUnseen
<1>4. CASE ClientStep
  BY <1>4, AskIsAsk DEF ClientStep, IInv
<1>5. CASE HandleWork
  BY <1>1, <1>3, <1>5, SendIsStream, CloseFinishes
     DEF HandleWork, RunWork, RunFinalize, SendsData
<1>6. CASE HttpdContinues
  BY <1>1, <1>6, RefuseFinishes
     DEF HttpdContinues, EndData, QueueFinalize, PostRequest, PostFails, Release
<1>7. CASE LoopStep
  BY <1>1, <1>7, InformFinishes, RestartIsReboot
     DEF LoopStep, SendCommand, CommandRefused, HandleLog, DelegatePost,
         HandleOta, HandleSendStatus, InformRelease, HandleRebootRequired
<1>8. CASE RadioStep \/ OtaStep
  BY <1>1, <1>8 DEF RadioStep, RadioReports, ReportSend, LoseReport, OtaStep,
                    UpdateStarts, UpdateEnds
<1>9. CASE DelegateStep
  BY <1>1, <1>9 DEF DelegateStep, AllocChunk, AllocJob, QueueData, DropData,
                    DelegateTake, ReadPiece, EndOfLog
<1>10. CASE PanicReboot \/ UNCHANGED vars
  BY <1>1, <1>10, RestartIsReboot DEF PanicReboot, vars
<1> QED
  BY <1>2, <1>4, <1>5, <1>6, <1>7, <1>8, <1>9, <1>10 DEF Next

\* The node keeps what RequestService promises its clients, for any number of
\* sessions, slots, chunks and jobs and whatever posts and items are lost:
\* one reply to a request, of the kind its endpoint answers with, a log in
\* order, and nothing after the end (http_server.c with its callers).
THEOREM ServiceKept == Spec => ServiceSpec
<1>1. Init => Service!Init
  BY DEF Init, ServerInit, NoReply, Service!Init, Service!NoAnswer
<1>2. IInv /\ Replies /\ [Next]_vars => Promised
  BY NextPromised
<1> QED
  BY <1>1, <1>2, Invariance, RepliesInvariance, PTL
     DEF Spec, ServiceSpec, Service!Spec, Promised

\* A reply that has ended belongs to no request that still waits, it ended
\* with a word of the endpoint that was asked, and a refusal is all of its
\* reply.
EndedFits ==
  \A k \in Sockets : AnswerOf[k].ends = 1 =>
    /\ k \notin WaitingOn
    /\ AnswerOf[k].verdict \in Service!Allowed(asked[k])
    /\ AnswerOf[k].verdict = "none" \/ AnswerOf[k].chunks = <<>>

\* What has been sent to a client that has its whole reply stays as it is,
\* until the client asks again or the node restarts.
EndIsFinal ==
  \A k \in Sockets : AnswerOf[k].ends = 1 =>
    AnswerOf'[k] \in {AnswerOf[k], Service!NoAnswer}

\* One step of the service, for both.
LEMMA PromisedEnds ==
  ASSUME asked \in [Sockets -> Targets], EndedFits, Promised
  PROVE  EndedFits' /\ EndIsFinal
<1> USE DEF EndedFits, EndIsFinal
<1>1. ASSUME NEW k \in Sockets, NEW target, Service!Ask(k, target)
      PROVE  EndedFits' /\ EndIsFinal
  <2>1. /\ WaitingOn' = WaitingOn \cup {k}
        /\ asked' = [asked EXCEPT ![k] = target]
        /\ AnswerOf' = [AnswerOf EXCEPT ![k] = Service!NoAnswer]
    BY <1>1 DEF Service!Ask, WaitingOn, AnswerOf
  <2>2. /\ AnswerOf'[k] = Service!NoAnswer
        /\ \A l \in Sockets \ {k} : AnswerOf'[l] = AnswerOf[l]
                                    /\ asked'[l] = asked[l]
    BY <2>1 DEF AnswerOf
  <2>3. Service!NoAnswer.ends = 0
    BY DEF Service!NoAnswer
  <2> QED BY <2>1, <2>2, <2>3
<1>2. ASSUME NEW k \in Sockets, NEW n, Service!Stream(k, n)
      PROVE  EndedFits' /\ EndIsFinal
  <2>1. /\ WaitingOn' = WaitingOn /\ k \in WaitingOn /\ asked' = asked
        /\ AnswerOf' = [AnswerOf EXCEPT ![k].chunks = Append(@, n)]
    BY <1>2 DEF Service!Stream, WaitingOn, AnswerOf
  <2>2. /\ AnswerOf'[k].ends = AnswerOf[k].ends
        /\ \A l \in Sockets \ {k} : AnswerOf'[l] = AnswerOf[l]
    BY <2>1 DEF AnswerOf
  <2> QED BY <2>1, <2>2
<1>3. ASSUME NEW k \in Sockets, NEW v \in Service!Allowed(asked[k]),
             Service!Finish(k, v)
      PROVE  EndedFits' /\ EndIsFinal
  <2>1. /\ WaitingOn' = WaitingOn \ {k} /\ k \in WaitingOn /\ asked' = asked
        /\ v = "none" \/ AnswerOf[k].chunks = <<>>
        /\ AnswerOf' = [AnswerOf EXCEPT ![k].verdict = v, ![k].ends = 1]
    BY <1>3 DEF Service!Finish, WaitingOn, AnswerOf
  <2>2. /\ AnswerOf'[k].verdict = v /\ AnswerOf'[k].chunks = AnswerOf[k].chunks
        /\ \A l \in Sockets \ {k} : AnswerOf'[l] = AnswerOf[l]
    BY <2>1, ZenonT(30) DEF AnswerOf
  <2> QED BY <2>1, <2>2
<1>4. ASSUME Service!Reboot PROVE EndedFits' /\ EndIsFinal
  <2>1. AnswerOf' = [k \in Sockets |-> Service!NoAnswer]
    BY <1>4 DEF Service!Reboot, AnswerOf
  <2>2. \A k \in Sockets : AnswerOf'[k] = Service!NoAnswer
                           /\ AnswerOf'[k].ends = 0
    BY <2>1 DEF Service!NoAnswer
  <2> QED BY <2>2
<1>5. ASSUME UNCHANGED Service!vars PROVE EndedFits' /\ EndIsFinal
  BY <1>5, ServiceSees
<1> QED BY <1>1, <1>2, <1>3, <1>4, <1>5 DEF Promised, Service!Next

\* A client that has its whole reply has one that its endpoint gives, and
\* nothing waits for it any more (http_server_close_async_connection,
\* http_async_close_worker).
THEOREM EndsAsPromised == Spec => []EndedFits
<1>1. Init => EndedFits
  BY DEF Init, ServerInit, NoReply, EndedFits, AnswerOf
<1>2. IInv => asked \in [Sockets -> Targets]
  BY DEF IInv, TypeOK, ServerTypeOK
<1>3. IInv /\ Replies /\ [Next]_vars => Promised
  BY NextPromised
<1> QED
  BY <1>1, <1>2, <1>3, PromisedEnds, Invariance, RepliesInvariance, PTL DEF Spec

\* No task adds to a reply that has ended, changes it or ends it again, be a
\* late work item or a late event of that request still on its way.
THEOREM NothingAfterEnd == Spec => [][EndIsFinal]_vars
<1>1. IInv => asked \in [Sockets -> Targets]
  BY DEF IInv, TypeOK, ServerTypeOK
<1>2. IInv /\ Replies /\ [Next]_vars => Promised
  BY NextPromised
<1> QED
  BY <1>1, <1>2, PromisedEnds, EndsAsPromised, Invariance, RepliesInvariance, PTL
     DEF Spec
=============================================================================
