-------------------------- MODULE RequestPathProofs -------------------------
(***************************************************************************)
(* IInv is an inductive invariant of RequestPath, for any number of        *)
(* sockets, slots, chunks and jobs, and the theorems that follow from it.  *)
(***************************************************************************)
EXTENDS RequestPathLemmas, FiniteSetTheorems

\* The endpoint callback posts the request: httpd passes the slot to the
\* event queue.
LEMMA PostRequestKeeps == IInv /\ PostRequest => IInv'
<1> SUFFICES ASSUME IInv, PostRequest PROVE IInv'
  OBVIOUS
<1> DEFINE s == httpd.slot
           e == Event(EventOf(asked[slot[s].req]), s, TRUE)
<1>1. /\ s \in Held("httpd") /\ s \in Slots /\ s # None
      /\ s \in usedSlots /\ s \in Live
      /\ httpd.at = "post" /\ httpd.job = None
  BY HeldIs DEF IInv, Shape, PostRequest, SlotOwnership, HeldInUse, Holders,
                Live, Open, TypeOK, ServerTypeOK
<1>2. /\ AskedOf(s) \in Endpoints
      /\ e.ctx = s
      /\ e.id \in RequestIds
      /\ e \in EventRecord
      /\ e.id \in GateEvents => AskedOf(e.ctx) =
           IF e.id = "GATE_OPEN" THEN "/open-gate" ELSE "/close-gate"
      /\ e.id = "LOG" => AskedOf(e.ctx) = "/get-log"
      /\ e.id # "REBOOT_REQUIRED"
  BY <1>1 DEF IInv, Routing, EventRecord, EventIds, ContextIds, RequestIds,
       GateEvents, Endpoints, GateEndpoints, Event, EventOf, AskedOf
<1>3. /\ eventQ' = Append(eventQ, e) /\ httpd' = IdleTask
      /\ UNCHANGED <<panicked, session, asked, reply>>
      /\ UNCHANGED <<slot, usedSlots, usedChunks, usedJobs, chunkData, jobData>>
      /\ UNCHANGED <<work, chunkCall>>
      /\ UNCHANGED <<loop, radio, delegateQ, delegate, startUpdate, ota>>
  BY DEF PostRequest, poolVars, clientVars
<1>4. eventQ \in Seq(EventRecord) /\ eventQ' \in Seq(EventRecord)
      /\ Range(eventQ') = Range(eventQ) \cup {e}
  <2>1. eventQ \in Seq(EventRecord)
    BY DEF IInv, TypeOK, TaskTypeOK, EventRecord
  <2> HIDE DEF e
  <2> QED BY <1>2, <1>3, <2>1, AppendElements, AppendRange
<1>5. TypeOK'
  <2>1. ServerTypeOK'
    BY <1>3 DEF IInv, TypeOK, ServerTypeOK, IdleTask
  <2>2. TaskTypeOK'
    BY <1>3, <1>4 DEF IInv, TypeOK, TaskTypeOK, EventRecord
  <2> QED BY <2>1, <2>2 DEF TypeOK
<1>6. Shape'
  BY <1>1, <1>2, <1>3, <1>4 DEF IInv, Shape, IdleTask
<1>7. s \notin Held("event") /\ s \notin DataSlots
  BY <1>1 DEF IInv, SlotOwnership, HeldApart, Streaming, StreamsApart, Holders
<1>8. Held("event")' = Held("event") \cup {s} /\ EventsOnce'
  BY <1>1, <1>2, <1>3, <1>7, EventAppend DEF IInv, SlotOwnership
<1>9. \A h \in Holders \ {"event"} : Held(h)' \subseteq Held(h) \ {s}
  BY <1>1, <1>3, HeldIs, HeldIsNext
     DEF IInv, SlotOwnership, HeldApart, Holders, IdleTask, WorkSlots
<1>10. Open' \subseteq Live
  BY <1>1, <1>3, <1>8, <1>9 DEF Live, Open, IdleTask, Holders
<1>11. /\ HeldApart' /\ HeldInUse' /\ WorkOnce'
       /\ Closings' /\ Jobbing' /\ Streaming' /\ Waiting'
       /\ Live' \subseteq Live
       /\ DataSlots' = DataSlots
       /\ \A t : AskedOf(t)' = AskedOf(t)
  <2>1. "event" \in Holders
    BY DEF Holders
  <2> HIDE DEF s, e
  <2> QED BY <1>1, <1>3, <1>7, <1>8, <1>9, <1>10, <2>1, PassOn DEF IdleTask
<1>12. SlotOwnership'
  BY <1>3, <1>8, <1>11 DEF IInv, SlotOwnership, IsInjective, RadioOnce
<1>13. Routing'
  <2>1. LogSlots' \subseteq LogSlots
    BY <1>9, <1>11 DEF LogSlots, Holders
  <2> QED BY <1>2, <1>3, <1>4, <1>11, <2>1 DEF IInv, Routing
<1> QED BY <1>5, <1>6, <1>11, <1>12, <1>13 DEF IInv

-----------------------------------------------------------------------------
(***************************************************************************)
(* The event loop task.                                                    *)
(***************************************************************************)

\* The handlers that keep the context of an event for the rest of their run.
LEMMA EventToLoopKeeps ==
  ASSUME IInv, NEW id \in ContextIds, TakeEvent(id),
         NEW at \in {"delegate", "answer"}, NEW v \in Verdicts,
         loop' = [at |-> at, slot |-> Head(eventQ).ctx, verdict |-> v],
         at = "delegate" => id = "LOG",
         startUpdate' \in BOOLEAN,
         UNCHANGED <<serverVars, radio, delegateQ, delegate, ota>>
  PROVE  IInv'
<1> DEFINE s == Head(eventQ).ctx
<1>1. /\ loop.at = "idle" /\ loop.slot = None
      /\ eventQ # <<>> /\ Head(eventQ).id = id /\ eventQ' = Tail(eventQ)
      /\ id # "REBOOT_REQUIRED"
      /\ UNCHANGED <<panicked, session, asked, reply>>
      /\ UNCHANGED <<slot, usedSlots, usedChunks, usedJobs, chunkData, jobData>>
      /\ UNCHANGED <<work, httpd, chunkCall>>
      /\ UNCHANGED <<radio, delegateQ, delegate, ota>>
  BY DEF IInv, TakeEvent, Shape, ContextIds, RequestIds, GateEvents,
         serverVars, clientVars, poolVars
<1>2. /\ eventQ \in Seq(EventRecord) /\ eventQ' \in Seq(EventRecord)
      /\ Range(eventQ) = {Head(eventQ)} \cup Range(eventQ')
      /\ Head(eventQ) \in EventRecord
  <2>1. eventQ \in Seq(EventRecord)
    BY DEF IInv, TypeOK, TaskTypeOK, EventRecord
  <2> QED BY <1>1, <2>1, TailElements, TailRange
<1>3. s # None /\ s \in Slots
  BY <1>1, <1>2 DEF IInv, Shape, EventRecord
<1>4. /\ EventsOnce'
      /\ Held("event")' = Held("event") \ {s}
      /\ s \in Held("event")
  BY <1>1, <1>3, EventTail DEF IInv, SlotOwnership
<1>5. s \in usedSlots /\ s \in Live /\ s \notin DataSlots
  BY <1>4 DEF IInv, SlotOwnership, HeldInUse, Holders, Live, Open, Streaming,
              StreamsApart
<1>6. TypeOK'
  <2>1. ServerTypeOK'
    BY <1>1 DEF IInv, TypeOK, ServerTypeOK
  <2>2. TaskTypeOK'
    BY <1>1, <1>2, <1>3 DEF IInv, TypeOK, TaskTypeOK, EventRecord
  <2> QED BY <2>1, <2>2 DEF TypeOK
<1>7. Shape'
  BY <1>1, <1>2, <1>3 DEF IInv, Shape
<1>8. \A h \in Holders \ {"loop"} : Held(h)' \subseteq Held(h) \ {s}
  BY <1>1, <1>4, HeldIs, HeldIsNext
     DEF IInv, SlotOwnership, HeldApart, Holders, WorkSlots
<1>9. Held("loop")' \subseteq Held("loop") \cup {s} /\ "loop" \in Holders
  BY HeldIs, HeldIsNext DEF Holders
<1>10. Open' \subseteq Live
  BY <1>1, <1>5, <1>8 DEF Live, Open, Holders
<1>11. /\ HeldApart' /\ HeldInUse' /\ WorkOnce'
       /\ Closings' /\ Jobbing' /\ Streaming' /\ Waiting'
       /\ Live' \subseteq Live
       /\ DataSlots' = DataSlots
       /\ \A t : AskedOf(t)' = AskedOf(t)
  <2> HIDE DEF s
  <2> QED BY <1>1, <1>5, <1>8, <1>9, <1>10, PassOn
<1>12. SlotOwnership'
  BY <1>1, <1>4, <1>11 DEF IInv, SlotOwnership, IsInjective, RadioOnce
<1>13. Routing'
  <2>1. LogSlots' \subseteq LogSlots
    BY <1>8, <1>11 DEF LogSlots, Holders
  <2>2. id = "LOG" => AskedOf(s) = "/get-log"
    BY <1>1, <1>2 DEF IInv, Routing
  <2> QED BY <1>1, <1>2, <1>11, <2>1, <2>2 DEF IInv, Routing
<1> QED BY <1>6, <1>7, <1>11, <1>12, <1>13 DEF IInv

\* The codec refuses a command: the loop keeps the slot for its answer.
LEMMA CommandRefusedKeeps ==
  ASSUME IInv, NEW id \in GateEvents, CommandRefused(id) PROVE IInv'
<1>1. id \in ContextIds /\ "Failed" \in Verdicts
  BY DEF ContextIds, RequestIds, Verdicts
<1> QED
  BY <1>1, EventToLoopKeeps
     DEF CommandRefused, IInv, TypeOK, TaskTypeOK

\* A log request: the loop keeps the slot for delegate_post.
LEMMA HandleLogKeeps == ASSUME IInv, HandleLog PROVE IInv'
<1>1. "LOG" \in ContextIds /\ "none" \in Verdicts
  BY DEF ContextIds, RequestIds, Verdicts
<1>2. loop' = [at |-> "delegate", slot |-> Head(eventQ).ctx,
               verdict |-> "none"]
  BY DEF HandleLog, IdleLoop
<1> QED
  BY <1>1, <1>2, EventToLoopKeeps DEF HandleLog, IInv, TypeOK, TaskTypeOK

\* An update request: the loop keeps the slot for its answer.
LEMMA HandleOtaKeeps == ASSUME IInv, HandleOta PROVE IInv'
<1>1. "OTA_UPDATE" \in ContextIds /\ "success" \in Verdicts
  BY DEF ContextIds, RequestIds, Verdicts
<1> QED BY <1>1, EventToLoopKeeps DEF HandleOta

\* The outcome of a command: the loop keeps the slot for its answer.
LEMMA HandleSendStatusKeeps == ASSUME IInv, HandleSendStatus PROVE IInv'
<1>1. "SEND_STATUS" \in ContextIds /\ {"success", "Failed"} \subseteq Verdicts
  BY DEF ContextIds, Verdicts
<1>2. PICK v \in {"success", "Failed"} :
        loop' = [at |-> "answer", slot |-> Head(eventQ).ctx, verdict |-> v]
  BY DEF HandleSendStatus
<1> QED
  BY <1>1, <1>2, EventToLoopKeeps DEF HandleSendStatus, IInv, TypeOK, TaskTypeOK

\* The codec takes a command: the slot passes from the event to the codec.
LEMMA SendCommandKeeps ==
  ASSUME IInv, NEW id \in GateEvents, SendCommand(id) PROVE IInv'
<1> DEFINE s == Head(eventQ).ctx
           cmd == [command |-> CommandOf(id), ctx |-> s]
<1>1. /\ eventQ # <<>> /\ Head(eventQ).id = id /\ eventQ' = Tail(eventQ)
      /\ id # "REBOOT_REQUIRED"
      /\ radio' = radio \cup {cmd}
      /\ UNCHANGED <<panicked, session, asked, reply>>
      /\ UNCHANGED <<slot, usedSlots, usedChunks, usedJobs, chunkData, jobData>>
      /\ UNCHANGED <<work, httpd, chunkCall>>
      /\ UNCHANGED <<loop, delegateQ, delegate, startUpdate, ota>>
  BY DEF SendCommand, TakeEvent, GateEvents, serverVars, clientVars, poolVars
<1>2. /\ eventQ \in Seq(EventRecord) /\ eventQ' \in Seq(EventRecord)
      /\ Range(eventQ) = {Head(eventQ)} \cup Range(eventQ')
      /\ Head(eventQ) \in EventRecord
  <2>1. eventQ \in Seq(EventRecord)
    BY DEF IInv, TypeOK, TaskTypeOK, EventRecord
  <2> QED BY <1>1, <2>1, TailElements, TailRange
<1>3. s # None /\ s \in Slots
  BY <1>1, <1>2 DEF IInv, Shape, EventRecord
<1>4. /\ EventsOnce'
      /\ Held("event")' = Held("event") \ {s}
      /\ s \in Held("event")
  BY <1>1, <1>3, EventTail DEF IInv, SlotOwnership
<1>5. /\ s \in usedSlots /\ s \in Live /\ s \notin DataSlots
      /\ s \notin Held("radio")
  BY <1>4 DEF IInv, SlotOwnership, HeldInUse, HeldApart, Holders, Live, Open,
              Streaming, StreamsApart
<1>6. /\ cmd \in [command : Commands, ctx : Slots]
      /\ AskedOf(s) =
           IF cmd.command = "OPEN_LOCK" THEN "/open-gate" ELSE "/close-gate"
  BY <1>1, <1>2, <1>3 DEF IInv, Routing, CommandOf, GateEvents, Commands
<1>7. TypeOK'
  <2>1. ServerTypeOK'
    BY <1>1 DEF IInv, TypeOK, ServerTypeOK
  <2>2. TaskTypeOK'
    <3> HIDE DEF cmd
    <3> QED BY <1>1, <1>2, <1>6 DEF IInv, TypeOK, TaskTypeOK, EventRecord
  <2> QED BY <2>1, <2>2 DEF TypeOK
<1>8. Shape'
  BY <1>1, <1>2 DEF IInv, Shape
<1>9. Held("radio")' = Held("radio") \cup {s} /\ "radio" \in Holders
  <2>1. cmd.ctx = s
    OBVIOUS
  <2> HIDE DEF s, cmd
  <2>2. {c.ctx : c \in radio \cup {cmd}} = {c.ctx : c \in radio} \cup {s}
    BY <2>1
  <2> QED BY <1>1, <2>2, HeldIs, HeldIsNext DEF Holders
<1>10. \A h \in Holders \ {"radio"} : Held(h)' \subseteq Held(h) \ {s}
  BY <1>1, <1>4, HeldIs, HeldIsNext
     DEF IInv, SlotOwnership, HeldApart, Holders, WorkSlots
<1>11. Open' \subseteq Live
  BY <1>1, <1>5, <1>9, <1>10 DEF Live, Open, Holders
<1>12. /\ HeldApart' /\ HeldInUse' /\ WorkOnce'
       /\ Closings' /\ Jobbing' /\ Streaming' /\ Waiting'
       /\ Live' \subseteq Live
       /\ DataSlots' = DataSlots
       /\ \A t : AskedOf(t)' = AskedOf(t)
  <2> HIDE DEF s, cmd
  <2> QED BY <1>1, <1>5, <1>9, <1>10, <1>11, PassOn
<1>13. SlotOwnership'
  <2>1. RadioOnce'
    BY <1>1, <1>5, HeldIs DEF IInv, SlotOwnership, RadioOnce
  <2> QED BY <1>1, <1>4, <1>12, <2>1 DEF IInv, SlotOwnership, IsInjective
<1>14. Routing'
  <2>1. LogSlots' \subseteq LogSlots
    BY <1>10, <1>12 DEF LogSlots, Holders
  <2> QED BY <1>1, <1>2, <1>6, <1>12, <2>1 DEF IInv, Routing
<1> QED BY <1>7, <1>8, <1>12, <1>13, <1>14 DEF IInv

\* delegate_post: the slot passes from the loop to the delegate queue.
LEMMA DelegatePostKeeps == ASSUME IInv, DelegatePost PROVE IInv'
<1> DEFINE s == loop.slot
<1>1. /\ loop.at = "delegate" /\ loop' = IdleLoop
      /\ delegateQ' = Append(delegateQ, s)
      /\ UNCHANGED <<panicked, session, asked, reply>>
      /\ UNCHANGED <<slot, usedSlots, usedChunks, usedJobs, chunkData, jobData>>
      /\ UNCHANGED <<work, httpd, chunkCall>>
      /\ UNCHANGED <<eventQ, radio, delegate, startUpdate, ota>>
  BY DEF DelegatePost, serverVars, clientVars, poolVars
<1>2. s # None /\ s \in Slots /\ s \in Held("loop")
  BY <1>1, HeldIs DEF IInv, Shape, TypeOK, TaskTypeOK
<1>3. /\ s \in usedSlots /\ s \in Live /\ s \notin DataSlots
      /\ s \notin Held("delegateQ")
      /\ AskedOf(s) = "/get-log"
  BY <1>1, <1>2 DEF IInv, SlotOwnership, HeldInUse, HeldApart, Holders, Live,
                    Open, Streaming, StreamsApart, Routing
<1>4. /\ IsInjective(delegateQ)'
      /\ Held("delegateQ")' = Held("delegateQ") \cup {s}
      /\ "delegateQ" \in Holders
  <2> HIDE DEF s
  <2> QED BY <1>1, <1>2, <1>3, DelegateAppend DEF IInv, SlotOwnership, Holders
<1>5. TypeOK'
  <2>1. ServerTypeOK'
    BY <1>1 DEF IInv, TypeOK, ServerTypeOK
  <2>2. delegateQ' \in Seq(Slots)
    BY <1>1, <1>2, AppendElements DEF IInv, TypeOK, TaskTypeOK
  <2>3. TaskTypeOK'
    BY <1>1, <2>2 DEF IInv, TypeOK, TaskTypeOK, IdleLoop, Verdicts
  <2> QED BY <2>1, <2>3 DEF TypeOK
<1>6. Shape'
  BY <1>1 DEF IInv, Shape, IdleLoop
<1>7. \A h \in Holders \ {"delegateQ"} : Held(h)' \subseteq Held(h) \ {s}
  BY <1>1, <1>2, HeldIs, HeldIsNext
     DEF IInv, SlotOwnership, HeldApart, Holders, WorkSlots, IdleLoop
<1>8. Open' \subseteq Live
  BY <1>1, <1>3, <1>4, <1>7 DEF Live, Open, Holders, IdleLoop
<1>9. /\ HeldApart' /\ HeldInUse' /\ WorkOnce'
      /\ Closings' /\ Jobbing' /\ Streaming' /\ Waiting'
      /\ Live' \subseteq Live
      /\ DataSlots' = DataSlots
      /\ \A t : AskedOf(t)' = AskedOf(t)
  <2> HIDE DEF s
  <2> QED BY <1>1, <1>3, <1>4, <1>7, <1>8, PassOn
<1>10. SlotOwnership'
  BY <1>1, <1>4, <1>9 DEF IInv, SlotOwnership, EventsOnce, RadioOnce
<1>11. Routing'
  <2>1. LogSlots' \subseteq LogSlots \cup {s}
    BY <1>4, <1>7, <1>9 DEF LogSlots, Holders
  <2> QED BY <1>1, <1>3, <1>9, <2>1 DEF IInv, Routing, IdleLoop
<1> QED BY <1>5, <1>6, <1>9, <1>10, <1>11 DEF IInv

\* The loop answers: the session is no longer that of a live slot.
LEMMA InformKeeps == ASSUME IInv, Inform PROVE IInv'
<1> DEFINE s == loop.slot
           k == slot[s].req
<1>1. /\ loop.at = "answer" /\ loop' = [loop EXCEPT !.at = "release"]
      /\ EndReply(k, loop.verdict)
      /\ session' = [session EXCEPT ![k] = "idle"]
      /\ UNCHANGED <<panicked, asked>>
      /\ UNCHANGED <<slot, usedSlots, usedChunks, usedJobs, chunkData, jobData>>
      /\ UNCHANGED <<work, httpd, chunkCall>>
      /\ UNCHANGED <<eventQ, radio, delegateQ, delegate, startUpdate, ota>>
  BY DEF Inform, Respond, poolVars
<1>2. s # None /\ s \in Slots /\ s \in Held("loop") /\ loop.verdict \in Verdicts
      /\ loop'.at = "release" /\ loop'.slot = s /\ loop'.verdict \in Verdicts
  BY <1>1, HeldIs DEF IInv, Shape, TypeOK, TaskTypeOK
<1>3. s \in Live /\ s \notin DataSlots
  BY <1>1, <1>2 DEF IInv, Holders, Live, Open, Streaming, StreamsApart
<1>4. k \in Sockets /\ session[k] = "async"
  BY <1>3 DEF IInv, Waiting
<1>5. TypeOK'
  <2>1. ServerTypeOK'
    BY <1>1, <1>2, <1>4, EndReplyType, SMTT(30) DEF IInv, TypeOK, ServerTypeOK
  <2>2. TaskTypeOK'
    BY <1>1 DEF IInv, TypeOK, TaskTypeOK
  <2> QED BY <2>1, <2>2 DEF TypeOK
<1>6. Shape'
  BY <1>1, <1>2 DEF IInv, Shape
<1>7. \A h \in Holders : Held(h)' = Held(h)
  BY <1>1, <1>2, HeldIs, HeldIsNext DEF Holders, WorkSlots
<1>8. SlotOwnership'
  BY <1>1, <1>7 DEF IInv, SlotOwnership, HeldInUse, HeldApart, EventsOnce,
                    RadioOnce, WorkOnce, IsInjective
<1>9. Closings'
  BY <1>1, <1>4 DEF IInv, Closings
<1>10. Jobbing' /\ Streaming' /\ DataSlots' = DataSlots
  <2>1. Jobbing'
    BY <1>1, FrameJobbing DEF IInv
  <2> QED BY <1>1, <1>3, <1>7, <2>1, FrameStreaming, FrameData DEF IInv
<1>11. Live' \subseteq Live \ {s}
  <2>1. Open' \subseteq Open
    BY <1>1, <1>2, <1>7 DEF Open, Holders
  <2>2. s \notin Open'
    BY <1>1, <1>2, <1>7, HeldIs DEF Open, Holders, IInv, SlotOwnership, HeldApart
  <2> QED BY <1>3, <1>10, <2>1, <2>2 DEF Live
<1>12. Waiting'
  <2> HIDE DEF s
  <2> QED BY <1>1, <1>3, <1>11, Completed
<1>13. Routing'
  <2>1. LogSlots' = LogSlots /\ \A t : AskedOf(t)' = AskedOf(t)
    BY <1>1, <1>7, <1>10 DEF LogSlots, Holders, AskedOf
  <2> QED BY <1>1, <1>2, <1>11, <2>1 DEF IInv, Routing
<1> QED BY <1>5, <1>6, <1>8, <1>9, <1>10, <1>12, <1>13 DEF IInv

\* The loop gives the slot back.
LEMMA InformReleaseKeeps == ASSUME IInv, InformRelease PROVE IInv'
<1> DEFINE s == loop.slot
<1>1. /\ loop.at = "release" /\ loop' = IdleLoop
      /\ usedSlots' = usedSlots \ {s}
      /\ UNCHANGED <<panicked, session, asked, reply>>
      /\ UNCHANGED <<slot, usedChunks, usedJobs, chunkData, jobData>>
      /\ UNCHANGED <<work, httpd, chunkCall>>
      /\ UNCHANGED <<eventQ, radio, delegateQ, delegate, startUpdate, ota>>
  BY DEF InformRelease, FreeSlot, clientVars
<1>2. s # None /\ s \in Slots /\ s \in Held("loop") /\ s \notin DataSlots
  BY <1>1, HeldIs DEF IInv, Shape, TypeOK, TaskTypeOK, Streaming, StreamsApart,
     Holders
<1>3. TypeOK'
  <2>1. ServerTypeOK'
    BY <1>1 DEF IInv, TypeOK, ServerTypeOK
  <2>2. TaskTypeOK'
    BY <1>1 DEF IInv, TypeOK, TaskTypeOK, IdleLoop, Verdicts
  <2> QED BY <2>1, <2>2 DEF TypeOK
<1>4. Shape'
  BY <1>1 DEF IInv, Shape, IdleLoop
<1>5. /\ \A h \in Holders : Held(h)' \subseteq Held(h) \ {s}
      /\ \A h \in Holders \ {"loop"} : Held(h)' = Held(h)
  <2>1. \A h \in Holders \ {"loop"} : Held(h)' = Held(h)
    BY <1>1, HeldIs, HeldIsNext DEF Holders, WorkSlots
  <2>2. "loop" \in Holders /\ Held("loop")' = {}
    BY <1>1, HeldIsNext DEF Holders, IdleLoop
  <2> QED BY <1>2, <2>1, <2>2 DEF IInv, SlotOwnership, HeldApart
<1>6. SlotOwnership'
  <2>1. HeldInUse' /\ HeldApart'
    BY <1>1, <1>5, ReturnSlot DEF IInv, SlotOwnership
  <2> QED BY <1>1, <2>1 DEF IInv, SlotOwnership, EventsOnce, RadioOnce,
                            WorkOnce, IsInjective
<1>7. Closings' /\ Jobbing'
  BY <1>1, FrameJobbing DEF IInv, Closings
<1>8. Streaming' /\ DataSlots' = DataSlots
  BY <1>1, <1>2, <1>5, FrameData
     DEF IInv, Streaming, StreamsInUse, StreamsApart, StreamsFirst
<1>9. Live' \subseteq Live
  BY <1>1, <1>5, <1>8 DEF Live, Open, Holders, IdleLoop
<1>10. Waiting'
  BY <1>1, <1>9, FrameWaiting DEF IInv
<1>11. Routing'
  <2>1. LogSlots' = LogSlots /\ \A t : AskedOf(t)' = AskedOf(t)
    BY <1>1, <1>5, <1>8 DEF LogSlots, Holders, AskedOf
  <2> QED BY <1>1, <1>9, <2>1 DEF IInv, Routing, IdleLoop
<1> QED BY <1>3, <1>4, <1>6, <1>7, <1>8, <1>10, <1>11 DEF IInv
-----------------------------------------------------------------------------
(***************************************************************************)
(* Steps that leave every slot where it is.                                *)
(***************************************************************************)
\* A new request touches no slot.
LEMMA AskKeeps ==
  ASSUME IInv, NEW k \in Sockets, NEW target \in Requested, Ask(k, target),
         UNCHANGED taskVars
  PROVE  IInv'
<1>1. /\ session[k] = "idle"
      /\ session' = [session EXCEPT ![k] = "request"]
      /\ asked' = [asked EXCEPT ![k] = target]
      /\ reply' = [reply EXCEPT ![k] = NoReply]
      /\ UNCHANGED <<panicked, slot, usedSlots, usedChunks, usedJobs, chunkData,
                     jobData, work, httpd, chunkCall>>
      /\ UNCHANGED <<eventQ, loop, radio, delegateQ, delegate, startUpdate, ota>>
  BY DEF Ask, poolVars, taskVars
<1>2. TypeOK'
  <2>1. NoReply \in [heads : Nat, chunks : Seq(Nat), verdict : Verdicts,
                     ends : Nat]
    BY DEF NoReply, Verdicts
  <2>2. target \in Targets
    BY PathAssumption
  <2>3. ServerTypeOK'
    BY <1>1, <2>1, <2>2, SMTT(30) DEF IInv, TypeOK, ServerTypeOK
  <2> QED BY <1>1, <2>3 DEF IInv, TypeOK, TaskTypeOK
<1>3. Shape' /\ EventsOnce'
  BY <1>1 DEF IInv, Shape, SlotOwnership, EventsOnce
<1>4. Jobbing'
  BY <1>1, FrameJobbing DEF IInv
<1>5. (\A h \in Holders : Held(h)' = Held(h)) /\ Open' = Open
  BY <1>1, FrameHeld DEF holdVars
<1>6. \A q \in Sockets : session[q] \in {"async", "closing"} =>
        session'[q] = session[q] /\ asked'[q] = asked[q]
  BY <1>1 DEF IInv, TypeOK, ServerTypeOK
<1> QED BY <1>1, <1>2, <1>3, <1>4, <1>5, <1>6, Quiet, FrameData

\* A 404 touches no slot.
LEMMA NotFoundKeeps ==
  ASSUME IInv, NEW k \in Sockets, NotFound(k), UNCHANGED taskVars PROVE IInv'
<1>1. /\ session[k] = "request"
      /\ session' = [session EXCEPT ![k] = "idle"]
      /\ EndReply(k, "404")
      /\ UNCHANGED <<panicked, asked, slot, usedSlots, usedChunks, usedJobs,
                     chunkData, jobData, work, httpd, chunkCall>>
      /\ UNCHANGED <<eventQ, loop, radio, delegateQ, delegate, startUpdate, ota>>
  BY DEF NotFound, poolVars, taskVars
<1>2. TypeOK'
  <2>1. "404" \in Verdicts
    BY DEF Verdicts
  <2>2. ServerTypeOK'
    BY <1>1, <2>1, EndReplyType, SMTT(30) DEF IInv, TypeOK, ServerTypeOK
  <2> QED BY <1>1, <2>2 DEF IInv, TypeOK, TaskTypeOK
<1>3. Shape' /\ EventsOnce'
  BY <1>1 DEF IInv, Shape, SlotOwnership, EventsOnce
<1>4. Jobbing'
  BY <1>1, FrameJobbing DEF IInv
<1>5. (\A h \in Holders : Held(h)' = Held(h)) /\ Open' = Open
  BY <1>1, FrameHeld DEF holdVars
<1>6. \A q \in Sockets : session[q] \in {"async", "closing"} =>
        session'[q] = session[q] /\ asked'[q] = asked[q]
  BY <1>1 DEF IInv, TypeOK, ServerTypeOK
<1> QED BY <1>1, <1>2, <1>3, <1>4, <1>5, <1>6, Quiet, FrameData

\* The panic itself, and a pass of the OTA task that installs nothing.
LEMMA SameSlotsKeeps ==
  ASSUME IInv,
         panicked' \in BOOLEAN, startUpdate' \in BOOLEAN,
         ota' \in {"waiting", "updating"},
         UNCHANGED <<session, asked, reply, slot, usedSlots, usedChunks,
                     usedJobs, chunkData, jobData, work, httpd, chunkCall>>,
         UNCHANGED <<eventQ, loop, radio, delegateQ, delegate>>
  PROVE  IInv'
<1>1. TypeOK'
  BY DEF IInv, TypeOK, ServerTypeOK, TaskTypeOK
<1>2. Shape' /\ EventsOnce'
  BY DEF IInv, Shape, SlotOwnership, EventsOnce
<1>3. Jobbing'
  BY FrameJobbing DEF IInv
<1>4. (\A h \in Holders : Held(h)' = Held(h)) /\ Open' = Open
  BY FrameHeld DEF holdVars
<1> QED BY <1>1, <1>2, <1>3, <1>4, Quiet, FrameData

\* The OTA task posts the request for a restart, which carries no slot.
LEMMA UpdateEndsKeeps ==
  ASSUME IInv, NEW installed \in BOOLEAN, UpdateEnds(installed) PROVE IInv'
<1> DEFINE e == Event("REBOOT_REQUIRED", None, TRUE)
<1>1. /\ ota' = "waiting"
      /\ eventQ' = IF installed THEN Append(eventQ, e) ELSE eventQ
      /\ UNCHANGED <<panicked, session, asked, reply, slot, usedSlots,
                     usedChunks, usedJobs, chunkData, jobData, work, httpd,
                     chunkCall>>
      /\ UNCHANGED <<loop, radio, delegateQ, delegate, startUpdate>>
  BY DEF UpdateEnds, serverVars, clientVars, poolVars
<1>2. CASE ~installed
  BY <1>1, <1>2, SameSlotsKeeps DEF IInv, TypeOK, ServerTypeOK, TaskTypeOK
<1>3. CASE installed
  <2>1. /\ e \in EventRecord /\ e.ctx = None /\ e.id = "REBOOT_REQUIRED"
    BY DEF EventRecord, EventIds, Event
  <2>2. eventQ \in Seq(EventRecord)
    BY DEF IInv, TypeOK, TaskTypeOK, EventRecord
  <2>3. None \notin Held("event") /\ eventQ' = Append(eventQ, e)
    BY <1>1, <1>3, HeldIs
  <2> HIDE DEF e
  <2>4. EventsOnce' /\ Held("event")' = Held("event")
    BY <2>1, <2>3, EventAppend DEF IInv, SlotOwnership
  <2>5. eventQ' \in Seq(EventRecord) /\ Range(eventQ') = Range(eventQ) \cup {e}
    BY <2>1, <2>2, <2>3, AppendElements, AppendRange
  <2>6. TypeOK'
    BY <1>1, <2>5 DEF IInv, TypeOK, ServerTypeOK, TaskTypeOK, EventRecord
  <2>7. Shape'
    BY <1>1, <2>1, <2>5 DEF IInv, Shape
  <2>8. Jobbing'
    BY <1>1, FrameJobbing DEF IInv
  <2>9. (\A h \in Holders : Held(h)' = Held(h)) /\ Open' = Open
    <3>1. \A h \in Holders : Held(h)' = Held(h)
      BY <1>1, <2>4, HeldIs, HeldIsNext DEF Holders, WorkSlots
    <3> QED BY <1>1, <3>1 DEF Open, Holders
  <2> QED
    BY <1>1, <2>1, <2>4, <2>5, <2>6, <2>7, <2>8, <2>9, Quiet, FrameData
<1> QED BY <1>2, <1>3

\* The post fails: the slot stays with httpd.
LEMMA PostFailsKeeps == ASSUME IInv, PostFails PROVE IInv'
<1>1. /\ httpd.at = "post" /\ httpd' = [httpd EXCEPT !.at = "refuse"]
      /\ UNCHANGED <<panicked, session, asked, reply, slot, usedSlots,
                     usedChunks, usedJobs, chunkData, jobData, work, chunkCall>>
      /\ UNCHANGED <<eventQ, loop, radio, delegateQ, delegate, startUpdate, ota>>
  BY DEF PostFails, clientVars, poolVars, taskVars
<1>2. TypeOK' /\ httpd'.at = "refuse" /\ httpd'.slot = httpd.slot
      /\ httpd'.job = httpd.job
  <2>1. ServerTypeOK' /\ httpd'.at = "refuse" /\ httpd'.slot = httpd.slot
        /\ httpd'.job = httpd.job
    BY <1>1 DEF IInv, TypeOK, ServerTypeOK
  <2> QED BY <1>1, <2>1 DEF IInv, TypeOK, TaskTypeOK
<1>3. Shape' /\ EventsOnce'
  BY <1>1, <1>2 DEF IInv, Shape, SlotOwnership, EventsOnce
<1>4. Jobbing'
  BY <1>1, <1>2, FrameJobbing DEF IInv
<1>5. (\A h \in Holders : Held(h)' = Held(h)) /\ Open' = Open
  BY <1>1, <1>2, HeldIs, HeldIsNext DEF Holders, Open, WorkSlots
<1> QED BY <1>1, <1>2, <1>3, <1>4, <1>5, Quiet, FrameData
-----------------------------------------------------------------------------
(***************************************************************************)
(* The chunks and jobs.                                                    *)
(***************************************************************************)
\* The argument of a data item is a job.
LEMMA ItemsAreJobs == TypeOK => \A i \in DataItems : work[i].arg \in Jobs
<1> SUFFICES ASSUME TypeOK, NEW i \in DataItems PROVE work[i].arg \in Jobs
  OBVIOUS
<1>1. work[i] \in WorkItem /\ work[i].fn = "data"
  BY DEF TypeOK, ServerTypeOK, DataItems
<1> QED BY <1>1 DEF WorkItem

\* The job just run is given back: no queued item refers to it.
LEMMA EndDataKeeps ==
  ASSUME IInv, EndData, UNCHANGED taskVars PROVE IInv'
<1> DEFINE j == httpd.job
           empty == [slot |-> None, chunk |-> None]
<1>1. /\ httpd.at = "freeJob" /\ httpd' = IdleTask
      /\ usedJobs' = usedJobs \ {j}
      /\ jobData' = [jobData EXCEPT ![j] = empty]
      /\ UNCHANGED <<panicked, session, asked, reply, slot, usedSlots,
                     usedChunks, chunkData, work, chunkCall>>
      /\ UNCHANGED <<eventQ, loop, radio, delegateQ, delegate, startUpdate, ota>>
  BY DEF EndData, FreeJob, clientVars, taskVars
<1>2. httpd.slot = None /\ j \in Jobs /\ j \in usedJobs
  BY <1>1 DEF IInv, Shape, Jobbing, TypeOK, ServerTypeOK
<1>3. TypeOK'
  <2>1. ServerTypeOK'
    BY <1>1, <1>2 DEF IInv, TypeOK, ServerTypeOK, IdleTask
  <2> QED BY <1>1, <2>1 DEF IInv, TypeOK, TaskTypeOK
<1>4. Shape' /\ EventsOnce'
  BY <1>1, <1>2 DEF IInv, Shape, SlotOwnership, EventsOnce, IdleTask
<1>5. DataItems' = DataItems
  BY <1>1 DEF DataItems
<1>6. \A i \in DataItems : /\ work[i].arg \in Jobs
                           /\ work[i].arg # j
                           /\ jobData'[work[i].arg] = jobData[work[i].arg]
  <2>1. \A i \in DataItems : work[i].arg \in Jobs /\ work[i].arg # j
    BY ItemsAreJobs DEF IInv, Jobbing, PoolOwnership, DataItems
  <2> QED BY <1>1, <2>1 DEF IInv, TypeOK, ServerTypeOK
<1>7. \A i \in DataItems : /\ DataSlot(i)' = DataSlot(i)
                           /\ DataChunk(i)' = DataChunk(i)
  BY <1>1, <1>6 DEF DataSlot, DataChunk
<1>8. Jobbing'
  <2>1. PoolOwnership'
    BY <1>1, <1>5, <1>6, ServerAssumption
       DEF IInv, Jobbing, PoolOwnership, DataItems, IdleTask
  <2> QED BY <1>1, <1>2, <1>5, <1>7, <2>1 DEF IInv, Jobbing, IdleTask
<1>9. (\A h \in Holders : Held(h)' = Held(h)) /\ Open' = Open
  <2>1. \A h \in Holders : Held(h)' = Held(h)
    BY <1>1, <1>2, HeldIs, HeldIsNext DEF Holders, WorkSlots, IdleTask
  <2> QED BY <1>1, <2>1 DEF Open, Holders, IdleTask
<1> QED BY <1>1, <1>3, <1>4, <1>7, <1>8, <1>9, Quiet

\* The steps of http_server_send_chunked_response that queue nothing.
LEMMA CallKeeps ==
  ASSUME IInv, TypeOK', Shape', Jobbing',
         delegate'.slot = delegate.slot,
         UNCHANGED <<panicked, session, asked, reply, slot, usedSlots,
                     jobData, work, httpd>>,
         UNCHANGED <<eventQ, loop, radio, delegateQ, startUpdate, ota>>
  PROVE  IInv'
<1>1. EventsOnce'
  BY DEF IInv, SlotOwnership, EventsOnce
<1>2. (\A h \in Holders : Held(h)' = Held(h)) /\ Open' = Open
  <2>1. \A h \in Holders : Held(h)' = Held(h)
    BY HeldIs, HeldIsNext DEF Holders, WorkSlots
  <2> QED BY <2>1 DEF Open, Holders
<1> QED BY <1>1, <1>2, Quiet, FrameData

\* A piece of the log is read: a call to the server begins.
LEMMA ReadPieceKeeps == ASSUME IInv, ReadPiece PROVE IInv'
<1>1. /\ delegate.slot # None /\ chunkCall.at = "idle"
      /\ delegate' = [delegate EXCEPT !.n = @ + 1]
      /\ chunkCall' = [at |-> "chunk", slot |-> delegate.slot,
                       n |-> delegate.n + 1, chunk |-> None, job |-> None]
      /\ UNCHANGED <<panicked, session, asked, reply, slot, usedSlots,
                     usedChunks, usedJobs, chunkData, jobData, work, httpd>>
      /\ UNCHANGED <<eventQ, loop, radio, delegateQ, startUpdate, ota>>
  BY DEF ReadPiece, NoCall, clientVars, poolVars
<1>2. delegate'.slot = delegate.slot /\ delegate.slot \in Slots
      /\ delegate.n \in Nat /\ delegate' \in [slot : Slots \cup {None}, n : Nat]
  BY <1>1 DEF IInv, TypeOK, TaskTypeOK
<1>3. TypeOK'
  <2>1. ServerTypeOK'
    BY <1>1, <1>2 DEF IInv, TypeOK, ServerTypeOK
  <2> QED BY <1>1, <1>2, <2>1 DEF IInv, TypeOK, TaskTypeOK
<1>4. Shape'
  BY <1>1, <1>2 DEF IInv, Shape
<1>5. Jobbing'
  <2>1. chunkCall'.job = chunkCall.job /\ chunkCall'.chunk = chunkCall.chunk
    BY <1>1 DEF IInv, Shape
  <2> QED BY <1>1, <2>1, FrameJobbing DEF IInv
<1> QED BY <1>1, <1>2, <1>3, <1>4, <1>5, CallKeeps

\* The call gets a free chunk, or none.
LEMMA AllocChunkKeeps ==
  ASSUME IInv, AllocChunk, UNCHANGED taskVars PROVE IInv'
<1>1. PICK c \in Alloc(Chunks, usedChunks) :
        /\ usedChunks' = usedChunks \cup ({c} \ {None})
        /\ chunkCall' = [chunkCall EXCEPT !.at = "job", !.chunk = c]
  BY DEF AllocChunk
<1>2. /\ chunkCall.at = "chunk"
      /\ UNCHANGED <<panicked, session, asked, reply, slot, usedSlots,
                     usedJobs, chunkData, jobData, work, httpd>>
      /\ UNCHANGED <<eventQ, loop, radio, delegateQ, delegate, startUpdate, ota>>
  BY DEF AllocChunk, clientVars, taskVars
<1>3. c \in (Chunks \ usedChunks) \cup {None}
  BY <1>1 DEF Alloc
<1>4. /\ chunkCall'.at = "job" /\ chunkCall'.chunk = c
      /\ chunkCall'.job = chunkCall.job /\ chunkCall'.slot = chunkCall.slot
      /\ chunkCall'.n = chunkCall.n
      /\ chunkCall' = [at |-> "job", slot |-> chunkCall.slot,
                       n |-> chunkCall.n, chunk |-> c, job |-> chunkCall.job]
  BY <1>1 DEF IInv, TypeOK, ServerTypeOK
<1>5. TypeOK'
  <2>1. ServerTypeOK'
    BY <1>1, <1>2, <1>3, <1>4 DEF IInv, TypeOK, ServerTypeOK
  <2> QED BY <1>2, <2>1 DEF IInv, TypeOK, TaskTypeOK
<1>6. Shape'
  BY <1>2, <1>4 DEF IInv, Shape
<1>7. Jobbing'
  <2>1. PoolOwnership'
    BY <1>1, <1>2, <1>3, <1>4, ServerAssumption
       DEF IInv, Jobbing, PoolOwnership, DataItems, DataChunk
  <2> QED
    BY <1>1, <1>2, <1>3, <1>4, <2>1, FrameData DEF IInv, Jobbing
<1> QED BY <1>2, <1>5, <1>6, <1>7, CallKeeps

\* The call gets a free job, or none.
LEMMA AllocJobKeeps ==
  ASSUME IInv, AllocJob, UNCHANGED taskVars PROVE IInv'
<1>1. PICK j \in Alloc(Jobs, usedJobs) :
        /\ usedJobs' = usedJobs \cup ({j} \ {None})
        /\ chunkCall' = [chunkCall EXCEPT !.at = "queue", !.job = j]
  BY DEF AllocJob
<1>2. /\ chunkCall.at = "job"
      /\ UNCHANGED <<panicked, session, asked, reply, slot, usedSlots,
                     usedChunks, chunkData, jobData, work, httpd>>
      /\ UNCHANGED <<eventQ, loop, radio, delegateQ, delegate, startUpdate, ota>>
  BY DEF AllocJob, clientVars, taskVars
<1>3. j \in (Jobs \ usedJobs) \cup {None}
  BY <1>1 DEF Alloc
<1>4. /\ chunkCall'.at = "queue" /\ chunkCall'.job = j
      /\ chunkCall'.chunk = chunkCall.chunk /\ chunkCall'.slot = chunkCall.slot
      /\ chunkCall' = [at |-> "queue", slot |-> chunkCall.slot,
                       n |-> chunkCall.n, chunk |-> chunkCall.chunk, job |-> j]
  BY <1>1 DEF IInv, TypeOK, ServerTypeOK
<1>5. TypeOK'
  <2>1. ServerTypeOK'
    BY <1>1, <1>2, <1>3, <1>4 DEF IInv, TypeOK, ServerTypeOK
  <2> QED BY <1>2, <2>1 DEF IInv, TypeOK, TaskTypeOK
<1>6. Shape'
  BY <1>2, <1>4 DEF IInv, Shape
<1>7. Jobbing'
  <2>1. PoolOwnership'
    <3>1. \A i \in DataItems : work[i].arg \in usedJobs \cap Jobs
                               /\ work[i].arg # httpd.job
      BY ItemsAreJobs DEF IInv, Jobbing, PoolOwnership, DataItems
    <3> QED
      BY <1>1, <1>2, <1>3, <1>4, <3>1, ServerAssumption
         DEF IInv, Jobbing, PoolOwnership, DataItems
  <2> QED
    BY <1>1, <1>2, <1>3, <1>4, <2>1, FrameData DEF IInv, Jobbing
<1> QED BY <1>2, <1>5, <1>6, <1>7, CallKeeps

\* The call gives back the one object it got.
LEMMA DropDataKeeps ==
  ASSUME IInv, DropData, UNCHANGED taskVars PROVE IInv'
<1>1. /\ chunkCall.at = "queue" /\ chunkCall' = NoCall
      /\ usedChunks' = usedChunks \ {chunkCall.chunk}
      /\ usedJobs' = usedJobs \ {chunkCall.job}
      /\ UNCHANGED <<panicked, session, asked, reply, slot, usedSlots,
                     chunkData, jobData, work, httpd>>
      /\ UNCHANGED <<eventQ, loop, radio, delegateQ, delegate, startUpdate, ota>>
  BY DEF DropData, clientVars, taskVars
<1>2. TypeOK'
  <2>1. ServerTypeOK'
    BY <1>1 DEF IInv, TypeOK, ServerTypeOK, NoCall
  <2> QED BY <1>1, <2>1 DEF IInv, TypeOK, TaskTypeOK
<1>3. Shape'
  BY <1>1 DEF IInv, Shape, NoCall
<1>4. Jobbing'
  <2>1. \A i \in DataItems : work[i].arg \in Jobs /\ DataChunk(i) \in Chunks
    BY ItemsAreJobs DEF IInv, Jobbing
  <2>2. PoolOwnership'
    BY <1>1, <2>1, ServerAssumption
       DEF IInv, Jobbing, PoolOwnership, DataItems, DataChunk, NoCall
  <2> QED BY <1>1, <2>1, <2>2, FrameData DEF IInv, Jobbing, NoCall
<1> QED BY <1>1, <1>2, <1>3, <1>4, CallKeeps
-----------------------------------------------------------------------------
(***************************************************************************)
(* Refusals and releases in the httpd task.                                *)
(***************************************************************************)
\* The callback answers the request whose post failed.
LEMMA RefuseKeeps == ASSUME IInv, Refuse PROVE IInv'
<1> DEFINE s == httpd.slot
           k == slot[s].req
<1>1. /\ httpd.at = "refuse" /\ httpd' = [httpd EXCEPT !.at = "release"]
      /\ EndReply(k, "failure")
      /\ session' = [session EXCEPT ![k] = "idle"]
      /\ UNCHANGED <<panicked, asked>>
      /\ UNCHANGED <<slot, usedSlots, usedChunks, usedJobs, chunkData, jobData>>
      /\ UNCHANGED <<work, chunkCall>>
      /\ UNCHANGED <<eventQ, loop, radio, delegateQ, delegate, startUpdate, ota>>
  BY DEF Refuse, Respond, poolVars, taskVars
<1>2. /\ s # None /\ s \in Slots /\ s \in Held("httpd")
      /\ httpd'.at = "release" /\ httpd'.slot = s /\ httpd'.job = httpd.job
      /\ "failure" \in Verdicts
  BY <1>1, HeldIs DEF IInv, Shape, TypeOK, ServerTypeOK, Verdicts
<1>3. s \in Live /\ s \notin DataSlots
  BY <1>1, <1>2 DEF IInv, Holders, Live, Open, Streaming, StreamsApart
<1>4. k \in Sockets /\ session[k] = "async"
  BY <1>3 DEF IInv, Waiting
<1>5. TypeOK'
  <2>1. ServerTypeOK'
    BY <1>1, <1>2, <1>4, EndReplyType DEF IInv, TypeOK, ServerTypeOK
  <2> QED BY <1>1, <2>1 DEF IInv, TypeOK, TaskTypeOK
<1>6. Shape'
  BY <1>1, <1>2 DEF IInv, Shape
<1>7. \A h \in Holders : Held(h)' = Held(h)
  BY <1>1, <1>2, HeldIs, HeldIsNext DEF Holders, WorkSlots
<1>8. SlotOwnership'
  BY <1>1, <1>7 DEF IInv, SlotOwnership, HeldInUse, HeldApart, EventsOnce,
                    RadioOnce, WorkOnce, IsInjective
<1>9. Closings'
  BY <1>1, <1>4 DEF IInv, Closings
<1>10. Jobbing' /\ Streaming' /\ DataSlots' = DataSlots
  <2>1. Jobbing'
    BY <1>1, <1>2, FrameJobbing DEF IInv
  <2> QED BY <1>1, <1>3, <1>7, <2>1, FrameStreaming, FrameData DEF IInv
<1>11. Live' \subseteq Live \ {s}
  <2>1. Open' \subseteq Open
    BY <1>1, <1>2, <1>7 DEF Open, Holders
  <2>2. s \notin Open'
    BY <1>1, <1>2, <1>7, HeldIs DEF Open, Holders, IInv, SlotOwnership, HeldApart
  <2> QED BY <1>3, <1>10, <2>1, <2>2 DEF Live
<1>12. Waiting'
  <2> HIDE DEF s
  <2> QED BY <1>1, <1>3, <1>11, Completed
<1>13. Routing'
  <2>1. LogSlots' = LogSlots /\ \A t : AskedOf(t)' = AskedOf(t)
    BY <1>1, <1>7, <1>10 DEF LogSlots, Holders, AskedOf
  <2> QED BY <1>1, <1>2, <1>11, <2>1 DEF IInv, Routing
<1> QED BY <1>5, <1>6, <1>8, <1>9, <1>10, <1>12, <1>13 DEF IInv

\* The callback gives the slot back.
LEMMA ReleaseKeeps == ASSUME IInv, Release PROVE IInv'
<1> DEFINE s == httpd.slot
<1>1. /\ httpd.at = "release" /\ httpd' = IdleTask
      /\ usedSlots' = usedSlots \ {s}
      /\ UNCHANGED <<panicked, session, asked, reply>>
      /\ UNCHANGED <<slot, usedChunks, usedJobs, chunkData, jobData>>
      /\ UNCHANGED <<work, chunkCall>>
      /\ UNCHANGED <<eventQ, loop, radio, delegateQ, delegate, startUpdate, ota>>
  BY DEF Release, FreeSlot, clientVars, taskVars
<1>2. /\ s # None /\ s \in Slots /\ s \in Held("httpd") /\ s \notin DataSlots
      /\ httpd'.job = httpd.job
  BY <1>1, HeldIs DEF IInv, Shape, TypeOK, ServerTypeOK, Streaming,
     StreamsApart, Holders, IdleTask
<1>3. TypeOK'
  <2>1. ServerTypeOK'
    BY <1>1 DEF IInv, TypeOK, ServerTypeOK, IdleTask
  <2> QED BY <1>1, <2>1 DEF IInv, TypeOK, TaskTypeOK
<1>4. Shape'
  BY <1>1 DEF IInv, Shape, IdleTask
<1>5. /\ \A h \in Holders : Held(h)' \subseteq Held(h) \ {s}
      /\ \A h \in Holders \ {"httpd"} : Held(h)' = Held(h)
  <2>1. \A h \in Holders \ {"httpd"} : Held(h)' = Held(h)
    BY <1>1, HeldIs, HeldIsNext DEF Holders, WorkSlots
  <2>2. "httpd" \in Holders /\ Held("httpd")' = {}
    BY <1>1, HeldIsNext DEF Holders, IdleTask
  <2> QED BY <1>2, <2>1, <2>2 DEF IInv, SlotOwnership, HeldApart
<1>6. SlotOwnership'
  <2>1. HeldInUse' /\ HeldApart'
    BY <1>1, <1>5, ReturnSlot DEF IInv, SlotOwnership
  <2> QED BY <1>1, <2>1 DEF IInv, SlotOwnership, EventsOnce, RadioOnce,
                            WorkOnce, IsInjective
<1>7. Closings' /\ Jobbing'
  BY <1>1, <1>2, FrameJobbing DEF IInv, Closings
<1>8. Streaming' /\ DataSlots' = DataSlots
  BY <1>1, <1>2, <1>5, FrameData
     DEF IInv, Streaming, StreamsInUse, StreamsApart, StreamsFirst
<1>9. Live' \subseteq Live
  BY <1>1, <1>5, <1>8 DEF Live, Open, Holders, IdleTask
<1>10. Waiting'
  BY <1>1, <1>9, FrameWaiting DEF IInv
<1>11. Routing'
  <2>1. LogSlots' = LogSlots /\ \A t : AskedOf(t)' = AskedOf(t)
    BY <1>1, <1>5, <1>8 DEF LogSlots, Holders, AskedOf
  <2> QED BY <1>1, <1>9, <2>1 DEF IInv, Routing, IdleTask
<1> QED BY <1>3, <1>4, <1>6, <1>7, <1>8, <1>10, <1>11 DEF IInv

-----------------------------------------------------------------------------
(***************************************************************************)
(* The codec's reports.                                                    *)
(***************************************************************************)
\* The codec reports: the slot passes from the codec to the event queue.
LEMMA ReportSendKeeps ==
  ASSUME IInv, NEW cmd \in radio, NEW ok \in BOOLEAN, ReportSend(cmd, ok)
  PROVE  IInv'
<1> DEFINE s == cmd.ctx
           e == Event("SEND_STATUS", s, ok)
<1>1. /\ eventQ' = Append(eventQ, e) /\ radio' = radio \ {cmd}
      /\ UNCHANGED <<panicked, session, asked, reply>>
      /\ UNCHANGED <<slot, usedSlots, usedChunks, usedJobs, chunkData, jobData>>
      /\ UNCHANGED <<work, httpd, chunkCall>>
      /\ UNCHANGED <<loop, delegateQ, delegate, startUpdate, ota>>
  BY DEF ReportSend, serverVars, clientVars, poolVars
<1>2. /\ s \in Held("radio") /\ s \in Slots /\ s # None
      /\ cmd \in [command : Commands, ctx : Slots]
  BY HeldIs, ServerAssumption DEF IInv, TypeOK, TaskTypeOK
<1>3. /\ s \in usedSlots /\ s \in Live /\ s \notin DataSlots
      /\ s \notin Held("event") /\ AskedOf(s) \in Endpoints
  BY <1>2 DEF IInv, SlotOwnership, HeldInUse, HeldApart, Holders, Live, Open,
              Streaming, StreamsApart, Routing
<1>4. /\ e \in EventRecord /\ e.ctx = s /\ e.id = "SEND_STATUS"
  BY <1>2 DEF EventRecord, EventIds, ContextIds, Event
<1>5. /\ EventsOnce'
      /\ Held("event")' = Held("event") \cup {s}
      /\ eventQ' \in Seq(EventRecord)
      /\ Range(eventQ') = Range(eventQ) \cup {e}
      /\ "event" \in Holders
  <2>1. eventQ \in Seq(EventRecord)
    BY DEF IInv, TypeOK, TaskTypeOK, EventRecord
  <2> HIDE DEF e
  <2>2. eventQ' \in Seq(EventRecord) /\ Range(eventQ') = Range(eventQ) \cup {e}
    BY <1>1, <1>4, <2>1, AppendElements, AppendRange
  <2>3. EventsOnce' /\ Held("event")' = Held("event") \cup {s}
    BY <1>1, <1>2, <1>3, <1>4, EventAppend DEF IInv, SlotOwnership
  <2> QED BY <2>2, <2>3 DEF Holders
<1>6. TypeOK'
  <2>1. ServerTypeOK'
    BY <1>1 DEF IInv, TypeOK, ServerTypeOK
  <2> QED BY <1>1, <1>5, <2>1 DEF IInv, TypeOK, TaskTypeOK, EventRecord
<1>7. Shape'
  BY <1>1, <1>2, <1>4, <1>5 DEF IInv, Shape
<1>8. \A h \in Holders \ {"event"} : Held(h)' \subseteq Held(h) \ {s}
  <2>1. Held("radio")' \subseteq Held("radio") \ {s}
    BY <1>1, HeldIs, HeldIsNext DEF IInv, SlotOwnership, RadioOnce
  <2>2. \A h \in Holders \ {"event", "radio"} : Held(h)' = Held(h)
    BY <1>1, HeldIs, HeldIsNext DEF Holders, WorkSlots
  <2> QED BY <1>2, <2>1, <2>2 DEF IInv, SlotOwnership, HeldApart, Holders
<1>9. Open' \subseteq Live
  BY <1>1, <1>3, <1>5, <1>8 DEF Live, Open, Holders
<1>10. /\ HeldApart' /\ HeldInUse' /\ WorkOnce'
       /\ Closings' /\ Jobbing' /\ Streaming' /\ Waiting'
       /\ Live' \subseteq Live
       /\ DataSlots' = DataSlots
       /\ \A t : AskedOf(t)' = AskedOf(t)
  <2> HIDE DEF s, e
  <2> QED BY <1>1, <1>3, <1>5, <1>8, <1>9, PassOn
<1>11. SlotOwnership'
  BY <1>1, <1>5, <1>10 DEF IInv, SlotOwnership, IsInjective, RadioOnce
<1>12. Routing'
  <2>1. LogSlots' \subseteq LogSlots
    BY <1>8, <1>10 DEF LogSlots, Holders
  <2> QED BY <1>1, <1>4, <1>5, <1>10, <2>1 DEF IInv, Routing, GateEvents
<1> QED BY <1>6, <1>7, <1>10, <1>11, <1>12 DEF IInv

\* A command is lost: its slot stays allocated, in nobody's hands.
LEMMA LoseReportKeeps ==
  ASSUME IInv, NEW cmd \in radio, LoseReport(cmd) PROVE IInv'
<1>1. /\ radio' = radio \ {cmd}
      /\ UNCHANGED <<panicked, session, asked, reply>>
      /\ UNCHANGED <<slot, usedSlots, usedChunks, usedJobs, chunkData, jobData>>
      /\ UNCHANGED <<work, httpd, chunkCall>>
      /\ UNCHANGED <<eventQ, loop, delegateQ, delegate, startUpdate, ota>>
  BY DEF LoseReport, serverVars, clientVars, poolVars
<1>2. TypeOK'
  <2>1. ServerTypeOK'
    BY <1>1 DEF IInv, TypeOK, ServerTypeOK
  <2> QED BY <1>1, <2>1 DEF IInv, TypeOK, TaskTypeOK
<1>3. Shape' /\ Closings'
  BY <1>1 DEF IInv, Shape, Closings
<1>4. \A h \in Holders : Held(h)' \subseteq Held(h)
  BY <1>1, HeldIs, HeldIsNext DEF Holders, WorkSlots
<1>5. SlotOwnership'
  <2>1. HeldApart' /\ HeldInUse'
    BY <1>1, <1>4, KeepSlots DEF IInv, SlotOwnership
  <2> QED BY <1>1, <2>1 DEF IInv, SlotOwnership, EventsOnce, RadioOnce,
                            WorkOnce, IsInjective
<1>6. Jobbing' /\ DataSlots' = DataSlots
  BY <1>1, FrameJobbing, FrameData DEF IInv
<1>7. Streaming'
  BY <1>1, <1>4, <1>6, FrameData
     DEF IInv, Streaming, StreamsInUse, StreamsApart, StreamsFirst
<1>8. Live' \subseteq Live
  BY <1>1, <1>4, <1>6 DEF Live, Open, Holders
<1>9. Waiting'
  BY <1>1, <1>8, FrameWaiting DEF IInv
<1>10. Routing'
  <2>1. LogSlots' \subseteq LogSlots /\ \A t : AskedOf(t)' = AskedOf(t)
    BY <1>1, <1>4, <1>6 DEF LogSlots, Holders, AskedOf
  <2> QED BY <1>1, <1>8, <2>1 DEF IInv, Routing
<1> QED BY <1>2, <1>3, <1>5, <1>6, <1>7, <1>9, <1>10 DEF IInv

-----------------------------------------------------------------------------
(***************************************************************************)
(* The delegate task.                                                      *)
(***************************************************************************)
\* The delegate task takes a slot from its queue.
LEMMA DelegateTakeKeeps == ASSUME IInv, DelegateTake PROVE IInv'
<1> DEFINE s == Head(delegateQ)
<1>1. /\ delegate.slot = None /\ delegateQ # <<>>
      /\ delegate' = [slot |-> s, n |-> 0] /\ delegateQ' = Tail(delegateQ)
      /\ UNCHANGED <<panicked, session, asked, reply>>
      /\ UNCHANGED <<slot, usedSlots, usedChunks, usedJobs, chunkData, jobData>>
      /\ UNCHANGED <<work, httpd, chunkCall>>
      /\ UNCHANGED <<eventQ, loop, radio, startUpdate, ota>>
  BY DEF DelegateTake, serverVars, clientVars, poolVars
<1>2. /\ IsInjective(delegateQ)'
      /\ Held("delegateQ")' = Held("delegateQ") \ {s}
      /\ s \in Held("delegateQ") /\ s \in Slots /\ s # None
  <2> HIDE DEF s
  <2> QED BY <1>1, DelegateTail, ServerAssumption DEF IInv, SlotOwnership, s
<1>3. s \in usedSlots /\ s \in Live /\ "delegate" \in Holders
  BY <1>2 DEF IInv, SlotOwnership, HeldInUse, Holders, Live, Open
<1>4. TypeOK'
  <2>1. ServerTypeOK'
    BY <1>1 DEF IInv, TypeOK, ServerTypeOK
  <2>2. delegateQ' \in Seq(Slots)
    BY <1>1, TailElements DEF IInv, TypeOK, TaskTypeOK
  <2> QED BY <1>1, <1>2, <2>1, <2>2 DEF IInv, TypeOK, TaskTypeOK
<1>5. Shape'
  BY <1>1 DEF IInv, Shape
<1>6. \A h \in Holders \ {"delegate"} : Held(h)' \subseteq Held(h) \ {s}
  <2>1. \A h \in Holders \ {"delegate", "delegateQ"} : Held(h)' = Held(h)
    BY <1>1, HeldIs, HeldIsNext DEF Holders, WorkSlots
  <2> QED BY <1>2, <2>1 DEF IInv, SlotOwnership, HeldApart, Holders
<1>7. Held("delegate")' \subseteq Held("delegate") \cup {s}
  BY <1>1, HeldIs, HeldIsNext
<1>8. Open' \subseteq Live
  BY <1>1, <1>3, <1>6, <1>7 DEF Live, Open, Holders
<1>9. /\ HeldApart' /\ HeldInUse' /\ WorkOnce'
      /\ Closings' /\ Jobbing' /\ Streaming' /\ Waiting'
      /\ Live' \subseteq Live
      /\ DataSlots' = DataSlots
      /\ \A t : AskedOf(t)' = AskedOf(t)
  <2> HIDE DEF s
  <2> QED BY <1>1, <1>3, <1>6, <1>7, <1>8, PassOn
<1>10. SlotOwnership'
  BY <1>1, <1>2, <1>9 DEF IInv, SlotOwnership, EventsOnce, RadioOnce
<1>11. Routing'
  <2>1. LogSlots' \subseteq LogSlots
    BY <1>2, <1>6, <1>7, <1>9 DEF LogSlots, Holders
  <2> QED BY <1>1, <1>9, <2>1 DEF IInv, Routing
<1> QED BY <1>4, <1>5, <1>9, <1>10, <1>11 DEF IInv
\* The end of the log: the slot passes to the close item, or to nobody.
LEMMA EndOfLogKeeps == ASSUME IInv, EndOfLog PROVE IInv'
<1> DEFINE s == delegate.slot
<1>1. /\ s # None /\ chunkCall.at = "idle"
      /\ delegate' = [slot |-> None, n |-> 0]
      /\ QueueWork([fn |-> "close", arg |-> s])
      /\ UNCHANGED <<panicked, session, asked, reply>>
      /\ UNCHANGED <<slot, usedSlots, usedChunks, usedJobs, chunkData, jobData>>
      /\ UNCHANGED <<httpd, chunkCall>>
      /\ UNCHANGED <<eventQ, loop, radio, delegateQ, startUpdate, ota>>
  BY DEF EndOfLog, QueueClose, CloseWork, IdleDelegate, clientVars, poolVars
<1>2. s \in Held("delegate") /\ s \in Slots
  BY <1>1, HeldIs DEF IInv, TypeOK, TaskTypeOK
<1>3. /\ s \in usedSlots /\ s \in Live /\ s \in LogSlots
      /\ s \notin Held("close") /\ s \notin Held("finalize")
  BY <1>2 DEF IInv, SlotOwnership, HeldInUse, HeldApart, Holders, Live, Open,
              LogSlots
<1>4. \A h \in Holders \ {"close", "finalize"} :
        Held(h)' \subseteq Held(h) \ {s}
  <2>1. \A h \in Holders \ {"close", "finalize", "delegate"} :
          Held(h)' = Held(h)
    BY <1>1, HeldIs, HeldIsNext DEF Holders
  <2>2. Held("delegate")' = {}
    BY <1>1, HeldIsNext
  <2> QED
    BY <1>2, <2>1, <2>2 DEF IInv, SlotOwnership, HeldApart, Holders
<1>5. Held("close")' \subseteq Held("close") \cup {s} => Open' \subseteq Live
  BY <1>1, <1>3, <1>4 DEF Live, Open, Holders
<1>6. /\ HeldApart' /\ HeldInUse' /\ WorkOnce' /\ work' \in Seq(WorkItem)
      /\ Closings' /\ Jobbing' /\ Streaming' /\ Waiting'
      /\ Live' \subseteq Live
      /\ DataSlots' = DataSlots
      /\ Held("close")' \subseteq Held("close") \cup {s}
      /\ \A t : AskedOf(t)' = AskedOf(t)
  <2> HIDE DEF s
  <2> QED BY <1>1, <1>3, <1>4, <1>5, PassToHttpd
<1>7. TypeOK'
  <2>1. ServerTypeOK'
    BY <1>1, <1>6 DEF IInv, TypeOK, ServerTypeOK
  <2> QED BY <1>1, <2>1 DEF IInv, TypeOK, TaskTypeOK
<1>8. Shape'
  BY <1>1 DEF IInv, Shape
<1>9. SlotOwnership'
  BY <1>1, <1>6 DEF IInv, SlotOwnership, EventsOnce, RadioOnce, IsInjective
<1>10. Routing'
  <2>1. LogSlots' \subseteq LogSlots
    BY <1>3, <1>4, <1>6 DEF LogSlots, Holders
  <2> QED BY <1>1, <1>6, <2>1 DEF IInv, Routing
<1> QED BY <1>6, <1>7, <1>8, <1>9, <1>10 DEF IInv

-----------------------------------------------------------------------------
(***************************************************************************)
(* The work items, in the httpd task.                                      *)
(***************************************************************************)
\* The closed slot passes to the finalize item, or to nobody.
LEMMA QueueFinalizeKeeps ==
  ASSUME IInv, QueueFinalize, UNCHANGED taskVars PROVE IInv'
<1> DEFINE s == httpd.slot
<1>1. /\ httpd.at = "queueFinalize" /\ httpd' = IdleTask
      /\ QueueWork([fn |-> "finalize", arg |-> s])
      /\ UNCHANGED <<panicked, session, asked, reply>>
      /\ UNCHANGED <<slot, usedSlots, usedChunks, usedJobs, chunkData, jobData>>
      /\ UNCHANGED chunkCall
      /\ UNCHANGED <<eventQ, loop, radio, delegateQ, delegate, startUpdate, ota>>
  BY DEF QueueFinalize, clientVars, poolVars, taskVars
<1>2. s # None /\ s \in Held("httpd") /\ s \in Slots /\ httpd'.job = httpd.job
  BY <1>1, HeldIs DEF IInv, Shape, TypeOK, ServerTypeOK, IdleTask
<1>3. /\ s \in usedSlots /\ s \notin DataSlots
      /\ s \notin Held("close") /\ s \notin Held("finalize")
  BY <1>2 DEF IInv, SlotOwnership, HeldInUse, HeldApart, Holders, Streaming,
              StreamsApart
<1>4. \A h \in Holders \ {"close", "finalize"} :
        Held(h)' \subseteq Held(h) \ {s}
  <2>1. \A h \in Holders \ {"close", "finalize", "httpd"} :
          Held(h)' = Held(h)
    BY <1>1, HeldIs, HeldIsNext DEF Holders
  <2>2. Held("httpd")' = {}
    BY <1>1, HeldIsNext DEF IdleTask
  <2> QED
    BY <1>2, <2>1, <2>2 DEF IInv, SlotOwnership, HeldApart, Holders
<1>5. QueueWork([fn |-> "finalize", arg |-> s]) =>
        Held("close")' \subseteq Held("close")
  <2>1. s \notin WorkSlots("finalize") /\ [fn |-> "finalize", arg |-> s] \in WorkItem
    BY <1>2, <1>3, HeldIs DEF WorkItem
  <2> HIDE DEF s
  <2> QED BY <1>1, <2>1, WorkQueued DEF IInv, SlotOwnership
<1>6. Open' \subseteq Live
  BY <1>1, <1>4, <1>5 DEF Live, Open, Holders, IdleTask
<1>7. /\ HeldApart' /\ HeldInUse' /\ WorkOnce' /\ work' \in Seq(WorkItem)
      /\ Closings' /\ Jobbing' /\ Streaming' /\ Waiting'
      /\ Live' \subseteq Live
      /\ DataSlots' = DataSlots
      /\ Held("close")' \subseteq Held("close")
      /\ \A t : AskedOf(t)' = AskedOf(t)
  <2> HIDE DEF s
  <2> QED BY <1>1, <1>2, <1>3, <1>4, <1>5, <1>6, PassToHttpd
<1>8. TypeOK'
  <2>1. ServerTypeOK'
    BY <1>1, <1>7 DEF IInv, TypeOK, ServerTypeOK, IdleTask
  <2> QED BY <1>1, <2>1 DEF IInv, TypeOK, TaskTypeOK
<1>9. Shape'
  BY <1>1 DEF IInv, Shape, IdleTask
<1>10. SlotOwnership'
  BY <1>1, <1>7 DEF IInv, SlotOwnership, EventsOnce, RadioOnce, IsInjective
<1>11. Routing'
  <2>1. LogSlots' \subseteq LogSlots
    BY <1>4, <1>7 DEF LogSlots, Holders
  <2> QED BY <1>1, <1>7, <2>1 DEF IInv, Routing
<1> QED BY <1>7, <1>8, <1>9, <1>10, <1>11 DEF IInv
\* The work queue without its oldest item.
LEMMA TakenWork ==
  ASSUME IInv, work # <<>>, work' = Tail(work)
  PROVE  /\ work \in Seq(WorkItem) /\ work' \in Seq(WorkItem)
         /\ \A i \in DOMAIN work' : i + 1 \in DOMAIN work
                                    /\ work'[i] = work[i + 1]
BY TailElements DEF IInv, TypeOK, ServerTypeOK

\* The finalize item gives the slot back: no queued data needs it.
LEMMA RunFinalizeKeeps ==
  ASSUME IInv, RunFinalize, UNCHANGED taskVars PROVE IInv'
<1> DEFINE s == Head(work).arg
<1>1. /\ httpd.at = "idle" /\ work # <<>> /\ Head(work).fn = "finalize"
      /\ work' = Tail(work) /\ usedSlots' = usedSlots \ {s}
      /\ UNCHANGED <<panicked, session, asked, reply>>
      /\ UNCHANGED <<slot, usedChunks, usedJobs, chunkData, jobData>>
      /\ UNCHANGED <<httpd, chunkCall>>
      /\ UNCHANGED <<eventQ, loop, radio, delegateQ, delegate, startUpdate, ota>>
  BY DEF RunFinalize, TakeWork, FreeSlot, clientVars, taskVars
<1>2. /\ WorkOnce' /\ Range(work') \subseteq Range(work)
      /\ s \in Held("finalize") /\ Held("close")' = Held("close")
      /\ Held("finalize")' = Held("finalize") \ {s}
  BY <1>1, WorkTail DEF IInv, SlotOwnership
<1>3. /\ work' \in Seq(WorkItem)
      /\ \A i \in DOMAIN work' : i + 1 \in DOMAIN work
                                 /\ work'[i] = work[i + 1]
  BY <1>1, TakenWork
<1>4. /\ Jobbing' /\ DataSlots' \subseteq DataSlots /\ StreamsFirst'
  BY <1>1, <1>3, ShiftJobbing, DataShift
<1>5. s \notin DataSlots
  BY <1>2 DEF IInv, Streaming, StreamsApart, Holders
<1>6. TypeOK'
  <2>1. ServerTypeOK'
    BY <1>1, <1>3 DEF IInv, TypeOK, ServerTypeOK
  <2> QED BY <1>1, <2>1 DEF IInv, TypeOK, TaskTypeOK
<1>7. Shape' /\ Closings'
  BY <1>1, <1>2 DEF IInv, Shape, Closings
<1>8. /\ \A h \in Holders : Held(h)' \subseteq Held(h) \ {s}
      /\ \A h \in Holders \ {"finalize"} : Held(h)' = Held(h)
  <2>1. \A h \in Holders \ {"finalize"} : Held(h)' = Held(h)
    BY <1>1, <1>2, HeldIs, HeldIsNext DEF Holders
  <2> QED BY <1>2, <2>1 DEF IInv, SlotOwnership, HeldApart, Holders
<1>9. SlotOwnership'
  <2>1. HeldInUse' /\ HeldApart'
    BY <1>1, <1>8, ReturnSlot DEF IInv, SlotOwnership
  <2> QED BY <1>1, <1>2, <2>1 DEF IInv, SlotOwnership, EventsOnce, RadioOnce,
                                  IsInjective
<1>10. Streaming'
  BY <1>1, <1>4, <1>5, <1>8 DEF IInv, Streaming, StreamsInUse, StreamsApart
<1>11. Live' \subseteq Live
  BY <1>1, <1>4, <1>8 DEF Live, Open, Holders
<1>12. Waiting'
  BY <1>1, <1>11, FrameWaiting DEF IInv
<1>13. Routing'
  <2>1. LogSlots' \subseteq LogSlots /\ \A t : AskedOf(t)' = AskedOf(t)
    BY <1>1, <1>4, <1>8 DEF LogSlots, Holders, AskedOf
  <2> QED BY <1>1, <1>11, <2>1 DEF IInv, Routing
<1> QED BY <1>4, <1>6, <1>7, <1>9, <1>10, <1>12, <1>13 DEF IInv

\* A session is closed: it was not that of a live slot.
LEMMA RunSessCloseKeeps ==
  ASSUME IInv, RunSessClose, UNCHANGED taskVars PROVE IInv'
<1> DEFINE k == Head(work).arg
<1>1. /\ httpd.at = "idle" /\ work # <<>> /\ Head(work).fn = "sessClose"
      /\ work' = Tail(work) /\ session' = [session EXCEPT ![k] = "idle"]
      /\ UNCHANGED <<panicked, asked, reply>>
      /\ UNCHANGED <<slot, usedSlots, usedChunks, usedJobs, chunkData, jobData>>
      /\ UNCHANGED <<httpd, chunkCall>>
      /\ UNCHANGED <<eventQ, loop, radio, delegateQ, delegate, startUpdate, ota>>
  BY DEF RunSessClose, TakeWork, poolVars, taskVars
<1>2. /\ WorkOnce' /\ Range(work') \subseteq Range(work)
      /\ Held("close")' = Held("close") /\ Held("finalize")' = Held("finalize")
      /\ \A w \in Range(work') : w.fn = "sessClose" => w.arg # k
      /\ Head(work) \in Range(work) /\ Head(work) \in WorkItem
  BY <1>1, WorkTail DEF IInv, SlotOwnership
<1>3. /\ work' \in Seq(WorkItem)
      /\ \A i \in DOMAIN work' : i + 1 \in DOMAIN work
                                 /\ work'[i] = work[i + 1]
  BY <1>1, TakenWork
<1>4. /\ Jobbing' /\ DataSlots' \subseteq DataSlots /\ StreamsFirst'
  BY <1>1, <1>3, ShiftJobbing, DataShift
<1>5. k \in Sockets /\ session[k] = "closing" /\ DOMAIN session = Sockets
  BY <1>1, <1>2 DEF IInv, Closings, WorkItem, TypeOK, ServerTypeOK
<1>6. TypeOK'
  <2>1. ServerTypeOK'
    BY <1>1, <1>3 DEF IInv, TypeOK, ServerTypeOK
  <2> QED BY <1>1, <2>1 DEF IInv, TypeOK, TaskTypeOK
<1>7. Shape'
  BY <1>1 DEF IInv, Shape
<1>8. Closings'
  <2> SUFFICES ASSUME NEW w \in Range(work'), w.fn = "sessClose"
               PROVE  session'[w.arg] = "closing"
    BY DEF Closings
  <2>1. w \in WorkItem /\ w \in Range(work) /\ w.arg # k
    <3>1. w \in Range(work) /\ w.arg # k
      BY <1>2
    <3> QED BY <1>3, <3>1, TakenWork, <1>1 DEF Range
  <2>2. w.arg \in Sockets /\ session[w.arg] = "closing"
    BY <2>1 DEF WorkItem, IInv, Closings
  <2> QED BY <1>1, <1>5, <2>1, <2>2
<1>9. \A h \in Holders : Held(h)' = Held(h)
  BY <1>1, <1>2, HeldIs, HeldIsNext DEF Holders
<1>10. SlotOwnership'
  BY <1>1, <1>2, <1>9 DEF IInv, SlotOwnership, HeldInUse, HeldApart,
                          EventsOnce, RadioOnce, IsInjective
<1>11. Streaming'
  BY <1>1, <1>4, <1>9 DEF IInv, Streaming, StreamsInUse, StreamsApart
<1>12. Live' \subseteq Live
  BY <1>1, <1>4, <1>9 DEF Live, Open, Holders
<1>13. Waiting'
  <2>1. \A s \in Live : slot[s].req \in Sockets /\ slot[s].req # k
    BY <1>5 DEF IInv, Waiting
  <2> QED BY <1>1, <1>5, <1>12, <2>1, FrameWaiting DEF IInv
<1>14. Routing'
  <2>1. LogSlots' \subseteq LogSlots /\ \A t : AskedOf(t)' = AskedOf(t)
    BY <1>1, <1>4, <1>9 DEF LogSlots, Holders, AskedOf
  <2> QED BY <1>1, <1>12, <2>1 DEF IInv, Routing
<1> QED BY <1>4, <1>6, <1>7, <1>8, <1>10, <1>11, <1>13, <1>14 DEF IInv

\* A data item is run: the job passes to httpd and the chunk is free.
LEMMA RunDataKeeps ==
  ASSUME IInv, RunData, UNCHANGED taskVars PROVE IInv'
<1> DEFINE j == Head(work).arg
           s == jobData[j].slot
           c == jobData[j].chunk
           k == slot[s].req
<1>1. /\ httpd.at = "idle" /\ work # <<>> /\ Head(work).fn = "data"
      /\ work' = Tail(work)
      /\ SendChunk(k, slot[s].started, chunkData[c])
      /\ slot' = [slot EXCEPT ![s].started = TRUE]
      /\ usedChunks' = usedChunks \ {c}
      /\ chunkData' = [chunkData EXCEPT ![c] = 0]
      /\ httpd' = [at |-> "freeJob", slot |-> None, job |-> j]
      /\ UNCHANGED <<panicked, session, asked>>
      /\ UNCHANGED <<usedSlots, usedJobs, jobData, chunkCall>>
      /\ UNCHANGED <<eventQ, loop, radio, delegateQ, delegate, startUpdate, ota>>
  BY DEF RunData, TakeWork, FreeChunk, IdleTask, taskVars
<1>2. /\ WorkOnce' /\ Range(work') \subseteq Range(work)
      /\ Held("close")' = Held("close") /\ Held("finalize")' = Held("finalize")
      /\ 1 \in DOMAIN work /\ Head(work) = work[1]
  BY <1>1, WorkTail DEF IInv, SlotOwnership
<1>3. /\ work' \in Seq(WorkItem)
      /\ \A i \in DOMAIN work' : i + 1 \in DOMAIN work
                                 /\ work'[i] = work[i + 1]
  BY <1>1, TakenWork
<1>4. /\ \A i \in DataItems' : /\ i \in Nat \ {0} /\ i + 1 \in DataItems
                               /\ work'[i] = work[i + 1]
                               /\ DataSlot(i)' = DataSlot(i + 1)
                               /\ DataChunk(i)' = DataChunk(i + 1)
      /\ DataSlots' \subseteq DataSlots
      /\ StreamsFirst'
  BY <1>1, <1>3, DataShift
<1>5. 1 \in DataItems /\ DataSlot(1) = s /\ DataChunk(1) = c /\ work[1].arg = j
  BY <1>1, <1>2 DEF DataItems, DataSlot, DataChunk
<1>6. /\ j \in Jobs /\ s \in Slots /\ c \in Chunks
      /\ j \in usedJobs /\ j # chunkCall.job
      /\ c \in usedChunks /\ c # chunkCall.chunk
      /\ s \in Live /\ k \in Sockets
      /\ httpd.slot = None /\ httpd.job = None
  <2>1. j \in Jobs /\ s \in Slots /\ c \in Chunks
    BY <1>5, ItemsAreJobs DEF IInv, Jobbing
  <2>2. /\ j \in usedJobs /\ j # chunkCall.job
        /\ c \in usedChunks /\ c # chunkCall.chunk
    BY <1>5, PoolOwnershipIs DEF IInv, Jobbing, Pooled
  <2>3. s \in Live
    BY <1>5 DEF Live, DataSlots
  <2> QED BY <1>1, <2>1, <2>2, <2>3 DEF IInv, Waiting, Shape
<1>7. \A t \in Slots : slot'[t].req = slot[t].req
  BY <1>1, <1>6 DEF IInv, TypeOK, ServerTypeOK
<1>8. TypeOK'
  <2>1. slot[s].started \in BOOLEAN /\ chunkData[c] \in Nat
    BY <1>6 DEF IInv, TypeOK, ServerTypeOK
  <2>2. /\ reply' \in [Sockets -> [heads : Nat, chunks : Seq(Nat),
                                   verdict : Verdicts, ends : Nat]]
    <3> HIDE DEF k, c, s
    <3> QED BY <1>1, <1>6, <2>1, SendChunkType DEF IInv, TypeOK
  <2>3. slot' \in [Slots -> [req : Sockets \cup {None}, started : BOOLEAN]]
    BY <1>1, ZenonT(30) DEF IInv, TypeOK, ServerTypeOK
  <2>4. ServerTypeOK'
    BY <1>1, <1>3, <1>6, <2>2, <2>3 DEF IInv, TypeOK, ServerTypeOK
  <2> QED BY <1>1, <2>4 DEF IInv, TypeOK, TaskTypeOK
<1>9. Shape'
  <2>1. j # None
    BY <1>6, ServerAssumption
  <2> QED BY <1>1, <2>1 DEF IInv, Shape
<1>10. Closings'
  BY <1>1, <1>2 DEF IInv, Closings
<1>11. Jobbing'
  <2>1. Pooled
    BY PoolOwnershipIs DEF IInv, Jobbing
  <2>2. ASSUME NEW i \in DataItems'
        PROVE  /\ i + 1 \in DataItems /\ i + 1 # 1
               /\ work'[i].arg # j /\ DataChunk(i)' # c
    <3>1. i + 1 \in DataItems /\ i + 1 # 1 /\ work'[i] = work[i + 1]
          /\ DataChunk(i)' = DataChunk(i + 1)
      BY <1>4
    <3> QED BY <1>5, <2>1, <3>1 DEF Pooled
  <2>3. Pooled'
    <3>1. ASSUME NEW i \in DataItems'
          PROVE  /\ work'[i].arg \in usedJobs' \ {chunkCall'.job, httpd'.job}
                 /\ DataChunk(i)' \in usedChunks' \ {chunkCall'.chunk}
      BY <1>1, <1>4, <2>1, <2>2 DEF Pooled
    <3>2. ASSUME NEW i \in DataItems', NEW l \in DataItems', i # l
          PROVE  /\ work'[i].arg # work'[l].arg
                 /\ DataChunk(i)' # DataChunk(l)'
      <4>1. i + 1 # l + 1 /\ i + 1 \in DataItems /\ l + 1 \in DataItems
        BY <1>4, <3>2
      <4> QED BY <1>4, <2>1, <4>1 DEF Pooled
    <3> QED BY <3>1, <3>2 DEF Pooled
  <2> QED
    BY <1>1, <1>4, <1>6, <2>3, PoolOwnershipNext DEF IInv, Jobbing
<1>12. \A h \in Holders : Held(h)' = Held(h)
  BY <1>1, <1>2, <1>6, HeldIs, HeldIsNext DEF Holders
<1>13. SlotOwnership'
  BY <1>1, <1>2, <1>12 DEF IInv, SlotOwnership, HeldInUse, HeldApart,
                           EventsOnce, RadioOnce, IsInjective
<1>14. Streaming'
  BY <1>1, <1>4, <1>12 DEF IInv, Streaming, StreamsInUse, StreamsApart
<1>15. Live' \subseteq Live
  BY <1>1, <1>4, <1>12 DEF Live, Open, Holders
<1>16. Waiting'
  BY <1>1, <1>7, <1>15, LiveAreSlots, FrameWaiting DEF IInv
<1>17. Routing'
  <2>1. \A t \in Live : AskedOf(t)' = AskedOf(t)
    BY <1>1, <1>7, LiveAreSlots DEF AskedOf
  <2>2. LogSlots' \subseteq LogSlots /\ LogSlots \subseteq Live
    BY <1>4, <1>12 DEF LogSlots, Live, Open, Holders
  <2>3. \A b \in radio : b.ctx \in Live
    BY HeldIs DEF Live, Open
  <2>4. \A e \in Range(eventQ) : e.id # "REBOOT_REQUIRED" => e.ctx \in Live
    BY HeldIs DEF IInv, Shape, Live, Open
  <2>5. loop.at = "delegate" => loop.slot \in Live
    BY DEF Live, Open
  <2> QED
    BY <1>1, <1>15, <2>1, <2>2, <2>3, <2>4, <2>5 DEF IInv, Routing, GateEvents
<1> QED
  BY <1>8, <1>9, <1>10, <1>11, <1>13, <1>14, <1>16, <1>17 DEF IInv
\* A close item is run: its slot has no data queued, so it is live no more.
LEMMA RunCloseKeeps ==
  ASSUME IInv, RunClose, UNCHANGED taskVars PROVE IInv'
<1> DEFINE s == Head(work).arg
           k == slot[s].req
           closing == [fn |-> "sessClose", arg |-> k]
<1>1. /\ httpd.at = "idle" /\ work # <<>> /\ Head(work).fn = "close"
      /\ EndReply(k, "none")
      /\ session' = [session EXCEPT ![k] = "closing"]
      /\ \/ work' = Append(Tail(work), closing)
         \/ work' = Tail(work)
      /\ httpd' = [at |-> "queueFinalize", slot |-> s, job |-> None]
      /\ UNCHANGED <<panicked, asked, chunkCall>>
      /\ UNCHANGED <<slot, usedSlots, usedChunks, usedJobs, chunkData, jobData>>
      /\ UNCHANGED <<eventQ, loop, radio, delegateQ, delegate, startUpdate, ota>>
  BY DEF RunClose, TakeWork, poolVars, IdleTask, taskVars
<1>2. /\ work \in Seq(WorkItem) /\ ItemsOnce(work)
      /\ 1 \in DOMAIN work /\ Head(work) = work[1]
      /\ Tail(work) \in Seq(WorkItem)
      /\ Len(work) \in Nat \ {0} /\ DOMAIN work = 1..Len(work)
  BY <1>1, TailElements DEF IInv, TypeOK, ServerTypeOK, SlotOwnership, WorkOnce,
                            ItemsOnce
<1>3. /\ ItemsOnce(Tail(work))
      /\ \A fn \in {"close", "finalize", "sessClose"} :
           ItemArgs(work, fn) = ItemArgs(Tail(work), fn) \cup
             (IF Head(work).fn = fn THEN {s} ELSE {})
      /\ s \notin ItemArgs(Tail(work), "close")
  BY <1>1, <1>2, ItemArgsTail
<1>4. \A fn : WorkSlots(fn) = ItemArgs(work, fn)
              /\ WorkSlots(fn)' = ItemArgs(work', fn)
  BY DEF WorkSlots, ItemArgs
<1>5. /\ s \in Held("close") /\ s \in usedSlots /\ s \in Live /\ s \in Slots
      /\ s # None /\ httpd.slot = None /\ httpd.job = None
  <2>1. s \in Held("close") /\ s \in Live
    BY <1>1, <1>3, <1>4, HeldIs DEF Live, Open
  <2> QED BY <1>1, <2>1, LiveAreSlots, ServerAssumption DEF IInv, Shape
<1>6. k \in Sockets /\ session[k] = "async" /\ DOMAIN session = Sockets
  BY <1>5 DEF IInv, Waiting, TypeOK, ServerTypeOK
<1>7. s \notin DataSlots
  <2> SUFFICES ASSUME NEW i \in DataItems PROVE DataSlot(i) # s
    BY DEF DataSlots
  <2>1. 1 \in 1..i
    BY <1>2 DEF DataItems
  <2> QED BY <1>1, <1>2, <2>1 DEF IInv, Streaming, StreamsFirst
<1>8. \A w \in Range(work) : w \in WorkItem /\ (w.fn = "sessClose" => w.arg # k)
  BY <1>2, <1>6 DEF IInv, Closings, Range
<1>9. closing \in WorkItem /\ k \notin ItemArgs(Tail(work), "sessClose")
      /\ closing.fn = "sessClose" /\ closing.arg = k
  <2>1. k \notin ItemArgs(work, "sessClose")
    BY <1>8 DEF ItemArgs
  <2> QED BY <1>3, <1>6, <2>1 DEF WorkItem
<1>10. /\ work' \in Seq(WorkItem) /\ ItemsOnce(work')
       /\ \A fn \in {"close", "finalize"} :
            ItemArgs(work', fn) = ItemArgs(Tail(work), fn)
       /\ Range(work') \subseteq Range(work) \cup {closing}
       /\ \A i \in DOMAIN work' : \/ i + 1 \in DOMAIN work
                                     /\ work'[i] = work[i + 1]
                                  \/ work'[i].fn = "sessClose"
  <2> HIDE DEF closing, s
  <2>1. \A i \in DOMAIN Tail(work) : i + 1 \in DOMAIN work
                                     /\ Tail(work)[i] = work[i + 1]
    BY <1>1, <1>2, TailElements
  <2>2. Range(Tail(work)) \subseteq Range(work)
    BY <1>1, <1>2, TailRange
  <2>3. CASE work' = Tail(work)
    BY <1>2, <1>3, <2>1, <2>2, <2>3
  <2>4. CASE work' = Append(Tail(work), closing)
    <3> DEFINE q == Tail(work)
    <3>0. q \in Seq(WorkItem) /\ closing \in WorkItem /\ ItemsOnce(q)
          /\ closing.arg \notin ItemArgs(q, closing.fn)
          /\ work' = Append(q, closing)
      BY <1>2, <1>3, <1>9, <2>4
    <3> HIDE DEF q
    <3>1. /\ work' \in Seq(WorkItem)
          /\ Range(work') = Range(q) \cup {closing}
          /\ \A i \in DOMAIN work' :
               \/ i \in DOMAIN q /\ work'[i] = q[i]
               \/ work'[i] = closing
      <4>1. Append(q, closing) \in Seq(WorkItem)
            /\ Range(Append(q, closing)) = Range(q) \cup {closing}
        BY <3>0, AppendElements, AppendRange
      <4>2. \A i \in DOMAIN Append(q, closing) :
               \/ i \in DOMAIN q /\ Append(q, closing)[i] = q[i]
               \/ Append(q, closing)[i] = closing
        BY <3>0
      <4> QED BY <3>0, <4>1, <4>2
    <3>2. /\ ItemsOnce(work')
          /\ \A fn \in {"close", "finalize"} :
               ItemArgs(work', fn) = ItemArgs(q, fn)
      <4>1. \A fn : /\ ItemsOnce(Append(q, closing))
                    /\ ItemArgs(Append(q, closing), fn) = ItemArgs(q, fn) \cup
                         (IF closing.fn = fn THEN {closing.arg} ELSE {})
        BY <3>0, ItemArgsAppend
      <4> QED BY <1>9, <3>0, <4>1
    <3> USE DEF q
    <3> QED BY <1>9, <2>1, <2>2, <3>1, <3>2
  <2> QED BY <1>1, <2>3, <2>4
<1>11. /\ Held("close")' = Held("close") \ {s}
       /\ Held("finalize")' = Held("finalize")
       /\ WorkOnce'
  <2>1. WorkOnce'
    <3>1. ItemsOnce(work')
      BY <1>10
    <3> QED BY <3>1 DEF WorkOnce, ItemsOnce
  <2>2. /\ ItemArgs(work', "finalize") = ItemArgs(work, "finalize")
        /\ ItemArgs(work', "close") = ItemArgs(work, "close") \ {s}
    <3>1. /\ ItemArgs(work', "finalize") = ItemArgs(Tail(work), "finalize")
          /\ ItemArgs(work', "close") = ItemArgs(Tail(work), "close")
      BY <1>10
    <3>2. /\ ItemArgs(work, "finalize") = ItemArgs(Tail(work), "finalize")
          /\ ItemArgs(work, "close") = ItemArgs(Tail(work), "close") \cup {s}
      BY <1>1, <1>3
    <3> QED BY <1>3, <3>1, <3>2
  <2>3. /\ Held("finalize") = ItemArgs(work, "finalize")
        /\ Held("finalize")' = ItemArgs(work', "finalize")
        /\ Held("close") = ItemArgs(work, "close")
        /\ Held("close")' = ItemArgs(work', "close")
    BY <1>4, HeldIs, HeldIsNext
  <2> QED BY <2>1, <2>2, <2>3
<1>12. Jobbing' /\ DataSlots' \subseteq DataSlots /\ StreamsFirst'
  BY <1>1, <1>5, <1>10, ShiftJobbing, DataShift
<1>13. TypeOK'
  <2>1. "none" \in Verdicts
    BY DEF Verdicts
  <2>2. ServerTypeOK'
    BY <1>1, <1>5, <1>6, <1>10, <2>1, EndReplyType DEF IInv, TypeOK, ServerTypeOK
  <2> QED BY <1>1, <2>2 DEF IInv, TypeOK, TaskTypeOK
<1>14. Shape'
  BY <1>1, <1>5 DEF IInv, Shape
<1>15. Closings'
  <2> SUFFICES ASSUME NEW w \in Range(work'), w.fn = "sessClose"
               PROVE  session'[w.arg] = "closing"
    BY DEF Closings
  <2>1. CASE w \in Range(work)
    <3>1. w.arg \in Sockets /\ session[w.arg] = "closing"
      BY <1>8, <2>1 DEF WorkItem, IInv, Closings
    <3> QED BY <1>1, <1>6, <3>1
  <2>2. CASE w = closing
    BY <1>1, <1>6, <2>2
  <2> QED BY <1>10, <2>1, <2>2
<1>16. /\ Held("httpd")' = {s} /\ Held("httpd") = {} /\ "httpd" \in Holders
       /\ \A h \in Holders \ {"httpd"} : Held(h)' \subseteq Held(h) \ {s}
  <2>1. Held("httpd")' = {s} /\ Held("httpd") = {} /\ "httpd" \in Holders
    BY <1>1, <1>5, HeldIs, HeldIsNext DEF Holders
  <2>2. \A h \in Holders \ {"httpd", "close"} : Held(h)' = Held(h)
    BY <1>1, <1>11, HeldIs, HeldIsNext DEF Holders
  <2> QED
    BY <1>5, <1>11, <2>1, <2>2 DEF IInv, SlotOwnership, HeldApart, Holders
<1>17. SlotOwnership'
  <2>1. HeldInUse' /\ HeldApart'
    BY <1>1, <1>5, <1>16, MoveSlot DEF IInv, SlotOwnership
  <2> QED BY <1>1, <1>11, <2>1 DEF IInv, SlotOwnership, EventsOnce, RadioOnce,
                                   IsInjective
<1>18. Streaming'
  BY <1>1, <1>7, <1>12, <1>16
     DEF IInv, Streaming, StreamsInUse, StreamsApart, Holders
<1>19. Live' \subseteq Live \ {s}
  <2>1. Open' \subseteq Open
    BY <1>1, <1>16 DEF Open, Holders
  <2>2. s \notin Open'
    <3>1. loop.at # "idle" => loop.slot \in Held("loop")
      BY HeldIs DEF IInv, Shape
    <3>2. \A h \in Holders \ {"httpd"} : s \notin Held(h)'
      BY <1>16
    <3>3. loop' = loop /\ Held("loop")' = Held("loop")
      BY <1>1, HeldIs, HeldIsNext
    <3> QED BY <1>1, <3>1, <3>2, <3>3 DEF Open, Holders
  <2> QED BY <1>7, <1>12, <2>1, <2>2 DEF Live
<1>20. Waiting'
  <2> HIDE DEF s
  <2> QED BY <1>1, <1>5, <1>19, Completed
<1>21. Routing'
  <2>1. LogSlots' \subseteq LogSlots /\ \A t : AskedOf(t)' = AskedOf(t)
    BY <1>1, <1>12, <1>16 DEF LogSlots, Holders, AskedOf
  <2> QED BY <1>1, <1>19, <2>1 DEF IInv, Routing
<1> QED
  BY <1>12, <1>13, <1>14, <1>15, <1>17, <1>18, <1>20, <1>21 DEF IInv

-----------------------------------------------------------------------------
(***************************************************************************)
(* A data job queued.                                                      *)
(***************************************************************************)
\* A data item is queued: its slot has no close item in the queue.
LEMMA QueueDataKeeps ==
  ASSUME IInv, QueueData, UNCHANGED taskVars PROVE IInv'
<1> DEFINE s == chunkCall.slot
           c == chunkCall.chunk
           j == chunkCall.job
           w == [fn |-> "data", arg |-> j]
<1>1. /\ chunkCall.at = "queue" /\ c # None /\ j # None
      /\ chunkData' = [chunkData EXCEPT ![c] = chunkCall.n]
      /\ jobData' = [jobData EXCEPT ![j] = [slot |-> s, chunk |-> c]]
      /\ QueueWork(w) /\ chunkCall' = NoCall
      /\ UNCHANGED <<panicked, session, asked, reply>>
      /\ UNCHANGED <<slot, usedSlots, usedChunks, usedJobs, httpd>>
      /\ UNCHANGED <<eventQ, loop, radio, delegateQ, delegate, startUpdate, ota>>
  BY DEF QueueData, clientVars, taskVars
<1>2. /\ s = delegate.slot /\ s # None /\ s \in Slots /\ s \in Held("delegate")
      /\ c \in Chunks /\ j \in Jobs /\ chunkCall.n \in Nat
      /\ c \in usedChunks /\ j \in usedJobs \ {httpd.job}
  BY <1>1, HeldIs DEF IInv, Shape, Jobbing, TypeOK, ServerTypeOK, TaskTypeOK
<1>3. /\ s \in usedSlots /\ s \in Live /\ s \in LogSlots
      /\ \A h \in Holders \ {"delegate"} : s \notin Held(h)
  BY <1>2 DEF IInv, SlotOwnership, HeldInUse, HeldApart, Holders, Live, Open,
              LogSlots
<1>4. /\ work \in Seq(WorkItem) /\ w \in WorkItem /\ w.fn = "data" /\ w.arg = j
      /\ DOMAIN work = 1..Len(work) /\ Len(work) \in Nat
  BY <1>2 DEF IInv, TypeOK, ServerTypeOK, WorkItem
<1>5. /\ WorkOnce' /\ work' \in Seq(WorkItem)
      /\ Range(work') \subseteq Range(work) \cup {w}
      /\ Held("close")' \subseteq Held("close")
      /\ Held("finalize")' \subseteq Held("finalize")
      /\ \A i \in DOMAIN work' :
           \/ i \in DOMAIN work /\ work'[i] = work[i]
           \/ work'[i] = w /\ \A l \in DOMAIN work : l < i
  <2> HIDE DEF w
  <2> QED BY <1>1, <1>4, WorkQueued DEF IInv, SlotOwnership
<1>6. \A i \in DataItems : /\ work[i].arg \in Jobs /\ work[i].arg # j
                           /\ DataChunk(i) # c
                           /\ jobData'[work[i].arg] = jobData[work[i].arg]
  <2>1. \A i \in DataItems : work[i].arg \in Jobs /\ work[i].arg # j
                             /\ DataChunk(i) # c
    BY ItemsAreJobs, PoolOwnershipIs DEF IInv, Jobbing, Pooled
  <2> QED BY <1>1, <2>1 DEF IInv, TypeOK, ServerTypeOK
<1>7. jobData'[j] = [slot |-> s, chunk |-> c]
  BY <1>1, <1>2 DEF IInv, TypeOK, ServerTypeOK
<1>8. \A i \in DataItems' :
        \/ /\ i \in DataItems /\ work'[i] = work[i]
           /\ DataSlot(i)' = DataSlot(i) /\ DataChunk(i)' = DataChunk(i)
        \/ /\ work'[i] = w /\ work'[i].arg = j
           /\ DataSlot(i)' = s /\ DataChunk(i)' = c
           /\ \A l \in DOMAIN work : l < i
           /\ i = Len(work) + 1
  <2> SUFFICES ASSUME NEW i \in DataItems'
               PROVE  \/ /\ i \in DataItems /\ work'[i] = work[i]
                         /\ DataSlot(i)' = DataSlot(i)
                         /\ DataChunk(i)' = DataChunk(i)
                      \/ /\ work'[i] = w /\ work'[i].arg = j
                         /\ DataSlot(i)' = s /\ DataChunk(i)' = c
                         /\ \A l \in DOMAIN work : l < i
                         /\ i = Len(work) + 1
    OBVIOUS
  <2>1. i \in DOMAIN work' /\ work'[i].fn = "data"
    BY DEF DataItems
  <2>2. CASE i \in DOMAIN work /\ work'[i] = work[i]
    <3>1. i \in DataItems
      BY <2>1, <2>2 DEF DataItems
    <3> QED BY <1>6, <2>2, <3>1 DEF DataSlot, DataChunk
  <2>3. CASE work'[i] = w /\ \A l \in DOMAIN work : l < i
    <3>1. i = Len(work) + 1
      <4> HIDE DEF w
      <4> QED BY <1>1, <1>4, <2>1, <2>3, AppendElements DEF QueueWork
    <3> QED BY <1>7, <2>3, <3>1 DEF DataSlot, DataChunk
  <2> QED BY <1>5, <2>1, <2>2, <2>3
<1>9. DataSlots' \subseteq DataSlots \cup {s}
  <2> SUFFICES ASSUME NEW i \in DataItems'
               PROVE  DataSlot(i)' \in DataSlots \cup {s}
    BY DEF DataSlots
  <2> QED BY <1>8 DEF DataSlots
<1>10. TypeOK'
  <2>1. ServerTypeOK'
    BY <1>1, <1>2, <1>5 DEF IInv, TypeOK, ServerTypeOK, NoCall
  <2> QED BY <1>1, <2>1 DEF IInv, TypeOK, TaskTypeOK
<1>11. Shape'
  BY <1>1 DEF IInv, Shape, NoCall
<1>12. Closings'
  BY <1>1, <1>5 DEF IInv, Closings
<1>13. Jobbing'
  <2>1. Pooled
    BY PoolOwnershipIs DEF IInv, Jobbing
  <2>2. ASSUME NEW i \in DataItems'
        PROVE  /\ work'[i].arg \in usedJobs' \ {chunkCall'.job, httpd'.job}
               /\ DataChunk(i)' \in usedChunks' \ {chunkCall'.chunk}
    <3>1. CASE i \in DataItems /\ work'[i] = work[i]
               /\ DataChunk(i)' = DataChunk(i)
      <4>1. work[i].arg # None /\ DataChunk(i) # None
        BY <1>6, <3>1, ServerAssumption DEF IInv, Jobbing
      <4> QED BY <1>1, <2>1, <3>1, <4>1 DEF Pooled, NoCall
    <3>2. CASE work'[i].arg = j /\ DataChunk(i)' = c
      BY <1>1, <1>2, <3>2 DEF NoCall
    <3> QED BY <1>8, <3>1, <3>2
  <2>3. ASSUME NEW i \in DataItems', NEW l \in DataItems', i # l
        PROVE  work'[i].arg # work'[l].arg /\ DataChunk(i)' # DataChunk(l)'
    BY <1>6, <1>8, <2>1, <2>3 DEF Pooled
  <2>4. Pooled'
    BY <2>2, <2>3 DEF Pooled
  <2>5. \A i \in DataItems' : DataSlot(i)' \in Slots /\ DataChunk(i)' \in Chunks
    BY <1>2, <1>8 DEF IInv, Jobbing
  <2> QED
    BY <1>1, <2>4, <2>5, PoolOwnershipNext DEF IInv, Jobbing, NoCall
<1>14. \A h \in Holders : Held(h)' \subseteq Held(h)
  BY <1>1, <1>5, HeldIs, HeldIsNext DEF Holders
<1>15. SlotOwnership'
  <2>1. HeldApart' /\ HeldInUse'
    BY <1>1, <1>14, KeepSlots DEF IInv, SlotOwnership
  <2> QED BY <1>1, <1>5, <2>1 DEF IInv, SlotOwnership, EventsOnce, RadioOnce,
                                  IsInjective
<1>16. Streaming'
  <2>1. StreamsInUse' /\ StreamsApart'
    BY <1>1, <1>3, <1>9, <1>14
       DEF IInv, Streaming, StreamsInUse, StreamsApart
  <2>2. StreamsFirst'
    <3> SUFFICES ASSUME NEW i \in DataItems', NEW l \in 1..i,
                        work'[l].fn = "close"
                 PROVE  work'[l].arg # DataSlot(i)'
      BY DEF StreamsFirst
    <3>1. i \in DOMAIN work' /\ work'[i].fn = "data"
      BY DEF DataItems
    <3>2. l \in DOMAIN work /\ work'[l] = work[l]
      <4>1. l \in DOMAIN work'
        BY <1>5, <3>1
      <4> QED BY <1>4, <1>5, <4>1
    <3>3. CASE i \in DataItems /\ DataSlot(i)' = DataSlot(i)
      BY <3>2, <3>3 DEF IInv, Streaming, StreamsFirst
    <3>4. CASE DataSlot(i)' = s
      <4>1. s \notin Held("close")
        BY <1>3 DEF Holders
      <4> QED BY <3>2, <3>4, <4>1, HeldIs DEF WorkSlots, Range
    <3> QED BY <1>8, <3>3, <3>4
  <2> QED BY <2>1, <2>2 DEF Streaming
<1>17. Live' \subseteq Live
  BY <1>1, <1>3, <1>9, <1>14 DEF Live, Open, Holders
<1>18. Waiting'
  BY <1>1, <1>17, FrameWaiting DEF IInv
<1>19. Routing'
  <2>1. LogSlots' \subseteq LogSlots /\ \A t : AskedOf(t)' = AskedOf(t)
    BY <1>1, <1>3, <1>9, <1>14 DEF LogSlots, Holders, AskedOf
  <2> QED BY <1>1, <1>17, <2>1 DEF IInv, Routing
<1> QED
  BY <1>10, <1>11, <1>12, <1>13, <1>15, <1>16, <1>18, <1>19 DEF IInv
-----------------------------------------------------------------------------
(***************************************************************************)
(* A request accepted, and the restart.                                    *)
(***************************************************************************)
\* A request gets a free slot: it was in no place, and its session is no
\* other slot's.
LEMMA AcceptRequestKeeps ==
  ASSUME IInv, NEW k \in Sockets, AcceptRequest(k), UNCHANGED taskVars
  PROVE  IInv'
<1>1. PICK s \in Slots \ usedSlots :
        /\ usedSlots' = usedSlots \cup {s}
        /\ slot' = [slot EXCEPT ![s] = [req |-> k, started |-> FALSE]]
        /\ httpd' = [at |-> "post", slot |-> s, job |-> None]
  <2>1. PICK s \in Slots \ usedSlots :
          /\ usedSlots' = usedSlots \cup {s}
          /\ InitSlot(s, k)
          /\ httpd' = [IdleTask EXCEPT !.at = "post", !.slot = s]
    BY DEF AcceptRequest
  <2> QED BY <2>1 DEF InitSlot, IdleTask
<1>2. /\ httpd.at = "idle" /\ session[k] = "request" /\ asked[k] \in Endpoints
      /\ session' = [session EXCEPT ![k] = "async"]
      /\ UNCHANGED <<panicked, asked, reply>>
      /\ UNCHANGED <<usedChunks, usedJobs, chunkData, jobData>>
      /\ UNCHANGED <<work, chunkCall>>
      /\ UNCHANGED <<eventQ, loop, radio, delegateQ, delegate, startUpdate, ota>>
  BY DEF AcceptRequest, taskVars
<1>3. /\ httpd.slot = None /\ httpd.job = None /\ s # None
      /\ DOMAIN session = Sockets
  BY <1>2, ServerAssumption DEF IInv, Shape, TypeOK, ServerTypeOK
<1>4. /\ Live \subseteq usedSlots /\ Live \subseteq Slots /\ s \notin Live
      /\ DataSlots \subseteq Live /\ s \notin DataSlots
  BY <1>1, LiveAreSlots DEF Live
<1>5. \A t \in Slots \ {s} : slot'[t] = slot[t]
  BY <1>1 DEF IInv, TypeOK, ServerTypeOK
<1>6. slot'[s].req = k
  BY <1>1 DEF IInv, TypeOK, ServerTypeOK
<1>7. TypeOK'
  <2>1. ServerTypeOK'
    BY <1>1, <1>2 DEF IInv, TypeOK, ServerTypeOK
  <2> QED BY <1>2, <2>1 DEF IInv, TypeOK, TaskTypeOK
<1>8. Shape'
  BY <1>1, <1>2, <1>3 DEF IInv, Shape
<1>9. Closings'
  <2> SUFFICES ASSUME NEW w \in Range(work), w.fn = "sessClose"
               PROVE  session'[w.arg] = "closing"
    BY <1>2 DEF Closings
  <2>1. w.arg # k /\ session[w.arg] = "closing" /\ w \in WorkItem
    <3>1. work \in Seq(WorkItem)
      BY DEF IInv, TypeOK, ServerTypeOK
    <3>2. session[w.arg] = "closing"
      BY DEF IInv, Closings
    <3> QED BY <1>2, <3>1, <3>2 DEF Range
  <2> QED BY <1>2, <1>3, <2>1 DEF WorkItem
<1>10. Jobbing' /\ DataSlots' = DataSlots
  BY <1>1, <1>2, <1>3, FrameJobbing, FrameData DEF IInv
<1>11. /\ \A h \in Holders \ {"httpd"} : Held(h)' = Held(h)
       /\ Held("httpd")' = {s} /\ "httpd" \in Holders
       /\ \A h \in Holders : s \notin Held(h)
  <2>1. \A h \in Holders : s \notin Held(h)
    BY <1>1 DEF IInv, SlotOwnership, HeldInUse
  <2> QED BY <1>1, <1>2, <1>3, <2>1, HeldIs, HeldIsNext DEF Holders, WorkSlots
<1>12. SlotOwnership'
  <2>1. HeldApart' /\ HeldInUse'
    BY <1>1, <1>11, MoveSlot DEF IInv, SlotOwnership
  <2> QED BY <1>2, <2>1 DEF IInv, SlotOwnership, EventsOnce, RadioOnce,
                            WorkOnce, IsInjective
<1>13. Streaming'
  <2>1. StreamsInUse' /\ StreamsApart'
    BY <1>1, <1>4, <1>10, <1>11
       DEF IInv, Streaming, StreamsInUse, StreamsApart
  <2>2. StreamsFirst'
    BY <1>2, FrameData DEF IInv, Streaming, StreamsFirst
  <2> QED BY <2>1, <2>2 DEF Streaming
<1>14. Live' \subseteq Live \cup {s}
  BY <1>1, <1>2, <1>10, <1>11 DEF Live, Open, Holders
<1>15. \A t \in Live : /\ slot'[t].req = slot[t].req /\ slot[t].req \in Sockets
                       /\ slot[t].req # k
                       /\ session'[slot[t].req] = "async"
  BY <1>2, <1>3, <1>4, <1>5 DEF IInv, Waiting
<1>16. Waiting'
  <2>1. ASSUME NEW t \in Live'
        PROVE  slot'[t].req \in Sockets /\ session'[slot'[t].req] = "async"
    BY <1>2, <1>3, <1>6, <1>14, <1>15
  <2>2. ASSUME NEW t \in Live', NEW u \in Live', slot'[t].req = slot'[u].req
        PROVE  t = u
    BY <1>6, <1>14, <1>15, <2>2 DEF IInv, Waiting
  <2> QED BY <2>1, <2>2 DEF Waiting
<1>17. Routing'
  <2>1. \A t \in Live : AskedOf(t)' = AskedOf(t)
    BY <1>2, <1>15 DEF AskedOf
  <2>2. AskedOf(s)' \in Endpoints
    BY <1>2, <1>6 DEF AskedOf
  <2>3. LogSlots' = LogSlots /\ LogSlots \subseteq Live
    BY <1>10, <1>11 DEF LogSlots, Live, Open, Holders
  <2>4. \A b \in radio : b.ctx \in Live
    BY HeldIs DEF Live, Open
  <2>5. \A e \in Range(eventQ) : e.id # "REBOOT_REQUIRED" => e.ctx \in Live
    BY HeldIs DEF IInv, Shape, Live, Open
  <2>6. loop.at = "delegate" => loop.slot \in Live
    BY DEF Live, Open
  <2> QED
    BY <1>2, <1>14, <2>1, <2>2, <2>3, <2>4, <2>5, <2>6
       DEF IInv, Routing, GateEvents
<1> QED
  BY <1>7, <1>8, <1>9, <1>10, <1>12, <1>13, <1>16, <1>17 DEF IInv

\* The node that just started satisfies the invariant.
LEMMA InitIInv == Init => IInv
<1> SUFFICES ASSUME Init PROVE IInv
  OBVIOUS
<1>1. /\ Range(eventQ) = {} /\ Range(delegateQ) = {} /\ Range(work) = {}
      /\ DOMAIN eventQ = {} /\ DOMAIN delegateQ = {} /\ DOMAIN work = {}
  BY DEF Init, ServerInit, Range
<1>2. TypeOK
  <2>1. NoReply \in [heads : Nat, chunks : Seq(Nat), verdict : Verdicts,
                     ends : Nat]
    BY DEF NoReply, Verdicts
  <2>2. ServerTypeOK
    <3>1. "unmatched" \in Targets
      BY DEF Targets
    <3>2. <<>> \in Seq(WorkItem)
      OBVIOUS
    <3> QED
      BY <2>1, <3>1, <3>2
         DEF Init, ServerInit, ServerTypeOK, IdleTask, NoCall
  <2>3. TaskTypeOK
    <3>1. <<>> \in Seq(Slots) /\ <<>> \in Seq(EventRecord)
      OBVIOUS
    <3> QED
      BY <3>1 DEF Init, TaskTypeOK, IdleLoop, IdleDelegate, Verdicts,
                  EventRecord
  <2> QED BY <2>2, <2>3 DEF TypeOK
<1>3. Shape
  BY <1>1 DEF Init, ServerInit, Shape, IdleTask, IdleLoop, NoCall
<1>4. (\A h \in Holders : Held(h) = {}) /\ Open = {}
  <2>1. \A h \in Holders : Held(h) = {}
    BY <1>1, HeldIs DEF Init, ServerInit, Holders, IdleTask, IdleLoop,
                        IdleDelegate, WorkSlots
  <2> QED BY <2>1 DEF Open, Init, ServerInit, Holders, IdleTask, IdleLoop
<1>5. SlotOwnership
  BY <1>1, <1>4 DEF SlotOwnership, HeldInUse, HeldApart, EventsOnce, RadioOnce,
                    WorkOnce, IsInjective, Init
<1>6. Closings /\ DataItems = {} /\ DataSlots = {}
  BY <1>1 DEF Closings, DataItems, DataSlots
<1>7. Jobbing
  <2>1. PoolOwnership
    BY <1>6, PoolOwnershipIs DEF Pooled
  <2> QED BY <1>6, <2>1 DEF Jobbing, Init, ServerInit, IdleTask, NoCall
<1>8. Streaming
  BY <1>6 DEF Streaming, StreamsInUse, StreamsApart, StreamsFirst
<1>9. Waiting /\ Routing
  BY <1>1, <1>4, <1>6 DEF Waiting, Routing, Live, LogSlots, Holders, Init,
                          IdleLoop
<1> QED BY <1>2, <1>3, <1>5, <1>6, <1>7, <1>8, <1>9 DEF IInv

\* A restart sets every variable back.
LEMMA RestartKeeps == Restart => IInv'
<1>1. Restart => Init'
  BY DEF Restart, Init, ServerInit
<1>2. Init => IInv
  BY InitIInv
<1> QED BY <1>1, <1>2, PTL
-----------------------------------------------------------------------------
(***************************************************************************)
(* The invariant.                                                          *)
(***************************************************************************)

\* Every step of every task keeps the invariant.
LEMMA NextKeeps == IInv /\ [Next]_vars => IInv'
<1> SUFFICES ASSUME IInv, [Next]_vars PROVE IInv'
  OBVIOUS
<1>1. CASE ClientStep
  BY <1>1, AskKeeps DEF ClientStep
<1>2. ASSUME NEW k \in Sockets, HandleSession(k) PROVE IInv'
  <2>1. CASE AcceptRequest(k) /\ UNCHANGED taskVars
    BY <2>1, AcceptRequestKeeps
  <2>2. CASE SlotsExhausted(k) /\ UNCHANGED taskVars
    <3>1. /\ panicked' \in BOOLEAN
          /\ UNCHANGED <<session, asked, reply, slot, usedSlots, usedChunks,
                         usedJobs, chunkData, jobData, work, httpd, chunkCall>>
          /\ UNCHANGED <<eventQ, loop, radio, delegateQ, delegate>>
          /\ startUpdate' = startUpdate /\ ota' = ota
      BY <2>2 DEF SlotsExhausted, clientVars, poolVars, taskVars
    <3> QED BY <3>1, SameSlotsKeeps DEF IInv, TypeOK, TaskTypeOK
  <2>3. CASE NotFound(k) /\ UNCHANGED taskVars
    BY <2>3, NotFoundKeeps
  <2> QED BY <1>2, <2>1, <2>2, <2>3 DEF HandleSession
<1>3. CASE HandleWork
  BY <1>3, RunDataKeeps, RunCloseKeeps, RunSessCloseKeeps, RunFinalizeKeeps
     DEF HandleWork, RunWork
<1>4. CASE HttpdContinues
  BY <1>4, EndDataKeeps, QueueFinalizeKeeps, PostRequestKeeps, PostFailsKeeps,
     RefuseKeeps, ReleaseKeeps
     DEF HttpdContinues
<1>5. CASE LoopStep
  BY <1>5, SendCommandKeeps, CommandRefusedKeeps, HandleLogKeeps,
     DelegatePostKeeps, HandleOtaKeeps, HandleSendStatusKeeps, InformKeeps,
     InformReleaseKeeps, RestartKeeps
     DEF LoopStep, HandleRebootRequired
<1>6. CASE RadioStep
  BY <1>6, ReportSendKeeps, LoseReportKeeps DEF RadioStep, RadioReports
<1>7. CASE DelegateStep
  BY <1>7, AllocChunkKeeps, AllocJobKeeps, QueueDataKeeps, DropDataKeeps,
     DelegateTakeKeeps, ReadPieceKeeps, EndOfLogKeeps
     DEF DelegateStep
<1>8. CASE OtaStep
  <2>1. CASE UpdateStarts
    <3>1. /\ UNCHANGED <<panicked, session, asked, reply, slot, usedSlots,
                         usedChunks, usedJobs, chunkData, jobData, work, httpd,
                         chunkCall>>
          /\ UNCHANGED <<eventQ, loop, radio, delegateQ, delegate>>
          /\ startUpdate' = FALSE /\ ota' = "updating"
      BY <2>1 DEF UpdateStarts, serverVars, clientVars, poolVars
    <3>2. panicked' \in BOOLEAN
      BY <3>1 DEF IInv, TypeOK, ServerTypeOK
    <3> QED BY <3>1, <3>2, SameSlotsKeeps
  <2> QED BY <1>8, <2>1, UpdateEndsKeeps DEF OtaStep
<1>9. CASE PanicReboot
  BY <1>9, RestartKeeps DEF PanicReboot
<1>10. CASE UNCHANGED vars
  <2>1. /\ UNCHANGED <<panicked, session, asked, reply, slot, usedSlots,
                       usedChunks, usedJobs, chunkData, jobData, work, httpd,
                       chunkCall>>
        /\ UNCHANGED <<eventQ, loop, radio, delegateQ, delegate>>
        /\ startUpdate' = startUpdate /\ ota' = ota
    BY <1>10 DEF vars, serverVars, clientVars, poolVars, taskVars
  <2> QED BY <2>1, SameSlotsKeeps DEF IInv, TypeOK, ServerTypeOK, TaskTypeOK
<1> QED
  BY <1>1, <1>2, <1>3, <1>4, <1>5, <1>6, <1>7, <1>8, <1>9, <1>10 DEF Next

\* In every behaviour of the node, with any number of sockets, slots, chunks
\* and jobs, and whether or not posts and work items are lost, the inductive
\* invariant holds.
THEOREM Invariance == Spec => []IInv
<1>1. Init => IInv
  BY InitIInv
<1>2. IInv /\ [Next]_vars => IInv'
  BY NextKeeps
<1> QED BY <1>1, <1>2, PTL DEF Spec

-----------------------------------------------------------------------------
(***************************************************************************)
(* What follows.                                                           *)
(***************************************************************************)

\* Type correctness of the server and the tasks.
THEOREM TypeCorrect == Spec => []TypeOK
<1>1. IInv => TypeOK
  BY DEF IInv
<1> QED BY <1>1, Invariance, PTL

\* The ownership of slots (http_server.c, g_async_bank): a pointer to a slot
\* is in one place of the node, once, and no place has one that was freed.
THEOREM SlotsOwned == Spec => []SlotOwnership
<1>1. IInv => SlotOwnership
  BY DEF IInv
<1> QED BY <1>1, Invariance, PTL

\* The ownership of jobs and chunks (g_job_bank, g_chunk_bank), which two
\* tasks allocate and free: no job is queued twice and no two carry a chunk.
THEOREM PoolsOwned == Spec => []PoolOwnership
<1>1. IInv => PoolOwnership
  BY DEF IInv, Jobbing
<1> QED BY <1>1, Invariance, PTL

\* The context that user_request.c hands out leads the outcome back to the
\* client that asked for it.
THEOREM AnswersReachAskers == Spec => []AnswerReachesAsker
<1>1. IInv => AnswerReachesAsker
  <2> SUFFICES ASSUME IInv PROVE AnswerReachesAsker
    OBVIOUS
  <2>1. Open \subseteq Live
    BY DEF Live
  <2>2. \A s \in Open : slot[s].req \in Sockets
                        /\ session[slot[s].req] = "async"
    BY <2>1 DEF IInv, Waiting
  <2>3. \A s, t \in Open : s # t => slot[s].req # slot[t].req
    BY <2>1 DEF IInv, Waiting
  <2>4. \A c \in radio : asked[slot[c.ctx].req] =
          IF c.command = "OPEN_LOCK" THEN "/open-gate" ELSE "/close-gate"
    BY DEF IInv, Routing, AskedOf
  <2>5. \A s \in Held("delegateQ") \cup Held("delegate") \cup Held("close") :
          asked[slot[s].req] = "/get-log"
    BY DEF IInv, Routing, AskedOf, LogSlots
  <2> QED BY <2>2, <2>3, <2>4, <2>5 DEF AnswerReachesAsker
<1> QED BY <1>1, Invariance, PTL

\* The order of the work queue (http_server_send_chunked_response): queued
\* data finds its request open and its slot allocated.
THEOREM DataRunsBeforeClose == Spec => []DataBeforeClose
<1>1. IInv => DataBeforeClose
  <2> SUFFICES ASSUME IInv, NEW i \in DOMAIN work, work[i].fn = "data"
               PROVE  LET s == jobData[work[i].arg].slot IN
                        /\ s \in usedSlots /\ s \notin Answered
                        /\ session[slot[s].req] = "async"
                        /\ asked[slot[s].req] = "/get-log"
                        /\ \A j \in 1..i :
                             work[j].fn \in {"close", "finalize"}
                               => work[j].arg # s
    BY DEF DataBeforeClose
  <2> DEFINE s == jobData[work[i].arg].slot
  <2>1. i \in DataItems /\ DataSlot(i) = s /\ s \in DataSlots
    BY DEF DataItems, DataSlot, DataSlots
  <2>2. s \in usedSlots /\ s \in Live /\ s \in LogSlots
    BY <2>1 DEF IInv, Streaming, StreamsInUse, Live, LogSlots
  <2>3. /\ s \notin Held("httpd") /\ s \notin Held("loop")
        /\ s \notin Held("finalize")
    BY <2>1 DEF IInv, Streaming, StreamsApart, Holders
  <2>4. s \notin Answered
    BY <2>3, HeldIs DEF Answered, IInv, Shape
  <2>5. session[slot[s].req] = "async" /\ asked[slot[s].req] = "/get-log"
    BY <2>2 DEF IInv, Waiting, Routing, AskedOf
  <2>6. ASSUME NEW j \in 1..i, work[j].fn \in {"close", "finalize"}
        PROVE  work[j].arg # s
    <3>1. CASE work[j].fn = "close"
      BY <2>1, <3>1 DEF IInv, Streaming, StreamsFirst
    <3>2. CASE work[j].fn = "finalize"
      <4>1. j \in DOMAIN work
        BY DEF IInv, TypeOK, ServerTypeOK
      <4>2. work[j].arg \in Held("finalize")
        BY <3>2, <4>1, HeldIs DEF WorkSlots, Range
      <4> QED BY <2>3, <4>2
    <3> QED BY <2>6, <3>1, <3>2
  <2> QED BY <2>2, <2>4, <2>5, <2>6
<1> QED BY <1>1, Invariance, PTL

\* The event loop task finds room in the delegate queue (delegate_post): the
\* slots queued are distinct and none is the one it holds, so there are fewer
\* than DelegateCap of them.
THEOREM LoopNeverWaits == Spec => []LoopNeverBlocks
<1>1. IInv => LoopNeverBlocks
  <2> SUFFICES ASSUME IInv, loop.at = "delegate"
               PROVE  Len(delegateQ) < DelegateCap
    BY DEF LoopNeverBlocks
  <2> DEFINE rest == Slots \ {loop.slot}
             places == 1..Len(delegateQ)
  <2>1. delegateQ \in Seq(Slots) /\ Len(delegateQ) \in Nat
        /\ DOMAIN delegateQ = places
    BY DEF IInv, TypeOK, TaskTypeOK
  <2>2. loop.slot \in Slots /\ loop.slot \in Held("loop")
    BY HeldIs DEF IInv, Shape, TypeOK, TaskTypeOK
  <2>3. loop.slot \notin Range(delegateQ)
    BY <2>2, HeldIs DEF IInv, SlotOwnership, HeldApart, Holders
  <2>4. delegateQ \in [places -> rest]
    BY <2>1, <2>3 DEF Range
  <2>5. \A i, j \in places : delegateQ[i] = delegateQ[j] => i = j
    BY <2>1 DEF IInv, SlotOwnership, IsInjective
  <2>6. /\ IsFiniteSet(rest) /\ Cardinality(rest) = Cardinality(Slots) - 1
        /\ Cardinality(Slots) \in Nat
    BY <2>2, FS_RemoveElement, FS_CardinalityType, DelegateFits
  <2>7. IsFiniteSet(places) /\ Cardinality(places) = Len(delegateQ)
    BY <2>1, FS_Interval
  <2>8. Cardinality(places) <= Cardinality(rest)
    <3>1. ~ (Cardinality(rest) < Cardinality(places))
      <4> HIDE DEF rest, places
      <4> QED BY <2>4, <2>5, <2>6, <2>7, FS_PigeonHole, ZenonT(30)
    <3> QED BY <2>1, <2>6, <2>7, <3>1
  <2> QED BY <2>1, <2>6, <2>7, <2>8, DelegateFits, PathAssumption
<1> QED BY <1>1, Invariance, PTL
=============================================================================
