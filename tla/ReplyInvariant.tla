--------------------------- MODULE ReplyInvariant ----------------------------
(***************************************************************************)
(* What StreamOrder and the refinement of RequestService rest on, besides  *)
(* IInv: where the pieces of a log are between the delegate task and the   *)
(* client, and which words are on their way to whom.  It holds whether or  *)
(* not posts and work items are lost.                                      *)
(***************************************************************************)
EXTENDS RequestPathInvariant

\* The pieces of the log that the request of slot s has been sent.
Sent(s) == reply[slot[s].req].chunks

\* The piece that the data item at place i carries.
Piece(i) == chunkData[DataChunk(i)]

Increasing(seq) == \A i, j \in DOMAIN seq : i < j => seq[i] < seq[j]

\* The live slots that are not with the delegate task yet.
Early ==
  (IF httpd.at \in {"post", "refuse"} THEN {httpd.slot} ELSE {})
  \cup (IF loop.at \in {"delegate", "answer"} THEN {loop.slot} ELSE {})
  \cup Held("event") \cup Held("radio") \cup Held("delegateQ")

\* A reply r on a session in state x: nothing sent before the request is taken
\* on, the header fields once and first, the pieces in order, at most one end.
Whole(x, r) ==
  /\ x \in {"request", "async"} => r.ends = 0
  /\ x = "request" => r.chunks = <<>>
  /\ r.heads = IF r.chunks = <<>> THEN 0 ELSE 1
  /\ r.ends <= 1
  /\ Increasing(r.chunks)

\* What each client has been sent.
RepliesWhole == \A k \in Sockets : Whole(session[k], reply[k])

\* A slot knows whether the header fields were set for its request.
Started == \A s \in Live : slot[s].started <=> Sent(s) # <<>>

\* Nothing is sent before the delegate task has the slot.
Unsent == \A s \in Early : Sent(s) = <<>>

\* The pieces queued for a request are in order, and later than those sent.
QueuedInOrder ==
  \A i \in DataItems :
    /\ Piece(i) \in 1..MaxLog
    /\ \A m \in DOMAIN Sent(DataSlot(i)) : Sent(DataSlot(i))[m] < Piece(i)
    /\ \A j \in DataItems :
         i < j /\ DataSlot(i) = DataSlot(j) => Piece(i) < Piece(j)

\* All of them are earlier than the piece that the delegate task passes on,
\* or would read next.
Upto == IF chunkCall.at = "idle" THEN delegate.n + 1 ELSE delegate.n

ReadInOrder ==
  /\ delegate.n <= MaxLog
  /\ chunkCall.at # "idle" => chunkCall.n = delegate.n /\ delegate.n # 0
  /\ delegate.slot # None =>
       /\ \A i \in DataItems : DataSlot(i) = delegate.slot => Piece(i) < Upto
       /\ \A m \in DOMAIN Sent(delegate.slot) : Sent(delegate.slot)[m] < Upto

\* Events and answers are for requests of the endpoints they belong to.
AnswersFit ==
  /\ \A e \in Range(eventQ) :
       /\ e.id = "OTA_UPDATE" => AskedOf(e.ctx) = "/ota-update"
       /\ e.id = "SEND_STATUS" => AskedOf(e.ctx) \in GateEndpoints
  /\ loop.at = "answer" => loop.verdict \in Service!Allowed(AskedOf(loop.slot))

Replies ==
  /\ RepliesWhole
  /\ Started
  /\ Unsent
  /\ QueuedInOrder
  /\ ReadInOrder
  /\ AnswersFit
=============================================================================
