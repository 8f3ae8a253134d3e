--------------------------- MODULE RequestService ---------------------------
(***************************************************************************)
(* What the node promises a client, whatever its tasks and pools do: a     *)
(* request gets one reply and that reply is of the kind its endpoint       *)
(* answers with; a log is streamed in order, each piece once, and nothing  *)
(* follows the end of a reply.  A restart forgets the requests in          *)
(* progress.  RequestPath implements this specification.                   *)
(***************************************************************************)
EXTENDS Naturals, Sequences

CONSTANTS
  Sockets,   \* the sessions the HTTP server keeps open
  MaxLog     \* bound of the model: pieces in a log snapshot

VARIABLES
  waiting,   \* the sockets whose request has not had the whole of its reply
  asked,     \* the target of the last request made on each socket
  answer     \* what has been sent on each socket for that request

vars == <<waiting, asked, answer>>

Targets == {"/open-gate", "/close-gate", "/get-log", "/ota-update",
            "unmatched"}

\* The words a reply to target may end with ("none": the end of a stream).
Allowed(target) ==
  CASE target \in {"/open-gate", "/close-gate"} -> {"success", "Failed",
                                                    "failure"}
    [] target = "/get-log"    -> {"none", "failure"}
    [] target = "/ota-update" -> {"success", "failure"}
    [] target = "unmatched"   -> {"404"}

NoAnswer == [chunks |-> <<>>, verdict |-> "none", ends |-> 0]

Init ==
  /\ waiting = {}
  /\ asked = [k \in Sockets |-> "unmatched"]
  /\ answer = [k \in Sockets |-> NoAnswer]

\* A client makes a request.
Ask(k, target) ==
  /\ k \notin waiting
  /\ waiting' = waiting \cup {k}
  /\ asked' = [asked EXCEPT ![k] = target]
  /\ answer' = [answer EXCEPT ![k] = NoAnswer]

\* Piece n of the log is sent: pieces may be left out, never reordered.
Stream(k, n) ==
  /\ k \in waiting
  /\ asked[k] = "/get-log"
  /\ \A i \in DOMAIN answer[k].chunks : answer[k].chunks[i] < n
  /\ answer' = [answer EXCEPT ![k].chunks = Append(@, n)]
  /\ UNCHANGED <<waiting, asked>>

\* The reply ends.  A refusal ("failure") is never mixed with a stream.
Finish(k, verdict) ==
  /\ k \in waiting
  /\ verdict \in Allowed(asked[k])
  /\ verdict = "none" \/ answer[k].chunks = <<>>
  /\ answer[k].ends = 0
  /\ waiting' = waiting \ {k}
  /\ answer' = [answer EXCEPT ![k].verdict = verdict, ![k].ends = 1]
  /\ UNCHANGED asked

\* The node restarts: an update was installed, or an exception stopped it.
Reboot ==
  /\ waiting' = {}
  /\ asked' = [k \in Sockets |-> "unmatched"]
  /\ answer' = [k \in Sockets |-> NoAnswer]

Next ==
  \/ \E k \in Sockets, target \in Targets : Ask(k, target)
  \/ \E k \in Sockets :
       \E n \in 1..MaxLog : Stream(k, n)
  \/ \E k \in Sockets :
       \E verdict \in Allowed(asked[k]) : Finish(k, verdict)
  \/ Reboot

Spec == Init /\ [][Next]_vars
=============================================================================
