------------------------------ MODULE Exchange ------------------------------
(***************************************************************************)
(* How the messages of a connection reach those who wait for them          *)
(* (src/device.rs): the reader broadcasts each packet, process_command     *)
(* picks the response of the request being processed, and the user gets    *)
(* messages from listener(), from the blocking listener() of src/sync.rs,  *)
(* which a task feeds through a bounded channel, or from receive(). The    *)
(* broadcast channel is bounded too: a receiver that falls too far behind  *)
(* loses messages and is told so.                                          *)
(***************************************************************************)
EXTENDS Naturals, Sequences

CONSTANTS
    Requests,      \* request() calls, processed one at a time
    NoRequest,     \* origin of a message nobody asked for
    Cids,          \* sub-devices
    NoCid,         \* the device itself; a payload without "cid"
    RequestCmd,    \* effective command code of each request
    RequestCid,    \* sub-device each request is for
    BroadcastCap,  \* capacity of the channel (CHAN_BROADCAST_CAPACITY)
    SyncCap,       \* capacity of the blocking listener's (CHAN_SYNC_CAPACITY)
    MaxMessages    \* bound on the messages of a behaviour

\* "Error" is command code 0, "Status" what a device reports of itself.
Cmds == {"Error", "Status", "Control", "LanExtStream"}
Bodies == {"empty", "json", "text"}
Messages ==
    [cmd : Cmds, body : Bodies, cid : Cids \cup {NoCid}, of : Requests \cup {NoRequest}]

ASSUME ExchangeAssumption ==
    /\ NoRequest \notin Requests
    /\ NoCid \notin Cids
    /\ RequestCmd \in [Requests -> Cmds \ {"Error"}]
    /\ RequestCid \in [Requests -> Cids \cup {NoCid}]
    /\ BroadcastCap \in Nat \ {0}
    /\ SyncCap \in Nat \ {0}
    /\ MaxMessages \in Nat

VARIABLES
    log,       \* every message broadcast so far; the channel holds its end
    asked,     \* requests written to the connection
    cur,       \* request whose response is awaited
    pos,       \* messages the response subscription has consumed
    result,    \* position in log of the response of each request, 0 without one
    failure,   \* error each request ended with
    kind,      \* how the user listens; "dropped": the blocking receiver is gone
    lpos,      \* messages the listener has consumed
    listening, \* the stream or its task has not ended, or receive() is waiting
    seen,      \* positions in log of what has been yielded, or sent to the receiver
    taken      \* how much of that the blocking receiver has taken

listener == <<kind, lpos, listening, seen, taken>>
vars == <<log, asked, cur, pos, result, failure, listener>>

Failures == {"none", "Timeout", "Offline"}
Kinds == {"stream", "blocking", "dropped", "receive"}

TypeOK ==
    /\ log \in Seq(Messages)
    /\ Len(log) <= MaxMessages
    /\ asked \subseteq Requests
    /\ cur \in Requests \cup {NoRequest}
    /\ pos \in 0..Len(log)
    /\ result \in [Requests -> 0..Len(log)]
    /\ failure \in [Requests -> Failures]
    /\ lpos \in 0..Len(log)
    /\ kind \in Kinds
    /\ listening \in BOOLEAN
    /\ seen \in Seq(1..Len(log))
    /\ taken \in 0..Len(seen)
    /\ Len(seen) - taken <= SyncCap

Init ==
    /\ log = <<>>
    /\ asked = {}
    /\ cur = NoRequest
    /\ pos = 0
    /\ result = [r \in Requests |-> 0]
    /\ failure = [r \in Requests |-> "none"]
    /\ kind \in Kinds \ {"dropped"}
    /\ lpos = 0
    /\ listening = (kind # "receive")
    /\ seen = <<>>
    /\ taken = 0

\* More messages were sent past position p than the channel holds.
Lagged(p) == Len(log) - p > BroadcastCap

\* Mutant: the subscription starts with what the channel still holds.
StartFromBacklog(r) ==
    /\ cur = NoRequest
    /\ r \notin asked
    /\ cur' = r
    /\ asked' = asked \cup {r}
    /\ pos' = IF Len(log) > BroadcastCap THEN Len(log) - BroadcastCap ELSE 0
    /\ UNCHANGED <<log, result, failure, listener>>

\* process_command subscribes, then writes the request.
Start(r) ==
    /\ cur = NoRequest
    /\ r \notin asked
    /\ cur' = r
    /\ asked' = asked \cup {r}
    /\ pos' = Len(log)
    /\ UNCHANGED <<log, result, failure, listener>>

\* read_and_parse_from_stream and process_socket_data: what cannot be decoded or
\* is not JSON ("text") is replaced by an error message, with code 0 and no cid.
Broadcast(m) ==
    IF m.body = "text" THEN [m EXCEPT !.cmd = "Error", !.body = "json"] ELSE m

\* A packet arrives: an answer to a request written earlier, on time, late or
\* repeated, or a report of the device or of one of its sub-devices.
Packet(m) ==
    /\ Len(log) < MaxMessages
    /\ \/ /\ m.of \in asked
          /\ m.cmd \in {RequestCmd[m.of], "Error"}
          /\ m.body = "json" => m.cid = RequestCid[m.of]
       \/ m.of = NoRequest /\ m.cmd = "Status"
    /\ m.body # "json" => m.cid = NoCid
    /\ log' = Append(log, Broadcast(m))
    /\ UNCHANGED <<asked, cur, pos, result, failure, listener>>

\* Mutant: the cid of the payload is not looked at.
AcceptsAnyCid(r, m) ==
    \/ m.cmd = "Error"
    \/ /\ m.cmd \in {RequestCmd[r], "Status"}
       /\ m.body = "empty" => m.cmd # "LanExtStream"

\* The filter of process_command on a message received while r waits. An empty
\* message passes unless its own command must carry data.
Accepts(r, m) ==
    \/ m.cmd = "Error"
    \/ /\ m.cmd \in {RequestCmd[r], "Status"}
       /\ m.body = "empty" => m.cmd # "LanExtStream"
       /\ m.body = "json" => m.cid = RequestCid[r]

Finish(i, e) ==
    /\ result' = [result EXCEPT ![cur] = i]
    /\ failure' = [failure EXCEPT ![cur] = e]
    /\ cur' = NoRequest
    /\ UNCHANGED <<log, asked, pos, listener>>

\* The wait loop looks at the next message; a lagging subscription ends it.
Examine ==
    /\ cur # NoRequest
    /\ pos < Len(log)
    /\ \/ Lagged(pos) /\ Finish(0, "Offline")
       \/ ~Lagged(pos) /\ Accepts(cur, log[pos + 1]) /\ Finish(pos + 1, "none")
       \/ /\ ~Lagged(pos) /\ ~Accepts(cur, log[pos + 1])
          /\ pos' = pos + 1
          /\ UNCHANGED <<log, asked, cur, result, failure, listener>>

ResponseTimeout == cur # NoRequest /\ Finish(0, "Timeout")

NonEmpty(m) == m.body # "empty"

\* A receiver of the broadcast consumes the next message; p is where it goes on.
Consume(p) == lpos < Len(log) /\ lpos' = p /\ UNCHANGED <<log, asked, cur, pos, result, failure, kind>>

\* Mutant: a lagging listener silently continues with what is left.
ListenSkipping ==
    /\ kind = "stream" /\ listening
    /\ LET p == IF Lagged(lpos) THEN Len(log) - BroadcastCap ELSE lpos IN
       /\ Consume(p + 1)
       /\ seen' = IF NonEmpty(log[p + 1]) THEN Append(seen, p + 1) ELSE seen
    /\ taken' = Len(seen')
    /\ UNCHANGED listening

\* listener(): yield the next message that has a payload; end on lag.
Listen ==
    /\ kind = "stream" /\ listening
    /\ IF Lagged(lpos)
       THEN Consume(lpos) /\ listening' = FALSE /\ UNCHANGED seen
       ELSE /\ Consume(lpos + 1)
            /\ seen' = IF NonEmpty(log[lpos + 1]) THEN Append(seen, lpos + 1) ELSE seen
            /\ UNCHANGED listening
    /\ taken' = Len(seen')

\* sync.rs listener(): the task passes messages on with try_send, and ends on lag or
\* when the receiver's buffer is full or the receiver gone.
Ends(m) == NonEmpty(m) /\ (kind = "dropped" \/ Len(seen) - taken = SyncCap)

Forward ==
    /\ kind \in {"blocking", "dropped"} /\ listening
    /\ IF lpos < Len(log) /\ (Lagged(lpos) \/ Ends(log[lpos + 1]))
       THEN Consume(lpos) /\ listening' = FALSE /\ UNCHANGED seen
       ELSE /\ Consume(lpos + 1)
            /\ seen' = IF NonEmpty(log[lpos + 1]) THEN Append(seen, lpos + 1) ELSE seen
            /\ UNCHANGED listening
    /\ UNCHANGED taken

Take ==
    /\ kind = "blocking" /\ taken < Len(seen)
    /\ taken' = taken + 1
    /\ UNCHANGED <<log, asked, cur, pos, result, failure, kind, lpos, listening, seen>>

DropReceiver ==
    /\ kind = "blocking"
    /\ kind' = "dropped" /\ taken' = Len(seen)
    /\ UNCHANGED <<log, asked, cur, pos, result, failure, lpos, listening, seen>>

\* Mutant: receive() starts with what the channel still holds.
ReceiveFromBuffer ==
    /\ kind = "receive" /\ ~listening
    /\ lpos' = (IF Len(log) > BroadcastCap THEN Len(log) - BroadcastCap ELSE 0) /\ listening' = TRUE
    /\ UNCHANGED <<log, asked, cur, pos, result, failure, kind, seen, taken>>

\* receive() subscribes anew each time: what comes between two calls is not seen.
Receive ==
    /\ kind = "receive" /\ ~listening
    /\ lpos' = Len(log) /\ listening' = TRUE
    /\ UNCHANGED <<log, asked, cur, pos, result, failure, kind, seen, taken>>

\* It returns the next message that has a payload, or an error on lag.
Received ==
    /\ kind = "receive" /\ listening
    /\ IF Lagged(lpos)
       THEN Consume(lpos) /\ listening' = FALSE /\ UNCHANGED seen
       ELSE /\ Consume(lpos + 1)
            /\ listening' = ~NonEmpty(log[lpos + 1])
            /\ seen' = IF NonEmpty(log[lpos + 1]) THEN Append(seen, lpos + 1) ELSE seen
    /\ taken' = Len(seen')

Next ==
    \/ \E r \in Requests : Start(r)
    \/ \E m \in Messages : Packet(m)
    \/ Examine
    \/ ResponseTimeout
    \/ Listen
    \/ Forward
    \/ Take
    \/ DropReceiver
    \/ Receive
    \/ Received

Spec == Init /\ [][Next]_vars

(***************************************************************************)
(* Properties                                                              *)
(***************************************************************************)

Answered(r) == result[r] # 0
Response(r) == log[result[r]]

\* Responses of sub-devices are not mixed up: a response with a payload, other
\* than an error, is from the sub-device (or the device) that was asked.
NoCrossTalk ==
    \A r \in Requests :
        Answered(r) /\ Response(r).cmd # "Error" /\ Response(r).body # "empty" =>
            Response(r).cid = RequestCid[r]

\* One message never answers two requests: each subscription starts after all
\* that the previous one could have accepted.
MessageAnswersOnce ==
    \A r, s \in Requests : Answered(r) /\ Answered(s) /\ r # s => result[r] # result[s]

\* A listener gets every message with a payload that was broadcast up to where it is,
\* or was when it ended: ending, on lag or on a full buffer, is the only way to lose.
ListenerComplete ==
    kind \in {"stream", "blocking"} =>
        {seen[i] : i \in 1..Len(seen)} = {i \in 1..lpos : NonEmpty(log[i])}

\* However the user listens, messages come in order and none comes twice.
InOrder ==
    /\ \A i \in 1..Len(seen) : seen[i] <= lpos
    /\ \A i, j \in 1..Len(seen) : i < j => seen[i] < seen[j]

=============================================================================
