----------------------------- MODULE DeviceTask -----------------------------
(***************************************************************************)
(* The background connection task of one Device (src/device.rs): the       *)
(* command channel, the connect/backoff/serve/on-demand loop of            *)
(* run_connection_task, the reader task it spawns for each connection, and *)
(* the callers that use the shared Device handle.                          *)
(*                                                                         *)
(* One action is one segment of code between two awaits, which is the unit *)
(* the tokio scheduler interleaves and the only place where cancellation   *)
(* can drop the task's future.                                             *)
(***************************************************************************)
EXTENDS Naturals, Sequences

CONSTANTS
    Requests,           \* identities of the request() calls in flight
    NoRequest,          \* "no command in hand"
    QueueCap,           \* capacity of the command channel (CHAN_MPSC_CAPACITY)
    FailCap,            \* failure_count is kept up to this value
    SeqCap,             \* seqno is kept up to this value
    PersistModes,       \* values set_persist may be called with
    NowaitModes,        \* values set_nowait may be called with
    BackoffTicks,       \* length of a backoff's sleep, in ticks
    RequiresSessionKey  \* the protocol version negotiates a session key

ASSUME RequestAssumption ==
    /\ NoRequest \notin Requests
    /\ {"Disconnect", "ConnectNow"} \cap Requests = {}
ASSUME BoundAssumption ==
    /\ QueueCap \in Nat \ {0}
    /\ FailCap \in Nat \ {0}
    /\ SeqCap \in Nat
    /\ BackoffTicks \in Nat
ASSUME ModeAssumption ==
    /\ PersistModes \subseteq BOOLEAN
    /\ NowaitModes \subseteq BOOLEAN
    /\ RequiresSessionKey \in BOOLEAN

VARIABLES
    connState,   \* DeviceState.state
    persist,     \* DeviceState.persist
    nowait,      \* Device.nowait
    cancelled,   \* Device.cancel_token
    held,        \* the user still holds a Device handle
    queue,       \* the command channel
    rxOpen,      \* the receiving half neither closed nor dropped
    pc,          \* where the connection task is suspended
    cur,         \* the request in the task's hands
    timer,       \* ticks until the sleep of the backoff elapses
    reader,      \* the reader task of the current connection
    readerErr,   \* the internal channel from reader to task holds an error
    zombie,      \* an aborted reader that may still finish one packet
    answered,    \* the response subscription holds a matching message
    failures,    \* DeviceState.failure_count
    successes,   \* DeviceState.success_count
    sessionKey,  \* DeviceState.session_key is Some
    seqno,       \* sequence number of the next message
    announced,   \* last connectivity event broadcast to listeners
    call,        \* progress of each request() call
    reply,       \* content of each call's oneshot channel
    ctl          \* progress of the user's close/stop/connect_now call

link     == <<connState, sessionKey, announced>>
task     == <<pc, cur, timer, answered, seqno>>
channel  == <<queue, rxOpen>>
readers  == <<reader, readerErr, zombie>>
counters == <<failures, successes>>
settings == <<persist, nowait>>
users    == <<held, call, reply, ctl>>
vars == <<link, task, channel, readers, counters, settings, cancelled, users>>

\* The task treats all errors alike; "Failed" is any TuyaError but Offline.
Errors == {"Offline", "Failed"}
Commands == Requests \cup {"Disconnect", "ConnectNow"}
Serving == pc \in {"serve", "send", "sendNoWait", "waiting"}

TypeOK ==
    /\ connState \in {"Disconnected", "Connected", "Stopped"}
    /\ persist \in BOOLEAN
    /\ nowait \in BOOLEAN
    /\ cancelled \in BOOLEAN
    /\ held \in BOOLEAN
    /\ queue \in Seq(Commands)
    /\ Len(queue) <= QueueCap
    /\ rxOpen \in BOOLEAN
    /\ pc \in {"jitter", "try", "retry", "backoff", "connecting", "negotiating",
               "ondemand", "serve", "send", "sendNoWait", "waiting", "exited"}
    /\ cur \in Requests \cup {NoRequest}
    /\ timer \in 0..BackoffTicks
    /\ reader \in {"none", "running", "ended", "panicked"}
    /\ readerErr \in BOOLEAN
    /\ zombie \in BOOLEAN
    /\ answered \in BOOLEAN
    /\ failures \in 0..FailCap
    /\ successes \in 0..3
    /\ sessionKey \in BOOLEAN
    /\ seqno \in 1..(SeqCap + 1)
    /\ announced \in {"none", "up", "down"}
    /\ call \in [Requests -> {"idle", "sending", "sent", "awaiting"}]
    /\ reply \in [Requests -> Errors \cup {"none", "msg", "ok"}]
    /\ ctl \in {"idle", "cancel", "close", "Disconnect", "ConnectNow"}

Init ==
    /\ connState = "Disconnected"
    /\ persist \in PersistModes
    /\ nowait \in NowaitModes
    /\ cancelled = FALSE
    /\ held = TRUE
    /\ queue = <<>>
    /\ rxOpen = TRUE
    /\ pc = "jitter"
    /\ cur = NoRequest
    /\ timer = 0
    /\ reader = "none"
    /\ readerErr = FALSE
    /\ zombie = FALSE
    /\ answered = FALSE
    /\ failures = 0
    /\ successes = 0
    /\ sessionKey = FALSE
    /\ seqno = 1
    /\ announced = "none"
    /\ call = [r \in Requests |-> "idle"]
    /\ reply = [r \in Requests |-> "none"]
    /\ ctl = "idle"

(***************************************************************************)
(* Shared helpers                                                          *)
(***************************************************************************)

\* A bounded tokio channel accepts a command while a slot is free.
HasRoom == Len(queue) < QueueCap

Queued == {r \in Requests : \E i \in 1..Len(queue) : queue[i] = r}

\* Every oneshot sender of S is consumed with outcome v, which is lost if the
\* caller has already returned.
Respond(S, v) ==
    reply' = [r \in Requests |-> IF r \in S /\ call[r] # "idle" THEN v ELSE reply[r]]

UnlessStopped(s) == IF connState = "Stopped" THEN connState ELSE s

Bump(n, cap) == IF n < cap THEN n + 1 ELSE n

\* build_message hands out the current number and increments it.
NextSeqno == seqno' = Bump(seqno, SeqCap + 1)

\* Mutant: the success count survives the failure.
RecordFailureOnly == failures' = Bump(failures, FailCap) /\ UNCHANGED successes

RecordFailure == failures' = Bump(failures, FailCap) /\ successes' = 0

\* Only "at least 3" is ever asked of success_count, so it is kept up to 3.
ResetFailureCount ==
    LET s == Bump(successes, 3) IN
    IF failures > 0 /\ s >= 3
    THEN failures' = 0 /\ successes' = 0
    ELSE successes' = s /\ UNCHANGED failures

\* Mutant: the receiver outlives the task, nobody reads it any more.
ExitKeepsChannel(v) ==
    /\ pc' = "exited"
    /\ cancelled' = TRUE
    /\ cur' = NoRequest
    /\ Respond({cur}, v)
    /\ UNCHANGED channel

\* Mutant: the queued commands are forgotten, their callers not told.
ExitForgetsQueue(v) ==
    /\ pc' = "exited"
    /\ cancelled' = TRUE
    /\ rxOpen' = FALSE
    /\ queue' = <<>>
    /\ cur' = NoRequest
    /\ Respond({cur}, v)

\* The task's future completes or is dropped: the channel and the command in
\* hand go with it, and so do their oneshot senders, which send_command_to_task
\* reports as Offline (v). (A channel that is closed and drained first has its
\* commands answered explicitly.)
Dropped(v) ==
    /\ pc' = "exited"
    /\ rxOpen' = FALSE
    /\ queue' = <<>>
    /\ cur' = NoRequest
    /\ Respond(Queued \cup {cur}, v)

\* The end of run_connection_task, or the end of its future by the token: either
\* way the token is cancelled.
Exit(v) == Dropped(v) /\ cancelled' = TRUE

(***************************************************************************)
(* The connection task                                                     *)
(***************************************************************************)

\* Initial stagger of 0 to 5 seconds.
JitterElapsed ==
    /\ pc = "jitter"
    /\ pc' = "try"
    /\ UNCHANGED <<cur, answered, seqno, cancelled, link, channel, readers, counters,
                   settings, timer, users>>

\* Some select! sees the cancelled token and drops the suspended future. The
\* disconnect handling is skipped: state, key and listeners are left alone.
CancelObserved ==
    /\ cancelled
    /\ pc \notin {"try", "retry", "exited"}
    /\ Exit("Offline")
    /\ timer' = 0
    /\ UNCHANGED <<answered, seqno, held, call, ctl, link, readers, counters, settings>>

\* Head of the connect loop: give up if stopped, else back off after failures. The
\* sleep of the backoff is created and pinned once.
TryConnect ==
    /\ pc \in {"try", "retry"}
    /\ IF connState = "Stopped"
       THEN /\ Exit("Offline")
            /\ UNCHANGED <<seqno, timer>>
       ELSE /\ IF failures > 0
               THEN pc' = "backoff" /\ timer' = BackoffTicks
               ELSE pc' = "connecting" /\ UNCHANGED timer
            /\ seqno' = 1
            /\ UNCHANGED <<cur, cancelled, reply, channel>>
    /\ UNCHANGED <<answered, held, call, ctl, link, readers, counters, settings>>

\* Time passes.
BackoffTick ==
    /\ pc = "backoff"
    /\ timer > 0
    /\ timer' = timer - 1
    /\ UNCHANGED <<pc, cur, answered, seqno, cancelled, link, channel, readers, counters,
                   settings, users>>

BackoffElapsed ==
    /\ pc = "backoff"
    /\ timer = 0
    /\ pc' = "connecting"
    /\ UNCHANGED <<cur, answered, seqno, cancelled, link, channel, readers, counters,
                   settings, timer, users>>

\* The scanner notifies that it has just seen the device: the sleep is dropped.
BackoffDiscovered ==
    /\ pc = "backoff"
    /\ pc' = "connecting"
    /\ timer' = 0
    /\ UNCHANGED <<cur, answered, seqno, cancelled, link, channel, readers, counters,
                   settings, users>>

\* Mutant: the sleep is created anew each time the loop comes round.
BackoffCommandRestarts ==
    /\ pc = "backoff"
    /\ queue # <<>>
    /\ queue' = Tail(queue)
    /\ IF Head(queue) = "ConnectNow"
       THEN pc' = "connecting" /\ timer' = 0 /\ UNCHANGED <<announced, reply>>
       ELSE /\ Respond({Head(queue)}, "Offline")
            /\ announced' = "down"
            /\ timer' = BackoffTicks
            /\ UNCHANGED pc
    /\ UNCHANGED <<cur, answered, seqno, connState, sessionKey, rxOpen, cancelled, held,
                   call, ctl, readers, counters, settings>>

\* A command that arrives during the backoff: ConnectNow cuts it short, every
\* other command is rejected as Offline and announced, and the sleep goes on.
BackoffCommand ==
    /\ pc = "backoff"
    /\ queue # <<>>
    /\ queue' = Tail(queue)
    /\ IF Head(queue) = "ConnectNow"
       THEN pc' = "connecting" /\ timer' = 0 /\ UNCHANGED <<announced, reply>>
       ELSE /\ Respond({Head(queue)}, "Offline")
            /\ announced' = "down"
            /\ UNCHANGED <<pc, timer>>
    /\ UNCHANGED <<cur, answered, seqno, connState, sessionKey, rxOpen, cancelled, held,
                   call, ctl, readers, counters, settings>>

\* process_command up to its first await: choose whether to wait for a
\* response (never in nowait mode, nor for the handshake and heartbeat command
\* codes), subscribe if so, and start writing.
StartCommand(r) ==
    /\ cur' = r
    /\ \/ pc' = "send" /\ ~nowait
       \/ pc' = "sendNoWait"
    /\ answered' = FALSE

\* Address resolved and TCP connection open, the first handshake message built.
TcpConnected ==
    /\ pc = "connecting"
    /\ RequiresSessionKey
    /\ pc' = "negotiating"
    /\ NextSeqno
    /\ UNCHANGED <<cur, answered, cancelled, link, channel, readers, counters, settings, timer,
                   users>>

\* Connected, handshake included: announce it, then either spawn the reader
\* and serve, or first process the request this connection was made for.
ConnectSucceeded ==
    /\ pc = IF RequiresSessionKey THEN "negotiating" ELSE "connecting"
    /\ connState' = "Connected"
    /\ sessionKey' = (sessionKey \/ RequiresSessionKey)
    /\ announced' = "up"
    /\ IF RequiresSessionKey THEN NextSeqno ELSE UNCHANGED seqno
    /\ IF cur = NoRequest
       THEN pc' = "serve" /\ reader' = "running" /\ UNCHANGED <<cur, answered>>
       ELSE StartCommand(cur) /\ reader' = "none"
    /\ readerErr' = FALSE
    /\ UNCHANGED <<zombie, cancelled, channel, counters, settings, timer, users>>

\* The attempt failed, or its overall timeout struck. In the main loop every
\* queued command is answered with the error; with persist the failure is
\* counted and retried, otherwise the task waits for a command. An on-demand
\* attempt answers only the request it was made for.
ConnectFailed(e) ==
    /\ pc \in {"connecting", "negotiating"}
    /\ connState' = UnlessStopped("Disconnected")
    /\ announced' = "down"
    /\ \/ NextSeqno /\ pc = "negotiating"
       \/ UNCHANGED seqno
    /\ IF cur = NoRequest
       THEN /\ queue' = <<>>
            /\ Respond(Queued, e)
            /\ UNCHANGED cur
            /\ IF persist
               THEN RecordFailure /\ pc' = "retry"
               ELSE pc' = "ondemand" /\ UNCHANGED counters
       ELSE /\ Respond({cur}, e)
            /\ cur' = NoRequest
            /\ pc' = "ondemand"
            /\ UNCHANGED <<queue, counters>>
    /\ UNCHANGED <<answered, sessionKey, rxOpen, cancelled, held, call, ctl, readers, settings,
                   timer>>

\* A handshake packet shorter than its trailer: unpack_message panics in the
\* connection task, which is dropped without cancelling the token, unless it held
\* the last Device.
NegotiationPanics ==
    /\ pc = "negotiating"
    /\ Dropped("Offline")
    /\ cancelled' = (cancelled \/ ~held)
    /\ UNCHANGED <<answered, seqno, held, call, ctl, link, readers, counters, settings, timer>>

\* Without persist, a failed connection is retried only for a command.
OnDemandCommand ==
    /\ pc = "ondemand"
    /\ queue # <<>>
    /\ \/ /\ Head(queue) = "ConnectNow"
          /\ queue' = Tail(queue)
          /\ pc' = "try"
          /\ UNCHANGED <<cur, rxOpen, cancelled, reply>>
       \/ /\ Head(queue) \in Requests
          /\ queue' = Tail(queue)
          /\ cur' = Head(queue)
          /\ pc' = "connecting"
          /\ UNCHANGED <<rxOpen, cancelled, reply>>
       \/ /\ Head(queue) = "Disconnect"
          /\ Exit("Offline")
    /\ UNCHANGED <<answered, seqno, held, call, ctl, link, readers, counters, settings, timer>>

\* maintain_connection starts serving a command from the channel. Disconnect
\* ends the connection with Offline (see ConnectionLost); ConnectNow is ignored.
ServeCommand ==
    /\ pc = "serve"
    /\ queue # <<>>
    /\ Head(queue) # "Disconnect"
    /\ queue' = Tail(queue)
    /\ IF Head(queue) = "ConnectNow"
       THEN UNCHANGED <<pc, cur, answered>>
       ELSE StartCommand(Head(queue))
    /\ UNCHANGED <<seqno, rxOpen, cancelled, link, readers, counters, settings, timer, users>>

\* The command in hand is answered. If it was the one the connection was made
\* for, only now is the reader spawned.
EndCommand(v) ==
    /\ Respond({cur}, v)
    /\ cur' = NoRequest
    /\ pc' = "serve"
    /\ reader' = IF reader = "none" THEN "running" ELSE reader
    /\ UNCHANGED <<readerErr, zombie, cancelled, held, call, ctl, link, channel, counters,
                   settings, timer>>

\* The message is written. Without a subscription the answer is Ok(None).
SendSucceeded ==
    /\ \/ /\ pc = "send"
          /\ pc' = "waiting"
          /\ UNCHANGED <<cur, cancelled, link, channel, readers, counters, settings, timer, users>>
       \/ pc = "sendNoWait" /\ EndCommand("ok")
    /\ NextSeqno
    /\ UNCHANGED answered

\* Generating the payload, or packing or writing the message built from it, fails: the
\* caller gets the error, the connection is kept and nothing is broadcast.
SendFailed ==
    /\ pc \in {"send", "sendNoWait"}
    /\ EndCommand("Failed")
    /\ NextSeqno \/ UNCHANGED seqno
    /\ answered' = FALSE

\* A matching message arrived in the subscription.
ResponseReceived ==
    /\ pc = "waiting"
    /\ answered
    /\ EndCommand("msg")
    /\ answered' = FALSE
    /\ UNCHANGED seqno

\* Mutant: no timeout, only a lagging subscription ends the wait.
ResponseMissedLagOnly ==
    /\ pc = "waiting"
    /\ answered
    /\ EndCommand("Offline")
    /\ answered' = FALSE
    /\ UNCHANGED seqno

\* The response timeout strikes, or the subscription has lagged behind.
ResponseMissed ==
    /\ pc = "waiting"
    /\ \E e \in Errors : EndCommand(e)
    /\ answered' = FALSE
    /\ UNCHANGED seqno

\* The connection is dropped with its reader, which may be busy with a packet.
AbortReader == reader' = "none" /\ readerErr' = FALSE /\ zombie' = (reader = "running")

\* Mutant: the session key is kept.
HandleDisconnectKeepsKey ==
    /\ connState' = UnlessStopped("Disconnected")
    /\ UNCHANGED sessionKey
    /\ announced' = IF connState = "Stopped" THEN announced ELSE "down"

\* Mutant: listeners are not told.
HandleDisconnectSilently ==
    /\ connState' = UnlessStopped("Disconnected")
    /\ sessionKey' = FALSE
    /\ UNCHANGED announced

HandleDisconnect ==
    /\ connState' = UnlessStopped("Disconnected")
    /\ sessionKey' = FALSE
    /\ announced' = IF connState = "Stopped" THEN announced ELSE "down"

\* maintain_connection returns e: the disconnect is handled, the failure
\* counted, the channel drained, and the loop restarted unless stopped.
ConnectionLost(e) ==
    /\ AbortReader
    /\ HandleDisconnect
    /\ RecordFailure
    /\ IF connState = "Stopped"
       THEN Exit(e)
       ELSE /\ pc' = "retry"
            /\ queue' = <<>>
            /\ Respond(Queued, e)
            /\ UNCHANGED <<cur, rxOpen, cancelled>>
    /\ UNCHANGED <<answered, held, call, ctl, settings, timer>>

ServeDisconnect ==
    /\ pc = "serve"
    /\ queue # <<>>
    /\ Head(queue) = "Disconnect"
    /\ ConnectionLost("Offline")
    /\ UNCHANGED seqno

ServeReaderError ==
    /\ pc = "serve"
    /\ readerErr
    /\ ConnectionLost("Failed")
    /\ UNCHANGED seqno

\* A due heartbeat is written, or fails and takes the connection down.
ServeHeartbeat ==
    /\ pc = "serve"
    /\ persist
    /\ NextSeqno
    /\ \/ UNCHANGED <<pc, cur, answered, cancelled, link, channel, readers, counters,
                      settings, timer, users>>
       \/ ConnectionLost("Failed")

\* maintain_connection itself sees the cancelled token and returns Ok: the
\* disconnect is handled, but not counted, and the task ends.
ServeCancelled ==
    /\ pc = "serve"
    /\ cancelled
    /\ AbortReader
    /\ HandleDisconnect
    /\ Exit("Offline")
    /\ UNCHANGED <<answered, seqno, held, call, ctl, counters, settings, timer>>

(***************************************************************************)
(* The reader task                                                         *)
(***************************************************************************)

\* A packet is a message, which is counted and broadcast and which the request
\* being processed may accept as its response, or it has no known prefix.
PacketEffect ==
    \/ ResetFailureCount /\ UNCHANGED answered
    \/ ResetFailureCount /\ pc \in {"send", "waiting"} /\ answered' = TRUE
    \/ UNCHANGED <<answered, counters>>

ReaderPacket ==
    /\ reader = "running"
    /\ PacketEffect
    /\ UNCHANGED <<pc, cur, seqno, cancelled, link, channel, readers, settings, timer, users>>

\* Mutant: the reader ends without telling the task.
ReaderFailedSilently ==
    /\ reader = "running"
    /\ reader' = "ended"
    /\ UNCHANGED <<readerErr, zombie, cancelled, link, task, channel, counters, settings, users>>

\* End of stream, an I/O error, a stalled packet or 30 s of silence.
ReaderFailed ==
    /\ reader = "running"
    /\ reader' = "ended"
    /\ readerErr' = TRUE
    /\ UNCHANGED <<zombie, cancelled, link, task, channel, counters, settings, users>>

\* A packet shorter than its trailer: unpack_message panics and the reader is gone
\* without an error. Its end of the internal channel is closed, which
\* maintain_connection takes for no message and goes on.
ReaderPanics ==
    /\ reader = "running"
    /\ reader' = "panicked"
    /\ UNCHANGED <<readerErr, zombie, cancelled, link, task, channel, counters, settings, users>>

\* Mutant: the reader does not watch the token; only abort() ends it.
ReaderIgnoresCancel ==
    /\ reader = "running"
    /\ cancelled
    /\ UNCHANGED vars

ReaderCancelled ==
    /\ reader = "running"
    /\ cancelled
    /\ reader' = "ended"
    /\ UNCHANGED <<readerErr, zombie, cancelled, link, task, channel, counters, settings, users>>

\* abort() takes effect at the reader's next await: a reader that was busy
\* with a packet on another thread still finishes that packet.
AbortedReader ==
    /\ zombie
    /\ zombie' = FALSE
    /\ PacketEffect
    /\ UNCHANGED <<pc, cur, seqno, reader, readerErr, cancelled, link, channel, settings, timer,
                   users>>

(***************************************************************************)
(* Users of the handle                                                     *)
(***************************************************************************)

\* request(): a oneshot channel is made. An identity is reused only once its
\* previous command has left the task.
Request(r) ==
    /\ held
    /\ call[r] = "idle"
    /\ r \notin Queued \cup {cur}
    /\ call' = [call EXCEPT ![r] = "sending"]
    /\ UNCHANGED <<cancelled, held, reply, ctl, link, task, channel, readers, counters, settings>>

\* The command enters the channel as soon as there is room; once the receiver
\* is gone the send fails and the command is dropped with its oneshot sender.
Enqueue(r) ==
    /\ call[r] = "sending"
    /\ \/ /\ rxOpen
          /\ HasRoom
          /\ queue' = Append(queue, r)
          /\ UNCHANGED reply
       \/ /\ ~rxOpen
          /\ reply' = [reply EXCEPT ![r] = "Offline"]
          /\ UNCHANGED queue
    /\ call' = [call EXCEPT ![r] = "sent"]
    /\ UNCHANGED <<rxOpen, cancelled, held, ctl, link, task, readers, counters, settings>>

\* Only after queueing is nowait consulted: drop the oneshot receiver and
\* return at once, or await it.
AwaitReply(r) ==
    /\ call[r] = "sent"
    /\ call' = [call EXCEPT ![r] = IF nowait THEN "idle" ELSE "awaiting"]
    /\ reply' = [reply EXCEPT ![r] = IF nowait THEN "none" ELSE @]
    /\ UNCHANGED <<cancelled, held, ctl, link, task, channel, readers, counters, settings>>

Return(r) ==
    /\ call[r] = "awaiting"
    /\ reply[r] # "none"
    /\ call' = [call EXCEPT ![r] = "idle"]
    /\ reply' = [reply EXCEPT ![r] = "none"]
    /\ UNCHANGED <<cancelled, held, ctl, link, task, channel, readers, counters, settings>>

SetPersist ==
    /\ held
    /\ persist' \in PersistModes
    /\ UNCHANGED <<nowait, cancelled, link, task, channel, readers, counters, users>>

SetNowait ==
    /\ held
    /\ nowait' \in NowaitModes
    /\ UNCHANGED <<persist, cancelled, link, task, channel, readers, counters, users>>

\* close() first writes the state, then queues Disconnect. stop() writes Stopped,
\* cancels the token, and then does all of close(). connect_now() only queues.
BeginStop ==
    /\ held /\ ctl = "idle"
    /\ connState' = "Stopped"
    /\ ctl' = "cancel"
    /\ UNCHANGED <<sessionKey, announced, cancelled, held, call, reply, task, channel,
                   readers, counters, settings>>

StopCancels ==
    /\ ctl = "cancel"
    /\ cancelled' = TRUE
    /\ ctl' = "close"
    /\ UNCHANGED <<held, call, reply, link, task, channel, readers, counters, settings>>

Close ==
    /\ held /\ ctl \in {"idle", "close"}
    /\ connState' = UnlessStopped("Disconnected")
    /\ ctl' = "Disconnect"
    /\ UNCHANGED <<sessionKey, announced, cancelled, held, call, reply, task, channel,
                   readers, counters, settings>>

ConnectNow ==
    /\ held /\ ctl = "idle"
    /\ ctl' = "ConnectNow"
    /\ UNCHANGED <<cancelled, held, call, reply, link, task, channel, readers, counters,
                   settings>>

SendControl ==
    /\ ctl \in {"Disconnect", "ConnectNow"}
    /\ \/ rxOpen /\ HasRoom /\ queue' = Append(queue, ctl)
       \/ ~rxOpen /\ UNCHANGED queue
    /\ ctl' = "idle"
    /\ UNCHANGED <<rxOpen, cancelled, held, call, reply, link, task, readers, counters, settings>>

\* Clones of the Device that are alive: the user's last one, the task's until it
\* ends, the reader's until it ends.
StrongCount ==
    1 + (IF pc = "exited" THEN 0 ELSE 1) + (IF reader = "running" THEN 1 ELSE 0)

\* The user drops the last handle; no call that borrows it is running.
DropHandle ==
    /\ held /\ ctl = "idle"
    /\ \A r \in Requests : call[r] = "idle"
    /\ held' = FALSE
    /\ cancelled' = (cancelled \/ StrongCount <= 1)
    /\ UNCHANGED <<call, reply, ctl, link, task, channel, readers, counters, settings>>

(***************************************************************************)
(* Specification                                                           *)
(***************************************************************************)

ConnectFails == \E e \in Errors : ConnectFailed(e)

TaskNext ==
    \/ JitterElapsed \/ CancelObserved \/ TryConnect
    \/ BackoffTick \/ BackoffElapsed \/ BackoffDiscovered \/ BackoffCommand
    \/ TcpConnected \/ ConnectSucceeded \/ ConnectFails \/ NegotiationPanics
    \/ OnDemandCommand
    \/ ServeCommand \/ ServeDisconnect \/ ServeReaderError \/ ServeHeartbeat \/ ServeCancelled
    \/ SendSucceeded \/ SendFailed \/ ResponseReceived \/ ResponseMissed

ReaderNext == ReaderPacket \/ ReaderFailed \/ ReaderPanics \/ ReaderCancelled \/ AbortedReader

UserNext ==
    \/ \E r \in Requests : Request(r) \/ Enqueue(r) \/ AwaitReply(r) \/ Return(r)
    \/ SetPersist \/ SetNowait
    \/ BeginStop \/ StopCancels \/ Close \/ ConnectNow \/ SendControl \/ DropHandle

Next == TaskNext \/ ReaderNext \/ UserNext

Spec == Init /\ [][Next]_vars

\* What the task waits for outside the serving loop.
TaskMoves ==
    \/ JitterElapsed \/ TryConnect \/ BackoffTick \/ BackoffElapsed
    \/ TcpConnected \/ ConnectSucceeded \/ ConnectFails \/ OnDemandCommand
    \/ SendSucceeded \/ SendFailed \/ ResponseReceived \/ ResponseMissed

\* Timers fire and network operations end, because each one is wrapped in a
\* timeout; a select! polls its branches in random order, so a branch that is
\* ready whenever it is polled is taken; the channel serves senders in order.
\* Nothing makes a user start a call, a connection succeed or the device talk.
Fairness ==
    /\ WF_vars(TaskMoves)
    /\ WF_vars(ServeCommand \/ ServeDisconnect) /\ WF_vars(ServeReaderError)
    /\ SF_vars(CancelObserved)
    /\ WF_vars(ReaderCancelled)
    /\ \A r \in Requests : SF_vars(Enqueue(r)) /\ WF_vars(AwaitReply(r) \/ Return(r))
    /\ WF_vars(StopCancels \/ (ctl = "close" /\ Close)) /\ SF_vars(SendControl)

FairSpec == Spec /\ Fairness

(***************************************************************************)
(* Properties                                                              *)
(***************************************************************************)

\* Parts of the inductive invariants of the proofs. First, who owns a request:
\* its sender is at most once in the channel or in the task's hands, where it is
\* unused, and a call waiting for an answer has its sender there.
QueueInjective ==
    \A i, j \in 1..Len(queue) : queue[i] \in Requests /\ queue[i] = queue[j] => i = j

OwnedUnused ==
    /\ cur \notin Queued
    /\ \A r \in Requests : r \in Queued \/ r = cur => call[r] # "sending" /\ reply[r] = "none"

PendingOwned ==
    \A r \in Requests :
        call[r] \in {"sent", "awaiting"} /\ reply[r] = "none" => r \in Queued \/ r = cur

QuietOneshot ==
    \A r \in Requests : call[r] \in {"idle", "sending"} => reply[r] = "none"

OwnershipInv ==
    /\ QueueInjective
    /\ OwnedUnused
    /\ PendingOwned
    /\ QuietOneshot
    /\ rxOpen <=> pc # "exited"

\* Then, what the task holds at each of its await points.
ConnectionInv ==
    /\ pc \in {"send", "sendNoWait", "waiting"} => cur # NoRequest
    /\ cur # NoRequest =>
            pc \in {"connecting", "negotiating", "send", "sendNoWait", "waiting"}
    /\ pc # "exited" => (announced = "up" <=> Serving)
    /\ pc # "exited" => (sessionKey <=> Serving /\ RequiresSessionKey)
    /\ connState = "Connected" => Serving \/ (pc = "exited" /\ cancelled)
    /\ reader # "none" => Serving \/ pc = "exited"
    /\ pc = "serve" => reader # "none"
    /\ reader = "ended" => readerErr \/ cancelled

\* Last, what keeps a retry from finding its failure forgiven: the counters
\* are touched at most once more, by the aborted reader.
RetryInv ==
    pc = "retry" => failures > 0 /\ (IF zombie THEN successes = 0 ELSE successes <= 1)

\* A caller that awaits its oneshot is never stranded: until it is answered its
\* sender is in exactly one place, the channel or the task's hands, and the
\* task that would have to answer it has not ended.
NoStrandedCaller ==
    \A r \in Requests :
        call[r] = "awaiting" /\ reply[r] = "none" =>
            /\ pc # "exited"
            /\ r \in Queued \/ cur = r

\* The handshake and the first messages of a connection are encrypted with the
\* key that get_cipher finds: never a session key left over from an earlier
\* connection while negotiating, always the negotiated one while serving.
HandshakeUsesLocalKey ==
    /\ pc \in {"try", "retry", "backoff", "connecting", "negotiating", "ondemand"} => ~sessionKey
    /\ Serving => sessionKey = RequiresSessionKey

\* The connectivity events tell listeners the truth: the last one says
\* connected exactly while the task holds a connection. Only the end of the
\* task itself goes unannounced.
EventsMatchConnection ==
    pc # "exited" => (announced = "up" <=> Serving)

\* is_connected() is never true without a connection, unless the task was
\* cancelled.
ConnectedMeansServing ==
    connState = "Connected" => Serving \/ (pc = "exited" /\ cancelled)

\* No hot reconnect loop: whatever the aborted reader of the lost connection
\* still does to the counters, a retry finds a failure to back off for.
NoHotReconnect == pc = "retry" => failures > 0

\* A live connection is watched: its reader runs, or has left an error for the
\* task to find, or has stopped because everything is being cancelled. The one
\* exception is a reader that panicked on a packet shorter than its trailer: then
\* the task serves a connection that nobody reads and is not told.
ConnectionIsWatched ==
    pc = "serve" => reader \in {"running", "panicked"} \/ readerErr \/ cancelled

\* A call as its caller sees it.
callStatus ==
    [r \in Requests |->
        IF call[r] = "idle" THEN "idle"
        ELSE IF call[r] = "sending" THEN "asking"
        ELSE IF reply[r] = "none" THEN "pending"
        ELSE "answered"]

\* The promise of RequestService: callers, seen from outside, are answered once,
\* by a live task or when it shuts down.
Service == INSTANCE RequestService WITH status <- callStatus, open <- rxOpen
ImplementsService == Service!Spec

\* Every request() call returns.
CallsReturn == \A r \in Requests : call[r] # "idle" ~> call[r] = "idle"

\* A cancelled device ends its task, and with it its reader.
CancelTerminates ==
    cancelled ~> pc = "exited" /\ reader # "running"

\* A backoff ends, however many commands arrive and are rejected meanwhile: a
\* rejected command does not put off the moment its sleep elapses.
BackoffEnds == pc = "backoff" ~> pc # "backoff"

(***************************************************************************)
(* What documents and comments say that the code does not do               *)
(***************************************************************************)

\* docs/philosophy.md:25, the response of the request that caused the
\* connection is returned: while it waits, somebody reads the connection.
OnDemandResponseIsRead == pc = "waiting" => reader # "none"

=============================================================================
