-------------------------- MODULE DeviceTaskProofs --------------------------
(***************************************************************************)
(* Proofs about DeviceTask for every set of requests and every capacity.   *)
(***************************************************************************)
EXTENDS DeviceTask, Backoff, SequenceTheorems, TLAPS

Replies == Errors \cup {"none", "msg", "ok"}

\* TypeOK in two halves, which different provers handle.
FlagsOK ==
    /\ persist \in BOOLEAN
    /\ nowait \in BOOLEAN
    /\ cancelled \in BOOLEAN
    /\ held \in BOOLEAN
    /\ rxOpen \in BOOLEAN
    /\ readerErr \in BOOLEAN
    /\ zombie \in BOOLEAN
    /\ answered \in BOOLEAN
    /\ sessionKey \in BOOLEAN

DataOK ==
    /\ connState \in {"Disconnected", "Connected", "Stopped"}
    /\ queue \in Seq(Commands)
    /\ Len(queue) <= QueueCap
    /\ pc \in {"jitter", "try", "retry", "backoff", "connecting", "negotiating",
               "ondemand", "serve", "send", "sendNoWait", "waiting", "exited"}
    /\ cur \in Requests \cup {NoRequest}
    /\ timer \in 0..BackoffTicks
    /\ reader \in {"none", "running", "ended", "panicked"}
    /\ failures \in 0..FailCap
    /\ successes \in 0..3
    /\ seqno \in 1..(SeqCap + 1)
    /\ announced \in {"none", "up", "down"}
    /\ call \in [Requests -> {"idle", "sending", "sent", "awaiting"}]
    /\ reply \in [Requests -> Errors \cup {"none", "msg", "ok"}]
    /\ ctl \in {"idle", "cancel", "close", "Disconnect", "ConnectNow"}

(***************************************************************************)
(* Lemmas about the helpers                                                *)
(***************************************************************************)

\* Taking the first command leaves a shorter channel of commands.
LEMMA PopType ==
    ASSUME TypeOK, queue # <<>>
    PROVE  /\ Head(queue) \in Commands
           /\ Tail(queue) \in Seq(Commands)
           /\ Len(Tail(queue)) <= QueueCap
BY HeadTailProperties, BoundAssumption, LenProperties, Z3T(20) DEF TypeOK

\* Appending where there is room keeps the channel within its capacity.
LEMMA PushType ==
    ASSUME TypeOK, HasRoom, NEW c \in Commands
    PROVE  /\ Append(queue, c) \in Seq(Commands)
           /\ Len(Append(queue, c)) <= QueueCap
BY AppendProperties, BoundAssumption, LenProperties DEF TypeOK, HasRoom

\* Appending changes the channel.
LEMMA AppendChanges ==
    ASSUME TypeOK, NEW c \in Commands
    PROVE  Append(queue, c) # queue
<1>1. Len(queue) \in Nat /\ Len(Append(queue, c)) = Len(queue) + 1
  BY AppendProperties, LenProperties DEF TypeOK
<1> QED
  BY <1>1

\* The empty channel is one.
LEMMA EmptyType == <<>> \in Seq(Commands) /\ Len(<<>>) <= QueueCap
BY EmptySeq, BoundAssumption

\* Answering any set of oneshots keeps reply well typed.
LEMMA RespondType ==
    ASSUME TypeOK, NEW S, NEW v \in Replies, Respond(S, v)
    PROVE  reply' \in [Requests -> Replies]
BY DEF TypeOK, Respond, Replies

(***************************************************************************)
(* Type correctness                                                        *)
(***************************************************************************)

\* Every variable keeps its type and the command channel its capacity.
THEOREM TypeCorrect == Spec => []TypeOK
<1>1. Init => TypeOK
  <2> SUFFICES ASSUME Init PROVE TypeOK
    OBVIOUS
  <2>1. persist \in BOOLEAN /\ nowait \in BOOLEAN
    BY ModeAssumption DEF Init
  <2> QED
    <3>f. FlagsOK
      BY <2>1, EmptyType, BoundAssumption DEF Init, TypeOK, FlagsOK
    <3>d. DataOK
      BY <2>1, EmptyType, BoundAssumption DEF Init, TypeOK, DataOK
    <3> QED
      BY <3>f, <3>d DEF TypeOK, FlagsOK, DataOK
<1>2. TypeOK /\ [Next]_vars => TypeOK'
  <2> SUFFICES ASSUME TypeOK, [Next]_vars PROVE TypeOK'
    OBVIOUS
  <2> USE BoundAssumption
  <2> USE DEF link, task, channel, readers, counters, settings, users
  <2>g. ASSUME NEW v \in Errors, Dropped(v)
        PROVE  /\ pc' = "exited" /\ rxOpen' = FALSE /\ queue' = <<>> /\ cur' = NoRequest
               /\ reply' \in [Requests -> Replies]
    BY <2>g, RespondType DEF Dropped, Replies
  <2>a. ASSUME NEW v \in Errors, Exit(v)
        PROVE  /\ pc' = "exited" /\ cancelled' = TRUE /\ rxOpen' = FALSE
               /\ queue' = <<>> /\ cur' = NoRequest
               /\ reply' \in [Requests -> Replies]
    BY <2>a, <2>g DEF Exit
  <2>b. \A n \in 1..(SeqCap + 1) : Bump(n, SeqCap + 1) \in 1..(SeqCap + 1)
    BY DEF Bump
  <2>c. RecordFailure => failures' \in 0..FailCap /\ successes' \in 0..3
    BY DEF RecordFailure, Bump, TypeOK
  <2>d. ASSUME NEW e \in Errors, ConnectionLost(e), seqno' \in 1..(SeqCap + 1)
        PROVE  TypeOK'
    <3>1. reply' \in [Requests -> Replies] /\ queue' = <<>>
      BY <2>a, <2>d, RespondType DEF ConnectionLost, Replies
    <3> QED
      <4>1. /\ connState' \in {"Disconnected", "Connected", "Stopped"}
            /\ announced' \in {"none", "up", "down"}
            /\ sessionKey' = FALSE
            /\ reader' = "none" /\ readerErr' = FALSE /\ zombie' \in BOOLEAN
        BY <2>d DEF ConnectionLost, AbortReader, HandleDisconnect, UnlessStopped, TypeOK
      <4>2. /\ pc' \in {"retry", "exited"}
            /\ cur' \in Requests \cup {NoRequest}
            /\ rxOpen' \in BOOLEAN /\ cancelled' \in BOOLEAN
        BY <2>a, <2>d DEF ConnectionLost, TypeOK
      <4>3. failures' \in 0..FailCap /\ successes' \in 0..3
        BY <2>c, <2>d DEF ConnectionLost
      <4>4. UNCHANGED <<answered, held, call, ctl, settings, timer>>
        BY <2>d DEF ConnectionLost
      <4>5. FlagsOK'
        BY <4>1, <4>2, <4>4 DEF TypeOK, FlagsOK
      <4>6. DataOK'
        BY <2>d, <3>1, <4>1, <4>2, <4>3, <4>4, EmptyType DEF TypeOK, DataOK, Replies
      <4> QED
        BY <4>5, <4>6 DEF TypeOK, FlagsOK, DataOK
  <2>e. ASSUME NEW v \in Replies, EndCommand(v), answered' \in BOOLEAN,
               seqno' \in 1..(SeqCap + 1)
        PROVE  TypeOK'
    <3>1. reply' \in [Requests -> Replies]
      BY <2>e, RespondType DEF EndCommand
    <3> QED
      BY <2>e, <3>1 DEF EndCommand, TypeOK, Replies
  <2>f. PacketEffect =>
          failures' \in 0..FailCap /\ successes' \in 0..3 /\ answered' \in BOOLEAN
    <3>1. ResetFailureCount => failures' \in 0..FailCap /\ successes' \in 0..3
      BY DEF ResetFailureCount, Bump, TypeOK
    <3> QED
      BY <3>1 DEF PacketEffect, TypeOK
  <2>1. CASE JitterElapsed
    BY <2>1
    DEF JitterElapsed, TypeOK, Errors, Replies
  <2>2. CASE CancelObserved
    BY <2>2, <2>a, EmptyType
    DEF CancelObserved, TypeOK, Errors, Replies
  <2>3. CASE TryConnect
    <3>1. CASE connState = "Stopped"
      BY <2>3, <2>a, <3>1, EmptyType DEF TryConnect, TypeOK, Errors, Replies
    <3>2. CASE connState # "Stopped"
      BY <2>3, <3>2 DEF TryConnect, TypeOK
    <3> QED
      BY <3>1, <3>2
  <2>4. CASE BackoffTick \/ BackoffElapsed \/ BackoffDiscovered
    BY <2>4
    DEF BackoffTick, BackoffElapsed, BackoffDiscovered, TypeOK, Errors, Replies
  <2>5. CASE BackoffCommand
    BY <2>5, PopType, RespondType
    DEF BackoffCommand, TypeOK, Errors, Replies
  <2>6. CASE TcpConnected
    <3>1. seqno' \in 1..(SeqCap + 1)
      BY <2>6, <2>b DEF TcpConnected, NextSeqno, TypeOK
    <3> QED
      BY <2>6, <3>1 DEF TcpConnected, TypeOK
  <2>7. CASE ConnectSucceeded
    <3>1. /\ seqno' \in 1..(SeqCap + 1)
          /\ pc' \in {"serve", "send", "sendNoWait"}
          /\ cur' \in Requests \cup {NoRequest}
          /\ reader' \in {"none", "running"}
      BY <2>7, <2>b DEF ConnectSucceeded, StartCommand, NextSeqno, TypeOK
    <3>2. answered' \in BOOLEAN
      BY <2>7 DEF ConnectSucceeded, StartCommand, TypeOK
    <3>3. sessionKey' \in BOOLEAN
      BY <2>7 DEF ConnectSucceeded
    <3> QED
      <4>f. FlagsOK'
        BY <2>7, <3>1, <3>2, <3>3 DEF ConnectSucceeded, TypeOK, FlagsOK
      <4>d. DataOK'
        BY <2>7, <3>1, <3>2, <3>3 DEF ConnectSucceeded, TypeOK, DataOK
      <4> QED
        BY <4>f, <4>d DEF TypeOK, FlagsOK, DataOK
  <2>8. CASE ConnectFails
    <3>1. PICK e \in Errors : ConnectFailed(e)
      BY <2>8 DEF ConnectFails
    <3>2. seqno' \in 1..(SeqCap + 1)
      BY <3>1, <2>b DEF ConnectFailed, NextSeqno, TypeOK
    <3>3. reply' \in [Requests -> Replies]
      BY <3>1, RespondType DEF ConnectFailed, Replies
    <3>4. queue' \in Seq(Commands) /\ Len(queue') <= QueueCap
      BY <3>1, EmptyType DEF ConnectFailed, TypeOK
    <3>5. failures' \in 0..FailCap /\ successes' \in 0..3
      BY <3>1, <2>c DEF ConnectFailed, TypeOK
    <3> QED
      BY <3>1, <3>2, <3>3, <3>4, <3>5 DEF ConnectFailed, UnlessStopped, TypeOK, Replies
  <2>33. CASE NegotiationPanics
    <3>1. cancelled' \in BOOLEAN
      BY <2>33 DEF NegotiationPanics
    <3>2. Dropped("Offline") /\ UNCHANGED <<answered, seqno, held, call, ctl, link, readers,
                                            counters, settings, timer>>
      BY <2>33 DEF NegotiationPanics
    <3> QED
      <4>f. FlagsOK'
        BY <2>g, <3>1, <3>2 DEF Errors, TypeOK, FlagsOK
      <4>d. DataOK'
        BY <2>g, <3>2, EmptyType DEF Errors, Replies, TypeOK, DataOK
      <4> QED
        BY <4>f, <4>d DEF TypeOK, FlagsOK, DataOK
  <2>9. CASE OnDemandCommand
    <3>1. reply' \in [Requests -> Replies]
      BY <2>9, <2>a DEF OnDemandCommand, TypeOK, Errors, Replies
    <3>2. queue' \in Seq(Commands) /\ Len(queue') <= QueueCap
      BY <2>9, <2>a, PopType, EmptyType DEF OnDemandCommand, Errors
    <3> QED
      <4>f. FlagsOK'
        <5>1. /\ cancelled' = cancelled \/ cancelled' = TRUE
              /\ rxOpen' = rxOpen \/ rxOpen' = FALSE
          BY <2>9, <2>a DEF OnDemandCommand, Errors
        <5>2. UNCHANGED <<persist, nowait, held, readerErr, zombie, answered, sessionKey>>
          BY <2>9 DEF OnDemandCommand
        <5> QED
          BY <5>1, <5>2 DEF TypeOK, FlagsOK
      <4>d. DataOK'
        BY <2>9, <2>a, <3>1, <3>2 DEF OnDemandCommand, Errors, Replies, TypeOK, DataOK
      <4> QED
        BY <4>f, <4>d DEF TypeOK, FlagsOK, DataOK
  <2>10. CASE ServeCommand
    <3>1. Head(queue) \in Commands /\ queue' \in Seq(Commands) /\ Len(queue') <= QueueCap
      BY <2>10, PopType DEF ServeCommand
    <3>2. CASE Head(queue) = "ConnectNow"
      BY <2>10, <3>1, <3>2 DEF ServeCommand, TypeOK
    <3>3. CASE Head(queue) # "ConnectNow"
      <4>f. FlagsOK'
        BY <2>10, <3>1, <3>3, <2>b DEF ServeCommand, StartCommand, TypeOK, FlagsOK
      <4>d. DataOK'
        BY <2>10, <3>1, <3>3, <2>b DEF ServeCommand, StartCommand, Commands, TypeOK, DataOK
      <4> QED
        BY <4>f, <4>d DEF TypeOK, FlagsOK, DataOK
    <3> QED
      BY <3>2, <3>3
  <2>11. CASE ServeDisconnect
    BY <2>11, <2>d
    DEF ServeDisconnect, TypeOK, Errors, Replies
  <2>12. CASE ServeReaderError
    BY <2>12, <2>d
    DEF ServeReaderError, TypeOK, Errors, Replies
  <2>13. CASE ServeHeartbeat
    <3>1. seqno' \in 1..(SeqCap + 1)
      BY <2>13, <2>b DEF ServeHeartbeat, NextSeqno, TypeOK
    <3>2. CASE ConnectionLost("Failed")
      BY <3>1, <3>2, <2>d DEF Errors
    <3>3. CASE ~ConnectionLost("Failed")
      <4>1. UNCHANGED <<pc, cur, answered, cancelled, link, channel, readers, counters, settings,
                        timer, users>>
        BY <2>13, <3>3 DEF ServeHeartbeat
      <4>f. FlagsOK'
        BY <4>1 DEF TypeOK, FlagsOK
      <4>d. DataOK'
        BY <3>1, <4>1 DEF TypeOK, DataOK
      <4> QED
        BY <4>f, <4>d DEF TypeOK, FlagsOK, DataOK
    <3> QED
      BY <3>2, <3>3
  <2>14. CASE ServeCancelled
    BY <2>14, <2>a, EmptyType
    DEF ServeCancelled, AbortReader, HandleDisconnect, UnlessStopped, TypeOK, Errors, Replies
  <2>15. CASE SendSucceeded
    <3>1. seqno' \in 1..(SeqCap + 1)
      BY <2>15, <2>b DEF SendSucceeded, NextSeqno, TypeOK
    <3>2. answered' \in BOOLEAN
      BY <2>15 DEF SendSucceeded, TypeOK
    <3>3. CASE pc = "sendNoWait"
      BY <2>15, <2>e, <3>1, <3>2, <3>3 DEF SendSucceeded, Replies
    <3>4. CASE pc # "sendNoWait"
      BY <2>15, <3>1, <3>4 DEF SendSucceeded, TypeOK
    <3> QED
      BY <3>3, <3>4
  <2>16. CASE SendFailed
    <3>1. seqno' \in 1..(SeqCap + 1)
      BY <2>16, <2>b DEF SendFailed, NextSeqno, TypeOK
    <3> QED
      BY <2>16, <2>e, <3>1 DEF SendFailed, Errors, Replies
  <2>17. CASE ResponseReceived
    BY <2>17, <2>e
    DEF ResponseReceived, TypeOK, Errors, Replies
  <2>18. CASE ResponseMissed
    BY <2>18, <2>e
    DEF ResponseMissed, TypeOK, Errors, Replies
  <2>19. CASE ReaderPacket
    BY <2>19, <2>f
    DEF ReaderPacket, TypeOK, Errors, Replies
  <2>20. CASE ReaderFailed
    BY <2>20
    DEF ReaderFailed, TypeOK, Errors, Replies
  <2>34. CASE ReaderPanics
    BY <2>34
    DEF ReaderPanics, TypeOK, Errors, Replies
  <2>21. CASE ReaderCancelled
    BY <2>21
    DEF ReaderCancelled, TypeOK, Errors, Replies
  <2>22. CASE AbortedReader
    <3>1. failures' \in 0..FailCap /\ successes' \in 0..3 /\ answered' \in BOOLEAN
      BY <2>22, <2>f DEF AbortedReader
    <3>2. zombie' = FALSE /\ UNCHANGED <<pc, cur, seqno, reader, readerErr, cancelled, link,
                                        channel, settings, timer, users>>
      BY <2>22 DEF AbortedReader
    <3> QED
      <4>f. FlagsOK'
        BY <3>1, <3>2 DEF TypeOK, FlagsOK
      <4>d. DataOK'
        BY <3>1, <3>2 DEF TypeOK, DataOK
      <4> QED
        BY <4>f, <4>d DEF TypeOK, FlagsOK, DataOK
  <2>23. ASSUME NEW r \in Requests, Request(r) \/ Enqueue(r) \/ AwaitReply(r) \/ Return(r)
        PROVE  TypeOK'
    <3>1. CASE Request(r)
      BY <3>1 DEF Request, TypeOK
    <3>2. CASE Enqueue(r)
      <4>1. queue' \in Seq(Commands) /\ Len(queue') <= QueueCap
        <5>1. CASE rxOpen
          BY <3>2, <5>1, PushType DEF Enqueue, Commands
        <5>2. CASE ~rxOpen
          BY <3>2, <5>2 DEF Enqueue, TypeOK
        <5> QED
          BY <5>1, <5>2
      <4>2. reply' \in [Requests -> Replies]
        BY <3>2 DEF Enqueue, TypeOK, Errors, Replies
      <4>3. /\ call' \in [Requests -> {"idle", "sending", "sent", "awaiting"}]
            /\ UNCHANGED <<rxOpen, cancelled, held, ctl, link, task, readers, counters, settings>>
        BY <3>2 DEF Enqueue, TypeOK
      <4> QED
        BY <4>1, <4>2, <4>3 DEF TypeOK, Replies
    <3>3. CASE AwaitReply(r)
      BY <3>3 DEF AwaitReply, TypeOK
    <3>4. CASE Return(r)
      BY <3>4 DEF Return, TypeOK
    <3> QED
      BY <2>23, <3>1, <3>2, <3>3, <3>4
  <2>24. CASE SetPersist
    BY <2>24, ModeAssumption DEF SetPersist, TypeOK
  <2>25. CASE SetNowait
    BY <2>25, ModeAssumption DEF SetNowait, TypeOK
  <2>26. CASE BeginStop
    BY <2>26 DEF BeginStop, TypeOK
  <2>27. CASE StopCancels
    BY <2>27 DEF StopCancels, TypeOK
  <2>28. CASE Close
    BY <2>28 DEF Close, UnlessStopped, TypeOK
  <2>29. CASE ConnectNow
    BY <2>29 DEF ConnectNow, TypeOK
  <2>30. CASE SendControl
    <3>1. queue' \in Seq(Commands) /\ Len(queue') <= QueueCap
      <4>1. ctl \in Commands
        BY <2>30 DEF SendControl, Commands
      <4>2. CASE rxOpen
        BY <2>30, <4>1, <4>2, PushType DEF SendControl
      <4>3. CASE ~rxOpen
        BY <2>30, <4>3 DEF SendControl, TypeOK
      <4> QED
        BY <4>2, <4>3
    <3>2. ctl' = "idle" /\ UNCHANGED <<rxOpen, cancelled, held, call, reply, link, task,
                                        readers, counters, settings>>
      BY <2>30 DEF SendControl
    <3> QED
      BY <3>1, <3>2 DEF TypeOK
  <2>31. CASE DropHandle
    <3>1. cancelled' \in BOOLEAN
      BY <2>31 DEF DropHandle
    <3> QED
      <4>1. held' = FALSE /\ UNCHANGED <<call, reply, ctl, link, task, channel, readers,
                                         counters, settings>>
        BY <2>31 DEF DropHandle
      <4> QED
        <5>f. FlagsOK'
          BY <3>1, <4>1 DEF TypeOK, FlagsOK
        <5>d. DataOK'
          BY <3>1, <4>1 DEF TypeOK, DataOK
        <5> QED
          BY <5>f, <5>d DEF TypeOK, FlagsOK, DataOK
  <2>32. CASE UNCHANGED vars
    BY <2>32 DEF vars, TypeOK
  <2> QED
    BY <2>1, <2>2, <2>3, <2>4, <2>5, <2>6, <2>7, <2>8, <2>9, <2>10, <2>11, <2>12, <2>13,
       <2>14, <2>15, <2>16, <2>17, <2>18, <2>19, <2>20, <2>21, <2>22, <2>23, <2>24,
       <2>25, <2>26, <2>27, <2>28, <2>29, <2>30, <2>31, <2>32, <2>33, <2>34
    DEF Next, TaskNext, ReaderNext, UserNext
<1> QED
  BY <1>1, <1>2, PTL DEF Spec

(***************************************************************************)
(* What the task holds at each await point                                 *)
(***************************************************************************)

\* A step that leaves the variables of ConnectionInv alone preserves it.
LEMMA ConnectionFrame ==
    ASSUME ConnectionInv,
           UNCHANGED <<pc, cur, cancelled, announced, sessionKey, connState, reader, readerErr>>
    PROVE  ConnectionInv'
BY DEF ConnectionInv, Serving

\* Every step of the task, its reader and its users preserves ConnectionInv.
LEMMA ConnectionStep ==
    ASSUME TypeOK, ConnectionInv, [Next]_vars
    PROVE  ConnectionInv'
<1> USE RequestAssumption, ModeAssumption
<1> USE DEF link, task, channel, readers, counters, settings, users, TypeOK, Serving
<1>1. CASE JitterElapsed
  BY <1>1 DEF JitterElapsed, ConnectionInv
<1>2. CASE CancelObserved
  BY <1>2 DEF CancelObserved, Exit, Dropped, ConnectionInv
<1>3. CASE TryConnect
  BY <1>3 DEF TryConnect, Exit, Dropped, ConnectionInv
<1>4. CASE BackoffTick \/ BackoffElapsed \/ BackoffDiscovered
  <2>1. /\ pc = "backoff" /\ pc' \in {"backoff", "connecting"}
        /\ UNCHANGED <<cur, cancelled, announced, sessionKey, connState, reader, readerErr>>
    BY <1>4 DEF BackoffTick, BackoffElapsed, BackoffDiscovered
  <2> QED
    BY <2>1 DEF ConnectionInv
<1>5. CASE BackoffCommand
  BY <1>5 DEF BackoffCommand, ConnectionInv
<1>6. CASE TcpConnected
  BY <1>6 DEF TcpConnected, ConnectionInv
<1>7. CASE ConnectSucceeded
  BY <1>7 DEF ConnectSucceeded, StartCommand, ConnectionInv
<1>8. CASE ConnectFails
  BY <1>8 DEF ConnectFails, ConnectFailed, UnlessStopped, ConnectionInv
<1>9. CASE OnDemandCommand
  BY <1>9 DEF OnDemandCommand, Exit, Dropped, ConnectionInv
<1>22. CASE NegotiationPanics
  BY <1>22 DEF NegotiationPanics, Dropped, ConnectionInv
<1>10. CASE ServeCommand
  <2>1. Head(queue) = "ConnectNow" \/ Head(queue) \in Requests
    BY <1>10, PopType DEF ServeCommand, Commands
  <2> QED
    BY <1>10, <2>1 DEF ServeCommand, StartCommand, ConnectionInv
<1>11. CASE ServeDisconnect \/ ServeReaderError
  BY <1>11
  DEF ServeDisconnect, ServeReaderError, ConnectionLost, AbortReader, HandleDisconnect,
      UnlessStopped, Exit, Dropped, ConnectionInv
<1>12. CASE ServeHeartbeat
  <2>1. CASE ConnectionLost("Failed")
    BY <1>12, <2>1
    DEF ServeHeartbeat, ConnectionLost, AbortReader, HandleDisconnect, UnlessStopped, Exit,
        Dropped, ConnectionInv
  <2>2. CASE ~ConnectionLost("Failed")
    BY <1>12, <2>2, ConnectionFrame DEF ServeHeartbeat
  <2> QED
    BY <2>1, <2>2
<1>13. CASE ServeCancelled
  BY <1>13
  DEF ServeCancelled, AbortReader, HandleDisconnect, UnlessStopped, Exit, Dropped, ConnectionInv
<1>14. ASSUME pc \in {"send", "sendNoWait", "waiting"}, NEW v, EndCommand(v)
       PROVE  ConnectionInv'
  <2>1. /\ cur' = NoRequest /\ pc' = "serve"
        /\ reader' = IF reader = "none" THEN "running" ELSE reader
        /\ UNCHANGED <<readerErr, cancelled, announced, sessionKey, connState>>
    BY <1>14 DEF EndCommand
  <2> QED
    BY <1>14, <2>1 DEF ConnectionInv
<1>15. CASE SendSucceeded \/ SendFailed \/ ResponseReceived \/ ResponseMissed
  <2>1. CASE /\ pc = "send" /\ pc' = "waiting"
             /\ UNCHANGED <<cur, cancelled, announced, sessionKey, connState, reader, readerErr>>
    BY <2>1 DEF ConnectionInv
  <2>2. CASE pc \in {"send", "sendNoWait", "waiting"} /\ \E v : EndCommand(v)
    BY <1>14, <2>2
  <2> QED
    BY <1>15, <2>1, <2>2 DEF SendSucceeded, SendFailed, ResponseReceived, ResponseMissed
<1>16. CASE ReaderFailed \/ ReaderPanics \/ ReaderCancelled
  <2>1. /\ reader = "running" /\ reader' \in {"ended", "panicked"}
        /\ reader' = "ended" => readerErr' \/ cancelled'
        /\ UNCHANGED <<pc, cur, cancelled, announced, sessionKey, connState>>
    BY <1>16 DEF ReaderFailed, ReaderPanics, ReaderCancelled
  <2> QED
    BY <2>1 DEF ConnectionInv
<1>17. CASE BeginStop
  BY <1>17 DEF BeginStop, ConnectionInv
<1>18. CASE StopCancels
  BY <1>18 DEF StopCancels, ConnectionInv
<1>19. CASE Close
  BY <1>19 DEF Close, UnlessStopped, ConnectionInv
<1>20. CASE DropHandle
  BY <1>20 DEF DropHandle, ConnectionInv
<1>21. CASE \/ ReaderPacket \/ AbortedReader \/ SetPersist \/ SetNowait \/ ConnectNow \/ SendControl
            \/ (\E r \in Requests : Request(r) \/ Enqueue(r) \/ AwaitReply(r) \/ Return(r))
            \/ UNCHANGED vars
  BY <1>21, ConnectionFrame
  DEF ReaderPacket, AbortedReader, SetPersist, SetNowait, ConnectNow, SendControl,
      Request, Enqueue, AwaitReply, Return, vars
<1> QED
  BY <1>1, <1>2, <1>3, <1>4, <1>5, <1>6, <1>7, <1>8, <1>9, <1>10, <1>11, <1>12, <1>13,
     <1>15, <1>16, <1>17, <1>18, <1>19, <1>20, <1>21, <1>22
  DEF Next, TaskNext, ReaderNext, UserNext

\* Every step preserves RetryInv: a failure is counted on the way to the loop head, and
\* the one packet an aborted reader may still count is not enough to forgive it.
LEMMA RetryStep ==
    ASSUME TypeOK, ConnectionInv, RetryInv, [Next]_vars
    PROVE  RetryInv'
<1> USE BoundAssumption
<1> USE DEF link, task, channel, readers, counters, settings, users, TypeOK, RetryInv
<1>1. RecordFailure => failures' > 0 /\ successes' = 0
  BY DEF RecordFailure, Bump
<1>2. CASE ConnectFails
  BY <1>1, <1>2 DEF ConnectFails, ConnectFailed
<1>3. ASSUME NEW e, ConnectionLost(e) PROVE RetryInv'
  <2>1. failures' > 0 /\ successes' = 0
    BY <1>1, <1>3 DEF ConnectionLost
  <2> QED
    BY <2>1
<1>4. CASE ServeDisconnect \/ ServeReaderError \/ ServeHeartbeat
  <2>1. CASE \E e : ConnectionLost(e)
    BY <1>3, <2>1
  <2>2. CASE pc' = "serve"
    BY <2>2
  <2> QED
    BY <1>4, <2>1, <2>2 DEF ServeDisconnect, ServeReaderError, ServeHeartbeat
<1>5. CASE AbortedReader
  BY <1>5 DEF AbortedReader, PacketEffect, ResetFailureCount, Bump
<1>6. CASE ReaderPacket
  BY <1>6 DEF ReaderPacket, ConnectionInv, Serving
<1>7. CASE \/ JitterElapsed \/ CancelObserved \/ TryConnect \/ BackoffTick \/ BackoffElapsed
           \/ BackoffDiscovered \/ BackoffCommand \/ NegotiationPanics \/ TcpConnected
           \/ ConnectSucceeded \/ OnDemandCommand \/ ServeCommand
           \/ ServeCancelled \/ SendSucceeded \/ SendFailed \/ ResponseReceived \/ ResponseMissed
  <2>1. pc' # "retry"
    BY <1>7
    DEF JitterElapsed, CancelObserved, TryConnect, BackoffTick, BackoffElapsed,
        BackoffDiscovered, BackoffCommand, NegotiationPanics, TcpConnected, ConnectSucceeded,
        StartCommand, OnDemandCommand, ServeCommand, ServeCancelled, SendSucceeded, SendFailed,
        ResponseReceived, ResponseMissed, EndCommand, Exit, Dropped
  <2> QED
    BY <2>1
<1>8. CASE \/ ReaderFailed \/ ReaderPanics \/ ReaderCancelled \/ SetPersist \/ SetNowait
           \/ BeginStop \/ StopCancels \/ Close \/ ConnectNow \/ SendControl \/ DropHandle
           \/ (\E r \in Requests : Request(r) \/ Enqueue(r) \/ AwaitReply(r) \/ Return(r))
           \/ UNCHANGED vars
  <2>1. UNCHANGED <<pc, failures, successes, zombie>>
    BY <1>8
    DEF ReaderFailed, ReaderPanics, ReaderCancelled, SetPersist, SetNowait, BeginStop, StopCancels,
        Close, ConnectNow, SendControl, DropHandle, Request, Enqueue, AwaitReply, Return, vars
  <2> QED
    BY <2>1
<1> QED
  BY <1>2, <1>3, <1>4, <1>5, <1>6, <1>7, <1>8 DEF Next, TaskNext, ReaderNext, UserNext

\* What the task holds at its await points is as ConnectionInv and RetryInv say.
THEOREM ConnectionInvariant == Spec => [](ConnectionInv /\ RetryInv)
<1>1. Init => ConnectionInv /\ RetryInv
  BY DEF Init, ConnectionInv, RetryInv, Serving
<1>2. TypeOK /\ ConnectionInv /\ RetryInv /\ [Next]_vars => (ConnectionInv /\ RetryInv)'
  BY ConnectionStep, RetryStep
<1> QED
  BY <1>1, <1>2, TypeCorrect, PTL DEF Spec

\* Every handshake is encrypted with the device's own key and every message of a served
\* connection with the negotiated one, however the previous connection was lost.
THEOREM HandshakeKeys == Spec => []HandshakeUsesLocalKey
<1>1. TypeOK /\ ConnectionInv => HandshakeUsesLocalKey
  BY ModeAssumption DEF TypeOK, ConnectionInv, HandshakeUsesLocalKey, Serving
<1> QED
  BY <1>1, TypeCorrect, ConnectionInvariant, PTL

\* Listeners are told the truth about the connection until the task has ended.
THEOREM EventsTruthful == Spec => []EventsMatchConnection
<1>1. ConnectionInv => EventsMatchConnection
  BY DEF ConnectionInv, EventsMatchConnection
<1> QED
  BY <1>1, ConnectionInvariant, PTL

\* is_connected() is true only of a task that serves a connection or was cancelled.
THEOREM ConnectedTruthful == Spec => []ConnectedMeansServing
<1>1. ConnectionInv => ConnectedMeansServing
  BY DEF ConnectionInv, ConnectedMeansServing
<1> QED
  BY <1>1, ConnectionInvariant, PTL

\* A lost or refused connection is never retried without a backoff.
THEOREM RetriesBackOff == Spec => []NoHotReconnect
<1>1. RetryInv => NoHotReconnect
  BY DEF RetryInv, NoHotReconnect
<1> QED
  BY <1>1, ConnectionInvariant, PTL

\* A served connection has a running reader, or its error is waiting for the task,
\* or all is being cancelled, or the reader panicked.
THEOREM ConnectionsWatched == Spec => []ConnectionIsWatched
<1>1. TypeOK /\ ConnectionInv => ConnectionIsWatched
  BY DEF TypeOK, ConnectionInv, ConnectionIsWatched
<1> QED
  BY <1>1, TypeCorrect, ConnectionInvariant, PTL

(***************************************************************************)
(* Who owns a request                                                      *)
(***************************************************************************)

\* Taking the first command removes it, and only it, from the queued requests.
LEMMA QueuedPop ==
    ASSUME TypeOK, QueueInjective, queue # <<>>, queue' = Tail(queue)
    PROVE  QueueInjective' /\ Queued' = Queued \ {Head(queue)}
<1>1. /\ Len(queue) \in Nat /\ Len(queue) >= 1
      /\ Len(queue') = Len(queue) - 1
      /\ Head(queue) = queue[1]
      /\ \A i \in 1..Len(queue') : queue'[i] = queue[i + 1]
  BY HeadTailProperties, LenProperties, EmptySeq DEF TypeOK
<1>2. QueueInjective'
  BY <1>1 DEF QueueInjective
<1>3. ASSUME NEW r \in Requests
      PROVE  r \in Queued' <=> r \in Queued \ {Head(queue)}
  <2>1. ASSUME r \in Queued' PROVE r \in Queued \ {Head(queue)}
    <3>1. PICK i \in 1..Len(queue') : queue'[i] = r
      BY <2>1 DEF Queued
    <3>2. i + 1 \in 1..Len(queue) /\ queue[i + 1] = r /\ i + 1 # 1 /\ 1 \in 1..Len(queue)
      BY <1>1, <3>1
    <3> QED
      BY <1>1, <3>2 DEF QueueInjective, Queued
  <2>2. ASSUME r \in Queued, r # Head(queue) PROVE r \in Queued'
    <3>1. PICK i \in 1..Len(queue) : queue[i] = r
      BY <2>2 DEF Queued
    <3>2. i - 1 \in 1..Len(queue') /\ queue'[i - 1] = r
      BY <1>1, <2>2, <3>1
    <3> QED
      BY <3>2 DEF Queued
  <2> QED
    BY <2>1, <2>2
<1>4. Queued \subseteq Requests /\ Queued' \subseteq Requests
  BY DEF Queued
<1> QED
  BY <1>2, <1>3, <1>4

\* Appending a command that is not yet queued adds it, and only it.
LEMMA QueuedPush ==
    ASSUME TypeOK, QueueInjective, NEW c \in Commands, c \notin Queued,
           queue' = Append(queue, c)
    PROVE  QueueInjective' /\ Queued' = Queued \cup ({c} \cap Requests)
<1>1. /\ Len(queue) \in Nat
      /\ Len(queue') = Len(queue) + 1
      /\ queue'[Len(queue')] = c
      /\ \A i \in 1..Len(queue) : queue'[i] = queue[i]
  BY AppendProperties, LenProperties DEF TypeOK
<1>2. QueueInjective'
  <2>1. \A i \in 1..Len(queue') : i \in 1..Len(queue) \/ i = Len(queue')
    BY <1>1
  <2>2. \A i \in 1..Len(queue) : queue[i] = c => c \notin Requests
    BY DEF Queued
  <2> QED
    BY <1>1, <2>1, <2>2 DEF QueueInjective
<1>3. ASSUME NEW r \in Requests
      PROVE  r \in Queued' <=> r \in Queued \cup {c}
  <2>1. Len(queue') \in 1..Len(queue')
    BY <1>1
  <2>2. \A i \in 1..Len(queue) : i \in 1..Len(queue')
    BY <1>1
  <2>3. \A i \in 1..Len(queue') : i \in 1..Len(queue) \/ i = Len(queue')
    BY <1>1
  <2> QED
    BY <1>1, <2>1, <2>2, <2>3 DEF Queued
<1>4. Queued \subseteq Requests /\ Queued' \subseteq Requests
  BY DEF Queued
<1> QED
  BY <1>2, <1>3, <1>4

\* The first command, if it is a request, is a queued request.
LEMMA QueuedHead ==
    ASSUME TypeOK, queue # <<>>, Head(queue) \in Requests
    PROVE  Head(queue) \in Queued
<1>1. Len(queue) \in Nat /\ Len(queue) >= 1 /\ Head(queue) = queue[1]
  BY HeadTailProperties, LenProperties, EmptySeq DEF TypeOK
<1> QED
  BY <1>1 DEF Queued

\* An empty channel queues nothing.
LEMMA QueuedEmpty ==
    ASSUME queue' = <<>>
    PROVE  QueueInjective' /\ Queued' = {}
BY EmptySeq DEF QueueInjective, Queued

\* Ownership survives a step that consumes the senders of S with an answer and keeps
\* every other one in the channel or in the task's hands.
LEMMA OwnershipRespond ==
    ASSUME TypeOK, OwnershipInv, NEW S, NEW v \in Replies \ {"none"}, Respond(S, v),
           UNCHANGED call, QueueInjective', cur' \notin Queued', rxOpen' <=> pc' # "exited",
           \A r \in Requests : r \in S => r \in Queued \/ r = cur,
           \A r \in Requests :
               r \in Queued' \/ r = cur' <=> (r \in Queued \/ r = cur) /\ r \notin S
    PROVE  OwnershipInv'
<1>1. \A r \in Requests :
        reply'[r] = IF r \in S /\ call[r] # "idle" THEN v ELSE reply[r]
  BY DEF Respond
<1>2. OwnedUnused'
  BY <1>1 DEF OwnershipInv, OwnedUnused
<1>3. PendingOwned'
  BY <1>1 DEF OwnershipInv, PendingOwned, Replies
<1>4. QuietOneshot'
  BY <1>1 DEF OwnershipInv, OwnedUnused, QuietOneshot, TypeOK
<1> QED
  BY <1>2, <1>3, <1>4 DEF OwnershipInv

\* Ownership survives a step that answers nobody and only moves commands.
LEMMA OwnershipMove ==
    ASSUME TypeOK, OwnershipInv, UNCHANGED <<call, reply>>, QueueInjective',
           cur' \notin Queued', rxOpen' <=> pc' # "exited",
           \A r \in Requests : r \in Queued' \/ r = cur' <=> r \in Queued \/ r = cur
    PROVE  OwnershipInv'
BY DEF OwnershipInv, OwnedUnused, PendingOwned, QuietOneshot

\* Ownership survives a step that touches neither commands nor calls.
LEMMA OwnershipFrame ==
    ASSUME TypeOK, OwnershipInv, UNCHANGED <<queue, cur, call, reply, rxOpen>>,
           pc' = "exited" <=> pc = "exited"
    PROVE  OwnershipInv'
BY DEF OwnershipInv, QueueInjective, OwnedUnused, PendingOwned, QuietOneshot, Queued

\* The end of the task answers everything it owned.
LEMMA OwnershipExit ==
    ASSUME TypeOK, OwnershipInv, NEW v \in Errors, Dropped(v), UNCHANGED call
    PROVE  OwnershipInv'
<1>1. QueueInjective' /\ Queued' = {}
  BY QueuedEmpty DEF Dropped
<1> QED
  BY <1>1, OwnershipRespond, RequestAssumption DEF Dropped, Errors, Replies

\* Draining the channel answers everything queued and keeps the command in hand.
LEMMA OwnershipDrain ==
    ASSUME TypeOK, OwnershipInv, NEW v \in Errors, queue' = <<>>, Respond(Queued, v),
           UNCHANGED <<call, cur>>, rxOpen' <=> pc' # "exited"
    PROVE  OwnershipInv'
<1>1. QueueInjective' /\ Queued' = {}
  BY QueuedEmpty
<1> QED
  BY <1>1, OwnershipRespond DEF Errors, Replies, OwnershipInv, OwnedUnused

\* Every step of the task, its reader and its users preserves OwnershipInv.
LEMMA OwnershipStep ==
    ASSUME TypeOK, ConnectionInv, OwnershipInv, [Next]_vars
    PROVE  OwnershipInv'
<1> USE DEF link, task, channel, readers, counters, settings, users
<1>o. rxOpen <=> pc # "exited"
  BY DEF OwnershipInv
<1>1. CASE \/ JitterElapsed \/ BackoffTick \/ BackoffElapsed \/ BackoffDiscovered \/ TcpConnected
           \/ ReaderPacket \/ ReaderFailed \/ ReaderPanics \/ ReaderCancelled \/ AbortedReader
           \/ SetPersist \/ SetNowait \/ BeginStop \/ StopCancels \/ Close \/ ConnectNow
           \/ DropHandle \/ UNCHANGED vars
  <2>1. UNCHANGED <<queue, cur, call, reply, rxOpen>> /\ (pc' = "exited" <=> pc = "exited")
    BY <1>1
    DEF JitterElapsed, BackoffTick, BackoffElapsed, BackoffDiscovered, TcpConnected,
        ReaderPacket, ReaderFailed, ReaderPanics, ReaderCancelled, AbortedReader, SetPersist,
        SetNowait, BeginStop, StopCancels, Close, ConnectNow, DropHandle, vars
  <2> QED
    BY <2>1, OwnershipFrame
<1>2. CASE CancelObserved \/ ServeCancelled \/ NegotiationPanics
  BY <1>2, OwnershipExit DEF CancelObserved, ServeCancelled, NegotiationPanics, Exit, Errors
<1>3. CASE TryConnect
  <2>1. CASE connState = "Stopped"
    BY <1>3, <2>1, OwnershipExit DEF TryConnect, Exit, Errors
  <2>2. CASE connState # "Stopped"
    BY <1>3, <2>2, OwnershipFrame DEF TryConnect
  <2> QED
    BY <2>1, <2>2
<1>4. CASE BackoffCommand
  <2>1. QueueInjective' /\ Queued' = Queued \ {Head(queue)}
    BY <1>4, QueuedPop DEF BackoffCommand, OwnershipInv
  <2>2. Head(queue) \in Requests => Head(queue) \in Queued /\ Head(queue) # cur
    BY <1>4, QueuedHead DEF BackoffCommand, OwnershipInv, OwnedUnused
  <2>3. cur' \notin Queued' /\ (rxOpen' <=> pc' # "exited")
    BY <1>4, <1>o, <2>1 DEF BackoffCommand, OwnershipInv, OwnedUnused
  <2>4. CASE Head(queue) = "ConnectNow"
    BY <1>4, <2>1, <2>3, <2>4, OwnershipMove, RequestAssumption DEF BackoffCommand
  <2>5. CASE Head(queue) # "ConnectNow"
    BY <1>4, <2>1, <2>2, <2>3, <2>5, OwnershipRespond DEF BackoffCommand, Errors, Replies
  <2> QED
    BY <2>4, <2>5
<1>5. CASE ConnectSucceeded
  BY <1>5, OwnershipFrame DEF ConnectSucceeded, StartCommand
<1>6. CASE ConnectFails
  <2>1. PICK e \in Errors : ConnectFailed(e)
    BY <1>6 DEF ConnectFails
  <2>2. rxOpen' <=> pc' # "exited"
    BY <2>1, <1>o DEF ConnectFailed
  <2>3. CASE cur = NoRequest
    BY <2>1, <2>2, <2>3, OwnershipDrain DEF ConnectFailed
  <2>4. CASE cur # NoRequest
    <3>1. Queued' = Queued /\ QueueInjective'
      BY <2>1, <2>4 DEF ConnectFailed, Queued, QueueInjective, OwnershipInv
    <3>2. cur' = NoRequest /\ cur' \notin Queued' /\ cur \notin Queued
      BY <2>1, <2>4, RequestAssumption DEF ConnectFailed, Queued, OwnershipInv, OwnedUnused
    <3>3. Respond({cur}, e) /\ UNCHANGED call /\ e \in Replies \ {"none"}
      BY <2>1, <2>4 DEF ConnectFailed, Errors, Replies
    <3>4. \A r \in Requests :
              r \in Queued' \/ r = cur' <=> (r \in Queued \/ r = cur) /\ r \notin {cur}
      BY <3>1, <3>2, RequestAssumption
    <3> QED
      BY <2>2, <3>1, <3>2, <3>3, <3>4, OwnershipRespond
  <2> QED
    BY <2>3, <2>4
<1>7. CASE OnDemandCommand
  <2>1. CASE Exit("Offline")
    BY <1>7, <2>1, OwnershipExit DEF OnDemandCommand, Exit, Errors
  <2>2. CASE ~Exit("Offline")
    <3>1. cur = NoRequest /\ QueueInjective' /\ Queued' = Queued \ {Head(queue)}
      BY <1>7, <2>2, QueuedPop DEF OnDemandCommand, OwnershipInv, ConnectionInv
    <3>2. Head(queue) \in Requests => Head(queue) \in Queued
      BY <1>7, QueuedHead DEF OnDemandCommand
    <3>3. cur' = IF Head(queue) \in Requests THEN Head(queue) ELSE NoRequest
      BY <1>7, <2>2, <3>1, RequestAssumption DEF OnDemandCommand
    <3>4. cur' \notin Queued' /\ (rxOpen' <=> pc' # "exited")
      BY <1>7, <1>o, <2>2, <3>1, <3>3, RequestAssumption DEF OnDemandCommand, Queued
    <3> QED
      BY <1>7, <2>2, <3>1, <3>2, <3>3, <3>4, OwnershipMove, RequestAssumption
      DEF OnDemandCommand
  <2> QED
    BY <2>1, <2>2
<1>8. CASE ServeCommand
  <2>1. cur = NoRequest /\ QueueInjective' /\ Queued' = Queued \ {Head(queue)}
    BY <1>8, QueuedPop DEF ServeCommand, OwnershipInv, ConnectionInv
  <2>2. Head(queue) \in Commands /\ (Head(queue) \in Requests => Head(queue) \in Queued)
    BY <1>8, QueuedHead, PopType DEF ServeCommand
  <2>3. cur' = IF Head(queue) \in Requests THEN Head(queue) ELSE NoRequest
    BY <1>8, <2>1, <2>2, RequestAssumption DEF ServeCommand, StartCommand, Commands
  <2>4. cur' \notin Queued' /\ (rxOpen' <=> pc' # "exited")
    BY <1>8, <1>o, <2>1, <2>3, RequestAssumption DEF ServeCommand, StartCommand, Queued
  <2> QED
    BY <1>8, <2>1, <2>2, <2>3, <2>4, OwnershipMove, RequestAssumption
    DEF ServeCommand, StartCommand
<1>9. ASSUME NEW e \in Errors, ConnectionLost(e), pc = "serve"
      PROVE  OwnershipInv'
  <2>1. CASE connState = "Stopped"
    BY <1>9, <2>1, OwnershipExit DEF ConnectionLost, Exit
  <2>2. CASE connState # "Stopped"
    BY <1>9, <1>o, <2>2, OwnershipDrain DEF ConnectionLost
  <2> QED
    BY <2>1, <2>2
<1>10. CASE ServeDisconnect \/ ServeReaderError
  BY <1>9, <1>10 DEF ServeDisconnect, ServeReaderError, Errors
<1>11. CASE ServeHeartbeat
  BY <1>9, <1>11, OwnershipFrame DEF ServeHeartbeat, Errors
<1>12. ASSUME NEW v \in Replies \ {"none"}, EndCommand(v), pc # "exited"
       PROVE  OwnershipInv'
  <2>1. Queued' = Queued /\ QueueInjective' /\ cur' \notin Queued' /\ cur \notin Queued
    BY <1>12, RequestAssumption
    DEF EndCommand, Queued, QueueInjective, OwnershipInv, OwnedUnused
  <2>2. (rxOpen' <=> pc' # "exited") /\ cur' = NoRequest /\ UNCHANGED call
    BY <1>12, <1>o DEF EndCommand
  <2> QED
    <3>1. Respond({cur}, v)
      BY <1>12 DEF EndCommand
    <3>2. \A r \in Requests :
              r \in Queued' \/ r = cur' <=> (r \in Queued \/ r = cur) /\ r \notin {cur}
      BY <2>1, <2>2, RequestAssumption
    <3> QED
      BY <1>12, <2>1, <2>2, <3>1, <3>2, OwnershipRespond
<1>13. CASE SendSucceeded
  BY <1>12, <1>13, OwnershipFrame DEF SendSucceeded, Replies, Errors
<1>14. CASE SendFailed \/ ResponseReceived \/ ResponseMissed
  BY <1>12, <1>14 DEF SendFailed, ResponseReceived, ResponseMissed, Replies, Errors
<1>15. CASE SendControl
  <2>1. CASE UNCHANGED queue
    BY <1>15, <2>1, OwnershipFrame DEF SendControl
  <2>2. CASE queue' = Append(queue, ctl)
    <3>1. ctl \in Commands /\ ctl \notin Requests /\ ctl \notin Queued
      BY <1>15, RequestAssumption DEF SendControl, Commands, Queued
    <3>2. QueueInjective' /\ Queued' = Queued
      BY <2>2, <3>1, QueuedPush DEF OwnershipInv
    <3> QED
      BY <1>15, <1>o, <3>2, OwnershipMove DEF SendControl, OwnershipInv, OwnedUnused
  <2> QED
    BY <1>15, <2>1, <2>2 DEF SendControl
<1>16. ASSUME NEW q \in Requests, Request(q) PROVE OwnershipInv'
  <2>1. Queued' = Queued /\ QueueInjective'
    BY <1>16 DEF Request, Queued, QueueInjective, OwnershipInv
  <2>2. \A r \in Requests : call'[r] = IF r = q THEN "sending" ELSE call[r]
    BY <1>16 DEF Request, TypeOK
  <2> QED
    <3>1. UNCHANGED <<cur, reply, rxOpen, pc>> /\ call[q] = "idle" /\ q \notin Queued \cup {cur}
      BY <1>16 DEF Request
    <3>2. OwnedUnused'
      BY <2>1, <2>2, <3>1 DEF OwnershipInv, OwnedUnused
    <3>3. PendingOwned' /\ QuietOneshot'
      BY <2>1, <2>2, <3>1 DEF OwnershipInv, PendingOwned, QuietOneshot
    <3> QED
      BY <2>1, <3>1, <3>2, <3>3 DEF OwnershipInv
<1>17. ASSUME NEW q \in Requests, Enqueue(q) PROVE OwnershipInv'
  <2>1. \A r \in Requests : call'[r] = IF r = q THEN "sent" ELSE call[r]
    BY <1>17 DEF Enqueue, TypeOK
  <2>2. q \notin Queued /\ q # cur /\ reply[q] = "none"
    BY <1>17 DEF Enqueue, OwnershipInv, OwnedUnused, QuietOneshot
  <2>3. CASE UNCHANGED queue
    <3>1. Queued' = Queued /\ QueueInjective'
      BY <2>3 DEF Queued, QueueInjective, OwnershipInv
    <3>2. \A r \in Requests : reply'[r] = IF r = q THEN "Offline" ELSE reply[r]
      <4>1. Append(queue, q) # queue
        BY AppendChanges DEF Commands
      <4> QED
        BY <1>17, <2>3, <4>1 DEF Enqueue, TypeOK
    <3>3. UNCHANGED <<cur, rxOpen, pc>>
      BY <1>17 DEF Enqueue, task
    <3>4. OwnedUnused'
      BY <2>1, <2>2, <3>1, <3>2, <3>3 DEF OwnershipInv, OwnedUnused
    <3>5. PendingOwned' /\ QuietOneshot'
      BY <2>1, <3>1, <3>2, <3>3 DEF OwnershipInv, PendingOwned, QuietOneshot
    <3> QED
      BY <3>1, <3>3, <3>4, <3>5 DEF OwnershipInv
  <2>4. CASE queue' = Append(queue, q)
    <3>1. QueueInjective' /\ Queued' = Queued \cup {q}
      BY <2>2, <2>4, QueuedPush DEF OwnershipInv, Commands
    <3>2. UNCHANGED reply
      <4>1. Append(queue, q) # queue
        BY AppendChanges DEF Commands
      <4> QED
        BY <1>17, <2>4, <4>1 DEF Enqueue
    <3> QED
      BY <1>17, <1>o, <2>1, <2>2, <3>1, <3>2
      DEF Enqueue, OwnershipInv, OwnedUnused, PendingOwned, QuietOneshot
  <2> QED
    BY <1>17, <2>3, <2>4 DEF Enqueue
<1>18. ASSUME NEW q \in Requests, AwaitReply(q) \/ Return(q) PROVE OwnershipInv'
  <2>1. Queued' = Queued /\ QueueInjective'
    BY <1>18 DEF AwaitReply, Return, Queued, QueueInjective, OwnershipInv
  <2>2. /\ call[q] \in {"sent", "awaiting"}
        /\ \A r \in Requests : r # q => call'[r] = call[r] /\ reply'[r] = reply[r]
        /\ \/ call'[q] = "idle" /\ reply'[q] = "none"
           \/ call'[q] = "awaiting" /\ reply'[q] = reply[q]
    BY <1>18 DEF AwaitReply, Return, TypeOK
  <2>3. UNCHANGED <<cur, rxOpen, pc>>
    BY <1>18 DEF AwaitReply, Return
  <2> QED
    BY <2>1, <2>2, <2>3 DEF OwnershipInv, OwnedUnused, PendingOwned, QuietOneshot
<1> QED
  BY <1>1, <1>2, <1>3, <1>4, <1>5, <1>6, <1>7, <1>8, <1>10, <1>11, <1>13, <1>14, <1>15,
     <1>16, <1>17, <1>18
  DEF Next, TaskNext, ReaderNext, UserNext

\* A request is owned once, its sender unused, until its caller is answered.
THEOREM OwnershipInvariant == Spec => []OwnershipInv
<1>1. Init => OwnershipInv
  BY RequestAssumption, EmptySeq
  DEF Init, OwnershipInv, QueueInjective, OwnedUnused, PendingOwned, QuietOneshot, Queued
<1>2. TypeOK /\ ConnectionInv /\ OwnershipInv /\ [Next]_vars => OwnershipInv'
  BY OwnershipStep
<1> QED
  BY <1>1, <1>2, TypeCorrect, ConnectionInvariant, PTL DEF Spec

\* A closed channel is empty: it is closed with everything in it answered, and takes
\* nothing more.
THEOREM ClosedIsEmpty == Spec => [](~rxOpen => queue = <<>>)
<1> DEFINE Closed == ~rxOpen => queue = <<>>
<1>1. Init => Closed
  BY DEF Init
<1>2. Closed /\ [Next]_vars => Closed'
  <2> SUFFICES ASSUME Closed, [Next]_vars PROVE Closed'
    OBVIOUS
  <2> USE DEF link, task, channel, readers, counters, settings, users
  <2>1. CASE TaskNext
    BY <2>1
    DEF TaskNext, JitterElapsed, CancelObserved, TryConnect, BackoffTick, BackoffElapsed,
        BackoffDiscovered, BackoffCommand, NegotiationPanics, TcpConnected, ConnectSucceeded,
        StartCommand, ConnectFails, ConnectFailed, OnDemandCommand, ServeCommand, ServeDisconnect,
        ServeReaderError, ServeHeartbeat,
        ConnectionLost, ServeCancelled, SendSucceeded, SendFailed, ResponseReceived,
        ResponseMissed, EndCommand, Exit, Dropped
  <2>2. CASE ReaderNext
    BY <2>2 DEF ReaderNext, ReaderPacket, ReaderFailed, ReaderPanics, ReaderCancelled, AbortedReader
  <2>3. CASE UserNext
    <3>1. CASE SendControl \/ \E r \in Requests : Enqueue(r)
      BY <3>1 DEF SendControl, Enqueue
    <3>2. CASE ~(SendControl \/ \E r \in Requests : Enqueue(r))
      BY <2>3, <3>2
      DEF UserNext, Request, AwaitReply, Return, SetPersist, SetNowait, BeginStop,
          StopCancels, Close, ConnectNow, DropHandle
    <3> QED
      BY <3>1, <3>2
  <2>4. CASE UNCHANGED vars
    BY <2>4 DEF vars
  <2> QED
    BY <2>1, <2>2, <2>3, <2>4 DEF Next
<1> QED
  BY <1>1, <1>2, PTL DEF Spec

\* No caller that awaits an answer is left without somebody who owes it one.
THEOREM NobodyStranded == Spec => []NoStrandedCaller
<1>1. ConnectionInv /\ OwnershipInv /\ (~rxOpen => queue = <<>>) => NoStrandedCaller
  <2> SUFFICES ASSUME ConnectionInv, OwnershipInv, ~rxOpen => queue = <<>>, NEW r \in Requests,
                      call[r] = "awaiting", reply[r] = "none"
               PROVE  pc # "exited" /\ (r \in Queued \/ cur = r)
    BY DEF NoStrandedCaller
  <2>1. r \in Queued \/ cur = r
    BY DEF OwnershipInv, PendingOwned
  <2>2. pc = "exited" => cur = NoRequest /\ Queued = {}
    BY EmptySeq DEF ConnectionInv, OwnershipInv, Queued
  <2> QED
    BY <2>1, <2>2, RequestAssumption
<1> QED
  BY <1>1, ConnectionInvariant, OwnershipInvariant, ClosedIsEmpty, PTL

(***************************************************************************)
(* DeviceTask implements RequestService: every step of the task, its       *)
(* reader and its users is a step of the service or invisible to callers.  *)
(***************************************************************************)

\* What a caller sees is determined by its progress and its oneshot.
LEMMA StatusCases ==
    ASSUME TypeOK, NEW r \in Requests
    PROVE  /\ callStatus[r] = "idle" <=> call[r] = "idle"
           /\ callStatus[r] = "asking" <=> call[r] = "sending"
           /\ callStatus[r] = "pending" <=> call[r] \in {"sent", "awaiting"} /\ reply[r] = "none"
           /\ callStatus[r] = "answered" <=> call[r] \in {"sent", "awaiting"} /\ reply[r] # "none"
BY DEF callStatus, TypeOK

\* A step that touches neither calls nor oneshots nor the channel's state is invisible.
LEMMA ServiceStutter ==
    ASSUME UNCHANGED <<call, reply, rxOpen>>
    PROVE  UNCHANGED Service!vars
BY DEF callStatus, Service!vars

\* Answering some owned requests while the channel is open is an Answer.
LEMMA ServiceAnswer ==
    ASSUME TypeOK, OwnershipInv, NEW S, NEW v \in Replies \ {"none"}, Respond(S, v), rxOpen,
           UNCHANGED <<call, rxOpen>>,
           \A r \in Requests : r \in S => r \in Queued \/ r = cur
    PROVE  Service!Next
<1> DEFINE T == {r \in Requests : r \in S /\ callStatus[r] = "pending"}
<1>1. T \subseteq Service!Pending /\ T \in SUBSET Requests
  BY DEF Service!Pending
<1>2. ASSUME NEW r \in Requests
      PROVE  callStatus'[r] = IF r \in T THEN "answered" ELSE callStatus[r]
  <2>1. reply'[r] = IF r \in S /\ call[r] # "idle" THEN v ELSE reply[r]
    BY DEF Respond
  <2>2. r \in S => call[r] # "sending" /\ reply[r] = "none"
    BY DEF OwnershipInv, OwnedUnused
  <2> QED
    BY <2>1, <2>2 DEF callStatus, TypeOK, Replies
<1>3. Service!Move(T, "answered")
  BY <1>2 DEF Service!Move, callStatus
<1> QED
  BY <1>1, <1>3 DEF Service!Next, Service!Answer

\* The end of the task is the Shutdown.
LEMMA ServiceShutdown ==
    ASSUME TypeOK, OwnershipInv, NEW v \in Errors, Dropped(v), rxOpen, UNCHANGED call
    PROVE  Service!Next
<1>1. ASSUME NEW r \in Requests
      PROVE  callStatus'[r] = IF r \in Service!Pending THEN "answered" ELSE callStatus[r]
  <2>1. reply'[r] = IF (r \in Queued \/ r = cur) /\ call[r] # "idle" THEN v ELSE reply[r]
    BY DEF Dropped, Respond
  <2>2. r \in Queued \/ r = cur => call[r] # "sending" /\ reply[r] = "none"
    BY DEF OwnershipInv, OwnedUnused
  <2>3. r \in Service!Pending <=> call[r] \in {"sent", "awaiting"} /\ reply[r] = "none"
    BY StatusCases DEF Service!Pending
  <2>4. r \in Service!Pending => r \in Queued \/ r = cur
    BY <2>3 DEF OwnershipInv, PendingOwned
  <2> QED
    BY <2>1, <2>2, <2>3, <2>4 DEF callStatus, TypeOK, Errors
<1>2. Service!Move(Service!Pending, "answered")
  BY <1>1 DEF Service!Move, callStatus
<1> QED
  BY <1>2 DEF Service!Next, Service!Shutdown, Dropped

\* Every step maps to a step of the service or to none.
LEMMA ServiceStep ==
    ASSUME TypeOK, ConnectionInv, OwnershipInv, [Next]_vars
    PROVE  [Service!Next]_(Service!vars)
<1> USE DEF link, task, channel, readers, counters, settings, users
<1>o. rxOpen <=> pc # "exited"
  BY DEF OwnershipInv
<1>1. CASE \/ JitterElapsed \/ BackoffTick \/ BackoffElapsed \/ BackoffDiscovered
           \/ TcpConnected \/ ConnectSucceeded \/ ServeCommand
           \/ ReaderPacket \/ ReaderFailed \/ ReaderPanics \/ ReaderCancelled \/ AbortedReader
           \/ SetPersist \/ SetNowait \/ BeginStop \/ StopCancels \/ Close \/ ConnectNow
           \/ SendControl \/ DropHandle \/ UNCHANGED vars
  <2>1. UNCHANGED <<call, reply, rxOpen>>
    BY <1>1
    DEF JitterElapsed, BackoffTick, BackoffElapsed, BackoffDiscovered, TcpConnected,
        ConnectSucceeded, ServeCommand, ReaderPacket, ReaderFailed, ReaderPanics,
        ReaderCancelled, AbortedReader, SetPersist, SetNowait, BeginStop, StopCancels,
        Close, ConnectNow, SendControl, DropHandle, vars
  <2> QED
    BY <2>1, ServiceStutter
<1>2. CASE CancelObserved \/ ServeCancelled \/ NegotiationPanics
  BY <1>2, <1>o, ServiceShutdown
  DEF CancelObserved, ServeCancelled, NegotiationPanics, Exit, Errors
<1>3. CASE TryConnect
  <2>1. CASE connState = "Stopped"
    BY <1>3, <1>o, <2>1, ServiceShutdown DEF TryConnect, Exit, Errors
  <2>2. CASE connState # "Stopped"
    BY <1>3, <2>2, ServiceStutter DEF TryConnect
  <2> QED
    BY <2>1, <2>2
<1>4. CASE BackoffCommand
  <2>1. Head(queue) \in Requests => Head(queue) \in Queued
    BY <1>4, QueuedHead DEF BackoffCommand
  <2>2. CASE Head(queue) = "ConnectNow"
    BY <1>4, <2>2, ServiceStutter DEF BackoffCommand
  <2>3. CASE Head(queue) # "ConnectNow"
    BY <1>4, <1>o, <2>1, <2>3, ServiceAnswer DEF BackoffCommand, Replies, Errors
  <2> QED
    BY <2>2, <2>3
<1>5. CASE ConnectFails
  <2>1. PICK e \in Errors : ConnectFailed(e)
    BY <1>5 DEF ConnectFails
  <2>2. CASE cur = NoRequest
    BY <2>1, <2>2, <1>o, ServiceAnswer DEF ConnectFailed, Replies, Errors
  <2>3. CASE cur # NoRequest
    BY <2>1, <2>3, <1>o, ServiceAnswer DEF ConnectFailed, Replies, Errors
  <2> QED
    BY <2>2, <2>3
<1>6. CASE OnDemandCommand
  <2>1. CASE Exit("Offline")
    BY <1>6, <1>o, <2>1, ServiceShutdown DEF OnDemandCommand, Exit, Errors
  <2>2. CASE ~Exit("Offline")
    BY <1>6, <2>2, ServiceStutter DEF OnDemandCommand
  <2> QED
    BY <2>1, <2>2
<1>7. ASSUME NEW e \in Errors, ConnectionLost(e), pc = "serve"
      PROVE  Service!Next
  <2>1. CASE connState = "Stopped"
    BY <1>7, <1>o, <2>1, ServiceShutdown DEF ConnectionLost, Exit
  <2>2. CASE connState # "Stopped"
    BY <1>7, <1>o, <2>2, ServiceAnswer DEF ConnectionLost, Replies, Errors
  <2> QED
    BY <2>1, <2>2
<1>8. CASE ServeDisconnect \/ ServeReaderError
  BY <1>7, <1>8 DEF ServeDisconnect, ServeReaderError, Errors
<1>9. CASE ServeHeartbeat
  BY <1>7, <1>9, ServiceStutter DEF ServeHeartbeat, Errors
<1>10. ASSUME NEW v \in Replies \ {"none"}, EndCommand(v), pc # "exited"
       PROVE  Service!Next
  BY <1>10, <1>o, ServiceAnswer DEF EndCommand
<1>11. CASE SendSucceeded
  BY <1>10, <1>11, ServiceStutter DEF SendSucceeded, Replies, Errors
<1>12. CASE SendFailed \/ ResponseReceived \/ ResponseMissed
  BY <1>10, <1>12 DEF SendFailed, ResponseReceived, ResponseMissed, Replies, Errors
<1>13. ASSUME NEW q \in Requests, NEW to, callStatus'[q] = to,
              \A r \in Requests : r # q => call'[r] = call[r] /\ reply'[r] = reply[r]
       PROVE  Service!Move({q}, to)
  <2>1. \A r \in Requests : callStatus'[r] = IF r \in {q} THEN to ELSE callStatus[r]
    BY <1>13 DEF callStatus
  <2> QED
    BY <2>1 DEF Service!Move, callStatus
<1>14. ASSUME NEW q \in Requests, Request(q) PROVE Service!Ask(q)
  <2>1. callStatus[q] = "idle" /\ callStatus'[q] = "asking"
    BY <1>14 DEF Request, callStatus, TypeOK
  <2>2. \A r \in Requests : r # q => call'[r] = call[r] /\ reply'[r] = reply[r]
    BY <1>14 DEF Request, TypeOK
  <2> QED
    BY <1>13, <1>14, <2>1, <2>2 DEF Request, Service!Ask
<1>15. ASSUME NEW q \in Requests, Enqueue(q) PROVE Service!Accept(q) \/ Service!Refuse(q)
  <2>1. callStatus[q] = "asking" /\ call'[q] = "sent" /\ reply[q] = "none"
    BY <1>15 DEF Enqueue, callStatus, TypeOK, OwnershipInv, QuietOneshot
  <2>2. \A r \in Requests : r # q => call'[r] = call[r] /\ reply'[r] = reply[r]
    BY <1>15 DEF Enqueue, TypeOK
  <2>3. CASE rxOpen
    <3>1. callStatus'[q] = "pending"
      BY <1>15, <2>1, <2>3 DEF Enqueue, callStatus
    <3> QED
      BY <1>13, <1>15, <2>1, <2>2, <2>3, <3>1 DEF Enqueue, Service!Accept
  <2>4. CASE ~rxOpen
    <3>1. callStatus'[q] = "answered"
      BY <1>15, <2>1, <2>4 DEF Enqueue, callStatus, TypeOK
    <3> QED
      BY <1>13, <1>15, <2>1, <2>2, <2>4, <3>1 DEF Enqueue, Service!Refuse
  <2> QED
    BY <2>3, <2>4
<1>16. ASSUME NEW q \in Requests, AwaitReply(q) \/ Return(q)
       PROVE  Service!Return(q) \/ Service!ReturnAtOnce(q) \/ UNCHANGED Service!vars
  <2>1. /\ callStatus[q] \in {"pending", "answered"}
        /\ \A r \in Requests : r # q => call'[r] = call[r] /\ reply'[r] = reply[r]
        /\ \/ callStatus'[q] = "idle"
           \/ callStatus'[q] = callStatus[q]
    BY <1>16 DEF AwaitReply, Return, callStatus, TypeOK
  <2>2. UNCHANGED rxOpen
    BY <1>16 DEF AwaitReply, Return
  <2>3. CASE callStatus'[q] = "idle"
    BY <1>13, <2>1, <2>2, <2>3 DEF Service!Return, Service!ReturnAtOnce
  <2>4. CASE callStatus'[q] = callStatus[q]
    <3>1. \A r \in Requests : callStatus'[r] = callStatus[r]
      BY <2>1, <2>4 DEF callStatus
    <3>2. callStatus' = callStatus
      BY <3>1 DEF callStatus
    <3> QED
      BY <2>2, <3>2 DEF Service!vars
  <2> QED
    BY <2>1, <2>3, <2>4
<1>17. CASE \E r \in Requests : Request(r) \/ Enqueue(r) \/ AwaitReply(r) \/ Return(r)
  BY <1>14, <1>15, <1>16, <1>17 DEF Service!Next
<1> QED
  BY <1>1, <1>2, <1>3, <1>4, <1>5, <1>6, <1>8, <1>9, <1>11, <1>12, <1>17
  DEF Next, TaskNext, ReaderNext, UserNext

\* A Device keeps the promise of RequestService, for any number of concurrent requests
\* and any channel capacity: what is accepted is answered once, by the live task or by
\* its end, and nothing is accepted afterwards.
THEOREM DeviceImplementsService == Spec => ImplementsService
<1>1. Init => Service!Init
  BY DEF Init, Service!Init, callStatus
<1>2. TypeOK /\ ConnectionInv /\ OwnershipInv /\ [Next]_vars => [Service!Next]_(Service!vars)
  BY ServiceStep
<1> QED
  BY <1>1, <1>2, TypeCorrect, ConnectionInvariant, OwnershipInvariant, PTL
  DEF Spec, ImplementsService, Service!Spec

(***************************************************************************)
(* The times of the backoff.                                               *)
(***************************************************************************)

\* The base is one of nine lengths, and doubles until it reaches the longest.
LEMMA BaseLengths ==
    ASSUME NEW failure_count \in Nat
    PROVE  /\ BaseSecs(failure_count) \in {16, 32, 64, 128, 256, 512, 1024, 2048, 4096}
           /\ BaseSecs(failure_count + 1) = IF failure_count < 8 THEN 2 * BaseSecs(failure_count) ELSE 4096
           /\ failure_count >= 8 => BaseSecs(failure_count) = 4096
<1> DEFINE e == IF failure_count < 10 THEN failure_count ELSE 10
           f == IF failure_count + 1 < 10 THEN failure_count + 1 ELSE 10
<1>1. e \in 0..10 /\ f = (IF e < 10 THEN e + 1 ELSE 10)
      /\ (failure_count < 8) = (e < 8) /\ (failure_count >= 8) = (e >= 8)
  OBVIOUS
<1>2. Power(failure_count) = Powers[e + 1] /\ Power(failure_count + 1) = Powers[f + 1]
  BY DEF Power
<1> HIDE DEF e, f
<1>3. e \in {0, 1, 2, 3, 4, 5, 6, 7, 8, 9, 10}
  BY <1>1
<1>4. CASE e \in {0, 1, 2, 3}
  BY <1>1, <1>2, <1>4 DEF Powers, BaseSecs, SLEEP_RECONNECT_MIN, SLEEP_RECONNECT_MAX
<1>5. CASE e \in {4, 5, 6, 7}
  BY <1>1, <1>2, <1>5 DEF Powers, BaseSecs, SLEEP_RECONNECT_MIN, SLEEP_RECONNECT_MAX
<1>6. CASE e \in {8, 9, 10}
  BY <1>1, <1>2, <1>6 DEF Powers, BaseSecs, SLEEP_RECONNECT_MIN, SLEEP_RECONNECT_MAX
<1> QED
  BY <1>3, <1>4, <1>5, <1>6

\* The time drawn is at least seven tenths of the base and less than the base.
LEMMA WithinBase ==
    ASSUME NEW failure_count \in Nat, NEW random \in Draws
    PROVE  /\ 700 * BaseSecs(failure_count) <= get_backoff_duration(failure_count, random)
           /\ get_backoff_duration(failure_count, random) < 1000 * BaseSecs(failure_count)
<1> DEFINE base == BaseSecs(failure_count)
<1>1. base \in {16, 32, 64, 128, 256, 512, 1024, 2048, 4096}
  BY BaseLengths
<1> HIDE DEF base
<1>2. FixedMs(base) = 700 * base
  BY <1>1 DEF FixedMs
<1>3. random % (base * 1000 - FixedMs(base)) \in 0..(300 * base - 1)
  <2>1. base * 1000 - FixedMs(base) = 300 * base /\ 300 * base \in Nat \ {0}
    BY <1>1, <1>2
  <2> QED
    BY <1>1, <2>1 DEF Draws
<1>4. get_backoff_duration(failure_count, random) = FixedMs(base) + (random % (base * 1000 - FixedMs(base)))
  BY DEF get_backoff_duration, base
<1> QED
  BY <1>1, <1>2, <1>3, <1>4 DEF base

\* Whatever is drawn, a device waits between 11.2 seconds and 68 minutes 16 seconds:
\* neither a hot loop nor a wait for ever, after any number of failures.
THEOREM BackoffBounded ==
    \A failure_count \in Nat, random \in Draws :
        /\ 11200 <= get_backoff_duration(failure_count, random)
        /\ get_backoff_duration(failure_count, random) < 4096 * 1000
<1> TAKE failure_count \in Nat, random \in Draws
<1>1. 16 <= BaseSecs(failure_count) /\ BaseSecs(failure_count) <= 4096 /\ BaseSecs(failure_count) \in Int
  BY BaseLengths
<1>2. get_backoff_duration(failure_count, random) \in Int
  <2>1. BaseSecs(failure_count) \in {16, 32, 64, 128, 256, 512, 1024, 2048, 4096}
    BY BaseLengths
  <2> QED
    BY <2>1 DEF get_backoff_duration, FixedMs, Draws
<1> QED
  BY <1>1, <1>2, WithinBase

\* Until the longest wait is reached, the jitter never makes a wait as short as the
\* one after a failure less: 30 percent is less than the doubling.
THEOREM BackoffGrows ==
    \A failure_count \in 0..7, earlier, later \in Draws :
        get_backoff_duration(failure_count, earlier) < get_backoff_duration(failure_count + 1, later)
<1> TAKE failure_count \in 0..7, earlier, later \in Draws
<1>1. failure_count \in Nat /\ failure_count + 1 \in Nat
  OBVIOUS
<1>2. /\ BaseSecs(failure_count) \in {16, 32, 64, 128, 256, 512, 1024, 2048, 4096}
      /\ BaseSecs(failure_count + 1) = 2 * BaseSecs(failure_count)
  BY <1>1, BaseLengths
<1>3. /\ get_backoff_duration(failure_count, earlier) \in Int
      /\ get_backoff_duration(failure_count + 1, later) \in Int
  BY <1>2 DEF get_backoff_duration, FixedMs, Draws
<1> QED
  BY <1>1, <1>2, <1>3, WithinBase

\* No intermediate product leaves the 64 bits of the code.
THEOREM BackoffFits ==
    \A failure_count \in Nat : BaseSecs(failure_count) * 1000 * 70 < 4294967296
BY BaseLengths

=============================================================================
