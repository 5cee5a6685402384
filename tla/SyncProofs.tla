----------------------------- MODULE SyncProofs -----------------------------
(***************************************************************************)
(* Proofs about blocking calls, for any threads, channel capacity and      *)
(* number of calls.                                                        *)
(***************************************************************************)
EXTENDS SyncCalls, TLAPS

InQueue(t, n) == \E i \in 1..Len(queue) : queue[i] = [caller |-> t, call |-> n]

\* Commands of a thread wait in the order of its calls, after those it has run, and
\* a call on its way into the channel comes after all of them.
OrderInv ==
    /\ \A i \in 1..Len(queue) :
           /\ last[queue[i].caller] < queue[i].call
           /\ queue[i].call <= made[queue[i].caller]
           /\ pc[queue[i].caller] = "send" => queue[i].call < made[queue[i].caller]
    /\ \A i, j \in 1..Len(queue) :
           i < j /\ queue[i].caller = queue[j].caller => queue[i].call < queue[j].call
    /\ \A t \in Threads :
           /\ last[t] <= made[t]
           /\ pc[t] = "send" => last[t] < made[t]

\* A call in progress borrows a handle, and is owed its own answer or has it.
CallInv ==
    /\ \A t \in Threads : pc[t] # "idle" => t \in handles
    /\ \A t \in Threads : pc[t] = "wait" => made[t] > 0
    /\ \A t \in Threads : pc[t] = "send" => reply[t] = 0
    /\ worker = "ended" => handles = {}
    /\ OwnAnswer
    /\ \A t \in Threads : pc[t] = "wait" /\ reply[t] = 0 => Owed(t)

SyncInv == TypeOK /\ OrderInv /\ CallInv

\* What a step of the channel does to its commands.
LEMMA AppendKeeps ==
    ASSUME NEW S, NEW s \in Seq(S), NEW x \in S
    PROVE  /\ Append(s, x) \in Seq(S) /\ Len(Append(s, x)) = Len(s) + 1
           /\ \A i \in 1..Len(s) : Append(s, x)[i] = s[i]
           /\ Append(s, x)[Len(s) + 1] = x
  OBVIOUS

\* Taking the first command leaves the others in their order.
LEMMA TailKeeps ==
    ASSUME NEW S, NEW s \in Seq(S), s # <<>>
    PROVE  /\ Tail(s) \in Seq(S) /\ Len(Tail(s)) = Len(s) - 1 /\ Len(s) \in Nat \ {0}
           /\ \A i \in 1..Len(Tail(s)) : Tail(s)[i] = s[i + 1]
           /\ Head(s) = s[1] /\ Head(s) \in S
  OBVIOUS

\* Commands in the channel are of threads and have numbers.
LEMMA QueueTypes ==
    ASSUME TypeOK
    PROVE  /\ Len(queue) \in Nat
           /\ \A i \in 1..Len(queue) : queue[i].caller \in Threads /\ queue[i].call \in Nat
  <1>1. Len(queue) \in Nat /\ \A i \in 1..Len(queue) : queue[i] \in Commands
    BY DEF TypeOK
  <1>2. \A c \in Commands : c.caller \in Threads /\ c.call \in Nat
    BY DEF Commands
  <1> QED
    BY <1>1, <1>2

\* The initial state satisfies the invariant.
LEMMA SyncInit == Init => SyncInv
  <1> SUFFICES ASSUME Init PROVE SyncInv
    OBVIOUS
  <1> USE SyncAssumption DEF Init
  <1>1. TypeOK
    <2>1. Main \in Threads
      OBVIOUS
    <2>2. current \in Commands
      BY <2>1 DEF Commands
    <2>3. queue \in Seq(Commands) /\ Len(queue) <= QueueCap
      OBVIOUS
    <2>4. gil \in BOOLEAN /\ logs \in BOOLEAN
      OBVIOUS
    <2> QED
      BY <2>2, <2>3, <2>4 DEF TypeOK
  <1>2. OrderInv
    BY DEF OrderInv
  <1>3. CallInv
    BY DEF CallInv, OwnAnswer
  <1> QED
    BY <1>1, <1>2, <1>3 DEF SyncInv

\* A new call gets the next number, and has no answer yet.
LEMMA CallStep == ASSUME SyncInv, NEW t \in Threads, Call(t) PROVE SyncInv'
  <1> USE DEF SyncInv, TypeOK
  <1>1. TypeOK'
    BY DEF Call
  <1>2. OrderInv'
    <2>1. UNCHANGED <<queue, last>>
      BY DEF Call
    <2>2. \A u \in Threads : u # t => made'[u] = made[u] /\ pc'[u] = pc[u]
      BY DEF Call
    <2>t. made[t] \in Nat /\ last[t] \in Nat /\ made'[t] = made[t] + 1
      BY DEF Call
    <2>3. ASSUME NEW i \in 1..Len(queue)
          PROVE  /\ last[queue[i].caller] < queue[i].call
                 /\ queue[i].call <= made'[queue[i].caller]
                 /\ pc'[queue[i].caller] = "send" => queue[i].call < made'[queue[i].caller]
      <3>1. queue[i].caller \in Threads /\ queue[i].call \in Nat
        BY QueueTypes
      <3>2. /\ last[queue[i].caller] < queue[i].call
            /\ queue[i].call <= made[queue[i].caller]
            /\ pc[queue[i].caller] = "send" => queue[i].call < made[queue[i].caller]
        BY DEF OrderInv
      <3>3. CASE queue[i].caller = t
        BY <2>t, <3>1, <3>2, <3>3
      <3>4. CASE queue[i].caller # t
        BY <2>2, <3>1, <3>2, <3>4
      <3> QED
        BY <3>3, <3>4
    <2>4. ASSUME NEW u \in Threads
          PROVE  last[u] <= made'[u] /\ (pc'[u] = "send" => last[u] < made'[u])
      <3>1. last[u] <= made[u] /\ (pc[u] = "send" => last[u] < made[u])
        BY DEF OrderInv
      <3>2. CASE u = t
        BY <2>t, <3>1, <3>2
      <3>3. CASE u # t
        BY <2>2, <3>1, <3>3
      <3> QED
        BY <3>2, <3>3
    <2> QED
      BY <2>1, <2>3, <2>4 DEF OrderInv
  <1>3. CallInv'
    BY DEF Call, CallInv, OwnAnswer, Owed, Command
  <1> QED
    BY <1>1, <1>2, <1>3

\* A command that enters the channel is the last one, and is owed an answer.
LEMMA EnqueueStep == ASSUME SyncInv, NEW t \in Threads, Enqueue(t) PROVE SyncInv'
  <1> DEFINE c == [caller |-> t, call |-> made[t]]
  <1> USE DEF SyncInv
  <1>1. c \in Commands /\ c.caller = t /\ c.call = made[t] /\ queue \in Seq(Commands) /\ Len(queue) \in Nat
    BY DEF TypeOK, Commands
  <1>2. pc[t] = "send" /\ Len(queue) # QueueCap /\ queue' = Append(queue, c)
    BY DEF Enqueue, Enter, Full, Command
  <1>3. /\ pc' = [pc EXCEPT ![t] = "wait"] /\ gil' = (gil /\ t \notin Python)
        /\ UNCHANGED <<made, reply, handles, worker, current, last, logs>>
    BY DEF Enqueue, Enter
  <1> HIDE DEF c
  <1>4. /\ queue' \in Seq(Commands) /\ Len(queue') = Len(queue) + 1
        /\ \A i \in 1..Len(queue) : queue'[i] = queue[i]
        /\ queue'[Len(queue) + 1] = c
    BY <1>1, <1>2, AppendKeeps
  <1>5. TypeOK'
    BY <1>1, <1>2, <1>3, <1>4, SyncAssumption DEF TypeOK
  <1>6. OrderInv'
    <2>1. last[t] < made[t] /\ \A u \in Threads : last[u] \in Nat /\ made[u] \in Nat
      BY <1>2 DEF OrderInv, TypeOK
    <2>2. \A u \in Threads : pc'[u] = "send" => pc[u] = "send" /\ u # t
      BY <1>3 DEF TypeOK
    <2>3. \A i \in 1..Len(queue) : queue[i].caller = t => queue[i].call < made[t]
      BY <1>2 DEF OrderInv
    <2>4. \A i \in 1..Len(queue') : i \in 1..Len(queue) \/ i = Len(queue) + 1
      BY <1>1, <1>4
    <2>5. ASSUME NEW i \in 1..Len(queue')
          PROVE  /\ last[queue'[i].caller] < queue'[i].call
                 /\ queue'[i].call <= made[queue'[i].caller]
                 /\ pc'[queue'[i].caller] = "send" => queue'[i].call < made[queue'[i].caller]
      <3>1. CASE i \in 1..Len(queue)
        <4>1. queue'[i] = queue[i] /\ queue[i].caller \in Threads
          BY <1>1, <1>4, <3>1, QueueTypes
        <4> QED
          BY <2>2, <3>1, <4>1 DEF OrderInv
      <3>2. CASE i = Len(queue) + 1
        BY <1>1, <1>4, <2>1, <2>2, <3>2
      <3> QED
        BY <2>4, <3>1, <3>2
    <2>6. \A i, j \in 1..Len(queue') :
              i < j /\ queue'[i].caller = queue'[j].caller => queue'[i].call < queue'[j].call
      BY <1>1, <1>4, <2>3, <2>4, QueueTypes DEF OrderInv
    <2> QED
      BY <1>3, <2>2, <2>5, <2>6 DEF OrderInv
  <1>7. CallInv'
    <2>1. last[t] < made[t] /\ last[t] \in Nat /\ made[t] \in Nat /\ reply[t] = 0
      BY <1>2 DEF OrderInv, CallInv, TypeOK
    <2>2. \A u \in Threads : Owed(u) => Owed(u)'
      BY <1>1, <1>3, <1>4 DEF Owed, Command
    <2>3. Owed(t)'
      <3>1. Command(t)' = c
        BY <1>3 DEF Command, c
      <3> QED
        BY <1>1, <1>4, <3>1 DEF Owed
    <2>4. \A u \in Threads : u # t => pc'[u] = pc[u]
      BY <1>3 DEF TypeOK
    <2>5. pc'[t] = "wait"
      BY <1>3 DEF TypeOK
    <2>6. (\A u \in Threads : pc[u] = "wait" /\ reply[u] = 0 => Owed(u))'
      BY <1>3, <2>2, <2>3, <2>4 DEF CallInv
    <2>7. OwnAnswer'
      BY <1>3, <2>1, <2>4 DEF CallInv, OwnAnswer
    <2> QED
      BY <1>2, <1>3, <2>1, <2>4, <2>5, <2>6, <2>7 DEF CallInv
  <1> QED
    BY <1>5, <1>6, <1>7

\* Returning and being interrupted change nothing but the caller.
LEMMA LeaveStep == ASSUME SyncInv, NEW t \in Threads, Leave(t) PROVE SyncInv'
  <1> USE DEF SyncInv, TypeOK
  <1>1. TypeOK'
    BY DEF Leave
  <1>2. OrderInv'
    BY QueueTypes DEF Leave, OrderInv
  <1>3. CallInv'
    BY DEF Leave, CallInv, OwnAnswer, Owed, Command
  <1> QED
    BY <1>1, <1>2, <1>3

\* A thread between calls gives its handle up.
LEMMA DropHandleStep == ASSUME SyncInv, NEW t \in Threads, DropHandle(t) PROVE SyncInv'
  <1> USE DEF SyncInv, TypeOK
  <1>1. TypeOK'
    BY DEF DropHandle
  <1>2. OrderInv'
    BY QueueTypes DEF DropHandle, OrderInv
  <1>3. CallInv'
    BY DEF DropHandle, CallInv, OwnAnswer, Owed, Command
  <1> QED
    BY <1>1, <1>2, <1>3

\* The worker takes the oldest command, which is the next one of its thread.
LEMMA TakeStep ==
    ASSUME SyncInv, WorkerTakes
    PROVE  SyncInv' /\ current'.call > last[current'.caller]
  <1> USE DEF SyncInv
  <1>1. /\ queue' \in Seq(Commands) /\ Len(queue') = Len(queue) - 1 /\ Len(queue) \in Nat \ {0}
        /\ \A i \in 1..Len(queue') : queue'[i] = queue[i + 1]
        /\ current' = queue[1] /\ queue[1] \in Commands
    BY TailKeeps DEF WorkerTakes, TypeOK
  <1>2. /\ queue[1].caller \in Threads /\ queue[1].call \in Nat
        /\ last' = [last EXCEPT ![queue[1].caller] = queue[1].call]
    <2>1. queue[1].caller \in Threads /\ queue[1].call \in Nat
      BY <1>1, QueueTypes
    <2>2. current' = Head(queue) /\ last' = [last EXCEPT ![Head(queue).caller] = Head(queue).call]
      BY DEF WorkerTakes
    <2> QED
      BY <1>1, <2>1, <2>2
  <1>3. worker = "idle" /\ worker' = "busy" /\ UNCHANGED <<pc, made, reply, handles, gil, logs>>
    BY DEF WorkerTakes
  <1>4. TypeOK'
    <2>1. last' \in [Threads -> Nat]
      BY <1>2 DEF TypeOK
    <2>2. Len(queue') <= QueueCap
      BY <1>1, SyncAssumption DEF TypeOK
    <2> QED
      BY <1>1, <1>3, <2>1, <2>2 DEF TypeOK
  <1>5. OrderInv'
    <2>1. \A i \in 1..Len(queue') : i + 1 \in 1..Len(queue) /\ queue'[i] = queue[i + 1]
      BY <1>1
    <2>2. \A u \in Threads : last[u] \in Nat /\ made[u] \in Nat
      BY DEF TypeOK
    <2>3. /\ \A u \in Threads : last'[u] = IF u = queue[1].caller THEN queue[1].call ELSE last[u]
          /\ 1 \in 1..Len(queue)
      BY <1>1, <1>2 DEF TypeOK
    <2>4. \A i \in 1..Len(queue') :
              /\ last'[queue'[i].caller] < queue'[i].call
              /\ queue'[i].call <= made[queue'[i].caller]
              /\ pc[queue'[i].caller] = "send" => queue'[i].call < made[queue'[i].caller]
      <3> SUFFICES ASSUME NEW i \in 1..Len(queue')
                   PROVE  /\ last'[queue[i + 1].caller] < queue[i + 1].call
                          /\ queue[i + 1].call <= made[queue[i + 1].caller]
                          /\ pc[queue[i + 1].caller] = "send" => queue[i + 1].call < made[queue[i + 1].caller]
        BY <2>1
      <3>1. i + 1 \in 1..Len(queue) /\ 1 < i + 1 /\ queue[i + 1].caller \in Threads
        BY <1>1, <2>1, QueueTypes
      <3>2. queue[1].caller = queue[i + 1].caller => queue[1].call < queue[i + 1].call
        BY <2>3, <3>1 DEF OrderInv
      <3> QED
        BY <2>3, <3>1, <3>2 DEF OrderInv
    <2>5. \A i, j \in 1..Len(queue') :
              i < j /\ queue'[i].caller = queue'[j].caller => queue'[i].call < queue'[j].call
      <3> SUFFICES ASSUME NEW i \in 1..Len(queue'), NEW j \in 1..Len(queue'), i < j,
                          queue[i + 1].caller = queue[j + 1].caller
                   PROVE  queue[i + 1].call < queue[j + 1].call
        BY <2>1
      <3>1. i + 1 \in 1..Len(queue) /\ j + 1 \in 1..Len(queue) /\ i + 1 < j + 1
        BY <1>1
      <3> QED
        BY <3>1 DEF OrderInv
    <2>6. \A u \in Threads : last'[u] <= made[u] /\ (pc[u] = "send" => last'[u] < made[u])
      BY <2>3 DEF OrderInv
    <2> QED
      BY <1>3, <2>4, <2>5, <2>6 DEF OrderInv
  <1>6. CallInv'
    <2>1. ASSUME NEW u \in Threads, Owed(u) PROVE Owed(u)'
      <3>1. PICK i \in 1..Len(queue) : queue[i] = Command(u)
        BY <1>3, <2>1 DEF Owed
      <3>2. CASE i = 1
        BY <1>1, <1>3, <3>1, <3>2 DEF Owed, Command
      <3>3. CASE i # 1
        <4>1. i - 1 \in 1..Len(queue') /\ queue'[i - 1] = queue[i]
          BY <1>1, <3>3
        <4> QED
          BY <1>3, <3>1, <4>1 DEF Owed, Command
      <3> QED
        BY <3>2, <3>3
    <2> QED
      BY <1>3, <2>1 DEF CallInv, OwnAnswer
  <1>7. current'.call > last[current'.caller]
    BY <1>1, <1>2 DEF OrderInv, TypeOK
  <1> QED
    BY <1>4, <1>5, <1>6, <1>7

\* The answer of a command reaches the call it was made for, if that still waits.
LEMMA FinishStep == ASSUME SyncInv, WorkerFinishes PROVE SyncInv'
  <1> USE DEF SyncInv
  <1>1. current.caller \in Threads /\ current.call \in Nat
    BY DEF TypeOK, Commands
  <1>2. TypeOK'
    BY <1>1 DEF WorkerFinishes, TypeOK
  <1>3. OrderInv'
    BY QueueTypes DEF WorkerFinishes, OrderInv
  <1>4. CallInv'
    <2>1. \A u \in Threads :
              reply'[u] = IF u = current.caller /\ pc[u] = "wait" /\ made[u] = current.call
                          THEN made[u] ELSE reply[u]
      BY <1>1 DEF WorkerFinishes, TypeOK
    <2>2. ASSUME NEW u \in Threads, pc[u] = "wait", reply'[u] = 0 PROVE Owed(u)'
      <3>1. made[u] > 0 /\ made[u] \in Nat
        BY <2>2 DEF CallInv, TypeOK
      <3>2. reply[u] = 0 /\ ~(u = current.caller /\ made[u] = current.call)
        BY <2>1, <2>2, <3>1
      <3>3. current # Command(u)
        BY <3>2 DEF Command
      <3>4. \E i \in 1..Len(queue) : queue[i] = Command(u)
        BY <2>2, <3>2, <3>3 DEF CallInv, Owed
      <3> QED
        BY <3>4 DEF WorkerFinishes, Owed, Command
    <2>3. OwnAnswer'
      BY <2>1 DEF CallInv, OwnAnswer, WorkerFinishes
    <2>4. \A u \in Threads : pc[u] = "send" => reply'[u] = 0
      BY <2>1 DEF CallInv
    <2>5. worker' # "ended" /\ UNCHANGED <<pc, made, handles>>
      BY DEF WorkerFinishes
    <2> QED
      BY <2>2, <2>3, <2>4, <2>5 DEF CallInv
  <1> QED
    BY <1>2, <1>3, <1>4

\* The worker ends with nobody waiting.
LEMMA EndStep == ASSUME SyncInv, WorkerEnds PROVE SyncInv'
  <1> USE DEF SyncInv, TypeOK
  <1>1. TypeOK'
    BY DEF WorkerEnds
  <1>2. OrderInv'
    BY DEF WorkerEnds, OrderInv
  <1>3. CallInv'
    BY DEF WorkerEnds, CallInv, OwnAnswer
  <1> QED
    BY <1>1, <1>2, <1>3

\* Every step keeps the invariant.
LEMMA SyncStep == SyncInv /\ [Next]_vars => SyncInv'
  <1> SUFFICES ASSUME SyncInv, [Next]_vars PROVE SyncInv'
    OBVIOUS
  <1>1. ASSUME NEW t \in Threads, Call(t) \/ Enqueue(t) \/ Return(t) \/ DropHandle(t)
        PROVE  SyncInv'
    BY <1>1, CallStep, EnqueueStep, LeaveStep, DropHandleStep DEF Return
  <1>2. CASE Interrupt
    BY <1>2, LeaveStep, SyncAssumption DEF Interrupt
  <1>3. CASE WorkerTakes \/ WorkerFinishes \/ WorkerEnds
    BY <1>3, TakeStep, FinishStep, EndStep
  <1>4. CASE UNCHANGED vars
    BY <1>4 DEF vars, SyncInv, TypeOK, OrderInv, CallInv, OwnAnswer, Owed, Command
  <1> QED
    BY <1>1, <1>2, <1>3, <1>4 DEF Next

\* The inductive invariant: commands are in order, and calls are owed their answers.
THEOREM SyncInvariant == Spec => []SyncInv
  BY SyncInit, SyncStep, PTL DEF Spec

\* The command channel never exceeds its capacity and every variable keeps its type.
THEOREM SyncTypes == Spec => []TypeOK
  <1>1. SyncInv => TypeOK
    BY DEF SyncInv
  <1> QED
    BY <1>1, SyncInvariant, PTL

\* A call receives its own answer, however calls of its thread were interrupted before.
THEOREM AnswersOwn == Spec => []OwnAnswer
  <1>1. SyncInv => OwnAnswer
    BY DEF SyncInv, CallInv
  <1> QED
    BY <1>1, SyncInvariant, PTL

\* A call that waits is owed an answer by a live worker.
THEOREM NobodyIsForgotten == Spec => []NobodyForgotten
  <1>1. SyncInv => NobodyForgotten
    BY DEF SyncInv, CallInv, NobodyForgotten
  <1> QED
    BY <1>1, SyncInvariant, PTL

\* The worker runs the commands of a thread once each, in the order of its calls.
THEOREM CommandsInOrder == Spec => RunsInOrder
  <1>1. SyncInv /\ [Next]_vars =>
            [worker = "idle" /\ worker' = "busy" => current'.call > last[current'.caller]]_vars
    <2> SUFFICES ASSUME SyncInv, Next, worker = "idle", worker' = "busy"
                 PROVE  current'.call > last[current'.caller]
      BY DEF vars
    <2>1. WorkerTakes
      BY DEF Next, Call, Enqueue, Enter, Return, Leave, DropHandle, Interrupt, WorkerFinishes, WorkerEnds
    <2> QED
      BY <2>1, TakeStep
  <1> QED
    BY <1>1, SyncInvariant, PTL DEF Spec, RunsInOrder

\* A step of one caller is a move of this caller in the service.
LEMMA OneCallerMoves ==
    ASSUME NEW t \in Threads, NEW to, callStatus'[t] = to,
           \A u \in Threads : u # t => pc'[u] = pc[u] /\ reply'[u] = reply[u]
    PROVE  Service!Move({t}, to)
  <1>1. \A u \in Threads : callStatus'[u] = IF u \in {t} THEN to ELSE callStatus[u]
    BY DEF callStatus
  <1> QED
    BY <1>1 DEF Service!Move, callStatus

\* Every step of callers and worker is a step of the service or invisible.
LEMMA SyncServiceStep ==
    ASSUME SyncInv, [Next]_vars
    PROVE  [Service!Next]_(Service!vars)
  <1> USE DEF SyncInv
  <1>0. ASSUME UNCHANGED <<pc, reply, accepting>> PROVE UNCHANGED Service!vars
    BY <1>0 DEF Service!vars, callStatus
  <1>1. ASSUME NEW t \in Threads, Call(t) PROVE Service!Ask(t)
    <2>1. /\ callStatus[t] = "idle" /\ callStatus'[t] = "asking" /\ UNCHANGED accepting
          /\ \A u \in Threads : u # t => pc'[u] = pc[u] /\ reply'[u] = reply[u]
      BY <1>1 DEF Call, callStatus, TypeOK, accepting
    <2> QED
      BY <2>1, OneCallerMoves DEF Service!Ask
  <1>2. ASSUME NEW t \in Threads, Enqueue(t) PROVE Service!Accept(t)
    <2>1. /\ callStatus[t] = "asking" /\ callStatus'[t] = "pending" /\ UNCHANGED accepting
          /\ \A u \in Threads : u # t => pc'[u] = pc[u] /\ reply'[u] = reply[u]
      BY <1>2 DEF Enqueue, Enter, callStatus, TypeOK, CallInv, accepting
    <2>2. accepting
      BY <1>2 DEF Enqueue, CallInv, accepting
    <2> QED
      BY <2>1, <2>2, OneCallerMoves DEF Service!Accept
  <1>3. ASSUME NEW t \in Threads, pc[t] = "wait", Leave(t)
        PROVE  Service!Return(t) \/ Service!ReturnAtOnce(t)
    <2>1. /\ callStatus[t] \in {"pending", "answered"} /\ callStatus'[t] = "idle" /\ UNCHANGED accepting
          /\ \A u \in Threads : u # t => pc'[u] = pc[u] /\ reply'[u] = reply[u]
      BY <1>3 DEF Leave, callStatus, TypeOK, accepting
    <2> QED
      BY <2>1, OneCallerMoves DEF Service!Return, Service!ReturnAtOnce
  <1>4. CASE WorkerFinishes
    <2>1. accepting /\ UNCHANGED <<accepting, pc>> /\ current.caller \in Threads
      BY <1>4 DEF WorkerFinishes, accepting, TypeOK, Commands
    <2>2. CASE pc[current.caller] = "wait" /\ made[current.caller] = current.call /\ reply[current.caller] = 0
      <3>1. /\ callStatus[current.caller] = "pending" /\ callStatus'[current.caller] = "answered"
            /\ \A u \in Threads : u # current.caller => pc'[u] = pc[u] /\ reply'[u] = reply[u]
        BY <1>4, <2>1, <2>2 DEF WorkerFinishes, callStatus, TypeOK, CallInv
      <3>2. {current.caller} \subseteq Service!Pending /\ {current.caller} \in SUBSET Threads
        BY <2>1, <3>1 DEF Service!Pending
      <3>3. Service!Move({current.caller}, "answered")
        BY <2>1, <3>1, OneCallerMoves
      <3> QED
        BY <2>1, <3>2, <3>3 DEF Service!Answer, Service!Next
    <2>3. CASE ~(pc[current.caller] = "wait" /\ made[current.caller] = current.call /\ reply[current.caller] = 0)
      <3>1. \A u \in Threads : reply'[u] = reply[u]
        BY <1>4, <2>1, <2>3 DEF WorkerFinishes, TypeOK, CallInv, OwnAnswer
      <3>2. reply' = reply
        BY <1>4, <3>1 DEF WorkerFinishes, TypeOK
      <3> QED
        BY <1>0, <2>1, <3>2
    <2> QED
      BY <2>2, <2>3
  <1>5. CASE WorkerEnds
    <2>1. accepting /\ ~accepting' /\ UNCHANGED <<pc, reply>> /\ \A t \in Threads : pc[t] = "idle"
      BY <1>5 DEF WorkerEnds, accepting, CallInv
    <2>2. Service!Pending = {} /\ UNCHANGED callStatus
      BY <2>1 DEF Service!Pending, callStatus
    <2>3. Service!Move(Service!Pending, "answered")
      BY <2>2 DEF Service!Move, callStatus
    <2> QED
      BY <2>1, <2>3 DEF Service!Shutdown, Service!Next
  <1>6. CASE WorkerTakes \/ UNCHANGED vars \/ \E t \in Threads : DropHandle(t)
    BY <1>0, <1>6 DEF WorkerTakes, DropHandle, vars, accepting
  <1>7. CASE \E t \in Threads : Call(t) \/ Enqueue(t) \/ Return(t)
    BY <1>1, <1>2, <1>3, <1>7 DEF Return, Service!Next
  <1>8. CASE Interrupt
    BY <1>3, <1>8, SyncAssumption DEF Interrupt, Service!Next
  <1> QED
    BY <1>4, <1>5, <1>6, <1>7, <1>8 DEF Next

\* The blocking wrapper keeps the promise of RequestService that the async device keeps.
THEOREM WorkerImplementsService == Spec => ImplementsService
  <1>1. Init => Service!Init
    BY DEF Init, Service!Init, callStatus, accepting
  <1>2. SyncInv /\ [Next]_vars => [Service!Next]_(Service!vars)
    BY SyncServiceStep
  <1> QED
    BY <1>1, <1>2, SyncInvariant, PTL DEF Spec, ImplementsService, Service!Spec

=============================================================================
