----------------------------- MODULE SyncCalls -----------------------------
(***************************************************************************)
(* Blocking calls (src/sync.rs): threads put commands into a bounded       *)
(* channel, one worker task runs them on the async object, and the answer  *)
(* comes back through a channel of the call's own. Device, SubDevice and   *)
(* Scanner each have such a worker. Calls from Python (python/src/lib.rs)  *)
(* hold the interpreter lock, the GIL, until the command is in the channel *)
(* and can be interrupted while they wait. What a command does is the      *)
(* subject of DeviceTask and Scanner; here it takes a while and ends.      *)
(* Calls whose arguments cannot be converted return before all this.       *)
(***************************************************************************)
EXTENDS Integers, Sequences

CONSTANTS
    Threads,
    Python,     \* the threads of the Python interpreter
    Main,       \* the one of them that receives signals
    QueueCap,   \* slots of the command channel (32)
    MaxCalls    \* calls each thread makes

ASSUME SyncAssumption ==
    /\ Python \subseteq Threads /\ Main \in Python
    /\ QueueCap \in Nat \ {0} /\ MaxCalls \in Nat

VARIABLES
    pc,       \* each thread: idle, send (on its way into the channel) or wait
    made,     \* calls each thread has made, the current one included
    reply,    \* the call whose answer is in the channel of the current call, or 0
    handles,  \* threads that own a handle of the object
    queue,    \* commands in the channel
    worker,   \* idle, busy or ended
    current,  \* the command the worker runs, or ran last
    last,     \* the last call of each thread that the worker has begun to run
    gil,      \* TRUE: a Python thread in the bindings holds the lock
    logs      \* log records are passed to Python, which takes the lock

vars == <<pc, made, reply, handles, queue, worker, current, last, gil, logs>>

Commands == [caller : Threads, call : Nat]

Init ==
    /\ pc = [t \in Threads |-> "idle"]
    /\ made = [t \in Threads |-> 0]
    /\ reply = [t \in Threads |-> 0]
    /\ handles = Threads
    /\ queue = <<>>
    /\ worker = "idle" /\ current = [caller |-> Main, call |-> 0]
    /\ last = [t \in Threads |-> 0]
    /\ gil = FALSE /\ logs \in BOOLEAN

(***************************************************************************)
(* The callers                                                             *)
(***************************************************************************)

\* send_sync, interruptible_call. The caller borrows its handle until it returns.
Call(t) ==
    /\ pc[t] = "idle" /\ t \in handles /\ made[t] < MaxCalls
    /\ t \in Python => ~gil
    /\ pc' = [pc EXCEPT ![t] = "send"]
    /\ made' = [made EXCEPT ![t] = @ + 1]
    /\ reply' = [reply EXCEPT ![t] = 0]
    /\ gil' = (gil \/ t \in Python)
    /\ UNCHANGED <<handles, queue, worker, current, last, logs>>

Full == Len(queue) = QueueCap

Command(t) == [caller |-> t, call |-> made[t]]

Enter(t, commands) ==
    /\ pc' = [pc EXCEPT ![t] = "wait"]
    /\ queue' = commands
    /\ gil' = (gil /\ t \notin Python)
    /\ UNCHANGED <<made, reply, handles, worker, current, last, logs>>

\* Mutant: the channel is a stack.
EnqueueFirst(t) == pc[t] = "send" /\ ~Full /\ Enter(t, <<Command(t)>> \o queue)

\* Mutant: a full channel is an answer.
EnqueueOrGiveUp(t) ==
    /\ pc[t] = "send"
    /\ IF ~Full THEN Enter(t, Append(queue, Command(t)))
       ELSE /\ pc' = [pc EXCEPT ![t] = "idle"]
            /\ gil' = (gil /\ t \notin Python)
            /\ UNCHANGED <<made, reply, handles, queue, worker, current, last, logs>>

\* blocking_send, after which a Python thread releases the lock
Enqueue(t) == pc[t] = "send" /\ ~Full /\ Enter(t, Append(queue, Command(t)))

Leave(t) ==
    /\ pc' = [pc EXCEPT ![t] = "idle"]
    /\ UNCHANGED <<made, reply, handles, queue, worker, current, last, gil, logs>>

Return(t) == pc[t] = "wait" /\ reply[t] # 0 /\ (t \in Python => ~gil) /\ Leave(t)

\* recv_with_signals: a signal ends the wait and the command stays where it is.
Interrupt == pc[Main] = "wait" /\ ~gil /\ Leave(Main)

DropHandle(t) ==
    /\ pc[t] = "idle" /\ t \in handles
    /\ handles' = handles \ {t}
    /\ UNCHANGED <<pc, made, reply, queue, worker, current, last, gil, logs>>

(***************************************************************************)
(* The worker                                                              *)
(***************************************************************************)

WorkerTakes ==
    /\ worker = "idle" /\ queue # <<>>
    /\ worker' = "busy" /\ current' = Head(queue) /\ queue' = Tail(queue)
    /\ last' = [last EXCEPT ![Head(queue).caller] = Head(queue).call]
    /\ UNCHANGED <<pc, made, reply, handles, gil, logs>>

\* Mutant: answers go to the thread and not to the call.
FinishToCaller ==
    /\ worker = "busy" /\ (logs => ~gil)
    /\ worker' = "idle"
    /\ reply' = [reply EXCEPT ![current.caller] =
                     IF pc[current.caller] = "wait" THEN current.call ELSE @]
    /\ UNCHANGED <<pc, made, handles, queue, current, last, gil, logs>>

\* Mutant: only a success is answered.
FinishUnlessFailed ==
    /\ worker = "busy" /\ (logs => ~gil)
    /\ worker' = "idle"
    /\ \E failed \in BOOLEAN :
           reply' = [reply EXCEPT ![current.caller] =
                         IF ~failed /\ pc[current.caller] = "wait" /\ made[current.caller] = current.call
                         THEN current.call ELSE @]
    /\ UNCHANGED <<pc, made, handles, queue, current, last, gil, logs>>

\* The command ends and its answer is sent: to nobody when the call was interrupted.
WorkerFinishes ==
    /\ worker = "busy" /\ (logs => ~gil)
    /\ worker' = "idle"
    /\ reply' = [reply EXCEPT ![current.caller] =
                     IF pc[current.caller] = "wait" /\ made[current.caller] = current.call
                     THEN current.call ELSE @]
    /\ UNCHANGED <<pc, made, handles, queue, current, last, gil, logs>>

\* Mutant: the worker does not drain the channel.
WorkerEndsAtOnce ==
    /\ worker = "idle" /\ handles = {}
    /\ worker' = "ended" /\ queue' = <<>>
    /\ UNCHANGED <<pc, made, reply, handles, current, last, gil, logs>>

\* Mutant: the worker holds a sender of its own channel.
WorkerKeepsSender ==
    /\ worker = "idle" /\ queue = <<>> /\ handles = {} /\ worker' = "idle"
    /\ UNCHANGED <<pc, made, reply, handles, queue, current, last, gil, logs>>

\* rx.recv() returns None once the channel is empty and has no senders.
WorkerEnds ==
    /\ worker = "idle" /\ queue = <<>> /\ handles = {}
    /\ worker' = "ended"
    /\ UNCHANGED <<pc, made, reply, handles, queue, current, last, gil, logs>>

Next ==
    \/ \E t \in Threads : Call(t) \/ Enqueue(t) \/ Return(t) \/ DropHandle(t)
    \/ Interrupt \/ WorkerTakes \/ WorkerFinishes \/ WorkerEnds

Spec == Init /\ [][Next]_vars

\* The channel serves blocked senders in turn and the interpreter passes the lock
\* around, so that neither keeps refusing a thread it is offered to again and again.
FairSpec ==
    /\ Spec
    /\ \A t \in Threads : SF_vars(Enqueue(t)) /\ SF_vars(Return(t))
    /\ WF_vars(WorkerTakes) /\ SF_vars(WorkerFinishes) /\ WF_vars(WorkerEnds)

(***************************************************************************)
(* Properties                                                              *)
(***************************************************************************)

\* The channel holds at most QueueCap commands, and each variable has its type.
TypeOK ==
    /\ pc \in [Threads -> {"idle", "send", "wait"}]
    /\ made \in [Threads -> Nat] /\ reply \in [Threads -> Nat] /\ last \in [Threads -> Nat]
    /\ handles \subseteq Threads
    /\ queue \in Seq(Commands) /\ Len(queue) <= QueueCap
    /\ worker \in {"idle", "busy", "ended"} /\ current \in Commands
    /\ gil \in BOOLEAN /\ logs \in BOOLEAN

\* An answer is the answer of the call that receives it, also after an interrupted
\* call whose command runs, and is answered, during the next one.
OwnAnswer == \A t \in Threads : pc[t] = "wait" => reply[t] \in {0, made[t]}

\* A call that waits without an answer is owed one: its command is in the channel or
\* being run. So no caller ever sees "Worker died".
Owed(t) ==
    \/ \E i \in 1..Len(queue) : queue[i] = Command(t)
    \/ worker = "busy" /\ current = Command(t)

NobodyForgotten ==
    /\ \A t \in Threads : pc[t] = "wait" /\ reply[t] = 0 => Owed(t)
    /\ \A t \in Threads : pc[t] # "idle" => worker # "ended"

\* The worker runs the commands of a thread in the order of its calls, each once,
\* the abandoned commands of interrupted calls included.
RunsInOrder == [][worker = "idle" /\ worker' = "busy" => current'.call > last[current'.caller]]_vars

\* The lock is held by a Python thread that waits for room in the channel, while the
\* worker that could make room waits for the lock to log.
Deadlocked == logs /\ worker = "busy" /\ Full /\ \E t \in Python : pc[t] = "send"

\* docs/philosophy.md:66: the lock is released during blocking calls. So none of them
\* waits for room in the channel with the lock that the worker needs to make it.
GilReleased == ~Deadlocked

\* Every call returns, unless a full channel meets the lock.
CallsReturn == \A t \in Threads : pc[t] # "idle" ~> (pc[t] = "idle" \/ Deadlocked)

\* Every command that was put into the channel is run, although its caller may have
\* been interrupted and have dropped its handle: unless a full channel meets the lock,
\* when the command before it never ends.
CommandsRun ==
    \A t \in Threads : \A n \in 1..MaxCalls :
        (\E i \in 1..Len(queue) : queue[i] = [caller |-> t, call |-> n]) ~> (last[t] >= n \/ Deadlocked)

\* The worker ends once all handles are dropped (src/sync.rs:102).
WorkerReleased == handles = {} ~> worker = "ended"

(***************************************************************************)
(* The worker implements the request service of the async device. An       *)
(* interrupted call does not stay for its answer.                          *)
(***************************************************************************)
callStatus ==
    [t \in Threads |->
        IF pc[t] = "idle" THEN "idle"
        ELSE IF pc[t] = "send" THEN "asking"
        ELSE IF reply[t] = 0 THEN "pending" ELSE "answered"]

accepting == worker # "ended"

Service ==
    INSTANCE RequestService WITH Requests <- Threads, status <- callStatus, open <- accepting

\* A call is accepted while the worker lives, answered at most once, and none is left
\* without an answer when the worker ends.
ImplementsService == Service!Spec

=============================================================================
