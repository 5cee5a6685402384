----------------------- MODULE PassiveListenerProofs ------------------------
(***************************************************************************)
(* For any number of threads and ports, ensure_passive_listener starts one *)
(* listener task, and listener_started is set while it runs and after it   *)
(* has panicked.                                                           *)
(***************************************************************************)
EXTENDS PassiveListener, FiniteSetTheorems, TLAPS

Spawners == {c \in Callers : pc[c] = "spawn"}

\* Until the token is cancelled there is no listener, one that runs, one call that
\* is about to start it, or one that panicked and whose place nobody takes; and the
\* steps after the cancel find it cancelled.
Listening ==
    /\ stop \in {"flag", "clear"} => cancelled
    /\ ~cancelled =>
        \/ ~started /\ listeners = 0 /\ Spawners = {} /\ ~panicked
        \/ started /\ listeners = 1 /\ Spawners = {} /\ ~panicked
        \/ started /\ listeners = 0 /\ ~panicked /\ \E c \in Callers : Spawners = {c}
        \/ started /\ listeners = 0 /\ Spawners = {} /\ panicked

\* The types of the listener's state hold initially.
LEMMA InitTypes == Init => TypeOK
<1> SUFFICES ASSUME Init PROVE TypeOK
    OBVIOUS
<1>1. sockets \subseteq Ports /\ heard \subseteq Ports /\ failed \subseteq Ports
    BY ListenerAssumption DEF Init
<1>2. started \in BOOLEAN /\ cancelled \in BOOLEAN /\ panicked \in BOOLEAN
    BY DEF Init
<1>3. listeners \in Nat
    BY DEF Init
<1>4. pc \in [Callers -> Steps] /\ ports \in [Callers -> SUBSET Ports]
    BY DEF Init, Steps
<1>5. stop \in {"cancel", "flag", "clear", "done", "dropped"}
    BY ListenerAssumption DEF Init
<1> QED
    BY <1>1, <1>2, <1>3, <1>4, <1>5 DEF TypeOK

\* Every step of a call, of a task and of a stop keeps the types.
LEMMA NextTypes == TypeOK /\ [Next]_vars => TypeOK'
<1> SUFFICES ASSUME TypeOK, [Next]_vars PROVE TypeOK'
    OBVIOUS
<1> USE DEF TypeOK, Steps
<1>1. ASSUME NEW c \in Callers, Collect(c) PROVE TypeOK'
    BY <1>1, ListenerAssumption DEF Collect, Goto, Tasks
<1>2. ASSUME NEW c \in Callers, Test(c) PROVE TypeOK'
    BY <1>2 DEF Test, Goto, Tasks
<1>3. ASSUME NEW c \in Callers, Open(c) PROVE TypeOK'
    BY <1>3 DEF Open, Goto, Tasks
<1>4. ASSUME NEW c \in Callers, Retest(c) PROVE TypeOK'
    BY <1>4 DEF Retest, Goto, Tasks
<1>5. ASSUME NEW c \in Callers, Swap(c) PROVE TypeOK'
    BY <1>5 DEF Swap, Goto, Tasks
<1>6. ASSUME NEW c \in Callers, Spawn(c) PROVE TypeOK'
    BY <1>6 DEF Spawn, Goto
<1>7. ASSUME NEW p \in Ports, ReceiverFailed(p) \/ ReceiverRefused(p) PROVE TypeOK'
    BY <1>7 DEF ReceiverFailed, ReceiverRefused
<1>8. ASSUME NEW p \in Ports, ReceiverCancelled(p) PROVE TypeOK'
    BY <1>8 DEF ReceiverCancelled
<1>9. CASE ListenerCancelled
    BY <1>9 DEF ListenerCancelled
<1>12. CASE ListenerPanics
    <2>1. listeners' \in Nat
        BY <1>12 DEF ListenerPanics
    <2>2. panicked' \in BOOLEAN
        BY <1>12 DEF ListenerPanics
    <2> QED
        BY <1>12, <2>1, <2>2 DEF ListenerPanics
<1>10. CASE StopCancel \/ StopFlag \/ StopClear \/ DropState
    BY <1>10 DEF StopCancel, StopFlag, StopClear, DropState, Tasks
<1>11. CASE UNCHANGED vars
    BY <1>11 DEF vars
<1> QED
    BY <1>1, <1>2, <1>3, <1>4, <1>5, <1>6, <1>7, <1>8, <1>9, <1>10, <1>11, <1>12
       DEF Next, Ensure, TasksEnd

\* A call that moves between two steps of which neither is the start of the tasks
\* leaves the calls about to start them as they are.
LEMMA SameSpawners ==
    ASSUME TypeOK, NEW c \in Callers, NEW l \in Steps, pc[c] # "spawn", l # "spawn", Goto(c, l)
    PROVE  Spawners' = Spawners
BY DEF TypeOK, Goto, Spawners

\* A call that comes to the start of the tasks joins the calls about to start them.
LEMMA MoreSpawners ==
    ASSUME TypeOK, NEW c \in Callers, Goto(c, "spawn")
    PROVE  Spawners' = Spawners \cup {c}
BY DEF TypeOK, Goto, Spawners

\* A call that has started the tasks leaves the calls about to start them.
LEMMA FewerSpawners ==
    ASSUME TypeOK, NEW c \in Callers, Goto(c, "done")
    PROVE  Spawners' = Spawners \ {c}
BY DEF TypeOK, Goto, Spawners

\* No step of a call, of a task or of a stop breaks the invariant: in
\* particular the swap of the flag lets one call through, and only one.
LEMMA NextListening == TypeOK /\ Listening /\ [Next]_vars => Listening'
<1> SUFFICES ASSUME TypeOK, Listening, [Next]_vars PROVE Listening'
    OBVIOUS
<1>1. ASSUME NEW c \in Callers, Collect(c) \/ Test(c) \/ Open(c) \/ Retest(c) PROVE Listening'
    <2>1. Spawners' = Spawners
        BY <1>1, SameSpawners DEF Collect, Test, Open, Retest, Steps
    <2>2. UNCHANGED <<started, stop, cancelled, listeners, panicked>>
        BY <1>1 DEF Collect, Test, Open, Retest, Tasks
    <2> QED
        BY <2>1, <2>2 DEF Listening
<1>2. ASSUME NEW c \in Callers, Swap(c) PROVE Listening'
    <2>0. started' /\ UNCHANGED <<stop, cancelled, listeners, panicked>>
        BY <1>2 DEF Swap, Tasks
    <2>1. CASE started
        <3>1. Spawners' = Spawners
            BY <1>2, <2>1, SameSpawners DEF Swap, Steps
        <3> QED
            BY <2>0, <2>1, <3>1 DEF Listening
    <2>2. CASE ~started
        <3>1. Spawners' = Spawners \cup {c}
            BY <1>2, <2>2, MoreSpawners DEF Swap
        <3> QED
            BY <2>0, <2>2, <3>1 DEF Listening
    <2> QED
        BY <2>1, <2>2
<1>3. ASSUME NEW c \in Callers, Spawn(c) PROVE Listening'
    <2>1. Spawners' = Spawners \ {c}
        BY <1>3, FewerSpawners DEF Spawn
    <2>2. c \in Spawners
        BY <1>3 DEF Spawn, Spawners
    <2>3. listeners' = listeners + 1 /\ UNCHANGED <<started, stop, cancelled, panicked>>
        BY <1>3 DEF Spawn
    <2>4. ~cancelled => started /\ listeners = 0 /\ Spawners = {c} /\ ~panicked
        BY <2>2 DEF Listening
    <2> QED
        BY <2>1, <2>3, <2>4 DEF Listening
<1>4. ASSUME NEW p \in Ports, ReceiverFailed(p) \/ ReceiverRefused(p) \/ ReceiverCancelled(p)
      PROVE  Listening'
    BY <1>4 DEF ReceiverFailed, ReceiverRefused, ReceiverCancelled, Listening, Spawners
<1>5. CASE ListenerCancelled
    BY <1>5 DEF ListenerCancelled, Listening
<1>11. CASE ListenerPanics
    BY <1>11 DEF ListenerPanics, Listening, Spawners
<1>6. CASE StopCancel
    BY <1>6 DEF StopCancel, Listening
<1>7. CASE StopFlag
    BY <1>7 DEF StopFlag, Tasks, Listening
<1>8. CASE StopClear
    BY <1>8 DEF StopClear, Tasks, Listening
<1>9. CASE DropState
    BY <1>9 DEF DropState, Listening
<1>10. CASE UNCHANGED vars
    BY <1>10 DEF vars, Listening, Spawners
<1> QED
    BY <1>1, <1>2, <1>3, <1>4, <1>5, <1>6, <1>7, <1>8, <1>9, <1>10, <1>11
       DEF Next, Ensure, TasksEnd

\* The state of the passive listener keeps its types, for any calls and ports.
THEOREM ListenerTypes == Spec => []TypeOK
BY InitTypes, NextTypes, PTL DEF Spec

\* In every reachable state until the listener is stopped or dropped, nobody, one
\* listener task, one call of ensure_passive_listener or one panicked task holds the
\* place of the listener.
THEOREM ListenerInvariant == Spec => []Listening
<1>1. Init => Listening
    BY ListenerAssumption DEF Init, Listening, Spawners
<1> QED
    BY <1>1, InitTypes, NextTypes, NextListening, PTL DEF Spec

\* However many threads add ports to the scanner at once, one listener task at
\* most runs or is about to be started.
THEOREM ListenerIsAlone == Spec => []OneListener
<1>1. ASSUME Listening PROVE OneListener
    <2>1. Cardinality({}) = 0
        BY FS_EmptySet
    <2>2. \A c \in Callers : Cardinality({c}) = 1
        BY FS_Singleton
    <2> QED
        BY <1>1, <2>1, <2>2 DEF Listening, OneListener, Spawners
<1> QED
    BY <1>1, ListenerInvariant, PTL

\* However many threads add ports to the scanner at once, listener_started is set
\* exactly when a listener task runs, is about to be started or has panicked.
THEOREM FlagTellsTruth == Spec => []StartedMeansRunning
<1>1. ASSUME Listening PROVE StartedMeansRunning
    BY <1>1 DEF Listening, StartedMeansRunning, Spawners
<1> QED
    BY <1>1, ListenerInvariant, PTL

=============================================================================
