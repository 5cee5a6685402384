-------------------------- MODULE PassiveListener --------------------------
(***************************************************************************)
(* The scanner's passive listener (src/scanner.rs): sockets, the receiver  *)
(* task of each socket and the listener task they feed. Threads call       *)
(* ensure_passive_listener (new ports, a new bind address, a scan without  *)
(* sockets) and stop_passive_listener. A step is one access to shared      *)
(* state.                                                                  *)
(***************************************************************************)
EXTENDS Naturals, FiniteSets

CONSTANTS
    Ports,         \* UDP ports
    DefaultPorts,  \* ports of Scanner::new
    Callers,       \* ensure_passive_listener calls
    Wanted,        \* self.ports of each call
    MayStop        \* whether stop_passive_listener is called

ASSUME ListenerAssumption ==
    /\ DefaultPorts \subseteq Ports
    /\ Wanted \in [Callers -> SUBSET Ports]
    /\ MayStop \in BOOLEAN

VARIABLES
    sockets,    \* ports with an open socket
    started,    \* listener_started
    cancelled,  \* cancel_token
    heard,      \* ports whose receiver task runs
    failed,     \* ports whose receiver task ended with a socket error
    listeners,  \* listener tasks that run
    panicked,   \* whether a listener task panicked
    pc,         \* where each ensure_passive_listener call is
    ports,      \* ports_to_add, then the ports of new_sockets, of each call
    stop        \* where the stop_passive_listener call is, or that the scanner is dropped

vars == <<sockets, started, cancelled, heard, failed, listeners, panicked, pc, ports, stop>>

Steps == {"collect", "test", "open", "retest", "swap", "spawn", "done"}

TypeOK ==
    /\ sockets \subseteq Ports
    /\ started \in BOOLEAN
    /\ cancelled \in BOOLEAN
    /\ heard \subseteq Ports
    /\ failed \subseteq Ports
    /\ listeners \in Nat
    /\ panicked \in BOOLEAN
    /\ pc \in [Callers -> Steps]
    /\ ports \in [Callers -> SUBSET Ports]
    /\ stop \in {"cancel", "flag", "clear", "done", "dropped"}

\* The scanner as Scanner::new leaves it, with the ports that could be bound.
Init ==
    /\ sockets \in SUBSET DefaultPorts
    /\ started = (sockets # {})
    /\ heard = sockets
    /\ listeners = IF started THEN 1 ELSE 0
    /\ cancelled = FALSE
    /\ failed = {}
    /\ panicked = FALSE
    /\ pc = [c \in Callers |-> "collect"]
    /\ ports = [c \in Callers |-> {}]
    /\ stop = IF MayStop THEN "cancel" ELSE "done"

Goto(c, l) == pc' = [pc EXCEPT ![c] = l]
Tasks == <<cancelled, heard, failed, listeners, panicked>>

(***************************************************************************)
(* ensure_passive_listener                                                 *)
(***************************************************************************)

Collect(c) ==
    /\ pc[c] = "collect"
    /\ ports' = [ports EXCEPT ![c] = Wanted[c] \ sockets]
    /\ Goto(c, "test")
    /\ UNCHANGED <<sockets, started, stop, Tasks>>

\* Mutant: the flag is set before the sockets are opened.
TestMarksStarted(c) ==
    /\ pc[c] = "test"
    /\ Goto(c, IF ports[c] = {} /\ started THEN "done" ELSE "open")
    /\ started' = TRUE
    /\ UNCHANGED <<sockets, ports, stop, Tasks>>

Test(c) ==
    /\ pc[c] = "test"
    /\ Goto(c, IF ports[c] = {} /\ started THEN "done" ELSE "open")
    /\ UNCHANGED <<sockets, started, ports, stop, Tasks>>

\* Any of the sockets may fail to open.
Open(c) ==
    /\ pc[c] = "open"
    /\ \E opened \in SUBSET ports[c] :
        /\ sockets' = sockets \cup opened
        /\ ports' = [ports EXCEPT ![c] = opened]
    /\ Goto(c, "retest")
    /\ UNCHANGED <<started, stop, Tasks>>

\* Nothing opened: there is a listener already, or none can be started.
Retest(c) ==
    /\ pc[c] = "retest"
    /\ Goto(c, IF ports[c] = {} THEN "done" ELSE "swap")
    /\ UNCHANGED <<sockets, started, ports, stop, Tasks>>

\* Mutant: every call that opened sockets starts a listener.
SwapIgnored(c) ==
    /\ pc[c] = "swap"
    /\ started' = TRUE
    /\ Goto(c, "spawn")
    /\ UNCHANGED <<sockets, ports, stop, Tasks>>

\* listener_started.swap(true): only the call that sets it starts the tasks.
Swap(c) ==
    /\ pc[c] = "swap"
    /\ started' = TRUE
    /\ Goto(c, IF started THEN "done" ELSE "spawn")
    /\ UNCHANGED <<sockets, ports, stop, Tasks>>

\* A receiver task for each new socket, and the listener task.
Spawn(c) ==
    /\ pc[c] = "spawn"
    /\ heard' = heard \cup ports[c]
    /\ failed' = failed \ ports[c]
    /\ listeners' = listeners + 1
    /\ Goto(c, "done")
    /\ UNCHANGED <<sockets, started, cancelled, panicked, ports, stop>>

(***************************************************************************)
(* The tasks                                                               *)
(***************************************************************************)


ReceiverCancelled(p) ==
    /\ p \in heard
    /\ cancelled
    /\ heard' = heard \ {p}
    /\ UNCHANGED <<sockets, started, cancelled, failed, listeners, panicked, pc, ports, stop>>

\* recv_from returns an error; the listener task is not told.
ReceiverFailed(p) ==
    /\ p \in heard
    /\ heard' = heard \ {p}
    /\ failed' = failed \cup {p}
    /\ UNCHANGED <<sockets, started, cancelled, listeners, panicked, pc, ports, stop>>

\* The listener task is gone, so the channel refuses the next datagram.
ReceiverRefused(p) ==
    /\ p \in heard
    /\ listeners = 0
    /\ heard' = heard \ {p}
    /\ UNCHANGED <<sockets, started, cancelled, failed, listeners, panicked, pc, ports, stop>>

ListenerCancelled ==
    /\ listeners > 0
    /\ cancelled
    /\ listeners' = listeners - 1
    /\ UNCHANGED <<sockets, started, cancelled, heard, failed, panicked, pc, ports, stop>>

\* A datagram shorter than its own trailer: parse_packet panics in unpack_message
\* (Broadcasts) and takes the listener task with it. Nothing resets the flag.
ListenerPanics ==
    /\ listeners > 0
    /\ listeners' = listeners - 1
    /\ panicked' = TRUE
    /\ UNCHANGED <<sockets, started, cancelled, heard, failed, pc, ports, stop>>

(***************************************************************************)
(* stop_passive_listener                                                   *)
(***************************************************************************)

StopCancel ==
    /\ stop = "cancel"
    /\ cancelled' = TRUE
    /\ stop' = "flag"
    /\ UNCHANGED <<sockets, started, heard, failed, listeners, panicked, pc, ports>>

StopFlag ==
    /\ stop = "flag"
    /\ started' = FALSE
    /\ stop' = "clear"
    /\ UNCHANGED <<sockets, pc, ports, Tasks>>

StopClear ==
    /\ stop = "clear"
    /\ sockets' = {}
    /\ stop' = "done"
    /\ UNCHANGED <<started, pc, ports, Tasks>>

\* The last handle is dropped: the token is cancelled and the receiver tasks are
\* aborted, which either way end at their next poll.
DropState ==
    /\ stop \in {"cancel", "done"}
    /\ \A c \in Callers : pc[c] = "done"
    /\ cancelled' = TRUE
    /\ sockets' = {}
    /\ stop' = "dropped"
    /\ UNCHANGED <<started, heard, failed, listeners, panicked, pc, ports>>

Ensure(c) == Collect(c) \/ Test(c) \/ Open(c) \/ Retest(c) \/ Swap(c) \/ Spawn(c)
TasksEnd == (\E p \in Ports : ReceiverCancelled(p)) \/ ListenerCancelled

Next ==
    \/ \E c \in Callers : Ensure(c)
    \/ \E p \in Ports : ReceiverFailed(p) \/ ReceiverRefused(p)
    \/ ListenerPanics
    \/ TasksEnd
    \/ StopCancel \/ StopFlag \/ StopClear \/ DropState

Spec == Init /\ [][Next]_vars

\* Threads run and tasks are polled.
FairSpec ==
    /\ Spec
    /\ \A c \in Callers : WF_vars(Ensure(c))
    /\ \A p \in Ports : WF_vars(ReceiverCancelled(p))
    /\ WF_vars(ListenerCancelled)

(***************************************************************************)
(* Properties                                                              *)
(***************************************************************************)

\* However many threads add ports at once, until the listener is stopped one
\* listener task at most runs or is about to be started.
OneListener ==
    ~cancelled => listeners + Cardinality({c \in Callers : pc[c] = "spawn"}) <= 1

\* listener_started is set exactly when a listener task runs, is about to be
\* started or has panicked, until it is stopped. So the flag never hides that there
\* is no listener but in one case: after a panic it stays set, no call starts
\* another listener, and the scanner hears nothing until it is dropped.
StartedMeansRunning ==
    ~cancelled =>
        (started <=> \/ listeners > 0
                     \/ \E c \in Callers : pc[c] = "spawn"
                     \/ panicked)

Silent == heard = {} /\ listeners = 0


=============================================================================
