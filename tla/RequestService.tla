--------------------------- MODULE RequestService ---------------------------
(***************************************************************************)
(* What the users of a Device are promised about request() calls,          *)
(* independently of connections: a call is accepted while the service is   *)
(* open and refused afterwards, an accepted call is answered at most once, *)
(* and the service shuts down only by answering everything it accepted.    *)
(***************************************************************************)
CONSTANT Requests

VARIABLES
    status,  \* each call: idle, asking, pending (accepted) or answered
    open     \* the service accepts calls

vars == <<status, open>>

TypeOK ==
    /\ status \in [Requests -> {"idle", "asking", "pending", "answered"}]
    /\ open \in BOOLEAN

Pending == {r \in Requests : status[r] = "pending"}

Move(S, to) == status' = [r \in Requests |-> IF r \in S THEN to ELSE status[r]]

Init ==
    /\ status = [r \in Requests |-> "idle"]
    /\ open = TRUE

Ask(r) == status[r] = "idle" /\ Move({r}, "asking") /\ UNCHANGED open

Accept(r) == open /\ status[r] = "asking" /\ Move({r}, "pending") /\ UNCHANGED open

Refuse(r) == ~open /\ status[r] = "asking" /\ Move({r}, "answered") /\ UNCHANGED open

Answer(S) == open /\ S \subseteq Pending /\ Move(S, "answered") /\ UNCHANGED open

Shutdown == open /\ open' = FALSE /\ Move(Pending, "answered")

Return(r) == status[r] = "answered" /\ Move({r}, "idle") /\ UNCHANGED open

\* A nowait call does not stay for its answer.
ReturnAtOnce(r) == status[r] = "pending" /\ Move({r}, "idle") /\ UNCHANGED open

Next ==
    \/ \E r \in Requests : Ask(r) \/ Accept(r) \/ Refuse(r) \/ Return(r) \/ ReturnAtOnce(r)
    \/ \E S \in SUBSET Requests : Answer(S)
    \/ Shutdown

Spec == Init /\ [][Next]_vars

=============================================================================
