--------------------------- MODULE ExchangeProofs ---------------------------
(***************************************************************************)
(* Proofs about response matching, for every set of requests and           *)
(* sub-devices and every capacity of the broadcast channel.                *)
(***************************************************************************)
EXTENDS Exchange, TLAPS

\* What matching depends on: the messages, the subscription and the results.
MatchOK ==
    /\ log \in Seq(Messages)
    /\ cur \in Requests \cup {NoRequest}
    /\ pos \in 0..Len(log)
    /\ result \in [Requests -> 0..Len(log)]

\* What is broadcast is a message, and never text.
LEMMA BroadcastType ==
    ASSUME NEW m \in Messages
    PROVE  Broadcast(m) \in Messages /\ Broadcast(m).body # "text"
BY DEF Broadcast, Messages, Cmds, Bodies

\* A message that is broadcast leaves the earlier ones where they are.
LEMMA AppendKeeps ==
    ASSUME NEW s \in Seq(Messages), NEW m \in Messages
    PROVE  /\ Append(s, m) \in Seq(Messages)
           /\ Len(Append(s, m)) = Len(s) + 1
           /\ \A i \in 1..Len(s) : Append(s, m)[i] = s[i]
           /\ Append(s, m)[Len(s) + 1] = m
OBVIOUS

\* The parts of a step that matching sees: nothing, a new request, a packet, a
\* message passed over, a message accepted, or a failure.
LEMMA StepCases ==
    ASSUME [Next]_vars
    PROVE  \/ UNCHANGED <<log, cur, pos, result>>
           \/ \E r \in Requests : Start(r)
           \/ \E m \in Messages : Packet(m)
           \/ pos < Len(log) /\ cur # NoRequest /\ pos' = pos + 1 /\ UNCHANGED <<log, cur, result>>
           \/ /\ cur # NoRequest /\ pos < Len(log)
              /\ Accepts(cur, log[pos + 1]) /\ Finish(pos + 1, "none")
           \/ cur # NoRequest /\ \E e \in Failures : Finish(0, e)
<1>1. CASE Examine
  BY <1>1 DEF Examine, Failures
<1>2. CASE ResponseTimeout
  BY <1>2 DEF ResponseTimeout, Failures
<1>3. CASE Listen \/ Forward \/ Take \/ DropReceiver \/ Receive \/ Received
  BY <1>3 DEF Listen, Forward, Take, DropReceiver, Receive, Received, Consume
<1>4. CASE UNCHANGED vars
  BY <1>4 DEF vars
<1> QED
  BY <1>1, <1>2, <1>3, <1>4 DEF Next

\* The inductive invariant. Only messages that are not text are broadcast, so the
\* filter's last alternative is never used; every response taken so far is
\* before the position of the request being processed.
MatchInv ==
    /\ MatchOK
    /\ \A i \in 1..Len(log) : log[i].body # "text"
    /\ cur # NoRequest => \A r \in Requests : result[r] <= pos
    /\ NoCrossTalk
    /\ MessageAnswersOnce

\* MatchInv is preserved by every step.
LEMMA MatchStep ==
    ASSUME MatchInv, [Next]_vars
    PROVE  MatchInv'
<1> USE DEF MatchOK
<1>1. CASE UNCHANGED <<log, cur, pos, result>>
  BY <1>1 DEF MatchInv, NoCrossTalk, MessageAnswersOnce, Answered, Response
<1>2. ASSUME NEW r \in Requests, Start(r) PROVE MatchInv'
  BY <1>2 DEF Start, MatchInv, NoCrossTalk, MessageAnswersOnce, Answered, Response
<1>3. ASSUME NEW m \in Messages, Packet(m) PROVE MatchInv'
  <2> DEFINE b == Broadcast(m)
  <2>1. b \in Messages /\ b.body # "text"
    BY BroadcastType
  <2>2. log' = Append(log, b) /\ UNCHANGED <<cur, pos, result>>
    BY <1>3 DEF Packet
  <2> HIDE DEF b
  <2>3. /\ log' \in Seq(Messages)
        /\ Len(log') = Len(log) + 1
        /\ \A i \in 1..Len(log) : log'[i] = log[i]
        /\ log'[Len(log) + 1] = b
    BY <2>1, <2>2, AppendKeeps DEF MatchInv
  <2>4. MatchOK'
    BY <2>2, <2>3 DEF MatchInv
  <2>5. \A i \in 1..Len(log') : log'[i].body # "text"
    BY <2>1, <2>3 DEF MatchInv
  <2>6. NoCrossTalk'
    BY <2>2, <2>3 DEF MatchInv, NoCrossTalk, Answered, Response
  <2>7. MessageAnswersOnce'
    BY <2>2 DEF MatchInv, MessageAnswersOnce, Answered
  <2> QED
    BY <2>2, <2>4, <2>5, <2>6, <2>7 DEF MatchInv
<1>4. CASE pos < Len(log) /\ cur # NoRequest /\ pos' = pos + 1 /\ UNCHANGED <<log, cur, result>>
  BY <1>4 DEF MatchInv, NoCrossTalk, MessageAnswersOnce, Answered, Response
<1>5. CASE /\ cur # NoRequest /\ pos < Len(log)
           /\ Accepts(cur, log[pos + 1]) /\ Finish(pos + 1, "none")
  <2>1. /\ cur \in Requests /\ cur' = NoRequest /\ UNCHANGED <<log, pos>>
        /\ result' = [result EXCEPT ![cur] = pos + 1]
        /\ pos + 1 \in 1..Len(log)
    BY <1>5 DEF Finish, MatchInv
  <2>2. MatchOK'
    BY <2>1 DEF MatchInv
  <2>3. log[pos + 1] \in Messages /\ log[pos + 1].body \in {"empty", "json"}
    <3>1. log[pos + 1] \in Messages /\ log[pos + 1].body # "text"
      BY <2>1 DEF MatchInv
    <3>2. \A m \in Messages : m.body \in Bodies
      BY DEF Messages
    <3> QED
      BY <3>1, <3>2 DEF Bodies
  <2>4. \/ log[pos + 1].cmd = "Error" \/ log[pos + 1].body = "empty"
        \/ log[pos + 1].cid = RequestCid[cur]
    BY <1>5, <2>3 DEF Accepts
  <2>5. NoCrossTalk'
    BY <2>1, <2>4 DEF MatchInv, NoCrossTalk, Answered, Response
  <2>6. MessageAnswersOnce'
    BY <1>5, <2>1 DEF MatchInv, MessageAnswersOnce, Answered
  <2> QED
    BY <2>1, <2>2, <2>5, <2>6 DEF MatchInv
<1>6. CASE cur # NoRequest /\ \E e \in Failures : Finish(0, e)
  <2>1. /\ cur \in Requests /\ cur' = NoRequest /\ UNCHANGED <<log, pos>>
        /\ result' = [result EXCEPT ![cur] = 0]
    BY <1>6 DEF Finish, MatchInv
  <2> QED
    BY <2>1 DEF MatchInv, NoCrossTalk, MessageAnswersOnce, Answered, Response
<1> QED
  BY <1>1, <1>2, <1>3, <1>4, <1>5, <1>6, StepCases

\* MatchInv holds in every reachable state.
THEOREM MatchInvariant == Spec => []MatchInv
<1>1. Init => MatchInv
  BY ExchangeAssumption DEF Init, MatchInv, MatchOK, NoCrossTalk, MessageAnswersOnce, Answered
<1>2. MatchInv /\ [Next]_vars => MatchInv'
  BY MatchStep
<1> QED
  BY <1>1, <1>2, PTL DEF Spec

\* A response with a payload comes from the sub-device that was asked.
THEOREM ResponsesNotMixed == Spec => []NoCrossTalk
<1>1. MatchInv => NoCrossTalk
  BY DEF MatchInv
<1> QED
  BY <1>1, MatchInvariant, PTL

\* No message is the response of two requests.
THEOREM ResponsesUsedOnce == Spec => []MessageAnswersOnce
<1>1. MatchInv => MessageAnswersOnce
  BY DEF MatchInv
<1> QED
  BY <1>1, MatchInvariant, PTL

(***************************************************************************)
(* Listening                                                               *)
(***************************************************************************)

\* The types of what listening depends on, and the bound of the blocking buffer.
ListenOK ==
    /\ log \in Seq(Messages)
    /\ kind \in Kinds
    /\ lpos \in 0..Len(log)
    /\ listening \in BOOLEAN
    /\ seen \in Seq(1..Len(log))
    /\ taken \in 0..Len(seen)
    /\ Len(seen) - taken <= SyncCap

\* The inductive invariant: what was yielded lies before the position.
ListenInv == ListenOK /\ ListenerComplete /\ InOrder

\* The next message is yielded if it has a payload, and the position moves past it.
Yield ==
    /\ lpos < Len(log) /\ lpos' = lpos + 1
    /\ seen' = IF NonEmpty(log[lpos + 1]) THEN Append(seen, lpos + 1) ELSE seen
    /\ UNCHANGED <<log, kind>>

\* The position stays; the receiver may take a message or be dropped.
Stay ==
    /\ UNCHANGED <<log, lpos, seen>> /\ kind' \in {kind, "dropped"}
    /\ listening' \in BOOLEAN
    /\ taken' \in taken..Len(seen)

\* The parts of a step that listening sees.
LEMMA ListenCases ==
    ASSUME ListenOK, [Next]_vars
    PROVE  \/ UNCHANGED <<log, listener>>
           \/ \E m \in Messages : log' = Append(log, Broadcast(m)) /\ UNCHANGED listener
           \/ Yield /\ listening' \in BOOLEAN /\ taken' = Len(seen')
           \/ /\ Yield /\ listening' \in BOOLEAN /\ UNCHANGED taken
              /\ seen' # seen => Len(seen) - taken # SyncCap
           \/ Stay
           \/ /\ kind = "receive" /\ lpos' = Len(log) /\ listening' = TRUE
              /\ UNCHANGED <<log, kind, seen, taken>>
<1> USE DEF ListenOK
<1>1. CASE \E r \in Requests : Start(r)
  BY <1>1 DEF Start
<1>2. CASE \E m \in Messages : Packet(m)
  BY <1>2 DEF Packet
<1>3. CASE Examine \/ ResponseTimeout
  BY <1>3 DEF Examine, ResponseTimeout, Finish, listener
<1>4. CASE Listen
  <2>1. CASE Lagged(lpos)
    <3>1. UNCHANGED <<log, lpos, seen, kind>> /\ listening' = FALSE /\ taken' = Len(seen)
      BY <1>4, <2>1 DEF Listen, Consume
    <3>2. taken' \in taken..Len(seen)
      BY <3>1
    <3>3. Stay
      BY <3>1, <3>2, Zenon DEF Stay
    <3> QED
      BY <3>3
  <2>2. CASE ~Lagged(lpos)
    <3>1. Yield /\ UNCHANGED listening /\ taken' = Len(seen')
      BY <1>4, <2>2 DEF Listen, Consume, Yield
    <3> QED
      BY <3>1
  <2> QED
    BY <2>1, <2>2
<1>5. CASE Forward
  <2>1. CASE lpos < Len(log) /\ (Lagged(lpos) \/ Ends(log[lpos + 1]))
    <3>1. UNCHANGED <<log, lpos, seen, kind, taken>> /\ listening' = FALSE
      BY <1>5, <2>1 DEF Forward, Consume
    <3>2. taken' \in taken..Len(seen)
      BY <3>1
    <3>3. Stay
      BY <3>1, <3>2, Zenon DEF Stay
    <3> QED
      BY <3>3
  <2>2. CASE ~(lpos < Len(log) /\ (Lagged(lpos) \/ Ends(log[lpos + 1])))
    <3>1. /\ Yield /\ UNCHANGED <<listening, taken>>
      BY <1>5, <2>2 DEF Forward, Consume, Yield
    <3>2. seen' # seen => NonEmpty(log[lpos + 1]) /\ ~Ends(log[lpos + 1])
      BY <2>2, <3>1 DEF Yield
    <3>3. seen' # seen => Len(seen) - taken # SyncCap
      BY <3>2 DEF Ends
    <3> QED
      BY <3>1, <3>3
  <2> QED
    BY <2>1, <2>2
<1>6. CASE Take
  BY <1>6 DEF Take, Stay
<1>7. CASE DropReceiver
  BY <1>7 DEF DropReceiver, Stay
<1>8. CASE Receive
  BY <1>8 DEF Receive
<1>9. CASE Received
  <2>1. CASE Lagged(lpos)
    <3>1. UNCHANGED <<log, lpos, seen, kind>> /\ listening' = FALSE /\ taken' = Len(seen)
      BY <1>9, <2>1 DEF Received, Consume
    <3>2. taken' \in taken..Len(seen)
      BY <3>1
    <3>3. Stay
      BY <3>1, <3>2, Zenon DEF Stay
    <3> QED
      BY <3>3
  <2>2. CASE ~Lagged(lpos)
    <3>1. Yield /\ taken' = Len(seen')
      BY <1>9, <2>2 DEF Received, Consume, Yield
    <3>2. listening' = ~NonEmpty(log[lpos + 1])
      BY <1>9, <2>2 DEF Received
    <3>3. listening' \in BOOLEAN
      BY <3>2, Zenon DEF NonEmpty
    <3> QED
      BY <3>1, <3>3
  <2> QED
    BY <2>1, <2>2
<1>10. CASE UNCHANGED vars
  BY <1>10 DEF vars
<1> QED
  BY <1>1, <1>2, <1>3, <1>4, <1>5, <1>6, <1>7, <1>8, <1>9, <1>10 DEF Next

\* What Yield does to the sequence of positions.
LEMMA YieldKeeps ==
    ASSUME ListenInv, Yield
    PROVE  /\ seen' \in Seq(1..Len(log')) /\ lpos' \in 0..Len(log')
           /\ Len(seen') \in {Len(seen), Len(seen) + 1}
           /\ Len(seen') = Len(seen) => seen' = seen
           /\ ListenerComplete' /\ InOrder'
<1>0. /\ log \in Seq(Messages) /\ Len(log) \in Nat /\ lpos \in 0..Len(log)
      /\ seen \in Seq(1..Len(log)) /\ Len(seen) \in Nat
      /\ ListenerComplete /\ InOrder
  BY DEF ListenInv, ListenOK
<1>1. log' = log /\ kind' = kind /\ lpos' = lpos + 1 /\ lpos + 1 \in 1..Len(log)
  BY <1>0 DEF Yield
<1>2. CASE ~NonEmpty(log[lpos + 1])
  <2>1. seen' = seen
    BY <1>2 DEF Yield
  <2>2. ListenerComplete'
    BY <1>0, <1>1, <1>2, <2>1 DEF ListenerComplete
  <2> QED
    BY <1>0, <1>1, <2>1, <2>2 DEF InOrder
<1>3. CASE NonEmpty(log[lpos + 1])
  <2>1. seen' = Append(seen, lpos + 1)
    BY <1>3 DEF Yield
  <2>2. /\ seen' \in Seq(1..Len(log)) /\ Len(seen') = Len(seen) + 1
        /\ \A i \in 1..Len(seen) : seen'[i] = seen[i]
        /\ seen'[Len(seen) + 1] = lpos + 1
    BY <1>0, <1>1, <2>1
  <2> DEFINE S == {seen[i] : i \in 1..Len(seen)}
  <2>3. {seen'[i] : i \in 1..Len(seen')} = S \cup {lpos + 1}
    <3>1. \A i : i \in 1..Len(seen') <=> i \in 1..Len(seen) \/ i = Len(seen) + 1
      BY <1>0, <2>2
    <3>2. \A x : x \in {seen'[i] : i \in 1..Len(seen')} <=> x \in S \/ x = lpos + 1
      BY <2>2, <3>1
    <3> QED
      BY <3>2
  <2>4. {i \in 1..lpos' : NonEmpty(log'[i])} = {i \in 1..lpos : NonEmpty(log[i])} \cup {lpos + 1}
    BY <1>0, <1>1, <1>3
  <2>5. ListenerComplete'
    BY <1>0, <1>1, <2>3, <2>4 DEF ListenerComplete
  <2>6. InOrder'
    <3>1. \A i \in 1..Len(seen') : i \in 1..Len(seen) \/ i = Len(seen) + 1
      BY <1>0, <2>2
    <3>2. \A i \in 1..Len(seen) : seen[i] \in Nat /\ seen'[i] = seen[i] /\ seen[i] <= lpos
      BY <1>0, <2>2 DEF InOrder
    <3>3. \A i \in 1..Len(seen') : seen'[i] <= lpos + 1
      <4> TAKE i \in 1..Len(seen')
      <4>1. CASE i \in 1..Len(seen)
        BY <1>0, <3>2, <4>1
      <4>2. CASE i = Len(seen) + 1
        BY <1>0, <2>2, <4>2
      <4> QED
        BY <3>1, <4>1, <4>2
    <3>4. ASSUME NEW i \in 1..Len(seen'), NEW j \in 1..Len(seen'), i < j
          PROVE  seen'[i] < seen'[j]
      <4>1. i \in 1..Len(seen)
        BY <1>0, <2>2, <3>4
      <4>2. CASE j \in 1..Len(seen)
        <5>1. seen[i] < seen[j]
          BY <1>0, <3>4, <4>1, <4>2 DEF InOrder
        <5> QED
          BY <3>2, <4>1, <4>2, <5>1
      <4>3. CASE j = Len(seen) + 1
        <5>1. seen'[i] \in Nat /\ seen'[i] <= lpos
          BY <3>2, <4>1
        <5>2. seen'[j] = lpos + 1
          BY <2>2, <4>3
        <5>3. lpos \in Nat
          BY <1>0
        <5> QED
          BY <5>1, <5>2, <5>3
      <4> QED
        BY <3>1, <4>2, <4>3
    <3> QED
      BY <1>1, <3>3, <3>4 DEF InOrder
  <2> QED
    BY <1>0, <1>1, <2>2, <2>5, <2>6
<1> QED
  BY <1>2, <1>3

\* ListenInv is preserved by every step.
LEMMA ListenStep ==
    ASSUME ListenInv, [Next]_vars
    PROVE  ListenInv'
<1> USE ExchangeAssumption DEF ListenInv, ListenOK
<1>1. CASE UNCHANGED <<log, listener>>
  BY <1>1 DEF listener, ListenerComplete, InOrder
<1>2. ASSUME NEW m \in Messages, log' = Append(log, Broadcast(m)), UNCHANGED listener
      PROVE  ListenInv'
  <2>1. /\ log' \in Seq(Messages)
        /\ Len(log') = Len(log) + 1
        /\ \A i \in 1..Len(log) : log'[i] = log[i]
    BY <1>2, BroadcastType, AppendKeeps
  <2>2. UNCHANGED <<kind, lpos, listening, seen, taken>>
    BY <1>2 DEF listener
  <2>3. \A i \in 1..lpos : log'[i] = log[i]
    <3>1. Len(log) \in Nat /\ lpos \in 0..Len(log)
      OBVIOUS
    <3> QED
      BY <2>1, <3>1, Z3
  <2>4. ListenerComplete' /\ InOrder'
    BY <2>2, <2>3 DEF ListenerComplete, InOrder
  <2>5. seen' \in Seq(1..Len(log'))
    BY <2>1, <2>2
  <2>6. lpos' \in 0..Len(log')
    BY <2>1, <2>2
  <2> QED
    BY <2>1, <2>2, <2>4, <2>5, <2>6
<1>3. CASE Yield /\ listening' \in BOOLEAN /\ taken' = Len(seen')
  <2>1. UNCHANGED <<log, kind>>
    BY <1>3 DEF Yield
  <2> QED
    BY <1>3, <2>1, YieldKeeps
<1>4. CASE /\ Yield /\ listening' \in BOOLEAN /\ UNCHANGED taken
           /\ seen' # seen => Len(seen) - taken # SyncCap
  <2>1. UNCHANGED <<log, kind>>
    BY <1>4 DEF Yield
  <2>2. /\ seen' \in Seq(1..Len(log')) /\ lpos' \in 0..Len(log')
        /\ Len(seen') \in {Len(seen), Len(seen) + 1}
        /\ Len(seen') = Len(seen) => seen' = seen
        /\ ListenerComplete' /\ InOrder'
    BY <1>4, YieldKeeps
  <2>3. taken' \in 0..Len(seen') /\ Len(seen') - taken' <= SyncCap
    BY <1>4, <2>2
  <2> QED
    BY <1>4, <2>1, <2>2, <2>3
<1>5. CASE Stay
  <2>1. ListenerComplete' /\ InOrder'
    BY <1>5 DEF Stay, ListenerComplete, InOrder
  <2>2. taken' \in 0..Len(seen') /\ Len(seen') - taken' <= SyncCap
    BY <1>5 DEF Stay
  <2> QED
    BY <1>5, <2>1, <2>2 DEF Stay, Kinds
<1>6. CASE /\ kind = "receive" /\ lpos' = Len(log) /\ listening' = TRUE
           /\ UNCHANGED <<log, kind, seen, taken>>
  BY <1>6 DEF ListenerComplete, InOrder
<1> QED
  BY <1>1, <1>2, <1>3, <1>4, <1>5, <1>6, ListenCases

\* ListenInv holds in every reachable state.
THEOREM ListenInvariant == Spec => []ListenInv
<1>1. Init => ListenInv
  BY ExchangeAssumption DEF Init, ListenInv, ListenOK, Kinds, ListenerComplete, InOrder
<1>2. ListenInv /\ [Next]_vars => ListenInv'
  BY ListenStep
<1> QED
  BY <1>1, <1>2, PTL DEF Spec

\* A listener loses messages only by ending.
THEOREM ListenersComplete == Spec => []ListenerComplete
<1>1. ListenInv => ListenerComplete
  BY DEF ListenInv
<1> QED
  BY <1>1, ListenInvariant, PTL

\* Messages are yielded in order and once each.
THEOREM MessagesInOrder == Spec => []InOrder
<1>1. ListenInv => InOrder
  BY DEF ListenInv
<1> QED
  BY <1>1, ListenInvariant, PTL

(***************************************************************************)
(* Types                                                                   *)
(***************************************************************************)

\* What neither matching nor listening depends on.
RestOK ==
    /\ asked \subseteq Requests
    /\ failure \in [Requests -> Failures]
    /\ Len(log) <= MaxMessages

\* RestOK is preserved by every step, given the types of matching.
LEMMA RestStep ==
    ASSUME MatchOK, RestOK, [Next]_vars
    PROVE  RestOK'
<1> USE DEF RestOK, MatchOK
<1>1. ASSUME NEW r \in Requests, Start(r) PROVE RestOK'
  BY <1>1 DEF Start
<1>2. ASSUME NEW m \in Messages, Packet(m) PROVE RestOK'
  <2>1. /\ log' = Append(log, Broadcast(m)) /\ Len(log) < MaxMessages
        /\ UNCHANGED <<asked, failure>>
    BY <1>2 DEF Packet
  <2>2. Len(log') = Len(log) + 1
    BY <2>1, BroadcastType, AppendKeeps
  <2>3. Len(log') <= MaxMessages
    BY <2>1, <2>2, ExchangeAssumption
  <2> QED
    BY <2>1, <2>3
<1>3. CASE Examine \/ ResponseTimeout
  <2>1. UNCHANGED <<log, asked>> /\ (UNCHANGED failure \/ \E e \in Failures : failure' = [failure EXCEPT ![cur] = e])
    BY <1>3 DEF Examine, ResponseTimeout, Finish, Failures
  <2> QED
    BY <2>1
<1>4. CASE Listen \/ Forward \/ Take \/ DropReceiver \/ Receive \/ Received
  BY <1>4 DEF Listen, Forward, Take, DropReceiver, Receive, Received, Consume
<1>5. CASE UNCHANGED vars
  BY <1>5 DEF vars
<1> QED
  BY <1>1, <1>2, <1>3, <1>4, <1>5 DEF Next

\* Every variable keeps its type, and the buffer its bound.
THEOREM TypeInvariant == Spec => []TypeOK
<1>1. Init => RestOK
  BY ExchangeAssumption DEF Init, RestOK, Failures
<1>2. MatchInv /\ RestOK /\ [Next]_vars => RestOK'
  BY RestStep DEF MatchInv
<1>3. MatchInv /\ ListenInv /\ RestOK => TypeOK
  BY DEF MatchInv, MatchOK, ListenInv, ListenOK, RestOK, TypeOK
<1> QED
  BY <1>1, <1>2, <1>3, MatchInvariant, ListenInvariant, PTL DEF Spec

=============================================================================
