--------------------------- MODULE ScannerProofs ---------------------------
(***************************************************************************)
(* Proofs about the flag active_scanning and what streams yield, for every *)
(* number of calls.                                                        *)
(***************************************************************************)
EXTENDS Scanner, TLAPS

ScanStates == {"none", "starting", "running", "cleared", "done"}

\* The control state of calls and scans.
ControlOK ==
    /\ scan \in [Callers -> ScanStates]
    /\ pc \in [Callers -> FinderSteps \cup StreamSteps]

\* Waking calls moves only those that are parked.
LEMMA WokenType ==
    ASSUME ControlOK
    PROVE  /\ Woken \in [Callers -> FinderSteps \cup StreamSteps]
           /\ \A c \in Callers : /\ Woken[c] \in {"unmade", "stamp", "last", "none"} => Woken[c] = pc[c]
                                 /\ pc[c] # "parked" => Woken[c] = pc[c]
BY DEF ControlOK, Woken, FinderSteps, StreamSteps

\* Calls and scans are always in a state of the code.
LEMMA ControlCorrect == Spec => []ControlOK
<1>1. Init => ControlOK
  BY DEF Init, ControlOK, ScanStates, FinderSteps, StreamSteps, Callers
<1>2. ControlOK /\ [Next]_vars => ControlOK'
  <2> SUFFICES ASSUME ControlOK, [Next]_vars PROVE ControlOK'
    OBVIOUS
  <2>1. CASE \E d \in Devices : Discover(d) \/ Invalidate(d) \/ Age(d)
    BY <2>1, WokenType DEF ControlOK, Discover, Invalidate, Age
  <2>2. CASE AgeScan
    BY <2>2 DEF ControlOK, AgeScan
  <2>3. CASE \E f \in Finders : FinderStep(f)
    BY <2>3 DEF ControlOK, FinderStep, Check, Throttle, Swap, Look, Decide, Last, Goto,
                ScanStates, FinderSteps, StreamSteps, Callers
  <2>4. CASE \E s \in Streams : StreamStep(s)
    BY <2>4 DEF ControlOK, StreamStep, Load, Store, First, Loop, More, Test, Final, Goto,
                ScanStates, FinderSteps, StreamSteps, Callers
  <2>5. CASE \E c \in Callers : ScanStep(c) \/ CallStep(c) \/ Elapse(c) \/ Drop(c)
    BY <2>5, WokenType DEF ControlOK, ScanStep, CallStep, Elapse, Drop, ScanEnd, ScanNotify,
                Spawn, Arm, TimedOut, Goto, ScanStates, FinderSteps, StreamSteps
  <2>6. CASE UNCHANGED vars
    BY <2>6 DEF ControlOK, vars
  <2> QED
    BY <2>1, <2>2, <2>3, <2>4, <2>5, <2>6 DEF Next
<1> QED
  BY <1>1, <1>2, PTL DEF Spec

\* The flag and the scans change in five actions only.
LEMMA OtherSteps ==
    ASSUME [Next]_vars
    PROVE  \/ UNCHANGED <<active, scan>>
           \/ \E f \in Finders : Swap(f)
           \/ \E s \in Streams : Store(s)
           \/ \E c \in Callers : Spawn(c) \/ ScanEnd(c) \/ ScanNotify(c)
<1>1. CASE \E d \in Devices : Discover(d) \/ Invalidate(d) \/ Age(d)
  BY <1>1 DEF Discover, Invalidate, Age
<1>2. CASE AgeScan
  BY <1>2 DEF AgeScan
<1>3. CASE \E f \in Finders : FinderStep(f)
  BY <1>3 DEF FinderStep, Check, Throttle, Look, Decide, Last
<1>4. CASE \E s \in Streams : StreamStep(s)
  BY <1>4 DEF StreamStep, Load, First, Loop, More, Test, Final
<1>5. CASE \E c \in Callers : ScanStep(c) \/ CallStep(c) \/ Elapse(c) \/ Drop(c)
  BY <1>5 DEF ScanStep, CallStep, Arm, TimedOut, Elapse, Drop
<1>6. CASE UNCHANGED vars
  BY <1>6 DEF vars
<1> QED
  BY <1>1, <1>2, <1>3, <1>4, <1>5, <1>6 DEF Next

\* active_scanning is set only while a scan that will clear it is under way:
\* setting it and starting a scan go together, and any scan that ends clears it.
THEOREM FlagIsBacked == Spec => []FlagBacked
<1>1. Init => FlagBacked
  BY DEF Init, FlagBacked
<1>2. ControlOK /\ FlagBacked /\ [Next]_vars => FlagBacked'
  <2> SUFFICES ASSUME ControlOK, FlagBacked, [Next]_vars PROVE FlagBacked'
    OBVIOUS
  <2>1. CASE UNCHANGED <<active, scan>>
    BY <2>1 DEF FlagBacked, Scanning
  <2>2. ASSUME NEW f \in Finders, Swap(f) PROVE FlagBacked'
    BY <2>2 DEF FlagBacked, Scanning, Swap, ControlOK, Callers
  <2>3. ASSUME NEW s \in Streams, Store(s) PROVE FlagBacked'
    BY <2>3 DEF FlagBacked, Scanning, Store, ControlOK, Callers
  <2>4. ASSUME NEW c \in Callers, Spawn(c) PROVE FlagBacked'
    BY <2>4 DEF FlagBacked, Scanning, Spawn, ControlOK
  <2>5. ASSUME NEW c \in Callers, ScanEnd(c) PROVE FlagBacked'
    BY <2>5 DEF FlagBacked, ScanEnd
  <2>6. ASSUME NEW c \in Callers, ScanNotify(c) PROVE FlagBacked'
    BY <2>6 DEF FlagBacked, Scanning, ScanNotify, ControlOK
  <2> QED
    BY <2>1, <2>2, <2>3, <2>4, <2>5, <2>6, OtherSteps
<1> QED
  BY <1>1, <1>2, ControlCorrect, PTL DEF Spec

\* A call that was not made is not made later.
LEMMA MadeStays ==
    ASSUME ControlOK, [Next]_vars, NEW c \in Callers, pc'[c] = "unmade"
    PROVE  pc[c] = "unmade"
<1>1. CASE \E d \in Devices : Discover(d) \/ Invalidate(d) \/ Age(d)
  BY <1>1, WokenType DEF Discover, Invalidate, Age
<1>2. CASE AgeScan
  BY <1>2 DEF AgeScan
<1>3. CASE \E f \in Finders : FinderStep(f)
  BY <1>3 DEF FinderStep, Check, Throttle, Swap, Look, Decide, Last, Goto, ControlOK
<1>4. CASE \E s \in Streams : StreamStep(s)
  BY <1>4 DEF StreamStep, Load, Store, First, Loop, More, Test, Final, Goto, ControlOK
<1>5. CASE \E e \in Callers : ScanStep(e) \/ CallStep(e) \/ Elapse(e) \/ Drop(e)
  BY <1>5, WokenType DEF ScanStep, CallStep, Elapse, Drop, ScanEnd, ScanNotify,
              Spawn, Arm, TimedOut, Goto, ControlOK
<1>6. CASE UNCHANGED vars
  BY <1>6 DEF vars
<1> QED
  BY <1>1, <1>2, <1>3, <1>4, <1>5, <1>6 DEF Next

\* The invariant of discover_device calls on their own: a scan under way is the
\* only one and is announced by the flag, a call about to spawn owns it, and a
\* call that gave up before its timeout has no scan under way.
FindersInv ==
    /\ \A c \in Callers : Scanning(c) => active
    /\ \A c, d \in Callers : Scanning(c) /\ Scanning(d) => c = d
    /\ \A c \in Callers : pc[c] = "stamp" => scan[c] = "starting"
    /\ \A c \in Callers : pc[c] \in {"last", "none"} => c \in late \/ ~Scanning(c)

\* Without streams FindersInv is inductive.
LEMMA FindersInvariant == Spec => [](NoStreams => FindersInv)
<1>1. Init => FindersInv
  BY DEF Init, FindersInv, Scanning, Callers
<1>2. ControlOK /\ (NoStreams => FindersInv) /\ [Next]_vars => (NoStreams => FindersInv)'
  <2> SUFFICES ASSUME ControlOK, NoStreams => FindersInv, [Next]_vars, NoStreams' PROVE FindersInv'
    OBVIOUS
  <2>0. NoStreams /\ FindersInv
    BY MadeStays DEF NoStreams, Callers
  <2>a. ~ \E s \in Streams : StreamStep(s)
    BY <2>0 DEF NoStreams, StreamStep, Load, Store, First, Loop, More, Test, Final
  <2> USE <2>0 DEF FindersInv, Scanning, ControlOK
  <2>1. CASE \E d \in Devices : Discover(d) \/ Invalidate(d) \/ Age(d)
    BY <2>1, WokenType DEF Discover, Invalidate, Age
  <2>2. CASE AgeScan
    BY <2>2 DEF AgeScan
  <2>3. ASSUME NEW f \in Finders, FinderStep(f) PROVE FindersInv'
    <3> f \in Callers
      BY DEF Callers
    <3>1. CASE Check(f) \/ Throttle(f) \/ Look(f)
      BY <3>1 DEF Check, Throttle, Look, Goto
    <3>2. CASE Swap(f)
      BY <3>2 DEF Swap, Goto
    <3>3. CASE Decide(f)
      BY <3>3 DEF Decide, Goto
    <3>4. CASE Last(f)
      BY <3>4 DEF Last, Goto
    <3> QED
      BY <2>3, <3>1, <3>2, <3>3, <3>4 DEF FinderStep
  <2>4. ASSUME NEW c \in Callers, ScanStep(c) PROVE FindersInv'
    <3>1. CASE ScanEnd(c)
      BY <3>1 DEF ScanEnd
    <3>2. CASE ScanNotify(c)
      BY <3>2, WokenType DEF ScanNotify
    <3> QED
      BY <2>4, <3>1, <3>2 DEF ScanStep
  <2>5. ASSUME NEW c \in Callers, CallStep(c) \/ Elapse(c) \/ Drop(c) PROVE FindersInv'
    <3>1. CASE Spawn(c)
      BY <3>1 DEF Spawn, Goto
    <3>2. CASE Arm(c) \/ TimedOut(c) \/ Drop(c)
      BY <3>2 DEF Arm, TimedOut, Drop, Goto
    <3>3. CASE Elapse(c)
      BY <3>3 DEF Elapse
    <3> QED
      BY <2>5, <3>1, <3>2, <3>3 DEF CallStep
  <2>6. CASE UNCHANGED vars
    BY <2>6 DEF vars
  <2> QED
    BY <2>a, <2>1, <2>2, <2>3, <2>4, <2>5, <2>6 DEF Next
<1> QED
  BY <1>1, <1>2, ControlCorrect, PTL DEF Spec

\* discover_device never has two scans under way, whatever the number of calls.
THEOREM FindersScanAlone == Spec => []SingleScan
<1>1. (NoStreams => FindersInv) => SingleScan
  BY DEF FindersInv, SingleScan
<1> QED
  BY <1>1, FindersInvariant, PTL

\* A discover_device call does not give up on the scan it started.
THEOREM FindersWaitForScan == Spec => []GivesUpAfterScan
<1>1. (NoStreams => FindersInv) => GivesUpAfterScan
  BY DEF FindersInv, GivesUpAfterScan, Callers
<1> QED
  BY <1>1, FindersInvariant, PTL

\* What the calls share and what streams have yielded.
DataOK ==
    /\ cache \in [Devices -> Ages] /\ lastScan \in ScanAges /\ active \in BOOLEAN
    /\ late \subseteq Callers
    /\ yielded_ids \in [Streams -> SUBSET Devices]
    /\ count \in [Streams -> [Devices -> Nat]]

\* A count is a number.
LEMMA CountIsNat ==
    ASSUME DataOK, NEW s \in Streams
    PROVE  count[s] \in [Devices -> Nat] /\ \A d \in Devices : count[s][d] \in Nat
<1>1. count[s] \in [Devices -> Nat]
  BY DEF DataOK
<1> QED
  BY <1>1

\* What a stream yields is counted, for it alone.
LEMMA YieldCounts ==
    ASSUME DataOK, NEW s \in Streams, NEW items, Yield(s, items)
    PROVE  /\ count' \in [Streams -> [Devices -> Nat]]
           /\ \A d \in Devices :
                 count'[s][d] = IF d \in items THEN count[s][d] + 1 ELSE count[s][d]
           /\ \A e \in Streams : e # s => count'[e] = count[e]
<1> DEFINE more == [d \in Devices |-> IF d \in items THEN count[s][d] + 1 ELSE count[s][d]]
<1>1. more \in [Devices -> Nat]
  <2>1. \A d \in Devices : (IF d \in items THEN count[s][d] + 1 ELSE count[s][d]) \in Nat
    BY CountIsNat
  <2> QED
    BY <2>1
<1>2. count' = [count EXCEPT ![s] = more]
  BY DEF Yield
<1>3. \A d \in Devices : more[d] = IF d \in items THEN count[s][d] + 1 ELSE count[s][d]
  OBVIOUS
<1> HIDE DEF more
<1> QED
  BY <1>1, <1>2, <1>3 DEF DataOK

\* Remembering adds the devices of the snapshot.
LEMMA RememberAdds ==
    ASSUME DataOK, NEW s \in Streams, Remember(s, Snapshot)
    PROVE  /\ yielded_ids' \in [Streams -> SUBSET Devices]
           /\ yielded_ids'[s] = yielded_ids[s] \cup Snapshot
           /\ \A e \in Streams : e # s => yielded_ids'[e] = yielded_ids[e]
BY DEF DataOK, Remember, Snapshot

\* Devices are discovered, and yielded, within their types, whatever the calls do.
LEMMA DataCorrect == Spec => []DataOK
<1>1. ASSUME Init PROVE DataOK
  <2>1. yielded_ids \in [Streams -> SUBSET Devices] /\ count \in [Streams -> [Devices -> Nat]]
    BY <1>1 DEF Init
  <2>2. cache \in [Devices -> Ages] /\ lastScan \in ScanAges /\ late \subseteq Callers
    BY <1>1 DEF Init, Ages, ScanAges
  <2>3. active \in BOOLEAN
    BY <1>1 DEF Init
  <2> QED
    BY <2>1, <2>2, <2>3 DEF DataOK
<1>2. DataOK /\ [Next]_vars => DataOK'
  <2> SUFFICES ASSUME DataOK, [Next]_vars PROVE DataOK'
    OBVIOUS
  <2>1. CASE \E d \in Devices : Discover(d) \/ Invalidate(d) \/ Age(d)
    BY <2>1 DEF DataOK, Discover, Invalidate, Age, Ages, yielded
  <2>2. CASE AgeScan
    BY <2>2 DEF DataOK, AgeScan, ScanAges, yielded
  <2>3. CASE \E f \in Finders : FinderStep(f)
    BY <2>3 DEF DataOK, FinderStep, Check, Throttle, Swap, Look, Decide, Last, yielded
  <2>4. CASE \E s \in Streams : First(s) \/ More(s) \/ Final(s)
    BY <2>4, YieldCounts, RememberAdds DEF DataOK, First, More, Final
  <2>5. CASE \E s \in Streams : Load(s) \/ Store(s) \/ Loop(s) \/ Test(s)
    BY <2>5 DEF DataOK, Load, Store, Loop, Test, yielded
  <2>6. CASE \E c \in Callers : ScanStep(c) \/ CallStep(c) \/ Elapse(c) \/ Drop(c)
    BY <2>6 DEF DataOK, ScanStep, CallStep, Elapse, Drop, ScanEnd, ScanNotify, Spawn, Arm,
                TimedOut, ScanAges, yielded
  <2>7. CASE UNCHANGED vars
    BY <2>7 DEF DataOK, vars, yielded
  <2> QED
    BY <2>1, <2>2, <2>3, <2>4, <2>5, <2>6, <2>7 DEF Next, StreamStep
<1> QED
  BY <1>1, <1>2, PTL DEF Spec

\* Every variable keeps its type, for any calls and devices.
THEOREM ScannerTypes == Spec => []TypeOK
<1>1. ControlOK /\ DataOK => TypeOK
  BY DEF ControlOK, DataOK, TypeOK, ScanStates
<1> QED
  BY <1>1, ControlCorrect, DataCorrect, PTL

\* Until a stream ends, the ids it remembers are those it has yielded, once each;
\* before its first poll there are none. The last look may yield one more of each
\* that is not remembered, and the stream makes no other.
Fresh == {"unmade", "load", "store", "stamp", "first"}
YieldInv ==
    \A s \in Streams :
        /\ pc[s] \in Fresh => yielded_ids[s] = {}
        /\ \A d \in Devices :
              /\ count[s][d] <= 1
              /\ pc[s] # "ended" => (count[s][d] = 1 <=> d \in yielded_ids[s])

\* Only the steps of a stream that look at the cache change what it has yielded.
LEMMA YieldSteps ==
    ASSUME [Next]_vars
    PROVE  \/ UNCHANGED yielded
           \/ \E s \in Streams : First(s) \/ More(s) \/ Final(s)
<1>1. CASE \E d \in Devices : Discover(d) \/ Invalidate(d) \/ Age(d)
  BY <1>1 DEF Discover, Invalidate, Age
<1>2. CASE AgeScan
  BY <1>2 DEF AgeScan
<1>3. CASE \E f \in Finders : FinderStep(f)
  BY <1>3 DEF FinderStep, Check, Throttle, Swap, Look, Decide, Last
<1>4. CASE \E s \in Streams : StreamStep(s)
  BY <1>4 DEF StreamStep, Load, Store, Loop, Test
<1>5. CASE \E c \in Callers : ScanStep(c) \/ CallStep(c) \/ Elapse(c) \/ Drop(c)
  BY <1>5 DEF ScanStep, CallStep, Spawn, ScanEnd, ScanNotify, Arm, TimedOut, Elapse, Drop
<1>6. CASE UNCHANGED vars
  BY <1>6 DEF vars, yielded
<1> QED
  BY <1>1, <1>2, <1>3, <1>4, <1>5, <1>6 DEF Next

\* A stream that has begun to yield does not become fresh again, and one that has
\* ended stays so.
LEMMA StreamMoves ==
    ASSUME ControlOK, [Next]_vars, NEW s \in Streams
    PROVE  /\ pc'[s] \in Fresh => pc[s] \in Fresh
           /\ pc[s] = "ended" => pc'[s] = "ended"
<1> s \in Callers
  BY DEF Callers
<1>1. CASE \E d \in Devices : Discover(d) \/ Invalidate(d) \/ Age(d)
  BY <1>1, WokenType DEF Discover, Invalidate, Age, Woken, Fresh
<1>2. CASE AgeScan
  BY <1>2 DEF AgeScan
<1>3. CASE \E f \in Finders : FinderStep(f)
  BY <1>3, ScannerAssumption
     DEF FinderStep, Check, Throttle, Swap, Look, Decide, Last, Goto, ControlOK, Fresh
<1>4. CASE \E e \in Streams : StreamStep(e)
  BY <1>4 DEF StreamStep, Load, Store, First, Loop, More, Test, Final, Goto, ControlOK, Fresh
<1>5. CASE \E e \in Callers : ScanStep(e) \/ CallStep(e) \/ Elapse(e) \/ Drop(e)
  BY <1>5, WokenType DEF ScanStep, CallStep, Elapse, Drop, ScanEnd, ScanNotify,
              Spawn, Arm, TimedOut, Goto, ControlOK, Woken, Fresh
<1>6. CASE UNCHANGED vars
  BY <1>6 DEF vars
<1> QED
  BY <1>1, <1>2, <1>3, <1>4, <1>5, <1>6 DEF Next

\* YieldInv is inductive.
LEMMA YieldStep ==
    ASSUME ControlOK, DataOK, YieldInv, [Next]_vars
    PROVE  YieldInv'
<1>1. CASE UNCHANGED yielded
  BY <1>1, StreamMoves DEF YieldInv, yielded
<1>2. ASSUME NEW s \in Streams, First(s) PROVE YieldInv'
  <2>1. /\ s \in Callers /\ pc'[s] = "loop"
        /\ \A e \in Streams : e # s => pc'[e] = pc[e]
    BY <1>2 DEF First, Goto, ControlOK, Callers
  <2>2. yielded_ids[s] = {} /\ \A d \in Devices : count[s][d] = 0
    BY <1>2, CountIsNat DEF YieldInv, First, Fresh
  <2>3. /\ \A d \in Devices : count'[s][d] = IF d \in Snapshot THEN 1 ELSE 0
        /\ yielded_ids'[s] = Snapshot
        /\ \A e \in Streams : e # s => count'[e] = count[e] /\ yielded_ids'[e] = yielded_ids[e]
    <3>1. Yield(s, Snapshot) /\ Remember(s, Snapshot)
      BY <1>2 DEF First
    <3>2. /\ \A d \in Devices :
                count'[s][d] = IF d \in Snapshot THEN count[s][d] + 1 ELSE count[s][d]
          /\ \A e \in Streams : e # s => count'[e] = count[e]
      BY <3>1, YieldCounts
    <3>3. /\ yielded_ids'[s] = yielded_ids[s] \cup Snapshot
          /\ \A e \in Streams : e # s => yielded_ids'[e] = yielded_ids[e]
      BY <3>1, RememberAdds
    <3> QED
      BY <2>2, <3>2, <3>3
  <2> QED
    BY <2>1, <2>3 DEF YieldInv, Fresh
<1>3. ASSUME NEW s \in Streams, More(s) PROVE YieldInv'
  <2>1. /\ pc[s] = "more" /\ pc'[s] = "test"
        /\ \A e \in Streams : e # s => pc'[e] = pc[e]
    BY <1>3 DEF More, Goto, ControlOK, Callers
  <2>2. /\ \A d \in Devices : count'[s][d] = IF d \in Snapshot \ yielded_ids[s]
                                             THEN count[s][d] + 1 ELSE count[s][d]
        /\ yielded_ids'[s] = yielded_ids[s] \cup Snapshot
        /\ \A e \in Streams : e # s => count'[e] = count[e] /\ yielded_ids'[e] = yielded_ids[e]
    BY <1>3, YieldCounts, RememberAdds DEF More
  <2> QED
    BY <2>1, <2>2, CountIsNat DEF YieldInv, Fresh
<1>4. ASSUME NEW s \in Streams, Final(s) PROVE YieldInv'
  <2>1. /\ pc[s] = "final" /\ pc'[s] = "ended"
        /\ \A e \in Streams : e # s => pc'[e] = pc[e]
    BY <1>4 DEF Final, Goto, ControlOK, Callers
  <2>2. /\ \A d \in Devices : count'[s][d] = IF d \in Snapshot \ yielded_ids[s]
                                             THEN count[s][d] + 1 ELSE count[s][d]
        /\ yielded_ids' = yielded_ids
        /\ \A e \in Streams : e # s => count'[e] = count[e]
    BY <1>4, YieldCounts DEF Final
  <2> QED
    BY <2>1, <2>2, CountIsNat DEF YieldInv, Fresh
<1> QED
  BY <1>1, <1>2, <1>3, <1>4, YieldSteps

\* A stream that ends in time ends with its last look at the cache.
LEMMA EndsWithLook ==
    ASSUME ControlOK, [Next]_vars, NEW s \in Streams, Ends(s), s \notin late
    PROVE  Final(s)
<1> s \in Callers
  BY DEF Callers
<1> USE DEF Ends
<1>1. CASE \E d \in Devices : Discover(d) \/ Invalidate(d) \/ Age(d)
  BY <1>1 DEF Discover, Invalidate, Age, Woken
<1>2. CASE AgeScan
  BY <1>2 DEF AgeScan
<1>3. CASE \E f \in Finders : FinderStep(f)
  BY <1>3, ScannerAssumption DEF FinderStep, Check, Throttle, Swap, Look, Decide, Last, Goto, ControlOK
<1>4. CASE \E e \in Streams : StreamStep(e)
  BY <1>4 DEF StreamStep, Load, Store, First, Loop, More, Test, Final, Goto, ControlOK
<1>5. CASE \E e \in Callers : ScanStep(e) \/ CallStep(e) \/ Elapse(e) \/ Drop(e)
  BY <1>5 DEF ScanStep, CallStep, Elapse, Drop, ScanEnd, ScanNotify,
              Spawn, Arm, TimedOut, Goto, ControlOK, Woken
<1>6. CASE UNCHANGED vars
  BY <1>6 DEF vars
<1> QED
  BY <1>1, <1>2, <1>3, <1>4, <1>5, <1>6 DEF Next

\* However devices come, go and come back between its snapshots, a stream yields
\* none twice, and one that ends in time has yielded all that are cached.
THEOREM StreamsComplete == Spec => StreamsYieldEach
<1> DEFINE Good == \A s \in Streams : \A d \in Devices :
          /\ count'[s][d] <= 1
          /\ Ends(s) /\ s \notin late /\ Cached(d) => count'[s][d] = 1
<1>1. Init => YieldInv
  BY DEF Init, YieldInv
<1>2. ControlOK /\ DataOK /\ YieldInv /\ [Next]_vars => YieldInv'
  BY YieldStep
<1>3. ControlOK /\ DataOK /\ YieldInv /\ [Next]_vars => [Good]_vars
  <2> SUFFICES ASSUME ControlOK, DataOK, YieldInv, [Next]_vars,
                      NEW s \in Streams, NEW d \in Devices
               PROVE  /\ count'[s][d] <= 1
                      /\ Ends(s) /\ s \notin late /\ Cached(d) => count'[s][d] = 1
    OBVIOUS
  <2>1. count'[s][d] <= 1
    BY <1>2 DEF YieldInv
  <2>2. ASSUME Ends(s), s \notin late, Cached(d) PROVE count'[s][d] = 1
    <3>1. Final(s)
      BY <2>2, EndsWithLook
    <3>2. pc[s] = "final" /\ (count[s][d] = 1 <=> d \in yielded_ids[s]) /\ count[s][d] <= 1
      BY <3>1 DEF Final, YieldInv
    <3>3. d \in Snapshot
      BY <2>2 DEF Snapshot
    <3> QED
      <4>1. Yield(s, Snapshot \ yielded_ids[s])
        BY <3>1 DEF Final
      <4>2. count'[s][d] = IF d \in Snapshot \ yielded_ids[s] THEN count[s][d] + 1 ELSE count[s][d]
        BY <4>1, YieldCounts
      <4>3. count[s][d] \in Nat
        BY CountIsNat
      <4> QED
        BY <3>2, <3>3, <4>2, <4>3
  <2> QED
    BY <2>1, <2>2
<1> QED
  BY <1>1, <1>2, <1>3, ControlCorrect, DataCorrect, PTL DEF Spec, StreamsYieldEach

=============================================================================
