------------------------------ MODULE Scanner ------------------------------
(***************************************************************************)
(* Discovery (src/scanner.rs): the cache of discovered devices, the active *)
(* scans, and those who wait for them. A finder is a discover_device call, *)
(* a stream a scan_stream call. Calls run on several threads, so a step is *)
(* one access to the shared state. Durations are abstracted to the         *)
(* intervals the code compares them with.                                  *)
(***************************************************************************)
EXTENDS Naturals, FiniteSets

CONSTANTS
    Devices,   \* device ids
    Finders,   \* discover_device calls
    Streams,   \* scan_stream calls
    Target,    \* device each finder looks for
    Forced,    \* finders called with force_scan
    Mixes      \* sets of calls that are made together

Callers == Finders \cup Streams

ASSUME ScannerAssumption ==
    /\ Finders \cap Streams = {}
    /\ IsFiniteSet(Callers)
    /\ Target \in [Finders -> Devices]
    /\ Forced \subseteq Finders
    /\ \A mix \in Mixes : mix \subseteq Callers

VARIABLES
    cache,     \* age of the entry of each device: under GLOBAL_SCAN_COOLDOWN,
               \* under CACHE_TTL or expired
    lastScan,  \* age of last_scan_time: under SCAN_THROTTLE_INTERVAL, under
               \* GLOBAL_SCAN_COOLDOWN or older
    active,    \* active_scanning
    scan,      \* the background scan each caller has started
    pc,        \* where each call is
    late,      \* calls whose timeout has elapsed
    yielded_ids,  \* ids each stream remembers to have yielded
    count      \* how often each stream has yielded each device

yielded == <<yielded_ids, count>>
vars == <<cache, lastScan, active, scan, pc, late, yielded>>

Ages == {"absent", "recent", "old", "expired"}
ScanAges == {"never", "throttled", "cooling", "old"}
FinderSteps == {"unmade", "check", "throttle", "swap", "stamp", "look", "decide", "last",
                "arm", "parked", "found", "none", "dropped"}
StreamSteps == {"unmade", "load", "store", "stamp", "first", "loop", "arm", "parked", "more",
                "test", "final", "ended", "dropped"}

TypeOK ==
    /\ cache \in [Devices -> Ages]
    /\ lastScan \in ScanAges
    /\ active \in BOOLEAN
    /\ scan \in [Callers -> {"none", "starting", "running", "cleared", "done"}]
    /\ pc \in [Callers -> FinderSteps \cup StreamSteps]
    /\ late \subseteq Callers
    /\ yielded_ids \in [Streams -> SUBSET Devices]
    /\ count \in [Streams -> [Devices -> Nat]]

\* A scanner is created when nothing has been found. Some calls are made.
Init ==
    /\ cache = [d \in Devices |-> "absent"]
    /\ lastScan = "never"
    /\ active = FALSE
    /\ scan = [c \in Callers |-> "none"]
    /\ \E mix \in Mixes :
           pc = [c \in Callers |-> IF c \notin mix THEN "unmade"
                                  ELSE IF c \in Finders THEN "check" ELSE "load"]
    /\ late = {}
    /\ yielded_ids = [s \in Streams |-> {}]
    /\ count = [s \in Streams |-> [d \in Devices |-> 0]]

Cached(d) == cache[d] # "absent"
Snapshot == {d \in Devices : Cached(d)}
Scanning(c) == scan[c] \in {"starting", "running"}
Goto(c, l) == pc' = [pc EXCEPT ![c] = l]

\* notify_waiters: only calls that are parked are woken.
Woken ==
    [c \in Callers |->
        IF pc[c] = "parked" THEN IF c \in Finders THEN "look" ELSE "more" ELSE pc[c]]

(***************************************************************************)
(* Discovered devices and time                                             *)
(***************************************************************************)

\* The passive listener handles a packet: expired entries go, the device found
\* is inserted, waiters are notified.
Discover(d) ==
    /\ cache' = [e \in Devices |-> IF e = d THEN "recent"
                                   ELSE IF cache[e] = "expired" THEN "absent" ELSE cache[e]]
    /\ pc' = Woken
    /\ UNCHANGED <<lastScan, active, scan, late, yielded>>

\* invalidate_cache, called by a device that failed to connect.
Invalidate(d) ==
    /\ Cached(d)
    /\ cache' = [cache EXCEPT ![d] = "absent"]
    /\ UNCHANGED <<lastScan, active, scan, pc, late, yielded>>

Age(d) ==
    /\ \/ cache[d] = "recent" /\ cache' = [cache EXCEPT ![d] = "old"]
       \/ cache[d] = "old" /\ cache' = [cache EXCEPT ![d] = "expired"]
    /\ UNCHANGED <<lastScan, active, scan, pc, late, yielded>>

AgeScan ==
    /\ \/ lastScan = "throttled" /\ lastScan' = "cooling"
       \/ lastScan = "cooling" /\ lastScan' = "old"
    /\ UNCHANGED <<cache, active, scan, pc, late, yielded>>

(***************************************************************************)
(* Background scans                                                        *)
(***************************************************************************)

\* last_scan_time is set and the scan spawned.
Spawn(c) ==
    /\ pc[c] = "stamp"
    /\ lastScan' = "throttled"
    /\ scan' = [scan EXCEPT ![c] = "running"]
    /\ Goto(c, IF c \in Finders THEN "look" ELSE "first")
    /\ UNCHANGED <<cache, active, late, yielded>>

\* Mutant: the flag is left set when the discovery loop ends.
ScanEndForgotten(c) ==
    /\ scan[c] = "running"
    /\ scan' = [scan EXCEPT ![c] = "cleared"]
    /\ UNCHANGED <<cache, lastScan, active, pc, late, yielded>>

\* perform_discovery_loop ends, on time or for want of sockets; its broadcasts
\* show as Discover steps.
ScanEnd(c) ==
    /\ scan[c] = "running"
    /\ scan' = [scan EXCEPT ![c] = "cleared"]
    /\ active' = FALSE
    /\ UNCHANGED <<cache, lastScan, pc, late, yielded>>

ScanNotify(c) ==
    /\ scan[c] = "cleared"
    /\ scan' = [scan EXCEPT ![c] = "done"]
    /\ pc' = Woken
    /\ UNCHANGED <<cache, lastScan, active, late, yielded>>

(***************************************************************************)
(* discover_device                                                         *)
(***************************************************************************)

\* check_cache_and_cooldown
Check(f) ==
    /\ pc[f] = "check"
    /\ LET hit == /\ f \notin Forced
                  /\ \/ cache[Target[f]] = "recent"
                     \/ Cached(Target[f]) /\ lastScan \in {"throttled", "cooling"}
       IN Goto(f, IF hit THEN "found" ELSE "throttle")
    /\ UNCHANGED <<cache, lastScan, active, scan, late, yielded>>

\* ensure_scan_started reads last_scan_time ...
Throttle(f) ==
    /\ pc[f] = "throttle"
    /\ Goto(f, IF f \notin Forced /\ lastScan = "throttled" THEN "look" ELSE "swap")
    /\ UNCHANGED <<cache, lastScan, active, scan, late, yielded>>

\* Mutant: the flag is set without looking at what it was.
SwapBlind(f) ==
    /\ pc[f] = "swap"
    /\ active' = TRUE
    /\ Goto(f, "stamp")
    /\ scan' = [scan EXCEPT ![f] = "starting"]
    /\ UNCHANGED <<cache, lastScan, late, yielded>>

\* ... and sets active_scanning, which decides between several callers.
Swap(f) ==
    /\ pc[f] = "swap"
    /\ active' = TRUE
    /\ IF active
       THEN Goto(f, "look") /\ UNCHANGED scan
       ELSE Goto(f, "stamp") /\ scan' = [scan EXCEPT ![f] = "starting"]
    /\ UNCHANGED <<cache, lastScan, late, yielded>>

\* wait_for_cache_result: the cache, then the timeout and the flag, then the
\* cache once more before giving up.
Look(f) ==
    /\ pc[f] = "look"
    /\ Goto(f, IF Cached(Target[f]) THEN "found" ELSE "decide")
    /\ UNCHANGED <<cache, lastScan, active, scan, late, yielded>>

\* Mutant: the flag is not looked at, the first miss is final.
DecideAtOnce(f) ==
    /\ pc[f] = "decide"
    /\ Goto(f, "last")
    /\ UNCHANGED <<cache, lastScan, active, scan, late, yielded>>

Decide(f) ==
    /\ pc[f] = "decide"
    /\ Goto(f, IF f \in late \/ ~active THEN "last" ELSE "arm")
    /\ UNCHANGED <<cache, lastScan, active, scan, late, yielded>>

Last(f) ==
    /\ pc[f] = "last"
    /\ Goto(f, IF Cached(Target[f]) THEN "found" ELSE "none")
    /\ UNCHANGED <<cache, lastScan, active, scan, late, yielded>>

\* notified(): notifications sent before this moment are not seen.
Arm(c) ==
    /\ pc[c] = "arm"
    /\ Goto(c, "parked")
    /\ UNCHANGED <<cache, lastScan, active, scan, late, yielded>>

(***************************************************************************)
(* scan_stream                                                             *)
(***************************************************************************)

\* The flag and the cooldown are read when the stream is created ...
Load(s) ==
    /\ pc[s] = "load"
    /\ Goto(s, IF ~active /\ lastScan \in {"never", "old"} THEN "store" ELSE "first")
    /\ UNCHANGED <<cache, lastScan, active, scan, late, yielded>>

\* ... and the flag is stored afterwards.
Store(s) ==
    /\ pc[s] = "store"
    /\ active' = TRUE
    /\ scan' = [scan EXCEPT ![s] = "starting"]
    /\ Goto(s, "stamp")
    /\ UNCHANGED <<cache, lastScan, late, yielded>>

\* The stream hands out the devices of a snapshot of the cache.
Yield(s, items) ==
    count' = [count EXCEPT ![s] = [d \in Devices |-> IF d \in items THEN @[d] + 1 ELSE @[d]]]
Remember(s, items) == yielded_ids' = [yielded_ids EXCEPT ![s] = @ \cup items]

\* The first poll yields all that is cached.
First(s) ==
    /\ pc[s] = "first"
    /\ Yield(s, Snapshot)
    /\ Remember(s, Snapshot)
    /\ Goto(s, "loop")
    /\ UNCHANGED <<cache, lastScan, active, scan, late>>

Loop(s) ==
    /\ pc[s] = "loop"
    /\ Goto(s, IF s \in late THEN "ended" ELSE "arm")
    /\ UNCHANGED <<cache, lastScan, active, scan, late, yielded>>

\* Mutant: what a notification makes the stream yield is not remembered.
MoreForgets(s) ==
    /\ pc[s] = "more"
    /\ Yield(s, Snapshot \ yielded_ids[s])
    /\ Goto(s, "test")
    /\ UNCHANGED <<cache, lastScan, active, scan, late, yielded_ids>>

\* A notification: yield what is new, look at the flag, and when no scan is
\* going on yield what is new once more and end.
More(s) ==
    /\ pc[s] = "more"
    /\ Yield(s, Snapshot \ yielded_ids[s])
    /\ Remember(s, Snapshot)
    /\ Goto(s, "test")
    /\ UNCHANGED <<cache, lastScan, active, scan, late>>

Test(s) ==
    /\ pc[s] = "test"
    /\ Goto(s, IF active THEN "loop" ELSE "final")
    /\ UNCHANGED <<cache, lastScan, active, scan, late, yielded>>

\* The last look is not remembered; the stream ends with it.
Final(s) ==
    /\ pc[s] = "final"
    /\ Yield(s, Snapshot \ yielded_ids[s])
    /\ Goto(s, "ended")
    /\ UNCHANGED <<cache, lastScan, active, scan, late, yielded_ids>>

(***************************************************************************)
(* Timeouts and dropped futures                                            *)
(***************************************************************************)

\* A finder's timeout runs from its first look, a stream's from its creation.
Elapse(c) ==
    /\ c \notin late
    /\ IF c \in Finders
       THEN pc[c] \in {"look", "decide", "last", "arm", "parked"}
       ELSE pc[c] \notin {"unmade", "load", "ended", "dropped"}
    /\ late' = late \cup {c}
    /\ UNCHANGED <<cache, lastScan, active, scan, pc, yielded>>

\* Mutant: the stream waits for notifications only.
TimedOutFinder(c) ==
    /\ c \in late
    /\ pc[c] = "parked" /\ c \in Finders
    /\ Goto(c, "look")
    /\ UNCHANGED <<cache, lastScan, active, scan, late, yielded>>

\* The wait ends with the timeout. When a notification came as well, select!
\* takes either.
TimedOut(c) ==
    /\ c \in late
    /\ pc[c] = "parked" \/ (c \in Streams /\ pc[c] = "more")
    /\ Goto(c, IF c \in Finders THEN "look" ELSE "ended")
    /\ UNCHANGED <<cache, lastScan, active, scan, late, yielded>>

\* The caller drops the future or the stream while it waits.
Drop(c) ==
    /\ pc[c] = "parked" \/ (c \in Streams /\ pc[c] = "first")
    /\ Goto(c, "dropped")
    /\ UNCHANGED <<cache, lastScan, active, scan, late, yielded>>

FinderStep(f) ==
    Check(f) \/ Throttle(f) \/ Swap(f) \/ Look(f) \/ Decide(f) \/ Last(f)
StreamStep(s) == Load(s) \/ Store(s) \/ First(s) \/ Loop(s) \/ More(s) \/ Test(s) \/ Final(s)
ScanStep(c) == ScanEnd(c) \/ ScanNotify(c)
CallStep(c) == Spawn(c) \/ Arm(c) \/ TimedOut(c)

Next ==
    \/ \E d \in Devices : Discover(d) \/ Invalidate(d) \/ Age(d)
    \/ AgeScan
    \/ \E f \in Finders : FinderStep(f)
    \/ \E s \in Streams : StreamStep(s)
    \/ \E c \in Callers : ScanStep(c) \/ CallStep(c) \/ Elapse(c) \/ Drop(c)

Spec == Init /\ [][Next]_vars

\* Timers elapse, threads and tasks run and their callers poll them. Nothing is
\* assumed of devices answering.
FairSpec ==
    /\ Spec
    /\ \A f \in Finders : WF_vars(FinderStep(f))
    /\ \A s \in Streams : WF_vars(StreamStep(s))
    /\ \A c \in Callers : WF_vars(ScanStep(c)) /\ WF_vars(CallStep(c)) /\ WF_vars(Elapse(c))

(***************************************************************************)
(* Properties                                                              *)
(***************************************************************************)

\* active_scanning is never left behind: while it is set, a scan that will
\* clear it is under way, so discovery cannot be blocked for good.
FlagBacked == active => \E c \in Callers : Scanning(c)

NoStreams == \A s \in Streams : pc[s] = "unmade"

\* Calls of discover_device alone never have two scans under way.
SingleScan ==
    NoStreams => \A c, d \in Callers : Scanning(c) /\ Scanning(d) => c = d

\* A call of discover_device that started a scan gives up only when that scan is
\* over or its timeout has elapsed.
GivesUpAfterScan ==
    NoStreams => \A f \in Finders : pc[f] = "none" => f \in late \/ ~Scanning(f)

Ends(s) == pc[s] # "ended" /\ pc'[s] = "ended"

\* A stream yields a device at most once, however often it is discovered,
\* invalidated and discovered again; and when it ends before its timeout it has
\* yielded every device of the cache, those that came after its last notification
\* included.
StreamsYieldEach ==
    [][\A s \in Streams : \A d \in Devices :
          /\ count'[s][d] <= 1
          /\ Ends(s) /\ s \notin late /\ Cached(d) => count'[s][d] = 1]_vars

\* Every call ends, also when the notification it needs was sent just before
\* it began to wait.
CallsEnd ==
    /\ \A f \in Finders : <>(pc[f] \in {"unmade", "found", "none", "dropped"})
    /\ \A s \in Streams : <>(pc[s] \in {"unmade", "ended", "dropped"})

=============================================================================
