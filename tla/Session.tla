------------------------------ MODULE Session -------------------------------
(***************************************************************************)
(* A connection from its address to its answers (src/device.rs): address   *)
(* and version resolution, session key negotiation, the keys and protocol  *)
(* each packet is written and read with, device22 detection and response   *)
(* matching, while user threads change the settings. The connection task,  *)
(* the reader task and the user run on several threads: a step is one use  *)
(* of the shared DeviceState. Retries, queueing and shutdown are those of  *)
(* DeviceTask; the device is persistent and nowait is off.                 *)
(*                                                                         *)
(* The device, the network and the scanner are external: a device answers  *)
(* what it can read, and closes the connection on what it cannot.          *)
(***************************************************************************)
EXTENDS Broadcasts, FiniteSets

CONSTANTS
    Addresses,       \* addresses a device may have
    AutoAddress,     \* ADDR_AUTO
    AnyAddress,      \* 0.0.0.0, not explicit and not ADDR_AUTO either
    DeviceVersions,  \* versions the device may speak
    UserVersions,    \* versions the user may set
    UserTypes,       \* device types the user may set
    MaxChanges       \* settings changed by the user, moves of the device, broken
                     \* connections and lost packets, together

ASSUME SessionAssumption ==
    /\ AutoAddress \notin Addresses /\ AnyAddress \notin Addresses /\ AutoAddress # AnyAddress
    /\ DeviceVersions \subseteq Versions
    /\ UserVersions \subseteq Versions \cup {AutoVersion}
    /\ UserTypes \subseteq DeviceTypes
    /\ MaxChanges \in Nat

VARIABLES
    state,      \* DeviceState: version, dev_type, config_address, real_ip, force_discovery
    sessionKey, \* session_key
    cache,      \* address the scanner has cached for the device, or AutoAddress
    device,     \* the device: its address, version, the version it announces (AutoVersion if
                \* none), its type, and its key on this connection
    pc,         \* where the connection task is
    target,     \* address read, then resolved, by resolve_address
    proto,      \* protocol negotiate_session_key has taken
    nonce,      \* which nonces this negotiation uses: differs from the last one's
    toDevice, toClient, \* packets under way, at most one each way
    reading,    \* the packet being read: by the task while it negotiates, by the reader of
                \* this connection, or by that of the last one, aborted meanwhile
    request,    \* the request being processed
    inbox,      \* what has been broadcast since the request subscribed
    last,       \* how the last request ended
    edits, faults

vars == <<state, sessionKey, cache, device, pc, target, proto, nonce, toDevice, toClient,
          reading, request, inbox, last, edits, faults>>

connection == <<pc, target, proto, nonce>>
wires == <<toDevice, toClient>>
exchange == <<request, inbox, last>>
bounds == <<edits, faults>>

LocalKey == 0

\* The key both ends derive from the nonces; 3.5 encrypts it in its own way.
SessionKey(version, n) == n + (IF version = 35 THEN 10 ELSE 0)

\* get_cipher returns the cached cipher only if it has this key.
get_cipher == IF sessionKey # NoKey THEN sessionKey ELSE LocalKey

Protocol == get_protocol(state.version, state.devType)
Explicit(a) == a \in Addresses

Idle == [at |-> "idle"]
NoRequest == [at |-> "none"]

MayChange == edits + faults < MaxChanges

(***************************************************************************)
(* Initial states: the settings the builder leaves, before discovery.      *)
(***************************************************************************)
Init ==
    /\ \E v \in UserVersions \cup {AutoVersion}, a \in Addresses \cup {AutoAddress}, t \in UserTypes \cup {"auto"} :
           state = [version |-> v, devType |-> t, address |-> a, realIp |-> a, force |-> FALSE]
    /\ \E v \in DeviceVersions, a \in Addresses, is22 \in BOOLEAN :
           /\ is22 => v = 33
           /\ \E announced \in {v, AutoVersion} :
                  device = [home |-> a, version |-> v, announced |-> announced, is22 |-> is22,
                            key |-> NoKey, open |-> FALSE]
    /\ sessionKey = NoKey
    /\ cache = AutoAddress
    /\ pc = "idle" /\ target = AutoAddress /\ proto = 33 /\ nonce = 1
    /\ toDevice = <<>> /\ toClient = <<>>
    /\ reading = Idle /\ request = NoRequest /\ inbox = <<>> /\ last = "none"
    /\ edits = 0 /\ faults = 0

(***************************************************************************)
(* The user: set_version, set_dev_type, set_address, at any time.          *)
(***************************************************************************)
Edit(s) ==
    /\ MayChange
    /\ s # state
    /\ state' = s
    /\ edits' = edits + 1
    /\ UNCHANGED <<sessionKey, cache, device, connection, wires, reading, exchange, faults>>

set_version(v) == Edit([state EXCEPT !.version = v])
set_dev_type(t) == Edit([state EXCEPT !.devType = t])
set_address(a) == Edit([state EXCEPT !.address = a, !.force = TRUE])

(***************************************************************************)
(* resolve_address                                                         *)
(***************************************************************************)
ResolveAddress ==
    /\ pc = "idle"
    /\ target' = state.address
    /\ pc' = IF Explicit(state.address) /\ state.version # AutoVersion /\ ~state.force
             THEN "dial" ELSE "discover"
    /\ UNCHANGED <<state, sessionKey, cache, device, proto, nonce, wires, reading, exchange, bounds>>

\* Mutant: the version found replaces the user's.
DiscoveredOverwrites ==
    /\ pc = "discover" /\ cache # AutoAddress
    /\ LET ip == IF Explicit(target) THEN target ELSE cache
       IN  /\ state' = [state EXCEPT !.version = device.announced, !.realIp = ip, !.force = FALSE]
           /\ target' = ip
    /\ pc' = "dial"
    /\ UNCHANGED <<sessionKey, cache, device, proto, nonce, wires, reading, exchange, bounds>>

\* discover_device_internal returns a cached entry, forced or not. The version is
\* taken only if the entry has one and that of the settings is still AutoVersion now;
\* the address was read before the search.
Discovered ==
    /\ pc = "discover" /\ cache # AutoAddress
    /\ LET ip == IF Explicit(target) THEN target ELSE cache
       IN  /\ state' = [state EXCEPT !.version = IF @ = AutoVersion THEN device.announced ELSE @,
                                     !.realIp = ip, !.force = FALSE]
           /\ target' = ip
    /\ pc' = "dial"
    /\ UNCHANGED <<sessionKey, cache, device, proto, nonce, wires, reading, exchange, bounds>>

\* The search ends without the device; an explicit address is used all the same.
NotDiscovered ==
    /\ pc = "discover" /\ cache = AutoAddress
    /\ Explicit(target)
    /\ state' = [state EXCEPT !.realIp = target, !.force = FALSE]
    /\ pc' = "dial"
    /\ UNCHANGED <<sessionKey, cache, device, target, proto, nonce, wires, reading, exchange, bounds>>

\* A failed attempt. With ADDR_AUTO, errors that hint at the wrong device make the
\* next attempt search again.
AttemptEnds(error) ==
    /\ pc' = "idle"
    /\ IF state.address = AutoAddress /\ error \in {"KeyOrVersionError", "Offline"}
       THEN state' = [state EXCEPT !.force = TRUE] /\ cache' = AutoAddress
       ELSE UNCHANGED <<state, cache>>
    /\ device' = [device EXCEPT !.open = FALSE, !.key = NoKey]
    /\ toDevice' = <<>> /\ toClient' = <<>>
    /\ UNCHANGED <<sessionKey, target, proto, nonce, exchange, edits>>

(***************************************************************************)
(* connect_and_handshake, negotiate_session_key                            *)
(***************************************************************************)
Dial ==
    /\ pc = "dial" /\ target = device.home
    /\ device' = [device EXCEPT !.open = TRUE, !.key = NoKey]
    /\ pc' = "tcp"
    /\ UNCHANGED <<state, sessionKey, cache, target, proto, nonce, wires, reading, exchange, bounds>>

\* Nobody is at the address: a timeout, a refusal or an I/O error, all alike here.
DialFails == pc = "dial" /\ target # device.home /\ AttemptEnds("Timeout") /\ UNCHANGED <<reading, faults>>

NeedsSession ==
    /\ pc = "tcp"
    /\ pc' = IF requires_session_key(Protocol) THEN "negotiate" ELSE "up"
    /\ UNCHANGED <<state, sessionKey, cache, device, target, proto, nonce, wires, reading, exchange, bounds>>

\* The protocol that derives the key is read once; every packet reads it again.
Negotiate ==
    /\ pc = "negotiate"
    /\ proto' = Protocol.version
    /\ nonce' = 3 - nonce
    /\ pc' = "start"
    /\ UNCHANGED <<state, sessionKey, cache, device, target, wires, reading, exchange, bounds>>

\* build_message, pack_msg and send_raw_to_stream
pack_msg(command, b) ==
    LET key == get_cipher
    IN  pack_message(get_prefix(Protocol), command, pack_payload(Protocol, command, key, b),
                     get_hmac_key(Protocol, key))

\* What is written after the device has closed the connection is lost.
Send(packet) ==
    /\ toDevice = <<>>
    /\ toDevice' = IF device.open THEN <<packet>> ELSE <<>>

SendNegotiation(here, command, text, next) ==
    /\ pc = here
    /\ Send(pack_msg(command, Plain(text)))
    /\ pc' = next
    /\ UNCHANGED <<state, sessionKey, cache, device, target, proto, nonce, toClient, reading,
                   exchange, bounds>>

SendStart == SendNegotiation("start", "SessKeyNegStart", "nonce", "await")
SendFinish == SendNegotiation("finish", "SessKeyNegFinish", "hmac", "store")

StoreKey ==
    /\ pc = "store"
    /\ sessionKey' = SessionKey(proto, nonce)
    /\ pc' = "up"
    /\ UNCHANGED <<state, cache, device, target, proto, nonce, wires, reading, exchange, bounds>>

\* The attempt runs into its timeout, or the connection ends, while it waits. A
\* search that finds nothing is a fault too, for a device that announces itself.
AttemptFails ==
    /\ \/ pc = "discover" /\ AttemptEnds("Offline")
       \/ pc \in {"dial", "tcp", "start", "finish"} /\ \E e \in {"Timeout", "Offline"} : AttemptEnds(e)
       \/ pc = "await" /\ reading = Idle /\ \E e \in {"Timeout", "Offline"} : AttemptEnds(e)
    /\ MayChange
    /\ faults' = faults + 1
    /\ UNCHANGED reading

\* The device has closed the connection instead of answering.
HandshakeClosed ==
    /\ pc = "await" /\ reading = Idle /\ toClient = <<>> /\ ~device.open
    /\ AttemptEnds("KeyOrVersionError")
    /\ UNCHANGED <<reading, faults>>

(***************************************************************************)
(* read_and_parse_from_stream: the framing is that of PacketReader. The    *)
(* settings are read before the packet is unpacked, and again before its   *)
(* payload is decrypted.                                                   *)
(***************************************************************************)
TakePacket ==
    /\ reading = Idle /\ toClient # <<>> /\ pc \in {"await", "up"}
    /\ reading' = [at |-> "unpack", by |-> IF pc = "up" THEN "reader" ELSE "task",
                   packet |-> Head(toClient), before |-> state.devType]
    /\ toClient' = <<>>
    /\ UNCHANGED <<state, sessionKey, cache, device, connection, toDevice, exchange, bounds>>

ReadSettings ==
    /\ reading.at \in {"unpack", "decrypt"}
    /\ reading' = [at |-> IF reading.at = "unpack" THEN "unpacking" ELSE "decrypting",
                   by |-> reading.by, packet |-> reading.packet, before |-> reading.before,
                   protocol |-> Protocol, devType |-> state.devType, key |-> get_cipher]
    /\ UNCHANGED <<state, sessionKey, cache, device, connection, wires, exchange, bounds>>

SwitchToDevice22(detected) ==
    state' = IF detected THEN [state EXCEPT !.devType = "device22"] ELSE state

MayDetect == should_check_dev22_fallback(reading.protocol) /\ reading.devType = "auto"

\* Mutant: the second try is not looked at.
DetectedUntried(first, second) == first.err # "none" /\ MayDetect

\* A packet that cannot be unpacked is tried again as one without a key.
Detected(first, second) == first.err # "none" /\ MayDetect /\ second.err = "none"

\* The message is broadcast by process_socket_data or returned to the negotiation.
\* A packet under which the type changed is reported as an error.
Conclude(kind, b) ==
    LET changed == reading.before # "device22" /\ state'.devType = "device22"
        msg == [kind |-> IF changed /\ kind # "error" THEN "devtype" ELSE kind,
                command |-> reading.packet.command, bytes |-> b]
        notJson == msg.kind = "data" /\ b # Plain("json")
    IN  IF reading.by # "task"
        THEN /\ reading' = Idle
             /\ inbox' = IF request.at = "none" THEN inbox
                         ELSE Append(inbox, IF notJson THEN [msg EXCEPT !.kind = "error"] ELSE msg)
        ELSE reading' = [at |-> "read", msg |-> msg] /\ UNCHANGED inbox

Unpacked ==
    LET r == reading
        key == get_hmac_key(r.protocol, r.key)
        first == unpack_message(r.packet, key, TRUE)
        second == unpack_message(r.packet, NoKey, TRUE)
        detected == Detected(first, second)
        b == IF detected THEN second.bytes ELSE first.bytes
    IN  /\ r.at = "unpacking"
        /\ first.err # "panic"
        /\ SwitchToDevice22(detected)
        /\ IF first.err # "none" /\ ~detected THEN Conclude("error", Plain(""))
           ELSE IF Empty(b) THEN Conclude("ack", b)
           ELSE /\ reading' = [at |-> "decrypt", by |-> r.by, before |-> r.before,
                               packet |-> [r.packet EXCEPT !.bytes = b]]
                /\ UNCHANGED inbox
        /\ UNCHANGED <<sessionKey, cache, device, connection, wires, request, last, bounds>>

ReaderPanics ==
    /\ reading.at = "unpacking"
    /\ unpack_message(reading.packet, get_hmac_key(reading.protocol, reading.key), TRUE).err = "panic"
    /\ reading' = IF reading.by = "aborted" THEN Idle ELSE [at |-> "panicked"]
    /\ UNCHANGED <<state, sessionKey, cache, device, connection, wires, exchange, bounds>>

\* "data unvalid", readable after decryption, gives a device22 away.
Decrypted ==
    LET r == reading
        plain == decrypt_payload(r.protocol, r.key, r.packet.bytes)
        b == plain.bytes
    IN  /\ r.at = "decrypting"
        /\ SwitchToDevice22(MayDetect /\ plain.err = "none" /\ b = Plain("data unvalid"))
        /\ Conclude(IF plain.err # "none" THEN "error" ELSE IF Empty(b) THEN "ack" ELSE "data", b)
        /\ UNCHANGED <<sessionKey, cache, device, connection, wires, request, last, bounds>>

\* What negotiate_session_key makes of the message it has read.
verify_session_key_response(msg) ==
    IF msg.command # "SessKeyNegResp" \/ msg.kind \in {"error", "devtype", "ack"}
    THEN "KeyOrVersionError"
    ELSE IF msg.bytes # Plain("remoteNonce") THEN "EncryptionFailed" ELSE "none"

ResponseVerified ==
    /\ pc = "await" /\ reading.at = "read"
    /\ verify_session_key_response(reading.msg) = "none"
    /\ pc' = "finish"
    /\ reading' = Idle
    /\ UNCHANGED <<state, sessionKey, cache, device, target, proto, nonce, wires, exchange, bounds>>

ResponseRefused ==
    /\ pc = "await" /\ reading.at = "read"
    /\ LET error == verify_session_key_response(reading.msg)
       IN  error # "none" /\ AttemptEnds(error)
    /\ reading' = Idle
    /\ UNCHANGED faults

(***************************************************************************)
(* process_command of a query, process_heartbeat. The command to send is   *)
(* chosen, the packet written and the expected command chosen with three   *)
(* reads of the settings; answers are collected from the first of them on. *)
(***************************************************************************)
Serving == pc = "up" /\ request.at = "none"

Query ==
    /\ Serving
    /\ request' = [at |-> "send", sent |-> get_effective_command(Protocol, "DpQuery")]
    /\ inbox' = <<>> /\ last' = "none"
    /\ UNCHANGED <<state, sessionKey, cache, device, connection, wires, reading, bounds>>

SendQuery ==
    /\ request.at = "send"
    /\ Send(pack_msg(request.sent, Plain("json")))
    /\ request' = [request EXCEPT !.at = "sent"]
    /\ UNCHANGED <<state, sessionKey, cache, device, connection, toClient, reading, inbox, last, bounds>>

ExpectResponse ==
    /\ request.at = "sent"
    /\ request' = [at |-> "wait", sent |-> request.sent,
                   expected |-> get_effective_command(Protocol, "DpQuery")]
    /\ UNCHANGED <<state, sessionKey, cache, device, connection, wires, reading, inbox, last, bounds>>

\* Errors have command 0 and answer any request.
Matches(msg) ==
    msg.kind \in {"error", "devtype"} \/ msg.command \in {request.expected, "Status"}

Response ==
    /\ request.at = "wait" /\ inbox # <<>>
    /\ IF Matches(Head(inbox))
       THEN request' = NoRequest /\ inbox' = <<>> /\ last' = Head(inbox).kind
       ELSE inbox' = Tail(inbox) /\ UNCHANGED <<request, last>>
    /\ UNCHANGED <<state, sessionKey, cache, device, connection, wires, reading, bounds>>

\* The response is late, or nothing is left that could become one.
ResponseTimeout ==
    /\ request.at = "wait" /\ inbox = <<>>
    /\ \/ MayChange /\ faults' = faults + 1
       \/ /\ (wires = <<<<>>, <<>>>> /\ reading = Idle) \/ reading.at = "panicked"
          /\ UNCHANGED faults
    /\ request' = NoRequest /\ last' = "timeout"
    /\ UNCHANGED <<state, sessionKey, cache, device, connection, wires, reading, inbox, edits>>

Heartbeat ==
    /\ Serving /\ device.open
    /\ Send(pack_msg("HeartBeat", Plain("json")))
    /\ UNCHANGED <<state, sessionKey, cache, device, connection, toClient, reading, exchange, bounds>>

\* Mutant: the session key is kept.
DisconnectKeepsKey ==
    /\ Serving /\ ~device.open
    /\ pc' = "idle"
    /\ toDevice' = <<>> /\ toClient' = <<>>
    /\ reading' = IF reading.at \in {"idle", "panicked"} THEN Idle ELSE [reading EXCEPT !.by = "aborted"]
    /\ UNCHANGED <<state, sessionKey, cache, device, target, proto, nonce, exchange, bounds>>

\* The reader or a heartbeat notices that the connection is gone: handle_disconnect.
\* The reader finishes the packet it has in hand; the next connection has its own.
Disconnect ==
    /\ Serving /\ ~device.open
    /\ sessionKey' = NoKey
    /\ pc' = "idle"
    /\ toDevice' = <<>> /\ toClient' = <<>>
    /\ reading' = IF reading.at \in {"idle", "panicked"} THEN Idle ELSE [reading EXCEPT !.by = "aborted"]
    /\ UNCHANGED <<state, cache, device, target, proto, nonce, exchange, bounds>>

(***************************************************************************)
(* The device and the network                                              *)
(***************************************************************************)
DeviceProtocol == get_protocol(device.version, "default")
DeviceKey == IF device.key = NoKey THEN LocalKey ELSE device.key
Closed == [device EXCEPT !.open = FALSE, !.key = NoKey]

\* A device writes like pack_payload and puts a retcode before what it says.
DevicePacket(command, text) ==
    pack_message(get_prefix(DeviceProtocol), command,
                 Wrap(Retcode, IF text = "" THEN Plain("")
                               ELSE pack_payload(DeviceProtocol, command, DeviceKey, Plain(text))),
                 get_hmac_key(DeviceProtocol, DeviceKey))

DeviceReads(packet) ==
    LET msg == unpack_message(packet, get_hmac_key(DeviceProtocol, DeviceKey), FALSE)
    IN  /\ packet.prefix = get_prefix(DeviceProtocol)
        /\ msg.err = "none"
        /\ decrypt_payload(DeviceProtocol, DeviceKey, msg.bytes).bytes.layers = <<>>

Negotiating(command) == command \in {"SessKeyNegStart", "SessKeyNegFinish"}

\* The answer waits for the one before, unless nobody reads any more.
DeviceAnswers ==
    /\ device.open /\ toDevice # <<>>
    /\ toClient = <<>> \/ reading.at = "panicked"
    /\ LET command == Head(toDevice).command
       IN  IF /\ DeviceReads(Head(toDevice))
              /\ requires_session_key(DeviceProtocol) => (device.key = NoKey) = Negotiating(command)
           THEN /\ device' = IF command = "SessKeyNegFinish"
                             THEN [device EXCEPT !.key = SessionKey(device.version, nonce)] ELSE device
                /\ toClient' =
                     IF command = "SessKeyNegFinish" THEN <<>>
                     ELSE <<IF command = "SessKeyNegStart"
                            THEN DevicePacket("SessKeyNegResp", "remoteNonce")
                            ELSE DevicePacket(command,
                                     IF command = "HeartBeat" THEN ""
                                     ELSE IF device.is22 /\ command = "DpQuery" THEN "data unvalid"
                                     ELSE "json")>>
           ELSE device' = Closed /\ UNCHANGED toClient
    /\ toDevice' = <<>>
    /\ UNCHANGED <<state, sessionKey, cache, connection, reading, exchange, bounds>>

\* The versions whose announcements the scanner can read.
Announced == {v \in Versions : \E d \in Announcements(v, "announce") : parse_packet(d) = "announce"}

\* The scanner hears the device and caches its address.
Announce ==
    /\ cache # device.home /\ device.version \in Announced
    /\ cache' = device.home
    /\ UNCHANGED <<state, sessionKey, device, connection, wires, reading, exchange, bounds>>

\* The device gets another address or the connection breaks.
Break ==
    /\ MayChange
    /\ faults' = faults + 1
    /\ \E a \in Addresses : device' = [Closed EXCEPT !.home = a]
    /\ toDevice' = <<>>
    /\ UNCHANGED <<state, sessionKey, cache, connection, toClient, reading, exchange, edits>>

ConnectionStep ==
    \/ ResolveAddress \/ Discovered \/ NotDiscovered \/ Dial \/ DialFails
    \/ NeedsSession \/ Negotiate \/ SendStart \/ SendFinish \/ StoreKey
    \/ HandshakeClosed \/ ResponseVerified \/ ResponseRefused

ReadStep == TakePacket \/ ReadSettings \/ Unpacked \/ ReaderPanics \/ Decrypted

RequestStep == Query \/ SendQuery \/ ExpectResponse \/ Response \/ Heartbeat \/ Disconnect

User ==
    \/ \E v \in UserVersions : set_version(v)
    \/ \E t \in UserTypes : set_dev_type(t)
    \/ \E a \in Addresses \cup {AutoAddress, AnyAddress} : set_address(a)

Next ==
    \/ User \/ ConnectionStep \/ AttemptFails \/ ReadStep \/ RequestStep \/ ResponseTimeout
    \/ DeviceAnswers \/ Announce \/ Break

Spec == Init /\ [][Next]_vars

\* The tasks and the device go on while they can. tokio::select! picks at random among
\* what is ready, so a queue of requests does not hide a broken connection for ever;
\* a device announces itself every few seconds.
Progress ==
    \/ ConnectionStep \/ ReadStep \/ DeviceAnswers
    \/ Query \/ SendQuery \/ ExpectResponse \/ Response \/ Disconnect
    \/ ResponseTimeout /\ UNCHANGED faults

Fairness ==
    WF_vars(Progress) /\ WF_vars(Query) /\ SF_vars(Disconnect) /\ WF_vars(Announce)

FairSpec == Spec /\ Fairness

(***************************************************************************)
(* Properties                                                              *)
(***************************************************************************)

\* A session key exists only while the connection that negotiated it is up, and is
\* the one the device holds if both derived it for the device's version:
\* negotiate_session_key stores it last, handle_disconnect clears it.
KeyAgreement ==
    sessionKey # NoKey =>
        /\ pc = "up"
        /\ sessionKey = SessionKey(proto, nonce)
        /\ device.open /\ device.key # NoKey /\ proto = device.version => sessionKey = device.key

\* Whatever the user does meanwhile, discovery only fills in a version that is still
\* open: resolve_address looks at the version again after the search.
VersionKept ==
    [][state.version # AutoVersion /\ edits' = edits => state'.version = state.version]_vars

\* The library takes a device for a device22 only if it is one, or if the packet was
\* read with another version than the device speaks.
DetectionSound ==
    [][state'.devType # state.devType /\ edits' = edits =>
           device.is22 \/ reading.protocol.version # device.version]_vars

\* Settings a device can be reached with. AutoVersion is right for a device whose
\* announcements tell its version.
SettingsRight ==
    /\ state.version = device.version \/ (state.version = AutoVersion /\ device.announced = device.version)
    /\ state.address \in {AutoAddress, AnyAddress, device.home}
    /\ IF device.is22 THEN state.devType # "default" ELSE state.devType # "device22"

\* A packet too short for the version it was read with has ended the reader of the
\* connection, or the connection task itself.
Panicked == reading.at = "panicked"

\* Once the settings are right, queries keep being answered with data, whatever was
\* wrong before: stale cached addresses, keys of earlier connections, a wrong version
\* or device type, negotiations and reads that the change cut in half. The exception
\* is a panic, which nothing undoes as long as the connection holds: maintain_connection
\* serves the connection on without a reader.
Works == <>[]SettingsRight => []<>(last = "data") \/ <>[]Panicked

\* mod.rs:455: a packet too short for its trailer is a DecodeError.
ShortPacketRefused == ~Panicked

=============================================================================
