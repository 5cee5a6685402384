--------------------------- MODULE SessionProofs ----------------------------
(***************************************************************************)
(* Keys, versions and device types of a connection, for any addresses, any *)
(* versions and settings, and any number of changes.                       *)
(***************************************************************************)
EXTENDS Session, TLAPS

(***************************************************************************)
(* The invariant: types first.                                             *)
(***************************************************************************)
Settings == [version : Versions \cup {AutoVersion}, devType : DeviceTypes,
             address : Addresses \cup {AutoAddress, AnyAddress},
             realIp : Addresses \cup {AutoAddress}, force : BOOLEAN]
Devices == [home : Addresses, version : Versions, announced : Versions \cup {AutoVersion},
            is22 : BOOLEAN, key : Int, open : BOOLEAN]

TypeOK ==
    /\ state \in Settings
    /\ device \in Devices
    /\ sessionKey \in Int /\ cache \in Addresses \cup {AutoAddress}
    /\ pc \in {"idle", "discover", "dial", "tcp", "negotiate", "start", "await", "finish", "store", "up"}
    /\ target \in Addresses \cup {AutoAddress, AnyAddress} /\ proto \in Versions /\ nonce \in {1, 2}
    /\ edits \in Nat /\ faults \in Nat

(***************************************************************************)
(* Second, the keys of both ends are those of the negotiation under way,   *)
(* and no key outlives its connection: before a negotiation has sent       *)
(* something the device holds none, and has nothing to answer.             *)
(***************************************************************************)
Before == {"idle", "discover", "dial", "tcp", "negotiate", "start"}

KeyInv ==
    /\ sessionKey # NoKey => pc = "up" /\ sessionKey = SessionKey(proto, nonce)
    /\ device.key # NoKey => device.open /\ device.key = SessionKey(device.version, nonce)
    /\ pc \in Before => device.key = NoKey /\ toDevice = <<>>
    /\ request.at # "none" => pc = "up"

(***************************************************************************)
(* Third, what the client reads was written by the device: from 3.4 on it  *)
(* has a seal, and it complains about a query only if it is a device22.    *)
(***************************************************************************)
IsPacket(p) == p = [prefix |-> p.prefix, command |-> p.command, bytes |-> p.bytes, seal |-> p.seal]
Honest(b, d) == b.text = "data unvalid" => d.is22
FromDevice(p, d) == IsPacket(p) /\ Honest(p.bytes, d) /\ (d.version >= 34 => p.seal # NoKey)

ReadingShape(r) ==
    /\ r.at \in {"idle", "panicked", "read", "unpack", "decrypt", "unpacking", "decrypting"}
    /\ r.at \in {"idle", "panicked"} => r = [at |-> r.at]
    /\ r.at = "read" => r = [at |-> r.at, msg |-> r.msg]
    /\ r.at \in {"unpack", "decrypt"} =>
           r = [at |-> r.at, by |-> r.by, packet |-> r.packet, before |-> r.before]
    /\ r.at \in {"unpacking", "decrypting"} =>
           r = [at |-> r.at, by |-> r.by, packet |-> r.packet, before |-> r.before,
                protocol |-> r.protocol, devType |-> r.devType, key |-> r.key]

InHand == {"unpack", "decrypt", "unpacking", "decrypting"}

PacketInv ==
    /\ ReadingShape(reading)
    /\ toClient # <<>> => FromDevice(Head(toClient), device)
    /\ reading.at \in InHand => FromDevice(reading.packet, device)

(***************************************************************************)
(* Types                                                                   *)
(***************************************************************************)

\* The absence of a key is a number.
LEMMA NoKeyIsInt == NoKey \in Int
BY DEF NoKey

\* A failed attempt, an edit and a detection keep the records whole.
LEMMA AttemptTypes == ASSUME TypeOK, NEW e, AttemptEnds(e), faults' \in Nat PROVE TypeOK'
<1>1. state' \in Settings
  BY DEF TypeOK, Settings, AttemptEnds
<1>2. device' \in Devices
  BY NoKeyIsInt DEF TypeOK, Devices, AttemptEnds
<1> QED
  BY <1>1, <1>2 DEF TypeOK, AttemptEnds

\* The setters give settings their types.
LEMMA EditTypes ==
    ASSUME TypeOK, User
    PROVE  TypeOK'
<1>1. PICK s : /\ Edit(s)
               /\ s \in Settings
  <2>1. CASE \E v \in UserVersions : set_version(v)
    <3>1. PICK v \in UserVersions : set_version(v)
      BY <2>1
    <3>2. v \in Versions \cup {AutoVersion}
      BY SessionAssumption
    <3> QED
      BY <3>1, <3>2 DEF set_version, TypeOK, Settings
  <2>2. CASE \E t \in UserTypes : set_dev_type(t)
    <3>1. PICK t \in UserTypes : set_dev_type(t)
      BY <2>2
    <3>2. t \in DeviceTypes
      BY SessionAssumption
    <3> QED
      BY <3>1, <3>2 DEF set_dev_type, TypeOK, Settings
  <2>3. CASE \E a \in Addresses \cup {AutoAddress, AnyAddress} : set_address(a)
    <3>1. PICK a \in Addresses \cup {AutoAddress, AnyAddress} : set_address(a)
      BY <2>3
    <3> DEFINE s == [state EXCEPT !.address = a, !.force = TRUE]
    <3>2. Edit(s)
      BY <3>1 DEF set_address
    <3>3. s \in Settings
      BY DEF TypeOK, Settings
    <3> QED
      BY <3>2, <3>3
  <2> QED
    BY <2>1, <2>2, <2>3 DEF User
<1> QED
  BY <1>1 DEF TypeOK, Edit, connection

\* Every change by the user is counted.
LEMMA EditsCounted == ASSUME TypeOK, User PROVE edits' # edits
<1>1. edits' = edits + 1
  BY Zenon DEF User, set_version, set_dev_type, set_address, Edit
<1>2. edits \in Nat
  BY DEF TypeOK
<1> QED
  BY <1>1, <1>2

\* The switch to another type keeps the settings typed and the version as it is.
LEMMA SwitchTypes ==
    ASSUME TypeOK, NEW d \in BOOLEAN, SwitchToDevice22(d),
           UNCHANGED <<sessionKey, cache, device, pc, target, proto, nonce, edits, faults>>
    PROVE  TypeOK' /\ state'.version = state.version
BY DEF TypeOK, Settings, SwitchToDevice22, DeviceTypes

\* Steps that change no setting, and leave the device, the task and the bounds alone.
LEMMA ReadingTypes ==
    ASSUME TypeOK,
           \/ TakePacket \/ ReadSettings \/ ReaderPanics \/ Query \/ SendQuery \/ ExpectResponse
           \/ Response \/ Heartbeat \/ UNCHANGED vars
    PROVE  /\ TypeOK'
           /\ UNCHANGED <<state, sessionKey, cache, device, pc, target, proto, nonce, edits, faults>>
<1>1. UNCHANGED <<state, sessionKey, cache, device, pc, target, proto, nonce, edits, faults>>
  BY DEF TakePacket, ReadSettings, ReaderPanics, Query, SendQuery, ExpectResponse, Response, Heartbeat,
     vars, connection, bounds
<1> QED
  BY <1>1 DEF TypeOK

\* Every variable keeps its type: the settings are ones a caller can give, a device
\* has one version, and every key is a number.
THEOREM TypesHold == Spec => []TypeOK
<1>1. Init => TypeOK
  <2> SUFFICES ASSUME Init PROVE TypeOK
    OBVIOUS
  <2>1. state \in Settings
    <3>1. UserVersions \cup {AutoVersion} \subseteq Versions \cup {AutoVersion}
      BY SessionAssumption
    <3>2. UserTypes \cup {"auto"} \subseteq DeviceTypes
      BY SessionAssumption DEF DeviceTypes
    <3> QED
      BY <3>1, <3>2 DEF Init, Settings
  <2>2. device \in Devices
    BY SessionAssumption, NoKeyIsInt DEF Init, Devices
  <2> QED
    BY <2>1, <2>2, NoKeyIsInt DEF Init, TypeOK, Versions
<1>2. TypeOK /\ [Next]_vars => TypeOK'
  <2> SUFFICES ASSUME TypeOK, [Next]_vars PROVE TypeOK'
    OBVIOUS
  <2>1. CASE User
    BY <2>1, EditTypes
  <2>2. CASE ResolveAddress \/ NeedsSession \/ ResponseVerified \/ SendStart \/ SendFinish
    BY <2>2 DEF TypeOK, Settings, ResolveAddress, NeedsSession, ResponseVerified, SendStart, SendFinish, SendNegotiation,
       wires, exchange, bounds
  <2>3. CASE Discovered
    <3>1. state' \in Settings
      BY <2>3 DEF TypeOK, Settings, Devices, Discovered, Explicit
    <3>2. target' \in Addresses /\ pc' = "dial"
      BY <2>3 DEF TypeOK, Settings, Devices, Discovered, Explicit
    <3> QED
      BY <2>3, <3>1, <3>2 DEF TypeOK, Discovered, bounds
  <2>4. CASE NotDiscovered
    <3>1. state' \in Settings
      BY <2>4 DEF TypeOK, Settings, NotDiscovered, Explicit
    <3> QED
      BY <2>4, <3>1 DEF TypeOK, NotDiscovered, bounds
  <2>5. CASE Dial
    <3>1. device' \in Devices
      BY <2>5, NoKeyIsInt DEF TypeOK, Devices, Dial
    <3> QED
      BY <2>5, <3>1 DEF TypeOK, Dial, bounds
  <2>6. CASE DialFails \/ HandshakeClosed \/ ResponseRefused
    <3>1. faults' \in Nat
      BY <2>6 DEF DialFails, HandshakeClosed, ResponseRefused, TypeOK
    <3> QED
      BY <2>6, <3>1, AttemptTypes DEF DialFails, HandshakeClosed, ResponseRefused
  <2>7. CASE AttemptFails
    <3>1. faults' \in Nat
      BY <2>7 DEF AttemptFails, TypeOK
    <3> QED
      BY <2>7, <3>1, AttemptTypes DEF AttemptFails
  <2>8. CASE Negotiate
    <3>1. Protocol.version \in Versions
      BY DEF TypeOK, Settings, Protocol, get_protocol, Versions, AutoVersion
    <3>2. 3 - nonce \in {1, 2}
      BY DEF TypeOK
    <3> QED
      BY <2>8, <3>1, <3>2 DEF TypeOK, Negotiate, bounds
  <2>9. CASE StoreKey
    <3>1. SessionKey(proto, nonce) \in Int
      BY DEF TypeOK, SessionKey
    <3> QED
      BY <2>9, <3>1 DEF TypeOK, StoreKey, bounds
  <2>10. CASE Unpacked
    BY <2>10, SwitchTypes DEF Unpacked, connection, bounds, Detected, MayDetect, should_check_dev22_fallback
  <2>11. CASE Decrypted
    BY <2>11, SwitchTypes DEF Decrypted, connection, bounds
  <2>12. CASE Disconnect
    BY <2>12, NoKeyIsInt DEF TypeOK, Disconnect, bounds
  <2>13. CASE ResponseTimeout
    BY <2>13 DEF TypeOK, ResponseTimeout, connection
  <2>14. CASE DeviceAnswers
    <3>1. device' \in {device, Closed, [device EXCEPT !.key = SessionKey(device.version, nonce)]}
      BY <2>14 DEF DeviceAnswers
    <3>2. SessionKey(device.version, nonce) \in Int /\ NoKey \in Int
      BY NoKeyIsInt DEF TypeOK, SessionKey
    <3>3. device' \in Devices
      BY <3>1, <3>2 DEF TypeOK, Devices, Closed
    <3> QED
      BY <2>14, <3>3 DEF TypeOK, DeviceAnswers, connection, bounds
  <2>15. CASE Announce
    <3>1. device.home \in Addresses
      BY DEF TypeOK, Devices
    <3> QED
      BY <2>15, <3>1 DEF TypeOK, Announce, connection, bounds
  <2>16. CASE Break
    <3>1. device' \in Devices
      BY <2>16, NoKeyIsInt DEF TypeOK, Devices, Break, Closed
    <3> QED
      BY <2>16, <3>1 DEF TypeOK, Break, connection
  <2>17. CASE \/ TakePacket \/ ReadSettings \/ ReaderPanics \/ Query \/ SendQuery \/ ExpectResponse
              \/ Response \/ Heartbeat \/ UNCHANGED vars
    BY <2>17, ReadingTypes, Zenon
  <2> QED
    BY <2>1, <2>2, <2>3, <2>4, <2>5, <2>6, <2>7, <2>8, <2>9, <2>10, <2>11, <2>12, <2>13, <2>14, <2>15, <2>16,
       <2>17, Zenon DEF Next, ConnectionStep, ReadStep, RequestStep
<1> QED
  BY <1>1, <1>2, PTL DEF Spec


(***************************************************************************)
(* Keys                                                                    *)
(***************************************************************************)

\* A failed attempt leaves no key behind.
LEMMA AttemptKeys == ASSUME TypeOK, KeyInv, pc # "up", NEW e, AttemptEnds(e) PROVE KeyInv'
<1>1. /\ pc' = "idle" /\ toDevice' = <<>> /\ UNCHANGED <<sessionKey, request>>
      /\ device' = [device EXCEPT !.open = FALSE, !.key = NoKey]
  BY DEF AttemptEnds, exchange
<1>2. device'.key = NoKey
  BY <1>1 DEF TypeOK, Devices
<1> QED
  BY <1>1, <1>2 DEF KeyInv

\* A session key exists only on the connection it was negotiated for, at either end.
THEOREM KeysHold == Spec => []KeyInv
<1>1. Init => KeyInv
  BY DEF Init, KeyInv, NoRequest
<1>2. TypeOK /\ KeyInv /\ [Next]_vars => KeyInv'
  <2> SUFFICES ASSUME TypeOK, KeyInv, [Next]_vars PROVE KeyInv'
    OBVIOUS
  <2>1. CASE \/ User \/ TakePacket \/ ReadSettings \/ Unpacked \/ ReaderPanics \/ Decrypted \/ Announce
             \/ UNCHANGED vars
    <3>1. UNCHANGED <<sessionKey, device, pc, proto, nonce, toDevice, request>>
      BY <2>1 DEF User, set_version, set_dev_type, set_address, Edit, TakePacket, ReadSettings, Unpacked,
         ReaderPanics, Decrypted, Announce, vars, connection, wires, exchange
    <3> QED
      BY <3>1 DEF KeyInv
  <2>2. CASE ResolveAddress \/ Discovered \/ NotDiscovered \/ NeedsSession
    <3>1. /\ UNCHANGED <<sessionKey, device, proto, nonce, toDevice, request>>
          /\ pc \in Before /\ pc # "up" /\ pc' \in Before \cup {"up"}
      BY <2>2 DEF ResolveAddress, Discovered, NotDiscovered, NeedsSession, wires, exchange, Before
    <3> QED
      BY <3>1 DEF KeyInv
  <2>3. CASE Dial
    <3>1. device'.key = NoKey
      BY <2>3 DEF Dial, TypeOK, Devices
    <3>2. /\ pc = "dial" /\ pc' = "tcp" /\ pc \in Before
          /\ UNCHANGED <<sessionKey, proto, nonce, toDevice, request>>
      BY <2>3 DEF Dial, wires, exchange, Before
    <3> QED
      BY <3>1, <3>2 DEF KeyInv
  <2>4. CASE DialFails \/ HandshakeClosed \/ ResponseRefused \/ AttemptFails
    <3>1. pc # "up" /\ \E e : AttemptEnds(e)
      BY <2>4 DEF DialFails, HandshakeClosed, ResponseRefused, AttemptFails
    <3> QED
      BY <3>1, AttemptKeys
  <2>5. CASE Negotiate
    <3>1. /\ pc = "negotiate" /\ pc' = "start" /\ pc \in Before
          /\ UNCHANGED <<sessionKey, device, toDevice, request>>
      BY <2>5 DEF Negotiate, wires, exchange, Before
    <3> QED
      BY <3>1 DEF KeyInv
  <2>6. CASE SendStart \/ SendFinish \/ ResponseVerified
    <3>1. /\ pc # "up" /\ pc' \notin Before
          /\ UNCHANGED <<sessionKey, device, proto, nonce, request>>
      BY <2>6 DEF SendStart, SendFinish, SendNegotiation, ResponseVerified, exchange, Before
    <3> QED
      BY <3>1 DEF KeyInv
  <2>7. CASE StoreKey
    <3>1. /\ pc = "store" /\ pc' = "up" /\ pc' \notin Before /\ sessionKey' = SessionKey(proto, nonce)
          /\ UNCHANGED <<device, proto, nonce, request>>
      BY <2>7 DEF StoreKey, exchange, Before
    <3> QED
      BY <3>1 DEF KeyInv, SessionKey
  <2>8. CASE Query \/ SendQuery \/ ExpectResponse \/ Response \/ ResponseTimeout \/ Heartbeat
    <3>1. UNCHANGED <<sessionKey, device, pc, proto, nonce>>
      BY <2>8 DEF Query, SendQuery, ExpectResponse, Response, ResponseTimeout, Heartbeat, connection
    <3>2. pc = "up" /\ pc \notin Before
      BY <2>8 DEF Query, SendQuery, ExpectResponse, Response, ResponseTimeout, Heartbeat, Serving, KeyInv, Before
    <3> QED
      BY <3>1, <3>2 DEF KeyInv
  <2>9. CASE Disconnect
    <3>1. /\ pc = "up" /\ request.at = "none" /\ ~device.open /\ sessionKey' = NoKey /\ toDevice' = <<>>
          /\ UNCHANGED <<device, request>>
      BY <2>9 DEF Disconnect, Serving, exchange
    <3> QED
      BY <3>1 DEF KeyInv
  <2>10. CASE DeviceAnswers
    <3>1. /\ device.open /\ toDevice # <<>> /\ UNCHANGED <<sessionKey, pc, proto, nonce, request>>
          /\ device' \in {device, Closed, [device EXCEPT !.key = SessionKey(device.version, nonce)]}
      BY <2>10 DEF DeviceAnswers, connection, exchange
    <3>2. pc \notin Before
      BY <3>1 DEF KeyInv
    <3>3. device'.version = device.version
      BY <3>1 DEF Closed, TypeOK, Devices
    <3>4. device'.key # NoKey => device'.open /\ device'.key = SessionKey(device.version, nonce)
      BY <3>1 DEF Closed, TypeOK, Devices, KeyInv
    <3> QED
      BY <3>1, <3>2, <3>3, <3>4 DEF KeyInv, SessionKey
  <2>11. CASE Break
    <3>1. device'.key = NoKey
      BY <2>11 DEF Break, Closed, TypeOK, Devices
    <3> QED
      BY <2>11, <3>1 DEF Break, KeyInv, connection, exchange
  <2> QED
    BY <2>1, <2>2, <2>3, <2>4, <2>5, <2>6, <2>7, <2>8, <2>9, <2>10, <2>11, Zenon
       DEF Next, ConnectionStep, ReadStep, RequestStep
<1> QED
  BY <1>1, <1>2, TypesHold, PTL DEF Spec

\* A session key exists only while the connection that negotiated it is up, and both
\* ends hold the same one if both took it for the device's version.
THEOREM KeysAgree == Spec => []KeyAgreement
<1>1. KeyInv => KeyAgreement
  BY DEF KeyInv, KeyAgreement
<1> QED
  BY <1>1, KeysHold, PTL

(***************************************************************************)
(* Versions                                                                *)
(***************************************************************************)

\* Discovery fills in a version only while it is still open: no step but the user's
\* replaces one.
THEOREM VersionIsKept == Spec => VersionKept
<1>1. TypeOK /\ [Next]_vars =>
          [state.version # AutoVersion /\ edits' = edits => state'.version = state.version]_vars
  <2> SUFFICES ASSUME TypeOK, Next, state.version # AutoVersion, edits' = edits
               PROVE  state'.version = state.version
    OBVIOUS
  <2>1. ~User
    BY EditsCounted
  <2>2. CASE Discovered
    BY <2>2 DEF Discovered, TypeOK, Settings
  <2>3. CASE NotDiscovered
    BY <2>3 DEF NotDiscovered, TypeOK, Settings
  <2>4. CASE DialFails \/ HandshakeClosed \/ ResponseRefused \/ AttemptFails
    <3>1. \E e : AttemptEnds(e)
      BY <2>4 DEF DialFails, HandshakeClosed, ResponseRefused, AttemptFails
    <3> QED
      BY <3>1 DEF AttemptEnds, TypeOK, Settings
  <2>5. CASE Unpacked \/ Decrypted
    <3>1. \E d : SwitchToDevice22(d)
      BY <2>5 DEF Unpacked, Decrypted
    <3> QED
      BY <3>1 DEF SwitchToDevice22, TypeOK, Settings
  <2>6. CASE \/ ResolveAddress \/ Dial \/ NeedsSession \/ Negotiate \/ SendStart \/ SendFinish \/ StoreKey
             \/ ResponseVerified \/ Disconnect \/ ResponseTimeout \/ DeviceAnswers \/ Announce \/ Break
    BY <2>6 DEF ResolveAddress, Dial, NeedsSession, Negotiate, SendStart, SendFinish, SendNegotiation, StoreKey,
       ResponseVerified, Disconnect, ResponseTimeout, DeviceAnswers, Announce, Break
  <2>7. CASE \/ TakePacket \/ ReadSettings \/ ReaderPanics \/ Query \/ SendQuery \/ ExpectResponse
             \/ Response \/ Heartbeat
    BY <2>7 DEF TakePacket, ReadSettings, ReaderPanics, Query, SendQuery, ExpectResponse, Response, Heartbeat
  <2> QED
    BY <2>1, <2>2, <2>3, <2>4, <2>5, <2>6, <2>7, Zenon DEF Next, ConnectionStep, ReadStep, RequestStep
<1> QED
  BY <1>1, TypesHold, PTL DEF Spec, VersionKept


(***************************************************************************)
(* Detection                                                               *)
(***************************************************************************)

\* No layer changes a text.
LEMMA TextPacked ==
    ASSUME NEW p, NEW command, NEW key, NEW b
    PROVE  pack_payload(p, command, key, b).text = b.text
<1>1. \A layer, c : Wrap(layer, c).text = c.text
  BY DEF Wrap
<1>2. \A v, c : AddHeader(v, command, c).text = c.text
  BY <1>1 DEF AddHeader
<1> QED
  BY <1>1, <1>2 DEF pack_payload, pack_payload_v31, pack_payload_v32, pack_payload_v33, pack_payload_v34,
     pack_payload_v35

\* Decryption in any version yields the text of the packet.
LEMMA TextDecrypted ==
    ASSUME NEW text,
           decrypt_payload(reading.protocol, reading.key, reading.packet.bytes).err = "none",
           decrypt_payload(reading.protocol, reading.key, reading.packet.bytes).bytes = Plain(text)
    PROVE  reading.packet.bytes.text = text
<1> DEFINE p == reading.protocol
           key == reading.key
           b == reading.packet.bytes
<1>0. decrypt_payload(p, key, b).err = "none" /\ decrypt_payload(p, key, b).bytes = Plain(text)
  OBVIOUS
<1> HIDE DEF p, key, b
<1>1. \A c : Peel(c).text = c.text /\ Ok(c).bytes = c
  BY DEF Peel, Ok
<1>2. \A v, c : StripHeader(v, c).text = c.text
  BY <1>1 DEF StripHeader
<1>3. \A c : decrypt(key, c).err = "none" => decrypt(key, c).bytes.text = c.text
  BY <1>1 DEF decrypt, Fail
<1>4. \A v, c : DecryptBetweenHeaders(v, key, c).bytes.text = c.text
  BY <1>1, <1>2, <1>3 DEF DecryptBetweenHeaders
<1>5. decrypt_payload_v31(key, b).err = "none" => decrypt_payload_v31(key, b).bytes.text = b.text
  BY <1>1, <1>3 DEF decrypt_payload_v31
<1>6. decrypt_payload_v34(key, b).bytes.text = b.text /\ decrypt_payload_v35(key, b).bytes.text = b.text
  BY <1>1, <1>2, <1>3 DEF decrypt_payload_v34, decrypt_payload_v35
<1>7. decrypt_payload(p, key, b).bytes.text = b.text
  BY <1>0, <1>4, <1>5, <1>6 DEF decrypt_payload, decrypt_payload_v32, decrypt_payload_v33
<1>8. Plain(text).text = text
  BY DEF Plain
<1>9. b.text = text
  BY <1>0, <1>7, <1>8
<1> QED
  BY <1>9 DEF b

\* So does unpacking, which also means that the key is that of the seal.
LEMMA TextUnpacked ==
    ASSUME NEW packet, NEW key, unpack_message(packet, key, TRUE).err = "none"
    PROVE  /\ unpack_message(packet, key, TRUE).bytes.text = packet.bytes.text
           /\ packet.seal = key
<1>1. \A error : Fail(error).err = error
  BY DEF Fail
<1>2. packet.seal = key /\ unpack_message(packet, key, TRUE) = Ok(TakeRetcode(packet.bytes))
  BY <1>1 DEF unpack_message
<1>3. TakeRetcode(packet.bytes).text = packet.bytes.text
  BY DEF TakeRetcode, Peel, Wrap
<1>4. \A b : Ok(b).bytes = b
  BY DEF Ok
<1> QED
  BY <1>2, <1>3, <1>4, Zenon


\* A device keeps its version and type.
LEMMA DeviceStays ==
    ASSUME TypeOK, [Next]_vars
    PROVE  device'.version = device.version /\ device'.is22 = device.is22
<1>1. CASE UNCHANGED device
  BY <1>1
<1>2. CASE Dial
  BY <1>2 DEF Dial, TypeOK, Devices
<1>3. CASE DialFails \/ HandshakeClosed \/ ResponseRefused \/ AttemptFails
  <2>1. \E e : AttemptEnds(e)
    BY <1>3 DEF DialFails, HandshakeClosed, ResponseRefused, AttemptFails
  <2> QED
    BY <2>1 DEF AttemptEnds, TypeOK, Devices
<1>4. CASE DeviceAnswers
  <2>1. device' \in {device, Closed, [device EXCEPT !.key = SessionKey(device.version, nonce)]}
    BY <1>4 DEF DeviceAnswers
  <2> QED
    BY <2>1 DEF Closed, TypeOK, Devices
<1>5. CASE Break
  BY <1>5 DEF Break, Closed, TypeOK, Devices
<1>6. CASE User
  BY <1>1, <1>6, Zenon DEF User, set_version, set_dev_type, set_address, Edit
<1>7. CASE \/ ResolveAddress \/ Discovered \/ NotDiscovered \/ NeedsSession \/ Negotiate \/ SendStart
           \/ SendFinish \/ StoreKey \/ ResponseVerified \/ Disconnect \/ ResponseTimeout \/ Announce
  BY <1>1, <1>7 DEF ResolveAddress, Discovered, NotDiscovered, NeedsSession, Negotiate, SendStart, SendFinish,
     SendNegotiation, StoreKey, ResponseVerified, Disconnect, ResponseTimeout, Announce
<1>8. CASE \/ TakePacket \/ ReadSettings \/ Unpacked \/ ReaderPanics \/ Decrypted \/ Query \/ SendQuery
           \/ ExpectResponse \/ Response \/ Heartbeat \/ UNCHANGED vars
  BY <1>1, <1>8 DEF TakePacket, ReadSettings, Unpacked, ReaderPanics, Decrypted, Query, SendQuery,
     ExpectResponse, Response, Heartbeat, vars
<1> QED
  BY <1>2, <1>3, <1>4, <1>5, <1>6, <1>7, <1>8, Zenon DEF Next, ConnectionStep, ReadStep, RequestStep

\* What a device writes has its seal and says what the device is.
LEMMA DeviceWrites ==
    ASSUME TypeOK, NEW command, NEW text, Honest(Plain(text), device)
    PROVE  FromDevice(DevicePacket(command, text), device)
<1> DEFINE inner == IF text = "" THEN Plain("")
                    ELSE pack_payload(DeviceProtocol, command, DeviceKey, Plain(text))
           b == Wrap(Retcode, inner)
           p == DevicePacket(command, text)
<1>1. inner.text = Plain(text).text
  <2>1. pack_payload(DeviceProtocol, command, DeviceKey, Plain(text)).text = Plain(text).text
    BY TextPacked
  <2> QED
    BY <2>1 DEF Plain
<1>2. b.text = Plain(text).text
  BY <1>1 DEF Wrap
<1> HIDE DEF inner
<1>3. p = [prefix |-> get_prefix(DeviceProtocol), command |-> command, bytes |-> b,
           seal |-> get_hmac_key(DeviceProtocol, DeviceKey)]
  BY DEF DevicePacket, pack_message, inner
<1>4. device.version >= 34 => get_hmac_key(DeviceProtocol, DeviceKey) # NoKey
  <2>0. device.key \in Int /\ device.version \in 31..35
    BY DEF TypeOK, Devices, Versions
  <2>1. DeviceKey # NoKey
    BY <2>0 DEF DeviceKey, LocalKey, NoKey
  <2>2. device.version >= 34 => DeviceProtocol.version = device.version
    BY <2>0 DEF DeviceProtocol, get_protocol, AutoVersion
  <2> QED
    BY <2>1, <2>2 DEF get_hmac_key
<1> HIDE DEF b, p
<1>5. IsPacket(p) /\ p.bytes = b /\ p.seal = get_hmac_key(DeviceProtocol, DeviceKey)
  BY <1>3 DEF IsPacket
<1>6. Honest(p.bytes, device)
  BY <1>2, <1>5, Zenon DEF Honest
<1> QED
  BY <1>4, <1>5, <1>6 DEF FromDevice, p


\* So what it has written stays true of it.
LEMMA StaysFromDevice == ASSUME TypeOK, [Next]_vars PROVE \A p : FromDevice(p, device) => FromDevice(p, device')
BY DeviceStays, Zenon DEF FromDevice, Honest, IsPacket

\* Reading ends in an idle reader or in a message for the negotiation.
LEMMA Concluded ==
    ASSUME NEW kind, NEW b, Conclude(kind, b)
    PROVE  /\ ReadingShape(reading')
           /\ reading'.at \notin InHand
<1>1. reading' = Idle \/ \E m : reading' = [at |-> "read", msg |-> m]
  BY Zenon DEF Conclude
<1>2. CASE reading' = Idle
  BY <1>2 DEF Idle, ReadingShape, InHand
<1>3. CASE \E m : reading' = [at |-> "read", msg |-> m]
  BY <1>3 DEF ReadingShape, InHand
<1> QED
  BY <1>1, <1>2, <1>3

\* What the client has in hand was written by this device on this connection, so a
\* "data unvalid" in it comes from a device22.
THEOREM PacketsHold == Spec => []PacketInv
<1>1. Init => PacketInv
  BY DEF Init, PacketInv, Idle, ReadingShape, InHand
<1>2. TypeOK /\ PacketInv /\ [Next]_vars => PacketInv'
  <2> SUFFICES ASSUME TypeOK, PacketInv, [Next]_vars PROVE PacketInv'
    OBVIOUS
  <2>1. \A p : FromDevice(p, device) => FromDevice(p, device')
    BY StaysFromDevice
  <2>2. ASSUME toClient' # <<>> => FromDevice(Head(toClient'), device'),
               ReadingShape(reading'),
               reading'.at \in InHand => FromDevice(reading'.packet, device')
        PROVE  PacketInv'
    BY <2>2, Zenon DEF PacketInv
  <2>3. toClient' \in {toClient, <<>>} => (toClient' # <<>> => FromDevice(Head(toClient'), device'))
    BY <2>1, Zenon DEF PacketInv
  <2>4. reading' = reading => /\ ReadingShape(reading')
                              /\ reading'.at \in InHand => FromDevice(reading'.packet, device')
    BY <2>1, Zenon DEF PacketInv
  <2>5. reading' = Idle => ReadingShape(reading') /\ reading'.at \notin InHand
    BY DEF Idle, ReadingShape, InHand
  <2>6. CASE toClient' \in {toClient, <<>>} /\ reading' \in {reading, Idle}
    BY <2>2, <2>3, <2>4, <2>5, <2>6
  <2>7. CASE User
    BY <2>6, <2>7, Zenon DEF User, set_version, set_dev_type, set_address, Edit, wires
  <2>8. CASE \/ ResolveAddress \/ Discovered \/ NotDiscovered \/ Dial \/ NeedsSession \/ Negotiate \/ SendStart
             \/ SendFinish \/ StoreKey \/ ResponseVerified
    BY <2>6, <2>8 DEF ResolveAddress, Discovered, NotDiscovered, Dial, NeedsSession, Negotiate, SendStart,
       SendFinish, SendNegotiation, StoreKey, ResponseVerified, wires
  <2>9. CASE DialFails \/ HandshakeClosed \/ ResponseRefused \/ AttemptFails
    <3>1. reading' \in {reading, Idle} /\ \E e : AttemptEnds(e)
      BY <2>9 DEF DialFails, HandshakeClosed, ResponseRefused, AttemptFails
    <3> QED
      BY <2>6, <3>1 DEF AttemptEnds
  <2>10. CASE \/ Query \/ SendQuery \/ ExpectResponse \/ Response \/ ResponseTimeout \/ Heartbeat
              \/ Announce \/ Break \/ UNCHANGED vars
    BY <2>6, <2>10 DEF Query, SendQuery, ExpectResponse, Response, ResponseTimeout, Heartbeat, Announce, Break,
       vars, wires
  <2>11. CASE TakePacket
    <3>1. /\ toClient # <<>> /\ toClient' = <<>>
          /\ reading' = [at |-> "unpack", by |-> IF pc = "up" THEN "reader" ELSE "task",
                         packet |-> Head(toClient), before |-> state.devType]
      BY <2>11 DEF TakePacket
    <3>2. ReadingShape(reading') /\ reading'.packet = Head(toClient)
      BY <3>1 DEF ReadingShape
    <3>3. FromDevice(Head(toClient), device)
      BY <3>1, Zenon DEF PacketInv
    <3>4. FromDevice(reading'.packet, device')
      BY <2>1, <3>2, <3>3, Zenon
    <3> QED
      BY <2>2, <3>1, <3>2, <3>4, Zenon
  <2>12. CASE ReadSettings
    <3>1. /\ reading.at \in {"unpack", "decrypt"} /\ UNCHANGED toClient
          /\ reading' = [at |-> IF reading.at = "unpack" THEN "unpacking" ELSE "decrypting",
                         by |-> reading.by, packet |-> reading.packet, before |-> reading.before,
                         protocol |-> Protocol, devType |-> state.devType, key |-> get_cipher]
      BY <2>12 DEF ReadSettings, wires
    <3>2. ReadingShape(reading') /\ reading'.packet = reading.packet
      BY <3>1 DEF ReadingShape
    <3>3. FromDevice(reading.packet, device)
      BY <3>1 DEF PacketInv, InHand
    <3>4. FromDevice(reading'.packet, device')
      BY <2>1, <3>2, <3>3, Zenon
    <3> QED
      BY <2>2, <2>3, <3>1, <3>2, <3>4
  <2>13. CASE ReaderPanics
    <3>1. UNCHANGED toClient /\ (reading' = Idle \/ reading' = [at |-> "panicked"])
      BY <2>13 DEF ReaderPanics, wires
    <3>2. ReadingShape(reading') /\ reading'.at \notin InHand
      BY <3>1 DEF Idle, ReadingShape, InHand
    <3> QED
      BY <2>2, <2>3, <3>1, <3>2
  <2>14. CASE Decrypted
    <3>1. UNCHANGED toClient /\ \E kind, b : Conclude(kind, b)
      BY <2>14 DEF Decrypted, wires
    <3>2. ReadingShape(reading') /\ reading'.at \notin InHand
      BY <3>1, Concluded
    <3> QED
      BY <2>2, <2>3, <3>1, <3>2
  <2>15. CASE Unpacked
    <3> DEFINE first == unpack_message(reading.packet, get_hmac_key(reading.protocol, reading.key), TRUE)
               second == unpack_message(reading.packet, NoKey, TRUE)
               b == IF Detected(first, second) THEN second.bytes ELSE first.bytes
               p == [reading.packet EXCEPT !.bytes = b]
    <3>1. /\ reading.at = "unpacking" /\ UNCHANGED toClient
          /\ \/ \E kind, c : Conclude(kind, c)
             \/ /\ first.err = "none" \/ Detected(first, second)
                /\ reading' = [at |-> "decrypt", by |-> reading.by, before |-> reading.before, packet |-> p]
      BY <2>15 DEF Unpacked, wires
    <3>2. CASE \E kind, c : Conclude(kind, c)
      BY <2>2, <2>3, <3>1, <3>2, Concluded
    <3>3. CASE /\ first.err = "none" \/ Detected(first, second)
               /\ reading' = [at |-> "decrypt", by |-> reading.by, before |-> reading.before, packet |-> p]
      <4>1. FromDevice(reading.packet, device)
        BY <3>1 DEF PacketInv, InHand
      <4>2. b.text = reading.packet.bytes.text
        <5>1. first.err = "none" => first.bytes.text = reading.packet.bytes.text
          BY TextUnpacked
        <5>2. second.err = "none" => second.bytes.text = reading.packet.bytes.text
          BY TextUnpacked
        <5>3. Detected(first, second) => second.err = "none"
          BY DEF Detected
        <5> QED
          BY <3>3, <5>1, <5>2, <5>3
      <4> HIDE DEF b, first, second
      <4>3. IsPacket(p) /\ p.bytes = b /\ p.seal = reading.packet.seal
        <5>1. IsPacket(reading.packet)
          BY <4>1 DEF FromDevice
        <5> QED
          BY <5>1 DEF IsPacket
      <4>4. ReadingShape(reading') /\ reading'.packet = p
        BY <3>3 DEF ReadingShape
      <4> HIDE DEF p
      <4>5. FromDevice(p, device)
        BY <4>1, <4>2, <4>3, Zenon DEF FromDevice, Honest
      <4>6. FromDevice(reading'.packet, device')
        BY <2>1, <4>4, <4>5, Zenon
      <4> QED
        BY <2>2, <2>3, <3>1, <4>4, <4>6
    <3> QED
      BY <3>1, <3>2, <3>3
  <2>16. CASE Disconnect
    <3>1. /\ toClient' = <<>>
          /\ reading' = IF reading.at \in {"idle", "panicked"} THEN Idle ELSE [reading EXCEPT !.by = "aborted"]
      BY <2>16 DEF Disconnect
    <3>2. CASE reading' = Idle
      BY <2>6, <3>1, <3>2
    <3>3. CASE reading.at \in InHand
      <4>1. reading'.packet = reading.packet /\ ReadingShape(reading')
        BY <3>1, <3>3 DEF PacketInv, ReadingShape, InHand
      <4>2. FromDevice(reading.packet, device)
        BY <3>3 DEF PacketInv
      <4>3. FromDevice(reading'.packet, device')
        BY <2>1, <4>1, <4>2, Zenon
      <4> QED
        BY <2>2, <3>1, <4>1, <4>3
    <3>4. CASE reading.at = "read"
      <4>1. ReadingShape(reading') /\ reading'.at \notin InHand
        BY <3>1, <3>4 DEF PacketInv, ReadingShape, InHand
      <4> QED
        BY <2>2, <3>1, <4>1
    <3> QED
      BY <3>1, <3>2, <3>3, <3>4 DEF PacketInv, ReadingShape, InHand
  <2>17. CASE DeviceAnswers
    <3>1. UNCHANGED reading
      BY <2>17 DEF DeviceAnswers
    <3>2. \/ toClient' \in {toClient, <<>>}
          \/ \E command, text : toClient' = <<DevicePacket(command, text)>> /\ Honest(Plain(text), device)
      <4>1. Honest(Plain("remoteNonce"), device) /\ Honest(Plain(""), device) /\ Honest(Plain("json"), device)
        BY DEF Honest, Plain
      <4>2. device.is22 => Honest(Plain("data unvalid"), device)
        BY Zenon DEF Honest
      <4> QED
        BY <2>17, <4>1, <4>2, Zenon DEF DeviceAnswers
    <3>3. ASSUME NEW command, NEW text, toClient' = <<DevicePacket(command, text)>>, Honest(Plain(text), device)
          PROVE  FromDevice(Head(toClient'), device')
      <4>1. Head(toClient') = DevicePacket(command, text)
        BY <3>3
      <4>2. FromDevice(DevicePacket(command, text), device)
        BY <3>3, DeviceWrites
      <4> QED
        BY <2>1, <4>1, <4>2, Zenon
    <3> QED
      BY <2>2, <2>3, <2>4, <3>1, <3>2, <3>3, Zenon
  <2> QED
    BY <2>7, <2>8, <2>9, <2>10, <2>11, <2>12, <2>13, <2>14, <2>15, <2>16, <2>17, Zenon
       DEF Next, ConnectionStep, ReadStep, RequestStep
<1> QED
  BY <1>1, <1>2, TypesHold, PTL DEF Spec


\* A packet read with the version the device speaks, whose first unpacking fails and
\* whose second, without a key, succeeds: up to 3.3 both are the same, and from 3.4
\* on the second fails.
LEMMA NothingDetected ==
    ASSUME TypeOK, FromDevice(reading.packet, device), reading.protocol.version = device.version,
           unpack_message(reading.packet, NoKey, TRUE).err = "none"
    PROVE  unpack_message(reading.packet, get_hmac_key(reading.protocol, reading.key), TRUE).err = "none"
<1>1. reading.packet.seal = NoKey
  BY TextUnpacked
<1>2. ~(device.version >= 34)
  BY <1>1, Zenon DEF FromDevice
<1>3. get_hmac_key(reading.protocol, reading.key) = NoKey
  BY <1>2, Zenon DEF get_hmac_key
<1> QED
  BY <1>3

\* The library takes a device for a device22 only if it is one, or if it read the
\* packet with another version: what misleads it was said by a device22, or was
\* sealed in a way the device's own version does not use.
THEOREM DetectionIsSound == Spec => DetectionSound
<1>1. TypeOK /\ PacketInv /\ [Next]_vars =>
          [state'.devType # state.devType /\ edits' = edits =>
               device.is22 \/ reading.protocol.version # device.version]_vars
  <2> SUFFICES ASSUME TypeOK, PacketInv, Next, state'.devType # state.devType, edits' = edits,
                      reading.protocol.version = device.version
               PROVE  device.is22
    BY Zenon
  <2>1. ~User
    BY EditsCounted
  <2>2. ~Discovered /\ ~NotDiscovered
    BY DEF Discovered, NotDiscovered, TypeOK, Settings
  <2>3. ~(DialFails \/ HandshakeClosed \/ ResponseRefused \/ AttemptFails)
    <3> SUFFICES ASSUME DialFails \/ HandshakeClosed \/ ResponseRefused \/ AttemptFails PROVE FALSE
      OBVIOUS
    <3>1. \E e : AttemptEnds(e)
      BY DEF DialFails, HandshakeClosed, ResponseRefused, AttemptFails
    <3> QED
      BY <3>1 DEF AttemptEnds, TypeOK, Settings
  <2>4. CASE Unpacked
    <3> DEFINE first == unpack_message(reading.packet, get_hmac_key(reading.protocol, reading.key), TRUE)
               second == unpack_message(reading.packet, NoKey, TRUE)
    <3>1. reading.at = "unpacking" /\ SwitchToDevice22(Detected(first, second))
      BY <2>4 DEF Unpacked
    <3>2. Detected(first, second)
      BY <3>1 DEF SwitchToDevice22
    <3>3. FromDevice(reading.packet, device)
      BY <3>1 DEF PacketInv, InHand
    <3>4. first.err # "none" /\ second.err = "none"
      BY <3>2 DEF Detected
    <3>5. first.err = "none"
      BY <3>3, <3>4, NothingDetected, Zenon
    <3> QED
      BY <3>4, <3>5
  <2>5. CASE Decrypted
    <3> DEFINE plain == decrypt_payload(reading.protocol, reading.key, reading.packet.bytes)
    <3>1. /\ reading.at = "decrypting"
          /\ SwitchToDevice22(MayDetect /\ plain.err = "none" /\ plain.bytes = Plain("data unvalid"))
      BY <2>5 DEF Decrypted
    <3>2. plain.err = "none" /\ plain.bytes = Plain("data unvalid")
      BY <3>1 DEF SwitchToDevice22
    <3>3. FromDevice(reading.packet, device)
      BY <3>1 DEF PacketInv, InHand
    <3>4. reading.packet.bytes.text = "data unvalid"
      BY <3>2, TextDecrypted, Zenon
    <3> QED
      BY <3>3, <3>4, Zenon DEF FromDevice, Honest
  <2>6. CASE \/ ResolveAddress \/ Dial \/ NeedsSession \/ Negotiate \/ SendStart \/ SendFinish \/ StoreKey
             \/ ResponseVerified \/ Disconnect \/ ResponseTimeout \/ DeviceAnswers \/ Announce \/ Break
    BY <2>6, Zenon DEF ResolveAddress, Dial, NeedsSession, Negotiate, SendStart, SendFinish, SendNegotiation,
       StoreKey, ResponseVerified, Disconnect, ResponseTimeout, DeviceAnswers, Announce, Break
  <2>7. CASE \/ TakePacket \/ ReadSettings \/ ReaderPanics \/ Query \/ SendQuery \/ ExpectResponse
             \/ Response \/ Heartbeat
    BY <2>7, Zenon DEF TakePacket, ReadSettings, ReaderPanics, Query, SendQuery, ExpectResponse, Response,
       Heartbeat
  <2> QED
    BY <2>1, <2>2, <2>3, <2>4, <2>5, <2>6, <2>7, Zenon DEF Next, ConnectionStep, ReadStep, RequestStep
<1> QED
  BY <1>1, TypesHold, PacketsHold, PTL DEF Spec, DetectionSound


=============================================================================
