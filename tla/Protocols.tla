----------------------------- MODULE Protocols ------------------------------
(***************************************************************************)
(* What the protocol versions (src/protocol) make of a request and of its  *)
(* bytes. A JSON payload is the set of its fields, each with the object it *)
(* is in. Bytes are a text and the layers put around it, outermost first.  *)
(* A layer is a version header, a retcode, an encryption under a key, or a *)
(* cut: the loss of leading bytes, after which nothing inside can be read. *)
(***************************************************************************)
EXTENDS Integers, Sequences

(***************************************************************************)
(* Versions, device types, commands.                                       *)
(***************************************************************************)
AutoVersion == 0
Versions == 31..35
DeviceTypes == {"auto", "default", "device22"}

\* The commands some protocol treats in its own way, and any other.
Commands == {"SessKeyNegStart", "SessKeyNegResp", "SessKeyNegFinish", "Control", "Status",
             "HeartBeat", "DpQuery", "ControlNew", "DpQueryNew", "UpdateDps", "LanExtStream",
             "Other"}

NO_PROTOCOL_HEADER_CMDS ==
    {"DpQuery", "DpQueryNew", "UpdateDps", "HeartBeat", "SessKeyNegStart", "SessKeyNegResp",
     "SessKeyNegFinish", "LanExtStream"}

\* AutoVersion counts as 3.3.
get_protocol(version, devType) ==
    [version |-> IF version = AutoVersion THEN 33 ELSE version, dev22 |-> devType = "device22"]

Protocols == [version : Versions, dev22 : BOOLEAN]

(***************************************************************************)
(* Payloads. The data of a request is absent, a value that is no object,   *)
(* an object, or an object with a reqType; an object has further fields.   *)
(***************************************************************************)
Data == {"none", "value", "object", "query"}

UserFields(data) ==
    (IF data \in {"object", "query"} THEN {"user"} ELSE {})
        \cup (IF data = "query" THEN {"reqType"} ELSE {})

Root(fields) == {"root"} \X fields
Nested(fields) == {"data"} \X fields

create_base_payload(data, cid) ==
    {"gwId", "devId", "uid", "t"}
        \cup (IF cid THEN {"cid"} ELSE {})
        \cup (IF data # "none" THEN {"dps"} ELSE {})

\* Mutant: an update drops the cid.
UpdateFieldsWithoutCid(data, cid) == {IF data = "none" THEN "dpId:default" ELSE "dpId"}

\* What all versions do alike: an update keeps the cid and lists the points, or
\* the default ones; a status or heartbeat has neither uid nor time.
UpdateFields(data, cid) ==
    (create_base_payload(data, cid) \cap {"cid"})
        \cup {IF data = "none" THEN "dpId:default" ELSE "dpId"}

CommonFields(command, data, cid) ==
    LET base == create_base_payload(data, cid)
    IN  CASE command = "UpdateDps" -> UpdateFields(data, cid)
          [] command \in {"Status", "HeartBeat"} -> base \ {"uid", "t"}
          [] command \in {"Control", "ControlNew", "DpQueryNew"} -> base \ {"gwId"}
          [] OTHER -> base

\* Versions up to 3.3 leave the cid out of a LanExtStream, whose data is the root.
generate_payload_v33(command, data, cid) ==
    Root(IF command = "LanExtStream" THEN UserFields(data)
                                     ELSE CommonFields(command, data, cid))

generate_payload_v31(command, data, cid) ==
    Root(IF command = "LanExtStream" THEN UserFields(data)
                                     ELSE CommonFields(command, data, cid))

\* A query that names no points gets one with a null value.
QueryFields(data, cid) ==
    (create_base_payload(data, cid) \ {"gwId"})
        \cup (IF data = "none" THEN {"dps:default"} ELSE {})

generate_payload_v32(command, data, cid) ==
    IF command = "DpQuery" THEN Root(QueryFields(data, cid))
                           ELSE generate_payload_v33(command, data, cid)

\* device22 keeps the cid of a LanExtStream.
generate_payload_dev22(command, data, cid) ==
    CASE command = "DpQuery" -> Root(QueryFields(data, cid))
      [] command = "LanExtStream" ->
             Root(UserFields(data) \cup (IF cid THEN {"cid", "ctype"} ELSE {}))
      [] OTHER -> Root(CommonFields(command, data, cid))

\* From 3.4 on a control is nested, a query names its target only, and a
\* LanExtStream that is an object keeps its reqType at the root.
generate_payload_v34(command, data, cid) ==
    CASE command \in {"Control", "ControlNew"} ->
             Root({"protocol", "t", "data"})
                 \cup Nested((IF cid THEN {"cid", "ctype"} ELSE {})
                                 \cup (IF data # "none" THEN {"dps"} ELSE {}))
      [] command = "LanExtStream" ->
             Root((UserFields(data) \cap {"reqType"})
                      \cup (IF UserFields(data) # {} THEN {"data"} ELSE {}))
                 \cup Nested(UserFields(data) \ {"reqType"})
      [] command \in {"DpQuery", "DpQueryNew"} ->
             Root(create_base_payload(data, cid) \cap {"cid", "dps"})
      [] OTHER -> Root(CommonFields(command, data, cid))

generate_payload_v35(command, data, cid) == generate_payload_v34(command, data, cid)

generate_payload(p, command, data, cid) ==
    IF p.dev22 THEN generate_payload_dev22(command, data, cid)
    ELSE IF p.version = 31 THEN generate_payload_v31(command, data, cid)
    ELSE IF p.version = 32 THEN generate_payload_v32(command, data, cid)
    ELSE IF p.version = 33 THEN generate_payload_v33(command, data, cid)
    ELSE IF p.version = 34 THEN generate_payload_v34(command, data, cid)
    ELSE generate_payload_v35(command, data, cid)

get_effective_command_v34(command) ==
    IF command = "Control" THEN "ControlNew"
    ELSE IF command = "DpQuery" THEN "DpQueryNew" ELSE command

get_effective_command_dev22(command) == IF command = "DpQuery" THEN "ControlNew" ELSE command

get_effective_command(p, command) ==
    IF p.dev22 THEN get_effective_command_dev22(command)
    ELSE IF p.version >= 34 THEN get_effective_command_v34(command) ELSE command

(***************************************************************************)
(* What a version asks of the connection. device22 delegates all but its   *)
(* own detection to the version it wraps.                                  *)
(***************************************************************************)
requires_session_key(p) == p.version >= 34
get_prefix(p) == IF p.version = 35 THEN "6699" ELSE "55AA"
should_check_dev22_fallback(p) == ~p.dev22 /\ p.version \in {33, 34}

(***************************************************************************)
(* Bytes. Keys are numbers; NoKey stands for none.                         *)
(***************************************************************************)
NoKey == -1

Header(version) == [kind |-> "header", by |-> version]
Ecb(key) == [kind |-> "ecb", by |-> key]
Md5(key) == [kind |-> "md5", by |-> key]
Retcode == [kind |-> "retcode", by |-> 0]
Cut == [kind |-> "cut", by |-> 0]

Plain(text) == [text |-> text, layers |-> <<>>]
Wrap(layer, b) == [text |-> b.text, layers |-> <<layer>> \o b.layers]
Peel(b) == [text |-> b.text, layers |-> Tail(b.layers)]
Outermost(b, layer) == b.layers # <<>> /\ Head(b.layers) = layer
Empty(b) == b.text = "" /\ b.layers = <<>>

Ok(b) == [err |-> "none", bytes |-> b]
Fail(error) == [err |-> error, bytes |-> Plain("")]

get_hmac_key(p, key) == IF p.version >= 34 THEN key ELSE NoKey

StripHeader(version, b) == IF Outermost(b, Header(version)) THEN Peel(b) ELSE b

\* Versions 3.2 and 3.3 put the header around the encryption, 3.4 inside it, and
\* 3.5 leaves the encryption to the packet. 3.1 encrypts and signs controls only.
pack_payload_v31(command, key, b) ==
    IF command \in {"Control", "ControlNew"} THEN Wrap(Md5(key), Wrap(Ecb(key), b)) ELSE b

AddHeader(version, command, b) ==
    IF command \in NO_PROTOCOL_HEADER_CMDS THEN b ELSE Wrap(Header(version), b)

pack_payload_v32(command, key, b) == AddHeader(32, command, Wrap(Ecb(key), b))
pack_payload_v33(command, key, b) == AddHeader(33, command, Wrap(Ecb(key), b))
\* Mutant: the header is put before the encrypted text, as in 3.3.
PackHeaderOutside(command, key, b) == AddHeader(34, command, Wrap(Ecb(key), b))
pack_payload_v34(command, key, b) == Wrap(Ecb(key), AddHeader(34, command, b))
pack_payload_v35(command, key, b) == AddHeader(35, command, b)

pack_payload(p, command, key, b) ==
    IF p.version = 31 THEN pack_payload_v31(command, key, b)
    ELSE IF p.version = 32 THEN pack_payload_v32(command, key, b)
    ELSE IF p.version = 33 THEN pack_payload_v33(command, key, b)
    ELSE IF p.version = 34 THEN pack_payload_v34(command, key, b)
    ELSE pack_payload_v35(command, key, b)

\* Mutant: the key is not looked at.
DecryptWithAnyKey(key, b) ==
    IF b.layers # <<>> /\ Head(b.layers).kind = "ecb" THEN Ok(Peel(b)) ELSE Fail("DecryptionFailed")

\* Decryption under another key fails on the padding, of plain text on the length.
decrypt(key, b) == IF Outermost(b, Ecb(key)) THEN Ok(Peel(b)) ELSE Fail("DecryptionFailed")

\* 3.1 does not look at the signature; what does not decrypt is an error.
decrypt_payload_v31(key, b) ==
    IF b.layers # <<>> /\ Head(b.layers).kind = "md5" THEN decrypt(key, Peel(b)) ELSE Ok(b)

\* The other versions return what does not decrypt as it is.
DecryptBetweenHeaders(version, key, b) ==
    LET inner == StripHeader(version, b)
    IN  IF decrypt(key, inner).err = "none"
        THEN Ok(StripHeader(version, decrypt(key, inner).bytes))
        ELSE Ok(inner)

decrypt_payload_v32(key, b) == DecryptBetweenHeaders(32, key, b)
decrypt_payload_v33(key, b) == DecryptBetweenHeaders(33, key, b)

decrypt_payload_v34(key, b) ==
    Ok(StripHeader(34, IF decrypt(key, b).err = "none" THEN decrypt(key, b).bytes ELSE b))

decrypt_payload_v35(key, b) == Ok(StripHeader(35, b))

decrypt_payload(p, key, b) ==
    IF p.version = 31 THEN decrypt_payload_v31(key, b)
    ELSE IF p.version = 32 THEN decrypt_payload_v32(key, b)
    ELSE IF p.version = 33 THEN decrypt_payload_v33(key, b)
    ELSE IF p.version = 34 THEN decrypt_payload_v34(key, b)
    ELSE decrypt_payload_v35(key, b)

(***************************************************************************)
(* Packets: a prefix, a command, the bytes, and the key of the HMAC (55AA) *)
(* or of the encryption (6699); a 55AA packet without a key has a CRC.     *)
(***************************************************************************)
pack_message(prefix, command, b, key) ==
    [prefix |-> prefix, command |-> command, bytes |-> b, seal |-> key]

\* The whole packet is shorter than the trailer of a packet with an HMAC.
ShorterThanHmac(packet) ==
    /\ packet.prefix = "55AA" /\ packet.seal = NoKey
    /\ packet.bytes.text = "" /\ packet.bytes.layers \in {<<>>, <<Retcode>>}

\* The first four bytes, if there are that many, are taken for the retcode.
TakeRetcode(b) ==
    IF Empty(b) THEN b
    ELSE IF Outermost(b, Retcode) THEN Peel(b) ELSE Wrap(Cut, b)

\* The unsigned length of the packet minus that of the trailer wraps around when
\* the packet is shorter, and the task panics on the slice that follows.
unpack_message(packet, key, hasRetcode) ==
    LET body == IF hasRetcode THEN TakeRetcode(packet.bytes) ELSE packet.bytes
    IN  IF packet.prefix = "55AA" /\ key # NoKey /\ ShorterThanHmac(packet) THEN Fail("panic")
        ELSE IF packet.prefix = "6699" /\ key = NoKey THEN Fail("EncryptionFailed")
        ELSE IF packet.seal = key THEN Ok(body)
        ELSE Fail(IF packet.prefix = "6699" THEN "DecryptionFailed"
                  ELSE IF key = NoKey THEN "CrcMismatch" ELSE "HmacMismatch")

=============================================================================
