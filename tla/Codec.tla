-------------------------------- MODULE Codec -------------------------------
(***************************************************************************)
(* One message from the end that makes it to the end that reads it: a      *)
(* request or answer on a connection, or a datagram of discovery, under    *)
(* every protocol version, with every combination of settings and keys the *)
(* two ends may hold. The steps are those of process_command and pack_msg  *)
(* at one end, of parse_and_read_body (src/device.rs) and parse_packet     *)
(* (src/scanner.rs) at the other; the formats are those of Protocols.      *)
(***************************************************************************)
EXTENDS Broadcasts

CONSTANT Keys   \* keys the two ends may hold

ASSUME KeysAssumption == Keys \subseteq Nat

VARIABLES
    sender, receiver,  \* the two ends: protocol and key
    request,           \* command, data, cid, and whether a retcode goes before the payload
    stage,
    fields,            \* the fields of the payload
    packet,            \* the packet or datagram
    got                \* what the receiver has made of it

vars == <<sender, receiver, request, stage, fields, packet, got>>

Ends == [protocol : Protocols, key : Keys]
Requests == [command : Commands, data : Data, cid : BOOLEAN, retcode : BOOLEAN]

Datagrams ==
    (UNION {Announcements(version, text) : version \in Versions, text \in {"announce", "announceDevId"}})
        \cup {send_discovery_broadcast(port) : port \in {6666, 6667, 7000}}

NoPacket == pack_message("none", "Other", Plain(""), NoKey)

NoEnd == [protocol |-> get_protocol(AutoVersion, "auto"), key |-> NoKey]
NoRequest == [command |-> "Other", data |-> "none", cid |-> FALSE, retcode |-> FALSE]

Init ==
    /\ fields = {} /\ got = Ok(Plain(""))
    /\ \/ /\ stage = "made" /\ packet = NoPacket
          /\ sender \in Ends /\ receiver \in Ends /\ request \in Requests
       \/ /\ stage = "datagram" /\ packet \in Datagrams
          /\ sender = NoEnd /\ receiver = NoEnd /\ request = NoRequest

Generate ==
    /\ stage = "made"
    /\ fields' = generate_payload(sender.protocol, request.command, request.data, request.cid)
    /\ stage' = "generated"
    /\ UNCHANGED <<sender, receiver, request, packet, got>>

Pack ==
    /\ stage = "generated"
    /\ LET p == sender.protocol
           command == get_effective_command(p, request.command)
           body == pack_payload(p, command, sender.key, Plain("json"))
       IN  packet' = pack_message(get_prefix(p), command,
                                  IF request.retcode THEN Wrap(Retcode, body) ELSE body,
                                  get_hmac_key(p, sender.key))
    /\ stage' = "sent"
    /\ UNCHANGED <<sender, receiver, request, fields, got>>

Unpack ==
    /\ stage = "sent"
    /\ got' = unpack_message(packet, get_hmac_key(receiver.protocol, receiver.key), request.retcode)
    /\ stage' = IF got'.err = "none" THEN "unpacked" ELSE "refused"
    /\ UNCHANGED <<sender, receiver, request, fields, packet>>

Decrypt ==
    /\ stage = "unpacked"
    /\ got' = decrypt_payload(receiver.protocol, receiver.key, got.bytes)
    /\ stage' = IF got'.err = "none" THEN "read" ELSE "refused"
    /\ UNCHANGED <<sender, receiver, request, fields, packet>>

Parse ==
    /\ stage = "datagram"
    /\ got' = Ok(Plain(parse_packet(packet)))
    /\ stage' = "parsed"
    /\ UNCHANGED <<sender, receiver, request, fields, packet>>

Next == Generate \/ Pack \/ Unpack \/ Decrypt \/ Parse

Spec == Init /\ [][Next]_vars

(***************************************************************************)
(* Properties                                                              *)
(***************************************************************************)

\* What one end packs the other end of the same version, type and key reads: the
\* order of headers, encryption and trailers is undone in reverse.
RoundTrip ==
    receiver = sender => /\ stage # "refused"
                         /\ stage = "read" => got = Ok(Plain("json"))

\* Nobody reads an encrypted text with another key, whatever version they take it
\* for: the versions that return what they cannot decrypt return it encrypted. Only
\* 3.1 sends text that is not encrypted, in all but controls.
KeysSeparate ==
    stage = "read" /\ got = Ok(Plain("json"))
        => \/ receiver.key = sender.key
           \/ sender.protocol.version = 31 /\ packet.command \notin {"Control", "ControlNew"}

\* A request for a sub-device names it, and data given with a request is sent, in
\* every version: except that LanExtStream drops the cid unless for device22, and
\* any data that is no object.
RequestsComplete ==
    LET names == {f[2] : f \in fields}
    IN  stage = "generated" =>
            /\ request.cid => "cid" \in names
                                 \/ (request.command = "LanExtStream" /\ ~sender.protocol.dev22)
            /\ request.data # "none" => names \cap {"dps", "dpId", "user"} # {}
                                          \/ (request.command = "LanExtStream" /\ request.data = "value")

\* Every announcement is read, and no request of a scanner, this one's own included,
\* is taken for a device: parse_packet tries keys and retcodes until one fits.
AnnouncementsRead ==
    stage = "parsed" =>
        got.bytes.text = IF packet.bytes.text \in {"announce", "announceDevId"}
                         THEN packet.bytes.text ELSE "none"

=============================================================================
