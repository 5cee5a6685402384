----------------------------- MODULE Broadcasts -----------------------------
(***************************************************************************)
(* The datagrams of discovery (src/scanner.rs): what the scanner sends and *)
(* what it makes of those it receives. A datagram without a prefix is not  *)
(* a packet.                                                               *)
(***************************************************************************)
EXTENDS Protocols

UDP_KEY_33 == 101
UDP_KEY_34 == 102
UDP_KEY_35 == UDP_KEY_34

\* The fields of the JSON texts on the discovery ports: the announcement of a
\* device, as its firmware writes it, and the two requests of the scanner.
Fields(text) ==
    CASE text = "announce" -> {"gwId", "ip", "version"}
      [] text = "announceDevId" -> {"devId", "ip"}
      [] text = "request55AA" -> {"gwId", "devId"}
      [] text = "request6699" -> {"from", "ip"}
      [] OTHER -> {}

send_discovery_broadcast(port) ==
    IF port = 7000
    THEN pack_message("6699", "ReqDevInfo", Plain("request6699"), UDP_KEY_35)
    ELSE pack_message("55AA", "UdpNew", Plain("request55AA"), NoKey)

IsJson(b) == b.layers = <<>> /\ Fields(b.text) # {}

\* Mutant: a name is enough for a device.
ParseJsonWithoutIp(b) ==
    IF Fields(b.text) \cap {"gwId", "devId", "id"} # {} THEN b.text ELSE "none"

\* A text is a discovery when it names a device and its address.
parse_json(b) ==
    IF Fields(b.text) \cap {"gwId", "devId", "id"} # {} /\ "ip" \in Fields(b.text)
    THEN b.text ELSE "none"

\* One try: the payload is JSON, or becomes JSON under the key of the try, or
\* under any key when the try has none.
Readable(b, keys) ==
    {b} \cup {decrypt(k, b).bytes : k \in {k \in keys : decrypt(k, b).err = "none"}}

TryUnpack(packet, key, hasRetcode) ==
    LET msg == unpack_message(packet, key, hasRetcode)
        keys == IF key = NoKey THEN {UDP_KEY_33, UDP_KEY_34, UDP_KEY_35} ELSE {key}
    IN  IF msg.err # "none" THEN {}
        ELSE {b \in Readable(msg.bytes, keys) : IsJson(b)}

\* The tries with a guessed retcode repeat one of the two others, and differ from
\* them in nothing else. No two tries read different texts from one datagram, so
\* their order does not matter. The last resort, a search for a brace, finds the
\* text that is not encrypted and not followed by a trailer.
ReadWhole(d) == {b \in Readable(d.bytes, {UDP_KEY_33, UDP_KEY_34}) : IsJson(b)}

ReadTried(d) ==
    UNION {TryUnpack(d, key, hasRetcode) :
               key \in {UDP_KEY_35, UDP_KEY_34, UDP_KEY_33, NoKey}, hasRetcode \in BOOLEAN}

Found(d) == IF d.prefix = "none" THEN ReadWhole(d) ELSE ReadTried(d)

parse_packet(d) ==
    IF ShorterThanHmac(d) THEN "panic"
    ELSE IF Found(d) = {} THEN "none" ELSE parse_json(CHOOSE b \in Found(d) : TRUE)

\* How devices of the versions announce themselves: bare or encrypted JSON, or a
\* packet with a retcode or without one.
Announcements(version, text) ==
    LET bodies == {Plain(text), Wrap(Ecb(UDP_KEY_33), Plain(text)), Wrap(Ecb(UDP_KEY_34), Plain(text))}
    IN  CASE version = 31 -> {pack_message("none", "UdpNew", b, NoKey) : b \in bodies}
          [] version = 35 -> {pack_message("6699", "UdpNew", b, UDP_KEY_35) :
                                  b \in {Plain(text), Wrap(Retcode, Plain(text))}}
          [] OTHER -> {pack_message("55AA", "UdpNew", b, NoKey) :
                           b \in bodies \cup {Wrap(Retcode, b) : b \in bodies}}

=============================================================================
