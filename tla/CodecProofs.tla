---------------------------- MODULE CodecProofs -----------------------------
(***************************************************************************)
(* The packet formats invert each other and keep keys apart, for every set *)
(* of keys and not only for the few that the run enumerates.               *)
(***************************************************************************)
EXTENDS Codec, SequenceTheorems, TLAPS

Layers == [kind : {"header", "ecb", "md5", "retcode"}, by : Int]
Bytes(text) == [text : {text}, layers : Seq(Layers)]

\* An element put before a sequence is its head, and the sequence its tail.
LEMMA HeadFirst ==
    ASSUME NEW S, NEW x \in S, NEW s \in Seq(S)
    PROVE  /\ <<x>> \o s \in Seq(S)
           /\ <<x>> \o s # <<>>
           /\ Head(<<x>> \o s) = x
           /\ Tail(<<x>> \o s) = s
<1> DEFINE t == <<x>> \o s
<1>1. <<x>> \in Seq(S) /\ Len(<<x>>) = 1 /\ <<x>>[1] = x
  OBVIOUS
<1>2. /\ t \in Seq(S) /\ Len(t) = 1 + Len(s)
      /\ \A i \in 1..(1 + Len(s)) : t[i] = IF i <= 1 THEN x ELSE s[i - 1]
  <2>1. /\ t \in Seq(S) /\ Len(t) = Len(<<x>>) + Len(s)
        /\ \A i \in 1..(Len(<<x>>) + Len(s)) :
               t[i] = IF i <= Len(<<x>>) THEN <<x>>[i] ELSE s[i - Len(<<x>>)]
    BY <1>1, ConcatProperties, Zenon
  <2> HIDE DEF t
  <2>2. \A i \in 1..(1 + Len(s)) : i <= 1 => i = 1
    BY Len(s) \in Nat
  <2> QED
    BY <1>1, <2>1, <2>2
<1> HIDE DEF t
<1>3. Len(s) \in Nat
  OBVIOUS
<1>4. t # <<>> /\ t[1] = x
  BY <1>2, <1>3
<1>5. Head(t) = x
  BY <1>2, <1>4
<1>6. /\ Tail(t) \in Seq(S) /\ Len(Tail(t)) = Len(t) - 1
      /\ \A i \in 1..Len(Tail(t)) : Tail(t)[i] = t[i + 1]
  BY <1>2, <1>4, HeadTailProperties
<1>7. Len(Tail(t)) = Len(s) /\ \A i \in 1..Len(Tail(t)) : Tail(t)[i] = s[i]
  BY <1>2, <1>3, <1>6
<1>8. Tail(t) = s
  BY <1>6, <1>7, SeqEqual, Zenon
<1> QED
  BY <1>2, <1>4, <1>5, <1>8 DEF t

\* A layer put around bytes is the outermost one, and peeling gives the bytes back.
LEMMA WrapPeel ==
    ASSUME NEW text, NEW b \in Bytes(text), NEW layer \in Layers
    PROVE  /\ Wrap(layer, b) \in Bytes(text)
           /\ Wrap(layer, b).layers # <<>>
           /\ Head(Wrap(layer, b).layers) = layer
           /\ Peel(Wrap(layer, b)) = b
<1>1. b.text = text /\ b.layers \in Seq(Layers) /\ b = [text |-> b.text, layers |-> b.layers]
  BY DEF Bytes
<1>2. /\ <<layer>> \o b.layers \in Seq(Layers)
      /\ <<layer>> \o b.layers # <<>>
      /\ Head(<<layer>> \o b.layers) = layer
      /\ Tail(<<layer>> \o b.layers) = b.layers
  BY <1>1, HeadFirst, Zenon
<1> QED
  BY <1>1, <1>2 DEF Wrap, Peel, Bytes

\* A text on its own has no layers.
LEMMA PlainBytes ==
    ASSUME NEW text
    PROVE  Plain(text) \in Bytes(text) /\ Plain(text).layers = <<>>
BY DEF Plain, Bytes

\* The layers that the formats use differ from each other.
LEMMA LayersDiffer ==
    ASSUME NEW key \in Int, NEW version \in Versions
    PROVE  /\ Header(version) \in Layers /\ Ecb(key) \in Layers /\ Md5(key) \in Layers /\ Retcode \in Layers
           /\ Header(version).kind = "header" /\ Ecb(key).kind = "ecb" /\ Md5(key).kind = "md5"
           /\ Header(version) # Ecb(key)
<1>1. /\ Header(version).kind = "header" /\ Ecb(key).kind = "ecb" /\ Md5(key).kind = "md5"
  BY DEF Header, Ecb, Md5
<1>2. Header(version) \in Layers /\ Ecb(key) \in Layers /\ Md5(key) \in Layers /\ Retcode \in Layers
  <2>1. version \in Int
    BY DEF Versions
  <2> QED
    BY <2>1 DEF Layers, Header, Ecb, Md5, Retcode
<1> QED
  BY <1>1, <1>2

\* 3.2 and 3.3: the header outside, the encryption inside.
LEMMA BetweenHeadersInverts ==
    ASSUME NEW version \in Versions, NEW command, NEW key \in Int, NEW text
    PROVE  LET b == AddHeader(version, command, Wrap(Ecb(key), Plain(text)))
           IN  b \in Bytes(text) /\ DecryptBetweenHeaders(version, key, b) = Ok(Plain(text))
<1> DEFINE w == Wrap(Ecb(key), Plain(text))
           b == AddHeader(version, command, w)
<1>1. /\ w \in Bytes(text) /\ w.layers # <<>> /\ Head(w.layers) = Ecb(key) /\ Peel(w) = Plain(text)
  BY PlainBytes, LayersDiffer, WrapPeel, Zenon
<1>2. b \in Bytes(text) /\ StripHeader(version, b) = w
  <2>1. StripHeader(version, w) = w
    BY <1>1, LayersDiffer DEF StripHeader, Outermost
  <2>2. Wrap(Header(version), w) \in Bytes(text) /\ StripHeader(version, Wrap(Header(version), w)) = w
    BY <1>1, LayersDiffer, WrapPeel, Zenon DEF StripHeader, Outermost
  <2> QED
    BY <1>1, <2>1, <2>2 DEF AddHeader
<1>3. decrypt(key, w) = Ok(Plain(text))
  BY <1>1 DEF decrypt, Outermost
<1>4. StripHeader(version, Plain(text)) = Plain(text)
  BY PlainBytes DEF StripHeader, Outermost
<1> HIDE DEF w, b
<1>5. DecryptBetweenHeaders(version, key, b) = Ok(Plain(text))
  BY <1>2, <1>3, <1>4 DEF DecryptBetweenHeaders, Ok
<1> QED
  BY <1>2, <1>5 DEF b, w

\* What pack_payload makes of a text, decrypt_payload of the same protocol and key
\* turns back into it.
LEMMA PayloadsInvert ==
    ASSUME NEW p \in Protocols, NEW command, NEW key \in Int, NEW text
    PROVE  LET b == pack_payload(p, command, key, Plain(text))
           IN  b \in Bytes(text) /\ decrypt_payload(p, key, b) = Ok(Plain(text))
<1>0. p.version \in Versions
  BY DEF Protocols
<1>1. CASE p.version = 31
  <2> DEFINE e == Wrap(Ecb(key), Plain(text))
             b == Wrap(Md5(key), e)
  <2>1. e \in Bytes(text) /\ decrypt(key, e) = Ok(Plain(text))
    BY PlainBytes, LayersDiffer, <1>0, WrapPeel, Zenon DEF decrypt, Outermost
  <2>2. b \in Bytes(text) /\ b.layers # <<>> /\ Head(b.layers).kind = "md5" /\ Peel(b) = e
    BY <2>1, LayersDiffer, <1>0, WrapPeel, Zenon
  <2>3. decrypt_payload_v31(key, b) = Ok(Plain(text))
    BY <2>1, <2>2 DEF decrypt_payload_v31
  <2>4. decrypt_payload_v31(key, Plain(text)) = Ok(Plain(text))
    BY PlainBytes DEF decrypt_payload_v31
  <2> QED
    BY <1>1, <2>2, <2>3, <2>4, PlainBytes, Zenon DEF pack_payload, pack_payload_v31, decrypt_payload
<1>2. CASE p.version = 32
  BY <1>0, <1>2, BetweenHeadersInverts DEF pack_payload, pack_payload_v32, decrypt_payload, decrypt_payload_v32
<1>3. CASE p.version = 33
  BY <1>0, <1>3, BetweenHeadersInverts DEF pack_payload, pack_payload_v33, decrypt_payload, decrypt_payload_v33
<1>4. CASE p.version = 34 \/ p.version = 35
  <2> DEFINE v == p.version
             b == AddHeader(v, command, Plain(text))
  <2>1. StripHeader(v, Plain(text)) = Plain(text)
    BY PlainBytes DEF StripHeader, Outermost
  <2>2. /\ Wrap(Header(v), Plain(text)) \in Bytes(text)
        /\ StripHeader(v, Wrap(Header(v), Plain(text))) = Plain(text)
    BY PlainBytes, <1>0, LayersDiffer, WrapPeel, Zenon DEF StripHeader, Outermost
  <2>3. b \in Bytes(text) /\ StripHeader(v, b) = Plain(text)
    BY PlainBytes, <2>1, <2>2 DEF AddHeader
  <2> HIDE DEF b
  <2>4. Wrap(Ecb(key), b) \in Bytes(text) /\ decrypt(key, Wrap(Ecb(key), b)) = Ok(b)
    BY <2>3, <1>0, LayersDiffer, WrapPeel, Zenon DEF decrypt, Outermost
  <2>5. v = 34 => decrypt_payload_v34(key, Wrap(Ecb(key), b)) = Ok(Plain(text))
    BY <2>3, <2>4 DEF decrypt_payload_v34, Ok
  <2>6. v = 35 => decrypt_payload_v35(key, b) = Ok(Plain(text))
    BY <2>3 DEF decrypt_payload_v35
  <2>7. CASE v = 34
    BY <2>4, <2>5, <2>7 DEF pack_payload, pack_payload_v34, decrypt_payload, b
  <2>8. CASE v = 35
    BY <2>3, <2>6, <2>8 DEF pack_payload, pack_payload_v35, decrypt_payload, b
  <2> QED
    BY <1>4, <2>7, <2>8
<1> QED
  BY <1>0, <1>1, <1>2, <1>3, <1>4 DEF Versions

(***************************************************************************)
(* The invariant: the packet is what the sender made of the request, and   *)
(* the receiver has gone as far as its own settings and key let it.        *)
(***************************************************************************)
Command == get_effective_command(sender.protocol, request.command)
Body == pack_payload(sender.protocol, Command, sender.key, Plain("json"))
Sent == IF request.retcode THEN Wrap(Retcode, Body) ELSE Body
Packet == pack_message(get_prefix(sender.protocol), Command, Sent, get_hmac_key(sender.protocol, sender.key))
Fits == get_hmac_key(receiver.protocol, receiver.key) = get_hmac_key(sender.protocol, sender.key)

OnConnection == stage \notin {"datagram", "parsed"}

CodecInv ==
    OnConnection =>
        /\ sender \in Ends /\ receiver \in Ends /\ request \in Requests
        /\ stage \in {"made", "generated", "sent", "unpacked", "read", "refused"}
        /\ stage = "refused" => receiver # sender
        /\ stage = "generated" =>
               fields = generate_payload(sender.protocol, request.command, request.data, request.cid)
        /\ stage \in {"sent", "unpacked", "read"} => packet = Packet
        /\ stage \in {"unpacked", "read"} => Fits
        /\ stage = "unpacked" => got = Ok(Body)
        /\ stage = "read" => got = decrypt_payload(receiver.protocol, receiver.key, Body)

\* The parts of two ends that have their types.
LEMMA EndTypes ==
    ASSUME NEW end \in Ends
    PROVE  /\ end.protocol \in Protocols /\ end.protocol.version \in 31..35
           /\ end.key \in Nat /\ end.key \in Int
<1>1. end.protocol \in Protocols /\ end.key \in Keys
  BY DEF Ends
<1>2. end.protocol.version \in 31..35
  BY <1>1 DEF Protocols, Versions
<1>3. end.key \in Nat
  BY <1>1, KeysAssumption
<1> QED
  BY <1>1, <1>2, <1>3

\* Whatever unpack_message accepts is the payload that was packed, and it accepts
\* what was sealed with the receiver's key.
LEMMA UnpackResult ==
    ASSUME sender \in Ends, receiver \in Ends, request \in Requests
    PROVE  LET msg == unpack_message(Packet, get_hmac_key(receiver.protocol, receiver.key), request.retcode)
           IN  /\ msg.err = "none" => Fits /\ msg = Ok(Body)
               /\ receiver = sender => msg.err = "none"
<1> DEFINE key == get_hmac_key(receiver.protocol, receiver.key)
           seal == get_hmac_key(sender.protocol, sender.key)
           msg == unpack_message(Packet, key, request.retcode)
<1>0. sender.protocol.version \in Versions /\ sender.key \in Int /\ request.retcode \in BOOLEAN
  BY EndTypes DEF Requests, Versions
<1>1. Body \in Bytes("json")
  BY <1>0, EndTypes, PayloadsInvert DEF Body
<1>2. (IF request.retcode THEN TakeRetcode(Sent) ELSE Sent) = Body
  <2>1. /\ Wrap(Retcode, Body).layers # <<>> /\ Head(Wrap(Retcode, Body).layers) = Retcode
        /\ Peel(Wrap(Retcode, Body)) = Body
    BY <1>0, <1>1, LayersDiffer, WrapPeel, Zenon
  <2> QED
    BY <1>0, <2>1 DEF TakeRetcode, Outermost, Empty, Sent
<1>3. Packet.seal = seal /\ Packet.bytes = Sent /\ Packet.prefix = get_prefix(sender.protocol)
  BY DEF Packet, pack_message
<1>4. get_prefix(sender.protocol) = "6699" => seal # NoKey
  BY EndTypes DEF get_prefix, get_hmac_key, NoKey
<1>5. seal # NoKey => ~ShorterThanHmac(Packet)
  BY <1>3, Zenon DEF ShorterThanHmac
<1> HIDE DEF key, seal
<1>6. key = seal => msg = Ok(Body)
  BY <1>2, <1>3, <1>4, <1>5 DEF unpack_message
<1>7. key # seal => msg.err # "none"
  BY <1>3 DEF unpack_message, Fail
<1>8. Ok(Body).err = "none"
  BY DEF Ok
<1>9. receiver = sender => key = seal
  BY DEF key, seal
<1> QED
  BY <1>6, <1>7, <1>8, <1>9 DEF Fits, key, seal

\* CodecInv is an invariant.
THEOREM CodecInvariant == Spec => []CodecInv
<1>1. Init => CodecInv
  BY DEF Init, CodecInv, OnConnection
<1>2. CodecInv /\ [Next]_vars => CodecInv'
  <2> SUFFICES ASSUME CodecInv, [Next]_vars PROVE CodecInv'
    OBVIOUS
  <2>1. CASE Generate
    BY <2>1 DEF Generate, CodecInv, OnConnection
  <2>2. CASE Pack
    BY <2>2 DEF Pack, CodecInv, OnConnection, Packet, Sent, Body, Command
  <2>3. CASE Unpack
    <3>1. sender \in Ends /\ receiver \in Ends /\ request \in Requests /\ packet = Packet
      BY <2>3 DEF Unpack, CodecInv, OnConnection
    <3>2. /\ got'.err = "none" => Fits /\ got' = Ok(Body)
          /\ receiver = sender => got'.err = "none"
      BY <2>3, <3>1, UnpackResult DEF Unpack
    <3> QED
      BY <2>3, <3>1, <3>2 DEF Unpack, CodecInv, OnConnection, Packet, Sent, Body, Command, Fits
  <2>4. CASE Decrypt
    <3>1. /\ sender \in Ends /\ receiver \in Ends /\ request \in Requests
          /\ packet = Packet /\ Fits /\ got = Ok(Body)
      BY <2>4 DEF Decrypt, CodecInv, OnConnection
    <3>2. got' = decrypt_payload(receiver.protocol, receiver.key, Body)
      BY <2>4, <3>1 DEF Decrypt, Ok
    <3>3. receiver = sender => got' = Ok(Plain("json"))
      BY <3>1, <3>2, EndTypes, PayloadsInvert DEF Body
    <3>4. receiver = sender => got'.err = "none"
      BY <3>3 DEF Ok
    <3> QED
      BY <2>4, <3>1, <3>2, <3>4 DEF Decrypt, CodecInv, OnConnection, Packet, Sent, Body, Command, Fits
  <2>5. CASE Parse
    BY <2>5 DEF Parse, CodecInv, OnConnection
  <2>6. CASE UNCHANGED vars
    BY <2>6 DEF vars, CodecInv, OnConnection, Packet, Sent, Body, Command, Fits
  <2> QED
    BY <2>1, <2>2, <2>3, <2>4, <2>5, <2>6 DEF Next
<1> QED
  BY <1>1, <1>2, PTL DEF Spec

\* Two ends with the same version, device type and key understand each other,
\* whatever the key and the command.
THEOREM EndsUnderstand == Spec => []RoundTrip
<1>1. CodecInv => RoundTrip
  <2> SUFFICES ASSUME CodecInv, receiver = sender
               PROVE  stage # "refused" /\ (stage = "read" => got = Ok(Plain("json")))
    BY DEF RoundTrip
  <2>1. stage # "refused"
    BY DEF CodecInv, OnConnection
  <2>2. ASSUME stage = "read" PROVE got = Ok(Plain("json"))
    BY <2>2, EndTypes, PayloadsInvert DEF CodecInv, OnConnection, Body
  <2> QED
    BY <2>1, <2>2
<1> QED
  BY <1>1, CodecInvariant, PTL

\* Bytes whose outermost layer is not an encryption under the key stay as they are.
LEMMA StaysSealed ==
    ASSUME NEW version \in Versions, NEW key \in Int, NEW other \in Int, key # other,
           NEW b \in Bytes("json"), NEW layer \in {Ecb(key), Md5(key)},
           b.layers # <<>>, Head(b.layers) = layer
    PROVE  /\ DecryptBetweenHeaders(version, other, b) # Ok(Plain("json"))
           /\ b # Plain("json")
           /\ decrypt(other, b).err # "none"
<1>1. layer # Header(version) /\ layer # Ecb(other)
  BY DEF Header, Ecb, Md5
<1>2. StripHeader(version, b) = b
  BY <1>1 DEF StripHeader, Outermost
<1>3. decrypt(other, b).err # "none"
  BY <1>1 DEF decrypt, Outermost, Fail
<1>4. b # Plain("json")
  BY DEF Plain
<1>5. DecryptBetweenHeaders(version, other, b) = Ok(b)
  BY <1>2, <1>3 DEF DecryptBetweenHeaders
<1> QED
  BY <1>3, <1>4, <1>5 DEF Ok

\* A payload that an end up to 3.3 has encrypted is not read under another key by a
\* receiver up to 3.3, whichever of these versions it takes it for.
LEMMA OldPayloadsSealed ==
    ASSUME NEW p \in Protocols, NEW q \in Protocols, p.version < 34, q.version < 34, NEW command,
           p.version = 31 => command \in {"Control", "ControlNew"},
           NEW key \in Int, NEW other \in Int, key # other
    PROVE  decrypt_payload(q, other, pack_payload(p, command, key, Plain("json"))) # Ok(Plain("json"))
<1> DEFINE e == Wrap(Ecb(key), Plain("json"))
           b == pack_payload(p, command, key, Plain("json"))
<1>0. p.version \in {31, 32, 33} /\ q.version \in {31, 32, 33} /\ p.version \in Versions /\ q.version \in Versions
  BY DEF Protocols, Versions
<1>1. e \in Bytes("json") /\ e.layers # <<>> /\ Head(e.layers) = Ecb(key)
  BY <1>0, PlainBytes, LayersDiffer, WrapPeel, Zenon
<1>2. CASE p.version = 31
  <2>1. b = Wrap(Md5(key), e)
    BY <1>2 DEF pack_payload, pack_payload_v31
  <2> HIDE DEF b, e
  <2>2. b \in Bytes("json") /\ b.layers # <<>> /\ Head(b.layers) = Md5(key) /\ Peel(b) = e
    <3>1. Md5(key) \in Layers
      BY <1>0, LayersDiffer, Zenon
    <3> QED
      BY <2>1, <3>1, <1>1, WrapPeel, Zenon
  <2>3. decrypt_payload_v31(other, b) # Ok(Plain("json"))
    <3>1. decrypt(other, e).err # "none" /\ Ok(Plain("json")).err = "none"
      BY <1>0, <1>1, StaysSealed DEF Ok
    <3> QED
      BY <2>2, <3>1 DEF decrypt_payload_v31, Md5
  <2>4. DecryptBetweenHeaders(q.version, other, b) # Ok(Plain("json"))
    BY <1>0, <2>2, StaysSealed
  <2> QED
    BY <1>0, <2>3, <2>4 DEF decrypt_payload, decrypt_payload_v32, decrypt_payload_v33, b
<1>3. CASE p.version # 31
  <2>1. b = AddHeader(p.version, command, e)
    BY <1>0, <1>3 DEF pack_payload, pack_payload_v32, pack_payload_v33
  <2> HIDE DEF b, e
  <2>2. \/ b = e
        \/ /\ b \in Bytes("json") /\ b.layers # <<>> /\ Head(b.layers) = Header(p.version) /\ Peel(b) = e
           /\ b = Wrap(Header(p.version), e)
    <3>1. LET w == Wrap(Header(p.version), e)
          IN  w \in Bytes("json") /\ w.layers # <<>> /\ Head(w.layers) = Header(p.version) /\ Peel(w) = e
      BY <1>0, <1>1, LayersDiffer, WrapPeel, Zenon
    <3> QED
      BY <2>1, <3>1, Zenon DEF AddHeader
  <2>3. decrypt_payload_v31(other, b) = Ok(b)
    <3>1. b.layers # <<>> /\ Head(b.layers).kind # "md5"
      BY <1>1, <2>2 DEF Header, Ecb
    <3> QED
      BY <3>1 DEF decrypt_payload_v31
  <2>4. b # Plain("json") /\ Ok(b).bytes = b /\ Ok(Plain("json")).bytes = Plain("json")
    BY <1>1, <2>2 DEF Plain, Ok
  <2>5. DecryptBetweenHeaders(q.version, other, b) # Ok(Plain("json"))
    <3>1. CASE b = e
      BY <3>1, <1>0, <1>1, StaysSealed
    <3>2. CASE b # e /\ p.version = q.version
      <4>1. StripHeader(q.version, b) = e
        BY <2>2, <3>2 DEF StripHeader, Outermost
      <4>2. decrypt(other, e).err # "none"
        BY <1>0, <1>1, StaysSealed
      <4>3. DecryptBetweenHeaders(q.version, other, b) = Ok(e)
        BY <4>1, <4>2 DEF DecryptBetweenHeaders
      <4> QED
        BY <4>3, <1>1, PlainBytes DEF Ok
    <3>3. CASE b # e /\ p.version # q.version
      <4>1. Header(p.version) # Header(q.version) /\ Header(p.version) # Ecb(other)
        BY <3>3 DEF Header, Ecb
      <4>2. StripHeader(q.version, b) = b /\ decrypt(other, b).err # "none"
        BY <2>2, <3>3, <4>1 DEF StripHeader, Outermost, decrypt, Fail
      <4>3. DecryptBetweenHeaders(q.version, other, b) = Ok(b)
        BY <4>2 DEF DecryptBetweenHeaders
      <4> QED
        BY <2>4, <4>3
    <3> QED
      BY <3>1, <3>2, <3>3
  <2> QED
    BY <1>0, <2>3, <2>4, <2>5 DEF decrypt_payload, decrypt_payload_v32, decrypt_payload_v33, b
<1> QED
  BY <1>2, <1>3

\* No receiver reads an encrypted message with a key that is not the sender's,
\* whatever version it believes in.
THEOREM KeysKeptApart == Spec => []KeysSeparate
<1>1. CodecInv => KeysSeparate
  <2> SUFFICES ASSUME CodecInv, stage = "read", got = Ok(Plain("json")), receiver.key # sender.key,
                      ~(sender.protocol.version = 31 /\ packet.command \notin {"Control", "ControlNew"})
               PROVE  FALSE
    BY DEF KeysSeparate
  <2>1. /\ sender \in Ends /\ receiver \in Ends /\ packet = Packet /\ Fits
        /\ got = decrypt_payload(receiver.protocol, receiver.key, Body)
    BY DEF CodecInv, OnConnection
  <2>2. sender.protocol.version < 34 /\ receiver.protocol.version < 34
    BY <2>1, EndTypes DEF Fits, get_hmac_key, NoKey
  <2>3. packet.command = Command
    BY <2>1 DEF Packet, pack_message
  <2>4. got # Ok(Plain("json"))
    BY <2>1, <2>2, <2>3, EndTypes, OldPayloadsSealed DEF Body
  <2> QED
    BY <2>4
<1> QED
  BY <1>1, CodecInvariant, PTL


(***************************************************************************)
(* What a request names.                                                   *)
(***************************************************************************)
Names(payload) == {f[2] : f \in payload}

\* A field at the root, or in the nested object, is named.
LEMMA Named ==
    ASSUME NEW S, NEW T, NEW x
    PROVE  /\ x \in S => x \in Names(Root(S))
           /\ x \in S => x \in Names(Root(S) \cup Nested(T))
           /\ x \in T => x \in Names(Root(S) \cup Nested(T))
<1>1. x \in S => <<"root", x>> \in Root(S)
  BY DEF Root
<1>2. x \in T => <<"data", x>> \in Nested(T)
  BY DEF Nested
<1>3. <<"root", x>>[2] = x /\ <<"data", x>>[2] = x
  OBVIOUS
<1> QED
  BY <1>1, <1>2, <1>3, Zenon DEF Names

\* A request for a sub-device names it, but for the LanExtStream that is not for a
\* device22.
LEMMA SubDeviceNamed ==
    ASSUME NEW command, NEW data
    PROVE  /\ "cid" \in Names(generate_payload_dev22(command, data, TRUE))
           /\ command # "LanExtStream" =>
                  /\ "cid" \in Names(generate_payload_v31(command, data, TRUE))
                  /\ "cid" \in Names(generate_payload_v32(command, data, TRUE))
                  /\ "cid" \in Names(generate_payload_v33(command, data, TRUE))
                  /\ "cid" \in Names(generate_payload_v34(command, data, TRUE))
                  /\ "cid" \in Names(generate_payload_v35(command, data, TRUE))
<1>1. "cid" \in create_base_payload(data, TRUE)
  BY DEF create_base_payload
<1>2. "cid" \in CommonFields(command, data, TRUE) /\ "cid" \in QueryFields(data, TRUE)
  BY <1>1 DEF CommonFields, UpdateFields, QueryFields
<1>3. "cid" \in Names(generate_payload_dev22(command, data, TRUE))
  BY <1>2, Named DEF generate_payload_dev22
<1>4. ASSUME command # "LanExtStream"
      PROVE  /\ "cid" \in Names(generate_payload_v31(command, data, TRUE))
             /\ "cid" \in Names(generate_payload_v32(command, data, TRUE))
             /\ "cid" \in Names(generate_payload_v33(command, data, TRUE))
  BY <1>2, <1>4, Named DEF generate_payload_v31, generate_payload_v32, generate_payload_v33
<1>5. ASSUME command # "LanExtStream" PROVE "cid" \in Names(generate_payload_v34(command, data, TRUE))
  BY <1>1, <1>2, <1>5, Named DEF generate_payload_v34
<1> QED
  BY <1>3, <1>4, <1>5 DEF generate_payload_v35

\* Data given with a request is in it, but for the value in a LanExtStream.
LEMMA DataNamed ==
    ASSUME NEW command, NEW data \in Data, NEW cid \in BOOLEAN, data # "none",
           ~(command = "LanExtStream" /\ data = "value")
    PROVE  \A payload \in {generate_payload_dev22(command, data, cid),
                            generate_payload_v31(command, data, cid),
                            generate_payload_v32(command, data, cid),
                            generate_payload_v33(command, data, cid),
                            generate_payload_v34(command, data, cid),
                            generate_payload_v35(command, data, cid)} :
               \E x \in {"dps", "dpId", "user"} : x \in Names(payload)
<1>1. "dps" \in create_base_payload(data, cid)
  BY DEF create_base_payload
<1>2. (\E x \in {"dps", "dpId"} : x \in CommonFields(command, data, cid)) /\ "dps" \in QueryFields(data, cid)
  BY <1>1 DEF CommonFields, UpdateFields, QueryFields
<1>3. command = "LanExtStream" => "user" \in UserFields(data) /\ UserFields(data) # {}
  BY DEF UserFields, Data
<1>4. \E x \in {"dps", "dpId", "user"} : x \in Names(generate_payload_dev22(command, data, cid))
  BY <1>2, <1>3, Named DEF generate_payload_dev22
<1>5. \E x \in {"dps", "dpId", "user"} : x \in Names(generate_payload_v31(command, data, cid))
  BY <1>2, <1>3, Named DEF generate_payload_v31
<1>6. \E x \in {"dps", "dpId", "user"} : x \in Names(generate_payload_v33(command, data, cid))
  BY <1>2, <1>3, Named DEF generate_payload_v33
<1>7. \E x \in {"dps", "dpId", "user"} : x \in Names(generate_payload_v32(command, data, cid))
  BY <1>2, <1>6, Named DEF generate_payload_v32
<1>8. \E x \in {"dps", "dpId", "user"} : x \in Names(generate_payload_v34(command, data, cid))
  <2>1. CASE command \in {"Control", "ControlNew"}
    BY <2>1, Named DEF generate_payload_v34
  <2>2. CASE command = "LanExtStream"
    BY <1>3, <2>2, Named DEF generate_payload_v34
  <2>3. CASE command \in {"DpQuery", "DpQueryNew"}
    BY <1>1, <2>3, Named DEF generate_payload_v34
  <2>4. CASE command \notin {"Control", "ControlNew", "LanExtStream", "DpQuery", "DpQueryNew"}
    BY <1>2, <2>4, Named DEF generate_payload_v34
  <2> QED
    BY <2>1, <2>2, <2>3, <2>4
<1> QED
  BY <1>4, <1>5, <1>6, <1>7, <1>8 DEF generate_payload_v35

\* No version loses the sub-device or the data of a request, but for those of
\* LanExtStream.
THEOREM RequestsAreComplete == Spec => []RequestsComplete
<1>1. CodecInv => RequestsComplete
  <2> SUFFICES ASSUME CodecInv, stage = "generated"
               PROVE  /\ request.cid => \/ "cid" \in Names(fields)
                                        \/ request.command = "LanExtStream" /\ ~sender.protocol.dev22
                      /\ request.data # "none" =>
                             \/ Names(fields) \cap {"dps", "dpId", "user"} # {}
                             \/ request.command = "LanExtStream" /\ request.data = "value"
    BY DEF RequestsComplete, Names
  <2>1. /\ request \in Requests
        /\ fields = generate_payload(sender.protocol, request.command, request.data, request.cid)
    BY DEF CodecInv, OnConnection
  <2>2. request.data \in Data /\ request.cid \in BOOLEAN
    BY <2>1 DEF Requests
  <2>3. ASSUME request.cid = TRUE, request.command # "LanExtStream" \/ sender.protocol.dev22
        PROVE  "cid" \in Names(fields)
    BY <2>1, <2>3, SubDeviceNamed, Zenon DEF generate_payload
  <2>4. ASSUME request.data # "none", ~(request.command = "LanExtStream" /\ request.data = "value")
        PROVE  \E x \in {"dps", "dpId", "user"} : x \in Names(fields)
    <3> DEFINE payloads == {generate_payload_dev22(request.command, request.data, request.cid),
                            generate_payload_v31(request.command, request.data, request.cid),
                            generate_payload_v32(request.command, request.data, request.cid),
                            generate_payload_v33(request.command, request.data, request.cid),
                            generate_payload_v34(request.command, request.data, request.cid),
                            generate_payload_v35(request.command, request.data, request.cid)}
    <3>1. \A payload \in payloads : \E x \in {"dps", "dpId", "user"} : x \in Names(payload)
      BY <2>2, <2>4, DataNamed
    <3>2. fields \in payloads
      BY <2>1, Zenon DEF generate_payload
    <3> HIDE DEF payloads
    <3> QED
      BY <3>1, <3>2, Zenon
  <2> QED
    BY <2>2, <2>3, <2>4, Zenon
<1> QED
  BY <1>1, CodecInvariant, PTL


(***************************************************************************)
(* Discovery. All that parse_packet can find in a datagram has the text of *)
(* the datagram, so what it reports depends only on whether it finds       *)
(* something.                                                              *)
(***************************************************************************)
DatagramInv ==
    /\ stage \in {"datagram", "parsed"} => packet \in Datagrams
    /\ stage = "parsed" => got = Ok(Plain(parse_packet(packet)))

\* Decryption and the removal of a retcode keep the text.
LEMMA TextKept ==
    ASSUME NEW b
    PROVE  /\ \A keys : \A c \in Readable(b, keys) : c.text = b.text
           /\ TakeRetcode(b).text = b.text
<1>1. Peel(b).text = b.text /\ Wrap(Cut, b).text = b.text
  BY DEF Peel, Wrap
<1>2. ASSUME NEW k, decrypt(k, b).err = "none" PROVE decrypt(k, b).bytes.text = b.text
  <2>1. decrypt(k, b) = Ok(Peel(b))
    BY <1>2 DEF decrypt, Fail
  <2> QED
    BY <1>1, <2>1 DEF Ok
<1>3. ASSUME NEW keys, NEW c \in Readable(b, keys) PROVE c.text = b.text
  <2>1. c = b \/ \E k \in keys : decrypt(k, b).err = "none" /\ c = decrypt(k, b).bytes
    BY <1>3 DEF Readable
  <2> QED
    BY <1>2, <2>1, Zenon
<1> QED
  BY <1>1, <1>3 DEF TakeRetcode

\* All that any try of parse_packet finds has the text of the datagram, so the order
\* of the tries does not matter.
LEMMA FoundText == ASSUME NEW d, NEW b \in Found(d) PROVE b.text = d.bytes.text
<1>1. CASE d.prefix = "none"
  BY <1>1, TextKept DEF Found, ReadWhole
<1>2. CASE d.prefix # "none"
  <2>1. PICK key, hasRetcode : b \in TryUnpack(d, key, hasRetcode)
    BY <1>2 DEF Found, ReadTried
  <2> DEFINE msg == unpack_message(d, key, hasRetcode)
  <2>2. msg.err = "none" /\ \E keys : b \in Readable(msg.bytes, keys)
    BY <2>1, Zenon DEF TryUnpack
  <2>3. msg = Ok(IF hasRetcode THEN TakeRetcode(d.bytes) ELSE d.bytes)
    BY <2>2, Zenon DEF unpack_message, Fail
  <2>4. msg.bytes.text = d.bytes.text
    <3>1. \A x : Ok(x).bytes = x
      BY DEF Ok
    <3>2. (IF hasRetcode THEN TakeRetcode(d.bytes) ELSE d.bytes).text = d.bytes.text
      BY TextKept, Zenon
    <3> QED
      BY <2>3, <3>1, <3>2, Zenon
  <2> HIDE DEF msg
  <2> QED
    BY <2>2, <2>4, TextKept, Zenon
<1> QED
  BY <1>1, <1>2

\* What parse_packet reports: nothing, or what the text of the datagram says.
LEMMA Reported ==
    ASSUME NEW d, d.bytes.text # ""
    PROVE  parse_packet(d) = IF Found(d) = {} THEN "none" ELSE parse_json(d.bytes)
<1>1. parse_packet(d) = IF Found(d) = {} THEN "none" ELSE parse_json(CHOOSE b \in Found(d) : TRUE)
  <2>1. ~ShorterThanHmac(d)
    BY DEF ShorterThanHmac
  <2> QED
    BY <2>1, Zenon DEF parse_packet
<1>2. ASSUME Found(d) # {} PROVE (CHOOSE b \in Found(d) : TRUE).text = d.bytes.text
  BY <1>2, FoundText, Zenon
<1> QED
  BY <1>1, <1>2, Zenon DEF parse_json

\* A text is found in the clear and under a key that is tried.
LEMMA Decrypted ==
    ASSUME NEW text, NEW k \in Int, NEW keys, k \in keys
    PROVE  /\ Plain(text) \in Readable(Plain(text), keys)
           /\ Plain(text) \in Readable(Wrap(Ecb(k), Plain(text)), keys)
           /\ Wrap(Ecb(k), Plain(text)) \in Bytes(text)
<1> DEFINE w == Wrap(Ecb(k), Plain(text))
<1>1. Ecb(k) \in Layers
  BY DEF Ecb, Layers
<1>2. w \in Bytes(text) /\ w.layers # <<>> /\ Head(w.layers) = Ecb(k) /\ Peel(w) = Plain(text)
  BY <1>1, PlainBytes, WrapPeel, Zenon
<1> HIDE DEF w
<1>3. decrypt(k, w).err = "none" /\ decrypt(k, w).bytes = Plain(text)
  BY <1>2 DEF decrypt, Outermost, Ok
<1>4. Plain(text) \in Readable(w, keys)
  BY <1>3 DEF Readable
<1>5. Plain(text) \in Readable(Plain(text), keys)
  BY DEF Readable
<1> QED
  BY <1>2, <1>4, <1>5 DEF w

\* A retcode is a layer.
LEMMA RetcodeIsLayer == Retcode \in Layers
BY DEF Retcode, Layers

\* Both keys an announcement may be sealed with are tried, with a retcode and without.
LEMMA TriesAreTried ==
    ASSUME NEW d, NEW key \in {UDP_KEY_35, NoKey}, NEW hasRetcode \in BOOLEAN
    PROVE  TryUnpack(d, key, hasRetcode) \subseteq ReadTried(d)
BY DEF ReadTried

\* A packet is unpacked by the try with its key, and with or without a retcode as
\* it has one or not; then it is found what the keys of that try can read.
LEMMA Unpacked ==
    ASSUME NEW text, text # "", NEW b \in Bytes(text), NEW c, IsJson(c),
           NEW d, d.prefix # "none", d.prefix = "6699" => d.seal # NoKey, d.seal \in {UDP_KEY_35, NoKey},
           d.bytes = b \/ d.bytes = Wrap(Retcode, b),
           c \in Readable(b, IF d.seal = NoKey THEN {UDP_KEY_33, UDP_KEY_34, UDP_KEY_35} ELSE {d.seal})
    PROVE  d.bytes.text = text /\ c \in Found(d)
<1> DEFINE w == Wrap(Retcode, b)
<1>1. w \in Bytes(text) /\ w.layers # <<>> /\ Head(w.layers) = Retcode /\ Peel(w) = b
  BY RetcodeIsLayer, WrapPeel, Zenon
<1>2. d.bytes = b \/ d.bytes = w
  OBVIOUS
<1> HIDE DEF w
<1>3. w.text = text /\ b.text = text /\ d.bytes.text = text
  BY <1>1, <1>2 DEF Bytes
<1>4. TakeRetcode(w) = b
  BY <1>1, <1>3 DEF TakeRetcode, Empty, Outermost
<1>5. ~ShorterThanHmac(d)
  BY <1>3 DEF ShorterThanHmac
<1>6. d.bytes = b => unpack_message(d, d.seal, FALSE) = Ok(b)
  BY <1>5, Zenon DEF unpack_message
<1>7. d.bytes = w => unpack_message(d, d.seal, TRUE) = Ok(b)
  BY <1>4, <1>5, Zenon DEF unpack_message
<1>8. ASSUME NEW hasRetcode \in BOOLEAN, unpack_message(d, d.seal, hasRetcode) = Ok(b)
      PROVE  c \in Found(d)
  <2>1. Ok(b).err = "none" /\ Ok(b).bytes = b
    BY Zenon DEF Ok
  <2>2. c \in TryUnpack(d, d.seal, hasRetcode)
    BY <1>8, <2>1, Zenon DEF TryUnpack
  <2>3. c \in ReadTried(d)
    BY <2>2, TriesAreTried, Zenon
  <2> QED
    BY <2>3, Zenon DEF Found
<1>9. TRUE \in BOOLEAN /\ FALSE \in BOOLEAN
  OBVIOUS
<1> QED
  BY <1>2, <1>3, <1>6, <1>7, <1>8, <1>9, Zenon

\* The texts of announcements are JSON.
LEMMA AnnouncementIsJson ==
    ASSUME NEW text \in {"announce", "announceDevId"}
    PROVE  IsJson(Plain(text)) /\ text # ""
<1>1. Plain(text).layers = <<>> /\ Plain(text).text = text
  BY DEF Plain
<1>2. Fields(text) # {}
  BY DEF Fields
<1> QED
  BY <1>1, <1>2 DEF IsJson

\* Every announcement is found, under each layer it may have.
LEMMA AnnouncementFound ==
    ASSUME NEW text \in {"announce", "announceDevId"}, NEW version \in Versions,
           NEW d \in Announcements(version, text)
    PROVE  d.bytes.text = text /\ Found(d) # {}
<1> DEFINE bodies == {Plain(text), Wrap(Ecb(UDP_KEY_33), Plain(text)), Wrap(Ecb(UDP_KEY_34), Plain(text))}
           keys == {UDP_KEY_33, UDP_KEY_34, UDP_KEY_35}
<1>1. /\ UDP_KEY_33 \in Int /\ UDP_KEY_34 \in Int /\ UDP_KEY_35 # NoKey
      /\ UDP_KEY_33 \in {UDP_KEY_33, UDP_KEY_34} /\ UDP_KEY_34 \in {UDP_KEY_33, UDP_KEY_34}
  BY DEF UDP_KEY_33, UDP_KEY_34, UDP_KEY_35, NoKey
<1>2. IsJson(Plain(text)) /\ text # "" /\ Plain(text) \in Bytes(text)
  BY AnnouncementIsJson, PlainBytes
<1>3. ASSUME NEW b \in bodies
      PROVE  /\ b \in Bytes(text) /\ b.text = text
             /\ Plain(text) \in Readable(b, keys) /\ Plain(text) \in Readable(b, {UDP_KEY_33, UDP_KEY_34})
  <2>1. b \in Bytes(text) /\ Plain(text) \in Readable(b, {UDP_KEY_33, UDP_KEY_34})
    BY <1>1, <1>2, Decrypted, Zenon
  <2>2. Plain(text) \in Readable(b, keys)
    BY <1>1, Decrypted, Zenon
  <2>3. b.text = text
    BY <2>1 DEF Bytes
  <2> QED
    BY <2>1, <2>2, <2>3
<1> HIDE DEF bodies
<1>4. CASE version = 31
  <2>1. PICK b \in bodies : d = pack_message("none", "UdpNew", b, NoKey)
    BY <1>4 DEF Announcements, bodies
  <2>2. d.prefix = "none" /\ d.bytes = b
    BY <2>1 DEF pack_message
  <2>3. Plain(text) \in Found(d)
    BY <1>2, <1>3, <2>2, Zenon DEF Found, ReadWhole
  <2> QED
    BY <1>3, <2>2, <2>3
<1>5. CASE version = 35
  <2>1. PICK b \in {Plain(text), Wrap(Retcode, Plain(text))} : d = pack_message("6699", "UdpNew", b, UDP_KEY_35)
    BY <1>5 DEF Announcements
  <2>2. d.prefix = "6699" /\ d.bytes = b /\ d.seal = UDP_KEY_35
    BY <2>1 DEF pack_message
  <2>3. \A k : Plain(text) \in Readable(Plain(text), k)
    BY DEF Readable
  <2> QED
    BY <1>1, <1>2, <2>2, <2>3, Unpacked
<1>6. CASE version \notin {31, 35}
  <2>1. PICK b \in bodies \cup {Wrap(Retcode, c) : c \in bodies} : d = pack_message("55AA", "UdpNew", b, NoKey)
    BY <1>6 DEF Announcements, bodies
  <2>2. d.prefix = "55AA" /\ d.bytes = b /\ d.seal = NoKey
    BY <2>1 DEF pack_message
  <2>3. PICK c \in bodies : b = c \/ b = Wrap(Retcode, c)
    BY <2>1
  <2>4. c \in Bytes(text) /\ Plain(text) \in Readable(c, keys)
    BY <1>3
  <2>5. /\ d.prefix # "none" /\ (d.prefix = "6699" => d.seal # NoKey) /\ d.seal \in {UDP_KEY_35, NoKey}
        /\ d.bytes = c \/ d.bytes = Wrap(Retcode, c)
    BY <2>2, <2>3
  <2>6. Plain(text) \in Readable(c, IF d.seal = NoKey THEN {UDP_KEY_33, UDP_KEY_34, UDP_KEY_35} ELSE {d.seal})
    BY <2>2, <2>4, Zenon
  <2>7. d.bytes.text = text /\ Plain(text) \in Found(d)
    BY <1>2, <2>4, <2>5, <2>6, Unpacked
  <2> QED
    BY <2>7
<1> QED
  BY <1>4, <1>5, <1>6

\* A datagram is an announcement or a request of a scanner.
LEMMA DatagramKinds ==
    ASSUME NEW d \in Datagrams
    PROVE  \/ \E version \in Versions, text \in {"announce", "announceDevId"} : d \in Announcements(version, text)
           \/ \E port \in {6666, 6667, 7000} : d = send_discovery_broadcast(port)
BY DEF Datagrams

\* Every announcement is read, however it is encoded, and no request of a scanner is
\* taken for one.
THEOREM AnnouncementsAreRead == Spec => []AnnouncementsRead
<1>1. Init => DatagramInv
  BY DEF Init, DatagramInv
<1>2. DatagramInv /\ [Next]_vars => DatagramInv'
  BY DEF DatagramInv, Next, Generate, Pack, Unpack, Decrypt, Parse, vars
<1>3. DatagramInv => AnnouncementsRead
  <2> SUFFICES ASSUME DatagramInv, stage = "parsed" PROVE AnnouncementsRead
    BY DEF AnnouncementsRead
  <2> DEFINE text == packet.bytes.text
  <2>1. packet \in Datagrams /\ got.bytes.text = parse_packet(packet)
    BY DEF DatagramInv, Ok, Plain
  <2>2. CASE \E version \in Versions, t \in {"announce", "announceDevId"} : packet \in Announcements(version, t)
    <3>1. text \in {"announce", "announceDevId"} /\ Found(packet) # {}
      BY <2>2, AnnouncementFound
    <3>2. parse_packet(packet) = parse_json(packet.bytes)
      BY <3>1, Reported
    <3>3. parse_json(packet.bytes) = text
      BY <3>1 DEF parse_json, Fields
    <3> QED
      BY <2>1, <3>1, <3>2, <3>3 DEF AnnouncementsRead
  <2>3. CASE \E port \in {6666, 6667, 7000} : packet = send_discovery_broadcast(port)
    <3>1. text \in {"request55AA", "request6699"}
      BY <2>3 DEF send_discovery_broadcast, pack_message, Plain
    <3>2. parse_json(packet.bytes) = "none"
      BY <3>1 DEF parse_json, Fields
    <3>3. parse_packet(packet) = "none"
      BY <3>1, <3>2, Reported
    <3>4. text \notin {"announce", "announceDevId"}
      BY <3>1
    <3> QED
      BY <2>1, <3>3, <3>4, Zenon DEF AnnouncementsRead
  <2> QED
    BY <2>1, <2>2, <2>3, DatagramKinds
<1> QED
  BY <1>1, <1>2, <1>3, PTL DEF Spec

=============================================================================
