---------------------------- MODULE PacketReader ----------------------------
(***************************************************************************)
(* How the reader of a connection finds packets in the bytes that arrive   *)
(* (process_socket_data, read_and_parse_from_stream, scan_for_prefix and   *)
(* read_full_packet, src/device.rs; parse_header, src/protocol/mod.rs).    *)
(* Bytes arrive in pieces, and any wait for one may time out.              *)
(*                                                                         *)
(* Scaled down: the last two bytes of a prefix are one, so that a prefix   *)
(* has three; the 12 bytes of the rest of the header are one byte, whose   *)
(* value is the length of the body; the two further header bytes of a 6699 *)
(* packet are one. Lengths are positive and other bytes are not; a reader  *)
(* that is out of step takes any byte for a length.                        *)
(***************************************************************************)
EXTENDS Integers, Sequences, FiniteSets

CONSTANTS
    Bodies,     \* bodies a packet may have, trailers included: sequences of bytes
    MaxPackets, \* packets the device sends
    MaxDelays,  \* waits that time out although more bytes are to come
    ScanLimit   \* bytes scan_for_prefix looks at before it gives up (1024)

\* Zero, the two ends of a prefix, a byte that is in no prefix, and lengths.
Zero == 0
X55AA == -1
X6699 == -2
Other == -3

ASSUME ReaderAssumption ==
    /\ Bodies \subseteq Seq({Zero, X55AA, X6699, Other}) \ {<<>>}
    /\ MaxPackets \in Nat /\ MaxDelays \in Nat /\ ScanLimit \in Nat \ {0}

VARIABLES
    stream,    \* the bytes the device has sent
    offsets,   \* where its packets begin in them, and where the next one will
    arrived,   \* how many of them have arrived
    pos,       \* how many the reader has taken
    phase,     \* idle, fill, scan, header, extra, body, ended
    window,    \* the last bytes, in which a prefix is looked for
    shifts,    \* how often the window was moved
    need,      \* bytes of the packet still to be read
    start,     \* where the packet being read begins
    read,      \* what was handed on: the number of a packet, or 0 for an error
    delays,
    ending     \* open, closed by the device, or why the reader stopped

wire == <<stream, offsets, arrived>>
vars == <<wire, pos, phase, window, shifts, need, start, read, delays, ending>>

PREFIXES == {<<Zero, Zero, X55AA>>, <<Zero, Zero, X6699>>}

\* pack_message
Pack(prefix, body) == prefix \o <<Len(body)>> \o (IF prefix[3] = X6699 THEN <<Other>> ELSE <<>>) \o body

\* The numbers of the packets sent.
Packets == 1..(Len(offsets) - 1)

Init ==
    /\ stream = <<>> /\ offsets = <<0>>
    /\ arrived = 0 /\ pos = 0
    /\ phase = "idle" /\ window = <<>> /\ shifts = 0 /\ need = 0 /\ start = 0
    /\ read = <<>> /\ delays = 0 /\ ending = "open"

\* The device sends a packet; its bytes arrive one by one.
SendPacket ==
    /\ ending = "open" /\ Len(offsets) <= MaxPackets
    /\ \E prefix \in PREFIXES, body \in Bodies : stream' = stream \o Pack(prefix, body)
    /\ offsets' = Append(offsets, Len(stream'))
    /\ UNCHANGED <<arrived, pos, phase, window, shifts, need, start, read, delays, ending>>

Arrive ==
    /\ ending = "open" /\ arrived < Len(stream)
    /\ arrived' = arrived + 1
    /\ UNCHANGED <<stream, offsets, pos, phase, window, shifts, need, start, read, delays, ending>>

\* The device closes the connection, at any time.
Close ==
    /\ ending = "open"
    /\ ending' = "closed"
    /\ UNCHANGED <<wire, pos, phase, window, shifts, need, start, read, delays>>

\* The next byte; the reader waits for it.
Byte == stream[pos + 1]
Take == pos < arrived /\ pos' = pos + 1

\* read_u8 of the reader loop
FirstByte ==
    /\ phase = "idle" /\ Take
    /\ window' = <<Byte>>
    /\ phase' = "fill"
    /\ UNCHANGED <<wire, shifts, need, start, read, delays, ending>>

\* The rest of the first window
Fill ==
    /\ phase = "fill" /\ Take
    /\ window' = Append(window, Byte)
    /\ phase' = IF Len(window') = 3 THEN "scan" ELSE "fill"
    /\ shifts' = 0
    /\ UNCHANGED <<wire, need, start, read, delays, ending>>

PrefixFound ==
    /\ phase = "scan" /\ shifts < ScanLimit /\ window \in PREFIXES
    /\ phase' = "header"
    /\ start' = pos - 3
    /\ UNCHANGED <<wire, pos, window, shifts, need, read, delays, ending>>

\* Mutant: the window is dropped whole.
ShiftByThree ==
    /\ phase = "scan" /\ shifts < ScanLimit /\ window \notin PREFIXES
    /\ Take
    /\ window' = <<Byte>>
    /\ phase' = "fill"
    /\ UNCHANGED <<wire, shifts, need, start, read, delays, ending>>

Shift ==
    /\ phase = "scan" /\ shifts < ScanLimit /\ window \notin PREFIXES
    /\ Take
    /\ window' = Append(Tail(window), Byte)
    /\ shifts' = shifts + 1
    /\ UNCHANGED <<wire, phase, need, start, read, delays, ending>>

\* After the last shift the window is not looked at again, and is dropped.
GiveUpScan ==
    /\ phase = "scan" /\ shifts = ScanLimit
    /\ phase' = "idle"
    /\ UNCHANGED <<wire, pos, window, shifts, need, start, read, delays, ending>>

\* Mutant: the length without the trailer.
LengthWithoutTrailer(byte) == IF byte < 0 THEN -byte ELSE IF byte = 0 THEN 0 ELSE byte - 1

\* read_exact of the header, parse_header. A length that is not a packet's may also be
\* too large for the sum with that of the header: ReaderPanics.
LengthOf(byte) == IF byte < 0 THEN -byte ELSE byte

Header ==
    /\ phase = "header" /\ Take
    /\ need' = LengthOf(Byte)
    /\ phase' = IF window[3] = X6699 THEN "extra" ELSE "body"
    /\ UNCHANGED <<wire, window, shifts, start, read, delays, ending>>

Extra ==
    /\ phase = "extra" /\ Take
    /\ phase' = "body"
    /\ UNCHANGED <<wire, window, shifts, need, start, read, delays, ending>>

\* read_exact of the body: what was read when it times out is lost.
Body ==
    /\ phase = "body" /\ need > 0 /\ Take
    /\ need' = need - 1
    /\ UNCHANGED <<wire, phase, window, shifts, start, read, delays, ending>>

\* Mutant: the packet is peeked at and not consumed.
UnpackKeepsBytes ==
    /\ phase = "body" /\ need = 0
    /\ LET whole == {n \in Packets : offsets[n] = start /\ offsets[n + 1] = pos}
       IN  read' = Append(read, IF whole = {} THEN 0 ELSE CHOOSE n \in whole : TRUE)
    /\ phase' = "idle" /\ pos' = start
    /\ UNCHANGED <<wire, window, shifts, need, start, delays, ending>>

\* unpack_message: the trailer tells a packet from anything else. What is no packet is
\* an error here, or too short for a trailer: ReaderPanics.
Unpack ==
    /\ phase = "body" /\ need = 0
    /\ LET whole == {n \in Packets : offsets[n] = start /\ offsets[n + 1] = pos}
       IN  read' = Append(read, IF whole = {} THEN 0 ELSE CHOOSE n \in whole : TRUE)
    /\ phase' = "idle"
    /\ UNCHANGED <<wire, pos, window, shifts, need, start, delays, ending>>

\* What the reader, out of step, takes for a packet is none.
NoPacket == \A n \in Packets : offsets[n] # start

\* Then its length may overflow, once parse_header has the whole header, so that the
\* sum panics or the slice of the packet does; or the bytes taken for its body may be
\* fewer than a trailer has, so that the slices of unpack_message do.
ReaderPanics ==
    /\ NoPacket
    /\ \/ phase = "header" /\ window[3] = X55AA /\ pos < arrived
       \/ phase = "extra" /\ pos < arrived
       \/ phase = "body" /\ need = 0
    /\ phase' = "ended" /\ ending' = "panic"
    /\ UNCHANGED <<wire, pos, window, shifts, need, start, read, delays>>

\* The reader waits for a byte that is not there.
Waiting ==
    /\ pos = arrived /\ phase # "ended"
    /\ ~(phase = "scan" /\ (shifts = ScanLimit \/ window \in PREFIXES))
    /\ ~(phase = "body" /\ need = 0)

\* A wait times out: before the header is complete the connection ends, after that
\* the error is reported as if it were a message and reading goes on.
Timeout ==
    /\ Waiting /\ ending = "open"
    /\ IF arrived = Len(stream) THEN UNCHANGED delays
       ELSE delays < MaxDelays /\ delays' = delays + 1
    /\ IF phase \in {"extra", "body"}
       THEN phase' = "idle" /\ read' = Append(read, 0) /\ UNCHANGED ending
       ELSE phase' = "ended" /\ ending' = "Timeout" /\ UNCHANGED read
    /\ UNCHANGED <<wire, pos, window, shifts, need, start>>

\* Mutant: a message, and not a first byte, is needed to trust the key.
EofInPacketBlamesKey ==
    /\ Waiting /\ ending = "closed"
    /\ phase' = "ended"
    /\ ending' = IF read = <<>> THEN "KeyOrVersionError" ELSE "Io"
    /\ UNCHANGED <<wire, pos, window, shifts, need, start, read, delays>>

\* The end of the stream: before the first packet (packets_received is 0) a wrong key
\* or version is suspected. A stream begins with a packet, so a scan that gave up,
\* which counts as received, was preceded by one.
Eof ==
    /\ Waiting /\ ending = "closed"
    /\ phase' = "ended"
    /\ ending' = IF phase = "idle" /\ read = <<>> THEN "KeyOrVersionError" ELSE "Io"
    /\ UNCHANGED <<wire, pos, window, shifts, need, start, read, delays>>

ReaderStep ==
    \/ FirstByte \/ Fill \/ PrefixFound \/ Shift \/ GiveUpScan \/ Header \/ Extra \/ Body
    \/ Unpack \/ ReaderPanics \/ Timeout \/ Eof

Next == SendPacket \/ Arrive \/ Close \/ ReaderStep

Spec == Init /\ [][Next]_vars

(***************************************************************************)
(* Properties                                                              *)
(***************************************************************************)

\* Packets are handed on in the order they were sent, none twice, whatever the delays
\* and whatever their bodies look like.
InOrder == \A i, j \in DOMAIN read : i < j /\ read[i] # 0 /\ read[j] # 0 => read[i] < read[j]

\* Without delays every packet is handed on and the reader does not panic, even if
\* bodies contain prefixes: it frames by length and looks for a prefix only where a
\* packet begins.
PunctualMeansComplete ==
    delays = 0 =>
        /\ ending # "panic"
        /\ phase = "idle" => /\ read = [i \in 1..Len(read) |-> i]
                             /\ pos = offsets[Len(read) + 1]

\* Packets the reader is past and has not handed on.
Lost == {n \in Packets : offsets[n + 1] <= pos /\ \A i \in DOMAIN read : read[i] # n}

Errors == {i \in DOMAIN read : read[i] = 0}

\* A prefix occurs where a packet begins and nowhere else.
Clean ==
    \A i \in 1..(Len(stream) - 2) :
        <<stream[i], stream[i + 1], stream[i + 2]>> \in PREFIXES => \E n \in Packets : offsets[n] = i - 1

\* No packet is longer than what a scan can skip.
Short == \A n \in Packets : offsets[n + 1] - offsets[n] < ScanLimit + 4

\* A delay inside a packet costs this packet and one error, and the reader finds the
\* next one without a panic: unless bodies look like packets, or are too long for one
\* scan, when a prefix at the end of the scan is missed.
DelaysCostOnePacket ==
    Clean /\ Short =>
        /\ ending # "panic"
        /\ phase # "body" => Cardinality(Lost) <= delays /\ Cardinality(Errors) <= delays

\* The key or version is blamed, in the error the listeners and the waiting callers
\* get, only when the device closed the connection without sending a byte.
BlamedOnSilence == ending = "KeyOrVersionError" => arrived = 0

=============================================================================
