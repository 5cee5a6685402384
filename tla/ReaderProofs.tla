---------------------------- MODULE ReaderProofs ----------------------------
(***************************************************************************)
(* Framing is right for any packets, however they arrive: whatever their   *)
(* number, their bodies, the delays and the length of a scan.              *)
(***************************************************************************)
EXTENDS PacketReader, SequenceTheorems, FiniteSetTheorems, TLAPS

(***************************************************************************)
(* The invariant. First, the bytes are those of packets, one after the     *)
(* other.                                                                  *)
(***************************************************************************)
Prefix(o) == <<stream[o + 1], stream[o + 2], stream[o + 3]>>
Extras(o) == IF stream[o + 3] = X6699 THEN 1 ELSE 0

PacketAt(n) ==
    /\ Prefix(offsets[n]) \in PREFIXES
    /\ stream[offsets[n] + 4] \in Nat \ {0}
    /\ offsets[n + 1] = offsets[n] + 4 + Extras(offsets[n]) + stream[offsets[n] + 4]

WireInv ==
    /\ stream \in Seq(Int)
    /\ offsets \in Seq(Nat) /\ offsets # <<>>
    /\ offsets[1] = 0 /\ offsets[Len(offsets)] = Len(stream)
    /\ \A m, n \in 1..Len(offsets) : m < n => offsets[m] + 5 <= offsets[n]
    /\ \A n \in Packets : PacketAt(n)

(***************************************************************************)
(* Second, the types of the reader's variables, and how the bytes it holds *)
(* and those it still needs lie in the stream: Base is where it takes a    *)
(* packet to begin, or looks for one.                                      *)
(***************************************************************************)
Searching == phase \in {"fill", "scan"}
Framing == phase \in {"header", "extra", "body"}

Base == IF Searching THEN pos - Len(window) ELSE IF Framing THEN start ELSE pos

TypeOK ==
    /\ arrived \in Nat /\ arrived <= Len(stream) /\ pos \in Nat /\ pos <= arrived
    /\ phase \in {"idle", "fill", "scan", "header", "extra", "body", "ended"}
    /\ window \in Seq(Int) /\ shifts \in 0..ScanLimit /\ need \in Nat /\ start \in Nat
    /\ read \in Seq(Nat) /\ delays \in Nat
    /\ ending \in {"open", "closed", "Timeout", "Io", "KeyOrVersionError", "panic"}

FrameInv ==
    /\ phase = "fill" => Len(window) \in {1, 2}
    /\ phase = "scan" => Len(window) = 3
    /\ Searching => Len(window) <= pos /\ \A i \in 1..Len(window) : window[i] = stream[Base + i]
    /\ Framing => start + 3 <= pos /\ window[3] = stream[start + 3]
    /\ phase = "header" => pos = start + 3
    /\ phase = "extra" => pos = start + 4 /\ Extras(start) = 1 /\ need = LengthOf(stream[start + 4])
    /\ phase = "body" => /\ pos >= start + 4 + Extras(start)
                         /\ pos + need = start + 4 + Extras(start) + LengthOf(stream[start + 4])

ReaderInv == WireInv /\ TypeOK /\ FrameInv

(***************************************************************************)
(* Third, what was handed on lies before Base, in order; nothing was       *)
(* handed on only if the reader is still at the first packet.              *)
(***************************************************************************)
OrderInv ==
    /\ InOrder
    /\ \A i \in 1..Len(read) : read[i] # 0 => read[i] \in Packets /\ offsets[read[i] + 1] <= Base

SilenceInv ==
    /\ read = <<>> /\ phase \in {"idle", "fill", "scan"} => Base = 0
    /\ read = <<>> /\ phase = "scan" => shifts = 0
    /\ ending = "KeyOrVersionError" => arrived = 0

(***************************************************************************)
(* Fourth, without delays the reader is always in step.                    *)
(***************************************************************************)
PunctualInv ==
    /\ delays = 0 => ending # "panic"
    /\ delays = 0 /\ phase # "ended" =>
        /\ Len(read) + 1 \in 1..Len(offsets)
        /\ \A i \in 1..Len(read) : read[i] = i
        /\ Base = offsets[Len(read) + 1]
        /\ phase = "scan" => shifts = 0

(***************************************************************************)
(* Last, a reader out of step is inside the packet it missed, and has not  *)
(* gone further than one scan.                                             *)
(***************************************************************************)
Handed == {read[i] : i \in 1..Len(read)}
Missed == {n \in Packets : offsets[n] < Base /\ n \notin Handed}
Gone == IF phase = "ended" THEN Lost ELSE Missed
Skipped == IF phase = "scan" THEN shifts ELSE 0

OutOfStep(n) == offsets[n] + 4 <= Base - Skipped /\ Base < offsets[n + 1]

DelayInv ==
    Clean /\ Short =>
        /\ ending # "panic"
        /\ Cardinality(Errors) <= delays
        /\ Cardinality(Gone) <= delays
        /\ Framing => \E n \in Packets : start = offsets[n]
        /\ phase \in {"idle", "fill", "scan"} =>
               \/ \E n \in 1..Len(offsets) : Base = offsets[n]
               \/ \E n \in Packets : OutOfStep(n)
        /\ phase = "scan" => shifts < ScanLimit

(***************************************************************************)
(* Lemmas on sequences and on what the device sends.                       *)
(***************************************************************************)

\* Where the elements of two sequences are when one is put after the other.
LEMMA Concatenated ==
    ASSUME NEW S, NEW s \in Seq(S), NEW t \in Seq(S)
    PROVE  /\ s \o t \in Seq(S) /\ Len(s \o t) = Len(s) + Len(t)
           /\ Len(s) \in Nat /\ Len(t) \in Nat
           /\ \A i \in 1..Len(s) : (s \o t)[i] = s[i]
           /\ \A i \in 1..Len(t) : (s \o t)[Len(s) + i] = t[i]
<1>1. Len(s) \in Nat /\ Len(t) \in Nat
  OBVIOUS
<1> DEFINE u == s \o t
<1>2. /\ u \in Seq(S) /\ Len(u) = Len(s) + Len(t)
      /\ \A i \in 1..(Len(s) + Len(t)) : u[i] = IF i <= Len(s) THEN s[i] ELSE t[i - Len(s)]
  BY ConcatProperties, Zenon
<1> HIDE DEF u
<1>3. \A i \in 1..Len(s) : u[i] = s[i]
  BY <1>1, <1>2
<1>4. ASSUME NEW i \in 1..Len(t) PROVE u[Len(s) + i] = t[i]
  <2>1. Len(s) + i \in 1..(Len(s) + Len(t)) /\ ~(Len(s) + i <= Len(s)) /\ (Len(s) + i) - Len(s) = i
    BY <1>1
  <2> QED
    BY <1>2, <2>1
<1> QED
  BY <1>1, <1>2, <1>3, <1>4 DEF u

\* An element put after a sequence is its last.
LEMMA Appended ==
    ASSUME NEW S, NEW s \in Seq(S), NEW x \in S
    PROVE  /\ Append(s, x) \in Seq(S) /\ Append(s, x) # <<>> /\ Len(s) \in Nat
           /\ Len(Append(s, x)) = Len(s) + 1
           /\ \A i \in 1..Len(s) : Append(s, x)[i] = s[i]
           /\ Append(s, x)[Len(s) + 1] = x
BY AppendProperties

\* A window moved by one element.
LEMMA Moved ==
    ASSUME NEW S, NEW s \in Seq(S), Len(s) = 3, NEW x \in S
    PROVE  /\ Append(Tail(s), x) \in Seq(S) /\ Len(Append(Tail(s), x)) = 3
           /\ \A i \in 1..2 : Append(Tail(s), x)[i] = s[i + 1]
           /\ Append(Tail(s), x)[3] = x
<1> DEFINE t == Tail(s)
<1>1. s # <<>>
  OBVIOUS
<1>2. t \in Seq(S) /\ Len(t) = Len(s) - 1 /\ \A i \in 1..Len(t) : t[i] = s[i + 1]
  BY <1>1, HeadTailProperties, Zenon
<1> HIDE DEF t
<1>3. Len(t) = 2 /\ \A i \in 1..2 : t[i] = s[i + 1]
  BY <1>2
<1>4. /\ Append(t, x) \in Seq(S) /\ Len(Append(t, x)) = Len(t) + 1
      /\ \A i \in 1..Len(t) : Append(t, x)[i] = t[i]
      /\ Append(t, x)[Len(t) + 1] = x
  <2>1. t \in Seq(S)
    BY <1>2
  <2> QED
    BY <2>1, Appended
<1>5. /\ Append(t, x) \in Seq(S) /\ Len(Append(t, x)) = 3
      /\ \A i \in 1..2 : Append(t, x)[i] = s[i + 1]
      /\ Append(t, x)[3] = x
  BY <1>3, <1>4
<1> QED
  BY <1>5 DEF t

\* The two prefixes: two zeros and a byte that tells the formats apart.
LEMMA PrefixBytes ==
    ASSUME NEW p \in PREFIXES
    PROVE  /\ p \in Seq(Int) /\ Len(p) = 3 /\ p = <<p[1], p[2], p[3]>>
           /\ p[1] = 0 /\ p[2] = 0 /\ p[3] \in {X55AA, X6699}
<1>1. CASE p = <<Zero, Zero, X55AA>>
  <2>1. Zero \in Int /\ X55AA \in Int /\ Zero = 0
    BY DEF Zero, X55AA
  <2> QED
    BY <1>1, <2>1
<1>2. CASE p = <<Zero, Zero, X6699>>
  <2>1. Zero \in Int /\ X6699 \in Int /\ Zero = 0
    BY DEF Zero, X6699
  <2> QED
    BY <1>2, <2>1
<1> QED
  BY <1>1, <1>2 DEF PREFIXES

\* What pack_message puts where.
LEMMA Packed ==
    ASSUME NEW p \in PREFIXES, NEW b \in Bodies
    PROVE  /\ Pack(p, b) \in Seq(Int)
           /\ Pack(p, b)[1] = p[1] /\ Pack(p, b)[2] = p[2] /\ Pack(p, b)[3] = p[3]
           /\ Pack(p, b)[4] = Len(b) /\ Len(b) \in Nat \ {0}
           /\ Len(Pack(p, b)) = 4 + (IF p[3] = X6699 THEN 1 ELSE 0) + Len(b)
<1>1. b \in Seq(Int) /\ Len(b) \in Nat \ {0}
  <2>1. b \in Seq({Zero, X55AA, X6699, Other}) /\ b # <<>>
    BY ReaderAssumption
  <2>2. {Zero, X55AA, X6699, Other} \subseteq Int
    BY DEF Zero, X55AA, X6699, Other
  <2> QED
    BY <2>1, <2>2
<1> DEFINE n == <<Len(b)>>
           x == IF p[3] = X6699 THEN <<Other>> ELSE <<>>
           pn == p \o n
           pnx == pn \o x
           k == pnx \o b
<1>2. n \in Seq(Int) /\ Len(n) = 1 /\ n[1] = Len(b)
  BY <1>1
<1>3. x \in Seq(Int) /\ Len(x) = IF p[3] = X6699 THEN 1 ELSE 0
  BY DEF Other
<1>4. Pack(p, b) = k
  BY DEF Pack
<1> HIDE DEF n, x
<1>5. /\ pn \in Seq(Int) /\ Len(pn) = 4
      /\ pn[1] = p[1] /\ pn[2] = p[2] /\ pn[3] = p[3] /\ pn[4] = Len(b)
  <2>1. /\ pn \in Seq(Int) /\ Len(pn) = Len(p) + Len(n)
        /\ \A i \in 1..Len(p) : pn[i] = p[i]
        /\ \A i \in 1..Len(n) : pn[Len(p) + i] = n[i]
    <3>1. p \in Seq(Int) /\ n \in Seq(Int)
      BY <1>2, PrefixBytes
    <3> HIDE DEF pn
    <3>2. /\ p \o n \in Seq(Int) /\ Len(p \o n) = Len(p) + Len(n)
          /\ \A i \in 1..Len(p) : (p \o n)[i] = p[i]
          /\ \A i \in 1..Len(n) : (p \o n)[Len(p) + i] = n[i]
      BY <3>1, Concatenated
    <3> QED
      BY <3>2, Zenon DEF pn
  <2> HIDE DEF pn
  <2>2. Len(p) = 3
    BY PrefixBytes
  <2>3. 1 \in 1..3 /\ 2 \in 1..3 /\ 3 \in 1..3 /\ 1 \in 1..1 /\ 3 + 1 = 4
    OBVIOUS
  <2> QED
    BY <1>2, <2>1, <2>2, <2>3
<1> HIDE DEF pn
<1>6. /\ pnx \in Seq(Int) /\ Len(pnx) = 4 + Len(x) /\ Len(x) \in Nat
      /\ \A i \in 1..4 : pnx[i] = pn[i]
  <2>1. /\ pnx \in Seq(Int) /\ Len(pnx) = Len(pn) + Len(x)
        /\ \A i \in 1..Len(pn) : pnx[i] = pn[i]
    <3>1. pn \in Seq(Int) /\ x \in Seq(Int)
      BY <1>3, <1>5
    <3> QED
      BY <3>1, Concatenated, Zenon
  <2> HIDE DEF pnx
  <2> QED
    BY <1>3, <1>5, <2>1
<1> HIDE DEF pnx
<1>7. /\ k \in Seq(Int) /\ Len(k) = 4 + Len(x) + Len(b)
      /\ \A i \in 1..4 : k[i] = pnx[i]
  <2>1. /\ k \in Seq(Int) /\ Len(k) = Len(pnx) + Len(b)
        /\ \A i \in 1..Len(pnx) : k[i] = pnx[i]
    <3>1. pnx \in Seq(Int) /\ b \in Seq(Int)
      BY <1>1, <1>6
    <3> QED
      BY <3>1, Concatenated, Zenon
  <2> HIDE DEF k
  <2> QED
    BY <1>6, <2>1
<1> HIDE DEF k
<1>8. 1 \in 1..4 /\ 2 \in 1..4 /\ 3 \in 1..4 /\ 4 \in 1..4
  OBVIOUS
<1>9. k[1] = p[1] /\ k[2] = p[2] /\ k[3] = p[3] /\ k[4] = Len(b)
  BY <1>5, <1>6, <1>7, <1>8
<1> QED
  BY <1>1, <1>3, <1>4, <1>7, <1>9

\* Packets lie one after the other within the stream.
LEMMA Offsets ==
    ASSUME WireInv
    PROVE  /\ Len(stream) \in Nat /\ Len(offsets) \in Nat \ {0}
           /\ \A n \in 1..Len(offsets) : offsets[n] \in Nat /\ offsets[n] <= Len(stream)
           /\ \A n \in Packets : /\ n \in 1..Len(offsets) /\ n + 1 \in 1..Len(offsets)
                                 /\ offsets[n] + 5 <= offsets[n + 1]
<1>1. /\ Len(stream) \in Nat /\ Len(offsets) \in Nat \ {0}
      /\ \A n \in 1..Len(offsets) : offsets[n] \in Nat
  BY DEF WireInv
<1>2. ASSUME NEW n \in 1..Len(offsets) PROVE offsets[n] <= Len(stream)
  <2>1. CASE n = Len(offsets)
    BY <1>1, <2>1 DEF WireInv
  <2>2. CASE n < Len(offsets)
    <3>1. Len(offsets) \in 1..Len(offsets)
      BY <1>1
    <3>2. offsets[n] + 5 <= Len(stream)
      BY <2>2, <3>1 DEF WireInv
    <3> QED
      BY <1>1, <3>2
  <2> QED
    BY <1>1, <2>1, <2>2
<1>3. ASSUME NEW n \in Packets
      PROVE  n \in 1..Len(offsets) /\ n + 1 \in 1..Len(offsets) /\ offsets[n] + 5 <= offsets[n + 1]
  <2>1. n \in 1..Len(offsets) /\ n + 1 \in 1..Len(offsets) /\ n < n + 1
    BY <1>1 DEF Packets
  <2> QED
    BY <2>1 DEF WireInv
<1> QED
  BY <1>1, <1>2, <1>3

\* A new packet begins where the last one ended, and nothing else changes.
LEMMA SendGrows ==
    ASSUME WireInv, SendPacket
    PROVE  /\ WireInv'
           /\ Len(stream) <= Len(stream') /\ \A i \in 1..Len(stream) : stream'[i] = stream[i]
           /\ Len(offsets') = Len(offsets) + 1 /\ \A n \in 1..Len(offsets) : offsets'[n] = offsets[n]
<1> DEFINE L == Len(stream)
           N == Len(offsets)
<1>1. PICK p \in PREFIXES, b \in Bodies : stream' = stream \o Pack(p, b)
  BY DEF SendPacket
<1> DEFINE k == Pack(p, b)
           x == IF p[3] = X6699 THEN 1 ELSE 0
<1>2. /\ k \in Seq(Int) /\ k[1] = p[1] /\ k[2] = p[2] /\ k[3] = p[3] /\ k[4] = Len(b)
      /\ Len(b) \in Nat \ {0} /\ Len(k) = 4 + x + Len(b) /\ x \in {0, 1}
  BY Packed
<1> HIDE DEF k, x
<1>3. /\ L \in Nat /\ N \in Nat \ {0} /\ offsets \in Seq(Nat) /\ stream \in Seq(Int)
      /\ \A n \in 1..N : offsets[n] \in Nat /\ offsets[n] <= L
  BY Offsets DEF WireInv
<1>4. /\ stream' \in Seq(Int) /\ Len(stream') = L + Len(k)
      /\ \A i \in 1..L : stream'[i] = stream[i]
      /\ \A i \in 1..Len(k) : stream'[L + i] = k[i]
  <2>1. stream' = stream \o k
    BY <1>1 DEF k
  <2>2. /\ stream \o k \in Seq(Int) /\ Len(stream \o k) = L + Len(k)
        /\ \A i \in 1..L : (stream \o k)[i] = stream[i]
        /\ \A i \in 1..Len(k) : (stream \o k)[L + i] = k[i]
    <3>1. stream \in Seq(Int) /\ k \in Seq(Int)
      BY <1>2, <1>3
    <3> QED
      BY <3>1, Concatenated
  <2> QED
    BY <2>1, <2>2, Zenon
<1>5. Len(stream') \in Nat /\ L + 5 <= Len(stream')
  BY <1>2, <1>3, <1>4
<1>6. /\ offsets' \in Seq(Nat) /\ offsets' # <<>> /\ Len(offsets') = N + 1
      /\ \A n \in 1..N : offsets'[n] = offsets[n]
      /\ offsets'[N + 1] = Len(stream')
  <2>1. offsets' = Append(offsets, Len(stream')) /\ offsets \in Seq(Nat) /\ Len(stream') \in Nat
    BY <1>3, <1>5 DEF SendPacket
  <2> QED
    BY <2>1, Appended
<1> HIDE DEF L, N
<1>7. offsets'[1] = 0 /\ offsets'[Len(offsets')] = Len(stream')
  BY <1>3, <1>6 DEF WireInv
<1>8. ASSUME NEW m \in 1..Len(offsets'), NEW n \in 1..Len(offsets'), m < n
      PROVE  offsets'[m] + 5 <= offsets'[n]
  <2>1. m \in 1..N
    BY <1>3, <1>6, <1>8
  <2>2. CASE n \in 1..N
    <3>1. offsets[m] + 5 <= offsets[n]
      BY <1>8, <2>1, <2>2 DEF WireInv, N
    <3> QED
      BY <1>6, <2>1, <2>2, <3>1
  <2>3. CASE n = N + 1
    <3>1. offsets'[m] = offsets[m] /\ offsets[m] \in Nat /\ offsets[m] <= L /\ L \in Nat
      BY <1>3, <1>6, <2>1
    <3>2. offsets'[n] = Len(stream')
      BY <1>6, <2>3
    <3> QED
      BY <1>5, <3>1, <3>2
  <2> QED
    BY <1>3, <1>6, <2>2, <2>3
<1>9. ASSUME NEW n \in Packets' PROVE PacketAt(n)'
  <2>1. CASE n \in Packets
    <3>1. /\ n \in 1..N /\ n + 1 \in 1..N /\ offsets[n] + 5 <= offsets[n + 1] /\ offsets[n + 1] <= L
          /\ offsets[n] \in Nat /\ offsets[n + 1] \in Nat
      BY <1>3, <2>1, Offsets DEF N, L
    <3>2. offsets'[n] = offsets[n] /\ offsets'[n + 1] = offsets[n + 1]
      BY <1>6, <3>1
    <3>3. \A i \in 1..4 : stream'[offsets[n] + i] = stream[offsets[n] + i]
      <4> TAKE i \in 1..4
      <4>1. offsets[n] + i \in 1..L
        <5>1. L \in Nat
          BY <1>3
        <5> QED
          BY <3>1, <5>1
      <4> QED
        BY <1>4, <4>1
    <3>4. /\ stream'[offsets[n] + 1] = stream[offsets[n] + 1] /\ stream'[offsets[n] + 2] = stream[offsets[n] + 2]
          /\ stream'[offsets[n] + 3] = stream[offsets[n] + 3] /\ stream'[offsets[n] + 4] = stream[offsets[n] + 4]
      BY <3>3
    <3>5. PacketAt(n)
      BY <2>1 DEF WireInv
    <3> QED
      BY <3>2, <3>4, <3>5 DEF PacketAt, Prefix, Extras
  <2>2. CASE n = N
    <3>1. offsets'[n] = L /\ offsets'[n + 1] = L + Len(k)
      BY <1>3, <1>4, <1>6, <2>2 DEF WireInv, N, L
    <3>2. 1 \in 1..Len(k) /\ 2 \in 1..Len(k) /\ 3 \in 1..Len(k) /\ 4 \in 1..Len(k)
      BY <1>2
    <3>3. stream'[L + 1] = p[1] /\ stream'[L + 2] = p[2] /\ stream'[L + 3] = p[3] /\ stream'[L + 4] = Len(b)
      BY <1>2, <1>4, <3>2
    <3>4. <<p[1], p[2], p[3]>> \in PREFIXES
      BY PrefixBytes
    <3>5. L + Len(k) = L + 4 + x + Len(b)
      BY <1>2, <1>3
    <3> QED
      BY <1>2, <3>1, <3>3, <3>4, <3>5 DEF PacketAt, Prefix, Extras, x
  <2> QED
    BY <1>3, <1>6, <2>1, <2>2 DEF Packets, N
<1> QED
  BY <1>3, <1>4, <1>5, <1>6, <1>7, <1>8, <1>9 DEF WireInv, L, N


(***************************************************************************)
(* ReaderInv is an invariant.                                              *)
(***************************************************************************)

\* What does not touch the stream leaves its structure.
LEMMA WireStays == ASSUME WireInv, UNCHANGED wire PROVE WireInv'
BY DEF WireInv, wire, Packets, PacketAt, Prefix, Extras

\* A byte that is taken has arrived, and is the next one.
LEMMA Taken ==
    ASSUME ReaderInv, Take
    PROVE  /\ pos' = pos + 1 /\ pos' \in Nat /\ pos' <= arrived /\ pos < Len(stream)
           /\ Byte = stream[pos + 1] /\ Byte \in Int
<1>1. pos \in Nat /\ arrived \in Nat /\ arrived <= Len(stream) /\ pos < arrived /\ pos' = pos + 1
  BY DEF ReaderInv, TypeOK, Take
<1>2. stream \in Seq(Int) /\ pos + 1 \in 1..Len(stream)
  BY <1>1 DEF ReaderInv, WireInv
<1> QED
  BY <1>1, <1>2 DEF Byte

\* The lengths of what lies in the stream are numbers.
LEMMA Lengths ==
    ASSUME WireInv, NEW i \in Nat, i < Len(stream)
    PROVE  stream[i + 1] \in Int /\ LengthOf(stream[i + 1]) \in Nat
<1>1. i + 1 \in 1..Len(stream) /\ stream \in Seq(Int)
  BY DEF WireInv
<1>2. stream[i + 1] \in Int
  BY <1>1
<1> QED
  BY <1>2 DEF LengthOf

\* The first byte of a packet, and those that fill the first window.
LEMMA FirstByteFrames == ASSUME ReaderInv, FirstByte PROVE TypeOK' /\ FrameInv'
<1>1. pos' = pos + 1 /\ pos' \in Nat /\ pos' <= arrived /\ pos \in Nat /\ Byte \in Int
  BY Taken DEF FirstByte, ReaderInv, TypeOK
<1>2. /\ window' = <<Byte>> /\ phase' = "fill"
      /\ UNCHANGED <<wire, shifts, need, start, read, delays, ending>>
  BY DEF FirstByte
<1>3. window' \in Seq(Int) /\ Len(window') = 1 /\ window'[1] = stream[pos + 1]
  BY <1>1, <1>2 DEF Byte
<1>4. TypeOK'
  BY <1>1, <1>2, <1>3 DEF ReaderInv, TypeOK, wire
<1>5. Base' = pos
  BY <1>1, <1>2, <1>3 DEF Base, Searching
<1>6. \A i \in 1..Len(window') : window'[i] = stream[Base' + i]
  BY <1>1, <1>3, <1>5
<1> QED
  BY <1>1, <1>2, <1>3, <1>4, <1>6 DEF FrameInv, Framing, Searching, wire

\* The first window grows by the byte taken.
LEMMA FillFrames == ASSUME ReaderInv, Fill PROVE TypeOK' /\ FrameInv'
<1>1. pos' = pos + 1 /\ pos' \in Nat /\ pos' <= arrived /\ pos \in Nat /\ Byte \in Int
  BY Taken DEF Fill, ReaderInv, TypeOK
<1>2. /\ phase = "fill" /\ window' = Append(window, Byte)
      /\ phase' = IF Len(window') = 3 THEN "scan" ELSE "fill"
      /\ shifts' = 0
      /\ UNCHANGED <<wire, need, start, read, delays, ending>>
  BY DEF Fill
<1>3. window \in Seq(Int) /\ Len(window) \in {1, 2} /\ Len(window) <= pos
  BY <1>2 DEF ReaderInv, TypeOK, FrameInv, Searching
<1>4. /\ window' \in Seq(Int) /\ Len(window') = Len(window) + 1
      /\ \A i \in 1..Len(window) : window'[i] = window[i]
      /\ window'[Len(window) + 1] = stream[pos + 1]
  BY <1>1, <1>2, <1>3, Appended DEF Byte
<1>5. TypeOK'
  BY <1>1, <1>2, <1>4, ReaderAssumption DEF ReaderInv, TypeOK, wire
<1>6. Base' = Base /\ Base + Len(window) = pos /\ Base \in Int
  BY <1>1, <1>2, <1>3, <1>4 DEF Base, Searching
<1>7. ASSUME NEW i \in 1..Len(window') PROVE window'[i] = stream[Base' + i]
  <2>1. CASE i \in 1..Len(window)
    BY <1>2, <1>4, <1>6, <2>1 DEF ReaderInv, FrameInv, Searching
  <2>2. CASE i = Len(window) + 1
    <3>1. Base' + i = pos + 1
      BY <1>3, <1>6, <2>2
    <3> QED
      BY <1>4, <2>2, <3>1
  <2> QED
    BY <1>3, <1>4, <2>1, <2>2
<1>8. phase' \in {"fill", "scan"} /\ stream' = stream /\ Len(window') <= pos'
  <2>1. phase' \in {"fill", "scan"} /\ stream' = stream
    BY <1>2 DEF wire
  <2>2. Len(window') <= pos'
    BY <1>1, <1>3, <1>4
  <2> QED
    BY <2>1, <2>2
<1>9. (phase' = "fill" => Len(window') \in {1, 2}) /\ (phase' = "scan" => Len(window') = 3)
  <2>0. Len(window') = Len(window) + 1
    BY <1>4
  <2>1. CASE Len(window) = 1
    <3>1. Len(window') = 2
      BY <2>0, <2>1
    <3> QED
      BY <1>2, <3>1
  <2>2. CASE Len(window) = 2
    <3>1. Len(window') = 3
      BY <2>0, <2>2
    <3> QED
      BY <1>2, <3>1
  <2> QED
    BY <1>3, <2>1, <2>2
<1>10. \A i \in 1..Len(window') : window'[i] = stream'[Base' + i]
  BY <1>7, <1>8
<1>11. FrameInv'
  BY <1>8, <1>9, <1>10 DEF FrameInv, Framing
<1> QED
  BY <1>5, <1>11

\* The next window: the first byte leaves, a new one comes in.
LEMMA ShiftFrames == ASSUME ReaderInv, Shift PROVE TypeOK' /\ FrameInv' /\ Base' = Base + 1
<1>1. pos' = pos + 1 /\ pos' \in Nat /\ pos' <= arrived /\ pos \in Nat /\ Byte \in Int
  BY Taken DEF Shift, ReaderInv, TypeOK
<1>2. /\ phase = "scan" /\ window' = Append(Tail(window), Byte) /\ shifts' = shifts + 1
      /\ shifts < ScanLimit
      /\ UNCHANGED <<wire, phase, need, start, read, delays, ending>>
  BY DEF Shift
<1>3. window \in Seq(Int) /\ Len(window) = 3 /\ Len(window) <= pos /\ window # <<>>
  BY <1>2 DEF ReaderInv, TypeOK, FrameInv, Searching
<1>5. /\ window' \in Seq(Int) /\ Len(window') = 3
      /\ \A i \in 1..2 : window'[i] = window[i + 1]
      /\ window'[3] = stream[pos + 1]
  BY <1>1, <1>2, <1>3, Moved DEF Byte
<1>6. TypeOK'
  <2>1. shifts' \in 0..ScanLimit
    <3>1. shifts \in 0..ScanLimit /\ ScanLimit \in Nat
      BY ReaderAssumption DEF ReaderInv, TypeOK
    <3> QED
      BY <1>2, <3>1
  <2> QED
    BY <1>1, <1>2, <1>5, <2>1 DEF ReaderInv, TypeOK, wire
<1>7. Base' = Base + 1 /\ Base + 3 = pos /\ Base \in Int
  <2>1. Base = pos - 3 /\ Base' = pos' - 3
    BY <1>2, <1>3, <1>5 DEF Base, Searching
  <2> QED
    BY <1>1, <2>1
<1>8. ASSUME NEW i \in 1..Len(window') PROVE window'[i] = stream[Base' + i]
  <2>1. CASE i \in 1..2
    <3>1. i + 1 \in 1..Len(window) /\ Base' + i = Base + (i + 1)
      BY <1>3, <1>7, <2>1
    <3>2. window[i + 1] = stream[Base + (i + 1)]
      BY <1>2, <3>1 DEF ReaderInv, FrameInv, Searching
    <3> QED
      BY <1>5, <2>1, <3>1, <3>2
  <2>2. CASE i = 3
    BY <1>5, <1>7, <2>2
  <2> QED
    BY <1>5, <2>1, <2>2
<1>9. Len(window') <= pos'
  BY <1>1, <1>3, <1>5
<1> QED
  BY <1>2, <1>5, <1>6, <1>7, <1>8, <1>9 DEF FrameInv, Framing, Searching, wire


\* A prefix is found: the packet is taken to begin with it.
LEMMA PrefixFoundFrames ==
    ASSUME ReaderInv, PrefixFound PROVE TypeOK' /\ FrameInv' /\ Base' = Base
<1>1. /\ phase = "scan" /\ phase' = "header" /\ start' = pos - 3
      /\ UNCHANGED <<wire, pos, window, shifts, need, read, delays, ending>>
  BY DEF PrefixFound
<1>2. Len(window) = 3 /\ Len(window) <= pos /\ pos \in Nat /\ window[3] = stream[Base + 3]
  <2>1. /\ Len(window) = 3 /\ Len(window) <= pos /\ pos \in Nat
        /\ \A i \in 1..Len(window) : window[i] = stream[Base + i]
    BY <1>1 DEF ReaderInv, TypeOK, FrameInv, Searching
  <2> QED
    BY <2>1
<1>3. Base = pos - 3 /\ Base' = start' /\ start' \in Nat
  BY <1>1, <1>2 DEF Base, Searching, Framing
<1>4. TypeOK'
  BY <1>1, <1>3 DEF ReaderInv, TypeOK, wire
<1>5. start' + 3 = pos
  BY <1>1, <1>2
<1> QED
  BY <1>1, <1>2, <1>3, <1>4, <1>5 DEF FrameInv, Framing, Searching, wire

\* The header says how much of the packet is left.
LEMMA HeaderFrames == ASSUME ReaderInv, Header PROVE TypeOK' /\ FrameInv' /\ Base' = Base
<1>1. pos' = pos + 1 /\ pos' \in Nat /\ pos' <= arrived /\ pos \in Nat /\ Byte = stream[pos + 1] /\ Byte \in Int
  BY Taken DEF Header, ReaderInv, TypeOK
<1>2. /\ phase = "header" /\ need' = LengthOf(Byte)
      /\ phase' = IF window[3] = X6699 THEN "extra" ELSE "body"
      /\ UNCHANGED <<wire, window, shifts, start, read, delays, ending>>
  BY DEF Header
<1>3. pos = start + 3 /\ start \in Nat /\ window[3] = stream[start + 3]
  BY <1>2 DEF ReaderInv, TypeOK, FrameInv, Framing
<1>4. pos + 1 = start + 4 /\ need' \in Nat /\ need' = LengthOf(stream[start + 4])
  <2>1. pos + 1 = start + 4
    BY <1>3
  <2> QED
    BY <1>1, <1>2, <2>1 DEF LengthOf
<1>5. TypeOK'
  BY <1>1, <1>2, <1>4 DEF ReaderInv, TypeOK, wire
<1>6. Base' = Base
  BY <1>2 DEF Base, Searching, Framing
<1>7. phase' = "extra" => Extras(start)' = 1
  BY <1>2, <1>3 DEF Extras, wire
<1>8. phase' = "body" => Extras(start)' = 0
  BY <1>2, <1>3 DEF Extras, wire
<1>9. pos' = start' + 4 /\ need' = LengthOf(stream'[start' + 4]) /\ window'[3] = stream'[start' + 3]
      /\ start' + 3 <= pos' /\ start' \in Nat
  BY <1>1, <1>2, <1>3, <1>4 DEF wire
<1> QED
  BY <1>2, <1>4, <1>5, <1>6, <1>7, <1>8, <1>9 DEF FrameInv, Framing, Searching

\* The further header byte of a 6699 packet belongs to the packet.
LEMMA ExtraFrames == ASSUME ReaderInv, Extra PROVE TypeOK' /\ FrameInv' /\ Base' = Base
<1>1. pos' = pos + 1 /\ pos' \in Nat /\ pos' <= arrived /\ pos \in Nat
  BY Taken DEF Extra, ReaderInv, TypeOK
<1>2. /\ phase = "extra" /\ phase' = "body"
      /\ UNCHANGED <<wire, window, shifts, need, start, read, delays, ending>>
  BY DEF Extra
<1>3. /\ pos = start + 4 /\ start \in Nat /\ window[3] = stream[start + 3] /\ need \in Nat
      /\ Extras(start) = 1 /\ need = LengthOf(stream[start + 4])
  BY <1>2 DEF ReaderInv, TypeOK, FrameInv, Framing
<1>4. TypeOK' /\ Base' = Base
  <2>1. TypeOK'
    BY <1>1, <1>2 DEF ReaderInv, TypeOK, wire
  <2>2. Base' = Base
    BY <1>2 DEF Base, Searching, Framing
  <2> QED
    BY <2>1, <2>2
<1>5. Extras(start)' = 1 /\ LengthOf(stream[start + 4])' = need
  BY <1>2, <1>3 DEF Extras, LengthOf, wire
<1> QED
  BY <1>1, <1>2, <1>3, <1>4, <1>5 DEF FrameInv, Framing, Searching, wire

\* A byte of the body leaves one less to read.
LEMMA BodyFrames == ASSUME ReaderInv, Body PROVE TypeOK' /\ FrameInv' /\ Base' = Base
<1>1. pos' = pos + 1 /\ pos' \in Nat /\ pos' <= arrived /\ pos \in Nat
  BY Taken DEF Body, ReaderInv, TypeOK
<1>2. /\ phase = "body" /\ need > 0 /\ need' = need - 1
      /\ UNCHANGED <<wire, phase, window, shifts, start, read, delays, ending>>
  BY DEF Body
<1>3. /\ pos >= start + 4 + Extras(start) /\ start \in Nat /\ window[3] = stream[start + 3] /\ need \in Nat
      /\ pos + need = start + 4 + Extras(start) + LengthOf(stream[start + 4])
  BY <1>2 DEF ReaderInv, TypeOK, FrameInv, Framing
<1>4. TypeOK' /\ Base' = Base
  <2>1. need' \in Nat
    BY <1>2, <1>3
  <2>2. TypeOK'
    BY <1>1, <1>2, <2>1 DEF ReaderInv, TypeOK, wire
  <2>3. Base' = Base
    BY <1>2 DEF Base, Searching, Framing
  <2> QED
    BY <2>2, <2>3
<1>5. Extras(start)' = Extras(start) /\ LengthOf(stream[start + 4])' = LengthOf(stream[start + 4])
      /\ Extras(start) \in {0, 1}
  BY <1>2 DEF Extras, LengthOf, wire
<1>6. /\ start + 3 <= pos' /\ pos' >= start + 4 + Extras(start)
      /\ pos' + need' = start + 4 + Extras(start) + LengthOf(stream[start + 4])
  BY <1>1, <1>2, <1>3, <1>5
<1> QED
  BY <1>2, <1>3, <1>4, <1>5, <1>6 DEF FrameInv, Framing, Searching, wire


\* What unpack_message hands on: a packet read from its beginning to its end, or an
\* error if there is no such packet.
LEMMA Unpacked ==
    ASSUME ReaderInv, Unpack
    PROVE  \E x \in Nat :
               /\ read' = Append(read, x)
               /\ x # 0 => x \in Packets /\ offsets[x] = start /\ offsets[x + 1] = pos
               /\ x = 0 => ~\E n \in Packets : offsets[n] = start /\ offsets[n + 1] = pos
<1> DEFINE whole == {n \in Packets : offsets[n] = start /\ offsets[n + 1] = pos}
           x == IF whole = {} THEN 0 ELSE CHOOSE n \in whole : TRUE
<1>1. read' = Append(read, x)
  BY DEF Unpack
<1>2. whole # {} => x \in whole
  OBVIOUS
<1>3. \A n \in whole : n \in Nat \ {0}
  BY Offsets DEF ReaderInv, Packets
<1>4. x \in Nat /\ (x # 0 => x \in whole) /\ (x = 0 => whole = {})
  BY <1>2, <1>3
<1> HIDE DEF x
<1> QED
  BY <1>1, <1>4

\* ReaderInv holds and stays, whatever happens to the stream and the reader.
THEOREM ReaderInvariant == Spec => []ReaderInv
<1>1. Init => ReaderInv
  <2> SUFFICES ASSUME Init PROVE ReaderInv
    OBVIOUS
  <2>1. stream = <<>> /\ offsets = <<0>> /\ Packets = {}
    BY DEF Init, Packets
  <2>2. WireInv
    <3>1. offsets \in Seq(Nat) /\ Len(offsets) = 1 /\ offsets[1] = 0 /\ offsets # <<>>
      BY <2>1
    <3>2. stream \in Seq(Int) /\ Len(stream) = 0
      BY <2>1
    <3>3. \A m, n \in 1..Len(offsets) : ~(m < n)
      BY <3>1
    <3> QED
      BY <2>1, <3>1, <3>2, <3>3 DEF WireInv
  <2>3. TypeOK
    BY ReaderAssumption DEF Init, TypeOK
  <2>4. FrameInv
    BY DEF Init, FrameInv, Searching, Framing
  <2> QED
    BY <2>2, <2>3, <2>4 DEF ReaderInv
<1>2. ReaderInv /\ [Next]_vars => ReaderInv'
  <2> SUFFICES ASSUME ReaderInv, [Next]_vars PROVE ReaderInv'
    OBVIOUS
  <2>1. CASE SendPacket
    <3>1. /\ WireInv' /\ Len(stream) <= Len(stream') /\ Len(stream) \in Nat /\ Len(stream') \in Nat
          /\ \A i \in 1..Len(stream) : stream'[i] = stream[i]
      <4>1. WireInv
        BY DEF ReaderInv
      <4> QED
        BY <2>1, <4>1, SendGrows DEF WireInv
    <3>2. UNCHANGED <<arrived, pos, phase, window, shifts, need, start, read, delays, ending>>
      BY <2>1 DEF SendPacket
    <3>3. pos \in Nat /\ arrived \in Nat /\ pos <= Len(stream) /\ arrived <= Len(stream) /\ start \in Nat
      BY <3>1 DEF ReaderInv, TypeOK
    <3>4. TypeOK'
      BY <3>1, <3>2, <3>3 DEF ReaderInv, TypeOK
    <3>5. Base' = Base /\ (Searching' <=> Searching) /\ (Framing' <=> Framing)
      BY <3>2 DEF Base, Searching, Framing
    <3>6. ASSUME Searching
          PROVE  Len(window) <= pos /\ \A i \in 1..Len(window) : window[i] = stream'[Base + i]
      <4>1. /\ Len(window) <= pos /\ Len(window) \in Nat /\ Base = pos - Len(window)
            /\ \A i \in 1..Len(window) : window[i] = stream[Base + i]
        BY <3>6 DEF ReaderInv, TypeOK, FrameInv, Base
      <4>2. \A i \in 1..Len(window) : Base + i \in 1..Len(stream)
        BY <3>1, <3>3, <4>1
      <4> QED
        BY <3>1, <4>1, <4>2
    <3>7. ASSUME Framing
          PROVE  start + 3 <= pos /\ window[3] = stream'[start + 3] /\ Extras(start)' = Extras(start)
      <4>1. start + 3 <= pos /\ window[3] = stream[start + 3]
        BY <3>7 DEF ReaderInv, FrameInv
      <4>2. start + 3 \in 1..Len(stream)
        BY <3>1, <3>3, <4>1
      <4> QED
        BY <3>1, <3>2, <4>1, <4>2 DEF Extras
    <3>8. ASSUME phase \in {"extra", "body"} PROVE stream'[start + 4] = stream[start + 4]
      <4>1. pos >= start + 4
        BY <3>3, <3>8 DEF ReaderInv, FrameInv, Extras
      <4>2. start + 4 \in 1..Len(stream)
        BY <3>1, <3>3, <4>1
      <4> QED
        BY <3>1, <4>2
    <3>9. FrameInv'
      <4>1. /\ phase = "fill" => Len(window) \in {1, 2}
            /\ phase = "scan" => Len(window) = 3
            /\ phase = "header" => pos = start + 3
            /\ phase = "extra" => pos = start + 4 /\ Extras(start) = 1 /\ need = LengthOf(stream[start + 4])
            /\ phase = "body" => /\ pos >= start + 4 + Extras(start)
                                 /\ pos + need = start + 4 + Extras(start) + LengthOf(stream[start + 4])
        BY DEF ReaderInv, FrameInv
      <4> QED
        BY <3>2, <3>5, <3>6, <3>7, <3>8, <4>1 DEF FrameInv, Framing
    <3> QED
      BY <3>1, <3>4, <3>9 DEF ReaderInv
  <2>2. CASE Arrive \/ Close \/ UNCHANGED vars
    <3>1. UNCHANGED <<stream, offsets, pos, phase, window, shifts, need, start, read, delays>>
      BY <2>2 DEF Arrive, Close, vars, wire
    <3>2. /\ arrived' \in Nat /\ arrived' <= Len(stream) /\ pos <= arrived'
          /\ ending' \in {"open", "closed", "Timeout", "Io", "KeyOrVersionError", "panic"}
      <4>1. arrived \in Nat /\ arrived <= Len(stream) /\ pos \in Nat /\ pos <= arrived /\ Len(stream) \in Nat
        BY Offsets DEF ReaderInv, TypeOK
      <4> QED
        BY <2>2, <4>1 DEF Arrive, Close, vars, wire, ReaderInv, TypeOK
    <3>3. WireInv'
      BY <3>1 DEF ReaderInv, WireInv, Packets, PacketAt, Prefix, Extras
    <3>4. TypeOK'
      BY <3>1, <3>2 DEF ReaderInv, TypeOK
    <3>5. FrameInv'
      BY <3>1 DEF ReaderInv, FrameInv, Base, Searching, Framing, Extras, LengthOf
    <3> QED
      BY <3>3, <3>4, <3>5 DEF ReaderInv
  <2>3. CASE FirstByte \/ Fill \/ PrefixFound \/ Shift \/ Header \/ Extra \/ Body
    <3>1. UNCHANGED wire
      BY <2>3 DEF FirstByte, Fill, PrefixFound, Shift, Header, Extra, Body
    <3> QED
      BY <2>3, <3>1, WireStays, FirstByteFrames, FillFrames, PrefixFoundFrames, ShiftFrames,
         HeaderFrames, ExtraFrames, BodyFrames DEF ReaderInv
  <2>4. CASE GiveUpScan \/ Unpack \/ ReaderPanics \/ Timeout \/ Eof
    <3>1. /\ UNCHANGED <<wire, pos, window, shifts, need, start>> /\ phase' \in {"idle", "ended"}
          /\ ending' \in {"open", "closed", "Timeout", "Io", "KeyOrVersionError", "panic"}
      BY <2>4 DEF GiveUpScan, Unpack, ReaderPanics, Timeout, Eof, ReaderInv, TypeOK
    <3>2. WireInv'
      BY <3>1, WireStays DEF ReaderInv
    <3>3. delays' \in Nat
      BY <2>4 DEF GiveUpScan, Unpack, ReaderPanics, Timeout, Eof, ReaderInv, TypeOK
    <3>4. read' \in Seq(Nat)
      <4>1. read \in Seq(Nat)
        BY DEF ReaderInv, TypeOK
      <4>2. CASE Unpack
        <5>1. PICK x \in Nat : read' = Append(read, x)
          BY <4>2, Unpacked
        <5> QED
          BY <4>1, <5>1
      <4>3. CASE GiveUpScan \/ ReaderPanics \/ Timeout \/ Eof
        BY <4>1, <4>3 DEF GiveUpScan, ReaderPanics, Timeout, Eof
      <4> QED
        BY <2>4, <4>2, <4>3
    <3>5. TypeOK'
      BY <3>1, <3>3, <3>4 DEF ReaderInv, TypeOK, wire
    <3>6. FrameInv'
      BY <3>1 DEF FrameInv, Searching, Framing
    <3> QED
      BY <3>2, <3>5, <3>6 DEF ReaderInv
  <2> QED
    BY <2>1, <2>2, <2>3, <2>4 DEF Next, ReaderStep
<1> QED
  BY <1>1, <1>2, PTL DEF Spec


(***************************************************************************)
(* How the steps move Base, which never goes back.                         *)
(***************************************************************************)
LEMMA Bases ==
    ASSUME ReaderInv
    PROVE  Base \in Nat /\ pos \in Nat /\ Base <= pos /\ arrived \in Nat /\ pos <= arrived
           /\ Len(stream) \in Nat /\ arrived <= Len(stream)
<1>1. /\ pos \in Nat /\ start \in Nat /\ Len(window) \in Nat /\ arrived \in Nat /\ pos <= arrived
      /\ (Searching => Len(window) <= pos) /\ (Framing => start + 3 <= pos)
      /\ Len(stream) \in Nat /\ arrived <= Len(stream)
  BY Offsets DEF ReaderInv, TypeOK, FrameInv
<1> QED
  BY <1>1 DEF Base

\* Steps of the device and of the reader inside a packet.
LEMMA Quiet ==
    ASSUME ReaderInv,
           \/ SendPacket \/ Arrive \/ Close \/ UNCHANGED vars
           \/ FirstByte \/ Fill \/ PrefixFound \/ Header \/ Extra \/ Body
    PROVE  Base' = Base /\ UNCHANGED <<read, delays>>
<1>1. UNCHANGED <<read, delays>>
  BY DEF SendPacket, Arrive, Close, vars, FirstByte, Fill, PrefixFound, Header, Extra, Body
<1>2. CASE SendPacket \/ Arrive \/ Close \/ UNCHANGED vars
  <2>1. UNCHANGED <<pos, phase, window, start>>
    BY <1>2 DEF SendPacket, Arrive, Close, vars
  <2> QED
    BY <1>1, <2>1 DEF Base, Searching, Framing
<1>3. CASE FirstByte
  <2>1. pos \in Nat /\ pos' = pos + 1 /\ phase = "idle" /\ phase' = "fill" /\ Len(window') = 1
    BY <1>3, Bases DEF FirstByte, Take
  <2> QED
    BY <1>1, <2>1 DEF Base, Searching, Framing
<1>4. CASE Fill
  <2>1. /\ pos' = pos + 1 /\ phase = "fill" /\ phase' \in {"fill", "scan"} /\ window' = Append(window, Byte)
        /\ pos \in Nat /\ Byte \in Int
    BY <1>4, Taken, Bases DEF Fill
  <2>2. window \in Seq(Int)
    BY DEF ReaderInv, TypeOK
  <2>3. Len(window') = Len(window) + 1 /\ Len(window) \in Nat
    BY <2>1, <2>2, Appended
  <2> QED
    BY <1>1, <2>1, <2>3 DEF Base, Searching, Framing
<1> QED
  BY <1>1, <1>2, <1>3, <1>4, PrefixFoundFrames, HeaderFrames, ExtraFrames, BodyFrames

\* Steps that leave a packet, or the scan for one.
LEMMA Leaving ==
    ASSUME ReaderInv, GiveUpScan \/ Unpack \/ ReaderPanics \/ Timeout \/ Eof
    PROVE  /\ Base' = pos /\ phase # "ended" /\ phase' \in {"idle", "ended"}
           /\ UNCHANGED <<stream, offsets, arrived, pos>>
BY DEF GiveUpScan, Unpack, ReaderPanics, Timeout, Eof, Waiting, wire, Base, Searching, Framing

\* No step moves the reader back.
LEMMA BaseGrows == ASSUME ReaderInv, [Next]_vars PROVE Base' \in Nat /\ Base <= Base'
<1>1. CASE Shift
  BY <1>1, Bases, ShiftFrames
<1>2. CASE GiveUpScan \/ Unpack \/ ReaderPanics \/ Timeout \/ Eof
  BY <1>2, Bases, Leaving
<1> QED
  BY <1>1, <1>2, Bases, Quiet DEF Next, ReaderStep

\* Packets stay where they are.
LEMMA OffsetsKept ==
    ASSUME WireInv, [Next]_vars
    PROVE  /\ \A n \in 1..Len(offsets) : n \in 1..Len(offsets') /\ offsets'[n] = offsets[n]
           /\ \A n \in Packets : n \in Packets' /\ offsets'[n + 1] = offsets[n + 1]
           /\ \A i \in 1..Len(stream) : i \in 1..Len(stream') /\ stream'[i] = stream[i]
<1>1. /\ Len(offsets) <= Len(offsets') /\ Len(offsets) \in Nat /\ Len(offsets') \in Nat
      /\ \A n \in 1..Len(offsets) : offsets'[n] = offsets[n]
      /\ Len(stream) <= Len(stream') /\ Len(stream) \in Nat /\ Len(stream') \in Nat
      /\ \A i \in 1..Len(stream) : stream'[i] = stream[i]
  <2>1. CASE SendPacket
    <3>1. Len(offsets) \in Nat /\ Len(stream) \in Nat
      BY Offsets
    <3>2. /\ WireInv' /\ Len(offsets') = Len(offsets) + 1 /\ \A n \in 1..Len(offsets) : offsets'[n] = offsets[n]
          /\ Len(stream) <= Len(stream') /\ \A i \in 1..Len(stream) : stream'[i] = stream[i]
      BY <2>1, SendGrows
    <3>3. Len(stream') \in Nat
      BY <3>2 DEF WireInv
    <3> QED
      BY <3>1, <3>2, <3>3
  <2>2. CASE UNCHANGED <<stream, offsets>>
    BY <2>2, Offsets
  <2> QED
    BY <2>1, <2>2 DEF Next, ReaderStep, Arrive, Close, FirstByte, Fill, PrefixFound, Shift, GiveUpScan,
       Header, Extra, Body, Unpack, ReaderPanics, Timeout, Eof, wire, vars
<1>2. /\ \A n \in 1..Len(offsets) : n \in 1..Len(offsets')
      /\ \A n \in Packets : n \in Packets' /\ n + 1 \in 1..Len(offsets)
      /\ \A i \in 1..Len(stream) : i \in 1..Len(stream')
  BY <1>1 DEF Packets
<1> QED
  BY <1>1, <1>2

(***************************************************************************)
(* Order                                                                   *)
(***************************************************************************)

\* Packets are handed on in the order they were sent and none twice: what was handed
\* on ends before Base, and unpack_message hands on a packet that begins there.
THEOREM HandsOnInOrder == Spec => []InOrder
<1>1. Init => OrderInv
  BY DEF Init, OrderInv, InOrder
<1>2. ReaderInv /\ OrderInv /\ [Next]_vars => OrderInv'
  <2> SUFFICES ASSUME ReaderInv, OrderInv, [Next]_vars PROVE OrderInv'
    OBVIOUS
  <2>1. /\ WireInv /\ read \in Seq(Nat) /\ Len(read) \in Nat /\ DOMAIN read = 1..Len(read)
    BY DEF ReaderInv, TypeOK
  <2>2. /\ \A n \in Packets : n \in Packets' /\ offsets'[n + 1] = offsets[n + 1] /\ offsets[n + 1] \in Nat
                              /\ n \in Nat
    BY <2>1, Offsets, OffsetsKept
  <2>3. Base \in Nat /\ Base' \in Nat /\ Base <= Base'
    BY Bases, BaseGrows
  <2>4. ASSUME NEW n \in Packets, offsets[n + 1] <= Base
        PROVE  n \in Packets' /\ offsets'[n + 1] <= Base'
    BY <2>2, <2>3, <2>4
  <2>5. CASE UNCHANGED read
    BY <2>4, <2>5 DEF OrderInv, InOrder
  <2>6. ASSUME NEW x \in Nat, read' = Append(read, x),
               x # 0 => /\ x \in Packets /\ offsets'[x + 1] <= Base'
                        /\ \A n \in Packets : offsets[n + 1] <= Base => n < x
        PROVE  OrderInv'
    <3>1. /\ Len(read') = Len(read) + 1 /\ DOMAIN read' = 1..(Len(read) + 1)
          /\ \A i \in 1..Len(read) : read'[i] = read[i]
          /\ read'[Len(read) + 1] = x
      <4>1. read' \in Seq(Nat) /\ Len(read') = Len(read) + 1
        BY <2>1, <2>6, Appended
      <4> QED
        BY <2>1, <2>6, <4>1, Appended
    <3>2. ASSUME NEW i \in 1..(Len(read) + 1), read'[i] # 0
          PROVE  read'[i] \in Packets' /\ offsets'[read'[i] + 1] <= Base'
      <4>1. CASE i = Len(read) + 1
        BY <2>2, <2>6, <3>1, <3>2, <4>1
      <4>2. CASE i \in 1..Len(read)
        BY <2>4, <3>1, <3>2, <4>2 DEF OrderInv
      <4> QED
        BY <2>1, <4>1, <4>2
    <3>3. ASSUME NEW i \in 1..(Len(read) + 1), NEW j \in 1..(Len(read) + 1), i < j,
                 read'[i] # 0, read'[j] # 0
          PROVE  read'[i] < read'[j]
      <4>1. i \in 1..Len(read) /\ read'[i] = read[i]
        BY <2>1, <3>1, <3>3
      <4>2. CASE j = Len(read) + 1
        BY <2>6, <3>1, <3>3, <4>1, <4>2 DEF OrderInv
      <4>3. CASE j \in 1..Len(read)
        BY <2>1, <3>1, <3>3, <4>1, <4>3 DEF OrderInv, InOrder
      <4> QED
        BY <2>1, <4>2, <4>3
    <3> QED
      BY <3>1, <3>2, <3>3 DEF OrderInv, InOrder
  <2>7. CASE Unpack
    <3>1. PICK x \in Nat : /\ read' = Append(read, x)
                           /\ x # 0 => x \in Packets /\ offsets[x] = start /\ offsets[x + 1] = pos
      BY <2>7, Unpacked
    <3>2. Base = start /\ Base' = pos
      BY <2>7, Leaving DEF Unpack, Base, Searching, Framing
    <3>3. ASSUME x # 0, NEW n \in Packets, offsets[n + 1] <= start PROVE n < x
      <4>1. SUFFICES ASSUME x <= n PROVE FALSE
        BY <2>2, <3>1, <3>3
      <4>2. /\ x \in 1..Len(offsets) /\ n + 1 \in 1..Len(offsets) /\ x < n + 1
            /\ offsets[x] \in Nat /\ offsets[n + 1] \in Nat
        BY <2>1, <2>2, <3>1, <3>3, <4>1, Offsets
      <4>3. offsets[x] + 5 <= offsets[n + 1]
        BY <2>1, <4>2 DEF WireInv
      <4> QED
        BY <3>1, <3>3, <4>2, <4>3
    <3>4. x # 0 => offsets'[x + 1] <= Base'
      BY <2>2, <2>3, <3>1, <3>2
    <3> QED
      BY <2>6, <3>1, <3>2, <3>3, <3>4
  <2>8. CASE Timeout
    <3>1. UNCHANGED read \/ read' = Append(read, 0)
      BY <2>8 DEF Timeout
    <3> QED
      BY <2>5, <2>6, <3>1
  <2>9. CASE Shift \/ GiveUpScan \/ ReaderPanics \/ Eof
    BY <2>5, <2>9 DEF Shift, GiveUpScan, ReaderPanics, Eof
  <2> QED
    BY <2>5, <2>7, <2>8, <2>9, Quiet DEF Next, ReaderStep
<1>3. OrderInv => InOrder
  BY DEF OrderInv
<1> QED
  BY <1>1, <1>2, <1>3, ReaderInvariant, PTL DEF Spec


(***************************************************************************)
(* A reader in step: Base is where a packet begins.                        *)
(***************************************************************************)

\* Offsets tell packets apart, and the last one is the end of the stream.
LEMMA SameOffset ==
    ASSUME WireInv, NEW m \in 1..Len(offsets), NEW n \in 1..Len(offsets), offsets[m] = offsets[n]
    PROVE  m = n
<1>1. m \in Nat /\ n \in Nat /\ offsets[m] \in Nat /\ offsets[n] \in Nat
  BY Offsets
<1>2. ~(m < n)
  <2>1. m < n => offsets[m] + 5 <= offsets[n]
    BY DEF WireInv
  <2> QED
    BY <1>1, <2>1
<1>3. ~(n < m)
  <2>1. n < m => offsets[n] + 5 <= offsets[m]
    BY DEF WireInv
  <2> QED
    BY <1>1, <2>1
<1> QED
  BY <1>1, <1>2, <1>3

\* An offset before the end of the stream is that of a packet.
LEMMA BeforeTheEnd ==
    ASSUME WireInv, NEW n \in 1..Len(offsets), offsets[n] < Len(stream)
    PROVE  n \in Packets
<1>1. n \in Nat /\ Len(offsets) \in Nat /\ offsets[n] \in Nat /\ Len(stream) \in Nat
  BY Offsets
<1>2. n # Len(offsets)
  BY <1>1 DEF WireInv
<1> QED
  BY <1>1, <1>2 DEF Packets

\* The window then holds a prefix.
LEMMA WindowIsPrefix ==
    ASSUME ReaderInv, phase = "scan", NEW n \in 1..Len(offsets), Base = offsets[n]
    PROVE  n \in Packets /\ window \in PREFIXES
<1>1. /\ WireInv /\ window \in Seq(Int) /\ Len(window) = 3 /\ Base = pos - 3 /\ pos \in Nat
      /\ \A i \in 1..3 : window[i] = stream[Base + i]
  BY DEF ReaderInv, TypeOK, FrameInv, Searching, Base
<1>2. Base < Len(stream)
  BY <1>1, Bases
<1>3. n \in Packets
  BY <1>1, <1>2, BeforeTheEnd
<1>4. Prefix(Base) \in PREFIXES
  BY <1>1, <1>3 DEF WireInv, PacketAt
<1>5. window = <<window[1], window[2], window[3]>>
  BY <1>1
<1>6. window[1] = stream[Base + 1] /\ window[2] = stream[Base + 2] /\ window[3] = stream[Base + 3]
  BY <1>1
<1> QED
  BY <1>3, <1>4, <1>5, <1>6 DEF Prefix

\* And the bytes the header announces are those of the packet.
LEMMA EndOfPacket ==
    ASSUME ReaderInv, phase \in {"extra", "body"}, NEW n \in 1..Len(offsets), start = offsets[n]
    PROVE  /\ n \in Packets
           /\ phase = "extra" => pos < offsets[n + 1]
           /\ phase = "body" => pos + need = offsets[n + 1]
<1>1. /\ WireInv /\ start \in Nat /\ start + 3 <= pos /\ pos \in Nat /\ pos <= Len(stream)
      /\ Len(stream) \in Nat
  BY Bases DEF ReaderInv, TypeOK, FrameInv, Framing
<1>2. n \in Packets
  BY <1>1, BeforeTheEnd
<1>3. /\ stream[start + 4] \in Nat \ {0}
      /\ offsets[n + 1] = start + 4 + Extras(start) + stream[start + 4]
  BY <1>1, <1>2 DEF WireInv, PacketAt
<1>4. LengthOf(stream[start + 4]) = stream[start + 4]
  BY <1>3 DEF LengthOf
<1>6. phase = "extra" => pos = start + 4 /\ Extras(start) = 1
  BY DEF ReaderInv, FrameInv
<1>7. phase = "body" => pos + need = start + 4 + Extras(start) + stream[start + 4]
  BY <1>4 DEF ReaderInv, FrameInv
<1>8. phase = "extra" => pos < offsets[n + 1]
  <2>1. \A k \in Nat \ {0} : start + 4 < start + 4 + 1 + k
    BY <1>1
  <2>2. start + 4 < start + 4 + 1 + stream[start + 4]
    BY <1>3, <2>1
  <2> QED
    BY <1>3, <1>6, <2>2
<1>9. phase = "body" => pos + need = offsets[n + 1]
  BY <1>3, <1>7
<1> QED
  BY <1>2, <1>8, <1>9

\* A reader that takes a packet for one does not panic.
LEMMA InStepNoPanic ==
    ASSUME ReaderInv, NEW n \in 1..Len(offsets), start = offsets[n]
    PROVE  ~ReaderPanics
<1> SUFFICES ASSUME ReaderPanics PROVE FALSE
  OBVIOUS
<1>1. Framing /\ \A m \in Packets : offsets[m] # start
  BY DEF ReaderPanics, NoPacket, Framing
<1>2. WireInv /\ start \in Nat /\ start + 3 <= pos /\ pos \in Nat /\ pos <= Len(stream)
  BY <1>1, Bases DEF ReaderInv, TypeOK, FrameInv
<1>3. offsets[n] < Len(stream)
  BY <1>2, Bases
<1>4. n \in Packets
  BY <1>2, <1>3, BeforeTheEnd
<1> QED
  BY <1>1, <1>4

(***************************************************************************)
(* Silence                                                                 *)
(***************************************************************************)

\* Until something was handed on, the reader is at the first packet, so an end of the
\* stream that finds it idle came before the first byte.
THEOREM BlamesOnSilence == Spec => []BlamedOnSilence
<1>1. Init => SilenceInv
  BY DEF Init, SilenceInv, Base, Searching, Framing
<1>2. ReaderInv /\ SilenceInv /\ [Next]_vars => SilenceInv'
  <2> SUFFICES ASSUME ReaderInv, SilenceInv, [Next]_vars PROVE SilenceInv'
    OBVIOUS
  <2>1. 1 \in 1..Len(offsets) /\ offsets[1] = 0
    BY Offsets DEF ReaderInv, WireInv
  <2>2. phase = "scan" /\ read = <<>> => window \in PREFIXES /\ shifts = 0
    BY <2>1, WindowIsPrefix DEF SilenceInv
  <2>3. CASE SendPacket \/ Arrive \/ Close \/ UNCHANGED vars
    <3>1. UNCHANGED <<phase, read, shifts>> /\ Base' = Base
      BY <2>3, Quiet DEF SendPacket, Arrive, Close, vars
    <3>2. ending' = "KeyOrVersionError" => ending = "KeyOrVersionError" /\ UNCHANGED arrived
      BY <2>3 DEF SendPacket, Arrive, Close, vars, wire
    <3> QED
      BY <3>1, <3>2 DEF SilenceInv
  <2>4. CASE FirstByte \/ Fill \/ PrefixFound \/ Header \/ Extra \/ Body
    <3>1. UNCHANGED <<arrived, read, ending>> /\ Base' = Base
      BY <2>4, Quiet DEF FirstByte, Fill, PrefixFound, Header, Extra, Body, wire
    <3>2. /\ phase' \in {"idle", "fill", "scan"} => phase \in {"idle", "fill"}
          /\ phase' = "scan" => shifts' = 0
      BY <2>4 DEF FirstByte, Fill, PrefixFound, Header, Extra, Body
    <3> QED
      BY <3>1, <3>2 DEF SilenceInv
  <2>5. CASE Shift \/ GiveUpScan
    <3>1. read # <<>>
      BY <2>2, <2>5, ReaderAssumption DEF Shift, GiveUpScan
    <3>2. UNCHANGED <<arrived, read, ending>>
      BY <2>5 DEF Shift, GiveUpScan, wire
    <3> QED
      BY <3>1, <3>2 DEF SilenceInv
  <2>6. CASE Unpack
    <3>1. PICK x \in Nat : read' = Append(read, x)
      BY <2>6, Unpacked
    <3>2. read \in Seq(Nat)
      BY DEF ReaderInv, TypeOK
    <3>3. read' # <<>>
      BY <3>1, <3>2, Appended
    <3> QED
      BY <2>6, <3>3 DEF Unpack, SilenceInv, wire
  <2>7. CASE Timeout
    <3>1. \/ phase' = "ended" /\ ending' = "Timeout"
          \/ read' = Append(read, 0) /\ UNCHANGED ending
      BY <2>7 DEF Timeout
    <3>2. read \in Seq(Nat)
      BY DEF ReaderInv, TypeOK
    <3>3. Append(read, 0) # <<>>
      BY <3>2, Appended
    <3> QED
      BY <2>7, <3>1, <3>3 DEF Timeout, SilenceInv, wire
  <2>8. CASE Eof
    <3>1. /\ UNCHANGED arrived /\ phase' = "ended"
          /\ ending' = "KeyOrVersionError" => phase = "idle" /\ read = <<>> /\ pos = arrived
      BY <2>8 DEF Eof, Waiting, wire
    <3>2. phase = "idle" => Base = pos
      BY DEF Base, Searching, Framing
    <3> QED
      BY <3>1, <3>2 DEF SilenceInv
  <2>9. CASE ReaderPanics
    BY <2>9 DEF ReaderPanics, SilenceInv
  <2> QED
    BY <2>3, <2>4, <2>5, <2>6, <2>7, <2>8, <2>9 DEF Next, ReaderStep
<1>3. SilenceInv => BlamedOnSilence
  BY DEF SilenceInv, BlamedOnSilence
<1> QED
  BY <1>1, <1>2, <1>3, ReaderInvariant, PTL DEF Spec


(***************************************************************************)
(* Punctual streams                                                        *)
(***************************************************************************)

\* Without delays every packet is handed on: the reader stays in step, so no scan
\* moves, and the only waits that time out are for packets that were not sent.
THEOREM PunctualIsComplete == Spec => []PunctualMeansComplete
<1>1. Init => PunctualInv
  <2> SUFFICES ASSUME Init PROVE PunctualInv
    OBVIOUS
  <2>1. offsets = <<0>> /\ read = <<>> /\ Len(read) = 0 /\ phase = "idle" /\ pos = 0
    BY DEF Init
  <2>2. Base = 0
    BY <2>1 DEF Base, Searching, Framing
  <2> QED
    BY <2>1, <2>2 DEF PunctualInv, Init
<1>2. ReaderInv /\ PunctualInv /\ [Next]_vars => PunctualInv'
  <2>0. ReaderInv /\ PunctualInv /\ [Next]_vars /\ delays' = 0 => ending' # "panic"
    <3> SUFFICES ASSUME ReaderInv, PunctualInv, [Next]_vars, delays' = 0 PROVE ending' # "panic"
      OBVIOUS
    <3>1. CASE ReaderPanics
      <4>1. delays = 0 /\ Framing /\ phase # "ended"
        BY <3>1 DEF ReaderPanics, Framing
      <4>2. Len(read) + 1 \in 1..Len(offsets) /\ start = offsets[Len(read) + 1]
        BY <4>1 DEF PunctualInv, Base, Searching, Framing
      <4> QED
        BY <3>1, <4>2, InStepNoPanic
    <3>2. CASE ~ReaderPanics
      <4>1. ending' = "panic" => ending = "panic" /\ (delays' = delays \/ delays' = delays + 1)
        BY <3>2 DEF Next, ReaderStep, SendPacket, Arrive, Close, FirstByte, Fill, PrefixFound, Shift,
           GiveUpScan, Header, Extra, Body, Unpack, Timeout, Eof, vars
      <4>2. delays \in Nat
        BY DEF ReaderInv, TypeOK
      <4> QED
        BY <4>1, <4>2 DEF PunctualInv
    <3> QED
      BY <3>1, <3>2
  <2> SUFFICES ASSUME ReaderInv, PunctualInv, [Next]_vars, delays' = 0, phase' # "ended"
               PROVE  PunctualInv'
    BY <2>0 DEF PunctualInv
  <2> DEFINE k == Len(read)
  <2>1. WireInv /\ read \in Seq(Nat) /\ k \in Nat /\ delays \in Nat
    BY DEF ReaderInv, TypeOK
  <2>2. delays = 0 /\ phase # "ended"
    <3>1. CASE SendPacket \/ Arrive \/ Close \/ UNCHANGED vars
      BY <3>1 DEF SendPacket, Arrive, Close, vars
    <3>2. CASE FirstByte \/ Fill \/ PrefixFound \/ Shift
      BY <3>2 DEF FirstByte, Fill, PrefixFound, Shift
    <3>3. CASE GiveUpScan \/ Header \/ Extra \/ Body \/ Unpack
      BY <3>3 DEF GiveUpScan, Header, Extra, Body, Unpack
    <3>4. CASE Timeout
      BY <2>1, <3>4 DEF Timeout, Waiting
    <3>5. CASE ReaderPanics \/ Eof
      BY <3>5 DEF ReaderPanics, Eof
    <3> QED
      BY <3>1, <3>2, <3>3, <3>4, <3>5 DEF Next, ReaderStep
  <2>3. /\ k + 1 \in 1..Len(offsets) /\ \A i \in 1..k : read[i] = i
        /\ Base = offsets[k + 1] /\ (phase = "scan" => shifts = 0)
    BY <2>2 DEF PunctualInv
  <2>4. ~Shift /\ ~GiveUpScan
    BY <2>3, WindowIsPrefix, ReaderAssumption DEF Shift, GiveUpScan
  <2>5. k + 1 \in 1..Len(offsets') /\ offsets'[k + 1] = offsets[k + 1]
    BY <2>1, <2>3, OffsetsKept
  <2>6. CASE \/ SendPacket \/ Arrive \/ Close \/ UNCHANGED vars
             \/ FirstByte \/ Fill \/ PrefixFound \/ Header \/ Extra \/ Body
    <3>1. Base' = Base /\ read' = read
      BY <2>6, Quiet
    <3>2. phase' = "scan" => shifts' = 0
      BY <2>3, <2>6 DEF SendPacket, Arrive, Close, FirstByte, Fill, PrefixFound, Header, Extra, Body, vars
    <3> QED
      BY <2>0, <2>3, <2>5, <3>1, <3>2 DEF PunctualInv
  <2>7. phase \in {"extra", "body"} => start = offsets[k + 1]
    BY <2>3 DEF Base, Searching, Framing
  <2>8. CASE Unpack
    <3>1. phase = "body" /\ need = 0 /\ phase' = "idle"
      BY <2>8 DEF Unpack
    <3>2. k + 1 \in Packets /\ pos = offsets[k + 2]
      <4>1. k + 1 \in Packets /\ pos + 0 = offsets[(k + 1) + 1]
        BY <2>3, <2>7, <3>1, EndOfPacket
      <4> QED
        BY <2>1, <4>1, Bases
    <3>3. PICK x \in Nat :
              /\ read' = Append(read, x)
              /\ x # 0 => x \in Packets /\ offsets[x] = start /\ offsets[x + 1] = pos
              /\ x = 0 => ~\E n \in Packets : offsets[n] = start /\ offsets[n + 1] = pos
      BY <2>8, Unpacked
    <3>4. x = k + 1
      <4>1. (k + 1) + 1 = k + 2
        BY <2>1
      <4>2. x # 0
        BY <2>7, <3>1, <3>2, <3>3, <4>1
      <4>3. x \in 1..Len(offsets) /\ offsets[x] = offsets[k + 1]
        BY <2>1, <2>7, <3>1, <3>3, <4>2, Offsets
      <4> QED
        BY <2>1, <2>3, <4>3, SameOffset
    <3>5. /\ Len(read') = k + 1 /\ \A i \in 1..k : read'[i] = read[i]
          /\ read'[k + 1] = k + 1
      BY <2>1, <3>3, <3>4, Appended
    <3>6. \A i \in 1..(k + 1) : read'[i] = i
      BY <2>1, <2>3, <3>5
    <3>7. Base' = pos /\ UNCHANGED offsets
      BY <2>8, Leaving
    <3>8. k + 2 \in 1..Len(offsets) /\ (k + 1) + 1 = k + 2
      BY <2>1, <3>2, Offsets DEF Packets
    <3> QED
      BY <2>0, <3>1, <3>2, <3>5, <3>6, <3>7, <3>8 DEF PunctualInv
  <2>9. ~Timeout
    <3> SUFFICES ASSUME Timeout PROVE FALSE
      OBVIOUS
    <3>1. pos = arrived /\ arrived = Len(stream) /\ phase \in {"extra", "body"} /\ ~(phase = "body" /\ need = 0)
      BY <2>2 DEF Timeout, Waiting
    <3>2. /\ k + 1 \in Packets
          /\ phase = "extra" => pos < offsets[(k + 1) + 1]
          /\ phase = "body" => pos + need = offsets[(k + 1) + 1]
      BY <2>3, <2>7, <3>1, EndOfPacket
    <3>3. offsets[(k + 1) + 1] \in Nat /\ offsets[(k + 1) + 1] <= Len(stream)
      BY <2>1, <3>2, Offsets
    <3>4. need \in Nat /\ pos \in Nat
      BY DEF ReaderInv, TypeOK
    <3> QED
      BY <3>1, <3>2, <3>3, <3>4
  <2>10. ~Eof /\ ~ReaderPanics
    BY DEF Eof, ReaderPanics
  <2> QED
    BY <2>4, <2>6, <2>8, <2>9, <2>10 DEF Next, ReaderStep
<1>3. ReaderInv /\ PunctualInv => PunctualMeansComplete
  <2> SUFFICES ASSUME ReaderInv, PunctualInv, delays = 0, phase = "idle"
               PROVE  read = [i \in 1..Len(read) |-> i] /\ pos = offsets[Len(read) + 1]
    BY DEF PunctualMeansComplete, PunctualInv
  <2>1. read \in Seq(Nat) /\ \A i \in 1..Len(read) : read[i] = i
    BY DEF ReaderInv, TypeOK, PunctualInv
  <2>2. read = [i \in 1..Len(read) |-> i]
    BY <2>1
  <2>3. pos = Base
    BY DEF Base, Searching, Framing
  <2> QED
    BY <2>2, <2>3 DEF PunctualInv
<1> QED
  BY <1>1, <1>2, <1>3, ReaderInvariant, PTL DEF Spec


(***************************************************************************)
(* Delays                                                                  *)
(***************************************************************************)

\* Counting packets and errors.
LEMMA Counted ==
    ASSUME NEW S, IsFiniteSet(S), NEW T, NEW x, NEW d \in Nat, Cardinality(S) <= d
    PROVE  /\ T \subseteq S => Cardinality(T) <= d
           /\ T \subseteq S \cup {x} => Cardinality(T) <= d + 1
<1>1. Cardinality(S) \in Nat
  BY FS_CardinalityType
<1>2. T \subseteq S => Cardinality(T) <= Cardinality(S) /\ Cardinality(T) \in Nat
  BY FS_Subset, FS_CardinalityType
<1> DEFINE U == S \cup {x}
<1>3. IsFiniteSet(U) /\ Cardinality(U) \in Nat /\ Cardinality(U) <= Cardinality(S) + 1
  BY <1>1, FS_AddElement, FS_CardinalityType
<1> HIDE DEF U
<1>4. T \subseteq U => Cardinality(T) <= Cardinality(U) /\ Cardinality(T) \in Nat
  BY <1>3, FS_Subset, FS_CardinalityType
<1> QED
  BY <1>1, <1>2, <1>3, <1>4 DEF U

\* The sets that are counted are finite.
LEMMA Finite ==
    ASSUME ReaderInv
    PROVE  IsFiniteSet(Missed) /\ IsFiniteSet(Lost) /\ IsFiniteSet(Gone) /\ IsFiniteSet(Errors)
<1>1. Len(offsets) \in Nat /\ Len(read) \in Nat /\ DOMAIN read = 1..Len(read)
  BY Offsets DEF ReaderInv, TypeOK
<1>2. IsFiniteSet(Packets)
  BY <1>1, FS_Interval DEF Packets
<1>3. IsFiniteSet(1..Len(read))
  BY <1>1, FS_Interval
<1>4. Missed \subseteq Packets /\ Lost \subseteq Packets /\ Errors \subseteq 1..Len(read)
  BY <1>1 DEF Missed, Lost, Errors
<1>5. IsFiniteSet(Missed) /\ IsFiniteSet(Lost)
  BY <1>2, <1>4, FS_Subset
<1>6. IsFiniteSet(Errors)
  BY <1>3, <1>4, FS_Subset
<1> QED
  BY <1>5, <1>6 DEF Gone

\* What one more result changes.
LEMMA OneMore ==
    ASSUME ReaderInv, NEW x \in Nat, read' = Append(read, x)
    PROVE  /\ Handed' = Handed \cup {x}
           /\ x # 0 => Errors' = Errors
           /\ Errors' \subseteq Errors \cup {Len(read) + 1}
<1>1. read \in Seq(Nat) /\ Len(read) \in Nat /\ DOMAIN read = 1..Len(read)
  BY DEF ReaderInv, TypeOK
<1>2. /\ Len(read') = Len(read) + 1 /\ read' \in Seq(Nat)
      /\ \A i \in 1..Len(read) : read'[i] = read[i]
      /\ read'[Len(read) + 1] = x
  BY <1>1, Appended
<1>3. DOMAIN read' = 1..(Len(read) + 1)
  BY <1>2
<1>4. \A i : i \in 1..(Len(read) + 1) <=> i \in 1..Len(read) \/ i = Len(read) + 1
  BY <1>1
<1> QED
  BY <1>1, <1>2, <1>3, <1>4 DEF Handed, Errors

\* Streams only become less clean.
LEMMA CleanBefore == ASSUME ReaderInv, [Next]_vars, Clean', Short' PROVE Clean /\ Short
<1>1. WireInv
  BY DEF ReaderInv
<1>2. Short
  BY <1>1, Offsets, OffsetsKept DEF Short
<1>3. ASSUME NEW i \in 1..(Len(stream) - 2), <<stream[i], stream[i + 1], stream[i + 2]>> \in PREFIXES
      PROVE  \E n \in Packets : offsets[n] = i - 1
  <2>1. Len(stream) \in Nat /\ i \in 1..Len(stream) /\ i + 1 \in 1..Len(stream) /\ i + 2 \in 1..Len(stream)
    BY <1>1, Offsets
  <2>2. stream'[i] = stream[i] /\ stream'[i + 1] = stream[i + 1] /\ stream'[i + 2] = stream[i + 2]
    BY <1>1, <2>1, OffsetsKept
  <2>3. i \in 1..(Len(stream') - 2)
    <3>1. i + 2 \in 1..Len(stream')
      BY <1>1, <2>1, OffsetsKept
    <3> QED
      BY <2>1, <3>1
  <2>4. PICK n \in Packets' : offsets'[n] = i - 1
    BY <1>3, <2>2, <2>3 DEF Clean
  <2>5. n \in 1..Len(offsets)
    <3>1. CASE SendPacket
      <4>1. Len(offsets') = Len(offsets) + 1 /\ Len(offsets) \in Nat
        BY <1>1, <3>1, SendGrows, Offsets
      <4> QED
        BY <4>1 DEF Packets
    <3>2. CASE UNCHANGED offsets
      BY <1>1, <3>2, Offsets DEF Packets
    <3> QED
      BY <3>1, <3>2 DEF Next, ReaderStep, Arrive, Close, FirstByte, Fill, PrefixFound, Shift, GiveUpScan,
         Header, Extra, Body, Unpack, ReaderPanics, Timeout, Eof, wire, vars
  <2>6. offsets[n] = i - 1
    BY <1>1, <2>4, <2>5, OffsetsKept
  <2>7. offsets[n] < Len(stream)
    BY <2>1, <2>6
  <2> QED
    BY <1>1, <2>5, <2>6, <2>7, BeforeTheEnd
<1> QED
  BY <1>2, <1>3 DEF Clean


\* Packets the reader is past are packets it missed, unless it holds one it is about
\* to hand on.
LEMMA LostIsMissed ==
    ASSUME ReaderInv, phase # "ended", ~(phase = "body" /\ need = 0),
           Framing => \E m \in Packets : start = offsets[m]
    PROVE  Lost \subseteq Missed
<1> SUFFICES ASSUME NEW n \in Lost PROVE n \in Missed
  OBVIOUS
<1>1. /\ n \in Packets /\ offsets[n + 1] <= pos /\ \A i \in DOMAIN read : read[i] # n
      /\ read \in Seq(Nat) /\ WireInv
  BY DEF Lost, ReaderInv, TypeOK
<1>2. n \notin Handed
  BY <1>1 DEF Handed
<1>3. /\ offsets[n] \in Nat /\ offsets[n + 1] \in Nat /\ offsets[n] + 5 <= offsets[n + 1] /\ pos \in Nat
      /\ n \in Nat /\ n + 1 \in 1..Len(offsets)
  BY <1>1, Offsets, Bases
<1>4. CASE ~Framing
  <2>1. Base = pos \/ (Base = pos - Len(window) /\ Len(window) \in 1..3)
    BY <1>4 DEF ReaderInv, FrameInv, Base, Searching
  <2>2. offsets[n] < Base
    <3> DEFINE w == Len(window)
    <3>0. Base = pos \/ (Base = pos - w /\ w \in 1..3)
      BY <2>1
    <3> HIDE DEF w
    <3>1. Base >= pos - 3
      <4>1. CASE Base = pos
        BY <1>3, <4>1
      <4>2. CASE Base = pos - w /\ w \in 1..3
        BY <1>3, <4>2
      <4> QED
        BY <3>0, <4>1, <4>2
    <3>2. offsets[n] + 5 <= pos
      BY <1>1, <1>3
    <3> QED
      BY <1>3, <3>1, <3>2, Bases
  <2> QED
    BY <1>1, <1>2, <2>2 DEF Missed
<1>5. CASE Framing
  <2>1. PICK m \in Packets : start = offsets[m]
    BY <1>5
  <2>2. m \in 1..Len(offsets) /\ m \in Nat /\ offsets[m] \in Nat /\ offsets[m] + 5 <= offsets[m + 1]
        /\ m + 1 \in 1..Len(offsets) /\ offsets[m + 1] \in Nat
    BY <1>1, Offsets
  <2>3. pos < offsets[m + 1]
    <3>1. CASE phase = "header"
      <4>1. pos = start + 3
        BY <3>1 DEF ReaderInv, FrameInv
      <4> QED
        BY <2>1, <2>2, <4>1
    <3>2. CASE phase \in {"extra", "body"}
      <4>1. /\ phase = "extra" => pos < offsets[m + 1]
            /\ phase = "body" => pos + need = offsets[m + 1]
        BY <2>1, <2>2, <3>2, EndOfPacket
      <4>2. need \in Nat
        BY DEF ReaderInv, TypeOK
      <4> QED
        BY <1>3, <2>2, <3>2, <4>1, <4>2
    <3> QED
      BY <1>5, <3>1, <3>2 DEF Framing
  <2>4. n < m
    <3>1. SUFFICES ASSUME m <= n PROVE FALSE
      BY <1>3, <2>2
    <3>2. offsets[m + 1] <= offsets[n + 1]
      <4>1. m + 1 < n + 1 => offsets[m + 1] + 5 <= offsets[n + 1]
        BY <1>1, <1>3, <2>2 DEF WireInv
      <4> QED
        BY <1>3, <2>2, <3>1, <4>1
    <3> QED
      BY <1>1, <1>3, <2>2, <2>3, <3>2
  <2>5. offsets[n] + 5 <= offsets[m]
    BY <1>1, <1>3, <2>2, <2>4, Offsets DEF WireInv
  <2>6. offsets[n] < Base
    <3>1. Base = offsets[m]
      BY <1>5, <2>1 DEF Base, Searching, Framing
    <3> QED
      BY <1>3, <2>2, <2>5, <3>1
  <2> QED
    BY <1>1, <1>2, <2>6 DEF Missed
<1> QED
  BY <1>4, <1>5

\* The set of packets counted as lost stays, or gains the one being read.
LEMMA QuietGone ==
    ASSUME ReaderInv,
           \/ SendPacket \/ Arrive \/ Close \/ UNCHANGED vars
           \/ FirstByte \/ Fill \/ PrefixFound \/ Header \/ Extra \/ Body
    PROVE  Gone' \subseteq Gone /\ Errors' = Errors
<1>1. Base' = Base /\ read' = read
  BY Quiet
<1>2. Errors' = Errors /\ Handed' = Handed
  BY <1>1 DEF Errors, Handed
<1>3. WireInv /\ Len(offsets) \in Nat /\ Base \in Nat /\ pos \in Nat /\ Base <= pos /\ pos <= Len(stream)
      /\ Len(stream) \in Nat
  BY Offsets, Bases DEF ReaderInv
<1>4. CASE SendPacket
  <2>1. UNCHANGED <<phase, pos>>
    BY <1>4 DEF SendPacket
  <2>2. /\ WireInv' /\ Len(offsets') = Len(offsets) + 1
        /\ \A n \in 1..Len(offsets) : offsets'[n] = offsets[n]
    BY <1>3, <1>4, SendGrows
  <2>3. Packets' = 1..Len(offsets) /\ Packets = 1..(Len(offsets) - 1)
    BY <1>3, <2>2 DEF Packets
  <2>4. offsets'[Len(offsets)] = Len(stream)
    <3>1. Len(offsets) \in 1..Len(offsets)
      BY <1>3, Offsets
    <3>2. offsets[Len(offsets)] = Len(stream)
      BY <1>3 DEF WireInv
    <3> QED
      BY <2>2, <3>1, <3>2
  <2>5. offsets'[Len(offsets) + 1] \in Nat /\ Len(stream) < offsets'[Len(offsets) + 1]
    <3>1. /\ Len(offsets) \in 1..Len(offsets') /\ Len(offsets) + 1 \in 1..Len(offsets')
          /\ offsets'[Len(offsets) + 1] \in Nat
      <4>1. offsets' \in Seq(Nat) /\ Len(offsets) \in Nat \ {0}
        BY <1>3, <2>2, Offsets DEF WireInv
      <4> QED
        BY <2>2, <4>1
    <3>2. offsets'[Len(offsets)] + 5 <= offsets'[Len(offsets) + 1]
      <4>1. Len(offsets) < Len(offsets) + 1
        BY <1>3
      <4> QED
        BY <2>2, <3>1, <4>1 DEF WireInv
    <3> QED
      BY <1>3, <2>4, <3>1, <3>2
  <2>6. ASSUME NEW n \in Packets', offsets'[n] < Base \/ offsets'[n + 1] <= pos
        PROVE  n \in Packets /\ offsets'[n] = offsets[n] /\ offsets'[n + 1] = offsets[n + 1]
    <3>1. n # Len(offsets)
      <4>1. CASE offsets'[n] < Base
        BY <1>3, <2>4, <4>1
      <4>2. CASE offsets'[n + 1] <= pos
        BY <1>3, <2>5, <4>2
      <4> QED
        BY <2>6, <4>1, <4>2
    <3> QED
      BY <1>3, <2>2, <2>3, <3>1
  <2> QED
    BY <1>1, <1>2, <2>1, <2>6 DEF Gone, Missed, Lost
<1>5. CASE UNCHANGED <<stream, offsets>> /\ (phase = "ended" => UNCHANGED <<pos, phase>>) /\ phase' # "ended"
  BY <1>1, <1>2, <1>5 DEF Gone, Missed, Lost, Packets
<1>6. CASE UNCHANGED <<offsets, pos, phase>>
  BY <1>1, <1>2, <1>6 DEF Gone, Missed, Lost, Packets
<1>7. FirstByte \/ Fill \/ PrefixFound \/ Header \/ Extra \/ Body =>
          UNCHANGED <<stream, offsets>> /\ phase # "ended" /\ phase' # "ended"
  BY DEF FirstByte, Fill, PrefixFound, Header, Extra, Body, wire
<1>8. Arrive \/ Close \/ UNCHANGED vars => UNCHANGED <<offsets, pos, phase>>
  BY DEF Arrive, Close, wire, vars
<1> QED
  BY <1>4, <1>5, <1>6, <1>7, <1>8


\* In a stream without prefixes inside packets, whose packets are not too long for a
\* scan, no more packets are lost and no more errors reported than waits were cut
\* short: a reader thrown out of step is inside the packet it lost, and its scan ends
\* where the next one begins.
THEOREM DelaysAreCheap == Spec => []DelaysCostOnePacket
<1>1. Init => DelayInv
  <2> SUFFICES ASSUME Init PROVE DelayInv
    OBVIOUS
  <2>1. /\ offsets = <<0>> /\ Packets = {} /\ read = <<>> /\ phase = "idle" /\ pos = 0 /\ delays = 0
    BY DEF Init, Packets
  <2>2. Errors = {} /\ Gone = {} /\ Base = 0 /\ ~Framing
    BY <2>1 DEF Errors, Gone, Missed, Base, Searching, Framing
  <2>3. 1 \in 1..Len(offsets) /\ offsets[1] = 0
    BY <2>1
  <2> QED
    BY <2>1, <2>2, <2>3, FS_EmptySet DEF DelayInv, Init
<1>2. ReaderInv /\ DelayInv /\ [Next]_vars => DelayInv'
  <2> SUFFICES ASSUME ReaderInv, DelayInv, [Next]_vars, Clean', Short'
               PROVE  DelayInv'
    BY DEF DelayInv
  <2>1. Clean /\ Short
    BY CleanBefore
  <2>2. /\ Cardinality(Errors) <= delays /\ Cardinality(Gone) <= delays
        /\ Framing => \E n \in Packets : start = offsets[n]
        /\ phase \in {"idle", "fill", "scan"} =>
               \/ \E n \in 1..Len(offsets) : Base = offsets[n]
               \/ \E n \in Packets : OutOfStep(n)
        /\ phase = "scan" => shifts < ScanLimit
    BY <2>1 DEF DelayInv
  <2>3. WireInv /\ delays \in Nat /\ IsFiniteSet(Gone) /\ IsFiniteSet(Errors)
    BY Finite DEF ReaderInv, TypeOK
  <2>4. /\ \A n \in 1..Len(offsets) : n \in 1..Len(offsets') /\ offsets'[n] = offsets[n]
        /\ \A n \in Packets : /\ n \in Packets' /\ n \in 1..Len(offsets) /\ n + 1 \in 1..Len(offsets)
                              /\ offsets'[n] = offsets[n] /\ offsets'[n + 1] = offsets[n + 1]
                              /\ offsets[n] \in Nat /\ offsets[n + 1] \in Nat
    BY <2>3, Offsets, OffsetsKept
  <2>5. Base \in Nat /\ pos \in Nat /\ Base <= pos
    BY Bases
  <2>13. ~ReaderPanics
    <3>1. CASE Framing
      <4>1. PICK n \in Packets : start = offsets[n]
        BY <2>2, <3>1
      <4> QED
        BY <2>4, <4>1, InStepNoPanic
    <3>2. CASE ~Framing
      BY <3>2 DEF ReaderPanics, Framing
    <3> QED
      BY <3>1, <3>2
  <2>14. ending' # "panic"
    <3>1. ending # "panic"
      BY <2>1 DEF DelayInv
    <3> QED
      BY <2>13, <3>1 DEF Next, ReaderStep, SendPacket, Arrive, Close, FirstByte, Fill, PrefixFound, Shift,
         GiveUpScan, Header, Extra, Body, Unpack, Timeout, Eof, vars
  <2>6. CASE SendPacket \/ Arrive \/ Close \/ UNCHANGED vars
    <3>1. UNCHANGED <<phase, start, shifts, delays>> /\ Base' = Base
      <4>1. UNCHANGED <<phase, start, shifts, delays>>
        BY <2>6 DEF SendPacket, Arrive, Close, vars
      <4>2. Base' = Base
        BY <2>6, Quiet, Zenon
      <4> QED
        BY <4>1, <4>2
    <3>2. Gone' \subseteq Gone /\ Errors' = Errors
      BY <2>6, QuietGone
    <3>3. Cardinality(Gone') <= delays
      BY <2>2, <2>3, <3>2, Counted, Zenon
    <3>4. \A n \in Packets : OutOfStep(n) => n \in Packets' /\ OutOfStep(n)'
      BY <2>4, <3>1 DEF OutOfStep, Skipped
    <3> QED
      BY <2>2, <2>4, <3>1, <3>2, <3>3, <3>4, <2>14 DEF DelayInv, Framing
  <2>7. CASE FirstByte \/ Fill \/ PrefixFound \/ Header \/ Extra \/ Body
    <3>1. UNCHANGED <<offsets, delays>> /\ Base' = Base
      BY <2>7, Quiet DEF FirstByte, Fill, PrefixFound, Header, Extra, Body, wire
    <3>2. Gone' \subseteq Gone /\ Errors' = Errors
      BY <2>7, QuietGone
    <3>3. Cardinality(Gone') <= delays'
      BY <2>2, <2>3, <3>1, <3>2, Counted, Zenon
    <3>4. CASE FirstByte \/ Fill
      <4>1. /\ phase \in {"idle", "fill"} /\ phase' \in {"fill", "scan"}
            /\ phase' = "scan" => shifts' = 0
        BY <3>4 DEF FirstByte, Fill
      <4>2. Skipped = 0 /\ Skipped' = 0 /\ ~Framing'
        BY <4>1 DEF Skipped, Framing
      <4>3. \A n \in Packets : OutOfStep(n) => n \in Packets' /\ OutOfStep(n)'
        BY <2>4, <3>1, <4>2 DEF OutOfStep
      <4> QED
        BY <2>2, <2>4, <3>1, <3>2, <3>3, <4>1, <4>2, <4>3, ReaderAssumption, <2>14 DEF DelayInv
    <3>5. CASE PrefixFound \/ Header \/ Extra \/ Body
      <4>1. Framing' /\ phase' \notin {"idle", "fill", "scan"}
        BY <3>5 DEF PrefixFound, Header, Extra, Body, Framing
      <4>2. \E n \in Packets : start' = offsets[n]
        <5>1. CASE PrefixFound
          <6>1. /\ start' = Base /\ window = <<window[1], window[2], window[3]>> /\ window \in PREFIXES
                /\ Base = pos - 3 /\ Base + 3 <= Len(stream) /\ Len(stream) \in Nat
                /\ \A i \in 1..3 : window[i] = stream[Base + i]
            <7>1. /\ window \in Seq(Int) /\ Len(window) = 3 /\ Base = pos - 3
                  /\ \A i \in 1..3 : window[i] = stream[Base + i]
              <8>1. phase = "scan" /\ Searching
                BY <5>1 DEF PrefixFound, Searching
              <8>2. Len(window) = 3 /\ \A i \in 1..Len(window) : window[i] = stream[Base + i]
                BY <8>1 DEF ReaderInv, FrameInv
              <8>3. window \in Seq(Int)
                BY DEF ReaderInv, TypeOK
              <8>4. Base = pos - Len(window)
                BY <8>1 DEF Base
              <8> QED
                BY <8>2, <8>3, <8>4
            <7>2. start' = pos - 3 /\ window \in PREFIXES
              BY <5>1 DEF PrefixFound
            <7>3. window = <<window[1], window[2], window[3]>>
              BY <7>2, PrefixBytes
            <7>4. Base + 3 <= Len(stream) /\ Len(stream) \in Nat
              BY <7>1, Bases
            <7> QED
              BY <7>1, <7>2, <7>3, <7>4
          <6> DEFINE i == Base + 1
          <6>2. i \in 1..(Len(stream) - 2) /\ i - 1 = Base /\ i + 1 = Base + 2 /\ i + 2 = Base + 3
            BY <2>5, <6>1
          <6>3. <<stream[i], stream[i + 1], stream[i + 2]>> \in PREFIXES
            <7>1. window[1] = stream[i] /\ window[2] = stream[i + 1] /\ window[3] = stream[i + 2]
              BY <6>1, <6>2
            <7> QED
              BY <6>1, <7>1
          <6>4. \E n \in Packets : offsets[n] = i - 1
            BY <2>1, <6>2, <6>3 DEF Clean
          <6> QED
            BY <6>1, <6>2, <6>4
        <5>2. CASE Header \/ Extra \/ Body
          BY <2>2, <5>2 DEF Header, Extra, Body, Framing
        <5> QED
          BY <3>5, <5>1, <5>2
      <4>3. \E n \in Packets' : start' = offsets'[n]
        BY <2>4, <4>2
      <4> QED
        BY <2>2, <3>1, <3>2, <3>3, <4>1, <4>3, <2>14 DEF DelayInv
    <3> QED
      BY <2>7, <3>4, <3>5

  <2>8. CASE Shift
    <3>1. /\ phase = "scan" /\ phase' = "scan" /\ shifts' = shifts + 1 /\ window \notin PREFIXES
          /\ UNCHANGED <<offsets, read, delays>> /\ Base' = Base + 1
      BY <2>8, ShiftFrames DEF Shift, wire
    <3>2. \A m \in 1..Len(offsets) : Base # offsets[m]
      BY <3>1, WindowIsPrefix
    <3>3. PICK n \in Packets : OutOfStep(n)
      BY <2>2, <3>1, <3>2
    <3>4. Gone' \subseteq Gone /\ Errors' = Errors
      <4>1. ASSUME NEW m \in Packets, offsets[m] < Base + 1 PROVE offsets[m] < Base
        BY <2>4, <2>5, <3>2, <4>1
      <4> QED
        BY <3>1, <4>1 DEF Gone, Missed, Handed, Errors, Packets
    <3>5. Cardinality(Gone') <= delays
      BY <2>2, <2>3, <3>4, Counted, Zenon
    <3>6. shifts \in Nat /\ ScanLimit \in Nat /\ offsets[n] \in Nat /\ offsets[n + 1] \in Nat
      BY <2>4, ReaderAssumption DEF ReaderInv, TypeOK
    <3>7. offsets[n] + 4 <= Base - shifts /\ Base < offsets[n + 1] /\ offsets[n + 1] - offsets[n] < ScanLimit + 4
      BY <2>1, <3>1, <3>3 DEF OutOfStep, Skipped, Short
    <3>8. shifts' < ScanLimit
      BY <2>5, <3>1, <3>6, <3>7
    <3>9. offsets[n] + 4 <= Base' - shifts' /\ (Base' < offsets[n + 1] \/ Base' = offsets[n + 1])
      BY <2>5, <3>1, <3>6, <3>7
    <3>10. OutOfStep(n)' \/ Base' = offsets'[n + 1]
      BY <3>1, <3>9 DEF OutOfStep, Skipped
    <3> QED
      BY <2>2, <2>4, <3>1, <3>4, <3>5, <3>8, <3>10, <2>14 DEF DelayInv, Framing
  <2>9. ~GiveUpScan
    BY <2>2, ReaderAssumption DEF GiveUpScan
  <2>10. CASE Unpack
    <3>1. /\ phase = "body" /\ need = 0 /\ phase' = "idle" /\ UNCHANGED <<offsets, delays>> /\ Base' = pos
      BY <2>10, Leaving DEF Unpack
    <3>2. PICK n \in Packets : start = offsets[n]
      BY <2>2, <3>1 DEF Framing
    <3>3. pos = offsets[n + 1]
      <4>1. pos + 0 = offsets[n + 1]
        BY <2>4, <3>1, <3>2, EndOfPacket
      <4> QED
        BY <2>5, <4>1
    <3>4. PICK x \in Nat :
              /\ read' = Append(read, x)
              /\ x # 0 => x \in Packets /\ offsets[x] = start /\ offsets[x + 1] = pos
              /\ x = 0 => ~\E m \in Packets : offsets[m] = start /\ offsets[m + 1] = pos
      BY <2>10, Unpacked
    <3>5. x # 0 /\ x = n
      <4>1. x # 0
        BY <3>2, <3>3, <3>4
      <4>2. x \in 1..Len(offsets) /\ n \in 1..Len(offsets) /\ offsets[x] = offsets[n]
        BY <2>4, <3>2, <3>4, <4>1
      <4> QED
        BY <2>3, <4>1, <4>2, SameOffset
    <3>6. Errors' = Errors /\ Handed' = Handed \cup {n}
      BY <3>4, <3>5, OneMore
    <3>7. Base = offsets[n]
      BY <3>1, <3>2 DEF Base, Searching, Framing
    <3>8. ASSUME NEW m \in Packets, offsets[m] < offsets[n + 1], m # n PROVE offsets[m] < offsets[n]
      <4>1. /\ m \in Nat /\ n \in Nat /\ m \in 1..Len(offsets) /\ n \in 1..Len(offsets)
            /\ n + 1 \in 1..Len(offsets)
            /\ offsets[m] \in Nat /\ offsets[n] \in Nat /\ offsets[n + 1] \in Nat
        BY <2>4
      <4>2. /\ m < n => offsets[m] + 5 <= offsets[n]
            /\ n + 1 < m => offsets[n + 1] + 5 <= offsets[m]
        BY <2>3, <4>1 DEF WireInv
      <4>3. m # n + 1
        BY <3>8, <4>1
      <4>4. m < n
        BY <3>8, <4>1, <4>2, <4>3
      <4> QED
        BY <4>1, <4>2, <4>4
    <3>9. Gone' \subseteq Gone
      BY <3>1, <3>3, <3>6, <3>7, <3>8 DEF Gone, Missed, Packets
    <3>10. Cardinality(Gone') <= delays
      BY <2>2, <2>3, <3>9, Counted, Zenon
    <3>11. n + 1 \in 1..Len(offsets') /\ Base' = offsets'[n + 1]
      BY <2>4, <3>1, <3>3
    <3> QED
      BY <2>2, <3>1, <3>6, <3>10, <3>11, <2>14 DEF DelayInv, Framing
  <2>11. CASE Timeout /\ phase \in {"extra", "body"}
    <3>1. /\ phase' = "idle" /\ read' = Append(read, 0) /\ UNCHANGED <<stream, offsets>> /\ Base' = pos
          /\ pos = arrived /\ ~(phase = "body" /\ need = 0)
          /\ IF arrived = Len(stream) THEN UNCHANGED delays ELSE delays' = delays + 1
      BY <2>11, Leaving DEF Timeout, Waiting
    <3>2. PICK n \in Packets : start = offsets[n]
      BY <2>2, <2>11 DEF Framing
    <3>3. pos < offsets[n + 1]
      <4>1. need \in Nat
        BY DEF ReaderInv, TypeOK
      <4>2. /\ phase = "extra" => pos < offsets[n + 1]
            /\ phase = "body" => pos + need = offsets[n + 1]
        BY <2>4, <2>11, <3>2, EndOfPacket
      <4> QED
        BY <2>4, <2>5, <2>11, <3>1, <4>1, <4>2
    <3>4. delays' = delays + 1
      <4>1. offsets[n + 1] <= Len(stream) /\ Len(stream) \in Nat
        BY <2>3, <2>4, Offsets
      <4> QED
        BY <2>4, <2>5, <3>1, <3>3, <4>1
    <3>5. Handed' = Handed \cup {0} /\ Errors' \subseteq Errors \cup {Len(read) + 1}
      BY <3>1, OneMore
    <3>6. Base = offsets[n] /\ offsets[n] + 4 <= pos
      <4>1. start + 4 <= pos
        <5>1. /\ phase = "extra" => pos = start + 4
              /\ phase = "body" => pos >= start + 4 + Extras(start)
              /\ start \in Nat
          BY DEF ReaderInv, TypeOK, FrameInv
        <5>2. Extras(start) \in {0, 1}
          BY DEF Extras
        <5> QED
          BY <2>5, <2>11, <5>1, <5>2
      <4> QED
        BY <2>11, <3>2, <4>1 DEF Base, Searching, Framing
    <3>7. ASSUME NEW m \in Packets, offsets[m] < pos, m # n PROVE offsets[m] < offsets[n]
      <4>1. /\ m \in Nat /\ n \in Nat /\ m \in 1..Len(offsets) /\ n \in 1..Len(offsets)
            /\ n + 1 \in 1..Len(offsets)
            /\ offsets[m] \in Nat /\ offsets[n] \in Nat /\ offsets[n + 1] \in Nat
        BY <2>4
      <4>2. /\ m < n => offsets[m] + 5 <= offsets[n]
            /\ n + 1 < m => offsets[n + 1] + 5 <= offsets[m]
        BY <2>3, <4>1 DEF WireInv
      <4>3. m # n + 1
        BY <2>5, <3>3, <3>7, <4>1
      <4>4. m < n
        BY <2>5, <3>3, <3>7, <4>1, <4>2, <4>3
      <4> QED
        BY <4>1, <4>2, <4>4
    <3>8. Gone' \subseteq Gone \cup {n}
      BY <2>11, <3>1, <3>5, <3>6, <3>7 DEF Gone, Missed, Packets
    <3>9. Cardinality(Gone') <= delays + 1 /\ Cardinality(Errors') <= delays + 1
      BY <2>2, <2>3, <3>5, <3>8, Counted, Zenon
    <3>10. n \in Packets' /\ OutOfStep(n)'
      <4>1. Skipped' = 0 /\ pos - 0 = pos
        BY <2>5, <3>1 DEF Skipped
      <4> QED
        BY <2>4, <3>1, <3>3, <3>6, <4>1 DEF OutOfStep
    <3> QED
      BY <3>1, <3>4, <3>9, <3>10, <2>14 DEF DelayInv, Framing
  <2>12. CASE Eof \/ (Timeout /\ phase \notin {"extra", "body"})
    <3>1. /\ phase' = "ended" /\ phase # "ended" /\ UNCHANGED <<offsets, pos, read>>
          /\ ~(phase = "body" /\ need = 0) /\ (delays' = delays \/ delays' = delays + 1)
      BY <2>12 DEF Eof, Timeout, Waiting, wire
    <3>2. Lost \subseteq Missed
      BY <2>2, <3>1, LostIsMissed
    <3>3. Gone' \subseteq Gone /\ Errors' = Errors
      BY <3>1, <3>2 DEF Gone, Lost, Errors, Packets
    <3>4. Cardinality(Gone') <= delays /\ Cardinality(Gone') <= delays + 1 /\ Cardinality(Errors) <= delays + 1
      BY <2>2, <2>3, <3>3, Counted, Zenon
    <3> QED
      BY <2>2, <3>1, <3>3, <3>4, <2>14 DEF DelayInv, Framing
  <2> QED
    BY <2>6, <2>7, <2>8, <2>9, <2>10, <2>11, <2>12, <2>13 DEF Next, ReaderStep
<1>3. ReaderInv /\ DelayInv => DelaysCostOnePacket
  <2> SUFFICES ASSUME ReaderInv, DelayInv, Clean, Short, phase # "body"
               PROVE  Cardinality(Lost) <= delays /\ Cardinality(Errors) <= delays
    BY DEF DelaysCostOnePacket, DelayInv
  <2>1. /\ Cardinality(Errors) <= delays /\ Cardinality(Gone) <= delays
        /\ Framing => \E n \in Packets : start = offsets[n]
    BY DEF DelayInv
  <2>2. delays \in Nat /\ IsFiniteSet(Gone)
    BY Finite DEF ReaderInv, TypeOK
  <2>3. Lost \subseteq Gone
    BY <2>1, LostIsMissed DEF Gone
  <2> QED
    BY <2>1, <2>2, <2>3, Counted, Zenon
<1> QED
  BY <1>1, <1>2, <1>3, ReaderInvariant, PTL DEF Spec


=============================================================================
