-------------------------- MODULE ReceivePathProofs --------------------------
(***************************************************************************)
(* Machine-checked proofs about ReceivePath, for every frame length,       *)
(* buffer size, prefetch, set of packet sizes and length of the stream.    *)
(***************************************************************************)
EXTENDS ReceivePath, SequenceTheorems, TLAPS

USE ReceivePathAssumption DEF ReceivePathAssumption

\* What is still to be cut into frames.
Held == IF rx = "push" THEN data ELSE rx_leftover

\* It is the end of the stream, and starts where a frame does.
Carry ==
  /\ \E b \in Nat : sent = b * FrameSamples + Len(Held)
  /\ \A i \in 1 .. Len(Held) : Held[i] = Octet((sent - Len(Held)) + i)

\* Which of the two paths the carry-over is on.
Paths ==
  /\ rx = "push" => rx_leftover = <<>> \/ rx_leftover = data
  /\ rx # "push" => Len(rx_leftover) < FrameSamples /\ data = <<>> /\ cut = 0

\* The inductive invariant.
IInv == TypeOK /\ Understood /\ Carry /\ Paths /\ BufferIsLatest

-----------------------------------------------------------------------------
(* The codec                                                               *)

\* Toggling bits leaves an octet an octet.
LEMMA ToggleType ==
  ASSUME NEW b \in 0 .. 255
  PROVE  Toggle(b) \in 0 .. 255
BY DEF Toggle

\* decodeSample is the A-law of G.711, for every code: segment by segment, the
\* table of shifts is the power of two of the standard.
LEMMA DecodeIsLinear ==
  ASSUME NEW c \in Codes
  PROVE  decodeSample(c) = Linear(c) /\ decodeSample(c) \in Samples /\ decodeSample(c) # 0
<1>1. PICK a \in 0 .. 255 : a = Toggle(c) BY ToggleType DEF Codes
<1>2. PICK m, e : m = a % 16 /\ e = (a \div 16) % 8 OBVIOUS
<1>3. m \in 0 .. 15 /\ e \in 0 .. 7 BY <1>2
<1>4. PICK v : v = IF e = 0 THEN 8 * (2 * m + 1) ELSE 2 ^ (e + 2) * (2 * m + 33)
  OBVIOUS
<1>5. v = Magnitude(a) /\ v \in Int /\ 0 < v /\ v <= 32767
  <2>0. /\ e = 0 => Magnitude(a) = 16 * m + 8
        /\ e = 1 => Magnitude(a) = 16 * m + 264
        /\ e \notin {0, 1} => Magnitude(a) = (16 * m + 264) * 2 ^ (e - 1)
    BY <1>2 DEF Magnitude
  <2>1. CASE e = 0
    <3>1. v = 8 * (2 * m + 1) BY <1>4, <2>1
    <3> QED BY <1>3, <2>0, <2>1, <3>1
  <2>2. CASE e = 1
    <3>1. 2 ^ (e + 2) = 8 BY <2>2
    <3>2. v = 8 * (2 * m + 33) BY <1>4, <2>2, <3>1
    <3> QED BY <1>3, <2>0, <2>2, <3>2
  <2>3. CASE e = 2
    <3>1. 2 ^ (e + 2) = 16 /\ 2 ^ (e - 1) = 2 BY <2>3
    <3>2. v = 16 * (2 * m + 33) BY <1>4, <2>3, <3>1
    <3>3. Magnitude(a) = (16 * m + 264) * 2 BY <2>0, <2>3, <3>1
    <3> QED BY <1>3, <3>2, <3>3
  <2>4. CASE e = 3
    <3>1. 2 ^ (e + 2) = 32 /\ 2 ^ (e - 1) = 4 BY <2>4
    <3>2. v = 32 * (2 * m + 33) BY <1>4, <2>4, <3>1
    <3>3. Magnitude(a) = (16 * m + 264) * 4 BY <2>0, <2>4, <3>1
    <3> QED BY <1>3, <3>2, <3>3
  <2>5. CASE e = 4
    <3>1. 2 ^ (e + 2) = 64 /\ 2 ^ (e - 1) = 8 BY <2>5
    <3>2. v = 64 * (2 * m + 33) BY <1>4, <2>5, <3>1
    <3>3. Magnitude(a) = (16 * m + 264) * 8 BY <2>0, <2>5, <3>1
    <3> QED BY <1>3, <3>2, <3>3
  <2>6. CASE e = 5
    <3>1. 2 ^ (e + 2) = 128 /\ 2 ^ (e - 1) = 16 BY <2>6
    <3>2. v = 128 * (2 * m + 33) BY <1>4, <2>6, <3>1
    <3>3. Magnitude(a) = (16 * m + 264) * 16 BY <2>0, <2>6, <3>1
    <3> QED BY <1>3, <3>2, <3>3
  <2>7. CASE e = 6
    <3>1. 2 ^ (e + 2) = 256 /\ 2 ^ (e - 1) = 32 BY <2>7
    <3>2. v = 256 * (2 * m + 33) BY <1>4, <2>7, <3>1
    <3>3. Magnitude(a) = (16 * m + 264) * 32 BY <2>0, <2>7, <3>1
    <3> QED BY <1>3, <3>2, <3>3
  <2>8. CASE e = 7
    <3>1. 2 ^ (e + 2) = 512 /\ 2 ^ (e - 1) = 64 BY <2>8
    <3>2. v = 512 * (2 * m + 33) BY <1>4, <2>8, <3>1
    <3>3. Magnitude(a) = (16 * m + 264) * 64 BY <2>0, <2>8, <3>1
    <3> QED BY <1>3, <3>2, <3>3
  <2> QED BY <1>3, <2>1, <2>2, <2>3, <2>4, <2>5, <2>6, <2>7, <2>8
<1>6. decodeSample(c) = IF a >= 128 THEN v ELSE -v BY <1>1, <1>5 DEF decodeSample
<1>7. Linear(c) = IF a \div 128 = 1 THEN v ELSE -v BY <1>1, <1>2, <1>4 DEF Linear
<1>8. a \div 128 = 1 <=> a >= 128 OBVIOUS
<1>9. -v \in Samples /\ v \in Samples
  <2>1. 2 ^ 15 = 32768 OBVIOUS
  <2> QED BY <1>5, <2>1 DEF Samples
<1>10. v # 0 /\ -v # 0 BY <1>5
<1> QED BY <1>6, <1>7, <1>8, <1>9, <1>10

LEMMA OctetType == \A k \in Nat : Octet(k) \in Codes /\ Octet(k) \in Nat
<1>1. 0 \in Codes /\ \A c \in Codes : c \in Nat BY DEF Codes
<1>2. \A k \in 1 .. MaxOctets : Audio[k] \in Codes BY ReceivePathAssumption
<1> QED BY <1>1, <1>2 DEF Octet

-----------------------------------------------------------------------------
(* Sequences                                                               *)

\* Part of a sequence.
LEMMA Part ==
  ASSUME NEW S, NEW s \in Seq(S), NEW k \in Nat, NEW l \in Nat, 1 <= k, k <= l + 1, l <= Len(s)
  PROVE  /\ SubSeq(s, k, l) \in Seq(S) /\ Len(SubSeq(s, k, l)) = l + 1 - k
         /\ \A j \in 1 .. l + 1 - k : SubSeq(s, k, l)[j] = s[(k - 1) + j]
OBVIOUS

\* The n elements behind the first m.
LEMMA Piece ==
  ASSUME NEW s \in Seq(Nat), NEW m \in Nat, NEW n \in Nat, m + n <= Len(s)
  PROVE  \A j \in 1 .. n : SubSeq(s, m + 1, m + n)[j] = s[m + j]
OBVIOUS

-----------------------------------------------------------------------------
(* Packets as sequences of octets                                          *)

\* The parts of a marked packet.
HasParts(u, o, f, ins, app) ==
  /\ u \in Seq(Nat) /\ Len(u) = Len(o) + Len(ins) + Len(app) /\ u[1] = o[1] + f
  /\ \A j \in 2 .. HeaderOctets : u[j] = o[j]
  /\ \A j \in 1 .. Len(ins) : u[HeaderOctets + j] = ins[j]
  /\ \A j \in 1 .. Len(o) - HeaderOctets : u[HeaderOctets + Len(ins) + j] = o[HeaderOctets + j]
  /\ \A j \in 1 .. Len(app) : u[Len(o) + Len(ins) + j] = app[j]

LEMMA MarkedShape ==
  ASSUME NEW o \in Seq(Nat), HeaderOctets <= Len(o), NEW f \in Nat, o[1] \in Nat,
         NEW ins \in Seq(Nat), NEW app \in Seq(Nat)
  PROVE  HasParts(Marked(o, f, ins, app), o, f, ins, app)
<1>0. PICK u : u = Marked(o, f, ins, app) OBVIOUS
<1>1. PICK k : k = HeaderOctets OBVIOUS
<1>2. k \in Nat /\ k >= 2 /\ k <= Len(o) BY <1>1 DEF HeaderOctets
<1>3. PICK x, h, p : x = o[1] + f /\ h = SubSeq(o, 2, k) /\ p = SubSeq(o, k + 1, Len(o)) OBVIOUS
<1>4. x \in Nat BY <1>3
<1>5. h \in Seq(Nat) /\ Len(h) = k - 1 /\ \A j \in 1 .. k - 1 : h[j] = o[1 + j]
  <2>1. SubSeq(o, 2, k) \in Seq(Nat) /\ Len(SubSeq(o, 2, k)) = k - 1 BY <1>2
  <2>2. \A j \in 1 .. k - 1 : SubSeq(o, 2, k)[j] = o[1 + j] BY <1>2
  <2> QED BY <1>3, <2>1, <2>2
<1>6. p \in Seq(Nat) /\ Len(p) = Len(o) - k /\ \A j \in 1 .. Len(o) - k : p[j] = o[k + j]
  <2>1. SubSeq(o, k + 1, Len(o)) \in Seq(Nat) /\ Len(SubSeq(o, k + 1, Len(o))) = Len(o) - k
    BY <1>2
  <2>2. \A j \in 1 .. Len(o) - k : SubSeq(o, k + 1, Len(o))[j] = o[k + j] BY <1>2
  <2> QED BY <1>3, <2>1, <2>2
<1>7. u = <<x>> \o h \o ins \o p \o app BY <1>0, <1>1, <1>3 DEF Marked
<1>8. /\ u \in Seq(Nat) /\ Len(u) = 1 + Len(h) + Len(ins) + Len(p) + Len(app) /\ u[1] = x
      /\ \A j \in 1 .. Len(h) : u[1 + j] = h[j]
      /\ \A j \in 1 .. Len(ins) : u[1 + Len(h) + j] = ins[j]
      /\ \A j \in 1 .. Len(p) : u[1 + Len(h) + Len(ins) + j] = p[j]
      /\ \A j \in 1 .. Len(app) : u[1 + Len(h) + Len(ins) + Len(p) + j] = app[j]
  <2>0. h \in Seq(Nat) /\ p \in Seq(Nat) BY <1>5, <1>6
  <2>1. u \in Seq(Nat) /\ Len(u) = 1 + Len(h) + Len(ins) + Len(p) + Len(app) /\ u[1] = x
    BY <1>4, <1>7, <2>0
  <2>2. \A j \in 1 .. Len(h) : u[1 + j] = h[j] BY <1>4, <1>7, <2>0, SMTT(30)
  <2>3. \A j \in 1 .. Len(ins) : u[1 + Len(h) + j] = ins[j]
    BY <1>4, <1>7, <2>0, SMTT(60)
  <2>4. \A j \in 1 .. Len(p) : u[1 + Len(h) + Len(ins) + j] = p[j]
    BY <1>4, <1>7, <2>0, SMTT(30)
  <2>5. \A j \in 1 .. Len(app) : u[1 + Len(h) + Len(ins) + Len(p) + j] = app[j]
    BY <1>4, <1>7, <2>0, SMTT(30)
  <2> QED BY <2>1, <2>2, <2>3, <2>4, <2>5
<1>9. Len(u) = Len(o) + Len(ins) + Len(app) BY <1>2, <1>5, <1>6, <1>8
<1>10. ASSUME NEW j \in 2 .. k PROVE u[j] = o[j]
  <2>1. PICK i \in 1 .. Len(h) : j = 1 + i
    <3>1. j - 1 \in 1 .. Len(h) /\ j = 1 + (j - 1) BY <1>2, <1>5
    <3> QED BY <3>1
  <2>2. u[1 + i] = h[i] /\ h[i] = o[1 + i] BY <1>5, <1>8
  <2> QED BY <2>1, <2>2
<1>11. 1 + Len(h) = k BY <1>2, <1>5
<1>12. \A j \in 1 .. Len(ins) : u[k + j] = ins[j] BY <1>8, <1>11
<1>13. \A j \in 1 .. Len(o) - k : u[k + Len(ins) + j] = o[k + j] BY <1>6, <1>8, <1>11
<1>14. \A j \in 1 .. Len(app) : u[Len(o) + Len(ins) + j] = app[j]
  <2>1. 1 + Len(h) + Len(ins) + Len(p) = Len(o) + Len(ins) BY <1>2, <1>5, <1>6
  <2> QED BY <1>8, <2>1
<1>15. HasParts(u, o, f, ins, app)
  BY <1>1, <1>3, <1>8, <1>9, <1>10, <1>12, <1>13, <1>14 DEF HasParts
<1> QED BY <1>0, <1>15

\* A 16-bit number is read as it was written.
LEMMA OctetsOfNumber ==
  ASSUME NEW x \in Nat
  PROVE  \E h, l \in Nat : Octets(x) = <<h, l>> /\ x = 256 * h + l
<1>1. x \div 256 \in Nat /\ x % 256 \in Nat /\ x = 256 * (x \div 256) + (x % 256)
  OBVIOUS
<1> QED BY <1>1 DEF Octets

\* What a packet of speech has in its fixed header, behind the first octet.
Header(u, n) ==
  /\ u[2] = IF n = 1 THEN 136 ELSE 8
  /\ Number(u, 3) = Half(258 + sent)
  /\ Number(u, 5) = Half(772 + n) /\ Number(u, 7) = Half(1286 + sent)
  /\ Number(u, 9) = Source[1] /\ Number(u, 11) = Source[2]

\* What serialize writes for the packet with the next n octets.
IsSpeech(u, n) ==
  /\ u \in Seq(Nat) /\ Len(u) = HeaderOctets + n /\ u[1] = 128 /\ Header(u, n)
  /\ \A j \in 1 .. n : u[HeaderOctets + j] = Octet(sent + j)

LEMMA SpeechShape ==
  ASSUME NEW n \in Nat, sent \in Nat
  PROVE  IsSpeech(Serialize(Speech(n)), n)
<1>0. PICK u : u = Serialize(Speech(n)) OBVIOUS
<1>1. PICK x, y, z, v, w : /\ x = Half(258 + sent) /\ y = Half(772 + n) /\ z = Half(1286 + sent)
                           /\ v = Source[1] /\ w = Source[2]
  OBVIOUS
<1>2. PICK pay : pay = [i \in 1 .. n |-> Octet(sent + i)] OBVIOUS
<1>3. PICK a, b : a = 128 /\ b = IF n = 1 THEN 136 ELSE 8 OBVIOUS
<1>4. x \in Nat /\ y \in Nat /\ z \in Nat /\ v \in Nat /\ w \in Nat
  <2>1. 2 ^ 16 \in Nat \ {0} OBVIOUS
  <2>2. \A k \in Nat : Half(k) \in Nat BY <2>1 DEF Half
  <2>3. 258 + sent \in Nat /\ 772 + n \in Nat /\ 1286 + sent \in Nat OBVIOUS
  <2>4. x \in Nat /\ y \in Nat /\ z \in Nat BY <1>1, <2>2, <2>3
  <2>5. v \in Nat /\ w \in Nat BY <1>1 DEF Source
  <2> QED BY <2>4, <2>5
<1>5. a \in Nat /\ b \in Nat BY <1>3
<1>6. pay \in Seq(Nat) /\ Len(pay) = n /\ \A j \in 1 .. n : pay[j] = Octet(sent + j)
  <2>1. ASSUME NEW j \in 1 .. n PROVE Octet(sent + j) \in Nat
    <3>1. sent + j \in Nat OBVIOUS
    <3> QED BY <3>1, OctetType
  <2>2. pay \in [1 .. n -> Nat] BY <1>2, <2>1
  <2>3. pay \in Seq(Nat) /\ Len(pay) = n BY <2>2
  <2> QED BY <1>2, <2>3
<1>7. PICK x1, x2 \in Nat : Octets(x) = <<x1, x2>> /\ x = 256 * x1 + x2
  BY <1>4, OctetsOfNumber
<1>8. PICK y1, y2 \in Nat : Octets(y) = <<y1, y2>> /\ y = 256 * y1 + y2
  BY <1>4, OctetsOfNumber
<1>9. PICK z1, z2 \in Nat : Octets(z) = <<z1, z2>> /\ z = 256 * z1 + z2
  BY <1>4, OctetsOfNumber
<1>10. PICK v1, v2 \in Nat : Octets(v) = <<v1, v2>> /\ v = 256 * v1 + v2
  BY <1>4, OctetsOfNumber
<1>11. PICK w1, w2 \in Nat : Octets(w) = <<w1, w2>> /\ w = 256 * w1 + w2
  BY <1>4, OctetsOfNumber
<1>12. u = <<a, b>> \o Octets(x) \o Octets(y) \o Octets(z) \o Octets(v) \o Octets(w) \o pay
  <2>1. PICK p : p = Speech(n) OBVIOUS
  <2>2. /\ p.version = 2 /\ p.padding = FALSE /\ p.extension = FALSE /\ p.payload_type = 8
        /\ p.sequence = x /\ p.timestamp = <<y, z>> /\ p.ssrc = Source /\ p.payload = pay
    BY <1>1, <1>2, <2>1 DEF Speech
  <2>3. p.marker = (n = 1) BY <2>1 DEF Speech
  <2>4. 64 * (p.version % 4) + Flag(p.padding, 32) + Flag(p.extension, 16) = a
    BY <1>3, <2>2 DEF Flag
  <2>5. Flag(p.marker, 128) + (p.payload_type % 128) = b
    <3>1. p.payload_type % 128 = 8 BY <2>2
    <3>2. Flag(p.marker, 128) = IF n = 1 THEN 128 ELSE 0 BY <2>3 DEF Flag
    <3> QED BY <1>3, <3>1, <3>2
  <2>6. p.timestamp[1] = y /\ p.timestamp[2] = z /\ p.ssrc[1] = v /\ p.ssrc[2] = w
    BY <1>1, <2>2
  <2>7. Serialize(p) = <<a, b>> \o Octets(x) \o Octets(y) \o Octets(z) \o Octets(v)
                         \o Octets(w) \o pay
    BY <2>2, <2>4, <2>5, <2>6 DEF Serialize
  <2> QED BY <1>0, <2>1, <2>7
<1>13. /\ u \in Seq(Nat) /\ Len(u) = 12 + Len(pay)
       /\ \A j \in 1 .. Len(pay) : u[12 + j] = pay[j]
       /\ u[1] = a /\ u[2] = b /\ u[3] = x1 /\ u[4] = x2 /\ u[5] = y1 /\ u[6] = y2
       /\ u[7] = z1 /\ u[8] = z2 /\ u[9] = v1 /\ u[10] = v2 /\ u[11] = w1 /\ u[12] = w2
  <2>1. u = <<a, b>> \o <<x1, x2>> \o <<y1, y2>> \o <<z1, z2>> \o <<v1, v2>> \o <<w1, w2>>
              \o pay
    BY <1>7, <1>8, <1>9, <1>10, <1>11, <1>12
  <2>2. pay \in Seq(Nat) BY <1>6
  <2> QED BY <1>5, <2>1, <2>2
<1>14. /\ Number(u, 3) = x /\ Number(u, 5) = y /\ Number(u, 7) = z
       /\ Number(u, 9) = v /\ Number(u, 11) = w
  <2>1. /\ Number(u, 3) = 256 * u[3] + u[4] /\ Number(u, 5) = 256 * u[5] + u[6]
        /\ Number(u, 7) = 256 * u[7] + u[8] /\ Number(u, 9) = 256 * u[9] + u[10]
        /\ Number(u, 11) = 256 * u[11] + u[12]
    BY DEF Number
  <2> QED BY <1>7, <1>8, <1>9, <1>10, <1>11, <1>13, <2>1
<1>15. Header(u, n) BY <1>1, <1>3, <1>13, <1>14 DEF Header
<1>16. IsSpeech(u, n) BY <1>3, <1>6, <1>13, <1>15 DEF HeaderOctets, IsSpeech
<1> QED BY <1>0, <1>16

\* The packet of speech with these flags.
Flagged(n, extension, padding) ==
  [version |-> 2, padding |-> padding, extension |-> extension, marker |-> n = 1,
   payload_type |-> 8, sequence |-> Half(258 + sent),
   timestamp |-> <<Half(772 + n), Half(1286 + sent)>>, ssrc |-> Source,
   payload |-> [i \in 1 .. n |-> Octet(sent + i)]]

\* p is a packet with these fields.
Fields(p, v, y, x, m, t, s, ts, ss, pay) ==
  p = [version |-> v, padding |-> y, extension |-> x, marker |-> m, payload_type |-> t,
       sequence |-> s, timestamp |-> ts, ssrc |-> ss, payload |-> pay]

LEMMA SetField ==
  ASSUME NEW p, NEW v, NEW y, NEW x, NEW m, NEW t, NEW s, NEW ts, NEW ss, NEW pay, NEW a, NEW b,
         Fields(p, v, y, x, m, t, s, ts, ss, pay)
  PROVE  /\ Fields([p EXCEPT !.extension = a], v, y, a, m, t, s, ts, ss, pay)
         /\ Fields([p EXCEPT !.padding = b], v, b, x, m, t, s, ts, ss, pay)
         /\ Fields([p EXCEPT !.extension = a, !.padding = b], v, b, a, m, t, s, ts, ss, pay)
<1>1. PICK q : q = [p EXCEPT !.extension = a] OBVIOUS
<1>2. PICK r : r = [p EXCEPT !.padding = b] OBVIOUS
<1>3. PICK u : u = [p EXCEPT !.extension = a, !.padding = b] OBVIOUS
<1>4. Fields(q, v, y, a, m, t, s, ts, ss, pay) BY <1>1 DEF Fields
<1>5. Fields(r, v, b, x, m, t, s, ts, ss, pay) BY <1>2 DEF Fields
<1>6. Fields(u, v, b, a, m, t, s, ts, ss, pay) BY <1>3 DEF Fields
<1> QED BY <1>1, <1>2, <1>3, <1>4, <1>5, <1>6

LEMMA SetFlags ==
  ASSUME NEW n
  PROVE  /\ Flagged(n, FALSE, FALSE) = Speech(n)
         /\ Flagged(n, TRUE, FALSE) = [Speech(n) EXCEPT !.extension = TRUE]
         /\ Flagged(n, FALSE, TRUE) = [Speech(n) EXCEPT !.padding = TRUE]
         /\ Flagged(n, TRUE, TRUE) = [Speech(n) EXCEPT !.extension = TRUE, !.padding = TRUE]
<1>1. PICK p : p = Speech(n) OBVIOUS
<1>0. PICK m : m = (n = 1) OBVIOUS
<1>2. PICK s, ts, pay :
        /\ s = Half(258 + sent) /\ ts = <<Half(772 + n), Half(1286 + sent)>>
        /\ pay = [i \in 1 .. n |-> Octet(sent + i)]
  OBVIOUS
<1>3. Fields(p, 2, FALSE, FALSE, m, 8, s, ts, Source, pay) BY <1>0, <1>1, <1>2 DEF Speech, Fields
<1>4. ASSUME NEW x, NEW y, NEW q, Fields(q, 2, y, x, m, 8, s, ts, Source, pay)
      PROVE  Flagged(n, x, y) = q
  BY <1>0, <1>2, <1>4 DEF Flagged, Fields
<1>5. Flagged(n, FALSE, FALSE) = p BY <1>3, <1>4
<1>6. PICK q : q = [p EXCEPT !.extension = TRUE] OBVIOUS
<1>7. PICK r : r = [p EXCEPT !.padding = TRUE] OBVIOUS
<1>8. PICK u : u = [p EXCEPT !.extension = TRUE, !.padding = TRUE] OBVIOUS
<1>9. Fields(q, 2, FALSE, TRUE, m, 8, s, ts, Source, pay) BY <1>3, <1>6, SetField
<1>10. Fields(r, 2, TRUE, FALSE, m, 8, s, ts, Source, pay) BY <1>3, <1>7, SetField
<1>11. Fields(u, 2, TRUE, TRUE, m, 8, s, ts, Source, pay) BY <1>3, <1>8, SetField
<1>12. Flagged(n, TRUE, FALSE) = q BY <1>4, <1>9
<1>13. Flagged(n, FALSE, TRUE) = r BY <1>4, <1>10
<1>14. Flagged(n, TRUE, TRUE) = u BY <1>4, <1>11
<1> QED BY <1>1, <1>5, <1>6, <1>7, <1>8, <1>12, <1>13, <1>14

\* What the first octet of a form, the octets inserted and those appended say:
\* so many sources, an extension of so many words or none, so much padding.
Formed(f, ins, app, sources, words, extension, padding) ==
  /\ f \in Nat /\ ins \in Seq(Nat) /\ app \in Seq(Nat)
  /\ sources \in Nat /\ words \in Nat /\ extension \in BOOLEAN /\ padding \in BOOLEAN
  /\ (128 + f) \div 64 = 2 /\ (128 + f) % 16 = sources
  /\ Bit(128 + f, 16) = extension /\ Bit(128 + f, 32) = padding
  /\ Len(ins) = 4 * sources + IF extension THEN 4 + 4 * words ELSE 0
  /\ extension => 256 * ins[4 * sources + 3] + ins[4 * sources + 4] = words
  /\ IF padding THEN app # <<>> /\ app[Len(app)] = Len(app) ELSE app = <<>>

\* parse() reads u as the packet of speech with these flags.
ReadAs(u, n, extension, padding) == Parses(u) /\ Parse(u) = Flagged(n, extension, padding)

\* parse() understands such a form as what it was made from.
LEMMA FormParses ==
  ASSUME NEW n \in Nat, sent \in Nat, NEW f, NEW ins, NEW app, NEW sources, NEW words,
         NEW extension, NEW padding, Formed(f, ins, app, sources, words, extension, padding)
  PROVE  ReadAs(Marked(Serialize(Speech(n)), f, ins, app), n, extension, padding)
<1>. /\ f \in Nat /\ ins \in Seq(Nat) /\ app \in Seq(Nat)
     /\ sources \in Nat /\ words \in Nat /\ extension \in BOOLEAN /\ padding \in BOOLEAN
  BY DEF Formed
<1>0. PICK u : u = Marked(Serialize(Speech(n)), f, ins, app) OBVIOUS
<1>1. PICK o : o = Serialize(Speech(n)) OBVIOUS
<1>2. PICK k, a : k = HeaderOctets /\ a = 128 + f OBVIOUS
<1>3. k \in Nat /\ k >= 2 BY <1>2 DEF HeaderOctets
<1>4. /\ o \in Seq(Nat) /\ Len(o) = k + n /\ Header(o, n)
      /\ \A j \in 1 .. n : o[k + j] = Octet(sent + j)
  <2>1. IsSpeech(o, n) BY <1>1, SpeechShape
  <2> QED BY <1>2, <2>1 DEF IsSpeech
<1>5. o[1] + f = a /\ o[1] \in Nat
  <2>1. o[1] = 128 BY <1>1, SpeechShape DEF IsSpeech
  <2> QED BY <1>2, <2>1
<1>6. u = Marked(o, f, ins, app) BY <1>0, <1>1
<1>7. HeaderOctets <= Len(o) BY <1>2, <1>3, <1>4
<1>8. /\ u \in Seq(Nat) /\ Len(u) = Len(o) + Len(ins) + Len(app) /\ u[1] = a
      /\ \A j \in 2 .. k : u[j] = o[j]
      /\ \A j \in 1 .. Len(ins) : u[k + j] = ins[j]
      /\ \A j \in 1 .. Len(o) - k : u[k + Len(ins) + j] = o[k + j]
      /\ \A j \in 1 .. Len(app) : u[Len(o) + Len(ins) + j] = app[j]
  <2>1. o \in Seq(Nat) /\ o[1] \in Nat BY <1>4, <1>5
  <2>2. HasParts(u, o, f, ins, app) BY <1>6, <1>7, <2>1, MarkedShape
  <2> QED BY <1>2, <1>5, <2>2 DEF HasParts
<1>9. PICK i, l : i = Len(ins) /\ l = Len(app) OBVIOUS
<1>10. i \in Nat /\ l \in Nat BY <1>9
<1>11. Len(u) = k + i + n + l BY <1>3, <1>4, <1>8, <1>9, <1>10
<1>12. /\ a \div 64 = 2 /\ a % 16 = sources /\ Bit(a, 16) = extension /\ Bit(a, 32) = padding
       /\ i = 4 * sources + IF extension THEN 4 + 4 * words ELSE 0
       /\ extension => 256 * ins[4 * sources + 3] + ins[4 * sources + 4] = words
       /\ IF padding THEN l # 0 /\ app[l] = l ELSE l = 0
  BY <1>2, <1>9 DEF Formed
<1>13. CsrcEnd(u) = k + 4 * sources BY <1>2, <1>8, <1>12 DEF CsrcEnd
<1>14. extension => Number(u, CsrcEnd(u) + 3) = words
  <2>1. SUFFICES ASSUME extension PROVE Number(u, CsrcEnd(u) + 3) = words OBVIOUS
  <2>2. PICK j : j = 4 * sources OBVIOUS
  <2>3. j \in Nat /\ i = j + 4 + 4 * words BY <1>12, <2>1, <2>2
  <2>4. j + 3 \in 1 .. i /\ j + 4 \in 1 .. i BY <2>3
  <2>5. u[k + (j + 3)] = ins[j + 3] /\ u[k + (j + 4)] = ins[j + 4] BY <1>8, <1>9, <2>4
  <2>6. CsrcEnd(u) + 3 = k + (j + 3) /\ (CsrcEnd(u) + 3) + 1 = k + (j + 4)
    BY <1>3, <1>13, <2>2, <2>3
  <2>7. 256 * ins[j + 3] + ins[j + 4] = words BY <1>12, <2>1, <2>2
  <2>8. Number(u, CsrcEnd(u) + 3) = 256 * u[k + (j + 3)] + u[k + (j + 4)]
    BY <2>6 DEF Number
  <2> QED BY <2>5, <2>7, <2>8
<1>15. HeaderEnd(u) = k + i
  <2>0. Bit(u[1], 16) = extension BY <1>8, <1>12
  <2>1. CASE extension
    <3>1. HeaderEnd(u) = CsrcEnd(u) + (4 + 4 * words) BY <1>14, <2>0, <2>1 DEF HeaderEnd
    <3> QED BY <1>3, <1>12, <1>13, <2>1, <3>1
  <2>2. CASE ~extension
    <3>1. HeaderEnd(u) = CsrcEnd(u) + 0 BY <2>0, <2>2 DEF HeaderEnd
    <3> QED BY <1>3, <1>12, <1>13, <2>2, <3>1
  <2> QED BY <2>1, <2>2
<1>16. padding => Len(u) > HeaderEnd(u) /\ u[Len(u)] = l
  <2>1. SUFFICES ASSUME padding PROVE Len(u) > HeaderEnd(u) /\ u[Len(u)] = l OBVIOUS
  <2>2. l \in 1 .. Len(app) /\ l > 0 BY <1>9, <1>10, <1>12, <2>1
  <2>3. u[Len(o) + Len(ins) + l] = app[l] BY <1>8, <2>2
  <2>4. Len(u) = Len(o) + Len(ins) + l BY <1>8, <1>9
  <2>5. u[Len(u)] = l BY <1>12, <2>1, <2>3, <2>4
  <2>6. Len(u) > HeaderEnd(u) BY <1>3, <1>10, <1>11, <1>15, <2>2
  <2> QED BY <2>5, <2>6
<1>17. Padding(u) = l BY <1>8, <1>12, <1>16 DEF Padding
<1>18. Parses(u)
  <2>1. Len(u) >= HeaderOctets BY <1>2, <1>3, <1>10, <1>11
  <2>2. u[1] \div 64 = 2 BY <1>8, <1>12
  <2>3. Len(u) >= HeaderEnd(u) BY <1>3, <1>10, <1>11, <1>15
  <2>4. /\ Len(u) >= CsrcEnd(u)
        /\ Bit(u[1], 16) => Len(u) >= CsrcEnd(u) + 4
    <3>1. Bit(u[1], 16) = extension BY <1>8, <1>12
    <3>2. i >= 4 * sources /\ (extension => i >= 4 * sources + 4) BY <1>12
    <3> QED BY <1>3, <1>10, <1>11, <1>13, <3>1, <3>2
  <2>5. Bit(u[1], 32) /\ Len(u) > HeaderEnd(u) => u[Len(u)] <= Len(u) - HeaderEnd(u)
    BY <1>3, <1>8, <1>10, <1>11, <1>12, <1>15, <1>16
  <2> QED BY <2>1, <2>2, <2>3, <2>4, <2>5 DEF Parses
<1>19. SubSeq(u, HeaderEnd(u) + 1, Len(u) - Padding(u)) = [j \in 1 .. n |-> Octet(sent + j)]
  <2>1. PICK s, t : /\ s = SubSeq(u, HeaderEnd(u) + 1, Len(u) - Padding(u))
                    /\ t = [j \in 1 .. n |-> Octet(sent + j)]
    OBVIOUS
  <2>2. PICK m : m = k + i OBVIOUS
  <2>3. m \in Nat /\ Len(u) - Padding(u) = m + n /\ m + n <= Len(u)
    BY <1>3, <1>10, <1>11, <1>17, <2>2
  <2>4. s = SubSeq(u, m + 1, m + n) BY <1>15, <2>1, <2>2, <2>3
  <2>5. SubSeq(u, m + 1, m + n) \in Seq(Nat) /\ Len(SubSeq(u, m + 1, m + n)) = n
    <3>1. u \in Seq(Nat) BY <1>8
    <3> QED BY <2>3, <3>1
  <2>6. \A j \in 1 .. n : SubSeq(u, m + 1, m + n)[j] = u[m + j]
    <3>1. u \in Seq(Nat) BY <1>8
    <3> QED BY <2>3, <3>1, Piece
  <2>7. \A j \in 1 .. n : u[m + j] = o[k + j]
    <3>1. Len(o) - k = n /\ k + Len(ins) = m BY <1>3, <1>4, <1>9, <2>2
    <3>2. \A j \in 1 .. Len(o) - k : u[k + Len(ins) + j] = o[k + j] BY <1>8
    <3> QED BY <3>1, <3>2
  <2>8. t \in [1 .. n -> Nat]
    <3>1. \A j \in Nat : Octet(j) \in Nat BY OctetType
    <3>2. \A j \in 1 .. n : sent + j \in Nat OBVIOUS
    <3> QED BY <2>1, <3>1, <3>2
  <2>9. t \in Seq(Nat) /\ Len(t) = n BY <2>8
  <2>10. \A j \in 1 .. n : s[j] = t[j] BY <1>4, <2>1, <2>4, <2>6, <2>7
  <2>11. s \in Seq(Nat) /\ Len(s) = n BY <2>4, <2>5
  <2>12. s = t BY <2>9, <2>10, <2>11
  <2> QED BY <2>1, <2>12
<1>20. Header(u, n)
  <2>1. \A j \in 2 .. 12 : u[j] = o[j] BY <1>2, <1>8 DEF HeaderOctets
  <2>2. /\ u[2] = o[2] /\ Number(u, 3) = Number(o, 3) /\ Number(u, 5) = Number(o, 5)
        /\ Number(u, 7) = Number(o, 7) /\ Number(u, 9) = Number(o, 9)
        /\ Number(u, 11) = Number(o, 11)
    BY <2>1 DEF Number
  <2>3. Header(o, n) BY <1>4
  <2> QED BY <2>2, <2>3 DEF Header
<1>21. PICK mk : mk = (n = 1) OBVIOUS
<1>22. Bit(u[2], 128) = mk /\ u[2] % 128 = 8
  <2>1. u[2] = IF n = 1 THEN 136 ELSE 8 BY <1>20 DEF Header
  <2>2. CASE n = 1
    <3>1. u[2] = 136 BY <2>1, <2>2
    <3>2. (u[2] \div 128) % 2 = 1 /\ u[2] % 128 = 8 BY <3>1
    <3>3. Bit(u[2], 128) = TRUE BY <3>2 DEF Bit
    <3>4. mk = TRUE BY <1>21, <2>2
    <3> QED BY <3>2, <3>3, <3>4
  <2>3. CASE n # 1
    <3>1. u[2] = 8 BY <2>1, <2>3
    <3>2. (u[2] \div 128) % 2 = 0 /\ u[2] % 128 = 8 BY <3>1
    <3>3. Bit(u[2], 128) = FALSE BY <3>2 DEF Bit
    <3>4. mk = FALSE BY <1>21, <2>3
    <3> QED BY <3>2, <3>3, <3>4
  <2> QED BY <2>2, <2>3
<1>23. Parse(u) = Flagged(n, extension, padding)
  <2>1. u[1] \div 64 = 2 /\ Bit(u[1], 16) = extension /\ Bit(u[1], 32) = padding
    BY <1>8, <1>12
  <2>2. PICK seq, ts, pay :
          seq = Half(258 + sent) /\ ts = <<Half(772 + n), Half(1286 + sent)>>
          /\ pay = [j \in 1 .. n |-> Octet(sent + j)]
    OBVIOUS
  <2>3. Number(u, 3) = seq /\ <<Number(u, 5), Number(u, 7)>> = ts
        /\ <<Number(u, 9), Number(u, 11)>> = Source
    BY <1>20, <2>2 DEF Header, Source
  <2>4. Parse(u) = [version |-> 2, padding |-> padding, extension |-> extension,
                    marker |-> mk, payload_type |-> 8, sequence |-> seq,
                    timestamp |-> ts, ssrc |-> Source, payload |-> pay]
    BY <1>19, <1>22, <2>1, <2>2, <2>3 DEF Parse
  <2> QED BY <1>21, <2>2, <2>4 DEF Flagged
<1> QED BY <1>0, <1>18, <1>23 DEF ReadAs
\* A plain packet is one with nothing put in.
LEMMA PlainIsMarked ==
  ASSUME NEW o \in Seq(Nat), HeaderOctets <= Len(o)
  PROVE  Marked(o, 0, <<>>, <<>>) = o
<1>1. PICK z, none, k : z = 0 /\ none = <<>> /\ k = HeaderOctets OBVIOUS
<1>2. z \in Nat /\ none \in Seq(Nat) /\ Len(none) = 0 BY <1>1
<1>3. k \in Nat /\ k >= 2 BY <1>1 DEF HeaderOctets
<1>4. o[1] \in Nat BY <1>1, <1>3
<1>5. PICK u : u = Marked(o, z, none, none) OBVIOUS
<1>6. HasParts(u, o, z, none, none) BY <1>2, <1>4, <1>5, MarkedShape
<1>7. /\ u \in Seq(Nat) /\ Len(u) = Len(o) + Len(none) + Len(none) /\ u[1] = o[1] + z
      /\ \A j \in 2 .. k : u[j] = o[j]
      /\ \A j \in 1 .. Len(o) - k : u[k + Len(none) + j] = o[k + j]
  BY <1>1, <1>6 DEF HasParts
<1>8. Len(u) = Len(o) BY <1>2, <1>7
<1>9. ASSUME NEW j \in 1 .. Len(o) PROVE u[j] = o[j]
  <2>1. CASE j = 1 BY <1>1, <1>4, <1>7, <2>1
  <2>2. CASE j \in 2 .. k BY <1>7, <2>2
  <2>3. CASE j > k
    <3>1. PICK i : i = j - k OBVIOUS
    <3>2. i \in 1 .. Len(o) - k /\ j = k + i /\ k + Len(none) + i = j BY <1>2, <1>3, <2>3, <3>1
    <3> QED BY <1>7, <3>2
  <2> QED BY <1>3, <2>1, <2>2, <2>3
<1>10. u = o BY <1>7, <1>8, <1>9
<1> QED BY <1>1, <1>5, <1>10

\* Whatever legal form a packet comes in, parse() reads what the peer meant.
LEMMA FormsAreRead ==
  ASSUME NEW n \in Nat, sent \in Nat, NEW g \in Forms(Speech(n))
  PROVE  /\ Parses(g[1]) /\ Parse(g[1]) = g[2]
         /\ \E x, y : g[2] = Flagged(n, x, y)
<1>1. PICK o : o = Serialize(Speech(n)) OBVIOUS
<1>2. PICK c, e, ce, a3, a1, none :
        /\ c = <<1, 2, 3, 4>> /\ e = <<190, 222, 0, 1, 5, 6, 7, 8>> /\ ce = c \o e
        /\ a3 = <<0, 0, 3>> /\ a1 = <<1>> /\ none = <<>>
  OBVIOUS
<1>0. PICK yes, no : yes = TRUE /\ no = FALSE OBVIOUS
<1>3. /\ c \in Seq(Nat) /\ Len(c) = 4
      /\ a3 \in Seq(Nat) /\ Len(a3) = 3 /\ a3[3] = 3 /\ a3 # <<>>
      /\ a1 \in Seq(Nat) /\ Len(a1) = 1 /\ a1[1] = 1 /\ a1 # <<>>
      /\ none \in Seq(Nat) /\ Len(none) = 0
  BY <1>2
<1>4. e \in Seq(Nat) /\ Len(e) = 8 /\ e[3] = 0 /\ e[4] = 1
  BY <1>2
<1>5. ce \in Seq(Nat) /\ Len(ce) = 12 /\ ce[7] = 0 /\ ce[8] = 1
  <2>1. ce \in Seq(Nat) /\ Len(ce) = Len(c) + Len(e) BY <1>2, <1>3, <1>4
  <2>2. \A j \in 1 .. Len(e) : ce[Len(c) + j] = e[j] BY <1>2, <1>3, <1>4
  <2>3. ce[4 + 3] = e[3] /\ ce[4 + 4] = e[4] BY <1>3, <1>4, <2>2
  <2> QED BY <1>3, <1>4, <2>1, <2>3
<1>6. Marked(o, 0, none, none) = o
  <2>1. IsSpeech(o, n) BY <1>1, SpeechShape
  <2>2. o \in Seq(Nat) /\ HeaderOctets <= Len(o) BY <2>1 DEF IsSpeech, HeaderOctets
  <2> QED BY <1>2, <2>2, PlainIsMarked
<1>7. Formed(0, none, none, 0, 0, no, no)
  <2>1. Formed(0, none, none, 0, 0, FALSE, FALSE) BY <1>2, <1>3 DEF Formed, Bit
  <2> QED BY <1>0, <2>1
<1>8. Formed(1, c, none, 1, 0, no, no)
  <2>1. Formed(1, c, none, 1, 0, FALSE, FALSE) BY <1>2, <1>3 DEF Formed, Bit
  <2> QED BY <1>0, <2>1
<1>9. Formed(16, e, none, 0, 1, yes, no)
  <2>1. Formed(16, e, none, 0, 1, TRUE, FALSE) BY <1>2, <1>3, <1>4 DEF Formed, Bit
  <2> QED BY <1>0, <2>1
<1>10. Formed(32, none, a3, 0, 0, no, yes)
  <2>1. Formed(32, none, a3, 0, 0, FALSE, TRUE) BY <1>3 DEF Formed, Bit
  <2> QED BY <1>0, <2>1
<1>11. Formed(49, ce, a1, 1, 1, yes, yes)
  <2>1. Formed(49, ce, a1, 1, 1, TRUE, TRUE) BY <1>3, <1>5 DEF Formed, Bit
  <2> QED BY <1>0, <2>1
<1>12. ReadAs(o, n, no, no) BY <1>1, <1>6, <1>7, FormParses
<1>13. ReadAs(Marked(o, 1, c, none), n, no, no) BY <1>1, <1>8, FormParses
<1>14. ReadAs(Marked(o, 16, e, none), n, yes, no) BY <1>1, <1>9, FormParses
<1>15. ReadAs(Marked(o, 32, none, a3), n, no, yes) BY <1>1, <1>10, FormParses
<1>16. ReadAs(Marked(o, 49, ce, a1), n, yes, yes) BY <1>1, <1>11, FormParses
<1>17. PICK p : p = Speech(n) OBVIOUS
<1>18. \/ g = <<o, p>>
       \/ g = <<Marked(o, 1, c, none), p>>
       \/ g = <<Marked(o, 16, e, none), [p EXCEPT !.extension = TRUE]>>
       \/ g = <<Marked(o, 32, none, a3), [p EXCEPT !.padding = TRUE]>>
       \/ g = <<Marked(o, 49, ce, a1), [p EXCEPT !.extension = TRUE, !.padding = TRUE]>>
  BY <1>1, <1>2, <1>17 DEF Forms
<1>19. /\ Flagged(n, FALSE, FALSE) = p
       /\ Flagged(n, TRUE, FALSE) = [p EXCEPT !.extension = TRUE]
       /\ Flagged(n, FALSE, TRUE) = [p EXCEPT !.padding = TRUE]
       /\ Flagged(n, TRUE, TRUE) = [p EXCEPT !.extension = TRUE, !.padding = TRUE]
  BY <1>17, SetFlags
<1>20. \/ g = <<o, Flagged(n, no, no)>>
       \/ g = <<Marked(o, 1, c, none), Flagged(n, no, no)>>
       \/ g = <<Marked(o, 16, e, none), Flagged(n, yes, no)>>
       \/ g = <<Marked(o, 32, none, a3), Flagged(n, no, yes)>>
       \/ g = <<Marked(o, 49, ce, a1), Flagged(n, yes, yes)>>
  BY <1>0, <1>18, <1>19
<1>21. \E x, y : ReadAs(g[1], n, x, y) /\ g[2] = Flagged(n, x, y)
  <2>1. CASE g = <<o, Flagged(n, no, no)>> BY <1>12, <2>1
  <2>2. CASE g = <<Marked(o, 1, c, none), Flagged(n, no, no)>> BY <1>13, <2>2
  <2>3. CASE g = <<Marked(o, 16, e, none), Flagged(n, yes, no)>> BY <1>14, <2>3
  <2>4. CASE g = <<Marked(o, 32, none, a3), Flagged(n, no, yes)>> BY <1>15, <2>4
  <2>5. CASE g = <<Marked(o, 49, ce, a1), Flagged(n, yes, yes)>> BY <1>16, <2>5
  <2> QED BY <1>20, <2>1, <2>2, <2>3, <2>4, <2>5
<1> QED BY <1>21 DEF ReadAs
\* No junk gets past parse()'s early returns.
LEMMA JunkIsSkipped ==
  ASSUME NEW n \in Nat, sent \in Nat, NEW u \in Junk(Speech(n)) \cup {<<>>}
  PROVE  ~Parses(u)
<1>1. PICK o : o = Serialize(Speech(n)) OBVIOUS
<1>2. o \in Seq(Nat) /\ Len(o) = HeaderOctets + n /\ o[1] = 128
  <2>1. IsSpeech(o, n) BY <1>1, SpeechShape
  <2> QED BY <2>1 DEF IsSpeech
<1>3. PICK k, h : k = HeaderOctets /\ h = SubSeq(o, 1, k) OBVIOUS
<1>4. k = 12 BY <1>3 DEF HeaderOctets
<1>5. h \in Seq(Nat) /\ Len(h) = k /\ h[1] = 128
  <2>1. k \in Nat /\ 1 <= k /\ k <= Len(o) BY <1>2, <1>3, <1>4
  <2>2. SubSeq(o, 1, k) \in Seq(Nat) /\ Len(SubSeq(o, 1, k)) = k BY <1>2, <2>1
  <2>3. SubSeq(o, 1, k)[1] = o[1] BY <1>2, <2>1
  <2> QED BY <1>2, <1>3, <2>2, <2>3
<1>6. PICK i3, i4, i5, i6, a5, a6, none :
        /\ i3 = <<1, 2, 3, 4>> /\ i4 = <<190, 222, 0>> /\ i5 = <<190, 222, 1, 0>> /\ i6 = <<9, 9>>
        /\ a5 = <<9>> /\ a6 = <<4>> /\ none = <<>>
  OBVIOUS
<1>7. /\ i3 \in Seq(Nat) /\ Len(i3) = 4 /\ i4 \in Seq(Nat) /\ Len(i4) = 3
      /\ i6 \in Seq(Nat) /\ Len(i6) = 2 /\ a5 \in Seq(Nat) /\ Len(a5) = 1
      /\ a6 \in Seq(Nat) /\ Len(a6) = 1 /\ a6[1] = 4 /\ none \in Seq(Nat) /\ Len(none) = 0
  BY <1>6
<1>8. i5 \in Seq(Nat) /\ Len(i5) = 4 /\ i5[3] = 1 /\ i5[4] = 0 BY <1>6
<1>9. HeaderOctets <= Len(h) /\ h[1] \in Nat BY <1>3, <1>4, <1>5
<1>10. CASE u = SubSeq(o, 1, HeaderOctets - 1)
  <2>1. PICK l : l = HeaderOctets - 1 OBVIOUS
  <2>0. Len(o) = 12 + n /\ l = 11
    <3>1. HeaderOctets = 12 BY DEF HeaderOctets
    <3>2. l = 11 BY <2>1, <3>1
    <3> QED BY <1>2, <3>1, <3>2
  <2>2. l \in Nat /\ l <= Len(o) /\ l < HeaderOctets BY <1>2, <1>3, <1>4, <2>0, <2>1
  <2>3. Len(SubSeq(o, 1, l)) = l BY <1>2, <2>2
  <2>4. u = SubSeq(o, 1, l) BY <1>10, <2>1
  <2>6. ~(Len(u) >= HeaderOctets) BY <1>3, <1>4, <2>0, <2>3, <2>4
  <2> QED BY <2>6 DEF Parses
<1>11. CASE u = <<o[1] - 64>> \o Tail(o)
  <2>1. PICK x, t : x = o[1] - 64 /\ t = Tail(o) OBVIOUS
  <2>2. x = 64 BY <1>2, <2>1
  <2>3. o # <<>> BY <1>2, <1>3, <1>4
  <2>4. t \in Seq(Nat) BY <1>2, <2>1, <2>3
  <2>5. x \in Nat BY <2>2
  <2>6. (<<x>> \o t)[1] = x BY <2>4, <2>5
  <2>7. u[1] = 64 BY <1>11, <2>1, <2>2, <2>6
  <2>8. u[1] \div 64 # 2 BY <2>7
  <2> QED BY <2>8 DEF Parses
<1>12. CASE u = Marked(h, 2, i3, none)
  <2>0. HasParts(u, h, 2, i3, none) BY <1>5, <1>7, <1>8, <1>9, <1>12, MarkedShape
  <2>1. Len(u) = 16 /\ u[1] = 130 BY <1>4, <1>5, <1>7, <2>0 DEF HasParts
  <2>2. CsrcEnd(u) = 20 BY <1>3, <1>4, <2>1 DEF CsrcEnd
  <2> QED BY <2>1, <2>2 DEF Parses
<1>13. CASE u = Marked(h, 16, i4, none)
  <2>0. HasParts(u, h, 16, i4, none) BY <1>5, <1>7, <1>8, <1>9, <1>13, MarkedShape
  <2>1. Len(u) = 15 /\ u[1] = 144 BY <1>4, <1>5, <1>7, <2>0 DEF HasParts
  <2>2. CsrcEnd(u) = 12 BY <1>3, <1>4, <2>1 DEF CsrcEnd
  <2>3. Bit(u[1], 16) BY <2>1 DEF Bit
  <2> QED BY <2>1, <2>2, <2>3 DEF Parses
<1>14. CASE u = Marked(h, 16, i5, a5)
  <2>0. HasParts(u, h, 16, i5, a5) BY <1>5, <1>7, <1>8, <1>9, <1>14, MarkedShape
  <2>1. Len(u) = 17 /\ u[1] = 144 BY <1>4, <1>5, <1>7, <1>8, <2>0 DEF HasParts
  <2>2. CsrcEnd(u) = 12 BY <1>3, <1>4, <2>1 DEF CsrcEnd
  <2>3. Bit(u[1], 16) BY <2>1 DEF Bit
  <2>4. u[15] = 1 /\ u[16] = 0
    <3>1. \A j \in 1 .. Len(i5) : u[k + j] = i5[j] BY <1>3, <2>0 DEF HasParts
    <3>2. u[k + 3] = 1 /\ u[k + 4] = 0 BY <1>8, <3>1
    <3> QED BY <1>4, <3>2
  <2>5. HeaderEnd(u) = 12 + 4 + 4 * 256 BY <2>2, <2>3, <2>4 DEF HeaderEnd, Number
  <2> QED BY <2>1, <2>5 DEF Parses
<1>15. CASE u = Marked(h, 32, i6, a6)
  <2>0. HasParts(u, h, 32, i6, a6) BY <1>5, <1>7, <1>8, <1>9, <1>15, MarkedShape
  <2>1. Len(u) = 15 /\ u[1] = 160 BY <1>4, <1>5, <1>7, <2>0 DEF HasParts
  <2>2. CsrcEnd(u) = 12 BY <1>3, <1>4, <2>1 DEF CsrcEnd
  <2>3. ~Bit(u[1], 16) /\ Bit(u[1], 32) BY <2>1 DEF Bit
  <2>4. HeaderEnd(u) = 12 BY <2>2, <2>3 DEF HeaderEnd
  <2>5. u[15] = 4
    <3>1. \A j \in 1 .. Len(a6) : u[k + Len(i6) + j] = a6[j] BY <1>3, <1>5, <2>0 DEF HasParts
    <3>2. u[k + Len(i6) + 1] = 4 BY <1>7, <3>1
    <3> QED BY <1>4, <1>7, <3>2
  <2> QED BY <2>1, <2>3, <2>4, <2>5 DEF Parses
<1>16. CASE u = <<>>
  <2>1. Len(u) = 0 BY <1>16
  <2> QED BY <1>3, <1>4, <2>1 DEF Parses
<1>17. \/ u = SubSeq(o, 1, HeaderOctets - 1) \/ u = <<o[1] - 64>> \o Tail(o)
       \/ u = Marked(h, 2, i3, none) \/ u = Marked(h, 16, i4, none)
       \/ u = Marked(h, 16, i5, a5) \/ u = Marked(h, 32, i6, a6) \/ u = <<>>
  BY <1>1, <1>3, <1>6 DEF Junk
<1> QED BY <1>10, <1>11, <1>12, <1>13, <1>14, <1>15, <1>16, <1>17

-----------------------------------------------------------------------------
(* Frames                                                                  *)

\* Quotient and remainder of natural numbers.
LEMMA DivMod ==
  ASSUME NEW a \in Nat, NEW m \in Nat \ {0}
  PROVE  a = (a \div m) * m + (a % m) /\ a % m \in 0 .. m - 1 /\ a \div m \in Nat
OBVIOUS

LEMMA ModUnique ==
  ASSUME NEW k \in Nat, NEW e \in Nat, NEW m \in Nat \ {0}, e < m
  PROVE  (k * m + e) % m = e
OBVIOUS

LEMMA Multiple ==
  ASSUME NEW k \in Nat, NEW m \in Nat \ {0}
  PROVE  k * m \in Nat /\ (k * m) \div m = k /\ (k + 1) * m = k * m + m
OBVIOUS

\* The first c frames of l octets.
LEMMA Fits ==
  ASSUME NEW l \in Nat, NEW c \in Nat, c <= l \div FrameSamples
  PROVE  /\ c * FrameSamples \in Nat /\ c * FrameSamples <= l
         /\ c = l \div FrameSamples => l - c * FrameSamples < FrameSamples
<1>1. PICK q : q = l \div FrameSamples OBVIOUS
<1>2. /\ l = q * FrameSamples + (l % FrameSamples) /\ l % FrameSamples \in 0 .. FrameSamples - 1
      /\ q \in Nat
  BY <1>1, DivMod
<1>3. PICK d : d = q - c OBVIOUS
<1>4. d \in Nat /\ q = c + d BY <1>1, <1>2, <1>3
<1>5. PICK x, y, z : x = c * FrameSamples /\ y = d * FrameSamples /\ z = q * FrameSamples OBVIOUS
<1>6. x \in Nat /\ y \in Nat BY <1>4, <1>5
<1>7. z = x + y BY <1>4, <1>5
<1>8. x <= l /\ (c = q => l - x < FrameSamples) BY <1>2, <1>5, <1>6, <1>7
<1> QED BY <1>1, <1>5, <1>6, <1>8

\* How many frames were put into the buffer.
LEMMA PushedIs ==
  ASSUME TypeOK, Paths, NEW b \in Nat, sent = b * FrameSamples + Len(Held)
  PROVE  Pushed = b + cut /\ sent - Len(Held) = b * FrameSamples /\ cut \in Nat
<1>1. PICK x : x = b * FrameSamples OBVIOUS
<1>2. x \in Nat /\ x \div FrameSamples = b BY <1>1, Multiple
<1>3. Len(Held) \in Nat BY DEF TypeOK, Held
<1>4. sent - Len(Held) = x BY <1>1, <1>2, <1>3
<1>5. cut \in Nat BY DEF TypeOK
<1>6. CASE rx = "push"
  <2>1. Pushed = (sent - Len(Held)) \div FrameSamples + cut BY <1>6 DEF Pushed, Held
  <2> QED BY <1>1, <1>2, <1>4, <1>5, <2>1
<1>7. CASE rx # "push"
  <2>1. Pushed = (sent - Len(Held)) \div FrameSamples BY <1>7 DEF Pushed, Held
  <2>2. cut = 0 BY <1>7 DEF Paths
  <2> QED BY <1>1, <1>2, <1>4, <2>1, <2>2
<1> QED BY <1>6, <1>7

\* The frame that is cut next is the next frame of the stream, decoded.
LEMMA CutIsNext ==
  ASSUME TypeOK, Carry, Paths, rx = "push", cut < Whole
  PROVE  Cut(cut + 1) = Frame(Pushed + 1) /\ Cut(cut + 1) \in [1 .. FrameSamples -> Samples]
<1>1. PICK b \in Nat : sent = b * FrameSamples + Len(data) BY DEF Carry, Held
<1>2. Held = data BY DEF Held
<1>3. Pushed = b + cut /\ sent - Len(data) = b * FrameSamples /\ cut \in Nat
  BY <1>1, <1>2, PushedIs
<1>4. data \in Seq(Codes) /\ Len(data) \in Nat BY DEF TypeOK
<1>5. PICK c : c = cut + 1 OBVIOUS
<1>6. c \in Nat /\ c <= Len(data) \div FrameSamples
  <2>1. Len(data) \div FrameSamples \in Nat BY <1>4, DivMod
  <2> QED BY <1>3, <1>5, <2>1 DEF Whole
<1>7. c * FrameSamples <= Len(data) /\ c * FrameSamples \in Nat BY <1>4, <1>6, Fits
<1>8. PICK x, y : x = cut * FrameSamples /\ y = b * FrameSamples OBVIOUS
<1>9. x \in Nat /\ y \in Nat /\ c * FrameSamples = x + FrameSamples
  BY <1>3, <1>5, <1>8, Multiple
<1>10. (b + cut) * FrameSamples = y + x BY <1>3, <1>8
<1>11. ASSUME NEW s \in 1 .. FrameSamples
       PROVE  /\ decodeSample(data[x + s]) = Linear(Octet((x + y) + s))
              /\ decodeSample(data[x + s]) \in Samples
  <2>1. x + s \in 1 .. Len(data) BY <1>4, <1>7, <1>9
  <2>2. data[x + s] = Octet(y + (x + s)) BY <1>2, <1>3, <1>8, <2>1 DEF Carry
  <2>3. y + (x + s) = (x + y) + s BY <1>9
  <2>4. data[x + s] \in Codes BY <1>4, <2>1
  <2> QED BY <2>2, <2>3, <2>4, DecodeIsLinear
<1>12. c - 1 = cut /\ (Pushed + 1) - 1 = b + cut BY <1>3, <1>5
<1>13. Cut(c) = [s \in 1 .. FrameSamples |-> decodeSample(data[x + s])] BY <1>8, <1>12 DEF Cut
<1>14. Frame(Pushed + 1) = [s \in 1 .. FrameSamples |-> Linear(Octet((x + y) + s))]
  <2>1. (b + cut) * FrameSamples = x + y BY <1>9, <1>10
  <2> QED BY <1>12, <2>1 DEF Frame
<1>15. Cut(c) = Frame(Pushed + 1) BY <1>11, <1>13, <1>14
<1>16. Cut(c) \in [1 .. FrameSamples -> Samples] BY <1>11, <1>13
<1> QED BY <1>5, <1>15, <1>16

-----------------------------------------------------------------------------
(* The steps                                                               *)

\* A packet of speech joins the carry-over, on either path.
LEMMA StepSpeech ==
  ASSUME IInv, ReadSpeech
  PROVE  IInv' /\ Pushed' = Pushed
<1>0. TypeOK /\ Carry /\ Paths /\ BufferIsLatest /\ UNCHANGED buf BY DEF IInv, ReadSpeech
<1>1. PICK n \in Sizes : sent + n <= MaxOctets /\ \E f \in Forms(Speech(n)) :
        Handle(f[1]) /\ meant' = f[2] /\ sent' = sent + n
  BY DEF ReadSpeech
<1>2. PICK g \in Forms(Speech(n)) : Handle(g[1]) /\ meant' = g[2] /\ sent' = sent + n
  BY <1>1
<1>3. n \in Nat /\ sent \in Nat BY <1>0 DEF TypeOK
<1>4. Parses(g[1]) /\ Parse(g[1]) = g[2] /\ \E x, y : g[2] = Flagged(n, x, y)
  BY <1>3, FormsAreRead
<1>5. /\ rx = "read" /\ rx' = "push" /\ cut' = 0 /\ rtp' = g[2] /\ TakePayload(rtp'.payload)
  BY <1>2, <1>4 DEF Handle
<1>6. PICK pay : pay = [i \in 1 .. n |-> Octet(sent + i)] OBVIOUS
<1>7. g[2].payload = pay /\ g[2] # None
  <2>1. PICK x, y : g[2] = Flagged(n, x, y) BY <1>4
  <2>2. g[2].payload = pay BY <1>6, <2>1 DEF Flagged
  <2>3. "payload" \in DOMAIN g[2] BY <2>1 DEF Flagged
  <2>4. DOMAIN None = {} BY DEF None
  <2> QED BY <2>2, <2>3, <2>4
<1>8. pay \in Seq(Codes) /\ Len(pay) = n /\ \A i \in 1 .. n : pay[i] = Octet(sent + i)
  <2>1. ASSUME NEW j \in 1 .. n PROVE Octet(sent + j) \in Codes
    <3>1. sent + j \in Nat BY <1>3
    <3> QED BY <3>1, OctetType
  <2>2. pay \in [1 .. n -> Codes] BY <1>6, <2>1
  <2>3. pay \in Seq(Codes) /\ Len(pay) = n BY <1>3, <2>2
  <2> QED BY <1>6, <2>3
<1>9. PICK r, d : r = rx_leftover /\ d = data' OBVIOUS
<1>10. r \in Seq(Codes) BY <1>0, <1>9 DEF TypeOK
<1>11. d = r \o pay /\ (rx_leftover' = r \/ rx_leftover' = d) /\ (rx_leftover' = <<>> \/ rx_leftover' = d)
  <2>1. CASE r = <<>>
    <3>1. d = pay /\ rx_leftover' = r BY <1>5, <1>7, <1>9, <2>1 DEF TakePayload
    <3>2. <<>> \o pay = pay BY <1>8
    <3> QED BY <2>1, <3>1, <3>2
  <2>2. CASE r # <<>>
    <3>1. rx_leftover' = r \o pay /\ d = rx_leftover' BY <1>5, <1>7, <1>9, <2>2 DEF TakePayload
    <3> QED BY <3>1
  <2> QED BY <2>1, <2>2
<1>12. /\ d \in Seq(Codes) /\ Len(d) = Len(r) + n
       /\ \A i \in 1 .. Len(r) : d[i] = r[i]
       /\ \A i \in 1 .. n : d[Len(r) + i] = pay[i]
  <2>0. d = r \o pay /\ pay \in Seq(Codes) BY <1>8, <1>11
  <2>1. d \in Seq(Codes) /\ Len(d) = Len(r) + Len(pay) BY <1>10, <2>0
  <2>2. \A i \in 1 .. Len(r) : d[i] = r[i] BY <1>8, <1>10, <1>11
  <2>3. \A i \in 1 .. Len(pay) : d[Len(r) + i] = pay[i] BY <1>8, <1>10, <1>11
  <2> QED BY <1>8, <2>1, <2>2, <2>3
<1>13. TypeOK'
  <2>1. sent' \in 0 .. MaxOctets BY <1>1, <1>2, <1>3
  <2>2. rx' \in {"read", "push", "done"} /\ (rx' = "push" <=> rtp' # None)
        /\ (rx' = "push" <=> meant' # None)
    BY <1>2, <1>5, <1>7
  <2>3. data' \in Seq(Codes) BY <1>9, <1>12
  <2>4. rx_leftover' \in Seq(Codes) BY <1>10, <1>11, <1>12
  <2>5. cut' \in 0 .. Whole'
    <3>1. Len(data') \in Nat BY <2>3
    <3>2. Len(data') \div FrameSamples \in Nat BY <3>1, DivMod
    <3> QED BY <1>5, <3>2 DEF Whole
  <2>6. rx_buf' = rx_buf /\ rx_started' = rx_started /\ playing' = playing BY <1>0 DEF buf
  <2>7. rx_buf' \in Seq([1 .. FrameSamples -> Samples]) /\ Len(rx_buf') <= MaxRxBuf
        /\ rx_started' \in BOOLEAN /\ playing' \in [1 .. FrameSamples -> Samples]
    BY <1>0, <2>6 DEF TypeOK
  <2> QED BY <2>1, <2>2, <2>3, <2>4, <2>5, <2>7 DEF TypeOK
<1>14. Understood' BY <1>2, <1>5 DEF Understood
<1>15. Held = r /\ Held' = d BY <1>5, <1>9 DEF Held
<1>16. PICK b \in Nat : sent = b * FrameSamples + Len(r) BY <1>0, <1>15 DEF Carry
<1>17. PICK x : x = b * FrameSamples OBVIOUS
<1>18. x \in Nat /\ Len(r) \in Nat BY <1>10, <1>17, Multiple
<1>19. sent' = x + Len(d) /\ sent - Len(r) = x /\ sent' - Len(d) = x
  BY <1>2, <1>3, <1>12, <1>16, <1>17, <1>18
<1>20. Carry'
  <2>1. ASSUME NEW i \in 1 .. Len(d) PROVE d[i] = Octet(x + i)
    <3>1. CASE i \in 1 .. Len(r)
      <4>1. r[i] = Octet((sent - Len(r)) + i) BY <1>0, <1>15, <3>1 DEF Carry
      <4> QED BY <1>12, <1>19, <3>1, <4>1
    <3>2. CASE i > Len(r)
      <4>1. PICK j : j = i - Len(r) OBVIOUS
      <4>2. j \in 1 .. n /\ i = Len(r) + j BY <1>3, <1>12, <1>18, <3>2, <4>1
      <4>3. d[i] = Octet(sent + j) BY <1>8, <1>12, <4>2
      <4>4. sent + j = x + i BY <1>3, <1>18, <1>19, <4>2
      <4> QED BY <4>3, <4>4
    <3> QED BY <1>12, <1>18, <3>1, <3>2
  <2>2. sent' = b * FrameSamples + Len(Held') BY <1>15, <1>17, <1>19
  <2>3. \A i \in 1 .. Len(Held') : Held'[i] = Octet((sent' - Len(Held')) + i)
    BY <1>15, <1>19, <2>1
  <2> QED BY <2>2, <2>3 DEF Carry
<1>21. Paths' BY <1>5, <1>9, <1>11 DEF Paths
<1>22. Pushed' = Pushed
  <2>1. Pushed = b + cut BY <1>0, <1>15, <1>16, PushedIs
  <2>2. cut = 0 BY <1>0, <1>5 DEF Paths
  <2>3. x \div FrameSamples = b BY <1>17, Multiple
  <2>4. Pushed' = (sent' - Len(d)) \div FrameSamples + cut' BY <1>5, <1>9 DEF Pushed
  <2> QED BY <1>5, <1>19, <2>1, <2>2, <2>3, <2>4
<1>23. BufferIsLatest'
  <2>1. rx_buf' = rx_buf BY <1>0 DEF buf
  <2>2. \A i \in DOMAIN rx_buf : rx_buf[i] = Frame(Pushed - Len(rx_buf) + i)
    BY <1>0 DEF BufferIsLatest
  <2> QED BY <1>22, <2>1, <2>2 DEF BufferIsLatest
<1> QED BY <1>13, <1>14, <1>20, <1>21, <1>23, <1>22 DEF IInv

\* Junk leaves the thread as it was.
LEMMA StepJunk ==
  ASSUME IInv, ReadJunk
  PROVE  UNCHANGED vars
<1>1. PICK u \in Junk(Speech(2)) \cup {<<>>} : Handle(u) BY DEF ReadJunk
<1>2. sent \in Nat BY DEF IInv, TypeOK
<1>3. ~Parses(u) BY <1>1, <1>2, JunkIsSkipped
<1>4. UNCHANGED thread BY <1>1, <1>3 DEF Handle
<1> QED BY <1>4 DEF ReadJunk, vars

LEMMA PushCounts ==
  ASSUME IInv, PushFrame
  PROVE  Pushed \in Nat /\ Pushed' = Pushed + 1
<1>1. TypeOK /\ Carry /\ Paths BY DEF IInv
<1>2. rx = "push" /\ cut' = cut + 1 /\ rx' = rx /\ sent' = sent /\ data' = data
  BY DEF PushFrame, stream
<1>3. Held = data BY <1>2 DEF Held
<1>4. PICK b \in Nat : sent = b * FrameSamples + Len(Held) BY <1>1 DEF Carry
<1>5. Pushed = b + cut /\ sent - Len(data) = b * FrameSamples /\ cut \in Nat
  BY <1>1, <1>3, <1>4, PushedIs
<1>6. Pushed' = (sent - Len(data)) \div FrameSamples + (cut + 1) BY <1>2 DEF Pushed
<1>7. (b * FrameSamples) \div FrameSamples = b BY Multiple
<1> QED BY <1>5, <1>6, <1>7

\* A frame is pushed: the buffer's frames move on by one.
LEMMA StepPush ==
  ASSUME IInv, PushFrame
  PROVE  IInv'
<1>0. TypeOK /\ Understood /\ Carry /\ Paths /\ BufferIsLatest BY DEF IInv
<1>1. /\ rx = "push" /\ cut < Whole /\ cut' = cut + 1
      /\ rx' = rx /\ sent' = sent /\ meant' = meant /\ rtp' = rtp /\ data' = data
      /\ rx_leftover' = rx_leftover /\ playing' = playing
  BY DEF PushFrame, stream
<1>2. PICK f : f = Cut(cut') OBVIOUS
<1>3. f = Frame(Pushed + 1) /\ f \in [1 .. FrameSamples -> Samples]
  BY <1>0, <1>1, <1>2, CutIsNext
<1>4. PICK S : S = [1 .. FrameSamples -> Samples] OBVIOUS
<1>5. f \in S /\ rx_buf \in Seq(S) /\ Len(rx_buf) <= MaxRxBuf BY <1>0, <1>3, <1>4 DEF TypeOK
<1>6. PICK q, l : q = rx_buf /\ l = Len(q) OBVIOUS
<1>7. q \in Seq(S) /\ l \in Nat /\ l <= MaxRxBuf BY <1>5, <1>6
<1>8. PICK h : h = IF l >= MaxRxBuf THEN Tail(q) ELSE q OBVIOUS
<1>9. rx_buf' = Append(h, f) /\ rx_started' = (rx_started \/ Len(rx_buf') >= Prefetch)
  BY <1>2, <1>6, <1>8 DEF PushFrame
<1>10. \E d \in {0, 1} : /\ h \in Seq(S) /\ Len(h) = l - d /\ l - d < MaxRxBuf
                         /\ \A i \in 1 .. l - d : h[i] = q[i + d]
  <2>1. CASE l >= MaxRxBuf
    <3>1. q # <<>> /\ h = Tail(q) BY <1>6, <1>7, <1>8, <2>1
    <3>2. h \in Seq(S) /\ Len(h) = l - 1 BY <1>6, <1>7, <3>1, HeadTailProperties
    <3>3. \A i \in 1 .. l - 1 : h[i] = q[i + 1] BY <1>6, <1>7, <3>1, HeadTailProperties
    <3> QED BY <1>7, <3>2, <3>3
  <2>2. CASE l < MaxRxBuf
    <3>1. h = q BY <1>7, <1>8, <2>2
    <3>2. \A i \in 1 .. l - 0 : i + 0 = i BY <1>7
    <3> QED BY <1>6, <1>7, <2>2, <3>1, <3>2
  <2> QED BY <1>7, <2>1, <2>2
<1>11. PICK d \in {0, 1} : /\ h \in Seq(S) /\ Len(h) = l - d /\ l - d < MaxRxBuf
                          /\ \A i \in 1 .. l - d : h[i] = q[i + d]
  BY <1>10
<1>12. PICK r, m : r = Append(h, f) /\ m = l - d OBVIOUS
<1>13. m \in Nat BY <1>7, <1>11, <1>12
<1>14. /\ r \in Seq(S) /\ Len(r) = m + 1 /\ r[m + 1] = f
       /\ \A i \in 1 .. m : r[i] = h[i]
  BY <1>5, <1>11, <1>12, AppendProperties
<1>15. TypeOK'
  <2>1. /\ sent' \in 0 .. MaxOctets /\ rx' \in {"read", "push", "done"}
        /\ (rx' = "push" <=> rtp' # None) /\ (rx' = "push" <=> meant' # None)
        /\ data' \in Seq(Codes) /\ rx_leftover' \in Seq(Codes)
        /\ playing' \in [1 .. FrameSamples -> Samples]
    BY <1>0, <1>1 DEF TypeOK
  <2>2. cut' \in 0 .. Whole'
    <3>1. Whole' = Whole BY <1>1 DEF Whole
    <3>2. cut \in 0 .. Whole BY <1>0 DEF TypeOK
    <3>3. Len(data) \in Nat BY <1>0 DEF TypeOK
    <3>4. Whole \in Nat BY <3>3, DivMod DEF Whole
    <3> QED BY <1>1, <3>1, <3>2, <3>4
  <2>3. rx_buf' \in Seq([1 .. FrameSamples -> Samples]) BY <1>4, <1>9, <1>12, <1>14
  <2>4. Len(rx_buf') <= MaxRxBuf BY <1>9, <1>11, <1>12, <1>13, <1>14
  <2>5. rx_started' \in BOOLEAN BY <1>9
  <2> QED BY <2>1, <2>2, <2>3, <2>4, <2>5 DEF TypeOK
<1>16. Understood' BY <1>0, <1>1 DEF Understood
<1>17. Held' = Held BY <1>1 DEF Held
<1>18. Carry' BY <1>0, <1>1, <1>17 DEF Carry
<1>19. Paths' BY <1>0, <1>1 DEF Paths
<1>20. PICK p : p = Pushed OBVIOUS
<1>21. p \in Nat /\ Pushed' = p + 1 BY <1>20, PushCounts
<1>22. BufferIsLatest'
  <2>1. \A i \in 1 .. l : q[i] = Frame((p - l) + i) BY <1>0, <1>6, <1>7, <1>20 DEF BufferIsLatest
  <2>2. ASSUME NEW i \in 1 .. m + 1 PROVE r[i] = Frame((p + 1) - (m + 1) + i)
    <3>1. CASE i = m + 1
      <4>1. (p + 1) - (m + 1) + i = p + 1 BY <1>13, <1>21, <3>1
      <4> QED BY <1>3, <1>14, <1>20, <3>1, <4>1
    <3>2. CASE i \in 1 .. m
      <4>1. r[i] = q[i + d] BY <1>11, <1>12, <1>14, <3>2
      <4>2. i + d \in 1 .. l BY <1>7, <1>12, <3>2
      <4>3. (p - l) + (i + d) = (p + 1) - (m + 1) + i BY <1>7, <1>12, <1>13, <1>21
      <4> QED BY <2>1, <4>1, <4>2, <4>3
    <3> QED BY <1>13, <3>1, <3>2
  <2>3. rx_buf' = r BY <1>9, <1>12
  <2>4. DOMAIN r = 1 .. m + 1 BY <1>14
  <2> QED BY <1>14, <1>21, <2>2, <2>3, <2>4 DEF BufferIsLatest
<1> QED BY <1>15, <1>16, <1>18, <1>19, <1>22 DEF IInv

\* What fills no frame is kept: the same octets on both paths.
LEMMA StepKeep ==
  ASSUME IInv, Keep
  PROVE  IInv' /\ Pushed' = Pushed
<1>0. TypeOK /\ Understood /\ Carry /\ Paths /\ BufferIsLatest BY DEF IInv
<1>1. /\ rx = "push" /\ cut = Whole /\ rx' = "read" /\ rtp' = None /\ data' = <<>> /\ cut' = 0
      /\ meant' = None /\ sent' = sent
      /\ rx_buf' = rx_buf /\ rx_started' = rx_started /\ playing' = playing
  BY DEF Keep, buf
<1>2. data \in Seq(Codes) /\ Len(data) \in Nat /\ sent \in 0 .. MaxOctets BY <1>0 DEF TypeOK
<1>3. PICK b \in Nat : sent = b * FrameSamples + Len(data) BY <1>0, <1>1 DEF Carry, Held
<1>4. Held = data BY <1>1 DEF Held
<1>5. Pushed = b + cut /\ sent - Len(data) = b * FrameSamples /\ cut \in Nat
  BY <1>0, <1>3, <1>4, PushedIs
<1>6. PICK x, y, l : x = cut * FrameSamples /\ y = b * FrameSamples /\ l = Len(data) OBVIOUS
<1>7. x \in Nat /\ x <= l /\ l - x < FrameSamples /\ l \in Nat
  BY <1>1, <1>2, <1>5, <1>6, Fits DEF Whole
<1>8. y \in Nat BY <1>6, Multiple
<1>9. PICK r : r = SubSeq(data, x + 1, l) OBVIOUS
<1>10. rx_leftover' = r
  <2>1. rx_leftover = <<>> \/ rx_leftover = data BY <1>0, <1>1 DEF Paths
  <2>2. rx_leftover' = SubSeq(data, x + 1, Len(data)) BY <1>6, <2>1 DEF Keep, After
  <2> QED BY <1>6, <1>9, <2>2
<1>11. r \in Seq(Codes) /\ Len(r) = l - x /\ \A i \in 1 .. l - x : r[i] = data[x + i]
  <2>1. PICK c : c = x + 1 OBVIOUS
  <2>2. c \in Nat /\ l \in Nat /\ 1 <= c /\ c <= l + 1 /\ l <= Len(data) BY <1>6, <1>7, <2>1
  <2>3. /\ SubSeq(data, c, l) \in Seq(Codes) /\ Len(SubSeq(data, c, l)) = l + 1 - c
        /\ \A j \in 1 .. l + 1 - c : SubSeq(data, c, l)[j] = data[(c - 1) + j]
    BY <1>2, <2>2, Part
  <2>4. l + 1 - c = l - x /\ c - 1 = x BY <1>7, <2>1
  <2> QED BY <1>9, <2>1, <2>3, <2>4
<1>12. Held' = r BY <1>1, <1>10 DEF Held
<1>13. TypeOK'
  <2>1. rx' # "push" /\ rx' \in {"read", "push", "done"} /\ rtp' = None /\ meant' = None
    BY <1>1
  <2>2. data' \in Seq(Codes) BY <1>1
  <2>3. rx_leftover' \in Seq(Codes) BY <1>10, <1>11
  <2>4. cut' \in 0 .. Whole'
    <3>1. Len(data') \in Nat BY <2>2
    <3>2. Whole' \in Nat BY <3>1, DivMod DEF Whole
    <3> QED BY <1>1, <3>2
  <2>5. rx_buf' \in Seq([1 .. FrameSamples -> Samples]) /\ Len(rx_buf') <= MaxRxBuf
        /\ rx_started' \in BOOLEAN /\ playing' \in [1 .. FrameSamples -> Samples]
    BY <1>0, <1>1 DEF TypeOK
  <2> QED BY <1>1, <1>2, <2>1, <2>2, <2>3, <2>4, <2>5 DEF TypeOK
<1>14. Understood' BY <1>1 DEF Understood
<1>15. PICK z : z = b + cut OBVIOUS
<1>16. z \in Nat /\ z * FrameSamples = y + x BY <1>5, <1>6, <1>15
<1>17. sent = (y + x) + (l - x) /\ sent - (l - x) = y + x BY <1>3, <1>6, <1>7, <1>8
<1>18. Carry'
  <2>1. sent' = z * FrameSamples + Len(Held') BY <1>1, <1>11, <1>12, <1>16, <1>17
  <2>2. ASSUME NEW i \in 1 .. l - x PROVE r[i] = Octet((sent - (l - x)) + i)
    <3>1. x + i \in 1 .. l BY <1>7
    <3>2. data[x + i] = Octet((sent - l) + (x + i)) BY <1>0, <1>4, <1>6, <3>1 DEF Carry
    <3>3. (sent - l) + (x + i) = (sent - (l - x)) + i BY <1>7, <1>8, <1>17
    <3> QED BY <1>11, <3>2, <3>3
  <2>3. \A i \in 1 .. Len(Held') : Held'[i] = Octet((sent' - Len(Held')) + i)
    BY <1>1, <1>11, <1>12, <2>2
  <2> QED BY <1>16, <2>1, <2>3 DEF Carry
<1>19. Paths' BY <1>1, <1>7, <1>10, <1>11 DEF Paths
<1>20. Pushed' = Pushed
  <2>1. Pushed' = (sent' - Len(r)) \div FrameSamples BY <1>1, <1>10 DEF Pushed
  <2>2. sent' - Len(r) = z * FrameSamples BY <1>1, <1>11, <1>16, <1>17
  <2>3. (z * FrameSamples) \div FrameSamples = z BY <1>16, Multiple
  <2> QED BY <1>5, <1>15, <2>1, <2>2, <2>3
<1>21. BufferIsLatest' BY <1>0, <1>1, <1>20 DEF BufferIsLatest
<1> QED BY <1>13, <1>14, <1>18, <1>19, <1>21, <1>20 DEF IInv

\* The end of the connection.
LEMMA StepHangup ==
  ASSUME IInv, Hangup
  PROVE  IInv'
<1>0. TypeOK /\ Understood /\ Carry /\ Paths /\ BufferIsLatest BY DEF IInv
<1>1. /\ rx = "read" /\ rx' = "done" /\ sent' = sent /\ meant' = meant /\ rtp' = rtp
      /\ data' = data /\ cut' = cut /\ rx_leftover' = rx_leftover
      /\ rx_buf' = rx_buf /\ rx_started' = rx_started /\ playing' = playing
  BY DEF Hangup, stream, buf
<1>2. TypeOK'
  <2>1. Whole' = Whole BY <1>1 DEF Whole
  <2> QED BY <1>0, <1>1, <2>1 DEF TypeOK
<1>3. Understood' BY <1>1 DEF Understood
<1>4. Held' = Held BY <1>1 DEF Held
<1>5. Carry' BY <1>0, <1>1, <1>4 DEF Carry
<1>6. Paths' BY <1>0, <1>1 DEF Paths
<1>7. Pushed' = Pushed BY <1>1 DEF Pushed
<1>8. BufferIsLatest' BY <1>0, <1>1, <1>7 DEF BufferIsLatest
<1> QED BY <1>2, <1>3, <1>5, <1>6, <1>8 DEF IInv

LEMMA SilenceType == Silence \in [1 .. FrameSamples -> Samples]
<1>1. 2 ^ 15 = 32768 OBVIOUS
<1>2. 0 \in Samples BY <1>1 DEF Samples
<1> QED BY <1>2 DEF Silence

\* The clock takes the oldest frame, or finds none.
LEMMA StepGet ==
  ASSUME IInv, GetFrame
  PROVE  IInv'
<1>0. TypeOK /\ Understood /\ Carry /\ Paths /\ BufferIsLatest BY DEF IInv
<1>1. /\ sent' = sent /\ meant' = meant /\ rtp' = rtp /\ rx' = rx /\ data' = data /\ cut' = cut
      /\ rx_leftover' = rx_leftover /\ rx_started' = rx_started
  BY DEF GetFrame, stream, thread
<1>2. PICK S : S = [1 .. FrameSamples -> Samples] OBVIOUS
<1>3. PICK q, l, p : q = rx_buf /\ l = Len(q) /\ p = Pushed OBVIOUS
<1>4. q \in Seq(S) /\ l \in Nat /\ l <= MaxRxBuf BY <1>0, <1>2, <1>3 DEF TypeOK
<1>5. p \in Nat
  <2>1. PICK b \in Nat : sent = b * FrameSamples + Len(Held) BY <1>0 DEF Carry
  <2>2. Pushed = b + cut /\ cut \in Nat BY <1>0, <2>1, PushedIs
  <2> QED BY <1>3, <2>2
<1>6. \A i \in 1 .. l : q[i] = Frame((p - l) + i) BY <1>0, <1>3, <1>4 DEF BufferIsLatest
<1>7. PICK r, m : r = rx_buf' /\ m = Len(r) OBVIOUS
<1>8. /\ r \in Seq(S) /\ m \in Nat /\ m <= MaxRxBuf /\ playing' \in S
      /\ \A i \in 1 .. m : r[i] = Frame((p - m) + i)
  <2>1. CASE ~rx_started \/ rx_buf = <<>>
    <3>1. r = q /\ playing' = Silence BY <1>3, <1>7, <2>1 DEF GetFrame
    <3> QED BY <1>2, <1>3, <1>4, <1>6, <1>7, <3>1, SilenceType
  <2>2. CASE ~(~rx_started \/ rx_buf = <<>>)
    <3>1. q # <<>> /\ r = Tail(q) /\ playing' = Head(q) BY <1>3, <1>7, <2>2 DEF GetFrame
    <3>2. r \in Seq(S) /\ Len(r) = l - 1 /\ l # 0 /\ Head(q) \in S
      BY <1>3, <1>4, <3>1, HeadTailProperties, EmptySeq
    <3>3. \A i \in 1 .. l - 1 : r[i] = q[i + 1] BY <1>3, <1>4, <3>1, HeadTailProperties
    <3>4. m = l - 1 BY <1>7, <3>2
    <3>5. ASSUME NEW i \in 1 .. m PROVE r[i] = Frame((p - m) + i)
      <4>1. i + 1 \in 1 .. l BY <1>4, <3>4
      <4>2. (p - l) + (i + 1) = (p - m) + i BY <1>4, <1>5, <3>4
      <4> QED BY <1>6, <3>3, <3>4, <4>1, <4>2
    <3> QED BY <1>4, <3>1, <3>2, <3>4, <3>5
  <2> QED BY <2>1, <2>2
<1>9. TypeOK'
  <2>1. /\ sent' \in 0 .. MaxOctets /\ rx' \in {"read", "push", "done"}
        /\ (rx' = "push" <=> rtp' # None) /\ (rx' = "push" <=> meant' # None)
        /\ data' \in Seq(Codes) /\ rx_leftover' \in Seq(Codes) /\ rx_started' \in BOOLEAN
    BY <1>0, <1>1 DEF TypeOK
  <2>2. cut' \in 0 .. Whole'
    <3>1. Whole' = Whole BY <1>1 DEF Whole
    <3> QED BY <1>0, <1>1, <3>1 DEF TypeOK
  <2>3. rx_buf' \in Seq([1 .. FrameSamples -> Samples]) /\ Len(rx_buf') <= MaxRxBuf
        /\ playing' \in [1 .. FrameSamples -> Samples]
    BY <1>2, <1>7, <1>8
  <2> QED BY <2>1, <2>2, <2>3 DEF TypeOK
<1>10. Understood' BY <1>0, <1>1 DEF Understood
<1>11. Held' = Held BY <1>1 DEF Held
<1>12. Carry' BY <1>0, <1>1, <1>11 DEF Carry
<1>13. Paths' BY <1>0, <1>1 DEF Paths
<1>14. Pushed' = p BY <1>1, <1>3 DEF Pushed
<1>15. BufferIsLatest'
  <2>1. DOMAIN r = 1 .. m BY <1>7, <1>8
  <2> QED BY <1>7, <1>8, <1>14, <2>1 DEF BufferIsLatest
<1> QED BY <1>9, <1>10, <1>12, <1>13, <1>15 DEF IInv

LEMMA Begins == Init => IInv
<1>. SUFFICES ASSUME Init PROVE IInv OBVIOUS
<1>1. /\ sent = 0 /\ meant = None /\ rtp = None /\ rx = "read" /\ data = <<>> /\ cut = 0
      /\ rx_leftover = <<>> /\ rx_buf = <<>> /\ rx_started = TRUE /\ playing = Silence
  BY DEF Init, Started
<1>2. Len(data) = 0 /\ Len(rx_leftover) = 0 /\ Len(rx_buf) = 0 BY <1>1
<1>3. TypeOK
  <2>1. Whole \in Nat BY <1>2, DivMod DEF Whole
  <2>2. data \in Seq(Codes) /\ rx_leftover \in Seq(Codes)
        /\ rx_buf \in Seq([1 .. FrameSamples -> Samples])
    BY <1>1
  <2> QED BY <1>1, <1>2, <2>1, <2>2, SilenceType DEF TypeOK
<1>4. Understood BY <1>1 DEF Understood
<1>5. Held = <<>> BY <1>1 DEF Held
<1>6. Carry
  <2>1. 0 * FrameSamples = 0 OBVIOUS
  <2>2. sent = 0 * FrameSamples + Len(Held) BY <1>1, <1>5, <2>1
  <2> QED BY <1>5, <2>2 DEF Carry
<1>7. Paths BY <1>1, <1>2 DEF Paths
<1>8. BufferIsLatest BY <1>1 DEF BufferIsLatest
<1> QED BY <1>3, <1>4, <1>6, <1>7, <1>8 DEF IInv

LEMMA Step ==
  ASSUME IInv, [Next]_vars
  PROVE  IInv'
<1>1. CASE ReadSpeech BY <1>1, StepSpeech
<1>2. CASE PushFrame BY <1>2, StepPush
<1>3. CASE Keep BY <1>3, StepKeep
<1>4. CASE Hangup BY <1>4, StepHangup
<1>5. CASE GetFrame BY <1>5, StepGet
<1>6. CASE UNCHANGED vars
  <2>1. /\ sent' = sent /\ meant' = meant /\ rtp' = rtp /\ rx' = rx /\ data' = data /\ cut' = cut
        /\ rx_leftover' = rx_leftover /\ rx_buf' = rx_buf /\ rx_started' = rx_started
        /\ playing' = playing
    BY <1>6 DEF vars, stream, thread, buf
  <2>2. TypeOK' BY <2>1 DEF IInv, TypeOK, Whole
  <2>3. Held' = Held BY <2>1 DEF Held
  <2>4. Understood' /\ Paths' BY <2>1 DEF IInv, Understood, Paths
  <2>5. Carry' BY <2>1, <2>3 DEF IInv, Carry
  <2>6. Pushed' = Pushed BY <2>1 DEF Pushed
  <2>7. BufferIsLatest' BY <2>1, <2>6 DEF IInv, BufferIsLatest
  <2> QED BY <2>2, <2>4, <2>5, <2>7 DEF IInv
<1>7. CASE ReadJunk BY <1>6, <1>7, StepJunk
<1> QED BY <1>1, <1>2, <1>3, <1>4, <1>5, <1>6, <1>7 DEF Next

LEMMA Invariance == Spec => []IInv
<1>1. IInv /\ [Next]_vars => IInv' BY Step
<1> QED BY Begins, <1>1, PTL DEF Spec

-----------------------------------------------------------------------------
(* Theorems                                                                *)

\* The thread's and the buffer's state have their types; in particular the
\* buffer keeps its bound and what is played is a whole frame of samples.
THEOREM TypeCorrect == Spec => []TypeOK
<1>1. IInv => TypeOK BY DEF IInv
<1> QED BY <1>1, Invariance, PTL

\* parse() reads every form of every packet as the peer meant it, and lets no
\* junk through (participant.cpp, rx_thread_func; rtp_packet.cpp, parse).
THEOREM PacketsAreUnderstood == Spec => []Understood
<1>1. IInv => Understood BY DEF IInv
<1> QED BY <1>1, Invariance, PTL

\* The carry-over is the end of the stream that fills no frame, on either of
\* its paths and for packets of every size.
THEOREM NothingIsLostBetweenPackets == Spec => []CarryOver
<1>1. ASSUME IInv PROVE CarryOver
  <2>0. TypeOK /\ Carry /\ Paths BY <1>1 DEF IInv
  <2>1. SUFFICES ASSUME rx = "read" PROVE CarryOver BY DEF CarryOver
  <2>2. PICK r, l : r = rx_leftover /\ l = Len(r) OBVIOUS
  <2>3. r \in Seq(Codes) /\ l \in Nat /\ l < FrameSamples BY <2>0, <2>1, <2>2 DEF TypeOK, Paths
  <2>4. Held = r BY <2>1, <2>2 DEF Held
  <2>5. PICK b \in Nat : sent = b * FrameSamples + l BY <2>0, <2>2, <2>4 DEF Carry
  <2>6. sent % FrameSamples = l BY <2>3, <2>5, ModUnique
  <2>7. \A i \in 1 .. l : r[i] = Octet((sent - l) + i) BY <2>0, <2>2, <2>4 DEF Carry
  <2>8. r = [i \in 1 .. l |-> r[i]] BY <2>2, <2>3
  <2>9. r = [i \in 1 .. l |-> Octet((sent - l) + i)] BY <2>7, <2>8
  <2> QED BY <2>2, <2>6, <2>9 DEF CarryOver
<1> QED BY <1>1, Invariance, PTL

\* The buffer has the latest whole frames of the stream, decoded, in order and
\* without a gap, however packets, pushes and the clock interleave.
THEOREM LatestFramesWait == Spec => []BufferIsLatest
<1>1. IInv => BufferIsLatest BY DEF IInv
<1> QED BY <1>1, Invariance, PTL

-----------------------------------------------------------------------------
(* The refinement of PlayoutBuffer                                         *)

\* Pushing a frame puts the next one.
LEMMA PushPuts ==
  ASSUME IInv, PushFrame
  PROVE  Playout!Put
<1>1. TypeOK /\ Carry /\ Paths BY DEF IInv
<1>2. rx = "push" /\ cut < Whole /\ cut' = cut + 1 /\ playing' = playing BY DEF PushFrame
<1>3. PICK f : f = Cut(cut') OBVIOUS
<1>4. f = Frame(Pushed + 1) BY <1>1, <1>2, <1>3, CutIsNext
<1>5. Pushed' = Pushed + 1 BY PushCounts
<1>6. f = Frame(Pushed') BY <1>4, <1>5
<1>7. Len(rx_buf) >= MaxRxBuf <=> Len(rx_buf) = MaxRxBuf
  <2>1. Len(rx_buf) \in Nat /\ Len(rx_buf) <= MaxRxBuf BY <1>1 DEF TypeOK
  <2> QED BY <2>1, ReceivePathAssumption
<1>8. rx_buf' = Append(IF Len(rx_buf) >= MaxRxBuf THEN Tail(rx_buf) ELSE rx_buf, f)
  BY <1>3 DEF PushFrame
<1>9. rx_buf' = Append(IF Len(rx_buf) = MaxRxBuf THEN Tail(rx_buf) ELSE rx_buf, Frame(Pushed'))
  BY <1>6, <1>7, <1>8
<1> QED BY <1>2, <1>5, <1>9 DEF Playout!Put

\* The clock takes the oldest frame, or gets silence if there is none.
LEMMA GetTakes ==
  ASSUME rx_started = TRUE, GetFrame
  PROVE  Playout!Take \/ Playout!Silence
<1>1. Pushed' = Pushed BY DEF GetFrame, Pushed, stream, thread
<1>2. CASE rx_buf = <<>>
  <2>1. rx_buf' = rx_buf /\ playing' = Silence BY <1>2 DEF GetFrame
  <2> QED BY <1>1, <1>2, <2>1 DEF Playout!Silence
<1>3. CASE rx_buf # <<>>
  <2>1. playing' = Head(rx_buf) /\ rx_buf' = Tail(rx_buf) BY <1>3 DEF GetFrame
  <2> QED BY <1>1, <1>3, <2>1 DEF Playout!Take
<1> QED BY <1>2, <1>3

\* All other steps are of no concern to the buffer.
LEMMA OtherStays ==
  ASSUME rx_buf' = rx_buf, playing' = playing, Pushed' = Pushed
  PROVE  UNCHANGED Playout!buffer
BY DEF Playout!buffer

LEMMA StepRefines ==
  ASSUME IInv, rx_started = TRUE, [Next]_vars
  PROVE  [Playout!Next]_(Playout!buffer)
<1>1. CASE PushFrame BY <1>1, PushPuts DEF Playout!Next
<1>2. CASE GetFrame BY <1>2, GetTakes DEF Playout!Next
<1>3. CASE ReadSpeech
  <2>1. rx_buf' = rx_buf /\ playing' = playing BY <1>3 DEF ReadSpeech, buf
  <2> QED BY <1>3, <2>1, StepSpeech, OtherStays
<1>4. CASE Keep
  <2>1. rx_buf' = rx_buf /\ playing' = playing BY <1>4 DEF Keep, buf
  <2> QED BY <1>4, <2>1, StepKeep, OtherStays
<1>5. CASE Hangup
  <2>1. rx_buf' = rx_buf /\ playing' = playing BY <1>5 DEF Hangup, buf
  <2>2. Pushed' = Pushed BY <1>5 DEF Hangup, Pushed, stream
  <2> QED BY <2>1, <2>2, OtherStays
<1>6. CASE UNCHANGED vars
  <2>1. rx_buf' = rx_buf /\ playing' = playing /\ Pushed' = Pushed
    BY <1>6 DEF vars, stream, thread, buf, Pushed
  <2> QED BY <2>1, OtherStays
<1>7. CASE ReadJunk BY <1>6, <1>7, StepJunk
<1> QED BY <1>1, <1>2, <1>3, <1>4, <1>5, <1>6, <1>7 DEF Next

\* The receiving half implements PlayoutBuffer for every audio and at every
\* size of frames and buffer: the frames of the stream, each whole and in
\* order, the oldest given up when one comes too many, and silence for the
\* bridge only when none waits.
THEOREM ReceiverIsABuffer == Spec => PlayoutSpec
<1>1. Init => Playout!Init
  <2>1. SUFFICES ASSUME Init PROVE Playout!Init OBVIOUS
  <2>2. sent = 0 /\ rx = "read" /\ rx_leftover = <<>> /\ rx_buf = <<>> /\ playing = Silence
    BY <2>1 DEF Init
  <2>3. Pushed = 0
    <3>1. PICK z : z = 0 * FrameSamples OBVIOUS
    <3>2. z = 0 /\ z \div FrameSamples = 0 BY <3>1, Multiple
    <3>3. Len(<<>>) = 0 /\ 0 - 0 = 0 OBVIOUS
    <3>4. sent - Len(rx_leftover) = 0 BY <2>2, <3>3
    <3> QED BY <2>2, <3>2, <3>4 DEF Pushed
  <2> QED BY <2>2, <2>3 DEF Playout!Init
<1>2. Init => rx_started = TRUE BY DEF Init, Started
<1>3. IInv /\ rx_started = TRUE /\ [Next]_vars => (rx_started = TRUE)'
  <2>1. SUFFICES ASSUME IInv, rx_started = TRUE, [Next]_vars PROVE rx_started' = TRUE OBVIOUS
  <2> QED BY <2>1
      DEF Next, vars, buf, thread, ReadSpeech, ReadJunk, PushFrame, Keep, Hangup, GetFrame
<1>4. IInv /\ rx_started = TRUE /\ [Next]_vars => [Playout!Next]_(Playout!buffer)
  BY StepRefines
<1> QED BY <1>1, <1>2, <1>3, <1>4, Invariance, PTL DEF Spec, PlayoutSpec, Playout!Spec
=============================================================================
