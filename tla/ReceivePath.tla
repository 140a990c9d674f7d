----------------------------- MODULE ReceivePath -----------------------------
(***************************************************************************)
(* The incoming half of one Participant (participant.cpp): rx_thread_func  *)
(* reads packets from the peer's connection, parses them (RtpPacket), cuts *)
(* their payloads into frames across the packets' borders, decodes them    *)
(* (G711) and puts them into rx_buf_; the conference clock takes them out  *)
(* in on_get_frame.                                                        *)
(*                                                                         *)
(* The audio of the peer is a stream of octets, numbered from 1; a packet  *)
(* brings the next few of them, in whatever form the peer likes.  Audio    *)
(* says what the octets are.  A section under rx_buf_mutex_ is one action. *)
(***************************************************************************)
EXTENDS RtpPacket, G711

CONSTANTS
  FrameSamples,    \* FRAME_SAMPLES, 160
  MaxRxBuf,        \* MAX_RX_BUF_FRAMES, 50
  Prefetch,        \* PREFETCH_FRAMES, 10
  Sizes,           \* the numbers of octets a packet may bring
  MaxOctets,       \* bound on the octets of the stream
  Audio            \* the octets of the stream

ASSUME ReceivePathAssumption ==
  /\ FrameSamples \in Nat \ {0} /\ MaxRxBuf \in Nat \ {0} /\ Prefetch \in Nat
  /\ Sizes \subseteq Nat /\ MaxOctets \in Nat /\ Audio \in [1 .. MaxOctets -> Codes]

VARIABLES
  sent,            \* octets of the stream the peer has sent
  meant,           \* the packet being handled, as the peer meant it; or None
  rtp,             \* the same as parse() understood it; or None
  rx,              \* where rx_thread_func is
  data,            \* src_data: the octets to be cut into frames
  cut,             \* how many frames were cut from them so far
  rx_leftover,     \* octets kept for the next packet
  rx_buf,          \* frames waiting for the clock, oldest first
  rx_started,      \* may frames be played?
  playing          \* what on_get_frame gave last: a frame or Silence

stream == <<sent, meant>>
thread == <<rtp, rx, data, cut, rx_leftover>>
buf    == <<rx_buf, rx_started, playing>>
vars   == <<stream, thread, buf>>

None    == <<>>
Silence == [i \in 1 .. FrameSamples |-> 0]

-----------------------------------------------------------------------------
(* The peer                                                                *)

\* Octet number k of the audio.  Past the bound, where only packets that are
\* skipped can reach, any code does.
Octet(k) == IF k \in 1 .. MaxOctets THEN Audio[k] ELSE 0

\* The peer's SSRC, and a 16-bit field that counts on from n.
Source  == <<65535, 4097>>
Half(n) == n % 2 ^ 16

\* The packet with the next n octets, as any sender may number and stamp it.
Speech(n) ==
  [version |-> 2, padding |-> FALSE, extension |-> FALSE, marker |-> n = 1,
   payload_type |-> 8, sequence |-> Half(258 + sent),
   timestamp |-> <<Half(772 + n), Half(1286 + sent)>>, ssrc |-> Source,
   payload |-> [i \in 1 .. n |-> Octet(sent + i)]]

\* Put flags into the first octet, and octets between fixed header and payload.
Marked(octets, flags, inserted, appended) ==
  <<octets[1] + flags>> \o SubSeq(octets, 2, HeaderOctets) \o inserted
    \o SubSeq(octets, HeaderOctets + 1, Len(octets)) \o appended

\* The forms a packet p can legally take: plain, as the server itself sends
\* it, with a source, with an extension of one word, with padding, with all.
Forms(p) ==
  LET plain == Serialize(p)
      csrc  == <<1, 2, 3, 4>>
      ext   == <<190, 222, 0, 1, 5, 6, 7, 8>>
  IN  {<<plain, p>>,
       <<Marked(plain, 1, csrc, <<>>), p>>,
       <<Marked(plain, 16, ext, <<>>), [p EXCEPT !.extension = TRUE]>>,
       <<Marked(plain, 32, <<>>, <<0, 0, 3>>), [p EXCEPT !.padding = TRUE]>>,
       <<Marked(plain, 49, csrc \o ext, <<1>>),
         [p EXCEPT !.extension = TRUE, !.padding = TRUE]>>}

\* Packets the thread must skip: cut short in the fixed header, of another
\* version, without the sources, the extension's header or the words it
\* announces, or with more padding than payload.
Junk(p) ==
  LET plain == Serialize(p) IN
  {SubSeq(plain, 1, HeaderOctets - 1),
   <<plain[1] - 64>> \o Tail(plain),
   Marked(SubSeq(plain, 1, HeaderOctets), 2, <<1, 2, 3, 4>>, <<>>),
   Marked(SubSeq(plain, 1, HeaderOctets), 16, <<190, 222, 0>>, <<>>),
   Marked(SubSeq(plain, 1, HeaderOctets), 16, <<190, 222, 1, 0>>, <<9>>),
   Marked(SubSeq(plain, 1, HeaderOctets), 32, <<9, 9>>, <<4>>)}

-----------------------------------------------------------------------------
(* rx_thread_func                                                          *)

\* Without a carry-over the frames are cut from the payload itself.
TakePayload(payload) ==
  IF rx_leftover = <<>>
  THEN data' = payload /\ UNCHANGED rx_leftover
  ELSE rx_leftover' = rx_leftover \o payload /\ data' = rx_leftover'

\* read_exact of the length and of the packet, parse, and what follows.
Handle(octets) ==
  /\ rx = "read"
  /\ IF Parses(octets)
     THEN /\ rtp' = Parse(octets) /\ TakePayload(rtp'.payload)
          /\ cut' = 0 /\ rx' = "push"
     ELSE UNCHANGED thread

ReadSpeech ==
  /\ \E n \in Sizes : sent + n <= MaxOctets /\ \E f \in Forms(Speech(n)) :
       /\ Handle(f[1])
       /\ meant' = f[2] /\ sent' = sent + n
  /\ UNCHANGED buf

\* A length of zero is skipped too.
ReadJunk ==
  /\ \E octets \in Junk(Speech(2)) \cup {<<>>} : Handle(octets)
  /\ UNCHANGED <<stream, buf>>

\* n_full
Whole == Len(data) \div FrameSamples

Cut(i) ==
  [s \in 1 .. FrameSamples |-> decodeSample(data[(i - 1) * FrameSamples + s])]

\* Mutant: a frame that finds the buffer full is the one given up.
PushUnlessFull ==
  /\ rx = "push" /\ cut < Whole
  /\ cut' = cut + 1
  /\ rx_buf' = IF Len(rx_buf) >= MaxRxBuf THEN rx_buf ELSE Append(rx_buf, Cut(cut'))
  /\ rx_started' = (rx_started \/ Len(rx_buf') >= Prefetch)
  /\ UNCHANGED <<stream, rtp, rx, data, rx_leftover, playing>>

\* One turn of the loop: decode a frame, drop the oldest if full, push.
PushFrame ==
  /\ rx = "push" /\ cut < Whole
  /\ cut' = cut + 1
  /\ rx_buf' = Append(IF Len(rx_buf) >= MaxRxBuf THEN Tail(rx_buf) ELSE rx_buf, Cut(cut'))
  /\ rx_started' = (rx_started \/ Len(rx_buf') >= Prefetch)
  /\ UNCHANGED <<stream, rtp, rx, data, rx_leftover, playing>>

After(n, s) == SubSeq(s, n + 1, Len(s))

\* Mutant: octets that fit into frames stay in a carry-over that had others.
KeepUncut ==
  /\ rx = "push" /\ cut = Whole
  /\ rx_leftover' = IF rx_leftover = <<>> THEN After(cut * FrameSamples, data)
                                          ELSE rx_leftover
  /\ rx' = "read" /\ rtp' = None /\ data' = <<>> /\ cut' = 0 /\ meant' = None
  /\ UNCHANGED <<sent, buf>>

\* The octets that did not fill a frame, on each of the two paths.
Keep ==
  /\ rx = "push" /\ cut = Whole
  /\ rx_leftover' = IF rx_leftover = <<>> THEN After(cut * FrameSamples, data)
                                          ELSE After(cut * FrameSamples, rx_leftover)
  /\ rx' = "read" /\ rtp' = None /\ data' = <<>> /\ cut' = 0 /\ meant' = None
  /\ UNCHANGED <<sent, buf>>

\* The connection ends, or stop() has shut it down.
Hangup ==
  /\ rx = "read" /\ rx' = "done"
  /\ UNCHANGED <<stream, rtp, data, cut, rx_leftover, buf>>

-----------------------------------------------------------------------------
\* Mutant: the frame stays in the buffer.
GetFrameAgain ==
  /\ playing' = IF rx_started /\ rx_buf # <<>> THEN Head(rx_buf) ELSE Silence
  /\ UNCHANGED <<stream, thread, rx_buf, rx_started>>

\* on_get_frame, called by the clock thread.
GetFrame ==
  /\ IF ~rx_started \/ rx_buf = <<>>
     THEN playing' = Silence /\ UNCHANGED rx_buf
     ELSE playing' = Head(rx_buf) /\ rx_buf' = Tail(rx_buf)
  /\ UNCHANGED <<stream, thread, rx_started>>

\* Mutant: nothing is played before PREFETCH_FRAMES frames have come.
NotStarted == FALSE

\* rx_started_ = true
Started == TRUE

Init ==
  /\ sent = 0 /\ meant = None
  /\ rtp = None /\ rx = "read" /\ data = <<>> /\ cut = 0 /\ rx_leftover = <<>>
  /\ rx_buf = <<>> /\ rx_started = Started /\ playing = Silence

Next == ReadSpeech \/ ReadJunk \/ PushFrame \/ Keep \/ Hangup \/ GetFrame

Spec == Init /\ [][Next]_vars

\* The clock asks every 20 ms, as it does while somebody else is in the
\* meeting.  Nothing is assumed of the peer, nor of the rx thread.
FairSpec == Spec /\ WF_vars(GetFrame)

-----------------------------------------------------------------------------
(* Properties                                                              *)

\* The A-law of ITU-T G.711: a sign, a segment and a mantissa, with the even
\* bits inverted.
Linear(code) ==
  LET a == Toggle(code)
      m == a % 16
      e == (a \div 16) % 8
      v == IF e = 0 THEN 8 * (2 * m + 1) ELSE 2 ^ (e + 2) * (2 * m + 33)
  IN  IF a \div 128 = 1 THEN v ELSE -v

\* Frame number k of the peer's audio, whatever packets it came in.
Frame(k) == [s \in 1 .. FrameSamples |-> Linear(Octet((k - 1) * FrameSamples + s))]

\* How many frames were put into the buffer so far.
Pushed ==
  IF rx = "push" THEN (sent - Len(data)) \div FrameSamples + cut
                 ELSE (sent - Len(rx_leftover)) \div FrameSamples

\* Type invariant of the thread and of the buffer.
TypeOK ==
  /\ sent \in 0 .. MaxOctets /\ rx \in {"read", "push", "done"}
  /\ rx = "push" <=> rtp # None
  /\ rx = "push" <=> meant # None
  /\ data \in Seq(Codes) /\ rx_leftover \in Seq(Codes)
  /\ cut \in 0 .. Whole
  /\ rx_buf \in Seq([1 .. FrameSamples -> Samples]) /\ Len(rx_buf) <= MaxRxBuf
  /\ rx_started \in BOOLEAN /\ playing \in [1 .. FrameSamples -> Samples]

\* parse() reads what the peer meant, in each of the legal forms, and serialize
\* writes what parse() reads.
Understood == rx = "push" => rtp = meant

\* Between two packets the carry-over is the end of the stream that fills no
\* frame, whichever of its two paths it took and however the packets were
\* sized: no octet is lost, repeated or moved.
CarryOver ==
  rx = "read" =>
    rx_leftover = [i \in 1 .. sent % FrameSamples |-> Octet(sent - (sent % FrameSamples) + i)]

\* The buffer holds the latest frames of the stream, whole, in order and
\* without a gap: only the oldest are ever given up, and what is played is
\* never more than a full buffer behind.
BufferIsLatest ==
  \A i \in DOMAIN rx_buf : rx_buf[i] = Frame(Pushed - Len(rx_buf) + i)

\* Every frame that waits is played or displaced, even if the peer falls
\* silent after the first: nothing waits for a prefetch.
PlayedOut ==
  \A k \in 1 .. MaxOctets \div FrameSamples :
    (\E i \in DOMAIN rx_buf : rx_buf[i] = Frame(k))
      ~> ~(\E i \in DOMAIN rx_buf : rx_buf[i] = Frame(k))

-----------------------------------------------------------------------------
(* What the buffer promises: PlayoutBuffer.                                *)

Playout == INSTANCE PlayoutBuffer
             WITH Capacity <- MaxRxBuf, Frame <- Frame, Quiet <- Silence,
                  last <- Pushed, pending <- rx_buf, playing <- playing

\* The receiving half implements the abstract buffer.
PlayoutSpec == Playout!Spec
=============================================================================
