--------------------------- MODULE SendPathProofs ---------------------------
(***************************************************************************)
(* Machine-checked proofs about SendPath, for every frame length, batch    *)
(* size, queue bound, wrap-around and number of ticks.                     *)
(***************************************************************************)
EXTENDS SendPath, SequenceTheorems, TLAPS

\* Who may have touched what: stop_flag_ is set exactly by stop(), the sender
\* exists only after its opener is done, and a closed sender stays closed.
Ownership ==
  /\ stop_flag <=> stopper # "running"
  /\ opener # "done" => sender = "none"
  /\ sender = "none" => ~tx_active

\* The inductive invariant.
IInv == TypeOK /\ Ownership /\ NoEnqueueAfterCleanup /\ NoLostWakeup

USE SendPathAssumption DEF SendPathAssumption

-----------------------------------------------------------------------------
\* Arithmetic on the wrapping counters stays within their width.
LEMMA CountersWrap ==
  ASSUME TypeOK
  PROVE  /\ NextSeq \in 0 .. SeqWrap - 1
         /\ Advance(tx_timestamp) \in 0 .. TsWrap - 1
BY DEF TypeOK, NextSeq, Advance

\* The one element of a sequence of length one.
LEMMA OnlyElement ==
  ASSUME NEW S, NEW s \in Seq(S), Len(s) = 1
  PROVE  s[1] \in S
OBVIOUS

\* The inductive invariant holds of the state a Participant is created in.
LEMMA InitIInv == Init => IInv
<1> SUFFICES ASSUME Init PROVE IInv OBVIOUS
<1>1. /\ send_queue \in Seq(Packet) /\ Len(send_queue) <= MaxSendQueue
      /\ tx_acc \in Seq(Nat) /\ Len(tx_acc) < TxBatchFrames
  BY DEF Init
<1>2. built \in Seq(Packet) /\ pkt \in Seq(Packet) /\ wire \in Seq(Packet)
  BY DEF Init, None
<1>3. /\ tx_batch_ts \in 0 .. TsWrap - 1 /\ tx_timestamp \in 0 .. TsWrap - 1
      /\ tx_seq \in 0 .. SeqWrap - 1 /\ tick \in Nat
  BY DEF Init
<1>4. TypeOK BY <1>1, <1>2, <1>3 DEF Init, TypeOK
<1> QED BY <1>4 DEF Init, IInv, Ownership, NoEnqueueAfterCleanup, NoLostWakeup

\* Encoding a frame keeps the types of the clock thread's variables; what the
\* other threads own is not touched.
LEMMA ClockEncodes ==
  ASSUME IInv, PutFrame \/ EncodeFrame
  PROVE  IInv'
<1> USE DEF IInv, Ownership, NoEnqueueAfterCleanup, NoLostWakeup, shared, transmit, control
<1>0. TypeOK BY DEF IInv
<1>1. CASE SkipFrame /\ UNCHANGED <<shared, transmit, control>> /\ clock # "enqueue"
  BY <1>0, <1>1, CountersWrap DEF SkipFrame, TypeOK
<1>2. CASE Accumulate /\ clock = "active" /\ UNCHANGED <<shared, transmit, control>>
  <2> DEFINE acc   == Append(tx_acc, tick)
             stamp == IF tx_acc = <<>> THEN tx_timestamp ELSE tx_batch_ts
             p     == [seq |-> tx_seq, ts |-> stamp, payload |-> acc]
  <2>1. acc \in Seq(Nat) /\ stamp \in 0 .. TsWrap - 1
    BY <1>0 DEF TypeOK
  <2>2. p \in Packet BY <1>0, <2>1 DEF TypeOK, Packet
  <2>3. CASE Len(acc) < TxBatchFrames
    <3>1. /\ tx_acc' = acc /\ clock' = "idle" /\ UNCHANGED <<tx_seq, built>>
          /\ tx_batch_ts' = stamp /\ tick' = tick + 1
          /\ tx_timestamp' = Advance(tx_timestamp)
      BY <1>2, <2>3 DEF Accumulate
    <3> HIDE DEF acc, stamp
    <3> QED BY <1>0, <1>2, <2>1, <2>3, <3>1, CountersWrap DEF TypeOK
  <2>4. CASE Len(acc) >= TxBatchFrames
    <3>1. /\ built' = <<p>> /\ tx_seq' = NextSeq /\ tx_acc' = <<>> /\ clock' = "enqueue"
          /\ tx_batch_ts' = stamp /\ tick' = tick + 1
          /\ tx_timestamp' = Advance(tx_timestamp)
      BY <1>2, <2>1, <2>4 DEF Accumulate
    <3> HIDE DEF acc, stamp, p
    <3> QED BY <1>0, <1>2, <2>1, <2>2, <2>4, <3>1, CountersWrap DEF TypeOK
  <2> QED BY <2>1, <2>3, <2>4
<1>3. CASE /\ clock = "idle" /\ clock' = "active"
           /\ UNCHANGED <<rtp, built>> /\ UNCHANGED <<shared, transmit, control>>
  BY <1>0, <1>3 DEF TypeOK, rtp
<1> QED BY <1>1, <1>2, <1>3 DEF PutFrame, EncodeFrame

\* Enqueueing under the lock: the queue stays bounded, a packet enters it only
\* while the sender is active, and a sleeping sender is woken.
LEMMA EnqueueStep ==
  ASSUME IInv, Enqueue
  PROVE  IInv'
<1> USE DEF IInv, Ownership, NoEnqueueAfterCleanup, NoLostWakeup, rtp, control
<1>0. TypeOK /\ clock = "enqueue" BY DEF Enqueue
<1>1. built[1] \in Packet
  <2>1. built \in Seq(Packet) /\ Len(built) = 1 BY <1>0 DEF TypeOK
  <2> QED BY <2>1, OnlyElement
<1>2. CASE tx_active /\ ~stop_flag /\ Push(built[1])
  <2> DEFINE kept == IF Len(send_queue) >= MaxSendQueue THEN Tail(send_queue) ELSE send_queue
  <2>1. kept \in Seq(Packet) /\ Len(kept) < MaxSendQueue
    BY <1>0 DEF TypeOK
  <2>2. send_queue' = Append(kept, built[1]) BY <1>2 DEF Push
  <2>3. send_queue' \in Seq(Packet) /\ Len(send_queue') <= MaxSendQueue
    <3> HIDE DEF kept
    <3> QED BY <1>1, <2>1, <2>2
  <2>4. stopper = "running" /\ sender \notin {"none", "done"} BY <1>2
  <2> HIDE DEF kept
  <2>5. TypeOK' BY <1>0, <1>2, <2>3 DEF TypeOK, Enqueue, Push, Notify, None
  <2> QED BY <1>0, <1>2, <2>4, <2>5 DEF Enqueue, Push, Notify, TypeOK
<1>3. CASE (~tx_active \/ stop_flag) /\ UNCHANGED <<send_queue, sender>>
  BY <1>0, <1>3 DEF Enqueue, TypeOK, None
<1> QED BY <1>2, <1>3 DEF Enqueue

\* The thread that opens the socket and starts the sender.
LEMMA OpenerStep ==
  ASSUME IInv, Opener
  PROVE  IInv'
<1> USE DEF IInv, TypeOK, Ownership, NoEnqueueAfterCleanup, NoLostWakeup,
            shared, media, rtp, transmit
<1>1. CASE Accept BY <1>1 DEF Accept
<1>2. CASE AcceptFails BY <1>2 DEF AcceptFails
<1>3. CASE StoreSocket BY <1>3 DEF StoreSocket
<1>4. CASE StartTxThread
  <2>1. opener = "stored" /\ sender = "none" BY <1>4 DEF StartTxThread
  <2>2. CASE stop_flag BY <1>4, <2>1, <2>2 DEF StartTxThread
  <2>3. CASE ~stop_flag
    <3>1. stopper = "running" BY <2>3
    <3>2. TypeOK' BY <1>4, <2>3 DEF StartTxThread
    <3> QED BY <1>4, <2>3, <3>1, <3>2 DEF StartTxThread
  <2> QED BY <2>2, <2>3
<1> QED BY <1>1, <1>2, <1>3, <1>4 DEF Opener

\* The sender's own steps.
LEMMA SenderStep ==
  ASSUME IInv, Sender
  PROVE  IInv'
<1> USE DEF IInv, Ownership, NoEnqueueAfterCleanup, NoLostWakeup,
            shared, media, rtp, control
<1>1. CASE TxLoop BY <1>1 DEF TxLoop, TypeOK
<1>2. CASE TxTake
  <2>1. CASE ~stop_flag /\ send_queue # <<>>
    <3>1. /\ Head(send_queue) \in Packet
          /\ Tail(send_queue) \in Seq(Packet)
          /\ Len(Tail(send_queue)) <= MaxSendQueue
      BY <2>1 DEF TypeOK
    <3>2. pkt' = <<Head(send_queue)>> /\ send_queue' = Tail(send_queue) /\ sender' = "prefix"
      BY <1>2, <2>1 DEF TxTake
    <3>3. pkt' \in Seq(Packet) /\ Len(pkt') = 1 BY <3>1, <3>2
    <3> QED BY <1>2, <2>1, <3>1, <3>2, <3>3 DEF TxTake, TypeOK
  <2>2. CASE stop_flag \/ send_queue = <<>>
    BY <1>2, <2>2 DEF TxTake, TypeOK
  <2> QED BY <2>1, <2>2
<1>3. CASE SpuriousWake BY <1>3 DEF SpuriousWake, TypeOK
<1>4. CASE TxWrite
  <2>1. CASE sender = "prefix" BY <1>4, <2>1 DEF TxWrite, TypeOK
  <2>2. CASE sender = "payload"
    <3>1. pkt \in Seq(Packet) /\ Len(pkt) = 1 /\ wire \in Seq(Packet)
      BY <2>2 DEF TypeOK
    <3>2. pkt[1] \in Packet BY <3>1, OnlyElement
    <3>3. wire' = Append(wire, pkt[1]) BY <1>4, <2>2 DEF TxWrite
    <3>4. wire' \in Seq(Packet) BY <3>1, <3>2, <3>3
    <3> QED BY <1>4, <2>2, <3>4 DEF TxWrite, TypeOK, None
  <2> QED BY <1>4, <2>1, <2>2 DEF TxWrite
<1>5. CASE TxWriteFails BY <1>5 DEF TxWriteFails, TypeOK, None
<1>6. CASE TxCleanup
  <2>1. send_queue' \in Seq(Packet) /\ Len(send_queue') <= MaxSendQueue
    BY <1>6 DEF TxCleanup
  <2>2. TypeOK' BY <1>6, <2>1 DEF TxCleanup, TypeOK
  <2> QED BY <1>6, <2>2 DEF TxCleanup, TypeOK
<1> QED BY <1>1, <1>2, <1>3, <1>4, <1>5, <1>6 DEF Sender

\* stop().
LEMMA StopperStep ==
  ASSUME IInv, Stopper
  PROVE  IInv'
<1> USE DEF IInv, TypeOK, Ownership, NoEnqueueAfterCleanup, NoLostWakeup,
            shared, media, rtp, transmit
<1>1. CASE StopFlag BY <1>1 DEF StopFlag
<1>2. CASE StopQueue
  <2>1. send_queue' \in Seq(Packet) /\ Len(send_queue') <= MaxSendQueue
    BY <1>2 DEF StopQueue
  <2>2. TypeOK' BY <1>2, <2>1 DEF StopQueue, Notify
  <2> QED BY <1>2, <2>2 DEF StopQueue, Notify
<1>3. CASE StopListen BY <1>3 DEF StopListen
<1>4. CASE StopSocket BY <1>4 DEF StopSocket
<1>5. CASE StopJoin BY <1>5 DEF StopJoin
<1> QED BY <1>1, <1>2, <1>3, <1>4, <1>5 DEF Stopper

-----------------------------------------------------------------------------
\* The inductive invariant is preserved by every step of every thread.
LEMMA NextIInv == IInv /\ [Next]_vars => IInv'
<1> SUFFICES ASSUME IInv, [Next]_vars PROVE IInv' OBVIOUS
<1>1. CASE Clock BY <1>1, ClockEncodes, EnqueueStep DEF Clock
<1>2. CASE Opener BY <1>2, OpenerStep
<1>3. CASE Sender BY <1>3, SenderStep
<1>4. CASE Stopper BY <1>4, StopperStep
<1>5. CASE PeerReset
  BY <1>5 DEF PeerReset, IInv, TypeOK, Ownership, NoEnqueueAfterCleanup,
              NoLostWakeup, shared, media, rtp, transmit
<1>6. CASE Finished \/ UNCHANGED vars
  BY <1>6 DEF Finished, IInv, TypeOK, Ownership, NoEnqueueAfterCleanup, NoLostWakeup,
              vars, shared, media, rtp, transmit, control
<1> QED BY <1>1, <1>2, <1>3, <1>4, <1>5, <1>6 DEF Next

\* Every reachable state satisfies the inductive invariant.
LEMMA Invariance == Spec => []IInv
BY InitIInv, NextIInv, PTL DEF Spec

\* Type correctness of the sender: wrapping counters keep their width and the
\* queue its bound.
THEOREM TypeCorrect == Spec => []TypeOK
<1>1. IInv => TypeOK BY DEF IInv
<1> QED BY <1>1, Invariance, PTL

\* No packet is queued after the sender cleaned up or stop() drained the
\* queue, in any interleaving of the clock, accept, sender and API threads.
THEOREM CleanupIsFinal == Spec => []NoEnqueueAfterCleanup
<1>1. IInv => NoEnqueueAfterCleanup BY DEF IInv
<1> QED BY <1>1, Invariance, PTL

\* The sender never sleeps through a packet or through stop().
THEOREM WakeupsReachTheSender == Spec => []NoLostWakeup
<1>1. IInv => NoLostWakeup BY DEF IInv
<1> QED BY <1>1, Invariance, PTL

-----------------------------------------------------------------------------
(* The media clock: which audio the packets carry, and how they are        *)
(* stamped and numbered.                                                   *)

\* Packets that exist; the first tick of the packet that is being filled.
Packets   == Range(wire) \cup Range(pkt) \cup Range(send_queue) \cup Range(built)
NextFirst == tick - Len(tx_acc)

\* A packet holds consecutive frames and is stamped with its first one.
Stamped(p) ==
  /\ Len(p.payload) = TxBatchFrames
  /\ \A k \in 1 .. TxBatchFrames : p.payload[k] = p.payload[1] + k - 1
  /\ p.ts = (p.payload[1] * FrameSamples) % TsWrap

\* Packet p comes some packets' worth of audio before the one that begins at
\* tick first, and is numbered so.
Ahead(p, first, seq) ==
  \E k \in Nat \ {0} :
    first = p.payload[1] + k * TxBatchFrames /\ seq = (p.seq + k) % SeqWrap

Sorted(s)    == \A i, j \in DOMAIN s : i < j => Ahead(s[i], s[j].payload[1], s[j].seq)
Before(s, t) == \A p \in Range(s), q \in Range(t) : Ahead(p, q.payload[1], q.seq)

\* The RTP clock counts samples; what is in the accumulator are the last ticks;
\* a thread that holds no packet has none.
Media ==
  /\ tx_timestamp = (tick * FrameSamples) % TsWrap
  /\ Len(tx_acc) <= tick
  /\ \A k \in 1 .. Len(tx_acc) : tx_acc[k] = NextFirst + k - 1
  /\ tx_acc # <<>> => tx_batch_ts = (NextFirst * FrameSamples) % TsWrap
  /\ \A p \in Packets : Stamped(p)
  /\ clock # "enqueue" => built = <<>>
  /\ sender \notin {"prefix", "payload"} => pkt = <<>>
  /\ sender = "none" => Packets = {} /\ clock = "idle"

\* While frames may still become packets, the accumulator goes on from the last
\* packet; after that the order of the packets that are left matters alone.
Filling == ~stop_flag /\ (tx_active \/ clock = "active")

Order ==
  /\ Sorted(wire) /\ Sorted(send_queue)
  /\ Before(wire, pkt) /\ Before(wire, send_queue) /\ Before(wire, built)
  /\ Before(pkt, send_queue) /\ Before(pkt, built) /\ Before(send_queue, built)
  /\ Filling => \A p \in Packets : Ahead(p, NextFirst, tx_seq)

\* Quotient and remainder of natural numbers.
LEMMA DivMod ==
  ASSUME NEW a \in Nat, NEW m \in Nat \ {0}
  PROVE  a = (a \div m) * m + (a % m) /\ a % m \in 0 .. m - 1 /\ a \div m \in Nat
OBVIOUS

LEMMA ModUnique ==
  ASSUME NEW k \in Nat, NEW e \in Nat, NEW m \in Nat \ {0}, e < m
  PROVE  (k * m + e) % m = e
OBVIOUS

LEMMA Multiple ==
  ASSUME NEW k \in Nat, NEW m \in Nat \ {0}
  PROVE  k * m \in Nat /\ (k * m) % m = 0 /\ (k * m) \div m = k /\ (k + 1) * m = k * m + m
OBVIOUS

\* Counting modulo m: the remainder may be taken at every step.
LEMMA ModAdd ==
  ASSUME NEW a \in Nat, NEW b \in Nat, NEW m \in Nat \ {0}
  PROVE  ((a % m) + b) % m = (a + b) % m
<1>1. PICK q \in Nat, r \in 0 .. m - 1 : a = q * m + r /\ r = a % m
  BY DivMod
<1>2. r + b \in Nat OBVIOUS
<1>3. PICK d \in Nat, e \in 0 .. m - 1 : r + b = d * m + e /\ e = (r + b) % m
  BY <1>2, DivMod
<1>4. PICK x, y : x = q * m /\ y = d * m OBVIOUS
<1>5. x \in Nat /\ y \in Nat /\ (q + d) * m = x + y BY <1>4
<1>6. a + b = (q + d) * m + e BY <1>1, <1>3, <1>4, <1>5
<1>7. (a + b) % m = e
  <2>1. q + d \in Nat /\ e \in Nat /\ e < m OBVIOUS
  <2>2. ((q + d) * m + e) % m = e BY <2>1, ModUnique
  <2> QED BY <1>6, <2>2
<1> QED BY <1>1, <1>3, <1>7

\* One tick more of the RTP clock.
LEMMA ClockAdvances ==
  ASSUME NEW t \in Nat, NEW ts, ts = (t * FrameSamples) % TsWrap
  PROVE  Advance(ts) = ((t + 1) * FrameSamples) % TsWrap
<1>1. PICK x : x = t * FrameSamples OBVIOUS
<1>2. x \in Nat /\ (t + 1) * FrameSamples = x + FrameSamples BY <1>1, Multiple
<1>3. ((x % TsWrap) + FrameSamples) % TsWrap = (x + FrameSamples) % TsWrap BY <1>2, ModAdd
<1> QED BY <1>1, <1>2, <1>3 DEF Advance

\* A packet begins with a frame.
LEMMA FirstTick ==
  ASSUME NEW p \in Packet, Stamped(p)
  PROVE  p.payload[1] \in Nat /\ p.seq \in 0 .. SeqWrap - 1
<1>1. p.payload \in Seq(Nat) /\ p.seq \in 0 .. SeqWrap - 1 BY DEF Packet
<1>2. 1 \in 1 .. Len(p.payload) BY DEF Stamped
<1> QED BY <1>1, <1>2, ElementOfSeq

\* The packet after the one that begins at first.
LEMMA OneFurther ==
  ASSUME NEW p \in Packet, Stamped(p), NEW first \in Nat, NEW seq \in 0 .. SeqWrap - 1,
         Ahead(p, first, seq) \/ (first = p.payload[1] /\ seq = p.seq)
  PROVE  Ahead(p, first + TxBatchFrames, (seq + 1) % SeqWrap)
<1>1. p.payload[1] \in Nat /\ p.seq \in 0 .. SeqWrap - 1 BY FirstTick
<1>2. PICK k \in Nat : first = p.payload[1] + k * TxBatchFrames /\ seq = (p.seq + k) % SeqWrap
  <2>1. CASE Ahead(p, first, seq) BY <2>1 DEF Ahead
  <2>2. CASE first = p.payload[1] /\ seq = p.seq
    <3>1. first = p.payload[1] + 0 * TxBatchFrames /\ seq = (p.seq + 0) % SeqWrap
      BY <1>1, <2>2
    <3> QED BY <3>1
  <2> QED BY <2>1, <2>2
<1>3. first + TxBatchFrames = p.payload[1] + (k + 1) * TxBatchFrames
  BY <1>1, <1>2, Multiple
<1>4. (seq + 1) % SeqWrap = (p.seq + (k + 1)) % SeqWrap
  <2>1. p.seq + k \in Nat /\ (p.seq + k) + 1 = p.seq + (k + 1) BY <1>1
  <2> QED BY <1>2, <2>1, ModAdd
<1> QED BY <1>3, <1>4 DEF Ahead

\* The packets of a sequence after it was emptied, shortened or extended.
LEMMA RangeEmpty == Range(<<>>) = {}
BY DEF Range

LEMMA RangeTail ==
  ASSUME NEW S, NEW s \in Seq(S), s # <<>>
  PROVE  /\ Head(s) \in S /\ Tail(s) \in Seq(S)
         /\ Head(s) \in Range(s) /\ Range(Tail(s)) \subseteq Range(s)
         /\ Range(<<Head(s)>>) = {Head(s)}
<1>1. /\ Head(s) \in S /\ Tail(s) \in Seq(S) /\ Len(Tail(s)) = Len(s) - 1
      /\ \A i \in 1 .. Len(Tail(s)) : Tail(s)[i] = s[i + 1]
  BY HeadTailProperties
<1>2. Head(s) = s[1] /\ Len(s) \in Nat \ {0} BY EmptySeq
<1>3. Range(Tail(s)) = {Tail(s)[i] : i \in 1 .. Len(Tail(s))} BY <1>1, RangeEquality
<1>4. Range(s) = {s[i] : i \in 1 .. Len(s)} BY RangeEquality
<1>5. ASSUME NEW i \in 1 .. Len(Tail(s)) PROVE Tail(s)[i] \in Range(s)
  <2>1. i + 1 \in 1 .. Len(s) /\ Tail(s)[i] = s[i + 1] BY <1>1, <1>2
  <2> QED BY <1>4, <2>1
<1>6. Range(<<Head(s)>>) = {Head(s)} BY DEF Range
<1> QED BY <1>1, <1>2, <1>3, <1>4, <1>5, <1>6

LEMMA RangeAppend ==
  ASSUME NEW S, NEW s \in Seq(S), NEW e \in S
  PROVE  Range(Append(s, e)) = Range(s) \cup {e}
<1>1. PICK u : u = <<e>> OBVIOUS
<1>2. u \in Seq(S) /\ Range(u) = {e} /\ Append(s, e) = s \o u
  BY <1>1, AppendIsConcat DEF Range
<1>3. Range(s \o u) = Range(s) \cup Range(u) BY <1>2, RangeConcatenation
<1> QED BY <1>1, <1>2, <1>3

LEMMA RangeOne ==
  ASSUME NEW S, NEW s \in Seq(S), Len(s) = 1
  PROVE  Range(s) = {s[1]} /\ s[1] \in S
<1>1. Range(s) = {s[i] : i \in 1 .. 1} BY RangeEquality
<1>2. 1 .. 1 = {1} OBVIOUS
<1> QED BY <1>1, <1>2, ElementOfSeq

LEMMA SortedTail ==
  ASSUME NEW S, NEW s \in Seq(S), s # <<>>, Sorted(s)
  PROVE  Sorted(Tail(s)) /\ Before(<<Head(s)>>, Tail(s))
<1>1. /\ Tail(s) \in Seq(S) /\ Len(Tail(s)) = Len(s) - 1 /\ Len(s) \in Nat \ {0}
      /\ \A i \in 1 .. Len(Tail(s)) : Tail(s)[i] = s[i + 1]
      /\ Head(s) = s[1]
  BY HeadTailProperties, EmptySeq
<1>2. DOMAIN s = 1 .. Len(s) /\ DOMAIN Tail(s) = 1 .. Len(Tail(s)) BY <1>1, LenProperties
<1>3. ASSUME NEW i \in DOMAIN Tail(s), NEW j \in DOMAIN Tail(s), i < j
      PROVE  Ahead(Tail(s)[i], Tail(s)[j].payload[1], Tail(s)[j].seq)
  <2>1. i + 1 \in DOMAIN s /\ j + 1 \in DOMAIN s /\ i + 1 < j + 1 BY <1>1, <1>2, <1>3
  <2>2. Tail(s)[i] = s[i + 1] /\ Tail(s)[j] = s[j + 1] BY <1>1, <1>2
  <2> QED BY <2>1, <2>2 DEF Sorted
<1>4. ASSUME NEW q \in Range(Tail(s)) PROVE Ahead(Head(s), q.payload[1], q.seq)
  <2>0. Range(Tail(s)) = {Tail(s)[j] : j \in 1 .. Len(Tail(s))} BY <1>1, RangeEquality
  <2>1. PICK j \in 1 .. Len(Tail(s)) : q = Tail(s)[j] BY <2>0
  <2>2. 1 \in DOMAIN s /\ j + 1 \in DOMAIN s /\ 1 < j + 1 BY <1>1, <1>2
  <2>3. q = s[j + 1] BY <1>1, <2>1
  <2> QED BY <1>1, <2>2, <2>3 DEF Sorted
<1>5. Range(<<Head(s)>>) = {Head(s)} BY DEF Range
<1>6. Sorted(Tail(s)) BY <1>3 DEF Sorted
<1> QED BY <1>4, <1>5, <1>6 DEF Before

LEMMA SortedAppend ==
  ASSUME NEW S, NEW s \in Seq(S), NEW e \in S, Sorted(s),
         \A p \in Range(s) : Ahead(p, e.payload[1], e.seq)
  PROVE  Sorted(Append(s, e))
<1>1. PICK t : t = Append(s, e) OBVIOUS
<1>2. /\ t \in Seq(S) /\ Len(t) = Len(s) + 1 /\ Len(s) \in Nat
      /\ \A i \in 1 .. Len(s) : t[i] = s[i]
      /\ t[Len(s) + 1] = e
  BY <1>1, AppendProperties
<1>3. DOMAIN s = 1 .. Len(s) /\ DOMAIN t = 1 .. Len(t) BY <1>2, LenProperties
<1>4. ASSUME NEW i \in DOMAIN t, NEW j \in DOMAIN t, i < j
      PROVE  Ahead(t[i], t[j].payload[1], t[j].seq)
  <2>1. i \in DOMAIN s /\ t[i] = s[i] BY <1>2, <1>3, <1>4
  <2>2. CASE j \in DOMAIN s
    <3>1. t[j] = s[j] BY <1>2, <1>3, <2>2
    <3> QED BY <1>4, <2>1, <2>2, <3>1 DEF Sorted
  <2>3. CASE j = Len(s) + 1
    <3>1. s[i] \in Range(s) BY <1>3, <2>1, RangeEquality
    <3> QED BY <1>2, <2>1, <2>3, <3>1
  <2> QED BY <1>2, <1>3, <2>2, <2>3
<1> QED BY <1>1, <1>4 DEF Sorted

\* The conjunction that is inductive beside IInv.
MInv == Media /\ Order

LEMMA InitMInv == Init => MInv
<1> SUFFICES ASSUME Init PROVE MInv OBVIOUS
<1>1. Packets = {} BY RangeEmpty DEF Init, Packets, None
<1>2. 0 * FrameSamples = 0 /\ 0 % TsWrap = 0 BY Multiple
<1>3. Media BY <1>1, <1>2 DEF Init, Media, None
<1>4. Sorted(<<>>) BY DEF Sorted
<1>5. Order BY <1>1, <1>4, RangeEmpty DEF Init, Order, Before, None
<1> QED BY <1>3, <1>5 DEF MInv

\* No packet is made, lost or moved: it is enough that the accumulator stays, or
\* that no packet is made any more.
LEMMA PacketsRest ==
  ASSUME MInv, UNCHANGED <<wire, pkt, send_queue, built>>,
         clock' # "enqueue" => clock # "enqueue" \/ built = <<>>,
         sender' \notin {"prefix", "payload"} => pkt = <<>>,
         sender' = "none" => sender = "none" /\ clock' = "idle",
         \/ UNCHANGED rtp
         \/ /\ tick' = tick + 1 /\ tick \in Nat
            /\ tx_timestamp' = Advance(tx_timestamp) /\ tx_acc' = <<>>,
         Filling' => Packets = {} \/ (Filling /\ UNCHANGED rtp)
  PROVE  MInv'
<1>1. Packets' = Packets BY DEF Packets
<1>2. Media'
  <2>1. CASE UNCHANGED rtp
    BY <1>1, <2>1 DEF MInv, Media, rtp, NextFirst, Stamped
  <2>2. CASE /\ tick' = tick + 1 /\ tick \in Nat
             /\ tx_timestamp' = Advance(tx_timestamp) /\ tx_acc' = <<>>
    <3>1. tx_timestamp' = (tick' * FrameSamples) % TsWrap
      BY <2>2, ClockAdvances DEF MInv, Media
    <3> QED BY <1>1, <2>2, <3>1 DEF MInv, Media, Stamped
  <2> QED BY <2>1, <2>2
<1>3. Order'
  <2>1. Filling' => \A p \in Packets : Ahead(p, NextFirst', tx_seq')
    BY DEF MInv, Order, NextFirst, rtp
  <2> QED BY <1>1, <2>1 DEF MInv, Order, Sorted, Before, Ahead
<1> QED BY <1>2, <1>3 DEF MInv

\* Packets move on in their order, or are given up.
LEMMA PacketsMove ==
  ASSUME MInv, UNCHANGED rtp, Packets' \subseteq Packets, Filling' => Filling,
         clock' # "enqueue" => built' = <<>>,
         sender' \notin {"prefix", "payload"} => pkt' = <<>>,
         sender' = "none" => Packets = {} /\ clock' = "idle",
         Sorted(wire'), Sorted(send_queue'),
         Before(wire', pkt'), Before(wire', send_queue'), Before(wire', built'),
         Before(pkt', send_queue'), Before(pkt', built'), Before(send_queue', built')
  PROVE  MInv'
<1>1. Media' BY DEF MInv, Media, rtp, NextFirst, Stamped
<1>2. Filling' => \A p \in Packets' : Ahead(p, NextFirst', tx_seq')
  BY DEF MInv, Order, NextFirst, rtp
<1>3. Order' BY <1>2 DEF Order, Sorted, Before, Ahead
<1> QED BY <1>1, <1>3 DEF MInv

\* on_put_frame: the batch, its stamp and its number.
LEMMA FramesKeepMInv ==
  ASSUME IInv, MInv, PutFrame \/ EncodeFrame
  PROVE  MInv'
<1> USE DEF shared, transmit, control
<1>0. /\ TypeOK /\ tick \in Nat /\ tx_acc \in Seq(Nat) /\ Len(tx_acc) \in Nat
      /\ UNCHANGED <<stop_flag, tx_active, wire, pkt, send_queue, sender>>
  BY DEF IInv, TypeOK, PutFrame, EncodeFrame
<1>1. CASE PutFrame /\ tx_active
  BY <1>0, <1>1, PacketsRest
  DEF PutFrame, MInv, Media, Filling, IInv, Ownership
<1>2. CASE SkipFrame /\ clock # "enqueue" /\ (stop_flag \/ ~tx_active)
  <2>1. ~Filling' BY <1>0, <1>2 DEF SkipFrame, Filling
  <2> QED BY <1>0, <1>2, <2>1, PacketsRest DEF SkipFrame, MInv, Media
<1>3. CASE Accumulate /\ clock = "active" /\ ~stop_flag
  <2> DEFINE acc   == Append(tx_acc, tick)
             stamp == IF tx_acc = <<>> THEN tx_timestamp ELSE tx_batch_ts
  <2>0. Filling /\ built = <<>> /\ sender # "none"
    BY <1>3 DEF Filling, MInv, Media
  <2>1. /\ NextFirst \in Nat /\ tx_timestamp' = ((tick + 1) * FrameSamples) % TsWrap
        /\ tx_timestamp' = Advance(tx_timestamp) /\ tick' = tick + 1
    BY <1>0, <1>3, ClockAdvances DEF Accumulate, NextFirst, MInv, Media
  <2>2. stamp = (NextFirst * FrameSamples) % TsWrap
    <3>1. CASE tx_acc = <<>>
      <4>1. NextFirst = tick BY <1>0, <3>1 DEF NextFirst
      <4> QED BY <3>1, <4>1 DEF MInv, Media
    <3>2. CASE tx_acc # <<>> BY <3>2 DEF MInv, Media
    <3> QED BY <3>1, <3>2
  <2>3. /\ acc \in Seq(Nat) /\ Len(acc) = Len(tx_acc) + 1 /\ acc # <<>>
        /\ \A k \in 1 .. Len(acc) : acc[k] = NextFirst + k - 1
    <3>1. /\ acc \in Seq(Nat) /\ Len(acc) = Len(tx_acc) + 1 /\ acc # <<>>
          /\ \A k \in 1 .. Len(tx_acc) : acc[k] = tx_acc[k]
          /\ acc[Len(tx_acc) + 1] = tick
      BY <1>0, AppendProperties
    <3>2. tick = NextFirst + (Len(tx_acc) + 1) - 1 BY <1>0 DEF NextFirst
    <3>3. \A k \in 1 .. Len(tx_acc) : tx_acc[k] = NextFirst + k - 1 BY DEF MInv, Media
    <3> HIDE DEF acc
    <3>4. ASSUME NEW k \in 1 .. Len(acc) PROVE acc[k] = NextFirst + k - 1
      <4>1. k \in 1 .. Len(tx_acc) \/ k = Len(tx_acc) + 1 BY <1>0, <3>1
      <4> QED BY <3>1, <3>2, <3>3, <4>1
    <3> QED BY <3>1, <3>4
  <2>4. tx_batch_ts' = stamp BY <1>3 DEF Accumulate
  <2>5. CASE Len(acc) < TxBatchFrames
    <3>1. /\ tx_acc' = acc /\ clock' = "idle" /\ UNCHANGED <<tx_seq, built>>
      BY <1>3, <2>5 DEF Accumulate
    <3> HIDE DEF acc, stamp
    <3>2. NextFirst' = NextFirst /\ Len(tx_acc') <= tick'
      <4>1. tick' = tick + 1 /\ Len(tx_acc') = Len(tx_acc) + 1 BY <2>1, <2>3, <3>1
      <4>2. Len(tx_acc) <= tick BY DEF MInv, Media
      <4> QED BY <1>0, <4>1, <4>2 DEF NextFirst
    <3>3. Packets' = Packets BY <1>0, <3>1 DEF Packets
    <3>4. Media' BY <1>0, <2>0, <2>1, <2>2, <2>3, <2>4, <3>1, <3>2, <3>3 DEF MInv, Media, Stamped
    <3>5. Order' BY <1>0, <2>0, <3>1, <3>2, <3>3 DEF MInv, Order, Sorted, Before, Ahead
    <3> QED BY <3>4, <3>5 DEF MInv
  <2>6. CASE Len(acc) >= TxBatchFrames
    <3>1. PICK p : p = [seq |-> tx_seq, ts |-> stamp, payload |-> acc] OBVIOUS
    <3>2. /\ built' = <<p>> /\ tx_acc' = <<>> /\ tx_seq' = NextSeq /\ clock' = "enqueue"
      BY <1>3, <2>3, <2>6, <3>1 DEF Accumulate
    <3>3. Len(acc) = TxBatchFrames BY <1>0, <2>3, <2>6 DEF TypeOK
    <3> HIDE DEF acc, stamp
    <3>4. p.seq = tx_seq /\ p.ts = stamp /\ p.payload = acc /\ p.payload[1] = NextFirst
      BY <2>1, <2>3, <3>1, <3>3
    <3>5. p \in Packet /\ Stamped(p)
      <4>1. stamp \in 0 .. TsWrap - 1 BY <2>1, <2>2, Multiple, DivMod
      <4>2. p \in Packet BY <1>0, <2>3, <3>1, <4>1 DEF Packet, TypeOK
      <4> QED BY <2>2, <2>3, <3>3, <3>4, <4>2 DEF Stamped
    <3>6. Packets' = Packets \cup {p} /\ Range(built') = {p}
      <4>1. Range(built') = {p} /\ Range(built) = {}
        BY <2>0, <3>2, RangeEmpty DEF Range
      <4> QED BY <1>0, <4>1 DEF Packets
    <3>7. /\ NextFirst' = NextFirst + TxBatchFrames /\ tx_seq' = (tx_seq + 1) % SeqWrap
          /\ tick' \in Nat
      <4>1. tick' = tick + 1 /\ Len(tx_acc') = 0 BY <2>1, <3>2
      <4>2. TxBatchFrames = Len(tx_acc) + 1 BY <2>3, <3>3
      <4> QED BY <1>0, <3>2, <4>1, <4>2 DEF NextFirst, NextSeq
    <3>8. Media'
      BY <1>0, <2>0, <2>1, <3>2, <3>5, <3>6, <3>7 DEF MInv, Media, Stamped
    <3>9. \A q \in Packets : Ahead(q, p.payload[1], p.seq)
      BY <2>0, <3>4 DEF MInv, Order
    <3>10. ASSUME NEW q \in Packets' PROVE Ahead(q, NextFirst', tx_seq')
      <4>1. q \in Packet /\ Stamped(q)
        BY <3>5, <3>6, <1>0, RangeOfSeq DEF TypeOK, Packets, MInv, Media
      <4>2. Ahead(q, NextFirst, tx_seq) \/ (NextFirst = q.payload[1] /\ tx_seq = q.seq)
        BY <3>4, <3>6, <3>9
      <4> QED BY <1>0, <2>1, <3>7, <4>1, <4>2, OneFurther DEF TypeOK
    <3>11. Before(wire, built') /\ Before(pkt, built') /\ Before(send_queue, built')
      BY <3>6, <3>9 DEF Before, Packets
    <3>12. Order'
      BY <1>0, <3>10, <3>11 DEF MInv, Order, Sorted, Before, Ahead
    <3> QED BY <3>8, <3>12 DEF MInv
  <2> QED BY <1>0, <2>3, <2>5, <2>6
<1> QED BY <1>1, <1>2, <1>3 DEF PutFrame, EncodeFrame

\* The section under queue_mutex_: the new packet is the last, whether or not
\* the oldest was dropped for it, or it is forgotten.
LEMMA EnqueueKeepsMInv ==
  ASSUME IInv, MInv, Enqueue
  PROVE  MInv'
<1>0. /\ clock' = "idle" /\ built' = <<>> /\ clock = "enqueue"
      /\ UNCHANGED rtp /\ UNCHANGED <<stop_flag, tx_active, pkt, wire>>
      /\ send_queue \in Seq(Packet) /\ built \in Seq(Packet) /\ Len(built) = 1
      /\ Filling' => Filling
  BY DEF Enqueue, IInv, TypeOK, None, Filling
<1>1. PICK b : b = built[1] OBVIOUS
<1>2. b \in Packet /\ Range(built) = {b} /\ Range(built') = {}
  BY <1>0, <1>1, RangeOne, RangeEmpty
<1>3. /\ Sorted(wire) /\ Sorted(send_queue)
      /\ Before(wire, pkt) /\ Before(wire, send_queue) /\ Before(wire, built)
      /\ Before(pkt, send_queue) /\ Before(pkt, built) /\ Before(send_queue, built)
  BY DEF MInv, Order
<1>4. sender # "none" BY <1>0 DEF MInv, Media
<1>5. CASE tx_active /\ ~stop_flag /\ Push(b)
  <2>1. PICK kept : kept = IF Len(send_queue) >= MaxSendQueue THEN Tail(send_queue)
                           ELSE send_queue
    OBVIOUS
  <2>2. send_queue' = Append(kept, b) /\ Notify BY <1>5, <2>1 DEF Push
  <2>3. kept \in Seq(Packet) /\ Range(kept) \subseteq Range(send_queue) /\ Sorted(kept)
    <3>1. CASE Len(send_queue) >= MaxSendQueue
      <4>1. send_queue # <<>> BY <1>0, <3>1, EmptySeq
      <4> QED BY <1>0, <1>3, <2>1, <3>1, <4>1, RangeTail, SortedTail
    <3>2. CASE ~(Len(send_queue) >= MaxSendQueue) BY <1>0, <1>3, <2>1, <3>2
    <3> QED BY <3>1, <3>2
  <2>4. Range(send_queue') = Range(kept) \cup {b} BY <1>2, <2>2, <2>3, RangeAppend
  <2>5. Sorted(send_queue')
    <3>1. \A p \in Range(kept) : Ahead(p, b.payload[1], b.seq)
      BY <1>2, <1>3, <2>3 DEF Before
    <3> QED BY <1>2, <2>2, <2>3, <3>1, SortedAppend
  <2>6. Packets' \subseteq Packets BY <1>0, <1>2, <2>3, <2>4 DEF Packets
  <2>7. sender' # "none" /\ (sender' \notin {"prefix", "payload"} => pkt = <<>>)
    BY <1>4, <2>2 DEF Notify, MInv, Media
  <2>8. /\ Before(wire', pkt') /\ Before(wire', send_queue') /\ Before(wire', built')
        /\ Before(pkt', send_queue') /\ Before(pkt', built') /\ Before(send_queue', built')
    BY <1>0, <1>2, <1>3, <2>3, <2>4 DEF Before
  <2> QED BY <1>0, <1>3, <2>5, <2>6, <2>7, <2>8, PacketsMove
<1>6. CASE UNCHANGED <<send_queue, sender>>
  <2>1. Packets' \subseteq Packets BY <1>0, <1>2, <1>6 DEF Packets
  <2>2. Before(wire, built') /\ Before(pkt, built') /\ Before(send_queue, built')
    BY <1>2 DEF Before
  <2>3. sender' # "none" /\ (sender' \notin {"prefix", "payload"} => pkt = <<>>)
    BY <1>4, <1>6 DEF MInv, Media
  <2> QED BY <1>0, <1>3, <1>6, <2>1, <2>2, <2>3, PacketsMove
<1> QED BY <1>1, <1>5, <1>6 DEF Enqueue

\* tx_thread_func takes, writes, loses or clears packets, and stop() clears them.
LEMMA TransmitKeepsMInv ==
  ASSUME IInv, MInv, Sender \/ StopQueue
  PROVE  MInv'
<1> USE DEF shared, media, control, None
<1>0. /\ UNCHANGED <<stop_flag, rtp, clock, built>>
      /\ wire \in Seq(Packet) /\ pkt \in Seq(Packet) /\ send_queue \in Seq(Packet)
      /\ sender' = "none" => sender = "none"
      /\ Filling' => Filling
  BY DEF Sender, TxLoop, TxTake, SpuriousWake, TxWrite, TxWriteFails, TxCleanup, StopQueue,
         Notify, IInv, TypeOK, Filling
<1>1. /\ Sorted(wire) /\ Sorted(send_queue)
      /\ Before(wire, pkt) /\ Before(wire, send_queue) /\ Before(wire, built)
      /\ Before(pkt, send_queue) /\ Before(pkt, built) /\ Before(send_queue, built)
  BY DEF MInv, Order
<1>2. /\ clock # "enqueue" => built = <<>>
      /\ sender \notin {"prefix", "payload"} => pkt = <<>>
      /\ sender = "none" => Packets = {} /\ clock = "idle"
  BY DEF MInv, Media
<1>3. Sorted(<<>>) BY DEF Sorted
<1>4. CASE UNCHANGED <<wire, pkt, send_queue>> /\ (sender' \notin {"prefix", "payload"} => pkt = <<>>)
  BY <1>0, <1>2, <1>4, PacketsRest DEF rtp
<1>5. CASE TxTake /\ ~stop_flag /\ send_queue # <<>>
  <2>1. /\ pkt' = <<Head(send_queue)>> /\ send_queue' = Tail(send_queue)
        /\ sender' = "prefix" /\ wire' = wire
    BY <1>5 DEF TxTake
  <2>2. /\ Head(send_queue) \in Range(send_queue)
        /\ Range(send_queue') \subseteq Range(send_queue)
        /\ Range(pkt') = {Head(send_queue)}
        /\ Sorted(send_queue') /\ Before(pkt', send_queue')
    BY <1>0, <1>1, <1>5, <2>1, RangeTail, SortedTail
  <2>3. Packets' \subseteq Packets BY <1>0, <2>1, <2>2 DEF Packets
  <2>4. /\ Before(wire', pkt') /\ Before(wire', send_queue') /\ Before(wire', built')
        /\ Before(pkt', built') /\ Before(send_queue', built')
    BY <1>0, <1>1, <2>1, <2>2 DEF Before
  <2> QED BY <1>0, <1>1, <1>2, <2>1, <2>2, <2>3, <2>4, PacketsMove
<1>6. CASE TxWrite /\ sender = "payload"
  <2>1. /\ wire' = Append(wire, pkt[1]) /\ pkt' = <<>> /\ sender' = "loop"
        /\ UNCHANGED send_queue
    BY <1>6 DEF TxWrite
  <2>2. Range(pkt) = {pkt[1]} /\ pkt[1] \in Packet /\ Range(pkt') = {}
    BY <1>0, <1>6, <2>1, RangeOne, RangeEmpty DEF IInv, TypeOK
  <2>3. Range(wire') = Range(wire) \cup {pkt[1]} BY <1>0, <2>1, <2>2, RangeAppend
  <2>4. Sorted(wire')
    <3>1. \A p \in Range(wire) : Ahead(p, pkt[1].payload[1], pkt[1].seq)
      BY <1>1, <2>2 DEF Before
    <3> QED BY <1>0, <1>1, <2>1, <2>2, <3>1, SortedAppend
  <2>5. Packets' \subseteq Packets BY <1>0, <2>1, <2>2, <2>3 DEF Packets
  <2>6. /\ Before(wire', pkt') /\ Before(wire', send_queue') /\ Before(wire', built')
        /\ Before(pkt', send_queue') /\ Before(pkt', built') /\ Before(send_queue', built')
    BY <1>0, <1>1, <2>1, <2>2, <2>3 DEF Before
  <2> QED BY <1>0, <1>1, <1>2, <2>1, <2>4, <2>5, <2>6, PacketsMove
<1>7. CASE TxWriteFails
  <2>1. pkt' = <<>> /\ sender' = "cleanup" /\ UNCHANGED <<wire, send_queue>> /\ Range(pkt') = {}
    BY <1>7, RangeEmpty DEF TxWriteFails
  <2>2. Packets' \subseteq Packets BY <1>0, <2>1 DEF Packets
  <2>3. Before(wire', pkt') /\ Before(pkt', send_queue') /\ Before(pkt', built')
    BY <2>1 DEF Before
  <2> QED BY <1>0, <1>1, <1>2, <2>1, <2>2, <2>3, PacketsMove
<1>8. CASE TxCleanup \/ StopQueue
  <2>1. /\ send_queue' = <<>> /\ UNCHANGED <<wire, pkt>> /\ Range(send_queue') = {}
        /\ sender' \notin {"prefix", "payload"} => pkt = <<>>
    BY <1>2, <1>8, RangeEmpty DEF TxCleanup, StopQueue, Notify
  <2>2. Packets' \subseteq Packets BY <1>0, <2>1 DEF Packets
  <2>3. Before(wire', send_queue') /\ Before(pkt', send_queue') /\ Before(send_queue', built')
    BY <2>1 DEF Before
  <2> QED BY <1>0, <1>1, <1>2, <1>3, <2>1, <2>2, <2>3, PacketsMove
<1>9. CASE TxLoop \/ SpuriousWake
  <2>1. sender \notin {"prefix", "payload"} BY <1>9 DEF TxLoop, SpuriousWake
  <2> QED BY <1>2, <1>4, <1>9, <2>1 DEF TxLoop, SpuriousWake
<1>10. CASE TxTake /\ (stop_flag \/ send_queue = <<>>)
  <2>1. sender \notin {"prefix", "payload"} BY <1>10 DEF TxTake
  <2> QED BY <1>2, <1>4, <1>10, <2>1 DEF TxTake
<1>11. CASE TxWrite /\ sender = "prefix"
  BY <1>4, <1>11 DEF TxWrite
<1>12. CASE TxWrite /\ sender \notin {"prefix", "payload"} BY <1>12 DEF TxWrite
<1> QED BY <1>5, <1>6, <1>7, <1>8, <1>9, <1>10, <1>11, <1>12 DEF Sender

\* The other threads touch no packet; the sender begins without one.
LEMMA OthersKeepMInv ==
  ASSUME IInv, MInv, Opener \/ (Stopper /\ ~StopQueue) \/ PeerReset \/ Finished \/ UNCHANGED vars
  PROVE  MInv'
<1> USE DEF shared, media, transmit, control, vars
<1>0. /\ UNCHANGED <<wire, pkt, send_queue, built, clock, rtp>>
      /\ clock # "enqueue" => built = <<>>
      /\ sender \notin {"prefix", "payload"} => pkt = <<>>
      /\ sender = "none" => Packets = {} /\ clock = "idle"
  BY DEF Opener, Accept, AcceptFails, StoreSocket, StartTxThread, Stopper, StopFlag, StopListen,
         StopSocket, StopJoin, PeerReset, Finished, MInv, Media
<1>1. CASE StartTxThread
  <2>1. Packets = {} /\ pkt = <<>> BY <1>0, <1>1 DEF StartTxThread, IInv, Ownership
  <2>2. sender' = "none" => sender = "none" BY <1>1 DEF StartTxThread
  <2> QED BY <1>0, <2>1, <2>2, PacketsRest DEF rtp
<1>2. CASE ~StartTxThread
  <2>1. UNCHANGED <<sender, tx_active>> /\ (~stop_flag' => ~stop_flag)
    BY <1>2 DEF Opener, Accept, AcceptFails, StoreSocket, Stopper, StopFlag, StopListen,
                StopSocket, StopJoin, PeerReset, Finished
  <2> QED BY <1>0, <2>1, PacketsRest DEF rtp, Filling
<1> QED BY <1>1, <1>2

LEMMA MInvariance == Spec => []MInv
<1>1. IInv /\ MInv /\ [Next]_vars => MInv'
  BY FramesKeepMInv, EnqueueKeepsMInv, TransmitKeepsMInv, OthersKeepMInv
  DEF Next, Clock, Stopper
<1> QED BY <1>1, InitMInv, Invariance, PTL DEF Spec

\* Two sorted sequences, all of the first before all of the second.
LEMMA SortedConcat ==
  ASSUME NEW S, NEW s \in Seq(S), NEW t \in Seq(S), Sorted(s), Sorted(t), Before(s, t)
  PROVE  Sorted(s \o t)
<1>1. PICK u : u = s \o t OBVIOUS
<1>2. /\ u \in Seq(S) /\ Len(u) = Len(s) + Len(t) /\ Len(s) \in Nat /\ Len(t) \in Nat
      /\ \A i \in 1 .. Len(s) + Len(t) :
           u[i] = IF i <= Len(s) THEN s[i] ELSE t[i - Len(s)]
  BY <1>1, ConcatProperties, LenProperties
<1>3. DOMAIN s = 1 .. Len(s) /\ DOMAIN t = 1 .. Len(t) /\ DOMAIN u = 1 .. Len(u)
  BY <1>2, LenProperties
<1>4. Range(s) = {s[i] : i \in 1 .. Len(s)} /\ Range(t) = {t[i] : i \in 1 .. Len(t)}
  BY RangeEquality
<1>5. ASSUME NEW i \in DOMAIN u, NEW j \in DOMAIN u, i < j
      PROVE  Ahead(u[i], u[j].payload[1], u[j].seq)
  <2>1. CASE j <= Len(s)
    <3>1. i \in DOMAIN s /\ j \in DOMAIN s /\ u[i] = s[i] /\ u[j] = s[j]
      BY <1>2, <1>3, <1>5, <2>1
    <3> QED BY <1>5, <3>1 DEF Sorted
  <2>2. CASE i > Len(s)
    <3>1. /\ i - Len(s) \in DOMAIN t /\ j - Len(s) \in DOMAIN t /\ i - Len(s) < j - Len(s)
          /\ u[i] = t[i - Len(s)] /\ u[j] = t[j - Len(s)]
      BY <1>2, <1>3, <1>5, <2>2
    <3> QED BY <3>1 DEF Sorted
  <2>3. CASE i <= Len(s) /\ j > Len(s)
    <3>1. /\ i \in 1 .. Len(s) /\ j - Len(s) \in 1 .. Len(t)
          /\ u[i] = s[i] /\ u[j] = t[j - Len(s)]
      BY <1>2, <1>3, <1>5, <2>3
    <3>2. u[i] \in Range(s) /\ u[j] \in Range(t) BY <1>4, <3>1
    <3> QED BY <3>2 DEF Before
  <2> QED BY <1>2, <1>3, <2>1, <2>2, <2>3
<1> QED BY <1>1, <1>5 DEF Sorted

\* The stream of all packets is what the four places hold, in order.
LEMMA StreamSorted ==
  ASSUME IInv, MInv
  PROVE  /\ Stream \in Seq(Packet) /\ Range(Stream) = Packets /\ Sorted(Stream)
         /\ \A i \in DOMAIN Stream : Stream[i] \in Packet /\ Stamped(Stream[i])
<1>1. /\ wire \in Seq(Packet) /\ pkt \in Seq(Packet) /\ send_queue \in Seq(Packet)
      /\ built \in Seq(Packet)
  BY DEF IInv, TypeOK
<1>2. Sorted(pkt) /\ Sorted(built)
  <2>1. pkt = <<>> \/ Len(pkt) = 1 BY DEF IInv, TypeOK, MInv, Media
  <2>2. built = <<>> \/ Len(built) = 1 BY DEF IInv, TypeOK, MInv, Media
  <2>3. Sorted(<<>>) BY DEF Sorted
  <2>4. ASSUME NEW s \in Seq(Packet), Len(s) = 1 PROVE Sorted(s)
    <3>1. DOMAIN s = 1 .. 1 BY <2>4, LenProperties
    <3> QED BY <3>1 DEF Sorted
  <2> QED BY <1>1, <2>1, <2>2, <2>3, <2>4
<1>3. PICK a : a = wire \o pkt OBVIOUS
<1>4. a \in Seq(Packet) /\ Range(a) = Range(wire) \cup Range(pkt)
  BY <1>1, <1>3, ConcatProperties, RangeConcatenation
<1>5. Sorted(a) BY <1>1, <1>2, <1>3, SortedConcat DEF MInv, Order
<1>6. PICK b : b = a \o send_queue OBVIOUS
<1>7. b \in Seq(Packet) /\ Range(b) = Range(a) \cup Range(send_queue)
  BY <1>1, <1>4, <1>6, ConcatProperties, RangeConcatenation
<1>8. Sorted(b)
  <2>1. Before(a, send_queue) BY <1>4 DEF MInv, Order, Before
  <2> QED BY <1>1, <1>4, <1>5, <1>6, <2>1, SortedConcat DEF MInv, Order
<1>9. Stream = b \o built BY <1>3, <1>6 DEF Stream
<1>10. Stream \in Seq(Packet) /\ Range(Stream) = Range(b) \cup Range(built)
  BY <1>1, <1>7, <1>9, ConcatProperties, RangeConcatenation
<1>11. Sorted(Stream)
  <2>1. Before(b, built) BY <1>4, <1>7 DEF MInv, Order, Before
  <2> QED BY <1>1, <1>2, <1>7, <1>8, <1>9, <2>1, SortedConcat
<1>12. Range(Stream) = Packets BY <1>4, <1>7, <1>10 DEF Packets
<1>13. ASSUME NEW i \in DOMAIN Stream PROVE Stream[i] \in Packet /\ Stamped(Stream[i])
  <2>1. i \in 1 .. Len(Stream) BY <1>10, LenProperties
  <2>2. Stream[i] \in Packet /\ Stream[i] \in Range(Stream)
    BY <1>10, <2>1, ElementOfSeq, RangeEquality
  <2> QED BY <1>12, <2>2 DEF MInv, Media
<1> QED BY <1>10, <1>11, <1>12, <1>13

\* Timestamps follow the media clock: a packet holds consecutive frames, and is
\* stamped with the samples the clock had produced at its first one, also after
\* frames that were skipped (on_put_frame).
THEOREM StampsFollowTheClock == Spec => []MediaClock
<1>1. ASSUME IInv, MInv PROVE MediaClock
  <2> SUFFICES ASSUME NEW i \in DOMAIN Stream
               PROVE  LET p == Stream[i] IN
                        /\ Len(p.payload) = TxBatchFrames
                        /\ \A k \in DOMAIN p.payload : p.payload[k] = p.payload[1] + k - 1
                        /\ p.ts = (p.payload[1] * FrameSamples) % TsWrap
    BY DEF MediaClock
  <2>1. PICK p : p = Stream[i] OBVIOUS
  <2>2. p \in Packet /\ Stamped(p) BY <1>1, <2>1, StreamSorted
  <2>3. p.payload \in Seq(Nat) BY <2>2 DEF Packet
  <2>4. DOMAIN p.payload = 1 .. TxBatchFrames BY <2>2, <2>3, LenProperties DEF Stamped
  <2> QED BY <2>1, <2>2, <2>4 DEF Stamped
<1> QED BY <1>1, Invariance, MInvariance, PTL

\* Dropping from the queue never reorders nor repeats audio, and sequence numbers
\* count the packets' worth of audio between two packets, modulo their width.
THEOREM GapsAreNumbered == Spec => []StreamOrder
<1>1. ASSUME IInv, MInv PROVE StreamOrder
  <2> SUFFICES ASSUME NEW i \in DOMAIN Stream, NEW j \in DOMAIN Stream, i < j
               PROVE  LET gap == Stream[j].payload[1] - Stream[i].payload[1] IN
                        /\ gap > 0 /\ gap % TxBatchFrames = 0
                        /\ Stream[j].seq = (Stream[i].seq + gap \div TxBatchFrames) % SeqWrap
    BY DEF StreamOrder
  <2>1. PICK p, q : p = Stream[i] /\ q = Stream[j] OBVIOUS
  <2>2. p \in Packet /\ Stamped(p) /\ Ahead(p, q.payload[1], q.seq)
    BY <1>1, <2>1, StreamSorted DEF Sorted
  <2>3. PICK k \in Nat \ {0} :
          q.payload[1] = p.payload[1] + k * TxBatchFrames /\ q.seq = (p.seq + k) % SeqWrap
    BY <2>2 DEF Ahead
  <2>4. PICK x : x = k * TxBatchFrames OBVIOUS
  <2>5. x \in Nat /\ x > 0 /\ x % TxBatchFrames = 0 /\ x \div TxBatchFrames = k
    BY <2>4, Multiple
  <2>6. p.payload[1] \in Nat BY <2>2, FirstTick
  <2>7. q.payload[1] - p.payload[1] = x BY <2>3, <2>4, <2>5, <2>6
  <2> QED BY <2>1, <2>3, <2>5, <2>7
<1> QED BY <1>1, Invariance, MInvariance, PTL

-----------------------------------------------------------------------------
(* The sender implements the abstract feed.                                *)

\* A sender that runs is active until stop() is called; packets begin at ticks
\* that were counted.
Bound ==
  /\ sender \notin {"none", "done"} /\ stopper \in {"running", "flagged"} => tx_active
  /\ tick <= MaxTicks /\ (clock = "active" => tick < MaxTicks)
  /\ \A p \in Range(built) : p.payload[1] <= MaxTicks

LEMMA InitBound == Init => Bound
BY RangeEmpty DEF Init, Bound, None

LEMMA NextBound == IInv /\ MInv /\ Bound /\ [Next]_vars => Bound'
<1> SUFFICES ASSUME IInv, MInv, Bound, [Next]_vars PROVE Bound' OBVIOUS
<1> USE DEF shared, media, rtp, transmit, control
<1>1. CASE PutFrame \/ EncodeFrame
  <2>0. /\ UNCHANGED <<sender, stopper, tx_active>> /\ tick \in Nat
        /\ tx_acc \in Seq(Nat) /\ tick <= MaxTicks
    BY <1>1 DEF PutFrame, EncodeFrame, IInv, TypeOK, Bound
  <2>1. CASE UNCHANGED built
    BY <1>1, <2>0, <2>1 DEF PutFrame, EncodeFrame, SkipFrame, Accumulate, Bound
  <2>2. CASE Accumulate /\ clock = "active" /\ ~UNCHANGED built
    <3>1. PICK acc : acc = Append(tx_acc, tick) OBVIOUS
    <3>2. PICK p : p.payload = acc /\ built' = <<p>>
      BY <2>2, <3>1 DEF Accumulate
    <3>3. Range(built') = {p} BY <3>2 DEF Range
    <3>4. acc[1] <= tick
      <4>1. CASE tx_acc = <<>> BY <2>0, <3>1, <4>1
      <4>2. CASE tx_acc # <<>>
        <5>1. Len(tx_acc) \in Nat \ {0} /\ 1 \in 1 .. Len(tx_acc) BY <2>0, <4>2, EmptySeq
        <5>2. acc[1] = tx_acc[1] BY <2>0, <3>1, <5>1, AppendProperties
        <5>3. tx_acc[1] = NextFirst BY <2>0, <5>1 DEF MInv, Media, NextFirst
        <5> QED BY <2>0, <5>1, <5>2, <5>3 DEF NextFirst
      <4> QED BY <4>1, <4>2
    <3>5. acc[1] \in Int BY <2>0, <3>1, AppendProperties, EmptySeq, ElementOfSeq
    <3>6. p.payload[1] <= MaxTicks BY <2>0, <3>2, <3>4, <3>5
    <3>7. tick' = tick + 1 /\ tick < MaxTicks /\ clock' # "active"
      BY <2>2 DEF Accumulate, Bound
    <3> QED BY <2>0, <3>3, <3>6, <3>7 DEF Bound
  <2> QED BY <1>1, <2>1, <2>2 DEF PutFrame, EncodeFrame, SkipFrame
<1>2. CASE Enqueue
  <2>1. built' = <<>> /\ clock' = "idle" /\ UNCHANGED <<tick, stopper, tx_active>>
    BY <1>2 DEF Enqueue, None
  <2>2. sender' \in {"none", "done"} <=> sender \in {"none", "done"}
    BY <1>2 DEF Enqueue, Push, Notify
  <2> QED BY <2>1, <2>2, RangeEmpty DEF Bound
<1>3. CASE Opener
  BY <1>3 DEF Opener, Accept, AcceptFails, StoreSocket, StartTxThread, Bound, IInv, Ownership
<1>4. CASE Sender
  BY <1>4 DEF Sender, TxLoop, TxTake, SpuriousWake, TxWrite, TxWriteFails, TxCleanup, Bound
<1>5. CASE Stopper
  BY <1>5 DEF Stopper, StopFlag, StopQueue, StopListen, StopSocket, StopJoin, Bound
<1>6. CASE PeerReset \/ Finished \/ UNCHANGED vars
  BY <1>6 DEF PeerReset, Finished, vars, Bound
<1> QED BY <1>1, <1>2, <1>3, <1>4, <1>5, <1>6 DEF Next, Clock

\* FirstTicks maps a sequence of packets element by element.
Firsts == {p.payload[1] : p \in Packet}

LEMMA FirstTicksType ==
  ASSUME NEW s \in Seq(Packet)
  PROVE  /\ FirstTicks(s) \in Seq(Firsts) /\ Len(FirstTicks(s)) = Len(s)
         /\ \A i \in 1 .. Len(s) : FirstTicks(s)[i] = s[i].payload[1]
<1>1. Len(s) \in Nat /\ DOMAIN s = 1 .. Len(s) BY LenProperties
<1>2. \A i \in 1 .. Len(s) : s[i] \in Packet BY ElementOfSeq
<1>3. FirstTicks(s) = [i \in 1 .. Len(s) |-> s[i].payload[1]] BY <1>1 DEF FirstTicks
<1>4. \A i \in 1 .. Len(s) : s[i].payload[1] \in Firsts BY <1>2 DEF Firsts
<1> QED BY <1>1, <1>3, <1>4

LEMMA FirstTicksEmpty == FirstTicks(<<>>) = <<>>
BY FirstTicksType, EmptySeq

LEMMA FirstTicksOne ==
  ASSUME NEW e \in Packet
  PROVE  FirstTicks(<<e>>) = <<e.payload[1]>>
<1>1. PICK o, t : o = <<e>> /\ t = FirstTicks(o) OBVIOUS
<1>2. o \in Seq(Packet) /\ Len(o) = 1 /\ o[1] = e BY <1>1
<1>3. t \in Seq(Firsts) /\ Len(t) = Len(o) /\ \A i \in 1 .. Len(o) : t[i] = o[i].payload[1]
  BY <1>1, <1>2, FirstTicksType
<1>4. t[1] = e.payload[1] BY <1>2, <1>3
<1> QED BY <1>1, <1>2, <1>3, <1>4

LEMMA FirstTicksConcat ==
  ASSUME NEW s \in Seq(Packet), NEW t \in Seq(Packet)
  PROVE  FirstTicks(s \o t) = FirstTicks(s) \o FirstTicks(t)
<1>1. PICK a, b, c : a = FirstTicks(s) /\ b = FirstTicks(t) /\ c = FirstTicks(s \o t) OBVIOUS
<1>2. PICK u : u = s \o t OBVIOUS
<1>3. /\ u \in Seq(Packet) /\ Len(u) = Len(s) + Len(t) /\ Len(s) \in Nat /\ Len(t) \in Nat
      /\ \A i \in 1 .. Len(s) + Len(t) : u[i] = IF i <= Len(s) THEN s[i] ELSE t[i - Len(s)]
  BY <1>2, ConcatProperties, LenProperties
<1>4. /\ a \in Seq(Firsts) /\ Len(a) = Len(s) /\ \A i \in 1 .. Len(s) : a[i] = s[i].payload[1]
      /\ b \in Seq(Firsts) /\ Len(b) = Len(t) /\ \A i \in 1 .. Len(t) : b[i] = t[i].payload[1]
      /\ c \in Seq(Firsts) /\ Len(c) = Len(u) /\ \A i \in 1 .. Len(u) : c[i] = u[i].payload[1]
  BY <1>1, <1>2, <1>3, FirstTicksType
<1>5. PICK d : d = a \o b OBVIOUS
<1>6. a \in Seq(Firsts) /\ b \in Seq(Firsts) BY <1>4
<1>7. /\ d \in Seq(Firsts) /\ Len(d) = Len(a) + Len(b)
      /\ \A i \in 1 .. Len(a) + Len(b) : d[i] = IF i <= Len(a) THEN a[i] ELSE b[i - Len(a)]
  BY <1>5, <1>6, ConcatProperties
<1>8. PICK m, n : m = Len(s) /\ n = Len(t) OBVIOUS
<1>9. /\ m \in Nat /\ n \in Nat /\ Len(c) = m + n /\ Len(d) = m + n
      /\ \A i \in 1 .. m + n : d[i] = IF i <= m THEN a[i] ELSE b[i - m]
      /\ \A i \in 1 .. m + n : c[i] = u[i].payload[1]
      /\ \A i \in 1 .. m + n : u[i] = IF i <= m THEN s[i] ELSE t[i - m]
      /\ \A i \in 1 .. m : a[i] = s[i].payload[1]
      /\ \A i \in 1 .. n : b[i] = t[i].payload[1]
  BY <1>3, <1>4, <1>7, <1>8
<1>10. ASSUME NEW i \in 1 .. m + n PROVE c[i] = d[i]
  <2>1. CASE i <= m
    <3>1. i \in 1 .. m BY <1>9, <2>1
    <3>2. d[i] = a[i] /\ u[i] = s[i] /\ c[i] = u[i].payload[1] BY <1>9, <2>1
    <3>3. a[i] = s[i].payload[1] BY <1>9, <3>1
    <3> QED BY <3>2, <3>3
  <2>2. CASE i > m
    <3>1. i - m \in 1 .. n /\ ~(i <= m) BY <1>9, <2>2
    <3>2. d[i] = b[i - m] /\ u[i] = t[i - m] /\ c[i] = u[i].payload[1] BY <1>9, <3>1
    <3>3. b[i - m] = t[i - m].payload[1] BY <1>9, <3>1
    <3> QED BY <3>2, <3>3
  <2> QED BY <1>9, <2>1, <2>2
<1>11. c = d BY <1>4, <1>7, <1>9, <1>10, SeqEqual
<1> QED BY <1>1, <1>5, <1>11

\* Taking the first of a sequence off and putting it before the rest.
LEMMA HeadThenTail ==
  ASSUME NEW S, NEW s \in Seq(S), s # <<>>
  PROVE  <<Head(s)>> \o Tail(s) = s
<1>1. PICK h, t, u : h = <<Head(s)>> /\ t = Tail(s) /\ u = h \o t OBVIOUS
<1>2. /\ Head(s) \in S /\ t \in Seq(S) /\ Len(t) = Len(s) - 1 /\ Len(s) \in Nat \ {0}
      /\ \A i \in 1 .. Len(t) : t[i] = s[i + 1]
      /\ Head(s) = s[1]
  BY <1>1, HeadTailProperties, EmptySeq
<1>3. h \in Seq(S) /\ Len(h) = 1 /\ h[1] = s[1] BY <1>1, <1>2
<1>4. /\ u \in Seq(S) /\ Len(u) = Len(s)
      /\ \A i \in 1 .. Len(s) : u[i] = IF i <= 1 THEN h[i] ELSE t[i - 1]
  BY <1>1, <1>2, <1>3, ConcatProperties
<1>5. ASSUME NEW i \in 1 .. Len(u) PROVE u[i] = s[i]
  <2>1. CASE i = 1 BY <1>2, <1>3, <1>4, <2>1
  <2>2. CASE i # 1
    <3>1. i - 1 \in 1 .. Len(t) /\ (i - 1) + 1 = i BY <1>2, <1>4, <2>2
    <3> QED BY <1>2, <1>4, <2>2, <3>1
  <2> QED BY <2>1, <2>2
<1> QED BY <1>1, <1>4, <1>5, SeqEqual

\* A sequence after one element.
LEMMA OneThenRest ==
  ASSUME NEW S, NEW o \in Seq(S), Len(o) = 1, NEW s \in Seq(S)
  PROVE  o \o s # <<>> /\ Head(o \o s) = o[1] /\ Tail(o \o s) = s /\ Len(o \o s) = Len(s) + 1
<1>1. PICK u : u = o \o s OBVIOUS
<1>2. /\ u \in Seq(S) /\ Len(u) = Len(s) + 1 /\ Len(s) \in Nat
      /\ \A i \in 1 .. Len(s) + 1 : u[i] = IF i <= 1 THEN o[i] ELSE s[i - 1]
  <2>1. /\ u \in Seq(S) /\ Len(u) = Len(o) + Len(s)
        /\ \A i \in 1 .. Len(o) + Len(s) : u[i] = IF i <= Len(o) THEN o[i] ELSE s[i - Len(o)]
    BY <1>1, ConcatProperties
  <2>2. Len(s) \in Nat BY LenProperties
  <2>3. Len(o) + Len(s) = Len(s) + 1 BY <2>2
  <2> QED BY <2>1, <2>2, <2>3
<1>3. u # <<>> BY <1>2, EmptySeq
<1>4. /\ Tail(u) \in Seq(S) /\ Len(Tail(u)) = Len(s)
      /\ \A i \in 1 .. Len(s) : Tail(u)[i] = u[i + 1]
  BY <1>2, <1>3, HeadTailProperties
<1>5. Head(u) = o[1] BY <1>2, <1>3
<1>6. ASSUME NEW i \in 1 .. Len(s) PROVE Tail(u)[i] = s[i]
  <2>1. u[i + 1] = s[(i + 1) - 1] BY <1>2
  <2> QED BY <1>4, <2>1
<1>7. Tail(u) = s BY <1>4, <1>6, SeqEqual
<1> QED BY <1>1, <1>2, <1>3, <1>5, <1>7

\* The feed as the sender's state shows it.
pending == FirstTicks(pkt \o send_queue)
heard   == FirstTicks(wire)

LEMMA FeedType ==
  ASSUME IInv, MInv
  PROVE  /\ wire \in Seq(Packet) /\ pkt \in Seq(Packet) /\ send_queue \in Seq(Packet)
         /\ pkt = <<>> \/ Len(pkt) = 1
         /\ pkt \o send_queue \in Seq(Packet) /\ pending \in Seq(Firsts)
         /\ pkt = <<>> => pkt \o send_queue = send_queue
<1>1. /\ wire \in Seq(Packet) /\ pkt \in Seq(Packet) /\ send_queue \in Seq(Packet)
      /\ pkt = <<>> \/ Len(pkt) = 1
  BY DEF IInv, TypeOK, MInv, Media
<1>2. pkt \o send_queue \in Seq(Packet) BY <1>1, ConcatProperties
<1>3. pkt = <<>> => pkt \o send_queue = send_queue BY <1>1, ConcatEmptySeq
<1> QED BY <1>1, <1>2, <1>3, FirstTicksType DEF pending

\* What is waiting when a packet is in the sender's hand.
LEMMA PendingWith ==
  ASSUME NEW o \in Seq(Packet), Len(o) = 1, NEW q \in Seq(Packet)
  PROVE  /\ FirstTicks(o \o q) # <<>>
         /\ Head(FirstTicks(o \o q)) = o[1].payload[1]
         /\ Tail(FirstTicks(o \o q)) = FirstTicks(q)
         /\ FirstTicks(o) = <<o[1].payload[1]>>
         /\ Len(FirstTicks(o \o q)) = Len(q) + 1
<1>1. FirstTicks(o \o q) = FirstTicks(o) \o FirstTicks(q) BY FirstTicksConcat
<1>2. PICK a, b : a = FirstTicks(o) /\ b = FirstTicks(q) OBVIOUS
<1>3. /\ a \in Seq(Firsts) /\ Len(a) = 1 /\ a[1] = o[1].payload[1]
      /\ b \in Seq(Firsts) /\ Len(b) = Len(q)
  <2>1. a \in Seq(Firsts) /\ Len(a) = Len(o) /\ \A i \in 1 .. Len(o) : a[i] = o[i].payload[1]
    BY <1>2, FirstTicksType
  <2>2. b \in Seq(Firsts) /\ Len(b) = Len(q) BY <1>2, FirstTicksType
  <2> QED BY <2>1, <2>2
<1>4. a \o b # <<>> /\ Head(a \o b) = a[1] /\ Tail(a \o b) = b /\ Len(a \o b) = Len(b) + 1
  BY <1>3, OneThenRest
<1>5. a = <<a[1]>> BY <1>3
<1> QED BY <1>1, <1>2, <1>3, <1>4, <1>5

\* What is waiting after the oldest was given up.
LEMMA FirstTicksTail ==
  ASSUME NEW q \in Seq(Packet), q # <<>>
  PROVE  FirstTicks(Tail(q)) = Tail(FirstTicks(q)) /\ FirstTicks(q) # <<>>
<1>1. PICK h, t : h = <<Head(q)>> /\ t = Tail(q) OBVIOUS
<1>2. Head(q) \in Packet /\ t \in Seq(Packet) BY <1>1, HeadTailProperties
<1>3. h \in Seq(Packet) /\ Len(h) = 1 BY <1>1, <1>2
<1>4. h \o t = q BY <1>1, HeadThenTail
<1>5. FirstTicks(h \o t) # <<>> /\ Tail(FirstTicks(h \o t)) = FirstTicks(t)
  BY <1>2, <1>3, PendingWith
<1> QED BY <1>1, <1>4, <1>5

\* The queue is cleared: the packet in the sender's hand is left.
LEMMA FeedCloses ==
  ASSUME IInv, MInv, Bound, TxCleanup \/ StopQueue
  PROVE  Feed!Next \/ UNCHANGED Feed!feed
<1> USE DEF shared, media, control, None
<1>0. /\ UNCHANGED <<wire, pkt>> /\ send_queue' = <<>> /\ ~tx_active'
      /\ sender' # "none" \/ stopper' \notin {"running", "flagged"}
      /\ heard' = heard
  BY DEF TxCleanup, StopQueue, heard
<1>1. phase' = "closed" BY <1>0 DEF phase
<1>2. /\ pkt \in Seq(Packet) /\ send_queue \in Seq(Packet)
      /\ pkt = <<>> \/ Len(pkt) = 1
  BY FeedType
<1>3. pending' = FirstTicks(pkt) BY <1>0, <1>2, ConcatEmptySeq DEF pending
<1>4. CASE phase # "closed"
  <2>1. CASE pkt = <<>>
    <3>1. pending' = <<>> BY <1>3, <2>1, FirstTicksEmpty
    <3> QED BY <1>0, <1>1, <1>4, <3>1 DEF Feed!Next, Feed!Close, heard, pending
  <2>2. CASE Len(pkt) = 1
    <3>1. pending # <<>> /\ pending' = <<Head(pending)>>
      <4>1. pending # <<>> /\ Head(pending) = pkt[1].payload[1]
        BY <1>2, <2>2, PendingWith DEF pending
      <4>2. FirstTicks(pkt) = <<pkt[1].payload[1]>> BY <1>2, <2>2, PendingWith
      <4> QED BY <1>3, <4>1, <4>2
    <3> QED BY <1>0, <1>1, <1>4, <3>1 DEF Feed!Next, Feed!Close, heard, pending
  <2> QED BY <1>2, <2>1, <2>2
<1>5. CASE phase = "closed"
  <2>1. ~tx_active /\ (sender # "none" \/ stopper \notin {"running", "flagged"})
    BY <1>5 DEF phase
  <2>2. send_queue = <<>>
    BY <2>1 DEF Bound, IInv, NoEnqueueAfterCleanup
  <2>3. pending' = pending BY <1>0, <2>2 DEF pending
  <2> QED BY <1>0, <1>1, <1>5, <2>3 DEF Feed!feed, heard, pending
<1> QED BY <1>4, <1>5 DEF phase

\* tx_thread_func takes a packet into its hand, writes it, or loses it.
LEMMA FeedMoves ==
  ASSUME IInv, MInv, Bound, TxTake \/ TxWrite \/ TxWriteFails
  PROVE  Feed!Next \/ UNCHANGED Feed!feed
<1> USE DEF shared, media, control, None
<1>0. /\ wire \in Seq(Packet) /\ pkt \in Seq(Packet) /\ send_queue \in Seq(Packet)
      /\ pkt = <<>> \/ Len(pkt) = 1
  BY FeedType
<1>1. UNCHANGED <<tx_active, stopper>> /\ sender # "none" /\ sender' # "none"
  BY DEF TxTake, TxWrite, TxWriteFails
<1>2. phase' = phase BY <1>1 DEF phase
<1>3. CASE UNCHANGED <<wire, pkt, send_queue>>
  BY <1>2, <1>3 DEF Feed!feed
<1>4. CASE TxTake /\ ~stop_flag /\ send_queue # <<>>
  <2>1. /\ pkt' = <<Head(send_queue)>> /\ send_queue' = Tail(send_queue) /\ wire' = wire
        /\ sender = "lock"
    BY <1>4 DEF TxTake
  <2>2. pkt = <<>> BY <2>1 DEF MInv, Media
  <2>3. pkt' \o send_queue' = send_queue BY <1>0, <1>4, <2>1, HeadThenTail
  <2>4. pkt \o send_queue = send_queue BY <2>2, FeedType
  <2>5. UNCHANGED (pkt \o send_queue) BY <2>3, <2>4
  <2> QED BY <1>2, <2>1, <2>5 DEF Feed!feed, FirstTicks
<1>5. CASE TxWrite /\ sender = "payload"
  <2>1. wire' = Append(wire, pkt[1]) /\ pkt' = <<>> /\ send_queue' = send_queue
    BY <1>5 DEF TxWrite
  <2>2. Len(pkt) = 1 /\ pkt[1] \in Packet BY <1>0, <1>5, RangeOne DEF IInv, TypeOK
  <2>3. heard' = Append(heard, Head(pending))
    <3>1. Head(pending) = pkt[1].payload[1] BY <1>0, <2>2, PendingWith DEF pending
    <3>2. PICK o : o = <<pkt[1]>> OBVIOUS
    <3>3. o \in Seq(Packet) /\ FirstTicks(o) = <<Head(pending)>>
      BY <2>2, <3>1, <3>2, FirstTicksOne
    <3>4. wire' = wire \o o BY <1>0, <2>1, <2>2, <3>2, AppendIsConcat
    <3>5. heard' = heard \o <<Head(pending)>>
      BY <1>0, <3>3, <3>4, FirstTicksConcat DEF heard
    <3>6. heard \in Seq(Firsts) /\ Head(pending) \in Firsts
      BY <1>0, <2>2, <3>1, FirstTicksType DEF heard, Firsts
    <3> QED BY <3>5, <3>6, AppendIsConcat
  <2>4. pending # <<>> /\ pending' = Tail(pending)
    <3>1. pkt' \o send_queue' = send_queue BY <1>0, <2>1, ConcatEmptySeq
    <3>2. Tail(pending) = FirstTicks(send_queue) /\ pending # <<>>
      BY <1>0, <2>2, PendingWith DEF pending
    <3> QED BY <3>1, <3>2 DEF pending, FirstTicks
  <2> QED BY <1>2, <2>3, <2>4 DEF Feed!Next, Feed!Hear, pending, heard
<1>6. CASE TxWriteFails
  <2>1. wire' = wire /\ pkt' = <<>> /\ send_queue' = send_queue /\ Len(pkt) = 1
    BY <1>6 DEF TxWriteFails, IInv, TypeOK
  <2>2. pkt' \o send_queue' = send_queue BY <1>0, <2>1, ConcatEmptySeq
  <2>3. Tail(pending) = FirstTicks(send_queue) /\ pending # <<>>
    BY <1>0, <2>1, PendingWith DEF pending
  <2>4. pending' = Tail(pending) BY <2>2, <2>3 DEF pending, FirstTicks
  <2>5. heard' = heard BY <2>1 DEF heard
  <2> QED BY <1>2, <2>3, <2>4, <2>5 DEF Feed!Next, Feed!Lose, pending, heard
<1>7. CASE TxTake /\ (stop_flag \/ send_queue = <<>>) BY <1>3, <1>7 DEF TxTake
<1>8. CASE TxWrite /\ sender = "prefix" BY <1>3, <1>8 DEF TxWrite
<1> QED BY <1>4, <1>5, <1>6, <1>7, <1>8 DEF TxWrite

\* A full queue beside a packet in the hand: the oldest that waits is the second.
LEMMA SecondGoes ==
  ASSUME NEW S, NEW o \in Seq(S), Len(o) = 1, NEW q \in Seq(S), q # <<>>
  PROVE  Feed!RemoveAt(o \o q, 2) = o \o Tail(q)
<1>1. PICK u, t, n : u = o \o q /\ t = Tail(q) /\ n = Len(q) OBVIOUS
<1>2. n \in Nat \ {0} BY <1>1, EmptySeq
<1>3. /\ u \in Seq(S) /\ Len(u) = n + 1 /\ u[1] = o[1]
      /\ \A i \in 1 .. n : u[i + 1] = q[i]
  <2>1. /\ u \in Seq(S) /\ Len(u) = Len(o) + Len(q)
        /\ \A i \in 1 .. Len(o) + Len(q) : u[i] = IF i <= Len(o) THEN o[i] ELSE q[i - Len(o)]
    BY <1>1, ConcatProperties
  <2>2. /\ u \in Seq(S) /\ Len(u) = n + 1
        /\ \A i \in 1 .. n + 1 : u[i] = IF i <= 1 THEN o[i] ELSE q[i - 1]
    BY <1>1, <1>2, <2>1
  <2>3. u[1] = o[1] BY <1>2, <2>2
  <2>4. ASSUME NEW i \in 1 .. n PROVE u[i + 1] = q[i]
    <3>1. i + 1 \in 1 .. n + 1 /\ ~(i + 1 <= 1) /\ (i + 1) - 1 = i BY <1>2
    <3>2. u[i + 1] = q[(i + 1) - 1] BY <2>2, <3>1
    <3> QED BY <3>1, <3>2
  <2> QED BY <2>2, <2>3, <2>4
<1>4. /\ t \in Seq(S) /\ Len(t) = n - 1 /\ \A i \in 1 .. n - 1 : t[i] = q[i + 1]
  BY <1>1, <1>2, HeadTailProperties
<1>5. PICK a, b : a = SubSeq(u, 1, 1) /\ b = SubSeq(u, 3, n + 1) OBVIOUS
<1>6. \A i \in 1 .. n + 1 : u[i] \in S BY <1>3, ElementOfSeq
<1>7. a \in Seq(S) /\ Len(a) = 1 /\ a[1] = u[1]
  <2>1. \A i \in 1 .. 1 : u[i] \in S BY <1>2, <1>6
  <2>2. /\ a \in Seq(S) /\ Len(a) = IF 1 <= 1 THEN 1 - 1 + 1 ELSE 0
        /\ \A i \in 1 .. 1 - 1 + 1 : a[i] = u[1 + i - 1]
    BY <1>5, <2>1, SubSeqProperties
  <2> QED BY <2>2
<1>8. a = o BY <1>3, <1>7
<1>9. b \in Seq(S) /\ Len(b) = n - 1 /\ \A i \in 1 .. n - 1 : b[i] = u[i + 2]
  <2>1. \A i \in 3 .. n + 1 : u[i] \in S BY <1>2, <1>6
  <2>2. n + 1 \in Int BY <1>2
  <2>3. /\ b \in Seq(S) /\ Len(b) = IF 3 <= n + 1 THEN (n + 1) - 3 + 1 ELSE 0
        /\ \A i \in 1 .. (n + 1) - 3 + 1 : b[i] = u[3 + i - 1]
    BY <1>5, <2>1, <2>2, SubSeqProperties
  <2>4. (n + 1) - 3 + 1 = n - 1 /\ Len(b) = n - 1 BY <1>2, <2>3
  <2>5. ASSUME NEW i \in 1 .. n - 1 PROVE b[i] = u[i + 2]
    <3>1. 3 + i - 1 = i + 2 BY <1>2
    <3> QED BY <2>3, <2>4, <3>1
  <2> QED BY <2>3, <2>4, <2>5
<1>10. ASSUME NEW i \in 1 .. n - 1 PROVE b[i] = t[i]
  <2>1. i + 1 \in 1 .. n /\ (i + 1) + 1 = i + 2 BY <1>2
  <2>2. u[(i + 1) + 1] = q[i + 1] BY <1>3, <2>1
  <2>3. b[i] = u[i + 2] /\ t[i] = q[i + 1] BY <1>4, <1>9
  <2> QED BY <2>1, <2>2, <2>3
<1>11. b = t BY <1>4, <1>9, <1>10, SeqEqual
<1>12. Feed!RemoveAt(u, 2) = a \o b
  <2>1. 2 - 1 = 1 /\ 2 + 1 = 3 OBVIOUS
  <2> QED BY <1>3, <1>5, <2>1 DEF Feed!RemoveAt
<1> QED BY <1>1, <1>8, <1>11, <1>12

\* The packet just built is later than all others, and what is given up for it is
\* the oldest that waits, never the one in the sender's hand.
LEMMA FeedOffers ==
  ASSUME IInv, MInv, Bound, Enqueue
  PROVE  Feed!Next \/ UNCHANGED Feed!feed
<1>0. /\ wire \in Seq(Packet) /\ pkt \in Seq(Packet) /\ send_queue \in Seq(Packet)
      /\ pkt = <<>> \/ Len(pkt) = 1
      /\ pending \in Seq(Firsts)
  BY FeedType
<1>1. /\ UNCHANGED <<tx_active, stopper, wire, pkt>>
      /\ clock = "enqueue" /\ built \in Seq(Packet) /\ Len(built) = 1
      /\ Len(send_queue) <= MaxSendQueue /\ Len(send_queue) \in Nat
  BY <1>0, LenProperties DEF Enqueue, rtp, control, IInv, TypeOK
<1>2. sender' = "none" <=> sender = "none" BY DEF Enqueue, Push, Notify
<1>3. phase' = phase /\ heard' = heard BY <1>1, <1>2 DEF phase, heard
<1>4. CASE UNCHANGED send_queue
  BY <1>1, <1>3, <1>4 DEF Feed!feed, heard, pending
<1>5. CASE tx_active /\ Push(built[1])
  <2>1. PICK b, kept : b = built[1] /\ kept = IF Len(send_queue) >= MaxSendQueue
                                              THEN Tail(send_queue) ELSE send_queue
    OBVIOUS
  <2>2. b \in Packet /\ Range(built) = {b} BY <1>1, <2>1, RangeOne
  <2>3. send_queue' = Append(kept, b) BY <1>5, <2>1 DEF Push
  <2>4. Len(send_queue) >= MaxSendQueue => send_queue # <<>> BY <1>0, <1>1, EmptySeq
  <2>5. kept \in Seq(Packet) BY <1>0, <2>1, <2>4, HeadTailProperties
  <2>6. Stamped(b) /\ b.payload[1] \in Nat
    <3>1. b \in Packets BY <2>2 DEF Packets
    <3> QED BY <2>2, <3>1, FirstTick DEF MInv, Media
  <2>7. b.payload[1] \in 0 .. MaxTicks BY <2>2, <2>6 DEF Bound
  <2>8. PICK k : k = FirstTicks(pkt \o kept) OBVIOUS
  <2>9. pending' = Append(k, b.payload[1])
    <3>1. PICK o : o = <<b>> OBVIOUS
    <3>2. o \in Seq(Packet) /\ FirstTicks(o) = <<b.payload[1]>> BY <2>2, <3>1, FirstTicksOne
    <3>3. send_queue' = kept \o o BY <2>2, <2>3, <2>5, <3>1, AppendIsConcat
    <3>4. pkt \o (kept \o o) = (pkt \o kept) \o o
      <4>1. PICK h : h = pkt OBVIOUS
      <4>2. h \in Seq(Packet) /\ kept \in Seq(Packet) /\ o \in Seq(Packet)
        BY <1>0, <2>5, <3>2, <4>1
      <4>3. (h \o kept) \o o = h \o (kept \o o) BY <4>2, ConcatAssociative
      <4> QED BY <4>1, <4>3
    <3>5. pkt \o kept \in Seq(Packet) BY <1>0, <2>5, ConcatProperties
    <3>6. FirstTicks((pkt \o kept) \o o) = k \o FirstTicks(o)
      BY <2>8, <3>2, <3>5, FirstTicksConcat
    <3>7. k \in Seq(Firsts) /\ b.payload[1] \in Firsts
      BY <2>2, <2>8, <3>5, FirstTicksType DEF Firsts
    <3>8. Append(k, b.payload[1]) = k \o <<b.payload[1]>> BY <3>7, AppendIsConcat
    <3> QED BY <1>1, <3>2, <3>3, <3>4, <3>6, <3>8 DEF pending
  <2>10. k \in Feed!Kept
    <3>1. CASE pkt = <<>>
      <4>1. pkt \o send_queue = send_queue /\ pkt \o kept = kept
        BY <1>0, <2>5, <3>1, ConcatEmptySeq
      <4>2. Len(pending) = Len(send_queue) BY <1>0, <4>1, FirstTicksType DEF pending
      <4>3. CASE Len(send_queue) < MaxSendQueue
        <5>1. kept = send_queue BY <1>1, <2>1, <4>3
        <5>2. k = pending BY <2>8, <5>1 DEF pending
        <5> QED BY <4>2, <4>3, <5>2 DEF Feed!Kept, pending
      <4>4. CASE Len(send_queue) = MaxSendQueue
        <5>1. kept = Tail(send_queue) /\ send_queue # <<>> BY <1>1, <2>1, <2>4, <4>4
        <5>2. pending = FirstTicks(send_queue) BY <4>1 DEF pending
        <5>3. k = Tail(pending) BY <1>0, <2>8, <4>1, <5>1, <5>2, FirstTicksTail
        <5>4. ~(Len(pending) < MaxSendQueue) /\ Len(pending) = MaxSendQueue BY <1>1, <4>2, <4>4
        <5> QED BY <5>3, <5>4 DEF Feed!Kept, pending
      <4> QED BY <1>1, <4>3, <4>4
    <3>2. CASE Len(pkt) = 1
      <4>1. Len(pending) = Len(send_queue) + 1 BY <1>0, <3>2, PendingWith DEF pending
      <4>2. CASE Len(send_queue) < MaxSendQueue
        <5>1. k = pending BY <1>1, <2>1, <2>8, <4>2 DEF pending
        <5>2. Len(pending) < MaxSendQueue \/ Len(pending) = MaxSendQueue BY <1>1, <4>1, <4>2
        <5> QED BY <5>1, <5>2 DEF Feed!Kept, pending
      <4>3. CASE Len(send_queue) = MaxSendQueue
        <5>1. PICK x, y : x = FirstTicks(pkt) /\ y = FirstTicks(send_queue) OBVIOUS
        <5>2. /\ x \in Seq(Firsts) /\ Len(x) = 1
              /\ y \in Seq(Firsts) /\ Len(y) = Len(send_queue)
          BY <1>0, <3>2, <5>1, FirstTicksType
        <5>3. y # <<>> BY <1>1, <4>3, <5>2, EmptySeq
        <5>4. pending = x \o y BY <1>0, <5>1, FirstTicksConcat DEF pending
        <5>5. kept = Tail(send_queue) /\ send_queue # <<>> BY <1>1, <2>1, <2>4, <4>3
        <5>6. k = x \o Tail(y)
          <6>1. FirstTicks(kept) = Tail(y) BY <1>0, <5>1, <5>5, FirstTicksTail
          <6>2. FirstTicks(pkt \o kept) = FirstTicks(pkt) \o FirstTicks(kept)
            BY <1>0, <2>5, FirstTicksConcat
          <6> QED BY <2>8, <5>1, <6>1, <6>2
        <5>7. k = Feed!RemoveAt(pending, 2) BY <5>2, <5>3, <5>4, <5>6, SecondGoes
        <5>8. ~(Len(pending) < MaxSendQueue) /\ Len(pending) # MaxSendQueue BY <4>1, <4>3
        <5> QED BY <5>7, <5>8 DEF Feed!Kept, pending
      <4> QED BY <1>1, <4>2, <4>3
    <3> QED BY <1>0, <3>1, <3>2
  <2>11. \A old \in Feed!ToSet(pending \o heard) : old < b.payload[1]
    <3>1. PICK first, all : first = pkt \o send_queue /\ all = first \o wire OBVIOUS
    <3>2. /\ first \in Seq(Packet) /\ all \in Seq(Packet)
          /\ Range(all) = (Range(pkt) \cup Range(send_queue)) \cup Range(wire)
      <4>1. first \in Seq(Packet) /\ Range(first) = Range(pkt) \cup Range(send_queue)
        BY <1>0, <3>1, ConcatProperties, RangeConcatenation
      <4>2. all = first \o wire /\ first \in Seq(Packet) /\ wire \in Seq(Packet)
        BY <1>0, <3>1, <4>1
      <4>3. all \in Seq(Packet) BY <4>2, ConcatProperties
      <4>4. Range(all) = Range(first) \cup Range(wire) BY <4>2, RangeConcatenation
      <4> QED BY <4>1, <4>3, <4>4
    <3>3. pending \o heard = FirstTicks(all)
      BY <1>0, <3>1, <3>2, FirstTicksConcat DEF pending, heard
    <3>4. ASSUME NEW old \in Feed!ToSet(pending \o heard) PROVE old < b.payload[1]
      <4>1. PICK i \in 1 .. Len(all) : old = all[i].payload[1]
        <5>1. PICK f : f = FirstTicks(all) OBVIOUS
        <5>2. /\ f \in Seq(Firsts) /\ Len(f) = Len(all)
              /\ \A j \in 1 .. Len(all) : f[j] = all[j].payload[1]
          BY <3>2, <5>1, FirstTicksType
        <5>3. DOMAIN f = 1 .. Len(all) BY <5>2, LenProperties
        <5> QED BY <3>3, <3>4, <5>1, <5>2, <5>3 DEF Feed!ToSet
      <4>2. all[i] \in Range(all) /\ all[i] \in Packet
        BY <3>2, RangeEquality, ElementOfSeq
      <4>3. Ahead(all[i], b.payload[1], b.seq)
        BY <2>2, <3>2, <4>2 DEF MInv, Order, Before
      <4>4. Stamped(all[i])
        BY <3>2, <4>2 DEF MInv, Media, Packets
      <4>5. all[i].payload[1] \in Nat BY <4>2, <4>4, FirstTick
      <4>6. PICK n \in Nat \ {0} : b.payload[1] = all[i].payload[1] + n * TxBatchFrames
        BY <4>3 DEF Ahead
      <4>7. PICK y : y = n * TxBatchFrames OBVIOUS
      <4>8. y \in Nat /\ y > 0 BY <4>7, Multiple
      <4> QED BY <4>1, <4>5, <4>6, <4>7, <4>8
    <3> QED BY <3>4
  <2>12. phase = "open" BY <1>5 DEF phase
  <2>13. Feed!Offer(b.payload[1])
    BY <1>3, <2>9, <2>10, <2>11, <2>12 DEF Feed!Offer, pending, heard
  <2> QED BY <2>7, <2>13 DEF Feed!Next
<1> QED BY <1>4, <1>5 DEF Enqueue

\* start_tx_thread opens the feed, unless stop() has set its flag.
LEMMA FeedOpens ==
  ASSUME IInv, Bound, StartTxThread
  PROVE  Feed!Next \/ UNCHANGED Feed!feed
<1> USE DEF media
<1>1. UNCHANGED <<pkt, wire, send_queue, stopper>> BY DEF StartTxThread
<1>2. pending' = pending /\ heard' = heard BY <1>1 DEF pending, heard
<1>3. CASE stop_flag
  <2>1. phase' = phase BY <1>1, <1>3 DEF StartTxThread, phase
  <2> QED BY <1>2, <2>1 DEF Feed!feed, pending, heard
<1>4. CASE ~stop_flag
  <2>1. sender = "none" /\ stopper = "running" /\ tx_active' = TRUE
    BY <1>4 DEF StartTxThread, IInv, Ownership
  <2>2. phase = "open" \/ phase = "idle" BY <2>1 DEF phase
  <2>3. phase' = "open" BY <2>1 DEF phase
  <2> QED BY <1>2, <2>2, <2>3 DEF Feed!Next, Feed!Open, Feed!feed, pending, heard
<1> QED BY <1>3, <1>4

\* Every step of the sender is a step of the feed, or changes nothing of it.
LEMMA StepRefines ==
  ASSUME IInv, MInv, Bound, [Next]_vars
  PROVE  Feed!Next \/ UNCHANGED Feed!feed
<1> USE DEF shared, rtp, media, transmit, control
<1>1. CASE Enqueue BY <1>1, FeedOffers
<1>2. CASE TxTake \/ TxWrite \/ TxWriteFails BY <1>2, FeedMoves
<1>3. CASE TxCleanup \/ StopQueue BY <1>3, FeedCloses
<1>4. CASE StartTxThread BY <1>4, FeedOpens
<1>5. ASSUME UNCHANGED <<pkt, wire, send_queue, tx_active>>,
             sender' = "none" <=> sender = "none",
             stopper' \in {"running", "flagged"} <=> stopper \in {"running", "flagged"}
      PROVE  UNCHANGED Feed!feed
  <2>1. phase' = phase BY <1>5 DEF phase
  <2> QED BY <1>5, <2>1 DEF Feed!feed
<1>6. CASE PutFrame \/ EncodeFrame
  BY <1>5, <1>6 DEF PutFrame, EncodeFrame
<1>7. CASE Accept \/ AcceptFails \/ StoreSocket
  BY <1>5, <1>7 DEF Accept, AcceptFails, StoreSocket
<1>8. CASE TxLoop \/ SpuriousWake
  BY <1>5, <1>8 DEF TxLoop, SpuriousWake
<1>9. CASE StopFlag \/ StopListen \/ StopSocket \/ StopJoin
  BY <1>5, <1>9 DEF StopFlag, StopListen, StopSocket, StopJoin
<1>10. CASE PeerReset \/ Finished \/ UNCHANGED vars
  BY <1>5, <1>10 DEF PeerReset, Finished, vars
<1> QED
  BY <1>1, <1>2, <1>3, <1>4, <1>6, <1>7, <1>8, <1>9, <1>10
  DEF Next, Clock, Opener, Sender, Stopper

\* The threads of a sender, whatever their interleaving, keep the promise of
\* AudioFeed: what is heard is in order and without repetition, the oldest
\* waiting packet is what a full queue gives up, and after the end nothing new
\* is taken and at most the packet in the sender's hand is heard.
THEOREM SenderIsAFeed == Spec => FeedSpec
<1>1. Init => Feed!Init
  <2> SUFFICES ASSUME Init PROVE Feed!Init
    OBVIOUS
  <2>1. pkt \o send_queue = <<>> /\ wire = <<>> BY DEF Init, None
  <2>2. phase = "idle" BY DEF Init, phase
  <2> QED BY <2>1, <2>2, FirstTicksEmpty DEF Feed!Init
<1>2. IInv /\ MInv /\ Bound /\ [Next]_vars => [Feed!Next]_(Feed!feed)
  BY StepRefines
<1> QED
  BY <1>1, <1>2, Invariance, MInvariance, InitBound, NextBound, PTL
  DEF Spec, FeedSpec, Feed!Spec
=============================================================================
