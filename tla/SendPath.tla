------------------------------ MODULE SendPath ------------------------------
(***************************************************************************)
(* The outgoing half of one Participant (participant.cpp): the conference  *)
(* clock thread calls on_put_frame every 20 ms and batches frames into RTP *)
(* packets; tx_thread_func drains send_queue_ into the TX socket; stop()   *)
(* tears both down from a third thread while a fourth, the accept thread,  *)
(* may still be starting the sender.                                       *)
(*                                                                         *)
(* Everything done while queue_mutex_ is held is one action: no thread     *)
(* blocks inside such a section and every access to send_queue_ is inside  *)
(* one.  stop_flag_ and tx_active_ are atomics read outside it too; each   *)
(* of those reads is an action of its own.                                 *)
(*                                                                         *)
(* A frame is the number of the clock tick it was mixed at, so the payload *)
(* of a packet is a sequence of tick numbers: which audio it carries.      *)
(***************************************************************************)
EXTENDS Integers, Sequences

CONSTANTS
  FrameSamples,     \* FRAME_SAMPLES, 160
  TxBatchFrames,    \* TX_BATCH_FRAMES, 2
  MaxSendQueue,     \* MAX_SEND_QUEUE_PACKETS, 25
  SeqWrap,          \* 2^16, the modulus of tx_seq_
  TsWrap,           \* 2^32, the modulus of tx_timestamp_
  MaxTicks          \* bound on the number of clock ticks explored

ASSUME SendPathAssumption ==
  /\ FrameSamples \in Nat \ {0} /\ TxBatchFrames \in Nat \ {0}
  /\ MaxSendQueue \in Nat \ {0} /\ MaxTicks \in Nat
  /\ SeqWrap \in Nat \ {0} /\ TsWrap \in Nat \ {0}

VARIABLES
  stop_flag, tx_active, send_queue,              \* shared between the threads
  tx_acc, tx_batch_ts, tx_timestamp, tx_seq,     \* used by the clock thread only
  tick,         \* number of on_put_frame calls completed or past their first branch
  clock,        \* where the clock thread is in on_put_frame
  built,        \* the serialized packet on_put_frame holds, at most one
  sender,       \* where tx_thread_func is; "none" before the thread exists
  pkt,          \* the packet tx_thread_func is writing, at most one
  opener,       \* where the thread that calls start_tx_thread is
  stopper,      \* where stop() is
  sock,         \* the TX socket client_fd_
  wire          \* history: the packets written whole to the socket

shared   == <<stop_flag, tx_active, send_queue>>
rtp      == <<tx_acc, tx_batch_ts, tx_timestamp, tx_seq, tick>>
media    == <<rtp, clock, built>>
transmit == <<sender, pkt, wire>>
control  == <<opener, stopper, sock>>
vars     == <<shared, media, transmit, control>>

None == <<>>

Packet == [seq : 0 .. SeqWrap - 1, ts : 0 .. TsWrap - 1, payload : Seq(Nat)]

Advance(ts) == (ts + FrameSamples) % TsWrap

\* Mutant: a packet that will not fit in the queue takes no number.
NextSeqIfRoom ==
  IF Len(send_queue) < MaxSendQueue THEN (tx_seq + 1) % SeqWrap ELSE tx_seq

NextSeq == (tx_seq + 1) % SeqWrap

\* queue_cv_.notify_one() or notify_all(): only the sender waits on it.
Notify == sender' = IF sender = "asleep" THEN "lock" ELSE sender

-----------------------------------------------------------------------------
(* on_put_frame, called by the clock thread.                               *)

\* Mutant: the RTP clock stops while nobody listens.
SkipFrameFrozen ==
  /\ tx_acc' = <<>> /\ tick' = tick + 1 /\ clock' = "idle"
  /\ UNCHANGED <<tx_timestamp, tx_batch_ts, tx_seq, built>>

\* The early return: the accumulator is dropped, the RTP clock still advances.
SkipFrame ==
  /\ tx_acc' = <<>>
  /\ tx_timestamp' = Advance(tx_timestamp)
  /\ tick' = tick + 1
  /\ clock' = "idle"
  /\ UNCHANGED <<tx_batch_ts, tx_seq, built>>

\* First operand of the fast path, the relaxed load of tx_active_.
PutFrame ==
  /\ clock = "idle" /\ tick < MaxTicks
  /\ \/ ~tx_active /\ SkipFrame
     \/ tx_active /\ clock' = "active" /\ UNCHANGED <<rtp, built>>
  /\ UNCHANGED <<shared, transmit, control>>

\* Encode the frame into tx_acc_, a silent one when the bridge delivers no
\* audio, and build the RTP packet once the batch is full.
Accumulate ==
  LET acc   == Append(tx_acc, tick)
      stamp == IF tx_acc = <<>> THEN tx_timestamp ELSE tx_batch_ts
  IN  /\ tx_batch_ts' = stamp
      /\ tx_timestamp' = Advance(tx_timestamp)
      /\ tick' = tick + 1
      /\ \/ /\ Len(acc) < TxBatchFrames
            /\ tx_acc' = acc /\ clock' = "idle"
            /\ UNCHANGED <<tx_seq, built>>
         \/ /\ Len(acc) >= TxBatchFrames
            /\ built' = <<[seq |-> tx_seq, ts |-> stamp, payload |-> acc]>>
            /\ tx_seq' = NextSeq
            /\ tx_acc' = <<>> /\ clock' = "enqueue"

\* Second operand of the fast path, the load of stop_flag_.
EncodeFrame ==
  /\ clock = "active"
  /\ \/ stop_flag /\ SkipFrame
     \/ ~stop_flag /\ Accumulate
  /\ UNCHANGED <<shared, transmit, control>>

\* Mutants: the queue grows without bound; the sender is not notified.
PushUnbounded(p) == send_queue' = Append(send_queue, p) /\ Notify
PushSilent(p)    == send_queue' = Append(send_queue, p) /\ UNCHANGED sender

\* Drop the oldest packet from a full queue, push, notify_one.
Push(p) ==
  /\ send_queue' = Append(IF Len(send_queue) >= MaxSendQueue
                          THEN Tail(send_queue) ELSE send_queue, p)
  /\ Notify

\* Mutant: the fast-path check is not repeated under queue_mutex_.
EnqueueUnchecked ==
  /\ clock = "enqueue" /\ Push(built[1])
  /\ clock' = "idle" /\ built' = None
  /\ UNCHANGED <<stop_flag, tx_active, rtp, pkt, wire, control>>

\* The section under queue_mutex_: recheck, then enqueue or forget the packet.
Enqueue ==
  /\ clock = "enqueue"
  /\ \/ tx_active /\ ~stop_flag /\ Push(built[1])
     \/ (~tx_active \/ stop_flag) /\ UNCHANGED <<send_queue, sender>>
  /\ clock' = "idle" /\ built' = None
  /\ UNCHANGED <<stop_flag, tx_active, rtp, pkt, wire, control>>

-----------------------------------------------------------------------------
(* accept_thread_func in active mode.  In passive and split mode the API   *)
(* thread does the same steps before stop() can be called.                 *)

\* accept() can return a connection as long as stop() has not closed listen_fd_.
Accept ==
  /\ opener = "accept" /\ stopper \in {"running", "flagged", "drained"}
  /\ opener' = "accepted"
  /\ UNCHANGED <<shared, media, transmit, stopper, sock>>

\* It fails then, if not before for another reason, such as a descriptor table
\* that is full; the thread returns, and there is no other.
AcceptFails ==
  /\ opener = "accept"
  /\ opener' = "done"
  /\ UNCHANGED <<shared, media, transmit, stopper, sock>>

\* client_fd_ = fd
StoreSocket ==
  /\ opener = "accepted"
  /\ opener' = "stored" /\ sock' = "up"
  /\ UNCHANGED <<shared, media, transmit, stopper>>

\* Mutant: start_tx_thread does not look at stop_flag_.
StartTxThreadAnyway ==
  /\ opener = "stored" /\ opener' = "done"
  /\ tx_active' = TRUE /\ sender' = "loop"
  /\ UNCHANGED <<stop_flag, send_queue, media, pkt, wire, stopper, sock>>

StartTxThread ==
  /\ opener = "stored"
  /\ \/ stop_flag /\ UNCHANGED <<tx_active, sender>>
     \/ ~stop_flag /\ tx_active' = TRUE /\ sender' = "loop"
  /\ opener' = "done"
  /\ UNCHANGED <<stop_flag, send_queue, media, pkt, wire, stopper, sock>>

-----------------------------------------------------------------------------
(* tx_thread_func                                                          *)

TxLoop ==
  /\ sender = "loop"
  /\ sender' = IF stop_flag THEN "cleanup" ELSE "lock"
  /\ UNCHANGED <<shared, media, pkt, wire, control>>

\* queue_cv_.wait with its predicate, then the recheck and the pop.
TxTake ==
  /\ sender = "lock"
  /\ \/ /\ ~stop_flag /\ send_queue = <<>>
        /\ sender' = "asleep" /\ UNCHANGED <<pkt, send_queue>>
     \/ /\ stop_flag
        /\ sender' = "cleanup" /\ UNCHANGED <<pkt, send_queue>>
     \/ /\ ~stop_flag /\ send_queue # <<>>
        /\ pkt' = <<Head(send_queue)>>
        /\ send_queue' = Tail(send_queue)
        /\ sender' = "prefix"
  /\ UNCHANGED <<stop_flag, tx_active, media, wire, control>>

\* A condition variable may wake without a notification.
SpuriousWake ==
  /\ sender = "asleep"
  /\ sender' = "lock"
  /\ UNCHANGED <<shared, media, pkt, wire, control>>

\* write_exact succeeds while the peer accepts data: first the length prefix,
\* then the packet.  A full socket buffer blocks send(): the step waits.
TxWrite ==
  /\ sender \in {"prefix", "payload"} /\ sock = "up"
  /\ \/ sender = "prefix" /\ sender' = "payload" /\ UNCHANGED <<pkt, wire>>
     \/ /\ sender = "payload" /\ sender' = "loop"
        /\ wire' = Append(wire, pkt[1]) /\ pkt' = None
  /\ UNCHANGED <<shared, media, control>>

\* send() returns an error or 0: the connection was reset or shut down.
TxWriteFails ==
  /\ sender \in {"prefix", "payload"} /\ sock \in {"reset", "closed"}
  /\ sender' = "cleanup" /\ pkt' = None
  /\ UNCHANGED <<shared, media, wire, control>>

TxCleanup ==
  /\ sender = "cleanup"
  /\ tx_active' = FALSE /\ send_queue' = <<>>
  /\ sender' = "done"
  /\ UNCHANGED <<stop_flag, media, pkt, wire, control>>

-----------------------------------------------------------------------------
(* stop()                                                                  *)

StopFlag ==
  /\ stopper = "running"
  /\ stopper' = "flagged" /\ stop_flag' = TRUE
  /\ UNCHANGED <<tx_active, send_queue, media, transmit, opener, sock>>

StopQueue ==
  /\ stopper = "flagged"
  /\ tx_active' = FALSE /\ send_queue' = <<>>
  /\ Notify
  /\ stopper' = "drained"
  /\ UNCHANGED <<stop_flag, media, pkt, wire, opener, sock>>

StopListen ==
  /\ stopper = "drained"
  /\ stopper' = "unlistened"
  /\ UNCHANGED <<shared, media, transmit, opener, sock>>

\* Mutant: the socket is left open, so a send() blocked on it stays blocked.
StopSocketOpen ==
  /\ stopper = "unlistened" /\ stopper' = "closed"
  /\ UNCHANGED <<shared, media, transmit, opener, sock>>

\* shutdown and close of client_fd_, if it is set by then.  A read of
\* client_fd_ that misses the accept thread's unsynchronised store is the same
\* as a store that comes after this step.
StopSocket ==
  /\ stopper = "unlistened"
  /\ sock' = IF sock = "none" THEN "none" ELSE "closed"
  /\ stopper' = "closed"
  /\ UNCHANGED <<shared, media, transmit, opener>>

\* accept_thread_.join() then tx_thread_.join(), the latter if it was started.
StopJoin ==
  /\ stopper = "closed"
  /\ opener = "done" /\ sender \in {"none", "done"}
  /\ stopper' = "joined"
  /\ UNCHANGED <<shared, media, transmit, opener, sock>>

-----------------------------------------------------------------------------
\* The remote end resets or closes the connection.
PeerReset ==
  /\ sock = "up"
  /\ sock' = "reset"
  /\ UNCHANGED <<shared, media, transmit, opener, stopper>>

\* The explored prefix is over: stop() has returned and no tick is left.
Finished ==
  /\ stopper = "joined" /\ clock = "idle" /\ tick = MaxTicks
  /\ UNCHANGED vars

Init ==
  /\ stop_flag = FALSE /\ tx_active = FALSE /\ send_queue = <<>>
  /\ tx_acc = <<>> /\ tx_batch_ts = 0 /\ tx_timestamp = 0 /\ tx_seq = 0
  /\ tick = 0 /\ clock = "idle" /\ built = None
  /\ sender = "none" /\ pkt = None
  /\ opener = "accept" /\ stopper = "running" /\ sock = "none"
  /\ wire = <<>>

Clock   == PutFrame \/ EncodeFrame \/ Enqueue
Opener  == Accept \/ AcceptFails \/ StoreSocket \/ StartTxThread
Sender  == TxLoop \/ TxTake \/ SpuriousWake \/ TxWrite \/ TxWriteFails \/ TxCleanup
Stopper == StopFlag \/ StopQueue \/ StopListen \/ StopSocket \/ StopJoin

Next == Clock \/ Opener \/ Sender \/ Stopper \/ PeerReset \/ Finished

Spec == Init /\ [][Next]_vars

\* Scheduled threads keep running, and accept() returns once its socket is shut
\* down.  Nothing is assumed of the peer (it need not connect, nor drain its
\* socket), of the clock, or of spurious wakeups, and stop() need never be called.
Fairness ==
  /\ WF_vars(\/ stopper \in {"unlistened", "closed"} /\ AcceptFails
             \/ StoreSocket \/ StartTxThread)
  /\ WF_vars(TxLoop \/ TxTake \/ TxWriteFails \/ TxCleanup)
  /\ WF_vars(StopQueue \/ StopListen \/ StopSocket \/ StopJoin)

FairSpec == Spec /\ Fairness

-----------------------------------------------------------------------------
(* Properties                                                              *)

\* All packets that exist, oldest first: sent, being sent, queued, just built.
Stream == wire \o pkt \o send_queue \o built

\* Type invariant of the sender's state and of the program counters.
TypeOK ==
  /\ stop_flag \in BOOLEAN /\ tx_active \in BOOLEAN
  /\ send_queue \in Seq(Packet) /\ Len(send_queue) <= MaxSendQueue
  /\ tx_acc \in Seq(Nat) /\ Len(tx_acc) < TxBatchFrames
  /\ tx_batch_ts \in 0 .. TsWrap - 1 /\ tx_timestamp \in 0 .. TsWrap - 1
  /\ tx_seq \in 0 .. SeqWrap - 1 /\ tick \in Nat
  /\ clock \in {"idle", "active", "enqueue"}
  /\ built \in Seq(Packet) /\ (clock = "enqueue" => Len(built) = 1)
  /\ sender \in {"none", "loop", "lock", "asleep", "prefix", "payload", "cleanup", "done"}
  /\ pkt \in Seq(Packet) /\ (sender \in {"prefix", "payload"} => Len(pkt) = 1)
  /\ wire \in Seq(Packet)
  /\ opener \in {"accept", "accepted", "stored", "done"}
  /\ stopper \in {"running", "flagged", "drained", "unlistened", "closed", "joined"}
  /\ sock \in {"none", "up", "reset", "closed"}

\* Once the sender has cleaned up, or stop() has drained the queue, nothing is
\* queued again, whatever on_put_frame had already encoded and however late
\* the accept thread starts the sender ("Serialize this with the producer so
\* it cannot enqueue after cleanup").
NoEnqueueAfterCleanup ==
  (sender = "done" \/ stopper \notin {"running", "flagged"})
    => send_queue = <<>> /\ ~tx_active

\* The sender never sleeps on queue_cv_ with a packet to send, nor once stop()
\* has signalled it: every change that makes the wait's predicate true is
\* followed by a notification before the mutex is free again.
NoLostWakeup ==
  sender = "asleep" => send_queue = <<>> /\ stopper \in {"running", "flagged"}

\* RTP timestamps follow the media clock and not the packets: a packet holds
\* consecutive frames and is stamped with the number of samples the clock had
\* produced at its first frame, frames of inactive periods included.
MediaClock ==
  \A i \in DOMAIN Stream :
    LET p == Stream[i] IN
      /\ Len(p.payload) = TxBatchFrames
      /\ \A k \in DOMAIN p.payload : p.payload[k] = p.payload[1] + k - 1
      /\ p.ts = (p.payload[1] * FrameSamples) % TsWrap

\* Dropping from a full queue never reorders nor repeats audio, and leaves
\* the receiver able to see the gap: sequence numbers, modulo their width,
\* differ by the number of packets' worth of audio between two packets.
StreamOrder ==
  \A i, j \in DOMAIN Stream : i < j =>
    LET gap == Stream[j].payload[1] - Stream[i].payload[1] IN
      /\ gap > 0 /\ gap % TxBatchFrames = 0
      /\ Stream[j].seq = (Stream[i].seq + gap \div TxBatchFrames) % SeqWrap

\* stop() returns whatever the peer, the clock thread and the accept thread
\* are doing: no thread it joins stays blocked, on the queue or in send().
StopReturns == stopper = "flagged" ~> stopper = "joined"

-----------------------------------------------------------------------------
(* What the sender promises: AudioFeed.  A packet is the tick of its first *)
(* frame.                                                                  *)

FirstTicks(packets) == [i \in DOMAIN packets |-> packets[i].payload[1]]

phase ==
  IF tx_active THEN "open"
  ELSE IF sender # "none" \/ stopper \notin {"running", "flagged"}
       THEN "closed" ELSE "idle"

Feed == INSTANCE AudioFeed
          WITH Capacity <- MaxSendQueue, Ticks <- 0 .. MaxTicks,
               pending  <- FirstTicks(pkt \o send_queue),
               heard    <- FirstTicks(wire)

\* The sender implements the abstract feed.
FeedSpec == Feed!Spec

=============================================================================
