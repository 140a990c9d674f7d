------------------------------ MODULE AudioFeed -----------------------------
(***************************************************************************)
(* What a participant's sender promises its listener, without threads,     *)
(* sockets or sequence numbers: a stream of packets, each known by the     *)
(* number of its first clock tick, that                                    *)
(*   - is heard in the order it was produced, nothing twice;               *)
(*   - never lags by more than Capacity packets beside the one being sent: *)
(*     when the listener is slow the oldest waiting packet is given up;    *)
(*   - takes nothing new once it is closed, and is closed for good; at     *)
(*     most the packet that was being sent can still be heard then.        *)
(***************************************************************************)
EXTENDS Integers, SequencesExt

CONSTANTS Capacity,   \* packets that may wait beside the one being sent
          Ticks       \* the clock ticks at which a packet can begin

VARIABLES phase,     \* "idle", "open" or "closed"
          pending,   \* packets waiting, the one being sent first
          heard      \* packets delivered
feed == <<phase, pending, heard>>

Init == phase = "idle" /\ pending = <<>> /\ heard = <<>>

Open ==
  /\ phase = "idle" /\ phase' = "open"
  /\ UNCHANGED <<pending, heard>>

\* What may be left of the waiting packets to make room for a new one: the
\* oldest goes if the queue is full, the packet being sent never does.
Kept ==
  IF Len(pending) < Capacity THEN {pending}
  ELSE IF Len(pending) = Capacity THEN {pending, Tail(pending)}
  ELSE {RemoveAt(pending, 2)}

\* A new packet is later than everything before it.
Offer(p) ==
  /\ phase = "open"
  /\ \A old \in ToSet(pending \o heard) : old < p
  /\ \E kept \in Kept : pending' = Append(kept, p)
  /\ UNCHANGED <<phase, heard>>

Hear ==
  /\ pending # <<>>
  /\ heard' = Append(heard, Head(pending)) /\ pending' = Tail(pending)
  /\ UNCHANGED phase

\* The connection failed under the packet being sent.
Lose ==
  /\ pending # <<>> /\ pending' = Tail(pending)
  /\ UNCHANGED <<phase, heard>>

Close ==
  /\ phase # "closed" /\ phase' = "closed"
  /\ \/ pending' = <<>>
     \/ pending # <<>> /\ pending' = <<Head(pending)>>
  /\ UNCHANGED heard

Next == Open \/ (\E p \in Ticks : Offer(p)) \/ Hear \/ Lose \/ Close

Spec == Init /\ [][Next]_feed
=============================================================================
