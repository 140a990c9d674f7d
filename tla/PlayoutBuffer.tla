---------------------------- MODULE PlayoutBuffer ----------------------------
(***************************************************************************)
(* What a participant's receive buffer promises the bridge: the frames of  *)
(* the peer's audio, Frame(1), Frame(2) and so on, each whole and in       *)
(* order; at most Capacity of them wait, and when one more comes the       *)
(* oldest is given up; the bridge gets the oldest one waiting, and Quiet   *)
(* only when none is.                                                      *)
(***************************************************************************)
EXTENDS Integers, Sequences

CONSTANTS Capacity, Frame(_), Quiet

VARIABLES last,      \* the number of frames that came
          pending,   \* the frames waiting
          playing    \* what the bridge got last
buffer == <<last, pending, playing>>

Init == last = 0 /\ pending = <<>> /\ playing = Quiet

Put ==
  /\ last' = last + 1
  /\ pending' = Append(IF Len(pending) = Capacity THEN Tail(pending) ELSE pending,
                       Frame(last'))
  /\ UNCHANGED playing

Take ==
  /\ pending # <<>>
  /\ playing' = Head(pending) /\ pending' = Tail(pending)
  /\ UNCHANGED last

Silence ==
  /\ pending = <<>> /\ playing' = Quiet
  /\ UNCHANGED <<last, pending>>

Next == Put \/ Take \/ Silence

Spec == Init /\ [][Next]_buffer
=============================================================================
