----------------------------- MODULE MeetingRoom -----------------------------
(***************************************************************************)
(* What a meeting promises those in it, without bridge slots, locks or     *)
(* threads: whoever is in an open room hears everybody else and is heard   *)
(* by everybody else, from the moment of joining to the moment of leaving; *)
(* a participant joins unmuted and is muted by name only; a room closes    *)
(* once, and then nobody hears anything.                                   *)
(***************************************************************************)
CONSTANT People

VARIABLES open, members, hears, silenced
room == <<open, members, hears, silenced>>

EachOther(S) == {ab \in S \X S : ab[1] # ab[2]}

Init ==
  /\ open \in BOOLEAN
  /\ members = {} /\ hears = {} /\ silenced = {}

Join(q) ==
  /\ q \notin members /\ members' = members \cup {q}
  /\ hears' = IF open THEN EachOther(members') ELSE {}
  /\ UNCHANGED <<open, silenced>>

Leave(q) ==
  /\ q \in members /\ members' = members \ {q}
  /\ hears' = IF open THEN EachOther(members') ELSE {}
  /\ silenced' = silenced \ {q}
  /\ UNCHANGED open

SetMute(q) ==
  /\ open /\ q \in members
  /\ silenced' \in {silenced \cup {q}, silenced \ {q}}
  /\ UNCHANGED <<open, members, hears>>

Close ==
  /\ open /\ open' = FALSE
  /\ hears' = {} /\ silenced' = {}
  /\ UNCHANGED members

Empty ==
  /\ ~open /\ members' = {}
  /\ UNCHANGED <<open, hears, silenced>>

Next == (\E q \in People : Join(q) \/ Leave(q) \/ SetMute(q)) \/ Close \/ Empty

Spec == Init /\ [][Next]_room
=============================================================================
