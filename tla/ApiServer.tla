----------------------------- MODULE ApiServer -----------------------------
(***************************************************************************)
(* What the HTTP API answers (server.cpp).  MeetingService has what the    *)
(* handlers do to the shared tables; here are their answers, each with the *)
(* code a client sees, for all seven requests.                             *)
(*                                                                         *)
(* A handler takes one lock after another and decides on its answer from   *)
(* what it saw under each, so that an answer may be stale when it is given. *)
(* Each section under a lock is one action.  Two history variables say     *)
(* which facts about the request's subject were true at some moment of the *)
(* request and which at every moment: an answer is right if it was true at *)
(* some moment.                                                            *)
(***************************************************************************)
EXTENDS Integers

CONSTANTS
  Workers,           \* threads of the HTTP server
  Meetings,          \* meeting ids create_meeting can draw, each once
  Parts              \* partId values

VARIABLES
  meetings,          \* meetings_: the ids the manager finds
  created,           \* the meetings that exist or existed
  bridge,            \* the meetings whose pool_ and conf_ are there
  members,           \* meeting -> the partIds registered in it
  worker,            \* worker -> what its handler is doing and remembers
  ever, always       \* worker -> facts true at some, at every moment so far

tables == <<meetings, created, bridge, members>>
vars   == <<tables, worker, ever, always>>

Nobody == "nobody"           \* stands for the name a request does not give
Idle == [at |-> "idle"]
Dead == [at |-> "dead"]      \* the whole process has ended
Busy(r) == r \notin {Idle, Dead}

\* A request about participant q of meeting m: the code of its answer, and for
\* a list the meetings still to be read and what was read.
Request(op, there, m, q) ==
  [at |-> there, op |-> op, m |-> m, q |-> q, code |-> 0,
   todo |-> {}, listed |-> {}]

Continue(w, there) == worker' = [worker EXCEPT ![w].at = there]
Answer(w, code) == worker' = [worker EXCEPT ![w].at = "answered", ![w].code = code]

\* A request arrives.  Parameters that are missing, empty or out of range are
\* answered with 4 and a meeting that get_meeting does not find with 1;
\* otherwise the handler goes on with its section `there`.
Arrive(w, op, there) ==
  /\ worker[w] = Idle
  /\ \E m \in Meetings, q \in Parts, wellFormed \in BOOLEAN :
       LET code == IF ~wellFormed THEN 4 ELSE IF m \notin meetings THEN 1 ELSE 0
           r    == Request(op, IF code = 0 THEN there ELSE "answered", m, q)
       IN  worker' = [worker EXCEPT ![w] = [r EXCEPT !.code = code]]
  /\ UNCHANGED tables

-----------------------------------------------------------------------------
(* handle_create_meeting: one section, and the answer is always 0.  A      *)
(* Meeting whose constructor failed is entered all the same, without a bridge. *)

Create(w) ==
  /\ worker[w] = Idle
  /\ \E m \in Meetings \ created, ok \in BOOLEAN :
       /\ meetings' = meetings \cup {m} /\ created' = created \cup {m}
       /\ bridge' = IF ok THEN bridge \cup {m} ELSE bridge
  /\ UNCHANGED <<members, worker>>

-----------------------------------------------------------------------------
(* handle_add_participant ("add"), handle_add_passive_participant ("split") *)

BeginAdd(w)   == Arrive(w, "add", "allocate")
BeginSplit(w) == Arrive(w, "split", "allocate")

\* allocate(): a port, or code 3.
AllocatePort(w) ==
  /\ worker[w].at = "allocate"
  /\ Continue(w, "add") \/ Answer(w, 3)
  /\ UNCHANGED tables

\* The participant is not added: its name is taken; or, at any time, its listener
\* or in split mode its connection cannot be opened, or the bridge has no slot
\* left.  handle_add_participant answers 2 whatever it was; the other handler
\* releases the port and looks again.
AddFails(w) ==
  /\ worker[w].at = "add"
  /\ IF worker[w].op = "add" THEN Answer(w, 2) ELSE Continue(w, "recheck")
  /\ UNCHANGED tables

AddSucceeds(w) ==
  LET r == worker[w] IN
  /\ r.at = "add" /\ r.q \notin members[r.m] /\ r.m \in bridge
  /\ members' = [members EXCEPT ![r.m] = @ \cup {r.q}]
  /\ Answer(w, 0)
  /\ UNCHANGED <<meetings, created, bridge>>

\* The meeting has no pool (any more): create_media_port dereferences null, and
\* nobody gets an answer.
AddCrashes(w) ==
  LET r == worker[w] IN
  /\ r.at = "add" /\ r.q \notin members[r.m] /\ r.m \notin bridge
  /\ worker' = [v \in Workers |-> Dead]
  /\ meetings' = {} /\ bridge' = {} /\ members' = [m \in Meetings |-> {}]
  /\ UNCHANGED created

\* The second lookup, in the meeting the handler holds: code 2 or 5.
Recheck(w) ==
  LET r == worker[w] IN
  /\ r.at = "recheck"
  /\ Answer(w, IF r.q \in members[r.m] THEN 2 ELSE 5)
  /\ UNCHANGED tables

-----------------------------------------------------------------------------
(* handle_destroy_meeting *)

\* destroy_meeting finds and erases in one section; the port lists and the
\* releases of destroy_meeting touch nothing an answer depends on.
Erase(w) ==
  /\ worker[w] = Idle
  /\ \E m \in Meetings, wellFormed \in BOOLEAN :
       LET r == Request("destroy", "halt", m, Nobody) IN
       IF wellFormed /\ m \in meetings
       THEN /\ meetings' = meetings \ {m}
            /\ worker' = [worker EXCEPT ![w] = r]
       ELSE /\ worker' = [worker EXCEPT ![w] =
                  [r EXCEPT !.at = "answered", !.code = IF wellFormed THEN 1 ELSE 4]]
            /\ UNCHANGED meetings
  /\ UNCHANGED <<created, bridge, members>>

\* Mutant: the participants of a stopped meeting stay in its table.
HaltKeepsTable(w) ==
  /\ worker[w].at = "halt"
  /\ bridge' = bridge \ {worker[w].m}
  /\ Answer(w, 0)
  /\ UNCHANGED <<meetings, created, members>>

\* Meeting::stop()
Halt(w) ==
  LET m == worker[w].m IN
  /\ worker[w].at = "halt"
  /\ members' = [members EXCEPT ![m] = {}] /\ bridge' = bridge \ {m}
  /\ Answer(w, 0)
  /\ UNCHANGED <<meetings, created>>

-----------------------------------------------------------------------------
(* handle_del_participant *)

BeginDel(w) == Arrive(w, "del", "find")

\* Mutant: a participant that was found is as good as deleted.
FindOnly(w) ==
  LET r == worker[w] IN
  /\ r.at = "find"
  /\ Answer(w, IF r.q \in members[r.m] THEN 0 ELSE 2)
  /\ UNCHANGED tables

FindPart(w) ==
  LET r == worker[w] IN
  /\ r.at = "find"
  /\ IF r.q \in members[r.m] THEN Continue(w, "again") ELSE Answer(w, 2)
  /\ UNCHANGED tables

\* delete_participant looks the meeting up again.  What it returns is ignored.
FindAgain(w) ==
  LET r == worker[w] IN
  /\ r.at = "again"
  /\ IF r.m \in meetings THEN Continue(w, "remove") ELSE Answer(w, 0)
  /\ UNCHANGED tables

RemovePart(w) ==
  LET r == worker[w] IN
  /\ r.at = "remove"
  /\ members' = [members EXCEPT ![r.m] = @ \ {r.q}]
  /\ Answer(w, 0)
  /\ UNCHANGED <<meetings, created, bridge>>

-----------------------------------------------------------------------------
(* handle_mute_participant *)

BeginMute(w) == Arrive(w, "mute", "mute")

Mute(w) ==
  LET r == worker[w] IN
  /\ r.at = "mute"
  /\ Answer(w, IF r.q \in members[r.m] THEN 0 ELSE 2)
  /\ UNCHANGED tables

-----------------------------------------------------------------------------
(* handle_list_meetings *)

\* list_meetings copies the table of meetings.
BeginList(w) ==
  /\ worker[w] = Idle
  /\ worker' = [worker EXCEPT ![w] =
                  [Request("list", "read", Nobody, Nobody) EXCEPT !.todo = meetings]]
  /\ UNCHANGED tables

\* Mutant: a meeting that is no longer in the table is left out, with all that follow.
ReadUntilGone(w) ==
  LET r == worker[w] IN
  /\ r.at = "read"
  /\ \/ \E m \in r.todo :
          worker' = [worker EXCEPT
            ![w].todo = IF m \in meetings THEN @ \ {m} ELSE {},
            ![w].listed = IF m \in meetings THEN @ \cup {<<m, q>> : q \in members[m]} ELSE @]
     \/ r.todo = {} /\ Answer(w, 0)
  /\ UNCHANGED tables

\* participants(), meeting by meeting, each under that meeting's lock; a meeting
\* that was erased meanwhile is still read.
ReadMeeting(w) ==
  LET r == worker[w] IN
  /\ r.at = "read"
  /\ \/ \E m \in r.todo :
          worker' = [worker EXCEPT
            ![w].todo = @ \ {m}, ![w].listed = @ \cup {<<m, q>> : q \in members[m]}]
     \/ r.todo = {} /\ Answer(w, 0)
  /\ UNCHANGED tables

-----------------------------------------------------------------------------
Init ==
  /\ meetings = {} /\ created = {} /\ bridge = {}
  /\ members = [m \in Meetings |-> {}]
  /\ worker = [w \in Workers |-> Idle]
  /\ ever = [w \in Workers |-> {}] /\ always = [w \in Workers |-> {}]

\* The client has its answer.
Done(w) ==
  /\ worker[w].at = "answered"
  /\ worker' = [worker EXCEPT ![w] = Idle]
  /\ UNCHANGED tables

Handle(w) ==
  \/ Create(w) \/ BeginAdd(w) \/ BeginSplit(w) \/ AllocatePort(w) \/ AddFails(w)
  \/ AddSucceeds(w) \/ AddCrashes(w) \/ Recheck(w)
  \/ Erase(w) \/ Halt(w) \/ BeginDel(w) \/ FindPart(w) \/ FindAgain(w) \/ RemovePart(w)
  \/ BeginMute(w) \/ Mute(w) \/ BeginList(w) \/ ReadMeeting(w) \/ Done(w)

\* A fact: <<m>>, meeting m is in the table; <<m, q>>, q is registered in m.
Facts == {<<m>> : m \in meetings} \cup UNION {{<<m, q>> : q \in members[m]} : m \in Meetings}

\* The facts request r is about.
Subject(r) ==
  IF r.op = "list"
  THEN {<<m>> : m \in Meetings} \cup {<<m, q>> : m \in Meetings, q \in Parts}
  ELSE {<<r.m>>, <<r.m, r.q>>}

\* The first section is the first moment of a request; each step is looked at
\* from both sides.  A request that is not busy has no history.
Remember ==
  /\ ever' = [w \in Workers |->
       IF ~Busy(worker'[w]) THEN {}
       ELSE ever[w] \cup (Subject(worker'[w]) \cap (Facts \cup Facts'))]
  /\ always' = [w \in Workers |->
       IF ~Busy(worker'[w]) THEN {}
       ELSE (IF Busy(worker[w]) THEN always[w] ELSE Subject(worker'[w]) \cap Facts) \cap Facts']

Died == (\A w \in Workers : worker[w] = Dead) /\ UNCHANGED tables /\ UNCHANGED worker

Next == ((\E w \in Workers : Handle(w)) \/ Died) /\ Remember

Spec == Init /\ [][Next]_vars

-----------------------------------------------------------------------------
(* Properties *)

Sections == {"allocate", "add", "recheck", "halt", "find", "again", "remove", "mute",
             "read", "answered"}
Handling ==
  [at : Sections, op : {"add", "split", "destroy", "del", "mute", "list"},
   m : Meetings \cup {Nobody}, q : Parts \cup {Nobody}, code : 0 .. 5,
   todo : SUBSET Meetings, listed : SUBSET (Meetings \X Parts)]

\* Type invariant.  A bridge belongs to a meeting that was created, and only a
\* meeting with a bridge has participants, whoever still holds it.
TypeOK ==
  /\ meetings \subseteq created /\ created \subseteq Meetings /\ bridge \subseteq created
  /\ members \in [Meetings -> SUBSET Parts] /\ \A m \in Meetings \ bridge : members[m] = {}
  /\ worker \in [Workers -> Handling \cup {Idle, Dead}]

\* The requests that were answered with a code.
AnsweredWith(ops, code) ==
  {w \in Workers : Busy(worker[w]) /\ worker[w].at = "answered" /\ worker[w].op \in ops
                   /\ worker[w].code = code}
Table(w) == <<worker[w].m>>
Entry(w) == <<worker[w].m, worker[w].q>>

\* An answer may be old when the client reads it, but it was true while the
\* request was served: a meeting or a participant that "is not found" was absent
\* at some moment, one that "exists already" (handle_add_passive_participant)
\* was there, and where that handler answers 5 it was not; whoever is told that
\* a participant was added made it so; one that was muted was there; a destroyed
\* meeting was there and is gone; a deleted participant was there and it, or its
\* meeting, is gone.
Truthful ==
  /\ \A w \in AnsweredWith({"add", "split", "destroy", "del", "mute"}, 1) : Table(w) \notin always[w]
  /\ \A w \in AnsweredWith({"del", "mute"}, 2) : Entry(w) \notin always[w]
  /\ \A w \in AnsweredWith({"split"}, 2) : Entry(w) \in ever[w]
  /\ \A w \in AnsweredWith({"split"}, 5) : Entry(w) \notin always[w]
  /\ \A w \in AnsweredWith({"add", "split"}, 0) : Entry(w) \in ever[w] \ always[w]
  /\ \A w \in AnsweredWith({"mute"}, 0) : Entry(w) \in ever[w]
  /\ \A w \in AnsweredWith({"destroy"}, 0) : Table(w) \in ever[w] \ always[w]
  /\ \A w \in AnsweredWith({"del"}, 0) :
       Entry(w) \in ever[w] /\ ~({Entry(w), Table(w)} \subseteq always[w])

\* A list is read meeting by meeting while others come and go.  It names nobody
\* who was not registered while it was read, and misses nobody who was registered
\* all the time in a meeting that was there all the time.
ListedTrue ==
  \A w \in AnsweredWith({"list"}, 0) :
    /\ worker[w].listed \subseteq ever[w]
    /\ \A m \in Meetings, q \in Parts :
         {<<m>>, <<m, q>>} \subseteq always[w] => <<m, q>> \in worker[w].listed
=============================================================================
