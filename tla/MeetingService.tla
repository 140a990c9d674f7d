--------------------------- MODULE MeetingService ---------------------------
(***************************************************************************)
(* The HTTP API over its shared state (server.cpp, meeting_manager.cpp and *)
(* the participant table of meeting.cpp): a pool of HTTP worker threads    *)
(* runs the handlers concurrently over the table of meetings, the          *)
(* participants of each and the port pool, PortAllocator.                  *)
(*                                                                         *)
(* A handler takes one lock after another and holds none in between: each  *)
(* section under a lock is one action, and what the handler remembers      *)
(* between two sections is in the worker's record.  A meeting that was     *)
(* erased is still there for the handlers that looked it up before.        *)
(* Handlers that only read (listAudioMeets, the choice between the error   *)
(* codes 2 and 5) or only set a level (muteAudioMeetPart) are left out,    *)
(* and so is validation of parameters, which touches nothing shared.       *)
(***************************************************************************)
EXTENDS Integers, FiniteSets

CONSTANTS
  Workers,           \* threads of the HTTP server
  Meetings,          \* meeting ids create_meeting can draw, each once
  Parts,             \* partId values
  SetupMayFail,      \* can a Meeting's constructor fail, for want of memory?
  Slots,             \* participants a bridge has room for: 31
  base, count, Width \* of the port pool

VARIABLES
  next, used,        \* the port pool
  meetings,          \* meetings_: the ids the manager finds
  created,           \* the meetings that exist or existed
  bridge,            \* meeting -> are pool_ and conf_ there?
  members,           \* meeting -> partId -> port of the registered participant
  listening,         \* the ports on which a participant's listener is open
  worker             \* worker -> what its handler is doing and remembers

Allocator == INSTANCE PortAllocator

table   == <<meetings, created, bridge>>
ports   == <<next, used>>
vars    == <<ports, table, members, listening, worker>>

NoPort == -1
Idle == [at |-> "idle"]
Dead == [at |-> "dead"]      \* the whole process has ended

ASSUME MeetingServiceAssumption ==
  /\ SetupMayFail \in BOOLEAN /\ Slots \in Nat \ {0}
  /\ Width \in Nat \ {0} /\ base \in 0 .. Width - 1 /\ count \in 0 .. Width - 1

Registered(m) == {q \in Parts : members[m][q] # NoPort}
MemberPorts(m) == {members[m][q] : q \in Registered(m)}

\* The handler of worker w goes on to its next section, or has replied.
Continue(w, there) == worker' = [worker EXCEPT ![w].at = there]
Reply(w)           == worker' = [worker EXCEPT ![w] = Idle]

-----------------------------------------------------------------------------
(* handle_create_meeting.  A Meeting whose constructor failed has no pool  *)
(* and no bridge, and is entered in the table all the same.                *)

Create(w) ==
  /\ worker[w].at = "idle"
  /\ \E m \in Meetings \ created, ok \in {TRUE, ~SetupMayFail} :
       /\ meetings' = meetings \cup {m} /\ created' = created \cup {m}
       /\ bridge' = [bridge EXCEPT ![m] = ok]
  /\ UNCHANGED <<ports, members, listening, worker>>

-----------------------------------------------------------------------------
(* handle_add_participant and handle_add_passive_participant (kind "split") *)

\* get_meeting; when it finds nothing the handler replies and nothing changes.
BeginAdd(w) ==
  /\ worker[w].at = "idle"
  /\ \E m \in meetings, q \in Parts, k \in {"active", "split"} :
       worker' = [worker EXCEPT ![w] =
                    [at |-> "allocate", kind |-> k, m |-> m, q |-> q, port |-> NoPort]]
  /\ UNCHANGED <<ports, table, members, listening>>

\* allocate().  A port whose listener is open cannot be bound; any other may
\* be taken by another program of the host.
AllocatePort(w) ==
  /\ worker[w].at = "allocate"
  /\ \E avail \in SUBSET {i \in Allocator!Indexes : Allocator!Port(i) \notin listening} :
       \/ \E i \in Allocator!Indexes :
            /\ Allocator!Allocate(avail, i)
            /\ worker' = [worker EXCEPT ![w].at = "add", ![w].port = Allocator!Port(i)]
       \/ Allocator!Exhausted(avail) /\ Reply(w)
  /\ UNCHANGED <<table, members, listening>>

\* The participant is not added: its partId is taken; or start() fails, which
\* it can at any time, at bind() or listen() or, in split mode, at connect(); or
\* the bridge is full, and the participant that had started is stopped again.
AddFails(w) ==
  /\ worker[w].at = "add"
  /\ Continue(w, "undo")
  /\ UNCHANGED <<ports, table, members, listening>>

\* A participant has started but its meeting has no pool any more, or never
\* had one: create_media_port dereferences null.  The process is gone, and
\* with it its tables and sockets.
AddCrashes(w) ==
  LET r == worker[w] IN
  /\ r.at = "add" /\ members[r.m][r.q] = NoPort /\ r.port \notin listening
  /\ ~bridge[r.m]
  /\ worker' = [v \in Workers |-> Dead]
  /\ members' = [m \in Meetings |-> [q \in Parts |-> NoPort]]
  /\ listening' = {}
  /\ UNCHANGED <<ports, table>>

\* Mutant: bind() is made to succeed on a port somebody listens on.
AddShared(w) ==
  LET r == worker[w] IN
  /\ r.at = "add" /\ members[r.m][r.q] = NoPort
  /\ bridge[r.m] /\ Cardinality(Registered(r.m)) < Slots
  /\ listening' = listening \cup {r.port}
  /\ members' = [members EXCEPT ![r.m][r.q] = r.port]
  /\ Reply(w)
  /\ UNCHANGED <<ports, table>>

\* The participant listens, has a slot of the bridge and is entered.
AddSucceeds(w) ==
  LET r == worker[w] IN
  /\ r.at = "add" /\ members[r.m][r.q] = NoPort /\ r.port \notin listening
  /\ bridge[r.m] /\ Cardinality(Registered(r.m)) < Slots
  /\ listening' = listening \cup {r.port}
  /\ members' = [members EXCEPT ![r.m][r.q] = r.port]
  /\ Reply(w)
  /\ UNCHANGED <<ports, table>>

\* Mutant: the port of a participant that could not be added is forgotten.
UndoForgets(w) ==
  /\ worker[w].at = "undo" /\ Reply(w)
  /\ UNCHANGED <<ports, table, members, listening>>

UndoAdd(w) ==
  /\ worker[w].at = "undo"
  /\ Allocator!Release(worker[w].port)
  /\ Reply(w)
  /\ UNCHANGED <<table, members, listening>>

-----------------------------------------------------------------------------
(* handle_destroy_meeting: MeetingManager::destroy_meeting, Meeting::stop  *)

Erase(w) ==
  /\ worker[w].at = "idle"
  /\ \E m \in meetings :
       /\ meetings' = meetings \ {m}
       /\ worker' = [worker EXCEPT ![w] = [at |-> "collect", m |-> m, owed |-> {}]]
  /\ UNCHANGED <<ports, created, bridge, members, listening>>

\* "Collect ports before stopping"
CollectPorts(w) ==
  /\ worker[w].at = "collect"
  /\ worker' = [worker EXCEPT ![w].at = "halt", ![w].owed = MemberPorts(worker[w].m) \ {0}]
  /\ UNCHANGED <<ports, table, members, listening>>

\* Mutants: stop() reaches the participants whose ports were collected, the
\* others only leave the table; the table is not cleared.
HaltCollected(w) ==
  LET m == worker[w].m IN
  /\ worker[w].at = "halt"
  /\ listening' = listening \ worker[w].owed
  /\ members' = [members EXCEPT ![m] = [q \in Parts |-> NoPort]]
  /\ bridge' = [bridge EXCEPT ![m] = FALSE]
  /\ Continue(w, "give")
  /\ UNCHANGED <<ports, meetings, created>>
HaltKeepsTable(w) ==
  LET m == worker[w].m IN
  /\ worker[w].at = "halt"
  /\ listening' = listening \ MemberPorts(m)
  /\ bridge' = [bridge EXCEPT ![m] = FALSE]
  /\ Continue(w, "give")
  /\ UNCHANGED <<ports, meetings, created, members>>

\* stop(), under parts_mutex_: every participant is stopped, the table is
\* cleared, the bridge and the pool are gone.
Halt(w) ==
  LET m == worker[w].m IN
  /\ worker[w].at = "halt"
  /\ listening' = listening \ MemberPorts(m)
  /\ members' = [members EXCEPT ![m] = [q \in Parts |-> NoPort]]
  /\ bridge' = [bridge EXCEPT ![m] = FALSE]
  /\ Continue(w, "give")
  /\ UNCHANGED <<ports, meetings, created>>

\* The loop that releases the collected ports, one lock at a time.
GiveBack(w) ==
  /\ worker[w].at = "give"
  /\ \/ \E p \in worker[w].owed :
          /\ Allocator!Release(p)
          /\ worker' = [worker EXCEPT ![w].owed = @ \ {p}]
     \/ worker[w].owed = {} /\ Reply(w) /\ UNCHANGED ports
  /\ UNCHANGED <<table, members, listening>>

-----------------------------------------------------------------------------
(* handle_del_participant, MeetingManager::delete_participant and          *)
(* Meeting::remove_participant                                             *)

\* get_meeting and get_participant; on a miss the handler replies 1 or 2.
BeginDel(w) ==
  /\ worker[w].at = "idle"
  /\ \E m \in meetings, q \in Parts :
       worker' = [worker EXCEPT ![w] = [at |-> "find", m |-> m, q |-> q, port |-> NoPort]]
  /\ UNCHANGED <<ports, table, members, listening>>

FindPart(w) ==
  LET r == worker[w] IN
  /\ r.at = "find"
  /\ IF members[r.m][r.q] = NoPort THEN Reply(w) ELSE Continue(w, "again")
  /\ UNCHANGED <<ports, table, members, listening>>

\* delete_participant looks the meeting up a second time.
FindAgain(w) ==
  /\ worker[w].at = "again"
  /\ IF worker[w].m \in meetings THEN Continue(w, "remove") ELSE Reply(w)
  /\ UNCHANGED <<ports, table, members, listening>>

\* Mutant: remove_participant relies on the handler having found the participant.
RemoveUnchecked(w) ==
  LET r == worker[w] IN
  /\ r.at = "remove"
  /\ members' = [members EXCEPT ![r.m][r.q] = NoPort]
  /\ worker' = [worker EXCEPT ![w].at = "stop", ![w].port = members[r.m][r.q]]
  /\ UNCHANGED <<ports, table, listening>>

\* The table entry and the bridge slot go, under parts_mutex_.
RemovePart(w) ==
  LET r == worker[w] IN
  /\ r.at = "remove"
  /\ IF members[r.m][r.q] = NoPort
     THEN Reply(w) /\ UNCHANGED members
     ELSE /\ members' = [members EXCEPT ![r.m][r.q] = NoPort]
          /\ worker' = [worker EXCEPT ![w].at = "stop", ![w].port = members[r.m][r.q]]
  /\ UNCHANGED <<ports, table, listening>>

\* participant->stop(), outside all locks.
StopPart(w) ==
  /\ worker[w].at = "stop"
  /\ listening' = listening \ {worker[w].port} /\ Continue(w, "release")
  /\ UNCHANGED <<ports, table, members>>

\* if (port > 0) release(port)
ReleasePort(w) ==
  /\ worker[w].at = "release"
  /\ IF worker[w].port > 0 THEN Allocator!Release(worker[w].port) ELSE UNCHANGED ports
  /\ Reply(w)
  /\ UNCHANGED <<table, members, listening>>

-----------------------------------------------------------------------------
Init ==
  /\ Allocator!Init
  /\ meetings = {} /\ created = {} /\ bridge = [m \in Meetings |-> FALSE]
  /\ members = [m \in Meetings |-> [q \in Parts |-> NoPort]]
  /\ listening = {}
  /\ worker = [w \in Workers |-> Idle]

Add(w)      == BeginAdd(w) \/ AllocatePort(w) \/ AddFails(w) \/ AddCrashes(w)
                 \/ AddSucceeds(w) \/ UndoAdd(w)
DestroyMeeting(w) == Erase(w) \/ CollectPorts(w) \/ Halt(w) \/ GiveBack(w)
Del(w)      == BeginDel(w) \/ FindPart(w) \/ FindAgain(w) \/ RemovePart(w)
                 \/ StopPart(w) \/ ReleasePort(w)

\* A request that names no meeting of the table is answered with code 1.
NotFound(w) == worker[w].at = "idle" /\ meetings # Meetings /\ UNCHANGED vars

Died == (\A w \in Workers : worker[w] = Dead) /\ UNCHANGED vars

Next ==
  \/ \E w \in Workers : Create(w) \/ Add(w) \/ DestroyMeeting(w) \/ Del(w) \/ NotFound(w)
  \/ Died

Spec == Init /\ [][Next]_vars

-----------------------------------------------------------------------------
(* Properties                                                              *)

PortNumbers == 0 .. Width - 1

\* What a handler remembers, by the section it has reached.
Adding ==
  [at : {"allocate"}, kind : {"active", "split"}, m : Meetings, q : Parts, port : {NoPort}]
Added ==
  [at : {"add", "undo"}, kind : {"active", "split"}, m : Meetings, q : Parts, port : PortNumbers]
Destroying == [at : {"collect", "halt", "give"}, m : Meetings, owed : SUBSET PortNumbers]
Finding    == [at : {"find", "again", "remove"}, m : Meetings, q : Parts, port : {NoPort}]
Removed    == [at : {"stop", "release"}, m : Meetings, q : Parts, port : PortNumbers]
Handling   == {Idle, Dead} \cup Adding \cup Added \cup Destroying \cup Finding \cup Removed

\* Type invariant; it says at which sections a handler remembers a port.
TypeOK ==
  /\ next \in Allocator!Indexes \cup {0} /\ used \in [Allocator!Indexes -> BOOLEAN]
  /\ meetings \subseteq created /\ created \subseteq Meetings
  /\ bridge \in [Meetings -> BOOLEAN]
  /\ members \in [Meetings -> [Parts -> PortNumbers \cup {NoPort}]]
  /\ listening \subseteq PortNumbers
  /\ worker \in [Workers -> Handling]

\* "Every response is JSON" (README.md): no request ends the process.
EveryRequestAnswered == \A w \in Workers : worker[w] # Dead

Everyone == {mq \in Meetings \X Parts : members[mq[1]][mq[2]] # NoPort}
PortOf(mq) == members[mq[1]][mq[2]]

\* The workers whose handler still has to hand on or release port p.
InHand(p) == {w \in Workers : worker[w].at \in {"add", "undo", "stop", "release"}
                              /\ worker[w].port = p}

\* No two participants, of the same or of different meetings, have the same
\* port, and the port of each, which its client was told, is really open:
\* whatever the pool believes after a port was released twice.
OnePortOneParticipant ==
  \A x, y \in Everyone :
    PortOf(x) \in listening /\ (PortOf(x) = PortOf(y) => x = y)

\* As long as no meeting was destroyed the pool is exact: a port is in use
\* exactly if one participant or one handler has it, and never two, on every
\* path of adding, failing to add and deleting, however they interleave.
PoolExact ==
  meetings = created /\ EveryRequestAnswered =>
    \A i \in Allocator!Indexes :
      LET p == Allocator!Port(i)
          owners == Cardinality({x \in Everyone : PortOf(x) = p}) + Cardinality(InHand(p))
      IN  owners = IF used[i] THEN 1 ELSE 0

\* No listener is left behind: each belongs to a participant of a meeting, or
\* to one that a handler has taken out of the table and is about to stop, even
\* when participants come while their meeting is being destroyed.
NoOrphanListener ==
  \A p \in listening :
    \/ \E x \in Everyone : PortOf(x) = p
    \/ \E w \in InHand(p) : worker[w].at = "stop"

\* A meeting without a bridge, because it was destroyed or could not be set
\* up, has no participants, and none is entered by a handler that had found
\* the meeting before.
NoBridgeNoMembers ==
  \A m \in Meetings : ~bridge[m] => Registered(m) = {}

\* "Release all the ports it occupies" (README.zh.md, destroyAudioMeet): a port
\* in use is always somebody's.
NoLostPort ==
  EveryRequestAnswered => \A i \in Allocator!Indexes : used[i] =>
    \/ \E x \in Everyone : PortOf(x) = Allocator!Port(i)
    \/ InHand(Allocator!Port(i)) # {}
    \/ \E w \in Workers : /\ worker[w].at \in {"halt", "give"}
                         /\ Allocator!Port(i) \in worker[w].owed
=============================================================================
