------------------------------- MODULE Meeting -------------------------------
(***************************************************************************)
(* One Meeting (meeting.cpp) under concurrent requests and its own clock:  *)
(* the table of participants under parts_mutex_, the conference bridge     *)
(* under conf_mutex_, the clock thread that mixes every 20 ms, and stop(). *)
(*                                                                         *)
(* Both mutexes are shared mutexes and are variables here: an operation    *)
(* waits for a lock, holds it over several steps, and lets go of it.  The  *)
(* bridge belongs to PJMEDIA: it has numbered slots, directed connections  *)
(* between them and a receive level per slot; each call on it is a step.   *)
(*                                                                         *)
(* A handler is in the meeting from the call on: how it found the meeting, *)
(* and the port it brings, are in MeetingService.                          *)
(***************************************************************************)
EXTENDS Integers, FiniteSets

CONSTANTS
  Workers,        \* threads of the HTTP server
  Clock,          \* the conference clock's thread
  Parts,          \* partId values
  Nobody,         \* the occupant of a free slot
  Room,           \* slots beside the master port's: MEETING_CONF_SLOTS - 1 = 31
  SetupMayFail    \* can the constructor fail, for want of memory?

ASSUME MeetingAssumption ==
  /\ Clock \notin Workers /\ Nobody \notin Parts
  /\ Room \in Nat /\ SetupMayFail \in BOOLEAN

Slots  == 1 .. Room
NoSlot == 0

VARIABLES
  parts_mutex, conf_mutex,  \* who holds each, exclusively or shared
  table,     \* participants_: partId -> slot of the registered participant
  bridge,    \* slot -> the participant whose media port is in it
  wires,     \* the connections of the bridge: <<source, sink>>
  muted,     \* the slots whose receive level is off
  pool,      \* are pool_ and conf_ there?
  clock,     \* where the clock thread is
  quitting,  \* was the clock thread told to end?
  erased,    \* has a handler taken this meeting out of the manager's table?
  worker     \* worker -> what its handler is doing and remembers

locks == <<parts_mutex, conf_mutex>>
media == <<bridge, wires, muted>>
life  == <<pool, clock, quitting, erased>>
vars  == <<locks, table, media, life, worker>>

Idle == [at |-> "idle"]
Dead == [at |-> "dead"]      \* the whole process has ended

-----------------------------------------------------------------------------
(* std::shared_mutex                                                       *)

Free == [exclusive |-> {}, shared |-> {}]

CanLock(l)   == l = Free
CanShare(l)  == l.exclusive = {}
Lock(l, t)   == [l EXCEPT !.exclusive = {t}]
Share(l, t)  == [l EXCEPT !.shared = @ \cup {t}]
Unlock(l, t) == [exclusive |-> l.exclusive \ {t}, shared |-> l.shared \ {t}]

-----------------------------------------------------------------------------
Registered == {q \in Parts : table[q] # NoSlot}
Occupied   == {s \in Slots : bridge[s] # Nobody}
\* The lowest free slot, if there is one.
LowestFree == {s \in Slots \ Occupied : \A t \in Slots \ Occupied : s <= t}

\* The handler of worker w goes on to its next step, or has its answer.
Continue(w, there) == worker' = [worker EXCEPT ![w].at = there]
Reply(w)           == worker' = [worker EXCEPT ![w] = Idle]

\* The pairs add_* connects for a participant in slot s.
\* Mutant: the new participant hears the others and they do not hear it.
OneWay(s) == {<<table[q], s>> : q \in Registered}
BothWays(s) == {<<table[q], s>> : q \in Registered} \cup {<<s, table[q]>> : q \in Registered}

-----------------------------------------------------------------------------
(* add_participant, add_split_participant (and add_passive_participant,    *)
(* which no route calls): alike but for what start() does.                 *)

BeginAdd(w) ==
  /\ worker[w].at = "idle" /\ ~erased
  /\ \E q \in Parts :
       worker' = [worker EXCEPT ![w] = [at |-> "add", part |-> q, slot |-> NoSlot, todo |-> {}]]
  /\ UNCHANGED <<locks, table, media, life>>

\* parts_mutex_ is held exclusively from here to the answer.
AddLock(w) ==
  /\ worker[w].at = "add" /\ CanLock(parts_mutex)
  /\ IF table[worker[w].part] # NoSlot
     THEN Reply(w) /\ UNCHANGED parts_mutex
     ELSE Continue(w, "start") /\ parts_mutex' = Lock(parts_mutex, w)
  /\ UNCHANGED <<conf_mutex, table, media, life>>

\* start() fails, or startSplit() after a connect() of any length.
StartFails(w) ==
  /\ worker[w].at = "start"
  /\ parts_mutex' = Unlock(parts_mutex, w) /\ Reply(w)
  /\ UNCHANGED <<conf_mutex, table, media, life>>

Starts(w) ==
  /\ worker[w].at = "start" /\ pool
  /\ Continue(w, "bridge")
  /\ UNCHANGED <<locks, table, media, life>>

\* create_media_port allocates from a pool that is null: the process ends.
StartCrashes(w) ==
  /\ worker[w].at = "start" /\ ~pool
  /\ worker' = [v \in Workers |-> Dead]
  /\ UNCHANGED <<locks, table, media, life>>

BridgeLock(w) ==
  /\ worker[w].at = "bridge" /\ CanLock(conf_mutex)
  /\ conf_mutex' = Lock(conf_mutex, w) /\ Continue(w, "port")
  /\ UNCHANGED <<parts_mutex, table, media, life>>

\* pjmedia_conf_add_port takes the lowest free slot; it fails if the bridge is
\* full or memory short, and then the participant is stopped again.
AddPort(w) ==
  /\ worker[w].at = "port"
  /\ conf_mutex' = Unlock(conf_mutex, w)
  /\ \/ /\ \E s \in LowestFree :
             /\ bridge' = [bridge EXCEPT ![s] = worker[w].part]
             /\ worker' = [worker EXCEPT ![w].at = "connect", ![w].slot = s,
                                         ![w].todo = BothWays(s)]
        /\ UNCHANGED parts_mutex
     \/ /\ parts_mutex' = Unlock(parts_mutex, w) /\ Reply(w)
        /\ UNCHANGED bridge
  /\ UNCHANGED <<table, wires, muted, life>>

\* One pjmedia_conf_connect_port of the loop, without conf_mutex_.  Its status is
\* ignored; it fails only where a slot has no port.
Connect(w) ==
  /\ worker[w].at = "connect"
  /\ \E ab \in worker[w].todo :
       /\ wires' = wires \cup {ab}
       /\ worker' = [worker EXCEPT ![w].todo = @ \ {ab}]
  /\ UNCHANGED <<locks, table, bridge, muted, life>>

\* Mutant: it is entered in the table before it is connected to everyone.
RegisterEarly(w) ==
  /\ worker[w].at = "connect"
  /\ table' = [table EXCEPT ![worker[w].part] = worker[w].slot]
  /\ parts_mutex' = Unlock(parts_mutex, w) /\ Reply(w)
  /\ UNCHANGED <<conf_mutex, media, life>>

Register(w) ==
  /\ worker[w].at = "connect" /\ worker[w].todo = {}
  /\ table' = [table EXCEPT ![worker[w].part] = worker[w].slot]
  /\ parts_mutex' = Unlock(parts_mutex, w) /\ Reply(w)
  /\ UNCHANGED <<conf_mutex, media, life>>

-----------------------------------------------------------------------------
(* remove_participant                                                      *)

BeginRemove(w) ==
  /\ worker[w].at = "idle" /\ ~erased
  /\ \E q \in Parts :
       worker' = [worker EXCEPT ![w] = [at |-> "remove", part |-> q, slot |-> NoSlot]]
  /\ UNCHANGED <<locks, table, media, life>>

\* Mutant: remove_participant trusts the handler's own lookup.
RemoveTrusting(w) ==
  LET q == worker[w].part IN
  /\ worker[w].at = "remove" /\ CanLock(parts_mutex)
  /\ parts_mutex' = Lock(parts_mutex, w)
  /\ worker' = [worker EXCEPT ![w].at = "detach", ![w].slot = table[q]]
  /\ table' = [table EXCEPT ![q] = NoSlot]
  /\ UNCHANGED <<conf_mutex, media, life>>

RemoveLock(w) ==
  LET q == worker[w].part IN
  /\ worker[w].at = "remove" /\ CanLock(parts_mutex)
  /\ IF table[q] = NoSlot
     THEN Reply(w) /\ UNCHANGED <<parts_mutex, table>>
     ELSE /\ parts_mutex' = Lock(parts_mutex, w)
          /\ worker' = [worker EXCEPT ![w].at = "detach", ![w].slot = table[q]]
          /\ table' = [table EXCEPT ![q] = NoSlot]
  /\ UNCHANGED <<conf_mutex, media, life>>

\* Mutant: the port is removed without conf_mutex_.
DetachUnlocked(w) ==
  /\ worker[w].at = "detach"
  /\ Continue(w, "unplug")
  /\ UNCHANGED <<locks, table, media, life>>

DetachLock(w) ==
  /\ worker[w].at = "detach" /\ CanLock(conf_mutex)
  /\ conf_mutex' = Lock(conf_mutex, w) /\ Continue(w, "unplug")
  /\ UNCHANGED <<parts_mutex, table, media, life>>

\* pjmedia_conf_remove_port: the slot is free, its connections are gone, and
\* its level with them.
RemovePort(s) ==
  /\ bridge' = [bridge EXCEPT ![s] = Nobody]
  /\ wires' = {ab \in wires : s \notin {ab[1], ab[2]}}
  /\ muted' = muted \ {s}

Unplug(w) ==
  /\ worker[w].at = "unplug"
  /\ RemovePort(worker[w].slot)
  /\ conf_mutex' = Unlock(conf_mutex, w) /\ parts_mutex' = Unlock(parts_mutex, w)
  /\ Continue(w, "stop")
  /\ UNCHANGED <<table, life>>

\* participant->stop(), outside all locks; then the last reference goes.
StopPart(w) ==
  /\ worker[w].at = "stop" /\ Reply(w)
  /\ UNCHANGED <<locks, table, media, life>>

-----------------------------------------------------------------------------
(* set_participant_mute                                                    *)

BeginMute(w) ==
  /\ worker[w].at = "idle" /\ ~erased
  /\ \E q \in Parts, on \in BOOLEAN :
       worker' = [worker EXCEPT ![w] = [at |-> "mute", part |-> q, slot |-> NoSlot, on |-> on]]
  /\ UNCHANGED <<locks, table, media, life>>

\* Mutant: the table is let go of once the slot is known.
MuteLooksUp(w) ==
  /\ worker[w].at = "mute" /\ CanShare(parts_mutex)
  /\ IF table[worker[w].part] = NoSlot
     THEN Reply(w)
     ELSE worker' = [worker EXCEPT ![w].at = "hold", ![w].slot = table[worker[w].part]]
  /\ UNCHANGED <<locks, table, media, life>>

\* parts_mutex_, shared, until the answer.
MuteShare(w) ==
  /\ worker[w].at = "mute" /\ CanShare(parts_mutex)
  /\ IF table[worker[w].part] = NoSlot
     THEN Reply(w) /\ UNCHANGED parts_mutex
     ELSE /\ parts_mutex' = Share(parts_mutex, w)
          /\ worker' = [worker EXCEPT ![w].at = "hold", ![w].slot = table[worker[w].part]]
  /\ UNCHANGED <<conf_mutex, table, media, life>>

\* Mutant: the table is locked exclusively as well before the bridge is.
HoldUpgrade(w) ==
  /\ worker[w].at = "hold" /\ parts_mutex.shared = {w} /\ CanLock(conf_mutex)
  /\ conf_mutex' = Lock(conf_mutex, w) /\ Continue(w, "adjust")
  /\ UNCHANGED <<parts_mutex, table, media, life>>

HoldLock(w) ==
  /\ worker[w].at = "hold" /\ CanLock(conf_mutex)
  /\ conf_mutex' = Lock(conf_mutex, w) /\ Continue(w, "adjust")
  /\ UNCHANGED <<parts_mutex, table, media, life>>

\* pjmedia_conf_adjust_rx_level
Adjust(w) ==
  /\ worker[w].at = "adjust"
  /\ muted' = IF worker[w].on THEN muted \cup {worker[w].slot} ELSE muted \ {worker[w].slot}
  /\ conf_mutex' = Unlock(conf_mutex, w) /\ parts_mutex' = Unlock(parts_mutex, w)
  /\ Reply(w)
  /\ UNCHANGED <<table, bridge, wires, life>>

-----------------------------------------------------------------------------
(* get_participant, participants, participant_ports: they copy what they   *)
(* find under the shared lock.                                             *)

BeginLook(w) ==
  /\ worker[w].at = "idle" /\ ~erased
  /\ worker' = [worker EXCEPT ![w] = [at |-> "look"]]
  /\ UNCHANGED <<locks, table, media, life>>

Look(w) ==
  /\ worker[w].at = "look" /\ CanShare(parts_mutex)
  /\ Reply(w)
  /\ UNCHANGED <<locks, table, media, life>>

-----------------------------------------------------------------------------
(* stop(), called once by the handler that erased the meeting              *)

\* pjmedia_clock_stop tells the clock thread to end, if there is one.
BeginStop(w) ==
  /\ worker[w].at = "idle" /\ ~erased
  /\ erased' = TRUE /\ quitting' = TRUE
  /\ worker' = [worker EXCEPT ![w] = [at |-> "join"]]
  /\ UNCHANGED <<locks, table, media, pool, clock>>

\* Mutant: the clock is told to end and not waited for.
JoinNot(w) ==
  /\ worker[w].at = "join"
  /\ Continue(w, "close")
  /\ UNCHANGED <<locks, table, media, life>>

\* It then waits for the thread, so that the last tick is over.
Join(w) ==
  /\ worker[w].at = "join" /\ clock \in {"idle", "none"}
  /\ clock' = "none" /\ Continue(w, "close")
  /\ UNCHANGED <<locks, table, media, pool, quitting, erased>>

CloseLock(w) ==
  /\ worker[w].at = "close" /\ CanLock(parts_mutex)
  /\ parts_mutex' = Lock(parts_mutex, w) /\ Continue(w, "empty")
  /\ UNCHANGED <<conf_mutex, table, media, life>>

\* The loop over the table that removes the ports, without conf_mutex_.
RemoveEach(w) ==
  /\ worker[w].at = "empty"
  /\ \E q \in Registered : bridge[table[q]] = q /\ RemovePort(table[q])
  /\ UNCHANGED <<locks, table, life, worker>>

\* Every participant is stopped, the table cleared; bridge and pool are gone.
Finish(w) ==
  /\ worker[w].at = "empty" /\ \A q \in Registered : bridge[table[q]] # q
  /\ table' = [q \in Parts |-> NoSlot] /\ pool' = FALSE
  /\ parts_mutex' = Unlock(parts_mutex, w) /\ Reply(w)
  /\ UNCHANGED <<conf_mutex, media, clock, quitting, erased>>

-----------------------------------------------------------------------------
(* on_clock_tick                                                           *)

\* It reads conf_ and the master port before it takes conf_mutex_.
Tick ==
  /\ clock = "idle" /\ ~quitting
  /\ clock' = "tick"
  /\ UNCHANGED <<locks, table, media, pool, quitting, erased, worker>>

TickShare ==
  /\ clock = "tick" /\ CanShare(conf_mutex)
  /\ conf_mutex' = Share(conf_mutex, Clock) /\ clock' = "mix"
  /\ UNCHANGED <<parts_mutex, table, media, pool, quitting, erased, worker>>

\* pjmedia_port_get_frame has called every participant in the bridge.
TickEnd ==
  /\ clock = "mix"
  /\ conf_mutex' = Unlock(conf_mutex, Clock) /\ clock' = "idle"
  /\ UNCHANGED <<parts_mutex, table, media, pool, quitting, erased, worker>>

-----------------------------------------------------------------------------
\* The constructor: without memory there is no pool, no bridge and no clock.
Init ==
  /\ parts_mutex = Free /\ conf_mutex = Free
  /\ table = [q \in Parts |-> NoSlot]
  /\ bridge = [s \in Slots |-> Nobody] /\ wires = {} /\ muted = {}
  /\ pool \in {TRUE, ~SetupMayFail}
  /\ clock = IF pool THEN "idle" ELSE "none"
  /\ quitting = FALSE /\ erased = FALSE
  /\ worker = [w \in Workers |-> Idle]

Arrive(w) == BeginAdd(w) \/ BeginRemove(w) \/ BeginMute(w) \/ BeginLook(w) \/ BeginStop(w)

\* The steps that wait for conf_mutex_, and the others, of a handler under way.
WaitConf(w) == BridgeLock(w) \/ DetachLock(w) \/ HoldLock(w)
Serve(w) ==
  \/ AddLock(w) \/ StartFails(w) \/ Starts(w) \/ StartCrashes(w)
  \/ AddPort(w) \/ Connect(w) \/ Register(w)
  \/ RemoveLock(w) \/ Unplug(w) \/ StopPart(w)
  \/ MuteShare(w) \/ Adjust(w) \/ Look(w)
  \/ Join(w) \/ CloseLock(w) \/ RemoveEach(w) \/ Finish(w)

\* Nothing is left to happen: the meeting is gone and every handler is done.
Gone ==
  /\ \A w \in Workers : worker[w] = Dead \/ (erased /\ worker[w] = Idle)
  /\ UNCHANGED vars

Next ==
  \/ \E w \in Workers : Arrive(w) \/ WaitConf(w) \/ Serve(w)
  \/ Tick \/ TickShare \/ TickEnd
  \/ Gone

Spec == Init /\ [][Next]_vars

\* Handlers and a tick under way go on, connect() returns some time, and the
\* clock leaves conf_mutex_ alone for most of each 20 ms, so that a handler
\* that waits for it gets it.  No request need come and no tick need begin.
\* Nothing is assumed of parts_mutex_ beyond that: a std::shared_mutex may
\* prefer readers.
Fairness ==
  /\ \A w \in Workers : WF_vars(Serve(w)) /\ SF_vars(WaitConf(w))
  /\ WF_vars(TickShare) /\ WF_vars(TickEnd)

FairSpec == Spec /\ Fairness

-----------------------------------------------------------------------------
(* Properties                                                              *)

Pairs == {<<a, b>> : a, b \in Slots}

\* What a handler remembers, by the step it has reached.
Adding   == [at : {"add", "start", "bridge", "port"}, part : Parts, slot : {NoSlot}, todo : {{}}]
Wiring   == [at : {"connect"}, part : Parts, slot : Slots, todo : SUBSET Pairs]
Removing == [at : {"remove"}, part : Parts, slot : {NoSlot}]
Removed  == [at : {"detach", "unplug", "stop"}, part : Parts, slot : Slots]
Muting   == [at : {"mute"}, part : Parts, slot : {NoSlot}, on : BOOLEAN]
Holding  == [at : {"hold", "adjust"}, part : Parts, slot : Slots, on : BOOLEAN]
Handling == {Idle, Dead} \cup Adding \cup Wiring \cup Removing \cup Removed \cup Muting
              \cup Holding \cup [at : {"look", "join", "close", "empty"}]

\* Type invariant; a lock is held exclusively by one, or shared.
TypeOK ==
  /\ parts_mutex \in [exclusive : SUBSET Workers, shared : SUBSET Workers]
  /\ conf_mutex \in [exclusive : SUBSET Workers, shared : SUBSET {Clock}]
  /\ \A l \in {parts_mutex, conf_mutex} :
       /\ \A v, w \in l.exclusive : v = w
       /\ l.exclusive = {} \/ l.shared = {}
  /\ table \in [Parts -> Slots \cup {NoSlot}]
  /\ bridge \in [Slots -> Parts \cup {Nobody}]
  /\ wires \subseteq Pairs /\ muted \subseteq Slots
  /\ pool \in BOOLEAN /\ quitting \in BOOLEAN /\ erased \in BOOLEAN
  /\ clock \in {"none", "idle", "tick", "mix"}
  /\ worker \in [Workers -> Handling]

\* No port is added or removed and no level changed while the clock mixes:
\* "The clock callback holds a shared lock during each put_frame tick"
\* (meeting.h), and stop(), which takes no such lock, has ended the clock.
StillDuringTick == [][clock = "mix" => UNCHANGED <<bridge, muted>>]_vars

\* The media port of q in slot s refers to a Participant that is still there:
\* the table has it, or a handler that enters it or takes it out.
Alive(q, s) ==
  \/ table[q] = s
  \/ \E w \in Workers : /\ worker[w].at \in {"connect", "detach", "unplug"}
                        /\ worker[w].part = q /\ worker[w].slot = s

\* A tick that has begun finds its bridge, although it reads conf_ before it
\* takes the lock, and calls no participant that was destroyed.
TickIsSafe ==
  /\ clock \in {"tick", "mix"} => pool
  /\ clock = "mix" => \A s \in Occupied : Alive(bridge[s], s)

\* Whoever can read the table finds it and the bridge in agreement: everyone
\* registered has a slot, nobody else has one, and everyone in the bridge is
\* connected to every other in both directions, whatever was removed before.
TableAgrees ==
  parts_mutex.exclusive = {} =>
    /\ \A q \in Registered : bridge[table[q]] = q
    /\ \A s \in Occupied : table[bridge[s]] = s
    /\ wires = {ab \in Occupied \X Occupied : ab[1] # ab[2]}

\* A mute acts on the slot that the participant it names has at that time:
\* the slot cannot have been given to another since it was looked up.
MuteHitsNamed ==
  \A w \in Workers : worker[w].at \in {"hold", "adjust"} =>
    table[worker[w].part] = worker[w].slot

\* When requests stop coming, every handler gets its answer (or the process
\* has ended): no two handlers, nor a handler, stop() and the clock, wait for
\* each other, in whatever order they take the two mutexes.
Ceasing == <>[][\A w \in Workers : ~Arrive(w)]_vars
Answered ==
  Ceasing => \A w \in Workers : []<>(worker[w] \in {Idle, Dead})

-----------------------------------------------------------------------------
(* What the meeting promises: MeetingRoom.                                 *)

open     == pool /\ ~quitting
hears    == IF open THEN {pq \in Registered \X Registered : <<table[pq[2]], table[pq[1]]>> \in wires}
                    ELSE {}
silenced == IF open THEN {q \in Registered : table[q] \in muted} ELSE {}

Promise == INSTANCE MeetingRoom WITH People <- Parts, members <- Registered

\* The meeting implements the abstract room.
RoomSpec == Promise!Spec
=============================================================================
