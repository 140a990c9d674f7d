---------------------------- MODULE MeetingProofs ----------------------------
(***************************************************************************)
(* Machine-checked proofs about Meeting, for any number of handlers,       *)
(* participants and bridge slots: its invariants, and that it implements   *)
(* MeetingRoom.                                                            *)
(***************************************************************************)
EXTENDS Meeting, TLAPS

USE MeetingAssumption DEF MeetingAssumption

-----------------------------------------------------------------------------
(* Types.                                                                  *)

\* The step a handler has reached says what it remembers.
LEMMA Remembered ==
  ASSUME TypeOK, NEW w \in Workers
  PROVE  /\ worker[w].at \in {"add", "start", "bridge", "port"} => worker[w] \in Adding
         /\ worker[w].at = "connect" => worker[w] \in Wiring
         /\ worker[w].at = "remove" => worker[w] \in Removing
         /\ worker[w].at \in {"detach", "unplug", "stop"} => worker[w] \in Removed
         /\ worker[w].at = "mute" => worker[w] \in Muting
         /\ worker[w].at \in {"hold", "adjust"} => worker[w] \in Holding
         /\ worker[w].at \in {"look", "join", "close", "empty"} =>
              worker[w] \in [at : {"look", "join", "close", "empty"}]
BY DEF TypeOK, Handling, Idle, Dead, Adding, Wiring, Removing, Removed, Muting, Holding

\* A step of one handler leaves the others' memory alone.
LEMMA OneHandlerMoves ==
  ASSUME TypeOK, NEW w \in Workers, NEW r \in Handling,
         worker' = [worker EXCEPT ![w] = r]
  PROVE  /\ worker' \in [Workers -> Handling] /\ worker'[w] = r
         /\ \A v \in Workers : v # w => worker'[v] = worker[v]
BY DEF TypeOK

\* A lock that is exclusive to one or shared stays so when a handler or the
\* clock takes it, if it may, or lets go of it.
LockType(l, S, T) ==
  /\ l \in [exclusive : SUBSET S, shared : SUBSET T]
  /\ \A v, w \in l.exclusive : v = w
  /\ l.exclusive = {} \/ l.shared = {}

LEMMA TypeLocks ==
  TypeOK => LockType(parts_mutex, Workers, Workers) /\ LockType(conf_mutex, Workers, {Clock})
BY DEF TypeOK, LockType

LEMMA PartsSteps ==
  ASSUME TypeOK, NEW w \in Workers
  PROVE  /\ CanLock(parts_mutex) => LockType(Lock(parts_mutex, w), Workers, Workers)
         /\ CanShare(parts_mutex) => LockType(Share(parts_mutex, w), Workers, Workers)
         /\ LockType(Unlock(parts_mutex, w), Workers, Workers)
BY TypeLocks DEF LockType, CanLock, CanShare, Lock, Share, Unlock, Free

LEMMA ConfSteps ==
  ASSUME TypeOK
  PROVE  /\ \A w \in Workers :
              /\ CanLock(conf_mutex) => LockType(Lock(conf_mutex, w), Workers, {Clock})
              /\ LockType(Unlock(conf_mutex, w), Workers, {Clock})
         /\ CanShare(conf_mutex) => LockType(Share(conf_mutex, Clock), Workers, {Clock})
         /\ LockType(Unlock(conf_mutex, Clock), Workers, {Clock})
BY TypeLocks DEF LockType, CanLock, CanShare, Lock, Share, Unlock, Free

\* What else the type invariant says.
Data ==
  /\ table \in [Parts -> Slots \cup {NoSlot}]
  /\ bridge \in [Slots -> Parts \cup {Nobody}]
  /\ wires \subseteq Pairs /\ muted \subseteq Slots
  /\ pool \in BOOLEAN /\ quitting \in BOOLEAN /\ erased \in BOOLEAN
  /\ clock \in {"none", "idle", "tick", "mix"}

LEMMA TypeParts ==
  TypeOK <=> /\ LockType(parts_mutex, Workers, Workers)
             /\ LockType(conf_mutex, Workers, {Clock})
             /\ Data /\ worker \in [Workers -> Handling]
BY DEF TypeOK, LockType, Data

\* A step that only moves the handler to another step of the kind it is in.
LEMMA Moves ==
  ASSUME TypeOK, NEW w \in Workers
  PROVE  /\ \A at \in {"add", "start", "bridge", "port"} :
              worker[w].at \in {"add", "start", "bridge", "port"} =>
              [worker[w] EXCEPT !.at = at] \in Handling
         /\ \A at \in {"detach", "unplug", "stop"} :
              worker[w].at \in {"detach", "unplug", "stop"} =>
              [worker[w] EXCEPT !.at = at] \in Handling
         /\ \A at \in {"hold", "adjust"} : worker[w].at \in {"hold", "adjust"} =>
              [worker[w] EXCEPT !.at = at] \in Handling
         /\ \A at \in {"join", "close", "empty"} :
              worker[w].at \in {"join", "close", "empty"} =>
              [worker[w] EXCEPT !.at = at] \in Handling
BY Remembered DEF Handling, Adding, Removed, Holding

\* The same as a fact about the next state.
LEMMA ContinueTypes ==
  ASSUME TypeOK, NEW w \in Workers, NEW at, Continue(w, at),
         [worker[w] EXCEPT !.at = at] \in Handling
  PROVE  worker' \in [Workers -> Handling]
<1>1. worker' = [worker EXCEPT ![w] = [worker[w] EXCEPT !.at = at]]
  BY DEF Continue, TypeOK
<1> QED BY <1>1, OneHandlerMoves

LEMMA ReplyTypes ==
  ASSUME TypeOK, NEW w \in Workers, Reply(w)
  PROVE  worker' \in [Workers -> Handling]
<1>1. Idle \in Handling BY DEF Handling
<1> QED BY <1>1, OneHandlerMoves DEF Reply

\* The arrival of a request keeps the types.
LEMMA ArriveTypes ==
  ASSUME TypeOK, NEW w \in Workers, Arrive(w)
  PROVE  TypeOK'
<1> USE DEF locks, media, life
<1>1. \E r \in Handling : worker' = [worker EXCEPT ![w] = r]
  <2>1. CASE BeginAdd(w)
    BY <2>1 DEF BeginAdd, Handling, Adding
  <2>2. CASE BeginRemove(w)
    BY <2>2 DEF BeginRemove, Handling, Removing
  <2>3. CASE BeginMute(w)
    BY <2>3 DEF BeginMute, Handling, Muting
  <2>4. CASE BeginLook(w)
    BY <2>4 DEF BeginLook, Handling
  <2>5. CASE BeginStop(w)
    BY <2>5 DEF BeginStop, Handling
  <2> QED BY <2>1, <2>2, <2>3, <2>4, <2>5 DEF Arrive
<1>2. worker' \in [Workers -> Handling] BY <1>1, OneHandlerMoves
<1>3. /\ UNCHANGED <<locks, table, media, pool, clock>>
      /\ quitting' \in BOOLEAN /\ erased' \in BOOLEAN
  BY DEF Arrive, BeginAdd, BeginRemove, BeginMute, BeginLook, BeginStop, TypeOK
<1> QED BY <1>2, <1>3 DEF TypeOK

\* So do the steps that wait for conf_mutex_.
LEMMA WaitTypes ==
  ASSUME TypeOK, NEW w \in Workers, WaitConf(w)
  PROVE  TypeOK'
<1> USE DEF locks, media, life
<1>1. worker' \in [Workers -> Handling]
  <2>1. CASE BridgeLock(w) BY <2>1, Moves, ContinueTypes DEF BridgeLock
  <2>2. CASE DetachLock(w) BY <2>2, Moves, ContinueTypes DEF DetachLock
  <2>3. CASE HoldLock(w) BY <2>3, Moves, ContinueTypes DEF HoldLock
  <2> QED BY <2>1, <2>2, <2>3 DEF WaitConf
<1>2. /\ LockType(conf_mutex', Workers, {Clock})
      /\ LockType(parts_mutex', Workers, Workers)
  BY ConfSteps, TypeLocks DEF WaitConf, BridgeLock, DetachLock, HoldLock
<1>3. Data' BY TypeParts DEF Data, WaitConf, BridgeLock, DetachLock, HoldLock
<1> QED BY <1>1, <1>2, <1>3, TypeParts DEF TypeOK, LockType, Data

\* The steps of add_* keep the types.
LEMMA AddTypes ==
  ASSUME TypeOK, NEW w \in Workers,
         \/ AddLock(w) \/ StartFails(w) \/ Starts(w) \/ StartCrashes(w)
         \/ AddPort(w) \/ Connect(w) \/ Register(w)
  PROVE  TypeOK'
<1> USE DEF locks, media, life
<1>0. TypeOK => Data /\ worker \in [Workers -> Handling] BY TypeParts
<1>1. CASE AddLock(w)
  <2>1. worker' \in [Workers -> Handling]
    BY <1>1, Moves, ContinueTypes, ReplyTypes DEF AddLock
  <2>2. /\ LockType(conf_mutex', Workers, {Clock})
        /\ LockType(parts_mutex', Workers, Workers)
    BY <1>1, PartsSteps, TypeLocks DEF AddLock
  <2>3. Data' BY <1>0, <1>1 DEF Data, AddLock
  <2> QED BY <2>1, <2>2, <2>3, TypeParts DEF TypeOK, LockType, Data
<1>2. CASE StartFails(w) \/ Starts(w)
  <2>1. worker' \in [Workers -> Handling]
    BY <1>2, Moves, ContinueTypes, ReplyTypes DEF StartFails, Starts
  <2>2. /\ LockType(conf_mutex', Workers, {Clock})
        /\ LockType(parts_mutex', Workers, Workers)
    BY <1>2, PartsSteps, TypeLocks DEF StartFails, Starts
  <2>3. Data' BY <1>0, <1>2 DEF Data, StartFails, Starts
  <2> QED BY <2>1, <2>2, <2>3, TypeParts DEF TypeOK, LockType, Data
<1>3. CASE StartCrashes(w)
  <2>1. worker' \in [Workers -> Handling] BY <1>3 DEF StartCrashes, Handling
  <2> QED BY <1>3, <2>1 DEF StartCrashes, TypeOK
<1>4. CASE AddPort(w)
  <2>1. /\ LockType(conf_mutex', Workers, {Clock})
        /\ LockType(parts_mutex', Workers, Workers)
    BY <1>4, PartsSteps, ConfSteps, TypeLocks DEF AddPort
  <2>2. CASE \E s \in LowestFree :
               /\ bridge' = [bridge EXCEPT ![s] = worker[w].part]
               /\ worker' = [worker EXCEPT ![w].at = "connect", ![w].slot = s,
                                           ![w].todo = BothWays(s)]
    <3>1. PICK s \in LowestFree :
               /\ bridge' = [bridge EXCEPT ![s] = worker[w].part]
               /\ worker' = [worker EXCEPT ![w].at = "connect", ![w].slot = s,
                                           ![w].todo = BothWays(s)]
      BY <2>2
    <3>2. s \in Slots /\ worker[w] \in Adding
      BY <1>4, <3>1, Remembered DEF AddPort, LowestFree
    <3>3. BothWays(s) \in SUBSET Pairs
      BY <3>2 DEF BothWays, Pairs, Registered, TypeOK
    <3> DEFINE new == BothWays(s)
               r   == [worker[w] EXCEPT !.at = "connect", !.slot = s, !.todo = new]
    <3> HIDE DEF new
    <3>4. r \in Handling BY <3>2, <3>3 DEF Handling, Adding, Wiring, new
    <3>5. worker' = [worker EXCEPT ![w] = r] BY <3>1 DEF TypeOK, new
    <3>6. worker' \in [Workers -> Handling] BY <3>4, <3>5, OneHandlerMoves
    <3>7. Data' BY <1>0, <1>4, <3>1, <3>2 DEF Data, AddPort, Adding
    <3> QED BY <2>1, <3>6, <3>7, TypeParts DEF TypeOK, LockType, Data
  <2>3. CASE Reply(w) /\ UNCHANGED bridge
    <3>1. Data' BY <1>0, <1>4, <2>3 DEF Data, AddPort
    <3> QED BY <2>1, <2>3, <3>1, ReplyTypes, TypeParts DEF TypeOK, LockType, Data
  <2> QED BY <1>4, <2>2, <2>3 DEF AddPort
<1>5. CASE Connect(w)
  <2>1. PICK ab \in worker[w].todo :
          /\ wires' = wires \cup {ab}
          /\ worker' = [worker EXCEPT ![w].todo = @ \ {ab}]
    BY <1>5 DEF Connect
  <2>2. worker[w] \in Wiring BY <1>5, Remembered DEF Connect
  <2> DEFINE r == [worker[w] EXCEPT !.todo = worker[w].todo \ {ab}]
  <2>3. r \in Handling BY <2>2 DEF Handling, Wiring
  <2>4. worker' = [worker EXCEPT ![w] = r] BY <2>1 DEF TypeOK
  <2>5. worker' \in [Workers -> Handling] BY <2>3, <2>4, OneHandlerMoves
  <2>6. wires' \subseteq Pairs BY <2>1, <2>2 DEF Wiring, TypeOK
  <2> QED BY <1>5, <2>5, <2>6 DEF Connect, TypeOK
<1>6. CASE Register(w)
  <2>1. worker[w] \in Wiring BY <1>6, Remembered DEF Register
  <2>2. /\ LockType(conf_mutex', Workers, {Clock})
        /\ LockType(parts_mutex', Workers, Workers)
    BY <1>6, PartsSteps, TypeLocks DEF Register
  <2>3. Data' BY <1>0, <1>6, <2>1 DEF Data, Register, Wiring
  <2>4. worker' \in [Workers -> Handling] BY <1>6, ReplyTypes DEF Register
  <2> QED BY <2>2, <2>3, <2>4, TypeParts DEF TypeOK, LockType, Data
<1> QED BY <1>1, <1>2, <1>3, <1>4, <1>5, <1>6

\* The steps of remove_participant, set_participant_mute and the lookups.
LEMMA OtherTypes ==
  ASSUME TypeOK, NEW w \in Workers,
         \/ RemoveLock(w) \/ Unplug(w) \/ StopPart(w)
         \/ MuteShare(w) \/ Adjust(w) \/ Look(w)
  PROVE  TypeOK'
<1> USE DEF locks, media, life
<1>0. TypeOK => Data /\ worker \in [Workers -> Handling] BY TypeParts
<1>1. CASE RemoveLock(w)
  <2>1. CASE table[worker[w].part] = NoSlot
    BY <1>1, <2>1, ReplyTypes DEF RemoveLock, TypeOK
  <2>2. CASE table[worker[w].part] # NoSlot
    <3> DEFINE r == [worker[w] EXCEPT !.at = "detach", !.slot = table[worker[w].part]]
    <3>1. worker[w] \in Removing BY <1>1, Remembered DEF RemoveLock
    <3>2. r \in Handling
      BY <2>2, <3>1 DEF Handling, Removing, Removed, TypeOK
    <3>3. worker' = [worker EXCEPT ![w] = r] BY <1>1, <2>2 DEF RemoveLock, TypeOK
    <3>4. worker' \in [Workers -> Handling] BY <3>2, <3>3, OneHandlerMoves
    <3>5. /\ LockType(conf_mutex', Workers, {Clock})
          /\ LockType(parts_mutex', Workers, Workers)
      BY <1>1, <2>2, PartsSteps, TypeLocks DEF RemoveLock
    <3>6. Data' BY <1>0, <1>1, <2>2, <3>1 DEF Data, RemoveLock, Removing
    <3> QED BY <3>4, <3>5, <3>6, TypeParts DEF TypeOK, LockType, Data
  <2> QED BY <2>1, <2>2
<1>2. CASE Unplug(w)
  <2>1. worker[w] \in Removed BY <1>2, Remembered DEF Unplug
  <2>2. worker' \in [Workers -> Handling] BY <1>2, Moves, ContinueTypes DEF Unplug
  <2>3. /\ LockType(conf_mutex', Workers, {Clock})
        /\ LockType(parts_mutex', Workers, Workers)
    BY <1>2, PartsSteps, ConfSteps DEF Unplug
  <2>4. Data' BY <1>0, <1>2, <2>1 DEF Data, Unplug, RemovePort, Removed
  <2> QED BY <2>2, <2>3, <2>4, TypeParts DEF TypeOK, LockType, Data
<1>3. CASE StopPart(w) \/ Look(w)
  BY <1>3, ReplyTypes DEF StopPart, Look, TypeOK
<1>4. CASE MuteShare(w)
  <2>1. CASE table[worker[w].part] = NoSlot
    BY <1>4, <2>1, ReplyTypes DEF MuteShare, TypeOK
  <2>2. CASE table[worker[w].part] # NoSlot
    <3> DEFINE r == [worker[w] EXCEPT !.at = "hold", !.slot = table[worker[w].part]]
    <3>1. worker[w] \in Muting BY <1>4, Remembered DEF MuteShare
    <3>2. r \in Handling
      BY <2>2, <3>1 DEF Handling, Muting, Holding, TypeOK
    <3>3. worker' = [worker EXCEPT ![w] = r] BY <1>4, <2>2 DEF MuteShare, TypeOK
    <3>4. worker' \in [Workers -> Handling] BY <3>2, <3>3, OneHandlerMoves
    <3>5. /\ LockType(conf_mutex', Workers, {Clock})
          /\ LockType(parts_mutex', Workers, Workers)
      BY <1>4, <2>2, PartsSteps, TypeLocks DEF MuteShare
    <3>6. Data' BY <1>0, <1>4 DEF Data, MuteShare
    <3> QED BY <3>4, <3>5, <3>6, TypeParts DEF TypeOK, LockType, Data
  <2> QED BY <2>1, <2>2
<1>5. CASE Adjust(w)
  <2>1. worker[w] \in Holding BY <1>5, Remembered DEF Adjust
  <2>2. worker' \in [Workers -> Handling] BY <1>5, ReplyTypes DEF Adjust
  <2>3. /\ LockType(conf_mutex', Workers, {Clock})
        /\ LockType(parts_mutex', Workers, Workers)
    BY <1>5, PartsSteps, ConfSteps DEF Adjust
  <2>4. Data' BY <1>0, <1>5, <2>1 DEF Data, Adjust, Holding
  <2> QED BY <2>2, <2>3, <2>4, TypeParts DEF TypeOK, LockType, Data
<1> QED BY <1>1, <1>2, <1>3, <1>4, <1>5

\* The steps of stop(), and of the clock thread.
LEMMA StopTypes ==
  ASSUME TypeOK, NEW w \in Workers,
         Join(w) \/ CloseLock(w) \/ RemoveEach(w) \/ Finish(w)
  PROVE  TypeOK'
<1> USE DEF locks, media, life
<1>0. TypeOK => Data /\ worker \in [Workers -> Handling] BY TypeParts
<1>1. CASE Join(w)
  <2>1. worker' \in [Workers -> Handling] BY <1>1, Moves, ContinueTypes DEF Join
  <2> QED BY <1>1, <2>1 DEF Join, TypeOK
<1>2. CASE CloseLock(w)
  <2>1. worker' \in [Workers -> Handling] BY <1>2, Moves, ContinueTypes DEF CloseLock
  <2>2. /\ LockType(conf_mutex', Workers, {Clock})
        /\ LockType(parts_mutex', Workers, Workers)
    BY <1>2, PartsSteps, TypeLocks DEF CloseLock
  <2>3. Data' BY <1>0, <1>2 DEF Data, CloseLock
  <2> QED BY <2>1, <2>2, <2>3, TypeParts DEF TypeOK, LockType, Data
<1>3. CASE RemoveEach(w)
  <2>1. PICK q \in Registered : bridge[table[q]] = q /\ RemovePort(table[q])
    BY <1>3 DEF RemoveEach
  <2>2. table[q] \in Slots BY <2>1 DEF Registered, TypeOK
  <2>3. /\ bridge' \in [Slots -> Parts \cup {Nobody}]
        /\ wires' \subseteq Pairs /\ muted' \subseteq Slots
    BY <2>1, <2>2 DEF RemovePort, TypeOK
  <2> QED BY <1>3, <2>3 DEF RemoveEach, TypeOK
<1>4. CASE Finish(w)
  <2>1. worker' \in [Workers -> Handling] BY <1>4, ReplyTypes DEF Finish
  <2>2. /\ LockType(conf_mutex', Workers, {Clock})
        /\ LockType(parts_mutex', Workers, Workers)
    BY <1>4, PartsSteps, TypeLocks DEF Finish
  <2>3. Data' BY <1>0, <1>4 DEF Data, Finish
  <2> QED BY <2>1, <2>2, <2>3, TypeParts DEF TypeOK, LockType, Data
<1> QED BY <1>1, <1>2, <1>3, <1>4

LEMMA ClockTypes ==
  ASSUME TypeOK, Tick \/ TickShare \/ TickEnd
  PROVE  TypeOK'
<1> USE DEF locks, media, life
<1>0. TypeOK => Data /\ worker \in [Workers -> Handling] BY TypeParts
<1>1. /\ LockType(conf_mutex', Workers, {Clock})
      /\ LockType(parts_mutex', Workers, Workers)
  BY ConfSteps, TypeLocks DEF Tick, TickShare, TickEnd
<1>2. Data' /\ worker' \in [Workers -> Handling]
  BY <1>0 DEF Data, Tick, TickShare, TickEnd
<1> QED BY <1>1, <1>2, TypeParts DEF TypeOK, LockType, Data

LEMMA StepTypes == TypeOK /\ [Next]_vars => TypeOK'
<1> SUFFICES ASSUME TypeOK, [Next]_vars PROVE TypeOK' OBVIOUS
<1>1. CASE UNCHANGED vars BY <1>1 DEF vars, locks, media, life, TypeOK
<1>2. ASSUME NEW w \in Workers, Serve(w) PROVE TypeOK'
  BY <1>2, AddTypes, OtherTypes, StopTypes DEF Serve
<1> QED BY <1>1, <1>2, ArriveTypes, WaitTypes, ClockTypes DEF Next, Gone

LEMMA InitTypes == Init => TypeOK
<1> SUFFICES ASSUME Init PROVE TypeOK OBVIOUS
<1>1. worker \in [Workers -> Handling] BY DEF Init, Handling
<1>2. pool \in BOOLEAN BY DEF Init
<1>3. clock \in {"none", "idle", "tick", "mix"} BY DEF Init
<1>4. /\ LockType(parts_mutex, Workers, Workers)
      /\ LockType(conf_mutex, Workers, {Clock})
  BY DEF Init, Free, LockType
<1>5. /\ table \in [Parts -> Slots \cup {NoSlot}]
      /\ bridge \in [Slots -> Parts \cup {Nobody}]
      /\ wires \subseteq Pairs /\ muted \subseteq Slots
      /\ quitting \in BOOLEAN /\ erased \in BOOLEAN
  BY DEF Init
<1> QED BY <1>1, <1>2, <1>3, <1>4, <1>5, TypeParts DEF Data

\* The locks, the table, the bridge and what every handler remembers between
\* its steps have their types, for any number of handlers and slots.
THEOREM TypeCorrect == Spec => []TypeOK
BY InitTypes, StepTypes, PTL DEF Spec

-----------------------------------------------------------------------------
(* The two mutexes and the clock.                                          *)

\* The steps at which a handler holds parts_mutex_ exclusively.
Inside == {"start", "bridge", "port", "connect", "detach", "unplug", "empty"}

\* Who is at a step that needs a lock holds it.
LocksHeld ==
  /\ \A w \in Workers : worker[w].at \in Inside => parts_mutex.exclusive = {w}
  /\ \A w \in Workers : worker[w].at \in {"hold", "adjust"} => w \in parts_mutex.shared
  /\ \A w \in Workers :
       worker[w].at \in {"port", "unplug", "adjust"} => conf_mutex.exclusive = {w}
  /\ clock = "mix" => Clock \in conf_mutex.shared

\* stop() goes on, and the bridge goes, only when the clock thread has ended.
ClockEnds ==
  /\ \A w \in Workers : worker[w].at \in {"close", "empty"} => clock = "none"
  /\ ~pool => clock = "none"

\* What a handler that goes on remembers.
LEMMA ContinueMoves ==
  ASSUME TypeOK, NEW w \in Workers, NEW at, Continue(w, at),
         worker[w].at \notin {"idle", "dead"}
  PROVE  /\ worker'[w].at = at
         /\ \A v \in Workers : v # w => worker'[v] = worker[v]
         /\ worker[w].at \in {"add", "start", "bridge", "detach", "unplug", "hold"} =>
              worker'[w].part = worker[w].part /\ worker'[w].slot = worker[w].slot
<1>1. worker' = [worker EXCEPT ![w] = [worker[w] EXCEPT !.at = at]]
  BY DEF Continue, TypeOK
<1>2. worker'[w] = [worker[w] EXCEPT !.at = at]
      /\ \A v \in Workers : v # w => worker'[v] = worker[v]
  BY <1>1 DEF TypeOK
<1>3. [worker[w] EXCEPT !.at = at].at = at
  <2>1. worker[w] \in Handling BY DEF TypeOK
  <2> QED BY <2>1 DEF Handling, Idle, Dead, Adding, Wiring, Removing, Removed, Muting, Holding
<1>4. worker[w].at \in {"add", "start", "bridge", "detach", "unplug", "hold"} =>
        /\ [worker[w] EXCEPT !.at = at].part = worker[w].part
        /\ [worker[w] EXCEPT !.at = at].slot = worker[w].slot
  BY Remembered DEF Adding, Removed, Holding
<1> QED BY <1>2, <1>3, <1>4

LEMMA ReplyMoves ==
  ASSUME TypeOK, NEW w \in Workers, Reply(w)
  PROVE  /\ worker'[w].at = "idle"
         /\ \A v \in Workers : v # w => worker'[v] = worker[v]
BY DEF Reply, Idle, TypeOK

\* What the handler of add_* remembers when its port is in the bridge, and
\* from one connection to the next.
LEMMA AddPortMoves ==
  ASSUME TypeOK, NEW w \in Workers, AddPort(w)
  PROVE  \/ /\ parts_mutex' = Unlock(parts_mutex, w) /\ Reply(w)
            /\ UNCHANGED bridge
         \/ \E s \in LowestFree :
              /\ bridge' = [bridge EXCEPT ![s] = worker[w].part]
              /\ worker'[w].at = "connect" /\ worker'[w].part = worker[w].part
              /\ worker'[w].slot = s /\ worker'[w].todo = BothWays(s)
              /\ \A v \in Workers : v # w => worker'[v] = worker[v]
              /\ UNCHANGED parts_mutex
<1>1. CASE /\ parts_mutex' = Unlock(parts_mutex, w) /\ Reply(w)
           /\ UNCHANGED bridge
  BY <1>1
<1>2. CASE /\ \E s \in LowestFree :
                /\ bridge' = [bridge EXCEPT ![s] = worker[w].part]
                /\ worker' = [worker EXCEPT ![w].at = "connect", ![w].slot = s,
                                            ![w].todo = BothWays(s)]
           /\ UNCHANGED parts_mutex
  <2>1. PICK s \in LowestFree :
          /\ bridge' = [bridge EXCEPT ![s] = worker[w].part]
          /\ worker' = [worker EXCEPT ![w].at = "connect", ![w].slot = s,
                                      ![w].todo = BothWays(s)]
    BY <1>2
  <2> DEFINE new == BothWays(s)
             r   == [worker[w] EXCEPT !.at = "connect", !.slot = s, !.todo = new]
  <2> HIDE DEF new
  <2>2. worker' = [worker EXCEPT ![w] = r] BY <2>1 DEF TypeOK, new
  <2>3. worker[w] \in Adding BY Remembered DEF AddPort
  <2>4. /\ r.at = "connect" /\ r.part = worker[w].part
        /\ r.slot = s /\ r.todo = new
    <3>1. r.at = "connect" BY <2>3 DEF Adding
    <3>2. r.part = worker[w].part BY <2>3 DEF Adding
    <3>3. r.slot = s BY <2>3 DEF Adding
    <3>4. r.todo = new BY <2>3 DEF Adding
    <3> QED BY <3>1, <3>2, <3>3, <3>4
  <2>5. /\ worker'[w] = r
        /\ \A v \in Workers : v # w => worker'[v] = worker[v]
    BY <2>2 DEF TypeOK
  <2> QED BY <1>2, <2>1, <2>4, <2>5 DEF new
<1> QED BY <1>1, <1>2 DEF AddPort

LEMMA ConnectMoves ==
  ASSUME TypeOK, NEW w \in Workers, Connect(w)
  PROVE  \E ab \in worker[w].todo :
           /\ wires' = wires \cup {ab}
           /\ worker'[w].at = "connect" /\ worker'[w].part = worker[w].part
           /\ worker'[w].slot = worker[w].slot
           /\ worker'[w].todo = worker[w].todo \ {ab}
           /\ \A v \in Workers : v # w => worker'[v] = worker[v]
<1>1. PICK ab \in worker[w].todo :
        /\ wires' = wires \cup {ab}
        /\ worker' = [worker EXCEPT ![w].todo = @ \ {ab}]
  BY DEF Connect
<1> DEFINE r == [worker[w] EXCEPT !.todo = @ \ {ab}]
<1>2. worker' = [worker EXCEPT ![w] = r] BY <1>1 DEF TypeOK
<1>3. worker[w].at = "connect" /\ worker[w] \in Wiring BY Remembered DEF Connect
<1>4. r.at = "connect" /\ r.part = worker[w].part /\ r.slot = worker[w].slot
  BY <1>3 DEF Wiring
<1>5. r.todo = worker[w].todo \ {ab} BY <1>3 DEF Wiring
<1>6. /\ worker'[w] = r
      /\ \A v \in Workers : v # w => worker'[v] = worker[v]
  BY <1>2 DEF TypeOK
<1> QED BY <1>1, <1>4, <1>5, <1>6

\* A request that arrives needs no lock yet.
LEMMA ArriveLocks ==
  ASSUME TypeOK, LocksHeld, ClockEnds, NEW w \in Workers, Arrive(w)
  PROVE  LocksHeld' /\ ClockEnds'
<1>1. /\ worker'[w].at \in {"add", "remove", "mute", "look", "join"}
      /\ \A v \in Workers : v # w => worker'[v] = worker[v]
  BY DEF Arrive, BeginAdd, BeginRemove, BeginMute, BeginLook, BeginStop, TypeOK
<1>2. UNCHANGED <<parts_mutex, conf_mutex, clock, pool>>
  BY DEF Arrive, BeginAdd, BeginRemove, BeginMute, BeginLook, BeginStop, locks, life
<1> QED BY <1>1, <1>2 DEF LocksHeld, ClockEnds, Inside

\* Waiting for conf_mutex_ and getting it.
LEMMA WaitLocks ==
  ASSUME TypeOK, LocksHeld, ClockEnds, NEW w \in Workers, WaitConf(w)
  PROVE  LocksHeld' /\ ClockEnds'
<1>1. \/ worker[w].at = "bridge" /\ worker'[w].at = "port"
      \/ worker[w].at = "detach" /\ worker'[w].at = "unplug"
      \/ worker[w].at = "hold" /\ worker'[w].at = "adjust"
  BY ContinueMoves DEF WaitConf, BridgeLock, DetachLock, HoldLock
<1>2. \A v \in Workers : v # w => worker'[v] = worker[v]
  BY ContinueMoves DEF WaitConf, BridgeLock, DetachLock, HoldLock
<1>3. /\ conf_mutex = Free /\ conf_mutex' = Lock(conf_mutex, w)
      /\ UNCHANGED <<parts_mutex, clock, pool>>
  BY DEF WaitConf, BridgeLock, DetachLock, HoldLock, CanLock, life
<1>4. conf_mutex'.exclusive = {w} /\ conf_mutex.exclusive = {} /\ conf_mutex.shared = {}
  BY <1>3 DEF Free, Lock
<1>5. clock # "mix" BY <1>4 DEF LocksHeld
<1> QED BY <1>1, <1>2, <1>3, <1>4, <1>5 DEF LocksHeld, ClockEnds, Inside

\* What the other handlers need of a lock stays when w lets go of it.
LEMMA OthersKeep ==
  ASSUME TypeOK, LocksHeld, NEW w \in Workers, NEW v \in Workers, v # w
  PROVE  /\ worker[v].at \in Inside => Unlock(parts_mutex, w).exclusive = {v}
         /\ worker[v].at \in {"hold", "adjust"} => v \in Unlock(parts_mutex, w).shared
         /\ worker[v].at \in {"port", "unplug", "adjust"} =>
              Unlock(conf_mutex, w).exclusive = {v}
         /\ clock = "mix" => Clock \in Unlock(conf_mutex, w).shared
BY DEF LocksHeld, Unlock

LEMMA ClockKeeps ==
  ASSUME LocksHeld, NEW w \in Workers
  PROVE  clock = "mix" => Clock \in Unlock(conf_mutex, w).shared
BY DEF LocksHeld, Unlock

\* The steps of add_*.
LEMMA AddLocks ==
  ASSUME TypeOK, LocksHeld, ClockEnds, NEW w \in Workers,
         \/ AddLock(w) \/ StartFails(w) \/ Starts(w) \/ StartCrashes(w)
         \/ AddPort(w) \/ Connect(w) \/ Register(w)
  PROVE  LocksHeld' /\ ClockEnds'
<1> USE DEF locks, media, life
<1>1. CASE AddLock(w)
  <2>1. CASE Reply(w) /\ UNCHANGED parts_mutex
    BY <1>1, <2>1, ReplyMoves DEF AddLock, LocksHeld, ClockEnds, Inside
  <2>2. CASE Continue(w, "start") /\ parts_mutex' = Lock(parts_mutex, w)
    <3>1. /\ worker'[w].at = "start"
          /\ \A v \in Workers : v # w => worker'[v] = worker[v]
      BY <1>1, <2>2, ContinueMoves DEF AddLock
    <3>2. /\ parts_mutex'.exclusive = {w}
          /\ parts_mutex.exclusive = {} /\ parts_mutex.shared = {}
      BY <1>1, <2>2 DEF AddLock, CanLock, Free, Lock
    <3> QED BY <1>1, <3>1, <3>2 DEF AddLock, LocksHeld, ClockEnds, Inside
  <2> QED BY <1>1, <2>1, <2>2 DEF AddLock
<1>2. CASE StartFails(w)
  BY <1>2, ReplyMoves, OthersKeep DEF StartFails, LocksHeld, ClockEnds, Inside
<1>3. CASE Starts(w)
  <2>1. /\ worker'[w].at = "bridge"
        /\ \A v \in Workers : v # w => worker'[v] = worker[v]
    BY <1>3, ContinueMoves DEF Starts
  <2> QED BY <1>3, <2>1 DEF Starts, LocksHeld, ClockEnds, Inside
<1>4. CASE StartCrashes(w)
  <2>1. \A v \in Workers : worker'[v].at = "dead" BY <1>4 DEF StartCrashes, Dead
  <2> QED BY <1>4, <2>1 DEF StartCrashes, LocksHeld, ClockEnds, Inside
<1>5. CASE AddPort(w)
  <2>1. CASE UNCHANGED parts_mutex /\ worker'[w].at = "connect"
             /\ \A v \in Workers : v # w => worker'[v] = worker[v]
    BY <1>5, <2>1, OthersKeep, ClockKeeps DEF AddPort, LocksHeld, ClockEnds, Inside
  <2>2. CASE parts_mutex' = Unlock(parts_mutex, w) /\ Reply(w)
    BY <1>5, <2>2, ReplyMoves, OthersKeep, ClockKeeps
    DEF AddPort, LocksHeld, ClockEnds, Inside
  <2> QED BY <1>5, <2>1, <2>2, AddPortMoves
<1>6. CASE Connect(w)
  <2>1. /\ worker'[w].at = "connect"
        /\ \A v \in Workers : v # w => worker'[v] = worker[v]
    BY <1>6, ConnectMoves
  <2>2. worker[w].at = "connect" /\ UNCHANGED <<parts_mutex, conf_mutex, clock, pool>>
    BY <1>6 DEF Connect
  <2> QED BY <2>1, <2>2 DEF LocksHeld, ClockEnds, Inside
<1>7. CASE Register(w)
  BY <1>7, ReplyMoves, OthersKeep DEF Register, LocksHeld, ClockEnds, Inside
<1> QED BY <1>1, <1>2, <1>3, <1>4, <1>5, <1>6, <1>7

\* The steps of remove_participant, set_participant_mute and the lookups.
LEMMA OtherLocks ==
  ASSUME TypeOK, LocksHeld, ClockEnds, NEW w \in Workers,
         \/ RemoveLock(w) \/ Unplug(w) \/ StopPart(w)
         \/ MuteShare(w) \/ Adjust(w) \/ Look(w)
  PROVE  LocksHeld' /\ ClockEnds'
<1> USE DEF locks, media, life
<1>1. CASE RemoveLock(w)
  <2>1. CASE table[worker[w].part] = NoSlot
    BY <1>1, <2>1, ReplyMoves DEF RemoveLock, LocksHeld, ClockEnds, Inside
  <2>2. CASE table[worker[w].part] # NoSlot
    <3>1. /\ worker'[w].at = "detach"
          /\ \A v \in Workers : v # w => worker'[v] = worker[v]
      BY <1>1, <2>2, Remembered DEF RemoveLock, Removing, TypeOK
    <3>2. /\ parts_mutex'.exclusive = {w}
          /\ parts_mutex.exclusive = {} /\ parts_mutex.shared = {}
      BY <1>1, <2>2 DEF RemoveLock, CanLock, Free, Lock
    <3> QED BY <1>1, <3>1, <3>2 DEF RemoveLock, LocksHeld, ClockEnds, Inside
  <2> QED BY <2>1, <2>2
<1>2. CASE Unplug(w)
  <2>1. /\ worker'[w].at = "stop"
        /\ \A v \in Workers : v # w => worker'[v] = worker[v]
    BY <1>2, ContinueMoves DEF Unplug
  <2> QED BY <1>2, <2>1, OthersKeep, ClockKeeps DEF Unplug, LocksHeld, ClockEnds, Inside
<1>3. CASE StopPart(w) \/ Look(w)
  BY <1>3, ReplyMoves DEF StopPart, Look, LocksHeld, ClockEnds, Inside
<1>4. CASE MuteShare(w)
  <2>1. CASE table[worker[w].part] = NoSlot
    BY <1>4, <2>1, ReplyMoves DEF MuteShare, LocksHeld, ClockEnds, Inside
  <2>2. CASE table[worker[w].part] # NoSlot
    <3>1. /\ worker'[w].at = "hold"
          /\ \A v \in Workers : v # w => worker'[v] = worker[v]
      BY <1>4, <2>2, Remembered DEF MuteShare, Muting, TypeOK
    <3>2. /\ parts_mutex'.shared = parts_mutex.shared \cup {w}
          /\ parts_mutex.exclusive = {}
      BY <1>4, <2>2 DEF MuteShare, CanShare, Share, TypeOK
    <3> QED BY <1>4, <3>1, <3>2 DEF MuteShare, LocksHeld, ClockEnds, Inside
  <2> QED BY <2>1, <2>2
<1>5. CASE Adjust(w)
  BY <1>5, ReplyMoves, OthersKeep, ClockKeeps DEF Adjust, LocksHeld, ClockEnds, Inside
<1> QED BY <1>1, <1>2, <1>3, <1>4, <1>5

\* The steps of stop(), and of the clock thread.
LEMMA StopLocks ==
  ASSUME TypeOK, LocksHeld, ClockEnds, NEW w \in Workers,
         Join(w) \/ CloseLock(w) \/ RemoveEach(w) \/ Finish(w)
  PROVE  LocksHeld' /\ ClockEnds'
<1> USE DEF locks, media, life
<1>1. CASE Join(w)
  <2>1. /\ worker'[w].at = "close"
        /\ \A v \in Workers : v # w => worker'[v] = worker[v]
    BY <1>1, ContinueMoves DEF Join
  <2> QED BY <1>1, <2>1 DEF Join, LocksHeld, ClockEnds, Inside
<1>2. CASE CloseLock(w)
  <2>1. /\ worker'[w].at = "empty"
        /\ \A v \in Workers : v # w => worker'[v] = worker[v]
    BY <1>2, ContinueMoves DEF CloseLock
  <2>2. /\ parts_mutex'.exclusive = {w}
        /\ parts_mutex.exclusive = {} /\ parts_mutex.shared = {}
    BY <1>2 DEF CloseLock, CanLock, Free, Lock
  <2> QED BY <1>2, <2>1, <2>2 DEF CloseLock, LocksHeld, ClockEnds, Inside
<1>3. CASE RemoveEach(w)
  BY <1>3 DEF RemoveEach, LocksHeld, ClockEnds
<1>4. CASE Finish(w)
  BY <1>4, ReplyMoves, OthersKeep DEF Finish, LocksHeld, ClockEnds, Inside
<1> QED BY <1>1, <1>2, <1>3, <1>4

LEMMA ClockLocks ==
  ASSUME TypeOK, LocksHeld, ClockEnds, Tick \/ TickShare \/ TickEnd
  PROVE  LocksHeld' /\ ClockEnds'
<1> USE DEF locks, media, life
<1>1. CASE Tick BY <1>1 DEF Tick, LocksHeld, ClockEnds
<1>2. CASE TickShare
  BY <1>2 DEF TickShare, LocksHeld, ClockEnds, CanShare, Share, TypeOK
<1>3. CASE TickEnd
  <2>1. Unlock(conf_mutex, Clock).exclusive = conf_mutex.exclusive \ {Clock} BY DEF Unlock
  <2> QED BY <1>3, <2>1 DEF TickEnd, LocksHeld, ClockEnds
<1> QED BY <1>1, <1>2, <1>3

LEMMA StepLocks == TypeOK /\ LocksHeld /\ ClockEnds /\ [Next]_vars => LocksHeld' /\ ClockEnds'
<1> SUFFICES ASSUME TypeOK, LocksHeld, ClockEnds, [Next]_vars
             PROVE  LocksHeld' /\ ClockEnds'
  OBVIOUS
<1>1. CASE UNCHANGED vars
  BY <1>1 DEF vars, locks, life, LocksHeld, ClockEnds
<1>2. ASSUME NEW w \in Workers, Serve(w) PROVE LocksHeld' /\ ClockEnds'
  BY <1>2, AddLocks, OtherLocks, StopLocks DEF Serve
<1> QED BY <1>1, <1>2, ArriveLocks, WaitLocks, ClockLocks DEF Next, Gone

LEMMA InitLocks == Init => LocksHeld /\ ClockEnds
BY DEF Init, Idle, LocksHeld, ClockEnds, Inside

-----------------------------------------------------------------------------
(* The bridge stands still while the clock mixes.                          *)

\* Every step that changes the bridge or a level holds conf_mutex_ alone, or
\* belongs to stop(), which has ended the clock.
LEMMA StepStill ==
  ASSUME TypeOK, LocksHeld, ClockEnds, Next, clock = "mix"
  PROVE  UNCHANGED <<bridge, muted>>
<1> USE DEF locks, media, life
<1>0. conf_mutex.exclusive = {}
  BY DEF LocksHeld, TypeOK
<1>1. ASSUME NEW w \in Workers PROVE worker[w].at \notin {"port", "unplug", "adjust", "empty"}
  BY <1>0, <1>1 DEF LocksHeld, ClockEnds
<1>2. ASSUME NEW w \in Workers, Arrive(w) PROVE UNCHANGED <<bridge, muted>>
  BY <1>2 DEF Arrive, BeginAdd, BeginRemove, BeginMute, BeginLook, BeginStop
<1>3. ASSUME NEW w \in Workers, WaitConf(w) PROVE UNCHANGED <<bridge, muted>>
  BY <1>3 DEF WaitConf, BridgeLock, DetachLock, HoldLock
<1>4. ASSUME NEW w \in Workers, Serve(w) PROVE UNCHANGED <<bridge, muted>>
  <2>1. CASE AddLock(w) \/ StartFails(w) \/ Starts(w) \/ StartCrashes(w) \/ Connect(w) \/ Register(w)
    BY <2>1 DEF AddLock, StartFails, Starts, StartCrashes, Connect, Register
  <2>2. CASE RemoveLock(w) \/ StopPart(w) \/ MuteShare(w) \/ Look(w) \/ Join(w) \/ CloseLock(w)
    BY <2>2 DEF RemoveLock, StopPart, MuteShare, Look, Join, CloseLock
  <2>3. CASE AddPort(w) \/ Unplug(w) \/ Adjust(w) \/ RemoveEach(w) \/ Finish(w)
    BY <1>1, <2>3 DEF AddPort, Unplug, Adjust, RemoveEach, Finish
  <2> QED BY <1>4, <2>1, <2>2, <2>3 DEF Serve
<1>5. CASE Tick \/ TickShare \/ TickEnd
  BY <1>5 DEF Tick, TickShare, TickEnd
<1> QED BY <1>2, <1>3, <1>4, <1>5 DEF Next, Gone, vars

\* "The clock callback holds a shared lock during each put_frame tick"
\* (meeting.h): no port comes or goes and no level changes while it mixes.
THEOREM BridgeStandsStill == Spec => StillDuringTick
<1> DEFINE I == TypeOK /\ LocksHeld /\ ClockEnds
           Still == clock = "mix" => UNCHANGED <<bridge, muted>>
<1>1. Init => I BY InitTypes, InitLocks
<1>2. I /\ [Next]_vars => I' BY StepTypes, StepLocks
<1>3. I /\ [Next]_vars => [Still]_vars BY StepStill DEF vars, media
<1> QED BY <1>1, <1>2, <1>3, PTL DEF Spec, StillDuringTick

-----------------------------------------------------------------------------
(* Mutes.                                                                  *)

\* What a step makes of a handler is its own doing, or the end of the process.
LEMMA OwnSteps ==
  ASSUME TypeOK, Next, NEW v \in Workers, worker'[v] # worker[v]
  PROVE  Arrive(v) \/ WaitConf(v) \/ Serve(v) \/ worker'[v] = Dead
<1>1. CASE Tick \/ TickShare \/ TickEnd \/ Gone
  BY <1>1 DEF Tick, TickShare, TickEnd, Gone, vars
<1>2. ASSUME NEW w \in Workers, Arrive(w) \/ WaitConf(w) \/ Serve(w), w # v
      PROVE  worker'[v] = Dead
  <2>1. CASE Arrive(w)
    BY <1>2, <2>1
    DEF Arrive, BeginAdd, BeginRemove, BeginMute, BeginLook, BeginStop, TypeOK
  <2>2. CASE WaitConf(w)
    BY <1>2, <2>2 DEF WaitConf, BridgeLock, DetachLock, HoldLock, Continue, TypeOK
  <2>3. CASE Serve(w)
    <3>1. CASE AddLock(w) \/ StartFails(w) \/ Starts(w) \/ Register(w) \/ Connect(w) \/ AddPort(w)
      BY <1>2, <3>1
      DEF AddLock, StartFails, Starts, Register, Connect, AddPort, Continue, Reply, TypeOK
    <3>2. CASE StartCrashes(w) BY <3>2 DEF StartCrashes
    <3>3. CASE RemoveLock(w) \/ Unplug(w) \/ StopPart(w) \/ MuteShare(w) \/ Adjust(w) \/ Look(w)
      BY <1>2, <3>3
      DEF RemoveLock, Unplug, StopPart, MuteShare, Adjust, Look, Continue, Reply, TypeOK
    <3>4. CASE Join(w) \/ CloseLock(w) \/ RemoveEach(w) \/ Finish(w)
      BY <1>2, <3>4
      DEF Join, CloseLock, RemoveEach, Finish, Continue, Reply, life, TypeOK
    <3> QED BY <2>3, <3>1, <3>2, <3>3, <3>4 DEF Serve
  <2> QED BY <1>2, <2>1, <2>2, <2>3
<1> QED BY <1>1, <1>2 DEF Next

\* Nobody changes the table while a handler holds it shared.
LEMMA StepMute ==
  TypeOK /\ LocksHeld /\ MuteHitsNamed /\ [Next]_vars => MuteHitsNamed'
<1> SUFFICES ASSUME TypeOK, LocksHeld, MuteHitsNamed, [Next]_vars,
                    NEW v \in Workers, worker'[v].at \in {"hold", "adjust"}
             PROVE  (table[worker[v].part] = worker[v].slot)'
  BY DEF MuteHitsNamed
<1> USE DEF locks, media, life
<1>1. CASE UNCHANGED vars BY <1>1 DEF vars, MuteHitsNamed
<1>2. CASE worker'[v] = worker[v]
  <2>1. parts_mutex.exclusive = {} BY <1>2 DEF LocksHeld, TypeOK
  <2>2. \A w \in Workers : worker[w].at \notin Inside BY <2>1 DEF LocksHeld
  <2>3. worker[v].part \in Parts BY <1>2, Remembered DEF Holding
  <2>4. Next => table' = table \/ \E u \in Workers : RemoveLock(u)
    BY <2>2
    DEF Next, Gone, vars, Arrive, BeginAdd, BeginRemove, BeginMute, BeginLook, BeginStop, Inside,
        WaitConf, BridgeLock, DetachLock, HoldLock, Serve, AddLock, StartFails, Starts,
        StartCrashes, AddPort, Connect, Register, StopPart, Unplug, MuteShare, Adjust, Look,
        Join, CloseLock, RemoveEach, Finish, Tick, TickShare, TickEnd
  <2>5. ASSUME NEW u \in Workers, RemoveLock(u) PROVE table' = table
    <3>1. parts_mutex.shared # {} BY <1>2 DEF LocksHeld
    <3> QED BY <2>5, <3>1 DEF RemoveLock, CanLock, Free
  <2> QED BY <1>1, <1>2, <2>4, <2>5 DEF MuteHitsNamed
<1>3. CASE worker'[v] # worker[v]
  <2>1. CASE MuteShare(v)
    <3> DEFINE r == [worker[v] EXCEPT !.at = "hold", !.slot = table[worker[v].part]]
    <3>1. worker[v] \in Muting BY <2>1, Remembered DEF MuteShare
    <3>2. table' = table /\ worker' = [worker EXCEPT ![v] = r]
      BY <2>1, ReplyMoves DEF MuteShare, TypeOK
    <3>3. worker'[v] = r BY <3>2 DEF TypeOK
    <3>4. r.part = worker[v].part /\ r.slot = table[worker[v].part] BY <3>1 DEF Muting
    <3> QED BY <3>2, <3>3, <3>4
  <2>2. CASE HoldLock(v)
    BY <2>2, ContinueMoves DEF HoldLock, MuteHitsNamed
  <2>3. CASE WaitConf(v) /\ ~HoldLock(v)
    BY <2>3, ContinueMoves DEF WaitConf, BridgeLock, DetachLock
  <2>4. CASE Serve(v) /\ ~MuteShare(v)
    <3>1. CASE AddLock(v) \/ StartFails(v) \/ Starts(v) \/ Register(v)
      BY <3>1, ContinueMoves, ReplyMoves DEF AddLock, StartFails, Starts, Register
    <3>2. CASE StartCrashes(v) BY <3>2 DEF StartCrashes, Dead
    <3>3. CASE AddPort(v) BY <3>3, AddPortMoves, ReplyMoves
    <3>7. CASE Connect(v) BY <3>7, ConnectMoves
    <3>4. CASE RemoveLock(v)
      BY <3>4, Remembered, ReplyMoves DEF RemoveLock, Removing, TypeOK
    <3>5. CASE Unplug(v) \/ StopPart(v) \/ Adjust(v) \/ Look(v)
      BY <3>5, ContinueMoves, ReplyMoves DEF Unplug, StopPart, Adjust, Look
    <3>6. CASE Join(v) \/ CloseLock(v) \/ RemoveEach(v) \/ Finish(v)
      BY <1>3, <3>6, ContinueMoves, ReplyMoves DEF Join, CloseLock, RemoveEach, Finish
    <3> QED BY <2>4, <3>1, <3>2, <3>3, <3>4, <3>5, <3>6, <3>7 DEF Serve
  <2>5. CASE Arrive(v)
    BY <2>5 DEF Arrive, BeginAdd, BeginRemove, BeginMute, BeginLook, BeginStop, TypeOK
  <2>6. CASE worker'[v] = Dead BY <2>6 DEF Dead
  <2> QED BY <1>1, <1>3, <2>1, <2>2, <2>3, <2>4, <2>5, <2>6, OwnSteps DEF WaitConf
<1> QED BY <1>2, <1>3

LEMMA InitMute == Init => MuteHitsNamed
<1> SUFFICES ASSUME Init PROVE MuteHitsNamed OBVIOUS
<1>1. \A w \in Workers : worker[w].at = "idle" BY DEF Init, Idle
<1> QED BY <1>1 DEF MuteHitsNamed

\* A mute acts on the slot that the participant it names has at that time.
THEOREM MutesHitNamed == Spec => []MuteHitsNamed
<1> DEFINE I == TypeOK /\ LocksHeld /\ ClockEnds /\ MuteHitsNamed
<1>1. Init => I BY InitTypes, InitLocks, InitMute
<1>2. I /\ [Next]_vars => I' BY StepTypes, StepLocks, StepMute
<1> QED BY <1>1, <1>2, PTL DEF Spec
-----------------------------------------------------------------------------
(* The table, the bridge and its connections.                              *)

\* The steps at which a handler has a participant that is in the bridge and
\* not, or no longer, in the table; and those at which it has one to enter.
Between  == {"connect", "detach", "unplug"}
Entering == {"start", "bridge", "port"}

\* A participant on its way in or out is not in the table.
Unentered ==
  \A w \in Workers : worker[w].at \in Entering \cup Between => table[worker[w].part] = NoSlot

\* It is in the slot its handler remembers.
InSlot ==
  \A w \in Workers : worker[w].at \in Between => bridge[worker[w].slot] = worker[w].part

\* Whoever is in the bridge is in the table, or on its way in or out.
Attached == \A s \in Occupied : Alive(bridge[s], s)

\* Whoever is in the table is in the bridge, unless stop() is at work.
TableFits ==
  \A q \in Registered :
    \/ bridge[table[q]] = q
    \/ bridge[table[q]] = Nobody /\ \E w \in Workers : worker[w].at = "empty"

\* The pairs of different slots in use.
Mesh == {ab \in Occupied \X Occupied : ab[1] # ab[2]}

\* Connections are between slots in use, those still to be made too.
WiresFit ==
  /\ wires \subseteq Mesh
  /\ \A w \in Workers : worker[w].at = "connect" => worker[w].todo \subseteq Mesh

\* Everyone in the bridge is connected to every other, or is going to be.
AllWired ==
  \A ab \in Mesh :
    ab \in wires \/ \E w \in Workers : worker[w].at = "connect" /\ ab \in worker[w].todo

BridgeInv == Unentered /\ InSlot /\ Attached /\ TableFits /\ WiresFit /\ AllWired
\* Who is inside is there alone, and nobody is while the lock can be taken.
LEMMA Alone ==
  ASSUME LocksHeld, NEW w \in Workers, NEW v \in Workers,
         worker[w].at \in Inside, worker[v].at \in Inside
  PROVE  v = w
BY DEF LocksHeld

LEMMA NobodyInside ==
  ASSUME LocksHeld, parts_mutex.exclusive = {}, NEW v \in Workers
  PROVE  worker[v].at \notin Inside
BY DEF LocksHeld

\* A step after which a handler has nothing in the bridge, as before, or the
\* same participant in the same slot.
Unmoved(v) ==
  \/ worker'[v] = worker[v]
  \/ /\ worker[v].at \notin Between \cup {"empty"} /\ worker'[v].at \notin Between
     /\ worker'[v].at \in Entering => table[worker'[v].part] = NoSlot
  \/ /\ worker[v].at = "detach" /\ worker'[v].at = "unplug"
     /\ worker'[v].part = worker[v].part /\ worker'[v].slot = worker[v].slot

LEMMA QuietStep ==
  ASSUME BridgeInv, UNCHANGED <<table, bridge, wires>>, \A v \in Workers : Unmoved(v)
  PROVE  BridgeInv'
<1> USE DEF BridgeInv
<1>0. UNCHANGED <<Registered, Occupied, Mesh>> BY DEF Registered, Occupied, Mesh
<1>1. Unentered' BY DEF Unentered, Unmoved, Entering, Between
<1>2. InSlot' BY DEF InSlot, Unmoved, Between
<1>3. Attached'
  <2> SUFFICES ASSUME NEW s \in Occupied PROVE Alive(bridge[s], s)'
    BY <1>0 DEF Attached
  <2>1. Alive(bridge[s], s) BY DEF Attached
  <2>2. CASE table[bridge[s]] = s BY <2>2 DEF Alive
  <2>3. ASSUME NEW w \in Workers, worker[w].at \in Between,
               worker[w].part = bridge[s], worker[w].slot = s
        PROVE  Alive(bridge[s], s)'
    <3>1. /\ worker'[w].at \in Between
          /\ worker'[w].part = bridge[s] /\ worker'[w].slot = s
      BY <2>3 DEF Unmoved, Between
    <3> QED BY <3>1 DEF Alive, Between
  <2> QED BY <2>1, <2>2, <2>3 DEF Alive, Between
<1>4. TableFits' BY <1>0 DEF TableFits, Unmoved
<1>5. WiresFit' BY <1>0 DEF WiresFit, Unmoved, Between
<1>6. AllWired' BY <1>0 DEF AllWired, Unmoved, Between
<1> QED BY <1>1, <1>2, <1>3, <1>4, <1>5, <1>6

\* Arrivals, the waits for conf_mutex_ and the clock.
LEMMA QuietArrivals ==
  ASSUME TypeOK, BridgeInv, NEW w \in Workers, Arrive(w)
  PROVE  BridgeInv'
<1> USE DEF locks, media, life
<1>1. /\ worker[w].at = "idle"
      /\ worker'[w].at \in {"add", "remove", "mute", "look", "join"}
      /\ \A v \in Workers : v # w => worker'[v] = worker[v]
  BY DEF Arrive, BeginAdd, BeginRemove, BeginMute, BeginLook, BeginStop, TypeOK
<1>2. UNCHANGED <<table, bridge, wires>>
  BY DEF Arrive, BeginAdd, BeginRemove, BeginMute, BeginLook, BeginStop
<1>3. \A v \in Workers : Unmoved(v) BY <1>1 DEF Unmoved, Between, Entering
<1> QED BY <1>2, <1>3, QuietStep

LEMMA QuietWaits ==
  ASSUME TypeOK, BridgeInv, NEW w \in Workers, WaitConf(w)
  PROVE  BridgeInv'
<1> USE DEF locks, media, life
<1>1. \A v \in Workers : v # w => worker'[v] = worker[v]
  BY ContinueMoves DEF WaitConf, BridgeLock, DetachLock, HoldLock
<1>2. UNCHANGED <<table, bridge, wires>>
  BY DEF WaitConf, BridgeLock, DetachLock, HoldLock
<1>3. Unmoved(w)
  <2>1. CASE BridgeLock(w)
    <3>1. /\ worker[w].at = "bridge" /\ worker'[w].at = "port"
          /\ worker'[w].part = worker[w].part
      BY <2>1, ContinueMoves DEF BridgeLock
    <3>2. table[worker[w].part] = NoSlot BY <3>1 DEF BridgeInv, Unentered, Entering
    <3> QED BY <3>1, <3>2 DEF Unmoved, Between
  <2>2. CASE DetachLock(w) BY <2>2, ContinueMoves DEF DetachLock, Unmoved
  <2>3. CASE HoldLock(w)
    BY <2>3, ContinueMoves DEF HoldLock, Unmoved, Between, Entering
  <2> QED BY <2>1, <2>2, <2>3 DEF WaitConf
<1>4. \A v \in Workers : Unmoved(v) BY <1>1, <1>3 DEF Unmoved
<1> QED BY <1>2, <1>4, QuietStep

\* The steps of a handler that leave the table, the slots and the connections
\* as they are.
LEMMA QuietAdds ==
  ASSUME TypeOK, LocksHeld, BridgeInv, NEW w \in Workers,
         \/ AddLock(w) \/ StartFails(w) \/ Starts(w) \/ StartCrashes(w)
         \/ AddPort(w) /\ Reply(w) /\ UNCHANGED bridge
  PROVE  BridgeInv'
<1> USE DEF locks, media, life
<1>1. UNCHANGED <<table, bridge, wires>>
  BY DEF AddLock, StartFails, Starts, StartCrashes, AddPort
<1>2. \A v \in Workers : Unmoved(v)
  <2>1. CASE AddLock(w)
    <3>1. CASE Reply(w)
      BY <2>1, <3>1, ReplyMoves DEF AddLock, Unmoved, Between, Entering
    <3>2. CASE Continue(w, "start") /\ table[worker[w].part] = NoSlot
      <4>1. /\ worker[w].at = "add" /\ worker'[w].at = "start"
            /\ worker'[w].part = worker[w].part
            /\ \A v \in Workers : v # w => worker'[v] = worker[v]
        BY <2>1, <3>2, ContinueMoves DEF AddLock
      <4> QED BY <3>2, <4>1 DEF Unmoved, Between
    <3> QED BY <2>1, <3>1, <3>2 DEF AddLock
  <2>2. CASE Starts(w)
    <3>1. /\ worker[w].at = "start" /\ worker'[w].at = "bridge"
          /\ worker'[w].part = worker[w].part
          /\ \A v \in Workers : v # w => worker'[v] = worker[v]
      BY <2>2, ContinueMoves DEF Starts
    <3>2. table[worker[w].part] = NoSlot BY <3>1 DEF BridgeInv, Unentered, Entering
    <3> QED BY <3>1, <3>2 DEF Unmoved, Between
  <2>3. CASE StartCrashes(w)
    <3>1. \A v \in Workers : v # w => worker[v].at \notin Inside
      BY <2>3, Alone DEF StartCrashes, Inside
    <3>2. worker[w].at = "start" /\ \A v \in Workers : worker'[v].at = "dead"
      BY <2>3 DEF StartCrashes, Dead
    <3> QED BY <3>1, <3>2 DEF Unmoved, Between, Entering, Inside
  <2>4. CASE StartFails(w)
    BY <2>4, ReplyMoves DEF StartFails, Unmoved, Between, Entering
  <2>5. CASE AddPort(w) /\ Reply(w)
    BY <2>5, ReplyMoves DEF AddPort, Unmoved, Between, Entering
  <2> QED BY <2>1, <2>2, <2>3, <2>4, <2>5
<1> QED BY <1>1, <1>2, QuietStep

LEMMA QuietOthers ==
  ASSUME TypeOK, BridgeInv, NEW w \in Workers,
         \/ RemoveLock(w) /\ table[worker[w].part] = NoSlot
         \/ StopPart(w) \/ MuteShare(w) \/ Adjust(w) \/ Look(w) \/ Join(w) \/ CloseLock(w)
  PROVE  BridgeInv'
<1> USE DEF locks, media, life
<1>1. UNCHANGED <<table, bridge, wires>>
  BY DEF RemoveLock, StopPart, MuteShare, Adjust, Look, Join, CloseLock
<1>2. /\ worker[w].at \in {"remove", "stop", "mute", "adjust", "look", "join", "close"}
      /\ worker'[w].at \in {"idle", "hold", "close", "empty"}
      /\ \A v \in Workers : v # w => worker'[v] = worker[v]
  <2>1. CASE RemoveLock(w) /\ table[worker[w].part] = NoSlot
    BY <2>1, ReplyMoves DEF RemoveLock
  <2>2. CASE StopPart(w) \/ Adjust(w) \/ Look(w)
    BY <2>2, ReplyMoves DEF StopPart, Adjust, Look
  <2>3. CASE MuteShare(w)
    BY <2>3, Remembered, ReplyMoves DEF MuteShare, Muting, TypeOK
  <2>4. CASE Join(w) \/ CloseLock(w)
    BY <2>4, ContinueMoves DEF Join, CloseLock
  <2> QED BY <2>1, <2>2, <2>3, <2>4
<1>3. \A v \in Workers : Unmoved(v) BY <1>2 DEF Unmoved, Between, Entering
<1> QED BY <1>1, <1>3, QuietStep

\* A handler that is inside alone: the table and the bridge agree, but for
\* what that handler has in hand.
LEMMA AgreeInside ==
  ASSUME TypeOK, LocksHeld, BridgeInv, NEW w \in Workers, worker[w].at \in Inside
  PROVE  /\ \A v \in Workers : v # w => worker[v].at \notin Inside
         /\ worker[w].at # "empty" => \A q \in Registered : bridge[table[q]] = q
         /\ worker[w].at \notin Between =>
              \A s \in Occupied : table[bridge[s]] = s /\ bridge[s] \in Registered
<1>1. \A v \in Workers : v # w => worker[v].at \notin Inside BY Alone
<1>2. worker[w].at # "empty" => \A v \in Workers : worker[v].at # "empty"
  BY <1>1 DEF Inside
<1>3. worker[w].at # "empty" => \A q \in Registered : bridge[table[q]] = q
  BY <1>2 DEF BridgeInv, TableFits
<1>4. worker[w].at \notin Between => \A v \in Workers : worker[v].at \notin Between
  BY <1>1 DEF Inside, Between
<1>5. ASSUME worker[w].at \notin Between, NEW s \in Occupied
      PROVE  table[bridge[s]] = s /\ bridge[s] \in Registered
  <2>1. table[bridge[s]] = s
    BY <1>4, <1>5 DEF BridgeInv, Attached, Alive, Between
  <2> QED BY <2>1 DEF Occupied, Registered, Slots, NoSlot, TypeOK
<1> QED BY <1>1, <1>3, <1>5

\* The port of a new participant is in the bridge.
LEMMA BridgeAddPort ==
  ASSUME TypeOK, LocksHeld, BridgeInv, NEW w \in Workers, AddPort(w)
  PROVE  BridgeInv'
<1> USE DEF locks, media, life
<1>1. CASE Reply(w) /\ UNCHANGED bridge BY <1>1, QuietAdds
<1>2. CASE ~(Reply(w) /\ UNCHANGED bridge)
  <2> DEFINE p == worker[w].part
  <2>1. PICK s \in LowestFree :
          /\ bridge' = [bridge EXCEPT ![s] = p]
          /\ worker'[w].at = "connect" /\ worker'[w].part = p
          /\ worker'[w].slot = s /\ worker'[w].todo = BothWays(s)
          /\ \A v \in Workers : v # w => worker'[v] = worker[v]
    BY <1>2, AddPortMoves
  <2>2. worker[w].at = "port" /\ table' = table /\ wires' = wires BY DEF AddPort
  <2>3. p \in Parts /\ table[p] = NoSlot
    BY <2>2, Remembered DEF Adding, BridgeInv, Unentered, Entering
  <2>4. /\ s \in Slots /\ s \notin Occupied
        /\ bridge'[s] = p /\ \A t \in Slots : t # s => bridge'[t] = bridge[t]
    BY <2>1 DEF LowestFree, TypeOK
  <2>5. Occupied' = Occupied \cup {s} BY <2>3, <2>4 DEF Occupied
  <2>6. /\ \A v \in Workers : v # w => worker[v].at \notin Inside
        /\ \A q \in Registered : bridge[table[q]] = q
        /\ \A t \in Occupied : table[bridge[t]] = t /\ bridge[t] \in Registered
    BY <2>2, AgreeInside DEF Inside, Between
  <2>7. \A q \in Registered : table[q] \in Occupied
    BY <2>6 DEF Registered, Occupied, NoSlot, TypeOK
  <2>8. Registered' = Registered BY <2>2 DEF Registered
  <2>9. \A v \in Workers : v # w => worker'[v].at \notin Inside BY <2>1, <2>6
  <2>10. Unentered' BY <2>1, <2>2, <2>3, <2>9 DEF Unentered, Entering, Between, Inside
  <2>11. InSlot' BY <2>1, <2>4, <2>9 DEF InSlot, Between, Inside
  <2>12. Attached'
    <3>1. Alive(bridge[s], s)' BY <2>1, <2>4 DEF Alive
    <3>2. ASSUME NEW t \in Occupied PROVE Alive(bridge[t], t)'
      <4>1. t \in Slots /\ t # s BY <2>4 DEF Occupied
      <4> QED BY <2>2, <2>4, <2>6, <4>1 DEF Alive
    <3> QED BY <2>5, <3>1, <3>2 DEF Attached
  <2>13. TableFits' BY <2>2, <2>4, <2>6, <2>7, <2>8 DEF TableFits, Occupied
  <2>14. Mesh \subseteq Mesh' BY <2>5 DEF Mesh
  <2>15. \A ab \in BothWays(s) : ab \in Mesh'
    BY <2>4, <2>5, <2>7 DEF BothWays, Mesh
  <2>16. WiresFit'
    BY <2>1, <2>2, <2>9, <2>14, <2>15 DEF WiresFit, BridgeInv, Inside
  <2>17. AllWired'
    <3> SUFFICES ASSUME NEW ab \in Mesh'
                 PROVE  ab \in wires' \/ (worker'[w].at = "connect" /\ ab \in worker'[w].todo)
      BY DEF AllWired
    <3>1. CASE ab \in Mesh
      BY <2>2, <2>6, <3>1 DEF AllWired, BridgeInv, Inside
    <3>2. CASE ab \notin Mesh
      <4>1. PICK t \in Occupied : ab = <<s, t>> \/ ab = <<t, s>>
        BY <2>5, <3>2 DEF Mesh
      <4>2. bridge[t] \in Registered /\ table[bridge[t]] = t BY <2>6
      <4>3. ab \in BothWays(s) BY <4>1, <4>2 DEF BothWays
      <4> QED BY <2>1, <4>3
    <3> QED BY <3>1, <3>2
  <2> QED BY <2>10, <2>11, <2>12, <2>13, <2>16, <2>17 DEF BridgeInv
<1> QED BY <1>1, <1>2

\* One more connection.
LEMMA BridgeConnect ==
  ASSUME TypeOK, LocksHeld, BridgeInv, NEW w \in Workers, Connect(w)
  PROVE  BridgeInv'
<1> USE DEF locks, media, life
<1>1. PICK ab \in worker[w].todo :
        /\ wires' = wires \cup {ab}
        /\ worker'[w].at = "connect" /\ worker'[w].part = worker[w].part
        /\ worker'[w].slot = worker[w].slot
        /\ worker'[w].todo = worker[w].todo \ {ab}
        /\ \A v \in Workers : v # w => worker'[v] = worker[v]
  BY ConnectMoves
<1>2. worker[w].at = "connect" /\ UNCHANGED table /\ UNCHANGED bridge BY DEF Connect
<1>3. UNCHANGED <<Registered, Occupied, Mesh>> BY <1>2 DEF Registered, Occupied, Mesh
<1>4. Unentered' BY <1>1, <1>2 DEF BridgeInv, Unentered, Between
<1>5. InSlot' BY <1>1, <1>2 DEF BridgeInv, InSlot, Between
<1>6. Attached'
  <2> SUFFICES ASSUME NEW s \in Occupied PROVE Alive(bridge[s], s)'
    BY <1>3 DEF Attached
  <2>1. Alive(bridge[s], s) BY DEF BridgeInv, Attached
  <2> QED BY <1>1, <1>2, <2>1 DEF Alive
<1>7. TableFits' BY <1>1, <1>2, <1>3 DEF BridgeInv, TableFits
<1>8. WiresFit' BY <1>1, <1>2, <1>3 DEF BridgeInv, WiresFit
<1>9. AllWired' BY <1>1, <1>2, <1>3 DEF BridgeInv, AllWired
<1> QED BY <1>4, <1>5, <1>6, <1>7, <1>8, <1>9 DEF BridgeInv

\* The new participant is entered in the table.
LEMMA BridgeRegister ==
  ASSUME TypeOK, LocksHeld, BridgeInv, NEW w \in Workers, Register(w)
  PROVE  BridgeInv'
<1> USE DEF locks, media, life
<1> DEFINE p == worker[w].part
           s == worker[w].slot
<1>1. /\ worker[w].at = "connect" /\ worker[w].todo = {}
      /\ table' = [table EXCEPT ![p] = s] /\ bridge' = bridge /\ wires' = wires
      /\ worker'[w].at = "idle" /\ \A v \in Workers : v # w => worker'[v] = worker[v]
  BY ReplyMoves DEF Register
<1>2. p \in Parts /\ s \in Slots /\ bridge[s] = p /\ table[p] = NoSlot
  BY <1>1, Remembered DEF Wiring, BridgeInv, InSlot, Unentered, Between
<1>3. /\ \A v \in Workers : v # w => worker[v].at \notin Inside
      /\ \A q \in Registered : bridge[table[q]] = q
  BY <1>1, AgreeInside DEF Inside
<1>4. \A v \in Workers : worker'[v].at \notin Inside BY <1>1, <1>3 DEF Inside
<1>5. table'[p] = s /\ \A q \in Parts : q # p => table'[q] = table[q] BY <1>1, <1>2 DEF TypeOK
<1>6. UNCHANGED <<Occupied, Mesh>> BY <1>1 DEF Occupied, Mesh
<1>7. Unentered' /\ InSlot' BY <1>4 DEF Unentered, InSlot, Inside, Entering, Between
<1>8. Attached'
  <2> SUFFICES ASSUME NEW t \in Occupied PROVE table'[bridge[t]] = t
    BY <1>1, <1>6 DEF Attached, Alive
  <2>1. bridge[t] \in Parts /\ t \in Slots BY DEF Occupied, TypeOK
  <2>2. Alive(bridge[t], t) BY DEF BridgeInv, Attached
  <2>3. CASE table[bridge[t]] = t
    BY <1>2, <1>5, <2>1, <2>3 DEF Slots, NoSlot
  <2>4. CASE bridge[t] = p /\ s = t BY <1>5, <2>4
  <2> QED BY <1>3, <2>2, <2>3, <2>4 DEF Alive, Inside
<1>9. TableFits' BY <1>1, <1>2, <1>3, <1>5 DEF TableFits, Registered
<1>10. WiresFit' BY <1>1, <1>4, <1>6 DEF BridgeInv, WiresFit, Inside
<1>11. AllWired' BY <1>1, <1>3, <1>6 DEF BridgeInv, AllWired, Inside
<1> QED BY <1>7, <1>8, <1>9, <1>10, <1>11 DEF BridgeInv

\* A participant is taken out of the table.
LEMMA BridgeRemoveLock ==
  ASSUME TypeOK, LocksHeld, BridgeInv, NEW w \in Workers, RemoveLock(w)
  PROVE  BridgeInv'
<1> USE DEF locks, media, life
<1> DEFINE p == worker[w].part
           s == table[p]
<1>1. CASE s = NoSlot BY <1>1, QuietOthers
<1>2. CASE s # NoSlot
  <2>1. worker[w] \in Removing BY Remembered DEF RemoveLock
  <2>2. /\ worker' = [worker EXCEPT ![w].at = "detach", ![w].slot = s]
        /\ table' = [table EXCEPT ![p] = NoSlot] /\ bridge' = bridge /\ wires' = wires
        /\ parts_mutex.exclusive = {}
    BY <1>2 DEF RemoveLock, CanLock, Free
  <2>3. /\ worker'[w].at = "detach" /\ worker'[w].part = p /\ worker'[w].slot = s
        /\ \A v \in Workers : v # w => worker'[v] = worker[v]
    BY <2>1, <2>2 DEF Removing, TypeOK
  <2>4. p \in Parts /\ p \in Registered BY <1>2, <2>1 DEF Removing, Registered
  <2>5. \A v \in Workers : worker[v].at \notin Inside BY <2>2, NobodyInside
  <2>6. \A q \in Registered : bridge[table[q]] = q
    BY <2>5 DEF BridgeInv, TableFits, Inside
  <2>7. \A t \in Occupied : table[bridge[t]] = t
    BY <2>5 DEF BridgeInv, Attached, Alive, Inside
  <2>8. table'[p] = NoSlot /\ \A q \in Parts : q # p => table'[q] = table[q]
    BY <2>2, <2>4 DEF TypeOK
  <2>9. UNCHANGED <<Occupied, Mesh>> BY <2>2 DEF Occupied, Mesh
  <2>10. Unentered' BY <2>3, <2>5, <2>8 DEF Unentered, Inside, Entering, Between
  <2>11. InSlot'
    <3>1. bridge'[s] = p BY <2>2, <2>4, <2>6
    <3>2. \A v \in Workers : v # w => worker'[v].at \notin Between
      BY <2>3, <2>5 DEF Inside, Between
    <3> QED BY <2>3, <3>1, <3>2 DEF InSlot
  <2>12. Attached'
    <3> SUFFICES ASSUME NEW t \in Occupied PROVE Alive(bridge[t], t)'
      BY <2>9 DEF Attached
    <3>1. bridge[t] \in Parts BY DEF Occupied, TypeOK
    <3>2. CASE bridge[t] = p BY <2>2, <2>3, <2>7, <3>2 DEF Alive
    <3>3. CASE bridge[t] # p BY <2>2, <2>7, <2>8, <3>1, <3>3 DEF Alive
    <3> QED BY <3>2, <3>3
  <2>13. TableFits' BY <2>2, <2>6, <2>8 DEF TableFits, Registered
  <2>14. WiresFit' BY <2>2, <2>3, <2>5, <2>9 DEF BridgeInv, WiresFit, Inside
  <2>15. AllWired' BY <2>2, <2>5, <2>9 DEF BridgeInv, AllWired, Inside
  <2> QED BY <2>10, <2>11, <2>12, <2>13, <2>14, <2>15 DEF BridgeInv
<1> QED BY <1>1, <1>2

\* A port leaves the bridge, and its connections with it.
LEMMA PortGoes ==
  ASSUME TypeOK, NEW s \in Slots, RemovePort(s)
  PROVE  /\ bridge'[s] = Nobody /\ \A t \in Slots : t # s => bridge'[t] = bridge[t]
         /\ Occupied' = Occupied \ {s}
         /\ Mesh' = {ab \in Mesh : s \notin {ab[1], ab[2]}}
         /\ wires' = {ab \in wires : s \notin {ab[1], ab[2]}}
<1>1. bridge'[s] = Nobody /\ \A t \in Slots : t # s => bridge'[t] = bridge[t]
  BY DEF RemovePort, TypeOK
<1>2. Occupied' = Occupied \ {s} BY <1>1 DEF Occupied
<1>3. Mesh' = {ab \in Mesh : s \notin {ab[1], ab[2]}} BY <1>2 DEF Mesh
<1> QED BY <1>1, <1>2, <1>3 DEF RemovePort

LEMMA BridgeUnplug ==
  ASSUME TypeOK, LocksHeld, BridgeInv, NEW w \in Workers, Unplug(w)
  PROVE  BridgeInv'
<1> USE DEF locks, media, life
<1> DEFINE p == worker[w].part
           s == worker[w].slot
<1>1. /\ worker[w].at = "unplug" /\ RemovePort(s) /\ table' = table
      /\ worker'[w].at = "stop" /\ \A v \in Workers : v # w => worker'[v] = worker[v]
  BY ContinueMoves DEF Unplug
<1>2. p \in Parts /\ s \in Slots /\ bridge[s] = p /\ table[p] = NoSlot
  BY <1>1, Remembered DEF Removed, BridgeInv, InSlot, Unentered, Between
<1>3. /\ \A v \in Workers : v # w => worker[v].at \notin Inside
      /\ \A q \in Registered : bridge[table[q]] = q
  BY <1>1, AgreeInside DEF Inside
<1>4. \A v \in Workers : worker'[v].at \notin Inside BY <1>1, <1>3 DEF Inside
<1>5. /\ \A t \in Slots : t # s => bridge'[t] = bridge[t]
      /\ Occupied' = Occupied \ {s}
      /\ Mesh' = {ab \in Mesh : s \notin {ab[1], ab[2]}}
      /\ wires' = {ab \in wires : s \notin {ab[1], ab[2]}}
  BY <1>1, <1>2, PortGoes
<1>6. Unentered' /\ InSlot' BY <1>4 DEF Unentered, InSlot, Inside, Entering, Between
<1>7. Attached'
  <2> SUFFICES ASSUME NEW t \in Occupied, t # s PROVE table[bridge[t]] = t
    BY <1>1, <1>5 DEF Attached, Alive, Occupied
  <2>1. Alive(bridge[t], t) BY DEF BridgeInv, Attached
  <2> QED BY <1>3, <2>1 DEF Alive, Inside
<1>8. TableFits'
  <2> SUFFICES ASSUME NEW q \in Registered PROVE bridge'[table[q]] = q
    BY <1>1 DEF TableFits, Registered
  <2>1. bridge[table[q]] = q /\ table[q] \in Slots
    BY <1>3 DEF Registered, NoSlot, TypeOK
  <2>2. table[q] # s BY <1>2, <2>1 DEF Registered
  <2> QED BY <1>5, <2>1, <2>2
<1>9. WiresFit' BY <1>4, <1>5 DEF BridgeInv, WiresFit, Inside
<1>10. AllWired' BY <1>1, <1>3, <1>5 DEF BridgeInv, AllWired, Inside
<1> QED BY <1>6, <1>7, <1>8, <1>9, <1>10 DEF BridgeInv

\* stop() removes a port.
LEMMA BridgeRemoveEach ==
  ASSUME TypeOK, LocksHeld, BridgeInv, NEW w \in Workers, RemoveEach(w)
  PROVE  BridgeInv'
<1> USE DEF locks, media, life
<1>1. worker[w].at = "empty" /\ worker' = worker /\ table' = table BY DEF RemoveEach
<1>2. PICK p \in Registered : bridge[table[p]] = p /\ RemovePort(table[p])
  BY DEF RemoveEach
<1> DEFINE s == table[p]
<1>3. s \in Slots BY <1>2 DEF Registered, NoSlot, TypeOK
<1>4. \A v \in Workers : v # w => worker[v].at \notin Inside
  BY <1>1, AgreeInside DEF Inside
<1>5. /\ bridge'[s] = Nobody /\ \A t \in Slots : t # s => bridge'[t] = bridge[t]
      /\ Occupied' = Occupied \ {s}
      /\ Mesh' = {ab \in Mesh : s \notin {ab[1], ab[2]}}
      /\ wires' = {ab \in wires : s \notin {ab[1], ab[2]}}
  BY <1>2, <1>3, PortGoes
<1>6. Unentered' /\ InSlot'
  BY <1>1, <1>4 DEF Unentered, InSlot, Inside, Entering, Between
<1>7. Attached'
  <2> SUFFICES ASSUME NEW t \in Occupied, t # s PROVE table[bridge[t]] = t
    BY <1>1, <1>5 DEF Attached, Alive, Occupied
  <2>1. Alive(bridge[t], t) BY DEF BridgeInv, Attached
  <2> QED BY <1>1, <1>4, <2>1 DEF Alive, Inside
<1>8. TableFits'
  <2> SUFFICES ASSUME NEW q \in Registered
               PROVE  bridge'[table[q]] \in {q, Nobody}
    BY <1>1 DEF TableFits, Registered
  <2>1. table[q] \in Slots BY DEF Registered, NoSlot, TypeOK
  <2>2. bridge[table[q]] \in {q, Nobody} BY DEF BridgeInv, TableFits
  <2> QED BY <1>5, <2>1, <2>2
<1>9. WiresFit' BY <1>1, <1>4, <1>5 DEF BridgeInv, WiresFit, Inside
<1>10. AllWired' BY <1>1, <1>5 DEF BridgeInv, AllWired
<1> QED BY <1>6, <1>7, <1>8, <1>9, <1>10 DEF BridgeInv

\* The last step of stop(): by then nothing is in the bridge.
LEMMA BridgeFinish ==
  ASSUME TypeOK, LocksHeld, BridgeInv, NEW w \in Workers, Finish(w)
  PROVE  BridgeInv'
<1> USE DEF locks, media, life
<1>1. /\ worker[w].at = "empty" /\ bridge' = bridge /\ wires' = wires
      /\ \A q \in Registered : bridge[table[q]] # q
      /\ table' = [q \in Parts |-> NoSlot]
      /\ worker'[w].at = "idle" /\ \A v \in Workers : v # w => worker'[v] = worker[v]
  BY ReplyMoves DEF Finish
<1>2. /\ \A v \in Workers : v # w => worker[v].at \notin Inside
      /\ \A s \in Occupied : table[bridge[s]] = s /\ bridge[s] \in Registered
  BY <1>1, AgreeInside DEF Inside, Between
<1>3. Occupied = {} BY <1>1, <1>2
<1>4. Occupied' = {} /\ Mesh' = {} /\ Mesh = {} BY <1>1, <1>3 DEF Occupied, Mesh
<1>5. \A v \in Workers : worker'[v].at \notin Inside BY <1>1, <1>2 DEF Inside
<1>6. Unentered' /\ InSlot' BY <1>5 DEF Unentered, InSlot, Inside, Entering, Between
<1>7. Attached' /\ AllWired' BY <1>4 DEF Attached, AllWired
<1>8. TableFits' BY <1>1 DEF TableFits, Registered
<1>9. WiresFit' BY <1>1, <1>4, <1>5 DEF BridgeInv, WiresFit, Inside
<1> QED BY <1>6, <1>7, <1>8, <1>9 DEF BridgeInv

LEMMA StepBridge == TypeOK /\ LocksHeld /\ BridgeInv /\ [Next]_vars => BridgeInv'
<1> SUFFICES ASSUME TypeOK, LocksHeld, BridgeInv, [Next]_vars PROVE BridgeInv'
  OBVIOUS
<1>1. CASE UNCHANGED worker /\ UNCHANGED table /\ UNCHANGED media
  <2>1. \A v \in Workers : Unmoved(v) BY <1>1 DEF Unmoved
  <2> QED BY <1>1, <2>1, QuietStep DEF media
<1>2. CASE Tick \/ TickShare \/ TickEnd \/ Gone \/ UNCHANGED vars
  BY <1>1, <1>2 DEF Tick, TickShare, TickEnd, Gone, vars
<1>3. ASSUME NEW w \in Workers, Serve(w) PROVE BridgeInv'
  <2>1. CASE AddLock(w) \/ StartFails(w) \/ Starts(w) \/ StartCrashes(w)
    BY <2>1, QuietAdds
  <2>2. CASE AddPort(w) \/ Connect(w) \/ Register(w)
    BY <2>2, BridgeAddPort, BridgeConnect, BridgeRegister
  <2>3. CASE RemoveLock(w) \/ Unplug(w) BY <2>3, BridgeRemoveLock, BridgeUnplug
  <2>4. CASE StopPart(w) \/ MuteShare(w) \/ Adjust(w) \/ Look(w) \/ Join(w) \/ CloseLock(w)
    BY <2>4, QuietOthers
  <2>5. CASE RemoveEach(w) \/ Finish(w) BY <2>5, BridgeRemoveEach, BridgeFinish
  <2> QED BY <1>3, <2>1, <2>2, <2>3, <2>4, <2>5 DEF Serve
<1> QED BY <1>2, <1>3, QuietArrivals, QuietWaits DEF Next

LEMMA InitBridge == Init => BridgeInv
<1> SUFFICES ASSUME Init PROVE BridgeInv OBVIOUS
<1>1. \A w \in Workers : worker[w].at = "idle" BY DEF Init, Idle
<1>2. Occupied = {} /\ Registered = {} /\ Mesh = {} /\ wires = {}
  BY DEF Init, Occupied, Registered, Mesh
<1> QED
  BY <1>1, <1>2
  DEF BridgeInv, Unentered, InSlot, Attached, TableFits, WiresFit, AllWired, Entering, Between

\* Whoever can read the table finds it and the bridge in agreement, and
\* everyone connected to everyone, for any number of slots and handlers.
THEOREM TableAndBridgeAgree == Spec => []TableAgrees
<1> DEFINE I == TypeOK /\ LocksHeld /\ ClockEnds /\ BridgeInv
<1>1. Init => I BY InitTypes, InitLocks, InitBridge
<1>2. I /\ [Next]_vars => I' BY StepTypes, StepLocks, StepBridge
<1>3. I => TableAgrees
  <2> SUFFICES ASSUME I, parts_mutex.exclusive = {}
               PROVE  /\ \A q \in Registered : bridge[table[q]] = q
                      /\ \A s \in Occupied : table[bridge[s]] = s
                      /\ wires = Mesh
    BY DEF TableAgrees, Mesh
  <2>1. \A w \in Workers : worker[w].at \notin Inside BY NobodyInside
  <2>2. \A q \in Registered : bridge[table[q]] = q
    BY <2>1 DEF BridgeInv, TableFits, Inside
  <2>3. \A s \in Occupied : table[bridge[s]] = s
    BY <2>1 DEF BridgeInv, Attached, Alive, Inside
  <2>4. wires \subseteq Mesh BY DEF BridgeInv, WiresFit
  <2>5. Mesh \subseteq wires BY <2>1 DEF BridgeInv, AllWired, Inside
  <2> QED BY <2>2, <2>3, <2>4, <2>5
<1> QED BY <1>1, <1>2, <1>3, PTL DEF Spec

\* A tick that has begun finds its bridge, and only participants in it that
\* are still there.
THEOREM TicksAreSafe == Spec => []TickIsSafe
<1> DEFINE I == TypeOK /\ LocksHeld /\ ClockEnds /\ BridgeInv
<1>1. Init => I BY InitTypes, InitLocks, InitBridge
<1>2. I /\ [Next]_vars => I' BY StepTypes, StepLocks, StepBridge
<1>3. I => TickIsSafe
  <2> SUFFICES ASSUME I PROVE TickIsSafe OBVIOUS
  <2>1. pool \in BOOLEAN BY DEF TypeOK
  <2> QED BY <2>1 DEF ClockEnds, BridgeInv, Attached, TickIsSafe
<1> QED BY <1>1, <1>2, <1>3, PTL DEF Spec

-----------------------------------------------------------------------------
(* The refinement of MeetingRoom: what the mapping needs besides.          *)

Ending == {"join", "close", "empty"}

\* What is still to be connected is the new participant's own.
OwnTodo ==
  \A w \in Workers : worker[w].at = "connect" =>
    \A ab \in worker[w].todo : worker[w].slot \in {ab[1], ab[2]}

\* Only slots in use are muted, and nobody joins muted.
Levels ==
  /\ muted \subseteq Occupied
  /\ \A w \in Workers : worker[w].at = "connect" => worker[w].slot \notin muted

\* stop() has told the clock to end.
Ended == \A w \in Workers : worker[w].at \in Ending => quitting

RoomInv == OwnTodo /\ Levels /\ Ended

Base == TypeOK /\ LocksHeld /\ ClockEnds /\ BridgeInv /\ MuteHitsNamed
IInv == Base /\ RoomInv

LEMMA InitBase == Init => Base
BY InitTypes, InitLocks, InitBridge, InitMute DEF Base

LEMMA StepBase == Base /\ [Next]_vars => Base'
BY StepTypes, StepLocks, StepBridge, StepMute DEF Base

\* A handler that is not about to connect, nor at a further step of stop().
Stays(v) ==
  /\ worker'[v].at = "connect" => worker'[v] = worker[v]
  /\ worker'[v].at \in Ending => worker[v].at \in Ending

LEMMA StayingKeeps ==
  ASSUME RoomInv, UNCHANGED <<bridge, muted, quitting>>, \A v \in Workers : Stays(v)
  PROVE  RoomInv'
<1>1. Occupied' = Occupied BY DEF Occupied
<1> QED BY <1>1 DEF RoomInv, OwnTodo, Levels, Ended, Stays

\* While nobody has the table for himself, slots and participants correspond.
LEMMA Settled ==
  ASSUME Base, parts_mutex.exclusive = {}
  PROVE  /\ \A v \in Workers : worker[v].at \notin Inside
         /\ \A q \in Registered : bridge[table[q]] = q
         /\ \A q \in Registered : table[q] \in Occupied
<1>1. \A v \in Workers : worker[v].at \notin Inside BY NobodyInside DEF Base
<1>2. \A q \in Registered : bridge[table[q]] = q
  BY <1>1 DEF Base, BridgeInv, TableFits, Inside
<1>3. \A q \in Registered : table[q] \in Occupied
  BY <1>2 DEF Registered, Occupied, NoSlot, Base, TypeOK
<1> QED BY <1>1, <1>2, <1>3

\* Whoever changes a level does so to somebody who is in the table.
LEMMA Adjusting ==
  ASSUME Base, NEW w \in Workers, Adjust(w)
  PROVE  /\ parts_mutex.exclusive = {}
         /\ worker[w].part \in Registered /\ worker[w].slot = table[worker[w].part]
<1>1. parts_mutex.exclusive = {} BY DEF Adjust, Base, LocksHeld, TypeOK
<1>2. worker[w] \in Holding BY Remembered DEF Adjust, Base
<1>3. table[worker[w].part] = worker[w].slot BY DEF Adjust, Base, MuteHitsNamed
<1> QED BY <1>1, <1>2, <1>3 DEF Holding, Registered, Slots, NoSlot

-----------------------------------------------------------------------------
(* The steps keep it.                                                      *)

\* A handler that replies, or goes on to a step of no interest here, stays.
LEMMA Staying ==
  ASSUME TypeOK, NEW w \in Workers, worker'[w].at \notin {"connect"} \cup Ending,
         \A v \in Workers : v # w => worker'[v] = worker[v]
  PROVE  \A v \in Workers : Stays(v)
BY DEF Stays

LEMMA RoomWaits ==
  ASSUME Base, RoomInv, NEW w \in Workers,
         \/ BeginAdd(w) \/ BeginRemove(w) \/ BeginMute(w) \/ BeginLook(w) \/ WaitConf(w)
  PROVE  RoomInv'
<1> USE DEF locks, media, life, Base
<1>1. /\ worker'[w].at \in {"add", "remove", "mute", "look", "port", "unplug", "adjust"}
      /\ \A v \in Workers : v # w => worker'[v] = worker[v]
  <2>1. CASE BeginAdd(w) \/ BeginRemove(w) \/ BeginMute(w) \/ BeginLook(w)
    BY <2>1 DEF BeginAdd, BeginRemove, BeginMute, BeginLook, TypeOK
  <2>2. CASE WaitConf(w)
    BY <2>2, ContinueMoves DEF WaitConf, BridgeLock, DetachLock, HoldLock
  <2> QED BY <2>1, <2>2
<1>2. UNCHANGED <<bridge, muted, quitting>>
  BY DEF BeginAdd, BeginRemove, BeginMute, BeginLook, WaitConf, BridgeLock, DetachLock, HoldLock
<1>3. \A v \in Workers : Stays(v) BY <1>1, Staying DEF Ending
<1> QED BY <1>2, <1>3, StayingKeeps

LEMMA RoomBeginStop ==
  ASSUME Base, RoomInv, NEW w \in Workers, BeginStop(w)
  PROVE  RoomInv'
<1> USE DEF locks, media, life, Base
<1>1. /\ worker'[w].at = "join" /\ \A v \in Workers : v # w => worker'[v] = worker[v]
      /\ bridge' = bridge /\ muted' = muted /\ quitting'
  BY DEF BeginStop, TypeOK
<1>2. Occupied' = Occupied BY <1>1 DEF Occupied
<1> QED BY <1>1, <1>2 DEF RoomInv, OwnTodo, Levels, Ended

LEMMA RoomAdds ==
  ASSUME Base, RoomInv, NEW w \in Workers,
         AddLock(w) \/ StartFails(w) \/ Starts(w) \/ StartCrashes(w) \/ Register(w)
  PROVE  RoomInv'
<1> USE DEF locks, media, life, Base
<1>1. UNCHANGED <<bridge, muted, quitting>>
  BY DEF AddLock, StartFails, Starts, StartCrashes, Register
<1>2. CASE AddLock(w) \/ StartFails(w) \/ Starts(w) \/ Register(w)
  <2>1. /\ worker'[w].at \in {"idle", "start", "bridge"}
        /\ \A v \in Workers : v # w => worker'[v] = worker[v]
    BY <1>2, ReplyMoves, ContinueMoves DEF AddLock, StartFails, Starts, Register
  <2>2. \A v \in Workers : Stays(v) BY <2>1, Staying DEF Ending
  <2> QED BY <1>1, <2>2, StayingKeeps
<1>3. CASE StartCrashes(w)
  <2>1. \A v \in Workers : worker'[v].at = "dead" BY <1>3 DEF StartCrashes, Dead
  <2>2. \A v \in Workers : Stays(v) BY <2>1 DEF Stays, Ending
  <2> QED BY <1>1, <2>2, StayingKeeps
<1> QED BY <1>2, <1>3

LEMMA RoomAddPort ==
  ASSUME Base, RoomInv, NEW w \in Workers, AddPort(w)
  PROVE  RoomInv'
<1> USE DEF locks, media, life, Base
<1>1. muted' = muted /\ quitting' = quitting BY DEF AddPort
<1>2. CASE Reply(w) /\ UNCHANGED bridge
  <2>1. \A v \in Workers : Stays(v) BY <1>2, ReplyMoves, Staying DEF Ending
  <2> QED BY <1>1, <1>2, <2>1, StayingKeeps
<1>3. CASE ~(Reply(w) /\ UNCHANGED bridge)
  <2>1. PICK s \in LowestFree :
          /\ bridge' = [bridge EXCEPT ![s] = worker[w].part]
          /\ worker'[w].at = "connect" /\ worker'[w].part = worker[w].part
          /\ worker'[w].slot = s /\ worker'[w].todo = BothWays(s)
          /\ \A v \in Workers : v # w => worker'[v] = worker[v]
    BY <1>3, AddPortMoves
  <2>2. worker[w].part \in Parts BY Remembered DEF AddPort, Adding
  <2>3. s \in Slots /\ s \notin Occupied BY <2>1 DEF LowestFree
  <2>4. Occupied \subseteq Occupied' BY <2>1, <2>2 DEF Occupied, TypeOK
  <2>5. s \notin muted BY <2>3 DEF RoomInv, Levels
  <2>6. \A ab \in BothWays(s) : s \in {ab[1], ab[2]} BY DEF BothWays
  <2>7. OwnTodo' BY <2>1, <2>6 DEF RoomInv, OwnTodo
  <2>8. Levels' BY <1>1, <2>1, <2>4, <2>5 DEF RoomInv, Levels
  <2>9. Ended' BY <1>1, <2>1 DEF RoomInv, Ended, Ending
  <2> QED BY <2>7, <2>8, <2>9 DEF RoomInv
<1> QED BY <1>2, <1>3

LEMMA RoomConnect ==
  ASSUME Base, RoomInv, NEW w \in Workers, Connect(w)
  PROVE  RoomInv'
<1> USE DEF locks, media, life, Base
<1>1. PICK ab \in worker[w].todo :
        /\ worker'[w].at = "connect" /\ worker'[w].slot = worker[w].slot
        /\ worker'[w].todo = worker[w].todo \ {ab}
        /\ \A v \in Workers : v # w => worker'[v] = worker[v]
  BY ConnectMoves
<1>2. /\ worker[w].at = "connect"
      /\ bridge' = bridge /\ muted' = muted /\ quitting' = quitting
  BY DEF Connect
<1>3. Occupied' = Occupied BY <1>2 DEF Occupied
<1>4. OwnTodo' BY <1>1, <1>2 DEF RoomInv, OwnTodo
<1>5. Levels' BY <1>1, <1>2, <1>3 DEF RoomInv, Levels
<1>6. Ended' BY <1>1, <1>2 DEF RoomInv, Ended, Ending
<1> QED BY <1>4, <1>5, <1>6 DEF RoomInv

LEMMA RoomOthers ==
  ASSUME Base, RoomInv, NEW w \in Workers,
         \/ RemoveLock(w) \/ StopPart(w) \/ MuteShare(w) \/ Look(w)
         \/ Join(w) \/ CloseLock(w) \/ Finish(w)
  PROVE  RoomInv'
<1> USE DEF locks, media, life, Base
<1>1. UNCHANGED <<bridge, muted, quitting>>
  BY DEF RemoveLock, StopPart, MuteShare, Look, Join, CloseLock, Finish
<1>2. CASE RemoveLock(w)
  <2>1. /\ worker'[w].at \in {"idle", "detach"}
        /\ \A v \in Workers : v # w => worker'[v] = worker[v]
    BY <1>2, Remembered, ReplyMoves DEF RemoveLock, Removing, TypeOK
  <2> QED BY <1>1, <2>1, Staying, StayingKeeps DEF Ending
<1>3. CASE MuteShare(w)
  <2>1. /\ worker'[w].at \in {"idle", "hold"}
        /\ \A v \in Workers : v # w => worker'[v] = worker[v]
    BY <1>3, Remembered, ReplyMoves DEF MuteShare, Muting, TypeOK
  <2> QED BY <1>1, <2>1, Staying, StayingKeeps DEF Ending
<1>4. CASE StopPart(w) \/ Look(w) \/ Finish(w)
  <2>1. /\ worker'[w].at = "idle"
        /\ \A v \in Workers : v # w => worker'[v] = worker[v]
    BY <1>4, ReplyMoves DEF StopPart, Look, Finish
  <2> QED BY <1>1, <2>1, Staying, StayingKeeps DEF Ending
<1>5. CASE Join(w) \/ CloseLock(w)
  <2>1. /\ worker[w].at \in Ending /\ worker'[w].at \in {"close", "empty"}
        /\ \A v \in Workers : v # w => worker'[v] = worker[v]
    BY <1>5, ContinueMoves DEF Join, CloseLock, Ending
  <2>2. \A v \in Workers : Stays(v) BY <2>1 DEF Stays, Ending
  <2> QED BY <1>1, <2>2, StayingKeeps
<1> QED BY <1>2, <1>3, <1>4, <1>5

LEMMA RoomRemovePort ==
  ASSUME Base, RoomInv, NEW w \in Workers, Unplug(w) \/ RemoveEach(w)
  PROVE  RoomInv'
<1> USE DEF locks, media, life, Base
<1>1. PICK s \in Slots : RemovePort(s)
  <2>1. CASE Unplug(w) BY <2>1, Remembered DEF Unplug, Removed
  <2>2. CASE RemoveEach(w) BY <2>2 DEF RemoveEach, Registered, NoSlot, TypeOK
  <2> QED BY <2>1, <2>2
<1>2. Occupied' = Occupied \ {s} /\ muted' = muted \ {s}
  BY <1>1, PortGoes DEF RemovePort
<1>3. \A v \in Workers : worker'[v].at = "connect" => worker'[v] = worker[v]
  BY ContinueMoves DEF Unplug, RemoveEach
<1>4. \A v \in Workers : worker'[v].at \in Ending => worker[v].at \in Ending
  BY ContinueMoves DEF Unplug, RemoveEach, Ending
<1>5. quitting' = quitting BY DEF Unplug, RemoveEach
<1> QED BY <1>2, <1>3, <1>4, <1>5 DEF RoomInv, OwnTodo, Levels, Ended

LEMMA RoomAdjust ==
  ASSUME Base, RoomInv, NEW w \in Workers, Adjust(w)
  PROVE  RoomInv'
<1> USE DEF locks, media, life, Base
<1>1. /\ bridge' = bridge /\ quitting' = quitting
      /\ muted' \subseteq muted \cup {worker[w].slot}
      /\ worker'[w].at = "idle" /\ \A v \in Workers : v # w => worker'[v] = worker[v]
  BY ReplyMoves DEF Adjust
<1>2. worker[w].slot \in Occupied /\ \A v \in Workers : worker[v].at \notin Inside
  BY Adjusting, Settled
<1>3. Occupied' = Occupied BY <1>1 DEF Occupied
<1>4. OwnTodo' /\ Levels'
  BY <1>1, <1>2, <1>3 DEF RoomInv, OwnTodo, Levels, Inside
<1>5. Ended' BY <1>1 DEF RoomInv, Ended, Ending
<1> QED BY <1>4, <1>5 DEF RoomInv

LEMMA StepRoom == IInv /\ [Next]_vars => IInv'
<1> SUFFICES ASSUME Base, RoomInv, [Next]_vars PROVE RoomInv'
  BY StepBase DEF IInv
<1>1. CASE Tick \/ TickShare \/ TickEnd \/ Gone \/ UNCHANGED vars
  <2>1. UNCHANGED <<bridge, muted, quitting>> /\ worker' = worker
    BY <1>1 DEF Tick, TickShare, TickEnd, Gone, vars, media, life
  <2>2. \A v \in Workers : Stays(v) BY <2>1 DEF Stays
  <2> QED BY <2>1, <2>2, StayingKeeps
<1>2. ASSUME NEW w \in Workers, Arrive(w) \/ WaitConf(w) PROVE RoomInv'
  BY <1>2, RoomWaits, RoomBeginStop DEF Arrive
<1>3. ASSUME NEW w \in Workers, Serve(w) PROVE RoomInv'
  BY <1>3, RoomAdds, RoomAddPort, RoomConnect, RoomOthers, RoomRemovePort, RoomAdjust DEF Serve
<1> QED BY <1>1, <1>2, <1>3 DEF Next

LEMMA InitRoom == Init => IInv
<1> SUFFICES ASSUME Init PROVE RoomInv BY InitBase DEF IInv
<1>1. \A w \in Workers : worker[w].at = "idle" BY DEF Init, Idle
<1>2. muted = {} BY DEF Init
<1> QED BY <1>1, <1>2 DEF RoomInv, OwnTodo, Levels, Ended, Ending

-----------------------------------------------------------------------------
(* The mapping.                                                            *)

\* Whoever is in the table of an open meeting hears everybody else: what is
\* still to be connected belongs to somebody who is not in the table yet.
AllHear == hears = IF open THEN Promise!EachOther(Registered) ELSE {}

LEMMA EveryoneHears == IInv => AllHear
<1> SUFFICES ASSUME IInv PROVE AllHear OBVIOUS
<1> USE DEF IInv, Base, RoomInv
<1>1. CASE ~open BY <1>1 DEF AllHear, hears
<1>2. CASE open
  <2>1. \A w \in Workers : worker[w].at # "empty" BY <1>2 DEF open, Ended, Ending
  <2>2. \A q \in Registered : bridge[table[q]] = q
    BY <2>1 DEF BridgeInv, TableFits
  <2>3. \A q \in Registered : q \in Parts /\ table[q] \in Occupied
    BY <2>2 DEF Registered, Occupied, NoSlot, TypeOK
  <2>4. ASSUME NEW a \in Registered, NEW b \in Registered
        PROVE  <<table[b], table[a]>> \in wires <=> a # b
    <3>1. CASE a = b BY <3>1 DEF BridgeInv, WiresFit, Mesh
    <3>2. CASE a # b
      <4>1. <<table[b], table[a]>> \in Mesh BY <2>2, <2>3, <3>2 DEF Mesh
      <4>2. ASSUME NEW w \in Workers, worker[w].at = "connect",
                   <<table[b], table[a]>> \in worker[w].todo
            PROVE  FALSE
        <5>1. worker[w].slot = table[b] \/ worker[w].slot = table[a]
          BY <4>2 DEF OwnTodo
        <5>2. bridge[worker[w].slot] = worker[w].part /\ table[worker[w].part] = NoSlot
          BY <4>2 DEF BridgeInv, InSlot, Unentered, Between
        <5> QED BY <2>2, <5>1, <5>2 DEF Registered
      <4> QED BY <3>2, <4>1, <4>2 DEF BridgeInv, AllWired
    <3> QED BY <3>1, <3>2
  <2>5. hears = {pq \in Registered \X Registered : <<table[pq[2]], table[pq[1]]>> \in wires}
    BY <1>2 DEF hears
  <2> QED BY <1>2, <2>4, <2>5 DEF AllHear, Promise!EachOther
<1> QED BY <1>1, <1>2

LEMMA HearsNext == IInv' => AllHear'
BY EveryoneHears, PTL

\* Steps that leave the table and the levels alone are no steps of the room,
\* connections included.
LEMMA SteadyRoom ==
  ASSUME IInv, IInv', UNCHANGED <<table, muted, open>>
  PROVE  UNCHANGED Promise!room
<1>1. Registered' = Registered BY DEF Registered
<1>2. silenced' = silenced BY <1>1 DEF silenced
<1>3. AllHear BY EveryoneHears
<1>4. AllHear' BY HearsNext
<1> QED BY <1>1, <1>2, <1>3, <1>4 DEF AllHear, Promise!room, Promise!EachOther

\* The steps that the room sees.
LEMMA SeeRegister ==
  ASSUME IInv, IInv', NEW w \in Workers, Register(w)
  PROVE  \E q \in Parts : Promise!Join(q)
<1> USE DEF locks, media, life, IInv, Base
<1> DEFINE p == worker[w].part
           s == worker[w].slot
<1>1. worker[w].at = "connect" /\ table' = [table EXCEPT ![p] = s]
      /\ muted' = muted /\ open' = open
  BY DEF Register, open
<1>2. p \in Parts /\ s \in Slots /\ table[p] = NoSlot /\ s \notin muted
  BY <1>1, Remembered DEF Wiring, BridgeInv, Unentered, Between, RoomInv, Levels
<1>3. table'[p] = s /\ \A q \in Parts : q # p => table'[q] = table[q]
  BY <1>1, <1>2 DEF TypeOK
<1>4. Registered' = Registered \cup {p} BY <1>2, <1>3 DEF Registered, Slots, NoSlot
<1>5. p \notin Registered BY <1>2 DEF Registered
<1>6. silenced' = silenced BY <1>1, <1>2, <1>3, <1>4, <1>5 DEF silenced, Registered
<1>7. AllHear' BY HearsNext
<1>8. Promise!Join(p)
  BY <1>1, <1>4, <1>5, <1>6, <1>7 DEF AllHear, Promise!Join, Promise!EachOther
<1> QED BY <1>2, <1>8

LEMMA SeeRemove ==
  ASSUME IInv, IInv', NEW w \in Workers, RemoveLock(w), table[worker[w].part] # NoSlot
  PROVE  \E q \in Parts : Promise!Leave(q)
<1> USE DEF locks, media, life, IInv, Base
<1> DEFINE p == worker[w].part
<1>1. table' = [table EXCEPT ![p] = NoSlot] /\ muted' = muted /\ open' = open
  BY DEF RemoveLock, open
<1>2. p \in Parts BY Remembered DEF RemoveLock, Removing
<1>3. table'[p] = NoSlot /\ \A q \in Parts : q # p => table'[q] = table[q]
  BY <1>1, <1>2 DEF TypeOK
<1>4. Registered' = Registered \ {p} /\ p \in Registered BY <1>2, <1>3 DEF Registered
<1>5. silenced' = silenced \ {p}
  BY <1>1, <1>3, <1>4 DEF silenced, Registered
<1>6. AllHear' BY HearsNext
<1>7. Promise!Leave(p)
  BY <1>1, <1>4, <1>5, <1>6 DEF AllHear, Promise!Leave, Promise!EachOther
<1> QED BY <1>2, <1>7

LEMMA SeeAdjust ==
  ASSUME IInv, IInv', NEW w \in Workers, Adjust(w)
  PROVE  (\E q \in Parts : Promise!SetMute(q)) \/ UNCHANGED Promise!room
<1> USE DEF locks, media, life, IInv, Base
<1> DEFINE p == worker[w].part
           s == worker[w].slot
<1>1. /\ table' = table /\ open' = open
      /\ muted' = muted \cup {s} \/ muted' = muted \ {s}
  BY DEF Adjust, open
<1>2. p \in Registered /\ s = table[p] BY Adjusting
<1>3. \A q \in Registered : table[q] = s <=> q = p
  <2>1. \A q \in Registered : bridge[table[q]] = q BY Adjusting, Settled
  <2> QED BY <1>2, <2>1
<1>4. Registered' = Registered BY <1>1 DEF Registered
<1>5. AllHear /\ AllHear' BY EveryoneHears, HearsNext
<1>6. hears' = hears BY <1>1, <1>4, <1>5 DEF AllHear, Promise!EachOther
<1>7. CASE open
  <2>1. silenced' = silenced \cup {p} \/ silenced' = silenced \ {p}
    BY <1>1, <1>2, <1>3, <1>4, <1>7 DEF silenced
  <2>2. Promise!SetMute(p)
    BY <1>1, <1>2, <1>4, <1>6, <1>7, <2>1 DEF Promise!SetMute
  <2> QED BY <1>2, <2>2 DEF Registered
<1>8. CASE ~open
  <2>1. silenced' = silenced BY <1>1, <1>8 DEF silenced
  <2> QED BY <1>1, <1>4, <1>6, <2>1 DEF Promise!room
<1> QED BY <1>7, <1>8

LEMMA SeeRemovePort ==
  ASSUME IInv, IInv', NEW w \in Workers, Unplug(w) \/ RemoveEach(w)
  PROVE  UNCHANGED Promise!room
<1> USE DEF locks, media, life, IInv, Base
<1>1. table' = table /\ open' = open BY DEF Unplug, RemoveEach, open
<1>2. Registered' = Registered BY <1>1 DEF Registered
<1>3. AllHear /\ AllHear' BY EveryoneHears, HearsNext
<1>4. hears' = hears BY <1>1, <1>2, <1>3 DEF AllHear, Promise!EachOther
<1>5. silenced' = silenced
  <2>1. CASE RemoveEach(w)
    <3>1. ~open BY <2>1 DEF RemoveEach, RoomInv, Ended, Ending, open
    <3> QED BY <1>1, <3>1 DEF silenced
  <2>2. CASE Unplug(w)
    <3> DEFINE s == worker[w].slot
    <3>1. worker[w].at = "unplug" /\ muted' = muted \ {s} BY <2>2 DEF Unplug, RemovePort
    <3>2. bridge[s] = worker[w].part /\ table[worker[w].part] = NoSlot
      BY <3>1 DEF BridgeInv, InSlot, Unentered, Between
    <3>3. \A q \in Registered : bridge[table[q]] = q
      BY <3>1, AgreeInside DEF Inside
    <3>4. \A q \in Registered : table[q] # s BY <3>2, <3>3 DEF Registered
    <3> QED BY <1>1, <1>2, <3>1, <3>4 DEF silenced
  <2> QED BY <2>1, <2>2
<1> QED BY <1>1, <1>2, <1>4, <1>5 DEF Promise!room

LEMMA SeeStop ==
  ASSUME IInv, IInv', NEW w \in Workers
  PROVE  /\ BeginStop(w) => Promise!Close \/ UNCHANGED Promise!room
         /\ Finish(w) => Promise!Empty
<1> USE DEF locks, media, life, IInv, Base
<1>1. ASSUME BeginStop(w) PROVE Promise!Close \/ UNCHANGED Promise!room
  <2>1. table' = table /\ muted' = muted /\ quitting' = TRUE BY <1>1 DEF BeginStop
  <2>2. ~open' BY <2>1 DEF open
  <2>3. Registered' = Registered BY <2>1 DEF Registered
  <2>4. hears' = {} /\ silenced' = {} BY <2>2 DEF hears, silenced
  <2>5. CASE open
    <3>1. open' = FALSE BY <2>2 DEF open
    <3> QED BY <2>3, <2>4, <2>5, <3>1 DEF Promise!Close
  <2>6. CASE ~open
    <3>1. open' = open
      <4>1. quitting \in BOOLEAN /\ pool \in BOOLEAN BY DEF TypeOK
      <4>2. open = FALSE BY <2>6 DEF open
      <4>3. open' = FALSE BY <2>2 DEF open
      <4> QED BY <4>2, <4>3
    <3> QED BY <2>1, <2>6, <3>1, SteadyRoom
  <2> QED BY <2>5, <2>6
<1>2. ASSUME Finish(w) PROVE Promise!Empty
  <2>1. quitting BY <1>2 DEF Finish, RoomInv, Ended, Ending
  <2>2. quitting' = quitting /\ table' = [q \in Parts |-> NoSlot] BY <1>2 DEF Finish
  <2>3. open = FALSE /\ open' = FALSE BY <2>1, <2>2 DEF open
  <2>4. Registered' = {} BY <2>2 DEF Registered
  <2>5. hears = {} /\ hears' = {} /\ silenced = {} /\ silenced' = {}
    BY <2>3 DEF hears, silenced
  <2> QED BY <2>3, <2>4, <2>5 DEF Promise!Empty
<1> QED BY <1>1, <1>2

LEMMA StepRefines ==
  ASSUME IInv, IInv', [Next]_vars
  PROVE  Promise!Next \/ UNCHANGED Promise!room
<1> USE DEF locks, media, life
<1>1. ASSUME UNCHANGED <<table, muted, pool, quitting>> PROVE UNCHANGED Promise!room
  BY <1>1, SteadyRoom DEF open
<1>2. CASE Tick \/ TickShare \/ TickEnd \/ Gone \/ UNCHANGED vars
  BY <1>1, <1>2 DEF Tick, TickShare, TickEnd, Gone, vars
<1>3. ASSUME NEW w \in Workers, Arrive(w) \/ WaitConf(w)
      PROVE  Promise!Next \/ UNCHANGED Promise!room
  <2>1. CASE BeginStop(w) BY <2>1, SeeStop DEF Promise!Next
  <2>2. CASE BeginAdd(w) \/ BeginRemove(w) \/ BeginMute(w) \/ BeginLook(w)
    BY <1>1, <2>2 DEF BeginAdd, BeginRemove, BeginMute, BeginLook
  <2>3. CASE WaitConf(w) BY <1>1, <2>3 DEF WaitConf, BridgeLock, DetachLock, HoldLock
  <2> QED BY <1>3, <2>1, <2>2, <2>3 DEF Arrive
<1>4. ASSUME NEW w \in Workers, Serve(w)
      PROVE  Promise!Next \/ UNCHANGED Promise!room
  <2>1. CASE AddLock(w) \/ StartFails(w) \/ Starts(w) \/ StartCrashes(w) \/ AddPort(w) \/ Connect(w)
    BY <1>1, <2>1 DEF AddLock, StartFails, Starts, StartCrashes, AddPort, Connect
  <2>2. CASE Register(w) BY <2>2, SeeRegister DEF Promise!Next
  <2>3. CASE RemoveLock(w)
    <3>1. CASE table[worker[w].part] = NoSlot BY <1>1, <2>3, <3>1 DEF RemoveLock
    <3>2. CASE table[worker[w].part] # NoSlot BY <2>3, <3>2, SeeRemove DEF Promise!Next
    <3> QED BY <3>1, <3>2
  <2>4. CASE StopPart(w) \/ MuteShare(w) \/ Look(w) \/ Join(w) \/ CloseLock(w)
    BY <1>1, <2>4 DEF StopPart, MuteShare, Look, Join, CloseLock
  <2>5. CASE Adjust(w) BY <2>5, SeeAdjust DEF Promise!Next
  <2>6. CASE Unplug(w) \/ RemoveEach(w) BY <2>6, SeeRemovePort
  <2>7. CASE Finish(w) BY <2>7, SeeStop DEF Promise!Next
  <2> QED BY <1>4, <2>1, <2>2, <2>3, <2>4, <2>5, <2>6, <2>7 DEF Serve
<1> QED BY <1>2, <1>3, <1>4 DEF Next

LEMMA InitRefines == Init => Promise!Init
<1> SUFFICES ASSUME Init PROVE Promise!Init OBVIOUS
<1>1. Registered = {} BY DEF Init, Registered
<1>2. pool \in BOOLEAN /\ quitting = FALSE BY DEF Init
<1>3. open \in BOOLEAN BY <1>2 DEF open
<1>4. hears = {} /\ silenced = {} BY <1>1 DEF hears, silenced
<1> QED BY <1>1, <1>3, <1>4 DEF Promise!Init

\* Table, locks, bridge and clock together keep what a meeting promises those
\* in it: everybody in an open room hears everybody else, joins unmuted, and is
\* muted by name only.
THEOREM MeetingIsARoom == Spec => RoomSpec
<1>1. IInv /\ IInv' /\ [Next]_vars => [Promise!Next]_(Promise!room)
  BY StepRefines
<1> QED BY <1>1, InitRoom, StepRoom, InitRefines, PTL DEF Spec, RoomSpec, Promise!Spec
=============================================================================
