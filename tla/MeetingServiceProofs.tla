------------------------ MODULE MeetingServiceProofs ------------------------
(***************************************************************************)
(* Machine-checked proofs about MeetingService, for any number of HTTP     *)
(* workers, meetings, participants, bridge slots and ports.                *)
(***************************************************************************)
EXTENDS MeetingService, FiniteSetTheorems, TLAPS

USE MeetingServiceAssumption DEF MeetingServiceAssumption

\* A participant that a handler is about to stop still listens, on a port that
\* no registered participant and no other such handler has.
StoppingApart ==
  /\ \A w \in Workers : worker[w].at = "stop" =>
       /\ worker[w].port \in listening
       /\ \A x \in Everyone : PortOf(x) # worker[w].port
  /\ \A v, w \in Workers :
       worker[v].at = "stop" /\ worker[w].at = "stop" /\ worker[v].port = worker[w].port
         => v = w

\* Only a meeting that was created can have a bridge.
BridgeOfCreated == \A m \in Meetings : bridge[m] => m \in created

\* The inductive invariant.
IInv ==
  /\ TypeOK /\ StoppingApart /\ BridgeOfCreated
  /\ OnePortOneParticipant /\ NoOrphanListener /\ NoBridgeNoMembers

-----------------------------------------------------------------------------
(* The port pool.                                                          *)

\* A port handed out is a port number, and the pool keeps its types.
LEMMA PoolTypes ==
  ASSUME next \in Allocator!Indexes \cup {0}, used \in [Allocator!Indexes -> BOOLEAN]
  PROVE  /\ \A i \in Allocator!Indexes : Allocator!Port(i) \in PortNumbers
         /\ \A avail : \A i \in Allocator!Indexes : Allocator!Allocate(avail, i) =>
              /\ next' \in Allocator!Indexes \cup {0}
              /\ used' \in [Allocator!Indexes -> BOOLEAN]
         /\ \A port : Allocator!Release(port) =>
              next' = next /\ used' \in [Allocator!Indexes -> BOOLEAN]
<1>1. \A i \in Allocator!Indexes : Allocator!Port(i) \in PortNumbers
  BY DEF Allocator!Indexes, Allocator!Port, PortNumbers
<1>2. ASSUME NEW avail, NEW i \in Allocator!Indexes, Allocator!Allocate(avail, i)
      PROVE  /\ next' \in Allocator!Indexes \cup {0}
             /\ used' \in [Allocator!Indexes -> BOOLEAN]
  <2>1. next' = (i + 1) % count /\ used' = [used EXCEPT ![i] = TRUE]
    BY <1>2 DEF Allocator!Allocate, Allocator!After
  <2> QED BY <2>1 DEF Allocator!Indexes
<1>3. ASSUME NEW port, Allocator!Release(port)
      PROVE  next' = next /\ used' \in [Allocator!Indexes -> BOOLEAN]
  BY <1>3 DEF Allocator!Release
<1> QED BY <1>1, <1>2, <1>3

-----------------------------------------------------------------------------
(* Handlers.                                                               *)

\* The section a handler has reached says what it remembers.
LEMMA Remembered ==
  ASSUME TypeOK, NEW w \in Workers
  PROVE  /\ worker[w].at = "allocate" => worker[w] \in Adding
         /\ worker[w].at \in {"add", "undo"} => worker[w] \in Added
         /\ worker[w].at \in {"collect", "halt", "give"} => worker[w] \in Destroying
         /\ worker[w].at \in {"find", "again", "remove"} => worker[w] \in Finding
         /\ worker[w].at \in {"stop", "release"} => worker[w] \in Removed
BY DEF TypeOK, Handling, Idle, Dead, Adding, Added, Destroying, Finding, Removed

\* A step of one handler leaves the others' memory alone.
LEMMA OneHandlerMoves ==
  ASSUME TypeOK, NEW w \in Workers, NEW r \in Handling,
         worker' = [worker EXCEPT ![w] = r]
  PROVE  /\ worker' \in [Workers -> Handling] /\ worker'[w] = r
         /\ \A v \in Workers : v # w => worker'[v] = worker[v]
BY DEF TypeOK

\* The same, for a step that only moves the handler to another section of the
\* kind it is in: it remembers what it remembered.
LEMMA Moves ==
  ASSUME TypeOK, NEW w \in Workers
  PROVE  /\ \A at \in {"add", "undo"} : worker[w].at \in {"add", "undo"} =>
              [worker[w] EXCEPT !.at = at] \in Handling
         /\ \A at \in {"collect", "halt", "give"} :
              worker[w].at \in {"collect", "halt", "give"} =>
              [worker[w] EXCEPT !.at = at] \in Handling
         /\ \A at \in {"find", "again", "remove"} :
              worker[w].at \in {"find", "again", "remove"} =>
              [worker[w] EXCEPT !.at = at] \in Handling
         /\ \A at \in {"stop", "release"} : worker[w].at \in {"stop", "release"} =>
              [worker[w] EXCEPT !.at = at] \in Handling
BY Remembered DEF Handling, Adding, Added, Destroying, Finding, Removed

\* Adding a participant keeps the types.
LEMMA AddTypes ==
  ASSUME TypeOK, NEW w \in Workers, Add(w)
  PROVE  TypeOK'
<1> USE DEF ports, table
<1>0. Idle \in Handling /\ Dead \in Handling BY DEF Handling
<1>1. CASE BeginAdd(w)
  <2>1. PICK m \in meetings, q \in Parts, k \in {"active", "split"} :
          worker' = [worker EXCEPT ![w] =
                       [at |-> "allocate", kind |-> k, m |-> m, q |-> q, port |-> NoPort]]
    BY <1>1 DEF BeginAdd
  <2>2. [at |-> "allocate", kind |-> k, m |-> m, q |-> q, port |-> NoPort] \in Handling
    BY DEF TypeOK, Handling, Adding
  <2> QED BY <1>1, <2>1, <2>2, OneHandlerMoves DEF BeginAdd, TypeOK
<1>2. CASE AllocatePort(w)
  <2>1. CASE \E avail : \E i \in Allocator!Indexes :
               /\ Allocator!Allocate(avail, i)
               /\ worker' = [worker EXCEPT ![w].at = "add", ![w].port = Allocator!Port(i)]
    <3>0. PICK avail : \E i \in Allocator!Indexes :
               /\ Allocator!Allocate(avail, i)
               /\ worker' = [worker EXCEPT ![w].at = "add", ![w].port = Allocator!Port(i)]
      BY <2>1
    <3>1. PICK i \in Allocator!Indexes :
               /\ Allocator!Allocate(avail, i)
               /\ worker' = [worker EXCEPT ![w].at = "add", ![w].port = Allocator!Port(i)]
      BY <3>0
    <3> DEFINE r == [worker[w] EXCEPT !.at = "add", !.port = Allocator!Port(i)]
    <3>2. r \in Added
      BY <1>2, Remembered, PoolTypes DEF AllocatePort, TypeOK, Adding, Added
    <3>3. worker' = [worker EXCEPT ![w] = r] BY <3>1 DEF TypeOK
    <3>4. worker' \in [Workers -> Handling]
      BY <3>2, <3>3, OneHandlerMoves DEF Handling
    <3> QED BY <1>2, <3>1, <3>4, PoolTypes DEF AllocatePort, TypeOK
  <2>2. CASE UNCHANGED <<next, used>> /\ Reply(w)
    BY <1>0, <1>2, <2>2, OneHandlerMoves DEF AllocatePort, Reply, TypeOK
  <2> QED BY <1>2, <2>1, <2>2 DEF AllocatePort, Allocator!Exhausted, Allocator!pool
<1>3. CASE AddFails(w)
  <2>1. worker' = [worker EXCEPT ![w] = [worker[w] EXCEPT !.at = "undo"]]
    BY <1>3 DEF AddFails, Continue, TypeOK
  <2> QED BY <1>3, <2>1, Moves, OneHandlerMoves DEF AddFails, TypeOK
<1>4. CASE AddCrashes(w)
  BY <1>0, <1>4 DEF AddCrashes, TypeOK
<1>5. CASE AddSucceeds(w)
  <2>1. worker[w].m \in Meetings /\ worker[w].q \in Parts /\ worker[w].port \in PortNumbers
    BY <1>5, Remembered DEF AddSucceeds, Added
  <2>2. members' \in [Meetings -> [Parts -> PortNumbers \cup {NoPort}]]
    BY <1>5, <2>1 DEF AddSucceeds, TypeOK
  <2>3. worker' \in [Workers -> Handling]
    BY <1>0, <1>5, OneHandlerMoves DEF AddSucceeds, Reply
  <2> QED BY <1>5, <2>1, <2>2, <2>3 DEF AddSucceeds, TypeOK
<1>6. CASE UndoAdd(w)
  <2>1. worker' \in [Workers -> Handling]
    BY <1>0, <1>6, OneHandlerMoves DEF UndoAdd, Reply
  <2>2. next' = next /\ used' \in [Allocator!Indexes -> BOOLEAN]
    BY <1>6, PoolTypes DEF UndoAdd, TypeOK
  <2> QED BY <1>6, <2>1, <2>2 DEF UndoAdd, TypeOK
<1> QED BY <1>1, <1>2, <1>3, <1>4, <1>5, <1>6 DEF Add

\* Destroying a meeting keeps the types.
LEMMA DestroyTypes ==
  ASSUME TypeOK, NEW w \in Workers, DestroyMeeting(w)
  PROVE  TypeOK'
<1> USE DEF ports, table
<1>0. Idle \in Handling BY DEF Handling
<1>1. CASE Erase(w)
  <2>1. PICK m \in meetings :
          /\ meetings' = meetings \ {m}
          /\ worker' = [worker EXCEPT ![w] = [at |-> "collect", m |-> m, owed |-> {}]]
    BY <1>1 DEF Erase
  <2>2. [at |-> "collect", m |-> m, owed |-> {}] \in Handling
    BY DEF TypeOK, Handling, Destroying
  <2> QED BY <1>1, <2>1, <2>2, OneHandlerMoves DEF Erase, TypeOK
<1>2. CASE CollectPorts(w)
  <2> DEFINE owed == MemberPorts(worker[w].m) \ {0}
             r    == [worker[w] EXCEPT !.at = "halt", !.owed = owed]
  <2>1. worker[w] \in Destroying BY <1>2, Remembered DEF CollectPorts
  <2>2. owed \subseteq PortNumbers
    BY <2>1 DEF MemberPorts, Registered, TypeOK, Destroying
  <2> HIDE DEF owed
  <2>3. r \in Handling BY <2>1, <2>2 DEF Destroying, Handling
  <2>4. worker' = [worker EXCEPT ![w] = r] BY <1>2 DEF CollectPorts, TypeOK, owed
  <2> QED BY <1>2, <2>3, <2>4, OneHandlerMoves DEF CollectPorts, TypeOK
<1>3. CASE Halt(w)
  <2>1. worker' = [worker EXCEPT ![w] = [worker[w] EXCEPT !.at = "give"]]
    BY <1>3 DEF Halt, Continue, TypeOK
  <2>2. worker' \in [Workers -> Handling]
    BY <1>3, <2>1, Moves, OneHandlerMoves DEF Halt
  <2>3. members' \in [Meetings -> [Parts -> PortNumbers \cup {NoPort}]]
    BY <1>3 DEF Halt, TypeOK
  <2> QED BY <1>3, <2>2, <2>3 DEF Halt, TypeOK
<1>4. CASE GiveBack(w)
  <2>1. CASE \E p \in worker[w].owed :
               /\ Allocator!Release(p)
               /\ worker' = [worker EXCEPT ![w].owed = @ \ {p}]
    <3>1. PICK p \in worker[w].owed :
               /\ Allocator!Release(p)
               /\ worker' = [worker EXCEPT ![w].owed = @ \ {p}]
      BY <2>1
    <3> DEFINE r == [worker[w] EXCEPT !.owed = worker[w].owed \ {p}]
    <3>2. r \in Handling
      BY <1>4, Remembered DEF GiveBack, Destroying, Handling
    <3>3. worker' = [worker EXCEPT ![w] = r] BY <3>1 DEF TypeOK
    <3>4. worker' \in [Workers -> Handling] BY <3>2, <3>3, OneHandlerMoves
    <3> QED BY <1>4, <3>1, <3>4, PoolTypes DEF GiveBack, TypeOK
  <2>2. CASE Reply(w) /\ UNCHANGED ports
    BY <1>0, <1>4, <2>2, OneHandlerMoves DEF GiveBack, Reply, TypeOK
  <2> QED BY <1>4, <2>1, <2>2 DEF GiveBack
<1> QED BY <1>1, <1>2, <1>3, <1>4 DEF DestroyMeeting

\* Removing a participant keeps the types.
LEMMA DelTypes ==
  ASSUME TypeOK, NEW w \in Workers, Del(w)
  PROVE  TypeOK'
<1> USE DEF ports, table
<1>0. Idle \in Handling BY DEF Handling
<1>1. CASE BeginDel(w)
  <2>1. PICK m \in meetings, q \in Parts :
          worker' = [worker EXCEPT ![w] = [at |-> "find", m |-> m, q |-> q, port |-> NoPort]]
    BY <1>1 DEF BeginDel
  <2>2. [at |-> "find", m |-> m, q |-> q, port |-> NoPort] \in Handling
    BY DEF TypeOK, Handling, Finding
  <2> QED BY <1>1, <2>1, <2>2, OneHandlerMoves DEF BeginDel, TypeOK
<1>2. CASE FindPart(w) \/ FindAgain(w)
  <2>1. \/ worker' = [worker EXCEPT ![w] = Idle]
        \/ worker' = [worker EXCEPT ![w] = [worker[w] EXCEPT !.at = "again"]]
        \/ worker' = [worker EXCEPT ![w] = [worker[w] EXCEPT !.at = "remove"]]
    BY <1>2 DEF FindPart, FindAgain, Reply, Continue, TypeOK
  <2>2. worker[w].at \in {"find", "again"} BY <1>2 DEF FindPart, FindAgain
  <2>3. worker' \in [Workers -> Handling]
    BY <1>0, <2>1, <2>2, Moves, OneHandlerMoves
  <2> QED BY <1>2, <2>3 DEF FindPart, FindAgain, TypeOK
<1>3. CASE RemovePart(w)
  <2>1. worker[w] \in Finding BY <1>3, Remembered DEF RemovePart
  <2>2. CASE members[worker[w].m][worker[w].q] = NoPort
    BY <1>0, <1>3, <2>2, OneHandlerMoves DEF RemovePart, Reply, TypeOK
  <2>3. CASE members[worker[w].m][worker[w].q] # NoPort
    <3> DEFINE r == [worker[w] EXCEPT !.at = "stop",
                                      !.port = members[worker[w].m][worker[w].q]]
    <3>1. members[worker[w].m][worker[w].q] \in PortNumbers
      BY <2>1, <2>3 DEF TypeOK, Finding
    <3>2. r \in Handling BY <2>1, <3>1 DEF Handling, Finding, Removed
    <3>3. worker' = [worker EXCEPT ![w] = r] BY <1>3, <2>3 DEF RemovePart, TypeOK
    <3>4. members' \in [Meetings -> [Parts -> PortNumbers \cup {NoPort}]]
      BY <1>3, <2>1, <2>3 DEF RemovePart, TypeOK, Finding
    <3> QED BY <1>3, <3>2, <3>3, <3>4, OneHandlerMoves DEF RemovePart, TypeOK
  <2> QED BY <2>2, <2>3
<1>4. CASE StopPart(w)
  <2>1. worker' = [worker EXCEPT ![w] = [worker[w] EXCEPT !.at = "release"]]
    BY <1>4 DEF StopPart, Continue, TypeOK
  <2> QED BY <1>4, <2>1, Moves, OneHandlerMoves DEF StopPart, TypeOK
<1>5. CASE ReleasePort(w)
  <2>1. worker' \in [Workers -> Handling]
    BY <1>0, <1>5, OneHandlerMoves DEF ReleasePort, Reply
  <2>2. next' = next /\ used' \in [Allocator!Indexes -> BOOLEAN]
    BY <1>5, PoolTypes DEF ReleasePort, TypeOK
  <2> QED BY <1>5, <2>1, <2>2 DEF ReleasePort, TypeOK
<1> QED BY <1>1, <1>2, <1>3, <1>4, <1>5 DEF Del

\* A step of the service keeps its types.
LEMMA StepTypes == TypeOK /\ [Next]_vars => TypeOK'
<1> SUFFICES ASSUME TypeOK, [Next]_vars PROVE TypeOK' OBVIOUS
<1> USE DEF ports, table
<1>1. ASSUME NEW w \in Workers, Create(w) PROVE TypeOK'
  BY <1>1 DEF Create, TypeOK
<1>2. CASE UNCHANGED vars BY <1>2 DEF vars, TypeOK
<1> QED BY <1>1, <1>2, AddTypes, DestroyTypes, DelTypes DEF Next, NotFound, Died

-----------------------------------------------------------------------------
(* Ports, listeners and bridges.                                           *)

Safe == StoppingApart /\ BridgeOfCreated
          /\ OnePortOneParticipant /\ NoOrphanListener /\ NoBridgeNoMembers

\* A step that registers, stops and closes nothing cannot break anything.
LEMMA QuietStep ==
  ASSUME IInv, UNCHANGED <<members, listening, bridge>>, created \subseteq created',
         \A v \in Workers :
           /\ worker'[v].at = "stop" <=> worker[v].at = "stop"
           /\ worker'[v].at = "stop" => worker'[v].port = worker[v].port
  PROVE  Safe'
<1>1. UNCHANGED Everyone /\ \A x : PortOf(x)' = PortOf(x) BY DEF Everyone, PortOf
<1>2. StoppingApart' BY <1>1 DEF IInv, StoppingApart
<1>3. BridgeOfCreated' BY DEF IInv, BridgeOfCreated
<1>4. OnePortOneParticipant' BY <1>1 DEF IInv, OnePortOneParticipant
<1>5. NoOrphanListener' BY <1>1 DEF IInv, NoOrphanListener, InHand
<1>6. NoBridgeNoMembers' BY DEF IInv, NoBridgeNoMembers, Registered
<1> QED BY <1>2, <1>3, <1>4, <1>5, <1>6 DEF Safe

\* Only these actions concern a participant's listener or a meeting's bridge.
Concerns(w) == Create(w) \/ AddCrashes(w) \/ AddSucceeds(w) \/ Halt(w)
                 \/ RemovePart(w) \/ StopPart(w)

\* Every other action of a handler is such a quiet step.
LEMMA QuietHandlers ==
  ASSUME IInv, NEW w \in Workers,
         Add(w) \/ DestroyMeeting(w) \/ Del(w), ~Concerns(w)
  PROVE  Safe'
<1> USE DEF ports, table
<1>0. TypeOK BY DEF IInv
<1>1. UNCHANGED <<members, listening, bridge, created>>
  BY DEF Add, DestroyMeeting, Del, Concerns, BeginAdd, AllocatePort, AddFails, UndoAdd,
         Erase, CollectPorts, GiveBack, BeginDel, FindPart, FindAgain, ReleasePort
<1>2. \A v \in Workers : v # w => worker'[v] = worker[v]
  BY <1>0 DEF TypeOK, Add, DestroyMeeting, Del, Concerns, BeginAdd, AllocatePort, AddFails,
         UndoAdd, Erase, CollectPorts, GiveBack, BeginDel, FindPart, FindAgain, ReleasePort,
         Reply, Continue
<1>3. worker[w].at # "stop"
  BY DEF Add, DestroyMeeting, Del, Concerns, BeginAdd, AllocatePort, AddFails,
         UndoAdd, Erase, CollectPorts, GiveBack, BeginDel, FindPart, FindAgain, ReleasePort
<1>4. worker'[w].at # "stop"
  <2>1. CASE BeginAdd(w) \/ AllocatePort(w) \/ AddFails(w) \/ UndoAdd(w)
    BY <1>0, <2>1, Remembered DEF TypeOK, BeginAdd, AllocatePort, AddFails, UndoAdd, Reply,
         Continue, Idle, Adding, Added
  <2>2. CASE Erase(w) \/ CollectPorts(w) \/ GiveBack(w)
    BY <1>0, <2>2, Remembered DEF TypeOK, Erase, CollectPorts, GiveBack, Reply, Idle, Destroying
  <2>3. CASE BeginDel(w) \/ FindPart(w) \/ FindAgain(w) \/ ReleasePort(w)
    BY <1>0, <2>3, Remembered DEF TypeOK, BeginDel, FindPart, FindAgain, ReleasePort, Reply,
         Continue, Idle, Finding
  <2> QED BY <2>1, <2>2, <2>3 DEF Add, DestroyMeeting, Del, Concerns
<1> QED BY <1>1, <1>2, <1>3, <1>4, QuietStep

\* A new meeting has no participants yet.
LEMMA CreateSafe ==
  ASSUME IInv, NEW w \in Workers, Create(w)
  PROVE  Safe'
<1> USE DEF ports, table
<1>1. PICK m \in Meetings \ created, ok \in {TRUE, ~SetupMayFail} :
        /\ meetings' = meetings \cup {m} /\ created' = created \cup {m}
        /\ bridge' = [bridge EXCEPT ![m] = ok]
  BY DEF Create
<1>2. UNCHANGED <<members, listening, worker>> BY DEF Create
<1>3. UNCHANGED Everyone /\ \A x : PortOf(x)' = PortOf(x) BY <1>2 DEF Everyone, PortOf
<1>4. ~bridge[m] BY <1>1 DEF IInv, BridgeOfCreated
<1>5. BridgeOfCreated' /\ NoBridgeNoMembers'
  BY <1>1, <1>2, <1>4 DEF IInv, BridgeOfCreated, NoBridgeNoMembers, Registered, TypeOK
<1> QED BY <1>2, <1>3, <1>5
     DEF IInv, Safe, StoppingApart, OnePortOneParticipant, NoOrphanListener, InHand

\* The end of the process leaves no participant and no listener.
LEMMA CrashSafe ==
  ASSUME IInv, NEW w \in Workers, AddCrashes(w)
  PROVE  Safe'
<1>1. /\ worker' = [v \in Workers |-> Dead] /\ listening' = {}
      /\ members' = [m \in Meetings |-> [q \in Parts |-> NoPort]]
      /\ UNCHANGED <<bridge, created>>
  BY DEF AddCrashes, table
<1>2. Everyone' = {} BY <1>1 DEF Everyone
<1> QED BY <1>1, <1>2 DEF IInv, Safe, StoppingApart, BridgeOfCreated, OnePortOneParticipant,
          NoOrphanListener, NoBridgeNoMembers, Registered, Dead

\* A participant is entered with a port on which nobody listened before.
LEMMA AddSafe ==
  ASSUME IInv, NEW w \in Workers, AddSucceeds(w)
  PROVE  Safe'
<1> DEFINE r == worker[w]
<1>0. TypeOK BY DEF IInv
<1>1. r.m \in Meetings /\ r.q \in Parts /\ r.port \in PortNumbers
  BY <1>0, Remembered DEF AddSucceeds, Added
<1>2. /\ r.at = "add" /\ members[r.m][r.q] = NoPort /\ r.port \notin listening /\ bridge[r.m]
      /\ listening' = listening \cup {r.port}
      /\ members' = [members EXCEPT ![r.m][r.q] = r.port]
      /\ worker' = [worker EXCEPT ![w] = Idle] /\ UNCHANGED <<bridge, created>>
  BY DEF AddSucceeds, Reply, table
<1> PICK new, port : new = <<r.m, r.q>> /\ port = r.port OBVIOUS
<1>3. new \notin Everyone /\ Everyone' = Everyone \cup {new}
  BY <1>0, <1>1, <1>2 DEF Everyone, TypeOK, PortNumbers, NoPort
<1>4. PortOf(new)' = port /\ \A x \in Everyone : PortOf(x)' = PortOf(x)
  BY <1>0, <1>1, <1>2, <1>3 DEF Everyone, PortOf, TypeOK
<1>5. \A v \in Workers : /\ worker'[v].at = "stop" <=> worker[v].at = "stop"
                         /\ worker'[v].at = "stop" => worker'[v] = worker[v]
  BY <1>0, <1>2 DEF TypeOK, Idle
<1>6. port \notin listening /\ listening' = listening \cup {port} BY <1>2
<1> HIDE DEF r
<1>7. OnePortOneParticipant'
  BY <1>6, <1>3, <1>4 DEF IInv, OnePortOneParticipant
<1>8. StoppingApart'
  BY <1>6, <1>3, <1>4, <1>5 DEF IInv, StoppingApart
<1>9. NoOrphanListener'
  BY <1>6, <1>3, <1>4, <1>5 DEF IInv, NoOrphanListener, InHand
<1>10. BridgeOfCreated' /\ NoBridgeNoMembers'
  BY <1>0, <1>1, <1>2 DEF IInv, BridgeOfCreated, NoBridgeNoMembers, Registered, TypeOK
<1> QED BY <1>7, <1>8, <1>9, <1>10 DEF Safe

\* Meeting::stop() closes the listeners of its participants and no other.
LEMMA HaltSafe ==
  ASSUME IInv, NEW w \in Workers, Halt(w)
  PROVE  Safe'
<1> DEFINE m == worker[w].m
<1>0. TypeOK BY DEF IInv
<1>1. m \in Meetings BY <1>0, Remembered DEF Halt, Destroying
<1>2. /\ listening' = listening \ MemberPorts(m)
      /\ members' = [members EXCEPT ![m] = [q \in Parts |-> NoPort]]
      /\ bridge' = [bridge EXCEPT ![m] = FALSE] /\ UNCHANGED created
  BY DEF Halt
<1>3. \A v \in Workers : /\ worker'[v].at = "stop" <=> worker[v].at = "stop"
                         /\ worker'[v].at = "stop" => worker'[v] = worker[v]
  BY <1>0 DEF Halt, Continue, TypeOK
<1>4. Everyone' = {x \in Everyone : x[1] # m}
  BY <1>0, <1>1, <1>2 DEF Everyone, TypeOK
<1>5. \A x \in Everyone' : PortOf(x)' = PortOf(x)
  BY <1>0, <1>1, <1>2, <1>4 DEF Everyone, PortOf, TypeOK
<1>6. \A p : p \in MemberPorts(m) <=> \E x \in Everyone : x[1] = m /\ PortOf(x) = p
  <2>1. ASSUME NEW q \in Registered(m)
        PROVE  /\ <<m, q>> \in Everyone /\ <<m, q>>[1] = m
               /\ PortOf(<<m, q>>) = members[m][q]
    BY <1>1, <2>1 DEF Registered, Everyone, PortOf
  <2>2. ASSUME NEW x \in Everyone, x[1] = m
        PROVE  x[2] \in Registered(m) /\ PortOf(x) = members[m][x[2]]
    BY <2>2 DEF Registered, Everyone, PortOf
  <2> HIDE DEF m
  <2>3. ASSUME NEW p \in MemberPorts(m)
        PROVE  \E x \in Everyone : x[1] = m /\ PortOf(x) = p
    <3>1. PICK q \in Registered(m) : p = members[m][q] BY <2>3 DEF MemberPorts
    <3> QED BY <2>1, <3>1
  <2>4. ASSUME NEW x \in Everyone, x[1] = m
        PROVE  PortOf(x) \in MemberPorts(m)
    BY <2>2, <2>4 DEF MemberPorts
  <2> QED BY <2>3, <2>4
<1> HIDE DEF m
<1>7. OnePortOneParticipant'
  BY <1>2, <1>4, <1>5, <1>6 DEF IInv, OnePortOneParticipant
<1>8. StoppingApart'
  BY <1>2, <1>3, <1>4, <1>5, <1>6 DEF IInv, StoppingApart
<1>9. NoOrphanListener'
  BY <1>2, <1>3, <1>4, <1>5, <1>6 DEF IInv, NoOrphanListener, InHand
<1>10. BridgeOfCreated' /\ NoBridgeNoMembers'
  BY <1>0, <1>1, <1>2 DEF IInv, BridgeOfCreated, NoBridgeNoMembers, Registered, TypeOK
<1> QED BY <1>7, <1>8, <1>9, <1>10 DEF Safe

\* The listener of a participant taken out of the table is in its handler's hand.
LEMMA RemoveSafe ==
  ASSUME IInv, NEW w \in Workers, RemovePart(w)
  PROVE  Safe'
<1> DEFINE r   == worker[w]
           old == <<r.m, r.q>>
<1>0. TypeOK BY DEF IInv
<1>1. r.m \in Meetings /\ r.q \in Parts /\ r.at = "remove"
  BY <1>0, Remembered DEF RemovePart, Finding
<1>2. UNCHANGED <<listening, bridge, created>> BY DEF RemovePart, table
<1>3. CASE members[r.m][r.q] = NoPort
  <2>1. UNCHANGED members /\ worker' = [worker EXCEPT ![w] = Idle]
    BY <1>3 DEF RemovePart, Reply
  <2>2. \A v \in Workers : /\ worker'[v].at = "stop" <=> worker[v].at = "stop"
                           /\ worker'[v].at = "stop" => worker'[v].port = worker[v].port
    BY <1>0, <1>1, <2>1 DEF TypeOK, Idle
  <2> QED BY <1>2, <2>1, <2>2, QuietStep
<1>4. CASE members[r.m][r.q] # NoPort
  <2>1. /\ members' = [members EXCEPT ![r.m][r.q] = NoPort]
        /\ worker' = [worker EXCEPT ![w] =
             [worker[w] EXCEPT !.at = "stop", !.port = members[r.m][r.q]]]
    BY <1>0, <1>4 DEF RemovePart, TypeOK
  <2>2. old \in Everyone /\ PortOf(old) = members[r.m][r.q] /\ Everyone' = Everyone \ {old}
    BY <1>0, <1>1, <1>4, <2>1 DEF Everyone, PortOf, TypeOK
  <2>3. \A x \in Everyone' : PortOf(x)' = PortOf(x)
    BY <1>0, <1>1, <2>1, <2>2 DEF Everyone, PortOf, TypeOK
  <2>4. worker'[w].at = "stop" /\ worker'[w].port = PortOf(old)
    <3>1. worker[w] \in Finding BY <1>0, <1>1, Remembered
    <3>2. worker'[w] = [worker[w] EXCEPT !.at = "stop", !.port = members[r.m][r.q]]
      BY <1>0, <2>1 DEF TypeOK
    <3> QED BY <2>2, <3>1, <3>2 DEF Finding
  <2>5. \A v \in Workers : v # w => worker'[v] = worker[v]
    BY <1>0, <2>1 DEF TypeOK
  <2>6. worker[w].at # "stop" BY <1>1
  <2> HIDE DEF old, r
  <2>7. OnePortOneParticipant'
    BY <1>2, <2>2, <2>3 DEF IInv, OnePortOneParticipant
  <2>8. StoppingApart'
    BY <1>2, <2>2, <2>3, <2>4, <2>5, <2>6 DEF IInv, StoppingApart, OnePortOneParticipant
  <2>9. NoOrphanListener'
    BY <1>2, <2>2, <2>3, <2>4, <2>5, <2>6 DEF IInv, NoOrphanListener, InHand
  <2>10. BridgeOfCreated' /\ NoBridgeNoMembers'
    BY <1>0, <1>1, <1>2, <2>1
       DEF IInv, BridgeOfCreated, NoBridgeNoMembers, Registered, TypeOK, r
  <2> QED BY <2>7, <2>8, <2>9, <2>10 DEF Safe
<1> QED BY <1>3, <1>4

\* Stopping a participant that was taken out closes no other's listener.
LEMMA StopSafe ==
  ASSUME IInv, NEW w \in Workers, StopPart(w)
  PROVE  Safe'
<1>0. TypeOK BY DEF IInv
<1>1. /\ worker[w].at = "stop" /\ listening' = listening \ {worker[w].port}
      /\ UNCHANGED <<members, bridge, created>>
  BY DEF StopPart, table
<1>2. \A v \in Workers : /\ worker'[v].at = "stop" <=> worker[v].at = "stop" /\ v # w
                         /\ worker'[v].at = "stop" => worker'[v] = worker[v]
  <2>1. worker[w] \in Removed BY <1>0, <1>1, Remembered
  <2>2. worker' = [worker EXCEPT ![w] = [worker[w] EXCEPT !.at = "release"]]
    BY <1>0 DEF StopPart, Continue, TypeOK
  <2>3. worker'[w].at = "release" BY <1>0, <2>1, <2>2 DEF TypeOK, Removed
  <2> QED BY <1>0, <2>2, <2>3 DEF TypeOK
<1>3. UNCHANGED Everyone /\ \A x : PortOf(x)' = PortOf(x) BY <1>1 DEF Everyone, PortOf
<1>4. OnePortOneParticipant' BY <1>1, <1>3 DEF IInv, OnePortOneParticipant, StoppingApart
<1>5. StoppingApart' BY <1>1, <1>2, <1>3 DEF IInv, StoppingApart
<1>6. NoOrphanListener' BY <1>1, <1>2, <1>3 DEF IInv, NoOrphanListener, InHand
<1>7. BridgeOfCreated' /\ NoBridgeNoMembers'
  BY <1>1 DEF IInv, BridgeOfCreated, NoBridgeNoMembers, Registered
<1> QED BY <1>4, <1>5, <1>6, <1>7 DEF Safe

\* The inductive invariant holds of the empty service.
LEMMA InitIInv == Init => IInv
<1> SUFFICES ASSUME Init PROVE IInv OBVIOUS
<1>1. Everyone = {} BY DEF Init, Everyone
<1>2. next \in Allocator!Indexes \cup {0} /\ used \in [Allocator!Indexes -> BOOLEAN]
  BY DEF Init, Allocator!Init
<1>3. TypeOK BY <1>2 DEF Init, TypeOK, Handling
<1>4. Safe
  BY <1>1 DEF Init, Safe, StoppingApart, BridgeOfCreated, OnePortOneParticipant,
     NoOrphanListener, NoBridgeNoMembers, Registered, Idle
<1> QED BY <1>3, <1>4 DEF IInv, Safe

\* Every step keeps the inductive invariant.
LEMMA StepIInv == IInv /\ [Next]_vars => IInv'
<1> SUFFICES ASSUME IInv, [Next]_vars PROVE IInv' OBVIOUS
<1>1. TypeOK' BY StepTypes DEF IInv
<1>2. CASE UNCHANGED vars
  <2>1. UNCHANGED <<members, listening, bridge, created, worker>> BY <1>2 DEF vars, table
  <2>2. Safe' BY <2>1, QuietStep
  <2> QED BY <1>1, <2>2 DEF IInv, Safe
<1>3. ASSUME NEW w \in Workers,
             Create(w) \/ Add(w) \/ DestroyMeeting(w) \/ Del(w)
      PROVE  Safe'
  BY <1>3, CreateSafe, CrashSafe, AddSafe, HaltSafe, RemoveSafe, StopSafe, QuietHandlers
     DEF Concerns
<1> QED BY <1>1, <1>2, <1>3 DEF Next, NotFound, Died, IInv, Safe

-----------------------------------------------------------------------------
(* The pool while no meeting was destroyed.                                *)

\* The pool's range: it ends below 2^16, and port 0 is not in it (a deletion
\* gives back only ports greater than 0).  main.cpp checks neither.
RangeFits == 0 < base /\ base + count <= Width

\* The handler of w has a port that is not a registered participant's.
Holds(w) == worker[w].at \in {"add", "undo", "stop", "release"}

\* No meeting was destroyed and the process lives.
Settled == meetings = created /\ EveryRequestAnswered

\* A handler that destroys a meeting has erased it from the manager's table.
Erased == \A w \in Workers :
  worker[w].at \in {"collect", "halt", "give"} => worker[w].m \in created \ meetings

\* A port in use has an owner, and no port has two.
OneOwner ==
  /\ \A i \in Allocator!Indexes : used[i] <=>
       \/ \E x \in Everyone : PortOf(x) = Allocator!Port(i)
       \/ \E v \in Workers : Holds(v) /\ worker[v].port = Allocator!Port(i)
  /\ \A v \in Workers, x \in Everyone : Holds(v) => worker[v].port # PortOf(x)
  /\ \A v, w \in Workers :
       Holds(v) /\ Holds(w) /\ worker[v].port = worker[w].port => v = w

PoolInv == Erased /\ (Settled => OneOwner)

\* In such a range a port determines its index.
LEMMA PortsInRange ==
  ASSUME RangeFits
  PROVE  /\ \A i \in Allocator!Indexes : Allocator!Port(i) = base + i
         /\ \A i, j \in Allocator!Indexes : Allocator!Port(i) = Allocator!Port(j) => i = j
<1>1. ASSUME NEW i \in Allocator!Indexes PROVE Allocator!Port(i) = base + i
  <2>1. base + i \in 0 .. Width - 1 BY DEF RangeFits, Allocator!Indexes
  <2>2. \A n \in 0 .. Width - 1 : n % Width = n OBVIOUS
  <2> QED BY <2>1, <2>2 DEF Allocator!Port
<1> QED BY <1>1 DEF Allocator!Indexes

\* A release frees the index of the port it names, if any, and no other.
LEMMA ReleaseFrees ==
  ASSUME RangeFits, used \in [Allocator!Indexes -> BOOLEAN], NEW p \in PortNumbers,
         Allocator!Release(p)
  PROVE  \A i \in Allocator!Indexes : used'[i] <=> used[i] /\ p # Allocator!Port(i)
<1>1. CASE p < base \/ p >= base + count
  <2>1. used' = used BY <1>1 DEF Allocator!Release
  <2>2. \A i \in Allocator!Indexes : p # Allocator!Port(i)
    BY <1>1, PortsInRange DEF Allocator!Indexes, PortNumbers
  <2> QED BY <2>1, <2>2
<1>2. CASE ~(p < base \/ p >= base + count)
  <2>1. used' = [used EXCEPT ![p - base] = FALSE] BY <1>2 DEF Allocator!Release
  <2>2. \A i \in Allocator!Indexes : p = Allocator!Port(i) <=> i = p - base
    BY <1>2, PortsInRange DEF Allocator!Indexes, PortNumbers
  <2> QED BY <2>1, <2>2
<1> QED BY <1>1, <1>2

\* allocate() gives out a port that was not in use.
LEMMA FirstHit ==
  ASSUME NEW avail, NEW i, Allocator!Allocate(avail, i)
  PROVE  ~used[i]
BY DEF Allocator!Allocate, Allocator!Hits

\* What no step undoes: a meeting that is gone stays gone, and so does the process.
LEMMA SettledBefore ==
  ASSUME IInv, [Next]_vars, Settled'
  PROVE  Settled
<1>0. TypeOK BY DEF IInv
<1>1. meetings = created
  <2>1. ASSUME NEW w \in Workers, Create(w) PROVE meetings = created
    <3>1. PICK m \in Meetings \ created :
            meetings' = meetings \cup {m} /\ created' = created \cup {m}
      BY <2>1 DEF Create
    <3>2. meetings' = created' BY DEF Settled
    <3>3. meetings \subseteq created BY <1>0 DEF TypeOK
    <3>4. \A x \in created : x \in meetings BY <3>1, <3>2
    <3> QED BY <3>3, <3>4
  <2>2. ASSUME NEW w \in Workers, Erase(w) PROVE FALSE
    BY <1>0, <2>2 DEF Erase, Settled, TypeOK
  <2>3. ASSUME NEW w \in Workers, Add(w) PROVE meetings = created
    BY <2>3 DEF Add, BeginAdd, AllocatePort, AddFails, AddCrashes, AddSucceeds, UndoAdd,
       table, Settled
  <2>4. ASSUME NEW w \in Workers, CollectPorts(w) \/ Halt(w) \/ GiveBack(w)
        PROVE  meetings = created
    BY <2>4 DEF CollectPorts, Halt, GiveBack, table, Settled
  <2>5. ASSUME NEW w \in Workers, Del(w) PROVE meetings = created
    BY <2>5 DEF Del, BeginDel, FindPart, FindAgain, RemovePart, StopPart, ReleasePort,
       table, Settled
  <2>6. CASE UNCHANGED vars BY <2>6 DEF vars, table, Settled
  <2> QED BY <2>1, <2>2, <2>3, <2>4, <2>5, <2>6 DEF Next, DestroyMeeting, NotFound, Died
<1>2. ASSUME NEW v \in Workers, worker[v] = Dead PROVE FALSE
  <2>0. worker[v].at = "dead" BY <1>2 DEF Dead
  <2>1. worker'[v] # Dead BY DEF Settled, EveryRequestAnswered
  <2>2. ASSUME NEW w \in Workers, Add(w) PROVE worker'[v] = worker[v]
    BY <1>0, <2>0, <2>1, <2>2
       DEF Add, BeginAdd, AllocatePort, AddFails, AddCrashes, AddSucceeds, UndoAdd,
           Continue, Reply, TypeOK
  <2>3. ASSUME NEW w \in Workers, DestroyMeeting(w) PROVE worker'[v] = worker[v]
    BY <1>0, <2>0, <2>3 DEF DestroyMeeting, Erase, CollectPorts, Halt, GiveBack, Continue,
       Reply, TypeOK
  <2>4. ASSUME NEW w \in Workers, Del(w) PROVE worker'[v] = worker[v]
    BY <1>0, <2>0, <2>4 DEF Del, BeginDel, FindPart, FindAgain, RemovePart, StopPart,
       ReleasePort, Continue, Reply, TypeOK
  <2>5. ASSUME NEW w \in Workers, Create(w) PROVE worker'[v] = worker[v]
    BY <2>5 DEF Create
  <2>6. UNCHANGED vars => worker'[v] = worker[v] BY DEF vars
  <2>7. worker'[v] = worker[v]
    BY <2>2, <2>3, <2>4, <2>5, <2>6 DEF Next, NotFound, Died
  <2> QED BY <1>2, <2>1, <2>7
<1> QED BY <1>1, <1>2 DEF Settled, EveryRequestAnswered

\* Only the handler of w moves.
OthersStay(w) == \A v \in Workers : v # w => worker'[v] = worker[v]

\* A step that registers and removes nobody and leaves the pool alone.
LEMMA SameOwners ==
  ASSUME OneOwner, UNCHANGED <<members, used>>,
         \A v \in Workers : (Holds(v)' <=> Holds(v))
                              /\ (Holds(v) => worker'[v].port = worker[v].port)
  PROVE  OneOwner'
<1>1. UNCHANGED Everyone /\ \A x : PortOf(x)' = PortOf(x) BY DEF Everyone, PortOf
<1>2. \A i : Allocator!Port(i)' = Allocator!Port(i) BY DEF Allocator!Port
<1>3. UNCHANGED Allocator!Indexes BY DEF Allocator!Indexes
<1> QED BY <1>1, <1>2, <1>3 DEF OneOwner

\* A handler takes an unused port.
LEMMA TakesPort ==
  ASSUME RangeFits, OneOwner, used \in [Allocator!Indexes -> BOOLEAN],
         UNCHANGED members, NEW w \in Workers, OthersStay(w), ~Holds(w), Holds(w)',
         NEW i \in Allocator!Indexes, ~used[i], used' = [used EXCEPT ![i] = TRUE],
         worker'[w].port = Allocator!Port(i)
  PROVE  OneOwner'
<1>1. UNCHANGED Everyone /\ \A x : PortOf(x)' = PortOf(x) BY DEF Everyone, PortOf
<1>2. \A j : Allocator!Port(j)' = Allocator!Port(j) BY DEF Allocator!Port
<1>3. UNCHANGED Allocator!Indexes BY DEF Allocator!Indexes
<1>4. \A j \in Allocator!Indexes : used'[j] <=> used[j] \/ j = i OBVIOUS
<1>5. \A v \in Workers : v # w =>
        (Holds(v)' <=> Holds(v)) /\ worker'[v].port = worker[v].port
  BY DEF OthersStay, Holds
<1>6. /\ \A x \in Everyone : PortOf(x) # Allocator!Port(i)
      /\ \A v \in Workers : Holds(v) => worker[v].port # Allocator!Port(i)
  BY DEF OneOwner
<1>7. \A j \in Allocator!Indexes : Allocator!Port(j) = Allocator!Port(i) => j = i
  BY PortsInRange
<1>8. \A j \in Allocator!Indexes : used'[j] <=>
        \/ \E x \in Everyone : PortOf(x) = Allocator!Port(j)
        \/ \E v \in Workers : Holds(v)' /\ worker'[v].port = Allocator!Port(j)
  BY <1>4, <1>5, <1>7 DEF OneOwner
<1>9. \A v \in Workers, x \in Everyone : Holds(v)' => worker'[v].port # PortOf(x)
  BY <1>5, <1>6 DEF OneOwner
<1>10. \A u, v \in Workers :
         Holds(u)' /\ Holds(v)' /\ worker'[u].port = worker'[v].port => u = v
  BY <1>5, <1>6 DEF OneOwner
<1> QED BY <1>1, <1>2, <1>3, <1>8, <1>9, <1>10 DEF OneOwner

\* A handler gives a port back and has none.
LEMMA GivesBack ==
  ASSUME OneOwner, UNCHANGED members, NEW w \in Workers, OthersStay(w),
         Holds(w), ~Holds(w)',
         \A i \in Allocator!Indexes : used'[i] <=> used[i] /\ worker[w].port # Allocator!Port(i)
  PROVE  OneOwner'
<1>1. UNCHANGED Everyone /\ \A x : PortOf(x)' = PortOf(x) BY DEF Everyone, PortOf
<1>2. \A j : Allocator!Port(j)' = Allocator!Port(j) BY DEF Allocator!Port
<1>3. UNCHANGED Allocator!Indexes BY DEF Allocator!Indexes
<1>4. \A v \in Workers : Holds(v)' <=> Holds(v) /\ v # w BY DEF OthersStay, Holds
<1>5. \A v \in Workers : v # w => worker'[v].port = worker[v].port BY DEF OthersStay
<1>6. \A i \in Allocator!Indexes : used'[i] <=>
        \/ \E x \in Everyone : PortOf(x) = Allocator!Port(i)
        \/ \E v \in Workers : Holds(v)' /\ worker'[v].port = Allocator!Port(i)
  BY <1>4, <1>5 DEF OneOwner
<1>7. \A v \in Workers, x \in Everyone : Holds(v)' => worker'[v].port # PortOf(x)
  BY <1>4, <1>5 DEF OneOwner
<1>8. \A u, v \in Workers :
         Holds(u)' /\ Holds(v)' /\ worker'[u].port = worker'[v].port => u = v
  BY <1>4, <1>5 DEF OneOwner
<1> QED BY <1>1, <1>2, <1>3, <1>6, <1>7, <1>8 DEF OneOwner

\* The port goes from the handler to the participant it has registered.
LEMMA PortIsEntered ==
  ASSUME OneOwner, UNCHANGED used, NEW w \in Workers, OthersStay(w), Holds(w), ~Holds(w)',
         NEW new, new \notin Everyone, Everyone' = Everyone \cup {new},
         PortOf(new)' = worker[w].port, \A x \in Everyone : PortOf(x)' = PortOf(x)
  PROVE  OneOwner'
<1>2. \A j : Allocator!Port(j)' = Allocator!Port(j) BY DEF Allocator!Port
<1>3. UNCHANGED Allocator!Indexes BY DEF Allocator!Indexes
<1>4. \A v \in Workers : Holds(v)' <=> Holds(v) /\ v # w BY DEF OthersStay, Holds
<1>5. \A v \in Workers : v # w => worker'[v].port = worker[v].port BY DEF OthersStay
<1>6. \A i \in Allocator!Indexes : used[i] <=>
        \/ \E x \in Everyone' : PortOf(x)' = Allocator!Port(i)
        \/ \E v \in Workers : Holds(v)' /\ worker'[v].port = Allocator!Port(i)
  BY <1>4, <1>5 DEF OneOwner
<1>7. \A v \in Workers, x \in Everyone' : Holds(v)' => worker'[v].port # PortOf(x)'
  BY <1>4, <1>5 DEF OneOwner
<1>8. \A u, v \in Workers :
         Holds(u)' /\ Holds(v)' /\ worker'[u].port = worker'[v].port => u = v
  BY <1>4, <1>5 DEF OneOwner
<1> QED BY <1>2, <1>3, <1>6, <1>7, <1>8 DEF OneOwner

\* The port goes from the participant to the handler that has removed it.
LEMMA PortIsTakenOut ==
  ASSUME OneOwner, OnePortOneParticipant, UNCHANGED used, NEW w \in Workers, OthersStay(w),
         ~Holds(w), Holds(w)', NEW old \in Everyone, Everyone' = Everyone \ {old},
         worker'[w].port = PortOf(old), \A x \in Everyone' : PortOf(x)' = PortOf(x)
  PROVE  OneOwner'
<1>2. \A j : Allocator!Port(j)' = Allocator!Port(j) BY DEF Allocator!Port
<1>3. UNCHANGED Allocator!Indexes BY DEF Allocator!Indexes
<1>4. \A v \in Workers : Holds(v)' <=> Holds(v) \/ v = w BY DEF OthersStay, Holds
<1>5. \A v \in Workers : v # w => worker'[v].port = worker[v].port BY DEF OthersStay
<1>6. \A i \in Allocator!Indexes : used[i] <=>
        \/ \E x \in Everyone' : PortOf(x)' = Allocator!Port(i)
        \/ \E v \in Workers : Holds(v)' /\ worker'[v].port = Allocator!Port(i)
  BY <1>4, <1>5 DEF OneOwner
<1>7. \A v \in Workers, x \in Everyone' : Holds(v)' => worker'[v].port # PortOf(x)'
  BY <1>4, <1>5 DEF OneOwner, OnePortOneParticipant
<1>8. \A u, v \in Workers :
         Holds(u)' /\ Holds(v)' /\ worker'[u].port = worker'[v].port => u = v
  BY <1>4, <1>5 DEF OneOwner
<1> QED BY <1>2, <1>3, <1>6, <1>7, <1>8 DEF OneOwner

\* Each section of an add keeps a single owner for every port in use.
LEMMA AddOwners ==
  ASSUME RangeFits, IInv, NEW w \in Workers, Add(w), Settled', OneOwner
  PROVE  OneOwner'
<1> USE DEF ports, table
<1>0. TypeOK BY DEF IInv
<1>a. /\ worker[w].at = "allocate" => worker[w] \in Adding
      /\ worker[w].at \in {"add", "undo"} => worker[w] \in Added
  BY <1>0, Remembered
<1>1. CASE BeginAdd(w)
  <2>1. PICK m, q, k :
          worker' = [worker EXCEPT ![w] =
                       [at |-> "allocate", kind |-> k, m |-> m, q |-> q, port |-> NoPort]]
    BY <1>1 DEF BeginAdd
  <2>2. \A v \in Workers : (Holds(v)' <=> Holds(v)) /\ (Holds(v) => worker'[v] = worker[v])
    BY <1>0, <1>1, <2>1 DEF BeginAdd, TypeOK, Holds
  <2> QED BY <1>1, <2>2, SameOwners DEF BeginAdd
<1>2. CASE AllocatePort(w)
  <2>0. UNCHANGED members /\ worker[w].at = "allocate" BY <1>2 DEF AllocatePort
  <2>1. CASE \E avail : \E i \in Allocator!Indexes :
               /\ Allocator!Allocate(avail, i)
               /\ worker' = [worker EXCEPT ![w].at = "add", ![w].port = Allocator!Port(i)]
    <3>0. PICK avail : \E i \in Allocator!Indexes :
               /\ Allocator!Allocate(avail, i)
               /\ worker' = [worker EXCEPT ![w].at = "add", ![w].port = Allocator!Port(i)]
      BY <2>1
    <3>1. PICK i \in Allocator!Indexes :
               /\ Allocator!Allocate(avail, i)
               /\ worker' = [worker EXCEPT ![w].at = "add", ![w].port = Allocator!Port(i)]
      BY <3>0
    <3>2. ~used[i] /\ used' = [used EXCEPT ![i] = TRUE]
      <4>1. used' = [used EXCEPT ![i] = TRUE] BY <3>1 DEF Allocator!Allocate
      <4> QED BY <3>1, <4>1, FirstHit
    <3> DEFINE r == [worker[w] EXCEPT !.at = "add", !.port = Allocator!Port(i)]
    <3>3. worker' = [worker EXCEPT ![w] = r] BY <1>0, <3>1 DEF TypeOK
    <3>4. r.at = "add" /\ r.port = Allocator!Port(i) BY <1>a, <2>0 DEF Adding
    <3>5. OthersStay(w) /\ worker'[w] = r BY <1>0, <3>3 DEF TypeOK, OthersStay
    <3>6. ~Holds(w) /\ Holds(w)' /\ worker'[w].port = Allocator!Port(i)
      BY <2>0, <3>4, <3>5 DEF Holds
    <3>7. used \in [Allocator!Indexes -> BOOLEAN] BY <1>0 DEF TypeOK
    <3> HIDE DEF r
    <3> QED BY <2>0, <3>2, <3>5, <3>6, <3>7, TakesPort
  <2>2. CASE UNCHANGED <<next, used>> /\ Reply(w)
    <3>1. \A v \in Workers : (Holds(v)' <=> Holds(v)) /\ (Holds(v) => worker'[v] = worker[v])
      BY <1>0, <2>0, <2>2 DEF Reply, Idle, TypeOK, Holds
    <3> QED BY <2>0, <2>2, <3>1, SameOwners
  <2> QED BY <1>2, <2>1, <2>2 DEF AllocatePort, Allocator!Exhausted, Allocator!pool
<1>3. CASE AddFails(w)
  <2>1. worker' = [worker EXCEPT ![w] = [worker[w] EXCEPT !.at = "undo"]]
    BY <1>0, <1>3 DEF AddFails, Continue, TypeOK
  <2>2. worker[w].at = "add" BY <1>3 DEF AddFails
  <2>3. \A v \in Workers : (Holds(v)' <=> Holds(v))
                             /\ (Holds(v) => worker'[v].port = worker[v].port)
    BY <1>0, <1>a, <2>1, <2>2 DEF Added, TypeOK, Holds
  <2> QED BY <1>3, <2>3, SameOwners DEF AddFails
<1>4. CASE AddCrashes(w)
  BY <1>4 DEF AddCrashes, Settled, EveryRequestAnswered
<1>5. CASE AddSucceeds(w)
  <2> DEFINE r == worker[w]
  <2>1. r.m \in Meetings /\ r.q \in Parts /\ r.port \in PortNumbers
    BY <1>5, <1>a DEF AddSucceeds, Added
  <2>2. /\ r.at = "add" /\ members[r.m][r.q] = NoPort
        /\ members' = [members EXCEPT ![r.m][r.q] = r.port]
        /\ worker' = [worker EXCEPT ![w] = Idle] /\ UNCHANGED used
    BY <1>5 DEF AddSucceeds, Reply
  <2> PICK new : new = <<r.m, r.q>> OBVIOUS
  <2>3. new \notin Everyone /\ Everyone' = Everyone \cup {new}
    BY <1>0, <2>1, <2>2 DEF Everyone, TypeOK, PortNumbers, NoPort
  <2>4. PortOf(new)' = r.port /\ \A x \in Everyone : PortOf(x)' = PortOf(x)
    BY <1>0, <2>1, <2>2, <2>3 DEF Everyone, PortOf, TypeOK
  <2>5. OthersStay(w) /\ Holds(w) /\ ~Holds(w)'
    BY <1>0, <2>2 DEF TypeOK, Idle, OthersStay, Holds
  <2> QED BY <2>2, <2>3, <2>4, <2>5, PortIsEntered
<1>6. CASE UndoAdd(w)
  <2>1. /\ worker[w].at = "undo" /\ worker' = [worker EXCEPT ![w] = Idle]
        /\ UNCHANGED members /\ Allocator!Release(worker[w].port)
    BY <1>6 DEF UndoAdd, Reply
  <2>2. worker[w].port \in PortNumbers BY <1>a, <2>1 DEF Added
  <2>3. OthersStay(w) /\ Holds(w) /\ ~Holds(w)'
    BY <1>0, <2>1 DEF TypeOK, Idle, OthersStay, Holds
  <2>4. used \in [Allocator!Indexes -> BOOLEAN] BY <1>0 DEF TypeOK
  <2>5. \A i \in Allocator!Indexes : used'[i] <=> used[i] /\ worker[w].port # Allocator!Port(i)
    BY <2>1, <2>2, <2>4, ReleaseFrees
  <2> QED BY <2>1, <2>3, <2>5, GivesBack
<1> QED BY <1>1, <1>2, <1>3, <1>4, <1>5, <1>6 DEF Add

\* Each section of a deletion keeps a single owner for every port in use.
LEMMA DelOwners ==
  ASSUME RangeFits, IInv, NEW w \in Workers, Del(w), OneOwner
  PROVE  OneOwner'
<1> USE DEF ports, table
<1>0. TypeOK BY DEF IInv
<1>a. /\ worker[w].at \in {"find", "again", "remove"} => worker[w] \in Finding
      /\ worker[w].at \in {"stop", "release"} => worker[w] \in Removed
  BY <1>0, Remembered
<1>1. CASE BeginDel(w)
  <2>1. PICK m, q :
          worker' = [worker EXCEPT ![w] = [at |-> "find", m |-> m, q |-> q, port |-> NoPort]]
    BY <1>1 DEF BeginDel
  <2>2. \A v \in Workers : (Holds(v)' <=> Holds(v)) /\ (Holds(v) => worker'[v] = worker[v])
    BY <1>0, <1>1, <2>1 DEF BeginDel, TypeOK, Holds
  <2> QED BY <1>1, <2>2, SameOwners DEF BeginDel
<1>2. CASE FindPart(w) \/ FindAgain(w)
  <2>1. \/ worker' = [worker EXCEPT ![w] = Idle]
        \/ worker' = [worker EXCEPT ![w] = [worker[w] EXCEPT !.at = "again"]]
        \/ worker' = [worker EXCEPT ![w] = [worker[w] EXCEPT !.at = "remove"]]
    BY <1>0, <1>2 DEF FindPart, FindAgain, Reply, Continue, TypeOK
  <2>2. worker[w].at \in {"find", "again"} BY <1>2 DEF FindPart, FindAgain
  <2>3. \A v \in Workers : (Holds(v)' <=> Holds(v)) /\ (Holds(v) => worker'[v] = worker[v])
    BY <1>0, <1>a, <2>1, <2>2 DEF Finding, Idle, TypeOK, Holds
  <2> QED BY <1>2, <2>3, SameOwners DEF FindPart, FindAgain
<1>3. CASE RemovePart(w)
  <2> DEFINE r   == worker[w]
             old == <<r.m, r.q>>
  <2>0. r.m \in Meetings /\ r.q \in Parts /\ r.at = "remove" /\ r \in Finding
    BY <1>3, <1>a DEF RemovePart, Finding
  <2>1. CASE members[r.m][r.q] = NoPort
    <3>1. \A v \in Workers : (Holds(v)' <=> Holds(v)) /\ (Holds(v) => worker'[v] = worker[v])
      BY <1>0, <1>3, <2>0, <2>1 DEF RemovePart, Reply, TypeOK, Idle, Holds
    <3> QED BY <1>3, <2>1, <3>1, SameOwners DEF RemovePart
  <2>2. CASE members[r.m][r.q] # NoPort
    <3>1. /\ members' = [members EXCEPT ![r.m][r.q] = NoPort]
          /\ worker' = [worker EXCEPT ![w] =
               [worker[w] EXCEPT !.at = "stop", !.port = members[r.m][r.q]]]
          /\ UNCHANGED used
      BY <1>0, <1>3, <2>2 DEF RemovePart, TypeOK
    <3>2. old \in Everyone /\ PortOf(old) = members[r.m][r.q] /\ Everyone' = Everyone \ {old}
      BY <1>0, <2>0, <2>2, <3>1 DEF Everyone, PortOf, TypeOK
    <3>3. \A x \in Everyone' : PortOf(x)' = PortOf(x)
      BY <1>0, <2>0, <3>1, <3>2 DEF Everyone, PortOf, TypeOK
    <3>4. worker'[w] = [worker[w] EXCEPT !.at = "stop", !.port = PortOf(old)]
      BY <1>0, <3>1, <3>2 DEF TypeOK
    <3>5. worker'[w].at = "stop" /\ worker'[w].port = PortOf(old)
      BY <2>0, <3>4 DEF Finding
    <3>6. OthersStay(w) BY <1>0, <3>1 DEF TypeOK, OthersStay
    <3>7. ~Holds(w) /\ Holds(w)' BY <2>0, <3>5 DEF Holds
    <3>8. OnePortOneParticipant BY DEF IInv
    <3> HIDE DEF old, r
    <3> QED BY <3>1, <3>2, <3>3, <3>5, <3>6, <3>7, <3>8, PortIsTakenOut
  <2> QED BY <2>1, <2>2
<1>4. CASE StopPart(w)
  <2>1. worker[w] \in Removed /\ worker[w].at = "stop" BY <1>4, <1>a DEF StopPart
  <2>2. worker' = [worker EXCEPT ![w] = [worker[w] EXCEPT !.at = "release"]]
    BY <1>0, <1>4 DEF StopPart, Continue, TypeOK
  <2>3. \A v \in Workers : (Holds(v)' <=> Holds(v))
                             /\ (Holds(v) => worker'[v].port = worker[v].port)
    BY <1>0, <2>1, <2>2 DEF Removed, TypeOK, Holds
  <2> QED BY <1>4, <2>3, SameOwners DEF StopPart
<1>5. CASE ReleasePort(w)
  <2>1. /\ worker[w].at = "release" /\ worker' = [worker EXCEPT ![w] = Idle]
        /\ UNCHANGED members
    BY <1>5 DEF ReleasePort, Reply
  <2>2. worker[w].port \in PortNumbers BY <1>a, <2>1 DEF Removed
  <2>3. OthersStay(w) /\ Holds(w) /\ ~Holds(w)'
    BY <1>0, <2>1 DEF TypeOK, Idle, OthersStay, Holds
  <2>4. used \in [Allocator!Indexes -> BOOLEAN] BY <1>0 DEF TypeOK
  <2>5. \A i \in Allocator!Indexes : used'[i] <=> used[i] /\ worker[w].port # Allocator!Port(i)
    <3>1. CASE worker[w].port > 0
      <4>1. Allocator!Release(worker[w].port) BY <1>5, <3>1 DEF ReleasePort
      <4> QED BY <2>2, <2>4, <4>1, ReleaseFrees
    <3>2. CASE ~(worker[w].port > 0)
      <4>1. used' = used BY <1>5, <3>2 DEF ReleasePort
      <4>2. \A i \in Allocator!Indexes : worker[w].port # Allocator!Port(i)
        BY <2>2, <3>2, PortsInRange DEF Allocator!Indexes, RangeFits, PortNumbers
      <4> QED BY <4>1, <4>2
    <3> QED BY <3>1, <3>2
  <2> QED BY <2>1, <2>3, <2>5, GivesBack
<1> QED BY <1>1, <1>2, <1>3, <1>4, <1>5 DEF Del

\* A meeting that a handler destroys was erased before, and stays so.
LEMMA StaysErased ==
  ASSUME IInv, Erased, [Next]_vars
  PROVE  Erased'
<1> USE DEF ports, table
<1>0. TypeOK BY DEF IInv
<1>1. ASSUME NEW w \in Workers, Create(w) PROVE Erased'
  <2>1. PICK m \in Meetings \ created :
          /\ meetings' = meetings \cup {m} /\ created' = created \cup {m}
          /\ UNCHANGED worker
    BY <1>1 DEF Create
  <2> QED BY <2>1 DEF Erased
<1>2. ASSUME NEW w \in Workers, Add(w) \/ Del(w) PROVE Erased'
  <2>1. UNCHANGED <<meetings, created>>
    BY <1>2 DEF Add, BeginAdd, AllocatePort, AddFails, AddCrashes, AddSucceeds, UndoAdd,
       Del, BeginDel, FindPart, FindAgain, RemovePart, StopPart, ReleasePort
  <2>2. ASSUME NEW v \in Workers, worker'[v].at \in {"collect", "halt", "give"}
        PROVE  worker'[v] = worker[v]
    <3>1. CASE BeginAdd(w) \/ AllocatePort(w) \/ AddFails(w) \/ UndoAdd(w)
      BY <1>0, <2>2, <3>1, Remembered DEF TypeOK, BeginAdd, AllocatePort, AddFails, UndoAdd,
         Reply, Continue, Idle, Adding, Added
    <3>2. CASE AddCrashes(w) \/ AddSucceeds(w)
      BY <1>0, <2>2, <3>2 DEF TypeOK, AddCrashes, AddSucceeds, Reply, Idle, Dead
    <3>3. CASE BeginDel(w) \/ FindPart(w) \/ FindAgain(w) \/ ReleasePort(w)
      BY <1>0, <2>2, <3>3, Remembered DEF TypeOK, BeginDel, FindPart, FindAgain, ReleasePort,
         Reply, Continue, Idle, Finding
    <3>4. CASE RemovePart(w) \/ StopPart(w)
      BY <1>0, <2>2, <3>4, Remembered DEF TypeOK, RemovePart, StopPart, Reply, Continue, Idle,
         Finding, Removed
    <3> QED BY <1>2, <3>1, <3>2, <3>3, <3>4 DEF Add, Del
  <2> QED BY <2>1, <2>2 DEF Erased
<1>3. ASSUME NEW w \in Workers, Erase(w) PROVE Erased'
  <2>1. PICK m \in meetings :
          /\ meetings' = meetings \ {m}
          /\ worker' = [worker EXCEPT ![w] = [at |-> "collect", m |-> m, owed |-> {}]]
    BY <1>3 DEF Erase
  <2>2. UNCHANGED created /\ m \in created BY <1>0, <1>3 DEF Erase, TypeOK
  <2>3. worker'[w].m = m /\ \A v \in Workers : v # w => worker'[v] = worker[v]
    BY <1>0, <2>1 DEF TypeOK
  <2>4. ASSUME NEW v \in Workers, worker'[v].at \in {"collect", "halt", "give"}
        PROVE  worker'[v].m \in created' \ meetings'
    BY <2>1, <2>2, <2>3, <2>4 DEF Erased
  <2> QED BY <2>4 DEF Erased
<1>4. ASSUME NEW w \in Workers, CollectPorts(w) \/ Halt(w) \/ GiveBack(w) PROVE Erased'
  <2>1. UNCHANGED <<meetings, created>> BY <1>4 DEF CollectPorts, Halt, GiveBack
  <2>2. worker[w].at \in {"collect", "halt", "give"} /\ worker[w] \in Destroying
    BY <1>0, <1>4, Remembered DEF CollectPorts, Halt, GiveBack
  <2>3. worker'[w] = Idle \/ worker'[w].m = worker[w].m
    BY <1>0, <1>4, <2>2 DEF CollectPorts, Halt, GiveBack, Reply, Continue, TypeOK, Destroying
  <2>4. \A v \in Workers : v # w => worker'[v] = worker[v]
    BY <1>0, <1>4 DEF CollectPorts, Halt, GiveBack, Reply, Continue, TypeOK
  <2>5. ASSUME NEW v \in Workers, worker'[v].at \in {"collect", "halt", "give"}
        PROVE  worker'[v].m = worker[v].m /\ worker[v].at \in {"collect", "halt", "give"}
    BY <2>2, <2>3, <2>4, <2>5 DEF Idle
  <2> QED BY <2>1, <2>5 DEF Erased
<1>5. CASE UNCHANGED vars BY <1>5 DEF vars, Erased
<1> QED BY <1>1, <1>2, <1>3, <1>4, <1>5 DEF Next, DestroyMeeting, NotFound, Died

\* Until a meeting is destroyed every step keeps a single owner for every port in use.
LEMMA StepPoolInv ==
  ASSUME RangeFits, IInv, PoolInv, [Next]_vars
  PROVE  PoolInv'
<1>1. Erased' BY StaysErased DEF PoolInv
<1>2. ASSUME Settled' PROVE OneOwner'
  <2>1. Settled /\ OneOwner /\ Erased BY <1>2, SettledBefore DEF PoolInv
  <2>2. ASSUME NEW w \in Workers, Create(w) PROVE OneOwner'
    BY <2>1, <2>2, SameOwners DEF Create, ports, Holds
  <2>3. ASSUME NEW w \in Workers, Add(w) PROVE OneOwner'
    BY <1>2, <2>1, <2>3, AddOwners
  <2>4. ASSUME NEW w \in Workers, Del(w) PROVE OneOwner'
    BY <2>1, <2>4, DelOwners
  <2>5. ASSUME NEW w \in Workers, DestroyMeeting(w) PROVE FALSE
    <3>1. CASE Erase(w)
      <4>1. PICK m \in meetings : meetings' = meetings \ {m} BY <3>1 DEF Erase
      <4>2. UNCHANGED created BY <3>1 DEF Erase
      <4> QED BY <1>2, <2>1, <4>1, <4>2 DEF Settled
    <3>2. CASE CollectPorts(w) \/ Halt(w) \/ GiveBack(w)
      BY <2>1, <3>2 DEF CollectPorts, Halt, GiveBack, Erased, Settled
    <3> QED BY <2>5, <3>1, <3>2 DEF DestroyMeeting
  <2>6. CASE UNCHANGED vars BY <2>1, <2>6, SameOwners DEF vars, ports, Holds
  <2> QED BY <2>2, <2>3, <2>4, <2>5, <2>6 DEF Next, NotFound, Died
<1> QED BY <1>1, <1>2 DEF PoolInv

\* A fresh service: no port is in use and nobody has one.
LEMMA InitPoolInv == Init => PoolInv
<1> SUFFICES ASSUME Init PROVE PoolInv OBVIOUS
<1>1. Everyone = {} BY DEF Init, Everyone
<1>2. \A w \in Workers : worker[w].at = "idle" BY DEF Init, Idle
<1>3. \A i \in Allocator!Indexes : ~used[i] BY DEF Init, Allocator!Init
<1> QED BY <1>1, <1>2, <1>3 DEF PoolInv, Erased, OneOwner, Holds

\* Who has a port can be counted: one if it is in use, nobody otherwise.
LEMMA OwnersCounted ==
  ASSUME IInv, PoolInv
  PROVE  PoolExact
<1> SUFFICES ASSUME meetings = created, EveryRequestAnswered, NEW i \in Allocator!Indexes
             PROVE  Cardinality({x \in Everyone : PortOf(x) = Allocator!Port(i)})
                      + Cardinality(InHand(Allocator!Port(i))) = IF used[i] THEN 1 ELSE 0
  BY DEF PoolExact
<1> DEFINE P == {x \in Everyone : PortOf(x) = Allocator!Port(i)}
           H == InHand(Allocator!Port(i))
<1>1. OneOwner BY DEF PoolInv, Settled
<1>2. OnePortOneParticipant BY DEF IInv
<1>3. used[i] <=> P # {} \/ H # {} BY <1>1 DEF OneOwner, InHand, Holds
<1>4. P = {} \/ H = {} BY <1>1 DEF OneOwner, InHand, Holds
<1>5. \A x, y \in P : x = y BY <1>2 DEF OnePortOneParticipant
<1>6. \A v, w \in H : v = w BY <1>1 DEF OneOwner, InHand, Holds
<1> HIDE DEF P, H
<1>0. \A S : (\A x, y \in S : x = y) => S = {} \/ \E x : S = {x}
  <2> SUFFICES ASSUME NEW S, \A x, y \in S : x = y, NEW x \in S PROVE S = {x} OBVIOUS
  <2> QED OBVIOUS
<1>7. P = {} \/ \E x : P = {x} BY <1>0, <1>5
<1>8. H = {} \/ \E w : H = {w} BY <1>0, <1>6
<1>9. Cardinality({}) = 0 /\ \A x : Cardinality({x}) = 1 BY FS_EmptySet, FS_Singleton
<1>10. /\ Cardinality(P) = IF P = {} THEN 0 ELSE 1
       /\ Cardinality(H) = IF H = {} THEN 0 ELSE 1
  BY <1>7, <1>8, <1>9
<1>11. Cardinality(P) + Cardinality(H) = IF used[i] THEN 1 ELSE 0
  BY <1>3, <1>4, <1>10
<1> QED BY <1>11 DEF P, H

-----------------------------------------------------------------------------
\* The handlers keep the types of the shared state and remember, at each
\* section, what that section needs (server.cpp, meeting_manager.cpp).
THEOREM TypeCorrect == Spec => []TypeOK
<1>1. IInv => TypeOK BY DEF IInv
<1> QED BY <1>1, InitIInv, StepIInv, PTL DEF Spec

\* However adding, removing and destroying interleave, no two participants
\* share a port and each one's port is open.
THEOREM PortsAreNotShared == Spec => []OnePortOneParticipant
<1>1. IInv => OnePortOneParticipant BY DEF IInv
<1> QED BY <1>1, InitIInv, StepIInv, PTL DEF Spec

\* Every listener is a registered participant's or is about to be closed.
THEOREM ListenersAreOwned == Spec => []NoOrphanListener
<1>1. IInv => NoOrphanListener BY DEF IInv
<1> QED BY <1>1, InitIInv, StepIInv, PTL DEF Spec

\* Nobody is entered in a meeting that was destroyed or could not be set up.
THEOREM DestroyedStaysEmpty == Spec => []NoBridgeNoMembers
<1>1. IInv => NoBridgeNoMembers BY DEF IInv
<1> QED BY <1>1, InitIInv, StepIInv, PTL DEF Spec

\* As long as no meeting was destroyed, the pool is exact: every port in use has
\* one owner, a participant or a handler, on every path through the handlers.
THEOREM PoolIsExact == ASSUME RangeFits PROVE Spec => []PoolExact
<1>1. IInv /\ PoolInv /\ [Next]_vars => (IInv /\ PoolInv)' BY StepIInv, StepPoolInv
<1>2. Init => IInv /\ PoolInv BY InitIInv, InitPoolInv
<1>3. IInv /\ PoolInv => PoolExact BY OwnersCounted
<1> QED BY <1>1, <1>2, <1>3, PTL DEF Spec
=============================================================================
