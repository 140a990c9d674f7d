--------------------------- MODULE ApiServerProofs --------------------------
(***************************************************************************)
(* Theorems about ApiServer: whatever the other handlers do between its    *)
(* sections, a handler's answer was true at some moment of its request.    *)
(***************************************************************************)
EXTENDS ApiServer, TLAPS

\* Which sections a request of each kind passes, and what it names.
Shaped(r) ==
  /\ r.op # "list" => r.m \in Meetings
  /\ r.op \in {"add", "split", "del", "mute"} => r.q \in Parts
  /\ r.at \in {"allocate", "add"} => r.op \in {"add", "split"}
  /\ r.at = "recheck" => r.op = "split"
  /\ r.at = "halt" => r.op = "destroy"
  /\ r.at \in {"find", "again", "remove"} => r.op = "del"
  /\ r.at = "mute" => r.op = "mute"
  /\ r.at = "read" => r.op = "list"
  /\ r.op = "list" => r.at = "read" \/ (r.at = "answered" /\ r.code = 0 /\ r.todo = {})

\* An answer to request r was true at some moment of it, if e are the facts that
\* were true at some moment and a those that were true at every moment.
Right(r, e, a) ==
  /\ r.op # "list" /\ r.code = 1 => <<r.m>> \notin a
  /\ r.op \in {"del", "mute"} /\ r.code = 2 => <<r.m, r.q>> \notin a
  /\ r.op = "split" /\ r.code = 2 => <<r.m, r.q>> \in e
  /\ r.op = "split" /\ r.code = 5 => <<r.m, r.q>> \notin a
  /\ r.op \in {"add", "split"} /\ r.code = 0 => <<r.m, r.q>> \in e /\ <<r.m, r.q>> \notin a
  /\ r.op = "mute" /\ r.code = 0 => <<r.m, r.q>> \in e
  /\ r.op = "destroy" /\ r.code = 0 => <<r.m>> \in e /\ <<r.m>> \notin a
  /\ r.op = "del" /\ r.code = 0 =>
       <<r.m, r.q>> \in e /\ (<<r.m, r.q>> \notin a \/ <<r.m>> \notin a)

\* What has been read for a list so far is true and, but for the meetings still
\* to be read, complete.
Collected(r, e, a) ==
  /\ r.listed \subseteq e
  /\ \A m \in Meetings, q \in Parts :
       <<m>> \in a /\ <<m, q>> \in a => m \in r.todo \/ <<m, q>> \in r.listed

\* What a handler may rely on at its section.
Backed(r, e, a) ==
  /\ r.at = "halt" => <<r.m>> \in e /\ <<r.m>> \notin a
  /\ r.at \in {"again", "remove"} => <<r.m, r.q>> \in e
  /\ r.at = "answered" => Right(r, e, a)
  /\ r.op = "list" => Collected(r, e, a)

\* The inductive invariant; what was always true is true now.
HistoryInv ==
  \A w \in Workers : Busy(worker[w]) =>
    always[w] \subseteq Facts /\ Backed(worker[w], ever[w], always[w])
Shapes == \A w \in Workers : Busy(worker[w]) => Shaped(worker[w])

-----------------------------------------------------------------------------
(* Types *)

Records == Handling \cup {Idle, Dead}

\* A request has its fields, and is neither idle nor dead.
LEMMA Fields ==
  ASSUME NEW r \in Handling
  PROVE  /\ Busy(r) /\ r.at \in Sections
         /\ r.op \in {"add", "split", "destroy", "del", "mute", "list"}
         /\ r.m \in Meetings \cup {Nobody} /\ r.q \in Parts \cup {Nobody} /\ r.code \in 0 .. 5
         /\ r.todo \subseteq Meetings /\ r.listed \subseteq Meetings \X Parts
<1>1. r.at \in Sections BY DEF Handling
<1>2. r.at # "idle" /\ r.at # "dead" BY <1>1 DEF Sections
<1>3. Busy(r) BY <1>2 DEF Busy, Idle, Dead
<1> QED BY <1>1, <1>3 DEF Handling

\* A handler that is at a section is busy with a request.
LEMMA AtSection ==
  ASSUME TypeOK, NEW w \in Workers, worker[w].at \in Sections
  PROVE  worker[w] \in Handling
BY DEF TypeOK, Sections, Idle, Dead

\* What a handler's next record has when it goes on, or answers.
LEMMA Continued ==
  ASSUME TypeOK, NEW w \in Workers, worker[w] \in Handling,
         NEW there \in Sections, Continue(w, there)
  PROVE  /\ worker' \in [Workers -> Records] /\ worker'[w] \in Handling
         /\ worker'[w].at = there /\ worker'[w].op = worker[w].op
         /\ worker'[w].m = worker[w].m /\ worker'[w].q = worker[w].q
         /\ worker'[w].code = worker[w].code
         /\ worker'[w].todo = worker[w].todo /\ worker'[w].listed = worker[w].listed
<1> DEFINE r == worker[w]
           new == [r EXCEPT !.at = there]
<1>1. new \in Handling BY DEF Handling
<1>2. new.at = there /\ new.op = r.op /\ new.m = r.m /\ new.q = r.q /\ new.code = r.code
      /\ new.todo = r.todo /\ new.listed = r.listed BY DEF Handling
<1>3. worker' = [worker EXCEPT ![w] = new] BY DEF Continue
<1> HIDE DEF new
<1>4. worker'[w] = new /\ worker' \in [Workers -> Records] BY <1>1, <1>3 DEF TypeOK, Records
<1> QED BY <1>1, <1>2, <1>4

LEMMA Answered ==
  ASSUME TypeOK, NEW w \in Workers, worker[w] \in Handling,
         NEW code \in 0 .. 5, Answer(w, code)
  PROVE  /\ worker' \in [Workers -> Records] /\ worker'[w] \in Handling
         /\ worker'[w].at = "answered" /\ worker'[w].op = worker[w].op
         /\ worker'[w].m = worker[w].m /\ worker'[w].q = worker[w].q
         /\ worker'[w].code = code
         /\ worker'[w].todo = worker[w].todo /\ worker'[w].listed = worker[w].listed
<1> DEFINE r == worker[w]
           new == [r EXCEPT !.at = "answered", !.code = code]
<1>1. new \in Handling BY DEF Handling, Sections
<1>2. new.at = "answered" /\ new.op = r.op /\ new.m = r.m /\ new.q = r.q /\ new.code = code
      /\ new.todo = r.todo /\ new.listed = r.listed BY DEF Handling
<1>3. worker' = [worker EXCEPT ![w] = new] BY DEF Answer
<1> HIDE DEF new
<1>4. worker'[w] = new /\ worker' \in [Workers -> Records] BY <1>1, <1>3 DEF TypeOK, Records
<1> QED BY <1>1, <1>2, <1>4

\* Likewise when a request arrives: it has the fields of a request.
LEMMA Arrived ==
  ASSUME TypeOK, NEW w \in Workers, NEW op \in {"add", "split", "del", "mute"},
         NEW there \in Sections, Arrive(w, op, there)
  PROVE  /\ worker' \in [Workers -> Records] /\ worker'[w] \in Handling
         /\ worker'[w].op = op /\ worker'[w].m \in Meetings /\ worker'[w].q \in Parts
         /\ worker'[w].todo = {} /\ worker'[w].listed = {}
         /\ \/ worker'[w].at = there
            \/ /\ worker'[w].at = "answered" /\ worker'[w].code \in {1, 4}
               /\ worker'[w].code = 1 => worker'[w].m \notin meetings
<1>1. PICK m \in Meetings, q \in Parts, wellFormed \in BOOLEAN :
        LET code == IF ~wellFormed THEN 4 ELSE IF m \notin meetings THEN 1 ELSE 0
            r    == Request(op, IF code = 0 THEN there ELSE "answered", m, q)
        IN  worker' = [worker EXCEPT ![w] = [r EXCEPT !.code = code]]
  BY DEF Arrive
<1> DEFINE code == IF ~wellFormed THEN 4 ELSE IF m \notin meetings THEN 1 ELSE 0
           at   == IF code = 0 THEN there ELSE "answered"
           new  == [Request(op, at, m, q) EXCEPT !.code = code]
<1>2. worker' = [worker EXCEPT ![w] = new] BY <1>1
<1>3. new \in Handling BY DEF Request, Handling, Sections
<1>4. /\ new.at = at /\ new.op = op /\ new.m = m /\ new.q = q /\ new.code = code
      /\ new.todo = {} /\ new.listed = {}
  BY DEF Request
<1>5. at = there \/ (at = "answered" /\ code \in {1, 4} /\ (code = 1 => m \notin meetings))
  OBVIOUS
<1> HIDE DEF new, at, code
<1>6. worker'[w] = new /\ worker' \in [Workers -> Records] BY <1>2, <1>3 DEF TypeOK, Records
<1> QED BY <1>3, <1>4, <1>5, <1>6

LEMMA DestroyArrived ==
  ASSUME TypeOK, NEW w \in Workers, Erase(w)
  PROVE  /\ worker' \in [Workers -> Records] /\ worker'[w] \in Handling
         /\ worker'[w].op = "destroy" /\ worker'[w].m \in Meetings
         /\ worker'[w].todo = {} /\ worker'[w].listed = {}
         /\ \/ /\ worker'[w].at = "halt" /\ worker'[w].m \in meetings
               /\ meetings' = meetings \ {worker'[w].m}
            \/ /\ worker'[w].at = "answered" /\ worker'[w].code \in {1, 4}
               /\ worker'[w].code = 1 => worker'[w].m \notin meetings
               /\ meetings' = meetings
<1>1. PICK m \in Meetings, wellFormed \in BOOLEAN :
        LET r == Request("destroy", "halt", m, Nobody) IN
        IF wellFormed /\ m \in meetings
        THEN /\ meetings' = meetings \ {m}
             /\ worker' = [worker EXCEPT ![w] = r]
        ELSE /\ worker' = [worker EXCEPT ![w] =
                   [r EXCEPT !.at = "answered", !.code = IF wellFormed THEN 1 ELSE 4]]
             /\ UNCHANGED meetings
  BY DEF Erase
<1> DEFINE found == wellFormed /\ m \in meetings
           at    == IF found THEN "halt" ELSE "answered"
           code  == IF found THEN 0 ELSE IF wellFormed THEN 1 ELSE 4
           new   == [at |-> at, op |-> "destroy", m |-> m, q |-> Nobody, code |-> code,
                     todo |-> {}, listed |-> {}]
<1>2. worker' = [worker EXCEPT ![w] = new] BY <1>1 DEF Request
<1>3. new \in Handling BY DEF Handling, Sections
<1>4. /\ new.at = at /\ new.op = "destroy" /\ new.m = m /\ new.code = code
      /\ new.todo = {} /\ new.listed = {}
  OBVIOUS
<1>5. \/ at = "halt" /\ m \in meetings /\ meetings' = meetings \ {m}
      \/ /\ at = "answered" /\ code \in {1, 4} /\ (code = 1 => m \notin meetings)
         /\ meetings' = meetings
  BY <1>1
<1> HIDE DEF new, at, code, found
<1>6. worker'[w] = new /\ worker' \in [Workers -> Records] BY <1>2, <1>3 DEF TypeOK, Records
<1> QED BY <1>3, <1>4, <1>5, <1>6

LEMMA ListArrived ==
  ASSUME TypeOK, NEW w \in Workers, BeginList(w)
  PROVE  /\ worker' \in [Workers -> Records] /\ worker'[w] \in Handling
         /\ worker'[w].at = "read" /\ worker'[w].op = "list"
         /\ worker'[w].todo = meetings /\ worker'[w].listed = {}
<1> DEFINE new == [Request("list", "read", Nobody, Nobody) EXCEPT !.todo = meetings]
<1>1. worker' = [worker EXCEPT ![w] = new] BY DEF BeginList
<1>2. new \in Handling BY DEF Request, Handling, Sections, TypeOK
<1>3. new.at = "read" /\ new.op = "list" /\ new.todo = meetings /\ new.listed = {}
  BY DEF Request
<1> HIDE DEF new
<1> QED BY <1>1, <1>2, <1>3 DEF TypeOK, Records

LEMMA MeetingRead ==
  ASSUME TypeOK, NEW w \in Workers, ReadMeeting(w)
  PROVE  /\ worker[w] \in Handling /\ worker[w].at = "read"
         /\ worker' \in [Workers -> Records] /\ worker'[w] \in Handling
         /\ worker'[w].op = worker[w].op
         /\ \/ /\ worker'[w].at = "answered" /\ worker'[w].code = 0 /\ worker[w].todo = {}
               /\ worker'[w].todo = {} /\ worker'[w].listed = worker[w].listed
            \/ \E m \in worker[w].todo :
                 /\ worker'[w].at = "read" /\ worker'[w].todo = worker[w].todo \ {m}
                 /\ worker'[w].listed = worker[w].listed \cup {<<m, q>> : q \in members[m]}
<1>1. worker[w].at = "read" /\ worker[w].at \in Sections BY DEF ReadMeeting, Sections
<1>2. worker[w] \in Handling BY <1>1, AtSection
<1>3. CASE worker[w].todo = {} /\ Answer(w, 0) BY <1>1, <1>2, <1>3, Answered
<1>4. ASSUME NEW m \in worker[w].todo,
             worker' = [worker EXCEPT ![w].todo = @ \ {m},
                                      ![w].listed = @ \cup {<<m, q>> : q \in members[m]}]
      PROVE  /\ worker' \in [Workers -> Records] /\ worker'[w] \in Handling
             /\ worker'[w].op = worker[w].op
             /\ worker'[w].at = "read" /\ worker'[w].todo = worker[w].todo \ {m}
             /\ worker'[w].listed = worker[w].listed \cup {<<m, q>> : q \in members[m]}
  <2> DEFINE r == worker[w]
             read == {<<m, q>> : q \in members[m]}
             new == [r EXCEPT !.todo = @ \ {m}, !.listed = @ \cup read]
  <2>1. r.todo \subseteq Meetings BY <1>2, Fields
  <2>2. members[m] \subseteq Parts BY <2>1, <1>4 DEF TypeOK
  <2>3. read \subseteq Meetings \X Parts BY <2>1, <2>2, <1>4
  <2>4. worker' = [worker EXCEPT ![w] = new] BY <1>4
  <2> HIDE DEF read
  <2>5. new \in Handling BY <1>2, <2>3 DEF Handling
  <2>6. /\ new.at = r.at /\ new.op = r.op /\ new.todo = r.todo \ {m}
        /\ new.listed = r.listed \cup read
    BY <1>2 DEF Handling
  <2> HIDE DEF new
  <2>7. worker'[w] = new /\ worker' \in [Workers -> Records] BY <2>4, <2>5 DEF TypeOK, Records
  <2> QED BY <1>1, <2>5, <2>6, <2>7 DEF read
<1> QED BY <1>1, <1>2, <1>3, <1>4 DEF ReadMeeting

-----------------------------------------------------------------------------
(* Type correctness *)

LEMMA InitTypes == Init => TypeOK /\ Shapes
BY DEF Init, TypeOK, Shapes, Busy

\* Handlers that change nothing but their own record.
LEMMA QuietTypes ==
  ASSUME TypeOK, UNCHANGED tables, worker' \in [Workers -> Records]
  PROVE  TypeOK'
BY DEF TypeOK, tables, Records, Handling

LEMMA AddSucceedsTypes ==
  ASSUME TypeOK, Shapes, NEW w \in Workers, AddSucceeds(w)
  PROVE  TypeOK'
<1> DEFINE r == worker[w]
<1>1. r.at \in Sections BY DEF AddSucceeds, Sections
<1>2. r \in Handling BY <1>1, AtSection
<1>3. worker' \in [Workers -> Records] BY <1>2, Answered DEF AddSucceeds
<1>4. r.m \in Meetings /\ r.m \in bridge BY DEF AddSucceeds, TypeOK
<1>5. r.q \in Parts BY <1>2, Fields DEF Shapes, Shaped, AddSucceeds
<1>6. members' = [members EXCEPT ![r.m] = @ \cup {r.q}] /\ UNCHANGED <<meetings, created, bridge>>
  BY DEF AddSucceeds
<1> HIDE DEF r
<1>7. members' \in [Meetings -> SUBSET Parts] /\ \A m \in Meetings \ bridge : members'[m] = {}
  BY <1>4, <1>5, <1>6 DEF TypeOK
<1> QED BY <1>3, <1>6, <1>7 DEF TypeOK, Records, Handling

LEMMA HaltTypes ==
  ASSUME TypeOK, NEW w \in Workers, Halt(w)
  PROVE  TypeOK'
<1> DEFINE n == worker[w].m
<1>1. worker[w].at \in Sections BY DEF Halt, Sections
<1>2. worker[w] \in Handling BY <1>1, AtSection
<1>3. worker' \in [Workers -> Records] BY <1>2, Answered DEF Halt
<1>4. /\ members' = [members EXCEPT ![n] = {}] /\ bridge' = bridge \ {n}
      /\ UNCHANGED <<meetings, created>>
  BY DEF Halt
<1> HIDE DEF n
<1>5. members' \in [Meetings -> SUBSET Parts] /\ \A m \in Meetings \ bridge' : members'[m] = {}
  BY <1>4 DEF TypeOK
<1> QED BY <1>3, <1>4, <1>5 DEF TypeOK, Records, Handling

LEMMA RemoveTypes ==
  ASSUME TypeOK, NEW w \in Workers, RemovePart(w)
  PROVE  TypeOK'
<1> DEFINE n == worker[w].m
           p == worker[w].q
<1>1. worker[w].at \in Sections BY DEF RemovePart, Sections
<1>2. worker[w] \in Handling BY <1>1, AtSection
<1>3. worker' \in [Workers -> Records] BY <1>2, Answered DEF RemovePart
<1>4. /\ members' = [members EXCEPT ![n] = @ \ {p}]
      /\ UNCHANGED <<meetings, created, bridge>>
  BY DEF RemovePart
<1> HIDE DEF n, p
<1>5. members' \in [Meetings -> SUBSET Parts] /\ \A m \in Meetings \ bridge : members'[m] = {}
  BY <1>4 DEF TypeOK
<1> QED BY <1>3, <1>4, <1>5 DEF TypeOK, Records, Handling

LEMMA EraseTypes ==
  ASSUME TypeOK, NEW w \in Workers, Erase(w)
  PROVE  TypeOK'
<1>1. worker' \in [Workers -> Records] BY DestroyArrived
<1>2. meetings' \subseteq meetings BY DestroyArrived
<1>3. UNCHANGED <<created, bridge, members>> BY DEF Erase
<1> QED BY <1>1, <1>2, <1>3 DEF TypeOK, Records, Handling

LEMMA CreateTypes ==
  ASSUME TypeOK, NEW w \in Workers, Create(w)
  PROVE  TypeOK'
<1>1. PICK m \in Meetings \ created :
        /\ meetings' = meetings \cup {m} /\ created' = created \cup {m}
        /\ bridge' = bridge \cup {m} \/ bridge' = bridge
  BY DEF Create
<1>2. UNCHANGED <<members, worker>> BY DEF Create
<1> QED BY <1>1, <1>2 DEF TypeOK, Handling

LEMMA CrashTypes ==
  ASSUME TypeOK, NEW w \in Workers, AddCrashes(w)
  PROVE  TypeOK'
<1>1. /\ worker' = [v \in Workers |-> Dead]
      /\ meetings' = {} /\ bridge' = {} /\ members' = [m \in Meetings |-> {}]
      /\ UNCHANGED created
  BY DEF AddCrashes
<1> QED BY <1>1 DEF TypeOK

LEMMA DoneTypes ==
  ASSUME TypeOK, NEW w \in Workers, Done(w)
  PROVE  TypeOK'
<1>1. worker' \in [Workers -> Records] BY DEF Done, TypeOK, Records
<1> QED BY <1>1, QuietTypes DEF Done

\* The sections that read the tables and go on, or answer.
Reads(w) ==
  \/ AllocatePort(w) \/ AddFails(w) \/ Recheck(w) \/ FindPart(w) \/ FindAgain(w) \/ Mute(w)

LEMMA Reading ==
  ASSUME TypeOK, NEW w \in Workers, Reads(w)
  PROVE  /\ worker[w] \in Handling /\ UNCHANGED tables
         /\ \/ \E there \in Sections : Continue(w, there)
            \/ \E code \in 0 .. 5 : Answer(w, code)
<1>1. worker[w].at \in Sections
  BY DEF Reads, AllocatePort, AddFails, Recheck, FindPart, FindAgain, Mute, Sections
<1>2. UNCHANGED tables
  BY DEF Reads, AllocatePort, AddFails, Recheck, FindPart, FindAgain, Mute
<1>3. \/ \E there \in Sections : Continue(w, there)
      \/ \E code \in 0 .. 5 : Answer(w, code)
  BY DEF Reads, AllocatePort, AddFails, Recheck, FindPart, FindAgain, Mute, Sections
<1> QED BY <1>1, <1>2, <1>3, AtSection

\* A request other than creation, destruction or listing arrives.
Arrives(w) == BeginAdd(w) \/ BeginSplit(w) \/ BeginDel(w) \/ BeginMute(w)

LEMMA ArrivesAs ==
  ASSUME NEW w \in Workers, Arrives(w)
  PROVE  /\ UNCHANGED tables
         /\ \/ Arrive(w, "add", "allocate") \/ Arrive(w, "split", "allocate")
            \/ Arrive(w, "del", "find") \/ Arrive(w, "mute", "mute")
BY DEF Arrives, BeginAdd, BeginSplit, BeginDel, BeginMute, Arrive

LEMMA HandleCases ==
  ASSUME NEW w \in Workers, Handle(w)
  PROVE  \/ Reads(w) \/ Arrives(w) \/ BeginList(w) \/ ReadMeeting(w) \/ Done(w)
         \/ Create(w) \/ Erase(w) \/ AddSucceeds(w) \/ AddCrashes(w) \/ Halt(w)
         \/ RemovePart(w)
BY DEF Handle, Reads, Arrives

LEMMA HandleTypes ==
  ASSUME TypeOK, Shapes, NEW w \in Workers, Handle(w)
  PROVE  TypeOK'
<1>1. CASE Reads(w)
  <2>1. worker' \in [Workers -> Records] BY <1>1, Reading, Continued, Answered
  <2> QED BY <1>1, <2>1, Reading, QuietTypes
<1>2. CASE Arrives(w)
  <2>1. "allocate" \in Sections /\ "find" \in Sections /\ "mute" \in Sections BY DEF Sections
  <2>2. worker' \in [Workers -> Records] BY <1>2, <2>1, ArrivesAs, Arrived
  <2> QED BY <1>2, <2>2, ArrivesAs, QuietTypes
<1>3. CASE BeginList(w) BY <1>3, ListArrived, QuietTypes DEF BeginList
<1>4. CASE ReadMeeting(w) BY <1>4, MeetingRead, QuietTypes DEF ReadMeeting
<1> QED BY <1>1, <1>2, <1>3, <1>4, HandleCases, DoneTypes, CreateTypes, EraseTypes,
           AddSucceedsTypes, CrashTypes, HaltTypes, RemoveTypes

-----------------------------------------------------------------------------
(* Facts and their history *)

FactsAre ==
  /\ \A m : <<m>> \in Facts <=> m \in meetings
  /\ \A m, q : <<m, q>> \in Facts <=> m \in Meetings /\ q \in members[m]

LEMMA FactsKnown == FactsAre
<1>1. \A m, n, q : <<m>> # <<n, q>> OBVIOUS
<1>2. \A f : f \in Facts <=> \/ \E m \in meetings : f = <<m>>
                            \/ \E m \in Meetings : \E q \in members[m] : f = <<m, q>>
  BY DEF Facts
<1>3. \A m : <<m>> \in Facts <=> m \in meetings
  <2> TAKE m
  <2>1. <<m>> \in Facts <=> \E n \in meetings : <<m>> = <<n>> BY <1>1, <1>2
  <2> QED BY <2>1
<1>4. \A m, q : <<m, q>> \in Facts <=> m \in Meetings /\ q \in members[m]
  <2> TAKE m, q
  <2>1. <<m, q>> \in Facts <=> \E n \in Meetings : \E p \in members[n] : <<m, q>> = <<n, p>>
    BY <1>1, <1>2
  <2> QED BY <2>1
<1> QED BY <1>3, <1>4 DEF FactsAre

LEMMA FactsKnownNext == FactsAre'
BY FactsKnown, PTL

\* What one step adds to the history of a busy handler.
LEMMA History ==
  ASSUME HistoryInv, Remember, NEW w \in Workers, Busy(worker'[w])
  PROVE  /\ ever[w] \subseteq ever'[w]
         /\ \A f \in Subject(worker'[w]) : f \in Facts \/ f \in Facts' => f \in ever'[w]
         /\ always'[w] \subseteq Facts /\ always'[w] \subseteq Facts'
         /\ Busy(worker[w]) => always'[w] \subseteq always[w]
<1>1. ever'[w] = ever[w] \cup (Subject(worker'[w]) \cap (Facts \cup Facts')) BY DEF Remember
<1>2. always'[w] = (IF Busy(worker[w]) THEN always[w] ELSE Subject(worker'[w]) \cap Facts)
                     \cap Facts'
  BY DEF Remember
<1>3. Busy(worker[w]) => always[w] \subseteq Facts BY DEF HistoryInv
<1> QED BY <1>1, <1>2, <1>3

\* What a handler relies on stays so while others act.
LEMMA Lasting ==
  ASSUME NEW r, NEW e1, NEW a1, NEW e2, NEW a2,
         Backed(r, e1, a1), e1 \subseteq e2, a2 \subseteq a1
  PROVE  Backed(r, e2, a2)
<1>1. Right(r, e1, a1) => Right(r, e2, a2) BY DEF Right
<1>2. Collected(r, e1, a1) => Collected(r, e2, a2) BY DEF Collected
<1> QED BY <1>1, <1>2 DEF Backed

\* A handler's step changes nobody else's record, unless it ends the process.
LEMMA Others ==
  ASSUME TypeOK, NEW w \in Workers, Handle(w), NEW v \in Workers, v # w
  PROVE  worker'[v] = worker[v] \/ worker'[v] = Dead
<1>1. CASE Reads(w)
  BY <1>1, Reading DEF Continue, Answer, TypeOK
<1>2. CASE Arrives(w)
  BY <1>2, ArrivesAs DEF Arrive, TypeOK
<1>3. CASE BeginList(w) BY <1>3 DEF BeginList, TypeOK
<1>4. CASE ReadMeeting(w) BY <1>4 DEF ReadMeeting, Answer, TypeOK
<1>5. CASE Done(w) BY <1>5 DEF Done, TypeOK
<1>6. CASE Create(w) BY <1>6 DEF Create
<1>7. CASE Erase(w) BY <1>7 DEF Erase, TypeOK
<1>8. CASE AddSucceeds(w) BY <1>8 DEF AddSucceeds, Answer, TypeOK
<1>9. CASE AddCrashes(w) BY <1>9 DEF AddCrashes
<1>10. CASE Halt(w) BY <1>10 DEF Halt, Answer, TypeOK
<1>11. CASE RemovePart(w) BY <1>11 DEF RemovePart, Answer, TypeOK
<1> QED BY <1>1, <1>2, <1>3, <1>4, <1>5, <1>6, <1>7, <1>8, <1>9, <1>10, <1>11, HandleCases

\* What a step tells the handler about the meeting and the participant that its
\* request names, on either side of the step.
LEMMA Moment ==
  ASSUME HistoryInv, Remember, NEW w \in Workers,
         worker'[w] \in Handling, worker'[w].op # "list",
         NEW m, NEW q, m = worker'[w].m, q = worker'[w].q
  PROVE  /\ m \in meetings \/ m \in meetings' => <<m>> \in ever'[w]
         /\ m \in Meetings /\ (q \in members[m] \/ q \in members'[m]) => <<m, q>> \in ever'[w]
         /\ m \notin meetings \/ m \notin meetings' => <<m>> \notin always'[w]
         /\ q \notin members[m] \/ q \notin members'[m] => <<m, q>> \notin always'[w]
<1>1. Busy(worker'[w]) BY Fields
<1>2. <<m>> \in Subject(worker'[w]) /\ <<m, q>> \in Subject(worker'[w]) BY DEF Subject
<1>3. /\ <<m>> \in Facts <=> m \in meetings
      /\ <<m, q>> \in Facts <=> m \in Meetings /\ q \in members[m]
  BY FactsKnown DEF FactsAre
<1>4. /\ <<m>> \in Facts' <=> m \in meetings'
      /\ <<m, q>> \in Facts' <=> m \in Meetings /\ q \in members'[m]
  BY FactsKnownNext DEF FactsAre
<1> HIDE DEF Busy
<1> QED BY <1>1, <1>2, <1>3, <1>4, History

-----------------------------------------------------------------------------
(* The handler that takes the step: one lemma for each section             *)

\* What is to be shown of handler w after its own step.
Good(w) ==
  Shaped(worker'[w]) /\ Backed(worker'[w], ever'[w], always'[w])

LEMMA ArrivesGood ==
  ASSUME TypeOK, HistoryInv, Remember, NEW w \in Workers, Arrives(w)
  PROVE  Good(w)
<1>1. ASSUME NEW op \in {"add", "split", "del", "mute"}, NEW there \in Sections, Arrive(w, op, there),
             \/ op \in {"add", "split"} /\ there = "allocate"
             \/ op = "del" /\ there = "find"
             \/ op = "mute" /\ there = "mute"
      PROVE  Good(w)
  <2> DEFINE n == worker'[w]
  <2>1. /\ n \in Handling /\ n.op = op /\ n.m \in Meetings /\ n.q \in Parts
        /\ \/ n.at = there
           \/ /\ n.at = "answered" /\ n.code \in {1, 4}
              /\ n.code = 1 => n.m \notin meetings
    BY <1>1, Arrived
  <2>2. n.m \notin meetings => <<n.m>> \notin always'[w] BY <2>1, Moment
  <2> HIDE DEF n
  <2>3. n.at \in {there, "answered"} BY <2>1
  <2>4. Shaped(n) BY <1>1, <2>1, <2>3 DEF Shaped
  <2>5. n.at = "answered" => Right(n, ever'[w], always'[w]) BY <1>1, <2>1, <2>2 DEF Right
  <2>6. Backed(n, ever'[w], always'[w]) BY <1>1, <2>1, <2>3, <2>5 DEF Backed
  <2> QED BY <2>4, <2>6 DEF Good, n
<1>2. "allocate" \in Sections /\ "find" \in Sections /\ "mute" \in Sections BY DEF Sections
<1> QED BY <1>1, <1>2, ArrivesAs

LEMMA AllocateGood ==
  ASSUME TypeOK, Shapes, HistoryInv, Remember, NEW w \in Workers, AllocatePort(w)
  PROVE  Good(w)
<1> DEFINE r == worker[w]
           n == worker'[w]
<1>1. r \in Handling /\ r.at = "allocate" /\ Shaped(r)
  BY AtSection, Fields DEF AllocatePort, Sections, Shapes
<1>2. /\ n.op = r.op /\ n.m = r.m /\ n.q = r.q
      /\ n.at = "add" \/ (n.at = "answered" /\ n.code = 3)
  <2>1. "add" \in Sections /\ 3 \in 0 .. 5 BY DEF Sections
  <2>2. Continue(w, "add") \/ Answer(w, 3) BY DEF AllocatePort
  <2> QED BY <1>1, <2>1, <2>2, Continued, Answered
<1> HIDE DEF r, n
<1>3. r.op \in {"add", "split"} /\ r.m \in Meetings /\ r.q \in Parts BY <1>1 DEF Shaped
<1>4. Shaped(n) BY <1>2, <1>3 DEF Shaped
<1>5. Backed(n, ever'[w], always'[w]) BY <1>2, <1>3 DEF Backed, Right
<1> QED BY <1>4, <1>5 DEF Good, n

LEMMA AddFailsGood ==
  ASSUME TypeOK, Shapes, HistoryInv, Remember, NEW w \in Workers, AddFails(w)
  PROVE  Good(w)
<1> DEFINE r == worker[w]
           n == worker'[w]
<1>1. r \in Handling /\ r.at = "add" /\ Shaped(r)
  BY AtSection, Fields DEF AddFails, Sections, Shapes
<1>2. r.op \in {"add", "split"} /\ r.m \in Meetings /\ r.q \in Parts BY <1>1 DEF Shaped
<1>3. /\ n.op = r.op /\ n.m = r.m /\ n.q = r.q
      /\ \/ n.op = "add" /\ n.at = "answered" /\ n.code = 2
         \/ n.op = "split" /\ n.at = "recheck"
  <2>1. "recheck" \in Sections /\ 2 \in 0 .. 5 BY DEF Sections
  <2>2. (r.op = "add" /\ Answer(w, 2)) \/ (r.op = "split" /\ Continue(w, "recheck"))
    BY <1>2 DEF AddFails
  <2> QED BY <1>1, <2>1, <2>2, Continued, Answered
<1> HIDE DEF r, n
<1>4. Shaped(n) BY <1>2, <1>3 DEF Shaped
<1>5. Backed(n, ever'[w], always'[w]) BY <1>2, <1>3 DEF Backed, Right
<1> QED BY <1>4, <1>5 DEF Good, n

LEMMA AddSucceedsGood ==
  ASSUME TypeOK, Shapes, HistoryInv, Remember, NEW w \in Workers, AddSucceeds(w)
  PROVE  Good(w)
<1> DEFINE r == worker[w]
           n == worker'[w]
<1>1. r \in Handling /\ r.at = "add" /\ Shaped(r)
  BY AtSection, Fields DEF AddSucceeds, Sections, Shapes
<1>2. r.op \in {"add", "split"} /\ r.m \in Meetings /\ r.q \in Parts BY <1>1 DEF Shaped
<1>3. n \in Handling /\ n.op = r.op /\ n.m = r.m /\ n.q = r.q /\ n.at = "answered" /\ n.code = 0
  BY <1>1, Answered DEF AddSucceeds
<1>4. r.q \notin members[r.m] /\ members' = [members EXCEPT ![r.m] = @ \cup {r.q}]
  BY DEF AddSucceeds
<1>5. <<n.m, n.q>> \in ever'[w] /\ <<n.m, n.q>> \notin always'[w]
  <2> HIDE DEF r
  <2>1. r.q \in members'[r.m] BY <1>2, <1>4 DEF TypeOK
  <2>2. n.op # "list" BY <1>2, <1>3
  <2> QED BY <1>2, <1>3, <1>4, <2>1, <2>2, Moment
<1> HIDE DEF r, n
<1>6. Shaped(n) BY <1>2, <1>3 DEF Shaped
<1>7. Backed(n, ever'[w], always'[w]) BY <1>2, <1>3, <1>5 DEF Backed, Right
<1> QED BY <1>6, <1>7 DEF Good, n

LEMMA RecheckGood ==
  ASSUME TypeOK, Shapes, HistoryInv, Remember, NEW w \in Workers, Recheck(w)
  PROVE  Good(w)
<1> DEFINE r == worker[w]
           n == worker'[w]
           code == IF r.q \in members[r.m] THEN 2 ELSE 5
<1>1. r \in Handling /\ r.at = "recheck" /\ Shaped(r)
  BY AtSection, Fields DEF Recheck, Sections, Shapes
<1>2. r.op = "split" /\ r.m \in Meetings /\ r.q \in Parts BY <1>1 DEF Shaped
<1>3. /\ n \in Handling /\ n.op = r.op /\ n.m = r.m /\ n.q = r.q
      /\ n.at = "answered" /\ n.code = code
  <2>1. Answer(w, code) /\ code \in 0 .. 5 BY DEF Recheck
  <2> HIDE DEF code
  <2> QED BY <1>1, <2>1, Answered
<1>4. /\ r.q \in members[r.m] => <<n.m, n.q>> \in ever'[w]
      /\ r.q \notin members[r.m] => <<n.m, n.q>> \notin always'[w]
  BY <1>2, <1>3, Moment
<1>5. (code = 2 /\ r.q \in members[r.m]) \/ (code = 5 /\ r.q \notin members[r.m]) OBVIOUS
<1> HIDE DEF r, n, code
<1>6. Shaped(n) BY <1>2, <1>3 DEF Shaped
<1>7. Backed(n, ever'[w], always'[w]) BY <1>2, <1>3, <1>4, <1>5 DEF Backed, Right
<1> QED BY <1>6, <1>7 DEF Good, n

LEMMA FindPartGood ==
  ASSUME TypeOK, Shapes, HistoryInv, Remember, NEW w \in Workers, FindPart(w)
  PROVE  Good(w)
<1> DEFINE r == worker[w]
           n == worker'[w]
<1>1. r \in Handling /\ r.at = "find" /\ Shaped(r)
  BY AtSection, Fields DEF FindPart, Sections, Shapes
<1>2. r.op = "del" /\ r.m \in Meetings /\ r.q \in Parts BY <1>1 DEF Shaped
<1>3. /\ n \in Handling /\ n.op = r.op /\ n.m = r.m /\ n.q = r.q
      /\ \/ n.at = "again" /\ r.q \in members[r.m]
         \/ n.at = "answered" /\ n.code = 2 /\ r.q \notin members[r.m]
  <2>1. "again" \in Sections /\ 2 \in 0 .. 5 BY DEF Sections
  <2>2. \/ r.q \in members[r.m] /\ Continue(w, "again")
        \/ r.q \notin members[r.m] /\ Answer(w, 2)
    BY DEF FindPart
  <2> QED BY <1>1, <2>1, <2>2, Continued, Answered
<1>4. /\ r.q \in members[r.m] => <<n.m, n.q>> \in ever'[w]
      /\ r.q \notin members[r.m] => <<n.m, n.q>> \notin always'[w]
  BY <1>2, <1>3, Moment
<1> HIDE DEF r, n
<1>5. Shaped(n) BY <1>2, <1>3 DEF Shaped
<1>6. Backed(n, ever'[w], always'[w]) BY <1>2, <1>3, <1>4 DEF Backed, Right
<1> QED BY <1>5, <1>6 DEF Good, n

\* What was once true of the request stays so in its history.
LEMMA FoundStays ==
  ASSUME HistoryInv, Remember, NEW w \in Workers, worker[w] \in Handling,
         worker[w].at \in {"again", "remove"}, worker'[w] \in Handling
  PROVE  <<worker[w].m, worker[w].q>> \in ever'[w]
<1>1. Busy(worker[w]) /\ Busy(worker'[w]) BY Fields
<1>2. <<worker[w].m, worker[w].q>> \in ever[w] BY <1>1 DEF HistoryInv, Backed
<1> QED BY <1>1, <1>2, History

LEMMA FindAgainGood ==
  ASSUME TypeOK, Shapes, HistoryInv, Remember, NEW w \in Workers, FindAgain(w)
  PROVE  Good(w)
<1> DEFINE r == worker[w]
           n == worker'[w]
<1>1. r \in Handling /\ r.at = "again" /\ Shaped(r)
  BY AtSection, Fields DEF FindAgain, Sections, Shapes
<1>2. r.op = "del" /\ r.m \in Meetings /\ r.q \in Parts BY <1>1 DEF Shaped
<1>3. /\ n \in Handling /\ n.op = r.op /\ n.m = r.m /\ n.q = r.q
      /\ \/ n.at = "remove"
         \/ n.at = "answered" /\ n.code = 0 /\ r.m \notin meetings
  <2>1. "remove" \in Sections /\ 0 \in 0 .. 5 BY DEF Sections
  <2>2. \/ r.m \in meetings /\ Continue(w, "remove")
        \/ r.m \notin meetings /\ Answer(w, 0)
    BY DEF FindAgain
  <2> QED BY <1>1, <2>1, <2>2, Continued, Answered
<1>4. r.m \notin meetings => <<n.m>> \notin always'[w] BY <1>2, <1>3, Moment
<1>5. <<n.m, n.q>> \in ever'[w] BY <1>1, <1>3, FoundStays
<1> HIDE DEF r, n
<1>6. Shaped(n) BY <1>2, <1>3 DEF Shaped
<1>7. Backed(n, ever'[w], always'[w]) BY <1>2, <1>3, <1>4, <1>5 DEF Backed, Right
<1> QED BY <1>6, <1>7 DEF Good, n

LEMMA RemoveGood ==
  ASSUME TypeOK, Shapes, HistoryInv, Remember, NEW w \in Workers, RemovePart(w)
  PROVE  Good(w)
<1> DEFINE r == worker[w]
           n == worker'[w]
<1>1. r \in Handling /\ r.at = "remove" /\ Shaped(r)
  BY AtSection, Fields DEF RemovePart, Sections, Shapes
<1>2. r.op = "del" /\ r.m \in Meetings /\ r.q \in Parts BY <1>1 DEF Shaped
<1>3. n \in Handling /\ n.op = r.op /\ n.m = r.m /\ n.q = r.q /\ n.at = "answered" /\ n.code = 0
  BY <1>1, Answered DEF RemovePart
<1>4. members' = [members EXCEPT ![r.m] = @ \ {r.q}] BY DEF RemovePart
<1>5. <<n.m, n.q>> \in ever'[w] BY <1>1, <1>3, FoundStays
<1>6. <<n.m, n.q>> \notin always'[w]
  <2> HIDE DEF r
  <2>1. r.q \notin members'[r.m] BY <1>2, <1>4 DEF TypeOK
  <2>2. n.op # "list" BY <1>2, <1>3
  <2> QED BY <1>3, <2>1, <2>2, Moment
<1> HIDE DEF r, n
<1>7. Shaped(n) BY <1>2, <1>3 DEF Shaped
<1>8. Backed(n, ever'[w], always'[w]) BY <1>2, <1>3, <1>5, <1>6 DEF Backed, Right
<1> QED BY <1>7, <1>8 DEF Good, n

LEMMA MuteGood ==
  ASSUME TypeOK, Shapes, HistoryInv, Remember, NEW w \in Workers, Mute(w)
  PROVE  Good(w)
<1> DEFINE r == worker[w]
           n == worker'[w]
<1>1. r \in Handling /\ r.at = "mute" /\ Shaped(r)
  BY AtSection, Fields DEF Mute, Sections, Shapes
<1>2. r.op = "mute" /\ r.m \in Meetings /\ r.q \in Parts BY <1>1 DEF Shaped
<1>3. /\ n \in Handling /\ n.op = r.op /\ n.m = r.m /\ n.q = r.q /\ n.at = "answered"
      /\ \/ n.code = 0 /\ r.q \in members[r.m]
         \/ n.code = 2 /\ r.q \notin members[r.m]
  <2>1. 0 \in 0 .. 5 /\ 2 \in 0 .. 5 OBVIOUS
  <2>2. \/ r.q \in members[r.m] /\ Answer(w, 0)
        \/ r.q \notin members[r.m] /\ Answer(w, 2)
    BY DEF Mute
  <2> QED BY <1>1, <2>1, <2>2, Answered
<1>4. /\ r.q \in members[r.m] => <<n.m, n.q>> \in ever'[w]
      /\ r.q \notin members[r.m] => <<n.m, n.q>> \notin always'[w]
  BY <1>2, <1>3, Moment
<1> HIDE DEF r, n
<1>5. Shaped(n) BY <1>2, <1>3 DEF Shaped
<1>6. Backed(n, ever'[w], always'[w]) BY <1>2, <1>3, <1>4 DEF Backed, Right
<1> QED BY <1>5, <1>6 DEF Good, n

LEMMA EraseGood ==
  ASSUME TypeOK, HistoryInv, Remember, NEW w \in Workers, Erase(w)
  PROVE  Good(w)
<1> DEFINE n == worker'[w]
<1>1. /\ n \in Handling /\ n.op = "destroy" /\ n.m \in Meetings
      /\ \/ n.at = "halt" /\ n.m \in meetings /\ n.m \notin meetings'
         \/ /\ n.at = "answered" /\ n.code \in {1, 4}
            /\ n.code = 1 => n.m \notin meetings
  <2>1. meetings' = meetings \ {n.m} => n.m \notin meetings' OBVIOUS
  <2> QED BY <2>1, DestroyArrived
<1>2. /\ n.m \in meetings => <<n.m>> \in ever'[w]
      /\ n.m \notin meetings \/ n.m \notin meetings' => <<n.m>> \notin always'[w]
  BY <1>1, Moment
<1> HIDE DEF n
<1>3. Shaped(n) BY <1>1 DEF Shaped
<1>4. Backed(n, ever'[w], always'[w]) BY <1>1, <1>2 DEF Backed, Right
<1> QED BY <1>3, <1>4 DEF Good, n

LEMMA HaltGood ==
  ASSUME TypeOK, Shapes, HistoryInv, Remember, NEW w \in Workers, Halt(w)
  PROVE  Good(w)
<1> DEFINE r == worker[w]
           n == worker'[w]
<1>1. r \in Handling /\ r.at = "halt" /\ Shaped(r)
  BY AtSection, Fields DEF Halt, Sections, Shapes
<1>2. r.op = "destroy" /\ r.m \in Meetings BY <1>1 DEF Shaped
<1>3. n \in Handling /\ n.op = r.op /\ n.m = r.m /\ n.at = "answered" /\ n.code = 0
  BY <1>1, Answered DEF Halt
<1>4. <<r.m>> \in ever'[w] /\ <<r.m>> \notin always'[w]
  <2>1. Busy(worker[w]) /\ Busy(worker'[w]) BY <1>1, <1>3, Fields
  <2>2. <<r.m>> \in ever[w] /\ <<r.m>> \notin always[w] BY <1>1, <2>1 DEF HistoryInv, Backed
  <2> HIDE DEF r
  <2> QED BY <2>1, <2>2, History
<1> HIDE DEF r, n
<1>5. Shaped(n) BY <1>2, <1>3 DEF Shaped
<1>6. Backed(n, ever'[w], always'[w]) BY <1>2, <1>3, <1>4 DEF Backed, Right
<1> QED BY <1>5, <1>6 DEF Good, n

LEMMA ListGood ==
  ASSUME TypeOK, HistoryInv, Remember, NEW w \in Workers, BeginList(w)
  PROVE  Good(w)
<1> DEFINE n == worker'[w]
<1>1. n \in Handling /\ n.at = "read" /\ n.op = "list" /\ n.todo = meetings /\ n.listed = {}
  BY ListArrived
<1>2. always'[w] \subseteq Facts BY <1>1, Fields, History
<1>3. \A m : <<m>> \in always'[w] => m \in meetings BY <1>2, FactsKnown DEF FactsAre
<1> HIDE DEF n
<1>4. Shaped(n) BY <1>1 DEF Shaped
<1>5. Backed(n, ever'[w], always'[w]) BY <1>1, <1>3 DEF Backed, Collected
<1> QED BY <1>4, <1>5 DEF Good, n

LEMMA ReadGood ==
  ASSUME TypeOK, HistoryInv, Shapes, Remember, NEW w \in Workers, ReadMeeting(w)
  PROVE  Good(w)
<1> DEFINE r == worker[w]
           n == worker'[w]
           e == ever'[w]
           a == always'[w]
<1>1. /\ r \in Handling /\ r.at = "read" /\ n \in Handling /\ n.op = r.op
      /\ \/ /\ n.at = "answered" /\ n.code = 0 /\ r.todo = {}
            /\ n.todo = {} /\ n.listed = r.listed
         \/ \E m \in r.todo :
              /\ n.at = "read" /\ n.todo = r.todo \ {m}
              /\ n.listed = r.listed \cup {<<m, q>> : q \in members[m]}
  BY MeetingRead
<1>2. Busy(r) /\ Busy(n) /\ r.todo \subseteq Meetings BY <1>1, Fields
<1>3. r.op = "list" BY <1>1, <1>2 DEF Shapes, Shaped
<1>4. ever[w] \subseteq e /\ a \subseteq always[w] /\ a \subseteq Facts BY <1>2, History
<1>5. Collected(r, e, a)
  <2>1. Collected(r, ever[w], always[w]) BY <1>2, <1>3 DEF HistoryInv, Backed
  <2> HIDE DEF r, e, a
  <2> QED BY <2>1, <1>4 DEF Collected
<1>6. \A m \in Meetings : \A q \in members[m] : <<m, q>> \in e
  <2> SUFFICES ASSUME NEW m \in Meetings, NEW q \in members[m] PROVE <<m, q>> \in e
    OBVIOUS
  <2>1. q \in Parts BY DEF TypeOK
  <2>2. <<m, q>> \in Facts BY FactsKnown DEF FactsAre
  <2>3. <<m, q>> \in Subject(n) BY <1>1, <1>3, <2>1 DEF Subject
  <2> QED BY <1>2, <2>2, <2>3, History
<1>7. \A m, q : <<m, q>> \in a => q \in members[m] BY <1>4, FactsKnown DEF FactsAre
<1> HIDE DEF r, n, e, a
<1>8. Collected(n, e, a)
  <2>1. CASE n.listed = r.listed /\ n.todo = {} /\ r.todo = {} BY <2>1, <1>5 DEF Collected
  <2>2. ASSUME NEW m \in r.todo, n.todo = r.todo \ {m},
               n.listed = r.listed \cup {<<m, q>> : q \in members[m]}
        PROVE  Collected(n, e, a)
    <3>1. {<<m, q>> : q \in members[m]} \subseteq e BY <1>2, <1>6
    <3>2. n.listed \subseteq e BY <2>2, <3>1, <1>5 DEF Collected
    <3>3. ASSUME NEW k \in Meetings, NEW q \in Parts, <<k>> \in a, <<k, q>> \in a
          PROVE  k \in n.todo \/ <<k, q>> \in n.listed
      <4>1. k \in r.todo \/ <<k, q>> \in r.listed BY <3>3, <1>5 DEF Collected
      <4>2. q \in members[k] BY <3>3, <1>7
      <4> QED BY <2>2, <4>1, <4>2
    <3> QED BY <3>2, <3>3 DEF Collected
  <2> QED BY <1>1, <2>1, <2>2
<1>9. n.at = "answered" => Right(n, e, a) BY <1>1, <1>3 DEF Right
<1>10. Shaped(n) BY <1>1, <1>3 DEF Shaped
<1>11. Backed(n, e, a) BY <1>1, <1>3, <1>8, <1>9 DEF Backed
<1> QED BY <1>10, <1>11 DEF Good, n, e, a

LEMMA HandleGood ==
  ASSUME TypeOK, Shapes, HistoryInv, Remember, NEW w \in Workers, Handle(w), Busy(worker'[w])
  PROVE  Good(w)
<1>1. CASE Reads(w)
  BY <1>1, AllocateGood, AddFailsGood, RecheckGood, FindPartGood, FindAgainGood, MuteGood
  DEF Reads
<1>2. CASE Done(w) BY <1>2 DEF Done, Busy, TypeOK
<1>3. CASE Create(w) BY <1>3 DEF Create, Busy
<1>4. CASE AddCrashes(w) BY <1>4 DEF AddCrashes, Busy
<1> QED BY <1>1, <1>2, <1>3, <1>4, HandleCases, ArrivesGood, ListGood, ReadGood, EraseGood,
           AddSucceedsGood, HaltGood, RemoveGood

-----------------------------------------------------------------------------
(* The theorems *)

IInv == TypeOK /\ Shapes /\ HistoryInv

LEMMA InitInv == Init => IInv
<1>1. Init => HistoryInv BY DEF Init, HistoryInv, Busy
<1> QED BY <1>1, InitTypes DEF IInv

LEMMA NextInv == IInv /\ [Next]_vars => IInv'
<1> SUFFICES ASSUME IInv, [Next]_vars PROVE IInv'
  OBVIOUS
<1> USE DEF IInv
<1>1. CASE UNCHANGED vars
  <2>1. TypeOK' BY <1>1 DEF vars, tables, TypeOK, Handling
  <2>2. Shapes' BY <1>1 DEF vars, Shapes
  <2>3. Facts' = Facts BY <1>1 DEF vars, tables, Facts
  <2>4. HistoryInv' BY <1>1, <2>3 DEF vars, HistoryInv
  <2> QED BY <2>1, <2>2, <2>4
<1>2. ASSUME Remember, NEW w \in Workers, Handle(w) PROVE IInv'
  <2>1. TypeOK' BY <1>2, HandleTypes
  <2>2. ASSUME NEW v \in Workers, Busy(worker'[v])
        PROVE  /\ Shaped(worker'[v]) /\ always'[v] \subseteq Facts'
               /\ Backed(worker'[v], ever'[v], always'[v])
    <3>1. always'[v] \subseteq Facts' BY <1>2, <2>2, History
    <3>2. CASE v = w BY <1>2, <2>2, <3>1, <3>2, HandleGood DEF Good
    <3>3. CASE v # w
      <4>1. worker'[v] = worker[v] BY <1>2, <2>2, <3>3, Others DEF Busy
      <4>2. Busy(worker[v]) BY <2>2, <4>1
      <4>3. Shaped(worker[v]) /\ Backed(worker[v], ever[v], always[v])
        BY <4>2 DEF Shapes, HistoryInv
      <4>4. ever[v] \subseteq ever'[v] /\ always'[v] \subseteq always[v]
        BY <1>2, <2>2, <4>2, History
      <4> QED BY <3>1, <4>1, <4>3, <4>4, Lasting
    <3> QED BY <3>2, <3>3
  <2> QED BY <2>1, <2>2 DEF Shapes, HistoryInv
<1>3. ASSUME Died, Remember PROVE IInv'
  <2>1. worker' = worker /\ UNCHANGED tables /\ \A v \in Workers : worker[v] = Dead
    BY <1>3 DEF Died
  <2>2. TypeOK' BY <2>1 DEF tables, TypeOK, Handling
  <2>3. \A v \in Workers : ~Busy(worker'[v]) BY <2>1 DEF Busy
  <2> QED BY <2>2, <2>3 DEF Shapes, HistoryInv
<1> QED BY <1>1, <1>2, <1>3 DEF Next

\* The tables and the handlers' records keep their types; only a meeting with a
\* bridge has participants.
THEOREM TypeCorrect == Spec => []TypeOK
<1>1. IInv => TypeOK BY DEF IInv
<1> QED BY <1>1, InitInv, NextInv, PTL DEF Spec

LEMMA BackedAnswers ==
  ASSUME IInv, NEW w \in Workers, Busy(worker[w]), worker[w].at = "answered"
  PROVE  /\ Shaped(worker[w]) /\ Right(worker[w], ever[w], always[w])
         /\ worker[w].op = "list" => Collected(worker[w], ever[w], always[w])
BY DEF IInv, Shapes, HistoryInv, Backed

\* Every answer was true at some moment of its request, whatever other handlers
\* did between the sections of the one that gave it.
THEOREM AnswersAreTrue == Spec => []Truthful
<1>1. IInv => Truthful
  <2> SUFFICES ASSUME IInv PROVE Truthful
    OBVIOUS
  <2>1. ASSUME NEW w \in AnsweredWith({"add", "split", "destroy", "del", "mute"}, 1)
        PROVE  Table(w) \notin always[w]
    <3>1. /\ worker[w].op \in {"add", "split", "destroy", "del", "mute"} /\ worker[w].code = 1
          /\ Right(worker[w], ever[w], always[w])
      BY BackedAnswers DEF AnsweredWith
    <3> QED BY <3>1 DEF Right, Table
  <2>2. ASSUME NEW w \in AnsweredWith({"del", "mute"}, 2)
        PROVE  Entry(w) \notin always[w]
    <3>1. /\ worker[w].op \in {"del", "mute"} /\ worker[w].code = 2
          /\ Right(worker[w], ever[w], always[w])
      BY BackedAnswers DEF AnsweredWith
    <3> QED BY <3>1 DEF Right, Entry
  <2>3. ASSUME NEW w \in AnsweredWith({"split"}, 2)
        PROVE  Entry(w) \in ever[w]
    <3>1. /\ worker[w].op \in {"split"} /\ worker[w].code = 2
          /\ Right(worker[w], ever[w], always[w])
      BY BackedAnswers DEF AnsweredWith
    <3> QED BY <3>1 DEF Right, Entry
  <2>4. ASSUME NEW w \in AnsweredWith({"split"}, 5)
        PROVE  Entry(w) \notin always[w]
    <3>1. /\ worker[w].op \in {"split"} /\ worker[w].code = 5
          /\ Right(worker[w], ever[w], always[w])
      BY BackedAnswers DEF AnsweredWith
    <3> QED BY <3>1 DEF Right, Entry
  <2>5. ASSUME NEW w \in AnsweredWith({"add", "split"}, 0)
        PROVE  Entry(w) \in ever[w] \ always[w]
    <3>1. /\ worker[w].op \in {"add", "split"} /\ worker[w].code = 0
          /\ Right(worker[w], ever[w], always[w])
      BY BackedAnswers DEF AnsweredWith
    <3> QED BY <3>1 DEF Right, Entry
  <2>6. ASSUME NEW w \in AnsweredWith({"mute"}, 0)
        PROVE  Entry(w) \in ever[w]
    <3>1. /\ worker[w].op \in {"mute"} /\ worker[w].code = 0
          /\ Right(worker[w], ever[w], always[w])
      BY BackedAnswers DEF AnsweredWith
    <3> QED BY <3>1 DEF Right, Entry
  <2>7. ASSUME NEW w \in AnsweredWith({"destroy"}, 0)
        PROVE  Table(w) \in ever[w] \ always[w]
    <3>1. /\ worker[w].op \in {"destroy"} /\ worker[w].code = 0
          /\ Right(worker[w], ever[w], always[w])
      BY BackedAnswers DEF AnsweredWith
    <3> QED BY <3>1 DEF Right, Table
  <2>8. ASSUME NEW w \in AnsweredWith({"del"}, 0)
        PROVE  Entry(w) \in ever[w] /\ ~({Entry(w), Table(w)} \subseteq always[w])
    <3>1. /\ worker[w].op \in {"del"} /\ worker[w].code = 0
          /\ Right(worker[w], ever[w], always[w])
      BY BackedAnswers DEF AnsweredWith
    <3> QED BY <3>1 DEF Right, Entry, Table
  <2> QED BY <2>1, <2>2, <2>3, <2>4, <2>5, <2>6, <2>7, <2>8 DEF Truthful
<1> QED BY <1>1, InitInv, NextInv, PTL DEF Spec

\* A list names nobody who was not registered while it was read, and misses
\* nobody who was registered all the time, however many meetings there are.
THEOREM ListsAreTrue == Spec => []ListedTrue
<1>1. IInv => ListedTrue
  <2> SUFFICES ASSUME IInv, NEW w \in AnsweredWith({"list"}, 0)
               PROVE  /\ worker[w].listed \subseteq ever[w]
                      /\ \A m \in Meetings, q \in Parts :
                           {<<m>>, <<m, q>>} \subseteq always[w] => <<m, q>> \in worker[w].listed
    BY DEF ListedTrue
  <2>1. /\ worker[w].op = "list" /\ worker[w].at = "answered" /\ Shaped(worker[w])
        /\ Collected(worker[w], ever[w], always[w])
    BY BackedAnswers DEF AnsweredWith
  <2>2. worker[w].todo = {} BY <2>1 DEF Shaped
  <2> QED BY <2>1, <2>2 DEF Collected
<1> QED BY <1>1, InitInv, NextInv, PTL DEF Spec
=============================================================================
