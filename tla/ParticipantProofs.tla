-------------------------- MODULE ParticipantProofs --------------------------
(***************************************************************************)
(* Machine-checked proofs about the threads and descriptors of one         *)
(* participant, for every set of modes, every descriptor table with at     *)
(* least four numbers, and with or without others that open descriptors.   *)
(***************************************************************************)
EXTENDS Participant, FiniteSetTheorems, WellFoundedInduction, TLAPS

-----------------------------------------------------------------------------
(* The inductive invariant                                                 *)

\* What client_fd_ names, and the member that names an accepted connection.
ClientSocket == IF mode = "active" THEN "accepted" ELSE "outbound"
AcceptedFd   == IF mode = "split" THEN rx_fd ELSE client_fd

\* A member that is set names a socket of its kind.
Named ==
  /\ listen_fd # NoFd => fdtab[listen_fd] = "listener"
  /\ client_fd # NoFd => fdtab[client_fd] = ClientSocket
  /\ rx_fd # NoFd => mode = "split" /\ fdtab[rx_fd] = "accepted"

\* Places of the accept thread before it has a connection, and with one that no
\* member names yet.
Early  == {"none", "top", "call", "in"}
Unsaved == Early \cup {"got"}

\* Every socket of the participant is named by a member or is in the accept
\* thread's hand, so there is at most one of a kind; and at most one foreign one.
Held ==
  \A n \in Fds :
    /\ fdtab[n] = "listener" => n = listen_fd
    /\ fdtab[n] = "outbound" => n = client_fd
    /\ fdtab[n] = "accepted" =>
         \/ thread["accept"].at = "got" /\ n = thread["accept"].fd
         \/ thread["accept"].at \notin Unsaved /\ n = AcceptedFd
    /\ \A m \in Fds : fdtab[n] = "foreign" /\ fdtab[m] = "foreign" => n = m

\* accept() is called once: until its connection is stored the member is free.
AcceptOnce ==
  /\ thread["accept"].at \in Unsaved =>
       rx_fd = NoFd /\ (mode = "active" => client_fd = NoFd)
  /\ thread["accept"].at = "got" =>
       thread["accept"].fd \in Fds /\ fdtab[thread["accept"].fd] = "accepted"
  /\ mode = "passive" => thread["accept"].at = "none"

\* Until start() has succeeded there is no thread and hardly a descriptor.
Begun ==
  /\ api \in {"new", "connect", "failed"} =>
       client_fd = NoFd /\ \A t \in Threads : thread[t].at = "none"
  /\ api \in {"new", "failed"} => listen_fd = NoFd
  /\ api = "connect" => mode = "split"
  /\ final => api \in StopSteps \cup {"destroyed"}

\* A thread that was joined has ended and is not created again.
Joined ==
  /\ api \in {"join_rx", "join_tx", "stopped", "destroyed"} => Ended("accept")
  /\ api \in {"join_tx", "stopped", "destroyed"} => Ended("rx")
  /\ api \in {"stopped", "destroyed"} => Ended("tx")
  /\ final => \A t \in Threads : Ended(t)

\* What stop() has closed stays closed: the listener always, the others when no
\* accept thread is left that could store one.
Joins == {"join_accept", "join_rx", "join_tx"}
ClosedInTurn ==
  /\ api \in {"close_client", "close_rx", "stopped", "destroyed"} \cup Joins => listen_fd = NoFd
  /\ final /\ api \in {"close_rx", "destroyed"} \cup Joins => client_fd = NoFd
  /\ final /\ api \in {"destroyed"} \cup Joins => rx_fd = NoFd
  /\ api = "destroyed" => final

Safe == Named /\ Held /\ AcceptOnce /\ Begun /\ Joined /\ ClosedInTurn
IInv == TypeOK /\ Safe

-----------------------------------------------------------------------------
(* Free descriptor numbers                                                 *)

\* A finite set of integers that is not empty has a least element.
LEMMA LeastExists ==
  ASSUME NEW S, S \subseteq Int, IsFiniteSet(S), S # {}
  PROVE  \E n \in S : \A m \in S : n <= m
<1> DEFINE Below(n) == {m \in S : m < n}
           T == {Below(n) : n \in S}
<1>1. T \subseteq FiniteSubsetsOf(S) /\ T # {}
  <2>1. \A n \in S : IsFiniteSet(Below(n)) /\ Below(n) \in SUBSET S BY FS_Subset
  <2> QED BY <2>1 DEF FiniteSubsetsOf
<1>2. PICK B \in T : \A C \in T : ~ (<<C, B>> \in StrictSubsetOrdering(S))
  <2> HIDE DEF T
  <2> QED BY <1>1, FS_StrictSubsetOrderingWellFounded, WFMin
<1>3. PICK n \in S : B = Below(n) OBVIOUS
<1>4. ASSUME NEW m \in S, m < n PROVE FALSE
  <2>1. Below(m) \in T OBVIOUS
  <2>2. \A k \in S : k \in Int OBVIOUS
  <2>3. ASSUME NEW k \in Below(m) PROVE k \in Below(n)
    <3>1. k \in S /\ k < m OBVIOUS
    <3>2. k < n BY <1>4, <2>2, <3>1
    <3> QED BY <3>1, <3>2
  <2>4. ~(m < m) BY <2>2
  <2>5. m \in Below(n) /\ m \notin Below(m) BY <1>4, <2>4
  <2>6. Below(m) \in SUBSET S /\ Below(n) \in SUBSET S OBVIOUS
  <2>7. <<Below(m), Below(n)>> \in StrictSubsetOrdering(S)
    <3> HIDE DEF Below
    <3> QED BY <2>3, <2>5, <2>6 DEF StrictSubsetOrdering
  <2> QED BY <1>2, <1>3, <2>1, <2>7
<1> QED BY <1>4

\* Three numbers do not make up a descriptor table of four.
LEMMA FourNumbers ==
  ASSUME NEW a, NEW b, NEW c
  PROVE  \E n \in Fds : n \notin {a, b, c}
<1>1. /\ IsFiniteSet({a}) /\ Cardinality({a}) = 1 BY FS_Singleton
<1>2. /\ IsFiniteSet({a} \cup {b}) /\ Cardinality({a} \cup {b}) <= 2
  BY <1>1, FS_AddElement
<1>3. /\ Cardinality({a} \cup {b}) \in Nat BY <1>2, FS_CardinalityType
<1>4. /\ IsFiniteSet(({a} \cup {b}) \cup {c}) /\ Cardinality(({a} \cup {b}) \cup {c}) <= 3
  BY <1>2, <1>3, FS_AddElement
<1>5. Cardinality(({a} \cup {b}) \cup {c}) \in Nat BY <1>4, FS_CardinalityType
<1>6. ASSUME Fds \subseteq {a, b, c} PROVE FALSE
  <2>1. Fds \in SUBSET (({a} \cup {b}) \cup {c}) BY <1>6
  <2>2. Cardinality(Fds) <= Cardinality(({a} \cup {b}) \cup {c}) BY <1>4, <2>1, FS_Subset
  <2>3. Cardinality(Fds) \in Nat BY ParticipantAssumption, FS_CardinalityType DEF ParticipantAssumption
  <2> QED BY <1>4, <1>5, <2>2, <2>3, ParticipantAssumption DEF ParticipantAssumption
<1> QED BY <1>6

\* If there is a free number the kernel hands out one.
LEMMA LowestIsFree ==
  ASSUME Free # {}
  PROVE  Lowest \in Fds /\ fdtab[Lowest] = "free"
<1>1. IsFiniteSet(Fds) /\ Fds \subseteq Int
  BY ParticipantAssumption DEF ParticipantAssumption
<1>2. Free \in SUBSET Fds BY DEF Free
<1>3. Free \subseteq Int /\ IsFiniteSet(Free) BY <1>1, <1>2, FS_Subset
<1>4. \E n \in Free : \A m \in Free : n <= m BY <1>3, LeastExists
<1>5. Lowest \in Free BY <1>4 DEF Lowest
<1> QED BY <1>5 DEF Free

\* The numbers in use are at most four, one for each kind of socket, so that a
\* kind of which there is none leaves a number free.
LEMMA RoomFor ==
  ASSUME IInv, NEW k \in Own \cup {"foreign"}, \A n \in Fds : fdtab[n] # k
  PROVE  Lowest \in Fds /\ fdtab[Lowest] = "free"
<1> DEFINE Only(s, x) == \A n \in Fds : fdtab[n] = s => n = x
<1>1. Only("listener", listen_fd) /\ Only("outbound", client_fd)
  BY DEF IInv, Safe, Held
<1>2. PICK x : Only("accepted", x)
  <2>1. CASE thread["accept"].at = "got"
    <3>1. Only("accepted", thread["accept"].fd) BY <2>1 DEF IInv, Safe, Held, Unsaved
    <3> QED BY <3>1
  <2>2. CASE thread["accept"].at # "got"
    <3>1. Only("accepted", AcceptedFd) BY <2>2 DEF IInv, Safe, Held
    <3> QED BY <3>1
  <2> QED BY <2>1, <2>2
<1>3. PICK y : Only("foreign", y)
  <2>1. CASE \E y \in Fds : fdtab[y] = "foreign"
    BY <2>1 DEF IInv, Safe, Held
  <2>2. CASE ~ \E y \in Fds : fdtab[y] = "foreign" BY <2>2
  <2> QED BY <2>1, <2>2
<1>4. \A n \in Fds : fdtab[n] \in {"listener", "outbound", "accepted", "foreign", "free"}
  BY DEF IInv, TypeOK, Own
<1>5. PICK a, b, c : \A n \in Fds : fdtab[n] # "free" => n \in {a, b, c}
  <2>1. CASE k = "listener" BY <1>1, <1>2, <1>3, <1>4, <2>1
  <2>2. CASE k = "outbound" BY <1>1, <1>2, <1>3, <1>4, <2>2
  <2>3. CASE k = "accepted" BY <1>1, <1>2, <1>3, <1>4, <2>3
  <2>4. CASE k = "foreign" BY <1>1, <1>2, <1>3, <1>4, <2>4
  <2> QED BY <2>1, <2>2, <2>3, <2>4 DEF Own
<1>6. Free # {} BY <1>5, FourNumbers DEF Free
<1> QED BY <1>6, LowestIsFree

-----------------------------------------------------------------------------
(* Every step preserves the invariant                                      *)

Places == {"none", "top", "call", "in", "wait", "got", "spawn_rx", "spawn_tx", "done"}
Record == [at : Places, fd : Fds \cup {NoFd}, on : Own \cup {"foreign", "free"}]

LEMMA InitIInv == Init => IInv
<1> SUFFICES ASSUME Init PROVE IInv OBVIOUS
<1> USE DEF Init
<1>1. TypeOK BY DEF TypeOK, Threads
<1>2. Named /\ Held /\ ClosedInTurn
  BY DEF Named, Held, ClosedInTurn, Joins
<1>3. AcceptOnce /\ Begun /\ Joined
  BY DEF AcceptOnce, Begun, Joined, Threads, Ended, Unsaved, Early
<1> QED BY <1>1, <1>2, <1>3 DEF IInv, Safe

\* NoFd is not a number of the table.
LEMMA NoFdIsNone == NoFd \notin Fds
BY ParticipantAssumption DEF ParticipantAssumption, NoFd

\* A step of one thread that has not ended changes its own place only.
LEMMA ThreadMoves ==
  ASSUME IInv, NEW t \in Threads, NEW r \in Record,
         UNCHANGED <<mode, stop_flag, fields, kernel, owner>>,
         thread[t].at \in {"top", "call", "in", "wait"},
         thread' = [thread EXCEPT ![t] = r],
         t = "accept" => thread[t].at # "wait" /\ r.at \in {"call", "in", "done"},
         t # "accept" => r.at # "none"
  PROVE  IInv'
<1> USE DEF fields, kernel, owner
<1>0. /\ thread \in [Threads -> Record] /\ thread'[t] = r
      /\ \A u \in Threads \ {t} : thread'[u] = thread[u]
      /\ ~Ended(t)
  BY DEF IInv, TypeOK, Record, Places, Ended
<1>1. TypeOK' BY <1>0 DEF IInv, TypeOK, Record, Places
<1>2. Named' BY DEF IInv, Safe, Named, ClientSocket
<1>3. AcceptOnce'
  <2>1. CASE t = "accept" BY <1>0, <2>1 DEF IInv, Safe, AcceptOnce, Unsaved, Early
  <2>2. CASE t # "accept"
    <3>1. thread'["accept"] = thread["accept"] BY <1>0, <2>2 DEF Threads
    <3> QED BY <3>1 DEF IInv, Safe, AcceptOnce
  <2> QED BY <2>1, <2>2
<1>4. Held'
  <2>1. CASE t = "accept"
    <3>1. \A n \in Fds : fdtab[n] # "accepted"
      BY <2>1 DEF IInv, Safe, Held, Unsaved, Early
    <3> QED BY <3>1 DEF IInv, Safe, Held
  <2>2. CASE t # "accept"
    <3>1. thread'["accept"] = thread["accept"] BY <1>0, <2>2 DEF Threads
    <3> QED BY <3>1 DEF IInv, Safe, Held, AcceptedFd
  <2> QED BY <2>1, <2>2
<1>5. Begun' BY <1>0 DEF IInv, Safe, Begun
<1>6. Joined' BY <1>0 DEF IInv, Safe, Joined, Ended, Threads
<1>7. ClosedInTurn' BY DEF IInv, Safe, ClosedInTurn
<1> QED BY <1>1, <1>2, <1>3, <1>4, <1>5, <1>6, <1>7 DEF IInv, Safe

\* One step of the rx, tx or accept thread that stays with its own socket.
LEMMA CallsAndLoops ==
  ASSUME IInv, NEW t \in Threads,
         Enter(t) \/ Fail(t) \/ Transfer(t) \/ RxLoop \/ TxLoop \/ TxStopped \/ TxPacket
           \/ AcceptLoad \/ AcceptFails
  PROVE  IInv'
<1>0. /\ thread \in [Threads -> Record]
      /\ \A u \in Threads, p \in Places :
           /\ [thread[u] EXCEPT !.at = p] \in Record
           /\ [thread[u] EXCEPT !.at = p].at = p
      /\ \A u \in Threads : thread[u].on \in Own \cup {"foreign", "free"}
                         /\ thread[u].fd \in Fds \cup {NoFd}
  BY DEF IInv, TypeOK, Record, Places
<1>1. ASSUME NEW u \in Threads, NEW p \in Places, Goto(u, p),
             UNCHANGED <<mode, stop_flag, fields, kernel, owner>>,
             thread[u].at \in {"top", "call", "in", "wait"}, p # "none",
             u = "accept" => thread[u].at # "wait" /\ p \in {"call", "in", "done"}
      PROVE  IInv'
  <2> DEFINE r == [thread[u] EXCEPT !.at = p]
  <2>1. r \in Record /\ r.at = p BY <1>0
  <2>2. thread' = [thread EXCEPT ![u] = r] BY <1>1 DEF Goto
  <2> HIDE DEF r
  <2> QED BY <1>1, <2>1, <2>2, ThreadMoves
<1>2. CASE Enter(t)
  <2> DEFINE n == thread[t].fd
  <2>1. CASE n = NoFd \/ fdtab[n] = "free"
    <3>1. Goto(t, "done") BY <1>2, <2>1 DEF Enter
    <3> QED BY <1>1, <1>2, <3>1 DEF Enter, Places
  <2>2. CASE ~(n = NoFd \/ fdtab[n] = "free")
    <3> DEFINE r == [thread[t] EXCEPT !.at = "in", !.on = fdtab[n]]
    <3>1. n \in Fds BY <1>0, <2>2
    <3>2. fdtab[n] \in Own \cup {"foreign", "free"} BY <3>1 DEF IInv, TypeOK
    <3>3. thread[t] \in Record BY <1>0
    <3>4. r \in Record /\ r.at = "in" BY <3>2, <3>3 DEF Record, Places
    <3>5. thread' = [thread EXCEPT ![t] = r] BY <1>2, <2>2 DEF Enter
    <3> HIDE DEF r
    <3> QED BY <1>2, <3>4, <3>5, ThreadMoves DEF Enter
  <2> QED BY <2>1, <2>2
<1>3. CASE Fail(t) BY <1>1, <1>3 DEF Fail, Places
<1>4. CASE Transfer(t) BY <1>1, <1>4 DEF Transfer, Places
<1>5. CASE RxLoop BY <1>1, <1>5 DEF RxLoop, Places, Threads
<1>6. CASE TxLoop BY <1>1, <1>6 DEF TxLoop, Places, Threads
<1>7. CASE TxStopped BY <1>1, <1>7 DEF TxStopped, Places, Threads
<1>8. CASE TxPacket BY <1>1, <1>8 DEF TxPacket, Places, Threads
<1>9. CASE AcceptLoad
  <2> DEFINE r == [at |-> "call", fd |-> listen_fd, on |-> "free"]
  <2>1. r \in Record BY DEF IInv, TypeOK, Record, Places
  <2>2. thread' = [thread EXCEPT !["accept"] = r] BY <1>9 DEF AcceptLoad, Calling
  <2>3. "accept" \in Threads /\ r.at = "call" BY DEF Threads
  <2> HIDE DEF r
  <2> QED BY <1>9, <2>1, <2>2, <2>3, ThreadMoves DEF AcceptLoad
<1>10. CASE AcceptFails BY <1>1, <1>10 DEF AcceptFails, Places, Threads
<1> QED BY <1>2, <1>3, <1>4, <1>5, <1>6, <1>7, <1>8, <1>9, <1>10

-----------------------------------------------------------------------------
\* rx_fd_ or client_fd_ takes over the connection from the accept thread's hand.
LEMMA AcceptStoreStep ==
  ASSUME IInv, AcceptStore
  PROVE  IInv'
<1> DEFINE n == thread["accept"].fd
<1>0. /\ thread \in [Threads -> Record] /\ "accept" \in Threads
      /\ thread["accept"].at = "got" /\ n \in Fds /\ fdtab[n] = "accepted"
      /\ mode # "passive" /\ mode \in {"active", "passive", "split"}
      /\ UNCHANGED <<mode, stop_flag, listen_fd, fdtab, live, api, final>>
  BY ParticipantAssumption
  DEF IInv, TypeOK, Safe, AcceptOnce, AcceptStore, Record, Places, Threads, kernel, owner,
      ParticipantAssumption
<1>1. /\ thread'["accept"] = [thread["accept"] EXCEPT !.at = "spawn_rx"]
      /\ thread'["accept"].at = "spawn_rx"
      /\ \A u \in Threads \ {"accept"} : thread'[u] = thread[u]
      /\ thread' \in [Threads -> Record]
  BY <1>0 DEF AcceptStore, Goto, Record, Places
<1>2. \/ mode = "split" /\ rx_fd' = n /\ client_fd' = client_fd
      \/ mode = "active" /\ client_fd' = n /\ rx_fd' = rx_fd
  BY <1>0 DEF AcceptStore
<1>3. TypeOK' BY <1>0, <1>1, <1>2 DEF IInv, TypeOK, Record, Places
<1>4. Named' BY <1>0, <1>2 DEF IInv, Safe, Named, ClientSocket
<1>5. Held'
  <2>1. \A m \in Fds : fdtab[m] = "accepted" => m = n
    BY <1>0 DEF IInv, Safe, Held, Unsaved
  <2>2. \A m \in Fds : fdtab[m] = "outbound" => m = client_fd'
    BY <1>0, <1>2, NoFdIsNone DEF IInv, Safe, Held, AcceptOnce, Unsaved
  <2>3. AcceptedFd' = n BY <1>0, <1>2 DEF AcceptedFd
  <2> QED BY <1>0, <1>1, <2>1, <2>2, <2>3 DEF IInv, Safe, Held, Unsaved, Early
<1>6. AcceptOnce' BY <1>0, <1>1 DEF IInv, Safe, AcceptOnce, Unsaved, Early
<1>7. ~Ended("accept") BY <1>0 DEF Ended
<1>8. Begun' /\ Joined' /\ ClosedInTurn'
  BY <1>0, <1>1, <1>7 DEF IInv, Safe, Begun, Joined, ClosedInTurn, Ended, Threads, Joins
<1> QED BY <1>3, <1>4, <1>5, <1>6, <1>8 DEF IInv, Safe

\* The accept thread creates the rx thread, in active mode also the tx thread.
LEMMA AcceptSpawnStep ==
  ASSUME IInv, AcceptSpawnRx \/ AcceptSpawnTx
  PROVE  IInv'
<1>0. /\ thread \in [Threads -> Record] /\ Threads = {"accept", "rx", "tx"}
      /\ thread["accept"].at \in {"spawn_rx", "spawn_tx"}
      /\ UNCHANGED <<mode, stop_flag, listen_fd, client_fd, rx_fd, fdtab, live, api, final>>
  BY DEF IInv, TypeOK, AcceptSpawnRx, AcceptSpawnTx, Record, Places, Threads,
         fields, kernel, owner
<1>1. /\ thread' \in [Threads -> Record]
      /\ thread'["accept"].at \in {"spawn_tx", "done"}
  BY <1>0 DEF AcceptSpawnRx, AcceptSpawnTx, Record, Places
<1>2. ~Ended("accept") BY <1>0 DEF Ended
<1>3. TypeOK' BY <1>0, <1>1 DEF IInv, TypeOK, Record, Places
<1>4. Named' BY <1>0 DEF IInv, Safe, Named, ClientSocket
<1>5. Held' /\ AcceptOnce'
  BY <1>0, <1>1 DEF IInv, Safe, Held, AcceptOnce, AcceptedFd, Unsaved, Early
<1>6. Begun' /\ Joined' /\ ClosedInTurn'
  BY <1>0, <1>1, <1>2 DEF IInv, Safe, Begun, Joined, ClosedInTurn, Ended, Joins
<1> QED BY <1>3, <1>4, <1>5, <1>6 DEF IInv, Safe

-----------------------------------------------------------------------------
\* Closing frees one number, if it is set, and no other.
LEMMA ClosedFrees ==
  ASSUME TypeOK, NEW n \in Fds \cup {NoFd}, Closed(n)
  PROVE  /\ fdtab' \in [Fds -> Own \cup {"foreign", "free"}]
         /\ live' \subseteq live
         /\ \A m \in Fds : fdtab'[m] = IF m = n THEN "free" ELSE fdtab[m]
         /\ n # NoFd => fdtab[n] \notin live'
BY NoFdIsNone DEF TypeOK, Closed

\* Of the stop() steps and of a start that fails after its listener was opened:
\* a number of the participant's own, named by a member, is closed, and that
\* member is cleared.
LEMMA CloseMember ==
  ASSUME IInv, CloseListen \/ CloseClient \/ CloseRx
  PROVE  IInv'
<1> USE DEF AfterStep
<1>0. /\ UNCHANGED <<mode, stop_flag, thread, final>>
      /\ api \in {"close_listen", "close_client", "close_rx"}
      /\ api' = AfterStep(api)
      /\ {listen_fd, client_fd, rx_fd} \subseteq Fds \cup {NoFd}
      /\ mode \in {"active", "passive", "split"}
  BY ParticipantAssumption
  DEF ParticipantAssumption, CloseListen, CloseClient, CloseRx, IInv, TypeOK
<1>1. \/ api = "close_listen" /\ Closed(listen_fd) /\ listen_fd' = NoFd
         /\ UNCHANGED <<client_fd, rx_fd>>
      \/ api = "close_client" /\ Closed(client_fd) /\ client_fd' = NoFd
         /\ UNCHANGED <<listen_fd, rx_fd>>
      \/ api = "close_rx" /\ Closed(rx_fd) /\ rx_fd' = NoFd
         /\ UNCHANGED <<listen_fd, client_fd>>
  BY DEF CloseListen, CloseClient, CloseRx
<1>2. PICK n \in {listen_fd, client_fd, rx_fd} :
        /\ fdtab' \in [Fds -> Own \cup {"foreign", "free"}] /\ live' \subseteq live
        /\ \A m \in Fds : fdtab'[m] = IF m = n THEN "free" ELSE fdtab[m]
        /\ \/ n = listen_fd /\ api = "close_listen" /\ listen_fd' = NoFd
              /\ UNCHANGED <<client_fd, rx_fd>>
           \/ n = client_fd /\ api = "close_client" /\ client_fd' = NoFd
              /\ UNCHANGED <<listen_fd, rx_fd>>
           \/ n = rx_fd /\ api = "close_rx" /\ rx_fd' = NoFd
              /\ UNCHANGED <<listen_fd, client_fd>>
  BY <1>0, <1>1, ClosedFrees DEF IInv
<1>3. TypeOK' BY <1>0, <1>2 DEF IInv, TypeOK, StopSteps
<1>4. Named' BY <1>0, <1>2, NoFdIsNone DEF IInv, Safe, Named, ClientSocket
<1>5. AcceptOnce'
  <2>1. thread["accept"].at = "got" => n # thread["accept"].fd
    BY <1>0, <1>2, NoFdIsNone DEF IInv, Safe, AcceptOnce, Named, ClientSocket, Unsaved
  <2> QED BY <1>0, <1>2, <2>1 DEF IInv, Safe, AcceptOnce
<1>6. Held'
  <2>1. \A m \in Fds : m # n => fdtab'[m] = fdtab[m] BY <1>2
  <2>2. \A m \in Fds : fdtab'[m] # "free" => m # n BY <1>2
  <2> QED BY <1>0, <1>2, <2>1, <2>2 DEF IInv, Safe, Held, AcceptedFd
<1>7. Begun' /\ Joined' BY <1>0 DEF IInv, Safe, Begun, Joined, Ended, StopSteps
<1>8. ClosedInTurn' BY <1>0, <1>2 DEF IInv, Safe, ClosedInTurn, Joins
<1> QED BY <1>3, <1>4, <1>5, <1>6, <1>7, <1>8 DEF IInv, Safe

\* A foreign descriptor is closed, or the peer closes its end.
LEMMA Elsewhere ==
  ASSUME IInv, ForeignClose \/ PeerCloses
  PROVE  IInv'
<1>0. UNCHANGED <<mode, stop_flag, listen_fd, client_fd, rx_fd, thread, api, final>>
  BY DEF ForeignClose, PeerCloses, fields, owner
<1>1. CASE PeerCloses
  <2>1. fdtab' = fdtab /\ live' \subseteq live BY <1>1 DEF PeerCloses
  <2> QED BY <1>0, <2>1
      DEF IInv, TypeOK, Safe, Named, Held, AcceptOnce, Begun, Joined, ClosedInTurn,
          ClientSocket, AcceptedFd, Ended
<1>2. CASE ForeignClose
  <2>1. PICK n \in Fds : fdtab[n] = "foreign" /\ Closed(n) BY <1>2 DEF ForeignClose
  <2>2. /\ fdtab' \in [Fds -> Own \cup {"foreign", "free"}] /\ live' \subseteq live
        /\ \A m \in Fds : fdtab'[m] = IF m = n THEN "free" ELSE fdtab[m]
    BY <2>1, ClosedFrees DEF IInv
  <2>3. TypeOK' BY <1>0, <2>2 DEF IInv, TypeOK
  <2>4. {listen_fd, client_fd, rx_fd} \subseteq Fds \cup {NoFd} BY DEF IInv, TypeOK
  <2>5. \A m \in Fds : fdtab[m] \in Own => fdtab'[m] = fdtab[m] BY <2>1, <2>2 DEF Own
  <2>6. \A m \in Fds : fdtab'[m] # "free" => fdtab'[m] = fdtab[m] BY <2>2
  <2>7. Named' /\ AcceptOnce'
    BY <1>0, <2>4, <2>5 DEF IInv, Safe, Named, AcceptOnce, ClientSocket, Own
  <2>8. Held' BY <1>0, <2>6 DEF IInv, Safe, Held, AcceptedFd
  <2>9. Begun' /\ Joined' /\ ClosedInTurn'
    BY <1>0 DEF IInv, Safe, Begun, Joined, ClosedInTurn, Ended
  <2> QED BY <2>3, <2>7, <2>8, <2>9 DEF IInv, Safe
<1> QED BY <1>1, <1>2

\* stop() is called, signals, and joins the threads one after the other.
LEMMA Controls ==
  ASSUME IInv, CallStop \/ Destroy \/ Signal \/ \E t \in Threads : Join(t)
  PROVE  IInv'
<1> USE DEF AfterStep, JoinStep
<1>0. UNCHANGED <<mode, listen_fd, client_fd, rx_fd, fdtab, live, thread>>
  BY DEF CallStop, Destroy, Signal, Join, fields, kernel
<1>1. /\ api \in {"serving", "stopped", "failed", "flag", "drain"} \cup Joins
      /\ api' \in StopSteps \cup {"stopped", "destroyed"} /\ final' \in BOOLEAN
      /\ stop_flag' \in BOOLEAN
  <2>1. stop_flag \in BOOLEAN /\ final \in BOOLEAN BY DEF IInv, TypeOK
  <2>2. CASE CallStop BY <2>1, <2>2 DEF CallStop, StopSteps
  <2>3. CASE Destroy BY <2>1, <2>3 DEF Destroy, StopSteps
  <2>4. CASE Signal BY <2>1, <2>4 DEF Signal, StopSteps
  <2>5. CASE \E t \in Threads : Join(t)
    <3>1. api \in Joins BY <2>5 DEF Join, Threads, Joins
    <3>2. UNCHANGED <<stop_flag, final>> /\ api' = AfterStep(api) BY <2>5 DEF Join
    <3> QED BY <2>1, <3>1, <3>2 DEF Joins, StopSteps
  <2> QED BY <2>2, <2>3, <2>4, <2>5
<1>2. TypeOK' BY <1>0, <1>1 DEF IInv, TypeOK
<1>3. Named' /\ Held' /\ AcceptOnce'
  BY <1>0 DEF IInv, Safe, Named, Held, AcceptOnce, ClientSocket, AcceptedFd
<1>4. Begun'
  <2>1. api' = "stopped" => ~final'
    BY DEF CallStop, Destroy, Signal, Join, Threads
  <2> QED BY <1>0, <1>1, <2>1 DEF Begun, StopSteps
<1>5. \A t \in Threads : Ended(t)' = Ended(t) BY <1>0 DEF Ended
<1>6. CASE CallStop \/ Signal
  <2>1. api' \in {"flag", "drain", "close_listen"} /\ final' = final
    BY <1>6 DEF CallStop, Signal
  <2>2. Joined' BY <1>5, <2>1 DEF IInv, Safe, Joined
  <2>3. ClosedInTurn' BY <2>1 DEF ClosedInTurn, Joins
  <2> QED BY <1>2, <1>3, <1>4, <2>2, <2>3 DEF IInv, Safe
<1>7. CASE Destroy
  <2>1. \A t \in Threads : Ended(t)
    BY <1>7 DEF Destroy, IInv, Safe, Joined, Begun, Threads, Ended
  <2> QED BY <1>0, <1>2, <1>3, <1>4, <1>5, <1>7, <2>1
      DEF Destroy, IInv, Safe, Joined, ClosedInTurn, Joins, Threads
<1>8. CASE \E t \in Threads : Join(t)
  <2>1. PICK t \in Threads : Join(t) BY <1>8
  <2>2. \/ api = "join_accept" /\ api' = "join_rx" /\ Ended("accept")
        \/ api = "join_rx" /\ api' = "join_tx" /\ Ended("rx")
        \/ api = "join_tx" /\ api' = (IF final THEN "destroyed" ELSE "stopped") /\ Ended("tx")
    BY <2>1 DEF Join, Threads
  <2>3. final' = final BY <2>1 DEF Join
  <2>4. Joined' BY <1>5, <2>2, <2>3 DEF IInv, Safe, Joined, Threads
  <2>5. ClosedInTurn' BY <1>0, <2>2, <2>3 DEF IInv, Safe, ClosedInTurn, Joins
  <2> QED BY <1>2, <1>3, <1>4, <2>4, <2>5 DEF IInv, Safe
<1> QED BY <1>6, <1>7, <1>8

-----------------------------------------------------------------------------
\* A socket of a kind of which there was none is opened at a free number: what
\* other numbers denote does not change.
LEMMA OpenedAt ==
  ASSUME IInv, NEW s \in Own \cup {"foreign"}, \A n \in Fds : fdtab[n] # s, OpenSocket(s)
  PROVE  /\ Lowest \in Fds /\ fdtab[Lowest] = "free" /\ Lowest # NoFd
         /\ fdtab' \in [Fds -> Own \cup {"foreign", "free"}]
         /\ live' \subseteq Own \cup {"foreign"}
         /\ \A m \in Fds : fdtab'[m] = IF m = Lowest THEN s ELSE fdtab[m]
<1>1. Lowest \in Fds /\ fdtab[Lowest] = "free" BY RoomFor
<1>2. fdtab \in [Fds -> Own \cup {"foreign", "free"}] /\ live \subseteq Own \cup {"foreign"}
  BY DEF IInv, TypeOK
<1>3. fdtab' = [fdtab EXCEPT ![Lowest] = s] /\ live' = live \cup {s} BY DEF OpenSocket
<1> HIDE DEF Lowest
<1> QED BY <1>1, <1>2, <1>3, NoFdIsNone

\* A new number: what a member names, or the accept thread has in its hand, is
\* still there.
LEMMA OthersStay ==
  ASSUME IInv, NEW l, fdtab[l] = "free", NEW s, s # "free",
         \A m \in Fds : fdtab'[m] = IF m = l THEN s ELSE fdtab[m], UNCHANGED mode
  PROVE  /\ \A m \in Fds : fdtab[m] \in Own => fdtab'[m] = fdtab[m]
         /\ \A m \in Fds : fdtab'[m] # s => fdtab'[m] = fdtab[m]
         /\ listen_fd # NoFd => listen_fd \in Fds /\ fdtab'[listen_fd] = "listener"
         /\ client_fd # NoFd => client_fd \in Fds /\ fdtab'[client_fd] = ClientSocket
         /\ rx_fd # NoFd => rx_fd \in Fds /\ mode = "split" /\ fdtab'[rx_fd] = "accepted"
BY DEF IInv, TypeOK, Safe, Named, Own, ClientSocket

\* Threads created by start(), at their first step.
LEMMA StartedThreads ==
  ASSUME IInv, NEW ts \in SUBSET Threads, NEW n \in Fds \cup {NoFd}, Started(ts, n)
  PROVE  /\ thread' \in [Threads -> Record]
         /\ \A t \in Threads : thread'[t].at = IF t \in ts THEN "top" ELSE thread[t].at
BY DEF IInv, TypeOK, Started, Record, Places

\* Before start() has succeeded the participant has at most a listener.
LEMMA NothingYet ==
  ASSUME IInv, api \in {"new", "connect"}
  PROVE  /\ client_fd = NoFd /\ rx_fd = NoFd
         /\ \A t \in Threads : thread[t].at = "none"
         /\ \A n \in Fds : fdtab[n] \notin {"outbound", "accepted"}
         /\ api = "new" => listen_fd = NoFd /\ \A n \in Fds : fdtab[n] # "listener"
         /\ ~final
<1>1. client_fd = NoFd /\ \A t \in Threads : thread[t].at = "none"
  BY DEF IInv, Safe, Begun
<1>2. thread["accept"].at = "none" BY <1>1 DEF Threads
<1>3. rx_fd = NoFd BY <1>2 DEF IInv, Safe, AcceptOnce, Unsaved, Early
<1>4. \A n \in Fds : fdtab[n] \notin {"outbound", "accepted"}
  BY <1>1, <1>2, NoFdIsNone DEF IInv, Safe, Held, Unsaved, Early
<1>5. api = "new" => listen_fd = NoFd /\ \A n \in Fds : fdtab[n] # "listener"
  BY NoFdIsNone DEF IInv, Safe, Held, Begun
<1>6. ~final BY DEF IInv, Safe, Begun, StopSteps
<1> QED BY <1>1, <1>3, <1>4, <1>5, <1>6

\* socket, bind and listen: the first socket of the participant.
LEMMA ListenStep ==
  ASSUME IInv, Listen
  PROVE  IInv'
<1>0. /\ api = "new" /\ mode \in {"active", "split"}
      /\ UNCHANGED <<mode, stop_flag, client_fd, rx_fd, final>>
      /\ thread \in [Threads -> Record]
  BY DEF Listen, IInv, TypeOK, Record, Places
<1>1. /\ client_fd = NoFd /\ rx_fd = NoFd /\ listen_fd = NoFd /\ ~final
      /\ \A t \in Threads : thread[t].at = "none"
      /\ \A n \in Fds : fdtab[n] \notin Own
  BY <1>0, NothingYet DEF Own
<1>2. CASE api' = "failed" /\ UNCHANGED <<listen_fd, kernel, thread>>
  <2>1. TypeOK' BY <1>0, <1>2 DEF IInv, TypeOK, kernel
  <2>2. Named' /\ Held' /\ AcceptOnce' /\ Begun' /\ Joined' /\ ClosedInTurn'
    BY <1>0, <1>1, <1>2
    DEF IInv, Safe, Named, Held, AcceptOnce, Begun, Joined, ClosedInTurn, kernel,
        ClientSocket, AcceptedFd, Joins, Ended
  <2> QED BY <2>1, <2>2 DEF IInv, Safe
<1>3. CASE /\ OpenSocket("listener") /\ listen_fd' = Lowest
           /\ \/ mode = "active" /\ Started({"accept"}, NoFd) /\ api' = "serving"
              \/ mode = "split" /\ UNCHANGED thread /\ api' = "connect"
  <2> DEFINE l == Lowest
  <2>1. /\ l \in Fds /\ fdtab[l] = "free" /\ l # NoFd
        /\ fdtab' \in [Fds -> Own \cup {"foreign", "free"}]
        /\ live' \subseteq Own \cup {"foreign"}
        /\ \A m \in Fds : fdtab'[m] = IF m = l THEN "listener" ELSE fdtab[m]
    BY <1>1, <1>3, OpenedAt DEF Own
  <2>2. /\ thread' \in [Threads -> Record]
        /\ \A t \in Threads : thread'[t].at \in {"none", "top"}
        /\ api' = "connect" => mode = "split" /\ \A t \in Threads : thread'[t].at = "none"
        /\ api' \in {"serving", "connect"}
    <3>1. CASE mode = "active" /\ Started({"accept"}, NoFd) /\ api' = "serving"
      BY <1>1, <3>1, StartedThreads DEF Threads
    <3>2. CASE mode = "split" /\ UNCHANGED thread /\ api' = "connect"
      BY <1>0, <1>1, <3>2
    <3> QED BY <1>3, <3>1, <3>2
  <2>3. listen_fd' = l BY <1>3
  <2> HIDE DEF l
  <2>4. "accept" \in Threads /\ thread'["accept"].at \in {"none", "top"}
    BY <2>2 DEF Threads
  <2>5. TypeOK' BY <1>0, <2>1, <2>2, <2>3 DEF IInv, TypeOK, Record, Places
  <2>6. Named' BY <1>0, <1>1, <2>1, <2>3 DEF Named
  <2>7. Held' BY <1>1, <2>1, <2>3 DEF IInv, Safe, Held, Own
  <2>8. AcceptOnce' BY <1>0, <1>1, <2>4 DEF AcceptOnce, Unsaved, Early
  <2>9. Begun' BY <1>0, <1>1, <2>2 DEF Begun
  <2>10. Joined' BY <1>0, <1>1, <2>2 DEF Joined
  <2>11. ClosedInTurn' BY <1>0, <1>1, <2>2 DEF ClosedInTurn, Joins
  <2> QED BY <2>5, <2>6, <2>7, <2>8, <2>9, <2>10, <2>11 DEF IInv, Safe
<1> QED BY <1>2, <1>3 DEF Listen

\* connect(), and the threads it starts; or the failure that closes the listener.
LEMMA ConnectStep ==
  ASSUME IInv, Connect
  PROVE  IInv'
<1>0. /\ (api = "new" /\ mode = "passive") \/ (api = "connect" /\ mode = "split")
      /\ UNCHANGED <<mode, stop_flag, rx_fd, final>>
      /\ thread \in [Threads -> Record]
      /\ listen_fd \in Fds \cup {NoFd}
  BY DEF Connect, IInv, TypeOK, Safe, Begun, Record, Places
<1>1. /\ client_fd = NoFd /\ rx_fd = NoFd /\ ~final
      /\ \A t \in Threads : thread[t].at = "none"
      /\ \A n \in Fds : fdtab[n] \notin {"outbound", "accepted"}
  BY <1>0, NothingYet
<1>2. CASE /\ Closed(listen_fd) /\ listen_fd' = NoFd
           /\ api' = "failed" /\ UNCHANGED <<client_fd, thread>>
  <2>1. /\ fdtab' \in [Fds -> Own \cup {"foreign", "free"}] /\ live' \subseteq live
        /\ \A m \in Fds : fdtab'[m] = IF m = listen_fd THEN "free" ELSE fdtab[m]
    BY <1>0, <1>2, ClosedFrees DEF IInv
  <2>2. TypeOK' BY <1>0, <1>2, <2>1 DEF IInv, TypeOK
  <2>3. Named' BY <1>0, <1>1, <1>2 DEF Named
  <2>4. Held' BY <1>0, <1>1, <2>1 DEF IInv, Safe, Held
  <2>5. AcceptOnce' /\ Begun' /\ Joined' /\ ClosedInTurn'
    BY <1>0, <1>1, <1>2
    DEF IInv, Safe, AcceptOnce, Begun, Joined, ClosedInTurn, Joins, Unsaved, Early, Threads
  <2> QED BY <2>2, <2>3, <2>4, <2>5 DEF IInv, Safe
<1>3. CASE /\ OpenSocket("outbound") /\ client_fd' = Lowest
           /\ Started(IF mode = "passive" THEN {"rx", "tx"} ELSE {"accept", "tx"}, Lowest)
           /\ api' = "serving" /\ UNCHANGED listen_fd
  <2> DEFINE l == Lowest
  <2>1. /\ l \in Fds /\ fdtab[l] = "free" /\ l # NoFd
        /\ fdtab' \in [Fds -> Own \cup {"foreign", "free"}]
        /\ live' \subseteq Own \cup {"foreign"}
        /\ \A m \in Fds : fdtab'[m] = IF m = l THEN "outbound" ELSE fdtab[m]
    BY <1>1, <1>3, OpenedAt DEF Own
  <2> DEFINE ts == IF mode = "passive" THEN {"rx", "tx"} ELSE {"accept", "tx"}
  <2>2. /\ thread' \in [Threads -> Record]
        /\ \A t \in Threads : thread'[t].at = IF t \in ts THEN "top" ELSE thread[t].at
    <3>1. ts \in SUBSET Threads /\ l \in Fds \cup {NoFd} /\ Started(ts, l)
      BY <1>3, <2>1 DEF Threads
    <3> HIDE DEF ts, l
    <3> QED BY <3>1, StartedThreads
  <2>3. client_fd' = l /\ api' = "serving" /\ listen_fd' = listen_fd BY <1>3
  <2> HIDE DEF l
  <2>4. /\ "accept" \in Threads /\ thread'["accept"].at \in {"none", "top"}
        /\ mode = "passive" => thread'["accept"].at = "none"
    BY <1>1, <2>2 DEF Threads
  <2>5. TypeOK' BY <1>0, <2>1, <2>2, <2>3 DEF IInv, TypeOK, Record, Places
  <2>6. Named'
    <3>1. listen_fd # NoFd => fdtab'[listen_fd] = "listener"
      BY <1>0, <2>1, OthersStay
    <3> QED BY <1>0, <1>1, <2>1, <2>3, <3>1 DEF Named, ClientSocket
  <2>7. Held' BY <1>1, <2>1, <2>3 DEF IInv, Safe, Held
  <2>8. AcceptOnce' BY <1>0, <1>1, <2>4 DEF AcceptOnce, Unsaved, Early
  <2>9. Begun' /\ Joined' /\ ClosedInTurn'
    BY <1>0, <1>1, <2>3 DEF Begun, Joined, ClosedInTurn, Joins
  <2> QED BY <2>5, <2>6, <2>7, <2>8, <2>9 DEF IInv, Safe
<1> QED BY <1>2, <1>3 DEF Connect

\* A client connects while the accept thread is in accept().
LEMMA AcceptStep ==
  ASSUME IInv, Accept
  PROVE  IInv'
<1> DEFINE l == Lowest
           r == [at |-> "got", fd |-> l, on |-> "free"]
<1>0. /\ UNCHANGED <<mode, stop_flag, listen_fd, client_fd, rx_fd, api, final>>
      /\ thread \in [Threads -> Record] /\ "accept" \in Threads
      /\ thread["accept"].at = "in" /\ thread' = [thread EXCEPT !["accept"] = r]
  BY DEF Accept, fields, owner, IInv, TypeOK, Record, Places, Threads
<1>1. \A n \in Fds : fdtab[n] # "accepted"
  BY <1>0 DEF IInv, Safe, Held, Unsaved, Early
<1>2. /\ l \in Fds /\ fdtab[l] = "free" /\ l # NoFd
      /\ fdtab' \in [Fds -> Own \cup {"foreign", "free"}]
      /\ live' \subseteq Own \cup {"foreign"}
      /\ \A m \in Fds : fdtab'[m] = IF m = l THEN "accepted" ELSE fdtab[m]
  BY <1>1, OpenedAt DEF Own, Accept
<1> HIDE DEF l
<1>3. /\ thread' \in [Threads -> Record]
      /\ thread'["accept"].at = "got" /\ thread'["accept"].fd = l
      /\ \A t \in Threads \ {"accept"} : thread'[t] = thread[t]
  BY <1>0, <1>2 DEF Record, Places
<1>4. TypeOK' BY <1>0, <1>2, <1>3 DEF IInv, TypeOK, Record, Places
<1>5. Named' BY <1>0, <1>2, OthersStay DEF Named, ClientSocket
<1>6. Held' BY <1>0, <1>1, <1>2, <1>3 DEF IInv, Safe, Held
<1>7. AcceptOnce' BY <1>0, <1>2, <1>3 DEF IInv, Safe, AcceptOnce, Unsaved, Early
<1>8. ~Ended("accept") BY <1>0 DEF Ended
<1>9. Begun' /\ Joined' /\ ClosedInTurn'
  BY <1>0, <1>3, <1>8 DEF IInv, Safe, Begun, Joined, ClosedInTurn, Ended, Threads
<1> QED BY <1>4, <1>5, <1>6, <1>7, <1>9 DEF IInv, Safe

\* Somebody else opens a descriptor: the number it gets was free.
LEMMA ForeignOpenStep ==
  ASSUME IInv, ForeignOpen
  PROVE  IInv'
<1> DEFINE l == Lowest
<1>0. UNCHANGED <<mode, stop_flag, listen_fd, client_fd, rx_fd, thread, api, final>>
  BY DEF ForeignOpen, fields, owner
<1>1. /\ l \in Fds /\ fdtab[l] = "free" /\ l # NoFd
      /\ fdtab' \in [Fds -> Own \cup {"foreign", "free"}]
      /\ live' \subseteq Own \cup {"foreign"}
      /\ \A m \in Fds : fdtab'[m] = IF m = l THEN "foreign" ELSE fdtab[m]
  BY OpenedAt DEF ForeignOpen
<1> HIDE DEF l
<1>2. \A m \in Fds : fdtab[m] # "foreign" BY DEF ForeignOpen
<1>3. TypeOK' BY <1>0, <1>1 DEF IInv, TypeOK
<1>4. Named' BY <1>0, <1>1, OthersStay DEF Named, ClientSocket
<1>5. Held' BY <1>0, <1>1, <1>2 DEF IInv, Safe, Held, AcceptedFd
<1>6. AcceptOnce' BY <1>0, <1>1 DEF IInv, Safe, AcceptOnce
<1>7. Begun' /\ Joined' /\ ClosedInTurn'
  BY <1>0 DEF IInv, Safe, Begun, Joined, ClosedInTurn, Ended
<1> QED BY <1>3, <1>4, <1>5, <1>6, <1>7 DEF IInv, Safe

\* Every step of the next-state relation.
LEMMA NextIInv == IInv /\ [Next]_vars => IInv'
<1> SUFFICES ASSUME IInv, [Next]_vars PROVE IInv' OBVIOUS
<1>1. CASE Api
  <2>1. CASE Listen BY <2>1, ListenStep
  <2>2. CASE Connect BY <2>2, ConnectStep
  <2>3. CASE CallStop \/ Destroy \/ Signal \/ \E t \in Threads : Join(t)
    BY <2>3, Controls
  <2>4. CASE CloseListen \/ CloseClient \/ CloseRx BY <2>4, CloseMember
  <2> QED BY <1>1, <2>1, <2>2, <2>3, <2>4 DEF Api, Stop
<1>2. CASE RxTx \/ AcceptLoad \/ AcceptFails
  <2>1. "rx" \in Threads BY DEF Threads
  <2> QED BY <1>2, <2>1, CallsAndLoops DEF RxTx
<1>3. CASE AcceptStore BY <1>3, AcceptStoreStep
<1>4. CASE AcceptSpawnRx \/ AcceptSpawnTx BY <1>4, AcceptSpawnStep
<1>5. CASE Accept BY <1>5, AcceptStep
<1>6. CASE \E t \in Threads : Progress(t) \/ Transfer(t)
  BY <1>6, CallsAndLoops DEF Progress
<1>7. CASE PeerCloses \/ ForeignClose BY <1>7, Elsewhere
<1>8. CASE ForeignOpen BY <1>8, ForeignOpenStep
<1>9. CASE Gone \/ UNCHANGED vars
  <2>1. UNCHANGED <<mode, stop_flag, listen_fd, client_fd, rx_fd, fdtab, live, thread, api, final>>
    BY <1>9 DEF Gone, vars, fields, kernel, owner
  <2>2. TypeOK' BY <2>1 DEF IInv, TypeOK
  <2>3. Safe' BY <2>1 DEF IInv, Safe, Named, Held, AcceptOnce, Begun, Joined, ClosedInTurn,
                         ClientSocket, AcceptedFd, Ended
  <2> QED BY <2>2, <2>3 DEF IInv
<1> QED BY <1>1, <1>2, <1>3, <1>4, <1>5, <1>6, <1>7, <1>8, <1>9 DEF Next, Accepting

LEMMA Invariance == Spec => []IInv
BY InitIInv, NextIInv, PTL DEF Spec

-----------------------------------------------------------------------------
(* What the threads work on, except where somebody else opens a descriptor *)
(* while stop() is Closing.                                                *)

Role(t) == CASE t = "accept" -> "listener"
             [] t = "rx" -> IF mode = "passive" THEN "outbound" ELSE "accepted"
             [] t = "tx" -> IF mode = "active" THEN "accepted" ELSE "outbound"

\* Places where a thread holds a number that it, or a thread it creates, will
\* pass to a system call; the kind of socket that number is to denote.
Uses(t) == IF t = "accept" THEN {"call", "in", "got", "spawn_rx", "spawn_tx"}
                           ELSE {"top", "wait", "call", "in"}
Kind(t, p) == IF p \in {"got", "spawn_rx", "spawn_tx"} THEN "accepted" ELSE Role(t)

\* While stop() is Closing the number may be free.
Kept(n, s) == n = NoFd \/ fdtab[n] = s \/ (fdtab[n] = "free" /\ api \in Closing)

\* Whoever holds a number finds there the socket of its role, or nothing; the
\* listener accepts only while the member names it.
Traffic ==
  /\ \A t \in Threads :
       /\ thread[t].at \in Uses(t) => Kept(thread[t].fd, Kind(t, thread[t].at))
       /\ thread[t].at = "in" => thread[t].on = Role(t)
  /\ thread["accept"].at = "spawn_tx" => mode = "active"
  /\ "listener" \in live => listen_fd # NoFd

LEMMA InitTraffic == Init => Traffic
BY DEF Init, Traffic, Threads, Uses

LEMMA RoleType ==
  ASSUME NEW t \in Threads, NEW p
  PROVE  Role(t) \in Own /\ Kind(t, p) \in Own
BY DEF Threads, Role, Kind, Own

\* The threads stay where they are: it is enough that no number of theirs is
\* given to another socket.
LEMMA NumbersStay ==
  ASSUME IInv, Traffic, UNCHANGED <<mode, thread>>,
         \A m \in Fds : fdtab[m] \in Own =>
            fdtab'[m] = fdtab[m] \/ (fdtab'[m] = "free" /\ api' \in Closing),
         api \in Closing =>
            \/ api' \in Closing /\ \A m \in Fds : fdtab[m] = "free" => fdtab'[m] = "free"
            \/ \A t \in Threads : Ended(t),
         "listener" \in live' => listen_fd' # NoFd
  PROVE  Traffic'
<1>1. \A t \in Threads : thread[t].fd \in Fds \cup {NoFd} BY DEF IInv, TypeOK
<1>2. ASSUME NEW t \in Threads, thread[t].at \in Uses(t)
      PROVE  Kept(thread[t].fd, Kind(t, thread[t].at))'
  <2>1. ~Ended(t) BY <1>2 DEF Uses, Ended
  <2>2. PICK s, n : s = Kind(t, thread[t].at) /\ n = thread[t].fd OBVIOUS
  <2>3. s \in Own /\ s # "free" BY <2>2, RoleType DEF Own
  <2>4. Kind(t, thread[t].at)' = s /\ thread'[t].fd = n BY <2>2 DEF Kind, Role
  <2>5. n \in Fds \cup {NoFd} BY <1>1, <2>2
  <2>6. Kept(n, s) BY <1>2, <2>2 DEF Traffic
  <2>7. Kept(n, s)' BY <2>1, <2>3, <2>5, <2>6 DEF Kept
  <2> QED BY <2>4, <2>7
<1>3. \A t \in Threads : thread[t].at = "in" => thread'[t].on = Role(t)'
  BY DEF Traffic, Role
<1> QED BY <1>2, <1>3 DEF Traffic, Uses

\* One thread moves on: it is enough that its new number is kept.
LEMMA OneMoves ==
  ASSUME IInv, Traffic, NEW t \in Threads, NEW r \in Record,
         UNCHANGED <<mode, listen_fd, fdtab, live, api>>,
         thread' = [thread EXCEPT ![t] = r],
         r.at \in Uses(t) => Kept(r.fd, Kind(t, r.at)),
         r.at = "in" => r.on = Role(t),
         r.at = "spawn_tx" => t # "accept" \/ mode = "active"
  PROVE  Traffic'
<1>1. thread'[t] = r /\ \A u \in Threads \ {t} : thread'[u] = thread[u]
  BY DEF IInv, TypeOK
<1>2. \A n, s : Kept(n, s)' = Kept(n, s) BY DEF Kept
<1>3. \A u \in Threads : \A p : Kind(u, p)' = Kind(u, p) /\ Role(u)' = Role(u) BY DEF Kind, Role
<1>4. ASSUME NEW u \in Threads
      PROVE  /\ thread'[u].at \in Uses(u) => Kept(thread[u].fd, Kind(u, thread[u].at))'
             /\ thread'[u].at = "in" => thread'[u].on = Role(u)
  <2>1. CASE u = t BY <1>1, <1>2, <1>3, <2>1
  <2>2. CASE u # t
    <3>1. thread'[u] = thread[u] BY <1>1, <2>2
    <3>2. /\ thread[u].at \in Uses(u) => Kept(thread[u].fd, Kind(u, thread[u].at))
          /\ thread[u].at = "in" => thread[u].on = Role(u)
      BY DEF Traffic
    <3> QED BY <1>2, <1>3, <3>1, <3>2
  <2> QED BY <2>1, <2>2
<1>5. thread'["accept"].at = "spawn_tx" => mode = "active"
  BY <1>1 DEF Traffic, Threads
<1> QED BY <1>3, <1>4, <1>5 DEF Traffic, Uses

\* System calls and loops: a thread that is in a call works on what its number
\* denoted when the kernel looked.
LEMMA TrafficCalls ==
  ASSUME IInv, Traffic, NEW t \in Threads,
         Enter(t) \/ Fail(t) \/ Transfer(t) \/ RxLoop \/ TxLoop \/ TxStopped \/ TxPacket
           \/ AcceptLoad \/ AcceptStore \/ AcceptFails
  PROVE  Traffic'
<1>0. /\ thread \in [Threads -> Record] /\ Threads = {"accept", "rx", "tx"}
      /\ \A u \in Threads : thread[u].fd \in Fds \cup {NoFd}
  BY DEF IInv, TypeOK, Record, Places, Threads
<1>1. UNCHANGED <<mode, listen_fd, fdtab, live, api>>
  BY DEF Enter, Fail, Transfer, RxLoop, TxLoop, TxStopped, TxPacket, AcceptLoad, AcceptStore,
         AcceptFails, fields, kernel, owner
<1>2. ASSUME NEW u \in Threads, NEW p \in Places, Goto(u, p),
             \/ p = "done"
             \/ u # "accept" /\ thread[u].at \in Uses(u) /\ p \in {"top", "call", "wait"}
             \/ u = "accept" /\ thread[u].at = "got" /\ p = "spawn_rx"
      PROVE  Traffic'
  <2>1. PICK r : r = [thread[u] EXCEPT !.at = p] OBVIOUS
  <2>2. thread[u] \in Record BY <1>0
  <2>3. r \in Record /\ r.at = p /\ r.fd = thread[u].fd BY <2>1, <2>2 DEF Record
  <2>4. thread' = [thread EXCEPT ![u] = r] BY <1>2, <2>1 DEF Goto
  <2>5. thread[u].at \in Uses(u) => Kept(thread[u].fd, Kind(u, thread[u].at)) BY DEF Traffic
  <2>6. r.at \in Uses(u) => Kept(r.fd, Kind(u, r.at))
    <3>1. CASE p = "done" BY <2>3, <3>1 DEF Uses
    <3>2. CASE u # "accept" /\ thread[u].at \in Uses(u) /\ p \in {"top", "call", "wait"}
      BY <2>3, <2>5, <3>2 DEF Uses, Kind
    <3>3. CASE u = "accept" /\ thread[u].at = "got" /\ p = "spawn_rx"
      BY <2>3, <2>5, <3>3 DEF Uses, Kind
    <3> QED BY <1>2, <3>1, <3>2, <3>3
  <2>7. r.at # "in" /\ r.at # "spawn_tx" BY <1>2, <2>3
  <2> QED BY <1>1, <2>3, <2>4, <2>6, <2>7, OneMoves
<1>3. CASE Enter(t)
  <2> DEFINE n == thread[t].fd
  <2>1. CASE n = NoFd \/ fdtab[n] = "free"
    <3>1. Goto(t, "done") BY <1>3, <2>1 DEF Enter
    <3> QED BY <1>2, <3>1 DEF Places
  <2>2. CASE ~(n = NoFd \/ fdtab[n] = "free")
    <3>1. thread[t].at = "call" /\ Kept(n, Role(t))
      BY <1>3 DEF Enter, Traffic, Uses, Kind
    <3>2. fdtab[n] = Role(t) /\ Role(t) \in Own BY <2>2, <3>1, RoleType DEF Kept
    <3>3. PICK r : r = [thread[t] EXCEPT !.at = "in", !.on = fdtab[n]] OBVIOUS
    <3>4. thread[t] \in Record BY <1>0
    <3>5. r \in Record /\ r.at = "in" /\ r.on = Role(t) /\ r.fd = n
      BY <3>2, <3>3, <3>4 DEF Record, Places
    <3>6. thread' = [thread EXCEPT ![t] = r] BY <1>3, <2>2, <3>3 DEF Enter
    <3>7. Kept(r.fd, Kind(t, r.at)) BY <3>1, <3>5 DEF Kind
    <3> QED BY <1>1, <3>5, <3>6, <3>7, OneMoves
  <2> QED BY <2>1, <2>2
<1>4. CASE Fail(t) BY <1>2, <1>4 DEF Fail, Places
<1>5. CASE Transfer(t) BY <1>2, <1>5 DEF Transfer, Places, Uses
<1>6. CASE RxLoop BY <1>0, <1>2, <1>6 DEF RxLoop, Places, Uses
<1>7. CASE TxLoop BY <1>0, <1>2, <1>7 DEF TxLoop, Places, Uses
<1>8. CASE TxStopped \/ TxPacket BY <1>0, <1>2, <1>8 DEF TxStopped, TxPacket, Places, Uses
<1>9. CASE AcceptStore \/ AcceptFails
  BY <1>0, <1>2, <1>9 DEF AcceptStore, AcceptFails, Places
<1>10. CASE AcceptLoad
  <2>1. PICK r : r = [at |-> "call", fd |-> listen_fd, on |-> "free"] OBVIOUS
  <2>2. r \in Record /\ r.at = "call" /\ r.fd = listen_fd
    BY <2>1 DEF IInv, TypeOK, Record, Places
  <2>3. thread' = [thread EXCEPT !["accept"] = r] BY <1>10, <2>1 DEF AcceptLoad, Calling
  <2>4. Kept(r.fd, Kind("accept", r.at))
    BY <2>2 DEF Kept, Kind, Role, IInv, Safe, Named
  <2> QED BY <1>0, <1>1, <2>2, <2>3, <2>4, OneMoves
<1> QED BY <1>3, <1>4, <1>5, <1>6, <1>7, <1>8, <1>9, <1>10

\* The accept thread hands its connection to the threads it creates.
LEMMA TrafficSpawns ==
  ASSUME IInv, Traffic, AcceptSpawnRx \/ AcceptSpawnTx
  PROVE  Traffic'
<1>0. /\ thread \in [Threads -> Record] /\ Threads = {"accept", "rx", "tx"}
      /\ UNCHANGED <<mode, listen_fd, fdtab, live, api>>
  BY DEF AcceptSpawnRx, AcceptSpawnTx, IInv, TypeOK, Record, Places, Threads,
         fields, kernel, owner
<1>1. thread["accept"].at \in {"spawn_rx", "spawn_tx"}
  BY DEF AcceptSpawnRx, AcceptSpawnTx
<1>2. PICK n : n = thread["accept"].fd OBVIOUS
<1>3. Kept(n, "accepted") BY <1>0, <1>1, <1>2 DEF Traffic, Uses, Kind
<1>4. mode \in {"active", "split"}
  BY <1>1, ParticipantAssumption
  DEF ParticipantAssumption, IInv, TypeOK, Safe, AcceptOnce
<1>5. \A m, s : Kept(m, s)' = Kept(m, s) BY <1>0 DEF Kept
<1>6. \A u \in Threads : \A p : Kind(u, p)' = Kind(u, p) /\ Role(u)' = Role(u)
  BY <1>0 DEF Kind, Role
<1>7. \A u \in Threads :
        /\ thread[u].at \in Uses(u) => Kept(thread[u].fd, Kind(u, thread[u].at))
        /\ thread[u].at = "in" => thread[u].on = Role(u)
  BY DEF Traffic
<1>8. CASE AcceptSpawnRx
  <2>1. /\ thread'["rx"].at = "top" /\ thread'["rx"].fd = n
        /\ thread'["tx"] = thread["tx"]
        /\ thread'["accept"].fd = n
        /\ thread'["accept"].at = IF mode = "split" THEN "done" ELSE "spawn_tx"
    BY <1>0, <1>2, <1>8 DEF AcceptSpawnRx, Record
  <2>2. Role("rx") = "accepted" BY <1>4 DEF Role
  <2>3. ASSUME NEW u \in Threads
        PROVE  /\ thread'[u].at \in Uses(u) => Kept(thread'[u].fd, Kind(u, thread'[u].at))
               /\ thread'[u].at = "in" => thread'[u].on = Role(u)
    BY <1>0, <1>3, <1>7, <2>1, <2>2 DEF Kind, Uses
  <2>4. thread'["accept"].at = "spawn_tx" => mode' = "active" BY <1>0, <1>4, <2>1
  <2> QED BY <1>0, <1>5, <1>6, <2>3, <2>4 DEF Traffic, Uses
<1>9. CASE AcceptSpawnTx
  <2>1. /\ \/ thread'["tx"] = thread["tx"]
           \/ thread'["tx"].at = "top" /\ thread'["tx"].fd = n
        /\ thread'["rx"] = thread["rx"]
        /\ thread'["accept"].at = "done" /\ mode = "active"
    BY <1>0, <1>2, <1>9 DEF AcceptSpawnTx, Record, Traffic
  <2>2. Role("tx") = "accepted" BY <2>1 DEF Role
  <2>3. ASSUME NEW u \in Threads
        PROVE  /\ thread'[u].at \in Uses(u) => Kept(thread'[u].fd, Kind(u, thread'[u].at))
               /\ thread'[u].at = "in" => thread'[u].on = Role(u)
    BY <1>0, <1>3, <1>7, <2>1, <2>2 DEF Kind, Uses
  <2>4. thread'["accept"].at # "spawn_tx" BY <2>1
  <2> QED BY <1>0, <1>5, <1>6, <2>3, <2>4 DEF Traffic, Uses
<1> QED BY <1>8, <1>9

\* stop(), and what others do: numbers are freed, and others open none while
\* stop() is Closing.
LEMMA TrafficAround ==
  ASSUME IInv, Traffic, ~(Interference /\ api \in Closing),
         CallStop \/ Destroy \/ Stop \/ PeerCloses \/ ForeignOpen \/ ForeignClose
  PROVE  Traffic'
<1>0. {listen_fd, client_fd, rx_fd} \subseteq Fds \cup {NoFd} /\ TypeOK
  BY DEF IInv, TypeOK
<1>1. CASE CallStop \/ Destroy \/ Signal
  <2>1. UNCHANGED <<mode, thread, fdtab, live, listen_fd>> /\ api \notin Closing
    BY <1>1 DEF CallStop, Destroy, Signal, fields, kernel, Closing, Joins
  <2> QED BY <2>1, NumbersStay DEF Traffic
<1>2. CASE CloseListen
  <2>1. /\ UNCHANGED <<mode, thread>> /\ listen_fd' = NoFd /\ Closed(listen_fd)
        /\ api = "close_listen" /\ api' = "close_client"
    BY <1>2 DEF CloseListen, AfterStep
  <2>2. /\ live' \subseteq live
        /\ \A m \in Fds : fdtab'[m] = IF m = listen_fd THEN "free" ELSE fdtab[m]
        /\ listen_fd # NoFd => fdtab[listen_fd] \notin live'
    BY <1>0, <2>1, ClosedFrees
  <2>3. "listener" \notin live' BY <2>2 DEF Traffic, IInv, Safe, Named
  <2> QED BY <2>1, <2>2, <2>3, NumbersStay DEF Closing, Joins
<1>3. CASE CloseClient \/ CloseRx
  <2>1. PICK n \in {client_fd, rx_fd} : Closed(n) BY <1>3 DEF CloseClient, CloseRx
  <2>2. /\ UNCHANGED <<mode, thread, listen_fd>>
        /\ api \in Closing /\ api' \in Closing
    BY <1>3 DEF CloseClient, CloseRx, Closing, Joins, AfterStep
  <2>3. /\ live' \subseteq live
        /\ \A m \in Fds : fdtab'[m] = IF m = n THEN "free" ELSE fdtab[m]
    BY <1>0, <2>1, ClosedFrees
  <2> QED BY <2>2, <2>3, NumbersStay DEF Traffic
<1>4. CASE \E t \in Threads : Join(t)
  <2>1. PICK t \in Threads : Join(t) BY <1>4
  <2>2. /\ UNCHANGED <<mode, thread, fdtab, live, listen_fd>>
        /\ \/ api = "join_accept" /\ api' = "join_rx"
           \/ api = "join_rx" /\ api' = "join_tx"
           \/ api = "join_tx" /\ Ended("tx")
    BY <2>1 DEF Join, Threads, JoinStep, AfterStep, fields, kernel
  <2>3. api' \in Closing \/ \A u \in Threads : Ended(u)
    BY <2>2 DEF Closing, Joins, IInv, Safe, Joined, Threads
  <2> QED BY <2>2, <2>3, NumbersStay DEF Traffic
<1>5. CASE PeerCloses
  <2>1. UNCHANGED <<mode, thread, fdtab, listen_fd, api>> /\ live' \subseteq live
    BY <1>5 DEF PeerCloses, fields, owner
  <2> QED BY <2>1, NumbersStay DEF Traffic
<1>6. CASE ForeignClose
  <2>1. UNCHANGED <<mode, thread, listen_fd, api>>
    BY <1>6 DEF ForeignClose, fields, owner
  <2>2. PICK n \in Fds : fdtab[n] = "foreign" /\ Closed(n) BY <1>6 DEF ForeignClose
  <2>3. /\ live' \subseteq live
        /\ \A m \in Fds : fdtab'[m] = IF m = n THEN "free" ELSE fdtab[m]
    BY <1>0, <2>2, ClosedFrees
  <2> QED BY <2>1, <2>2, <2>3, NumbersStay DEF Traffic, Own
<1>7. CASE ForeignOpen
  <2>1. UNCHANGED <<mode, thread, listen_fd, api>> /\ api \notin Closing
    BY <1>7 DEF ForeignOpen, fields, owner, StopSteps, Closing
  <2>2. PICK l : fdtab[l] = "free" /\ \A m \in Fds : fdtab'[m] = IF m = l THEN "foreign" ELSE fdtab[m]
    BY <1>7, OpenedAt DEF ForeignOpen
  <2>3. live' = live \cup {"foreign"} BY <1>7 DEF ForeignOpen, OpenSocket
  <2> QED BY <2>1, <2>2, <2>3, NumbersStay DEF Traffic, Own
<1> QED BY <1>1, <1>2, <1>3, <1>4, <1>5, <1>6, <1>7 DEF Stop

\* The participant opens a socket: before stop(), or while its listener accepts,
\* so that no thread holds a number that was freed.
LEMMA TrafficOpens ==
  ASSUME IInv, Traffic, Listen \/ Connect \/ Accept
  PROVE  Traffic'
<1>0. /\ thread \in [Threads -> Record] /\ Threads = {"accept", "rx", "tx"}
      /\ \A u \in Threads : thread[u].fd \in Fds \cup {NoFd}
      /\ UNCHANGED mode
  BY DEF IInv, TypeOK, Record, Places, Threads, Listen, Connect, Accept
<1>1. CASE Listen
  <2>1. /\ api = "new" /\ \A t \in Threads : thread[t].at = "none"
        /\ \A n \in Fds : fdtab[n] # "listener"
    BY <1>1, NothingYet DEF Listen
  <2>2. CASE UNCHANGED <<listen_fd, kernel, thread>>
    BY <1>0, <2>1, <2>2, NumbersStay DEF Traffic, kernel, Closing, Joins
  <2>3. CASE /\ OpenSocket("listener") /\ listen_fd' = Lowest
             /\ \/ mode = "active" /\ Started({"accept"}, NoFd)
                \/ mode = "split" /\ UNCHANGED thread
    <3>1. listen_fd' # NoFd BY <2>1, <2>3, OpenedAt DEF Own
    <3>2. \A t \in Threads :
            thread'[t].at = "none" \/ (t = "accept" /\ thread'[t].at = "top")
      BY <1>0, <2>1, <2>3 DEF Started
    <3> QED BY <1>0, <3>1, <3>2 DEF Traffic, Uses
  <2> QED BY <1>1, <2>2, <2>3 DEF Listen
<1>2. CASE Connect
  <2>1. /\ (api = "new" /\ mode = "passive") \/ (api = "connect" /\ mode = "split")
        /\ \A t \in Threads : thread[t].at = "none"
        /\ \A n \in Fds : fdtab[n] # "outbound"
    BY <1>2, NothingYet DEF Connect, IInv, Safe, Begun
  <2>2. CASE Closed(listen_fd) /\ listen_fd' = NoFd /\ UNCHANGED thread
    <3>1. TypeOK /\ listen_fd \in Fds \cup {NoFd} BY DEF IInv, TypeOK
    <3>2. /\ live' \subseteq live
          /\ listen_fd # NoFd => fdtab[listen_fd] \notin live'
      BY <2>2, <3>1, ClosedFrees
    <3>3. "listener" \notin live' BY <3>2 DEF Traffic, IInv, Safe, Named
    <3> QED BY <1>0, <2>1, <2>2, <3>3 DEF Traffic, Uses
  <2>3. CASE /\ OpenSocket("outbound") /\ listen_fd' = listen_fd
             /\ Started(IF mode = "passive" THEN {"rx", "tx"} ELSE {"accept", "tx"}, Lowest)
    <3>1. PICK l : l = Lowest OBVIOUS
    <3>2. \A m \in Fds : fdtab'[m] = IF m = l THEN "outbound" ELSE fdtab[m]
      BY <2>1, <2>3, <3>1, OpenedAt DEF Own
    <3>3. l \in Fds BY <2>1, <2>3, <3>1, OpenedAt DEF Own
    <3>4. Kept(l, "outbound")' BY <3>2, <3>3 DEF Kept
    <3>5. live' = live \cup {"outbound"} BY <2>3 DEF OpenSocket
    <3>6. \A t \in Threads :
            \/ thread'[t].at = "none" \/ (t = "accept" /\ thread'[t].at = "top")
            \/ thread'[t].at = "top" /\ thread'[t].fd = l /\ Kind(t, "top")' = "outbound"
      <4>1. CASE mode = "passive"
        BY <1>0, <2>1, <2>3, <3>1, <4>1 DEF Started, Kind, Role
      <4>2. CASE mode = "split"
        BY <1>0, <2>1, <2>3, <3>1, <4>2 DEF Started, Kind, Role
      <4> QED BY <2>1, <4>1, <4>2
    <3>7. "listener" \in live' => listen_fd' # NoFd BY <2>3, <3>5 DEF Traffic
    <3> QED BY <1>0, <3>4, <3>6, <3>7 DEF Traffic, Uses
  <2> QED BY <1>2, <2>2, <2>3 DEF Connect
<1>3. CASE Accept
  <2>1. /\ thread["accept"].at = "in" /\ thread["accept"].on \in live
        /\ UNCHANGED <<mode, listen_fd, api>>
    BY <1>3 DEF Accept, fields, owner
  <2>2. listen_fd # NoFd BY <1>0, <2>1 DEF Traffic, Role
  <2>3. api \notin Closing BY <2>2 DEF IInv, Safe, ClosedInTurn, Closing, Joins
  <2>4. \A n \in Fds : fdtab[n] # "accepted"
    BY <2>1 DEF IInv, Safe, Held, Unsaved, Early
  <2>5. PICK l : l = Lowest OBVIOUS
  <2>6. /\ l \in Fds /\ fdtab[l] = "free"
        /\ \A m \in Fds : fdtab'[m] = IF m = l THEN "accepted" ELSE fdtab[m]
    BY <1>3, <2>4, <2>5, OpenedAt DEF Own, Accept
  <2>7. /\ thread'["accept"].at = "got" /\ thread'["accept"].fd = l
        /\ thread'["rx"] = thread["rx"] /\ thread'["tx"] = thread["tx"]
    BY <1>0, <1>3, <2>5 DEF Accept
  <2>8. Kept(l, "accepted")' BY <2>6 DEF Kept
  <2>9. \A n \in Fds \cup {NoFd}, s \in Own : Kept(n, s) => Kept(n, s)'
    BY <2>3, <2>6 DEF Kept, Own
  <2>10. \A t \in Threads : \A p : Kind(t, p)' = Kind(t, p) /\ Role(t)' = Role(t)
    BY <2>1 DEF Kind, Role
  <2>11. "listener" \in live' => listen_fd' # NoFd BY <2>1, <2>2
  <2>12. ASSUME NEW t \in Threads
         PROVE  /\ thread'[t].at \in Uses(t) => Kept(thread[t].fd, Kind(t, thread[t].at))'
                /\ thread'[t].at = "in" => thread'[t].on = Role(t)
    <3>1. CASE t = "accept" BY <2>7, <2>8, <3>1 DEF Kind
    <3>2. CASE t # "accept"
      <4>1. thread'[t] = thread[t] BY <1>0, <2>7, <3>2
      <4>2. /\ thread[t].at \in Uses(t) => Kept(thread[t].fd, Kind(t, thread[t].at))
            /\ thread[t].at = "in" => thread[t].on = Role(t)
        BY DEF Traffic
      <4> QED BY <1>0, <2>9, <2>10, <4>1, <4>2, RoleType
    <3> QED BY <3>1, <3>2
  <2> QED BY <2>7, <2>10, <2>11, <2>12 DEF Traffic, Uses
<1> QED BY <1>1, <1>2, <1>3

LEMMA NextTraffic ==
  ASSUME IInv, Traffic, ~(Interference /\ api \in Closing), [Next]_vars
  PROVE  Traffic'
<1>1. Threads # {} BY DEF Threads
<1>2. CASE CallStop \/ Destroy \/ Stop \/ PeerCloses \/ ForeignOpen \/ ForeignClose
  BY <1>2, TrafficAround
<1>3. CASE Listen \/ Connect \/ Accept BY <1>3, TrafficOpens
<1>4. CASE RxTx \/ AcceptLoad \/ AcceptStore \/ AcceptFails
  BY <1>1, <1>4, TrafficCalls DEF RxTx
<1>5. CASE AcceptSpawnRx \/ AcceptSpawnTx BY <1>5, TrafficSpawns
<1>6. CASE \E t \in Threads : Progress(t) \/ Transfer(t)
  BY <1>6, TrafficCalls DEF Progress
<1>7. CASE Gone \/ UNCHANGED vars
  <2>1. UNCHANGED <<mode, listen_fd, fdtab, live, thread, api>>
    BY <1>7 DEF Gone, vars, fields, kernel, owner
  <2> QED BY <2>1 DEF Traffic, Kept, Kind, Role, Uses
<1> QED BY <1>2, <1>3, <1>4, <1>5, <1>6, <1>7 DEF Next, Api, Accepting

\* What of Traffic holds also where others reuse the numbers.
Sides ==
  /\ thread["accept"].at = "spawn_tx" => mode = "active"
  /\ "listener" \in live => listen_fd # NoFd

LEMMA NextSides ==
  ASSUME IInv, Sides, [Next]_vars
  PROVE  Sides'
<1>0. /\ thread \in [Threads -> Record] /\ Threads = {"accept", "rx", "tx"} /\ TypeOK
      /\ listen_fd \in Fds \cup {NoFd} /\ mode \in {"active", "passive", "split"}
      /\ mode = "passive" => thread["accept"].at = "none"
      /\ listen_fd # NoFd => fdtab[listen_fd] = "listener"
  BY ParticipantAssumption
  DEF ParticipantAssumption, IInv, TypeOK, Record, Places, Threads, Safe, AcceptOnce, Named
<1>1. ASSUME UNCHANGED <<mode, listen_fd>>, "listener" \in live' => "listener" \in live,
             thread'["accept"].at = "spawn_tx" => mode = "active"
      PROVE  Sides'
  BY <1>1 DEF Sides
<1>2. ASSUME NEW n \in Fds \cup {NoFd}, Closed(n) PROVE live' \subseteq live
  BY <1>0, <1>2, ClosedFrees
<1>3. CASE Listen
  <2>1. /\ \A t \in Threads : thread[t].at = "none"
        /\ \A n \in Fds : fdtab[n] # "listener"
    BY <1>3, NothingYet DEF Listen
  <2>2. thread'["accept"].at # "spawn_tx" BY <1>0, <1>3, <2>1 DEF Listen, Started
  <2>3. UNCHANGED <<live, listen_fd>> \/ listen_fd' # NoFd
    BY <1>3, <2>1, OpenedAt DEF Listen, Own, kernel
  <2> QED BY <2>2, <2>3 DEF Sides
<1>4. CASE Connect
  <2>1. \A t \in Threads : thread[t].at = "none" BY <1>4, NothingYet DEF Connect
  <2>2. thread'["accept"].at # "spawn_tx" BY <1>0, <1>4, <2>1 DEF Connect, Started
  <2>3. CASE Closed(listen_fd)
    <3>1. live' \subseteq live /\ (listen_fd # NoFd => "listener" \notin live')
      BY <1>0, <2>3, ClosedFrees
    <3> QED BY <2>2, <3>1 DEF Sides
  <2>4. CASE OpenSocket("outbound") /\ UNCHANGED listen_fd
    <3>1. live' = live \cup {"outbound"} BY <2>4 DEF OpenSocket
    <3> QED BY <2>2, <2>4, <3>1 DEF Sides
  <2> QED BY <1>4, <2>3, <2>4 DEF Connect
<1>5. CASE CloseListen
  <2>1. /\ UNCHANGED <<mode, thread>> /\ Closed(listen_fd) BY <1>5 DEF CloseListen
  <2>2. live' \subseteq live /\ (listen_fd # NoFd => "listener" \notin live')
    BY <1>0, <2>1, ClosedFrees
  <2> QED BY <2>1, <2>2 DEF Sides
<1>6. CASE CloseClient \/ CloseRx
  <2>1. PICK n \in {client_fd, rx_fd} : Closed(n) BY <1>6 DEF CloseClient, CloseRx
  <2>2. n \in Fds \cup {NoFd} BY <1>0 DEF TypeOK
  <2>3. live' \subseteq live BY <1>2, <2>1, <2>2
  <2> QED BY <1>1, <1>6, <2>3 DEF CloseClient, CloseRx, Sides
<1>7. CASE CallStop \/ Destroy \/ Signal \/ (\E t \in Threads : Join(t)) \/ PeerCloses
           \/ Gone \/ UNCHANGED vars
  <2>1. UNCHANGED <<mode, listen_fd, thread>> /\ live' \subseteq live
    BY <1>7 DEF CallStop, Destroy, Signal, Join, PeerCloses, Gone, vars, fields, kernel
  <2> QED BY <1>1, <2>1 DEF Sides
<1>8. CASE ForeignOpen \/ ForeignClose
  <2>1. UNCHANGED <<mode, listen_fd, thread>>
    BY <1>8 DEF ForeignOpen, ForeignClose, fields
  <2>2. live' \subseteq live \cup {"foreign"}
    BY <1>2, <1>8 DEF ForeignOpen, ForeignClose, OpenSocket
  <2> QED BY <1>1, <2>1, <2>2 DEF Sides
<1>9. CASE Accept
  <2>1. UNCHANGED <<mode, listen_fd>> /\ live' = live \cup {"accepted"}
    BY <1>9 DEF Accept, fields, OpenSocket
  <2>2. thread'["accept"].at = "got" BY <1>0, <1>9 DEF Accept
  <2> QED BY <1>1, <2>1, <2>2
<1>10. CASE AcceptSpawnRx \/ AcceptSpawnTx
  <2>1. UNCHANGED <<mode, listen_fd, live>> /\ thread["accept"].at \in {"spawn_rx", "spawn_tx"}
    BY <1>10 DEF AcceptSpawnRx, AcceptSpawnTx, fields, kernel
  <2>2. thread'["accept"].at = "spawn_tx" => mode # "split"
    <3>1. thread["accept"] \in Record BY <1>0
    <3>2. CASE AcceptSpawnRx
      <4>1. thread'["accept"].at = IF mode = "split" THEN "done" ELSE "spawn_tx"
        BY <1>0, <3>1, <3>2 DEF AcceptSpawnRx, Record
      <4> QED BY <4>1
    <3>3. CASE AcceptSpawnTx
      <4>1. thread'["accept"].at = "done" BY <1>0, <3>1, <3>3 DEF AcceptSpawnTx, Record
      <4> QED BY <4>1
    <3> QED BY <1>10, <3>2, <3>3
  <2> QED BY <1>0, <1>1, <2>1, <2>2
<1>11. ASSUME NEW t \in Threads,
              Enter(t) \/ Fail(t) \/ Transfer(t) \/ RxTx \/ AcceptLoad \/ AcceptStore \/ AcceptFails
       PROVE  Sides'
  <2> USE DEF RxTx, RxLoop, TxLoop, TxStopped, TxPacket
  <2>1. UNCHANGED <<mode, listen_fd, live>>
    BY <1>11 DEF Enter, Fail, Transfer, AcceptLoad, AcceptStore, AcceptFails, fields, kernel
  <2>2. thread'["accept"].at # "spawn_tx" \/ thread'["accept"] = thread["accept"]
    <3>1. thread["accept"] \in Record BY <1>0
    <3>2. ASSUME NEW u \in Threads, NEW p \in Places \ {"spawn_tx"}, Goto(u, p)
          PROVE  thread'["accept"].at # "spawn_tx" \/ thread'["accept"] = thread["accept"]
      BY <1>0, <3>1, <3>2 DEF Goto, Record
    <3>3. CASE Enter(t)
      <4>1. CASE Goto(t, "done") BY <3>2, <4>1 DEF Places
      <4>2. CASE thread' = [thread EXCEPT ![t].at = "in", ![t].on = fdtab[thread[t].fd]]
        BY <1>0, <3>1, <4>2 DEF Record
      <4> QED BY <3>3, <4>1, <4>2 DEF Enter
    <3>4. CASE Fail(t) BY <3>2, <3>4 DEF Fail, Places
    <3>5. CASE Transfer(t) BY <3>2, <3>5 DEF Transfer, Places
    <3>6. CASE RxTx BY <1>0, <3>2, <3>6 DEF Places
    <3>7. CASE AcceptStore \/ AcceptFails BY <1>0, <3>2, <3>7 DEF AcceptStore, AcceptFails, Places
    <3>8. CASE AcceptLoad BY <1>0, <3>8 DEF AcceptLoad, Calling
    <3> QED BY <1>11, <3>3, <3>4, <3>5, <3>6, <3>7, <3>8
  <2> QED BY <1>1, <2>1, <2>2 DEF Sides
<1>12. "rx" \in Threads BY <1>0
<1> QED BY <1>3, <1>4, <1>5, <1>6, <1>7, <1>8, <1>9, <1>10, <1>11, <1>12
        DEF Next, Api, Stop, Accepting, Progress

\* stop() leaves Closing by its last join only, when no thread is left.
LEMMA ClosingEnds ==
  ASSUME IInv, [Next]_vars, api \in Closing
  PROVE  api' \in Closing \/ (UNCHANGED <<mode, thread>> /\ \A t \in Threads : Ended(t))
<1>1. CASE Stop
  <2>1. CASE CloseClient \/ CloseRx BY <2>1 DEF CloseClient, CloseRx, AfterStep, Closing
  <2>2. CASE \E t \in Threads : Join(t)
    <3>1. UNCHANGED <<mode, thread>>
          /\ \/ api = "join_accept" /\ api' = "join_rx"
             \/ api = "join_rx" /\ api' = "join_tx"
             \/ api = "join_tx" /\ Ended("tx")
      BY <2>2 DEF Join, Threads, JoinStep, AfterStep
    <3> QED BY <3>1 DEF Closing, IInv, Safe, Joined, Threads
  <2> QED BY <1>1, <2>1, <2>2 DEF Stop, Signal, CloseListen, Closing
<1>2. CASE Listen \/ Connect \/ CallStop \/ Destroy
  BY <1>2 DEF Listen, Connect, CallStop, Destroy, Closing
<1>3. CASE UNCHANGED api BY <1>3
<1>4. CASE RxTx \/ Accepting \/ Accept \/ AcceptFails
  BY <1>3, <1>4 DEF RxTx, RxLoop, TxLoop, TxStopped, TxPacket, Accepting, AcceptLoad, AcceptStore,
                    AcceptSpawnRx, AcceptSpawnTx, Accept, AcceptFails, owner
<1>5. CASE \E t \in Threads : Progress(t) \/ Transfer(t)
  BY <1>3, <1>5 DEF Progress, Enter, Fail, Transfer, owner
<1>6. CASE PeerCloses \/ ForeignOpen \/ ForeignClose \/ Gone \/ UNCHANGED vars
  BY <1>3, <1>6 DEF PeerCloses, ForeignOpen, ForeignClose, Gone, vars, owner
<1> QED BY <1>1, <1>2, <1>4, <1>5, <1>6 DEF Next, Api

\* The inductive invariant with the exception.
TInv == Sides /\ (Traffic \/ (Interference /\ api \in Closing))

LEMMA NextTInv == IInv /\ TInv /\ [Next]_vars => TInv'
<1> SUFFICES ASSUME IInv, TInv, [Next]_vars PROVE TInv' OBVIOUS
<1>1. Sides' BY NextSides DEF TInv
<1>2. CASE ~(Interference /\ api \in Closing)
  BY <1>1, <1>2, NextTraffic DEF TInv
<1>3. CASE Interference /\ api \in Closing
  <2>1. CASE api' \in Closing BY <1>1, <1>3, <2>1 DEF TInv
  <2>2. CASE UNCHANGED <<mode, thread>> /\ \A t \in Threads : Ended(t)
    <3>1. \A t \in Threads : thread'[t].at \in {"none", "done"} BY <2>2 DEF Ended
    <3>2. \A t \in Threads : thread'[t].at \notin Uses(t)' BY <3>1 DEF Uses
    <3>3. Traffic' BY <1>1, <3>1, <3>2 DEF Traffic, Sides
    <3> QED BY <1>1, <3>3 DEF TInv
  <2> QED BY <1>3, <2>1, <2>2, ClosingEnds
<1> QED BY <1>2, <1>3

-----------------------------------------------------------------------------
(* What holds of every behaviour                                           *)

\* Members, descriptor table, threads and the owner's place have their types
\* (participant.h).
THEOREM TypeCorrect == Spec => []TypeOK
BY Invariance, PTL DEF IInv

\* When stop() has returned every thread of the participant has ended and none
\* will be created, also one that the accept thread created meanwhile: the
\* object may be freed (Participant::stop, ~Participant).
THEOREM ThreadsEndBeforeStopReturns == Spec => []QuietAfterStop
<1>1. IInv => QuietAfterStop
  BY DEF IInv, Safe, Joined, QuietAfterStop, Threads
<1> QED BY <1>1, Invariance, PTL

\* No descriptor outlives the object, although accept_thread_func may store one
\* after stop() looked at the member: the second stop() finds it.
THEOREM DescriptorsClosedWithTheObject == Spec => []NoLeak
<1>1. ASSUME IInv PROVE NoLeak
  <2> SUFFICES ASSUME api = "destroyed", NEW n \in Fds PROVE fdtab[n] \notin Own
    BY DEF NoLeak
  <2>1. listen_fd = NoFd /\ client_fd = NoFd /\ rx_fd = NoFd
    BY <1>1 DEF IInv, Safe, ClosedInTurn
  <2>2. thread["accept"].at # "got" BY <1>1 DEF IInv, Safe, Joined, Ended
  <2> QED BY <1>1, <2>1, <2>2, NoFdIsNone DEF IInv, Safe, Held, AcceptedFd, Own
<1> QED BY <1>1, Invariance, PTL

\* A member that is set names a socket of the participant: stop() never shuts
\* down or closes a descriptor of somebody else, the second time neither.
THEOREM StopClosesItsOwn == Spec => []MembersNameOwnSockets
<1>1. IInv => MembersNameOwnSockets
  BY DEF IInv, Safe, Named, ClientSocket, MembersNameOwnSockets, Own
<1> QED BY <1>1, Invariance, PTL

\* A thread only ever works on the socket of its role, whatever others open and
\* close, through every start, late accept and second stop(); except that from
\* the close of the listener to the last join a number that stop() has closed
\* (participant.cpp:181-194) may by then be somebody else's.
THEOREM ThreadsUseTheirSockets == Spec => []OwnTraffic
<1>1. Init => TInv
  <2>1. Init => Sides BY DEF Init, Sides, Threads
  <2> QED BY <2>1, InitTraffic DEF TInv
<1>2. TInv => OwnTraffic BY DEF TInv, Traffic, OwnTraffic, Role, Threads
<1> QED BY <1>1, <1>2, NextTInv, Invariance, PTL DEF Spec
=============================================================================
