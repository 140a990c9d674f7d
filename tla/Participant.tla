----------------------------- MODULE Participant ----------------------------
(***************************************************************************)
(* Threads and descriptors of one Participant (participant.cpp): the API   *)
(* thread that starts, stops and destroys it, its accept, rx and tx        *)
(* threads, and the descriptor table of the process, where a number that   *)
(* was closed is handed out again.                                         *)
(*                                                                         *)
(* A system call is two steps: the thread passes the number, then the      *)
(* kernel resolves it and works on the socket it found there, even if the  *)
(* number is closed or reused meanwhile.  What is sent and received, and   *)
(* the send queue with its condition variable, are in SendPath; here the   *)
(* sender waits for a packet or for stop_flag_.                            *)
(***************************************************************************)
EXTENDS Integers, FiniteSets

CONSTANTS
  Modes,          \* subset of {"active", "passive", "split"}
  Fds,            \* descriptor numbers
  Interference    \* do others open descriptors while stop() closes and joins?

ASSUME ParticipantAssumption ==
  /\ Modes \subseteq {"active", "passive", "split"} /\ Modes # {}
  /\ Fds \subseteq Nat /\ IsFiniteSet(Fds) /\ Cardinality(Fds) >= 4
  /\ Interference \in BOOLEAN

Threads == {"accept", "rx", "tx"}
Own     == {"listener", "accepted", "outbound"}     \* sockets of the participant
NoFd    == -1

VARIABLES
  mode,                            \* which of start, startPassive, startSplit
  stop_flag,
  listen_fd, client_fd, rx_fd,     \* the descriptor members, NoFd when unset
  fdtab,       \* number -> socket it denotes, or "free"
  live,        \* sockets neither shut down here nor closed by the peer
  thread,      \* [at, fd, on] per thread: its place, the number and the socket it uses
  api,         \* where the thread that owns the object is
  final        \* is stop() called by the destructor?

fields == <<listen_fd, client_fd, rx_fd>>
kernel == <<fdtab, live>>
owner  == <<api, final>>
vars   == <<mode, stop_flag, fields, kernel, thread, owner>>

Free == {n \in Fds : fdtab[n] = "free"}
Lowest == CHOOSE n \in Free : \A m \in Free : n <= m
Ended(t) == thread[t].at \in {"none", "done"}

\* Thread t's place becomes p; it is about to use, or uses, number n or socket s.
Goto(t, p)       == thread' = [thread EXCEPT ![t].at = p]
Calling(t, n)    == thread' = [thread EXCEPT ![t] = [at |-> "call", fd |-> n, on |-> "free"]]
Started(ts, n) ==
  thread' = [t \in Threads |-> IF t \in ts THEN [at |-> "top", fd |-> n, on |-> "free"]
                               ELSE thread[t]]

OpenSocket(s) ==
  /\ fdtab' = [fdtab EXCEPT ![Lowest] = s]
  /\ live' = live \cup {s}

-----------------------------------------------------------------------------
(* The API thread: construction and start().                               *)

\* socket, bind and listen, in start() and startSplit().
Listen ==
  /\ api = "new" /\ mode \in {"active", "split"}
  /\ \/ /\ OpenSocket("listener") /\ listen_fd' = Lowest
        /\ \/ mode = "active" /\ Started({"accept"}, NoFd) /\ api' = "serving"
           \/ mode = "split" /\ UNCHANGED thread /\ api' = "connect"
     \/ api' = "failed" /\ UNCHANGED <<listen_fd, kernel, thread>>
  /\ UNCHANGED <<mode, stop_flag, client_fd, rx_fd, final>>

\* Mutant: the number is closed without a look at whether it is set.
ClosedUnchecked(n) ==
  /\ fdtab' = [m \in Fds \cup {n} |-> IF m = n THEN "free" ELSE fdtab[m]]
  /\ live' = {s \in live : \E m \in Fds \ {n} : fdtab[m] = s}

\* Closing the number n, after shutdown() of the socket it denotes.
Closed(n) ==
  /\ fdtab' = IF n = NoFd THEN fdtab ELSE [fdtab EXCEPT ![n] = "free"]
  /\ live' = IF n = NoFd THEN live ELSE live \ {fdtab[n]}

\* connect() in startPassive() and startSplit(), then the threads.
Connect ==
  /\ \/ api = "new" /\ mode = "passive"
     \/ api = "connect"
  /\ \/ /\ OpenSocket("outbound") /\ client_fd' = Lowest
        /\ Started(IF mode = "passive" THEN {"rx", "tx"} ELSE {"accept", "tx"}, Lowest)
        /\ api' = "serving" /\ UNCHANGED listen_fd
     \/ /\ Closed(listen_fd) /\ listen_fd' = NoFd
        /\ api' = "failed" /\ UNCHANGED <<client_fd, thread>>
  /\ UNCHANGED <<mode, stop_flag, rx_fd, final>>

-----------------------------------------------------------------------------
(* The API thread: stop(), called by the meeting if the start succeeded    *)
(* and again by the destructor.                                            *)

StopSteps == {"flag", "drain", "close_listen", "close_client", "close_rx",
              "join_accept", "join_rx", "join_tx"}

JoinStep == [accept |-> "join_accept", rx |-> "join_rx", tx |-> "join_tx"]

\* Mutant: the accept thread is joined after the thread it may still create.
AfterStepJoinsRxFirst(step) ==
  CASE step = "flag"         -> "drain"
    [] step = "drain"        -> "close_listen"
    [] step = "close_listen" -> "close_client"
    [] step = "close_client" -> "close_rx"
    [] step = "close_rx"     -> "join_rx"
    [] step = "join_rx"      -> "join_accept"
    [] step = "join_accept"  -> "join_tx"
    [] step = "join_tx"      -> IF final THEN "destroyed" ELSE "stopped"

AfterStep(step) ==
  CASE step = "flag"         -> "drain"
    [] step = "drain"        -> "close_listen"
    [] step = "close_listen" -> "close_client"
    [] step = "close_client" -> "close_rx"
    [] step = "close_rx"     -> "join_accept"
    [] step = "join_accept"  -> "join_rx"
    [] step = "join_rx"      -> "join_tx"
    [] step = "join_tx"      -> IF final THEN "destroyed" ELSE "stopped"

\* Every participant that started is stopped by its meeting before it is
\* destroyed: on removal, with the meeting, or when the bridge has no slot left.
CallStop ==
  /\ api = "serving"
  /\ api' = "flag"
  /\ UNCHANGED <<mode, stop_flag, fields, kernel, thread, final>>

\* Mutant: the destructor relies on the stop() that was called before.
DestroyOnly ==
  /\ api \in {"stopped", "failed"}
  /\ api' = "destroyed" /\ final' = TRUE
  /\ UNCHANGED <<mode, stop_flag, fields, kernel, thread>>

Destroy ==
  /\ api \in {"stopped", "failed"}
  /\ api' = "flag" /\ final' = TRUE
  /\ UNCHANGED <<mode, stop_flag, fields, kernel, thread>>

\* stop_flag_.store(true); then, under queue_mutex_, clear and notify.
Signal ==
  /\ api \in {"flag", "drain"}
  /\ stop_flag' = TRUE /\ api' = AfterStep(api)
  /\ UNCHANGED <<mode, fields, kernel, thread, final>>

\* Mutants: a closed descriptor stays in the member that named it; the socket
\* is closed without shutdown().
CloseClientKeepsNumber ==
  /\ api = "close_client" /\ Closed(client_fd) /\ api' = AfterStep(api)
  /\ UNCHANGED <<mode, stop_flag, fields, thread, final>>
CloseClientNoShutdown ==
  /\ api = "close_client" /\ client_fd' = NoFd /\ api' = AfterStep(api)
  /\ fdtab' = IF client_fd = NoFd THEN fdtab ELSE [fdtab EXCEPT ![client_fd] = "free"]
  /\ UNCHANGED <<mode, stop_flag, listen_fd, rx_fd, live, thread, final>>

CloseListen ==
  /\ api = "close_listen" /\ Closed(listen_fd) /\ listen_fd' = NoFd
  /\ api' = AfterStep(api)
  /\ UNCHANGED <<mode, stop_flag, client_fd, rx_fd, thread, final>>

CloseClient ==
  /\ api = "close_client" /\ Closed(client_fd) /\ client_fd' = NoFd
  /\ api' = AfterStep(api)
  /\ UNCHANGED <<mode, stop_flag, listen_fd, rx_fd, thread, final>>

CloseRx ==
  /\ api = "close_rx" /\ Closed(rx_fd) /\ rx_fd' = NoFd
  /\ api' = AfterStep(api)
  /\ UNCHANGED <<mode, stop_flag, listen_fd, client_fd, thread, final>>

\* if (thread.joinable()) thread.join(): a thread not created yet is passed over.
Join(t) ==
  /\ api = JoinStep[t] /\ Ended(t)
  /\ api' = AfterStep(api)
  /\ UNCHANGED <<mode, stop_flag, fields, kernel, thread, final>>

-----------------------------------------------------------------------------
(* System calls of the three threads.                                      *)

\* The kernel resolves the number; a number that denotes nothing is an error.
Enter(t) ==
  /\ thread[t].at = "call"
  /\ LET n == thread[t].fd IN
       IF n = NoFd \/ fdtab[n] = "free" THEN Goto(t, "done")
       ELSE thread' = [thread EXCEPT ![t].at = "in", ![t].on = fdtab[n]]
  /\ UNCHANGED <<mode, stop_flag, fields, kernel, owner>>

\* An error or end of file, once the socket is shut down or its peer is gone.
Fail(t) ==
  /\ thread[t].at = "in" /\ thread[t].on \notin live
  /\ Goto(t, "done")
  /\ UNCHANGED <<mode, stop_flag, fields, kernel, owner>>

\* recv() or send() moved some bytes: read_exact and write_exact call again
\* for the rest, without a look at stop_flag_, or the loop starts over.
Transfer(t) ==
  /\ t \in {"rx", "tx"} /\ thread[t].at = "in" /\ thread[t].on \in live
  /\ Goto(t, "call") \/ Goto(t, "top")
  /\ UNCHANGED <<mode, stop_flag, fields, kernel, owner>>

RxLoop ==
  /\ thread["rx"].at = "top"
  /\ IF stop_flag THEN Goto("rx", "done") ELSE Goto("rx", "call")
  /\ UNCHANGED <<mode, stop_flag, fields, kernel, owner>>

TxLoop ==
  /\ thread["tx"].at = "top"
  /\ IF stop_flag THEN Goto("tx", "done") ELSE Goto("tx", "wait")
  /\ UNCHANGED <<mode, stop_flag, fields, kernel, owner>>

\* The wait of tx_thread_func ends because of stop_flag_, or with a packet.
TxStopped ==
  /\ thread["tx"].at = "wait" /\ stop_flag
  /\ Goto("tx", "done")
  /\ UNCHANGED <<mode, stop_flag, fields, kernel, owner>>

TxPacket ==
  /\ thread["tx"].at = "wait" /\ ~stop_flag
  /\ Goto("tx", "call")
  /\ UNCHANGED <<mode, stop_flag, fields, kernel, owner>>

-----------------------------------------------------------------------------
(* accept_thread_func                                                      *)

AcceptLoad ==
  /\ thread["accept"].at = "top"
  /\ Calling("accept", listen_fd)
  /\ UNCHANGED <<mode, stop_flag, fields, kernel, owner>>

\* A client connected: accept() returns a new descriptor.
Accept ==
  /\ thread["accept"].at = "in" /\ thread["accept"].on \in live
  /\ OpenSocket("accepted")
  /\ thread' = [thread EXCEPT !["accept"] = [at |-> "got", fd |-> Lowest, on |-> "free"]]
  /\ UNCHANGED <<mode, stop_flag, fields, owner>>

\* accept() fails for a reason of its own, such as a table that is full, and the
\* thread returns: there is no other.
AcceptFails ==
  /\ thread["accept"].at = "in"
  /\ Goto("accept", "done")
  /\ UNCHANGED <<mode, stop_flag, fields, kernel, owner>>

\* rx_fd_ = fd or client_fd_ = fd, unsynchronised with stop(): a read there
\* that misses the store is the same as the store coming after it.
AcceptStore ==
  /\ thread["accept"].at = "got"
  /\ IF mode = "split" THEN rx_fd' = thread["accept"].fd /\ UNCHANGED client_fd
                       ELSE client_fd' = thread["accept"].fd /\ UNCHANGED rx_fd
  /\ Goto("accept", "spawn_rx")
  /\ UNCHANGED <<mode, stop_flag, listen_fd, kernel, owner>>

\* Mutant: split mode is not told apart, the sender is started a second time.
AcceptSpawnRxAndTx ==
  /\ thread["accept"].at = "spawn_rx"
  /\ thread' = [thread EXCEPT
                  !["rx"] = [at |-> "top", fd |-> thread["accept"].fd, on |-> "free"],
                  !["accept"].at = "spawn_tx"]
  /\ UNCHANGED <<mode, stop_flag, fields, kernel, owner>>

AcceptSpawnRx ==
  /\ thread["accept"].at = "spawn_rx"
  /\ thread' = [thread EXCEPT
                  !["rx"] = [at |-> "top", fd |-> thread["accept"].fd, on |-> "free"],
                  !["accept"].at = IF mode = "split" THEN "done" ELSE "spawn_tx"]
  /\ UNCHANGED <<mode, stop_flag, fields, kernel, owner>>

\* start_tx_thread
AcceptSpawnTx ==
  /\ thread["accept"].at = "spawn_tx"
  /\ thread' = [thread EXCEPT
                  !["tx"] = IF stop_flag THEN thread["tx"]
                            ELSE [at |-> "top", fd |-> thread["accept"].fd, on |-> "free"],
                  !["accept"].at = "done"]
  /\ UNCHANGED <<mode, stop_flag, fields, kernel, owner>>

-----------------------------------------------------------------------------
(* The environment.                                                        *)

PeerCloses ==
  /\ \E s \in live \cap {"accepted", "outbound"} : live' = live \ {s}
  /\ UNCHANGED <<mode, stop_flag, fields, fdtab, thread, owner>>

\* Another participant, or the HTTP server, opens and closes descriptors.
ForeignOpen ==
  /\ \A n \in Fds : fdtab[n] # "foreign"
  /\ Interference \/ api \notin StopSteps
  /\ OpenSocket("foreign")
  /\ UNCHANGED <<mode, stop_flag, fields, thread, owner>>

ForeignClose ==
  /\ \E n \in Fds : fdtab[n] = "foreign" /\ Closed(n)
  /\ UNCHANGED <<mode, stop_flag, fields, thread, owner>>

Gone == api = "destroyed" /\ UNCHANGED vars

-----------------------------------------------------------------------------
Init ==
  /\ mode \in Modes /\ stop_flag = FALSE
  /\ listen_fd = NoFd /\ client_fd = NoFd /\ rx_fd = NoFd
  /\ fdtab = [n \in Fds |-> "free"] /\ live = {}
  /\ thread = [t \in Threads |-> [at |-> "none", fd |-> NoFd, on |-> "free"]]
  /\ api = "new" /\ final = FALSE

Stop == Signal \/ CloseListen \/ CloseClient \/ CloseRx \/ \E t \in Threads : Join(t)
Api == Listen \/ Connect \/ CallStop \/ Destroy \/ Stop
Progress(t) == Enter(t) \/ Fail(t)
RxTx == RxLoop \/ TxLoop \/ TxStopped \/ TxPacket
Accepting == AcceptLoad \/ AcceptStore \/ AcceptSpawnRx \/ AcceptSpawnTx

Next ==
  \/ Api \/ RxTx \/ Accepting \/ Accept \/ AcceptFails
  \/ \E t \in Threads : Progress(t) \/ Transfer(t)
  \/ PeerCloses \/ ForeignOpen \/ ForeignClose \/ Gone

Spec == Init /\ [][Next]_vars

\* The scheduler runs every thread, and a system call on a dead socket
\* returns.  Peers need not connect, send, read or close; no audio need come.
Fairness ==
  /\ WF_vars(Stop) /\ WF_vars(Accepting)
  /\ WF_vars(RxLoop) /\ WF_vars(TxLoop) /\ WF_vars(TxStopped)
  /\ \A t \in Threads : WF_vars(Progress(t))

FairSpec == Spec /\ Fairness

-----------------------------------------------------------------------------
(* Properties                                                              *)

\* Type invariant: members, descriptor table, threads and the owner's place.
TypeOK ==
  /\ mode \in Modes /\ stop_flag \in BOOLEAN /\ final \in BOOLEAN
  /\ {listen_fd, client_fd, rx_fd} \subseteq Fds \cup {NoFd}
  /\ fdtab \in [Fds -> Own \cup {"foreign", "free"}]
  /\ live \subseteq Own \cup {"foreign"}
  /\ thread \in [Threads ->
       [at : {"none", "top", "call", "in", "wait", "got", "spawn_rx", "spawn_tx", "done"},
        fd : Fds \cup {NoFd}, on : Own \cup {"foreign", "free"}]]
  /\ api \in StopSteps \cup {"new", "connect", "serving", "failed", "stopped", "destroyed"}

\* When stop() has returned no thread of the participant runs or will be
\* created, even one the accept thread created while stop() was closing
\* sockets: the object may be freed.
QuietAfterStop == api \in {"stopped", "destroyed"} => \A t \in Threads : Ended(t)

\* No descriptor outlives the object, neither one accepted after stop() looked
\* at client_fd_ or rx_fd_, nor one of a start that failed half way.
NoLeak == api = "destroyed" => \A n \in Fds : fdtab[n] \notin Own

\* "Stop all threads and close sockets" (participant.h): once stop() has
\* returned the participant holds no descriptor.
ClosedAfterStop == api = "stopped" => \A n \in Fds : fdtab[n] \notin Own

\* A descriptor member names a socket of this participant: stop() never shuts
\* down or closes one that belongs to somebody else, the second time neither.
MembersNameOwnSockets ==
  \A n \in {listen_fd, client_fd, rx_fd} \ {NoFd} : fdtab[n] \in Own

\* From the close of the listener until the last join stop() has closed numbers
\* that its threads may still hold.
Closing == {"close_client", "close_rx", "join_accept", "join_rx", "join_tx"}

\* A thread works on the participant's own socket of its role, through every
\* start, late accept and second stop().  The one exception is where stop() is
\* still Closing and others open descriptors meanwhile: a number it has closed
\* may by then be another socket's.
OwnTraffic ==
  \A t \in Threads : thread[t].at = "in" =>
    \/ thread[t].on \in CASE t = "accept" -> {"listener"}
                          [] t = "rx" -> {IF mode = "passive" THEN "outbound" ELSE "accepted"}
                          [] t = "tx" -> {IF mode = "active" THEN "accepted" ELSE "outbound"}
    \/ Interference /\ api \in Closing

\* stop() returns although its threads may be blocked in accept(), recv() or
\* send(), or about to be: the shutdowns and stop_flag_ reach every one of them.
StopReturns == api = "flag" ~> api \in {"stopped", "destroyed"}

\* It does so whatever others open and close meanwhile, unless one of its threads
\* gets onto a socket of theirs: nothing else can hold it up.
StopReturnsOrStrays ==
  api = "flag" ~> \/ api \in {"stopped", "destroyed"}
                   \/ \E t \in Threads : thread[t].at = "in" /\ thread[t].on = "foreign"
=============================================================================
