# A TLA+ model of audio-meet-server

audio-meet-server mixes the audio of meetings: an HTTP API creates meetings and adds
participants; each participant is a TCP connection that carries G.711 in RTP packets;
one conference bridge per meeting mixes them every 20 ms. Sources are cited below as
they lie in `src/src/`.

## 1. Inventory

| Part | State it keeps | Operations | What makes it correct |
|---|---|---|---|
| `PortAllocator` | `used_`, `next_` under `mutex_` | `allocate` (scan from `next_`, probe by `bind`), `release` | a port is given to one holder at a time; the pool knows what is held; a port is given again only after the scan has been past all others |
| `MeetingManager` | `meetings_` under `mutex_` | create, get, list, destroy, delete a participant | destroying a meeting gives everything back; handlers may still hold a meeting that is gone |
| `Meeting` | `participants_` under `parts_mutex_`; the bridge (slots, connections, levels) under `conf_mutex_`; pool and clock | add (active, passive, split), remove, mute, look, stop, the clock's tick | table and bridge agree; everyone hears everyone; a mute hits whom it names; no structural change while the clock mixes; handlers, `stop` and clock never wait for each other in a circle |
| `Participant`, threads | `listen_fd_`, `client_fd_`, `rx_fd_` (unsynchronised), `stop_flag_`, three threads | `start`, `startPassive`, `startSplit`, `stop`, destructor | `stop` returns; no thread and no descriptor outlives the object |
| `Participant`, sending | `send_queue_`, `tx_active_` under `queue_mutex_`; RTP counters and accumulator, clock thread only | `on_put_frame`, `tx_thread_func`, `start_tx_thread` | order, numbering and timestamps of what is sent; a bounded queue; nothing after cleanup |
| `Participant`, receiving | `rx_buf_` under `rx_buf_mutex_`; `rx_leftover_` | `rx_thread_func`, `on_get_frame` | frames are reassembled whole and in order; a bounded buffer |
| `ApiServer` | none | the HTTP handlers, on httplib's pool of threads | each request is answered, and what the answer says was true at some moment of the request |
| `RtpPacket`, `G711Alaw` | none | serialize, parse; encode, decode | they are inverse to each other; parsing stays inside the packet |
| `MsLog` | a queue of lines and a pool of buffers under a mutex | `Log`, the worker `OnRun`, `Exit` | lines are written once and in order; lines stay for the last `m_days` dates |
| `PjMediaCtx`, `main` | the PJ libraries | start, stop | – |

**How they interact.** An HTTP worker runs a handler: it looks the meeting up, takes a port
from the allocator, and lets the meeting construct and start a participant and enter it into
the bridge. The bridge's clock thread calls the participant's `on_get_frame` and
`on_put_frame`. The participant's own accept, rx and tx threads move packets between its
sockets, the receive buffer and the send queue. `stop()` runs in whatever thread removes the
participant and joins the other three.

**What is hard.** Every handler is a sequence of critical sections under different locks with
nothing held in between. `stop()` reads and closes descriptors without a lock while the accept
thread writes them, and closes them before it joins the threads that use their numbers. The
producer of packets is a real-time callback that only looks at atomics before it encodes. Peers
connect late, never, send nothing, read nothing, or reset. Counters wrap. `PROJECT.json` lists
the hazards one by one, each with its line and the properties that watch it.

## 2. Modules

| Module | Models | Uses |
|---|---|---|
| `AudioFeed` | what a sender promises its listener (abstract) | |
| `SendPath` | the sending half of `participant.cpp` | refines `AudioFeed` |
| `SendPathProofs` | theorems about `SendPath` | `SendPath` |
| `ReceivePath` | the receiving half of `participant.cpp` | extends `RtpPacket`, `G711`; refines `PlayoutBuffer` |
| `ReceivePathMC` | the octets of the audio for TLC | `ReceivePath` |
| `ReceivePathProofs` | theorems about `ReceivePath`, `RtpPacket` and `G711` | `ReceivePath` |
| `PlayoutBuffer` | what the receive buffer promises the bridge (abstract) | |
| `RtpPacket`, `G711` | `rtp_packet.cpp` and `g711.h` as operators | |
| `Participant` | threads and descriptors of `participant.cpp` | |
| `ParticipantProofs` | theorems about `Participant` | `Participant` |
| `Meeting` | `meeting.cpp`: one meeting, its two mutexes, its bridge and its clock | refines `MeetingRoom` |
| `MeetingRoom` | what a meeting promises those in it (abstract) | |
| `MeetingProofs` | theorems about `Meeting`, and the refinement of `MeetingRoom` | `Meeting` |
| `PortAllocator` | `port_allocator.cpp` | |
| `PortAllocatorMC` | `PortAllocator` with well-behaved callers and two history variables | `PortAllocator` |
| `PortAllocatorProofs` | theorems about the pool and its rotation | `PortAllocatorMC` |
| `MeetingService` | the handlers of `server.cpp` over `meeting_manager.cpp` and the table of `meeting.cpp` | instance of `PortAllocator` |
| `MeetingServiceMC` | symmetry for TLC | `MeetingService` |
| `MeetingServiceProofs` | theorems about `MeetingService` | `MeetingService` |
| `ApiServer` | what the seven handlers of `server.cpp` answer | |
| `ApiServerMC` | symmetry for TLC | `ApiServer` |
| `ApiServerProofs` | theorems about `ApiServer` | `ApiServer` |
| `MsLog` | the logger, `MsLog.cpp`, with its files and restarts | |
| `MsLogProofs` | theorems about `MsLog` | `MsLog` |

Definitions whose comment begins with "Mutant" are plausible mistakes. No specification uses
them; substituted for the definition they stand next to, each makes a property fail, which
shows that the property depends on that code.

### SendPath

Four threads: the clock thread (`clock`), the thread that opens the connection (`opener`), the
sender (`sender`) and the caller of `stop()` (`stopper`); each variable is a program counter.
`stop_flag`, `tx_active` and `send_queue` are the shared members; `tx_acc`, `tx_batch_ts`,
`tx_timestamp` and `tx_seq` are the clock thread's.

* A section under `queue_mutex_` is one action: `Enqueue`, `TxTake`, `TxCleanup`, `StopQueue`,
  `StartTxThread`. Nothing blocks inside one, apart from the wait, and every access to the queue
  is in one.
* The two loads of the fast path in `on_put_frame` are separate actions (`PutFrame`,
  `EncodeFrame`), so that everything can happen between them and before `Enqueue`.
* The condition variable: a sender that finds its predicate false is `asleep` and leaves only
  through `Notify` or `SpuriousWake`.
* A frame is known by the number of its tick, so that order, loss and repetition of audio are
  visible in the packets. What is encoded in it is left out; so are the loops of `write_exact`
  over partial writes, whose blocking and failing are kept.
* `wire` is a history variable: the packets written whole.

`AudioFeed` has no threads: a listener hears packets in order and nothing twice, the feed lags
by at most the queue's bound beside the packet being sent, when it is full the oldest waiting
packet is given up, and a closed feed takes nothing and never opens again. `SendPath` implements
it with `pending` as the packet in the sender's hand followed by the queue, and `phase` from
`tx_active`, the sender and `stop()`.

### ReceivePath

The peer's audio is a stream of octets, `Audio`, of which nothing is assumed; `ReceivePathMC` gives TLC one
whose octets all differ. `ReadSpeech` is a turn of `rx_thread_func` up to
the parsed packet: the peer puts the next few octets into a packet, in any of the forms RTP allows
(a source, an extension, padding), `Parse` understands it and `TakePayload` joins its payload to the
carry-over, if there is one. `ReadJunk` is a packet the thread must skip. `PushFrame` is one frame
under `rx_buf_mutex_`, `Keep` the octets that remain, on either of the two paths, `Hangup` the end of
the connection, and `GetFrame` is `on_get_frame`, called by the clock thread at any time. The rx
thread's blocking and its descriptors are in `Participant`.

`Parse`, `Serialize`, `decodeSample` and `encodeSample` work on octets and samples as the code does;
the 32-bit fields of the header are pairs of halves. `ReceivePath` compares them with references:
what the peer meant by a packet (`Understood`), and `Linear`, the A-law of the standard. `G711` itself
assumes `CodecInverts`, which TLC evaluates over all 65 536 samples: encoding and decoding a sample
gives its opposite, within the resolution of the code (see section 5).

`PlayoutBuffer` has the frames of the audio, `Frame(1)`, `Frame(2)` and so on, a bounded queue that gives
up the oldest, and a bridge that gets the oldest one waiting or silence. Its state is `ReceivePath`'s own
queue and the number of frames put, so the refinement compares samples and needs no frame to differ from
another.

### Participant

The thread that owns the object (`api`), the three threads (`thread[t]`, with the number and the
socket each is using), the three members that hold descriptors, and the descriptor table of the
process (`fdtab`), which hands out the lowest free number. A system call is two steps: the thread
passes a number (`"call"`), the kernel resolves it (`Enter`); from then on the thread works on
that socket even if the number is closed or reused. That is what makes closing before joining
visible. `read_exact` and `write_exact` may call again without looking at `stop_flag_`, hence
`Transfer` to `"call"` or to `"top"`. A member read by `stop()` that misses the accept thread's
unsynchronised store behaves as if the store came later, which is a behaviour of the model.

`accept()` may fail at any time for a reason of its own (`AcceptFails`), after which there is no accept
thread; `SendPath` has the same step.

`Interference` says whether other threads of the process open descriptors while `stop()` is
running, as the HTTP server does; `participant` has it, `participant_closed` does without.
`ForeignOpen` and `ForeignClose` are enabled at all other times in either case. With interference a
thread that has not been joined yet can resolve its number to another socket, but only after `stop()` has
closed a descriptor (`Closing`); `OwnTraffic` excepts that and nothing else. `StopReturnsOrStrays` says
that nothing but being on a foreign one can keep `stop()` from returning, so that without interference it
returns; that it can is `participant_reuse`. What a thread reads or writes there is not pursued.

### Meeting

`parts_mutex` and `conf_mutex` say who holds each of the two `std::shared_mutex`, exclusively or
shared; an action either takes a lock, or runs with it, or lets go of it, so that everything another
thread may do in between is there. `worker[w]` is the handler's step and what it remembers.

* Add: `BeginAdd`, `AddLock`, then with `parts_mutex_` held `StartFails`, `Starts` or `StartCrashes`,
  `BridgeLock`, `AddPort`, `Connect` for each connection of the full mesh (without `conf_mutex_`, as
  in the code) and `Register`.
* Remove: `BeginRemove`, `RemoveLock`, `DetachLock`, `Unplug`, `StopPart`. Mute: `BeginMute`,
  `MuteShare`, `HoldLock`, `Adjust`. Lookups: `BeginLook`, `Look`.
* `stop()`: `BeginStop` tells the clock to end, `Join` waits for it, `CloseLock`, `RemoveEach` for
  each port (without `conf_mutex_`), `Finish`. It runs once, in the handler that erased the meeting.
* The clock: `Tick` has read `conf_` without a lock, `TickShare` takes `conf_mutex_` shared, `TickEnd`
  ends the mixing.

The bridge is PJMEDIA's: `bridge` has the occupant of each slot, `wires` the directed connections,
`muted` the slots with their level off. A new port takes the lowest free slot, so slots are reused;
removing a port frees its slot, its connections and its level. `Connect` always succeeds; the code ignores
the status of `pjmedia_conf_connect_port` (`meeting.cpp:108`), which fails only for a slot without a port, and
by `TableFits` and `InSlot` (section 4) both slots have one.

`MeetingRoom` has no slots, locks or steps: whoever is in an open room hears everybody else and is
heard by them, joins unmuted, is muted by name only, and a room closes once. `Meeting` implements it
with `Registered` as the members, `open` from the pool and the clock's order to quit, `hears` and
`silenced` from wires and levels of the registered slots; joining happens at `Register`, leaving at
`RemoveLock`, closing at `BeginStop`.

### PortAllocator

`Hits` are the distances from `next_` at which the scan would stop; `Allocate` stops at the
smallest. Which ports can be bound (`avail`) is up to the caller of the action. `Port` narrows to
the width of a port number as the handlers do.

### MeetingService

`worker[w]` is what the handler of worker `w` remembers and the section it is about to enter. The
actions follow the handlers section by section: `BeginAdd`, `AllocatePort`, `AddFails` or
`AddCrashes` or `AddSucceeds`, `UndoAdd`; `Erase`, `CollectPorts`, `Halt`, `GiveBack`; `BeginDel`,
`FindPart`, `FindAgain`, `RemovePart`, `StopPart`, `ReleasePort`. `AddSucceeds` is one action
because `parts_mutex_` is held throughout. It needs a port nobody listens on (`bind` fails
otherwise) and a free slot of the bridge; `AddFails` may be taken in any case, since `socket`,
`listen` or `connect` can fail. `AddCrashes` is the null dereference in `create_media_port`; the
process and its tables are gone after it. Starting and stopping a participant is one step here;
`Participant` has the detail, `Meeting` the locks under which it happens. `Create` draws an identifier
that was not drawn before.

### ApiServer

The same handlers from the client's side: each section under a lock is one action and records what it
found, and `Answer` gives the code. Two history variables know the facts about a request's subject
(the meeting is in the manager's table; the participant is registered in it) that were true at some
moment since the request arrived, `ever`, and at every moment, `always`; `Remember` keeps them, from
both sides of each step. What the handlers do to ports is left to `MeetingService`, and what
`Meeting` does inside one of its sections to `Meeting`. `HaltKeepsTable`, `FindOnly` and
`ReadUntilGone` are its mutants.

### MsLog

Any thread queues a line under the mutex (`Log`) and notifies after it has let go of it (`Notify`).
The worker waits without a predicate (`Begin`, `Wake`, `SpuriousWake`), takes a line, and without the
mutex looks at the date and opens the day's file (`Open`), writes (`Write`), unlinks the file of
`m_days` times 86400 seconds ago (`Unlink`) and goes on (`Relock`). A date is a local day. Subtracting seconds
is not subtracting dates: `DaysBack` has one date fewer if a day of 25 hours lies in between and the hour is
late, one more if a day of 23 hours does and the hour is early; both `LongDays` and `ShortDays` are
arbitrary sets, and the hour is left open, so `Unlink` chooses. `NextDay` moves the date forward and `SetBack`
sets the clock back to any earlier date, at any time and also between those steps; the history variable
`rewound` has the lines it was set back over, whose file is opened with `"wb"` when the date comes
round again. `Restart` is a process that is killed, or returns from `main`, and runs again;
its lines in memory are lost and its files stay. `Exit` is modelled although nothing calls it.

## 3. Runs

| Run | Result | Distinct states | What it shows |
|---|---|---|---|
| `send_path` | passes | 49 178 | the properties of the sending half and the refinement of `AudioFeed` |
| `participant` | passes | 61 236 | start, stop and destruction in the three modes while others open and close descriptors |
| `participant_closed` | violated | – | `stop()` may leave a connection open until the destructor |
| `participant_reuse` | violated | – | `stop()` may wait for ever for a thread that blocks on a reused number |
| `meeting` | passes | 122 155 | one meeting under both mutexes and its clock, and the refinement of `MeetingRoom` |
| `receive_path` | passes | 5 398 | packets of every form and size become the latest whole frames; the refinement of `PlayoutBuffer`; the codec over its whole domain |
| `port_allocator` | passes | 513 | the pool and its callers agree; the scan passes all others before it gives a port again |
| `meeting_service` | passes | 403 923 | the handlers of three workers in every interleaving |
| `service_lost_port` | violated | – | adding while destroying loses a port |
| `service_crash` | violated | – | adding after destroying ends the process |
| `api_server` | passes | 329 465 | the answers of two workers in every interleaving |
| `ms_log` | passes | 479 158 | two threads and the worker over five dates with a long and a short day, and a restart or a clock set back |

**Properties worth a word.** `StreamOrder` compares any two packets that exist: their sequence
numbers differ by the packets' worth of audio between them, so a packet that was dropped leaves a
gap, across the wrap-around. `MediaClock` derives the timestamp of every packet from the tick of its
first frame, inactive periods included. `OnePortOneParticipant` holds even in the states in which
the pool is wrong: a destroy and a delete of one participant can both release its port, the second
when the pool has already given it to somebody else; what saves the participants is that `bind`
refuses a port with a listener. `PoolExact` says that the pool is right as long as no meeting was
destroyed, on every failing path of an add. `TableAgrees` is an equality: whoever may read the table
finds the registered participants in exactly the occupied slots, connected pairwise in both
directions, and no connection to a slot that was freed, after any sequence of joins and departures
that reuses slots. `MuteHitsNamed` says that the slot number a mute looked up cannot come to belong
to somebody else before the level is set; it is the reason why the shared lock is kept.
`StillDuringTick` covers `stop()`, which removes ports without `conf_mutex_` and relies on having
joined the clock. `Answered` is the absence of deadlock and of endless waiting for any mixture of
handlers, `stop()` and the clock. `CarryOver` says that between packets the leftover is the exact
end of the stream, on both of its paths; `BufferIsLatest` that the buffer holds the latest whole
frames without a gap; `PlayedOut` that no frame waits for a prefetch. `Truthful` judges an answer by
the whole time the request was served: "not found" needs a moment of absence, "added" and "deleted"
a moment on either side. `ListedTrue` does the same for a list that is read meeting by meeting.
`Retained` says which lines stay although the files are named by the day of the month and whatever
days pass without a line: those of the last `m_days` dates, one date fewer while a day of 25 hours
is among them (`Kept`), but for days over which the clock was set back; in both exceptions the code
does remove younger lines. `Rotation` is about two givings of a port; a port that was held until the
scan came round and released only then may be given next. `LateLinesWritten` says which
notifications can be missed without a predicate: only those before the worker first waited.
`ClosedAfterStop`, `StopReturns` with interference, `NoLostPort` and `EveryRequestAnswered` do not
hold of the code; each has a run of its own and a finding.

**Bounds, and why they are enough.**

* `SendPath.cfg`: batches of 2 frames as in the code, a queue of 2 so that it overflows and drops
  twice, sequence numbers modulo 3 and timestamps modulo 8 with frames of 3 samples so that both
  wrap several times and at different places, and 10 ticks, enough for 5 packets: one on the wire,
  one in the sender's hand, two queued and one dropped. `MaxTicks` only bounds the exploration.
* `Participant.cfg`: four descriptor numbers, the most that can be open at once (listener,
  outbound, accepted, one foreign).
* `Meeting.cfg`: two workers, which together with the clock make every pair of concurrent operations;
  three participants and a bridge with two slots beside the master port's, so that it fills up, an add
  fails, and slots are reused while others stay; `SetupMayFail`, so that a meeting without a bridge is
  there too.
* `ReceivePath.cfg`: frames of 3 octets and packets of 0, 1, 2, 3, 5 and 10, so that a packet is
  smaller than a frame, ends with it, crosses it, and brings more frames than the buffer of 2 holds;
  21 octets (`MaxOctets`) are 7 frames, which displaces and plays more than three buffers.
  `Prefetch` is 2, as much as the buffer holds.
* `ApiServer.cfg`: two workers, the request judged and one that interferes with it any number of times;
  two meetings and two participants, so that a list has
  something to read late. Safety only, so permuting identifiers is sound.
* `MsLog.cfg`: two loggers, three lines, five dates in a month of four days of which two are kept, so that a
  day's name comes back; date 1 has 25 hours and date 2 has 23, so that `DaysBack` is one fewer, exact
  and one more in turn. All that the names of the files need of a month is that dates less than a month
  apart have different days. `MaxMishaps` is 1, a restart or a clock set back, at any step; the theorems have
  any number of both. `MaxLogQueue` is 0, so that buffers are freed. `MaxLines`, `MaxDate` and `MaxMishaps`
  only bound the exploration.
* `PortAllocator.cfg`: ports 12 to 15 of 16, so that the range ends exactly where a number would
  wrap; four ports let the scan wrap and skip.
* `MeetingService.cfg`: three workers, since the disagreements need two handlers on one meeting and
  a third that profits from the port; two meetings, two partIds, two ports and one bridge slot, so
  that each of them runs out. Identifiers of workers, meetings and participants are only compared
  for equality, so permuting them is sound; no temporal property is checked under symmetry.

**Fairness.** Only what the scheduler gives: a thread that can take a step takes one eventually,
and a system call on a socket that is shut down returns. Nothing is assumed of peers, of the
clock, of spurious wakeups or of the arrival of audio, and nobody need call `stop()`. A thread
that keeps receiving is not assumed to be starved or served: `StopReturns` holds because
`shutdown` ends the transfer. In `Meeting` a handler and a tick under way go on (WF), and one that
waits for `conf_mutex_` gets it some time (SF on `WaitConf`), since the clock leaves it alone for most
of each 20 ms; no such thing is assumed of `parts_mutex_`, since a `std::shared_mutex` may prefer
readers, and `Answered` therefore speaks of the time when requests cease. A `connect()` is assumed to
end some time, however long it takes. In `ReceivePath` the clock asks for frames (WF), as it does while
somebody else is in the meeting; in `MsLog` the worker runs and a thread that is about to notify does.
`MeetingService` and `ApiServer` are checked for safety only.

**Deadlock** is checked in every run. The states in which everything is over have an explicit
stuttering step: `Finished` in `SendPath`, `Gone` in `Participant` and
`Meeting`, and `Died` in `MeetingService` and `ApiServer` for a process that has ended. `ReceivePath` and
`MsLog` need none: the clock keeps asking, and a thread can always be about to log.

## 4. Proofs

Proved for all values of the constants that satisfy the named assumptions of each module. Every
safety invariant, action property and refinement that a passing run checks is stated by a theorem;
where one needs more than the module's assumptions, it says so in an `ASSUME` that is named below.

**`SendPathProofs`**: `TypeCorrect`, `CleanupIsFinal`, `WakeupsReachTheSender`. The inductive
invariant adds `Ownership` to the three: `stop_flag` is set exactly when `stop()` has begun, there
is no sender before its opener is done, and no sender means `~tx_active`. It is needed because
`CleanupIsFinal` speaks of `stop()` and of the sender, while `Enqueue` looks only at the two flags,
and because a late `StartTxThread` must be seen to find `stop_flag` set.

`StampsFollowTheClock` and `GapsAreNumbered` rest on a second layer, `MInv`. `Media` says of every
packet, whether it is being queued, waits, is in the sender's hand or was written, that it is
`Stamped`: its frames are consecutive ticks and its timestamp that of the first. `Order` says that any
two of them are `Ahead` of each other by whole packets, of audio and of numbers alike. What makes it
inductive is `Filling`: the accumulator need go on from the last packet only while frames may still
become packets. After the sender has cleaned up, or `stop()` has set its flag, a batch may be left
half full or restart anywhere, and nothing follows from it.

`SenderIsAFeed` is `Spec => FeedSpec`, one lemma for each thread: what is under `queue_mutex_`
puts, drops, sends, closes or opens as `AudioFeed` does, and everything else leaves the feed alone.

**`ReceivePathProofs`**: `TypeCorrect`, `PacketsAreUnderstood`, `NothingIsLostBetweenPackets`,
`LatestFramesWait`, for every length of a frame, set of packet sizes and size of the buffer.
`FormsAreRead` is the lemma that `Parse` undoes `Serialize` on each of the five forms of a packet,
for a payload of any length; `JunkIsSkipped` that whatever must be skipped fails one of the
checks; `DecodeIsLinear` that `decodeSample` is the A-law of the standard on all 256 codes and gives 0
for none. The invariant adds `Carry`, which extends `CarryOver` into the loop that cuts frames (what
remains there is the end of the stream and starts where a frame does), and `Paths`, which of the two
paths the rest is on.

`ReceiverIsABuffer` is `Spec => PlayoutSpec` with no further assumption: for every audio, repeated frames and
silence included, and at the code's 160 samples, 50 frames and packets of any size. `CutIsNext`, that the frame
being pushed is the stream's next, is where it rests on the invariant.

**`ParticipantProofs`**: `TypeCorrect`, `ThreadsEndBeforeStopReturns`,
`DescriptorsClosedWithTheObject`, `StopClosesItsOwn`, for any number of descriptors from four up, in
all modes and whether or not others interfere. In the invariant, `Named` says that a member that is set
names a socket of its kind, and `Held` the converse: each socket of the participant is named by its
member or is in the accept thread's hand, between `accept()` and the store. Neither is inductive without
`AcceptOnce`: until that store the member is free, so it overwrites nothing. `Joined` (who was joined
has ended and is not created again) needs that only the accept thread creates the other two once
`start()` is over, and that `stop()` joins it first. `ClosedInTurn` says what is closed at each step
of `stop()`, in its second call for good, because no accept thread is left that could store anything;
from it and `Held` follows that nothing leaks. `LeastExists` and `FourNumbers` show that there is a
lowest free descriptor whenever the code asks for one.

`ThreadsUseTheirSockets` holds with and without interference, with the exception that `OwnTraffic` states.
It adds `Traffic` to the invariant, which number each thread passes to the kernel and which socket it was
resolved to: the thread's own, or nothing after `stop()` has closed it. `Traffic` may fail from there to
the end of `Closing`, when every thread was joined and it is true again for want of threads; what
it needs of the accept thread and the listener lasts through that time (`Sides`).

**`MeetingProofs`**: `TypeCorrect`, `BridgeStandsStill`, `MutesHitNamed`, `TableAndBridgeAgree`,
`TicksAreSafe`, for any number of handlers, participants and slots. The invariant has three layers,
each proved from the one before. `LocksHeld` ties control to the locks: whoever is at a step that
needs a lock holds it in the right mode, and `ClockEnds` says that there is no clock thread and no
tick once `stop()` has joined it; from these two follows that an action which changes the table or
the bridge excludes the others. `BridgeInv` is what holds *while* somebody is inside: `Unentered` (an
add that has no slot yet is of somebody who is not in the table), `InSlot` and `Attached` (who has a
slot has it in the bridge, and who is in the bridge is in the table or in some handler's hand),
`TableFits`, `WiresFit` (no connection leaves the occupied slots) and `AllWired` (what is not connected
yet is in the `todo` of the handler that connects it). `TableAgrees` is not inductive without them,
since it says nothing while the lock is held. `WiresFit` and `AllWired` are what the loop of
`connect_port` calls outside `conf_mutex_` needs.

`MeetingIsARoom` is `Spec => RoomSpec`. Its invariant adds `RoomInv`: an add has only connections of
its own slot to make, an occupied slot that is not registered yet is unmuted, and a `stop()` under way
has quitted the clock. The step proof first shows that everyone hears everyone (`AllHear`) at both
ends of a step from `TableAgrees` and from what is true under the lock, and then that each action
joins, leaves, mutes, closes or empties the room, or stutters.

**`PortAllocatorProofs`**: `TypeCorrect`, and `PoolIsExact` under `RangeFits`, `base + count <=
2^16`, which the program does not check; the run has a range that just fits. `PortsRotate` holds of
every range: `SweptInv` says that since a port was last given the scan has passed all those from
behind it up to `next_`, going round (`Seen`), so when it comes up again all others have been
passed. It speaks of the time between two givings, whenever in it the port was released.

**`MeetingServiceProofs`**: `TypeCorrect`, `PortsAreNotShared`, `ListenersAreOwned`,
`DestroyedStaysEmpty`. The invariant adds `StoppingApart` (a participant that was taken out of the
table and is not stopped yet still listens, on a port no one else has) and `BridgeOfCreated`.
Without the first, `StopPart` could close somebody else's listener. Nothing is assumed of the pool:
these theorems hold whatever it believes, which is what the double release requires. Actions that
enter, stop and close nothing are dealt with together (`QuietStep`, `QuietHandlers`).

`PoolIsExact` is about the pool, as long as no meeting was destroyed, and assumes `RangeFits`: ports
lie above 0 and below 2^16. The lower end matters, because a deletion gives back only ports greater
than 0. `PoolInv` adds that a used port has exactly one owner, a participant or a handler that was
given it or still owes it (`OneOwner`), and that a meeting a handler is destroying was erased from the
manager's table (`Erased`); `OwnersCounted` makes of it the count that `PoolExact` speaks of.

**`ApiServerProofs`**: `TypeCorrect`, `AnswersAreTrue`, `ListsAreTrue`. The invariant adds to the
types `Shapes` (which kind of request can be in which section) and `HistoryInv`: what was true at every
moment is true now, and `Backed`, what each section relies on having been true when the handler got
there; `Backed` only ever gains from further moments (`Lasting`), so a step of one handler cannot
invalidate what another has seen. That is the whole argument why no lock need be held between sections.

**`MsLogProofs`**: `TypeCorrect`, `LinesInOrder`, `RecentLinesStay`, for any month longer than
`m_days + 1`, any days of 25 and 23 hours, any number of threads, lines and restarts. In the
invariant, `Backlog` numbers what waits up to the last line without a gap, so that the lines the
worker has done with are an initial piece of them all; `Gone` puts what a restart lost into that
piece; `Archive` ties each line written to the file of its day, and to a date that is over (`Past`)
unless it was `rewound`, `Today` the open file to the last date the worker asked for; `Sorted` and
`OneFile` are the order in one file and between files. `RecentLinesStay` turns on `SameDay`: two
dates less than a month apart have different days of the month, so neither the file that is
truncated nor the one that is unlinked, `m_days` dates ago or one more or less as `DaysBack` has it,
has a line that `Retained` speaks of.

**Model-checked only.** The liveness properties `StopReturns`, `StopReturnsOrStrays`,
`Answered`, `PlayedOut` and `LateLinesWritten`: the prover does not reason about `ENABLED`, on which
fairness rests. `CodecInverts`, what `encodeSample` computes, is evaluated by TLC over its whole domain
of 65 536 samples, which leaves nothing to prove about it but would take a proof by cases of its
segments. The four runs that expect a violation have nothing to prove.

## 5. Disagreements and limits

**Where code and documents disagree.** Four runs show one each: `participant_closed`,
`participant_reuse`, `service_lost_port` and `service_crash`; `PROJECT.json` quotes the lines. The
models also show these, which need no run:

* `g711.h`: the decoder (line 26) and the encoder (line 32) give the sign bit opposite meanings.
  `CodecInverts` states what results: a sample that is encoded and decoded comes out with its polarity
  inverted.
* `server.cpp:115`: an add answers 2, "partId already exists" (`README.md:126`), whatever it was that
  failed. `ApiServer!AddFails` does so, and `Truthful` therefore says nothing of 2 for `add`.
* `server.cpp:225`: a split add answers 5, documented as a failed connection (`README.md:170`), whenever a
  second lookup misses the name, and 2 when it finds it, whoever entered it in between.
* `server.cpp:285`: a delete ignores what `delete_participant` returns. While a destroy has erased the
  meeting and not stopped it yet, a delete answers 0 and the participant still runs; `Truthful` asks
  only that it or its meeting be gone.
* `participant.h:95`: `rx_started_` starts as true, so that the prefetch the code beside it describes
  never applies.
* `MsLog.cpp:192`: a comment says four days where `m_days` is 3; `Retained` is about `m_days`. After a day of
  25 hours the first line late in the evening removes the file of two days ago, which is younger than
  that; `Kept` says when.
* `MsLog.cpp:179`: a clock that is set back over midnight truncates the file of the day it returns to.
* `port_allocator.cpp:47`: `main` does not check that the range of ports ends below 65536. Past it, `allocate`
  returns a number that the handlers narrow to 16 bits (`server.cpp:108`), and `release` ignores the narrowed
  number, although it is to "release a previously allocated port back to the pool" (`port_allocator.h:14`).
* `main.cpp:85`: the line saying why the server did not start is queued, and `main` returns without `Exit` or
  a join, so it may never be written. `Restart` has that as one of its cases; nothing promises these lines.

**Not modelled.** `PjMediaCtx` and `main` run in one thread before and after everything else.
`MeetingManager::add_passive_participant` is not reached by any route; a passive participant's own
life is in `Participant`. The second `stop()` in `~Meeting` finds nothing left to do. `decodeBuffer`
and `encodeBuffer` of `g711.h` have no caller. Of a request's parameters only whether they are
accepted is kept, of a body its code and, for a list, whom it names. The level filter and the text
of log lines are left out, and so is a collision of two meeting identifiers: they are drawn without
repetition. httplib, nlohmann::json, PJMEDIA and the sockets are external: they appear as the steps
the code in `src/src` sees. Tests and scripts were read, not modelled.

## 6. Plan

1. *Done*: every part of the table in section 1 but `PjMediaCtx` and `main`: modelled, checked, and
   proved as far as section 4 says. That is all safety invariants, action properties and refinements.
2. Composition: `MeetingService` calls `Meeting` as if its sections were atomic, which `MeetingRoom`
   justifies for membership; stating the service over several rooms would say it in one specification.
   In the same way `Participant` could take its traffic from `SendPath` and `ReceivePath`.
3. `CodecInverts` as a lemma: by segments of the code, as `DecodeIsLinear` is for the decoder.
4. The hazards without a property: the identifier that is drawn twice needs a model of the generator's
   seed; the queue of the logger has no bound to state; a participant whose client went away stays
   registered, which is what the code does and no document denies; and what `main` leaves behind on
   return is a process that ends.
