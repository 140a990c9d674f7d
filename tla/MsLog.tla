-------------------------------- MODULE MsLog --------------------------------
(***************************************************************************)
(* The logger (MsLog.cpp, MsLog.h): any thread queues a line under m_mutex *)
(* and notifies after it has let go of it; a detached worker takes lines   *)
(* out one at a time and, without the mutex, writes them to a file per day *)
(* of the month, of which it keeps a few.  The process may be killed and   *)
(* started again at any time; the files stay.                              *)
(*                                                                         *)
(* A line is its number in the order of queuing.  A line above m_level,    *)
(* which Log ignores before it locks, is nothing at all here.  A process   *)
(* that cannot open its file dies writing to it: that is one of the ways   *)
(* to be killed with a line in hand.                                       *)
(*                                                                         *)
(* A date is a local day, and the worker's clock its date: days pass, the  *)
(* clock may be set back, and a few days have 25 hours or 23, over which   *)
(* subtracting m_days times 86400 seconds is a day out.                    *)
(***************************************************************************)
EXTENDS Integers, SequencesExt

CONSTANTS
  Loggers,       \* threads that log
  MaxLogQueue,   \* MAX_LOG_QUEUE, 512: bounds the spare buffers, not the lines
  m_days,        \* 3
  Month,         \* the days of a month: their numbers name the files
  LongDays, ShortDays,           \* dates of 25 hours, and of 23
  MaxLines, MaxDate, MaxMishaps    \* bounds on what is explored

ASSUME MsLogAssumption ==
  /\ MaxLogQueue \in Nat /\ MaxLines \in Nat /\ MaxDate \in Nat /\ MaxMishaps \in Nat
  /\ m_days \in Nat \ {0} /\ Month \in Nat /\ Month > m_days + 1
  /\ LongDays \subseteq Nat /\ ShortDays \subseteq Nat

VARIABLES
  m_logQuePtr,   \* the lines queued
  m_logBufPtr,   \* the number of spare buffers
  m_exit,        \* has Exit() been called?
  m_curDay,      \* the day whose file is open, or NoDay
  tt, change,    \* in OnRun: the time taken, and whether it brought a new day
  worker,        \* where OnRun is
  line,          \* the line the worker has in hand, or NoLine
  logger,        \* logger -> where its call of Log() or Exit() is
  date,          \* days since the first
  files,         \* log/log-<day>.txt: lines with the date they were written
  logged,        \* history: lines queued so far
  early,         \* history: of these, queued before the worker first waited
  lost,          \* history: lines the process was killed with
  mishaps,       \* how often it was killed or the clock set back
  rewound        \* history: lines the clock was set back over since their date

lines  == <<m_logQuePtr, m_logBufPtr>>
disk   == <<date, files, m_curDay, tt, change>>
past   == <<logged, early, lost, mishaps, rewound>>
vars   == <<lines, m_exit, worker, line, logger, disk, past>>

NoLine == 0
NoDay  == -1
Unknown == MaxLines + 1      \* the worker has not waited yet
Days == 0 .. Month - 1

Queued == ToSet(m_logQuePtr)

-----------------------------------------------------------------------------
(* Log and Exit, called by any thread                                      *)

\* GetLogBufPtr takes a spare buffer or a new one; EnqueLogPtr.
Log(t) ==
  /\ logger[t] = "idle" /\ logged < MaxLines
  /\ logged' = logged + 1
  /\ m_logQuePtr' = Append(m_logQuePtr, logged')
  /\ m_logBufPtr' = IF m_logBufPtr > 0 THEN m_logBufPtr - 1 ELSE 0
  /\ logger' = [logger EXCEPT ![t] = "notify"]
  /\ UNCHANGED <<m_exit, worker, line, disk, early, lost, mishaps, rewound>>

\* Mutant: every buffer joins the spare ones.
ReleaseAlways(n) == n + 1

\* RelLogBufPtr
Release(n) == IF n > MaxLogQueue THEN n ELSE n + 1

\* vsnprintf fails: the buffer goes back, or joins the spare ones.
LogFails(t) ==
  /\ logger[t] = "idle"
  /\ m_logBufPtr' = Release(IF m_logBufPtr > 0 THEN m_logBufPtr - 1 ELSE 0)
  /\ UNCHANGED <<m_logQuePtr, m_exit, worker, line, logger, disk, past>>

\* m_condiVar.notify_one(), after unlock: only the worker waits on it.
Notify(t) ==
  /\ logger[t] = "notify" /\ logger' = [logger EXCEPT ![t] = "idle"]
  /\ worker' = IF worker = "waiting" THEN "woken" ELSE worker
  /\ UNCHANGED <<lines, m_exit, line, disk, past>>

Exit(t) ==
  /\ logger[t] = "idle" /\ ~m_exit /\ m_exit' = TRUE
  /\ logger' = [logger EXCEPT ![t] = "notify"]
  /\ UNCHANGED <<lines, worker, line, disk, past>>

-----------------------------------------------------------------------------
(* OnRun                                                                   *)

\* m_condiVar.wait(lk), which has no predicate.
Wait ==
  /\ worker' = "waiting" /\ early' = IF early = Unknown THEN logged ELSE early

\* The worker has the mutex for the first time.
Begin ==
  /\ worker = "start"
  /\ \/ m_exit /\ worker' = "dead" /\ UNCHANGED early
     \/ ~m_exit /\ Wait
  /\ UNCHANGED <<lines, m_exit, line, logger, disk, logged, lost, mishaps, rewound>>

SpuriousWake ==
  /\ worker = "waiting" /\ worker' = "woken"
  /\ UNCHANGED <<lines, m_exit, line, logger, disk, past>>

\* Mutant: the latest line is taken.
TakeLast == line' = Last(m_logQuePtr) /\ m_logQuePtr' = Front(m_logQuePtr)

Take == line' = Head(m_logQuePtr) /\ m_logQuePtr' = Tail(m_logQuePtr)

\* The two loops, with the mutex: take the next line, or wait, or end.
Loop ==
  \/ /\ m_logQuePtr # <<>> /\ ~m_exit
     /\ Take /\ worker' = "open" /\ UNCHANGED early
  \/ /\ m_exit
     /\ line' = NoLine /\ worker' = "dead" /\ UNCHANGED <<early, m_logQuePtr>>
  \/ /\ m_logQuePtr = <<>> /\ ~m_exit
     /\ line' = NoLine /\ Wait /\ UNCHANGED m_logQuePtr

Wake ==
  /\ worker = "woken" /\ Loop
  /\ UNCHANGED <<m_logBufPtr, m_exit, logger, disk, logged, lost, mishaps, rewound>>

DayOf(d) == d % Month

\* This step and the next two go without the mutex.  What is the time?  If the
\* day has changed its file is opened, "ab" if this process had none open before,
\* and "wb" otherwise.
Open ==
  /\ worker = "open" /\ worker' = "print"
  /\ tt' = date /\ m_curDay' = DayOf(date) /\ change' = (m_curDay # m_curDay')
  /\ files' = IF change' /\ m_curDay # NoDay THEN [files EXCEPT ![m_curDay'] = <<>>]
                                             ELSE files
  /\ UNCHANGED <<lines, m_exit, line, logger, date, past>>

\* fprintf and fflush
Write ==
  /\ worker = "print" /\ worker' = IF change THEN "unlink" ELSE "written"
  /\ files' = [files EXCEPT ![m_curDay] = Append(@, <<line, tt>>)]
  /\ UNCHANGED <<lines, m_exit, line, logger, date, m_curDay, tt, change, past>>

\* How many dates back m_days times 86400 seconds are: one fewer late on a day
\* when one of 25 hours is among them, one more early on a day after one of 23.
DaysBack(T) ==
  {m_days} \cup {m_days - 1 : l \in LongDays \cap (T - m_days + 1 .. T)}
           \cup {m_days + 1 : s \in ShortDays \cap (T - m_days .. T - 1)}

\* Mutant: a day fewer is kept.
UnlinkEarly ==
  /\ worker = "unlink" /\ worker' = "written"
  /\ \E b \in DaysBack(tt) : files' = [files EXCEPT ![DayOf(tt + Month - b + 1)] = <<>>]
  /\ UNCHANGED <<lines, m_exit, line, logger, date, m_curDay, tt, change, past>>

\* The file of m_days times 86400 seconds ago goes.
Unlink ==
  /\ worker = "unlink" /\ worker' = "written"
  /\ \E b \in DaysBack(tt) : files' = [files EXCEPT ![DayOf(tt + Month - b)] = <<>>]
  /\ UNCHANGED <<lines, m_exit, line, logger, date, m_curDay, tt, change, past>>

\* Mutant: the worker waits after each line.
RelockWaits ==
  /\ worker = "written" /\ line' = NoLine /\ Wait
  /\ m_logBufPtr' = Release(m_logBufPtr)
  /\ UNCHANGED <<m_logQuePtr, m_exit, logger, disk, logged, lost, mishaps, rewound>>

Relock ==
  /\ worker = "written" /\ Loop
  /\ m_logBufPtr' = Release(m_logBufPtr)
  /\ UNCHANGED <<m_exit, logger, disk, logged, lost, mishaps, rewound>>

-----------------------------------------------------------------------------
(* The clock, and the process                                              *)

\* The lines in the files that are dated d or later.
Since(d) ==
  UNION {{f[i][1] : i \in {i \in DOMAIN f : f[i][2] >= d}} : f \in {files[c] : c \in Days}}

NextDay ==
  /\ date < MaxDate /\ date' = date + 1
  /\ UNCHANGED <<lines, m_exit, worker, line, logger, files, m_curDay, tt, change, past>>

\* The clock is set back, to any earlier date.
SetBack ==
  \E d \in 0 .. date - 1 :
    /\ mishaps < MaxMishaps /\ mishaps' = mishaps + 1
    /\ date' = d
    /\ rewound' = rewound \cup Since(d) \cup (IF worker = "print" /\ tt >= d THEN {line} ELSE {})
    /\ UNCHANGED <<lines, m_exit, worker, line, logger, files, m_curDay, tt, change,
                   logged, early, lost>>

\* The process is killed, or main returns; and is started again.
Restart ==
  /\ mishaps < MaxMishaps /\ mishaps' = mishaps + 1
  /\ lost' = lost \cup Queued \cup (IF worker \in {"open", "print"} THEN {line} ELSE {})
  /\ m_logQuePtr' = <<>> /\ m_logBufPtr' = 0 /\ m_exit' = FALSE
  /\ m_curDay' = NoDay /\ tt' = 0 /\ change' = FALSE
  /\ worker' = "start" /\ line' = NoLine /\ early' = Unknown
  /\ logger' = [t \in Loggers |-> "idle"]
  /\ UNCHANGED <<date, files, logged, rewound>>

Init ==
  /\ m_logQuePtr = <<>> /\ m_logBufPtr = 0 /\ m_exit = FALSE
  /\ m_curDay = NoDay /\ tt = 0 /\ change = FALSE
  /\ worker = "start" /\ line = NoLine
  /\ logger = [t \in Loggers |-> "idle"]
  /\ date = 0 /\ files = [d \in Days |-> <<>>]
  /\ logged = 0 /\ early = Unknown /\ lost = {} /\ mishaps = 0 /\ rewound = {}

Worker == Begin \/ Wake \/ Open \/ Write \/ Unlink \/ Relock

Next ==
  \/ \E t \in Loggers : Log(t) \/ LogFails(t) \/ Notify(t) \/ Exit(t)
  \/ Worker \/ SpuriousWake
  \/ NextDay \/ SetBack \/ Restart

Spec == Init /\ [][Next]_vars

\* Threads that can go on do; nobody need log, nor wake without a reason.
FairSpec == Spec /\ WF_vars(Worker) /\ \A t \in Loggers : WF_vars(Notify(t))

-----------------------------------------------------------------------------
(* Properties                                                              *)

Written(d) == {files[d][i][1] : i \in DOMAIN files[d]}

\* Type invariant; there is at most one spare buffer more than MAX_LOG_QUEUE.
TypeOK ==
  /\ m_logQuePtr \in Seq(1 .. MaxLines) /\ m_logBufPtr \in 0 .. MaxLogQueue + 1
  /\ m_exit \in BOOLEAN /\ m_curDay \in Days \cup {NoDay}
  /\ tt \in 0 .. MaxDate /\ change \in BOOLEAN
  /\ worker \in {"start", "waiting", "woken", "open", "print", "unlink", "written", "dead"}
  /\ line \in 0 .. MaxLines
  /\ worker \in {"open", "print", "unlink", "written"} <=> line # NoLine
  /\ logger \in [Loggers -> {"idle", "notify"}]
  /\ date \in 0 .. MaxDate /\ files \in [Days -> Seq((1 .. MaxLines) \X (0 .. MaxDate))]
  /\ logged \in 0 .. MaxLines /\ early \in 0 .. Unknown
  /\ lost \subseteq 1 .. logged /\ rewound \subseteq 1 .. logged

\* Lines reach one file, once, and in the order in which they were queued,
\* whoever queued them; the ones that wait are the latest, without a gap.
InOrder ==
  LET waiting == IF worker \in {"open", "print"} THEN <<line>> \o m_logQuePtr
                                                 ELSE m_logQuePtr IN
  /\ waiting = [i \in DOMAIN waiting |-> logged - Len(waiting) + i]
  /\ \A d, e \in Days : \A i \in DOMAIN files[d], j \in DOMAIN files[e] :
       files[d][i][1] < files[e][j][1] \/ files[e][j][1] < files[d][i][1] \/ (d = e /\ i = j)
  /\ \A d \in Days : \A i, j \in DOMAIN files[d] : i < j => files[d][i][1] < files[d][j][1]
  /\ \A d \in Days : Written(d) \cap (lost \cup ToSet(waiting)) = {}

\* The days for which lines stay: one fewer while a date of 25 hours is among
\* the last m_days.
Kept(T) ==
  IF LongDays \cap (T - m_days + 1 .. T) = {} THEN m_days ELSE m_days - 1

\* A line that was written stays for Kept days by the worker's clock, whatever
\* days pass without a line, whenever the process is killed and started again,
\* and although the files are named by the day of the month only; unless the
\* clock is set back over its day, which is then opened anew.
Retained ==
  [][\A d \in Days : \A i \in DOMAIN files[d] :
       files[d][i][1] \notin rewound /\ files[d][i][2] > tt' - Kept(tt') =>
         i \in DOMAIN files'[d] /\ files'[d][i] = files[d][i]]_vars

\* A line queued after the worker first waited is taken without the help of
\* another line, unless the logger was told to exit.  Earlier ones may stay
\* until the next one: their notification found nobody waiting.
LateLinesWritten ==
  \A l \in 1 .. MaxLines :
    (l \in Queued /\ l > early) ~> (l \notin Queued \/ m_exit)
=============================================================================
