----------------------------- MODULE MsLogProofs -----------------------------
(***************************************************************************)
(* Machine-checked proofs about MsLog, for any number of threads, lines,   *)
(* days kept, days in a month, days of odd length, and mishaps.            *)
(***************************************************************************)
EXTENDS MsLog, SequenceTheorems, TLAPS

USE MsLogAssumption DEF MsLogAssumption

Holding == worker \in {"open", "print"}
Entry   == (1 .. MaxLines) \X (0 .. MaxDate)

\* The last line that is neither queued nor in the worker's hand.
Taken == logged - Len(m_logQuePtr) - (IF Holding THEN 1 ELSE 0)

\* What waits is numbered up to the last line logged, without a gap.
Backlog ==
  /\ Taken >= 0
  /\ \A i \in DOMAIN m_logQuePtr : m_logQuePtr[i] = logged - Len(m_logQuePtr) + i
  /\ Holding => line = logged - Len(m_logQuePtr)

\* What was lost is over too.
Gone == \A n \in lost : n <= Taken

\* The open file is that of the day OnRun last asked for, which for the line in
\* its hand is not ahead of the clock unless that was set back since.
Today ==
  /\ worker \in {"print", "unlink", "written"} => m_curDay # NoDay
  /\ m_curDay # NoDay => m_curDay = DayOf(tt)
  /\ worker = "print" /\ line \notin rewound => tt <= date

\* A date the clock was not set back over is no later than the clock's, and no
\* later than the one on which this process last asked; earlier than the
\* clock's if that has since been set back before that one.
Past(e) ==
  /\ e <= date
  /\ m_curDay # NoDay => e <= tt /\ (tt > date => e < date)

\* An entry is of a line taken and not lost, in the file of its day.
Dated(d, entry) ==
  /\ entry[1] <= Taken /\ entry[1] \notin lost
  /\ d = DayOf(entry[2])
  /\ entry[1] \notin rewound => Past(entry[2])

Archive == \A d \in Days : \A i \in DOMAIN files[d] : Dated(d, files[d][i])

Sorted ==
  \A d \in Days : \A i, j \in DOMAIN files[d] : i < j => files[d][i][1] < files[d][j][1]

OneFile ==
  \A d, e \in Days : d # e =>
    \A i \in DOMAIN files[d], j \in DOMAIN files[e] : files[d][i][1] # files[e][j][1]

\* The inductive invariant.
IInv == TypeOK /\ Backlog /\ Gone /\ Today /\ Archive /\ Sorted /\ OneFile

-----------------------------------------------------------------------------
(* Days and their numbers                                                  *)

LEMMA DivMod ==
  ASSUME NEW a \in Nat, NEW m \in Nat \ {0}
  PROVE  a = (a \div m) * m + (a % m) /\ a % m \in 0 .. m - 1 /\ a \div m \in Nat
OBVIOUS

LEMMA DayNumber == \A d \in Nat : DayOf(d) \in Days
BY DEF DayOf, Days

\* Of the dates less than a month apart, no two have the same number.
LEMMA SameDay ==
  ASSUME NEW a \in Nat, NEW b \in Nat, a <= b, b - a < Month, DayOf(a) = DayOf(b)
  PROVE  a = b
<1>1. PICK p, q, r : p = a \div Month /\ q = b \div Month /\ r = a % Month OBVIOUS
<1>0. Month \in Nat \ {0} OBVIOUS
<1>2. /\ p \in Nat /\ q \in Nat /\ r \in Nat
      /\ a = p * Month + r /\ b = q * Month + r
  <2>1. /\ a = (a \div Month) * Month + (a % Month)
        /\ a % Month \in 0 .. Month - 1 /\ a \div Month \in Nat
    BY <1>0, DivMod
  <2>2. /\ b = (b \div Month) * Month + (b % Month)
        /\ b \div Month \in Nat
    BY <1>0, DivMod
  <2>3. r = b % Month BY <1>1 DEF DayOf
  <2>4. r \in Nat BY <1>0, <1>1, <2>1
  <2> QED BY <1>1, <2>1, <2>2, <2>3, <2>4
<1>3. PICK k \in Int : k = q - p BY <1>2
<1>4. b - a = k * Month
  <2>1. PICK x, y, z : x = p * Month /\ y = q * Month /\ z = k * Month OBVIOUS
  <2>2. x \in Nat /\ y \in Nat /\ z \in Int /\ z = y - x BY <1>2, <1>3, <2>1
  <2> QED BY <1>2, <2>1, <2>2
<1>5. k < 1
  <2> SUFFICES ASSUME k >= 1 PROVE FALSE BY <1>3
  <2>1. PICK j \in Nat : k = j + 1 BY <1>3
  <2>2. PICK z : z = j * Month OBVIOUS
  <2>3. z \in Nat /\ k * Month = z + Month BY <2>1, <2>2
  <2> QED BY <1>4, <2>3
<1>6. k >= 0
  <2> SUFFICES ASSUME k < 0 PROVE FALSE BY <1>3
  <2>1. PICK j \in Nat : -k = j + 1 BY <1>3
  <2>2. PICK z : z = j * Month OBVIOUS
  <2>3. z \in Nat /\ k * Month = - z - Month BY <1>3, <2>1, <2>2
  <2> QED BY <1>4, <2>3
<1>7. k = 0 BY <1>3, <1>5, <1>6
<1> QED BY <1>4, <1>7

-----------------------------------------------------------------------------
(* The inductive invariant: the lines that wait                            *)

LEMMA InitIInv == Init => IInv
<1> SUFFICES ASSUME Init PROVE IInv OBVIOUS
<1>1. <<>> \in Seq(1 .. MaxLines) /\ <<>> \in Seq(Entry) /\ Len(<<>>) = 0 /\ DOMAIN <<>> = {}
  OBVIOUS
<1>2. TypeOK
  <2>1. m_logQuePtr \in Seq(1 .. MaxLines) /\ files \in [Days -> Seq((1 .. MaxLines) \X (0 .. MaxDate))]
    BY <1>1 DEF Init, Entry
  <2>2. logger \in [Loggers -> {"idle", "notify"}] BY DEF Init
  <2>3. /\ worker \in {"start", "waiting", "woken", "open", "print", "unlink", "written", "dead"}
        /\ worker \in {"open", "print", "unlink", "written"} <=> line # NoLine
    BY DEF Init
  <2>4. lost \subseteq 1 .. logged /\ rewound \subseteq 1 .. logged /\ m_exit \in BOOLEAN /\ change \in BOOLEAN
        /\ m_curDay \in Days \cup {NoDay}
    BY DEF Init
  <2>5. /\ m_logBufPtr \in 0 .. MaxLogQueue + 1 /\ tt \in 0 .. MaxDate /\ line \in 0 .. MaxLines
        /\ date \in 0 .. MaxDate /\ logged \in 0 .. MaxLines /\ early \in 0 .. Unknown
    BY DEF Init, Unknown, NoLine
  <2> QED BY <2>1, <2>2, <2>3, <2>4, <2>5 DEF TypeOK
<1>3. ~Holding /\ Taken = 0
  <2>1. ~Holding BY DEF Init, Holding
  <2>2. m_logQuePtr = <<>> /\ logged = 0 BY DEF Init
  <2>3. Taken = 0 - 0 - 0 BY <1>1, <2>1, <2>2 DEF Taken
  <2> QED BY <2>1, <2>3
<1>4. Backlog BY <1>1, <1>3 DEF Init, Backlog
<1>5. Gone /\ Today BY DEF Init, Gone, Today
<1>6. \A d \in Days : DOMAIN files[d] = {} BY <1>1 DEF Init
<1>7. Archive /\ Sorted /\ OneFile BY <1>6 DEF Archive, Sorted, OneFile
<1> QED BY <1>2, <1>4, <1>5, <1>7 DEF IInv

\* The facts of the type invariant in the form the steps use them.
LEMMA QueueType ==
  ASSUME IInv
  PROVE  /\ Len(m_logQuePtr) \in Nat /\ DOMAIN m_logQuePtr = 1 .. Len(m_logQuePtr)
         /\ m_logQuePtr \in Seq(1 .. MaxLines) /\ logged \in 0 .. MaxLines /\ Taken \in 0 .. logged
         /\ Holding => line \in 1 .. logged /\ line = Taken + 1
<1>1. m_logQuePtr \in Seq(1 .. MaxLines) /\ logged \in 0 .. MaxLines BY DEF IInv, TypeOK
<1>2. Len(m_logQuePtr) \in Nat /\ DOMAIN m_logQuePtr = 1 .. Len(m_logQuePtr)
  BY <1>1, LenProperties
<1>3. Taken \in 0 .. logged BY <1>1, <1>2 DEF IInv, Backlog, Taken
<1>4. Holding => line \in 1 .. logged /\ line = Taken + 1
  BY <1>1, <1>2, <1>3 DEF IInv, Backlog, Taken
<1> QED BY <1>1, <1>2, <1>3, <1>4

\* Steps that neither log, take nor write.
LEMMA BacklogStays ==
  ASSUME IInv, UNCHANGED <<m_logQuePtr, logged, line>>, Holding' = Holding
  PROVE  Backlog' /\ Taken' = Taken
BY DEF IInv, Backlog, Taken

\* Log queues the next number.
LEMMA BacklogGrows ==
  ASSUME IInv, NEW t \in Loggers, Log(t)
  PROVE  Backlog' /\ Taken' = Taken /\ m_logQuePtr' \in Seq(1 .. MaxLines)
<1>1. PICK q, n : q = m_logQuePtr /\ n = Len(q) OBVIOUS
<1>2. q \in Seq(1 .. MaxLines) /\ n \in Nat /\ DOMAIN q = 1 .. n /\ logged \in 0 .. MaxLines
  BY <1>1, QueueType
<1>3. logged + 1 \in 1 .. MaxLines BY <1>2 DEF Log
<1>4. PICK r : r = Append(q, logged + 1) OBVIOUS
<1>5. /\ m_logQuePtr' = r /\ logged' = logged + 1
      /\ UNCHANGED <<worker, line>>
  BY <1>1, <1>4 DEF Log
<1>6. /\ r \in Seq(1 .. MaxLines) /\ Len(r) = n + 1
      /\ \A i \in 1 .. n : r[i] = q[i]
      /\ r[n + 1] = logged + 1
  BY <1>1, <1>2, <1>3, <1>4, AppendProperties
<1>7. Holding' = Holding BY <1>5 DEF Holding
<1>8. Taken' = Taken BY <1>1, <1>2, <1>5, <1>6, <1>7 DEF Taken
<1>9. \A i \in 1 .. n + 1 : r[i] = (logged + 1) - (n + 1) + i
  <2>1. \A i \in 1 .. n : q[i] = logged - n + i BY <1>1, <1>2 DEF IInv, Backlog
  <2> QED BY <1>2, <1>6, <2>1
<1>10. DOMAIN r = 1 .. n + 1 BY <1>6, LenProperties
<1>11. Holding => line = (logged + 1) - (n + 1) BY <1>1, <1>2 DEF IInv, Backlog
<1>12. Taken' >= 0 BY <1>8 DEF IInv, Backlog
<1> QED BY <1>5, <1>6, <1>7, <1>8, <1>9, <1>10, <1>11, <1>12 DEF Backlog

\* OnRun takes the first line: with no line in its hand, nothing is over by it.
LEMMA BacklogShrinks ==
  ASSUME IInv, ~Holding, Take, worker' = "open", m_logQuePtr # <<>>, UNCHANGED logged
  PROVE  Backlog' /\ Taken' = Taken /\ m_logQuePtr' \in Seq(1 .. MaxLines) /\ line' \in 1 .. MaxLines
<1>1. PICK q, n : q = m_logQuePtr /\ n = Len(q) OBVIOUS
<1>2. q \in Seq(1 .. MaxLines) /\ n \in Nat /\ DOMAIN q = 1 .. n /\ logged \in 0 .. MaxLines
  BY <1>1, QueueType
<1>3. PICK r, h : r = Tail(q) /\ h = Head(q) OBVIOUS
<1>4. /\ r \in Seq(1 .. MaxLines) /\ h \in 1 .. MaxLines /\ Len(r) = n - 1 /\ n > 0
      /\ \A i \in 1 .. n - 1 : r[i] = q[i + 1]
  BY <1>1, <1>2, <1>3, HeadTailProperties, EmptySeq
<1>5. h = q[1] BY <1>1, <1>2, <1>3, <1>4
<1>6. m_logQuePtr' = r /\ line' = h BY <1>1, <1>3 DEF Take
<1>7. \A i \in 1 .. n : q[i] = logged - n + i BY <1>1, <1>2 DEF IInv, Backlog
<1>8. Holding' BY DEF Holding
<1>9. Taken' = Taken
  <2>1. Taken = logged - n - 0 BY <1>1 DEF Taken
  <2>2. Taken' = logged - (n - 1) - 1 BY <1>4, <1>6, <1>8 DEF Taken
  <2> QED BY <1>2, <2>1, <2>2
<1>10. h = logged - (n - 1)
  <2>1. 1 \in 1 .. n BY <1>2, <1>4
  <2> QED BY <1>2, <1>5, <1>7, <2>1
<1>11. \A i \in 1 .. n - 1 : r[i] = logged - (n - 1) + i
  <2> TAKE i \in 1 .. n - 1
  <2>1. i + 1 \in 1 .. n BY <1>2
  <2>3. r[i] = q[i + 1] BY <1>4
  <2>2. q[i + 1] = logged - n + (i + 1) BY <1>7, <2>1
  <2> QED BY <1>2, <2>2, <2>3
<1>12. DOMAIN r = 1 .. n - 1 BY <1>4, LenProperties
<1>13. Taken' >= 0 BY <1>9 DEF IInv, Backlog
<1> QED BY <1>4, <1>6, <1>8, <1>9, <1>10, <1>11, <1>12, <1>13 DEF Backlog

\* The worker without a line, before and after: the queue is all that waits.
LEMMA BacklogIdle ==
  ASSUME IInv, ~Holding, ~Holding', UNCHANGED <<m_logQuePtr, logged>>
  PROVE  Backlog' /\ Taken' = Taken
BY DEF IInv, Backlog, Taken

\* The line in hand is over once it is written.
LEMMA BacklogWritten ==
  ASSUME IInv, Write
  PROVE  Backlog' /\ Taken' = line /\ Taken = line - 1
<1>1. Holding /\ ~Holding' /\ UNCHANGED <<m_logQuePtr, logged>>
  BY DEF Write, Holding, lines, past
<1>2. Taken = logged - Len(m_logQuePtr) - 1 /\ Taken' = logged - Len(m_logQuePtr) - 0
  BY <1>1 DEF Taken
<1>3. line = logged - Len(m_logQuePtr) BY <1>1 DEF IInv, Backlog
<1>4. Taken' >= 0 /\ Taken' = line /\ Taken = line - 1 BY <1>2, <1>3, QueueType
<1> QED BY <1>1, <1>4 DEF IInv, Backlog

\* Killed with lines that waited: all of them are over, and lost.
LEMMA BacklogLost ==
  ASSUME IInv, Restart
  PROVE  /\ Backlog' /\ Taken' = logged
         /\ lost' \subseteq 1 .. logged
         /\ \A n \in lost' : n \in lost \/ (n > Taken /\ n <= logged)
<1>1. m_logQuePtr' = <<>> /\ logged' = logged /\ ~Holding'
  BY DEF Restart, Holding
<1>2. Len(m_logQuePtr') = 0 /\ DOMAIN m_logQuePtr' = {} BY <1>1
<1>3. logged \in Nat BY QueueType
<1>4. Taken' = logged - 0 - 0 BY <1>1, <1>2 DEF Taken
<1>5. Backlog' BY <1>1, <1>2, <1>3, <1>4 DEF Backlog
<1>6. ASSUME NEW n \in Queued PROVE n > Taken /\ n \in 1 .. logged
  <2>1. PICK i \in DOMAIN m_logQuePtr : n = m_logQuePtr[i] BY <1>6 DEF Queued, ToSet
  <2>2. n = logged - Len(m_logQuePtr) + i BY <2>1 DEF IInv, Backlog
  <2>3. Taken <= logged - Len(m_logQuePtr) /\ logged - Len(m_logQuePtr) >= 0
    BY QueueType DEF Taken
  <2> QED BY <1>3, <2>1, <2>2, <2>3, QueueType
<1>7. Holding => line > Taken /\ line \in 1 .. logged BY QueueType
<1>8. lost' = lost \cup Queued \cup (IF Holding THEN {line} ELSE {})
  BY DEF Restart, Holding
<1>9. lost \subseteq 1 .. logged BY DEF IInv, TypeOK
<1>10. ASSUME NEW n \in lost'
       PROVE  n \in 1 .. logged /\ (n \in lost \/ (n > Taken /\ n <= logged))
  <2>1. CASE n \in lost BY <1>9, <2>1
  <2>2. CASE n \in Queued BY <1>3, <1>6, <2>2
  <2>3. CASE Holding /\ n = line BY <1>3, <1>7, <2>3
  <2> QED BY <1>8, <2>1, <2>2, <2>3
<1>11. Taken' = logged BY <1>3, <1>4
<1> QED BY <1>5, <1>10, <1>11

\* What every step does to the lines that wait and to those that are over.
LEMMA StepBacklog ==
  ASSUME IInv, [Next]_vars
  PROVE  /\ Backlog' /\ Taken' >= Taken
         /\ m_logQuePtr' \in Seq(1 .. MaxLines) /\ line' \in 0 .. MaxLines
         /\ logged' \in 0 .. MaxLines /\ lost' \subseteq 1 .. logged'
         /\ \A n \in lost' : n \in lost \/ (n > Taken /\ n <= Taken')
<1>0. /\ m_logQuePtr \in Seq(1 .. MaxLines) /\ logged \in 0 .. MaxLines
      /\ line \in 0 .. MaxLines /\ lost \subseteq 1 .. logged /\ Taken \in 0 .. logged
      /\ MaxLines \in Nat
  BY QueueType DEF IInv, TypeOK
<1> USE DEF lines, past, disk
<1>1. ASSUME Backlog', Taken' = Taken, UNCHANGED <<logged, lost>>,
             m_logQuePtr' \in Seq(1 .. MaxLines), line' \in 0 .. MaxLines
      PROVE  /\ Backlog' /\ Taken' >= Taken
             /\ m_logQuePtr' \in Seq(1 .. MaxLines) /\ line' \in 0 .. MaxLines
             /\ logged' \in 0 .. MaxLines /\ lost' \subseteq 1 .. logged'
             /\ \A n \in lost' : n \in lost \/ (n > Taken /\ n <= Taken')
  BY <1>0, <1>1
<1>2. ASSUME NEW t \in Loggers, Log(t) PROVE Backlog' /\ Taken' = Taken
  BY <1>2, BacklogGrows
<1>3. CASE \E t \in Loggers : Log(t)
  <2>1. PICK t \in Loggers : Log(t) BY <1>3
  <2>2. /\ logged' = logged + 1 /\ logged < MaxLines /\ UNCHANGED <<line, lost>>
    BY <2>1 DEF Log
  <2>3. Backlog' /\ Taken' = Taken /\ m_logQuePtr' \in Seq(1 .. MaxLines) BY <2>1, BacklogGrows
  <2> QED BY <1>0, <2>2, <2>3
<1>4. CASE \E t \in Loggers : LogFails(t) \/ Notify(t) \/ Exit(t)
  <2>1. UNCHANGED <<m_logQuePtr, logged, lost, line>> /\ Holding' = Holding
    BY <1>4 DEF LogFails, Notify, Exit, Holding
  <2> QED BY <1>0, <1>1, <2>1, BacklogStays
<1>5. CASE Begin \/ SpuriousWake \/ NextDay \/ SetBack \/ Open \/ UNCHANGED vars
  <2>1. UNCHANGED <<m_logQuePtr, logged, lost, line>> /\ Holding' = Holding
    BY <1>5 DEF Begin, Wait, SpuriousWake, NextDay, SetBack, Open, Holding, vars
  <2> QED BY <1>0, <1>1, <2>1, BacklogStays
<1>6. CASE Wake \/ Relock
  <2>1. Loop /\ ~Holding /\ UNCHANGED <<logged, lost>> BY <1>6 DEF Wake, Relock, Holding
  <2>2. CASE m_logQuePtr # <<>> /\ Take /\ worker' = "open"
    <3>1. /\ Backlog' /\ Taken' = Taken /\ m_logQuePtr' \in Seq(1 .. MaxLines)
          /\ line' \in 1 .. MaxLines
      BY <2>1, <2>2, BacklogShrinks
    <3> QED BY <1>1, <2>1, <3>1
  <2>3. CASE line' = NoLine /\ worker' \in {"waiting", "dead"} /\ UNCHANGED m_logQuePtr
    <3>1. ~Holding' BY <2>3 DEF Holding
    <3>2. line' \in 0 .. MaxLines BY <1>0, <2>3 DEF NoLine
    <3> QED BY <1>0, <1>1, <2>1, <2>3, <3>1, <3>2, BacklogIdle
  <2> QED BY <2>1, <2>2, <2>3 DEF Loop, Wait
<1>7. CASE Unlink
  <2>1. UNCHANGED <<m_logQuePtr, logged, lost, line>> /\ ~Holding /\ ~Holding'
    BY <1>7 DEF Unlink, Holding
  <2> QED BY <1>0, <1>1, <2>1, BacklogIdle
<1>8. CASE Write
  <2>1. UNCHANGED <<m_logQuePtr, logged, lost, line>> BY <1>8 DEF Write
  <2>2. Backlog' /\ Taken' = line /\ Taken = line - 1 BY <1>8, BacklogWritten
  <2> QED BY <1>0, <2>1, <2>2
<1>9. CASE Restart
  <2>1. m_logQuePtr' = <<>> /\ logged' = logged /\ line' = 0 BY <1>9 DEF Restart, NoLine
  <2>2. m_logQuePtr' \in Seq(1 .. MaxLines) BY <2>1
  <2> QED BY <1>0, <1>9, <2>1, <2>2, BacklogLost
<1> QED BY <1>3, <1>4, <1>5, <1>6, <1>7, <1>8, <1>9 DEF Next, Worker

-----------------------------------------------------------------------------
(* The inductive invariant: the files                                      *)

\* The number and the date of an entry.
LEMMA EntryType ==
  ASSUME IInv, NEW d \in Days, NEW i \in DOMAIN files[d]
  PROVE  files[d][i][1] \in 1 .. MaxLines /\ files[d][i][2] \in Nat
<1>1. files[d] \in Seq((1 .. MaxLines) \X (0 .. MaxDate)) BY DEF IInv, TypeOK
<1>2. files[d][i] \in (1 .. MaxLines) \X (0 .. MaxDate) BY <1>1, LenProperties, ElementOfSeq
<1> QED BY <1>2

\* The lines the clock is set back over: those dated then or later.
LEMMA RewoundLines ==
  ASSUME IInv, SetBack
  PROVE  /\ date' \in 0 .. MaxDate /\ date' < date
         /\ rewound \subseteq rewound' /\ rewound' \subseteq 1 .. logged
         /\ \A d \in Days : \A i \in DOMAIN files[d] :
              files[d][i][1] \notin rewound' => files[d][i][2] < date'
         /\ worker = "print" /\ line \notin rewound' => tt < date'
<1>1. PICK c \in 0 .. date - 1 :
        /\ date' = c
        /\ rewound' = rewound \cup Since(c)
                        \cup (IF worker = "print" /\ tt >= c THEN {line} ELSE {})
  BY DEF SetBack
<1>2. /\ date \in 0 .. MaxDate /\ MaxDate \in Nat /\ tt \in Nat /\ rewound \subseteq 1 .. logged
      /\ logged \in 0 .. MaxLines
  BY DEF IInv, TypeOK
<1>3. ASSUME NEW d \in Days, NEW i \in DOMAIN files[d], ~(files[d][i][2] < c)
      PROVE  files[d][i][1] \in Since(c)
  <2>1. files[d][i][2] >= c BY <1>1, <1>2, <1>3, EntryType
  <2> QED BY <2>1 DEF Since
<1>4. Since(c) \subseteq 1 .. logged
  <2> SUFFICES ASSUME NEW n \in Since(c) PROVE n \in 1 .. logged OBVIOUS
  <2>1. PICK d \in Days : \E i \in DOMAIN files[d] : n = files[d][i][1] BY DEF Since
  <2>2. PICK i \in DOMAIN files[d] : n = files[d][i][1] BY <2>1
  <2>3. n \in 1 .. MaxLines BY <2>2, EntryType
  <2>4. n <= Taken BY <2>2 DEF IInv, Archive, Dated
  <2> QED BY <1>2, <2>3, <2>4, QueueType
<1>5. worker = "print" => line \in 1 .. logged BY QueueType DEF Holding
<1>6. rewound' \subseteq 1 .. logged BY <1>1, <1>2, <1>4, <1>5
<1>7. worker = "print" /\ line \notin rewound' => tt < c BY <1>1, <1>2
<1> QED BY <1>1, <1>2, <1>3, <1>6, <1>7

\* Files stay or go as a whole, while numbers only rise and the dates of lines
\* that the clock is not set back over stay past.
LEMMA FilesStay ==
  ASSUME IInv, Taken \in Int, Taken' \in Int, Taken' >= Taken,
         \A n \in lost' : n \in lost \/ n > Taken,
         \A d \in Days : \A i \in DOMAIN files[d] :
           files[d][i][1] \notin rewound' =>
             /\ files[d][i][2] <= date'
             /\ m_curDay' # NoDay =>
                  files[d][i][2] <= tt' /\ (tt' > date' => files[d][i][2] < date'),
         \A d \in Days : files'[d] = files[d] \/ files'[d] = <<>>
  PROVE  Archive' /\ Sorted' /\ OneFile'
<1>1. ASSUME NEW d \in Days, NEW i \in DOMAIN files'[d]
      PROVE  /\ files'[d] = files[d] /\ i \in DOMAIN files[d]
             /\ files[d][i][1] \in Nat /\ files[d][i][2] \in Nat
  <2>1. DOMAIN <<>> = {} OBVIOUS
  <2>2. files'[d] = files[d] /\ i \in DOMAIN files[d] BY <1>1, <2>1
  <2>3. files[d] \in Seq((1 .. MaxLines) \X (0 .. MaxDate)) BY DEF IInv, TypeOK
  <2>4. files[d][i] \in (1 .. MaxLines) \X (0 .. MaxDate)
    BY <2>2, <2>3, LenProperties, ElementOfSeq
  <2> QED BY <2>2, <2>4
<1>2. ASSUME NEW d \in Days, NEW i \in DOMAIN files'[d] PROVE Dated(d, files[d][i])'
  <2>1. PICK entry : entry = files[d][i] OBVIOUS
  <2>2. files'[d][i] = entry /\ entry[1] \in Nat /\ entry[2] \in Nat BY <1>1, <1>2, <2>1
  <2>3. entry[1] <= Taken /\ entry[1] \notin lost /\ d = DayOf(entry[2])
    BY <1>1, <1>2, <2>1 DEF IInv, Archive, Dated
  <2>4. entry[1] <= Taken' /\ entry[1] \notin lost' BY <2>2, <2>3
  <2>5. entry[1] \notin rewound' => Past(entry[2])' BY <1>1, <1>2, <2>1 DEF Past
  <2> QED BY <2>2, <2>3, <2>4, <2>5 DEF Dated, DayOf
<1>3. Archive' BY <1>2 DEF Archive
<1>4. Sorted' BY <1>1 DEF IInv, Sorted
<1>5. OneFile' BY <1>1 DEF IInv, OneFile
<1> QED BY <1>3, <1>4, <1>5

\* Write adds the line in hand, later than all others, to the file of its day.
LEMMA FilesGrow ==
  ASSUME IInv, Write
  PROVE  /\ Archive' /\ Sorted' /\ OneFile'
         /\ files' \in [Days -> Seq((1 .. MaxLines) \X (0 .. MaxDate))]
<1> DEFINE E == (1 .. MaxLines) \X (0 .. MaxDate)
<1>0. /\ worker = "print" /\ m_curDay \in Days /\ m_curDay = DayOf(tt) /\ m_curDay # NoDay
      /\ files \in [Days -> Seq(E)] /\ tt \in 0 .. MaxDate /\ date \in 0 .. MaxDate
      /\ line \notin rewound => tt <= date
      /\ MaxDate \in Nat /\ MaxLines \in Nat /\ line \in 1 .. MaxLines
      /\ UNCHANGED <<lost, rewound, date, m_curDay, tt>>
  <2>1. worker = "print" /\ UNCHANGED <<lost, rewound, date, m_curDay, tt>> BY DEF Write, past
  <2>2. /\ m_curDay \in Days /\ m_curDay = DayOf(tt) /\ m_curDay # NoDay
        /\ line \notin rewound => tt <= date
    BY <2>1 DEF IInv, TypeOK, Today
  <2>3. files \in [Days -> Seq(E)] /\ tt \in 0 .. MaxDate /\ date \in 0 .. MaxDate
    BY DEF IInv, TypeOK
  <2>4. line # NoLine BY <2>1 DEF IInv, TypeOK
  <2>5. line \in 0 .. MaxLines BY DEF IInv, TypeOK
  <2> QED BY <2>1, <2>2, <2>3, <2>4, <2>5 DEF NoLine
<1>1. Taken' = line /\ Taken = line - 1 BY BacklogWritten
<1>2. PICK new, c, f, g : new = <<line, tt>> /\ c = m_curDay /\ f = files[c] /\ g = Append(f, new)
  OBVIOUS
<1>3. new \in E /\ new[1] = line /\ new[2] = tt /\ c \in Days BY <1>0, <1>2
<1>4. f \in Seq(E) BY <1>0, <1>2
<1>5. PICK n : n = Len(f) OBVIOUS
<1>6. /\ n \in Nat /\ DOMAIN f = 1 .. n /\ g \in Seq(E) /\ Len(g) = n + 1
      /\ \A i \in 1 .. n : g[i] = f[i]
      /\ g[n + 1] = new
  BY <1>2, <1>3, <1>4, <1>5, AppendProperties, LenProperties
<1>7. DOMAIN g = 1 .. n + 1 BY <1>6, LenProperties
<1>8. files' = [files EXCEPT ![c] = g] BY <1>2 DEF Write
<1>9. files'[c] = g /\ \A d \in Days \ {c} : files'[d] = files[d] BY <1>0, <1>3, <1>8
<1>10. files' \in [Days -> Seq(E)] BY <1>0, <1>3, <1>6, <1>8
\* The entries after the step: the old ones, and the new one at the end.
<1>11. ASSUME NEW d \in Days, NEW i \in DOMAIN files'[d]
       PROVE  \/ i \in DOMAIN files[d] /\ files'[d][i] = files[d][i]
              \/ d = c /\ i = n + 1 /\ files'[d][i] = new
  <2>1. CASE d # c BY <1>9, <1>11, <2>1
  <2>2. CASE d = c
    <3>1. files'[d] = g /\ i \in 1 .. n + 1 BY <1>7, <1>9, <1>11, <2>2
    <3>2. CASE i = n + 1 BY <1>6, <2>2, <3>1, <3>2
    <3>3. CASE i # n + 1
      <4>1. i \in 1 .. n BY <1>6, <3>1, <3>3
      <4>2. files'[d][i] = f[i] /\ i \in DOMAIN f BY <1>6, <3>1, <4>1
      <4> QED BY <1>2, <2>2, <4>2
    <3> QED BY <3>2, <3>3
  <2> QED BY <2>1, <2>2
<1>12. ASSUME NEW d \in Days, NEW i \in DOMAIN files[d]
       PROVE  /\ files[d][i][1] \in Nat /\ files[d][i][1] < line
              /\ Dated(d, files[d][i])
              /\ d = c => i <= n
  <2>1. files[d] \in Seq(E) BY <1>0
  <2>2. files[d][i] \in E BY <2>1, LenProperties, ElementOfSeq
  <2>3. Dated(d, files[d][i]) BY DEF IInv, Archive
  <2>4. files[d][i][1] \in Nat /\ files[d][i][1] <= line - 1 BY <1>1, <2>2, <2>3 DEF Dated
  <2>5. d = c => i <= n BY <1>2, <1>6
  <2> QED BY <1>0, <2>3, <2>4, <2>5
<1>13. Archive'
  <2>1. ASSUME NEW d \in Days, NEW i \in DOMAIN files'[d] PROVE Dated(d, files[d][i])'
    <3>1. CASE i \in DOMAIN files[d] /\ files'[d][i] = files[d][i]
      <4>1. PICK entry : entry = files[d][i] OBVIOUS
      <4>2. /\ entry[1] \in Nat /\ entry[1] < line /\ entry[1] \notin lost
            /\ d = DayOf(entry[2])
            /\ entry[1] \notin rewound => Past(entry[2])
        BY <1>12, <3>1, <4>1 DEF Dated
      <4>3. entry[1] <= Taken' BY <1>0, <1>1, <4>2
      <4>4. entry[1] \notin rewound' => Past(entry[2])' BY <1>0, <4>2 DEF Past
      <4> QED BY <1>0, <3>1, <4>1, <4>2, <4>3, <4>4 DEF Dated, DayOf
    <3>2. CASE d = c /\ i = n + 1 /\ files'[d][i] = new
      <4>1. line <= Taken' BY <1>0, <1>1
      <4>2. line \notin lost'
        <5>1. line \in lost => line <= Taken BY DEF IInv, Gone
        <5> QED BY <1>0, <1>1, <5>1
      <4>3. d = DayOf(tt) /\ tt <= tt BY <1>0, <1>2, <3>2
      <4>4. line \notin rewound' => Past(tt)' BY <1>0 DEF Past
      <4> QED BY <1>0, <1>3, <3>2, <4>1, <4>2, <4>3, <4>4 DEF Dated, DayOf
    <3> QED BY <1>11, <2>1, <3>1, <3>2
  <2> QED BY <2>1 DEF Archive
<1>14. Sorted'
  <2>1. ASSUME NEW d \in Days, NEW i \in DOMAIN files'[d], NEW j \in DOMAIN files'[d], i < j
        PROVE  files'[d][i][1] < files'[d][j][1]
    <3>1. i \in DOMAIN files[d] /\ files'[d][i] = files[d][i]
      <4>1. CASE d = c
        <5>1. i \in 1 .. n + 1 /\ j \in 1 .. n + 1 BY <1>7, <1>9, <2>1, <4>1
        <5>2. i \in 1 .. n BY <1>6, <2>1, <5>1
        <5> QED BY <1>2, <1>6, <1>9, <4>1, <5>2
      <4>2. CASE d # c BY <1>9, <2>1, <4>2
      <4> QED BY <4>1, <4>2
    <3>2. CASE j \in DOMAIN files[d] /\ files'[d][j] = files[d][j]
      BY <2>1, <3>1, <3>2 DEF IInv, Sorted
    <3>3. CASE files'[d][j] = new BY <1>3, <1>12, <3>1, <3>3
    <3> QED BY <1>11, <2>1, <3>2, <3>3
  <2> QED BY <2>1 DEF Sorted
<1>15. OneFile'
  <2>1. ASSUME NEW d \in Days, NEW e \in Days, d # e,
               NEW i \in DOMAIN files'[d], NEW j \in DOMAIN files'[e]
        PROVE  files'[d][i][1] # files'[e][j][1]
    <3>1. CASE /\ i \in DOMAIN files[d] /\ files'[d][i] = files[d][i]
               /\ j \in DOMAIN files[e] /\ files'[e][j] = files[e][j]
      BY <2>1, <3>1 DEF IInv, OneFile
    <3>2. CASE i \in DOMAIN files[d] /\ files'[d][i] = files[d][i] /\ files'[e][j] = new
      BY <1>3, <1>12, <3>2
    <3>3. CASE files'[d][i] = new /\ j \in DOMAIN files[e] /\ files'[e][j] = files[e][j]
      BY <1>3, <1>12, <3>3
    <3> QED BY <1>11, <2>1, <3>1, <3>2, <3>3
  <2> QED BY <2>1 DEF OneFile
<1> QED BY <1>10, <1>13, <1>14, <1>15

\* What every step does to the clock, the worker and the names of the files.
LEMMA StepDays ==
  ASSUME IInv, [Next]_vars
  PROVE  /\ Today' /\ m_curDay' \in Days \cup {NoDay} /\ tt' \in 0 .. MaxDate
         /\ change' \in BOOLEAN /\ date' \in 0 .. MaxDate
         /\ rewound' \subseteq 1 .. logged'
         /\ \/ SetBack
            \/ /\ rewound' = rewound
               /\ \/ UNCHANGED <<m_curDay, tt>> /\ date' >= date
                  \/ tt' = date /\ date' = date
                  \/ m_curDay' = NoDay /\ date' = date
<1>0. /\ m_curDay \in Days \cup {NoDay} /\ tt \in 0 .. MaxDate /\ change \in BOOLEAN
      /\ date \in 0 .. MaxDate /\ MaxDate \in Nat /\ Today
      /\ rewound \subseteq 1 .. logged /\ logged \in 0 .. MaxLines
  BY DEF IInv, TypeOK
<1> USE DEF lines, past, disk
<1>1. CASE /\ UNCHANGED <<m_curDay, tt, change, date, rewound>> /\ logged' \in {logged, logged + 1}
           /\ worker' \in {"print", "unlink", "written"} =>
                worker \in {"print", "unlink", "written"}
           /\ worker' = "print" => worker = "print" /\ line' = line
  <2>1. Today' BY <1>0, <1>1 DEF Today, DayOf
  <2>2. rewound' \subseteq 1 .. logged' BY <1>0, <1>1
  <2> QED BY <1>0, <1>1, <2>1, <2>2
<1>2. CASE \E t \in Loggers : Log(t) \/ LogFails(t) \/ Notify(t) \/ Exit(t)
  BY <1>1, <1>2 DEF Log, LogFails, Notify, Exit
<1>3. CASE Begin \/ SpuriousWake \/ UNCHANGED vars
  BY <1>1, <1>3 DEF Begin, Wait, SpuriousWake, vars
<1>4. CASE Wake \/ Relock BY <1>1, <1>4 DEF Wake, Relock, Loop, Wait
<1>5. CASE Write \/ Unlink BY <1>1, <1>5 DEF Write, Unlink
<1>6. CASE NextDay
  <2>1. /\ date' = date + 1 /\ date < MaxDate
        /\ UNCHANGED <<m_curDay, tt, change, worker, line, rewound, logged>>
    BY <1>6 DEF NextDay
  <2> QED BY <1>0, <2>1 DEF Today, DayOf
<1>7. CASE Open
  <2>1. /\ tt' = date /\ m_curDay' = DayOf(date) /\ date' = date
        /\ change' = (m_curDay # m_curDay') /\ UNCHANGED <<rewound, logged>>
    BY <1>7 DEF Open
  <2>2. m_curDay' \in Days /\ m_curDay' # NoDay BY <1>0, <2>1, DayNumber DEF Days, NoDay
  <2>3. change' \in BOOLEAN BY <2>1
  <2>4. Today' BY <1>0, <2>1, <2>2 DEF Today, DayOf
  <2> QED BY <1>0, <2>1, <2>2, <2>3, <2>4
<1>8. CASE Restart
  <2>1. /\ m_curDay' = NoDay /\ tt' = 0 /\ change' = FALSE /\ worker' = "start" /\ date' = date
        /\ UNCHANGED <<rewound, logged>>
    BY <1>8 DEF Restart
  <2>2. Today' BY <2>1 DEF Today
  <2>3. tt' \in 0 .. MaxDate /\ date' \in 0 .. MaxDate BY <1>0, <2>1
  <2> QED BY <1>0, <2>1, <2>2, <2>3
<1>9. CASE SetBack
  <2>1. UNCHANGED <<m_curDay, tt, change, worker, line, logged>> BY <1>9 DEF SetBack
  <2>2. /\ date' \in 0 .. MaxDate /\ rewound' \subseteq 1 .. logged
        /\ worker = "print" /\ line \notin rewound' => tt < date'
    BY <1>9, RewoundLines
  <2>3. Today' BY <1>0, <2>1, <2>2 DEF Today, DayOf
  <2> QED BY <1>0, <1>9, <2>1, <2>2, <2>3
<1> QED BY <1>2, <1>3, <1>4, <1>5, <1>6, <1>7, <1>8, <1>9 DEF Next, Worker

\* A date that is past stays past, of a line the clock is not set back over.
LEMMA StepPast ==
  ASSUME IInv, [Next]_vars, NEW d \in Days, NEW i \in DOMAIN files[d],
         files[d][i][1] \notin rewound'
  PROVE  /\ files[d][i][2] <= date'
         /\ m_curDay' # NoDay =>
              files[d][i][2] <= tt' /\ (tt' > date' => files[d][i][2] < date')
<1>1. PICK n, e : n = files[d][i][1] /\ e = files[d][i][2] OBVIOUS
<1>2. e \in Nat BY <1>1, EntryType
<1>3. n \notin rewound => Past(e) BY <1>1 DEF IInv, Archive, Dated
<1>4. date \in Nat /\ tt \in Nat /\ date' \in Nat /\ tt' \in Nat
  <2>1. date \in Nat /\ tt \in Nat BY DEF IInv, TypeOK
  <2>2. date' \in 0 .. MaxDate /\ tt' \in 0 .. MaxDate BY StepDays
  <2> QED BY <2>1, <2>2
<1>5. CASE SetBack
  <2>1. e < date' /\ n \notin rewound BY <1>1, <1>5, RewoundLines
  <2>2. UNCHANGED <<m_curDay, tt>> BY <1>5 DEF SetBack
  <2> QED BY <1>1, <1>2, <1>3, <1>4, <2>1, <2>2 DEF Past
<1>6. CASE ~SetBack
  <2>1. /\ rewound' = rewound
        /\ \/ UNCHANGED <<m_curDay, tt>> /\ date' >= date
           \/ tt' = date /\ date' = date
           \/ m_curDay' = NoDay /\ date' = date
    BY <1>6, StepDays
  <2>2. Past(e) BY <1>1, <1>3, <2>1
  <2> QED BY <1>1, <1>2, <1>4, <2>1, <2>2 DEF Past
<1> QED BY <1>5, <1>6

\* Every file is as it was, or empty, after every step but Write.
LEMMA OtherFiles ==
  ASSUME IInv, [Next]_vars, ~Write
  PROVE  /\ \A d \in Days : files'[d] = files[d] \/ files'[d] = <<>>
         /\ files' \in [Days -> Seq((1 .. MaxLines) \X (0 .. MaxDate))]
<1> DEFINE E == (1 .. MaxLines) \X (0 .. MaxDate)
<1>0. files \in [Days -> Seq(E)] /\ <<>> \in Seq(E) BY DEF IInv, TypeOK
<1>1. ASSUME NEW c, files' = [files EXCEPT ![c] = <<>>]
      PROVE  /\ \A d \in Days : files'[d] = files[d] \/ files'[d] = <<>>
             /\ files' \in [Days -> Seq(E)]
  BY <1>0, <1>1
<1>2. CASE UNCHANGED files BY <1>0, <1>2
<1> USE DEF lines, past, disk
<1>3. CASE \E t \in Loggers : Log(t) \/ LogFails(t) \/ Notify(t) \/ Exit(t)
  BY <1>2, <1>3 DEF Log, LogFails, Notify, Exit
<1>4. CASE Begin \/ SpuriousWake \/ Wake \/ Relock \/ NextDay \/ SetBack \/ Restart
           \/ UNCHANGED vars
  BY <1>2, <1>4 DEF Begin, SpuriousWake, Wake, Relock, NextDay, SetBack, Restart, vars
<1>5. CASE Open
  <2>1. PICK c : c = m_curDay' OBVIOUS
  <2>2. UNCHANGED files \/ files' = [files EXCEPT ![c] = <<>>] BY <1>5, <2>1 DEF Open
  <2> QED BY <1>1, <1>2, <2>2
<1>6. CASE Unlink
  <2>1. PICK b \in DaysBack(tt) : files' = [files EXCEPT ![DayOf(tt + Month - b)] = <<>>]
    BY <1>6 DEF Unlink
  <2>2. PICK c : c = DayOf(tt + Month - b) OBVIOUS
  <2>3. files' = [files EXCEPT ![c] = <<>>] BY <2>1, <2>2
  <2> QED BY <1>1, <2>3
<1> QED BY <1>3, <1>4, <1>5, <1>6 DEF Next, Worker

\* The program counters, the spare buffers and the history of the worker.
LEMMA StepType ==
  ASSUME IInv, [Next]_vars
  PROVE  /\ m_logBufPtr' \in 0 .. MaxLogQueue + 1 /\ m_exit' \in BOOLEAN
         /\ worker' \in {"start", "waiting", "woken", "open", "print", "unlink", "written", "dead"}
         /\ worker' \in {"open", "print", "unlink", "written"} <=> line' # NoLine
         /\ logger' \in [Loggers -> {"idle", "notify"}]
         /\ early' \in 0 .. Unknown
<1>0. /\ m_logBufPtr \in 0 .. MaxLogQueue + 1 /\ m_exit \in BOOLEAN
      /\ worker \in {"start", "waiting", "woken", "open", "print", "unlink", "written", "dead"}
      /\ worker \in {"open", "print", "unlink", "written"} <=> line # NoLine
      /\ logger \in [Loggers -> {"idle", "notify"}]
      /\ early \in 0 .. Unknown /\ logged \in 0 .. MaxLines
      /\ MaxLogQueue \in Nat /\ MaxLines \in Nat
  BY DEF IInv, TypeOK
<1>1. \A n \in 0 .. MaxLogQueue + 1 : Release(n) \in 0 .. MaxLogQueue + 1
  BY <1>0 DEF Release
<1>2. logged \in 0 .. Unknown BY <1>0 DEF Unknown
<1>3. (IF m_logBufPtr > 0 THEN m_logBufPtr - 1 ELSE 0) \in 0 .. MaxLogQueue + 1
  BY <1>0
<1> USE DEF lines, past, disk
<1>4. ASSUME NEW t \in Loggers, Log(t) \/ LogFails(t) \/ Notify(t) \/ Exit(t)
      PROVE  /\ m_logBufPtr' \in 0 .. MaxLogQueue + 1 /\ m_exit' \in BOOLEAN
             /\ worker' \in {"start", "waiting", "woken", "open", "print", "unlink", "written", "dead"}
             /\ worker' \in {"open", "print", "unlink", "written"} <=> line' # NoLine
             /\ logger' \in [Loggers -> {"idle", "notify"}]
             /\ early' \in 0 .. Unknown
  <2>1. UNCHANGED <<line, early>> /\ m_exit' \in BOOLEAN
    BY <1>0, <1>4 DEF Log, LogFails, Notify, Exit
  <2>2. m_logBufPtr' \in 0 .. MaxLogQueue + 1
    BY <1>0, <1>1, <1>3, <1>4 DEF Log, LogFails, Notify, Exit
  <2>3. worker' = worker \/ (worker = "waiting" /\ worker' = "woken")
    BY <1>4 DEF Log, LogFails, Notify, Exit
  <2>4. logger' \in [Loggers -> {"idle", "notify"}]
    BY <1>0, <1>4 DEF Log, LogFails, Notify, Exit
  <2> QED BY <1>0, <2>1, <2>2, <2>3, <2>4
<1>5. CASE Begin \/ SpuriousWake \/ NextDay \/ SetBack \/ UNCHANGED vars
  BY <1>0, <1>2, <1>5 DEF Begin, Wait, SpuriousWake, NextDay, SetBack, vars
<1>6. CASE Open \/ Write \/ Unlink
  BY <1>0, <1>6 DEF Open, Write, Unlink
<1>7. CASE Wake \/ Relock
  <2>1. m_logBufPtr' \in 0 .. MaxLogQueue + 1 /\ UNCHANGED <<m_exit, logger>> /\ Loop
    BY <1>0, <1>1, <1>7 DEF Wake, Relock
  <2>2. CASE m_logQuePtr # <<>> /\ Take /\ worker' = "open" /\ UNCHANGED early
    <3>1. line' \in 1 .. MaxLines
      <4>1. m_logQuePtr \in Seq(1 .. MaxLines) BY QueueType
      <4> QED BY <2>2, <4>1, HeadTailProperties DEF Take
    <3> QED BY <1>0, <2>1, <2>2, <3>1 DEF NoLine
  <2>3. CASE line' = NoLine /\ worker' \in {"waiting", "dead"} /\ early' \in {early, logged}
    BY <1>0, <1>2, <2>1, <2>3
  <2> QED BY <2>1, <2>2, <2>3 DEF Loop, Wait
<1>8. CASE Restart
  <2>1. /\ m_logBufPtr' = 0 /\ m_exit' = FALSE /\ worker' = "start" /\ line' = NoLine
        /\ early' = Unknown /\ logger' = [t \in Loggers |-> "idle"]
    BY <1>8 DEF Restart
  <2>2. logger' \in [Loggers -> {"idle", "notify"}] BY <2>1
  <2>3. early' \in 0 .. Unknown /\ m_logBufPtr' \in 0 .. MaxLogQueue + 1
    BY <1>0, <2>1 DEF Unknown
  <2> QED BY <2>1, <2>2, <2>3
<1> QED BY <1>4, <1>5, <1>6, <1>7, <1>8 DEF Next, Worker

LEMMA NextIInv == IInv /\ [Next]_vars => IInv'
<1> SUFFICES ASSUME IInv, [Next]_vars PROVE IInv' OBVIOUS
<1>1. Archive' /\ Sorted' /\ OneFile' /\ files' \in [Days -> Seq((1 .. MaxLines) \X (0 .. MaxDate))]
  <2>1. CASE Write BY <2>1, FilesGrow
  <2>2. CASE ~Write
    <3>1. Taken \in Int /\ Taken' \in Int /\ Taken' >= Taken
      <4>1. m_logQuePtr' \in Seq(1 .. MaxLines) /\ logged' \in Nat BY StepBacklog
      <4>2. Len(m_logQuePtr') \in Nat BY <4>1, LenProperties
      <4>3. Taken' \in Int BY <4>1, <4>2 DEF Taken
      <4> QED BY <4>3, QueueType, StepBacklog
    <3>2. \A n \in lost' : n \in lost \/ n > Taken BY StepBacklog
    <3>3. ASSUME NEW d \in Days, NEW i \in DOMAIN files[d], files[d][i][1] \notin rewound'
          PROVE  /\ files[d][i][2] <= date'
                 /\ m_curDay' # NoDay =>
                      files[d][i][2] <= tt' /\ (tt' > date' => files[d][i][2] < date')
      BY <3>3, StepPast
    <3>4. /\ \A d \in Days : files'[d] = files[d] \/ files'[d] = <<>>
          /\ files' \in [Days -> Seq((1 .. MaxLines) \X (0 .. MaxDate))]
      BY <2>2, OtherFiles
    <3> QED BY <3>1, <3>2, <3>3, <3>4, FilesStay
  <2> QED BY <2>1, <2>2
<1>2. Backlog' /\ Today' BY StepBacklog, StepDays
<1>3. Gone'
  <2>1. \A n \in lost : n <= Taken /\ n \in Nat BY DEF IInv, Gone, TypeOK
  <2>2. Taken' >= Taken /\ \A n \in lost' : n \in lost \/ (n > Taken /\ n <= Taken')
    BY StepBacklog
  <2>3. Taken \in Int /\ Taken' \in Int
    <3>1. m_logQuePtr' \in Seq(1 .. MaxLines) /\ logged' \in Nat BY StepBacklog
    <3>2. Len(m_logQuePtr') \in Nat BY <3>1, LenProperties
    <3> QED BY <3>1, <3>2, QueueType DEF Taken
  <2> QED BY <2>1, <2>2, <2>3 DEF Gone
<1>4. TypeOK' BY <1>1, StepBacklog, StepDays, StepType DEF TypeOK
<1> QED BY <1>1, <1>2, <1>3, <1>4 DEF IInv

LEMMA Invariance == Spec => []IInv
BY InitIInv, NextIInv, PTL DEF Spec

\* The logger's state is always well formed, and the spare buffers are at most
\* one more than MAX_LOG_QUEUE.
THEOREM TypeCorrect == Spec => []TypeOK
<1>1. IInv => TypeOK BY DEF IInv
<1> QED BY <1>1, Invariance, PTL

-----------------------------------------------------------------------------
(* What the invariant is for                                               *)

\* What InOrder calls waiting.
Waiting == IF worker \in {"open", "print"} THEN <<line>> \o m_logQuePtr ELSE m_logQuePtr

\* The line in hand is the next before the queue.
LEMMA WaitingNumbers ==
  ASSUME IInv
  PROVE  /\ Waiting \in Seq(Nat)
         /\ Taken = logged - Len(Waiting)
         /\ \A i \in 1 .. Len(Waiting) : Waiting[i] = Taken + i
<1>1. PICK q, n, w : q = m_logQuePtr /\ n = Len(q) /\ w = Waiting OBVIOUS
<1>2. q \in Seq(1 .. MaxLines) /\ n \in Nat /\ DOMAIN q = 1 .. n /\ logged \in Nat /\ Taken \in Nat
  BY <1>1, QueueType
<1>3. q \in Seq(Nat) BY <1>2
<1>4. \A i \in 1 .. n : q[i] = logged - n + i BY <1>1, <1>2 DEF IInv, Backlog
<1>5. CASE ~Holding
  <2>1. w = q /\ Taken = logged - n - 0 BY <1>1, <1>5 DEF Waiting, Taken, Holding
  <2>2. w \in Seq(Nat) /\ Len(w) = n /\ Taken = logged - n BY <1>1, <1>2, <1>3, <2>1
  <2>3. \A i \in 1 .. n : w[i] = Taken + i BY <1>4, <2>1, <2>2
  <2> QED BY <1>1, <2>2, <2>3
<1>6. CASE Holding
  <2>1. PICK o : o = <<line>> OBVIOUS
  <2>2. w = o \o q /\ Taken = logged - n - 1 BY <1>1, <1>6, <2>1 DEF Waiting, Taken, Holding
  <2>3. line = Taken + 1 /\ line \in Nat BY <1>6, QueueType
  <2>4. o \in Seq(Nat) /\ Len(o) = 1 /\ o[1] = line BY <2>1, <2>3
  <2>5. /\ w \in Seq(Nat) /\ Len(w) = Len(o) + Len(q)
        /\ \A i \in 1 .. Len(o) + Len(q) : w[i] = IF i <= Len(o) THEN o[i] ELSE q[i - Len(o)]
    BY <1>3, <2>2, <2>4, ConcatProperties
  <2>6. /\ Len(w) = n + 1
        /\ \A i \in 1 .. n + 1 : w[i] = IF i <= 1 THEN o[i] ELSE q[i - 1]
    BY <1>1, <1>2, <2>4, <2>5
  <2>7. ASSUME NEW i \in 1 .. n + 1 PROVE w[i] = Taken + i
    <3>1. CASE i = 1 BY <1>2, <2>3, <2>4, <2>6, <3>1
    <3>2. CASE i # 1
      <4>1. i - 1 \in 1 .. n /\ ~(i <= 1) BY <1>2, <3>2
      <4>2. w[i] = q[i - 1] BY <2>6, <4>1
      <4>3. q[i - 1] = logged - n + (i - 1) BY <1>4, <4>1
      <4> QED BY <1>2, <2>2, <4>2, <4>3
    <3> QED BY <3>1, <3>2
  <2>8. Taken = logged - (n + 1) BY <1>2, <2>2
  <2> QED BY <1>1, <2>5, <2>6, <2>7, <2>8
<1> QED BY <1>5, <1>6

\* Whoever queues a line, it reaches one file, once, after all lines queued
\* before it that reach the same file; none that waits, in the queue or in the
\* worker's hand, was passed over, written already, or lost.
THEOREM LinesInOrder == Spec => []InOrder
<1>1. ASSUME IInv PROVE InOrder
  <2>1. PICK w, n : w = Waiting /\ n = Len(w) OBVIOUS
  <2>2. /\ w \in Seq(Nat) /\ n \in Nat /\ DOMAIN w = 1 .. n
        /\ Taken = logged - n /\ logged \in Nat
        /\ \A i \in 1 .. n : w[i] = Taken + i
    BY <1>1, <2>1, WaitingNumbers, LenProperties, QueueType
  <2>3. w = [i \in DOMAIN w |-> logged - n + i]
    <3>1. PICK v : v = [i \in 1 .. n |-> logged - n + i] OBVIOUS
    <3>2. \A i \in 1 .. n : w[i] = v[i] BY <2>2, <3>1
    <3>3. w \in [1 .. n -> Nat] BY <2>1, <2>2, LenProperties
    <3>4. w = v BY <3>1, <3>2, <3>3
    <3> QED BY <2>2, <3>1, <3>4
  <2>4. ASSUME NEW d \in Days, NEW i \in DOMAIN files[d]
        PROVE  files[d][i][1] \in Nat /\ files[d][i][1] <= Taken /\ files[d][i][1] \notin lost
    <3>1. files[d] \in Seq((1 .. MaxLines) \X (0 .. MaxDate)) BY <1>1 DEF IInv, TypeOK
    <3>2. files[d][i] \in (1 .. MaxLines) \X (0 .. MaxDate)
      BY <3>1, LenProperties, ElementOfSeq
    <3>3. files[d][i][1] \in Nat BY <3>2
    <3> QED BY <1>1, <3>3 DEF IInv, Archive, Dated
  <2>5. ASSUME NEW d \in Days, NEW i, NEW j, i \in DOMAIN files[d], j \in DOMAIN files[d], i < j
        PROVE  files[d][i][1] < files[d][j][1]
    BY <1>1, <2>5 DEF IInv, Sorted
  <2>6. ASSUME NEW d \in Days, NEW e \in Days, NEW i \in DOMAIN files[d], NEW j \in DOMAIN files[e]
        PROVE  \/ files[d][i][1] < files[e][j][1] \/ files[e][j][1] < files[d][i][1]
               \/ (d = e /\ i = j)
    <3>1. files[d][i][1] \in Nat /\ files[e][j][1] \in Nat BY <2>4
    <3>2. CASE d # e
      <4>1. files[d][i][1] # files[e][j][1] BY <1>1, <3>2 DEF IInv, OneFile
      <4> QED BY <3>1, <4>1
    <3>3. CASE d = e /\ i # j
      <4>1. files[d] \in Seq((1 .. MaxLines) \X (0 .. MaxDate)) BY <1>1 DEF IInv, TypeOK
      <4>2. DOMAIN files[d] = 1 .. Len(files[d]) /\ Len(files[d]) \in Nat
        BY <4>1, LenProperties
      <4>3. i < j \/ j < i BY <3>3, <4>2
      <4> QED BY <2>5, <3>3, <4>3
    <3> QED BY <3>2, <3>3
  <2>7. ASSUME NEW d \in Days PROVE Written(d) \cap (lost \cup ToSet(w)) = {}
    <3> SUFFICES ASSUME NEW x \in Written(d), x \in lost \/ x \in ToSet(w) PROVE FALSE
      OBVIOUS
    <3>1. PICK i \in DOMAIN files[d] : x = files[d][i][1] BY DEF Written
    <3>2. x \in Nat /\ x <= Taken /\ x \notin lost BY <2>4, <3>1
    <3>3. PICK k \in DOMAIN w : x = w[k] BY <3>2 DEF ToSet
    <3>4. k \in 1 .. n /\ x = Taken + k BY <2>2, <3>3
    <3> QED BY <2>2, <3>2, <3>4
  <2> QED BY <2>1, <2>3, <2>5, <2>6, <2>7 DEF InOrder, Waiting
<1> QED BY <1>1, Invariance, PTL

\* What an entry of a file is that the clock was not set back over.
LEMMA EntryFacts ==
  ASSUME IInv, NEW d \in Days, NEW i \in DOMAIN files[d], files[d][i][1] \notin rewound
  PROVE  files[d][i][2] \in Nat /\ DayOf(files[d][i][2]) = d /\ Past(files[d][i][2])
<1>1. files[d][i][2] \in Nat BY EntryType
<1> QED BY <1>1 DEF IInv, Archive, Dated

LEMMA KeptType == \A T : Kept(T) \in {m_days - 1, m_days}
BY DEF Kept

\* Opening a file "wb" spares what was written in the last m_days days: the
\* entries of today are in the file this process has open, or it opens "ab".
LEMMA OpenKeeps ==
  ASSUME IInv, Open, NEW d \in Days, NEW i \in DOMAIN files[d],
         files[d][i][1] \notin rewound, files[d][i][2] > tt' - Kept(tt')
  PROVE  i \in DOMAIN files'[d] /\ files'[d][i] = files[d][i]
<1>1. CASE UNCHANGED files BY <1>1
<1>2. CASE change' /\ m_curDay # NoDay
  <2>1. PICK c : c = m_curDay' OBVIOUS
  <2>2. /\ c = DayOf(date) /\ m_curDay # c /\ files' = [files EXCEPT ![c] = <<>>]
    BY <1>2, <2>1 DEF Open
  <2>3. date \in Nat /\ tt \in Nat /\ m_curDay = DayOf(tt)
    BY <1>2 DEF IInv, TypeOK, Today
  <2>4. d # c
    <3> SUFFICES ASSUME d = c PROVE FALSE OBVIOUS
    <3>1. PICK e, k : e = files[d][i][2] /\ k = Kept(tt') OBVIOUS
    <3>2. e \in Nat /\ DayOf(e) = DayOf(date) /\ e <= date /\ e <= tt /\ (tt > date => e < date)
      BY <1>2, <2>2, <3>1, EntryFacts DEF Past
    <3>3. e > date - k BY <3>1 DEF Open
    <3>4. k \in Int /\ k < Month BY <3>1, KeptType
    <3>5. date - e < Month BY <2>3, <3>2, <3>3, <3>4
    <3>6. e = date BY <2>3, <3>2, <3>5, SameDay
    <3>7. tt = date BY <2>3, <3>2, <3>6
    <3> QED BY <2>2, <2>3, <3>7
  <2>5. files \in [Days -> Seq((1 .. MaxLines) \X (0 .. MaxDate))] BY DEF IInv, TypeOK
  <2>6. files'[d] = files[d] BY <2>2, <2>4, <2>5
  <2> QED BY <2>6
<1> QED BY <1>1, <1>2 DEF Open

\* What DaysBack can be.
LEMMA BackFacts ==
  ASSUME NEW T, NEW b \in DaysBack(T)
  PROVE  b \in Nat /\ b < Month /\ b >= Kept(T)
<1>1. CASE b = m_days BY <1>1 DEF Kept
<1>2. CASE b = m_days + 1 BY <1>2 DEF Kept
<1>3. CASE b = m_days - 1 /\ b # m_days /\ b # m_days + 1
  <2>1. LongDays \cap (T - m_days + 1 .. T) # {} BY <1>3 DEF DaysBack
  <2>2. Kept(T) = m_days - 1 BY <2>1 DEF Kept
  <2> QED BY <1>3, <2>2
<1> QED BY <1>1, <1>2, <1>3 DEF DaysBack

\* The file that is removed holds nothing younger than that.
LEMMA UnlinkKeeps ==
  ASSUME IInv, Unlink, NEW d \in Days, NEW i \in DOMAIN files[d],
         files[d][i][1] \notin rewound, files[d][i][2] > tt' - Kept(tt')
  PROVE  i \in DOMAIN files'[d] /\ files'[d][i] = files[d][i]
<1>1. PICK b \in DaysBack(tt) : files' = [files EXCEPT ![DayOf(tt + Month - b)] = <<>>]
  BY DEF Unlink
<1>2. PICK c, k : c = tt + Month - b /\ k = Kept(tt) OBVIOUS
<1>3. m_curDay # NoDay /\ tt \in Nat /\ tt' = tt BY DEF Unlink, IInv, TypeOK, Today
<1>4. b \in Nat /\ b < Month /\ b >= k /\ k \in Int BY <1>1, <1>2, BackFacts, KeptType
<1>5. d # DayOf(c)
  <2> SUFFICES ASSUME d = DayOf(c) PROVE FALSE OBVIOUS
  <2>1. PICK e : e = files[d][i][2] OBVIOUS
  <2>2. e \in Nat /\ e <= tt /\ DayOf(e) = DayOf(c)
    BY <1>3, <2>1, EntryFacts DEF Past
  <2>3. e > tt - k BY <1>2, <1>3, <2>1
  <2>4. c \in Nat /\ e <= c /\ c - e < Month /\ e < c BY <1>2, <1>3, <1>4, <2>2, <2>3
  <2>5. e = c BY <2>2, <2>4, SameDay
  <2> QED BY <2>4, <2>5
<1>6. files \in [Days -> Seq((1 .. MaxLines) \X (0 .. MaxDate))] BY DEF IInv, TypeOK
<1>7. files'[d] = files[d] BY <1>1, <1>2, <1>5, <1>6
<1> QED BY <1>7

\* Writing keeps what a file has.
LEMMA WriteKeeps ==
  ASSUME IInv, Write, NEW d \in Days, NEW i \in DOMAIN files[d]
  PROVE  i \in DOMAIN files'[d] /\ files'[d][i] = files[d][i]
<1> DEFINE E == (1 .. MaxLines) \X (0 .. MaxDate)
<1>1. PICK f, g, new, c : c = m_curDay /\ f = files[c] /\ new = <<line, tt>> /\ g = Append(f, new)
  OBVIOUS
<1>2. files' = [files EXCEPT ![c] = g] BY <1>1 DEF Write
<1>3. files \in [Days -> Seq(E)] BY DEF IInv, TypeOK
<1>4. CASE d # c BY <1>2, <1>3, <1>4
<1>5. CASE d = c
  <2>1. f \in Seq(E) BY <1>1, <1>3, <1>5
  <2>2. new \in E
    <3>1. line \in 0 .. MaxLines /\ line # NoLine BY DEF Write, IInv, TypeOK
    <3>2. tt \in 0 .. MaxDate BY DEF IInv, TypeOK
    <3> QED BY <1>1, <3>1, <3>2 DEF NoLine
  <2>3. g \in Seq(E) /\ Len(g) = Len(f) + 1 /\ \A k \in 1 .. Len(f) : g[k] = f[k]
    BY <1>1, <2>1, <2>2, AppendProperties
  <2>4. i \in 1 .. Len(f) /\ Len(f) \in Nat BY <1>1, <1>5, <2>1, LenProperties
  <2>5. i \in DOMAIN g BY <2>3, <2>4, LenProperties
  <2>6. files'[d] = g BY <1>2, <1>3, <1>5
  <2> QED BY <1>1, <1>5, <2>3, <2>4, <2>5, <2>6
<1> QED BY <1>4, <1>5

\* Whatever days pass without a line, whenever the process is killed and started
\* again, and although files are named by the day of the month: what was written
\* in the last m_days days by the worker's clock stays where it is, one day less
\* over a day of 25 hours, and for as long as the clock is not set back over it.
THEOREM RecentLinesStay == Spec => Retained
<1>1. ASSUME IInv, [Next]_vars, NEW d \in Days, NEW i \in DOMAIN files[d],
             files[d][i][1] \notin rewound, files[d][i][2] > tt' - Kept(tt')
      PROVE  i \in DOMAIN files'[d] /\ files'[d][i] = files[d][i]
  <2> USE DEF lines, past, disk
  <2>1. CASE Open BY <1>1, <2>1, OpenKeeps
  <2>2. CASE Unlink BY <1>1, <2>2, UnlinkKeeps
  <2>3. CASE Write BY <1>1, <2>3, WriteKeeps
  <2>4. CASE UNCHANGED files BY <1>1, <2>4
  <2>5. CASE \E t \in Loggers : Log(t) \/ LogFails(t) \/ Notify(t) \/ Exit(t)
    BY <2>4, <2>5 DEF Log, LogFails, Notify, Exit
  <2>6. CASE Begin \/ SpuriousWake \/ Wake \/ Relock \/ NextDay \/ SetBack \/ Restart
             \/ UNCHANGED vars
    BY <2>4, <2>6 DEF Begin, SpuriousWake, Wake, Relock, NextDay, SetBack, Restart, vars
  <2> QED BY <1>1, <2>1, <2>2, <2>3, <2>5, <2>6 DEF Next, Worker
<1>2. IInv /\ [Next]_vars =>
        [\A d \in Days : \A i \in DOMAIN files[d] :
           files[d][i][1] \notin rewound /\ files[d][i][2] > tt' - Kept(tt') =>
             i \in DOMAIN files'[d] /\ files'[d][i] = files[d][i]]_vars
  BY <1>1
<1> QED BY <1>2, Invariance, PTL DEF Spec, Retained
=============================================================================
