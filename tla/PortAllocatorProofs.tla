------------------------ MODULE PortAllocatorProofs -------------------------
(***************************************************************************)
(* Machine-checked proofs about the port pool and its callers, for every   *)
(* base and count.                                                         *)
(***************************************************************************)
EXTENDS PortAllocatorMC, TLAPS

USE PortAllocatorAssumption DEF PortAllocatorAssumption

\* The pool's range stays below 2^16; main.cpp reads base and count from the
\* command line and does not compare their sum with anything.
RangeFits == base + count <= Width

\* In such a range a port determines its index and is recognised by release().
LEMMA PortsInRange ==
  ASSUME RangeFits, NEW i \in Indexes
  PROVE  Port(i) = base + i /\ base <= Port(i) /\ Port(i) < base + count
<1>1. base + i \in 0 .. Width - 1 BY DEF RangeFits, Indexes
<1>2. \A n \in 0 .. Width - 1 : n % Width = n OBVIOUS
<1> QED BY <1>1, <1>2 DEF Port, Indexes

\* A release of a port of the pool frees its index and no other.
LEMMA ReleaseFrees ==
  ASSUME RangeFits, used \in [Indexes -> BOOLEAN], NEW i \in Indexes,
         NEW port, port = Port(i), Release(port)
  PROVE  used' = [used EXCEPT ![i] = FALSE] /\ next' = next
<1>1. port = base + i BY PortsInRange
<1>2. ~(port < base \/ port >= base + count) /\ port - base = i BY <1>1 DEF Indexes
<1>3. next' = next /\ used' = [used EXCEPT ![port - base] = FALSE] BY <1>2 DEF Release
<1> QED BY <1>2, <1>3

\* A fresh pool: nothing is held, nothing is in use.
LEMMA InitPool == MCInit => TypeOK /\ PoolMatchesCallers
BY DEF MCInit, Init, TypeOK, PoolMatchesCallers

\* Giving and taking back ports keeps the types.
LEMMA StepTypes ==
  TypeOK /\ [Give \/ Refuse \/ Return]_mcvars => TypeOK'
<1> SUFFICES ASSUME TypeOK, [Give \/ Refuse \/ Return]_mcvars PROVE TypeOK' OBVIOUS
<1>1. CASE Give
  <2>1. PICK i \in Indexes :
          /\ used' = [used EXCEPT ![i] = TRUE] /\ next' = After(i)
          /\ held' = held \cup {Port(i)}
    BY <1>1 DEF Give, Allocate
  <2>2. After(i) \in Indexes /\ Port(i) \in 0 .. Width - 1 BY DEF After, Port, Indexes
  <2> QED BY <2>1, <2>2 DEF TypeOK
<1>2. CASE Return
  BY <1>2 DEF Return, Release, TypeOK
<1>3. CASE Refuse \/ UNCHANGED mcvars
  BY <1>3 DEF Refuse, Exhausted, mcvars, pool, TypeOK
<1> QED BY <1>1, <1>2, <1>3

\* Giving, refusing and taking back keep the pool and its callers in agreement.
LEMMA StepPool ==
  ASSUME RangeFits, TypeOK, PoolMatchesCallers, [Give \/ Refuse \/ Return]_mcvars
  PROVE  PoolMatchesCallers'
<1>0. \A p : p \in held <=> \E k \in Indexes : used[k] /\ p = Port(k)
  BY DEF PoolMatchesCallers
<1>1. CASE Give
  <2>1. PICK i \in Indexes :
          used' = [used EXCEPT ![i] = TRUE] /\ held' = held \cup {Port(i)}
    BY <1>1 DEF Give, Allocate
  <2>2. \A k \in Indexes : used'[k] <=> used[k] \/ k = i BY <2>1 DEF TypeOK
  <2>3. \A p : p \in held' <=> \E k \in Indexes : used'[k] /\ p = Port(k)
    BY <1>0, <2>1, <2>2
  <2> QED BY <2>3 DEF PoolMatchesCallers, Port
<1>2. CASE Return
  <2>1. PICK port \in held : Release(port) /\ held' = held \ {port} BY <1>2 DEF Return
  <2>2. PICK i \in Indexes : used[i] /\ port = Port(i) BY <1>0, <2>1
  <2>3. used' = [used EXCEPT ![i] = FALSE] BY <2>1, <2>2, ReleaseFrees DEF TypeOK
  <2>4. \A k \in Indexes : used'[k] <=> used[k] /\ k # i BY <2>3 DEF TypeOK
  <2>5. \A k \in Indexes : Port(k) = Port(i) => k = i BY PortsInRange DEF Indexes
  <2>6. \A p : p \in held' <=> \E k \in Indexes : used'[k] /\ p = Port(k)
    BY <1>0, <2>1, <2>2, <2>4, <2>5
  <2> QED BY <2>6 DEF PoolMatchesCallers, Port
<1>3. CASE Refuse \/ UNCHANGED mcvars
  BY <1>3 DEF Refuse, Exhausted, mcvars, pool, PoolMatchesCallers, Port
<1> QED BY <1>1, <1>2, <1>3

-----------------------------------------------------------------------------
(* The rotation of the scan.                                               *)

\* How far the scan goes from index a to index b.
Ahead(a, b) == IF a <= b THEN b - a ELSE b - a + count

\* Since index i was last given, the scan has passed every index from the one
\* behind i up to the one before next_, however often it went round.
Seen(i) == {x \in Indexes : Ahead(After(i), x) < Ahead(After(i), next)}
SweptInv == swept \in [Indexes -> SUBSET Indexes] /\ \A i \in Indexes : Seen(i) \subseteq swept[i]

\* Going round: a distance is the remainder of a difference and the other way about.
LEMMA Rounds ==
  ASSUME NEW a \in Indexes, NEW b \in Indexes
  PROVE  /\ (b - a) % count = Ahead(a, b) /\ Ahead(a, b) \in Indexes
         /\ (a + Ahead(a, b)) % count = b
         /\ After(a) = IF a = count - 1 THEN 0 ELSE a + 1
<1>0. count \in Nat \ {0} /\ a \in 0 .. count - 1 /\ b \in 0 .. count - 1 BY DEF Indexes
<1>1. \A n \in 0 .. count - 1 : n % count = n BY <1>0
<1>2. \A n \in 0 .. count - 1 : (n + count) % count = n BY <1>0
<1>3. \A n \in 0 .. count - 1 : (n - count) % count = n BY <1>0
<1>4. Ahead(a, b) \in 0 .. count - 1 BY <1>0 DEF Ahead
<1>5. (b - a) % count = Ahead(a, b)
  <2>1. CASE a <= b BY <1>0, <1>1, <2>1 DEF Ahead
  <2>2. CASE ~(a <= b)
    <3>1. Ahead(a, b) - count = b - a BY <1>0, <2>2 DEF Ahead
    <3> QED BY <1>3, <1>4, <3>1
  <2> QED BY <2>1, <2>2
<1>6. (a + Ahead(a, b)) % count = b
  <2>1. CASE a <= b
    <3>1. a + Ahead(a, b) = b BY <1>0, <2>1 DEF Ahead
    <3> QED BY <1>0, <1>1, <3>1
  <2>2. CASE ~(a <= b)
    <3>1. a + Ahead(a, b) = b + count BY <1>0, <2>2 DEF Ahead
    <3> QED BY <1>0, <1>2, <3>1
  <2> QED BY <2>1, <2>2
<1>7. After(a) = IF a = count - 1 THEN 0 ELSE a + 1
  <2>1. CASE a = count - 1
    <3>1. a + 1 = 0 + count BY <1>0, <2>1
    <3> QED BY <1>0, <1>2, <2>1, <3>1 DEF After
  <2>2. CASE a # count - 1
    <3>1. a + 1 \in 0 .. count - 1 BY <1>0, <2>2
    <3> QED BY <1>1, <2>2, <3>1 DEF After
  <2> QED BY <2>1, <2>2
<1> QED BY <1>4, <1>5, <1>6, <1>7 DEF Indexes

\* What the scan passes when it stops at i: everything that is nearer than i.
LEMMA PassesNearer ==
  ASSUME next \in Indexes, NEW i \in Indexes, NEW x \in Indexes,
         Ahead(next, x) <= Ahead(next, i)
  PROVE  x \in Passed(i)
<1>1. (i - next) % count = Ahead(next, i) /\ Ahead(next, i) \in Indexes BY Rounds
<1>2. (next + Ahead(next, x)) % count = x /\ Ahead(next, x) \in Indexes BY Rounds
<1>3. Ahead(next, x) \in 0 .. (i - next) % count BY <1>1, <1>2 DEF Indexes
<1> QED BY <1>2, <1>3 DEF Passed

\* The indexes seen since j was given and those passed now make up the whole
\* round from behind j to index i, and all of it if i is j.
LEMMA RoundGrows ==
  ASSUME next \in Indexes, NEW i \in Indexes, NEW j \in Indexes, NEW x \in Indexes,
         i = j \/ Ahead(After(j), x) < Ahead(After(j), After(i))
  PROVE  x \in Seen(j) \/ x \in Passed(i)
<1>1. After(j) = (IF j = count - 1 THEN 0 ELSE j + 1)
      /\ After(i) = (IF i = count - 1 THEN 0 ELSE i + 1)
  BY Rounds
<1>2. /\ count \in Nat /\ next \in 0 .. count - 1 /\ x \in 0 .. count - 1
      /\ i \in 0 .. count - 1 /\ j \in 0 .. count - 1
  BY DEF Indexes
<1>3. Ahead(After(j), x) < Ahead(After(j), next) \/ Ahead(next, x) <= Ahead(next, i)
  BY <1>1, <1>2 DEF Ahead
<1> QED BY <1>3, PassesNearer DEF Seen

\* Who is given an index has all others seen since.
LEMMA StepSwept ==
  ASSUME TypeOK, SweptInv, [Give \/ Refuse \/ Return]_mcvars
  PROVE  /\ SweptInv'
         /\ \A i \in Indexes : used'[i] /\ ~used[i] => Indexes \subseteq swept[i] \cup Passed(i)
<1>1. CASE Give
  <2>1. PICK i \in Indexes :
          /\ used' = [used EXCEPT ![i] = TRUE] /\ next' = After(i)
          /\ swept' = [x \in Indexes |-> IF x = i THEN {} ELSE swept[x] \cup Passed(i)]
    BY <1>1 DEF Give, Allocate
  <2>2. next \in Indexes BY DEF TypeOK, Indexes
  <2>3. Passed(i) \subseteq Indexes
    <3>1. \A k \in 0 .. (i - next) % count : (next + k) % count \in Indexes
      BY <2>2 DEF Indexes
    <3> QED BY <3>1 DEF Passed
  <2>4. swept' \in [Indexes -> SUBSET Indexes] BY <2>1, <2>3 DEF SweptInv
  <2>5. ASSUME NEW j \in Indexes, NEW x \in Indexes,
               Ahead(After(j), x) < Ahead(After(j), After(i))
        PROVE  x \in swept'[j]
    <3>1. CASE j = i
      <4>1. After(i) \in Indexes BY DEF After, Indexes
      <4>2. Ahead(After(i), After(i)) = 0 BY <4>1 DEF Ahead, Indexes
      <4>3. Ahead(After(i), x) \in Indexes BY <4>1, Rounds
      <4> QED BY <2>5, <3>1, <4>2, <4>3 DEF Indexes
    <3>2. CASE j # i
      <4>1. x \in Seen(j) \/ x \in Passed(i) BY <2>2, <2>5, RoundGrows
      <4> QED BY <2>1, <3>2, <4>1 DEF SweptInv
    <3> QED BY <3>1, <3>2
  <2>6. ASSUME NEW j \in Indexes PROVE Seen(j)' \subseteq swept'[j]
    <3>1. Seen(j)' = {x \in Indexes : Ahead(After(j), x) < Ahead(After(j), next')}
      BY DEF Seen, Ahead, After, Indexes
    <3> QED BY <2>1, <2>5, <3>1
  <2>7. ASSUME NEW j \in Indexes, used'[j], ~used[j]
        PROVE  Indexes \subseteq swept[j] \cup Passed(j)
    <3>1. j = i BY <2>1, <2>7 DEF TypeOK
    <3>2. ASSUME NEW x \in Indexes PROVE x \in Seen(j) \/ x \in Passed(j)
      BY <2>2, RoundGrows
    <3> QED BY <3>2 DEF SweptInv
  <2>8. UNCHANGED Indexes BY DEF Indexes
  <2> QED BY <2>4, <2>6, <2>7, <2>8 DEF SweptInv
<1>2. CASE Return \/ Refuse \/ UNCHANGED mcvars
  <2>1. UNCHANGED <<next, swept>>
    BY <1>2 DEF Return, Refuse, Release, Exhausted, mcvars, pool
  <2>2. ASSUME NEW j \in Indexes, used'[j] PROVE used[j]
    BY <1>2, <2>2 DEF Return, Refuse, Release, Exhausted, mcvars, pool, TypeOK
  <2>3. \A j : Seen(j)' = Seen(j) BY <2>1 DEF Seen, Ahead, After, Indexes
  <2>4. UNCHANGED Indexes BY DEF Indexes
  <2> QED BY <2>1, <2>2, <2>3, <2>4 DEF SweptInv
<1> QED BY <1>1, <1>2

-----------------------------------------------------------------------------
\* The pool keeps its types, whatever its range.
THEOREM TypeCorrect == MCSpec => []TypeOK
BY InitPool, StepTypes, PTL DEF MCSpec

\* As long as the range ends below 2^16 the pool knows exactly the ports its
\* callers hold: no release() is lost, at either end of the range.
THEOREM PoolIsExact == ASSUME RangeFits PROVE MCSpec => []PoolMatchesCallers
<1>1. TypeOK /\ PoolMatchesCallers /\ [Give \/ Refuse \/ Return]_mcvars
        => (TypeOK /\ PoolMatchesCallers)'
  BY StepTypes, StepPool
<1> QED BY InitPool, <1>1, PTL DEF MCSpec

\* Ports rotate, whatever the range, whatever can be bound and whoever gives
\* ports back: between two times a port is given the scan was past all others.
THEOREM PortsRotate == MCSpec => Rotation
<1>1. MCInit => TypeOK /\ SweptInv
  <2>1. MCInit => TypeOK BY InitPool
  <2>2. MCInit => SweptInv BY DEF MCInit, SweptInv, Seen
  <2> QED BY <2>1, <2>2
<1>2. TypeOK /\ SweptInv /\ [Give \/ Refuse \/ Return]_mcvars => (TypeOK /\ SweptInv)'
  BY StepTypes, StepSwept
<1>3. TypeOK /\ SweptInv /\ [Give \/ Refuse \/ Return]_mcvars =>
        [\A i \in Indexes : used'[i] /\ ~used[i]
           => Indexes \subseteq swept[i] \cup Passed(i)]_mcvars
  BY StepSwept
<1> QED BY <1>1, <1>2, <1>3, PTL DEF MCSpec, Rotation
=============================================================================
