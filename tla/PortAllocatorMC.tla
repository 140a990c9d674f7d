--------------------------- MODULE PortAllocatorMC --------------------------
(***************************************************************************)
(* PortAllocator with callers that release what they were given, once, and *)
(* two history variables.                                                  *)
(***************************************************************************)
EXTENDS PortAllocator

VARIABLES held,      \* the ports given out and not released
          swept      \* index -> indexes the scan has passed since it was last given
mcvars == <<pool, held, swept>>

\* Indexes the scan passes when it stops at i.
Passed(i) == {(next + k) % count : k \in 0 .. (i - next) % count}

MCInit == Init /\ held = {} /\ swept = [i \in Indexes |-> Indexes]

Give == \E avail \in SUBSET Indexes, i \in Indexes :
  /\ Allocate(avail, i)
  /\ held' = held \cup {Port(i)}
  /\ swept' = [x \in Indexes |-> IF x = i THEN {} ELSE swept[x] \cup Passed(i)]

Refuse == (\E avail \in SUBSET Indexes : Exhausted(avail)) /\ UNCHANGED <<held, swept>>

Return == \E port \in held : Release(port) /\ held' = held \ {port} /\ UNCHANGED swept

MCSpec == MCInit /\ [][Give \/ Refuse \/ Return]_mcvars

\* Type invariant of the pool.
TypeOK ==
  /\ next \in Indexes \cup {0} /\ used \in [Indexes -> BOOLEAN]
  /\ held \subseteq 0 .. Width - 1

\* The pool knows exactly which ports its callers hold: every release frees
\* the port it names, also at the ends of the range (release() ignores numbers
\* it takes for foreign ones).
PoolMatchesCallers == held = {Port(i) : i \in {k \in Indexes : used[k]}}

\* Ports rotate: a port is given again only after the scan has been past every
\* other one since it was last given.  When it was released does not matter: one
\* that was held all the way round and released last may be given next.
Rotation ==
  [][\A i \in Indexes : used'[i] /\ ~used[i] => Indexes \subseteq swept[i] \cup Passed(i)]_mcvars
=============================================================================
