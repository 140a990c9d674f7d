---------------------------- MODULE PortAllocator ---------------------------
(***************************************************************************)
(* The pool of TCP ports [base, base + count) (port_allocator.cpp).  Each  *)
(* operation holds mutex_ throughout and is one action.  Whether a probe   *)
(* of a port by bind() succeeds depends on the whole host: the caller of   *)
(* the action says for which indexes it does.                              *)
(***************************************************************************)
EXTENDS Integers

CONSTANTS base, count,     \* uint16_t base_ and count_
          Width            \* 2^16, what a port number is narrowed to

ASSUME PortAllocatorAssumption ==
  /\ Width \in Nat \ {0}
  /\ base \in 0 .. Width - 1 /\ count \in 0 .. Width - 1

VARIABLES next, used       \* next_ and the vector used_
pool == <<next, used>>

Indexes == 0 .. count - 1

\* The port of an index, as the handlers pass it on: static_cast<uint16_t>.
Port(i) == (base + i) % Width

Init == next = 0 /\ used = [i \in Indexes |-> FALSE]

\* Distances from next_ at which the scan would stop.
Hits(avail) == {j \in Indexes : ~used[(next + j) % count] /\ (next + j) % count \in avail}

\* Where the next scan begins.  Mutant: at the port just given.
AfterSame(i) == i
After(i)     == (i + 1) % count

\* allocate() finds index i, the first unused one from next_ on whose port can be bound.
Allocate(avail, i) ==
  /\ \E d \in Hits(avail) : (\A j \in Hits(avail) : d <= j) /\ i = (next + d) % count
  /\ used' = [used EXCEPT ![i] = TRUE] /\ next' = After(i)

\* allocate() returns -1.
Exhausted(avail) == Hits(avail) = {} /\ UNCHANGED pool

\* Mutant: the last port of the range is taken for one outside it.
ReleaseShortRange(port) ==
  /\ used' = IF port < base \/ port >= base + count - 1 THEN used
             ELSE [used EXCEPT ![port - base] = FALSE]
  /\ UNCHANGED next

\* release(): a number outside the range is ignored.
Release(port) ==
  /\ used' = IF port < base \/ port >= base + count THEN used
             ELSE [used EXCEPT ![port - base] = FALSE]
  /\ UNCHANGED next
=============================================================================
