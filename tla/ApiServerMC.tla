---------------------------- MODULE ApiServerMC ----------------------------
(* ApiServer for TLC: handlers, meetings and partIds are interchangeable. *)
EXTENDS ApiServer, TLC

Interchangeable == Permutations(Workers) \cup Permutations(Meetings) \cup Permutations(Parts)
=============================================================================
