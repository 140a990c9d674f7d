-------------------------- MODULE MeetingServiceMC --------------------------
(* MeetingService for TLC: handlers, meetings and partIds are interchangeable. *)
EXTENDS MeetingService, TLC

Interchangeable == Permutations(Workers) \cup Permutations(Meetings) \cup Permutations(Parts)
=============================================================================
