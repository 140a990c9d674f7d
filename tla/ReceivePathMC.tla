---------------------------- MODULE ReceivePathMC ----------------------------
(* The receiving half for TLC: octets that all differ, so that one lost,    *)
(* repeated or moved shows.                                                 *)
EXTENDS ReceivePath

RunAudio == [k \in 1 .. MaxOctets |-> (37 * k + 11) % 256]
=============================================================================
