---------------------------- MODULE MCUaCppBackend ----------------------------
(* Two nodes and two subscriptions, shared or not.                         *)
EXTENDS UaCppBackend

CONSTANTS h1, h2, s1, s2

MCHandles == {h1, h2}
MCSubIds == {s1, s2}
=============================================================================
