----------------------------- MODULE MCGdsClient -----------------------------
(* Two ids for the server to assign; one call of a method waits at a time.  *)
EXTENDS GdsClient

CONSTANTS a, b

MCAppIds == {a, b}
=============================================================================
