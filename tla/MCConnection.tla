----------------------------- MODULE MCConnection -----------------------------
(* The connection life cycle with a plain, a secure and a malformed         *)
(* endpoint.                                                                *)
EXTENDS Connection

CONSTANTS plain, secure, malformed

MCEndpoints == {plain, secure, malformed}
MCSecure == {secure}
MCMalformed == {malformed}
=============================================================================
