----------------------------- MODULE MCHistoryRead -----------------------------
(* The history on the server is chosen by Init, so every way in which the   *)
(* histories of the nodes end one after the other is tried.                 *)
EXTENDS HistoryRead
=============================================================================
