---------------------------- MODULE MCSubscriptions ----------------------------
(* One node with two attributes, on a server that grants intervals from 2   *)
(* on.                                                                      *)
EXTENDS Subscriptions

CONSTANTS h1, value, events

MCHandles == {h1}
MCAttributes == {value, events}
MCIntervals == {1}
=============================================================================
