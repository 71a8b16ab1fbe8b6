---------------------------- MODULE MCAsyncRequests ----------------------------
(* A browse in up to two pages next to a method call and a batch write with *)
(* nothing in it.                                                           *)
EXTENDS AsyncRequests

CONSTANTS browse, call, none

MCRequests == {browse, call, none}
MCEmpty == {none}

TheSlot(name) == CHOOSE row \in Slots : row.slot = name

MCSlotOf ==
  LET method == TheSlot("callMethod")
      batch == TheSlot("writeNodeAttributes")
  IN [r \in Requests |-> CASE r = browse -> BrowseSlot
                           [] r = call -> method
                           [] OTHER -> batch]
=============================================================================
