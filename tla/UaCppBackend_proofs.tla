------------------------- MODULE UaCppBackend_proofs -------------------------
(***************************************************************************)
(* Proofs about UaCppBackend, for any set of nodes, any set of             *)
(* subscription ids and any bound on the queues.                           *)
(*                                                                         *)
(* The tables of subscriptions are written by the plugin's thread in       *)
(* several steps, with calls of the SDK in between, and by the SDK's       *)
(* thread, one statement at a time, at any moment.  SlotIsBacked says what *)
(* a slot may rely on when a call of the SDK has returned, and             *)
(* CallbackIsBacked what the SDK's thread has left in the tables; they are *)
(* what makes the three properties of the tables inductive.                *)
(***************************************************************************)
EXTENDS UaCppBackend, TLAPS

SubTable == [SubIds -> [live : BOOLEAN, shared : BOOLEAN, items : SUBSET Handles]]

Clearing == {"clearSubscriptions", "clearMapping"}

(* The variables that the tables depend on hold values of their types. *)
TablesType ==
  /\ requests \in Seq(Calls)
  /\ callback \in Callbacks
  /\ deleted \subseteq SubIds
  /\ subscriptions \in SubTable
  /\ mapping \in [Handles -> SubIds \cup {NoSub}]
  /\ slot.step \in {"creating", "adding", "removing"} => slot.handle \in Handles /\ slot.sub \in SubIds
  /\ slot.step = "creating" => slot.shared \in BOOLEAN

(* A slot that disconnects has cleared the tables.  One that goes on with  *)
(* a subscription has one that is not deleted, and the SDK's thread takes  *)
(* it out of the tables only when the session is lost.                     *)
SlotIsBacked ==
  Alive =>
    /\ slot.step = "closing" => Listed = {} /\ \A h \in Handles : mapping[h] = NoSub
    /\ slot.step = "creating" => slot.sub \notin Listed \cup deleted
    /\ slot.step = "adding" => slot.sub \notin deleted
    /\ slot.step = "adding" /\ (session = "up" \/ callback \in {"emit", "deleteAll"})
         => slot.sub \in Listed
    /\ slot.step = "removing" => slot.sub \notin deleted /\ mapping[slot.handle] = slot.sub

(* The SDK's thread runs the callback only when the session is lost.  From *)
(* qDeleteAll() on no item of another subscription is mapped, and without  *)
(* a session and a callback no item at all.                                *)
CallbackIsBacked ==
  /\ callback # "none" => session # "up"
  /\ callback \notin Clearing => deleted = {}
  /\ callback = "clearMapping" => Listed \cap deleted = {}
  /\ callback \in Clearing => \A h \in Handles : mapping[h] \in deleted \cup {NoSub}
  /\ callback = "none" /\ session # "up" => \A h \in Handles : mapping[h] = NoSub

TablesInv ==
  /\ TablesType
  /\ SlotIsBacked
  /\ CallbackIsBacked
  /\ TablesAgree
  /\ NoEmptySubscription
  /\ LostSessionLeavesNoSubscription

(* What the head and the tail of a nonempty queue are. *)
LEMMA QueueElements ==
  ASSUME NEW S, NEW q \in Seq(S), q # <<>>
  PROVE  Head(q) \in S /\ Tail(q) \in Seq(S)
OBVIOUS

(* The invariant depends on these variables only, and not on which of the  *)
(* steps without a subscription the slot is in. *)
LEMMA TablesStutter ==
  ASSUME TablesInv, requests' \in Seq(Calls), fault' = fault,
         UNCHANGED <<session, callback, subscriptions, mapping, deleted>>,
         \/ slot' = slot
         \/ /\ slot.step \notin {"creating", "adding", "removing"}
            /\ slot'.step \notin {"closing", "creating", "adding", "removing"}
  PROVE  TablesInv'
<1>1. Listed' = Listed
  BY DEF Listed
<1>2. TablesType'
  BY DEF TablesInv, TablesType
<1>3. SlotIsBacked'
  BY <1>1 DEF TablesInv, SlotIsBacked, Alive
<1>4. CallbackIsBacked' /\ TablesAgree'
  BY <1>1 DEF TablesInv, CallbackIsBacked, TablesAgree
<1>5. NoEmptySubscription'
  BY DEF TablesInv, NoEmptySubscription, Alive
<1>6. LostSessionLeavesNoSubscription'
  BY <1>1 DEF TablesInv, LostSessionLeavesNoSubscription, Alive
<1> QED
  BY <1>2, <1>3, <1>4, <1>5, <1>6 DEF TablesInv

(* A use of a deleted subscription ends what the invariant promises to     *)
(* slots.                                                                  *)
LEMMA TablesFault ==
  ASSUME TablesInv, requests' \in Seq(Calls), fault',
         UNCHANGED <<slot, session, callback, subscriptions, mapping, deleted>>
  PROVE  TablesInv'
<1>1. Listed' = Listed
  BY DEF Listed
<1>2. TablesType'
  BY DEF TablesInv, TablesType
<1>3. CallbackIsBacked' /\ TablesAgree'
  BY <1>1 DEF TablesInv, CallbackIsBacked, TablesAgree
<1> QED
  BY <1>2, <1>3
     DEF TablesInv, SlotIsBacked, NoEmptySubscription, LostSessionLeavesNoSubscription, Alive

(* What the tables hold after cleanupSubscriptions(). *)
LEMMA ClearedTables ==
  ASSUME NoTables
  PROVE  /\ subscriptions' \in SubTable /\ mapping' \in [Handles -> SubIds \cup {NoSub}]
         /\ deleted' = {} /\ Listed' = {}
         /\ \A s \in SubIds : ~subscriptions'[s].live /\ subscriptions'[s].items = {}
         /\ \A h \in Handles : mapping'[h] = NoSub
<1>1. \A s \in SubIds : subscriptions'[s] = Absent
  BY DEF NoTables
<1> QED
  BY <1>1 DEF NoTables, Absent, SubTable, Listed

(* The plugin's thread clears the tables, or a new process begins. *)
LEMMA TablesCleared ==
  ASSUME TablesInv, requests' \in Seq(Calls), NoTables, callback' \in {callback, "none"},
         callback' # "none" => session' # "up",
         slot'.step \notin {"creating", "adding", "removing"}
  PROVE  TablesInv'
<1>1. TablesType'
  BY ClearedTables DEF TablesInv, TablesType, Callbacks
<1>2. SlotIsBacked' /\ CallbackIsBacked'
  BY ClearedTables DEF SlotIsBacked, CallbackIsBacked
<1>3. TablesAgree'
  BY ClearedTables, SubsAssumption DEF TablesAgree
<1>4. NoEmptySubscription' /\ LostSessionLeavesNoSubscription'
  BY ClearedTables DEF NoEmptySubscription, LostSessionLeavesNoSubscription
<1> QED
  BY <1>1, <1>2, <1>3, <1>4 DEF TablesInv

(* Taking a call from the queue leaves a queue of calls. *)
LEMMA TakesCall ==
  ASSUME TablesInv, NEW name, Takes(name)
  PROVE  /\ Alive /\ slot = Idle /\ slot.step = "idle"
         /\ Head(requests) \in Calls /\ Head(requests).name = name
         /\ ~Dangles(Head(requests))
         /\ requests' \in Seq(Calls)
         /\ name \in {"enableMonitoring", "disableMonitoring"} =>
              Head(requests).handle \in Handles /\ Head(requests).shared \in BOOLEAN
<1>1. /\ Alive /\ slot = Idle /\ requests # <<>> /\ Head(requests).name = name
      /\ ~Dangles(Head(requests)) /\ requests' = Tail(requests)
  BY DEF Takes
<1>2. Head(requests) \in Calls /\ requests' \in Seq(Calls)
  BY <1>1, QueueElements DEF TablesInv, TablesType
<1>3. name \in {"enableMonitoring", "disableMonitoring"} =>
        Head(requests).handle \in Handles /\ Head(requests).shared \in BOOLEAN
  BY <1>1, <1>2 DEF Calls
<1> QED
  BY <1>1, <1>2, <1>3 DEF Idle

(* getSubscription() finds a shared one that is not deleted. *)
LEMMA EnableSlotStep == TablesInv /\ EnableSlot => TablesInv'
<1> SUFFICES ASSUME TablesInv, EnableSlot PROVE TablesInv'
  OBVIOUS
<1> USE DEF tables, sdk
<1> DEFINE call == Head(requests)
<1>1. /\ Takes("enableMonitoring") /\ ~NeedsNew(call)
      /\ UNCHANGED <<session, callback, subscriptions, mapping, deleted, fault>>
  BY DEF EnableSlot
<1>2. /\ Alive /\ slot.step = "idle" /\ call \in Calls /\ call.handle \in Handles
      /\ call.name = "enableMonitoring" /\ ~Dangles(call) /\ requests' \in Seq(Calls)
  BY <1>1, TakesCall
<1>3. PICK s \in SharedSubs : slot' = [step |-> "adding", handle |-> call.handle, sub |-> s]
  BY DEF EnableSlot
<1>4. s \in SubIds /\ s \in Listed /\ call.shared
  BY <1>1, <1>3 DEF SharedSubs, Listed, NeedsNew
<1>5. s \notin deleted
  <2>1. Listed \cap deleted = {}
    BY <1>2, <1>4 DEF Dangles
  <2> QED
    BY <1>4, <2>1
<1>6. slot'.step = "adding" /\ slot'.handle = call.handle /\ slot'.sub = s
  BY <1>3
<1>7. Listed' = Listed
  BY <1>1 DEF Listed
<1>8. TablesType' /\ SlotIsBacked'
  BY <1>1, <1>2, <1>4, <1>5, <1>6, <1>7 DEF TablesInv, TablesType, SlotIsBacked
<1>9. CallbackIsBacked' /\ TablesAgree'
  BY <1>1, <1>7 DEF TablesInv, CallbackIsBacked, TablesAgree
<1>10. NoEmptySubscription' /\ LostSessionLeavesNoSubscription'
  BY <1>1, <1>2, <1>7 DEF TablesInv, NoEmptySubscription, LostSessionLeavesNoSubscription, Alive
<1> QED
  BY <1>8, <1>9, <1>10 DEF TablesInv

(* createOnServer() gives an id that is in no table. *)
LEMMA EnableCreatesStep == TablesInv /\ EnableCreates => TablesInv'
<1> SUFFICES ASSUME TablesInv, EnableCreates PROVE TablesInv'
  OBVIOUS
<1> USE DEF tables, sdk
<1> DEFINE call == Head(requests)
<1>1. /\ Takes("enableMonitoring") /\ session = "up"
      /\ UNCHANGED <<session, callback, subscriptions, mapping, deleted, fault>>
  BY DEF EnableCreates
<1>2. /\ Alive /\ slot.step = "idle" /\ call.handle \in Handles /\ call.shared \in BOOLEAN
      /\ requests' \in Seq(Calls)
  BY <1>1, TakesCall
<1>3. PICK s \in SubIds \ Listed :
        slot' = [step |-> "creating", handle |-> call.handle, sub |-> s, shared |-> call.shared]
  BY DEF EnableCreates
<1>4. /\ slot'.step = "creating" /\ slot'.handle = call.handle /\ slot'.sub = s
      /\ slot'.shared = call.shared
  BY <1>3
<1>5. Listed' = Listed /\ deleted = {}
  BY <1>1 DEF Listed, TablesInv, CallbackIsBacked, Clearing
<1>6. TablesType' /\ SlotIsBacked'
  BY <1>1, <1>2, <1>3, <1>4, <1>5 DEF TablesInv, TablesType, SlotIsBacked
<1>7. CallbackIsBacked' /\ TablesAgree'
  BY <1>1, <1>5 DEF TablesInv, CallbackIsBacked, TablesAgree
<1>8. NoEmptySubscription' /\ LostSessionLeavesNoSubscription'
  BY <1>1, <1>2 DEF TablesInv, NoEmptySubscription, LostSessionLeavesNoSubscription, Alive
<1> QED
  BY <1>6, <1>7, <1>8 DEF TablesInv

(* The new subscription is listed, empty and in use by the slot, also when *)
(* its session is lost by now.                                             *)
LEMMA EnableListsStep == TablesInv /\ EnableLists => TablesInv'
<1> SUFFICES ASSUME TablesInv, EnableLists PROVE TablesInv'
  OBVIOUS
<1> USE DEF tables, sdk
<1> DEFINE s == slot.sub
           new == [live |-> TRUE, shared |-> slot.shared, items |-> {}]
<1>1. /\ Alive /\ slot.step = "creating"
      /\ UNCHANGED <<requests, session, callback, mapping, deleted, fault>>
      /\ slot' = [step |-> "adding", handle |-> slot.handle, sub |-> s]
      /\ subscriptions' = [subscriptions EXCEPT ![s] = new]
  BY DEF EnableLists
<1>2. s \in SubIds /\ slot.handle \in Handles /\ slot.shared \in BOOLEAN /\ s \notin Listed \cup deleted
  BY <1>1 DEF TablesInv, TablesType, SlotIsBacked
<1>3. ~subscriptions[s].live /\ subscriptions[s].items = {}
  BY <1>2 DEF Listed, TablesInv, TablesAgree
<1>4. /\ subscriptions' \in SubTable
      /\ subscriptions'[s].live /\ subscriptions'[s].items = {}
      /\ \A r \in SubIds \ {s} : subscriptions'[r] = subscriptions[r]
  BY <1>1, <1>2 DEF TablesInv, TablesType, SubTable
<1>5. slot'.step = "adding" /\ slot'.handle = slot.handle /\ slot'.sub = s
  BY <1>1
<1>6. Listed' = Listed \cup {s}
  BY <1>2, <1>4 DEF Listed
<1>7. TablesType' /\ SlotIsBacked'
  BY <1>1, <1>2, <1>4, <1>5, <1>6 DEF TablesInv, TablesType, SlotIsBacked
<1>8. CallbackIsBacked'
  BY <1>1, <1>2, <1>6 DEF TablesInv, CallbackIsBacked
<1>9. TablesAgree'
  <2>1. \A r \in SubIds : subscriptions'[r].items = subscriptions[r].items
    BY <1>3, <1>4
  <2> QED
    BY <1>1, <1>4, <2>1 DEF TablesInv, TablesAgree
<1>10. NoEmptySubscription'
  BY <1>1, <1>4, <1>5 DEF TablesInv, NoEmptySubscription, Alive
<1>11. LostSessionLeavesNoSubscription'
  BY <1>1, <1>5, <1>6 DEF TablesInv, LostSessionLeavesNoSubscription, Alive
<1> QED
  BY <1>7, <1>8, <1>9, <1>10, <1>11 DEF TablesInv

(* addAttributeMonitoredItem() writes both tables, or neither. *)
LEMMA EnableAddsStep ==
  ASSUME TablesInv, NEW good \in BOOLEAN, EnableAdds(good)
  PROVE  TablesInv'
<1> USE DEF tables, sdk
<1> DEFINE h == slot.handle
           s == slot.sub
           new == good /\ mapping[h] = NoSub
           subs == IF new THEN [subscriptions EXCEPT ![s].items = @ \cup {h}] ELSE subscriptions
<1>1. /\ Alive /\ slot.step = "adding" /\ slot' = Idle
      /\ good => session = "up" \/ callback \in {"emit", "deleteAll"}
      /\ UNCHANGED <<requests, session, callback, deleted, fault>>
      /\ mapping' = IF new THEN [mapping EXCEPT ![h] = s] ELSE mapping
      /\ subscriptions' = RemoveIfUnused(subs, s)
  BY DEF EnableAdds
<1>2. h \in Handles /\ s \in SubIds /\ slot'.step = "idle" /\ s \notin deleted
  BY <1>1 DEF TablesInv, TablesType, SlotIsBacked, Idle
<1>n. new => /\ session = "up" \/ callback \in {"emit", "deleteAll"}
             /\ callback \notin Clearing /\ deleted = {}
  BY <1>1 DEF TablesInv, CallbackIsBacked, Clearing
<1>m. new => subscriptions[s].live /\ deleted = {}
  BY <1>1, <1>2 DEF TablesInv, SlotIsBacked, CallbackIsBacked, Listed, Clearing
<1>3. /\ subs \in SubTable
      /\ \A r \in SubIds \ {s} : subs[r] = subscriptions[r]
      /\ subs[s].live = subscriptions[s].live
      /\ subs[s].items = IF new THEN subscriptions[s].items \cup {h} ELSE subscriptions[s].items
  BY <1>2 DEF TablesInv, TablesType, SubTable
<1>v. subs[s].items # {} => subs[s].live
  BY <1>2, <1>3, <1>m DEF TablesInv, TablesAgree
<1> HIDE DEF subs
<1>4. /\ subscriptions' \in SubTable
      /\ \A r \in SubIds \ {s} : subscriptions'[r] = subscriptions[r]
      /\ subscriptions'[s].items = subs[s].items
      /\ subscriptions'[s].live <=> subs[s].items # {}
  BY <1>1, <1>2, <1>3, <1>v DEF RemoveIfUnused, Absent, SubTable
<1>5. /\ mapping' \in [Handles -> SubIds \cup {NoSub}]
      /\ \A g \in Handles \ {h} : mapping'[g] = mapping[g]
      /\ mapping'[h] = IF new THEN s ELSE mapping[h]
  BY <1>1, <1>2 DEF TablesInv, TablesType
<1>l. Listed' \subseteq Listed \cup {s}
  BY <1>4 DEF Listed
<1>6. TablesType' /\ SlotIsBacked'
  BY <1>1, <1>2, <1>4, <1>5 DEF TablesInv, TablesType, SlotIsBacked
<1>7. TablesAgree'
  <2>1. ASSUME NEW g \in Handles, NEW r \in SubIds \ deleted
        PROVE  mapping'[g] = r <=> g \in subscriptions'[r].items
    <3>1. mapping[g] = r <=> g \in subscriptions[r].items
      BY DEF TablesInv, TablesAgree
    <3>2. CASE new
      BY <1>2, <1>3, <1>4, <1>5, <3>1, <3>2, SubsAssumption DEF TablesInv, TablesAgree
    <3>3. CASE ~new
      BY <1>2, <1>3, <1>4, <1>5, <3>1, <3>3
    <3> QED
      BY <3>2, <3>3
  <2>2. \A r \in SubIds : subscriptions'[r].items # {} => subscriptions'[r].live
    BY <1>3, <1>4 DEF TablesInv, TablesAgree
  <2> QED
    BY <1>1, <2>1, <2>2 DEF TablesAgree
<1>c. CallbackIsBacked'
  <2>1. CASE new
    <3>1. /\ session = "up" \/ callback # "none"
          /\ callback \notin Clearing /\ deleted = {}
      BY <1>n, <2>1
    <3> QED
      BY <1>1, <3>1 DEF TablesInv, CallbackIsBacked, Clearing
  <2>2. CASE ~new
    <3>1. mapping' = mapping
      BY <1>1, <2>2
    <3>2. Listed' \cap deleted \subseteq Listed \cap deleted
      BY <1>2, <1>l
    <3> QED
      BY <1>1, <3>1, <3>2 DEF TablesInv, CallbackIsBacked
  <2> QED
    BY <2>1, <2>2
<1>8. NoEmptySubscription'
  <2>1. SUFFICES ASSUME NEW r \in SubIds, subscriptions'[r].live, subscriptions'[r].items = {}
                 PROVE  FALSE
    BY DEF NoEmptySubscription
  <2>2. r # s
    BY <1>2, <1>4, <2>1
  <2>3. subscriptions[r].live /\ subscriptions[r].items = {}
    BY <1>4, <2>1, <2>2
  <2> QED
    BY <1>1, <2>2, <2>3 DEF TablesInv, NoEmptySubscription
<1>9. LostSessionLeavesNoSubscription'
  <2>1. SUFFICES ASSUME session # "up", callback = "none", NEW r \in Listed' PROVE FALSE
    BY <1>1 DEF LostSessionLeavesNoSubscription
  <2>2. r = s
    <3>1. r \in Listed => slot.sub = r
      BY <1>1, <2>1 DEF TablesInv, LostSessionLeavesNoSubscription
    <3> QED
      BY <1>l, <3>1
  <2>3. ~new /\ deleted = {} /\ \A g \in Handles : mapping[g] = NoSub
    BY <1>n, <2>1 DEF TablesInv, CallbackIsBacked, Clearing
  <2>4. subscriptions[s].items # {} /\ subscriptions[s].items \subseteq Handles
    BY <1>2, <1>3, <1>4, <2>1, <2>2, <2>3 DEF Listed, SubTable
  <2>5. \A g \in Handles : g \notin subscriptions[s].items
    BY <1>2, <2>3, SubsAssumption DEF TablesInv, TablesAgree
  <2> QED
    BY <2>4, <2>5
<1> QED
  BY <1>6, <1>7, <1>c, <1>8, <1>9 DEF TablesInv

(* removeAttributeMonitoredItem() takes the item out of both tables. *)
LEMMA DisableRemovesStep == TablesInv /\ DisableRemoves => TablesInv'
<1> SUFFICES ASSUME TablesInv, DisableRemoves PROVE TablesInv'
  OBVIOUS
<1> USE DEF tables, sdk
<1> DEFINE h == slot.handle
           s == slot.sub
           subs == [subscriptions EXCEPT ![s].items = @ \ {h}]
<1>1. /\ Alive /\ slot.step = "removing" /\ slot' = Idle
      /\ UNCHANGED <<requests, session, callback, deleted, fault>>
      /\ mapping' = [mapping EXCEPT ![h] = NoSub]
      /\ subscriptions' = RemoveIfUnused(subs, s)
  BY DEF DisableRemoves
<1>2. h \in Handles /\ s \in SubIds /\ mapping[h] = s /\ s \notin deleted /\ slot'.step = "idle"
  BY <1>1 DEF TablesInv, TablesType, SlotIsBacked, Idle
<1>3. /\ subs \in SubTable
      /\ \A r \in SubIds \ {s} : subs[r] = subscriptions[r]
      /\ subs[s].live = subscriptions[s].live
      /\ subs[s].items = subscriptions[s].items \ {h}
  BY <1>2 DEF TablesInv, TablesType, SubTable
<1>a. subscriptions[s].live
  BY <1>2 DEF TablesInv, TablesAgree
<1> HIDE DEF subs
<1>4. /\ subscriptions' \in SubTable
      /\ \A r \in SubIds \ {s} : subscriptions'[r] = subscriptions[r]
      /\ subscriptions'[s].items = subs[s].items
      /\ subscriptions'[s].live <=> subs[s].items # {}
  BY <1>1, <1>2, <1>3, <1>a DEF RemoveIfUnused, Absent, SubTable
<1>5. /\ mapping' \in [Handles -> SubIds \cup {NoSub}]
      /\ \A g \in Handles \ {h} : mapping'[g] = mapping[g]
      /\ mapping'[h] = NoSub
  BY <1>1, <1>2 DEF TablesInv, TablesType
<1>l. Listed' \subseteq Listed
  BY <1>2, <1>4, <1>a DEF Listed
<1>6. TablesType' /\ SlotIsBacked'
  BY <1>1, <1>2, <1>4, <1>5 DEF TablesInv, TablesType, SlotIsBacked
<1>7. TablesAgree'
  <2>1. ASSUME NEW g \in Handles, NEW r \in SubIds \ deleted
        PROVE  mapping'[g] = r <=> g \in subscriptions'[r].items
    <3>1. mapping[g] = r <=> g \in subscriptions[r].items
      BY DEF TablesInv, TablesAgree
    <3> QED
      BY <1>2, <1>3, <1>4, <1>5, <3>1, SubsAssumption
  <2>2. \A r \in SubIds : subscriptions'[r].items # {} => subscriptions'[r].live
    BY <1>3, <1>4 DEF TablesInv, TablesAgree
  <2> QED
    BY <1>1, <2>1, <2>2 DEF TablesAgree
<1>c. CallbackIsBacked'
  BY <1>1, <1>5, <1>l DEF TablesInv, CallbackIsBacked
<1>8. NoEmptySubscription'
  <2>1. SUFFICES ASSUME NEW r \in SubIds, subscriptions'[r].live, subscriptions'[r].items = {}
                 PROVE  FALSE
    BY DEF NoEmptySubscription
  <2>2. r # s
    BY <1>2, <1>4, <2>1
  <2>3. subscriptions[r].live /\ subscriptions[r].items = {}
    BY <1>4, <2>1, <2>2
  <2> QED
    BY <1>1, <2>2, <2>3 DEF TablesInv, NoEmptySubscription
<1>9. LostSessionLeavesNoSubscription'
  BY <1>1, <1>l DEF TablesInv, LostSessionLeavesNoSubscription
<1> QED
  BY <1>6, <1>7, <1>c, <1>8, <1>9 DEF TablesInv

(* The SDK's thread deletes the subscriptions: what is mapped is deleted.  *)
LEMMA DeletesAllStep == TablesInv /\ DeletesAll => TablesInv'
<1> SUFFICES ASSUME TablesInv, DeletesAll PROVE TablesInv'
  OBVIOUS
<1>1. /\ callback = "deleteAll" /\ callback' = "clearSubscriptions" /\ deleted' = Listed /\ Alive
      /\ fault' = (slot.step \in {"adding", "removing"} /\ slot.sub \in Listed)
      /\ UNCHANGED <<requests, slot, session, subscriptions, mapping>>
  BY DEF DeletesAll
<1>2. deleted = {} /\ session # "up"
  BY <1>1 DEF TablesInv, CallbackIsBacked, Clearing
<1>3. Listed' = Listed /\ Listed \subseteq SubIds
  BY <1>1 DEF Listed
<1>4. \A h \in Handles : mapping[h] \in Listed \cup {NoSub}
  <2>1. SUFFICES ASSUME NEW h \in Handles, mapping[h] \in SubIds PROVE mapping[h] \in Listed
    BY DEF TablesInv, TablesType
  <2> QED
    BY <1>2, <2>1 DEF TablesInv, TablesAgree, Listed
<1>5. TablesType'
  BY <1>1, <1>3 DEF TablesInv, TablesType, Callbacks
<1>6. SlotIsBacked'
  <2>1. SUFFICES ASSUME ~fault', slot.step \in {"closing", "creating", "adding", "removing"}
                 PROVE  SlotIsBacked'
    BY <1>1 DEF SlotIsBacked, Alive
  <2>2. slot.step = "removing" => slot.sub \in Listed
    BY <1>1, <1>4, SubsAssumption DEF TablesInv, TablesType, SlotIsBacked
  <2>3. slot.step # "removing" /\ (slot.step = "adding" => slot.sub \notin Listed)
    BY <1>1, <2>1, <2>2
  <2> QED
    BY <1>1, <1>2, <1>3, <2>3 DEF TablesInv, SlotIsBacked, Alive
<1>7. CallbackIsBacked'
  BY <1>1, <1>2, <1>4 DEF CallbackIsBacked, Clearing
<1>8. TablesAgree'
  BY <1>1, <1>2 DEF TablesInv, TablesAgree
<1>9. NoEmptySubscription' /\ LostSessionLeavesNoSubscription'
  BY <1>1 DEF TablesInv, NoEmptySubscription, LostSessionLeavesNoSubscription, Alive
<1> QED
  BY <1>5, <1>6, <1>7, <1>8, <1>9 DEF TablesInv

(* It clears m_subscriptions: no slot goes on to remove an item. *)
LEMMA ClearsSubscriptionsStep == TablesInv /\ ClearsSubscriptions => TablesInv'
<1> SUFFICES ASSUME TablesInv, ClearsSubscriptions PROVE TablesInv'
  OBVIOUS
<1>1. /\ callback = "clearSubscriptions" /\ callback' = "clearMapping" /\ Alive
      /\ subscriptions' = [s \in SubIds |-> Absent]
      /\ UNCHANGED <<requests, slot, session, mapping, deleted, fault>>
  BY DEF ClearsSubscriptions
<1>2. session # "up" /\ \A h \in Handles : mapping[h] \in deleted \cup {NoSub}
  BY <1>1 DEF TablesInv, CallbackIsBacked, Clearing
<1>3. /\ subscriptions' \in SubTable /\ Listed' = {}
      /\ \A s \in SubIds : ~subscriptions'[s].live /\ subscriptions'[s].items = {}
  BY <1>1 DEF Absent, SubTable, Listed
<1>4. TablesType'
  BY <1>1, <1>3 DEF TablesInv, TablesType, Callbacks
<1>5. SlotIsBacked'
  BY <1>1, <1>2, <1>3 DEF TablesInv, SlotIsBacked, Alive
<1>6. CallbackIsBacked'
  BY <1>1, <1>2, <1>3 DEF CallbackIsBacked, Clearing
<1>7. TablesAgree'
  BY <1>1, <1>2, <1>3, SubsAssumption DEF TablesAgree
<1>8. NoEmptySubscription' /\ LostSessionLeavesNoSubscription'
  BY <1>1, <1>3 DEF NoEmptySubscription, LostSessionLeavesNoSubscription
<1> QED
  BY <1>4, <1>5, <1>6, <1>7, <1>8 DEF TablesInv

(* It clears m_attributeMapping: a subscription that is listed by now has  *)
(* no item, and the slot that listed it has not returned.                  *)
LEMMA ClearsMappingStep == TablesInv /\ ClearsMapping => TablesInv'
<1> SUFFICES ASSUME TablesInv, ClearsMapping PROVE TablesInv'
  OBVIOUS
<1>1. /\ callback = "clearMapping" /\ callback' = "none" /\ Alive
      /\ mapping' = [h \in Handles |-> NoSub] /\ deleted' = {}
      /\ UNCHANGED <<requests, slot, session, subscriptions, fault>>
  BY DEF ClearsMapping
<1>2. /\ session # "up" /\ Listed \cap deleted = {}
      /\ \A h \in Handles : mapping[h] \in deleted \cup {NoSub}
  BY <1>1 DEF TablesInv, CallbackIsBacked, Clearing
<1>3. \A h \in Handles : mapping'[h] = NoSub
  BY <1>1
<1>4. Listed' = Listed
  BY <1>1 DEF Listed
<1>5. ASSUME NEW s \in SubIds PROVE subscriptions[s].items = {}
  <2>1. subscriptions[s].items \subseteq Handles
    BY DEF TablesInv, TablesType, SubTable
  <2>2. CASE s \in deleted
    BY <1>2, <2>2 DEF TablesInv, TablesAgree, Listed
  <2>3. CASE s \notin deleted
    <3>1. \A h \in Handles : h \notin subscriptions[s].items
      BY <1>2, <2>3, SubsAssumption DEF TablesInv, TablesAgree
    <3> QED
      BY <2>1, <3>1
  <2> QED
    BY <2>2, <2>3
<1>6. TablesType'
  BY <1>1 DEF TablesInv, TablesType, Callbacks
<1>7. SlotIsBacked'
  <2>1. slot.step = "removing" => slot.sub \notin deleted /\ mapping[slot.handle] = slot.sub
                                  /\ slot.handle \in Handles /\ slot.sub \in SubIds
    BY <1>1 DEF TablesInv, TablesType, SlotIsBacked
  <2>2. slot.step # "removing"
    BY <1>2, <2>1, SubsAssumption
  <2> QED
    BY <1>1, <1>3, <1>4, <2>2 DEF TablesInv, SlotIsBacked, Alive
<1>8. CallbackIsBacked'
  BY <1>1, <1>3 DEF CallbackIsBacked, Clearing
<1>9. TablesAgree'
  BY <1>1, <1>3, <1>5, SubsAssumption DEF TablesAgree
<1>10. NoEmptySubscription'
  BY <1>1 DEF TablesInv, NoEmptySubscription, Alive
<1>11. LostSessionLeavesNoSubscription'
  <2>1. \A s \in Listed : slot.step = "adding" /\ slot.sub = s
    BY <1>1, <1>5 DEF Listed, TablesInv, NoEmptySubscription
  <2> QED
    BY <1>1, <1>4, <2>1 DEF LostSessionLeavesNoSubscription
<1> QED
  BY <1>6, <1>7, <1>8, <1>9, <1>10, <1>11 DEF TablesInv

-----------------------------------------------------------------------------
(* Types.                                                                  *)

(* A question in the queue is the only one, and the slot waits for it: the *)
(* answer finds the connection attempt that asked.                         *)
AskIsAwaited ==
  \A i \in 1 .. Len(events) :
    events[i].signal = "ask" =>
      slot.step = "asking" /\ \A j \in 1 .. Len(events) : events[j].signal = "ask" => j = i

QueueInv == events \in Seq(Signals) /\ AskIsAwaited

(* Signals other than a question can be emitted at any time. *)
LEMMA EmitPlain ==
  ASSUME QueueInv, NEW t \in Seq(Signals), Emit(t),
         \A i \in 1 .. Len(t) : t[i].signal # "ask",
         slot'.step = slot.step \/ slot.step # "asking"
  PROVE  QueueInv'
<1>1. events \in Seq(Signals) /\ events' = events \o t
  BY DEF QueueInv, Emit
<1>2. /\ events' \in Seq(Signals)
      /\ Len(events') = Len(events) + Len(t)
      /\ \A i \in 1 .. Len(events') :
           events'[i] = IF i <= Len(events) THEN events[i] ELSE t[i - Len(events)]
  BY <1>1
<1>3. \A i \in 1 .. Len(events') :
        events'[i].signal = "ask" => i \in 1 .. Len(events) /\ events'[i] = events[i]
  BY <1>1, <1>2
<1> QED
  BY <1>2, <1>3 DEF QueueInv, AskIsAwaited

(* Taking the first signal. *)
LEMMA DeliverFirst ==
  ASSUME QueueInv, events # <<>>, events' = Tail(events),
         slot' = slot \/ Head(events).signal = "ask"
  PROVE  QueueInv'
<1>1. events \in Seq(Signals)
  BY DEF QueueInv
<1>2. /\ events' \in Seq(Signals)
      /\ Len(events) \in Nat \ {0} /\ Len(events') = Len(events) - 1
      /\ Head(events) = events[1]
      /\ \A i \in 1 .. Len(events') : events'[i] = events[i + 1] /\ i + 1 \in 1 .. Len(events)
  BY <1>1
<1>3. CASE slot' = slot
  BY <1>2, <1>3 DEF QueueInv, AskIsAwaited
<1>4. CASE Head(events).signal = "ask"
  <2>1. \A j \in 1 .. Len(events) : events[j].signal = "ask" => j = 1
    BY <1>2, <1>4 DEF QueueInv, AskIsAwaited
  <2>2. \A i \in 1 .. Len(events') : events'[i].signal # "ask"
    BY <1>2, <2>1
  <2> QED
    BY <1>2, <2>2 DEF QueueInv, AskIsAwaited
<1> QED
  BY <1>3, <1>4

(* The signals of the state are signals. *)
LEMMA StateIsPlain ==
  ASSUME NEW x \in StateSignals
  PROVE  State(x) \in Signals /\ State(x).signal = x /\ x # "ask"
BY DEF State, StateSignals, Signals

(* The reports of a session that is closed. *)
LEMMA DisconnectIsPlain ==
  ASSUME NEW s \in DisconnectSignals
  PROVE  s \in Seq(Signals) /\ \A i \in 1 .. Len(s) : s[i].signal # "ask"
<1>1. State("Disconnected") \in Signals /\ State("Disconnected").signal # "ask"
  BY StateIsPlain DEF StateSignals
<1>2. s = <<State("Disconnected")>> \/ s = <<State("Disconnected"), State("Disconnected")>>
  BY DEF DisconnectSignals
<1>3. CASE s = <<State("Disconnected")>>
  BY <1>1, <1>3
<1>4. CASE s = <<State("Disconnected"), State("Disconnected")>>
  BY <1>1, <1>4
<1> QED
  BY <1>2, <1>3, <1>4

(* Every step keeps the order of questions and answers. *)
LEMMA QueueStep == TypeOK /\ QueueInv /\ [Next]_vars => QueueInv'
<1> SUFFICES ASSUME TypeOK, QueueInv, [Next]_vars PROVE QueueInv'
  OBVIOUS
<1>u. ASSUME UNCHANGED events, slot'.step = slot.step \/ slot.step # "asking" PROVE QueueInv'
  BY <1>u DEF QueueInv, AskIsAwaited
<1>s. \A x \in StateSignals : State(x) \in Signals /\ State(x).signal # "ask"
  BY StateIsPlain
<1>e. ASSUME NEW x \in StateSignals, Emit(<<State(x)>>), slot'.step = slot.step \/ slot.step # "asking"
      PROVE  QueueInv'
  <2>1. <<State(x)>> \in Seq(Signals) /\ \A i \in 1 .. Len(<<State(x)>>) : <<State(x)>>[i].signal # "ask"
    BY <1>s
  <2> QED
    BY <1>e, <2>1, EmitPlain
<1>h. ASSUME NEW h \in Handles, Emit(<<[signal |-> "enabled", handle |-> h]>>),
             slot'.step = slot.step \/ slot.step # "asking"
      PROVE  QueueInv'
  <2> DEFINE t == <<[signal |-> "enabled", handle |-> h]>>
  <2>1. t \in Seq(Signals) /\ \A i \in 1 .. Len(t) : t[i].signal # "ask"
    BY DEF Signals
  <2> HIDE DEF t
  <2>2. Emit(t)
    BY <1>h DEF t
  <2> QED
    BY <1>h, <2>1, <2>2, EmitPlain
<1>1. CASE Application
  BY <1>1, <1>u DEF Application, ConnectToEndpoint, DisconnectFromEndpoint, EnableMonitoring,
                    DisableMonitoring
<1>2. CASE Delivery
  BY <1>2, DeliverFirst DEF Delivery, DeliverState, DeliverAsk, DeliverEnabled
<1>3. CASE Opens \/ OpensInvalid
  BY <1>3, <1>e DEF Opens, OpensInvalid, StateSignals
<1>4. CASE ConnectAsks
  <2> DEFINE a == [signal |-> "ask"]
  <2>1. a \in Signals /\ a.signal = "ask"
    BY DEF Signals
  <2>2. events \in Seq(Signals) /\ events' = events \o <<a>> /\ slot.step = "connecting" /\ slot'.step = "asking"
    BY <1>4 DEF ConnectAsks, Emit, QueueInv
  <2> HIDE DEF a
  <2>3. /\ events' \in Seq(Signals)
        /\ Len(events') = Len(events) + 1
        /\ \A i \in 1 .. Len(events') : events'[i] = IF i <= Len(events) THEN events[i] ELSE a
    BY <2>1, <2>2
  <2>4. \A i \in 1 .. Len(events) : events[i].signal # "ask"
    BY <2>2 DEF QueueInv, AskIsAwaited
  <2>5. \A i \in 1 .. Len(events') : events'[i].signal = "ask" => i = Len(events')
    BY <2>2, <2>3, <2>4
  <2> QED
    BY <2>2, <2>3, <2>5 DEF QueueInv, AskIsAwaited
<1>5. CASE ConnectFails \/ ConnectSucceeds
  BY <1>5, <1>e DEF ConnectFails, ConnectSucceeds, StateSignals
<1>6. CASE Disconnects
  <2>1. slot.step # "asking" /\ \E s \in DisconnectSignals : Emit(s)
    BY <1>6 DEF Disconnects
  <2> QED
    BY <2>1, DisconnectIsPlain, EmitPlain
<1>7. CASE UsesDeleted \/ ConnectSlot \/ DisconnectSlot \/ EnableSlot \/ EnableCreates \/ EnableLists
           \/ DisableSlot \/ DisableRemoves
  BY <1>7, <1>u DEF UsesDeleted, ConnectSlot, DisconnectSlot, EnableSlot, EnableCreates, EnableLists,
                    DisableSlot, DisableRemoves, Takes, Idle
<1>8. CASE EnableSlotFails
  <2>1. Head(requests) \in Calls /\ Head(requests).name = "enableMonitoring"
    BY <1>8, QueueElements DEF EnableSlotFails, Takes, TypeOK
  <2>2. Head(requests).handle \in Handles
    BY <2>1 DEF Calls
  <2> QED
    BY <1>8, <2>2, <1>h DEF EnableSlotFails
<1>9. ASSUME NEW good \in BOOLEAN, EnableAdds(good) PROVE QueueInv'
  <2>1. slot.step = "adding" /\ slot.handle \in Handles
    BY <1>9 DEF EnableAdds, TypeOK, Slots
  <2> QED
    BY <1>9, <2>1, <1>h DEF EnableAdds
<1>10. CASE ReportsLost
  BY <1>10, <1>e DEF ReportsLost, StateSignals
<1>13. CASE ConnectionLost \/ DeletesAll \/ ClearsSubscriptions \/ ClearsMapping
  BY <1>13, <1>u DEF ConnectionLost, DeletesAll, ClearsSubscriptions, ClearsMapping
<1>11. CASE ProcessEnds
  BY <1>11 DEF ProcessEnds, QueueInv, AskIsAwaited
<1>12. CASE UNCHANGED vars
  BY <1>12, <1>u DEF vars
<1> QED
  BY <1>1, <1>2, <1>3, <1>4, <1>5, <1>6, <1>7, <1>8, <1>9, <1>10, <1>11, <1>12, <1>13
     DEF Next, Plugin, connectionStatusChanged

(* Every step keeps the types; the answer to a question needs AskIsAwaited. *)
LEMMA TypeStep == TypeOK /\ QueueInv /\ [Next]_vars => TypeOK'
<1> SUFFICES ASSUME TypeOK, QueueInv, [Next]_vars PROVE TypeOK'
  OBVIOUS
<1> USE DEF tables, sdk, SubTable
<1>q. events' \in Seq(Signals)
  BY QueueStep DEF QueueInv
<1>i. Idle \in Slots
  BY DEF Idle, Slots
<1>p. ASSUME NEW c \in Calls, Post(c)
      PROVE  requests' \in Seq(Calls) /\ Len(requests') <= MaxRequests
  BY <1>p, BoundsAssumption DEF Post, TypeOK
<1>t. ASSUME NEW name, Takes(name)
      PROVE  /\ requests' \in Seq(Calls) /\ Len(requests') <= MaxRequests
             /\ Head(requests) \in Calls /\ Head(requests).name = name /\ slot = Idle
  BY <1>t, BoundsAssumption DEF Takes, TypeOK
<1>n. ASSUME NoTables
      PROVE  /\ subscriptions' \in SubTable /\ mapping' \in [Handles -> SubIds \cup {NoSub}]
             /\ deleted' \subseteq SubIds
  BY <1>n, ClearedTables
<1>l. Listed \subseteq SubIds
  BY DEF Listed
<1>1. CASE Application
  <2>1. \A h \in Handles, b \in BOOLEAN :
          /\ Call("connectToEndpoint", NoSub, FALSE) \in Calls
          /\ Call("disconnectFromEndpoint", NoSub, FALSE) \in Calls
          /\ Call("enableMonitoring", h, b) \in Calls
          /\ Call("disableMonitoring", h, b) \in Calls
    BY DEF Calls, Call
  <2>2. ASSUME ConnectToEndpoint PROVE TypeOK'
    <3>1. Post(Call("connectToEndpoint", NoSub, FALSE))
          /\ Call("connectToEndpoint", NoSub, FALSE) \in Calls
      BY <2>2 DEF ConnectToEndpoint, Calls, Call
    <3> QED
      BY <1>p, <1>q, <2>2, <3>1 DEF ConnectToEndpoint, TypeOK
  <2>3. ASSUME DisconnectFromEndpoint PROVE TypeOK'
    <3>1. Post(Call("disconnectFromEndpoint", NoSub, FALSE))
          /\ Call("disconnectFromEndpoint", NoSub, FALSE) \in Calls
      BY <2>3 DEF DisconnectFromEndpoint, Calls, Call
    <3> QED
      BY <1>p, <1>q, <2>3, <3>1 DEF DisconnectFromEndpoint, TypeOK, Contract!Close
  <2>4. ASSUME NEW h \in Handles, NEW b \in BOOLEAN, EnableMonitoring(h, b) PROVE TypeOK'
    BY <1>p, <1>q, <2>1, <2>4 DEF EnableMonitoring, TypeOK
  <2>5. ASSUME NEW h \in Handles, DisableMonitoring(h) PROVE TypeOK'
    BY <1>p, <1>q, <2>1, <2>5 DEF DisableMonitoring, TypeOK
  <2> QED
    BY <1>1, <2>2, <2>3, <2>4, <2>5 DEF Application
<1>2. CASE DeliverState \/ DeliverEnabled
  <2>1. StateSignals \subseteq {"Disconnected", "Connecting", "Connected", "Closing"}
    BY DEF StateSignals
  <2> QED
    BY <1>2, <1>q, <2>1 DEF DeliverState, DeliverEnabled, TypeOK
<1>3. CASE DeliverAsk
  <2>1. events \in Seq(Signals) /\ events # <<>> /\ Head(events).signal = "ask"
    BY <1>3 DEF DeliverAsk, TypeOK
  <2>2. Len(events) \in Nat \ {0} /\ events[1] = Head(events)
    BY <2>1
  <2>3. slot.step = "asking"
    BY <2>1, <2>2 DEF QueueInv, AskIsAwaited
  <2>4. slot \in [step : {"connecting", "asking"}, asks : 0 .. MaxAsks]
    BY <2>3 DEF TypeOK, Slots
  <2>5. slot' \in [step : {"connecting", "asking"}, asks : 0 .. MaxAsks]
    BY <1>3, <2>4 DEF DeliverAsk
  <2> QED
    BY <1>3, <1>q, <2>5 DEF DeliverAsk, TypeOK, Slots
<1>4. CASE ConnectSlot \/ DisconnectSlot
  <2>1. slot' \in {[step |-> "opening"], [step |-> "closing", then |-> "opening"],
                   [step |-> "closing", then |-> "idle"]}
    BY <1>4 DEF ConnectSlot, DisconnectSlot
  <2>2. slot' \in Slots
    BY <2>1 DEF Slots
  <2> QED
    BY <1>4, <1>q, <1>t, <1>n, <2>2 DEF ConnectSlot, DisconnectSlot, TypeOK
<1>16. CASE Opens \/ OpensInvalid
  <2>1. [step |-> "connecting", asks |-> 0] \in Slots
    BY BoundsAssumption DEF Slots
  <2> QED
    BY <1>16, <1>q, <1>i, <2>1 DEF Opens, OpensInvalid, TypeOK
<1>5. CASE ConnectAsks
  <2>1. slot \in [step : {"connecting", "asking"}, asks : 0 .. MaxAsks]
    BY <1>5 DEF ConnectAsks, TypeOK, Slots
  <2>2. slot' \in Slots
    BY <1>5, <2>1, BoundsAssumption DEF ConnectAsks, Slots
  <2> QED
    BY <1>5, <1>q, <2>2 DEF ConnectAsks, TypeOK
<1>6. CASE ConnectFails \/ ConnectSucceeds
  BY <1>6, <1>q, <1>i DEF ConnectFails, ConnectSucceeds, TypeOK
<1>7. CASE Disconnects
  <2>1. slot.then \in {"idle", "opening"}
    BY <1>7 DEF Disconnects, TypeOK, Slots
  <2>2. slot' \in Slots
    BY <1>7, <2>1 DEF Disconnects, Slots
  <2> QED
    BY <1>7, <1>q, <2>2 DEF Disconnects, TypeOK
<1>8. CASE EnableSlot \/ EnableCreates
  <2>1. Takes("enableMonitoring") /\ UNCHANGED <<client, events, sdk, tables, asked, fault>>
    BY <1>8 DEF EnableSlot, EnableCreates
  <2>0. Head(requests) \in Calls /\ Head(requests).name = "enableMonitoring"
    BY <2>1, <1>t
  <2>2. Head(requests).handle \in Handles /\ Head(requests).shared \in BOOLEAN
    BY <2>0 DEF Calls
  <2>3. PICK s \in SubIds :
          \/ slot' = [step |-> "adding", handle |-> Head(requests).handle, sub |-> s]
          \/ slot' = [step |-> "creating", handle |-> Head(requests).handle, sub |-> s,
                      shared |-> Head(requests).shared]
    BY <1>8 DEF EnableSlot, EnableCreates, SharedSubs, Listed
  <2>4. slot' \in Slots
    BY <2>2, <2>3 DEF Slots
  <2> QED
    BY <1>t, <2>1, <2>4 DEF TypeOK
<1>17. CASE EnableLists
  <2>1. slot.handle \in Handles /\ slot.sub \in SubIds /\ slot.shared \in BOOLEAN
    BY <1>17 DEF EnableLists, TypeOK, Slots
  <2>2. slot' \in Slots
    BY <1>17, <2>1 DEF EnableLists, Slots
  <2>3. subscriptions' \in SubTable
    BY <1>17, <2>1 DEF EnableLists, TypeOK
  <2> QED
    BY <1>17, <2>2, <2>3 DEF EnableLists, TypeOK
<1>18. CASE UsesDeleted
  BY <1>18 DEF UsesDeleted, TypeOK
<1>9. CASE EnableSlotFails
  BY <1>9, <1>q, <1>t DEF EnableSlotFails, TypeOK
<1>10. ASSUME NEW good \in BOOLEAN, EnableAdds(good) PROVE TypeOK'
  <2>1. slot.handle \in Handles /\ slot.sub \in SubIds
    BY <1>10 DEF EnableAdds, TypeOK, Slots
  <2>2. mapping' \in [Handles -> SubIds \cup {NoSub}]
    BY <1>10, <2>1 DEF EnableAdds, TypeOK
  <2>3. subscriptions' \in SubTable
    BY <1>10, <2>1 DEF EnableAdds, TypeOK, RemoveIfUnused, Absent
  <2> QED
    BY <1>10, <1>q, <1>i, <2>2, <2>3 DEF EnableAdds, TypeOK
<1>11. CASE DisableSlot
  <2>0. Head(requests) \in Calls /\ Head(requests).name = "disableMonitoring"
    BY <1>11, <1>t DEF DisableSlot
  <2>1. Head(requests).handle \in Handles
    BY <2>0 DEF Calls
  <2>2. slot' \in Slots
    BY <1>11, <1>i, <2>1 DEF DisableSlot, TypeOK, Slots
  <2> QED
    BY <1>11, <1>t, <2>2 DEF DisableSlot, TypeOK
<1>12. CASE DisableRemoves
  <2>1. slot.handle \in Handles /\ slot.sub \in SubIds
    BY <1>12 DEF DisableRemoves, TypeOK, Slots
  <2>2. mapping' \in [Handles -> SubIds \cup {NoSub}]
    BY <1>12, <2>1 DEF DisableRemoves, TypeOK
  <2>3. subscriptions' \in SubTable
    BY <1>12, <2>1 DEF DisableRemoves, TypeOK, RemoveIfUnused, Absent
  <2> QED
    BY <1>12, <1>i, <2>2, <2>3 DEF DisableRemoves, TypeOK
<1>13. CASE ConnectionLost \/ ReportsLost
  BY <1>13, <1>q DEF ConnectionLost, ReportsLost, TypeOK, Callbacks
<1>19. CASE DeletesAll
  BY <1>19, <1>l DEF DeletesAll, TypeOK, Callbacks
<1>20. CASE ClearsSubscriptions \/ ClearsMapping
  <2>1. /\ [s \in SubIds |-> Absent] \in SubTable
        /\ [h \in Handles |-> NoSub] \in [Handles -> SubIds \cup {NoSub}]
    BY DEF Absent
  <2> QED
    BY <1>20, <2>1 DEF ClearsSubscriptions, ClearsMapping, TypeOK, Callbacks
<1>14. CASE ProcessEnds
  <2>1. requests' = <<>> /\ requests' \in Seq(Calls) /\ Len(requests') <= MaxRequests
    BY <1>14, BoundsAssumption DEF ProcessEnds
  <2>2. /\ client' \in {"Disconnected", "Connecting", "Connected", "Closing"}
        /\ slot' \in Slots /\ session' \in {"down", "up", "lost"} /\ callback' \in Callbacks
        /\ asked' \subseteq Handles /\ fault' \in BOOLEAN /\ NoTables
    BY <1>14, <1>i DEF ProcessEnds, Callbacks
  <2> QED
    BY <1>q, <1>n, <2>1, <2>2 DEF TypeOK
<1>15. CASE UNCHANGED vars
  BY <1>15 DEF vars, TypeOK
<1> QED
  BY <1>1, <1>2, <1>3, <1>4, <1>5, <1>6, <1>7, <1>8, <1>9, <1>10, <1>11, <1>12, <1>13, <1>14, <1>15,
     <1>16, <1>17, <1>18, <1>19, <1>20
     DEF Next, Plugin, Delivery, connectionStatusChanged

(* The initial state has the types. *)
LEMMA InitType == Init => TypeOK
<1> SUFFICES ASSUME Init PROVE TypeOK
  OBVIOUS
<1>1. requests = <<>> /\ requests \in Seq(Calls) /\ Len(requests) <= MaxRequests
  BY BoundsAssumption DEF Init
<1>2. events \in Seq(Signals) /\ slot \in Slots
  BY DEF Init, Idle, Slots
<1>3. /\ subscriptions \in SubTable
      /\ mapping \in [Handles -> SubIds \cup {NoSub}]
      /\ deleted \subseteq SubIds /\ callback \in Callbacks
  BY DEF Init, Absent, SubTable, Callbacks
<1>4. /\ client \in {"Disconnected", "Connecting", "Connected", "Closing"}
      /\ session \in {"down", "up", "lost"} /\ asked \subseteq Handles /\ fault \in BOOLEAN
  BY DEF Init
<1> QED
  BY <1>1, <1>2, <1>3, <1>4 DEF TypeOK, SubTable

(* The type invariant of UaCppBackend holds, for any sets and bounds: in   *)
(* particular the answer to a password or error question always finds the  *)
(* connection attempt that has asked.                                      *)
THEOREM UaCppTypeCorrect == Spec => []TypeOK
<1>1. Init => TypeOK /\ QueueInv
  <2> SUFFICES ASSUME Init PROVE TypeOK /\ QueueInv
    OBVIOUS
  <2>1. TypeOK
    BY InitType
  <2>2. QueueInv
    BY DEF Init, QueueInv, AskIsAwaited
  <2> QED
    BY <2>1, <2>2
<1> QED
  BY <1>1, TypeStep, QueueStep, PTL DEF Spec

-----------------------------------------------------------------------------
(* The tables.                                                             *)

(* Every step keeps the invariant of the tables. *)
LEMMA TablesStep == TypeOK /\ QueueInv /\ TablesInv /\ [Next]_vars => TablesInv'
<1> SUFFICES ASSUME TypeOK, QueueInv, TablesInv, [Next]_vars PROVE TablesInv'
  OBVIOUS
<1> USE DEF tables, sdk
<1>q. requests \in Seq(Calls) /\ requests' \in Seq(Calls)
  BY TypeStep DEF TypeOK
<1>c. callback # "none" => session # "up"
  BY DEF TablesInv, CallbackIsBacked
<1>1. CASE Application
  BY <1>1, <1>q, TablesStutter
     DEF Application, ConnectToEndpoint, DisconnectFromEndpoint, EnableMonitoring, DisableMonitoring
<1>2. CASE DeliverState \/ DeliverEnabled
  BY <1>2, <1>q, TablesStutter DEF DeliverState, DeliverEnabled
<1>3. CASE DeliverAsk
  <2>1. events \in Seq(Signals) /\ events # <<>> /\ Head(events).signal = "ask"
    BY <1>3 DEF DeliverAsk, TypeOK
  <2>2. slot.step = "asking"
    BY <2>1 DEF QueueInv, AskIsAwaited
  <2>3. slot \in [step : {"connecting", "asking"}, asks : 0 .. MaxAsks]
    BY <2>2 DEF TypeOK, Slots
  <2>4. slot'.step = "connecting"
    BY <1>3, <2>3 DEF DeliverAsk
  <2> QED
    BY <1>3, <1>q, <2>2, <2>4, TablesStutter DEF DeliverAsk
<1>4. CASE ConnectSlot
  <2>1. slot.step = "idle" /\ slot'.step \in {"closing", "opening"} /\ fault' = fault
        /\ UNCHANGED <<session, callback>>
    BY <1>4 DEF ConnectSlot, Takes, Idle
  <2>2. CASE isConnected
    BY <1>4, <1>q, <1>c, <2>1, <2>2, TablesCleared DEF ConnectSlot
  <2>3. CASE ~isConnected
    <3>1. slot'.step = "opening" /\ UNCHANGED <<subscriptions, mapping, deleted>>
      BY <1>4, <2>3 DEF ConnectSlot
    <3> QED
      BY <1>q, <2>1, <3>1, TablesStutter
  <2> QED
    BY <2>2, <2>3
<1>5. CASE Opens \/ OpensInvalid \/ ConnectAsks \/ ConnectFails
  <2>1. slot.step \in {"opening", "connecting"} /\ slot'.step \in {"connecting", "asking", "idle"}
    BY <1>5 DEF Opens, OpensInvalid, ConnectAsks, ConnectFails, Idle
  <2> QED
    BY <1>5, <1>q, <2>1, TablesStutter DEF Opens, OpensInvalid, ConnectAsks, ConnectFails
<1>15. CASE ConnectSucceeds
  <2>1. /\ slot.step = "connecting" /\ slot'.step = "idle" /\ callback = "none" /\ callback' = "none"
        /\ session' = "up" /\ Alive /\ UNCHANGED <<requests, subscriptions, mapping, deleted, fault>>
    BY <1>15 DEF ConnectSucceeds, Idle
  <2>2. Listed' = Listed
    BY <2>1 DEF Listed
  <2>3. TablesType' /\ SlotIsBacked'
    BY <2>1, <1>q DEF TablesInv, TablesType, SlotIsBacked
  <2>4. CallbackIsBacked' /\ TablesAgree'
    BY <2>1, <2>2 DEF TablesInv, CallbackIsBacked, TablesAgree, Clearing
  <2>5. NoEmptySubscription' /\ LostSessionLeavesNoSubscription'
    BY <2>1 DEF TablesInv, NoEmptySubscription, LostSessionLeavesNoSubscription, Alive
  <2> QED
    BY <2>3, <2>4, <2>5 DEF TablesInv
<1>6. CASE DisconnectSlot
  <2>1. slot'.step = "closing" /\ NoTables /\ UNCHANGED <<session, callback>>
    BY <1>6 DEF DisconnectSlot
  <2> QED
    BY <1>q, <1>c, <2>1, TablesCleared
<1>16. CASE Disconnects
  <2>1. /\ slot.step = "closing" /\ slot'.step \in {"idle", "opening"} /\ callback = "none"
        /\ callback' = "none" /\ session' = "down" /\ Alive
        /\ UNCHANGED <<requests, subscriptions, mapping, deleted, fault>>
    BY <1>16 DEF Disconnects, TypeOK, Slots
  <2>2. Listed = {} /\ Listed' = {} /\ \A h \in Handles : mapping[h] = NoSub
    BY <2>1 DEF TablesInv, SlotIsBacked, Listed
  <2>3. TablesType' /\ SlotIsBacked'
    BY <2>1, <1>q DEF TablesInv, TablesType, SlotIsBacked
  <2>4. CallbackIsBacked' /\ TablesAgree'
    BY <2>1, <2>2 DEF TablesInv, CallbackIsBacked, TablesAgree, Clearing
  <2>5. NoEmptySubscription' /\ LostSessionLeavesNoSubscription'
    BY <2>1, <2>2 DEF TablesInv, NoEmptySubscription, LostSessionLeavesNoSubscription, Listed
  <2> QED
    BY <2>3, <2>4, <2>5 DEF TablesInv
<1>17. CASE UsesDeleted
  BY <1>17, <1>q, TablesFault DEF UsesDeleted
<1>7. CASE EnableSlot \/ EnableCreates \/ EnableLists
  BY <1>7, EnableSlotStep, EnableCreatesStep, EnableListsStep
<1>8. CASE EnableSlotFails
  BY <1>8, <1>q, TablesStutter DEF EnableSlotFails
<1>9. ASSUME NEW good \in BOOLEAN, EnableAdds(good) PROVE TablesInv'
  BY <1>9, EnableAddsStep
<1>10. CASE DisableSlot
  <2> DEFINE h == Head(requests).handle
  <2>1. /\ Takes("disableMonitoring")
        /\ UNCHANGED <<session, callback, subscriptions, mapping, deleted, fault>>
        /\ slot' = IF mapping[h] = NoSub THEN Idle
                   ELSE [step |-> "removing", handle |-> h, sub |-> mapping[h]]
    BY <1>10 DEF DisableSlot
  <2>0. /\ slot.step = "idle" /\ h \in Handles /\ Alive
        /\ Head(requests).name = "disableMonitoring" /\ ~Dangles(Head(requests))
    BY <2>1, TakesCall
  <2>2. slot.step = "idle" /\ h \in Handles /\ mapping[h] \notin deleted /\ Alive
    BY <2>0 DEF Dangles
  <2>3. CASE mapping[h] = NoSub
    BY <1>q, <2>1, <2>2, <2>3, TablesStutter DEF Idle
  <2>4. CASE mapping[h] # NoSub
    <3>1. slot'.step = "removing" /\ slot'.handle = h /\ slot'.sub = mapping[h] /\ mapping[h] \in SubIds
      BY <2>1, <2>2, <2>4 DEF TablesInv, TablesType
    <3>2. Listed' = Listed
      BY <2>1 DEF Listed
    <3>3. TablesType' /\ SlotIsBacked'
      BY <1>q, <2>1, <2>2, <3>1 DEF TablesInv, TablesType, SlotIsBacked
    <3>4. CallbackIsBacked' /\ TablesAgree'
      BY <2>1, <3>2 DEF TablesInv, CallbackIsBacked, TablesAgree
    <3>5. NoEmptySubscription' /\ LostSessionLeavesNoSubscription'
      BY <2>1, <2>2, <3>2 DEF TablesInv, NoEmptySubscription, LostSessionLeavesNoSubscription, Alive
    <3> QED
      BY <3>3, <3>4, <3>5 DEF TablesInv
  <2> QED
    BY <2>3, <2>4
<1>11. CASE DisableRemoves
  BY <1>11, DisableRemovesStep
<1>12. CASE ConnectionLost
  <2>1. /\ session = "up" /\ session' = "lost" /\ callback' = "emit" /\ Alive
        /\ UNCHANGED <<requests, slot, subscriptions, mapping, deleted, fault>>
    BY <1>12 DEF ConnectionLost
  <2>2. callback = "none" /\ deleted = {} /\ Listed' = Listed
    BY <2>1 DEF TablesInv, CallbackIsBacked, Clearing, Listed
  <2>3. TablesType' /\ SlotIsBacked'
    BY <2>1, <2>2 DEF TablesInv, TablesType, SlotIsBacked, Callbacks, Alive
  <2>4. CallbackIsBacked' /\ TablesAgree'
    BY <2>1, <2>2 DEF TablesInv, CallbackIsBacked, TablesAgree, Clearing
  <2>5. NoEmptySubscription' /\ LostSessionLeavesNoSubscription'
    BY <2>1 DEF TablesInv, NoEmptySubscription, LostSessionLeavesNoSubscription, Alive
  <2> QED
    BY <2>3, <2>4, <2>5 DEF TablesInv
<1>18. CASE ReportsLost
  <2>1. /\ callback = "emit" /\ session' # "up" /\ callback' = "deleteAll" /\ Alive
        /\ UNCHANGED <<requests, slot, subscriptions, mapping, deleted, fault>>
    BY <1>18 DEF ReportsLost
  <2>2. deleted = {} /\ session # "up" /\ Listed' = Listed
    BY <2>1 DEF TablesInv, CallbackIsBacked, Clearing, Listed
  <2>3. TablesType' /\ SlotIsBacked'
    BY <2>1, <2>2 DEF TablesInv, TablesType, SlotIsBacked, Callbacks, Alive
  <2>4. CallbackIsBacked' /\ TablesAgree'
    BY <2>1, <2>2 DEF TablesInv, CallbackIsBacked, TablesAgree, Clearing
  <2>5. NoEmptySubscription' /\ LostSessionLeavesNoSubscription'
    BY <2>1 DEF TablesInv, NoEmptySubscription, LostSessionLeavesNoSubscription, Alive
  <2> QED
    BY <2>3, <2>4, <2>5 DEF TablesInv
<1>19. CASE DeletesAll \/ ClearsSubscriptions \/ ClearsMapping
  BY <1>19, DeletesAllStep, ClearsSubscriptionsStep, ClearsMappingStep
<1>13. CASE ProcessEnds
  <2>1. NoTables /\ slot'.step = "idle" /\ callback' = "none"
    BY <1>13 DEF ProcessEnds, Idle
  <2> QED
    BY <1>q, <2>1, TablesCleared
<1>14. CASE UNCHANGED vars
  BY <1>14, <1>q, TablesStutter DEF vars
<1> QED
  BY <1>1, <1>2, <1>3, <1>4, <1>5, <1>6, <1>7, <1>8, <1>9, <1>10, <1>11, <1>12, <1>13, <1>14, <1>15,
     <1>16, <1>17, <1>18, <1>19
     DEF Next, Plugin, Delivery, connectionStatusChanged

(* The invariant of the tables always holds. *)
LEMMA TablesInvariant == Spec => []TablesInv
<1>1. Init => TypeOK /\ QueueInv /\ TablesInv
  <2> SUFFICES ASSUME Init PROVE TypeOK /\ QueueInv /\ TablesInv
    OBVIOUS
  <2>1. TypeOK
    BY InitType
  <2>2. QueueInv
    BY DEF Init, QueueInv, AskIsAwaited
  <2>3. TablesType /\ SlotIsBacked
    BY <2>1 DEF Init, TypeOK, TablesType, SlotIsBacked, Idle, SubTable
  <2>5. Listed = {} /\ \A h \in Handles : mapping[h] = NoSub
    BY DEF Init, Listed, Absent
  <2>4. CallbackIsBacked /\ TablesAgree /\ NoEmptySubscription /\ LostSessionLeavesNoSubscription
    BY <2>5, SubsAssumption DEF Init, CallbackIsBacked, Clearing, TablesAgree, NoEmptySubscription,
                                LostSessionLeavesNoSubscription, Absent
  <2> QED
    BY <2>1, <2>2, <2>3, <2>4 DEF TablesInv
<1> QED
  BY <1>1, TypeStep, QueueStep, TablesStep, PTL DEF Spec

(* m_attributeMapping and the items of m_subscriptions agree at all times  *)
(* about the subscriptions that the SDK's thread is not deleting, whatever *)
(* it clears between two steps of a slot.                                  *)
THEOREM UaCppTablesAgree == Spec => []TablesAgree
<1>1. TablesInv => TablesAgree
  BY DEF TablesInv
<1> QED
  BY <1>1, TablesInvariant, PTL

(* A subscription without items exists only within the slot that is about  *)
(* to fill it.                                                             *)
THEOREM UaCppNoEmptySubscription == Spec => []NoEmptySubscription
<1>1. TablesInv => NoEmptySubscription
  BY DEF TablesInv
<1> QED
  BY <1>1, TablesInvariant, PTL

(* A subscription whose session is lost waits only for the callback or for *)
(* the slot that listed it too late, which take it out of the tables: the  *)
(* next session finds none.                                                *)
THEOREM UaCppLostSessionLeavesNoSubscription == Spec => []LostSessionLeavesNoSubscription
<1>1. TablesInv => LostSessionLeavesNoSubscription
  BY DEF TablesInv
<1> QED
  BY <1>1, TablesInvariant, PTL

-----------------------------------------------------------------------------
(* The contract of the client's state.                                     *)

(* The reports that may follow one another. *)
Follows(a, b) ==
  \/ b = "Disconnected"
  \/ a = "Disconnected" /\ b = "Connecting"
  \/ a = "Connecting" /\ b = "Connected"

IsState(e) == e.signal \in StateSignals

(* The last report up to position k of the queue q is at i; 0 stands for   *)
(* the state that the client has before it takes the first signal.         *)
LastState(q, k, i) == (i = 0 \/ IsState(q[i])) /\ \A j \in (i + 1) .. k : ~IsState(q[j])

At(c, q, i) == IF i = 0 THEN c ELSE q[i].signal

(* From the state c the reports in q follow one another, and the last of   *)
(* them is t.                                                              *)
Legal(c, q, t) ==
  /\ \A k \in 1 .. Len(q) :
       IsState(q[k]) => \E i \in 0 .. (k - 1) : LastState(q, k - 1, i) /\ Follows(At(c, q, i), q[k].signal)
  /\ \E i \in 0 .. Len(q) : LastState(q, Len(q), i) /\ At(c, q, i) = t

Attempt == slot.step \in {"connecting", "asking"}

(* What the plugin has last reported: the SDK's thread reports a loss some *)
(* time after it. *)
Told ==
  CASE Attempt                                             -> "Connecting"
    [] ~Attempt /\ (session = "up" \/ callback = "emit")    -> "Connected"
    [] ~Attempt /\ ~(session = "up" \/ callback = "emit")   -> "Disconnected"

(* What the client has last been told: Closing is its own. *)
Heard == IF client = "Closing" THEN "Connected" ELSE client

(* An attempt is made without a session, and the SDK's thread has to       *)
(* report a loss only as long as the session has not been closed.          *)
SessionInv ==
  /\ slot.step = "opening" \/ Attempt => session = "down"
  /\ callback = "emit" => session = "lost"

ContractInv == Legal(Heard, events, Told) /\ SessionInv

(* A further report. *)
LEMMA LegalReport ==
  ASSUME NEW q \in Seq(Signals), NEW c, NEW t, NEW x \in StateSignals, Legal(c, q, t), Follows(t, x)
  PROVE  Legal(c, Append(q, State(x)), x)
<1> DEFINE r == Append(q, State(x))
<1>1. State(x).signal = x /\ IsState(State(x))
  BY DEF State, IsState
<1>2. /\ Len(q) \in Nat /\ Len(r) = Len(q) + 1 /\ r[Len(q) + 1] = State(x)
      /\ \A i \in 1 .. Len(q) : r[i] = q[i]
  OBVIOUS
<1> HIDE DEF r
<1>3. \A k \in 0 .. Len(q), i \in 0 .. Len(q) : LastState(q, k, i) => LastState(r, k, i)
  BY <1>2 DEF LastState
<1>4. \A i \in 0 .. Len(q) : At(c, r, i) = At(c, q, i)
  BY <1>2 DEF At
<1>5. ASSUME NEW k \in 1 .. Len(r), IsState(r[k])
      PROVE  \E i \in 0 .. (k - 1) : LastState(r, k - 1, i) /\ Follows(At(c, r, i), r[k].signal)
  <2>1. CASE k <= Len(q)
    <3>1. PICK i \in 0 .. (k - 1) : LastState(q, k - 1, i) /\ Follows(At(c, q, i), q[k].signal)
      BY <1>2, <1>5, <2>1 DEF Legal
    <3> QED
      BY <1>2, <1>3, <1>4, <2>1, <3>1
  <2>2. CASE k = Len(q) + 1
    <3>1. PICK i \in 0 .. Len(q) : LastState(q, Len(q), i) /\ At(c, q, i) = t
      BY DEF Legal
    <3>2. LastState(r, k - 1, i) /\ Follows(At(c, r, i), r[k].signal) /\ i \in 0 .. (k - 1)
      BY <1>1, <1>2, <1>3, <1>4, <2>2, <3>1
    <3> QED
      BY <3>2
  <2> QED
    BY <1>2, <2>1, <2>2
<1>6. LastState(r, Len(r), Len(r)) /\ At(c, r, Len(r)) = x /\ Len(r) \in 0 .. Len(r)
  BY <1>1, <1>2 DEF LastState, At
<1> QED
  BY <1>5, <1>6 DEF Legal, r

(* A signal that is not a report. *)
LEMMA LegalOther ==
  ASSUME NEW q \in Seq(Signals), NEW c, NEW t, NEW e \in Signals, ~IsState(e), Legal(c, q, t)
  PROVE  Legal(c, Append(q, e), t)
<1> DEFINE r == Append(q, e)
<1>2. /\ Len(q) \in Nat /\ Len(r) = Len(q) + 1 /\ r[Len(q) + 1] = e
      /\ \A i \in 1 .. Len(q) : r[i] = q[i]
  OBVIOUS
<1> HIDE DEF r
<1>3. \A k \in 0 .. Len(q), i \in 0 .. Len(q) : LastState(q, k, i) => LastState(r, k, i)
  BY <1>2 DEF LastState
<1>4. \A i \in 0 .. Len(q) : At(c, r, i) = At(c, q, i)
  BY <1>2 DEF At
<1>5. ASSUME NEW k \in 1 .. Len(r), IsState(r[k])
      PROVE  \E i \in 0 .. (k - 1) : LastState(r, k - 1, i) /\ Follows(At(c, r, i), r[k].signal)
  <2>1. k <= Len(q)
    BY <1>2, <1>5
  <2>2. PICK i \in 0 .. (k - 1) : LastState(q, k - 1, i) /\ Follows(At(c, q, i), q[k].signal)
    BY <1>2, <1>5, <2>1 DEF Legal
  <2> QED
    BY <1>2, <1>3, <1>4, <2>1, <2>2
<1>6. PICK i \in 0 .. Len(q) : LastState(q, Len(q), i) /\ At(c, q, i) = t
  BY DEF Legal
<1>7. LastState(r, Len(r), i)
  BY <1>2, <1>6 DEF LastState
<1> QED
  BY <1>2, <1>4, <1>5, <1>6, <1>7 DEF Legal, r

(* Taking a report: the client's state may become it. *)
LEMMA LegalTakesReport ==
  ASSUME NEW q \in Seq(Signals), q # <<>>, NEW c, NEW t, IsState(Head(q)), Legal(c, q, t)
  PROVE  Follows(c, Head(q).signal) /\ Legal(Head(q).signal, Tail(q), t)
<1> DEFINE r == Tail(q)
           d == Head(q).signal
<1>1. /\ Len(q) \in Nat \ {0} /\ Len(r) = Len(q) - 1 /\ q[1] = Head(q)
      /\ \A i \in 1 .. Len(r) : r[i] = q[i + 1]
  OBVIOUS
<1>2. IsState(q[1]) /\ d = q[1].signal
  BY <1>1
<1> HIDE DEF r, d
<1>3. Follows(c, d)
  <2>1. PICK i \in 0 .. (1 - 1) : Follows(At(c, q, i), q[1].signal)
    BY <1>1, <1>2 DEF Legal
  <2> QED
    BY <1>2, <2>1 DEF At
<1>4. ASSUME NEW k \in 1 .. Len(q), NEW i \in 0 .. k, LastState(q, k, i)
      PROVE  /\ i # 0 /\ LastState(r, k - 1, i - 1)
             /\ At(d, r, i - 1) = At(c, q, i)
  <2>1. i # 0
    BY <1>2, <1>4 DEF LastState
  <2>2. i - 1 = 0 \/ IsState(r[i - 1])
    BY <1>1, <1>4, <2>1 DEF LastState
  <2>3. \A j \in ((i - 1) + 1) .. (k - 1) : ~IsState(r[j])
    BY <1>1, <1>4, <2>1 DEF LastState
  <2>4. At(d, r, i - 1) = At(c, q, i)
    BY <1>1, <1>2, <1>4, <2>1 DEF At
  <2> QED
    BY <2>1, <2>2, <2>3, <2>4 DEF LastState
<1>5. ASSUME NEW k \in 1 .. Len(r), IsState(r[k])
      PROVE  \E i \in 0 .. (k - 1) : LastState(r, k - 1, i) /\ Follows(At(d, r, i), r[k].signal)
  <2>1. k + 1 \in 1 .. Len(q) /\ k \in 1 .. Len(q) /\ r[k] = q[k + 1]
    BY <1>1
  <2>2. PICK i \in 0 .. k : LastState(q, k, i) /\ Follows(At(c, q, i), q[k + 1].signal)
    BY <1>5, <2>1 DEF Legal
  <2>3. i # 0 /\ LastState(r, k - 1, i - 1) /\ At(d, r, i - 1) = At(c, q, i)
    BY <1>4, <2>1, <2>2
  <2>4. i - 1 \in 0 .. (k - 1)
    BY <2>3
  <2> QED
    BY <2>1, <2>2, <2>3, <2>4
<1>6. \E i \in 0 .. Len(r) : LastState(r, Len(r), i) /\ At(d, r, i) = t
  <2>1. PICK i \in 0 .. Len(q) : LastState(q, Len(q), i) /\ At(c, q, i) = t
    BY DEF Legal
  <2>2. i # 0 /\ LastState(r, Len(q) - 1, i - 1) /\ At(d, r, i - 1) = At(c, q, i)
    BY <1>1, <1>4, <2>1
  <2>3. i - 1 \in 0 .. Len(r)
    BY <1>1, <2>2
  <2> QED
    BY <1>1, <2>1, <2>2, <2>3
<1>7. Legal(d, r, t)
  BY <1>5, <1>6 DEF Legal
<1> QED
  BY <1>3, <1>7 DEF r, d

(* Taking another signal. *)
LEMMA LegalTakesOther ==
  ASSUME NEW q \in Seq(Signals), q # <<>>, NEW c, NEW t, ~IsState(Head(q)), Legal(c, q, t)
  PROVE  Legal(c, Tail(q), t)
<1> DEFINE r == Tail(q)
           Shift(i) == IF i = 0 THEN 0 ELSE i - 1
<1>1. /\ Len(q) \in Nat \ {0} /\ Len(r) = Len(q) - 1 /\ q[1] = Head(q)
      /\ \A i \in 1 .. Len(r) : r[i] = q[i + 1]
  OBVIOUS
<1>2. ~IsState(q[1])
  BY <1>1
<1> HIDE DEF r
<1>4. ASSUME NEW k \in 1 .. Len(q), NEW i \in 0 .. k, LastState(q, k, i)
      PROVE  Shift(i) \in 0 .. (k - 1) /\ LastState(r, k - 1, Shift(i)) /\ At(c, r, Shift(i)) = At(c, q, i)
  <2>1. i # 1
    BY <1>2, <1>4 DEF LastState
  <2>2. CASE i = 0
    BY <1>1, <1>4, <2>2 DEF LastState, At
  <2>3. CASE i # 0
    <3>1. i - 1 \in 1 .. (k - 1) /\ i - 1 \in 1 .. Len(r) /\ r[i - 1] = q[i]
      BY <1>1, <2>1, <2>3
    <3>2. \A j \in ((i - 1) + 1) .. (k - 1) : ~IsState(r[j])
      BY <1>1, <1>4, <2>3 DEF LastState
    <3> QED
      BY <1>4, <2>3, <3>1, <3>2 DEF LastState, At
  <2> QED
    BY <2>2, <2>3
<1> HIDE DEF Shift
<1>5. ASSUME NEW k \in 1 .. Len(r), IsState(r[k])
      PROVE  \E i \in 0 .. (k - 1) : LastState(r, k - 1, i) /\ Follows(At(c, r, i), r[k].signal)
  <2>1. k + 1 \in 1 .. Len(q) /\ k \in 1 .. Len(q) /\ r[k] = q[k + 1]
    BY <1>1
  <2>2. PICK i \in 0 .. k : LastState(q, k, i) /\ Follows(At(c, q, i), q[k + 1].signal)
    BY <1>5, <2>1 DEF Legal
  <2> QED
    BY <1>4, <2>1, <2>2
<1>6. \E i \in 0 .. Len(r) : LastState(r, Len(r), i) /\ At(c, r, i) = t
  <2>1. PICK i \in 0 .. Len(q) : LastState(q, Len(q), i) /\ At(c, q, i) = t
    BY DEF Legal
  <2> QED
    BY <1>1, <1>4, <2>1
<1> QED
  BY <1>5, <1>6 DEF Legal, r

(* One or two reports of a session that is closed. *)
LEMMA LegalReports ==
  ASSUME NEW q \in Seq(Signals), NEW c, NEW t, NEW s \in DisconnectSignals, Legal(c, q, t)
  PROVE  Legal(c, q \o s, "Disconnected")
<1> DEFINE D == State("Disconnected")
<1>1. "Disconnected" \in StateSignals /\ D \in Signals
  BY StateIsPlain DEF StateSignals
<1>2. Follows(t, "Disconnected") /\ Follows("Disconnected", "Disconnected")
  BY DEF Follows
<1>3. Append(q, D) \in Seq(Signals) /\ Legal(c, Append(q, D), "Disconnected")
  BY <1>1, <1>2, LegalReport
<1>4. Legal(c, Append(Append(q, D), D), "Disconnected")
  <2>1. ASSUME NEW p \in Seq(Signals), Legal(c, p, "Disconnected")
        PROVE  Legal(c, Append(p, D), "Disconnected")
    BY <1>1, <1>2, <2>1, LegalReport
  <2> HIDE DEF D
  <2> QED
    BY <1>3, <2>1
<1>5. s = <<D>> \/ s = <<D, D>>
  BY DEF DisconnectSignals
<1> HIDE DEF D
<1>6. q \o s = Append(q, D) \/ q \o s = Append(Append(q, D), D)
  <2>1. CASE s = <<D>>
    BY <1>1, <2>1
  <2>2. CASE s = <<D, D>>
    <3>1. q \o <<D, D>> = Append(Append(q, D), D)
      BY <1>1
    <3> QED
      BY <2>2, <3>1
  <2> QED
    BY <1>5, <2>1, <2>2
<1> QED
  BY <1>3, <1>4, <1>6

(* Every step keeps the reports in order. *)
LEMMA ContractStep ==
  TypeOK /\ QueueInv /\ ContractInv /\ [Next]_vars => ContractInv'
<1> SUFFICES ASSUME TypeOK, QueueInv, ContractInv, [Next]_vars PROVE ContractInv'
  OBVIOUS
<1> USE DEF sdk
<1>q. events \in Seq(Signals)
  BY DEF TypeOK
<1>x. {"Connecting", "Connected", "Disconnected"} \subseteq StateSignals
  BY DEF StateSignals
<1>l. Legal(Heard, events, Told) /\ SessionInv
  BY DEF ContractInv
<1>u. ASSUME UNCHANGED events, Heard' = Heard, Told' = Told, SessionInv'
      PROVE  ContractInv'
  BY <1>u, <1>l DEF ContractInv
<1>o. ASSUME NEW e \in Signals, ~IsState(e), Emit(<<e>>), UNCHANGED client, Told' = Told, SessionInv'
      PROVE  ContractInv'
  <2>1. events' = Append(events, e) /\ Heard' = Heard
    BY <1>o, <1>q DEF Emit, Heard
  <2> QED
    BY <1>o, <1>q, <1>l, <2>1, LegalOther DEF ContractInv
<1>r. ASSUME NEW x \in StateSignals, Emit(<<State(x)>>), Follows(Told, x), UNCHANGED client, Told' = x,
             SessionInv'
      PROVE  ContractInv'
  <2>0. State(x) \in Signals
    BY StateIsPlain
  <2>1. events' = Append(events, State(x)) /\ Heard' = Heard
    BY <1>r, <1>q, <2>0 DEF Emit, Heard
  <2> QED
    BY <1>r, <1>q, <1>l, <2>1, LegalReport DEF ContractInv
<1>s. ASSUME UNCHANGED sdk, slot.step \notin {"opening", "connecting", "asking"},
             slot'.step \notin {"opening", "connecting", "asking"}
      PROVE  Told' = Told /\ SessionInv'
  BY <1>s, <1>l DEF Told, Attempt, SessionInv
<1>1. CASE Application
  <2>1. UNCHANGED <<events, slot, sdk>> /\ Heard' = Heard
    BY <1>1 DEF Application, ConnectToEndpoint, DisconnectFromEndpoint, EnableMonitoring,
                DisableMonitoring, Heard, Contract!Close
  <2> QED
    BY <1>u, <1>l, <2>1 DEF Told, Attempt, SessionInv
<1>2. CASE DeliverState
  <2>1. /\ events # <<>> /\ IsState(Head(events)) /\ events' = Tail(events)
        /\ client' = Head(events).signal /\ UNCHANGED <<slot, sdk>>
    BY <1>2 DEF DeliverState, IsState
  <2>2. Heard' = client'
    BY <2>1 DEF Heard, IsState, StateSignals
  <2>3. Told' = Told /\ SessionInv'
    BY <1>l, <2>1 DEF Told, Attempt, SessionInv
  <2> QED
    BY <1>q, <1>l, <2>1, <2>2, <2>3, LegalTakesReport DEF ContractInv
<1>3. CASE DeliverAsk \/ DeliverEnabled
  <2>1. /\ events # <<>> /\ ~IsState(Head(events)) /\ events' = Tail(events)
        /\ UNCHANGED <<client, sdk>>
    BY <1>3 DEF DeliverAsk, DeliverEnabled, IsState, StateSignals
  <2>2. slot' = slot \/ (slot.step = "asking" /\ slot'.step = "connecting")
    <3>1. CASE DeliverEnabled
      BY <3>1 DEF DeliverEnabled
    <3>2. CASE DeliverAsk
      <4>1. slot.step = "asking"
        BY <1>q, <2>1, <3>2 DEF DeliverAsk, QueueInv, AskIsAwaited
      <4>2. slot \in [step : {"connecting", "asking"}, asks : 0 .. MaxAsks]
        BY <4>1 DEF TypeOK, Slots
      <4> QED
        BY <3>2, <4>1, <4>2 DEF DeliverAsk
    <3> QED
      BY <1>3, <3>1, <3>2
  <2>3. Heard' = Heard /\ Told' = Told /\ SessionInv'
    BY <1>l, <2>1, <2>2 DEF Heard, Told, Attempt, SessionInv
  <2> QED
    BY <1>q, <1>l, <2>1, <2>3, LegalTakesOther DEF ContractInv
<1>4. CASE ConnectSlot
  <2>1. /\ slot.step = "idle" /\ UNCHANGED <<client, events, sdk>>
        /\ IF isConnected THEN slot'.step = "closing" ELSE slot'.step = "opening"
    BY <1>4 DEF ConnectSlot, Takes, Idle
  <2>2. session \in {"down", "up", "lost"}
    BY DEF TypeOK
  <2>3. Told' = Told /\ SessionInv'
    BY <1>l, <2>1, <2>2 DEF Told, Attempt, SessionInv, isConnected
  <2>4. Heard' = Heard
    BY <2>1 DEF Heard
  <2> QED
    BY <1>u, <2>1, <2>3, <2>4
<1>16. CASE Opens
  <2>1. /\ slot.step = "opening" /\ slot'.step = "connecting" /\ Emit(<<State("Connecting")>>)
        /\ UNCHANGED <<client, sdk>>
    BY <1>16 DEF Opens
  <2>2. session = "down" /\ callback # "emit"
    BY <1>l, <2>1 DEF SessionInv
  <2>3. Told = "Disconnected" /\ Told' = "Connecting" /\ SessionInv'
    BY <2>1, <2>2 DEF Told, Attempt, SessionInv
  <2> QED
    BY <1>r, <1>x, <2>1, <2>3 DEF Follows
<1>17. CASE OpensInvalid \/ ConnectFails
  <2>1. /\ slot.step \in {"opening", "connecting"} /\ slot'.step = "idle"
        /\ Emit(<<State("Disconnected")>>) /\ UNCHANGED <<client, sdk>>
    BY <1>17 DEF OpensInvalid, ConnectFails, Idle
  <2>2. session = "down" /\ callback # "emit"
    BY <1>l, <2>1 DEF SessionInv, Attempt
  <2>3. Told' = "Disconnected" /\ SessionInv'
    BY <2>1, <2>2 DEF Told, Attempt, SessionInv
  <2> QED
    BY <1>r, <1>x, <2>1, <2>3 DEF Follows
<1>5. CASE ConnectAsks
  <2> DEFINE a == [signal |-> "ask"]
  <2>1. a \in Signals /\ ~IsState(a)
    BY DEF Signals, IsState, StateSignals
  <2>2. /\ slot.step = "connecting" /\ slot'.step = "asking" /\ Emit(<<a>>)
        /\ UNCHANGED <<client, sdk>>
    BY <1>5 DEF ConnectAsks
  <2>3. Told' = Told /\ SessionInv'
    BY <1>l, <2>2 DEF Told, Attempt, SessionInv
  <2> HIDE DEF a
  <2> QED
    BY <1>o, <2>1, <2>2, <2>3
<1>7. CASE ConnectSucceeds
  <2>1. /\ slot.step = "connecting" /\ slot'.step = "idle" /\ Emit(<<State("Connected")>>)
        /\ callback' = "none" /\ session' = "up" /\ client' = client
    BY <1>7 DEF ConnectSucceeds, Idle
  <2>2. Told = "Connecting" /\ Told' = "Connected" /\ SessionInv'
    BY <2>1 DEF Told, Attempt, SessionInv
  <2> QED
    BY <1>r, <1>x, <2>1, <2>2 DEF Follows
<1>8. CASE Disconnects
  <2>1. /\ slot'.step \in {"idle", "opening"} /\ session' = "down" /\ callback' = "none"
        /\ client' = client
    BY <1>8 DEF Disconnects, TypeOK, Slots
  <2>2. PICK s \in DisconnectSignals : events' = events \o s
    BY <1>8 DEF Disconnects, Emit
  <2>3. Told' = "Disconnected" /\ SessionInv' /\ Heard' = Heard
    BY <2>1 DEF Told, Attempt, SessionInv, Heard
  <2>4. Legal(Heard, events \o s, "Disconnected")
    BY <1>q, <1>l, LegalReports
  <2> QED
    BY <2>2, <2>3, <2>4 DEF ContractInv
<1>9. CASE UsesDeleted \/ DisconnectSlot \/ EnableSlot \/ EnableCreates \/ EnableLists \/ DisableSlot
           \/ DisableRemoves
  <2>1. /\ UNCHANGED <<events, client, sdk>>
        /\ slot.step \notin {"opening", "connecting", "asking"}
        /\ slot'.step \notin {"opening", "connecting", "asking"}
    BY <1>9 DEF UsesDeleted, DisconnectSlot, EnableSlot, EnableCreates, EnableLists, DisableSlot,
                DisableRemoves, Takes, Idle
  <2> QED
    BY <1>u, <1>s, <2>1 DEF Heard
<1>10. ASSUME NEW h \in Handles, Emit(<<[signal |-> "enabled", handle |-> h]>>),
              UNCHANGED <<client, sdk>>, slot.step \notin {"opening", "connecting", "asking"},
              slot'.step \notin {"opening", "connecting", "asking"}
       PROVE  ContractInv'
  <2> DEFINE e == [signal |-> "enabled", handle |-> h]
  <2>1. e \in Signals /\ ~IsState(e)
    BY DEF Signals, IsState, StateSignals
  <2>2. Told' = Told /\ SessionInv'
    BY <1>10, <1>s
  <2>3. Emit(<<e>>)
    BY <1>10
  <2> HIDE DEF e
  <2> QED
    BY <1>o, <1>10, <2>1, <2>2, <2>3
<1>11. CASE EnableSlotFails
  <2>1. /\ Head(requests) \in Calls /\ Head(requests).name = "enableMonitoring"
        /\ slot.step = "idle" /\ slot' = slot
    BY <1>11, QueueElements DEF EnableSlotFails, Takes, TypeOK, Idle
  <2>2. Head(requests).handle \in Handles
    BY <2>1 DEF Calls
  <2> QED
    BY <1>11, <1>10, <2>1, <2>2 DEF EnableSlotFails
<1>12. ASSUME NEW good \in BOOLEAN, EnableAdds(good) PROVE ContractInv'
  <2>1. slot.step = "adding" /\ slot.handle \in Handles /\ slot'.step = "idle"
    BY <1>12 DEF EnableAdds, TypeOK, Slots, Idle
  <2> QED
    BY <1>12, <1>10, <2>1 DEF EnableAdds
<1>13. CASE ConnectionLost
  <2>1. /\ session = "up" /\ session' = "lost" /\ callback' = "emit" /\ slot' = slot
        /\ UNCHANGED <<client, events>>
    BY <1>13 DEF ConnectionLost
  <2>2. Told' = Told /\ SessionInv' /\ Heard' = Heard
    BY <1>l, <2>1 DEF Told, Attempt, SessionInv, Heard
  <2> QED
    BY <1>u, <2>1, <2>2
<1>18. CASE ReportsLost
  <2>1. /\ callback = "emit" /\ callback' = "deleteAll" /\ session' \in {"lost", "down"}
        /\ Emit(<<State("Disconnected")>>) /\ slot' = slot /\ client' = client
    BY <1>18 DEF ReportsLost
  <2>2. slot.step # "opening" /\ ~Attempt
    BY <1>l, <2>1 DEF SessionInv
  <2>3. Told' = "Disconnected" /\ SessionInv'
    BY <2>1, <2>2 DEF Told, Attempt, SessionInv
  <2> QED
    BY <1>r, <1>x, <2>1, <2>3 DEF Follows
<1>19. CASE DeletesAll \/ ClearsSubscriptions \/ ClearsMapping
  <2>1. /\ callback # "emit" /\ callback' # "emit" /\ UNCHANGED <<client, events, slot, session>>
    BY <1>19 DEF DeletesAll, ClearsSubscriptions, ClearsMapping
  <2>2. Told' = Told /\ SessionInv' /\ Heard' = Heard
    BY <1>l, <2>1 DEF Told, Attempt, SessionInv, Heard
  <2> QED
    BY <1>u, <2>1, <2>2
<1>14. CASE ProcessEnds
  <2>1. /\ events' = <<>> /\ slot'.step = "idle" /\ session' = "down" /\ callback' = "none"
        /\ client' = "Disconnected"
    BY <1>14 DEF ProcessEnds, Idle
  <2>2. Told' = "Disconnected" /\ Heard' = "Disconnected" /\ SessionInv'
    BY <2>1 DEF Told, Attempt, Heard, SessionInv
  <2> QED
    BY <2>1, <2>2 DEF ContractInv, Legal, LastState, At
<1>15. CASE UNCHANGED vars
  BY <1>15, <1>u, <1>l DEF vars, Told, Attempt, Heard, SessionInv
<1> QED
  BY <1>1, <1>2, <1>3, <1>4, <1>5, <1>7, <1>8, <1>9, <1>11, <1>12, <1>13, <1>14, <1>15, <1>16,
     <1>17, <1>18, <1>19
     DEF Next, Plugin, Delivery, connectionStatusChanged

(* Every step of the client's state is one of the contract, or none. *)
LEMMA ContractSteps ==
  TypeOK /\ ContractInv /\ [Next]_vars => [Contract!Next]_client
<1> SUFFICES ASSUME TypeOK, ContractInv, [Next]_vars PROVE [Contract!Next]_client
  OBVIOUS
<1>1. CASE DisconnectFromEndpoint
  BY <1>1 DEF DisconnectFromEndpoint, Contract!Next
<1>2. CASE DeliverState
  <2>1. events \in Seq(Signals) /\ events # <<>> /\ IsState(Head(events)) /\ client' = Head(events).signal
    BY <1>2 DEF DeliverState, IsState, TypeOK
  <2>2. Follows(Heard, client') /\ client' \in StateSignals
    BY <2>1, LegalTakesReport DEF ContractInv, IsState
  <2> QED
    BY <2>2 DEF TypeOK, Follows, Heard, StateSignals, Contract!Next, Contract!Connect,
                Contract!Resolve, Contract!Lose, Contract!Closed
<1>3. CASE ProcessEnds
  BY <1>3 DEF ProcessEnds, TypeOK, Contract!Next, Contract!Resolve, Contract!Lose, Contract!Closed
<1>4. CASE ~DisconnectFromEndpoint /\ ~DeliverState /\ ~ProcessEnds
  <2>1. client' = client
    BY <1>4 DEF Next, vars, Application, Delivery, Plugin, ConnectToEndpoint, EnableMonitoring,
                DisableMonitoring, DeliverAsk, DeliverEnabled, UsesDeleted, ConnectSlot, Opens,
                OpensInvalid, ConnectAsks, ConnectFails, ConnectSucceeds, DisconnectSlot, Disconnects,
                EnableSlot, EnableCreates, EnableLists, EnableSlotFails, EnableAdds, DisableSlot,
                DisableRemoves, ConnectionLost, connectionStatusChanged, ReportsLost, DeletesAll,
                ClearsSubscriptions, ClearsMapping
  <2> QED
    BY <2>1
<1> QED
  BY <1>1, <1>2, <1>3, <1>4

(* Over the Unified Automation plugin, too, the state of QOpcUaClient      *)
(* keeps the safety part of ClientContract: the reports of two threads     *)
(* reach the application in an order that the contract allows.             *)
THEOREM UaCppRefinement == Spec => ImplementsContract
<1>1. Init => TypeOK /\ QueueInv /\ ContractInv /\ Contract!Init
  <2> SUFFICES ASSUME Init PROVE TypeOK /\ QueueInv /\ ContractInv /\ Contract!Init
    OBVIOUS
  <2>1. QueueInv /\ Contract!Init
    BY DEF Init, QueueInv, AskIsAwaited, Contract!Init
  <2>2. /\ events = <<>> /\ Told = "Disconnected" /\ Heard = "Disconnected" /\ slot.step = "idle"
        /\ SessionInv
    BY DEF Init, Told, Heard, Idle, Attempt, SessionInv
  <2>3. ContractInv
    BY <2>2 DEF ContractInv, Legal, LastState, At
  <2> QED
    BY <2>1, <2>3, InitType
<1> QED
  BY <1>1, TypeStep, QueueStep, ContractStep, ContractSteps, PTL DEF Spec, ImplementsContract, Contract!Safety
=============================================================================
