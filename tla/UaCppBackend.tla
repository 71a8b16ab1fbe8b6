----------------------------- MODULE UaCppBackend -----------------------------
(***************************************************************************)
(* The Unified Automation plugin: UACppAsyncBackend under QOpcUaClient.    *)
(*                                                                         *)
(* Three threads take part.  The application's thread runs QOpcUaClient:   *)
(* it posts calls to the plugin's thread (`requests') and takes signals    *)
(* from its event queue (`events').  The plugin's thread runs one slot at  *)
(* a time, and each slot calls the SDK synchronously (`slot').  The SDK's  *)
(* own thread reports a lost connection and then clears the plugin's       *)
(* tables (`callback'), statement by statement, whatever the plugin's      *)
(* thread is doing.  A slot is one step from one call of the SDK to the    *)
(* next.                                                                   *)
(*                                                                         *)
(* The SDK is not part of the repository.  It is taken to make one         *)
(* callback at a time: connect() and disconnect() return after their own   *)
(* and after one that is running.  isConnected() turns false in            *)
(* connectionStatusChanged(Disconnected) or in disconnect().               *)
(***************************************************************************)
EXTENDS Naturals, FiniteSets, Sequences

CONSTANTS
  Handles,      \* one monitored attribute of each of these nodes
  SubIds,       \* subscription ids the server can assign
  NoSub,        \* no subscription
  MaxRequests,  \* bound: calls that wait for the plugin's thread
  MaxEvents,    \* bound: signals the application leaves waiting when it calls
  MaxAsks       \* bound: questions of one connection attempt

ASSUME SubsAssumption == NoSub \notin SubIds

ASSUME BoundsAssumption == {MaxRequests, MaxEvents} \subseteq Nat \ {0} /\ MaxAsks \in Nat

VARIABLES
  client,         \* QOpcUaClient::state()
  requests,       \* queued calls to the plugin's thread
  events,         \* queued signals to the application's thread
  slot,           \* the slot that the plugin's thread is in
  session,        \* external: the SDK's session
  callback,       \* the next statement of the SDK's thread
  subscriptions,  \* m_subscriptions, with the items of each
  mapping,        \* m_attributeMapping
  deleted,        \* subscriptions that are deleted and still in a table
  asked,          \* nodes that wait for enableMonitoringFinished
  fault           \* a deleted subscription was used

vars == <<client, requests, events, slot, session, callback, subscriptions, mapping, deleted,
          asked, fault>>

sdk == <<session, callback>>

tables == <<subscriptions, mapping, deleted>>

(* The abstract specification, and how this module's state maps to it. *)
Contract == INSTANCE ClientContract WITH state <- client

Call(name, h, shared) == [name |-> name, handle |-> h, shared |-> shared]

Calls ==
  [name : {"connectToEndpoint", "disconnectFromEndpoint"}, handle : {NoSub}, shared : {FALSE}]
    \cup [name : {"enableMonitoring", "disableMonitoring"}, handle : Handles, shared : BOOLEAN]

StateSignals == {"Connecting", "Connected", "Disconnected"}

Signals ==
  [signal : StateSignals \cup {"ask"}]
    \cup [signal : {"enabled"}, handle : Handles]

(* "idle", or in the middle of a slot: disconnecting for another           *)
(* connection or for good, connecting, or with a subscription that is      *)
(* created, gets an item or loses one.                                     *)
Slots ==
  [step : {"idle", "opening"}]
    \cup [step : {"closing"}, then : {"idle", "opening"}]
    \cup [step : {"connecting", "asking"}, asks : 0 .. MaxAsks]
    \cup [step : {"creating"}, handle : Handles, sub : SubIds, shared : BOOLEAN]
    \cup [step : {"adding", "removing"}, handle : Handles, sub : SubIds]

Callbacks == {"none", "emit", "deleteAll", "clearSubscriptions", "clearMapping"}

Idle == [step |-> "idle"]

Absent == [live |-> FALSE, shared |-> FALSE, items |-> {}]

Listed == {s \in SubIds : subscriptions[s].live}

(* The whole of cleanupSubscriptions(). *)
NoTables ==
  /\ subscriptions' = [s \in SubIds |-> Absent]
  /\ mapping' = [h \in Handles |-> NoSub]
  /\ deleted' = {}

Init ==
  /\ client = "Disconnected"
  /\ requests = <<>>
  /\ events = <<>>
  /\ slot = Idle
  /\ session = "down"
  /\ callback = "none"
  /\ subscriptions = [s \in SubIds |-> Absent]
  /\ mapping = [h \in Handles |-> NoSub]
  /\ deleted = {}
  /\ asked = {}
  /\ fault = FALSE

Alive == ~fault

Emit(signals) == events' = events \o signals

State(s) == [signal |-> s]

-----------------------------------------------------------------------------
(* The application: QOpcUaClient posts a call.                             *)

Post(call) ==
  /\ Len(requests) < MaxRequests
  /\ Len(events) < MaxEvents
  /\ requests' = Append(requests, call)

(* Refused unless Disconnected; the state does not change yet. *)
ConnectToEndpoint ==
  /\ Alive
  /\ client = "Disconnected"
  /\ Post(Call("connectToEndpoint", NoSub, FALSE))
  /\ UNCHANGED <<client, events, slot, sdk, tables, asked, fault>>

DisconnectFromEndpoint ==
  /\ Alive
  /\ Contract!Close
  /\ Post(Call("disconnectFromEndpoint", NoSub, FALSE))
  /\ UNCHANGED <<events, slot, sdk, tables, asked, fault>>

(* The application waits for the answer before it asks again. *)
EnableMonitoring(h, shared) ==
  /\ Alive
  /\ client = "Connected"
  /\ h \notin asked
  /\ Post(Call("enableMonitoring", h, shared))
  /\ asked' = asked \cup {h}
  /\ UNCHANGED <<client, events, slot, sdk, tables, fault>>

DisableMonitoring(h) ==
  /\ Alive
  /\ client = "Connected"
  /\ Post(Call("disableMonitoring", h, FALSE))
  /\ UNCHANGED <<client, events, slot, sdk, tables, asked, fault>>

(* stateAndOrErrorChanged: setStateAndError(). *)
DeliverState ==
  /\ Alive
  /\ events # <<>>
  /\ Head(events).signal \in StateSignals
  /\ events' = Tail(events)
  /\ client' = Head(events).signal
  /\ UNCHANGED <<requests, slot, sdk, tables, asked, fault>>

(* passwordForPrivateKeyRequired or connectError: the plugin's thread has  *)
(* waited for the slots of the application.                                *)
DeliverAsk ==
  /\ Alive
  /\ events # <<>>
  /\ Head(events).signal = "ask"
  /\ events' = Tail(events)
  /\ slot' = [slot EXCEPT !.step = "connecting"]
  /\ UNCHANGED <<client, requests, sdk, tables, asked, fault>>

DeliverEnabled ==
  /\ Alive
  /\ events # <<>>
  /\ Head(events).signal = "enabled"
  /\ events' = Tail(events)
  /\ asked' = asked \ {Head(events).handle}
  /\ UNCHANGED <<client, requests, slot, sdk, tables, fault>>

-----------------------------------------------------------------------------
(* The plugin's thread.                                                    *)

(* SDK: true until disconnect() or connectionStatusChanged(Disconnected),  *)
(* also while ConnectionErrorApiReconnect is reported and after it.        *)
isConnected == session # "down"

(* What a slot does with the head of `requests' uses a subscription that   *)
(* the SDK's thread has deleted and not yet taken out of the tables.       *)
Dangles(call) ==
  \/ call.name = "disableMonitoring" /\ mapping[call.handle] \in deleted
  \/ /\ Listed \cap deleted # {}
     /\ \/ call.name = "enableMonitoring" /\ call.shared
        \/ call.name = "disconnectFromEndpoint"
        \/ call.name = "connectToEndpoint" /\ isConnected

UsesDeleted ==
  /\ Alive
  /\ slot = Idle
  /\ requests # <<>>
  /\ Dangles(Head(requests))
  /\ fault' = TRUE
  /\ UNCHANGED <<client, requests, events, slot, sdk, tables, asked>>

Takes(name) ==
  /\ Alive
  /\ slot = Idle
  /\ requests # <<>>
  /\ Head(requests).name = name
  /\ ~Dangles(Head(requests))
  /\ requests' = Tail(requests)

(* disconnect() may call connectionStatusChanged first, and a failure      *)
(* changes only the error that is reported.                                *)
DisconnectSignals ==
  {<<State("Disconnected")>>} \cup
    (IF isConnected THEN {<<State("Disconnected"), State("Disconnected")>>} ELSE {})

MutConnectSlot ==
  /\ Takes("connectToEndpoint")
  /\ slot' = [step |-> "opening"]
  /\ UNCHANGED <<client, events, sdk, tables, asked, fault>>

(* connectToEndpoint(), which disconnects first unless there is no session. *)
ConnectSlot ==
  /\ Takes("connectToEndpoint")
  /\ IF isConnected
     THEN slot' = [step |-> "closing", then |-> "opening"] /\ NoTables
     ELSE slot' = [step |-> "opening"] /\ UNCHANGED tables
  /\ UNCHANGED <<client, events, sdk, asked, fault>>

(* The endpoint description is usable. *)
Opens ==
  /\ Alive
  /\ slot.step = "opening"
  /\ slot' = [step |-> "connecting", asks |-> 0]
  /\ Emit(<<State("Connecting")>>)
  /\ UNCHANGED <<client, requests, sdk, tables, asked, fault>>

(* InvalidUrl. *)
OpensInvalid ==
  /\ Alive
  /\ slot.step = "opening"
  /\ slot' = Idle
  /\ Emit(<<State("Disconnected")>>)
  /\ UNCHANGED <<client, requests, sdk, tables, asked, fault>>

(* The private key has a password, or connect() meets an error. *)
ConnectAsks ==
  /\ Alive
  /\ slot.step = "connecting"
  /\ slot.asks < MaxAsks
  /\ slot' = [step |-> "asking", asks |-> slot.asks + 1]
  /\ Emit(<<[signal |-> "ask"]>>)
  /\ UNCHANGED <<client, requests, sdk, tables, asked, fault>>

MutConnectFails ==
  /\ Alive
  /\ slot.step = "connecting"
  /\ slot' = [slot EXCEPT !.asks = 0]
  /\ UNCHANGED <<client, requests, events, sdk, tables, asked, fault>>

(* PKI, certificate, key, authentication or connect() fails. *)
ConnectFails ==
  /\ Alive
  /\ slot.step = "connecting"
  /\ slot' = Idle
  /\ Emit(<<State("Disconnected")>>)
  /\ UNCHANGED <<client, requests, sdk, tables, asked, fault>>

(* connectionStatusChanged(Connected) from within connect(). *)
ConnectSucceeds ==
  /\ Alive
  /\ slot.step = "connecting"
  /\ callback = "none"
  /\ slot' = Idle
  /\ session' = "up"
  /\ Emit(<<State("Connected")>>)
  /\ UNCHANGED <<client, requests, callback, tables, asked, fault>>

(* disconnectFromEndpoint() up to the call of disconnect(). *)
DisconnectSlot ==
  /\ Takes("disconnectFromEndpoint")
  /\ slot' = [step |-> "closing", then |-> "idle"]
  /\ NoTables
  /\ UNCHANGED <<client, events, sdk, asked, fault>>

(* disconnect() returns. *)
Disconnects ==
  /\ Alive
  /\ slot.step = "closing"
  /\ callback = "none"
  /\ slot' = [step |-> slot.then]
  /\ \E s \in DisconnectSignals : Emit(s)
  /\ session' = "down"
  /\ UNCHANGED <<client, requests, callback, tables, asked, fault>>

(* enableMonitoring() with a shared subscription that getSubscription()    *)
(* finds.                                                                  *)
SharedSubs == {s \in Listed : subscriptions[s].shared}

NeedsNew(call) == ~call.shared \/ SharedSubs = {}

EnableSlot ==
  /\ Takes("enableMonitoring")
  /\ LET call == Head(requests)
     IN /\ ~NeedsNew(call)
        /\ \E s \in SharedSubs :
             slot' = [step |-> "adding", handle |-> call.handle, sub |-> s]
  /\ UNCHANGED <<client, events, sdk, tables, asked, fault>>

(* createOnServer() returns the id of a new one. *)
EnableCreates ==
  /\ Takes("enableMonitoring")
  /\ session = "up"
  /\ LET call == Head(requests)
     IN /\ NeedsNew(call)
        /\ \E s \in SubIds \ Listed :
             slot' = [step |-> "creating", handle |-> call.handle, sub |-> s,
                      shared |-> call.shared]
  /\ UNCHANGED <<client, events, sdk, tables, asked, fault>>

(* The end of getSubscription(): the session may be gone by now. *)
EnableLists ==
  /\ Alive
  /\ slot.step = "creating"
  /\ subscriptions' =
       [subscriptions EXCEPT ![slot.sub] = [live |-> TRUE, shared |-> slot.shared, items |-> {}]]
  /\ slot' = [step |-> "adding", handle |-> slot.handle, sub |-> slot.sub]
  /\ UNCHANGED <<client, requests, events, sdk, mapping, deleted, asked, fault>>

MutEnableSlotFails ==
  /\ Takes("enableMonitoring")
  /\ NeedsNew(Head(requests))
  /\ UNCHANGED <<client, events, slot, sdk, tables, asked, fault>>

(* createOnServer() fails: BadSubscriptionIdInvalid. *)
EnableSlotFails ==
  /\ Takes("enableMonitoring")
  /\ NeedsNew(Head(requests))
  /\ Emit(<<[signal |-> "enabled", handle |-> Head(requests).handle]>>)
  /\ UNCHANGED <<client, slot, sdk, tables, asked, fault>>

MutRemoveIfUnused(subs, s) == subs

(* removeSubscription() when no item is left. *)
RemoveIfUnused(subs, s) ==
  IF subs[s].items = {} THEN [subs EXCEPT ![s] = Absent] ELSE subs

(* addAttributeMonitoredItem() with the SDK's answer, unless there is an   *)
(* item (BadEntryExists), and the end of enableMonitoring().  A good       *)
(* answer may have come before a loss that is being reported.              *)
EnableAdds(good) ==
  /\ Alive
  /\ slot.step = "adding"
  /\ good => session = "up" \/ callback \in {"emit", "deleteAll"}
  /\ LET h == slot.handle
         s == slot.sub
         new == good /\ mapping[h] = NoSub
     IN /\ mapping' = IF new THEN [mapping EXCEPT ![h] = s] ELSE mapping
        /\ subscriptions' =
             RemoveIfUnused(IF new THEN [subscriptions EXCEPT ![s].items = @ \cup {h}]
                            ELSE subscriptions, s)
        /\ Emit(<<[signal |-> "enabled", handle |-> h]>>)
  /\ slot' = Idle
  /\ UNCHANGED <<client, requests, sdk, deleted, asked, fault>>

MutDisableSlot ==
  /\ Takes("disableMonitoring")
  /\ LET h == Head(requests).handle
     IN slot' = [step |-> "removing", handle |-> h, sub |-> mapping[h]]
  /\ UNCHANGED <<client, events, sdk, tables, asked, fault>>

(* disableMonitoring() up to the use of the subscription. *)
DisableSlot ==
  /\ Takes("disableMonitoring")
  /\ LET h == Head(requests).handle
     IN slot' = IF mapping[h] = NoSub THEN Idle
                ELSE [step |-> "removing", handle |-> h, sub |-> mapping[h]]
  /\ UNCHANGED <<client, events, sdk, tables, asked, fault>>

MutDisableRemoves ==
  /\ Alive
  /\ slot.step = "removing"
  /\ subscriptions' = RemoveIfUnused([subscriptions EXCEPT ![slot.sub].items = @ \ {slot.handle}],
                                     slot.sub)
  /\ slot' = Idle
  /\ UNCHANGED <<client, requests, events, sdk, mapping, deleted, asked, fault>>

(* removeAttributeMonitoredItem(): an item that cannot be removed is       *)
(* forgotten all the same.  The signal changes nothing that is modelled.   *)
DisableRemoves ==
  /\ Alive
  /\ slot.step = "removing"
  /\ mapping' = [mapping EXCEPT ![slot.handle] = NoSub]
  /\ subscriptions' = RemoveIfUnused([subscriptions EXCEPT ![slot.sub].items = @ \ {slot.handle}],
                                     slot.sub)
  /\ slot' = Idle
  /\ UNCHANGED <<client, requests, events, sdk, deleted, asked, fault>>

-----------------------------------------------------------------------------
(* The SDK's thread.                                                       *)

(* The connection is lost: connectionStatusChanged() is called. *)
ConnectionLost ==
  /\ Alive
  /\ session = "up"
  /\ session' = "lost"
  /\ callback' = "emit"
  /\ UNCHANGED <<client, requests, events, slot, tables, asked, fault>>

MutReportsLost ==
  /\ Alive
  /\ callback = "emit"
  /\ session' \in {"lost", "down"}
  /\ Emit(<<State("Disconnected")>>)
  /\ callback' = IF session' = "down" THEN "deleteAll" ELSE "none"
  /\ UNCHANGED <<client, requests, slot, tables, asked, fault>>

(* ConnectionErrorApiReconnect, or Disconnected. *)
ReportsLost ==
  /\ Alive
  /\ callback = "emit"
  /\ session' \in {"lost", "down"}
  /\ Emit(<<State("Disconnected")>>)
  /\ callback' = "deleteAll"
  /\ UNCHANGED <<client, requests, slot, tables, asked, fault>>

(* qDeleteAll(m_subscriptions), also of one that a slot has in use. *)
DeletesAll ==
  /\ Alive
  /\ callback = "deleteAll"
  /\ deleted' = Listed
  /\ callback' = "clearSubscriptions"
  /\ fault' = (slot.step \in {"adding", "removing"} /\ slot.sub \in Listed)
  /\ UNCHANGED <<client, requests, events, slot, session, subscriptions, mapping, asked>>

(* A subscription that was listed after that is not deleted. *)
ClearsSubscriptions ==
  /\ Alive
  /\ callback = "clearSubscriptions"
  /\ subscriptions' = [s \in SubIds |-> Absent]
  /\ callback' = "clearMapping"
  /\ UNCHANGED <<client, requests, events, slot, session, mapping, deleted, asked, fault>>

ClearsMapping ==
  /\ Alive
  /\ callback = "clearMapping"
  /\ mapping' = [h \in Handles |-> NoSub]
  /\ deleted' = {}
  /\ callback' = "none"
  /\ UNCHANGED <<client, requests, events, slot, session, subscriptions, asked, fault>>

(* The process dies of it, and is started again. *)
ProcessEnds ==
  /\ ~Alive
  /\ client' = "Disconnected"
  /\ requests' = <<>>
  /\ events' = <<>>
  /\ slot' = Idle
  /\ session' = "down"
  /\ callback' = "none"
  /\ NoTables
  /\ asked' = {}
  /\ fault' = FALSE

-----------------------------------------------------------------------------
Application ==
  \/ ConnectToEndpoint
  \/ DisconnectFromEndpoint
  \/ \E h \in Handles, shared \in BOOLEAN : EnableMonitoring(h, shared)
  \/ \E h \in Handles : DisableMonitoring(h)

Delivery == DeliverState \/ DeliverAsk \/ DeliverEnabled

Plugin ==
  \/ UsesDeleted
  \/ ConnectSlot
  \/ Opens
  \/ OpensInvalid
  \/ ConnectAsks
  \/ ConnectFails
  \/ ConnectSucceeds
  \/ DisconnectSlot
  \/ Disconnects
  \/ EnableSlot
  \/ EnableCreates
  \/ EnableLists
  \/ EnableSlotFails
  \/ \E good \in BOOLEAN : EnableAdds(good)
  \/ DisableSlot
  \/ DisableRemoves

connectionStatusChanged == ReportsLost \/ DeletesAll \/ ClearsSubscriptions \/ ClearsMapping

Next == Application \/ Delivery \/ Plugin \/ ConnectionLost \/ connectionStatusChanged \/ ProcessEnds

(* All threads run, and calls of the SDK return. *)
Fairness ==
  WF_vars(Delivery) /\ WF_vars(Plugin) /\ WF_vars(connectionStatusChanged) /\ WF_vars(ProcessEnds)

Spec == Init /\ [][Next]_vars /\ Fairness

-----------------------------------------------------------------------------
(* Properties.                                                             *)

(* The variables hold values of their types. *)
TypeOK ==
  /\ client \in {"Disconnected", "Connecting", "Connected", "Closing"}
  /\ requests \in Seq(Calls) /\ Len(requests) <= MaxRequests
  /\ events \in Seq(Signals)
  /\ slot \in Slots
  /\ session \in {"down", "up", "lost"}
  /\ callback \in Callbacks
  /\ subscriptions \in [SubIds -> [live : BOOLEAN, shared : BOOLEAN, items : SUBSET Handles]]
  /\ mapping \in [Handles -> SubIds \cup {NoSub}]
  /\ deleted \subseteq SubIds
  /\ asked \subseteq Handles
  /\ fault \in BOOLEAN

(* The state that QOpcUaClient shows over this plugin follows the same     *)
(* contract as over the open62541 plugin, although two threads report it   *)
(* and a connect() may first tear down an older session.                   *)
ImplementsContract == Contract!Safety

(* Connecting and Closing do not last, whichever exit connectToEndpoint()  *)
(* takes and however often it asks.                                        *)
TransientStatesEnd == Contract!Fairness

(* m_attributeMapping and the items of m_subscriptions agree, and neither  *)
(* refers to a deleted subscription, except while the SDK's thread clears  *)
(* them one after the other.                                               *)
TablesAgree ==
  /\ \A h \in Handles, s \in SubIds \ deleted : mapping[h] = s <=> h \in subscriptions[s].items
  /\ \A s \in SubIds : subscriptions[s].items # {} => subscriptions[s].live

(* A subscription without items does not outlive the slot that left it so. *)
NoEmptySubscription ==
  \A s \in SubIds :
    Alive /\ subscriptions[s].live /\ subscriptions[s].items = {}
      => slot.step = "adding" /\ slot.sub = s

(* A subscription of a session that is lost is gone when both threads have *)
(* done their part, also one that getSubscription() lists after the        *)
(* cleanup: it waits for the callback or for the slot that listed it, and  *)
(* the next session, which begins after both, finds no stale id.           *)
LostSessionLeavesNoSubscription ==
  Alive /\ session # "up" =>
    \A s \in Listed : callback # "none" \/ (slot.step = "adding" /\ slot.sub = s)

(* Every enableMonitoring() is answered, also one that finds no            *)
(* subscription or no session.                                             *)
EnableIsAnswered == \A h \in Handles : h \in asked ~> h \notin asked
=============================================================================
