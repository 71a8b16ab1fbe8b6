----------------------------- MODULE Subscriptions -----------------------------
(***************************************************************************)
(* Monitoring of node attributes with the open62541 plugin: QOpcUaNode's   *)
(* table of monitoring parameters on the application's thread, the tables  *)
(* m_subscriptions and m_attributeMapping of the backend with the items of *)
(* each QOpen62541Subscription on the plugin's thread, and the server,     *)
(* which may revise an interval, refuse a request, or expire a             *)
(* subscription by itself.                                                 *)
(*                                                                         *)
(* The connection is reduced to what subscriptions see of Connection.tla:  *)
(* whether m_uaclient exists and works, the one-shot state callback, its   *)
(* zero timer and its queued cleanupSubscriptions.                         *)
(***************************************************************************)
EXTENDS Naturals, Sequences, FiniteSets, SequencesExt

CONSTANTS
  Handles,       \* registered QOpcUaNode objects
  Attributes,    \* attributes a node may monitor
  Intervals,     \* publishing intervals an application requests
  ServerMin,     \* the smallest publishing interval the server grants
  MaxSubs,       \* bound: subscriptions the server ever grants
  MaxPending     \* bound: events in the two queues when the application calls

(* An application registers finitely many nodes, and there are 22          *)
(* attributes.                                                             *)
ASSUME FiniteAssumption == IsFiniteSet(Handles) /\ IsFiniteSet(Attributes)
ASSUME IntervalsAssumption == Intervals \subseteq Nat /\ ServerMin \in Nat
ASSUME MaxSubsAssumption == MaxSubs \in Nat
ASSUME MaxPendingAssumption == MaxPending \in Nat

Items == Handles \X Attributes
SubIds == 1..MaxSubs
NoSub == 0

VARIABLES
  \* the application's thread
  connected,    \* m_state is Connected
  nodes,        \* handles of the nodes that have not been destroyed
  status,       \* m_monitoringStatus of each node: "none", "Good" or "Bad"
  \* the two event queues
  calls, signals,
  \* the plugin's thread
  uaclient,     \* m_uaclient: "null", "open", or "broken" (its channel is)
  watched,      \* m_useStateCallback
  timer,        \* m_disconnectAfterStateChangeTimer is running
  subs,         \* keys of m_subscriptions
  shared,       \* m_shared = Shared, of each subscription object
  interval,     \* m_interval of each subscription object
  ids,          \* entries of m_itemIdToItemMapping, counted by item
  byAttr,       \* keys of m_nodeHandleToItemMapping
  timedOut,     \* m_timeout of each subscription object
  mapping,      \* m_attributeMapping
  minInterval,  \* m_minPublishingInterval
  undefined,    \* the last step was undefined behaviour
  \* the server
  onServer,     \* subscriptions the server holds for this session
  nextSub,      \* the next subscription id the server assigns
  expired       \* history: the server has expired a subscription

clientVars == <<connected, nodes, status>>
queueVars  == <<calls, signals>>
linkVars   == <<uaclient, watched, timer>>
tableVars  == <<subs, shared, interval, ids, byAttr, timedOut, mapping, minInterval>>
serverVars == <<onServer, nextSub, expired>>
vars == <<clientVars, queueVars, linkVars, tableVars, undefined, serverVars>>

(* QOpcUaMonitoringParameters as far as enableMonitoring looks at them. *)
Settings ==
  [type : {"Shared", "Exclusive"}, interval : Intervals]
    \cup [type : {"ById"}, id : SubIds]

Calls ==
  [slot : {"enableMonitoring"}, items : SUBSET Items, settings : Settings]
    \cup [slot : {"disableMonitoring"}, items : SUBSET Items]
    \cup [slot : {"handleSubscriptionTimeout"}, sub : SubIds, items : SUBSET Items]
    \cup [slot : {"connectToEndpoint", "disconnectFromEndpoint", "cleanupSubscriptions"}]

Codes == {"Good", "Bad", "BadEntryExists"}

Signals ==
  [kind : {"monitoringEnableDisable"}, item : Items, subscribe : BOOLEAN, code : Codes]
    \cup [kind : {"stateAndOrErrorChanged"}, connected : BOOLEAN]

-----------------------------------------------------------------------------
(* Emitting one monitoringEnableDisable for each item of a set.  The order *)
(* within one hash table is unspecified; any fixed one is as good.         *)
Enabled(i, code) ==
  [kind |-> "monitoringEnableDisable", item |-> i, subscribe |-> TRUE, code |-> code]

Disabled(i) ==
  [kind |-> "monitoringEnableDisable", item |-> i, subscribe |-> FALSE, code |-> "Bad"]

State(c) == [kind |-> "stateAndOrErrorChanged", connected |-> c]

EnabledAll(S, code) ==
  LET order == SetToSeq(S) IN [k \in DOMAIN order |-> Enabled(order[k], code[order[k]])]

DisabledAll(S) ==
  LET order == SetToSeq(S) IN [k \in DOMAIN order |-> Disabled(order[k])]

(* The items of the subscriptions in S.  removeOnServer() reports each.    *)
ItemsOf(S) == {i \in Items : \E s \in S : ids[s][i] > 0}

(* An object that is deleted: nothing of it remains. *)
NoItems == [i \in Items |-> 0]

Cleared(f, S, empty) == [s \in SubIds |-> IF s \in S THEN empty ELSE f[s]]

(* The settings of the objects in S are gone as well. *)
ForgetSettings(S) ==
  /\ shared' = Cleared(shared, S, FALSE)
  /\ interval' = Cleared(interval, S, 0)
  /\ timedOut' = Cleared(timedOut, S, FALSE)

Unmapped(S) == [i \in Items |-> IF i \in S THEN NoSub ELSE mapping[i]]

(* cleanupSubscriptions(): the tables afterwards; its signals are          *)
(* DisabledAll(ItemsOf(subs)).                                             *)
MutCleanupTables ==
  /\ subs' = {}
  /\ ids' = Cleared(ids, subs, NoItems)
  /\ byAttr' = Cleared(byAttr, subs, {})
  /\ ForgetSettings(subs)
  /\ minInterval' = 0
  /\ onServer' = onServer \ subs
  /\ UNCHANGED <<mapping, nextSub, expired>>

CleanupTables ==
  /\ subs' = {}
  /\ ids' = Cleared(ids, subs, NoItems)
  /\ byAttr' = Cleared(byAttr, subs, {})
  /\ ForgetSettings(subs)
  /\ mapping' = [i \in Items |-> NoSub]
  /\ minInterval' = 0
  /\ onServer' = onServer \ subs
  /\ UNCHANGED <<nextSub, expired>>

Init ==
  /\ connected = FALSE
  /\ nodes = Handles
  /\ status = [i \in Items |-> "none"]
  /\ calls = <<>> /\ signals = <<>>
  /\ uaclient = "null" /\ watched = FALSE /\ timer = FALSE
  /\ subs = {}
  /\ shared = [s \in SubIds |-> FALSE]
  /\ interval = [s \in SubIds |-> 0]
  /\ ids = [s \in SubIds |-> NoItems]
  /\ byAttr = [s \in SubIds |-> {}]
  /\ timedOut = [s \in SubIds |-> FALSE]
  /\ mapping = [i \in Items |-> NoSub]
  /\ minInterval = 0
  /\ undefined = FALSE
  /\ onServer = {} /\ nextSub = 1 /\ expired = FALSE

-----------------------------------------------------------------------------
(* The application's thread.                                               *)

MayCall == ~undefined /\ Len(calls) + Len(signals) < MaxPending

Post(call) ==
  /\ calls' = Append(calls, call)
  /\ UNCHANGED <<signals, linkVars, tableVars, undefined, serverVars>>

NodeItems(h, attrs) == {h} \X attrs

(* QOpcUaNode::enableMonitoring: refused unless the client is Connected.   *)
EnableMonitoring(h, attrs, settings) ==
  /\ MayCall /\ connected /\ h \in nodes
  /\ Post([slot |-> "enableMonitoring", items |-> NodeItems(h, attrs), settings |-> settings])
  /\ UNCHANGED clientVars

(* QOpcUaNode::disableMonitoring. *)
DisableMonitoring(h, attrs) ==
  /\ MayCall /\ connected /\ h \in nodes
  /\ Post([slot |-> "disableMonitoring", items |-> NodeItems(h, attrs)])
  /\ UNCHANGED clientVars

(* ~QOpcUaNodePrivate: "Disable remaining monitorings", then the handle is *)
(* unregistered and later signals for it are dropped.                      *)
DestroyNode(h) ==
  LET remaining == {i \in NodeItems(h, Attributes) : status[i] = "Good"}
  IN /\ MayCall /\ h \in nodes
     /\ nodes' = nodes \ {h}
     /\ status' = [i \in Items |-> IF i[1] = h THEN "none" ELSE status[i]]
     /\ calls' = IF remaining = {} THEN calls
                 ELSE Append(calls, [slot |-> "disableMonitoring", items |-> remaining])
     /\ UNCHANGED <<connected, signals, linkVars, tableVars, undefined, serverVars>>

ConnectToEndpoint ==
  /\ MayCall
  /\ Post([slot |-> "connectToEndpoint"])
  /\ UNCHANGED clientVars

DisconnectFromEndpoint ==
  /\ MayCall /\ connected
  /\ connected' = FALSE
  /\ Post([slot |-> "disconnectFromEndpoint"])
  /\ UNCHANGED <<nodes, status>>

(* The handler of monitoringEnableDisable: a failed attempt is stored too, *)
(* except one that failed because the item exists.                         *)
MutNewStatus(s) ==
  IF ~s.subscribe THEN status[s.item]
  ELSE IF s.code = "BadEntryExists" THEN status[s.item] ELSE s.code

NewStatus(s) ==
  IF ~s.subscribe THEN "none"
  ELSE IF s.code = "BadEntryExists" THEN status[s.item] ELSE s.code

HandleMonitoringEnableDisable ==
  LET s == Head(signals)
  IN /\ ~undefined
     /\ signals # <<>> /\ s.kind = "monitoringEnableDisable"
     /\ status' = IF s.item[1] \in nodes THEN [status EXCEPT ![s.item] = NewStatus(s)] ELSE status
     /\ signals' = Tail(signals)
     /\ UNCHANGED <<connected, nodes, calls, linkVars, tableVars, undefined, serverVars>>

HandleStateAndOrErrorChanged ==
  /\ ~undefined
  /\ signals # <<>> /\ Head(signals).kind = "stateAndOrErrorChanged"
  /\ connected' = Head(signals).connected
  /\ signals' = Tail(signals)
  /\ UNCHANGED <<nodes, status, calls, linkVars, tableVars, undefined, serverVars>>

-----------------------------------------------------------------------------
(* The plugin's thread: enableMonitoring.                                  *)

Runs(slot) == ~undefined /\ calls # <<>> /\ Head(calls).slot = slot

Max2(a, b) == IF a > b THEN a ELSE b

(* getSubscription(): shared subscriptions of the interval asked for, or   *)
(* of the smallest one the server is known to grant.                       *)
Reusable(settings) ==
  IF settings.type = "Shared"
    THEN {s \in subs : shared[s] /\ interval[s] = Max2(settings.interval, minInterval)}
    ELSE {}

(* The subscription with the requested id, or one that can be shared. *)
Existing(settings) ==
  IF settings.type = "ById" THEN {settings.id} \cap subs ELSE Reusable(settings)

(* getSubscriptionForItem() finds nothing. *)
MutIsNew(i) == TRUE

IsNew(i) == mapping[i] = NoSub

(* The loop over the attributes: the items in `granted' become items of    *)
(* subscription s.  A subscription left without an item is removed.        *)
MutKeepsSubscription(count) == TRUE

KeepsSubscription(count) == \E i \in Items : count[i] > 0

AddItems(s, granted, held) ==
  LET count == [i \in Items |-> ids[s][i] + (IF i \in granted THEN 1 ELSE 0)]
      kept  == KeepsSubscription(count)
      code  == [i \in Items |-> IF ~IsNew(i) THEN "BadEntryExists"
                              ELSE IF i \in granted THEN "Good" ELSE "Bad"]
  IN /\ ids' = [ids EXCEPT ![s] = count]
     /\ byAttr' = [byAttr EXCEPT ![s] = @ \cup granted]
     /\ mapping' = [i \in Items |-> IF i \in granted THEN s ELSE mapping[i]]
     /\ subs' = IF kept THEN subs \cup {s} ELSE subs \ {s}
     /\ onServer' = IF kept THEN held ELSE held \ {s}
     /\ signals' = signals \o EnabledAll(Head(calls).items, code)
     /\ calls' = Tail(calls)
     /\ UNCHANGED <<clientVars, linkVars, undefined, timedOut, expired>>

NewItems == {i \in Head(calls).items : IsNew(i)}

(* An existing subscription is used.  The server may refuse any item, and  *)
(* refuses all of them when it does not hold the subscription any more.    *)
BackendEnableExisting ==
  /\ Runs("enableMonitoring")
  /\ \E s \in Existing(Head(calls).settings) :
       \E granted \in SUBSET (IF uaclient = "open" /\ s \in onServer THEN NewItems ELSE {}) :
         AddItems(s, granted, onServer)
  /\ UNCHANGED <<shared, interval, minInterval, nextSub>>

NeedsCreate ==
  /\ Runs("enableMonitoring")
  /\ Head(calls).settings.type # "ById"
  /\ Existing(Head(calls).settings) = {}

(* The server creates a subscription and revises its interval. *)
BackendEnableCreate ==
  LET requested == Head(calls).settings.interval
      revised == Max2(requested, ServerMin)
  IN /\ NeedsCreate
     /\ uaclient = "open" /\ nextSub \in SubIds
     /\ \E granted \in SUBSET NewItems : AddItems(nextSub, granted, onServer \cup {nextSub})
     /\ shared' = [shared EXCEPT ![nextSub] = (Head(calls).settings.type = "Shared")]
     /\ interval' = [interval EXCEPT ![nextSub] = revised]
     /\ minInterval' = IF revised > requested THEN revised ELSE minInterval
     /\ nextSub' = nextSub + 1

(* There is no subscription with the requested id, or the server creates   *)
(* none: BadSubscriptionIdInvalid for every attribute of the call.         *)
BackendEnableNoSubscription ==
  /\ Runs("enableMonitoring")
  /\ Existing(Head(calls).settings) = {}
  /\ Head(calls).settings.type = "ById" \/ uaclient # "null"
  /\ signals' = signals \o EnabledAll(Head(calls).items, [i \in Items |-> "Bad"])
  /\ calls' = Tail(calls)
  /\ UNCHANGED <<clientVars, linkVars, tableVars, undefined, serverVars>>

(* UA_Client_Subscriptions_create(nullptr, ...): the call was posted while *)
(* the client was Connected and runs after the connection is gone.         *)
BackendEnableOnNull ==
  /\ NeedsCreate
  /\ uaclient = "null"
  /\ undefined' = TRUE
  /\ UNCHANGED <<clientVars, queueVars, linkVars, tableVars, serverVars>>

-----------------------------------------------------------------------------
(* The other slots of the plugin's thread.                                 *)

(* The items disableMonitoring() finds in m_attributeMapping. *)
Mapped(S) == {i \in S : mapping[i] # NoSub}

(* disableMonitoring(): every mapped item is removed and reported, and a   *)
(* subscription left without an item is removed.                           *)
BackendDisable ==
  LET removed == Mapped(Head(calls).items)
      count == [s \in SubIds |-> [i \in Items |->
                  IF i \in removed /\ mapping[i] = s THEN ids[s][i] - 1 ELSE ids[s][i]]]
      touched == {mapping[i] : i \in removed}
      emptied == {s \in touched : ~KeepsSubscription(count[s])}
  IN /\ Runs("disableMonitoring")
     /\ ids' = count
     /\ byAttr' = [s \in SubIds |-> byAttr[s] \ {i \in removed : mapping[i] = s}]
     /\ mapping' = Unmapped(removed)
     /\ subs' = subs \ emptied
     /\ ForgetSettings(emptied)
     /\ onServer' = onServer \ emptied
     /\ signals' = signals \o DisabledAll(removed)
     /\ calls' = Tail(calls)
     /\ UNCHANGED <<clientVars, linkVars, minInterval, undefined, nextSub, expired>>

(* handleSubscriptionTimeout(): forgets the items the subscription had     *)
(* when it timed out, deletes it and reports what it still holds.          *)
BackendTimeout ==
  LET s == Head(calls).sub
  IN /\ Runs("handleSubscriptionTimeout")
     /\ s \in subs
     /\ mapping' = Unmapped(Head(calls).items)
     /\ subs' = subs \ {s}
     /\ signals' = signals \o DisabledAll(ItemsOf({s}))
     /\ ids' = Cleared(ids, {s}, NoItems)
     /\ byAttr' = Cleared(byAttr, {s}, {})
     /\ ForgetSettings({s})
     /\ onServer' = onServer \ {s}
     /\ calls' = Tail(calls)
     /\ UNCHANGED <<clientVars, linkVars, minInterval, undefined, nextSub, expired>>

(* The queued pointer outlived its subscription. *)
BackendTimeoutDangling ==
  /\ Runs("handleSubscriptionTimeout")
  /\ Head(calls).sub \notin subs
  /\ undefined' = TRUE
  /\ UNCHANGED <<clientVars, queueVars, linkVars, tableVars, serverVars>>

(* The queued cleanupSubscriptions slot. *)
BackendCleanup ==
  /\ Runs("cleanupSubscriptions")
  /\ CleanupTables
  /\ signals' = signals \o DisabledAll(ItemsOf(subs))
  /\ calls' = Tail(calls)
  /\ UNCHANGED <<clientVars, linkVars, undefined>>

(* What disconnectInternal() emits: the items, then the state. *)
ClosingSignals ==
  DisabledAll(ItemsOf(subs)) \o (IF uaclient = "null" THEN <<>> ELSE <<State(FALSE)>>)

BackendDisconnect ==
  /\ Runs("disconnectFromEndpoint")
  /\ CleanupTables
  /\ uaclient' = "null"
  /\ watched' = FALSE
  /\ signals' = signals \o ClosingSignals
  /\ calls' = Tail(calls)
  /\ UNCHANGED <<clientVars, timer, undefined>>

BackendConnect(succeeds) ==
  /\ Runs("connectToEndpoint")
  /\ CleanupTables
  /\ uaclient' = IF succeeds THEN "open" ELSE "null"
  /\ watched' = succeeds
  /\ signals' = signals \o ClosingSignals \o <<State(succeeds)>>
  /\ calls' = Tail(calls)
  /\ UNCHANGED <<clientVars, timer, undefined>>

DisconnectTimeout ==
  /\ ~undefined /\ timer
  /\ timer' = FALSE
  /\ CleanupTables
  /\ uaclient' = "null"
  /\ watched' = FALSE
  /\ signals' = signals \o ClosingSignals
  /\ UNCHANGED <<clientVars, calls, undefined>>

(* clientStateCallback() starts the timer and posts cleanupSubscriptions.  *)
(* When UA_Client_run_iterate returns BadServerNotConnected, iterateClient *)
(* cleans up at once as well.                                              *)
IterateClient(notConnected) ==
  /\ ~undefined /\ uaclient = "broken" /\ watched
  /\ watched' = FALSE
  /\ timer' = TRUE
  /\ calls' = Append(calls, [slot |-> "cleanupSubscriptions"])
  /\ IF notConnected
       THEN CleanupTables /\ signals' = signals \o DisabledAll(ItemsOf(subs))
       ELSE UNCHANGED <<signals, tableVars, serverVars>>
  /\ UNCHANGED <<clientVars, uaclient, undefined>>

(* stateChangeHandler() with BadTimeout: sendTimeoutNotification() posts a *)
(* pointer to the subscription and the items it has now.                   *)
SendTimeoutNotification(s) ==
  /\ ~undefined /\ uaclient = "open"
  /\ s \in subs /\ s \notin onServer /\ ~timedOut[s]
  /\ timedOut' = [timedOut EXCEPT ![s] = TRUE]
  /\ calls' = Append(calls, [slot |-> "handleSubscriptionTimeout", sub |-> s, items |-> byAttr[s]])
  /\ UNCHANGED <<clientVars, signals, linkVars, subs, shared, interval, ids, byAttr,
                 mapping, minInterval, undefined, serverVars>>

-----------------------------------------------------------------------------
(* External: the network and the server.                                   *)

ChannelBreaks ==
  /\ ~undefined /\ uaclient = "open"
  /\ uaclient' = "broken"
  /\ UNCHANGED <<clientVars, queueVars, watched, timer, tableVars, undefined, serverVars>>

(* The lifetime of a subscription ends on the server. *)
ServerExpires(s) ==
  /\ ~undefined /\ s \in onServer
  /\ onServer' = onServer \ {s}
  /\ expired' = TRUE
  /\ UNCHANGED <<clientVars, queueVars, linkVars, tableVars, undefined, nextSub>>

Application ==
  \/ \E h \in Handles :
       \/ \E attrs \in SUBSET Attributes \ {{}} :
            \/ \E settings \in Settings : EnableMonitoring(h, attrs, settings)
            \/ DisableMonitoring(h, attrs)
       \/ DestroyNode(h)
  \/ ConnectToEndpoint
  \/ DisconnectFromEndpoint

ClientLoop == HandleMonitoringEnableDisable \/ HandleStateAndOrErrorChanged

BackendSlot ==
  \/ BackendEnableExisting \/ BackendEnableCreate
  \/ BackendEnableNoSubscription \/ BackendEnableOnNull
  \/ BackendDisable
  \/ BackendTimeout \/ BackendTimeoutDangling
  \/ BackendCleanup
  \/ BackendDisconnect
  \/ \E succeeds \in BOOLEAN : BackendConnect(succeeds)

Next ==
  \/ Application
  \/ ClientLoop
  \/ BackendSlot
  \/ DisconnectTimeout
  \/ \E notConnected \in BOOLEAN : IterateClient(notConnected)
  \/ \E s \in SubIds : SendTimeoutNotification(s) \/ ServerExpires(s)
  \/ ChannelBreaks

Spec == Init /\ [][Next]_vars

-----------------------------------------------------------------------------
(* Every variable keeps its type; in particular every entry of             *)
(* m_attributeMapping and every posted subscription id is one the server   *)
(* has assigned.                                                           *)
TypeOK ==
  /\ connected \in BOOLEAN
  /\ nodes \subseteq Handles
  /\ status \in [Items -> {"none", "Good", "Bad"}]
  /\ calls \in Seq(Calls)
  /\ signals \in Seq(Signals)
  /\ uaclient \in {"null", "open", "broken"}
  /\ watched \in BOOLEAN /\ timer \in BOOLEAN
  /\ subs \subseteq SubIds
  /\ shared \in [SubIds -> BOOLEAN]
  /\ interval \in [SubIds -> Nat]
  /\ ids \in [SubIds -> [Items -> Nat]]
  /\ byAttr \in [SubIds -> SUBSET Items]
  /\ timedOut \in [SubIds -> BOOLEAN]
  /\ mapping \in [Items -> SubIds \cup {NoSub}]
  /\ minInterval \in Nat
  /\ undefined \in BOOLEAN
  /\ onServer \subseteq SubIds
  /\ nextSub \in 1..MaxSubs + 1
  /\ expired \in BOOLEAN

(* m_attributeMapping never points to a deleted subscription: an entry is  *)
(* the key of a live object that holds the item.                           *)
MappedItemsExist ==
  \A i \in Items : mapping[i] # NoSub =>
    /\ mapping[i] \in subs
    /\ i \in byAttr[mapping[i]]
    /\ ids[mapping[i]][i] > 0

(* No subscription is kept without a monitored item: neither a failed      *)
(* enableMonitoring nor the last disableMonitoring leaves one behind.      *)
NoEmptySubscription == \A s \in subs : \E i \in Items : ids[s][i] > 0

(* The two tables of the backend say the same: an item is mapped to a      *)
(* subscription iff it is the one monitored item of that attribute there,  *)
(* as long as the server keeps the subscriptions.  Once one has expired, a *)
(* subscription may be left with items m_attributeMapping has forgotten.   *)
MappingIsExact ==
  ~expired => \A i \in Items, s \in SubIds :
    /\ ids[s][i] = (IF mapping[i] = s THEN 1 ELSE 0)
    /\ i \in byAttr[s] <=> mapping[i] = s

Settled ==
  /\ ~undefined /\ calls = <<>> /\ signals = <<>> /\ ~timer
  /\ uaclient # "broken" /\ subs \subseteq onServer

IsMonitored(i) == \E s \in subs : ids[s][i] > 0

(* With nothing queued, a node whose monitoringStatus() is Good is         *)
(* monitored on the server, whatever was lost, expired or cleaned up.      *)
GoodStatusIsMonitored ==
  Settled => \A i \in Items : status[i] = "Good" => IsMonitored(i)
================================================================================
