----------------------------- MODULE Declarative -----------------------------
(***************************************************************************)
(* The QML module on top of a QOpcUaClient: a Connection and a ValueNode   *)
(* whose node id names its namespace by URI.                               *)
(*                                                                         *)
(* QOpcUaClient fetches the namespace array when it is connected and keeps *)
(* it up to date by monitoring its node (`ns').  The Connection reports    *)
(* `connected' with the first namespace array of a connection; the node is *)
(* then looked up, created, read and monitored.  A relative node id needs  *)
(* a request to the server, which is answered later than the next change   *)
(* of the node id may come (`qml.resolvers').                              *)
(*                                                                         *)
(* What the node asks of the backend waits in `qml.queue'; what the        *)
(* backend has answered waits in `qml.events', the event queue of the      *)
(* application's thread.  A node that has been replaced is deleted through *)
(* the same queue, so the answers in front of the deletion still arrive.   *)
(***************************************************************************)
EXTENDS Naturals, FiniteSets, Sequences, SequencesExt

CONSTANTS
  DirectIds,     \* NodeId objects
  RelativeIds,   \* RelativeNodeId objects
  Indexes,       \* indexes the namespace of the ids can have on the server
  Absent,        \* the server's table does not have the namespace
  Empty,         \* no table: an empty namespace array
  NoNode,        \* nullptr
  MaxRequests    \* bound: requests of the node and resolvers that wait

ASSUME IdsAssumption == DirectIds \cap RelativeIds = {} /\ DirectIds # {}

ASSUME TablesAssumption == Indexes \cap {Absent, Empty} = {} /\ Absent # Empty

NodeIds == DirectIds \cup RelativeIds

VARIABLES
  client,   \* QOpcUaClient::state()
  session,  \* the backend has a session
  table,    \* external: where the server's table has the namespace
  ns,       \* the namespace array of QOpcUaClientPrivate
  qml       \* the Connection and the ValueNode

vars == <<client, session, table, ns, qml>>

QtClient == INSTANCE ClientContract WITH state <- client

Tables == Indexes \cup {Absent}

(* QOpcUaNode objects: a node id with the index it was resolved to. *)
Nodes == [id : NodeIds, index : Indexes]

ASSUME NoNodeAssumption == NoNode \notin Nodes

Namespaces ==
  [array : Tables \cup {Empty}, hasNode : BOOLEAN, reads : 0 .. 1,
   wanted : BOOLEAN, enabled : BOOLEAN, queue : Seq({"enable", "disable"}), item : BOOLEAN,
   answered : BOOLEAN]

(* `own' until the node that asked is replaced. *)
Events ==
  [kind : {"read", "enabled", "disabled"}, good : BOOLEAN, from : Nodes, own : BOOLEAN]

Objects ==
  [connected : BOOLEAN, id : NodeIds, index : Indexes \cup {Empty}, named : BOOLEAN,
   node : Nodes \cup {NoNode}, fresh : BOOLEAN, cache : Nodes \cup {NoNode},
   monitored : BOOLEAN, monitoredState : BOOLEAN, item : BOOLEAN,
   queue : Seq({"read", "enable", "disable"}), events : Seq(Events),
   resolvers : Seq(RelativeIds), fault : BOOLEAN]

(* setupConnection() has asked for the automatic update.  `answered' is    *)
(* not of the code: an array was received from this connection.            *)
NewNamespaces ==
  [array |-> Empty, hasNode |-> FALSE, reads |-> 0, wanted |-> TRUE,
   enabled |-> FALSE, queue |-> <<>>, item |-> FALSE, answered |-> FALSE]

(* `index' and `named' are m_resolvedNode; `fresh' is not of the code: the *)
(* node was made on this connection.                                       *)
NewObjects(id) ==
  [connected |-> FALSE, id |-> id, index |-> Empty, named |-> FALSE,
   node |-> NoNode, fresh |-> FALSE, cache |-> NoNode,
   monitored |-> TRUE, monitoredState |-> FALSE, item |-> FALSE,
   queue |-> <<>>, events |-> <<>>, resolvers |-> <<>>, fault |-> FALSE]

Init ==
  /\ client = "Disconnected"
  /\ session = FALSE
  /\ table \in Tables
  /\ ns = NewNamespaces
  /\ qml \in {NewObjects(id) : id \in NodeIds}

Alive == ~qml.fault

-----------------------------------------------------------------------------
(* The namespace array, as functions of it.                                *)

updateNamespaceArray(n) == [n EXCEPT !.hasNode = TRUE, !.reads = 1]

setupNamespaceArrayMonitoring(n, state) ==
  CASE ~n.hasNode \/ state # "Connected" \/ n.wanted = n.enabled -> n
    [] n.hasNode /\ state = "Connected" /\ ~n.wanted /\ n.enabled ->
         [n EXCEPT !.queue = Append(@, "disable"), !.enabled = FALSE]
    [] n.hasNode /\ state = "Connected" /\ n.wanted /\ ~n.enabled ->
         [n EXCEPT !.queue = Append(@, "enable"), !.enabled = TRUE]

(* The cached array after namespaceArrayUpdated(); Empty for a bad value. *)
SetArray(n, array) == [n EXCEPT !.array = array, !.answered = TRUE]

-----------------------------------------------------------------------------
(* The QML objects, as functions of them.  `n' is the namespace array and  *)
(* `state' the client's state while the function runs.                     *)

(* UniversalNode::resolveNamespace and UniversalNode::from: the index of   *)
(* the table, or, when the table does not have it, whatever index was      *)
(* resolved for the same name before.                                      *)
ResolveNamespace(q, n) ==
  [q EXCEPT !.named = TRUE,
            !.index = CASE n.array \in Indexes             -> n.array
                        [] n.array \notin Indexes /\ q.named  -> @
                        [] n.array \notin Indexes /\ ~q.named -> Empty]

updateSubscription(q) ==
  IF q.node = NoNode \/ q.monitored = q.monitoredState THEN q
  ELSE [q EXCEPT !.queue = Append(@, IF q.monitored THEN "enable" ELSE "disable")]

(* OpcUaValueNode::setupNode.  The old node's requests are not answered    *)
(* any more, save those whose answer is in the event queue.                *)
setupNode(q, path, state) ==
  LET old == [q EXCEPT !.cache = NoNode, !.node = NoNode, !.item = FALSE, !.queue = <<>>,
                       !.events = [i \in DOMAIN @ |-> [@[i] EXCEPT !.own = FALSE]]]
  IN IF path.index = Empty \/ ~q.connected \/ state # "Connected" THEN old
     ELSE updateSubscription([old EXCEPT !.node = path, !.fresh = TRUE, !.queue = <<"read">>])

(* OpcUaPathResolver::startResolving: the start node is a NodeId. *)
startResolving(q, n, state) ==
  IF n.array \in Indexes /\ state = "Connected"
  THEN [q EXCEPT !.resolvers = Append(@, q.id)]
  ELSE setupNode(q, [index |-> Empty], state)

(* updateNode(): retrieveAbsoluteNodePath() with setupNode() to follow. *)
updateNode(q, n, state) ==
  CASE ~q.connected -> q
    [] q.connected /\ q.id \in DirectIds ->
         LET r == ResolveNamespace(q, n)
         IN setupNode(r, [id |-> q.id, index |-> r.index], state)
    [] q.connected /\ q.id \in RelativeIds -> startResolving(q, n, state)

MutNamespaceArrayUpdated(q, n, state) == [q EXCEPT !.connected = TRUE]

(* The Connection's slot of namespaceArrayUpdated, good or bad. *)
namespaceArrayUpdated(q, n, state) ==
  IF q.connected THEN q ELSE updateNode([q EXCEPT !.connected = TRUE], n, state)

MutClientStateHandler(q, state) == [q EXCEPT !.connected = (state = "Connected")]

(* updateNode() returns at once: a state that changes from Connected is    *)
(* another one.                                                            *)
clientStateHandler(q, state) ==
  IF q.connected THEN [q EXCEPT !.connected = (state = "Connected")] ELSE q

-----------------------------------------------------------------------------
(* The application.                                                        *)

Room ==
  Alive /\ Len(qml.queue) + Len(qml.events) < MaxRequests /\ Len(qml.resolvers) < MaxRequests

setNodeId(id) ==
  /\ Room
  /\ id # qml.id
  /\ qml' = updateNode([qml EXCEPT !.id = id], ns, client)
  /\ UNCHANGED <<client, session, table, ns>>

setMonitored(monitored) ==
  /\ Room
  /\ qml' = updateSubscription([qml EXCEPT !.monitored = monitored])
  /\ UNCHANGED <<client, session, table, ns>>

setNamespaceAutoupdate(isEnabled) ==
  /\ Alive
  /\ ns.queue = <<>>
  /\ ns' = setupNamespaceArrayMonitoring([ns EXCEPT !.wanted = isEnabled], client)
  /\ UNCHANGED <<client, session, table, qml>>

UpdateNamespaceArray ==
  /\ Alive
  /\ client = "Connected"
  /\ ns.reads = 0
  /\ ns' = updateNamespaceArray(ns)
  /\ UNCHANGED <<client, session, table, qml>>

DisconnectFromEndpoint ==
  /\ Alive
  /\ QtClient!Close
  /\ qml' = clientStateHandler(qml, "Closing")
  /\ UNCHANGED <<session, table, ns>>

-----------------------------------------------------------------------------
(* Signals of the client.                                                  *)

(* connectToEndpoint() is posted to the backend behind all other requests, *)
(* so those have been answered by now.                                     *)
ClientConnecting ==
  /\ Alive
  /\ QtClient!Connect
  /\ ns.reads = 0 /\ ns.queue = <<>>
  /\ qml.queue = <<>> /\ qml.events = <<>> /\ qml.resolvers = <<>>
  /\ ns' = [ns EXCEPT !.answered = FALSE]
  /\ qml' = [clientStateHandler(qml, "Connecting") EXCEPT !.fresh = FALSE]
  /\ UNCHANGED <<session, table>>

ClientConnected ==
  /\ Alive
  /\ QtClient!Resolve /\ client' = "Connected"
  /\ session' = TRUE
  /\ ns' = setupNamespaceArrayMonitoring(updateNamespaceArray(ns), "Connected")
  /\ qml' = clientStateHandler(qml, "Connected")
  /\ UNCHANGED table

(* The session ends: the monitored items go with it, and a backend may     *)
(* report it (BadDisconnect).                                              *)
SessionEnds ==
  /\ Alive
  /\ session
  /\ session' = FALSE
  /\ ns' = [ns EXCEPT !.item = FALSE]
  /\ LET told == [kind |-> "disabled", good |-> FALSE, from |-> qml.node, own |-> TRUE]
     IN \E events \in {qml.events} \cup (IF qml.item THEN {Append(qml.events, told)} ELSE {}) :
          qml' = [qml EXCEPT !.item = FALSE, !.events = events]
  /\ UNCHANGED <<client, table>>

(* The change of state comes through the event queue, behind the answers.  *)
ClientDisconnected ==
  /\ Alive
  /\ ~session
  /\ qml.events = <<>>
  /\ QtClient!Resolve \/ QtClient!Lose \/ QtClient!Closed
  /\ client' = "Disconnected"
  /\ qml' = clientStateHandler(qml, "Disconnected")
  /\ ns' = [ns EXCEPT !.array = Empty]
  /\ UNCHANGED <<session, table>>

-----------------------------------------------------------------------------
(* Answers about the namespace array.                                      *)

Received(array) ==
  /\ ns' = SetArray([ns EXCEPT !.reads = 0], array)
  /\ qml' = namespaceArrayUpdated(qml, ns', client)

NamespaceArrayRead ==
  /\ Alive
  /\ ns.reads = 1
  /\ session
  /\ Received(table)
  /\ UNCHANGED <<client, session, table>>

MutNamespaceArrayReadFails ==
  /\ Alive
  /\ ns.reads = 1
  /\ ns' = SetArray([ns EXCEPT !.reads = 0], Empty)
  /\ UNCHANGED <<client, session, table, qml>>

(* Also late, when the client is disconnected. *)
NamespaceArrayReadFails ==
  /\ Alive
  /\ ns.reads = 1
  /\ Received(Empty)
  /\ UNCHANGED <<client, session, table>>

NamespaceArrayNotified ==
  /\ Alive
  /\ session
  /\ ns.item
  /\ ns' = SetArray(ns, table)
  /\ qml' = namespaceArrayUpdated(qml, ns', client)
  /\ UNCHANGED <<client, session, table>>

(* The slot of enableMonitoringFinished; nothing is connected to           *)
(* disableMonitoringFinished.                                              *)
NamespaceMonitoringFinished(good) ==
  /\ Alive
  /\ ns.queue # <<>>
  /\ good => session
  /\ LET n == [ns EXCEPT !.queue = Tail(@)]
     IN ns' = CASE Head(ns.queue) = "disable"             -> [n EXCEPT !.item = FALSE]
                [] Head(ns.queue) = "enable" /\ good /\ ~ns.item -> [n EXCEPT !.item = TRUE]
                [] Head(ns.queue) = "enable" /\ ~(good /\ ~ns.item) ->
                     [n EXCEPT !.enabled = FALSE, !.wanted = FALSE]
  /\ UNCHANGED <<client, session, table, qml>>

-----------------------------------------------------------------------------
(* Answers to the node and its resolvers.                                  *)

(* The backend takes a request and puts its answer into the event queue.   *)
(* A disableMonitoring() that fails has lost the item all the same, and    *)
(* one without an item is not answered.                                    *)
BackendAnswers(good) ==
  /\ Alive
  /\ qml.queue # <<>>
  /\ good => session
  /\ LET request == Head(qml.queue)
         kind == [read |-> "read", enable |-> "enabled", disable |-> "disabled"][request]
         done == good /\ (request = "enable" => ~qml.item)
         answer == [kind |-> kind, good |-> done, from |-> qml.node, own |-> TRUE]
         silent == request = "disable" /\ ~qml.item
     IN qml' = [qml EXCEPT !.queue = Tail(@),
                           !.events = IF silent THEN @ ELSE Append(@, answer),
                           !.item = CASE request = "enable"  -> @ \/ done
                                      [] request = "disable" -> FALSE
                                      [] request = "read"    -> @]
  /\ UNCHANGED <<client, session, table, ns>>

Event == Head(qml.events)

Delivered == [qml EXCEPT !.events = Tail(@)]

Arrives(kind) == Alive /\ qml.events # <<>> /\ Event.kind = kind

MutAttributeRead ==
  /\ Arrives("read")
  /\ qml' = [Delivered EXCEPT !.cache = Event.from]
  /\ UNCHANGED <<client, session, table, ns>>

(* attributeUpdated fills the cache, unless setupNode() has disconnected   *)
(* it.  readyToUse and status, which follow, steer nothing.                *)
AttributeRead ==
  /\ Arrives("read")
  /\ qml' = IF Event.own THEN [Delivered EXCEPT !.cache = Event.from] ELSE Delivered
  /\ UNCHANGED <<client, session, table, ns>>

MutEnableMonitoringFinished ==
  /\ Arrives("enabled")
  /\ qml' = [Delivered EXCEPT !.monitoredState = @ \/ (Event.good /\ qml.monitored)]
  /\ UNCHANGED <<client, session, table, ns>>

(* The ValueNode's own slots stay connected to a node that is replaced. *)
EnableMonitoringFinished ==
  /\ Arrives("enabled")
  /\ qml' = [Delivered EXCEPT !.monitoredState = @ \/ Event.good]
  /\ UNCHANGED <<client, session, table, ns>>

(* After a bad status node()->monitoringStatus() is asked, which has no    *)
(* entry any more, and node() may be null.                                 *)
DisableMonitoringFinished ==
  /\ Arrives("disabled")
  /\ qml' = IF ~Event.good /\ qml.node = NoNode THEN [Delivered EXCEPT !.fault = TRUE]
            ELSE [Delivered EXCEPT !.monitoredState = FALSE]
  /\ UNCHANGED <<client, session, table, ns>>

(* A resolver gets its targets, in any order: one that is on this server,  *)
(* or an error.                                                            *)
ResolvedNode(i, good) ==
  /\ Alive
  /\ i \in DOMAIN qml.resolvers
  /\ good => session /\ table \in Indexes
  /\ LET q == [qml EXCEPT !.resolvers = RemoveAt(@, i)]
     IN qml' = IF good
               THEN setupNode([q EXCEPT !.index = table, !.named = (ns.array \in Indexes)],
                              [id |-> qml.resolvers[i], index |-> table], client)
               ELSE setupNode(q, [index |-> Empty], client)
  /\ UNCHANGED <<client, session, table, ns>>

-----------------------------------------------------------------------------
(* External: the server's table.  Within a session it only grows.          *)

ServerChangesTable ==
  /\ session => table = Absent
  /\ table' \in Tables \ {table}
  /\ UNCHANGED <<client, session, ns, qml>>

(* The null pointer ends the process, and it is started again. *)
ProcessEnds ==
  /\ ~Alive
  /\ client' = "Disconnected"
  /\ session' = FALSE
  /\ ns' = NewNamespaces
  /\ qml' = NewObjects(qml.id)
  /\ UNCHANGED table

-----------------------------------------------------------------------------
Application ==
  \/ \E id \in NodeIds : setNodeId(id)
  \/ \E monitored \in BOOLEAN : setMonitored(monitored)
  \/ \E isEnabled \in BOOLEAN : setNamespaceAutoupdate(isEnabled)
  \/ UpdateNamespaceArray
  \/ DisconnectFromEndpoint

ClientSignal == ClientConnecting \/ ClientConnected \/ SessionEnds \/ ClientDisconnected

NamespaceAnswer == NamespaceArrayRead \/ NamespaceArrayReadFails

NodeAnswer ==
  \/ AttributeRead
  \/ EnableMonitoringFinished
  \/ DisableMonitoringFinished

Next ==
  \/ Application
  \/ ClientSignal
  \/ NamespaceAnswer
  \/ NamespaceArrayNotified
  \/ \E good \in BOOLEAN : NamespaceMonitoringFinished(good)
  \/ \E good \in BOOLEAN : BackendAnswers(good)
  \/ NodeAnswer
  \/ \E i \in 1 .. MaxRequests, good \in BOOLEAN : ResolvedNode(i, good)
  \/ ServerChangesTable
  \/ ProcessEnds

(* A backend answers what it was asked. *)
Fairness == WF_vars(NamespaceAnswer)

Spec == Init /\ [][Next]_vars /\ Fairness

-----------------------------------------------------------------------------
(* Properties.                                                             *)

(* The objects hold values of their types. *)
TypeOK ==
  /\ client \in {"Disconnected", "Connecting", "Connected", "Closing"}
  /\ session \in BOOLEAN
  /\ table \in Tables
  /\ ns \in Namespaces
  /\ qml \in Objects

(* `connected' of a Connection means that the namespace array of this very *)
(* connection has been asked for and answered, so that node ids can be     *)
(* resolved; no answer of an earlier connection counts for the next.       *)
ConnectedIsAnswered == qml.connected /\ client = "Connected" => ns.answered

(* After a reconnect no node made on an earlier connection stays in use    *)
(* behind `connected', unless a resolver is still under way to replace it. *)
NoStaleNode ==
  qml.connected /\ client = "Connected" /\ qml.resolvers = <<>>
    => qml.node = NoNode \/ qml.fresh

(* The attribute cache holds values of the node in use: an answer to the   *)
(* node it replaced, already in the event queue, does not get in.          *)
CacheIsOwn == qml.cache \in {NoNode, qml.node}

(* A monitored item of the node is not kept from the application: once     *)
(* all answers are in, `monitored' is true while the item exists.          *)
ItemIsReported ==
  qml.item /\ qml.queue = <<>> /\ qml.events = <<>> => qml.monitoredState

(* A connection is reported, be the namespace array readable or not. *)
ConnectedIsReported ==
  client = "Connected" ~> qml.connected \/ client # "Connected"

(* The automatic update of the namespace table stays in place as long as   *)
(* isNamespaceAutoupdateEnabled() says so.                                 *)
AutoupdateIsKept ==
  ns.wanted /\ ns.hasNode /\ client = "Connected" /\ session /\ ns.queue = <<>> => ns.item
=============================================================================
