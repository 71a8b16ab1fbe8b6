# Qt OPC UA: a TLA+ model of the client, its plugins and its tools

This directory holds TLA+ modules that model the asynchronous core of Qt OPC UA, TLC
configurations that check them on small instances, and TLAPS proofs for every instance.
`PROJECT.json` lists the components, the runs, the source lines behind every
definition, the hazards that guided the properties, and the theorems.

Paths below are relative to the repository's `src/`: *client* is `src/opcua/client/`, *plugin* is
`src/plugins/opcua/open62541/`, *uacpp* is `src/plugins/opcua/uacpp/`, *qml* is `src/declarative_opcua/`.

## 1. The system

An application uses `QOpcUaClient` and `QOpcUaNode` objects on its own thread. A plugin
implements them on a second thread, over the open62541 stack or over the Unified Automation
SDK, which has a thread of its own. `QOpcUaGdsClient` and the QML module are written on top of
`QOpcUaClient` and live on the application's thread.

    application's thread                              plugin's thread
    QML Connection, ValueNode
    QOpcUaGdsClient
          |
    QOpcUaClient / QOpcUaClientPrivate  -- slots -->  Open62541AsyncBackend -- open62541 --- server
    QOpcUaNode / QOpcUaNodePrivate     <- signals --  QOpen62541Subscription
    QOpcUaHistoryReadResponse                         or UACppAsyncBackend -- SDK (thread) - server

Everything crosses the thread boundary as a queued event: calls with
`QMetaObject::invokeMethod(..., Qt::QueuedConnection)`, results as signals. Both directions are FIFO,
and nothing synchronises them with each other, so each side decides on a state that
the other may have left. Two signals are blocking: `connectError` (plugin/qopen62541backend.cpp:1036,
uacpp/quacppbackend.cpp:151) and `passwordForPrivateKeyRequired`.

| Component | State | Operations | Hard behaviour | What makes it correct |
|---|---|---|---|---|
| Client (client/qopcuaclientprivate.cpp) | `m_state`, `m_error`, `m_endpoint`, namespace array | connect, disconnect, `setStateAndError`, namespace update | late signals, calls in any state | legal order of states; agrees with the backend once queues are empty |
| Backend: connection (plugin/qopen62541backend.cpp) | `m_uaclient`, `m_useStateCallback`, two timers | `connectToEndpoint`, `disconnectInternal`, callbacks, `iterateClient` | eight exits of one slot, loss at any time, a stale zero timer | no transition unreported, no connection unattended |
| Backend: services | twelve `m_async...Context` maps keyed by request id | slots that dispatch, callbacks that answer | timeouts, closed sessions, id reuse, browse continuation | exactly one answer per request, contexts never cross |
| Backend: subscriptions (and plugin/qopen62541subscription.cpp) | `m_subscriptions`, `m_attributeMapping`, item tables, `m_minPublishingInterval` | enable, modify, disable, expiry, cleanup | expiry noticed now and handled later, cleanup up to three times, partial refusal | the tables agree, nothing is left on the server, a Good status is true |
| Node (client/qopcuanode_p.h) | `m_monitoringStatus`, attribute cache | requests, destructor | answers for destroyed nodes | as above |
| History response (client/qopcuahistoryreadresponseimpl.cpp) | state, continuation points, data mapping, data | `readMoreData`, `releaseContinuationPoints`, `handleDataAvailable` | lists that index one another, nodes that fail | each node has its own data, points are freed |
| Unified Automation backend (uacpp/quacppbackend.cpp, quacppsubscription.cpp) | session, `m_subscriptions`, `m_attributeMapping` | slots that call the SDK synchronously, callbacks on the SDK's thread | the SDK's thread clears tables a slot is using or has yet to write to; a connect that first tears down a lost session | the client's states follow the same contract, tables agree, and nothing of a lost session is left for the next |
| GDS client (client/qopcuagdsclient.cpp) | `m_state`, directory node and its methods, application id (also in persistent settings), three timers, `m_restartRequired` | start, chain of resolve / find / register / certificate calls, renewal, unregister | answers lost with the connection, restart in the middle, ids that outlive the registration, timers of an earlier connection | at most one registration, under an id the server knows; the chain does not stall |
| QML module (qml/opcuaconnection.cpp, opcuanode.cpp, opcuavaluenode.cpp, opcuapathresolver.cpp, universalnode.cpp) | `m_connected`, `m_node`, `m_resolvedNode`, attribute cache, `m_monitoredState` | node id changes, path resolution, monitoring | answers to nodes that were replaced, late namespace arrays, a namespace table that changes between sessions | nothing of an earlier node or connection is taken for current |
| Binary encoding (client/qopcuabinarydataencoding.h) | buffer, offset | `encode`, `decode`, arrays, roll back | three forms of a node id, failures in the middle, cut input | decode after encode is the identity; cut input is refused |
| Multidimensional arrays (client/qopcuamultidimensionalarray.cpp) | list, dimensions, cached length | constructors, setters, `arrayIndex` | wrap-around of the product | row-major, and no two tuples share an element while the product is an int |
| Discovery, value classes and converters, X509, plugin loading, generated ids | see section 6 | | | |

## 2. The modules

Each module keeps the source's names. Definitions that start with `Mut` are deliberately wrong
variants; no specification uses them.

**ClientContract** is the abstract specification: the order in which the values of
`QOpcUaClient::state` follow one another and that `Connecting` and `Closing` end.

**Connection** is the detailed one. The two event queues are the sequences `calls` and
`signals`. `connectToEndpoint` of the backend is split where other threads can see the difference:
up to the blocking `UA_Client_connect` (`BackendConnectStart`), and its outcomes
(`BackendConnectAbort`, `BackendConnectFails`, `BackendConnectSucceeds`); a failed connect waits for the
application's slots (`pc = "connectError"`, `HandleConnectError`). Every other slot is one action.
`disconnectInternal` resets the iterate timer and the state callback but not the disconnect timer, and
`StopWatching` says exactly that. `alive` is external: whether the channel has broken
behind open62541's back. `ImplementsContract` and `TransientStatesEnd` are the two halves of the
refinement; the mapping is the identity on `state`.

**AsyncRequests** models the twelve slots that dispatch a service, in one table (`Slots`): the
context map, the signal of a refused request, the signal of the callback. `Answered`, `RequestTimeout` and
`ClosingAnswers` are the three ways open62541 calls back. Request ids restart with every
`UA_Client_new`, while the maps are never cleared: this is why `ContextsAreExact` is worth a check. Payloads
are left out, except for browse, where the number of collected pages is kept. A step that
dereferences a null `m_uaclient` is modelled as `undefined`, after which nothing happens.

**Subscriptions** models monitoring: the node's table, the backend's two tables, the
items of each subscription object, the server's subscriptions. `ids` counts the entries of
`m_itemIdToItemMapping` by item, `byAttr` is `m_nodeHandleToItemMapping`; they differ when an
attribute is monitored twice in one object. The server may refuse any item, revises an interval
below `ServerMin`, and may expire a subscription, which the client notices (`SendTimeoutNotification`)
and handles later (`BackendTimeout`). The expiry event carries a pointer; handling it
after the object was deleted is `undefined`. The connection is reduced to what
subscriptions see of it.

**HistoryRead** models one response: pages on the server, continuation points, the
compaction of the node list by `readMoreData` and the data mapping. `historyReadRequestError` is
left out because `invokeMethod` of an existing slot does not fail. The mapping of indices starts at 1
instead of 0. `history` (how many pages each node has) is chosen by `Init`. The loop of `readMoreData` that collects the
positions with a point is `InOrder`, the list of a set of positions by rank. `ReadFor` names where an answer has the values of a
node; there is one such position at most, since the mapping is one to one (a conjunct of the proved invariant).

**GdsClient** models `QOpcUaGdsClient` on top of a client that behaves as `ClientContract` says
(`QtClient == INSTANCE ClientContract WITH state <- client`). `gds` is the private object, and its
functions of the code are functions from such a record to the next (`getApplication(g)`,
`registerApplication(g)`, ...), so that a handler which calls the next step is one action, as in the code.
An answer reaches the object only while the node that asked is alive; requests are therefore kept with the
node (`resolves`, `calls`) and vanish with it (`SetDirectory`). `resolves` is a set: the browse paths are asked for in the
order of `elementsToResolve` and answered in that order, so that the next answer is that of `FirstAsked`. `m_directoryNodes[...]` inserts an
empty id for a method that is not resolved, which `CallMethod` and `HandleUnexpectedCallFinished` keep,
since the size of the map decides when the chain goes on. `registered` is the server's directory: a call whose answer
is lost may have been executed (`ServerMayExecute`), the process may end at any time (`ProcessEnds`) and
only `settings` survives it. A null `m_directoryNode` that is dereferenced sets `fault`. Keys, certificates,
files and error codes are reduced to whether a step succeeds.

**Declarative** models the namespace array of `QOpcUaClientPrivate` (`ns`: cached array, outstanding read,
monitoring and its flag) together with a QML `Connection` and one `ValueNode` (`qml`). The node id
names its namespace by URI and is direct, or relative and then resolved by a request; several resolvers can be under way.
A request waits in `qml.queue`, its answer in `qml.events`. `setupNode` replaces the `QOpcUaNode` and
disconnects some of its signals: events already queued for the old node are marked (`own`) and
`AttributeRead` drops them, while the slots of the ValueNode stay connected.
`fresh` and `answered` are history variables. The server's table changes freely between sessions and only grows
within one.

**UaCppBackend** models the Unified Automation plugin with its three threads: queues `requests` and
`events`, the slot the plugin's thread is in (`slot`), and the SDK's callback (`callback`). A slot is split where it calls the SDK:
`connectToEndpoint` is `ConnectSlot` up to `disconnect()`, `Disconnects`, and from there `Opens` with its questions and outcomes;
`enableMonitoring` is `EnableCreates` when `createOnServer()` returns, `EnableLists` when `getSubscription()` writes the table, and
`EnableAdds`. `connectionStatusChanged` runs on the SDK's thread after `ConnectionLost`, one statement at a time and between any two
steps of a slot: the signal (`ReportsLost`), then `qDeleteAll` and the two `clear()` of `cleanupSubscriptions()` (`DeletesAll`,
`ClearsSubscriptions`, `ClearsMapping`). `deleted` names the subscriptions that are deleted and still in a table. A slot that uses one
(`UsesDeleted`), or whose subscription is deleted under it, is undefined behaviour (`fault`); the process then starts again.
What the plugin's own thread clears is one step, `NoTables`: a callback between its statements finds either deleted entries,
which is undefined, or an empty table.
The module uses `ClientContract` in the other direction: `ImplementsContract` and
`TransientStatesEnd` say that the client's state over this plugin implements the contract, as it does over open62541.
All subscriptions have one publishing interval, and the parameter `subscriptionId()` is not set.

**BinaryDataEncoding** and **MultiDimensionalArray** model the algorithms over bytes and over quint32 arithmetic
as operators, and their objects as state machines that use them. Every width is the code's; the numbers TLC is given stay in
the 32 bits it has, those of the proofs do not. `Modulus` stands for 2^32, so that products reach the limit at small lengths. A
structure is the sequence of its fields (`Fields`), of which the code's specialisations are the instances. The calls a
structure or a list is made of are chained by `Chain` (encode) and `InTurn` (decode), recursive functions over the number of
calls. `Encodable` is what the C++ types let an application pass: integers of their width, UTF-8 bytes with a length a qint32
can tell, node ids that `nodeIdStringSplit()` understands or not, and the three encodings of an extension object;
`InputsAssumption` asks it of `Inputs`.

The modules `MC*` give the constants values; the modules `*_proofs` hold the proofs about the module they are named after
(`Connection`, `UaCppBackend`, `Subscriptions`, `AsyncRequests`, `Declarative`, `GdsClient` and `HistoryRead`), and
`Values_proofs` those about `MultiDimensionalArray` and `BinaryDataEncoding`, which share their lemmas on recursive functions.

How they are composed: `ClientContract` is implemented by `Connection` and by `UaCppBackend` (both by `INSTANCE ... WITH`,
checked by TLC and proved), and `GdsClient` and `Declarative` are composed with it: each action that changes `client` is
an action of the contract. What the two upper layers are shown to do therefore holds over either plugin.

## 3. The runs

Passing runs:

| Run | Instance | Shows |
|---|---|---|
| connection | a plain, a secure and a malformed endpoint, 3 pending events | `ReportsAreComplete`, `WatchedOrClosing`, `SettledAgreement`, refinement of `ClientContract` with its liveness, `LossIsReported` |
| subscriptions | one node, two attributes, two subscription ids, shared / exclusive / by id, server minimum above the requested interval, 2 pending events | the tables agree (`MappedItemsExist`, `MappingIsExact`), no empty subscription, `GoodStatusIsMonitored` |
| async_requests | a browse in up to two pages, a method call, an empty batch, 3 pending events | `ContextsAreExact`, `RequestsAreConserved`, `AnswersPrecedeDisconnect`, `RequestsAreAnswered` |
| history | three nodes, up to three pages each, 2 pending events | `StaysInRange`, `DataIsInOrder`, `FinishedIsComplete`, `FirstReleaseFreesTheServer`, `ReadingEnds` |
| gds | two ids the server can assign, one signing request per process, valid or invalid PKI | `AtMostOneRegistration` over lost answers and process restarts; `RegisteredIsKnown` for ids that went stale; `RestartIsTaken`, `ChainDoesNotStall` |
| declarative | a direct and a relative node id, one index of the namespace, 2 pending requests | `ConnectedIsAnswered`, `NoStaleNode`, `CacheIsOwn`, `ItemIsReported`, `ConnectedIsReported` |
| uacpp | two nodes, two subscription ids, 2 pending calls, 3 pending signals, 2 questions per connect | `TablesAgree`, `NoEmptySubscription`, `LostSessionLeavesNoSubscription`, the refinement with its liveness, `EnableIsAnswered` |
| values | 44 values of all types, two in one buffer, cut at every byte; up to three dimensions of lengths 0, 2, 7 modulo 32, with symmetry of the two elements | `RoundTrip`, `CutIsRefused`; `IndexIsRowMajor`, `ArrayHoldsWhatWasSet` |

The runs of `Connection` and `UaCppBackend` check `TypeOK` as well, which is also proved. In the other modules the runs are
kept to the properties that say more; there `TypeOK` (`ArrayTypeOK` of the arrays) is part of the proved invariant.
`TypeOK` of `BinaryDataEncoding` is part of the proved invariant too.

Runs that end in a counterexample, each a sentence of the documentation or of a comment that the code
does not keep:

| Run | The sentence | What happens |
|---|---|---|
| connection_error | `ConnectionError`: "An error occurred with the connection" | the zero timer of a lost connection survives a queued reconnect and closes the new, healthy one |
| history_fault | entries say "which node has been read, its values" | the point of a failed node is left out, and later pages go to the wrong node |
| gds_directory | "find the "Directory" node", "Resolve the method nodes that are being used" before they are called | the trust list timer of an earlier registration fires on a new connection and calls through a null `m_directoryNode` |
| declarative_autoupdate | "will keep the local copy of the namespace table updated automatically" | `m_namespaceArrayAutoupdateEnabled` survives a disconnect, and the monitoring is not set up again |

Further observations met while modelling, without a run of their own.

Connection, services, subscriptions and history:

- A request queued behind a disconnect is dispatched on a null `m_uaclient` (`BackendDispatchOnNull`, undefined), against "The
  success of the operation is returned in the addNodeFinished() signal" (client/qopcuaclient.cpp:581).
- A failed browse operation has no references and is reported as Good (plugin/qopen62541backend.cpp:1372,
  `AsyncBrowseResultBad`).
- A second `enableMonitoring` with an unknown subscription id overwrites the Good status of an attribute
  that stays monitored (plugin/qopen62541backend.cpp:227, client/qopcuanode_p.h:126); the converse,
  `GoodStatusIsMonitored`, holds.
- A node destroyed before its `enableMonitoring` is answered leaves a monitored item, against "Disable remaining
  monitorings" (client/qopcuanode_p.h:223).
- After `readMoreData()` has compacted the list of points, `releaseContinuationPoints()` sends it with all
  nodes, and the backend's size check refuses it (plugin/qopen62541backend.cpp:589). Before that the release works, which
  `FirstReleaseFreesTheServer` checks.
- `endpoint()` is "currently connected to or was last connected to" (client/qopcuaclient.cpp:398), but
  `m_endpoint` is stored before the attempt, which may fail.
- `writeNodeAttributes` emits `readNodeAttributesFinished` when it cannot be sent
  (plugin/qopen62541backend.cpp:580; `BatchSlots`).
- When `BrowseNext` cannot be sent, references are emitted with a bad status
  (`AsyncBrowseNextRefused`), against client/qopcuanode.cpp:241.
- `callMethod` does not return after reporting an error and stores a context under id 0 (`RefusedContext`).
- An answer after `releaseContinuationPoints()` makes the response unfinished again, and a second
  `readMoreData()` before the first answer leaves `m_dataMapping` shorter than the answer it is used for. This
  is why the history properties are conditional on `mishaps`.
- "After the call is finished, the disableMonitoringFinished signal is emitted" (client/qopcuanode.cpp:637),
  but a `disableMonitoring` that overlaps with the expiry of its subscription finds no mapping and emits
  nothing (`BackendDisable` with nothing `Mapped`).
- After an expiry, a subscription can hold items `m_attributeMapping` has forgotten; hence
  `MappingIsExact` is conditional on `~expired`, and only `MappedItemsExist` holds always.

GDS client:

- With an invalid PKI configuration (or a malformed URL) a second `start()` stays in Connecting: the refusal has the
  same error as before, and `errorChanged` is not emitted.
- A failed connect ends in Idle, since `disconnected` follows `errorChanged`; `RegisteringApplication` is never set.
- A late namespace array sets the state to Connected while the client is Disconnected.
- Each `StartSigningRequest` connects the slot of the finish timer once more, so the next timeout calls `FinishRequest` several
  times (`finishSlots`); the interval doubles without a limit.
- A timer that calls an unresolved method inserts its name with an empty id (`CallMethod`), which later counts as resolved.
- `unregisterApplication()` leaves the id in the settings, and an id found by `FindApplications` is not stored there.
- A key or certificate file that could not be written completely stays and fails every later start.

QML module:

- A resolver for an earlier node id that answers last sets up its node (`ResolvedNode`); and a node that is replaced while it
  is monitored leaves `m_monitoredState` true, so that the new one is never monitored (qml/opcuavaluenode.cpp:267).
- `setMonitored(false)` before the answer to the enabling request is never carried out.
- `disableMonitoringFinished` with a bad status asks `node()`, which is null after a replacement (qml/opcuavaluenode.cpp:180).
- When the table lacks the name, `m_resolvedNode` keeps the index of an earlier table (`ResolveNamespace`), and a notification
  after a failed read does not resolve the node again.
- Seen but not modelled: `m_eventFilterActive` survives the node (qml/opcuanode.cpp:379), `readyToUse` survives a
  disconnect, `handleObjectNodeIdChanged` uses a null `m_objectNode` at first (qml/opcuamethodnode.cpp:221).

Unified Automation plugin:

- `cleanupSubscriptions()` runs on the SDK's thread without a lock (uacpp/quacppbackend.cpp:115, 127). It does not tell the
  nodes, which keep their Good status. A slot that meets it uses a deleted subscription (`fault`).
- `getSubscription()` may insert a subscription after its session was lost and the tables were cleared, since
  `createOnServer()` returned before (uacpp/quacppbackend.cpp:706, 713). It is then listed without a session. No item can be added to
  it, so the same slot takes it out again: that is what `LostSessionLeavesNoSubscription` states, and all that it states.
- An insertion between `qDeleteAll` and `clear()` is forgotten without being deleted.
- The loss is reported before the tables are cleared, so the application may react, and the plugin's thread begin
  `connectToEndpoint`, while they still hold deleted subscriptions. After `Disconnected`, `isConnected()` is false and the slot clears
  nothing. Because `connect()` waits for the callback (section 6), no slot of the new session sees them.
- `createResults[0]` is read although the list may be empty (uacpp/quacppsubscription.cpp:149).

Values:

- `encode<QByteArray>` drops the byte of a ByteString of length one (client/qopcuabinarydataencoding.h:751), and with it that of
  a node id, and of everything such a ByteString is part of (`Keeps` excludes them).
- `decode<QString>` takes a length that is cut for an empty string and succeeds, so a value with a QString anywhere in it, also in
  a node id, may be read although it breaks off there (`Strict` excludes them).
- An empty part of a `QOpcUaLocalizedText`, an empty namespace URI and the body of an extension object with the encoding
  NoBody are not encoded and come back as null; a date before 1601 or after 9999 comes back as an invalid one (`Expected`).
- `truncateBufferToOffset` keeps one byte behind the offset (client/qopcuabinarydataencoding.cpp:242), and a failing `encodeArray` or
  structure other than `QOpcUaArgument` leaves what it has appended; `torn` counts both.
- When the product of the dimensions wraps, `arrayIndex` can return an index behind the end of the list, and two tuples can get
  the same index: dimensions [3, 2863311531] have the length 1, and both [0, 0] and [1, 1431655765] the index 0. The second
  `setValue()` then overwrites the first. `ArrayHoldsWhatWasSet` therefore says "no other call has overwritten it" only while the product
  is an int; for other products it says that the last call under the shared index wins. In the run, [2, 7, 7] wraps to 2.

### Bounds

`MaxPending` limits the events queued *when the application calls*; the threads themselves
may exceed it. Two or three are enough for every pair of calls to overlap with a signal, a
timer and a loss, and all counterexamples above need no more. `MaxSubs` limits subscriptions over a whole
behaviour: two are needed for a subscription to be replaced while the events of the old one
are queued. `MaxPages` is the number of `BrowseNext` answers, or the pages of a node's history;
three nodes with up to three pages let the node list be compacted twice. The application makes
each request of AsyncRequests once.

In GdsClient two ids are needed for a second registration to be told from the first; `MaxSigning` counts
the signing requests a server accepts from one process. The hourly timers and `unregisterApplication()` wait until no call is
outstanding, `start()` is called only while Disconnected, and the server's administrator acts while nobody is connected.
In Declarative, `MaxRequests` limits what the node has asked for and its resolvers, two of which can overtake each other; one
index is enough, since a stale one is told by `fresh`. In UaCppBackend, two nodes can share a subscription or have
one each; two pending calls let a reconnect and an enableMonitoring wait behind a loss. `MaxAsks` limits the questions of one connect,
of which the code has no limit: the password loop ends when the application gives up. Of the values, each form and both sides of each limit are
present; two in one buffer show that a read ends where the next begins. One array may fail or be rolled back
(`MaxTorn`), and cuts are made in buffers of one value. Two elements of an array are set, under two tuples (`MaxSets`).

Instances of any size are what the proofs are for (section 4).

### Fairness

Both event loops serve queued events and zero timers, so the slots and handlers are weakly
fair. The iterate timer is periodic, so the callbacks of open62541 for broken channels and
timed out requests are. `connectionStatusChanged`, once called, runs to its end. `UA_Client_connect` returns because open62541 bounds it by a timeout, and the calls of the SDK
return. In `HistoryRead`, every request is answered or times out. In `GdsClient` and `Declarative`
the client keeps what `ClientContract` promises and the requests the properties wait for are answered, well or badly, which
`RequestsAreAnswered` shows of the open62541 backend; a process that has used a null pointer ends. No fairness is assumed of the
application, of the network or, beyond that, of the server; `ReadingEnds` asks only of an application
that keeps calling `readMoreData()`. `Subscriptions` has safety properties only.

`CHECK_DEADLOCK FALSE` stands where the model may stop: when a step is undefined, when the application
has made all its calls, or when a buffer is full. `Connection`, `GdsClient`, `Declarative` and `UaCppBackend` are checked for deadlock.

## 4. The proofs

`Connection_proofs` proves, for every set of endpoints and every `MaxPending`, from the two
assumptions of `Connection` (secure and malformed endpoints are endpoints, `NoEndpoint` is
none; `MaxPending` is a natural number):

- `TypeCorrect`: `TypeOK`.
- `Watched`: `WatchedOrClosing`. Needs `ConnectHoldsClient`: during a blocking connect there is a client, and
  while a connect error is reported there is none.
- `ReportsComplete`: `ReportsAreComplete`. The invariant speaks of the last queued signal only, and is
  not inductive when the oldest is taken from a queue of one; `SignalsAreLegal` strengthens it to
  the whole queue: each signal is a legal successor of the one before, starting from what the client was told,
  and the last one is the backend's state.
- `Refinement`: `ImplementsContract`. Follows from `SignalsAreLegal`: a handled signal is a legal successor
  of `state`; only `Closing` needs a thought, because the backend does not know it: the client was told
  `Connected` before, so the next report is `Disconnected`.
- `SettledAgree`: `SettledAgreement`. Adds `ClosingIsPending` (a client that is Closing has a disconnect
  call or a signal ahead of it) and `EndpointIsNewest` (`m_endpoint` belongs to the newest
  queued connect call or, without one, to the backend's client).

`UaCppBackend_proofs` proves, for all sets `Handles` and `SubIds` and all bounds, from the assumptions that `NoSub` is not a
subscription id and that the bounds are natural numbers:

- `UaCppTypeCorrect`: `TypeOK`. Needs `AskIsAwaited`: a question is in the event queue only while the slot waits for it, so that
  `DeliverAsk` finds a slot to resume.
- `UaCppTablesAgree`, `UaCppNoEmptySubscription`, `UaCppLostSessionLeavesNoSubscription`: together with `SlotIsBacked` and
  `CallbackIsBacked` they are one inductive invariant, `TablesInv`; none is inductive alone. `SlotIsBacked` says that a slot goes on with a
  subscription that is not deleted, and that until `qDeleteAll` it is listed; `CallbackIsBacked` says how far the
  SDK's thread has come: no session while it runs, nothing deleted before or after, and from `qDeleteAll` on no item mapped to
  anything but what it deletes. So an item is never added to a subscription that was listed too late, and its slot removes it.
- `UaCppRefinement`: `ImplementsContract`. As in Connection the queued state signals are legal successors of each other, here with
  repeated `Disconnected` and with the other signals between them; `ContractInv` relates what the client was told, what is
  queued, and the session, slot and callback it ends in (`SessionInv`): with a loss not yet reported the last word is still `Connected`. `Closing` again is unknown to the backend.

`Subscriptions_proofs` proves, for every finite set of nodes and attributes, all intervals and all bounds
(`FiniteAssumption`: an application registers finitely many nodes, and there are 22 attributes; a loop over items emits one signal
for each of them):

- `SubscriptionsTypeCorrect`, `SubscriptionsMappedItemsExist`, `SubscriptionsNoneEmpty`, `SubscriptionsMappingExact`: one
  inductive invariant, `TablesInv`. `MappedItemsExist` is lost at an expiry unless the queued `handleSubscriptionTimeout` removes
  every item the subscription has: `TimeoutsCover` says that its list covers them, which stays so because the server
  no longer has the subscription and nothing can be added to it. `IdsAreAssigned` and `ObjectsAreWhole` say that
  ids are fresh and that nothing is left of a deleted object.
- `SubscriptionsGoodStatus`: `GoodStatusIsMonitored` speaks of empty queues; `StatusInv` says for any queue that
  an item that is not monitored has, behind the last signal that makes its status Good, one that takes it back.

`AsyncRequests_proofs` proves, for every set of requests over the twelve slots and all bounds:

- `AsyncTypeCorrect`, `AsyncContextsExact`, `AsyncRequestsConserved`: one inductive invariant, `AsyncInv`. The ids of a connection
  are bounded by the set `Ids`; that the counter never leaves it is `IdsAreUsedOnce`: there is an injection from the ids used so far
  to what they were used for, a request or one further page of a browse, so there are no more ids than uses.
  `DispatchedOnce` ties the ids to the requests of this connection.
- `AsyncAnswersPrecedeDisconnect`: from `RequestsAreConserved` and the order in which `Close` queues its signals.

`Declarative_proofs` proves, for all sets of node ids and namespace indexes (`NoNodeAssumption`: a null pointer is no node):

- `DeclarativeTypeCorrect`, `DeclarativeConnectedAnswered`, `DeclarativeNoStaleNode`, `DeclarativeCacheOwn`, `DeclarativeItemReported`: from
  `DeclarativeInv`. `CacheIsOwn` needs `OwnEvents` (an answer that was not disowned is the node's) and `HasNode`;
  `ItemIsReported` needs `Reported`, which says for any event queue that the last word in it on the item is that it is there.

`GdsClient_proofs` proves, for every set of application ids and every number of signing requests:

- `GdsTypeCorrect`, `GdsAtMostOneRegistration`: from `GdsInv`. A second registration would be made by a `RegisterApplication` under way while
  the server has one. `Sound` says that such a call is made only when the server knows none, which lasts because one call
  of the chain is under way at most (`OneChain`), no other starts before all methods are resolved (`ChainIsLast`), and none
  survives a connection.
- `GdsRegisteredIsKnown`, an action property: from the last conjunct of `Sound`, that from GetCertificateGroups on the id
  is one the server knows. Every handler is shown either to leave the chain alone (`Aside`) or to be one of its steps (`ChainStep`).

`HistoryRead_proofs` proves, for any number of nodes, pages and pending calls, from the assumption that these are positive:

- `HistoryTypeCorrect`: from `ShapeInv`, which holds whatever goes wrong. It contains that m_dataMapping is one to one.
- `HistoryStaysInRange`: from `RangeInv`. While the application waits for its answers one request is under way at most, and all lists
  are tied to `Asked`, the nodes of that request: its points are no more than the nodes, an answer has an entry for each of
  them or none.
- `HistoryDataInOrder`: from `OrderInv`. A continuation point is that of the page after those the node has, at the position
  of the node in `Asked`, and the server keeps it; so the answer continues each node (`Continues`), whatever the
  compaction has left out.
- `HistoryFinishedComplete`: from `CompleteInv`. A node has been read to its end or has a point in the list.
- `HistoryFirstReleaseFrees`: from `ReleaseInv`. Until the list is compacted it names every point the server keeps.

The list operator `InOrder` chooses positions by their rank. That every rank is taken once (`RankIsTaken`, `RankIsStrict`) is proved with
the least-number principle (`LeastNumber`), which follows from the library's theorem on well-founded relations; it stands in for
the induction theorems, whose operator parameters the provers do not instantiate.

`Values_proofs` proves of `MultiDimensionalArray`, for a quint32 of any width (`ModulusAssumption`), any set of lengths that are quint32
(`LengthsAssumption`) and any number of dimensions (`ArrayBoundsAssumption`: the bounds are natural numbers):

- `ArrayIndexIsRowMajor`: `IndexIsRowMajor`. The loop of `arrayIndex()` and the product of `std::accumulate()` are recursive functions.
  That these exist (`RecursionExists`) and what they compute is shown by induction over the rounds (`Descent`, again from
  `LeastNumber`): when the product of the dimensions is an int, neither stride nor index wraps for indices
  in bounds (`LoopIsExact`). So the index grows in row-major order (`OrderIsKept`), no two tuples share one (`IndexOrders`) and every number below
  the product is one (`IndexIsOnto`); together they make it the rank (`IndexIsRank`). The cached length equals the product even
  where a partial product wraps, as before a dimension of length 0 (`ExpectedLengthIsProduct`, by congruence).
- `ArrayKeepsWhatWasSet`: `ArrayHoldsWhatWasSet`. From `IndexOrders`, and `ArrayInv`: the indices under which a
  value is stored are still those of an element, since the setters that change this forget what was set. `IndexOrders` needs the
  product to be an int, and so does the part of the theorem that no other tuple overwrites an element; the rest needs neither.
- `ArrayTypeCorrect`: `ArrayTypeOK`.

`Values_proofs` proves of `BinaryDataEncoding`, for every set of values an application can encode (`InputsAssumption`), encoded in
any order and number into one buffer with any roll backs (`BoundsAssumption`: the bounds are natural numbers) and cut at any byte:

- `ValuesInvariant`: `IInv`. `RoundTrip` and `CutIsRefused` speak of the value that was decoded last and are lost when another is
  decoded, unless the buffer is known to hold it. `Intact` says so of every item: the bytes that `encode` makes of it are
  in the buffer from the position where it was appended (`Holds`), or the buffer has been cut and ends within them (`Breaks`).
- `ValuesRoundTrip`, `CutValuesAreRefused`, `BufferTypeCorrect`: from `ValuesInvariant`. A step of `Decode` has them by `ValueCodec`:
  for each type, where the buffer holds the bytes of a value `decode` returns it and moves the offset behind them (`Reads`), and where
  it ends within them `decode` fails (`Refuses`), whatever stands before and behind; `ValueBounded` adds that no read of
  anything goes past the end.
- `ValueCodec` is shown type by type, from the bytes up: a number by induction over its bytes, of which
  each takes off and adds what it is worth, with the sign in the last; strings and optional parts by their lengths and flags; each form of a node id by
  the flags in its first byte; lists and structures by induction over the calls they are made of (`Ascent`), which are also shown
  to exist as functions (`ChainSteps`, `InTurnSteps`). `EncodeKeeps`, `TruncateKeeps` and `CutShortKeeps` show that every change
  of the buffer leaves what it does not touch.

The attempt to prove `RoundTrip` and `CutIsRefused` found that they had been stated for more than the code does: for node ids with a
ByteString of one byte inside of other values, for a string node id inside of a list or an extension object, and for the empty parts listed in section 3.
The instance had no such values. Now they say which ones they are about (`Keeps`, `Strict`) and what is read (`Expected`), and the instance has
some of them.

Each inductive invariant was checked by TLC on the instance of its run before it was proved.

Only model-checked: the liveness properties (`TransientStatesEnd`, `LossIsReported`, `RequestsAreAnswered`, `ReadingEnds`,
`RestartIsTaken`, `ChainDoesNotStall`, `ConnectedIsReported`, `EnableIsAnswered`), which are beyond the prover, as is whatever
speaks of fairness. The library's induction theorems cannot be used either, since their operator parameters cannot be instantiated;
where an induction was needed it is made with `LeastNumber` over a set instead.

## 5. Plan

Done: Connection with its contract; AsyncRequests, Subscriptions, HistoryRead; the namespace array and the QML
node (Declarative), GdsClient, UaCppBackend with its refinement, and the value algorithms. All safety properties of the
passing runs are proved.

Left, in this order:

1. Subscriptions: `modifyMonitoring` and the delivery of values and events to nodes that may be gone, in both plugins.
2. AsyncRequests over `Connection` itself instead of its reduced connection.
3. QML: method nodes, event filters and the batch reads and writes of `Connection`.

## 6. Not modelled, and why

About 28,900 of the repository's 81,500 implementation lines are the generated tables client/qopcuanodeids.{h,cpp}; most of
the rest outside the components above is value classes, converters and wrappers without protocol state. The map therefore covers
a small share of all lines and most of those that decide what happens when.

- Value conversion (plugin/qopen62541valueconverter.cpp, uacpp/quacppvalueconverter.cpp), value classes, X509:
  copies and library calls without protocol state.
- Generated node ids, and the vendored open62541 stack, which appears as external behaviour.
- The Unified Automation SDK: not in the repository. It is taken to make one callback at a time; `connect()` and `disconnect()`
  return after their own callback and after one that is running; `isConnected()` turns false in
  `connectionStatusChanged(Disconnected)` or in `disconnect()`, not before. `UaCppLostSessionLeavesNoSubscription` and `UaCppRefinement`
  depend on it. Two threads inside one container at the same moment are a data race in the code; the model has
  the order of the statements, not what the race does to the container, also within `removeSubscription()`, which calls the SDK
  between its lookup and its removal. The plugin's services are synchronous: each slot makes one SDK call and emits one signal.
- Certificates, authentication and PKI contents: only whether they are accepted.
- Discovery (`requestEndpoints`, `findServers`): blocking calls on a temporary client.
- Plugin loading; the destruction of the client object and of the plugin's thread.
- `modifyMonitoring`, event filters, method nodes and server discovery of the QML module.
