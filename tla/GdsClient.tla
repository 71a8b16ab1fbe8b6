------------------------------ MODULE GdsClient ------------------------------
(***************************************************************************)
(* QOpcUaGdsClient: the registration of an application with a global       *)
(* discovery server and the renewal of its certificate.                    *)
(*                                                                         *)
(* All of the object's code runs on the application's thread.  It is a     *)
(* chain of asynchronous requests on nodes of a QOpcUaClient: each answer  *)
(* triggers the next request, three timers and the application's own calls *)
(* cut in between, and the connection may be lost and made again at any    *)
(* moment.  The QOpcUaClient underneath is taken as ClientContract         *)
(* describes it.                                                           *)
(*                                                                         *)
(* `gds' is the private object.  An answer reaches the object only while   *)
(* the QOpcUaNode that asked is alive, so the requests that wait for one   *)
(* are kept with it: resolves and calls of the directory node, and `waits' *)
(* for the other nodes.  Deleting a node forgets its requests.             *)
(***************************************************************************)
EXTENDS Naturals, FiniteSets, Sequences

CONSTANTS
  AppIds,      \* application ids the server can assign
  NoId,        \* the empty id, or "ns=0;i=0"
  MaxSigning   \* bound: signing requests the server accepts from one process

ASSUME AppIdsAssumption == NoId \notin AppIds /\ AppIds # {}

ASSUME BoundsAssumption == MaxSigning \in Nat \ {0}

VARIABLES
  gds,         \* QOpcUaGdsClientPrivate
  client,      \* QOpcUaClient::state() of m_client
  accessDenied,\* m_client's error() is AccessDenied
  connecting,  \* a connectToEndpoint() is posted to m_client's backend
  pkiValid,    \* m_pkiConfig passes the checks of QOpcUaClient
  settings,    \* "gds/applicationId" in the persistent settings
  registered   \* external: ids under which the server knows the application

vars  == <<gds, client, accessDenied, connecting, pkiValid, settings, registered>>

elementsToResolve ==
  <<"GetApplication", "FindApplications", "RegisterApplication", "UnregisterApplication",
    "GetCertificateGroups", "GetCertificateStatus", "StartSigningRequest", "FinishRequest",
    "GetTrustList">>

Methods == {elementsToResolve[i] : i \in DOMAIN elementsToResolve}

(* Requests of nodes other than the directory: the cached namespace array, *)
(* the path to the directory, and what follows the certificate groups.     *)
Waits == {"NamespaceArray", "Directory", "CertificateTypes", "ReadTypes"}

States == {"Idle", "BackendInstantiated", "Connecting", "Connected",
           "RegisteringApplication", "ApplicationRegistered", "Error"}

Private ==
  [state : States, hasClient : BOOLEAN, appId : AppIds \cup {NoId},
   directory : {"null", "ObjectsFolder", "Directory"},
   nodes : [Methods -> {"absent", "empty", "resolved"}],
   resolves : SUBSET Methods, calls : [Methods \cup {"null"} -> Nat], waits : SUBSET Waits,
   groupNode : BOOLEAN, restartRequired : BOOLEAN,
   timers : BOOLEAN, requestId : BOOLEAN, finishTimer : BOOLEAN, finishSlots : Nat,
   fault : BOOLEAN]

NewPrivate ==
  [state |-> "Idle", hasClient |-> FALSE, appId |-> NoId,
   directory |-> "null", nodes |-> [m \in Methods |-> "absent"],
   resolves |-> {}, calls |-> [m \in Methods \cup {"null"} |-> 0], waits |-> {},
   groupNode |-> FALSE, restartRequired |-> FALSE,
   timers |-> FALSE, requestId |-> FALSE, finishTimer |-> FALSE, finishSlots |-> 0,
   fault |-> FALSE]

(* The process has not used a null pointer. *)
Alive == ~gds.fault

QtClient == INSTANCE ClientContract WITH state <- client

Init ==
  /\ gds = NewPrivate
  /\ client = "Disconnected"
  /\ accessDenied = FALSE
  /\ connecting = FALSE
  /\ pkiValid \in BOOLEAN
  /\ settings = NoId
  /\ registered = {}

-----------------------------------------------------------------------------
(* Steps of the private object, as functions of it.                        *)

(* The error code, which only error() returns, is left out. *)
setError(g) == [g EXCEPT !.state = "Error"]

setState(g, s) == [g EXCEPT !.state = s]

(* delete m_directoryNode, or its replacement: its answers are lost. *)
SetDirectory(g, node) ==
  [g EXCEPT !.directory = node,
            !.resolves = {},
            !.calls = [m \in DOMAIN @ |-> 0],
            !.waits = @ \ {"Directory"}]

(* m_directoryNode->callMethod(m_directoryNodes[m]): operator[] inserts an *)
(* empty id for a method that is not resolved.  Without a node the null    *)
(* pointer is dereferenced.  Nothing is connected to methodCallFinished of *)
(* the Objects folder.                                                     *)
CallMethod(g, m) ==
  LET h == [g EXCEPT !.nodes[m] = IF @ = "absent" THEN "empty" ELSE @]
      id == IF g.nodes[m] = "resolved" THEN m ELSE "null"
  IN CASE g.directory = "null"          -> [h EXCEPT !.fault = TRUE]
       [] g.directory = "ObjectsFolder" -> h
       [] g.directory = "Directory"     -> [h EXCEPT !.calls[id] = @ + 1]

(* The steps that check m_directoryNode first. *)
CallDirectory(g, m) ==
  CASE client # "Connected"                             -> g
    [] client = "Connected" /\ g.directory = "null"     -> setError(g)
    [] client = "Connected" /\ g.directory # "null"     -> CallMethod(g, m)

getApplication(g) == CallDirectory(g, "GetApplication")

findRegisteredApplication(g) ==
  CallDirectory(g, "FindApplications")

registerApplication(g) ==
  IF g.appId # NoId THEN g
  ELSE CallDirectory(g, "RegisterApplication")

getCertificateGroups(g) ==
  CallDirectory(g, "GetCertificateGroups")

(* A request whose arguments may be missing: no certificate groups, or a   *)
(* key file that cannot be read.                                           *)
Attempt(g, m) ==
  {CallDirectory(g, m)} \cup
    (IF client = "Connected" /\ g.directory # "null" THEN {setError(g)} ELSE {})

getCertificateStatus(g) == Attempt(g, "GetCertificateStatus")

startCertificateRequest(g) == Attempt(g, "StartSigningRequest")

finishCertificateRequest(g) ==
  CASE client # "Connected"                       -> g
    [] client = "Connected" /\ ~g.requestId       -> setError(g)
    [] client = "Connected" /\ g.requestId        -> CallMethod(g, "FinishRequest")

(* _q_updateTrustList *)
UpdateTrustList(g) ==
  IF client = "Connected" /\ g.groupNode THEN CallMethod(g, "GetTrustList") ELSE g

(* _q_certificateCheckTimeout: the certificate file cannot be read, or is  *)
(* self-signed or due, or the server is asked.                             *)
CertificateCheck(g) == {g} \cup getCertificateStatus(g) \cup startCertificateRequest(g)

resolveMethodNodes(g) ==
  [g EXCEPT !.resolves = {m \in Methods : g.nodes[m] # "resolved"}]

(* A request of another node, refused without a connection. *)
Ask(g, w) ==
  IF client = "Connected" THEN [g EXCEPT !.waits = @ \cup {w}] ELSE setError(g)

(* m_client->disconnectFromEndpoint() does nothing unless Connected. *)
Disconnect == client' = IF client = "Connected" THEN "Closing" ELSE client

MutRestartWithCredentials(g) ==
  /\ gds' = [g EXCEPT !.restartRequired = TRUE]
  /\ UNCHANGED client

(* authenticationRequired() has supplied the credentials. *)
restartWithCredentials(g) ==
  /\ gds' = [g EXCEPT !.restartRequired = TRUE]
  /\ Disconnect

-----------------------------------------------------------------------------
(* start().                                                                *)

StartInvalidBackend ==
  /\ Alive /\ ~gds.hasClient
  /\ gds' = setError(gds)
  /\ UNCHANGED <<client, accessDenied, connecting, pkiValid, settings, registered>>

(* The application does not start a client that is connected. *)
MayStart == Alive /\ client = "Disconnected" /\ ~connecting

Started == [gds EXCEPT !.hasClient = TRUE, !.state = "Connecting"]

(* No endpoint URL, or the key or the certificate cannot be created,       *)
(* opened or read.                                                         *)
StartFails ==
  /\ MayStart
  /\ gds' = setError(Started)
  /\ UNCHANGED <<client, accessDenied, connecting, pkiValid, settings, registered>>

(* The persistent application id replaces the one of the record. *)
LoadId(g) == IF settings = NoId THEN g ELSE [g EXCEPT !.appId = settings]

(* start() to its end: m_client posts the connect, or refuses it.  The     *)
(* refusal is signalled only when it changes error().                      *)
Start(g) ==
  IF pkiValid
  THEN gds' = LoadId(g) /\ connecting' = TRUE /\ UNCHANGED accessDenied
  ELSE /\ gds' = IF accessDenied THEN LoadId(g) ELSE setError(LoadId(g))
       /\ accessDenied' = TRUE
       /\ UNCHANGED connecting

StartCalled ==
  /\ MayStart
  /\ Start(Started)
  /\ UNCHANGED <<client, pkiValid, settings, registered>>

-----------------------------------------------------------------------------
(* Signals of m_client.                                                    *)

ClientConnecting ==
  /\ Alive /\ connecting
  /\ QtClient!Connect
  /\ connecting' = FALSE
  /\ gds' = [gds EXCEPT !.waits = {}]
  /\ UNCHANGED <<accessDenied, pkiValid, settings, registered>>

(* m_client asks for the namespace array as soon as it is connected. *)
ClientConnected ==
  /\ Alive
  /\ QtClient!Resolve /\ client' = "Connected"
  /\ gds' = [gds EXCEPT !.waits = @ \cup {"NamespaceArray"}]
  /\ UNCHANGED <<accessDenied, connecting, pkiValid, settings, registered>>

(* What the server may have done for calls whose answer is lost. *)
ServerMayExecute ==
  \/ UNCHANGED registered
  \/ /\ gds.calls["RegisterApplication"] > 0
     /\ \E id \in AppIds \ registered : registered' = registered \cup {id}
  \/ /\ gds.calls["UnregisterApplication"] > 0
     /\ registered' = registered \ {gds.appId}

MutKeepNodes(g) == [SetDirectory(g, "null") EXCEPT !.state = "Idle"]

(* The slot of `disconnected' up to the restart. *)
ForgetDirectory(g) ==
  [SetDirectory(g, "null") EXCEPT !.nodes = [m \in Methods |-> "absent"], !.state = "Idle"]

(* errorChanged() comes before disconnected().  Requests of the other      *)
(* nodes are not answered any more, or are answered late.                  *)
ClientDisconnected ==
  /\ Alive
  /\ QtClient!Resolve \/ QtClient!Lose \/ QtClient!Closed
  /\ client' = "Disconnected"
  /\ \E late \in {{}, gds.waits} :
       LET g == [ForgetDirectory(gds) EXCEPT !.waits = late]
       IN IF gds.restartRequired
          THEN Start([g EXCEPT !.restartRequired = FALSE, !.state = "Connecting"])
          ELSE /\ gds' = g
               /\ UNCHANGED <<accessDenied, connecting>>
  /\ ServerMayExecute
  /\ UNCHANGED <<pkiValid, settings>>

(* A restart that fails as StartFails does. *)
RestartFails ==
  /\ Alive
  /\ gds.restartRequired
  /\ QtClient!Lose \/ QtClient!Closed
  /\ client' = "Disconnected"
  /\ gds' = setError([ForgetDirectory(gds) EXCEPT !.restartRequired = FALSE])
  /\ ServerMayExecute
  /\ UNCHANGED <<accessDenied, connecting, pkiValid, settings>>

-----------------------------------------------------------------------------
(* Answers.                                                                *)

Online == client \in {"Connected", "Closing"}

Answered(w) == [gds EXCEPT !.waits = @ \ {w}]

(* namespaceArrayUpdated: setState(Connected) and resolveDirectoryNode().  *)
(* `found' unless the namespace or the Objects folder is missing.          *)
HandleNamespaceArrayUpdated(found) ==
  /\ Alive
  /\ "NamespaceArray" \in gds.waits
  /\ found => Online
  /\ LET g == setState(Answered("NamespaceArray"), "Connected")
         h == SetDirectory(g, "ObjectsFolder")
     IN gds' = CASE client # "Connected"           -> g
                 [] client = "Connected" /\ found  -> [h EXCEPT !.waits = @ \cup {"Directory"}]
                 [] client = "Connected" /\ ~found -> setError(h)
  /\ UNCHANGED <<client, accessDenied, connecting, pkiValid, settings, registered>>

(* The Objects folder's resolveBrowsePathFinished. *)
HandleDirectoryResolved(good) ==
  /\ Alive
  /\ "Directory" \in gds.waits
  /\ good => Online
  /\ LET g == SetDirectory(gds, "null")
     IN gds' = IF good THEN resolveMethodNodes([g EXCEPT !.directory = "Directory"])
               ELSE setError(g)
  /\ UNCHANGED <<client, accessDenied, connecting, pkiValid, settings, registered>>

AllResolved(g) == \A m \in Methods : g.nodes[m] # "absent"

MutNextStep(g) == IF g.appId = NoId THEN registerApplication(g) ELSE getApplication(g)

MutTrustId(g) ==
  IF g.appId = NoId THEN findRegisteredApplication(g) ELSE getCertificateGroups(g)

NextStep(g) == IF g.appId = NoId THEN findRegisteredApplication(g) ELSE getApplication(g)

(* Of the methods that wait to be resolved, the one asked for first. *)
FirstAsked(m) ==
  \E i \in DOMAIN elementsToResolve :
    m = elementsToResolve[i] /\ \A j \in 1..(i - 1) : elementsToResolve[j] \notin gds.resolves

(* _q_handleResolveBrowsePathFinished; a name that has an entry, be it     *)
(* empty, is an error.  The answers come in the order of the requests.     *)
HandleResolveBrowsePathFinished(good) ==
  /\ Alive
  /\ good => Online
  /\ ~good => Cardinality(gds.resolves) + Cardinality({m \in Methods : gds.nodes[m] # "absent"})
                >= Len(elementsToResolve)
  /\ \E m \in gds.resolves :
       /\ FirstAsked(m)
       /\ LET g == [gds EXCEPT !.resolves = @ \ {m}]
              h == [g EXCEPT !.nodes[m] = "resolved"]
          IN gds' = CASE gds.nodes[m] # "absent" \/ ~good -> setError(g)
                      [] gds.nodes[m] = "absent" /\ good  -> IF AllResolved(h) THEN NextStep(h) ELSE h
  /\ UNCHANGED <<client, accessDenied, connecting, pkiValid, settings, registered>>

(* _q_handleDirectoryNodeMethodCallFinished takes the handler of m. *)
Taken(m) == [gds EXCEPT !.calls[m] = @ - 1]

Finished(m) == Alive /\ gds.calls[m] > 0

(* A bad status, or a result of the wrong shape. *)
HandleCallFails(m) ==
  /\ Finished(m)
  /\ gds' = setError(Taken(m))
  /\ UNCHANGED <<client, accessDenied, connecting, pkiValid, settings, registered>>

(* The answer to a call with an empty method id matches no entry, and the  *)
(* comparisons have inserted the missing ones.                             *)
HandleUnexpectedCallFinished ==
  /\ Finished("null")
  /\ gds' = [Taken("null") EXCEPT !.nodes =
               [m \in Methods |-> IF @[m] = "absent" THEN "empty" ELSE @[m]]]
  /\ UNCHANGED <<client, accessDenied, connecting, pkiValid, settings, registered>>

HandleGetApplicationFinished ==
  /\ Finished("GetApplication") /\ Online
  /\ gds.appId \in registered
  /\ gds' = getCertificateGroups(Taken("GetApplication"))
  /\ UNCHANGED <<client, accessDenied, connecting, pkiValid, settings, registered>>

(* BadNotFound: the id is forgotten, in the settings too. *)
HandleGetApplicationNotFound ==
  /\ Finished("GetApplication") /\ Online
  /\ gds.appId \notin registered
  /\ settings' = NoId
  /\ restartWithCredentials([Taken("GetApplication") EXCEPT !.appId = NoId])
  /\ UNCHANGED <<accessDenied, connecting, pkiValid, registered>>

HandleFindApplicationsFinished ==
  /\ Finished("FindApplications") /\ Online
  /\ LET g == Taken("FindApplications")
     IN IF registered = {} THEN gds' = registerApplication(g)
        ELSE \E id \in registered : gds' = getCertificateGroups([g EXCEPT !.appId = id])
  /\ UNCHANGED <<client, accessDenied, connecting, pkiValid, settings, registered>>

(* BadUserAccessDenied of an anonymous session asks for credentials.  That  *)
(* the session is anonymous is left open.                                  *)
HandleRegisterApplicationDenied ==
  /\ Finished("RegisterApplication") /\ Online
  /\ restartWithCredentials(Taken("RegisterApplication"))
  /\ UNCHANGED <<accessDenied, connecting, pkiValid, settings, registered>>

HandleRegisterApplicationFinished ==
  /\ Finished("RegisterApplication") /\ Online
  /\ \E id \in AppIds \ registered :
       /\ registered' = registered \cup {id}
       /\ settings' = id
       /\ gds' = getCertificateGroups([Taken("RegisterApplication") EXCEPT !.appId = id])
  /\ UNCHANGED <<client, accessDenied, connecting, pkiValid>>

(* Groups received, and resolveCertificateTypes(). *)
HandleGetCertificateGroupsFinished ==
  /\ Finished("GetCertificateGroups") /\ Online
  /\ LET g == Taken("GetCertificateGroups")
     IN gds' \in {setError(g),
                  Ask([g EXCEPT !.groupNode = (client = "Connected") \/ @], "CertificateTypes")}
  /\ UNCHANGED <<client, accessDenied, connecting, pkiValid, settings, registered>>

(* The group's resolveBrowsePathFinished, and getCertificateTypes(). *)
HandleCertificateTypesResolved(good) ==
  /\ Alive
  /\ "CertificateTypes" \in gds.waits
  /\ good => Online
  /\ LET g == Answered("CertificateTypes")
     IN gds' = IF good THEN Ask(g, "ReadTypes")
               ELSE setError(g)
  /\ UNCHANGED <<client, accessDenied, connecting, pkiValid, settings, registered>>

(* The types node's attributeUpdated, whatever it says: registrationDone() *)
(* starts both periodic timers and runs both of their slots.               *)
RegistrationDone ==
  /\ Alive
  /\ "ReadTypes" \in gds.waits
  /\ LET g == [Answered("ReadTypes") EXCEPT !.state = "ApplicationRegistered", !.timers = TRUE]
     IN gds' \in {UpdateTrustList(h) : h \in CertificateCheck(g)}
  /\ UNCHANGED <<client, accessDenied, connecting, pkiValid, settings, registered>>

HandleGetCertificateStatusFinished ==
  /\ Finished("GetCertificateStatus") /\ Online
  /\ LET g == Taken("GetCertificateStatus")
     IN gds' \in {g} \cup startCertificateRequest(g)
  /\ UNCHANGED <<client, accessDenied, connecting, pkiValid, settings, registered>>

(* The slot is connected to the finish timer once more with each answer. *)
HandleStartSigningRequestFinished ==
  /\ Finished("StartSigningRequest") /\ Online
  /\ gds.finishSlots < MaxSigning
  /\ gds' = [Taken("StartSigningRequest") EXCEPT
               !.requestId = TRUE, !.finishTimer = TRUE, !.finishSlots = @ + 1]
  /\ UNCHANGED <<client, accessDenied, connecting, pkiValid, settings, registered>>

(* BadNothingToDo: try again later. *)
HandleFinishRequestNotReady ==
  /\ Finished("FinishRequest") /\ Online
  /\ gds' = [Taken("FinishRequest") EXCEPT !.finishTimer = TRUE]
  /\ UNCHANGED <<client, accessDenied, connecting, pkiValid, settings, registered>>

(* Good: the files are written, or cannot be. *)
HandleFinishRequestFinished ==
  /\ Finished("FinishRequest") /\ Online
  /\ LET g == [Taken("FinishRequest") EXCEPT !.requestId = FALSE]
     IN gds' \in {g, setError(g)}
  /\ UNCHANGED <<client, accessDenied, connecting, pkiValid, settings, registered>>

(* The node of the trust list is read; its answer only emits               *)
(* trustListUpdated().                                                     *)
HandleGetTrustListFinished ==
  /\ Finished("GetTrustList") /\ Online
  /\ gds' = IF client = "Connected" THEN Taken("GetTrustList") ELSE setError(Taken("GetTrustList"))
  /\ UNCHANGED <<client, accessDenied, connecting, pkiValid, settings, registered>>

-----------------------------------------------------------------------------
(* Timers, and the application.                                            *)

(* Answers come faster than the hourly timers, and the application waits   *)
(* for them.                                                               *)
NoCallPending == Alive /\ \A m \in DOMAIN gds.calls : gds.calls[m] = 0

CertificateCheckTimeout ==
  /\ gds.timers
  /\ NoCallPending
  /\ gds' \in CertificateCheck(gds)
  /\ UNCHANGED <<client, accessDenied, connecting, pkiValid, settings, registered>>

TrustListTimeout ==
  /\ gds.timers
  /\ NoCallPending
  /\ gds' = UpdateTrustList(gds)
  /\ UNCHANGED <<client, accessDenied, connecting, pkiValid, settings, registered>>

(* Every connected slot calls finishCertificateRequest(). *)
FinishTimeout ==
  /\ Alive
  /\ gds.finishTimer
  /\ LET g == finishCertificateRequest([gds EXCEPT !.finishTimer = FALSE])
         more == gds.finishSlots - 1
     IN gds' = [g EXCEPT !.calls = [m \in DOMAIN @ |->
                   IF @[m] > gds.calls[m] THEN @[m] + more ELSE @[m]]]
  /\ UNCHANGED <<client, accessDenied, connecting, pkiValid, settings, registered>>

UnregisterApplication ==
  /\ NoCallPending
  /\ gds.appId # NoId
  /\ gds' = IF client = "Connected"
            THEN CallDirectory(gds, "UnregisterApplication")
            ELSE setError(gds)
  /\ UNCHANGED <<client, accessDenied, connecting, pkiValid, settings, registered>>

HandleUnregisterApplicationFinished ==
  /\ Finished("UnregisterApplication") /\ Online
  /\ gds' = Taken("UnregisterApplication")
  /\ registered' = registered \ {gds.appId}
  /\ Disconnect
  /\ UNCHANGED <<accessDenied, connecting, pkiValid, settings>>

-----------------------------------------------------------------------------
(* External.                                                               *)

(* The process ends, or dies of the null pointer, and is started again. *)
ProcessEnds ==
  /\ gds' = NewPrivate
  /\ client' = "Disconnected"
  /\ accessDenied' = FALSE
  /\ connecting' = FALSE
  /\ ServerMayExecute
  /\ UNCHANGED <<pkiValid, settings>>

(* The administrator of the server removes the registration. *)
ServerForgets ==
  /\ client = "Disconnected"
  /\ registered # {}
  /\ registered' = {}
  /\ UNCHANGED <<gds, client, accessDenied, connecting, pkiValid, settings>>

-----------------------------------------------------------------------------
Application == StartInvalidBackend \/ StartFails \/ StartCalled \/ UnregisterApplication

ClientSignal == ClientConnecting \/ ClientConnected \/ ClientDisconnected \/ RestartFails

NodeAnswer ==
  \/ \E good \in BOOLEAN :
       \/ HandleNamespaceArrayUpdated(good)
       \/ HandleDirectoryResolved(good)
       \/ HandleCertificateTypesResolved(good)
       \/ HandleResolveBrowsePathFinished(good)
  \/ RegistrationDone

(* The calls of the chain; one of them waits at a time. *)
ChainMethods ==
  {"GetApplication", "FindApplications", "RegisterApplication", "GetCertificateGroups"}

ChainAnswer ==
  \/ \E m \in ChainMethods : HandleCallFails(m)
  \/ HandleGetApplicationFinished
  \/ HandleGetApplicationNotFound
  \/ HandleFindApplicationsFinished
  \/ HandleRegisterApplicationDenied
  \/ HandleRegisterApplicationFinished
  \/ HandleGetCertificateGroupsFinished

OtherAnswer ==
  \/ \E m \in Methods \ ChainMethods : HandleCallFails(m)
  \/ HandleUnexpectedCallFinished
  \/ HandleGetCertificateStatusFinished
  \/ HandleStartSigningRequestFinished
  \/ HandleFinishRequestNotReady
  \/ HandleFinishRequestFinished
  \/ HandleGetTrustListFinished
  \/ HandleUnregisterApplicationFinished

Timer == CertificateCheckTimeout \/ TrustListTimeout \/ FinishTimeout

Environment == ProcessEnds \/ ServerForgets

Next == Application \/ ClientSignal \/ NodeAnswer \/ ChainAnswer \/ OtherAnswer \/ Timer \/ Environment

(* A posted call runs, the client keeps the promises of ClientContract,    *)
(* the backend answers every request of a live connection, and a null      *)
(* pointer ends the process.                                               *)
Fairness ==
  /\ WF_vars(ClientConnecting)
  /\ WF_vars(ClientConnected \/ ((ClientDisconnected \/ RestartFails) /\ client # "Connected"))
  /\ WF_vars(ProcessEnds /\ gds.fault)
  /\ WF_vars(NodeAnswer \/ ChainAnswer)

Spec == Init /\ [][Next]_vars /\ Fairness

-----------------------------------------------------------------------------
(* Properties.                                                             *)

(* The private object holds values of its type. *)
TypeOK ==
  /\ gds \in Private
  /\ client \in {"Disconnected", "Connecting", "Connected", "Closing"}
  /\ {accessDenied, connecting, pkiValid} \subseteq BOOLEAN
  /\ settings \in AppIds \cup {NoId}
  /\ registered \subseteq AppIds

(* However often answers are lost, the process dies or the connection is   *)
(* made again, the application is registered at most once: steps 6a to 6c  *)
(* look for an earlier registration before they make one.                  *)
AtMostOneRegistration == Cardinality(registered) <= 1

(* applicationRegistered() on a live connection is emitted for an id that  *)
(* the server knows: an id from the settings or the record that went stale *)
(* is found out before the chain reaches registrationDone().               *)
RegisteredIsKnown ==
  [][gds.state # "ApplicationRegistered" /\ gds'.state = "ApplicationRegistered"
     /\ client = "Connected" => gds'.appId \in registered']_vars

(* A restart asked for by restartWithCredentials() is taken: nothing can   *)
(* leave m_restartRequired set and the object waiting for a disconnect.    *)
RestartIsTaken == gds.restartRequired ~> ~gds.restartRequired

(* While the connection lives the chain of answers does not break off: the *)
(* object gets to ApplicationRegistered or to Error.                       *)
ChainDoesNotStall ==
  gds.state = "Connected" /\ client = "Connected"
    ~> gds.state # "Connected" \/ client # "Connected"

(* Methods are called on the directory node that steps 3 to 5 of the       *)
(* documentation have found, also after a reconnect: no timer gets ahead   *)
(* of them.                                                                *)
DirectoryIsThere == ~gds.fault
=============================================================================
