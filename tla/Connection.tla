------------------------------ MODULE Connection ------------------------------
(***************************************************************************)
(* The connection life cycle of a QOpcUaClient on the open62541 plugin.    *)
(*                                                                         *)
(* Two threads.  The application's thread owns QOpcUaClientPrivate         *)
(* (m_state, m_error, m_endpoint).  The plugin's thread owns               *)
(* Open62541AsyncBackend (m_uaclient, m_useStateCallback and two timers).  *)
(* They share nothing but two FIFO event queues: `calls' (slots posted     *)
(* with QMetaObject::invokeMethod, Qt::QueuedConnection) and `signals'     *)
(* (QOpcUaBackend signals delivered to QOpcUaClientImpl).  The client      *)
(* therefore decides on a state the backend may have left already.         *)
(*                                                                         *)
(* The subscriptions that disconnectInternal() and the queued              *)
(* cleanupSubscriptions slot delete are the subject of Subscriptions.tla;  *)
(* here the slot is an event of the queue without an effect.  Likewise the *)
(* read of the namespace array that the client posts when it becomes       *)
(* Connected: it is a request like those of AsyncRequests.tla and changes  *)
(* no state of the connection.                                             *)
(***************************************************************************)
EXTENDS Naturals, Sequences

CONSTANTS
  Endpoints,   \* the endpoint descriptions an application may connect to
  Secure,      \* those whose security policy needs a PKI configuration
  Malformed,   \* those the backend refuses (verifyEndpointDescription, policy)
  NoEndpoint,  \* default constructed QOpcUaEndpointDescription, null m_uaclient
  MaxPending   \* bound: events in the two queues when the application calls

ASSUME EndpointsAssumption ==
  /\ Secure \subseteq Endpoints
  /\ Malformed \subseteq Endpoints
  /\ NoEndpoint \notin Endpoints

ASSUME MaxPendingAssumption == MaxPending \in Nat

VARIABLES
  state,             \* QOpcUaClientPrivate::m_state
  error,             \* QOpcUaClientPrivate::m_error
  endpoint,          \* QOpcUaClientPrivate::m_endpoint
  calls,             \* events posted to the backend's thread, oldest first
  signals,           \* stateAndOrErrorChanged events posted to the client
  uaclient,          \* m_uaclient: the endpoint it is for, or NoEndpoint
  pc,                \* what the backend's thread is executing
  useStateCallback,  \* m_useStateCallback
  iterateTimer,      \* m_clientIterateTimer is running
  disconnectTimer,   \* m_disconnectAfterStateChangeTimer is running
  alive              \* external: m_uaclient's secure channel has not broken

clientVars  == <<state, error, endpoint>>
backendVars == <<uaclient, pc, useStateCallback, iterateTimer, disconnectTimer, alive>>
vars        == <<clientVars, calls, signals, backendVars>>

ClientStates == {"Disconnected", "Connecting", "Connected", "Closing"}
ClientErrors == {"NoError", "InvalidUrl", "AccessDenied", "ConnectionError",
                 "UnknownError", "UnsupportedAuthenticationInformation"}

Calls == [slot : {"connectToEndpoint"}, endpoint : Endpoints]
           \cup [slot : {"disconnectFromEndpoint", "cleanupSubscriptions"}]

Signals == [state : ClientStates \ {"Closing"}, error : ClientErrors]

-----------------------------------------------------------------------------
(* The backend emits stateAndOrErrorChanged.                               *)

MutReport(queue, s, e) == Append(queue, [state |-> e, error |-> s])

Report(queue, s, e) == Append(queue, [state |-> s, error |-> e])

(* What disconnectInternal(e) has posted when it returns. *)
MutReportClosed(e) == signals

ReportClosed(e) ==
  IF uaclient # NoEndpoint THEN Report(signals, "Disconnected", e) ELSE signals

(* The members disconnectInternal() resets.  It leaves the single-shot     *)
(* disconnect timer alone.                                                 *)
StopWatching ==
  /\ useStateCallback' = FALSE
  /\ iterateTimer' = FALSE

(* What a successful connect starts. *)
MutStartWatching == useStateCallback' = TRUE /\ UNCHANGED iterateTimer

StartWatching ==
  /\ useStateCallback' = TRUE
  /\ iterateTimer' = TRUE

(* m_disconnectAfterStateChangeTimer.start() *)
MutStartDisconnectTimer == UNCHANGED disconnectTimer

StartDisconnectTimer == disconnectTimer' = TRUE

Init ==
  /\ state = "Disconnected"
  /\ error = "NoError"
  /\ endpoint = NoEndpoint
  /\ calls = <<>>
  /\ signals = <<>>
  /\ uaclient = NoEndpoint
  /\ pc = "idle"
  /\ useStateCallback = FALSE
  /\ iterateTimer = FALSE
  /\ disconnectTimer = FALSE
  /\ alive = FALSE

-----------------------------------------------------------------------------
(* The application's thread.                                               *)

(* The application calls while fewer than MaxPending events are queued.    *)
MayCall == Len(calls) + Len(signals) < MaxPending

(* QOpcUaClientPrivate::connectToEndpoint: any state will do. *)
ConnectToEndpoint(ep) ==
  /\ MayCall
  /\ endpoint' = ep
  /\ calls' = Append(calls, [slot |-> "connectToEndpoint", endpoint |-> ep])
  /\ UNCHANGED <<state, error, signals, backendVars>>

(* A secure endpoint without a valid PKI setup, or without key and         *)
(* certificate files: setStateAndError(m_state, AccessDenied).             *)
MutConnectRefused(ep) ==
  /\ ep \in Secure
  /\ endpoint' = ep
  /\ error' = "AccessDenied"
  /\ UNCHANGED <<state, calls, signals, backendVars>>

ConnectRefused(ep) ==
  /\ ep \in Secure
  /\ error' = "AccessDenied"
  /\ UNCHANGED <<state, endpoint, calls, signals, backendVars>>

(* The guard of disconnectFromEndpoint: anything else is only a warning.   *)
MutMayDisconnect == state \in {"Connecting", "Connected"}

MayDisconnect == state = "Connected"

(* QOpcUaClientPrivate::disconnectFromEndpoint. *)
DisconnectFromEndpoint ==
  /\ MayCall
  /\ MayDisconnect
  /\ state' = "Closing"
  /\ error' = "NoError"
  /\ calls' = Append(calls, [slot |-> "disconnectFromEndpoint"])
  /\ UNCHANGED <<endpoint, signals, backendVars>>

(* stateAndOrErrorChanged arrives: setStateAndError. *)
HandleStateAndOrErrorChanged ==
  /\ signals # <<>>
  /\ state' = Head(signals).state
  /\ error' = Head(signals).error
  /\ signals' = Tail(signals)
  /\ UNCHANGED <<endpoint, calls, backendVars>>

-----------------------------------------------------------------------------
(* The plugin's thread.  Its event loop runs one event at a time, so an    *)
(* event starts only while pc = "idle".                                    *)

Runs(slot) == pc = "idle" /\ calls # <<>> /\ Head(calls).slot = slot

(* connectToEndpoint of an endpoint the backend refuses. *)
BackendConnectInvalid ==
  /\ Runs("connectToEndpoint")
  /\ Head(calls).endpoint \in Malformed
  /\ StopWatching
  /\ uaclient' = NoEndpoint
  /\ alive' = FALSE
  /\ signals' = Report(ReportClosed("NoError"), "Disconnected", "InvalidUrl")
  /\ calls' = Tail(calls)
  /\ UNCHANGED <<pc, disconnectTimer, clientVars>>

(* connectToEndpoint up to the blocking UA_Client_connect. *)
BackendConnectStart ==
  /\ Runs("connectToEndpoint")
  /\ Head(calls).endpoint \notin Malformed
  /\ StopWatching
  /\ uaclient' = Head(calls).endpoint
  /\ alive' = FALSE
  /\ pc' = "connecting"
  /\ signals' = Report(ReportClosed("NoError"), "Connecting", "NoError")
  /\ calls' = Tail(calls)
  /\ UNCHANGED <<disconnectTimer, clientVars>>

(* The PKI cannot be loaded (AccessDenied), no suitable user token         *)
(* (NoError), or an unsupported authentication type.                       *)
BackendConnectAbort(e) ==
  /\ pc = "connecting"
  /\ pc' = "idle"
  /\ uaclient' = NoEndpoint
  /\ signals' = Report(signals, "Disconnected", e)
  /\ UNCHANGED <<calls, useStateCallback, iterateTimer, disconnectTimer, alive, clientVars>>

(* UA_Client_connect fails: connectError is emitted on a blocking queued   *)
(* connection, and the thread waits for the application's slots.           *)
BackendConnectFails ==
  /\ pc = "connecting"
  /\ pc' = "connectError"
  /\ uaclient' = NoEndpoint
  /\ UNCHANGED <<calls, signals, useStateCallback, iterateTimer, disconnectTimer, alive, clientVars>>

(* The application's event loop reaches the connectError event, behind all *)
(* the signals posted before it, and its slots return to the backend.      *)
HandleConnectError(e) ==
  /\ pc = "connectError"
  /\ signals = <<>>
  /\ pc' = "idle"
  /\ signals' = Report(signals, "Disconnected", e)
  /\ UNCHANGED <<calls, uaclient, useStateCallback, iterateTimer, disconnectTimer, alive, clientVars>>

(* UA_Client_connect succeeds. *)
BackendConnectSucceeds ==
  /\ pc = "connecting"
  /\ pc' = "idle"
  /\ StartWatching
  /\ alive' = TRUE
  /\ signals' = Report(signals, "Connected", "NoError")
  /\ UNCHANGED <<calls, uaclient, disconnectTimer, clientVars>>

(* disconnectFromEndpoint() *)
BackendDisconnect ==
  /\ Runs("disconnectFromEndpoint")
  /\ StopWatching
  /\ uaclient' = NoEndpoint
  /\ alive' = FALSE
  /\ signals' = ReportClosed("NoError")
  /\ calls' = Tail(calls)
  /\ UNCHANGED <<pc, disconnectTimer, clientVars>>

(* The queued cleanupSubscriptions slot. *)
BackendCleanupSubscriptions ==
  /\ Runs("cleanupSubscriptions")
  /\ calls' = Tail(calls)
  /\ UNCHANGED <<signals, backendVars, clientVars>>

(* The timeout of m_disconnectAfterStateChangeTimer:                       *)
(* disconnectInternal(ConnectionError).                                    *)
DisconnectTimeout ==
  /\ pc = "idle"
  /\ disconnectTimer
  /\ disconnectTimer' = FALSE
  /\ StopWatching
  /\ uaclient' = NoEndpoint
  /\ alive' = FALSE
  /\ signals' = ReportClosed("ConnectionError")
  /\ UNCHANGED <<calls, pc, clientVars>>

(* External: the secure channel or the session of m_uaclient breaks. *)
ChannelBreaks ==
  /\ alive
  /\ alive' = FALSE
  /\ UNCHANGED <<calls, signals, uaclient, pc, useStateCallback, iterateTimer, disconnectTimer, clientVars>>

(* clientStateCallback or inactivityCallback, which open62541 calls when   *)
(* it notices the break.  The next iterateClient() does at the latest.     *)
ClientStateCallback ==
  /\ uaclient # NoEndpoint
  /\ ~alive
  /\ useStateCallback
  /\ StopWatching
  /\ StartDisconnectTimer
  /\ calls' = Append(calls, [slot |-> "cleanupSubscriptions"])
  /\ UNCHANGED <<signals, uaclient, pc, alive, clientVars>>

(* An iterateClient() that leaves the connection as it is changes nothing. *)
IterateClient ==
  /\ pc = "idle"
  /\ iterateTimer
  /\ ClientStateCallback

-----------------------------------------------------------------------------
AbortErrors == {"AccessDenied", "NoError", "UnsupportedAuthenticationInformation"}

ConnectErrors == {"AccessDenied", "UnknownError"}

Application ==
  \/ \E ep \in Endpoints : ConnectToEndpoint(ep) \/ ConnectRefused(ep)
  \/ DisconnectFromEndpoint

ClientLoop ==
  \/ HandleStateAndOrErrorChanged
  \/ \E e \in ConnectErrors : HandleConnectError(e)

BackendSlot ==
  \/ BackendConnectInvalid
  \/ BackendConnectStart
  \/ BackendDisconnect
  \/ BackendCleanupSubscriptions

BackendConnectReturns ==
  \/ \E e \in AbortErrors : BackendConnectAbort(e)
  \/ BackendConnectFails
  \/ BackendConnectSucceeds

Next ==
  \/ Application
  \/ ClientLoop
  \/ BackendSlot
  \/ BackendConnectReturns
  \/ DisconnectTimeout
  \/ IterateClient
  \/ ChannelBreaks

(* Both event loops keep running: queued events, zero timers and the       *)
(* periodic iterate timer are all served, and UA_Client_connect is bounded *)
(* by open62541's own timeout.  Nothing obliges the application to call.   *)
Fairness ==
  /\ WF_vars(ClientLoop)
  /\ WF_vars(BackendSlot)
  /\ WF_vars(BackendConnectReturns)
  /\ WF_vars(DisconnectTimeout)
  /\ WF_vars(IterateClient)

Spec == Init /\ [][Next]_vars /\ Fairness

-----------------------------------------------------------------------------
(* Every variable keeps its type: in particular the backend never reports  *)
(* "Closing", which only disconnectFromEndpoint() sets.                    *)
TypeOK ==
  /\ state \in ClientStates
  /\ error \in ClientErrors
  /\ endpoint \in Endpoints \cup {NoEndpoint}
  /\ calls \in Seq(Calls)
  /\ signals \in Seq(Signals)
  /\ uaclient \in Endpoints \cup {NoEndpoint}
  /\ pc \in {"idle", "connecting", "connectError"}
  /\ useStateCallback \in BOOLEAN
  /\ iterateTimer \in BOOLEAN
  /\ disconnectTimer \in BOOLEAN
  /\ alive \in BOOLEAN

(* The state the backend is in, in the client's terms. *)
BackendState ==
  CASE pc # "idle" -> "Connecting"
    [] pc = "idle" /\ uaclient # NoEndpoint -> "Connected"
    [] OTHER -> "Disconnected"

(* A client that is Closing was told "Connected" by its last signal. *)
Told == IF state = "Closing" THEN "Connected" ELSE state

LastReported == IF signals = <<>> THEN Told ELSE signals[Len(signals)].state

(* stateAndOrErrorChanged misses no transition of the backend: once the    *)
(* client has handled every queued signal, it knows the backend's state,   *)
(* whatever calls, losses and timeouts came in between.                    *)
ReportsAreComplete == LastReported = BackendState

(* A connection is never left unattended: either the iterate timer and the *)
(* state callback watch it, or the timer that closes it is running.        *)
WatchedOrClosing ==
  pc = "idle" /\ uaclient # NoEndpoint =>
    \/ useStateCallback /\ iterateTimer
    \/ disconnectTimer

Settled == calls = <<>> /\ signals = <<>> /\ pc = "idle" /\ ~disconnectTimer

(* With nothing queued, m_state is Connected or Disconnected as m_uaclient *)
(* says (never Connecting or Closing), and m_endpoint is the endpoint the  *)
(* backend is connected to.                                                *)
SettledAgreement ==
  Settled => \/ state = "Connected" /\ uaclient = endpoint /\ uaclient # NoEndpoint
             \/ state = "Disconnected" /\ uaclient = NoEndpoint

(* A broken channel does not stay hidden: the client leaves Connected. *)
LossIsReported ==
  (pc = "idle" /\ uaclient # NoEndpoint /\ ~alive) ~> (state # "Connected")

(* ClientError's documentation: ConnectionError means "An error occurred   *)
(* with the connection".  A connection closed for a ConnectionError is one *)
(* whose channel had broken.                                               *)
ConnectionErrorIsReal ==
  [][ uaclient # NoEndpoint /\ signals' = Report(signals, "Disconnected", "ConnectionError")
        => ~alive ]_vars

Contract == INSTANCE ClientContract WITH state <- state

(* The client's view of the connection implements ClientContract: whatever *)
(* the backend reports late or the application calls early, m_state only   *)
(* takes the steps the contract has.                                       *)
ImplementsContract == Contract!Safety

(* The liveness half of ClientContract: Connecting and Closing never last. *)
TransientStatesEnd == Contract!Fairness
=============================================================================
