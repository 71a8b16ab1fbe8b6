--------------------------- MODULE Connection_proofs ---------------------------
(***************************************************************************)
(* Proofs about Connection, for any set of endpoints and any MaxPending.   *)
(***************************************************************************)
EXTENDS Connection, TLAPS

(* A queued report is a well-formed signal at the end of the queue. *)
LEMMA ReportType ==
  ASSUME NEW queue \in Seq(Signals),
         NEW s \in ClientStates \ {"Closing"}, NEW e \in ClientErrors
  PROVE  /\ Report(queue, s, e) \in Seq(Signals)
         /\ Len(Report(queue, s, e)) = Len(queue) + 1
         /\ Report(queue, s, e)[Len(queue) + 1].state = s
         /\ \A k \in 1..Len(queue) : Report(queue, s, e)[k] = queue[k]
<1> DEFINE new == [state |-> s, error |-> e]
<1>1. new \in Signals
  BY DEF Signals
<1>2. Report(queue, s, e) = Append(queue, new)
  BY DEF Report
<1>3. new.state = s
  OBVIOUS
<1> HIDE DEF new
<1> QED
  BY <1>1, <1>2, <1>3

(* disconnectInternal() leaves a queue of well-formed signals. *)
LEMMA ReportClosedType ==
  ASSUME TypeOK, NEW e \in ClientErrors
  PROVE  ReportClosed(e) \in Seq(Signals)
<1>1. "Disconnected" \in ClientStates \ {"Closing"}
  BY DEF ClientStates
<1> QED
  BY <1>1, ReportType DEF ReportClosed, TypeOK

(* The slots an application posts are calls. *)
LEMMA CallsType ==
  /\ \A ep \in Endpoints : [slot |-> "connectToEndpoint", endpoint |-> ep] \in Calls
  /\ [slot |-> "disconnectFromEndpoint"] \in Calls
  /\ [slot |-> "cleanupSubscriptions"] \in Calls
BY DEF Calls

(* A queue minus its oldest event is a queue. *)
LEMMA TailType ==
  ASSUME NEW S, NEW q \in Seq(S), q # <<>>
  PROVE  Tail(q) \in Seq(S) /\ Head(q) \in S
OBVIOUS

(* The call a connectToEndpoint slot is started with names an endpoint. *)
LEMMA ConnectCall ==
  ASSUME NEW c \in Calls, c.slot = "connectToEndpoint"
  PROVE  c.endpoint \in Endpoints
BY DEF Calls

(* Every step keeps every variable in its type. *)
LEMMA TypeStep == TypeOK /\ [Next]_vars => TypeOK'
<1> SUFFICES ASSUME TypeOK, [Next]_vars PROVE TypeOK'
  OBVIOUS
<1> USE DEF TypeOK, clientVars, backendVars
<1>s. {"Disconnected", "Connecting", "Connected"} \subseteq ClientStates \ {"Closing"}
  BY DEF ClientStates
<1>e. /\ "NoError" \in ClientErrors /\ "InvalidUrl" \in ClientErrors
      /\ "ConnectionError" \in ClientErrors /\ "AccessDenied" \in ClientErrors
      /\ AbortErrors \subseteq ClientErrors /\ ConnectErrors \subseteq ClientErrors
  BY DEF ClientErrors, AbortErrors, ConnectErrors
<1>1. ASSUME NEW ep \in Endpoints, ConnectToEndpoint(ep) PROVE TypeOK'
  BY <1>1, CallsType DEF ConnectToEndpoint
<1>2. ASSUME NEW ep \in Endpoints, ConnectRefused(ep) PROVE TypeOK'
  BY <1>2, <1>e DEF ConnectRefused
<1>3. CASE DisconnectFromEndpoint
  BY <1>3, <1>e, CallsType DEF DisconnectFromEndpoint, ClientStates
<1>4. CASE HandleStateAndOrErrorChanged
  <2>1. Tail(signals) \in Seq(Signals) /\ Head(signals) \in Signals
    BY <1>4, TailType DEF HandleStateAndOrErrorChanged
  <2>2. /\ Head(signals).state \in ClientStates
        /\ Head(signals).error \in ClientErrors
    BY <2>1 DEF Signals
  <2> QED
    BY <1>4, <2>1, <2>2 DEF HandleStateAndOrErrorChanged
<1>5. ASSUME NEW e \in ConnectErrors, HandleConnectError(e) PROVE TypeOK'
  BY <1>5, <1>s, <1>e, ReportType DEF HandleConnectError
<1>6. CASE BackendConnectInvalid
  BY <1>6, <1>s, <1>e, ReportType, ReportClosedType, TailType
     DEF BackendConnectInvalid, Runs, StopWatching
<1>7. CASE BackendConnectStart
  BY <1>7, <1>s, <1>e, ReportType, ReportClosedType, TailType, ConnectCall
     DEF BackendConnectStart, Runs, StopWatching
<1>8. CASE BackendDisconnect
  BY <1>8, <1>e, ReportClosedType, TailType DEF BackendDisconnect, Runs, StopWatching
<1>9. CASE BackendCleanupSubscriptions
  BY <1>9, TailType DEF BackendCleanupSubscriptions, Runs
<1>10. ASSUME NEW e \in AbortErrors, BackendConnectAbort(e) PROVE TypeOK'
  BY <1>10, <1>s, <1>e, ReportType DEF BackendConnectAbort
<1>11. CASE BackendConnectFails
  BY <1>11 DEF BackendConnectFails
<1>12. CASE BackendConnectSucceeds
  BY <1>12, <1>s, <1>e, ReportType DEF BackendConnectSucceeds, StartWatching
<1>13. CASE DisconnectTimeout
  BY <1>13, <1>e, ReportClosedType DEF DisconnectTimeout, StopWatching
<1>14. CASE IterateClient
  <2>1. calls' \in Seq(Calls)
    BY <1>14, CallsType DEF IterateClient, ClientStateCallback
  <2>2. /\ useStateCallback' = FALSE /\ iterateTimer' = FALSE /\ disconnectTimer' = TRUE
        /\ UNCHANGED <<signals, uaclient, pc, alive, clientVars>>
    BY <1>14, Zenon DEF IterateClient, ClientStateCallback, StopWatching, StartDisconnectTimer
  <2> QED
    BY <2>1, <2>2
<1>15. CASE ChannelBreaks
  BY <1>15 DEF ChannelBreaks
<1>16. CASE UNCHANGED vars
  BY <1>16 DEF vars
<1> QED
  BY <1>1, <1>2, <1>3, <1>4, <1>5, <1>6, <1>7, <1>8, <1>9, <1>10, <1>11, <1>12,
     <1>13, <1>14, <1>15, <1>16
     DEF Next, Application, ClientLoop, BackendSlot, BackendConnectReturns

(* Type correctness of the connection life cycle. *)
THEOREM TypeCorrect == Spec => []TypeOK
<1>1. Init => TypeOK
  <2>1. "Disconnected" \in ClientStates /\ "NoError" \in ClientErrors
    BY DEF ClientStates, ClientErrors
  <2>2. <<>> \in Seq(Calls) /\ <<>> \in Seq(Signals)
    OBVIOUS
  <2> QED
    BY <2>1, <2>2 DEF Init, TypeOK
<1> QED
  BY <1>1, TypeStep, PTL DEF Spec

-----------------------------------------------------------------------------
(* While UA_Client_connect runs there is a client, and after it has failed *)
(* there is none.                                                          *)
ConnectHoldsClient ==
  /\ pc = "connecting" => uaclient # NoEndpoint
  /\ pc = "connectError" => uaclient = NoEndpoint

(* Every step keeps ConnectHoldsClient and WatchedOrClosing. *)
LEMMA WatchedStep ==
  TypeOK /\ ConnectHoldsClient /\ WatchedOrClosing /\ [Next]_vars
    => ConnectHoldsClient' /\ WatchedOrClosing'
<1> SUFFICES ASSUME TypeOK, ConnectHoldsClient, WatchedOrClosing, [Next]_vars
             PROVE  ConnectHoldsClient' /\ WatchedOrClosing'
  OBVIOUS
<1> USE DEF ConnectHoldsClient, WatchedOrClosing, clientVars, backendVars
<1>1. ASSUME NEW ep \in Endpoints, ConnectToEndpoint(ep) \/ ConnectRefused(ep)
      PROVE  ConnectHoldsClient' /\ WatchedOrClosing'
  BY <1>1 DEF ConnectToEndpoint, ConnectRefused
<1>2. CASE DisconnectFromEndpoint \/ HandleStateAndOrErrorChanged \/ BackendCleanupSubscriptions
  BY <1>2 DEF DisconnectFromEndpoint, HandleStateAndOrErrorChanged, BackendCleanupSubscriptions
<1>3. ASSUME NEW e \in ConnectErrors, HandleConnectError(e)
      PROVE  ConnectHoldsClient' /\ WatchedOrClosing'
  BY <1>3 DEF HandleConnectError
<1>4. CASE BackendConnectInvalid \/ BackendDisconnect
  BY <1>4 DEF BackendConnectInvalid, BackendDisconnect, Runs
<1>5. CASE BackendConnectStart
  <2>1. Head(calls).endpoint \in Endpoints
    BY <1>5, TailType, ConnectCall DEF BackendConnectStart, Runs, TypeOK
  <2> QED
    BY <1>5, <2>1, EndpointsAssumption DEF BackendConnectStart
<1>6. ASSUME NEW e \in AbortErrors, BackendConnectAbort(e)
      PROVE  ConnectHoldsClient' /\ WatchedOrClosing'
  BY <1>6 DEF BackendConnectAbort
<1>7. CASE BackendConnectFails
  BY <1>7 DEF BackendConnectFails
<1>8. CASE BackendConnectSucceeds
  BY <1>8 DEF BackendConnectSucceeds, StartWatching
<1>9. CASE DisconnectTimeout
  BY <1>9 DEF DisconnectTimeout
<1>10. CASE IterateClient
  BY <1>10 DEF IterateClient, ClientStateCallback, StartDisconnectTimer
<1>11. CASE ChannelBreaks
  BY <1>11 DEF ChannelBreaks
<1>12. CASE UNCHANGED vars
  BY <1>12 DEF vars
<1> QED
  BY <1>1, <1>2, <1>3, <1>4, <1>5, <1>6, <1>7, <1>8, <1>9, <1>10, <1>11, <1>12
     DEF Next, Application, ClientLoop, BackendSlot, BackendConnectReturns

(* A connection is watched, or the timer that closes it is running. *)
THEOREM Watched == Spec => []WatchedOrClosing
<1>1. Init => ConnectHoldsClient /\ WatchedOrClosing
  BY DEF Init, ConnectHoldsClient, WatchedOrClosing
<1> QED
  BY <1>1, TypeCorrect, WatchedStep, PTL DEF Spec

-----------------------------------------------------------------------------
(* The order in which the backend may report its states. *)
Follows(a, b) ==
  \/ a = "Disconnected" /\ b \in {"Connecting", "Disconnected"}
  \/ a = "Connecting" /\ b \in {"Connected", "Disconnected"}
  \/ a = "Connected" /\ b = "Disconnected"

(* What a client told `st' knows after k more signals of queue q. *)
StateAfter(st, q, k) == IF k = 0 THEN st ELSE q[k].state

Known(st, q) == StateAfter(st, q, Len(q))

(* Each queued signal reports a legal successor of the one before it. *)
Legal(st, q) ==
  \A k \in 1..Len(q) : Follows(StateAfter(st, q, k - 1), StateAfter(st, q, k))

(* Appending a legal successor. *)
LEMMA LegalAppend ==
  ASSUME NEW st, NEW q \in Seq(Signals), NEW p \in Seq(Signals), NEW s,
         Len(p) = Len(q) + 1, p[Len(q) + 1].state = s,
         \A k \in 1..Len(q) : p[k] = q[k],
         Legal(st, q), Follows(Known(st, q), s)
  PROVE  Legal(st, p) /\ Known(st, p) = s
<1>1. Known(st, p) = s
  BY DEF Known, StateAfter
<1>2. \A k \in 0..Len(q) : StateAfter(st, p, k) = StateAfter(st, q, k)
  BY DEF StateAfter
<1>3. ASSUME NEW k \in 1..Len(p)
      PROVE  Follows(StateAfter(st, p, k - 1), StateAfter(st, p, k))
  <2>1. CASE k = Len(q) + 1
    <3>1. StateAfter(st, p, k - 1) = Known(st, q) /\ StateAfter(st, p, k) = s
      BY <2>1, <1>1, <1>2 DEF Known
    <3> QED
      BY <3>1
  <2>2. CASE k \in 1..Len(q)
    <3>1. /\ StateAfter(st, p, k - 1) = StateAfter(st, q, k - 1)
          /\ StateAfter(st, p, k) = StateAfter(st, q, k)
      BY <2>2, <1>2
    <3> QED
      BY <3>1, <2>2 DEF Legal
  <2> QED
    BY <2>1, <2>2
<1> QED
  BY <1>1, <1>3 DEF Legal

(* A report that is a legal successor. *)
LEMMA LegalReport ==
  ASSUME NEW st, NEW q \in Seq(Signals), NEW s \in ClientStates \ {"Closing"},
         NEW e \in ClientErrors, Legal(st, q), Follows(Known(st, q), s)
  PROVE  Legal(st, Report(q, s, e)) /\ Known(st, Report(q, s, e)) = s
BY ReportType, LegalAppend

(* Handling the oldest signal: a legal step, to a client that expects the  *)
(* rest of the queue.                                                      *)
LEMMA LegalTail ==
  ASSUME NEW st, NEW q \in Seq(Signals), q # <<>>, Legal(st, q)
  PROVE  /\ Follows(st, Head(q).state)
         /\ Legal(Head(q).state, Tail(q))
         /\ Known(Head(q).state, Tail(q)) = Known(st, q)
<1>1. Len(q) \in Nat \ {0} /\ Len(Tail(q)) = Len(q) - 1 /\ Head(q) = q[1]
  OBVIOUS
<1>2. \A k \in 1..Len(Tail(q)) : Tail(q)[k] = q[k + 1]
  OBVIOUS
<1>3. \A k \in 0..Len(Tail(q)) : StateAfter(Head(q).state, Tail(q), k) = StateAfter(st, q, k + 1)
  BY <1>1, <1>2 DEF StateAfter
<1>4. Follows(st, Head(q).state)
  <2>1. StateAfter(st, q, 0) = st /\ StateAfter(st, q, 1) = Head(q).state
    BY <1>1 DEF StateAfter
  <2>2. Follows(StateAfter(st, q, 1 - 1), StateAfter(st, q, 1))
    BY <1>1 DEF Legal
  <2> QED
    BY <2>1, <2>2
<1>5. ASSUME NEW k \in 1..Len(Tail(q))
      PROVE  Follows(StateAfter(Head(q).state, Tail(q), k - 1), StateAfter(Head(q).state, Tail(q), k))
  <2>1. /\ StateAfter(Head(q).state, Tail(q), k - 1) = StateAfter(st, q, k)
        /\ StateAfter(Head(q).state, Tail(q), k) = StateAfter(st, q, k + 1)
    BY <1>1, <1>3
  <2>2. Follows(StateAfter(st, q, (k + 1) - 1), StateAfter(st, q, k + 1))
    BY <1>1 DEF Legal
  <2> QED
    BY <2>1, <2>2
<1>6. Known(Head(q).state, Tail(q)) = Known(st, q)
  BY <1>1, <1>3 DEF Known
<1> QED
  BY <1>4, <1>5, <1>6 DEF Legal

(* What the client will know once it has handled every queued signal. *)
LEMMA LastReportedIsKnown == ASSUME TypeOK PROVE LastReported = Known(Told, signals)
BY DEF LastReported, Known, StateAfter, TypeOK

-----------------------------------------------------------------------------
(* The signals in flight lead legally from what the client was told to     *)
(* what the backend is.                                                    *)
SignalsAreLegal == Legal(Told, signals) /\ Known(Told, signals) = BackendState

(* disconnectInternal() of an idle backend reports that it is closed. *)
LEMMA LegalReportClosed ==
  ASSUME TypeOK, SignalsAreLegal, pc = "idle", NEW e \in ClientErrors
  PROVE  /\ ReportClosed(e) \in Seq(Signals)
         /\ Legal(Told, ReportClosed(e))
         /\ Known(Told, ReportClosed(e)) = "Disconnected"
<1>1. "Disconnected" \in ClientStates \ {"Closing"} /\ signals \in Seq(Signals)
  BY DEF ClientStates, TypeOK
<1>2. CASE uaclient = NoEndpoint
  <2>1. ReportClosed(e) = signals /\ BackendState = "Disconnected"
    BY <1>2 DEF ReportClosed, BackendState
  <2> QED
    BY <1>1, <2>1 DEF SignalsAreLegal
<1>3. CASE uaclient # NoEndpoint
  <2>1. ReportClosed(e) = Report(signals, "Disconnected", e) /\ BackendState = "Connected"
    BY <1>3 DEF ReportClosed, BackendState
  <2>2. Follows(Known(Told, signals), "Disconnected")
    BY <2>1 DEF SignalsAreLegal, Follows
  <2> QED
    BY <1>1, <2>1, <2>2, ReportType, LegalReport DEF SignalsAreLegal
<1> QED
  BY <1>2, <1>3

(* Every step keeps SignalsAreLegal. *)
LEMMA SignalsStep ==
  TypeOK /\ ConnectHoldsClient /\ SignalsAreLegal /\ [Next]_vars => SignalsAreLegal'
<1> SUFFICES ASSUME TypeOK, ConnectHoldsClient, SignalsAreLegal, [Next]_vars
             PROVE  SignalsAreLegal'
  OBVIOUS
<1>s. /\ {"Disconnected", "Connecting", "Connected"} \subseteq ClientStates \ {"Closing"}
      /\ signals \in Seq(Signals)
  BY DEF ClientStates, TypeOK
<1>e. /\ "NoError" \in ClientErrors /\ "InvalidUrl" \in ClientErrors /\ "ConnectionError" \in ClientErrors
      /\ AbortErrors \subseteq ClientErrors /\ ConnectErrors \subseteq ClientErrors
  BY DEF ClientErrors, AbortErrors, ConnectErrors
<1>u. ASSUME UNCHANGED <<state, signals, pc, uaclient>> PROVE SignalsAreLegal'
  <2>1. Told' = Told /\ BackendState' = BackendState /\ signals' = signals
    BY <1>u DEF Told, BackendState
  <2> QED
    BY <2>1 DEF SignalsAreLegal
<1>1. ASSUME NEW ep \in Endpoints, ConnectToEndpoint(ep) \/ ConnectRefused(ep)
      PROVE  SignalsAreLegal'
  BY <1>1, <1>u DEF ConnectToEndpoint, ConnectRefused, backendVars
<1>2. CASE DisconnectFromEndpoint
  <2>1. Told' = Told /\ BackendState' = BackendState /\ signals' = signals
    BY <1>2 DEF DisconnectFromEndpoint, MayDisconnect, backendVars, Told, BackendState
  <2> QED
    BY <2>1 DEF SignalsAreLegal
<1>3. CASE HandleStateAndOrErrorChanged
  <2>1. Head(signals) \in Signals /\ signals # <<>>
    BY <1>3, <1>s, TailType DEF HandleStateAndOrErrorChanged
  <2>2. Told' = Head(signals).state /\ signals' = Tail(signals) /\ BackendState' = BackendState
    BY <1>3, <2>1 DEF HandleStateAndOrErrorChanged, Signals, Told, BackendState, backendVars
  <2> QED
    BY <1>s, <2>1, <2>2, LegalTail DEF SignalsAreLegal
<1>4. ASSUME NEW e \in ConnectErrors, HandleConnectError(e) PROVE SignalsAreLegal'
  <2>1. /\ Told' = Told /\ signals' = Report(signals, "Disconnected", e)
        /\ BackendState = "Connecting" /\ BackendState' = "Disconnected"
    BY <1>4 DEF HandleConnectError, clientVars, Told, BackendState, ConnectHoldsClient
  <2>2. Follows(Known(Told, signals), "Disconnected")
    BY <2>1 DEF SignalsAreLegal, Follows
  <2> QED
    BY <1>s, <1>e, <2>1, <2>2, LegalReport DEF SignalsAreLegal
<1>5. CASE BackendConnectInvalid
  <2>1. /\ pc = "idle" /\ Told' = Told /\ BackendState' = "Disconnected"
        /\ signals' = Report(ReportClosed("NoError"), "Disconnected", "InvalidUrl")
    BY <1>5 DEF BackendConnectInvalid, Runs, clientVars, Told, BackendState
  <2>2. /\ ReportClosed("NoError") \in Seq(Signals)
        /\ Legal(Told, ReportClosed("NoError"))
        /\ Follows(Known(Told, ReportClosed("NoError")), "Disconnected")
    BY <2>1, <1>e, LegalReportClosed DEF Follows
  <2> QED
    BY <1>s, <1>e, <2>1, <2>2, LegalReport DEF SignalsAreLegal
<1>6. CASE BackendConnectStart
  <2>1. /\ pc = "idle" /\ Told' = Told /\ BackendState' = "Connecting"
        /\ signals' = Report(ReportClosed("NoError"), "Connecting", "NoError")
    BY <1>6 DEF BackendConnectStart, Runs, clientVars, Told, BackendState
  <2>2. /\ ReportClosed("NoError") \in Seq(Signals)
        /\ Legal(Told, ReportClosed("NoError"))
        /\ Follows(Known(Told, ReportClosed("NoError")), "Connecting")
    BY <2>1, <1>e, LegalReportClosed DEF Follows
  <2> QED
    BY <1>s, <1>e, <2>1, <2>2, LegalReport DEF SignalsAreLegal
<1>7. CASE BackendDisconnect
  <2>1. /\ pc = "idle" /\ Told' = Told /\ BackendState' = "Disconnected"
        /\ signals' = ReportClosed("NoError")
    BY <1>7 DEF BackendDisconnect, Runs, clientVars, Told, BackendState
  <2> QED
    BY <1>e, <2>1, LegalReportClosed DEF SignalsAreLegal
<1>8. CASE BackendCleanupSubscriptions \/ ChannelBreaks \/ IterateClient
  BY <1>8, <1>u DEF BackendCleanupSubscriptions, ChannelBreaks, IterateClient,
                    ClientStateCallback, clientVars, backendVars
<1>9. ASSUME NEW e \in AbortErrors, BackendConnectAbort(e) PROVE SignalsAreLegal'
  <2>1. /\ Told' = Told /\ signals' = Report(signals, "Disconnected", e)
        /\ BackendState = "Connecting" /\ BackendState' = "Disconnected"
    BY <1>9 DEF BackendConnectAbort, clientVars, Told, BackendState
  <2>2. Follows(Known(Told, signals), "Disconnected")
    BY <2>1 DEF SignalsAreLegal, Follows
  <2> QED
    BY <1>s, <1>e, <2>1, <2>2, LegalReport DEF SignalsAreLegal
<1>10. CASE BackendConnectFails
  <2>1. Told' = Told /\ signals' = signals /\ BackendState' = BackendState
    BY <1>10 DEF BackendConnectFails, clientVars, Told, BackendState
  <2> QED
    BY <2>1 DEF SignalsAreLegal
<1>11. CASE BackendConnectSucceeds
  <2>1. /\ Told' = Told /\ signals' = Report(signals, "Connected", "NoError")
        /\ BackendState = "Connecting" /\ BackendState' = "Connected"
    BY <1>11 DEF BackendConnectSucceeds, clientVars, Told, BackendState, ConnectHoldsClient
  <2>2. Follows(Known(Told, signals), "Connected")
    BY <2>1 DEF SignalsAreLegal, Follows
  <2> QED
    BY <1>s, <1>e, <2>1, <2>2, LegalReport DEF SignalsAreLegal
<1>12. CASE DisconnectTimeout
  <2>1. /\ pc = "idle" /\ Told' = Told /\ BackendState' = "Disconnected"
        /\ signals' = ReportClosed("ConnectionError")
    BY <1>12 DEF DisconnectTimeout, clientVars, Told, BackendState
  <2> QED
    BY <1>e, <2>1, LegalReportClosed DEF SignalsAreLegal
<1>13. CASE UNCHANGED vars
  BY <1>13, <1>u DEF vars, clientVars, backendVars
<1> QED
  BY <1>1, <1>2, <1>3, <1>4, <1>5, <1>6, <1>7, <1>8, <1>9, <1>10, <1>11, <1>12, <1>13
     DEF Next, Application, ClientLoop, BackendSlot, BackendConnectReturns

(* The inductive invariant behind the remaining theorems. *)
LEMMA SignalsInvariant ==
  Spec => [](TypeOK /\ ConnectHoldsClient /\ SignalsAreLegal)
<1>1. Init => ConnectHoldsClient /\ WatchedOrClosing
  BY DEF Init, ConnectHoldsClient, WatchedOrClosing
<1>2. Init => SignalsAreLegal
  <2> SUFFICES ASSUME Init PROVE SignalsAreLegal
    OBVIOUS
  <2>1. Told = "Disconnected" /\ BackendState = "Disconnected" /\ signals = <<>>
    BY DEF Init, Told, BackendState
  <2> QED
    BY <2>1 DEF SignalsAreLegal, Legal, Known, StateAfter
<1> QED
  BY <1>1, <1>2, TypeCorrect, WatchedStep, SignalsStep, PTL DEF Spec

(* The backend reports every change of its state: with the queue drained,  *)
(* m_state agrees with m_uaclient.                                         *)
THEOREM ReportsComplete == Spec => []ReportsAreComplete
<1>1. TypeOK /\ SignalsAreLegal => ReportsAreComplete
  BY LastReportedIsKnown DEF SignalsAreLegal, ReportsAreComplete
<1> QED
  BY <1>1, SignalsInvariant, PTL

-----------------------------------------------------------------------------
(* The client's part of the refinement of ClientContract: a step of the    *)
(* connection is a step of the contract or leaves m_state alone.           *)
LEMMA ContractStep ==
  TypeOK /\ SignalsAreLegal /\ [Next]_vars => [Contract!Next]_state
<1> SUFFICES ASSUME TypeOK, SignalsAreLegal, [Next]_vars
             PROVE  Contract!Next \/ state' = state
  OBVIOUS
<1>1. CASE HandleStateAndOrErrorChanged
  <2>1. Head(signals) \in Signals /\ signals # <<>> /\ signals \in Seq(Signals)
    BY <1>1, TailType DEF HandleStateAndOrErrorChanged, TypeOK
  <2>2. Follows(Told, Head(signals).state) /\ state' = Head(signals).state
    BY <1>1, <2>1, LegalTail DEF HandleStateAndOrErrorChanged, SignalsAreLegal
  <2> QED
    BY <2>2 DEF Follows, Told, Contract!Next, Contract!Connect, Contract!Resolve, Contract!Lose,
                Contract!Closed
<1>2. CASE DisconnectFromEndpoint
  BY <1>2 DEF DisconnectFromEndpoint, MayDisconnect, Contract!Next, Contract!Close
<1>3. ASSUME NEW ep \in Endpoints, ConnectToEndpoint(ep) \/ ConnectRefused(ep)
      PROVE  state' = state
  BY <1>3 DEF ConnectToEndpoint, ConnectRefused
<1>4. ASSUME NEW e, HandleConnectError(e) \/ BackendConnectAbort(e) PROVE state' = state
  BY <1>4 DEF HandleConnectError, BackendConnectAbort, clientVars
<1>5. CASE BackendSlot
  BY <1>5 DEF BackendSlot, BackendConnectInvalid, BackendConnectStart, BackendDisconnect,
              BackendCleanupSubscriptions, clientVars
<1>6. CASE BackendConnectFails \/ BackendConnectSucceeds \/ DisconnectTimeout \/ ChannelBreaks
  BY <1>6 DEF BackendConnectFails, BackendConnectSucceeds, DisconnectTimeout, ChannelBreaks,
              clientVars
<1>7. CASE IterateClient
  BY <1>7 DEF IterateClient, ClientStateCallback, clientVars
<1>8. CASE UNCHANGED vars
  BY <1>8 DEF vars, clientVars
<1> QED
  BY <1>1, <1>2, <1>3, <1>4, <1>5, <1>6, <1>7, <1>8
     DEF Next, Application, ClientLoop, BackendConnectReturns

(* The connection life cycle implements the safety part of ClientContract. *)
THEOREM Refinement == Spec => ImplementsContract
<1>1. Init => Contract!Init
  BY DEF Init, Contract!Init
<1> QED
  BY <1>1, ContractStep, SignalsInvariant, PTL DEF Spec, ImplementsContract, Contract!Safety

-----------------------------------------------------------------------------
(* A client that is Closing still has a signal to handle, or the backend   *)
(* still has a disconnectFromEndpoint to execute.                          *)
ClosingIsPending ==
  state = "Closing" =>
    signals # <<>> \/ \E k \in 1..Len(calls) : calls[k].slot = "disconnectFromEndpoint"

IsConnect(k) == calls[k].slot = "connectToEndpoint"

(* m_endpoint is the endpoint of the newest connectToEndpoint, queued or   *)
(* executed.                                                               *)
EndpointIsNewest ==
  \/ \E k \in 1..Len(calls) :
       /\ IsConnect(k) /\ calls[k].endpoint = endpoint
       /\ \A j \in (k + 1)..Len(calls) : ~IsConnect(j)
  \/ /\ \A j \in 1..Len(calls) : ~IsConnect(j)
     /\ uaclient \in {NoEndpoint, endpoint}

(* What a queue holds after its oldest event has been taken. *)
LEMMA TailElements ==
  ASSUME NEW S, NEW q \in Seq(S), q # <<>>
  PROVE  /\ Len(q) \in Nat \ {0} /\ Len(Tail(q)) = Len(q) - 1 /\ Head(q) = q[1]
         /\ \A k \in 1..Len(Tail(q)) : Tail(q)[k] = q[k + 1]
OBVIOUS

(* What a queue holds after an event has been posted. *)
LEMMA AppendElements ==
  ASSUME NEW S, NEW q \in Seq(S), NEW x
  PROVE  /\ Len(q) \in Nat /\ Len(Append(q, x)) = Len(q) + 1
         /\ Append(q, x)[Len(q) + 1] = x
         /\ \A k \in 1..Len(q) : Append(q, x)[k] = q[k]
OBVIOUS

(* Reports only make the queue longer. *)
LEMMA ReportsRemain ==
  ASSUME TypeOK
  PROVE  /\ \A e \in ClientErrors : signals # <<>> => ReportClosed(e) # <<>>
         /\ \A q \in Seq(Signals), e \in ClientErrors, s \in ClientStates \ {"Closing"} :
              Report(q, s, e) # <<>>
<1>1. ASSUME NEW q \in Seq(Signals), NEW e \in ClientErrors, NEW s \in ClientStates \ {"Closing"}
      PROVE  Report(q, s, e) # <<>>
  BY ReportType
<1>2. ASSUME NEW e \in ClientErrors, signals # <<>> PROVE ReportClosed(e) # <<>>
  <2>1. "Disconnected" \in ClientStates \ {"Closing"}
    BY DEF ClientStates
  <2> QED
    BY <1>1, <1>2, <2>1 DEF ReportClosed, TypeOK
<1> QED
  BY <1>1, <1>2

(* An idle backend without a client has nothing to report to a client that *)
(* is Closing unless a signal is on its way.                               *)
LEMMA ClosingHasSignal ==
  ASSUME TypeOK, SignalsAreLegal, state = "Closing", pc = "idle", uaclient = NoEndpoint
  PROVE  signals # <<>>
<1> SUFFICES ASSUME signals = <<>> PROVE FALSE
  OBVIOUS
<1>1. Known(Told, signals) = "Connected"
  BY DEF Known, StateAfter, Told
<1>2. BackendState = "Disconnected"
  BY DEF BackendState
<1> QED
  BY <1>1, <1>2 DEF SignalsAreLegal

(* Every step keeps ClosingIsPending. *)
LEMMA ClosingStep ==
  TypeOK /\ SignalsAreLegal /\ ClosingIsPending /\ [Next]_vars => ClosingIsPending'
<1> SUFFICES ASSUME TypeOK, SignalsAreLegal, ClosingIsPending, [Next]_vars, state' = "Closing"
             PROVE  \/ signals' # <<>>
                    \/ \E k \in 1..Len(calls') : calls'[k].slot = "disconnectFromEndpoint"
  BY DEF ClosingIsPending
<1> DEFINE Pending == \/ signals' # <<>>
                      \/ \E k \in 1..Len(calls') : calls'[k].slot = "disconnectFromEndpoint"
<1>c. calls \in Seq(Calls) /\ signals \in Seq(Signals)
  BY DEF TypeOK
<1>s. {"Disconnected", "Connecting", "Connected"} \subseteq ClientStates \ {"Closing"}
  BY DEF ClientStates
<1>e. /\ "NoError" \in ClientErrors /\ "InvalidUrl" \in ClientErrors /\ "ConnectionError" \in ClientErrors
      /\ AbortErrors \subseteq ClientErrors /\ ConnectErrors \subseteq ClientErrors
  BY DEF ClientErrors, AbortErrors, ConnectErrors
<1>a. ASSUME NEW x, calls' = Append(calls, x), state' = state, signals' = signals PROVE Pending
  BY <1>a, <1>c, AppendElements DEF ClosingIsPending
<1>1. ASSUME NEW ep \in Endpoints, ConnectToEndpoint(ep) \/ ConnectRefused(ep) PROVE Pending
  BY <1>1, <1>a DEF ConnectToEndpoint, ConnectRefused, ClosingIsPending
<1>2. CASE DisconnectFromEndpoint
  <2> DEFINE call == [slot |-> "disconnectFromEndpoint"]
  <2>1. calls' = Append(calls, call) /\ call.slot = "disconnectFromEndpoint"
    BY <1>2 DEF DisconnectFromEndpoint
  <2> HIDE DEF call
  <2> QED
    BY <1>c, <2>1, AppendElements
<1>3. CASE HandleStateAndOrErrorChanged
  <2>1. Head(signals) \in Signals
    BY <1>3, <1>c, TailType DEF HandleStateAndOrErrorChanged
  <2> QED
    BY <1>3, <2>1 DEF HandleStateAndOrErrorChanged, Signals
<1>4. ASSUME NEW e \in ClientErrors, HandleConnectError(e) \/ BackendConnectAbort(e) PROVE Pending
  BY <1>4, <1>c, <1>s, ReportsRemain DEF HandleConnectError, BackendConnectAbort
<1>5. CASE BackendConnectInvalid \/ BackendConnectStart
  BY <1>5, <1>s, <1>e, ReportClosedType, ReportsRemain DEF BackendConnectInvalid, BackendConnectStart
<1>6. CASE BackendDisconnect
  <2>1. signals # <<>> => Pending
    BY <1>6, <1>e, ReportsRemain DEF BackendDisconnect
  <2>2. uaclient # NoEndpoint => Pending
    BY <1>6, <1>c, <1>s, <1>e, ReportsRemain DEF BackendDisconnect, ReportClosed
  <2>3. uaclient = NoEndpoint => signals # <<>>
    BY <1>6, ClosingHasSignal DEF BackendDisconnect, Runs, clientVars
  <2> QED
    BY <2>1, <2>2, <2>3
<1>7. CASE BackendCleanupSubscriptions
  <2>1. /\ calls # <<>> /\ Head(calls).slot # "disconnectFromEndpoint"
        /\ calls' = Tail(calls) /\ signals' = signals /\ state = "Closing"
    BY <1>7 DEF BackendCleanupSubscriptions, Runs, clientVars
  <2>2. CASE signals # <<>>
    BY <2>1, <2>2
  <2>3. CASE signals = <<>>
    <3>1. PICK k \in 1..Len(calls) : calls[k].slot = "disconnectFromEndpoint"
      BY <2>1, <2>3 DEF ClosingIsPending
    <3>2. /\ k - 1 \in 1..Len(Tail(calls))
          /\ Tail(calls)[k - 1] = calls[k]
      BY <1>c, <2>1, <3>1, TailElements
    <3> QED
      BY <2>1, <3>1, <3>2
  <2> QED
    BY <2>2, <2>3
<1>8. CASE BackendConnectFails \/ ChannelBreaks
  BY <1>8 DEF BackendConnectFails, ChannelBreaks, clientVars, ClosingIsPending
<1>9. CASE BackendConnectSucceeds
  BY <1>9, <1>c, <1>s, <1>e, ReportsRemain DEF BackendConnectSucceeds
<1>10. CASE DisconnectTimeout
  <2>1. signals # <<>> => Pending
    BY <1>10, <1>e, ReportsRemain DEF DisconnectTimeout
  <2>2. uaclient # NoEndpoint => Pending
    BY <1>10, <1>c, <1>s, <1>e, ReportsRemain DEF DisconnectTimeout, ReportClosed
  <2>3. uaclient = NoEndpoint => signals # <<>>
    BY <1>10, ClosingHasSignal DEF DisconnectTimeout, clientVars
  <2> QED
    BY <2>1, <2>2, <2>3
<1>11. CASE IterateClient
  BY <1>11, <1>a DEF IterateClient, ClientStateCallback, clientVars
<1>12. CASE UNCHANGED vars
  BY <1>12 DEF vars, clientVars, ClosingIsPending
<1> QED
  BY <1>1, <1>2, <1>3, <1>4, <1>5, <1>6, <1>7, <1>8, <1>9, <1>10, <1>11, <1>12, <1>e
     DEF Next, Application, ClientLoop, BackendSlot, BackendConnectReturns

(* The backend takes the oldest call: a connectToEndpoint may give it that *)
(* endpoint, anything else at most ends the connection.                    *)
LEMMA NewestTail ==
  ASSUME TypeOK, EndpointIsNewest, calls # <<>>, calls' = Tail(calls), endpoint' = endpoint,
         IsConnect(1) => uaclient' \in {NoEndpoint, calls[1].endpoint},
         ~IsConnect(1) => uaclient' \in {NoEndpoint, uaclient}
  PROVE  EndpointIsNewest'
<1>1. /\ Len(calls) \in Nat \ {0} /\ Len(calls') = Len(calls) - 1
      /\ \A k \in 1..Len(calls') : calls'[k] = calls[k + 1]
  BY TailElements DEF TypeOK
<1>2. ASSUME NEW k \in 1..Len(calls), IsConnect(k), calls[k].endpoint = endpoint,
             \A j \in (k + 1)..Len(calls) : ~IsConnect(j)
      PROVE  EndpointIsNewest'
  <2>1. CASE k = 1
    <3>1. \A j \in 1..Len(calls') : calls'[j].slot # "connectToEndpoint"
      BY <1>1, <1>2, <2>1 DEF IsConnect
    <3>2. uaclient' \in {NoEndpoint, endpoint'}
      BY <1>2, <2>1
    <3> QED
      BY <3>1, <3>2 DEF EndpointIsNewest, IsConnect
  <2>2. CASE k # 1
    <3>1. k - 1 \in 1..Len(calls')
      BY <1>1, <2>2
    <3>2. calls'[k - 1].slot = "connectToEndpoint" /\ calls'[k - 1].endpoint = endpoint'
      BY <1>1, <1>2, <3>1 DEF IsConnect
    <3>3. \A j \in ((k - 1) + 1)..Len(calls') : calls'[j].slot # "connectToEndpoint"
      BY <1>1, <1>2, <2>2 DEF IsConnect
    <3> QED
      BY <3>1, <3>2, <3>3 DEF EndpointIsNewest, IsConnect
  <2> QED
    BY <2>1, <2>2
<1>3. ASSUME \A j \in 1..Len(calls) : ~IsConnect(j), uaclient \in {NoEndpoint, endpoint}
      PROVE  EndpointIsNewest'
  <2>1. \A j \in 1..Len(calls') : calls'[j].slot # "connectToEndpoint"
    BY <1>1, <1>3 DEF IsConnect
  <2>2. uaclient' \in {NoEndpoint, endpoint'}
    BY <1>1, <1>3
  <2> QED
    BY <2>1, <2>2 DEF EndpointIsNewest, IsConnect
<1> QED
  BY <1>2, <1>3 DEF EndpointIsNewest

(* Every step keeps EndpointIsNewest. *)
LEMMA EndpointStep == TypeOK /\ EndpointIsNewest /\ [Next]_vars => EndpointIsNewest'
<1> SUFFICES ASSUME TypeOK, EndpointIsNewest, [Next]_vars PROVE EndpointIsNewest'
  OBVIOUS
<1> USE DEF clientVars, backendVars
<1>c. calls \in Seq(Calls)
  BY DEF TypeOK
<1>u. ASSUME UNCHANGED <<calls, endpoint>>, uaclient' \in {NoEndpoint, uaclient}
      PROVE  EndpointIsNewest'
  BY <1>u DEF EndpointIsNewest, IsConnect
<1>a. ASSUME NEW x, calls' = Append(calls, x), x.slot # "connectToEndpoint",
             UNCHANGED <<endpoint, uaclient>>
      PROVE  EndpointIsNewest'
  BY <1>a, <1>c, AppendElements DEF EndpointIsNewest, IsConnect
<1>1. ASSUME NEW ep \in Endpoints, ConnectToEndpoint(ep) PROVE EndpointIsNewest'
  <2> DEFINE call == [slot |-> "connectToEndpoint", endpoint |-> ep]
  <2>1. /\ calls' = Append(calls, call) /\ endpoint' = ep
        /\ call.slot = "connectToEndpoint" /\ call.endpoint = ep
    BY <1>1 DEF ConnectToEndpoint
  <2> HIDE DEF call
  <2> QED
    BY <1>c, <2>1, AppendElements DEF EndpointIsNewest, IsConnect
<1>2. ASSUME NEW ep \in Endpoints, ConnectRefused(ep) PROVE EndpointIsNewest'
  BY <1>2, <1>u DEF ConnectRefused
<1>3. CASE DisconnectFromEndpoint
  BY <1>3, <1>a DEF DisconnectFromEndpoint
<1>4. CASE HandleStateAndOrErrorChanged
  BY <1>4, <1>u DEF HandleStateAndOrErrorChanged
<1>5. ASSUME NEW e, HandleConnectError(e) \/ BackendConnectAbort(e) PROVE EndpointIsNewest'
  BY <1>5, <1>u DEF HandleConnectError, BackendConnectAbort
<1>6. CASE BackendConnectInvalid \/ BackendConnectStart
  <2>1. /\ calls # <<>> /\ calls' = Tail(calls) /\ endpoint' = endpoint
        /\ Head(calls).slot = "connectToEndpoint"
        /\ uaclient' \in {NoEndpoint, Head(calls).endpoint}
    BY <1>6 DEF BackendConnectInvalid, BackendConnectStart, Runs
  <2>2. Head(calls) = calls[1]
    BY <1>c, <2>1, TailElements
  <2> QED
    BY <2>1, <2>2, NewestTail DEF IsConnect
<1>7. CASE BackendDisconnect \/ BackendCleanupSubscriptions
  <2>1. /\ calls # <<>> /\ calls' = Tail(calls) /\ endpoint' = endpoint
        /\ Head(calls).slot # "connectToEndpoint"
        /\ uaclient' \in {NoEndpoint, uaclient}
    BY <1>7 DEF BackendDisconnect, BackendCleanupSubscriptions, Runs
  <2>2. Head(calls) = calls[1]
    BY <1>c, <2>1, TailElements
  <2> QED
    BY <2>1, <2>2, NewestTail DEF IsConnect
<1>8. CASE BackendConnectFails \/ BackendConnectSucceeds \/ DisconnectTimeout \/ ChannelBreaks
  BY <1>8, <1>u DEF BackendConnectFails, BackendConnectSucceeds, DisconnectTimeout, ChannelBreaks
<1>9. CASE IterateClient
  BY <1>9, <1>a DEF IterateClient, ClientStateCallback
<1>10. CASE UNCHANGED vars
  BY <1>10, <1>u DEF vars
<1> QED
  BY <1>1, <1>2, <1>3, <1>4, <1>5, <1>6, <1>7, <1>8, <1>9, <1>10
     DEF Next, Application, ClientLoop, BackendSlot, BackendConnectReturns

(* With nothing queued, the client's state and endpoint are the backend's. *)
THEOREM SettledAgree == Spec => []SettledAgreement
<1>1. Init => ClosingIsPending /\ EndpointIsNewest
  BY DEF Init, ClosingIsPending, EndpointIsNewest
<1>2. ASSUME TypeOK, SignalsAreLegal, ClosingIsPending, EndpointIsNewest, Settled
      PROVE  \/ state = "Connected" /\ uaclient = endpoint /\ uaclient # NoEndpoint
             \/ state = "Disconnected" /\ uaclient = NoEndpoint
  <2>1. signals = <<>> /\ calls = <<>> /\ pc = "idle"
    BY <1>2 DEF Settled
  <2>2. state # "Closing"
    BY <1>2, <2>1 DEF ClosingIsPending
  <2>3. state = BackendState
    BY <1>2, <2>1, <2>2 DEF SignalsAreLegal, Known, StateAfter, Told
  <2>4. uaclient \in {NoEndpoint, endpoint}
    BY <1>2, <2>1 DEF EndpointIsNewest
  <2> QED
    BY <2>1, <2>3, <2>4 DEF BackendState
<1>3. TypeOK /\ SignalsAreLegal /\ ClosingIsPending /\ EndpointIsNewest => SettledAgreement
  BY <1>2 DEF SettledAgreement
<1> QED
  BY <1>1, <1>3, SignalsInvariant, ClosingStep, EndpointStep, PTL DEF Spec
=============================================================================
