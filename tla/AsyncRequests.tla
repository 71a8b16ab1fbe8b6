----------------------------- MODULE AsyncRequests -----------------------------
(***************************************************************************)
(* The asynchronous services of the open62541 plugin: an application       *)
(* request becomes a queued slot, the slot dispatches a service request    *)
(* whose id is the key of a context in one of the m_async...Context maps,  *)
(* and open62541 calls the slot's callback with that id: with the server's *)
(* answer, with BadTimeout, or with BadSessionClosed when the connection   *)
(* is closed.  The callback takes the context and emits the signal that    *)
(* answers the request.                                                    *)
(*                                                                         *)
(* The ids restart with every UA_Client_new, and no context is removed     *)
(* when a connection ends: only the callbacks do that.                     *)
(***************************************************************************)
EXTENDS Naturals, Sequences, FiniteSets, SequencesExt

CONSTANTS
  Requests,    \* requests of the application, each made at most once
  SlotOf,      \* the backend slot of each request, a member of Slots
  Empty,       \* requests whose list of attributes or items is empty
  MaxPages,    \* bound: BrowseNext answers to one browse request
  MaxPending,  \* bound: events in the two queues when the application calls
  NoRequest

Row(slot, table, refused, finished) ==
  [slot |-> slot, table |-> table, refused |-> refused, finished |-> finished]

(* The slots: the map that keeps their contexts, the signal emitted when   *)
(* the request cannot be dispatched, the signal emitted by the callback.   *)
AttributeSlots ==
  { Row("readAttributes", "read", "attributesRead", "attributesRead"),
    Row("writeAttribute", "writeAttributes", "attributeWritten", "attributeWritten"),
    Row("writeAttributes", "writeAttributes", "attributeWritten", "attributeWritten") }

ObjectSlots ==
  { Row("callMethod", "call", "methodCallFinished", "methodCallFinished"),
    Row("resolveBrowsePath", "translate", "resolveBrowsePathFinished", "resolveBrowsePathFinished") }

BatchSlots ==
  { Row("readNodeAttributes", "batchRead", "readNodeAttributesFinished", "readNodeAttributesFinished"),
    Row("writeNodeAttributes", "batchWrite", "readNodeAttributesFinished", "writeNodeAttributesFinished") }

AddressSpaceSlots ==
  { Row("addNode", "addNode", "addNodeFinished", "addNodeFinished"),
    Row("deleteNode", "deleteNode", "deleteNodeFinished", "deleteNodeFinished"),
    Row("addReference", "addReference", "addReferenceFinished", "addReferenceFinished"),
    Row("deleteReference", "deleteReference", "deleteReferenceFinished", "deleteReferenceFinished") }

BrowseSlot == Row("browse", "browse", "browseFinished", "browseFinished")

Slots == AttributeSlots \cup ObjectSlots \cup BatchSlots \cup AddressSpaceSlots \cup {BrowseSlot}

(* The tables the requests use. *)
Tables == {SlotOf[r].table : r \in Requests}
SignalNames == {row.refused : row \in Slots} \cup {row.finished : row \in Slots}

(* The slots that answer a call with nothing to do by themselves. *)
ListSlots == {"writeAttributes", "readNodeAttributes", "writeNodeAttributes"}

ASSUME RequestsAssumption ==
  /\ IsFiniteSet(Requests) /\ NoRequest \notin Requests
  /\ SlotOf \in [Requests -> Slots]
  /\ Empty \subseteq {r \in Requests : SlotOf[r].slot \in ListSlots}
ASSUME BoundsAssumption == MaxPages \in Nat /\ MaxPending \in Nat

(* Request ids: one per request and per BrowseNext.  Zero is the value of  *)
(* requestId before the dispatch.                                          *)
Ids ==
  1..(Cardinality(Requests) + MaxPages * Cardinality({r \in Requests : SlotOf[r] = BrowseSlot}))

VARIABLES
  connected,    \* the client's m_state is Connected
  posted,       \* history: requests made
  answers,      \* history: answers each request has had
  calls, signals,
  uaclient,     \* m_uaclient: "null", "open", or "broken" (its channel is)
  watched,      \* m_useStateCallback and m_clientIterateTimer
  timer,        \* m_disconnectAfterStateChangeTimer is running
  lastId,       \* open62541: the last request id of this UA_Client
  outstanding,  \* open62541: asyncServiceCalls, the request behind each id
  contexts,     \* m_async...Context: for each table, id -> context
  onConnection, \* history: requests dispatched on this connection
  undefined     \* the last step was undefined behaviour

clientVars  == <<connected, posted, answers>>
linkVars    == <<uaclient, watched, timer>>
serviceVars == <<lastId, outstanding, contexts, onConnection>>
vars == <<clientVars, calls, signals, linkVars, serviceVars, undefined>>

(* A context: the request it was stored for, and for browse the pages of   *)
(* references collected so far (isBrowseNext is pages > 0).                *)
NoContext == [req |-> NoRequest, pages |-> 0]
Contexts == [req : Requests \cup {NoRequest}, pages : 0..(MaxPages + 1)]

Calls ==
  [slot : {"request"}, req : Requests]
    \cup [slot : {"connectToEndpoint", "disconnectFromEndpoint"}]

(* `pages' is the number of pages of references the answer carries. *)
Signals ==
  [name : SignalNames, req : Requests \cup {NoRequest}, code : {"Good", "Bad"},
   pages : 0..(MaxPages + 1)]
    \cup [name : {"stateAndOrErrorChanged"}, connected : BOOLEAN, over : SUBSET Requests]

Answer(name, r, code, pages) ==
  [name |-> name, req |-> r, code |-> code, pages |-> pages]

(* `over' is history: the requests of the connection that ended. *)
State(c, over) == [name |-> "stateAndOrErrorChanged", connected |-> c, over |-> over]

Init ==
  /\ connected = FALSE
  /\ posted = {}
  /\ answers = [r \in Requests |-> 0]
  /\ calls = <<>> /\ signals = <<>>
  /\ uaclient = "null" /\ watched = FALSE /\ timer = FALSE
  /\ lastId = 0
  /\ outstanding = [i \in Ids |-> NoRequest]
  /\ contexts = [t \in Tables |-> [i \in Ids \cup {0} |-> NoContext]]
  /\ onConnection = {}
  /\ undefined = FALSE

-----------------------------------------------------------------------------
(* The application's thread.                                               *)

MayCall == ~undefined /\ Len(calls) + Len(signals) < MaxPending

Post(call) ==
  /\ calls' = Append(calls, call)
  /\ UNCHANGED <<answers, signals, linkVars, serviceVars, undefined>>

(* A request of QOpcUaNode or QOpcUaClient: refused unless Connected. *)
Request(r) ==
  /\ MayCall /\ connected /\ r \notin posted
  /\ posted' = posted \cup {r}
  /\ Post([slot |-> "request", req |-> r])
  /\ UNCHANGED connected

ConnectToEndpoint ==
  /\ MayCall
  /\ Post([slot |-> "connectToEndpoint"])
  /\ UNCHANGED <<connected, posted>>

DisconnectFromEndpoint ==
  /\ MayCall /\ connected
  /\ connected' = FALSE
  /\ Post([slot |-> "disconnectFromEndpoint"])
  /\ UNCHANGED posted

(* An answer reaches the node or the client.  One without a context has    *)
(* handle 0, which belongs to nobody.                                      *)
HandleAnswer ==
  LET s == Head(signals)
  IN /\ ~undefined
     /\ signals # <<>> /\ s.name # "stateAndOrErrorChanged"
     /\ answers' = IF s.req = NoRequest THEN answers ELSE [answers EXCEPT ![s.req] = @ + 1]
     /\ signals' = Tail(signals)
     /\ UNCHANGED <<connected, posted, calls, linkVars, serviceVars, undefined>>

HandleStateAndOrErrorChanged ==
  /\ ~undefined
  /\ signals # <<>> /\ Head(signals).name = "stateAndOrErrorChanged"
  /\ connected' = Head(signals).connected
  /\ signals' = Tail(signals)
  /\ UNCHANGED <<posted, answers, calls, linkVars, serviceVars, undefined>>

-----------------------------------------------------------------------------
(* The plugin's thread: the slots.                                         *)

Runs(slot) == ~undefined /\ calls # <<>> /\ Head(calls).slot = slot

(* The table entry of request r, kept for id i. *)
Store(t, i, r, pages) == [contexts EXCEPT ![t][i] = [req |-> r, pages |-> pages]]

(* BadNothingToDo, before anything is sent. *)
BackendNothingToDo ==
  LET r == Head(calls).req
  IN /\ Runs("request") /\ r \in Empty
     /\ signals' = Append(signals, Answer(SlotOf[r].finished, r, "Bad", 0))
     /\ calls' = Tail(calls)
     /\ UNCHANGED <<clientVars, linkVars, serviceVars, undefined>>

(* A break that open62541 has not noticed does not stop it from sending.   *)
CanSend == uaclient = "open" \/ (uaclient = "broken" /\ watched)

BackendDispatch ==
  LET r == Head(calls).req
      i == lastId + 1
  IN /\ Runs("request") /\ r \notin Empty
     /\ CanSend
     /\ lastId' = i
     /\ outstanding' = [outstanding EXCEPT ![i] = r]
     /\ contexts' = Store(SlotOf[r].table, i, r, 0)
     /\ onConnection' = onConnection \cup {r}
     /\ calls' = Tail(calls)
     /\ UNCHANGED <<clientVars, signals, linkVars, undefined>>

(* The context a refused request leaves behind: callMethod() does not      *)
(* return after emitting the error and stores one under id 0.              *)
RefusedContext(r) ==
  IF SlotOf[r].slot = "callMethod" THEN Store(SlotOf[r].table, 0, r, 0) ELSE contexts

(* __UA_Client_AsyncServiceEx returns BadServerNotConnected or the error   *)
(* of the send.                                                            *)
BackendRefused ==
  LET r == Head(calls).req
  IN /\ Runs("request") /\ r \notin Empty
     /\ uaclient = "broken"
     /\ signals' = Append(signals, Answer(SlotOf[r].refused, r, "Bad", 0))
     /\ contexts' = RefusedContext(r)
     /\ calls' = Tail(calls)
     /\ UNCHANGED <<clientVars, linkVars, lastId, outstanding, onConnection, undefined>>

(* __UA_Client_AsyncServiceEx(nullptr, ...): the request was made while    *)
(* the client was Connected and runs after the connection is gone.         *)
BackendDispatchOnNull ==
  /\ Runs("request") /\ Head(calls).req \notin Empty
  /\ uaclient = "null"
  /\ undefined' = TRUE
  /\ UNCHANGED <<clientVars, calls, signals, linkVars, serviceVars>>

-----------------------------------------------------------------------------
(* The callbacks.  The context is taken from the table of the slot.        *)

TableOf(i) == SlotOf[outstanding[i]].table
ContextOf(i) == contexts[TableOf(i)][i]

MutTaken(i) == contexts

Taken(i) == [contexts EXCEPT ![TableOf(i)][i] = NoContext]

(* The answer a callback emits when it does not ask for more. *)
MutNobodysAnswer(i, code, pages) ==
  Answer(SlotOf[outstanding[i]].finished, NoRequest, code, pages)

CallbackAnswer(i, code, pages) ==
  Answer(SlotOf[outstanding[i]].finished, ContextOf(i).req, code, pages)

Emit(i, code, pages) ==
  /\ signals' = Append(signals, CallbackAnswer(i, code, pages))
  /\ outstanding' = [outstanding EXCEPT ![i] = NoRequest]
  /\ contexts' = Taken(i)
  /\ UNCHANGED <<clientVars, calls, linkVars, lastId, onConnection, undefined>>

IsBrowse(i) == SlotOf[outstanding[i]] = BrowseSlot

Outstanding(i) == ~undefined /\ outstanding[i] # NoRequest

(* External: open62541 hands over an answer while it iterates. *)
Answered(i) == Outstanding(i) /\ uaclient = "open"

(* A service other than browse is answered, well or badly. *)
AsyncCallback(i, code) ==
  /\ Answered(i) /\ ~IsBrowse(i)
  /\ Emit(i, code, 0)

(* Browse: references and no continuation point. *)
AsyncBrowseLast(i) ==
  /\ Answered(i) /\ IsBrowse(i)
  /\ Emit(i, "Good", ContextOf(i).pages + 1)

(* Browse: the service failed; what was collected is dropped. *)
AsyncBrowseFails(i) ==
  /\ Answered(i) /\ IsBrowse(i)
  /\ Emit(i, "Bad", 0)

(* Browse: the service succeeded, the one operation of it failed, without  *)
(* references: statusCode is the service result.                           *)
AsyncBrowseResultBad(i) ==
  /\ Answered(i) /\ IsBrowse(i)
  /\ Emit(i, "Good", ContextOf(i).pages)

(* Browse: a continuation point, and BrowseNext is sent for the rest. *)
AsyncBrowseNext(i) ==
  LET c == ContextOf(i)
      n == lastId + 1
  IN /\ Answered(i) /\ IsBrowse(i)
     /\ c.pages < MaxPages
     /\ lastId' = n
     /\ outstanding' = [outstanding EXCEPT ![i] = NoRequest, ![n] = outstanding[i]]
     /\ contexts' = [Taken(i) EXCEPT !["browse"][n] = [req |-> c.req, pages |-> c.pages + 1]]
     /\ UNCHANGED <<clientVars, calls, signals, linkVars, onConnection, undefined>>

(* Browse: BrowseNext cannot be sent, because the channel broke after the  *)
(* answer had come in.                                                     *)
AsyncBrowseNextRefused(i) ==
  /\ Outstanding(i) /\ IsBrowse(i)
  /\ uaclient = "broken" /\ watched
  /\ Emit(i, "Bad", ContextOf(i).pages + 1)

(* asyncServiceTimeoutCheck in UA_Client_run_iterate: BadTimeout. *)
RequestTimeout(i) ==
  /\ Outstanding(i)
  /\ watched /\ uaclient # "null"
  /\ Emit(i, "Bad", 0)

Callback(i) ==
  \/ \E code \in {"Good", "Bad"} : AsyncCallback(i, code)
  \/ AsyncBrowseLast(i) \/ AsyncBrowseFails(i) \/ AsyncBrowseResultBad(i)
  \/ AsyncBrowseNext(i) \/ AsyncBrowseNextRefused(i)
  \/ RequestTimeout(i)

-----------------------------------------------------------------------------
(* The end of a connection.                                                *)

(* UA_Client_disconnect calls every outstanding callback with              *)
(* BadSessionClosed, which disconnectInternal() waits for; the state is    *)
(* reported last.                                                          *)
ClosingAnswers ==
  LET order == SetToSeq({i \in Ids : outstanding[i] # NoRequest})
  IN [k \in DOMAIN order |-> CallbackAnswer(order[k], "Bad", 0)]

MutClosingSignals ==
  IF uaclient = "null" THEN <<>> ELSE <<State(FALSE, onConnection)>> \o ClosingAnswers

ClosingSignals ==
  IF uaclient = "null" THEN <<>> ELSE ClosingAnswers \o <<State(FALSE, onConnection)>>

Close ==
  /\ outstanding' = [i \in Ids |-> NoRequest]
  /\ contexts' = [t \in Tables |-> [i \in Ids \cup {0} |->
                    IF i # 0 /\ outstanding[i] # NoRequest /\ TableOf(i) = t
                      THEN NoContext ELSE contexts[t][i]]]
  /\ lastId' = 0
  /\ onConnection' = {}

BackendDisconnect ==
  /\ Runs("disconnectFromEndpoint")
  /\ Close
  /\ uaclient' = "null"
  /\ watched' = FALSE
  /\ signals' = signals \o ClosingSignals
  /\ calls' = Tail(calls)
  /\ UNCHANGED <<clientVars, timer, undefined>>

BackendConnect(succeeds) ==
  /\ Runs("connectToEndpoint")
  /\ Close
  /\ uaclient' = IF succeeds THEN "open" ELSE "null"
  /\ watched' = succeeds
  /\ signals' = signals \o ClosingSignals \o <<State(succeeds, {})>>
  /\ calls' = Tail(calls)
  /\ UNCHANGED <<clientVars, timer, undefined>>

DisconnectTimeout ==
  /\ ~undefined /\ timer
  /\ timer' = FALSE
  /\ Close
  /\ uaclient' = "null"
  /\ watched' = FALSE
  /\ signals' = signals \o ClosingSignals
  /\ UNCHANGED <<clientVars, calls, undefined>>

(* clientStateCallback() *)
MutClientStateCallback ==
  /\ ~undefined /\ uaclient = "broken" /\ watched
  /\ watched' = FALSE
  /\ UNCHANGED <<clientVars, calls, signals, uaclient, timer, serviceVars, undefined>>

ClientStateCallback ==
  /\ ~undefined /\ uaclient = "broken" /\ watched
  /\ watched' = FALSE
  /\ timer' = TRUE
  /\ UNCHANGED <<clientVars, calls, signals, uaclient, serviceVars, undefined>>

(* External.  The late answer to a request that has timed out breaks the   *)
(* channel as well: open62541 does not know its id any more.               *)
ChannelBreaks ==
  /\ ~undefined /\ uaclient = "open"
  /\ uaclient' = "broken"
  /\ UNCHANGED <<clientVars, calls, signals, watched, timer, serviceVars, undefined>>

-----------------------------------------------------------------------------
ClientLoop == HandleAnswer \/ HandleStateAndOrErrorChanged

BackendSlot ==
  \/ BackendNothingToDo
  \/ BackendDispatch \/ BackendRefused \/ BackendDispatchOnNull
  \/ BackendDisconnect
  \/ \E succeeds \in BOOLEAN : BackendConnect(succeeds)

Next ==
  \/ \E r \in Requests : Request(r)
  \/ ConnectToEndpoint
  \/ DisconnectFromEndpoint
  \/ ClientLoop
  \/ BackendSlot
  \/ \E i \in Ids : Callback(i)
  \/ DisconnectTimeout
  \/ ClientStateCallback
  \/ ChannelBreaks

(* The event loops serve their queues and timers; the iterate timer makes  *)
(* open62541 look for timeouts and for a broken channel.  Neither the      *)
(* server nor the application has to do anything.                          *)
Fairness ==
  /\ WF_vars(ClientLoop)
  /\ WF_vars(BackendSlot)
  /\ WF_vars(DisconnectTimeout)
  /\ WF_vars(ClientStateCallback)
  /\ \A i \in Ids : WF_vars(Callback(i))

Spec == Init /\ [][Next]_vars /\ Fairness

-----------------------------------------------------------------------------
(* Every variable keeps its type. *)
TypeOK ==
  /\ connected \in BOOLEAN
  /\ posted \subseteq Requests
  /\ answers \in [Requests -> Nat]
  /\ calls \in Seq(Calls)
  /\ signals \in Seq(Signals)
  /\ uaclient \in {"null", "open", "broken"}
  /\ watched \in BOOLEAN /\ timer \in BOOLEAN
  /\ lastId \in Ids \cup {0}
  /\ outstanding \in [Ids -> Requests \cup {NoRequest}]
  /\ contexts \in [Tables -> [Ids \cup {0} -> Contexts]]
  /\ onConnection \subseteq Requests
  /\ undefined \in BOOLEAN

(* Contexts never leak and never cross: besides id 0, a table has a        *)
(* context exactly for the ids open62541 will call back, and it is the     *)
(* context of the very request behind the id, although each connection     *)
(* uses the same ids again and nothing clears the tables between them.     *)
ContextsAreExact ==
  \A t \in Tables, i \in Ids :
    contexts[t][i].req = (IF outstanding[i] # NoRequest /\ TableOf(i) = t
                            THEN outstanding[i] ELSE NoRequest)

(* The places a request can be in: the slot queue, open62541, the signal   *)
(* queue, the application.                                                 *)
Places(r) ==
  Cardinality({k \in DOMAIN calls : calls[k].slot = "request" /\ calls[k].req = r})
    + Cardinality({i \in Ids : outstanding[i] = r})
    + Cardinality({k \in DOMAIN signals :
                     signals[k].name # "stateAndOrErrorChanged" /\ signals[k].req = r})
    + answers[r]

(* No request is lost and none is answered twice, across timeouts, broken  *)
(* channels, reconnects and browse continuations.                          *)
RequestsAreConserved ==
  \A r \in Requests : Places(r) = (IF r \in posted THEN 1 ELSE 0)

(* When the client hears that a connection has ended, every request that   *)
(* was sent on it has been answered before: the answers are queued ahead.  *)
AnswersPrecedeDisconnect ==
  \A k \in DOMAIN signals : signals[k].name = "stateAndOrErrorChanged" =>
    \A r \in signals[k].over :
      \/ answers[r] > 0
      \/ \E j \in 1..(k - 1) : signals[j].name # "stateAndOrErrorChanged" /\ signals[j].req = r

(* Every request is answered in the end, without any help from the server, *)
(* as long as no request reaches the backend after the connection is gone. *)
RequestsAreAnswered ==
  \A r \in Requests : (r \in posted) ~> (answers[r] > 0 \/ undefined)
=============================================================================
