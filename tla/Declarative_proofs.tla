-------------------------- MODULE Declarative_proofs --------------------------
(***************************************************************************)
(* Proofs about Declarative, for any node ids, indexes and bounds.         *)
(*                                                                         *)
(* The steps are functions of the QML objects; so are the invariant's      *)
(* parts, and a lemma for each function says that it keeps them.           *)
(***************************************************************************)
EXTENDS Declarative, TLAPS

-----------------------------------------------------------------------------
(* The inductive invariant.                                                *)

(* What is asked of the backend is asked by a node, and the item is one's. *)
HasNode(q) == q.queue # <<>> \/ q.item => q.node # NoNode

(* An answer that was not disowned is the node's. *)
OwnEvents(q) == \A k \in DOMAIN q.events : q.events[k].own => q.events[k].from = q.node

OwnCache(q) == q.cache \in {NoNode, q.node}

(* After event k, `monitored' is true as far as the events go. *)
TurnsOn(events, k) ==
  /\ events[k].kind = "enabled" /\ events[k].good
  /\ \A j \in DOMAIN events : j > k => events[j].kind # "disabled"

(* An item is reported already and nothing in the event queue takes that   *)
(* back, or the report is the last word of the queue.                      *)
Reported(q) ==
  q.item => \/ q.monitoredState /\ \A k \in DOMAIN q.events : q.events[k].kind # "disabled"
            \/ \E k \in DOMAIN q.events : TurnsOn(q.events, k)

Whole(q) == q \in Objects /\ HasNode(q) /\ OwnEvents(q) /\ OwnCache(q) /\ Reported(q)

(* Behind `connected' there is no node of an earlier connection. *)
Current(q) == q.connected /\ q.resolvers = <<>> => q.node = NoNode \/ q.fresh

DeclarativeInv ==
  /\ TypeOK
  /\ Whole(qml)
  /\ Current(qml)
  /\ qml.connected => ns.answered

-----------------------------------------------------------------------------
(* The functions of the QML objects.                                       *)

LEMMA UpdateSubscriptionKeeps ==
  ASSUME NEW q, Whole(q)
  PROVE  /\ Whole(updateSubscription(q))
         /\ updateSubscription(q).connected = q.connected
         /\ updateSubscription(q).resolvers = q.resolvers
         /\ updateSubscription(q).node = q.node
         /\ updateSubscription(q).fresh = q.fresh
<1> DEFINE e == IF q.monitored THEN "enable" ELSE "disable"
           r == [q EXCEPT !.queue = Append(q.queue, e)]
<1>1. q \in Objects
  BY DEF Whole
<1>2. CASE q.node = NoNode \/ q.monitored = q.monitoredState
  BY <1>2 DEF updateSubscription
<1>3. CASE ~(q.node = NoNode \/ q.monitored = q.monitoredState)
  <2>1. updateSubscription(q) = r
    BY <1>3 DEF updateSubscription
  <2>2. Append(q.queue, e) \in Seq({"read", "enable", "disable"})
    BY <1>1 DEF Objects
  <2> HIDE DEF e
  <2>3. r \in Objects
    BY <1>1, <2>2 DEF Objects
  <2>4. /\ r.connected = q.connected /\ r.resolvers = q.resolvers /\ r.node = q.node
        /\ r.fresh = q.fresh /\ r.cache = q.cache /\ r.item = q.item /\ r.events = q.events
        /\ r.monitoredState = q.monitoredState
    BY <1>1 DEF Objects
  <2> HIDE DEF r
  <2>5. Whole(r)
    BY <1>3, <2>3, <2>4 DEF Whole, HasNode, OwnEvents, OwnCache, Reported
  <2> QED
    BY <2>1, <2>4, <2>5
<1> QED
  BY <1>2, <1>3

LEMMA Disowned ==
  ASSUME NEW e \in Events
  PROVE  [e EXCEPT !.own = FALSE] \in Events /\ [e EXCEPT !.own = FALSE].own = FALSE
BY DEF Events

LEMMA SequenceOf ==
  ASSUME NEW S, NEW T, NEW s \in Seq(S), NEW f, DOMAIN f = DOMAIN s, f = [i \in DOMAIN s |-> f[i]],
         \A i \in DOMAIN s : f[i] \in T
  PROVE  f \in Seq(T)
<1>1. Len(s) \in Nat /\ DOMAIN s = 1..Len(s)
  OBVIOUS
<1> QED
  BY <1>1

(* Whatever was there before, setupNode() leaves a node of its own making  *)
(* or none.                                                                *)
LEMMA SetupNodeKeeps ==
  ASSUME NEW q \in Objects, NEW path, path.index = Empty \/ path \in Nodes, NEW state
  PROVE  LET r == setupNode(q, path, state)
         IN Whole(r) /\ r.connected = q.connected /\ (r.node = NoNode \/ r.fresh)
<1> DEFINE disowned == [i \in DOMAIN q.events |-> [q.events[i] EXCEPT !.own = FALSE]]
           old == [q EXCEPT !.cache = NoNode, !.node = NoNode, !.item = FALSE, !.queue = <<>>,
                            !.events = disowned]
           new == [old EXCEPT !.node = path, !.fresh = TRUE, !.queue = <<"read">>]
<1>1. disowned \in Seq(Events) /\ \A k \in DOMAIN disowned : ~disowned[k].own
  <2>1. q.events \in Seq(Events)
    BY DEF Objects
  <2>2. \A i \in DOMAIN q.events : [q.events[i] EXCEPT !.own = FALSE] \in Events
                                   /\ [q.events[i] EXCEPT !.own = FALSE].own = FALSE
    BY <2>1, Disowned
  <2>3. /\ DOMAIN disowned = DOMAIN q.events /\ disowned = [i \in DOMAIN q.events |-> disowned[i]]
        /\ \A i \in DOMAIN q.events : disowned[i] \in Events /\ ~disowned[i].own
    BY <2>2
  <2> HIDE DEF disowned
  <2> QED
    BY <2>1, <2>3, SequenceOf
<1>2. setupNode(q, path, state) =
        IF path.index = Empty \/ ~q.connected \/ state # "Connected" THEN old
        ELSE updateSubscription(new)
  BY DEF setupNode
<1> HIDE DEF disowned
<1>3. /\ old \in Objects /\ old.cache = NoNode /\ old.node = NoNode /\ old.item = FALSE
      /\ old.queue = <<>> /\ old.events = disowned /\ old.connected = q.connected
  <2>1. <<>> \in Seq({"read", "enable", "disable"})
    OBVIOUS
  <2>2. /\ old.cache = NoNode /\ old.node = NoNode /\ old.item = FALSE
        /\ old.queue = <<>> /\ old.events = disowned /\ old.connected = q.connected
    BY DEF Objects
  <2>3. old \in Objects
    BY <1>1, <2>1 DEF Objects
  <2> QED
    BY <2>2, <2>3
<1> HIDE DEF old
<1>4. Whole(old)
  BY <1>1, <1>3 DEF Whole, HasNode, OwnEvents, OwnCache, Reported
<1>5. CASE path.index = Empty \/ ~q.connected \/ state # "Connected"
  BY <1>2, <1>3, <1>4, <1>5
<1>6. CASE ~(path.index = Empty \/ ~q.connected \/ state # "Connected")
  <2>1. path \in Nodes /\ path # NoNode
    BY <1>6, NoNodeAssumption
  <2>2. /\ new \in Objects /\ new.cache = NoNode /\ new.node = path /\ new.item = FALSE
        /\ new.events = disowned /\ new.connected = q.connected /\ new.fresh = TRUE
    <3>1. <<"read">> \in Seq({"read", "enable", "disable"})
      OBVIOUS
    <3>2. /\ new.cache = NoNode /\ new.node = path /\ new.item = FALSE
          /\ new.events = disowned /\ new.connected = q.connected /\ new.fresh = TRUE
      BY <1>3 DEF Objects
    <3>3. new \in Objects
      BY <1>3, <2>1, <3>1 DEF Objects
    <3> QED
      BY <3>2, <3>3
  <2> HIDE DEF new
  <2>3. Whole(new)
    BY <1>1, <2>1, <2>2 DEF Whole, HasNode, OwnEvents, OwnCache, Reported
  <2> QED
    BY <1>2, <1>6, <2>2, <2>3, UpdateSubscriptionKeeps
<1> QED
  BY <1>5, <1>6

(* Only the fields of the path and of the resolvers differ. *)
LEMMA PathFieldsKeep ==
  ASSUME NEW q, Whole(q), NEW r \in Objects,
         /\ r.node = q.node /\ r.cache = q.cache /\ r.item = q.item /\ r.events = q.events
         /\ r.queue = q.queue /\ r.monitoredState = q.monitoredState
  PROVE  Whole(r)
BY DEF Whole, HasNode, OwnEvents, OwnCache, Reported

LEMMA UpdateNodeKeeps ==
  ASSUME NEW q, Whole(q), NEW n \in Namespaces, NEW state
  PROVE  LET r == updateNode(q, n, state)
         IN Whole(r) /\ r.connected = q.connected /\ (q.connected => Current(r))
<1>1. q \in Objects /\ q.id \in NodeIds
  BY DEF Whole, Objects
<1>2. CASE ~q.connected
  BY <1>2 DEF updateNode
<1>3. CASE q.connected /\ q.id \in DirectIds
  <2> DEFINE index == CASE n.array \in Indexes             -> n.array
                        [] n.array \notin Indexes /\ q.named  -> q.index
                        [] n.array \notin Indexes /\ ~q.named -> Empty
             s == [q EXCEPT !.named = TRUE, !.index = index]
             path == [id |-> q.id, index |-> s.index]
  <2>1. index \in Indexes \cup {Empty}
    BY <1>1 DEF Objects
  <2>2. ResolveNamespace(q, n) = s
    BY DEF ResolveNamespace
  <2> HIDE DEF index
  <2>3. s \in Objects /\ s.index = index /\ s.connected = q.connected
    BY <1>1, <2>1 DEF Objects
  <2>4. updateNode(q, n, state) = setupNode(s, path, state)
    <3>1. q.id \notin RelativeIds
      BY <1>3, IdsAssumption
    <3> QED
      BY <1>3, <2>2, <3>1 DEF updateNode
  <2>5. path.index = Empty \/ path \in Nodes
    BY <1>1, <2>1, <2>3 DEF Nodes
  <2> HIDE DEF s, path
  <2> QED
    BY <2>3, <2>4, <2>5, SetupNodeKeeps DEF Current
<1>4. CASE q.connected /\ q.id \in RelativeIds
  <2>1. updateNode(q, n, state) = startResolving(q, n, state)
    <3>1. q.id \notin DirectIds
      BY <1>4, IdsAssumption
    <3> QED
      BY <1>4, <3>1 DEF updateNode
  <2>2. CASE n.array \in Indexes /\ state = "Connected"
    <3> DEFINE s == [q EXCEPT !.resolvers = Append(q.resolvers, q.id)]
    <3>1. startResolving(q, n, state) = s
      BY <2>2 DEF startResolving
    <3>2. Append(q.resolvers, q.id) \in Seq(RelativeIds) /\ Append(q.resolvers, q.id) # <<>>
      BY <1>1, <1>4 DEF Objects
    <3>3. /\ s \in Objects /\ s.resolvers # <<>> /\ s.connected = q.connected
          /\ s.node = q.node /\ s.cache = q.cache /\ s.item = q.item /\ s.events = q.events
          /\ s.queue = q.queue /\ s.monitoredState = q.monitoredState
      BY <1>1, <3>2 DEF Objects
    <3> HIDE DEF s
    <3> QED
      BY <2>1, <3>1, <3>3, PathFieldsKeep DEF Current
  <2>3. CASE ~(n.array \in Indexes /\ state = "Connected")
    <3>1. startResolving(q, n, state) = setupNode(q, [index |-> Empty], state)
      BY <2>3 DEF startResolving
    <3>2. [index |-> Empty].index = Empty
      OBVIOUS
    <3> QED
      BY <1>1, <2>1, <3>1, <3>2, SetupNodeKeeps DEF Current
  <2> QED
    BY <2>2, <2>3
<1> QED
  BY <1>1, <1>2, <1>3, <1>4 DEF NodeIds

LEMMA NamespaceArrayUpdatedKeeps ==
  ASSUME NEW q, Whole(q), Current(q), NEW n \in Namespaces, NEW state
  PROVE  Whole(namespaceArrayUpdated(q, n, state)) /\ Current(namespaceArrayUpdated(q, n, state))
<1> DEFINE s == [q EXCEPT !.connected = TRUE]
<1>1. CASE q.connected
  BY <1>1 DEF namespaceArrayUpdated
<1>2. CASE ~q.connected
  <2>1. namespaceArrayUpdated(q, n, state) = updateNode(s, n, state)
    BY <1>2 DEF namespaceArrayUpdated
  <2>2. /\ s \in Objects /\ s.connected
        /\ s.node = q.node /\ s.cache = q.cache /\ s.item = q.item /\ s.events = q.events
        /\ s.queue = q.queue /\ s.monitoredState = q.monitoredState
    BY DEF Whole, Objects
  <2> HIDE DEF s
  <2>3. Whole(s)
    BY <2>2, PathFieldsKeep
  <2> QED
    BY <2>1, <2>2, <2>3, UpdateNodeKeeps
<1> QED
  BY <1>1, <1>2

LEMMA ClientStateHandlerKeeps ==
  ASSUME NEW q, Whole(q), Current(q), NEW state
  PROVE  LET r == clientStateHandler(q, state)
         IN /\ Whole(r) /\ Current(r) /\ (r.connected => q.connected)
            /\ state # "Connected" => ~r.connected
            /\ r.node = q.node /\ r.resolvers = q.resolvers
<1> DEFINE s == [q EXCEPT !.connected = (state = "Connected")]
<1>1. CASE ~q.connected
  BY <1>1 DEF clientStateHandler
<1>2. CASE q.connected
  <2>1. clientStateHandler(q, state) = s
    BY <1>2 DEF clientStateHandler
  <2>2. /\ s \in Objects /\ s.connected = (state = "Connected") /\ s.resolvers = q.resolvers
        /\ s.node = q.node /\ s.cache = q.cache /\ s.item = q.item /\ s.events = q.events
        /\ s.queue = q.queue /\ s.monitoredState = q.monitoredState /\ s.fresh = q.fresh
    BY DEF Whole, Objects
  <2> HIDE DEF s
  <2>3. Whole(s) /\ Current(s)
    BY <1>2, <2>2, PathFieldsKeep DEF Current
  <2> QED
    BY <1>2, <2>1, <2>2, <2>3
<1> QED
  BY <1>1, <1>2

-----------------------------------------------------------------------------
(* The event queue.                                                        *)

Quiet(events) == \A k \in DOMAIN events : events[k].kind # "disabled"

Reports(events) == \E k \in DOMAIN events : TurnsOn(events, k)

LEMMA EventAppended ==
  ASSUME NEW events \in Seq(Events), NEW e \in Events
  PROVE  LET longer == Append(events, e)
         IN /\ longer \in Seq(Events)
            /\ \A k \in DOMAIN longer : longer[k] = e \/ \E j \in DOMAIN events : longer[k] = events[j]
            /\ e.kind # "disabled" => (Quiet(events) => Quiet(longer)) /\ (Reports(events) => Reports(longer))
            /\ e.kind = "enabled" /\ e.good => Reports(longer)
<1> DEFINE longer == Append(events, e)
<1>1. /\ longer \in Seq(Events) /\ Len(events) \in Nat /\ DOMAIN events = 1..Len(events)
      /\ DOMAIN longer = 1..(Len(events) + 1)
      /\ longer[Len(events) + 1] = e /\ \A k \in DOMAIN events : longer[k] = events[k]
  OBVIOUS
<1> HIDE DEF longer
<1>2. \A k \in DOMAIN longer : k = Len(events) + 1 \/ k \in DOMAIN events
  BY <1>1
<1>3. \A k \in DOMAIN longer : longer[k] = e \/ \E j \in DOMAIN events : longer[k] = events[j]
  BY <1>1, <1>2
<1>4. e.kind # "disabled" /\ Quiet(events) => Quiet(longer)
  BY <1>3 DEF Quiet
<1>5. ASSUME e.kind # "disabled", Reports(events) PROVE Reports(longer)
  <2>1. PICK k \in DOMAIN events : TurnsOn(events, k)
    BY <1>5 DEF Reports
  <2>2. k \in DOMAIN longer /\ longer[k] = events[k]
    BY <1>1
  <2>3. \A j \in DOMAIN longer : j > k => longer[j].kind # "disabled"
    BY <1>1, <1>2, <1>5, <2>1 DEF TurnsOn
  <2> QED
    BY <2>1, <2>2, <2>3 DEF TurnsOn, Reports
<1>6. ASSUME e.kind = "enabled", e.good PROVE Reports(longer)
  <2>1. Len(events) + 1 \in DOMAIN longer /\ \A j \in DOMAIN longer : ~(j > Len(events) + 1)
    BY <1>1
  <2> QED
    BY <1>1, <1>6, <2>1 DEF Reports, TurnsOn
<1> QED
  BY <1>1, <1>3, <1>4, <1>5, <1>6 DEF longer

LEMMA EventDelivered ==
  ASSUME NEW events \in Seq(Events), events # <<>>
  PROVE  LET rest == Tail(events)
         IN /\ Head(events) \in Events /\ rest \in Seq(Events)
            /\ \E k \in DOMAIN events : Head(events) = events[k]
            /\ \A k \in DOMAIN rest : \E j \in DOMAIN events : rest[k] = events[j]
            /\ Quiet(events) => Quiet(rest)
            /\ Reports(events) => \/ Reports(rest)
                                  \/ Head(events).kind = "enabled" /\ Head(events).good /\ Quiet(rest)
<1> DEFINE rest == Tail(events)
<1>1. /\ Head(events) \in Events /\ rest \in Seq(Events) /\ Head(events) = events[1]
      /\ Len(events) \in Nat /\ Len(events) >= 1 /\ DOMAIN events = 1..Len(events)
      /\ DOMAIN rest = 1..(Len(events) - 1) /\ \A k \in DOMAIN rest : rest[k] = events[k + 1]
  OBVIOUS
<1> HIDE DEF rest
<1>2. \A k \in DOMAIN rest : k + 1 \in DOMAIN events /\ k + 1 > 1
  BY <1>1
<1>3. \A k \in DOMAIN rest : \E j \in DOMAIN events : rest[k] = events[j]
  BY <1>1, <1>2
<1>4. 1 \in DOMAIN events
  BY <1>1
<1>5. Quiet(events) => Quiet(rest)
  BY <1>3 DEF Quiet
<1>6. ASSUME Reports(events)
      PROVE  Reports(rest) \/ (Head(events).kind = "enabled" /\ Head(events).good /\ Quiet(rest))
  <2>1. PICK k \in DOMAIN events : TurnsOn(events, k)
    BY <1>6 DEF Reports
  <2>2. CASE k = 1
    BY <1>1, <1>2, <2>1, <2>2 DEF TurnsOn, Quiet
  <2>3. CASE k # 1
    <3>1. k - 1 \in DOMAIN rest /\ (k - 1) + 1 = k
      BY <1>1, <2>3
    <3>2. rest[k - 1] = events[k]
      BY <1>1, <3>1
    <3>3. ASSUME NEW j \in DOMAIN rest, j > k - 1 PROVE rest[j].kind # "disabled"
      <4>1. j + 1 \in DOMAIN events /\ j + 1 > k
        BY <1>1, <3>3
      <4> QED
        BY <1>1, <2>1, <4>1 DEF TurnsOn
    <3>4. TurnsOn(rest, k - 1)
      BY <2>1, <3>2, <3>3 DEF TurnsOn
    <3> QED
      BY <3>1, <3>4 DEF Reports
  <2> QED
    BY <2>2, <2>3
<1> QED
  BY <1>1, <1>3, <1>4, <1>5, <1>6 DEF rest

-----------------------------------------------------------------------------
(* The steps.                                                              *)

LEMMA NamespaceFunctions ==
  ASSUME NEW n \in Namespaces, NEW state
  PROVE  /\ updateNamespaceArray(n) \in Namespaces /\ updateNamespaceArray(n).answered = n.answered
         /\ setupNamespaceArrayMonitoring(n, state) \in Namespaces
         /\ setupNamespaceArrayMonitoring(n, state).answered = n.answered
<1>1. updateNamespaceArray(n) \in Namespaces /\ updateNamespaceArray(n).answered = n.answered
  <2>1. 1 \in 0 .. 1
    OBVIOUS
  <2>2. [n EXCEPT !.hasNode = TRUE, !.reads = 1] \in Namespaces
    BY <2>1 DEF Namespaces
  <2>3. [n EXCEPT !.hasNode = TRUE, !.reads = 1].answered = n.answered
    BY DEF Namespaces
  <2> QED
    BY <2>2, <2>3 DEF updateNamespaceArray
<1>2. setupNamespaceArrayMonitoring(n, state) \in Namespaces
      /\ setupNamespaceArrayMonitoring(n, state).answered = n.answered
  <2> DEFINE off == [n EXCEPT !.queue = Append(n.queue, "disable"), !.enabled = FALSE]
             on  == [n EXCEPT !.queue = Append(n.queue, "enable"), !.enabled = TRUE]
  <2>1. Append(n.queue, "disable") \in Seq({"enable", "disable"})
        /\ Append(n.queue, "enable") \in Seq({"enable", "disable"})
    BY DEF Namespaces
  <2>2. off \in Namespaces /\ off.answered = n.answered
    BY <2>1 DEF Namespaces
  <2>3. on \in Namespaces /\ on.answered = n.answered
    BY <2>1 DEF Namespaces
  <2>4. n.hasNode \in BOOLEAN /\ n.wanted \in BOOLEAN /\ n.enabled \in BOOLEAN
    BY DEF Namespaces
  <2>5. setupNamespaceArrayMonitoring(n, state) \in {n, off, on}
    BY <2>4 DEF setupNamespaceArrayMonitoring
  <2> HIDE DEF off, on
  <2> QED
    BY <2>2, <2>3, <2>5
<1> QED
  BY <1>1, <1>2

(* Steps of the namespace array. *)
LEMMA NamespaceStep ==
  ASSUME DeclarativeInv,
         \/ \E isEnabled \in BOOLEAN : setNamespaceAutoupdate(isEnabled)
         \/ UpdateNamespaceArray
         \/ \E good \in BOOLEAN : NamespaceMonitoringFinished(good)
  PROVE  DeclarativeInv'
<1>1. ns \in Namespaces
  BY DEF DeclarativeInv, TypeOK
<1>2. ns' \in Namespaces /\ ns'.answered = ns.answered /\ UNCHANGED <<client, session, table, qml>>
  <2>1. ASSUME NEW isEnabled \in BOOLEAN, setNamespaceAutoupdate(isEnabled)
        PROVE  ns' \in Namespaces /\ ns'.answered = ns.answered /\ UNCHANGED <<client, session, table, qml>>
    <3>1. [ns EXCEPT !.wanted = isEnabled] \in Namespaces
          /\ [ns EXCEPT !.wanted = isEnabled].answered = ns.answered
      BY <1>1 DEF Namespaces
    <3> QED
      BY <2>1, <3>1, NamespaceFunctions DEF setNamespaceAutoupdate
  <2>2. CASE UpdateNamespaceArray
    BY <1>1, <2>2, NamespaceFunctions DEF UpdateNamespaceArray
  <2>3. ASSUME NEW good \in BOOLEAN, NamespaceMonitoringFinished(good)
        PROVE  ns' \in Namespaces /\ ns'.answered = ns.answered /\ UNCHANGED <<client, session, table, qml>>
    <3> DEFINE n == [ns EXCEPT !.queue = Tail(ns.queue)]
    <3>1. ns.queue # <<>> /\ UNCHANGED <<client, session, table, qml>>
      BY <2>3 DEF NamespaceMonitoringFinished
    <3>2. Tail(ns.queue) \in Seq({"enable", "disable"}) /\ Head(ns.queue) \in {"enable", "disable"}
      BY <1>1, <3>1 DEF Namespaces
    <3>3. n \in Namespaces /\ n.answered = ns.answered
      BY <1>1, <3>2 DEF Namespaces
    <3>4. ns' \in {[n EXCEPT !.item = FALSE], [n EXCEPT !.item = TRUE],
                   [n EXCEPT !.enabled = FALSE, !.wanted = FALSE]}
      BY <2>3, <3>2 DEF NamespaceMonitoringFinished
    <3> HIDE DEF n
    <3>5. ns' \in Namespaces /\ ns'.answered = n.answered
      BY <3>3, <3>4 DEF Namespaces
    <3> QED
      BY <3>1, <3>3, <3>5
  <2> QED
    BY <2>1, <2>2, <2>3
<1>3. TypeOK'
  BY <1>2 DEF DeclarativeInv, TypeOK
<1> QED
  BY <1>2, <1>3 DEF DeclarativeInv

(* An array is received. *)
LEMMA ReceivedStep ==
  ASSUME DeclarativeInv, NEW n \in Namespaces, NEW array \in Tables \cup {Empty},
         ns' = SetArray(n, array), qml' = namespaceArrayUpdated(qml, ns', client),
         UNCHANGED <<client, session, table>>
  PROVE  DeclarativeInv'
<1>1. ns' \in Namespaces /\ ns'.answered
  BY DEF SetArray, Namespaces
<1>2. Whole(qml') /\ Current(qml')
  BY <1>1, NamespaceArrayUpdatedKeeps DEF DeclarativeInv
<1>3. TypeOK'
  BY <1>1, <1>2 DEF DeclarativeInv, TypeOK, Whole
<1> QED
  BY <1>1, <1>2, <1>3 DEF DeclarativeInv

LEMMA NamespaceAnswerStep ==
  ASSUME DeclarativeInv, NamespaceAnswer \/ NamespaceArrayNotified
  PROVE  DeclarativeInv'
<1>1. ns \in Namespaces /\ table \in Tables
  BY DEF DeclarativeInv, TypeOK
<1>2. [ns EXCEPT !.reads = 0] \in Namespaces
  BY <1>1 DEF Namespaces
<1>3. CASE NamespaceArrayRead
  BY <1>1, <1>2, <1>3, ReceivedStep DEF NamespaceArrayRead, Received
<1>4. CASE NamespaceArrayReadFails
  BY <1>1, <1>2, <1>4, ReceivedStep DEF NamespaceArrayReadFails, Received
<1>5. CASE NamespaceArrayNotified
  BY <1>1, <1>5, ReceivedStep DEF NamespaceArrayNotified
<1> QED
  BY <1>3, <1>4, <1>5 DEF NamespaceAnswer

(* The objects after a step that leaves the namespace array as it was. *)
LEMMA ObjectsStep ==
  ASSUME DeclarativeInv, Whole(qml'), Current(qml'), qml'.connected => qml.connected,
         ns' \in Namespaces, ns'.answered = ns.answered \/ ~qml'.connected,
         client' \in {"Disconnected", "Connecting", "Connected", "Closing"},
         session' \in BOOLEAN, table' \in Tables
  PROVE  DeclarativeInv'
<1>1. TypeOK'
  BY DEF TypeOK, Whole
<1> QED
  BY <1>1 DEF DeclarativeInv

LEMMA SetterStep ==
  ASSUME DeclarativeInv,
         \/ \E id \in NodeIds : setNodeId(id)
         \/ \E monitored \in BOOLEAN : setMonitored(monitored)
  PROVE  DeclarativeInv'
<1>1. /\ qml \in Objects /\ Whole(qml) /\ Current(qml) /\ ns \in Namespaces
      /\ client \in {"Disconnected", "Connecting", "Connected", "Closing"}
      /\ session \in BOOLEAN /\ table \in Tables
  BY DEF DeclarativeInv, TypeOK
<1>2. ASSUME NEW id \in NodeIds, setNodeId(id)
      PROVE  DeclarativeInv'
  <2> DEFINE q == [qml EXCEPT !.id = id]
  <2>1. qml' = updateNode(q, ns, client) /\ UNCHANGED <<client, session, table, ns>>
    BY <1>2 DEF setNodeId
  <2>2. /\ q \in Objects /\ q.connected = qml.connected
        /\ q.node = qml.node /\ q.cache = qml.cache /\ q.item = qml.item /\ q.events = qml.events
        /\ q.queue = qml.queue /\ q.monitoredState = qml.monitoredState
    BY <1>1 DEF Objects
  <2> HIDE DEF q
  <2>3. Whole(q)
    BY <1>1, <2>2, PathFieldsKeep
  <2>4. Whole(qml') /\ qml'.connected = q.connected /\ (q.connected => Current(qml'))
    BY <1>1, <2>1, <2>3, UpdateNodeKeeps
  <2>5. Current(qml')
    BY <2>4 DEF Current
  <2> QED
    BY <1>1, <2>1, <2>2, <2>4, <2>5, ObjectsStep
<1>3. ASSUME NEW monitored \in BOOLEAN, setMonitored(monitored)
      PROVE  DeclarativeInv'
  <2> DEFINE q == [qml EXCEPT !.monitored = monitored]
  <2>1. qml' = updateSubscription(q) /\ UNCHANGED <<client, session, table, ns>>
    BY <1>3 DEF setMonitored
  <2>2. /\ q \in Objects /\ q.connected = qml.connected /\ q.resolvers = qml.resolvers /\ q.fresh = qml.fresh
        /\ q.node = qml.node /\ q.cache = qml.cache /\ q.item = qml.item /\ q.events = qml.events
        /\ q.queue = qml.queue /\ q.monitoredState = qml.monitoredState
    BY <1>1 DEF Objects
  <2> HIDE DEF q
  <2>3. Whole(q)
    BY <1>1, <2>2, PathFieldsKeep
  <2>4. /\ Whole(qml') /\ qml'.connected = q.connected /\ qml'.resolvers = q.resolvers
        /\ qml'.node = q.node /\ qml'.fresh = q.fresh
    BY <2>1, <2>3, UpdateSubscriptionKeeps
  <2>5. Current(qml')
    BY <1>1, <2>2, <2>4 DEF Current
  <2> QED
    BY <1>1, <2>1, <2>2, <2>4, <2>5, ObjectsStep
<1> QED
  BY <1>2, <1>3

LEMMA ClientStep ==
  ASSUME DeclarativeInv,
         DisconnectFromEndpoint \/ ClientConnecting \/ ClientConnected \/ ClientDisconnected
  PROVE  DeclarativeInv'
<1>1. /\ qml \in Objects /\ Whole(qml) /\ Current(qml) /\ ns \in Namespaces
      /\ client \in {"Disconnected", "Connecting", "Connected", "Closing"}
      /\ session \in BOOLEAN /\ table \in Tables
  BY DEF DeclarativeInv, TypeOK
<1>2. \A state :
        LET r == clientStateHandler(qml, state)
        IN /\ Whole(r) /\ Current(r) /\ (r.connected => qml.connected)
           /\ state # "Connected" => ~r.connected
           /\ r.node = qml.node /\ r.resolvers = qml.resolvers
  BY <1>1, ClientStateHandlerKeeps
<1>3. CASE DisconnectFromEndpoint
  <2>1. /\ client' = "Closing" /\ qml' = clientStateHandler(qml, "Closing")
        /\ UNCHANGED <<session, table, ns>>
    BY <1>3 DEF DisconnectFromEndpoint, QtClient!Close
  <2> QED
    BY <1>1, <1>2, <2>1, ObjectsStep
<1>4. CASE ClientConnecting
  <2> DEFINE r == clientStateHandler(qml, "Connecting")
             s == [r EXCEPT !.fresh = FALSE]
             n == [ns EXCEPT !.answered = FALSE]
  <2>1. client' = "Connecting" /\ qml' = s /\ ns' = n /\ UNCHANGED <<session, table>>
    BY <1>4 DEF ClientConnecting, QtClient!Connect
  <2>2. Whole(r) /\ ~r.connected
    BY <1>2
  <2> HIDE DEF r
  <2>3. /\ s \in Objects /\ s.connected = r.connected
        /\ s.node = r.node /\ s.cache = r.cache /\ s.item = r.item /\ s.events = r.events
        /\ s.queue = r.queue /\ s.monitoredState = r.monitoredState
    BY <2>2 DEF Whole, Objects
  <2>4. n \in Namespaces
    BY <1>1 DEF Namespaces
  <2> HIDE DEF s, n
  <2>5. Whole(s) /\ Current(s) /\ ~s.connected
    BY <2>2, <2>3, PathFieldsKeep DEF Current
  <2> QED
    BY <1>1, <2>1, <2>4, <2>5, ObjectsStep
<1>5. CASE ClientConnected
  <2>1. /\ client' = "Connected" /\ qml' = clientStateHandler(qml, "Connected") /\ session' = TRUE
        /\ ns' = setupNamespaceArrayMonitoring(updateNamespaceArray(ns), "Connected") /\ table' = table
    BY <1>5 DEF ClientConnected
  <2>2. ns' \in Namespaces /\ ns'.answered = ns.answered
    BY <1>1, <2>1, NamespaceFunctions
  <2> QED
    BY <1>1, <1>2, <2>1, <2>2, ObjectsStep
<1>6. CASE ClientDisconnected
  <2>1. /\ client' = "Disconnected" /\ qml' = clientStateHandler(qml, "Disconnected")
        /\ ns' = [ns EXCEPT !.array = Empty] /\ UNCHANGED <<session, table>>
    BY <1>6 DEF ClientDisconnected
  <2>2. ns' \in Namespaces /\ ns'.answered = ns.answered
    BY <1>1, <2>1 DEF Namespaces
  <2> QED
    BY <1>1, <1>2, <2>1, <2>2, ObjectsStep
<1> QED
  BY <1>3, <1>4, <1>5, <1>6

LEMMA SessionEndsStep ==
  ASSUME DeclarativeInv, SessionEnds
  PROVE  DeclarativeInv'
<1> DEFINE told == [kind |-> "disabled", good |-> FALSE, from |-> qml.node, own |-> TRUE]
<1>1. /\ qml \in Objects /\ Whole(qml) /\ Current(qml) /\ ns \in Namespaces
      /\ client \in {"Disconnected", "Connecting", "Connected", "Closing"} /\ table \in Tables
  BY DEF DeclarativeInv, TypeOK
<1>2. PICK events \in {qml.events} \cup (IF qml.item THEN {Append(qml.events, told)} ELSE {}) :
        qml' = [qml EXCEPT !.item = FALSE, !.events = events]
  BY DEF SessionEnds
<1>3. session' = FALSE /\ ns' = [ns EXCEPT !.item = FALSE] /\ UNCHANGED <<client, table>>
  BY DEF SessionEnds
<1>4. events \in Seq(Events) /\ \A k \in DOMAIN events : events[k].own => events[k].from = qml.node
  <2>1. CASE events = qml.events
    BY <1>1, <2>1 DEF Objects, Whole, OwnEvents
  <2>2. CASE qml.item /\ events = Append(qml.events, told)
    <3>1. qml.events \in Seq(Events) /\ qml.node \in Nodes
      BY <1>1, <2>2 DEF Objects, Whole, HasNode
    <3>2. told \in Events /\ told.from = qml.node
      BY <3>1 DEF Events
    <3> HIDE DEF told
    <3>3. /\ Append(qml.events, told) \in Seq(Events)
          /\ \A k \in DOMAIN events : events[k] = told \/ \E j \in DOMAIN qml.events : events[k] = qml.events[j]
      BY <2>2, <3>1, <3>2, EventAppended
    <3> QED
      BY <1>1, <2>2, <3>2, <3>3 DEF Whole, OwnEvents
  <2> QED
    BY <1>2, <2>1, <2>2
<1>5. /\ qml' \in Objects /\ qml'.item = FALSE /\ qml'.events = events /\ qml'.queue = qml.queue
      /\ qml'.node = qml.node /\ qml'.cache = qml.cache /\ qml'.connected = qml.connected
      /\ qml'.resolvers = qml.resolvers /\ qml'.fresh = qml.fresh
  BY <1>1, <1>2, <1>4 DEF Objects
<1>6. Whole(qml') /\ Current(qml')
  BY <1>1, <1>4, <1>5 DEF Whole, HasNode, OwnEvents, OwnCache, Reported, Current
<1>7. ns' \in Namespaces /\ ns'.answered = ns.answered
  BY <1>1, <1>3 DEF Namespaces
<1> QED
  BY <1>1, <1>3, <1>5, <1>6, <1>7, ObjectsStep

LEMMA BackendAnswersStep ==
  ASSUME DeclarativeInv, NEW good \in BOOLEAN, BackendAnswers(good)
  PROVE  DeclarativeInv'
<1> DEFINE request == Head(qml.queue)
           kind == [read |-> "read", enable |-> "enabled", disable |-> "disabled"][request]
           done == good /\ (request = "enable" => ~qml.item)
           answer == [kind |-> kind, good |-> done, from |-> qml.node, own |-> TRUE]
           silent == request = "disable" /\ ~qml.item
           events == IF silent THEN qml.events ELSE Append(qml.events, answer)
           item == CASE request = "enable"  -> qml.item \/ done
                     [] request = "disable" -> FALSE
                     [] request = "read"    -> qml.item
           r == [qml EXCEPT !.queue = Tail(qml.queue), !.events = events, !.item = item]
<1>1. /\ qml \in Objects /\ Whole(qml) /\ Current(qml) /\ ns \in Namespaces
      /\ client \in {"Disconnected", "Connecting", "Connected", "Closing"}
      /\ session \in BOOLEAN /\ table \in Tables
  BY DEF DeclarativeInv, TypeOK
<1>2. qml.queue # <<>> /\ qml' = r /\ UNCHANGED <<client, session, table, ns>>
  BY DEF BackendAnswers
<1>3. /\ request \in {"read", "enable", "disable"} /\ Tail(qml.queue) \in Seq({"read", "enable", "disable"})
      /\ qml.item \in BOOLEAN /\ qml.events \in Seq(Events) /\ qml.node \in Nodes
  BY <1>1, <1>2 DEF Objects, Whole, HasNode
<1> HIDE DEF request
<1>4. /\ kind = IF request = "read" THEN "read" ELSE IF request = "enable" THEN "enabled" ELSE "disabled"
      /\ done \in BOOLEAN
  BY <1>3
<1> HIDE DEF kind, done
<1>5. /\ answer \in Events /\ answer.kind = kind /\ answer.good = done /\ answer.from = qml.node
  BY <1>3, <1>4 DEF Events
<1> HIDE DEF answer
<1>6. /\ Append(qml.events, answer) \in Seq(Events)
      /\ \A k \in DOMAIN Append(qml.events, answer) :
           \/ Append(qml.events, answer)[k] = answer
           \/ \E j \in DOMAIN qml.events : Append(qml.events, answer)[k] = qml.events[j]
      /\ answer.kind # "disabled" =>
           /\ Quiet(qml.events) => Quiet(Append(qml.events, answer))
           /\ Reports(qml.events) => Reports(Append(qml.events, answer))
      /\ answer.kind = "enabled" /\ answer.good => Reports(Append(qml.events, answer))
  BY <1>3, <1>5, EventAppended
<1>7. events \in Seq(Events) /\ \A k \in DOMAIN events : events[k].own => events[k].from = qml.node
  BY <1>1, <1>3, <1>5, <1>6 DEF Whole, OwnEvents
<1>8. item \in BOOLEAN /\ (item => (qml.monitoredState /\ Quiet(events)) \/ Reports(events))
  <2>1. qml.item => (qml.monitoredState /\ Quiet(qml.events)) \/ Reports(qml.events)
    BY <1>1 DEF Whole, Reported, Quiet, Reports
  <2>2. CASE request = "read"
    BY <1>3, <1>4, <1>5, <1>6, <2>1, <2>2
  <2>3. CASE request = "disable"
    BY <2>3
  <2>4. CASE request = "enable"
    <3>1. /\ events = Append(qml.events, answer) /\ answer.kind = "enabled" /\ answer.good = done
          /\ item = (qml.item \/ done)
      BY <1>4, <1>5, <2>4
    <3>2. CASE done
      BY <1>6, <3>1, <3>2
    <3>3. CASE ~done
      BY <1>3, <1>6, <2>1, <3>1, <3>3
    <3> QED
      BY <3>2, <3>3
  <2> QED
    BY <1>3, <2>2, <2>3, <2>4
<1> HIDE DEF events, item
<1>9. /\ r \in Objects /\ r.item = item /\ r.events = events
      /\ r.node = qml.node /\ r.cache = qml.cache /\ r.connected = qml.connected
      /\ r.resolvers = qml.resolvers /\ r.fresh = qml.fresh /\ r.monitoredState = qml.monitoredState
  <2>1. /\ r.item = item /\ r.events = events
        /\ r.node = qml.node /\ r.cache = qml.cache /\ r.connected = qml.connected
        /\ r.resolvers = qml.resolvers /\ r.fresh = qml.fresh /\ r.monitoredState = qml.monitoredState
    BY <1>1 DEF Objects
  <2>2. r \in Objects
    BY <1>1, <1>3, <1>7, <1>8 DEF Objects
  <2> QED
    BY <2>1, <2>2
<1> HIDE DEF r
<1>10. qml.node # NoNode
  BY <1>3, NoNodeAssumption
<1>11. Whole(r) /\ Current(r)
  BY <1>1, <1>7, <1>8, <1>9, <1>10
     DEF Whole, HasNode, OwnEvents, OwnCache, Reported, Current, Quiet, Reports
<1> QED
  BY <1>1, <1>2, <1>9, <1>11, ObjectsStep

(* An event is delivered. *)
LEMMA NodeAnswerStep ==
  ASSUME DeclarativeInv, NodeAnswer
  PROVE  DeclarativeInv'
<1> DEFINE rest == Tail(qml.events)
<1>1. /\ qml \in Objects /\ Whole(qml) /\ Current(qml) /\ ns \in Namespaces
      /\ client \in {"Disconnected", "Connecting", "Connected", "Closing"}
      /\ session \in BOOLEAN /\ table \in Tables
  BY DEF DeclarativeInv, TypeOK
<1>2. qml.events # <<>> /\ UNCHANGED <<client, session, table, ns>>
  BY DEF NodeAnswer, AttributeRead, EnableMonitoringFinished, DisableMonitoringFinished, Arrives
<1>3. qml.events \in Seq(Events)
  BY <1>1 DEF Objects
<1>4. /\ Event \in Events /\ rest \in Seq(Events)
      /\ \E k \in DOMAIN qml.events : Event = qml.events[k]
      /\ \A k \in DOMAIN rest : \E j \in DOMAIN qml.events : rest[k] = qml.events[j]
      /\ Quiet(qml.events) => Quiet(rest)
      /\ Reports(qml.events) => \/ Reports(rest)
                                \/ Event.kind = "enabled" /\ Event.good /\ Quiet(rest)
  BY <1>2, <1>3, EventDelivered DEF Event
<1>5. \A k \in DOMAIN rest : rest[k].own => rest[k].from = qml.node
  BY <1>1, <1>4 DEF Whole, OwnEvents
<1>6. qml.item => (qml.monitoredState /\ Quiet(qml.events)) \/ Reports(qml.events)
  BY <1>1 DEF Whole, Reported, Quiet, Reports
<1>7. Delivered = [qml EXCEPT !.events = rest]
  BY DEF Delivered
<1> HIDE DEF rest
<1>8. /\ Delivered \in Objects /\ Delivered.events = rest /\ Delivered.cache = qml.cache
      /\ Delivered.monitoredState = qml.monitoredState /\ Delivered.fault = qml.fault
      /\ Delivered.item = qml.item /\ Delivered.queue = qml.queue /\ Delivered.node = qml.node
      /\ Delivered.connected = qml.connected /\ Delivered.resolvers = qml.resolvers
      /\ Delivered.fresh = qml.fresh
  BY <1>1, <1>4, <1>7 DEF Objects
<1>9. ASSUME qml' \in Objects, qml'.events = rest, qml'.item = qml.item, qml'.queue = qml.queue,
             qml'.node = qml.node, qml'.connected = qml.connected, qml'.resolvers = qml.resolvers,
             qml'.fresh = qml.fresh, qml'.cache \in {NoNode, qml.node},
             qml.item => (qml'.monitoredState /\ Quiet(rest)) \/ Reports(rest)
      PROVE  DeclarativeInv'
  <2>1. Whole(qml') /\ Current(qml')
    BY <1>1, <1>5, <1>9 DEF Whole, HasNode, OwnEvents, OwnCache, Reported, Current, Quiet, Reports
  <2> QED
    BY <1>1, <1>2, <1>9, <2>1, ObjectsStep
<1>10. CASE AttributeRead
  <2>1. /\ Event.kind = "read"
        /\ qml' = IF Event.own THEN [Delivered EXCEPT !.cache = Event.from] ELSE Delivered
    BY <1>10 DEF AttributeRead, Arrives
  <2>2. Event.own => Event.from = qml.node
    BY <1>1, <1>4 DEF Whole, OwnEvents
  <2>3. qml.item => (qml.monitoredState /\ Quiet(rest)) \/ Reports(rest)
    BY <1>4, <1>6, <2>1
  <2>4. qml.cache \in {NoNode, qml.node} /\ qml.node \in Nodes \cup {NoNode}
    BY <1>1 DEF Whole, OwnCache, Objects
  <2>5. CASE Event.own
    <3>1. qml' = [Delivered EXCEPT !.cache = qml.node]
      BY <2>1, <2>2, <2>5
    <3>2. /\ qml' \in Objects /\ qml'.cache = qml.node /\ qml'.events = Delivered.events
          /\ qml'.monitoredState = Delivered.monitoredState
          /\ qml'.item = Delivered.item /\ qml'.queue = Delivered.queue /\ qml'.node = Delivered.node
          /\ qml'.connected = Delivered.connected /\ qml'.resolvers = Delivered.resolvers
          /\ qml'.fresh = Delivered.fresh
      BY <1>8, <2>4, <3>1 DEF Objects
    <3> QED
      BY <1>8, <1>9, <2>3, <3>2
  <2>6. CASE ~Event.own
    BY <1>8, <1>9, <2>1, <2>3, <2>4, <2>6
  <2> QED
    BY <2>5, <2>6
<1>11. CASE EnableMonitoringFinished
  <2>1. Event.kind = "enabled" /\ qml' = [Delivered EXCEPT !.monitoredState = Delivered.monitoredState \/ Event.good]
    BY <1>11 DEF EnableMonitoringFinished, Arrives
  <2>2. Event.good \in BOOLEAN /\ qml.monitoredState \in BOOLEAN
    BY <1>1, <1>4 DEF Events, Objects
  <2>3. /\ qml' \in Objects /\ qml'.cache = Delivered.cache /\ qml'.events = Delivered.events
        /\ qml'.monitoredState = (qml.monitoredState \/ Event.good)
        /\ qml'.item = Delivered.item /\ qml'.queue = Delivered.queue /\ qml'.node = Delivered.node
        /\ qml'.connected = Delivered.connected /\ qml'.resolvers = Delivered.resolvers
        /\ qml'.fresh = Delivered.fresh
    BY <1>8, <2>1, <2>2 DEF Objects
  <2>4. qml.item => (qml'.monitoredState /\ Quiet(rest)) \/ Reports(rest)
    BY <1>4, <1>6, <2>3
  <2>5. qml.cache \in {NoNode, qml.node}
    BY <1>1 DEF Whole, OwnCache
  <2> QED
    BY <1>8, <1>9, <2>3, <2>4, <2>5
<1>12. CASE DisableMonitoringFinished
  <2>1. /\ Event.kind = "disabled"
        /\ qml' \in {[Delivered EXCEPT !.fault = TRUE], [Delivered EXCEPT !.monitoredState = FALSE]}
    BY <1>12 DEF DisableMonitoringFinished, Arrives
  <2>2. /\ qml' \in Objects /\ qml'.cache = Delivered.cache /\ qml'.events = Delivered.events
        /\ qml'.item = Delivered.item /\ qml'.queue = Delivered.queue /\ qml'.node = Delivered.node
        /\ qml'.connected = Delivered.connected /\ qml'.resolvers = Delivered.resolvers
        /\ qml'.fresh = Delivered.fresh
    BY <1>8, <2>1 DEF Objects
  <2>3. ~Quiet(qml.events)
    BY <1>4, <2>1 DEF Quiet
  <2>4. qml.item => Reports(rest)
    BY <1>4, <1>6, <2>1, <2>3
  <2>5. qml.cache \in {NoNode, qml.node}
    BY <1>1 DEF Whole, OwnCache
  <2> QED
    BY <1>8, <1>9, <2>2, <2>4, <2>5
<1> QED
  BY <1>10, <1>11, <1>12 DEF NodeAnswer

LEMMA ResolvedNodeStep ==
  ASSUME DeclarativeInv, NEW i, NEW good \in BOOLEAN, ResolvedNode(i, good)
  PROVE  DeclarativeInv'
<1> DEFINE q == [qml EXCEPT !.resolvers = RemoveAt(qml.resolvers, i)]
           s == [q EXCEPT !.index = table, !.named = (ns.array \in Indexes)]
           path == [id |-> qml.resolvers[i], index |-> table]
<1>1. /\ qml \in Objects /\ ns \in Namespaces
      /\ client \in {"Disconnected", "Connecting", "Connected", "Closing"}
      /\ session \in BOOLEAN /\ table \in Tables
  BY DEF DeclarativeInv, TypeOK
<1>2. /\ i \in DOMAIN qml.resolvers /\ (good => table \in Indexes)
      /\ qml' = IF good THEN setupNode(s, path, client) ELSE setupNode(q, [index |-> Empty], client)
      /\ UNCHANGED <<client, session, table, ns>>
  BY DEF ResolvedNode
<1>3. qml.resolvers \in Seq(RelativeIds)
  BY <1>1 DEF Objects
<1>4. RemoveAt(qml.resolvers, i) \in Seq(RelativeIds) /\ qml.resolvers[i] \in RelativeIds
  BY <1>2, <1>3 DEF RemoveAt
<1>5. q \in Objects /\ q.connected = qml.connected
  BY <1>1, <1>4 DEF Objects
<1> HIDE DEF q
<1>6. Whole(qml') /\ qml'.connected = qml.connected /\ (qml'.node = NoNode \/ qml'.fresh)
  <2>1. CASE good
    <3>1. path \in Nodes
      BY <1>2, <1>4, <2>1 DEF Nodes, NodeIds
    <3>2. s \in Objects /\ s.connected = q.connected
      <4>1. table \in Indexes /\ (ns.array \in Indexes) \in BOOLEAN
        BY <1>2, <2>1
      <4>2. s.connected = q.connected
        BY <1>5 DEF Objects
      <4>3. s \in Objects
        BY <1>5, <4>1 DEF Objects
      <4> QED
        BY <4>2, <4>3
    <3> HIDE DEF s, path
    <3> QED
      BY <1>2, <1>5, <2>1, <3>1, <3>2, SetupNodeKeeps
  <2>2. CASE ~good
    <3>1. [index |-> Empty].index = Empty
      OBVIOUS
    <3> QED
      BY <1>2, <1>5, <2>2, <3>1, SetupNodeKeeps
  <2> QED
    BY <2>1, <2>2
<1> QED
  BY <1>1, <1>2, <1>6, ObjectsStep DEF Current

-----------------------------------------------------------------------------
(* The invariant and its theorems.                                         *)

LEMMA NewIsWhole ==
  ASSUME NEW id \in NodeIds
  PROVE  /\ NewNamespaces \in Namespaces
         /\ Whole(NewObjects(id)) /\ Current(NewObjects(id)) /\ ~NewObjects(id).connected
<1>1. NewNamespaces \in Namespaces
  BY DEF NewNamespaces, Namespaces
<1>2. NewObjects(id) \in Objects
  BY DEF NewObjects, Objects
<1>3. /\ NewObjects(id).queue = <<>> /\ NewObjects(id).item = FALSE /\ NewObjects(id).events = <<>>
      /\ NewObjects(id).cache = NoNode /\ NewObjects(id).connected = FALSE
  BY DEF NewObjects
<1> QED
  BY <1>1, <1>2, <1>3 DEF Whole, HasNode, OwnEvents, OwnCache, Reported, Current

LEMMA DeclarativeInit == Init => DeclarativeInv
<1> SUFFICES ASSUME Init PROVE DeclarativeInv
  OBVIOUS
<1>1. PICK id \in NodeIds : qml = NewObjects(id)
  BY DEF Init
<1>2. /\ ns \in Namespaces /\ Whole(qml) /\ Current(qml) /\ ~qml.connected
  BY <1>1, NewIsWhole DEF Init
<1> QED
  BY <1>2 DEF Init, DeclarativeInv, TypeOK, Whole

LEMMA DeclarativeStep == DeclarativeInv /\ [Next]_vars => DeclarativeInv'
<1> SUFFICES ASSUME DeclarativeInv, [Next]_vars PROVE DeclarativeInv'
  OBVIOUS
<1>1. CASE Application
  BY <1>1, SetterStep, NamespaceStep, ClientStep DEF Application
<1>2. CASE ClientSignal
  BY <1>2, ClientStep, SessionEndsStep DEF ClientSignal
<1>3. CASE NamespaceAnswer \/ NamespaceArrayNotified
  BY <1>3, NamespaceAnswerStep
<1>4. CASE \E good \in BOOLEAN : NamespaceMonitoringFinished(good)
  BY <1>4, NamespaceStep
<1>5. ASSUME NEW good \in BOOLEAN, BackendAnswers(good) PROVE DeclarativeInv'
  BY <1>5, BackendAnswersStep
<1>6. CASE NodeAnswer
  BY <1>6, NodeAnswerStep
<1>7. ASSUME NEW i \in 1 .. MaxRequests, NEW good \in BOOLEAN, ResolvedNode(i, good) PROVE DeclarativeInv'
  BY <1>7, ResolvedNodeStep
<1>8. CASE ServerChangesTable
  BY <1>8 DEF ServerChangesTable, DeclarativeInv, TypeOK
<1>9. CASE ProcessEnds
  <2>1. /\ client' = "Disconnected" /\ session' = FALSE /\ ns' = NewNamespaces
        /\ qml' = NewObjects(qml.id) /\ table' = table
    BY <1>9 DEF ProcessEnds
  <2>2. qml.id \in NodeIds /\ table \in Tables
    BY DEF DeclarativeInv, TypeOK, Objects
  <2>3. ns' \in Namespaces /\ Whole(qml') /\ Current(qml') /\ ~qml'.connected
    BY <2>1, <2>2, NewIsWhole
  <2> QED
    BY <2>1, <2>2, <2>3, ObjectsStep
<1>10. CASE UNCHANGED vars
  BY <1>10 DEF vars, DeclarativeInv, TypeOK
<1> QED
  BY <1>1, <1>2, <1>3, <1>4, <1>5, <1>6, <1>7, <1>8, <1>9, <1>10 DEF Next

(* The inductive invariant holds of every behaviour. *)
THEOREM DeclarativeInvariant == Spec => []DeclarativeInv
BY DeclarativeInit, DeclarativeStep, PTL DEF Spec

(* The objects keep their types; above all, every request and every event  *)
(* has a node behind it.                                                   *)
THEOREM DeclarativeTypeCorrect == Spec => []TypeOK
<1>1. DeclarativeInv => TypeOK
  BY DEF DeclarativeInv
<1> QED
  BY <1>1, DeclarativeInvariant, PTL

(* `connected' means that this connection's namespace array was answered,  *)
(* for any number of reconnects and late answers.                          *)
THEOREM DeclarativeConnectedAnswered == Spec => []ConnectedIsAnswered
<1>1. DeclarativeInv => ConnectedIsAnswered
  BY DEF DeclarativeInv, ConnectedIsAnswered
<1> QED
  BY <1>1, DeclarativeInvariant, PTL

(* No node of an earlier connection stays behind `connected', with any     *)
(* number of resolvers that answer in any order.                           *)
THEOREM DeclarativeNoStaleNode == Spec => []NoStaleNode
<1>1. DeclarativeInv => NoStaleNode
  BY DEF DeclarativeInv, Current, NoStaleNode
<1> QED
  BY <1>1, DeclarativeInvariant, PTL

(* The attribute cache never holds a value of a node that was replaced,    *)
(* however many of its answers are still in the event queue.               *)
THEOREM DeclarativeCacheOwn == Spec => []CacheIsOwn
<1>1. DeclarativeInv => CacheIsOwn
  BY DEF DeclarativeInv, Whole, OwnCache, CacheIsOwn
<1> QED
  BY <1>1, DeclarativeInvariant, PTL

(* An item that exists is reported once the queues are empty, although the *)
(* slots of replaced nodes stay connected and switch `monitored' too.      *)
THEOREM DeclarativeItemReported == Spec => []ItemIsReported
<1>1. DeclarativeInv => ItemIsReported
  BY DEF DeclarativeInv, Whole, Reported, ItemIsReported
<1> QED
  BY <1>1, DeclarativeInvariant, PTL
=============================================================================
