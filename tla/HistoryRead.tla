------------------------------ MODULE HistoryRead ------------------------------
(***************************************************************************)
(* Reading the history of several nodes: one QOpcUaHistoryReadResponse     *)
(* with its implementation on the application's thread, the readHistoryRaw *)
(* slot and its callback on the plugin's, and the server.                  *)
(*                                                                         *)
(* The server returns the history of a node in pages.  A page that is not  *)
(* the last one comes with a continuation point, which the server keeps    *)
(* until it is used or released.  readMoreData() asks for the nodes that   *)
(* have one only, so the response keeps a mapping from the positions of    *)
(* the last request to those of the first.                                 *)
(*                                                                         *)
(* The connection stays up: what happens to a request without one is the   *)
(* subject of AsyncRequests.                                               *)
(***************************************************************************)
EXTENDS Naturals, Sequences, FiniteSets, SequencesExt

CONSTANTS
  NodeCount,   \* the number of nodes of the request
  MaxPages,    \* bound: the pages of history a node has on the server
  MaxPending   \* bound: requests and answers under way when the application calls

ASSUME NodeCountAssumption == NodeCount \in Nat \ {0}
ASSUME MaxPagesAssumption == MaxPages \in Nat \ {0}
ASSUME MaxPendingAssumption == MaxPending \in Nat \ {0}

Nodes == 1..NodeCount

(* A continuation point: the node and the page it continues with. *)
Points == [node : Nodes, page : 2..MaxPages]
NoPoint == [node |-> 0, page |-> 0]   \* an empty QByteArray

VARIABLES
  hstate,         \* m_state
  serviceResult,  \* m_serviceResult
  points,         \* m_continuationPoints
  dataMapping,    \* m_dataMapping
  data,           \* m_data: for each node a list of pages <<node, number>>
  released,       \* history: releaseContinuationPoints() has been called
  destroyed,      \* the response has been destroyed
  undefined,      \* the last step was undefined behaviour
  calls,          \* posted readHistoryRaw slots
  sent,           \* requests open62541 is waiting for
  signals,        \* posted historyDataAvailable signals
  history,        \* the number of history pages of each node
  held,           \* the continuation points the server keeps
  mishaps         \* history: what has gone wrong so far

responseVars == <<hstate, serviceResult, points, dataMapping, data, released, destroyed>>
serverVars == <<history, held>>
vars == <<responseVars, undefined, calls, sent, signals, serverVars, mishaps>>

Requests == [nodes : Seq(Nodes), points : Seq(Points \cup {NoPoint}), release : BOOLEAN]

Answers == [data : Seq(Seq(Nodes \X Nat)), points : Seq(Points \cup {NoPoint}), code : {"Good", "Bad"}]

(* The service failed as a whole, the server failed to read a single node, *)
(* the application called again before it had its answer.                  *)
Mishaps == {"service", "node", "overlap"}

AllNodes == [n \in Nodes |-> n]

(* readHistoryData(): the response, and the first request. *)
Init ==
  /\ hstate = "Reading"
  /\ serviceResult = "Good"
  /\ points = <<>> /\ dataMapping = <<>> /\ data = <<>>
  /\ released = FALSE /\ destroyed = FALSE /\ undefined = FALSE
  /\ calls = << [nodes |-> AllNodes, points |-> <<>>, release |-> FALSE] >>
  /\ sent = <<>> /\ signals = <<>>
  /\ history \in [Nodes -> 1..MaxPages] /\ held = {}
  /\ mishaps = {}

Settled == calls = <<>> /\ sent = <<>> /\ signals = <<>> /\ ~undefined

-----------------------------------------------------------------------------
(* The application's thread.                                               *)

MayCall ==
  /\ ~undefined /\ ~destroyed
  /\ Len(calls) + Len(sent) + Len(signals) < MaxPending
  /\ mishaps' = mishaps \cup (IF Settled THEN {} ELSE {"overlap"})

HasMoreData == hstate = "MoreDataAvailable"

(* The positions of a list that are in S, in the list's order. *)
InOrder(S) == [k \in 1..Cardinality(S) |-> CHOOSE i \in S : Cardinality({j \in S : j <= i}) = k]

(* The positions of m_continuationPoints that are not empty. *)
Open == InOrder({i \in DOMAIN points : points[i] # NoPoint})

(* The position in the first request of position i of the last one. *)
MutOrigin(i) == i

MutOriginBase(i) == IF dataMapping = <<>> THEN i - 1 ELSE dataMapping[i]

Origin(i) == IF dataMapping = <<>> THEN i ELSE dataMapping[i]

(* m_dataMapping.at() and nodesToRead().at() are in range. *)
InRange ==
  \A i \in DOMAIN points :
    IF dataMapping = <<>> THEN i \in Nodes ELSE i \in DOMAIN dataMapping

ReadMoreData ==
  /\ MayCall /\ HasMoreData
  /\ IF InRange
       THEN LET origin == [k \in DOMAIN Open |-> Origin(Open[k])]
                open   == [k \in DOMAIN Open |-> points[Open[k]]]
            IN /\ dataMapping' = origin
               /\ points' = open
               /\ calls' = Append(calls, [nodes |-> origin, points |-> open, release |-> FALSE])
               /\ UNCHANGED undefined
       ELSE undefined' = TRUE /\ UNCHANGED <<dataMapping, points, calls>>
  /\ UNCHANGED <<hstate, serviceResult, data, released, destroyed, sent, signals, serverVars>>

MutPostRelease ==
  /\ calls' = Append(calls, [nodes |-> AllNodes, points |-> <<>>, release |-> TRUE])
  /\ hstate' = "Finished"
  /\ released' = TRUE
  /\ UNCHANGED <<serviceResult, points, dataMapping, data, undefined, sent, signals, serverVars>>

(* All nodes of the first request, with the points of the last answer. *)
PostRelease ==
  /\ calls' = Append(calls, [nodes |-> AllNodes, points |-> points, release |-> TRUE])
  /\ hstate' = "Finished"
  /\ released' = TRUE
  /\ UNCHANGED <<serviceResult, points, dataMapping, data, undefined, sent, signals, serverVars>>

ReleaseContinuationPoints ==
  /\ MayCall
  /\ PostRelease
  /\ UNCHANGED destroyed

(* The destructor releases the continuation points as well. *)
Destroy ==
  /\ MayCall
  /\ PostRelease
  /\ destroyed' = TRUE

(* Where an answer has the values of node n; a node is at one position of  *)
(* m_dataMapping at most.                                                  *)
ReadFor(answer, n) == {k \in DOMAIN answer.data : dataMapping[k] = n}

(* The values of an answer are added to the nodes they were read for. *)
AddData(answer) ==
  IF data = <<>> THEN answer.data
  ELSE [n \in DOMAIN data |->
          IF ReadFor(answer, n) = {} THEN data[n]
          ELSE data[n] \o answer.data[CHOOSE k \in ReadFor(answer, n) : TRUE]]

CanAdd(answer) ==
  data = <<>> \/ \A k \in DOMAIN answer.data :
                   k \in DOMAIN dataMapping /\ dataMapping[k] \in DOMAIN data

(* Only a continuation point that is not empty stands for more data. *)
MutNewState(answer) ==
  IF answer.code = "Bad" THEN hstate
  ELSE IF \E i \in DOMAIN answer.points : answer.points[i] # NoPoint
    THEN "MoreDataAvailable" ELSE "Finished"

MutFirstPoint(answer) ==
  IF answer.points # <<>> /\ answer.points[1] # NoPoint
    THEN "MoreDataAvailable" ELSE "Finished"

NewState(answer) ==
  IF \E i \in DOMAIN answer.points : answer.points[i] # NoPoint
    THEN "MoreDataAvailable" ELSE "Finished"

(* handleDataAvailable() *)
HandleDataAvailable ==
  LET answer == Head(signals)
  IN /\ ~undefined /\ ~destroyed /\ signals # <<>>
     /\ serviceResult' = answer.code
     /\ points' = answer.points
     /\ IF CanAdd(answer)
          THEN data' = AddData(answer) /\ UNCHANGED undefined
          ELSE undefined' = TRUE /\ UNCHANGED data
     /\ hstate' = NewState(answer)
     /\ signals' = Tail(signals)
     /\ UNCHANGED <<dataMapping, released, destroyed, calls, sent, serverVars, mishaps>>

(* Nobody is left to hear the signal. *)
DropDataAvailable ==
  /\ ~undefined /\ destroyed /\ signals # <<>>
  /\ signals' = Tail(signals)
  /\ UNCHANGED <<responseVars, undefined, calls, sent, serverVars, mishaps>>

-----------------------------------------------------------------------------
(* The plugin's thread.                                                    *)

Nothing(code) == [data |-> <<>>, points |-> <<>>, code |-> code]

(* BadInternalError unless there is one point for each node, or none. *)
WellFormed(request) ==
  request.points = <<>> \/ Len(request.points) = Len(request.nodes)

BackendReadHistoryRaw ==
  /\ ~undefined /\ calls # <<>>
  /\ calls' = Tail(calls)
  /\ IF WellFormed(Head(calls))
       THEN sent' = Append(sent, Head(calls)) /\ UNCHANGED signals
       ELSE signals' = Append(signals, Nothing("Bad")) /\ UNCHANGED sent
  /\ UNCHANGED <<responseVars, undefined, serverVars, mishaps>>

(* The page the server reads for position i of a request. *)
PageOf(request, i) ==
  IF request.points = <<>> THEN [node |-> request.nodes[i], page |-> 1] ELSE request.points[i]

NextPoint(p) == IF p.page < history[p.node] THEN [node |-> p.node, page |-> p.page + 1] ELSE NoPoint

(* asyncReadHistoryDataCallBack() for an answer with a body for every      *)
(* node: the points of the nodes that were read badly are left out.        *)
Collected(request, bad) ==
  LET good == InOrder(DOMAIN request.nodes \ bad)
  IN [data   |-> [i \in DOMAIN request.nodes |->
                    LET p == PageOf(request, i)
                    IN IF i \in bad THEN <<>> ELSE << <<p.node, p.page>> >>],
      points |-> [k \in DOMAIN good |-> NextPoint(PageOf(request, good[k]))],
      code   |-> "Good"]

Take(k) == sent' = RemoveAt(sent, k)

(* The server reads a page for every position, except where it cannot or   *)
(* the continuation point is not one it keeps.  A failed position has a    *)
(* body or it has not: without one, the callback returns nothing at all.   *)
ServerReads(k) ==
  LET request == sent[k]
      used    == {PageOf(request, i) : i \in DOMAIN request.nodes} \ {NoPoint}
      invalid == {i \in DOMAIN request.nodes : request.points # <<>> /\ request.points[i] \notin held}
  IN /\ ~undefined /\ ~request.release
     /\ \E bad \in SUBSET DOMAIN request.nodes :
          /\ invalid \subseteq bad
          /\ held' = (held \ used) \cup
                     ({NextPoint(PageOf(request, i)) : i \in DOMAIN request.nodes \ bad} \ {NoPoint})
          /\ \/ signals' = Append(signals, Collected(request, bad))
             \/ bad # {} /\ signals' = Append(signals, Nothing("Good"))
          /\ mishaps' = mishaps \cup (IF bad = invalid THEN {} ELSE {"node"})
     /\ Take(k)
     /\ UNCHANGED <<responseVars, undefined, calls, history>>

(* The server releases the points of a request; the results have no body.  *)
ServerReleases(k) ==
  /\ ~undefined /\ sent[k].release
  /\ held' = held \ {sent[k].points[i] : i \in DOMAIN sent[k].points}
  /\ signals' = Append(signals, Nothing("Good"))
  /\ Take(k)
  /\ UNCHANGED <<responseVars, undefined, calls, history, mishaps>>

(* The service fails as a whole, or the request times out. *)
ServiceFails(k) ==
  /\ ~undefined
  /\ signals' = Append(signals, Nothing("Bad"))
  /\ mishaps' = mishaps \cup {"service"}
  /\ Take(k)
  /\ UNCHANGED <<responseVars, undefined, calls, history, held>>

Service == \E k \in DOMAIN sent : ServerReads(k) \/ ServerReleases(k) \/ ServiceFails(k)

ClientLoop == HandleDataAvailable \/ DropDataAvailable

Next ==
  \/ ReadMoreData \/ ReleaseContinuationPoints \/ Destroy
  \/ ClientLoop
  \/ BackendReadHistoryRaw
  \/ Service

(* The event loops run, and every request is answered or times out. *)
Fairness == WF_vars(ClientLoop) /\ WF_vars(BackendReadHistoryRaw) /\ WF_vars(Service)

Spec == Init /\ [][Next]_vars /\ Fairness

-----------------------------------------------------------------------------
(* Every variable keeps its type. *)
TypeOK ==
  /\ hstate \in {"Reading", "MoreDataAvailable", "Finished"}
  /\ serviceResult \in {"Good", "Bad"}
  /\ points \in Seq(Points \cup {NoPoint})
  /\ dataMapping \in Seq(Nodes)
  /\ data \in Seq(Seq(Nodes \X Nat))
  /\ released \in BOOLEAN /\ destroyed \in BOOLEAN /\ undefined \in BOOLEAN
  /\ calls \in Seq(Requests)
  /\ sent \in Seq(Requests)
  /\ signals \in Seq(Answers)
  /\ history \in [Nodes -> 1..MaxPages] /\ held \subseteq Points
  /\ mishaps \subseteq Mishaps

PagesUpTo(n, p) == [k \in 1..p |-> <<n, k>>]

(* However many rounds of readMoreData() compact the list of nodes, each   *)
(* node's data is a prefix of its own history, without a gap, a repetition *)
(* or a page of another node: if the application waits for its answers and *)
(* the server reads every node, whether or not a service call fails.       *)
DataIsInOrder ==
  mishaps \subseteq {"service"} =>
    \A n \in DOMAIN data : data[n] = PagesUpTo(n, Len(data[n]))

(* readMoreData() and handleDataAvailable() index three lists of different *)
(* lengths by one another, unchecked: no index is out of range, whichever  *)
(* nodes the server fails to read, if the application waits for answers.   *)
StaysInRange == "overlap" \notin mishaps => ~undefined

(* A Good response that is Finished without having been released has the   *)
(* whole history of every node, in the same circumstances.                 *)
FinishedIsComplete ==
  mishaps \subseteq {"service"} /\ hstate = "Finished" /\ serviceResult = "Good" /\ ~released =>
    data = [n \in Nodes |-> PagesUpTo(n, history[n])]

(* An application that calls readMoreData() whenever there is more, and    *)
(* does not give up, comes to the end.                                     *)
ReadingEnds == WF_vars(ReadMoreData) => <>(hstate = "Finished")

(* QOpcUaHistoryData: "information about which node has been read, its     *)
(* values and the status code": the values of an entry are its node's.     *)
DataBelongsToItsNode ==
  \A n \in DOMAIN data : \A k \in DOMAIN data[n] : data[n][k][1] = n

(* releaseContinuationPoints() before the first readMoreData() reaches the *)
(* server: if nothing went wrong and every request has been answered, the  *)
(* server keeps no continuation point.                                     *)
FirstReleaseFreesTheServer ==
  Settled /\ released /\ mishaps = {} /\ dataMapping = <<>> => held = {}
=============================================================================
