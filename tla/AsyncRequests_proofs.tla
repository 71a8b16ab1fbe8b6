------------------------- MODULE AsyncRequests_proofs -------------------------
(***************************************************************************)
(* Proofs about AsyncRequests, for any finite set of requests, any slots   *)
(* and any bounds.                                                         *)
(*                                                                         *)
(* The invariants hold one another up: that contexts do not cross rests on *)
(* fresh request ids, that the ids do not run out on each request being    *)
(* dispatched once, and that on the conservation of requests, which needs  *)
(* the contexts to tell whose answer a callback emits.                     *)
(***************************************************************************)
EXTENDS AsyncRequests, FiniteSetTheorems, TLAPS

-----------------------------------------------------------------------------
(* The inductive invariant.                                                *)

(* How often a member of S is in the queue q. *)
Count(q, S) == Cardinality({k \in DOMAIN q : q[k] \in S})

Asked(r) == {c \in Calls : c.slot = "request" /\ c.req = r}

AnswersTo(r) == {s \in Signals : s.name # "stateAndOrErrorChanged" /\ s.req = r}

Behind(r) == {i \in Ids : outstanding[i] = r}

(* What a browse may collect before its last page. *)
PagesAreBounded == \A t \in Tables, i \in Ids : contexts[t][i].pages <= MaxPages

(* A request that was dispatched on this connection was made, is not in    *)
(* the slot queue any more, and only those are outstanding; ids ahead of   *)
(* the counter are free.  Without a connection there is none.              *)
DispatchedOnce ==
  /\ \A r \in onConnection : r \in posted /\ Count(calls, Asked(r)) = 0
  /\ \A i \in Ids : outstanding[i] # NoRequest => outstanding[i] \in onConnection /\ i <= lastId
  /\ uaclient = "null" => onConnection = {}

(* What the ids of a connection are used for: one for each request, and    *)
(* one for each further page of a browse.                                  *)
Uses ==
  (Requests \X {0}) \cup ({r \in Requests : SlotOf[r] = BrowseSlot} \X (1..MaxPages))

(* Different ids are used for different things, the request behind an id   *)
(* being at the last of its pages.                                         *)
IsUse(f) ==
  /\ f \in Injection(1..lastId, Uses)
  /\ \A i \in 1..lastId :
       /\ f[i][1] \in onConnection
       /\ \A j \in Ids : outstanding[j] = f[i][1] => f[i][2] <= ContextOf(j).pages

IdsAreUsedOnce == \E f \in Injection(1..lastId, Uses) : IsUse(f)

Conserved ==
  \A r \in Requests :
    Count(calls, Asked(r)) + Cardinality(Behind(r)) + Count(signals, AnswersTo(r)) + answers[r]
      = (IF r \in posted THEN 1 ELSE 0)

AsyncInv ==
  /\ TypeOK
  /\ PagesAreBounded
  /\ ContextsAreExact
  /\ DispatchedOnce
  /\ IdsAreUsedOnce
  /\ Conserved

-----------------------------------------------------------------------------
(* Counting in queues.                                                     *)

LEMMA Positions ==
  ASSUME NEW T, NEW q \in Seq(T), NEW S
  PROVE  /\ {k \in DOMAIN q : q[k] \in S} \subseteq 1..Len(q)
         /\ IsFiniteSet({k \in DOMAIN q : q[k] \in S})
         /\ Count(q, S) \in Nat
         /\ Count(q, S) = 0 <=> \A k \in DOMAIN q : q[k] \notin S
<1> DEFINE P == {k \in DOMAIN q : q[k] \in S}
<1>1. Len(q) \in Nat /\ P \in SUBSET (1..Len(q))
  OBVIOUS
<1>2. IsFiniteSet(P)
  BY <1>1, FS_Interval, FS_Subset
<1>3. Cardinality(P) \in Nat /\ (Cardinality(P) = 0 <=> P = {})
  BY <1>2, FS_CardinalityType, FS_EmptySet
<1>4. P = {} <=> \A k \in DOMAIN q : q[k] \notin S
  OBVIOUS
<1> QED
  BY <1>1, <1>2, <1>3, <1>4 DEF Count

(* Two finite sets of positions that differ by a shift have the same size. *)
LEMMA ShiftedCardinality ==
  ASSUME NEW A \in SUBSET Nat, IsFiniteSet(A), NEW n \in Nat
  PROVE  IsFiniteSet({k + n : k \in A}) /\ Cardinality({k + n : k \in A}) = Cardinality(A)
<1> DEFINE B == {k + n : k \in A}
           f == [k \in A |-> k + n]
<1>1. f \in [A -> B]
  OBVIOUS
<1>2. \A a, b \in A : f[a] = f[b] => a = b
  OBVIOUS
<1>3. \A y \in B : \E x \in A : f[x] = y
  OBVIOUS
<1>4. f \in Bijection(A, B)
  BY <1>1, <1>2, <1>3 DEF Bijection, Injection, Surjection, IsInjective
<1>5. ExistsBijection(A, B)
  BY <1>4 DEF ExistsBijection
<1> HIDE DEF B, f
<1> QED
  BY <1>5, FS_Bijection DEF B

LEMMA CountConcat ==
  ASSUME NEW T, NEW q \in Seq(T), NEW r \in Seq(T), NEW S
  PROVE  Count(q \o r, S) = Count(q, S) + Count(r, S)
<1> DEFINE A == {k \in DOMAIN q : q[k] \in S}
           B == {k \in DOMAIN r : r[k] \in S}
           n == Len(q)
           C == {k + n : k \in B}
           D == {k \in DOMAIN (q \o r) : (q \o r)[k] \in S}
<1>1. /\ n \in Nat /\ A \subseteq 1..n /\ IsFiniteSet(A)
      /\ IsFiniteSet(B) /\ B \in SUBSET Nat /\ B \subseteq 1..Len(r)
  <2>1. n \in Nat /\ A \subseteq 1..n /\ B \subseteq 1..Len(r) /\ B \in SUBSET Nat
    OBVIOUS
  <2>2. IsFiniteSet(A) /\ IsFiniteSet(B)
    BY Positions
  <2> QED
    BY <2>1, <2>2
<1>2. IsFiniteSet(C) /\ Cardinality(C) = Cardinality(B)
  <2> HIDE DEF B, n
  <2> QED
    BY <1>1, ShiftedCardinality
<1>3. D = A \cup C
  <2>1. \A k \in D : k \in A \/ k \in C
    <3> SUFFICES ASSUME NEW k \in D, k \notin A PROVE k \in C
      OBVIOUS
    <3>1. k \in Nat /\ k > n /\ k - n \in DOMAIN r /\ (q \o r)[k] = r[k - n]
      OBVIOUS
    <3>2. k - n \in B /\ k = (k - n) + n
      BY <3>1
    <3> QED
      BY <3>2
  <2>2. \A k \in A : k \in D
    OBVIOUS
  <2>3. \A k \in B : k + n \in D
    OBVIOUS
  <2> QED
    BY <2>1, <2>2, <2>3
<1>4. A \cap C = {}
  BY <1>1
<1> HIDE DEF A, B, C, D, n
<1>5. Cardinality(A \cup C) = Cardinality(A) + Cardinality(C)
  <2>1. Cardinality(A \cup C) = Cardinality(A) + Cardinality(C) - Cardinality(A \cap C)
    BY <1>1, <1>2, FS_Union
  <2>2. Cardinality(A \cap C) = 0
    BY <1>4, FS_EmptySet
  <2>3. Cardinality(A) \in Nat /\ Cardinality(C) \in Nat
    BY <1>1, <1>2, FS_CardinalityType
  <2> QED
    BY <2>1, <2>2, <2>3
<1> QED
  BY <1>2, <1>3, <1>5 DEF Count, A, B, D

LEMMA CountSingleton ==
  ASSUME NEW x, NEW S
  PROVE  Count(<<x>>, S) = IF x \in S THEN 1 ELSE 0
<1> DEFINE P == {k \in DOMAIN <<x>> : <<x>>[k] \in S}
<1>1. P = IF x \in S THEN {1} ELSE {}
  OBVIOUS
<1>2. Cardinality({1}) = 1 /\ Cardinality({}) = 0
  BY FS_Singleton, FS_EmptySet
<1> QED
  BY <1>1, <1>2 DEF Count

LEMMA CountAppend ==
  ASSUME NEW T, NEW q \in Seq(T), NEW x \in T, NEW S
  PROVE  Count(Append(q, x), S) = Count(q, S) + (IF x \in S THEN 1 ELSE 0)
<1>1. Append(q, x) = q \o <<x>> /\ <<x>> \in Seq(T)
  OBVIOUS
<1>2. Count(q \o <<x>>, S) = Count(q, S) + Count(<<x>>, S)
  BY <1>1, CountConcat
<1>3. Count(<<x>>, S) = IF x \in S THEN 1 ELSE 0
  BY CountSingleton
<1> QED
  BY <1>1, <1>2, <1>3

LEMMA CountTail ==
  ASSUME NEW T, NEW q \in Seq(T), q # <<>>, NEW S
  PROVE  /\ Head(q) \in T /\ Tail(q) \in Seq(T)
         /\ Count(q, S) = Count(Tail(q), S) + (IF Head(q) \in S THEN 1 ELSE 0)
<1>1. Head(q) \in T /\ Tail(q) \in Seq(T) /\ q = <<Head(q)>> \o Tail(q) /\ <<Head(q)>> \in Seq(T)
  OBVIOUS
<1>2. Count(q, S) = Count(<<Head(q)>>, S) + Count(Tail(q), S)
  BY <1>1, CountConcat, ZenonT(60)
<1>3. Count(Tail(q), S) \in Nat
  BY <1>1, Positions
<1> QED
  BY <1>1, <1>2, <1>3, CountSingleton

-----------------------------------------------------------------------------
(* The calls and the signals.                                              *)

LEMMA SlotFacts ==
  ASSUME NEW r \in Requests
  PROVE  /\ SlotOf[r].table \in Tables
         /\ SlotOf[r].refused \in SignalNames /\ SlotOf[r].finished \in SignalNames
         /\ SlotOf[r] = BrowseSlot => SlotOf[r].table = "browse"
<1>1. SlotOf[r] \in Slots
  BY RequestsAssumption
<1> QED
  BY <1>1 DEF Tables, SignalNames, BrowseSlot, Row

LEMMA AnswerNames == "stateAndOrErrorChanged" \notin SignalNames
BY DEF SignalNames, Slots, AttributeSlots, ObjectSlots, BatchSlots, AddressSpaceSlots, BrowseSlot, Row

(* A signal answers the request it names. *)
LEMMA AnswerCounts ==
  ASSUME NEW r \in Requests, NEW name \in SignalNames, NEW code \in {"Good", "Bad"},
         NEW pages \in 0..(MaxPages + 1)
  PROVE  /\ Answer(name, r, code, pages) \in Signals
         /\ Answer(name, r, code, pages).name # "stateAndOrErrorChanged"
         /\ Answer(name, r, code, pages).req = r
         /\ \A q \in Requests : Answer(name, r, code, pages) \in AnswersTo(q) <=> q = r
<1>1. name # "stateAndOrErrorChanged"
  BY AnswerNames
<1> QED
  BY <1>1 DEF Answer, Signals, AnswersTo

LEMMA StateCounts ==
  ASSUME NEW c \in BOOLEAN, NEW over \in SUBSET Requests
  PROVE  State(c, over) \in Signals /\ \A q : State(c, over) \notin AnswersTo(q)
BY DEF State, Signals, AnswersTo

(* The slot queue loses its head.  *)
LEMMA CallTaken ==
  ASSUME TypeOK, calls # <<>>, calls' = Tail(calls)
  PROVE  /\ Head(calls) \in Calls /\ calls' \in Seq(Calls)
         /\ \A r : /\ Count(calls, Asked(r)) \in Nat /\ Count(calls', Asked(r)) \in Nat
                  /\ Count(calls, Asked(r)) =
                       Count(calls', Asked(r)) + (IF Head(calls) \in Asked(r) THEN 1 ELSE 0)
<1>1. calls \in Seq(Calls)
  BY DEF TypeOK
<1>2. Head(calls) \in Calls /\ Tail(calls) \in Seq(Calls)
  BY <1>1
<1>3. ASSUME NEW r
      PROVE  /\ Count(calls, Asked(r)) \in Nat /\ Count(calls', Asked(r)) \in Nat
             /\ Count(calls, Asked(r)) =
                  Count(calls', Asked(r)) + (IF Head(calls) \in Asked(r) THEN 1 ELSE 0)
  <2>1. Count(calls, Asked(r)) \in Nat /\ Count(Tail(calls), Asked(r)) \in Nat
    BY <1>1, <1>2, Positions
  <2>2. Count(calls, Asked(r)) =
          Count(Tail(calls), Asked(r)) + (IF Head(calls) \in Asked(r) THEN 1 ELSE 0)
    BY <1>1, CountTail
  <2> QED
    BY <2>1, <2>2
<1> QED
  BY <1>2, <1>3

LEMMA CallPosted ==
  ASSUME TypeOK, NEW c \in Calls, calls' = Append(calls, c)
  PROVE  /\ calls' \in Seq(Calls)
         /\ \A r : /\ Count(calls, Asked(r)) \in Nat /\ Count(calls', Asked(r)) \in Nat
                  /\ Count(calls', Asked(r)) =
                       Count(calls, Asked(r)) + (IF c \in Asked(r) THEN 1 ELSE 0)
<1>1. calls \in Seq(Calls)
  BY DEF TypeOK
<1>2. Append(calls, c) \in Seq(Calls)
  BY <1>1
<1>3. ASSUME NEW r
      PROVE  /\ Count(calls, Asked(r)) \in Nat /\ Count(calls', Asked(r)) \in Nat
             /\ Count(calls', Asked(r)) =
                  Count(calls, Asked(r)) + (IF c \in Asked(r) THEN 1 ELSE 0)
  <2>1. Count(calls, Asked(r)) \in Nat /\ Count(Append(calls, c), Asked(r)) \in Nat
    BY <1>1, <1>2, Positions
  <2>2. Count(Append(calls, c), Asked(r)) =
          Count(calls, Asked(r)) + (IF c \in Asked(r) THEN 1 ELSE 0)
    BY <1>1, CountAppend
  <2> QED
    BY <2>1, <2>2
<1> QED
  BY <1>2, <1>3

(* The head of the queue that a slot runs on. *)
LEMMA RequestCall ==
  ASSUME TypeOK, Runs("request")
  PROVE  /\ calls # <<>> /\ Head(calls).req \in Requests
         /\ \A r : Head(calls) \in Asked(r) <=> r = Head(calls).req
<1>1. calls # <<>> /\ Head(calls) \in Calls /\ Head(calls).slot = "request"
  BY DEF TypeOK, Runs
<1> QED
  BY <1>1 DEF Calls, Asked

LEMMA OtherCall ==
  ASSUME TypeOK, NEW slot, slot # "request", Runs(slot)
  PROVE  calls # <<>> /\ \A r : Head(calls) \notin Asked(r)
BY DEF Runs, Asked

(* How many ids and answers there are behind a request. *)
LEMMA CountTypes ==
  ASSUME TypeOK, NEW r
  PROVE  /\ IsFiniteSet(Ids) /\ IsFiniteSet(Behind(r)) /\ Cardinality(Behind(r)) \in Nat
         /\ Count(calls, Asked(r)) \in Nat /\ Count(signals, AnswersTo(r)) \in Nat
<1>1. Cardinality(Requests) \in Nat /\ Cardinality({q \in Requests : SlotOf[q] = BrowseSlot}) \in Nat
  BY RequestsAssumption, FS_Subset, FS_CardinalityType
<1>2. (Cardinality(Requests) + MaxPages * Cardinality({q \in Requests : SlotOf[q] = BrowseSlot})) \in Nat
  BY <1>1, BoundsAssumption
<1>3. IsFiniteSet(Ids)
  BY <1>2, FS_Interval DEF Ids
<1>4. IsFiniteSet(Behind(r)) /\ Cardinality(Behind(r)) \in Nat
  BY <1>3, FS_Subset, FS_CardinalityType DEF Behind
<1>5. Count(calls, Asked(r)) \in Nat /\ Count(signals, AnswersTo(r)) \in Nat
  BY Positions DEF TypeOK
<1> QED
  BY <1>3, <1>4, <1>5

(* A request is behind one id at most, and has been answered by then in no *)
(* way.                                                                    *)
LEMMA BehindOne ==
  ASSUME AsyncInv, NEW i \in Ids, outstanding[i] # NoRequest
  PROVE  /\ outstanding[i] \in Requests
         /\ Behind(outstanding[i]) = {i}
<1> DEFINE r == outstanding[i]
<1>1. TypeOK /\ r \in Requests
  BY DEF AsyncInv, TypeOK
<1>2. /\ IsFiniteSet(Behind(r)) /\ Cardinality(Behind(r)) \in Nat
      /\ Count(calls, Asked(r)) \in Nat /\ Count(signals, AnswersTo(r)) \in Nat /\ answers[r] \in Nat
  BY <1>1, CountTypes DEF TypeOK
<1>3. Count(calls, Asked(r)) + Cardinality(Behind(r)) + Count(signals, AnswersTo(r)) + answers[r]
        = (IF r \in posted THEN 1 ELSE 0)
  BY <1>1 DEF AsyncInv, Conserved
<1>4. Cardinality(Behind(r)) <= 1
  BY <1>2, <1>3
<1>5. i \in Behind(r)
  BY DEF Behind
<1>6. Cardinality(Behind(r)) = 1
  BY <1>2, <1>4, <1>5, FS_EmptySet
<1>7. \E x : Behind(r) = {x}
  BY <1>2, <1>6, FS_Singleton
<1> QED
  BY <1>1, <1>5, <1>7

-----------------------------------------------------------------------------
(* The steps.                                                              *)

(* Steps that leave the service table alone; only id 0 may have a new      *)
(* context.                                                                *)
LEMMA ServiceSame ==
  ASSUME AsyncInv, UNCHANGED <<lastId, outstanding, onConnection>>,
         \A t \in Tables, i \in Ids : contexts'[t][i] = contexts[t][i],
         posted \subseteq posted',
         uaclient' = "null" => uaclient = "null",
         \A r \in onConnection : Count(calls', Asked(r)) = 0
  PROVE  /\ PagesAreBounded' /\ ContextsAreExact' /\ DispatchedOnce' /\ IdsAreUsedOnce'
         /\ \A r : Behind(r)' = Behind(r)
<1>1. PagesAreBounded'
  BY DEF AsyncInv, PagesAreBounded
<1>2. ContextsAreExact'
  BY DEF AsyncInv, ContextsAreExact, TableOf
<1>3. DispatchedOnce'
  BY DEF AsyncInv, DispatchedOnce
<1>4. IdsAreUsedOnce'
  <2>1. PICK f \in Injection(1..lastId, Uses) : IsUse(f)
    BY DEF AsyncInv, IdsAreUsedOnce
  <2>2. ASSUME NEW i \in 1..lastId, NEW j \in Ids, outstanding[j] = f[i][1]
        PROVE  ContextOf(j)' = ContextOf(j)
    <3>1. outstanding[j] \in Requests
      BY <2>1, <2>2 DEF IsUse, AsyncInv, TypeOK
    <3>2. TableOf(j) \in Tables /\ TableOf(j)' = TableOf(j)
      BY <3>1, SlotFacts DEF TableOf
    <3> QED
      BY <3>2 DEF ContextOf
  <2>3. IsUse(f)'
    BY <2>1, <2>2 DEF IsUse
  <2> QED
    BY <2>1, <2>3 DEF IdsAreUsedOnce
<1>5. \A r : Behind(r)' = Behind(r)
  BY DEF Behind
<1> QED
  BY <1>1, <1>2, <1>3, <1>4, <1>5

(* Requests of the connection stay out of the slot queue. *)
LEMMA QueueShrinks ==
  ASSUME AsyncInv, calls' = calls \/ (calls # <<>> /\ calls' = Tail(calls))
  PROVE  \A r \in onConnection : Count(calls', Asked(r)) = 0
<1> SUFFICES ASSUME NEW r \in onConnection PROVE Count(calls', Asked(r)) = 0
  OBVIOUS
<1>1. TypeOK /\ Count(calls, Asked(r)) = 0
  BY DEF AsyncInv, DispatchedOnce
<1>2. CASE calls' = calls
  BY <1>1, <1>2
<1>3. CASE calls # <<>> /\ calls' = Tail(calls)
  <2>1. /\ Count(calls, Asked(r)) \in Nat /\ Count(calls', Asked(r)) \in Nat
        /\ Count(calls, Asked(r)) =
             Count(calls', Asked(r)) + (IF Head(calls) \in Asked(r) THEN 1 ELSE 0)
    BY <1>1, <1>3, CallTaken
  <2> QED
    BY <1>1, <2>1
<1> QED
  BY <1>2, <1>3

(* A signal is queued that answers request q. *)
LEMMA AnswerQueued ==
  ASSUME TypeOK, NEW q \in Requests, NEW name \in SignalNames, NEW code \in {"Good", "Bad"},
         NEW pages \in 0..(MaxPages + 1),
         signals' = Append(signals, Answer(name, q, code, pages))
  PROVE  /\ signals' \in Seq(Signals)
         /\ \A r \in Requests :
              /\ Count(signals', AnswersTo(r)) \in Nat
              /\ Count(signals', AnswersTo(r)) =
                   Count(signals, AnswersTo(r)) + (IF r = q THEN 1 ELSE 0)
<1> DEFINE a == Answer(name, q, code, pages)
<1>1. a \in Signals /\ \A r \in Requests : a \in AnswersTo(r) <=> r = q
  BY AnswerCounts
<1> HIDE DEF a
<1>2. signals \in Seq(Signals) /\ Append(signals, a) \in Seq(Signals)
  BY <1>1 DEF TypeOK
<1>3. ASSUME NEW r \in Requests
      PROVE  /\ Count(Append(signals, a), AnswersTo(r)) \in Nat
             /\ Count(Append(signals, a), AnswersTo(r)) =
                  Count(signals, AnswersTo(r)) + (IF r = q THEN 1 ELSE 0)
  <2>1. Count(Append(signals, a), AnswersTo(r)) \in Nat
    BY <1>2, Positions
  <2>2. Count(Append(signals, a), AnswersTo(r)) =
          Count(signals, AnswersTo(r)) + (IF a \in AnswersTo(r) THEN 1 ELSE 0)
    BY <1>1, <1>2, CountAppend
  <2> QED
    BY <1>1, <2>1, <2>2
<1> QED
  BY <1>2, <1>3 DEF a

LEMMA RequestStep ==
  ASSUME AsyncInv, NEW q \in Requests, Request(q)
  PROVE  AsyncInv'
<1> DEFINE c == [slot |-> "request", req |-> q]
<1>1. c \in Calls /\ \A r : c \in Asked(r) <=> r = q
  BY DEF Calls, Asked
<1>2. /\ TypeOK /\ q \notin posted /\ posted' = posted \cup {q} /\ calls' = Append(calls, c)
      /\ UNCHANGED <<connected, answers, signals, linkVars, serviceVars, undefined>>
  BY DEF AsyncInv, Request, Post
<1> HIDE DEF c
<1>3. /\ calls' \in Seq(Calls)
      /\ \A r : /\ Count(calls, Asked(r)) \in Nat /\ Count(calls', Asked(r)) \in Nat
                /\ Count(calls', Asked(r)) =
                     Count(calls, Asked(r)) + (IF c \in Asked(r) THEN 1 ELSE 0)
  BY <1>1, <1>2, CallPosted
<1>4. \A r \in onConnection : Count(calls', Asked(r)) = 0
  BY <1>1, <1>2, <1>3 DEF AsyncInv, DispatchedOnce
<1>5. TypeOK'
  BY <1>2, <1>3 DEF TypeOK, linkVars, serviceVars
<1>6. /\ PagesAreBounded' /\ ContextsAreExact' /\ DispatchedOnce' /\ IdsAreUsedOnce'
      /\ \A r : Behind(r)' = Behind(r)
  BY <1>2, <1>4, ServiceSame DEF linkVars, serviceVars
<1>7. Conserved'
  <2> SUFFICES ASSUME NEW r \in Requests
               PROVE  Count(calls', Asked(r)) + Cardinality(Behind(r)') + Count(signals', AnswersTo(r))
                        + answers'[r] = (IF r \in posted' THEN 1 ELSE 0)
    BY DEF Conserved
  <2>1. /\ Cardinality(Behind(r)) \in Nat /\ Count(signals, AnswersTo(r)) \in Nat /\ answers[r] \in Nat
    BY <1>2, CountTypes DEF TypeOK
  <2>2. Count(calls, Asked(r)) + Cardinality(Behind(r)) + Count(signals, AnswersTo(r)) + answers[r]
          = (IF r \in posted THEN 1 ELSE 0)
    BY DEF AsyncInv, Conserved
  <2>3. Behind(r)' = Behind(r) /\ signals' = signals /\ answers' = answers
    BY <1>2, <1>6
  <2>4. Count(calls', Asked(r)) = Count(calls, Asked(r)) + (IF r = q THEN 1 ELSE 0)
        /\ Count(calls, Asked(r)) \in Nat
    BY <1>1, <1>3
  <2> QED
    BY <1>2, <2>1, <2>2, <2>3, <2>4
<1> QED
  BY <1>5, <1>6, <1>7 DEF AsyncInv

(* Calls of the application that are not requests. *)
LEMMA PostStep ==
  ASSUME AsyncInv, ConnectToEndpoint \/ DisconnectFromEndpoint
  PROVE  AsyncInv'
<1>1. PICK c \in Calls :
        /\ \A r : c \notin Asked(r)
        /\ posted' = posted /\ calls' = Append(calls, c) /\ connected' \in BOOLEAN
        /\ UNCHANGED <<answers, signals, linkVars, serviceVars, undefined>>
  <2>1. ASSUME NEW n \in {"connectToEndpoint", "disconnectFromEndpoint"}
        PROVE  [slot |-> n] \in Calls /\ \A r : [slot |-> n] \notin Asked(r)
    BY DEF Calls, Asked
  <2>2. CASE ConnectToEndpoint
    BY <2>1, <2>2 DEF ConnectToEndpoint, Post, AsyncInv, TypeOK
  <2>3. CASE DisconnectFromEndpoint
    BY <2>1, <2>3 DEF DisconnectFromEndpoint, Post
  <2> QED
    BY <2>2, <2>3
<1>2. TypeOK
  BY DEF AsyncInv
<1>3. /\ calls' \in Seq(Calls)
      /\ \A r : /\ Count(calls, Asked(r)) \in Nat /\ Count(calls', Asked(r)) \in Nat
                /\ Count(calls', Asked(r)) =
                     Count(calls, Asked(r)) + (IF c \in Asked(r) THEN 1 ELSE 0)
  BY <1>1, <1>2, CallPosted
<1>4. \A r : Count(calls', Asked(r)) = Count(calls, Asked(r))
  BY <1>1, <1>3
<1>5. TypeOK'
  BY <1>1, <1>2, <1>3 DEF TypeOK, linkVars, serviceVars
<1>6. \A r \in onConnection : Count(calls', Asked(r)) = 0
  BY <1>4 DEF AsyncInv, DispatchedOnce
<1>7. /\ PagesAreBounded' /\ ContextsAreExact' /\ DispatchedOnce' /\ IdsAreUsedOnce'
      /\ \A r : Behind(r)' = Behind(r)
  BY <1>1, <1>6, ServiceSame DEF linkVars, serviceVars
<1>8. Conserved'
  BY <1>1, <1>4, <1>7 DEF AsyncInv, Conserved
<1> QED
  BY <1>5, <1>7, <1>8 DEF AsyncInv

LEMMA HandleAnswerStep ==
  ASSUME AsyncInv, HandleAnswer
  PROVE  AsyncInv'
<1> DEFINE s == Head(signals)
<1>1. /\ TypeOK /\ signals # <<>> /\ s.name # "stateAndOrErrorChanged"
      /\ answers' = IF s.req = NoRequest THEN answers ELSE [answers EXCEPT ![s.req] = @ + 1]
      /\ signals' = Tail(signals)
      /\ UNCHANGED <<connected, posted, calls, linkVars, serviceVars, undefined>>
  BY DEF AsyncInv, HandleAnswer
<1>2. signals \in Seq(Signals) /\ s \in Signals /\ Tail(signals) \in Seq(Signals)
  BY <1>1 DEF TypeOK
<1> HIDE DEF s
<1>3. s.req \in Requests \cup {NoRequest} /\ \A r \in Requests : s \in AnswersTo(r) <=> r = s.req
  BY <1>1, <1>2 DEF Signals, AnswersTo
<1>4. ASSUME NEW r \in Requests
      PROVE  /\ Count(signals', AnswersTo(r)) \in Nat
             /\ Count(signals, AnswersTo(r)) =
                  Count(signals', AnswersTo(r)) + (IF r = s.req THEN 1 ELSE 0)
  <2>1. Count(Tail(signals), AnswersTo(r)) \in Nat
    BY <1>2, Positions
  <2>2. Count(signals, AnswersTo(r)) =
          Count(Tail(signals), AnswersTo(r)) + (IF Head(signals) \in AnswersTo(r) THEN 1 ELSE 0)
    BY <1>1, <1>2, CountTail
  <2> QED
    BY <1>1, <1>3, <2>1, <2>2 DEF s
<1>5. answers' \in [Requests -> Nat] /\ \A r \in Requests :
        answers'[r] = answers[r] + (IF r = s.req THEN 1 ELSE 0)
  BY <1>1, <1>3, RequestsAssumption DEF TypeOK
<1>6. TypeOK'
  BY <1>1, <1>2, <1>5 DEF TypeOK, linkVars, serviceVars
<1>7. \A r \in onConnection : Count(calls', Asked(r)) = 0
  BY <1>1, QueueShrinks
<1>8. /\ PagesAreBounded' /\ ContextsAreExact' /\ DispatchedOnce' /\ IdsAreUsedOnce'
      /\ \A r : Behind(r)' = Behind(r)
  BY <1>1, <1>7, ServiceSame DEF linkVars, serviceVars
<1>9. Conserved'
  <2> SUFFICES ASSUME NEW r \in Requests
               PROVE  Count(calls', Asked(r)) + Cardinality(Behind(r)') + Count(signals', AnswersTo(r))
                        + answers'[r] = (IF r \in posted' THEN 1 ELSE 0)
    BY DEF Conserved
  <2>1. /\ Cardinality(Behind(r)) \in Nat /\ Count(calls, Asked(r)) \in Nat /\ answers[r] \in Nat
    BY <1>1, CountTypes DEF TypeOK
  <2>2. Count(calls, Asked(r)) + Cardinality(Behind(r)) + Count(signals, AnswersTo(r)) + answers[r]
          = (IF r \in posted THEN 1 ELSE 0)
    BY DEF AsyncInv, Conserved
  <2>3. Behind(r)' = Behind(r) /\ calls' = calls /\ posted' = posted
    BY <1>1, <1>8
  <2>4. /\ Count(signals', AnswersTo(r)) \in Nat
        /\ Count(signals, AnswersTo(r)) =
             Count(signals', AnswersTo(r)) + (IF r = s.req THEN 1 ELSE 0)
        /\ answers'[r] = answers[r] + (IF r = s.req THEN 1 ELSE 0)
    BY <1>4, <1>5
  <2> QED
    BY <2>1, <2>2, <2>3, <2>4
<1> QED
  BY <1>6, <1>8, <1>9 DEF AsyncInv

LEMMA HandleStateStep ==
  ASSUME AsyncInv, HandleStateAndOrErrorChanged
  PROVE  AsyncInv'
<1> DEFINE s == Head(signals)
<1>1. /\ TypeOK /\ signals # <<>> /\ s.name = "stateAndOrErrorChanged"
      /\ connected' = s.connected /\ signals' = Tail(signals)
      /\ UNCHANGED <<posted, answers, calls, linkVars, serviceVars, undefined>>
  BY DEF AsyncInv, HandleStateAndOrErrorChanged
<1>2. signals \in Seq(Signals) /\ s \in Signals /\ Tail(signals) \in Seq(Signals)
  BY <1>1 DEF TypeOK
<1> HIDE DEF s
<1>3. s.connected \in BOOLEAN /\ \A r \in Requests : s \notin AnswersTo(r)
  BY <1>1, <1>2, AnswerNames DEF Signals, AnswersTo
<1>4. ASSUME NEW r \in Requests
      PROVE  Count(signals', AnswersTo(r)) = Count(signals, AnswersTo(r))
  <2>1. Count(Tail(signals), AnswersTo(r)) \in Nat
    BY <1>2, Positions
  <2>2. Count(signals, AnswersTo(r)) =
          Count(Tail(signals), AnswersTo(r)) + (IF Head(signals) \in AnswersTo(r) THEN 1 ELSE 0)
    BY <1>1, <1>2, CountTail
  <2> QED
    BY <1>1, <1>3, <2>1, <2>2 DEF s
<1>5. TypeOK'
  BY <1>1, <1>2, <1>3 DEF TypeOK, linkVars, serviceVars
<1>6. \A r \in onConnection : Count(calls', Asked(r)) = 0
  BY <1>1, QueueShrinks
<1>7. /\ PagesAreBounded' /\ ContextsAreExact' /\ DispatchedOnce' /\ IdsAreUsedOnce'
      /\ \A r : Behind(r)' = Behind(r)
  BY <1>1, <1>6, ServiceSame DEF linkVars, serviceVars
<1>8. Conserved'
  BY <1>1, <1>4, <1>7 DEF AsyncInv, Conserved
<1> QED
  BY <1>5, <1>7, <1>8 DEF AsyncInv

(* A slot answers its request without sending it. *)
LEMMA AnsweredAtOnce ==
  ASSUME AsyncInv, BackendNothingToDo \/ BackendRefused
  PROVE  AsyncInv'
<1> DEFINE q == Head(calls).req
<1>1. TypeOK /\ Runs("request")
  BY DEF AsyncInv, BackendNothingToDo, BackendRefused
<1>2. /\ calls # <<>> /\ q \in Requests /\ \A r : Head(calls) \in Asked(r) <=> r = q
  BY <1>1, RequestCall
<1>3. PICK name \in SignalNames :
        /\ signals' = Append(signals, Answer(name, q, "Bad", 0)) /\ calls' = Tail(calls)
        /\ UNCHANGED <<clientVars, linkVars, lastId, outstanding, onConnection, undefined>>
  BY <1>2, SlotFacts DEF BackendNothingToDo, BackendRefused, serviceVars
<1>4. /\ contexts' \in [Tables -> [Ids \cup {0} -> Contexts]]
      /\ \A t \in Tables, i \in Ids : contexts'[t][i] = contexts[t][i]
  <2>1. CASE contexts' = contexts
    BY <1>1, <2>1 DEF TypeOK
  <2>2. CASE contexts' = Store(SlotOf[q].table, 0, q, 0)
    <3>1. SlotOf[q].table \in Tables /\ [req |-> q, pages |-> 0] \in Contexts /\ 0 \notin Ids
      BY <1>2, SlotFacts, BoundsAssumption DEF Contexts, Ids
    <3> QED
      BY <1>1, <2>2, <3>1 DEF Store, TypeOK
  <2> QED
    BY <2>1, <2>2 DEF BackendNothingToDo, BackendRefused, RefusedContext, serviceVars
<1> HIDE DEF q
<1>5. /\ calls' \in Seq(Calls)
      /\ \A r : /\ Count(calls, Asked(r)) \in Nat /\ Count(calls', Asked(r)) \in Nat
                /\ Count(calls, Asked(r)) =
                     Count(calls', Asked(r)) + (IF Head(calls) \in Asked(r) THEN 1 ELSE 0)
  BY <1>1, <1>2, <1>3, CallTaken
<1>6. /\ signals' \in Seq(Signals)
      /\ \A r \in Requests :
           /\ Count(signals', AnswersTo(r)) \in Nat
           /\ Count(signals', AnswersTo(r)) =
                Count(signals, AnswersTo(r)) + (IF r = q THEN 1 ELSE 0)
  <2>1. 0 \in 0..(MaxPages + 1)
    BY BoundsAssumption
  <2> QED
    BY <1>1, <1>2, <1>3, <2>1, AnswerQueued
<1>7. TypeOK'
  BY <1>1, <1>3, <1>4, <1>5, <1>6 DEF TypeOK, linkVars, clientVars
<1>8. \A r \in onConnection : Count(calls', Asked(r)) = 0
  BY <1>2, <1>3, QueueShrinks
<1>9. /\ PagesAreBounded' /\ ContextsAreExact' /\ DispatchedOnce' /\ IdsAreUsedOnce'
      /\ \A r : Behind(r)' = Behind(r)
  BY <1>3, <1>4, <1>8, ServiceSame DEF linkVars, clientVars
<1>10. Conserved'
  <2> SUFFICES ASSUME NEW r \in Requests
               PROVE  Count(calls', Asked(r)) + Cardinality(Behind(r)') + Count(signals', AnswersTo(r))
                        + answers'[r] = (IF r \in posted' THEN 1 ELSE 0)
    BY DEF Conserved
  <2>1. /\ Cardinality(Behind(r)) \in Nat /\ answers[r] \in Nat
        /\ Count(signals, AnswersTo(r)) \in Nat
    BY <1>1, CountTypes DEF TypeOK
  <2>2. Count(calls, Asked(r)) + Cardinality(Behind(r)) + Count(signals, AnswersTo(r)) + answers[r]
          = (IF r \in posted THEN 1 ELSE 0)
    BY DEF AsyncInv, Conserved
  <2>3. Behind(r)' = Behind(r) /\ answers' = answers /\ posted' = posted
    BY <1>3, <1>9 DEF clientVars
  <2>4. /\ Count(calls', Asked(r)) \in Nat
        /\ Count(calls, Asked(r)) = Count(calls', Asked(r)) + (IF r = q THEN 1 ELSE 0)
        /\ Count(signals', AnswersTo(r)) =
             Count(signals, AnswersTo(r)) + (IF r = q THEN 1 ELSE 0)
    BY <1>2, <1>5, <1>6
  <2> QED
    BY <2>1, <2>2, <2>3, <2>4
<1> QED
  BY <1>7, <1>9, <1>10 DEF AsyncInv

(* Steps of the connection that end none. *)
LEMMA LinkStep ==
  ASSUME AsyncInv, BackendDispatchOnNull \/ ClientStateCallback \/ ChannelBreaks
  PROVE  AsyncInv'
<1>1. /\ UNCHANGED <<clientVars, calls, signals, serviceVars>>
      /\ uaclient' \in {"null", "open", "broken"} /\ (uaclient' = "null" => uaclient = "null")
      /\ watched' \in BOOLEAN /\ timer' \in BOOLEAN /\ undefined' \in BOOLEAN
  BY DEF BackendDispatchOnNull, ClientStateCallback, ChannelBreaks, AsyncInv, TypeOK, linkVars
<1>2. TypeOK'
  BY <1>1 DEF AsyncInv, TypeOK, clientVars, serviceVars
<1>3. \A r \in onConnection : Count(calls', Asked(r)) = 0
  BY <1>1, QueueShrinks
<1>4. /\ PagesAreBounded' /\ ContextsAreExact' /\ DispatchedOnce' /\ IdsAreUsedOnce'
      /\ \A r : Behind(r)' = Behind(r)
  BY <1>1, <1>3, ServiceSame DEF clientVars, serviceVars
<1>5. Conserved'
  BY <1>1, <1>4 DEF AsyncInv, Conserved, clientVars
<1> QED
  BY <1>2, <1>4, <1>5 DEF AsyncInv

-----------------------------------------------------------------------------
(* Request ids.                                                            *)

(* The ids do not run out. *)
LEMMA IdsSuffice ==
  ASSUME NEW n \in Nat, NEW f \in Injection(1..n, Uses)
  PROVE  n \in Ids \cup {0}
<1> DEFINE B == {r \in Requests : SlotOf[r] = BrowseSlot}
<1>1. IsFiniteSet(Requests) /\ IsFiniteSet(B) /\ Cardinality(Requests) \in Nat /\ Cardinality(B) \in Nat
  BY RequestsAssumption, FS_Subset, FS_CardinalityType
<1> HIDE DEF B
<1>2. IsFiniteSet(Requests \X {0}) /\ Cardinality(Requests \X {0}) = Cardinality(Requests)
  <2>1. IsFiniteSet({0}) /\ Cardinality({0}) = 1
    BY FS_Singleton
  <2> QED
    BY <1>1, <2>1, FS_Product
<1>3. IsFiniteSet(B \X (1..MaxPages)) /\ Cardinality(B \X (1..MaxPages)) = MaxPages * Cardinality(B)
  <2>1. IsFiniteSet(1..MaxPages) /\ Cardinality(1..MaxPages) = MaxPages
    BY BoundsAssumption, FS_Interval
  <2>2. IsFiniteSet(B \X (1..MaxPages))
        /\ Cardinality(B \X (1..MaxPages)) = Cardinality(B) * Cardinality(1..MaxPages)
    BY <1>1, <2>1, FS_Product
  <2> QED
    BY <1>1, <2>1, <2>2, BoundsAssumption
<1>4. Uses = (Requests \X {0}) \cup (B \X (1..MaxPages))
  BY DEF Uses, B
<1>5. IsFiniteSet(Uses) /\ Cardinality(Uses) \in Nat
      /\ Cardinality(Uses) <= Cardinality(Requests) + MaxPages * Cardinality(B)
  <2> DEFINE X == Requests \X {0}
             Y == B \X (1..MaxPages)
  <2>1. IsFiniteSet(X) /\ IsFiniteSet(Y) /\ Cardinality(X) = Cardinality(Requests)
        /\ Cardinality(Y) = MaxPages * Cardinality(B)
    BY <1>2, <1>3
  <2>2. Uses = X \cup Y
    BY <1>4
  <2> HIDE DEF X, Y
  <2>3. IsFiniteSet(Uses) /\ Cardinality(Uses) = Cardinality(X) + Cardinality(Y) - Cardinality(X \cap Y)
    BY <2>1, <2>2, FS_Union
  <2>4. Cardinality(X) \in Nat /\ Cardinality(Y) \in Nat /\ Cardinality(Uses) \in Nat
    BY <2>1, <2>3, FS_CardinalityType
  <2>5. Cardinality(X \cap Y) \in Nat
    BY <2>1, FS_Intersection, FS_CardinalityType
  <2> QED
    BY <2>1, <2>3, <2>4, <2>5
<1>6. Cardinality(1..n) <= Cardinality(Uses) /\ Cardinality(1..n) = n
  <2>1. IsFiniteSet(1..n) /\ Cardinality(1..n) = n
    BY FS_Interval
  <2>2. ExistsInjection(1..n, Uses)
    BY DEF ExistsInjection
  <2> QED
    BY <1>5, <2>1, <2>2, FS_Injection
<1>7. n <= Cardinality(Requests) + MaxPages * Cardinality(B)
      /\ Cardinality(Requests) + MaxPages * Cardinality(B) \in Nat
  <2>1. MaxPages * Cardinality(B) \in Nat
    BY <1>1, BoundsAssumption
  <2> QED
    BY <1>1, <1>5, <1>6, <2>1
<1> QED
  BY <1>7 DEF Ids, B

LEMMA UseExtended ==
  ASSUME NEW m \in Nat, NEW f \in Injection(1..m, Uses), NEW u \in Uses,
         \A k \in 1..m : f[k] # u
  PROVE  [k \in 1..(m + 1) |-> IF k = m + 1 THEN u ELSE f[k]] \in Injection(1..(m + 1), Uses)
<1> DEFINE g == [k \in 1..(m + 1) |-> IF k = m + 1 THEN u ELSE f[k]]
<1>1. f \in [1..m -> Uses] /\ \A a, b \in 1..m : f[a] = f[b] => a = b
  BY DEF Injection, IsInjective
<1>2. \A k \in 1..(m + 1) : k = m + 1 \/ k \in 1..m
  OBVIOUS
<1>3. g \in [1..(m + 1) -> Uses]
  BY <1>1, <1>2
<1>4. ASSUME NEW a \in 1..(m + 1), NEW b \in 1..(m + 1), g[a] = g[b] PROVE a = b
  BY <1>1, <1>2, <1>4
<1> QED
  BY <1>3, <1>4 DEF Injection, IsInjective

(* The context of an id that is called back. *)
LEMMA ContextFacts ==
  ASSUME AsyncInv, NEW i \in Ids, outstanding[i] # NoRequest
  PROVE  /\ outstanding[i] \in Requests /\ outstanding[i] \in onConnection /\ i <= lastId
         /\ TableOf(i) \in Tables /\ ContextOf(i) \in Contexts
         /\ ContextOf(i).req = outstanding[i] /\ ContextOf(i).pages \in 0..MaxPages
         /\ SlotOf[outstanding[i]].finished \in SignalNames
         /\ uaclient # "null"
<1>1. outstanding[i] \in Requests
  BY DEF AsyncInv, TypeOK
<1>2. outstanding[i] \in onConnection /\ i <= lastId /\ uaclient # "null"
  BY DEF AsyncInv, DispatchedOnce
<1>3. TableOf(i) \in Tables /\ SlotOf[outstanding[i]].finished \in SignalNames
  BY <1>1, SlotFacts DEF TableOf
<1>4. ContextOf(i) \in Contexts
  BY <1>3 DEF ContextOf, AsyncInv, TypeOK
<1>5. ContextOf(i).req = outstanding[i]
  BY <1>3 DEF ContextOf, AsyncInv, ContextsAreExact
<1>6. ContextOf(i).pages \in 0..(MaxPages + 1)
  BY <1>4 DEF Contexts
<1>7. ContextOf(i).pages <= MaxPages
  BY <1>3 DEF ContextOf, AsyncInv, PagesAreBounded
<1> QED
  BY <1>1, <1>2, <1>3, <1>4, <1>5, <1>6, <1>7, BoundsAssumption

LEMMA DispatchStep ==
  ASSUME AsyncInv, BackendDispatch
  PROVE  AsyncInv'
<1> DEFINE q == Head(calls).req
           n == lastId + 1
           c == [req |-> q, pages |-> 0]
           d == SlotOf[q].table
<1>1. /\ TypeOK /\ Runs("request") /\ uaclient # "null"
      /\ lastId' = n /\ outstanding' = [outstanding EXCEPT ![n] = q]
      /\ contexts' = [contexts EXCEPT ![d][n] = c]
      /\ onConnection' = onConnection \cup {q} /\ calls' = Tail(calls)
      /\ UNCHANGED <<clientVars, signals, linkVars, undefined>>
  BY DEF AsyncInv, BackendDispatch, CanSend, Store
<1>2. /\ calls # <<>> /\ q \in Requests /\ \A r : Head(calls) \in Asked(r) <=> r = q
  BY <1>1, RequestCall
<1>3. d \in Tables /\ c \in Contexts /\ c.req = q /\ c.pages = 0
  BY <1>2, SlotFacts, BoundsAssumption DEF Contexts
<1>4. lastId \in Nat /\ n \in Nat
  BY <1>1 DEF TypeOK, Ids
<1> HIDE DEF q, c, d
<1>5. /\ calls' \in Seq(Calls)
      /\ \A r : /\ Count(calls, Asked(r)) \in Nat /\ Count(calls', Asked(r)) \in Nat
                /\ Count(calls, Asked(r)) =
                     Count(calls', Asked(r)) + (IF Head(calls) \in Asked(r) THEN 1 ELSE 0)
  BY <1>1, <1>2, CallTaken
<1>6. /\ \A r \in Requests \ {q} : Count(calls', Asked(r)) = Count(calls, Asked(r))
      /\ Count(calls, Asked(q)) = Count(calls', Asked(q)) + 1
  BY <1>2, <1>5
<1>7. q \in posted /\ Count(calls', Asked(q)) = 0 /\ q \notin onConnection
  <2>1. Cardinality(Behind(q)) \in Nat /\ answers[q] \in Nat /\ Count(signals, AnswersTo(q)) \in Nat
    BY <1>1, <1>2, CountTypes DEF TypeOK
  <2>2. Count(calls, Asked(q)) + Cardinality(Behind(q)) + Count(signals, AnswersTo(q)) + answers[q]
          = (IF q \in posted THEN 1 ELSE 0)
    BY <1>2 DEF AsyncInv, Conserved
  <2>3. q \in posted /\ Count(calls', Asked(q)) = 0 /\ Count(calls, Asked(q)) # 0
    BY <1>5, <1>6, <2>1, <2>2, SMTT(30)
  <2> QED
    BY <2>3 DEF AsyncInv, DispatchedOnce
<1>8. PICK f \in Injection(1..lastId, Uses) : IsUse(f)
  BY DEF AsyncInv, IdsAreUsedOnce
<1>9. PICK g \in Injection(1..n, Uses) : g = [k \in 1..n |-> IF k = n THEN <<q, 0>> ELSE f[k]]
  <2>1. <<q, 0>> \in Uses
    BY <1>2 DEF Uses
  <2>2. \A k \in 1..lastId : f[k] # <<q, 0>>
    BY <1>7, <1>8 DEF IsUse
  <2> QED
    BY <1>4, <2>1, <2>2, UseExtended
<1>10. n \in Ids
  BY <1>4, <1>9, IdsSuffice
<1>11. outstanding[n] = NoRequest
  BY <1>4, <1>10 DEF AsyncInv, DispatchedOnce
<1> HIDE DEF n
<1>12. /\ outstanding' \in [Ids -> Requests \cup {NoRequest}]
       /\ \A i \in Ids : outstanding'[i] = IF i = n THEN q ELSE outstanding[i]
  BY <1>1, <1>2, <1>10 DEF TypeOK
<1>13. /\ contexts' \in [Tables -> [Ids \cup {0} -> Contexts]]
       /\ \A t \in Tables, i \in Ids : contexts'[t][i] = IF t = d /\ i = n THEN c ELSE contexts[t][i]
  BY <1>1, <1>3, <1>10 DEF TypeOK
<1>14. TypeOK'
  BY <1>1, <1>2, <1>5, <1>10, <1>12, <1>13 DEF TypeOK, clientVars, linkVars
<1>15. PagesAreBounded'
  BY <1>3, <1>13, BoundsAssumption DEF AsyncInv, PagesAreBounded
<1>16. ContextsAreExact'
  <2> SUFFICES ASSUME NEW t \in Tables, NEW i \in Ids
               PROVE  contexts'[t][i].req = (IF outstanding'[i] # NoRequest /\ SlotOf[outstanding'[i]].table = t
                                               THEN outstanding'[i] ELSE NoRequest)
    BY DEF ContextsAreExact, TableOf
  <2>1. contexts[t][i].req = (IF outstanding[i] # NoRequest /\ SlotOf[outstanding[i]].table = t
                                THEN outstanding[i] ELSE NoRequest)
    BY DEF AsyncInv, ContextsAreExact, TableOf
  <2>2. CASE i # n
    BY <1>12, <1>13, <2>1, <2>2
  <2>3. CASE i = n
    <3>1. outstanding'[i] = q /\ q # NoRequest /\ contexts[t][i].req = NoRequest
      BY <1>2, <1>11, <1>12, <2>1, <2>3, RequestsAssumption
    <3> QED
      BY <1>3, <1>13, <2>3, <3>1 DEF d
  <2> QED
    BY <2>2, <2>3
<1>17. DispatchedOnce'
  <2>1. \A r \in onConnection' : r \in posted' /\ Count(calls', Asked(r)) = 0
    BY <1>1, <1>6, <1>7 DEF AsyncInv, DispatchedOnce, TypeOK, clientVars
  <2>2. ASSUME NEW i \in Ids, outstanding'[i] # NoRequest
        PROVE  outstanding'[i] \in onConnection' /\ i <= lastId'
    <3>1. i \in Int
      BY DEF Ids
    <3>2. CASE i = n
      BY <1>1, <1>4, <1>12, <3>2
    <3>3. CASE i # n
      <4>1. outstanding[i] \in onConnection /\ i <= lastId /\ outstanding'[i] = outstanding[i]
        BY <1>12, <2>2, <3>3 DEF AsyncInv, DispatchedOnce
      <4> QED
        BY <1>1, <1>4, <3>1, <4>1 DEF n
    <3> QED
      BY <3>2, <3>3
  <2>3. uaclient' # "null"
    BY <1>1 DEF linkVars
  <2> QED
    BY <2>1, <2>2, <2>3 DEF DispatchedOnce
<1>18. IdsAreUsedOnce'
  <2>1. ASSUME NEW i \in 1..n
        PROVE  /\ g[i][1] \in onConnection'
               /\ \A j \in Ids : outstanding'[j] = g[i][1] => g[i][2] <= ContextOf(j)'.pages
    <3>1. CASE i = n
      <4>1. g[i][1] = q /\ g[i][2] = 0
        BY <1>9, <3>1
      <4>2. ASSUME NEW j \in Ids, outstanding'[j] = q PROVE ContextOf(j)'.pages \in Nat
        <5>1. ContextOf(j)' = contexts'[d][j]
          BY <4>2 DEF ContextOf, TableOf, d
        <5> QED
          BY <1>3, <1>13, <5>1 DEF Contexts
      <4> QED
        BY <1>1, <4>1, <4>2
    <3>2. CASE i # n
      <4>1. i \in 1..lastId /\ g[i] = f[i]
        BY <1>4, <1>9, <3>2 DEF n
      <4>2. f[i][1] \in onConnection /\ f[i][1] # q
        BY <1>7, <1>8, <4>1 DEF IsUse
      <4>3. ASSUME NEW j \in Ids, outstanding'[j] = f[i][1] PROVE f[i][2] <= ContextOf(j)'.pages
        <5>1. j # n /\ outstanding'[j] = outstanding[j]
          BY <1>12, <4>2, <4>3
        <5>2. f[i][2] <= ContextOf(j).pages
          BY <1>8, <4>1, <4>3, <5>1 DEF IsUse
        <5>3. SlotOf[outstanding[j]].table \in Tables
          BY <4>2, <4>3, <5>1, SlotFacts DEF AsyncInv, TypeOK
        <5>4. ContextOf(j)' = ContextOf(j)
          BY <1>13, <5>1, <5>3 DEF ContextOf, TableOf
        <5> QED
          BY <5>2, <5>4
      <4> QED
        BY <1>1, <4>1, <4>2, <4>3
    <3> QED
      BY <3>1, <3>2
  <2>2. IsUse(g)'
    BY <1>1, <1>9, <2>1 DEF IsUse
  <2> QED
    BY <1>1, <1>9, <2>2 DEF IdsAreUsedOnce
<1>19. Conserved'
  <2> SUFFICES ASSUME NEW r \in Requests
               PROVE  Count(calls', Asked(r)) + Cardinality(Behind(r)') + Count(signals', AnswersTo(r))
                        + answers'[r] = (IF r \in posted' THEN 1 ELSE 0)
    BY DEF Conserved
  <2>1. /\ Cardinality(Behind(r)) \in Nat /\ IsFiniteSet(Behind(r)) /\ answers[r] \in Nat
        /\ Count(signals, AnswersTo(r)) \in Nat
        /\ Count(calls, Asked(r)) \in Nat /\ Count(calls', Asked(r)) \in Nat
    BY <1>1, <1>5, CountTypes DEF TypeOK
  <2>2. Count(calls, Asked(r)) + Cardinality(Behind(r)) + Count(signals, AnswersTo(r)) + answers[r]
          = (IF r \in posted THEN 1 ELSE 0)
    BY DEF AsyncInv, Conserved
  <2>3. signals' = signals /\ answers' = answers /\ posted' = posted
    BY <1>1 DEF clientVars
  <2>4. n \notin Behind(r)
    BY <1>11, RequestsAssumption DEF Behind
  <2>5. Behind(r)' = IF r = q THEN Behind(r) \cup {n} ELSE Behind(r)
    BY <1>10, <1>12, <2>4 DEF Behind
  <2>6. Cardinality(Behind(r) \cup {n}) = Cardinality(Behind(r)) + 1
    BY <2>1, <2>4, FS_AddElement
  <2>7. CASE r = q
    BY <1>6, <2>1, <2>2, <2>3, <2>5, <2>6, <2>7
  <2>8. CASE r # q
    BY <1>6, <2>1, <2>2, <2>3, <2>5, <2>8
  <2> QED
    BY <2>7, <2>8
<1> QED
  BY <1>14, <1>15, <1>16, <1>17, <1>18, <1>19 DEF AsyncInv

-----------------------------------------------------------------------------
(* The callbacks.                                                          *)

(* A callback answers its request.  *)
LEMMA EmitStep ==
  ASSUME AsyncInv, NEW i \in Ids, outstanding[i] # NoRequest, NEW code \in {"Good", "Bad"},
         NEW pages \in 0..(MaxPages + 1), Emit(i, code, pages)
  PROVE  AsyncInv'
<1> DEFINE q == outstanding[i]
<1>1. /\ TypeOK /\ signals' = Append(signals, CallbackAnswer(i, code, pages))
      /\ outstanding' = [outstanding EXCEPT ![i] = NoRequest] /\ contexts' = Taken(i)
      /\ UNCHANGED <<clientVars, calls, linkVars, lastId, onConnection, undefined>>
  BY DEF AsyncInv, Emit
<1>2. /\ q \in Requests /\ TableOf(i) \in Tables /\ SlotOf[q].finished \in SignalNames
      /\ CallbackAnswer(i, code, pages) = Answer(SlotOf[q].finished, q, code, pages)
  BY ContextFacts DEF CallbackAnswer
<1>3. Behind(q) = {i}
  BY BehindOne
<1> HIDE DEF q
<1>4. /\ signals' \in Seq(Signals)
      /\ \A r \in Requests :
           /\ Count(signals', AnswersTo(r)) \in Nat
           /\ Count(signals', AnswersTo(r)) =
                Count(signals, AnswersTo(r)) + (IF r = q THEN 1 ELSE 0)
  BY <1>1, <1>2, AnswerQueued
<1>5. /\ outstanding' \in [Ids -> Requests \cup {NoRequest}]
      /\ \A j \in Ids : outstanding'[j] = IF j = i THEN NoRequest ELSE outstanding[j]
  BY <1>1 DEF TypeOK
<1>6. NoContext \in Contexts /\ NoContext.req = NoRequest /\ NoContext.pages = 0
  BY BoundsAssumption DEF NoContext, Contexts
<1>7. /\ contexts' \in [Tables -> [Ids \cup {0} -> Contexts]]
      /\ \A t \in Tables, j \in Ids :
           contexts'[t][j] = IF t = TableOf(i) /\ j = i THEN NoContext ELSE contexts[t][j]
  BY <1>1, <1>2, <1>6 DEF TypeOK, Taken
<1>8. TypeOK'
  BY <1>1, <1>4, <1>5, <1>7 DEF TypeOK, clientVars, linkVars
<1>9. PagesAreBounded'
  BY <1>6, <1>7, BoundsAssumption DEF AsyncInv, PagesAreBounded
<1>10. ContextsAreExact'
  <2> SUFFICES ASSUME NEW t \in Tables, NEW j \in Ids
               PROVE  contexts'[t][j].req = (IF outstanding'[j] # NoRequest /\ SlotOf[outstanding'[j]].table = t
                                               THEN outstanding'[j] ELSE NoRequest)
    BY DEF ContextsAreExact, TableOf
  <2>1. contexts[t][j].req = (IF outstanding[j] # NoRequest /\ SlotOf[outstanding[j]].table = t
                                THEN outstanding[j] ELSE NoRequest)
    BY DEF AsyncInv, ContextsAreExact, TableOf
  <2> QED
    BY <1>5, <1>6, <1>7, <2>1 DEF TableOf
<1>11. DispatchedOnce'
  BY <1>1, <1>5 DEF AsyncInv, DispatchedOnce, clientVars, linkVars
<1>12. IdsAreUsedOnce'
  <2>1. PICK f \in Injection(1..lastId, Uses) : IsUse(f)
    BY DEF AsyncInv, IdsAreUsedOnce
  <2>2. ASSUME NEW k \in 1..lastId, NEW j \in Ids, outstanding'[j] = f[k][1]
        PROVE  f[k][2] <= ContextOf(j)'.pages
    <3>1. f[k][1] \in Requests
      BY <2>1 DEF IsUse, AsyncInv, TypeOK
    <3>2. j # i /\ outstanding'[j] = outstanding[j]
      BY <1>5, <2>2, <3>1, RequestsAssumption
    <3>3. SlotOf[outstanding[j]].table \in Tables
      BY <2>2, <3>1, <3>2, SlotFacts
    <3>4. ContextOf(j)' = ContextOf(j)
      BY <1>7, <3>2, <3>3 DEF ContextOf, TableOf
    <3> QED
      BY <2>1, <2>2, <3>2, <3>4 DEF IsUse
  <2>3. IsUse(f)'
    BY <1>1, <2>1, <2>2 DEF IsUse
  <2> QED
    BY <1>1, <2>1, <2>3 DEF IdsAreUsedOnce
<1>13. Conserved'
  <2> SUFFICES ASSUME NEW r \in Requests
               PROVE  Count(calls', Asked(r)) + Cardinality(Behind(r)') + Count(signals', AnswersTo(r))
                        + answers'[r] = (IF r \in posted' THEN 1 ELSE 0)
    BY DEF Conserved
  <2>1. /\ Cardinality(Behind(r)) \in Nat /\ answers[r] \in Nat
        /\ Count(signals, AnswersTo(r)) \in Nat /\ Count(calls, Asked(r)) \in Nat
    BY <1>1, CountTypes DEF TypeOK
  <2>2. Count(calls, Asked(r)) + Cardinality(Behind(r)) + Count(signals, AnswersTo(r)) + answers[r]
          = (IF r \in posted THEN 1 ELSE 0)
    BY DEF AsyncInv, Conserved
  <2>3. calls' = calls /\ answers' = answers /\ posted' = posted
    BY <1>1 DEF clientVars
  <2>4. Cardinality({}) = 0 /\ Cardinality({i}) = 1
    BY FS_EmptySet, FS_Singleton
  <2>5. CASE r = q
    <3>1. Behind(r)' = {}
      BY <1>2, <1>3, <1>5, <2>5, RequestsAssumption DEF Behind
    <3>2. Count(signals', AnswersTo(r)) = Count(signals, AnswersTo(r)) + 1
      BY <1>4, <2>5
    <3> QED
      BY <1>3, <2>1, <2>2, <2>3, <2>4, <2>5, <3>1, <3>2
  <2>6. CASE r # q
    <3>1. Behind(r)' = Behind(r)
      BY <1>2, <1>5, <2>6, RequestsAssumption DEF Behind, q
    <3>2. Count(signals', AnswersTo(r)) = Count(signals, AnswersTo(r))
      BY <1>4, <2>1, <2>6
    <3> QED
      BY <2>2, <2>3, <3>1, <3>2
  <2> QED
    BY <2>5, <2>6
<1> QED
  BY <1>8, <1>9, <1>10, <1>11, <1>12, <1>13 DEF AsyncInv

LEMMA BrowseNextStep ==
  ASSUME AsyncInv, NEW i \in Ids, AsyncBrowseNext(i)
  PROVE  AsyncInv'
<1> DEFINE q == outstanding[i]
           p == ContextOf(i).pages
           n == lastId + 1
           c == [req |-> q, pages |-> p + 1]
<1>1. /\ TypeOK /\ q # NoRequest /\ uaclient = "open" /\ SlotOf[q] = BrowseSlot /\ p < MaxPages
      /\ lastId' = n /\ outstanding' = [outstanding EXCEPT ![i] = NoRequest, ![n] = q]
      /\ contexts' = [Taken(i) EXCEPT !["browse"][n] = [req |-> ContextOf(i).req, pages |-> p + 1]]
      /\ UNCHANGED <<clientVars, calls, signals, linkVars, onConnection, undefined>>
  BY DEF AsyncInv, AsyncBrowseNext, Answered, Outstanding, IsBrowse
<1>2. /\ q \in Requests /\ q \in onConnection /\ i <= lastId /\ TableOf(i) \in Tables
      /\ ContextOf(i).req = q /\ p \in 0..MaxPages
  BY <1>1, ContextFacts
<1>3. TableOf(i) = "browse" /\ SlotOf[q].table = "browse"
  BY <1>1, <1>2, SlotFacts DEF TableOf
<1>4. Behind(q) = {i}
  BY <1>1, BehindOne
<1>5. lastId \in Nat /\ n \in Nat /\ i \in Nat /\ p \in Nat /\ i # n
  BY <1>1, <1>2, BoundsAssumption DEF TypeOK, Ids
<1>6. c \in Contexts /\ c.req = q /\ c.pages = p + 1
  BY <1>1, <1>2, <1>5, BoundsAssumption DEF Contexts
<1>7. contexts' = [[contexts EXCEPT !["browse"][i] = NoContext] EXCEPT !["browse"][n] = c]
  BY <1>1, <1>2, <1>3 DEF Taken
<1> HIDE DEF q, p, c
<1>8. PICK f \in Injection(1..lastId, Uses) : IsUse(f)
  BY DEF AsyncInv, IdsAreUsedOnce
<1>9. PICK g \in Injection(1..n, Uses) :
        g = [k \in 1..n |-> IF k = n THEN <<q, p + 1>> ELSE f[k]]
  <2>1. <<q, p + 1>> \in Uses
    BY <1>1, <1>2, <1>5, BoundsAssumption DEF Uses
  <2>2. ASSUME NEW k \in 1..lastId, f[k] = <<q, p + 1>> PROVE FALSE
    <3>1. p + 1 <= p
      BY <1>8, <2>2 DEF IsUse, q, p
    <3> QED
      BY <1>5, <3>1
  <2> QED
    BY <1>5, <2>1, <2>2, UseExtended
<1>10. n \in Ids
  BY <1>5, <1>9, IdsSuffice
<1>11. outstanding[n] = NoRequest
  BY <1>5, <1>10 DEF AsyncInv, DispatchedOnce
<1> HIDE DEF n
<1>12. /\ outstanding' \in [Ids -> Requests \cup {NoRequest}]
       /\ \A j \in Ids : outstanding'[j] = IF j = n THEN q ELSE IF j = i THEN NoRequest ELSE outstanding[j]
  BY <1>1, <1>2, <1>10 DEF TypeOK
<1>13. NoContext \in Contexts /\ NoContext.req = NoRequest /\ NoContext.pages = 0
  BY BoundsAssumption DEF NoContext, Contexts
<1>14. /\ contexts' \in [Tables -> [Ids \cup {0} -> Contexts]]
       /\ \A t \in Tables, j \in Ids :
            contexts'[t][j] = IF t = "browse" /\ j = n THEN c
                              ELSE IF t = "browse" /\ j = i THEN NoContext ELSE contexts[t][j]
  <2> DEFINE e == [contexts EXCEPT !["browse"][i] = NoContext]
  <2>1. contexts \in [Tables -> [Ids \cup {0} -> Contexts]] /\ "browse" \in Tables
    BY <1>1, <1>2, <1>3 DEF TypeOK
  <2>2. /\ e \in [Tables -> [Ids \cup {0} -> Contexts]]
        /\ \A t \in Tables, j \in Ids :
             e[t][j] = IF t = "browse" /\ j = i THEN NoContext ELSE contexts[t][j]
    BY <1>13, <2>1
  <2>3. contexts' = [e EXCEPT !["browse"][n] = c]
    BY <1>7
  <2> HIDE DEF e
  <2>4. contexts' \in [Tables -> [Ids \cup {0} -> Contexts]]
    BY <1>6, <1>10, <2>1, <2>2, <2>3
  <2>5. \A t \in Tables, j \in Ids : contexts'[t][j] = IF t = "browse" /\ j = n THEN c ELSE e[t][j]
    BY <1>10, <2>1, <2>2, <2>3
  <2> QED
    BY <2>2, <2>4, <2>5, ZenonT(60)
<1>15. TypeOK'
  BY <1>1, <1>2, <1>10, <1>12, <1>14 DEF TypeOK, clientVars, linkVars
<1>16. PagesAreBounded'
  <2>1. p + 1 <= MaxPages /\ 0 <= MaxPages
    BY <1>1, <1>5, BoundsAssumption
  <2> QED
    BY <1>6, <1>13, <1>14, <2>1 DEF AsyncInv, PagesAreBounded
<1>17. ContextsAreExact'
  <2> SUFFICES ASSUME NEW t \in Tables, NEW j \in Ids
               PROVE  contexts'[t][j].req = (IF outstanding'[j] # NoRequest /\ SlotOf[outstanding'[j]].table = t
                                               THEN outstanding'[j] ELSE NoRequest)
    BY DEF ContextsAreExact, TableOf
  <2>1. contexts[t][j].req = (IF outstanding[j] # NoRequest /\ SlotOf[outstanding[j]].table = t
                                THEN outstanding[j] ELSE NoRequest)
    BY DEF AsyncInv, ContextsAreExact, TableOf
  <2>2. CASE j = n
    <3>1. outstanding'[j] = q /\ q # NoRequest /\ contexts[t][j].req = NoRequest
      BY <1>1, <1>11, <1>12, <2>1, <2>2
    <3> QED
      BY <1>3, <1>5, <1>6, <1>14, <2>2, <3>1
  <2>3. CASE j # n /\ j = i
    <3>1. outstanding'[j] = NoRequest
      BY <1>12, <2>3
    <3>2. t # "browse" => contexts[t][j].req = NoRequest
      BY <1>3, <2>1, <2>3 DEF q
    <3> QED
      BY <1>13, <1>14, <2>3, <3>1, <3>2
  <2>4. CASE j # n /\ j # i
    BY <1>12, <1>14, <2>1, <2>4
  <2> QED
    BY <2>2, <2>3, <2>4
<1>18. DispatchedOnce'
  <2>1. \A r \in onConnection' : r \in posted' /\ Count(calls', Asked(r)) = 0
    BY <1>1 DEF AsyncInv, DispatchedOnce, clientVars
  <2>2. ASSUME NEW j \in Ids, outstanding'[j] # NoRequest
        PROVE  outstanding'[j] \in onConnection' /\ j <= lastId'
    <3>1. j \in Int
      BY DEF Ids
    <3>2. CASE j = n
      BY <1>1, <1>2, <1>5, <1>12, <3>2
    <3>3. CASE j # n
      <4>1. outstanding[j] \in onConnection /\ j <= lastId /\ outstanding'[j] = outstanding[j]
        BY <1>12, <2>2, <3>3 DEF AsyncInv, DispatchedOnce
      <4> QED
        BY <1>1, <1>5, <3>1, <4>1 DEF n
    <3> QED
      BY <3>2, <3>3
  <2>3. uaclient' # "null"
    BY <1>1 DEF linkVars
  <2> QED
    BY <2>1, <2>2, <2>3 DEF DispatchedOnce
<1>19. IdsAreUsedOnce'
  <2>1. ASSUME NEW j \in Ids, outstanding'[j] = q PROVE ContextOf(j)'.pages = p + 1
    <3>1. j = n
      BY <1>1, <1>4, <1>12, <2>1 DEF Behind
    <3>2. "browse" \in Tables /\ ContextOf(j)' = contexts'["browse"][j]
      BY <1>2, <1>3, <2>1 DEF ContextOf, TableOf
    <3> QED
      BY <1>6, <1>14, <3>1, <3>2
  <2>2. ASSUME NEW k \in 1..n
        PROVE  /\ g[k][1] \in onConnection'
               /\ \A j \in Ids : outstanding'[j] = g[k][1] => g[k][2] <= ContextOf(j)'.pages
    <3>1. CASE k = n
      <4>1. g[k][1] = q /\ g[k][2] = p + 1
        BY <1>9, <3>1
      <4>2. p + 1 <= p + 1
        BY <1>5
      <4> QED
        BY <1>1, <1>2, <2>1, <4>1, <4>2, Zenon
    <3>2. CASE k # n
      <4>1. k \in 1..lastId /\ g[k] = f[k]
        BY <1>5, <1>9, <3>2 DEF n
      <4>2. f[k][1] \in onConnection /\ f[k][1] \in Requests
        BY <1>8, <4>1 DEF IsUse, AsyncInv, TypeOK
      <4>3. ASSUME NEW j \in Ids, outstanding'[j] = f[k][1] PROVE f[k][2] <= ContextOf(j)'.pages
        <5>1. CASE f[k][1] = q
          <6>1. f[k][2] <= p
            BY <1>8, <4>1, <5>1 DEF IsUse, p, q
          <6>2. ContextOf(j)'.pages = p + 1
            BY <2>1, <4>3, <5>1
          <6>3. f[k][2] \in Nat
            BY <1>8, <4>1, BoundsAssumption DEF Injection, Uses
          <6> QED
            BY <1>5, <6>1, <6>2, <6>3
        <5>2. CASE f[k][1] # q
          <6>1. j # n /\ j # i /\ outstanding'[j] = outstanding[j]
            BY <1>12, <4>2, <4>3, <5>2, RequestsAssumption
          <6>2. f[k][2] <= ContextOf(j).pages
            BY <1>8, <4>1, <4>3, <6>1 DEF IsUse
          <6>3. SlotOf[outstanding[j]].table \in Tables
            BY <4>2, <4>3, <6>1, SlotFacts
          <6>4. ContextOf(j)' = ContextOf(j)
            BY <1>14, <6>1, <6>3 DEF ContextOf, TableOf
          <6> QED
            BY <6>2, <6>4
        <5> QED
          BY <5>1, <5>2
      <4> QED
        BY <1>1, <4>1, <4>2, <4>3
    <3> QED
      BY <3>1, <3>2
  <2>3. IsUse(g)'
    BY <1>1, <1>9, <2>2 DEF IsUse
  <2> QED
    BY <1>1, <1>9, <2>3 DEF IdsAreUsedOnce
<1>20. Conserved'
  <2> SUFFICES ASSUME NEW r \in Requests
               PROVE  Count(calls', Asked(r)) + Cardinality(Behind(r)') + Count(signals', AnswersTo(r))
                        + answers'[r] = (IF r \in posted' THEN 1 ELSE 0)
    BY DEF Conserved
  <2>1. Count(calls, Asked(r)) + Cardinality(Behind(r)) + Count(signals, AnswersTo(r)) + answers[r]
          = (IF r \in posted THEN 1 ELSE 0)
    BY DEF AsyncInv, Conserved
  <2>2. calls' = calls /\ signals' = signals /\ answers' = answers /\ posted' = posted
    BY <1>1 DEF clientVars
  <2>3. Cardinality(Behind(r)') = Cardinality(Behind(r))
    <3>1. CASE r = q
      <4>1. Behind(r)' = {n}
        BY <1>1, <1>4, <1>10, <1>12, <3>1 DEF Behind
      <4> QED
        BY <1>4, <3>1, <4>1, FS_Singleton
    <3>2. CASE r # q
      <4>1. Behind(r)' = Behind(r)
        BY <1>11, <1>12, <3>2, RequestsAssumption DEF Behind, q
      <4> QED
        BY <4>1
    <3> QED
      BY <3>1, <3>2
  <2> QED
    BY <2>1, <2>2, <2>3
<1> QED
  BY <1>15, <1>16, <1>17, <1>18, <1>19, <1>20 DEF AsyncInv

LEMMA CallbackStep ==
  ASSUME AsyncInv, NEW i \in Ids, Callback(i)
  PROVE  AsyncInv'
<1>1. outstanding[i] # NoRequest
  BY DEF Callback, AsyncCallback, AsyncBrowseLast, AsyncBrowseFails, AsyncBrowseResultBad,
         AsyncBrowseNext, AsyncBrowseNextRefused, RequestTimeout, Answered, Outstanding
<1>2. /\ ContextOf(i).pages \in 0..(MaxPages + 1) /\ ContextOf(i).pages + 1 \in 0..(MaxPages + 1)
      /\ 0 \in 0..(MaxPages + 1)
  <2>1. ContextOf(i).pages \in 0..MaxPages
    BY <1>1, ContextFacts
  <2> QED
    BY <2>1, BoundsAssumption
<1>3. CASE AsyncBrowseNext(i)
  BY <1>3, BrowseNextStep
<1>4. CASE ~AsyncBrowseNext(i)
  <2>1. \E code \in {"Good", "Bad"}, pages \in 0..(MaxPages + 1) : Emit(i, code, pages)
    BY <1>2, <1>4 DEF Callback, AsyncCallback, AsyncBrowseLast, AsyncBrowseFails, AsyncBrowseResultBad,
         AsyncBrowseNextRefused, RequestTimeout
  <2> QED
    BY <1>1, <2>1, EmitStep
<1> QED
  BY <1>3, <1>4

-----------------------------------------------------------------------------
(* The end of a connection.                                                *)

(* SetToSeq lists a finite set: every element of it once. *)
LEMMA SetToSeqLists ==
  ASSUME NEW S, IsFiniteSet(S)
  PROVE  /\ SetToSeq(S) \in Seq(S)
         /\ \A j, k \in DOMAIN SetToSeq(S) : SetToSeq(S)[j] = SetToSeq(S)[k] => j = k
         /\ \A x \in S : \E k \in DOMAIN SetToSeq(S) : SetToSeq(S)[k] = x
<1> DEFINE n == Cardinality(S)
<1>1. n \in Nat /\ ExistsBijection(1..n, S)
  BY FS_CardinalityType
<1>2. \E f \in [1..n -> S] : IsInjective(f)
  BY <1>1 DEF ExistsBijection, Bijection, Injection
<1>3. SetToSeq(S) \in [1..n -> S] /\ IsInjective(SetToSeq(S))
  BY <1>2 DEF SetToSeq
<1>4. SetToSeq(S) \in Injection(1..n, S)
  BY <1>3 DEF Injection
<1>5. Cardinality(1..n) = n
  BY <1>1, FS_Interval
<1>6. SetToSeq(S) \in Surjection(1..n, S)
  BY <1>4, <1>5, FS_Injection
<1>7. \A x \in S : \E k \in 1..n : SetToSeq(S)[k] = x
  BY <1>6 DEF Surjection
<1>8. SetToSeq(S) \in Seq(S) /\ DOMAIN SetToSeq(S) = 1..n
  BY <1>1, <1>3
<1> QED
  BY <1>3, <1>7, <1>8 DEF IsInjective

(* Closing answers each request as often as open62541 still has it. *)
LEMMA ClosingAnswersCount ==
  ASSUME AsyncInv
  PROVE  /\ ClosingAnswers \in Seq(Signals)
         /\ \A k \in DOMAIN ClosingAnswers : ClosingAnswers[k].name # "stateAndOrErrorChanged"
         /\ \A r \in Requests : Count(ClosingAnswers, AnswersTo(r)) = Cardinality(Behind(r))
<1> DEFINE D == {i \in Ids : outstanding[i] # NoRequest}
           order == SetToSeq(D)
<1>1. TypeOK /\ IsFiniteSet(D)
  BY CountTypes, FS_Subset DEF AsyncInv
<1> HIDE DEF D
<1>2. /\ order \in Seq(D)
      /\ \A j, k \in DOMAIN order : order[j] = order[k] => j = k
      /\ \A x \in D : \E k \in DOMAIN order : order[k] = x
  BY <1>1, SetToSeqLists
<1>3. ClosingAnswers = [k \in DOMAIN order |-> CallbackAnswer(order[k], "Bad", 0)]
  BY DEF ClosingAnswers, D
<1> HIDE DEF order
<1>4. ASSUME NEW i \in D
      PROVE  /\ CallbackAnswer(i, "Bad", 0) \in Signals
             /\ CallbackAnswer(i, "Bad", 0).name # "stateAndOrErrorChanged"
             /\ \A r \in Requests : CallbackAnswer(i, "Bad", 0) \in AnswersTo(r) <=> outstanding[i] = r
  <2>1. i \in Ids /\ outstanding[i] # NoRequest /\ 0 \in 0..(MaxPages + 1)
    BY BoundsAssumption DEF D
  <2>2. /\ outstanding[i] \in Requests /\ ContextOf(i).req = outstanding[i]
        /\ SlotOf[outstanding[i]].finished \in SignalNames
    BY <2>1, ContextFacts
  <2>3. CallbackAnswer(i, "Bad", 0) =
          Answer(SlotOf[outstanding[i]].finished, outstanding[i], "Bad", 0)
    BY <2>2 DEF CallbackAnswer
  <2> QED
    BY <2>1, <2>2, <2>3, AnswerCounts
<1>5. \A k \in DOMAIN order : order[k] \in D
  BY <1>2
<1>6. /\ ClosingAnswers \in Seq(Signals) /\ DOMAIN ClosingAnswers = DOMAIN order
      /\ \A k \in DOMAIN order : ClosingAnswers[k] = CallbackAnswer(order[k], "Bad", 0)
  <2>1. Len(order) \in Nat /\ DOMAIN order = 1..Len(order)
    BY <1>2
  <2> QED
    BY <1>3, <1>4, <1>5, <2>1
<1>7. ASSUME NEW r \in Requests
      PROVE  Count(ClosingAnswers, AnswersTo(r)) = Cardinality(Behind(r))
  <2> DEFINE P == {k \in DOMAIN ClosingAnswers : ClosingAnswers[k] \in AnswersTo(r)}
             h == [k \in P |-> order[k]]
  <2>1. IsFiniteSet(P)
    BY <1>6, Positions
  <2>2. P = {k \in DOMAIN order : outstanding[order[k]] = r}
    BY <1>4, <1>5, <1>6
  <2>3. Behind(r) = {i \in D : outstanding[i] = r}
    BY RequestsAssumption DEF Behind, D
  <2>4. h \in [P -> Behind(r)]
    BY <1>5, <2>2, <2>3
  <2>5. \A j, k \in P : h[j] = h[k] => j = k
    BY <1>2, <2>2
  <2>6. \A i \in Behind(r) : \E k \in P : h[k] = i
    BY <1>2, <2>2, <2>3
  <2>7. h \in Bijection(P, Behind(r))
    BY <2>4, <2>5, <2>6 DEF Bijection, Injection, Surjection, IsInjective
  <2>8. ExistsBijection(P, Behind(r))
    BY <2>7 DEF ExistsBijection
  <2> HIDE DEF P
  <2>9. Cardinality(Behind(r)) = Cardinality(P)
    BY <2>1, <2>8, FS_Bijection
  <2> QED
    BY <2>9 DEF Count, P
<1> QED
  BY <1>4, <1>5, <1>6, <1>7

(* ... and so do the signals of the close: without a client open62541 has  *)
(* nothing.                                                                *)
LEMMA ClosingSignalsCount ==
  ASSUME AsyncInv
  PROVE  /\ ClosingSignals \in Seq(Signals)
         /\ \A r \in Requests : Count(ClosingSignals, AnswersTo(r)) = Cardinality(Behind(r))
<1>1. TypeOK
  BY DEF AsyncInv
<1>2. CASE uaclient = "null"
  <2>1. ClosingSignals = <<>>
    BY <1>2 DEF ClosingSignals
  <2>2. \A r \in Requests : Behind(r) = {}
    BY <1>2, RequestsAssumption DEF AsyncInv, DispatchedOnce, Behind
  <2>3. \A S : Count(<<>>, S) = 0
    BY FS_EmptySet DEF Count
  <2> QED
    BY <2>1, <2>2, <2>3, FS_EmptySet
<1>3. CASE uaclient # "null"
  <2> DEFINE last == State(FALSE, onConnection)
             many == ClosingAnswers
  <2>1. ClosingSignals = many \o <<last>>
    BY <1>3 DEF ClosingSignals
  <2>2. last \in Signals /\ \A r : last \notin AnswersTo(r)
    BY <1>1, StateCounts DEF TypeOK
  <2>3. many \in Seq(Signals) /\ \A r \in Requests : Count(many, AnswersTo(r)) = Cardinality(Behind(r))
    BY ClosingAnswersCount
  <2> HIDE DEF last, many
  <2>4. Append(many, last) \in Seq(Signals) /\ Append(many, last) = many \o <<last>>
    BY <2>2, <2>3
  <2>5. ASSUME NEW r \in Requests
        PROVE  Count(Append(many, last), AnswersTo(r)) = Cardinality(Behind(r))
    <3>1. Count(Append(many, last), AnswersTo(r)) =
            Count(many, AnswersTo(r)) + (IF last \in AnswersTo(r) THEN 1 ELSE 0)
      BY <2>2, <2>3, CountAppend
    <3>2. Cardinality(Behind(r)) \in Nat
      BY <1>1, CountTypes
    <3> QED
      BY <2>2, <2>3, <3>1, <3>2
  <2> QED
    BY <2>1, <2>4, <2>5
<1> QED
  BY <1>2, <1>3

(* A step that ends the connection. *)
LEMMA CloseStep ==
  ASSUME AsyncInv, Close, NEW extra \in Seq(Signals),
         \A r \in Requests : Count(extra, AnswersTo(r)) = 0,
         signals' = (signals \o ClosingSignals) \o extra,
         calls' \in Seq(Calls), \A r \in Requests : Count(calls', Asked(r)) = Count(calls, Asked(r)),
         UNCHANGED <<clientVars, undefined>>,
         uaclient' \in {"null", "open", "broken"}, watched' \in BOOLEAN, timer' \in BOOLEAN
  PROVE  AsyncInv'
<1>1. /\ TypeOK /\ outstanding' = [i \in Ids |-> NoRequest] /\ lastId' = 0 /\ onConnection' = {}
      /\ contexts' = [t \in Tables |-> [i \in Ids \cup {0} |->
                        IF i # 0 /\ outstanding[i] # NoRequest /\ TableOf(i) = t
                          THEN NoContext ELSE contexts[t][i]]]
  BY DEF AsyncInv, Close
<1>2. NoContext \in Contexts /\ NoContext.req = NoRequest /\ NoContext.pages = 0 /\ 0 \notin Ids
  BY BoundsAssumption DEF NoContext, Contexts, Ids
<1>3. signals \in Seq(Signals) /\ signals' \in Seq(Signals)
  BY <1>1, ClosingSignalsCount DEF TypeOK
<1>4. TypeOK'
  <2>1. contexts' \in [Tables -> [Ids \cup {0} -> Contexts]]
    BY <1>1, <1>2 DEF TypeOK
  <2> QED
    BY <1>1, <1>3, <2>1 DEF TypeOK, clientVars
<1>5. \A t \in Tables, i \in Ids :
        contexts'[t][i] = IF outstanding[i] # NoRequest /\ TableOf(i) = t THEN NoContext ELSE contexts[t][i]
  BY <1>1, <1>2
<1>6. PagesAreBounded'
  BY <1>2, <1>5, BoundsAssumption DEF AsyncInv, PagesAreBounded
<1>7. ContextsAreExact'
  <2>1. \A i \in Ids : outstanding'[i] = NoRequest
    BY <1>1
  <2>2. \A t \in Tables, i \in Ids : contexts'[t][i].req = NoRequest
    BY <1>2, <1>5 DEF AsyncInv, ContextsAreExact
  <2> QED
    BY <2>1, <2>2 DEF ContextsAreExact
<1>8. DispatchedOnce'
  BY <1>1 DEF DispatchedOnce
<1>9. IdsAreUsedOnce'
  <2>1. 1..0 = {}
    OBVIOUS
  <2>2. PICK f : f = [i \in {} |-> 0]
    OBVIOUS
  <2>3. f \in Injection({}, Uses)
    BY <2>2 DEF Injection, IsInjective
  <2>4. 1..lastId' = {}
    BY <1>1, <2>1
  <2>5. IsUse(f)'
    BY <2>3, <2>4 DEF IsUse
  <2> QED
    BY <2>3, <2>4, <2>5 DEF IdsAreUsedOnce
<1>10. Conserved'
  <2> SUFFICES ASSUME NEW r \in Requests
               PROVE  Count(calls', Asked(r)) + Cardinality(Behind(r)') + Count(signals', AnswersTo(r))
                        + answers'[r] = (IF r \in posted' THEN 1 ELSE 0)
    BY DEF Conserved
  <2>1. /\ Cardinality(Behind(r)) \in Nat /\ answers[r] \in Nat
        /\ Count(signals, AnswersTo(r)) \in Nat /\ Count(calls, Asked(r)) \in Nat
    BY <1>1, CountTypes DEF TypeOK
  <2>2. Count(calls, Asked(r)) + Cardinality(Behind(r)) + Count(signals, AnswersTo(r)) + answers[r]
          = (IF r \in posted THEN 1 ELSE 0)
    BY DEF AsyncInv, Conserved
  <2>3. ClosingSignals \in Seq(Signals) /\ Count(ClosingSignals, AnswersTo(r)) = Cardinality(Behind(r))
    BY ClosingSignalsCount
  <2>4. Count(signals \o ClosingSignals, AnswersTo(r)) =
          Count(signals, AnswersTo(r)) + Count(ClosingSignals, AnswersTo(r))
    BY <1>3, <2>3, CountConcat
  <2>5. signals \o ClosingSignals \in Seq(Signals)
    BY <1>3, <2>3
  <2>6. Count(signals', AnswersTo(r)) =
          Count(signals \o ClosingSignals, AnswersTo(r)) + Count(extra, AnswersTo(r))
    BY <2>5, CountConcat, ZenonT(60)
  <2>7. Behind(r)' = {} /\ Cardinality({}) = 0
    BY <1>1, RequestsAssumption, FS_EmptySet DEF Behind
  <2>8. Count(extra, AnswersTo(r)) = 0 /\ Count(calls', Asked(r)) = Count(calls, Asked(r))
        /\ answers' = answers /\ posted' = posted
    BY DEF clientVars
  <2>9. Cardinality(Behind(r)') = 0 /\ Count(signals', AnswersTo(r)) =
          Count(signals, AnswersTo(r)) + Cardinality(Behind(r))
    BY <2>1, <2>3, <2>4, <2>6, <2>7, <2>8
  <2> QED
    BY <2>1, <2>2, <2>8, <2>9
<1> QED
  BY <1>4, <1>6, <1>7, <1>8, <1>9, <1>10 DEF AsyncInv

(* What each of the three steps that end a connection adds to the signals. *)
LEMMA ClosingStep ==
  ASSUME AsyncInv, BackendDisconnect \/ DisconnectTimeout \/ (\E succeeds \in BOOLEAN : BackendConnect(succeeds))
  PROVE  \E extra \in Seq(Signals) :
           /\ \A k \in DOMAIN extra : \E c \in BOOLEAN : extra[k] = State(c, {})
           /\ \A r \in Requests : Count(extra, AnswersTo(r)) = 0
           /\ signals' = (signals \o ClosingSignals) \o extra
           /\ calls' \in Seq(Calls) /\ \A r \in Requests : Count(calls', Asked(r)) = Count(calls, Asked(r))
           /\ Close /\ UNCHANGED <<clientVars, undefined>>
           /\ uaclient' \in {"null", "open", "broken"} /\ watched' \in BOOLEAN /\ timer' \in BOOLEAN
<1>1. TypeOK
  BY DEF AsyncInv
<1>2. signals \o ClosingSignals \in Seq(Signals)
  BY <1>1, ClosingSignalsCount DEF TypeOK
<1>3. /\ <<>> \in Seq(Signals) /\ \A r \in Requests : Count(<<>>, AnswersTo(r)) = 0
      /\ \A k \in DOMAIN <<>> : \E c \in BOOLEAN : <<>>[k] = State(c, {})
      /\ signals \o ClosingSignals = (signals \o ClosingSignals) \o <<>>
  BY <1>2, FS_EmptySet DEF Count
<1>4. ASSUME NEW slot, slot # "request", Runs(slot), calls' = Tail(calls)
      PROVE  calls' \in Seq(Calls) /\ \A r \in Requests : Count(calls', Asked(r)) = Count(calls, Asked(r))
  <2>1. calls # <<>> /\ \A r : Head(calls) \notin Asked(r)
    BY <1>1, <1>4, OtherCall
  <2>2. /\ calls' \in Seq(Calls)
        /\ \A r : /\ Count(calls, Asked(r)) \in Nat /\ Count(calls', Asked(r)) \in Nat
                  /\ Count(calls, Asked(r)) =
                       Count(calls', Asked(r)) + (IF Head(calls) \in Asked(r) THEN 1 ELSE 0)
    BY <1>1, <1>4, <2>1, CallTaken
  <2> QED
    BY <2>1, <2>2
<1>5. CASE BackendDisconnect
  <2>1. /\ Runs("disconnectFromEndpoint") /\ calls' = Tail(calls) /\ signals' = signals \o ClosingSignals
        /\ Close /\ UNCHANGED <<clientVars, undefined>>
        /\ uaclient' \in {"null", "open", "broken"} /\ watched' \in BOOLEAN /\ timer' \in BOOLEAN
    BY <1>1, <1>5 DEF BackendDisconnect, TypeOK
  <2>2. calls' \in Seq(Calls) /\ \A r \in Requests : Count(calls', Asked(r)) = Count(calls, Asked(r))
    BY <1>4, <2>1
  <2> WITNESS <<>> \in Seq(Signals)
  <2> QED
    BY <1>3, <2>1, <2>2
<1>6. CASE DisconnectTimeout
  <2>1. /\ calls' = calls /\ signals' = signals \o ClosingSignals
        /\ Close /\ UNCHANGED <<clientVars, undefined>>
        /\ uaclient' \in {"null", "open", "broken"} /\ watched' \in BOOLEAN /\ timer' \in BOOLEAN
    BY <1>6 DEF DisconnectTimeout
  <2>2. calls' \in Seq(Calls) /\ \A r \in Requests : Count(calls', Asked(r)) = Count(calls, Asked(r))
    BY <1>1, <2>1 DEF TypeOK
  <2> WITNESS <<>> \in Seq(Signals)
  <2> QED
    BY <1>3, <2>1, <2>2
<1>7. ASSUME NEW s \in BOOLEAN, BackendConnect(s)
      PROVE  \E extra \in Seq(Signals) :
               /\ \A k \in DOMAIN extra : \E c \in BOOLEAN : extra[k] = State(c, {})
               /\ \A r \in Requests : Count(extra, AnswersTo(r)) = 0
               /\ signals' = (signals \o ClosingSignals) \o extra
               /\ calls' \in Seq(Calls) /\ \A r \in Requests : Count(calls', Asked(r)) = Count(calls, Asked(r))
               /\ Close /\ UNCHANGED <<clientVars, undefined>>
               /\ uaclient' \in {"null", "open", "broken"} /\ watched' \in BOOLEAN /\ timer' \in BOOLEAN
  <2>1. /\ Runs("connectToEndpoint") /\ calls' = Tail(calls)
        /\ signals' = (signals \o ClosingSignals) \o <<State(s, {})>>
        /\ Close /\ UNCHANGED <<clientVars, undefined>>
        /\ uaclient' \in {"null", "open", "broken"} /\ watched' \in BOOLEAN /\ timer' \in BOOLEAN
    BY <1>1, <1>7 DEF BackendConnect, TypeOK
  <2>2. calls' \in Seq(Calls) /\ \A r \in Requests : Count(calls', Asked(r)) = Count(calls, Asked(r))
    BY <1>4, <2>1
  <2>3. State(s, {}) \in Signals /\ \A r : State(s, {}) \notin AnswersTo(r)
    BY StateCounts
  <2>4. /\ <<State(s, {})>> \in Seq(Signals)
        /\ \A k \in DOMAIN <<State(s, {})>> : <<State(s, {})>>[k] = State(s, {})
    BY <2>3
  <2>5. \A r : Count(<<State(s, {})>>, AnswersTo(r)) = 0
    BY <2>3, CountSingleton
  <2> QED
    BY <2>1, <2>2, <2>4, <2>5
<1> QED
  BY <1>5, <1>6, <1>7

-----------------------------------------------------------------------------
(* The invariant and its theorems.                                         *)

LEMMA AsyncInit == Init => AsyncInv
<1> SUFFICES ASSUME Init PROVE AsyncInv
  OBVIOUS
<1>1. NoContext \in Contexts /\ NoContext.req = NoRequest /\ NoContext.pages = 0 /\ 0 \notin Ids
  BY BoundsAssumption DEF NoContext, Contexts, Ids
<1>2. TypeOK
  <2>1. contexts \in [Tables -> [Ids \cup {0} -> Contexts]]
    BY <1>1 DEF Init
  <2>2. outstanding \in [Ids -> Requests \cup {NoRequest}] /\ answers \in [Requests -> Nat]
    BY DEF Init
  <2>3. calls \in Seq(Calls) /\ signals \in Seq(Signals)
    BY DEF Init
  <2> QED
    BY <2>1, <2>2, <2>3 DEF Init, TypeOK
<1>3. PagesAreBounded /\ ContextsAreExact /\ DispatchedOnce
  <2>1. \A t \in Tables, i \in Ids : contexts[t][i] = NoContext
    BY DEF Init
  <2>2. \A i \in Ids : outstanding[i] = NoRequest
    BY DEF Init
  <2>3. PagesAreBounded /\ ContextsAreExact
    BY <1>1, <2>1, <2>2, BoundsAssumption DEF PagesAreBounded, ContextsAreExact
  <2>4. DispatchedOnce
    BY <2>2 DEF Init, DispatchedOnce
  <2> QED
    BY <2>3, <2>4
<1>4. IdsAreUsedOnce
  <2>1. 1..lastId = {}
    BY DEF Init
  <2>2. PICK f : f = [i \in {} |-> 0]
    OBVIOUS
  <2>3. f \in Injection({}, Uses)
    BY <2>2 DEF Injection, IsInjective
  <2>4. IsUse(f)
    BY <2>1, <2>3 DEF IsUse
  <2> QED
    BY <2>1, <2>3, <2>4 DEF IdsAreUsedOnce
<1>5. Conserved
  <2> SUFFICES ASSUME NEW r \in Requests
               PROVE  Count(calls, Asked(r)) + Cardinality(Behind(r)) + Count(signals, AnswersTo(r))
                        + answers[r] = (IF r \in posted THEN 1 ELSE 0)
    BY DEF Conserved
  <2>1. Count(calls, Asked(r)) = 0 /\ Count(signals, AnswersTo(r)) = 0
    BY FS_EmptySet DEF Init, Count
  <2>2. Behind(r) = {}
    BY RequestsAssumption DEF Init, Behind
  <2> QED
    BY <2>1, <2>2, FS_EmptySet DEF Init
<1> QED
  BY <1>2, <1>3, <1>4, <1>5 DEF AsyncInv

LEMMA AsyncStep == AsyncInv /\ [Next]_vars => AsyncInv'
<1> SUFFICES ASSUME AsyncInv, [Next]_vars PROVE AsyncInv'
  OBVIOUS
<1>1. ASSUME NEW r \in Requests, Request(r) PROVE AsyncInv'
  BY <1>1, RequestStep
<1>2. CASE ConnectToEndpoint \/ DisconnectFromEndpoint
  BY <1>2, PostStep
<1>3. CASE ClientLoop
  BY <1>3, HandleAnswerStep, HandleStateStep DEF ClientLoop
<1>4. CASE BackendNothingToDo \/ BackendRefused
  BY <1>4, AnsweredAtOnce
<1>5. CASE BackendDispatch
  BY <1>5, DispatchStep
<1>6. CASE BackendDispatchOnNull \/ ClientStateCallback \/ ChannelBreaks
  BY <1>6, LinkStep
<1>7. CASE BackendDisconnect \/ DisconnectTimeout \/ (\E succeeds \in BOOLEAN : BackendConnect(succeeds))
  <2>1. PICK extra \in Seq(Signals) :
           /\ \A r \in Requests : Count(extra, AnswersTo(r)) = 0
           /\ signals' = (signals \o ClosingSignals) \o extra
           /\ calls' \in Seq(Calls) /\ \A r \in Requests : Count(calls', Asked(r)) = Count(calls, Asked(r))
           /\ Close /\ UNCHANGED <<clientVars, undefined>>
           /\ uaclient' \in {"null", "open", "broken"} /\ watched' \in BOOLEAN /\ timer' \in BOOLEAN
    BY <1>7, ClosingStep
  <2> QED
    BY <2>1, CloseStep
<1>8. ASSUME NEW i \in Ids, Callback(i) PROVE AsyncInv'
  BY <1>8, CallbackStep
<1>9. CASE UNCHANGED vars
  <2>1. UNCHANGED <<clientVars, calls, signals, linkVars, serviceVars, undefined>>
    BY <1>9 DEF vars
  <2>2. TypeOK'
    BY <2>1 DEF AsyncInv, TypeOK, clientVars, linkVars, serviceVars
  <2>3. \A r \in onConnection : Count(calls', Asked(r)) = 0
    BY <2>1, QueueShrinks
  <2>4. /\ PagesAreBounded' /\ ContextsAreExact' /\ DispatchedOnce' /\ IdsAreUsedOnce'
        /\ \A r : Behind(r)' = Behind(r)
    BY <2>1, <2>3, ServiceSame DEF clientVars, linkVars, serviceVars
  <2>5. Conserved'
    BY <2>1, <2>4 DEF AsyncInv, Conserved, clientVars
  <2> QED
    BY <2>2, <2>4, <2>5 DEF AsyncInv
<1> QED
  BY <1>1, <1>2, <1>3, <1>4, <1>5, <1>6, <1>7, <1>8, <1>9 DEF Next, BackendSlot

(* The inductive invariant holds of every behaviour. *)
THEOREM AsyncInvariant == Spec => []AsyncInv
BY AsyncInit, AsyncStep, PTL DEF Spec

(* Every variable keeps its type; above all the request ids stay within    *)
(* the ids that one request each and one per further page of a browse can  *)
(* use, so that no id is given away twice on one connection.               *)
THEOREM AsyncTypeCorrect == Spec => []TypeOK
<1>1. AsyncInv => TypeOK
  BY DEF AsyncInv
<1> QED
  BY <1>1, AsyncInvariant, PTL

(* The tables of contexts hold exactly the outstanding requests, whatever  *)
(* the requests, the slots and the order of breaks and reconnects: no      *)
(* callback meets a context that an earlier connection left behind.        *)
THEOREM AsyncContextsExact == Spec => []ContextsAreExact
<1>1. AsyncInv => ContextsAreExact
  BY DEF AsyncInv
<1> QED
  BY <1>1, AsyncInvariant, PTL

(* Every request is in exactly one place from the moment it is made: the   *)
(* slot queue, open62541, the signal queue or, once, the application.      *)
THEOREM AsyncRequestsConserved == Spec => []RequestsAreConserved
<1>1. AsyncInv => RequestsAreConserved
  <2> SUFFICES ASSUME AsyncInv, NEW r \in Requests
               PROVE  Places(r) = (IF r \in posted THEN 1 ELSE 0)
    BY DEF RequestsAreConserved
  <2>1. calls \in Seq(Calls) /\ signals \in Seq(Signals)
    BY DEF AsyncInv, TypeOK
  <2>2. {k \in DOMAIN calls : calls[k] \in Asked(r)}
          = {k \in DOMAIN calls : calls[k].slot = "request" /\ calls[k].req = r}
    BY <2>1 DEF Asked
  <2>3. {k \in DOMAIN signals : signals[k] \in AnswersTo(r)}
          = {k \in DOMAIN signals : signals[k].name # "stateAndOrErrorChanged" /\ signals[k].req = r}
    BY <2>1 DEF AnswersTo
  <2> QED
    BY <2>2, <2>3 DEF AsyncInv, Conserved, Count, Behind, Places
<1> QED
  BY <1>1, AsyncInvariant, PTL

-----------------------------------------------------------------------------
(* Answers come before the end of their connection.                        *)

Answers(s, r) == s.name # "stateAndOrErrorChanged" /\ s.req = r

(* AnswersPrecedeDisconnect, of a queue q and answer counts a. *)
Precede(q, a) ==
  \A k \in DOMAIN q : q[k].name = "stateAndOrErrorChanged" =>
    \A r \in q[k].over : a[r] > 0 \/ \E j \in 1..(k - 1) : Answers(q[j], r)

LEMMA PrecedeConcat ==
  ASSUME NEW a, NEW q \in Seq(Signals), NEW s \in Seq(Signals), Precede(q, a),
         \A k \in DOMAIN s : s[k].name = "stateAndOrErrorChanged" =>
           \A r \in s[k].over : a[r] > 0 \/ \E j \in DOMAIN q : Answers(q[j], r)
  PROVE  Precede(q \o s, a)
<1> DEFINE t == q \o s
<1>1. /\ Len(q) \in Nat /\ Len(s) \in Nat /\ DOMAIN q = 1..Len(q) /\ DOMAIN s = 1..Len(s)
      /\ DOMAIN t = 1..(Len(q) + Len(s))
      /\ \A k \in DOMAIN t : t[k] = IF k <= Len(q) THEN q[k] ELSE s[k - Len(q)]
  OBVIOUS
<1> HIDE DEF t
<1> SUFFICES ASSUME NEW k \in DOMAIN t, t[k].name = "stateAndOrErrorChanged",
                    NEW r \in t[k].over, ~(a[r] > 0)
             PROVE  \E j \in 1..(k - 1) : Answers(t[j], r)
  BY DEF Precede, t
<1>2. CASE k <= Len(q)
  <2>1. k \in DOMAIN q /\ t[k] = q[k] /\ k \in Nat
    BY <1>1, <1>2
  <2>2. PICK j \in 1..(k - 1) : Answers(q[j], r)
    BY <2>1 DEF Precede
  <2>3. j \in DOMAIN t /\ j <= Len(q)
    BY <1>1, <1>2, <2>1
  <2>4. t[j] = q[j]
    BY <1>1, <2>3
  <2> QED
    BY <2>2, <2>4
<1>3. CASE ~(k <= Len(q))
  <2>1. k - Len(q) \in DOMAIN s /\ t[k] = s[k - Len(q)] /\ k \in Nat
    BY <1>1, <1>3
  <2>2. PICK j \in DOMAIN q : Answers(q[j], r)
    BY <2>1
  <2>3. j \in DOMAIN t /\ j <= Len(q) /\ j \in 1..(k - 1)
    BY <1>1, <1>3, <2>1
  <2>4. t[j] = q[j]
    BY <1>1, <2>3
  <2> QED
    BY <2>2, <2>3, <2>4
<1> QED
  BY <1>2, <1>3

LEMMA PrecedeTail ==
  ASSUME NEW a \in [Requests -> Nat], NEW b \in [Requests -> Nat], NEW q \in Seq(Signals), q # <<>>,
         Precede(q, a), \A r \in Requests : b[r] >= a[r],
         \A r \in Requests : Answers(Head(q), r) => b[r] > 0
  PROVE  Precede(Tail(q), b)
<1> DEFINE t == Tail(q)
<1>1. /\ Len(q) \in Nat /\ Len(q) > 0 /\ DOMAIN q = 1..Len(q) /\ DOMAIN t = 1..(Len(q) - 1)
      /\ Head(q) = q[1] /\ \A k \in DOMAIN t : t[k] = q[k + 1]
  OBVIOUS
<1>2. \A k \in DOMAIN q : q[k] \in Signals
  OBVIOUS
<1> HIDE DEF t
<1> SUFFICES ASSUME NEW k \in DOMAIN t, t[k].name = "stateAndOrErrorChanged",
                    NEW r \in t[k].over, ~(b[r] > 0)
             PROVE  \E j \in 1..(k - 1) : Answers(t[j], r)
  BY DEF Precede, t
<1>3. k + 1 \in DOMAIN q /\ t[k] = q[k + 1] /\ k \in Nat
  BY <1>1
<1>4. r \in Requests
  BY <1>2, <1>3, AnswerNames DEF Signals
<1>5. ~(a[r] > 0)
  BY <1>4
<1>6. PICK i \in 1..k : Answers(q[i], r)
  <2>1. (k + 1) - 1 = k
    BY <1>3
  <2> QED
    BY <1>3, <1>5, <2>1 DEF Precede
<1>7. i # 1
  BY <1>1, <1>4, <1>6
<1>8. i - 1 \in 1..(k - 1) /\ i - 1 \in DOMAIN t /\ i = (i - 1) + 1
  BY <1>1, <1>3, <1>7
<1>9. t[i - 1] = q[i]
  BY <1>1, <1>8
<1> QED
  BY <1>6, <1>8, <1>9

(* Where the answer of a request of this connection can be when it ends. *)
LEMMA SettledAtClose ==
  ASSUME AsyncInv, NEW r \in onConnection
  PROVE  answers[r] > 0 \/ \E j \in DOMAIN (signals \o ClosingAnswers) : Answers((signals \o ClosingAnswers)[j], r)
<1> DEFINE q == signals \o ClosingAnswers
<1>1. TypeOK /\ r \in Requests /\ r \in posted /\ Count(calls, Asked(r)) = 0
  BY DEF AsyncInv, TypeOK, DispatchedOnce
<1>2. signals \in Seq(Signals) /\ ClosingAnswers \in Seq(Signals) /\ answers[r] \in Nat
  BY <1>1, ClosingAnswersCount DEF TypeOK
<1>3. Count(q, AnswersTo(r)) = Count(signals, AnswersTo(r)) + Cardinality(Behind(r))
  BY <1>1, <1>2, CountConcat, ClosingAnswersCount
<1>4. Count(calls, Asked(r)) + Cardinality(Behind(r)) + Count(signals, AnswersTo(r)) + answers[r] = 1
  BY <1>1 DEF AsyncInv, Conserved
<1>5. Cardinality(Behind(r)) \in Nat /\ Count(signals, AnswersTo(r)) \in Nat
  BY <1>1, CountTypes
<1>6. Count(q, AnswersTo(r)) + answers[r] = 1
  BY <1>1, <1>2, <1>3, <1>4, <1>5
<1>7. q \in Seq(Signals)
  BY <1>2
<1> HIDE DEF q
<1>8. Count(q, AnswersTo(r)) = 0 <=> \A j \in DOMAIN q : q[j] \notin AnswersTo(r)
  BY <1>7, Positions
<1>9. \A j \in DOMAIN q : q[j] \in AnswersTo(r) => Answers(q[j], r)
  BY DEF AnswersTo, Answers
<1> QED
  BY <1>2, <1>6, <1>8, <1>9 DEF q

LEMMA PrecedeStep == AsyncInv /\ Precede(signals, answers) /\ [Next]_vars => Precede(signals, answers)'
<1> SUFFICES ASSUME AsyncInv, Precede(signals, answers), [Next]_vars PROVE Precede(signals', answers')
  BY DEF Precede, Answers
<1>1. signals \in Seq(Signals) /\ answers \in [Requests -> Nat]
  BY DEF AsyncInv, TypeOK
<1>2. ASSUME NEW s \in Signals, s.name # "stateAndOrErrorChanged", signals' = Append(signals, s),
             answers' = answers
      PROVE  Precede(signals', answers')
  <2>1. <<s>> \in Seq(Signals) /\ Append(signals, s) = signals \o <<s>>
    BY <1>1
  <2>2. \A k \in DOMAIN <<s>> : <<s>>[k] = s
    OBVIOUS
  <2> QED
    BY <1>1, <1>2, <2>1, <2>2, PrecedeConcat
<1>3. CASE signals' = signals /\ answers' = answers
  BY <1>3
<1>4. CASE HandleAnswer
  <2> DEFINE s == Head(signals)
  <2>1. /\ signals # <<>> /\ s.name # "stateAndOrErrorChanged" /\ signals' = Tail(signals)
        /\ answers' = IF s.req = NoRequest THEN answers ELSE [answers EXCEPT ![s.req] = @ + 1]
    BY <1>4 DEF HandleAnswer
  <2>2. s \in Signals
    BY <1>1, <2>1
  <2> HIDE DEF s
  <2>3. s.req \in Requests \cup {NoRequest}
    BY <2>1, <2>2 DEF Signals
  <2>4. /\ answers' \in [Requests -> Nat]
        /\ \A r \in Requests : answers'[r] = answers[r] + (IF r = s.req THEN 1 ELSE 0)
    BY <1>1, <2>1, <2>3, RequestsAssumption
  <2>5. \A r \in Requests : answers'[r] >= answers[r] /\ (Answers(s, r) => answers'[r] > 0)
    BY <1>1, <2>4 DEF Answers
  <2> QED
    BY <1>1, <2>1, <2>4, <2>5, PrecedeTail DEF s
<1>5. CASE HandleStateAndOrErrorChanged
  <2>1. /\ signals # <<>> /\ Head(signals).name = "stateAndOrErrorChanged" /\ signals' = Tail(signals)
        /\ answers' = answers
    BY <1>5 DEF HandleStateAndOrErrorChanged
  <2>2. \A r \in Requests : answers'[r] >= answers[r] /\ ~Answers(Head(signals), r)
    BY <1>1, <2>1 DEF Answers
  <2> QED
    BY <1>1, <2>1, <2>2, PrecedeTail
<1>6. CASE BackendNothingToDo \/ BackendRefused
  <2> DEFINE q == Head(calls).req
  <2>1. q \in Requests
    BY <1>6, RequestCall DEF AsyncInv, BackendNothingToDo, BackendRefused
  <2>2. PICK name \in SignalNames :
          signals' = Append(signals, Answer(name, q, "Bad", 0)) /\ answers' = answers
    BY <1>6, <2>1, SlotFacts DEF BackendNothingToDo, BackendRefused, clientVars
  <2>3. 0 \in 0..(MaxPages + 1)
    BY BoundsAssumption
  <2> HIDE DEF q
  <2>4. Answer(name, q, "Bad", 0) \in Signals /\ Answer(name, q, "Bad", 0).name # "stateAndOrErrorChanged"
    BY <2>1, <2>3, AnswerCounts
  <2> QED
    BY <1>2, <2>2, <2>4
<1>7. ASSUME NEW i \in Ids, Callback(i), ~(signals' = signals /\ answers' = answers)
      PROVE  Precede(signals', answers')
  <2>1. outstanding[i] # NoRequest
    BY <1>7 DEF Callback, AsyncCallback, AsyncBrowseLast, AsyncBrowseFails, AsyncBrowseResultBad,
         AsyncBrowseNext, AsyncBrowseNextRefused, RequestTimeout, Answered, Outstanding
  <2>2. ContextOf(i).pages \in 0..MaxPages
    BY <2>1, ContextFacts
  <2>3. /\ ContextOf(i).pages \in 0..(MaxPages + 1) /\ ContextOf(i).pages + 1 \in 0..(MaxPages + 1)
        /\ 0 \in 0..(MaxPages + 1)
    BY <2>2, BoundsAssumption
  <2>4. PICK code \in {"Good", "Bad"}, pages \in 0..(MaxPages + 1) : Emit(i, code, pages)
    BY <1>7, <2>3 DEF Callback, AsyncCallback, AsyncBrowseLast, AsyncBrowseFails, AsyncBrowseResultBad,
         AsyncBrowseNext, AsyncBrowseNextRefused, RequestTimeout, clientVars
  <2> DEFINE s == CallbackAnswer(i, code, pages)
  <2>5. signals' = Append(signals, s) /\ answers' = answers
    BY <2>4 DEF Emit, clientVars
  <2>6. s = Answer(SlotOf[outstanding[i]].finished, outstanding[i], code, pages)
        /\ outstanding[i] \in Requests /\ SlotOf[outstanding[i]].finished \in SignalNames
    BY <2>1, ContextFacts DEF CallbackAnswer
  <2> HIDE DEF s
  <2>7. s \in Signals /\ s.name # "stateAndOrErrorChanged"
    BY <2>6, AnswerCounts
  <2> QED
    BY <1>2, <2>5, <2>7
<1>8. CASE BackendDisconnect \/ DisconnectTimeout \/ (\E succeeds \in BOOLEAN : BackendConnect(succeeds))
  <2>1. PICK extra \in Seq(Signals) :
           /\ \A k \in DOMAIN extra : \E c \in BOOLEAN : extra[k] = State(c, {})
           /\ signals' = (signals \o ClosingSignals) \o extra /\ UNCHANGED <<clientVars, undefined>>
    BY <1>8, ClosingStep
  <2>2. answers' = answers /\ \A k \in DOMAIN extra : extra[k].over = {}
    BY <2>1 DEF clientVars, State
  <2>3. ClosingSignals \in Seq(Signals) /\ signals \o ClosingSignals \in Seq(Signals)
    BY <1>1, ClosingSignalsCount
  <2>4. Precede(signals \o ClosingSignals, answers)
    <3>1. CASE uaclient = "null"
      <4>1. signals \o ClosingSignals = signals
        BY <1>1, <3>1 DEF ClosingSignals
      <4> QED
        BY <4>1
    <3>2. CASE uaclient # "null"
      <4> DEFINE many == ClosingAnswers
                 last == State(FALSE, onConnection)
      <4>1. many \in Seq(Signals) /\ \A k \in DOMAIN many : many[k].name # "stateAndOrErrorChanged"
        BY ClosingAnswersCount
      <4>2. ClosingSignals = many \o <<last>> /\ last.over = onConnection
        BY <3>2 DEF ClosingSignals, State
      <4>3. last \in Signals
        BY StateCounts DEF AsyncInv, TypeOK
      <4>4. \A r \in onConnection :
              answers[r] > 0 \/ \E j \in DOMAIN (signals \o many) : Answers((signals \o many)[j], r)
        BY SettledAtClose
      <4> HIDE DEF many, last
      <4>5. signals \o many \in Seq(Signals) /\ Precede(signals \o many, answers)
        BY <1>1, <4>1, PrecedeConcat
      <4>6. <<last>> \in Seq(Signals) /\ \A k \in DOMAIN <<last>> : <<last>>[k] = last
        BY <4>3
      <4>7. Precede((signals \o many) \o <<last>>, answers)
        BY <4>2, <4>4, <4>5, <4>6, PrecedeConcat
      <4>8. signals \o (many \o <<last>>) = (signals \o many) \o <<last>>
        BY <1>1, <4>1, <4>3
      <4> QED
        BY <4>2, <4>7, <4>8
    <3> QED
      BY <3>1, <3>2
  <2> QED
    BY <2>1, <2>2, <2>3, <2>4, PrecedeConcat
<1> QED
  <2>1. CASE UNCHANGED vars
    BY <1>3, <2>1 DEF vars, clientVars
  <2>2. CASE \/ \E r \in Requests : Request(r)
             \/ ConnectToEndpoint \/ DisconnectFromEndpoint
             \/ BackendDispatch \/ BackendDispatchOnNull \/ ClientStateCallback \/ ChannelBreaks
    BY <1>3, <2>2 DEF Request, ConnectToEndpoint, DisconnectFromEndpoint, Post, BackendDispatch,
         BackendDispatchOnNull, ClientStateCallback, ChannelBreaks, clientVars
  <2> QED
    BY <1>3, <1>4, <1>5, <1>6, <1>7, <1>8, <2>1, <2>2 DEF Next, ClientLoop, BackendSlot

(* When the client hears of the end of a connection, every request sent on *)
(* it has been answered, or its answer is queued ahead of the news.        *)
THEOREM AsyncAnswersPrecedeDisconnect == Spec => []AnswersPrecedeDisconnect
<1>1. Init => Precede(signals, answers)
  BY DEF Init, Precede
<1>2. Precede(signals, answers) => AnswersPrecedeDisconnect
  BY DEF Precede, Answers, AnswersPrecedeDisconnect
<1> QED
  BY <1>1, <1>2, PrecedeStep, AsyncInvariant, PTL DEF Spec
=============================================================================
