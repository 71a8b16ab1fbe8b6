------------------------- MODULE Subscriptions_proofs -------------------------
(***************************************************************************)
(* Proofs about Subscriptions, for any finite set of nodes and attributes, *)
(* any requested intervals and any bounds.                                 *)
(*                                                                         *)
(* The three properties of the backend's tables are not inductive by       *)
(* themselves: handleSubscriptionTimeout() removes from m_attributeMapping *)
(* the items that were copied when it was posted, while the subscription   *)
(* goes on being used.  TimeoutsCover says why the copy is good enough.    *)
(* The property of the status a node shows needs what the queue of signals *)
(* will make of it: WithdrawalIsQueued.                                    *)
(***************************************************************************)
EXTENDS Subscriptions, FiniteSetTheorems, TLAPS

-----------------------------------------------------------------------------
(* The inductive invariant of the tables.                                  *)

(* Every known subscription id is one the server has assigned. *)
IdsAreAssigned == \A s \in subs \cup onServer : s < nextSub

(* What is left of an object that does not exist, and of the two tables of *)
(* one that does: an entry by attribute has a monitored item.              *)
ObjectsAreWhole ==
  \A s \in SubIds :
    /\ s \notin subs => ids[s] = NoItems
    /\ \A i \in byAttr[s] : ids[s][i] > 0

(* A queued handleSubscriptionTimeout names a subscription that the server *)
(* does not hold any more, so nothing can be added to it, and covers the   *)
(* items it has.                                                           *)
IsTimeout(call) == call.slot = "handleSubscriptionTimeout"

TimeoutsCover ==
  \A k \in DOMAIN calls : IsTimeout(calls[k]) =>
    /\ calls[k].sub < nextSub
    /\ calls[k].sub \notin onServer
    /\ byAttr[calls[k].sub] \subseteq calls[k].items

(* As long as the server keeps the subscriptions nothing times out. *)
NoneTimesOut ==
  ~expired =>
    /\ subs \subseteq onServer
    /\ \A k \in DOMAIN calls : ~IsTimeout(calls[k])

TablesInv ==
  /\ TypeOK
  /\ IdsAreAssigned
  /\ ObjectsAreWhole
  /\ TimeoutsCover
  /\ NoneTimesOut
  /\ MappedItemsExist
  /\ NoEmptySubscription
  /\ MappingIsExact

(* The inductive invariant of the signals.                                 *)

(* A signal that makes the status of item i Good, and one that makes it    *)
(* anything else.                                                          *)
IsAbout(s, i) == s.kind = "monitoringEnableDisable" /\ s.item = i

Grants(s, i) == IsAbout(s, i) /\ s.subscribe /\ s.code = "Good"

Withdraws(s, i) == IsAbout(s, i) /\ (~s.subscribe \/ s.code = "Bad")

(* An item that is not monitored will not be Good once the signals have    *)
(* been handled: after the last one that grants it one withdraws it.       *)
WithdrawalIsQueued(i) ==
  /\ status[i] = "Good" => \E k \in DOMAIN signals : Withdraws(signals[k], i)
  /\ \A k \in DOMAIN signals : Grants(signals[k], i) =>
       \E l \in DOMAIN signals : l > k /\ Withdraws(signals[l], i)

StatusInv ==
  /\ \A i \in Items : i[1] \notin nodes => status[i] # "Good"
  /\ \A i \in Items : ~IsMonitored(i) => WithdrawalIsQueued(i)

-----------------------------------------------------------------------------
(* The queues.                                                             *)

(* What the head and the tail of a nonempty queue are. *)
LEMMA QueueElements ==
  ASSUME NEW S, NEW q \in Seq(S), q # <<>>
  PROVE  /\ Head(q) \in S /\ Tail(q) \in Seq(S)
         /\ Head(q) = q[1] /\ 1 \in DOMAIN q
         /\ \A k \in DOMAIN Tail(q) : k + 1 \in DOMAIN q /\ Tail(q)[k] = q[k + 1]
OBVIOUS

(* What concatenation does to the positions of a queue. *)
LEMMA Concatenation ==
  ASSUME NEW S, NEW q \in Seq(S), NEW r \in Seq(S)
  PROVE  /\ q \o r \in Seq(S)
         /\ \A k \in DOMAIN q : k \in DOMAIN (q \o r) /\ (q \o r)[k] = q[k]
         /\ \A k \in DOMAIN r : Len(q) + k \in DOMAIN (q \o r) /\ (q \o r)[Len(q) + k] = r[k]
         /\ \A k \in DOMAIN (q \o r) : k \in DOMAIN q \/ k - Len(q) \in DOMAIN r
OBVIOUS

(* SetToSeq lists a finite set: every element of it, and nothing else. *)
LEMMA SetToSeqLists ==
  ASSUME NEW S, IsFiniteSet(S)
  PROVE  /\ SetToSeq(S) \in Seq(S)
         /\ \A x \in S : \E k \in DOMAIN SetToSeq(S) : SetToSeq(S)[k] = x
<1> DEFINE n == Cardinality(S)
<1>1. n \in Nat /\ ExistsBijection(1..n, S)
  BY FS_CardinalityType
<1>2. \E f \in [1..n -> S] : IsInjective(f)
  BY <1>1 DEF ExistsBijection, Bijection, Injection
<1>3. SetToSeq(S) \in [1..n -> S] /\ IsInjective(SetToSeq(S))
  BY <1>2 DEF SetToSeq
<1>4. SetToSeq(S) \in Injection(1..n, S)
  BY <1>3 DEF Injection
<1>5. Cardinality(1..n) = n
  BY <1>1, FS_Interval
<1>6. SetToSeq(S) \in Surjection(1..n, S)
  BY <1>4, <1>5, FS_Injection
<1>7. \A x \in S : \E k \in 1..n : SetToSeq(S)[k] = x
  BY <1>6 DEF Surjection
<1>8. SetToSeq(S) \in Seq(S) /\ DOMAIN SetToSeq(S) = 1..n
  BY <1>1, <1>3
<1> QED
  BY <1>7, <1>8

(* Sets of items are finite. *)
LEMMA ItemsAreFinite ==
  ASSUME NEW S \in SUBSET Items
  PROVE  IsFiniteSet(S)
<1>1. IsFiniteSet(Items)
  BY FiniteAssumption, FS_Product DEF Items
<1> QED
  BY <1>1, FS_Subset

(* What is emitted by a loop over items: one signal for each of them. *)
LEMMA EnabledAllSignals ==
  ASSUME NEW S \in SUBSET Items, NEW code \in [Items -> Codes]
  PROVE  /\ EnabledAll(S, code) \in Seq(Signals)
         /\ \A k \in DOMAIN EnabledAll(S, code) :
              \E i \in S : EnabledAll(S, code)[k] = Enabled(i, code[i])
<1>1. SetToSeq(S) \in Seq(S)
  BY ItemsAreFinite, SetToSeqLists
<1>2. \A i \in S : Enabled(i, code[i]) \in Signals
  BY DEF Enabled, Signals
<1> QED
  BY <1>1, <1>2 DEF EnabledAll

LEMMA DisabledAllSignals ==
  ASSUME NEW S \in SUBSET Items
  PROVE  /\ DisabledAll(S) \in Seq(Signals)
         /\ \A k \in DOMAIN DisabledAll(S) : \E i \in S : DisabledAll(S)[k] = Disabled(i)
         /\ \A i \in S : \E k \in DOMAIN DisabledAll(S) : DisabledAll(S)[k] = Disabled(i)
<1>1. /\ SetToSeq(S) \in Seq(S)
      /\ \A i \in S : \E k \in DOMAIN SetToSeq(S) : SetToSeq(S)[k] = i
  BY ItemsAreFinite, SetToSeqLists
<1>2. \A i \in S : Disabled(i) \in Signals
  BY DEF Disabled, Signals, Codes
<1> QED
  BY <1>1, <1>2 DEF DisabledAll

-----------------------------------------------------------------------------
(* The tables of the backend.                                              *)

(* What the slots find in the calls they are given. *)
LEMMA CallFields ==
  ASSUME NEW c \in Calls
  PROVE  /\ c.slot = "enableMonitoring" => c.items \in SUBSET Items /\ c.settings \in Settings
         /\ c.slot = "disableMonitoring" => c.items \in SUBSET Items
         /\ IsTimeout(c) => c.sub \in SubIds /\ c.items \in SUBSET Items
BY DEF Calls, IsTimeout

(* A step that posts no handleSubscriptionTimeout. *)
NoNewTimeout ==
  \A k \in DOMAIN calls' : IsTimeout(calls'[k]) => \E l \in DOMAIN calls : calls[l] = calls'[k]

LEMMA CallTaken ==
  ASSUME TypeOK, calls # <<>>, calls' = Tail(calls)
  PROVE  NoNewTimeout /\ calls' \in Seq(Calls)
BY QueueElements DEF TypeOK, NoNewTimeout

LEMMA CallPosted ==
  ASSUME TypeOK, NEW c \in Calls, ~IsTimeout(c), calls' = Append(calls, c)
  PROVE  NoNewTimeout /\ calls' \in Seq(Calls)
<1>1. calls \in Seq(Calls)
  BY DEF TypeOK
<1>2. calls' \in Seq(Calls)
  BY <1>1
<1>3. \A k \in DOMAIN calls' : (k \in DOMAIN calls /\ calls'[k] = calls[k]) \/ calls'[k] = c
  BY <1>1
<1> QED
  BY <1>2, <1>3 DEF NoNewTimeout

LEMMA CallsUnchanged ==
  ASSUME TypeOK, calls' = calls
  PROVE  NoNewTimeout /\ calls' \in Seq(Calls)
BY DEF TypeOK, NoNewTimeout

(* The queued timeouts still cover what they must when the server does not *)
(* get back a subscription and nothing is added to one it does not hold.   *)
LEMMA TimeoutsKept ==
  ASSUME TablesInv, NoNewTimeout,
         nextSub' \in Nat, nextSub' >= nextSub, onServer' \subseteq onServer \cup {nextSub},
         \A s \in SubIds \ onServer : s < nextSub => byAttr'[s] \subseteq byAttr[s]
  PROVE  TimeoutsCover'
<1> SUFFICES ASSUME NEW k \in DOMAIN calls', IsTimeout(calls'[k])
             PROVE  /\ calls'[k].sub < nextSub'
                    /\ calls'[k].sub \notin onServer'
                    /\ byAttr'[calls'[k].sub] \subseteq calls'[k].items
  BY DEF TimeoutsCover, IsTimeout
<1>1. PICK l \in DOMAIN calls : calls[l] = calls'[k]
  BY DEF NoNewTimeout
<1>2. /\ calls[l].sub < nextSub
      /\ calls[l].sub \notin onServer
      /\ byAttr[calls[l].sub] \subseteq calls[l].items
  BY <1>1 DEF TablesInv, TimeoutsCover
<1>3. calls[l].sub \in SubIds /\ nextSub \in Nat /\ calls[l].sub \in Nat
  BY <1>1, CallFields DEF TablesInv, TypeOK, SubIds
<1>4. calls[l].sub < nextSub' /\ calls[l].sub \notin onServer'
  BY <1>2, <1>3
<1>5. byAttr'[calls[l].sub] \subseteq calls[l].items
  BY <1>2, <1>3
<1> QED
  BY <1>1, <1>4, <1>5, Zenon

(* A step that leaves the tables as they are keeps the invariant. *)
LEMMA TablesUnchanged ==
  ASSUME TablesInv, TypeOK', NoNewTimeout,
         UNCHANGED <<subs, ids, byAttr, mapping, nextSub, onServer, expired>>
  PROVE  TablesInv'
<1>1. IdsAreAssigned' /\ ObjectsAreWhole'
  BY DEF TablesInv, IdsAreAssigned, ObjectsAreWhole
<1>2. TimeoutsCover'
  BY TimeoutsKept DEF TablesInv, TypeOK
<1>3. NoneTimesOut'
  BY DEF TablesInv, NoneTimesOut, NoNewTimeout
<1>4. MappedItemsExist' /\ NoEmptySubscription' /\ MappingIsExact'
  BY DEF TablesInv, MappedItemsExist, NoEmptySubscription, MappingIsExact
<1> QED
  BY <1>1, <1>2, <1>3, <1>4 DEF TablesInv

(* Cleaning up empties the tables. *)
LEMMA TablesCleaned ==
  ASSUME TablesInv, TypeOK', NoNewTimeout, CleanupTables
  PROVE  TablesInv'
<1>1. /\ subs' = {} /\ onServer' \subseteq onServer /\ nextSub' = nextSub /\ expired' = expired
      /\ \A i \in Items : mapping'[i] = NoSub
      /\ ids' = [s \in SubIds |-> IF s \in subs THEN NoItems ELSE ids[s]]
      /\ byAttr' = [s \in SubIds |-> IF s \in subs THEN {} ELSE byAttr[s]]
  BY DEF CleanupTables, Cleared
<1>2. \A s \in SubIds : ids'[s] = NoItems /\ byAttr'[s] = {}
  <2> SUFFICES ASSUME NEW s \in SubIds PROVE ids'[s] = NoItems /\ byAttr'[s] = {}
    OBVIOUS
  <2>1. CASE s \in subs
    BY <1>1, <2>1
  <2>2. CASE s \notin subs
    <3>1. ids[s] = NoItems /\ \A i \in byAttr[s] : ids[s][i] > 0
      BY <2>2 DEF TablesInv, ObjectsAreWhole
    <3>2. byAttr[s] = {}
      BY <3>1 DEF NoItems, TablesInv, TypeOK
    <3> QED
      BY <1>1, <2>2, <3>1, <3>2
  <2> QED
    BY <2>1, <2>2
<1>3. IdsAreAssigned'
  BY <1>1 DEF TablesInv, IdsAreAssigned
<1>4. ObjectsAreWhole'
  BY <1>2 DEF ObjectsAreWhole, NoItems
<1>5. TimeoutsCover'
  BY <1>1, <1>2, TimeoutsKept DEF TablesInv, TypeOK
<1>6. NoneTimesOut'
  BY <1>1 DEF TablesInv, NoneTimesOut, NoNewTimeout
<1>7. MappedItemsExist' /\ NoEmptySubscription'
  BY <1>1 DEF MappedItemsExist, NoEmptySubscription
<1>8. MappingIsExact'
  BY <1>1, <1>2 DEF MappingIsExact, NoItems, NoSub, SubIds
<1> QED
  BY <1>3, <1>4, <1>5, <1>6, <1>7, <1>8 DEF TablesInv

(* The call an enableMonitoring slot runs on. *)
LEMMA EnableCall ==
  ASSUME TypeOK, Runs("enableMonitoring")
  PROVE  /\ calls # <<>>
         /\ Head(calls).items \in SUBSET Items
         /\ Head(calls).settings \in Settings
BY QueueElements, CallFields DEF TypeOK, Runs

(* What AddItems does to the tables, in terms of one item. *)
Adds(s, granted, held) ==
  /\ ids' \in [SubIds -> [Items -> Nat]]
  /\ \A i \in Items : ids'[s][i] = ids[s][i] + (IF i \in granted THEN 1 ELSE 0)
  /\ \A t \in SubIds : t # s => ids'[t] = ids[t] /\ byAttr'[t] = byAttr[t]
  /\ byAttr' \in [SubIds -> SUBSET Items]
  /\ byAttr'[s] = byAttr[s] \cup granted
  /\ mapping' \in [Items -> SubIds \cup {NoSub}]
  /\ \A i \in Items : mapping'[i] = IF i \in granted THEN s ELSE mapping[i]
  /\ \/ (\E i \in Items : ids'[s][i] > 0) /\ subs' = subs \cup {s} /\ onServer' = held
     \/ ~(\E i \in Items : ids'[s][i] > 0) /\ subs' = subs \ {s} /\ onServer' = held \ {s}

LEMMA AddItemsTables ==
  ASSUME TypeOK, NEW s \in SubIds, NEW granted \in SUBSET Items, NEW held,
         AddItems(s, granted, held)
  PROVE  Adds(s, granted, held)
<1> DEFINE count == [i \in Items |-> ids[s][i] + (IF i \in granted THEN 1 ELSE 0)]
<1>1. ids \in [SubIds -> [Items -> Nat]] /\ byAttr \in [SubIds -> SUBSET Items]
      /\ mapping \in [Items -> SubIds \cup {NoSub}]
  BY DEF TypeOK
<1>2. count \in [Items -> Nat]
  BY <1>1
<1> HIDE DEF count
<1>3. /\ ids' = [ids EXCEPT ![s] = count]
      /\ byAttr' = [byAttr EXCEPT ![s] = @ \cup granted]
      /\ mapping' = [i \in Items |-> IF i \in granted THEN s ELSE mapping[i]]
      /\ subs' = IF KeepsSubscription(count) THEN subs \cup {s} ELSE subs \ {s}
      /\ onServer' = IF KeepsSubscription(count) THEN held ELSE held \ {s}
  BY DEF AddItems, count
<1>4. ids' \in [SubIds -> [Items -> Nat]] /\ ids'[s] = count
      /\ \A t \in SubIds : t # s => ids'[t] = ids[t]
  BY <1>1, <1>2, <1>3
<1>5. /\ \A t \in SubIds : t # s => byAttr'[t] = byAttr[t]
      /\ byAttr' \in [SubIds -> SUBSET Items]
      /\ byAttr'[s] = byAttr[s] \cup granted
  BY <1>1, <1>3
<1>6. /\ mapping' \in [Items -> SubIds \cup {NoSub}]
      /\ \A i \in Items : mapping'[i] = IF i \in granted THEN s ELSE mapping[i]
  BY <1>1, <1>3
<1>7. \A i \in Items : ids'[s][i] = ids[s][i] + (IF i \in granted THEN 1 ELSE 0)
  BY <1>4 DEF count
<1>8. KeepsSubscription(count) <=> \E i \in Items : ids'[s][i] > 0
  BY <1>4 DEF KeepsSubscription
<1>9. \/ (\E i \in Items : ids'[s][i] > 0) /\ subs' = subs \cup {s} /\ onServer' = held
      \/ ~(\E i \in Items : ids'[s][i] > 0) /\ subs' = subs \ {s} /\ onServer' = held \ {s}
  BY <1>3, <1>8
<1> QED
  BY <1>4, <1>5, <1>6, <1>7, <1>9 DEF Adds

(* The codes of the signals AddItems emits: only a granted item is Good. *)
AddCodes(granted) ==
  [i \in Items |-> IF ~IsNew(i) THEN "BadEntryExists" ELSE IF i \in granted THEN "Good" ELSE "Bad"]

LEMMA AddItemsSignals ==
  ASSUME TypeOK, Runs("enableMonitoring"), NEW s, NEW granted, NEW held, AddItems(s, granted, held)
  PROVE  /\ AddCodes(granted) \in [Items -> Codes]
         /\ signals' = signals \o EnabledAll(Head(calls).items, AddCodes(granted))
         /\ signals' \in Seq(Signals)
         /\ NoNewTimeout /\ calls' \in Seq(Calls)
         /\ UNCHANGED <<clientVars, linkVars, undefined, timedOut, expired>>
<1>1. AddCodes(granted) \in [Items -> Codes]
  BY DEF AddCodes, Codes
<1>2. signals' = signals \o EnabledAll(Head(calls).items, AddCodes(granted))
  BY DEF AddItems, AddCodes
<1>3. calls' = Tail(calls) /\ UNCHANGED <<clientVars, linkVars, undefined, timedOut, expired>>
  BY DEF AddItems
<1>4. signals' \in Seq(Signals)
  BY <1>1, <1>2, EnableCall, EnabledAllSignals, Concatenation DEF TypeOK
<1> QED
  BY <1>1, <1>2, <1>3, <1>4, EnableCall, CallTaken

(* Items are added to subscription s, an object of the table or the one    *)
(* the server has just created.                                            *)
LEMMA ItemsAdded ==
  ASSUME TablesInv, TypeOK', NEW s \in SubIds, NEW granted \in SUBSET Items, NEW held,
         \A i \in granted : mapping[i] = NoSub,
         Runs("enableMonitoring"), AddItems(s, granted, held),
         \/ s \in subs /\ held = onServer /\ nextSub' = nextSub /\ (granted # {} => s \in onServer)
         \/ s = nextSub /\ held = onServer \cup {s} /\ nextSub' = nextSub + 1
  PROVE  TablesInv'
<1>1. TypeOK /\ nextSub \in Nat /\ NoSub \notin SubIds /\ SubIds \subseteq Nat
  BY DEF TablesInv, TypeOK, NoSub, SubIds
<1>2. /\ ids \in [SubIds -> [Items -> Nat]] /\ byAttr \in [SubIds -> SUBSET Items]
      /\ mapping \in [Items -> SubIds \cup {NoSub}] /\ subs \subseteq SubIds /\ onServer \subseteq SubIds
  BY <1>1 DEF TypeOK
<1>0. Adds(s, granted, held)
  BY <1>1, AddItemsTables
<1>3. /\ ids' \in [SubIds -> [Items -> Nat]]
      /\ \A i \in Items : ids'[s][i] = ids[s][i] + (IF i \in granted THEN 1 ELSE 0)
      /\ \A t \in SubIds : t # s => ids'[t] = ids[t] /\ byAttr'[t] = byAttr[t]
      /\ byAttr'[s] = byAttr[s] \cup granted
      /\ \A i \in Items : mapping'[i] = IF i \in granted THEN s ELSE mapping[i]
  BY <1>0 DEF Adds
<1>4. \/ (\E i \in Items : ids'[s][i] > 0) /\ subs' = subs \cup {s} /\ onServer' = held
      \/ ~(\E i \in Items : ids'[s][i] > 0) /\ subs' = subs \ {s} /\ onServer' = held \ {s}
  BY <1>0 DEF Adds
<1>5. NoNewTimeout /\ expired' = expired
  BY <1>1, AddItemsSignals
<1>6. IdsAreAssigned'
  <2> SUFFICES ASSUME NEW t \in subs' \cup onServer' PROVE t < nextSub'
    BY DEF IdsAreAssigned
  <2>1. t \in subs \/ t \in onServer \/ (t = nextSub /\ nextSub' = nextSub + 1)
    BY <1>4
  <2>2. t \in subs \cup onServer => t < nextSub /\ t \in Nat
    BY <1>1, <1>2 DEF TablesInv, IdsAreAssigned
  <2> QED
    BY <1>1, <2>1, <2>2
<1>7. \A t \in SubIds, i \in Items : i \in byAttr'[t] => ids'[t][i] > 0
  <2> SUFFICES ASSUME NEW t \in SubIds, NEW i \in Items, i \in byAttr'[t] PROVE ids'[t][i] > 0
    OBVIOUS
  <2>1. i \in byAttr[t] => ids[t][i] > 0
    BY DEF TablesInv, ObjectsAreWhole
  <2>2. ids[t][i] \in Nat
    BY <1>2
  <2> QED
    BY <1>3, <2>1, <2>2
<1>8. ObjectsAreWhole'
  <2> SUFFICES ASSUME NEW t \in SubIds
               PROVE  (t \notin subs' => ids'[t] = NoItems) /\ \A i \in byAttr'[t] : ids'[t][i] > 0
    BY DEF ObjectsAreWhole
  <2>1. \A i \in byAttr'[t] : ids'[t][i] > 0
    BY <1>7 DEF TypeOK
  <2>2. ASSUME t \notin subs', t # s PROVE ids'[t] = NoItems
    BY <1>3, <1>4, <2>2 DEF TablesInv, ObjectsAreWhole
  <2>3. ASSUME t \notin subs', t = s PROVE ids'[t] = NoItems
    <3>1. ~(\E i \in Items : ids'[s][i] > 0)
      BY <1>4, <2>3
    <3>2. ids'[s] \in [Items -> Nat]
      BY <1>3
    <3>3. \A i \in Items : ids'[s][i] = 0
      BY <3>1, <3>2
    <3> QED
      BY <2>3, <3>2, <3>3 DEF NoItems
  <2> QED
    BY <2>1, <2>2, <2>3
<1>9. TimeoutsCover'
  <2>1. \A t \in SubIds \ onServer : t < nextSub => byAttr'[t] \subseteq byAttr[t]
    BY <1>1, <1>3
  <2>2. onServer' \subseteq onServer \cup {nextSub} /\ nextSub' \in Nat /\ nextSub' >= nextSub
    BY <1>1, <1>4
  <2> QED
    BY <1>5, <2>1, <2>2, TimeoutsKept
<1>10. NoneTimesOut'
  BY <1>4, <1>5 DEF TablesInv, NoneTimesOut, NoNewTimeout
<1>11. MappedItemsExist'
  <2> SUFFICES ASSUME NEW i \in Items, mapping'[i] # NoSub
               PROVE  mapping'[i] \in subs' /\ i \in byAttr'[mapping'[i]] /\ ids'[mapping'[i]][i] > 0
    BY DEF MappedItemsExist
  <2>1. CASE i \in granted
    BY <1>2, <1>3, <1>4, <2>1
  <2>2. CASE i \notin granted
    <3>1. mapping'[i] = mapping[i] /\ mapping[i] \in SubIds
      BY <1>2, <1>3, <2>2
    <3>2. mapping[i] \in subs /\ i \in byAttr[mapping[i]] /\ ids[mapping[i]][i] > 0
      BY <3>1 DEF TablesInv, MappedItemsExist
    <3>3. i \in byAttr'[mapping[i]] /\ ids'[mapping[i]][i] > 0
      BY <1>2, <1>3, <3>1, <3>2
    <3> QED
      BY <1>4, <3>1, <3>2, <3>3
  <2> QED
    BY <2>1, <2>2
<1>12. NoEmptySubscription'
  BY <1>2, <1>3, <1>4 DEF TablesInv, NoEmptySubscription
<1>13. MappingIsExact'
  <2> SUFFICES ASSUME ~expired, NEW i \in Items, NEW t \in SubIds
               PROVE  /\ ids'[t][i] = (IF mapping'[i] = t THEN 1 ELSE 0)
                      /\ i \in byAttr'[t] <=> mapping'[i] = t
    BY <1>5 DEF MappingIsExact
  <2>1. ids[t][i] = (IF mapping[i] = t THEN 1 ELSE 0) /\ (i \in byAttr[t] <=> mapping[i] = t)
    BY DEF TablesInv, MappingIsExact
  <2>2. i \in granted => mapping[i] = NoSub /\ NoSub # t
    BY <1>1
  <2> QED
    BY <1>3, <2>1, <2>2
<1> QED
  BY <1>6, <1>8, <1>9, <1>10, <1>11, <1>12, <1>13 DEF TablesInv

LEMMA TablesEnableExisting ==
  ASSUME TablesInv, BackendEnableExisting
  PROVE  TablesInv'
<1>1. TypeOK /\ Runs("enableMonitoring")
  BY DEF TablesInv, BackendEnableExisting
<1>2. PICK s \in Existing(Head(calls).settings) :
        \E granted \in SUBSET (IF uaclient = "open" /\ s \in onServer THEN NewItems ELSE {}) :
          AddItems(s, granted, onServer)
  BY DEF BackendEnableExisting
<1>3. PICK granted \in SUBSET (IF uaclient = "open" /\ s \in onServer THEN NewItems ELSE {}) :
        AddItems(s, granted, onServer)
  BY <1>2
<1>4. s \in subs /\ s \in SubIds
  BY <1>1 DEF Existing, Reusable, TypeOK
<1>5. granted \in SUBSET Items /\ (\A i \in granted : mapping[i] = NoSub)
  BY <1>1, EnableCall DEF NewItems, IsNew
<1>6. UNCHANGED <<shared, interval, minInterval, nextSub>> /\ (granted # {} => s \in onServer)
  BY DEF BackendEnableExisting
<1>7. Adds(s, granted, onServer)
  BY <1>1, <1>3, <1>4, <1>5, AddItemsTables
<1>8. TypeOK'
  <2>1. /\ signals' \in Seq(Signals) /\ calls' \in Seq(Calls)
        /\ UNCHANGED <<clientVars, linkVars, undefined, timedOut, expired>>
    BY <1>1, <1>3, AddItemsSignals
  <2>2. subs' \subseteq SubIds /\ onServer' \subseteq SubIds
    BY <1>1, <1>4, <1>7 DEF Adds, TypeOK
  <2> QED
    BY <1>1, <1>6, <1>7, <2>1, <2>2 DEF Adds, TypeOK, clientVars, linkVars
<1> QED
  BY <1>1, <1>3, <1>4, <1>5, <1>6, <1>8, ItemsAdded

LEMMA TablesEnableCreate ==
  ASSUME TablesInv, BackendEnableCreate
  PROVE  TablesInv'
<1>1. TypeOK /\ Runs("enableMonitoring") /\ nextSub \in SubIds /\ nextSub \in Nat
  BY DEF TablesInv, BackendEnableCreate, NeedsCreate, TypeOK
<1>2. PICK granted \in SUBSET NewItems : AddItems(nextSub, granted, onServer \cup {nextSub})
  BY DEF BackendEnableCreate
<1>3. granted \in SUBSET Items /\ (\A i \in granted : mapping[i] = NoSub)
  BY <1>1, EnableCall DEF NewItems, IsNew
<1>4. nextSub' = nextSub + 1
  BY DEF BackendEnableCreate
<1>5. Adds(nextSub, granted, onServer \cup {nextSub})
  BY <1>1, <1>2, <1>3, AddItemsTables
<1>6. TypeOK'
  <2>1. /\ signals' \in Seq(Signals) /\ calls' \in Seq(Calls)
        /\ UNCHANGED <<clientVars, linkVars, undefined, timedOut, expired>>
    BY <1>1, <1>2, AddItemsSignals
  <2>2. subs' \subseteq SubIds /\ onServer' \subseteq SubIds
    BY <1>1, <1>5 DEF Adds, TypeOK
  <2>3. Head(calls).settings.interval \in Nat
    BY <1>1, EnableCall, IntervalsAssumption DEF BackendEnableCreate, NeedsCreate, Settings
  <2>4. Max2(Head(calls).settings.interval, ServerMin) \in Nat
    BY <2>3, IntervalsAssumption DEF Max2
  <2>5. /\ shared' \in [SubIds -> BOOLEAN] /\ interval' \in [SubIds -> Nat] /\ minInterval' \in Nat
    BY <1>1, <2>4 DEF BackendEnableCreate, TypeOK
  <2>6. nextSub' \in 1..MaxSubs + 1
    BY <1>1, <1>4, MaxSubsAssumption DEF SubIds
  <2> QED
    BY <1>1, <1>5, <2>1, <2>2, <2>5, <2>6 DEF Adds, TypeOK, clientVars, linkVars
<1> QED
  BY <1>1, <1>2, <1>3, <1>4, <1>6, ItemsAdded

LEMMA TablesTimeoutSent ==
  ASSUME TablesInv, NEW s \in SubIds, SendTimeoutNotification(s)
  PROVE  TablesInv'
<1> DEFINE c == [slot |-> "handleSubscriptionTimeout", sub |-> s, items |-> byAttr[s]]
<1>1. TypeOK /\ nextSub \in Nat /\ s < nextSub /\ s \notin onServer /\ s \in subs
  BY DEF TablesInv, IdsAreAssigned, SendTimeoutNotification, TypeOK
<1>2. calls' = Append(calls, c) /\ c \in Calls
  BY <1>1 DEF SendTimeoutNotification, Calls, TypeOK
<1>3. calls' \in Seq(Calls) /\ timedOut' \in [SubIds -> BOOLEAN]
  BY <1>1, <1>2 DEF SendTimeoutNotification, TypeOK
<1>4. UNCHANGED <<clientVars, signals, linkVars, subs, shared, interval, ids, byAttr,
                 mapping, minInterval, undefined, serverVars>>
  BY DEF SendTimeoutNotification
<1>5. TypeOK'
  BY <1>1, <1>3, <1>4 DEF TypeOK, clientVars, linkVars, serverVars
<1>6. IdsAreAssigned' /\ ObjectsAreWhole' /\ MappedItemsExist' /\ NoEmptySubscription' /\ MappingIsExact'
  BY <1>4 DEF TablesInv, IdsAreAssigned, ObjectsAreWhole, MappedItemsExist, NoEmptySubscription,
              MappingIsExact, serverVars
<1>7. \A k \in DOMAIN calls' : (k \in DOMAIN calls /\ calls'[k] = calls[k]) \/ calls'[k] = c
  BY <1>1, <1>2 DEF TypeOK
<1>8. TimeoutsCover'
  <2> SUFFICES ASSUME NEW k \in DOMAIN calls', IsTimeout(calls'[k])
               PROVE  /\ calls'[k].sub < nextSub /\ calls'[k].sub \notin onServer
                      /\ byAttr[calls'[k].sub] \subseteq calls'[k].items
    BY <1>4 DEF TimeoutsCover, IsTimeout, serverVars
  <2>1. CASE k \in DOMAIN calls /\ calls'[k] = calls[k]
    BY <2>1 DEF TablesInv, TimeoutsCover
  <2>2. CASE calls'[k] = c
    BY <1>1, <2>2
  <2> QED
    BY <1>7, <2>1, <2>2
<1>9. NoneTimesOut'
  BY <1>1, <1>4 DEF TablesInv, NoneTimesOut, serverVars
<1> QED
  BY <1>5, <1>6, <1>8, <1>9 DEF TablesInv

LEMMA TablesServerExpires ==
  ASSUME TablesInv, NEW s \in SubIds, ServerExpires(s)
  PROVE  TablesInv'
<1>1. /\ onServer' = onServer \ {s} /\ expired' = TRUE
      /\ UNCHANGED <<clientVars, queueVars, linkVars, tableVars, undefined, nextSub>>
  BY DEF ServerExpires
<1>2. TypeOK'
  BY <1>1 DEF TablesInv, TypeOK, clientVars, queueVars, linkVars, tableVars
<1>3. IdsAreAssigned' /\ ObjectsAreWhole' /\ MappedItemsExist' /\ NoEmptySubscription'
  BY <1>1 DEF TablesInv, IdsAreAssigned, ObjectsAreWhole, MappedItemsExist, NoEmptySubscription, tableVars
<1>4. NoneTimesOut' /\ MappingIsExact'
  BY <1>1 DEF NoneTimesOut, MappingIsExact
<1>5. TimeoutsCover'
  BY <1>1 DEF TablesInv, TimeoutsCover, queueVars, tableVars, IsTimeout
<1> QED
  BY <1>2, <1>3, <1>4, <1>5 DEF TablesInv

(* What disableMonitoring() does to the tables, in terms of one item.      *)
Removed == Mapped(Head(calls).items)

Removes ==
  /\ ids' \in [SubIds -> [Items -> Nat]]
  /\ \A s \in SubIds, i \in Items :
       ids'[s][i] = IF i \in Removed /\ mapping[i] = s THEN ids[s][i] - 1 ELSE ids[s][i]
  /\ byAttr' = [s \in SubIds |-> byAttr[s] \ {i \in Removed : mapping[i] = s}]
  /\ mapping' = [i \in Items |-> IF i \in Removed THEN NoSub ELSE mapping[i]]
  /\ \E emptied \in SUBSET SubIds :
       /\ \A s \in SubIds : s \in emptied <=>
            /\ \E i \in Removed : mapping[i] = s
            /\ ~(\E i \in Items : ids'[s][i] > 0)
       /\ subs' = subs \ emptied
       /\ onServer' = onServer \ emptied
       /\ ForgetSettings(emptied)
  /\ signals' = signals \o DisabledAll(Removed)
  /\ calls' = Tail(calls)
  /\ UNCHANGED <<clientVars, linkVars, minInterval, undefined, nextSub, expired>>

LEMMA DisableCall ==
  ASSUME TypeOK, Runs("disableMonitoring")
  PROVE  /\ calls # <<>>
         /\ Removed \in SUBSET Items
         /\ \A i \in Removed : mapping[i] \in SubIds
<1>1. calls # <<>> /\ Head(calls).items \in SUBSET Items
  BY QueueElements, CallFields DEF TypeOK, Runs
<1>2. \A i \in Items : mapping[i] # NoSub => mapping[i] \in SubIds
  BY DEF TypeOK
<1> QED
  BY <1>1, <1>2 DEF Removed, Mapped

LEMMA DisableTables ==
  ASSUME TablesInv, BackendDisable
  PROVE  Removes
<1>1. TypeOK /\ Runs("disableMonitoring")
  BY DEF TablesInv, BackendDisable
<1>2. /\ Removed \in SUBSET Items
      /\ \A i \in Removed : mapping[i] \in SubIds
  BY <1>1, DisableCall
<1> DEFINE count == [s \in SubIds |-> [i \in Items |->
                      IF i \in Removed /\ mapping[i] = s THEN ids[s][i] - 1 ELSE ids[s][i]]]
           touched == {mapping[i] : i \in Removed}
           emptied == {s \in touched : ~KeepsSubscription(count[s])}
<1>3. count \in [SubIds -> [Items -> Nat]]
  <2> SUFFICES ASSUME NEW s \in SubIds, NEW i \in Items
               PROVE  (IF i \in Removed /\ mapping[i] = s THEN ids[s][i] - 1 ELSE ids[s][i]) \in Nat
    OBVIOUS
  <2>1. ids[s][i] \in Nat
    BY <1>1 DEF TypeOK
  <2>2. mapping[i] = s => ids[s][i] > 0
    BY DEF TablesInv, MappedItemsExist, NoSub, SubIds
  <2> QED
    BY <2>1, <2>2
<1>4. emptied \in SUBSET SubIds
  BY <1>2
<1>5. /\ ids' = count
      /\ byAttr' = [s \in SubIds |-> byAttr[s] \ {i \in Removed : mapping[i] = s}]
      /\ mapping' = [i \in Items |-> IF i \in Removed THEN NoSub ELSE mapping[i]]
      /\ subs' = subs \ emptied
      /\ ForgetSettings(emptied)
      /\ onServer' = onServer \ emptied
      /\ signals' = signals \o DisabledAll(Removed)
      /\ calls' = Tail(calls)
      /\ UNCHANGED <<clientVars, linkVars, minInterval, undefined, nextSub, expired>>
  BY DEF BackendDisable, Removed, Unmapped
<1>6. \A s \in SubIds : s \in emptied <=>
        (\E i \in Removed : mapping[i] = s) /\ ~(\E i \in Items : ids'[s][i] > 0)
  <2> HIDE DEF count
  <2> QED
    BY <1>5 DEF KeepsSubscription
<1>7. \A s \in SubIds, i \in Items :
        ids'[s][i] = IF i \in Removed /\ mapping[i] = s THEN ids[s][i] - 1 ELSE ids[s][i]
  BY <1>5
<1> HIDE DEF emptied, count
<1> QED
  BY <1>3, <1>4, <1>5, <1>6, <1>7 DEF Removes

(* The settings of the objects that remain keep their types. *)
LEMMA SettingsForgotten ==
  ASSUME TypeOK, NEW S, ForgetSettings(S)
  PROVE  shared' \in [SubIds -> BOOLEAN] /\ interval' \in [SubIds -> Nat] /\ timedOut' \in [SubIds -> BOOLEAN]
BY DEF TypeOK, ForgetSettings, Cleared

LEMMA TablesDisable ==
  ASSUME TablesInv, BackendDisable
  PROVE  TablesInv'
<1>1. /\ TypeOK /\ Runs("disableMonitoring") /\ Removes /\ nextSub \in Nat
      /\ NoSub \notin SubIds
  BY DisableTables DEF TablesInv, BackendDisable, TypeOK, NoSub, SubIds
<1>2. /\ calls # <<>> /\ Removed \in SUBSET Items
      /\ \A i \in Removed : mapping[i] \in SubIds
  BY <1>1, DisableCall
<1>3. PICK emptied \in SUBSET SubIds :
       /\ \A s \in SubIds : s \in emptied <=>
            /\ \E i \in Removed : mapping[i] = s
            /\ ~(\E i \in Items : ids'[s][i] > 0)
       /\ subs' = subs \ emptied
       /\ onServer' = onServer \ emptied
       /\ ForgetSettings(emptied)
  BY <1>1 DEF Removes
<1>4. /\ ids' \in [SubIds -> [Items -> Nat]]
      /\ \A s \in SubIds, i \in Items :
           ids'[s][i] = IF i \in Removed /\ mapping[i] = s THEN ids[s][i] - 1 ELSE ids[s][i]
      /\ byAttr' = [s \in SubIds |-> byAttr[s] \ {i \in Removed : mapping[i] = s}]
      /\ mapping' = [i \in Items |-> IF i \in Removed THEN NoSub ELSE mapping[i]]
      /\ UNCHANGED <<clientVars, linkVars, minInterval, undefined, nextSub, expired>>
  BY <1>1 DEF Removes
<1>5. /\ ids \in [SubIds -> [Items -> Nat]] /\ byAttr \in [SubIds -> SUBSET Items]
      /\ mapping \in [Items -> SubIds \cup {NoSub}] /\ subs \subseteq SubIds
  BY <1>1 DEF TypeOK
<1>6. NoNewTimeout /\ calls' \in Seq(Calls)
  BY <1>1, <1>2, CallTaken DEF Removes
<1>7. TypeOK'
  <2>1. signals' \in Seq(Signals)
    BY <1>1, <1>2, DisabledAllSignals, Concatenation DEF Removes, TypeOK
  <2>2. shared' \in [SubIds -> BOOLEAN] /\ interval' \in [SubIds -> Nat] /\ timedOut' \in [SubIds -> BOOLEAN]
    BY <1>1, <1>3, SettingsForgotten
  <2>3. byAttr' \in [SubIds -> SUBSET Items] /\ mapping' \in [Items -> SubIds \cup {NoSub}]
    BY <1>4, <1>5
  <2>4. subs' \subseteq SubIds /\ onServer' \subseteq SubIds
    BY <1>1, <1>3 DEF TypeOK
  <2> QED
    BY <1>1, <1>4, <1>6, <2>1, <2>2, <2>3, <2>4 DEF TypeOK, clientVars, linkVars
<1>8. IdsAreAssigned'
  BY <1>3, <1>4 DEF TablesInv, IdsAreAssigned
<1>9. \A s \in SubIds, i \in Items : i \in byAttr'[s] => ids'[s][i] > 0
  <2> SUFFICES ASSUME NEW s \in SubIds, NEW i \in Items, i \in byAttr'[s] PROVE ids'[s][i] > 0
    OBVIOUS
  <2>1. i \in byAttr[s] /\ ~(i \in Removed /\ mapping[i] = s)
    BY <1>4
  <2>2. ids[s][i] > 0
    BY <2>1 DEF TablesInv, ObjectsAreWhole
  <2> QED
    BY <1>4, <2>1, <2>2
<1>10. \A s \in SubIds : (~\E i \in Removed : mapping[i] = s) => ids'[s] = ids[s]
  <2> SUFFICES ASSUME NEW s \in SubIds, ~\E i \in Removed : mapping[i] = s PROVE ids'[s] = ids[s]
    OBVIOUS
  <2>1. \A i \in Items : ids'[s][i] = ids[s][i]
    BY <1>4
  <2>2. ids'[s] \in [Items -> Nat] /\ ids[s] \in [Items -> Nat]
    BY <1>4, <1>5
  <2> QED
    BY <2>1, <2>2
<1>11. ObjectsAreWhole'
  <2> SUFFICES ASSUME NEW s \in SubIds
               PROVE  (s \notin subs' => ids'[s] = NoItems) /\ \A i \in byAttr'[s] : ids'[s][i] > 0
    BY DEF ObjectsAreWhole
  <2>1. \A i \in byAttr'[s] : ids'[s][i] > 0
    BY <1>7, <1>9 DEF TypeOK
  <2>2. ASSUME s \notin subs PROVE ids'[s] = NoItems
    <3>1. ~\E i \in Removed : mapping[i] = s
      BY <1>1, <1>2, <2>2 DEF TablesInv, MappedItemsExist
    <3> QED
      BY <1>10, <2>2, <3>1 DEF TablesInv, ObjectsAreWhole
  <2>3. ASSUME s \in emptied PROVE ids'[s] = NoItems
    <3>1. ~(\E i \in Items : ids'[s][i] > 0) /\ ids'[s] \in [Items -> Nat]
      BY <1>3, <1>4, <2>3
    <3>2. \A i \in Items : ids'[s][i] = 0
      BY <3>1
    <3> QED
      BY <3>1, <3>2 DEF NoItems
  <2> QED
    BY <1>3, <2>1, <2>2, <2>3
<1>12. TimeoutsCover'
  <2>1. \A s \in SubIds : byAttr'[s] \subseteq byAttr[s]
    BY <1>4
  <2> QED
    BY <1>1, <1>3, <1>4, <1>6, <2>1, TimeoutsKept
<1>13. NoneTimesOut'
  BY <1>3, <1>4, <1>6 DEF TablesInv, NoneTimesOut, NoNewTimeout
<1>14. MappedItemsExist'
  <2> SUFFICES ASSUME NEW i \in Items, mapping'[i] # NoSub
               PROVE  mapping'[i] \in subs' /\ i \in byAttr'[mapping'[i]] /\ ids'[mapping'[i]][i] > 0
    BY DEF MappedItemsExist
  <2>1. i \notin Removed /\ mapping'[i] = mapping[i] /\ mapping[i] \in SubIds
    BY <1>4, <1>5
  <2>2. mapping[i] \in subs /\ i \in byAttr[mapping[i]] /\ ids[mapping[i]][i] > 0
    BY <2>1 DEF TablesInv, MappedItemsExist
  <2>3. i \in byAttr'[mapping[i]] /\ ids'[mapping[i]][i] > 0
    BY <1>4, <2>1, <2>2
  <2>4. mapping[i] \notin emptied
    BY <1>3, <2>1, <2>3
  <2> QED
    BY <1>3, <2>1, <2>2, <2>3, <2>4
<1>15. NoEmptySubscription'
  <2> SUFFICES ASSUME NEW s \in subs' PROVE \E i \in Items : ids'[s][i] > 0
    BY DEF NoEmptySubscription
  <2>1. s \in subs /\ s \in SubIds /\ s \notin emptied
    BY <1>3, <1>5
  <2>2. CASE \E i \in Removed : mapping[i] = s
    BY <1>3, <2>1, <2>2
  <2>3. CASE ~\E i \in Removed : mapping[i] = s
    BY <1>10, <2>1, <2>3 DEF TablesInv, NoEmptySubscription
  <2> QED
    BY <2>2, <2>3
<1>16. MappingIsExact'
  <2> SUFFICES ASSUME ~expired, NEW i \in Items, NEW s \in SubIds
               PROVE  /\ ids'[s][i] = (IF mapping'[i] = s THEN 1 ELSE 0)
                      /\ i \in byAttr'[s] <=> mapping'[i] = s
    BY <1>4 DEF MappingIsExact
  <2>1. ids[s][i] = (IF mapping[i] = s THEN 1 ELSE 0) /\ (i \in byAttr[s] <=> mapping[i] = s)
    BY DEF TablesInv, MappingIsExact
  <2> QED
    BY <1>1, <1>4, <2>1
<1> QED
  BY <1>7, <1>8, <1>11, <1>12, <1>13, <1>14, <1>15, <1>16 DEF TablesInv

(* The set of items a signal loop is over. *)
LEMMA ItemsOfType ==
  ASSUME NEW S
  PROVE  ItemsOf(S) \in SUBSET Items
BY DEF ItemsOf

LEMMA TablesTimeout ==
  ASSUME TablesInv, BackendTimeout
  PROVE  TablesInv'
<1> DEFINE s == Head(calls).sub
           copied == Head(calls).items
<1>1. /\ TypeOK /\ calls # <<>> /\ 1 \in DOMAIN calls /\ Head(calls) = calls[1]
      /\ IsTimeout(Head(calls)) /\ Head(calls) \in Calls
  BY QueueElements DEF TablesInv, BackendTimeout, Runs, IsTimeout, TypeOK
<1>2. s \in SubIds /\ copied \in SUBSET Items /\ nextSub \in Nat
  BY <1>1, CallFields DEF TypeOK
<1>3. byAttr[s] \subseteq copied
  BY <1>1 DEF TablesInv, TimeoutsCover
<1>4. expired
  BY <1>1 DEF TablesInv, NoneTimesOut
<1>5. /\ s \in subs
      /\ mapping' = [i \in Items |-> IF i \in copied THEN NoSub ELSE mapping[i]]
      /\ subs' = subs \ {s}
      /\ signals' = signals \o DisabledAll(ItemsOf({s}))
      /\ ids' = [t \in SubIds |-> IF t = s THEN NoItems ELSE ids[t]]
      /\ byAttr' = [t \in SubIds |-> IF t = s THEN {} ELSE byAttr[t]]
      /\ ForgetSettings({s})
      /\ onServer' = onServer \ {s}
      /\ calls' = Tail(calls)
      /\ UNCHANGED <<clientVars, linkVars, minInterval, undefined, nextSub, expired>>
  BY DEF BackendTimeout, Unmapped, Cleared
<1> HIDE DEF s, copied
<1>6. /\ ids \in [SubIds -> [Items -> Nat]] /\ byAttr \in [SubIds -> SUBSET Items]
      /\ mapping \in [Items -> SubIds \cup {NoSub}] /\ subs \subseteq SubIds
  BY <1>1 DEF TypeOK
<1>7. NoNewTimeout /\ calls' \in Seq(Calls)
  BY <1>1, <1>5, CallTaken
<1>8. TypeOK'
  <2>1. signals' \in Seq(Signals)
    BY <1>1, <1>5, ItemsOfType, DisabledAllSignals, Concatenation DEF TypeOK
  <2>2. shared' \in [SubIds -> BOOLEAN] /\ interval' \in [SubIds -> Nat] /\ timedOut' \in [SubIds -> BOOLEAN]
    BY <1>1, <1>5, SettingsForgotten
  <2>3. /\ byAttr' \in [SubIds -> SUBSET Items] /\ mapping' \in [Items -> SubIds \cup {NoSub}]
        /\ ids' \in [SubIds -> [Items -> Nat]]
    BY <1>5, <1>6 DEF NoItems
  <2>4. subs' \subseteq SubIds /\ onServer' \subseteq SubIds
    BY <1>1, <1>5 DEF TypeOK
  <2> QED
    BY <1>1, <1>5, <1>7, <2>1, <2>2, <2>3, <2>4 DEF TypeOK, clientVars, linkVars
<1>9. IdsAreAssigned'
  BY <1>5 DEF TablesInv, IdsAreAssigned
<1>10. ObjectsAreWhole'
  BY <1>5, <1>6 DEF TablesInv, ObjectsAreWhole
<1>11. TimeoutsCover'
  <2>1. \A t \in SubIds : byAttr'[t] \subseteq byAttr[t]
    BY <1>5
  <2> QED
    BY <1>2, <1>5, <1>7, <2>1, TimeoutsKept
<1>12. NoneTimesOut' /\ MappingIsExact'
  BY <1>4, <1>5 DEF NoneTimesOut, MappingIsExact
<1>13. MappedItemsExist'
  <2> SUFFICES ASSUME NEW i \in Items, mapping'[i] # NoSub
               PROVE  mapping'[i] \in subs' /\ i \in byAttr'[mapping'[i]] /\ ids'[mapping'[i]][i] > 0
    BY DEF MappedItemsExist
  <2>1. i \notin copied /\ mapping'[i] = mapping[i] /\ mapping[i] \in SubIds
    BY <1>5, <1>6
  <2>2. mapping[i] \in subs /\ i \in byAttr[mapping[i]] /\ ids[mapping[i]][i] > 0
    BY <2>1 DEF TablesInv, MappedItemsExist
  <2>3. mapping[i] # s
    BY <1>3, <2>1, <2>2 DEF s, copied
  <2> QED
    BY <1>5, <2>1, <2>2, <2>3
<1>14. NoEmptySubscription'
  BY <1>5, <1>6 DEF TablesInv, NoEmptySubscription
<1> QED
  BY <1>8, <1>9, <1>10, <1>11, <1>12, <1>13, <1>14 DEF TablesInv

(* The application's and the client's steps touch no table. *)
LEMMA TablesApplication ==
  ASSUME TablesInv, Application \/ ClientLoop
  PROVE  TablesInv'
<1>0. TypeOK
  BY DEF TablesInv
<1>1. ASSUME NEW h \in Handles, NEW attrs \in SUBSET Attributes, NEW settings \in Settings,
             EnableMonitoring(h, attrs, settings)
      PROVE  TablesInv'
  <2> DEFINE c == [slot |-> "enableMonitoring", items |-> NodeItems(h, attrs), settings |-> settings]
  <2>1. c \in Calls /\ ~IsTimeout(c)
    BY DEF Calls, IsTimeout, NodeItems, Items
  <2>2. calls' = Append(calls, c) /\ UNCHANGED <<clientVars, signals, linkVars, tableVars, undefined, serverVars>>
    BY <1>1 DEF EnableMonitoring, Post
  <2>3. NoNewTimeout /\ calls' \in Seq(Calls)
    BY <1>0, <2>1, <2>2, CallPosted
  <2>4. TypeOK'
    BY <1>0, <2>2, <2>3 DEF TypeOK, clientVars, linkVars, tableVars, serverVars
  <2> QED
    BY <2>2, <2>3, <2>4, TablesUnchanged DEF tableVars, serverVars
<1>2. ASSUME NEW h \in Handles, NEW attrs \in SUBSET Attributes, DisableMonitoring(h, attrs)
      PROVE  TablesInv'
  <2> DEFINE c == [slot |-> "disableMonitoring", items |-> NodeItems(h, attrs)]
  <2>1. c \in Calls /\ ~IsTimeout(c)
    BY DEF Calls, IsTimeout, NodeItems, Items
  <2>2. calls' = Append(calls, c) /\ UNCHANGED <<clientVars, signals, linkVars, tableVars, undefined, serverVars>>
    BY <1>2 DEF DisableMonitoring, Post
  <2>3. NoNewTimeout /\ calls' \in Seq(Calls)
    BY <1>0, <2>1, <2>2, CallPosted
  <2>4. TypeOK'
    BY <1>0, <2>2, <2>3 DEF TypeOK, clientVars, linkVars, tableVars, serverVars
  <2> QED
    BY <2>2, <2>3, <2>4, TablesUnchanged DEF tableVars, serverVars
<1>3. ASSUME NEW h \in Handles, DestroyNode(h)
      PROVE  TablesInv'
  <2> DEFINE remaining == {i \in NodeItems(h, Attributes) : status[i] = "Good"}
             c == [slot |-> "disableMonitoring", items |-> remaining]
  <2>1. c \in Calls /\ ~IsTimeout(c)
    BY DEF Calls, IsTimeout, NodeItems, Items
  <2>2. /\ nodes' = nodes \ {h}
        /\ status' = [i \in Items |-> IF i[1] = h THEN "none" ELSE status[i]]
        /\ calls' = calls \/ calls' = Append(calls, c)
        /\ UNCHANGED <<connected, signals, linkVars, tableVars, undefined, serverVars>>
    BY <1>3 DEF DestroyNode
  <2>3. NoNewTimeout /\ calls' \in Seq(Calls)
    BY <1>0, <2>1, <2>2, CallPosted, CallsUnchanged
  <2>4. TypeOK'
    BY <1>0, <2>2, <2>3 DEF TypeOK, linkVars, tableVars, serverVars
  <2> QED
    BY <2>2, <2>3, <2>4, TablesUnchanged DEF tableVars, serverVars
<1>4. ASSUME ConnectToEndpoint \/ DisconnectFromEndpoint
      PROVE  TablesInv'
  <2>1. PICK c \in Calls : ~IsTimeout(c) /\ Post(c)
    <3>1. [slot |-> "connectToEndpoint"] \in Calls /\ [slot |-> "disconnectFromEndpoint"] \in Calls
      BY DEF Calls
    <3> QED
      BY <1>4, <3>1 DEF ConnectToEndpoint, DisconnectFromEndpoint, IsTimeout
  <2>2. calls' = Append(calls, c) /\ UNCHANGED <<signals, linkVars, tableVars, undefined, serverVars>>
    BY <2>1 DEF Post
  <2>3. NoNewTimeout /\ calls' \in Seq(Calls)
    BY <1>0, <2>1, <2>2, CallPosted
  <2>4. connected' \in BOOLEAN /\ nodes' = nodes /\ status' = status
    BY <1>0, <1>4 DEF ConnectToEndpoint, DisconnectFromEndpoint, clientVars, TypeOK
  <2>5. TypeOK'
    BY <1>0, <2>2, <2>3, <2>4 DEF TypeOK, linkVars, tableVars, serverVars
  <2> QED
    BY <2>2, <2>3, <2>5, TablesUnchanged DEF tableVars, serverVars
<1>5. ASSUME ClientLoop
      PROVE  TablesInv'
  <2>1. /\ signals # <<>> /\ signals' = Tail(signals)
        /\ UNCHANGED <<nodes, calls, linkVars, tableVars, undefined, serverVars>>
    BY <1>5 DEF ClientLoop, HandleMonitoringEnableDisable, HandleStateAndOrErrorChanged
  <2>2. Head(signals) \in Signals /\ signals' \in Seq(Signals)
    BY <1>0, <2>1, QueueElements DEF TypeOK
  <2>3. connected' \in BOOLEAN /\ status' \in [Items -> {"none", "Good", "Bad"}]
    <3>1. CASE HandleMonitoringEnableDisable
      <4>1. Head(signals).item \in Items /\ Head(signals).code \in Codes
        BY <2>2, <3>1 DEF HandleMonitoringEnableDisable, Signals
      <4>2. NewStatus(Head(signals)) \in {"none", "Good", "Bad"}
        BY <1>0, <4>1 DEF NewStatus, Codes, TypeOK
      <4> QED
        BY <1>0, <3>1, <4>1, <4>2 DEF HandleMonitoringEnableDisable, TypeOK
    <3>2. CASE HandleStateAndOrErrorChanged
      BY <1>0, <2>2, <3>2 DEF HandleStateAndOrErrorChanged, Signals, TypeOK
    <3> QED
      BY <1>5, <3>1, <3>2 DEF ClientLoop
  <2>4. TypeOK'
    BY <1>0, <2>1, <2>2, <2>3 DEF TypeOK, linkVars, tableVars, serverVars
  <2>5. NoNewTimeout
    BY <1>0, <2>1, CallsUnchanged
  <2> QED
    BY <2>1, <2>4, <2>5, TablesUnchanged DEF tableVars, serverVars
<1> QED
  BY <1>1, <1>2, <1>3, <1>4, <1>5 DEF Application

(* What the steps that end a connection emit. *)
LEMMA ClosingTypes ==
  /\ DisabledAll(ItemsOf(subs)) \in Seq(Signals)
  /\ ClosingSignals \in Seq(Signals)
  /\ \A c \in BOOLEAN : <<State(c)>> \in Seq(Signals)
<1>1. \A c \in BOOLEAN : State(c) \in Signals
  BY DEF State, Signals
<1>2. DisabledAll(ItemsOf(subs)) \in Seq(Signals)
  BY ItemsOfType, DisabledAllSignals
<1>3. \A c \in BOOLEAN : <<State(c)>> \in Seq(Signals)
  <2> SUFFICES ASSUME NEW x \in Signals PROVE <<x>> \in Seq(Signals)
    BY <1>1
  <2> QED
    OBVIOUS
<1>4. CASE uaclient = "null"
  <2>1. ClosingSignals = DisabledAll(ItemsOf(subs)) \o <<>> /\ <<>> \in Seq(Signals)
    BY <1>4 DEF ClosingSignals
  <2> QED
    BY <1>2, <1>3, <2>1, Concatenation
<1>5. CASE uaclient # "null"
  <2>1. ClosingSignals = DisabledAll(ItemsOf(subs)) \o <<State(FALSE)>>
    BY <1>5 DEF ClosingSignals
  <2> QED
    BY <1>2, <1>3, <2>1, Concatenation
<1> QED
  BY <1>4, <1>5

LEMMA CleanupTypes ==
  ASSUME TypeOK, CleanupTables
  PROVE  /\ subs' \subseteq SubIds /\ onServer' \subseteq SubIds
         /\ ids' \in [SubIds -> [Items -> Nat]] /\ byAttr' \in [SubIds -> SUBSET Items]
         /\ shared' \in [SubIds -> BOOLEAN] /\ interval' \in [SubIds -> Nat]
         /\ timedOut' \in [SubIds -> BOOLEAN] /\ mapping' \in [Items -> SubIds \cup {NoSub}]
         /\ minInterval' \in Nat /\ nextSub' \in 1..MaxSubs + 1 /\ expired' \in BOOLEAN
<1>1. shared' \in [SubIds -> BOOLEAN] /\ interval' \in [SubIds -> Nat] /\ timedOut' \in [SubIds -> BOOLEAN]
  BY SettingsForgotten DEF CleanupTables
<1> QED
  BY <1>1 DEF CleanupTables, Cleared, NoItems, TypeOK

LEMMA TablesBackendSlot ==
  ASSUME TablesInv, BackendSlot
  PROVE  TablesInv'
<1>0. TypeOK
  BY DEF TablesInv
<1>1. CASE BackendEnableExisting
  BY <1>1, TablesEnableExisting
<1>2. CASE BackendEnableCreate
  BY <1>2, TablesEnableCreate
<1>3. CASE BackendEnableNoSubscription
  <2>1. /\ Runs("enableMonitoring")
        /\ signals' = signals \o EnabledAll(Head(calls).items, [i \in Items |-> "Bad"])
        /\ calls' = Tail(calls)
        /\ UNCHANGED <<clientVars, linkVars, tableVars, undefined, serverVars>>
    BY <1>3 DEF BackendEnableNoSubscription
  <2>2. NoNewTimeout /\ calls' \in Seq(Calls)
    BY <1>0, <2>1, EnableCall, CallTaken
  <2>3. [i \in Items |-> "Bad"] \in [Items -> Codes]
    BY DEF Codes
  <2>4. signals' \in Seq(Signals)
    BY <1>0, <2>1, <2>3, EnableCall, EnabledAllSignals, Concatenation DEF TypeOK
  <2>5. TypeOK'
    BY <1>0, <2>1, <2>2, <2>4 DEF TypeOK, clientVars, linkVars, tableVars, serverVars
  <2> QED
    BY <2>1, <2>2, <2>5, TablesUnchanged DEF tableVars, serverVars
<1>4. CASE BackendEnableOnNull \/ BackendTimeoutDangling
  <2>1. undefined' = TRUE /\ UNCHANGED <<clientVars, queueVars, linkVars, tableVars, serverVars>>
    BY <1>4 DEF BackendEnableOnNull, BackendTimeoutDangling
  <2>2. TypeOK' /\ NoNewTimeout
    BY <1>0, <2>1, CallsUnchanged DEF TypeOK, clientVars, queueVars, linkVars, tableVars, serverVars
  <2> QED
    BY <2>1, <2>2, TablesUnchanged DEF tableVars, serverVars
<1>5. CASE BackendDisable
  BY <1>5, TablesDisable
<1>6. CASE BackendTimeout
  BY <1>6, TablesTimeout
<1>7. CASE BackendCleanup \/ BackendDisconnect \/ \E succeeds \in BOOLEAN : BackendConnect(succeeds)
  <2>1. /\ CleanupTables /\ calls # <<>> /\ calls' = Tail(calls)
        /\ UNCHANGED <<clientVars, timer, undefined>>
        /\ uaclient' \in {"null", "open", "broken"} /\ watched' \in BOOLEAN
    BY <1>0, <1>7 DEF BackendCleanup, BackendDisconnect, BackendConnect, Runs, linkVars, TypeOK
  <2>2. signals' \in Seq(Signals)
    <3>1. signals \in Seq(Signals)
      BY <1>0 DEF TypeOK
    <3>2. CASE BackendCleanup
      BY <3>1, <3>2, ClosingTypes, Concatenation DEF BackendCleanup
    <3>3. CASE BackendDisconnect
      BY <3>1, <3>3, ClosingTypes, Concatenation DEF BackendDisconnect
    <3>4. ASSUME NEW succeeds \in BOOLEAN, BackendConnect(succeeds)
          PROVE  signals' \in Seq(Signals)
      <4>1. signals' = signals \o ClosingSignals \o <<State(succeeds)>>
        BY <3>4 DEF BackendConnect
      <4>2. signals \o ClosingSignals \in Seq(Signals)
        BY <3>1, ClosingTypes, Concatenation
      <4> QED
        BY <4>1, <4>2, ClosingTypes, Concatenation
    <3> QED
      BY <1>7, <3>2, <3>3, <3>4
  <2>3. NoNewTimeout /\ calls' \in Seq(Calls)
    BY <1>0, <2>1, CallTaken
  <2>4. TypeOK'
    BY <1>0, <2>1, <2>2, <2>3, CleanupTypes DEF TypeOK, clientVars
  <2> QED
    BY <2>1, <2>3, <2>4, TablesCleaned
<1> QED
  BY <1>1, <1>2, <1>3, <1>4, <1>5, <1>6, <1>7 DEF BackendSlot

LEMMA TablesBackendEvents ==
  ASSUME TablesInv,
         DisconnectTimeout \/ (\E notConnected \in BOOLEAN : IterateClient(notConnected)) \/ ChannelBreaks
  PROVE  TablesInv'
<1>0. TypeOK /\ signals \in Seq(Signals)
  BY DEF TablesInv, TypeOK
<1>1. CASE DisconnectTimeout
  <2>1. /\ CleanupTables /\ calls' = calls /\ uaclient' = "null" /\ watched' = FALSE /\ timer' = FALSE
        /\ signals' = signals \o ClosingSignals /\ UNCHANGED <<clientVars, undefined>>
    BY <1>1 DEF DisconnectTimeout
  <2>2. signals' \in Seq(Signals)
    BY <1>0, <2>1, ClosingTypes, Concatenation
  <2>3. TypeOK' /\ NoNewTimeout
    BY <1>0, <2>1, <2>2, CallsUnchanged, CleanupTypes DEF TypeOK, clientVars
  <2> QED
    BY <2>1, <2>3, TablesCleaned
<1>2. ASSUME NEW notConnected \in BOOLEAN, IterateClient(notConnected)
      PROVE  TablesInv'
  <2> DEFINE c == [slot |-> "cleanupSubscriptions"]
  <2>1. c \in Calls /\ ~IsTimeout(c)
    BY DEF Calls, IsTimeout
  <2>2. /\ calls' = Append(calls, c) /\ watched' = FALSE /\ timer' = TRUE
        /\ UNCHANGED <<clientVars, uaclient, undefined>>
    BY <1>2 DEF IterateClient
  <2>3. NoNewTimeout /\ calls' \in Seq(Calls)
    BY <1>0, <2>1, <2>2, CallPosted
  <2>4. CASE notConnected
    <3>1. CleanupTables /\ signals' = signals \o DisabledAll(ItemsOf(subs))
      BY <1>2, <2>4 DEF IterateClient
    <3>2. signals' \in Seq(Signals)
      BY <1>0, <3>1, ClosingTypes, Concatenation
    <3>3. TypeOK'
      BY <1>0, <2>2, <2>3, <3>1, <3>2, CleanupTypes DEF TypeOK, clientVars
    <3> QED
      BY <2>3, <3>1, <3>3, TablesCleaned
  <2>5. CASE ~notConnected
    <3>1. UNCHANGED <<signals, tableVars, serverVars>>
      BY <1>2, <2>5 DEF IterateClient
    <3>2. TypeOK'
      BY <1>0, <2>2, <2>3, <3>1 DEF TypeOK, clientVars, tableVars, serverVars
    <3> QED
      BY <2>3, <3>1, <3>2, TablesUnchanged DEF tableVars, serverVars
  <2> QED
    BY <2>4, <2>5
<1>3. CASE ChannelBreaks
  <2>1. /\ uaclient' = "broken"
        /\ UNCHANGED <<clientVars, queueVars, watched, timer, tableVars, undefined, serverVars>>
    BY <1>3 DEF ChannelBreaks
  <2>2. TypeOK' /\ NoNewTimeout
    BY <1>0, <2>1, CallsUnchanged DEF TypeOK, clientVars, queueVars, tableVars, serverVars
  <2> QED
    BY <2>1, <2>2, TablesUnchanged DEF tableVars, serverVars
<1> QED
  BY <1>1, <1>2, <1>3

LEMMA TablesInit == Init => TablesInv
<1> SUFFICES ASSUME Init PROVE TablesInv
  OBVIOUS
<1>1. TypeOK
  <2>1. calls \in Seq(Calls) /\ signals \in Seq(Signals)
    BY DEF Init
  <2>2. nextSub \in 1..MaxSubs + 1
    BY MaxSubsAssumption DEF Init
  <2>3. NoItems \in [Items -> Nat]
    BY DEF NoItems
  <2>4. /\ subs \subseteq SubIds /\ onServer \subseteq SubIds
        /\ ids \in [SubIds -> [Items -> Nat]] /\ byAttr \in [SubIds -> SUBSET Items]
        /\ shared \in [SubIds -> BOOLEAN] /\ interval \in [SubIds -> Nat]
        /\ timedOut \in [SubIds -> BOOLEAN] /\ mapping \in [Items -> SubIds \cup {NoSub}]
    BY <2>3 DEF Init
  <2>5. status \in [Items -> {"none", "Good", "Bad"}]
    BY DEF Init
  <2> QED
    BY <2>1, <2>2, <2>4, <2>5 DEF Init, TypeOK
<1>2. IdsAreAssigned /\ TimeoutsCover /\ NoneTimesOut
  BY DEF Init, IdsAreAssigned, TimeoutsCover, NoneTimesOut
<1>3. ObjectsAreWhole
  BY DEF Init, ObjectsAreWhole
<1>4. MappedItemsExist /\ NoEmptySubscription
  BY DEF Init, MappedItemsExist, NoEmptySubscription
<1>5. MappingIsExact
  BY DEF Init, MappingIsExact, NoItems, NoSub, SubIds
<1> QED
  BY <1>1, <1>2, <1>3, <1>4, <1>5 DEF TablesInv

LEMMA TablesNext == TablesInv /\ [Next]_vars => TablesInv'
<1> SUFFICES ASSUME TablesInv, [Next]_vars PROVE TablesInv'
  OBVIOUS
<1>1. CASE Application \/ ClientLoop
  BY <1>1, TablesApplication
<1>2. CASE BackendSlot
  BY <1>2, TablesBackendSlot
<1>3. CASE DisconnectTimeout \/ (\E notConnected \in BOOLEAN : IterateClient(notConnected)) \/ ChannelBreaks
  BY <1>3, TablesBackendEvents
<1>4. CASE \E s \in SubIds : SendTimeoutNotification(s) \/ ServerExpires(s)
  BY <1>4, TablesTimeoutSent, TablesServerExpires
<1>5. CASE UNCHANGED vars
  <2>1. TypeOK' /\ NoNewTimeout
    BY <1>5, CallsUnchanged DEF TablesInv, TypeOK, vars, clientVars, queueVars, linkVars, tableVars, serverVars
  <2> QED
    BY <1>5, <2>1, TablesUnchanged DEF vars, tableVars, serverVars
<1> QED
  BY <1>1, <1>2, <1>3, <1>4, <1>5 DEF Next

LEMMA TablesInvariant == Spec => []TablesInv
BY TablesInit, TablesNext, PTL DEF Spec

(* Every variable of the monitoring keeps its type; in particular the      *)
(* count of items never falls below zero when disableMonitoring() removes  *)
(* one.                                                                    *)
THEOREM SubscriptionsTypeCorrect == Spec => []TypeOK
<1>1. TablesInv => TypeOK
  BY DEF TablesInv
<1> QED
  BY <1>1, TablesInvariant, PTL

(* m_attributeMapping never points to a deleted subscription, whatever the *)
(* order of expiry, timeout, cleanup and the application's calls.          *)
THEOREM SubscriptionsMappedItemsExist == Spec => []MappedItemsExist
<1>1. TablesInv => MappedItemsExist
  BY DEF TablesInv
<1> QED
  BY <1>1, TablesInvariant, PTL

(* No slot leaves a subscription without a monitored item behind. *)
THEOREM SubscriptionsNoneEmpty == Spec => []NoEmptySubscription
<1>1. TablesInv => NoEmptySubscription
  BY DEF TablesInv
<1> QED
  BY <1>1, TablesInvariant, PTL

(* The tables say the same as long as the server expires nothing. *)
THEOREM SubscriptionsMappingExact == Spec => []MappingIsExact
<1>1. TablesInv => MappingIsExact
  BY DEF TablesInv
<1> QED
  BY <1>1, TablesInvariant, PTL

-----------------------------------------------------------------------------
(* The status the nodes show.                                              *)

(* Signals are added.  It is enough that they grant no item that is not    *)
(* monitored afterwards and withdraw each item that was until now.         *)
LEMMA StatusExtended ==
  ASSUME TypeOK, StatusInv, UNCHANGED <<nodes, status>>,
         NEW r \in Seq(Signals), signals' = signals \o r,
         \A i \in Items : ~IsMonitored(i)' =>
           /\ \A k \in DOMAIN r : ~Grants(r[k], i)
           /\ IsMonitored(i) => \E k \in DOMAIN r : Withdraws(r[k], i)
  PROVE  StatusInv'
<1>1. signals \in Seq(Signals) /\ Len(signals) \in Nat /\ DOMAIN signals = 1..Len(signals)
      /\ DOMAIN r \subseteq Nat \ {0}
  BY DEF TypeOK
<1>2. /\ \A k \in DOMAIN signals : k \in DOMAIN signals' /\ signals'[k] = signals[k]
      /\ \A k \in DOMAIN r : Len(signals) + k \in DOMAIN signals' /\ signals'[Len(signals) + k] = r[k]
      /\ \A k \in DOMAIN signals' : k \in DOMAIN signals \/ k - Len(signals) \in DOMAIN r
  BY <1>1, Concatenation
<1>3. DOMAIN signals' \subseteq Nat
  BY <1>1, Concatenation
<1> SUFFICES ASSUME NEW i \in Items, ~IsMonitored(i)'
             PROVE  WithdrawalIsQueued(i)'
  BY DEF StatusInv
<1>4. \A k \in DOMAIN signals' : Grants(signals'[k], i) => k \in DOMAIN signals
  <2> SUFFICES ASSUME NEW k \in DOMAIN signals', Grants(signals'[k], i), k \notin DOMAIN signals
               PROVE  FALSE
    OBVIOUS
  <2>1. k - Len(signals) \in DOMAIN r /\ Len(signals) + (k - Len(signals)) = k
    BY <1>1, <1>2, <1>3
  <2>2. signals'[k] = r[k - Len(signals)]
    BY <1>2, <2>1
  <2> QED
    BY <2>1, <2>2
<1>5. CASE IsMonitored(i)
  <2>1. PICK m \in DOMAIN r : Withdraws(r[m], i)
    BY <1>5
  <2>2. Len(signals) + m \in DOMAIN signals' /\ Withdraws(signals'[Len(signals) + m], i)
    BY <1>2, <2>1
  <2>3. \A k \in DOMAIN signals : Len(signals) + m > k
    BY <1>1
  <2> QED
    BY <1>4, <2>2, <2>3 DEF WithdrawalIsQueued
<1>6. CASE ~IsMonitored(i)
  <2>1. WithdrawalIsQueued(i)
    BY <1>6 DEF StatusInv
  <2>2. status'[i] = "Good" => \E k \in DOMAIN signals' : Withdraws(signals'[k], i)
    BY <1>2, <2>1 DEF WithdrawalIsQueued
  <2>3. \A k \in DOMAIN signals' : Grants(signals'[k], i) =>
          \E l \in DOMAIN signals' : l > k /\ Withdraws(signals'[l], i)
    BY <1>2, <1>4, <2>1 DEF WithdrawalIsQueued
  <2> QED
    BY <2>2, <2>3 DEF WithdrawalIsQueued
<1> QED
  BY <1>5, <1>6

(* Nothing that the status depends on changes. *)
LEMMA StatusSame ==
  ASSUME StatusInv, UNCHANGED <<nodes, status, signals, subs, ids>>
  PROVE  StatusInv'
BY DEF StatusInv, IsMonitored, WithdrawalIsQueued, Grants, Withdraws, IsAbout

(* The destroyed node shows no status any more. *)
LEMMA StatusDestroyed ==
  ASSUME TypeOK, StatusInv, NEW h \in Handles, DestroyNode(h)
  PROVE  StatusInv'
<1>1. /\ nodes' = nodes \ {h}
      /\ status' = [i \in Items |-> IF i[1] = h THEN "none" ELSE status[i]]
      /\ UNCHANGED <<signals, tableVars>>
  BY DEF DestroyNode
<1>2. \A i \in Items : i[1] \notin nodes' => status'[i] # "Good"
  BY <1>1 DEF StatusInv
<1>3. \A i \in Items : ~IsMonitored(i)' => WithdrawalIsQueued(i)'
  BY <1>1 DEF StatusInv, IsMonitored, WithdrawalIsQueued, Grants, Withdraws, IsAbout, tableVars
<1> QED
  BY <1>2, <1>3 DEF StatusInv

(* A signal is handled: a withdrawal that is still queued comes later than *)
(* the status this one sets.                                               *)
LEMMA StatusHandled ==
  ASSUME TypeOK, StatusInv, ClientLoop
  PROVE  StatusInv'
<1> DEFINE s == Head(signals)
<1>1. /\ signals # <<>> /\ signals' = Tail(signals)
      /\ UNCHANGED <<nodes, tableVars>>
  BY DEF ClientLoop, HandleMonitoringEnableDisable, HandleStateAndOrErrorChanged
<1>2. /\ signals \in Seq(Signals) /\ s = signals[1] /\ s \in Signals
      /\ DOMAIN signals = 1..Len(signals) /\ DOMAIN signals' = 1..(Len(signals) - 1)
      /\ Len(signals) \in Nat /\ Len(signals) > 0
      /\ \A k \in DOMAIN signals' : signals'[k] = signals[k + 1]
  BY <1>1 DEF TypeOK
<1> HIDE DEF s
<1>3. \A i \in Items : status'[i] = status[i] \/ (i[1] \in nodes /\ IsAbout(s, i))
  <2>1. CASE HandleMonitoringEnableDisable
    BY <2>1 DEF HandleMonitoringEnableDisable, IsAbout, TypeOK, s
  <2>2. CASE HandleStateAndOrErrorChanged
    BY <2>2 DEF HandleStateAndOrErrorChanged
  <2> QED
    BY <2>1, <2>2 DEF ClientLoop
<1>4. \A i \in Items : i[1] \notin nodes' => status'[i] # "Good"
  BY <1>1, <1>3 DEF StatusInv
<1>5. \A i \in Items : i[1] \in nodes /\ IsAbout(s, i) => status'[i] = NewStatus(s)
  <2>1. CASE HandleMonitoringEnableDisable
    BY <2>1 DEF HandleMonitoringEnableDisable, IsAbout, TypeOK, s
  <2>2. CASE HandleStateAndOrErrorChanged
    BY <2>2 DEF HandleStateAndOrErrorChanged, IsAbout, s
  <2> QED
    BY <2>1, <2>2 DEF ClientLoop
<1>6. ASSUME NEW i \in Items, ~IsMonitored(i)'
      PROVE  WithdrawalIsQueued(i)'
  <2>1. WithdrawalIsQueued(i)
    BY <1>1, <1>6 DEF StatusInv, IsMonitored, tableVars
  <2>2. \A k \in DOMAIN signals : k # 1 => k - 1 \in DOMAIN signals' /\ signals'[k - 1] = signals[k]
    BY <1>2
  <2>3. \A k \in DOMAIN signals' : Grants(signals'[k], i) =>
          \E l \in DOMAIN signals' : l > k /\ Withdraws(signals'[l], i)
    <3> SUFFICES ASSUME NEW k \in DOMAIN signals', Grants(signals'[k], i)
                 PROVE  \E l \in DOMAIN signals' : l > k /\ Withdraws(signals'[l], i)
      OBVIOUS
    <3>1. k + 1 \in DOMAIN signals /\ Grants(signals[k + 1], i) /\ k \in Nat
      BY <1>2
    <3>2. PICK l \in DOMAIN signals : l > k + 1 /\ Withdraws(signals[l], i)
      BY <2>1, <3>1 DEF WithdrawalIsQueued
    <3>3. l \in Nat /\ l - 1 > k /\ l - 1 \in DOMAIN signals' /\ signals'[l - 1] = signals[l]
      BY <1>2, <2>2, <3>1, <3>2
    <3> QED
      BY <3>2, <3>3
  <2>4. status'[i] = "Good" => \E k \in DOMAIN signals' : Withdraws(signals'[k], i)
    <3> SUFFICES ASSUME status'[i] = "Good"
                 PROVE  \E k \in DOMAIN signals' : Withdraws(signals'[k], i)
      OBVIOUS
    <3>1. ASSUME NEW l \in DOMAIN signals, Withdraws(signals[l], i), l # 1
          PROVE  \E k \in DOMAIN signals' : Withdraws(signals'[k], i)
      BY <2>2, <3>1
    <3>2. CASE Grants(s, i)
      <4>1. PICK l \in DOMAIN signals : l > 1 /\ Withdraws(signals[l], i)
        BY <1>2, <2>1, <3>2 DEF WithdrawalIsQueued
      <4> QED
        BY <1>2, <3>1, <4>1
    <3>3. CASE ~Grants(s, i)
      <4>1. status[i] = "Good" /\ ~Withdraws(s, i)
        <5>1. CASE i[1] \in nodes /\ IsAbout(s, i)
          <6>1. NewStatus(s) = "Good" /\ s.item = i /\ s.kind = "monitoringEnableDisable"
            BY <1>5, <5>1 DEF IsAbout
          <6>2. s.subscribe \in BOOLEAN /\ s.code \in Codes
            BY <1>2, <6>1 DEF Signals
          <6> QED
            BY <3>3, <5>1, <6>1, <6>2 DEF NewStatus, Grants, Withdraws, Codes
        <5>2. CASE ~(i[1] \in nodes /\ IsAbout(s, i))
          <6>1. status[i] = "Good"
            BY <1>3, <5>2
          <6>2. i[1] \in nodes
            BY <6>1 DEF StatusInv
          <6> QED
            BY <5>2, <6>1, <6>2 DEF Withdraws
        <5> QED
          BY <5>1, <5>2
      <4>2. PICK l \in DOMAIN signals : Withdraws(signals[l], i)
        BY <2>1, <4>1 DEF WithdrawalIsQueued
      <4> QED
        BY <1>2, <3>1, <4>1, <4>2
    <3> QED
      BY <3>2, <3>3
  <2> QED
    BY <2>3, <2>4 DEF WithdrawalIsQueued
<1> QED
  BY <1>4, <1>6 DEF StatusInv

(* Which items the emitted signals grant and withdraw. *)
LEMMA EnabledGrants ==
  ASSUME NEW S \in SUBSET Items, NEW code \in [Items -> Codes], NEW i \in Items, code[i] # "Good",
         NEW k \in DOMAIN EnabledAll(S, code)
  PROVE  ~Grants(EnabledAll(S, code)[k], i)
<1>1. PICK j \in S : EnabledAll(S, code)[k] = Enabled(j, code[j])
  BY EnabledAllSignals
<1> QED
  BY <1>1 DEF Grants, IsAbout, Enabled

LEMMA DisabledWithdraws ==
  ASSUME NEW S \in SUBSET Items, NEW i \in Items
  PROVE  /\ \A k \in DOMAIN DisabledAll(S) : ~Grants(DisabledAll(S)[k], i)
         /\ i \in S => \E k \in DOMAIN DisabledAll(S) : Withdraws(DisabledAll(S)[k], i)
<1>1. \A j \in S : ~Grants(Disabled(j), i) /\ Withdraws(Disabled(i), i)
  BY DEF Grants, Withdraws, IsAbout, Disabled
<1>2. \A k \in DOMAIN DisabledAll(S) : ~Grants(DisabledAll(S)[k], i)
  BY <1>1, DisabledAllSignals
<1>3. i \in S => \E k \in DOMAIN DisabledAll(S) : Withdraws(DisabledAll(S)[k], i)
  BY <1>1, DisabledAllSignals
<1> QED
  BY <1>2, <1>3

(* Signals about the connection say nothing about items. *)
LEMMA StateAppended ==
  ASSUME NEW r \in Seq(Signals), NEW c \in BOOLEAN, NEW i \in Items
  PROVE  /\ r \o <<State(c)>> \in Seq(Signals)
         /\ (\A k \in DOMAIN r : ~Grants(r[k], i)) =>
              \A k \in DOMAIN (r \o <<State(c)>>) : ~Grants((r \o <<State(c)>>)[k], i)
         /\ (\E k \in DOMAIN r : Withdraws(r[k], i)) =>
              \E k \in DOMAIN (r \o <<State(c)>>) : Withdraws((r \o <<State(c)>>)[k], i)
<1>1. State(c) \in Signals /\ ~Grants(State(c), i)
  BY DEF State, Signals, Grants, IsAbout
<1> DEFINE x == State(c)
<1> HIDE DEF x
<1>2. /\ r \o <<x>> \in Seq(Signals)
      /\ \A k \in DOMAIN r : k \in DOMAIN (r \o <<x>>) /\ (r \o <<x>>)[k] = r[k]
      /\ \A k \in DOMAIN (r \o <<x>>) : (k \in DOMAIN r /\ (r \o <<x>>)[k] = r[k]) \/ (r \o <<x>>)[k] = x
  BY <1>1 DEF x
<1>3. (\A k \in DOMAIN r : ~Grants(r[k], i)) =>
        \A k \in DOMAIN (r \o <<x>>) : ~Grants((r \o <<x>>)[k], i)
  BY <1>1, <1>2 DEF x
<1>4. (\E k \in DOMAIN r : Withdraws(r[k], i)) =>
        \E k \in DOMAIN (r \o <<x>>) : Withdraws((r \o <<x>>)[k], i)
  BY <1>2
<1> QED
  BY <1>2, <1>3, <1>4 DEF x

(* Cleaning up withdraws every item that was monitored; what else is       *)
(* emitted is about the connection.                                        *)
Closes(r) ==
  /\ r \in Seq(Signals)
  /\ \A i \in Items :
       /\ \A k \in DOMAIN r : ~Grants(r[k], i)
       /\ IsMonitored(i) => \E k \in DOMAIN r : Withdraws(r[k], i)

LEMMA ClosesAll ==
  ASSUME TypeOK
  PROVE  /\ Closes(DisabledAll(ItemsOf(subs)))
         /\ Closes(ClosingSignals)
         /\ \A c \in BOOLEAN : Closes(ClosingSignals \o <<State(c)>>)
<1>1. Closes(DisabledAll(ItemsOf(subs)))
  <2>1. \A i \in Items : IsMonitored(i) => i \in ItemsOf(subs)
    BY DEF IsMonitored, ItemsOf
  <2> QED
    BY <2>1, ItemsOfType, DisabledAllSignals, DisabledWithdraws DEF Closes
<1>2. ASSUME NEW r, Closes(r), NEW c \in BOOLEAN
      PROVE  Closes(r \o <<State(c)>>)
  <2>0. r \in Seq(Signals)
    BY <1>2 DEF Closes
  <2>1. r \o <<State(c)>> \in Seq(Signals)
    <3>1. State(c) \in Signals
      BY DEF State, Signals
    <3> QED
      BY <2>0, <3>1
  <2>2. ASSUME NEW i \in Items
        PROVE  /\ \A k \in DOMAIN (r \o <<State(c)>>) : ~Grants((r \o <<State(c)>>)[k], i)
               /\ IsMonitored(i) => \E k \in DOMAIN (r \o <<State(c)>>) : Withdraws((r \o <<State(c)>>)[k], i)
    BY <1>2, <2>0, StateAppended DEF Closes
  <2> QED
    BY <2>1, <2>2 DEF Closes
<1>3. Closes(ClosingSignals)
  <2> DEFINE d == DisabledAll(ItemsOf(subs))
  <2>1. CASE uaclient = "null"
    <3>1. ClosingSignals = d
      <4>1. d \in Seq(Signals)
        BY <1>1 DEF Closes
      <4>2. ClosingSignals = d \o <<>>
        BY <2>1 DEF ClosingSignals
      <4> HIDE DEF d
      <4> QED
        BY <4>1, <4>2
    <3> QED
      BY <1>1, <3>1
  <2>2. CASE uaclient # "null"
    <3>1. ClosingSignals = d \o <<State(FALSE)>>
      BY <2>2 DEF ClosingSignals
    <3> QED
      BY <1>1, <1>2, <3>1
  <2> QED
    BY <2>1, <2>2
<1> QED
  BY <1>1, <1>2, <1>3

LEMMA StatusClosed ==
  ASSUME TypeOK, StatusInv, UNCHANGED <<nodes, status>>, NEW r, Closes(r), signals' = signals \o r
  PROVE  StatusInv'
BY StatusExtended DEF Closes

(* Adding items grants only what is monitored from then on. *)
LEMMA StatusAdded ==
  ASSUME TypeOK, StatusInv, Runs("enableMonitoring"),
         NEW s \in SubIds, NEW granted \in SUBSET Items, NEW held, AddItems(s, granted, held)
  PROVE  StatusInv'
<1>1. /\ ids \in [SubIds -> [Items -> Nat]] /\ subs \subseteq SubIds
      /\ Adds(s, granted, held)
  BY AddItemsTables DEF TypeOK
<1>2. /\ AddCodes(granted) \in [Items -> Codes]
      /\ signals' = signals \o EnabledAll(Head(calls).items, AddCodes(granted))
      /\ UNCHANGED <<nodes, status>>
  BY AddItemsSignals DEF clientVars
<1>3. ASSUME NEW i \in Items, ids'[s][i] > 0
      PROVE  IsMonitored(i)'
  BY <1>1, <1>3 DEF Adds, IsMonitored
<1>4. ASSUME NEW i \in Items, IsMonitored(i)
      PROVE  IsMonitored(i)'
  <2>1. PICK t \in subs : ids[t][i] > 0
    BY <1>4 DEF IsMonitored
  <2>2. CASE t = s
    BY <1>1, <1>3, <2>1, <2>2 DEF Adds
  <2>3. CASE t # s
    <3>1. t \in subs' /\ ids'[t] = ids[t]
      BY <1>1, <2>3 DEF Adds
    <3> QED
      BY <2>1, <3>1 DEF IsMonitored
  <2> QED
    BY <2>2, <2>3
<1>5. ASSUME NEW i \in Items, AddCodes(granted)[i] = "Good"
      PROVE  IsMonitored(i)'
  <2>1. i \in granted
    BY <1>5 DEF AddCodes
  <2>2. ids'[s][i] > 0
    BY <1>1, <2>1 DEF Adds
  <2> QED
    BY <1>3, <2>2
<1>6. Head(calls).items \in SUBSET Items
  BY EnableCall
<1> DEFINE r == EnabledAll(Head(calls).items, AddCodes(granted))
<1>7. r \in Seq(Signals)
  BY <1>2, <1>6, EnabledAllSignals
<1>8. \A i \in Items : ~IsMonitored(i)' =>
        /\ \A k \in DOMAIN r : ~Grants(r[k], i)
        /\ IsMonitored(i) => \E k \in DOMAIN r : Withdraws(r[k], i)
  BY <1>2, <1>4, <1>5, <1>6, EnabledGrants
<1> HIDE DEF r
<1> QED
  BY <1>2, <1>7, <1>8, StatusExtended DEF r

LEMMA StatusEnabled ==
  ASSUME TypeOK, StatusInv, BackendEnableExisting \/ BackendEnableCreate
  PROVE  StatusInv'
<1>1. Runs("enableMonitoring")
  BY DEF BackendEnableExisting, BackendEnableCreate, NeedsCreate
<1>2. NewItems \in SUBSET Items
  BY <1>1, EnableCall DEF NewItems
<1>3. CASE BackendEnableExisting
  <2>1. PICK s \in Existing(Head(calls).settings) :
          \E granted \in SUBSET (IF uaclient = "open" /\ s \in onServer THEN NewItems ELSE {}) :
            AddItems(s, granted, onServer)
    BY <1>3 DEF BackendEnableExisting
  <2>2. PICK granted \in SUBSET (IF uaclient = "open" /\ s \in onServer THEN NewItems ELSE {}) :
          AddItems(s, granted, onServer)
    BY <2>1
  <2>3. s \in SubIds /\ granted \in SUBSET Items
    BY <1>2 DEF Existing, Reusable, TypeOK
  <2> QED
    BY <1>1, <2>2, <2>3, StatusAdded
<1>4. CASE BackendEnableCreate
  <2>1. PICK granted \in SUBSET NewItems : AddItems(nextSub, granted, onServer \cup {nextSub})
    BY <1>4 DEF BackendEnableCreate
  <2>2. nextSub \in SubIds /\ granted \in SUBSET Items
    BY <1>2, <1>4 DEF BackendEnableCreate
  <2> QED
    BY <1>1, <2>1, <2>2, StatusAdded
<1> QED
  BY <1>3, <1>4

(* Only removed items stop being monitored, and each is reported. *)
LEMMA StatusDisabled ==
  ASSUME TablesInv, StatusInv, BackendDisable
  PROVE  StatusInv'
<1>1. /\ TypeOK /\ Runs("disableMonitoring") /\ Removes
      /\ ids \in [SubIds -> [Items -> Nat]] /\ subs \subseteq SubIds
  BY DisableTables DEF TablesInv, BackendDisable, TypeOK
<1>2. Removed \in SUBSET Items
  BY <1>1, DisableCall
<1>3. signals' = signals \o DisabledAll(Removed) /\ UNCHANGED <<nodes, status>>
  BY <1>1 DEF Removes, clientVars
<1>4. ASSUME NEW i \in Items, i \notin Removed, IsMonitored(i)
      PROVE  IsMonitored(i)'
  <2>1. PICK s \in subs : ids[s][i] > 0
    BY <1>4 DEF IsMonitored
  <2>2. s \in SubIds /\ ids'[s][i] > 0
    BY <1>1, <1>4, <2>1 DEF Removes
  <2>3. s \in subs'
    BY <1>1, <2>1, <2>2 DEF Removes
  <2> QED
    BY <2>2, <2>3 DEF IsMonitored
<1> DEFINE r == DisabledAll(Removed)
<1>5. r \in Seq(Signals)
  BY <1>2, DisabledAllSignals
<1>6. \A i \in Items : ~IsMonitored(i)' =>
        /\ \A k \in DOMAIN r : ~Grants(r[k], i)
        /\ IsMonitored(i) => \E k \in DOMAIN r : Withdraws(r[k], i)
  BY <1>2, <1>4, DisabledWithdraws
<1> HIDE DEF r
<1> QED
  BY <1>1, <1>3, <1>5, <1>6, StatusExtended DEF r

LEMMA StatusTimedOut ==
  ASSUME TablesInv, StatusInv, BackendTimeout
  PROVE  StatusInv'
<1> DEFINE s == Head(calls).sub
           r == DisabledAll(ItemsOf({s}))
<1>1. /\ TypeOK /\ subs \subseteq SubIds
      /\ subs' = subs \ {s}
      /\ ids' = [t \in SubIds |-> IF t = s THEN NoItems ELSE ids[t]]
      /\ signals' = signals \o r /\ UNCHANGED <<nodes, status>>
  BY DEF TablesInv, TypeOK, BackendTimeout, Cleared, clientVars
<1> HIDE DEF s
<1>2. ASSUME NEW i \in Items, i \notin ItemsOf({s}), IsMonitored(i)
      PROVE  IsMonitored(i)'
  <2>1. PICK t \in subs : ids[t][i] > 0
    BY <1>2 DEF IsMonitored
  <2>2. t # s
    BY <1>2, <2>1 DEF ItemsOf
  <2> QED
    BY <1>1, <2>1, <2>2 DEF IsMonitored
<1>3. r \in Seq(Signals)
  BY ItemsOfType, DisabledAllSignals
<1>4. \A i \in Items : ~IsMonitored(i)' =>
        /\ \A k \in DOMAIN r : ~Grants(r[k], i)
        /\ IsMonitored(i) => \E k \in DOMAIN r : Withdraws(r[k], i)
  BY <1>2, ItemsOfType, DisabledWithdraws
<1> HIDE DEF r
<1> QED
  BY <1>1, <1>3, <1>4, StatusExtended

LEMMA StatusInit == Init => StatusInv
BY DEF Init, StatusInv, WithdrawalIsQueued

LEMMA StatusNext == TablesInv /\ StatusInv /\ [Next]_vars => StatusInv'
<1> SUFFICES ASSUME TablesInv, StatusInv, [Next]_vars PROVE StatusInv'
  OBVIOUS
<1>0. TypeOK
  BY DEF TablesInv
<1>1. ASSUME NEW h \in Handles, DestroyNode(h)
      PROVE  StatusInv'
  BY <1>0, <1>1, StatusDestroyed
<1>2. CASE Application /\ ~\E h \in Handles : DestroyNode(h)
  BY <1>2, StatusSame DEF Application, EnableMonitoring, DisableMonitoring, ConnectToEndpoint,
     DisconnectFromEndpoint, Post, clientVars, tableVars
<1>3. CASE ClientLoop
  BY <1>0, <1>3, StatusHandled
<1>4. CASE BackendEnableExisting \/ BackendEnableCreate
  BY <1>0, <1>4, StatusEnabled
<1>5. CASE BackendEnableNoSubscription
  <2> DEFINE code == [i \in Items |-> "Bad"]
             r == EnabledAll(Head(calls).items, code)
  <2>1. /\ Runs("enableMonitoring") /\ signals' = signals \o r
        /\ UNCHANGED <<nodes, status, subs, ids>>
    BY <1>5 DEF BackendEnableNoSubscription, clientVars, tableVars
  <2>2. Head(calls).items \in SUBSET Items /\ code \in [Items -> Codes]
    BY <1>0, <2>1, EnableCall DEF Codes
  <2>3. \A i \in Items : code[i] # "Good" /\ (IsMonitored(i)' <=> IsMonitored(i))
    BY <2>1 DEF IsMonitored
  <2> HIDE DEF code
  <2>4. r \in Seq(Signals)
    BY <2>2, EnabledAllSignals
  <2>5. \A i \in Items : \A k \in DOMAIN r : ~Grants(r[k], i)
    BY <2>2, <2>3, EnabledGrants
  <2> HIDE DEF r
  <2> QED
    BY <1>0, <2>1, <2>3, <2>4, <2>5, StatusExtended
<1>6. CASE BackendEnableOnNull \/ BackendTimeoutDangling
  BY <1>6, StatusSame DEF BackendEnableOnNull, BackendTimeoutDangling, clientVars, queueVars, tableVars
<1>7. CASE BackendDisable
  BY <1>7, StatusDisabled
<1>8. CASE BackendTimeout
  BY <1>8, StatusTimedOut
<1>9. CASE BackendCleanup
  BY <1>0, <1>9, ClosesAll, StatusClosed DEF BackendCleanup, clientVars
<1>10. CASE BackendDisconnect \/ DisconnectTimeout
  BY <1>0, <1>10, ClosesAll, StatusClosed DEF BackendDisconnect, DisconnectTimeout, clientVars
<1>11. ASSUME NEW succeeds \in BOOLEAN, BackendConnect(succeeds)
       PROVE  StatusInv'
  <2>1. signals' = (signals \o ClosingSignals) \o <<State(succeeds)>> /\ UNCHANGED <<nodes, status>>
    BY <1>11 DEF BackendConnect, clientVars
  <2>2. signals \in Seq(Signals) /\ ClosingSignals \in Seq(Signals) /\ <<State(succeeds)>> \in Seq(Signals)
    BY <1>0, ClosingTypes DEF TypeOK
  <2>3. signals' = signals \o (ClosingSignals \o <<State(succeeds)>>)
    BY <2>1, <2>2
  <2> QED
    BY <1>0, <2>1, <2>3, ClosesAll, StatusClosed
<1>12. ASSUME NEW notConnected \in BOOLEAN, IterateClient(notConnected)
       PROVE  StatusInv'
  <2>1. CASE notConnected
    BY <1>0, <1>12, <2>1, ClosesAll, StatusClosed DEF IterateClient, clientVars
  <2>2. CASE ~notConnected
    BY <1>12, <2>2, StatusSame DEF IterateClient, clientVars, tableVars
  <2> QED
    BY <2>1, <2>2
<1>13. CASE (\E s \in SubIds : SendTimeoutNotification(s) \/ ServerExpires(s)) \/ ChannelBreaks
  BY <1>13, StatusSame DEF SendTimeoutNotification, ServerExpires, ChannelBreaks, clientVars,
     queueVars, tableVars
<1>14. CASE UNCHANGED vars
  BY <1>14, StatusSame DEF vars, clientVars, queueVars, tableVars
<1> QED
  BY <1>1, <1>2, <1>3, <1>4, <1>5, <1>6, <1>7, <1>8, <1>9, <1>10, <1>11, <1>12, <1>13, <1>14
  DEF Next, BackendSlot

LEMMA StatusInvariant == Spec => []StatusInv
BY TablesInvariant, StatusInit, StatusNext, PTL DEF Spec

(* Once the queues are empty a node whose monitoringStatus() is Good is    *)
(* monitored: every way an item is lost ends with a signal that withdraws  *)
(* the status, behind every signal that may still grant it.                *)
THEOREM SubscriptionsGoodStatus == Spec => []GoodStatusIsMonitored
<1>1. StatusInv => GoodStatusIsMonitored
  BY DEF StatusInv, GoodStatusIsMonitored, Settled, WithdrawalIsQueued
<1> QED
  BY <1>1, StatusInvariant, PTL
=============================================================================
