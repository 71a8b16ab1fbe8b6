-------------------------- MODULE HistoryRead_proofs --------------------------
(***************************************************************************)
(* Proofs about HistoryRead, for any number of nodes and pages.            *)
(*                                                                         *)
(* The lists of the response have different lengths and are indexed by one *)
(* another.  The invariant ties them to the list of nodes of the last      *)
(* request, Asked; what is known of a continuation point and of the data   *)
(* of a node depends on what has gone wrong so far.                        *)
(***************************************************************************)
EXTENDS HistoryRead, FiniteSetTheorems, WellFoundedInduction, TLAPS

-----------------------------------------------------------------------------
(* The inductive invariant.                                                *)

(* The nodes of the last request, by position. *)
Asked == IF dataMapping = <<>> THEN AllNodes ELSE dataMapping

OneToOne(s) == \A i, j \in DOMAIN s : s[i] = s[j] => i = j

(* Whatever goes wrong. *)
ShapeInv ==
  /\ TypeOK
  /\ OneToOne(dataMapping)
  /\ \A k \in DOMAIN sent : WellFormed(sent[k])
  /\ HasMoreData => \E i \in DOMAIN points : points[i] # NoPoint
  /\ destroyed => released

IsNothing(answer) == answer.data = <<>> /\ answer.points = <<>>

(* A request that reads is about the nodes asked for. *)
ReadsAsked(request) ==
  ~request.release =>
    request.nodes = Asked /\ request.points = points /\ (dataMapping = <<>> => data = <<>>)

(* One request is under way at most, and the lists fit. *)
RangeInv ==
  "overlap" \notin mishaps =>
    /\ ~undefined
    /\ Len(calls) + Len(sent) + Len(signals) <= 1
    /\ Len(points) <= Len(Asked)
    /\ data # <<>> => DOMAIN data = Nodes
    /\ HasMoreData \/ dataMapping # <<>> => data # <<>>
    /\ \A k \in DOMAIN calls : ReadsAsked(calls[k])
    /\ \A k \in DOMAIN sent : ReadsAsked(sent[k])
    /\ \A k \in DOMAIN signals :
         \/ IsNothing(signals[k])
         \/ /\ DOMAIN signals[k].data = DOMAIN Asked
            /\ Len(signals[k].points) <= Len(Asked)
            /\ dataMapping = <<>> => data = <<>>

(* The pages read of node n so far. *)
Read(n) == IF data = <<>> THEN 0 ELSE Len(data[n])

(* What is read next of node n. *)
NextPage(n) == [node |-> n, page |-> Read(n) + 1]

(* The answer that continues every node asked for. *)
Continues(answer) ==
  /\ answer.code = "Good"
  /\ DOMAIN answer.data = DOMAIN Asked /\ DOMAIN answer.points = DOMAIN Asked
  /\ \A k \in DOMAIN Asked :
       /\ answer.data[k] = << <<Asked[k], Read(Asked[k]) + 1>> >>
       /\ answer.points[k] = NextPoint(NextPage(Asked[k]))
       /\ answer.points[k] \in held \cup {NoPoint}
       /\ Read(Asked[k]) + 1 <= history[Asked[k]]

(* The server has read every node so far. *)
OrderInv ==
  mishaps \subseteq {"service"} =>
    /\ DataIsInOrder
    /\ points # <<>> => data # <<>>
    /\ \A i \in DOMAIN points : points[i] # NoPoint =>
         /\ points[i] = NextPage(Asked[i])
         /\ Read(Asked[i]) + 1 <= history[Asked[i]]
    /\ ~released /\ signals = <<>> =>
         \A i \in DOMAIN points : points[i] # NoPoint => points[i] \in held
    /\ ~released /\ (calls # <<>> \/ sent # <<>> \/ signals # <<>>) =>
         /\ Len(points) = Len(dataMapping)
         /\ \A i \in DOMAIN points : points[i] # NoPoint
    /\ released => ~HasMoreData /\ \A k \in DOMAIN signals : IsNothing(signals[k])
    /\ \A k \in DOMAIN calls : calls[k].release = released
    /\ \A k \in DOMAIN sent : sent[k].release = released
    /\ \A k \in DOMAIN signals :
         ~released => \/ IsNothing(signals[k]) /\ signals[k].code = "Bad"
                      \/ Continues(signals[k])

(* A node is read to its end or goes on. *)
CompleteInv ==
  mishaps \subseteq {"service"} /\ ~released =>
    /\ serviceResult = "Good" /\ data # <<>> =>
         \A n \in Nodes : \/ Read(n) = history[n]
                          \/ \E i \in DOMAIN points : points[i] # NoPoint /\ Asked[i] = n
    /\ serviceResult = "Bad" => calls = <<>> /\ sent = <<>> /\ signals = <<>> /\ ~HasMoreData
    /\ hstate = "Finished" /\ serviceResult = "Good" =>
         data # <<>> /\ \A i \in DOMAIN points : points[i] = NoPoint
    /\ hstate = "Finished" => calls = <<>> /\ sent = <<>> /\ signals = <<>>

PointsOf(list) == {list[i] : i \in DOMAIN list}

(* The response knows every continuation point the server keeps. *)
ReleaseInv ==
  mishaps = {} /\ dataMapping = <<>> =>
    /\ Len(points) \in {0, NodeCount}
    /\ \A k \in DOMAIN calls : calls[k].release => calls[k].points = points /\ calls[k].nodes = AllNodes
    /\ \A k \in DOMAIN sent : sent[k].release => sent[k].points = points
    /\ signals = <<>> /\ (~released \/ calls # <<>> \/ sent # <<>>) => held \subseteq PointsOf(points)
    /\ \A k \in DOMAIN signals : IF released THEN held = {} ELSE held \subseteq PointsOf(signals[k].points)
    /\ Settled /\ released => held = {}

HistoryInv == ShapeInv /\ RangeInv /\ OrderInv /\ CompleteInv /\ ReleaseInv

-----------------------------------------------------------------------------
(* The positions of a list in order.                                       *)

(* There is a least number in every set of them that is not empty. *)
LEMMA LeastNumber ==
  ASSUME NEW T \in SUBSET Nat, T # {}
  PROVE  \E n \in T : \A m \in T : n <= m
<1> DEFINE R == OpToRel(<, Nat)
<1>1. IsWellFoundedOn(R, Nat)
  BY NatLessThanWellFounded, Zenon
<1>2. R = {ss \in Nat \X Nat : ss[1] < ss[2]}
  BY DEF OpToRel
<1> HIDE DEF R
<1>3. PICK x \in T : \A y \in T : ~ (<<y, x>> \in R)
  BY <1>1, WFMin
<1>4. \A m \in Nat, n \in Nat : m < n => <<m, n>> \in R
  BY <1>2
<1>5. \A m \in T : ~(m < x)
  BY <1>3, <1>4
<1> QED
  BY <1>5

UpTo(S, i) == {j \in S : j <= i}

LEMMA UpToIsFinite ==
  ASSUME NEW n \in Nat, NEW S \in SUBSET (1..n), NEW i \in Nat
  PROVE  /\ IsFiniteSet(S) /\ IsFiniteSet(UpTo(S, i))
         /\ Cardinality(S) \in Nat /\ Cardinality(UpTo(S, i)) \in Nat
         /\ Cardinality(UpTo(S, i)) <= Cardinality(S) /\ Cardinality(S) <= n
<1>1. IsFiniteSet(1..n) /\ Cardinality(1..n) = n
  BY FS_Interval
<1>2. IsFiniteSet(S) /\ Cardinality(S) <= n
  BY <1>1, FS_Subset
<1>3. UpTo(S, i) \in SUBSET S
  BY DEF UpTo
<1> QED
  BY <1>2, <1>3, FS_Subset, FS_CardinalityType

(* Two positions have not the same rank. *)
LEMMA RankIsStrict ==
  ASSUME NEW n \in Nat, NEW S \in SUBSET (1..n), NEW i \in S, NEW j \in S,
         Cardinality(UpTo(S, i)) = Cardinality(UpTo(S, j))
  PROVE  i = j
<1>1. i \in Nat /\ j \in Nat /\ \A l \in S : l \in Nat
  OBVIOUS
<1>2. IsFiniteSet(UpTo(S, i)) /\ IsFiniteSet(UpTo(S, j))
  BY <1>1, UpToIsFinite
<1>3. CASE i <= j
  <2>1. UpTo(S, i) \in SUBSET UpTo(S, j)
    <3>1. \A l \in S : l <= i => l <= j
      BY <1>1, <1>3
    <3> QED
      BY <3>1 DEF UpTo
  <2>2. UpTo(S, j) = UpTo(S, i)
    BY <1>2, <2>1, FS_Subset
  <2>3. j \in UpTo(S, i)
    BY <1>1, <2>2 DEF UpTo
  <2> QED
    BY <1>1, <1>3, <2>3 DEF UpTo
<1>4. CASE j <= i
  <2>1. UpTo(S, j) \in SUBSET UpTo(S, i)
    <3>1. \A l \in S : l <= j => l <= i
      BY <1>1, <1>4
    <3> QED
      BY <3>1 DEF UpTo
  <2>2. UpTo(S, i) = UpTo(S, j)
    BY <1>2, <2>1, FS_Subset
  <2>3. i \in UpTo(S, j)
    BY <1>1, <2>2 DEF UpTo
  <2> QED
    BY <1>1, <1>4, <2>3 DEF UpTo
<1> QED
  BY <1>1, <1>3, <1>4

(* Every rank is taken. *)
LEMMA RankIsTaken ==
  ASSUME NEW n \in Nat, NEW S \in SUBSET (1..n), NEW k \in 1..Cardinality(S)
  PROVE  \E i \in S : Cardinality(UpTo(S, i)) = k
<1> DEFINE T == {m \in Nat : Cardinality(UpTo(S, m)) >= k}
<1>1. Cardinality(S) \in Nat /\ k \in Nat /\ k >= 1 /\ k <= Cardinality(S)
  BY UpToIsFinite
<1>2. \A j \in S : j \in Nat /\ j >= 1 /\ j <= n
  OBVIOUS
<1>3. UpTo(S, n) = S
  BY <1>2 DEF UpTo
<1>4. n \in T
  BY <1>1, <1>3
<1>5. PICK m \in T : \A l \in T : m <= l
  BY <1>4, LeastNumber
<1>6. m \in Nat /\ Cardinality(UpTo(S, m)) >= k
  OBVIOUS
<1>7. m # 0
  <2>1. UpTo(S, 0) = {}
    <3>1. \A j \in S : ~(j <= 0)
      BY <1>2
    <3> QED
      BY <3>1 DEF UpTo
  <2>2. Cardinality(UpTo(S, 0)) = 0
    BY <2>1, FS_EmptySet, Zenon
  <2> QED
    BY <1>1, <1>6, <2>2
<1>8. m - 1 \in Nat /\ m - 1 \notin T
  BY <1>5, <1>6, <1>7
<1>9. Cardinality(UpTo(S, m - 1)) < k /\ Cardinality(UpTo(S, m - 1)) \in Nat
      /\ IsFiniteSet(UpTo(S, m - 1))
  <2>1. Cardinality(UpTo(S, m - 1)) \in Nat /\ IsFiniteSet(UpTo(S, m - 1))
    BY <1>8, UpToIsFinite
  <2>2. ~(Cardinality(UpTo(S, m - 1)) >= k)
    BY <1>8
  <2> QED
    BY <1>1, <2>1, <2>2
<1> HIDE DEF T
<1>10. m \in S
  <2> SUFFICES ASSUME m \notin S PROVE FALSE
    OBVIOUS
  <2>1. UpTo(S, m) = UpTo(S, m - 1)
    <3>1. \A l \in S : l <= m <=> l <= m - 1
      BY <1>2, <1>6, <1>7
    <3> QED
      BY <3>1 DEF UpTo
  <2> QED
    BY <1>1, <1>6, <1>9, <2>1
<1>11. UpTo(S, m) = UpTo(S, m - 1) \cup {m}
  <2>1. \A l \in S : l <= m <=> l <= m - 1 \/ l = m
    BY <1>2, <1>6, <1>7
  <2> QED
    BY <1>10, <2>1 DEF UpTo
<1>12. Cardinality(UpTo(S, m)) <= Cardinality(UpTo(S, m - 1)) + 1
  <2>1. Cardinality(UpTo(S, m - 1) \cup {m}) =
          IF m \in UpTo(S, m - 1) THEN Cardinality(UpTo(S, m - 1))
          ELSE Cardinality(UpTo(S, m - 1)) + 1
    BY <1>9, FS_AddElement
  <2> QED
    BY <1>9, <1>11, <2>1
<1>13. Cardinality(UpTo(S, m)) \in Nat
  BY <1>6, UpToIsFinite
<1> QED
  BY <1>1, <1>6, <1>9, <1>10, <1>12, <1>13

(* InOrder(S) lists S without repetition. *)
LEMMA InOrderLists ==
  ASSUME NEW n \in Nat, NEW S \in SUBSET (1..n)
  PROVE  /\ Cardinality(S) \in Nat /\ Cardinality(S) <= n
         /\ InOrder(S) \in Seq(1..n) /\ Len(InOrder(S)) = Cardinality(S)
         /\ \A k \in DOMAIN InOrder(S) : InOrder(S)[k] \in S
         /\ OneToOne(InOrder(S))
         /\ \A i \in S : \E k \in DOMAIN InOrder(S) : InOrder(S)[k] = i
<1>1. Cardinality(S) \in Nat /\ Cardinality(S) <= n
  BY UpToIsFinite
<1>2. InOrder(S) = [k \in 1..Cardinality(S) |-> CHOOSE i \in S : Cardinality(UpTo(S, i)) = k]
  BY DEF InOrder, UpTo
<1>3. DOMAIN InOrder(S) = 1..Cardinality(S)
  BY <1>2
<1>4. \A k \in 1..Cardinality(S) :
        InOrder(S)[k] \in S /\ Cardinality(UpTo(S, InOrder(S)[k])) = k
  <2> TAKE k \in 1..Cardinality(S)
  <2>1. InOrder(S)[k] = CHOOSE i \in S : Cardinality(UpTo(S, i)) = k
    BY <1>2
  <2>2. \E i \in S : Cardinality(UpTo(S, i)) = k
    BY RankIsTaken
  <2> QED
    BY <2>1, <2>2
<1>5. InOrder(S) \in [1..Cardinality(S) -> 1..n]
  BY <1>2, <1>3, <1>4
<1>6. InOrder(S) \in Seq(1..n) /\ Len(InOrder(S)) = Cardinality(S)
  BY <1>1, <1>5
<1>7. OneToOne(InOrder(S))
  BY <1>3, <1>4 DEF OneToOne
<1>8. \A i \in S : \E k \in DOMAIN InOrder(S) : InOrder(S)[k] = i
  <2> TAKE i \in S
  <2>1. i \in Nat /\ i \in UpTo(S, i)
    BY DEF UpTo
  <2>2. Cardinality(UpTo(S, i)) \in Nat /\ Cardinality(UpTo(S, i)) <= Cardinality(S)
        /\ IsFiniteSet(UpTo(S, i))
    BY <2>1, UpToIsFinite
  <2>3. Cardinality(UpTo(S, i)) # 0
    BY <2>1, <2>2, FS_EmptySet
  <2>4. Cardinality(UpTo(S, i)) \in 1..Cardinality(S)
    BY <1>1, <2>2, <2>3
  <2> DEFINE x == InOrder(S)[Cardinality(UpTo(S, i))]
  <2>5. x \in S /\ Cardinality(UpTo(S, x)) = Cardinality(UpTo(S, i))
    BY <1>4, <2>4
  <2> HIDE DEF x
  <2>6. x = i
    BY <2>5, RankIsStrict
  <2> QED
    BY <1>3, <2>4, <2>6 DEF x
<1> QED
  BY <1>1, <1>3, <1>4, <1>6, <1>7, <1>8

LEMMA InOrderOfAll ==
  ASSUME NEW n \in Nat
  PROVE  Len(InOrder(1..n)) = n /\ \A k \in 1..n : InOrder(1..n)[k] = k
<1>1. Cardinality(1..n) = n
  BY FS_Interval
<1>2. \A i \in 1..n : Cardinality(UpTo(1..n, i)) = i
  <2> TAKE i \in 1..n
  <2>1. UpTo(1..n, i) = 1..i
    BY DEF UpTo
  <2> QED
    BY <2>1, FS_Interval
<1>3. InOrder(1..n) = [k \in 1..n |-> CHOOSE i \in 1..n : Cardinality(UpTo(1..n, i)) = k]
  BY <1>1 DEF InOrder, UpTo
<1>4. \A k \in 1..n : (CHOOSE i \in 1..n : Cardinality(UpTo(1..n, i)) = k) = k
  <2> TAKE k \in 1..n
  <2>1. \E i \in 1..n : Cardinality(UpTo(1..n, i)) = k
    BY <1>2
  <2> QED
    BY <1>2, <2>1
<1>5. Len(InOrder(1..n)) = n
  BY <1>1, InOrderLists
<1> QED
  BY <1>3, <1>4, <1>5

-----------------------------------------------------------------------------
(* Lists.                                                                  *)

LEMMA ListOf ==
  ASSUME NEW S, NEW T, NEW s \in Seq(S), NEW f, DOMAIN f = DOMAIN s, f = [i \in DOMAIN s |-> f[i]],
         \A i \in DOMAIN s : f[i] \in T
  PROVE  f \in Seq(T) /\ Len(f) = Len(s)
<1>1. Len(s) \in Nat /\ DOMAIN s = 1..Len(s)
  OBVIOUS
<1> QED
  BY <1>1

LEMMA EmptyList ==
  ASSUME NEW S, NEW s \in Seq(S)
  PROVE  (s = <<>> <=> Len(s) = 0) /\ (s = <<>> <=> DOMAIN s = {})
<1>1. Len(s) \in Nat /\ DOMAIN s = 1..Len(s)
  OBVIOUS
<1>2. Len(s) = 0 <=> s = <<>>
  OBVIOUS
<1>3. ASSUME NEW n \in Nat PROVE n = 0 <=> 1..n = {}
  <2>1. n # 0 => 1 \in 1..n
    OBVIOUS
  <2>2. n = 0 => 1..n = {}
    OBVIOUS
  <2> QED
    BY <2>1, <2>2
<1> QED
  BY <1>1, <1>2, <1>3

LEMMA TakenOut ==
  ASSUME NEW S, NEW s \in Seq(S), NEW k \in DOMAIN s
  PROVE  /\ RemoveAt(s, k) \in Seq(S) /\ Len(RemoveAt(s, k)) = Len(s) - 1
         /\ \A i \in DOMAIN RemoveAt(s, k) : \E j \in DOMAIN s : RemoveAt(s, k)[i] = s[j]
<1> DEFINE left == SubSeq(s, 1, k - 1)
           right == SubSeq(s, k + 1, Len(s))
<1>1. k \in 1..Len(s) /\ Len(s) \in Nat
  OBVIOUS
<1>2. /\ left \in Seq(S) /\ Len(left) = k - 1
      /\ \A i \in 1..(k - 1) : left[i] = s[i]
  BY <1>1
<1>3. /\ right \in Seq(S) /\ Len(right) = Len(s) - k
      /\ \A i \in 1..(Len(s) - k) : right[i] = s[i + k]
  BY <1>1
<1>4. RemoveAt(s, k) = left \o right
  BY DEF RemoveAt
<1> HIDE DEF left, right
<1>5. left \o right \in Seq(S) /\ Len(left \o right) = Len(s) - 1
  BY <1>1, <1>2, <1>3
<1>6. \A i \in 1..(Len(s) - 1) : (left \o right)[i] = IF i <= k - 1 THEN s[i] ELSE s[i + 1]
  <2> TAKE i \in 1..(Len(s) - 1)
  <2>1. CASE i <= k - 1
    BY <1>1, <1>2, <1>3, <2>1
  <2>2. CASE ~(i <= k - 1)
    <3>1. (left \o right)[i] = right[i - (k - 1)] /\ i - (k - 1) \in 1..(Len(s) - k)
      BY <1>1, <1>2, <1>3, <2>2, SMTT(30)
    <3>2. right[i - (k - 1)] = s[(i - (k - 1)) + k]
      BY <1>3, <3>1
    <3>3. (i - (k - 1)) + k = i + 1
      BY <1>1
    <3> QED
      BY <2>2, <3>1, <3>2, <3>3
  <2> QED
    BY <2>1, <2>2
<1>7. ASSUME NEW i \in DOMAIN RemoveAt(s, k) PROVE \E j \in DOMAIN s : RemoveAt(s, k)[i] = s[j]
  <2>1. i \in 1..(Len(s) - 1)
    BY <1>4, <1>5
  <2>2. i \in DOMAIN s /\ i + 1 \in DOMAIN s
    BY <1>1, <2>1
  <2> QED
    BY <1>4, <1>6, <2>1, <2>2
<1> QED
  BY <1>4, <1>5, <1>7

LEMMA LastTakenOut ==
  ASSUME NEW S, NEW s \in Seq(S), Len(s) = 1
  PROVE  /\ DOMAIN s = {1} /\ Tail(s) = <<>> /\ Head(s) = s[1]
         /\ \A k \in DOMAIN s : RemoveAt(s, k) = <<>>
<1>1. \A k \in DOMAIN s : RemoveAt(s, k) \in Seq(S) /\ Len(RemoveAt(s, k)) = 0
  BY TakenOut
<1>2. \A t \in Seq(S) : Len(t) = 0 => t = <<>>
  OBVIOUS
<1>3. DOMAIN s = 1..1 /\ 1..1 = {1}
  OBVIOUS
<1>4. Tail(s) \in Seq(S) /\ Len(Tail(s)) = 0 /\ Head(s) = s[1]
  OBVIOUS
<1> QED
  BY <1>1, <1>2, <1>3, <1>4

LEMMA OneElement ==
  ASSUME NEW S, NEW x \in S
  PROVE  <<x>> \in Seq(S) /\ Len(<<x>>) = 1
OBVIOUS

-----------------------------------------------------------------------------
(* The lists of the response keep their shape, whatever goes wrong.        *)

Pages == [node : Nodes, page : 1..MaxPages]

LEMMA AllNodesType ==
  AllNodes \in Seq(Nodes) /\ Len(AllNodes) = NodeCount /\ DOMAIN AllNodes = Nodes
  /\ \A n \in Nodes : AllNodes[n] = n
BY NodeCountAssumption DEF AllNodes, Nodes

LEMMA NothingType ==
  ASSUME NEW code \in {"Good", "Bad"}
  PROVE  Nothing(code) \in Answers /\ IsNothing(Nothing(code)) /\ Nothing(code).code = code
<1> DEFINE P == Points \cup {NoPoint}
<1>1. <<>> \in Seq(Seq(Nodes \X Nat)) /\ <<>> \in Seq(P)
  <2> HIDE DEF P
  <2> QED
    OBVIOUS
<1> QED
  BY <1>1 DEF Nothing, Answers, IsNothing

(* The positions readMoreData() goes on with. *)
LEMMA OpenLists ==
  ASSUME points \in Seq(Points \cup {NoPoint})
  PROVE  /\ Open \in Seq(DOMAIN points) /\ OneToOne(Open) /\ Len(Open) <= Len(points)
         /\ \A k \in DOMAIN Open : Open[k] \in DOMAIN points /\ points[Open[k]] # NoPoint
         /\ \A i \in DOMAIN points : points[i] # NoPoint => \E k \in DOMAIN Open : Open[k] = i
<1> DEFINE S == {i \in DOMAIN points : points[i] # NoPoint}
<1>1. Len(points) \in Nat /\ DOMAIN points = 1..Len(points)
  OBVIOUS
<1>2. S \in SUBSET (1..Len(points))
  BY <1>1
<1>3. Open = InOrder(S)
  BY DEF Open
<1>4. \A i : i \in S <=> i \in DOMAIN points /\ points[i] # NoPoint
  OBVIOUS
<1> HIDE DEF S
<1> QED
  BY <1>1, <1>2, <1>3, <1>4, InOrderLists

LEMMA PageType ==
  ASSUME NEW request \in Requests, WellFormed(request), held \subseteq Points,
         NEW i \in DOMAIN request.nodes,
         request.points = <<>> \/ request.points[i] \in held
  PROVE  PageOf(request, i) \in Pages
<1>1. request.nodes \in Seq(Nodes) /\ request.nodes[i] \in Nodes
  BY DEF Requests
<1>2. CASE request.points = <<>>
  <2>1. 1 \in 1..MaxPages
    BY MaxPagesAssumption
  <2> QED
    BY <1>1, <1>2, <2>1 DEF PageOf, Pages
<1>3. CASE request.points # <<>>
  <2>1. request.points[i] \in Points
    BY <1>3
  <2>2. Points \subseteq Pages
    BY MaxPagesAssumption DEF Points, Pages
  <2> QED
    BY <1>3, <2>1, <2>2 DEF PageOf
<1> QED
  BY <1>2, <1>3

LEMMA NextPointType ==
  ASSUME NEW p \in Pages, history \in [Nodes -> 1..MaxPages]
  PROVE  NextPoint(p) \in Points \cup {NoPoint}
<1>1. p.node \in Nodes /\ p.page \in 1..MaxPages /\ history[p.node] \in 1..MaxPages
  BY DEF Pages
<1>2. p.page < history[p.node] => p.page + 1 \in 2..MaxPages
  BY <1>1, MaxPagesAssumption
<1> QED
  BY <1>1, <1>2 DEF NextPoint, Points

(* What the callback makes of an answer of the server. *)
LEMMA CollectedType ==
  ASSUME NEW request \in Requests, WellFormed(request), held \subseteq Points,
         history \in [Nodes -> 1..MaxPages], NEW bad \in SUBSET DOMAIN request.nodes,
         \A i \in DOMAIN request.nodes \ bad : request.points = <<>> \/ request.points[i] \in held
  PROVE  LET a == Collected(request, bad)
         IN /\ a \in Answers /\ a.code = "Good"
            /\ Len(a.data) = Len(request.nodes) /\ Len(a.points) <= Len(request.nodes)
            /\ \A i \in DOMAIN request.nodes \ bad :
                 LET p == PageOf(request, i) IN p \in Pages /\ a.data[i] = << <<p.node, p.page>> >>
            /\ bad = {} => /\ Len(a.points) = Len(request.nodes)
                           /\ \A i \in DOMAIN request.nodes :
                                a.points[i] = NextPoint(PageOf(request, i))
<1> DEFINE n == Len(request.nodes)
           good == InOrder(DOMAIN request.nodes \ bad)
           values == [i \in DOMAIN request.nodes |->
                        LET p == PageOf(request, i)
                        IN IF i \in bad THEN <<>> ELSE << <<p.node, p.page>> >>]
           next == [k \in DOMAIN good |-> NextPoint(PageOf(request, good[k]))]
           a == Collected(request, bad)
<1>1. request.nodes \in Seq(Nodes) /\ n \in Nat /\ DOMAIN request.nodes = 1..n
  BY DEF Requests
<1>2. a = [data |-> values, points |-> next, code |-> "Good"]
  BY DEF Collected
<1>3. \A i \in DOMAIN request.nodes \ bad : PageOf(request, i) \in Pages
  BY PageType
<1>4. /\ good \in Seq(1..n) /\ Len(good) <= n
      /\ \A k \in DOMAIN good : good[k] \in DOMAIN request.nodes \ bad
  <2> DEFINE S == DOMAIN request.nodes \ bad
  <2>1. S \in SUBSET (1..n) /\ good = InOrder(S)
    BY <1>1
  <2> HIDE DEF S, good
  <2>2. /\ good \in Seq(1..n) /\ Len(good) <= n
        /\ \A k \in DOMAIN good : good[k] \in S
    BY <1>1, <2>1, InOrderLists
  <2> QED
    BY <2>2 DEF S
<1>5. bad = {} => Len(good) = n /\ \A k \in 1..n : good[k] = k
  BY <1>1, InOrderOfAll
<1> HIDE DEF good
<1>6. values \in Seq(Seq(Nodes \X Nat)) /\ Len(values) = n
  <2>1. \A p \in Pages : <<p.node, p.page>> \in Nodes \X Nat
    BY DEF Pages
  <2>2. \A i \in DOMAIN request.nodes : values[i] \in Seq(Nodes \X Nat)
    <3> TAKE i \in DOMAIN request.nodes
    <3>1. CASE i \in bad
      BY <3>1
    <3>2. CASE i \notin bad
      <4>1. values[i] = << <<PageOf(request, i).node, PageOf(request, i).page>> >>
        BY <3>2
      <4>2. <<PageOf(request, i).node, PageOf(request, i).page>> \in Nodes \X Nat
        BY <1>3, <2>1, <3>2
      <4> QED
        BY <4>1, <4>2, OneElement
    <3> QED
      BY <3>1, <3>2
  <2>3. DOMAIN values = DOMAIN request.nodes /\ values = [i \in DOMAIN request.nodes |-> values[i]]
    OBVIOUS
  <2> DEFINE V == Seq(Nodes \X Nat)
  <2>4. \A i \in DOMAIN request.nodes : values[i] \in V
    BY <2>2
  <2> HIDE DEF values, V
  <2>5. values \in Seq(V) /\ Len(values) = n
    <3>1. values \in [1..n -> V]
      BY <1>1, <2>3, <2>4
    <3> HIDE DEF n
    <3> QED
      BY <1>1, <3>1
  <2> QED
    BY <2>5 DEF V
<1>7. next \in Seq(Points \cup {NoPoint}) /\ Len(next) = Len(good)
  <2>1. \A k \in DOMAIN good : next[k] \in Points \cup {NoPoint}
    BY <1>3, <1>4, NextPointType
  <2> QED
    BY <1>4, <2>1, ListOf
<1>8. \A i \in DOMAIN request.nodes \ bad :
        LET p == PageOf(request, i) IN values[i] = << <<p.node, p.page>> >>
  OBVIOUS
<1>9. bad = {} => \A i \in 1..n : next[i] = NextPoint(PageOf(request, i))
  BY <1>1, <1>4, <1>5, SMTT(30)
<1> HIDE DEF values, next
<1>10. a \in Answers /\ a.data = values /\ a.points = next /\ a.code = "Good"
  BY <1>2, <1>6, <1>7 DEF Answers
<1> HIDE DEF a
<1> QED
  BY <1>1, <1>3, <1>4, <1>5, <1>6, <1>7, <1>8, <1>9, <1>10 DEF a

LEMMA AskedType ==
  ASSUME dataMapping \in Seq(Nodes), OneToOne(dataMapping)
  PROVE  Asked \in Seq(Nodes) /\ OneToOne(Asked)
BY AllNodesType DEF Asked, OneToOne

LEMMA InRangeIsAsked ==
  ASSUME points \in Seq(Points \cup {NoPoint}), dataMapping \in Seq(Nodes), InRange,
         NEW i \in DOMAIN points
  PROVE  i \in DOMAIN Asked /\ Origin(i) = Asked[i]
BY AllNodesType DEF InRange, Asked, Origin

(* What readMoreData() asks for. *)
LEMMA ReadMoreAsks ==
  ASSUME ShapeInv, ReadMoreData, InRange
  PROVE  /\ dataMapping' \in Seq(Nodes) /\ Len(dataMapping') = Len(Open)
         /\ points' \in Seq(Points \cup {NoPoint}) /\ Len(points') = Len(Open)
         /\ \A k \in DOMAIN Open :
              /\ Open[k] \in DOMAIN points /\ Open[k] \in DOMAIN Asked
              /\ dataMapping'[k] = Asked[Open[k]]
              /\ points'[k] = points[Open[k]] /\ points'[k] # NoPoint
         /\ OneToOne(dataMapping')
         /\ DOMAIN Open # {} /\ Open \in Seq(DOMAIN points)
         /\ calls' = Append(calls, [nodes |-> dataMapping', points |-> points', release |-> FALSE])
         /\ undefined' = undefined
<1>1. /\ points \in Seq(Points \cup {NoPoint}) /\ dataMapping \in Seq(Nodes) /\ OneToOne(dataMapping)
      /\ \E i \in DOMAIN points : points[i] # NoPoint
  BY DEF ShapeInv, TypeOK, ReadMoreData
<1>2. /\ Open \in Seq(DOMAIN points) /\ OneToOne(Open) /\ Len(Open) <= Len(points)
      /\ \A k \in DOMAIN Open : Open[k] \in DOMAIN points /\ points[Open[k]] # NoPoint
      /\ \A i \in DOMAIN points : points[i] # NoPoint => \E k \in DOMAIN Open : Open[k] = i
  BY <1>1, OpenLists
<1>3. Asked \in Seq(Nodes) /\ OneToOne(Asked)
  BY <1>1, AskedType
<1>4. \A i \in DOMAIN points : i \in DOMAIN Asked /\ Origin(i) = Asked[i] /\ Asked[i] \in Nodes
  BY <1>1, <1>3, InRangeIsAsked
<1> DEFINE origin == [k \in DOMAIN Open |-> Origin(Open[k])]
           open == [k \in DOMAIN Open |-> points[Open[k]]]
<1>5. /\ dataMapping' = origin /\ points' = open /\ undefined' = undefined
      /\ calls' = Append(calls, [nodes |-> origin, points |-> open, release |-> FALSE])
  BY DEF ReadMoreData
<1>6. /\ DOMAIN origin = DOMAIN Open /\ origin = [k \in DOMAIN Open |-> origin[k]]
      /\ \A k \in DOMAIN Open : origin[k] = Asked[Open[k]] /\ origin[k] \in Nodes
  BY <1>2, <1>4
<1>7. /\ DOMAIN open = DOMAIN Open /\ open = [k \in DOMAIN Open |-> open[k]]
      /\ \A k \in DOMAIN Open : open[k] = points[Open[k]] /\ open[k] \in Points \cup {NoPoint}
  BY <1>1, <1>2
<1> HIDE DEF origin, open
<1>8. origin \in Seq(Nodes) /\ Len(origin) = Len(Open)
  BY <1>2, <1>6, ListOf
<1>9. open \in Seq(Points \cup {NoPoint}) /\ Len(open) = Len(Open)
  <2> DEFINE P == Points \cup {NoPoint}
  <2>1. \A k \in DOMAIN Open : open[k] \in P
    BY <1>7
  <2>2. DOMAIN open = DOMAIN Open /\ open = [k \in DOMAIN Open |-> open[k]]
    BY <1>7
  <2>3. Open \in Seq(DOMAIN points)
    BY <1>2
  <2> HIDE DEF P
  <2>4. open \in Seq(P) /\ Len(open) = Len(Open)
    BY <2>1, <2>2, <2>3, ListOf
  <2> QED
    BY <2>4 DEF P
<1>10. OneToOne(origin)
  <2> SUFFICES ASSUME NEW i \in DOMAIN Open, NEW j \in DOMAIN Open, origin[i] = origin[j]
               PROVE  i = j
    BY <1>6 DEF OneToOne
  <2>1. Open[i] = Open[j]
    BY <1>2, <1>3, <1>4, <1>6 DEF OneToOne
  <2> QED
    BY <1>2, <2>1 DEF OneToOne
<1>11. DOMAIN Open # {}
  BY <1>1, <1>2
<1> QED
  BY <1>2, <1>4, <1>5, <1>6, <1>7, <1>8, <1>9, <1>10, <1>11

LEMMA ReadMoreShape ==
  ASSUME ShapeInv, ReadMoreData
  PROVE  ShapeInv'
<1>1. /\ hstate' = hstate /\ serviceResult' = serviceResult /\ data' = data /\ released' = released
      /\ destroyed' = destroyed /\ sent' = sent /\ signals' = signals /\ history' = history
      /\ held' = held /\ mishaps' \subseteq Mishaps
  BY DEF ReadMoreData, MayCall, serverVars, ShapeInv, TypeOK, Mishaps
<1>2. CASE InRange
  <2>1. /\ dataMapping' \in Seq(Nodes) /\ OneToOne(dataMapping')
        /\ points' \in Seq(Points \cup {NoPoint}) /\ Len(points') = Len(Open)
        /\ \A k \in DOMAIN Open : points'[k] # NoPoint
        /\ DOMAIN Open # {} /\ Open \in Seq(DOMAIN points)
        /\ calls' = Append(calls, [nodes |-> dataMapping', points |-> points', release |-> FALSE])
        /\ undefined' = undefined
    BY <1>2, ReadMoreAsks
  <2>2. DOMAIN points' = DOMAIN Open
    BY <2>1
  <2>3. [nodes |-> dataMapping', points |-> points', release |-> FALSE] \in Requests
    BY <2>1 DEF Requests
  <2>4. calls' \in Seq(Requests)
    BY <2>1, <2>3 DEF ShapeInv, TypeOK
  <2>5. TypeOK'
    BY <1>1, <2>1, <2>4 DEF ShapeInv, TypeOK
  <2>6. \E i \in DOMAIN points' : points'[i] # NoPoint
    BY <2>1, <2>2
  <2>7. \A k \in DOMAIN sent' : WellFormed(sent[k])'
    BY <1>1 DEF ShapeInv, WellFormed
  <2> QED
    BY <1>1, <2>1, <2>5, <2>6, <2>7 DEF ShapeInv, OneToOne
<1>3. CASE ~InRange
  <2>1. undefined' = TRUE /\ dataMapping' = dataMapping /\ points' = points /\ calls' = calls
    BY <1>3 DEF ReadMoreData
  <2>2. TypeOK'
    BY <1>1, <2>1 DEF ShapeInv, TypeOK
  <2> QED
    BY <1>1, <2>1, <2>2 DEF ShapeInv, OneToOne, WellFormed, HasMoreData
<1> QED
  BY <1>2, <1>3

LEMMA ReleaseShape ==
  ASSUME ShapeInv, ReleaseContinuationPoints \/ Destroy
  PROVE  ShapeInv'
<1>1. /\ calls' = Append(calls, [nodes |-> AllNodes, points |-> points, release |-> TRUE])
      /\ hstate' = "Finished" /\ released' = TRUE /\ serviceResult' = serviceResult
      /\ points' = points /\ dataMapping' = dataMapping /\ data' = data /\ undefined' = undefined
      /\ sent' = sent /\ signals' = signals /\ history' = history /\ held' = held
      /\ destroyed' \in {TRUE, destroyed} /\ mishaps' \subseteq Mishaps
  BY DEF ReleaseContinuationPoints, Destroy, PostRelease, MayCall, serverVars, ShapeInv, TypeOK,
         Mishaps
<1>2. [nodes |-> AllNodes, points |-> points, release |-> TRUE] \in Requests
  BY AllNodesType DEF Requests, ShapeInv, TypeOK
<1>3. calls' \in Seq(Requests)
  BY <1>1, <1>2 DEF ShapeInv, TypeOK
<1>4. TypeOK'
  BY <1>1, <1>3 DEF ShapeInv, TypeOK
<1> QED
  BY <1>1, <1>4 DEF ShapeInv, OneToOne, WellFormed, HasMoreData

(* The values of an answer go to the list of one node each. *)
LEMMA AddDataType ==
  ASSUME ShapeInv, NEW answer \in Answers, CanAdd(answer)
  PROVE  /\ AddData(answer) \in Seq(Seq(Nodes \X Nat))
         /\ data # <<>> => Len(AddData(answer)) = Len(data)
<1> DEFINE V == Seq(Nodes \X Nat)
           more == [n \in DOMAIN data |->
                      IF ReadFor(answer, n) = {} THEN data[n]
                      ELSE data[n] \o answer.data[CHOOSE k \in ReadFor(answer, n) : TRUE]]
<1>1. answer.data \in Seq(V) /\ data \in Seq(V)
  BY DEF Answers, ShapeInv, TypeOK
<1>2. AddData(answer) = IF data = <<>> THEN answer.data ELSE more
  BY DEF AddData
<1>3. \A n \in DOMAIN data : more[n] \in V
  <2> TAKE n \in DOMAIN data
  <2>1. data[n] \in V
    BY <1>1
  <2>2. CASE ReadFor(answer, n) = {}
    BY <2>1, <2>2
  <2>3. CASE ReadFor(answer, n) # {}
    <3>1. PICK k \in ReadFor(answer, n) : k = CHOOSE l \in ReadFor(answer, n) : TRUE
      BY <2>3
    <3>2. k \in DOMAIN answer.data
      BY DEF ReadFor
    <3>3. answer.data[k] \in V
      BY <1>1, <3>2
    <3>4. data[n] \o answer.data[k] \in V
      BY <2>1, <3>3
    <3> QED
      BY <2>3, <3>1, <3>4
  <2> QED
    BY <2>2, <2>3
<1>4. DOMAIN more = DOMAIN data /\ more = [n \in DOMAIN data |-> more[n]]
  OBVIOUS
<1> HIDE DEF more, V
<1>5. more \in Seq(V) /\ Len(more) = Len(data)
  BY <1>1, <1>3, <1>4, ListOf
<1>6. AddData(answer) \in Seq(V) /\ (data # <<>> => Len(AddData(answer)) = Len(data))
  BY <1>1, <1>2, <1>5
<1> QED
  BY <1>6 DEF V

LEMMA HandleDataShape ==
  ASSUME ShapeInv, HandleDataAvailable
  PROVE  ShapeInv'
<1> DEFINE answer == Head(signals)
<1>1. answer \in Answers /\ Tail(signals) \in Seq(Answers)
  BY DEF HandleDataAvailable, ShapeInv, TypeOK
<1>2. /\ serviceResult' = answer.code /\ points' = answer.points /\ hstate' = NewState(answer)
      /\ signals' = Tail(signals) /\ dataMapping' = dataMapping /\ released' = released
      /\ destroyed' = destroyed /\ calls' = calls /\ sent' = sent /\ history' = history
      /\ held' = held /\ mishaps' = mishaps
      /\ IF CanAdd(answer) THEN data' = AddData(answer) /\ undefined' = undefined
         ELSE undefined' = TRUE /\ data' = data
  BY DEF HandleDataAvailable, serverVars
<1> HIDE DEF answer
<1>3. data' \in Seq(Seq(Nodes \X Nat)) /\ undefined' \in BOOLEAN
  BY <1>1, <1>2, AddDataType DEF ShapeInv, TypeOK
<1>4. /\ points' \in Seq(Points \cup {NoPoint}) /\ serviceResult' \in {"Good", "Bad"}
      /\ hstate' \in {"Reading", "MoreDataAvailable", "Finished"}
  BY <1>1, <1>2 DEF Answers, NewState
<1>5. TypeOK'
  BY <1>1, <1>2, <1>3, <1>4 DEF ShapeInv, TypeOK
<1>6. HasMoreData' => \E i \in DOMAIN points' : points'[i] # NoPoint
  BY <1>2 DEF HasMoreData, NewState
<1> QED
  BY <1>2, <1>5, <1>6 DEF ShapeInv, OneToOne, WellFormed

LEMMA DropShape ==
  ASSUME ShapeInv, DropDataAvailable
  PROVE  ShapeInv'
<1>1. Tail(signals) \in Seq(Answers)
  BY DEF DropDataAvailable, ShapeInv, TypeOK
<1>2. TypeOK'
  BY <1>1 DEF DropDataAvailable, responseVars, serverVars, ShapeInv, TypeOK
<1> QED
  BY <1>2 DEF DropDataAvailable, responseVars, ShapeInv, OneToOne, WellFormed, HasMoreData

LEMMA BackendShape ==
  ASSUME ShapeInv, BackendReadHistoryRaw
  PROVE  ShapeInv'
<1> DEFINE request == Head(calls)
<1>1. request \in Requests /\ Tail(calls) \in Seq(Requests)
  BY DEF BackendReadHistoryRaw, ShapeInv, TypeOK
<1>2. /\ calls' = Tail(calls)
      /\ IF WellFormed(request) THEN sent' = Append(sent, request) /\ signals' = signals
         ELSE signals' = Append(signals, Nothing("Bad")) /\ sent' = sent
      /\ UNCHANGED <<responseVars, undefined, serverVars, mishaps>>
  BY DEF BackendReadHistoryRaw
<1> HIDE DEF request
<1>3. sent \in Seq(Requests) /\ signals \in Seq(Answers) /\ Nothing("Bad") \in Answers
  BY NothingType DEF ShapeInv, TypeOK
<1>4. sent' \in Seq(Requests) /\ signals' \in Seq(Answers)
  <2>1. Append(sent, request) \in Seq(Requests)
    BY <1>1, <1>3
  <2>2. Append(signals, Nothing("Bad")) \in Seq(Answers)
    BY <1>3
  <2> QED
    BY <1>2, <1>3, <2>1, <2>2
<1>5. TypeOK'
  BY <1>1, <1>2, <1>4 DEF responseVars, serverVars, ShapeInv, TypeOK
<1>6. \A k \in DOMAIN sent' : WellFormed(sent'[k])
  <2>1. CASE WellFormed(request)
    <3>1. \A k \in DOMAIN sent' : sent'[k] \in {sent[j] : j \in DOMAIN sent} \cup {request}
      BY <1>2, <1>3, <2>1
    <3> QED
      BY <2>1, <3>1 DEF ShapeInv
  <2>2. CASE ~WellFormed(request)
    BY <1>2, <2>2 DEF ShapeInv
  <2> QED
    BY <2>1, <2>2
<1> QED
  BY <1>2, <1>5, <1>6 DEF responseVars, ShapeInv, OneToOne, HasMoreData, WellFormed

LEMMA ServiceShape ==
  ASSUME ShapeInv, Service
  PROVE  ShapeInv'
<1>1. PICK k \in DOMAIN sent : ServerReads(k) \/ ServerReleases(k) \/ ServiceFails(k)
  BY DEF Service
<1> DEFINE request == sent[k]
<1>2. /\ request \in Requests /\ WellFormed(request) /\ held \subseteq Points
      /\ history \in [Nodes -> 1..MaxPages] /\ sent \in Seq(Requests) /\ signals \in Seq(Answers)
      /\ mishaps \subseteq Mishaps
  BY DEF ShapeInv, TypeOK
<1>3. /\ sent' = RemoveAt(sent, k)
      /\ UNCHANGED <<responseVars, undefined, calls, history>>
  BY <1>1 DEF ServerReads, ServerReleases, ServiceFails, Take
<1>4. /\ sent' \in Seq(Requests)
      /\ \A i \in DOMAIN sent' : \E j \in DOMAIN sent : sent'[i] = sent[j]
  BY <1>2, <1>3, TakenOut
<1>5. held' \subseteq Points /\ signals' \in Seq(Answers) /\ mishaps' \subseteq Mishaps
  <2>1. CASE ServerReads(k)
    <3> DEFINE used == {PageOf(request, i) : i \in DOMAIN request.nodes} \ {NoPoint}
               invalid == {i \in DOMAIN request.nodes :
                             request.points # <<>> /\ request.points[i] \notin held}
    <3>1. PICK bad \in SUBSET DOMAIN request.nodes :
            /\ invalid \subseteq bad
            /\ held' = (held \ used) \cup
                       ({NextPoint(PageOf(request, i)) : i \in DOMAIN request.nodes \ bad} \ {NoPoint})
            /\ \/ signals' = Append(signals, Collected(request, bad))
               \/ bad # {} /\ signals' = Append(signals, Nothing("Good"))
            /\ mishaps' = mishaps \cup (IF bad = invalid THEN {} ELSE {"node"})
      BY <2>1 DEF ServerReads
    <3>2. \A i \in DOMAIN request.nodes \ bad : request.points = <<>> \/ request.points[i] \in held
      BY <3>1
    <3> HIDE DEF invalid, used, request
    <3>3. \A i \in DOMAIN request.nodes \ bad : NextPoint(PageOf(request, i)) \in Points \cup {NoPoint}
      BY <1>2, <3>2, PageType, NextPointType
    <3>4. held' \subseteq Points
      BY <1>2, <3>1, <3>3
    <3>5. Collected(request, bad) \in Answers /\ Nothing("Good") \in Answers
      BY <1>2, <3>2, CollectedType, NothingType
    <3>6. signals' \in Seq(Answers)
      <4>1. Append(signals, Collected(request, bad)) \in Seq(Answers)
        BY <1>2, <3>5
      <4>2. Append(signals, Nothing("Good")) \in Seq(Answers)
        BY <1>2, <3>5
      <4> QED
        BY <3>1, <4>1, <4>2
    <3> QED
      BY <1>2, <3>1, <3>4, <3>6 DEF Mishaps
  <2>2. CASE ServerReleases(k)
    BY <1>2, <2>2, NothingType DEF ServerReleases
  <2>3. CASE ServiceFails(k)
    BY <1>2, <2>3, NothingType DEF ServiceFails, Mishaps
  <2> QED
    BY <1>1, <2>1, <2>2, <2>3
<1>6. TypeOK'
  BY <1>3, <1>4, <1>5 DEF responseVars, ShapeInv, TypeOK
<1>7. \A i \in DOMAIN sent' : WellFormed(sent'[i])
  BY <1>4 DEF ShapeInv
<1> QED
  BY <1>3, <1>6, <1>7 DEF responseVars, ShapeInv, OneToOne, HasMoreData, WellFormed

LEMMA ShapeNext ==
  ASSUME ShapeInv, [Next]_vars
  PROVE  ShapeInv'
<1>1. CASE UNCHANGED vars
  BY <1>1 DEF vars, responseVars, serverVars, ShapeInv, TypeOK, OneToOne, HasMoreData, WellFormed
<1> QED
  BY <1>1, ReadMoreShape, ReleaseShape, HandleDataShape, DropShape, BackendShape, ServiceShape
     DEF Next, ClientLoop

-----------------------------------------------------------------------------
(* One request under way.                                                  *)

LEMMA OneUnderWay ==
  ASSUME TypeOK, Len(calls) + Len(sent) + Len(signals) <= 1
  PROVE  /\ calls # <<>> => Len(calls) = 1 /\ sent = <<>> /\ signals = <<>>
         /\ sent # <<>> => Len(sent) = 1 /\ calls = <<>> /\ signals = <<>>
         /\ signals # <<>> => Len(signals) = 1 /\ calls = <<>> /\ sent = <<>>
<1>1. calls \in Seq(Requests) /\ sent \in Seq(Requests) /\ signals \in Seq(Answers)
  BY DEF TypeOK
<1>2. Len(calls) \in Nat /\ Len(sent) \in Nat /\ Len(signals) \in Nat
  BY <1>1
<1>3. /\ Len(calls) = 0 <=> calls = <<>>
      /\ Len(sent) = 0 <=> sent = <<>>
      /\ Len(signals) = 0 <=> signals = <<>>
  BY <1>1
<1>4. ASSUME NEW a \in Nat, NEW b \in Nat, NEW c \in Nat, a + b + c <= 1
      PROVE  /\ a # 0 => a = 1 /\ b = 0 /\ c = 0
             /\ b # 0 => b = 1 /\ a = 0 /\ c = 0
             /\ c # 0 => c = 1 /\ a = 0 /\ b = 0
  BY <1>4
<1> QED
  BY <1>2, <1>3, <1>4

(* An application that waits for its answers calls when there are none     *)
(* under way.                                                              *)
LEMMA CallsWhenSettled ==
  ASSUME MayCall, "overlap" \notin mishaps'
  PROVE  calls = <<>> /\ sent = <<>> /\ signals = <<>> /\ mishaps' = mishaps
BY DEF MayCall, Settled

LEMMA OverlapStays ==
  ASSUME Next
  PROVE  mishaps \subseteq mishaps'
BY DEF Next, ReadMoreData, ReleaseContinuationPoints, Destroy, MayCall, ClientLoop,
       HandleDataAvailable, DropDataAvailable, BackendReadHistoryRaw, Service, ServerReads,
       ServerReleases, ServiceFails

LEMMA PointsInRange ==
  ASSUME TypeOK, Asked \in Seq(Nodes), Len(points) <= Len(Asked)
  PROVE  InRange /\ DOMAIN points \subseteq DOMAIN Asked
<1>1. DOMAIN points \subseteq DOMAIN Asked
  BY DEF TypeOK
<1> QED
  BY <1>1, AllNodesType DEF InRange, Asked

LEMMA ReadMoreRange ==
  ASSUME ShapeInv, RangeInv, ReadMoreData
  PROVE  RangeInv'
<1> SUFFICES ASSUME "overlap" \notin mishaps' PROVE RangeInv'
  BY DEF RangeInv
<1>1. calls = <<>> /\ sent = <<>> /\ signals = <<>> /\ mishaps' = mishaps
  BY CallsWhenSettled DEF ReadMoreData
<1>2. /\ ~undefined /\ Len(points) <= Len(Asked) /\ data # <<>> /\ DOMAIN data = Nodes
  BY <1>1 DEF RangeInv, ReadMoreData
<1>3. InRange
  BY <1>2, AskedType, PointsInRange DEF ShapeInv, TypeOK
<1>4. /\ dataMapping' \in Seq(Nodes) /\ Len(dataMapping') = Len(Open)
      /\ points' \in Seq(Points \cup {NoPoint}) /\ Len(points') = Len(Open)
      /\ DOMAIN Open # {} /\ Open \in Seq(DOMAIN points)
      /\ calls' = Append(calls, [nodes |-> dataMapping', points |-> points', release |-> FALSE])
      /\ undefined' = undefined
  BY <1>3, ReadMoreAsks
<1>5. dataMapping' # <<>> /\ Asked' = dataMapping'
  BY <1>4 DEF Asked
<1>6. data' = data /\ sent' = sent /\ signals' = signals
  BY DEF ReadMoreData
<1>7. /\ calls' = << [nodes |-> dataMapping', points |-> points', release |-> FALSE] >>
      /\ sent' = <<>> /\ signals' = <<>>
  BY <1>1, <1>4, <1>6
<1>8. Len(calls') + Len(sent') + Len(signals') <= 1
  BY <1>7
<1>9. \A k \in DOMAIN calls' : ReadsAsked(calls[k])'
  BY <1>5, <1>7 DEF ReadsAsked
<1>10. Len(points') <= Len(Asked')
  BY <1>4, <1>5
<1> QED
  BY <1>2, <1>4, <1>6, <1>7, <1>8, <1>9, <1>10 DEF RangeInv

LEMMA ReleaseRange ==
  ASSUME ShapeInv, RangeInv, ReleaseContinuationPoints \/ Destroy
  PROVE  RangeInv'
<1> SUFFICES ASSUME "overlap" \notin mishaps' PROVE RangeInv'
  BY DEF RangeInv
<1>1. calls = <<>> /\ sent = <<>> /\ signals = <<>> /\ mishaps' = mishaps
  BY CallsWhenSettled DEF ReleaseContinuationPoints, Destroy
<1>2. /\ calls' = Append(calls, [nodes |-> AllNodes, points |-> points, release |-> TRUE])
      /\ hstate' = "Finished" /\ points' = points /\ dataMapping' = dataMapping /\ data' = data
      /\ undefined' = undefined /\ sent' = sent /\ signals' = signals
  BY DEF ReleaseContinuationPoints, Destroy, PostRelease
<1>3. Asked' = Asked /\ ~HasMoreData'
  BY <1>2 DEF Asked, HasMoreData
<1>4. /\ calls' = << [nodes |-> AllNodes, points |-> points, release |-> TRUE] >>
      /\ sent' = <<>> /\ signals' = <<>>
  BY <1>1, <1>2
<1>5. Len(calls') + Len(sent') + Len(signals') <= 1 /\ \A k \in DOMAIN calls' : calls'[k].release
  BY <1>4
<1>6. \A k \in DOMAIN calls' : ReadsAsked(calls[k])'
  BY <1>5 DEF ReadsAsked
<1>7. sent' = <<>> /\ signals' = <<>>
  BY <1>4
<1>8. /\ ~undefined /\ Len(points) <= Len(Asked)
      /\ data # <<>> => DOMAIN data = Nodes
      /\ (dataMapping # <<>> => data # <<>>)
  BY <1>1 DEF RangeInv
<1>9. /\ undefined' = undefined /\ points' = points /\ data' = data /\ dataMapping' = dataMapping
  BY <1>2
<1> QED
  BY <1>3, <1>5, <1>6, <1>7, <1>8, <1>9 DEF RangeInv

(* What the answer to the only request leaves behind. *)
LEMMA AnswerIsTheOne ==
  ASSUME ShapeInv, RangeInv, "overlap" \notin mishaps, signals # <<>>
  PROVE  /\ calls = <<>> /\ sent = <<>> /\ Tail(signals) = <<>>
         /\ Head(signals) = signals[1] /\ DOMAIN signals = {1} /\ Head(signals) \in Answers
         /\ \/ IsNothing(Head(signals))
            \/ /\ DOMAIN Head(signals).data = DOMAIN Asked
               /\ Len(Head(signals).points) <= Len(Asked)
               /\ dataMapping = <<>> => data = <<>>
<1>1. signals \in Seq(Answers) /\ Len(signals) = 1 /\ calls = <<>> /\ sent = <<>>
  BY OneUnderWay DEF ShapeInv, TypeOK, RangeInv
<1>2. DOMAIN signals = {1} /\ Tail(signals) = <<>> /\ Head(signals) = signals[1]
  BY <1>1, LastTakenOut
<1>3. Head(signals) \in Answers
  BY <1>1, <1>2
<1> QED
  BY <1>1, <1>2, <1>3 DEF RangeInv

LEMMA NothingAdds ==
  ASSUME ShapeInv, NEW answer, IsNothing(answer)
  PROVE  CanAdd(answer) /\ AddData(answer) = data
<1>1. DOMAIN answer.data = {}
  BY DEF IsNothing
<1>2. CanAdd(answer)
  BY <1>1 DEF CanAdd
<1>3. \A n : ReadFor(answer, n) = {}
  BY <1>1 DEF ReadFor
<1>4. data = [n \in DOMAIN data |-> data[n]]
  BY DEF ShapeInv, TypeOK
<1> QED
  BY <1>2, <1>3, <1>4 DEF AddData, IsNothing

LEMMA AskedAdds ==
  ASSUME ShapeInv, RangeInv, "overlap" \notin mishaps, NEW answer \in Answers,
         DOMAIN answer.data = DOMAIN Asked, dataMapping = <<>> => data = <<>>
  PROVE  /\ CanAdd(answer) /\ DOMAIN AddData(answer) = Nodes /\ AddData(answer) # <<>>
         /\ data = <<>> => Asked = AllNodes /\ AddData(answer) = answer.data
         /\ data # <<>> => Asked = dataMapping /\ DOMAIN data = Nodes
<1>1. data = <<>> => dataMapping = <<>>
  BY DEF RangeInv
<1>2. data # <<>> => dataMapping # <<>> /\ DOMAIN data = Nodes
  BY DEF RangeInv
<1>3. data # <<>> => Asked = dataMapping
  BY <1>2 DEF Asked
<1>4. data = <<>> => Asked = AllNodes
  BY <1>1 DEF Asked
<1>5. CanAdd(answer)
  BY <1>2, <1>3 DEF CanAdd, ShapeInv, TypeOK
<1>6. DOMAIN AddData(answer) = Nodes
  BY <1>2, <1>4, AllNodesType DEF AddData
<1>7. Nodes # {}
  <2>1. 1 \in Nodes
    BY NodeCountAssumption DEF Nodes
  <2> QED
    BY <2>1
<1>8. AddData(answer) # <<>>
  BY <1>6, <1>7
<1> QED
  BY <1>2, <1>3, <1>4, <1>5, <1>6, <1>8 DEF AddData

LEMMA HandleDataRange ==
  ASSUME ShapeInv, RangeInv, HandleDataAvailable
  PROVE  RangeInv'
<1> DEFINE answer == Head(signals)
<1> SUFFICES ASSUME "overlap" \notin mishaps' PROVE RangeInv'
  BY DEF RangeInv
<1>1. /\ mishaps' = mishaps /\ signals # <<>> /\ ~undefined
      /\ points' = answer.points /\ hstate' = NewState(answer)
      /\ signals' = Tail(signals) /\ dataMapping' = dataMapping /\ calls' = calls /\ sent' = sent
      /\ IF CanAdd(answer) THEN data' = AddData(answer) /\ undefined' = undefined
         ELSE undefined' = TRUE /\ data' = data
  BY DEF HandleDataAvailable
<1>2. /\ calls = <<>> /\ sent = <<>> /\ Tail(signals) = <<>> /\ answer \in Answers
      /\ \/ IsNothing(answer)
         \/ /\ DOMAIN answer.data = DOMAIN Asked
            /\ Len(answer.points) <= Len(Asked)
            /\ dataMapping = <<>> => data = <<>>
  BY <1>1, AnswerIsTheOne
<1> HIDE DEF answer
<1>3. Asked' = Asked
  BY <1>1 DEF Asked
<1>4. /\ calls' = <<>> /\ sent' = <<>> /\ signals' = <<>>
      /\ Len(calls') + Len(sent') + Len(signals') <= 1
  BY <1>1, <1>2
<1>5. Asked \in Seq(Nodes)
  BY AskedType DEF ShapeInv, TypeOK
<1>6. CASE IsNothing(answer)
  <2>1. data' = data /\ undefined' = undefined
    BY <1>1, <1>6, NothingAdds
  <2>2. points' = <<>> /\ ~HasMoreData'
    BY <1>1, <1>6 DEF IsNothing, NewState, HasMoreData
  <2>3. Len(points') <= Len(Asked')
    BY <1>3, <1>5, <2>2
  <2> QED
    BY <1>1, <1>4, <2>1, <2>2, <2>3 DEF RangeInv
<1>7. CASE /\ DOMAIN answer.data = DOMAIN Asked
           /\ Len(answer.points) <= Len(Asked)
           /\ dataMapping = <<>> => data = <<>>
  <2>1. CanAdd(answer) /\ DOMAIN AddData(answer) = Nodes /\ AddData(answer) # <<>>
    BY <1>1, <1>2, <1>7, AskedAdds
  <2> QED
    BY <1>1, <1>3, <1>4, <1>7, <2>1 DEF RangeInv
<1> QED
  BY <1>2, <1>6, <1>7

LEMMA DropRange ==
  ASSUME ShapeInv, RangeInv, DropDataAvailable
  PROVE  RangeInv'
<1> SUFFICES ASSUME "overlap" \notin mishaps' PROVE RangeInv'
  BY DEF RangeInv
<1>1. /\ mishaps' = mishaps /\ signals # <<>> /\ signals' = Tail(signals)
      /\ points' = points /\ hstate' = hstate /\ dataMapping' = dataMapping /\ data' = data
      /\ calls' = calls /\ sent' = sent /\ undefined' = undefined
  BY DEF DropDataAvailable, responseVars
<1>2. calls' = <<>> /\ sent' = <<>> /\ signals' = <<>>
  BY <1>1, AnswerIsTheOne
<1>3. Asked' = Asked /\ HasMoreData' = HasMoreData
  BY <1>1 DEF Asked, HasMoreData
<1>4. Len(calls') + Len(sent') + Len(signals') <= 1
  BY <1>2
<1> QED
  BY <1>1, <1>2, <1>3, <1>4 DEF RangeInv

LEMMA BackendRange ==
  ASSUME ShapeInv, RangeInv, BackendReadHistoryRaw
  PROVE  RangeInv'
<1> SUFFICES ASSUME "overlap" \notin mishaps' PROVE RangeInv'
  BY DEF RangeInv
<1> DEFINE request == Head(calls)
<1>1. /\ mishaps' = mishaps /\ calls # <<>> /\ calls' = Tail(calls)
      /\ points' = points /\ hstate' = hstate /\ dataMapping' = dataMapping /\ data' = data
      /\ undefined' = undefined
      /\ IF WellFormed(request) THEN sent' = Append(sent, request) /\ signals' = signals
         ELSE signals' = Append(signals, Nothing("Bad")) /\ sent' = sent
  BY DEF BackendReadHistoryRaw, responseVars
<1>2. Len(calls) = 1 /\ sent = <<>> /\ signals = <<>> /\ calls \in Seq(Requests)
  BY <1>1, OneUnderWay DEF ShapeInv, TypeOK, RangeInv
<1>3. Tail(calls) = <<>> /\ request = calls[1] /\ 1 \in DOMAIN calls
  BY <1>2, LastTakenOut
<1>4. ReadsAsked(request)
  BY <1>1, <1>3 DEF RangeInv
<1> HIDE DEF request
<1>5. /\ calls' = <<>>
      /\ \/ sent' = <<request>> /\ signals' = <<>>
         \/ sent' = <<>> /\ signals' = <<Nothing("Bad")>>
  BY <1>1, <1>2, <1>3
<1>6. Asked' = Asked /\ HasMoreData' = HasMoreData
  BY <1>1 DEF Asked, HasMoreData
<1>7. /\ Len(calls') + Len(sent') + Len(signals') <= 1
      /\ \A k \in DOMAIN sent' : sent'[k] = request
      /\ \A k \in DOMAIN signals' : IsNothing(signals'[k])
  <2>1. CASE sent' = <<request>> /\ signals' = <<>>
    BY <1>5, <2>1
  <2>2. CASE sent' = <<>> /\ signals' = <<Nothing("Bad")>>
    <3>1. \A k \in DOMAIN signals' : signals'[k] = Nothing("Bad")
      BY <2>2
    <3>2. IsNothing(Nothing("Bad"))
      BY NothingType
    <3>3. Len(calls') + Len(sent') + Len(signals') <= 1
      BY <1>5, <2>2
    <3> QED
      BY <2>2, <3>1, <3>2, <3>3
  <2> QED
    BY <1>5, <2>1, <2>2
<1>8. \A k \in DOMAIN sent' : ReadsAsked(sent[k])'
  BY <1>1, <1>4, <1>6, <1>7 DEF ReadsAsked
<1>9. \A k \in DOMAIN signals' : IsNothing(signals[k])'
  BY <1>7 DEF IsNothing
<1> QED
  BY <1>1, <1>5, <1>6, <1>7, <1>8, <1>9 DEF RangeInv

(* The only request that the server has. *)
LEMMA RequestIsTheOne ==
  ASSUME ShapeInv, RangeInv, "overlap" \notin mishaps, NEW k \in DOMAIN sent
  PROVE  /\ k = 1 /\ calls = <<>> /\ signals = <<>> /\ RemoveAt(sent, k) = <<>>
         /\ sent[k] \in Requests /\ ReadsAsked(sent[k]) /\ WellFormed(sent[k])
         /\ DOMAIN sent = {1}
<1>1. sent # <<>> /\ sent \in Seq(Requests)
  BY DEF ShapeInv, TypeOK
<1>2. Len(sent) = 1 /\ calls = <<>> /\ signals = <<>>
  BY <1>1, OneUnderWay DEF ShapeInv, RangeInv
<1>3. DOMAIN sent = {1} /\ RemoveAt(sent, k) = <<>>
  BY <1>1, <1>2, LastTakenOut
<1>4. sent[k] \in Requests
  BY <1>1
<1> QED
  BY <1>2, <1>3, <1>4 DEF RangeInv, ShapeInv

(* The answer the server gives, and whether something has gone wrong.      *)
LEMMA ServiceAnswers ==
  ASSUME ShapeInv, NEW k \in DOMAIN sent,
         ServerReads(k) \/ ServerReleases(k) \/ ServiceFails(k)
  PROVE  /\ sent' = RemoveAt(sent, k)
         /\ UNCHANGED <<responseVars, undefined, calls, history>>
         /\ \E a \in Answers :
              /\ signals' = Append(signals, a)
              /\ \/ IsNothing(a)
                 \/ /\ ~sent[k].release
                    /\ Len(a.data) = Len(sent[k].nodes) /\ Len(a.points) <= Len(sent[k].nodes)
<1>1. /\ sent' = RemoveAt(sent, k)
      /\ UNCHANGED <<responseVars, undefined, calls, history>>
  BY DEF ServerReads, ServerReleases, ServiceFails, Take
<1>2. /\ sent[k] \in Requests /\ WellFormed(sent[k]) /\ held \subseteq Points
      /\ history \in [Nodes -> 1..MaxPages]
  BY DEF ShapeInv, TypeOK
<1>3. CASE ServerReleases(k) \/ ServiceFails(k)
  <2>1. signals' = Append(signals, Nothing("Good")) \/ signals' = Append(signals, Nothing("Bad"))
    BY <1>3 DEF ServerReleases, ServiceFails
  <2> QED
    BY <1>1, <2>1, NothingType
<1>4. CASE ServerReads(k)
  <2> DEFINE request == sent[k]
             invalid == {i \in DOMAIN request.nodes :
                           request.points # <<>> /\ request.points[i] \notin held}
  <2>1. PICK bad \in SUBSET DOMAIN request.nodes :
          /\ invalid \subseteq bad
          /\ \/ signals' = Append(signals, Collected(request, bad))
             \/ signals' = Append(signals, Nothing("Good"))
    BY <1>4 DEF ServerReads
  <2>2. \A i \in DOMAIN request.nodes \ bad : request.points = <<>> \/ request.points[i] \in held
    BY <2>1
  <2>3. ~request.release
    BY <1>4 DEF ServerReads
  <2> DEFINE a == Collected(request, bad)
  <2> HIDE DEF invalid, request
  <2>4. a \in Answers /\ Len(a.data) = Len(request.nodes) /\ Len(a.points) <= Len(request.nodes)
    BY <1>2, <2>2, CollectedType DEF request
  <2> HIDE DEF a
  <2> QED
    BY <1>1, <2>1, <2>3, <2>4, NothingType DEF request, a
<1> QED
  BY <1>3, <1>4

LEMMA ServiceRange ==
  ASSUME ShapeInv, RangeInv, Service
  PROVE  RangeInv'
<1> SUFFICES ASSUME "overlap" \notin mishaps' PROVE RangeInv'
  BY DEF RangeInv
<1>1. PICK k \in DOMAIN sent : ServerReads(k) \/ ServerReleases(k) \/ ServiceFails(k)
  BY DEF Service
<1>2. "overlap" \notin mishaps
  BY OverlapStays DEF Next
<1>3. /\ calls = <<>> /\ signals = <<>> /\ RemoveAt(sent, k) = <<>>
      /\ sent[k] \in Requests /\ ReadsAsked(sent[k])
  BY <1>2, RequestIsTheOne
<1>4. /\ sent' = RemoveAt(sent, k)
      /\ UNCHANGED <<responseVars, undefined, calls, history>>
  BY <1>1, ServiceAnswers
<1>5. PICK a \in Answers :
        /\ signals' = Append(signals, a)
        /\ \/ IsNothing(a)
           \/ /\ ~sent[k].release
              /\ Len(a.data) = Len(sent[k].nodes) /\ Len(a.points) <= Len(sent[k].nodes)
  BY <1>1, ServiceAnswers
<1>6. /\ calls' = <<>> /\ sent' = <<>> /\ signals' = <<a>>
      /\ points' = points /\ hstate' = hstate /\ dataMapping' = dataMapping /\ data' = data
      /\ undefined' = undefined
  BY <1>3, <1>4, <1>5 DEF responseVars
<1>7. Asked' = Asked /\ HasMoreData' = HasMoreData
  BY <1>6 DEF Asked, HasMoreData
<1>8. /\ Len(calls') + Len(sent') + Len(signals') <= 1
      /\ \A i \in DOMAIN signals' : signals'[i] = a
  BY <1>6
<1>9. \/ IsNothing(a)
      \/ /\ DOMAIN a.data = DOMAIN Asked /\ Len(a.points) <= Len(Asked)
         /\ dataMapping = <<>> => data = <<>>
  <2>1. a.data \in Seq(Seq(Nodes \X Nat)) /\ sent[k].nodes \in Seq(Nodes)
    BY <1>3 DEF Answers, Requests
  <2>2. Len(a.data) = Len(sent[k].nodes) => DOMAIN a.data = DOMAIN sent[k].nodes
    BY <2>1
  <2> QED
    BY <1>3, <1>5, <2>2 DEF ReadsAsked
<1>10. \A i \in DOMAIN signals' :
         \/ IsNothing(signals[i])'
         \/ /\ DOMAIN signals'[i].data = DOMAIN Asked'
            /\ Len(signals'[i].points) <= Len(Asked')
            /\ dataMapping' = <<>> => data' = <<>>
  BY <1>6, <1>7, <1>8, <1>9 DEF IsNothing
<1> QED
  BY <1>2, <1>6, <1>7, <1>8, <1>10 DEF RangeInv

LEMMA RangeNext ==
  ASSUME ShapeInv, RangeInv, [Next]_vars
  PROVE  RangeInv'
<1>1. CASE UNCHANGED vars
  BY <1>1 DEF vars, responseVars, serverVars, RangeInv, HasMoreData, ReadsAsked, IsNothing, Asked
<1> QED
  BY <1>1, ReadMoreRange, ReleaseRange, HandleDataRange, DropRange, BackendRange, ServiceRange
     DEF Next, ClientLoop


(* The initial state. *)
LEMMA HistoryInit ==
  ASSUME Init
  PROVE  HistoryInv
<1> DEFINE first == [nodes |-> AllNodes, points |-> <<>>, release |-> FALSE]
<1>1. /\ hstate = "Reading" /\ serviceResult = "Good" /\ points = <<>> /\ dataMapping = <<>>
      /\ data = <<>> /\ released = FALSE /\ destroyed = FALSE /\ undefined = FALSE
      /\ calls = <<first>> /\ sent = <<>> /\ signals = <<>> /\ held = {} /\ mishaps = {}
      /\ history \in [Nodes -> 1..MaxPages]
  BY DEF Init
<1>2. first \in Requests /\ first.nodes = AllNodes /\ first.points = <<>> /\ first.release = FALSE
  <2> DEFINE P == Points \cup {NoPoint}
  <2>1. <<>> \in Seq(P)
    <3> HIDE DEF P
    <3> QED
      OBVIOUS
  <2> QED
    BY <2>1, AllNodesType DEF Requests
<1> HIDE DEF first
<1>3. calls \in Seq(Requests) /\ Len(calls) = 1 /\ \A k \in DOMAIN calls : calls[k] = first
  BY <1>1, <1>2
<1>4. /\ points \in Seq(Points \cup {NoPoint}) /\ dataMapping \in Seq(Nodes)
      /\ data \in Seq(Seq(Nodes \X Nat)) /\ sent \in Seq(Requests) /\ signals \in Seq(Answers)
  <2>1. \A S : <<>> \in Seq(S)
    OBVIOUS
  <2> QED
    BY <1>1, <2>1, Zenon
<1>5. TypeOK
  BY <1>1, <1>3, <1>4 DEF TypeOK
<1>6. Asked = AllNodes /\ Len(Asked) = NodeCount /\ NodeCount \in Nat
  BY <1>1, AllNodesType, NodeCountAssumption DEF Asked
<1>7. Len(points) = 0 /\ Len(dataMapping) = 0 /\ Len(sent) = 0 /\ Len(signals) = 0
      /\ DOMAIN points = {} /\ DOMAIN sent = {} /\ DOMAIN signals = {} /\ DOMAIN dataMapping = {}
      /\ DOMAIN data = {}
  BY <1>1
<1>8. ShapeInv
  BY <1>1, <1>5, <1>7 DEF ShapeInv, OneToOne, HasMoreData
<1>9. RangeInv
  <2>1. \A k \in DOMAIN calls : ReadsAsked(calls[k])
    BY <1>1, <1>2, <1>3, <1>6 DEF ReadsAsked
  <2>2. Len(calls) + Len(sent) + Len(signals) <= 1 /\ Len(points) <= Len(Asked)
    BY <1>3, <1>6, <1>7
  <2>3. ~HasMoreData
    BY <1>1 DEF HasMoreData
  <2> QED
    BY <1>1, <1>7, <2>1, <2>2, <2>3 DEF RangeInv
<1>10. OrderInv
  BY <1>1, <1>2, <1>3, <1>7 DEF OrderInv, DataIsInOrder
<1>11. CompleteInv
  BY <1>1 DEF CompleteInv
<1>12. ReleaseInv
  BY <1>1, <1>2, <1>3, <1>7 DEF ReleaseInv, Settled
<1> QED
  BY <1>8, <1>9, <1>10, <1>11, <1>12 DEF HistoryInv


-----------------------------------------------------------------------------
(* The data of a node, if the server has read every node.                  *)

(* The answer adds the next page to the nodes asked for. *)
LEMMA ContinuedData ==
  ASSUME ShapeInv, RangeInv, OrderInv, mishaps \subseteq {"service"}, NEW answer \in Answers,
         dataMapping = <<>> => data = <<>>, Continues(answer)
  PROVE  /\ CanAdd(answer) /\ AddData(answer) # <<>> /\ DOMAIN AddData(answer) = Nodes
         /\ \A k \in DOMAIN Asked : Len(AddData(answer)[Asked[k]]) = Read(Asked[k]) + 1
         /\ \A n \in Nodes : (\A k \in DOMAIN Asked : Asked[k] # n) =>
              data # <<>> /\ Len(AddData(answer)[n]) = Read(n)
         /\ \A n \in Nodes : AddData(answer)[n] = PagesUpTo(n, Len(AddData(answer)[n]))
<1> DEFINE more == AddData(answer)
<1>1. Asked \in Seq(Nodes) /\ OneToOne(Asked) /\ data \in Seq(Seq(Nodes \X Nat))
  BY AskedType DEF ShapeInv, TypeOK
<1>2. /\ DOMAIN answer.data = DOMAIN Asked
      /\ \A k \in DOMAIN Asked : answer.data[k] = << <<Asked[k], Read(Asked[k]) + 1>> >>
  BY DEF Continues
<1>3. /\ CanAdd(answer) /\ DOMAIN more = Nodes /\ more # <<>>
      /\ data = <<>> => Asked = AllNodes /\ more = answer.data
      /\ data # <<>> => Asked = dataMapping /\ DOMAIN data = Nodes
  BY <1>2, AskedAdds
<1>4. CASE data = <<>>
  <2>1. \A n \in Nodes : more[n] = << <<n, 0 + 1>> >> /\ Asked[n] = n /\ Read(n) = 0
    BY <1>2, <1>3, <1>4, AllNodesType DEF Read
  <2>2. \A n \in Nodes : Len(more[n]) = 1 /\ more[n] = PagesUpTo(n, 1)
    BY <2>1 DEF PagesUpTo
  <2>3. DOMAIN Asked = Nodes
    BY <1>3, <1>4, AllNodesType
  <2> HIDE DEF more
  <2>4. \A k \in DOMAIN Asked : Len(more[Asked[k]]) = Read(Asked[k]) + 1
    <3>1. \A n \in Nodes : Asked[n] = n /\ Read(n) = 0 /\ Len(more[n]) = 1
      BY <2>1, <2>2
    <3>2. 1 = 0 + 1
      OBVIOUS
    <3> QED
      BY <2>3, <3>1, <3>2, Zenon
  <2>5. \A n \in Nodes : more[n] = PagesUpTo(n, Len(more[n]))
    BY <2>2
  <2>6. \A n \in Nodes : \E k \in DOMAIN Asked : Asked[k] = n
    BY <2>1, <2>3
  <2> QED
    BY <1>3, <2>4, <2>5, <2>6 DEF more
<1>5. CASE data # <<>>
  <2>1. \A n \in Nodes : /\ data[n] \in Seq(Nodes \X Nat) /\ Read(n) = Len(data[n]) /\ Read(n) \in Nat
                         /\ data[n] = PagesUpTo(n, Read(n))
    BY <1>1, <1>3, <1>5 DEF Read, OrderInv, DataIsInOrder
  <2>2. more = [n \in DOMAIN data |->
                  IF ReadFor(answer, n) = {} THEN data[n]
                  ELSE data[n] \o answer.data[CHOOSE k \in ReadFor(answer, n) : TRUE]]
    BY <1>5 DEF AddData
  <2>3. \A n \in Nodes : ReadFor(answer, n) = {k \in DOMAIN Asked : Asked[k] = n}
    BY <1>2, <1>3, <1>5 DEF ReadFor
  <2>4. ASSUME NEW n \in Nodes, \A k \in DOMAIN Asked : Asked[k] # n
        PROVE  more[n] = data[n]
    <3>1. ReadFor(answer, n) = {}
      BY <2>3, <2>4
    <3> QED
      BY <1>3, <1>5, <2>2, <3>1
  <2>5. ASSUME NEW k \in DOMAIN Asked
        PROVE  /\ more[Asked[k]] = Append(data[Asked[k]], <<Asked[k], Read(Asked[k]) + 1>>)
               /\ Len(more[Asked[k]]) = Read(Asked[k]) + 1
               /\ more[Asked[k]] = PagesUpTo(Asked[k], Read(Asked[k]) + 1)
    <3> DEFINE n == Asked[k]
               r == Read(n)
    <3>1. n \in Nodes /\ r \in Nat
      BY <1>1, <2>1
    <3>2. ReadFor(answer, n) = {k}
      BY <1>1, <2>3, <3>1 DEF OneToOne
    <3>3. (CHOOSE l \in ReadFor(answer, n) : TRUE) = k
      BY <3>2
    <3>4. more[n] = data[n] \o << <<n, r + 1>> >>
      BY <1>2, <1>3, <1>5, <2>2, <3>1, <3>2, <3>3, ZenonT(60)
    <3>5. data[n] \in Seq(Nodes \X Nat) /\ Len(data[n]) = r /\ data[n] = PagesUpTo(n, r)
      BY <2>1, <3>1
    <3>6. <<n, r + 1>> \in Nodes \X Nat
      BY <3>1
    <3> DEFINE d == data[n]
               e == <<n, r + 1>>
               V == Nodes \X Nat
    <3> HIDE DEF n, r
    <3>7. /\ d \in Seq(V) /\ Len(d) = r /\ e \in V /\ more[n] = d \o <<e>>
          /\ \A i \in 1..r : d[i] = <<n, i>>
      BY <3>4, <3>5, <3>6 DEF PagesUpTo
    <3>8. e = <<n, r + 1>>
      OBVIOUS
    <3> HIDE DEF d, e, V
    <3>9. more[n] = Append(d, e)
      BY <3>7
    <3>10. /\ more[n] \in Seq(V) /\ Len(more[n]) = r + 1
           /\ \A i \in 1..(r + 1) : more[n][i] = IF i = r + 1 THEN e ELSE d[i]
      BY <3>1, <3>7, <3>9
    <3>11. \A i \in 1..(r + 1) : more[n][i] = <<n, i>>
      <4> TAKE i \in 1..(r + 1)
      <4>1. i = r + 1 \/ i \in 1..r
        BY <3>1
      <4> QED
        BY <3>1, <3>7, <3>8, <3>10, <4>1
    <3>12. more[n] = [i \in 1..(r + 1) |-> more[n][i]]
      BY <3>1, <3>10
    <3>13. more[n] = PagesUpTo(n, r + 1)
      BY <3>11, <3>12 DEF PagesUpTo
    <3> QED
      BY <3>9, <3>10, <3>13 DEF n, r, d, e
  <2>6. \A n \in Nodes : (\A k \in DOMAIN Asked : Asked[k] # n) \/ \E k \in DOMAIN Asked : Asked[k] = n
    OBVIOUS
  <2> HIDE DEF more
  <2>7. \A n \in Nodes : more[n] = PagesUpTo(n, Len(more[n]))
    BY <2>1, <2>4, <2>5, <2>6
  <2>8. \A n \in Nodes : (\A k \in DOMAIN Asked : Asked[k] # n) =>
          data # <<>> /\ Len(more[n]) = Read(n)
    BY <1>5, <2>1, <2>4
  <2>9. \A k \in DOMAIN Asked : Len(more[Asked[k]]) = Read(Asked[k]) + 1
    BY <2>5
  <2> QED
    BY <1>3, <2>7, <2>8, <2>9 DEF more
<1> QED
  BY <1>4, <1>5


LEMMA ReadMoreOrder ==
  ASSUME ShapeInv, RangeInv, OrderInv, ReadMoreData
  PROVE  OrderInv'
<1> SUFFICES ASSUME mishaps' \subseteq {"service"} PROVE OrderInv'
  BY DEF OrderInv
<1>1. calls = <<>> /\ sent = <<>> /\ signals = <<>> /\ mishaps' = mishaps
  BY CallsWhenSettled DEF ReadMoreData
<1>2. /\ HasMoreData /\ ~released /\ Len(points) <= Len(Asked) /\ data # <<>>
      /\ DataIsInOrder
      /\ \A i \in DOMAIN points : points[i] # NoPoint =>
           /\ points[i] = NextPage(Asked[i])
           /\ Read(Asked[i]) + 1 <= history[Asked[i]]
           /\ points[i] \in held
  BY <1>1 DEF RangeInv, OrderInv, ReadMoreData
<1>3. InRange
  BY <1>2, AskedType, PointsInRange DEF ShapeInv, TypeOK
<1>4. /\ dataMapping' \in Seq(Nodes) /\ Len(dataMapping') = Len(Open)
      /\ points' \in Seq(Points \cup {NoPoint}) /\ Len(points') = Len(Open)
      /\ \A k \in DOMAIN Open :
           /\ Open[k] \in DOMAIN points
           /\ dataMapping'[k] = Asked[Open[k]]
           /\ points'[k] = points[Open[k]] /\ points'[k] # NoPoint
      /\ DOMAIN Open # {} /\ Open \in Seq(DOMAIN points)
      /\ calls' = Append(calls, [nodes |-> dataMapping', points |-> points', release |-> FALSE])
  BY <1>3, ReadMoreAsks
<1>5. dataMapping' # <<>> /\ Asked' = dataMapping' /\ DOMAIN points' = DOMAIN Open
  BY <1>4 DEF Asked
<1>6. /\ data' = data /\ sent' = <<>> /\ signals' = <<>> /\ history' = history /\ held' = held
      /\ released' = released /\ hstate' = hstate
  BY <1>1 DEF ReadMoreData, serverVars
<1>7. \A n : Read(n)' = Read(n) /\ NextPage(n)' = NextPage(n)
  BY <1>6 DEF Read, NextPage
<1>8. \A k \in DOMAIN points' : /\ points'[k] = NextPage(Asked'[k])
                                /\ Read(Asked'[k]) + 1 <= history[Asked'[k]]
                                /\ points'[k] \in held /\ points'[k] # NoPoint
  BY <1>2, <1>4, <1>5
<1>9. \A k \in DOMAIN points' : /\ points'[k] = NextPage(Asked[k])'
                                /\ (Read(Asked[k]) + 1 <= history[Asked[k]])'
  BY <1>6, <1>8 DEF Read, NextPage
<1>10. \A k \in DOMAIN calls' : calls'[k].release = FALSE
  BY <1>1, <1>4
<1>11. DataIsInOrder'
  BY <1>1, <1>2, <1>6 DEF DataIsInOrder, PagesUpTo
<1>12. DOMAIN sent' = {} /\ DOMAIN signals' = {}
  BY <1>6
<1>13. Len(points') = Len(dataMapping')
  BY <1>4
<1>14. data' # <<>> /\ released' = FALSE /\ \A k \in DOMAIN points' : points'[k] \in held'
  BY <1>2, <1>6, <1>8 DEF ShapeInv, TypeOK
<1>15. \A k \in DOMAIN points' : points'[k] # NoPoint
  BY <1>8
<1> QED
  BY <1>9, <1>10, <1>11, <1>12, <1>13, <1>14, <1>15 DEF OrderInv

LEMMA ReleaseOrder ==
  ASSUME ShapeInv, RangeInv, OrderInv, ReleaseContinuationPoints \/ Destroy
  PROVE  OrderInv'
<1> SUFFICES ASSUME mishaps' \subseteq {"service"} PROVE OrderInv'
  BY DEF OrderInv
<1>1. calls = <<>> /\ sent = <<>> /\ signals = <<>> /\ mishaps' = mishaps
  BY CallsWhenSettled DEF ReleaseContinuationPoints, Destroy
<1>2. /\ calls' = Append(calls, [nodes |-> AllNodes, points |-> points, release |-> TRUE])
      /\ hstate' = "Finished" /\ points' = points /\ dataMapping' = dataMapping /\ data' = data
      /\ sent' = sent /\ signals' = signals /\ released' = TRUE /\ history' = history
  BY DEF ReleaseContinuationPoints, Destroy, PostRelease, serverVars
<1>3. \A k \in DOMAIN calls' : calls'[k].release = TRUE
  BY <1>1, <1>2
<1>4. Asked' = Asked /\ ~HasMoreData'
  BY <1>2 DEF Asked, HasMoreData
<1>5. DOMAIN sent' = {} /\ DOMAIN signals' = {} /\ released' = TRUE
  BY <1>1, <1>2
<1>6. /\ DataIsInOrder /\ (points # <<>> => data # <<>>)
      /\ \A i \in DOMAIN points : points[i] # NoPoint =>
           /\ points[i] = NextPage(Asked[i])
           /\ Read(Asked[i]) + 1 <= history[Asked[i]]
  BY <1>1 DEF OrderInv
<1>7. DataIsInOrder' /\ (points' # <<>> => data' # <<>>)
  BY <1>1, <1>2, <1>6 DEF DataIsInOrder, PagesUpTo
<1>8. \A i \in DOMAIN points' : points'[i] # NoPoint =>
           /\ points'[i] = NextPage(Asked[i])'
           /\ (Read(Asked[i]) + 1 <= history[Asked[i]])'
  BY <1>2, <1>4, <1>6 DEF Read, NextPage
<1> QED
  BY <1>3, <1>4, <1>5, <1>7, <1>8 DEF OrderInv


(* What handleDataAvailable() makes of the answer. *)
LEMMA AnswerHandled ==
  ASSUME ShapeInv, RangeInv, OrderInv, HandleDataAvailable, mishaps \subseteq {"service"}
  PROVE  LET answer == Head(signals)
         IN /\ signals # <<>> /\ 1 \in DOMAIN signals /\ answer = signals[1]
            /\ calls = <<>> /\ sent = <<>> /\ calls' = <<>> /\ sent' = <<>> /\ signals' = <<>>
            /\ dataMapping' = dataMapping /\ Asked' = Asked /\ released' = released
            /\ history' = history /\ held' = held /\ mishaps' = mishaps
            /\ serviceResult' = answer.code /\ points' = answer.points /\ hstate' = NewState(answer)
            /\ \/ /\ IsNothing(answer) /\ data' = data /\ points' = <<>> /\ hstate' = "Finished"
                  /\ (~released => answer.code = "Bad")
               \/ /\ ~released /\ Continues(answer)
                  /\ data' # <<>> /\ DOMAIN data' = Nodes
                  /\ \A k \in DOMAIN Asked : Len(data'[Asked[k]]) = Read(Asked[k]) + 1
                  /\ \A n \in Nodes : (\A k \in DOMAIN Asked : Asked[k] # n) =>
                       data # <<>> /\ Len(data'[n]) = Read(n)
                  /\ \A n \in Nodes : data'[n] = PagesUpTo(n, Len(data'[n]))
<1> DEFINE answer == Head(signals)
<1>1. /\ mishaps' = mishaps /\ signals # <<>> /\ serviceResult' = answer.code
      /\ points' = answer.points /\ hstate' = NewState(answer) /\ released' = released
      /\ signals' = Tail(signals) /\ dataMapping' = dataMapping /\ calls' = calls /\ sent' = sent
      /\ history' = history /\ held' = held
      /\ (CanAdd(answer) => data' = AddData(answer))
  BY DEF HandleDataAvailable, serverVars
<1>2. /\ calls = <<>> /\ sent = <<>> /\ Tail(signals) = <<>> /\ answer \in Answers
      /\ answer = signals[1] /\ 1 \in DOMAIN signals
      /\ \/ IsNothing(answer)
         \/ dataMapping = <<>> => data = <<>>
  BY <1>1, AnswerIsTheOne
<1>3. \/ IsNothing(answer) /\ (~released => answer.code = "Bad" \/ Continues(answer))
      \/ ~released /\ Continues(answer)
  BY <1>2 DEF OrderInv
<1>4. ~(IsNothing(answer) /\ Continues(answer))
  <2>1. dataMapping # <<>> => DOMAIN dataMapping # {}
    BY EmptyList DEF ShapeInv, TypeOK
  <2>2. 1 \in Nodes
    BY NodeCountAssumption DEF Nodes
  <2>3. DOMAIN Asked # {}
    <3>1. DOMAIN AllNodes # {}
      BY <2>2, AllNodesType
    <3> QED
      BY <2>1, <3>1, Zenon DEF Asked
  <2>4. IsNothing(answer) => DOMAIN answer.data = {}
    <3>1. DOMAIN <<>> = {}
      OBVIOUS
    <3> QED
      BY <3>1, Zenon DEF IsNothing
  <2>5. Continues(answer) => DOMAIN answer.data = DOMAIN Asked
    BY Zenon DEF Continues
  <2> QED
    BY <2>3, <2>4, <2>5, Zenon
<1> HIDE DEF answer
<1>5. Asked' = Asked /\ calls' = <<>> /\ sent' = <<>> /\ signals' = <<>>
  BY <1>1, <1>2 DEF Asked
<1>6. CASE IsNothing(answer)
  <2>1. data' = data
    BY <1>1, <1>6, NothingAdds
  <2>2. points' = <<>> /\ hstate' = "Finished"
    BY <1>1, <1>6 DEF IsNothing, NewState
  <2> QED
    BY <1>1, <1>2, <1>3, <1>4, <1>5, <1>6, <2>1, <2>2 DEF answer
<1>7. CASE ~IsNothing(answer)
  <2>1. ~released /\ Continues(answer) /\ (dataMapping = <<>> => data = <<>>)
    BY <1>2, <1>3, <1>7
  <2> DEFINE more == AddData(answer)
  <2>2. /\ CanAdd(answer) /\ more # <<>> /\ DOMAIN more = Nodes
        /\ \A k \in DOMAIN Asked : Len(more[Asked[k]]) = Read(Asked[k]) + 1
        /\ \A n \in Nodes : (\A k \in DOMAIN Asked : Asked[k] # n) =>
             data # <<>> /\ Len(more[n]) = Read(n)
        /\ \A n \in Nodes : more[n] = PagesUpTo(n, Len(more[n]))
    BY <1>2, <2>1, ContinuedData
  <2>3. data' = more
    BY <1>1, <2>2
  <2> HIDE DEF more
  <2>4. /\ data' # <<>> /\ DOMAIN data' = Nodes
        /\ \A k \in DOMAIN Asked : Len(data'[Asked[k]]) = Read(Asked[k]) + 1
        /\ \A n \in Nodes : (\A k \in DOMAIN Asked : Asked[k] # n) =>
             data # <<>> /\ Len(data'[n]) = Read(n)
        /\ \A n \in Nodes : data'[n] = PagesUpTo(n, Len(data'[n]))
    BY <2>2, <2>3, Zenon
  <2> QED
    BY <1>1, <1>2, <1>5, <2>1, <2>4, Zenon DEF answer
<1> QED
  BY <1>6, <1>7

LEMMA ReadType ==
  ASSUME ShapeInv, data # <<>> => DOMAIN data = Nodes, NEW n \in Nodes
  PROVE  Read(n) \in Nat
<1>1. data # <<>> => data[n] \in Seq(Nodes \X Nat)
  BY DEF ShapeInv, TypeOK
<1> QED
  BY <1>1 DEF Read

LEMMA HandleDataOrder ==
  ASSUME ShapeInv, RangeInv, OrderInv, HandleDataAvailable
  PROVE  OrderInv'
<1> SUFFICES ASSUME mishaps' \subseteq {"service"} PROVE OrderInv'
  BY DEF OrderInv
<1> DEFINE answer == Head(signals)
<1>1. mishaps \subseteq {"service"}
  BY DEF HandleDataAvailable
<1>2. /\ calls' = <<>> /\ sent' = <<>> /\ signals' = <<>>
      /\ dataMapping' = dataMapping /\ Asked' = Asked /\ released' = released
      /\ history' = history /\ held' = held /\ mishaps' = mishaps
      /\ points' = answer.points /\ hstate' = NewState(answer)
  BY <1>1, AnswerHandled
<1>3. DOMAIN calls' = {} /\ DOMAIN sent' = {} /\ DOMAIN signals' = {}
  BY <1>2
<1>4. CASE IsNothing(answer) /\ data' = data /\ points' = <<>> /\ hstate' = "Finished"
  <2>1. DataIsInOrder'
    <3>1. DataIsInOrder
      BY <1>1 DEF OrderInv
    <3> QED
      BY <1>2, <1>4, <3>1 DEF DataIsInOrder, PagesUpTo
  <2>2. ~HasMoreData' /\ DOMAIN points' = {}
    BY <1>4 DEF HasMoreData
  <2>3. points' = <<>> /\ calls' = <<>> /\ sent' = <<>> /\ signals' = <<>>
    BY <1>2, <1>4
  <2> QED
    BY <1>3, <2>1, <2>2, <2>3 DEF OrderInv
<1>5. CASE /\ ~released /\ Continues(answer)
           /\ data' # <<>> /\ DOMAIN data' = Nodes
           /\ \A k \in DOMAIN Asked : Len(data'[Asked[k]]) = Read(Asked[k]) + 1
           /\ \A n \in Nodes : data'[n] = PagesUpTo(n, Len(data'[n]))
  <2>1. DataIsInOrder'
    <3>1. \A n \in Nodes : data'[n] = PagesUpTo(n, Len(data'[n]))
      BY <1>5
    <3>2. \A n \in DOMAIN data' : data'[n] = PagesUpTo(n, Len(data[n]))'
      BY <1>5, <3>1 DEF PagesUpTo
    <3> QED
      BY <3>2 DEF DataIsInOrder
  <2>2. /\ DOMAIN points' = DOMAIN Asked
        /\ \A k \in DOMAIN Asked : points'[k] = NextPoint(NextPage(Asked[k]))
        /\ \A k \in DOMAIN Asked : points'[k] \in held \cup {NoPoint}
        /\ \A k \in DOMAIN Asked : Asked[k] \in Nodes /\ Read(Asked[k]) \in Nat
    <3>1. Asked \in Seq(Nodes)
      BY AskedType DEF ShapeInv, TypeOK
    <3>2. data # <<>> => DOMAIN data = Nodes
      BY <1>1 DEF RangeInv
    <3> QED
      BY <1>2, <1>5, <3>1, <3>2, ReadType DEF Continues
  <2>3. \A k \in DOMAIN Asked : Read(Asked[k])' = Read(Asked[k]) + 1
    BY <1>2, <1>5 DEF Read
  <2>4. ASSUME NEW k \in DOMAIN points', points'[k] # NoPoint
        PROVE  points'[k] = NextPage(Asked[k])' /\ (Read(Asked[k]) + 1 <= history[Asked[k]])'
    <3> DEFINE n == Asked[k]
               r == Read(n)
    <3>1. k \in DOMAIN Asked /\ n \in Nodes /\ r \in Nat /\ history[n] \in Nat
      BY <2>2 DEF ShapeInv, TypeOK
    <3>2. points'[k] = IF r + 1 < history[n] THEN [node |-> n, page |-> (r + 1) + 1] ELSE NoPoint
      BY <2>2, <3>1 DEF NextPoint, NextPage
    <3>3. r + 1 < history[n] /\ points'[k] = [node |-> n, page |-> (r + 1) + 1]
      BY <2>4, <3>2
    <3>4. Read(Asked[k])' = r + 1 /\ Asked'[k] = n /\ history'[n] = history[n]
      BY <1>2, <2>3, <3>1
    <3>5. (r + 1) + 1 <= history[n]
      BY <3>1, <3>3
    <3> HIDE DEF r, n
    <3> QED
      BY <3>3, <3>4, <3>5 DEF NextPage
  <2>5. \A k \in DOMAIN points' : points'[k] # NoPoint => points'[k] \in held'
    BY <1>2, <2>2
  <2>6. data' # <<>> /\ released' = FALSE /\ calls' = <<>> /\ sent' = <<>> /\ signals' = <<>>
    BY <1>2, <1>5 DEF ShapeInv, TypeOK
  <2> QED
    BY <1>3, <2>1, <2>4, <2>5, <2>6 DEF OrderInv
<1> HIDE DEF answer
<1> QED
  BY <1>1, <1>4, <1>5, AnswerHandled DEF answer

LEMMA DropOrder ==
  ASSUME ShapeInv, RangeInv, OrderInv, DropDataAvailable
  PROVE  OrderInv'
<1> SUFFICES ASSUME mishaps' \subseteq {"service"} PROVE OrderInv'
  BY DEF OrderInv
<1>1. /\ mishaps' = mishaps /\ signals # <<>> /\ signals' = Tail(signals) /\ released' = released
      /\ points' = points /\ hstate' = hstate /\ dataMapping' = dataMapping /\ data' = data
      /\ calls' = calls /\ sent' = sent /\ history' = history /\ released = TRUE
  BY DEF DropDataAvailable, responseVars, serverVars, ShapeInv, TypeOK
<1>2. calls' = <<>> /\ sent' = <<>> /\ signals' = <<>>
  BY <1>1, AnswerIsTheOne
<1>3. Asked' = Asked /\ HasMoreData' = HasMoreData
  BY <1>1 DEF Asked, HasMoreData
<1>4. DOMAIN calls' = {} /\ DOMAIN sent' = {} /\ DOMAIN signals' = {} /\ released' = TRUE
  BY <1>1, <1>2
<1>5. /\ DataIsInOrder /\ (points # <<>> => data # <<>>) /\ ~HasMoreData
      /\ \A i \in DOMAIN points : points[i] # NoPoint =>
           /\ points[i] = NextPage(Asked[i])
           /\ Read(Asked[i]) + 1 <= history[Asked[i]]
  BY <1>1 DEF OrderInv
<1>6. DataIsInOrder' /\ (points' # <<>> => data' # <<>>) /\ ~HasMoreData'
  BY <1>1, <1>3, <1>5 DEF DataIsInOrder, PagesUpTo
<1>7. \A i \in DOMAIN points' : points'[i] # NoPoint =>
           /\ points'[i] = NextPage(Asked[i])'
           /\ (Read(Asked[i]) + 1 <= history[Asked[i]])'
  BY <1>1, <1>3, <1>5 DEF Read, NextPage
<1> QED
  BY <1>4, <1>6, <1>7 DEF OrderInv


LEMMA BackendOrder ==
  ASSUME ShapeInv, RangeInv, OrderInv, BackendReadHistoryRaw
  PROVE  OrderInv'
<1> SUFFICES ASSUME mishaps' \subseteq {"service"} PROVE OrderInv'
  BY DEF OrderInv
<1> DEFINE request == Head(calls)
<1>1. /\ mishaps' = mishaps /\ calls # <<>> /\ calls' = Tail(calls) /\ released' = released
      /\ points' = points /\ hstate' = hstate /\ dataMapping' = dataMapping /\ data' = data
      /\ history' = history /\ held' = held
      /\ \/ sent' = Append(sent, request) /\ signals' = signals
         \/ signals' = Append(signals, Nothing("Bad")) /\ sent' = sent
  BY DEF BackendReadHistoryRaw, responseVars, serverVars
<1>2. Len(calls) = 1 /\ sent = <<>> /\ signals = <<>> /\ calls \in Seq(Requests)
  BY <1>1, OneUnderWay DEF ShapeInv, TypeOK, RangeInv
<1>3. Tail(calls) = <<>> /\ request = calls[1] /\ 1 \in DOMAIN calls
  BY <1>2, LastTakenOut
<1>4. request.release = released
  BY <1>1, <1>3 DEF OrderInv
<1> HIDE DEF request
<1>5. /\ calls' = <<>> /\ DOMAIN calls' = {}
      /\ \/ sent' = <<request>> /\ signals' = <<>>
         \/ sent' = <<>> /\ signals' = <<Nothing("Bad")>>
  BY <1>1, <1>2, <1>3
<1>6. \A k \in DOMAIN sent' : sent'[k].release = released'
  BY <1>1, <1>4, <1>5
<1>7. \A k \in DOMAIN signals' : IsNothing(signals[k])' /\ signals'[k].code = "Bad"
  <2>1. \A k \in DOMAIN signals' : signals'[k] = Nothing("Bad")
    BY <1>5
  <2> QED
    BY <2>1 DEF IsNothing, Nothing
<1>8. Asked' = Asked /\ HasMoreData' = HasMoreData
  BY <1>1 DEF Asked, HasMoreData
<1>9. /\ DataIsInOrder /\ (points # <<>> => data # <<>>) /\ (released => ~HasMoreData)
      /\ \A i \in DOMAIN points : points[i] # NoPoint =>
           /\ points[i] = NextPage(Asked[i])
           /\ Read(Asked[i]) + 1 <= history[Asked[i]]
           /\ (~released => points[i] \in held)
      /\ ~released => /\ Len(points) = Len(dataMapping)
                      /\ \A i \in DOMAIN points : points[i] # NoPoint
  BY <1>1, <1>2 DEF OrderInv
<1>10. DataIsInOrder' /\ (points' # <<>> => data' # <<>>) /\ (released' => ~HasMoreData')
  BY <1>1, <1>8, <1>9 DEF DataIsInOrder, PagesUpTo
<1>11. \A i \in DOMAIN points' : points'[i] # NoPoint =>
           /\ points'[i] = NextPage(Asked[i])'
           /\ (Read(Asked[i]) + 1 <= history[Asked[i]])'
  BY <1>1, <1>8, <1>9 DEF Read, NextPage
<1>12. ~released' => /\ Len(points') = Len(dataMapping')
                     /\ \A i \in DOMAIN points' : points'[i] # NoPoint /\ points'[i] \in held'
  BY <1>1, <1>9
<1> QED
  BY <1>5, <1>6, <1>7, <1>10, <1>11, <1>12 DEF OrderInv

(* The server reads the next page of every node asked for. *)
LEMMA ReadsTheNextPages ==
  ASSUME ShapeInv, RangeInv, OrderInv, NEW k \in DOMAIN sent, ServerReads(k),
         mishaps' \subseteq {"service"}
  PROVE  LET request == sent[k]
         IN /\ mishaps' = mishaps /\ ~released
            /\ request.nodes = Asked /\ request.points = points
            /\ (points = <<>> \/ DOMAIN points = DOMAIN Asked)
            /\ \A i \in DOMAIN Asked : /\ PageOf(request, i) = NextPage(Asked[i])
                                       /\ Read(Asked[i]) + 1 <= history[Asked[i]]
            /\ held' = (held \ ({PageOf(request, i) : i \in DOMAIN Asked} \ {NoPoint})) \cup
                       ({NextPoint(PageOf(request, i)) : i \in DOMAIN Asked} \ {NoPoint})
            /\ Collected(request, {}) \in Answers
            /\ signals' = Append(signals, Collected(request, {}))
<1> DEFINE request == sent[k]
           invalid == {i \in DOMAIN request.nodes :
                         request.points # <<>> /\ request.points[i] \notin held}
           used == {PageOf(request, i) : i \in DOMAIN request.nodes} \ {NoPoint}
<1>1. PICK bad \in SUBSET DOMAIN request.nodes :
        /\ held' = (held \ used) \cup
                   ({NextPoint(PageOf(request, i)) : i \in DOMAIN request.nodes \ bad} \ {NoPoint})
        /\ \/ signals' = Append(signals, Collected(request, bad))
           \/ bad # {} /\ signals' = Append(signals, Nothing("Good"))
        /\ mishaps' = mishaps \cup (IF bad = invalid THEN {} ELSE {"node"})
  BY DEF ServerReads
<1>2. ~request.release
  BY DEF ServerReads
<1>3. bad = invalid /\ mishaps' = mishaps
  BY <1>1
<1>4. request \in Requests /\ ReadsAsked(request) /\ WellFormed(request) /\ signals = <<>>
  BY <1>3, RequestIsTheOne
<1>5. ~released
  BY <1>2, <1>3 DEF OrderInv
<1>6. request.nodes = Asked /\ request.points = points /\ (dataMapping = <<>> => data = <<>>)
  BY <1>2, <1>4 DEF ReadsAsked
<1>7. sent # <<>>
  BY DEF ShapeInv, TypeOK
<1>8. /\ Len(points) = Len(dataMapping)
      /\ \A i \in DOMAIN points : /\ points[i] # NoPoint /\ points[i] \in held
                                  /\ points[i] = NextPage(Asked[i])
                                  /\ Read(Asked[i]) + 1 <= history[Asked[i]]
  BY <1>3, <1>4, <1>5, <1>7 DEF OrderInv
<1>9. points \in Seq(Points \cup {NoPoint}) /\ dataMapping \in Seq(Nodes) /\ Asked \in Seq(Nodes)
      /\ held \subseteq Points /\ history \in [Nodes -> 1..MaxPages]
  BY AskedType DEF ShapeInv, TypeOK
<1>10. points = <<>> \/ DOMAIN points = DOMAIN Asked
  <2>1. Len(points) = Len(dataMapping) => DOMAIN points = DOMAIN dataMapping
    BY <1>9
  <2>2. dataMapping = <<>> /\ Len(points) = Len(dataMapping) => points = <<>>
    BY <1>9
  <2>3. dataMapping # <<>> => Asked = dataMapping
    BY DEF Asked
  <2> QED
    BY <1>8, <2>1, <2>2, <2>3, Zenon
<1> HIDE DEF request, used
<1>11. invalid = {} /\ bad = {}
  BY <1>3, <1>6, <1>8, <1>10
<1>12. \A i \in DOMAIN Asked : /\ PageOf(request, i) = NextPage(Asked[i])
                               /\ Read(Asked[i]) + 1 <= history[Asked[i]]
  <2>1. CASE points = <<>>
    <3>1. Len(points) = 0
      BY <2>1
    <3>2. dataMapping = <<>> /\ data = <<>>
      BY <1>6, <1>8, <1>9, <3>1, EmptyList
    <3>3. \A n : Read(n) = 0
      BY <3>2 DEF Read
    <3>4. \A i \in DOMAIN Asked : Asked[i] \in Nodes /\ 0 + 1 <= history[Asked[i]]
      BY <1>9, MaxPagesAssumption
    <3>5. \A i \in DOMAIN Asked : PageOf(request, i) = [node |-> Asked[i], page |-> 0 + 1]
      BY <1>6, <2>1 DEF PageOf
    <3> QED
      BY <3>3, <3>4, <3>5 DEF NextPage
  <2>2. CASE points # <<>>
    BY <1>6, <1>8, <1>10, <2>2 DEF PageOf
  <2> QED
    BY <2>1, <2>2
<1>13. signals' = Append(signals, Collected(request, {}))
  BY <1>1, <1>11
<1>14. Collected(request, {}) \in Answers
  <2>1. \A i \in DOMAIN request.nodes : request.points = <<>> \/ request.points[i] \in held
    BY <1>6, <1>8, <1>10
  <2> QED
    BY <1>4, <1>9, <2>1, CollectedType
<1>15. held' = (held \ ({PageOf(request, i) : i \in DOMAIN Asked} \ {NoPoint})) \cup
               ({NextPoint(PageOf(request, i)) : i \in DOMAIN Asked} \ {NoPoint})
  BY <1>1, <1>6, <1>11 DEF used
<1> QED
  BY <1>3, <1>5, <1>6, <1>10, <1>12, <1>13, <1>14, <1>15 DEF request


(* The answer the server gives then. *)
LEMMA ServerContinues ==
  ASSUME ShapeInv, RangeInv, OrderInv, NEW k \in DOMAIN sent, ServerReads(k),
         mishaps' \subseteq {"service"}
  PROVE  LET a == Collected(sent[k], {})
         IN /\ a \in Answers /\ signals' = <<a>> /\ Len(a.points) = Len(Asked)
            /\ \A i \in DOMAIN Asked : a.points[i] = NextPoint(PageOf(sent[k], i))
            /\ \A i \in DOMAIN signals' : Continues(signals[i])'
<1> DEFINE request == sent[k]
           a == Collected(request, {})
<1>1. /\ mishaps' = mishaps /\ ~released
      /\ request.nodes = Asked /\ request.points = points
      /\ (points = <<>> \/ DOMAIN points = DOMAIN Asked)
      /\ \A i \in DOMAIN Asked : /\ PageOf(request, i) = NextPage(Asked[i])
                                 /\ Read(Asked[i]) + 1 <= history[Asked[i]]
      /\ held' = (held \ ({PageOf(request, i) : i \in DOMAIN Asked} \ {NoPoint})) \cup
                 ({NextPoint(PageOf(request, i)) : i \in DOMAIN Asked} \ {NoPoint})
      /\ a \in Answers
      /\ signals' = Append(signals, a)
  BY ReadsTheNextPages
<1>2. request \in Requests /\ WellFormed(request) /\ signals = <<>>
  BY <1>1, RequestIsTheOne
<1>3. /\ data' = data /\ dataMapping' = dataMapping /\ history' = history
  BY DEF ServerReads, responseVars
<1>4. held \subseteq Points /\ history \in [Nodes -> 1..MaxPages] /\ Asked \in Seq(Nodes) /\ sent # <<>>
  BY AskedType DEF ShapeInv, TypeOK
<1>5. \A i \in DOMAIN request.nodes : request.points = <<>> \/ request.points[i] \in held
  <2>1. \A i \in DOMAIN points : points[i] # NoPoint
    BY <1>1, <1>4 DEF OrderInv
  <2>2. \A i \in DOMAIN points : points[i] \in held
    BY <1>1, <1>2, <2>1 DEF OrderInv
  <2> QED
    BY <1>1, <2>2
<1> HIDE DEF request
<1>6. /\ a.code = "Good" /\ Len(a.data) = Len(Asked) /\ Len(a.points) = Len(Asked)
      /\ \A i \in DOMAIN Asked :
           LET p == PageOf(request, i) IN a.data[i] = << <<p.node, p.page>> >>
      /\ \A i \in DOMAIN Asked : a.points[i] = NextPoint(PageOf(request, i))
  <2>1. {} \in SUBSET DOMAIN request.nodes
    OBVIOUS
  <2> QED
    BY <1>1, <1>2, <1>4, <1>5, <2>1, CollectedType
<1>7. signals' = <<a>>
  BY <1>1, <1>2
<1> HIDE DEF a
<1>8. \A i \in DOMAIN signals' : signals'[i] = a
  BY <1>7
<1>9. DOMAIN a.data = DOMAIN Asked /\ DOMAIN a.points = DOMAIN Asked
  <2>1. a.data \in Seq(Seq(Nodes \X Nat)) /\ a.points \in Seq(Points \cup {NoPoint})
    BY <1>1 DEF Answers
  <2> DEFINE P == Points \cup {NoPoint}
             V == Seq(Nodes \X Nat)
  <2>2. a.data \in Seq(V) /\ a.points \in Seq(P)
    BY <2>1
  <2> HIDE DEF P, V
  <2>3. DOMAIN a.data = 1..Len(a.data)
    BY <2>2
  <2>4. DOMAIN a.points = 1..Len(a.points)
    BY <2>2
  <2>5. DOMAIN Asked = 1..Len(Asked)
    BY <1>4
  <2> QED
    BY <1>6, <2>3, <2>4, <2>5
<1>10. \A i \in DOMAIN Asked : /\ a.data[i] = << <<Asked[i], Read(Asked[i]) + 1>> >>
                               /\ a.points[i] = NextPoint(NextPage(Asked[i]))
                               /\ a.points[i] \in held' \cup {NoPoint}
                               /\ Read(Asked[i]) + 1 <= history[Asked[i]]
  <2> TAKE i \in DOMAIN Asked
  <2> DEFINE p == PageOf(request, i)
  <2>1. a.data[i] = << <<p.node, p.page>> >> /\ p = NextPage(Asked[i])
    BY <1>1, <1>6
  <2>2. a.points[i] = NextPoint(p)
    BY <1>6
  <2>3. NextPoint(p) \in held' \cup {NoPoint}
    BY <1>1
  <2> HIDE DEF p
  <2>4. p.node = Asked[i] /\ p.page = Read(Asked[i]) + 1
    BY <2>1 DEF NextPage
  <2> QED
    BY <1>1, <2>1, <2>2, <2>3, <2>4
<1>11. Asked' = Asked /\ (\A n : Read(n)' = Read(n)) /\ \A p : NextPoint(p)' = NextPoint(p)
  BY <1>3 DEF Asked, Read, NextPoint
<1>12. \A i \in DOMAIN signals' : Continues(signals[i])'
  <2> TAKE i \in DOMAIN signals'
  <2>1. signals'[i] = a
    BY <1>8
  <2>2. \A j \in DOMAIN Asked' :
          /\ a.data[j] = << <<Asked'[j], Read(Asked[j])' + 1>> >>
          /\ a.points[j] = NextPoint(NextPage(Asked[j]))'
          /\ a.points[j] \in held' \cup {NoPoint}
          /\ (Read(Asked[j]) + 1 <= history[Asked[j]])'
    BY <1>3, <1>10, <1>11 DEF NextPage, Read, NextPoint
  <2> QED
    BY <1>6, <1>9, <1>11, <2>1, <2>2 DEF Continues
<1> QED
  BY <1>1, <1>6, <1>7, <1>12 DEF a, request

LEMMA ServiceOrder ==
  ASSUME ShapeInv, RangeInv, OrderInv, Service
  PROVE  OrderInv'
<1> SUFFICES ASSUME mishaps' \subseteq {"service"} PROVE OrderInv'
  BY DEF OrderInv
<1>1. PICK k \in DOMAIN sent : ServerReads(k) \/ ServerReleases(k) \/ ServiceFails(k)
  BY DEF Service
<1>2. mishaps \subseteq {"service"}
  BY OverlapStays DEF Next
<1>3. calls = <<>> /\ signals = <<>> /\ RemoveAt(sent, k) = <<>>
  BY <1>2, RequestIsTheOne
<1>4. /\ sent' = RemoveAt(sent, k)
      /\ UNCHANGED <<responseVars, undefined, calls, history>>
  BY <1>1, ServiceAnswers
<1>5. /\ calls' = <<>> /\ sent' = <<>> /\ released' = released /\ history' = history
      /\ points' = points /\ hstate' = hstate /\ dataMapping' = dataMapping /\ data' = data
  BY <1>3, <1>4 DEF responseVars
<1>6. DOMAIN calls' = {} /\ DOMAIN sent' = {} /\ sent # <<>>
  BY <1>5 DEF ShapeInv, TypeOK
<1>7. Asked' = Asked /\ HasMoreData' = HasMoreData
  BY <1>5 DEF Asked, HasMoreData
<1>8. /\ signals' # <<>>
      /\ \A i \in DOMAIN signals' : released' => IsNothing(signals[i])'
      /\ \A i \in DOMAIN signals' : ~released' => \/ IsNothing(signals[i])' /\ signals'[i].code = "Bad"
                                                  \/ Continues(signals[i])'
  <2>1. CASE ServerReads(k)
    <3>1. \A i \in DOMAIN signals' : Continues(signals[i])'
      BY <2>1, ServerContinues
    <3>2. signals' = << Collected(sent[k], {}) >>
      BY <2>1, ServerContinues
    <3>3. ~released
      BY <2>1, ReadsTheNextPages
    <3> QED
      BY <1>5, <3>1, <3>2, <3>3
  <2>2. CASE ServerReleases(k)
    <3>1. signals' = << Nothing("Good") >> /\ sent[k].release
      BY <1>3, <2>2 DEF ServerReleases
    <3>2. released
      BY <1>2, <3>1 DEF OrderInv
    <3>3. \A i \in DOMAIN signals' : signals'[i] = Nothing("Good")
      BY <3>1
    <3>4. \A i \in DOMAIN signals' : IsNothing(signals[i])'
      BY <3>3 DEF IsNothing, Nothing
    <3> QED
      BY <1>5, <3>1, <3>2, <3>4
  <2>3. CASE ServiceFails(k)
    <3>1. signals' = << Nothing("Bad") >>
      BY <1>3, <2>3 DEF ServiceFails
    <3>2. \A i \in DOMAIN signals' : signals'[i] = Nothing("Bad")
      BY <3>1
    <3>3. \A i \in DOMAIN signals' : IsNothing(signals[i])' /\ signals'[i].code = "Bad"
      BY <3>2 DEF IsNothing, Nothing
    <3> QED
      BY <3>1, <3>3
  <2> QED
    BY <1>1, <2>1, <2>2, <2>3
<1>9. /\ DataIsInOrder /\ (points # <<>> => data # <<>>) /\ (released => ~HasMoreData)
      /\ \A i \in DOMAIN points : points[i] # NoPoint =>
           /\ points[i] = NextPage(Asked[i])
           /\ Read(Asked[i]) + 1 <= history[Asked[i]]
      /\ ~released => /\ Len(points) = Len(dataMapping)
                      /\ \A i \in DOMAIN points : points[i] # NoPoint
  BY <1>2, <1>6 DEF OrderInv
<1>10. DataIsInOrder' /\ (points' # <<>> => data' # <<>>) /\ (released' => ~HasMoreData')
  <2>1. DataIsInOrder'
    BY <1>2, <1>5, <1>9 DEF DataIsInOrder, PagesUpTo
  <2> QED
    BY <1>5, <1>7, <1>9, <2>1
<1>11. \A i \in DOMAIN points' : points'[i] # NoPoint =>
           /\ points'[i] = NextPage(Asked[i])'
           /\ (Read(Asked[i]) + 1 <= history[Asked[i]])'
  BY <1>5, <1>7, <1>9 DEF Read, NextPage
<1>12. ~released' => /\ Len(points') = Len(dataMapping')
                     /\ \A i \in DOMAIN points' : points'[i] # NoPoint
  BY <1>5, <1>9
<1> QED
  BY <1>6, <1>8, <1>10, <1>11, <1>12 DEF OrderInv

LEMMA OrderNext ==
  ASSUME ShapeInv, RangeInv, OrderInv, [Next]_vars
  PROVE  OrderInv'
<1>1. CASE UNCHANGED vars
  <2>1. /\ hstate' = hstate /\ points' = points /\ dataMapping' = dataMapping /\ data' = data
        /\ released' = released /\ calls' = calls /\ sent' = sent /\ signals' = signals
        /\ history' = history /\ held' = held /\ mishaps' = mishaps
    BY <1>1 DEF vars, responseVars, serverVars
  <2>2. /\ Asked' = Asked /\ HasMoreData' = HasMoreData /\ DataIsInOrder' = DataIsInOrder
        /\ \A n : Read(n)' = Read(n) /\ NextPage(n)' = NextPage(n)
        /\ \A k \in DOMAIN signals : IsNothing(signals[k])' = IsNothing(signals[k])
    BY <2>1, Zenon DEF Asked, HasMoreData, DataIsInOrder, PagesUpTo, Read, NextPage, IsNothing
  <2>3. \A k \in DOMAIN signals : Continues(signals[k]) => Continues(signals[k])'
    <3> SUFFICES ASSUME NEW k \in DOMAIN signals, Continues(signals[k])
                 PROVE  Continues(signals[k])'
      OBVIOUS
    <3>1. signals'[k] = signals[k]
      BY <2>1
    <3>3. \A j \in DOMAIN Asked : /\ NextPoint(NextPage(Asked[j]))' = NextPoint(NextPage(Asked[j]))
                                  /\ Read(Asked[j])' = Read(Asked[j])
      BY <2>1, Zenon DEF NextPoint, NextPage, Asked, Read
    <3>4. \A j \in DOMAIN Asked : history'[Asked'[j]] = history[Asked[j]] /\ Asked'[j] = Asked[j]
      BY <2>1, <2>2
    <3> QED
      BY <2>1, <2>2, <3>1, <3>3, <3>4 DEF Continues
  <2>4. \A i \in DOMAIN points : /\ NextPage(Asked[i])' = NextPage(Asked[i])
                                 /\ (Read(Asked[i]) + 1 <= history[Asked[i]])'
                                     = (Read(Asked[i]) + 1 <= history[Asked[i]])
    BY <2>1, Zenon DEF Asked, Read, NextPage
  <2>5. ASSUME OrderInv, mishaps \subseteq {"service"}
        PROVE  /\ \A i \in DOMAIN points' : points'[i] # NoPoint =>
                    /\ points'[i] = NextPage(Asked[i])'
                    /\ (Read(Asked[i]) + 1 <= history[Asked[i]])'
               /\ \A k \in DOMAIN signals' :
                    ~released' => \/ IsNothing(signals[k])' /\ signals'[k].code = "Bad"
                                  \/ Continues(signals[k])'
               /\ released' => ~HasMoreData' /\ \A k \in DOMAIN signals' : IsNothing(signals[k])'
    BY <2>1, <2>2, <2>3, <2>4, <2>5 DEF OrderInv
  <2>6. ASSUME OrderInv, mishaps \subseteq {"service"}
        PROVE  /\ DataIsInOrder' /\ (points' # <<>> => data' # <<>>)
               /\ (~released' /\ signals' = <<>> =>
                     \A i \in DOMAIN points' : points'[i] # NoPoint => points'[i] \in held')
               /\ (~released' /\ (calls' # <<>> \/ sent' # <<>> \/ signals' # <<>>) =>
                     /\ Len(points') = Len(dataMapping')
                     /\ \A i \in DOMAIN points' : points'[i] # NoPoint)
               /\ \A k \in DOMAIN calls' : calls'[k].release = released'
               /\ \A k \in DOMAIN sent' : sent'[k].release = released'
    BY <2>1, <2>2, <2>6 DEF OrderInv
  <2> QED
    BY <2>1, <2>5, <2>6 DEF OrderInv
<1> QED
  BY <1>1, ReadMoreOrder, ReleaseOrder, HandleDataOrder, DropOrder, BackendOrder, ServiceOrder
     DEF Next, ClientLoop


-----------------------------------------------------------------------------
(* A Good response has come to the end or goes on.                         *)

LEMMA ReadMoreComplete ==
  ASSUME ShapeInv, RangeInv, OrderInv, CompleteInv, ReadMoreData
  PROVE  CompleteInv'
<1> SUFFICES ASSUME mishaps' \subseteq {"service"}, ~released' PROVE CompleteInv'
  BY DEF CompleteInv
<1>1. calls = <<>> /\ sent = <<>> /\ signals = <<>> /\ mishaps' = mishaps
  BY CallsWhenSettled DEF ReadMoreData
<1>2. /\ HasMoreData /\ ~released /\ Len(points) <= Len(Asked) /\ data # <<>>
  BY <1>1 DEF RangeInv, ReadMoreData
<1>3. InRange
  BY <1>2, AskedType, PointsInRange DEF ShapeInv, TypeOK
<1>4. serviceResult = "Good"
  BY <1>1, <1>2 DEF CompleteInv, ShapeInv, TypeOK
<1>5. \A n \in Nodes : \/ Read(n) = history[n]
                       \/ \E i \in DOMAIN points : points[i] # NoPoint /\ Asked[i] = n
  BY <1>1, <1>2, <1>4 DEF CompleteInv
<1>6. \A i \in DOMAIN points : points[i] # NoPoint => \E k \in DOMAIN Open : Open[k] = i
  BY OpenLists DEF ShapeInv, TypeOK
<1>7. /\ dataMapping' \in Seq(Nodes) /\ Len(dataMapping') = Len(Open)
      /\ points' \in Seq(Points \cup {NoPoint}) /\ Len(points') = Len(Open)
      /\ \A k \in DOMAIN Open : dataMapping'[k] = Asked[Open[k]] /\ points'[k] # NoPoint
      /\ DOMAIN Open # {} /\ Open \in Seq(DOMAIN points)
  BY <1>3, ReadMoreAsks
<1>8. Asked' = dataMapping' /\ DOMAIN points' = DOMAIN Open
  BY <1>7 DEF Asked
<1>9. data' = data /\ history' = history /\ serviceResult' = "Good" /\ HasMoreData'
  BY <1>2, <1>4 DEF ReadMoreData, serverVars, HasMoreData
<1>10. \A n \in Nodes : Read(n)' = Read(n) /\ history'[n] = history[n]
  BY <1>9 DEF Read
<1>11. \A n \in Nodes : \/ Read(n)' = history'[n]
                        \/ \E i \in DOMAIN points' : points'[i] # NoPoint /\ Asked'[i] = n
  <2> TAKE n \in Nodes
  <2>1. CASE Read(n) = history[n]
    BY <1>10, <2>1
  <2>2. CASE Read(n) # history[n]
    <3>1. PICK i \in DOMAIN points : points[i] # NoPoint /\ Asked[i] = n
      BY <1>5, <2>2
    <3>2. PICK k \in DOMAIN Open : Open[k] = i
      BY <1>6, <3>1
    <3>3. k \in DOMAIN points' /\ points'[k] # NoPoint /\ Asked'[k] = n
      BY <1>7, <1>8, <3>1, <3>2
    <3> QED
      BY <3>3
  <2> QED
    BY <2>1, <2>2
<1>12. hstate' # "Finished"
  BY <1>9 DEF HasMoreData
<1> QED
  BY <1>9, <1>11, <1>12 DEF CompleteInv

LEMMA HandleDataComplete ==
  ASSUME ShapeInv, RangeInv, OrderInv, CompleteInv, HandleDataAvailable
  PROVE  CompleteInv'
<1> SUFFICES ASSUME mishaps' \subseteq {"service"}, ~released' PROVE CompleteInv'
  BY DEF CompleteInv
<1> DEFINE answer == Head(signals)
<1>1. mishaps \subseteq {"service"}
  BY DEF HandleDataAvailable
<1>2. /\ signals # <<>> /\ calls' = <<>> /\ sent' = <<>> /\ signals' = <<>>
      /\ Asked' = Asked /\ released' = released /\ history' = history
      /\ serviceResult' = answer.code /\ points' = answer.points /\ hstate' = NewState(answer)
  BY <1>1, AnswerHandled
<1>3. CASE IsNothing(answer) /\ answer.code = "Bad" /\ hstate' = "Finished"
  BY <1>2, <1>3 DEF CompleteInv, HasMoreData
<1>4. CASE /\ Continues(answer)
           /\ data' # <<>> /\ DOMAIN data' = Nodes
           /\ \A k \in DOMAIN Asked : Len(data'[Asked[k]]) = Read(Asked[k]) + 1
           /\ \A n \in Nodes : (\A k \in DOMAIN Asked : Asked[k] # n) =>
                data # <<>> /\ Len(data'[n]) = Read(n)
  <2>1. serviceResult = "Good"
    BY <1>1, <1>2 DEF CompleteInv, ShapeInv, TypeOK
  <2>2. Asked \in Seq(Nodes) /\ DOMAIN points \subseteq DOMAIN Asked
    BY <1>1, AskedType, PointsInRange DEF ShapeInv, TypeOK, RangeInv
  <2>3. /\ DOMAIN points' = DOMAIN Asked
        /\ \A k \in DOMAIN Asked : /\ points'[k] = NextPoint(NextPage(Asked[k]))
                                   /\ Read(Asked[k]) + 1 <= history[Asked[k]]
    BY <1>2, <1>4 DEF Continues
  <2>4. \A n \in Nodes : Read(n)' = Len(data'[n])
    BY <1>4 DEF Read
  <2>5. ASSUME NEW n \in Nodes
        PROVE  \/ Read(n)' = history'[n]
               \/ \E i \in DOMAIN points' : points'[i] # NoPoint /\ Asked'[i] = n
    <3>1. CASE \A k \in DOMAIN Asked : Asked[k] # n
      <4>1. data # <<>> /\ Read(n)' = Read(n)
        BY <1>4, <2>4, <3>1
      <4>2. \/ Read(n) = history[n]
            \/ \E i \in DOMAIN points : points[i] # NoPoint /\ Asked[i] = n
        BY <1>1, <1>2, <2>1, <4>1 DEF CompleteInv
      <4> QED
        BY <1>2, <2>2, <3>1, <4>1, <4>2
    <3>2. CASE \E k \in DOMAIN Asked : Asked[k] = n
      <4>1. PICK k \in DOMAIN Asked : Asked[k] = n
        BY <3>2
      <4> DEFINE r == Read(n)
      <4>2. r \in Nat /\ history[n] \in Nat
        <5>1. data # <<>> => DOMAIN data = Nodes
          BY <1>1 DEF RangeInv
        <5>2. r \in Nat
          BY <5>1, ReadType
        <5> QED
          BY <5>2 DEF ShapeInv, TypeOK
      <4>3. Read(n)' = r + 1 /\ r + 1 <= history[n]
        BY <1>4, <2>3, <2>4, <4>1
      <4>4. points'[k] = IF r + 1 < history[n] THEN [node |-> n, page |-> (r + 1) + 1] ELSE NoPoint
        BY <2>3, <4>1 DEF NextPoint, NextPage
      <4> HIDE DEF r
      <4>5. r + 1 < history[n] => points'[k] # NoPoint
        <5>1. 0 \notin Nodes
          BY NodeCountAssumption DEF Nodes
        <5>2. [node |-> n, page |-> (r + 1) + 1].node = n /\ NoPoint.node = 0
          BY DEF NoPoint
        <5> QED
          BY <4>4, <5>1, <5>2
      <4>6. r + 1 = history[n] \/ r + 1 < history[n]
        BY <4>2, <4>3
      <4> QED
        BY <1>2, <2>3, <4>1, <4>3, <4>5, <4>6
    <3> QED
      BY <3>1, <3>2
  <2>6. hstate' = "Finished" => \A i \in DOMAIN points' : points'[i] = NoPoint
    BY <1>2 DEF NewState
  <2>7. serviceResult' = "Good"
    BY <1>2, <1>4 DEF Continues
  <2> QED
    BY <1>2, <1>4, <2>5, <2>6, <2>7 DEF CompleteInv
<1> HIDE DEF answer
<1> QED
  BY <1>1, <1>2, <1>3, <1>4, AnswerHandled DEF answer

(* A request or an answer moves on. *)
LEMMA MovesOnComplete ==
  ASSUME CompleteInv, UNCHANGED <<responseVars, history>>, mishaps \subseteq mishaps',
         calls # <<>> \/ sent # <<>> \/ signals # <<>>
  PROVE  CompleteInv'
<1> SUFFICES ASSUME mishaps' \subseteq {"service"}, ~released' PROVE CompleteInv'
  BY DEF CompleteInv
<1>1. /\ hstate' = hstate /\ serviceResult' = serviceResult /\ points' = points
      /\ dataMapping' = dataMapping /\ data' = data /\ released' = released /\ history' = history
  BY DEF responseVars
<1>2. serviceResult # "Bad" /\ hstate # "Finished"
  BY <1>1 DEF CompleteInv
<1>3. serviceResult = "Good" /\ data # <<>> =>
         \A n \in Nodes : \/ Read(n) = history[n]
                          \/ \E i \in DOMAIN points : points[i] # NoPoint /\ Asked[i] = n
  BY <1>1 DEF CompleteInv
<1>4. Asked' = Asked /\ \A n \in Nodes : Read(n)' = Read(n)
  BY <1>1 DEF Asked, Read
<1> QED
  BY <1>1, <1>2, <1>3, <1>4 DEF CompleteInv

LEMMA CompleteNext ==
  ASSUME ShapeInv, RangeInv, OrderInv, CompleteInv, [Next]_vars
  PROVE  CompleteInv'
<1>1. CASE UNCHANGED vars
  BY <1>1 DEF vars, responseVars, serverVars, CompleteInv, Read, Asked, HasMoreData
<1>2. CASE ReleaseContinuationPoints \/ Destroy
  <2>1. released' = TRUE
    BY <1>2 DEF ReleaseContinuationPoints, Destroy, PostRelease
  <2> QED
    BY <2>1 DEF CompleteInv
<1>3. CASE DropDataAvailable
  <2>1. UNCHANGED <<responseVars, history>> /\ signals # <<>> /\ mishaps \subseteq mishaps'
    BY <1>3 DEF DropDataAvailable, serverVars
  <2> QED
    BY <2>1, MovesOnComplete
<1>4. CASE BackendReadHistoryRaw
  <2>1. UNCHANGED <<responseVars, history>> /\ calls # <<>> /\ mishaps \subseteq mishaps'
    BY <1>4 DEF BackendReadHistoryRaw, serverVars
  <2> QED
    BY <2>1, MovesOnComplete
<1>5. CASE Service
  <2>1. UNCHANGED <<responseVars, history>> /\ mishaps \subseteq mishaps'
    BY <1>5, OverlapStays DEF Next, Service, ServerReads, ServerReleases, ServiceFails
  <2>2. sent # <<>>
    BY <1>5 DEF Service, ShapeInv, TypeOK
  <2> QED
    BY <2>1, <2>2, MovesOnComplete
<1> QED
  BY <1>1, <1>2, <1>3, <1>4, <1>5, ReadMoreComplete, HandleDataComplete DEF Next, ClientLoop


-----------------------------------------------------------------------------
(* The continuation points that the server keeps.                          *)

LEMMA ReleaseRelease ==
  ASSUME ShapeInv, RangeInv, OrderInv, ReleaseInv, ReleaseContinuationPoints \/ Destroy
  PROVE  ReleaseInv'
<1> SUFFICES ASSUME mishaps' = {}, dataMapping' = <<>> PROVE ReleaseInv'
  BY DEF ReleaseInv
<1>1. calls = <<>> /\ sent = <<>> /\ signals = <<>> /\ mishaps' = mishaps
  BY CallsWhenSettled DEF ReleaseContinuationPoints, Destroy
<1>2. /\ calls' = Append(calls, [nodes |-> AllNodes, points |-> points, release |-> TRUE])
      /\ points' = points /\ dataMapping' = dataMapping /\ held' = held
      /\ sent' = sent /\ signals' = signals /\ ~undefined
  BY DEF ReleaseContinuationPoints, Destroy, PostRelease, serverVars, MayCall
<1>3. Len(points) \in {0, NodeCount} /\ held \subseteq PointsOf(points)
  <2>1. released => held = {}
    BY <1>1, <1>2 DEF ReleaseInv, Settled
  <2>2. ~released => held \subseteq PointsOf(points)
    BY <1>1, <1>2 DEF ReleaseInv
  <2> QED
    BY <1>1, <1>2, <2>1, <2>2 DEF ReleaseInv
<1>4. /\ calls' = << [nodes |-> AllNodes, points |-> points', release |-> TRUE] >>
      /\ sent' = <<>> /\ signals' = <<>>
  BY <1>1, <1>2
<1>5. \A k \in DOMAIN calls' : calls'[k].points = points' /\ calls'[k].nodes = AllNodes
  BY <1>4
<1>6. DOMAIN sent' = {} /\ DOMAIN signals' = {} /\ calls' # <<>> /\ ~Settled'
  BY <1>4 DEF Settled
<1>7. PointsOf(points)' = PointsOf(points)
  BY <1>2 DEF PointsOf
<1>8. Len(points') \in {0, NodeCount} /\ held' \subseteq PointsOf(points)'
  BY <1>2, <1>3, <1>7
<1>9. AllNodes' = AllNodes
  BY DEF AllNodes, Nodes
<1> QED
  BY <1>5, <1>6, <1>8, <1>9 DEF ReleaseInv

LEMMA HandleDataRelease ==
  ASSUME ShapeInv, RangeInv, OrderInv, ReleaseInv, HandleDataAvailable
  PROVE  ReleaseInv'
<1> SUFFICES ASSUME mishaps' = {}, dataMapping' = <<>> PROVE ReleaseInv'
  BY DEF ReleaseInv
<1> DEFINE answer == Head(signals)
<1>1. mishaps = {} /\ dataMapping = <<>>
  BY DEF HandleDataAvailable
<1>2. /\ 1 \in DOMAIN signals /\ answer = signals[1]
      /\ calls' = <<>> /\ sent' = <<>> /\ signals' = <<>>
      /\ released' = released /\ held' = held /\ points' = answer.points
      /\ points' = <<>> \/ Continues(answer)
  BY <1>1, AnswerHandled
<1>3. IF released THEN held = {} ELSE held \subseteq PointsOf(answer.points)
  BY <1>1, <1>2 DEF ReleaseInv
<1>4. answer \in Answers
  BY <1>2 DEF ShapeInv, TypeOK
<1> HIDE DEF answer
<1>5. Len(points') \in {0, NodeCount}
  <2>1. CASE points' = <<>>
    BY <2>1
  <2>2. CASE Continues(answer)
    <3>1. answer.points \in Seq(Points \cup {NoPoint}) /\ DOMAIN answer.points = DOMAIN Asked
      BY <1>4, <2>2 DEF Answers, Continues
    <3>2. DOMAIN Asked = 1..NodeCount /\ NodeCount \in Nat
      BY <1>1, AllNodesType, NodeCountAssumption DEF Asked, Nodes
    <3> DEFINE P == Points \cup {NoPoint}
               s == answer.points
    <3>3. s \in Seq(P) /\ DOMAIN s = 1..NodeCount
      BY <3>1, <3>2
    <3> HIDE DEF P, s
    <3>4. Len(s) = NodeCount
      BY <3>2, <3>3
    <3> QED
      BY <1>2, <3>4 DEF s
  <2> QED
    BY <1>2, <2>1, <2>2
<1>6. IF released' THEN held' = {} ELSE held' \subseteq PointsOf(points)'
  BY <1>2, <1>3 DEF PointsOf
<1>7. DOMAIN calls' = {} /\ DOMAIN sent' = {} /\ DOMAIN signals' = {}
      /\ calls' = <<>> /\ sent' = <<>> /\ signals' = <<>>
  BY <1>2
<1> QED
  BY <1>5, <1>6, <1>7 DEF ReleaseInv

LEMMA DropRelease ==
  ASSUME ShapeInv, RangeInv, OrderInv, ReleaseInv, DropDataAvailable
  PROVE  ReleaseInv'
<1> SUFFICES ASSUME mishaps' = {}, dataMapping' = <<>> PROVE ReleaseInv'
  BY DEF ReleaseInv
<1>1. /\ mishaps = {} /\ signals # <<>> /\ signals' = Tail(signals) /\ released' = TRUE
      /\ points' = points /\ dataMapping = <<>> /\ calls' = calls /\ sent' = sent /\ held' = held
      /\ released
  BY DEF DropDataAvailable, responseVars, serverVars, ShapeInv, TypeOK
<1>2. calls' = <<>> /\ sent' = <<>> /\ signals' = <<>> /\ 1 \in DOMAIN signals
  BY <1>1, AnswerIsTheOne
<1>3. held = {} /\ Len(points) \in {0, NodeCount}
  BY <1>1, <1>2 DEF ReleaseInv
<1>4. DOMAIN calls' = {} /\ DOMAIN sent' = {} /\ DOMAIN signals' = {}
  BY <1>2
<1> QED
  BY <1>1, <1>2, <1>3, <1>4 DEF ReleaseInv

LEMMA BackendRelease ==
  ASSUME ShapeInv, RangeInv, OrderInv, ReleaseInv, BackendReadHistoryRaw
  PROVE  ReleaseInv'
<1> SUFFICES ASSUME mishaps' = {}, dataMapping' = <<>> PROVE ReleaseInv'
  BY DEF ReleaseInv
<1> DEFINE request == Head(calls)
<1>1. /\ mishaps = {} /\ calls # <<>> /\ calls' = Tail(calls) /\ released' = released
      /\ points' = points /\ dataMapping = <<>> /\ held' = held
      /\ (WellFormed(request) => sent' = Append(sent, request) /\ signals' = signals)
  BY DEF BackendReadHistoryRaw, responseVars, serverVars
<1>2. Len(calls) = 1 /\ sent = <<>> /\ signals = <<>> /\ calls \in Seq(Requests)
  BY <1>1, OneUnderWay DEF ShapeInv, TypeOK, RangeInv
<1>3. Tail(calls) = <<>> /\ request = calls[1] /\ 1 \in DOMAIN calls
  BY <1>2, LastTakenOut
<1>4. /\ ReadsAsked(request)
      /\ (request.release => request.points = points /\ request.nodes = AllNodes)
      /\ Len(points) \in {0, NodeCount} /\ held \subseteq PointsOf(points)
  BY <1>1, <1>2, <1>3 DEF RangeInv, ReleaseInv
<1> HIDE DEF request
<1>5. request.points = points /\ request.nodes = AllNodes
  BY <1>1, <1>4 DEF ReadsAsked, Asked
<1>6. WellFormed(request)
  <2>1. Len(points) = 0 => points = <<>>
    BY EmptyList DEF ShapeInv, TypeOK
  <2> QED
    BY <1>4, <1>5, <2>1, AllNodesType DEF WellFormed
<1>7. sent' = <<request>> /\ signals' = <<>> /\ calls' = <<>>
  BY <1>1, <1>2, <1>3, <1>6
<1>8. \A k \in DOMAIN sent' : sent'[k].points = points'
  BY <1>1, <1>5, <1>7
<1>9. DOMAIN calls' = {} /\ DOMAIN signals' = {} /\ sent' # <<>> /\ ~Settled'
  BY <1>7 DEF Settled
<1>10. Len(points') \in {0, NodeCount} /\ held' \subseteq PointsOf(points)'
  BY <1>1, <1>4 DEF PointsOf
<1> QED
  BY <1>8, <1>9, <1>10 DEF ReleaseInv

LEMMA NoPointIsNone == NoPoint \notin Points
<1>1. \A p \in Points : p.node \in Nodes
  BY DEF Points
<1>2. NoPoint.node = 0 /\ 0 \notin Nodes
  BY NodeCountAssumption DEF NoPoint, Nodes
<1> QED
  BY <1>1, <1>2

LEMMA ServiceRelease ==
  ASSUME ShapeInv, RangeInv, OrderInv, ReleaseInv, Service
  PROVE  ReleaseInv'
<1> SUFFICES ASSUME mishaps' = {}, dataMapping' = <<>> PROVE ReleaseInv'
  BY DEF ReleaseInv
<1>1. PICK k \in DOMAIN sent : ServerReads(k) \/ ServerReleases(k) \/ ServiceFails(k)
  BY DEF Service
<1>2. mishaps = {} /\ ~ServiceFails(k)
  BY OverlapStays DEF Next, ServiceFails
<1>3. calls = <<>> /\ signals = <<>> /\ RemoveAt(sent, k) = <<>> /\ sent # <<>>
  BY <1>2, RequestIsTheOne DEF ShapeInv, TypeOK
<1>4. /\ sent' = RemoveAt(sent, k)
      /\ UNCHANGED <<responseVars, undefined, calls, history>>
  BY <1>1, ServiceAnswers
<1>5. /\ calls' = <<>> /\ sent' = <<>> /\ released' = released /\ points' = points
      /\ dataMapping = <<>>
  BY <1>3, <1>4 DEF responseVars
<1>6. Len(points) \in {0, NodeCount} /\ held \subseteq PointsOf(points)
  BY <1>2, <1>3, <1>5 DEF ReleaseInv
<1>7. /\ signals' # <<>>
      /\ \A i \in DOMAIN signals' :
           IF released' THEN held' = {} ELSE held' \subseteq PointsOf(signals[i].points)'
  <2>1. CASE ServerReads(k)
    <3> DEFINE request == sent[k]
               a == Collected(request, {})
    <3>1. /\ ~released /\ request.points = points
          /\ (points = <<>> \/ DOMAIN points = DOMAIN Asked)
          /\ held' = (held \ ({PageOf(request, i) : i \in DOMAIN Asked} \ {NoPoint})) \cup
                     ({NextPoint(PageOf(request, i)) : i \in DOMAIN Asked} \ {NoPoint})
      BY <2>1, ReadsTheNextPages
    <3>2. /\ a \in Answers /\ signals' = <<a>> /\ Len(a.points) = Len(Asked)
          /\ \A i \in DOMAIN Asked : a.points[i] = NextPoint(PageOf(request, i))
      BY <2>1, ServerContinues
    <3> HIDE DEF request, a
    <3>3. \A p \in held : p \in {PageOf(request, i) : i \in DOMAIN Asked} \ {NoPoint}
      <4> TAKE p \in held
      <4>1. p # NoPoint
        BY NoPointIsNone DEF ShapeInv, TypeOK
      <4>2. PICK i \in DOMAIN points : p = points[i]
        BY <1>6 DEF PointsOf
      <4>3. points # <<>>
        BY <4>2
      <4>4. i \in DOMAIN Asked /\ PageOf(request, i) = p
        BY <3>1, <4>2, <4>3 DEF PageOf
      <4> QED
        BY <4>1, <4>4
    <3>4. held' \subseteq {NextPoint(PageOf(request, i)) : i \in DOMAIN Asked}
      BY <3>1, <3>3
    <3>5. DOMAIN a.points = DOMAIN Asked
      <4>1. a.points \in Seq(Points \cup {NoPoint}) /\ Asked \in Seq(Nodes)
        BY <3>2, AskedType DEF Answers, ShapeInv, TypeOK
      <4> DEFINE P == Points \cup {NoPoint}
      <4>2. a.points \in Seq(P)
        BY <4>1
      <4> HIDE DEF P
      <4>3. DOMAIN a.points = 1..Len(a.points)
        BY <4>2
      <4>4. DOMAIN Asked = 1..Len(Asked)
        BY <4>1
      <4> QED
        BY <3>2, <4>3, <4>4
    <3>6. held' \subseteq PointsOf(a.points)
      BY <3>2, <3>4, <3>5 DEF PointsOf
    <3>7. signals' # <<>> /\ \A i \in DOMAIN signals' : signals'[i] = a
      BY <3>2
    <3>8. \A i \in DOMAIN signals' : held' \subseteq PointsOf(signals[i].points)'
      BY <3>6, <3>7 DEF PointsOf
    <3> QED
      BY <1>5, <3>1, <3>7, <3>8
  <2>2. CASE ServerReleases(k)
    <3>1. /\ signals' = << Nothing("Good") >> /\ sent[k].release
          /\ held' = held \ {sent[k].points[i] : i \in DOMAIN sent[k].points}
      BY <1>3, <2>2 DEF ServerReleases
    <3>2. sent[k].points = points /\ released
      BY <1>2, <1>5, <3>1 DEF OrderInv, ReleaseInv
    <3>3. held' = {}
      BY <1>6, <3>1, <3>2 DEF PointsOf
    <3>4. signals' # <<>>
      BY <3>1
    <3> QED
      BY <1>5, <3>2, <3>3, <3>4
  <2> QED
    BY <1>1, <1>2, <2>1, <2>2
<1>8. DOMAIN calls' = {} /\ DOMAIN sent' = {} /\ ~Settled' /\ signals' # <<>>
  BY <1>5, <1>7 DEF Settled
<1>9. Len(points') \in {0, NodeCount}
  BY <1>5, <1>6
<1> QED
  BY <1>7, <1>8, <1>9 DEF ReleaseInv

LEMMA ReleaseNext ==
  ASSUME ShapeInv, RangeInv, OrderInv, ReleaseInv, [Next]_vars
  PROVE  ReleaseInv'
<1>1. CASE UNCHANGED vars
  BY <1>1 DEF vars, responseVars, serverVars, ReleaseInv, PointsOf, Settled
<1>2. CASE ReadMoreData
  <2> SUFFICES ASSUME mishaps' = {}, dataMapping' = <<>> PROVE FALSE
    BY DEF ReleaseInv
  <2>1. mishaps = {}
    BY <1>2, CallsWhenSettled DEF ReadMoreData
  <2>2. InRange
    BY <2>1, AskedType, PointsInRange DEF ShapeInv, TypeOK, RangeInv
  <2>3. Len(dataMapping') = Len(Open) /\ DOMAIN Open # {} /\ Open \in Seq(DOMAIN points)
    BY <1>2, <2>2, ReadMoreAsks
  <2>4. Len(dataMapping') = 0
    OBVIOUS
  <2> QED
    BY <2>3, <2>4, EmptyList
<1> QED
  BY <1>1, <1>2, ReleaseRelease, HandleDataRelease, DropRelease, BackendRelease, ServiceRelease
     DEF Next, ClientLoop

-----------------------------------------------------------------------------
(* The theorems.                                                           *)

(* Whatever the application, the server and the connection do: the lists   *)
(* of the response fit each other, the data of a node and the continuation *)
(* points are those of the request under way, as far as nothing has gone   *)
(* wrong that could spoil them.                                            *)
THEOREM HistoryInvariant == Spec => []HistoryInv
<1>1. Init => HistoryInv
  BY HistoryInit
<1>2. HistoryInv /\ [Next]_vars => HistoryInv'
  BY ShapeNext, RangeNext, OrderNext, CompleteNext, ReleaseNext DEF HistoryInv
<1> QED
  BY <1>1, <1>2, PTL DEF Spec

(* The lists that readMoreData(), handleDataAvailable() and the callback   *)
(* of the plugin build keep their types.                                   *)
THEOREM HistoryTypeCorrect == Spec => []TypeOK
<1>1. HistoryInv => TypeOK
  BY DEF HistoryInv, ShapeInv
<1> QED
  BY <1>1, HistoryInvariant, PTL

(* readMoreData() and handleDataAvailable() index no list out of its       *)
(* range, for any number of nodes and any nodes that cannot be read, if    *)
(* the application waits for its answers.                                  *)
THEOREM HistoryStaysInRange == Spec => []StaysInRange
<1>1. HistoryInv => StaysInRange
  BY DEF HistoryInv, RangeInv, StaysInRange
<1> QED
  BY <1>1, HistoryInvariant, PTL

(* The data of a node is a prefix of its history, whichever nodes          *)
(* readMoreData() leaves out of its requests.                              *)
THEOREM HistoryDataInOrder == Spec => []DataIsInOrder
<1>1. HistoryInv => DataIsInOrder
  BY DEF HistoryInv, OrderInv, DataIsInOrder
<1> QED
  BY <1>1, HistoryInvariant, PTL

(* A response that is Finished and Good, and was not released, has the     *)
(* whole history of every node.                                            *)
THEOREM HistoryFinishedComplete == Spec => []FinishedIsComplete
<1>1. HistoryInv => FinishedIsComplete
  <2> SUFFICES ASSUME HistoryInv, mishaps \subseteq {"service"}, hstate = "Finished",
                      serviceResult = "Good", ~released
               PROVE  data = [n \in Nodes |-> PagesUpTo(n, history[n])]
    BY DEF FinishedIsComplete
  <2>1. /\ data # <<>> /\ \A i \in DOMAIN points : points[i] = NoPoint
        /\ \A n \in Nodes : \/ Read(n) = history[n]
                            \/ \E i \in DOMAIN points : points[i] # NoPoint /\ Asked[i] = n
    BY DEF HistoryInv, CompleteInv
  <2>2. \A n \in Nodes : Len(data[n]) = history[n]
    BY <2>1 DEF Read
  <2>3. DOMAIN data = Nodes /\ \A n \in DOMAIN data : data[n] = PagesUpTo(n, Len(data[n]))
    BY <2>1 DEF HistoryInv, RangeInv, OrderInv, DataIsInOrder
  <2>4. data = [n \in DOMAIN data |-> data[n]]
    BY DEF HistoryInv, ShapeInv, TypeOK
  <2> QED
    BY <2>2, <2>3, <2>4
<1> QED
  BY <1>1, HistoryInvariant, PTL

(* releaseContinuationPoints() before the first readMoreData() leaves no   *)
(* continuation point on the server, if nothing has gone wrong.            *)
THEOREM HistoryFirstReleaseFrees == Spec => []FirstReleaseFreesTheServer
<1>1. HistoryInv => FirstReleaseFreesTheServer
  BY DEF HistoryInv, ReleaseInv, FirstReleaseFreesTheServer
<1> QED
  BY <1>1, HistoryInvariant, PTL
=============================================================================
