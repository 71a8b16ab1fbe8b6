--------------------------- MODULE GdsClient_proofs ---------------------------
(***************************************************************************)
(* Proofs about GdsClient, for any set of application ids and any bound.   *)
(*                                                                         *)
(* That the application is registered once rests on one call of the chain  *)
(* under way at a time, although timers, lost answers, reconnects and a    *)
(* restart of the process cut in; that the id is known, on what the        *)
(* requests behind GetCertificateGroups say about it while connected.      *)
(***************************************************************************)
EXTENDS GdsClient, FiniteSetTheorems, TLAPS

-----------------------------------------------------------------------------
(* The inductive invariant.                                                *)

(* No call of the chain is under way, or one. *)
NoChain(g) == \A m \in ChainMethods : g.calls[m] = 0

OneChain(g) ==
  /\ \A m \in ChainMethods : g.calls[m] <= 1
  /\ \A m, n \in ChainMethods : g.calls[m] > 0 /\ g.calls[n] > 0 => m = n

(* The chain starts when the last method is resolved. *)
ChainIsLast(g) == ~AllResolved(g) => NoChain(g)

(* The requests from GetCertificateGroups on. *)
AsksForGroups(g) ==
  g.calls["GetCertificateGroups"] > 0 \/ g.waits \cap {"CertificateTypes", "ReadTypes"} # {}

(* What the private object, the client and the server agree on. *)
Sound(g, c, known) ==
  /\ g \in Private
  /\ OneChain(g) /\ ChainIsLast(g)
  /\ c \in {"Disconnected", "Connecting"} => NoChain(g)
  /\ c = "Connecting" => g.waits = {}
  /\ g.calls["RegisterApplication"] > 0 => known = {}
  /\ c = "Connected" /\ AsksForGroups(g) => g.appId \in known

AtMostOne(known) == known = {} \/ \E id \in AppIds : known = {id}

GdsInv ==
  /\ TypeOK
  /\ Sound(gds, client, registered)
  /\ AtMostOne(registered)

-----------------------------------------------------------------------------
(* The methods.                                                            *)

LEMMA MethodNames ==
  /\ Methods = {"GetApplication", "FindApplications", "RegisterApplication",
                "UnregisterApplication", "GetCertificateGroups", "GetCertificateStatus",
                "StartSigningRequest", "FinishRequest", "GetTrustList"}
  /\ ChainMethods \subseteq Methods
  /\ "null" \notin Methods
<1>1. DOMAIN elementsToResolve = 1..9
  BY DEF elementsToResolve
<1>2. 1..9 = {1, 2, 3, 4, 5, 6, 7, 8, 9}
  OBVIOUS
<1>3. /\ elementsToResolve[1] = "GetApplication" /\ elementsToResolve[2] = "FindApplications"
      /\ elementsToResolve[3] = "RegisterApplication"
      /\ elementsToResolve[4] = "UnregisterApplication"
      /\ elementsToResolve[5] = "GetCertificateGroups"
      /\ elementsToResolve[6] = "GetCertificateStatus"
      /\ elementsToResolve[7] = "StartSigningRequest"
      /\ elementsToResolve[8] = "FinishRequest" /\ elementsToResolve[9] = "GetTrustList"
  BY DEF elementsToResolve
<1>4. Methods = {"GetApplication", "FindApplications", "RegisterApplication",
                "UnregisterApplication", "GetCertificateGroups", "GetCertificateStatus",
                "StartSigningRequest", "FinishRequest", "GetTrustList"}
  BY <1>1, <1>2, <1>3 DEF Methods
<1> QED
  BY <1>4 DEF ChainMethods

LEMMA CallsAreNaturals ==
  ASSUME NEW g \in Private
  PROVE  \A m \in ChainMethods : g.calls[m] \in Nat
BY MethodNames DEF Private

-----------------------------------------------------------------------------
(* Steps beside the chain: they add none of its calls and requests, do not *)
(* forget a method, and leave the id alone.                                *)

Aside(g, h) ==
  /\ h \in Private
  /\ \A m \in ChainMethods : h.calls[m] <= g.calls[m]
  /\ \A m \in Methods : g.nodes[m] # "absent" => h.nodes[m] # "absent"
  /\ g.waits = {} => h.waits = {}
  /\ h.waits \cap {"CertificateTypes", "ReadTypes"} \subseteq g.waits
  /\ h.appId = g.appId
  /\ h.state = "ApplicationRegistered" => g.state = "ApplicationRegistered"

LEMMA AsideTwice ==
  ASSUME NEW f \in Private, NEW g, NEW h, Aside(f, g), Aside(g, h)
  PROVE  Aside(f, h)
<1>1. \A m \in ChainMethods : /\ f.calls[m] \in Nat /\ g.calls[m] \in Nat /\ h.calls[m] \in Nat
                              /\ g.calls[m] <= f.calls[m] /\ h.calls[m] <= g.calls[m]
  BY MethodNames DEF Aside, Private
<1>2. \A m \in ChainMethods : h.calls[m] <= f.calls[m]
  BY <1>1
<1> QED
  BY <1>2 DEF Aside

LEMMA AsideSame ==
  ASSUME NEW g \in Private
  PROVE  Aside(g, g)
BY MethodNames DEF Aside, Private

LEMMA SetErrorAside ==
  ASSUME NEW g \in Private
  PROVE  Aside(g, setError(g))
BY MethodNames DEF Aside, setError, Private, States

LEMMA CallMethodAside ==
  ASSUME NEW g \in Private, NEW m \in Methods \ ChainMethods
  PROVE  Aside(g, CallMethod(g, m))
<1> DEFINE h == [g EXCEPT !.nodes[m] = IF @ = "absent" THEN "empty" ELSE @]
           id == IF g.nodes[m] = "resolved" THEN m ELSE "null"
           r == [h EXCEPT !.calls[id] = @ + 1]
<1>1. /\ h \in Private /\ h.calls = g.calls /\ h.waits = g.waits /\ h.appId = g.appId
      /\ h.state = g.state /\ \A n \in Methods : g.nodes[n] # "absent" => h.nodes[n] # "absent"
  BY DEF Private
<1>2. id \in Methods \cup {"null"} /\ id \notin ChainMethods
  BY MethodNames
<1>3. CallMethod(g, m) = CASE g.directory = "null"          -> [h EXCEPT !.fault = TRUE]
                           [] g.directory = "ObjectsFolder" -> h
                           [] g.directory = "Directory"     -> r
  BY DEF CallMethod
<1> HIDE DEF h, id
<1>4. Aside(g, h)
  BY <1>1, CallsAreNaturals DEF Aside
<1>5. Aside(h, [h EXCEPT !.fault = TRUE])
  <2>1. [h EXCEPT !.fault = TRUE] \in Private
    BY <1>1 DEF Private
  <2>2. /\ [h EXCEPT !.fault = TRUE].calls = h.calls /\ [h EXCEPT !.fault = TRUE].nodes = h.nodes
        /\ [h EXCEPT !.fault = TRUE].waits = h.waits /\ [h EXCEPT !.fault = TRUE].appId = h.appId
        /\ [h EXCEPT !.fault = TRUE].state = h.state
    BY <1>1 DEF Private
  <2> QED
    BY <1>1, <2>1, <2>2, CallsAreNaturals DEF Aside
<1>6. Aside(h, r)
  <2>1. /\ r.calls = [h.calls EXCEPT ![id] = @ + 1] /\ r.nodes = h.nodes /\ r.waits = h.waits
        /\ r.appId = h.appId /\ r.state = h.state
    BY <1>1 DEF Private
  <2>2. [h.calls EXCEPT ![id] = @ + 1] \in [Methods \cup {"null"} -> Nat]
    BY <1>1, <1>2 DEF Private
  <2>3. r \in Private
    BY <1>1, <2>1, <2>2 DEF Private
  <2>4. h.calls \in [Methods \cup {"null"} -> Nat]
    BY <1>1 DEF Private
  <2>5. \A n \in ChainMethods : r.calls[n] = h.calls[n]
    BY <1>2, <2>1, <2>4, MethodNames
  <2> QED
    BY <1>1, <2>1, <2>3, <2>5, CallsAreNaturals DEF Aside
<1>7. g.directory \in {"null", "ObjectsFolder", "Directory"}
  BY DEF Private
<1> QED
  BY <1>3, <1>4, <1>5, <1>6, <1>7, AsideTwice

LEMMA CallDirectoryAside ==
  ASSUME NEW g \in Private, NEW m \in Methods \ ChainMethods
  PROVE  Aside(g, CallDirectory(g, m))
BY CallMethodAside, SetErrorAside, AsideSame DEF CallDirectory

LEMMA AttemptAside ==
  ASSUME NEW g \in Private, NEW m \in Methods \ ChainMethods, NEW h \in Attempt(g, m)
  PROVE  Aside(g, h)
BY CallDirectoryAside, SetErrorAside DEF Attempt

LEMMA CertificateCheckAside ==
  ASSUME NEW g \in Private, NEW h \in CertificateCheck(g)
  PROVE  Aside(g, h)
<1>1. {"GetCertificateStatus", "StartSigningRequest"} \subseteq Methods \ ChainMethods
  BY MethodNames DEF ChainMethods
<1> QED
  BY <1>1, AttemptAside, AsideSame
     DEF CertificateCheck, getCertificateStatus, startCertificateRequest

LEMMA UpdateTrustListAside ==
  ASSUME NEW g \in Private
  PROVE  Aside(g, UpdateTrustList(g))
<1>1. "GetTrustList" \in Methods \ ChainMethods
  BY MethodNames DEF ChainMethods
<1> QED
  BY <1>1, CallMethodAside, AsideSame DEF UpdateTrustList

LEMMA FinishCertificateRequestAside ==
  ASSUME NEW g \in Private
  PROVE  Aside(g, finishCertificateRequest(g))
<1>1. "FinishRequest" \in Methods \ ChainMethods
  BY MethodNames DEF ChainMethods
<1>2. g.requestId \in BOOLEAN
  BY DEF Private
<1> QED
  BY <1>1, <1>2, CallMethodAside, SetErrorAside, AsideSame DEF finishCertificateRequest

(* An answer takes one call out. *)
LEMMA TakenCall ==
  ASSUME gds \in Private, NEW m \in Methods \cup {"null"}, gds.calls[m] > 0
  PROVE  /\ Taken(m) \in Private
         /\ Taken(m).nodes = gds.nodes /\ Taken(m).waits = gds.waits
         /\ Taken(m).appId = gds.appId /\ Taken(m).state = gds.state
         /\ \A n \in Methods \cup {"null"} :
              Taken(m).calls[n] = IF n = m THEN gds.calls[n] - 1 ELSE gds.calls[n]
<1> DEFINE left == [gds.calls EXCEPT ![m] = @ - 1]
<1>1. gds.calls \in [Methods \cup {"null"} -> Nat]
  BY DEF Private
<1>2. left \in [Methods \cup {"null"} -> Nat]
  BY <1>1
<1>3. Taken(m) = [gds EXCEPT !.calls = left]
  BY DEF Taken, Private
<1>4. \A n \in Methods \cup {"null"} : left[n] = IF n = m THEN gds.calls[n] - 1 ELSE gds.calls[n]
  BY <1>1
<1> HIDE DEF left
<1> QED
  BY <1>2, <1>3, <1>4 DEF Private

LEMMA TakenAside ==
  ASSUME gds \in Private, NEW m \in Methods \cup {"null"}, gds.calls[m] > 0
  PROVE  Aside(gds, Taken(m))
<1>1. \A n \in ChainMethods : gds.calls[n] \in Nat
  BY CallsAreNaturals
<1> QED
  BY <1>1, TakenCall, MethodNames DEF Aside

(* What a step beside the chain does not disturb. *)
LEMMA AsideKeeps ==
  ASSUME NEW g, NEW h, NEW c, NEW known, Sound(g, c, known), Aside(g, h)
  PROVE  Sound(h, c, known)
<1>1. {"RegisterApplication", "GetCertificateGroups"} \subseteq ChainMethods
  BY DEF ChainMethods
<1>2. \A m \in ChainMethods : g.calls[m] \in Nat /\ h.calls[m] \in Nat /\ h.calls[m] <= g.calls[m]
  BY CallsAreNaturals DEF Sound, Aside
<1>3. AllResolved(g) => AllResolved(h)
  BY DEF AllResolved, Aside
<1>4. AsksForGroups(h) => AsksForGroups(g)
  BY <1>1, <1>2 DEF AsksForGroups, Aside
<1>5. NoChain(g) => NoChain(h)
  BY <1>2 DEF NoChain
<1>6. OneChain(h)
  BY <1>2 DEF OneChain, Sound
<1>7. h.calls["RegisterApplication"] > 0 => g.calls["RegisterApplication"] > 0
  BY <1>1, <1>2
<1> QED
  BY <1>3, <1>4, <1>5, <1>6, <1>7 DEF Sound, Aside, ChainIsLast

-----------------------------------------------------------------------------
(* Steps of the chain.                                                     *)

(* h is g with at most one call under way, that of m. *)
ChainStep(g, h, m) ==
  /\ h \in Private
  /\ AllResolved(h)
  /\ h.waits = g.waits /\ h.appId = g.appId
  /\ h.state = "ApplicationRegistered" => g.state = "ApplicationRegistered"
  /\ \A n \in ChainMethods \ {m} : h.calls[n] = 0
  /\ h.calls[m] \in {0, 1}
  /\ client # "Connected" => h.calls[m] = 0

LEMMA ChainStepStands ==
  ASSUME NEW g \in Private, AllResolved(g), NoChain(g), NEW m \in ChainMethods
  PROVE  ChainStep(g, g, m)
BY DEF ChainStep, NoChain

LEMMA ChainCall ==
  ASSUME NEW g \in Private, AllResolved(g), NoChain(g), NEW m \in ChainMethods
  PROVE  ChainStep(g, CallDirectory(g, m), m)
<1> DEFINE id == IF g.nodes[m] = "resolved" THEN m ELSE "null"
           more == [g.calls EXCEPT ![id] = @ + 1]
           r == [g EXCEPT !.calls = more]
<1>1. m \in Methods /\ id \in Methods \cup {"null"} /\ (id \in ChainMethods => id = m)
  BY MethodNames
<1>2. g.nodes[m] # "absent" /\ g.nodes \in [Methods -> {"absent", "empty", "resolved"}]
  BY <1>1 DEF AllResolved, Private
<1>3. [g EXCEPT !.nodes[m] = IF @ = "absent" THEN "empty" ELSE @] = g
  BY <1>1, <1>2 DEF Private
<1>4. CallMethod(g, m) = CASE g.directory = "null"          -> [g EXCEPT !.fault = TRUE]
                           [] g.directory = "ObjectsFolder" -> g
                           [] g.directory = "Directory"     -> [g EXCEPT !.calls[id] = @ + 1]
  BY <1>3 DEF CallMethod
<1>5. [g EXCEPT !.calls[id] = @ + 1] = r
  BY DEF Private
<1>6. g.calls \in [Methods \cup {"null"} -> Nat]
  BY DEF Private
<1>7. /\ more \in [Methods \cup {"null"} -> Nat]
      /\ \A n \in ChainMethods : more[n] = IF n = id THEN 1 ELSE 0
  BY <1>1, <1>6, MethodNames DEF NoChain
<1> HIDE DEF id, more
<1>8. /\ r \in Private /\ r.calls = more /\ r.nodes = g.nodes /\ r.waits = g.waits
      /\ r.appId = g.appId /\ r.state = g.state
  BY <1>7 DEF Private
<1> HIDE DEF r
<1>9. CASE client = "Connected" /\ g.directory = "Directory"
  <2>1. CallDirectory(g, m) = r
    BY <1>4, <1>5, <1>9 DEF CallDirectory
  <2>2. AllResolved(r)
    BY <1>8 DEF AllResolved
  <2>3. \A n \in ChainMethods \ {m} : r.calls[n] = 0
    BY <1>1, <1>7, <1>8
  <2>4. r.calls[m] \in {0, 1}
    BY <1>7, <1>8
  <2> QED
    BY <1>8, <1>9, <2>1, <2>2, <2>3, <2>4 DEF ChainStep
<1>10. CASE ~(client = "Connected" /\ g.directory = "Directory")
  <2>1. CallDirectory(g, m) \in {g, setError(g)}
    BY <1>4, <1>10 DEF CallDirectory, Private
  <2>2. AllResolved(setError(g)) /\ NoChain(setError(g))
    BY DEF setError, AllResolved, NoChain, Private
  <2>3. ChainStep(g, setError(g), m)
    <3>1. /\ setError(g).waits = g.waits /\ setError(g).appId = g.appId
          /\ setError(g).state = "Error" /\ setError(g) \in Private
      BY DEF setError, Private, States
    <3> QED
      BY <2>2, <3>1 DEF ChainStep, NoChain
  <2> QED
    BY <2>1, <2>3, ChainStepStands
<1> QED
  BY <1>9, <1>10

LEMMA ChainStepKeeps ==
  ASSUME NEW g, NEW h, NEW known, NEW m \in ChainMethods, ChainStep(g, h, m),
         client \in {"Connected", "Closing"},
         m = "RegisterApplication" => known = {},
         client = "Connected" /\ (m = "GetCertificateGroups" \/ AsksForGroups(g)) => g.appId \in known
  PROVE  Sound(h, client, known)
<1>1. {"RegisterApplication", "GetCertificateGroups"} \subseteq ChainMethods
  BY DEF ChainMethods
<1>2. h \in Private
  BY DEF ChainStep
<1>3. OneChain(h)
  BY DEF OneChain, ChainStep
<1>4. ChainIsLast(h)
  BY DEF ChainIsLast, ChainStep
<1>5. h.calls["RegisterApplication"] > 0 => known = {}
  BY <1>1 DEF ChainStep
<1>6. client = "Connected" /\ AsksForGroups(h) => h.appId \in known
  BY <1>1 DEF ChainStep, AsksForGroups
<1> QED
  BY <1>2, <1>3, <1>4, <1>5, <1>6 DEF Sound

(* Without a call of the chain, and not connected. *)
LEMMA OfflineIsSound ==
  ASSUME NEW g \in Private, NoChain(g), NEW c \in {"Disconnected", "Closing"}, NEW known
  PROVE  Sound(g, c, known)
<1>1. "RegisterApplication" \in ChainMethods
  BY DEF ChainMethods
<1> QED
  BY <1>1 DEF Sound, NoChain, OneChain, ChainIsLast

LEMMA ClosingIsSound ==
  ASSUME NEW g, NEW c \in {"Connected", "Closing"}, NEW known, NEW left, Sound(g, c, known),
         left \subseteq known
  PROVE  Sound(g, "Closing", left)
BY DEF Sound

(* The answer to a call of the chain leaves none behind, and every method  *)
(* has an entry.                                                           *)
LEMMA ChainTaken ==
  ASSUME NEW c, NEW known, Sound(gds, c, known), NEW m \in ChainMethods, gds.calls[m] > 0
  PROVE  /\ Taken(m) \in Private /\ NoChain(Taken(m)) /\ AllResolved(Taken(m))
         /\ Taken(m).appId = gds.appId /\ Taken(m).waits = gds.waits /\ Taken(m).state = gds.state
         /\ AsksForGroups(Taken(m)) => AsksForGroups(gds)
<1>1. gds \in Private /\ m \in Methods /\ "GetCertificateGroups" \in ChainMethods
  BY MethodNames DEF Sound, ChainMethods
<1>2. \A n \in ChainMethods : gds.calls[n] \in Nat
  BY <1>1, CallsAreNaturals
<1>3. \A n \in ChainMethods : Taken(m).calls[n] = IF n = m THEN gds.calls[n] - 1 ELSE gds.calls[n]
  BY <1>1, TakenCall, MethodNames
<1>4. NoChain(Taken(m))
  BY <1>2, <1>3 DEF NoChain, OneChain, Sound
<1>5. AllResolved(gds)
  BY DEF ChainIsLast, NoChain, Sound
<1>6. /\ Taken(m) \in Private /\ Taken(m).nodes = gds.nodes /\ Taken(m).waits = gds.waits
      /\ Taken(m).appId = gds.appId /\ Taken(m).state = gds.state
  BY <1>1, TakenCall
<1>7. AllResolved(Taken(m))
  BY <1>5, <1>6 DEF AllResolved
<1>8. AsksForGroups(Taken(m)) => AsksForGroups(gds)
  BY <1>1, <1>4, <1>6 DEF AsksForGroups, NoChain
<1> QED
  BY <1>4, <1>6, <1>7, <1>8

(* A step that leaves the connection and the server alone. *)
Quiet == gds'.state = "ApplicationRegistered" => gds.state = "ApplicationRegistered"

LEMMA BesideKeeps ==
  ASSUME GdsInv, Aside(gds, gds'),
         UNCHANGED <<client, accessDenied, connecting, pkiValid, settings, registered>>
  PROVE  GdsInv' /\ Quiet
<1>1. Sound(gds', client, registered)
  BY AsideKeeps DEF GdsInv
<1>2. TypeOK'
  BY <1>1 DEF GdsInv, TypeOK, Sound
<1> QED
  BY <1>1, <1>2 DEF GdsInv, Sound, AtMostOne, OneChain, ChainIsLast, NoChain, AllResolved,
                    AsksForGroups, Quiet, Aside

LEMMA InvPrime ==
  ASSUME Sound(gds', client', registered'), AtMostOne(registered'), TypeOK'
  PROVE  GdsInv'
BY DEF GdsInv, Sound, AtMostOne, OneChain, ChainIsLast, NoChain, AllResolved, AsksForGroups

-----------------------------------------------------------------------------
(* The application.                                                        *)

(* start() to its end, of an object without a call of the chain. *)
LEMMA StartKeeps ==
  ASSUME NEW g \in Private, NoChain(g), g.state # "ApplicationRegistered", TypeOK, Start(g)
  PROVE  /\ gds' \in Private /\ NoChain(gds') /\ gds'.state # "ApplicationRegistered"
         /\ accessDenied' \in BOOLEAN /\ connecting' \in BOOLEAN
<1>1. /\ LoadId(g) \in Private /\ NoChain(LoadId(g)) /\ LoadId(g).state # "ApplicationRegistered"
  <2>1. CASE settings = NoId
    BY <2>1 DEF LoadId
  <2>2. CASE settings # NoId
    BY <2>2 DEF LoadId, Private, NoChain, TypeOK
  <2> QED
    BY <2>1, <2>2
<1>2. /\ setError(LoadId(g)) \in Private /\ NoChain(setError(LoadId(g)))
      /\ setError(LoadId(g)).state # "ApplicationRegistered"
  BY <1>1 DEF setError, Private, NoChain, States
<1>3. accessDenied \in BOOLEAN /\ connecting \in BOOLEAN
  BY DEF TypeOK
<1> QED
  BY <1>1, <1>2, <1>3 DEF Start

LEMMA ApplicationStep ==
  ASSUME GdsInv, Application
  PROVE  GdsInv' /\ Quiet
<1>1. gds \in Private
  BY DEF GdsInv, TypeOK
<1>2. CASE StartInvalidBackend
  BY <1>1, <1>2, SetErrorAside, BesideKeeps DEF StartInvalidBackend
<1>3. CASE StartFails
  <2>1. Aside(gds, Started)
    <3>1. Started \in Private /\ Started.state = "Connecting"
      BY <1>1 DEF Started, Private, States
    <3>2. /\ Started.calls = gds.calls /\ Started.nodes = gds.nodes /\ Started.waits = gds.waits
          /\ Started.appId = gds.appId
      BY <1>1 DEF Started, Private
    <3> QED
      BY <1>1, <3>1, <3>2, CallsAreNaturals DEF Aside
  <2>2. Aside(gds, setError(Started))
    BY <1>1, <2>1, SetErrorAside, AsideTwice DEF Aside
  <2> QED
    BY <1>3, <2>2, BesideKeeps DEF StartFails
<1>4. CASE StartCalled
  <2>1. client = "Disconnected" /\ NoChain(gds)
    BY <1>4 DEF StartCalled, MayStart, GdsInv, Sound
  <2>2. Started \in Private /\ NoChain(Started) /\ Started.state # "ApplicationRegistered"
    BY <1>1, <2>1 DEF Started, Private, NoChain, States
  <2>3. /\ gds' \in Private /\ NoChain(gds') /\ gds'.state # "ApplicationRegistered"
        /\ accessDenied' \in BOOLEAN /\ connecting' \in BOOLEAN
    BY <1>4, <2>2, StartKeeps DEF StartCalled, GdsInv, TypeOK
  <2>4. /\ client' = client /\ registered' = registered
        /\ pkiValid' = pkiValid /\ settings' = settings
    BY <1>4 DEF StartCalled
  <2>5. TypeOK'
    BY <2>3, <2>4 DEF GdsInv, TypeOK
  <2>6. Sound(gds', client', registered')
    BY <2>1, <2>3, <2>4, OfflineIsSound
  <2> QED
    BY <2>3, <2>4, <2>5, <2>6, InvPrime DEF GdsInv, Quiet
<1>5. CASE UnregisterApplication
  <2>1. "UnregisterApplication" \in Methods \ ChainMethods
    BY MethodNames DEF ChainMethods
  <2>2. Aside(gds, gds')
    BY <1>1, <1>5, <2>1, CallDirectoryAside, SetErrorAside DEF UnregisterApplication
  <2> QED
    BY <1>5, <2>2, BesideKeeps DEF UnregisterApplication
<1> QED
  BY <1>2, <1>3, <1>4, <1>5 DEF Application

-----------------------------------------------------------------------------
(* The client.                                                             *)

LEMMA ForgottenDirectory ==
  ASSUME NEW g \in Private
  PROVE  /\ ForgetDirectory(g) \in Private /\ NoChain(ForgetDirectory(g))
         /\ ForgetDirectory(g).state = "Idle"
<1> DEFINE none == [m \in DOMAIN g.calls |-> 0]
           absent == [m \in Methods |-> "absent"]
           h == SetDirectory(g, "null")
<1>1. none \in [Methods \cup {"null"} -> Nat] /\ \A m \in ChainMethods : none[m] = 0
  BY MethodNames DEF Private
<1>2. absent \in [Methods -> {"absent", "empty", "resolved"}]
  OBVIOUS
<1>3. h = [g EXCEPT !.directory = "null", !.resolves = {}, !.calls = none,
                    !.waits = g.waits \ {"Directory"}]
  BY DEF SetDirectory, Private
<1>4. ForgetDirectory(g) = [h EXCEPT !.nodes = absent, !.state = "Idle"]
  BY DEF ForgetDirectory
<1> HIDE DEF none, absent
<1>5. h \in Private /\ h.calls = none
  <2>1. h.calls = none
    BY <1>3 DEF Private
  <2>2. g.waits \ {"Directory"} \in SUBSET Waits /\ {} \in SUBSET Methods
    BY DEF Private
  <2>3. h \in Private
    BY <1>1, <1>3, <2>2 DEF Private
  <2> QED
    BY <2>1, <2>3
<1> HIDE DEF h
<1>6. ForgetDirectory(g).calls = none /\ ForgetDirectory(g).state = "Idle"
  BY <1>4, <1>5 DEF Private
<1>7. ForgetDirectory(g) \in Private
  BY <1>2, <1>4, <1>5 DEF Private, States
<1> QED
  BY <1>1, <1>6, <1>7 DEF NoChain

(* A call that is lost may have been executed. *)
LEMMA ServerKeepsOne ==
  ASSUME GdsInv, ServerMayExecute
  PROVE  AtMostOne(registered') /\ registered' \subseteq AppIds
<1>1. CASE UNCHANGED registered
  BY <1>1 DEF GdsInv, TypeOK, AtMostOne
<1>2. CASE /\ gds.calls["RegisterApplication"] > 0
           /\ \E id \in AppIds \ registered : registered' = registered \cup {id}
  BY <1>2 DEF GdsInv, Sound, AtMostOne
<1>3. CASE registered' = registered \ {gds.appId}
  BY <1>3 DEF GdsInv, TypeOK, AtMostOne
<1> QED
  BY <1>1, <1>2, <1>3 DEF ServerMayExecute

LEMMA ClientStep ==
  ASSUME GdsInv, ClientSignal
  PROVE  GdsInv' /\ Quiet
<1>1. gds \in Private
  BY DEF GdsInv, TypeOK
<1>2. CASE ClientConnecting
  <2>1. client = "Disconnected" /\ client' = "Connecting" /\ NoChain(gds)
    BY <1>2 DEF ClientConnecting, QtClient!Connect, GdsInv, Sound
  <2>2. /\ gds' \in Private /\ gds'.calls = gds.calls /\ gds'.waits = {} /\ gds'.state = gds.state
    BY <1>1, <1>2 DEF ClientConnecting, Private
  <2>3. NoChain(gds') /\ "RegisterApplication" \in ChainMethods
    BY <2>1, <2>2 DEF NoChain, ChainMethods
  <2>4. Sound(gds', "Connecting", registered)
    BY <2>2, <2>3 DEF Sound, NoChain, OneChain, ChainIsLast
  <2>5. registered' = registered /\ TypeOK'
    BY <1>2, <2>1, <2>2 DEF ClientConnecting, GdsInv, TypeOK
  <2> QED
    BY <2>1, <2>2, <2>4, <2>5, InvPrime DEF GdsInv, Quiet
<1>3. CASE ClientConnected
  <2>1. client = "Connecting" /\ client' = "Connected" /\ NoChain(gds) /\ gds.waits = {}
    BY <1>3 DEF ClientConnected, QtClient!Resolve, GdsInv, Sound
  <2>2. /\ gds' \in Private /\ gds'.calls = gds.calls /\ gds'.waits = {"NamespaceArray"}
        /\ gds'.state = gds.state
    BY <1>1, <1>3, <2>1 DEF ClientConnected, Private, Waits
  <2>3. NoChain(gds') /\ {"RegisterApplication", "GetCertificateGroups"} \subseteq ChainMethods
    BY <2>1, <2>2 DEF NoChain, ChainMethods
  <2>4. ~AsksForGroups(gds')
    BY <2>2, <2>3 DEF AsksForGroups, NoChain
  <2>5. Sound(gds', "Connected", registered)
    BY <2>2, <2>3, <2>4 DEF Sound, NoChain, OneChain, ChainIsLast
  <2>6. registered' = registered /\ TypeOK'
    BY <1>3, <2>1, <2>2 DEF ClientConnected, GdsInv, TypeOK
  <2> QED
    BY <2>1, <2>2, <2>5, <2>6, InvPrime DEF GdsInv, Quiet
<1>4. CASE ClientDisconnected
  <2>1. PICK late \in {{}, gds.waits} :
          LET g == [ForgetDirectory(gds) EXCEPT !.waits = late]
          IN IF gds.restartRequired
             THEN Start([g EXCEPT !.restartRequired = FALSE, !.state = "Connecting"])
             ELSE gds' = g /\ UNCHANGED <<accessDenied, connecting>>
    BY <1>4 DEF ClientDisconnected
  <2> DEFINE f == ForgetDirectory(gds)
             g == [f EXCEPT !.waits = late]
             again == [g EXCEPT !.restartRequired = FALSE, !.state = "Connecting"]
  <2>2. f \in Private /\ NoChain(f) /\ f.state = "Idle" /\ late \in SUBSET Waits
    BY <1>1, ForgottenDirectory DEF Private
  <2> HIDE DEF f
  <2>3. g \in Private /\ NoChain(g) /\ g.state = "Idle"
    BY <2>2 DEF Private, NoChain
  <2>4. again \in Private /\ NoChain(again) /\ again.state = "Connecting"
    BY <2>3 DEF Private, NoChain, States
  <2>5. IF gds.restartRequired THEN Start(again)
        ELSE gds' = g /\ UNCHANGED <<accessDenied, connecting>>
    BY <2>1 DEF f
  <2> HIDE DEF g, again
  <2>6. /\ gds' \in Private /\ NoChain(gds') /\ gds'.state # "ApplicationRegistered"
        /\ accessDenied' \in BOOLEAN /\ connecting' \in BOOLEAN
    <3>1. CASE gds.restartRequired
      BY <2>4, <2>5, <3>1, StartKeeps DEF GdsInv, TypeOK
    <3>2. CASE ~gds.restartRequired
      BY <2>3, <2>5, <3>2 DEF GdsInv, TypeOK
    <3> QED
      BY <3>1, <3>2
  <2>7. /\ client' = "Disconnected" /\ ServerMayExecute /\ settings' = settings
        /\ pkiValid' = pkiValid
    BY <1>4 DEF ClientDisconnected
  <2>8. AtMostOne(registered') /\ registered' \subseteq AppIds
    BY <2>7, ServerKeepsOne
  <2>9. TypeOK'
    BY <2>6, <2>7, <2>8 DEF GdsInv, TypeOK
  <2> QED
    BY <2>6, <2>7, <2>8, <2>9, OfflineIsSound, InvPrime DEF Quiet
<1>5. CASE RestartFails
  <2> DEFINE f == ForgetDirectory(gds)
  <2>1. f \in Private /\ NoChain(f)
    BY <1>1, ForgottenDirectory
  <2>2. gds' = setError([f EXCEPT !.restartRequired = FALSE])
    BY <1>5 DEF RestartFails
  <2> HIDE DEF f
  <2>3. gds' \in Private /\ NoChain(gds') /\ gds'.state = "Error"
    BY <2>1, <2>2 DEF Private, NoChain, setError, States
  <2>4. /\ client' = "Disconnected" /\ ServerMayExecute
        /\ UNCHANGED <<accessDenied, connecting, pkiValid, settings>>
    BY <1>5 DEF RestartFails
  <2>5. AtMostOne(registered') /\ registered' \subseteq AppIds
    BY <2>4, ServerKeepsOne
  <2>6. TypeOK'
    BY <2>3, <2>4, <2>5 DEF GdsInv, TypeOK
  <2> QED
    BY <2>3, <2>4, <2>5, <2>6, OfflineIsSound, InvPrime DEF Quiet
<1> QED
  BY <1>2, <1>3, <1>4, <1>5 DEF ClientSignal

-----------------------------------------------------------------------------
(* Answers to the requests of the nodes.                                   *)

LEMMA SetDirectoryAside ==
  ASSUME NEW g \in Private, NEW node \in {"null", "ObjectsFolder", "Directory"}
  PROVE  Aside(g, SetDirectory(g, node))
<1> DEFINE none == [m \in DOMAIN g.calls |-> 0]
           rest == g.waits \ {"Directory"}
           h == [g EXCEPT !.directory = node, !.resolves = {}, !.calls = none, !.waits = rest]
<1>1. none \in [Methods \cup {"null"} -> Nat] /\ \A m \in ChainMethods : none[m] = 0
  BY MethodNames DEF Private
<1>2. rest \in SUBSET Waits /\ {} \in SUBSET Methods /\ rest \subseteq g.waits
  BY DEF Private
<1>3. SetDirectory(g, node) = h
  BY DEF SetDirectory, Private
<1> HIDE DEF none, rest
<1>4. /\ h.calls = none /\ h.waits = rest /\ h.nodes = g.nodes /\ h.appId = g.appId
      /\ h.state = g.state
  BY DEF Private
<1>5. h \in Private
  BY <1>1, <1>2 DEF Private
<1> HIDE DEF h
<1>6. \A m \in ChainMethods : h.calls[m] <= g.calls[m]
  BY <1>1, <1>4, CallsAreNaturals
<1> QED
  BY <1>2, <1>3, <1>4, <1>5, <1>6 DEF Aside

LEMMA AnsweredWait ==
  ASSUME gds \in Private, NEW w
  PROVE  /\ Answered(w) \in Private /\ Answered(w).waits = gds.waits \ {w}
         /\ Answered(w).calls = gds.calls /\ Answered(w).nodes = gds.nodes
         /\ Answered(w).appId = gds.appId /\ Answered(w).state = gds.state
BY DEF Answered, Private

LEMMA NamespaceAside ==
  ASSUME GdsInv, NEW found \in BOOLEAN, HandleNamespaceArrayUpdated(found)
  PROVE  Aside(gds, gds')
<1> DEFINE a == Answered("NamespaceArray")
           g == setState(a, "Connected")
           h == SetDirectory(g, "ObjectsFolder")
           r == [h EXCEPT !.waits = @ \cup {"Directory"}]
<1>1. gds \in Private /\ "NamespaceArray" \in gds.waits
  BY DEF GdsInv, TypeOK, HandleNamespaceArrayUpdated
<1>2. gds' = CASE client # "Connected"           -> g
               [] client = "Connected" /\ found  -> r
               [] client = "Connected" /\ ~found -> setError(h)
  BY DEF HandleNamespaceArrayUpdated
<1>3. /\ a \in Private /\ a.waits \subseteq gds.waits /\ a.calls = gds.calls /\ a.nodes = gds.nodes
      /\ a.appId = gds.appId
  BY <1>1, AnsweredWait
<1> HIDE DEF a
<1>4. /\ g \in Private /\ g.waits = a.waits /\ g.calls = a.calls /\ g.nodes = a.nodes
      /\ g.appId = a.appId /\ g.state = "Connected"
  BY <1>3 DEF setState, Private, States
<1> HIDE DEF g
<1>5. Aside(gds, g)
  BY <1>1, <1>3, <1>4, CallsAreNaturals DEF Aside
<1>6. Aside(gds, h)
  BY <1>1, <1>4, <1>5, SetDirectoryAside, AsideTwice
<1>7. Aside(gds, setError(h))
  BY <1>1, <1>6, SetErrorAside, AsideTwice DEF Aside
<1> HIDE DEF h
<1>8. Aside(gds, r)
  <2>1. h \in Private
    BY <1>6 DEF Aside
  <2>2. r \in Private
    BY <2>1 DEF Private, Waits
  <2>3. /\ r.waits = h.waits \cup {"Directory"} /\ r.calls = h.calls /\ r.nodes = h.nodes
        /\ r.appId = h.appId /\ r.state = h.state
    BY <2>1 DEF Private
  <2> QED
    BY <1>1, <1>6, <2>2, <2>3 DEF Aside
<1> QED
  BY <1>2, <1>5, <1>7, <1>8

LEMMA DirectoryAside ==
  ASSUME GdsInv, NEW good \in BOOLEAN, HandleDirectoryResolved(good)
  PROVE  Aside(gds, gds')
<1> DEFINE g == SetDirectory(gds, "null")
           d == [g EXCEPT !.directory = "Directory"]
           asked == {m \in Methods : d.nodes[m] # "resolved"}
           r == [d EXCEPT !.resolves = asked]
<1>1. gds \in Private
  BY DEF GdsInv, TypeOK
<1>2. gds' = IF good THEN r ELSE setError(g)
  BY DEF HandleDirectoryResolved, resolveMethodNodes
<1>3. Aside(gds, g) /\ g \in Private
  BY <1>1, SetDirectoryAside DEF Aside
<1>4. Aside(gds, setError(g))
  BY <1>1, <1>3, SetErrorAside, AsideTwice
<1> HIDE DEF g
<1>5. d \in Private /\ asked \in SUBSET Methods
  BY <1>3 DEF Private
<1>6. /\ d.waits = g.waits /\ d.calls = g.calls /\ d.nodes = g.nodes
      /\ d.appId = g.appId /\ d.state = g.state
  BY <1>3 DEF Private
<1> HIDE DEF d, asked
<1>7. /\ r \in Private /\ r.waits = d.waits /\ r.calls = d.calls /\ r.nodes = d.nodes
      /\ r.appId = d.appId /\ r.state = d.state
  BY <1>5 DEF Private
<1>8. Aside(gds, r)
  BY <1>3, <1>6, <1>7 DEF Aside
<1> QED
  BY <1>2, <1>4, <1>8

(* A request of another node than the directory's. *)
LEMMA AskKeeps ==
  ASSUME NEW g, NEW w \in Waits, Sound(g, client, registered), client # "Connecting",
         client = "Connected" => g.appId \in registered
  PROVE  /\ Sound(Ask(g, w), client, registered)
         /\ Ask(g, w).state = "ApplicationRegistered" => g.state = "ApplicationRegistered"
<1>1. g \in Private
  BY DEF Sound
<1>2. CASE client = "Connected"
  <2> DEFINE r == [g EXCEPT !.waits = g.waits \cup {w}]
  <2>1. Ask(g, w) = r
    BY <1>1, <1>2 DEF Ask
  <2>2. /\ r \in Private /\ r.calls = g.calls /\ r.nodes = g.nodes /\ r.appId = g.appId
        /\ r.state = g.state
    BY <1>1 DEF Private
  <2> HIDE DEF r
  <2>3. Sound(r, client, registered)
    BY <1>2, <2>2 DEF Sound, OneChain, ChainIsLast, NoChain, AllResolved
  <2> QED
    BY <2>1, <2>2, <2>3
<1>3. CASE client # "Connected"
  <2>1. Ask(g, w) = setError(g)
    BY <1>3 DEF Ask
  <2> QED
    BY <1>1, <2>1, SetErrorAside, AsideKeeps DEF Aside
<1> QED
  BY <1>2, <1>3

LEMMA CertificateTypesKeep ==
  ASSUME GdsInv, NEW good \in BOOLEAN, HandleCertificateTypesResolved(good)
  PROVE  Sound(gds', client, registered) /\ Quiet
<1> DEFINE g == Answered("CertificateTypes")
<1>1. gds \in Private /\ "CertificateTypes" \in gds.waits
  BY DEF GdsInv, TypeOK, HandleCertificateTypesResolved
<1>2. client # "Connecting" /\ (client = "Connected" => gds.appId \in registered)
  BY <1>1 DEF GdsInv, Sound, AsksForGroups
<1>3. Aside(gds, g) /\ g.appId = gds.appId /\ g.state = gds.state
  BY <1>1, AnsweredWait, CallsAreNaturals DEF Aside
<1>4. gds' = IF good THEN Ask(g, "ReadTypes") ELSE setError(g)
  BY DEF HandleCertificateTypesResolved
<1> HIDE DEF g
<1>5. Sound(g, client, registered) /\ g \in Private
  BY <1>3, AsideKeeps DEF GdsInv, Sound
<1>6. CASE good
  <2>1. "ReadTypes" \in Waits
    BY DEF Waits
  <2> QED
    BY <1>2, <1>3, <1>4, <1>5, <1>6, <2>1, AskKeeps DEF Quiet
<1>7. CASE ~good
  BY <1>3, <1>4, <1>5, <1>7, SetErrorAside, AsideKeeps DEF Quiet, Aside
<1> QED
  BY <1>6, <1>7

(* The last method is resolved: the chain begins. *)
LEMMA ResolvedKeeps ==
  ASSUME GdsInv, NEW good \in BOOLEAN, HandleResolveBrowsePathFinished(good)
  PROVE  Sound(gds', client, registered) /\ Quiet
<1>1. gds \in Private /\ Sound(gds, client, registered)
  BY DEF GdsInv, TypeOK
<1>2. PICK m \in gds.resolves :
        LET g == [gds EXCEPT !.resolves = @ \ {m}]
            h == [g EXCEPT !.nodes[m] = "resolved"]
        IN gds' = CASE gds.nodes[m] # "absent" \/ ~good -> setError(g)
                    [] gds.nodes[m] = "absent" /\ good  -> IF AllResolved(h) THEN NextStep(h) ELSE h
  BY DEF HandleResolveBrowsePathFinished
<1>3. m \in Methods
  BY <1>1 DEF Private
<1> DEFINE g == [gds EXCEPT !.resolves = @ \ {m}]
           h == [g EXCEPT !.nodes[m] = "resolved"]
<1>4. /\ g \in Private /\ g.calls = gds.calls /\ g.nodes = gds.nodes /\ g.waits = gds.waits
      /\ g.appId = gds.appId /\ g.state = gds.state
  BY <1>1 DEF Private
<1>5. gds' = CASE gds.nodes[m] # "absent" \/ ~good -> setError(g)
               [] gds.nodes[m] = "absent" /\ good  -> IF AllResolved(h) THEN NextStep(h) ELSE h
  BY <1>2
<1> HIDE DEF g
<1>6. Aside(gds, g)
  BY <1>1, <1>4, CallsAreNaturals DEF Aside
<1>7. /\ h \in Private /\ h.calls = g.calls /\ h.waits = g.waits /\ h.appId = g.appId
      /\ h.state = g.state /\ h.nodes = [g.nodes EXCEPT ![m] = "resolved"]
  BY <1>3, <1>4 DEF Private
<1> HIDE DEF h
<1>8. Aside(gds, h)
  <2>1. \A n \in Methods : gds.nodes[n] # "absent" => h.nodes[n] # "absent"
    BY <1>1, <1>3, <1>4, <1>7 DEF Private
  <2> QED
    BY <1>1, <1>4, <1>7, <2>1, CallsAreNaturals DEF Aside
<1>9. CASE gds.nodes[m] # "absent" \/ ~good
  BY <1>1, <1>4, <1>5, <1>6, <1>9, SetErrorAside, AsideTwice, AsideKeeps DEF Aside, Quiet
<1>10. CASE gds.nodes[m] = "absent" /\ good /\ ~AllResolved(h)
  BY <1>1, <1>5, <1>8, <1>10, AsideKeeps DEF Aside, Quiet
<1>11. CASE gds.nodes[m] = "absent" /\ good /\ AllResolved(h)
  <2>1. client \in {"Connected", "Closing"}
    BY <1>11 DEF HandleResolveBrowsePathFinished, Online
  <2>2. NoChain(gds)
    BY <1>1, <1>3, <1>11 DEF Sound, ChainIsLast, AllResolved
  <2>3. NoChain(h)
    BY <1>4, <1>7, <2>2 DEF NoChain
  <2>4. AsksForGroups(h) => AsksForGroups(gds)
    BY <1>4, <1>7 DEF AsksForGroups
  <2>5. client = "Connected" /\ AsksForGroups(h) => h.appId \in registered
    BY <1>1, <1>4, <1>7, <2>4 DEF Sound
  <2>6. gds' = NextStep(h)
    BY <1>5, <1>11
  <2>7. {"FindApplications", "GetApplication"} \subseteq ChainMethods
    BY DEF ChainMethods
  <2>8. ChainStep(h, gds', IF h.appId = NoId THEN "FindApplications" ELSE "GetApplication")
    BY <1>7, <1>11, <2>3, <2>6, <2>7, ChainCall
       DEF NextStep, findRegisteredApplication, getApplication
  <2>9. Sound(gds', client, registered)
    <3>1. ChainStep(h, gds', "FindApplications") \/ ChainStep(h, gds', "GetApplication")
      BY <2>8
    <3> QED
      BY <2>1, <2>5, <2>7, <3>1, ChainStepKeeps
  <2> QED
    BY <1>4, <1>7, <2>8, <2>9 DEF Quiet, ChainStep
<1> QED
  BY <1>9, <1>10, <1>11

(* registrationDone(): on a live connection the id is one the server knows. *)
LEMMA RegistrationKeeps ==
  ASSUME GdsInv, RegistrationDone
  PROVE  /\ Sound(gds', client, registered)
         /\ client = "Connected" => gds'.appId \in registered
<1> DEFINE a == Answered("ReadTypes")
           g == [a EXCEPT !.state = "ApplicationRegistered", !.timers = TRUE]
<1>1. gds \in Private /\ "ReadTypes" \in gds.waits /\ Sound(gds, client, registered)
  BY DEF GdsInv, TypeOK, RegistrationDone
<1>2. client = "Connected" => gds.appId \in registered
  BY <1>1 DEF GdsInv, Sound, AsksForGroups
<1>3. Aside(gds, a)
  BY <1>1, AnsweredWait, CallsAreNaturals DEF Aside
<1>4. PICK h \in CertificateCheck(g) : gds' = UpdateTrustList(h)
  BY DEF RegistrationDone
<1> HIDE DEF a
<1>5. Sound(a, client, registered) /\ a \in Private /\ a.appId = gds.appId
  BY <1>1, <1>3, AsideKeeps DEF Aside
<1>6. /\ g \in Private /\ g.calls = a.calls /\ g.nodes = a.nodes /\ g.waits = a.waits
      /\ g.appId = a.appId
  BY <1>5 DEF Private, States
<1> HIDE DEF g
<1>7. Sound(g, client, registered)
  BY <1>5, <1>6 DEF Sound, OneChain, ChainIsLast, NoChain, AllResolved, AsksForGroups
<1>8. Aside(g, h) /\ h \in Private
  BY <1>6, CertificateCheckAside DEF Aside
<1>9. Aside(g, gds')
  BY <1>4, <1>6, <1>8, UpdateTrustListAside, AsideTwice
<1> QED
  BY <1>2, <1>5, <1>6, <1>7, <1>9, AsideKeeps DEF Aside

(* Sound(gds') is all that is left to show where the connection and the    *)
(* server are left alone.                                                  *)
LEMMA OnlyObject ==
  ASSUME GdsInv, Sound(gds', client, registered),
         UNCHANGED <<client, accessDenied, connecting, pkiValid, settings, registered>>
  PROVE  GdsInv'
<1>1. TypeOK'
  BY DEF GdsInv, TypeOK, Sound
<1> QED
  BY <1>1, InvPrime DEF GdsInv

LEMMA NodeStep ==
  ASSUME GdsInv, NodeAnswer
  PROVE  GdsInv' /\ (Quiet \/ (client = "Connected" => gds'.appId \in registered'))
<1>1. CASE \E good \in BOOLEAN :
             \/ HandleNamespaceArrayUpdated(good)
             \/ HandleDirectoryResolved(good)
             \/ HandleCertificateTypesResolved(good)
             \/ HandleResolveBrowsePathFinished(good)
  <2>1. PICK good \in BOOLEAN :
             \/ HandleNamespaceArrayUpdated(good)
             \/ HandleDirectoryResolved(good)
             \/ HandleCertificateTypesResolved(good)
             \/ HandleResolveBrowsePathFinished(good)
    BY <1>1
  <2>2. CASE HandleNamespaceArrayUpdated(good)
    <3>1. UNCHANGED <<client, accessDenied, connecting, pkiValid, settings, registered>>
      BY <2>2 DEF HandleNamespaceArrayUpdated
    <3> QED
      BY <2>2, <3>1, NamespaceAside, BesideKeeps
  <2>3. CASE HandleDirectoryResolved(good)
    <3>1. UNCHANGED <<client, accessDenied, connecting, pkiValid, settings, registered>>
      BY <2>3 DEF HandleDirectoryResolved
    <3> QED
      BY <2>3, <3>1, DirectoryAside, BesideKeeps
  <2>4. CASE HandleCertificateTypesResolved(good)
    <3>1. UNCHANGED <<client, accessDenied, connecting, pkiValid, settings, registered>>
      BY <2>4 DEF HandleCertificateTypesResolved
    <3> QED
      BY <2>4, <3>1, CertificateTypesKeep, OnlyObject
  <2>5. CASE HandleResolveBrowsePathFinished(good)
    <3>1. UNCHANGED <<client, accessDenied, connecting, pkiValid, settings, registered>>
      BY <2>5 DEF HandleResolveBrowsePathFinished
    <3> QED
      BY <2>5, <3>1, ResolvedKeeps, OnlyObject
  <2> QED
    BY <2>1, <2>2, <2>3, <2>4, <2>5
<1>2. CASE RegistrationDone
  <2>1. UNCHANGED <<client, accessDenied, connecting, pkiValid, settings, registered>>
    BY <1>2 DEF RegistrationDone
  <2> QED
    BY <1>2, <2>1, RegistrationKeeps, OnlyObject
<1> QED
  BY <1>1, <1>2 DEF NodeAnswer

-----------------------------------------------------------------------------
(* Answers to the calls of the chain.                                      *)

LEMMA CallFailsStep ==
  ASSUME GdsInv, NEW m \in Methods, HandleCallFails(m)
  PROVE  GdsInv' /\ Quiet
<1>1. gds \in Private /\ gds.calls[m] > 0 /\ gds' = setError(Taken(m))
  BY DEF GdsInv, TypeOK, HandleCallFails, Finished
<1>2. Aside(gds, Taken(m)) /\ Taken(m) \in Private
  BY <1>1, TakenAside DEF Aside
<1>3. Aside(gds, gds')
  BY <1>1, <1>2, SetErrorAside, AsideTwice
<1> QED
  BY <1>3, BesideKeeps DEF HandleCallFails

(* restartWithCredentials() closes the connection. *)
LEMMA RestartKeeps ==
  ASSUME GdsInv, Online, NEW g \in Private, NoChain(g), g.state = gds.state,
         restartWithCredentials(g), settings' \in AppIds \cup {NoId},
         UNCHANGED <<accessDenied, connecting, pkiValid, registered>>
  PROVE  GdsInv' /\ Quiet
<1>1. client' = "Closing"
  BY DEF Online, restartWithCredentials, Disconnect
<1>2. gds' \in Private /\ NoChain(gds') /\ gds'.state = gds.state
  BY DEF restartWithCredentials, Private, NoChain
<1>3. TypeOK'
  BY <1>1, <1>2 DEF GdsInv, TypeOK
<1> QED
  BY <1>1, <1>2, <1>3, OfflineIsSound, InvPrime DEF GdsInv, Quiet

(* An object whose id is replaced. *)
LEMMA WithId ==
  ASSUME NEW g \in Private, NEW id \in AppIds \cup {NoId}
  PROVE  LET r == [g EXCEPT !.appId = id]
         IN /\ r \in Private /\ r.appId = id /\ r.state = g.state
            /\ NoChain(g) => NoChain(r)
            /\ AllResolved(g) => AllResolved(r)
BY DEF Private, NoChain, AllResolved

LEMMA ChainAnswerStep ==
  ASSUME GdsInv, ChainAnswer
  PROVE  GdsInv' /\ Quiet
<1>1. /\ gds \in Private /\ Sound(gds, client, registered) /\ AtMostOne(registered)
      /\ registered \subseteq AppIds
  BY DEF GdsInv, TypeOK
<1>2. ChainMethods = {"GetApplication", "FindApplications", "RegisterApplication",
                      "GetCertificateGroups"}
  BY DEF ChainMethods
<1>3. CASE \E m \in ChainMethods : HandleCallFails(m)
  BY <1>3, CallFailsStep, MethodNames
<1>4. CASE HandleGetApplicationFinished
  <2> DEFINE g == Taken("GetApplication")
  <2>1. /\ gds.calls["GetApplication"] > 0 /\ client \in {"Connected", "Closing"}
        /\ gds.appId \in registered /\ gds' = getCertificateGroups(g)
        /\ UNCHANGED <<client, accessDenied, connecting, pkiValid, settings, registered>>
    BY <1>4 DEF HandleGetApplicationFinished, Finished, Online
  <2>2. g \in Private /\ NoChain(g) /\ AllResolved(g) /\ g.appId = gds.appId /\ g.state = gds.state
    BY <1>1, <1>2, <2>1, ChainTaken
  <2> HIDE DEF g
  <2>3. ChainStep(g, gds', "GetCertificateGroups")
    BY <1>2, <2>1, <2>2, ChainCall DEF getCertificateGroups
  <2>4. Sound(gds', client, registered)
    BY <1>2, <2>1, <2>2, <2>3, ChainStepKeeps
  <2> QED
    BY <2>1, <2>2, <2>3, <2>4, OnlyObject DEF Quiet, ChainStep
<1>5. CASE HandleGetApplicationNotFound
  <2> DEFINE g == Taken("GetApplication")
             r == [g EXCEPT !.appId = NoId]
  <2>1. /\ gds.calls["GetApplication"] > 0 /\ Online /\ restartWithCredentials(r)
        /\ settings' = NoId /\ UNCHANGED <<accessDenied, connecting, pkiValid, registered>>
    BY <1>5 DEF HandleGetApplicationNotFound, Finished
  <2>2. g \in Private /\ NoChain(g) /\ g.state = gds.state
    BY <1>1, <1>2, <2>1, ChainTaken
  <2> HIDE DEF g
  <2>3. r \in Private /\ NoChain(r) /\ r.state = gds.state
    BY <2>2, WithId
  <2> HIDE DEF r
  <2> QED
    BY <2>1, <2>3, RestartKeeps
<1>6. CASE HandleFindApplicationsFinished
  <2> DEFINE g == Taken("FindApplications")
  <2>1. /\ gds.calls["FindApplications"] > 0 /\ client \in {"Connected", "Closing"}
        /\ UNCHANGED <<client, accessDenied, connecting, pkiValid, settings, registered>>
        /\ IF registered = {} THEN gds' = registerApplication(g)
           ELSE \E id \in registered : gds' = getCertificateGroups([g EXCEPT !.appId = id])
    BY <1>6 DEF HandleFindApplicationsFinished, Finished, Online
  <2>2. /\ g \in Private /\ NoChain(g) /\ AllResolved(g) /\ g.appId = gds.appId
        /\ g.state = gds.state /\ (AsksForGroups(g) => AsksForGroups(gds))
    BY <1>1, <1>2, <2>1, ChainTaken
  <2> HIDE DEF g
  <2>3. CASE registered = {}
    <3>1. ChainStep(g, gds', "RegisterApplication")
      BY <1>2, <2>1, <2>2, <2>3, ChainCall, ChainStepStands DEF registerApplication
    <3>2. client = "Connected" /\ AsksForGroups(g) => g.appId \in registered
      BY <1>1, <2>2 DEF Sound
    <3>3. Sound(gds', client, registered)
      BY <1>2, <2>1, <2>3, <3>1, <3>2, ChainStepKeeps
    <3> QED
      BY <2>1, <2>2, <3>1, <3>3, OnlyObject DEF Quiet, ChainStep
  <2>4. CASE registered # {}
    <3>1. PICK id \in registered : gds' = getCertificateGroups([g EXCEPT !.appId = id])
      BY <2>1, <2>4
    <3> DEFINE r == [g EXCEPT !.appId = id]
    <3>2. /\ r \in Private /\ NoChain(r) /\ AllResolved(r) /\ r.appId = id /\ r.state = gds.state
      <4>1. id \in AppIds \cup {NoId}
        BY <1>1
      <4> QED
        BY <2>2, <4>1, WithId
    <3> HIDE DEF r
    <3>3. ChainStep(r, gds', "GetCertificateGroups")
      BY <1>2, <3>1, <3>2, ChainCall DEF getCertificateGroups, r
    <3>4. Sound(gds', client, registered)
      BY <1>2, <2>1, <3>2, <3>3, ChainStepKeeps
    <3> QED
      BY <2>1, <3>2, <3>3, <3>4, OnlyObject DEF Quiet, ChainStep
  <2> QED
    BY <2>3, <2>4
<1>7. CASE HandleRegisterApplicationDenied
  <2> DEFINE g == Taken("RegisterApplication")
  <2>1. /\ gds.calls["RegisterApplication"] > 0 /\ Online /\ restartWithCredentials(g)
        /\ settings' = settings /\ UNCHANGED <<accessDenied, connecting, pkiValid, registered>>
    BY <1>7 DEF HandleRegisterApplicationDenied, Finished
  <2>2. g \in Private /\ NoChain(g) /\ g.state = gds.state
    BY <1>1, <1>2, <2>1, ChainTaken
  <2> HIDE DEF g
  <2> QED
    BY <2>1, <2>2, RestartKeeps DEF GdsInv, TypeOK
<1>8. CASE HandleRegisterApplicationFinished
  <2> DEFINE g == Taken("RegisterApplication")
  <2>1. PICK id \in AppIds \ registered :
          /\ registered' = registered \cup {id} /\ settings' = id
          /\ gds' = getCertificateGroups([g EXCEPT !.appId = id])
    BY <1>8 DEF HandleRegisterApplicationFinished
  <2>2. /\ gds.calls["RegisterApplication"] > 0 /\ client \in {"Connected", "Closing"}
        /\ UNCHANGED <<client, accessDenied, connecting, pkiValid>>
    BY <1>8 DEF HandleRegisterApplicationFinished, Finished, Online
  <2>3. g \in Private /\ NoChain(g) /\ AllResolved(g) /\ g.state = gds.state
    BY <1>1, <1>2, <2>2, ChainTaken
  <2> HIDE DEF g
  <2> DEFINE r == [g EXCEPT !.appId = id]
  <2>4. /\ r \in Private /\ NoChain(r) /\ AllResolved(r) /\ r.appId = id /\ r.state = gds.state
    BY <2>3, WithId
  <2> HIDE DEF r
  <2>5. registered' = {id}
    BY <1>1, <2>1, <2>2 DEF Sound
  <2>6. ChainStep(r, gds', "GetCertificateGroups")
    BY <1>2, <2>1, <2>4, ChainCall DEF getCertificateGroups, r
  <2>7. Sound(gds', client, {id})
    BY <1>2, <2>2, <2>4, <2>6, ChainStepKeeps
  <2>8. TypeOK' /\ AtMostOne(registered')
    BY <2>1, <2>2, <2>5, <2>7 DEF GdsInv, TypeOK, AtMostOne, Sound
  <2> QED
    BY <2>2, <2>4, <2>5, <2>6, <2>7, <2>8, InvPrime DEF Quiet, ChainStep
<1>9. CASE HandleGetCertificateGroupsFinished
  <2> DEFINE g == Taken("GetCertificateGroups")
             r == [g EXCEPT !.groupNode = (client = "Connected") \/ @]
  <2>1. /\ gds.calls["GetCertificateGroups"] > 0 /\ client \in {"Connected", "Closing"}
        /\ UNCHANGED <<client, accessDenied, connecting, pkiValid, settings, registered>>
        /\ gds' \in {setError(g), Ask(r, "CertificateTypes")}
    BY <1>9 DEF HandleGetCertificateGroupsFinished, Finished, Online
  <2>2. client = "Connected" => gds.appId \in registered
    BY <1>1, <2>1 DEF Sound, AsksForGroups
  <2>3. Aside(gds, g) /\ g \in Private
    BY <1>1, <1>2, <2>1, TakenAside, MethodNames DEF Aside
  <2> HIDE DEF g
  <2>4. /\ r \in Private /\ r.calls = g.calls /\ r.nodes = g.nodes /\ r.waits = g.waits
        /\ r.appId = g.appId /\ r.state = g.state
    BY <2>3 DEF Private
  <2> HIDE DEF r
  <2>5. Aside(gds, r)
    BY <2>3, <2>4 DEF Aside
  <2>6. Sound(r, client, registered)
    BY <1>1, <2>5, AsideKeeps
  <2>7. "CertificateTypes" \in Waits /\ r.appId = gds.appId
    BY <2>3, <2>4 DEF Waits, Aside
  <2>8. CASE gds' = setError(g)
    BY <1>1, <2>1, <2>3, <2>8, SetErrorAside, AsideTwice, BesideKeeps
  <2>9. CASE gds' = Ask(r, "CertificateTypes")
    <3>1. /\ Sound(gds', client, registered)
          /\ gds'.state = "ApplicationRegistered" => r.state = "ApplicationRegistered"
      BY <2>1, <2>2, <2>6, <2>7, <2>9, AskKeeps
    <3> QED
      BY <2>1, <2>5, <3>1, OnlyObject DEF Quiet, Aside
  <2> QED
    BY <2>1, <2>8, <2>9
<1> QED
  BY <1>3, <1>4, <1>5, <1>6, <1>7, <1>8, <1>9 DEF ChainAnswer

-----------------------------------------------------------------------------
(* The other answers, and the timers.                                      *)

LEMMA UnexpectedAside ==
  ASSUME GdsInv, HandleUnexpectedCallFinished
  PROVE  Aside(gds, gds')
<1> DEFINE g == Taken("null")
           all == [m \in Methods |-> IF g.nodes[m] = "absent" THEN "empty" ELSE g.nodes[m]]
           r == [g EXCEPT !.nodes = all]
<1>1. gds \in Private /\ gds.calls["null"] > 0
  BY DEF GdsInv, TypeOK, HandleUnexpectedCallFinished, Finished
<1>2. Aside(gds, g) /\ g \in Private
  BY <1>1, TakenAside DEF Aside
<1>3. gds' = r
  BY DEF HandleUnexpectedCallFinished
<1> HIDE DEF g
<1>4. /\ all \in [Methods -> {"absent", "empty", "resolved"}]
      /\ \A m \in Methods : g.nodes[m] # "absent" => all[m] # "absent"
  BY <1>2 DEF Private
<1> HIDE DEF all
<1>5. /\ r \in Private /\ r.calls = g.calls /\ r.waits = g.waits /\ r.appId = g.appId
      /\ r.state = g.state /\ r.nodes = all
  BY <1>2, <1>4 DEF Private
<1> QED
  BY <1>2, <1>3, <1>4, <1>5 DEF Aside

(* The fields of the certificate request are no concern of the chain. *)
LEMMA RequestAside ==
  ASSUME NEW g \in Private, NEW i \in BOOLEAN, NEW t \in BOOLEAN, NEW n \in Nat
  PROVE  Aside(g, [g EXCEPT !.requestId = i, !.finishTimer = t, !.finishSlots = n])
<1> DEFINE r == [g EXCEPT !.requestId = i, !.finishTimer = t, !.finishSlots = n]
<1>1. r \in Private
  BY DEF Private
<1>2. /\ r.calls = g.calls /\ r.waits = g.waits /\ r.appId = g.appId
      /\ r.state = g.state /\ r.nodes = g.nodes
  BY DEF Private
<1> HIDE DEF r
<1>3. Aside(g, r)
  BY <1>1, <1>2, CallsAreNaturals DEF Aside
<1> QED
  BY <1>3 DEF r

LEMMA OtherAnswerStep ==
  ASSUME GdsInv, OtherAnswer
  PROVE  GdsInv' /\ Quiet
<1>1. gds \in Private /\ Sound(gds, client, registered)
  BY DEF GdsInv, TypeOK
<1>2. {"GetCertificateStatus", "StartSigningRequest", "FinishRequest", "GetTrustList",
       "UnregisterApplication"} \subseteq Methods \ ChainMethods
  BY MethodNames DEF ChainMethods
<1>3. CASE \E m \in Methods \ ChainMethods : HandleCallFails(m)
  BY <1>3, CallFailsStep
<1>4. CASE HandleUnexpectedCallFinished
  BY <1>4, UnexpectedAside, BesideKeeps DEF HandleUnexpectedCallFinished
<1>5. CASE HandleGetCertificateStatusFinished
  <2> DEFINE g == Taken("GetCertificateStatus")
  <2>1. Aside(gds, g) /\ g \in Private
    BY <1>1, <1>2, <1>5, TakenAside DEF HandleGetCertificateStatusFinished, Finished, Aside
  <2>2. gds' \in {g} \cup startCertificateRequest(g)
    BY <1>5 DEF HandleGetCertificateStatusFinished
  <2> HIDE DEF g
  <2>3. Aside(g, gds')
    BY <1>2, <2>1, <2>2, AttemptAside, AsideSame DEF startCertificateRequest
  <2> QED
    BY <1>1, <1>5, <2>1, <2>3, AsideTwice, BesideKeeps DEF HandleGetCertificateStatusFinished
<1>6. CASE HandleStartSigningRequestFinished
  <2> DEFINE g == Taken("StartSigningRequest")
  <2>1. Aside(gds, g) /\ g \in Private
    BY <1>1, <1>2, <1>6, TakenAside DEF HandleStartSigningRequestFinished, Finished, Aside
  <2>2. gds' = [g EXCEPT !.requestId = TRUE, !.finishTimer = TRUE, !.finishSlots = @ + 1]
    BY <1>6 DEF HandleStartSigningRequestFinished
  <2> HIDE DEF g
  <2>3. g.finishSlots + 1 \in Nat
    BY <2>1 DEF Private
  <2>4. Aside(g, gds')
    BY <2>1, <2>2, <2>3, RequestAside
  <2> QED
    BY <1>1, <1>6, <2>1, <2>4, AsideTwice, BesideKeeps DEF HandleStartSigningRequestFinished
<1>7. CASE HandleFinishRequestNotReady
  <2> DEFINE g == Taken("FinishRequest")
  <2>1. Aside(gds, g) /\ g \in Private
    BY <1>1, <1>2, <1>7, TakenAside DEF HandleFinishRequestNotReady, Finished, Aside
  <2>2. gds' = [g EXCEPT !.finishTimer = TRUE]
    BY <1>7 DEF HandleFinishRequestNotReady
  <2> HIDE DEF g
  <2>3. /\ g.requestId \in BOOLEAN /\ g.finishSlots \in Nat
        /\ gds' = [g EXCEPT !.requestId = g.requestId, !.finishTimer = TRUE,
                            !.finishSlots = g.finishSlots]
    BY <2>1, <2>2 DEF Private
  <2>4. Aside(g, gds')
    BY <2>1, <2>3, RequestAside
  <2> QED
    BY <1>1, <1>7, <2>1, <2>4, AsideTwice, BesideKeeps DEF HandleFinishRequestNotReady
<1>8. CASE HandleFinishRequestFinished
  <2> DEFINE g == Taken("FinishRequest")
             r == [g EXCEPT !.requestId = FALSE]
  <2>1. Aside(gds, g) /\ g \in Private
    BY <1>1, <1>2, <1>8, TakenAside DEF HandleFinishRequestFinished, Finished, Aside
  <2>2. gds' \in {r, setError(r)}
    BY <1>8 DEF HandleFinishRequestFinished
  <2> HIDE DEF g
  <2>3. /\ g.finishTimer \in BOOLEAN /\ g.finishSlots \in Nat
        /\ r = [g EXCEPT !.requestId = FALSE, !.finishTimer = g.finishTimer,
                         !.finishSlots = g.finishSlots]
    BY <2>1 DEF Private
  <2> HIDE DEF r
  <2>4. Aside(g, r) /\ r \in Private
    <3>1. Aside(g, r)
      BY <2>1, <2>3, RequestAside
    <3> QED
      BY <3>1 DEF Aside
  <2>5. Aside(gds, r)
    BY <1>1, <2>1, <2>4, AsideTwice
  <2>6. Aside(gds, gds')
    BY <1>1, <2>2, <2>4, <2>5, SetErrorAside, AsideTwice
  <2> QED
    BY <1>8, <2>6, BesideKeeps DEF HandleFinishRequestFinished
<1>9. CASE HandleGetTrustListFinished
  <2> DEFINE g == Taken("GetTrustList")
  <2>1. Aside(gds, g) /\ g \in Private
    BY <1>1, <1>2, <1>9, TakenAside DEF HandleGetTrustListFinished, Finished, Aside
  <2>2. gds' = IF client = "Connected" THEN g ELSE setError(g)
    BY <1>9 DEF HandleGetTrustListFinished
  <2> HIDE DEF g
  <2>3. Aside(gds, gds')
    BY <1>1, <2>1, <2>2, SetErrorAside, AsideTwice
  <2> QED
    BY <1>9, <2>3, BesideKeeps DEF HandleGetTrustListFinished
<1>10. CASE HandleUnregisterApplicationFinished
  <2>1. /\ gds.calls["UnregisterApplication"] > 0 /\ client \in {"Connected", "Closing"}
        /\ gds' = Taken("UnregisterApplication") /\ registered' = registered \ {gds.appId}
        /\ client' = "Closing" /\ UNCHANGED <<accessDenied, connecting, pkiValid, settings>>
    BY <1>10 DEF HandleUnregisterApplicationFinished, Finished, Online, Disconnect
  <2>2. Aside(gds, gds')
    BY <1>1, <1>2, <2>1, TakenAside
  <2>3. Sound(gds', client, registered)
    BY <1>1, <2>2, AsideKeeps
  <2>4. Sound(gds', client', registered')
    BY <2>1, <2>3, ClosingIsSound
  <2>5. TypeOK' /\ AtMostOne(registered')
    BY <2>1, <2>3 DEF GdsInv, TypeOK, AtMostOne, Sound
  <2> QED
    BY <2>2, <2>4, <2>5, InvPrime DEF Quiet, Aside
<1> QED
  BY <1>3, <1>4, <1>5, <1>6, <1>7, <1>8, <1>9, <1>10 DEF OtherAnswer

(* Every slot that is connected to the finish timer calls once more, but   *)
(* none of them calls a method of the chain.                               *)
LEMMA FinishTimeoutAside ==
  ASSUME GdsInv, FinishTimeout
  PROVE  Aside(gds, gds')
<1> DEFINE quiet == [gds EXCEPT !.finishTimer = FALSE]
           g == finishCertificateRequest(quiet)
           more == gds.finishSlots - 1
           all == [m \in DOMAIN g.calls |-> IF g.calls[m] > gds.calls[m] THEN g.calls[m] + more
                                            ELSE g.calls[m]]
           r == [g EXCEPT !.calls = all]
<1>1. gds \in Private
  BY DEF GdsInv, TypeOK
<1>2. gds' = r
  BY DEF FinishTimeout
<1>3. /\ quiet = [gds EXCEPT !.requestId = gds.requestId, !.finishTimer = FALSE,
                             !.finishSlots = gds.finishSlots]
      /\ gds.requestId \in BOOLEAN /\ gds.finishSlots \in Nat
  BY <1>1 DEF Private
<1> HIDE DEF quiet
<1>4. Aside(gds, quiet) /\ quiet \in Private
  <2>1. Aside(gds, quiet)
    BY <1>1, <1>3, RequestAside
  <2> QED
    BY <2>1 DEF Aside
<1>5. Aside(gds, g) /\ g \in Private
  BY <1>1, <1>4, FinishCertificateRequestAside, AsideTwice DEF Aside
<1> HIDE DEF g
<1>6. /\ g.calls \in [Methods \cup {"null"} -> Nat] /\ gds.calls \in [Methods \cup {"null"} -> Nat]
      /\ gds.finishSlots \in Nat
  BY <1>1, <1>5 DEF Private
<1>7. all \in [Methods \cup {"null"} -> Nat]
  BY <1>6
<1>8. \A m \in ChainMethods : all[m] = g.calls[m]
  <2>1. \A m \in ChainMethods : ~(g.calls[m] > gds.calls[m])
    BY <1>1, <1>5, CallsAreNaturals DEF Aside
  <2> QED
    BY <1>6, <2>1, MethodNames
<1> HIDE DEF all
<1>9. r \in Private
  BY <1>5, <1>7 DEF Private
<1>10. /\ r.calls = all /\ r.waits = g.waits /\ r.appId = g.appId
       /\ r.state = g.state /\ r.nodes = g.nodes
  BY <1>5 DEF Private
<1> QED
  BY <1>2, <1>5, <1>8, <1>9, <1>10 DEF Aside

LEMMA TimerStep ==
  ASSUME GdsInv, Timer
  PROVE  GdsInv' /\ Quiet
<1>1. gds \in Private
  BY DEF GdsInv, TypeOK
<1>2. CASE CertificateCheckTimeout
  BY <1>1, <1>2, CertificateCheckAside, BesideKeeps DEF CertificateCheckTimeout
<1>3. CASE TrustListTimeout
  BY <1>1, <1>3, UpdateTrustListAside, BesideKeeps DEF TrustListTimeout
<1>4. CASE FinishTimeout
  <2>1. UNCHANGED <<client, accessDenied, connecting, pkiValid, settings, registered>>
    BY <1>4 DEF FinishTimeout
  <2> QED
    BY <1>4, <2>1, FinishTimeoutAside, BesideKeeps
<1> QED
  BY <1>2, <1>3, <1>4 DEF Timer

-----------------------------------------------------------------------------
(* The process and the server.                                             *)

LEMMA NewPrivateType ==
  NewPrivate \in Private /\ NoChain(NewPrivate) /\ NewPrivate.state = "Idle"
<1> DEFINE none == [m \in Methods \cup {"null"} |-> 0]
           absent == [m \in Methods |-> "absent"]
<1>1. none \in [Methods \cup {"null"} -> Nat] /\ \A m \in ChainMethods : none[m] = 0
  BY MethodNames
<1>2. absent \in [Methods -> {"absent", "empty", "resolved"}]
  OBVIOUS
<1>3. NewPrivate.calls = none /\ NewPrivate.nodes = absent /\ NewPrivate.state = "Idle"
  BY DEF NewPrivate
<1> HIDE DEF none, absent
<1>4. NewPrivate =
        [state |-> "Idle", hasClient |-> FALSE, appId |-> NoId,
         directory |-> "null", nodes |-> absent, resolves |-> {}, calls |-> none, waits |-> {},
         groupNode |-> FALSE, restartRequired |-> FALSE, timers |-> FALSE, requestId |-> FALSE,
         finishTimer |-> FALSE, finishSlots |-> 0, fault |-> FALSE]
  BY DEF NewPrivate, none, absent
<1>5. NewPrivate \in Private
  BY <1>1, <1>2, <1>4 DEF Private, States
<1> QED
  BY <1>1, <1>3, <1>5 DEF NoChain

LEMMA EnvironmentStep ==
  ASSUME GdsInv, Environment
  PROVE  GdsInv' /\ Quiet
<1>1. CASE ProcessEnds
  <2>1. /\ gds' = NewPrivate /\ client' = "Disconnected" /\ accessDenied' = FALSE
        /\ connecting' = FALSE /\ ServerMayExecute /\ UNCHANGED <<pkiValid, settings>>
    BY <1>1 DEF ProcessEnds
  <2>2. AtMostOne(registered') /\ registered' \subseteq AppIds
    BY <2>1, ServerKeepsOne
  <2>3. TypeOK'
    BY <2>1, <2>2, NewPrivateType DEF GdsInv, TypeOK
  <2>4. Sound(gds', client', registered')
    BY <2>1, NewPrivateType, OfflineIsSound
  <2> QED
    BY <2>1, <2>2, <2>3, <2>4, InvPrime, NewPrivateType DEF Quiet
<1>2. CASE ServerForgets
  <2>1. /\ client = "Disconnected" /\ registered' = {}
        /\ UNCHANGED <<gds, client, accessDenied, connecting, pkiValid, settings>>
    BY <1>2 DEF ServerForgets
  <2>2. gds \in Private /\ NoChain(gds)
    BY <2>1 DEF GdsInv, Sound
  <2>3. Sound(gds', client', registered')
    BY <2>1, <2>2, OfflineIsSound
  <2>4. TypeOK' /\ AtMostOne(registered')
    BY <2>1 DEF GdsInv, TypeOK, AtMostOne
  <2> QED
    BY <2>1, <2>3, <2>4, InvPrime DEF Quiet
<1> QED
  BY <1>1, <1>2 DEF Environment

-----------------------------------------------------------------------------
(* The theorems.                                                           *)

LEMMA InitHolds == Init => GdsInv
<1> SUFFICES ASSUME Init PROVE GdsInv
  OBVIOUS
<1>1. TypeOK
  BY NewPrivateType DEF Init, TypeOK
<1>2. Sound(gds, client, registered)
  BY NewPrivateType, OfflineIsSound DEF Init
<1> QED
  BY <1>1, <1>2 DEF GdsInv, AtMostOne, Init

LEMMA StutterKeeps ==
  ASSUME GdsInv, UNCHANGED vars
  PROVE  GdsInv' /\ Quiet
<1>1. Aside(gds, gds')
  BY AsideSame DEF vars, GdsInv, TypeOK
<1> QED
  BY <1>1, BesideKeeps DEF vars

LEMMA NextKeeps ==
  ASSUME GdsInv, [Next]_vars
  PROVE  GdsInv' /\ (Quiet \/ (client = "Connected" => gds'.appId \in registered'))
BY ApplicationStep, ClientStep, NodeStep, ChainAnswerStep, OtherAnswerStep, TimerStep,
   EnvironmentStep, StutterKeeps DEF Next

(* At most one call of the chain is under way, none before the methods are *)
(* resolved; the server is asked to register the application only while it *)
(* does not know it, and for certificate groups only with an id it knows.  *)
THEOREM GdsInvariant == Spec => []GdsInv
<1>1. GdsInv /\ [Next]_vars => GdsInv'
  BY NextKeeps
<1> QED
  BY <1>1, InitHolds, PTL DEF Spec

(* Every variable of the client of the global discovery server keeps its   *)
(* type; the calls under way are never negative.                           *)
THEOREM GdsTypeCorrect == Spec => []TypeOK
<1>1. GdsInv => TypeOK
  BY DEF GdsInv
<1> QED
  BY <1>1, GdsInvariant, PTL

(* _q_handleFindApplicationsFinished and                                   *)
(* _q_handleRegisterApplicationFinished: however often answers are lost,   *)
(* the process dies or the connection is made again, the application is    *)
(* registered at most once.                                                *)
THEOREM GdsAtMostOneRegistration == Spec => []AtMostOneRegistration
<1>1. GdsInv => AtMostOneRegistration
  <2> SUFFICES ASSUME GdsInv PROVE Cardinality(registered) <= 1
    BY DEF AtMostOneRegistration
  <2>1. CASE registered = {}
    <3>1. Cardinality(registered) = 0
      BY <2>1, FS_EmptySet, Zenon
    <3> QED
      BY <3>1
  <2>2. CASE \E id \in AppIds : registered = {id}
    <3>1. Cardinality(registered) = 1
      BY <2>2, FS_Singleton, Zenon
    <3> QED
      BY <3>1
  <2> QED
    BY <2>1, <2>2 DEF GdsInv, AtMostOne
<1> QED
  BY <1>1, GdsInvariant, PTL

(* registrationDone() on a live connection: the id is one that the server  *)
(* knows, whatever the settings or the record said.                        *)
THEOREM GdsRegisteredIsKnown == Spec => RegisteredIsKnown
<1>1. GdsInv /\ [Next]_vars =>
        [gds.state # "ApplicationRegistered" /\ gds'.state = "ApplicationRegistered"
         /\ client = "Connected" => gds'.appId \in registered']_vars
  BY NextKeeps DEF Quiet
<1> QED
  BY <1>1, GdsInvariant, PTL DEF Spec, RegisteredIsKnown
=============================================================================
