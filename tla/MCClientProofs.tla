--------------------------- MODULE MCClientProofs ---------------------------
(***************************************************************************)
(* Proofs about what a client is told: for any number of flows, events,    *)
(* requests, clients, connections and broadcasts.                          *)
(***************************************************************************)
EXTENDS MCClient, SequenceTheorems, TLAPS

(***************************************************************************)
(* The session.                                                            *)
(***************************************************************************)

\* What a flow has reached is known to the engine and to the client, and a
\* poll is of an order in the list.
FlowsAgree ==
  /\ poll \in mine \union {NoFlow}
  /\ \A f \in Flows :
       /\ run[f] \in {"depositing", "attesting", "done"} => f \in listedOrders
       /\ run[f] \in {"attesting", "done"} => f \in mine

\* An event of an order of the session follows its match, and a timer that
\* runs is of such an event.
EventsAgree ==
  /\ \A e \in DOMAIN events : events[e] # Strangers => fills[events[e]] > 0
  /\ \A e \in timers : events[e] # Strangers

\* As long as nothing is cached, nothing was answered.
CacheAgrees == cached = "none" => \A r \in Requests : request[r] \notin Answered200

SessionInv == SessionTypeOK /\ FlowsAgree /\ EventsAgree /\ SuccessIsMatched /\ CacheAgrees

LEMMA SessionStarts == SessionInit => SessionInv
  BY DEF SessionInit, AttestationInit, SessionInv, SessionTypeOK, AttestationTypeOK, FlowsAgree,
     EventsAgree, SuccessIsMatched, CacheAgrees, MAX_FILLS, Answered200

\* The endpoint alone.
LEMMA AttestationKeeps ==
  ASSUME AttestationTypeOK, CacheAgrees,
         (\E r \in Requests : AskAttestation(r)) \/ AttestationStep \/ Expire
  PROVE AttestationTypeOK' /\ CacheAgrees'
<1>1. ASSUME NEW r \in Requests, AskAttestation(r) PROVE AttestationTypeOK' /\ CacheAgrees'
  BY <1>1 DEF AskAttestation, Usable, AttestationTypeOK, CacheAgrees, InProgress, Answer, Answered200
<1>2. ASSUME NEW r \in Requests, TakeLock(r) PROVE AttestationTypeOK' /\ CacheAgrees'
  BY <1>2 DEF TakeLock, Usable, AttestationTypeOK, CacheAgrees, InProgress, Answer, Answered200
<1>3. ASSUME NEW r \in Requests, NEW outcome, EndVerification(r, outcome)
      PROVE AttestationTypeOK' /\ CacheAgrees'
  BY <1>3 DEF EndVerification, AttestationTypeOK, CacheAgrees, InProgress, Answer, Answered200
<1>4. CASE Expire
  BY <1>4 DEF Expire, AttestationTypeOK, CacheAgrees, InProgress, Answer, Answered200
<1>5. QED BY <1>1, <1>2, <1>3, <1>4 DEF AttestationStep

\* The client's own steps and the engine's leave the endpoint alone.
LEMMA ClientKeeps ==
  ASSUME SessionInv, UNCHANGED attestationVars,
         \/ Submit \/ ResetFlow \/ PollTick
         \/ \E f \in Flows : Confirm(f) \/ Approved(f) \/ Created(f) \/ Deposited(f) \/ FlowFails(f)
                             \/ Attested(f) \/ StatusFilled(f) \/ StatusUnknown(f)
  PROVE SessionInv'
<1> USE DEF SessionInv, SessionTypeOK, FlowsAgree, EventsAgree, SuccessIsMatched, Running,
     engineVars, NoFlow
<1>0. AttestationTypeOK' /\ CacheAgrees'
  BY DEF AttestationTypeOK, CacheAgrees, attestationVars
<1>1. CASE Submit BY <1>0, <1>1 DEF Submit
<1>2. CASE ResetFlow BY <1>0, <1>2 DEF ResetFlow
<1>3. CASE PollTick BY <1>0, <1>3 DEF PollTick
<1>4. ASSUME NEW f \in Flows, Confirm(f) PROVE SessionInv' BY <1>0, <1>4 DEF Confirm
<1>5. ASSUME NEW f \in Flows, Approved(f) PROVE SessionInv' BY <1>0, <1>5 DEF Approved
<1>6. ASSUME NEW f \in Flows, Created(f) PROVE SessionInv' BY <1>0, <1>6 DEF Created
<1>7. ASSUME NEW f \in Flows, Deposited(f) PROVE SessionInv' BY <1>0, <1>7 DEF Deposited
<1>8. ASSUME NEW f \in Flows, FlowFails(f) PROVE SessionInv' BY <1>0, <1>8 DEF FlowFails
<1>9. ASSUME NEW f \in Flows, Attested(f) PROVE SessionInv' BY <1>0, <1>9 DEF Attested
<1>10. ASSUME NEW f \in Flows, StatusFilled(f) PROVE SessionInv' BY <1>0, <1>10 DEF StatusFilled
<1>11. ASSUME NEW f \in Flows, StatusUnknown(f) PROVE SessionInv' BY <1>0, <1>11 DEF StatusUnknown
<1>12. QED BY <1>1, <1>2, <1>3, <1>4, <1>5, <1>6, <1>7, <1>8, <1>9, <1>10, <1>11

\* Orders, matches and their events.
LEMMA EventsKeep ==
  ASSUME SessionInv, UNCHANGED attestationVars,
         \/ \E f \in Flows : CreateOrder(f) \/ Match(f)
         \/ MatchStrangers
         \/ \E e \in DOMAIN events : Receive(e) \/ TimerFires(e)
  PROVE SessionInv'
<1> USE DEF SessionInv, SessionTypeOK, FlowsAgree, EventsAgree, SuccessIsMatched, clientVars,
     engineVars, NoFlow, MAX_FILLS
<1>0. AttestationTypeOK' /\ CacheAgrees'
  BY DEF AttestationTypeOK, CacheAgrees, attestationVars
<1>1. ASSUME NEW f \in Flows, CreateOrder(f) PROVE SessionInv' BY <1>0, <1>1 DEF CreateOrder
<1>2. ASSUME NEW f \in Flows, Match(f) PROVE SessionInv' BY <1>0, <1>2 DEF Match, Announce
<1>3. CASE MatchStrangers BY <1>0, <1>3 DEF MatchStrangers, Announce, Strangers
<1>4. ASSUME NEW e \in DOMAIN events, Receive(e) PROVE SessionInv'
  BY <1>0, <1>4 DEF Receive, ConcernsMe
<1>5. ASSUME NEW e \in DOMAIN events, TimerFires(e) PROVE SessionInv'
  BY <1>0, <1>5 DEF TimerFires
<1>6. QED BY <1>1, <1>2, <1>3, <1>4, <1>5

\* The endpoint's steps leave the client and the engine alone.
LEMMA EndpointKeeps ==
  ASSUME SessionInv, UNCHANGED <<clientVars, engineVars>>,
         (\E r \in Requests : AskAttestation(r)) \/ AttestationStep \/ Expire
  PROVE SessionInv'
  BY AttestationKeeps
  DEF SessionInv, SessionTypeOK, FlowsAgree, EventsAgree, SuccessIsMatched, clientVars, engineVars

LEMMA SessionStep == SessionInv /\ [SessionNext]_sessionVars => SessionInv'
<1> SUFFICES ASSUME SessionInv, [SessionNext]_sessionVars PROVE SessionInv'
  OBVIOUS
<1>1. CASE UNCHANGED sessionVars
  BY <1>1 DEF SessionInv, SessionTypeOK, AttestationTypeOK, FlowsAgree, EventsAgree,
     SuccessIsMatched, CacheAgrees, sessionVars, clientVars, engineVars, attestationVars
<1>2. CASE Submit \/ ResetFlow \/ PollTick
  BY <1>2, ClientKeeps DEF Submit, ResetFlow, PollTick
<1>3. ASSUME NEW f \in Flows,
             Confirm(f) \/ Approved(f) \/ Created(f) \/ Deposited(f) \/ FlowFails(f)
             \/ Attested(f) \/ StatusFilled(f) \/ StatusUnknown(f)
      PROVE SessionInv'
  <2>1. UNCHANGED attestationVars
    BY <1>3 DEF Confirm, Approved, Created, Deposited, FlowFails, Attested, StatusFilled, StatusUnknown
  <2>2. QED BY <1>3, <2>1, ClientKeeps
<1>4. ASSUME NEW f \in Flows, CreateOrder(f) \/ Match(f) PROVE SessionInv'
  BY <1>4, EventsKeep DEF CreateOrder, Match
<1>5. CASE MatchStrangers
  BY <1>5, EventsKeep DEF MatchStrangers
<1>6. ASSUME NEW e \in DOMAIN events, Receive(e) \/ TimerFires(e) PROVE SessionInv'
  BY <1>6, EventsKeep DEF Receive, TimerFires
<1>7. ASSUME NEW f \in Flows, RequestAttestation(f) PROVE SessionInv'
  BY <1>7, EndpointKeeps, RequestsAssumption DEF RequestAttestation
<1>8. ASSUME NEW r \in Requests, RequestByOthers(r) PROVE SessionInv'
  BY <1>8, EndpointKeeps DEF RequestByOthers
<1>9. CASE Verify \/ ExpireAttestation
  BY <1>9, EndpointKeeps DEF Verify, ExpireAttestation
<1>10. QED BY <1>1, <1>2, <1>3, <1>4, <1>5, <1>6, <1>7, <1>8, <1>9 DEF SessionNext

(***************************************************************************)
(* The notifications.                                                      *)
(***************************************************************************)

BroadcastType ==
  [state : {"sending", "done", "aborted"}, targets : Seq(Conns), next : Nat \ {0}, got : SUBSET Conns]

ListTyped == listed \in Seq(Conns) /\ IsInjective(listed)

\* A connection that was never open is in no list, and one whose handler has
\* ended has been taken off the list.
ListAgrees ==
  /\ \A c \in ToSet(listed) : link[c] \notin {"new", "closed"}
  /\ \A i \in DOMAIN broadcast : \A c \in ToSet(broadcast[i].targets) : link[c] # "new"

\* Where a broadcast stands: who was passed and is still there was reached.
Progress(b) ==
  /\ b.next <= Len(b.targets) + 1
  /\ b.state = "aborted" => b.next <= Len(b.targets)
  /\ \A i \in 1..Len(b.targets) :
       i < b.next /\ link[b.targets[i]] = "open" => b.targets[i] \in b.got

\* What ReportReaches says of one broadcast.
Reaches(b) ==
  /\ b.state = "done" => {c \in ToSet(b.targets) : link[c] = "open"} \subseteq b.got
  /\ b.state = "aborted" =>
       link[b.targets[b.next]] # "open" /\ b.targets[b.next] \notin ToSet(listed)

BroadcastsAgree ==
  /\ broadcast \in Seq(BroadcastType)
  /\ \A i \in DOMAIN broadcast : Progress(broadcast[i]) /\ Reaches(broadcast[i])

LinkTyped == link \in [Conns -> {"new", "open", "gone", "closed"}]

NotificationsInv == LinkTyped /\ ListTyped /\ ListAgrees /\ BroadcastsAgree

LEMMA NotificationsStart == NotificationsInit => NotificationsInv
  BY DEF NotificationsInit, NotificationsInv, LinkTyped, ListTyped, ListAgrees, BroadcastsAgree,
     IsInjective, ToSet

LEMMA InvImplies == NotificationsInv => NotificationsTypeOK /\ ReportReaches
<1> SUFFICES ASSUME NotificationsInv PROVE NotificationsTypeOK /\ ReportReaches
  OBVIOUS
<1>1. ReportReaches
  BY DEF NotificationsInv, BroadcastsAgree, Reaches, ReportReaches
<1>2. ToSet(listed) \subseteq Conns
  BY DEF NotificationsInv, ListTyped, ToSet
<1>3. \A b \in DOMAIN broadcast : broadcast[b] \in BroadcastType
  BY DEF NotificationsInv, BroadcastsAgree
<1>4. \A b \in DOMAIN broadcast :
        broadcast[b].state \in {"sending", "done", "aborted"} /\ broadcast[b].got \subseteq Conns
  BY <1>3 DEF BroadcastType
<1>5. QED
  BY <1>1, <1>2, <1>4 DEF NotificationsInv, LinkTyped, ListTyped, NotificationsTypeOK

\* Removing from a list without repetitions takes off the one element.
LEMMA RemoveAtIs ==
  ASSUME NEW S, NEW s \in Seq(S), NEW k \in 1..Len(s)
  PROVE /\ RemoveAt(s, k) \in Seq(S)
        /\ Len(RemoveAt(s, k)) = Len(s) - 1
        /\ \A i \in 1..(Len(s) - 1) : RemoveAt(s, k)[i] = IF i < k THEN s[i] ELSE s[i + 1]
<1> DEFINE front == SubSeq(s, 1, k - 1)
           back == SubSeq(s, k + 1, Len(s))
<1>1. front \in Seq(S) /\ Len(front) = k - 1 /\ \A i \in 1..(k - 1) : front[i] = s[i]
  OBVIOUS
<1>2. back \in Seq(S) /\ Len(back) = Len(s) - k /\ \A i \in 1..(Len(s) - k) : back[i] = s[k + i]
  <2>1. k + 1 \in Nat /\ Len(s) \in Nat /\ k + 1 <= Len(s) + 1 OBVIOUS
  <2>2. back \in Seq(S)
    <3>1. \A i \in (k + 1)..Len(s) : s[i] \in S BY <2>1
    <3>2. QED BY <2>1, <3>1, SubSeqProperties
  <2>3. Len(back) = Len(s) - k BY <2>1
  <2>4. \A i \in 1..(Len(s) - k) : back[i] = s[k + i] BY <2>1
  <2>5. QED BY <2>2, <2>3, <2>4
<1>3. RemoveAt(s, k) = front \o back
  BY DEF RemoveAt
<1> HIDE DEF front, back
<1>4. RemoveAt(s, k) \in Seq(S) /\ Len(RemoveAt(s, k)) = Len(s) - 1
  BY <1>1, <1>2, <1>3
<1>5. ASSUME NEW i \in 1..(Len(s) - 1), i < k PROVE RemoveAt(s, k)[i] = s[i]
  BY <1>1, <1>2, <1>3, <1>5
<1>6. ASSUME NEW i \in 1..(Len(s) - 1), ~(i < k) PROVE RemoveAt(s, k)[i] = s[i + 1]
  <2>1. i - (k - 1) \in 1..(Len(s) - k) /\ k + (i - (k - 1)) = i + 1 BY <1>6
  <2>2. (front \o back)[i] = back[i - (k - 1)] BY <1>1, <1>2, <1>6
  <2>3. QED BY <1>2, <1>3, <2>1, <2>2
<1>7. QED BY <1>4, <1>5, <1>6

LEMMA UnlistedIs ==
  ASSUME ListTyped, NEW c \in Conns
  PROVE /\ Unlisted(c) \in Seq(Conns) /\ IsInjective(Unlisted(c))
        /\ ToSet(Unlisted(c)) = ToSet(listed) \ {c}
<1>1. CASE \A i \in 1..Len(listed) : listed[i] # c
  <2>1. Unlisted(c) = listed BY <1>1 DEF Unlisted, RemoveFirst
  <2>2. c \notin ToSet(listed) BY <1>1 DEF ToSet, ListTyped
  <2>3. QED BY <2>1, <2>2 DEF ListTyped
<1>2. ASSUME NEW k \in 1..Len(listed), listed[k] = c
      PROVE /\ Unlisted(c) \in Seq(Conns) /\ IsInjective(Unlisted(c))
            /\ ToSet(Unlisted(c)) = ToSet(listed) \ {c}
  <2>1. {i \in 1..Len(listed) : listed[i] = c} = {k}
    BY <1>2 DEF ListTyped, IsInjective
  <2>2. SelectInSeq(listed, LAMBDA v : v = c) = k
    <3>1. SelectInSeq(listed, LAMBDA v : v = c) = Min({k})
      BY <2>1 DEF SelectInSeq
    <3>2. Min({k}) = k
      BY DEF Min
    <3>3. QED BY <3>1, <3>2
  <2>3. Unlisted(c) = RemoveAt(listed, k)
    BY <1>2, <2>2 DEF Unlisted, RemoveFirst
  <2> DEFINE t == RemoveAt(listed, k)
  <2>4. /\ t \in Seq(Conns) /\ Len(t) = Len(listed) - 1
        /\ \A i \in 1..(Len(listed) - 1) : t[i] = IF i < k THEN listed[i] ELSE listed[i + 1]
    BY RemoveAtIs DEF ListTyped
  <2> HIDE DEF t
  <2>5. IsInjective(t)
    <3>1. SUFFICES ASSUME NEW i \in 1..Len(t), NEW j \in 1..Len(t), t[i] = t[j] PROVE i = j
      BY <2>4 DEF IsInjective
    <3> DEFINE at(h) == IF h < k THEN h ELSE h + 1
    <3>2. at(i) \in 1..Len(listed) /\ at(j) \in 1..Len(listed)
      BY <2>4 DEF ListTyped
    <3>3. listed[at(i)] = listed[at(j)]
      BY <2>4, <3>1
    <3>4. at(i) = at(j)
      BY <3>2, <3>3 DEF IsInjective, ListTyped
    <3>5. QED BY <2>4, <3>4 DEF ListTyped
  <2>6. ToSet(t) \subseteq ToSet(listed) \ {c}
    BY <1>2, <2>4 DEF IsInjective, ListTyped, ToSet
  <2>7. ASSUME NEW i \in 1..Len(listed), listed[i] # c PROVE listed[i] \in ToSet(t)
    <3>1. CASE i < k BY <1>2, <2>4, <3>1 DEF ListTyped, ToSet
    <3>2. CASE i > k
      <4>1. i - 1 \in 1..(Len(listed) - 1) /\ ~(i - 1 < k) BY <3>2 DEF ListTyped
      <4>2. t[i - 1] = listed[i] BY <2>4, <4>1
      <4>3. QED BY <2>4, <4>1, <4>2 DEF ToSet
    <3>3. QED BY <1>2, <2>7, <3>1, <3>2 DEF ListTyped
  <2>8. ToSet(listed) \ {c} \subseteq ToSet(t)
    BY <2>7 DEF ListTyped, ToSet
  <2>9. t = Unlisted(c)
    BY <2>3 DEF t
  <2>10. QED BY <2>4, <2>5, <2>6, <2>8, <2>9
<1>3. QED BY <1>1, <1>2

\* Connections come and go: none is open again, and only new ones are listed.
LEMMA LinksKeep ==
  ASSUME NotificationsInv, LinkTyped', UNCHANGED broadcast,
         \A c \in Conns : link[c] # "new" => link'[c] # "new" /\ (link'[c] = "open" => link[c] = "open"),
         \A c \in ToSet(listed') : c \in ToSet(listed) \/ link[c] = "new"
  PROVE /\ BroadcastsAgree'
        /\ \A i \in DOMAIN broadcast' : \A c \in ToSet(broadcast'[i].targets) : link'[c] # "new"
<1> SUFFICES ASSUME NEW i \in DOMAIN broadcast
             PROVE /\ Progress(broadcast[i])' /\ Reaches(broadcast[i])'
                   /\ \A c \in ToSet(broadcast[i].targets) : link'[c] # "new"
  BY DEF NotificationsInv, BroadcastsAgree
<1> DEFINE b == broadcast[i]
<1>1. b \in BroadcastType /\ Progress(b) /\ Reaches(b) /\ b' = b
  BY DEF NotificationsInv, BroadcastsAgree
<1>2. ToSet(b.targets) \subseteq Conns /\ \A c \in ToSet(b.targets) : link[c] # "new"
  BY <1>1 DEF NotificationsInv, ListAgrees, BroadcastType, ToSet
<1>3. \A j \in 1..Len(b.targets) : b.targets[j] \in ToSet(b.targets)
  BY <1>1 DEF BroadcastType, ToSet
<1>4. b.next \in Nat \ {0} /\ Len(b.targets) \in Nat
  BY <1>1 DEF BroadcastType
<1>5. Progress(b)'
  BY <1>1, <1>2, <1>3 DEF Progress
<1>6. Reaches(b)'
  <2>1. CASE b.state = "done"
    BY <1>1, <1>2, <2>1 DEF Reaches
  <2>2. CASE b.state = "aborted"
    <3>1. b.next \in 1..Len(b.targets) BY <1>1, <1>4, <2>2 DEF Progress
    <3>2. b.targets[b.next] \in ToSet(b.targets) BY <1>3, <3>1
    <3>3. QED BY <1>1, <1>2, <2>2, <3>2 DEF Reaches
  <2>3. QED BY <1>1, <2>1, <2>2 DEF Reaches
<1>7. QED BY <1>2, <1>5, <1>6

LEMMA ConnectKeeps == ASSUME NotificationsInv, NEW c \in Conns, Connect(c) PROVE NotificationsInv'
<1> USE DEF NotificationsInv
<1>1. LinkTyped' BY DEF Connect, LinkTyped
<1>2. c \notin ToSet(listed) BY DEF Connect, ListAgrees
<1>3. ListTyped' /\ ToSet(listed') = ToSet(listed) \union {c}
  BY <1>2 DEF Connect, ListTyped, IsInjective, ToSet
<1>4. BroadcastsAgree' /\ \A i \in DOMAIN broadcast' : \A d \in ToSet(broadcast'[i].targets) : link'[d] # "new"
  BY <1>1, <1>3, LinksKeep DEF Connect, LinkTyped
<1>5. ToSet(listed) \subseteq Conns BY DEF ListTyped, ToSet
<1>6. ListAgrees' BY <1>3, <1>4, <1>5 DEF Connect, ListAgrees, LinkTyped
<1>7. QED BY <1>1, <1>3, <1>4, <1>6

LEMMA DropKeeps == ASSUME NotificationsInv, NEW c \in Conns, Drop(c) PROVE NotificationsInv'
<1> USE DEF NotificationsInv
<1>1. LinkTyped' BY DEF Drop, LinkTyped
<1>2. BroadcastsAgree' /\ \A i \in DOMAIN broadcast' : \A d \in ToSet(broadcast'[i].targets) : link'[d] # "new"
  BY <1>1, LinksKeep DEF Drop, LinkTyped
<1>3. ToSet(listed) \subseteq Conns BY DEF ListTyped, ToSet
<1>4. ListTyped' /\ ListAgrees' BY <1>2, <1>3 DEF Drop, ListTyped, ListAgrees, LinkTyped
<1>5. QED BY <1>1, <1>2, <1>4

LEMMA EndHandlerKeeps == ASSUME NotificationsInv, NEW c \in Conns, EndHandler(c) PROVE NotificationsInv'
<1> USE DEF NotificationsInv
<1>1. LinkTyped' BY DEF EndHandler, LinkTyped
<1>2. listed' = Unlisted(c) BY DEF EndHandler
<1>3. ListTyped' /\ ToSet(listed') = ToSet(listed) \ {c}
  BY <1>2, UnlistedIs DEF ListTyped
<1>4. BroadcastsAgree' /\ \A i \in DOMAIN broadcast' : \A d \in ToSet(broadcast'[i].targets) : link'[d] # "new"
  BY <1>1, <1>3, LinksKeep DEF EndHandler, LinkTyped
<1>5. ToSet(listed) \subseteq Conns BY DEF ListTyped, ToSet
<1>6. ListAgrees' BY <1>3, <1>4, <1>5 DEF EndHandler, ListAgrees, LinkTyped
<1>7. QED BY <1>1, <1>3, <1>4, <1>6

LEMMA BeginKeeps == ASSUME NotificationsInv, Begin PROVE NotificationsInv'
<1> USE DEF NotificationsInv
<1> DEFINE x == [state |-> "sending", targets |-> listed, next |-> 1, got |-> {}]
<1>1. x \in BroadcastType
  BY DEF BroadcastType, ListTyped
<1>2. Len(listed) \in Nat /\ x.state = "sending" /\ x.targets = listed /\ x.next = 1
  BY DEF ListTyped
<1>3. Progress(x) /\ Reaches(x)
  BY <1>2 DEF Progress, Reaches
<1> HIDE DEF x
<1>4. broadcast \in Seq(BroadcastType) /\ broadcast' = Append(broadcast, x)
      /\ link' = link /\ listed' = listed
  BY DEF Begin, x, BroadcastsAgree
<1>5. /\ broadcast' \in Seq(BroadcastType) /\ DOMAIN broadcast' = 1..(Len(broadcast) + 1)
      /\ \A i \in 1..Len(broadcast) : broadcast'[i] = broadcast[i]
      /\ broadcast'[Len(broadcast) + 1] = x
  BY <1>1, <1>4
<1>6. LinkTyped' /\ ListTyped'
  BY <1>4 DEF LinkTyped, ListTyped
<1>7. ASSUME NEW i \in DOMAIN broadcast'
      PROVE /\ Progress(broadcast'[i]) /\ Reaches(broadcast'[i])
            /\ \A c \in ToSet(broadcast'[i].targets) : link[c] # "new"
  <2>1. CASE i \in 1..Len(broadcast)
    BY <1>4, <1>5, <2>1 DEF BroadcastsAgree, ListAgrees
  <2>2. CASE i = Len(broadcast) + 1
    BY <1>2, <1>3, <1>5, <2>2 DEF ListAgrees
  <2>3. QED BY <1>4, <1>5, <2>1, <2>2
<1>8. BroadcastsAgree' /\ ListAgrees'
  BY <1>4, <1>5, <1>7 DEF BroadcastsAgree, ListAgrees, Progress, Reaches
<1>9. QED BY <1>6, <1>8

\* What it takes for a step of a broadcast.
LEMMA StepKeeps ==
  ASSUME NotificationsInv, NEW b \in DOMAIN broadcast, NEW x \in BroadcastType,
         broadcast' = [broadcast EXCEPT ![b] = x], link' = link,
         ListTyped', ToSet(listed') \subseteq ToSet(listed),
         x.targets = broadcast[b].targets, Progress(x), Reaches(x)'
  PROVE NotificationsInv'
<1> USE DEF NotificationsInv
<1>1. /\ broadcast' \in Seq(BroadcastType) /\ DOMAIN broadcast' = DOMAIN broadcast
      /\ broadcast'[b] = x /\ \A i \in DOMAIN broadcast : i # b => broadcast'[i] = broadcast[i]
  BY DEF BroadcastsAgree
<1>2. LinkTyped' BY DEF LinkTyped
<1>3. ListAgrees' BY <1>1 DEF ListAgrees
<1>4. ASSUME NEW i \in DOMAIN broadcast' PROVE Progress(broadcast[i])' /\ Reaches(broadcast[i])'
  <2>1. CASE i = b BY <1>1, <2>1 DEF Progress, Reaches
  <2>2. CASE i # b
    BY <1>1, <2>2 DEF BroadcastsAgree, Progress, Reaches
  <2>3. QED BY <2>1, <2>2
<1>5. BroadcastsAgree' BY <1>1, <1>4 DEF BroadcastsAgree
<1>6. QED BY <1>2, <1>3, <1>5

\* The target of a broadcast that is sending.
LEMMA TargetIs ==
  ASSUME NotificationsInv, NEW b \in DOMAIN broadcast, Sending(b)
  PROVE /\ broadcast[b] \in BroadcastType /\ Progress(broadcast[b])
        /\ broadcast[b].state = "sending"
        /\ broadcast[b].next \in 1..Len(broadcast[b].targets)
        /\ Target(b) = broadcast[b].targets[broadcast[b].next]
        /\ Target(b) \in Conns
<1>1. broadcast[b] \in BroadcastType /\ Progress(broadcast[b])
  BY DEF NotificationsInv, BroadcastsAgree
<1>2. broadcast[b].targets \in Seq(Conns) /\ broadcast[b].next \in Nat \ {0}
  BY <1>1 DEF BroadcastType
<1>3. broadcast[b].next <= Len(broadcast[b].targets)
  BY DEF Sending, Targets
<1>4. QED BY <1>1, <1>2, <1>3 DEF Sending, Target, Targets

\* Passing a target that was reached, or that is gone.
LEMMA PassKeeps ==
  ASSUME NotificationsInv, NEW b \in DOMAIN broadcast, Sending(b),
         NEW got \in SUBSET Conns, broadcast[b].got \subseteq got,
         link[Target(b)] = "open" => Target(b) \in got,
         Pass(b, got), link' = link, ListTyped', ToSet(listed') \subseteq ToSet(listed)
  PROVE NotificationsInv'
<1>1. PICK x : x = [broadcast[b] EXCEPT !.next = broadcast[b].next + 1, !.got = got]
  OBVIOUS
<1>2. /\ broadcast[b] \in BroadcastType /\ Progress(broadcast[b])
      /\ broadcast[b].state = "sending"
      /\ broadcast[b].next \in 1..Len(broadcast[b].targets)
      /\ Target(b) = broadcast[b].targets[broadcast[b].next]
  BY TargetIs
<1>3. x \in BroadcastType
  <2>1. broadcast[b].next + 1 \in Nat \ {0}
    BY <1>2
  <2>2. PICK n \in Nat \ {0} : n = broadcast[b].next + 1
    BY <2>1
  <2>3. QED BY <1>1, <1>2, <2>2 DEF BroadcastType
<1>4. /\ x.targets = broadcast[b].targets /\ x.state = "sending" /\ x.got = got
      /\ x.next = broadcast[b].next + 1
  BY <1>1, <1>2 DEF BroadcastType
<1>5. broadcast' = [broadcast EXCEPT ![b] = x]
  BY <1>1, <1>2 DEF Pass, NotificationsInv, BroadcastsAgree, BroadcastType
<1>6. Progress(x)
  <2>1. broadcast[b].next \in Nat /\ Len(x.targets) \in Nat
    BY <1>2, <1>3 DEF BroadcastType
  <2>2. QED BY <1>2, <1>4, <2>1 DEF Progress
<1>7. Reaches(x)'
  BY <1>4 DEF Reaches
<1>8. QED BY <1>3, <1>4, <1>5, <1>6, <1>7, StepKeeps

LEMMA SendKeeps == ASSUME NotificationsInv, NEW b \in DOMAIN broadcast, Send(b) PROVE NotificationsInv'
<1>1. PICK got : got = broadcast[b].got \union {c \in {Target(b)} : link[c] = "open"}
  OBVIOUS
<1>2. Sending(b) /\ link' = link /\ listed' = listed /\ Pass(b, got)
  BY <1>1 DEF Send
<1>3. broadcast[b] \in BroadcastType /\ Target(b) \in Conns
  BY <1>2, TargetIs
<1>4. /\ got \in SUBSET Conns /\ broadcast[b].got \subseteq got
      /\ link[Target(b)] = "open" => Target(b) \in got
  BY <1>1, <1>3 DEF BroadcastType
<1>5. ListTyped' /\ ToSet(listed') \subseteq ToSet(listed)
  BY <1>2 DEF NotificationsInv, ListTyped
<1>6. QED BY <1>2, <1>4, <1>5, PassKeeps

\* A connection whose send raised is passed and off the list.
LEMMA RemovalKeeps ==
  ASSUME NotificationsInv, NEW b \in DOMAIN broadcast, Sending(b), link[Target(b)] # "open",
         Pass(b, broadcast[b].got), link' = link, listed' = Unlisted(Target(b))
  PROVE NotificationsInv'
<1>1. PICK got : got = broadcast[b].got
  OBVIOUS
<1>2. broadcast[b] \in BroadcastType /\ Target(b) \in Conns
  BY TargetIs
<1>3. got \in SUBSET Conns
  BY <1>1, <1>2 DEF BroadcastType
<1>4. ListTyped' /\ ToSet(listed') \subseteq ToSet(listed)
  <2>1. ListTyped BY DEF NotificationsInv
  <2>2. QED BY <1>2, <2>1, UnlistedIs DEF ListTyped
<1>5. Pass(b, got) BY <1>1
<1>6. QED BY <1>1, <1>3, <1>4, <1>5, PassKeeps

\* Any step of a broadcast after which it goes no further.
LEMMA StopKeeps ==
  ASSUME NotificationsInv, NEW b \in DOMAIN broadcast, NEW state \in {"done", "aborted"},
         broadcast[b].state = "sending", broadcast' = [broadcast EXCEPT ![b].state = state],
         IF state = "aborted"
         THEN Sending(b) /\ link[Target(b)] # "open" /\ Target(b) \notin ToSet(listed')
         ELSE ~Sending(b),
         link' = link, ListTyped', ToSet(listed') \subseteq ToSet(listed)
  PROVE NotificationsInv'
<1>1. PICK x : x = [broadcast[b] EXCEPT !.state = state]
  OBVIOUS
<1>2. broadcast[b] \in BroadcastType /\ Progress(broadcast[b])
  BY DEF NotificationsInv, BroadcastsAgree
<1>3. x \in BroadcastType
  BY <1>1, <1>2 DEF BroadcastType
<1>4. /\ x.targets = broadcast[b].targets /\ x.state = state /\ x.got = broadcast[b].got
      /\ x.next = broadcast[b].next
  BY <1>1, <1>2 DEF BroadcastType
<1>5. broadcast' = [broadcast EXCEPT ![b] = x]
  BY <1>1, <1>2 DEF NotificationsInv, BroadcastsAgree, BroadcastType
<1>6. x.next \in Nat \ {0} /\ x.targets \in Seq(Conns)
  BY <1>3 DEF BroadcastType
<1>7. Progress(x)
  BY <1>2, <1>4, <1>6 DEF Progress, Sending, Targets
<1>8. Reaches(x)'
  <2>1. CASE state = "aborted"
    <3>1. Target(b) = x.targets[x.next] BY <1>4 DEF Target, Targets
    <3>2. QED BY <1>4, <2>1, <3>1 DEF Reaches
  <2>2. CASE state = "done"
    <3>1. x.next = Len(x.targets) + 1
      BY <1>2, <1>4, <1>6, <2>2 DEF Progress, Sending, Targets
    <3>2. \A i \in 1..Len(x.targets) : link[x.targets[i]] = "open" => x.targets[i] \in x.got
      BY <1>6, <1>7, <3>1 DEF Progress
    <3>3. QED BY <1>4, <1>6, <2>2, <3>2 DEF Reaches, ToSet
  <2>3. QED BY <2>1, <2>2
<1>9. QED BY <1>3, <1>4, <1>5, <1>7, <1>8, StepKeeps

LEMMA SendDisconnectedKeeps ==
  ASSUME NotificationsInv, NEW b \in DOMAIN broadcast, SendDisconnected(b)
  PROVE NotificationsInv'
<1>1. /\ Sending(b) /\ link[Target(b)] # "open" /\ link' = link /\ listed' = Unlisted(Target(b))
      /\ broadcast[b].state = "sending"
  BY DEF SendDisconnected, Sending
<1>2. CASE Target(b) \in ToSet(listed)
  BY <1>1, <1>2, RemovalKeeps DEF SendDisconnected
<1>3. CASE Target(b) \notin ToSet(listed)
  <2>1. ListTyped /\ Target(b) \in Conns
    BY <1>1, TargetIs DEF NotificationsInv
  <2>2. ListTyped' /\ ToSet(listed') = ToSet(listed) \ {Target(b)}
    BY <1>1, <2>1, UnlistedIs DEF ListTyped
  <2>3. PICK state \in {"done", "aborted"} : state = "aborted"
    OBVIOUS
  <2>4. broadcast' = [broadcast EXCEPT ![b].state = state]
    BY <1>3, <2>3 DEF SendDisconnected
  <2>5. QED BY <1>1, <2>2, <2>3, <2>4, StopKeeps
<1>4. QED BY <1>2, <1>3

LEMMA EndKeeps == ASSUME NotificationsInv, NEW b \in DOMAIN broadcast, End(b) PROVE NotificationsInv'
<1>1. PICK state \in {"done", "aborted"} : state = "done"
  OBVIOUS
<1>2. /\ broadcast[b].state = "sending" /\ ~Sending(b) /\ link' = link /\ listed' = listed
      /\ broadcast' = [broadcast EXCEPT ![b].state = state]
  BY <1>1 DEF End
<1>3. ListTyped' /\ ToSet(listed') \subseteq ToSet(listed)
  BY <1>2 DEF NotificationsInv, ListTyped
<1>4. QED BY <1>1, <1>2, <1>3, StopKeeps

LEMMA NotificationsStep ==
  NotificationsInv /\ [NotificationsNext]_notificationVars => NotificationsInv'
<1> SUFFICES ASSUME NotificationsInv, [NotificationsNext]_notificationVars PROVE NotificationsInv'
  OBVIOUS
<1>1. CASE UNCHANGED notificationVars
  BY <1>1 DEF notificationVars, NotificationsInv, LinkTyped, ListTyped, ListAgrees, BroadcastsAgree,
     Progress, Reaches
<1>2. ASSUME NEW c \in Conns, Connect(c) \/ Drop(c) \/ EndHandler(c) PROVE NotificationsInv'
  BY <1>2, ConnectKeeps, DropKeeps, EndHandlerKeeps
<1>3. CASE Begin
  BY <1>3, BeginKeeps
<1>4. ASSUME NEW b \in DOMAIN broadcast, Send(b) \/ SendDisconnected(b) \/ SendFails(b) \/ End(b)
      PROVE NotificationsInv'
  BY <1>4, SendKeeps, SendDisconnectedKeeps, RemovalKeeps, EndKeeps DEF SendFails
<1>5. QED BY <1>1, <1>2, <1>3, <1>4 DEF NotificationsNext

(***************************************************************************)
(* Both sides.                                                             *)
(***************************************************************************)

IInv == SessionInv /\ NotificationsInv

LEMMA InvHolds == Spec => []IInv
<1>1. Init => IInv
  BY SessionStarts, NotificationsStart DEF Init, IInv
<1>2. IInv /\ [Next]_vars => IInv'
  BY SessionStep, NotificationsStep DEF IInv, Next, vars
<1>3. QED BY <1>1, <1>2, PTL DEF Spec

\* Types of both sides; what the client knows as an order is one the engine
\* has listed.
THEOREM TypeCorrect == Spec => []TypeOK
<1>1. IInv => TypeOK
  BY InvImplies DEF IInv, SessionInv, TypeOK
<1>2. QED BY <1>1, InvHolds, PTL

\* For any number of flows and events, the success page follows a fill of an
\* order of the session.
THEOREM SuccessFollowsMatch == Spec => []SuccessIsMatched
<1>1. IInv => SuccessIsMatched
  BY DEF IInv, SessionInv
<1>2. QED BY <1>1, InvHolds, PTL

\* For any number of connections and broadcasts, one that ends has reached
\* every client that stayed, and only the double removal of a client that is
\* gone cuts one short.
THEOREM BroadcastsReach == Spec => []ReportReaches
<1>1. IInv => ReportReaches
  BY InvImplies DEF IInv
<1>2. QED BY <1>1, InvHolds, PTL

\* For any number of requests, an error is only answered before the first
\* success, and an answer past its time only after a failure.
THEOREM AnswersHonest == Spec => AttestationHonest
<1> DEFINE Honest ==
      \A r \in Requests : request'[r] # request[r] =>
        /\ request'[r] = "expired" => request[r] = "verifying" /\ cached = "expired"
        /\ request'[r] = "error" => \A q \in Requests : request[q] \notin Answered200
<1>1. ASSUME IInv, NEW r \in Requests, AskAttestation(r) \/ TakeLock(r) PROVE Honest
  BY <1>1 DEF AskAttestation, TakeLock, Usable, IInv, SessionInv, SessionTypeOK, AttestationTypeOK
<1>2. ASSUME IInv, NEW r \in Requests, NEW outcome, EndVerification(r, outcome) PROVE Honest
  BY <1>2 DEF EndVerification, IInv, SessionInv, SessionTypeOK, AttestationTypeOK, CacheAgrees, Answered200
<1>3. ASSUME IInv, [Next]_vars PROVE [Honest]_sessionVars
  <2>1. request' = request => Honest
    OBVIOUS
  <2>2. CASE (\E r \in Requests : AskAttestation(r)) \/ AttestationStep
    BY <1>1, <1>2, <1>3, <2>2 DEF AttestationStep
  <2>3. request' = request \/ (\E r \in Requests : AskAttestation(r)) \/ AttestationStep
    <3>1. CASE UNCHANGED sessionVars
      BY <3>1 DEF sessionVars, attestationVars
    <3>2. CASE SessionNext
      BY <3>2, RequestsAssumption
      DEF SessionNext, Submit, ResetFlow, PollTick, Confirm, Approved, CreateOrder, Created,
          Deposited, FlowFails, RequestAttestation, Attested, StatusFilled, StatusUnknown, Match,
          Receive, TimerFires, MatchStrangers, RequestByOthers, Verify, ExpireAttestation, Expire,
          attestationVars
    <3>3. QED BY <1>3, <3>1, <3>2 DEF Next, vars, sessionVars
  <2>4. QED BY <2>1, <2>2, <2>3
<1>4. QED BY <1>3, InvHolds, PTL DEF AttestationHonest, Spec

=============================================================================
