--------------------------- MODULE ClientSession ---------------------------
(***************************************************************************)
(* A user's session: the order flow of the frontend (App.tsx, api.ts),     *)
(* composed with the engine's attestation endpoint.  The user starts one   *)
(* flow after another; the continuations of a flow (its awaits, timers,    *)
(* poll and requests) go on when its page has been left, and act on what   *)
(* the page shows by then.                                                 *)
(*                                                                         *)
(* Flow f creates order f.  The engine's part is what the client sees of   *)
(* it: orders are listed and matched in one or two fills, and a match is   *)
(* announced some time after the fill.  Of the notifications a client is   *)
(* promised nothing, so an event arrives at any time or never;             *)
(* Notifications shows what the engine does to deliver it.                 *)
(***************************************************************************)
EXTENDS AttestationCache

CONSTANTS
  MaxFlows,     \* bound on the flows of the session
  MaxEvents     \* bound on the matched events

VARIABLES
  flow,         \* flowState
  current,      \* currentOrderIdRef
  run,          \* where each startExecutionFlow is
  mine,         \* ids in myOrders
  poll,         \* the flow whose interval fallbackPollRef holds
  asking,       \* flows whose order status has been requested
  timers,       \* matched events whose two-second timers run
  listedOrders, \* orders in the engine's book
  fills,        \* how often each order was filled
  events,       \* the orders that the matched events are about
  underway      \* events that may still arrive

clientVars == <<flow, current, run, mine, poll, asking, timers>>
engineVars == <<listedOrders, fills, events, underway>>
sessionVars == <<clientVars, engineVars, attestationVars>>

Flows == 1..MaxFlows
NoFlow == 0

\* The request of the attestation by flow f is request f.
ASSUME RequestsAssumption == Flows \subseteq Requests

\* An event about nobody's order of this session.
Strangers == 0

MAX_FILLS == 2

\* Awaits of startExecutionFlow.
Running == {"approving", "creating", "depositing", "attesting"}

SessionInit ==
  /\ AttestationInit
  /\ flow = "idle" /\ current = NoFlow
  /\ run = [f \in Flows |-> "unstarted"]
  /\ mine = {} /\ poll = NoFlow /\ asking = {} /\ timers = {}
  /\ listedOrders = {} /\ fills = [f \in Flows |-> 0]
  /\ events = << >> /\ underway = {}

(***************************************************************************)
(* The user.  An overlay covers the page in every state but idle; it can   *)
(* be closed from the confirmation and from the success page.              *)
(***************************************************************************)

Submit ==
  /\ flow = "idle"
  /\ flow' = "confirm"
  /\ UNCHANGED <<current, run, mine, poll, asking, timers, engineVars, attestationVars>>

\* resetFlow: the running awaits, requests and success timers are not stopped.
ResetFlow ==
  /\ flow \in {"confirm", "success"}
  /\ flow' = "idle" /\ current' = NoFlow /\ poll' = NoFlow
  /\ UNCHANGED <<run, mine, asking, timers, engineVars, attestationVars>>

Confirm(f) ==
  /\ flow = "confirm"
  /\ run[f] = "unstarted" /\ \A g \in Flows : g < f => run[g] # "unstarted"
  /\ run' = [run EXCEPT ![f] = "approving"]
  /\ flow' = "approve"
  /\ UNCHANGED <<current, mine, poll, asking, timers, engineVars, attestationVars>>

(***************************************************************************)
(* startExecutionFlow.                                                     *)
(***************************************************************************)

Approved(f) ==
  /\ run[f] = "approving"
  /\ run' = [run EXCEPT ![f] = "creating"]
  /\ flow' = "deposit"
  /\ UNCHANGED <<current, mine, poll, asking, timers, engineVars, attestationVars>>

\* The engine lists the order; the response is on its way.
CreateOrder(f) ==
  /\ run[f] = "creating" /\ f \notin listedOrders
  /\ listedOrders' = listedOrders \union {f}
  /\ UNCHANGED <<clientVars, fills, events, underway, attestationVars>>

\* Mutant: the client numbers the order itself, without waiting.
CreatedAtOnce(f) ==
  /\ run[f] = "creating"
  /\ run' = [run EXCEPT ![f] = "depositing"]
  /\ current' = f
  /\ UNCHANGED <<flow, mine, poll, asking, timers, engineVars, attestationVars>>

Created(f) ==
  /\ run[f] = "creating" /\ f \in listedOrders
  /\ run' = [run EXCEPT ![f] = "depositing"]
  /\ current' = f
  /\ UNCHANGED <<flow, mine, poll, asking, timers, engineVars, attestationVars>>

\* The deposit is mined: the order joins the list, and the attestation is
\* requested.
Deposited(f) ==
  /\ run[f] = "depositing"
  /\ run' = [run EXCEPT ![f] = "attesting"]
  /\ mine' = mine \union {f}
  /\ flow' = "match"
  /\ UNCHANGED <<current, poll, asking, timers, engineVars, attestationVars>>

\* The user rejects, a transaction or the request fails, or its response is
\* lost after the order was listed.
FlowFails(f) ==
  /\ run[f] \in {"approving", "creating", "depositing"}
  /\ run' = [run EXCEPT ![f] = "failed"]
  /\ flow' = "confirm"
  /\ UNCHANGED <<current, mine, poll, asking, timers, engineVars, attestationVars>>

RequestAttestation(f) ==
  /\ run[f] = "attesting"
  /\ AskAttestation(f)
  /\ UNCHANGED <<clientVars, engineVars>>

\* Answered or failed, the flow goes on to replace the interval, even another
\* flow's.
Attested(f) ==
  /\ run[f] = "attesting" /\ request[f] \in Answer
  /\ run' = [run EXCEPT ![f] = "done"]
  /\ poll' = f
  /\ UNCHANGED <<flow, current, mine, asking, timers, engineVars, attestationVars>>

(***************************************************************************)
(* The poll, every five seconds.                                           *)
(***************************************************************************)

PollTick ==
  /\ poll # NoFlow
  /\ IF flow = "match" THEN asking' = asking \union {poll} /\ UNCHANGED poll
     ELSE poll' = NoFlow /\ UNCHANGED asking
  /\ UNCHANGED <<flow, current, run, mine, timers, engineVars, attestationVars>>

\* pollStatus and applyFilled, whichever flow is on show; the interval that
\* is cleared may be another one by now.
StatusFilled(f) ==
  /\ f \in asking /\ fills[f] > 0
  /\ asking' = asking \ {f}
  /\ flow' = "success" /\ poll' = NoFlow
  /\ UNCHANGED <<current, run, mine, timers, engineVars, attestationVars>>

\* Mutant: any answer ends the poll.
StatusUnknownStops(f) ==
  /\ f \in asking
  /\ asking' = asking \ {f}
  /\ poll' = NoFlow
  /\ UNCHANGED <<flow, current, run, mine, timers, engineVars, attestationVars>>

\* The request fails, or its answer was made before the order was filled.
StatusUnknown(f) ==
  /\ f \in asking
  /\ asking' = asking \ {f}
  /\ UNCHANGED <<flow, current, run, mine, poll, timers, engineVars, attestationVars>>

(***************************************************************************)
(* The websocket.                                                          *)
(***************************************************************************)

\* Mutant: an event about any order counts.
ConcernsMeAlways(about) == TRUE

ConcernsMe(about) == about # Strangers /\ about \in mine \union {current}

\* onMessage of a matched event: seen only while a flow waits for a match.
Receive(e) ==
  /\ e \in underway
  /\ underway' = underway \ {e}
  /\ IF flow = "match" /\ ConcernsMe(events[e])
     THEN timers' = timers \union {e} /\ poll' = NoFlow
     ELSE UNCHANGED <<timers, poll>>
  /\ UNCHANGED <<flow, current, run, mine, asking, listedOrders, fills, events, attestationVars>>

TimerFires(e) ==
  /\ e \in timers
  /\ timers' = timers \ {e}
  /\ flow' = "success"
  /\ UNCHANGED <<current, run, mine, poll, asking, engineVars, attestationVars>>

(***************************************************************************)
(* The engine.                                                             *)
(***************************************************************************)

Announce(f) ==
  /\ Len(events) < MaxEvents
  /\ events' = Append(events, f)
  /\ underway' = underway \union {Len(events) + 1}

Match(f) ==
  /\ f \in listedOrders /\ fills[f] < MAX_FILLS
  /\ fills' = [fills EXCEPT ![f] = @ + 1]
  /\ Announce(f)
  /\ UNCHANGED <<clientVars, listedOrders, attestationVars>>

MatchStrangers ==
  /\ Announce(Strangers)
  /\ UNCHANGED <<clientVars, listedOrders, fills, attestationVars>>

\* The success page, or another client, asks for the attestation too.
RequestByOthers(r) ==
  /\ AskAttestation(r)
  /\ UNCHANGED <<clientVars, engineVars>>

Verify ==
  /\ AttestationStep
  /\ UNCHANGED <<clientVars, engineVars>>

ExpireAttestation ==
  /\ Expire
  /\ UNCHANGED <<clientVars, engineVars>>

SessionNext ==
  \/ Submit
  \/ ResetFlow
  \/ \E f \in Flows :
       \/ Confirm(f) \/ Approved(f) \/ CreateOrder(f) \/ Created(f) \/ Deposited(f)
       \/ FlowFails(f) \/ RequestAttestation(f) \/ Attested(f)
       \/ StatusFilled(f) \/ StatusUnknown(f) \/ Match(f)
  \/ PollTick
  \/ \E e \in DOMAIN events : Receive(e) \/ TimerFires(e)
  \/ MatchStrangers
  \/ \E r \in Requests \ Flows : RequestByOthers(r)
  \/ Verify
  \/ ExpireAttestation

\* The browser runs timers, intervals and answered awaits, and sends what is
\* asked; the endpoint answers in bounded time, but which request gets the
\* lock next may vary; a status request that is asked again and again is
\* answered in the end.
SessionFairness ==
  /\ WF_sessionVars(PollTick)
  /\ WF_sessionVars(Verify)
  /\ \A e \in 1..MaxEvents : WF_sessionVars(TimerFires(e))
  /\ \A f \in Flows :
       /\ WF_sessionVars(RequestAttestation(f)) /\ WF_sessionVars(Attested(f))
       /\ SF_sessionVars(StatusFilled(f))

(***************************************************************************)
(* Properties.                                                             *)
(***************************************************************************)

\* Types; what the client knows as an order is one the engine has listed.
SessionTypeOK ==
  /\ AttestationTypeOK
  /\ flow \in {"idle", "confirm", "approve", "deposit", "match", "success"}
  /\ current \in listedOrders \union {NoFlow} /\ poll \in Flows \union {NoFlow}
  /\ run \in [Flows -> {"unstarted", "failed", "done"} \union Running]
  /\ mine \subseteq listedOrders /\ asking \subseteq mine
  /\ events \in Seq(Flows \union {Strangers})
  /\ timers \subseteq DOMAIN events /\ underway \subseteq DOMAIN events
  /\ listedOrders \subseteq Flows /\ fills \in [Flows -> 0..MAX_FILLS]

\* The success page is shown only when an order of this session was filled,
\* however events, poll answers, timers and pages of several flows interleave
\* (App.tsx lines 306-362 and 493-593).  It may be an earlier order's.
SuccessIsMatched == flow = "success" => \E f \in Flows : fills[f] > 0

\* A verification that was ever successful leaves an answer for later ones,
\* and an answer past its time is only given by a request whose own
\* verification failed (routes.py lines 125-167).
AttestationHonest ==
  [][\A r \in Requests : request'[r] # request[r] =>
       /\ request'[r] = "expired" => request[r] = "verifying" /\ cached = "expired"
       /\ request'[r] = "error" => \A q \in Requests : request[q] \notin Answered200]_sessionVars

\* No other flow's await may still replace the interval, and its own did or
\* will set it.
OwnPoll(f) ==
  /\ \A g \in Flows \ {f} : run[g] \notin Running
  /\ run[f] = "attesting" \/ poll = f \/ timers # {}

\* A match is shown, even when its event was missed: while the page waits for
\* order f and the order is filled, the page goes on in the end, unless an
\* earlier flow's await has replaced, or may yet replace, its poll.
MatchIsShown ==
  \A f \in Flows :
    (flow = "match" /\ current = f /\ fills[f] > 0 /\ OwnPoll(f)) ~> flow # "match"
=============================================================================
