--------------------------- MODULE Notifications ---------------------------
(***************************************************************************)
(* The notifications of the engine (ws.py, the endpoint of routes.py): the *)
(* list of connections, the endpoint's handler that takes a connection off *)
(* it when the peer is gone, clients that reconnect (websocket.ts), and    *)
(* broadcasts, which await every send and so run interleaved with the      *)
(* handlers and with each other.                                           *)
(***************************************************************************)
EXTENDS Integers, FiniteSets, Sequences, SequencesExt

CONSTANTS
  Clients,        \* frontends, one websocket at a time each
  MaxConnects,    \* bound on the connections of a client
  MaxConnections, \* bound on the connections of all clients
  MaxBroadcasts   \* bound on broadcasts

VARIABLES
  link,        \* state of each connection
  listed,      \* ConnectionManager._connections
  broadcast    \* the broadcasts, in the order they began

notificationVars == <<link, listed, broadcast>>

Conns == Clients \X (1..MaxConnects)

NotificationsInit ==
  /\ link = [c \in Conns |-> "new"]
  /\ listed = << >>
  /\ broadcast = << >>

(***************************************************************************)
(* Connections.                                                            *)
(***************************************************************************)

\* A client connects, again after its last connection is gone; the endpoint
\* accepts, then lists it.
Connect(c) ==
  /\ link[c] = "new" /\ Cardinality({d \in Conns : link[d] # "new"}) < MaxConnections
  /\ \A d \in Conns : d[1] = c[1] /\ d[2] < c[2] => link[d] \in {"gone", "closed"}
  /\ link' = [link EXCEPT ![c] = "open"]
  /\ listed' = Append(listed, c)
  /\ UNCHANGED broadcast

\* The peer is gone; its handler has not been resumed yet.
Drop(c) ==
  /\ link[c] = "open"
  /\ link' = [link EXCEPT ![c] = "gone"]
  /\ UNCHANGED <<listed, broadcast>>

\* list.remove, which raises ValueError when c is not listed.
Unlisted(c) == RemoveFirst(listed, c)

\* receive_text raises, and the handler's finally calls disconnect.
EndHandler(c) ==
  /\ link[c] = "gone"
  /\ link' = [link EXCEPT ![c] = "closed"]
  /\ listed' = Unlisted(c)
  /\ UNCHANGED broadcast

(***************************************************************************)
(* Broadcasts.                                                             *)
(***************************************************************************)

\* broadcast: over a copy of the list; got is history, who was reached.
Begin ==
  /\ Len(broadcast) < MaxBroadcasts
  /\ broadcast' = Append(broadcast, [state |-> "sending", targets |-> listed, next |-> 1, got |-> {}])
  /\ UNCHANGED <<link, listed>>

\* Mutant: over the list itself.
TargetsLive(b) == listed

Targets(b) == broadcast[b].targets

Sending(b) == broadcast[b].state = "sending" /\ broadcast[b].next <= Len(Targets(b))

Target(b) == Targets(b)[broadcast[b].next]

\* On to the next connection.
Pass(b, got) == broadcast' = [broadcast EXCEPT ![b].next = @ + 1, ![b].got = got]

\* send_json returns; a message to a peer that is gone is lost.
Send(b) ==
  /\ Sending(b)
  /\ Pass(b, broadcast[b].got \union {c \in {Target(b)} : link[c] = "open"})
  /\ UNCHANGED <<link, listed>>

\* send_json raises RuntimeError or WebSocketDisconnect: removed without a
\* guard, so that a connection its handler has removed before ends the
\* broadcast with a ValueError.
SendDisconnected(b) ==
  /\ Sending(b)
  /\ link[Target(b)] # "open"
  /\ IF Target(b) \in ToSet(listed) THEN Pass(b, broadcast[b].got)
     ELSE broadcast' = [broadcast EXCEPT ![b].state = "aborted"]
  /\ listed' = Unlisted(Target(b))
  /\ UNCHANGED link

\* send_json raises anything else: removed if still there.
SendFails(b) ==
  /\ Sending(b)
  /\ link[Target(b)] # "open"
  /\ Pass(b, broadcast[b].got)
  /\ listed' = Unlisted(Target(b))
  /\ UNCHANGED link

End(b) ==
  /\ broadcast[b].state = "sending" /\ ~Sending(b)
  /\ broadcast' = [broadcast EXCEPT ![b].state = "done"]
  /\ UNCHANGED <<link, listed>>

NotificationsNext ==
  \/ \E c \in Conns : Connect(c) \/ Drop(c) \/ EndHandler(c)
  \/ Begin
  \/ \E b \in DOMAIN broadcast : Send(b) \/ SendDisconnected(b) \/ SendFails(b) \/ End(b)

(***************************************************************************)
(* Properties.                                                             *)
(***************************************************************************)

NotificationsTypeOK ==
  /\ link \in [Conns -> {"new", "open", "gone", "closed"}]
  /\ ToSet(listed) \subseteq Conns /\ IsInjective(listed)
  /\ \A b \in DOMAIN broadcast :
       /\ broadcast[b].state \in {"sending", "done", "aborted"}
       /\ broadcast[b].got \subseteq Conns

\* A broadcast that ends has reached every client that was connected when it
\* began and still is, whoever came or went meanwhile; one is cut short only
\* by a client that is gone and that its handler, or another broadcast, has
\* taken off the list before (ws.py lines 27-38).
ReportReaches ==
  \A i \in DOMAIN broadcast :
    LET b == broadcast[i]
        stayed == {c \in ToSet(b.targets) : link[c] = "open"}
    IN /\ b.state = "done" => stayed \subseteq b.got
       /\ b.state = "aborted" =>
            link[b.targets[b.next]] # "open" /\ b.targets[b.next] \notin ToSet(listed)
=============================================================================
