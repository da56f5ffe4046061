------------------------------ MODULE MCClient ------------------------------
(***************************************************************************)
(* The two sides of what a client is told, checked side by side: a         *)
(* behaviour is one of the engine's notifications, or a session of a user. *)
(* The session takes from the notifications only that an event may arrive  *)
(* late or never, so their product would show nothing more.                *)
(***************************************************************************)
EXTENDS ClientSession, Notifications

vars == <<sessionVars, notificationVars>>

Init == SessionInit /\ NotificationsInit

\* Nothing has happened yet on a side.
NoSession == flow = "idle" /\ events = << >> /\ run = [f \in Flows |-> "unstarted"] /\ request = [r \in Requests |-> "unasked"]
NoNotification == broadcast = << >> /\ \A c \in Conns : link[c] = "new"

Next ==
  \/ SessionNext /\ NoNotification /\ UNCHANGED notificationVars
  \/ NotificationsNext /\ NoSession /\ UNCHANGED sessionVars

Spec == Init /\ [][Next]_vars /\ SessionFairness

\* Types of both sides.
TypeOK == SessionTypeOK /\ NotificationsTypeOK
=============================================================================
