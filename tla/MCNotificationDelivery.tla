----------------------- MODULE MCNotificationDelivery -----------------------
(* Small instances of NotificationDelivery for TLC. *)
EXTENDS NotificationDelivery, TLC

CONSTANTS m1, m2, active, resolved, incident

\* Two messages of one incident.
MCMessages == {m1, m2}
MCNotifications == {active, resolved}
MCSessions == {incident}
MCSessionOf == [m \in MCMessages |-> incident]

\* The activation of the incident and its resolution.
MCTransitions == (m1 :> active) @@ (m2 :> resolved)

\* The activation, sent twice.
MCRepeats == (m1 :> active) @@ (m2 :> active)

=============================================================================
