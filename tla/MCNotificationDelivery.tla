----------------------- MODULE MCNotificationDelivery -----------------------
(* Small instances of NotificationDelivery.                                 *)
EXTENDS NotificationDelivery

CONSTANTS line, webhook, alert

\* One alert on two channels.
OneAlert == [n \in {line, webhook} |-> alert]

\* The program between two restarts.
Running == Init /\ [][Next /\ ~ApiRestart]_vars

=============================================================================
