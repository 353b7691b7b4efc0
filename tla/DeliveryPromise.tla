--------------------------- MODULE DeliveryPromise ---------------------------
(***************************************************************************)
(* What the platform promises for one message, with no batch, thread, retry *)
(* table, loop or attempt limit in sight: a message that is not known to be  *)
(* sent is tried again for as long as it is kept; what is known is never     *)
(* sent again; only one that was never kept can get lost, and a kept one is  *)
(* given up only after an attempt that failed, and can be asked for again.   *)
(* The provider takes it twice only if one time went unnoticed.              *)
(* NotificationDelivery implements this.                                     *)
(***************************************************************************)
EXTENDS Naturals

CONSTANT Notices

VARIABLES
    phase,      \* what has become of each notice
    kept,       \* whether the platform has undertaken to retry it
    arrived,    \* how often the provider has taken it
    unnoticed   \* how often it did and the platform does not know

vars == <<phase, kept, arrived, unnoticed>>

Attempt == {"sending", "accepted", "refused"}
Phases  == {"new", "owed", "known", "given up", "lost"} \cup Attempt

TypeOK ==
    /\ phase \in [Notices -> Phases]
    /\ kept \in [Notices -> BOOLEAN]
    /\ arrived \in [Notices -> Nat]
    /\ unnoticed \in [Notices -> Nat]

Init ==
    /\ phase = [n \in Notices |-> "new"]
    /\ kept = [n \in Notices |-> FALSE]
    /\ arrived = [n \in Notices |-> 0]
    /\ unnoticed = [n \in Notices |-> 0]

Becomes(n, before, after) == phase[n] \in before /\ phase'[n] \in after

Same(n)  == kept'[n] = kept[n]
Quiet(n) == arrived'[n] = arrived[n] /\ unnoticed'[n] = unnoticed[n]

\* The provider takes the message and the platform does not learn of it.
Secret(n) == arrived'[n] = arrived[n] + 1 /\ unnoticed'[n] = unnoticed[n] + 1

Send(n) == Becomes(n, {"new", "owed"}, {"sending"}) /\ Same(n) /\ Quiet(n)

Accept(n) ==
    /\ Becomes(n, {"sending"}, {"accepted"}) /\ Same(n)
    /\ arrived'[n] = arrived[n] + 1 /\ unnoticed'[n] = unnoticed[n]

Refuse(n) == Becomes(n, {"sending"}, {"refused"}) /\ Same(n) /\ (Quiet(n) \/ Secret(n))

Know(n) == Becomes(n, {"accepted"}, {"known"}) /\ Same(n) /\ Quiet(n)

Keep(n) == Becomes(n, {"refused"}, {"owed"}) /\ kept'[n] /\ Quiet(n)

GiveUp(n) == kept[n] /\ Becomes(n, {"refused"}, {"given up"}) /\ Same(n) /\ Quiet(n)

AskAgain(n) == Becomes(n, {"given up"}, {"owed"}) /\ Same(n) /\ Quiet(n)

\* The attempt ends with no result: what the provider took is forgotten.
Break(n) ==
    /\ Becomes(n, Attempt, IF kept[n] THEN {"owed"} ELSE {"lost"}) /\ Same(n)
    /\ \/ phase[n] # "accepted" /\ Quiet(n)
       \/ phase[n] = "sending" /\ Secret(n)
       \/ /\ phase[n] = "accepted"
          /\ arrived'[n] = arrived[n] /\ unnoticed'[n] = unnoticed[n] + 1

Move(n) ==
    \/ Send(n) \/ Accept(n) \/ Refuse(n) \/ Know(n)
    \/ Keep(n) \/ GiveUp(n) \/ AskAgain(n) \/ Break(n)

Rest(n) == phase'[n] = phase[n] /\ Same(n) /\ Quiet(n)

\* Notices do not wait for each other, and a crash ends many attempts at once.
Next ==
    /\ TypeOK'
    /\ \A n \in Notices : Move(n) \/ Rest(n)

Spec == Init /\ [][Next]_vars
=============================================================================
