------------------------- MODULE MCAlertEscalation -------------------------
(* A small instance of AlertEscalation.                                     *)
EXTENDS AlertEscalation

CONSTANTS disk, h1, h2

MCMaxEvents == [h \in Hosts |-> 1]
=============================================================================
