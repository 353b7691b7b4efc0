-------------------------- MODULE MCAlertLifecycle --------------------------
(* A small instance of AlertLifecycle.                                      *)
EXTENDS AlertLifecycle

CONSTANTS disk, h1, h2, c1, c2

\* One host whose rule fires again, beside one that only fails or holds up the
\* cycle; its thread or that of the first is left over and meets the next cycle.
MCMaxEvents == [h \in Hosts |-> IF h = h1 THEN 2 ELSE 0]
=============================================================================
