-------------------------- MODULE MCInventoryScans --------------------------
(* A small instance of InventoryScans: three findings; the worst is past the *)
(* threshold, the one between is only worse than before.                     *)
EXTENDS InventoryScans

CONSTANTS loop, admin, h1, h2

MCValues == 0..2
=============================================================================
