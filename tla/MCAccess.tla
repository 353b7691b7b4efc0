------------------------------ MODULE MCAccess ------------------------------
(* A small instance of Access.                                              *)
EXTENDS Access, TLC

CONSTANTS administrators, crew, root, ann, bob, c1, c2, s1, s2, k1

MCSymmetry == {f @@ g @@ h : f \in Permutations(Clients), g \in Permutations(Slots),
                            h \in Permutations({ann, bob})}
=============================================================================
