----------------------------- MODULE MCHostKeys -----------------------------
(* A small instance of HostKeys.                                            *)
EXTENDS HostKeys, TLC

CONSTANTS h1, h2, r1, r2, ann, bob, file

MCSymmetry == {f @@ g @@ h : f \in Permutations(Hosts), g \in Permutations(Rotations),
                             h \in Permutations(Users)}
=============================================================================
