--------------------------- MODULE MCVMLifecycle ---------------------------
(* Instances of VMLifecycle for TLC; each cfg chooses the sessions, the    *)
(* commands, the faults and the bounds.                                    *)
EXTENDS VMLifecycle, TLC

CONSTANTS s1, s2

OneSession == {s1}
TwoSessions == {s1, s2}
SessionSymmetry == Permutations(TwoSessions)

=============================================================================
