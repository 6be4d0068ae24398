------------------------------ MODULE MCDaemon ------------------------------
(* The instances of DaemonService that TLC checks.                         *)
EXTENDS DaemonService, TLC

CONSTANTS c1, c2, c3, p1, p2, s1, s2, o1, o2

Symmetry == Permutations(Clients)

=============================================================================
