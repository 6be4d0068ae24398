------------------------------ MODULE MCReaddir ------------------------------
(* The instances of Readdir that TLC checks.                               *)
EXTENDS Readdir

FiveNames == 1..5
DotNames == {2}

=============================================================================
