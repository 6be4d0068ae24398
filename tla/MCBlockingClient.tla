-------------------------- MODULE MCBlockingClient ---------------------------
(* The instances of BlockingClient that TLC checks.                        *)
EXTENDS BlockingClient, TLC

CONSTANTS t1, t2, t3, h1, h2, h3

=============================================================================
