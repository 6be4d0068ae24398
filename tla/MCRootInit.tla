----------------------------- MODULE MCRootInit ------------------------------
(* The instances of RootInit that TLC checks.                              *)
EXTENDS RootInit, TLC

CONSTANTS init, test1, test2, a, b, n1, n2

LOCAL Item(parent, name, kind, hash) ==
  [parent |-> parent, name |-> name, kind |-> kind, hash |-> hash]

\* A directory with a file in it beside a symlink, and a lone file.
Nested == << Item(0, n1, "Directory", NoHash), Item(1, n1, "File", <<a>>),
             Item(0, n2, "Symlink", <<b>>) >>
Single == << Item(0, n2, "File", <<b>>) >>

\* init beside two checkouts.
TwoCheckouts == (init :> << >>) @@ (test1 :> Nested) @@ (test2 :> Single)

=============================================================================
