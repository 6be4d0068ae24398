-------------------------------- MODULE MCFS --------------------------------
(* The instances of CultivateFS that TLC checks.                           *)
EXTENDS CultivateFS, TLC

CONSTANTS a, b, n1, n2

Symmetry == Permutations(Names)

ShortTarget == {<<a>>}
TwoTargets  == {<<a>>, <<b>>}
NoTargets   == {}
NoTrees     == {}

\* Trees of the shapes the tests of fs.rs check out.
TreeFile(parent, name, content) ==
  [parent |-> parent, name |-> name, kind |-> "File", hash |-> content]
TreeLink(parent, name, target) ==
  [parent |-> parent, name |-> name, kind |-> "Symlink", hash |-> target]
TreeDir(parent, name) ==
  [parent |-> parent, name |-> name, kind |-> "Directory", hash |-> NoHash]

Nested == <<TreeDir(0, n1), TreeFile(1, n2, <<a>>)>>
Flat   == <<TreeFile(0, n1, <<a>>), TreeLink(0, n2, <<b>>)>>
CheckoutTrees == {Nested, Flat}

=============================================================================
