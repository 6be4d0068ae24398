---------------------------- MODULE WorkingTree -----------------------------
(***************************************************************************)
(* What a mounted working copy promises its user: a tree of named entries, *)
(* each with a kind and a content, in which an operation touches the       *)
(* entry it names and no other.  CultivateFS implements it.                *)
(***************************************************************************)
EXTENDS Naturals, Sequences, Maps

CONSTANTS
  Top,       \* the directory the mount shows
  Pad        \* the byte that fills the gap before a write past the end

VARIABLES
  tree,      \* a map from <<directory, name>> to the entry
  serving    \* FALSE once the session has ended

Object(i, kind, content) == [inode |-> i, kind |-> kind, content |-> content]

EmptyTree == tree = EmptyMap

Fresh(i) == i # Top /\ \A p \in DOMAIN tree : tree[p].inode # i
Children(i) == {p \in DOMAIN tree : p[1] = i}

Init == EmptyTree /\ serving = TRUE

\* An entry appears where there was none, and refers to nothing older.
Make ==
  /\ serving' \in {serving, FALSE}
  /\ \E p \in DOMAIN tree' \ DOMAIN tree :
       /\ Fresh(tree'[p].inode)
       /\ tree'[p].kind # "Symlink" => tree'[p].content = << >>
       /\ tree' = Put(tree, p, tree'[p])

\* An entry goes from p to q with all it stands for.  What was at q, never a
\* directory, is gone.
Move ==
  /\ serving' = serving
  /\ \E p \in DOMAIN tree : \E q \in DOMAIN tree' :
       /\ p # q
       /\ q \in DOMAIN tree => tree[q].kind # "Directory"
       /\ tree' = Put(Drop(tree, p), q, tree[p])

\* The content of a file after data was written at an offset, position by
\* position: the data, the old bytes around it, padding in a gap.
Written(old, offset, data, new) ==
  /\ Len(new) = IF Len(old) > offset + Len(data) THEN Len(old) ELSE offset + Len(data)
  /\ \A k \in 1..Len(new) :
       new[k] = CASE k > offset /\ k <= offset + Len(data) -> data[k - offset]
                  [] k <= Len(old) /\ ~(k > offset /\ k <= offset + Len(data)) -> old[k]
                  [] OTHER -> Pad

\* One file changes in one range, and everything else is as it was.
Write ==
  /\ serving' = serving
  /\ \E p \in DOMAIN tree :
       /\ p \in DOMAIN tree'
       /\ tree[p].kind = "File"
       /\ tree' = [tree EXCEPT ![p].content = tree'[p].content]
       /\ LET old == tree[p].content
              new == tree'[p].content
          IN  \E offset \in 0..Len(new) : \E n \in 1..Len(new) :
                /\ offset + n <= Len(new)
                /\ Written(old, offset, SubSeq(new, offset + 1, offset + n), new)

\* The session may end at any time; the only entry that may be lost with it
\* is that of an empty directory.
Stop ==
  /\ serving /\ ~serving'
  /\ \/ tree' = tree
     \/ \E p \in DOMAIN tree : /\ tree[p].kind = "Directory"
                               /\ Children(tree[p].inode) = {}
                               /\ tree' = Drop(tree, p)

Next == serving /\ (Make \/ Move \/ Write \/ Stop)

Spec == Init /\ [][Next]_<<tree, serving>>

=============================================================================
