-------------------------------- MODULE Maps --------------------------------
(***************************************************************************)
(* The std::collections maps the daemon keeps its state in (HashMap,       *)
(* BTreeMap), as functions whose DOMAIN is the set of keys present.        *)
(***************************************************************************)

EmptyMap == [k \in {} |-> k]

\* map.insert(k, v): adds the key or overwrites its value.
Put(m, k, v) == [x \in DOMAIN m \cup {k} |-> IF x = k THEN v ELSE m[x]]

\* map.remove(k): no effect when the key is absent.
Drop(m, k) == [x \in DOMAIN m \ {k} |-> m[x]]

\* a series of inserts: the keys of new are added to old or overwrite there.
Overlay(new, old) ==
  [x \in DOMAIN new \cup DOMAIN old |-> IF x \in DOMAIN new THEN new[x] ELSE old[x]]

=============================================================================
