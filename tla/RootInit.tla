------------------------------ MODULE RootInit ------------------------------
(***************************************************************************)
(* The root of a mount is inserted by two threads: the session's, when it  *)
(* serves FUSE_INIT (CultivateFS::init), and any that calls                *)
(* MountStore::set_root_tree, which the tests do as soon as                *)
(* initialize_repo has returned.  CultivateFS takes either insertion for   *)
(* one step; here the step is an atomic counter or the critical section of *)
(* one table, and insert_tree recurses on a stack of its own.              *)
(***************************************************************************)
EXTENDS FSOps

CONSTANTS
  Threads,     \* the threads that insert a root
  Session,     \* the one among them that serves FUSE_INIT
  TreeOf       \* the tree each inserts, flattened in preorder as in FSOps

ASSUME SessionAssumption == Session \in Threads /\ TreeOf[Session] = << >>

\* A tree of the store names its entries as jj names files.
ASSUME TreesAssumption ==
  \A w \in Threads :
    /\ DOMAIN TreeOf[w] \subseteq Nat
    /\ \A k \in DOMAIN TreeOf[w] :
         TreeOf[w][k].kind \in Kinds /\ TreeOf[w][k].name \notin Dots

\* It is in preorder: what is between an entry and its directory is below that
\* directory.  Siblings differ in name, and a directory has no object of its own.
ASSUME PreorderAssumption ==
  \A w \in Threads : LET t == TreeOf[w] IN
    /\ Len(t) \in Nat /\ DOMAIN t = 1..Len(t)
    /\ \A k \in DOMAIN t :
         /\ t[k].parent \in 0..(k - 1)
         /\ t[k].parent # 0 => t[t[k].parent].kind = "Directory"
         /\ t[k].kind = "Directory" => t[k].hash = NoHash
         /\ \A j \in 1..(k - 1) :
              /\ t[j].parent = t[k].parent => t[j].name # t[k].name
              /\ t[k].parent < j => t[k].parent <= t[j].parent

VARIABLES
  nodes,       \* MountStore.nodes
  directories, \* MountStore.directories
  next_inode,  \* MountStore.next_inode
  at,          \* the next step of each thread
  stack        \* its calls of insert_tree under way, the innermost last

vars == <<nodes, directories, next_inode, at, stack>>

\* A call of insert_tree: its directory (an index of the flattened tree), the
\* inode it was given, the entries it has yet to read and those it has made.
\* (A call of insert_file or insert_symlink is one that has nothing to read.)
Frame(t, k, i) ==
  [index |-> k, inode |-> i, left |-> {c \in DOMAIN t : t[c].parent = k},
   entries |-> [n \in {"."} |-> Entry(i, "Directory")]]

Innermost(w) == stack[w][Len(stack[w])]
Callers(w) == SubSeq(stack[w], 1, Len(stack[w]) - 1)

\* The entry the innermost call reads next.
Reading(w) ==
  CHOOSE c \in Innermost(w).left : \A d \in Innermost(w).left : c <= d

\* The frame f, with the entry c of t read and given the inode i.
WithEntry(f, t, c, i) ==
  [f EXCEPT !.entries = Put(@, t[c].name, Entry(i, t[c].kind)), !.left = @ \ {c}]

Goto(w, label) == at' = [at EXCEPT ![w] = label]

-----------------------------------------------------------------------------
(* The steps.                                                              *)

\* init's test for a root; and a faulty variant that asks whether any inode
\* was allocated.
HasInode == next_inode > 1
HasRoot == Root \in DOMAIN nodes

\* init: get_inode(FUSE_ROOT_ID), a critical section of its own.
TestRoot(w) ==
  /\ at[w] = "test"
  /\ Goto(w, IF HasRoot THEN "done" ELSE "burn")
  /\ UNCHANGED <<nodes, directories, next_inode, stack>>

\* allocate_inode by fetch_add; and a faulty variant for the inode that
\* set_root_tree burns.
Unburnt == next_inode
Burnt == next_inode + 1

\* set_root_tree: an inode is burnt, insert_tree is called with the root's.
Burn(w) ==
  /\ at[w] = "burn"
  /\ next_inode' = Burnt
  /\ stack' = [stack EXCEPT ![w] = <<Frame(TreeOf[w], 0, Root)>>]
  /\ Goto(w, "entries")
  /\ UNCHANGED <<nodes, directories>>

\* The directories while insert_tree goes down into an entry: nothing is
\* published; and a faulty variant that publishes the entries made so far.
PublishedEarly(w, c) ==
  Put(directories, Innermost(w).inode,
      WithEntry(Innermost(w), TreeOf[w], c, next_inode).entries)
PublishedMeanwhile(w, c) == directories

\* insert_tree reads its next entry and allocates the inode; a directory is
\* inserted by a call of its own before anything else is read.
ReadEntry(w) ==
  LET c    == Reading(w)
      kind == TreeOf[w][c].kind
  IN  /\ at[w] = "entries" /\ Innermost(w).left # {}
      /\ next_inode' = next_inode + 1
      /\ stack' = [stack EXCEPT ![w] =
           Append(Append(Callers(w), WithEntry(Innermost(w), TreeOf[w], c, next_inode)),
                  Frame(TreeOf[w], c, next_inode))]
      /\ IF kind = "Directory"
           THEN Goto(w, "entries") /\ directories' = PublishedMeanwhile(w, c)
           ELSE Goto(w, "leaf") /\ UNCHANGED directories
      /\ UNCHANGED nodes

\* The counter once a file or symlink is inserted; and a faulty variant that
\* stores what it had loaded before, plus one.
StoredBack(w) == Innermost(w).inode + 1
CounterAfterLeaf(w) == next_inode

\* insert_file, insert_symlink: set_inode, with the size of the object.
InsertLeaf(w) ==
  LET f == Innermost(w)
      e == TreeOf[w][f.index]
  IN  /\ at[w] = "leaf"
      /\ nodes' = Put(nodes, f.inode, NewAttrs(e.kind, e.hash, TreeSize(e.hash)))
      /\ next_inode' = CounterAfterLeaf(w)
      /\ stack' = [stack EXCEPT ![w] = Callers(w)]
      /\ Goto(w, "entries")
      /\ UNCHANGED directories

\* The end of insert_tree: set_inode, and then set_directory_content, which
\* writes over what the directory (the root) held before.
SetInode(w) ==
  /\ at[w] = "entries" /\ Innermost(w).left = {}
  /\ nodes' = Put(nodes, Innermost(w).inode, NewAttrs("Directory", NoHash, 0))
  /\ Goto(w, "content")
  /\ UNCHANGED <<directories, next_inode, stack>>

\* What set_directory_content leaves; and a faulty variant that adds to what
\* is there.
Merged(i, entries) ==
  IF i \in DOMAIN directories THEN Overlay(entries, directories[i]) ELSE entries
Replaced(i, entries) == entries

SetContent(w) ==
  LET f == Innermost(w)
  IN  /\ at[w] = "content"
      /\ directories' = Put(directories, f.inode, Replaced(f.inode, f.entries))
      /\ stack' = [stack EXCEPT ![w] = Callers(w)]
      /\ Goto(w, IF Callers(w) = << >> THEN "done" ELSE "entries")
      /\ UNCHANGED <<nodes, next_inode>>

Init ==
  /\ nodes = EmptyMap
  /\ directories = EmptyMap
  /\ next_inode = 1
  /\ at = [w \in Threads |-> IF w = Session THEN "test" ELSE "burn"]
  /\ stack = [w \in Threads |-> << >>]

Next ==
  \E w \in Threads :
    \/ TestRoot(w) \/ Burn(w)
    \/ ReadEntry(w) \/ InsertLeaf(w)
    \/ SetInode(w) \/ SetContent(w)

Spec == Init /\ [][Next]_vars

-----------------------------------------------------------------------------
(* What the mount shows: the paths from the root with kind and content,    *)
(* and the same of a tree of the store.                                    *)

Listing ==
  LET level[depth \in 0..Cardinality(DOMAIN directories)] ==
        IF depth = 0 THEN {<< << >>, Root>>}
        ELSE level[depth - 1] \cup
             UNION {{<<Append(p[1], n), directories[p[2]][n].inode>> :
                       n \in DOMAIN directories[p[2]] \ Dots} :
                    p \in {p \in level[depth - 1] : p[2] \in DOMAIN directories}}
  IN  level[Cardinality(DOMAIN directories)]

Shown ==
  {<<p[1], nodes[p[2]].kind, nodes[p[2]].hash>> : p \in {p \in Listing : p[2] # Root}}

PathsOf(t) ==
  LET path[k \in 0..Len(t)] ==
        IF k = 0 THEN << >> ELSE Append(path[t[k].parent], t[k].name)
  IN  {<<path[k], t[k].kind, t[k].hash>> : k \in DOMAIN t}

-----------------------------------------------------------------------------
(* Properties.                                                             *)

\* An inode is in one place: listed by one entry of one directory, or held by
\* one call that has not listed it yet, of whichever thread.  Only the root is
\* shared by the threads.
InodesAreUnique ==
  /\ \A d1, d2 \in DOMAIN directories :
       \A n1 \in DOMAIN directories[d1] \ Dots, n2 \in DOMAIN directories[d2] \ Dots :
         /\ directories[d1][n1].inode # Root
         /\ directories[d1][n1].inode = directories[d2][n2].inode => d1 = d2 /\ n1 = n2
  /\ \A w1, w2 \in Threads : \A k1 \in DOMAIN stack[w1], k2 \in DOMAIN stack[w2] :
       stack[w1][k1].inode = stack[w2][k2].inode =>
         (w1 = w2 /\ k1 = k2) \/ stack[w1][k1].inode = Root

\* Trees are published from the leaves up: an entry that any thread can find
\* in the tables leads to a node of its kind, and a directory to a content.
PublishedIsComplete ==
  \A d \in DOMAIN directories : \A n \in DOMAIN directories[d] :
    LET e == directories[d][n]
    IN  /\ e.inode \in DOMAIN nodes /\ nodes[e.inode].kind = e.kind
        /\ e.kind = "Directory" => e.inode \in DOMAIN directories

\* Whatever the threads do at once, the mount shows the tree of one of them
\* from the first path to the last, and never a mixture of two.
OneWholeTreeIsShown ==
  Root \in DOMAIN directories => \E w \in Threads : Shown = PathsOf(TreeOf[w])

\* Once init is answered and the kernel may ask for the root, the root has its
\* node; its content may be missing only for the one step in which a thread
\* goes from set_inode to set_directory_content.
AnsweredInitHasRoot ==
  at[Session] = "done" =>
    /\ Root \in DOMAIN nodes
    /\ Root \in DOMAIN directories
         \/ \E w \in Threads : at[w] = "content" /\ Innermost(w).inode = Root

\* A thread that runs alone leaves the tables that CultivateFS, for which the
\* insertion is one step, says it leaves.
AloneIsOneStep ==
  \A w \in Threads :
    at[w] = "done" /\ (\A v \in Threads \ {w} : at[v] \in {"test", "burn"}) =>
      /\ nodes = TreeNodes(TreeOf[w], 1)
      /\ directories = TreeDirectories(TreeOf[w], 1)
      /\ next_inode = AfterTree(1, TreeOf[w])

=============================================================================
