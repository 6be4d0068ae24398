--------------------------- MODULE RootInitProofs ----------------------------
(***************************************************************************)
(* Proofs about the insertion of a root: however many threads insert one,  *)
(* and whatever their trees, no inode is given twice, what can be found in *)
(* the tables is whole, and the mount shows the tree of one thread.  For   *)
(* that, the inodes are labelled with the entries of the trees that they   *)
(* were allocated for.                                                     *)
(***************************************************************************)
EXTENDS RootInit, SequenceTheorems, FiniteSetTheorems, WellFoundedInduction, TLAPS

\* The names and the tables a directory may have.
AllNames ==
  Dots \cup UNION {{TreeOf[w][k].name : k \in DOMAIN TreeOf[w]} : w \in Threads}
Tables == UNION {[D -> [inode : Nat, kind : Kinds]] : D \in SUBSET AllNames}
Frames == [index : Nat, inode : Nat, left : SUBSET Nat, entries : Tables]

Labels == {"test", "burn", "entries", "leaf", "content", "done"}

\* The entry at a name of a call under way, the names it has made, and the kind
\* of what it inserts.
Made(w, k) == DOMAIN stack[w][k].entries \ Dots
Holds(w, k, n) == stack[w][k].entries[n]
Inserts(w, k) == TreeOf[w][stack[w][k].index].kind
Calls(w) == 1..Len(stack[w])

Listed(d) == DOMAIN directories[d] \ Dots

Typed ==
  /\ stack \in [Threads -> Seq(Frames)]
  /\ at \in [Threads -> Labels]
  /\ next_inode \in Nat /\ next_inode > 0
  /\ \A d \in DOMAIN directories : directories[d] \in Tables
  /\ \A w \in Threads : \A k \in Calls(w) : stack[w][k].left \subseteq DOMAIN TreeOf[w]

\* Only inodes below next_inode are in use, and no entry is of the root.
InUse(i) == i \in 1..(next_inode - 1)
Numbered ==
  /\ \A i \in DOMAIN nodes \cup DOMAIN directories : InUse(i)
  /\ \A d \in DOMAIN directories : \A n \in Listed(d) :
       InUse(directories[d][n].inode) /\ directories[d][n].inode # Root
  /\ \A w \in Threads : \A k \in Calls(w) :
       /\ InUse(stack[w][k].inode)
       /\ \A n \in Made(w, k) : InUse(Holds(w, k, n).inode) /\ Holds(w, k, n).inode # Root

\* One entry for an inode: in the directories, in the calls, in both.
Apart ==
  /\ \A d1, d2 \in DOMAIN directories : \A n1 \in Listed(d1), n2 \in Listed(d2) :
       directories[d1][n1].inode = directories[d2][n2].inode => d1 = d2 /\ n1 = n2
  /\ \A w1, w2 \in Threads : \A k1 \in Calls(w1), k2 \in Calls(w2) :
       \A n1 \in Made(w1, k1), n2 \in Made(w2, k2) :
         Holds(w1, k1, n1).inode = Holds(w2, k2, n2).inode => w1 = w2 /\ k1 = k2 /\ n1 = n2
  /\ \A d \in DOMAIN directories, w \in Threads : \A n \in Listed(d), k \in Calls(w) :
       \A m \in Made(w, k) : directories[d][n].inode # Holds(w, k, m).inode

\* A call inserts the entry its caller made last, and the first the root.
\* Only the innermost can be that of a file or symlink.
Nests(w) ==
  /\ stack[w] = << >> <=> at[w] \in {"test", "burn", "done"}
  /\ at[w] = "leaf" => Len(stack[w]) > 1
  /\ \A k \in Calls(w) :
       IF k = 1 THEN stack[w][k].inode = Root
       ELSE /\ stack[w][k].index \in DOMAIN TreeOf[w]
            /\ Inserts(w, k) = "Directory" <=> ~ (k = Len(stack[w]) /\ at[w] = "leaf")
            /\ \E n \in Made(w, k - 1) :
                 Holds(w, k - 1, n) = Entry(stack[w][k].inode, Inserts(w, k))
CallsNest == \A w \in Threads : Nests(w)

\* "." is the directory, or the call's; nothing has a "..".
DotsRight ==
  /\ \A d \in DOMAIN directories : ".." \notin DOMAIN directories[d]
       /\ ("." \in DOMAIN directories[d] => directories[d]["."] = Entry(d, "Directory"))
  /\ \A w \in Threads : \A k \in Calls(w) : ".." \notin DOMAIN stack[w][k].entries
       /\ ("." \in DOMAIN stack[w][k].entries =>
             stack[w][k].entries["."] = Entry(stack[w][k].inode, "Directory"))

\* What an entry promises to whom can find it.
IsDirectory(i) == i \in DOMAIN nodes /\ nodes[i].kind = "Directory"
Whole(e) ==
  /\ e.inode \in DOMAIN nodes /\ nodes[e.inode].kind = e.kind
  /\ e.kind = "Directory" => e.inode \in DOMAIN directories

\* Whole are the entries of the directories, and those a call has made but
\* for the one that it is inserting; whose content is not there yet.
LeavesUp ==
  /\ \A d \in DOMAIN directories : IsDirectory(d) /\ \A n \in Listed(d) : Whole(directories[d][n])
  /\ \A w \in Threads : at[w] = "content" => IsDirectory(Innermost(w).inode)
  /\ \A w \in Threads : \A k \in Calls(w) :
       /\ k > 1 => stack[w][k].inode \notin DOMAIN directories
       /\ \A n \in Made(w, k) :
            \/ Whole(Holds(w, k, n))
            \/ k < Len(stack[w]) /\ stack[w][k + 1].inode = Holds(w, k, n).inode

\* The node of the root comes before its content, in a single thread's steps.
RootFollows ==
  /\ \A w \in Threads : at[w] = "done" => Root \in DOMAIN nodes
  /\ Root \in DOMAIN nodes =>
       \/ Root \in DOMAIN directories
       \/ \E w \in Threads : at[w] = "content" /\ Innermost(w).inode = Root

IInv ==
  Typed /\ Numbered /\ Apart /\ CallsNest /\ DotsRight /\ LeavesUp /\ RootFollows

-----------------------------------------------------------------------------
(* What the steps do to the stacks.                                        *)

\* A nonempty set of indexes has a least one.
LEMMA LeastOf ==
  ASSUME NEW S \in SUBSET Nat, S # {}
  PROVE  \E c \in S : \A d \in S : c <= d
<1> DEFINE R == {p \in Nat \X Nat : p[1] < p[2]}
<1>1. IsWellFoundedOn(R, Nat)
  BY NatLessThanWellFounded DEF OpToRel
<1> HIDE DEF R
<1>2. PICK c \in S : \A d \in S : ~ (<<d, c>> \in R)
  BY <1>1, WFMin
<1>3. \A d \in S : ~ (d < c)
  BY <1>2 DEF R
<1> QED
  BY <1>3

\* The entry that is read is one of those left.
LEMMA ReadingIsLeft ==
  ASSUME Typed, NEW w \in Threads, stack[w] # << >>, Innermost(w).left # {}
  PROVE  /\ Reading(w) \in Innermost(w).left
         /\ Reading(w) \in DOMAIN TreeOf[w]
         /\ Reading(w) \in Nat
<1>1. Innermost(w) \in Frames /\ Innermost(w).left \subseteq DOMAIN TreeOf[w]
  BY DEF Typed, Innermost, Calls
<1>2. Innermost(w).left \in SUBSET Nat
  BY <1>1 DEF Frames
<1>3. Reading(w) \in Innermost(w).left
  BY <1>2, LeastOf DEF Reading
<1> QED
  BY <1>1, <1>2, <1>3

\* The entries of a call that begins, and of one that has made another.
LEMMA NewTable ==
  ASSUME NEW i \in Nat
  PROVE  [n \in {"."} |-> Entry(i, "Directory")] \in Tables
<1>1. {"."} \in SUBSET AllNames
  BY DEF AllNames, Dots
<1>2. [n \in {"."} |-> Entry(i, "Directory")] \in [{"."} -> [inode : Nat, kind : Kinds]]
  BY DEF Entry, Kinds
<1> QED
  BY <1>1, <1>2 DEF Tables

\* A table with one more entry is a table.
LEMMA GrownTable ==
  ASSUME NEW T \in Tables, NEW n \in AllNames, NEW e \in [inode : Nat, kind : Kinds]
  PROVE  Put(T, n, e) \in Tables
<1>1. PICK D \in SUBSET AllNames : T \in [D -> [inode : Nat, kind : Kinds]]
  BY DEF Tables
<1>2. D \cup {n} \in SUBSET AllNames
  OBVIOUS
<1>3. Put(T, n, e) \in [D \cup {n} -> [inode : Nat, kind : Kinds]]
  BY <1>1 DEF Put
<1> QED
  BY <1>2, <1>3 DEF Tables

\* The call that begins with the k-th entry of a tree.
LEMMA NewFrame ==
  ASSUME NEW w \in Threads, NEW k \in Nat, NEW i \in Nat, NEW f, f = Frame(TreeOf[w], k, i)
  PROVE  /\ f \in Frames
         /\ f.index = k /\ f.inode = i /\ f.left \subseteq DOMAIN TreeOf[w]
         /\ DOMAIN f.entries = {"."} /\ f.entries["."] = Entry(i, "Directory")
<1>1. {c \in DOMAIN TreeOf[w] : TreeOf[w][c].parent = k} \in SUBSET Nat
  BY TreesAssumption
<1> QED
  BY <1>1, NewTable DEF Frame, Frames

\* The innermost call once it has read the entry c and given it the inode i.
LEMMA ReadFrame ==
  ASSUME NEW f \in Frames, NEW w \in Threads, NEW c \in DOMAIN TreeOf[w], NEW i \in Nat,
         NEW g, g = WithEntry(f, TreeOf[w], c, i)
  PROVE  /\ g \in Frames
         /\ g.index = f.index /\ g.inode = f.inode /\ g.left \subseteq f.left
         /\ DOMAIN g.entries = DOMAIN f.entries \cup {TreeOf[w][c].name}
         /\ g.entries[TreeOf[w][c].name] = Entry(i, TreeOf[w][c].kind)
         /\ \A m \in DOMAIN f.entries \ {TreeOf[w][c].name} : g.entries[m] = f.entries[m]
<1> DEFINE T == Put(f.entries, TreeOf[w][c].name, Entry(i, TreeOf[w][c].kind))
<1>1. TreeOf[w][c].name \in AllNames /\ TreeOf[w][c].kind \in Kinds
  BY TreesAssumption DEF AllNames
<1>2. Entry(i, TreeOf[w][c].kind) \in [inode : Nat, kind : Kinds]
  BY <1>1 DEF Entry
<1>3. f.entries \in Tables /\ f.left \in SUBSET Nat
  BY DEF Frames
<1>4. T \in Tables
  BY <1>1, <1>2, <1>3, GrownTable
<1>5. WithEntry(f, TreeOf[w], c, i) = [f EXCEPT !.entries = T, !.left = f.left \ {c}]
  BY DEF WithEntry
<1>6. /\ DOMAIN T = DOMAIN f.entries \cup {TreeOf[w][c].name}
      /\ T[TreeOf[w][c].name] = Entry(i, TreeOf[w][c].kind)
      /\ \A m \in DOMAIN f.entries \ {TreeOf[w][c].name} : T[m] = f.entries[m]
  BY DEF Put
<1> HIDE DEF T
<1> QED
  BY <1>3, <1>4, <1>5, <1>6 DEF Frames

\* The innermost call g takes the place of what was there, and h begins.
LEMMA PushEffect ==
  ASSUME Typed, NEW w \in Threads, stack[w] # << >>, NEW g \in Frames, NEW h \in Frames,
         stack' = [stack EXCEPT ![w] = Append(Append(Callers(w), g), h)]
  PROVE  /\ stack' \in [Threads -> Seq(Frames)]
         /\ \A v \in Threads \ {w} : stack'[v] = stack[v]
         /\ Len(stack'[w]) = Len(stack[w]) + 1
         /\ \A k \in 1..(Len(stack[w]) - 1) : stack'[w][k] = stack[w][k]
         /\ stack'[w][Len(stack[w])] = g
<1>1. stack[w] \in Seq(Frames) /\ Len(stack[w]) \in Nat /\ Len(stack[w]) > 0
  BY DEF Typed
<1>2. /\ Callers(w) \in Seq(Frames) /\ Len(Callers(w)) = Len(stack[w]) - 1
      /\ \A k \in 1..(Len(stack[w]) - 1) : Callers(w)[k] = stack[w][k]
  BY <1>1 DEF Callers
<1> HIDE DEF Callers
<1>3. stack'[w] = Append(Append(Callers(w), g), h)
  BY DEF Typed
<1> QED
  BY <1>1, <1>2, <1>3 DEF Typed

\* The innermost call returns.
LEMMA PopEffect ==
  ASSUME Typed, NEW w \in Threads, stack[w] # << >>,
         stack' = [stack EXCEPT ![w] = Callers(w)]
  PROVE  /\ stack' \in [Threads -> Seq(Frames)]
         /\ \A v \in Threads \ {w} : stack'[v] = stack[v]
         /\ Len(stack'[w]) = Len(stack[w]) - 1
         /\ \A k \in 1..(Len(stack[w]) - 1) : stack'[w][k] = stack[w][k]
<1>1. stack[w] \in Seq(Frames) /\ Len(stack[w]) \in Nat /\ Len(stack[w]) > 0
  BY DEF Typed
<1>2. /\ Callers(w) \in Seq(Frames) /\ Len(Callers(w)) = Len(stack[w]) - 1
      /\ \A k \in 1..(Len(stack[w]) - 1) : Callers(w)[k] = stack[w][k]
  BY <1>1 DEF Callers
<1> QED
  BY <1>1, <1>2 DEF Typed

-----------------------------------------------------------------------------
(* The invariant, action by action.                                        *)

\* Before any thread begins, nothing is published.
LEMMA InitHolds ==
  ASSUME Init
  PROVE  IInv
<1>1. \A w \in Threads : stack[w] = << >> /\ at[w] \in {"test", "burn"} /\ Calls(w) = {}
  BY DEF Init, Calls
<1>2. nodes = EmptyMap /\ directories = EmptyMap /\ next_inode = 1
  BY DEF Init
<1>3. DOMAIN nodes = {} /\ DOMAIN directories = {}
  BY <1>2 DEF EmptyMap
<1>4. stack \in [Threads -> Seq(Frames)] /\ at \in [Threads -> Labels]
  BY DEF Init, Labels
<1>5. Typed
  BY <1>1, <1>2, <1>3, <1>4 DEF Typed
<1>6. Numbered /\ Apart
  BY <1>1, <1>3 DEF Numbered, Apart
<1>7. CallsNest
  BY <1>1 DEF CallsNest, Nests
<1>8. DotsRight /\ LeavesUp /\ RootFollows
  BY <1>1, <1>3 DEF DotsRight, LeavesUp, RootFollows
<1> QED
  BY <1>5, <1>6, <1>7, <1>8 DEF IInv

\* The inode of a call is in one entry only, the one that its caller has made
\* for it; that of a first call, the root, in none.
LEMMA OnePlace ==
  ASSUME IInv, NEW w \in Threads, NEW k \in Calls(w)
  PROVE  /\ \A d \in DOMAIN directories : \A n \in Listed(d) :
              directories[d][n].inode # stack[w][k].inode
         /\ \A v \in Threads : \A j \in Calls(v) : \A n \in Made(v, j) :
              Holds(v, j, n).inode = stack[w][k].inode =>
                /\ v = w /\ j = k - 1 /\ j < Len(stack[v]) /\ stack[v][j + 1] = stack[w][k]
                /\ Holds(v, j, n) = Entry(stack[w][k].inode, Inserts(w, k))
         /\ \A v \in Threads : \A j \in Calls(v) :
              stack[v][j].inode = stack[w][k].inode => (v = w /\ j = k) \/ stack[w][k].inode = Root
<1>1. Len(stack[w]) \in Nat /\ k \in Nat /\ k \in 1..Len(stack[w])
  BY DEF IInv, Typed, Calls
<1>2. CASE k = 1
  <2>1. stack[w][k].inode = Root
    BY <1>2 DEF IInv, CallsNest, Nests
  <2> QED
    BY <2>1 DEF IInv, Numbered
<1>3. CASE k > 1
  <2>1. k - 1 \in Calls(w)
    BY <1>1, <1>3 DEF Calls
  <2>2. PICK m \in Made(w, k - 1) : Holds(w, k - 1, m) = Entry(stack[w][k].inode, Inserts(w, k))
    BY <1>3 DEF IInv, CallsNest, Nests
  <2>3. Holds(w, k - 1, m).inode = stack[w][k].inode
    BY <2>2 DEF Entry
  <2>4. \A d \in DOMAIN directories : \A n \in Listed(d) :
          directories[d][n].inode # stack[w][k].inode
    BY <2>1, <2>3 DEF IInv, Apart
  <2>5. \A v \in Threads : \A j \in Calls(v) : \A n \in Made(v, j) :
          Holds(v, j, n).inode = stack[w][k].inode => v = w /\ j = k - 1 /\ n = m
    BY <2>1, <2>3 DEF IInv, Apart
  <2>6. ASSUME NEW v \in Threads, NEW j \in Calls(v), stack[v][j].inode = stack[w][k].inode
        PROVE  (v = w /\ j = k) \/ stack[w][k].inode = Root
    <3>1. Len(stack[v]) \in Nat /\ j \in Nat /\ j \in 1..Len(stack[v])
      BY DEF IInv, Typed, Calls
    <3>2. CASE j = 1
      BY <2>6, <3>2 DEF IInv, CallsNest, Nests
    <3>3. CASE j > 1
      <4>1. PICK n \in Made(v, j - 1) :
              Holds(v, j - 1, n) = Entry(stack[v][j].inode, Inserts(v, j))
        BY <3>3 DEF IInv, CallsNest, Nests
      <4>2. j - 1 \in Calls(v) /\ Holds(v, j - 1, n).inode = stack[w][k].inode
        BY <2>6, <3>1, <3>3, <4>1 DEF Calls, Entry
      <4>3. v = w /\ j - 1 = k - 1
        BY <2>5, <4>2
      <4> QED
        BY <1>1, <3>1, <4>3
    <3> QED
      BY <3>1, <3>2, <3>3
  <2>7. k - 1 < Len(stack[w]) /\ (k - 1) + 1 = k
    BY <1>1
  <2> QED
    BY <2>2, <2>4, <2>5, <2>6, <2>7
<1> QED
  BY <1>1, <1>2, <1>3

\* A thread that does not step keeps its calls.
LEMMA SameNests ==
  ASSUME NEW v, Nests(v), stack'[v] = stack[v], at'[v] = at[v]
  PROVE  Nests(v)'
<1>1. Calls(v)' = Calls(v)
  BY DEF Calls
<1>2. \A k : /\ Made(v, k)' = Made(v, k) /\ Inserts(v, k)' = Inserts(v, k)
             /\ \A n : Holds(v, k, n)' = Holds(v, k, n)
  BY DEF Made, Inserts, Holds
<1> QED
  BY <1>1, <1>2 DEF Nests

\* init finds a root or goes on to insert one.
LEMMA TestRootKeeps ==
  ASSUME IInv, NEW w \in Threads, TestRoot(w)
  PROVE  IInv'
<1> USE DEF TestRoot, Goto
<1>1. at'[w] \in {"done", "burn"} /\ (at'[w] = "done" => Root \in DOMAIN nodes)
  BY DEF IInv, Typed, HasRoot
<1>2. \A v \in Threads \ {w} : at'[v] = at[v]
  BY DEF IInv, Typed
<1>3. stack[w] = << >>
  BY DEF IInv, CallsNest, Nests
<1>4. Typed'
  BY <1>1, <1>2 DEF IInv, Typed, Labels, Calls
<1>5. Numbered' /\ Apart' /\ DotsRight'
  BY DEF IInv, Numbered, Apart, DotsRight, InUse, Listed, Made, Holds, Calls
<1>6. CallsNest'
  BY <1>1, <1>2, <1>3 DEF IInv, CallsNest, Nests, Calls, Made, Holds, Inserts
<1>7. LeavesUp'
  BY <1>1, <1>2
     DEF IInv, LeavesUp, IsDirectory, Whole, Listed, Calls, Made, Holds, Innermost
<1>8. RootFollows'
  BY <1>1, <1>2 DEF IInv, RootFollows, Innermost
<1> QED
  BY <1>4, <1>5, <1>6, <1>7, <1>8 DEF IInv

\* set_root_tree burns an inode and calls insert_tree.
LEMMA BurnKeeps ==
  ASSUME IInv, NEW w \in Threads, Burn(w)
  PROVE  IInv'
<1> USE DEF Burn, Goto
<1>0. PICK f : f = Frame(TreeOf[w], 0, Root)
  OBVIOUS
<1>1. /\ f \in Frames /\ f.inode = Root /\ f.left \subseteq DOMAIN TreeOf[w]
      /\ DOMAIN f.entries = {"."} /\ f.entries["."] = Entry(Root, "Directory")
  BY <1>0, NewFrame DEF Root
<1>2. stack[w] = << >>
  BY DEF IInv, CallsNest, Nests
<1>3. stack'[w] = <<f>> /\ Len(stack'[w]) = 1 /\ stack'[w][1] = f /\ stack'[w] # << >>
  BY <1>0 DEF IInv, Typed
<1>4. \A v \in Threads \ {w} : stack'[v] = stack[v] /\ at'[v] = at[v]
  BY DEF IInv, Typed
<1>5. at'[w] = "entries"
  BY DEF IInv, Typed
<1>6. next_inode \in Nat /\ next_inode > 0 /\ next_inode' = next_inode + 1
  BY DEF IInv, Typed, Burnt
<1>7. Calls(w)' = {1} /\ Made(w, 1)' = {}
  BY <1>1, <1>3 DEF Calls, Made, Dots
<1>8. Typed'
  <2>1. stack' \in [Threads -> Seq(Frames)]
    <3>1. <<f>> \in Seq(Frames)
      BY <1>1
    <3> QED
      BY <1>0, <3>1 DEF IInv, Typed
  <2>2. at' \in [Threads -> Labels]
    BY DEF IInv, Typed, Labels
  <2>3. \A v \in Threads : \A k \in Calls(v)' : stack'[v][k].left \subseteq DOMAIN TreeOf[v]
    BY <1>1, <1>3, <1>4, <1>7 DEF IInv, Typed, Calls
  <2> QED
    BY <1>6, <2>1, <2>2, <2>3 DEF IInv, Typed
<1>9. Numbered'
  <2>1. \A i : InUse(i) => InUse(i)'
    BY <1>6 DEF InUse
  <2>2. InUse(Root)'
    BY <1>6 DEF InUse, Root
  <2>3. \A v \in Threads \ {w} : \A k \in Calls(v)' :
          /\ InUse(stack[v][k].inode)'
          /\ \A n \in Made(v, k)' : InUse(Holds(v, k, n).inode)' /\ Holds(v, k, n)'.inode # Root
    BY <1>4, <2>1 DEF IInv, Numbered, Calls, Made, Holds
  <2>4. \A k \in Calls(w)' : InUse(stack[w][k].inode)' /\ Made(w, k)' = {}
    BY <1>1, <1>3, <1>7, <2>2
  <2>5. \A i \in DOMAIN nodes \cup DOMAIN directories : InUse(i)'
    BY <2>1 DEF IInv, Numbered
  <2>6. \A d \in DOMAIN directories : \A n \in Listed(d) :
          InUse(directories[d][n].inode)' /\ directories[d][n].inode # Root
    BY <2>1 DEF IInv, Numbered
  <2> QED
    BY <2>3, <2>4, <2>5, <2>6 DEF Numbered, Listed
<1>10. Apart'
  BY <1>4, <1>7 DEF IInv, Apart, Calls, Made, Holds, Listed
<1>11. CallsNest'
  BY <1>1, <1>3, <1>4, <1>5, <1>7 DEF IInv, CallsNest, Nests, Calls, Made, Holds, Inserts
<1>12. DotsRight'
  BY <1>1, <1>3, <1>4, <1>7 DEF IInv, DotsRight, Calls, Dots
<1>13. LeavesUp'
  BY <1>3, <1>4, <1>5, <1>7
     DEF IInv, LeavesUp, IsDirectory, Whole, Listed, Calls, Made, Holds, Innermost
<1>14. RootFollows'
  BY <1>4, <1>5 DEF IInv, RootFollows, Innermost
<1> QED
  BY <1>8, <1>9, <1>10, <1>11, <1>12, <1>13, <1>14 DEF IInv

\* A directory gets its node, which makes nothing less whole: no entry of
\* another kind has its inode.
LEMMA SetInodeKeeps ==
  ASSUME IInv, NEW w \in Threads, SetInode(w)
  PROVE  IInv'
<1> USE DEF SetInode, Goto
<1> DEFINE i == Innermost(w).inode
           L == Len(stack[w])
<1>1. /\ at'[w] = "content"
      /\ \A v \in Threads \ {w} : at'[v] = at[v]
      /\ at[w] = "entries" /\ stack[w] # << >>
  BY DEF IInv, Typed, CallsNest, Nests
<1>2. L \in Calls(w) /\ L \in Nat /\ L > 0 /\ Innermost(w) = stack[w][L]
  BY <1>1 DEF IInv, Typed, Calls, Innermost
<1>3. /\ DOMAIN nodes' = DOMAIN nodes \cup {i}
      /\ nodes'[i].kind = "Directory"
      /\ \A j \in DOMAIN nodes \ {i} : nodes'[j] = nodes[j]
  BY DEF Put, NewAttrs
<1>4. InUse(i)
  BY <1>2 DEF IInv, Numbered
<1> HIDE DEF i
<1>5. Typed'
  BY <1>1 DEF IInv, Typed, Labels, Calls
<1>6. Numbered'
  BY <1>3, <1>4 DEF IInv, Numbered, InUse, Listed, Made, Holds, Calls
<1>7. Apart' /\ DotsRight'
  BY DEF IInv, Apart, DotsRight, Listed, Made, Holds, Calls
<1>8. CallsNest'
  BY <1>1 DEF IInv, CallsNest, Nests, Calls, Made, Holds, Inserts
<1>9. LeavesUp'
  <2>1. \A e : Whole(e) /\ e.inode # i => Whole(e)'
    BY <1>3 DEF Whole
  <2>2. \A j : IsDirectory(j) \/ j = i => IsDirectory(j)'
    BY <1>3 DEF IsDirectory
  <2>3. \A d \in DOMAIN directories : \A n \in Listed(d) : directories[d][n].inode # i
    BY <1>2, OnePlace DEF i
  <2>4. \A v \in Threads : \A k \in Calls(v) : \A n \in Made(v, k) :
          Holds(v, k, n).inode = i => k < Len(stack[v]) /\ stack[v][k + 1].inode = i
    BY <1>2, OnePlace DEF i
  <2>5. \A d \in DOMAIN directories : IsDirectory(d)'
          /\ \A n \in Listed(d) : Whole(directories[d][n])'
    BY <2>1, <2>2, <2>3 DEF IInv, LeavesUp
  <2>6. \A v \in Threads : at'[v] = "content" => IsDirectory(Innermost(v).inode)'
    BY <1>1, <2>2 DEF IInv, LeavesUp, Innermost, i
  <2>7. \A v \in Threads : \A k \in Calls(v) : \A n \in Made(v, k) :
          \/ Whole(Holds(v, k, n))'
          \/ k < Len(stack[v]) /\ stack[v][k + 1].inode = Holds(v, k, n).inode
    BY <2>1, <2>4 DEF IInv, LeavesUp, Holds
  <2>8. \A v \in Threads : \A k \in Calls(v) : k > 1 => stack[v][k].inode \notin DOMAIN directories
    BY DEF IInv, LeavesUp
  <2> QED
    BY <2>5, <2>6, <2>7, <2>8 DEF LeavesUp, Listed, Calls, Made, Holds
<1>10. RootFollows'
  BY <1>1, <1>3 DEF IInv, RootFollows, Innermost, i
<1> QED
  BY <1>5, <1>6, <1>7, <1>8, <1>9, <1>10 DEF IInv

\* What insert_tree does when it reads the entry c: g is the innermost call, the
\* L-th, when it has made the entry e for the name n, and h the one that begins.
ReadMakes(w, c, g, h, n, L, e) ==
  /\ c = Reading(w) /\ n = TreeOf[w][c].name /\ L = Len(stack[w])
  /\ g = WithEntry(Innermost(w), TreeOf[w], c, next_inode)
  /\ h = Frame(TreeOf[w], c, next_inode)
  /\ e = Entry(next_inode, TreeOf[w][c].kind)
  /\ at[w] = "entries" /\ Innermost(w).left # {}
  /\ next_inode' = next_inode + 1
  /\ stack' = [stack EXCEPT ![w] = Append(Append(Callers(w), g), h)]
  /\ at' = [at EXCEPT ![w] = IF TreeOf[w][c].kind = "Directory" THEN "entries" ELSE "leaf"]
  /\ directories' = directories /\ nodes' = nodes
  /\ stack[w] # << >> /\ L \in Nat /\ L > 0 /\ L \in Calls(w)
  /\ Innermost(w) = stack[w][L] /\ stack[w][L] \in Frames
  /\ next_inode \in Nat /\ next_inode > 0
  /\ c \in Nat /\ c \in DOMAIN TreeOf[w]
  /\ n \notin Dots /\ TreeOf[w][c].kind \in Kinds
  /\ g \in Frames
  /\ g.index = stack[w][L].index /\ g.inode = stack[w][L].inode
  /\ g.left \subseteq stack[w][L].left
  /\ DOMAIN g.entries = DOMAIN stack[w][L].entries \cup {n}
  /\ g.entries[n] = e
  /\ \A m \in DOMAIN stack[w][L].entries \ {n} : g.entries[m] = stack[w][L].entries[m]
  /\ h \in Frames
  /\ h.index = c /\ h.inode = next_inode /\ h.left \subseteq DOMAIN TreeOf[w]
  /\ DOMAIN h.entries = {"."} /\ h.entries["."] = Entry(next_inode, "Directory")
  /\ stack' \in [Threads -> Seq(Frames)]
  /\ \A v \in Threads \ {w} : stack'[v] = stack[v]
  /\ Len(stack'[w]) = L + 1
  /\ \A k \in 1..(L - 1) : stack'[w][k] = stack[w][k]
  /\ stack'[w][L] = g /\ stack'[w][L + 1] = h
  /\ \A v \in Threads \ {w} : Calls(v)' = Calls(v)
  /\ Calls(w)' = Calls(w) \cup {L + 1} /\ L + 1 \notin Calls(w) /\ Calls(w) = 1..L
  /\ \A v \in Threads : \A k \in Calls(v) :
       v # w \/ k # L => stack'[v][k] = stack[v][k]

\* That is what a step of ReadEntry does.
LEMMA ReadEffect ==
  ASSUME IInv, NEW w \in Threads, ReadEntry(w)
  PROVE  \E c, g, h, n, L, e : ReadMakes(w, c, g, h, n, L, e)
<1>0. PICK c, g, h, n, L, e :
        /\ c = Reading(w) /\ n = TreeOf[w][c].name /\ L = Len(stack[w])
        /\ g = WithEntry(Innermost(w), TreeOf[w], c, next_inode)
        /\ h = Frame(TreeOf[w], c, next_inode)
        /\ e = Entry(next_inode, TreeOf[w][c].kind)
  OBVIOUS
<1>1. /\ at[w] = "entries" /\ Innermost(w).left # {}
      /\ next_inode' = next_inode + 1
      /\ stack' = [stack EXCEPT ![w] = Append(Append(Callers(w), g), h)]
      /\ at' = [at EXCEPT ![w] = IF TreeOf[w][c].kind = "Directory" THEN "entries" ELSE "leaf"]
      /\ directories' = directories /\ nodes' = nodes
  BY <1>0 DEF ReadEntry, Goto, PublishedMeanwhile
<1>2. /\ stack[w] # << >> /\ L \in Nat /\ L > 0 /\ L \in Calls(w)
      /\ Innermost(w) = stack[w][L] /\ stack[w][L] \in Frames
      /\ next_inode \in Nat /\ next_inode > 0
  <2>1. stack[w] # << >>
    BY <1>1 DEF IInv, CallsNest, Nests
  <2>2. stack[w] \in Seq(Frames) /\ next_inode \in Nat /\ next_inode > 0
    BY DEF IInv, Typed
  <2>3. L \in Nat /\ L > 0
    BY <1>0, <2>1, <2>2
  <2> QED
    BY <1>0, <2>1, <2>2, <2>3 DEF Calls, Innermost
<1>3. /\ c \in Nat /\ c \in DOMAIN TreeOf[w]
      /\ n \notin Dots /\ TreeOf[w][c].kind \in Kinds
  <2>1. c \in Nat /\ c \in DOMAIN TreeOf[w]
    BY <1>0, <1>1, <1>2, ReadingIsLeft DEF IInv
  <2> QED
    BY <1>0, <2>1, TreesAssumption
<1>4. /\ g \in Frames
      /\ g.index = stack[w][L].index /\ g.inode = stack[w][L].inode
      /\ g.left \subseteq stack[w][L].left
      /\ DOMAIN g.entries = DOMAIN stack[w][L].entries \cup {n}
      /\ g.entries[n] = e
      /\ \A m \in DOMAIN stack[w][L].entries \ {n} : g.entries[m] = stack[w][L].entries[m]
  <2>1. /\ stack[w][L] \in Frames /\ c \in DOMAIN TreeOf[w] /\ next_inode \in Nat
        /\ g = WithEntry(stack[w][L], TreeOf[w], c, next_inode) /\ n = TreeOf[w][c].name
        /\ e = Entry(next_inode, TreeOf[w][c].kind)
    BY <1>0, <1>2, <1>3
  <2>2. /\ g \in Frames
        /\ g.index = stack[w][L].index /\ g.inode = stack[w][L].inode
        /\ g.left \subseteq stack[w][L].left
    BY <2>1, ReadFrame
  <2>3. DOMAIN g.entries = DOMAIN stack[w][L].entries \cup {n}
    BY <2>1, ReadFrame
  <2>5. g.entries[n] = e
    BY <2>1, ReadFrame
  <2>4. \A m \in DOMAIN stack[w][L].entries \ {n} : g.entries[m] = stack[w][L].entries[m]
    BY <2>1, ReadFrame
  <2> QED
    BY <2>2, <2>3, <2>4, <2>5
<1>5. /\ h \in Frames
      /\ h.index = c /\ h.inode = next_inode /\ h.left \subseteq DOMAIN TreeOf[w]
      /\ DOMAIN h.entries = {"."} /\ h.entries["."] = Entry(next_inode, "Directory")
  <2>1. next_inode \in Nat /\ c \in Nat /\ h = Frame(TreeOf[w], c, next_inode)
    BY <1>0, <1>2, <1>3
  <2>2. h \in Frames /\ h.index = c /\ h.inode = next_inode
    BY <2>1, NewFrame
  <2>3. h.left \subseteq DOMAIN TreeOf[w]
    BY <2>1, NewFrame
  <2>4. DOMAIN h.entries = {"."} /\ h.entries["."] = Entry(next_inode, "Directory")
    BY <2>1 DEF Frame
  <2> QED
    BY <2>2, <2>3, <2>4
<1>6. /\ stack' \in [Threads -> Seq(Frames)]
      /\ \A v \in Threads \ {w} : stack'[v] = stack[v]
      /\ Len(stack'[w]) = L + 1
      /\ \A k \in 1..(L - 1) : stack'[w][k] = stack[w][k]
      /\ stack'[w][L] = g /\ stack'[w][L + 1] = h
  <2>1. Typed /\ stack[w] # << >> /\ g \in Frames /\ h \in Frames
    BY <1>2, <1>4, <1>5 DEF IInv
  <2> QED
    <3>1. Len(stack[w]) = L
      BY <1>0
    <3>2. stack' = [stack EXCEPT ![w] = Append(Append(Callers(w), g), h)]
      BY <1>1
    <3>3. /\ stack' \in [Threads -> Seq(Frames)]
          /\ \A v \in Threads \ {w} : stack'[v] = stack[v]
      BY <2>1, <3>2, PushEffect
    <3>4. Len(stack'[w]) = Len(stack[w]) + 1
      BY <2>1, <3>2, PushEffect
    <3>5. \A k \in 1..(Len(stack[w]) - 1) : stack'[w][k] = stack[w][k]
      BY <2>1, <3>2, PushEffect
    <3>6. stack'[w][Len(stack[w])] = g
      BY <2>1, <3>2, PushEffect
    <3>7. stack'[w][Len(stack'[w])] = h
      <4>1. stack'[w] = Append(Append(Callers(w), g), h)
        BY <2>1, <3>2 DEF Typed
      <4>2. Callers(w) \in Seq(Frames)
        BY <2>1 DEF Typed, Callers
      <4> QED
        BY <2>1, <4>1, <4>2
    <3> QED
      BY <3>1, <3>3, <3>4, <3>5, <3>6, <3>7
<1>7. /\ \A v \in Threads \ {w} : Calls(v)' = Calls(v)
      /\ Calls(w)' = Calls(w) \cup {L + 1} /\ L + 1 \notin Calls(w) /\ Calls(w) = 1..L
      /\ \A v \in Threads : \A k \in Calls(v) :
           v # w \/ k # L => stack'[v][k] = stack[v][k]
  <2>1. \A v \in Threads \ {w} :
          Calls(v)' = Calls(v) /\ \A k \in Calls(v) : stack'[v][k] = stack[v][k]
    BY <1>6 DEF Calls
  <2>2. Calls(w) = 1..L /\ Calls(w)' = 1..(L + 1)
    BY <1>0, <1>6 DEF Calls
  <2>3. Calls(w)' = Calls(w) \cup {L + 1} /\ L + 1 \notin Calls(w)
    BY <1>2, <2>2
  <2>4. \A k \in Calls(w) : k # L => stack'[w][k] = stack[w][k]
    <3>1. \A k \in 1..L : k # L => k \in 1..(L - 1)
      BY <1>2
    <3> QED
      BY <1>6, <2>2, <3>1
  <2> QED
    BY <2>1, <2>2, <2>3, <2>4
<1>8. ReadMakes(w, c, g, h, n, L, e)
  BY <1>0, <1>1, <1>2, <1>3, <1>4, <1>5, <1>6, <1>7 DEF ReadMakes
<1> QED
  BY <1>8

\* insert_tree reads an entry: the entry it makes and the call it begins are
\* of an inode that nothing had.
LEMMA ReadEntryKeeps ==
  ASSUME IInv, NEW w \in Threads, ReadEntry(w)
  PROVE  IInv'
<1>a. PICK c, g, h, n, L, e : ReadMakes(w, c, g, h, n, L, e)
  BY ReadEffect
<1>0. /\ c = Reading(w) /\ n = TreeOf[w][c].name /\ L = Len(stack[w])
      /\ e = Entry(next_inode, TreeOf[w][c].kind)
  BY <1>a DEF ReadMakes
<1>1. /\ at[w] = "entries" /\ Innermost(w).left # {}
      /\ next_inode' = next_inode + 1
      /\ stack' = [stack EXCEPT ![w] = Append(Append(Callers(w), g), h)]
      /\ at' = [at EXCEPT ![w] = IF TreeOf[w][c].kind = "Directory" THEN "entries" ELSE "leaf"]
      /\ directories' = directories /\ nodes' = nodes
  BY <1>a DEF ReadMakes
<1>2. /\ stack[w] # << >> /\ L \in Nat /\ L > 0 /\ L \in Calls(w)
      /\ Innermost(w) = stack[w][L] /\ stack[w][L] \in Frames
      /\ next_inode \in Nat /\ next_inode > 0
  BY <1>a DEF ReadMakes
<1>3. /\ c \in Nat /\ c \in DOMAIN TreeOf[w]
      /\ n \notin Dots /\ TreeOf[w][c].kind \in Kinds
  BY <1>a DEF ReadMakes
<1>4. /\ g \in Frames
      /\ g.index = stack[w][L].index /\ g.inode = stack[w][L].inode
      /\ g.left \subseteq stack[w][L].left
      /\ DOMAIN g.entries = DOMAIN stack[w][L].entries \cup {n}
      /\ g.entries[n] = e
      /\ \A m \in DOMAIN stack[w][L].entries \ {n} : g.entries[m] = stack[w][L].entries[m]
  BY <1>a DEF ReadMakes
<1>5. /\ h \in Frames
      /\ h.index = c /\ h.inode = next_inode /\ h.left \subseteq DOMAIN TreeOf[w]
      /\ DOMAIN h.entries = {"."} /\ h.entries["."] = Entry(next_inode, "Directory")
  BY <1>a DEF ReadMakes
<1>6. /\ stack' \in [Threads -> Seq(Frames)]
      /\ \A v \in Threads \ {w} : stack'[v] = stack[v]
      /\ Len(stack'[w]) = L + 1
      /\ \A k \in 1..(L - 1) : stack'[w][k] = stack[w][k]
      /\ stack'[w][L] = g /\ stack'[w][L + 1] = h
  BY <1>a DEF ReadMakes
<1>7. /\ \A v \in Threads \ {w} : Calls(v)' = Calls(v)
      /\ Calls(w)' = Calls(w) \cup {L + 1} /\ L + 1 \notin Calls(w) /\ Calls(w) = 1..L
      /\ \A v \in Threads : \A k \in Calls(v) :
           v # w \/ k # L => stack'[v][k] = stack[v][k]
  BY <1>a DEF ReadMakes
<1>8. /\ Made(w, L)' = Made(w, L) \cup {n}
      /\ Holds(w, L, n)' = e
      /\ \A m \in Made(w, L) \ {n} : Holds(w, L, m)' = Holds(w, L, m)
      /\ Made(w, L + 1)' = {}
  BY <1>3, <1>4, <1>5, <1>6 DEF Made, Holds, Dots
<1>9. \A v \in Threads : \A k \in Calls(v) : v # w \/ k # L =>
        Made(v, k)' = Made(v, k) /\ \A m \in Made(v, k) : Holds(v, k, m)' = Holds(v, k, m)
  BY <1>7 DEF Made, Holds
<1>10. \A v \in Threads \ {w} : at'[v] = at[v]
  BY <1>1 DEF IInv, Typed
<1>11. at'[w] = IF TreeOf[w][c].kind = "Directory" THEN "entries" ELSE "leaf"
  BY <1>1 DEF IInv, Typed
<1>12. e.inode = next_inode /\ e.kind = TreeOf[w][c].kind
  BY <1>0 DEF Entry
<1>13. Typed'
  <2>1. at' \in [Threads -> Labels]
    BY <1>1 DEF IInv, Typed, Labels
  <2>2. ASSUME NEW v \in Threads, NEW k \in Calls(v)'
        PROVE  stack'[v][k].left \subseteq DOMAIN TreeOf[v]
    <3>1. CASE v = w /\ k = L + 1
      BY <3>1, <1>5, <1>6
    <3>2. CASE v = w /\ k = L
      BY <3>2, <1>2, <1>4, <1>6 DEF IInv, Typed
    <3>3. CASE v # w \/ (k # L /\ k # L + 1)
      <4>1. k \in Calls(v) /\ stack'[v][k] = stack[v][k]
        BY <3>3, <1>7
      <4> QED
        BY <4>1 DEF IInv, Typed
    <3> QED
      BY <3>1, <3>2, <3>3
  <2> QED
    <3>1. next_inode' \in Nat /\ next_inode' > 0
      BY <1>1, <1>2
    <3>2. \A d \in DOMAIN directories' : directories'[d] \in Tables
      BY <1>1 DEF IInv, Typed
    <3> QED
      BY <1>6, <2>1, <2>2, <3>1, <3>2 DEF Typed
<1>14. next_inode # Root /\ \A i : InUse(i) => i # next_inode /\ (i \in 1..(next_inode' - 1))
  <2>1. InUse(stack[w][L].inode)
    BY <1>2 DEF IInv, Numbered
  <2> QED
    BY <1>1, <1>2, <2>1 DEF InUse, Root
<1>15. Numbered'
  <2>1. \A i : InUse(i) \/ i = next_inode => InUse(i)'
    BY <1>1, <1>2, <1>14 DEF InUse
  <2>2. \A v \in Threads : \A k \in Calls(v)' :
          /\ InUse(stack[v][k].inode)'
          /\ \A m \in Made(v, k)' : InUse(Holds(v, k, m).inode)' /\ Holds(v, k, m)'.inode # Root
    <3> SUFFICES ASSUME NEW v \in Threads, NEW k \in Calls(v)'
                 PROVE  /\ InUse(stack[v][k].inode)'
                        /\ \A m \in Made(v, k)' :
                             InUse(Holds(v, k, m).inode)' /\ Holds(v, k, m)'.inode # Root
      OBVIOUS
    <3>1. CASE v = w /\ k = L + 1
      BY <3>1, <2>1, <1>5, <1>6, <1>8
    <3>2. CASE v = w /\ k = L
      <4>1. InUse(stack[v][k].inode)'
        BY <3>2, <2>1, <1>2, <1>4, <1>6 DEF IInv, Numbered
      <4>2. \A m \in Made(w, L)' : InUse(Holds(w, L, m).inode)' /\ Holds(w, L, m)'.inode # Root
        BY <2>1, <1>2, <1>8, <1>12, <1>14 DEF IInv, Numbered
      <4> QED
        BY <3>2, <4>1, <4>2
    <3>3. CASE v # w \/ (k # L /\ k # L + 1)
      <4>1. k \in Calls(v) /\ stack'[v][k] = stack[v][k]
        BY <3>3, <1>7
      <4> QED
        BY <3>3, <4>1, <2>1, <1>9 DEF IInv, Numbered
    <3> QED
      BY <3>1, <3>2, <3>3
  <2>3. \A i \in DOMAIN nodes \cup DOMAIN directories : InUse(i)'
    BY <2>1 DEF IInv, Numbered
  <2>4. \A d \in DOMAIN directories : \A m \in Listed(d) :
          InUse(directories[d][m].inode)' /\ directories[d][m].inode # Root
    BY <1>1, <2>1 DEF IInv, Numbered
  <2> QED
    BY <1>1, <2>2, <2>3, <2>4 DEF Numbered, Listed
<1>16. \A v \in Threads : \A k \in Calls(v)' : \A m \in Made(v, k)' :
         \/ v = w /\ k = L /\ m = n /\ Holds(v, k, m)' = e
         \/ k \in Calls(v) /\ m \in Made(v, k) /\ Holds(v, k, m)' = Holds(v, k, m)
  <2> SUFFICES ASSUME NEW v \in Threads, NEW k \in Calls(v)', NEW m \in Made(v, k)'
               PROVE  \/ v = w /\ k = L /\ m = n /\ Holds(v, k, m)' = e
                      \/ k \in Calls(v) /\ m \in Made(v, k) /\ Holds(v, k, m)' = Holds(v, k, m)
    OBVIOUS
  <2>1. CASE v = w /\ k = L + 1
    BY <2>1, <1>8
  <2>2. CASE v = w /\ k = L
    BY <2>2, <1>2, <1>8
  <2>3. CASE v # w \/ (k # L /\ k # L + 1)
    BY <2>3, <1>7, <1>9
  <2> QED
    BY <2>1, <2>2, <2>3
<1>17. Apart'
  <2>1. \A v \in Threads : \A k \in Calls(v) : \A m \in Made(v, k) :
          Holds(v, k, m).inode # e.inode
    BY <1>12, <1>14 DEF IInv, Numbered
  <2>2. \A d \in DOMAIN directories : \A m \in Listed(d) : directories[d][m].inode # e.inode
    BY <1>12, <1>14 DEF IInv, Numbered
  <2>3. ASSUME NEW v1 \in Threads, NEW v2 \in Threads, NEW k1 \in Calls(v1)', NEW k2 \in Calls(v2)',
               NEW m1 \in Made(v1, k1)', NEW m2 \in Made(v2, k2)',
               Holds(v1, k1, m1)'.inode = Holds(v2, k2, m2)'.inode
        PROVE  v1 = v2 /\ k1 = k2 /\ m1 = m2
    BY <1>16, <2>1, <2>3 DEF IInv, Apart
  <2>4. \A d \in DOMAIN directories, v \in Threads : \A m \in Listed(d), k \in Calls(v)' :
          \A j \in Made(v, k)' : directories[d][m].inode # Holds(v, k, j)'.inode
    BY <1>16, <2>2 DEF IInv, Apart
  <2>5. \A d1, d2 \in DOMAIN directories : \A m1 \in Listed(d1), m2 \in Listed(d2) :
          directories[d1][m1].inode = directories[d2][m2].inode => d1 = d2 /\ m1 = m2
    BY DEF IInv, Apart
  <2> QED
    BY <1>1, <2>3, <2>4, <2>5 DEF Apart, Listed
<1>18. CallsNest'
  <2>1. ASSUME NEW v \in Threads \ {w}
        PROVE  Nests(v)'
    <3>1. Nests(v) /\ stack'[v] = stack[v] /\ at'[v] = at[v]
      BY <1>6, <1>10 DEF IInv, CallsNest
    <3> QED
      BY <3>1, SameNests
  <2>2. stack'[w] # << >> /\ at'[w] \in {"entries", "leaf"} /\ Len(stack'[w]) > 1
    BY <1>2, <1>6, <1>11
  <2>3. ASSUME NEW k \in Calls(w)'
        PROVE  IF k = 1 THEN stack'[w][k].inode = Root
               ELSE /\ stack'[w][k].index \in DOMAIN TreeOf[w]
                    /\ Inserts(w, k)' = "Directory" <=> ~ (k = Len(stack'[w]) /\ at'[w] = "leaf")
                    /\ \E m \in Made(w, k - 1)' :
                         Holds(w, k - 1, m)' = Entry(stack'[w][k].inode, Inserts(w, k)')
    <3>1. CASE k = L + 1
      <4>1. k # 1 /\ k - 1 = L
        BY <3>1, <1>2
      <4>2. Inserts(w, k)' = TreeOf[w][c].kind /\ stack'[w][k].index = c
        BY <3>1, <1>5, <1>6 DEF Inserts
      <4>3. Inserts(w, k)' = "Directory" <=> ~ (k = Len(stack'[w]) /\ at'[w] = "leaf")
        BY <3>1, <4>2, <1>6, <1>11
      <4>4. n \in Made(w, k - 1)' /\ Holds(w, k - 1, n)' = Entry(stack'[w][k].inode, Inserts(w, k)')
        BY <3>1, <4>1, <4>2, <1>0, <1>5, <1>6, <1>8
      <4> QED
        BY <4>1, <4>2, <4>3, <4>4, <1>3
    <3>2. CASE k # L + 1
      <4>1. /\ k \in Calls(w) /\ k \in 1..L /\ k # Len(stack'[w])
            /\ stack'[w][k].inode = stack[w][k].inode /\ stack'[w][k].index = stack[w][k].index
            /\ Inserts(w, k)' = Inserts(w, k)
        BY <3>2, <1>2, <1>4, <1>6, <1>7 DEF Inserts
      <4>2. CASE k = 1
        BY <4>1, <4>2 DEF IInv, CallsNest, Nests
      <4>3. CASE k # 1
        <5>1. /\ stack[w][k].index \in DOMAIN TreeOf[w]
              /\ Inserts(w, k) = "Directory"
          BY <4>1, <4>3, <1>1 DEF IInv, CallsNest, Nests
        <5>2. PICK m \in Made(w, k - 1) :
                Holds(w, k - 1, m) = Entry(stack[w][k].inode, Inserts(w, k))
          BY <4>1, <4>3 DEF IInv, CallsNest, Nests
        <5>3. k - 1 \in Calls(w) /\ k - 1 # L
          BY <4>1, <4>3, <1>2, <1>7
        <5>4. m \in Made(w, k - 1)' /\ Holds(w, k - 1, m)' = Holds(w, k - 1, m)
          BY <5>2, <5>3, <1>9
        <5> QED
          BY <4>1, <4>3, <5>1, <5>2, <5>4
      <4> QED
        BY <4>2, <4>3
    <3> QED
      BY <3>1, <3>2
  <2>4. \A k \in Calls(w)' :
          IF k = 1 THEN stack'[w][k].inode = Root
          ELSE /\ stack'[w][k].index \in DOMAIN TreeOf[w]
               /\ Inserts(w, k)' = "Directory" <=> ~ (k = Len(stack'[w]) /\ at'[w] = "leaf")
               /\ \E m \in Made(w, k - 1)' :
                    Holds(w, k - 1, m)' = Entry(stack'[w][k].inode, Inserts(w, k)')
    BY <2>3
  <2> QED
    BY <2>1, <2>2, <2>4 DEF CallsNest, Nests
<1>19. DotsRight'
  <2>1. ASSUME NEW v \in Threads, NEW k \in Calls(v)'
        PROVE  /\ ".." \notin DOMAIN stack'[v][k].entries
               /\ "." \in DOMAIN stack'[v][k].entries =>
                    stack'[v][k].entries["."] = Entry(stack'[v][k].inode, "Directory")
    <3>1. CASE v = w /\ k = L + 1
      BY <3>1, <1>5, <1>6
    <3>2. CASE v = w /\ k = L
      BY <3>2, <1>2, <1>3, <1>4, <1>6 DEF IInv, DotsRight, Dots
    <3>3. CASE v # w \/ (k # L /\ k # L + 1)
      <4>1. k \in Calls(v) /\ stack'[v][k] = stack[v][k]
        BY <3>3, <1>7
      <4> QED
        BY <4>1 DEF IInv, DotsRight
    <3> QED
      BY <3>1, <3>2, <3>3
  <2> QED
    BY <1>1, <2>1 DEF IInv, DotsRight
<1>20. LeavesUp'
  <2>1. \A x : (Whole(x)' <=> Whole(x)) /\ (IsDirectory(x)' <=> IsDirectory(x))
    BY <1>1 DEF Whole, IsDirectory
  <2>2. \A d \in DOMAIN directories : IsDirectory(d)'
          /\ \A m \in Listed(d) : Whole(directories[d][m])'
    BY <1>1, <2>1 DEF IInv, LeavesUp
  <2>3. \A v \in Threads : at'[v] = "content" => IsDirectory(Innermost(v).inode)'
    BY <2>1, <1>6, <1>10, <1>11 DEF IInv, LeavesUp, Innermost
  <2>4. \A v \in Threads : \A k \in Calls(v)' : k > 1 => stack'[v][k].inode \notin DOMAIN directories
    <3> SUFFICES ASSUME NEW v \in Threads, NEW k \in Calls(v)', k > 1
                 PROVE  stack'[v][k].inode \notin DOMAIN directories
      OBVIOUS
    <3>1. CASE v = w /\ k = L + 1
      BY <3>1, <1>5, <1>6, <1>14 DEF IInv, Numbered
    <3>2. CASE v = w /\ k = L
      BY <3>2, <1>2, <1>4, <1>6 DEF IInv, LeavesUp
    <3>3. CASE v # w \/ (k # L /\ k # L + 1)
      <4>1. k \in Calls(v) /\ stack'[v][k] = stack[v][k]
        BY <3>3, <1>7
      <4> QED
        BY <4>1 DEF IInv, LeavesUp
    <3> QED
      BY <3>1, <3>2, <3>3
  <2>5. ASSUME NEW v \in Threads, NEW k \in Calls(v)', NEW m \in Made(v, k)'
        PROVE  \/ Whole(Holds(v, k, m))'
               \/ k < Len(stack'[v]) /\ stack'[v][k + 1].inode = Holds(v, k, m)'.inode
    <3>1. CASE v = w /\ k = L /\ m = n /\ Holds(v, k, m)' = e
      BY <3>1, <1>2, <1>5, <1>6, <1>12
    <3>2. CASE k \in Calls(v) /\ m \in Made(v, k) /\ Holds(v, k, m)' = Holds(v, k, m)
      <4>1. CASE Whole(Holds(v, k, m))
        BY <4>1, <3>2, <1>1 DEF Whole
      <4>2. CASE k < Len(stack[v]) /\ stack[v][k + 1].inode = Holds(v, k, m).inode
        <5>1. CASE v # w
          BY <5>1, <4>2, <3>2, <1>6
        <5>2. CASE v = w
          <6>1. k + 1 \in Calls(w) /\ k < Len(stack'[w])
            BY <5>2, <4>2, <3>2, <1>0, <1>2, <1>6, <1>7
          <6>2. stack'[w][k + 1].inode = stack[w][k + 1].inode
            BY <6>1, <1>4, <1>6, <1>7
          <6> QED
            BY <5>2, <6>1, <6>2, <4>2, <3>2
        <5> QED
          BY <5>1, <5>2
      <4> QED
        BY <3>2, <4>1, <4>2 DEF IInv, LeavesUp
    <3> QED
      BY <3>1, <3>2, <1>16
  <2> QED
    BY <1>1, <2>2, <2>3, <2>4, <2>5 DEF LeavesUp, Listed
<1>21. RootFollows'
  <2>1. \A v \in Threads : at'[v] \in {"done", "content"} => at'[v] = at[v] /\ v # w
    BY <1>10, <1>11
  <2>2. \A v \in Threads : at[v] = "content" =>
          at'[v] = "content" /\ Innermost(v)' = Innermost(v)
    BY <1>1, <1>6, <1>10 DEF Innermost
  <2> QED
    BY <1>1, <2>1, <2>2 DEF IInv, RootFollows
<1> QED
  BY <1>13, <1>15, <1>17, <1>18, <1>19, <1>20, <1>21 DEF IInv

\* What is left when the innermost call returns: every other call as it was.
LEMMA CallsLeft ==
  ASSUME IInv, NEW w \in Threads, stack[w] # << >>,
         stack' = [stack EXCEPT ![w] = Callers(w)]
  PROVE  /\ stack' \in [Threads -> Seq(Frames)]
         /\ \A v \in Threads \ {w} : stack'[v] = stack[v]
         /\ Len(stack[w]) \in Calls(w) /\ Innermost(w) = stack[w][Len(stack[w])]
         /\ Len(stack'[w]) = Len(stack[w]) - 1
         /\ \A v \in Threads : \A k \in Calls(v)' :
              k \in Calls(v) /\ stack'[v][k] = stack[v][k] /\ (v = w => k # Len(stack[w]))
<1>1. Typed /\ stack[w] \in Seq(Frames) /\ Len(stack[w]) \in Nat /\ Len(stack[w]) > 0
  BY DEF IInv, Typed
<1>2. /\ stack' \in [Threads -> Seq(Frames)]
      /\ \A v \in Threads \ {w} : stack'[v] = stack[v]
  BY <1>1, PopEffect
<1>3. Len(stack'[w]) = Len(stack[w]) - 1
  BY <1>1, PopEffect
<1>4. \A k \in 1..(Len(stack[w]) - 1) : stack'[w][k] = stack[w][k]
  BY <1>1, PopEffect
<1>5. \A v \in Threads : \A k \in Calls(v)' :
        k \in Calls(v) /\ stack'[v][k] = stack[v][k] /\ (v = w => k # Len(stack[w]))
  BY <1>1, <1>2, <1>3, <1>4 DEF Calls
<1> QED
  BY <1>1, <1>2, <1>3, <1>5 DEF Calls, Innermost

\* A thread whose innermost call returns, and which goes on to label.
LEMMA ReturnNests ==
  ASSUME IInv, NEW w \in Threads, stack[w] # << >>, at[w] # "test",
         stack' = [stack EXCEPT ![w] = Callers(w)], NEW label,
         at' = [at EXCEPT ![w] = label],
         label = IF Callers(w) = << >> THEN "done" ELSE "entries"
  PROVE  /\ CallsNest'
         /\ \A v \in Threads \ {w} : at'[v] = at[v]
         /\ at'[w] = label
         /\ label = "done" <=> Len(stack[w]) = 1
<1>1. /\ Len(stack'[w]) = Len(stack[w]) - 1
      /\ \A v \in Threads \ {w} : stack'[v] = stack[v]
      /\ stack' \in [Threads -> Seq(Frames)]
  BY CallsLeft
<1>2. \A v \in Threads : \A k \in Calls(v)' :
        k \in Calls(v) /\ stack'[v][k] = stack[v][k] /\ (v = w => k # Len(stack[w]))
  BY CallsLeft
<1>3. \A v \in Threads : \A k \in Calls(v)' :
        Made(v, k)' = Made(v, k) /\ \A n \in Made(v, k) : Holds(v, k, n)' = Holds(v, k, n)
  BY <1>2 DEF Made, Holds
<1>4. \A v \in Threads \ {w} : at'[v] = at[v]
  BY DEF IInv, Typed
<1>5. at'[w] = label /\ stack'[w] = Callers(w)
  BY DEF IInv, Typed
<1>6. Len(stack[w]) \in Nat /\ Len(stack[w]) > 0 /\ stack'[w] \in Seq(Frames)
  BY <1>1 DEF IInv, Typed
<1>7. stack'[w] = << >> <=> Len(stack[w]) = 1
  <2>1. stack'[w] = << >> <=> Len(stack'[w]) = 0
    BY <1>6, EmptySeq
  <2>2. Len(stack'[w]) = 0 <=> Len(stack[w]) = 1
    <3>1. /\ Len(stack'[w]) = Len(stack[w]) - 1
          /\ Len(stack[w]) \in Nat /\ Len(stack'[w]) \in Nat
      BY <1>1, <1>6
    <3>2. \A m, n \in Nat : m = n - 1 => (m = 0 <=> n = 1)
      OBVIOUS
    <3> QED
      BY <3>1, <3>2
  <2> QED
    BY <2>1, <2>2
<1>8. ASSUME NEW v \in Threads \ {w}
      PROVE  Nests(v)'
  <2>1. Nests(v) /\ stack'[v] = stack[v] /\ at'[v] = at[v]
    BY <1>1, <1>4 DEF IInv, CallsNest
  <2> QED
    BY <2>1, SameNests
<1>9. /\ stack'[w] = << >> <=> at'[w] \in {"test", "burn", "done"}
      /\ at'[w] # "leaf"
  BY <1>5
<1>10. ASSUME NEW k \in Calls(w)', k # 1
       PROVE  /\ stack'[w][k].index \in DOMAIN TreeOf[w]
              /\ Inserts(w, k)' = "Directory"
              /\ \E n \in Made(w, k - 1)' :
                   Holds(w, k - 1, n)' = Entry(stack'[w][k].inode, Inserts(w, k)')
  <2>1. k \in Calls(w) /\ stack'[w][k] = stack[w][k] /\ k # Len(stack[w])
    BY <1>2
  <2>2. Inserts(w, k)' = Inserts(w, k)
    BY <2>1 DEF Inserts
  <2>3. /\ stack[w][k].index \in DOMAIN TreeOf[w]
        /\ Inserts(w, k) = "Directory"
    BY <1>10, <2>1 DEF IInv, CallsNest, Nests
  <2>4. PICK n \in Made(w, k - 1) :
          Holds(w, k - 1, n) = Entry(stack[w][k].inode, Inserts(w, k))
    BY <1>10, <2>1 DEF IInv, CallsNest, Nests
  <2>5. k - 1 \in Calls(w)'
    BY <1>1, <1>6, <1>10 DEF Calls
  <2>6. n \in Made(w, k - 1)' /\ Holds(w, k - 1, n)' = Holds(w, k - 1, n)
    BY <1>3, <2>4, <2>5
  <2> QED
    BY <2>1, <2>2, <2>3, <2>4, <2>6
<1>11. 1 \in Calls(w)' => stack'[w][1].inode = Root
  BY <1>2 DEF IInv, CallsNest, Nests
<1>12. CallsNest'
  BY <1>8, <1>9, <1>10, <1>11 DEF CallsNest, Nests
<1> QED
  BY <1>1, <1>4, <1>5, <1>6, <1>7, <1>12

\* A file or symlink gets its node, and the entry of it becomes whole.
LEMMA InsertLeafKeeps ==
  ASSUME IInv, NEW w \in Threads, InsertLeaf(w)
  PROVE  IInv'
<1>0. PICK i, L, kind : i = Innermost(w).inode /\ L = Len(stack[w]) /\ kind = Inserts(w, L)
  OBVIOUS
<1>1. /\ at[w] = "leaf" /\ stack[w] # << >> /\ L > 1 /\ L \in Nat /\ L \in Calls(w)
      /\ Innermost(w) = stack[w][L]
  BY <1>0 DEF InsertLeaf, IInv, CallsNest, Nests, Typed, Calls, Innermost
<1>2. /\ next_inode' = next_inode /\ directories' = directories
      /\ stack' = [stack EXCEPT ![w] = Callers(w)]
      /\ at' = [at EXCEPT ![w] = "entries"]
  BY DEF InsertLeaf, Goto, CounterAfterLeaf
<1>3. /\ DOMAIN nodes' = DOMAIN nodes \cup {i} /\ nodes'[i].kind = kind
      /\ \A j \in DOMAIN nodes \ {i} : nodes'[j] = nodes[j]
  BY <1>0, <1>1 DEF InsertLeaf, Put, NewAttrs, Inserts
<1>4. kind # "Directory" /\ i # Root /\ InUse(i) /\ i \notin DOMAIN directories
  <2>1. kind # "Directory" /\ i \notin DOMAIN directories /\ InUse(i)
    BY <1>0, <1>1 DEF IInv, CallsNest, Nests, LeavesUp, Numbered
  <2>2. PICK n \in Made(w, L - 1) : Holds(w, L - 1, n) = Entry(i, kind)
    BY <1>0, <1>1 DEF IInv, CallsNest, Nests
  <2>3. L - 1 \in Calls(w)
    BY <1>0, <1>1 DEF Calls
  <2>4. i # Root
    BY <2>2, <2>3 DEF IInv, Numbered, Entry
  <2> QED
    BY <2>1, <2>4
<1>5. Callers(w) # << >>
  <2>1. stack'[w] \in Seq(Frames) /\ Len(stack'[w]) = L - 1 /\ stack'[w] = Callers(w)
    BY <1>0, <1>1, <1>2, CallsLeft DEF IInv, Typed
  <2> QED
    BY <1>1, <2>1, EmptySeq
<1>6. /\ CallsNest'
      /\ \A v \in Threads \ {w} : at'[v] = at[v]
      /\ at'[w] = "entries"
  BY <1>1, <1>2, <1>5, ReturnNests
<1>7. /\ stack' \in [Threads -> Seq(Frames)]
      /\ \A v \in Threads \ {w} : stack'[v] = stack[v]
  BY <1>1, <1>2, CallsLeft
<1>8. \A v \in Threads : \A k \in Calls(v)' :
        k \in Calls(v) /\ stack'[v][k] = stack[v][k] /\ (v = w => k # L)
  BY <1>0, <1>1, <1>2, CallsLeft
<1>9. \A v \in Threads : \A k \in Calls(v)' :
        Made(v, k)' = Made(v, k) /\ \A n \in Made(v, k) : Holds(v, k, n)' = Holds(v, k, n)
  BY <1>8 DEF Made, Holds
<1>10. Typed'
  <2>1. at' \in [Threads -> Labels]
    BY <1>2 DEF IInv, Typed, Labels
  <2>2. \A v \in Threads : \A k \in Calls(v)' : stack'[v][k].left \subseteq DOMAIN TreeOf[v]
    BY <1>8 DEF IInv, Typed
  <2> QED
    BY <1>2, <1>7, <2>1, <2>2 DEF IInv, Typed
<1>11. Numbered'
  <2>1. \A j : InUse(j)' <=> InUse(j)
    BY <1>2 DEF InUse
  <2>2. \A v \in Threads : \A k \in Calls(v)' :
          /\ InUse(stack'[v][k].inode)
          /\ \A n \in Made(v, k)' : InUse(Holds(v, k, n)'.inode) /\ Holds(v, k, n)'.inode # Root
    BY <1>8, <1>9 DEF IInv, Numbered
  <2>3. \A j \in DOMAIN nodes' \cup DOMAIN directories : InUse(j)
    BY <1>3, <1>4 DEF IInv, Numbered
  <2>4. \A d \in DOMAIN directories : \A n \in Listed(d) :
          InUse(directories[d][n].inode) /\ directories[d][n].inode # Root
    BY DEF IInv, Numbered
  <2> QED
    BY <1>2, <2>2, <2>3, <2>4 DEF Numbered, Listed, InUse
<1>12. Apart'
  BY <1>2, <1>8, <1>9 DEF IInv, Apart, Listed
<1>13. DotsRight'
  BY <1>2, <1>8 DEF IInv, DotsRight
<1>14. LeavesUp'
  <2>1. \A x : Whole(x) /\ x.inode # i => Whole(x)'
    BY <1>2, <1>3 DEF Whole
  <2>2. \A j : IsDirectory(j) /\ j # i => IsDirectory(j)'
    BY <1>3 DEF IsDirectory
  <2>3. \A d \in DOMAIN directories : IsDirectory(d)'
          /\ \A n \in Listed(d) : Whole(directories[d][n])'
    <3>1. \A d \in DOMAIN directories : d # i /\ \A n \in Listed(d) : directories[d][n].inode # i
      BY <1>0, <1>1, <1>4, OnePlace
    <3> QED
      BY <1>2, <2>1, <2>2, <3>1 DEF IInv, LeavesUp, Whole
  <2>4. \A v \in Threads : at'[v] = "content" => IsDirectory(Innermost(v).inode)'
    <3> SUFFICES ASSUME NEW v \in Threads, at'[v] = "content"
                 PROVE  IsDirectory(Innermost(v).inode)'
      OBVIOUS
    <3>1. v # w /\ at[v] = "content" /\ stack'[v] = stack[v]
      BY <1>6, <1>7
    <3>2. IsDirectory(Innermost(v).inode) /\ stack[v] # << >>
      BY <3>1 DEF IInv, LeavesUp, CallsNest, Nests
    <3>3. Len(stack[v]) \in Calls(v) /\ Innermost(v) = stack[v][Len(stack[v])]
      BY <3>2 DEF IInv, Typed, Calls, Innermost
    <3>4. Innermost(v).inode # i
      BY <1>0, <1>1, <1>4, <3>1, <3>3, OnePlace
    <3> QED
      BY <2>2, <3>1, <3>2, <3>4 DEF Innermost, IsDirectory
  <2>5. \A v \in Threads : \A k \in Calls(v)' : k > 1 => stack'[v][k].inode \notin DOMAIN directories
    BY <1>8 DEF IInv, LeavesUp
  <2>6. ASSUME NEW v \in Threads, NEW k \in Calls(v)', NEW n \in Made(v, k)'
        PROVE  \/ Whole(Holds(v, k, n))'
               \/ k < Len(stack'[v]) /\ stack'[v][k + 1].inode = Holds(v, k, n)'.inode
    <3>1. k \in Calls(v) /\ n \in Made(v, k) /\ Holds(v, k, n)' = Holds(v, k, n)
      BY <1>8, <1>9
    <3>2. CASE Holds(v, k, n).inode = i
      <4>1. Holds(v, k, n) = Entry(i, kind)
        <5>1. L \in Calls(w) /\ Holds(v, k, n).inode = stack[w][L].inode
          BY <1>0, <1>1, <3>2
        <5>2. Holds(v, k, n) = Entry(stack[w][L].inode, Inserts(w, L))
          BY <3>1, <5>1, OnePlace
        <5> QED
          BY <1>0, <1>1, <5>2
      <4> QED
        BY <1>3, <1>4, <3>1, <4>1 DEF Whole, Entry
    <3>3. CASE Holds(v, k, n).inode # i /\ Whole(Holds(v, k, n))
      BY <1>2, <1>3, <3>1, <3>3 DEF Whole
    <3>4. CASE /\ Holds(v, k, n).inode # i
               /\ k < Len(stack[v]) /\ stack[v][k + 1].inode = Holds(v, k, n).inode
      <4>1. CASE v # w
        BY <1>7, <3>1, <3>4, <4>1
      <4>2. CASE v = w
        <5>1. k + 1 # L /\ k + 1 \in 1..(L - 1) /\ Len(stack'[w]) = L - 1 /\ k < Len(stack'[w])
          <6>1. Len(stack'[w]) = L - 1
            BY <1>0, <1>1, <1>2, CallsLeft
          <6>2. k \in Nat /\ k < L /\ k # L /\ k > 0 /\ k <= L - 1
            BY <1>0, <1>1, <3>1, <3>4, <4>2 DEF Calls
          <6>3. k + 1 # L
            BY <1>0, <1>1, <3>4, <4>2
          <6> QED
            BY <1>1, <6>1, <6>2, <6>3
        <5>2. k + 1 \in Calls(w)'
          BY <5>1 DEF Calls
        <5> QED
          BY <1>0, <1>1, <1>8, <3>1, <3>4, <4>2, <5>1, <5>2
      <4> QED
        BY <4>1, <4>2
    <3> QED
      BY <3>1, <3>2, <3>3, <3>4 DEF IInv, LeavesUp
  <2> QED
    BY <1>2, <2>3, <2>4, <2>5, <2>6 DEF LeavesUp, Listed
<1>15. RootFollows'
  <2>1. \A v \in Threads : at[v] = "content" =>
          at'[v] = "content" /\ Innermost(v)' = Innermost(v)
    BY <1>1, <1>6, <1>7 DEF Innermost
  <2>2. \A v \in Threads : at'[v] = "done" => at[v] = "done"
    BY <1>6
  <2> QED
    BY <1>2, <1>3, <1>4, <2>1, <2>2 DEF IInv, RootFollows
<1> QED
  BY <1>6, <1>10, <1>11, <1>12, <1>13, <1>14, <1>15 DEF IInv

\* A directory gets its content and its call returns.  The entries move from
\* the call into the directory as they are, and the entry of the directory
\* itself becomes whole.
LEMMA SetContentKeeps ==
  ASSUME IInv, NEW w \in Threads, SetContent(w)
  PROVE  IInv'
<1>0. PICK f, i, L, label :
        /\ f = Innermost(w) /\ i = f.inode /\ L = Len(stack[w])
        /\ label = IF Callers(w) = << >> THEN "done" ELSE "entries"
  OBVIOUS
<1>1. /\ at[w] = "content" /\ stack[w] # << >> /\ L \in Nat /\ L > 0 /\ L \in Calls(w)
      /\ f = stack[w][L] /\ f \in Frames
  BY <1>0 DEF SetContent, IInv, CallsNest, Nests, Typed, Calls, Innermost
<1>2. /\ next_inode' = next_inode /\ nodes' = nodes
      /\ stack' = [stack EXCEPT ![w] = Callers(w)]
      /\ at' = [at EXCEPT ![w] = label]
  BY <1>0 DEF SetContent, Goto
<1>3. /\ DOMAIN directories' = DOMAIN directories \cup {i} /\ directories'[i] = f.entries
      /\ \A d \in DOMAIN directories \ {i} : directories'[d] = directories[d]
  BY <1>0 DEF SetContent, Put, Replaced
<1>4. IsDirectory(i) /\ InUse(i)
  BY <1>0, <1>1 DEF IInv, LeavesUp, Numbered
<1>5. /\ CallsNest'
      /\ \A v \in Threads \ {w} : at'[v] = at[v]
      /\ at'[w] = label
      /\ label = "done" <=> L = 1
  BY <1>0, <1>1, <1>2, ReturnNests
<1>6. /\ stack' \in [Threads -> Seq(Frames)]
      /\ \A v \in Threads \ {w} : stack'[v] = stack[v]
  BY <1>1, <1>2, CallsLeft
<1>7. \A v \in Threads : \A k \in Calls(v)' :
        k \in Calls(v) /\ stack'[v][k] = stack[v][k] /\ (v = w => k # L)
  BY <1>0, <1>1, <1>2, CallsLeft
<1>8. \A v \in Threads : \A k \in Calls(v)' :
        Made(v, k)' = Made(v, k) /\ \A n \in Made(v, k) : Holds(v, k, n)' = Holds(v, k, n)
  BY <1>7 DEF Made, Holds
<1>9. /\ Listed(i)' = Made(w, L) /\ \A n \in Made(w, L) : directories'[i][n] = Holds(w, L, n)
      /\ \A d \in DOMAIN directories \ {i} : Listed(d)' = Listed(d)
  BY <1>1, <1>3 DEF Listed, Made, Holds
<1>10. Typed'
  <2>1. at' \in [Threads -> Labels]
    BY <1>0, <1>2 DEF IInv, Typed, Labels
  <2>2. \A v \in Threads : \A k \in Calls(v)' : stack'[v][k].left \subseteq DOMAIN TreeOf[v]
    BY <1>7 DEF IInv, Typed
  <2>3. \A d \in DOMAIN directories' : directories'[d] \in Tables
    BY <1>1, <1>3 DEF IInv, Typed, Frames
  <2> QED
    BY <1>2, <1>6, <2>1, <2>2, <2>3 DEF IInv, Typed
<1>11. Numbered'
  <2>1. \A v \in Threads : \A k \in Calls(v)' :
          /\ InUse(stack'[v][k].inode)
          /\ \A n \in Made(v, k)' : InUse(Holds(v, k, n)'.inode) /\ Holds(v, k, n)'.inode # Root
    BY <1>7, <1>8 DEF IInv, Numbered
  <2>2. \A j \in DOMAIN nodes \cup DOMAIN directories' : InUse(j)
    BY <1>3, <1>4 DEF IInv, Numbered
  <2>3. \A d \in DOMAIN directories' : \A n \in Listed(d)' :
          InUse(directories'[d][n].inode) /\ directories'[d][n].inode # Root
    BY <1>1, <1>3, <1>9 DEF IInv, Numbered
  <2> QED
    BY <1>2, <2>1, <2>2, <2>3 DEF Numbered, InUse
<1>12. Apart'
  <2>1. ASSUME NEW d \in DOMAIN directories', NEW n \in Listed(d)'
        PROVE  \/ d = i /\ n \in Made(w, L) /\ directories'[d][n] = Holds(w, L, n)
               \/ d # i /\ d \in DOMAIN directories /\ n \in Listed(d)
                    /\ directories'[d][n] = directories[d][n]
    BY <1>3, <1>9
  <2>2. ASSUME NEW d1 \in DOMAIN directories', NEW d2 \in DOMAIN directories',
               NEW m1 \in Listed(d1)', NEW m2 \in Listed(d2)',
               directories'[d1][m1].inode = directories'[d2][m2].inode
        PROVE  d1 = d2 /\ m1 = m2
    BY <1>1, <2>1, <2>2 DEF IInv, Apart
  <2>3. \A v1, v2 \in Threads : \A k1 \in Calls(v1)', k2 \in Calls(v2)' :
          \A m1 \in Made(v1, k1)', m2 \in Made(v2, k2)' :
            Holds(v1, k1, m1)'.inode = Holds(v2, k2, m2)'.inode => v1 = v2 /\ k1 = k2 /\ m1 = m2
    BY <1>7, <1>8 DEF IInv, Apart
  <2>4. ASSUME NEW d \in DOMAIN directories', NEW v \in Threads, NEW m \in Listed(d)',
               NEW k \in Calls(v)', NEW j \in Made(v, k)'
        PROVE  directories'[d][m].inode # Holds(v, k, j)'.inode
    <3>1. /\ k \in Calls(v) /\ j \in Made(v, k) /\ Holds(v, k, j)' = Holds(v, k, j)
          /\ ~ (v = w /\ k = L)
      BY <1>7, <1>8
    <3>2. CASE m \in Made(w, L) /\ directories'[d][m] = Holds(w, L, m)
      BY <1>1, <3>1, <3>2 DEF IInv, Apart
    <3>3. CASE d \in DOMAIN directories /\ m \in Listed(d) /\ directories'[d][m] = directories[d][m]
      BY <3>1, <3>3 DEF IInv, Apart
    <3> QED
      BY <2>1, <3>2, <3>3
  <2> QED
    BY <2>2, <2>3, <2>4 DEF Apart
<1>13. DotsRight'
  <2>1. ASSUME NEW d \in DOMAIN directories'
        PROVE  /\ ".." \notin DOMAIN directories'[d]
               /\ "." \in DOMAIN directories'[d] => directories'[d]["."] = Entry(d, "Directory")
    <3>1. CASE d = i
      <4>1. /\ ".." \notin DOMAIN f.entries
            /\ "." \in DOMAIN f.entries => f.entries["."] = Entry(i, "Directory")
        BY <1>0, <1>1 DEF IInv, DotsRight
      <4> QED
        BY <1>3, <3>1, <4>1
    <3>2. CASE d # i
      BY <1>3, <3>2 DEF IInv, DotsRight
    <3> QED
      BY <3>1, <3>2
  <2>2. \A v \in Threads : \A k \in Calls(v)' :
          /\ ".." \notin DOMAIN stack'[v][k].entries
          /\ "." \in DOMAIN stack'[v][k].entries =>
               stack'[v][k].entries["."] = Entry(stack'[v][k].inode, "Directory")
    BY <1>7 DEF IInv, DotsRight
  <2> QED
    BY <2>1, <2>2 DEF DotsRight
<1>14. LeavesUp'
  <2>1. \A x : Whole(x) => Whole(x)'
    BY <1>2, <1>3 DEF Whole
  <2>2. \A j : IsDirectory(j)' <=> IsDirectory(j)
    BY <1>2 DEF IsDirectory
  <2>3. \A n \in Made(w, L) : Whole(Holds(w, L, n))
    BY <1>0, <1>1 DEF IInv, LeavesUp
  <2>4. ASSUME NEW d \in DOMAIN directories'
        PROVE  IsDirectory(d) /\ \A n \in Listed(d)' : Whole(directories[d][n])'
    <3>1. CASE d = i
      BY <3>1, <1>2, <1>3, <1>4, <1>9, <2>3 DEF Whole
    <3>2. CASE d # i
      BY <3>2, <1>2, <1>3, <1>9 DEF IInv, LeavesUp, Whole
    <3> QED
      BY <3>1, <3>2
  <2>5. \A v \in Threads : at'[v] = "content" => IsDirectory(Innermost(v).inode)'
    BY <1>0, <1>2, <1>5, <1>6 DEF IInv, LeavesUp, Innermost, IsDirectory
  <2>6. ASSUME NEW v \in Threads, NEW k \in Calls(v)', k > 1
        PROVE  stack'[v][k].inode \notin DOMAIN directories'
    <3>1. k \in Calls(v) /\ stack'[v][k] = stack[v][k] /\ ~ (v = w /\ k = L)
      BY <1>7
    <3>2. stack[v][k].inode \notin DOMAIN directories
      BY <2>6, <3>1 DEF IInv, LeavesUp
    <3>3. stack[v][k].inode # i
      <4>1. stack[v][k].inode # Root
        <5>1. PICK n \in Made(v, k - 1) : Holds(v, k - 1, n) = Entry(stack[v][k].inode, Inserts(v, k))
          BY <2>6, <3>1 DEF IInv, CallsNest, Nests
        <5>2. k - 1 \in Calls(v)
          BY <2>6, <3>1 DEF Calls, IInv, Typed
        <5> QED
          BY <5>1, <5>2 DEF IInv, Numbered, Entry
      <4>2. i = stack[w][L].inode
        BY <1>0, <1>1
      <4> QED
        BY <1>1, <3>1, <4>1, <4>2, OnePlace
    <3> QED
      BY <1>3, <3>1, <3>2, <3>3
  <2>7. ASSUME NEW v \in Threads, NEW k \in Calls(v)', NEW n \in Made(v, k)'
        PROVE  \/ Whole(Holds(v, k, n))'
               \/ k < Len(stack'[v]) /\ stack'[v][k + 1].inode = Holds(v, k, n)'.inode
    <3>1. k \in Calls(v) /\ n \in Made(v, k) /\ Holds(v, k, n)' = Holds(v, k, n)
      BY <1>7, <1>8
    <3>2. CASE Whole(Holds(v, k, n))
      BY <1>2, <1>3, <3>1, <3>2 DEF Whole
    <3>3. CASE k < Len(stack[v]) /\ stack[v][k + 1].inode = Holds(v, k, n).inode
      <4>1. CASE v # w
        BY <1>6, <3>1, <3>3, <4>1
      <4>2. CASE v = w /\ k + 1 = L
        <5>1. Holds(v, k, n).inode = stack[w][L].inode /\ i = stack[w][L].inode
          BY <1>0, <1>1, <3>3, <4>2
        <5>2. Holds(v, k, n) = Entry(stack[w][L].inode, Inserts(w, L))
          <6>1. L \in Calls(w) /\ k \in Calls(v) /\ n \in Made(v, k)
            BY <1>1, <3>1
          <6> QED
            BY <5>1, <6>1, OnePlace
        <5>3. Holds(v, k, n).inode = i
          BY <5>1
        <5>4. Inserts(w, L) = "Directory"
          BY <1>0, <1>1, <3>1, <4>2 DEF IInv, CallsNest, Nests, Calls
        <5>5. Whole(Holds(v, k, n))'
          BY <1>2, <1>3, <1>4, <3>1, <5>2, <5>3, <5>4 DEF Whole, IsDirectory, Entry
        <5> QED
          BY <5>5
      <4>3. CASE v = w /\ k + 1 # L
        <5>1. k \in Nat /\ k > 0 /\ k < L - 1 /\ Len(stack'[w]) = L - 1
          <6>1. Len(stack'[w]) = L - 1
            BY <1>0, <1>1, <1>2, CallsLeft
          <6>2. k \in Nat /\ k < L /\ k > 0
            BY <1>0, <1>1, <3>1, <3>3, <4>3 DEF Calls
          <6> QED
            BY <1>1, <4>3, <6>1, <6>2
        <5>2. k + 1 \in Calls(w)'
          BY <1>1, <5>1 DEF Calls
        <5> QED
          BY <1>7, <1>1, <3>1, <3>3, <4>3, <5>1, <5>2
      <4> QED
        BY <4>1, <4>2, <4>3
    <3> QED
      BY <3>1, <3>2, <3>3 DEF IInv, LeavesUp
  <2>8. \A d \in DOMAIN directories' : IsDirectory(d)' /\ \A n \in Listed(d)' : Whole(directories[d][n])'
    BY <2>2, <2>4
  <2> QED
    BY <2>5, <2>6, <2>7, <2>8 DEF LeavesUp
<1>15. RootFollows'
  <2>1. \A v \in Threads \ {w} : at[v] = "content" =>
          at'[v] = "content" /\ Innermost(v)' = Innermost(v)
    BY <1>5, <1>6 DEF Innermost
  <2>2. \A v \in Threads : at'[v] = "done" => Root \in DOMAIN nodes
    BY <1>0, <1>1, <1>4, <1>5 DEF IInv, RootFollows, CallsNest, Nests, IsDirectory
  <2> QED
    BY <1>0, <1>2, <1>3, <2>1, <2>2 DEF IInv, RootFollows
<1> QED
  BY <1>5, <1>10, <1>11, <1>12, <1>13, <1>14, <1>15 DEF IInv

\* A step that changes nothing preserves the invariant.
LEMMA StutterKeeps ==
  ASSUME IInv, UNCHANGED vars
  PROVE  IInv'
<1> USE DEF vars
<1>1. Typed' /\ Numbered'
  BY DEF IInv, Typed, Numbered, InUse, Listed, Made, Holds, Calls
<1>2. Apart'
  BY DEF IInv, Apart, Listed, Made, Holds, Calls
<1>3. CallsNest' /\ DotsRight'
  BY DEF IInv, CallsNest, Nests, DotsRight, Made, Holds, Calls, Inserts
<1>4. LeavesUp' /\ RootFollows'
  BY DEF IInv, LeavesUp, RootFollows, IsDirectory, Whole, Innermost, Listed, Made, Holds, Calls
<1> QED
  BY <1>1, <1>2, <1>3, <1>4 DEF IInv

\* The invariant holds of every state.
LEMMA IInvHolds == Spec => []IInv
<1>1. Init => IInv
  BY InitHolds
<1>2. IInv /\ [Next]_vars => IInv'
  BY TestRootKeeps, BurnKeeps, ReadEntryKeeps, InsertLeafKeeps, SetInodeKeeps, SetContentKeeps,
     StutterKeeps
     DEF Next
<1> QED
  BY <1>1, <1>2, PTL DEF Spec

-----------------------------------------------------------------------------
(* The theorems.                                                           *)

\* Whatever trees any number of threads insert at once, an inode is listed in
\* one place, or held by one call of insert_tree: the counter that
\* allocate_inode takes inodes from is enough to keep the threads apart.
THEOREM InodesAlwaysUnique == Spec => []InodesAreUnique
<1>1. ASSUME IInv PROVE InodesAreUnique
  <2>1. \A d1, d2 \in DOMAIN directories : \A n1 \in Listed(d1), n2 \in Listed(d2) :
          /\ directories[d1][n1].inode # Root
          /\ directories[d1][n1].inode = directories[d2][n2].inode => d1 = d2 /\ n1 = n2
    BY <1>1 DEF IInv, Numbered, Apart
  <2>2. \A w \in Threads : DOMAIN stack[w] = Calls(w)
    BY <1>1 DEF IInv, Typed, Calls
  <2>3. ASSUME NEW w1 \in Threads, NEW w2 \in Threads, NEW k1 \in Calls(w1), NEW k2 \in Calls(w2),
               stack[w1][k1].inode = stack[w2][k2].inode
        PROVE  (w1 = w2 /\ k1 = k2) \/ stack[w1][k1].inode = Root
    BY <1>1, <2>3, OnePlace
  <2> QED
    BY <2>1, <2>2, <2>3 DEF InodesAreUnique, Listed
<1> QED
  BY <1>1, IInvHolds, PTL

\* What any thread can find in the tables is whole, also while another inserts
\* a root: insert_tree publishes a directory after all that is in it.
THEOREM AlwaysComplete == Spec => []PublishedIsComplete
<1>1. ASSUME IInv PROVE PublishedIsComplete
  <2>1. ASSUME NEW d \in DOMAIN directories, NEW n \in DOMAIN directories[d]
        PROVE  Whole(directories[d][n])
    <3>1. CASE n \in Listed(d)
      BY <1>1, <3>1 DEF IInv, LeavesUp
    <3>2. CASE n \notin Listed(d)
      <4>1. n = "."
        BY <1>1, <2>1, <3>2 DEF IInv, DotsRight, Listed, Dots
      <4>2. directories[d][n] = Entry(d, "Directory")
        BY <1>1, <2>1, <4>1 DEF IInv, DotsRight
      <4>3. IsDirectory(d)
        BY <1>1 DEF IInv, LeavesUp
      <4> QED
        BY <4>2, <4>3 DEF Whole, IsDirectory, Entry
    <3> QED
      BY <3>1, <3>2
  <2> QED
    BY <2>1 DEF PublishedIsComplete, Whole
<1> QED
  BY <1>1, IInvHolds, PTL

\* When init is answered there is a root, whichever thread inserted it, and its
\* content is there or is the next thing that thread writes.
THEOREM InitAlwaysHasRoot == Spec => []AnsweredInitHasRoot
<1>1. ASSUME IInv PROVE AnsweredInitHasRoot
  BY <1>1, SessionAssumption DEF IInv, RootFollows, AnsweredInitHasRoot
<1> QED
  BY <1>1, IInvHolds, PTL

-----------------------------------------------------------------------------
(* The labels.                                                             *)

Labellings == [Nat -> Threads \X Nat]
Children(w, k) == {c \in DOMAIN TreeOf[w] : TreeOf[w][c].parent = k}

\* The table T has "." and the entries C of the tree of w, each with an inode
\* that was allocated for it.
Lists(T, w, C, L) ==
  /\ DOMAIN T = {"."} \cup {TreeOf[w][c].name : c \in C}
  /\ \A c \in C :
       /\ T[TreeOf[w][c].name].kind = TreeOf[w][c].kind
       /\ L[T[TreeOf[w][c].name].inode] = <<w, c>>

\* The entry that an inode was allocated for.
EntryOf(i, L) == TreeOf[L[i][1]][L[i][2]]

NodesFit(L) ==
  \A i \in DOMAIN nodes \ {Root} :
    nodes[i].kind = EntryOf(i, L).kind /\ nodes[i].hash = EntryOf(i, L).hash
DirectoriesFit(L) ==
  /\ \A d \in DOMAIN directories \ {Root} :
       Lists(directories[d], L[d][1], Children(L[d][1], L[d][2]), L)
  /\ Root \in DOMAIN directories =>
       \E w \in Threads : Lists(directories[Root], w, Children(w, 0), L)

\* A call has made the entries that it has read, and when it writes its content
\* it has read them all.
CallFits(w, f, L) ==
  /\ f.left \subseteq Children(w, f.index)
  /\ Lists(f.entries, w, Children(w, f.index) \ f.left, L)
  /\ f.inode = Root => f.index = 0
  /\ f.inode # Root => L[f.inode] = <<w, f.index>>
CallsFit(L) == \A w \in Threads : \A k \in Calls(w) : CallFits(w, stack[w][k], L)
AllRead == \A w \in Threads : at[w] = "content" => Innermost(w).left = {}

Fits(L) == NodesFit(L) /\ DirectoriesFit(L) /\ CallsFit(L)
Labelled == AllRead /\ \E L \in Labellings : Fits(L)

-----------------------------------------------------------------------------
(* The labels, step by step.                                               *)

\* Siblings have different names, and none is called ".".
LEMMA NamesApart ==
  ASSUME NEW w \in Threads, NEW k, NEW c \in Children(w, k)
  PROVE  /\ c \in Nat /\ c > 0 /\ c \in DOMAIN TreeOf[w] /\ TreeOf[w][c].name \notin Dots
         /\ \A d \in Children(w, k) : TreeOf[w][d].name = TreeOf[w][c].name => d = c
<1>1. \A d \in Children(w, k) : /\ d \in 1..Len(TreeOf[w]) /\ d \in DOMAIN TreeOf[w]
                               /\ d \in Nat /\ d > 0 /\ TreeOf[w][d].parent = k
                               /\ TreeOf[w][d].name \notin Dots
  BY PreorderAssumption, TreesAssumption DEF Children
<1>2. ASSUME NEW d \in Children(w, k), NEW e \in Children(w, k), d < e
      PROVE  TreeOf[w][d].name # TreeOf[w][e].name
  <2>1. d \in 1..(e - 1)
    BY <1>1, <1>2
  <2> QED
    BY <1>1, <2>1, PreorderAssumption
<1>3. ASSUME NEW d \in Children(w, k), TreeOf[w][d].name = TreeOf[w][c].name PROVE d = c
  <2>1. ~ (d < c) /\ ~ (c < d)
    BY <1>2, <1>3
  <2> QED
    BY <1>1, <2>1
<1> QED
  BY <1>1, <1>3

\* An inode that no entry of a table has may get a label.
LEMMA ListsOn ==
  ASSUME NEW T, NEW w \in Threads, NEW k, NEW C \in SUBSET Children(w, k), NEW L \in Labellings,
         Lists(T, w, C, L), NEW i \in Nat, NEW x \in Threads \X Nat,
         \A n \in DOMAIN T \ Dots : T[n].inode # i /\ T[n].inode \in Nat
  PROVE  Lists(T, w, C, [L EXCEPT ![i] = x])
<1> SUFFICES ASSUME NEW c \in C
             PROVE  [L EXCEPT ![i] = x][T[TreeOf[w][c].name].inode] = L[T[TreeOf[w][c].name].inode]
  BY DEF Lists
<1>1. TreeOf[w][c].name \in DOMAIN T \ Dots
  BY NamesApart DEF Lists
<1>2. T[TreeOf[w][c].name].inode # i /\ T[TreeOf[w][c].name].inode \in Nat
  BY <1>1
<1> QED
  BY <1>2 DEF Labellings

\* Before any thread begins there is nothing to label.
LEMMA InitLabelled ==
  ASSUME Init PROVE Labelled
<1>1. DOMAIN nodes = {} /\ DOMAIN directories = {}
  BY DEF Init, EmptyMap
<1>2. \A w \in Threads : Calls(w) = {} /\ at[w] # "content"
  BY DEF Init, Calls
<1>3. PICK L \in Labellings : L = [i \in Nat |-> <<Session, 0>>]
  BY SessionAssumption DEF Labellings
<1>4. Fits(L)
  BY <1>1, <1>2 DEF Fits, NodesFit, DirectoriesFit, CallsFit
<1> QED
  BY <1>2, <1>4 DEF Labelled, AllRead

\* Steps that leave tables and calls as they were.
LEMMA SameLabels ==
  ASSUME Labelled, nodes' = nodes, directories' = directories, stack' = stack, AllRead'
  PROVE  Labelled'
<1>1. PICK L \in Labellings : Fits(L)
  BY DEF Labelled
<1>2. Fits(L)'
  BY <1>1 DEF Fits, NodesFit, DirectoriesFit, CallsFit, Calls
<1> QED
  BY <1>2 DEF Labelled

\* The first call has read nothing.
LEMMA BurnLabelled ==
  ASSUME IInv, Labelled, NEW w \in Threads, Burn(w) PROVE Labelled'
<1>1. PICK L \in Labellings : Fits(L)
  BY DEF Labelled
<1>2. PICK f : f = Frame(TreeOf[w], 0, Root)
  OBVIOUS
<1>3. /\ f.index = 0 /\ f.inode = Root /\ f.left = Children(w, 0)
      /\ DOMAIN f.entries = {"."}
  BY <1>2 DEF Frame, Children
<1>4. /\ nodes' = nodes /\ directories' = directories
      /\ stack'[w] = <<f>> /\ at'[w] = "entries"
      /\ \A v \in Threads \ {w} : stack'[v] = stack[v] /\ at'[v] = at[v]
  BY <1>2 DEF IInv, Typed, Burn, Goto
<1>5. CallFits(w, f, L)
  BY <1>3 DEF CallFits, Lists
<1>6. CallsFit(L)'
  <2> SUFFICES ASSUME NEW v \in Threads, NEW k \in Calls(v)' PROVE CallFits(v, stack'[v][k], L)
    BY DEF CallsFit, CallFits, Children, Lists
  <2>1. CASE v = w
    <3>1. stack'[v][k] = f
      BY <1>4, <2>1 DEF Calls
    <3> QED
      BY <1>5, <2>1, <3>1
  <2>2. CASE v # w
    BY <1>1, <1>4, <2>2 DEF Fits, CallsFit, Calls
  <2> QED
    BY <2>1, <2>2
<1>7. NodesFit(L)' /\ DirectoriesFit(L)'
  BY <1>1, <1>4 DEF Fits, NodesFit, DirectoriesFit
<1>8. AllRead'
  BY <1>4 DEF Labelled, AllRead, Innermost
<1> QED
  BY <1>6, <1>7, <1>8 DEF Labelled, Fits

\* An entry is read: its inode, which nothing has yet, gets its label.
LEMMA ReadLabelled ==
  ASSUME IInv, Labelled, NEW w \in Threads, ReadEntry(w) PROVE Labelled'
<1>1. PICK L \in Labellings : Fits(L)
  BY DEF Labelled
<1>2. PICK c, g, h, n, l, e : ReadMakes(w, c, g, h, n, l, e)
  BY ReadEffect
<1>3. /\ n = TreeOf[w][c].name /\ e = Entry(next_inode, TreeOf[w][c].kind)
      /\ l \in Calls(w) /\ Innermost(w) = stack[w][l] /\ stack[w][l] \in Frames
      /\ c \in Nat /\ c \in DOMAIN TreeOf[w] /\ next_inode \in Nat
      /\ directories' = directories /\ nodes' = nodes
  BY <1>2 DEF ReadMakes
<1>4. c \in stack[w][l].left
  <2>1. Typed /\ stack[w] # << >> /\ Innermost(w).left # {} /\ c = Reading(w)
    BY <1>2 DEF ReadMakes, IInv
  <2> QED
    BY <1>3, <2>1, ReadingIsLeft
<1>5. /\ g.index = stack[w][l].index /\ g.inode = stack[w][l].inode
      /\ g.left = stack[w][l].left \ {c}
      /\ DOMAIN g.entries = DOMAIN stack[w][l].entries \cup {n}
      /\ g.entries[n] = e
      /\ \A m \in DOMAIN stack[w][l].entries \ {n} : g.entries[m] = stack[w][l].entries[m]
  <2>1. g.left = stack[w][l].left \ {c}
    <3>1. g = WithEntry(stack[w][l], TreeOf[w], c, next_inode)
      BY <1>2, <1>3 DEF ReadMakes
    <3> QED
      BY <1>3, <3>1 DEF WithEntry, Frames
  <2> QED
    BY <1>2, <2>1 DEF ReadMakes
<1>6. /\ h.index = c /\ h.inode = next_inode /\ h.left = Children(w, c)
      /\ DOMAIN h.entries = {"."}
  BY <1>2 DEF ReadMakes, Frame, Children
<1>7. \A v \in Threads : \A k \in Calls(v)' :
        \/ v = w /\ stack'[v][k] = h
        \/ v = w /\ stack'[v][k] = g
        \/ k \in Calls(v) /\ stack'[v][k] = stack[v][k]
  <2>1. /\ \A v \in Threads \ {w} : Calls(v)' = Calls(v)
        /\ Calls(w)' = Calls(w) \cup {l + 1} /\ stack'[w][l + 1] = h /\ stack'[w][l] = g
        /\ \A v \in Threads : \A k \in Calls(v) : v # w \/ k # l => stack'[v][k] = stack[v][k]
    BY <1>2 DEF ReadMakes
  <2> QED
    BY <2>1
<1>8. PICK M \in Labellings : /\ M = [L EXCEPT ![next_inode] = <<w, c>>]
                             /\ M[next_inode] = <<w, c>>
                             /\ \A i \in Nat : i # next_inode => M[i] = L[i]
  <2>1. [L EXCEPT ![next_inode] = <<w, c>>] \in Labellings
    BY <1>3 DEF Labellings
  <2> QED
    BY <1>3, <2>1 DEF Labellings
<1>9. \A i : InUse(i) => i \in Nat /\ i # next_inode /\ M[i] = L[i]
  BY <1>3, <1>8 DEF InUse
<1>10. next_inode # Root
  BY <1>3 DEF IInv, Numbered, InUse, Root
<1>11. NodesFit(M)'
  BY <1>1, <1>3, <1>9 DEF IInv, Numbered, Fits, NodesFit, EntryOf
<1>12. DirectoriesFit(M)'
  <2>1. ASSUME NEW d \in DOMAIN directories, NEW v \in Threads, NEW k,
               Lists(directories[d], v, Children(v, k), L)
        PROVE  Lists(directories[d], v, Children(v, k), M)
    <3>1. \A m \in DOMAIN directories[d] \ Dots :
            directories[d][m].inode # next_inode /\ directories[d][m].inode \in Nat
      BY <1>9 DEF IInv, Numbered, Listed
    <3> QED
      BY <1>3, <1>8, <2>1, <3>1, ListsOn
  <2>2. \A d \in DOMAIN directories \ {Root} : M[d] = L[d] /\ L[d][1] \in Threads
    BY <1>9 DEF IInv, Numbered, Labellings
  <2> QED
    BY <1>1, <1>3, <2>1, <2>2 DEF Fits, DirectoriesFit
<1>13. CallsFit(M)'
  <2>1. ASSUME NEW v \in Threads, NEW k \in Calls(v)
        PROVE  /\ stack[v][k].left \subseteq Children(v, stack[v][k].index)
               /\ Lists(stack[v][k].entries, v, Children(v, stack[v][k].index) \ stack[v][k].left, M)
               /\ stack[v][k].inode = Root => stack[v][k].index = 0
               /\ stack[v][k].inode # Root => M[stack[v][k].inode] = <<v, stack[v][k].index>>
    <3>1. CallFits(v, stack[v][k], L)
      BY <1>1 DEF Fits, CallsFit
    <3>2. \A m \in DOMAIN stack[v][k].entries \ Dots :
            stack[v][k].entries[m].inode # next_inode /\ stack[v][k].entries[m].inode \in Nat
      BY <1>9 DEF IInv, Numbered, Made, Holds
    <3>3. M[stack[v][k].inode] = L[stack[v][k].inode]
      BY <1>9 DEF IInv, Numbered
    <3>4. Lists(stack[v][k].entries, v, Children(v, stack[v][k].index) \ stack[v][k].left, M)
      BY <1>3, <1>8, <3>1, <3>2, ListsOn DEF CallFits
    <3> QED
      BY <3>1, <3>3, <3>4 DEF CallFits
  <2>2. CallFits(w, h, M)
    <3>1. Children(w, h.index) \ h.left = {}
      BY <1>6
    <3>2. h.inode # Root /\ M[h.inode] = <<w, h.index>>
      BY <1>6, <1>8, <1>10
    <3> QED
      BY <1>6, <3>1, <3>2 DEF CallFits, Lists
  <2>3. CallFits(w, g, M)
    <3> DEFINE f == stack[w][l]
               C == Children(w, f.index) \ f.left
    <3>1. /\ f.left \subseteq Children(w, f.index) /\ Lists(f.entries, w, C, M)
          /\ f.inode = Root => f.index = 0
          /\ f.inode # Root => M[f.inode] = <<w, f.index>>
      BY <1>3, <2>1
    <3>2. c \in Children(w, f.index) /\ c \notin C
      BY <1>4, <3>1
    <3>3. Children(w, g.index) \ g.left = C \cup {c}
      BY <1>5, <3>2
    <3>4. \A d \in C : TreeOf[w][d].name # n
      BY <1>3, <3>2, NamesApart
    <3>5. DOMAIN g.entries = {"."} \cup {TreeOf[w][d].name : d \in C \cup {c}}
      BY <1>3, <1>5, <3>1 DEF Lists
    <3>6. \A d \in C : g.entries[TreeOf[w][d].name] = f.entries[TreeOf[w][d].name]
      BY <1>5, <3>1, <3>4 DEF Lists
    <3>7. g.entries[n].kind = TreeOf[w][c].kind /\ M[g.entries[n].inode] = <<w, c>>
      BY <1>3, <1>5, <1>8 DEF Entry
    <3> HIDE DEF C
    <3>8. Lists(g.entries, w, C \cup {c}, M)
      BY <1>3, <3>1, <3>5, <3>6, <3>7 DEF Lists
    <3>9. g.left \subseteq Children(w, g.index)
      BY <1>5, <3>1
    <3> QED
      BY <1>5, <3>1, <3>3, <3>8, <3>9 DEF CallFits
  <2>4. ASSUME NEW v \in Threads, NEW k \in Calls(v)'
        PROVE  CallFits(v, stack'[v][k], M)
    <3>1. CASE v = w /\ stack'[v][k] = h
      BY <2>2, <3>1
    <3>2. CASE v = w /\ stack'[v][k] = g
      BY <2>3, <3>2
    <3>3. CASE k \in Calls(v) /\ stack'[v][k] = stack[v][k]
      BY <2>1, <3>3 DEF CallFits
    <3> QED
      BY <1>7, <3>1, <3>2, <3>3
  <2> QED
    BY <2>4 DEF CallsFit, CallFits, Children, Lists
<1>14. AllRead'
  <2>1. at' = [at EXCEPT ![w] = IF TreeOf[w][c].kind = "Directory" THEN "entries" ELSE "leaf"]
        /\ \A v \in Threads \ {w} : stack'[v] = stack[v]
    BY <1>2 DEF ReadMakes
  <2>2. at'[w] # "content" /\ \A v \in Threads \ {w} : at'[v] = at[v]
    BY <2>1 DEF IInv, Typed
  <2> QED
    BY <2>1, <2>2 DEF Labelled, AllRead, Innermost
<1> QED
  BY <1>8, <1>11, <1>12, <1>13, <1>14 DEF Labelled, Fits

\* A call that returns takes nothing from the labels of the others.
LEMMA FewerCallsFit ==
  ASSUME IInv, NEW w \in Threads, stack[w] # << >>, stack' = [stack EXCEPT ![w] = Callers(w)],
         NEW L, CallsFit(L)
  PROVE  CallsFit(L)'
<1>1. \A v \in Threads : \A k \in Calls(v)' : k \in Calls(v) /\ stack'[v][k] = stack[v][k]
  BY CallsLeft
<1>2. \A v \in Threads : \A k \in Calls(v)' : CallFits(v, stack'[v][k], L)
  BY <1>1 DEF CallsFit
<1> QED
  BY <1>2 DEF CallsFit, CallFits, Children, Lists

\* The steps of other threads leave what a thread has read.
LEMMA AllReadOn ==
  ASSUME IInv, AllRead, NEW w \in Threads, at'[w] # "content",
         \A v \in Threads \ {w} : stack'[v] = stack[v] /\ at'[v] = at[v]
  PROVE  AllRead'
BY DEF AllRead, Innermost

\* A file or symlink gets its node, with the kind and the object of its entry.
LEMMA LeafLabelled ==
  ASSUME IInv, Labelled, NEW w \in Threads, InsertLeaf(w) PROVE Labelled'
<1>1. PICK L \in Labellings : Fits(L)
  BY DEF Labelled
<1>2. PICK f, m : f = Innermost(w) /\ m = Len(stack[w])
  OBVIOUS
<1>3. /\ at[w] = "leaf" /\ stack[w] # << >> /\ m > 1 /\ m \in Nat /\ m \in Calls(w)
      /\ f = stack[w][m] /\ directories' = directories
      /\ stack' = [stack EXCEPT ![w] = Callers(w)]
      /\ at' = [at EXCEPT ![w] = "entries"]
  BY <1>2 DEF InsertLeaf, Goto, IInv, CallsNest, Nests, Typed, Calls, Innermost
<1>4. /\ \A j \in DOMAIN nodes' : j # f.inode => j \in DOMAIN nodes /\ nodes'[j] = nodes[j]
      /\ f.inode \in DOMAIN nodes' =>
           /\ nodes'[f.inode].kind = TreeOf[w][f.index].kind
           /\ nodes'[f.inode].hash = TreeOf[w][f.index].hash
  BY <1>2 DEF InsertLeaf, Put, NewAttrs
<1>5. CallFits(w, f, L)
  BY <1>1, <1>3 DEF Fits, CallsFit
<1>6. NodesFit(L)'
  BY <1>1, <1>4, <1>5 DEF Fits, NodesFit, EntryOf, CallFits
<1>7. DirectoriesFit(L)'
  BY <1>1, <1>3 DEF Fits, DirectoriesFit
<1>8. CallsFit(L)'
  BY <1>1, <1>3, FewerCallsFit DEF Fits
<1>9. \A v \in Threads \ {w} : stack'[v] = stack[v] /\ at'[v] = at[v]
  BY <1>3 DEF IInv, Typed
<1>10. at'[w] # "content"
  BY <1>3 DEF IInv, Typed
<1>11. AllRead'
  BY <1>9, <1>10, AllReadOn DEF Labelled
<1> QED
  BY <1>6, <1>7, <1>8, <1>11 DEF Labelled, Fits

\* A directory gets its node once its entries are read.
LEMMA InodeLabelled ==
  ASSUME IInv, Labelled, NEW w \in Threads, SetInode(w) PROVE Labelled'
<1>1. PICK L \in Labellings : Fits(L)
  BY DEF Labelled
<1>2. PICK f, m : f = Innermost(w) /\ m = Len(stack[w])
  OBVIOUS
<1>3. /\ at[w] = "entries" /\ stack[w] # << >> /\ m > 0 /\ m \in Nat /\ m \in Calls(w)
      /\ f = stack[w][m] /\ f.left = {} /\ directories' = directories /\ stack' = stack
      /\ at' = [at EXCEPT ![w] = "content"]
  BY <1>2 DEF SetInode, Goto, IInv, CallsNest, Nests, Typed, Calls, Innermost
<1>4. /\ \A j \in DOMAIN nodes' : j # f.inode => j \in DOMAIN nodes /\ nodes'[j] = nodes[j]
      /\ nodes'[f.inode].kind = "Directory" /\ nodes'[f.inode].hash = NoHash
  BY <1>2 DEF SetInode, Put, NewAttrs
<1>5. CallFits(w, f, L)
  BY <1>1, <1>3 DEF Fits, CallsFit
<1>6. f.inode # Root => EntryOf(f.inode, L).kind = "Directory" /\ EntryOf(f.inode, L).hash = NoHash
  <2> SUFFICES ASSUME f.inode # Root
               PROVE  f.index \in DOMAIN TreeOf[w] /\ TreeOf[w][f.index].kind = "Directory"
    BY <1>5, PreorderAssumption DEF EntryOf, CallFits
  <2>1. m # 1 /\ at[w] # "leaf"
    BY <1>3 DEF IInv, CallsNest, Nests
  <2> QED
    BY <1>3, <2>1 DEF IInv, CallsNest, Nests, Inserts
<1>7. NodesFit(L)'
  BY <1>1, <1>4, <1>6 DEF Fits, NodesFit, EntryOf
<1>8. DirectoriesFit(L)' /\ CallsFit(L)'
  BY <1>1, <1>3 DEF Fits, DirectoriesFit, CallsFit, Calls
<1>9. AllRead'
  <2>1. \A v \in Threads \ {w} : at'[v] = at[v]
    BY <1>3 DEF IInv, Typed
  <2> QED
    BY <1>2, <1>3, <2>1 DEF Labelled, AllRead, Innermost
<1> QED
  BY <1>7, <1>8, <1>9 DEF Labelled, Fits

\* The content of a directory is all of its entries.
LEMMA ContentLabelled ==
  ASSUME IInv, Labelled, NEW w \in Threads, SetContent(w) PROVE Labelled'
<1>1. PICK L \in Labellings : Fits(L)
  BY DEF Labelled
<1>2. PICK f, m, label : /\ f = Innermost(w) /\ m = Len(stack[w])
                         /\ label = IF Callers(w) = << >> THEN "done" ELSE "entries"
  OBVIOUS
<1>3. /\ at[w] = "content" /\ stack[w] # << >> /\ m > 0 /\ m \in Nat /\ m \in Calls(w)
      /\ f = stack[w][m] /\ nodes' = nodes
      /\ stack' = [stack EXCEPT ![w] = Callers(w)]
      /\ at' = [at EXCEPT ![w] = label]
  BY <1>2 DEF SetContent, Goto, IInv, CallsNest, Nests, Typed, Calls, Innermost
<1>4. /\ \A j \in DOMAIN directories' :
           j # f.inode => j \in DOMAIN directories /\ directories'[j] = directories[j]
      /\ directories'[f.inode] = f.entries
      /\ Root # f.inode => (Root \in DOMAIN directories' <=> Root \in DOMAIN directories)
  BY <1>2 DEF SetContent, Put, Replaced
<1>5. CallFits(w, f, L) /\ f.left = {}
  BY <1>1, <1>2, <1>3 DEF Fits, CallsFit, Labelled, AllRead
<1>6. /\ Lists(f.entries, w, Children(w, f.index), L)
      /\ f.inode = Root => f.index = 0
      /\ f.inode # Root => L[f.inode] = <<w, f.index>>
  <2>1. Children(w, f.index) \ f.left = Children(w, f.index)
    BY <1>5
  <2> QED
    BY <1>5, <2>1 DEF CallFits
<1>7. \A d \in DOMAIN directories' \ {Root} :
        Lists(directories'[d], L[d][1], Children(L[d][1], L[d][2]), L)
  BY <1>1, <1>4, <1>6 DEF Fits, DirectoriesFit
<1>8. Root \in DOMAIN directories' =>
        \E v \in Threads : Lists(directories'[Root], v, Children(v, 0), L)
  BY <1>1, <1>4, <1>6 DEF Fits, DirectoriesFit
<1>9. DirectoriesFit(L)'
  BY <1>7, <1>8 DEF DirectoriesFit, Lists, Children
<1>10. NodesFit(L)'
  BY <1>1, <1>3 DEF Fits, NodesFit
<1>11. CallsFit(L)'
  BY <1>1, <1>3, FewerCallsFit DEF Fits
<1>12. \A v \in Threads \ {w} : stack'[v] = stack[v] /\ at'[v] = at[v]
  BY <1>3 DEF IInv, Typed
<1>13. at'[w] # "content"
  BY <1>2, <1>3 DEF IInv, Typed
<1>14. AllRead'
  BY <1>12, <1>13, AllReadOn DEF Labelled
<1> QED
  BY <1>9, <1>10, <1>11, <1>14 DEF Labelled, Fits

\* The labels hold of every state.
LEMMA LabelledHolds == Spec => []Labelled
<1>1. ASSUME IInv, Labelled, NEW w \in Threads, TestRoot(w) PROVE Labelled'
  <2>1. /\ nodes' = nodes /\ directories' = directories /\ stack' = stack
        /\ at'[w] # "content" /\ \A v \in Threads \ {w} : at'[v] = at[v]
    BY <1>1 DEF TestRoot, Goto, IInv, Typed
  <2>2. AllRead'
    BY <1>1, <2>1, AllReadOn DEF Labelled
  <2> QED
    BY <1>1, <2>1, <2>2, SameLabels
<1>2. ASSUME Labelled, UNCHANGED vars PROVE Labelled'
  <2>1. AllRead'
    BY <1>2 DEF vars, Labelled, AllRead, Innermost
  <2> QED
    BY <1>2, <2>1, SameLabels DEF vars
<1>3. IInv /\ Labelled /\ [Next]_vars => Labelled'
  BY <1>1, <1>2, BurnLabelled, ReadLabelled, LeafLabelled, InodeLabelled, ContentLabelled DEF Next
<1> QED
  BY <1>3, InitLabelled, IInvHolds, PTL DEF Spec

-----------------------------------------------------------------------------
(* What is shown, as the levels of the directories and the paths of a tree. *)

\* A set that holds a number whenever it holds those below it holds them all.
LEMMA AllBelow ==
  ASSUME NEW S, \A n \in Nat : (\A m \in Nat : m < n => m \in S) => n \in S
  PROVE  \A n \in Nat : n \in S
<1> SUFFICES ASSUME Nat \ S # {} PROVE FALSE
  OBVIOUS
<1>1. PICK n \in Nat \ S : \A m \in Nat \ S : n <= m
  BY LeastOf
<1>2. \A m \in Nat : m < n => m \in S
  BY <1>1
<1> QED
  BY <1>1, <1>2

\* The levels of Listing, up to the n-th, and the paths of PathsOf.
Deeper(S) ==
  S \cup UNION {{<<Append(p[1], n), directories[p[2]][n].inode>> :
                   n \in DOMAIN directories[p[2]] \ Dots} :
                p \in {p \in S : p[2] \in DOMAIN directories}}
IsLevels(level, n) ==
  level = [depth \in 0..n |->
             IF depth = 0 THEN {<< << >>, Root>>} ELSE Deeper(level[depth - 1])]
IsPaths(path, t, n) ==
  path = [k \in 0..n |->
            IF k = 0 THEN << >> ELSE Append(path[t[k].parent], t[k].name)]

\* The entries of t at the paths path.
EntriesAt(path, t) == {<<path[k], t[k].kind, t[k].hash>> : k \in DOMAIN t}

\* There are levels.
LEMMA LevelsExist ==
  ASSUME NEW n \in Nat PROVE \E level : IsLevels(level, n)
<1> DEFINE S == {m \in Nat : \E level : IsLevels(level, m)}
<1>1. ASSUME NEW m \in Nat, \A j \in Nat : j < m => j \in S PROVE m \in S
  <2>1. CASE m = 0
    <3>1. PICK level : level = [depth \in 0..0 |-> {<< << >>, Root>>}]
      OBVIOUS
    <3>2. IsLevels(level, m)
      BY <2>1, <3>1 DEF IsLevels
    <3> QED
      BY <3>2
  <2>2. CASE m # 0
    <3>1. m - 1 \in Nat /\ m - 1 < m
      BY <2>2
    <3>2. PICK l : IsLevels(l, m - 1)
      BY <1>1, <3>1
    <3>3. PICK level : level = [depth \in 0..m |-> IF depth = m THEN Deeper(l[m - 1]) ELSE l[depth]]
      OBVIOUS
    <3>4. ASSUME NEW depth \in 0..m
          PROVE  level[depth] = IF depth = 0 THEN {<< << >>, Root>>} ELSE Deeper(level[depth - 1])
      <4>1. depth # m => depth \in 0..(m - 1)
        BY <2>2
      <4>2. depth # m => l[depth] = IF depth = 0 THEN {<< << >>, Root>>} ELSE Deeper(l[depth - 1])
        BY <3>2, <4>1 DEF IsLevels
      <4>3. depth # 0 => depth - 1 \in 0..m /\ depth - 1 # m
        OBVIOUS
      <4>4. depth # 0 => level[depth - 1] = l[depth - 1]
        BY <3>3, <4>3
      <4> QED
        BY <2>2, <3>3, <4>2, <4>4
    <3>5. level = [depth \in 0..m |->
                     IF depth = 0 THEN {<< << >>, Root>>} ELSE Deeper(level[depth - 1])]
      BY <3>3, <3>4
    <3> QED
      BY <3>5 DEF IsLevels
  <2> QED
    BY <2>1, <2>2
<1> HIDE DEF S
<1>2. n \in S
  BY <1>1, AllBelow
<1> QED
  BY <1>2 DEF S

\* There are paths.
LEMMA PathsExist ==
  ASSUME NEW w \in Threads
  PROVE  \E path : IsPaths(path, TreeOf[w], Len(TreeOf[w]))
<1> DEFINE t == TreeOf[w]
           S == {m \in Nat : m <= Len(t) => \E path : IsPaths(path, t, m)}
<1>0. /\ Len(t) \in Nat
      /\ \A k \in 1..Len(t) : t[k].parent \in 0..(k - 1)
  BY PreorderAssumption
<1> HIDE DEF t
<1>1. ASSUME NEW m \in Nat, \A j \in Nat : j < m => j \in S PROVE m \in S
  <2> SUFFICES ASSUME m <= Len(t) PROVE \E path : IsPaths(path, t, m)
    OBVIOUS
  <2>1. CASE m = 0
    <3>1. PICK path : path = [k \in 0..0 |-> << >>]
      OBVIOUS
    <3>2. IsPaths(path, t, m)
      BY <2>1, <3>1 DEF IsPaths
    <3> QED
      BY <3>2
  <2>2. CASE m # 0
    <3>1. m - 1 \in Nat /\ m - 1 < m /\ m - 1 <= Len(t)
      BY <1>0, <2>2
    <3>2. PICK q : IsPaths(q, t, m - 1)
      BY <1>1, <3>1
    <3>3. PICK path :
            path = [k \in 0..m |-> IF k = m THEN Append(q[t[k].parent], t[k].name) ELSE q[k]]
      OBVIOUS
    <3>4. ASSUME NEW k \in 0..m
          PROVE  path[k] = IF k = 0 THEN << >> ELSE Append(path[t[k].parent], t[k].name)
      <4>1. k # m => k \in 0..(m - 1)
        BY <2>2
      <4>2. k # m => q[k] = IF k = 0 THEN << >> ELSE Append(q[t[k].parent], t[k].name)
        BY <3>2, <4>1 DEF IsPaths
      <4>3. k # 0 => k \in 1..Len(t) /\ t[k].parent \in 0..(k - 1)
        BY <1>0
      <4>4. k # 0 => t[k].parent \in 0..m /\ t[k].parent # m
        BY <4>3
      <4>5. k # 0 => path[t[k].parent] = q[t[k].parent]
        BY <3>3, <4>4
      <4> QED
        BY <2>2, <3>3, <4>2, <4>5
    <3>5. path = [k \in 0..m |-> IF k = 0 THEN << >> ELSE Append(path[t[k].parent], t[k].name)]
      BY <3>3, <3>4
    <3> QED
      BY <3>5 DEF IsPaths
  <2> QED
    BY <2>1, <2>2
<1> HIDE DEF S
<1>2. Len(t) \in S
  BY <1>0, <1>1, AllBelow
<1> QED
  BY <1>0, <1>2 DEF S, t

\* Listing is the last of such levels.
LEMMA ListingLevels ==
  ASSUME NEW N \in Nat, N = Cardinality(DOMAIN directories)
  PROVE  \E level : IsLevels(level, N) /\ Listing = level[N]
<1>1. PICK l : IsLevels(l, N)
  BY LevelsExist
<1>2. PICK level : level = CHOOSE v : IsLevels(v, N)
  OBVIOUS
<1>3. IsLevels(level, N)
  BY <1>1, <1>2
<1>4. Listing = level[N]
  BY <1>2 DEF Listing, IsLevels, Deeper
<1> QED
  BY <1>3, <1>4

\* So has PathsOf such paths.
LEMMA PathsOfPaths ==
  ASSUME NEW w \in Threads
  PROVE  \E path : /\ IsPaths(path, TreeOf[w], Len(TreeOf[w]))
                   /\ PathsOf(TreeOf[w]) = EntriesAt(path, TreeOf[w])
<1>1. PICK q : IsPaths(q, TreeOf[w], Len(TreeOf[w]))
  BY PathsExist
<1>2. PICK path : path = CHOOSE v : IsPaths(v, TreeOf[w], Len(TreeOf[w]))
  OBVIOUS
<1>3. IsPaths(path, TreeOf[w], Len(TreeOf[w]))
  BY <1>1, <1>2
<1>4. PathsOf(TreeOf[w]) = EntriesAt(path, TreeOf[w])
  BY <1>2 DEF PathsOf, IsPaths, EntriesAt
<1> QED
  BY <1>3, <1>4

\* A level holds what the one before it does and what is below that.
LEMMA InLevels ==
  ASSUME NEW N \in Nat, NEW level, IsLevels(level, N)
  PROVE  /\ level[0] = {<< << >>, Root>>}
         /\ \A m \in Nat : m < N => level[m + 1] = Deeper(level[m])
<1>1. level[0] = {<< << >>, Root>>}
  BY DEF IsLevels
<1>2. ASSUME NEW m \in Nat, m < N PROVE level[m + 1] = Deeper(level[m])
  <2>1. m + 1 \in 0..N /\ m + 1 # 0 /\ (m + 1) - 1 = m
    BY <1>2
  <2> QED
    BY <2>1 DEF IsLevels
<1> QED
  BY <1>1, <1>2

\* A path is that of the directory and the name.
LEMMA InPaths ==
  ASSUME NEW w \in Threads, NEW t, t = TreeOf[w], NEW path, IsPaths(path, t, Len(t))
  PROVE  /\ path[0] = << >>
         /\ \A k \in DOMAIN t : path[k] = Append(path[t[k].parent], t[k].name)
<1>1. Len(t) \in Nat /\ DOMAIN t = 1..Len(t)
  BY PreorderAssumption
<1>2. \A k \in DOMAIN t : k \in 0..Len(t) /\ k # 0
  BY <1>1
<1>3. 0 \in 0..Len(t)
  BY <1>1
<1>4. path[0] = << >>
  BY <1>3 DEF IsPaths
<1>5. \A k \in DOMAIN t : path[k] = Append(path[t[k].parent], t[k].name)
  BY <1>2 DEF IsPaths
<1> QED
  BY <1>4, <1>5

\* A level has all that the levels before it have.
LEMMA LevelsGrow ==
  ASSUME NEW N \in Nat, NEW level, IsLevels(level, N), NEW m \in 0..N
  PROVE  level[m] \subseteq level[N]
<1> DEFINE S == {j \in Nat : m + j <= N => level[m] \subseteq level[m + j]}
<1>1. ASSUME NEW j \in Nat, \A i \in Nat : i < j => i \in S PROVE j \in S
  <2>1. CASE j = 0
    BY <2>1
  <2>2. CASE j # 0 /\ m + j <= N
    <3>1. j - 1 \in Nat /\ j - 1 < j /\ m + (j - 1) <= N
      BY <2>2
    <3>2. level[m] \subseteq level[m + (j - 1)]
      BY <1>1, <3>1
    <3>3. m + (j - 1) \in Nat /\ m + (j - 1) < N /\ (m + (j - 1)) + 1 = m + j
      BY <2>2
    <3>4. level[m + j] = Deeper(level[m + (j - 1)])
      BY <3>3, InLevels
    <3>5. level[m + (j - 1)] \subseteq level[m + j]
      BY <3>4 DEF Deeper
    <3> QED
      BY <3>2, <3>5
  <2> QED
    BY <2>1, <2>2
<1> HIDE DEF S
<1>2. N - m \in Nat /\ m + (N - m) = N
  OBVIOUS
<1>3. N - m \in S
  BY <1>1, <1>2, AllBelow
<1> QED
  BY <1>2, <1>3 DEF S

-----------------------------------------------------------------------------
(* One tree from the first path to the last.                               *)

\* p is the path of an entry of the tree of w, with the inode that was
\* allocated for it.
ShowsAt(p, w, path, L, k) ==
  /\ k \in DOMAIN TreeOf[w] /\ p[1] = path[k] /\ p[2] # Root /\ L[p[2]] = <<w, k>>
  /\ p[2] \in DOMAIN nodes /\ nodes[p[2]].kind = TreeOf[w][k].kind
  /\ TreeOf[w][k].kind = "Directory" => p[2] \in DOMAIN directories
Shows(p, w, path, L) ==
  p = << << >>, Root>> \/ \E k \in DOMAIN TreeOf[w] : ShowsAt(p, w, path, L, k)

\* The directory that p leads to has the children of an entry.
LEMMA ChildOf ==
  ASSUME IInv, NEW L \in Labellings, DirectoriesFit(L), NEW w \in Threads,
         Root \in DOMAIN directories, Lists(directories[Root], w, Children(w, 0), L),
         NEW path, IsPaths(path, TreeOf[w], Len(TreeOf[w])),
         NEW p, NEW k,
         \/ p = << << >>, Root>> /\ k = 0
         \/ ShowsAt(p, w, path, L, k),
         p[2] \in DOMAIN directories
  PROVE  /\ Lists(directories[p[2]], w, Children(w, k), L)
         /\ \A c \in Children(w, k) :
              /\ TreeOf[w][c].name \in DOMAIN directories[p[2]] \ Dots
              /\ ShowsAt(<<Append(p[1], TreeOf[w][c].name),
                           directories[p[2]][TreeOf[w][c].name].inode>>, w, path, L, c)
<1>1. Lists(directories[p[2]], w, Children(w, k), L)
  <2>1. CASE p = << << >>, Root>> /\ k = 0
    BY <2>1
  <2>2. CASE ShowsAt(p, w, path, L, k)
    <3>1. p[2] # Root /\ L[p[2]] = <<w, k>>
      BY <2>2 DEF ShowsAt
    <3>2. L[p[2]][1] = w /\ L[p[2]][2] = k
      BY <3>1
    <3>3. Lists(directories[p[2]], L[p[2]][1], Children(L[p[2]][1], L[p[2]][2]), L)
      BY <3>1 DEF DirectoriesFit
    <3> QED
      BY <3>2, <3>3
  <2> QED
    BY <2>1, <2>2
<1>2. p[1] = path[k]
  <2>1. path[0] = << >>
    BY InPaths
  <2> QED
    BY <2>1 DEF ShowsAt
<1>3. ASSUME NEW c \in Children(w, k), NEW n, n = TreeOf[w][c].name,
             NEW e, e = directories[p[2]][n]
      PROVE  /\ n \in DOMAIN directories[p[2]] \ Dots
             /\ ShowsAt(<<Append(p[1], n), e.inode>>, w, path, L, c)
  <2>1. c \in DOMAIN TreeOf[w] /\ TreeOf[w][c].parent = k /\ n \notin Dots
    BY <1>3, NamesApart DEF Children
  <2>2. n \in DOMAIN directories[p[2]] /\ e.kind = TreeOf[w][c].kind /\ L[e.inode] = <<w, c>>
    BY <1>1, <1>3 DEF Lists
  <2>3. n \in Listed(p[2])
    BY <2>1, <2>2 DEF Listed
  <2>4. e.inode # Root /\ Whole(e)
    BY <1>3, <2>3 DEF IInv, Numbered, LeavesUp
  <2>5. path[c] = Append(p[1], n)
    <3>1. path[c] = Append(path[TreeOf[w][c].parent], TreeOf[w][c].name)
      BY <2>1, InPaths
    <3> QED
      BY <1>2, <1>3, <2>1, <3>1
  <2> QED
    BY <2>1, <2>2, <2>4, <2>5 DEF ShowsAt, Whole
<1> QED
  BY <1>1, <1>3

\* All that a level holds is of the tree.
LEMMA LevelsShow ==
  ASSUME IInv, NEW L \in Labellings, DirectoriesFit(L), NEW w \in Threads,
         Root \in DOMAIN directories, Lists(directories[Root], w, Children(w, 0), L),
         NEW path, IsPaths(path, TreeOf[w], Len(TreeOf[w])),
         NEW N \in Nat, NEW level, IsLevels(level, N)
  PROVE  \A p \in level[N] : Shows(p, w, path, L)
<1> DEFINE S == {m \in Nat : m <= N => \A p \in level[m] : Shows(p, w, path, L)}
<1>1. ASSUME NEW m \in Nat, \A j \in Nat : j < m => j \in S PROVE m \in S
  <2>1. CASE m = 0
    BY <2>1, InLevels DEF Shows
  <2>2. CASE m # 0 /\ m <= N
    <3>1. m - 1 \in Nat /\ m - 1 < m /\ m - 1 < N /\ (m - 1) + 1 = m
      BY <2>2
    <3>2. \A p \in level[m - 1] : Shows(p, w, path, L)
      BY <1>1, <2>2, <3>1
    <3>3. level[m] = Deeper(level[m - 1])
      BY <3>1, InLevels
    <3>4. ASSUME NEW p \in level[m - 1], p[2] \in DOMAIN directories,
                 NEW n \in DOMAIN directories[p[2]] \ Dots
          PROVE  Shows(<<Append(p[1], n), directories[p[2]][n].inode>>, w, path, L)
      <4>1. PICK k : (p = << << >>, Root>> /\ k = 0) \/ ShowsAt(p, w, path, L, k)
        BY <3>2 DEF Shows
      <4>2. Lists(directories[p[2]], w, Children(w, k), L)
        BY <3>4, <4>1, ChildOf
      <4>3. PICK c \in Children(w, k) : n = TreeOf[w][c].name
        BY <4>2 DEF Lists, Dots
      <4>4. ShowsAt(<<Append(p[1], n), directories[p[2]][n].inode>>, w, path, L, c)
        BY <3>4, <4>1, <4>3, ChildOf
      <4> QED
        BY <4>3, <4>4 DEF Shows, Children
    <3>5. \A p \in level[m] : Shows(p, w, path, L)
      BY <3>2, <3>3, <3>4 DEF Deeper
    <3> QED
      BY <3>5
  <2> QED
    BY <2>1, <2>2
<1> HIDE DEF S
<1>2. N \in S
  BY <1>1, AllBelow
<1> QED
  BY <1>2 DEF S

\* The entry k is shown at the level m, below the directories D.
Reaches(k, m, D, p, w, path, L) ==
  /\ m = Cardinality(D) /\ D \subseteq DOMAIN directories
  /\ IF k = 0 THEN p = << << >>, Root>> /\ D = {} ELSE ShowsAt(p, w, path, L, k)
  /\ \A d \in D : d = Root \/ \E j \in Nat : 0 < j /\ j < k /\ d # Root /\ L[d] = <<w, j>>

\* All of the tree is shown: the levels do not end before it does, since each
\* goes through one more of the directories.
LEMMA LevelsReach ==
  ASSUME IInv, NEW L \in Labellings, DirectoriesFit(L), NEW w \in Threads,
         Root \in DOMAIN directories, Lists(directories[Root], w, Children(w, 0), L),
         NEW path, IsPaths(path, TreeOf[w], Len(TreeOf[w])),
         NEW N \in Nat, N = Cardinality(DOMAIN directories), IsFiniteSet(DOMAIN directories),
         NEW level, IsLevels(level, N)
  PROVE  \A k \in DOMAIN TreeOf[w] : \E p \in level[N] : ShowsAt(p, w, path, L, k)
<1> DEFINE S == {k \in Nat : k <= Len(TreeOf[w]) =>
                   \E m \in 0..N, D \in SUBSET DOMAIN directories :
                     \E p \in level[m] : Reaches(k, m, D, p, w, path, L)}
<1>0. Len(TreeOf[w]) \in Nat /\ DOMAIN TreeOf[w] = 1..Len(TreeOf[w])
  BY PreorderAssumption
<1>1. ASSUME NEW k \in Nat, \A j \in Nat : j < k => j \in S PROVE k \in S
  <2>1. CASE k = 0
    <3>1. PICK p : p = << << >>, Root>>
      OBVIOUS
    <3>2. p \in level[0] /\ 0 \in 0..N
      BY <3>1, InLevels
    <3>3. Reaches(0, 0, {}, p, w, path, L)
      BY <3>1, FS_EmptySet DEF Reaches
    <3> QED
      BY <2>1, <3>2, <3>3
  <2>2. CASE k # 0 /\ k <= Len(TreeOf[w])
    <3>1. PICK q : q = TreeOf[w][k].parent
      OBVIOUS
    <3>2. /\ q \in Nat /\ q < k /\ q <= Len(TreeOf[w]) /\ k \in DOMAIN TreeOf[w]
          /\ k \in Children(w, q)
          /\ q # 0 => TreeOf[w][q].kind = "Directory"
      <4>1. k \in DOMAIN TreeOf[w]
        BY <1>0, <2>2
      <4>2. q \in 0..(k - 1) /\ (q # 0 => TreeOf[w][q].kind = "Directory")
        BY <3>1, <4>1, PreorderAssumption
      <4>3. k \in Children(w, q)
        BY <3>1, <4>1 DEF Children
      <4> QED
        BY <1>0, <2>2, <4>1, <4>2, <4>3
    <3>3. PICK m \in 0..N, D \in SUBSET DOMAIN directories :
            \E p \in level[m] : Reaches(q, m, D, p, w, path, L)
      BY <1>1, <3>2
    <3>4. PICK p \in level[m] : Reaches(q, m, D, p, w, path, L)
      BY <3>3
    <3>5. p[2] \in DOMAIN directories
      BY <3>2, <3>4 DEF Reaches, ShowsAt
    <3>6. p[2] \notin D
      <4>1. CASE q = 0
        BY <3>4, <4>1 DEF Reaches
      <4>2. CASE q # 0
        <5>1. p[2] # Root /\ L[p[2]] = <<w, q>>
          BY <3>4, <4>2 DEF Reaches, ShowsAt
        <5>2. \A j \in Nat : L[p[2]] = <<w, j>> => j = q
          BY <5>1
        <5> QED
          BY <3>2, <3>4, <5>1, <5>2 DEF Reaches
      <4> QED
        BY <4>1, <4>2
    <3>7. PICK E \in SUBSET DOMAIN directories : E = D \cup {p[2]}
      BY <3>5
    <3>8. m + 1 = Cardinality(E) /\ m + 1 \in 0..N /\ m < N
      <4>1. IsFiniteSet(D) /\ m = Cardinality(D)
        BY <3>4, FS_Subset DEF Reaches
      <4>2. Cardinality(E) = m + 1
        BY <3>6, <3>7, <4>1, FS_AddElement
      <4>3. Cardinality(E) <= N
        BY FS_Subset
      <4> QED
        BY <4>2, <4>3
    <3>9. PICK r : r = <<Append(p[1], TreeOf[w][k].name),
                         directories[p[2]][TreeOf[w][k].name].inode>>
      OBVIOUS
    <3>10. \/ p = << << >>, Root>> /\ q = 0
           \/ ShowsAt(p, w, path, L, q)
      BY <3>4 DEF Reaches
    <3>11. TreeOf[w][k].name \in DOMAIN directories[p[2]] \ Dots /\ ShowsAt(r, w, path, L, k)
      BY <3>2, <3>5, <3>9, <3>10, ChildOf
    <3>12. r \in level[m + 1]
      <4>1. level[m + 1] = Deeper(level[m])
        BY <3>8, InLevels
      <4> QED
        BY <3>5, <3>9, <3>11, <4>1 DEF Deeper
    <3>13. \A d \in E : d = Root \/ \E j \in Nat : 0 < j /\ j < k /\ d # Root /\ L[d] = <<w, j>>
      <4>1. ASSUME NEW d \in D
            PROVE  d = Root \/ \E j \in Nat : 0 < j /\ j < k /\ d # Root /\ L[d] = <<w, j>>
        <5>1. d = Root \/ \E j \in Nat : 0 < j /\ j < q /\ d # Root /\ L[d] = <<w, j>>
          BY <3>4 DEF Reaches
        <5> QED
          BY <3>2, <5>1
      <4>2. p[2] = Root \/ (q # 0 /\ p[2] # Root /\ L[p[2]] = <<w, q>>)
        BY <3>4 DEF Reaches, ShowsAt
      <4>3. p[2] = Root \/ \E j \in Nat : 0 < j /\ j < k /\ p[2] # Root /\ L[p[2]] = <<w, j>>
        BY <3>2, <4>2
      <4> QED
        BY <3>7, <4>1, <4>3
    <3>14. Reaches(k, m + 1, E, r, w, path, L)
      BY <2>2, <3>8, <3>11, <3>13 DEF Reaches
    <3> QED
      BY <3>8, <3>12, <3>14
  <2> QED
    BY <2>1, <2>2
<1> HIDE DEF S
<1>2. ASSUME NEW k \in DOMAIN TreeOf[w] PROVE \E p \in level[N] : ShowsAt(p, w, path, L, k)
  <2>1. k \in Nat /\ k # 0 /\ k <= Len(TreeOf[w])
    BY <1>0
  <2>2. k \in S
    BY <1>1, <2>1, AllBelow
  <2>3. PICK m \in 0..N, D \in SUBSET DOMAIN directories :
          \E p \in level[m] : Reaches(k, m, D, p, w, path, L)
    BY <2>1, <2>2 DEF S
  <2>4. \E p \in level[m] : ShowsAt(p, w, path, L, k)
    BY <2>1, <2>3 DEF Reaches
  <2> QED
    BY <2>4, LevelsGrow
<1> QED
  BY <1>2

\* Whatever the threads do at once, what is shown is the whole tree of the
\* thread that wrote the root's content last: all of its paths, with the kinds
\* and objects of their entries, and nothing else.
THEOREM OneWholeTreeAlwaysShown == Spec => []OneWholeTreeIsShown
<1>1. ASSUME IInv, Labelled PROVE OneWholeTreeIsShown
  <2> SUFFICES ASSUME Root \in DOMAIN directories
               PROVE  \E w \in Threads : Shown = PathsOf(TreeOf[w])
    BY DEF OneWholeTreeIsShown
  <2>1. PICK L \in Labellings : NodesFit(L) /\ DirectoriesFit(L)
    BY <1>1 DEF Labelled, Fits
  <2>2. PICK w \in Threads : Lists(directories[Root], w, Children(w, 0), L)
    BY <2>1 DEF DirectoriesFit
  <2>4. PICK path : /\ IsPaths(path, TreeOf[w], Len(TreeOf[w]))
                    /\ PathsOf(TreeOf[w]) = EntriesAt(path, TreeOf[w])
    BY PathsOfPaths
  <2>5. IsFiniteSet(DOMAIN directories) /\ Cardinality(DOMAIN directories) \in Nat
    <3>1. next_inode \in Nat /\ DOMAIN directories \subseteq 1..(next_inode - 1)
      BY <1>1 DEF IInv, Typed, Numbered, InUse
    <3>2. IsFiniteSet(1..(next_inode - 1))
      BY <3>1, FS_Interval
    <3> QED
      BY <3>1, <3>2, FS_Subset, FS_CardinalityType
  <2>6. PICK N \in Nat : N = Cardinality(DOMAIN directories)
    BY <2>5
  <2>7. PICK level : IsLevels(level, N) /\ Listing = level[N]
    BY <2>6, ListingLevels
  <2>8. \A p \in Listing : Shows(p, w, path, L)
    BY <1>1, <2>1, <2>2, <2>4, <2>7, LevelsShow
  <2>9. \A k \in DOMAIN TreeOf[w] : \E p \in Listing : ShowsAt(p, w, path, L, k)
    BY <1>1, <2>1, <2>2, <2>4, <2>5, <2>6, <2>7, LevelsReach
  <2>10. ASSUME NEW p, NEW k, ShowsAt(p, w, path, L, k)
         PROVE  /\ k \in DOMAIN TreeOf[w] /\ p[2] # Root
                /\ <<p[1], nodes[p[2]].kind, nodes[p[2]].hash>>
                     = <<path[k], TreeOf[w][k].kind, TreeOf[w][k].hash>>
    <3>1. L[p[2]][1] = w /\ L[p[2]][2] = k
      BY <2>10 DEF ShowsAt
    <3>2. nodes[p[2]].kind = TreeOf[w][k].kind /\ nodes[p[2]].hash = TreeOf[w][k].hash
      BY <2>1, <2>10, <3>1 DEF ShowsAt, NodesFit, EntryOf
    <3> QED
      BY <2>10, <3>2 DEF ShowsAt
  <2>11. Shown \subseteq PathsOf(TreeOf[w])
    <3>1. ASSUME NEW p \in Listing, p[2] # Root
          PROVE  <<p[1], nodes[p[2]].kind, nodes[p[2]].hash>> \in PathsOf(TreeOf[w])
      <4>1. PICK k : ShowsAt(p, w, path, L, k)
        BY <2>8, <3>1 DEF Shows
      <4> QED
        BY <2>4, <2>10, <4>1 DEF EntriesAt
    <3> QED
      BY <3>1 DEF Shown
  <2>12. PathsOf(TreeOf[w]) \subseteq Shown
    <3>1. ASSUME NEW k \in DOMAIN TreeOf[w]
          PROVE  <<path[k], TreeOf[w][k].kind, TreeOf[w][k].hash>> \in Shown
      <4>1. PICK p \in Listing : ShowsAt(p, w, path, L, k)
        BY <2>9
      <4> QED
        BY <2>10, <4>1 DEF Shown
    <3> QED
      BY <2>4, <3>1 DEF EntriesAt
  <2>13. Shown = PathsOf(TreeOf[w])
    BY <2>11, <2>12
  <2> QED
    BY <2>13
<1> QED
  BY <1>1, IInvHolds, LabelledHolds, PTL

-----------------------------------------------------------------------------
(* A thread alone.                                                         *)

\* While the other threads have not begun, a thread that has allocated inodes
\* for the first n entries of its tree has made what insert_tree, as the one
\* step of CultivateFS, makes of them: TableOf for its calls, and the rest in
\* the tables.
ReadSoFar == next_inode - 2
TableOf(t, k, n) ==
  [name \in {"."} \cup {t[c].name : c \in {c \in DOMAIN t : t[c].parent = k /\ c <= n}} |->
     IF name = "." THEN TreeDot(1, k) ELSE TreeEntry(t, 1, k, name)]
NodeAt(t, i) ==
  IF i = Root \/ t[i - 1].kind = "Directory"
    THEN NewAttrs("Directory", NoHash, 0)
    ELSE NewAttrs(t[i - 1].kind, t[i - 1].hash, TreeSize(t[i - 1].hash))

FrameFits(f, t, n) ==
  /\ f.index \in 0..n /\ f.inode = f.index + 1
  /\ f.left = {c \in DOMAIN t : t[c].parent = f.index /\ n < c}
  /\ f.entries = TableOf(t, f.index, n)

\* The entries that a call is inserting, those that have a node, and those that
\* have a content.
UnderWay(w) == {stack[w][k].index : k \in Calls(w)}
WithNode(w, n) ==
  {k \in 0..n : k \notin UnderWay(w) \/ (at[w] = "content" /\ k = Innermost(w).index)}
WithContent(w, n) ==
  {k \in 0..n : k \notin UnderWay(w) /\ (k = 0 \/ TreeOf[w][k].kind = "Directory")}

InPreorder(w, n) ==
  /\ n \in Nat /\ n <= Len(TreeOf[w])
  /\ \A k \in Calls(w) : FrameFits(stack[w][k], TreeOf[w], n)
  /\ \A j, k \in Calls(w) : j < k => stack[w][j].index < stack[w][k].index
  /\ \A c \in DOMAIN TreeOf[w] :
       n < c /\ TreeOf[w][c].parent <= n => TreeOf[w][c].parent \in UnderWay(w)
  /\ nodes = [i \in {k + 1 : k \in WithNode(w, n)} |-> NodeAt(TreeOf[w], i)]
  /\ directories = [i \in {k + 1 : k \in WithContent(w, n)} |->
                      TreeContent(TreeOf[w], 1, i - 1)]

Begun(w) == at[w] \notin {"test", "burn"}
Alone ==
  /\ (\A w \in Threads : ~ Begun(w)) =>
       nodes = EmptyMap /\ directories = EmptyMap /\ next_inode = 1
  /\ \A w \in Threads :
       Begun(w) /\ (\A v \in Threads \ {w} : ~ Begun(v)) => InPreorder(w, ReadSoFar)

\* The table of a call that begins.
LEMMA FirstTable ==
  ASSUME NEW w \in Threads, NEW k \in Nat, NEW n \in Nat, n <= k
  PROVE  [name \in {"."} |-> Entry(k + 1, "Directory")] = TableOf(TreeOf[w], k, n)
<1>1. \A c \in DOMAIN TreeOf[w] : TreeOf[w][c].parent = k => ~ (c <= n)
  <2> SUFFICES ASSUME NEW c \in DOMAIN TreeOf[w], TreeOf[w][c].parent = k PROVE ~ (c <= n)
    OBVIOUS
  <2>1. c \in Nat /\ TreeOf[w][c].parent \in 0..(c - 1)
    BY PreorderAssumption
  <2> QED
    BY <2>1
<1>2. {TreeOf[w][c].name : c \in {c \in DOMAIN TreeOf[w] : TreeOf[w][c].parent = k /\ c <= n}} = {}
  BY <1>1
<1>3. TreeDot(1, k) = Entry(k + 1, "Directory")
  BY DEF TreeDot, TreeInode, Root
<1> QED
  BY <1>2, <1>3 DEF TableOf

\* The table of a directory grows by the entry that is read.
LEMMA NextTable ==
  ASSUME NEW w \in Threads, NEW k, NEW n \in Nat, n + 1 \in Children(w, k)
  PROVE  Put(TableOf(TreeOf[w], k, n), TreeOf[w][n + 1].name,
             Entry(n + 2, TreeOf[w][n + 1].kind))
           = TableOf(TreeOf[w], k, n + 1)
<1> DEFINE t == TreeOf[w]
           C(m) == {c \in DOMAIN t : t[c].parent = k /\ c <= m}
           N(m) == {t[c].name : c \in C(m)}
<1>1. \A c \in Children(w, k) : c \in Nat
  BY NamesApart
<1>2. C(n + 1) = C(n) \cup {n + 1}
  BY <1>1 DEF Children
<1>3. N(n + 1) = N(n) \cup {t[n + 1].name}
  BY <1>2
<1>4. t[n + 1].name # "."
  BY NamesApart DEF Dots
<1>5. TreeEntry(t, 1, k, t[n + 1].name) = Entry(n + 2, t[n + 1].kind)
  <2>1. n + 1 \in DOMAIN t /\ t[n + 1].parent = k
    BY DEF Children
  <2>2. \A c \in DOMAIN t : t[c].parent = k /\ t[c].name = t[n + 1].name => c = n + 1
    BY NamesApart DEF Children
  <2>3. (CHOOSE c \in DOMAIN t : t[c].parent = k /\ t[c].name = t[n + 1].name) = n + 1
    BY <2>1, <2>2
  <2>4. 1 + (n + 1) = n + 2
    OBVIOUS
  <2> QED
    BY <2>3, <2>4 DEF TreeEntry
<1> HIDE DEF C
<1>6. {"."} \cup N(n) \cup {t[n + 1].name} = {"."} \cup N(n + 1)
  BY <1>3
<1> HIDE DEF N
<1>7. TableOf(t, k, n) = [name \in {"."} \cup N(n) |->
                            IF name = "." THEN TreeDot(1, k) ELSE TreeEntry(t, 1, k, name)]
  BY DEF TableOf, N, C
<1>8. TableOf(t, k, n + 1) = [name \in {"."} \cup N(n + 1) |->
                                IF name = "." THEN TreeDot(1, k) ELSE TreeEntry(t, 1, k, name)]
  BY DEF TableOf, N, C
<1>9. Put(TableOf(t, k, n), t[n + 1].name, Entry(n + 2, t[n + 1].kind))
        = [name \in {"."} \cup N(n + 1) |->
             IF name = "." THEN TreeDot(1, k) ELSE TreeEntry(t, 1, k, name)]
  BY <1>4, <1>5, <1>6, <1>7 DEF Put
<1> QED
  BY <1>8, <1>9

\* Once all of them are read, the content.
LEMMA LastTable ==
  ASSUME NEW w \in Threads, NEW k, NEW n \in Nat, \A c \in Children(w, k) : c <= n
  PROVE  TableOf(TreeOf[w], k, n) = TreeContent(TreeOf[w], 1, k)
<1>1. {c \in DOMAIN TreeOf[w] : TreeOf[w][c].parent = k /\ c <= n}
        = {c \in DOMAIN TreeOf[w] : TreeOf[w][c].parent = k}
  BY DEF Children
<1> QED
  BY <1>1 DEF TableOf, TreeContent

\* The table of another directory stays as it is.
LEMMA OtherTable ==
  ASSUME NEW w \in Threads, NEW k, NEW n \in Nat, n + 1 \notin Children(w, k)
  PROVE  TableOf(TreeOf[w], k, n + 1) = TableOf(TreeOf[w], k, n)
<1>1. \A c \in Children(w, k) : c \in Nat
  BY NamesApart
<1>2. {c \in DOMAIN TreeOf[w] : TreeOf[w][c].parent = k /\ c <= n + 1}
        = {c \in DOMAIN TreeOf[w] : TreeOf[w][c].parent = k /\ c <= n}
  BY <1>1 DEF Children
<1> QED
  BY <1>2 DEF TableOf

\* A thread that begins before the others have has read nothing.
LEMMA BurnAlone ==
  ASSUME IInv, NEW w \in Threads, Burn(w),
         nodes = EmptyMap, directories = EmptyMap, next_inode = 1
  PROVE  InPreorder(w, ReadSoFar)'
<1>1. ReadSoFar' = 0
  BY DEF Burn, Burnt, ReadSoFar
<1>2. PICK f : f = Frame(TreeOf[w], 0, Root)
  OBVIOUS
<1>3. /\ stack'[w] = <<f>> /\ at'[w] = "entries" /\ Calls(w)' = {1}
      /\ nodes' = EmptyMap /\ directories' = EmptyMap
  BY <1>2 DEF Burn, Goto, IInv, Typed, Calls
<1>4. Len(TreeOf[w]) \in Nat /\ \A c \in DOMAIN TreeOf[w] : c \in Nat /\ c > 0
  BY PreorderAssumption
<1>5. FrameFits(f, TreeOf[w], 0)
  <2>1. f.index = 0 /\ f.inode = 0 + 1 /\ f.entries = [name \in {"."} |-> Entry(0 + 1, "Directory")]
        /\ f.left = {c \in DOMAIN TreeOf[w] : TreeOf[w][c].parent = 0}
    BY <1>2 DEF Frame, Root
  <2>2. f.entries = TableOf(TreeOf[w], 0, 0)
    <3>1. PICK k \in Nat : k = 0 /\ k <= k
      OBVIOUS
    <3>2. [name \in {"."} |-> Entry(k + 1, "Directory")] = TableOf(TreeOf[w], k, k)
      BY <3>1, FirstTable
    <3> QED
      BY <2>1, <3>1, <3>2
  <2>3. f.left = {c \in DOMAIN TreeOf[w] : TreeOf[w][c].parent = 0 /\ 0 < c}
    BY <1>4, <2>1
  <2> QED
    BY <2>1, <2>2, <2>3 DEF FrameFits
<1>6. UnderWay(w)' = {0}
  BY <1>3, <1>5 DEF UnderWay, FrameFits
<1>7. WithNode(w, 0)' = {} /\ WithContent(w, 0)' = {}
  BY <1>3, <1>6 DEF WithNode, WithContent
<1>8. nodes' = [i \in {k + 1 : k \in {}} |-> NodeAt(TreeOf[w], i)]
  BY <1>3 DEF EmptyMap
<1>9. directories' = [i \in {k + 1 : k \in {}} |-> TreeContent(TreeOf[w], 1, i - 1)]
  BY <1>3 DEF EmptyMap
<1>10. \A k \in Calls(w)' : FrameFits(stack'[w][k], TreeOf[w], 0)
  BY <1>3, <1>5
<1>11. \A c \in DOMAIN TreeOf[w] : TreeOf[w][c].parent <= 0 => TreeOf[w][c].parent \in UnderWay(w)'
  <2>1. \A c \in DOMAIN TreeOf[w] : TreeOf[w][c].parent \in 0..(c - 1)
    BY PreorderAssumption
  <2> QED
    BY <1>4, <1>6, <2>1
<1>12. InPreorder(w, 0)'
  BY <1>3, <1>4, <1>7, <1>8, <1>9, <1>10, <1>11 DEF InPreorder
<1> QED
  BY <1>1, <1>12 DEF InPreorder

\* The entry that is read next is the next of the preorder.
LEMMA NextRead ==
  ASSUME IInv, NEW w \in Threads, NEW n, InPreorder(w, n),
         stack[w] # << >>, Innermost(w).left # {}
  PROVE  Reading(w) = n + 1 /\ n + 1 \in Children(w, Innermost(w).index)
<1>1. PICK L : /\ L = Len(stack[w]) /\ L \in Nat /\ L \in Calls(w) /\ Innermost(w) = stack[w][L]
  BY DEF IInv, Typed, Calls, Innermost
<1>2. PICK f : f = stack[w][L] /\ FrameFits(f, TreeOf[w], n)
  BY <1>1 DEF InPreorder
<1>3. PICK c : c = Reading(w)
  OBVIOUS
<1>4. c \in f.left /\ \A d \in f.left : c <= d
  <2>1. f.left \in SUBSET Nat
    <3>1. stack[w] \in Seq(Frames)
      BY DEF IInv, Typed
    <3>2. f \in Frames
      BY <1>1, <1>2, <3>1 DEF Calls
    <3> QED
      BY <3>2 DEF Frames
  <2>2. \E d \in f.left : \A e \in f.left : d <= e
    BY <1>1, <1>2, <2>1, LeastOf
  <2> QED
    BY <1>1, <1>2, <1>3, <2>2 DEF Reading
<1>5. c \in DOMAIN TreeOf[w] /\ TreeOf[w][c].parent = f.index /\ n < c /\ f.index \in 0..n
  BY <1>2, <1>4 DEF FrameFits
<1>6. /\ Len(TreeOf[w]) \in Nat /\ DOMAIN TreeOf[w] = 1..Len(TreeOf[w])
      /\ n \in Nat /\ c \in Nat /\ n + 1 <= c /\ n + 1 \in DOMAIN TreeOf[w]
  BY <1>5, PreorderAssumption DEF InPreorder
<1>7. PICK q : q = TreeOf[w][n + 1].parent /\ q \in 0..n
  <2>1. TreeOf[w][n + 1].parent \in 0..((n + 1) - 1)
    BY <1>6, PreorderAssumption
  <2> QED
    BY <1>6, <2>1
<1>8. q <= f.index
  <2>1. q \in UnderWay(w)
    BY <1>6, <1>7 DEF InPreorder
  <2>2. PICK j \in Calls(w) : q = stack[w][j].index
    BY <2>1 DEF UnderWay
  <2>3. j = L \/ j < L
    BY <1>1 DEF Calls
  <2>4. j < L => stack[w][j].index < stack[w][L].index
    BY <1>1 DEF InPreorder
  <2> QED
    BY <1>2, <1>5, <1>6, <1>7, <2>2, <2>3, <2>4
<1>9. n + 1 = c
  <2> SUFFICES ASSUME n + 1 < c PROVE FALSE
    BY <1>6
  <2>1. f.index < n + 1 /\ n + 1 \in 1..(c - 1)
    BY <1>5, <1>6
  <2>2. TreeOf[w][c].parent <= TreeOf[w][n + 1].parent
    BY <1>5, <2>1, PreorderAssumption
  <2>3. q = f.index
    BY <1>5, <1>6, <1>7, <1>8, <2>2
  <2>4. n + 1 \in f.left
    <3>1. f.left = {d \in DOMAIN TreeOf[w] : TreeOf[w][d].parent = f.index /\ n < d}
      BY <1>2 DEF FrameFits
    <3>2. n < n + 1 /\ TreeOf[w][n + 1].parent = f.index
      BY <1>6, <1>7, <2>3
    <3> QED
      BY <1>6, <3>1, <3>2
  <2> QED
    BY <1>4, <1>6, <2>4
<1> QED
  BY <1>1, <1>2, <1>3, <1>5, <1>9 DEF Children

\* Reading it keeps the order.
LEMMA ReadAlone ==
  ASSUME IInv, NEW w \in Threads, InPreorder(w, ReadSoFar), ReadEntry(w)
  PROVE  InPreorder(w, ReadSoFar)'
<1>1. PICK c, g, h, name, L, e : ReadMakes(w, c, g, h, name, L, e)
  BY ReadEffect
<1>2. PICK n : n = ReadSoFar /\ InPreorder(w, n)
  OBVIOUS
<1>3. n \in Nat /\ next_inode = n + 2 /\ ReadSoFar' = n + 1
  BY <1>1, <1>2 DEF InPreorder, ReadMakes, ReadSoFar
<1>4. PICK f : f = stack[w][L] /\ FrameFits(f, TreeOf[w], n) /\ f \in Frames
  BY <1>1, <1>2 DEF InPreorder, ReadMakes
<1>5. c = n + 1 /\ n + 1 \in Children(w, f.index)
  <2>1. stack[w] # << >> /\ Innermost(w).left # {} /\ c = Reading(w) /\ Innermost(w) = f
    BY <1>1, <1>4 DEF ReadMakes
  <2> QED
    BY <1>2, <2>1, NextRead
<1>6. /\ Len(TreeOf[w]) \in Nat /\ n + 1 <= Len(TreeOf[w])
      /\ n + 1 \in DOMAIN TreeOf[w] /\ TreeOf[w][n + 1].parent = f.index
      /\ \A d \in DOMAIN TreeOf[w] : d \in Nat /\ TreeOf[w][d].parent \in 0..(d - 1)
  BY <1>3, <1>5, PreorderAssumption DEF Children
<1>7. f.index \in 0..n
  BY <1>4 DEF FrameFits
<1>8. FrameFits(h, TreeOf[w], n + 1)
  <2>1. /\ h.index = n + 1 /\ h.inode = (n + 1) + 1
        /\ h.left = {d \in DOMAIN TreeOf[w] : TreeOf[w][d].parent = n + 1}
        /\ h.entries = [m \in {"."} |-> Entry((n + 1) + 1, "Directory")]
    <3>1. h = Frame(TreeOf[w], n + 1, n + 2) /\ n + 2 = (n + 1) + 1
      BY <1>1, <1>3, <1>5 DEF ReadMakes
    <3> QED
      BY <3>1 DEF Frame
  <2>2. h.entries = TableOf(TreeOf[w], n + 1, n + 1)
    <3>1. n + 1 \in Nat /\ n + 1 <= n + 1
      BY <1>3
    <3>2. [m \in {"."} |-> Entry((n + 1) + 1, "Directory")] = TableOf(TreeOf[w], n + 1, n + 1)
      BY <3>1, FirstTable
    <3> QED
      BY <2>1, <3>2
  <2>3. h.left = {d \in DOMAIN TreeOf[w] : TreeOf[w][d].parent = n + 1 /\ n + 1 < d}
    BY <1>3, <1>6, <2>1
  <2> QED
    BY <1>3, <2>1, <2>2, <2>3 DEF FrameFits
<1>9. FrameFits(g, TreeOf[w], n + 1)
  <2>1. g = WithEntry(f, TreeOf[w], n + 1, n + 2)
    BY <1>1, <1>3, <1>4, <1>5 DEF ReadMakes
  <2>2. /\ g.index = f.index /\ g.inode = f.inode /\ g.left = f.left \ {n + 1}
        /\ g.entries = Put(f.entries, TreeOf[w][n + 1].name, Entry(n + 2, TreeOf[w][n + 1].kind))
    BY <1>4, <2>1 DEF WithEntry, Frames
  <2>3. g.entries = TableOf(TreeOf[w], f.index, n + 1)
    BY <1>3, <1>4, <1>5, <2>2, NextTable DEF FrameFits
  <2>4. g.left = {d \in DOMAIN TreeOf[w] : TreeOf[w][d].parent = f.index /\ n + 1 < d}
    BY <1>3, <1>4, <1>6, <2>2 DEF FrameFits
  <2> QED
    BY <1>3, <1>4, <1>7, <2>2, <2>3, <2>4 DEF FrameFits
<1>10. ASSUME NEW k \in Calls(w), k # L PROVE FrameFits(stack[w][k], TreeOf[w], n + 1)
  <2>1. PICK b : b = stack[w][k] /\ FrameFits(b, TreeOf[w], n)
    BY <1>2 DEF InPreorder
  <2>2. k \in Nat /\ L \in Nat /\ L \in Calls(w) /\ k < L
    BY <1>1, <1>10 DEF ReadMakes, Calls
  <2>3. b.index < f.index
    BY <1>2, <1>4, <2>1, <2>2 DEF InPreorder
  <2>4. n + 1 \notin Children(w, b.index) /\ b.index \in 0..n /\ b.index # f.index
    BY <1>6, <1>7, <2>1, <2>3 DEF Children, FrameFits
  <2>5. b.entries = TableOf(TreeOf[w], b.index, n + 1)
    BY <1>3, <2>1, <2>4, OtherTable DEF FrameFits
  <2>6. b.left = {d \in DOMAIN TreeOf[w] : TreeOf[w][d].parent = b.index /\ n + 1 < d}
    BY <1>3, <1>6, <2>1, <2>4 DEF FrameFits
  <2> QED
    BY <1>3, <2>1, <2>4, <2>5, <2>6 DEF FrameFits
<1>11. \A k \in Calls(w)' : \/ (k = L + 1 /\ stack'[w][k] = h)
                           \/ (k = L /\ stack'[w][k] = g)
                           \/ (k \in Calls(w) /\ k # L /\ stack'[w][k] = stack[w][k])
  BY <1>1 DEF ReadMakes
<1>12. \A k \in Calls(w)' : FrameFits(stack'[w][k], TreeOf[w], n + 1)
  BY <1>8, <1>9, <1>10, <1>11
<1>13. \A k \in Calls(w) : stack'[w][k].index = stack[w][k].index /\ stack[w][k].index \in 0..n
  <2>1. \A k \in Calls(w) : stack'[w][k].index = stack[w][k].index
    BY <1>1, <1>4 DEF ReadMakes
  <2> QED
    BY <1>2, <2>1 DEF InPreorder, FrameFits
<1>14. /\ Calls(w)' = Calls(w) \cup {L + 1} /\ stack'[w][L + 1].index = n + 1
       /\ \A k \in Calls(w) : k \in Nat /\ k < L + 1
       /\ L \in Nat
  BY <1>1, <1>5 DEF ReadMakes
<1>15. \A j, k \in Calls(w)' : j < k => stack'[w][j].index < stack'[w][k].index
  <2> SUFFICES ASSUME NEW j \in Calls(w)', NEW k \in Calls(w)', j < k
               PROVE  stack'[w][j].index < stack'[w][k].index
    OBVIOUS
  <2>1. j \in Calls(w)
    BY <1>14
  <2>2. CASE k \in Calls(w)
    BY <1>2, <1>13, <2>1, <2>2 DEF InPreorder
  <2>3. CASE k = L + 1
    BY <1>3, <1>13, <1>14, <2>1, <2>3
  <2> QED
    BY <1>14, <2>2, <2>3
<1>16. UnderWay(w)' = UnderWay(w) \cup {n + 1} /\ n + 1 \notin UnderWay(w)
  <2>1. n + 1 \notin UnderWay(w)
    BY <1>3, <1>13 DEF UnderWay
  <2>2. UnderWay(w)' = {stack'[w][k].index : k \in Calls(w)'}
    BY DEF UnderWay
  <2>3. UnderWay(w)' = UnderWay(w) \cup {n + 1}
    BY <1>13, <1>14, <2>2 DEF UnderWay
  <2> QED
    BY <2>1, <2>3
<1>17. \A d \in DOMAIN TreeOf[w] :
         n + 1 < d /\ TreeOf[w][d].parent <= n + 1 => TreeOf[w][d].parent \in UnderWay(w)'
  BY <1>2, <1>3, <1>6, <1>16 DEF InPreorder
<1>18. at[w] # "content" /\ at'[w] # "content"
  BY <1>1 DEF ReadMakes, IInv, Typed
<1>19. WithNode(w, n + 1)' = WithNode(w, n) /\ WithContent(w, n + 1)' = WithContent(w, n)
  BY <1>3, <1>16, <1>18 DEF WithNode, WithContent
<1>20. nodes' = nodes /\ directories' = directories
  BY <1>1 DEF ReadMakes
<1>21. InPreorder(w, n + 1)'
  BY <1>2, <1>3, <1>6, <1>12, <1>15, <1>17, <1>19, <1>20 DEF InPreorder
<1> QED
  BY <1>3, <1>21 DEF InPreorder

\* A call that returns has no more to read.
LEMMA PopAlone ==
  ASSUME IInv, NEW w \in Threads, NEW n, InPreorder(w, n), stack[w] # << >>,
         Children(w, Innermost(w).index) \subseteq 0..n,
         stack' = [stack EXCEPT ![w] = Callers(w)]
  PROVE  /\ n \in Nat /\ n <= Len(TreeOf[w])
         /\ \A k \in Calls(w)' : FrameFits(stack'[w][k], TreeOf[w], n)
         /\ \A j, k \in Calls(w)' : j < k => stack'[w][j].index < stack'[w][k].index
         /\ \A c \in DOMAIN TreeOf[w] :
              n < c /\ TreeOf[w][c].parent <= n => TreeOf[w][c].parent \in UnderWay(w)'
         /\ UnderWay(w)' = UnderWay(w) \ {Innermost(w).index}
         /\ Innermost(w).index \in UnderWay(w) /\ FrameFits(Innermost(w), TreeOf[w], n)
<1>1. PICK L : /\ L = Len(stack[w]) /\ L \in Nat /\ L \in Calls(w) /\ Innermost(w) = stack[w][L]
               /\ L > 0
  BY DEF IInv, Typed, Calls, Innermost
<1>2. Calls(w)' = 1..(L - 1) /\ Calls(w) = 1..L
  BY <1>1, CallsLeft DEF Calls
<1>3. \A k \in Calls(w)' : k \in Calls(w) /\ k < L /\ stack'[w][k] = stack[w][k]
  <2>1. \A k \in Calls(w)' : k \in Calls(w) /\ stack'[w][k] = stack[w][k]
    BY CallsLeft
  <2>2. \A k \in Calls(w)' : k < L
    BY <1>1, <1>2
  <2> QED
    BY <2>1, <2>2
<1>4. n \in Nat /\ n <= Len(TreeOf[w])
  BY DEF InPreorder
<1>5. \A k \in Calls(w)' : FrameFits(stack'[w][k], TreeOf[w], n)
  BY <1>3 DEF InPreorder
<1>6. \A j, k \in Calls(w)' : j < k => stack'[w][j].index < stack'[w][k].index
  BY <1>3 DEF InPreorder
<1>7. \A k \in Calls(w) : stack[w][k].index \in 0..n
  BY DEF InPreorder, FrameFits
<1>8. \A k \in Calls(w)' : stack[w][k].index < Innermost(w).index
  BY <1>1, <1>3 DEF InPreorder
<1>9. UnderWay(w)' = UnderWay(w) \ {Innermost(w).index}
  <2>1. UnderWay(w)' = {stack[w][k].index : k \in Calls(w)'}
    BY <1>3 DEF UnderWay
  <2>2. Calls(w) = Calls(w)' \cup {L}
    BY <1>1, <1>2
  <2>3. Innermost(w).index \in 0..n /\ \A k \in Calls(w)' : stack[w][k].index # Innermost(w).index
    BY <1>1, <1>3, <1>4, <1>7, <1>8
  <2> QED
    BY <1>1, <2>1, <2>2, <2>3 DEF UnderWay
<1>10. \A c \in DOMAIN TreeOf[w] :
         n < c /\ TreeOf[w][c].parent <= n => TreeOf[w][c].parent \in UnderWay(w)'
  <2> SUFFICES ASSUME NEW c \in DOMAIN TreeOf[w], n < c, TreeOf[w][c].parent <= n
               PROVE  TreeOf[w][c].parent \in UnderWay(w)'
    OBVIOUS
  <2>1. TreeOf[w][c].parent \in UnderWay(w)
    BY DEF InPreorder
  <2>2. TreeOf[w][c].parent # Innermost(w).index
    <3>1. c \in Nat /\ c \notin 0..n
      BY <1>4, PreorderAssumption
    <3> QED
      BY <3>1 DEF Children
  <2> QED
    BY <1>9, <2>1, <2>2
<1>11. Innermost(w).index \in UnderWay(w) /\ FrameFits(Innermost(w), TreeOf[w], n)
  BY <1>1 DEF InPreorder, UnderWay
<1> QED
  BY <1>4, <1>5, <1>6, <1>9, <1>10, <1>11

\* A file or symlink gets its node.
LEMMA LeafAlone ==
  ASSUME IInv, NEW w \in Threads, InPreorder(w, ReadSoFar), InsertLeaf(w)
  PROVE  InPreorder(w, ReadSoFar)'
<1>1. PICK n : n = ReadSoFar /\ InPreorder(w, n)
  OBVIOUS
<1>2. PICK f, L : f = Innermost(w) /\ L = Len(stack[w])
  OBVIOUS
<1>3. /\ at[w] = "leaf" /\ stack[w] # << >> /\ L > 1 /\ L \in Nat /\ L \in Calls(w)
      /\ f = stack[w][L] /\ directories' = directories
      /\ stack' = [stack EXCEPT ![w] = Callers(w)] /\ at'[w] = "entries"
      /\ nodes' = Put(nodes, f.inode, NewAttrs(TreeOf[w][f.index].kind, TreeOf[w][f.index].hash,
                                               TreeSize(TreeOf[w][f.index].hash)))
      /\ ReadSoFar' = n
  BY <1>1, <1>2 DEF InsertLeaf, Goto, IInv, CallsNest, Nests, Typed, Calls, Innermost,
                    CounterAfterLeaf, ReadSoFar
<1>4. f.index \in DOMAIN TreeOf[w] /\ TreeOf[w][f.index].kind # "Directory"
  <2>1. L # 1 /\ L \in Calls(w) /\ L = Len(stack[w]) /\ at[w] = "leaf"
    BY <1>2, <1>3
  <2>2. Nests(w)
    BY DEF IInv, CallsNest
  <2> QED
    BY <1>3, <2>1, <2>2 DEF Nests, Inserts
<1>5. Children(w, f.index) = {}
  <2>1. \A c \in DOMAIN TreeOf[w] : TreeOf[w][c].parent # 0 =>
          TreeOf[w][TreeOf[w][c].parent].kind = "Directory"
    BY PreorderAssumption
  <2>2. f.index # 0
    BY <1>4, PreorderAssumption
  <2> QED
    BY <1>4, <2>1, <2>2 DEF Children
<1>6. /\ n \in Nat /\ n <= Len(TreeOf[w])
      /\ \A k \in Calls(w)' : FrameFits(stack'[w][k], TreeOf[w], n)
      /\ \A j, k \in Calls(w)' : j < k => stack'[w][j].index < stack'[w][k].index
      /\ \A c \in DOMAIN TreeOf[w] :
           n < c /\ TreeOf[w][c].parent <= n => TreeOf[w][c].parent \in UnderWay(w)'
      /\ UnderWay(w)' = UnderWay(w) \ {f.index}
      /\ f.index \in UnderWay(w) /\ FrameFits(f, TreeOf[w], n)
  BY <1>1, <1>2, <1>3, <1>5, PopAlone
<1>7. f.index \in 0..n /\ f.index # 0 /\ f.inode = f.index + 1
  BY <1>4, <1>6, PreorderAssumption DEF FrameFits
<1>8. WithNode(w, n)' = WithNode(w, n) \cup {f.index} /\ WithContent(w, n)' = WithContent(w, n)
  BY <1>3, <1>4, <1>6, <1>7 DEF WithNode, WithContent
<1>9. NodeAt(TreeOf[w], f.inode)
        = NewAttrs(TreeOf[w][f.index].kind, TreeOf[w][f.index].hash,
                   TreeSize(TreeOf[w][f.index].hash))
  <2>1. f.inode # Root /\ f.inode - 1 = f.index
    BY <1>6, <1>7 DEF Root
  <2> QED
    BY <1>4, <2>1 DEF NodeAt
<1>10. nodes' = [i \in {k + 1 : k \in WithNode(w, n)'} |-> NodeAt(TreeOf[w], i)]
  <2>1. nodes = [i \in {k + 1 : k \in WithNode(w, n)} |-> NodeAt(TreeOf[w], i)]
    BY <1>1 DEF InPreorder
  <2>2. nodes' = Put(nodes, f.inode, NodeAt(TreeOf[w], f.inode))
    BY <1>3, <1>9
  <2>3. {k + 1 : k \in WithNode(w, n)'} = {k + 1 : k \in WithNode(w, n)} \cup {f.inode}
    BY <1>7, <1>8
  <2> QED
    BY <2>1, <2>2, <2>3 DEF Put
<1>11. directories' = [i \in {k + 1 : k \in WithContent(w, n)'} |-> TreeContent(TreeOf[w], 1, i - 1)]
  BY <1>1, <1>3, <1>8 DEF InPreorder
<1>12. InPreorder(w, n)'
  BY <1>6, <1>10, <1>11 DEF InPreorder
<1> QED
  BY <1>3, <1>12 DEF InPreorder

\* A directory gets its node.
LEMMA InodeAlone ==
  ASSUME IInv, NEW w \in Threads, InPreorder(w, ReadSoFar), SetInode(w)
  PROVE  InPreorder(w, ReadSoFar)'
<1>1. PICK n : n = ReadSoFar /\ InPreorder(w, n)
  OBVIOUS
<1>2. PICK f, L : f = Innermost(w) /\ L = Len(stack[w])
  OBVIOUS
<1>3. /\ at[w] = "entries" /\ stack[w] # << >> /\ L > 0 /\ L \in Nat /\ L \in Calls(w)
      /\ f = stack[w][L] /\ directories' = directories /\ stack' = stack /\ at'[w] = "content"
      /\ nodes' = Put(nodes, f.inode, NewAttrs("Directory", NoHash, 0))
      /\ ReadSoFar' = n
  BY <1>1, <1>2 DEF SetInode, Goto, IInv, CallsNest, Nests, Typed, Calls, Innermost, ReadSoFar
<1>4. FrameFits(f, TreeOf[w], n) /\ f.index \in 0..n /\ f.inode = f.index + 1 /\ n \in Nat
  BY <1>1, <1>3 DEF InPreorder, FrameFits
<1>5. f.index = 0 \/ TreeOf[w][f.index].kind = "Directory"
  <2>1. CASE L = 1
    <3>1. f.inode = Root
      BY <1>3, <2>1 DEF IInv, CallsNest, Nests
    <3> QED
      BY <1>4, <3>1 DEF Root
  <2>2. CASE L # 1
    BY <1>3, <2>2 DEF IInv, CallsNest, Nests, Inserts
  <2> QED
    BY <2>1, <2>2
<1>6. NodeAt(TreeOf[w], f.inode) = NewAttrs("Directory", NoHash, 0)
  <2>1. f.inode - 1 = f.index /\ (f.index = 0 => f.inode = Root)
    BY <1>4 DEF Root
  <2> QED
    BY <1>5, <2>1 DEF NodeAt
<1>7. Calls(w)' = Calls(w) /\ UnderWay(w)' = UnderWay(w) /\ Innermost(w)' = f
  BY <1>2, <1>3 DEF Calls, UnderWay, Innermost
<1>8. f.index \in UnderWay(w)
  BY <1>3 DEF UnderWay
<1>9. WithNode(w, n)' = WithNode(w, n) \cup {f.index} /\ WithContent(w, n)' = WithContent(w, n)
  BY <1>3, <1>4, <1>7, <1>8 DEF WithNode, WithContent
<1>10. nodes' = [i \in {k + 1 : k \in WithNode(w, n)'} |-> NodeAt(TreeOf[w], i)]
  <2>1. nodes = [i \in {k + 1 : k \in WithNode(w, n)} |-> NodeAt(TreeOf[w], i)]
    BY <1>1 DEF InPreorder
  <2>2. nodes' = Put(nodes, f.inode, NodeAt(TreeOf[w], f.inode))
    BY <1>3, <1>6
  <2>3. {k + 1 : k \in WithNode(w, n)'} = {k + 1 : k \in WithNode(w, n)} \cup {f.inode}
    BY <1>4, <1>9
  <2> QED
    BY <2>1, <2>2, <2>3 DEF Put
<1>11. InPreorder(w, n)'
  BY <1>1, <1>3, <1>7, <1>9, <1>10 DEF InPreorder
<1> QED
  BY <1>3, <1>11 DEF InPreorder

\* A directory gets its content.
LEMMA ContentAlone ==
  ASSUME IInv, AllRead, NEW w \in Threads, InPreorder(w, ReadSoFar), SetContent(w)
  PROVE  InPreorder(w, ReadSoFar)'
<1>1. PICK n : n = ReadSoFar /\ InPreorder(w, n)
  OBVIOUS
<1>2. PICK f, L : f = Innermost(w) /\ L = Len(stack[w])
  OBVIOUS
<1>3. /\ at[w] = "content" /\ stack[w] # << >> /\ L > 0 /\ L \in Nat /\ L \in Calls(w)
      /\ f = stack[w][L] /\ nodes' = nodes /\ at'[w] # "content"
      /\ stack' = [stack EXCEPT ![w] = Callers(w)]
      /\ directories' = Put(directories, f.inode, f.entries)
      /\ ReadSoFar' = n
  BY <1>1, <1>2 DEF SetContent, Goto, IInv, CallsNest, Nests, Typed, Calls, Innermost,
                    Replaced, ReadSoFar
<1>4. FrameFits(f, TreeOf[w], n) /\ f.index \in 0..n /\ f.inode = f.index + 1 /\ n \in Nat
  BY <1>1, <1>3 DEF InPreorder, FrameFits
<1>5. f.index = 0 \/ TreeOf[w][f.index].kind = "Directory"
  <2>1. CASE L = 1
    <3>1. f.inode = Root
      BY <1>3, <2>1 DEF IInv, CallsNest, Nests
    <3> QED
      BY <1>4, <3>1 DEF Root
  <2>2. CASE L # 1
    BY <1>3, <2>2 DEF IInv, CallsNest, Nests, Inserts
  <2> QED
    BY <2>1, <2>2
<1>6. \A c \in Children(w, f.index) : c \in Nat /\ c <= n
  <2>1. f.left = {}
    BY <1>2, <1>3 DEF AllRead
  <2>2. \A c \in DOMAIN TreeOf[w] : c \in Nat
    BY PreorderAssumption
  <2> QED
    BY <1>4, <2>1, <2>2 DEF FrameFits, Children
<1>7. Children(w, f.index) \subseteq 0..n
  BY <1>4, <1>6
<1>8. /\ n <= Len(TreeOf[w])
      /\ \A k \in Calls(w)' : FrameFits(stack'[w][k], TreeOf[w], n)
      /\ \A j, k \in Calls(w)' : j < k => stack'[w][j].index < stack'[w][k].index
      /\ \A c \in DOMAIN TreeOf[w] :
           n < c /\ TreeOf[w][c].parent <= n => TreeOf[w][c].parent \in UnderWay(w)'
      /\ UnderWay(w)' = UnderWay(w) \ {f.index}
      /\ f.index \in UnderWay(w)
  BY <1>1, <1>2, <1>3, <1>7, PopAlone
<1>9. WithContent(w, n)' = WithContent(w, n) \cup {f.index} /\ WithNode(w, n)' = WithNode(w, n)
  BY <1>2, <1>3, <1>4, <1>5, <1>8 DEF WithNode, WithContent
<1>10. directories' = [i \in {k + 1 : k \in WithContent(w, n)'} |-> TreeContent(TreeOf[w], 1, i - 1)]
  <2>1. directories = [i \in {k + 1 : k \in WithContent(w, n)} |-> TreeContent(TreeOf[w], 1, i - 1)]
    BY <1>1 DEF InPreorder
  <2>2. f.entries = TreeContent(TreeOf[w], 1, f.index)
    BY <1>4, <1>6, LastTable DEF FrameFits
  <2>3. f.inode - 1 = f.index
    BY <1>4
  <2>4. directories' = Put(directories, f.inode, TreeContent(TreeOf[w], 1, f.inode - 1))
    BY <1>3, <2>2, <2>3
  <2>5. {k + 1 : k \in WithContent(w, n)'} = {k + 1 : k \in WithContent(w, n)} \cup {f.inode}
    BY <1>4, <1>9
  <2> QED
    BY <2>1, <2>4, <2>5 DEF Put
<1>11. nodes' = [i \in {k + 1 : k \in WithNode(w, n)'} |-> NodeAt(TreeOf[w], i)]
  BY <1>1, <1>3, <1>9 DEF InPreorder
<1>12. InPreorder(w, n)'
  BY <1>4, <1>8, <1>10, <1>11 DEF InPreorder
<1> QED
  BY <1>3, <1>12 DEF InPreorder

\* What a thread leaves that has done alone.
LEMMA DoneAlone ==
  ASSUME IInv, NEW w \in Threads, InPreorder(w, ReadSoFar), at[w] = "done"
  PROVE  /\ nodes = TreeNodes(TreeOf[w], 1)
         /\ directories = TreeDirectories(TreeOf[w], 1)
         /\ next_inode = AfterTree(1, TreeOf[w])
<1>1. PICK n : n = ReadSoFar /\ InPreorder(w, n) /\ n \in Nat /\ n <= Len(TreeOf[w])
  BY DEF InPreorder
<1>2. Len(TreeOf[w]) \in Nat /\ DOMAIN TreeOf[w] = 1..Len(TreeOf[w]) /\ next_inode \in Nat
  BY PreorderAssumption DEF IInv, Typed
<1>3. Calls(w) = {} /\ UnderWay(w) = {}
  <2>1. stack[w] = << >>
    BY DEF IInv, CallsNest, Nests
  <2> QED
    BY <2>1 DEF Calls, UnderWay
<1>4. n = Len(TreeOf[w])
  <2> SUFFICES ASSUME n < Len(TreeOf[w]) PROVE FALSE
    BY <1>1, <1>2
  <2>1. n + 1 \in DOMAIN TreeOf[w] /\ n < n + 1
    BY <1>1, <1>2
  <2>2. TreeOf[w][n + 1].parent \in 0..((n + 1) - 1)
    BY <2>1, PreorderAssumption
  <2>3. TreeOf[w][n + 1].parent <= n
    BY <1>1, <2>2
  <2> QED
    BY <1>1, <1>3, <2>1, <2>3 DEF InPreorder
<1>5. next_inode = AfterTree(1, TreeOf[w])
  BY <1>1, <1>2, <1>4 DEF AfterTree, ReadSoFar
<1>6. \A k \in 0..n : TreeInode(1, k) = k + 1
  BY <1>1 DEF TreeInode, Root
<1>7. nodes = TreeNodes(TreeOf[w], 1)
  <2>1. WithNode(w, n) = 0..n
    BY <1>3 DEF WithNode
  <2>2. {TreeInode(1, k) : k \in 0..n} = {k + 1 : k \in 0..n}
    BY <1>6
  <2>3. nodes = [i \in {k + 1 : k \in 0..n} |-> NodeAt(TreeOf[w], i)]
    BY <1>1, <2>1 DEF InPreorder
  <2>4. TreeNodes(TreeOf[w], 1) = [i \in {k + 1 : k \in 0..n} |-> NodeAt(TreeOf[w], i)]
    BY <1>4, <2>2 DEF TreeNodes, NodeAt
  <2> QED
    BY <2>3, <2>4
<1>8. directories = TreeDirectories(TreeOf[w], 1)
  <2> DEFINE D == {0} \cup {k \in DOMAIN TreeOf[w] : TreeOf[w][k].kind = "Directory"}
  <2>1. WithContent(w, n) = D
    BY <1>1, <1>2, <1>3, <1>4 DEF WithContent
  <2>2. D \subseteq 0..n
    BY <1>1, <1>2, <1>4
  <2>3. TreeDirectories(TreeOf[w], 1) = [i \in {TreeInode(1, k) : k \in D} |->
                                           TreeContent(TreeOf[w], 1, IF i = Root THEN 0 ELSE i - 1)]
    BY DEF TreeDirectories
  <2> HIDE DEF D
  <2>4. {TreeInode(1, k) : k \in D} = {k + 1 : k \in D}
    BY <1>6, <2>2
  <2>5. \A i : (IF i = Root THEN 0 ELSE i - 1) = i - 1
    BY DEF Root
  <2>6. TreeDirectories(TreeOf[w], 1) = [i \in {k + 1 : k \in D} |-> TreeContent(TreeOf[w], 1, i - 1)]
    BY <2>3, <2>4, <2>5
  <2>7. directories = [i \in {k + 1 : k \in D} |-> TreeContent(TreeOf[w], 1, i - 1)]
    BY <1>1, <2>1 DEF InPreorder
  <2> QED
    BY <2>6, <2>7
<1> QED
  BY <1>5, <1>7, <1>8

\* A step that leaves the tables and what a thread has under way.
LEMMA SamePreorder ==
  ASSUME NEW w \in Threads, InPreorder(w, ReadSoFar), nodes' = nodes, directories' = directories,
         next_inode' = next_inode, stack' = stack, at'[w] = at[w]
  PROVE  InPreorder(w, ReadSoFar)'
<1>1. ReadSoFar' = ReadSoFar
  BY DEF ReadSoFar
<1>2. Calls(w)' = Calls(w) /\ UnderWay(w)' = UnderWay(w) /\ Innermost(w)' = Innermost(w)
  BY DEF Calls, UnderWay, Innermost
<1>3. PICK n : n = ReadSoFar /\ InPreorder(w, n)
  OBVIOUS
<1>4. WithNode(w, n)' = WithNode(w, n) /\ WithContent(w, n)' = WithContent(w, n)
  BY <1>2 DEF WithNode, WithContent
<1>5. InPreorder(w, n)'
  BY <1>2, <1>3, <1>4 DEF InPreorder
<1> QED
  BY <1>1, <1>3, <1>5 DEF InPreorder

\* Whoever has begun goes on.
LEMMA AloneKept ==
  ASSUME IInv, AllRead, Alone, NEW u \in Threads,
         TestRoot(u) \/ Burn(u) \/ ReadEntry(u) \/ InsertLeaf(u) \/ SetInode(u) \/ SetContent(u)
  PROVE  Alone'
<1>1. \A v \in Threads \ {u} : at'[v] = at[v]
  BY DEF IInv, Typed, TestRoot, Burn, ReadEntry, InsertLeaf, SetInode, SetContent, Goto
<1>2. CASE TestRoot(u)
  <2>1. /\ nodes' = nodes /\ directories' = directories /\ next_inode' = next_inode
        /\ stack' = stack /\ ~ Begun(u) /\ at'[u] = IF Root \in DOMAIN nodes THEN "done" ELSE "burn"
    BY <1>2 DEF TestRoot, Goto, Begun, IInv, Typed, HasRoot
  <2>2. \A v \in Threads \ {u} : Begun(v)' <=> Begun(v)
    BY <1>1 DEF Begun
  <2>3. CASE Root \in DOMAIN nodes
    <3>1. PICK v \in Threads : Begun(v)
      BY <2>3 DEF Alone, EmptyMap
    <3>2. v # u /\ Begun(v)' /\ Begun(u)'
      BY <2>1, <2>2, <2>3, <3>1 DEF Begun
    <3> QED
      BY <3>1, <3>2 DEF Alone
  <2>4. CASE Root \notin DOMAIN nodes
    <3>1. \A v \in Threads : Begun(v)' <=> Begun(v)
      BY <2>1, <2>2, <2>4 DEF Begun
    <3>2. (\A w \in Threads : ~ Begun(w)') =>
            nodes' = EmptyMap /\ directories' = EmptyMap /\ next_inode' = 1
      BY <2>1, <3>1 DEF Alone
    <3>3. ASSUME NEW w \in Threads, Begun(w)', \A v \in Threads \ {w} : ~ Begun(v)'
          PROVE  InPreorder(w, ReadSoFar)'
      <4>1. w # u /\ InPreorder(w, ReadSoFar)
        BY <2>1, <3>1, <3>3 DEF Alone
      <4> QED
        BY <1>1, <2>1, <4>1, SamePreorder
    <3> QED
      BY <3>2, <3>3 DEF Alone
  <2> QED
    BY <2>3, <2>4
<1>3. CASE ~ TestRoot(u)
  <2>1. Begun(u)'
    BY <1>3 DEF IInv, Typed, TestRoot, Burn, ReadEntry, InsertLeaf, SetInode, SetContent, Goto, Begun
  <2>2. SUFFICES ASSUME \A v \in Threads \ {u} : ~ Begun(v)
                 PROVE  InPreorder(u, ReadSoFar)'
    BY <1>1, <2>1 DEF Alone, Begun
  <2>3. CASE Burn(u)
    <3>1. \A v \in Threads : ~ Begun(v)
      BY <2>2, <2>3 DEF Burn, Begun
    <3> QED
      BY <2>3, <3>1, BurnAlone DEF Alone
  <2>4. CASE ~ Burn(u)
    <3>1. Begun(u)
      BY <1>3, <2>4 DEF ReadEntry, InsertLeaf, SetInode, SetContent, Begun
    <3>2. InPreorder(u, ReadSoFar)
      BY <2>2, <3>1 DEF Alone
    <3> QED
      BY <1>3, <2>4, <3>2, ReadAlone, LeafAlone, InodeAlone, ContentAlone
  <2> QED
    BY <2>3, <2>4
<1> QED
  BY <1>2, <1>3

\* It holds of every state.
LEMMA AloneHolds == Spec => []Alone
<1>1. ASSUME Init PROVE Alone
  BY <1>1 DEF Init, Alone, Begun
<1>2. ASSUME Alone, UNCHANGED vars PROVE Alone'
  <2>1. \A w \in Threads : Begun(w)' <=> Begun(w)
    BY <1>2 DEF vars, Begun
  <2>2. ASSUME NEW w \in Threads, InPreorder(w, ReadSoFar) PROVE InPreorder(w, ReadSoFar)'
    BY <1>2, <2>2, SamePreorder DEF vars
  <2>3. nodes' = nodes /\ directories' = directories /\ next_inode' = next_inode
    BY <1>2 DEF vars
  <2> QED
    BY <1>2, <2>1, <2>2, <2>3 DEF Alone
<1>3. IInv /\ Labelled /\ Alone /\ [Next]_vars => Alone'
  BY <1>2, AloneKept DEF Next, Labelled
<1> QED
  BY <1>1, <1>3, IInvHolds, LabelledHolds, PTL DEF Spec

\* A thread that runs alone, whatever its tree, leaves the tables that
\* CultivateFS takes it to leave in one step: the recursion of insert_tree on a
\* stack of its own, and the counter, come to the preorder numbering of the tree.
THEOREM AloneIsAlwaysOneStep == Spec => []AloneIsOneStep
<1>1. ASSUME IInv, Alone PROVE AloneIsOneStep
  <2> SUFFICES ASSUME NEW w \in Threads, at[w] = "done",
                      \A v \in Threads \ {w} : at[v] \in {"test", "burn"}
               PROVE  /\ nodes = TreeNodes(TreeOf[w], 1)
                      /\ directories = TreeDirectories(TreeOf[w], 1)
                      /\ next_inode = AfterTree(1, TreeOf[w])
    BY DEF AloneIsOneStep
  <2>1. InPreorder(w, ReadSoFar)
    BY <1>1 DEF Alone, Begun
  <2> QED
    BY <1>1, <2>1, DoneAlone
<1> QED
  BY <1>1, IInvHolds, AloneHolds, PTL

=============================================================================
