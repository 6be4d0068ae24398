------------------------- MODULE CultivateFSProofs --------------------------
(***************************************************************************)
(* Proofs about CultivateFS, for any names, bytes, trees and bounds: open  *)
(* handles, writes, the tree, and the types of every variable.             *)
(***************************************************************************)
EXTENDS CultivateFS, SequenceTheorems, TLAPS

\* The padding is a string of bytes, as long as the gap.
LEMMA ZerosType == ASSUME NEW n \in Nat PROVE Zeros(n) \in Seq(Byte) /\ Len(Zeros(n)) = n
                                        /\ \A k \in 1..n : Zeros(n)[k] = Zero
  BY DEF Zeros, Byte

\* What the kernel sends with a write is a string of bytes, never empty.
LEMMA DataType == \A data \in Data : data \in Seq(Byte) /\ Len(data) > 0
  BY BoundsAssumption DEF Data, Byte

\* The length of what CursorWrite returns: c, o, d, p and t are the lengths of
\* the old content, of what precedes the data, of the data, of the padded
\* content and of what follows the data.
LEMMA WrittenLength ==
  ASSUME NEW c \in Nat, NEW o \in Nat, NEW d \in Nat, NEW p \in Nat, NEW t \in Nat,
         p = IF c < o THEN o ELSE c,
         t = IF p > o + d THEN p - o - d ELSE 0
  PROVE  o + d + t = IF c > o + d THEN c ELSE o + d
  OBVIOUS

\* What a write leaves in the file: the data at its offset, zeros in the gap,
\* the old bytes everywhere else.
LEMMA CursorWriteLands ==
  ASSUME NEW content \in Seq(Byte), NEW offset \in Nat, NEW data \in Seq(Byte)
  PROVE  /\ CursorWrite(content, offset, data) \in Seq(Byte)
         /\ Tree!Written(content, offset, data, CursorWrite(content, offset, data))
<1> DEFINE padded == IF Len(content) < offset
                  THEN content \o Zeros(offset - Len(content)) ELSE content
           head == SubSeq(padded, 1, offset)
           tail == SubSeq(padded, offset + Len(data) + 1, Len(padded))
<1>1. /\ padded \in Seq(Byte)
      /\ Len(padded) = IF Len(content) < offset THEN offset ELSE Len(content)
      /\ \A k \in 1..Len(padded) : padded[k] = IF k <= Len(content) THEN content[k] ELSE Zero
  <2>1. CASE Len(content) < offset
    BY <2>1, ZerosType
  <2>2. CASE Len(content) >= offset
    BY <2>2
  <2> QED BY <2>1, <2>2
<1> HIDE DEF padded
<1>2. /\ head \in Seq(Byte) /\ Len(head) = offset
      /\ \A k \in 1..offset : head[k] = padded[k]
  BY <1>1
<1>3. /\ tail \in Seq(Byte)
      /\ Len(tail) = IF Len(padded) > offset + Len(data) THEN Len(padded) - offset - Len(data) ELSE 0
      /\ \A k \in 1..Len(tail) : tail[k] = padded[k + offset + Len(data)]
  BY <1>1
<1> HIDE DEF head, tail
<1> DEFINE front == head \o data
           new   == front \o tail
<1>a. Len(content) \in Nat /\ Len(data) \in Nat /\ Len(padded) \in Nat /\ Len(tail) \in Nat
  BY <1>1, <1>3
<1>b. /\ front \in Seq(Byte)
      /\ Len(front) = offset + Len(data)
      /\ \A k \in 1..Len(front) :
           front[k] = IF k <= offset THEN head[k] ELSE data[k - offset]
  BY <1>2
<1> HIDE DEF front
<1>4. /\ new \in Seq(Byte)
      /\ Len(new) = offset + Len(data) + Len(tail)
      /\ \A k \in 1..Len(new) : k <= offset + Len(data) => new[k] = front[k]
      /\ \A k \in 1..Len(new) :
           k > offset + Len(data) => new[k] = tail[k - (offset + Len(data))]
  <2>1. /\ new \in Seq(Byte)
        /\ Len(new) = Len(front) + Len(tail)
        /\ \A k \in 1..Len(new) :
             new[k] = IF k <= Len(front) THEN front[k] ELSE tail[k - Len(front)]
    <3>1. front \in Seq(Byte) /\ tail \in Seq(Byte)
      BY <1>b, <1>3
    <3> QED BY <3>1, ConcatProperties
  <2>2. Len(new) = offset + Len(data) + Len(tail)
    BY <2>1, <1>b
  <2>3. ASSUME NEW k \in 1..Len(new), k <= offset + Len(data)  PROVE new[k] = front[k]
    BY <2>1, <2>3, <1>b
  <2>4. ASSUME NEW k \in 1..Len(new), k > offset + Len(data)
        PROVE  new[k] = tail[k - (offset + Len(data))]
    <3>1. ~(k <= Len(front))
      BY <2>4, <2>2, <1>a, <1>b
    <3> QED BY <2>1, <3>1, <1>b
  <2> HIDE DEF new
  <2> QED BY <2>1, <2>2, <2>3, <2>4
<1> HIDE DEF new
<1>5. new = CursorWrite(content, offset, data)
  BY DEF new, front, head, tail, padded, CursorWrite
<1>6. Tree!Written(content, offset, data, new)
  <2>1. Len(new) = IF Len(content) > offset + Len(data) THEN Len(content) ELSE offset + Len(data)
    <3>1. /\ Len(padded) = IF Len(content) < offset THEN offset ELSE Len(content)
          /\ Len(tail) = IF Len(padded) > offset + Len(data)
                          THEN Len(padded) - offset - Len(data) ELSE 0
          /\ Len(new) = offset + Len(data) + Len(tail)
      BY <1>1, <1>3, <1>4
    <3> DEFINE c == Len(content)
               d == Len(data)
               p == Len(padded)
               t == Len(tail)
               n == Len(new)
    <3>2. c \in Nat /\ d \in Nat /\ p \in Nat /\ t \in Nat
      BY <1>a
    <3>3. /\ p = IF c < offset THEN offset ELSE c
          /\ t = IF p > offset + d THEN p - offset - d ELSE 0
          /\ n = offset + d + t
      BY <3>1
    <3> HIDE DEF c, d, p, t, n
    <3>4. n = IF c > offset + d THEN c ELSE offset + d
      BY <3>2, <3>3
    <3> QED BY <3>4 DEF c, d, n
  <2>2. ASSUME NEW k \in 1..Len(new)
        PROVE  new[k] = CASE k > offset /\ k <= offset + Len(data) -> data[k - offset]
                          [] k <= Len(content) /\ ~(k > offset /\ k <= offset + Len(data)) -> content[k]
                          [] OTHER -> Zero
    <3> k \in Nat /\ k > 0
      BY <1>4, <1>a
    <3>1. CASE k <= offset
      <4>2. k \in 1..offset /\ k <= offset + Len(data) /\ k \in 1..Len(front)
        BY <3>1, <1>a, <1>b
      <4>3. new[k] = front[k] /\ front[k] = head[k] /\ head[k] = padded[k]
        BY <4>2, <1>2, <1>b, <1>4, <3>1
      <4>4. Len(padded) >= offset
        BY <1>1
      <4>1. new[k] = padded[k] /\ k \in 1..Len(padded)
        BY <4>2, <4>3, <4>4, <1>a
      <4> QED BY <3>1, <4>1, <1>a, <1>1
    <3>2. CASE k > offset /\ k <= offset + Len(data)
      BY <3>2, <1>a, <1>b, <1>4
    <3>3. CASE k > offset + Len(data)
      <4> DEFINE j == k - (offset + Len(data))
      <4>1. j \in 1..Len(tail) /\ new[k] = tail[j] /\ j + offset + Len(data) = k
        BY <3>3, <1>a, <1>4
      <4>2. Len(padded) > offset + Len(data) /\ k \in 1..Len(padded)
        BY <4>1, <1>a, <1>3
      <4>3. new[k] = padded[k]
        BY <4>1, <1>3
      <4>4. Len(padded) = Len(content)
        BY <4>2, <1>a, <1>1
      <4> QED BY <4>2, <4>3, <4>4, <3>3, <1>a, <1>1
    <3> QED BY <3>1, <3>2, <3>3, <1>a
  <2> QED BY <2>1, <2>2 DEF Tree!Written
<1> QED BY <1>4, <1>5, <1>6

-----------------------------------------------------------------------------
(* What the handlers of open files rely on: every node has its attributes, *)
(* and every handle and every directory has its node.  (That hardlinks is  *)
(* never negative needs the shape of the tree as well, and is not in it.)  *)

NodeAttributes ==
  [kind : Kinds, hash : Seq(Byte) \cup {NoHash}, size : Nat, open : Nat, hardlinks : Int]

HandlesResolve ==
  /\ next_inode \in Nat /\ next_inode > 0
  /\ \A i \in DOMAIN nodes : nodes[i] \in NodeAttributes
  /\ DOMAIN directories \subseteq DOMAIN nodes
  /\ \A fh \in DOMAIN handles : handles[fh].inode \in DOMAIN nodes

\* Attributes stay attributes under everything the handlers do to them.
LEMMA AttributesKept ==
  /\ \A attrs \in NodeAttributes :
       /\ IncHandle(attrs) \in NodeAttributes
       /\ DecHandle(attrs) \in NodeAttributes
       /\ DecHardlinks(attrs) \in NodeAttributes
  /\ \A kind \in Kinds, hash \in Seq(Byte) \cup {NoHash}, size \in Nat :
       NewAttrs(kind, hash, size) \in NodeAttributes
  BY DEF NodeAttributes, IncHandle, DecHandle, DecHardlinks, NewAttrs

\* set_root_tree and init: the inodes of a tree.
LEMMA InsertRootKeeps ==
  ASSUME HandlesResolve, NEW t \in Seq([parent : Nat, name : Names, kind : Kinds,
                                       hash : Seq(Byte) \cup {NoHash}]),
         IsTree(t), InsertRoot(t), UNCHANGED handles
  PROVE  HandlesResolve'
<1>1. ASSUME NEW i \in DOMAIN TreeNodes(t, next_inode)
      PROVE  TreeNodes(t, next_inode)[i] \in NodeAttributes
  <2>1. PICK k \in 0..Len(t) : i = TreeInode(next_inode, k)
    BY <1>1 DEF TreeNodes
  <2>2. CASE i = Root \/ t[i - next_inode].kind = "Directory"
    BY <2>2, AttributesKept DEF TreeNodes, Kinds
  <2>3. CASE ~(i = Root \/ t[i - next_inode].kind = "Directory")
    <3>1. k \in DOMAIN t /\ i - next_inode = k
      BY <2>1, <2>3 DEF TreeInode, HandlesResolve
    <3>2. t[k].kind \in Kinds /\ t[k].hash \in Seq(Byte)
      BY <2>3, <3>1 DEF IsTree
    <3> QED BY <2>3, <3>1, <3>2, AttributesKept DEF TreeNodes, TreeSize
  <2> QED BY <2>2, <2>3
<1>2. DOMAIN TreeDirectories(t, next_inode) \subseteq DOMAIN TreeNodes(t, next_inode)
  BY DEF TreeDirectories, TreeNodes
<1> QED BY <1>1, <1>2 DEF HandlesResolve, InsertRoot, Overlay, AfterTree

\* mkdir, mknod and symlink: one node is added, and nothing removed.
LEMMA CreateNodeKeeps ==
  ASSUME HandlesResolve, NEW attrs \in NodeAttributes, CreateNode(attrs), UNCHANGED handles,
         DOMAIN directories' \subseteq DOMAIN directories \cup {next_inode}
  PROVE  HandlesResolve'
<1>1. DOMAIN nodes' = DOMAIN nodes \cup {next_inode} /\ next_inode' = next_inode + 1
  BY DEF CreateNode, Put
<1>2. ASSUME NEW i \in DOMAIN nodes' PROVE nodes'[i] \in NodeAttributes
  BY DEF CreateNode, Put, HandlesResolve
<1> QED BY <1>1, <1>2 DEF HandlesResolve

\* Every step keeps the handles and the attributes.
LEMMA HandlesStep ==
  ASSUME HandlesResolve, [Next]_vars
  PROVE  HandlesResolve'
<1>1. CASE UNCHANGED vars
  BY <1>1 DEF HandlesResolve, vars, inodes, opened
<1>2. CASE InitSession
  <2>1. << >> \in Seq([parent : Nat, name : Names, kind : Kinds,
                      hash : Seq(Byte) \cup {NoHash}]) /\ IsTree(<< >>)
    BY DEF IsTree
  <2>2. CASE next_inode' = next_inode + 1 /\ UNCHANGED <<nodes, directories, handles>>
    BY <2>2 DEF HandlesResolve
  <2> QED BY <1>2, <2>1, <2>2, InsertRootKeeps DEF InitSession, HandlesResolve, inodes, opened
<1>3. ASSUME NEW parent \in DOMAIN directories, NEW name \in Names, Mkdir(parent, name)
      PROVE  HandlesResolve'
  <2>1. CASE Fail("EEXIST")
    BY <2>1 DEF HandlesResolve, Fail, inodes, opened
  <2>2. CASE /\ CreateNode(NewAttrs("Directory", NoHash, 0))
             /\ directories' = WithDirectory(directories, parent, name, next_inode)
             /\ UNCHANGED opened
    <3>1. NewAttrs("Directory", NoHash, 0) \in NodeAttributes
      BY AttributesKept DEF Kinds
    <3>2. DOMAIN directories' \subseteq DOMAIN directories \cup {next_inode}
      BY <2>2 DEF WithDirectory, Link, Put
    <3> QED BY <2>2, <3>1, <3>2, CreateNodeKeeps DEF opened
  <2> QED BY <1>3, <2>1, <2>2 DEF Mkdir, opened
<1>4. ASSUME NEW parent \in DOMAIN directories, NEW name \in Names, NEW fileType,
             Mknod(parent, name, fileType)
      PROVE  HandlesResolve'
  <2>1. ASSUME NEW res, Fail(res) PROVE HandlesResolve'
    BY <2>1 DEF HandlesResolve, Fail, inodes, opened
  <2>2. CASE /\ CreateNode(NewAttrs("File", NoHash, 0))
             /\ directories' = Link(directories, parent, name, Entry(next_inode, "File"))
             /\ UNCHANGED opened
    <3>1. NewAttrs("File", NoHash, 0) \in NodeAttributes
      BY AttributesKept DEF Kinds
    <3>2. DOMAIN directories' \subseteq DOMAIN directories \cup {next_inode}
      BY <2>2 DEF Link
    <3> QED BY <2>2, <3>1, <3>2, CreateNodeKeeps DEF opened
  <2> QED BY <1>4, <2>1, <2>2 DEF Mknod, opened
<1>5. ASSUME NEW parent \in DOMAIN directories, NEW name \in Names, NEW target \in Targets,
             Symlink(parent, name, target)
      PROVE  HandlesResolve'
  <2>1. /\ NewAttrs("Symlink", NoHash, 0) \in NodeAttributes
        /\ NewAttrs("Symlink", target, Len(target)) \in NodeAttributes
    <3>1. target \in Seq(Byte) /\ Len(target) \in Nat
      BY TargetsAssumption
    <3> QED BY <3>1, AttributesKept DEF Kinds
  <2>2. PICK attrs \in NodeAttributes : CreateNode(attrs)
    BY <1>5, <2>1 DEF Symlink
  <2>3. DOMAIN directories' \subseteq DOMAIN directories /\ UNCHANGED handles
    BY <1>5 DEF Symlink, InsertLink, Link, opened
  <2> QED BY <2>2, <2>3, CreateNodeKeeps
<1>6. ASSUME NEW parent \in DOMAIN directories, NEW name \in Names,
             NEW newParent \in DOMAIN directories, NEW newName \in Names,
             NEW exchange \in BOOLEAN, Rename(parent, name, newParent, newName, exchange)
      PROVE  HandlesResolve'
  BY <1>6, AttributesKept
     DEF HandlesResolve, Rename, Moved, Link, Unlink, Fail, inodes, opened
<1>7. CASE Unimplemented
  BY <1>7 DEF HandlesResolve, Unimplemented, inodes, opened
<1>8. ASSUME NEW i \in DOMAIN directories \cup NonDirectories("File"), NEW mode,
             Open(i, mode)
      PROVE  HandlesResolve'
  BY <1>8, AttributesKept
     DEF HandlesResolve, Open, Handle, Put, Fail, inodes, opened, NonDirectories
<1>9. ASSUME NEW i, Setattr(i) \/ Readlink(i) PROVE HandlesResolve'
  BY <1>9 DEF HandlesResolve, Setattr, Readlink, inodes, opened
<1>10. ASSUME NEW fh \in DOMAIN handles, Release(fh) PROVE HandlesResolve'
  BY <1>10, AttributesKept DEF HandlesResolve, Release, Drop
<1>11. ASSUME NEW fh \in DOMAIN handles, NEW offset, NEW size, Read(fh, offset, size)
       PROVE  HandlesResolve'
  BY <1>11 DEF HandlesResolve, Read, PanicHoldingFiles, Fail, inodes, opened
<1>12. ASSUME NEW fh \in DOMAIN handles, NEW offset \in 0..MaxFileLen, NEW data \in Data,
              Write(fh, offset, data)
       PROVE  HandlesResolve'
  <2>1. ContentOf(nodes[handles[fh].inode]) \in Seq(Byte)
    BY DEF HandlesResolve, NodeAttributes, ContentOf
  <2>2. CursorWrite(ContentOf(nodes[handles[fh].inode]), offset, data) \in Seq(Byte)
    BY <2>1, CursorWriteLands, DataType, BoundsAssumption
  <2>3. GrownSize(nodes[handles[fh].inode], offset, data) \in Nat
    BY DataType, BoundsAssumption DEF HandlesResolve, NodeAttributes, GrownSize
  <2>4. CASE UNCHANGED <<inodes, opened>>
    BY <2>4 DEF HandlesResolve, inodes, opened
  <2>5. ASSUME NEW i, NEW size \in Nat, NEW content \in Seq(Byte),
               nodes' = [nodes EXCEPT ![i].size = size, ![i].hash = content],
               UNCHANGED <<directories, next_inode, opened>>
        PROVE  HandlesResolve'
    BY <2>5 DEF HandlesResolve, NodeAttributes, opened
  <2> QED BY <1>12, <2>2, <2>3, <2>4, <2>5 DEF Write, PanicHoldingFiles, Fail, inodes
<1>13. ASSUME NEW t \in Trees, StoreObjects(t) PROVE HandlesResolve'
  BY <1>13 DEF HandlesResolve, StoreObjects, inodes, opened
<1>14. ASSUME NEW t \in Trees, SetRootTree(t) PROVE HandlesResolve'
  BY <1>14, InsertRootKeeps, TreesAssumption DEF SetRootTree, opened
<1>15. ASSUME NEW m, StrayPanic(m) PROVE HandlesResolve'
  BY <1>15 DEF HandlesResolve, StrayPanic, inodes, opened
<1> QED
  BY <1>1, <1>2, <1>3, <1>4, <1>5, <1>6, <1>7, <1>8, <1>9, <1>10, <1>11, <1>12, <1>13, <1>14,
     <1>15 DEF Next, NamespaceRequest, InodeRequest, HandleRequest, OtherThreads

\* Every open handle leads to a node and every node has its attributes, after
\* any sequence of requests, checkouts and panics.
THEOREM HandlesAlwaysResolve == Spec => []HandlesResolve
<1>1. Init => HandlesResolve
  BY DEF Init, HandlesResolve, EmptyMap
<1>2. HandlesResolve /\ [Next]_vars => HandlesResolve'
  BY HandlesStep
<1> QED BY <1>1, <1>2, PTL DEF Spec

-----------------------------------------------------------------------------
\* A write puts its data at its offset and changes no other byte of the file,
\* for files, writes and offsets of any length.
LEMMA WriteLands ==
  ASSUME HandlesResolve, NEW fh \in DOMAIN handles, NEW offset \in 0..MaxFileLen,
         NEW data \in Data, Write(fh, offset, data), reply'.res = "ok"
  PROVE  Tree!Written(ContentOf(nodes[handles[fh].inode]), offset, data,
                      ContentOf(nodes'[handles[fh].inode]))
<1> DEFINE i == handles[fh].inode
           old == ContentOf(nodes[i])
           new == CursorWrite(old, offset, data)
<1>1. i \in DOMAIN nodes /\ nodes[i] \in NodeAttributes /\ old \in Seq(Byte)
  BY DEF HandlesResolve, NodeAttributes, ContentOf
<1>2. new \in Seq(Byte) /\ Tree!Written(old, offset, data, new)
  BY <1>1, CursorWriteLands, DataType, BoundsAssumption
<1>3. nodes' = [nodes EXCEPT ![i].size = GrownSize(nodes[i], offset, data), ![i].hash = new]
  BY DEF Write, Fail, Answer, PanicHoldingFiles, Panic
<1>4. nodes'[i].hash = new
  BY <1>1, <1>3 DEF NodeAttributes
<1>5. ContentOf(nodes'[i]) = new
  BY <1>2, <1>4, BytesAssumption DEF ContentOf
<1> QED BY <1>2, <1>5

\* Every write that succeeds lands at its offset (read back as a whole, the
\* file is what Tree!Written says, byte by byte).
THEOREM WritesLand == Spec => WritesLandAtOffset
<1>1. HandlesResolve /\ [Next]_vars =>
        [\A fh \in DOMAIN handles : \A offset \in 0..MaxFileLen : \A data \in Data :
           Write(fh, offset, data) /\ reply'.res = "ok" =>
             LET i == handles[fh].inode
             IN  Tree!Written(ContentOf(nodes[i]), offset, data, ContentOf(nodes'[i]))]_vars
  BY WriteLands
<1> QED BY <1>1, HandlesAlwaysResolve, PTL DEF Spec, WritesLandAtOffset

-----------------------------------------------------------------------------
\* Poison of a step, or none.
PoisonKept == UNCHANGED poisoned
Dying ==
  \E m \in Mutexes : session' = "dead" /\ poisoned' = poisoned \cup {m}

\* Apart from stray reads, what a step does to the mutexes of Store is to leave
\* them alone, or to poison one and end the session.
LEMMA PoisonStep ==
  ASSUME [Next]_vars
  PROVE  \/ PoisonKept
         \/ session = "running" /\ Dying
         \/ \E m \in Mutexes : StrayPanic(m)
<1> USE DEF Mutexes, PoisonKept, Dying
<1>1. CASE UNCHANGED vars
  BY <1>1 DEF vars, store
<1>2. CASE InitSession
  BY <1>2 DEF InitSession, store
<1>3. CASE session = "running" /\ NamespaceRequest
  <2>1. ASSUME NEW parent, NEW name, Mkdir(parent, name) PROVE PoisonKept
    BY <2>1 DEF Mkdir, store, Fail
  <2>2. ASSUME NEW parent, NEW name, NEW type, Mknod(parent, name, type) PROVE PoisonKept
    BY <2>2 DEF Mknod, store, Fail
  <2>3. ASSUME NEW parent, NEW name, NEW target, Symlink(parent, name, target)
        PROVE  PoisonKept \/ Dying
    BY <2>3 DEF Symlink, SymlinkPanics, Panic
  <2>4. ASSUME NEW parent, NEW name, NEW newParent, NEW newName, NEW exchange,
               Rename(parent, name, newParent, newName, exchange)
        PROVE  PoisonKept
    BY <2>4 DEF Rename, store, Fail
  <2> QED BY <1>3, <2>1, <2>2, <2>3, <2>4 DEF NamespaceRequest
<1>4. CASE InodeRequest
  BY <1>4 DEF InodeRequest, Unimplemented, Open, Setattr, Readlink, Fail, store
<1>5. CASE session = "running" /\ HandleRequest
  <2>1. ASSUME NEW fh, Release(fh) PROVE PoisonKept
    BY <2>1 DEF Release, store
  <2>2. CASE PanicHoldingFiles
    BY <1>5, <2>2 DEF PanicHoldingFiles, Panic
  <2>3. ASSUME NEW fh, NEW offset, NEW size, Read(fh, offset, size), ~PanicHoldingFiles
        PROVE  PoisonKept
    BY <2>3 DEF Read, Fail, store
  <2>4. ASSUME NEW fh, NEW offset, NEW data, Write(fh, offset, data), ~PanicHoldingFiles
        PROVE  PoisonKept
    BY <2>4 DEF Write, Fail, store
  <2> QED BY <1>5, <2>1, <2>2, <2>3, <2>4 DEF HandleRequest
<1>6. CASE OtherThreads
  BY <1>6 DEF OtherThreads, StoreObjects, SetRootTree, store
<1> QED BY <1>1, <1>2, <1>3, <1>4, <1>5, <1>6 DEF Next

\* A mount poisons a mutex of Store only by the panic it dies of, whatever it is
\* asked: what JjCommands takes a mount to do is all a mount can do.
THEOREM PoisonOnlyInDying == Spec => PoisonsOnlyInDying
<1>1. [Next]_vars =>
        [\A m \in poisoned' \ poisoned :
           \/ session = "running" /\ session' = "dead" /\ poisoned' = poisoned \cup {m}
           \/ StrayPanic(m)]_vars
  BY PoisonStep DEF PoisonKept, Dying, StrayPanic
<1> QED BY <1>1, PTL DEF Spec, PoisonsOnlyInDying

-----------------------------------------------------------------------------
(* The tree: whatever sequence of mkdir, mknod, symlink, rename and        *)
(* checkout came before, it is a tree.                                     *)

\* A file or symlink that an entry refers to counts at least that entry.
LinkedAreCounted ==
  \A d \in DOMAIN directories : \A n \in DOMAIN directories[d] \ Dots :
    directories[d][n].kind # "Directory" => nodes[directories[d][n].inode].hardlinks > 0

RootIsDirectory == Root \in DOMAIN nodes => nodes[Root].kind = "Directory"

\* Inodes are numbered below next_inode, and names are names.
Numbered ==
  /\ next_inode \in Nat /\ next_inode > 0
  /\ DOMAIN nodes \subseteq 1..(next_inode - 1)
  /\ \A d \in DOMAIN directories : DOMAIN directories[d] \subseteq Names \cup Dots

\* The inductive invariant of the tree.
TreeInv ==
  /\ Numbered
  /\ RootIsDirectory
  /\ EntriesResolve
  /\ UniqueLinks
  /\ DotDotConsistent
  /\ LinkedAreCounted

\* Names are not dots, and the root is the first inode.
LEMMA NamesAreNotDots == (\A n \in Names : n \notin Dots) /\ Root = 1
  BY NamesAssumption DEF Root

-----------------------------------------------------------------------------
(* Steps that change the tables of inodes.                                 *)

\* open, release and write: only counters, sizes and contents change.
LEMMA AttributesStep ==
  ASSUME TreeInv, UNCHANGED <<directories, next_inode>>, DOMAIN nodes' = DOMAIN nodes,
         \A i \in DOMAIN nodes : /\ nodes'[i].kind = nodes[i].kind
                                 /\ nodes'[i].hardlinks = nodes[i].hardlinks
  PROVE  TreeInv'
<1> USE DEF TreeInv
<1>1. Numbered' /\ RootIsDirectory' /\ UniqueLinks' /\ DotDotConsistent'
  BY DEF Numbered, RootIsDirectory, UniqueLinks, DotDotConsistent
<1>2. EntriesResolve'
  BY DEF EntriesResolve
<1>3. LinkedAreCounted'
  BY DEF LinkedAreCounted, EntriesResolve
<1> QED BY <1>1, <1>2, <1>3

\* An init that dies on the trees: an inode is burnt.
BurnsInode == next_inode' = next_inode + 1 /\ UNCHANGED <<nodes, directories>>

\* Numbers that go unused harm nothing.
LEMMA BurnStep ==
  ASSUME TreeInv, BurnsInode
  PROVE  TreeInv'
<1> USE DEF TreeInv, BurnsInode
<1>1. Numbered'
  <2>1. next_inode \in Nat /\ DOMAIN nodes \subseteq 1..(next_inode - 1)
    BY DEF Numbered
  <2> QED BY <2>1 DEF Numbered
<1>2. RootIsDirectory' /\ EntriesResolve' /\ UniqueLinks' /\ DotDotConsistent'
  BY DEF RootIsDirectory, EntriesResolve, UniqueLinks, DotDotConsistent
<1>3. LinkedAreCounted'
  BY DEF LinkedAreCounted
<1> QED BY <1>1, <1>2, <1>3

\* A node that nothing refers to: a symlink that insert_link refused.
LEMMA UnlinkedStep ==
  ASSUME TreeInv, NEW attrs, CreateNode(attrs), attrs.kind # "Directory",
         UNCHANGED directories, DOMAIN directories # {}
  PROVE  TreeInv'
<1> USE DEF TreeInv
<1>1. /\ DOMAIN nodes' = DOMAIN nodes \cup {next_inode}
      /\ next_inode \notin DOMAIN nodes /\ next_inode' = next_inode + 1
      /\ \A i \in DOMAIN nodes : nodes'[i] = nodes[i]
      /\ nodes'[next_inode] = attrs
  BY DEF CreateNode, Put, Numbered
<1>2. next_inode > Root
  BY NamesAreNotDots DEF Numbered, EntriesResolve
<1>3. Numbered'
  BY <1>1 DEF Numbered
<1>4. RootIsDirectory' /\ UniqueLinks' /\ DotDotConsistent'
  BY <1>1, <1>2 DEF RootIsDirectory, UniqueLinks, DotDotConsistent, Numbered
<1>5. EntriesResolve'
  BY <1>1 DEF EntriesResolve
<1>6. LinkedAreCounted'
  BY <1>1 DEF LinkedAreCounted, EntriesResolve
<1> QED BY <1>3, <1>4, <1>5, <1>6

\* mknod and symlink: a file or symlink enters a directory under a new name.
LEMMA LinkStep ==
  ASSUME TreeInv, NEW attrs, CreateNode(attrs), attrs.kind # "Directory", attrs.hardlinks > 0,
         NEW parent \in DOMAIN directories, NEW name \in Names,
         name \notin DOMAIN directories[parent],
         directories' = Link(directories, parent, name, Entry(next_inode, attrs.kind))
  PROVE  TreeInv'
<1> USE DEF TreeInv
<1> DEFINE e == Entry(next_inode, attrs.kind)
<1>1. /\ DOMAIN nodes' = DOMAIN nodes \cup {next_inode}
      /\ next_inode \notin DOMAIN nodes /\ next_inode' = next_inode + 1
      /\ \A i \in DOMAIN nodes : nodes'[i] = nodes[i]
      /\ nodes'[next_inode] = attrs
  BY DEF CreateNode, Put, Numbered
<1>2. next_inode > Root
  BY NamesAreNotDots DEF Numbered, EntriesResolve
<1>3. /\ DOMAIN directories' = DOMAIN directories
      /\ \A d \in DOMAIN directories : d # parent => directories'[d] = directories[d]
      /\ DOMAIN directories'[parent] = DOMAIN directories[parent] \cup {name}
      /\ \A n \in DOMAIN directories[parent] : directories'[parent][n] = directories[parent][n]
      /\ directories'[parent][name] = e
  BY DEF Link, Put
<1>4. e.inode = next_inode /\ e.kind = attrs.kind /\ name \notin Dots
  BY NamesAreNotDots DEF Entry
<1> HIDE DEF e
<1>5. Numbered' /\ RootIsDirectory'
  BY <1>1, <1>2, <1>3 DEF Numbered, RootIsDirectory
<1>6. ASSUME NEW d \in DOMAIN directories', NEW n \in DOMAIN directories'[d]
      PROVE  \/ d = parent /\ n = name /\ directories'[d][n] = e
             \/ /\ n \in DOMAIN directories[d] /\ directories'[d][n] = directories[d][n]
                /\ directories[d][n].inode \in DOMAIN nodes
                /\ nodes[directories[d][n].inode].kind = directories[d][n].kind
  BY <1>3 DEF EntriesResolve
<1>7. EntriesResolve'
  <2>1. DOMAIN directories' = {i \in DOMAIN nodes' : nodes'[i].kind = "Directory"}
    BY <1>1, <1>3 DEF EntriesResolve
  <2>2. ASSUME NEW d \in DOMAIN directories', NEW n \in DOMAIN directories'[d]
        PROVE  /\ directories'[d][n].inode \in DOMAIN nodes'
               /\ nodes'[directories'[d][n].inode].kind = directories'[d][n].kind
    BY <1>1, <1>4, <1>6
  <2> QED BY <2>1, <2>2 DEF EntriesResolve
<1>8. UniqueLinks'
  <2>1. ASSUME NEW d1 \in DOMAIN directories', NEW d2 \in DOMAIN directories',
               NEW n1 \in DOMAIN directories'[d1] \ Dots, NEW n2 \in DOMAIN directories'[d2] \ Dots
        PROVE  /\ directories'[d1][n1].inode # Root
               /\ directories'[d1][n1].inode = directories'[d2][n2].inode => d1 = d2 /\ n1 = n2
    <3>1. CASE d1 = parent /\ n1 = name /\ d2 = parent /\ n2 = name
      BY <3>1, <1>2, <1>3, <1>4, NamesAreNotDots DEF Numbered
    <3>2. CASE d1 = parent /\ n1 = name /\ ~(d2 = parent /\ n2 = name)
      BY <3>2, <1>1, <1>2, <1>3, <1>4, <1>6, NamesAreNotDots DEF Numbered
    <3>3. CASE ~(d1 = parent /\ n1 = name) /\ d2 = parent /\ n2 = name
      <4>1. directories'[d1][n1] = directories[d1][n1] /\ n1 \in DOMAIN directories[d1] \ Dots
        BY <3>3, <1>6
      <4> QED BY <3>3, <4>1, <1>1, <1>3, <1>4, <1>6 DEF UniqueLinks
    <3>4. CASE ~(d1 = parent /\ n1 = name) /\ ~(d2 = parent /\ n2 = name)
      <4>1. /\ directories'[d1][n1] = directories[d1][n1] /\ n1 \in DOMAIN directories[d1] \ Dots
            /\ directories'[d2][n2] = directories[d2][n2] /\ n2 \in DOMAIN directories[d2] \ Dots
        BY <3>4, <1>6
      <4> QED BY <4>1, <1>3 DEF UniqueLinks
    <3> QED BY <3>1, <3>2, <3>3, <3>4
  <2> QED BY <2>1 DEF UniqueLinks
<1>9. DotDotConsistent'
  <2>1. \A d \in DOMAIN directories' :
          "." \in DOMAIN directories'[d] /\ directories'[d]["."] = Entry(d, "Directory")
    BY <1>3 DEF DotDotConsistent
  <2>2. ASSUME NEW d \in DOMAIN directories', NEW n \in DOMAIN directories'[d] \ Dots,
               directories'[d][n].kind = "Directory",
               ".." \in DOMAIN directories'[directories'[d][n].inode]
        PROVE  directories'[directories'[d][n].inode][".."] = Entry(d, "Directory")
    <3>1. n \in DOMAIN directories[d] \ Dots /\ directories'[d][n] = directories[d][n]
      BY <2>2, <1>3, <1>4
    <3>2. directories[d][n].inode \in DOMAIN directories
      BY <2>2, <3>1, <1>3 DEF EntriesResolve
    <3>3. /\ ".." \in DOMAIN directories[directories[d][n].inode]
          /\ directories'[directories[d][n].inode][".."] = directories[directories[d][n].inode][".."]
      BY <2>2, <3>1, <3>2, <1>3, <1>4 DEF Dots
    <3> QED BY <2>2, <3>1, <3>3, <1>3 DEF DotDotConsistent
  <2> QED BY <2>1, <2>2 DEF DotDotConsistent
<1>10. LinkedAreCounted'
  BY <1>1, <1>3, <1>4 DEF LinkedAreCounted, EntriesResolve
<1> QED BY <1>5, <1>7, <1>8, <1>9, <1>10

\* mkdir: a directory enters its parent under a new name, with "." and "..".
LEMMA MkdirStep ==
  ASSUME TreeInv, NEW attrs, CreateNode(attrs), attrs.kind = "Directory",
         NEW parent \in DOMAIN directories, NEW name \in Names,
         name \notin DOMAIN directories[parent],
         directories' = WithDirectory(directories, parent, name, next_inode)
  PROVE  TreeInv'
<1> USE DEF TreeInv
<1> DEFINE e == Entry(next_inode, "Directory")
           up == Entry(parent, "Directory")
<1>1. /\ DOMAIN nodes' = DOMAIN nodes \cup {next_inode}
      /\ next_inode \notin DOMAIN nodes /\ next_inode' = next_inode + 1
      /\ \A i \in DOMAIN nodes : nodes'[i] = nodes[i]
      /\ nodes'[next_inode] = attrs
  BY DEF CreateNode, Put, Numbered
<1>2. /\ next_inode > Root /\ next_inode \notin DOMAIN directories
      /\ parent \in DOMAIN nodes /\ nodes[parent].kind = "Directory"
  BY <1>1, NamesAreNotDots DEF Numbered, EntriesResolve
<1>3. /\ DOMAIN directories' = DOMAIN directories \cup {next_inode}
      /\ \A d \in DOMAIN directories : d # parent => directories'[d] = directories[d]
      /\ DOMAIN directories'[parent] = DOMAIN directories[parent] \cup {name}
      /\ \A n \in DOMAIN directories[parent] : directories'[parent][n] = directories[parent][n]
      /\ directories'[parent][name] = e
      /\ DOMAIN directories'[next_inode] = Dots
      /\ directories'[next_inode]["."] = e
      /\ directories'[next_inode][".."] = up
  <2>1. directories' = Put(Link(directories, parent, name, e), next_inode,
                           NewDirectory(next_inode, parent))
    BY DEF WithDirectory
  <2>2. directories'[next_inode] = NewDirectory(next_inode, parent)
    BY <2>1 DEF Put
  <2>3. /\ DOMAIN directories' = DOMAIN directories \cup {next_inode}
        /\ \A d \in DOMAIN directories : directories'[d] = Link(directories, parent, name, e)[d]
    BY <2>1, <1>2 DEF Put, Link
  <2>4. /\ \A d \in DOMAIN directories : d # parent => directories'[d] = directories[d]
        /\ directories'[parent] = Put(directories[parent], name, e)
    BY <2>3 DEF Link
  <2>5. /\ DOMAIN directories'[next_inode] = Dots
        /\ directories'[next_inode]["."] = e
        /\ directories'[next_inode][".."] = up
    BY <2>2 DEF NewDirectory, Dots
  <2> HIDE DEF e
  <2> QED BY <2>3, <2>4, <2>5 DEF Put
<1>4. /\ e.inode = next_inode /\ e.kind = "Directory"
      /\ up.inode = parent /\ up.kind = "Directory"
      /\ name \notin Dots
  BY NamesAreNotDots DEF Entry
<1> HIDE DEF e, up
<1>5. Numbered' /\ RootIsDirectory'
  BY <1>1, <1>2, <1>3 DEF Numbered, RootIsDirectory
<1>6. ASSUME NEW d \in DOMAIN directories, NEW n \in DOMAIN directories'[d]
      PROVE  \/ d = parent /\ n = name /\ directories'[d][n] = e
             \/ /\ n \in DOMAIN directories[d] /\ directories'[d][n] = directories[d][n]
                /\ directories[d][n].inode \in DOMAIN nodes
                /\ nodes[directories[d][n].inode].kind = directories[d][n].kind
  BY <1>3 DEF EntriesResolve
<1>7. EntriesResolve'
  <2>1. DOMAIN directories' = {i \in DOMAIN nodes' : nodes'[i].kind = "Directory"}
    BY <1>1, <1>3 DEF EntriesResolve
  <2>2. ASSUME NEW d \in DOMAIN directories, NEW n \in DOMAIN directories'[d]
        PROVE  /\ directories'[d][n].inode \in DOMAIN nodes'
               /\ nodes'[directories'[d][n].inode].kind = directories'[d][n].kind
    BY <1>1, <1>4, <1>6
  <2>3. ASSUME NEW n \in DOMAIN directories'[next_inode]
        PROVE  /\ directories'[next_inode][n].inode \in DOMAIN nodes'
               /\ nodes'[directories'[next_inode][n].inode].kind = directories'[next_inode][n].kind
    BY <1>1, <1>2, <1>3, <1>4 DEF Dots
  <2>4. ASSUME NEW d \in DOMAIN directories', NEW n \in DOMAIN directories'[d]
        PROVE  /\ directories'[d][n].inode \in DOMAIN nodes'
               /\ nodes'[directories'[d][n].inode].kind = directories'[d][n].kind
    <3>1. d \in DOMAIN directories \/ d = next_inode
      BY <1>3
    <3> QED BY <3>1, <2>2, <2>3
  <2> QED BY <2>1, <2>4 DEF EntriesResolve
<1>8. UniqueLinks'
  <2>1. ASSUME NEW d1 \in DOMAIN directories', NEW d2 \in DOMAIN directories',
               NEW n1 \in DOMAIN directories'[d1] \ Dots, NEW n2 \in DOMAIN directories'[d2] \ Dots
        PROVE  /\ directories'[d1][n1].inode # Root
               /\ directories'[d1][n1].inode = directories'[d2][n2].inode => d1 = d2 /\ n1 = n2
    <3> d1 \in DOMAIN directories /\ d2 \in DOMAIN directories
      BY <1>3
    <3>1. CASE d1 = parent /\ n1 = name /\ d2 = parent /\ n2 = name
      BY <3>1, <1>2, <1>3, <1>4, NamesAreNotDots DEF Numbered
    <3>2. CASE d1 = parent /\ n1 = name /\ ~(d2 = parent /\ n2 = name)
      BY <3>2, <1>1, <1>2, <1>3, <1>4, <1>6, NamesAreNotDots DEF Numbered
    <3>3. CASE ~(d1 = parent /\ n1 = name) /\ d2 = parent /\ n2 = name
      <4>1. directories'[d1][n1] = directories[d1][n1] /\ n1 \in DOMAIN directories[d1] \ Dots
        BY <3>3, <1>6
      <4> QED BY <3>3, <4>1, <1>1, <1>3, <1>4, <1>6 DEF UniqueLinks
    <3>4. CASE ~(d1 = parent /\ n1 = name) /\ ~(d2 = parent /\ n2 = name)
      <4>1. /\ directories'[d1][n1] = directories[d1][n1] /\ n1 \in DOMAIN directories[d1] \ Dots
            /\ directories'[d2][n2] = directories[d2][n2] /\ n2 \in DOMAIN directories[d2] \ Dots
        BY <3>4, <1>6
      <4> QED BY <4>1, <1>3 DEF UniqueLinks
    <3> QED BY <3>1, <3>2, <3>3, <3>4
  <2> QED BY <2>1 DEF UniqueLinks
<1>9. DotDotConsistent'
  <2>1. ASSUME NEW d \in DOMAIN directories'
        PROVE  "." \in DOMAIN directories'[d] /\ directories'[d]["."] = Entry(d, "Directory")
    <3>1. CASE d \in DOMAIN directories
      BY <3>1, <1>3 DEF DotDotConsistent
    <3>2. CASE d = next_inode
      BY <3>2, <1>3 DEF Dots, e
    <3> QED BY <3>1, <3>2, <1>3
  <2>2. ASSUME NEW d \in DOMAIN directories', NEW n \in DOMAIN directories'[d] \ Dots,
               directories'[d][n].kind = "Directory",
               ".." \in DOMAIN directories'[directories'[d][n].inode]
        PROVE  directories'[directories'[d][n].inode][".."] = Entry(d, "Directory")
    <3>1. d \in DOMAIN directories
      BY <1>3
    <3>2. CASE d = parent /\ n = name
      BY <3>2, <1>3, <1>4 DEF up
    <3>3. CASE ~(d = parent /\ n = name)
      <4>1. n \in DOMAIN directories[d] \ Dots /\ directories'[d][n] = directories[d][n]
        BY <3>1, <3>3, <1>6
      <4>2. directories[d][n].inode \in DOMAIN directories
        BY <2>2, <3>1, <4>1 DEF EntriesResolve
      <4>3. /\ ".." \in DOMAIN directories[directories[d][n].inode]
            /\ directories'[directories[d][n].inode][".."] = directories[directories[d][n].inode][".."]
        BY <2>2, <4>1, <4>2, <1>3, <1>4 DEF Dots
      <4> QED BY <2>2, <3>1, <4>1, <4>3 DEF DotDotConsistent
    <3> QED BY <3>2, <3>3
  <2> QED BY <2>1, <2>2 DEF DotDotConsistent
<1>10. LinkedAreCounted'
  <2>1. ASSUME NEW d \in DOMAIN directories', NEW n \in DOMAIN directories'[d] \ Dots,
               directories'[d][n].kind # "Directory"
        PROVE  nodes'[directories'[d][n].inode].hardlinks > 0
    <3>1. d \in DOMAIN directories
      BY <1>3
    <3>2. /\ n \in DOMAIN directories[d] \ Dots /\ directories'[d][n] = directories[d][n]
          /\ directories[d][n].inode \in DOMAIN nodes
      BY <2>1, <3>1, <1>4, <1>6
    <3> QED BY <2>1, <3>1, <3>2, <1>1 DEF LinkedAreCounted
  <2> QED BY <2>1 DEF LinkedAreCounted
<1> QED BY <1>5, <1>7, <1>8, <1>9, <1>10

-----------------------------------------------------------------------------
(* rename.                                                                 *)

\* rename onto an empty directory, which panics after it removed the entry.
LEMMA UnlinkStep ==
  ASSUME TreeInv, NEW parent \in DOMAIN directories, NEW name \in Names,
         directories' = Unlink(directories, parent, name), UNCHANGED <<nodes, next_inode>>
  PROVE  TreeInv'
<1> USE DEF TreeInv
<1>1. /\ DOMAIN directories' = DOMAIN directories
      /\ \A d \in DOMAIN directories : d # parent => directories'[d] = directories[d]
      /\ DOMAIN directories'[parent] = DOMAIN directories[parent] \ {name}
      /\ \A n \in DOMAIN directories'[parent] : directories'[parent][n] = directories[parent][n]
  BY DEF Unlink, Drop
<1>2. name \notin Dots
  BY NamesAreNotDots
<1>3. \A d \in DOMAIN directories : \A n \in DOMAIN directories'[d] :
        n \in DOMAIN directories[d] /\ directories'[d][n] = directories[d][n]
  BY <1>1
<1>4. Numbered' /\ RootIsDirectory'
  BY <1>1, <1>3 DEF Numbered, RootIsDirectory
<1>5. EntriesResolve'
  BY <1>1, <1>3 DEF EntriesResolve
<1>6. UniqueLinks'
  BY <1>1, <1>3 DEF UniqueLinks
<1>7. DotDotConsistent'
  <2>1. ASSUME NEW d \in DOMAIN directories', NEW n \in Dots
        PROVE  /\ n \in DOMAIN directories[d] <=> n \in DOMAIN directories'[d]
               /\ n \in DOMAIN directories[d] => directories'[d][n] = directories[d][n]
    BY <1>1, <1>2
  <2>2. "." \in Dots /\ ".." \in Dots
    BY DEF Dots
  <2>3. ASSUME NEW d \in DOMAIN directories'
        PROVE  "." \in DOMAIN directories'[d] /\ directories'[d]["."] = Entry(d, "Directory")
    BY <1>1, <2>1, <2>2 DEF DotDotConsistent
  <2>4. ASSUME NEW d \in DOMAIN directories', NEW n \in DOMAIN directories'[d] \ Dots,
               directories'[d][n].kind = "Directory",
               ".." \in DOMAIN directories'[directories'[d][n].inode]
        PROVE  directories'[directories'[d][n].inode][".."] = Entry(d, "Directory")
    <3>1. n \in DOMAIN directories[d] \ Dots /\ directories'[d][n] = directories[d][n]
      BY <1>1, <1>3
    <3>2. directories[d][n].inode \in DOMAIN directories
      BY <2>4, <3>1, <1>1 DEF EntriesResolve
    <3> QED BY <2>1, <2>2, <2>4, <3>1, <3>2, <1>1 DEF DotDotConsistent
  <2> QED BY <2>3, <2>4 DEF DotDotConsistent
<1>8. LinkedAreCounted'
  BY <1>1, <1>3 DEF LinkedAreCounted
<1> QED BY <1>4, <1>5, <1>6, <1>7, <1>8

\* What rename makes of the directories once the target is out of the way: e,
\* the entry that moves, stands at the new place and not at the old one, the
\* ".." of a moved directory follows, and every other entry is as it was.
LEMMA MovedEntries ==
  ASSUME NEW parent \in DOMAIN directories, NEW name \in DOMAIN directories[parent],
         NEW newParent \in DOMAIN directories, NEW newName, newName \notin Dots,
         NEW e, e = directories[parent][name],
         e.kind = "Directory" => e.inode \in DOMAIN directories,
         directories' = Moved(directories, parent, name, newParent, newName)
  PROVE  /\ DOMAIN directories' = DOMAIN directories
         /\ directories'[newParent][newName] = e
         /\ \A d \in DOMAIN directories :
              DOMAIN directories'[d] = ((DOMAIN directories[d] \ (IF d = parent THEN {name} ELSE {}))
                                         \cup (IF d = newParent THEN {newName} ELSE {}))
                                         \cup (IF d = e.inode /\ e.kind = "Directory" THEN {".."} ELSE {})
         /\ \A d \in DOMAIN directories : \A n \in DOMAIN directories[d] :
              ~(d = parent /\ n = name) /\ ~(d = newParent /\ n = newName)
                /\ ~(d = e.inode /\ n = ".." /\ e.kind = "Directory")
                => directories'[d][n] = directories[d][n]
         /\ e.kind = "Directory" => directories'[e.inode][".."] = Entry(newParent, "Directory")
<1> DEFINE Up(d, n) == d = e.inode /\ n = ".." /\ e.kind = "Directory"
           cut  == Unlink(directories, parent, name)
           step == Link(cut, newParent, newName, e)
<1>1. directories' = IF e.kind = "Directory"
                       THEN Link(step, e.inode, "..", Entry(newParent, "Directory")) ELSE step
  BY DEF Moved
<1>2. /\ DOMAIN cut = DOMAIN directories
      /\ \A d \in DOMAIN directories : cut[d] = IF d = parent THEN Drop(directories[d], name)
                                                              ELSE directories[d]
  BY DEF Unlink
<1>3. /\ DOMAIN step = DOMAIN directories
      /\ \A d \in DOMAIN directories : step[d] = IF d = newParent THEN Put(cut[d], newName, e)
                                                                  ELSE cut[d]
  BY <1>2 DEF Link
<1>4. /\ DOMAIN directories' = DOMAIN directories
      /\ \A d \in DOMAIN directories :
           directories'[d] = IF d = e.inode /\ e.kind = "Directory"
                               THEN Put(step[d], "..", Entry(newParent, "Directory")) ELSE step[d]
  BY <1>1, <1>3 DEF Link
<1> HIDE DEF cut, step
<1>5. \A d \in DOMAIN directories :
        /\ DOMAIN cut[d] = DOMAIN directories[d] \ (IF d = parent THEN {name} ELSE {})
        /\ \A n \in DOMAIN cut[d] : cut[d][n] = directories[d][n]
  BY <1>2 DEF Drop
<1>6. \A d \in DOMAIN directories :
        /\ DOMAIN step[d] = DOMAIN cut[d] \cup (IF d = newParent THEN {newName} ELSE {})
        /\ \A n \in DOMAIN cut[d] : ~(d = newParent /\ n = newName) => step[d][n] = cut[d][n]
        /\ d = newParent => step[d][newName] = e
  BY <1>3 DEF Put
<1>7. \A d \in DOMAIN directories :
        /\ DOMAIN directories'[d] = DOMAIN step[d]
                                    \cup (IF d = e.inode /\ e.kind = "Directory" THEN {".."} ELSE {})
        /\ \A n \in DOMAIN step[d] : ~Up(d, n) => directories'[d][n] = step[d][n]
        /\ d = e.inode /\ e.kind = "Directory"
             => directories'[d][".."] = Entry(newParent, "Directory")
  BY <1>4 DEF Put
<1>8. ~Up(newParent, newName)
  BY DEF Dots
<1>9. directories'[newParent][newName] = e
  BY <1>6, <1>7, <1>8
<1>10. \A d \in DOMAIN directories : \A n \in DOMAIN directories[d] :
         ~(d = parent /\ n = name) /\ ~(d = newParent /\ n = newName) /\ ~Up(d, n)
           => directories'[d][n] = directories[d][n]
  BY <1>5, <1>6, <1>7
<1> QED BY <1>4, <1>5, <1>6, <1>7, <1>9, <1>10

\* rename that succeeds: the entry moves from one place to the other.  What
\* was at the new place, if anything, is a file or symlink other than the one
\* that moves: it loses its only link, and its count.
LEMMA MoveStep ==
  ASSUME TreeInv, NEW parent \in DOMAIN directories, NEW name \in DOMAIN directories[parent],
         NEW newParent \in DOMAIN directories, NEW newName \in Names, name \in Names,
         VfsAllowsRename(parent, name, newParent, newName),
         newName \in DOMAIN directories[newParent] =>
           directories[newParent][newName].kind # "Directory",
         \A i \in DOMAIN nodes : nodes[i] \in NodeAttributes,
         nodes' = IF newName \in DOMAIN directories[newParent]
                    THEN [nodes EXCEPT ![directories[newParent][newName].inode] = DecHardlinks(@)]
                    ELSE nodes,
         directories' = Moved(directories, parent, name, newParent, newName),
         UNCHANGED next_inode
  PROVE  TreeInv' /\ \A i \in DOMAIN nodes : nodes[i].hardlinks >= 0 => nodes'[i].hardlinks >= 0
<1> USE DEF TreeInv
<1> DEFINE e       == directories[parent][name]
           target  == directories[newParent][newName]
           present == newName \in DOMAIN directories[newParent]
           Up(d, n) == d = e.inode /\ n = ".." /\ e.kind = "Directory"
<1>1. name \notin Dots /\ newName \notin Dots
  BY NamesAreNotDots
<1>2. /\ e.inode \in DOMAIN nodes /\ nodes[e.inode].kind = e.kind
      /\ e.kind = "Directory" => e.inode \in DOMAIN directories
  BY DEF EntriesResolve
<1>3. /\ DOMAIN directories' = DOMAIN directories
      /\ directories'[newParent][newName] = e
      /\ \A d \in DOMAIN directories :
           DOMAIN directories'[d] = ((DOMAIN directories[d] \ (IF d = parent THEN {name} ELSE {}))
                                      \cup (IF d = newParent THEN {newName} ELSE {}))
                                      \cup (IF d = e.inode /\ e.kind = "Directory" THEN {".."} ELSE {})
      /\ \A d \in DOMAIN directories : \A n \in DOMAIN directories[d] :
           ~(d = parent /\ n = name) /\ ~(d = newParent /\ n = newName) /\ ~Up(d, n)
             => directories'[d][n] = directories[d][n]
      /\ e.kind = "Directory" => directories'[e.inode][".."] = Entry(newParent, "Directory")
  BY <1>1, <1>2, MovedEntries
<1> HIDE DEF e, target, present
<1>4. /\ DOMAIN nodes' = DOMAIN nodes
      /\ \A i \in DOMAIN nodes : /\ nodes'[i].kind = nodes[i].kind
                                 /\ ~(present /\ i = target.inode) => nodes'[i] = nodes[i]
                                 /\ nodes'[i].hardlinks >= nodes[i].hardlinks - 1
                                 /\ nodes[i].hardlinks \in Int /\ nodes'[i].hardlinks \in Int
  BY DEF present, target, DecHardlinks, NodeAttributes
<1>5. present => /\ target.inode \in DOMAIN nodes /\ target.inode # e.inode
                 /\ target.kind # "Directory"
                 /\ nodes[target.inode].kind = target.kind
                 /\ nodes[target.inode].hardlinks > 0
  BY <1>1 DEF present, target, e, VfsAllowsRename, EntriesResolve, LinkedAreCounted
<1>6. ASSUME NEW d \in DOMAIN directories, NEW n \in DOMAIN directories'[d] \ Dots
      PROVE  \/ d = newParent /\ n = newName /\ directories'[d][n] = e
             \/ /\ ~(d = newParent /\ n = newName)
                /\ n \in DOMAIN directories[d] \ Dots /\ ~(d = parent /\ n = name)
                /\ directories'[d][n] = directories[d][n]
  BY <1>3 DEF Dots
<1>7. Numbered'
  BY <1>1, <1>3, <1>4 DEF Numbered, Dots
<1>8. RootIsDirectory'
  BY <1>4 DEF RootIsDirectory
<1>9. EntriesResolve'
  <2>1. DOMAIN directories' = {i \in DOMAIN nodes' : nodes'[i].kind = "Directory"}
    BY <1>3, <1>4 DEF EntriesResolve
  <2>2. ASSUME NEW d \in DOMAIN directories', NEW n \in DOMAIN directories'[d]
        PROVE  /\ directories'[d][n].inode \in DOMAIN nodes'
               /\ nodes'[directories'[d][n].inode].kind = directories'[d][n].kind
    <3>1. CASE d = newParent /\ n = newName
      BY <3>1, <1>2, <1>3, <1>4
    <3>2. CASE Up(d, n)
      <4>1. /\ directories'[d][n].inode = newParent /\ directories'[d][n].kind = "Directory"
        BY <3>2, <1>3 DEF Entry
      <4> QED BY <4>1, <1>4 DEF EntriesResolve
    <3>3. CASE ~(d = newParent /\ n = newName) /\ ~Up(d, n)
      <4>1. d \in DOMAIN directories /\ n \in DOMAIN directories[d]
            /\ directories'[d][n] = directories[d][n]
        BY <3>3, <1>3
      <4> QED BY <4>1, <1>4 DEF EntriesResolve
    <3> QED BY <3>1, <3>2, <3>3
  <2> QED BY <2>1, <2>2 DEF EntriesResolve
<1>10. UniqueLinks'
  <2>1. ASSUME NEW d1 \in DOMAIN directories', NEW d2 \in DOMAIN directories',
               NEW n1 \in DOMAIN directories'[d1] \ Dots, NEW n2 \in DOMAIN directories'[d2] \ Dots
        PROVE  /\ directories'[d1][n1].inode # Root
               /\ directories'[d1][n1].inode = directories'[d2][n2].inode => d1 = d2 /\ n1 = n2
    <3> DEFINE Old(d, n) == /\ d \in DOMAIN directories /\ n \in DOMAIN directories[d] \ Dots
                            /\ ~(d = parent /\ n = name)
                            /\ directories'[d][n] = directories[d][n]
               New(d, n) == d = newParent /\ n = newName /\ directories'[d][n] = e
    <3>1. (New(d1, n1) \/ Old(d1, n1)) /\ (New(d2, n2) \/ Old(d2, n2))
      BY <1>3, <1>6
    <3>2. \A d, n : Old(d, n) => directories[d][n].inode # Root /\ directories[d][n].inode # e.inode
      BY <1>1 DEF UniqueLinks, e
    <3>3. e.inode # Root
      BY <1>1 DEF UniqueLinks, e
    <3>4. Old(d1, n1) /\ Old(d2, n2) /\ directories'[d1][n1].inode = directories'[d2][n2].inode
            => d1 = d2 /\ n1 = n2
      BY DEF UniqueLinks
    <3> QED BY <3>1, <3>2, <3>3, <3>4
  <2> QED BY <2>1 DEF UniqueLinks
<1>11. DotDotConsistent'
  <2>1. ASSUME NEW d \in DOMAIN directories'
        PROVE  "." \in DOMAIN directories'[d] /\ directories'[d]["."] = Entry(d, "Directory")
    <3>1. d \in DOMAIN directories /\ "." \in DOMAIN directories[d]
          /\ directories[d]["."] = Entry(d, "Directory")
      BY <1>3 DEF DotDotConsistent
    <3>2. ~(d = parent /\ "." = name) /\ ~(d = newParent /\ "." = newName) /\ ~Up(d, ".")
      BY <1>1 DEF Dots
    <3> QED BY <3>1, <3>2, <1>3
  <2>2. ASSUME NEW d \in DOMAIN directories', NEW n \in DOMAIN directories'[d] \ Dots,
               directories'[d][n].kind = "Directory",
               ".." \in DOMAIN directories'[directories'[d][n].inode]
        PROVE  directories'[directories'[d][n].inode][".."] = Entry(d, "Directory")
    <3>1. CASE d = newParent /\ n = newName
      BY <2>2, <3>1, <1>3
    <3>2. CASE ~(d = newParent /\ n = newName)
      <4>1. /\ d \in DOMAIN directories
            /\ n \in DOMAIN directories[d] \ Dots /\ ~(d = parent /\ n = name)
            /\ directories'[d][n] = directories[d][n]
        BY <3>2, <1>3, <1>6
      <4> DEFINE i == directories[d][n].inode
      <4>2. i \in DOMAIN directories
        BY <2>2, <4>1 DEF EntriesResolve
      <4>3. i # e.inode
        BY <4>1, <1>1 DEF UniqueLinks, e
      <4>4. ~(i = parent /\ ".." = name) /\ ~(i = newParent /\ ".." = newName) /\ ~Up(i, "..")
        BY <4>3, <1>1 DEF Dots
      <4>5. ".." \in DOMAIN directories[i] /\ directories'[i][".."] = directories[i][".."]
        BY <2>2, <4>1, <4>2, <4>3, <4>4, <1>1, <1>3 DEF Dots
      <4> QED BY <2>2, <4>1, <4>5 DEF DotDotConsistent
    <3> QED BY <3>1, <3>2
  <2> QED BY <2>1, <2>2 DEF DotDotConsistent
<1>12. LinkedAreCounted'
  <2>1. ASSUME NEW d \in DOMAIN directories', NEW n \in DOMAIN directories'[d] \ Dots,
               directories'[d][n].kind # "Directory"
        PROVE  nodes'[directories'[d][n].inode].hardlinks > 0
    <3>1. CASE d = newParent /\ n = newName
      <4>1. directories'[d][n] = e /\ nodes'[e.inode] = nodes[e.inode]
        BY <3>1, <1>2, <1>3, <1>4, <1>5
      <4> QED BY <2>1, <4>1, <1>1 DEF LinkedAreCounted, e
    <3>2. CASE ~(d = newParent /\ n = newName)
      <4>1. /\ d \in DOMAIN directories /\ n \in DOMAIN directories[d] \ Dots
            /\ directories'[d][n] = directories[d][n]
            /\ directories[d][n].inode \in DOMAIN nodes
        BY <3>2, <1>3, <1>6 DEF EntriesResolve
      <4>2. ~(present /\ directories[d][n].inode = target.inode)
        BY <3>2, <4>1, <1>1 DEF UniqueLinks, present, target
      <4> QED BY <2>1, <4>1, <4>2, <1>4 DEF LinkedAreCounted
    <3> QED BY <3>1, <3>2
  <2> QED BY <2>1 DEF LinkedAreCounted
<1>13. \A i \in DOMAIN nodes : nodes[i].hardlinks >= 0 => nodes'[i].hardlinks >= 0
  <2>1. ASSUME NEW i \in DOMAIN nodes, nodes[i].hardlinks >= 0
        PROVE  nodes'[i].hardlinks >= 0
    <3>1. CASE present /\ i = target.inode
      BY <3>1, <1>4, <1>5
    <3>2. CASE ~(present /\ i = target.inode)
      BY <2>1, <3>2, <1>4
    <3> QED BY <3>1, <3>2
  <2> QED BY <2>1
<1> QED BY <1>7, <1>8, <1>9, <1>10, <1>11, <1>12, <1>13

-----------------------------------------------------------------------------
(* set_root_tree, and init with the empty tree.                            *)

\* set_root_tree and init: the nodes and directories of a tree, written over
\* those that were there.
LEMMA TreeStep ==
  ASSUME TreeInv, NEW t \in Seq([parent : Nat, name : Names, kind : Kinds,
                                hash : Seq(Byte) \cup {NoHash}]),
         IsTree(t), InsertRoot(t)
  PROVE  TreeInv'
<1> USE DEF TreeInv
<1> DEFINE base == next_inode
           newNodes == TreeNodes(t, base)
           newDirs  == TreeDirectories(t, base)
           Dirs == {0} \cup {k \in DOMAIN t : t[k].kind = "Directory"}
<1>1. /\ base \in Nat /\ base > 0 /\ Root = 1 /\ Len(t) \in Nat /\ DOMAIN t = 1..Len(t)
      /\ \A k \in DOMAIN t : /\ t[k].name \in Names /\ t[k].name \notin Dots
                             /\ t[k].kind \in Kinds /\ t[k].parent \in Dirs
                             /\ base + k > base /\ base + k # Root
  BY NamesAreNotDots DEF Numbered, IsTree
<1>2. \A k \in 0..Len(t) : TreeInode(base, k) = IF k = 0 THEN Root ELSE base + k
  BY DEF TreeInode
<1>0. /\ 0 \in Dirs
      /\ \A k \in Dirs : k = 0 \/ (k \in DOMAIN t /\ t[k].kind = "Directory")
      /\ \A k \in DOMAIN t : k \in Dirs <=> t[k].kind = "Directory"
  BY <1>1
<1>3. /\ DOMAIN newNodes = {Root} \cup {base + k : k \in 1..Len(t)}
      /\ newNodes[Root].kind = "Directory"
      /\ \A k \in DOMAIN t : /\ newNodes[base + k].kind = t[k].kind
                             /\ t[k].kind # "Directory" => newNodes[base + k].hardlinks = 1
  <2>1. DOMAIN newNodes = {Root} \cup {base + k : k \in 1..Len(t)}
    <3>1. DOMAIN newNodes = {TreeInode(base, k) : k \in 0..Len(t)}
      BY DEF TreeNodes
    <3>2. ASSUME NEW i \in {TreeInode(base, k) : k \in 0..Len(t)}
          PROVE  i \in {Root} \cup {base + k : k \in 1..Len(t)}
      <4>1. PICK k \in 0..Len(t) : i = TreeInode(base, k)
        OBVIOUS
      <4> QED BY <4>1, <1>1 DEF TreeInode
    <3>3. ASSUME NEW i \in {Root} \cup {base + k : k \in 1..Len(t)}
          PROVE  i \in {TreeInode(base, k) : k \in 0..Len(t)}
      <4>1. CASE i = Root
        <5>1. 0 \in 0..Len(t) /\ i = TreeInode(base, 0)
          BY <4>1, <1>1 DEF TreeInode
        <5> QED BY <5>1
      <4>2. CASE i # Root
        <5>1. PICK k \in 1..Len(t) : i = base + k
          BY <4>2
        <5>2. k \in 0..Len(t) /\ i = TreeInode(base, k)
          BY <5>1, <1>1 DEF TreeInode
        <5> QED BY <5>2
      <4> QED BY <4>1, <4>2
    <3> QED BY <3>1, <3>2, <3>3
  <2>2. \A i \in DOMAIN newNodes :
          newNodes[i] = IF i = Root \/ t[i - base].kind = "Directory"
                          THEN NewAttrs("Directory", NoHash, 0)
                          ELSE NewAttrs(t[i - base].kind, t[i - base].hash, TreeSize(t[i - base].hash))
    BY DEF TreeNodes
  <2> HIDE DEF newNodes
  <2>3. newNodes[Root].kind = "Directory"
    <3>1. Root \in DOMAIN newNodes
      BY <2>1
    <3>2. newNodes[Root] = NewAttrs("Directory", NoHash, 0)
      BY <2>2, <3>1
    <3> QED BY <3>2 DEF NewAttrs
  <2>4. ASSUME NEW k \in DOMAIN t
        PROVE  /\ newNodes[base + k].kind = t[k].kind
               /\ t[k].kind # "Directory" => newNodes[base + k].hardlinks = 1
    <3>1. base + k \in DOMAIN newNodes /\ base + k # Root /\ (base + k) - base = k
      BY <1>1, <2>1
    <3> QED BY <2>2, <3>1 DEF NewAttrs
  <2> QED BY <2>1, <2>3, <2>4
<1>4. /\ DOMAIN newDirs = {Root} \cup {base + k : k \in Dirs \ {0}}
      /\ newDirs[Root] = TreeContent(t, base, 0)
      /\ \A d \in DOMAIN newDirs :
           \E k \in Dirs : d = TreeInode(base, k) /\ newDirs[d] = TreeContent(t, base, k)
  <2>1. DOMAIN newDirs = {Root} \cup {base + k : k \in Dirs \ {0}}
    BY <1>1 DEF TreeDirectories, TreeInode
  <2>2. \A i \in DOMAIN newDirs :
          newDirs[i] = TreeContent(t, base, IF i = Root THEN 0 ELSE i - base)
    BY DEF TreeDirectories
  <2> HIDE DEF newDirs
  <2>3. ASSUME NEW k \in Dirs \ {0} PROVE newDirs[base + k] = TreeContent(t, base, k)
    <3>1. base + k \in DOMAIN newDirs /\ base + k # Root /\ (base + k) - base = k
      BY <1>1, <2>1
    <3> QED BY <2>2, <3>1
  <2>4. newDirs[Root] = TreeContent(t, base, 0) /\ Root = TreeInode(base, 0)
    BY <2>1, <2>2 DEF TreeInode
  <2>5. \A k \in Dirs \ {0} : base + k = TreeInode(base, k)
    BY DEF TreeInode
  <2> QED BY <2>1, <2>3, <2>4, <2>5, <1>0
<1>5. ASSUME NEW k \in Dirs
      PROVE  /\ "." \in DOMAIN TreeContent(t, base, k)
             /\ TreeContent(t, base, k)["."] = Entry(TreeInode(base, k), "Directory")
             /\ \A n \in DOMAIN TreeContent(t, base, k) \ {"."} :
                  \E c \in DOMAIN t : /\ t[c].parent = k /\ t[c].name = n
                                      /\ TreeContent(t, base, k)[n] = Entry(base + c, t[c].kind)
  <2>1. ASSUME NEW n \in DOMAIN TreeContent(t, base, k) \ {"."}
        PROVE  \E c \in DOMAIN t : /\ t[c].parent = k /\ t[c].name = n
                                   /\ TreeContent(t, base, k)[n] = Entry(base + c, t[c].kind)
    <3>1. n # "." /\ TreeContent(t, base, k)[n] = TreeEntry(t, base, k, n)
      BY DEF TreeContent
    <3>2. \E c \in DOMAIN t : t[c].parent = k /\ t[c].name = n
      BY <3>1 DEF TreeContent
    <3> QED BY <3>1, <3>2 DEF TreeEntry
  <2> QED BY <2>1 DEF TreeContent, TreeDot
<1> HIDE DEF newNodes, newDirs, Dirs
<1>6. /\ next_inode' = base + Len(t) + 1
      /\ DOMAIN nodes' = DOMAIN newNodes \cup DOMAIN nodes
      /\ \A i \in DOMAIN newNodes : nodes'[i] = newNodes[i]
      /\ \A i \in DOMAIN nodes \ {Root} : nodes'[i] = nodes[i] /\ i \notin DOMAIN newNodes
      /\ DOMAIN directories' = DOMAIN newDirs \cup DOMAIN directories
      /\ \A d \in DOMAIN newDirs : directories'[d] = newDirs[d]
      /\ \A d \in DOMAIN directories \ {Root} :
           directories'[d] = directories[d] /\ d \notin DOMAIN newDirs
  <2>1. \A i \in DOMAIN nodes : i < base
    BY DEF Numbered
  <2>2. \A i \in DOMAIN nodes \ {Root} : i \notin DOMAIN newNodes
    BY <2>1, <1>1, <1>3 DEF Numbered
  <2>3. \A d \in DOMAIN directories \ {Root} : d \notin DOMAIN newDirs
    BY <2>1, <1>1, <1>4, <1>0 DEF Numbered, EntriesResolve
  <2> QED BY <2>2, <2>3 DEF InsertRoot, Overlay, AfterTree, newNodes, newDirs
<1>7. Numbered' /\ RootIsDirectory'
  <2>1. \A i \in DOMAIN nodes' : i \in 1..(next_inode' - 1)
    BY <1>1, <1>3, <1>6 DEF Numbered
  <2>2. ASSUME NEW d \in DOMAIN directories' PROVE DOMAIN directories'[d] \subseteq Names \cup Dots
    <3>1. CASE d \in DOMAIN newDirs
      <4>1. PICK k \in Dirs : directories'[d] = TreeContent(t, base, k)
        BY <3>1, <1>4, <1>6
      <4>2. \A n \in DOMAIN TreeContent(t, base, k) : n = "." \/ \E c \in DOMAIN t : n = t[c].name
        BY <1>5
      <4> QED BY <4>1, <4>2, <1>1 DEF Dots
    <3>2. CASE d \notin DOMAIN newDirs
      BY <3>2, <1>4, <1>6 DEF Numbered
    <3> QED BY <3>1, <3>2
  <2>3. nodes'[Root].kind = "Directory"
    BY <1>3, <1>6
  <2> QED BY <2>1, <2>2, <2>3, <1>1, <1>6 DEF Numbered, RootIsDirectory
\* What an entry is after the step: "." or a child in a directory of the tree,
\* or what it was before.
<1>8. ASSUME NEW d \in DOMAIN directories', NEW n \in DOMAIN directories'[d]
      PROVE  \/ /\ d \in DOMAIN newDirs /\ n = "."
                /\ directories'[d][n] = Entry(d, "Directory")
             \/ /\ d \in DOMAIN newDirs /\ n \notin Dots
                /\ \E c \in DOMAIN t : /\ t[c].name = n
                                       /\ d = TreeInode(base, t[c].parent)
                                       /\ directories'[d][n] = Entry(base + c, t[c].kind)
             \/ /\ d \in DOMAIN directories \ {Root} /\ n \in DOMAIN directories[d]
                /\ directories'[d] = directories[d]
  <2>1. CASE d \in DOMAIN newDirs
    <3>1. PICK k \in Dirs : d = TreeInode(base, k) /\ directories'[d] = TreeContent(t, base, k)
      BY <2>1, <1>4, <1>6
    <3>2. CASE n = "."
      BY <2>1, <3>1, <3>2, <1>5
    <3>3. CASE n # "."
      <4>1. PICK c \in DOMAIN t : /\ t[c].parent = k /\ t[c].name = n
                                  /\ TreeContent(t, base, k)[n] = Entry(base + c, t[c].kind)
        <5>1. n \in DOMAIN TreeContent(t, base, k) \ {"."}
          BY <3>1, <3>3
        <5> QED BY <5>1, <1>5
      <4>2. directories'[d][n] = Entry(base + c, t[c].kind) /\ n \notin Dots
        BY <3>1, <4>1, <1>1
      <4> QED BY <2>1, <3>1, <4>1, <4>2
    <3> QED BY <3>2, <3>3
  <2>2. CASE d \notin DOMAIN newDirs
    BY <2>2, <1>4, <1>6
  <2> QED BY <2>1, <2>2
<1>9. EntriesResolve'
  <2>1. DOMAIN directories' = {i \in DOMAIN nodes' : nodes'[i].kind = "Directory"}
    <3>1. \A i \in DOMAIN newNodes : i \in DOMAIN newDirs <=> newNodes[i].kind = "Directory"
      <4>1. ASSUME NEW k \in DOMAIN t
            PROVE  base + k \in DOMAIN newDirs <=> newNodes[base + k].kind = "Directory"
        <5>1. base + k \in DOMAIN newDirs <=> k \in Dirs
          <6>1. ASSUME NEW j \in Dirs, base + j = base + k PROVE j = k
            BY <6>1, <1>1, <1>0
          <6> QED BY <6>1, <1>1, <1>4, <1>0
        <5> QED BY <5>1, <1>3, <1>0
      <4> QED BY <4>1, <1>1, <1>3, <1>4
    <3>2. DOMAIN newDirs \subseteq DOMAIN newNodes
      BY <1>1, <1>3, <1>4, <1>0
    <3>3. ASSUME NEW i \in DOMAIN nodes'
          PROVE  i \in DOMAIN directories' <=> nodes'[i].kind = "Directory"
      <4>1. CASE i \in DOMAIN newNodes
        <5>1. i \in DOMAIN directories => i = Root
          BY <4>1, <1>6 DEF EntriesResolve
        <5>2. i \in DOMAIN directories' <=> i \in DOMAIN newDirs
          BY <5>1, <1>4, <1>6
        <5>3. nodes'[i] = newNodes[i]
          BY <4>1, <1>6
        <5> QED BY <3>1, <4>1, <5>2, <5>3
      <4>2. CASE i \notin DOMAIN newNodes
        BY <3>2, <4>2, <1>3, <1>6 DEF EntriesResolve
      <4> QED BY <4>1, <4>2
    <3>4. DOMAIN directories' \subseteq DOMAIN nodes'
      BY <3>2, <1>6 DEF EntriesResolve
    <3> QED BY <3>3, <3>4
  <2>2. ASSUME NEW d \in DOMAIN directories', NEW n \in DOMAIN directories'[d]
        PROVE  /\ directories'[d][n].inode \in DOMAIN nodes'
               /\ nodes'[directories'[d][n].inode].kind = directories'[d][n].kind
    <3>1. CASE directories'[d][n] = Entry(d, "Directory")
      <4>1. directories'[d][n].inode = d /\ directories'[d][n].kind = "Directory"
        BY <3>1 DEF Entry
      <4> QED BY <4>1, <2>1
    <3>2. CASE \E c \in DOMAIN t : directories'[d][n] = Entry(base + c, t[c].kind)
      <4>1. PICK c \in DOMAIN t : directories'[d][n] = Entry(base + c, t[c].kind)
        BY <3>2
      <4>2. base + c \in DOMAIN newNodes /\ newNodes[base + c].kind = t[c].kind
        BY <1>1, <1>3
      <4>3. directories'[d][n].inode = base + c /\ directories'[d][n].kind = t[c].kind
        BY <4>1 DEF Entry
      <4> QED BY <4>2, <4>3, <1>6
    <3>3. CASE /\ d \in DOMAIN directories \ {Root} /\ n \in DOMAIN directories[d]
               /\ directories'[d] = directories[d]
      <4>1. /\ directories[d][n].inode \in DOMAIN nodes
            /\ nodes[directories[d][n].inode].kind = directories[d][n].kind
        BY <3>3 DEF EntriesResolve
      <4>2. CASE directories[d][n].inode = Root
        BY <3>3, <4>1, <4>2, <1>3, <1>6 DEF RootIsDirectory
      <4>3. CASE directories[d][n].inode # Root
        BY <3>3, <4>1, <4>3, <1>6
      <4> QED BY <4>2, <4>3
    <3> QED BY <3>1, <3>2, <3>3, <1>8
  <2> QED BY <2>1, <2>2 DEF EntriesResolve
\* The entries that are not dots: children of the tree, or old ones.
<1> DEFINE Child(d, n, c) == /\ t[c].name = n /\ d = TreeInode(base, t[c].parent)
                             /\ directories'[d][n] = Entry(base + c, t[c].kind)
           Kept(d, n) == /\ d \in DOMAIN directories \ {Root} /\ n \in DOMAIN directories[d] \ Dots
                         /\ directories'[d] = directories[d]
<1>10. ASSUME NEW d \in DOMAIN directories', NEW n \in DOMAIN directories'[d] \ Dots
       PROVE  Kept(d, n) \/ \E c \in DOMAIN t : Child(d, n, c)
  BY <1>8 DEF Dots
<1>11. \A d, n : Kept(d, n) => /\ directories'[d][n].inode # Root
                               /\ directories'[d][n].inode < base
  BY DEF UniqueLinks, EntriesResolve, Numbered
<1>12. \A d, n : \A c \in DOMAIN t : Child(d, n, c) => directories'[d][n].inode = base + c
  BY DEF Entry
<1> HIDE DEF Child, Kept
<1>13. UniqueLinks'
  <2>1. ASSUME NEW d1 \in DOMAIN directories', NEW d2 \in DOMAIN directories',
               NEW n1 \in DOMAIN directories'[d1] \ Dots, NEW n2 \in DOMAIN directories'[d2] \ Dots
        PROVE  /\ directories'[d1][n1].inode # Root
               /\ directories'[d1][n1].inode = directories'[d2][n2].inode => d1 = d2 /\ n1 = n2
    <3>1. directories'[d1][n1].inode # Root
      <4>1. CASE Kept(d1, n1)
        BY <4>1, <1>11
      <4>2. ASSUME NEW c \in DOMAIN t, Child(d1, n1, c)
            PROVE  directories'[d1][n1].inode # Root
        BY <4>2, <1>1, <1>12
      <4> QED BY <4>1, <4>2, <1>10
    <3>2. CASE Kept(d1, n1) /\ Kept(d2, n2)
      BY <3>1, <3>2 DEF Kept, UniqueLinks
    <3>3. CASE Kept(d1, n1) /\ \E c \in DOMAIN t : Child(d2, n2, c)
      BY <3>1, <3>3, <1>1, <1>11, <1>12
    <3>4. CASE Kept(d2, n2) /\ \E c \in DOMAIN t : Child(d1, n1, c)
      BY <3>1, <3>4, <1>1, <1>11, <1>12
    <3>5. ASSUME NEW c1 \in DOMAIN t, NEW c2 \in DOMAIN t, Child(d1, n1, c1), Child(d2, n2, c2),
                 directories'[d1][n1].inode = directories'[d2][n2].inode
          PROVE  d1 = d2 /\ n1 = n2
      <4>1. base + c1 = base + c2
        BY <3>5, <1>12
      <4>2. c1 = c2
        BY <4>1, <1>1
      <4> QED BY <3>5, <4>2 DEF Child
    <3> QED BY <3>1, <3>2, <3>3, <3>4, <3>5, <1>10
  <2> QED BY <2>1 DEF UniqueLinks
<1>14. DotDotConsistent'
  <2>1. ASSUME NEW d \in DOMAIN directories'
        PROVE  "." \in DOMAIN directories'[d] /\ directories'[d]["."] = Entry(d, "Directory")
    <3>1. CASE d \in DOMAIN newDirs
      <4>1. PICK k \in Dirs : d = TreeInode(base, k) /\ directories'[d] = TreeContent(t, base, k)
        BY <3>1, <1>4, <1>6
      <4> QED BY <4>1, <1>5
    <3>2. CASE d \notin DOMAIN newDirs
      BY <3>2, <1>4, <1>6 DEF DotDotConsistent
    <3> QED BY <3>1, <3>2
  <2>2. ASSUME NEW d \in DOMAIN directories', NEW n \in DOMAIN directories'[d] \ Dots,
               directories'[d][n].kind = "Directory",
               ".." \in DOMAIN directories'[directories'[d][n].inode]
        PROVE  directories'[directories'[d][n].inode][".."] = Entry(d, "Directory")
    <3> DEFINE i == directories'[d][n].inode
    <3>1. i \in DOMAIN directories'
      BY <2>2, <1>9 DEF EntriesResolve
    <3>2. i \in DOMAIN directories \ {Root} /\ directories'[i] = directories[i]
      BY <2>2, <3>1, <1>8 DEF Dots
    <3>3. i < base
      BY <3>2 DEF EntriesResolve, Numbered
    <3>4. Kept(d, n)
      <4>1. ASSUME NEW c \in DOMAIN t, Child(d, n, c) PROVE FALSE
        <5>1. i = base + c /\ base + c > base
          BY <4>1, <1>1, <1>12
        <5>2. i \in Nat
          BY <5>1, <1>1
        <5> QED BY <5>1, <5>2, <3>3, <1>1
      <4> QED BY <4>1, <1>10
    <3> QED BY <2>2, <3>2, <3>4 DEF Kept, DotDotConsistent
  <2> QED BY <2>1, <2>2 DEF DotDotConsistent
<1>15. LinkedAreCounted'
  <2>1. ASSUME NEW d \in DOMAIN directories', NEW n \in DOMAIN directories'[d] \ Dots,
               directories'[d][n].kind # "Directory"
        PROVE  nodes'[directories'[d][n].inode].hardlinks > 0
    <3>1. CASE Kept(d, n)
      <4>1. directories'[d][n] = directories[d][n] /\ directories[d][n].inode \in DOMAIN nodes \ {Root}
        BY <3>1 DEF Kept, UniqueLinks, EntriesResolve
      <4> QED BY <2>1, <3>1, <4>1, <1>6 DEF Kept, LinkedAreCounted
    <3>2. ASSUME NEW c \in DOMAIN t, Child(d, n, c) PROVE nodes'[directories'[d][n].inode].hardlinks > 0
      <4>1. /\ directories'[d][n].inode = base + c /\ t[c].kind # "Directory"
            /\ base + c \in DOMAIN newNodes
        BY <2>1, <3>2, <1>1, <1>3 DEF Child, Entry
      <4> QED BY <4>1, <1>3, <1>6
    <3> QED BY <3>1, <3>2, <1>10
  <2> QED BY <2>1 DEF LinkedAreCounted
<1> QED BY <1>7, <1>9, <1>13, <1>14, <1>15

-----------------------------------------------------------------------------
(* Every step of the mount keeps the tree.                                 *)

\* Every step of the mount keeps the tree a tree.
LEMMA TreeInvStep ==
  ASSUME TreeInv, HandlesResolve, [Next]_vars
  PROVE  TreeInv'
<1> USE DEF HandlesResolve
<1>0. ASSUME UNCHANGED inodes PROVE TreeInv'
  BY <1>0, AttributesStep DEF inodes
<1>1. CASE UNCHANGED vars
  BY <1>0, <1>1 DEF vars
<1>2. CASE InitSession
  <2>1. << >> \in Seq([parent : Nat, name : Names, kind : Kinds,
                      hash : Seq(Byte) \cup {NoHash}]) /\ IsTree(<< >>)
    BY DEF IsTree
  <2> QED BY <1>0, <1>2, <2>1, TreeStep, BurnStep DEF InitSession, BurnsInode
<1>3. ASSUME NEW parent \in DOMAIN directories, NEW name \in Names, Mkdir(parent, name)
      PROVE  TreeInv'
  <2>1. CASE Fail("EEXIST")
    BY <1>0, <2>1 DEF Fail
  <2>2. CASE /\ name \notin DOMAIN directories[parent]
             /\ CreateNode(NewAttrs("Directory", NoHash, 0))
             /\ directories' = WithDirectory(directories, parent, name, next_inode)
    <3>1. NewAttrs("Directory", NoHash, 0).kind = "Directory"
      BY DEF NewAttrs
    <3> QED BY <2>2, <3>1, MkdirStep
  <2> QED BY <1>3, <2>1, <2>2 DEF Mkdir
<1>4. ASSUME NEW parent \in DOMAIN directories, NEW name \in Names, NEW fileType,
             Mknod(parent, name, fileType)
      PROVE  TreeInv'
  <2>1. ASSUME NEW res, Fail(res) PROVE TreeInv'
    BY <1>0, <2>1 DEF Fail
  <2>2. CASE /\ name \notin DOMAIN directories[parent]
             /\ CreateNode(NewAttrs("File", NoHash, 0))
             /\ directories' = Link(directories, parent, name, Entry(next_inode, "File"))
    <3>1. NewAttrs("File", NoHash, 0).kind = "File" /\ NewAttrs("File", NoHash, 0).hardlinks > 0
      BY DEF NewAttrs
    <3> QED BY <2>2, <3>1, LinkStep
  <2> QED BY <1>4, <2>1, <2>2 DEF Mknod
<1>5. ASSUME NEW parent \in DOMAIN directories, NEW name \in Names, NEW target \in Targets,
             Symlink(parent, name, target)
      PROVE  TreeInv'
  <2>1. PICK attrs \in {NewAttrs("Symlink", NoHash, 0), NewAttrs("Symlink", target, Len(target))} :
          CreateNode(attrs)
    BY <1>5 DEF Symlink
  <2>2. attrs.kind = "Symlink" /\ attrs.hardlinks > 0
    BY DEF NewAttrs
  <2>3. CASE name \in DOMAIN directories[parent]
    BY <1>5, <2>1, <2>2, <2>3, UnlinkedStep DEF Symlink, InsertLink
  <2>4. CASE name \notin DOMAIN directories[parent]
    <3>1. directories' = Link(directories, parent, name, Entry(next_inode, "Symlink"))
      BY <1>5, <2>4 DEF Symlink, InsertLink
    <3> QED BY <2>1, <2>2, <2>4, <3>1, LinkStep
  <2> QED BY <2>3, <2>4
<1>6. ASSUME NEW parent \in DOMAIN directories, NEW name \in Names,
             NEW newParent \in DOMAIN directories, NEW newName \in Names,
             NEW exchange \in BOOLEAN, Rename(parent, name, newParent, newName, exchange)
      PROVE  TreeInv'
  <2>1. CASE UNCHANGED inodes
    BY <1>0, <2>1
  <2>2. CASE /\ directories' = Unlink(directories, newParent, newName)
             /\ UNCHANGED <<nodes, next_inode>>
    BY <2>2, UnlinkStep
  <2>3. CASE /\ name \in DOMAIN directories[parent]
             /\ VfsAllowsRename(parent, name, newParent, newName)
             /\ newName \in DOMAIN directories[newParent] =>
                  directories[newParent][newName].kind # "Directory"
             /\ nodes' = IF newName \in DOMAIN directories[newParent]
                           THEN [nodes EXCEPT ![directories[newParent][newName].inode] = DecHardlinks(@)]
                           ELSE nodes
             /\ directories' = Moved(directories, parent, name, newParent, newName)
             /\ UNCHANGED next_inode
    BY <2>3, MoveStep
  <2> QED BY <1>6, <2>1, <2>2, <2>3 DEF Rename, Fail, inodes
<1>7. CASE Unimplemented
  BY <1>0, <1>7 DEF Unimplemented
<1>8. ASSUME NEW i \in DOMAIN directories \cup NonDirectories("File"), NEW mode, Open(i, mode)
      PROVE  TreeInv'
  <2>1. ASSUME NEW res, Fail(res) PROVE TreeInv'
    BY <1>0, <2>1 DEF Fail
  <2>2. CASE nodes' = [nodes EXCEPT ![i] = IncHandle(@)] /\ UNCHANGED <<directories, next_inode>>
    BY <2>2, AttributesStep DEF IncHandle, NodeAttributes
  <2> QED BY <1>8, <2>1, <2>2 DEF Open
<1>9. ASSUME NEW i, Setattr(i) \/ Readlink(i) PROVE TreeInv'
  BY <1>0, <1>9 DEF Setattr, Readlink
<1>10. ASSUME NEW fh \in DOMAIN handles, Release(fh) PROVE TreeInv'
  BY <1>10, AttributesStep DEF Release, DecHandle, NodeAttributes
<1>11. ASSUME NEW fh \in DOMAIN handles, NEW offset, NEW size, Read(fh, offset, size)
       PROVE  TreeInv'
  BY <1>0, <1>11 DEF Read, PanicHoldingFiles, Fail
<1>12. ASSUME NEW fh \in DOMAIN handles, NEW offset, NEW data, Write(fh, offset, data)
       PROVE  TreeInv'
  <2>1. CASE UNCHANGED inodes
    BY <1>0, <2>1
  <2>2. ASSUME NEW i, NEW size, NEW content,
               nodes' = [nodes EXCEPT ![i].size = size, ![i].hash = content],
               UNCHANGED <<directories, next_inode>>
        PROVE  TreeInv'
    BY <2>2, AttributesStep DEF NodeAttributes
  <2> QED BY <1>12, <2>1, <2>2 DEF Write, PanicHoldingFiles, Fail
<1>13. ASSUME NEW t \in Trees, StoreObjects(t) PROVE TreeInv'
  BY <1>0, <1>13 DEF StoreObjects
<1>14. ASSUME NEW t \in Trees, SetRootTree(t) PROVE TreeInv'
  BY <1>14, TreeStep, TreesAssumption DEF SetRootTree
<1>15. ASSUME NEW m, StrayPanic(m) PROVE TreeInv'
  BY <1>0, <1>15 DEF StrayPanic, inodes
<1> QED
  BY <1>1, <1>2, <1>3, <1>4, <1>5, <1>6, <1>7, <1>8, <1>9, <1>10, <1>11, <1>12, <1>13, <1>14,
     <1>15 DEF Next, NamespaceRequest, InodeRequest, HandleRequest, OtherThreads

\* The inductive invariant holds of the whole specification.
LEMMA AlwaysTree == Spec => []TreeInv
<1>1. Init => TreeInv
  BY DEF Init, TreeInv, Numbered, RootIsDirectory, EntriesResolve, UniqueLinks, DotDotConsistent,
         LinkedAreCounted, EmptyMap
<1>2. TreeInv /\ HandlesResolve /\ [Next]_vars => TreeInv'
  BY TreeInvStep
<1> QED BY <1>1, <1>2, HandlesAlwaysResolve, PTL DEF Spec

\* Every entry of every directory leads to a node of the kind the entry says,
\* and exactly the directories have a content, after any sequence of requests,
\* checkouts and panics: no handler's lookup of a listed name fails.
THEOREM EntriesAlwaysResolve == Spec => []EntriesResolve
BY AlwaysTree, PTL DEF TreeInv

\* No node is ever listed in two places, and the root in none.
THEOREM LinksAreUnique == Spec => []UniqueLinks
BY AlwaysTree, PTL DEF TreeInv

\* "." is the directory itself and ".." the directory that lists it.
THEOREM DotDotStaysConsistent == Spec => []DotDotConsistent
BY AlwaysTree, PTL DEF TreeInv

-----------------------------------------------------------------------------
(* The type invariant.  That st_nlink never goes below 0 is what needs the *)
(* tree: a rename takes one from the count of the node it replaces, which  *)
(* has a link because an entry refers to it, and only one.                 *)

\* What TypeOK says beyond HandlesResolve and TreeInv.
EntriesAreRecords ==
  \A d \in DOMAIN directories : \A n \in DOMAIN directories[d] :
    directories[d][n] = Entry(directories[d][n].inode, directories[d][n].kind)

\* The tables of inodes.
TablesTyped ==
  /\ next_inode \in 1..MaxInode
  /\ \A i \in DOMAIN nodes : nodes[i].hardlinks >= 0
  /\ EntriesAreRecords

\* The store.
StoreTyped ==
  /\ files \subseteq Seq(Byte)
  /\ symlinks \subseteq Seq(Byte)
  /\ poisoned \subseteq Mutexes

\* The open handles and the session.
OpenTyped ==
  /\ next_file_handle \in Nat
  /\ \A fh \in DOMAIN handles :
       fh \in Nat /\ handles[fh] \in [inode : Nat, read : BOOLEAN, write : BOOLEAN]
  /\ session \in {"mounted", "running", "dead"}

\* Objects stored stay byte strings: what write stores is what it computed.
LEMMA StoreTypedStep ==
  ASSUME StoreTyped, HandlesResolve, [Next]_vars
  PROVE  StoreTyped'
<1> USE DEF StoreTyped
<1>0. ASSUME UNCHANGED store PROVE StoreTyped'
  BY <1>0 DEF store
<1>1. CASE UNCHANGED vars
  BY <1>0, <1>1 DEF vars
<1>2. CASE InitSession
  BY <1>0, <1>2 DEF InitSession
<1>3. ASSUME NEW parent \in DOMAIN directories, NEW name \in Names, Mkdir(parent, name)
      PROVE  StoreTyped'
  BY <1>0, <1>3 DEF Mkdir, Fail
<1>4. ASSUME NEW parent \in DOMAIN directories, NEW name \in Names, NEW fileType,
             Mknod(parent, name, fileType)
      PROVE  StoreTyped'
  BY <1>0, <1>4 DEF Mknod, Fail
<1>5. ASSUME NEW parent \in DOMAIN directories, NEW name \in Names, NEW target \in Targets,
             Symlink(parent, name, target)
      PROVE  StoreTyped'
  <2>1. target \in Seq(Byte)
    BY TargetsAssumption
  <2> QED BY <1>5, <2>1 DEF Symlink, SymlinkPanics, Mutexes
<1>6. ASSUME NEW parent \in DOMAIN directories, NEW name \in Names,
             NEW newParent \in DOMAIN directories, NEW newName \in Names,
             NEW exchange \in BOOLEAN, Rename(parent, name, newParent, newName, exchange)
      PROVE  StoreTyped'
  BY <1>0, <1>6 DEF Rename, Fail
<1>7. CASE Unimplemented
  BY <1>0, <1>7 DEF Unimplemented
<1>8. ASSUME NEW i, NEW mode, Open(i, mode) PROVE StoreTyped'
  BY <1>0, <1>8 DEF Open, Fail
<1>9. ASSUME NEW i, Setattr(i) \/ Readlink(i) PROVE StoreTyped'
  BY <1>0, <1>9 DEF Setattr, Readlink
<1>10. ASSUME NEW fh \in DOMAIN handles, Release(fh) PROVE StoreTyped'
  BY <1>0, <1>10 DEF Release
<1>11. ASSUME NEW fh \in DOMAIN handles, NEW offset, NEW size, Read(fh, offset, size)
       PROVE  StoreTyped'
  BY <1>0, <1>11 DEF Read, PanicHoldingFiles, Fail, Mutexes
<1>12. ASSUME NEW fh \in DOMAIN handles, NEW offset \in 0..MaxFileLen, NEW data \in Data,
              Write(fh, offset, data)
       PROVE  StoreTyped'
  <2>1. ContentOf(nodes[handles[fh].inode]) \in Seq(Byte)
    BY DEF HandlesResolve, NodeAttributes, ContentOf
  <2>2. CursorWrite(ContentOf(nodes[handles[fh].inode]), offset, data) \in Seq(Byte)
    BY <2>1, CursorWriteLands, DataType, BoundsAssumption
  <2> QED BY <1>0, <1>12, <2>2 DEF Write, InsertFile, PanicHoldingFiles, Fail, Mutexes
<1>13. ASSUME NEW t \in Trees, StoreObjects(t) PROVE StoreTyped'
  <2>1. \A k \in DOMAIN t : t[k].kind # "Directory" => t[k].hash \in Seq(Byte)
    BY TreesAssumption DEF IsTree
  <2> QED BY <1>13, <2>1 DEF StoreObjects
<1>14. ASSUME NEW t \in Trees, SetRootTree(t) PROVE StoreTyped'
  BY <1>0, <1>14 DEF SetRootTree
<1>15. ASSUME NEW m \in Mutexes, StrayPanic(m) PROVE StoreTyped'
  BY <1>15 DEF StrayPanic
<1> QED
  BY <1>1, <1>2, <1>3, <1>4, <1>5, <1>6, <1>7, <1>8, <1>9, <1>10, <1>11, <1>12, <1>13, <1>14,
     <1>15 DEF Next, NamespaceRequest, InodeRequest, HandleRequest, OtherThreads

\* Handles and the session keep their types.
LEMMA OpenTypedStep ==
  ASSUME OpenTyped, TreeInv, [Next]_vars
  PROVE  OpenTyped'
<1> USE DEF OpenTyped
<1>0. ASSUME UNCHANGED opened, session' \in {session, "running", "dead"} PROVE OpenTyped'
  BY <1>0 DEF opened
<1>1. CASE UNCHANGED vars
  BY <1>0, <1>1 DEF vars
<1>2. CASE InitSession
  BY <1>0, <1>2 DEF InitSession
<1>3. ASSUME NEW parent \in DOMAIN directories, NEW name \in Names, Mkdir(parent, name)
      PROVE  OpenTyped'
  BY <1>0, <1>3 DEF Mkdir, Fail
<1>4. ASSUME NEW parent \in DOMAIN directories, NEW name \in Names, NEW fileType,
             Mknod(parent, name, fileType)
      PROVE  OpenTyped'
  BY <1>0, <1>4 DEF Mknod, Fail
<1>5. ASSUME NEW parent \in DOMAIN directories, NEW name \in Names, NEW target \in Targets,
             Symlink(parent, name, target)
      PROVE  OpenTyped'
  BY <1>0, <1>5 DEF Symlink, SymlinkPanics, Panic
<1>6. ASSUME NEW parent \in DOMAIN directories, NEW name \in Names,
             NEW newParent \in DOMAIN directories, NEW newName \in Names,
             NEW exchange \in BOOLEAN, Rename(parent, name, newParent, newName, exchange)
      PROVE  OpenTyped'
  BY <1>0, <1>6 DEF Rename, TargetIsTodo, Panic, Fail
<1>7. CASE Unimplemented
  BY <1>0, <1>7 DEF Unimplemented, Panic
<1>8. ASSUME NEW i \in DOMAIN directories \cup NonDirectories("File"), NEW mode, Open(i, mode)
      PROVE  OpenTyped'
  <2>1. ASSUME NEW res, Fail(res) PROVE OpenTyped'
    BY <1>0, <2>1 DEF Fail
  <2>2. CASE /\ handles' = Put(handles, next_file_handle, Handle(i, mode))
             /\ next_file_handle' = next_file_handle + 1
             /\ UNCHANGED session
    <3>1. i \in Nat
      BY DEF NonDirectories, TreeInv, EntriesResolve, Numbered
    <3>2. Handle(i, mode) \in [inode : Nat, read : BOOLEAN, write : BOOLEAN]
      BY <3>1 DEF Handle
    <3> QED BY <2>2, <3>2 DEF Put
  <2> QED BY <1>8, <2>1, <2>2 DEF Open
<1>9. ASSUME NEW i, Setattr(i) \/ Readlink(i) PROVE OpenTyped'
  BY <1>0, <1>9 DEF Setattr, Readlink, Panic
<1>10. ASSUME NEW fh \in DOMAIN handles, Release(fh) PROVE OpenTyped'
  BY <1>10 DEF Release, Drop
<1>11. ASSUME NEW fh \in DOMAIN handles, NEW offset, NEW size, Read(fh, offset, size)
       PROVE  OpenTyped'
  BY <1>0, <1>11 DEF Read, PanicHoldingFiles, Panic, Fail
<1>12. ASSUME NEW fh \in DOMAIN handles, NEW offset, NEW data, Write(fh, offset, data)
       PROVE  OpenTyped'
  BY <1>0, <1>12 DEF Write, PanicHoldingFiles, Panic, Fail
<1>13. ASSUME NEW t \in Trees, StoreObjects(t) PROVE OpenTyped'
  BY <1>0, <1>13 DEF StoreObjects
<1>14. ASSUME NEW t \in Trees, SetRootTree(t) PROVE OpenTyped'
  BY <1>0, <1>14 DEF SetRootTree
<1>15. ASSUME NEW m, StrayPanic(m) PROVE OpenTyped'
  BY <1>0, <1>15 DEF StrayPanic
<1> QED
  BY <1>1, <1>2, <1>3, <1>4, <1>5, <1>6, <1>7, <1>8, <1>9, <1>10, <1>11, <1>12, <1>13, <1>14,
     <1>15 DEF Next, NamespaceRequest, InodeRequest, HandleRequest, OtherThreads

-----------------------------------------------------------------------------
\* set_root_tree and init: the tables of a tree.
LEMMA InsertRootTyped ==
  ASSUME TablesTyped, TreeInv, HandlesResolve,
         NEW t \in Seq([parent : Nat, name : Names, kind : Kinds, hash : Seq(Byte) \cup {NoHash}]),
         IsTree(t), InsertRoot(t)
  PROVE  TablesTyped'
<1>0. next_inode \in Nat /\ next_inode > 0 /\ MaxInode \in Nat /\ Len(t) \in Nat
  BY BoundsAssumption DEF HandlesResolve
<1>1. next_inode' \in 1..MaxInode
  BY <1>0 DEF InsertRoot, AfterTree
<1>2. ASSUME NEW i \in DOMAIN nodes' PROVE nodes'[i].hardlinks >= 0
  <2>1. CASE i \in DOMAIN TreeNodes(t, next_inode)
    <3>1. nodes'[i] = TreeNodes(t, next_inode)[i]
      BY <2>1 DEF InsertRoot, Overlay
    <3>2. PICK kind, hash, size : TreeNodes(t, next_inode)[i] = NewAttrs(kind, hash, size)
      BY <2>1 DEF TreeNodes
    <3> QED BY <3>1, <3>2 DEF NewAttrs
  <2>2. CASE i \notin DOMAIN TreeNodes(t, next_inode)
    BY <1>2, <2>2 DEF InsertRoot, Overlay, TablesTyped
  <2> QED BY <2>1, <2>2
<1>3. ASSUME NEW d \in DOMAIN directories', NEW n \in DOMAIN directories'[d]
      PROVE  directories'[d][n] = Entry(directories'[d][n].inode, directories'[d][n].kind)
  <2>1. CASE d \in DOMAIN TreeDirectories(t, next_inode)
    <3>1. PICK k : directories'[d] = TreeContent(t, next_inode, k)
      BY <2>1 DEF InsertRoot, Overlay, TreeDirectories
    <3>2. \/ directories'[d][n] = TreeDot(next_inode, k)
          \/ directories'[d][n] = TreeEntry(t, next_inode, k, n)
      BY <1>3, <3>1 DEF TreeContent
    <3>3. CASE directories'[d][n] = TreeDot(next_inode, k)
      BY <3>3 DEF TreeDot, Entry
    <3>4. CASE directories'[d][n] = TreeEntry(t, next_inode, k, n)
      BY <3>4 DEF TreeEntry, Entry
    <3> QED BY <3>2, <3>3, <3>4
  <2>2. CASE d \notin DOMAIN TreeDirectories(t, next_inode)
    BY <1>3, <2>2 DEF InsertRoot, Overlay, TablesTyped, EntriesAreRecords
  <2> QED BY <2>1, <2>2
<1> QED BY <1>1, <1>2, <1>3 DEF TablesTyped, EntriesAreRecords

\* The updates of the directories keep their entries records.
LEMMA EntriesTypedStep ==
  ASSUME EntriesAreRecords, EntriesResolve,
         NEW parent \in DOMAIN directories, NEW name, NEW i, NEW kind,
         \/ UNCHANGED directories
         \/ directories' = Link(directories, parent, name, Entry(i, kind))
         \/ directories' = WithDirectory(directories, parent, name, i)
         \/ directories' = Unlink(directories, parent, name)
  PROVE  EntriesAreRecords'
<1>1. ASSUME NEW j, NEW k PROVE Entry(j, k) = Entry(Entry(j, k).inode, Entry(j, k).kind)
  BY DEF Entry
<1>2. CASE UNCHANGED directories
  BY <1>2 DEF EntriesAreRecords
<1>3. CASE directories' = Link(directories, parent, name, Entry(i, kind))
  BY <1>1, <1>3 DEF EntriesAreRecords, Link, Put
<1>4. CASE directories' = WithDirectory(directories, parent, name, i)
  BY <1>1, <1>4 DEF EntriesAreRecords, WithDirectory, Link, Put, NewDirectory
<1>5. CASE directories' = Unlink(directories, parent, name)
  BY <1>5 DEF EntriesAreRecords, Unlink, Drop
<1> QED BY <1>2, <1>3, <1>4, <1>5

\* rename: the entry that moves and the ".." of a moved directory.
LEMMA EntriesTypedMove ==
  ASSUME EntriesAreRecords, NEW parent \in DOMAIN directories,
         NEW name \in DOMAIN directories[parent],
         NEW newParent \in DOMAIN directories, NEW newName,
         directories' = Moved(directories, parent, name, newParent, newName)
  PROVE  EntriesAreRecords'
<1> DEFINE e == directories[parent][name]
           step == Link(Unlink(directories, parent, name), newParent, newName, e)
<1>1. e = Entry(e.inode, e.kind)
  BY DEF EntriesAreRecords
<1>2. \A d \in DOMAIN step : \A n \in DOMAIN step[d] :
        step[d][n] = Entry(step[d][n].inode, step[d][n].kind)
  BY <1>1 DEF EntriesAreRecords, Link, Unlink, Put, Drop
<1>3. ASSUME NEW j, NEW k PROVE Entry(j, k) = Entry(Entry(j, k).inode, Entry(j, k).kind)
  BY DEF Entry
<1>4. CASE e.kind = "Directory"
  <2>1. directories' = Link(step, e.inode, "..", Entry(newParent, "Directory"))
    BY <1>4 DEF Moved
  <2> HIDE DEF step
  <2> QED BY <1>2, <1>3, <2>1 DEF EntriesAreRecords, Link, Put
<1>5. CASE e.kind # "Directory"
  BY <1>2, <1>5 DEF Moved, EntriesAreRecords
<1> QED BY <1>4, <1>5

\* A node is created with a count that is not negative, within the bound.
LEMMA CreationTyped ==
  ASSUME TablesTyped, HandlesResolve, NEW kind, NEW hash, NEW size,
         CreateNode(NewAttrs(kind, hash, size)), EntriesAreRecords'
  PROVE  TablesTyped'
<1>1. next_inode' \in 1..MaxInode
  BY BoundsAssumption DEF CreateNode, HandlesResolve
<1>2. NewAttrs(kind, hash, size).hardlinks >= 0
  BY DEF NewAttrs
<1>3. \A i \in DOMAIN nodes' : nodes'[i].hardlinks >= 0
  BY <1>2 DEF CreateNode, Put, TablesTyped
<1> QED BY <1>1, <1>3 DEF TablesTyped

\* Every step keeps the tables typed.
LEMMA TablesTypedStep ==
  ASSUME TablesTyped, TreeInv, HandlesResolve, [Next]_vars
  PROVE  TablesTyped'
<1>0. ASSUME UNCHANGED inodes PROVE TablesTyped'
  BY <1>0 DEF inodes, TablesTyped, EntriesAreRecords
<1>16. ASSUME UNCHANGED <<directories, next_inode>>, DOMAIN nodes' = DOMAIN nodes,
             \A i \in DOMAIN nodes : nodes'[i].hardlinks = nodes[i].hardlinks
      PROVE  TablesTyped'
  BY <1>16 DEF TablesTyped, EntriesAreRecords
<1>17. EntriesAreRecords /\ EntriesResolve
  BY DEF TablesTyped, TreeInv
<1>1. CASE UNCHANGED vars
  BY <1>0, <1>1 DEF vars
<1>2. CASE InitSession
  <2>1. << >> \in Seq([parent : Nat, name : Names, kind : Kinds,
                      hash : Seq(Byte) \cup {NoHash}]) /\ IsTree(<< >>)
    BY DEF IsTree
  <2>2. CASE next_inode < MaxInode /\ BurnsInode
    <3>1. MaxInode \in Nat /\ next_inode \in 1..MaxInode
      BY BoundsAssumption DEF TablesTyped
    <3>2. next_inode' \in 1..MaxInode
      BY <2>2, <3>1 DEF BurnsInode
    <3> QED BY <2>2, <3>2 DEF BurnsInode, TablesTyped, EntriesAreRecords
  <2> QED BY <1>0, <1>2, <2>1, <2>2, InsertRootTyped DEF InitSession, BurnsInode
<1>3. ASSUME NEW parent \in DOMAIN directories, NEW name \in Names, Mkdir(parent, name)
      PROVE  TablesTyped'
  <2>1. CASE Fail("EEXIST")
    BY <1>0, <2>1 DEF Fail
  <2>2. CASE /\ CreateNode(NewAttrs("Directory", NoHash, 0))
             /\ directories' = WithDirectory(directories, parent, name, next_inode)
    BY <1>17, <2>2, EntriesTypedStep, CreationTyped
  <2> QED BY <1>3, <2>1, <2>2 DEF Mkdir
<1>4. ASSUME NEW parent \in DOMAIN directories, NEW name \in Names, NEW fileType,
             Mknod(parent, name, fileType)
      PROVE  TablesTyped'
  <2>1. ASSUME NEW res, Fail(res) PROVE TablesTyped'
    BY <1>0, <2>1 DEF Fail
  <2>2. CASE /\ CreateNode(NewAttrs("File", NoHash, 0))
             /\ directories' = Link(directories, parent, name, Entry(next_inode, "File"))
    BY <1>17, <2>2, EntriesTypedStep, CreationTyped
  <2> QED BY <1>4, <2>1, <2>2 DEF Mknod
<1>5. ASSUME NEW parent \in DOMAIN directories, NEW name \in Names, NEW target \in Targets,
             Symlink(parent, name, target)
      PROVE  TablesTyped'
  <2>1. PICK hash, size : CreateNode(NewAttrs("Symlink", hash, size))
    BY <1>5 DEF Symlink
  <2>2. \/ UNCHANGED directories
        \/ directories' = Link(directories, parent, name, Entry(next_inode, "Symlink"))
    BY <1>5 DEF Symlink, InsertLink
  <2>3. EntriesAreRecords'
    BY <1>17, <2>2, EntriesTypedStep
  <2> QED BY <2>1, <2>3, CreationTyped
<1>6. ASSUME NEW parent \in DOMAIN directories, NEW name \in Names,
             NEW newParent \in DOMAIN directories, NEW newName \in Names,
             NEW exchange \in BOOLEAN, Rename(parent, name, newParent, newName, exchange)
      PROVE  TablesTyped'
  <2>1. CASE UNCHANGED inodes
    BY <1>0, <2>1
  <2>2. CASE /\ directories' = Unlink(directories, newParent, newName)
             /\ UNCHANGED <<nodes, next_inode>>
    <3>1. EntriesAreRecords'
      BY <1>17, <2>2, EntriesTypedStep
    <3> QED BY <2>2, <3>1 DEF TablesTyped
  <2>3. CASE /\ name \in DOMAIN directories[parent]
             /\ VfsAllowsRename(parent, name, newParent, newName)
             /\ newName \in DOMAIN directories[newParent] =>
                  directories[newParent][newName].kind # "Directory"
             /\ nodes' = IF newName \in DOMAIN directories[newParent]
                           THEN [nodes EXCEPT ![directories[newParent][newName].inode] = DecHardlinks(@)]
                           ELSE nodes
             /\ directories' = Moved(directories, parent, name, newParent, newName)
             /\ UNCHANGED next_inode
    <3>1. EntriesAreRecords'
      BY <1>17, <2>3, EntriesTypedMove
    <3>2. \A i \in DOMAIN nodes : nodes[i] \in NodeAttributes
      BY DEF HandlesResolve
    <3>3. \A i \in DOMAIN nodes : nodes[i].hardlinks >= 0 => nodes'[i].hardlinks >= 0
      BY <2>3, <3>2, MoveStep
    <3>4. DOMAIN nodes' = DOMAIN nodes
      BY <2>3
    <3> QED BY <2>3, <3>1, <3>3, <3>4 DEF TablesTyped
  <2> QED BY <1>6, <2>1, <2>2, <2>3 DEF Rename, Fail, inodes
<1>7. CASE Unimplemented
  BY <1>0, <1>7 DEF Unimplemented
<1>8. ASSUME NEW i, NEW mode, Open(i, mode) PROVE TablesTyped'
  <2>1. ASSUME NEW res, Fail(res) PROVE TablesTyped'
    BY <1>0, <2>1 DEF Fail
  <2>2. CASE nodes' = [nodes EXCEPT ![i] = IncHandle(@)] /\ UNCHANGED <<directories, next_inode>>
    BY <1>16, <2>2 DEF IncHandle, HandlesResolve, NodeAttributes
  <2> QED BY <1>8, <2>1, <2>2 DEF Open
<1>9. ASSUME NEW i, Setattr(i) \/ Readlink(i) PROVE TablesTyped'
  BY <1>0, <1>9 DEF Setattr, Readlink
<1>10. ASSUME NEW fh \in DOMAIN handles, Release(fh) PROVE TablesTyped'
  BY <1>16, <1>10 DEF Release, DecHandle, HandlesResolve, NodeAttributes
<1>11. ASSUME NEW fh \in DOMAIN handles, NEW offset, NEW size, Read(fh, offset, size)
       PROVE  TablesTyped'
  BY <1>0, <1>11 DEF Read, PanicHoldingFiles, Fail
<1>12. ASSUME NEW fh \in DOMAIN handles, NEW offset, NEW data, Write(fh, offset, data)
       PROVE  TablesTyped'
  <2>1. CASE UNCHANGED inodes
    BY <1>0, <2>1
  <2>2. ASSUME NEW i, NEW size, NEW content,
               nodes' = [nodes EXCEPT ![i].size = size, ![i].hash = content],
               UNCHANGED <<directories, next_inode>>
        PROVE  TablesTyped'
    BY <1>16, <2>2 DEF HandlesResolve, NodeAttributes
  <2> QED BY <1>12, <2>1, <2>2 DEF Write, PanicHoldingFiles, Fail
<1>13. ASSUME NEW t \in Trees, StoreObjects(t) PROVE TablesTyped'
  BY <1>0, <1>13 DEF StoreObjects
<1>14. ASSUME NEW t \in Trees, SetRootTree(t) PROVE TablesTyped'
  BY <1>14, InsertRootTyped, TreesAssumption DEF SetRootTree
<1>15. ASSUME NEW m, StrayPanic(m) PROVE TablesTyped'
  BY <1>0, <1>15 DEF StrayPanic, inodes
<1> QED
  BY <1>1, <1>2, <1>3, <1>4, <1>5, <1>6, <1>7, <1>8, <1>9, <1>10, <1>11, <1>12, <1>13, <1>14,
     <1>15 DEF Next, NamespaceRequest, InodeRequest, HandleRequest, OtherThreads

-----------------------------------------------------------------------------
\* The parts together are the type invariant the runs check.
LEMMA PartsGiveType ==
  ASSUME TablesTyped, StoreTyped, OpenTyped, TreeInv, HandlesResolve
  PROVE  TypeOK
<1>1. next_inode \in 1..MaxInode /\ DOMAIN nodes \subseteq 1..(next_inode - 1)
  BY DEF TablesTyped, TreeInv, Numbered
<1>2. DOMAIN nodes \subseteq Inodes
  BY <1>1, BoundsAssumption DEF Inodes
<1>3. ASSUME NEW i \in DOMAIN nodes PROVE nodes[i] \in Attributes
  <2>1. nodes[i] \in NodeAttributes /\ nodes[i].hardlinks >= 0
    BY DEF HandlesResolve, TablesTyped
  <2> QED BY <2>1 DEF NodeAttributes, Attributes
<1>4. ASSUME NEW d \in DOMAIN directories
      PROVE  /\ DOMAIN directories[d] \subseteq Names \cup Dots
             /\ \A n \in DOMAIN directories[d] : directories[d][n] \in Entries
  <2>1. ASSUME NEW n \in DOMAIN directories[d] PROVE directories[d][n] \in Entries
    <3>1. directories[d][n].inode \in Inodes /\ directories[d][n].kind \in Kinds
      BY <1>2 DEF TreeInv, EntriesResolve, HandlesResolve, NodeAttributes
    <3> QED BY <3>1 DEF Entries, Entry, TablesTyped, EntriesAreRecords
  <2> QED BY <2>1 DEF TreeInv, Numbered
<1>5. ASSUME NEW fh \in DOMAIN handles
      PROVE  fh \in Nat /\ handles[fh] \in [inode : Inodes, read : BOOLEAN, write : BOOLEAN]
  BY <1>2 DEF OpenTyped, HandlesResolve
<1> QED BY <1>1, <1>3, <1>4, <1>5 DEF TypeOK, HandlesResolve, StoreTyped, OpenTyped

\* Every variable of the mount keeps its type, and no counter of handles or
\* links goes below 0, for any names, bytes, trees and bounds.
THEOREM FSTypeCorrect == Spec => []TypeOK
<1>1. Init => TablesTyped /\ StoreTyped /\ OpenTyped
  BY BoundsAssumption
     DEF Init, TablesTyped, EntriesAreRecords, StoreTyped, OpenTyped, EmptyMap, Root
<1>2. TablesTyped /\ TreeInv /\ HandlesResolve /\ [Next]_vars => TablesTyped'
  BY TablesTypedStep
<1>3. StoreTyped /\ HandlesResolve /\ [Next]_vars => StoreTyped'
  BY StoreTypedStep
<1>4. OpenTyped /\ TreeInv /\ [Next]_vars => OpenTyped'
  BY OpenTypedStep
<1>5. TablesTyped /\ StoreTyped /\ OpenTyped /\ TreeInv /\ HandlesResolve => TypeOK
  BY PartsGiveType
<1> QED BY <1>1, <1>2, <1>3, <1>4, <1>5, AlwaysTree, HandlesAlwaysResolve, PTL DEF Spec

=============================================================================
