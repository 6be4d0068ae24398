-------------------------- MODULE FSContentProofs ---------------------------
(***************************************************************************)
(* Proofs about what the inodes of a mount hold and count: content and     *)
(* size, objects of the store, open handles, links; what a step may never  *)
(* take away; and that a mount in production implements WorkingTree.       *)
(*                                                                         *)
(* StepEffects says once, for all of them, what a step of the mount does   *)
(* to the inodes, the store and the handles.                               *)
(***************************************************************************)
EXTENDS CultivateFSProofs, FiniteSetTheorems

TreeRecords == Seq([parent : Nat, name : Names, kind : Kinds, hash : Seq(Byte) \cup {NoHash}])

-----------------------------------------------------------------------------
(* The effects a step can have.                                            *)

\* A session starts once and ends once.
SessionMoves ==
  \/ session' = session
  \/ session' = "dead"
  \/ session = "mounted" /\ session' = "running"

\* Nothing but the store, the session, the answer and the inode a dying init
\* burns.
LeavesInodes ==
  /\ UNCHANGED <<nodes, directories, opened>>
  /\ files \subseteq files' /\ symlinks \subseteq symlinks'

ChecksOut(t) ==
  /\ t \in TreeRecords /\ IsTree(t) /\ IsStored(t)
  /\ \/ t \in Trees /\ UNCHANGED session
     \/ /\ session = "mounted" /\ session' = "running"
        /\ Root \notin DOMAIN nodes /\ t = << >>
  /\ InsertRoot(t)
  /\ UNCHANGED <<store, opened>>

AddsDirectory(parent, name) ==
  /\ session = "running"
  /\ name \notin DOMAIN directories[parent]
  /\ CreateNode(NewAttrs("Directory", NoHash, 0))
  /\ directories' = WithDirectory(directories, parent, name, next_inode)
  /\ UNCHANGED <<store, opened, session>>

AddsFile(parent, name) ==
  /\ session = "running"
  /\ name \notin DOMAIN directories[parent]
  /\ CreateNode(NewAttrs("File", NoHash, 0))
  /\ directories' = Link(directories, parent, name, Entry(next_inode, "File"))
  /\ UNCHANGED <<store, opened, session>>

\* A symlink enters a directory, with its target in the store; or without
\* one, and then the session has ended.
AddsSymlink(parent, name, attrs) ==
  /\ session = "running"
  /\ name \notin DOMAIN directories[parent]
  /\ CreateNode(attrs)
  /\ \/ attrs = NewAttrs("Symlink", NoHash, 0) /\ session' = "dead"
     \/ \E target \in symlinks' \cap Targets :
          attrs = NewAttrs("Symlink", target, Len(target)) /\ session' = session
  /\ directories' = Link(directories, parent, name, Entry(next_inode, "Symlink"))
  /\ symlinks \subseteq symlinks'
  /\ UNCHANGED <<files, opened>>

\* The node of a symlink whose name was taken: nothing refers to it.
AddsBareNode ==
  /\ session = "running"
  /\ DOMAIN directories # {}
  /\ CreateNode(NewAttrs("Symlink", NoHash, 0))
  /\ UNCHANGED <<directories, store, opened, session>>

MovesEntry(parent, name, newParent, newName) ==
  LET target  == directories[newParent][newName]
      present == newName \in DOMAIN directories[newParent]
  IN  /\ session = "running"
      /\ name \in DOMAIN directories[parent]
      /\ VfsAllowsRename(parent, name, newParent, newName)
      /\ present => target.kind # "Directory"
      /\ nodes' = IF present
                    THEN [nodes EXCEPT ![target.inode] = DecHardlinks(@)]
                    ELSE nodes
      /\ directories' = Moved(directories, parent, name, newParent, newName)
      /\ UNCHANGED <<next_inode, store, opened, session>>

\* rename onto an empty directory: the entry goes, and the session with it.
DropsDirectory(parent, name) ==
  /\ session = "running" /\ session' = "dead"
  /\ name \in DOMAIN directories[parent]
  /\ directories[parent][name].kind = "Directory"
  /\ ~IsOccupied(directories[directories[parent][name].inode])
  /\ directories' = Unlink(directories, parent, name)
  /\ UNCHANGED <<nodes, next_inode, store, opened>>

OpensHandle(i, mode) ==
  /\ nodes' = [nodes EXCEPT ![i] = IncHandle(@)]
  /\ handles' = Put(handles, next_file_handle, Handle(i, mode))
  /\ next_file_handle' = next_file_handle + 1
  /\ UNCHANGED <<directories, next_inode, store, session>>

ReleasesHandle(fh) ==
  /\ nodes' = [nodes EXCEPT ![handles[fh].inode] = DecHandle(@)]
  /\ handles' = Drop(handles, fh)
  /\ UNCHANGED <<directories, next_inode, store, next_file_handle, session>>

\* A file takes the data; its kind and its counters stay.
WritesFile(i, offset, data) ==
  LET content == CursorWrite(ContentOf(nodes[i]), offset, data)
  IN  /\ session = "running"
      /\ nodes[i].kind = "File"
      /\ nodes' = [nodes EXCEPT ![i].size = GrownSize(nodes[i], offset, data),
                                ![i].hash = content]
      /\ files' = files \cup {content}
      /\ UNCHANGED <<directories, next_inode, symlinks, opened, session>>

ChangesNames ==
  \E parent \in DOMAIN directories : \E name \in Names :
    \/ AddsDirectory(parent, name)
    \/ AddsFile(parent, name)
    \/ \E attrs : AddsSymlink(parent, name, attrs)
    \/ \E newParent \in DOMAIN directories : \E newName \in Names :
         MovesEntry(parent, name, newParent, newName)
    \/ DropsDirectory(parent, name)

ChangesAttributes ==
  \/ \E i \in DOMAIN nodes : \E mode : OpensHandle(i, mode)
  \/ \E fh \in DOMAIN handles : ReleasesHandle(fh)
  \/ \E i \in DOMAIN nodes : \E offset \in 0..MaxFileLen : \E data \in Data :
       WritesFile(i, offset, data)

Effect ==
  \/ LeavesInodes
  \/ \E t : ChecksOut(t)
  \/ ChangesNames
  \/ AddsBareNode
  \/ ChangesAttributes

\* Every step of the mount has one of these effects.
LEMMA StepEffects ==
  ASSUME EntriesResolve, HandlesResolve, [Next]_vars
  PROVE  Effect /\ SessionMoves
<1>0. ASSUME UNCHANGED <<inodes, opened>>, files \subseteq files', symlinks \subseteq symlinks',
             SessionMoves
      PROVE  Effect /\ SessionMoves
  BY <1>0 DEF Effect, LeavesInodes, inodes
<1>1. CASE UNCHANGED vars
  BY <1>0, <1>1 DEF vars, store, SessionMoves
<1>2. CASE InitSession
  <2>1. << >> \in TreeRecords /\ IsTree(<< >>) /\ IsStored(<< >>)
    BY DEF TreeRecords, IsTree, IsStored
  <2>2. CASE Root \notin DOMAIN nodes /\ "trees" \notin poisoned
    BY <1>2, <2>1, <2>2 DEF InitSession, SessionMoves, Effect, ChecksOut
  <2>3. CASE Root \in DOMAIN nodes
    BY <1>0, <1>2, <2>3 DEF InitSession, SessionMoves, store
  <2>4. CASE Root \notin DOMAIN nodes /\ "trees" \in poisoned
    BY <1>2, <2>4 DEF InitSession, SessionMoves, store, Effect, LeavesInodes
  <2> QED BY <2>2, <2>3, <2>4
<1>f. ASSUME NEW res, Fail(res) PROVE Effect /\ SessionMoves
  BY <1>0, <1>f DEF Fail, store, SessionMoves
<1>p. ASSUME Panic, UNCHANGED <<inodes, files, symlinks, opened>> PROVE Effect /\ SessionMoves
  BY <1>0, <1>p DEF Panic, SessionMoves
<1>3. ASSUME session = "running", NEW parent \in DOMAIN directories, NEW name \in Names,
             Mkdir(parent, name)
      PROVE  Effect /\ SessionMoves
  <2>1. CASE AddsDirectory(parent, name)
    BY <2>1 DEF Effect, ChangesNames, AddsDirectory, SessionMoves
  <2> QED BY <1>3, <1>f, <2>1 DEF Mkdir, AddsDirectory
<1>4. ASSUME session = "running", NEW parent \in DOMAIN directories, NEW name \in Names,
             NEW fileType, Mknod(parent, name, fileType)
      PROVE  Effect /\ SessionMoves
  <2>1. CASE AddsFile(parent, name)
    BY <2>1 DEF Effect, ChangesNames, AddsFile, SessionMoves
  <2> QED BY <1>4, <1>f, <2>1 DEF Mknod, AddsFile
<1>5. ASSUME session = "running", NEW parent \in DOMAIN directories, NEW name \in Names,
             NEW target \in Targets, Symlink(parent, name, target)
      PROVE  Effect /\ SessionMoves
  <2>1. CASE name \in DOMAIN directories[parent]
    <3>1. AddsBareNode
      BY <1>5, <2>1 DEF Symlink, InsertLink, Answer, AddsBareNode, store
    <3> QED BY <3>1 DEF Effect, AddsBareNode, SessionMoves
  <2>2. CASE name \notin DOMAIN directories[parent]
    <3> DEFINE bare  == NewAttrs("Symlink", NoHash, 0)
               attrs == NewAttrs("Symlink", target, Len(target))
               broken == target \in BadTargets \/ "symlinks" \in poisoned
    <3>1. /\ CreateNode(IF ~broken THEN attrs ELSE bare)
          /\ directories' = Link(directories, parent, name, Entry(next_inode, "Symlink"))
          /\ broken => session' = "dead" /\ UNCHANGED symlinks
          /\ ~broken => session' = session /\ symlinks' = symlinks \cup {target}
          /\ UNCHANGED <<files, opened>>
      BY <1>5, <2>2 DEF Symlink, InsertLink, SymlinkPanics, Panic
    <3>2. \E a : AddsSymlink(parent, name, a)
      <4>1. CASE broken
        BY <1>5, <2>2, <3>1, <4>1 DEF AddsSymlink
      <4>2. CASE ~broken
        BY <1>5, <2>2, <3>1, <4>2 DEF AddsSymlink
      <4> QED BY <4>1, <4>2
    <3>3. SessionMoves
      BY <3>1 DEF SessionMoves
    <3> QED BY <3>2, <3>3 DEF Effect, ChangesNames
  <2> QED BY <2>1, <2>2
<1>6. ASSUME session = "running", NEW parent \in DOMAIN directories, NEW name \in Names,
             NEW newParent \in DOMAIN directories, NEW newName \in Names,
             NEW exchange \in BOOLEAN, Rename(parent, name, newParent, newName, exchange)
      PROVE  Effect /\ SessionMoves
  <2>1. CASE MovesEntry(parent, name, newParent, newName)
    BY <2>1 DEF Effect, ChangesNames, MovesEntry, SessionMoves
  <2>2. CASE DropsDirectory(newParent, newName)
    BY <2>2 DEF Effect, ChangesNames, DropsDirectory, SessionMoves
  <2>3. CASE Panic /\ UNCHANGED <<inodes, store, opened>>
    BY <1>p, <2>3 DEF store
  <2> QED BY <1>6, <1>f, <2>1, <2>2, <2>3
          DEF Rename, MovesEntry, DropsDirectory, TargetIsTodo, Panic
<1>7. CASE Unimplemented
  BY <1>p, <1>7 DEF Unimplemented, store
<1>8. ASSUME NEW i \in DOMAIN directories \cup NonDirectories("File"), NEW mode, Open(i, mode)
      PROVE  Effect /\ SessionMoves
  <2>1. i \in DOMAIN nodes
    BY DEF NonDirectories, EntriesResolve
  <2>2. CASE OpensHandle(i, mode)
    BY <2>1, <2>2 DEF Effect, ChangesAttributes, OpensHandle, SessionMoves
  <2> QED BY <1>8, <1>f, <2>2 DEF Open, OpensHandle
<1>9. ASSUME NEW i, Setattr(i) \/ Readlink(i) PROVE Effect /\ SessionMoves
  BY <1>0, <1>9 DEF Setattr, Readlink, Panic, SessionMoves, store
<1>10. ASSUME NEW fh \in DOMAIN handles, Release(fh) PROVE Effect /\ SessionMoves
  <2>1. ReleasesHandle(fh)
    BY <1>10 DEF Release, ReleasesHandle
  <2> QED BY <2>1 DEF Effect, ChangesAttributes, ReleasesHandle, SessionMoves
<1>11. ASSUME NEW fh \in DOMAIN handles, NEW offset, NEW size, Read(fh, offset, size)
       PROVE  Effect /\ SessionMoves
  BY <1>0, <1>f, <1>p, <1>11 DEF Read, PanicHoldingFiles, SessionMoves, store
<1>12. ASSUME session = "running", NEW fh \in DOMAIN handles, NEW offset \in 0..MaxFileLen,
              NEW data \in Data, nodes[handles[fh].inode].kind = "File", Write(fh, offset, data)
       PROVE  Effect /\ SessionMoves
  <2>1. handles[fh].inode \in DOMAIN nodes
    BY DEF HandlesResolve
  <2>2. CASE WritesFile(handles[fh].inode, offset, data)
    BY <2>1, <2>2 DEF Effect, ChangesAttributes, WritesFile, SessionMoves
  <2> QED BY <1>12, <1>f, <1>p, <2>2 DEF Write, PanicHoldingFiles, WritesFile, InsertFile
<1>13. ASSUME NEW t \in Trees, StoreObjects(t) PROVE Effect /\ SessionMoves
  BY <1>0, <1>13 DEF StoreObjects, SessionMoves
<1>14. ASSUME NEW t \in Trees, SetRootTree(t) PROVE Effect /\ SessionMoves
  BY <1>14, TreesAssumption DEF SetRootTree, TreeRecords, SessionMoves, Effect, ChecksOut
<1>15. ASSUME NEW m, StrayPanic(m) PROVE Effect /\ SessionMoves
  BY <1>0, <1>15 DEF StrayPanic, SessionMoves
<1> QED
  BY <1>1, <1>2, <1>3, <1>4, <1>5, <1>6, <1>7, <1>8, <1>9, <1>10, <1>11, <1>12, <1>13, <1>14,
     <1>15 DEF Next, NamespaceRequest, InodeRequest, HandleRequest, OtherThreads

-----------------------------------------------------------------------------
(* What the effects do to single inodes and entries.                       *)

\* A tree checked out: the root and its new nodes, and the old ones kept.
LEMMA CheckoutNodes ==
  ASSUME Numbered, NEW t \in TreeRecords, InsertRoot(t)
  PROVE  /\ next_inode' = next_inode + Len(t) + 1
         /\ DOMAIN nodes' = DOMAIN nodes \cup {Root} \cup {next_inode + k : k \in 1..Len(t)}
         /\ nodes'[Root] = NewAttrs("Directory", NoHash, 0)
         /\ \A k \in 1..Len(t) :
              /\ next_inode + k \notin DOMAIN nodes /\ next_inode + k # Root
              /\ nodes'[next_inode + k] =
                   IF t[k].kind = "Directory"
                     THEN NewAttrs("Directory", NoHash, 0)
                     ELSE NewAttrs(t[k].kind, t[k].hash, Len(t[k].hash))
         /\ \A i \in DOMAIN nodes \ {Root} : nodes'[i] = nodes[i]
<1> DEFINE base == next_inode
           new  == TreeNodes(t, base)
<1>1. Len(t) \in Nat /\ base \in Nat /\ base > 0 /\ Root = 1
  BY DEF TreeRecords, Numbered, Root
<1>2. /\ DOMAIN new = {TreeInode(base, k) : k \in 0..Len(t)}
      /\ \A i \in DOMAIN new :
           new[i] = IF i = Root \/ t[i - base].kind = "Directory"
                      THEN NewAttrs("Directory", NoHash, 0)
                      ELSE NewAttrs(t[i - base].kind, t[i - base].hash, Len(t[i - base].hash))
  BY DEF TreeNodes, TreeSize
<1>3. nodes' = Overlay(new, nodes) /\ next_inode' = base + Len(t) + 1
  BY DEF InsertRoot, AfterTree
<1> HIDE DEF new
<1>4. DOMAIN new = {Root} \cup {base + k : k \in 1..Len(t)}
  <2>1. ASSUME NEW i \in DOMAIN new PROVE i \in {Root} \cup {base + k : k \in 1..Len(t)}
    <3>1. PICK k \in 0..Len(t) : i = TreeInode(base, k)
      BY <1>2
    <3> QED BY <3>1, <1>1 DEF TreeInode
  <2>2. Root \in DOMAIN new
    <3>1. 0 \in 0..Len(t) /\ Root = TreeInode(base, 0)
      BY <1>1 DEF TreeInode
    <3> QED BY <3>1, <1>2
  <2>3. ASSUME NEW k \in 1..Len(t) PROVE base + k \in DOMAIN new
    <3>1. k \in 0..Len(t) /\ base + k = TreeInode(base, k)
      BY <1>1 DEF TreeInode
    <3> QED BY <3>1, <1>2
  <2> QED BY <2>1, <2>2, <2>3
<1>5. ASSUME NEW k \in 1..Len(t)
      PROVE  /\ base + k \notin DOMAIN nodes /\ base + k # Root
             /\ nodes'[base + k] = IF t[k].kind = "Directory"
                                     THEN NewAttrs("Directory", NoHash, 0)
                                     ELSE NewAttrs(t[k].kind, t[k].hash, Len(t[k].hash))
  <2>1. base + k \in DOMAIN new /\ base + k # Root /\ (base + k) - base = k
    BY <1>1, <1>4
  <2>2. base + k \notin DOMAIN nodes
    BY <1>1 DEF Numbered
  <2> QED BY <2>1, <2>2, <1>2, <1>3 DEF Overlay
<1>6. ASSUME NEW i \in DOMAIN nodes \ {Root} PROVE nodes'[i] = nodes[i]
  <2>1. i \notin DOMAIN new
    BY <1>4, <1>5
  <2> QED BY <2>1, <1>3 DEF Overlay
<1>7. nodes'[Root] = NewAttrs("Directory", NoHash, 0)
  BY <1>2, <1>3, <1>4 DEF Overlay
<1>8. DOMAIN nodes' = DOMAIN nodes \cup DOMAIN new
  BY <1>3 DEF Overlay
<1> QED BY <1>3, <1>4, <1>5, <1>6, <1>7, <1>8

\* A node created next to those there are.
LEMMA CreatedNode ==
  ASSUME Numbered, NEW attrs, CreateNode(attrs)
  PROVE  /\ DOMAIN nodes' = DOMAIN nodes \cup {next_inode} /\ next_inode \notin DOMAIN nodes
         /\ next_inode' = next_inode + 1
         /\ nodes'[next_inode] = attrs
         /\ \A i \in DOMAIN nodes : nodes'[i] = nodes[i]
  BY DEF Numbered, CreateNode, Put

\* What a rename does to the attributes of the inodes: the replaced entry's
\* node loses a link, and nothing else changes.
LEMMA MovedAttributes ==
  ASSUME EntriesResolve, HandlesResolve,
         NEW parent \in DOMAIN directories, NEW name \in Names,
         NEW newParent \in DOMAIN directories, NEW newName \in Names,
         MovesEntry(parent, name, newParent, newName)
  PROVE  /\ DOMAIN nodes' = DOMAIN nodes
         /\ \A i \in DOMAIN nodes :
              nodes'[i] = IF /\ newName \in DOMAIN directories[newParent]
                             /\ directories[newParent][newName].inode = i
                            THEN DecHardlinks(nodes[i]) ELSE nodes[i]
  BY DEF MovesEntry, EntriesResolve

\* An inode whose kind, content and size a step leaves.
Unwritten(i) ==
  /\ i \in DOMAIN nodes
  /\ nodes'[i].kind = nodes[i].kind /\ nodes'[i].hash = nodes[i].hash
  /\ nodes'[i].size = nodes[i].size

Written(i) ==
  /\ i \in DOMAIN nodes
  /\ \E offset \in 0..MaxFileLen : \E data \in Data : WritesFile(i, offset, data)

\* An inode that a step brings: one without content, or one whose object is
\* in the store.  A symlink without a target is bare, or it is the last thing
\* the session made.
Brought(i) ==
  /\ i \notin DOMAIN nodes \ {Root}
  /\ \/ \E kind \in {"File", "Directory"} : nodes'[i] = NewAttrs(kind, NoHash, 0)
     \/ /\ nodes'[i] = NewAttrs("Symlink", NoHash, 0)
        /\ session' = "dead" \/ AddsBareNode
     \/ \E hash \in Seq(Byte) \cap files' : nodes'[i] = NewAttrs("File", hash, Len(hash))
     \/ \E hash \in Seq(Byte) \cap symlinks' : nodes'[i] = NewAttrs("Symlink", hash, Len(hash))

\* Where the inodes after a step come from.  None is taken away, nor an object
\* of the store.
LEMMA NodeOrigins ==
  ASSUME Numbered, EntriesResolve, HandlesResolve, Effect
  PROVE  /\ DOMAIN nodes \subseteq DOMAIN nodes'
         /\ files \subseteq files' /\ symlinks \subseteq symlinks'
         /\ \A i \in DOMAIN nodes' : Unwritten(i) \/ Written(i) \/ Brought(i)
<1>0. \A i \in DOMAIN nodes : nodes[i] \in NodeAttributes
  BY DEF HandlesResolve
<1>1. CASE LeavesInodes
  BY <1>1 DEF LeavesInodes, Unwritten
<1>2. ASSUME NEW t, ChecksOut(t)
      PROVE  /\ DOMAIN nodes \subseteq DOMAIN nodes' /\ UNCHANGED <<files, symlinks>>
             /\ \A i \in DOMAIN nodes' : Unwritten(i) \/ Brought(i)
  <2>1. UNCHANGED <<files, symlinks>> /\ DOMAIN nodes \subseteq DOMAIN nodes'
    BY <1>2, CheckoutNodes DEF ChecksOut, store
  <2>2. Brought(Root)
    BY <1>2, CheckoutNodes DEF ChecksOut, Brought, Kinds
  <2>3. ASSUME NEW k \in 1..Len(t) PROVE Brought(next_inode + k)
    <3>1. /\ k \in DOMAIN t /\ t[k].kind \in Kinds
          /\ t[k].kind # "Directory" => t[k].hash \in Seq(Byte)
          /\ t[k].kind = "File" => t[k].hash \in files'
          /\ t[k].kind = "Symlink" => t[k].hash \in symlinks'
      BY <1>2, <2>1 DEF ChecksOut, TreeRecords, IsTree, IsStored
    <3>2. /\ next_inode + k \notin DOMAIN nodes
          /\ nodes'[next_inode + k] = IF t[k].kind = "Directory"
                                        THEN NewAttrs("Directory", NoHash, 0)
                                        ELSE NewAttrs(t[k].kind, t[k].hash, Len(t[k].hash))
      BY <1>2, CheckoutNodes DEF ChecksOut
    <3> QED BY <3>1, <3>2 DEF Brought, Kinds
  <2>4. \A i \in DOMAIN nodes \ {Root} : Unwritten(i)
    BY <1>2, CheckoutNodes DEF ChecksOut, Unwritten
  <2>5. DOMAIN nodes' = DOMAIN nodes \cup {Root} \cup {next_inode + k : k \in 1..Len(t)}
    BY <1>2, CheckoutNodes DEF ChecksOut
  <2> QED BY <2>1, <2>2, <2>3, <2>4, <2>5
<1>3. ASSUME NEW attrs, CreateNode(attrs)
      PROVE  /\ DOMAIN nodes' = DOMAIN nodes \cup {next_inode} /\ next_inode \notin DOMAIN nodes
             /\ nodes'[next_inode] = attrs
             /\ \A i \in DOMAIN nodes : Unwritten(i)
  BY <1>3, CreatedNode DEF Unwritten
<1>4. CASE ChangesNames
  <2> PICK parent \in DOMAIN directories, name \in Names :
        \/ AddsDirectory(parent, name)
        \/ AddsFile(parent, name)
        \/ \E attrs : AddsSymlink(parent, name, attrs)
        \/ \E newParent \in DOMAIN directories : \E newName \in Names :
             MovesEntry(parent, name, newParent, newName)
        \/ DropsDirectory(parent, name)
    BY <1>4 DEF ChangesNames
  <2>1. CASE AddsDirectory(parent, name) \/ AddsFile(parent, name)
    BY <1>3, <2>1 DEF AddsDirectory, AddsFile, store, Brought, Kinds
  <2>2. ASSUME NEW attrs, AddsSymlink(parent, name, attrs)
        PROVE  /\ DOMAIN nodes \subseteq DOMAIN nodes'
               /\ files \subseteq files' /\ symlinks \subseteq symlinks'
               /\ \A i \in DOMAIN nodes' : Unwritten(i) \/ Brought(i)
    <3>1. \/ attrs = NewAttrs("Symlink", NoHash, 0) /\ session' = "dead"
          \/ \E target \in Seq(Byte) \cap symlinks' :
               attrs = NewAttrs("Symlink", target, Len(target))
      BY <2>2, TargetsAssumption DEF AddsSymlink
    <3>2. Brought(next_inode)
      BY <1>3, <2>2, <3>1 DEF AddsSymlink, Brought, Kinds
    <3> QED BY <1>3, <2>2, <3>2 DEF AddsSymlink
  <2>3. ASSUME NEW newParent \in DOMAIN directories, NEW newName \in Names,
               MovesEntry(parent, name, newParent, newName)
        PROVE  /\ DOMAIN nodes = DOMAIN nodes' /\ UNCHANGED <<files, symlinks>>
               /\ \A i \in DOMAIN nodes : Unwritten(i)
    <3>1. UNCHANGED <<files, symlinks>>
      BY <2>3 DEF MovesEntry, store
    <3> QED BY <1>0, <2>3, <3>1, MovedAttributes DEF DecHardlinks, NodeAttributes, Unwritten
  <2>4. CASE DropsDirectory(parent, name)
    BY <2>4 DEF DropsDirectory, store, Unwritten
  <2> QED BY <2>1, <2>2, <2>3, <2>4
<1>5. CASE AddsBareNode
  BY <1>3, <1>5 DEF AddsBareNode, store, Brought, Kinds
<1>6. CASE ChangesAttributes
  <2>1. ASSUME NEW i \in DOMAIN nodes, NEW mode, OpensHandle(i, mode)
        PROVE  /\ DOMAIN nodes = DOMAIN nodes' /\ UNCHANGED <<files, symlinks>>
               /\ \A j \in DOMAIN nodes : Unwritten(j)
    BY <1>0, <2>1 DEF OpensHandle, IncHandle, NodeAttributes, store, Unwritten
  <2>2. ASSUME NEW fh \in DOMAIN handles, ReleasesHandle(fh)
        PROVE  /\ DOMAIN nodes = DOMAIN nodes' /\ UNCHANGED <<files, symlinks>>
               /\ \A j \in DOMAIN nodes : Unwritten(j)
    BY <1>0, <2>2 DEF ReleasesHandle, DecHandle, NodeAttributes, store, Unwritten
  <2>3. ASSUME NEW i \in DOMAIN nodes, NEW offset \in 0..MaxFileLen, NEW data \in Data,
               WritesFile(i, offset, data)
        PROVE  /\ DOMAIN nodes = DOMAIN nodes' /\ files \subseteq files' /\ UNCHANGED symlinks
               /\ \A j \in DOMAIN nodes : Unwritten(j) \/ Written(j)
    <3>1. Written(i)
      BY <2>3 DEF Written
    <3>2. \A j \in DOMAIN nodes : j # i => Unwritten(j)
      BY <2>3 DEF WritesFile, Unwritten
    <3> QED BY <2>3, <3>1, <3>2 DEF WritesFile
  <2> QED BY <1>6, <2>1, <2>2, <2>3 DEF ChangesAttributes
<1> QED BY <1>1, <1>2, <1>4, <1>5, <1>6 DEF Effect

\* What a write leaves of the inode: its kind and counters, with the content
\* in the store and the size that belongs to it if it did before.
LEMMA WrittenNode ==
  ASSUME HandlesResolve, NEW i, Written(i)
  PROVE  /\ nodes'[i].kind = "File" /\ nodes[i].kind = "File"
         /\ nodes'[i].open = nodes[i].open /\ nodes'[i].hardlinks = nodes[i].hardlinks
         /\ nodes'[i].hash \in Seq(Byte) \cap files'
         /\ nodes[i].size = Len(ContentOf(nodes[i])) => nodes'[i].size = Len(nodes'[i].hash)
<1>1. PICK offset \in 0..MaxFileLen, data \in Data : WritesFile(i, offset, data)
  BY DEF Written
<1> DEFINE old     == ContentOf(nodes[i])
           content == CursorWrite(old, offset, data)
<1>2. nodes[i] \in NodeAttributes /\ offset \in Nat /\ data \in Seq(Byte) /\ Len(data) \in Nat
  BY DataType, BoundsAssumption DEF HandlesResolve, Written
<1>3. old \in Seq(Byte) /\ Len(old) \in Nat
  BY <1>2 DEF ContentOf, NodeAttributes
<1>4. /\ content \in Seq(Byte)
      /\ Len(content) = IF Len(old) > offset + Len(data) THEN Len(old) ELSE offset + Len(data)
  BY <1>2, <1>3, CursorWriteLands DEF Tree!Written
<1>5. /\ nodes' = [nodes EXCEPT ![i].size = GrownSize(nodes[i], offset, data), ![i].hash = content]
      /\ content \in files'
      /\ nodes[i].kind = "File" /\ i \in DOMAIN nodes
  BY <1>1 DEF WritesFile, Written
<1> HIDE DEF old, content
<1>6. /\ nodes'[i].kind = nodes[i].kind
      /\ nodes'[i].open = nodes[i].open /\ nodes'[i].hardlinks = nodes[i].hardlinks
      /\ nodes'[i].hash = content /\ nodes'[i].size = GrownSize(nodes[i], offset, data)
  BY <1>2, <1>5 DEF NodeAttributes
<1>7. nodes[i].size = Len(old) => GrownSize(nodes[i], offset, data) = Len(content)
  BY <1>2, <1>3, <1>4 DEF GrownSize
<1> QED BY <1>4, <1>5, <1>6, <1>7 DEF old
\* The entries of a mount after a checkout: those of the tree, and those of
\* the directories it leaves.
LEMMA CheckoutEntries ==
  ASSUME NEW t \in TreeRecords, IsTree(t), InsertRoot(t)
  PROVE  \A d \in DOMAIN directories' : \A n \in DOMAIN directories'[d] \ Dots :
           \/ d \in DOMAIN directories /\ directories'[d] = directories[d]
           \/ \E c \in 1..Len(t) : directories'[d][n] = Entry(next_inode + c, t[c].kind)
<1> SUFFICES ASSUME NEW d \in DOMAIN directories', NEW n \in DOMAIN directories'[d] \ Dots
             PROVE  \/ d \in DOMAIN directories /\ directories'[d] = directories[d]
                    \/ \E c \in 1..Len(t) : directories'[d][n] = Entry(next_inode + c, t[c].kind)
  OBVIOUS
<1> DEFINE new == TreeDirectories(t, next_inode)
<1>1. directories' = Overlay(new, directories)
  BY DEF InsertRoot
<1>2. CASE d \in DOMAIN new
  <2>1. PICK k : new[d] = TreeContent(t, next_inode, k)
    BY <1>2 DEF TreeDirectories
  <2>2. directories'[d] = TreeContent(t, next_inode, k)
    BY <1>1, <1>2, <2>1 DEF Overlay
  <2>3. n # "."
    BY DEF Dots
  <2>4. /\ directories'[d][n] = TreeEntry(t, next_inode, k, n)
        /\ \E c \in DOMAIN t : t[c].parent = k /\ t[c].name = n
    BY <2>2, <2>3 DEF TreeContent
  <2>5. DOMAIN t = 1..Len(t)
    BY DEF TreeRecords
  <2> QED BY <2>4, <2>5 DEF TreeEntry
<1>3. CASE d \notin DOMAIN new
  BY <1>1, <1>3 DEF Overlay
<1> QED BY <1>2, <1>3

\* No step gives a link to an inode that has none: what left the tree does not
\* come back.
LEMMA NoNewLinks ==
  ASSUME Numbered, EntriesResolve, UniqueLinks, Effect, NEW i \in DOMAIN nodes, Linked(i)'
  PROVE  Linked(i)
<1> PICK d \in DOMAIN directories' : \E n \in DOMAIN directories'[d] \ Dots :
      directories'[d][n].inode = i
  BY DEF Linked
<1> PICK n \in DOMAIN directories'[d] \ Dots : directories'[d][n].inode = i
  OBVIOUS
<1>0. ASSUME d \in DOMAIN directories, directories'[d] = directories[d] PROVE Linked(i)
  BY <1>0 DEF Linked
<1>1. CASE UNCHANGED directories
  BY <1>0, <1>1
<1>2. ASSUME NEW t, ChecksOut(t) PROVE Linked(i)
  <2>1. Numbered /\ t \in TreeRecords /\ IsTree(t) /\ InsertRoot(t)
    BY <1>2 DEF ChecksOut
  <2>2. ASSUME NEW c \in 1..Len(t), directories'[d][n] = Entry(next_inode + c, t[c].kind)
        PROVE  FALSE
    <3>1. next_inode + c \notin DOMAIN nodes
      BY <2>1, CheckoutNodes
    <3> QED BY <2>2, <3>1 DEF Entry
  <2> QED BY <1>0, <2>1, <2>2, CheckoutEntries
<1>3. CASE ChangesNames
  <2> PICK parent \in DOMAIN directories, name \in Names :
        \/ AddsDirectory(parent, name)
        \/ AddsFile(parent, name)
        \/ \E attrs : AddsSymlink(parent, name, attrs)
        \/ \E newParent \in DOMAIN directories : \E newName \in Names :
             MovesEntry(parent, name, newParent, newName)
        \/ DropsDirectory(parent, name)
    BY <1>3 DEF ChangesNames
  <2>0. next_inode \notin DOMAIN nodes
    BY DEF Numbered
  <2>1. CASE AddsDirectory(parent, name)
    BY <2>0, <2>1
       DEF AddsDirectory, WithDirectory, Link, Put, Entry, NewDirectory, Linked
  <2>2. ASSUME NEW kind, directories' = Link(directories, parent, name, Entry(next_inode, kind))
        PROVE  Linked(i)
    BY <2>0, <2>2 DEF Link, Put, Entry, Linked
  <2>3. ASSUME NEW newParent \in DOMAIN directories, NEW newName \in Names,
               MovesEntry(parent, name, newParent, newName)
        PROVE  Linked(i)
    <3> DEFINE e    == directories[parent][name]
               step == Link(Unlink(directories, parent, name), newParent, newName, e)
    <3>1. Linked(e.inode)
      BY <2>3, NamesAreNotDots DEF MovesEntry, Linked
    <3>2. /\ DOMAIN step = DOMAIN directories
          /\ \A j \in DOMAIN step : \A m \in DOMAIN step[j] :
               \/ step[j][m] = e
               \/ m \in DOMAIN directories[j] /\ step[j][m] = directories[j][m]
      BY DEF Link, Unlink, Put, Drop
    <3>3. \/ directories' = step
          \/ directories' = Link(step, e.inode, "..", Entry(newParent, "Directory"))
      BY <2>3 DEF MovesEntry, Moved
    <3> HIDE DEF e, step
    <3>4. n # ".."
      BY DEF Dots
    <3>5. d \in DOMAIN step /\ n \in DOMAIN step[d] /\ directories'[d][n] = step[d][n]
      BY <3>3, <3>4 DEF Link, Put
    <3> QED BY <3>1, <3>2, <3>5 DEF Linked
  <2>4. CASE DropsDirectory(parent, name)
    BY <2>4 DEF DropsDirectory, Unlink, Drop, Linked
  <2> QED BY <2>1, <2>2, <2>3, <2>4 DEF AddsFile, AddsSymlink
<1> QED BY <1>1, <1>2, <1>3
        DEF Effect, LeavesInodes, inodes, AddsBareNode, ChangesAttributes, OpensHandle,
            ReleasesHandle, WritesFile

-----------------------------------------------------------------------------
(* What inodes hold.                                                       *)

\* The object of every inode that has one is in the store.
ObjectsStored ==
  \A i \in DOMAIN nodes : nodes[i].hash # NoHash =>
    nodes[i].hash \in IF nodes[i].kind = "File" THEN files ELSE symlinks

\* As long as the session lasts, a symlink that is listed has its target.
SymlinksHaveTargets ==
  session # "dead" => \A i \in NonDirectories("Symlink") : nodes[i].hash # NoHash

ContentInv == SizeIsContentLength /\ ObjectsStored /\ SymlinksHaveTargets

\* Every step keeps size, object and target of every inode together.
LEMMA ContentStep ==
  ASSUME ContentInv, TreeInv, HandlesResolve, [Next]_vars
  PROVE  ContentInv'
<1>0. Numbered /\ EntriesResolve /\ UniqueLinks
  BY DEF TreeInv
<1>1. Effect /\ SessionMoves
  BY <1>0, StepEffects
<1>2. /\ files \subseteq files' /\ symlinks \subseteq symlinks'
      /\ \A i \in DOMAIN nodes' : Unwritten(i) \/ Written(i) \/ Brought(i)
  BY <1>0, <1>1, NodeOrigins
<1>3. \A i \in DOMAIN nodes : nodes[i] \in NodeAttributes
  BY DEF HandlesResolve
<1>4. ASSUME NEW i \in DOMAIN nodes'
      PROVE  /\ nodes'[i].size = IF nodes'[i].hash = NoHash THEN 0 ELSE Len(nodes'[i].hash)
             /\ nodes'[i].hash # NoHash =>
                  nodes'[i].hash \in IF nodes'[i].kind = "File" THEN files' ELSE symlinks'
  <2>1. CASE Unwritten(i)
    BY <1>2, <2>1 DEF Unwritten, ContentInv, SizeIsContentLength, ObjectsStored
  <2>2. CASE Written(i)
    <3>1. nodes[i].size = Len(ContentOf(nodes[i]))
      BY <2>2 DEF ContentInv, SizeIsContentLength, ContentOf, Written
    <3> QED BY <2>2, <3>1, WrittenNode, BytesAssumption
  <2>3. CASE Brought(i)
    BY <2>3, BytesAssumption DEF Brought, NewAttrs
  <2> QED BY <1>2, <2>1, <2>2, <2>3
<1>5. ASSUME session' # "dead", NEW i \in DOMAIN nodes', nodes'[i].kind = "Symlink", Linked(i)'
      PROVE  nodes'[i].hash # NoHash
  <2>1. session # "dead"
    BY <1>1, <1>5 DEF SessionMoves
  <2>2. CASE Unwritten(i)
    <3>1. Linked(i)
      BY <1>0, <1>1, <1>5, <2>2, NoNewLinks DEF Unwritten
    <3> QED BY <1>5, <2>1, <2>2, <3>1 DEF Unwritten, ContentInv, SymlinksHaveTargets, NonDirectories
  <2>3. CASE Written(i)
    BY <1>5, <2>3, WrittenNode
  <2>4. CASE Brought(i)
    <3>1. CASE AddsBareNode
      <4>1. i \in DOMAIN nodes /\ i # Root
        BY <1>0, <1>5, <3>1 DEF AddsBareNode, Linked, EntriesResolve, UniqueLinks
      <4> QED BY <2>4, <4>1 DEF Brought
    <3>2. CASE ~AddsBareNode
      BY <1>5, <2>4, <3>2, BytesAssumption DEF Brought, NewAttrs
    <3> QED BY <3>1, <3>2
  <2> QED BY <1>2, <2>2, <2>3, <2>4
<1> QED BY <1>4, <1>5 DEF ContentInv, SizeIsContentLength, ObjectsStored, SymlinksHaveTargets,
                          NonDirectories

\* Size, object and target stay together in every state.
LEMMA AlwaysContent == Spec => []ContentInv
<1>1. Init => ContentInv
  BY DEF Init, ContentInv, SizeIsContentLength, ObjectsStored, SymlinksHaveTargets,
         NonDirectories, EmptyMap
<1>2. ContentInv /\ TreeInv /\ HandlesResolve /\ [Next]_vars => ContentInv'
  BY ContentStep
<1> QED BY <1>1, <1>2, AlwaysTree, HandlesAlwaysResolve, PTL DEF Spec

\* The size getattr reports is the length of the content, for files of any
\* length, wherever in them the writes land.
THEOREM SizesAreContentLengths == Spec => []SizeIsContentLength
<1>1. ContentInv => SizeIsContentLength
  BY DEF ContentInv
<1> QED BY <1>1, AlwaysContent, PTL

\* Every object an inode refers to is in the store, and every symlink a running
\* session lists has one, after any sequence of requests, checkouts and panics.
THEOREM ObjectsAreAlwaysStored == Spec => []ObjectsAreStored
<1>1. ContentInv => ObjectsAreStored
  BY DEF ContentInv, ObjectsStored, SymlinksHaveTargets, ObjectsAreStored
<1> QED BY <1>1, AlwaysContent, PTL
-----------------------------------------------------------------------------
(* What inodes count: open handles.                                        *)

\* Handles are numbered in the order in which they were opened.
HandlesNumbered ==
  /\ next_file_handle \in Nat
  /\ IsFiniteSet(DOMAIN handles)
  /\ \A fh \in DOMAIN handles : fh \in Nat /\ fh < next_file_handle

HandlesOf(i) == {fh \in DOMAIN handles : handles[fh].inode = i}

\* Only open and release change how many handles an inode counts; one that is
\* new counts none.
LEMMA OpenCountsKept ==
  ASSUME TreeInv, HandlesResolve, Effect
  PROVE  \/ \E i \in DOMAIN nodes : \E mode : OpensHandle(i, mode)
         \/ \E fh \in DOMAIN handles : ReleasesHandle(fh)
         \/ /\ UNCHANGED opened
            /\ \A i \in DOMAIN nodes' : i # Root \/ Production =>
                 \/ i \in DOMAIN nodes /\ nodes'[i].open = nodes[i].open
                 \/ i \notin DOMAIN nodes /\ nodes'[i].open = 0
<1> DEFINE Kept == /\ UNCHANGED opened
                   /\ \A i \in DOMAIN nodes' : i # Root \/ Production =>
                        \/ i \in DOMAIN nodes /\ nodes'[i].open = nodes[i].open
                        \/ i \notin DOMAIN nodes /\ nodes'[i].open = 0
<1>0. /\ Numbered /\ EntriesResolve
      /\ \A i \in DOMAIN nodes : nodes[i] \in NodeAttributes
  BY DEF TreeInv, HandlesResolve
<1>1. CASE LeavesInodes
  BY <1>1 DEF LeavesInodes
<1>2. ASSUME NEW t, ChecksOut(t) PROVE Kept
  <2>1. t \in TreeRecords /\ InsertRoot(t) /\ UNCHANGED opened
    BY <1>2 DEF ChecksOut
  <2>2. Root \in DOMAIN nodes => ~Production
    BY <1>2 DEF ChecksOut, Production
  <2>3. \A kind, hash, size : NewAttrs(kind, hash, size).open = 0
    BY DEF NewAttrs
  <2>4. ASSUME NEW k \in 1..Len(t)
        PROVE  next_inode + k \notin DOMAIN nodes /\ nodes'[next_inode + k].open = 0
    <3>1. /\ next_inode + k \notin DOMAIN nodes
          /\ nodes'[next_inode + k] = IF t[k].kind = "Directory"
                                        THEN NewAttrs("Directory", NoHash, 0)
                                        ELSE NewAttrs(t[k].kind, t[k].hash, Len(t[k].hash))
      BY <1>0, <2>1, CheckoutNodes
    <3> QED BY <2>3, <3>1
  <2>5. /\ DOMAIN nodes' = DOMAIN nodes \cup {Root} \cup {next_inode + k : k \in 1..Len(t)}
        /\ \A i \in DOMAIN nodes \ {Root} : nodes'[i] = nodes[i]
    BY <1>0, <2>1, CheckoutNodes
  <2>6. nodes'[Root] = NewAttrs("Directory", NoHash, 0)
    BY <1>0, <2>1, CheckoutNodes
  <2>7. nodes'[Root].open = 0
    BY <2>3, <2>6
  <2> QED BY <2>1, <2>2, <2>4, <2>5, <2>7
<1>3. ASSUME NEW kind, NEW hash, NEW size, CreateNode(NewAttrs(kind, hash, size)),
             UNCHANGED opened
      PROVE  Kept
  <2>1. NewAttrs(kind, hash, size).open = 0
    BY DEF NewAttrs
  <2> QED BY <1>0, <1>3, <2>1, CreatedNode
<1>4. CASE ChangesNames
  <2> PICK parent \in DOMAIN directories, name \in Names :
        \/ AddsDirectory(parent, name)
        \/ AddsFile(parent, name)
        \/ \E attrs : AddsSymlink(parent, name, attrs)
        \/ \E newParent \in DOMAIN directories : \E newName \in Names :
             MovesEntry(parent, name, newParent, newName)
        \/ DropsDirectory(parent, name)
    BY <1>4 DEF ChangesNames
  <2>1. CASE AddsDirectory(parent, name)
    BY <1>3, <2>1 DEF AddsDirectory
  <2>2. CASE AddsFile(parent, name)
    BY <1>3, <2>2 DEF AddsFile
  <2>3. ASSUME NEW attrs, AddsSymlink(parent, name, attrs) PROVE Kept
    BY <1>3, <2>3 DEF AddsSymlink
  <2>4. ASSUME NEW newParent \in DOMAIN directories, NEW newName \in Names,
               MovesEntry(parent, name, newParent, newName)
        PROVE  Kept
    <3>1. UNCHANGED opened
      BY <2>4 DEF MovesEntry
    <3>2. DOMAIN nodes' = DOMAIN nodes
      BY <1>0, <2>4, MovedAttributes
    <3>3. \A i \in DOMAIN nodes : nodes'[i].open = nodes[i].open
      BY <1>0, <2>4, MovedAttributes DEF DecHardlinks, NodeAttributes
    <3> QED BY <3>1, <3>2, <3>3
  <2>5. CASE DropsDirectory(parent, name)
    BY <2>5 DEF DropsDirectory
  <2> QED BY <2>1, <2>2, <2>3, <2>4, <2>5
<1>5. CASE AddsBareNode
  BY <1>3, <1>5 DEF AddsBareNode
<1>6. ASSUME NEW i \in DOMAIN nodes, NEW offset \in 0..MaxFileLen, NEW data \in Data,
             WritesFile(i, offset, data)
      PROVE  Kept
  <2>1. Written(i)
    BY <1>6 DEF Written
  <2>2. /\ DOMAIN nodes' = DOMAIN nodes /\ UNCHANGED opened
        /\ \A j \in DOMAIN nodes : j # i => nodes'[j] = nodes[j]
    BY <1>6 DEF WritesFile
  <2> QED BY <2>1, <2>2, WrittenNode
<1> QED BY <1>1, <1>2, <1>4, <1>5, <1>6 DEF Effect, ChangesAttributes

\* Every step keeps the counts of handles.
LEMMA OpenCountsStep ==
  ASSUME OpenCountsMatch, HandlesNumbered, TreeInv, HandlesResolve, [Next]_vars
  PROVE  OpenCountsMatch' /\ HandlesNumbered'
<1>0. \A i \in DOMAIN nodes : nodes[i] \in NodeAttributes
  BY DEF HandlesResolve
<1>1. Effect
  BY StepEffects DEF TreeInv
<1>2. \A i : IsFiniteSet(HandlesOf(i)) /\ Cardinality(HandlesOf(i)) \in Nat
  <2>1. ASSUME NEW i PROVE IsFiniteSet(HandlesOf(i))
    <3>1. HandlesOf(i) \subseteq DOMAIN handles /\ IsFiniteSet(DOMAIN handles)
      BY DEF HandlesOf, HandlesNumbered
    <3> QED BY <3>1, FS_Subset
  <2> QED BY <2>1, FS_CardinalityType
<1>3. \A i \in DOMAIN nodes : i # Root \/ Production => nodes[i].open = Cardinality(HandlesOf(i))
  BY DEF OpenCountsMatch, HandlesOf
<1>4. ASSUME UNCHANGED opened,
             \A i \in DOMAIN nodes' : i # Root \/ Production =>
               \/ i \in DOMAIN nodes /\ nodes'[i].open = nodes[i].open
               \/ i \notin DOMAIN nodes /\ nodes'[i].open = 0
      PROVE  OpenCountsMatch' /\ HandlesNumbered'
  <2>1. HandlesNumbered' /\ \A i : HandlesOf(i)' = HandlesOf(i)
    BY <1>4 DEF HandlesNumbered, HandlesOf, opened
  <2>2. ASSUME NEW i, i \notin DOMAIN nodes PROVE Cardinality(HandlesOf(i)) = 0
    <3>1. HandlesOf(i) = {}
      BY <2>2 DEF HandlesOf, HandlesResolve
    <3> QED BY <3>1, FS_EmptySet
  <2>3. \A i \in DOMAIN nodes' : i # Root \/ Production =>
          nodes'[i].open = Cardinality(HandlesOf(i)')
    BY <1>3, <1>4, <2>1, <2>2
  <2> QED BY <2>1, <2>3 DEF OpenCountsMatch, HandlesOf
<1>5. ASSUME NEW i \in DOMAIN nodes, NEW mode, OpensHandle(i, mode)
      PROVE  OpenCountsMatch' /\ HandlesNumbered'
  <2> DEFINE fh == next_file_handle
  <2>1. fh \notin DOMAIN handles /\ fh \in Nat
    BY DEF HandlesNumbered
  <2>2. /\ DOMAIN handles' = DOMAIN handles \cup {fh}
        /\ handles'[fh].inode = i
        /\ \A h \in DOMAIN handles : handles'[h] = handles[h]
        /\ next_file_handle' = fh + 1
    BY <1>5, <2>1 DEF OpensHandle, Put, Handle
  <2>3. HandlesNumbered'
    <3>1. IsFiniteSet(DOMAIN handles')
      BY <2>2, FS_AddElement DEF HandlesNumbered
    <3> QED BY <2>2, <3>1 DEF HandlesNumbered
  <2>4. ASSUME NEW j \in DOMAIN nodes', j # Root \/ Production
        PROVE  nodes'[j].open = Cardinality(HandlesOf(j)')
    <3>0. j \in DOMAIN nodes
      BY <1>5 DEF OpensHandle
    <3>1. CASE j = i
      <4>1. HandlesOf(j)' = HandlesOf(j) \cup {fh} /\ fh \notin HandlesOf(j)
        BY <2>1, <2>2, <3>1 DEF HandlesOf
      <4>2. Cardinality(HandlesOf(j)') = Cardinality(HandlesOf(j)) + 1
        BY <1>2, <4>1, FS_AddElement
      <4>3. nodes'[j].open = nodes[j].open + 1
        BY <1>0, <1>5, <3>0, <3>1 DEF OpensHandle, IncHandle, NodeAttributes
      <4> QED BY <1>3, <2>4, <3>0, <4>2, <4>3
    <3>2. CASE j # i
      <4>1. HandlesOf(j)' = HandlesOf(j)
        BY <2>1, <2>2, <3>2 DEF HandlesOf
      <4>2. nodes'[j] = nodes[j]
        BY <1>5, <3>2, <3>0 DEF OpensHandle
      <4> QED BY <1>3, <2>4, <3>0, <4>1, <4>2
    <3> QED BY <3>1, <3>2
  <2> QED BY <2>3, <2>4 DEF OpenCountsMatch, HandlesOf
<1>6. ASSUME NEW fh \in DOMAIN handles, ReleasesHandle(fh)
      PROVE  OpenCountsMatch' /\ HandlesNumbered'
  <2> DEFINE i == handles[fh].inode
  <2>2. /\ DOMAIN handles' = DOMAIN handles \ {fh}
        /\ \A h \in DOMAIN handles' : handles'[h] = handles[h]
        /\ next_file_handle' = next_file_handle
    BY <1>6 DEF ReleasesHandle, Drop
  <2>3. HandlesNumbered'
    <3>1. IsFiniteSet(DOMAIN handles')
      BY <2>2, FS_RemoveElement DEF HandlesNumbered
    <3> QED BY <2>2, <3>1 DEF HandlesNumbered
  <2>4. ASSUME NEW j \in DOMAIN nodes', j # Root \/ Production
        PROVE  nodes'[j].open = Cardinality(HandlesOf(j)')
    <3>0. j \in DOMAIN nodes
      BY <1>6 DEF ReleasesHandle
    <3>1. CASE j = i
      <4>1. HandlesOf(j)' = HandlesOf(j) \ {fh} /\ fh \in HandlesOf(j)
        BY <2>2, <3>1 DEF HandlesOf
      <4>2. Cardinality(HandlesOf(j)') = Cardinality(HandlesOf(j)) - 1 /\ Cardinality(HandlesOf(j)') \in Nat
        BY <1>2, <4>1, FS_RemoveElement, FS_CardinalityType
      <4>3. nodes[j].open # 0
        BY <1>2, <1>3, <2>4, <3>0, <4>2
      <4>4. nodes'[j].open = nodes[j].open - 1
        BY <1>0, <1>6, <3>0, <3>1, <4>3 DEF ReleasesHandle, DecHandle, NodeAttributes
      <4> QED BY <1>3, <2>4, <3>0, <4>2, <4>4
    <3>2. CASE j # i
      <4>1. HandlesOf(j)' = HandlesOf(j)
        BY <2>2, <3>2 DEF HandlesOf
      <4>2. nodes'[j] = nodes[j]
        BY <1>6, <3>2, <3>0 DEF ReleasesHandle
      <4> QED BY <1>3, <2>4, <3>0, <4>1, <4>2
    <3> QED BY <3>1, <3>2
  <2> QED BY <2>3, <2>4 DEF OpenCountsMatch, HandlesOf
<1> QED BY <1>1, <1>4, <1>5, <1>6, OpenCountsKept

\* The reference count of an inode is always the number of handles open on it,
\* for any number of inodes and of handles.
THEOREM OpenCountsAlwaysMatch == Spec => []OpenCountsMatch
<1>1. Init => OpenCountsMatch /\ HandlesNumbered
  BY FS_EmptySet DEF Init, OpenCountsMatch, HandlesNumbered, EmptyMap
<1>2. OpenCountsMatch /\ HandlesNumbered /\ TreeInv /\ HandlesResolve /\ [Next]_vars
        => OpenCountsMatch' /\ HandlesNumbered'
  BY OpenCountsStep
<1> QED BY <1>1, <1>2, AlwaysTree, HandlesAlwaysResolve, PTL DEF Spec
-----------------------------------------------------------------------------
(* What a step may never do.                                               *)

\* No step loses an object or an inode, or turns an inode into one of another
\* kind, across renames, checkouts and panics.
THEOREM NothingIsEverForgotten == Spec => NothingIsForgotten
<1>1. TreeInv /\ HandlesResolve /\ [Next]_vars =>
        /\ files \subseteq files' /\ symlinks \subseteq symlinks'
        /\ DOMAIN nodes \subseteq DOMAIN nodes'
        /\ \A i \in DOMAIN nodes \ {Root} : nodes'[i].kind = nodes[i].kind
  <2> SUFFICES ASSUME TreeInv, HandlesResolve, [Next]_vars
               PROVE  /\ files \subseteq files' /\ symlinks \subseteq symlinks'
                      /\ DOMAIN nodes \subseteq DOMAIN nodes'
                      /\ \A i \in DOMAIN nodes \ {Root} : nodes'[i].kind = nodes[i].kind
    OBVIOUS
  <2>1. Numbered /\ EntriesResolve /\ Effect
    BY StepEffects DEF TreeInv
  <2>2. ASSUME NEW i \in DOMAIN nodes \ {Root} PROVE nodes'[i].kind = nodes[i].kind
    <3>1. Unwritten(i) \/ Written(i)
      BY <2>1, NodeOrigins DEF Brought
    <3> QED BY <3>1, WrittenNode DEF Unwritten
  <2> QED BY <2>1, <2>2, NodeOrigins
<1> QED BY <1>1, AlwaysTree, HandlesAlwaysResolve, PTL DEF Spec, NothingIsForgotten

\* What RefusedRequestsChangeNothing asks of the inodes.
Refuses ==
  /\ UNCHANGED <<directories, store, opened>>
  /\ \A i \in DOMAIN nodes : nodes'[i] = nodes[i]

\* A handler that answers an error and goes on serving has changed nothing
\* that an entry or a handle leads to.
LEMMA RefusalStep ==
  ASSUME Numbered, [Next]_vars, session' = "running", reply' # reply,
         reply'.res \notin {"ok", "data"}
  PROVE  Refuses
<1>0. ASSUME UNCHANGED <<inodes, store, opened>> PROVE Refuses
  BY <1>0 DEF Refuses, inodes
<1>f. ASSUME NEW res, Fail(res) PROVE Refuses
  BY <1>0, <1>f DEF Fail
<1>a. ~Answer("ok") /\ ~Panic
  BY DEF Answer, Panic
<1>3. ASSUME NEW parent, NEW name, Mkdir(parent, name) PROVE Refuses
  BY <1>f, <1>a, <1>3 DEF Mkdir
<1>4. ASSUME NEW parent, NEW name, NEW fileType, Mknod(parent, name, fileType) PROVE Refuses
  BY <1>f, <1>a, <1>4 DEF Mknod
<1>5. ASSUME NEW parent, NEW name, NEW target, Symlink(parent, name, target) PROVE Refuses
  <2>1. name \in DOMAIN directories[parent]
    BY <1>a, <1>5 DEF Symlink, InsertLink, SymlinkPanics
  <2>2. PICK attrs : CreateNode(attrs)
    BY <1>5 DEF Symlink
  <2>3. UNCHANGED <<directories, store, opened>>
    BY <1>5, <2>1 DEF Symlink, InsertLink, store
  <2> QED BY <2>2, <2>3, CreatedNode DEF Refuses
<1>6. ASSUME NEW parent, NEW name, NEW newParent, NEW newName, NEW exchange,
             Rename(parent, name, newParent, newName, exchange)
      PROVE  Refuses
  BY <1>f, <1>a, <1>6 DEF Rename, TargetIsTodo
<1>7. ASSUME NEW i, NEW mode, Open(i, mode) PROVE Refuses
  BY <1>f, <1>a, <1>7 DEF Open
<1>8. ASSUME NEW i, Setattr(i) \/ Readlink(i) PROVE Refuses
  BY <1>0, <1>a, <1>8 DEF Setattr, Readlink
<1>9. ASSUME NEW fh, NEW offset, NEW size, Read(fh, offset, size) PROVE Refuses
  BY <1>f, <1>0, <1>a, <1>9 DEF Read, PanicHoldingFiles
<1>10. ASSUME NEW fh, NEW offset, NEW data, Write(fh, offset, data) PROVE Refuses
  BY <1>f, <1>a, <1>10 DEF Write, PanicHoldingFiles
<1>11. ASSUME NEW fh, Release(fh) PROVE Refuses
  BY <1>a, <1>11 DEF Release
<1>12. ~UNCHANGED vars /\ ~InitSession /\ ~OtherThreads /\ ~Unimplemented
  BY <1>a DEF vars, InitSession, OtherThreads, StoreObjects, SetRootTree, StrayPanic, Unimplemented
<1> QED
  BY <1>3, <1>4, <1>5, <1>6, <1>7, <1>8, <1>9, <1>10, <1>11, <1>12
     DEF Next, NamespaceRequest, InodeRequest, HandleRequest

\* A request that is refused changes no directory, no content of what is
\* listed and no handle.
THEOREM RefusedRequestsNeverChange == Spec => RefusedRequestsChangeNothing
<1>1. TreeInv /\ [Next]_vars =>
        (session' = "running" /\ reply' # reply /\ reply'.res \notin {"ok", "data"} =>
           /\ UNCHANGED <<directories, store, opened>>
           /\ \A i \in DOMAIN nodes : nodes'[i] = nodes[i])
  BY RefusalStep DEF TreeInv, Refuses
<1> QED BY <1>1, AlwaysTree, PTL DEF Spec, RefusedRequestsChangeNothing
-----------------------------------------------------------------------------
(* The links of a mount in production, where nothing is checked out: the   *)
(* counts of links, and the directories that leave the tree.               *)

\* What an entry under a new name does to the directories.
LEMMA AddedEntries ==
  ASSUME Numbered, EntriesResolve, NEW parent \in DOMAIN directories, NEW name \in Names,
         name \notin DOMAIN directories[parent], NEW kind, NEW new, new = next_inode,
         \/ directories' = Link(directories, parent, name, Entry(new, kind))
         \/ /\ kind = "Directory"
            /\ directories' = WithDirectory(directories, parent, name, new)
  PROVE  /\ DOMAIN directories \subseteq DOMAIN directories'
         /\ DOMAIN directories' \subseteq DOMAIN directories \cup {new}
         /\ \A d \in DOMAIN directories :
              /\ DOMAIN directories'[d] =
                   DOMAIN directories[d] \cup (IF d = parent THEN {name} ELSE {})
              /\ \A n \in DOMAIN directories[d] : directories'[d][n] = directories[d][n]
         /\ directories'[parent][name] = Entry(new, kind)
         /\ new \notin DOMAIN directories
         /\ new \in DOMAIN directories' => DOMAIN directories'[new] = Dots
<1>0. new \notin DOMAIN directories /\ parent # new
  BY DEF Numbered, EntriesResolve
<1>1. CASE directories' = Link(directories, parent, name, Entry(new, kind))
  BY <1>0, <1>1 DEF Link, Put
<1>2. CASE kind = "Directory" /\ directories' = WithDirectory(directories, parent, name, new)
  <2> DEFINE e    == Entry(new, kind)
             step == Link(directories, parent, name, e)
  <2>1. /\ DOMAIN step = DOMAIN directories
        /\ \A d \in DOMAIN directories :
             /\ DOMAIN step[d] = DOMAIN directories[d] \cup (IF d = parent THEN {name} ELSE {})
             /\ \A n \in DOMAIN directories[d] : step[d][n] = directories[d][n]
        /\ step[parent][name] = e
    BY DEF Link, Put
  <2>2. directories' = Put(step, new, NewDirectory(new, parent))
    BY <1>2 DEF WithDirectory
  <2> HIDE DEF step
  <2>3. /\ DOMAIN directories' = DOMAIN directories \cup {new}
        /\ directories'[new] = NewDirectory(new, parent)
        /\ \A d \in DOMAIN directories : directories'[d] = step[d]
    BY <1>0, <2>1, <2>2 DEF Put
  <2>4. DOMAIN NewDirectory(new, parent) = Dots
    BY DEF NewDirectory
  <2> HIDE DEF e
  <2>5. e = Entry(new, kind)
    BY DEF e
  <2> QED BY <1>0, <2>1, <2>3, <2>4, <2>5
<1> QED BY <1>1, <1>2

\* An entry that enters a directory under a new name is a link, and takes none
\* away.
LEMMA AddedLinks ==
  ASSUME Numbered, EntriesResolve, NEW parent \in DOMAIN directories, NEW name \in Names,
         name \notin DOMAIN directories[parent], NEW kind, NEW new, new = next_inode,
         \/ directories' = Link(directories, parent, name, Entry(new, kind))
         \/ /\ kind = "Directory"
            /\ directories' = WithDirectory(directories, parent, name, new)
  PROVE  Linked(new)' /\ \A i : Linked(i) => Linked(i)'
<1>0. name \notin Dots
  BY NamesAreNotDots
<1>1. /\ DOMAIN directories \subseteq DOMAIN directories'
      /\ \A d \in DOMAIN directories :
           /\ DOMAIN directories'[d] =
                DOMAIN directories[d] \cup (IF d = parent THEN {name} ELSE {})
           /\ \A n \in DOMAIN directories[d] : directories'[d][n] = directories[d][n]
      /\ directories'[parent][name] = Entry(new, kind)
  BY AddedEntries
<1>2. Linked(new)'
  <2>1. /\ parent \in DOMAIN directories' /\ name \in DOMAIN directories'[parent] \ Dots
        /\ directories'[parent][name].inode = new
    BY <1>0, <1>1 DEF Entry
  <2> QED BY <2>1 DEF Linked
<1>3. ASSUME NEW i, Linked(i) PROVE Linked(i)'
  <2>1. PICK d \in DOMAIN directories : \E n \in DOMAIN directories[d] \ Dots :
          directories[d][n].inode = i
    BY <1>3 DEF Linked
  <2>2. PICK n \in DOMAIN directories[d] \ Dots : directories[d][n].inode = i
    BY <2>1
  <2>3. d \in DOMAIN directories' /\ n \in DOMAIN directories'[d] \ Dots /\ directories'[d][n].inode = i
    BY <1>1, <2>2
  <2> QED BY <2>3 DEF Linked
<1> QED BY <1>2, <1>3

\* What a rename does to the entries that are listed.
LEMMA MovedListing ==
  ASSUME TreeInv, NEW parent \in DOMAIN directories, NEW name \in Names,
         NEW newParent \in DOMAIN directories, NEW newName \in Names,
         MovesEntry(parent, name, newParent, newName)
  PROVE  /\ DOMAIN directories' = DOMAIN directories
         /\ directories'[newParent][newName] = directories[parent][name]
         /\ \A d \in DOMAIN directories :
              DOMAIN directories'[d] \ Dots =
                ((DOMAIN directories[d] \ Dots) \ (IF d = parent THEN {name} ELSE {}))
                  \cup (IF d = newParent THEN {newName} ELSE {})
         /\ \A d \in DOMAIN directories : \A n \in DOMAIN directories[d] \ Dots :
              ~(d = parent /\ n = name) /\ ~(d = newParent /\ n = newName)
                => directories'[d][n] = directories[d][n]
<1> DEFINE e == directories[parent][name]
<1>1. /\ name \in DOMAIN directories[parent] \ Dots /\ newName \notin Dots
      /\ EntriesResolve
      /\ directories' = Moved(directories, parent, name, newParent, newName)
  BY NamesAreNotDots DEF MovesEntry, TreeInv
<1>2. e.kind = "Directory" => e.inode \in DOMAIN directories
  BY <1>1 DEF EntriesResolve
<1>3. ".." \in Dots
  BY DEF Dots
<1>4. e = directories[parent][name] /\ name \in DOMAIN directories[parent]
  BY <1>1
<1> HIDE DEF e
<1>5. /\ DOMAIN directories' = DOMAIN directories
      /\ directories'[newParent][newName] = e
      /\ \A d \in DOMAIN directories :
            DOMAIN directories'[d] = ((DOMAIN directories[d] \ (IF d = parent THEN {name} ELSE {}))
                                       \cup (IF d = newParent THEN {newName} ELSE {}))
                                       \cup (IF d = e.inode /\ e.kind = "Directory" THEN {".."} ELSE {})
      /\ \A d \in DOMAIN directories : \A n \in DOMAIN directories[d] :
            ~(d = parent /\ n = name) /\ ~(d = newParent /\ n = newName)
              /\ ~(d = e.inode /\ n = ".." /\ e.kind = "Directory")
              => directories'[d][n] = directories[d][n]
  BY <1>1, <1>2, <1>4, MovedEntries
<1>6. ASSUME NEW d \in DOMAIN directories
      PROVE  DOMAIN directories'[d] \ Dots =
               ((DOMAIN directories[d] \ Dots) \ (IF d = parent THEN {name} ELSE {}))
                 \cup (IF d = newParent THEN {newName} ELSE {})
  BY <1>1, <1>3, <1>5
<1> QED BY <1>3, <1>4, <1>5, <1>6

\* A rename takes the link of what it replaces, and no other.
LEMMA MovedLinks ==
  ASSUME TreeInv, NEW parent \in DOMAIN directories, NEW name \in Names,
         NEW newParent \in DOMAIN directories, NEW newName \in Names,
         MovesEntry(parent, name, newParent, newName), NEW i
  PROVE  Linked(i)' <=> /\ Linked(i)
                        /\ ~(/\ newName \in DOMAIN directories[newParent]
                             /\ directories[newParent][newName].inode = i)
<1> DEFINE e       == directories[parent][name]
           target  == directories[newParent][newName]
           present == newName \in DOMAIN directories[newParent]
<1>1. /\ name \in DOMAIN directories[parent] \ Dots /\ newName \notin Dots
      /\ UniqueLinks
      /\ present => target.inode # e.inode
  BY NamesAreNotDots DEF MovesEntry, VfsAllowsRename, TreeInv
<1>2. /\ DOMAIN directories' = DOMAIN directories
      /\ directories'[newParent][newName] = e
      /\ \A d \in DOMAIN directories :
           DOMAIN directories'[d] \ Dots =
             ((DOMAIN directories[d] \ Dots) \ (IF d = parent THEN {name} ELSE {}))
               \cup (IF d = newParent THEN {newName} ELSE {})
      /\ \A d \in DOMAIN directories : \A n \in DOMAIN directories[d] \ Dots :
           ~(d = parent /\ n = name) /\ ~(d = newParent /\ n = newName)
             => directories'[d][n] = directories[d][n]
  BY MovedListing
<1> HIDE DEF e, target, present
<1>3. ASSUME Linked(i), ~(present /\ target.inode = i) PROVE Linked(i)'
  <2>1. PICK d \in DOMAIN directories : \E n \in DOMAIN directories[d] \ Dots :
          directories[d][n].inode = i
    BY <1>3 DEF Linked
  <2>2. PICK n \in DOMAIN directories[d] \ Dots : directories[d][n].inode = i
    BY <2>1
  <2>3. CASE d = parent /\ n = name
    <3>1. /\ newParent \in DOMAIN directories' /\ newName \in DOMAIN directories'[newParent] \ Dots
          /\ directories'[newParent][newName].inode = i
      BY <1>1, <1>2, <2>2, <2>3 DEF e
    <3> QED BY <3>1 DEF Linked
  <2>4. CASE ~(d = parent /\ n = name)
    <3>1. ~(d = newParent /\ n = newName)
      BY <1>3, <2>2 DEF present, target
    <3>2. n \in DOMAIN directories'[d] \ Dots /\ directories'[d][n] = directories[d][n]
      BY <1>2, <2>4, <3>1
    <3> QED BY <1>2, <2>2, <3>2 DEF Linked
  <2> QED BY <2>3, <2>4
<1>4. ASSUME Linked(i)' PROVE Linked(i) /\ ~(present /\ target.inode = i)
  <2>1. PICK d \in DOMAIN directories' : \E n \in DOMAIN directories'[d] \ Dots :
          directories'[d][n].inode = i
    BY <1>4 DEF Linked
  <2>2. PICK n \in DOMAIN directories'[d] \ Dots : directories'[d][n].inode = i
    BY <2>1
  <2>3. CASE d = newParent /\ n = newName
    BY <1>1, <1>2, <2>2, <2>3 DEF Linked, e
  <2>4. CASE ~(d = newParent /\ n = newName)
    <3>1. /\ d \in DOMAIN directories /\ n \in DOMAIN directories[d] \ Dots
          /\ directories[d][n].inode = i
      BY <1>2, <2>2, <2>4
    <3>2. present => target.inode # i
      BY <1>1, <2>4, <3>1 DEF UniqueLinks, present, target
    <3> QED BY <3>1, <3>2 DEF Linked
  <2> QED BY <2>3, <2>4
<1> QED BY <1>3, <1>4 DEF present, target

\* The rename that panics takes the link of the empty directory, and no other.
LEMMA DroppedLinks ==
  ASSUME TreeInv, NEW parent \in DOMAIN directories, NEW name \in Names,
         DropsDirectory(parent, name), NEW i
  PROVE  Linked(i)' <=> Linked(i) /\ directories[parent][name].inode # i
<1>1. /\ DOMAIN directories' = DOMAIN directories
      /\ \A d \in DOMAIN directories : d # parent => directories'[d] = directories[d]
      /\ DOMAIN directories'[parent] = DOMAIN directories[parent] \ {name}
      /\ \A n \in DOMAIN directories'[parent] : directories'[parent][n] = directories[parent][n]
      /\ name \in DOMAIN directories[parent] \ Dots
  BY NamesAreNotDots DEF DropsDirectory, Unlink, Drop
<1>2. \A d \in DOMAIN directories : \A n :
        /\ n \in DOMAIN directories'[d] \ Dots
             <=> n \in DOMAIN directories[d] \ Dots /\ ~(d = parent /\ n = name)
        /\ n \in DOMAIN directories'[d] => directories'[d][n] = directories[d][n]
  BY <1>1
<1>3. \A d \in DOMAIN directories : \A n \in DOMAIN directories[d] \ Dots :
        directories[d][n].inode = directories[parent][name].inode => d = parent /\ n = name
  BY <1>1 DEF TreeInv, UniqueLinks
<1> QED BY <1>1, <1>2, <1>3 DEF Linked
\* A directory that rename takes for empty holds its two dots and nothing else.
LEMMA NotOccupied ==
  ASSUME NEW entries, IsFiniteSet(DOMAIN entries), Dots \subseteq DOMAIN entries,
         ~IsOccupied(entries)
  PROVE  DOMAIN entries = Dots
<1>1. IsFiniteSet(Dots) /\ Cardinality(Dots) = 2
  <2>1. Dots = {"."} \cup {".."} /\ ".." \notin {"."}
    BY DEF Dots
  <2>2. IsFiniteSet({"."}) /\ Cardinality({"."}) = 1
    BY FS_Singleton
  <2> QED BY <2>1, <2>2, FS_AddElement
<1>2. Cardinality(Dots) <= Cardinality(DOMAIN entries) /\ Cardinality(DOMAIN entries) \in Nat
  BY FS_Subset, FS_CardinalityType
<1>3. Cardinality(DOMAIN entries) = Cardinality(Dots)
  BY <1>1, <1>2 DEF IsOccupied
<1> QED BY <1>3, FS_Subset

\* The inode table of a mount in production is empty before init.
MountStartsEmpty == session = "mounted" => DOMAIN nodes = {}

\* Every directory but the root has its two dots and finitely many entries, is
\* listed as long as the session lasts, and when it is not has no other entry.
DirsStayListed ==
  /\ \A d \in DOMAIN directories : IsFiniteSet(DOMAIN directories[d])
  /\ \A d \in DOMAIN directories \ {Root} :
       /\ Dots \subseteq DOMAIN directories[d]
       /\ session # "dead" => Linked(d)
       /\ ~Linked(d) => DOMAIN directories[d] \subseteq Dots

\* A node whose links are counted, and the count.
Counted(attrs) == /\ attrs.kind # "Directory"
                  /\ ~(attrs.kind = "Symlink" /\ attrs.hash = NoHash)
LinksCounted ==
  \A i \in DOMAIN nodes : Counted(nodes[i]) =>
    nodes[i].hardlinks = IF Linked(i) THEN 1 ELSE 0

ProductionInv == MountStartsEmpty /\ DirsStayListed /\ LinksCounted

\* The first step, init, which makes the root.
LEMMA InitialCheckout ==
  ASSUME Production, TreeInv, ProductionInv, NEW t, ChecksOut(t)
  PROVE  /\ DOMAIN directories' = {Root} /\ DOMAIN directories'[Root] = {"."}
         /\ DOMAIN nodes' = {Root} /\ nodes'[Root].kind = "Directory"
<1>1. /\ t = << >> /\ session = "mounted" /\ DOMAIN nodes = {} /\ DOMAIN directories = {}
      /\ InsertRoot(t) /\ t \in TreeRecords /\ Numbered
  BY DEF ChecksOut, Production, ProductionInv, MountStartsEmpty, TreeInv, EntriesResolve
<1>2. DOMAIN t = {} /\ Len(t) = 0
  BY <1>1
<1>3. DOMAIN nodes' = {Root} /\ nodes'[Root].kind = "Directory"
  <2>1. DOMAIN nodes' = DOMAIN nodes \cup {Root} \cup {next_inode + k : k \in 1..Len(t)}
    BY <1>1, CheckoutNodes
  <2>2. nodes'[Root] = NewAttrs("Directory", NoHash, 0)
    BY <1>1, CheckoutNodes
  <2> QED BY <1>1, <1>2, <2>1, <2>2 DEF NewAttrs
<1>4. /\ DOMAIN TreeDirectories(t, next_inode) = {Root}
      /\ TreeDirectories(t, next_inode)[Root] = TreeContent(t, next_inode, 0)
  BY <1>2 DEF TreeDirectories, TreeInode
<1>5. DOMAIN TreeContent(t, next_inode, 0) = {"."}
  BY <1>2 DEF TreeContent
<1> QED BY <1>1, <1>3, <1>4, <1>5 DEF InsertRoot, Overlay

\* Steps that leave the directories alone.
LEMMA ProductionKept ==
  ASSUME ProductionInv, SessionMoves, UNCHANGED directories,
         DOMAIN nodes' = DOMAIN nodes,
         \A i \in DOMAIN nodes : /\ Counted(nodes'[i]) => Counted(nodes[i])
                                 /\ nodes'[i].hardlinks = nodes[i].hardlinks
  PROVE  ProductionInv'
<1>1. \A i : Linked(i)' <=> Linked(i)
  BY DEF Linked
<1>2. MountStartsEmpty'
  BY DEF ProductionInv, MountStartsEmpty, SessionMoves
<1>3. DirsStayListed'
  BY <1>1 DEF ProductionInv, DirsStayListed, SessionMoves
<1>4. LinksCounted'
  BY <1>1 DEF ProductionInv, LinksCounted
<1> QED BY <1>2, <1>3, <1>4 DEF ProductionInv
\* mkdir, mknod and symlink: the new node has its one link.
LEMMA ProductionAdds ==
  ASSUME ProductionInv, TreeInv, Effect, SessionMoves, session = "running",
         NEW new, new = next_inode,
         NEW parent \in DOMAIN directories, NEW name \in Names,
         name \notin DOMAIN directories[parent],
         NEW kind, NEW hash, NEW size, CreateNode(NewAttrs(kind, hash, size)),
         \/ kind # "Directory" /\ directories' = Link(directories, parent, name, Entry(new, kind))
         \/ kind = "Directory" /\ directories' = WithDirectory(directories, parent, name, new)
  PROVE  ProductionInv'
<1> DEFINE attrs == NewAttrs(kind, hash, size)
<1>1. /\ Numbered /\ EntriesResolve /\ UniqueLinks /\ name \notin Dots
      /\ new \notin DOMAIN directories
  BY NamesAreNotDots DEF TreeInv, Numbered, EntriesResolve
<1>2. /\ DOMAIN nodes' = DOMAIN nodes \cup {new} /\ new \notin DOMAIN nodes
      /\ nodes'[new] = attrs
      /\ \A i \in DOMAIN nodes : nodes'[i] = nodes[i]
  BY <1>1, CreatedNode
<1>3. attrs.kind # "Directory" => attrs.hardlinks = 1
  BY DEF NewAttrs
<1> HIDE DEF attrs
<1>4. Linked(new)' /\ \A i : Linked(i) => Linked(i)'
  BY <1>1, AddedLinks
<1>5. \A i \in DOMAIN nodes : Linked(i)' <=> Linked(i)
  BY <1>1, <1>4, NoNewLinks
<1>6. /\ DOMAIN directories' \subseteq DOMAIN directories \cup {new}
      /\ \A d \in DOMAIN directories :
           DOMAIN directories'[d] = DOMAIN directories[d] \cup (IF d = parent THEN {name} ELSE {})
      /\ new \in DOMAIN directories' => DOMAIN directories'[new] = Dots
  BY <1>1, AddedEntries
<1>7. MountStartsEmpty'
  BY DEF SessionMoves, MountStartsEmpty
<1>8. DirsStayListed'
  <2>1. ASSUME NEW d \in DOMAIN directories'
        PROVE  IsFiniteSet(DOMAIN directories'[d])
    <3>1. CASE d \in DOMAIN directories
      <4>1. IsFiniteSet(DOMAIN directories[d])
        BY <3>1 DEF ProductionInv, DirsStayListed
      <4>2. IsFiniteSet(DOMAIN directories[d] \cup {name})
        BY <4>1, FS_AddElement
      <4> QED BY <1>6, <3>1, <4>1, <4>2
    <3>2. CASE d = new
      <4>1. Dots = {"."} \cup {".."} /\ IsFiniteSet({"."})
        BY FS_Singleton DEF Dots
      <4>2. IsFiniteSet(Dots)
        BY <4>1, FS_AddElement
      <4> QED BY <1>6, <3>2, <4>2
    <3> QED BY <1>6, <3>1, <3>2
  <2>2. ASSUME NEW d \in DOMAIN directories' \ {Root}
        PROVE  Dots \subseteq DOMAIN directories'[d] /\ Linked(d)'
    <3>1. CASE d \in DOMAIN directories
      <4>1. Dots \subseteq DOMAIN directories[d] /\ Linked(d)
        BY <3>1 DEF ProductionInv, DirsStayListed
      <4> QED BY <1>4, <1>6, <3>1, <4>1
    <3>2. CASE d = new
      BY <1>4, <1>6, <3>2
    <3> QED BY <1>6, <3>1, <3>2
  <2> QED BY <2>1, <2>2 DEF DirsStayListed
<1>9. LinksCounted'
  <2>1. ASSUME NEW i \in DOMAIN nodes', Counted(nodes'[i])
        PROVE  nodes'[i].hardlinks = IF Linked(i)' THEN 1 ELSE 0
    <3>1. CASE i \in DOMAIN nodes
      <4>1. nodes[i].hardlinks = IF Linked(i) THEN 1 ELSE 0
        BY <1>2, <2>1, <3>1 DEF ProductionInv, LinksCounted
      <4> QED BY <1>2, <1>5, <3>1, <4>1
    <3>2. CASE i = new
      BY <1>2, <1>3, <1>4, <2>1, <3>2 DEF Counted
    <3> QED BY <1>2, <3>1, <3>2
  <2> QED BY <2>1 DEF LinksCounted
<1> QED BY <1>7, <1>8, <1>9 DEF ProductionInv

\* A symlink that insert_link refused: its node is not counted.
LEMMA ProductionBare ==
  ASSUME ProductionInv, TreeInv, SessionMoves, AddsBareNode
  PROVE  ProductionInv'
<1> DEFINE new == next_inode
<1>1. /\ DOMAIN nodes' = DOMAIN nodes \cup {new} /\ new \notin DOMAIN nodes
      /\ nodes'[new] = NewAttrs("Symlink", NoHash, 0)
      /\ \A i \in DOMAIN nodes : nodes'[i] = nodes[i]
      /\ UNCHANGED <<directories, session>> /\ session = "running"
  BY CreatedNode DEF AddsBareNode, TreeInv
<1>2. ~Counted(nodes'[new])
  BY <1>1 DEF Counted, NewAttrs
<1>3. \A i : Linked(i)' <=> Linked(i)
  BY <1>1 DEF Linked
<1>4. MountStartsEmpty' /\ DirsStayListed'
  BY <1>1, <1>3 DEF ProductionInv, MountStartsEmpty, DirsStayListed
<1>5. LinksCounted'
  BY <1>1, <1>2, <1>3 DEF ProductionInv, LinksCounted
<1> QED BY <1>4, <1>5 DEF ProductionInv

\* rename: the node that is replaced loses its link and its count.
LEMMA ProductionMoves ==
  ASSUME ProductionInv, TreeInv, HandlesResolve,
         NEW parent \in DOMAIN directories, NEW name \in Names,
         NEW newParent \in DOMAIN directories, NEW newName \in Names,
         MovesEntry(parent, name, newParent, newName)
  PROVE  ProductionInv'
<1> DEFINE e       == directories[parent][name]
           target  == directories[newParent][newName]
           present == newName \in DOMAIN directories[newParent]
<1>1. /\ name \in DOMAIN directories[parent] \ Dots /\ newName \notin Dots
      /\ EntriesResolve /\ UniqueLinks /\ session = "running" /\ session' = "running"
      /\ present => target.kind # "Directory"
      /\ directories' = Moved(directories, parent, name, newParent, newName)
  BY NamesAreNotDots DEF MovesEntry, TreeInv
<1>2. e.kind = "Directory" => e.inode \in DOMAIN directories
  BY <1>1 DEF EntriesResolve
<1>3. \A i : Linked(i)' <=> Linked(i) /\ ~(present /\ target.inode = i)
  BY MovedLinks
<1>4. /\ DOMAIN nodes' = DOMAIN nodes
      /\ \A i \in DOMAIN nodes :
           nodes'[i] = IF present /\ target.inode = i THEN DecHardlinks(nodes[i]) ELSE nodes[i]
  BY <1>1, MovedAttributes
<1>5. present => /\ Linked(target.inode) /\ target.inode \in DOMAIN nodes
                 /\ nodes[target.inode].kind # "Directory"
  BY <1>1 DEF Linked, EntriesResolve
<1>6. /\ DOMAIN directories' = DOMAIN directories
      /\ \A d \in DOMAIN directories :
              DOMAIN directories'[d] = ((DOMAIN directories[d] \ (IF d = parent THEN {name} ELSE {}))
                                         \cup (IF d = newParent THEN {newName} ELSE {}))
                                         \cup (IF d = e.inode /\ e.kind = "Directory" THEN {".."} ELSE {})
  <2> HIDE DEF e
  <2>1. e = directories[parent][name] /\ name \in DOMAIN directories[parent]
    BY <1>1 DEF e
  <2> QED BY <1>1, <1>2, <2>1, MovedEntries
<1> HIDE DEF e, target, present
<1>7. MountStartsEmpty'
  BY <1>1 DEF MountStartsEmpty
<1>8. DirsStayListed'
  <2>1. ASSUME NEW d \in DOMAIN directories PROVE IsFiniteSet(DOMAIN directories'[d])
    <3>1. IsFiniteSet(DOMAIN directories[d])
      BY DEF ProductionInv, DirsStayListed
    <3>2. IsFiniteSet((DOMAIN directories[d] \cup {newName}) \cup {".."})
      BY <3>1, FS_AddElement
    <3>3. DOMAIN directories'[d] \subseteq (DOMAIN directories[d] \cup {newName}) \cup {".."}
      BY <1>6
    <3> QED BY <3>2, <3>3, FS_Subset
  <2>2. ASSUME NEW d \in DOMAIN directories \ {Root}
        PROVE  Dots \subseteq DOMAIN directories'[d] /\ Linked(d)'
    <3>1. Dots \subseteq DOMAIN directories[d] /\ Linked(d)
      BY <1>1 DEF ProductionInv, DirsStayListed
    <3>2. ~(present /\ target.inode = d)
      BY <1>1, <1>5 DEF EntriesResolve
    <3>3. DOMAIN directories[d] \ {name} \subseteq DOMAIN directories'[d]
      BY <1>6
    <3> QED BY <1>1, <1>3, <3>1, <3>2, <3>3
  <2> QED BY <1>6, <2>1, <2>2 DEF DirsStayListed
<1>9. LinksCounted'
  <2>0. \A i \in DOMAIN nodes : nodes[i] \in NodeAttributes
    BY DEF HandlesResolve
  <2>1. ASSUME NEW i \in DOMAIN nodes, Counted(nodes'[i])
        PROVE  nodes'[i].hardlinks = IF Linked(i)' THEN 1 ELSE 0
    <3>1. CASE present /\ target.inode = i
      <4>1. nodes'[i] = DecHardlinks(nodes[i]) /\ Linked(i) /\ ~Linked(i)'
        BY <1>3, <1>4, <1>5, <3>1
      <4>2. Counted(nodes[i]) /\ nodes'[i].hardlinks = nodes[i].hardlinks - 1
        BY <2>0, <2>1, <4>1 DEF Counted, DecHardlinks, NodeAttributes
      <4>3. nodes[i].hardlinks = 1
        BY <4>1, <4>2 DEF ProductionInv, LinksCounted
      <4> QED BY <4>1, <4>2, <4>3
    <3>2. CASE ~(present /\ target.inode = i)
      <4>1. nodes'[i] = nodes[i] /\ (Linked(i)' <=> Linked(i))
        BY <1>3, <1>4, <3>2
      <4>2. nodes[i].hardlinks = IF Linked(i) THEN 1 ELSE 0
        BY <2>1, <4>1 DEF ProductionInv, LinksCounted
      <4> QED BY <4>1, <4>2
    <3> QED BY <3>1, <3>2
  <2> QED BY <1>4, <2>1 DEF LinksCounted
<1> QED BY <1>7, <1>8, <1>9 DEF ProductionInv

\* The rename that panics: the directory that goes was empty.
LEMMA ProductionDrops ==
  ASSUME ProductionInv, TreeInv, NEW parent \in DOMAIN directories, NEW name \in Names,
         DropsDirectory(parent, name)
  PROVE  ProductionInv'
<1> DEFINE e == directories[parent][name]
<1>1. /\ name \in DOMAIN directories[parent] \ Dots /\ e.kind = "Directory"
      /\ session = "running" /\ session' = "dead"
      /\ ~IsOccupied(directories[e.inode])
      /\ directories' = Unlink(directories, parent, name) /\ UNCHANGED nodes
      /\ EntriesResolve /\ UniqueLinks
  BY NamesAreNotDots DEF DropsDirectory, TreeInv
<1>2. e.inode \in DOMAIN directories \ {Root}
  BY <1>1 DEF EntriesResolve, UniqueLinks
<1>3. \A i : Linked(i)' <=> Linked(i) /\ e.inode # i
  BY DroppedLinks
<1>4. /\ DOMAIN directories' = DOMAIN directories
      /\ \A d \in DOMAIN directories : DOMAIN directories'[d] \subseteq DOMAIN directories[d]
      /\ \A d \in DOMAIN directories : DOMAIN directories[d] \ {name} \subseteq DOMAIN directories'[d]
  BY <1>1 DEF Unlink, Drop
<1> HIDE DEF e
<1>5. DOMAIN directories[e.inode] = Dots
  <2>1. IsFiniteSet(DOMAIN directories[e.inode]) /\ Dots \subseteq DOMAIN directories[e.inode]
    BY <1>2 DEF ProductionInv, DirsStayListed
  <2> QED BY <1>1, <2>1, NotOccupied
<1>6. MountStartsEmpty'
  BY <1>1 DEF MountStartsEmpty
<1>7. DirsStayListed'
  <2>1. ASSUME NEW d \in DOMAIN directories PROVE IsFiniteSet(DOMAIN directories'[d])
    BY <1>4, FS_Subset DEF ProductionInv, DirsStayListed
  <2>2. ASSUME NEW d \in DOMAIN directories \ {Root} PROVE Dots \subseteq DOMAIN directories'[d]
    BY <1>1, <1>4 DEF ProductionInv, DirsStayListed
  <2>3. ASSUME NEW d \in DOMAIN directories \ {Root}, ~Linked(d)'
        PROVE  DOMAIN directories'[d] \subseteq Dots
    BY <1>1, <1>3, <1>4, <1>5, <2>3 DEF ProductionInv, DirsStayListed
  <2> QED BY <1>1, <1>4, <2>1, <2>2, <2>3 DEF DirsStayListed
<1>8. LinksCounted'
  <2>1. ASSUME NEW i \in DOMAIN nodes, Counted(nodes[i]) PROVE e.inode # i
    BY <1>1, <2>1 DEF EntriesResolve, Counted, e
  <2> QED BY <1>1, <1>3, <2>1 DEF ProductionInv, LinksCounted
<1> QED BY <1>6, <1>7, <1>8 DEF ProductionInv

\* Every step keeps the counts of links and the listed directories.
LEMMA ProductionStep ==
  ASSUME Production, ProductionInv, TreeInv, HandlesResolve, [Next]_vars
  PROVE  ProductionInv'
<1>0. Numbered /\ EntriesResolve /\ \A i \in DOMAIN nodes : nodes[i] \in NodeAttributes
  BY DEF TreeInv, HandlesResolve
<1>1. Effect /\ SessionMoves
  BY <1>0, StepEffects
<1>2. CASE LeavesInodes
  BY <1>1, <1>2, ProductionKept DEF LeavesInodes
<1>3. ASSUME NEW t, ChecksOut(t) PROVE ProductionInv'
  <2>1. /\ DOMAIN directories' = {Root} /\ DOMAIN directories'[Root] = {"."}
        /\ DOMAIN nodes' = {Root} /\ nodes'[Root].kind = "Directory"
    BY <1>3, InitialCheckout
  <2>2. session' = "running"
    BY <1>3 DEF ChecksOut, Production
  <2>3. IsFiniteSet({"."})
    BY FS_Singleton
  <2>4. MountStartsEmpty' /\ DirsStayListed' /\ LinksCounted'
    BY <2>1, <2>2, <2>3 DEF MountStartsEmpty, DirsStayListed, LinksCounted, Counted
  <2> QED BY <2>4 DEF ProductionInv
<1>4. ASSUME NEW parent \in DOMAIN directories, NEW name \in Names,
             AddsDirectory(parent, name)
      PROVE  ProductionInv'
  BY <1>1, <1>4, ProductionAdds DEF AddsDirectory
<1>5. ASSUME NEW parent \in DOMAIN directories, NEW name \in Names, AddsFile(parent, name)
      PROVE  ProductionInv'
  BY <1>1, <1>5, ProductionAdds DEF AddsFile
<1>6. ASSUME NEW parent \in DOMAIN directories, NEW name \in Names, NEW attrs,
             AddsSymlink(parent, name, attrs)
      PROVE  ProductionInv'
  <2>1. PICK hash, size : attrs = NewAttrs("Symlink", hash, size)
    BY <1>6 DEF AddsSymlink
  <2> QED BY <1>1, <1>6, <2>1, ProductionAdds DEF AddsSymlink
<1>7. CASE ChangesNames
  BY <1>4, <1>5, <1>6, <1>7, ProductionMoves, ProductionDrops DEF ChangesNames
<1>8. CASE AddsBareNode
  BY <1>1, <1>8, ProductionBare
<1>9. CASE ChangesAttributes
  <2>1. ASSUME NEW i \in DOMAIN nodes, NEW mode, OpensHandle(i, mode) PROVE ProductionInv'
    <3>1. /\ UNCHANGED directories /\ DOMAIN nodes' = DOMAIN nodes
          /\ \A j \in DOMAIN nodes : /\ nodes'[j].kind = nodes[j].kind
                                     /\ nodes'[j].hash = nodes[j].hash
                                     /\ nodes'[j].hardlinks = nodes[j].hardlinks
      BY <1>0, <2>1 DEF OpensHandle, IncHandle, NodeAttributes
    <3> QED BY <1>1, <3>1, ProductionKept DEF Counted
  <2>2. ASSUME NEW fh \in DOMAIN handles, ReleasesHandle(fh) PROVE ProductionInv'
    <3>1. /\ UNCHANGED directories /\ DOMAIN nodes' = DOMAIN nodes
          /\ \A j \in DOMAIN nodes : /\ nodes'[j].kind = nodes[j].kind
                                     /\ nodes'[j].hash = nodes[j].hash
                                     /\ nodes'[j].hardlinks = nodes[j].hardlinks
      BY <1>0, <2>2 DEF ReleasesHandle, DecHandle, NodeAttributes
    <3> QED BY <1>1, <3>1, ProductionKept DEF Counted
  <2>3. ASSUME NEW i \in DOMAIN nodes, NEW offset \in 0..MaxFileLen, NEW data \in Data,
               WritesFile(i, offset, data)
        PROVE  ProductionInv'
    <3>1. /\ UNCHANGED directories /\ DOMAIN nodes' = DOMAIN nodes
          /\ \A j \in DOMAIN nodes : j # i => nodes'[j] = nodes[j]
      BY <2>3 DEF WritesFile
    <3>2. /\ nodes'[i].hardlinks = nodes[i].hardlinks
          /\ nodes[i].kind = "File"
      BY <2>3, WrittenNode DEF Written
    <3>3. Counted(nodes[i])
      BY <3>2 DEF Counted
    <3> QED BY <1>1, <3>1, <3>2, <3>3, ProductionKept
  <2> QED BY <1>9, <2>1, <2>2, <2>3 DEF ChangesAttributes
<1> QED BY <1>1, <1>2, <1>3, <1>7, <1>8, <1>9 DEF Effect

\* What holds of the links of a mount in production in every state.
LEMMA AlwaysProduction == Spec => [](Production => ProductionInv)
<1>1. Init => ProductionInv
  BY DEF Init, ProductionInv, MountStartsEmpty, DirsStayListed, LinksCounted, EmptyMap
<1>2. (Production => ProductionInv) /\ TreeInv /\ HandlesResolve /\ [Next]_vars
        => (Production => ProductionInv)'
  BY ProductionStep DEF Production
<1> QED BY <1>1, <1>2, AlwaysTree, HandlesAlwaysResolve, PTL DEF Spec

\* st_nlink of a file or symlink is the number of entries that refer to it, for
\* any number of inodes and after any sequence of renames and panics.
THEOREM LinkCountsAlwaysMatch == Spec => []LinkCountsMatch
<1>1. (Production => ProductionInv) => LinkCountsMatch
  BY DEF ProductionInv, LinksCounted, Counted, LinkCountsMatch
<1> QED BY <1>1, AlwaysProduction, PTL

\* No directory ever leaves the tree with something in it.
THEOREM DetachedDirsStayEmpty == Spec => []DetachedDirsAreEmpty
<1>1. (Production => ProductionInv) => DetachedDirsAreEmpty
  BY DEF ProductionInv, DirsStayListed, DetachedDirsAreEmpty
<1> QED BY <1>1, AlwaysProduction, PTL

-----------------------------------------------------------------------------
(***************************************************************************)
(* A mount in production implements WorkingTree: every step of the         *)
(* handlers makes, moves, writes or loses at most the one entry it names   *)
(* in the tree its user sees, or leaves that tree alone.                   *)
(***************************************************************************)

(* The tree a user sees, as a function of the tables.                      *)

Seen(i, nds) == [inode |-> i, kind |-> nds[i].kind, content |-> ContentOf(nds[i])]

View(dirs, nds) ==
  [p \in {p \in {<<d, n>> : d \in DOMAIN dirs, n \in Names} : p[2] \in DOMAIN dirs[p[1]]} |->
     Seen(dirs[p[1]][p[2]].inode, nds)]

\* The names of a directory that its user sees.
NamesIn(dirs, d) == DOMAIN dirs[d] \cap Names

\* UserTree as a function of the two tables, in a state and in the next.
LEMMA UserTreeIsView == UserTree = View(directories, nodes) /\ UserTree' = View(directories', nodes')
  BY DEF UserTree, Listed, View, Seen

\* The places of the view, and what is at each.
LEMMA ViewOf ==
  ASSUME NEW dirs, NEW nds
  PROVE  /\ \A p : p \in DOMAIN View(dirs, nds)
                     <=> \E d \in DOMAIN dirs : \E n \in NamesIn(dirs, d) : p = <<d, n>>
         /\ \A d \in DOMAIN dirs : \A n \in NamesIn(dirs, d) :
              View(dirs, nds)[<<d, n>>] = Seen(dirs[d][n].inode, nds)
<1> DEFINE all    == {<<d, n>> : d \in DOMAIN dirs, n \in Names}
           places == {p \in all : p[2] \in DOMAIN dirs[p[1]]}
<1>1. \A p : p \in places <=> \E d \in DOMAIN dirs : \E n \in NamesIn(dirs, d) : p = <<d, n>>
  <2>1. ASSUME NEW p \in places
        PROVE  \E d \in DOMAIN dirs : \E n \in NamesIn(dirs, d) : p = <<d, n>>
    <3>1. PICK d \in DOMAIN dirs, n \in Names : p = <<d, n>>
      BY <2>1
    <3>2. p[1] = d /\ p[2] = n
      BY <3>1
    <3> QED BY <2>1, <3>1, <3>2 DEF NamesIn
  <2>2. ASSUME NEW d \in DOMAIN dirs, NEW n \in NamesIn(dirs, d) PROVE <<d, n>> \in places
    BY DEF NamesIn
  <2> QED BY <2>1, <2>2
<1>2. View(dirs, nds) = [p \in places |-> Seen(dirs[p[1]][p[2]].inode, nds)]
  BY DEF View
<1> HIDE DEF places
<1>3. DOMAIN View(dirs, nds) = places
  BY <1>2
<1>4. ASSUME NEW d \in DOMAIN dirs, NEW n \in NamesIn(dirs, d)
      PROVE  View(dirs, nds)[<<d, n>>] = Seen(dirs[d][n].inode, nds)
  <2>1. <<d, n>> \in places
    BY <1>1
  <2> QED BY <1>2, <2>1
<1> QED BY <1>1, <1>3, <1>4

\* Two maps that agree are the same; View, Put, Drop and EXCEPT make maps.
IsMap(m) == m = [x \in DOMAIN m |-> m[x]]

\* Maps with the same keys and values are equal.
LEMMA SameMaps ==
  ASSUME NEW m1, NEW m2, IsMap(m1), IsMap(m2), DOMAIN m1 = DOMAIN m2,
         \A x \in DOMAIN m1 : m1[x] = m2[x]
  PROVE  m1 = m2
  BY DEF IsMap

\* What the mapping and the operations on maps build are functions.
LEMMA MapsAreMaps ==
  /\ \A dirs, nds : IsMap(View(dirs, nds))
  /\ \A m, k, v : IsMap(Put(m, k, v)) /\ IsMap(Drop(m, k))
<1>1. ASSUME NEW dirs, NEW nds PROVE IsMap(View(dirs, nds))
  BY DEF IsMap, View
<1>2. ASSUME NEW m, NEW k, NEW v PROVE IsMap(Put(m, k, v)) /\ IsMap(Drop(m, k))
  BY DEF IsMap, Put, Drop
<1> QED BY <1>1, <1>2
-----------------------------------------------------------------------------
(* Steps that do not change the tree its user sees.                        *)

\* The step is one of WorkingTree, or a stutter of it.
Implements ==
  Tree!Next \/ (UserTree' = UserTree /\ ((session' # "dead") <=> (session # "dead")))

\* The session may end with the tree as it is.
LEMMA TreeKept ==
  ASSUME SessionMoves, UserTree' = UserTree
  PROVE  Implements
  BY DEF SessionMoves, Implements, Tree!Next, Tree!Stop

\* What is listed keeps its kind and its content.
LEMMA ViewKept ==
  ASSUME EntriesResolve, UNCHANGED directories,
         \A i \in DOMAIN nodes : Seen(i, nodes') = Seen(i, nodes)
  PROVE  UserTree' = UserTree
<1>1. DOMAIN View(directories, nodes') = DOMAIN View(directories, nodes)
  BY ViewOf
<1>2. ASSUME NEW p \in DOMAIN View(directories, nodes)
      PROVE  View(directories, nodes')[p] = View(directories, nodes)[p]
  <2>1. PICK d \in DOMAIN directories : \E n \in NamesIn(directories, d) : p = <<d, n>>
    BY ViewOf
  <2>2. PICK n \in NamesIn(directories, d) : p = <<d, n>>
    BY <2>1
  <2>3. directories[d][n].inode \in DOMAIN nodes
    BY <2>2 DEF NamesIn, EntriesResolve
  <2> QED BY <2>2, <2>3, ViewOf
<1> QED BY <1>1, <1>2, SameMaps, MapsAreMaps, UserTreeIsView

\* What a user sees of an inode whose kind and object stay.
LEMMA SeenKept ==
  ASSUME NEW i, NEW nds1, NEW nds2, nds1[i].kind = nds2[i].kind, nds1[i].hash = nds2[i].hash
  PROVE  Seen(i, nds1) = Seen(i, nds2)
  BY DEF Seen, ContentOf

\* init: the root is empty, and so was the mount.
LEMMA CheckoutImplements ==
  ASSUME Production, TreeInv, ProductionInv, SessionMoves, NEW t, ChecksOut(t)
  PROVE  Implements
<1>1. DOMAIN directories = {} 
  BY NamesAreNotDots DEF ChecksOut, Production, ProductionInv, MountStartsEmpty, TreeInv, EntriesResolve
<1>2. DOMAIN directories' = {Root} /\ DOMAIN directories'[Root] = {"."}
  BY InitialCheckout
<1>3. NamesIn(directories', Root) = {}
  BY <1>1, <1>2 , NamesAreNotDots DEF NamesIn, Dots
<1>4. DOMAIN View(directories, nodes) = {} /\ DOMAIN View(directories', nodes') = {}
  BY <1>1, <1>2, <1>3, ViewOf
<1>5. UserTree' = UserTree
  BY <1>4, SameMaps, MapsAreMaps, UserTreeIsView
<1> QED BY <1>5, TreeKept

-----------------------------------------------------------------------------
(* Steps of WorkingTree.                                                   *)

\* Entries lead to nodes, and places of the view are listed.
LEMMA PlacesResolve ==
  ASSUME TreeInv
  PROVE  /\ \A d \in DOMAIN directories : \A n \in NamesIn(directories, d) :
              /\ n \notin Dots
              /\ directories[d][n].inode \in DOMAIN nodes
              /\ nodes[directories[d][n].inode].kind = directories[d][n].kind
         /\ \A d \in DOMAIN directories : NamesIn(directories, d) = DOMAIN directories[d] \ Dots
<1>1. \A d \in DOMAIN directories : NamesIn(directories, d) = DOMAIN directories[d] \ Dots
  BY NamesAreNotDots DEF TreeInv, Numbered, NamesIn
<1> QED BY <1>1 DEF TreeInv, EntriesResolve, NamesIn

\* What a user sees at a place is what the entry there says.
LEMMA EntriesShow ==
  ASSUME TreeInv, NEW d \in DOMAIN directories, NEW n \in NamesIn(directories, d)
  PROVE  /\ <<d, n>> \in DOMAIN UserTree
         /\ UserTree[<<d, n>>] = Seen(directories[d][n].inode, nodes)
         /\ UserTree[<<d, n>>].inode = directories[d][n].inode
         /\ UserTree[<<d, n>>].kind = directories[d][n].kind
<1>1. <<d, n>> \in DOMAIN UserTree /\ UserTree[<<d, n>>] = Seen(directories[d][n].inode, nodes)
  BY ViewOf, UserTreeIsView
<1>2. nodes[directories[d][n].inode].kind = directories[d][n].kind
  BY PlacesResolve
<1> QED BY <1>1, <1>2 DEF Seen

\* mkdir, mknod and symlink are Make: what they add is new, and empty unless it
\* is a symlink.
LEMMA MakeImplements ==
  ASSUME TreeInv, SessionMoves, session = "running",
         NEW new, new = next_inode,
         NEW parent \in DOMAIN directories, NEW name \in Names,
         name \notin DOMAIN directories[parent],
         NEW kind, NEW hash, NEW size, CreateNode(NewAttrs(kind, hash, size)),
         kind # "Symlink" => hash = NoHash,
         \/ kind # "Directory" /\ directories' = Link(directories, parent, name, Entry(new, kind))
         \/ kind = "Directory" /\ directories' = WithDirectory(directories, parent, name, new)
  PROVE  Implements
<1> DEFINE p == <<parent, name>>
<1>1. /\ Numbered /\ EntriesResolve /\ Root = 1 /\ \A n \in Names : n \notin Dots
  BY NamesAreNotDots DEF TreeInv
<1>2. /\ new \notin DOMAIN nodes /\ new # Root
      /\ nodes'[new] = NewAttrs(kind, hash, size)
      /\ \A i \in DOMAIN nodes : nodes'[i] = nodes[i]
  <2>1. parent \in 1..(new - 1) /\ new \in Nat
    BY <1>1 DEF Numbered, EntriesResolve
  <2> QED BY <1>1, <2>1, CreatedNode
<1>3. /\ DOMAIN directories \subseteq DOMAIN directories'
      /\ DOMAIN directories' \subseteq DOMAIN directories \cup {new}
      /\ \A d \in DOMAIN directories :
           /\ DOMAIN directories'[d] =
                DOMAIN directories[d] \cup (IF d = parent THEN {name} ELSE {})
           /\ \A n \in DOMAIN directories[d] : directories'[d][n] = directories[d][n]
      /\ directories'[parent][name] = Entry(new, kind)
      /\ new \in DOMAIN directories' => DOMAIN directories'[new] = Dots
  BY <1>1, AddedEntries
<1>4. /\ p \notin DOMAIN UserTree /\ p \in DOMAIN UserTree'
      /\ DOMAIN UserTree' = DOMAIN UserTree \cup {p}
  <2>1. p \notin DOMAIN UserTree
    BY ViewOf, UserTreeIsView DEF NamesIn
  <2>2. ASSUME NEW q \in DOMAIN UserTree PROVE q \in DOMAIN UserTree'
    <3>1. PICK d \in DOMAIN directories : \E n \in NamesIn(directories, d) : q = <<d, n>>
      BY ViewOf, UserTreeIsView
    <3>2. PICK n \in NamesIn(directories, d) : q = <<d, n>>
      BY <3>1
    <3>3. d \in DOMAIN directories' /\ n \in NamesIn(directories', d)
      BY <1>3, <3>2 DEF NamesIn
    <3> QED BY <3>2, <3>3, ViewOf, UserTreeIsView
  <2>3. p \in DOMAIN UserTree'
    <3>1. parent \in DOMAIN directories' /\ name \in NamesIn(directories', parent)
      BY <1>3 DEF NamesIn
    <3> QED BY <3>1, ViewOf, UserTreeIsView
  <2>4. ASSUME NEW q \in DOMAIN UserTree', q # p PROVE q \in DOMAIN UserTree
    <3>1. PICK d \in DOMAIN directories' : \E n \in NamesIn(directories', d) : q = <<d, n>>
      BY ViewOf, UserTreeIsView
    <3>2. PICK n \in NamesIn(directories', d) : q = <<d, n>>
      BY <3>1
    <3>3. d \in DOMAIN directories /\ n \in NamesIn(directories, d)
      BY <1>1, <1>3, <2>4, <3>2 DEF NamesIn
    <3> QED BY <3>2, <3>3, ViewOf, UserTreeIsView
  <2> QED BY <2>1, <2>2, <2>3, <2>4
<1>5. ASSUME NEW q \in DOMAIN UserTree
      PROVE  UserTree'[q] = UserTree[q] /\ UserTree[q].inode \in DOMAIN nodes
  <2>1. PICK d \in DOMAIN directories : \E n \in NamesIn(directories, d) : q = <<d, n>>
    BY ViewOf, UserTreeIsView
  <2>2. PICK n \in NamesIn(directories, d) : q = <<d, n>>
    BY <2>1
  <2> DEFINE i == directories[d][n].inode
  <2>3. d \in DOMAIN directories' /\ n \in NamesIn(directories', d) /\ directories'[d][n].inode = i
    BY <1>3, <2>2 DEF NamesIn
  <2>4. UserTree[q] = Seen(i, nodes) /\ UserTree'[q] = Seen(i, nodes')
    BY <2>2, <2>3, ViewOf, UserTreeIsView
  <2>5. i \in DOMAIN nodes
    BY <2>2, PlacesResolve
  <2> QED BY <1>2, <2>4, <2>5, SeenKept DEF Seen
<1>6. UserTree'[p] = Seen(new, nodes')
  <2>1. parent \in DOMAIN directories' /\ name \in NamesIn(directories', parent)
    BY <1>3 DEF NamesIn
  <2> QED BY <1>3, <2>1, ViewOf, UserTreeIsView DEF Entry
<1>7. /\ UserTree'[p].inode = new /\ UserTree'[p].kind = kind
      /\ kind # "Symlink" => UserTree'[p].content = << >>
  BY <1>2, <1>6 DEF Seen, NewAttrs, ContentOf
<1>8. UserTree' = Put(UserTree, p, UserTree'[p])
  <2>1. DOMAIN Put(UserTree, p, UserTree'[p]) = DOMAIN UserTree'
    BY <1>4 DEF Put
  <2>2. \A q \in DOMAIN UserTree' : Put(UserTree, p, UserTree'[p])[q] = UserTree'[q]
    BY <1>4, <1>5 DEF Put
  <2> QED BY <2>1, <2>2, SameMaps, MapsAreMaps, UserTreeIsView
<1> HIDE DEF p
<1>9. Tree!Fresh(UserTree'[p].inode)
  BY <1>2, <1>5, <1>7 DEF Tree!Fresh
<1>10. Tree!Make
  <2>1. (session' # "dead") \in {session # "dead", FALSE}
    BY DEF SessionMoves
  <2>2. \E q \in DOMAIN UserTree' \ DOMAIN UserTree :
          /\ Tree!Fresh(UserTree'[q].inode)
          /\ UserTree'[q].kind # "Symlink" => UserTree'[q].content = << >>
          /\ UserTree' = Put(UserTree, q, UserTree'[q])
    BY <1>4, <1>7, <1>8, <1>9
  <2> QED BY <2>1, <2>2, Zenon DEF Tree!Make, Tree!Put, Put
<1> QED BY <1>10 DEF Implements, Tree!Next

\* rename is Move: the entry takes with it all a user sees of it.
LEMMA MoveImplements ==
  ASSUME TreeInv, HandlesResolve, NEW parent \in DOMAIN directories, NEW name \in Names,
         NEW newParent \in DOMAIN directories, NEW newName \in Names,
         MovesEntry(parent, name, newParent, newName)
  PROVE  Implements
<1> DEFINE p == <<parent, name>>
           q == <<newParent, newName>>
<1>1. /\ EntriesResolve /\ session = "running" /\ session' = session
      /\ name \in NamesIn(directories, parent)
      /\ newName \in DOMAIN directories[newParent] =>
           /\ directories[newParent][newName].inode # directories[parent][name].inode
           /\ directories[newParent][newName].kind # "Directory"
      /\ newName \notin Dots
  BY NamesAreNotDots DEF MovesEntry, VfsAllowsRename, TreeInv, NamesIn
<1>2. p # q
  BY <1>1 DEF NamesIn
<1>3. /\ DOMAIN directories' = DOMAIN directories
      /\ directories'[newParent][newName] = directories[parent][name]
      /\ \A d \in DOMAIN directories :
           DOMAIN directories'[d] \ Dots =
             ((DOMAIN directories[d] \ Dots) \ (IF d = parent THEN {name} ELSE {}))
               \cup (IF d = newParent THEN {newName} ELSE {})
      /\ \A d \in DOMAIN directories : \A n \in DOMAIN directories[d] \ Dots :
           ~(d = parent /\ n = name) /\ ~(d = newParent /\ n = newName)
             => directories'[d][n] = directories[d][n]
  BY MovedListing
<1>4. \A i \in DOMAIN nodes : Seen(i, nodes') = Seen(i, nodes)
  <2>1. \A i \in DOMAIN nodes : nodes[i] \in NodeAttributes
    BY DEF HandlesResolve
  <2>2. \A i \in DOMAIN nodes : nodes'[i].kind = nodes[i].kind /\ nodes'[i].hash = nodes[i].hash
    BY <1>1, <2>1, MovedAttributes DEF DecHardlinks, NodeAttributes
  <2> QED BY <2>2, SeenKept
<1>5. \A d \in DOMAIN directories :
        NamesIn(directories', d) = (NamesIn(directories, d) \ (IF d = parent THEN {name} ELSE {}))
                                     \cup (IF d = newParent THEN {newName} ELSE {})
  <2>1. \A n \in Names : n \notin Dots
    BY NamesAreNotDots
  <2>2. \A d \in DOMAIN directories : NamesIn(directories', d) = (DOMAIN directories'[d] \ Dots) \cap Names
    BY <2>1 DEF NamesIn
  <2> QED BY <1>3, <2>1, <2>2 DEF NamesIn
<1>6. p \in DOMAIN UserTree /\ q \in DOMAIN UserTree'
  BY <1>1, <1>3, <1>5, ViewOf, UserTreeIsView
<1>7. DOMAIN UserTree' = (DOMAIN UserTree \ {p}) \cup {q}
  <2>1. ASSUME NEW d, NEW n
        PROVE  <<d, n>> \in DOMAIN UserTree'
                 <=> (<<d, n>> \in DOMAIN UserTree /\ <<d, n>> # p) \/ <<d, n>> = q
    <3>1. <<d, n>> \in DOMAIN UserTree' <=> d \in DOMAIN directories /\ n \in NamesIn(directories', d)
      BY <1>3, ViewOf, UserTreeIsView
    <3>2. <<d, n>> \in DOMAIN UserTree <=> d \in DOMAIN directories /\ n \in NamesIn(directories, d)
      BY ViewOf, UserTreeIsView
    <3> QED BY <1>5, <3>1, <3>2
  <2>2. \A x \in DOMAIN UserTree \cup DOMAIN UserTree' : \E d, n : x = <<d, n>>
    BY ViewOf, UserTreeIsView
  <2> HIDE DEF p
  <2> QED BY <2>1, <2>2
<1>8. ASSUME NEW x \in DOMAIN UserTree'
      PROVE  UserTree'[x] = IF x = q THEN UserTree[p] ELSE UserTree[x]
  <2>1. PICK d \in DOMAIN directories : \E n \in NamesIn(directories', d) : x = <<d, n>>
    BY <1>3, ViewOf, UserTreeIsView
  <2>2. PICK n \in NamesIn(directories', d) : x = <<d, n>>
    BY <2>1
  <2>3. UserTree'[x] = Seen(directories'[d][n].inode, nodes')
    BY <1>3, <2>2, ViewOf, UserTreeIsView
  <2>4. UserTree[p] = Seen(directories[parent][name].inode, nodes)
    BY <1>1, ViewOf, UserTreeIsView
  <2>5. CASE x = q
    <3>1. directories[parent][name].inode \in DOMAIN nodes
      BY <1>1, PlacesResolve
    <3> QED BY <1>3, <1>4, <2>2, <2>3, <2>4, <2>5, <3>1
  <2>6. CASE x # q
    <3>1. n \in NamesIn(directories, d) /\ ~(d = newParent /\ n = newName)
      BY <1>5, <2>2, <2>6
    <3>2. ~(d = parent /\ n = name)
      BY <1>5, <2>2, <3>1
    <3>3. n \in DOMAIN directories[d] \ Dots /\ directories[d][n].inode \in DOMAIN nodes
      BY <3>1, PlacesResolve
    <3>4. directories'[d][n] = directories[d][n]
      BY <1>3, <3>1, <3>2, <3>3
    <3>5. UserTree[x] = Seen(directories[d][n].inode, nodes)
      BY <2>2, <3>1, ViewOf, UserTreeIsView
    <3> QED BY <1>4, <2>3, <2>6, <3>3, <3>4, <3>5
  <2> QED BY <2>5, <2>6
<1>9. q \in DOMAIN UserTree => UserTree[q].kind # "Directory"
  <2>1. ASSUME q \in DOMAIN UserTree PROVE newName \in NamesIn(directories, newParent)
    BY <2>1, ViewOf, UserTreeIsView
  <2>2. ASSUME newName \in NamesIn(directories, newParent)
        PROVE  UserTree[q].kind = directories[newParent][newName].kind
    BY <2>2, EntriesShow
  <2> QED BY <1>1, <2>1, <2>2 DEF NamesIn
<1> HIDE DEF p, q
<1>10. UserTree' = Put(Drop(UserTree, p), q, UserTree[p])
  <2> DEFINE m == Put(Drop(UserTree, p), q, UserTree[p])
  <2>1. DOMAIN m = DOMAIN UserTree'
    BY <1>7 DEF Put, Drop
  <2>2. \A x \in DOMAIN UserTree' : m[x] = UserTree'[x]
    BY <1>7, <1>8 DEF Put, Drop
  <2>3. IsMap(m) /\ IsMap(UserTree')
    BY MapsAreMaps, UserTreeIsView
  <2> HIDE DEF m
  <2>4. UserTree' = m
    BY <2>1, <2>2, <2>3, SameMaps
  <2> QED BY <2>4 DEF m
<1>11. Tree!Move
  <2>1. (session' # "dead") = (session # "dead")
    BY <1>1
  <2>2. \E x \in DOMAIN UserTree : \E y \in DOMAIN UserTree' :
          /\ x # y
          /\ y \in DOMAIN UserTree => UserTree[y].kind # "Directory"
          /\ UserTree' = Put(Drop(UserTree, x), y, UserTree[x])
    BY <1>2, <1>6, <1>9, <1>10
  <2> QED BY <2>1, <2>2, Zenon DEF Tree!Move, Tree!Put, Tree!Drop, Put, Drop
<1> QED BY <1>1, <1>11 DEF Implements, Tree!Next

\* The rename that panics is Stop: the directory whose entry goes was empty.
LEMMA DropImplements ==
  ASSUME TreeInv, ProductionInv, NEW parent \in DOMAIN directories, NEW name \in Names,
         DropsDirectory(parent, name)
  PROVE  Implements
<1> DEFINE p == <<parent, name>>
           e == directories[parent][name]
<1>1. /\ session = "running" /\ session' = "dead"
      /\ EntriesResolve /\ UniqueLinks /\ name \notin Dots
      /\ name \in NamesIn(directories, parent) /\ e.kind = "Directory"
      /\ ~IsOccupied(directories[e.inode])
      /\ directories' = Unlink(directories, parent, name) /\ nodes' = nodes
  BY NamesAreNotDots DEF DropsDirectory, TreeInv, NamesIn
<1>2. NamesIn(directories, e.inode) = {}
  <2>1. e.inode \in DOMAIN directories \ {Root}
    BY <1>1 DEF EntriesResolve, UniqueLinks, NamesIn
  <2>2. IsFiniteSet(DOMAIN directories[e.inode]) /\ Dots \subseteq DOMAIN directories[e.inode]
    BY <2>1 DEF ProductionInv, DirsStayListed
  <2>3. DOMAIN directories[e.inode] = Dots
    BY <1>1, <2>2, NotOccupied
  <2> QED BY <2>3, NamesAreNotDots DEF NamesIn
<1>3. /\ DOMAIN directories' = DOMAIN directories
      /\ \A d \in DOMAIN directories :
           /\ NamesIn(directories', d) = NamesIn(directories, d) \ (IF d = parent THEN {name} ELSE {})
           /\ \A n \in NamesIn(directories', d) : directories'[d][n] = directories[d][n]
  BY <1>1 DEF Unlink, Drop, NamesIn
<1>4. /\ p \in DOMAIN UserTree
      /\ UserTree[p].kind = "Directory" /\ UserTree[p].inode = e.inode
  BY <1>1, EntriesShow
<1>5. DOMAIN UserTree' = DOMAIN UserTree \ {p}
  <2>1. ASSUME NEW d, NEW n
        PROVE  <<d, n>> \in DOMAIN UserTree' <=> <<d, n>> \in DOMAIN UserTree /\ <<d, n>> # p
    <3>1. <<d, n>> \in DOMAIN UserTree' <=> d \in DOMAIN directories /\ n \in NamesIn(directories', d)
      BY <1>3, ViewOf, UserTreeIsView
    <3>2. <<d, n>> \in DOMAIN UserTree <=> d \in DOMAIN directories /\ n \in NamesIn(directories, d)
      BY ViewOf, UserTreeIsView
    <3> QED BY <1>3, <3>1, <3>2
  <2>2. \A x \in DOMAIN UserTree \cup DOMAIN UserTree' : \E d, n : x = <<d, n>>
    BY ViewOf, UserTreeIsView
  <2> HIDE DEF p
  <2>3. ASSUME NEW x PROVE x \in DOMAIN UserTree' <=> x \in DOMAIN UserTree /\ x # p
    <3>1. CASE \E d, n : x = <<d, n>>
      BY <2>1, <3>1
    <3>2. CASE ~ \E d, n : x = <<d, n>>
      BY <2>2, <3>2
    <3> QED BY <3>1, <3>2
  <2> QED BY <2>3
<1>6. ASSUME NEW x \in DOMAIN UserTree' PROVE UserTree'[x] = UserTree[x]
  <2>1. PICK d \in DOMAIN directories : \E n \in NamesIn(directories', d) : x = <<d, n>>
    BY <1>3, ViewOf, UserTreeIsView
  <2>2. PICK n \in NamesIn(directories', d) : x = <<d, n>>
    BY <2>1
  <2>3. UserTree'[x] = Seen(directories'[d][n].inode, nodes)
    BY <1>1, <1>3, <2>2, ViewOf, UserTreeIsView
  <2>4. n \in NamesIn(directories, d)
    BY <1>3, <2>2
  <2>5. UserTree[x] = Seen(directories[d][n].inode, nodes)
    BY <2>2, <2>4, ViewOf, UserTreeIsView
  <2> QED BY <1>3, <2>2, <2>3, <2>5
<1>7. Tree!Children(e.inode) = {}
  <2>1. ASSUME NEW x \in DOMAIN UserTree, x[1] = e.inode PROVE FALSE
    <3>1. PICK d \in DOMAIN directories : \E n \in NamesIn(directories, d) : x = <<d, n>>
      BY ViewOf, UserTreeIsView
    <3>2. PICK n \in NamesIn(directories, d) : x = <<d, n>>
      BY <3>1
    <3>3. d = e.inode
      BY <2>1, <3>2
    <3> QED BY <1>2, <3>2, <3>3
  <2> QED BY <2>1 DEF Tree!Children
<1> HIDE DEF p, e
<1>8. UserTree' = Drop(UserTree, p)
  <2>1. DOMAIN Drop(UserTree, p) = DOMAIN UserTree'
    BY <1>5 DEF Drop
  <2>2. \A x \in DOMAIN UserTree' : Drop(UserTree, p)[x] = UserTree'[x]
    BY <1>5, <1>6 DEF Drop
  <2> QED BY <2>1, <2>2, SameMaps, MapsAreMaps, UserTreeIsView
<1>9. Tree!Stop
  <2>1. session # "dead" /\ ~((session # "dead")')
    BY <1>1
  <2>2. \E x \in DOMAIN UserTree : /\ UserTree[x].kind = "Directory"
                                   /\ Tree!Children(UserTree[x].inode) = {}
                                   /\ UserTree' = Drop(UserTree, x)
    BY <1>4, <1>7, <1>8
  <2> QED BY <2>1, <2>2, Zenon DEF Tree!Stop, Tree!Drop, Drop
<1> QED BY <1>1, <1>9 DEF Implements, Tree!Next

\* What a write leaves in a file contains the data it wrote.
LEMMA WrittenData ==
  ASSUME NEW old \in Seq(Byte), NEW offset \in Nat, NEW data \in Seq(Byte), NEW new \in Seq(Byte),
         Len(data) > 0, Tree!Written(old, offset, data, new)
  PROVE  \E o \in 0..Len(new) : \E n \in 1..Len(new) :
           /\ o + n <= Len(new)
           /\ Tree!Written(old, o, SubSeq(new, o + 1, o + n), new)
<1> DEFINE part == SubSeq(new, offset + 1, offset + Len(data))
<1>1. /\ Len(old) \in Nat /\ Len(data) \in Nat /\ Len(new) \in Nat
      /\ offset + Len(data) <= Len(new)
  BY DEF Tree!Written
<1>2. /\ part \in Seq(Byte) /\ Len(part) = Len(data)
      /\ \A k \in 1..Len(data) : part[k] = new[offset + k]
  <2> DEFINE first == offset + 1
             last  == offset + Len(data)
  <2>1. first \in Int /\ last \in Int /\ first <= last /\ last - first + 1 = Len(data)
    BY <1>1
  <2>2. \A k \in first..last : new[k] \in Byte
    BY <1>1
  <2>3. \A k \in 1..Len(data) : first + k - 1 = offset + k
    BY <1>1
  <2> HIDE DEF first, last
  <2>4. /\ SubSeq(new, first, last) \in Seq(Byte)
        /\ Len(SubSeq(new, first, last)) = Len(data)
        /\ \A k \in 1..Len(data) : SubSeq(new, first, last)[k] = new[first + k - 1]
    BY <2>1, <2>2, SubSeqProperties
  <2> QED BY <2>3, <2>4 DEF first, last
<1>3. ASSUME NEW k \in 1..Len(data) PROVE new[offset + k] = data[k]
  <2>1. offset + k \in 1..Len(new) /\ offset + k > offset /\ offset + k <= offset + Len(data)
    BY <1>1
  <2>2. (offset + k) - offset = k
    BY <1>1
  <2> QED BY <2>1, <2>2 DEF Tree!Written
<1> HIDE DEF part
<1>4. part = data
  BY <1>2, <1>3, SeqEqual
<1>5. offset \in 0..Len(new) /\ Len(data) \in 1..Len(new)
  BY <1>1
<1>6. Tree!Written(old, offset, SubSeq(new, offset + 1, offset + Len(data)), new)
  BY <1>4 DEF part
<1> QED BY <1>1, <1>5, <1>6

\* write is Write on the one place of its file; a file whose entry was replaced
\* is written without anybody seeing it.
LEMMA WriteImplements ==
  ASSUME TreeInv, HandlesResolve, SessionMoves,
         NEW i \in DOMAIN nodes, NEW offset \in 0..MaxFileLen, NEW data \in Data,
         WritesFile(i, offset, data)
  PROVE  Implements
<1> DEFINE old == ContentOf(nodes[i])
           new == CursorWrite(old, offset, data)
<1>1. /\ UniqueLinks /\ session = "running" /\ session' = session
      /\ UNCHANGED directories /\ nodes[i].kind = "File"
      /\ nodes' = [nodes EXCEPT ![i].size = GrownSize(nodes[i], offset, data), ![i].hash = new]
  BY DEF WritesFile, TreeInv
<1>2. /\ nodes[i] \in NodeAttributes
      /\ offset \in Nat /\ data \in Seq(Byte) /\ Len(data) > 0
  BY DataType, BoundsAssumption DEF HandlesResolve
<1>3. old \in Seq(Byte)
  BY <1>2 DEF ContentOf, NodeAttributes
<1>4. new \in Seq(Byte) /\ Tree!Written(old, offset, data, new)
  BY <1>2, <1>3, CursorWriteLands
<1> HIDE DEF old, new
<1>5. /\ nodes'[i].kind = "File" /\ nodes'[i].hash = new
      /\ \A j \in DOMAIN nodes : j # i => nodes'[j] = nodes[j]
  BY <1>1, <1>2 DEF NodeAttributes
<1>6. ContentOf(nodes'[i]) = new
  BY <1>4, <1>5, BytesAssumption DEF ContentOf
<1>7. DOMAIN UserTree' = DOMAIN UserTree
  <2>1. UserTree' = View(directories, nodes')
    BY <1>1, UserTreeIsView
  <2>2. DOMAIN View(directories, nodes') = DOMAIN View(directories, nodes)
    BY ViewOf
  <2> QED BY <2>1, <2>2, UserTreeIsView
<1>8. ASSUME NEW d \in DOMAIN directories, NEW n \in NamesIn(directories, d)
      PROVE  /\ UserTree[<<d, n>>].inode = directories[d][n].inode
             /\ UserTree'[<<d, n>>] = Seen(directories[d][n].inode, nodes')
             /\ directories[d][n].inode # i => UserTree'[<<d, n>>] = UserTree[<<d, n>>]
             /\ directories[d][n].inode = i =>
                  /\ UserTree[<<d, n>>].kind = "File" /\ UserTree[<<d, n>>].content = old
                  /\ UserTree'[<<d, n>>] = [UserTree[<<d, n>>] EXCEPT !.content = new]
  <2> DEFINE j == directories[d][n].inode
  <2>1. j \in DOMAIN nodes /\ UserTree[<<d, n>>] = Seen(j, nodes) /\ UserTree[<<d, n>>].inode = j
    BY EntriesShow, PlacesResolve
  <2>2. UserTree'[<<d, n>>] = Seen(j, nodes')
    BY <1>1, ViewOf, UserTreeIsView
  <2>3. j # i => Seen(j, nodes') = Seen(j, nodes)
    BY <1>5, <2>1, SeenKept
  <2>4. Seen(i, nodes) = [inode |-> i, kind |-> "File", content |-> old]
    BY <1>1 DEF Seen, old
  <2>5. Seen(i, nodes') = [inode |-> i, kind |-> "File", content |-> new]
    BY <1>5, <1>6 DEF Seen
  <2> HIDE DEF j
  <2>6. j = i => /\ UserTree[<<d, n>>].kind = "File" /\ UserTree[<<d, n>>].content = old
                 /\ UserTree'[<<d, n>>] = [UserTree[<<d, n>>] EXCEPT !.content = new]
    BY <2>1, <2>2, <2>4, <2>5
  <2> QED BY <2>1, <2>2, <2>3, <2>6 DEF j
<1>9. CASE \E d \in DOMAIN directories : \E n \in NamesIn(directories, d) : directories[d][n].inode = i
  <2>1. PICK d \in DOMAIN directories : \E n \in NamesIn(directories, d) : directories[d][n].inode = i
    BY <1>9
  <2>2. PICK n \in NamesIn(directories, d) : directories[d][n].inode = i
    BY <2>1
  <2> DEFINE p == <<d, n>>
  <2>3. /\ p \in DOMAIN UserTree /\ UserTree[p].kind = "File" /\ UserTree[p].content = old
        /\ UserTree'[p] = [UserTree[p] EXCEPT !.content = new]
    BY <1>8, <2>2, EntriesShow
  <2>4. ASSUME NEW x \in DOMAIN UserTree, x # p PROVE UserTree'[x] = UserTree[x]
    <3>1. PICK d2 \in DOMAIN directories : \E n2 \in NamesIn(directories, d2) : x = <<d2, n2>>
      BY ViewOf, UserTreeIsView
    <3>2. PICK n2 \in NamesIn(directories, d2) : x = <<d2, n2>>
      BY <3>1
    <3>3. directories[d2][n2].inode # i
      BY <1>1, <2>2, <2>4, <3>2, PlacesResolve DEF UniqueLinks
    <3> QED BY <1>8, <3>2, <3>3
  <2>5. UserTree[p] = Seen(i, nodes) /\ UserTree'[p] = Seen(i, nodes')
    BY <1>8, <2>2, EntriesShow
  <2>6. UserTree'[p].content = new
    BY <1>6, <2>5 DEF Seen
  <2> HIDE DEF p
  <2>7. UserTree' = [UserTree EXCEPT ![p].content = UserTree'[p].content]
    <3> DEFINE m == [UserTree EXCEPT ![p] = UserTree'[p]]
    <3>1. IsMap(UserTree) /\ IsMap(UserTree')
      BY MapsAreMaps, UserTreeIsView
    <3>2. IsMap(m) /\ DOMAIN m = DOMAIN UserTree'
      BY <1>7 DEF IsMap
    <3>3. \A x \in DOMAIN UserTree' : m[x] = UserTree'[x]
      BY <1>7, <2>4, <3>1 DEF IsMap
    <3>4. m = UserTree'
      BY <3>1, <3>2, <3>3, SameMaps
    <3> QED BY <2>3, <2>6, <3>4
  <2>8. \E o \in 0..Len(new) : \E k \in 1..Len(new) :
          /\ o + k <= Len(new)
          /\ Tree!Written(old, o, SubSeq(new, o + 1, o + k), new)
    BY <1>2, <1>3, <1>4, WrittenData
  <2>9. Tree!Write
    <3>1. (session' # "dead") = (session # "dead")
      BY <1>1
    <3>2. \E x \in DOMAIN UserTree :
            /\ x \in DOMAIN UserTree'
            /\ UserTree[x].kind = "File"
            /\ UserTree' = [UserTree EXCEPT ![x].content = UserTree'[x].content]
            /\ \E o \in 0..Len(UserTree'[x].content) : \E k \in 1..Len(UserTree'[x].content) :
                 /\ o + k <= Len(UserTree'[x].content)
                 /\ Tree!Written(UserTree[x].content, o,
                                 SubSeq(UserTree'[x].content, o + 1, o + k), UserTree'[x].content)
      BY <1>7, <2>3, <2>6, <2>7, <2>8
    <3> QED BY <3>1, <3>2, Zenon DEF Tree!Write
  <2> QED BY <1>1, <2>9 DEF Implements, Tree!Next
<1>10. CASE ~\E d \in DOMAIN directories : \E n \in NamesIn(directories, d) :
               directories[d][n].inode = i
  <2>1. ASSUME NEW x \in DOMAIN UserTree PROVE UserTree'[x] = UserTree[x]
    <3>1. PICK d \in DOMAIN directories : \E n \in NamesIn(directories, d) : x = <<d, n>>
      BY ViewOf, UserTreeIsView
    <3>2. PICK n \in NamesIn(directories, d) : x = <<d, n>>
      BY <3>1
    <3> QED BY <1>8, <1>10, <3>2
  <2>2. UserTree' = UserTree
    BY <1>7, <2>1, SameMaps, MapsAreMaps, UserTreeIsView
  <2> QED BY <2>2, TreeKept
<1> QED BY <1>9, <1>10

-----------------------------------------------------------------------------
\* Every step of a mount in production is one of WorkingTree or a stutter.
LEMMA StepImplements ==
  ASSUME Production, ProductionInv, TreeInv, HandlesResolve, [Next]_vars
  PROVE  Implements
<1>0. EntriesResolve /\ \A i \in DOMAIN nodes : nodes[i] \in NodeAttributes
  BY DEF TreeInv, HandlesResolve
<1>1. Effect /\ SessionMoves
  BY <1>0, StepEffects
<1>k. ASSUME UNCHANGED directories,
             \A i \in DOMAIN nodes : nodes'[i].kind = nodes[i].kind /\ nodes'[i].hash = nodes[i].hash
      PROVE  Implements
  <2>1. \A i \in DOMAIN nodes : Seen(i, nodes') = Seen(i, nodes)
    BY <1>k, SeenKept
  <2> QED BY <1>0, <1>1, <1>k, <2>1, ViewKept, TreeKept
<1>2. CASE LeavesInodes
  BY <1>2, <1>k DEF LeavesInodes
<1>3. ASSUME NEW t, ChecksOut(t) PROVE Implements
  BY <1>1, <1>3, CheckoutImplements
<1>4. ASSUME NEW parent \in DOMAIN directories, NEW name \in Names,
             AddsDirectory(parent, name) \/ AddsFile(parent, name)
      PROVE  Implements
  BY <1>1, <1>4, MakeImplements DEF AddsDirectory, AddsFile
<1>5. ASSUME NEW parent \in DOMAIN directories, NEW name \in Names, NEW attrs,
             AddsSymlink(parent, name, attrs)
      PROVE  Implements
  <2>1. PICK hash, size : attrs = NewAttrs("Symlink", hash, size)
    BY <1>5 DEF AddsSymlink
  <2> QED BY <1>1, <1>5, <2>1, MakeImplements DEF AddsSymlink
<1>6. CASE ChangesNames
  BY <1>4, <1>5, <1>6, MoveImplements, DropImplements DEF ChangesNames
<1>7. CASE AddsBareNode
  <2>1. UNCHANGED directories /\ \A i \in DOMAIN nodes : nodes'[i] = nodes[i]
    BY <1>7, CreatedNode DEF AddsBareNode, TreeInv
  <2> QED BY <1>k, <2>1
<1>8. CASE ChangesAttributes
  <2>1. ASSUME NEW i \in DOMAIN nodes, NEW mode, OpensHandle(i, mode) PROVE Implements
    BY <1>0, <1>k, <2>1 DEF OpensHandle, IncHandle, NodeAttributes
  <2>2. ASSUME NEW fh \in DOMAIN handles, ReleasesHandle(fh) PROVE Implements
    BY <1>0, <1>k, <2>2 DEF ReleasesHandle, DecHandle, NodeAttributes
  <2> QED BY <1>1, <1>8, <2>1, <2>2, WriteImplements DEF ChangesAttributes
<1> QED BY <1>1, <1>2, <1>3, <1>6, <1>7, <1>8 DEF Effect

\* A mount in production implements WorkingTree, whatever its names, bytes and
\* bounds: no request touches an entry it does not name, a rename carries the
\* content along, a write lands in its range, and a panic loses at most the
\* entry of an empty directory.
THEOREM MountImplementsWorkingTree == Spec /\ Production => ImplementsWorkingTree
<1> SUFFICES ASSUME Production PROVE Spec => ImplementsWorkingTree
  OBVIOUS
<1>1. Init => Tree!Init
  <2>1. ASSUME Init PROVE UserTree = EmptyMap
    <3>1. DOMAIN View(directories, nodes) = {}
      <4>1. DOMAIN directories = {}
        BY <2>1 DEF Init, EmptyMap
      <4> QED BY <4>1, ViewOf
    <3>2. IsMap(EmptyMap) /\ DOMAIN EmptyMap = {}
      BY DEF IsMap, EmptyMap
    <3> QED BY <3>1, <3>2, SameMaps, MapsAreMaps, UserTreeIsView
  <2>2. ASSUME Init PROVE (session # "dead") = TRUE
    BY <2>2 DEF Init
  <2> QED BY <2>1, <2>2 DEF Tree!Init, Tree!EmptyTree, Tree!EmptyMap, EmptyMap
<1>2. (Production => ProductionInv) /\ TreeInv /\ HandlesResolve /\ [Next]_vars
        => [Tree!Next]_<<UserTree, session # "dead">>
  <2>1. ASSUME ProductionInv, TreeInv, HandlesResolve, [Next]_vars
        PROVE  Tree!Next \/ (UserTree' = UserTree /\ ((session' # "dead") <=> (session # "dead")))
    BY <2>1, StepImplements DEF Implements
  <2> QED BY <2>1
<1> QED BY <1>1, <1>2, AlwaysTree, HandlesAlwaysResolve, AlwaysProduction, PTL
        DEF Spec, ImplementsWorkingTree, Tree!Spec

=============================================================================
