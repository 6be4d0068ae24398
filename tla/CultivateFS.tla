---------------------------- MODULE CultivateFS -----------------------------
(***************************************************************************)
(* The FUSE filesystem of a mounted working copy (daemon-old/src/fs.rs)    *)
(* with the inode tables behind it (mount_store.rs).                       *)
(*                                                                         *)
(* fuser runs one thread per mount, which calls one handler after another  *)
(* with &mut self, and no other thread of the daemon touches the tables:   *)
(* a handler is one atomic action.  A handler that panics (todo!, unwrap)  *)
(* ends that thread; fuser answers EIO to the request it was serving.      *)
(* set_root_tree is called by other threads, in the tests.  Requests that  *)
(* change nothing (lookup, getattr, access, readdir) have no action; what  *)
(* they would answer is stated by the invariants.                          *)
(***************************************************************************)
EXTENDS FSOps

CONSTANTS
  Names,        \* entry names the kernel may send
  Bytes,        \* bytes a write may carry
  Targets,      \* targets a symlink may be given
  BadTargets,   \* those of them that are not UTF-8
  Trees,        \* store trees given to set_root_tree, flattened in preorder
  StrayPanics,  \* mutexes of Store that the calls of jj poison
  MaxInode,     \* bound on next_inode
  MaxHandle,    \* bound on next_file_handle
  MaxFileLen    \* bound on the length of a file, a write and a read

VARIABLES
  nodes,             \* MountStore.nodes
  directories,       \* MountStore.directories
  next_inode,        \* MountStore.next_inode
  files,             \* Store.files, as the set of the objects stored
  symlinks,          \* Store.symlinks, likewise
  poisoned,          \* the mutexes of Store a panic poisoned
  handles,           \* the open file handles, as the kernel holds them
  next_file_handle,  \* CultivateFS.next_file_handle
  session,           \* the thread of the mount: mounted, running or dead
  reply              \* the last answer sent to the kernel

store   == <<files, symlinks, poisoned>>
opened  == <<handles, next_file_handle>>
inodes  == <<nodes, directories, next_inode>>
vars    == <<inodes, store, opened, session, reply>>

Byte == Bytes \cup {Zero}

\* The mutexes of Store whose guards a mount unwraps.
Mutexes == {"files", "symlinks", "trees"}

\* A tree of the store: parents come first, a directory has no object of its
\* own here, and names are unique in a directory.
IsTree(t) ==
  \A k \in DOMAIN t :
    /\ t[k].parent \in 0..(k - 1) /\ t[k].name \in Names /\ t[k].kind \in Kinds
    /\ t[k].parent # 0 => t[t[k].parent].kind = "Directory"
    /\ t[k].hash \in IF t[k].kind = "Directory" THEN {NoHash} ELSE Seq(Byte)
    /\ \A j \in 1..(k - 1) : t[j].parent = t[k].parent => t[j].name # t[k].name

ASSUME BoundsAssumption ==
  /\ MaxInode \in Nat /\ MaxInode > Root /\ MaxHandle \in Nat /\ MaxFileLen \in Nat
ASSUME NamesAssumption == Names \cap Dots = {}
ASSUME BytesAssumption == NoHash \notin Seq(Byte)
ASSUME TargetsAssumption == Targets \subseteq Seq(Byte) /\ BadTargets \subseteq Targets
ASSUME StrayAssumption == StrayPanics \subseteq Mutexes
ASSUME TreesAssumption == \A t \in Trees : t \in Seq(
                            [parent : Nat, name : Names, kind : Kinds,
                             hash : Seq(Byte) \cup {NoHash}]) /\ IsTree(t)

-----------------------------------------------------------------------------
(* What the kernel and fuser do, modelled from how the handlers rely on    *)
(* it.  The kernel resolves names under the lock of the directory, holds   *)
(* a file handle from open to release, and never lets a rename replace a   *)
(* directory by a file or move a directory into itself.                    *)

\* The directories at most depth levels below i, and all those below it.
Subdirectories(S) ==
  {j \in DOMAIN directories : \E d \in S : \E n \in DOMAIN directories[d] \ Dots :
                                 directories[d][n] = Entry(j, "Directory")}
Subtree(i) ==
  LET below[depth \in Nat] ==
        IF depth = 0 THEN {i}
        ELSE LET upper == below[depth - 1] IN upper \cup Subdirectories(upper)
  IN  below[Cardinality(DOMAIN directories)]

VfsAllowsRename(parent, name, newParent, newName) ==
  LET moved  == directories[parent][name]
      target == directories[newParent][newName]
  IN  /\ moved.kind = "Directory" => newParent \notin Subtree(moved.inode)
      /\ newName \in DOMAIN directories[newParent] =>
           /\ target.inode # moved.inode
           /\ (target.kind = "Directory") = (moved.kind = "Directory")
           /\ target.kind = "Directory" => parent \notin Subtree(target.inode)

Answer(res) == reply' = [res |-> res]
Fail(res) == Answer(res) /\ UNCHANGED <<inodes, store, opened, session>>

\* fuser drops the reply of a handler that panics, which answers EIO.
Panic == Answer("EIO") /\ session' = "dead"

Linked(i) ==
  \E d \in DOMAIN directories : \E n \in DOMAIN directories[d] \ Dots :
    directories[d][n].inode = i

-----------------------------------------------------------------------------
(* Other threads.  A gRPC read of an object the store lacks unwraps None   *)
(* under the lock (backend.rs), and a tree with a conflict reaches todo!() *)
(* where it is hashed under the lock: the mutex is poisoned for the mount. *)

StrayPanic(m) ==
  /\ m \in StrayPanics \ poisoned
  /\ poisoned' = poisoned \cup {m}
  /\ UNCHANGED <<inodes, files, symlinks, opened, session, reply>>

\* set_root_tree: one inode is burnt, and the root is written over.
InsertRoot(t) ==
  /\ next_inode + Len(t) < MaxInode
  /\ next_inode' = AfterTree(next_inode, t)
  /\ nodes' = Overlay(TreeNodes(t, next_inode), nodes)
  /\ directories' = Overlay(TreeDirectories(t, next_inode), directories)

\* get_file and get_symlink expect the objects of the tree to be known; the
\* tests that call set_root_tree have stored them, and poison nothing.
IsStored(t) ==
  \A k \in DOMAIN t : /\ t[k].kind = "File" => t[k].hash \in files
                      /\ t[k].kind = "Symlink" => t[k].hash \in symlinks

SetRootTree(t) ==
  /\ IsStored(t) /\ poisoned = {}
  /\ InsertRoot(t)
  /\ UNCHANGED <<store, opened, session, reply>>

\* Store.write_file and write_symlink: the objects of the trees to check out.
StoreObjects(t) ==
  /\ ~IsStored(t) /\ poisoned = {}
  /\ files' = files \cup {t[k].hash : k \in {k \in DOMAIN t : t[k].kind = "File"}}
  /\ symlinks' = symlinks \cup {t[k].hash : k \in {k \in DOMAIN t : t[k].kind = "Symlink"}}
  /\ UNCHANGED <<inodes, poisoned, opened, session, reply>>

\* init: the empty tree, unless the mount already has a root.  insert_tree
\* unwraps the lock of trees to look the empty tree up, its inode burnt.
InitSession ==
  /\ session = "mounted"
  /\ \/ /\ Root \in DOMAIN nodes
        /\ session' = "running"
        /\ UNCHANGED inodes
     \/ /\ Root \notin DOMAIN nodes /\ "trees" \notin poisoned
        /\ session' = "running"
        /\ InsertRoot(<< >>)
     \/ /\ Root \notin DOMAIN nodes /\ "trees" \in poisoned
        /\ next_inode < MaxInode
        /\ next_inode' = next_inode + 1
        /\ session' = "dead"
        /\ UNCHANGED <<nodes, directories>>
  /\ UNCHANGED <<store, opened, reply>>

-----------------------------------------------------------------------------
(* Handlers that make an entry.  The bound on next_inode is in the guard   *)
(* of those that create a node.                                            *)

CreateNode(attrs) ==
  /\ next_inode < MaxInode
  /\ next_inode' = next_inode + 1
  /\ nodes' = Put(nodes, next_inode, attrs)

Mkdir(parent, name) ==
  \/ /\ name \in DOMAIN directories[parent]
     /\ Fail("EEXIST")
  \/ /\ name \notin DOMAIN directories[parent]
     /\ CreateNode(NewAttrs("Directory", NoHash, 0))
     /\ directories' = WithDirectory(directories, parent, name, next_inode)
     /\ Answer("ok")
     /\ UNCHANGED <<store, opened, session>>

\* The kernel sends no S_IFDIR and no S_IFLNK here.
Mknod(parent, name, fileType) ==
  \/ /\ fileType # "S_IFREG"
     /\ Fail("ENOSYS")
  \/ /\ fileType = "S_IFREG"
     /\ name \in DOMAIN directories[parent]
     /\ Fail("EEXIST")
  \/ /\ fileType = "S_IFREG"
     /\ name \notin DOMAIN directories[parent]
     /\ CreateNode(NewAttrs("File", NoHash, 0))
     /\ directories' = Link(directories, parent, name, Entry(next_inode, "File"))
     /\ Answer("ok")
     /\ UNCHANGED <<store, opened, session>>

\* The node is created before insert_link looks at the name, and stays when
\* insert_link refuses it.  Its hash is set last: the node of a target that
\* is not UTF-8 is left linked without one, by a panic that holds symlinks
\* (the faulty variant answers an error there).
SymlinkRefused == Answer("EINVAL") /\ UNCHANGED <<poisoned, session>>
SymlinkPanics == Panic /\ poisoned' = poisoned \cup {"symlinks"}

Symlink(parent, name, target) ==
  LET bare     == NewAttrs("Symlink", NoHash, 0)
      attrs    == NewAttrs("Symlink", target, Len(target))
      inserted == InsertLink(directories, parent, name, Entry(next_inode, "Symlink"))
      broken   == /\ inserted.res = "ok"
                  /\ target \in BadTargets \/ "symlinks" \in poisoned
  IN  /\ CreateNode(IF inserted.res = "ok" /\ ~broken THEN attrs ELSE bare)
      /\ directories' = inserted.dirs
      /\ IF broken
           THEN SymlinkPanics /\ UNCHANGED symlinks
           ELSE /\ Answer(inserted.res)
                /\ symlinks' = IF inserted.res = "ok" THEN symlinks \cup {target} ELSE symlinks
                /\ UNCHANGED <<poisoned, session>>
      /\ UNCHANGED <<files, opened>>

-----------------------------------------------------------------------------
(* rename, in the order of its early returns.  The node the moved entry    *)
(* and both directories are written back unchanged but for their times.    *)

\* A directory at the new name ends the handler in todo!(); and a faulty
\* variant that answers an error there.
TargetRefused == Answer("EISDIR") /\ UNCHANGED session
TargetIsTodo == Panic

\* What stands at the new name, when something does, is unlinked first.
Rename(parent, name, newParent, newName, exchange) ==
  LET target  == directories[newParent][newName]
      present == newName \in DOMAIN directories[newParent]
  IN \/ /\ name \notin DOMAIN directories[parent]
        /\ Fail("ENOENT")
     \/ /\ name \in DOMAIN directories[parent]
        /\ exchange
        /\ Panic
        /\ UNCHANGED <<inodes, store, opened>>
     \/ /\ name \in DOMAIN directories[parent]
        /\ ~exchange
        /\ VfsAllowsRename(parent, name, newParent, newName)
        /\ \/ /\ present /\ target.kind = "Directory"
              /\ IsOccupied(directories[target.inode])
              /\ Fail("ENOTEMPTY")
           \/ /\ present /\ target.kind = "Directory"
              /\ ~IsOccupied(directories[target.inode])
              /\ directories' = Unlink(directories, newParent, newName)
              /\ TargetIsTodo
              /\ UNCHANGED <<nodes, next_inode, store, opened>>
           \/ /\ present => target.kind # "Directory"
              /\ nodes' = IF present
                            THEN [nodes EXCEPT ![target.inode] = DecHardlinks(@)]
                            ELSE nodes
              /\ directories' = Moved(directories, parent, name, newParent, newName)
              /\ Answer("ok")
              /\ UNCHANGED <<next_inode, store, opened, session>>

\* Handlers that are todo!() or panic!() whatever the request.
Unimplemented ==
  /\ Panic
  /\ UNCHANGED <<inodes, store, opened>>

-----------------------------------------------------------------------------
(* File handles.  The two top bits of a handle hold its permissions.       *)

OpenModes == {"O_RDONLY", "O_WRONLY", "O_RDWR", "O_RDONLY|O_TRUNC", "O_ACCMODE"}

Handle(i, mode) ==
  [inode |-> i, read |-> mode \in {"O_RDONLY", "O_RDWR"},
   write |-> mode \in {"O_WRONLY", "O_RDWR"}]

\* open, and opendir, which decides the same way.
Open(i, mode) ==
  \/ /\ mode = "O_RDONLY|O_TRUNC"
     /\ Fail("EACCES")
  \/ /\ mode = "O_ACCMODE"
     /\ Fail("EINVAL")
  \/ /\ mode \in {"O_RDONLY", "O_WRONLY", "O_RDWR"}
     /\ next_file_handle < MaxHandle
     /\ nodes' = [nodes EXCEPT ![i] = IncHandle(@)]
     /\ handles' = Put(handles, next_file_handle, Handle(i, mode))
     /\ next_file_handle' = next_file_handle + 1
     /\ Answer("ok")
     /\ UNCHANGED <<directories, next_inode, store, session>>

\* release and releasedir.
Release(fh) ==
  LET i == handles[fh].inode
  IN  /\ nodes' = [nodes EXCEPT ![i] = DecHandle(@)]
      /\ handles' = Drop(handles, fh)
      /\ Answer("ok")
      /\ UNCHANGED <<directories, next_inode, store, next_file_handle, session>>

\* The session ends with the mutex held when it panics in read or write; and a
\* faulty variant that goes on serving.
PanicCaught ==
  /\ Answer("EIO")
  /\ poisoned' = poisoned \cup {"files"}
  /\ UNCHANGED <<inodes, files, symlinks, opened, session>>
PanicHoldingFiles ==
  /\ Panic
  /\ poisoned' = poisoned \cup {"files"}
  /\ UNCHANGED <<inodes, files, symlinks, opened>>

Read(fh, offset, size) ==
  LET i       == handles[fh].inode
      content == nodes[i].hash
      serves  == /\ "files" \notin poisoned
                 /\ content # NoHash /\ content \in files
                 /\ ~ReadPanics(content, offset, size)
  IN \/ /\ ~handles[fh].read
        /\ Fail("EACCES")
     \/ /\ handles[fh].read /\ ~serves
        /\ PanicHoldingFiles
     \/ /\ handles[fh].read /\ serves
        /\ reply' = [res |-> "data", inode |-> i, offset |-> offset,
                     size |-> size, data |-> ReadBuffer(content, offset, size)]
        /\ UNCHANGED <<inodes, store, opened, session>>

Write(fh, offset, data) ==
  LET i       == handles[fh].inode
      content == CursorWrite(ContentOf(nodes[i]), offset, data)
      serves  == /\ "files" \notin poisoned
                 /\ nodes[i].hash = NoHash \/ nodes[i].hash \in files
  IN \/ /\ ~handles[fh].write
        /\ Fail("EACCES")
     \/ /\ handles[fh].write /\ ~serves
        /\ PanicHoldingFiles
     \/ /\ handles[fh].write /\ serves
        /\ Len(content) <= MaxFileLen
        /\ nodes' = [nodes EXCEPT ![i].size = GrownSize(nodes[i], offset, data),
                                  ![i].hash = content]
        /\ files' = InsertFile(files, nodes[i].hash, content)
        /\ Answer("ok")
        /\ UNCHANGED <<directories, next_inode, symlinks, poisoned, opened, session>>

\* setattr answers the attributes and sets none of them, the size included.
Setattr(i) ==
  /\ Answer("ok")
  /\ UNCHANGED <<inodes, store, opened, session>>

Readlink(i) ==
  LET serves == /\ "symlinks" \notin poisoned
                /\ nodes[i].hash # NoHash /\ nodes[i].hash \in symlinks
  IN \/ /\ ~serves
        /\ Panic
        /\ UNCHANGED <<inodes, store, opened>>
     \/ /\ serves
        /\ Answer("ok")
        /\ UNCHANGED <<inodes, store, opened, session>>

-----------------------------------------------------------------------------
Init ==
  /\ nodes = EmptyMap
  /\ directories = EmptyMap
  /\ next_inode = 1
  /\ files = {}
  /\ symlinks = {}
  /\ poisoned = {}
  /\ handles = EmptyMap
  /\ next_file_handle = 1
  /\ session = "mounted"
  /\ reply = [res |-> "none"]

\* Requests name inodes the kernel has looked up.
NonDirectories(kind) == {i \in DOMAIN nodes : nodes[i].kind = kind /\ Linked(i)}

Data == UNION {[1..n -> Bytes] : n \in 1..MaxFileLen}

NamespaceRequest ==
  \E parent \in DOMAIN directories : \E name \in Names :
    \/ Mkdir(parent, name)
    \/ \E fileType \in {"S_IFREG", "S_IFIFO"} : Mknod(parent, name, fileType)
    \/ \E target \in Targets : Symlink(parent, name, target)
    \/ \E newParent \in DOMAIN directories : \E newName \in Names :
         \E exchange \in BOOLEAN : Rename(parent, name, newParent, newName, exchange)

InodeRequest ==
  \/ Unimplemented
  \/ \E i \in DOMAIN directories \cup NonDirectories("File") :
       (\E mode \in OpenModes : Open(i, mode)) \/ Setattr(i)
  \/ \E i \in NonDirectories("Symlink") : Readlink(i)

HandleRequest ==
  \E fh \in DOMAIN handles :
    \/ Release(fh)
    \/ /\ nodes[handles[fh].inode].kind = "File"
       /\ \E offset \in 0..MaxFileLen :
            \/ \E size \in 1..MaxFileLen : Read(fh, offset, size)
            \/ \E data \in Data : Write(fh, offset, data)

OtherThreads ==
  \/ \E t \in Trees : StoreObjects(t) \/ SetRootTree(t)
  \/ \E m \in Mutexes : StrayPanic(m)

Next ==
  \/ InitSession
  \/ session = "running" /\ (NamespaceRequest \/ InodeRequest \/ HandleRequest)
  \/ OtherThreads

Spec == Init /\ [][Next]_vars

-----------------------------------------------------------------------------
(* The tree a user of the mount sees: what is listed, with its content.    *)

Listed == {<<d, n>> : d \in DOMAIN directories, n \in Names}
UserTree ==
  [p \in {p \in Listed : p[2] \in DOMAIN directories[p[1]]} |->
     LET i == directories[p[1]][p[2]].inode
     IN  [inode |-> i, kind |-> nodes[i].kind, content |-> ContentOf(nodes[i])]]

Tree == INSTANCE WorkingTree
          WITH Top <- Root, Pad <- Zero, tree <- UserTree, serving <- session # "dead"

-----------------------------------------------------------------------------
(* Properties.                                                             *)

Production == Trees = {}     \* only the tests call set_root_tree

Inodes == 1..(MaxInode - 1)

Attributes ==
  [kind : Kinds, hash : Seq(Byte) \cup {NoHash}, size : Nat, open : Nat, hardlinks : Nat]
Entries == [inode : Inodes, kind : Kinds]

\* Every table holds values of its type, and no counter exceeds its bound.
TypeOK ==
  /\ next_inode \in 1..MaxInode
  /\ DOMAIN nodes \subseteq 1..(next_inode - 1)
  /\ \A i \in DOMAIN nodes : nodes[i] \in Attributes
  /\ DOMAIN directories \subseteq DOMAIN nodes
  /\ \A d \in DOMAIN directories :
       /\ DOMAIN directories[d] \subseteq Names \cup Dots
       /\ \A n \in DOMAIN directories[d] : directories[d][n] \in Entries
  /\ files \subseteq Seq(Byte)
  /\ symlinks \subseteq Seq(Byte)
  /\ poisoned \subseteq Mutexes
  /\ next_file_handle \in Nat
  /\ \A fh \in DOMAIN handles :
       fh \in Nat /\ handles[fh] \in [inode : Inodes, read : BOOLEAN, write : BOOLEAN]
  /\ session \in {"mounted", "running", "dead"}

\* Every entry of every directory leads to a node of the kind the entry says,
\* and exactly the nodes of kind Directory have a content: so no handler's
\* get_directory_content(..).unwrap() and no lookup of a listed name fails,
\* whatever sequence of mkdir, mknod, symlink, rename and checkout came before.
EntriesResolve ==
  /\ DOMAIN directories = {i \in DOMAIN nodes : nodes[i].kind = "Directory"}
  /\ \A d \in DOMAIN directories : \A n \in DOMAIN directories[d] :
       LET e == directories[d][n]
       IN  e.inode \in DOMAIN nodes /\ nodes[e.inode].kind = e.kind

\* The mount has no hard links: no node is listed in two places and the root
\* in none, although mkdir inserts its entry twice and rename writes two
\* directories one after the other.
UniqueLinks ==
  \A d1, d2 \in DOMAIN directories :
    \A n1 \in DOMAIN directories[d1] \ Dots, n2 \in DOMAIN directories[d2] \ Dots :
      /\ directories[d1][n1].inode # Root
      /\ directories[d1][n1].inode = directories[d2][n2].inode => d1 = d2 /\ n1 = n2

\* "." is the directory itself and ".." the directory that lists it: rename
\* keeps the ".." of what it moves in step with the entry.
DotDotConsistent ==
  /\ \A d \in DOMAIN directories :
       "." \in DOMAIN directories[d] /\ directories[d]["."] = Entry(d, "Directory")
  /\ \A d \in DOMAIN directories : \A n \in DOMAIN directories[d] \ Dots :
       LET e == directories[d][n]
       IN  e.kind = "Directory" /\ ".." \in DOMAIN directories[e.inode]
             => directories[e.inode][".."] = Entry(d, "Directory")

\* st_nlink of a file or a symlink is the number of entries that refer to it,
\* so dec_hardlink_count never goes below 0: a rename that replaces an entry
\* releases exactly that one.  (A symlink that insert_link refused keeps the
\* count of 1 in a node nothing refers to.)
LinkCountsMatch ==
  Production =>
    \A i \in DOMAIN nodes :
      nodes[i].kind # "Directory" /\ ~(nodes[i].kind = "Symlink" /\ nodes[i].hash = NoHash)
        => nodes[i].hardlinks = IF Linked(i) THEN 1 ELSE 0

\* No directory leaves the tree with something in it, neither by a rename nor
\* by the rename that panics after it removed the entry of its target.
DetachedDirsAreEmpty ==
  Production =>
    \A d \in DOMAIN directories \ {Root} :
      ~Linked(d) => DOMAIN directories[d] \subseteq Dots

\* The reference count of every inode is the number of handles the kernel
\* holds on it: open, opendir, release and releasedir balance, over renames,
\* writes and replaced entries.  (set_root_tree forgets the handles of the
\* root, whose node it writes over.)
OpenCountsMatch ==
  \A i \in DOMAIN nodes : i # Root \/ Production =>
    nodes[i].open = Cardinality({fh \in DOMAIN handles : handles[fh].inode = i})

\* The size getattr reports is the length of the content read serves.
SizeIsContentLength ==
  \A i \in DOMAIN nodes :
    nodes[i].size = IF nodes[i].hash = NoHash THEN 0 ELSE Len(nodes[i].hash)

\* The object of every file and symlink is in the store, and a symlink that a
\* running session lists has one: read's and readlink's expect never fail on
\* anything the mount itself created.
ObjectsAreStored ==
  /\ \A i \in DOMAIN nodes : nodes[i].hash # NoHash =>
       nodes[i].hash \in IF nodes[i].kind = "File" THEN files ELSE symlinks
  /\ session = "running" =>
       \A i \in NonDirectories("Symlink") : nodes[i].hash # NoHash

\* A mount poisons a mutex of Store only by the panic it dies of, and one
\* mutex at that: what is poisoned under a session that serves came from
\* elsewhere.  (It is what JjCommands takes a mount to do, in MountDies.)
PoisonsOnlyInDying ==
  [][ \A m \in poisoned' \ poisoned :
        \/ session = "running" /\ session' = "dead" /\ poisoned' = poisoned \cup {m}
        \/ StrayPanic(m) ]_vars

\* A request that is refused leaves the directories, the content of every
\* listed node and the open handles as they were; only what nothing refers to
\* (the node of a refused symlink) may appear.
RefusedRequestsChangeNothing ==
  [][ session' = "running" /\ reply' # reply /\ reply'.res \notin {"ok", "data"} =>
        /\ UNCHANGED <<directories, store, opened>>
        /\ \A i \in DOMAIN nodes : nodes'[i] = nodes[i] ]_vars

\* A write that succeeds leaves the file with the data at the offset, the old
\* bytes around it, and zeros in the gap when it starts past the end.
WritesLandAtOffset ==
  [][ \A fh \in DOMAIN handles : \A offset \in 0..MaxFileLen : \A data \in Data :
        Write(fh, offset, data) /\ reply'.res = "ok" =>
          LET i == handles[fh].inode
          IN  Tree!Written(ContentOf(nodes[i]), offset, data, ContentOf(nodes'[i])) ]_vars

\* Store has no way to remove an object and an inode number is never given
\* twice: an object once written stays readable, and no node is lost, across
\* renames, checkouts and panics.
NothingIsForgotten ==
  [][ /\ files \subseteq files' /\ symlinks \subseteq symlinks'
      /\ DOMAIN nodes \subseteq DOMAIN nodes'
      /\ \A i \in DOMAIN nodes \ {Root} : nodes'[i].kind = nodes[i].kind ]_vars

\* A read returns the bytes at its offset.
ReadReturnsRequestedBytes ==
  reply.res = "data" =>
    LET content == nodes[reply.inode].hash
    IN  reply.data = SubSeq(content, reply.offset + 1,
                            Least(reply.offset + reply.size, Len(content)))

\* "Only overwrite an existing directory if it's empty": a rename does not
\* take the entry of a directory that still holds something.
OnlyEmptyDirsOverwritten ==
  [][ session = "running" /\ session' = "dead" =>
        \A d \in DOMAIN directories : \A n \in DOMAIN directories[d] \ DOMAIN directories'[d] :
          LET e == directories[d][n]
          IN  e.kind = "Directory" => DOMAIN directories[e.inode] \subseteq Dots ]_vars

\* In production, every handler does to the tree what WorkingTree allows, and
\* nothing else.
ImplementsWorkingTree == Tree!Spec

=============================================================================
