# A TLA+ model of cultivate

cultivate is an experimental virtual-filesystem backend for
[jj](https://martinvonz.github.io/jj/).  A daemon keeps the objects of a
repository in memory, mounts each working copy as a FUSE filesystem, and is
driven by `jj` processes over gRPC.  These modules model what the daemon and
the jj processes do, the configurations check the model with TLC on small
instances, and the proof modules establish the most important facts for every
value of the constants with TLAPS.

Paths below are relative to the repository (`daemon-old/src/fs.rs`); the crate
`daemon-old` is the daemon whose handlers are implemented.  It is not a member of
the Cargo workspace at this commit, and does not build against its `proto`; the
CLI is written against the same calls.  `PROJECT.json` maps every definition to
the lines it is translated from.

## 1. The system

| Component | Source | State it keeps | Operations |
|---|---|---|---|
| `CultivateFS`, one per mount | `daemon-old/src/fs.rs` | `next_file_handle`, the shared `Store` and `MountStore` | the FUSE handlers: init, lookup, getattr, setattr, access, mkdir, mknod, symlink, rename, open, opendir, read, write, release, releasedir, readdir, readlink; `setxattr` and `link` are `todo!()`, `rmdir` panics; `unlink`, `create` and the rest are fuser's defaults, which change nothing |
| `MountStore`, one per mount | `daemon-old/src/mount_store.rs` | `nodes`, `directories`, `next_inode`, `op_id`, `workspace_id`, `tree_id` | inode tables; `set_root_tree` (used by the tests) and checkout state |
| `Store`, one per daemon | `daemon-old/src/store.rs` | `files`, `symlinks`, `trees`, `commits`, each a map under a mutex | write and get; nothing is ever removed |
| `RepoManager` | `daemon-old/src/repo_manager.rs` | `mounts`, `fuse_sessions` | `get`, `initialize_repo` |
| `BackendService` | `daemon-old/src/service/backend.rs` | none | a gRPC handler for each call of jj |
| `ContentHash` | `daemon-old/src/content_hash.rs` | none | the encoding that is hashed into an object id |
| the jj process | `cli/src/{main,working_copy,backend}.rs` | the `OnceCell`s of its working copies: the checkout and the tree state | `jj cultivate init`; start_mutation, snapshot, check_out (`todo!()`), finish; objects written and read |
| the conversions | `cli/src/backend.rs`, `daemon-old/src/store.rs` | none | to_proto, from_proto, into, as_proto of files, symlinks, trees and commits |
| `BlockingJujutsuInterfaceClient` | `cli/src/blocking_client.rs` | a client and a runtime, each under a mutex | one blocking call per gRPC method |
| the rewritten daemon | `daemon/src` | none yet | every handler is `todo!()` |

How they interact:

* The **kernel** sends requests to a mount.  fuser serves them on one thread
  per mount with `&mut self`, so handlers of a mount do not interleave.  A
  handler that panics ends that thread, and with it the mount.
* The **jj processes** call `BackendService`.  tonic runs each call as a task
  on a pool of threads; a call takes several mutexes one after the other, so
  calls interleave between their critical sections.  A panic unwinds through
  the guards the handler holds and **poisons** their mutexes; every other
  handler unwraps `lock()`, and panics in turn.
* Handlers and calls share the `Store`: a gRPC read of an object the daemon
  does not have poisons a mutex that the FUSE handlers of every mount unwrap.
* Nothing is on disk.  A restarted daemon has no mounts and no objects, while
  jj still holds the ids it was given.

What is hard here is listed, with its lines, under `hazards` in `PROJECT.json`:
handlers that change several tables and panic half way, counters that two pairs
of handlers must balance, checkout state written and read in two sections, the
poisoning that spreads from one client to another, and the daemon's restarts.

What makes each component correct:

* **filesystem**: every entry leads to a node of its kind, a tree is a tree
  (one entry per node, `..` in step with rename), counters balance, size and
  content agree, a write lands where it was asked to, what is refused changes
  nothing, and the whole behaves like a tree of named objects;
* **listing**: a listing ends, is exact while nothing changes, and is wrong by no
  more than the entries that come and go during it;
* **root**: whichever threads insert a root, the mount shows one whole tree, and
  never an entry that leads nowhere;
* **service**: every call is answered, a lock is never left held, a mount is
  never replaced under a handler that works on it, what was set stays set;
* **jj commands**: the checkout state read is one that was written, is written
  once, and agrees with what a working copy keeps of it; jj's internals are only
  written once the directory is mounted; a command ends; without a race, a
  restart, a dead mount or an init left off half way nothing is ever poisoned;
* **blocking client**: every call returns, and the client is dropped before the
  runtime that drives it;
* **objects**: an id stands for one object for ever, and jj reads what it wrote;
  no encoding is the beginning of another of its type.

Two crates disagree about names at this commit: the CLI imports
`proto::jj_interface` and `daemon-old` the same messages as `proto::backend`.
The model identifies them.

## 2. The modules

```
Maps ─┬─ FSValues ── FSOps ─┬─ CultivateFS ─┬─ MCFS
      │                     │      :        └─ CultivateFSProofs ── FSContentProofs
      │                     │  (INSTANCE)
      ├─ WorkingTree .......│......:
      │                     └─ RootInit ─┬─ MCRootInit
      │                                  └─ RootInitProofs
      └─ DaemonService ─┬─ MCDaemon
                        ├─ JjCommands ─┬─ MCJj
                        │              └─ JjCommandsProofs
                        └─ DaemonServiceProofs ────┘

Readdir ─┬─ MCReaddir
         └─ ReaddirProofs
ContentHash ─┬─ ObjectStore ─┬─ ObjectStoreProofs
             │               └───── MCObjectStore
             └─ HashTypes ────────────────┘
BlockingClient ─┬─ MCBlockingClient
                └─ BlockingClientProofs
```

**Maps** - the `HashMap`s and `BTreeMap`s: functions whose domain is the set of
keys present.

**FSValues, FSOps** - the values of the filesystem and the pure functions the
handlers apply: `InsertLink`, `Moved` (the second half of rename),
`WithDirectory` (mkdir), `CursorWrite`, `ReadBuffer`, `TreeNodes` and
`TreeDirectories` (the preorder numbering of `insert_tree`).  FSOps begins with
faulty variants of them, which no specification uses: replacing an operator by
its variant must make TLC find a property violated (`mutants` in
`PROJECT.json`), which shows that the property depends on the code.  The other
modules keep their few variants beside the operators.

**CultivateFS** - one mount.  Its variables are the fields of `MountStore` and
`CultivateFS`, the two object tables the handlers use, the set of poisoned
mutexes, and the state of the mount's thread.  Each handler is one action whose
disjuncts are its early returns in their order; a handler that panics keeps what
it wrote before (`Rename` removes the entry of a directory it then cannot
replace, `Symlink` leaves a node without a hash), poisons what it holds and sets
`session` to `"dead"`.  `StrayPanic` is a call of jj that panics under a mutex of
the store: a read of an unknown object, or a tree with a conflict.  On a poisoned
mutex of `trees`, `InitSession` dies with an inode burnt and no root.
`SetRootTree` is only enabled when `Trees` is not empty: production
code never calls it, the tests do.  `opendir` and `releasedir` decide as `open`
and `release` do and share their actions.  Lookup, getattr and access change
nothing and have no action: what they rely on is what the invariants state.
Nor does readdir, but several of its requests make a listing, see **Readdir**.

What the kernel guarantees is written once (`VfsAllowsRename`, and the requests
enumerated in `NamespaceRequest`, `InodeRequest`, `HandleRequest`): it sends
inodes it has looked up, resolves names under the lock of the directory, and
never moves a directory into itself.  The permission bits are left out: every
inode has mode 0o777, with which `check_access` grants everything.

**WorkingTree** - the abstract specification: a map from a directory and a name
to an entry with a kind and a content; entries are made, moved and written, and
the mount may stop, losing at most the entry of an *empty* directory.  It may do
so at any time, as the mount in the code may: which panic ended it is not told
apart here, and what a panic takes along is `PoisonsOnlyInDying`.
`CultivateFS` implements it under the mapping `UserTree` (what is listed, with
its content): property `ImplementsWorkingTree`.

**DaemonService** - `BackendService` over `RepoManager`, the checkout state of
`MountStore`, and `Store`.  A call is a record with a program counter, and each
**critical section is one action**: `GetMount` (the lookup), `GetOpId`,
`GetWorkspaceId`, `SetOpId`, `SetWorkspaceId`, `InsertMount` and `StartSession`
(the one section long enough to be two actions, with the mutex of `mounts` in
`holder` between them), `WriteObject`, `ReadObject`.  `Panic(c, held)` poisons
what the handler holds and answers an error.  `Restart` loses everything.

**JjCommands** - the jj processes composed with `DaemonService`.  `init` calls
initialize and then set_checkout_state; any other command asks for the checkout
and the tree state when it needs them, and may start a mutation.  `copies` holds
the `CultivateWorkingCopy` of a command and, behind it, the one that
`start_mutation` makes: each has its `OnceCell`s, which nothing empties, and
`finish` puts the second in place of the first.  The lock is the stub it is in
the code: it excludes nothing.  Objects are written and read between these
calls, and a command unwraps every answer.  An init may also end between its two
calls (`GivesUp`): at the assertion about its directory, with an error of the
signer, of a store or of another step of `init_with_factories`, or killed; and so
may a mutation.  What is then left is a mount without a checkout state.  jj may
refuse to load a directory left like that; `Load` does not count on it.
`MountDies` is all that a mount can
do to the service: `CultivateFS` shows it in detail, and that it poisons at most
one of the mutexes of files and symlinks, in the panic it dies of, is proved
there (`PoisonOnlyInDying`).  `Careful` says whether the users avoid to run
anything beside an init.

**Readdir** - one listing of a directory that changes meanwhile: a request
answers as many entries as fit from a position in the sorted map of that moment;
`Add` and `Remove` are what the handlers of `CultivateFS` do to a directory
between two requests.

**RootInit** - what `CultivateFS` takes for one step, the insertion of a root by
`init` or `set_root_tree`, at the granularity of the code: the atomic counter
and the critical sections of `nodes` and `directories`, with the recursion of
`insert_tree` as a stack per thread.  `AloneIsOneStep` ties the two: a thread
that runs alone leaves exactly the tables of `FSOps`.

**BlockingClient** - the two mutexes of a connection, the calls that take them
in one order and `get_empty_tree_id`, which takes them in the other, the clones
that `start_mutation` makes and the drop of the fields in their order.

**ContentHash, HashTypes** - the bytes that are hashed for each type
`ContentHash` is implemented for, and their values over bounded inputs.
`HashesAreSelfDelimiting` says that no two values of a type hash the same bytes,
and none the beginning of another's; it has no state, and TLC evaluates it as an
assumption of `MCObjectStore`.  The width of a length and of an integer are
constants, 2 bytes in the runs where the code has 8, and 4 or 8.

**ObjectStore** - the objects themselves: jj's, the protobuf message, the
object of `Store` and back, with the ids by which they are stored.  jj's files,
symlinks and commits have the hash of the encoded message for an id, trees and
what a mount writes have their `ContentHash`; both kinds share the tables.  A
handler is one step here, since `DaemonService` has the interleavings.
`ObjectsAssumption` says of what types the objects are, and `LengthsAssumption`
that what `ContentHash` hashes the length of is no longer than a `Vec` can be:
`isize::MAX`, half of what the length can count.

**MCFS, MCDaemon, MCJj, MCReaddir, MCRootInit, MCBlockingClient,
MCObjectStore** - the values TLC gives the constants.

**CultivateFSProofs, FSContentProofs, DaemonServiceProofs, JjCommandsProofs,
RootInitProofs, ReaddirProofs, BlockingClientProofs, ObjectStoreProofs** - the
proofs, section 5.

Everywhere but in `ObjectStore` an object id is modelled by the object, and in
`ObjectStore` by the bytes that are hashed: blake3 is taken to be free of
collisions.  Times, owners, xattrs and the layout of replies are left out.

## 3. What the runs check

`tlc -config <cfg> <module>` in this directory.

| Run | Question | Bounds |
|---|---|---|
| `fs_namespace` (MCFS, FSNamespace) | Do mkdir, mknod, symlink and rename keep a tree a tree, in any sequence, and do what WorkingTree allows, also when targets are not UTF-8 and the calls of jj poison mutexes, that of trees before init included? | 2 names, 2 targets, inodes up to 4 |
| `fs_files` (FSFiles) | Do open, read, write and release, with renames between them, keep counts, sizes and contents, and what is left by a read that panics? | inodes up to 3, 2 handles, files of 2 bytes |
| `fs_checkout` (FSCheckout) | Do trees checked out by set_root_tree live with what the mount makes? | two trees (nested and flat), inodes up to 5 |
| `fs_read_offset` (FSReadOffset) | *violated*: a read returns the bytes at its offset | a file of 2 bytes |
| `fs_checkout_overwrite` (FSOverwrite) | *violated*: only empty directories are overwritten | as fs_checkout |
| `daemon_mounts` (MCDaemon, DaemonMounts) | What do the mutexes of RepoManager, MountStore and Store protect, what does their poisoning do, and is every call answered? | 2 clients, 2 paths (one cannot be mounted), an object in two tables, restarts |
| `jj_careless` (MCJj, JjCareless) | Is a checkout state set once and read whole, are jj's internals never written beneath the mount, and does every command end, when processes race their inits and leave off half way? | 2 clients, 2 paths (one cannot be mounted), 2 states, any number of mutations, dead mounts |
| `jj_careful` (JjCareful) | What can poison anything, if nobody races an init but commands may end early, and do the cells of a working copy made since the last restart hold what the daemon holds? | 2 clients, a path, 2 states, restarts, dead mounts, an object in two tables |
| `root_init` (MCRootInit, RootInit) | What does the mount show while init and two checkouts insert a root at once? | 3 threads, trees of 0, 1 and 3 entries |
| `readdir` (MCReaddir, Readdir) | What may a listing miss or repeat, and does it end? | 5 names, 1 or 2 entries in a reply, 4 changes |
| `blocking_client` (MCBlockingClient, BlockingClient) | Does every call return, and is the runtime dropped last? | 3 threads, 3 clones, 5 calls |
| `object_store` (MCObjectStore, ObjectStore) | Does jj read what it wrote, and is an id ever taken twice? Does a hash say which value it is of (HashTypes)? | up to 4 objects, the empty tree among them; strings and vectors of up to 2, bytes 0 and 1, 4 integers |

The bounds cap only what would grow for ever: `MaxInode` the inodes ever made,
`MaxHandle` the handles ever opened, `MaxFileLen` the length of a file and of a
request.  They are large enough for what matters to happen: four inodes make a
directory in a directory with a file to move between them and over each other;
two handles make two openings of one inode; two bytes make a write before,
inside, over the end of and beyond a file; two clients make every pair of
sections interleave, and a torn state lasts until one of them reads it.  Five
names and four changes let a listing of several replies miss two entries and
repeat two, with removals and additions on either side of the offset.  The tree
of `root_init` has a directory with a file, so that a child is published while
its parent is not.  Five calls in three threads hold both locks in every order.
The bytes 0 and 1 are also those of tags and lengths, and the objects of
`object_store` are as close to each other as the formats allow: a file whose
content is the message of another, two trees whose names spell the same around
an entry, commits that differ in one field.  `Restart` happens any number of
times.  Names and clients are symmetric in the runs without liveness; file
contents, targets and states are not interchanged.

Deadlock checking is off for the filesystem, where a dead mount or a spent bound
really ends what can happen, for `root_init`, `readdir` and `blocking_client`,
whose threads, listing and calls come to an end, and on for the service, the jj
commands and the object store.

`CheckoutStateIsNotTorn` is checked without restarts on purpose: a daemon that
restarts between the two calls of an init lets a second init past its assertion,
and the two may then interleave.  For the same reason the
cells of working copies are checked, over restarts, for careful users: an init
that goes on after a restart, or a command that holds a working copy from before
it, is part of `jj_careful`.  That calls are answered over restarts is part of
`daemon_mounts`.

Every property of a passing run has a mutant in `PROJECT.json`: a change of the
modelled code, of the kind a plausible bug would be, under which TLC finds it
violated.

### Fairness

`DaemonService` assumes weak fairness of each client's pending handler.  tonic
polls every task on a thread of its pool; the handlers never await while they
hold a mutex, and a mutex is held only by a handler that runs, so a thread that
waits for one gets it.  `JjCommands` assumes the same of `Serve`, and that a jj
process, which is a sequential program, makes its next call, which includes
that it ends.  A command may start one mutation on the working copy the last one
finished, so that it keeps passing through a state in which it could end:
`SF(End)` says that it does not go on for ever, since a command of jj makes
finitely many mutations.  Nothing obliges a command to give up half way.
`Readdir` assumes that a program that lists a directory asks until
an answer is empty; nothing makes the changes stop but `MaxChanges`, and a
listing needs no more: every answer moves the offset on, and the offset ends a
listing as soon as it is past the last entry.  `BlockingClient` assumes that a
thread in a call takes a lock that is free and is answered; std's mutexes promise
no turns, and weak fairness is enough only because a process makes finitely many
calls.  Clients
owe no call: nothing says that a command ever begins, or that a daemon restarts
or stops restarting.  The filesystem has no liveness property: the kernel owes
no request.

## 4. What was found

* **read ignores its offset** (`fs.rs:562`): the reply's buffer is sliced with
  the file offset and filled from the start of the file, so a read at `k > 0`
  answers `k` zeros and then the first bytes, or panics.  The tests read whole
  files from 0.
* **a checked-out directory with one child counts as empty** (`fs.rs:277`):
  `len() > 2` expects `.` and `..`, but `insert_tree` writes no `..`.

Both are runs expected to be violated.  The model also shows, as part of
properties that hold: an init that ends between `initialize` and
`set_checkout_state` leaves a directory that no later init can repair while the
daemon runs, and the next command that asks for its state poisons it
(`PoisonHasACause`); a client that asks for a checkout state before it is set
makes that mount unusable until a restart (`PoisonedStateIsUnset`); a second
`initialize` of a path, or one of a path that cannot be mounted, ends every
handler that looks up a mount (`SessionsAreMounted`); no init can be
repeated, which is the only reason why a checkout state is never torn; a mutation
always starts from the operation id of the init, because `finish` drops the one
it is given (`CellsAgreeWithDaemon`); two threads that insert a root at once leave
nodes of the other's tree behind, but never show them (`OneWholeTreeIsShown`); a
listing may miss an entry for each one removed before it, and repeat an entry for
each one added (`ListingErrsByItsChanges`); and
`get_empty_tree_id`, which locks in the other order, cannot deadlock only because
it is called before the connection is shared (`EveryCallReturns`).

What the code does and no property forbids, for the reader of these models:
`init` tests for a root after `initialize_repo` has returned, so that a
`set_root_tree` that ends between its test and its insertion is written over by
the empty tree (`fs.rs:149`; the tests call `set_root_tree` at that moment);
`DaemonLock` excludes nothing, although its comment calls it a distributed lock
(`working_copy.rs:184`); `Option` and `TreeEntry` hash one byte for their variant
where the documentation of the trait asks for a 32-bit ordinal
(`content_hash.rs:12`), by which, as `object_store` shows, no two values come to
share a hash.

## 5. What is proved

`tlapm` on each of the modules `*Proofs`.  The proofs use the constants'
assumptions only: those named in the modules, which TLC evaluates on every run,
and where a theorem needs more, its statement begins with `ASSUME`.

**The service**, for any sets of clients, paths, states and objects.  The
inductive invariant `IInv` joins the type invariant with four properties that
need each other: `CallsKeepTheirMount` (a handler past its lookup still has its
mount) is what keeps the updates of `SetOpId` inside `mounts` and what makes the
panic of `GetOpId` poison the mutex of a state that *is* unset, as
`PoisonedStateIsUnset` claims; `MountsHeldByInitialize` (the lock is held exactly
by the initialize that starts a session) is what lets `SessionsAreMounted` say
which missing session is under way.  None of the five is inductive without the
type invariant.  `TypeStep`, `HeldStep` and `MountsStep` show in turn that a
step keeps each part, one step of the proof per action, and `Inductive`
combines them; `TypeCorrect`, `MountsHeld`, `MountsKept`, `PoisonedUnset` and
`SessionsMounted` are its consequences.

**The filesystem**, for any names, bytes, trees and bounds.  `HandlesResolve`
(every handle leads to a node and every node has its attributes) is inductive:
`InsertRootKeeps` shows it for the numbering of `set_root_tree`,
`CreateNodeKeeps` for the three handlers that make a node.  `CursorWriteLands`
shows that a `Cursor` positioned at an offset and written through leaves the
content `WorkingTree!Written` describes byte by byte, for contents, offsets and
data of any length; with the invariant it gives `WritesLand`, the action property
`WritesLandAtOffset` that `fs_files` checks on files of two bytes.

`PoisonOnlyInDying` is an action property that needs no invariant: handler by
handler, a mount poisons a mutex only in the step in which its session dies, and
one mutex at that.  It is what `MountDies` of `JjCommands` assumes of the mounts.

**The tree of a mount.**  `CultivateFSProofs` proves `EntriesResolve`,
`UniqueLinks` and `DotDotConsistent`, for trees of any size and sequences of any
length, as parts of one inductive invariant, `TreeInv`; none is inductive alone:

* `Numbered` (inodes in use are below `next_inode`) is what makes an inode just
  allocated collide with no other, here and in the numbering of `set_root_tree`;
* a rename is safe because of `UniqueLinks`: the ".." it rewrites belongs to a
  directory that no other entry lists, so no other ".." becomes wrong, and the
  entry it removes was the only one of that inode;
* `RootIsDirectory` says that the node `set_root_tree` writes over was a
  directory, so that no file or symlink of the tree loses its kind;
* `LinkedAreCounted` (a listed file or symlink has a link count above 0) needs
  `UniqueLinks`, because a rename that replaces an entry decrements the count of
  its inode: were it listed elsewhere, that entry would be left with a count of 0.

There is a lemma per kind of change: `AttributesStep`, `BurnStep` (an init that
dies with an inode burnt), `UnlinkedStep` (a symlink that `insert_link` refused), `LinkStep`, `MkdirStep`, `UnlinkStep` (the rename
that panics half way), `MoveStep` and `TreeStep` (`set_root_tree`, which reasons
about the inverse of the preorder numbering); `TreeInvStep` applies them to the
handlers.  `MoveStep` uses what the kernel guarantees (`VfsAllowsRename`): an
entry never replaces an entry of the same inode.

`FSTypeCorrect` is the type invariant the runs check.  That `st_nlink` stays a
natural number is the part that needs the tree, through `MoveStep`.

**What the inodes hold and count** (`FSContentProofs`).  The handlers are first
classified by their effects (`ChecksOut`, `AddsFile`, `MovesEntry`, ...):
`StepEffects` says that each step of the mount has one of them, and every proof
after it goes by effects, not by handlers.

* `ContentInv` (the size is the length of the content; every hash is a key of its
  table; a symlink a running session lists has a target) gives
  `SizesAreContentLengths` and `ObjectsAreAlwaysStored`.
* `OpenCountsAlwaysMatch` compares a counter with the cardinality of a set of
  handles, so it needs that handles are finitely many and never reused
  (`HandlesNumbered`).
* `ProductionInv` gives `LinkCountsAlwaysMatch` and `DetachedDirsStayEmpty`: a
  listed file has a count of exactly 1 only because nothing is listed twice, and a
  directory that leaves the tree is empty only because, without `set_root_tree`,
  every directory but the root has its `..`, so that `len() > 2` means what rename
  takes it to mean.  With checked-out trees the second is false: the finding
  `OnlyEmptyDirsOverwritten`.
* `NothingIsEverForgotten` and `RefusedRequestsNeverChange` are action properties;
  the second excepts, as the property does, the new node of a refused symlink,
  which no entry refers to.

**The refinement** (the second half of `FSContentProofs`): a mount in production implements
`WorkingTree` (`MountImplementsWorkingTree`).  `View` writes the mapping
`UserTree` as a function of the two tables.  `MakeImplements`, `MoveImplements`,
`DropImplements` and `WriteImplements` map the effects to the steps of
`WorkingTree`, and what touches nothing that is listed maps to a stutter.  The
invariants above do the work: a write shows at one place since `UniqueLinks`, a
new inode shows nowhere else since `Numbered`, a rename that panics loses an empty
directory since `DetachedDirsAreEmpty` - which is why production is assumed.

**The jj commands** (`JjCommandsProofs`), for any clients, paths, states and
objects.  A step of the commands is one of `DaemonService` or `MountDies`, so its
invariant holds on (`ServiceStep`), and `CommandsFit` ties what a command is doing
to the call it has pending.  On these rests *ownership*: an init that has
registered its mount is the only one there ever is (`OneOwner`: a second one dies
in initialize), its mount stays (`OwnerHasMount`), and nothing is set before it
sets it (`NotSetYet`), operation id first, workspace id after it.  `StateIsWhole`
had first been guessed as "both ids are set together or neither"; that is false
between the two sections of `set_checkout_state`, for ever if the handler dies
there, and what holds is that a workspace id is only ever set beside the operation
id it belongs to.  A reader locks in the same order, so what it reads agrees
(`ReadsAgree`).  This gives `AnswersAreNotTorn`, `CellsAlwaysAgree` and
`StateIsSetOnce`, which assume `Careful \/ ~MayRestart`: a restart between the
calls of one init lets a second init past the assertion, after which two may
interleave, unless users avoid that.  The two runs check one disjunct each.
`InternalsAlwaysOnTheMount` assumes `~MayRestart`, since a restart unmounts what a
command then writes to.

`PoisonAlwaysHasACause` says what can be poisoned while nobody races an init.  Of
the tables it names a lost object or a dead mount; of a mount's mutexes only that
of `op_id`, in a mount that has neither id and that no init is working on.  An
init may end anywhere, so nothing says that a mount which is left gets a state.
What holds is that it has both ids or none (`AllOrNothing`): a state is half set
only while the `set_checkout_state` of a careful init is under way, in which no
mutex it needs is poisoned and nobody else is there to poison one.  A command that
finds an operation id therefore finds the workspace id too, and the panic of
`GetWorkspaceId` is out of reach.  The theorem assumes that no object of the
store is a conflict: `write_tree` of one panics, a cause of its own, which
`daemon_mounts` exercises and the commands of these runs do not.

**The insertion of a root** (`RootInitProofs`), for any threads and trees (whose
names are none of `.` and `..`: `TreesAssumption`; flattened in preorder, with
siblings of different names: `PreorderAssumption`).  What makes three threads on
one set of tables safe is that an inode below `next_inode` is in one entry only:
of a directory, or of one call of one thread (`Numbered`, `Apart`).  `CallsNest`
says what the stack of `insert_tree` looks like: a call inserts the entry its caller
made last.  `LeavesUp` then says what is whole: every entry that is published, and
those a call has made but for the one under way.  None is inductive alone: that
the node of a leaf or the content of a directory makes one entry whole and no
other less needs `Apart`.  `InodesAlwaysUnique`, `AlwaysComplete` and
`InitAlwaysHasRoot` follow.

`OneWholeTreeAlwaysShown` needs more than the tables hold: `Labelled` says that the
inodes can be labelled with the entries, of whichever thread's tree, that they were
allocated for, so that every directory lists exactly the entries below its label
and every node has the kind and object of its label.  The label of an inode is
chosen when the entry is read and never changes after it, since the inode was in no
table.  A directory of one thread therefore leads only to directories of that
thread, and the root to the children of one root.  What `Listing` and `PathsOf`
compute is then compared level by level: all that a level holds is of the tree
(`LevelsShow`), and the levels do not end before the tree does, since each goes
through one more of the directories (`LevelsReach`).

`AloneIsAlwaysOneStep` is what allows `CultivateFS` to take the insertion for one
step.  `InPreorder` says of a thread that has allocated inodes for the first n
entries, while no other has begun, what its stack and the tables are: the calls
under way have listed what they have of those n entries, all other entries are in
the tables.  That the entry read next is the (n+1)-th (`NextRead`) is where the
recursion and the counter meet the preorder: an unread entry below a read one
always has its directory on the stack, and the innermost call has the largest
index.

**A listing** (`ReaddirProofs`), for any names, replies and number of changes.
The lemmas on `Position` and `AtPosition` show that the sorted map is a bijection
from names to positions, which an addition or a removal moves by one.  Then the
offset is a fence: `Counted` (an entry beyond it was answered at most once for
each addition before it, one within it once more) and `SlipsByRemovals` (entries
within it that were never answered: each has a removal before it, and there are
no more of them than removals, because a removal moves exactly one entry past the
fence).  `QuietListingsAreExact` and `ListingsErrByTheirChanges` are consequences.

**The client**, for any threads, clones and number of calls.  What is left of a
clone is always an end of its fields in their declared order (part of
`ClientTypeCorrect`), so a clone that still has its client still has its runtime,
whatever the other threads drop: `RuntimeOutlivesClient`.

**The objects** (`ObjectStoreProofs`), for any contents, trees and commits, in any
number, of any length a `Vec` can have.  The two properties rest on what the ids
are made of, so most of the module is about encodings.

* *Delimited* encodings: neither of two begins the other, unless they are equal
  (`Delimited`).  That of a sequence is, when those of its elements are and its
  length goes before it (`SliceDelimited`), which needs that a length fits in
  `LenBytes` bytes (`LittleEndianInjective`).  `HashTreeKnown` follows: a tree is
  known from the bytes hashed for it.
* *protobuf* messages delimit nothing, and leave fields out.  What makes a commit
  known from its encoding (`CommitKnown`) is the order of the fields: a field that
  is left out is recognised by the tag that comes instead of its own, since all
  that follow are larger (`FieldThen`, `RepeatedFieldOrdered`).  A varint ends
  with the first byte below 128 (`VarintParse`); a negative time zone offset is
  its complement, which is another number than those of the positive ones
  (`ComplementKnown`).
* *Two kinds of ids in one table* never meet (`EncodingsDiffer`): the id that a
  mount computes begins with a length in eight bytes, and jj's with the tag 10
  and a length in a varint.  If they were the same bytes, the length that
  `ContentHash` wrote would be 10 modulo 256, and the varint would be read from its
  other bytes.  The length in jj's message is then at most a 256th of the mount's
  (`VarintUnderLength`), and the message is too short to be what the mount hashed.
  This needs the last byte of a length to be below 128, or the varint might go on
  into the content: `LengthsAssumption`, again.

`ObjectsAreImmutable` alone is not inductive, since nothing in it says what an id
has to do with its object.  The invariant `IInv`, which TLC evaluates without a
violation on the instance of `object_store`, adds it: `TablesFit` (an id is an
encoding of what is stored under it, by jj or by a mount), `WrittenIsKept` (what
jj wrote is stored as the conversions of that object make it) and `ReplyIsLoaded`
(jj's last answer is made of what is stored, or is the root commit, whose id no
commit has).  A write under an id that is taken then writes the object that is
there (`Unique`, from the encodings), so that `ObjectsStay`; and the conversions
are inverse to each other on what does not panic (`CompressedBack`, `TreeBack`,
`CommitBack`), which gives `JjReadsItsWrites`.

The prover knows of recursion only what is derived from a definition by `CHOOSE`:
`Recursion` shows that a function on the natural numbers that looks one step back
exists, from which `Weight` and the joins of `FlattenSeq` get their equations, and
`VarintEquation` does the same for `Varint`, which looks back from n to n \div 128.

**Only model-checked**: liveness (`EveryCallAnswered`, `EveryCommandEnds`,
`ListingEnds`, `EveryCallReturns`: the prover handles neither fairness nor
ENABLED); and the property of `HashTypes`, since maps and sets are hashed in the
order that `SetToSortSeq` chooses, of which nothing is known for a set of any size
(the types that the store hashes, slices, bytes, pairs and `TreeEntry`, are proved
about in `ObjectStoreProofs`).  The refinement of `WorkingTree` is proved for mounts
in production only, where it is claimed.

## 6. What is not modelled, and the plan

Not modelled:

* the **rewritten daemon** (`daemon/src`) and the **control service**, whose
  handlers are `todo!()` or `unimplemented!()`: they have no behaviour yet;
* `deinit_repo`, which only the tests call, once each, when they are done;
* a **poisoned mutex of trees in `RootInit`**: a mount whose init dies on it has
  no root (`InitSession` of `CultivateFS`), and `RootInit` is about the roots that
  are inserted;
* **permission bits**: every node is made with mode 0o777 and none is ever
  changed, with which `check_access` grants every request; and times, owners and
  xattrs;
* the **size in setattr**: the handler ignores it and answers success, and so does
  the model; no document of the repository promises that a file can be truncated;
* the **cast to u32** of the bytes left in a file (`fs.rs:559`): it differs from
  the identity from 4 GiB on, and files are held in memory;
* the **wire format** of the messages that are not hashed, generated code, logging,
  command-line parsing and start-up;
* zstd beyond that it frames its input: `ObjectStore` shows that jj reads its own
  files back.  Whoever read one of jj's files through the store directly, as a
  mount would, would see the frame.

Every safety property that a passing run checks is stated by a theorem.  What the
model may gain next depends on the code: the rewritten daemon and the control
service, once their handlers do something.
