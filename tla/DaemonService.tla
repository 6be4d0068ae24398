--------------------------- MODULE DaemonService ----------------------------
(***************************************************************************)
(* The gRPC service of the daemon (daemon-old/src/service/backend.rs) over *)
(* the table of mounts (repo_manager.rs), the checkout state of each mount *)
(* (mount_store.rs) and the object store (store.rs).                       *)
(*                                                                         *)
(* tonic runs the handlers on several threads.  What they share is behind  *)
(* std mutexes, so the atomic step is the critical section: between two    *)
(* sections of a handler the others run.  A handler that panics answers    *)
(* an error, and poisons the mutexes it holds: every later lock().unwrap() *)
(* of such a mutex panics too.  No handler awaits, so a client that gives  *)
(* up does not stop the handler it called.                                 *)
(***************************************************************************)
EXTENDS FiniteSets, Maps

CONSTANTS
  Clients,       \* processes that call the service, one call at a time each
  Paths,         \* working copy paths
  Mountable,     \* those at which a FUSE session can be mounted
  States,        \* checkout states: an operation id with a workspace id
  Tables,        \* the tables of the store that are used
  Objects,       \* objects of the store, as the ids they are found by
  Conflicts,     \* trees that hold a conflict
  Nested,        \* trees that hold anything but files
  Parentless,    \* commits without parents
  Unset          \* Option::None

ASSUME UnsetAssumption == Unset \notin States \cup Paths \cup Clients
ASSUME MountableAssumption == Mountable \subseteq Paths
ASSUME StatesAssumption == States # {}
ASSUME TablesAssumption == Tables \subseteq {"commits", "files", "symlinks", "trees"}
ASSUME ConflictsAssumption == Conflicts \subseteq Nested

VARIABLES
  mounts,        \* RepoManager.mounts: the MountStore of each path
  holder,        \* the client whose handler holds the mutex of mounts
  fuse_sessions, \* RepoManager.fuse_sessions, as the paths mounted
  stored,        \* Store.commits, files, symlinks, trees: <<table, id>>
  poisoned,      \* the poisoned mutexes
  call,          \* the handler that runs for each client, and where it is
  reply          \* the last answer to each client

vars == <<mounts, holder, fuse_sessions, stored, poisoned, call, reply>>

MountRpcs == {"initialize", "get_tree_state", "get_checkout_state",
              "set_checkout_state", "snapshot"}
ObjectRpcs == {"write", "read"}

Idle == [rpc |-> "none"]

\* MountStore::new; and a faulty variant that starts with default values.
DefaultMount == [op_id |-> "default", workspace_id |-> "default"]
NewMount == [op_id |-> Unset, workspace_id |-> Unset]

\* The mutexes: that of mounts, those of the tables, and two of each mount.
Mounts == <<"mounts">>
TableOf(t) == <<t>>
OpId(p) == <<"op_id", p>>
WorkspaceId(p) == <<"workspace_id", p>>

-----------------------------------------------------------------------------
(* Calls and answers.                                                      *)

CallMount(c, rpc, p, s) ==
  /\ call[c] = Idle
  /\ call' = [call EXCEPT ![c] =
                [rpc |-> rpc, path |-> p, state |-> s, at |-> "mounts", op_id |-> Unset]]
  /\ UNCHANGED <<mounts, holder, fuse_sessions, stored, poisoned, reply>>

CallObject(c, rpc, table, o) ==
  /\ call[c] = Idle
  /\ call' = [call EXCEPT ![c] = [rpc |-> rpc, table |-> table, id |-> o, at |-> "table"]]
  /\ UNCHANGED <<mounts, holder, fuse_sessions, stored, poisoned, reply>>

At(c, section) == call[c] # Idle /\ call[c].at = section
GoTo(c, section) == call' = [call EXCEPT ![c].at = section] /\ UNCHANGED reply

Answer(c, a) == call' = [call EXCEPT ![c] = Idle] /\ reply' = [reply EXCEPT ![c] = a]
Ok == [res |-> "ok"]

\* A panic while the mutexes of held are locked; unwinding unlocks them.
Panic(c, held) ==
  /\ Answer(c, [res |-> "panic"])
  /\ poisoned' = poisoned \cup held

-----------------------------------------------------------------------------
(* RepoManager::get, the first section of every handler on a mount.        *)

\* Its guard is gone when the handler unwraps the answer, so that a panic for
\* want of the mount poisons nothing; and a faulty variant that unwraps first.
HeldThroughUnwrap == {Mounts}
HeldAfterGet == {}

AfterGet(rpc) ==
  CASE rpc = "get_checkout_state" -> "get_op_id"
    [] rpc = "set_checkout_state" -> "set_op_id"
    [] OTHER -> "get_tree_id"

GetMount(c) ==
  /\ At(c, "mounts") /\ call[c].rpc # "initialize"
  /\ holder = Unset
  /\ IF Mounts \in poisoned \/ call[c].path \notin DOMAIN mounts
       THEN Panic(c, HeldAfterGet)
       ELSE GoTo(c, AfterGet(call[c].rpc)) /\ UNCHANGED poisoned
  /\ UNCHANGED <<mounts, holder, fuse_sessions, stored>>

\* get_tree_state and snapshot: the tree id of a mount is never written, and
\* snapshot does not look at the mount's files.
GetTreeId(c) ==
  /\ At(c, "get_tree_id")
  /\ Answer(c, Ok)
  /\ UNCHANGED <<mounts, holder, fuse_sessions, stored, poisoned>>

\* get_checkout_state, its two sections.
GetOpId(c) ==
  LET p == call[c].path
  IN  /\ At(c, "get_op_id")
      /\ IF OpId(p) \in poisoned \/ mounts[p].op_id = Unset
           THEN Panic(c, {OpId(p)})
           ELSE /\ call' = [call EXCEPT ![c].at = "get_workspace_id",
                                        ![c].op_id = mounts[p].op_id]
                /\ UNCHANGED <<poisoned, reply>>
      /\ UNCHANGED <<mounts, holder, fuse_sessions, stored>>

GetWorkspaceId(c) ==
  LET p == call[c].path
  IN  /\ At(c, "get_workspace_id")
      /\ IF WorkspaceId(p) \in poisoned \/ mounts[p].workspace_id = Unset
           THEN Panic(c, {WorkspaceId(p)})
           ELSE /\ Answer(c, [res |-> "state", op_id |-> call[c].op_id,
                              workspace_id |-> mounts[p].workspace_id])
                /\ UNCHANGED poisoned
      /\ UNCHANGED <<mounts, holder, fuse_sessions, stored>>

\* SetOpId, faulty: into_inner() takes the value out of a poisoned mutex.
RecoveringSetOpId(c) ==
  /\ At(c, "set_op_id")
  /\ mounts' = [mounts EXCEPT ![call[c].path].op_id = call[c].state]
  /\ GoTo(c, "set_workspace_id")
  /\ UNCHANGED <<holder, fuse_sessions, stored, poisoned>>

\* set_checkout_state, its two sections.
SetOpId(c) ==
  LET p == call[c].path
  IN  /\ At(c, "set_op_id")
      /\ IF OpId(p) \in poisoned
           THEN Panic(c, {}) /\ UNCHANGED mounts
           ELSE /\ mounts' = [mounts EXCEPT ![p].op_id = call[c].state]
                /\ GoTo(c, "set_workspace_id")
                /\ UNCHANGED poisoned
      /\ UNCHANGED <<holder, fuse_sessions, stored>>

SetWorkspaceId(c) ==
  LET p == call[c].path
  IN  /\ At(c, "set_workspace_id")
      /\ IF WorkspaceId(p) \in poisoned
           THEN Panic(c, {}) /\ UNCHANGED mounts
           ELSE /\ mounts' = [mounts EXCEPT ![p].workspace_id = call[c].state]
                /\ Answer(c, Ok)
                /\ UNCHANGED poisoned
      /\ UNCHANGED <<holder, fuse_sessions, stored>>

-----------------------------------------------------------------------------
(* initialize: the mutex of mounts is held from the test of the path until *)
(* the FUSE session runs.                                                  *)

\* The assertion that the path is new; and a faulty variant without it.
AnyPath(p) == TRUE
IsNewPath(p) == p \notin DOMAIN mounts

\* Who holds mounts once the entry is in; and a faulty variant that unlocks.
NoHolder(c) == Unset
InitializeHolds(c) == c

\* Who holds mounts after a panic; and a faulty variant that leaks the guard.
LeakedGuard(c) == c
AfterUnwinding(c) == Unset

InsertMount(c) ==
  LET p == call[c].path
  IN  /\ At(c, "mounts") /\ call[c].rpc = "initialize"
      /\ holder = Unset
      /\ IF Mounts \notin poisoned /\ IsNewPath(p)
           THEN /\ mounts' = Put(mounts, p, NewMount)
                /\ holder' = InitializeHolds(c)
                /\ GoTo(c, "session")
                /\ UNCHANGED poisoned
           ELSE /\ Panic(c, {Mounts})
                /\ holder' = AfterUnwinding(c)
                /\ UNCHANGED mounts
      /\ UNCHANGED <<fuse_sessions, stored>>

\* StartSession, faulty: a session that cannot be mounted is only reported.
ReportingStartSession(c) ==
  LET p == call[c].path
  IN  /\ At(c, "session")
      /\ holder' = Unset
      /\ Answer(c, IF p \in Mountable THEN Ok ELSE [res |-> "error"])
      /\ fuse_sessions' = fuse_sessions \cup ({p} \cap Mountable)
      /\ UNCHANGED <<mounts, stored, poisoned>>

\* is_dir, Session::new and spawn; a failure leaves the entry in mounts.
StartSession(c) ==
  LET p == call[c].path
  IN  /\ At(c, "session")
      /\ holder' = Unset
      /\ IF p \in Mountable
           THEN /\ fuse_sessions' = fuse_sessions \cup {p}
                /\ Answer(c, Ok)
                /\ UNCHANGED poisoned
           ELSE Panic(c, {Mounts}) /\ UNCHANGED fuse_sessions
      /\ UNCHANGED <<mounts, stored>>

-----------------------------------------------------------------------------
(* The object handlers: one section each.  The empty tree, which is always *)
(* stored, is none of Objects.                                             *)

\* write_commit refuses a commit without parents before it locks.
IsRefused(table, o) == table = "commits" /\ o \in Parentless

\* write_tree hashes the tree under the lock, which is todo!() for a conflict.
HashPanics(table, o) == table = "trees" /\ o \in Conflicts

\* read_tree turns the entries into proto, which is todo!() for all but files.
AsProtoPanics(table, o) == table = "trees" /\ o \in Nested

WriteObject(c) ==
  LET table == call[c].table
      o     == call[c].id
      dies  == TableOf(table) \in poisoned \/ HashPanics(table, o)
  IN  /\ At(c, "table") /\ call[c].rpc = "write"
      /\ \/ /\ IsRefused(table, o)
            /\ Answer(c, [res |-> "error"])
            /\ UNCHANGED <<stored, poisoned>>
         \/ /\ ~IsRefused(table, o) /\ dies
            /\ Panic(c, {TableOf(table)})
            /\ UNCHANGED stored
         \/ /\ ~IsRefused(table, o) /\ ~dies
            /\ stored' = stored \cup {<<table, o>>}
            /\ Answer(c, Ok)
            /\ UNCHANGED poisoned
      /\ UNCHANGED <<mounts, holder, fuse_sessions>>

\* read_file, read_symlink and read_commit unwrap what the table holds under
\* its lock; read_tree has released the lock when it unwraps.
ReadObject(c) ==
  LET table == call[c].table
      o     == call[c].id
      held  == IF table = "trees" THEN {} ELSE {TableOf(table)}
  IN  /\ At(c, "table") /\ call[c].rpc = "read"
      /\ IF TableOf(table) \in poisoned \/ <<table, o>> \notin stored \/ AsProtoPanics(table, o)
           THEN Panic(c, held)
           ELSE Answer(c, Ok) /\ UNCHANGED poisoned
      /\ UNCHANGED <<mounts, holder, fuse_sessions, stored>>

-----------------------------------------------------------------------------
Step(c) ==
  \/ GetMount(c) \/ GetTreeId(c) \/ GetOpId(c) \/ GetWorkspaceId(c)
  \/ SetOpId(c) \/ SetWorkspaceId(c)
  \/ InsertMount(c) \/ StartSession(c)
  \/ WriteObject(c) \/ ReadObject(c)

\* The daemon stops and starts again: everything it kept was in memory, and
\* the calls under way fail at the client.
Restart ==
  /\ mounts' = EmptyMap
  /\ holder' = Unset
  /\ fuse_sessions' = {}
  /\ stored' = {}
  /\ poisoned' = {}
  /\ call' = [c \in Clients |-> Idle]
  /\ reply' = [c \in Clients |->
                 IF call[c] = Idle THEN reply[c] ELSE [res |-> "unavailable"]]

Init ==
  /\ mounts = EmptyMap
  /\ holder = Unset
  /\ fuse_sessions = {}
  /\ stored = {}
  /\ poisoned = {}
  /\ call = [c \in Clients |-> Idle]
  /\ reply = [c \in Clients |-> [res |-> "none"]]

\* Clients that call anything, in any order.
AnyCall(c) ==
  \/ \E rpc \in MountRpcs : \E p \in Paths : \E s \in States : CallMount(c, rpc, p, s)
  \/ \E rpc \in ObjectRpcs : \E table \in Tables : \E o \in Objects :
       CallObject(c, rpc, table, o)

Next == Restart \/ \E c \in Clients : AnyCall(c) \/ Step(c)

\* tonic's threads are never all blocked: a mutex is only held by a handler
\* that runs, so every section is reached.  The clients owe nothing.
Fairness == \A c \in Clients : WF_vars(Step(c))

Spec == Init /\ [][Next]_vars /\ Fairness

-----------------------------------------------------------------------------
Checkouts == States \cup {Unset}
MountCalls ==
  [rpc : MountRpcs, path : Paths, state : States, op_id : Checkouts,
   at : {"mounts", "get_tree_id", "get_op_id", "get_workspace_id",
         "set_op_id", "set_workspace_id", "session"}]
ObjectCalls == [rpc : ObjectRpcs, table : Tables, id : Objects, at : {"table"}]

\* Every variable holds values of its type.
TypeOK ==
  /\ DOMAIN mounts \subseteq Paths
  /\ \A p \in DOMAIN mounts :
       mounts[p] \in [op_id : Checkouts, workspace_id : Checkouts]
  /\ holder \in Clients \cup {Unset}
  /\ fuse_sessions \subseteq Paths
  /\ stored \subseteq Tables \X Objects
  /\ poisoned \subseteq {TableOf(t) : t \in Tables} \cup {Mounts}
                   \cup {OpId(p) : p \in Paths} \cup {WorkspaceId(p) : p \in Paths}
  /\ call \in [Clients -> {Idle} \cup MountCalls \cup ObjectCalls]

\* The mutex of mounts is held exactly while one initialize starts its
\* session: neither a panic nor an answer leaves it locked, so no other
\* handler waits for ever.
MountsHeldByInitialize ==
  \A c \in Clients : (holder = c) = At(c, "session")

\* A handler between its sections works on a mount that is still there, with
\* the checkout state it found: no initialize of another client replaces the
\* MountStore of a path a handler has already looked up.
CallsKeepTheirMount ==
  \A c \in Clients :
    call[c] # Idle /\ call[c].at \notin {"mounts", "table"} =>
      /\ call[c].path \in DOMAIN mounts
      /\ call[c].at = "get_workspace_id" => mounts[call[c].path].op_id # Unset
      /\ call[c].at = "set_workspace_id" => mounts[call[c].path].op_id # Unset

\* Only asking for a checkout state too early poisons the mutexes of a mount,
\* and the state it asked for then stays unset until the daemon restarts: once
\* a state is set, nothing any client does takes it away.
PoisonedStateIsUnset ==
  \A p \in DOMAIN mounts :
    /\ OpId(p) \in poisoned => mounts[p].op_id = Unset
    /\ WorkspaceId(p) \in poisoned => mounts[p].workspace_id = Unset

\* A FUSE session runs at a path only if the path is in mounts, and at every
\* path in mounts but one whose initialize is under way or has failed (and
\* then no handler can look up a mount any more).
SessionsAreMounted ==
  /\ fuse_sessions \subseteq DOMAIN mounts
  /\ \A p \in DOMAIN mounts \ fuse_sessions :
       Mounts \in poisoned \/ \E c \in Clients : holder = c /\ call[c].path = p

\* Every call is answered, whatever the other clients call and however often
\* the daemon panics or restarts.
EveryCallAnswered == \A c \in Clients : call[c] # Idle ~> call[c] = Idle

=============================================================================
