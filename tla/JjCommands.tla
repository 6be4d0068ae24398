----------------------------- MODULE JjCommands -----------------------------
(***************************************************************************)
(* The jj processes that drive DaemonService, with the calls that          *)
(* cli/src/main.rs and cli/src/working_copy.rs make, in their order.       *)
(*                                                                         *)
(*   jj cultivate init    initialize, then set_checkout_state              *)
(*   any other command    asks for the checkout and tree state when it     *)
(*                        needs them, each at most once for a working copy *)
(*                        (OnceCell), and may start a mutation, which      *)
(*                        works on a working copy of its own               *)
(*                                                                         *)
(* and, in either, objects written and read by the ids jj remembers.  A    *)
(* command unwraps every answer: an error ends it.  Several run at once;   *)
(* the lock that start_mutation takes is a stub.                           *)
(*                                                                         *)
(* The mounts of the daemon work on the same store.  What a mount does to  *)
(* it, CultivateFS shows in detail; here it is MountDies.                  *)
(***************************************************************************)
EXTENDS DaemonService, Naturals, Sequences

CONSTANTS
  MayRestart, \* whether the daemon may stop and start again
  MountsDie,  \* whether the sessions of mounts may panic
  Careful     \* TRUE: nothing else runs in a directory during its init, and a
              \* directory is initialized once in the life of a daemon

ASSUME SwitchesAssumption ==
  Careful \in BOOLEAN /\ MayRestart \in BOOLEAN /\ MountsDie \in BOOLEAN

VARIABLES
  command,   \* the command each client runs: its directory and what it does
  copies,    \* its CultivateWorkingCopy, and behind it the locked one, if any
  known,     \* the ids of objects that jj has been given
  dead       \* the paths whose FUSE session has panicked

jjVars == <<vars, command, copies, known, dead>>

NoCommand == [path |-> Unset, doing |-> "nothing"]
Doing(c, what) == command[c].doing \in what /\ call[c] = Idle
GoOn(c, what) == command' = [command EXCEPT ![c].doing = what]

\* The OnceCells of a working copy: the checkout state, and whether the tree
\* state is known (it never changes).  current is no field of the code: it
\* says that the daemon has not restarted since the working copy was made.
NoCells == [checkout |-> Unset, tree |-> FALSE, current |-> TRUE]
InUse(c) == copies[c][Len(copies[c])]
Filled(c, cells) == [copies EXCEPT ![c][Len(copies[c])] = cells]

Busy(p) == \E c \in Clients : command[c].path = p
InInit(c) == command[c].doing \in {"initialize", "set_checkout_state"}
Initializing(p) == \E c \in Clients : command[c].path = p /\ InInit(c)

-----------------------------------------------------------------------------
(* jj cultivate init.  The checkout state a client sets is its own.        *)

BeginInit(c, p, s) ==
  /\ command[c] = NoCommand /\ call[c] = Idle
  /\ Careful => ~Busy(p) /\ p \notin DOMAIN mounts /\ p \in Mountable
  /\ CallMount(c, "initialize", p, s)
  /\ command' = [command EXCEPT ![c] = [path |-> p, doing |-> "initialize"]]
  /\ UNCHANGED <<copies, known, dead>>

InitWorkingCopy(c, s) ==
  /\ Doing(c, {"initialize"})
  /\ CallMount(c, "set_checkout_state", command[c].path, s)
  /\ GoOn(c, "set_checkout_state")
  /\ UNCHANGED <<copies, known, dead>>

-----------------------------------------------------------------------------
(* Any other command.                                                      *)

AnyState == CHOOSE s \in States : TRUE    \* what these calls do not look at
Ask(c, rpc) == CallMount(c, rpc, command[c].path, AnyState)

\* load_working_copy calls nothing.
Load(c, p) ==
  /\ command[c] = NoCommand /\ call[c] = Idle
  /\ Careful => ~Initializing(p)
  /\ command' = [command EXCEPT ![c] = [path |-> p, doing |-> "work"]]
  /\ copies' = [copies EXCEPT ![c] = <<NoCells>>]
  /\ UNCHANGED <<vars, known, dead>>

\* workspace_id, operation_id and tree_id ask the daemon if the cell is empty.
ReadCheckoutState(c) ==
  /\ Doing(c, {"work", "finished"}) /\ InUse(c).checkout = Unset
  /\ Ask(c, "get_checkout_state")
  /\ UNCHANGED <<command, copies, known, dead>>

ReadTreeState(c) ==
  /\ Doing(c, {"work", "finished"}) /\ ~InUse(c).tree
  /\ Ask(c, "get_tree_state")
  /\ UNCHANGED <<command, copies, known, dead>>

\* start_mutation makes a working copy with empty cells; and a faulty variant
\* that clones them with the rest.
ClonedCells(c) == [InUse(c) EXCEPT !.current = TRUE]
EmptyCells(c) == NoCells

\* It then reads both states through it: the old operation id and tree id.
StartMutation(c) ==
  /\ Doing(c, {"work", "finished"})
  /\ copies' = [copies EXCEPT ![c] = Append(@, EmptyCells(c))]
  /\ GoOn(c, "start_mutation")
  /\ UNCHANGED <<vars, known, dead>>

ReadOldOperationId(c) ==
  /\ Doing(c, {"start_mutation"}) /\ InUse(c).checkout = Unset
  /\ Ask(c, "get_checkout_state")
  /\ UNCHANGED <<command, copies, known, dead>>

ReadOldTreeId(c) ==
  /\ Doing(c, {"start_mutation"}) /\ InUse(c).checkout # Unset /\ ~InUse(c).tree
  /\ Ask(c, "get_tree_state")
  /\ UNCHANGED <<command, copies, known, dead>>

\* The LockedWorkingCopy is returned.
Mutating(c) ==
  \/ command[c].doing = "start_mutation" /\ InUse(c).checkout # Unset /\ InUse(c).tree
  \/ command[c].doing = "snapshot"

Snapshot(c) ==
  /\ Doing(c, {"start_mutation"}) /\ Mutating(c)
  /\ Ask(c, "snapshot")
  /\ GoOn(c, "snapshot")
  /\ UNCHANGED <<copies, known, dead>>

\* check_out, reset and recover are todo!().
CheckOut(c) ==
  /\ Doing(c, {"start_mutation", "snapshot"}) /\ Mutating(c)
  /\ GoOn(c, "failed")
  /\ UNCHANGED <<vars, copies, known, dead>>

\* finish: the working copy of the mutation takes the place of the first, with
\* its cells; the operation id it is given goes nowhere.
Finish(c) ==
  /\ Doing(c, {"start_mutation", "snapshot"}) /\ Mutating(c)
  /\ copies' = [copies EXCEPT ![c] = <<InUse(c)>>]
  /\ GoOn(c, "finished")
  /\ UNCHANGED <<vars, known, dead>>

Leaves(c) ==
  /\ command' = [command EXCEPT ![c] = NoCommand]
  /\ copies' = [copies EXCEPT ![c] = << >>]
  /\ UNCHANGED <<vars, known, dead>>

\* The command has nothing left to do, or has unwrapped an error.
End(c) == Doing(c, {"set_checkout_state", "work", "finished", "failed"}) /\ Leaves(c)

\* It ends with its work half done: an init, once mounted, at the assertion
\* about its directory, or with an error of the signer, of a store or of
\* another step of jj's; any command, when it is killed.  (Of one that is
\* killed during a call the handler runs on: it counts as running till then.)
GivesUp(c) == Doing(c, {"initialize", "start_mutation", "snapshot"}) /\ Leaves(c)

-----------------------------------------------------------------------------
\* CultivateBackend, between these calls: an object is written, and its id is
\* remembered once the daemon answers; only remembered ids are read.  A commit
\* without parents is refused before any call, and an init reads only the root
\* commit, made in place, and the empty tree.
WriteObjectOf(c, table, o) ==
  /\ Doing(c, {"initialize", "work", "start_mutation", "finished"})
  /\ ~IsRefused(table, o)
  /\ CallObject(c, "write", table, o)
  /\ UNCHANGED <<command, copies, known, dead>>

ReadObjectOf(c, id) ==
  /\ Doing(c, {"work", "start_mutation", "finished"})
  /\ CallObject(c, "read", id[1], id[2])
  /\ UNCHANGED <<command, copies, known, dead>>

\* unwrap; and a faulty variant that goes on with an error.
Ignored(answer) == TRUE
Unwrapped(answer) == answer.res \in {"ok", "state"}

\* What the client learns from an answer: a cell is filled by get_or_init, and
\* an error is unwrapped.
Learn(c) ==
  LET rpc    == call[c].rpc
      answer == reply'[c]
  IN  /\ copies' = IF answer.res = "state"
                     THEN Filled(c, [InUse(c) EXCEPT
                            !.checkout = <<answer.op_id, answer.workspace_id>>])
                   ELSE IF rpc = "get_tree_state" /\ answer = Ok
                     THEN Filled(c, [InUse(c) EXCEPT !.tree = TRUE])
                   ELSE copies
      /\ IF Unwrapped(answer) THEN UNCHANGED command ELSE GoOn(c, "failed")
      /\ known' = IF rpc = "write" /\ answer = Ok
                    THEN known \cup {<<call[c].table, call[c].id>>} ELSE known

Serve(c) ==
  /\ Step(c)
  /\ IF call'[c] = Idle THEN Learn(c) ELSE UNCHANGED <<command, copies, known>>
  /\ UNCHANGED dead

\* The session of a mount panics.  It may do so with the mutex of files or of
\* symlinks locked, and of no other; its BackgroundSession stays.
MountDies(p, held) ==
  /\ MountsDie /\ p \in fuse_sessions \ dead
  /\ held \subseteq {TableOf(t) : t \in Tables \cap {"files", "symlinks"}}
  /\ poisoned' = poisoned \cup held
  /\ dead' = dead \cup {p}
  /\ UNCHANGED <<mounts, holder, fuse_sessions, stored, call, reply, command, copies, known>>

\* A client whose call was under way gets an error.
RestartDaemon ==
  /\ MayRestart /\ Restart
  /\ command' = [c \in Clients |->
       IF call[c] = Idle THEN command[c] ELSE [command[c] EXCEPT !.doing = "failed"]]
  /\ copies' = [c \in Clients |->
       [k \in DOMAIN copies[c] |-> [copies[c][k] EXCEPT !.current = FALSE]]]
  /\ dead' = {}
  /\ UNCHANGED known

-----------------------------------------------------------------------------
JjInit ==
  /\ Init
  /\ command = [c \in Clients |-> NoCommand]
  /\ copies = [c \in Clients |-> << >>]
  /\ known = {}
  /\ dead = {}

\* What a command does when it is not waiting for the daemon.
Proceed(c) ==
  \/ \E s \in States : InitWorkingCopy(c, s)
  \/ ReadCheckoutState(c) \/ ReadTreeState(c)
  \/ StartMutation(c) \/ ReadOldOperationId(c) \/ ReadOldTreeId(c)
  \/ Snapshot(c) \/ CheckOut(c) \/ Finish(c)
  \/ End(c)

JjNext ==
  \/ RestartDaemon
  \/ \E p \in Paths : \E t \in Tables : MountDies(p, {TableOf(t)}) \/ MountDies(p, {})
  \/ \E c \in Clients :
       \/ \E p \in Paths : Load(c, p) \/ \E s \in States : BeginInit(c, p, s)
       \/ Proceed(c) \/ GivesUp(c)
       \/ \E table \in Tables : \E o \in Objects : WriteObjectOf(c, table, o)
       \/ \E id \in known : ReadObjectOf(c, id)
       \/ Serve(c)

\* A running command runs on, the daemon serves it, and it does not start one
\* mutation after another for ever.
JjFairness ==
  \A c \in Clients : WF_jjVars(Serve(c)) /\ WF_jjVars(Proceed(c)) /\ SF_jjVars(End(c))

JjSpec == JjInit /\ [][JjNext]_jjVars /\ JjFairness

-----------------------------------------------------------------------------
\* What the daemon answers as the checkout state of a directory was set by one
\* command: its operation id and its workspace id belong together, although
\* they are written and read in two sections each.  It holds because only one
\* init can get past initialize in the life of a daemon.  (A restart between
\* the two calls of an init lets another one in.)
CheckoutStateIsNotTorn ==
  \A c \in Clients :
    reply[c].res = "state" => reply[c].op_id = reply[c].workspace_id

\* The state of a directory, once set, is not set again: a second init dies of
\* the assertion in initialize_repo before it reaches set_checkout_state.
CheckoutStateIsSetOnce ==
  [][ \A p \in DOMAIN mounts :
        p \in DOMAIN mounts' /\ mounts[p].op_id # Unset =>
          \/ mounts'[p].op_id = mounts[p].op_id
          \/ mounts' = EmptyMap ]_jjVars

\* "We need to tell the daemon to mount the filesystem BEFORE we initalize the
\* core jj internals": from the answer to its initialize on, the directory of
\* an init is mounted, and the mount is one the daemon knows.
InternalsAreOnTheMount ==
  \A c \in Clients :
    InInit(c) /\ (call[c] = Idle \/ call[c].rpc # "initialize") =>
      command[c].path \in fuse_sessions \cap DOMAIN mounts

\* Nothing invalidates the OnceCells of a working copy, and nothing has to: a
\* working copy made since the daemon started, that of a mutation included,
\* holds the checkout state the daemon holds now, whatever other commands do.
\* (So a mutation starts from the operation id of the init: what finish was
\* given by the mutations before it is not there.)
CellsAgreeWithDaemon ==
  \A c \in Clients : \A k \in DOMAIN copies[c] :
    LET cells == copies[c][k]
        p     == command[c].path
    IN  cells.current /\ cells.checkout # Unset =>
          /\ p \in DOMAIN mounts
          /\ cells.checkout = <<mounts[p].op_id, mounts[p].workspace_id>>

\* While no command runs beside an init, a poisoned table is one that lost, in
\* a restart, an object whose id jj still holds, or the files or symlinks that
\* a mount died on: no mount can poison the commits and the trees.  No user
\* with care poisons mounts, and of a single mount only the operation id of one
\* that an init left behind without a checkout state: it could not write, gave
\* up or was killed, and a command that then asks for the state panics.  (jj
\* may not get that far in a directory half made; the daemon does not count on
\* it.)
PoisonHasACause ==
  Careful =>
    /\ \A t \in Tables : TableOf(t) \in poisoned =>
         \/ \E id \in known \ stored : id[1] = t
         \/ t \in {"files", "symlinks"} /\ dead # {}
    /\ Mounts \notin poisoned
    /\ \A p \in Paths :
         /\ WorkspaceId(p) \notin poisoned
         /\ OpId(p) \in poisoned =>
              /\ p \in DOMAIN mounts /\ ~Initializing(p)
              /\ mounts[p].op_id = Unset /\ mounts[p].workspace_id = Unset

\* Every command comes to its end, whatever others it races and whichever
\* mutexes they poison on their way.  (Checked without Objects: a command writes
\* and reads finitely many.)
EveryCommandEnds ==
  \A c \in Clients : command[c] # NoCommand ~> command[c] = NoCommand

=============================================================================
