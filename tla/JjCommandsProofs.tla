-------------------------- MODULE JjCommandsProofs --------------------------
(***************************************************************************)
(* Proofs about JjCommands, for any clients, paths, states and objects: a  *)
(* checkout state is never torn and never set twice, what a command has    *)
(* cached of it is what the daemon holds, and every poisoned mutex has a   *)
(* cause that one can name.                                                *)
(***************************************************************************)
EXTENDS JjCommands, DaemonServiceProofs

-----------------------------------------------------------------------------
(* The state of commands, and which calls each of them makes.              *)

Working == {"work", "start_mutation", "snapshot", "finished"}
Doings == Working \cup {"nothing", "initialize", "set_checkout_state", "failed"}
Cells == [checkout : {Unset} \cup (States \X States), tree : BOOLEAN, current : BOOLEAN]

CommandsTypeOK ==
  /\ command \in [Clients -> [path : Paths \cup {Unset}, doing : Doings]]
  /\ copies \in [Clients -> Seq(Cells)]
  /\ known \subseteq Tables \X Objects
  /\ DOMAIN reply = Clients

\* The call of a client is one that its command makes, on the path it is about.
CallFits(c) ==
  LET doing == command[c].doing
  IN  \/ call[c] = Idle
      \/ /\ doing = "initialize" /\ call[c].rpc = "initialize"
         /\ call[c].at \in {"mounts", "session"} /\ call[c].path = command[c].path
      \/ /\ doing = "set_checkout_state" /\ call[c].rpc = "set_checkout_state"
         /\ call[c].at \in {"mounts", "set_op_id", "set_workspace_id"}
         /\ call[c].path = command[c].path
      \/ /\ doing \in Working
         /\ call[c].rpc \in {"get_checkout_state", "get_tree_state", "snapshot"}
         /\ call[c].at \in {"mounts", "get_op_id", "get_workspace_id", "get_tree_id"}
         /\ call[c].at = "get_workspace_id" => call[c].op_id \in States
         /\ call[c].path = command[c].path
      \/ /\ doing \in Working \cup {"initialize"} /\ call[c].at = "table"
         /\ \/ call[c].rpc = "write" /\ ~IsRefused(call[c].table, call[c].id)
            \/ /\ call[c].rpc = "read" /\ <<call[c].table, call[c].id>> \in known
               /\ doing # "initialize"

CommandFits(c) ==
  /\ command[c].doing = "nothing" => command[c] = NoCommand /\ copies[c] = << >>
  /\ command[c].doing # "nothing" => command[c].path \in Paths
  /\ command[c].doing \in Working => copies[c] # << >>
  /\ InInit(c) => copies[c] = << >>
  /\ CallFits(c)

CommandsFit == CommandsTypeOK /\ \A c \in Clients : CommandFits(c)

-----------------------------------------------------------------------------
(* What a step of a client or of its handler does.                         *)

\* The other clients notice nothing.
OthersKept(c) ==
  /\ dead' = dead
  /\ \A d \in Clients \ {c} : /\ call'[d] = call[d] /\ reply'[d] = reply[d]
                              /\ command'[d] = command[d] /\ copies'[d] = copies[d]

\* jj cultivate init begins with its first call.
StartsInit(c, p) ==
  /\ call[c] = Idle /\ command[c] = NoCommand
  /\ Careful => ~Busy(p) /\ p \notin DOMAIN mounts /\ p \in Mountable
  /\ call'[c] # Idle /\ call'[c].rpc = "initialize" /\ call'[c].at = "mounts" /\ call'[c].path = p
  /\ command'[c] = [path |-> p, doing |-> "initialize"]
  /\ UNCHANGED <<mounts, fuse_sessions, stored, poisoned, reply, copies, known>>

SetsState(c) ==
  /\ call[c] = Idle /\ command[c].doing = "initialize"
  /\ call'[c] # Idle /\ call'[c].rpc = "set_checkout_state" /\ call'[c].at = "mounts"
  /\ call'[c].path = command[c].path /\ call'[c].state \in States
  /\ command'[c] = [path |-> command[c].path, doing |-> "set_checkout_state"]
  /\ UNCHANGED <<mounts, fuse_sessions, stored, poisoned, reply, copies, known>>

\* A command asks for a state or for a snapshot.
Asks(c) ==
  /\ call[c] = Idle /\ command[c].doing \in Working
  /\ call'[c] # Idle /\ call'[c].rpc \in {"get_checkout_state", "get_tree_state", "snapshot"}
  /\ call'[c].at = "mounts" /\ call'[c].path = command[c].path
  /\ command'[c].path = command[c].path /\ command'[c].doing \in Working
  /\ UNCHANGED <<mounts, fuse_sessions, stored, poisoned, reply, copies, known>>

\* A command calls for an object: one it may write, or one whose id it knows.
CallsForObject(c) ==
  /\ call[c] = Idle /\ command[c].doing \in Working \cup {"initialize"}
  /\ call'[c] # Idle /\ call'[c].at = "table"
  /\ <<call'[c].table, call'[c].id>> \in Tables \X Objects
  /\ \/ call'[c].rpc = "write" /\ ~IsRefused(call'[c].table, call'[c].id)
     \/ /\ call'[c].rpc = "read" /\ <<call'[c].table, call'[c].id>> \in known
        /\ command[c].doing # "initialize"
  /\ UNCHANGED <<mounts, fuse_sessions, stored, poisoned, reply, command, copies, known>>

\* A command goes on, or ends, without a call; and it is no init any more.
GoesOn(c) ==
  /\ call[c] = Idle /\ command[c] # NoCommand
  /\ \/ command'[c] = NoCommand /\ copies'[c] = << >>
     \/ /\ command'[c].path = command[c].path /\ command'[c].doing \in Working \cup {"failed"}
        /\ command[c].doing \in Working
        /\ \A k \in DOMAIN copies'[c] :
             \/ copies'[c][k] = NoCells
             \/ \E j \in DOMAIN copies[c] : copies'[c][k] = copies[c][j]
        /\ copies'[c] # << >>
  /\ UNCHANGED <<vars, known>>

Loads(c, p) ==
  /\ call[c] = Idle /\ command[c] = NoCommand
  /\ Careful => ~Initializing(p)
  /\ command'[c] = [path |-> p, doing |-> "work"]
  /\ copies'[c] = <<NoCells>>
  /\ UNCHANGED <<vars, known>>

ClientActs(c) ==
  \/ \E p \in Paths : StartsInit(c, p) \/ Loads(c, p)
  \/ SetsState(c) \/ Asks(c) \/ CallsForObject(c) \/ GoesOn(c)

\* What becomes of a call: its handler panics, with the mutexes of held locked,
\* and the client unwraps the error; ...
Dies(c, held) ==
  /\ call'[c] = Idle /\ ~Unwrapped(reply'[c])
  /\ command'[c] = [path |-> command[c].path, doing |-> "failed"]
  /\ poisoned' = poisoned \cup held
  /\ UNCHANGED <<mounts, fuse_sessions, stored, copies, known>>

\* ... which has one of these reasons; ...
DiesOf(c, held) ==
  LET p     == call[c].path
      table == TableOf(call[c].table)
      id    == <<call[c].table, call[c].id>>
  IN  \/ /\ At(c, "mounts") /\ call[c].rpc # "initialize" /\ held = {}
         /\ Mounts \in poisoned \/ p \notin DOMAIN mounts
      \/ /\ At(c, "mounts") /\ call[c].rpc = "initialize" /\ held = {Mounts}
         /\ Mounts \in poisoned \/ p \in DOMAIN mounts
      \/ /\ At(c, "get_op_id") /\ held = {OpId(p)}
         /\ OpId(p) \in poisoned \/ mounts[p].op_id = Unset
      \/ /\ At(c, "get_workspace_id") /\ held = {WorkspaceId(p)}
         /\ WorkspaceId(p) \in poisoned \/ mounts[p].workspace_id = Unset
      \/ At(c, "set_op_id") /\ held = {} /\ OpId(p) \in poisoned
      \/ At(c, "set_workspace_id") /\ held = {} /\ WorkspaceId(p) \in poisoned
      \/ At(c, "session") /\ held = {Mounts} /\ p \notin Mountable
      \/ /\ At(c, "table") /\ call[c].rpc = "write" /\ held = {table}
         /\ table \in poisoned \/ HashPanics(call[c].table, call[c].id)
      \/ /\ At(c, "table") /\ call[c].rpc = "read"
         /\ \/ held = {}
            \/ held = {table} /\ (table \in poisoned \/ id \notin stored)

\* ... or it goes to its next section, ...
GoesTo(c, section) ==
  /\ call'[c] # Idle /\ call'[c].at = section /\ call'[c].rpc = call[c].rpc
  /\ call'[c].path = call[c].path /\ call'[c].state = call[c].state
  /\ UNCHANGED <<fuse_sessions, stored, poisoned, reply, command, copies, known>>

LooksUp(c) ==
  /\ At(c, "mounts") /\ call[c].rpc # "initialize"
  /\ GoesTo(c, AfterGet(call[c].rpc)) /\ UNCHANGED mounts

ReadsOpId(c) ==
  /\ At(c, "get_op_id") /\ mounts[call[c].path].op_id # Unset
  /\ GoesTo(c, "get_workspace_id") /\ call'[c].op_id = mounts[call[c].path].op_id
  /\ UNCHANGED mounts

SetsOpId(c) ==
  /\ At(c, "set_op_id") /\ GoesTo(c, "set_workspace_id")
  /\ mounts' = [mounts EXCEPT ![call[c].path].op_id = call[c].state]

Inserts(c) ==
  /\ At(c, "mounts") /\ call[c].rpc = "initialize" /\ call[c].path \notin DOMAIN mounts
  /\ GoesTo(c, "session")
  /\ mounts' = Put(mounts, call[c].path, NewMount)

\* ... or it is answered.
IsAnswered(c) ==
  /\ call'[c] = Idle /\ reply'[c] = Ok /\ command' = command /\ UNCHANGED poisoned

SetsWorkspaceId(c) ==
  /\ At(c, "set_workspace_id") /\ IsAnswered(c)
  /\ mounts' = [mounts EXCEPT ![call[c].path].workspace_id = call[c].state]
  /\ UNCHANGED <<fuse_sessions, stored, copies, known>>

Starts(c) ==
  /\ At(c, "session") /\ IsAnswered(c) /\ fuse_sessions' = fuse_sessions \cup {call[c].path}
  /\ UNCHANGED <<mounts, stored, copies, known>>

FindsTree(c) ==
  /\ At(c, "get_tree_id") /\ IsAnswered(c)
  /\ \/ copies' = copies
     \/ copies' = Filled(c, [InUse(c) EXCEPT !.tree = TRUE])
  /\ UNCHANGED <<mounts, fuse_sessions, stored, known>>

Stores(c) ==
  LET id == <<call[c].table, call[c].id>>
  IN  /\ At(c, "table") /\ call[c].rpc = "write" /\ IsAnswered(c)
      /\ TableOf(call[c].table) \notin poisoned
      /\ stored' = stored \cup {id} /\ known' = known \cup {id}
      /\ UNCHANGED <<mounts, fuse_sessions, copies>>

Reads(c) ==
  /\ At(c, "table") /\ call[c].rpc = "read" /\ IsAnswered(c)
  /\ UNCHANGED <<mounts, fuse_sessions, stored, copies, known>>

ReadsState(c) ==
  LET m == mounts[call[c].path]
  IN  /\ At(c, "get_workspace_id") /\ m.workspace_id # Unset
      /\ call'[c] = Idle
      /\ reply'[c] = [res |-> "state", op_id |-> call[c].op_id, workspace_id |-> m.workspace_id]
      /\ copies' = Filled(c, [InUse(c) EXCEPT !.checkout = <<call[c].op_id, m.workspace_id>>])
      /\ UNCHANGED <<mounts, fuse_sessions, stored, poisoned, command, known>>

IsServed(c) ==
  \/ \E held : Dies(c, held) /\ DiesOf(c, held)
  \/ LooksUp(c) \/ ReadsOpId(c) \/ SetsOpId(c) \/ Inserts(c)
  \/ SetsWorkspaceId(c) \/ Starts(c) \/ FindsTree(c) \/ Stores(c) \/ Reads(c) \/ ReadsState(c)

-----------------------------------------------------------------------------
\* A panic ends the command.
LEMMA PanicKills ==
  ASSUME CommandsFit, TypeOK, NEW c \in Clients, NEW held, call[c] # Idle,
         Panic(c, held), IF call'[c] = Idle THEN Learn(c) ELSE UNCHANGED <<command, copies, known>>,
         UNCHANGED <<mounts, fuse_sessions, stored, dead>>
  PROVE  Dies(c, held) /\ OthersKept(c)
<1>1. /\ call'[c] = Idle /\ reply'[c] = [res |-> "panic"]
      /\ \A d \in Clients \ {c} : call'[d] = call[d] /\ reply'[d] = reply[d]
  BY DEF Panic, Answer, TypeOK, CommandsFit, CommandsTypeOK
<1>2. Learn(c) /\ ~Unwrapped(reply'[c]) /\ reply'[c] # Ok /\ reply'[c].res # "state"
  BY <1>1 DEF Unwrapped, Ok
<1>3. copies' = copies /\ known' = known /\ command' = [command EXCEPT ![c].doing = "failed"]
  BY <1>2 DEF Learn, GoOn
<1>4. /\ command'[c] = [path |-> command[c].path, doing |-> "failed"]
      /\ \A d \in Clients \ {c} : command'[d] = command[d]
  BY <1>3 DEF CommandsFit, CommandsTypeOK
<1> QED BY <1>1, <1>2, <1>3, <1>4 DEF Dies, OthersKept, Panic

\* What the handler of a client does, and that only this client learns of it.
LEMMA ServeEffects ==
  ASSUME CommandsFit, TypeOK, CallsKeepTheirMount, NEW c \in Clients, Serve(c)
  PROVE  IsServed(c) /\ OthersKept(c)
<1> DEFINE Told == IF call'[c] = Idle THEN Learn(c) ELSE UNCHANGED <<command, copies, known>>
<1>1. Told /\ UNCHANGED dead
  BY DEF Serve
<1>2. /\ call \in [Clients -> {Idle} \cup MountCalls \cup ObjectCalls] /\ DOMAIN reply = Clients
      /\ CallFits(c) /\ copies \in [Clients -> Seq(Cells)]
  BY DEF TypeOK, CommandsFit, CommandsTypeOK, CommandFits
<1>. HIDE DEF Told
<1>3. ASSUME call'[c] # Idle, call'[c] = [call[c] EXCEPT !.at = call'[c].at], UNCHANGED reply,
             \A d \in Clients \ {c} : call'[d] = call[d],
             call[c] \in MountCalls, UNCHANGED <<fuse_sessions, stored, poisoned>>
      PROVE  GoesTo(c, call'[c].at) /\ OthersKept(c)
  BY <1>1, <1>3 DEF Told, GoesTo, OthersKept, MountCalls
<1>4. ASSUME call[c] # Idle, Answer(c, Ok), UNCHANGED poisoned
      PROVE  /\ IsAnswered(c)
             /\ copies' = IF call[c].rpc = "get_tree_state"
                            THEN Filled(c, [InUse(c) EXCEPT !.tree = TRUE]) ELSE copies
             /\ known' = IF call[c].rpc = "write"
                           THEN known \cup {<<call[c].table, call[c].id>>} ELSE known
             /\ OthersKept(c)
  <2>1. /\ call'[c] = Idle /\ reply'[c] = Ok
        /\ \A d \in Clients \ {c} : call'[d] = call[d] /\ reply'[d] = reply[d]
    BY <1>2, <1>4 DEF Answer
  <2>2. Learn(c)
    BY <1>1, <2>1 DEF Told
  <2>3. /\ command' = command
        /\ copies' = IF call[c].rpc = "get_tree_state"
                       THEN Filled(c, [InUse(c) EXCEPT !.tree = TRUE]) ELSE copies
    BY <2>1, <2>2 DEF Learn, Unwrapped, Ok
  <2>4. \A d \in Clients \ {c} : copies'[d] = copies[d]
    BY <1>2, <2>3 DEF Filled
  <2> QED BY <1>1, <1>4, <2>1, <2>2, <2>3, <2>4 DEF IsAnswered, Learn, OthersKept, Ok
<1>5. CASE GetMount(c)
  <2>1. call[c] \in MountCalls /\ UNCHANGED <<mounts, fuse_sessions, stored, dead>>
    BY <1>1, <1>5, CallShape DEF GetMount, At
  <2>2. CASE Panic(c, {})
    <3>1. Dies(c, {}) /\ OthersKept(c)
      BY <1>1, <1>5, <2>1, <2>2, PanicKills DEF GetMount, At, Told
    <3>2. Mounts \in poisoned \/ call[c].path \notin DOMAIN mounts
      BY <1>2, <1>5, <2>1, <2>2 DEF GetMount, Panic, Answer, GoTo, MountCalls, Idle, MountRpcs
    <3> QED BY <1>5, <3>1, <3>2 DEF GetMount, DiesOf, IsServed
  <2>3. CASE ~Panic(c, {})
    <3>1. GoTo(c, AfterGet(call[c].rpc)) /\ UNCHANGED poisoned
      BY <1>5, <2>3 DEF GetMount, HeldAfterGet
    <3>2. /\ call'[c] = [call[c] EXCEPT !.at = AfterGet(call[c].rpc)]
          /\ call'[c].at = AfterGet(call[c].rpc) /\ call'[c] # Idle
          /\ \A d \in Clients \ {c} : call'[d] = call[d]
      BY <1>2, <2>1, <3>1 DEF GoTo, MountCalls, Idle, MountRpcs
    <3>3. GoesTo(c, AfterGet(call[c].rpc)) /\ OthersKept(c)
      BY <1>3, <2>1, <3>1, <3>2 DEF GoTo
    <3> QED BY <1>5, <2>1, <3>3 DEF GetMount, LooksUp, IsServed
  <2> QED BY <2>2, <2>3
<1>6. CASE GetTreeId(c)
  <2>1. call[c] \in MountCalls /\ call[c].rpc # "write"
    BY <1>6, CallShape DEF GetTreeId, At, MountCalls, MountRpcs
  <2> QED BY <1>4, <1>6, <2>1 DEF GetTreeId, At, FindsTree, IsServed
<1>7. CASE GetOpId(c)
  <2> DEFINE p == call[c].path
  <2>1. call[c] \in MountCalls /\ UNCHANGED <<mounts, fuse_sessions, stored, dead>>
    BY <1>1, <1>7, CallShape DEF GetOpId, At
  <2>2. CASE Panic(c, {OpId(p)})
    <3>1. Dies(c, {OpId(p)}) /\ OthersKept(c)
      BY <1>1, <1>7, <2>1, <2>2, PanicKills DEF GetOpId, At, Told
    <3>2. OpId(p) \in poisoned \/ mounts[p].op_id = Unset
      BY <1>2, <1>7, <2>1, <2>2 DEF GetOpId, Panic, Answer, MountCalls, Idle, MountRpcs
    <3> QED BY <1>7, <3>1, <3>2 DEF GetOpId, DiesOf, IsServed
  <2>3. CASE ~Panic(c, {OpId(p)})
    <3>1. /\ call' = [call EXCEPT ![c].at = "get_workspace_id", ![c].op_id = mounts[p].op_id]
          /\ UNCHANGED <<poisoned, reply>> /\ mounts[p].op_id # Unset /\ At(c, "get_op_id")
      BY <1>7, <2>3 DEF GetOpId
    <3>2. /\ call'[c] # Idle /\ call'[c].at = "get_workspace_id" /\ call'[c].rpc = call[c].rpc
          /\ call'[c].path = p /\ call'[c].state = call[c].state
          /\ call'[c].op_id = mounts[p].op_id
          /\ \A d \in Clients \ {c} : call'[d] = call[d]
      BY <1>2, <2>1, <3>1 DEF MountCalls, Idle, MountRpcs
    <3>3. UNCHANGED <<command, copies, known>>
      BY <1>1, <3>2 DEF Told
    <3> QED BY <1>1, <2>1, <3>1, <3>2, <3>3 DEF GoesTo, ReadsOpId, IsServed, OthersKept
  <2> QED BY <2>2, <2>3
<1>8. CASE GetWorkspaceId(c)
  <2> DEFINE p == call[c].path
             answer == [res |-> "state", op_id |-> call[c].op_id, workspace_id |-> mounts[p].workspace_id]
  <2>1. call[c] \in MountCalls /\ UNCHANGED <<mounts, fuse_sessions, stored, dead>>
    BY <1>1, <1>8, CallShape DEF GetWorkspaceId, At
  <2>2. CASE WorkspaceId(p) \in poisoned \/ mounts[p].workspace_id = Unset
    <3>1. Dies(c, {WorkspaceId(p)}) /\ OthersKept(c)
      BY <1>1, <1>8, <2>1, <2>2, PanicKills DEF GetWorkspaceId, At, Told
    <3> QED BY <1>8, <2>2, <3>1 DEF GetWorkspaceId, DiesOf, IsServed
  <2>3. CASE ~(WorkspaceId(p) \in poisoned \/ mounts[p].workspace_id = Unset)
    <3>1. Answer(c, answer) /\ UNCHANGED poisoned
      BY <1>8, <2>3 DEF GetWorkspaceId
    <3>2. /\ call'[c] = Idle /\ reply'[c] = answer
          /\ \A d \in Clients \ {c} : call'[d] = call[d] /\ reply'[d] = reply[d]
      BY <1>2, <3>1 DEF Answer
    <3>3. Learn(c)
      BY <1>1, <3>2 DEF Told
    <3>4. /\ copies' = Filled(c, [InUse(c) EXCEPT !.checkout = <<call[c].op_id, mounts[p].workspace_id>>])
          /\ UNCHANGED <<command, known>>
      BY <3>2, <3>3 DEF Learn, Unwrapped, Ok
    <3>5. \A d \in Clients \ {c} : copies'[d] = copies[d]
      BY <1>2, <3>4 DEF Filled
    <3> QED BY <1>1, <1>8, <2>1, <2>3, <3>1, <3>2, <3>4, <3>5
       DEF GetWorkspaceId, ReadsState, IsServed, OthersKept
  <2> QED BY <2>2, <2>3
<1>9. CASE SetOpId(c)
  <2>1. call[c] \in MountCalls /\ UNCHANGED <<fuse_sessions, stored, dead>>
    BY <1>1, <1>9, CallShape DEF SetOpId, At
  <2>2. CASE OpId(call[c].path) \in poisoned
    <3>1. Dies(c, {}) /\ OthersKept(c)
      BY <1>1, <1>9, <2>1, <2>2, PanicKills DEF SetOpId, At, Told
    <3> QED BY <1>9, <2>2, <3>1 DEF SetOpId, DiesOf, IsServed
  <2>3. CASE OpId(call[c].path) \notin poisoned
    <3>1. GoTo(c, "set_workspace_id") /\ UNCHANGED poisoned
      BY <1>9, <2>3 DEF SetOpId
    <3>2. /\ call'[c] = [call[c] EXCEPT !.at = "set_workspace_id"]
          /\ call'[c].at = "set_workspace_id" /\ call'[c] # Idle
          /\ \A d \in Clients \ {c} : call'[d] = call[d]
      BY <1>2, <2>1, <3>1 DEF GoTo, MountCalls, Idle, MountRpcs
    <3>3. GoesTo(c, "set_workspace_id") /\ OthersKept(c)
      BY <1>3, <2>1, <3>1, <3>2 DEF GoTo
    <3> QED BY <1>9, <2>3, <3>3 DEF SetOpId, SetsOpId, IsServed
  <2> QED BY <2>2, <2>3
<1>10. CASE SetWorkspaceId(c)
  <2>1. /\ call[c] \in MountCalls /\ UNCHANGED <<fuse_sessions, stored, dead>>
        /\ call[c].rpc \notin {"get_tree_state", "write"} /\ call[c] # Idle
    BY <1>1, <1>2, <1>10, CallShape DEF SetWorkspaceId, At, CallFits
  <2>2. CASE WorkspaceId(call[c].path) \in poisoned
    <3>1. Dies(c, {}) /\ OthersKept(c)
      BY <1>1, <1>10, <2>1, <2>2, PanicKills DEF SetWorkspaceId, Told
    <3> QED BY <1>10, <2>2, <3>1 DEF SetWorkspaceId, DiesOf, IsServed
  <2>3. CASE WorkspaceId(call[c].path) \notin poisoned
    <3>1. Answer(c, Ok) /\ UNCHANGED poisoned
      BY <1>10, <2>3 DEF SetWorkspaceId
    <3>2. IsAnswered(c) /\ UNCHANGED <<copies, known>> /\ OthersKept(c)
      BY <1>4, <2>1, <3>1
    <3> QED BY <1>10, <2>1, <2>3, <3>2 DEF SetWorkspaceId, SetsWorkspaceId, IsServed
  <2> QED BY <2>2, <2>3
<1>11. CASE InsertMount(c)
  <2>1. call[c] \in MountCalls /\ UNCHANGED <<fuse_sessions, stored, dead>> /\ call[c] # Idle
    BY <1>1, <1>11, CallShape DEF InsertMount, At, MountCalls, MountRpcs, ObjectCalls, ObjectRpcs
  <2>2. CASE Mounts \in poisoned \/ call[c].path \in DOMAIN mounts
    <3>1. Panic(c, {Mounts}) /\ UNCHANGED mounts
      BY <1>11, <2>2 DEF InsertMount, IsNewPath
    <3>2. Dies(c, {Mounts}) /\ OthersKept(c)
      BY <1>1, <2>1, <3>1, PanicKills DEF Told
    <3> QED BY <1>11, <2>2, <3>2 DEF InsertMount, DiesOf, IsServed
  <2>3. CASE ~(Mounts \in poisoned \/ call[c].path \in DOMAIN mounts)
    <3>1. /\ GoTo(c, "session") /\ UNCHANGED poisoned
          /\ mounts' = Put(mounts, call[c].path, NewMount)
      BY <1>11, <2>3 DEF InsertMount, IsNewPath
    <3>2. /\ call'[c] = [call[c] EXCEPT !.at = "session"]
          /\ call'[c].at = "session" /\ call'[c] # Idle
          /\ \A d \in Clients \ {c} : call'[d] = call[d]
      BY <1>2, <2>1, <3>1 DEF GoTo, MountCalls, Idle, MountRpcs
    <3>3. GoesTo(c, "session") /\ OthersKept(c)
      BY <1>3, <2>1, <3>1, <3>2 DEF GoTo
    <3> QED BY <1>11, <2>3, <3>1, <3>3 DEF InsertMount, Inserts, IsServed
  <2> QED BY <2>2, <2>3
<1>12. CASE StartSession(c)
  <2>1. /\ call[c] \in MountCalls /\ UNCHANGED <<mounts, stored, dead>>
        /\ call[c].rpc \notin {"get_tree_state", "write"} /\ call[c] # Idle
    BY <1>1, <1>2, <1>12, CallShape DEF StartSession, At, CallFits
  <2>2. CASE call[c].path \notin Mountable
    <3>1. Panic(c, {Mounts}) /\ UNCHANGED fuse_sessions
      BY <1>12, <2>2 DEF StartSession
    <3>2. Dies(c, {Mounts}) /\ OthersKept(c)
      BY <1>1, <2>1, <3>1, PanicKills DEF Told
    <3> QED BY <1>12, <2>2, <3>2 DEF StartSession, DiesOf, IsServed
  <2>3. CASE call[c].path \in Mountable
    <3>1. Answer(c, Ok) /\ UNCHANGED poisoned /\ fuse_sessions' = fuse_sessions \cup {call[c].path}
      BY <1>12, <2>3 DEF StartSession
    <3>2. IsAnswered(c) /\ UNCHANGED <<copies, known>> /\ OthersKept(c)
      BY <1>4, <2>1, <3>1
    <3> QED BY <1>12, <2>1, <3>1, <3>2 DEF StartSession, Starts, IsServed
  <2> QED BY <2>2, <2>3
<1>13. CASE WriteObject(c)
  <2> DEFINE table == TableOf(call[c].table)
  <2>1. /\ UNCHANGED <<mounts, fuse_sessions, dead>> /\ call[c] # Idle
        /\ call[c].rpc = "write" /\ At(c, "table") /\ ~IsRefused(call[c].table, call[c].id)
    BY <1>1, <1>2, <1>13 DEF WriteObject, At, CallFits
  <2>2. CASE table \in poisoned \/ HashPanics(call[c].table, call[c].id)
    <3>1. Panic(c, {table}) /\ UNCHANGED stored
      BY <1>13, <2>1, <2>2 DEF WriteObject
    <3>2. Dies(c, {table}) /\ OthersKept(c)
      BY <1>1, <2>1, <3>1, PanicKills DEF Told
    <3> QED BY <2>1, <2>2, <3>2 DEF DiesOf, IsServed
  <2>3. CASE ~(table \in poisoned \/ HashPanics(call[c].table, call[c].id))
    <3>1. /\ Answer(c, Ok) /\ UNCHANGED poisoned
          /\ stored' = stored \cup {<<call[c].table, call[c].id>>}
      BY <1>13, <2>1, <2>3 DEF WriteObject
    <3>2. /\ IsAnswered(c) /\ UNCHANGED copies /\ OthersKept(c)
          /\ known' = known \cup {<<call[c].table, call[c].id>>}
      BY <1>4, <2>1, <3>1
    <3> QED BY <2>1, <2>3, <3>1, <3>2 DEF Stores, IsServed
  <2> QED BY <2>2, <2>3
<1>14. CASE ReadObject(c)
  <2> DEFINE table == TableOf(call[c].table)
             id    == <<call[c].table, call[c].id>>
             held  == IF call[c].table = "trees" THEN {} ELSE {table}
             dies  == table \in poisoned \/ id \notin stored \/ AsProtoPanics(call[c].table, call[c].id)
  <2>1. /\ UNCHANGED <<mounts, fuse_sessions, stored, dead>> /\ call[c] # Idle
        /\ call[c].rpc = "read" /\ At(c, "table")
    BY <1>1, <1>14 DEF ReadObject, At
  <2>2. CASE dies
    <3>1. Panic(c, held)
      BY <1>14, <2>2 DEF ReadObject
    <3>2. Dies(c, held) /\ OthersKept(c)
      BY <1>1, <2>1, <3>1, PanicKills DEF Told
    <3>3. DiesOf(c, held)
      BY <2>1, <2>2 DEF DiesOf, AsProtoPanics
    <3> QED BY <3>2, <3>3 DEF IsServed
  <2>3. CASE ~dies
    <3>1. Answer(c, Ok) /\ UNCHANGED poisoned
      BY <1>14, <2>3 DEF ReadObject
    <3>2. IsAnswered(c) /\ UNCHANGED <<copies, known>> /\ OthersKept(c)
      BY <1>4, <2>1, <3>1
    <3> QED BY <2>1, <3>2 DEF Reads, IsServed
  <2> QED BY <2>2, <2>3
<1> QED BY <1>5, <1>6, <1>7, <1>8, <1>9, <1>10, <1>11, <1>12, <1>13, <1>14 DEF Serve, Step

\* What a client does of its own accord, and that it does it alone.
LEMMA ClientEffects ==
  ASSUME CommandsFit, TypeOK, NEW c \in Clients,
         \/ \E p \in Paths : Load(c, p) \/ \E s \in States : BeginInit(c, p, s)
         \/ Proceed(c) \/ GivesUp(c)
         \/ \E table \in Tables : \E o \in Objects : WriteObjectOf(c, table, o)
         \/ \E id \in known : ReadObjectOf(c, id)
  PROVE  ClientActs(c) /\ OthersKept(c)
<1>1. /\ call \in [Clients -> {Idle} \cup MountCalls \cup ObjectCalls]
      /\ command \in [Clients -> [path : Paths \cup {Unset}, doing : Doings]]
      /\ copies \in [Clients -> Seq(Cells)]
      /\ command[c].doing # "nothing" => command[c] # NoCommand
      /\ command[c].doing \in Working => copies[c] # << >>
  BY DEF TypeOK, CommandsFit, CommandsTypeOK, CommandFits, NoCommand
<1>2. ASSUME NEW rpc, NEW p, NEW s, CallMount(c, rpc, p, s), rpc \in MountRpcs
      PROVE  /\ call[c] = Idle /\ call'[c] # Idle /\ call'[c].rpc = rpc /\ call'[c].at = "mounts"
             /\ call'[c].path = p /\ call'[c].state = s
             /\ \A d \in Clients \ {c} : call'[d] = call[d]
             /\ UNCHANGED <<mounts, fuse_sessions, stored, poisoned, reply>>
  BY <1>1, <1>2 DEF CallMount, Idle, MountRpcs
<1>3. ASSUME NEW rpc, NEW t, NEW o, CallObject(c, rpc, t, o), rpc \in ObjectRpcs
      PROVE  /\ call[c] = Idle /\ call'[c] # Idle /\ call'[c].rpc = rpc /\ call'[c].at = "table"
             /\ call'[c].table = t /\ call'[c].id = o
             /\ \A d \in Clients \ {c} : call'[d] = call[d]
             /\ UNCHANGED <<mounts, fuse_sessions, stored, poisoned, reply>>
  BY <1>1, <1>3 DEF CallObject, Idle, ObjectRpcs
<1>4. ASSUME NEW what, GoOn(c, what)
      PROVE  /\ command'[c] = [path |-> command[c].path, doing |-> what]
             /\ \A d \in Clients \ {c} : command'[d] = command[d]
  BY <1>1, <1>4 DEF GoOn
<1>5. ASSUME NEW rpc \in {"get_checkout_state", "get_tree_state", "snapshot"}, Ask(c, rpc)
      PROVE  /\ call[c] = Idle /\ call'[c] # Idle /\ call'[c].rpc = rpc /\ call'[c].at = "mounts"
             /\ call'[c].path = command[c].path
             /\ \A d \in Clients \ {c} : call'[d] = call[d]
             /\ UNCHANGED <<mounts, fuse_sessions, stored, poisoned, reply>>
  BY <1>2, <1>5 DEF Ask, MountRpcs
<1>6. ASSUME NEW p \in Paths, Load(c, p) PROVE ClientActs(c) /\ OthersKept(c)
  <2>1. /\ command'[c] = [path |-> p, doing |-> "work"] /\ copies'[c] = <<NoCells>>
        /\ \A d \in Clients \ {c} : command'[d] = command[d] /\ copies'[d] = copies[d]
    BY <1>1, <1>6 DEF Load
  <2> QED BY <1>6, <2>1 DEF Load, Loads, ClientActs, OthersKept, vars
<1>7. ASSUME NEW p \in Paths, NEW s \in States, BeginInit(c, p, s)
      PROVE  ClientActs(c) /\ OthersKept(c)
  <2>1. /\ command'[c] = [path |-> p, doing |-> "initialize"]
        /\ \A d \in Clients \ {c} : command'[d] = command[d]
    BY <1>1, <1>7 DEF BeginInit
  <2>2. "initialize" \in MountRpcs
    BY DEF MountRpcs
  <2> QED BY <1>2, <1>7, <2>1, <2>2 DEF BeginInit, StartsInit, ClientActs, OthersKept
<1>8. ASSUME NEW s \in States, InitWorkingCopy(c, s) PROVE ClientActs(c) /\ OthersKept(c)
  <2>1. "set_checkout_state" \in MountRpcs
    BY DEF MountRpcs
  <2> QED BY <1>2, <1>4, <1>8, <2>1 DEF InitWorkingCopy, Doing, SetsState, ClientActs, OthersKept
<1>9. CASE ReadCheckoutState(c) \/ ReadTreeState(c) \/ ReadOldOperationId(c) \/ ReadOldTreeId(c)
  BY <1>1, <1>5, <1>9 DEF ReadCheckoutState, ReadTreeState, ReadOldOperationId, ReadOldTreeId,
     Doing, Working, Asks, ClientActs, OthersKept
<1>10. CASE StartMutation(c)
  <2>1. /\ copies'[c] = Append(copies[c], NoCells)
        /\ \A d \in Clients \ {c} : copies'[d] = copies[d]
    BY <1>1, <1>10 DEF StartMutation, EmptyCells
  <2>2. \A k \in DOMAIN copies'[c] :
          copies'[c][k] = NoCells \/ \E j \in DOMAIN copies[c] : copies'[c][k] = copies[c][j]
    BY <1>1, <2>1
  <2>3. copies'[c] # << >>
    BY <1>1, <2>1
  <2>4. /\ call[c] = Idle /\ command[c].doing \in {"work", "finished"}
        /\ UNCHANGED <<vars, known, dead>> /\ GoOn(c, "start_mutation")
    BY <1>10 DEF StartMutation, Doing
  <2>5. /\ command'[c].path = command[c].path /\ command'[c].doing = "start_mutation"
        /\ \A d \in Clients \ {c} : command'[d] = command[d]
    BY <1>1, <2>4 DEF GoOn
  <2>6. GoesOn(c)
    BY <1>1, <2>2, <2>3, <2>4, <2>5 DEF GoesOn, Working
  <2>7. OthersKept(c)
    BY <2>1, <2>4, <2>5 DEF OthersKept, vars
  <2> QED BY <2>6, <2>7 DEF ClientActs
<1>11. CASE Snapshot(c)
  <2>1. /\ command[c].doing \in Working /\ GoOn(c, "snapshot") /\ Ask(c, "snapshot")
        /\ UNCHANGED <<copies, known, dead>>
    BY <1>11 DEF Snapshot, Doing, Working
  <2>2. /\ command'[c].path = command[c].path /\ command'[c].doing \in Working
        /\ \A d \in Clients \ {c} : command'[d] = command[d]
    BY <1>1, <2>1 DEF GoOn, Working
  <2>3. Asks(c)
    BY <1>5, <2>1, <2>2 DEF Asks
  <2>4. OthersKept(c)
    BY <1>5, <2>1, <2>2 DEF OthersKept
  <2> QED BY <2>3, <2>4 DEF ClientActs
<1>12. CASE CheckOut(c)
  <2>1. /\ call[c] = Idle /\ command[c].doing \in Working /\ UNCHANGED <<vars, copies, known, dead>>
        /\ GoOn(c, "failed") /\ command[c].doing # "nothing"
    BY <1>12 DEF CheckOut, Doing, Working
  <2>2. /\ command'[c].path = command[c].path /\ command'[c].doing = "failed"
        /\ \A d \in Clients \ {c} : command'[d] = command[d]
    BY <1>1, <2>1 DEF GoOn
  <2>3. GoesOn(c)
    BY <1>1, <2>1, <2>2 DEF GoesOn
  <2>4. OthersKept(c)
    BY <2>1, <2>2 DEF OthersKept, vars
  <2> QED BY <2>3, <2>4 DEF ClientActs
<1>13. CASE Finish(c)
  <2>1. /\ call[c] = Idle /\ command[c].doing \in Working /\ UNCHANGED <<vars, known, dead>>
        /\ GoOn(c, "finished") /\ command[c].doing # "nothing"
    BY <1>13 DEF Finish, Doing, Working
  <2>2. /\ copies'[c] = <<InUse(c)>>
        /\ \A d \in Clients \ {c} : copies'[d] = copies[d]
    BY <1>1, <1>13 DEF Finish
  <2>3. Len(copies[c]) \in DOMAIN copies[c]
    BY <1>1, <2>1
  <2>4. \A k \in DOMAIN copies'[c] : \E j \in DOMAIN copies[c] : copies'[c][k] = copies[c][j]
    BY <2>2, <2>3 DEF InUse
  <2>5. /\ command'[c].path = command[c].path /\ command'[c].doing = "finished"
        /\ \A d \in Clients \ {c} : command'[d] = command[d]
    BY <1>1, <2>1 DEF GoOn
  <2>6. copies'[c] # << >>
    BY <2>2
  <2>7. GoesOn(c)
    BY <1>1, <2>1, <2>4, <2>5, <2>6 DEF GoesOn, Working
  <2>8. OthersKept(c)
    BY <2>1, <2>2, <2>5 DEF OthersKept, vars
  <2> QED BY <2>7, <2>8 DEF ClientActs
<1>14. CASE End(c) \/ GivesUp(c)
  <2>1. /\ command'[c] = NoCommand /\ copies'[c] = << >>
        /\ \A d \in Clients \ {c} : command'[d] = command[d] /\ copies'[d] = copies[d]
    BY <1>1, <1>14 DEF End, GivesUp, Leaves
  <2> QED BY <1>1, <1>14, <2>1 DEF End, GivesUp, Leaves, Doing, GoesOn, ClientActs, OthersKept, vars
<1>15. ASSUME NEW t \in Tables, NEW o \in Objects, WriteObjectOf(c, t, o)
       PROVE  ClientActs(c) /\ OthersKept(c)
  <2>1. "write" \in ObjectRpcs
    BY DEF ObjectRpcs
  <2> QED BY <1>3, <1>15, <2>1 DEF WriteObjectOf, Doing, Working, CallsForObject, ClientActs,
     OthersKept
<1>16. ASSUME NEW id \in known, ReadObjectOf(c, id) PROVE ClientActs(c) /\ OthersKept(c)
  <2>1. "read" \in ObjectRpcs /\ id \in Tables \X Objects /\ id = <<id[1], id[2]>>
    BY DEF ObjectRpcs, CommandsFit, CommandsTypeOK
  <2> QED BY <1>3, <1>16, <2>1 DEF ReadObjectOf, Doing, Working, CallsForObject, ClientActs,
     OthersKept
<1> QED
  BY <1>6, <1>7, <1>8, <1>9, <1>10, <1>11, <1>12, <1>13, <1>14, <1>15, <1>16 DEF Proceed

\* The steps of the system, by what they do.
LEMMA StepKinds ==
  ASSUME CommandsFit, TypeOK, CallsKeepTheirMount, JjNext
  PROVE  \/ RestartDaemon
         \/ \E p \in Paths, t \in Tables : MountDies(p, {TableOf(t)}) \/ MountDies(p, {})
         \/ \E c \in Clients : (ClientActs(c) \/ IsServed(c)) /\ OthersKept(c)
BY ServeEffects, ClientEffects DEF JjNext

-----------------------------------------------------------------------------
(* The invariants of DaemonService hold under jj too.                      *)

\* The state that stands for any other is one of them.
LEMMA AnyStateIsState == AnyState \in States
  BY StatesAssumption DEF AnyState

\* What jj calls is among what clients in general may call.
LEMMA JjCallsAreCalls ==
  ASSUME CommandsFit, JjNext,
         ~ \E p \in Paths, t \in Tables : MountDies(p, {TableOf(t)}) \/ MountDies(p, {})
  PROVE  [Next]_vars
<1>1. CASE RestartDaemon
  BY <1>1 DEF RestartDaemon, Next
<1>2. ASSUME NEW c \in Clients, NEW rpc \in MountRpcs, NEW p \in Paths, NEW s \in States,
             CallMount(c, rpc, p, s)
      PROVE  Next
  BY <1>2 DEF Next, AnyCall
<1>3. ASSUME NEW c \in Clients, NEW rpc \in MountRpcs, command[c].doing # "nothing", Ask(c, rpc)
      PROVE  Next
  BY <1>2, <1>3, AnyStateIsState DEF Ask, CommandsFit, CommandFits
<1>4. ASSUME NEW c \in Clients, Proceed(c) PROVE [Next]_vars
  <2>1. CASE \E s \in States : InitWorkingCopy(c, s)
    BY <1>2, <2>1 DEF InitWorkingCopy, Doing, MountRpcs, CommandsFit, CommandFits
  <2>2. CASE \/ ReadCheckoutState(c) \/ ReadTreeState(c)
             \/ ReadOldOperationId(c) \/ ReadOldTreeId(c) \/ Snapshot(c)
    BY <1>3, <2>2 DEF ReadCheckoutState, ReadTreeState, ReadOldOperationId, ReadOldTreeId, Snapshot,
       Doing, MountRpcs
  <2>3. CASE StartMutation(c) \/ CheckOut(c) \/ Finish(c) \/ End(c)
    BY <2>3 DEF StartMutation, CheckOut, Finish, End, Leaves
  <2> QED BY <1>4, <2>1, <2>2, <2>3 DEF Proceed
<1>5. ASSUME NEW c \in Clients, NEW p \in Paths, Load(c, p) \/ \E s \in States : BeginInit(c, p, s)
      PROVE  [Next]_vars
  BY <1>2, <1>5 DEF Load, BeginInit, MountRpcs
<1>6. ASSUME NEW c \in Clients, NEW t \in Tables, NEW o \in Objects, WriteObjectOf(c, t, o)
      PROVE  Next
  BY <1>6 DEF WriteObjectOf, Next, AnyCall, ObjectRpcs
<1>7. ASSUME NEW c \in Clients, NEW id \in known, ReadObjectOf(c, id) PROVE Next
  <2>1. id[1] \in Tables /\ id[2] \in Objects
    BY DEF CommandsFit, CommandsTypeOK
  <2> QED BY <1>7, <2>1 DEF ReadObjectOf, Next, AnyCall, ObjectRpcs
<1>8. ASSUME NEW c \in Clients, Serve(c) PROVE Next
  BY <1>8 DEF Serve, Next
<1>9. ASSUME NEW c \in Clients, GivesUp(c) PROVE [Next]_vars
  BY <1>9 DEF GivesUp, Leaves
<1> QED BY <1>1, <1>4, <1>5, <1>6, <1>7, <1>8, <1>9 DEF JjNext

\* A mount that dies poisons the mutex of a table, which the invariants of the
\* service say nothing of.
LEMMA DeathKeepsService ==
  ASSUME IInv, NEW p \in Paths, NEW held, MountDies(p, held)
  PROVE  IInv'
<1>1. /\ UNCHANGED <<mounts, holder, fuse_sessions, stored, call>>
      /\ poisoned' = poisoned \cup held /\ held \subseteq {TableOf(t) : t \in Tables}
  BY DEF MountDies
<1>2. TypeOK'
  BY <1>1 DEF IInv, TypeOK
<1>3. MountsHeldByInitialize' /\ CallsKeepTheirMount'
  BY <1>1 DEF IInv, MountsHeldByInitialize, CallsKeepTheirMount, At
<1>4. PoisonedStateIsUnset'
  BY <1>1, MutexesDiffer DEF IInv, TypeOK, PoisonedStateIsUnset
<1>5. SessionsAreMounted'
  BY <1>1 DEF IInv, SessionsAreMounted
<1> QED BY <1>2, <1>3, <1>4, <1>5 DEF IInv

\* A step of the commands is one of the service, or MountDies: its invariant
\* holds on.
LEMMA ServiceStep ==
  ASSUME IInv, CommandsFit, JjNext
  PROVE  IInv'
<1>1. CASE \E p \in Paths, t \in Tables : MountDies(p, {TableOf(t)}) \/ MountDies(p, {})
  BY <1>1, DeathKeepsService
<1>2. CASE ~ \E p \in Paths, t \in Tables : MountDies(p, {TableOf(t)}) \/ MountDies(p, {})
  BY <1>2, JjCallsAreCalls, TypeStep, HeldStep, MountsStep DEF IInv
<1> QED BY <1>1, <1>2

-----------------------------------------------------------------------------
(* Commands and their calls fit together.                                  *)

\* What of CommandFits depends on a client and on the ids known: it survives
\* what others do, for ids are only added.
LEMMA OthersFit ==
  ASSUME CommandsFit, NEW c \in Clients, OthersKept(c), known \subseteq known',
         NEW d \in Clients \ {c}
  PROVE  CommandFits(d)'
<1>1. /\ call'[d] = call[d] /\ command'[d] = command[d] /\ copies'[d] = copies[d] /\ CommandFits(d)
  BY DEF OthersKept, CommandsFit
<1>2. CallFits(d)'
  BY <1>1 DEF CommandFits, CallFits
<1> QED BY <1>1, <1>2 DEF CommandFits, InInit

\* A copy is filled with cells.
LEMMA FilledCopies ==
  ASSUME NEW c \in Clients, copies \in [Clients -> Seq(Cells)], copies[c] # << >>, NEW cells \in Cells
  PROVE  Filled(c, cells) \in [Clients -> Seq(Cells)]
<1>1. Len(copies[c]) \in DOMAIN copies[c]
  OBVIOUS
<1>2. [copies[c] EXCEPT ![Len(copies[c])] = cells] \in Seq(Cells)
  BY <1>1
<1>3. Filled(c, cells) = [copies EXCEPT ![c] = [copies[c] EXCEPT ![Len(copies[c])] = cells]]
  BY DEF Filled
<1> QED BY <1>2, <1>3

\* The working copy in use is the last of the copies.
LEMMA InUseType ==
  ASSUME NEW c \in Clients, copies \in [Clients -> Seq(Cells)], copies[c] # << >>
  PROVE  InUse(c) \in Cells
<1>1. Len(copies[c]) \in DOMAIN copies[c]
  OBVIOUS
<1> QED BY <1>1 DEF InUse

\* Every step keeps the types of commands and copies.
LEMMA CommandsTypeStep ==
  ASSUME IInv, CommandsFit, JjNext
  PROVE  CommandsTypeOK'
<1>1. /\ command \in [Clients -> [path : Paths \cup {Unset}, doing : Doings]]
      /\ copies \in [Clients -> Seq(Cells)]
      /\ known \subseteq Tables \X Objects /\ DOMAIN reply = Clients
  BY DEF CommandsFit, CommandsTypeOK
<1>2. NoCells \in Cells /\ NoCommand \in [path : Paths \cup {Unset}, doing : Doings]
  BY DEF NoCells, Cells, NoCommand, Doings
<1>3. ASSUME NEW c \in Clients, NEW what \in Doings, GoOn(c, what)
      PROVE  command' \in [Clients -> [path : Paths \cup {Unset}, doing : Doings]]
  BY <1>1, <1>3 DEF GoOn
<1>4. CASE RestartDaemon
  <2>1. DOMAIN reply' = Clients
    BY <1>4 DEF RestartDaemon, Restart
  <2>2. ASSUME NEW c \in Clients
        PROVE  [k \in DOMAIN copies[c] |-> [copies[c][k] EXCEPT !.current = FALSE]] \in Seq(Cells)
    <3>1. Len(copies[c]) \in Nat /\ DOMAIN copies[c] = 1 .. Len(copies[c])
      BY <1>1
    <3>2. ASSUME NEW k \in DOMAIN copies[c] PROVE [copies[c][k] EXCEPT !.current = FALSE] \in Cells
      <4>1. copies[c][k] \in Cells
        BY <1>1
      <4> QED BY <4>1 DEF Cells
    <3>3. \A n \in Nat : [1 .. n -> Cells] \subseteq Seq(Cells)
      BY SMT
    <3> QED BY <3>1, <3>2, <3>3
  <2>3. copies' \in [Clients -> Seq(Cells)]
    BY <1>4, <2>2 DEF RestartDaemon
  <2>4. command' \in [Clients -> [path : Paths \cup {Unset}, doing : Doings]]
    BY <1>1, <1>4 DEF RestartDaemon, Doings
  <2> QED BY <1>1, <1>4, <2>1, <2>3, <2>4 DEF RestartDaemon, CommandsTypeOK
<1>5. ASSUME NEW p \in Paths, NEW held, MountDies(p, held) PROVE CommandsTypeOK'
  BY <1>1, <1>5 DEF MountDies, CommandsTypeOK
<1>6. ASSUME NEW c \in Clients, NEW p \in Paths, Load(c, p) PROVE CommandsTypeOK'
  BY <1>1, <1>2, <1>6 DEF Load, CommandsTypeOK, Doings, Working, vars
<1>7. ASSUME NEW c \in Clients, NEW p \in Paths, NEW s \in States, BeginInit(c, p, s)
      PROVE  CommandsTypeOK'
  BY <1>1, <1>7 DEF BeginInit, CallMount, CommandsTypeOK, Doings
<1>8. ASSUME NEW c \in Clients, Proceed(c) PROVE CommandsTypeOK'
  <2>1. {"set_checkout_state", "start_mutation", "snapshot", "failed", "finished"} \subseteq Doings
    BY DEF Doings, Working
  <2>2. CASE \E s \in States : InitWorkingCopy(c, s)
    BY <1>1, <1>3, <2>1, <2>2 DEF InitWorkingCopy, CallMount, CommandsTypeOK
  <2>3. CASE ReadCheckoutState(c) \/ ReadTreeState(c) \/ ReadOldOperationId(c) \/ ReadOldTreeId(c)
    BY <1>1, <2>3 DEF ReadCheckoutState, ReadTreeState, ReadOldOperationId, ReadOldTreeId, Ask,
       CallMount, CommandsTypeOK
  <2>4. CASE StartMutation(c)
    BY <1>1, <1>2, <1>3, <2>1, <2>4 DEF StartMutation, EmptyCells, CommandsTypeOK, vars
  <2>5. CASE Snapshot(c)
    BY <1>1, <1>3, <2>1, <2>5 DEF Snapshot, Ask, CallMount, CommandsTypeOK
  <2>6. CASE CheckOut(c)
    BY <1>1, <1>3, <2>1, <2>6 DEF CheckOut, CommandsTypeOK, vars
  <2>7. CASE Finish(c)
    <3>1. copies[c] # << >>
      BY <2>7 DEF Finish, Doing, CommandsFit, CommandFits, Working
    <3>2. <<InUse(c)>> \in Seq(Cells)
      BY <1>1, <3>1, InUseType
    <3> QED BY <1>1, <1>3, <2>1, <2>7, <3>2 DEF Finish, CommandsTypeOK, vars
  <2>8. CASE End(c)
    BY <1>1, <1>2, <2>8 DEF End, Leaves, CommandsTypeOK, vars
  <2> QED BY <1>8, <2>2, <2>3, <2>4, <2>5, <2>6, <2>7, <2>8 DEF Proceed
<1>9. ASSUME NEW c \in Clients, NEW t, NEW o, WriteObjectOf(c, t, o) PROVE CommandsTypeOK'
  BY <1>1, <1>9 DEF WriteObjectOf, CallObject, CommandsTypeOK
<1>10. ASSUME NEW c \in Clients, Serve(c) PROVE CommandsTypeOK'
  <2>1. IsServed(c) /\ CommandFits(c) /\ TypeOK
    BY <1>10, ServeEffects DEF IInv, CommandsFit
  <2>2. command' = command \/ GoOn(c, "failed")
    BY <1>10 DEF Serve, Learn
  <2>3. command' \in [Clients -> [path : Paths \cup {Unset}, doing : Doings]]
    BY <1>1, <1>3, <2>2 DEF Doings
  <2>4. DOMAIN reply' = Clients
    BY <1>1, <1>10 DEF Serve, Step, GetMount, GetTreeId, GetOpId, GetWorkspaceId, SetOpId,
       SetWorkspaceId, InsertMount, StartSession, WriteObject, ReadObject, Panic, Answer, GoTo
  <2>5. known' \subseteq Tables \X Objects
    <3>1. CASE Stores(c)
      <4>1. call[c] \in ObjectCalls
        BY <2>1, <3>1, CallShape DEF Stores, At
      <4> QED BY <1>1, <3>1, <4>1 DEF Stores, ObjectCalls
    <3>2. CASE ~Stores(c)
      BY <1>1, <2>1, <3>2 DEF IsServed, Dies, LooksUp, ReadsOpId, SetsOpId, Inserts, GoesTo,
         SetsWorkspaceId, Starts, FindsTree, Reads, ReadsState
    <3> QED BY <3>1, <3>2
  <2>6. copies' \in [Clients -> Seq(Cells)]
    <3>1. CASE FindsTree(c)
      <4>1. copies[c] # << >>
        BY <2>1, <3>1 DEF FindsTree, At, CommandFits, CallFits
      <4>2. [InUse(c) EXCEPT !.tree = TRUE] \in Cells
        BY <1>1, <4>1, InUseType DEF Cells
      <4> QED BY <1>1, <3>1, <4>1, <4>2, FilledCopies DEF FindsTree
    <3>2. CASE ReadsState(c)
      <4>1. copies[c] # << >> /\ call[c].op_id \in States
        BY <2>1, <3>2 DEF ReadsState, At, CommandFits, CallFits
      <4>2. mounts[call[c].path].workspace_id \in States
        <5>1. call[c].path \in DOMAIN mounts
          BY <3>2 DEF ReadsState, At, IInv, CallsKeepTheirMount
        <5> QED BY <2>1, <3>2, <5>1 DEF ReadsState, TypeOK, Checkouts
      <4>3. [InUse(c) EXCEPT !.checkout = <<call[c].op_id, mounts[call[c].path].workspace_id>>] \in Cells
        BY <1>1, <4>1, <4>2, InUseType DEF Cells
      <4> QED BY <1>1, <3>2, <4>1, <4>3, FilledCopies DEF ReadsState
    <3>3. CASE ~FindsTree(c) /\ ~ReadsState(c)
      BY <1>1, <2>1, <3>3 DEF IsServed, Dies, LooksUp, ReadsOpId, SetsOpId, Inserts, GoesTo,
         SetsWorkspaceId, Starts, Stores, Reads
    <3> QED BY <3>1, <3>2, <3>3
  <2> QED BY <2>3, <2>4, <2>5, <2>6 DEF CommandsTypeOK
<1>11. ASSUME NEW c \in Clients, NEW id \in known, ReadObjectOf(c, id) PROVE CommandsTypeOK'
  BY <1>1, <1>11 DEF ReadObjectOf, CallObject, CommandsTypeOK
<1>12. ASSUME NEW c \in Clients, GivesUp(c) PROVE CommandsTypeOK'
  BY <1>1, <1>2, <1>12 DEF GivesUp, Leaves, CommandsTypeOK, vars
<1> QED BY <1>4, <1>5, <1>6, <1>7, <1>8, <1>9, <1>10, <1>11, <1>12 DEF JjNext

\* Every step leaves each command with a call that fits what it is doing.
LEMMA CommandsStep ==
  ASSUME IInv, CommandsFit, JjNext
  PROVE  CommandsFit'
<1>1. CommandsTypeOK'
  BY CommandsTypeStep
<1>2. CASE RestartDaemon
  <2>1. ASSUME NEW c \in Clients PROVE CommandFits(c)'
    <3>1. /\ call'[c] = Idle /\ CommandFits(c)
          /\ command'[c] = IF call[c] = Idle THEN command[c] ELSE [command[c] EXCEPT !.doing = "failed"]
          /\ copies'[c] = [k \in DOMAIN copies[c] |-> [copies[c][k] EXCEPT !.current = FALSE]]
          /\ command[c] \in [path : Paths \cup {Unset}, doing : Doings] /\ copies[c] \in Seq(Cells)
      BY <1>2 DEF RestartDaemon, Restart, CommandsFit, CommandsTypeOK
    <3>2. copies'[c] = << >> <=> copies[c] = << >>
      BY <3>1
    <3>3. command'[c] = command[c] \/ command'[c] = [path |-> command[c].path, doing |-> "failed"]
      BY <3>1
    <3>4. command'[c] # command[c] => command[c].path \in Paths
      BY <3>1 DEF CommandFits, CallFits, Working
    <3> QED BY <3>1, <3>2, <3>3, <3>4 DEF CommandFits, CallFits, InInit, Working
  <2> QED BY <1>1, <2>1 DEF CommandsFit
<1>3. ASSUME NEW p, NEW held, MountDies(p, held) PROVE CommandsFit'
  BY <1>1, <1>3 DEF MountDies, CommandsFit, CommandFits, CallFits, InInit
<1>4. ASSUME NEW c \in Clients, ClientActs(c) \/ IsServed(c), OthersKept(c) PROVE CommandsFit'
  <2>1. known \subseteq known'
    BY <1>4 DEF ClientActs, StartsInit, Loads, SetsState, Asks, CallsForObject, GoesOn, IsServed,
       Dies, LooksUp, ReadsOpId, SetsOpId, Inserts, GoesTo, SetsWorkspaceId, Starts, FindsTree,
       Stores, Reads, ReadsState
  <2>2. \A d \in Clients \ {c} : CommandFits(d)'
    BY <1>4, <2>1, OthersFit
  <2>3. /\ CommandFits(c) /\ copies[c] \in Seq(Cells)
        /\ command[c] \in [path : Paths \cup {Unset}, doing : Doings]
    BY DEF CommandsFit, CommandsTypeOK
  <2>4. ASSUME ClientActs(c) PROVE CommandFits(c)'
    <3>1. ASSUME NEW p \in Paths, StartsInit(c, p) PROVE CommandFits(c)'
      BY <2>3, <3>1 DEF StartsInit, CommandFits, CallFits, InInit, NoCommand, Working
    <3>2. ASSUME NEW p \in Paths, Loads(c, p) PROVE CommandFits(c)'
      <4>1. <<NoCells>> # << >>
        OBVIOUS
      <4> QED BY <2>3, <3>2, <4>1 DEF Loads, CommandFits, CallFits, InInit, Working, vars
    <3>3. CASE SetsState(c)
      BY <2>3, <3>3 DEF SetsState, CommandFits, CallFits, InInit, Working
    <3>4. CASE Asks(c)
      BY <2>3, <3>4 DEF Asks, CommandFits, CallFits, InInit, Working
    <3>5. CASE CallsForObject(c)
      BY <2>3, <3>5 DEF CallsForObject, CommandFits, CallFits, InInit, Working
    <3>6. CASE GoesOn(c)
      BY <2>3, <3>6 DEF GoesOn, CommandFits, CallFits, InInit, Working, NoCommand, vars
    <3> QED BY <2>4, <3>1, <3>2, <3>3, <3>4, <3>5, <3>6 DEF ClientActs
  <2>5. ASSUME IsServed(c) PROVE CommandFits(c)'
    <3>1. ASSUME NEW held, Dies(c, held), DiesOf(c, held) PROVE CommandFits(c)'
      <4>1. call[c] # Idle
        BY <3>1 DEF DiesOf, At
      <4> QED BY <2>3, <3>1, <4>1 DEF Dies, CommandFits, CallFits, InInit, Working
    <3>2. CASE LooksUp(c)
      BY <2>3, <3>2 DEF LooksUp, GoesTo, At, AfterGet, CommandFits, CallFits, InInit, Working
    <3>3. CASE ReadsOpId(c)
      <4>1. call'[c].op_id \in States
        BY <3>3 DEF ReadsOpId, At, IInv, TypeOK, CallsKeepTheirMount, Checkouts
      <4> QED BY <2>3, <3>3, <4>1 DEF ReadsOpId, GoesTo, At, CommandFits, CallFits, InInit, Working
    <3>4. CASE SetsOpId(c)
      BY <2>3, <3>4 DEF SetsOpId, GoesTo, At, CommandFits, CallFits, InInit, Working
    <3>5. CASE Inserts(c)
      BY <2>3, <3>5 DEF Inserts, GoesTo, At, CommandFits, CallFits, InInit, Working
    <3>6. CASE SetsWorkspaceId(c) \/ Starts(c) \/ Stores(c) \/ Reads(c)
      BY <2>3, <3>6 DEF SetsWorkspaceId, Starts, Stores, Reads, IsAnswered, CommandFits, CallFits,
         InInit
    <3>7. CASE FindsTree(c) \/ ReadsState(c)
      <4>1. copies[c] # << >> /\ ~InInit(c) /\ call'[c] = Idle /\ command' = command
        BY <2>3, <3>7 DEF FindsTree, ReadsState, IsAnswered, At, CommandFits, CallFits, InInit,
           Working
      <4>2. copies' = copies \/ \E cells : copies' = Filled(c, cells)
        BY <3>7 DEF FindsTree, ReadsState
      <4>3. copies'[c] # << >>
        <5>1. ASSUME NEW cells, copies' = Filled(c, cells)
              PROVE  DOMAIN copies'[c] = DOMAIN copies[c]
          BY <5>1 DEF Filled, CommandsFit, CommandsTypeOK
        <5>2. Len(copies[c]) \in DOMAIN copies[c]
          BY <2>3, <4>1
        <5> QED BY <4>1, <4>2, <5>1, <5>2
      <4> QED BY <2>3, <4>1, <4>3 DEF CommandFits, CallFits, InInit
    <3> QED BY <2>5, <3>1, <3>2, <3>3, <3>4, <3>5, <3>6, <3>7 DEF IsServed
  <2> QED BY <1>1, <1>4, <2>2, <2>4, <2>5 DEF CommandsFit
<1> QED BY <1>2, <1>3, <1>4, StepKinds DEF IInv

-----------------------------------------------------------------------------
(* The invariants of jj commands.  An init owns the mount of its directory *)
(* from the moment its initialize has passed the assertion; all that is    *)
(* said of checkout states follows from there being one owner.             *)

\* Its initialize is past the table of mounts.
Past(c) == InInit(c) /\ ~(At(c, "mounts") /\ call[c].rpc = "initialize")

\* Careful: nothing runs beside an init in its directory, which is new and can
\* be mounted.
Alone ==
  Careful =>
    \A c \in Clients : InInit(c) =>
      /\ \A d \in Clients : command[d].path = command[c].path => d = c
      /\ command[c].path \in Mountable
      /\ ~Past(c) => command[c].path \notin DOMAIN mounts

OneOwner ==
  \A c, d \in Clients : Past(c) /\ Past(d) /\ command[c].path = command[d].path => c = d

OwnerHasMount ==
  ~MayRestart => \A c \in Clients : Past(c) =>
    /\ command[c].path \in DOMAIN mounts
    /\ ~At(c, "session") => command[c].path \in fuse_sessions

\* A workspace id is only set beside the operation id it belongs to.
StateIsWhole ==
  \A p \in DOMAIN mounts : mounts[p].workspace_id \in {Unset, mounts[p].op_id}

\* Nothing is set before the owner sets it.
NotSetYet ==
  \A c \in Clients : Past(c) /\ command[c].path \in DOMAIN mounts =>
    LET m == mounts[command[c].path]
    IN  /\ \/ command[c].doing = "initialize"
           \/ At(c, "mounts") \/ At(c, "set_op_id")
           => m.op_id = Unset /\ m.workspace_id = Unset
        /\ At(c, "set_workspace_id") => m.op_id = call[c].state /\ m.workspace_id = Unset

\* A handler that reads the state has read what is still there.
ReadsAgree ==
  \A c \in Clients : At(c, "get_workspace_id") =>
    call[c].op_id = mounts[call[c].path].op_id

Owned == OneOwner /\ OwnerHasMount /\ StateIsWhole /\ NotSetYet /\ ReadsAgree

\* An init that is under way goes on, and a command that is none stays so, in
\* every step but those that begin one and those that end one.
LEMMA InitKept ==
  ASSUME CommandsFit, NEW c \in Clients, OthersKept(c), NEW d \in Clients \ {c}
  PROVE  /\ InInit(d)' = InInit(d) /\ Past(d)' = Past(d)
         /\ command'[d].path = command[d].path
BY DEF OthersKept, InInit, Past, At

\* Of the client that acts: it begins an init or another command, its
\* initialize gets its mount, it ends, or it is as far in its init as it was.
LEMMA OwnMoves ==
  ASSUME CommandsFit, NEW c \in Clients, ClientActs(c) \/ IsServed(c)
  PROVE  \/ \E p \in Paths : StartsInit(c, p) \/ Loads(c, p)
         \/ Inserts(c) /\ InInit(c) /\ InInit(c)' /\ Past(c)' /\ ~Past(c)
         \/ command'[c] = NoCommand /\ mounts' = mounts
         \/ /\ command'[c].path = command[c].path /\ DOMAIN mounts' = DOMAIN mounts
            /\ InInit(c)' => InInit(c) /\ Past(c)' = Past(c)
<1> DEFINE Same == /\ command'[c].path = command[c].path /\ DOMAIN mounts' = DOMAIN mounts
                   /\ InInit(c)' => InInit(c) /\ Past(c)' = Past(c)
<1>1. CommandFits(c) /\ command[c] \in [path : Paths \cup {Unset}, doing : Doings]
  BY DEF CommandsFit, CommandsTypeOK
<1>2. ASSUME NEW held, Dies(c, held) PROVE Same
  BY <1>2 DEF Dies, InInit
<1>3. CASE SetsState(c) \/ Asks(c) \/ CallsForObject(c)
  BY <1>1, <1>3 DEF SetsState, Asks, CallsForObject, InInit, Past, At, Working
<1>4. CASE GoesOn(c)
  BY <1>1, <1>4 DEF GoesOn, InInit, vars, Working
<1>5. CASE LooksUp(c) \/ ReadsOpId(c) \/ SetsOpId(c)
  BY <1>1, <1>5 DEF LooksUp, ReadsOpId, SetsOpId, GoesTo, AfterGet, InInit, Past, At, CommandFits,
     CallFits
<1>6. CASE Inserts(c)
  BY <1>1, <1>6 DEF Inserts, GoesTo, InInit, Past, At, CommandFits, CallFits, Working
<1>7. CASE SetsWorkspaceId(c) \/ Starts(c) \/ FindsTree(c) \/ Stores(c) \/ Reads(c) \/ ReadsState(c)
  BY <1>7 DEF SetsWorkspaceId, Starts, FindsTree, Stores, Reads, ReadsState, IsAnswered, InInit,
     Past, At
<1> QED BY <1>2, <1>3, <1>4, <1>5, <1>6, <1>7 DEF ClientActs, IsServed

\* Careful users never come to run anything beside an init.
LEMMA AloneStep ==
  ASSUME IInv, CommandsFit, Alone, JjNext
  PROVE  Alone'
<1> SUFFICES ASSUME Careful
             PROVE  \A c \in Clients : InInit(c)' =>
                      /\ \A d \in Clients : command'[d].path = command'[c].path => d = c
                      /\ command'[c].path \in Mountable
                      /\ ~Past(c)' => command'[c].path \notin DOMAIN mounts'
  BY DEF Alone
<1>1. ASSUME NEW c \in Clients, InInit(c)
      PROVE  /\ \A d \in Clients : command[d].path = command[c].path => d = c
             /\ command[c].path \in Mountable /\ command[c].path \in Paths
             /\ ~Past(c) => command[c].path \notin DOMAIN mounts
  BY <1>1 DEF Alone, CommandsFit, CommandFits, InInit
<1>2. CASE RestartDaemon
  <2>1. \A c \in Clients : command'[c].path = command[c].path /\ (InInit(c)' => InInit(c))
    BY <1>2 DEF RestartDaemon, CommandsFit, CommandsTypeOK, InInit
  <2>2. DOMAIN mounts' = {}
    BY <1>2 DEF RestartDaemon, Restart, EmptyMap
  <2> QED BY <1>1, <2>1, <2>2
<1>3. ASSUME NEW p, NEW held, MountDies(p, held)
      PROVE  \A c \in Clients : InInit(c)' =>
                      /\ \A d \in Clients : command'[d].path = command'[c].path => d = c
                      /\ command'[c].path \in Mountable
                      /\ ~Past(c)' => command'[c].path \notin DOMAIN mounts'
  BY <1>1, <1>3 DEF MountDies, InInit, Past, At
<1>4. ASSUME NEW c \in Clients, ClientActs(c) \/ IsServed(c), OthersKept(c), NEW d \in Clients,
             InInit(d)'
      PROVE  /\ \A e \in Clients : command'[e].path = command'[d].path => e = d
             /\ command'[d].path \in Mountable
             /\ ~Past(d)' => command'[d].path \notin DOMAIN mounts'
  <2>1. \A e \in Clients \ {c} : /\ InInit(e)' = InInit(e) /\ Past(e)' = Past(e)
                                 /\ command'[e].path = command[e].path
    BY <1>4, InitKept
  <2>2. ASSUME NEW p \in Paths, StartsInit(c, p)
        PROVE  /\ command'[c].path = p /\ mounts' = mounts /\ p \notin DOMAIN mounts /\ p \in Mountable
               /\ \A e \in Clients : command[e].path # p
    BY <2>2 DEF StartsInit, Busy
  <2>3. ASSUME NEW p \in Paths, Loads(c, p)
        PROVE  /\ command'[c].path = p /\ mounts' = mounts /\ ~InInit(c)'
               /\ \A e \in Clients : command[e].path = p => ~InInit(e)
    BY <2>3 DEF Loads, vars, InInit, Initializing
  <2>4. CASE \E p \in Paths : StartsInit(c, p) \/ Loads(c, p)
    BY <1>1, <1>4, <2>1, <2>2, <2>3, <2>4
  <2>5. CASE Inserts(c) /\ InInit(c) /\ InInit(c)' /\ Past(c)'
    <3>1. /\ command' = command /\ call[c].path = command[c].path
          /\ DOMAIN mounts' = DOMAIN mounts \cup {command[c].path}
      BY <2>5 DEF Inserts, GoesTo, Put, At, CommandsFit, CommandFits, CallFits
    <3> QED BY <1>1, <1>4, <2>1, <2>5, <3>1
  <2>6. CASE command'[c] = NoCommand /\ mounts' = mounts
    <3>1. ~InInit(c)' /\ command'[c].path = Unset /\ Unset \notin Paths
      BY <2>6, UnsetAssumption DEF InInit, NoCommand
    <3> QED BY <1>1, <1>4, <2>1, <2>6, <3>1
  <2>7. CASE /\ command'[c].path = command[c].path /\ DOMAIN mounts' = DOMAIN mounts
             /\ InInit(c)' => InInit(c) /\ Past(c)' = Past(c)
    BY <1>1, <1>4, <2>1, <2>7
  <2> QED BY <1>4, <2>4, <2>5, <2>6, <2>7, OwnMoves
<1> QED BY <1>2, <1>3, <1>4, StepKinds DEF IInv

\* What becomes of the table of mounts: an owner sets its state, in two steps,
\* on a mount where nothing was set; or a mount comes that has no state.
LEMMA MountsMove ==
  ASSUME IInv, CommandsFit, NotSetYet, NEW c \in Clients, ClientActs(c) \/ IsServed(c)
  PROVE  LET p == command[c].path
         IN  \/ mounts' = mounts /\ ~SetsOpId(c) /\ ~SetsWorkspaceId(c) /\ ~Inserts(c)
             \/ /\ SetsOpId(c) /\ Past(c) /\ p \in DOMAIN mounts /\ DOMAIN mounts' = DOMAIN mounts
                /\ mounts[p].op_id = Unset /\ mounts[p].workspace_id = Unset
                /\ mounts'[p].op_id = call[c].state /\ mounts'[p].workspace_id = Unset
                /\ \A q \in DOMAIN mounts \ {p} : mounts'[q] = mounts[q]
             \/ /\ SetsWorkspaceId(c) /\ Past(c) /\ p \in DOMAIN mounts /\ DOMAIN mounts' = DOMAIN mounts
                /\ mounts[p].op_id = call[c].state /\ mounts[p].workspace_id = Unset
                /\ mounts'[p].op_id = call[c].state /\ mounts'[p].workspace_id = call[c].state
                /\ \A q \in DOMAIN mounts \ {p} : mounts'[q] = mounts[q]
             \/ /\ Inserts(c) /\ p \notin DOMAIN mounts /\ DOMAIN mounts' = DOMAIN mounts \cup {p}
                /\ mounts'[p].op_id = Unset /\ mounts'[p].workspace_id = Unset
                /\ \A q \in DOMAIN mounts : mounts'[q] = mounts[q]
<1> DEFINE p == command[c].path
<1>1. CASE SetsOpId(c)
  <2>1. /\ call[c] # Idle /\ call[c].at = "set_op_id" /\ call[c].path = p
        /\ command[c].doing = "set_checkout_state" /\ Past(c)
    BY <1>1 DEF SetsOpId, At, CommandsFit, CommandFits, CallFits, Past, InInit
  <2>2. p \in DOMAIN mounts
    BY <2>1 DEF IInv, CallsKeepTheirMount
  <2>3. mounts[p].op_id = Unset /\ mounts[p].workspace_id = Unset
    BY <2>1, <2>2 DEF NotSetYet, At
  <2>4. mounts[p] \in [op_id : Checkouts, workspace_id : Checkouts]
    BY <2>2 DEF IInv, TypeOK
  <2> QED BY <1>1, <2>1, <2>2, <2>3, <2>4 DEF SetsOpId
<1>2. CASE SetsWorkspaceId(c)
  <2>1. /\ call[c] # Idle /\ call[c].at = "set_workspace_id" /\ call[c].path = p
        /\ command[c].doing = "set_checkout_state" /\ Past(c)
    BY <1>2 DEF SetsWorkspaceId, At, CommandsFit, CommandFits, CallFits, Past, InInit
  <2>2. p \in DOMAIN mounts
    BY <2>1 DEF IInv, CallsKeepTheirMount
  <2>3. mounts[p].op_id = call[c].state /\ mounts[p].workspace_id = Unset
    BY <2>1, <2>2 DEF NotSetYet, At
  <2>4. mounts[p] \in [op_id : Checkouts, workspace_id : Checkouts]
    BY <2>2 DEF IInv, TypeOK
  <2> QED BY <1>2, <2>1, <2>2, <2>3, <2>4 DEF SetsWorkspaceId
<1>3. CASE Inserts(c)
  <2>1. call[c].path = p
    BY <1>3 DEF Inserts, At, CommandsFit, CommandFits, CallFits
  <2> QED BY <1>3, <2>1 DEF Inserts, Put, NewMount
<1>4. CASE ~SetsOpId(c) /\ ~SetsWorkspaceId(c) /\ ~Inserts(c)
  BY <1>4 DEF ClientActs, StartsInit, Loads, SetsState, Asks, CallsForObject, GoesOn, vars,
     IsServed, Dies, LooksUp, ReadsOpId, Starts, FindsTree, Stores, Reads, ReadsState
<1> QED BY <1>1, <1>2, <1>3, <1>4

\* A second init of a directory dies in its initialize.
LEMMA OneOwnerStep ==
  ASSUME Careful \/ ~MayRestart,
         IInv, CommandsFit, Alone, Alone', Owned, JjNext
  PROVE  OneOwner'
<1>1. CASE Careful
  BY <1>1 DEF Alone, OneOwner, Past
<1>2. CASE ~MayRestart
  <2>1. ~RestartDaemon
    BY <1>2 DEF RestartDaemon
  <2>2. ASSUME NEW p, NEW held, MountDies(p, held) PROVE OneOwner'
    BY <2>2 DEF MountDies, Owned, OneOwner, Past, InInit, At
  <2>3. ASSUME NEW c \in Clients, ClientActs(c) \/ IsServed(c), OthersKept(c) PROVE OneOwner'
    <3>1. \A d \in Clients \ {c} : Past(d)' = Past(d) /\ command'[d].path = command[d].path
      BY <2>3, InitKept
    <3>2. CASE \E p \in Paths : StartsInit(c, p) \/ Loads(c, p)
      <4>1. ~Past(c)'
        BY <3>2 DEF StartsInit, Loads, Past, InInit, At
      <4> QED BY <3>1, <4>1 DEF Owned, OneOwner
    <3>3. CASE Inserts(c)
      <4>1. command' = command /\ command[c].path \notin DOMAIN mounts
        BY <3>3 DEF Inserts, GoesTo, At, CommandsFit, CommandFits, CallFits
      <4>2. \A d \in Clients : Past(d) => command[d].path # command[c].path
        BY <1>2, <4>1 DEF Owned, OwnerHasMount
      <4> QED BY <3>1, <4>1, <4>2 DEF Owned, OneOwner
    <3>4. CASE command'[c] = NoCommand
      <4>1. ~Past(c)'
        BY <3>4 DEF Past, InInit, NoCommand
      <4> QED BY <3>1, <4>1 DEF Owned, OneOwner
    <3>5. CASE command'[c].path = command[c].path /\ (InInit(c)' => Past(c)' = Past(c))
      <4>1. Past(c)' => Past(c)
        BY <3>5 DEF Past
      <4> QED BY <3>1, <3>5, <4>1 DEF Owned, OneOwner
    <3> QED BY <2>3, <3>2, <3>3, <3>4, <3>5, OwnMoves
  <2> QED BY <2>1, <2>2, <2>3, StepKinds DEF IInv
<1> QED BY <1>1, <1>2

\* A mount stays for as long as the daemon does.
LEMMA OwnerHasMountStep ==
  ASSUME IInv, CommandsFit, Owned, JjNext
  PROVE  OwnerHasMount'
<1> SUFFICES ASSUME ~MayRestart
             PROVE  \A c \in Clients : Past(c)' =>
                      /\ command'[c].path \in DOMAIN mounts'
                      /\ ~At(c, "session")' => command'[c].path \in fuse_sessions'
  BY DEF OwnerHasMount
<1>1. \A c \in Clients : Past(c) =>
        /\ command[c].path \in DOMAIN mounts
        /\ ~At(c, "session") => command[c].path \in fuse_sessions
  BY DEF Owned, OwnerHasMount
<1>2. ~RestartDaemon
  BY DEF RestartDaemon
<1>3. ASSUME NEW p, NEW held, MountDies(p, held), NEW d \in Clients, Past(d)'
      PROVE  /\ command'[d].path \in DOMAIN mounts'
             /\ ~At(d, "session")' => command'[d].path \in fuse_sessions'
  BY <1>1, <1>3 DEF MountDies, Past, InInit, At
<1>4. ASSUME NEW c \in Clients, ClientActs(c) \/ IsServed(c), OthersKept(c), NEW d \in Clients,
             Past(d)'
      PROVE  /\ command'[d].path \in DOMAIN mounts'
             /\ ~At(d, "session")' => command'[d].path \in fuse_sessions'
  <2>1. fuse_sessions \subseteq fuse_sessions'
    BY <1>4 DEF ClientActs, StartsInit, Loads, SetsState, Asks, CallsForObject, GoesOn, vars,
       IsServed, Dies, GoesTo, LooksUp, ReadsOpId, SetsOpId, Inserts, SetsWorkspaceId, Starts,
       FindsTree, Stores, Reads, ReadsState
  <2>2. DOMAIN mounts \subseteq DOMAIN mounts'
    BY <1>4, MountsMove DEF Owned
  <2>3. CASE d # c
    BY <1>1, <1>4, <2>1, <2>2, <2>3, InitKept DEF OthersKept, At
  <2>4. CASE d = c
    <3>1. CASE Inserts(c)
      BY <2>4, <3>1 DEF Inserts, GoesTo, Put, At, CommandsFit, CommandFits, CallFits
    <3>2. CASE Past(c) /\ command'[c].path = command[c].path
      <4>1. At(c, "session") /\ ~At(c, "session")' => Starts(c)
        <5>1. ASSUME At(c, "session"), ~At(c, "session")' PROVE Starts(c)
          <6>1. call[c].at = "session" /\ call[c] # Idle /\ InInit(c)'
            BY <1>4, <2>4, <5>1 DEF At, Past
          <6>2. IsServed(c)
            BY <1>4, <6>1 DEF ClientActs, StartsInit, Loads, SetsState, Asks, CallsForObject, GoesOn
          <6>3. \A held : ~Dies(c, held)
            BY <6>1 DEF Dies, InInit
          <6> QED BY <6>1, <6>2, <6>3 DEF IsServed, At, LooksUp, ReadsOpId, SetsOpId, Inserts,
                  SetsWorkspaceId, FindsTree, Stores, Reads, ReadsState
        <5> QED BY <5>1
      <4>2. Starts(c) => command[c].path \in fuse_sessions'
        BY DEF Starts, At, CommandsFit, CommandFits, CallFits
      <4> QED BY <1>1, <2>1, <2>2, <2>4, <3>2, <4>1, <4>2
    <3>3. ASSUME NEW p \in Paths PROVE ~StartsInit(c, p) /\ ~Loads(c, p)
      BY <1>4, <2>4 DEF StartsInit, Loads, Past, InInit, At
    <3>4. command'[c] # NoCommand
      BY <1>4, <2>4 DEF Past, InInit, NoCommand
    <3> QED BY <1>4, <2>4, <3>1, <3>2, <3>3, <3>4, OwnMoves DEF Past
  <2> QED BY <2>3, <2>4
<1> QED BY <1>2, <1>3, <1>4, StepKinds DEF IInv

\* Only the init that has set the operation id sets the workspace id.
LEMMA StateIsWholeStep ==
  ASSUME IInv, CommandsFit, Owned, JjNext
  PROVE  StateIsWhole'
<1>1. CASE RestartDaemon
  BY <1>1 DEF RestartDaemon, Restart, EmptyMap, StateIsWhole
<1>2. ASSUME NEW p, NEW held, MountDies(p, held) PROVE StateIsWhole'
  BY <1>2 DEF MountDies, Owned, StateIsWhole
<1>3. ASSUME NEW c \in Clients, ClientActs(c) \/ IsServed(c) PROVE StateIsWhole'
  <2>1. \A p \in DOMAIN mounts : mounts[p].workspace_id \in {Unset, mounts[p].op_id}
    BY DEF Owned, StateIsWhole
  <2> QED BY <1>3, <2>1, MountsMove DEF Owned, StateIsWhole
<1> QED BY <1>1, <1>2, <1>3, StepKinds DEF IInv

\* Nobody sets a state before its owner does.
LEMMA NotSetYetStep ==
  ASSUME IInv, CommandsFit, Owned, JjNext
  PROVE  NotSetYet'
<1> DEFINE Unsaid(c) ==
      LET m == mounts[command[c].path]
      IN  /\ \/ command[c].doing = "initialize"
             \/ At(c, "mounts") \/ At(c, "set_op_id")
             => m.op_id = Unset /\ m.workspace_id = Unset
          /\ At(c, "set_workspace_id") => m.op_id = call[c].state /\ m.workspace_id = Unset
<1>1. \A c \in Clients : Past(c) /\ command[c].path \in DOMAIN mounts => Unsaid(c)
  BY DEF Owned, NotSetYet
<1>2. SUFFICES \A c \in Clients : Past(c)' /\ command'[c].path \in DOMAIN mounts' => Unsaid(c)'
  BY DEF NotSetYet
<1>3. CASE RestartDaemon
  BY <1>3 DEF RestartDaemon, Restart, EmptyMap
<1>4. ASSUME NEW p, NEW held, MountDies(p, held), NEW d \in Clients, Past(d)',
             command'[d].path \in DOMAIN mounts'
      PROVE  Unsaid(d)'
  BY <1>1, <1>4 DEF MountDies, Past, InInit, At
<1>5. ASSUME NEW c \in Clients, ClientActs(c) \/ IsServed(c), OthersKept(c),
             NEW d \in Clients, Past(d)', command'[d].path \in DOMAIN mounts'
      PROVE  Unsaid(d)'
  <2>1. CASE d # c
    <3>1. Past(d) /\ call'[d] = call[d] /\ command'[d] = command[d]
      BY <1>5, <2>1, InitKept DEF OthersKept
    <3>2. CASE mounts' = mounts
      BY <1>1, <1>5, <3>1, <3>2 DEF At
    <3>3. CASE Past(c) /\ DOMAIN mounts' = DOMAIN mounts
               /\ \A q \in DOMAIN mounts \ {command[c].path} : mounts'[q] = mounts[q]
      <4>1. command[d].path # command[c].path
        BY <2>1, <3>1, <3>3 DEF Owned, OneOwner
      <4>2. mounts'[command[d].path] = mounts[command[d].path] /\ command[d].path \in DOMAIN mounts
        BY <1>5, <3>1, <3>3, <4>1
      <4> QED BY <1>1, <3>1, <4>2 DEF At
    <3>4. CASE /\ command[c].path \notin DOMAIN mounts
               /\ DOMAIN mounts' = DOMAIN mounts \cup {command[c].path}
               /\ mounts'[command[c].path].op_id = Unset
               /\ mounts'[command[c].path].workspace_id = Unset
               /\ \A q \in DOMAIN mounts : mounts'[q] = mounts[q]
      <4>1. At(d, "set_workspace_id") => command[d].path \in DOMAIN mounts
        BY DEF At, CommandsFit, CommandFits, CallFits, IInv, CallsKeepTheirMount
      <4> QED BY <1>1, <1>5, <3>1, <3>4, <4>1 DEF At
    <3> QED BY <1>5, <3>2, <3>3, <3>4, MountsMove DEF Owned
  <2>2. CASE d = c
    <3>1. CASE mounts' = mounts /\ ~SetsOpId(c) /\ ~SetsWorkspaceId(c) /\ ~Inserts(c)
      <4>1. Past(c) /\ command'[c].path = command[c].path
        <5>1. ASSUME NEW p \in Paths PROVE ~StartsInit(c, p) /\ ~Loads(c, p)
          BY <1>5, <2>2 DEF StartsInit, Loads, Past, InInit, At
        <5>2. command'[c] # NoCommand
          BY <1>5, <2>2 DEF Past, InInit, NoCommand
        <5> QED BY <1>5, <2>2, <3>1, <5>1, <5>2, OwnMoves DEF Past
      <4>2. Unsaid(c) /\ CommandFits(c)
        BY <1>1, <1>5, <2>2, <3>1, <4>1 DEF CommandsFit
      <4>3. CASE SetsState(c) \/ CallsForObject(c)
        BY <2>2, <3>1, <4>2, <4>3 DEF SetsState, CallsForObject, At
      <4>4. CASE Asks(c) \/ GoesOn(c)
        BY <1>5, <2>2, <4>4 DEF Asks, GoesOn, Past, InInit, Working, NoCommand
      <4>5. CASE LooksUp(c) \/ ReadsOpId(c)
        BY <2>2, <3>1, <4>1, <4>2, <4>5 DEF LooksUp, ReadsOpId, GoesTo, AfterGet, At
      <4>6. CASE IsAnswered(c) \/ ReadsState(c)
        BY <2>2, <3>1, <4>2, <4>6 DEF IsAnswered, ReadsState, At
      <4>7. ASSUME NEW held PROVE ~Dies(c, held)
        BY <1>5, <2>2 DEF Dies, Past, InInit
      <4>8. \A p \in Paths : ~StartsInit(c, p) /\ ~Loads(c, p)
        BY <1>5, <2>2 DEF StartsInit, Loads, Past, InInit, At
      <4> QED BY <1>5, <2>2, <3>1, <4>3, <4>4, <4>5, <4>6, <4>7, <4>8
              DEF ClientActs, IsServed, Starts, FindsTree, Stores, Reads
    <3>2. CASE /\ SetsOpId(c)
               /\ mounts'[command[c].path].op_id = call[c].state
               /\ mounts'[command[c].path].workspace_id = Unset
      BY <2>2, <3>2 DEF SetsOpId, GoesTo, At, CommandsFit, CommandFits, CallFits, Working
    <3>3. CASE SetsWorkspaceId(c)
      BY <2>2, <3>3 DEF SetsWorkspaceId, IsAnswered, At, CommandsFit, CommandFits, CallFits, Working
    <3>4. CASE /\ Inserts(c)
               /\ mounts'[command[c].path].op_id = Unset
               /\ mounts'[command[c].path].workspace_id = Unset
      BY <2>2, <3>4 DEF Inserts, GoesTo, At
    <3> QED BY <1>5, <3>1, <3>2, <3>3, <3>4, MountsMove DEF Owned
  <2> QED BY <2>1, <2>2
<1> QED BY <1>3, <1>4, <1>5, StepKinds DEF IInv

\* An operation id that a handler has read does not change behind its back.
LEMMA ReadsAgreeStep ==
  ASSUME IInv, CommandsFit, Owned, JjNext
  PROVE  ReadsAgree'
<1>1. \A c \in Clients : At(c, "get_workspace_id") =>
        /\ call[c].op_id = mounts[call[c].path].op_id /\ call[c].path \in DOMAIN mounts
        /\ mounts[call[c].path].op_id # Unset
  BY DEF Owned, ReadsAgree, IInv, CallsKeepTheirMount, At
<1>2. CASE RestartDaemon
  BY <1>2 DEF RestartDaemon, Restart, ReadsAgree, At
<1>3. ASSUME NEW p, NEW held, MountDies(p, held) PROVE ReadsAgree'
  BY <1>1, <1>3 DEF MountDies, ReadsAgree, At
<1>4. ASSUME NEW c \in Clients, ClientActs(c) \/ IsServed(c), OthersKept(c), NEW d \in Clients,
             At(d, "get_workspace_id")'
      PROVE  call'[d].op_id = mounts'[call'[d].path].op_id
  <2>1. CASE d # c
    <3>1. call'[d] = call[d] /\ At(d, "get_workspace_id")
      BY <1>4, <2>1 DEF OthersKept, At
    <3>2. \A q \in DOMAIN mounts : mounts[q].op_id # Unset => mounts'[q].op_id = mounts[q].op_id
      BY <1>4, MountsMove DEF Owned
    <3> QED BY <1>1, <3>1, <3>2
  <2>2. CASE d = c
    <3>1. ReadsOpId(c)
      BY <1>4, <2>2 DEF At, ClientActs, StartsInit, Loads, SetsState, Asks, CallsForObject, GoesOn,
         vars, IsServed, Dies, LooksUp, AfterGet, SetsOpId, Inserts, GoesTo, SetsWorkspaceId,
         Starts, FindsTree, Stores, Reads, IsAnswered, ReadsState
    <3> QED BY <2>2, <3>1 DEF ReadsOpId, GoesTo
  <2> QED BY <2>1, <2>2
<1> QED BY <1>2, <1>3, <1>4, StepKinds DEF IInv, ReadsAgree

-----------------------------------------------------------------------------
\* What is in the cells of the client that acts: what was there, nothing, or
\* the state that its handler has just read.
LEMMA CellsMove ==
  ASSUME CommandsFit, NEW c \in Clients, ClientActs(c) \/ IsServed(c),
         NEW k \in DOMAIN copies'[c]
  PROVE  \/ copies'[c][k].checkout = Unset
         \/ /\ command'[c].path = command[c].path
            /\ \E j \in DOMAIN copies[c] : /\ copies'[c][k].checkout = copies[c][j].checkout
                                           /\ copies'[c][k].current = copies[c][j].current
         \/ /\ ReadsState(c) /\ command' = command
            /\ copies'[c][k].checkout = <<call[c].op_id, mounts[call[c].path].workspace_id>>
<1>1. CommandFits(c) /\ copies \in [Clients -> Seq(Cells)]
  BY DEF CommandsFit, CommandsTypeOK
<1>2. ASSUME NEW p, StartsInit(c, p) PROVE copies'[c] = << >>
  BY <1>1, <1>2 DEF StartsInit, CommandFits, NoCommand
<1>3. ASSUME NEW p, Loads(c, p) PROVE copies'[c][k].checkout = Unset
  BY <1>3 DEF Loads, NoCells
<1>4. CASE SetsState(c) \/ Asks(c) \/ CallsForObject(c)
  BY <1>4 DEF SetsState, Asks, CallsForObject
<1>5. CASE GoesOn(c)
  BY <1>5 DEF GoesOn, NoCells
<1>6. ASSUME copies' = copies, command' = command \/ \E held : Dies(c, held)
      PROVE  /\ command'[c].path = command[c].path
             /\ \E j \in DOMAIN copies[c] : /\ copies'[c][k].checkout = copies[c][j].checkout
                                            /\ copies'[c][k].current = copies[c][j].current
  BY <1>6 DEF Dies
<1>7. ASSUME NEW cells, copies' = Filled(c, cells), copies[c] # << >>
      PROVE  /\ DOMAIN copies'[c] = DOMAIN copies[c]
             /\ Len(copies[c]) \in DOMAIN copies[c]
             /\ copies'[c][Len(copies[c])] = cells
             /\ k # Len(copies[c]) => copies'[c][k] = copies[c][k]
  <2>1. Len(copies[c]) \in DOMAIN copies[c]
    BY <1>1, <1>7
  <2> QED BY <1>1, <1>7, <2>1 DEF Filled
<1>8. CASE ReadsState(c)
  <2>1. copies[c] # << >>
    BY <1>1, <1>8 DEF ReadsState, At, CommandFits, CallFits
  <2>2. InUse(c) \in Cells
    BY <1>1, <2>1, InUseType
  <2>3. [InUse(c) EXCEPT !.checkout = <<call[c].op_id, mounts[call[c].path].workspace_id>>].checkout
          = <<call[c].op_id, mounts[call[c].path].workspace_id>>
    BY <2>2 DEF Cells
  <2> QED BY <1>7, <1>8, <2>1, <2>3 DEF ReadsState
<1>9. CASE FindsTree(c) /\ copies' = Filled(c, [InUse(c) EXCEPT !.tree = TRUE])
  <2>1. copies[c] # << >>
    BY <1>1, <1>9 DEF FindsTree, At, CommandFits, CallFits
  <2>2. InUse(c) \in Cells
    BY <1>1, <2>1, InUseType
  <2>3. /\ [InUse(c) EXCEPT !.tree = TRUE].checkout = copies[c][Len(copies[c])].checkout
        /\ [InUse(c) EXCEPT !.tree = TRUE].current = copies[c][Len(copies[c])].current
    BY <2>2 DEF Cells, InUse
  <2> QED BY <1>7, <1>9, <2>1, <2>3 DEF FindsTree, IsAnswered
<1>10. CASE copies' = copies /\ (command' = command \/ \E held : Dies(c, held))
  BY <1>6, <1>10
<1> QED BY <1>2, <1>3, <1>4, <1>5, <1>8, <1>9, <1>10 DEF ClientActs, IsServed, Dies, LooksUp,
   ReadsOpId, SetsOpId, Inserts, GoesTo, SetsWorkspaceId, Starts, FindsTree, Stores, Reads,
   IsAnswered

\* What fills the cells of a working copy is what the daemon holds, and stays
\* so.
LEMMA CellsAgreeStep ==
  ASSUME IInv, CommandsFit, Owned, CellsAgreeWithDaemon, JjNext
  PROVE  CellsAgreeWithDaemon'
<1> DEFINE Agrees(cells, p, ms) == cells.current /\ cells.checkout # Unset =>
                                     /\ p \in DOMAIN ms
                                     /\ cells.checkout = <<ms[p].op_id, ms[p].workspace_id>>
<1>1. \A c \in Clients : \A k \in DOMAIN copies[c] : Agrees(copies[c][k], command[c].path, mounts)
  BY DEF CellsAgreeWithDaemon
<1>2. SUFFICES \A c \in Clients : \A k \in DOMAIN copies'[c] :
                 Agrees(copies'[c][k], command'[c].path, mounts')
  BY DEF CellsAgreeWithDaemon
<1>3. CASE RestartDaemon
  <2>1. ASSUME NEW c \in Clients, NEW k \in DOMAIN copies'[c] PROVE ~copies'[c][k].current
    <3>1. /\ copies'[c] = [j \in DOMAIN copies[c] |-> [copies[c][j] EXCEPT !.current = FALSE]]
          /\ copies[c] \in Seq(Cells)
      BY <1>3 DEF RestartDaemon, CommandsFit, CommandsTypeOK
    <3>2. k \in DOMAIN copies[c] /\ copies[c][k] \in Cells
      BY <3>1
    <3> QED BY <3>1, <3>2 DEF Cells
  <2> QED BY <2>1
<1>4. ASSUME NEW p, NEW held, MountDies(p, held)
      PROVE  \A c \in Clients : \A k \in DOMAIN copies'[c] :
               Agrees(copies'[c][k], command'[c].path, mounts')
  BY <1>1, <1>4 DEF MountDies
<1>5. ASSUME NEW c \in Clients, ClientActs(c) \/ IsServed(c), OthersKept(c),
             NEW d \in Clients, NEW k \in DOMAIN copies'[d]
      PROVE  Agrees(copies'[d][k], command'[d].path, mounts')
  <2>1. ASSUME NEW e \in Clients, NEW j \in DOMAIN copies[e]
        PROVE  Agrees(copies[e][j], command[e].path, mounts')
    <3> DEFINE cells == copies[e][j]
               p == command[e].path
    <3>1. SUFFICES ASSUME cells.current, cells.checkout # Unset
                   PROVE  /\ p \in DOMAIN mounts'
                          /\ cells.checkout = <<mounts'[p].op_id, mounts'[p].workspace_id>>
      OBVIOUS
    <3>2. p \in DOMAIN mounts /\ cells.checkout = <<mounts[p].op_id, mounts[p].workspace_id>>
      BY <1>1, <3>1
    <3>3. cells \in Cells
      BY DEF CommandsFit, CommandsTypeOK
    <3>4. mounts[p].op_id # Unset /\ mounts[p].workspace_id # Unset
      <4>1. cells.checkout \in States \X States
        BY <3>1, <3>3 DEF Cells
      <4> QED BY <3>2, <4>1, UnsetAssumption
    <3>5. p \in DOMAIN mounts' /\ mounts'[p] = mounts[p]
      BY <1>5, <3>2, <3>4, MountsMove DEF Owned
    <3> QED BY <3>2, <3>5
  <2>2. CASE d # c
    BY <1>5, <2>1, <2>2 DEF OthersKept
  <2>3. CASE d = c
    <3>1. CASE copies'[c][k].checkout = Unset
      BY <2>3, <3>1
    <3>2. CASE /\ command'[c].path = command[c].path
               /\ \E j \in DOMAIN copies[c] : /\ copies'[c][k].checkout = copies[c][j].checkout
                                              /\ copies'[c][k].current = copies[c][j].current
      BY <2>1, <2>3, <3>2
    <3>3. CASE /\ ReadsState(c) /\ command' = command
               /\ copies'[c][k].checkout = <<call[c].op_id, mounts[call[c].path].workspace_id>>
      <4>1. /\ mounts' = mounts /\ call[c].path = command[c].path /\ call[c].path \in DOMAIN mounts
            /\ call[c].op_id = mounts[call[c].path].op_id
        BY <3>3 DEF ReadsState, At, CommandsFit, CommandFits, CallFits, IInv, CallsKeepTheirMount,
           Owned, ReadsAgree
      <4> QED BY <2>3, <3>3, <4>1
    <3> QED BY <1>5, <2>3, <3>1, <3>2, <3>3, CellsMove
  <2> QED BY <2>2, <2>3
<1> QED BY <1>3, <1>4, <1>5, StepKinds DEF IInv

\* What a handler answers is one state.
LEMMA NotTornStep ==
  ASSUME IInv, CommandsFit, Owned, CheckoutStateIsNotTorn, JjNext
  PROVE  CheckoutStateIsNotTorn'
<1>1. CASE RestartDaemon
  BY <1>1 DEF RestartDaemon, Restart, CheckoutStateIsNotTorn
<1>2. ASSUME NEW p, NEW held, MountDies(p, held) PROVE CheckoutStateIsNotTorn'
  BY <1>2 DEF MountDies, CheckoutStateIsNotTorn
<1>3. ASSUME NEW c \in Clients, ClientActs(c) \/ IsServed(c), OthersKept(c), NEW d \in Clients,
             reply'[d].res = "state"
      PROVE  reply'[d].op_id = reply'[d].workspace_id
  <2>1. CASE reply'[d] = reply[d]
    BY <1>3, <2>1 DEF CheckoutStateIsNotTorn
  <2>2. CASE d = c /\ ReadsState(c)
    <3> DEFINE p == call[c].path
    <3>1. p \in DOMAIN mounts /\ call[c].op_id = mounts[p].op_id /\ mounts[p].workspace_id # Unset
      BY <2>2 DEF ReadsState, At, IInv, CallsKeepTheirMount, Owned, ReadsAgree
    <3>2. mounts[p].workspace_id = mounts[p].op_id
      BY <3>1 DEF Owned, StateIsWhole
    <3> QED BY <2>2, <3>1, <3>2 DEF ReadsState
  <2>3. CASE d = c /\ ~ReadsState(c) /\ reply'[c] # reply[c]
    <3>1. IsAnswered(c) \/ \E held : Dies(c, held)
      BY <1>3, <2>3 DEF ClientActs, StartsInit, Loads, SetsState, Asks, CallsForObject, GoesOn,
         vars, IsServed, LooksUp, ReadsOpId, SetsOpId, Inserts, GoesTo, SetsWorkspaceId, Starts,
         FindsTree, Stores, Reads
    <3> QED BY <1>3, <2>3, <3>1 DEF IsAnswered, Ok, Dies, Unwrapped
  <2> QED BY <1>3, <2>1, <2>2, <2>3 DEF OthersKept
<1> QED BY <1>1, <1>2, <1>3, StepKinds DEF IInv, CheckoutStateIsNotTorn

-----------------------------------------------------------------------------
(* What poisons a mutex.                                                   *)

\* A poisoned table lost an object that jj knows of, or a mount died on it.
TablesLost ==
  \A t \in Tables : TableOf(t) \in poisoned =>
    \/ \E id \in known \ stored : id[1] = t
    \/ t \in {"files", "symlinks"} /\ dead # {}

\* Careful: of the other mutexes only an operation id can be poisoned, and
\* not while an init is at work there.
MutexesLeft ==
  Careful =>
    /\ Mounts \notin poisoned
    /\ \A p \in Paths : /\ WorkspaceId(p) \notin poisoned
                        /\ OpId(p) \in poisoned => p \in DOMAIN mounts /\ ~Initializing(p)

\* Careful: a state is half set only while set_checkout_state is at work on it:
\* however an init ends, it has set both ids or neither.
AllOrNothing ==
  Careful => \A p \in DOMAIN mounts :
    mounts[p].op_id # Unset /\ mounts[p].workspace_id = Unset =>
      \E c \in Clients : At(c, "set_workspace_id") /\ call[c].path = p

Poisoning == TablesLost /\ MutexesLeft /\ AllOrNothing

\* The mutexes of tables are those of no mount, and one for each table.
LEMMA TableMutexes ==
  /\ \A t \in Tables : TableOf(t) # Mounts
  /\ \A t, u \in Tables : TableOf(t) = TableOf(u) => t = u
  /\ \A t \in Tables, p \in Paths : TableOf(t) # OpId(p) /\ TableOf(t) # WorkspaceId(p)
BY TablesAssumption DEF TableOf, Mounts, OpId, WorkspaceId

\* Only a panic poisons.
LEMMA PoisonMoves ==
  ASSUME NEW c \in Clients, ClientActs(c) \/ IsServed(c)
  PROVE  \/ poisoned' = poisoned
         \/ IsServed(c) /\ \E held : Dies(c, held) /\ DiesOf(c, held)
BY DEF ClientActs, StartsInit, Loads, SetsState, Asks, CallsForObject, GoesOn, vars, IsServed,
   LooksUp, ReadsOpId, SetsOpId, Inserts, GoesTo, SetsWorkspaceId, Starts, FindsTree, Stores,
   Reads, IsAnswered, ReadsState

\* The calls of an object and of a mount are about objects and paths there are.
LEMMA CallAbout ==
  ASSUME TypeOK, CommandsFit, NEW c \in Clients
  PROVE  /\ At(c, "table") => call[c].table \in Tables /\ call[c].id \in Objects
         /\ call[c] # Idle /\ ~At(c, "table") =>
              call[c].path \in Paths /\ call[c].path = command[c].path /\ call[c].state \in States
<1>1. CASE At(c, "table")
  <2>1. call[c] \in ObjectCalls
    BY <1>1, CallShape DEF At
  <2> QED BY <1>1, <2>1 DEF ObjectCalls
<1>2. CASE call[c] # Idle /\ ~At(c, "table")
  <2>1. call[c] \in MountCalls
    BY <1>2, CallShape DEF At
  <2> QED BY <1>2, <2>1 DEF MountCalls, At, CommandsFit, CommandFits, CallFits
<1> QED BY <1>1, <1>2 DEF At

\* The mutex of a table is poisoned only by the loss of an object or the death
\* of a mount.
LEMMA TablesLostStep ==
  ASSUME Conflicts \cap Objects = {}, IInv, CommandsFit, Poisoning, JjNext
  PROVE  TablesLost'
<1>1. CASE RestartDaemon
  BY <1>1 DEF RestartDaemon, Restart, TablesLost
<1>2. ASSUME NEW p, NEW held, MountDies(p, held) PROVE TablesLost'
  <2>1. /\ poisoned' = poisoned \cup held
        /\ held \subseteq {TableOf(t) : t \in Tables \cap {"files", "symlinks"}}
        /\ dead' = dead \cup {p} /\ UNCHANGED <<known, stored>>
    BY <1>2 DEF MountDies
  <2> QED BY <2>1, TableMutexes DEF Poisoning, TablesLost
<1>3. ASSUME NEW c \in Clients, ClientActs(c) \/ IsServed(c), OthersKept(c), NEW t \in Tables,
             TableOf(t) \in poisoned'
      PROVE  \/ \E id \in known' \ stored' : id[1] = t
             \/ t \in {"files", "symlinks"} /\ dead' # {}
  <2>1. dead' = dead
    BY <1>3 DEF OthersKept
  <2>2. CASE TableOf(t) \in poisoned
    <3>1. CASE Stores(c)
      <4>1. call[c].table # t
        BY <2>2, <3>1 DEF Stores
      <4>2. known' \ stored' = (known \ stored) \ {<<call[c].table, call[c].id>>}
        BY <3>1 DEF Stores
      <4>3. <<call[c].table, call[c].id>>[1] = call[c].table
        OBVIOUS
      <4> QED BY <2>1, <2>2, <4>1, <4>2, <4>3 DEF Poisoning, TablesLost
    <3>2. CASE ~Stores(c)
      <4>1. known' = known /\ stored' = stored
        BY <1>3, <3>2 DEF ClientActs, StartsInit, Loads, SetsState, Asks, CallsForObject, GoesOn,
           vars, IsServed, Dies, LooksUp, ReadsOpId, SetsOpId, Inserts, GoesTo, SetsWorkspaceId,
           Starts, FindsTree, Reads, ReadsState
      <4> QED BY <2>1, <2>2, <4>1 DEF Poisoning, TablesLost
    <3> QED BY <3>1, <3>2
  <2>3. CASE TableOf(t) \notin poisoned
    <3>1. PICK held : Dies(c, held) /\ DiesOf(c, held)
      BY <1>3, <2>3, PoisonMoves
    <3>2. TableOf(t) \in held /\ known' = known /\ stored' = stored
      BY <1>3, <2>3, <3>1 DEF Dies
    <3>3. At(c, "table") /\ TableOf(call[c].table) = TableOf(t)
      <4>1. At(c, "table") \/ (call[c] # Idle /\ ~At(c, "table"))
        BY <3>1 DEF DiesOf, At
      <4> QED BY <3>1, <3>2, <4>1, TableMutexes, CallAbout DEF DiesOf, At, IInv
    <3>4. call[c].table = t /\ call[c].id \in Objects /\ CallFits(c)
      BY <3>3, TableMutexes, CallAbout DEF IInv, CommandsFit, CommandFits
    <3>5. ~HashPanics(call[c].table, call[c].id)
      BY <3>4 DEF HashPanics
    <3>6. call[c].rpc = "read" /\ <<call[c].table, call[c].id>> \notin stored
      BY <2>3, <3>1, <3>2, <3>3, <3>5 DEF DiesOf, At
    <3>7. <<call[c].table, call[c].id>> \in known \ stored
      BY <3>3, <3>4, <3>6 DEF CallFits, At
    <3> QED BY <3>2, <3>4, <3>7
  <2> QED BY <2>2, <2>3
<1> QED BY <1>1, <1>2, <1>3, StepKinds DEF IInv, TablesLost

\* Of the commands that are careful none poisons the table of mounts or a
\* workspace id, nor the mount that an init is at work on.
LEMMA CarefulDeath ==
  ASSUME Careful, IInv, CommandsFit, Alone, Poisoning, NEW c \in Clients, NEW held, DiesOf(c, held)
  PROVE  /\ Mounts \notin held
         /\ \A p \in Paths : /\ WorkspaceId(p) \notin held
                             /\ OpId(p) \in held => p \in DOMAIN mounts /\ ~Initializing(p)
         /\ ~At(c, "set_workspace_id")
<1>1. Mounts \notin poisoned /\ \A p \in Paths : WorkspaceId(p) \notin poisoned
  BY DEF Poisoning, MutexesLeft
<1>2. InInit(c) => /\ command[c].path \in Mountable /\ command[c].path \in Paths
                   /\ ~Past(c) => command[c].path \notin DOMAIN mounts
  BY DEF Alone, CommandsFit, CommandFits, InInit
<1>3. CallFits(c) /\ call[c] # Idle
  BY DEF DiesOf, At, CommandsFit, CommandFits
<1>4. CASE At(c, "table")
  <2>1. /\ held = {} \/ held = {TableOf(call[c].table)}
        /\ call[c].table \in Tables
    BY <1>4, CallAbout DEF DiesOf, At, IInv
  <2> QED BY <1>4, <2>1, TableMutexes DEF At
<1>5. CASE At(c, "mounts")
  <2>1. call[c].rpc = "initialize" => InInit(c) /\ ~Past(c) /\ call[c].path = command[c].path
    BY <1>3, <1>5 DEF At, CallFits, InInit, Past
  <2>2. held = {}
    BY <1>1, <1>2, <1>5, <2>1 DEF DiesOf, At
  <2> QED BY <1>5, <2>2 DEF At
<1>6. CASE At(c, "get_op_id") \/ At(c, "get_workspace_id")
  <2> DEFINE p == call[c].path
  <2>1. p = command[c].path /\ p \in Paths /\ p \in DOMAIN mounts /\ ~InInit(c)
    BY <1>3, <1>6, CallAbout DEF At, CallFits, InInit, Working, IInv, CallsKeepTheirMount
  <2>2. ~Initializing(p)
    BY <2>1 DEF Initializing, Alone
  <2>3. CASE At(c, "get_op_id")
    <3>1. held = {OpId(p)}
      BY <2>3 DEF DiesOf, At
    <3> QED BY <2>1, <2>2, <2>3, <3>1, MutexesDiffer DEF At
  <2>4. CASE At(c, "get_workspace_id")
    <3>1. mounts[p].workspace_id = Unset /\ mounts[p].op_id # Unset
      BY <1>1, <2>1, <2>4 DEF DiesOf, At, IInv, CallsKeepTheirMount
    <3>2. PICK d \in Clients : At(d, "set_workspace_id") /\ call[d].path = p
      BY <2>1, <3>1 DEF Poisoning, AllOrNothing
    <3>3. InInit(d) /\ command[d].path = p
      BY <3>2 DEF At, CommandsFit, CommandFits, CallFits, InInit
    <3> QED BY <2>2, <3>3 DEF Initializing
  <2> QED BY <1>6, <2>3, <2>4
<1>7. CASE At(c, "set_op_id") \/ At(c, "set_workspace_id")
  <2> DEFINE p == call[c].path
  <2>1. p = command[c].path /\ p \in Paths /\ InInit(c)
    BY <1>3, <1>7, CallAbout DEF At, CallFits, InInit, Working, IInv
  <2>2. Initializing(p)
    BY <2>1 DEF Initializing
  <2>3. OpId(p) \notin poisoned /\ WorkspaceId(p) \notin poisoned
    BY <1>1, <2>1, <2>2 DEF Poisoning, MutexesLeft
  <2> QED BY <1>7, <2>3 DEF DiesOf, At
<1>8. CASE At(c, "session")
  <2>1. InInit(c) /\ call[c].path = command[c].path
    BY <1>3, <1>8 DEF At, CallFits, InInit, Working
  <2> QED BY <1>2, <1>8, <2>1 DEF DiesOf, At
<1> QED BY <1>4, <1>5, <1>6, <1>7, <1>8 DEF DiesOf

\* If nothing runs beside an init, no panic poisons mounts, nor the state of a
\* mount at work.
LEMMA MutexesLeftStep ==
  ASSUME IInv, CommandsFit, Alone, Owned, Poisoning, JjNext
  PROVE  MutexesLeft'
<1> DEFINE Left == /\ Mounts \notin poisoned
                   /\ \A p \in Paths :
                        /\ WorkspaceId(p) \notin poisoned
                        /\ OpId(p) \in poisoned => p \in DOMAIN mounts /\ ~Initializing(p)
<1> SUFFICES ASSUME Careful PROVE Left'
  BY DEF MutexesLeft
<1>0. Left
  BY DEF Poisoning, MutexesLeft
<1>1. CASE RestartDaemon
  BY <1>1 DEF RestartDaemon, Restart
<1>2. ASSUME NEW p, NEW held, MountDies(p, held) PROVE Left'
  <2>1. /\ poisoned' = poisoned \cup held /\ held \subseteq {TableOf(t) : t \in Tables}
        /\ UNCHANGED <<mounts, command>>
    BY <1>2 DEF MountDies
  <2>2. Mounts \notin held /\ \A q \in Paths : OpId(q) \notin held /\ WorkspaceId(q) \notin held
    BY <2>1, TableMutexes
  <2> QED BY <1>0, <2>1, <2>2 DEF Initializing, InInit
<1>3. ASSUME NEW c \in Clients, ClientActs(c) \/ IsServed(c), OthersKept(c) PROVE Left'
  <2>1. DOMAIN mounts \subseteq DOMAIN mounts'
    BY <1>3, MountsMove DEF Owned
  <2>2. ASSUME NEW p \in Paths, p \in DOMAIN mounts, ~Initializing(p) PROVE ~Initializing(p)'
    <3>1. \A d \in Clients \ {c} : InInit(d)' = InInit(d) /\ command'[d].path = command[d].path
      BY <1>3, InitKept
    <3>2. \A q \in Paths : StartsInit(c, q) => q # p /\ command'[c].path = q
      BY <2>2 DEF StartsInit
    <3>3. \A q \in Paths : Loads(c, q) => ~InInit(c)'
      BY DEF Loads, InInit
    <3>4. Inserts(c) => command' = command
      BY DEF Inserts, GoesTo
    <3>5. command'[c] = NoCommand => ~InInit(c)'
      BY DEF InInit, NoCommand
    <3>6. InInit(c)' => command'[c].path # p
      BY <1>3, <2>2, <3>2, <3>3, <3>4, <3>5, OwnMoves DEF Initializing
    <3> QED BY <2>2, <3>1, <3>6 DEF Initializing
  <2>3. /\ Mounts \notin poisoned'
        /\ \A p \in Paths :
             /\ WorkspaceId(p) \notin poisoned'
             /\ OpId(p) \in poisoned' => p \in DOMAIN mounts /\ ~Initializing(p)
    <3>1. CASE poisoned' = poisoned
      BY <1>0, <3>1
    <3>2. ASSUME NEW held, Dies(c, held), DiesOf(c, held)
          PROVE  /\ poisoned' = poisoned \cup held /\ Mounts \notin held
                 /\ \A p \in Paths : /\ WorkspaceId(p) \notin held
                                     /\ OpId(p) \in held => p \in DOMAIN mounts /\ ~Initializing(p)
      BY <3>2, CarefulDeath DEF Dies
    <3> QED BY <1>0, <1>3, <3>1, <3>2, PoisonMoves
  <2> QED BY <2>1, <2>2, <2>3
<1> QED BY <1>1, <1>2, <1>3, StepKinds DEF IInv

\* If nothing runs beside an init, no set_checkout_state stops between its
\* sections, and a state once half set is soon whole.
LEMMA AllOrNothingStep ==
  ASSUME IInv, CommandsFit, Alone, Owned, Poisoning, JjNext
  PROVE  AllOrNothing'
<1> SUFFICES ASSUME Careful, NEW p \in DOMAIN mounts',
                    mounts'[p].op_id # Unset, mounts'[p].workspace_id = Unset
             PROVE  \E c \in Clients : At(c, "set_workspace_id")' /\ call'[c].path = p
  BY DEF AllOrNothing
<1>1. CASE RestartDaemon
  BY <1>1 DEF RestartDaemon, Restart, EmptyMap
<1>2. ASSUME NEW q, NEW held, MountDies(q, held)
      PROVE  \E c \in Clients : At(c, "set_workspace_id")' /\ call'[c].path = p
  BY <1>2 DEF MountDies, Poisoning, AllOrNothing, At
<1>3. ASSUME NEW c \in Clients, ClientActs(c) \/ IsServed(c), OthersKept(c)
      PROVE  \E d \in Clients : At(d, "set_workspace_id")' /\ call'[d].path = p
  <2>1. At(c, "set_workspace_id") => call[c].state \in States /\ call[c].path = command[c].path
    BY CallAbout DEF At, IInv
  <2>2. CASE p \in DOMAIN mounts /\ mounts[p].op_id # Unset /\ mounts[p].workspace_id = Unset
    <3>1. PICK d \in Clients : At(d, "set_workspace_id") /\ call[d].path = p
      BY <2>2 DEF Poisoning, AllOrNothing
    <3>2. CASE d # c
      BY <1>3, <3>1, <3>2 DEF OthersKept, At
    <3>3. CASE d = c
      <4>1. IsServed(c)
        BY <1>3, <3>1, <3>3 DEF At, ClientActs, StartsInit, Loads, SetsState, Asks, CallsForObject,
           GoesOn
      <4>2. \A held : ~DiesOf(c, held)
        BY <3>1, <3>3, CarefulDeath
      <4>3. SetsWorkspaceId(c)
        BY <3>1, <3>3, <4>1, <4>2 DEF At, IsServed, LooksUp, ReadsOpId, SetsOpId, Inserts, Starts,
           FindsTree, Stores, Reads, ReadsState
      <4>4. ~SetsOpId(c) /\ ~Inserts(c)
        BY <3>1, <3>3 DEF At, SetsOpId, Inserts
      <4>5. mounts'[p].workspace_id \in States
        BY <1>3, <2>1, <3>1, <3>3, <4>3, <4>4, MountsMove DEF Owned
      <4> QED BY <4>5, UnsetAssumption
    <3> QED BY <3>2, <3>3
  <2>3. CASE ~(p \in DOMAIN mounts /\ mounts[p].op_id # Unset /\ mounts[p].workspace_id = Unset)
    <3>1. ~SetsWorkspaceId(c) \/ p # command[c].path
      <4>1. SetsWorkspaceId(c) => At(c, "set_workspace_id") /\ ~SetsOpId(c) /\ ~Inserts(c)
        BY DEF SetsWorkspaceId, SetsOpId, Inserts, At
      <4> QED BY <1>3, <2>1, <4>1, MountsMove, UnsetAssumption DEF Owned
    <3>2. SetsOpId(c) /\ p = command[c].path
      BY <1>3, <2>3, <3>1, MountsMove DEF Owned, Inserts, SetsOpId, SetsWorkspaceId, At
    <3> QED BY <3>2, CallAbout DEF SetsOpId, GoesTo, At, IInv
  <2> QED BY <2>2, <2>3
<1> QED BY <1>1, <1>2, <1>3, StepKinds DEF IInv

\* A poisoned operation id is unset, and then so is the workspace id.
LEMMA CausesSuffice ==
  ASSUME IInv, Owned, Poisoning
  PROVE  PoisonHasACause
<1> SUFFICES ASSUME Careful, NEW p \in Paths, OpId(p) \in poisoned
             PROVE  /\ p \in DOMAIN mounts /\ ~Initializing(p)
                    /\ mounts[p].op_id = Unset /\ mounts[p].workspace_id = Unset
  BY DEF PoisonHasACause, Poisoning, TablesLost, MutexesLeft
<1>1. p \in DOMAIN mounts /\ ~Initializing(p)
  BY DEF Poisoning, MutexesLeft
<1>2. mounts[p].op_id = Unset
  BY <1>1 DEF IInv, PoisonedStateIsUnset
<1> QED BY <1>1, <1>2 DEF Owned, StateIsWhole

-----------------------------------------------------------------------------
(* The theorems.                                                           *)

\* What holds whatever runs beside what; ...
Base == IInv /\ CommandsFit /\ Alone

\* It holds in every state that commands reach.
LEMMA BaseHolds == JjSpec => []Base
<1>1. JjInit => Base
  <2>1. ASSUME JjInit PROVE Base
    <3>1. Init /\ \A c \in Clients : command[c] = NoCommand /\ copies[c] = << >> /\ call[c] = Idle
      BY <2>1 DEF JjInit, Init
    <3>2. IInv
      BY <3>1, UnsetAssumption DEF Init, IInv, TypeOK, EmptyMap, MountsHeldByInitialize,
         CallsKeepTheirMount, PoisonedStateIsUnset, SessionsAreMounted, At
    <3>3. CommandsTypeOK
      <4>1. NoCommand \in [path : Paths \cup {Unset}, doing : Doings] /\ << >> \in Seq(Cells)
        BY DEF NoCommand, Doings
      <4> QED BY <2>1, <4>1 DEF JjInit, Init, CommandsTypeOK
    <3>4. \A c \in Clients : ~InInit(c) /\ CommandFits(c)
      BY <3>1 DEF CommandFits, CallFits, InInit, NoCommand, Working
    <3> QED BY <3>2, <3>3, <3>4 DEF Base, CommandsFit, Alone
  <2> QED BY <2>1
<1>2. Base /\ [JjNext]_jjVars => Base'
  <2>1. Base /\ JjNext => Base'
    BY ServiceStep, CommandsStep, AloneStep DEF Base
  <2>2. ASSUME Base, UNCHANGED jjVars PROVE Base'
    <3>1. IInv'
      BY <2>2, TypeStep, HeldStep, MountsStep DEF Base, IInv, jjVars
    <3>2. CommandsFit'
      BY <2>2 DEF Base, jjVars, vars, CommandsFit, CommandsTypeOK, CommandFits, CallFits, InInit
    <3>3. Alone'
      BY <2>2 DEF Base, jjVars, vars, Alone, InInit, Past, At
    <3> QED BY <3>1, <3>2, <3>3 DEF Base
  <2> QED BY <2>1, <2>2
<1> QED BY <1>1, <1>2, PTL DEF JjSpec

\* ... what holds if an init owns its directory: nothing else runs there, or
\* the daemon does not restart.
Owning == Owned /\ CellsAgreeWithDaemon /\ CheckoutStateIsNotTorn

\* So does this, under either condition.
LEMMA OwningHolds ==
  ASSUME Careful \/ ~MayRestart
  PROVE  JjSpec => []Owning
<1>1. JjInit => Owning
  BY DEF JjInit, Init, EmptyMap, NoCommand, Owning, Owned, OneOwner, OwnerHasMount, StateIsWhole,
     NotSetYet, ReadsAgree, CellsAgreeWithDaemon, CheckoutStateIsNotTorn, Past, InInit, At
<1>2. Base /\ Base' /\ Owning /\ [JjNext]_jjVars => Owning'
  <2>1. Base /\ Base' /\ Owning /\ JjNext => Owning'
    BY OneOwnerStep, OwnerHasMountStep, StateIsWholeStep, NotSetYetStep, ReadsAgreeStep,
       CellsAgreeStep, NotTornStep
       DEF Base, Owning, Owned
  <2>2. Owning /\ UNCHANGED jjVars => Owning'
    BY DEF jjVars, vars, Owning, Owned, OneOwner, OwnerHasMount, StateIsWhole, NotSetYet,
       ReadsAgree, CellsAgreeWithDaemon, CheckoutStateIsNotTorn, Past, InInit, At
  <2> QED BY <2>1, <2>2
<1> QED BY <1>1, <1>2, BaseHolds, PTL DEF JjSpec

\* ... and what holds of the mutexes, if no object of the store is a conflict.
LEMMA PoisoningHolds ==
  ASSUME Careful \/ ~MayRestart, Conflicts \cap Objects = {}
  PROVE  JjSpec => []Poisoning
<1>1. JjInit => Poisoning
  BY DEF JjInit, Init, EmptyMap, Poisoning, TablesLost, MutexesLeft, AllOrNothing
<1>2. Base /\ Owning /\ Poisoning /\ [JjNext]_jjVars => Poisoning'
  <2>1. Base /\ Owning /\ Poisoning /\ JjNext => Poisoning'
    BY TablesLostStep, MutexesLeftStep, AllOrNothingStep DEF Base, Owning, Poisoning
  <2>2. Poisoning /\ UNCHANGED jjVars => Poisoning'
    BY DEF jjVars, vars, Poisoning, TablesLost, MutexesLeft, AllOrNothing, Initializing, InInit, At
  <2> QED BY <2>1, <2>2
<1> QED BY <1>1, <1>2, BaseHolds, OwningHolds, PTL DEF JjSpec

\* get_checkout_state answers the state that one command set, never the
\* operation id of one init with the workspace id of another, although
\* set_checkout_state and get_checkout_state lock the two in turn.  (With
\* careless inits and a daemon that restarts between the calls of one, it can.)
THEOREM AnswersAreNotTorn ==
  ASSUME Careful \/ ~MayRestart
  PROVE  JjSpec => []CheckoutStateIsNotTorn
<1>1. JjSpec => []Owning
  BY OwningHolds
<1> QED BY <1>1, PTL DEF Owning

\* The OnceCells of a working copy are never stale, although nothing
\* invalidates them.
THEOREM CellsAlwaysAgree ==
  ASSUME Careful \/ ~MayRestart
  PROVE  JjSpec => []CellsAgreeWithDaemon
<1>1. JjSpec => []Owning
  BY OwningHolds
<1> QED BY <1>1, PTL DEF Owning

\* Once set_checkout_state has set the state of a directory, no other call to
\* it does, for a second init of the directory dies of the assertion in
\* initialize_repo.
THEOREM StateIsSetOnce ==
  ASSUME Careful \/ ~MayRestart
  PROVE  JjSpec => CheckoutStateIsSetOnce
<1> DEFINE SetOnce == \A p \in DOMAIN mounts :
                        p \in DOMAIN mounts' /\ mounts[p].op_id # Unset =>
                          \/ mounts'[p].op_id = mounts[p].op_id
                          \/ mounts' = EmptyMap
<1>1. Base /\ Owning /\ [JjNext]_jjVars =>
        [ \A p \in DOMAIN mounts :
            p \in DOMAIN mounts' /\ mounts[p].op_id # Unset =>
              \/ mounts'[p].op_id = mounts[p].op_id
              \/ mounts' = EmptyMap ]_jjVars
  <2>1. ASSUME Base, Owning, JjNext PROVE SetOnce
    <3>1. CASE RestartDaemon
      BY <3>1 DEF RestartDaemon, Restart
    <3>2. ASSUME NEW p, NEW held, MountDies(p, held) PROVE SetOnce
      BY <3>2 DEF MountDies
    <3>3. ASSUME NEW c \in Clients, ClientActs(c) \/ IsServed(c) PROVE SetOnce
      BY <2>1, <3>3, MountsMove DEF Base, Owning, Owned
    <3> QED BY <2>1, <3>1, <3>2, <3>3, StepKinds DEF Base, IInv
  <2> QED BY <2>1
<1>2. JjSpec => []Owning
  BY OwningHolds
<1> HIDE DEF SetOnce
<1> QED BY <1>1, <1>2, BaseHolds, PTL DEF JjSpec, CheckoutStateIsSetOnce

\* While the daemon does not restart, an init only sets up jj's internals on a
\* directory whose FUSE session runs and which the daemon knows: it gets to
\* them once initialize has answered without an error, and no step unmounts.
THEOREM InternalsAlwaysOnTheMount ==
  ASSUME ~MayRestart
  PROVE  JjSpec => []InternalsAreOnTheMount
<1>1. Base /\ Owning => InternalsAreOnTheMount
  <2>1. ASSUME Base, Owning, NEW c \in Clients, InInit(c),
               call[c] = Idle \/ call[c].rpc # "initialize"
        PROVE  command[c].path \in fuse_sessions \cap DOMAIN mounts
    <3>1. Past(c) /\ ~At(c, "session")
      BY <2>1 DEF Base, CommandsFit, CommandFits, CallFits, Past, InInit, At, Working
    <3> QED BY <2>1, <3>1 DEF Owning, Owned, OwnerHasMount
  <2> QED BY <2>1 DEF InternalsAreOnTheMount
<1>2. JjSpec => []Owning
  BY OwningHolds
<1> QED BY <1>1, <1>2, BaseHolds, PTL

\* While no command runs beside an init, and however inits and other commands
\* end, every poisoned table goes back to an object that a restart lost under
\* the ids jj remembers, or to a mount that died on the files or the symlinks;
\* the mutex of mounts is never poisoned; and of the mutexes of a mount only
\* that of op_id is, once an init has left the mount without a checkout state.
\* (Writing a conflict poisons the trees without any of this, which is why no
\* object may be one.)
THEOREM PoisonAlwaysHasACause ==
  ASSUME Conflicts \cap Objects = {}
  PROVE  JjSpec => []PoisonHasACause
<1>1. CASE Careful
  <2>1. JjSpec => []Poisoning
    BY <1>1, PoisoningHolds
  <2>2. JjSpec => []Owning
    BY <1>1, OwningHolds
  <2>3. Base /\ Owning /\ Poisoning => PoisonHasACause
    BY CausesSuffice DEF Base, Owning
  <2> QED BY <2>1, <2>2, <2>3, BaseHolds, PTL
<1>2. CASE ~Careful
  <2>1. Base => PoisonHasACause
    BY <1>2 DEF PoisonHasACause
  <2> QED BY <2>1, BaseHolds, PTL
<1> QED BY <1>1, <1>2

=============================================================================
