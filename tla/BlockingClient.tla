--------------------------- MODULE BlockingClient ---------------------------
(***************************************************************************)
(* The blocking client of the CLI (cli/src/blocking_client.rs): a gRPC     *)
(* client and the tokio runtime that drives it, each in an Arc<Mutex<_>>.  *)
(* A connection is made by one thread, which may ask it for the empty tree *)
(* (CultivateBackend::new) before it shares it; then any thread may call   *)
(* through a clone, make another (start_mutation), or drop one.            *)
(***************************************************************************)
EXTENDS Naturals, Sequences

CONSTANTS
  Threads,     \* threads of the jj process
  Clones,      \* values of BlockingJujutsuInterfaceClient on one connection
  First,       \* the one that connect returns
  Maker,       \* the thread that connected
  MaxCalls,    \* bound on the calls of the process, which is one jj command
  None         \* no thread, no clone

ASSUME FirstAssumption == First \in Clones /\ Maker \in Threads
ASSUME CallsAssumption == MaxCalls \in Nat
ASSUME NoneAssumption == None \notin Threads \cup Clones

VARIABLES
  fields,      \* the fields of each clone that are not dropped yet, in order
  shared,      \* whether the connection has left the thread that made it
  locked,      \* the thread that holds the mutex of each field
  using,       \* the clone through which each thread calls
  to_lock,     \* the mutexes its call has yet to lock
  calls        \* how many calls there have been

vars == <<fields, shared, locked, using, to_lock, calls>>

Fields == {"client", "rt"}

\* Rust drops the fields of a struct in the order they are declared; and a
\* faulty variant with the two declarations swapped.
SwappedDeclaration == <<"rt", "client">>
Declaration == <<"client", "rt">>

\* What an Arc holds is dropped with the last clone of the Arc.
Holds(h, f) == \E k \in DOMAIN fields[h] : fields[h][k] = f
Alive(f) == \E h \in Clones : Holds(h, f)

\* A thread can only reach a clone that is not being dropped, of a connection
\* that is shared or its own.
Reaches(t, h) == (shared \/ t = Maker) /\ fields[h] = Declaration

-----------------------------------------------------------------------------
(* Calls.                                                                  *)

\* The order of the locks in every call but one; and in get_empty_tree_id.
LockOrder == <<"client", "rt">>
EmptyTreeLockOrder == <<"rt", "client">>

Enter(t, h, order) ==
  /\ using[t] = None /\ Reaches(t, h)
  /\ using' = [using EXCEPT ![t] = h]
  /\ to_lock' = [to_lock EXCEPT ![t] = order]
  /\ calls < MaxCalls /\ calls' = calls + 1
  /\ UNCHANGED <<fields, shared, locked>>

Call(t, h) == Enter(t, h, LockOrder)

\* get_empty_tree_id is only called before CultivateBackend::new returns; and
\* a faulty variant that asks again whenever the id is wanted.
Whenever == TRUE
BeforeSharing == ~shared

GetEmptyTreeId(t, h) == BeforeSharing /\ Enter(t, h, EmptyTreeLockOrder)

Lock(t) ==
  /\ to_lock[t] # << >>
  /\ locked[Head(to_lock[t])] = None
  /\ locked' = [locked EXCEPT ![Head(to_lock[t])] = t]
  /\ to_lock' = [to_lock EXCEPT ![t] = Tail(@)]
  /\ UNCHANGED <<fields, shared, using, calls>>

\* block_on returns the answer, and both guards go out of scope.
Return(t) ==
  /\ using[t] # None /\ to_lock[t] = << >>
  /\ locked' = [f \in Fields |-> IF locked[f] = t THEN None ELSE locked[f]]
  /\ using' = [using EXCEPT ![t] = None]
  /\ UNCHANGED <<fields, shared, to_lock, calls>>

-----------------------------------------------------------------------------
(* Clones.                                                                 *)

\* CultivateBackend::new, or CultivateWorkingCopy::init or load, has returned.
Share ==
  /\ ~shared /\ using[Maker] = None
  /\ shared' = TRUE
  /\ UNCHANGED <<fields, locked, using, to_lock, calls>>

\* start_mutation: a clone of what some thread has.
Clone(h, new) ==
  /\ shared /\ fields[h] = Declaration /\ fields[new] = << >>
  /\ fields' = [fields EXCEPT ![new] = Declaration]
  /\ UNCHANGED <<shared, locked, using, to_lock, calls>>

\* A clone that no call borrows is dropped, one field after the other, while
\* other threads drop theirs.
DropField(h) ==
  /\ shared /\ fields[h] # << >>
  /\ \A t \in Threads : using[t] # h
  /\ fields' = [fields EXCEPT ![h] = Tail(@)]
  /\ UNCHANGED <<shared, locked, using, to_lock, calls>>

Init ==
  /\ fields = [h \in Clones |-> IF h = First THEN Declaration ELSE << >>]
  /\ shared = FALSE
  /\ locked = [f \in Fields |-> None]
  /\ using = [t \in Threads |-> None]
  /\ to_lock = [t \in Threads |-> << >>]
  /\ calls = 0

Next ==
  \/ Share
  \/ \E h \in Clones : DropField(h) \/ \E new \in Clones : Clone(h, new)
  \/ \E t \in Threads : \/ Lock(t) \/ Return(t)
                        \/ \E h \in Clones : Call(t, h) \/ GetEmptyTreeId(t, h)

\* A thread in a call runs on, and the daemon answers.  std's mutexes promise
\* no turns: that a thread gets its lock in the end rests on the number of
\* calls being finite.
Fairness == \A t \in Threads : WF_vars(Lock(t)) /\ WF_vars(Return(t))

Spec == Init /\ [][Next]_vars /\ Fairness

-----------------------------------------------------------------------------
Undropped == {<<"client", "rt">>, <<"rt">>, << >>}
Orders == {<< >>, <<"client">>, <<"rt">>, <<"client", "rt">>, <<"rt", "client">>}

\* Every variable holds values of its type; what is left of a clone is an end
\* of its fields in the order the comment on the struct asks for.
TypeOK ==
  /\ fields \in [Clones -> Undropped]
  /\ shared \in BOOLEAN
  /\ locked \in [Fields -> Threads \cup {None}]
  /\ using \in [Threads -> Clones \cup {None}]
  /\ to_lock \in [Threads -> Orders]
  /\ calls \in 0..MaxCalls

\* "They must be ordered such that when BlockingJujutsuInterfaceClient is
\* dropped the client is dropped before the runtime": no matter how many
\* clones there are and how the threads interleave their drops, there is no
\* moment with a client whose runtime is gone.
ClientDroppedBeforeRuntime == Alive("client") => Alive("rt")

\* Every call returns: no two threads wait for each other, although one method
\* locks in the other order, because nobody shares the connection by then.
EveryCallReturns == \A t \in Threads : using[t] # None ~> using[t] = None

=============================================================================
