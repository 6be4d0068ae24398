------------------------ MODULE DaemonServiceProofs -------------------------
(***************************************************************************)
(* Proofs about DaemonService, for any clients, paths, states and objects. *)
(***************************************************************************)
EXTENDS DaemonService, TLAPS

(* What a client's call can be, by the section it is in. *)
LEMMA CallShape ==
  ASSUME TypeOK, NEW c \in Clients
  PROVE  /\ call[c] = Idle \/ call[c] \in MountCalls \/ call[c] \in ObjectCalls
         /\ call[c] \in MountCalls => call[c] # Idle /\ call[c].at # "table"
         /\ call[c] \in ObjectCalls => call[c] # Idle /\ call[c].at = "table"
  BY DEF TypeOK, Idle, MountCalls, ObjectCalls, MountRpcs, ObjectRpcs

\* A mount begins with neither of its ids set.
LEMMA NewMountType == NewMount \in [op_id : Checkouts, workspace_id : Checkouts]
  BY DEF NewMount, Checkouts

\* Every step of the service keeps its types.
LEMMA TypeStep ==
  ASSUME TypeOK, [Next]_vars
  PROVE  TypeOK'
<1> USE DEF At, Ok
<1>1. CASE UNCHANGED vars
  BY <1>1 DEF TypeOK, vars
<1>2. CASE Restart
  BY <1>2 DEF TypeOK, Restart, EmptyMap
<1>3. ASSUME NEW c \in Clients, NEW rpc \in MountRpcs, NEW p \in Paths, NEW s \in States,
             CallMount(c, rpc, p, s)
      PROVE  TypeOK'
  <2>1. [rpc |-> rpc, path |-> p, state |-> s, at |-> "mounts", op_id |-> Unset] \in MountCalls
    BY DEF MountCalls, Checkouts
  <2> QED BY <1>3, <2>1 DEF CallMount, TypeOK
<1>4. ASSUME NEW c \in Clients, NEW rpc \in ObjectRpcs, NEW table \in Tables, NEW o \in Objects,
             CallObject(c, rpc, table, o)
      PROVE  TypeOK'
  <2>1. [rpc |-> rpc, table |-> table, id |-> o, at |-> "table"] \in ObjectCalls
    BY DEF ObjectCalls
  <2> QED BY <1>4, <2>1 DEF CallObject, TypeOK
<1>5. ASSUME NEW c \in Clients, GetMount(c) PROVE TypeOK'
  BY <1>5, CallShape DEF GetMount, TypeOK, Panic, Answer, GoTo, AfterGet, HeldAfterGet, MountCalls
<1>6. ASSUME NEW c \in Clients, GetTreeId(c) PROVE TypeOK'
  BY <1>6, CallShape DEF GetTreeId, TypeOK, Answer
<1>7. ASSUME NEW c \in Clients, GetOpId(c) PROVE TypeOK'
  BY <1>7, CallShape DEF GetOpId, TypeOK, Panic, Answer, MountCalls
<1>8. ASSUME NEW c \in Clients, GetWorkspaceId(c) PROVE TypeOK'
  BY <1>8, CallShape DEF GetWorkspaceId, TypeOK, Panic, Answer, MountCalls
<1>9. ASSUME NEW c \in Clients, SetOpId(c) PROVE TypeOK'
  BY <1>9, CallShape DEF SetOpId, TypeOK, Panic, Answer, GoTo, MountCalls, Checkouts
<1>10. ASSUME NEW c \in Clients, SetWorkspaceId(c) PROVE TypeOK'
  BY <1>10, CallShape DEF SetWorkspaceId, TypeOK, Panic, Answer, MountCalls, Checkouts
<1>11. ASSUME NEW c \in Clients, InsertMount(c) PROVE TypeOK'
  BY <1>11, CallShape, NewMountType DEF InsertMount, TypeOK, Panic, Answer, GoTo, MountCalls, Put,
       InitializeHolds, AfterUnwinding, IsNewPath
<1>12. ASSUME NEW c \in Clients, StartSession(c) PROVE TypeOK'
  BY <1>12, CallShape DEF StartSession, TypeOK, Panic, Answer, MountCalls
<1>13. ASSUME NEW c \in Clients, WriteObject(c) PROVE TypeOK'
  BY <1>13, CallShape DEF WriteObject, TypeOK, Panic, Answer, ObjectCalls
<1>14. ASSUME NEW c \in Clients, ReadObject(c) PROVE TypeOK'
  BY <1>14, CallShape DEF ReadObject, TypeOK, Panic, Answer, ObjectCalls
<1> QED
  BY <1>1, <1>2, <1>3, <1>4, <1>5, <1>6, <1>7, <1>8, <1>9, <1>10, <1>11, <1>12, <1>13, <1>14
     DEF Next, AnyCall, Step

\* Every value a variable of the service takes has its type, whatever clients
\* call and however often a handler panics or the daemon restarts.
THEOREM TypeCorrect == Spec => []TypeOK
<1>1. Init => TypeOK
  BY DEF Init, TypeOK, EmptyMap
<1>2. TypeOK /\ [Next]_vars => TypeOK'
  BY TypeStep
<1> QED BY <1>1, <1>2, PTL DEF Spec

-----------------------------------------------------------------------------
(* The invariants below hold together: each step keeps a part of IInv by   *)
(* what the other parts say of the state it starts from.                   *)

\* The inductive invariant.
IInv ==
  /\ TypeOK
  /\ MountsHeldByInitialize
  /\ CallsKeepTheirMount
  /\ PoisonedStateIsUnset
  /\ SessionsAreMounted

\* No two mutexes are the same.
LEMMA MutexesDiffer ==
  /\ \A p \in Paths : OpId(p) # Mounts /\ WorkspaceId(p) # Mounts
  /\ \A p \in Paths, t \in Tables : /\ OpId(p) # TableOf(t) /\ WorkspaceId(p) # TableOf(t)
  /\ \A p, q \in Paths : /\ OpId(p) # WorkspaceId(q)
                         /\ OpId(p) = OpId(q) => p = q
                         /\ WorkspaceId(p) = WorkspaceId(q) => p = q
  BY DEF OpId, WorkspaceId, Mounts, TableOf

\* The mutex of mounts is locked by initialize and unlocked by its answer.
LEMMA HeldStep ==
  ASSUME IInv, [Next]_vars
  PROVE  MountsHeldByInitialize'
<1> USE UnsetAssumption DEF IInv, MountsHeldByInitialize, At
<1> USE DEF TypeOK
<1>1. CASE UNCHANGED vars
  BY <1>1 DEF vars
<1>2. CASE Restart
  BY <1>2 DEF Restart
<1>3. ASSUME NEW c \in Clients, NEW rpc \in MountRpcs, NEW p \in Paths, NEW s \in States,
             CallMount(c, rpc, p, s)
      PROVE  MountsHeldByInitialize'
  BY <1>3 DEF CallMount
<1>4. ASSUME NEW c \in Clients, NEW rpc \in ObjectRpcs, NEW table \in Tables, NEW o \in Objects,
             CallObject(c, rpc, table, o)
      PROVE  MountsHeldByInitialize'
  BY <1>4 DEF CallObject
<1>5. ASSUME NEW c \in Clients, GetMount(c) PROVE MountsHeldByInitialize'
  BY <1>5, CallShape DEF GetMount, Panic, Answer, GoTo, AfterGet, MountCalls, MountRpcs, Idle
<1>6. ASSUME NEW c \in Clients, GetTreeId(c) PROVE MountsHeldByInitialize'
  BY <1>6 DEF GetTreeId, Answer
<1>7. ASSUME NEW c \in Clients, GetOpId(c) PROVE MountsHeldByInitialize'
  BY <1>7, CallShape DEF GetOpId, Panic, Answer, MountCalls, MountRpcs, Idle
<1>8. ASSUME NEW c \in Clients, GetWorkspaceId(c) PROVE MountsHeldByInitialize'
  BY <1>8 DEF GetWorkspaceId, Panic, Answer
<1>9. ASSUME NEW c \in Clients, SetOpId(c) PROVE MountsHeldByInitialize'
  BY <1>9, CallShape DEF SetOpId, Panic, Answer, GoTo, MountCalls, MountRpcs, Idle
<1>10. ASSUME NEW c \in Clients, SetWorkspaceId(c) PROVE MountsHeldByInitialize'
  BY <1>10 DEF SetWorkspaceId, Panic, Answer
<1>11. ASSUME NEW c \in Clients, InsertMount(c) PROVE MountsHeldByInitialize'
  BY <1>11, CallShape DEF InsertMount, Panic, Answer, GoTo, MountCalls, MountRpcs, Idle,
          InitializeHolds, AfterUnwinding
<1>12. ASSUME NEW c \in Clients, StartSession(c) PROVE MountsHeldByInitialize'
  BY <1>12 DEF StartSession, Panic, Answer
<1>13. ASSUME NEW c \in Clients, WriteObject(c) PROVE MountsHeldByInitialize'
  BY <1>13 DEF WriteObject, Panic, Answer
<1>14. ASSUME NEW c \in Clients, ReadObject(c) PROVE MountsHeldByInitialize'
  BY <1>14 DEF ReadObject, Panic, Answer
<1> QED
  BY <1>1, <1>2, <1>3, <1>4, <1>5, <1>6, <1>7, <1>8, <1>9, <1>10, <1>11, <1>12, <1>13, <1>14
     DEF Next, AnyCall, Step

\* Who works on a mount still has it, a poisoned state is unset, and sessions
\* and mounts go together.
LEMMA MountsStep ==
  ASSUME IInv, [Next]_vars
  PROVE  /\ CallsKeepTheirMount'
         /\ PoisonedStateIsUnset'
         /\ SessionsAreMounted'
<1> DEFINE Goal == CallsKeepTheirMount /\ PoisonedStateIsUnset /\ SessionsAreMounted
<1> USE UnsetAssumption DEF IInv, TypeOK, At
<1>1. CASE UNCHANGED vars
  BY <1>1 DEF vars, CallsKeepTheirMount, PoisonedStateIsUnset, SessionsAreMounted
<1>2. CASE Restart
  BY <1>2 DEF Restart, EmptyMap, CallsKeepTheirMount, PoisonedStateIsUnset, SessionsAreMounted
<1>3. ASSUME NEW c \in Clients, NEW rpc \in MountRpcs, NEW p \in Paths, NEW s \in States,
             CallMount(c, rpc, p, s)
      PROVE  Goal'
  BY <1>3 DEF CallMount, CallsKeepTheirMount, PoisonedStateIsUnset, SessionsAreMounted,
          MountsHeldByInitialize
<1>4. ASSUME NEW c \in Clients, NEW rpc \in ObjectRpcs, NEW table \in Tables, NEW o \in Objects,
             CallObject(c, rpc, table, o)
      PROVE  Goal'
  BY <1>4 DEF CallObject, CallsKeepTheirMount, PoisonedStateIsUnset, SessionsAreMounted,
          MountsHeldByInitialize
<1>5. ASSUME NEW c \in Clients, GetMount(c) PROVE Goal'
  <2>1. CallsKeepTheirMount'
    BY <1>5, CallShape DEF GetMount, Panic, Answer, GoTo, AfterGet, HeldAfterGet,
          CallsKeepTheirMount, MountCalls, MountRpcs, Idle
  <2>2. PoisonedStateIsUnset'
    BY <1>5, CallShape, MutexesDiffer DEF GetMount, Panic, Answer, GoTo, AfterGet, HeldAfterGet,
          PoisonedStateIsUnset, CallsKeepTheirMount, MountCalls, ObjectCalls
  <2>3. SessionsAreMounted'
    BY <1>5, CallShape DEF GetMount, Panic, Answer, GoTo, AfterGet, HeldAfterGet,
          SessionsAreMounted, MountsHeldByInitialize, MountCalls
  <2> QED BY <2>1, <2>2, <2>3
<1>6. ASSUME NEW c \in Clients, GetTreeId(c) PROVE Goal'
  <2>1. CallsKeepTheirMount'
    BY <1>6, CallShape DEF GetTreeId, Panic, Answer, CallsKeepTheirMount, MountCalls, MountRpcs,
          Idle
  <2>2. PoisonedStateIsUnset'
    BY <1>6, CallShape, MutexesDiffer DEF GetTreeId, Panic, Answer, PoisonedStateIsUnset,
          CallsKeepTheirMount, MountCalls, ObjectCalls
  <2>3. SessionsAreMounted'
    BY <1>6, CallShape DEF GetTreeId, Panic, Answer, SessionsAreMounted, MountsHeldByInitialize,
          MountCalls
  <2> QED BY <2>1, <2>2, <2>3
<1>7. ASSUME NEW c \in Clients, GetOpId(c) PROVE Goal'
  <2>1. CallsKeepTheirMount'
    BY <1>7, CallShape DEF GetOpId, Panic, Answer, CallsKeepTheirMount, MountCalls, MountRpcs, Idle
  <2>2. PoisonedStateIsUnset'
    BY <1>7, CallShape, MutexesDiffer DEF GetOpId, Panic, Answer, PoisonedStateIsUnset,
          CallsKeepTheirMount, MountCalls, ObjectCalls
  <2>3. SessionsAreMounted'
    BY <1>7, CallShape DEF GetOpId, Panic, Answer, SessionsAreMounted, MountsHeldByInitialize,
          MountCalls
  <2> QED BY <2>1, <2>2, <2>3
<1>8. ASSUME NEW c \in Clients, GetWorkspaceId(c) PROVE Goal'
  <2>1. CallsKeepTheirMount'
    BY <1>8, CallShape DEF GetWorkspaceId, Panic, Answer, CallsKeepTheirMount, MountCalls,
          MountRpcs, Idle
  <2>2. PoisonedStateIsUnset'
    BY <1>8, CallShape, MutexesDiffer DEF GetWorkspaceId, Panic, Answer, PoisonedStateIsUnset,
          CallsKeepTheirMount, MountCalls, ObjectCalls
  <2>3. SessionsAreMounted'
    BY <1>8, CallShape DEF GetWorkspaceId, Panic, Answer, SessionsAreMounted,
          MountsHeldByInitialize, MountCalls
  <2> QED BY <2>1, <2>2, <2>3
<1>9. ASSUME NEW c \in Clients, SetOpId(c) PROVE Goal'
  <2>1. CallsKeepTheirMount'
    BY <1>9, CallShape DEF SetOpId, Panic, Answer, GoTo, Checkouts, CallsKeepTheirMount,
          MountCalls, MountRpcs, Idle
  <2>2. PoisonedStateIsUnset'
    BY <1>9, CallShape, MutexesDiffer DEF SetOpId, Panic, Answer, GoTo, Checkouts,
          PoisonedStateIsUnset, CallsKeepTheirMount, MountCalls, ObjectCalls
  <2>3. SessionsAreMounted'
    BY <1>9, CallShape DEF SetOpId, Panic, Answer, GoTo, Checkouts, SessionsAreMounted,
          MountsHeldByInitialize, MountCalls
  <2> QED BY <2>1, <2>2, <2>3
<1>10. ASSUME NEW c \in Clients, SetWorkspaceId(c) PROVE Goal'
  <2>1. CallsKeepTheirMount'
    BY <1>10, CallShape DEF SetWorkspaceId, Panic, Answer, Checkouts, CallsKeepTheirMount,
          MountCalls, MountRpcs, Idle
  <2>2. PoisonedStateIsUnset'
    BY <1>10, CallShape, MutexesDiffer DEF SetWorkspaceId, Panic, Answer, Checkouts,
          PoisonedStateIsUnset, CallsKeepTheirMount, MountCalls, ObjectCalls
  <2>3. SessionsAreMounted'
    BY <1>10, CallShape DEF SetWorkspaceId, Panic, Answer, Checkouts, SessionsAreMounted,
          MountsHeldByInitialize, MountCalls
  <2> QED BY <2>1, <2>2, <2>3
<1>11. ASSUME NEW c \in Clients, InsertMount(c) PROVE Goal'
  <2>1. CallsKeepTheirMount'
    BY <1>11, CallShape DEF InsertMount, Panic, Answer, GoTo, Put, NewMount, InitializeHolds,
          AfterUnwinding, IsNewPath, CallsKeepTheirMount, MountCalls, MountRpcs, Idle
  <2>2. PoisonedStateIsUnset'
    BY <1>11, CallShape, MutexesDiffer DEF InsertMount, Panic, Answer, GoTo, Put, NewMount,
          InitializeHolds, AfterUnwinding, IsNewPath, PoisonedStateIsUnset, CallsKeepTheirMount,
          MountCalls, ObjectCalls
  <2>3. SessionsAreMounted'
    BY <1>11, CallShape DEF InsertMount, Panic, Answer, GoTo, Put, NewMount, InitializeHolds,
          AfterUnwinding, IsNewPath, SessionsAreMounted, MountsHeldByInitialize, MountCalls
  <2> QED BY <2>1, <2>2, <2>3
<1>12. ASSUME NEW c \in Clients, StartSession(c) PROVE Goal'
  <2>1. CallsKeepTheirMount'
    BY <1>12, CallShape DEF StartSession, Panic, Answer, CallsKeepTheirMount, MountCalls,
          MountRpcs, Idle
  <2>2. PoisonedStateIsUnset'
    BY <1>12, CallShape, MutexesDiffer DEF StartSession, Panic, Answer, PoisonedStateIsUnset,
          CallsKeepTheirMount, MountCalls, ObjectCalls
  <2>3. SessionsAreMounted'
    BY <1>12, CallShape DEF StartSession, Panic, Answer, SessionsAreMounted, MountsHeldByInitialize,
          CallsKeepTheirMount, MountCalls
  <2> QED BY <2>1, <2>2, <2>3
<1>13. ASSUME NEW c \in Clients, WriteObject(c) PROVE Goal'
  <2>1. CallsKeepTheirMount'
    BY <1>13, CallShape DEF WriteObject, Panic, Answer, CallsKeepTheirMount, MountCalls,
          MountRpcs, Idle
  <2>2. PoisonedStateIsUnset'
    BY <1>13, CallShape, MutexesDiffer DEF WriteObject, Panic, Answer, PoisonedStateIsUnset,
          CallsKeepTheirMount, MountCalls, ObjectCalls
  <2>3. SessionsAreMounted'
    BY <1>13, CallShape DEF WriteObject, Panic, Answer, SessionsAreMounted,
          MountsHeldByInitialize, MountCalls
  <2> QED BY <2>1, <2>2, <2>3
<1>14. ASSUME NEW c \in Clients, ReadObject(c) PROVE Goal'
  <2>1. CallsKeepTheirMount'
    BY <1>14, CallShape DEF ReadObject, Panic, Answer, CallsKeepTheirMount, MountCalls,
          MountRpcs, Idle
  <2>2. PoisonedStateIsUnset'
    BY <1>14, CallShape, MutexesDiffer DEF ReadObject, Panic, Answer, PoisonedStateIsUnset,
          CallsKeepTheirMount, MountCalls, ObjectCalls
  <2>3. SessionsAreMounted'
    BY <1>14, CallShape DEF ReadObject, Panic, Answer, SessionsAreMounted,
          MountsHeldByInitialize, MountCalls
  <2> QED BY <2>1, <2>2, <2>3
<1> QED
  BY <1>1, <1>2, <1>3, <1>4, <1>5, <1>6, <1>7, <1>8, <1>9, <1>10, <1>11, <1>12, <1>13, <1>14
     DEF Next, AnyCall, Step


\* The four parts and the types are inductive together.
LEMMA Inductive == Spec => []IInv
<1>1. Init => IInv
  BY UnsetAssumption DEF Init, IInv, TypeOK, EmptyMap, MountsHeldByInitialize, CallsKeepTheirMount,
                         PoisonedStateIsUnset, SessionsAreMounted, At
<1>2. IInv /\ [Next]_vars => IInv'
  BY TypeStep, HeldStep, MountsStep DEF IInv
<1> QED BY <1>1, <1>2, PTL DEF Spec

\* The mutex of mounts is held exactly while an initialize starts its session,
\* so a panic never leaves it locked.
THEOREM MountsHeld == Spec => []MountsHeldByInitialize
BY Inductive, PTL DEF IInv

\* No initialize replaces the mount that a handler has already looked up.
THEOREM MountsKept == Spec => []CallsKeepTheirMount
BY Inductive, PTL DEF IInv

\* A checkout state that was set is never lost to a poisoned mutex.
THEOREM PoisonedUnset == Spec => []PoisonedStateIsUnset
BY Inductive, PTL DEF IInv

\* Sessions and mounts go together, but for an initialize that is under way or
\* has failed.
THEOREM SessionsMounted == Spec => []SessionsAreMounted
BY Inductive, PTL DEF IInv

=============================================================================
