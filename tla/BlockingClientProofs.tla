------------------------ MODULE BlockingClientProofs ------------------------
(* Proofs about BlockingClient.                                            *)
EXTENDS BlockingClient, TLAPS

\* The ends of the sequences that orders of locks and of fields are.
LEMMA HeadAndTail ==
  ASSUME NEW a, NEW b
  PROVE  /\ Head(<<a>>) = a /\ Tail(<<a>>) = << >>
         /\ Head(<<a, b>>) = a /\ Tail(<<a, b>>) = <<b>>
OBVIOUS

\* Whatever is left of an order of locks is one of the orders.
LEMMA OrdersEnd ==
  ASSUME NEW order \in Orders, order # << >>
  PROVE  Head(order) \in Fields /\ Tail(order) \in Orders
<1>1. CASE order = <<"client">>
  BY <1>1, HeadAndTail DEF Orders, Fields
<1>2. CASE order = <<"rt">>
  BY <1>2, HeadAndTail DEF Orders, Fields
<1>3. CASE order = <<"client", "rt">>
  BY <1>3, HeadAndTail DEF Orders, Fields
<1>4. CASE order = <<"rt", "client">>
  BY <1>4, HeadAndTail DEF Orders, Fields
<1> QED BY <1>1, <1>2, <1>3, <1>4 DEF Orders

\* Dropping the first field leaves the rest.
LEMMA UndroppedEnd ==
  ASSUME NEW left \in Undropped, left # << >>
  PROVE  Tail(left) \in Undropped
<1>1. CASE left = <<"client", "rt">>
  BY <1>1, HeadAndTail DEF Undropped
<1>2. CASE left = <<"rt">>
  BY <1>2, HeadAndTail DEF Undropped
<1> QED BY <1>1, <1>2 DEF Undropped

\* Every step keeps the types.
LEMMA TypeStep ==
  ASSUME TypeOK, [Next]_vars
  PROVE  TypeOK'
<1> USE DEF TypeOK
<1>1. CASE UNCHANGED vars
  BY <1>1 DEF vars
<1>2. CASE Share
  BY <1>2 DEF Share
<1>3. ASSUME NEW h \in Clones, DropField(h) PROVE TypeOK'
  BY <1>3, UndroppedEnd DEF DropField
<1>4. ASSUME NEW h \in Clones, NEW new \in Clones, Clone(h, new) PROVE TypeOK'
  BY <1>4 DEF Clone, Undropped, Declaration
<1>5. ASSUME NEW t \in Threads, Lock(t) PROVE TypeOK'
  BY <1>5, OrdersEnd DEF Lock
<1>6. ASSUME NEW t \in Threads, Return(t) PROVE TypeOK'
  BY <1>6 DEF Return
<1>7. ASSUME NEW t \in Threads, NEW h \in Clones, Call(t, h) PROVE TypeOK'
  BY <1>7, CallsAssumption DEF Call, Enter, LockOrder, Orders
<1>8. ASSUME NEW t \in Threads, NEW h \in Clones, GetEmptyTreeId(t, h) PROVE TypeOK'
  BY <1>8, CallsAssumption DEF GetEmptyTreeId, Enter, EmptyTreeLockOrder, Orders
<1> QED BY <1>1, <1>2, <1>3, <1>4, <1>5, <1>6, <1>7, <1>8 DEF Next

\* Every variable keeps its type; what is left of a clone while it is dropped
\* is an end of its fields, for any threads and clones.
THEOREM ClientTypeCorrect == Spec => []TypeOK
<1>1. Init => TypeOK
  <2>1. Init => fields \in [Clones -> Undropped]
    BY DEF Init, Undropped, Declaration
  <2>2. << >> \in Orders
    BY DEF Orders
  <2>3. Init => to_lock \in [Threads -> Orders] /\ calls \in 0..MaxCalls
    BY <2>2, CallsAssumption DEF Init
  <2> QED BY <2>1, <2>3 DEF Init, TypeOK
<1>2. TypeOK /\ [Next]_vars => TypeOK'
  BY TypeStep
<1> QED BY <1>1, <1>2, PTL DEF Spec

\* A clone that still holds the client still holds the runtime.
LEMMA ClientImpliesRuntime ==
  ASSUME TypeOK, NEW h \in Clones, Holds(h, "client")
  PROVE  Holds(h, "rt")
<1>1. fields[h] \in Undropped
  BY DEF TypeOK
<1>2. fields[h] = <<"client", "rt">>
  BY <1>1 DEF Holds, Undropped
<1> QED BY <1>2 DEF Holds

\* The client is dropped before its runtime, for any number of clones and any
\* interleaving of the threads that drop them.
THEOREM RuntimeOutlivesClient == Spec => []ClientDroppedBeforeRuntime
<1>1. TypeOK => ClientDroppedBeforeRuntime
  BY ClientImpliesRuntime DEF ClientDroppedBeforeRuntime, Alive
<1> QED BY <1>1, ClientTypeCorrect, PTL

=============================================================================
