---------------------------- MODULE ReaddirProofs ----------------------------
(***************************************************************************)
(* Proofs about a listing: for any names, any number of entries in a reply *)
(* and any changes, what it may get wrong is bounded by what happens to    *)
(* the directory during it.                                                *)
(***************************************************************************)
EXTENDS Readdir, SequenceTheorems, FiniteSetTheorems, TLAPS

Typed ==
  /\ entries \subseteq Names /\ stayed \subseteq entries
  /\ offset \in Nat /\ ended \in BOOLEAN
  /\ listed \in Seq(Names)
  /\ changes \in Seq([what : {"add", "remove"}, name : Names])

\* The offset stands between what was answered and what was not: an entry
\* beyond it was answered once for each addition before it, at most, and one
\* before it once more.
Counted ==
  \A n \in stayed :
    Times(n) <= Cardinality(Before(n, "add")) + (IF Position(entries, n) <= offset THEN 1 ELSE 0)

\* An entry slips past the offset unanswered only when one before it goes, and
\* only one at a time.
Slipped == {n \in stayed : Times(n) = 0 /\ Position(entries, n) <= offset}
SlipsByRemovals ==
  /\ \A n \in Slipped : Before(n, "remove") # {}
  /\ Cardinality(Slipped) <= Cardinality(Changed("remove"))

\* An answer is empty at the end of the directory only.
EndsAtTheEnd == ended => Cardinality(entries) <= offset

\* Before the first change the offset counts the entries that were answered.
QuietOffset ==
  changes = << >> =>
    /\ offset = Len(listed) /\ Len(listed) <= Cardinality(entries)
    /\ listed = Skip(entries, 0, Len(listed))

IInv == Typed /\ Counted /\ SlipsByRemovals /\ EndsAtTheEnd /\ QuietOffset

-----------------------------------------------------------------------------
(* Positions in a finite set of names.                                     *)

\* A position is a number from 1 to the size of the set.
LEMMA PositionType ==
  ASSUME NEW S \in SUBSET Nat, IsFiniteSet(S), NEW n \in Nat
  PROVE  /\ IsFiniteSet({m \in S : m <= n})
         /\ Position(S, n) \in Nat /\ Position(S, n) <= Cardinality(S)
         /\ n \in S => Position(S, n) \in 1..Cardinality(S)
<1> DEFINE T == {m \in S : m <= n}
<1>1. T \in SUBSET S
  OBVIOUS
<1>2. IsFiniteSet(T) /\ Cardinality(T) <= Cardinality(S)
  BY <1>1, FS_Subset
<1>3. Cardinality(T) \in Nat /\ Cardinality(S) \in Nat
  BY <1>2, FS_CardinalityType
<1>4. ASSUME n \in S PROVE Cardinality(T) # 0
  <2>1. n \in T
    BY <1>4
  <2> QED
    BY <1>2, <2>1, FS_EmptySet
<1> QED
  BY <1>2, <1>3, <1>4 DEF Position

\* Positions are in the order of the names.
LEMMA PositionOrder ==
  ASSUME NEW S \in SUBSET Nat, IsFiniteSet(S), NEW m \in S, NEW n \in S, m < n
  PROVE  Position(S, m) < Position(S, n)
<1> DEFINE T == {k \in S : k <= m}
           U == {k \in S : k <= n}
<1>1. IsFiniteSet(T) /\ IsFiniteSet(U) /\ Cardinality(T) \in Nat /\ Cardinality(U) \in Nat
  <2>1. m \in Nat /\ n \in Nat
    OBVIOUS
  <2> QED
    BY <2>1, PositionType DEF Position
<1>2. n \notin T /\ T \cup {n} \in SUBSET U
  <2>1. m \in Nat /\ n \in Nat /\ \A k \in S : k \in Nat
    OBVIOUS
  <2>2. \A k \in S : k <= m => k <= n /\ k # n
    BY <2>1
  <2>3. n \notin T
    BY <2>2
  <2>4. T \subseteq U
    BY <2>2
  <2>5. n <= n
    BY <2>1
  <2>6. n \in U
    BY <2>5
  <2> QED
    BY <2>3, <2>4, <2>6
<1>3. Cardinality(T \cup {n}) = Cardinality(T) + 1
  BY <1>1, <1>2, FS_AddElement
<1>4. Cardinality(T \cup {n}) <= Cardinality(U)
  BY <1>1, <1>2, FS_Subset
<1>5. Cardinality(T) < Cardinality(U)
  BY <1>1, <1>3, <1>4
<1> QED
  BY <1>5 DEF Position

\* No two names have one position.
LEMMA PositionInjective ==
  ASSUME NEW S \in SUBSET Nat, IsFiniteSet(S), NEW m \in S, NEW n \in S,
         Position(S, m) = Position(S, n)
  PROVE  m = n
<1>1. m \in Nat /\ n \in Nat
  OBVIOUS
<1>2. Position(S, m) \in Nat /\ Position(S, n) \in Nat
  BY <1>1, PositionType
<1>3. ~ (m < n)
  BY <1>2, PositionOrder
<1>4. ~ (n < m)
  BY <1>2, PositionOrder
<1> QED
  BY <1>1, <1>3, <1>4

\* Every position has a name, AtPosition: as many names are given different
\* positions as there are.
LEMMA AtPositionIs ==
  ASSUME NEW S \in SUBSET Nat, IsFiniteSet(S)
  PROVE  /\ \A k \in 1..Cardinality(S) :
              AtPosition(S, k) \in S /\ Position(S, AtPosition(S, k)) = k
         /\ \A n \in S : AtPosition(S, Position(S, n)) = n
<1> DEFINE f == [n \in S |-> Position(S, n)]
           T == 1..Cardinality(S)
<1>1. Cardinality(S) \in Nat
  BY FS_CardinalityType
<1>2. IsFiniteSet(T) /\ Cardinality(T) = Cardinality(S)
  BY <1>1, FS_Interval
<1>3. \A n \in S : n \in Nat /\ Position(S, n) \in T
  BY PositionType
<1>4. f \in [S -> T]
  BY <1>3
<1>5. f \in Injection(S, T)
  <2>1. \A m, n \in S : f[m] = f[n] => m = n
    BY PositionInjective
  <2> QED
    BY <1>4, <2>1 DEF Injection, IsInjective
<1>6. f \in Surjection(S, T)
  BY <1>2, <1>5, FS_Injection
<1>7. \A k \in T : \E n \in S : Position(S, n) = k
  BY <1>6 DEF Surjection
<1>8. \A k \in T : AtPosition(S, k) \in S /\ Position(S, AtPosition(S, k)) = k
  BY <1>7 DEF AtPosition
<1>9. ASSUME NEW n \in S PROVE AtPosition(S, Position(S, n)) = n
  <2> DEFINE p == Position(S, n)
             a == AtPosition(S, p)
  <2>1. p \in T
    BY <1>3
  <2>2. a \in S /\ Position(S, a) = p
    BY <1>8, <2>1
  <2> HIDE DEF a
  <2>3. a = n
    BY <2>2, PositionInjective
  <2> QED
    BY <2>3 DEF a
<1> QED
  BY <1>8, <1>9

\* A name that comes moves those from it on by one.
LEMMA PositionAfterAdd ==
  ASSUME NEW S \in SUBSET Nat, IsFiniteSet(S), NEW x \in Nat, x \notin S, NEW n \in Nat
  PROVE  Position(S \cup {x}, n) = Position(S, n) + (IF x <= n THEN 1 ELSE 0)
<1> DEFINE T == {m \in S : m <= n}
<1>1. IsFiniteSet(T) /\ Cardinality(T) \in Nat
  BY PositionType DEF Position
<1>2. CASE x <= n
  <2>1. {m \in S \cup {x} : m <= n} = T \cup {x} /\ x \notin T
    BY <1>2
  <2>2. Cardinality(T \cup {x}) = Cardinality(T) + 1
    BY <1>1, <2>1, FS_AddElement
  <2> QED
    BY <1>2, <2>1, <2>2 DEF Position
<1>3. CASE ~ (x <= n)
  <2>1. {m \in S \cup {x} : m <= n} = T
    BY <1>3
  <2> QED
    BY <1>1, <1>3, <2>1 DEF Position
<1> QED
  BY <1>2, <1>3

\* And one that goes moves them back by one.
LEMMA PositionAfterRemove ==
  ASSUME NEW S \in SUBSET Nat, IsFiniteSet(S), NEW x \in S, NEW n \in Nat
  PROVE  Position(S \ {x}, n) = Position(S, n) - (IF x <= n THEN 1 ELSE 0)
<1> DEFINE T == {m \in S : m <= n}
<1>1. IsFiniteSet(T) /\ Cardinality(T) \in Nat
  BY PositionType DEF Position
<1>2. CASE x <= n
  <2>1. {m \in S \ {x} : m <= n} = T \ {x} /\ x \in T
    BY <1>2
  <2>2. Cardinality(T \ {x}) = Cardinality(T) - 1
    BY <1>1, <2>1, FS_RemoveElement
  <2> QED
    BY <1>2, <2>1, <2>2 DEF Position
<1>3. CASE ~ (x <= n)
  <2>1. {m \in S \ {x} : m <= n} = T
    BY <1>3
  <2> QED
    BY <1>1, <1>3, <2>1 DEF Position
<1> QED
  BY <1>2, <1>3

\* The directory is a finite set of numbers.
LEMMA EntriesFinite ==
  ASSUME Typed
  PROVE  /\ entries \in SUBSET Nat /\ IsFiniteSet(entries) /\ Cardinality(entries) \in Nat
         /\ stayed \in SUBSET Nat /\ IsFiniteSet(stayed)
<1>1. entries \in SUBSET Names /\ stayed \in SUBSET Names
  BY DEF Typed
<1>2. IsFiniteSet(entries) /\ IsFiniteSet(stayed)
  BY <1>1, NamesAssumption, FS_Subset
<1> QED
  BY <1>1, <1>2, NamesAssumption, FS_CardinalityType

\* The positions in a sequence are finitely many, and one more element is one
\* more position.
LEMMA PlacesFinite ==
  ASSUME NEW X, NEW s \in Seq(X), NEW P, P \subseteq DOMAIN s
  PROVE  IsFiniteSet(P) /\ Cardinality(P) \in Nat
<1>1. DOMAIN s = 1..Len(s) /\ Len(s) \in Nat
  OBVIOUS
<1>2. IsFiniteSet(1..Len(s))
  BY <1>1, FS_Interval
<1>3. P \in SUBSET (1..Len(s))
  BY <1>1
<1>4. IsFiniteSet(P)
  BY <1>2, <1>3, FS_Subset
<1> QED
  BY <1>4, FS_CardinalityType

-----------------------------------------------------------------------------
(* What a change and an answer do to the counts.                           *)

\* The changes of a kind, and those before a name, once c is made.
LEMMA ChangeCounts ==
  ASSUME Typed, NEW c \in [what : {"add", "remove"}, name : Names],
         changes' = Append(changes, c), NEW what, NEW n
  PROVE  /\ IsFiniteSet(Changed(what)) /\ Cardinality(Changed(what)) \in Nat
         /\ IsFiniteSet(Before(n, what)) /\ Cardinality(Before(n, what)) \in Nat
         /\ Before(n, what) \subseteq Before(n, what)'
         /\ Cardinality(Changed(what)') = Cardinality(Changed(what)) + (IF c.what = what THEN 1 ELSE 0)
         /\ Cardinality(Before(n, what)') =
              Cardinality(Before(n, what)) + (IF c.what = what /\ c.name < n THEN 1 ELSE 0)
         /\ c.what = what /\ c.name < n => Before(n, what)' # {}
<1> DEFINE l == Len(changes) + 1
<1>1. /\ changes \in Seq([what : {"add", "remove"}, name : Names])
      /\ DOMAIN changes = 1..Len(changes) /\ Len(changes) \in Nat
  BY DEF Typed
<1>2. /\ DOMAIN changes' = DOMAIN changes \cup {l} /\ l \notin DOMAIN changes
      /\ changes'[l] = c /\ \A k \in DOMAIN changes : changes'[k] = changes[k]
  BY <1>1
<1> HIDE DEF l
<1>3. /\ IsFiniteSet(Changed(what)) /\ Cardinality(Changed(what)) \in Nat
      /\ IsFiniteSet(Before(n, what)) /\ Cardinality(Before(n, what)) \in Nat
      /\ l \notin Changed(what) /\ l \notin Before(n, what)
  <2>1. Changed(what) \subseteq DOMAIN changes /\ Before(n, what) \subseteq DOMAIN changes
    BY DEF Changed, Before
  <2> QED
    BY <1>1, <1>2, <2>1, PlacesFinite
<1>4. Changed(what)' = Changed(what) \cup (IF c.what = what THEN {l} ELSE {})
  BY <1>2 DEF Changed
<1>5. Before(n, what)' = Before(n, what) \cup (IF c.what = what /\ c.name < n THEN {l} ELSE {})
  BY <1>2, <1>4 DEF Before, Changed
<1>6. Cardinality(Changed(what)') = Cardinality(Changed(what)) + (IF c.what = what THEN 1 ELSE 0)
  <2>1. CASE c.what = what
    BY <1>3, <1>4, <2>1, FS_AddElement
  <2>2. CASE c.what # what
    BY <1>3, <1>4, <2>2
  <2> QED
    BY <2>1, <2>2
<1>7. Cardinality(Before(n, what)') =
        Cardinality(Before(n, what)) + (IF c.what = what /\ c.name < n THEN 1 ELSE 0)
  <2> DEFINE b == c.what = what /\ c.name < n
             B == Before(n, what)
  <2>1. /\ IsFiniteSet(B) /\ Cardinality(B) \in Nat /\ l \notin B
        /\ Before(n, what)' = B \cup (IF b THEN {l} ELSE {})
    BY <1>3, <1>5
  <2>2. ASSUME b PROVE Cardinality(Before(n, what)') = Cardinality(B) + 1
    <3>1. Before(n, what)' = B \cup {l}
      BY <2>1, <2>2
    <3> HIDE DEF b, B
    <3> QED
      BY <2>1, <3>1, FS_AddElement
  <2>3. ASSUME ~b PROVE Cardinality(Before(n, what)') = Cardinality(B)
    <3>1. Before(n, what)' = B
      BY <2>1, <2>3
    <3> QED
      BY <3>1
  <2> HIDE DEF b
  <2>4. Cardinality(Before(n, what)') = Cardinality(B) + (IF b THEN 1 ELSE 0)
    BY <2>1, <2>2, <2>3
  <2> QED
    BY <2>4 DEF b
<1> QED
  BY <1>3, <1>5, <1>6, <1>7

\* How often a name was answered is a number.
LEMMA TimesType ==
  ASSUME Typed, NEW n
  PROVE  IsFiniteSet({k \in DOMAIN listed : listed[k] = n}) /\ Times(n) \in Nat
BY PlacesFinite DEF Typed, Times

\* A reply holds no more than what is left, and nothing only at the end.
LEMMA FitsBounds ==
  ASSUME Typed, NEW count \in Fits(Cardinality(entries), offset)
  PROVE  /\ count \in Nat
         /\ count = 0 => Cardinality(entries) <= offset
         /\ count # 0 => offset + count <= Cardinality(entries)
<1>1. Cardinality(entries) \in Nat /\ offset \in Nat /\ MaxFit \in Nat
  BY EntriesFinite, BoundsAssumption DEF Typed
<1>2. CASE offset >= Cardinality(entries)
  BY <1>1, <1>2 DEF Fits
<1>3. CASE ~ (offset >= Cardinality(entries))
  BY <1>1, <1>3 DEF Fits
<1> QED
  BY <1>2, <1>3

\* An answer appends the names at the positions past the offset.
LEMMA AnswerIs ==
  ASSUME Typed, NEW count \in Nat, offset + count <= Cardinality(entries) \/ count = 0,
         listed' = listed \o Skip(entries, offset, count)
  PROVE  /\ listed' \in Seq(Names) /\ Len(listed') = Len(listed) + count
         /\ DOMAIN listed' = 1..(Len(listed) + count)
         /\ \A k \in 1..Len(listed) : listed'[k] = listed[k]
         /\ \A k \in 1..count : /\ offset + k \in 1..Cardinality(entries)
                                /\ listed'[Len(listed) + k] = AtPosition(entries, offset + k)
<1> DEFINE t == Skip(entries, offset, count)
<1>1. /\ entries \in SUBSET Nat /\ IsFiniteSet(entries) /\ Cardinality(entries) \in Nat
      /\ entries \subseteq Names /\ offset \in Nat
  BY EntriesFinite DEF Typed
<1>2. \A k \in 1..count : /\ offset + k \in 1..Cardinality(entries)
                          /\ t[k] = AtPosition(entries, offset + k)
  BY <1>1 DEF Skip
<1>3. \A j \in 1..Cardinality(entries) : AtPosition(entries, j) \in entries
  BY <1>1, AtPositionIs
<1>4. \A k \in 1..count : t[k] \in Names
  BY <1>1, <1>2, <1>3
<1>5. t \in Seq(Names) /\ Len(t) = count
  BY <1>4 DEF Skip
<1>6. listed \in Seq(Names) /\ Len(listed) \in Nat /\ DOMAIN listed = 1..Len(listed)
  BY DEF Typed
<1>7. listed' = listed \o t
  OBVIOUS
<1> HIDE DEF t
<1>8. listed \o t \in Seq(Names)
  BY <1>5, <1>6
<1>9. Len(listed \o t) = Len(listed) + count
  <2>1. Len(listed \o t) = Len(listed) + Len(t)
    BY <1>5, <1>6, ConcatProperties
  <2> QED
    BY <1>5, <2>1
<1>10. DOMAIN (listed \o t) = 1..Len(listed \o t)
  BY <1>8
<1>11. \A k \in 1..Len(listed) : (listed \o t)[k] = listed[k]
  BY <1>5, <1>6
<1>12. \A k \in 1..count : (listed \o t)[Len(listed) + k] = t[k]
  BY <1>5, <1>6
<1> QED
  BY <1>2, <1>7, <1>8, <1>9, <1>10, <1>11, <1>12

\* So it lists those whose position is past the offset, up to count beyond it,
\* once each.
LEMMA AnswerCounts ==
  ASSUME Typed, NEW count \in Nat, offset + count <= Cardinality(entries) \/ count = 0,
         listed' = listed \o Skip(entries, offset, count), NEW n \in entries
  PROVE  Times(n)' = Times(n) + (IF Position(entries, n) > offset
                                    /\ Position(entries, n) <= offset + count THEN 1 ELSE 0)
<1> DEFINE t(k) == listed'[Len(listed) + k]
           p == Position(entries, n)
           Old == {k \in DOMAIN listed : listed[k] = n}
<1>1. /\ entries \in SUBSET Nat /\ IsFiniteSet(entries) /\ Cardinality(entries) \in Nat
      /\ offset \in Nat /\ n \in Nat
  BY EntriesFinite DEF Typed
<1>2. p \in 1..Cardinality(entries) /\ p \in Nat
  BY <1>1, PositionType
<1>3. listed \in Seq(Names) /\ Len(listed) \in Nat /\ DOMAIN listed = 1..Len(listed)
  BY DEF Typed
<1>4. /\ DOMAIN listed' = 1..(Len(listed) + count)
      /\ \A k \in 1..Len(listed) : listed'[k] = listed[k]
      /\ \A k \in 1..count : /\ offset + k \in 1..Cardinality(entries)
                             /\ t(k) = AtPosition(entries, offset + k)
  BY AnswerIs
<1> HIDE DEF t
<1>5. \A k \in 1..count : (t(k) = n <=> offset + k = p)
  <2>1. \A j \in 1..Cardinality(entries) :
          AtPosition(entries, j) \in entries /\ Position(entries, AtPosition(entries, j)) = j
    BY <1>1, AtPositionIs
  <2>2. AtPosition(entries, p) = n
    BY <1>1, AtPositionIs
  <2> QED
    BY <1>1, <1>4, <2>1, <2>2
<1> HIDE DEF p
<1>6. IsFiniteSet(Old) /\ Times(n) = Cardinality(Old) /\ Times(n) \in Nat
  BY TimesType DEF Times
<1>7. CASE p > offset /\ p <= offset + count
  <2>1. p - offset \in 1..count /\ offset + (p - offset) = p
    BY <1>1, <1>2, <1>7
  <2>2. {k \in DOMAIN listed' : listed'[k] = n} = Old \cup {Len(listed) + (p - offset)}
    <3>1. Len(listed) + (p - offset) \in DOMAIN listed'
          /\ listed'[Len(listed) + (p - offset)] = n
      BY <1>3, <1>4, <1>5, <2>1 DEF t
    <3>2. ASSUME NEW k \in DOMAIN listed', listed'[k] = n, k \notin DOMAIN listed
          PROVE  k = Len(listed) + (p - offset)
      <4>1. k - Len(listed) \in 1..count /\ k = Len(listed) + (k - Len(listed))
        BY <1>3, <1>4, <3>2
      <4>2. t(k - Len(listed)) = n
        BY <1>4, <3>2, <4>1 DEF t
      <4>3. offset + (k - Len(listed)) = p
        BY <1>5, <4>1, <4>2
      <4>4. k - Len(listed) \in Nat /\ k \in Nat /\ p \in Nat
        BY <1>2, <1>4, <1>3, <4>1
      <4>5. offset \in Nat /\ Len(listed) \in Nat
        BY <1>1, <1>3
      <4>6. \A a, b, i, j \in Nat : a + (j - b) = i => j = b + (i - a)
        OBVIOUS
      <4> QED
        BY <4>3, <4>4, <4>5, <4>6
    <3>3. \A k \in DOMAIN listed : k \in DOMAIN listed' /\ listed'[k] = listed[k]
      BY <1>3, <1>4
    <3> QED
      BY <3>1, <3>2, <3>3
  <2>3. Len(listed) + (p - offset) \notin Old
    BY <1>3, <2>1
  <2>4. Cardinality(Old \cup {Len(listed) + (p - offset)}) = Cardinality(Old) + 1
    BY <1>6, <2>3, FS_AddElement
  <2>5. Times(n)' = Times(n) + 1
    BY <1>6, <2>2, <2>4 DEF Times
  <2> QED
    BY <1>4, <1>7, <2>5 DEF p
<1>8. CASE ~ (p > offset /\ p <= offset + count)
  <2>1. \A k \in 1..count : t(k) # n
    BY <1>1, <1>2, <1>5, <1>8
  <2>2. {k \in DOMAIN listed' : listed'[k] = n} = Old
    <3>1. ASSUME NEW k \in DOMAIN listed', k \notin DOMAIN listed
          PROVE  listed'[k] # n
      <4>1. k - Len(listed) \in 1..count /\ k = Len(listed) + (k - Len(listed))
        BY <1>3, <1>4, <3>1
      <4> QED
        BY <1>4, <2>1, <4>1 DEF t
    <3>2. \A k \in DOMAIN listed : k \in DOMAIN listed' /\ listed'[k] = listed[k]
      BY <1>3, <1>4
    <3> QED
      BY <3>1, <3>2
  <2>3. Times(n)' = Times(n)
    BY <1>6, <2>2 DEF Times
  <2> QED
    BY <1>4, <1>6, <1>8, <2>3 DEF p
<1> QED
  BY <1>7, <1>8 DEF p
-----------------------------------------------------------------------------
(* Each action preserves the invariant.                                    *)

\* Before the first request nothing was answered and nothing has changed.
LEMMA InitHolds == Init => IInv
<1> SUFFICES ASSUME Init PROVE IInv
  OBVIOUS
<1>1. Typed
  <2>1. << >> \in Seq(Names) /\ << >> \in Seq([what : {"add", "remove"}, name : Names])
    OBVIOUS
  <2> QED
    BY <2>1 DEF Init, Typed
<1>2. entries \in SUBSET Nat /\ IsFiniteSet(entries) /\ Cardinality(entries) \in Nat
      /\ stayed = entries /\ offset = 0 /\ Len(listed) = 0
  BY <1>1, EntriesFinite DEF Init
<1>3. ASSUME NEW n \in stayed
      PROVE  Position(entries, n) \in Nat /\ ~ (Position(entries, n) <= offset)
  <2>1. n \in entries /\ n \in Nat
    BY <1>2
  <2>2. Position(entries, n) \in 1..Cardinality(entries)
    BY <1>2, <2>1, PositionType
  <2> QED
    BY <1>2, <2>2
<1>4. \A n : {k \in DOMAIN listed : listed[k] = n} = {} /\ \A what : Before(n, what) = {}
  BY DEF Init, Before, Changed
<1>5. Cardinality({}) = 0
  BY FS_EmptySet
<1>6. Counted
  BY <1>3, <1>4, <1>5 DEF Counted, Times
<1>7. SlipsByRemovals
  <2>1. Slipped = {}
    BY <1>3 DEF Slipped
  <2>2. Changed("remove") = {}
    BY DEF Init, Changed
  <2> QED
    BY <1>5, <2>1, <2>2 DEF SlipsByRemovals
<1>8. EndsAtTheEnd
  BY DEF Init, EndsAtTheEnd
<1>9. QuietOffset
  <2>1. Skip(entries, 0, 0) = << >>
    BY DEF Skip
  <2> QED
    BY <1>2, <2>1 DEF Init, QuietOffset
<1> QED
  BY <1>1, <1>6, <1>7, <1>8, <1>9 DEF IInv

\* A request: what it answers is what it moves the offset past.
LEMMA RequestKeeps ==
  ASSUME IInv, ReaddirRequest PROVE IInv'
<1> USE DEF IInv
<1>1. PICK count \in Fits(Cardinality(entries), offset) :
        /\ listed' = listed \o Skip(entries, offset, count)
        /\ offset' = IF count = 0 THEN offset ELSE OffsetOfLast(offset, count)
        /\ ended' = (count = 0)
  BY DEF ReaddirRequest
<1>2. /\ count \in Nat
      /\ count = 0 => Cardinality(entries) <= offset
      /\ offset + count <= Cardinality(entries) \/ count = 0
  BY FitsBounds
<1>3. /\ entries' = entries /\ stayed' = stayed /\ changes' = changes
      /\ offset \in Nat /\ Len(listed) \in Nat /\ stayed \subseteq entries
  BY DEF ReaddirRequest, Typed
<1>4. offset' = offset + count
  BY <1>1, <1>2, <1>3 DEF OffsetOfLast
<1>5. entries \in SUBSET Nat /\ IsFiniteSet(entries) /\ Cardinality(entries) \in Nat
      /\ IsFiniteSet(stayed)
  BY EntriesFinite
<1>6. \A n, what : Before(n, what)' = Before(n, what) /\ Changed(what)' = Changed(what)
  BY <1>3 DEF Before, Changed
<1>7. /\ listed' \in Seq(Names) /\ Len(listed') = Len(listed) + count
      /\ DOMAIN listed' = 1..(Len(listed) + count)
      /\ \A k \in 1..Len(listed) : listed'[k] = listed[k]
      /\ \A k \in 1..count : /\ offset + k \in 1..Cardinality(entries)
                             /\ listed'[Len(listed) + k] = AtPosition(entries, offset + k)
  BY <1>1, <1>2, AnswerIs
<1>8. ASSUME NEW n \in stayed
      PROVE  /\ Times(n) \in Nat /\ Position(entries, n) \in Nat
             /\ Times(n)' = Times(n) + (IF Position(entries, n) > offset
                                           /\ Position(entries, n) <= offset + count THEN 1 ELSE 0)
  <2>1. n \in entries /\ n \in Nat
    BY <1>3, <1>5
  <2>2. Position(entries, n) \in Nat
    BY <1>5, <2>1, PositionType
  <2> QED
    BY <1>1, <1>2, <2>1, <2>2, AnswerCounts, TimesType
<1>9. Typed'
  BY <1>1, <1>2, <1>3, <1>4, <1>7 DEF Typed
<1>10. Counted'
  <2> SUFFICES ASSUME NEW n \in stayed
               PROVE  Times(n)' <= Cardinality(Before(n, "add"))
                                     + (IF Position(entries, n) <= offset + count THEN 1 ELSE 0)
    BY <1>3, <1>4, <1>6 DEF Counted
  <2>1. Times(n) <= Cardinality(Before(n, "add"))
                      + (IF Position(entries, n) <= offset THEN 1 ELSE 0)
    BY DEF Counted
  <2>2. Cardinality(Before(n, "add")) \in Nat
    <3>1. Before(n, "add") \subseteq DOMAIN changes
      BY DEF Before, Changed
    <3> QED
      BY <3>1, PlacesFinite DEF Typed
  <2> QED
    BY <1>2, <1>3, <1>8, <2>1, <2>2
<1>11. SlipsByRemovals'
  <2>1. Slipped' \subseteq Slipped
    BY <1>2, <1>3, <1>4, <1>8 DEF Slipped
  <2>2. IsFiniteSet(Slipped)
    BY <1>5, FS_Subset DEF Slipped
  <2>3. Cardinality(Slipped') <= Cardinality(Slipped) /\ IsFiniteSet(Slipped')
    BY <2>1, <2>2, FS_Subset
  <2>4. Cardinality(Slipped) \in Nat /\ Cardinality(Slipped') \in Nat
    BY <2>2, <2>3, FS_CardinalityType
  <2>5. Changed("remove") \subseteq DOMAIN changes
    BY DEF Changed
  <2>6. Cardinality(Changed("remove")) \in Nat
    BY <2>5, PlacesFinite DEF Typed
  <2> QED
    BY <1>6, <2>1, <2>3, <2>4, <2>6 DEF SlipsByRemovals
<1>12. EndsAtTheEnd'
  BY <1>1, <1>2, <1>3, <1>4 DEF EndsAtTheEnd
<1>13. QuietOffset'
  <2> SUFFICES ASSUME changes = << >>
               PROVE  /\ offset' = Len(listed') /\ Len(listed') <= Cardinality(entries)
                      /\ listed' = Skip(entries, 0, Len(listed'))
    BY <1>3 DEF QuietOffset
  <2>1. /\ offset = Len(listed) /\ Len(listed) <= Cardinality(entries)
        /\ listed = Skip(entries, 0, Len(listed))
    BY DEF QuietOffset
  <2>2. Len(listed') <= Cardinality(entries)
    BY <1>2, <1>3, <1>5, <1>7, <2>1
  <2>3. ASSUME NEW j \in 1..(Len(listed) + count)
        PROVE  listed'[j] = AtPosition(entries, 0 + j)
    <3>1. CASE j \in 1..Len(listed)
      BY <1>7, <2>1, <3>1 DEF Skip
    <3>2. CASE j \notin 1..Len(listed)
      <4>1. j - Len(listed) \in 1..count /\ Len(listed) + (j - Len(listed)) = j
            /\ offset + (j - Len(listed)) = 0 + j
        BY <1>2, <1>3, <2>1, <3>2
      <4> QED
        BY <1>7, <4>1
    <3> QED
      BY <3>1, <3>2
  <2>4. listed' = Skip(entries, 0, Len(listed) + count)
    BY <1>7, <2>3 DEF Skip
  <2> QED
    BY <1>4, <1>7, <2>1, <2>2, <2>4
<1> QED
  BY <1>9, <1>10, <1>11, <1>12, <1>13
\* What slips is finitely many names, and so are the removals.
LEMMA SlippedFinite ==
  ASSUME Typed
  PROVE  /\ IsFiniteSet(Slipped) /\ Cardinality(Slipped) \in Nat
         /\ Cardinality(Changed("remove")) \in Nat
<1>1. IsFiniteSet(Slipped)
  BY EntriesFinite, FS_Subset DEF Slipped
<1>2. Changed("remove") \subseteq DOMAIN changes
  BY DEF Changed
<1> QED
  BY <1>1, <1>2, PlacesFinite, FS_CardinalityType DEF Typed

\* An added name moves those after it on, and past the offset none: what moves
\* back over it may be answered again, and that is one answer more.
LEMMA AddKeeps ==
  ASSUME IInv, NEW x \in Names, Add(x) PROVE IInv'
<1> USE DEF IInv
<1> DEFINE c == [what |-> "add", name |-> x]
<1>1. /\ x \notin entries /\ entries' = entries \cup {x} /\ stayed' = stayed
      /\ offset' = offset /\ listed' = listed /\ ended' = ended /\ ~ended
      /\ changes' = Append(changes, c) /\ c \in [what : {"add", "remove"}, name : Names]
      /\ c.what = "add" /\ c.name = x
  BY DEF Add
<1> HIDE DEF c
<1>2. /\ entries \in SUBSET Nat /\ IsFiniteSet(entries) /\ stayed \in SUBSET Nat
      /\ stayed \subseteq entries /\ offset \in Nat /\ x \in Nat
  BY EntriesFinite, NamesAssumption DEF Typed
<1>3. ASSUME NEW n \in stayed
      PROVE  /\ n \in Nat /\ n # x /\ Times(n)' = Times(n) /\ Times(n) \in Nat
             /\ Position(entries, n) \in Nat
             /\ Position(entries', n) = Position(entries, n) + (IF x < n THEN 1 ELSE 0)
  <2>1. n \in Nat /\ n \in entries /\ n # x /\ Times(n)' = Times(n)
    BY <1>1, <1>2 DEF Times
  <2>2. Position(entries, n) \in Nat
    BY <1>2, <2>1, PositionType
  <2>3. Position(entries \cup {x}, n) = Position(entries, n) + (IF x <= n THEN 1 ELSE 0)
    BY <1>1, <1>2, <2>1, PositionAfterAdd
  <2>4. x <= n <=> x < n
    BY <1>2, <2>1
  <2> QED
    BY <1>1, <2>1, <2>2, <2>3, <2>4, TimesType
<1>4. Typed'
  <2>1. changes' \in Seq([what : {"add", "remove"}, name : Names])
    BY <1>1, AppendProperties DEF Typed
  <2> QED
    BY <1>1, <1>2, <2>1 DEF Typed
<1>5. Counted'
  <2> SUFFICES ASSUME NEW n \in stayed
               PROVE  Times(n) <= Cardinality(Before(n, "add")')
                                    + (IF Position(entries', n) <= offset THEN 1 ELSE 0)
    BY <1>1, <1>3 DEF Counted
  <2>1. Times(n) <= Cardinality(Before(n, "add"))
                      + (IF Position(entries, n) <= offset THEN 1 ELSE 0)
    BY DEF Counted
  <2>2. /\ Cardinality(Before(n, "add")) \in Nat
        /\ Cardinality(Before(n, "add")') =
             Cardinality(Before(n, "add")) + (IF x < n THEN 1 ELSE 0)
    BY <1>1, ChangeCounts
  <2> QED
    BY <1>2, <1>3, <2>1, <2>2
<1>6. SlipsByRemovals'
  <2>1. Slipped' \subseteq Slipped
    <3> SUFFICES ASSUME NEW n \in Slipped' PROVE n \in Slipped
      OBVIOUS
    <3>1. n \in stayed /\ Times(n)' = 0 /\ Position(entries', n) <= offset
      BY <1>1 DEF Slipped
    <3>2. Times(n) = 0 /\ Position(entries, n) <= offset
      BY <1>2, <1>3, <3>1
    <3> QED
      BY <3>1, <3>2 DEF Slipped
  <2>2. Cardinality(Slipped') <= Cardinality(Slipped)
    BY <2>1, SlippedFinite, FS_Subset
  <2>3. \A n : Before(n, "remove") \subseteq Before(n, "remove")'
    BY <1>1, ChangeCounts
  <2>4. Cardinality(Changed("remove")') = Cardinality(Changed("remove"))
    <3>1. Cardinality(Changed("remove")') = Cardinality(Changed("remove")) + 0
      BY <1>1, ChangeCounts
    <3> QED
      BY <3>1, SlippedFinite
  <2>5. \A n \in Slipped' : Before(n, "remove")' # {}
    BY <2>1, <2>3 DEF SlipsByRemovals
  <2>6. Cardinality(Slipped') <= Cardinality(Changed("remove")')
    <3>1. IsFiniteSet(Slipped')
      BY <2>1, SlippedFinite, FS_Subset
    <3>2. Cardinality(Slipped') \in Nat
      BY <3>1, FS_CardinalityType
    <3> QED
      BY <2>2, <2>4, <3>2, SlippedFinite DEF SlipsByRemovals
  <2> QED
    BY <2>5, <2>6 DEF SlipsByRemovals
<1>7. EndsAtTheEnd'
  BY <1>1 DEF EndsAtTheEnd
<1>8. QuietOffset'
  <2>1. changes' # << >>
    BY <1>1, AppendProperties DEF Typed
  <2> QED
    BY <2>1 DEF QuietOffset
<1> QED
  BY <1>4, <1>5, <1>6, <1>7, <1>8

\* A removed name moves those after it back, and one of them past the offset:
\* the one that the next request would have answered first.
LEMMA RemoveKeeps ==
  ASSUME IInv, NEW x \in Names, Remove(x) PROVE IInv'
<1> USE DEF IInv
<1> DEFINE c == [what |-> "remove", name |-> x]
<1>1. /\ x \in entries /\ entries' = entries \ {x} /\ stayed' = stayed \ {x}
      /\ offset' = offset /\ listed' = listed /\ ended' = ended /\ ~ended
      /\ changes' = Append(changes, c) /\ c \in [what : {"add", "remove"}, name : Names]
      /\ c.what = "remove" /\ c.name = x
  BY DEF Remove
<1> HIDE DEF c
<1>2. /\ entries \in SUBSET Nat /\ IsFiniteSet(entries) /\ stayed \in SUBSET Nat
      /\ stayed \subseteq entries /\ offset \in Nat /\ x \in Nat
  BY EntriesFinite, NamesAssumption DEF Typed
<1>3. ASSUME NEW n \in stayed, n # x
      PROVE  /\ n \in Nat /\ Times(n)' = Times(n) /\ Times(n) \in Nat
             /\ Position(entries, n) \in Nat
             /\ Position(entries', n) = Position(entries, n) - (IF x < n THEN 1 ELSE 0)
  <2>1. n \in Nat /\ n \in entries /\ Times(n)' = Times(n)
    BY <1>1, <1>2 DEF Times
  <2>2. Position(entries, n) \in Nat
    BY <1>2, <2>1, PositionType
  <2>3. Position(entries \ {x}, n) = Position(entries, n) - (IF x <= n THEN 1 ELSE 0)
    BY <1>1, <1>2, <2>1, PositionAfterRemove
  <2>4. x <= n <=> x < n
    BY <1>2, <1>3, <2>1
  <2> QED
    BY <1>1, <2>1, <2>2, <2>3, <2>4, TimesType
<1>4. Typed'
  <2>1. changes' \in Seq([what : {"add", "remove"}, name : Names])
    BY <1>1, AppendProperties DEF Typed
  <2> QED
    BY <1>1, <1>2, <2>1 DEF Typed
<1>5. Counted'
  <2> SUFFICES ASSUME NEW n \in stayed, n # x
               PROVE  Times(n) <= Cardinality(Before(n, "add")')
                                    + (IF Position(entries', n) <= offset THEN 1 ELSE 0)
    BY <1>1, <1>3 DEF Counted
  <2>1. Times(n) <= Cardinality(Before(n, "add"))
                      + (IF Position(entries, n) <= offset THEN 1 ELSE 0)
    BY DEF Counted
  <2>2. /\ Cardinality(Before(n, "add")) \in Nat
        /\ Cardinality(Before(n, "add")') = Cardinality(Before(n, "add"))
    BY <1>1, ChangeCounts
  <2> QED
    BY <1>2, <1>3, <2>1, <2>2
<1>6. ASSUME NEW n \in Slipped'
      PROVE  /\ n \in entries
             /\ n \in Slipped \/ (Position(entries, n) = offset + 1 /\ x < n)
  <2>1. n \in stayed /\ n # x /\ Times(n)' = 0 /\ Position(entries', n) <= offset
    BY <1>1 DEF Slipped
  <2>2. Times(n) = 0 /\ Position(entries, n) \in Nat
        /\ Position(entries', n) = Position(entries, n) - (IF x < n THEN 1 ELSE 0)
    BY <1>3, <2>1
  <2>3. Position(entries, n) <= offset \/ (Position(entries, n) = offset + 1 /\ x < n)
    BY <1>2, <2>1, <2>2
  <2> QED
    BY <1>2, <2>1, <2>2, <2>3 DEF Slipped
<1>7. SlipsByRemovals'
  <2>1. ASSUME NEW n \in Slipped' PROVE Before(n, "remove")' # {}
    <3>1. CASE n \in Slipped
      <4>1. Before(n, "remove") \subseteq Before(n, "remove")'
        BY <1>1, ChangeCounts
      <4> QED
        BY <3>1, <4>1 DEF SlipsByRemovals
    <3>2. CASE x < n
      BY <1>1, <3>2, ChangeCounts
    <3> QED
      BY <1>6, <3>1, <3>2
  <2>2. PICK y : Slipped' \subseteq Slipped \cup {y}
    <3>1. CASE \E y \in Slipped' : y \notin Slipped
      <4>1. PICK y \in Slipped' : y \notin Slipped
        BY <3>1
      <4>2. ASSUME NEW n \in Slipped', n \notin Slipped PROVE n = y
        <5>1. /\ n \in entries /\ y \in entries
              /\ Position(entries, n) = Position(entries, y)
          BY <1>6, <4>1, <4>2
        <5> QED
          BY <1>2, <5>1, PositionInjective
      <4> QED
        BY <4>2
    <3> QED
      BY <3>1
  <2>3. /\ IsFiniteSet(Slipped \cup {y})
        /\ Cardinality(Slipped \cup {y}) <= Cardinality(Slipped) + 1
        /\ Cardinality(Slipped \cup {y}) \in Nat
    BY SlippedFinite, FS_AddElement, FS_CardinalityType
  <2>4. IsFiniteSet(Slipped') /\ Cardinality(Slipped') <= Cardinality(Slipped \cup {y})
    BY <2>2, <2>3, FS_Subset
  <2>5. Cardinality(Slipped') \in Nat
    BY <2>4, FS_CardinalityType
  <2>6. Cardinality(Changed("remove")') = Cardinality(Changed("remove")) + 1
    BY <1>1, ChangeCounts
  <2>7. Cardinality(Slipped) <= Cardinality(Changed("remove"))
    BY DEF SlipsByRemovals
  <2>8. Cardinality(Slipped') <= Cardinality(Changed("remove")')
    BY <2>3, <2>4, <2>5, <2>6, <2>7, SlippedFinite
  <2> QED
    BY <2>1, <2>8 DEF SlipsByRemovals
<1>8. EndsAtTheEnd'
  BY <1>1 DEF EndsAtTheEnd
<1>9. QuietOffset'
  <2>1. changes' # << >>
    BY <1>1, AppendProperties DEF Typed
  <2> QED
    BY <2>1 DEF QuietOffset
<1> QED
  BY <1>4, <1>5, <1>7, <1>8, <1>9

\* A step that changes nothing preserves it.
LEMMA StutterKeeps == IInv /\ UNCHANGED vars => IInv'
<1> SUFFICES ASSUME IInv, UNCHANGED vars PROVE IInv'
  OBVIOUS
<1>1. /\ entries' = entries /\ stayed' = stayed /\ offset' = offset /\ ended' = ended
      /\ listed' = listed /\ changes' = changes
  BY DEF vars
<1>2. \A n, what : Before(n, what)' = Before(n, what) /\ Changed(what)' = Changed(what)
  BY <1>1 DEF Before, Changed
<1>3. \A n : Times(n)' = Times(n)
  BY <1>1 DEF Times
<1>4. Slipped' = Slipped
  BY <1>1, <1>3 DEF Slipped
<1>5. Typed' /\ EndsAtTheEnd' /\ QuietOffset'
  BY <1>1 DEF IInv, Typed, EndsAtTheEnd, QuietOffset
<1>6. Counted' /\ SlipsByRemovals'
  BY <1>1, <1>2, <1>3, <1>4 DEF IInv, Counted, SlipsByRemovals
<1> QED
  BY <1>5, <1>6 DEF IInv

\* The invariant holds throughout every listing.
LEMMA Inductive == Spec => []IInv
<1>1. IInv /\ [Next]_vars => IInv'
  BY RequestKeeps, AddKeeps, RemoveKeeps, StutterKeeps DEF Next
<1> QED
  BY InitHolds, <1>1, PTL DEF Spec

-----------------------------------------------------------------------------
(* The theorems.                                                           *)

\* While the directory stays as it is, the requests answer its entries in order,
\* none twice and none left out, and the listing ends after the last.
THEOREM QuietListingsAreExact == Spec => []QuietListingIsExact
<1>1. IInv => QuietListingIsExact
  <2> SUFFICES ASSUME IInv, changes = << >>
               PROVE  /\ Len(listed) <= Cardinality(entries)
                      /\ listed = Skip(entries, 0, Len(listed))
                      /\ ended => Len(listed) = Cardinality(entries)
    BY DEF QuietListingIsExact
  <2>1. /\ offset = Len(listed) /\ Len(listed) <= Cardinality(entries)
        /\ listed = Skip(entries, 0, Len(listed))
        /\ ended => Cardinality(entries) <= offset
    BY DEF IInv, QuietOffset, EndsAtTheEnd
  <2>2. Cardinality(entries) \in Nat /\ offset \in Nat
    BY EntriesFinite DEF IInv, Typed
  <2> QED
    BY <2>1, <2>2
<1> QED
  BY Inductive, <1>1, PTL

\* A listing of a directory that changes passes over, and answers again, no more
\* than the removals and the additions before an entry account for.
THEOREM ListingsErrByTheirChanges == Spec => []ListingErrsByItsChanges
<1>1. IInv => ListingErrsByItsChanges
  <2> SUFFICES ASSUME IInv PROVE ListingErrsByItsChanges
    OBVIOUS
  <2>1. /\ entries \in SUBSET Nat /\ IsFiniteSet(entries) /\ Cardinality(entries) \in Nat
        /\ stayed \in SUBSET Nat /\ stayed \subseteq entries /\ offset \in Nat
        /\ stayed \subseteq Names
    BY EntriesFinite DEF IInv, Typed
  <2>2. ASSUME NEW n, Passed(n) PROVE n \in Slipped
    <3>1. n \in stayed /\ Times(n) = 0 /\ (ended \/ Position(entries, n) <= offset)
      BY <2>2 DEF Passed
    <3>2. n \in Nat /\ Position(entries, n) \in Nat
          /\ Position(entries, n) <= Cardinality(entries)
      BY <2>1, <3>1, PositionType
    <3>3. ended => Cardinality(entries) <= offset
      BY DEF IInv, EndsAtTheEnd
    <3>4. Position(entries, n) <= offset
      BY <2>1, <3>1, <3>2, <3>3
    <3> QED
      BY <3>1, <3>4 DEF Slipped
  <2>3. \A n \in Names : Passed(n) => Before(n, "remove") # {}
    BY <2>2 DEF IInv, SlipsByRemovals
  <2>4. Cardinality({n \in Names : Passed(n)}) <= Cardinality(Changed("remove"))
    <3> DEFINE P == {n \in Names : Passed(n)}
    <3>1. P \subseteq Slipped
      BY <2>2
    <3> HIDE DEF P
    <3>2. /\ IsFiniteSet(Slipped) /\ Cardinality(Slipped) \in Nat
          /\ Cardinality(Changed("remove")) \in Nat
      BY SlippedFinite DEF IInv
    <3>3. IsFiniteSet(P) /\ Cardinality(P) <= Cardinality(Slipped)
      BY <3>1, <3>2, FS_Subset
    <3>4. Cardinality(P) \in Nat
      BY <3>3, FS_CardinalityType
    <3>5. Cardinality(Slipped) <= Cardinality(Changed("remove"))
      BY DEF IInv, SlipsByRemovals
    <3>6. Cardinality(P) <= Cardinality(Changed("remove"))
      BY <3>2, <3>3, <3>4, <3>5
    <3> QED
      BY <3>6 DEF P
  <2>5. ASSUME NEW n \in stayed PROVE Times(n) <= 1 + Cardinality(Before(n, "add"))
    <3>1. Times(n) <= Cardinality(Before(n, "add"))
                        + (IF Position(entries, n) <= offset THEN 1 ELSE 0)
      BY DEF IInv, Counted
    <3>2. Before(n, "add") \subseteq DOMAIN changes
      BY DEF Before, Changed
    <3>3. Cardinality(Before(n, "add")) \in Nat /\ Times(n) \in Nat
      BY <3>2, PlacesFinite, TimesType DEF IInv, Typed
    <3> QED
      BY <3>1, <3>3
  <2> QED
    BY <2>3, <2>4, <2>5 DEF ListingErrsByItsChanges
<1> QED
  BY Inductive, <1>1, PTL

=============================================================================
