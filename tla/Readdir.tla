------------------------------ MODULE Readdir -------------------------------
(***************************************************************************)
(* Listing a directory while it changes (CultivateFS::readdir).  A program *)
(* lists a directory by several readdir requests; each answers as many     *)
(* entries as fit, and the next resumes at the offset of the last one.     *)
(* The offset is a position in the sorted map of that moment, and between  *)
(* two requests any other handler may add or remove an entry.              *)
(*                                                                         *)
(* Names are numbers, in the order in which BTreeMap keeps them.           *)
(***************************************************************************)
EXTENDS Naturals, Sequences, FiniteSets

CONSTANTS
  Names,       \* the names that may be in the directory
  Fixed,       \* those that are never removed: "." and ".."
  MaxFit,      \* how many entries fit in a reply, at most
  MaxChanges   \* bound on the changes during a listing

ASSUME NamesAssumption == Names \subseteq Nat /\ IsFiniteSet(Names) /\ Fixed \subseteq Names
ASSUME BoundsAssumption == MaxFit \in Nat \ {0} /\ MaxChanges \in Nat

VARIABLES
  entries,     \* the names in the directory
  offset,      \* the offset the next request carries, as the kernel keeps it
  listed,      \* the names answered so far, in the order of the answers
  ended,       \* whether an answer was empty, which ends the listing
  stayed,      \* the names in the directory ever since the listing began
  changes      \* what was added and removed since then, in order

vars == <<entries, offset, listed, ended, stayed, changes>>

\* The position of a name, counted from 1, and the name at a position.
Position(S, n) == Cardinality({m \in S : m <= n})
AtPosition(S, k) == CHOOSE n \in S : Position(S, n) = k

\* The first count of entries.iter().skip(start).
Skip(S, start, count) == [k \in 1..count |-> AtPosition(S, start + k)]

-----------------------------------------------------------------------------
\* The offset that goes with the last entry of a reply; and faulty variants
\* that count from the start of the reply, and the entry that did not fit.
OffsetInReply(start, count) == count
OffsetOfUnsent(start, count) == start + count + 1
OffsetOfLast(start, count) == start + count

\* How many of the entries a reply that begins at start may hold.  The kernel's
\* buffer has room for one at least; reply.add refuses the first that does not
\* fit; skip goes past the end without harm.  And a faulty variant that slices
\* the entries, and panics beyond their end.
FitsOfSlice(size, start) ==
  IF start = size THEN {0} ELSE {n \in 1..MaxFit : start + n <= size}
Fits(size, start) ==
  IF start >= size THEN {0} ELSE {n \in 1..MaxFit : start + n <= size}

ReaddirRequest ==
  /\ ~ended
  /\ \E count \in Fits(Cardinality(entries), offset) :
       /\ listed' = listed \o Skip(entries, offset, count)
       /\ offset' = IF count = 0 THEN offset ELSE OffsetOfLast(offset, count)
       /\ ended' = (count = 0)
  /\ UNCHANGED <<entries, stayed, changes>>

\* What the handlers that change a directory do to it: mknod, mkdir, symlink
\* and a rename from elsewhere add a name, a rename to elsewhere removes one,
\* and a rename inside the directory does one after the other.
Add(n) ==
  /\ ~ended /\ Len(changes) < MaxChanges
  /\ n \notin entries
  /\ entries' = entries \cup {n}
  /\ changes' = Append(changes, [what |-> "add", name |-> n])
  /\ UNCHANGED <<offset, listed, ended, stayed>>

Remove(n) ==
  /\ ~ended /\ Len(changes) < MaxChanges
  /\ n \in entries \ Fixed
  /\ entries' = entries \ {n}
  /\ stayed' = stayed \ {n}
  /\ changes' = Append(changes, [what |-> "remove", name |-> n])
  /\ UNCHANGED <<offset, listed, ended>>

\* A listing may begin in any state of the directory, at offset 0.
Init ==
  /\ entries \in {S \in SUBSET Names : Fixed \subseteq S}
  /\ offset = 0
  /\ listed = << >>
  /\ ended = FALSE
  /\ stayed = entries
  /\ changes = << >>

Next == ReaddirRequest \/ \E n \in Names : Add(n) \/ Remove(n)

\* A program that lists a directory asks until an answer is empty.
Spec == Init /\ [][Next]_vars /\ WF_vars(ReaddirRequest)

-----------------------------------------------------------------------------
Times(n) == Cardinality({k \in DOMAIN listed : listed[k] = n})
Changed(what) == {k \in DOMAIN changes : changes[k].what = what}

\* While nothing changes, the requests answer the directory in order, nothing
\* twice and nothing left out, however the entries fall into replies.
QuietListingIsExact ==
  changes = << >> =>
    /\ Len(listed) <= Cardinality(entries)
    /\ listed = Skip(entries, 0, Len(listed))
    /\ ended => Len(listed) = Cardinality(entries)

\* A listing is wrong by no more than what happens to it.  An entry that is in
\* the directory all the time is passed over only because an entry before it was
\* removed, and is answered twice only because one before it was added; a removal
\* hides one entry at most, and an addition makes one answer too many at most.
Passed(n) == n \in stayed /\ Times(n) = 0 /\ (ended \/ Position(entries, n) <= offset)
Before(n, what) == {k \in Changed(what) : changes[k].name < n}
ListingErrsByItsChanges ==
  /\ \A n \in Names : Passed(n) => Before(n, "remove") # {}
  /\ Cardinality({n \in Names : Passed(n)}) <= Cardinality(Changed("remove"))
  /\ \A n \in stayed : Times(n) <= 1 + Cardinality(Before(n, "add"))

\* A listing ends although the directory changes: every reply that is not
\* empty moves the offset on, and an offset beyond the end has an empty one.
ListingEnds == <>ended

=============================================================================
