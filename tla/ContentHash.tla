----------------------------- MODULE ContentHash -----------------------------
(***************************************************************************)
(* What daemon-old/src/content_hash.rs feeds to the hasher: for a value of *)
(* each type, the bytes that ContentHash::update writes.  A byte is a      *)
(* number below 256; blake3 itself is taken to be free of collisions, so   *)
(* two values have one hash exactly when these bytes are equal.            *)
(***************************************************************************)
EXTENDS Integers, Sequences, FiniteSets, SequencesExt

CONSTANTS
  LenBytes  \* the width of a length: 8 in the code

ASSUME LenBytesAssumption == LenBytes \in Nat \ {0}

\* to_le_bytes of an integer of the given width, in two's complement.
Weight[k \in Nat] == IF k = 0 THEN 1 ELSE 256 * Weight[k - 1]
LittleEndian(n, width) == [k \in 1..width |-> (n \div Weight[k - 1]) % 256]

\* The length that goes before the elements; and a faulty variant without it.
NoLength(n) == << >>
Length(n) == LittleEndian(n, LenBytes)

HashBool(b) == IF b THEN <<1>> ELSE <<0>>
HashU8(byte) == <<byte>>
HashInt(n, width) == LittleEndian(n, width)

\* What follows is given the bytes of the parts.  [T] and Vec<T>: the elements.
HashSlice(elements) == Length(Len(elements)) \o FlattenSeq(elements)

\* [u8], Vec<u8> and String.
HashBytes(s) == HashSlice([k \in DOMAIN s |-> HashU8(s[k])])

HashPair(first, second) == first \o second

\* An Option is a set with at most one element; and a faulty variant that
\* leaves out which it is.
Untagged(option) == FlattenSeq(SetToSeq(option))
HashOption(option) == <<Cardinality(option)>> \o Untagged(option)

\* HashMap and HashSet in the order of their keys, which BTreeMap has already.
\* A key is given by its place in the order of its type.
InOrder(places) == SetToSortSeq(places, <)

HashMap(keys, values) ==
  LET places == InOrder(DOMAIN keys)
  IN  HashSlice([k \in DOMAIN places |-> HashPair(keys[places[k]], values[places[k]])])

HashSet(keys) ==
  LET places == InOrder(DOMAIN keys)
  IN  HashSlice([k \in DOMAIN places |-> keys[places[k]]])

=============================================================================
