------------------------------ MODULE HashTypes ------------------------------
(***************************************************************************)
(* The encodings of ContentHash over bounded values of every type it is    *)
(* implemented for: Update[type][value] is what the hasher is fed.         *)
(***************************************************************************)
EXTENDS ContentHash

CONSTANTS
  Letters,   \* the bytes of strings
  MaxLen,    \* the longest string, and the longest vector
  Ints,      \* the values of integers
  IntBytes   \* their width: 4 and 8 in the code

UpTo(n, S) == UNION {[1..k -> S] : k \in 0..n}
Strings == UpTo(MaxLen, Letters)
Options(S) == {{}} \cup {{x} : x \in S}
MapsOf(K, V) == UNION {[keys -> V] : keys \in SUBSET K}

Update ==
  LET Number(n) == HashInt(n, IntBytes)
      EachString(f) == [x \in DOMAIN f |-> HashBytes(f[x])]
      EachKey(keys) == [x \in keys |-> HashU8(x)]
      OptionalInt(o) == HashOption({Number(n) : n \in o})
  IN  [ int        |-> [n \in Ints |-> Number(n)],
        bool       |-> [b \in BOOLEAN |-> HashBool(b)],
        string     |-> [s \in Strings |-> HashBytes(s)],
        pair       |-> [p \in Strings \X Strings |-> HashPair(HashBytes(p[1]), HashBytes(p[2]))],
        option     |-> [o \in Options(Strings) |-> HashOption({HashBytes(s) : s \in o})],
        vecOptions |-> [v \in UpTo(MaxLen, Options(Ints)) |->
                          HashSlice([k \in DOMAIN v |-> OptionalInt(v[k])])],
        vecStrings |-> [v \in UpTo(MaxLen, Strings) |-> HashSlice(EachString(v))],
        map        |-> [m \in MapsOf(Letters, Strings) |->
                          HashMap(EachKey(DOMAIN m), EachString(m))],
        set        |-> [s \in SUBSET Letters |-> HashSet(EachKey(s))] ]

-----------------------------------------------------------------------------
\* No two values of a type hash to the same bytes, and none to the beginning of
\* another's.  The second is what structs, pairs, vectors and maps count on,
\* which hash their fields and elements one after the other with nothing in
\* between: two of them differ whenever one field does.
HashesAreSelfDelimiting ==
  \A type \in DOMAIN Update : \A v, w \in DOMAIN Update[type] :
    v # w => ~IsPrefix(Update[type][v], Update[type][w])

=============================================================================
