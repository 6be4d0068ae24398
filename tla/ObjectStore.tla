----------------------------- MODULE ObjectStore -----------------------------
(***************************************************************************)
(* What becomes of an object between jj and the tables of Store: the       *)
(* conversions of cli/src/backend.rs and daemon-old/src/store.rs, the ids  *)
(* of the gRPC handlers and those of Store, which the mounts use.          *)
(*                                                                         *)
(*   jj's object  --to_proto-->  message  --into-->  object of a table     *)
(*                <-from_proto--          <-as_proto-                      *)
(*                                                                         *)
(* Files and symlinks have one id when jj writes them (the hash of the     *)
(* protobuf message) and another when a mount does (ContentHash), in one   *)
(* table.  An id is the bytes that are hashed.  Ids inside trees and       *)
(* commits are short strings of bytes.                                     *)
(*                                                                         *)
(* How the handlers interleave is in DaemonService; here each is a step.   *)
(***************************************************************************)
EXTENDS ContentHash

CONSTANTS
  JjFiles, JjSymlinks, JjTrees, JjCommits, \* what jj may write
  MountFiles, MountSymlinks,               \* what mounts may write
  WireInt,                                 \* one more than the largest varint: 2^64
  MaxObjects                               \* bound on the objects in the tables

ASSUME BoundsAssumption == WireInt \in Nat \ {0} /\ MaxObjects \in Nat

\* jj's objects.  An integer fits in the two's complement of a varint, and a
\* legacy commit has one tree, which no conversion relies on.
Bytes == Seq(Nat)
Wire == {n \in Int : -WireInt <= 2 * n /\ 2 * n < WireInt}
TreeValues ==
  [kind : {"File"}, id : Bytes, executable : BOOLEAN] \cup
  [kind : {"Symlink", "Tree", "Conflict", "GitSubmodule"}, id : Bytes]
Trees == Seq([name : Bytes, value : TreeValues])
Signatures ==
  [name : Bytes, email : Bytes, timestamp : [millis_since_epoch : Wire, tz_offset : Wire]]
Commits ==
  [ parents : Seq(Bytes), predecessors : Seq(Bytes),
    root_tree : [kind : {"Legacy", "Merge"}, terms : Seq(Bytes)],
    change_id : Bytes, description : Bytes,
    author : Signatures, committer : Signatures, secure_sig : BOOLEAN ]

ASSUME ObjectsAssumption ==
  /\ JjFiles \cup JjSymlinks \cup MountFiles \cup MountSymlinks \subseteq Bytes
  /\ JjTrees \subseteq Trees /\ JjCommits \subseteq Commits

\* A Vec or a String of Rust is no longer than isize::MAX, half of what a
\* length can count, which has more than a byte.
Short(s) == Len(s) < 128 * Weight[LenBytes - 1]

ASSUME LengthsAssumption ==
  /\ LenBytes > 1
  /\ \A s \in MountFiles \cup MountSymlinks : Short(s)
  /\ \A tree \in JjTrees :
       Short(tree) /\ \A k \in DOMAIN tree : Short(tree[k].name) /\ Short(tree[k].value.id)

VARIABLES
  tables,         \* files, symlinks, trees and commits: from ids to objects
  trees_poisoned, \* whether a panic has poisoned the mutex of trees
  written,        \* what jj wrote, as <<table, id, object>>
  reply           \* what the last call of jj's backend returned

vars == <<tables, trees_poisoned, written, reply>>

Names == {"files", "symlinks", "trees", "commits"}
Put(map, key, value) == [k \in DOMAIN map \cup {key} |-> IF k = key THEN value ELSE map[k]]
Renamed(value, names) == [value EXCEPT !.kind = names[@]]
InverseOf(names) == [n \in {names[k] : k \in DOMAIN names} |->
                       CHOOSE k \in DOMAIN names : names[k] = n]

-----------------------------------------------------------------------------
(* prost: a field is its number and wire type, then its value; bytes and   *)
(* messages have their length before them, and a field that holds the      *)
(* default of its type is left out.                                        *)

Varint[n \in Nat] ==
  IF n < 128 THEN <<n>> ELSE <<128 + (n % 128)>> \o Varint[n \div 128]

MessageField(number, bytes) == <<8 * number + 2>> \o Varint[Len(bytes)] \o bytes
RepeatedField(number, items) ==
  FlattenSeq([k \in DOMAIN items |-> MessageField(number, items[k])])
BytesField(number, bytes) == IF bytes = << >> THEN << >> ELSE MessageField(number, bytes)
IntField(number, n) == IF n = 0 THEN << >> ELSE <<8 * number>> \o Varint[n % WireInt]

EncodeFile(data) == BytesField(1, data)
EncodeSymlink(target) == BytesField(1, target)

EncodeTimestamp(timestamp) ==
  IntField(1, timestamp.millis_since_epoch) \o IntField(2, timestamp.tz_offset)

EncodeSignature(sig) ==
  BytesField(1, sig.name) \o BytesField(2, sig.email) \o
  MessageField(3, EncodeTimestamp(sig.timestamp))

EncodeCommit(commit) ==
  RepeatedField(1, commit.parents) \o RepeatedField(2, commit.predecessors) \o
  RepeatedField(3, commit.root_tree) \o BytesField(4, commit.change_id) \o
  BytesField(5, commit.description) \o
  MessageField(6, EncodeSignature(commit.author)) \o
  MessageField(7, EncodeSignature(commit.committer)) \o
  IntField(8, IF commit.uses_tree_conflict_format THEN 1 ELSE 0)

-----------------------------------------------------------------------------
(* Files and symlinks.  zstd frames what jj writes.                        *)

Magic == <<40, 181, 47, 253>>
Compressed(content) == Magic \o content
Decompressed(data) == SubSeq(data, Len(Magic) + 1, Len(data))

(* Trees: a sequence of named entries, in the order of the names.          *)

ProtoCase == [File |-> "file", Symlink |-> "symlink_id", Tree |-> "tree_id",
              Conflict |-> "conflict_id"]
EntryCase == [file |-> "File", symlink_id |-> "SymlinkId", tree_id |-> "TreeId",
              conflict_id |-> "ConflictId"]

WithKinds(tree, names) ==
  [k \in DOMAIN tree |-> [tree[k] EXCEPT !.value = Renamed(@, names)]]
HasKind(tree, kinds) == \E k \in DOMAIN tree : tree[k].value.kind \in kinds

TreeToProto(tree)   == WithKinds(tree, ProtoCase)
TreeFromProto(tree) == WithKinds(tree, InverseOf(ProtoCase))
TreeInto(proto)     == WithKinds(proto, EntryCase)
TreeAsProto(tree)   == WithKinds(tree, InverseOf(EntryCase))

CannotEncode(tree) == HasKind(tree, {"GitSubmodule"})
CannotHash(tree)   == HasKind(tree, {"ConflictId"})
CannotReturn(tree) == HasKind(tree, {"TreeId", "SymlinkId", "ConflictId"})

Tag == [File |-> <<48>>, TreeId |-> <<49>>, SymlinkId |-> <<50>>]

HashTreeEntry(value) ==
  Tag[value.kind] \o HashBytes(value.id) \o
  (IF value.kind = "File" THEN HashBool(value.executable) ELSE << >>)

\* (And a faulty variant that hashes names without their length.)
HashTreeOfBareNames(tree) ==
  HashSlice([k \in DOMAIN tree |->
    HashPair(tree[k].name, HashTreeEntry(tree[k].value))])
HashTree(tree) ==
  HashSlice([k \in DOMAIN tree |->
    HashPair(HashBytes(tree[k].name), HashTreeEntry(tree[k].value))])

EmptyTree == << >>
EmptyTreeId == HashTree(EmptyTree)

(* Commits.  jj's root_tree is one id (Legacy) or a sum of several (Merge), *)
(* which may have a single term.                                            *)

\* (And a faulty variant that looks at the number of terms for the format.)
FlagOfTerms(root_tree) == Len(root_tree.terms) > 1
ConflictFormat(root_tree) == root_tree.kind = "Merge"

CommitToProto(commit) ==
  [ parents |-> commit.parents, predecessors |-> commit.predecessors,
    root_tree |-> commit.root_tree.terms,
    uses_tree_conflict_format |-> ConflictFormat(commit.root_tree),
    change_id |-> commit.change_id, description |-> commit.description,
    author |-> commit.author, committer |-> commit.committer ]

CommitFromProto(proto) ==
  [ parents |-> proto.parents, predecessors |-> proto.predecessors,
    root_tree |-> [kind |-> IF proto.uses_tree_conflict_format THEN "Merge" ELSE "Legacy",
                   terms |-> proto.root_tree],
    change_id |-> proto.change_id, description |-> proto.description,
    author |-> proto.author, committer |-> proto.committer,
    secure_sig |-> FALSE ]

\* The root commit is made up by jj.
NoSignature == [name |-> << >>, email |-> << >>,
                timestamp |-> [millis_since_epoch |-> 0, tz_offset |-> 0]]
RootCommitId == <<0>>
RootCommit ==
  [ parents |-> << >>, predecessors |-> << >>,
    root_tree |-> [kind |-> "Legacy", terms |-> <<EmptyTreeId>>],
    change_id |-> <<0>>, description |-> << >>,
    author |-> NoSignature, committer |-> NoSignature, secure_sig |-> FALSE ]

NoParents(commit) == commit.parents = << >>
CannotSave(commit) == commit.secure_sig
CannotLoad(proto) == ~proto.uses_tree_conflict_format /\ Len(proto.root_tree) # 1

-----------------------------------------------------------------------------
(* CultivateBackend: every call goes through the daemon and back.          *)

Returns(result) == reply' = result
Fails(res) == Returns([res |-> res]) /\ UNCHANGED <<tables, written>>
Count == Cardinality(UNION {{<<name, id>> : id \in DOMAIN tables[name]} : name \in Names})

Insert(table, id, object) ==
  /\ id \in DOMAIN tables[table] \/ Count < MaxObjects
  /\ tables' = [tables EXCEPT ![table] = Put(@, id, object)]

JjWrites(table, id, stored, object) ==
  /\ Insert(table, id, stored)
  /\ written' = written \cup {<<table, id, object>>}
  /\ Returns([res |-> "id", table |-> table, id |-> id])

JjReads(table, id, object) ==
  /\ Returns([res |-> "object", table |-> table, id |-> id, object |-> object])
  /\ UNCHANGED <<tables, written>>

WriteFile(content) ==
  LET data == Compressed(content)
  IN  JjWrites("files", EncodeFile(data), data, content) /\ UNCHANGED trees_poisoned

ReadFile(id) ==
  JjReads("files", id, Decompressed(tables["files"][id])) /\ UNCHANGED trees_poisoned

WriteSymlink(target) ==
  JjWrites("symlinks", EncodeSymlink(target), target, target) /\ UNCHANGED trees_poisoned

ReadSymlink(id) ==
  JjReads("symlinks", id, tables["symlinks"][id]) /\ UNCHANGED trees_poisoned

\* A git submodule panics in jj, a conflict in the daemon, with the mutex locked.
WriteTree(tree) ==
  LET object == TreeInto(TreeToProto(tree))
  IN  \/ CannotEncode(tree) /\ Fails("panic") /\ UNCHANGED trees_poisoned
      \/ /\ ~CannotEncode(tree)
         /\ CannotHash(object) \/ trees_poisoned
         /\ Fails("panic") /\ trees_poisoned' = TRUE
      \/ /\ ~CannotEncode(tree) /\ ~CannotHash(object) /\ ~trees_poisoned
         /\ JjWrites("trees", HashTree(object), object, tree)
         /\ UNCHANGED trees_poisoned

\* The tree has left the table when as_proto panics.
ReadTree(id) ==
  LET object  == tables["trees"][id]
      returns == ~trees_poisoned /\ ~CannotReturn(object)
  IN  /\ \/ ~returns /\ Fails("panic")
         \/ returns /\ JjReads("trees", id, TreeFromProto(TreeAsProto(object)))
      /\ UNCHANGED trees_poisoned

WriteCommit(commit) ==
  LET proto == CommitToProto(commit)
  IN  /\ \/ CannotSave(commit) /\ Fails("panic")
         \/ ~CannotSave(commit) /\ NoParents(commit) /\ Fails("error")
         \/ /\ ~CannotSave(commit) /\ ~NoParents(commit)
            /\ JjWrites("commits", EncodeCommit(proto), proto, commit)
      /\ UNCHANGED trees_poisoned

ReadCommit(id) ==
  LET proto == tables["commits"][id]
  IN  /\ IF CannotLoad(proto) THEN Fails("panic")
         ELSE JjReads("commits", id, CommitFromProto(proto))
      /\ UNCHANGED trees_poisoned

ReadRootCommit == JjReads("commits", RootCommitId, RootCommit) /\ UNCHANGED trees_poisoned

(* Store, as the mounts use it.                                            *)

StoreFile(content) ==
  /\ Insert("files", HashBytes(content), content)
  /\ UNCHANGED <<trees_poisoned, written, reply>>

StoreSymlink(target) ==
  /\ Insert("symlinks", HashBytes(target), target)
  /\ UNCHANGED <<trees_poisoned, written, reply>>

-----------------------------------------------------------------------------
NoObjects == [id \in {} |-> id]

\* Store::new; and a faulty variant that forgets the tree of the root commit,
\* which jj never writes but counts on.
NoTrees == NoObjects
FirstTrees == Put(NoObjects, EmptyTreeId, EmptyTree)

Init ==
  /\ tables = [name \in Names |-> IF name = "trees" THEN FirstTrees ELSE NoObjects]
  /\ trees_poisoned = FALSE
  /\ written = {<<"trees", EmptyTreeId, EmptyTree>>}  \* given to jj with the root commit
  /\ reply = [res |-> "none"]

Given(table) == {w[2] : w \in {w \in written : w[1] = table}}

Next ==
  \/ \E content \in JjFiles : WriteFile(content)
  \/ \E target \in JjSymlinks : WriteSymlink(target)
  \/ \E tree \in JjTrees : WriteTree(tree)
  \/ \E commit \in JjCommits : WriteCommit(commit)
  \/ \E id \in Given("files") : ReadFile(id)
  \/ \E id \in Given("symlinks") : ReadSymlink(id)
  \/ \E id \in Given("trees") : ReadTree(id)
  \/ \E id \in Given("commits") : ReadCommit(id)
  \/ ReadRootCommit
  \/ \E content \in MountFiles : StoreFile(content)
  \/ \E target \in MountSymlinks : StoreSymlink(target)

Spec == Init /\ [][Next]_vars

-----------------------------------------------------------------------------
\* An id stands for one object for ever: no write of jj's or of a mount's puts
\* another object under an id that is taken, although the ids of one table
\* come from two encodings, and those of trees and commits from the bytes of
\* many fields in a row.
ObjectsAreImmutable ==
  [][ \A name \in Names : \A id \in DOMAIN tables[name] :
        id \in DOMAIN tables'[name] /\ tables'[name][id] = tables[name][id] ]_vars

\* What jj reads is what it wrote, field by field, whatever else was written:
\* the conversions lose nothing (a commit whose tree is a sum of one term comes
\* back as one), and what they cannot carry panics instead.  And there is
\* something to read: every id jj was given, and that of the root commit's tree,
\* is in the tables for the life of a daemon.
JjReadsWhatItWrote ==
  /\ \A w \in written : w[2] \in DOMAIN tables[w[1]]
  /\ reply.res = "object" =>
       \A w \in written :
         w[1] = reply.table /\ w[2] = reply.id => w[3] = reply.object

=============================================================================
