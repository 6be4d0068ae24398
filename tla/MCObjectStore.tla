---------------------------- MODULE MCObjectStore ----------------------------
(* The instances of ObjectStore and HashTypes that TLC checks: objects     *)
(* whose encodings are as close as the formats allow.                      *)
EXTENDS ObjectStore, HashTypes

\* For HashTypes; 0 and 1 are also what tags and lengths are made of.
ZeroAndOne == {0, 1}
FourInts == {-1, 0, 1, 256}

\* HashTypes has no state: TLC evaluates its property before it begins.
ASSUME HashesAssumption == HashesAreSelfDelimiting

a == 97
Text == <<a>>

TwoFiles == {<< >>, Text}
TwoTargets == {Text, <<a, a>>}

\* What the protobuf message of an object of jj's looks like to a mount.
LookalikeFiles == {<< >>, Text, EncodeFile(Compressed(Text))}
LookalikeTargets == {Text, EncodeSymlink(Text)}

File(executable) == [kind |-> "File", id |-> <<7>>, executable |-> executable]
Other(kind) == [kind |-> kind, id |-> <<7>>]
Named(name, value) == [name |-> name, value |-> value]

\* Two pairs of names that spell the same around the bytes of a file's entry.
EntryBytes == HashTreeEntry(File(TRUE))
Pair(m, n) == <<Named(m, File(TRUE)), Named(n, File(TRUE))>>

SomeTrees ==
  { EmptyTree,
    <<Named(<<a>>, File(FALSE))>>, <<Named(<<a>>, File(TRUE))>>,
    Pair(<<a>>, <<98>> \o EntryBytes \o <<99>>),
    Pair(<<a>> \o EntryBytes \o <<98>>, <<99>>) }
  \cup {<<Named(<<a>>, Other(kind))>> : kind \in {"Symlink", "Tree", "Conflict", "GitSubmodule"}}

Commit ==
  [RootCommit EXCEPT !.parents = <<RootCommitId>>, !.root_tree.terms = <<<<7>>>>]

SomeCommits ==
  { RootCommit, Commit,
    [Commit EXCEPT !.root_tree.kind = "Merge"],
    [Commit EXCEPT !.root_tree = [kind |-> "Merge", terms |-> <<<<7>>, <<8>>, <<9>>>>]],
    [Commit EXCEPT !.predecessors = <<<<7>>>>],
    [Commit EXCEPT !.parents = <<<<0>>, <<7>>>>],
    [Commit EXCEPT !.description = Text],
    [Commit EXCEPT !.author.name = Text],
    [Commit EXCEPT !.author.email = Text],
    [Commit EXCEPT !.committer.name = Text],
    [Commit EXCEPT !.author.timestamp.millis_since_epoch = 300],
    [Commit EXCEPT !.author.timestamp.tz_offset = -1],
    [Commit EXCEPT !.secure_sig = TRUE] }

=============================================================================
