-------------------------------- MODULE FSOps -------------------------------
(***************************************************************************)
(* The pure functions the handlers of fs.rs apply to the state: updates of *)
(* the directories, the counters of an inode, and the byte arithmetic of   *)
(* read and write.                                                         *)
(***************************************************************************)
EXTENDS FSValues

-----------------------------------------------------------------------------
(* Faulty variants of the operators below, each a bug the handlers of      *)
(* fs.rs could plausibly have.  No specification uses them: replacing the  *)
(* operator named in a comment by its variant must make TLC find a         *)
(* property violated, which shows that the property depends on the code.   *)


\* InsertLink, without the early return of the EEXIST branch.
ClobberingInsertLink(dirs, parent, name, e) ==
  [ res  |-> IF name \in DOMAIN dirs[parent] THEN "EEXIST" ELSE "ok",
    dirs |-> Link(dirs, parent, name, e) ]

\* IsOccupied, with the limit of a directory whose "." and ".." do not count.
LaxIsOccupied(entries) == Cardinality(DOMAIN entries) > 3

\* WithDirectory, without the new directory's own content.
WithoutContent(dirs, parent, name, i) ==
  Link(dirs, parent, name, Entry(i, "Directory"))

\* Moved, without the removal of the old entry.
CopiedNotMoved(dirs, parent, name, newParent, newName) ==
  LET e == dirs[parent][name]
      step == Link(dirs, newParent, newName, e)
  IN  IF e.kind = "Directory"
        THEN Link(step, e.inode, "..", Entry(newParent, "Directory"))
        ELSE step

\* Moved, without the update of the moved directory's "..".
MovedKeepingDotDot(dirs, parent, name, newParent, newName) ==
  Link(Unlink(dirs, parent, name), newParent, newName, dirs[parent][name])

\* DecHardlinks, forgotten; and applied twice.
KeepHardlinks(attrs) == attrs
DecHardlinksTwice(attrs) == [attrs EXCEPT !.hardlinks = @ - 2]

\* IncHandle, lost because the clone is not written back.
IncHandleLost(attrs) == attrs

\* DecHandle, without the check for 0 and for both open modes.
DecHandleTwice(attrs) == [attrs EXCEPT !.open = @ - 2]

\* CursorWrite, with the data appended at the end whatever the offset; and
\* with what follows the data cut off.
AppendingWrite(content, offset, data) == content \o data
TruncatingWrite(content, offset, data) ==
  (IF Len(content) < offset THEN content \o Zeros(offset - Len(content))
                            ELSE SubSeq(content, 1, offset)) \o data

\* GrownSize, set to the end of the write even inside the file.
EndOfWrite(attrs, offset, data) == offset + Len(data)

\* InsertFile, collecting the object the file had before.
CollectingInsertFile(stored, old, new) == (stored \ {old}) \cup {new}

\* TreeEntry, with the inode allocated for the entry before.
PreviousEntry(t, base, k, name) ==
  LET c == CHOOSE c \in DOMAIN t : t[c].parent = k /\ t[c].name = name
  IN  Entry(base + c - 1, t[c].kind)

\* TreeDot, with the root's number in every directory.
RootDot(base, k) == Entry(Root, "Directory")

\* AfterTree, with the burnt inode forgotten.
UnburntAfterTree(base, t) == base + Len(t)

\* TreeSize, taken from a new file.
EmptyTreeSize(hash) == 0

-----------------------------------------------------------------------------
(* Updates of the directories.                                             *)

\* The two entries mkdir gives a new directory.
NewDirectory(i, parent) ==
  [n \in Dots |-> Entry(IF n = "." THEN i ELSE parent, "Directory")]

\* insert_link: an existing name is refused before anything is written.
InsertLink(dirs, parent, name, e) ==
  IF name \in DOMAIN dirs[parent]
    THEN [res |-> "EEXIST", dirs |-> dirs]
    ELSE [res |-> "ok", dirs |-> Link(dirs, parent, name, e)]

\* rename's test for a directory that may not be replaced: len() > 2.
IsOccupied(entries) == Cardinality(DOMAIN entries) > 2

\* mkdir: the entry in the parent, then the new directory's own content.
WithDirectory(dirs, parent, name, i) ==
  Put(Link(dirs, parent, name, Entry(i, "Directory")), i, NewDirectory(i, parent))

\* rename, once the target is out of the way: the entry leaves the old
\* directory, enters the new one, and a moved directory gets a new "..".
Moved(dirs, parent, name, newParent, newName) ==
  LET e    == dirs[parent][name]
      step == Link(Unlink(dirs, parent, name), newParent, newName, e)
  IN  IF e.kind = "Directory"
        THEN Link(step, e.inode, "..", Entry(newParent, "Directory"))
        ELSE step

-----------------------------------------------------------------------------
(* Counters of an inode.                                                   *)

IncHandle(attrs) == [attrs EXCEPT !.open = @ + 1]

\* dec_file_handle: logs an error and stops at 0.
DecHandle(attrs) ==
  IF attrs.open = 0 THEN attrs ELSE [attrs EXCEPT !.open = @ - 1]

DecHardlinks(attrs) == [attrs EXCEPT !.hardlinks = @ - 1]

-----------------------------------------------------------------------------
(* File content.                                                           *)

\* write: File::default() when the inode has no hash yet.
ContentOf(attrs) == IF attrs.hash = NoHash THEN << >> ELSE attrs.hash

\* write: a Cursor over the content, positioned and then written through.
CursorWrite(content, offset, data) ==
  LET padded == IF Len(content) < offset
                  THEN content \o Zeros(offset - Len(content)) ELSE content
  IN  SubSeq(padded, 1, offset) \o data
        \o SubSeq(padded, offset + Len(data) + 1, Len(padded))

\* write: attrs.size only ever grows.
GrownSize(attrs, offset, data) ==
  IF offset + Len(data) > attrs.size THEN offset + Len(data) ELSE attrs.size

\* files.insert: "there is no GC mechanism right now", old stays.
InsertFile(stored, old, new) == stored \cup {new}

\* read: how many bytes the reply holds, saturating_sub at the end of file.
ReadSize(content, offset, size) ==
  Least(size, IF offset > Len(content) THEN 0 ELSE Len(content) - offset)

\* read: &mut buffer[offset..] panics when offset is beyond the buffer, whose
\* length is ReadSize; otherwise that part of it is filled from the START of
\* the file (nothing seeks the cursor) and the rest keeps its zeros.
ReadPanics(content, offset, size) == offset > ReadSize(content, offset, size)
ReadBuffer(content, offset, size) ==
  Zeros(offset) \o SubSeq(content, 1, ReadSize(content, offset, size) - offset)

-----------------------------------------------------------------------------
(* insert_tree numbers the entries of a tree in preorder from the inode    *)
(* base that set_root_tree burnt; the root keeps its number.  A tree is    *)
(* the sequence of its entries, each with the index of its directory (0    *)
(* for the root), its name, its kind and the object it refers to.          *)

TreeInode(base, k) == IF k = 0 THEN Root ELSE base + k
AfterTree(base, t) == base + Len(t) + 1
TreeSize(hash) == Len(hash)

TreeNodes(t, base) ==
  [i \in {TreeInode(base, k) : k \in 0..Len(t)} |->
     IF i = Root \/ t[i - base].kind = "Directory"
       THEN NewAttrs("Directory", NoHash, 0)
       ELSE NewAttrs(t[i - base].kind, t[i - base].hash, TreeSize(t[i - base].hash))]

TreeDot(base, k) == Entry(TreeInode(base, k), "Directory")

\* The entry made for name in the directory that is the k-th entry.
TreeEntry(t, base, k, name) ==
  LET c == CHOOSE c \in DOMAIN t : t[c].parent = k /\ t[c].name = name
  IN  Entry(base + c, t[c].kind)

TreeContent(t, base, k) ==
  [n \in {"."} \cup {t[c].name : c \in {c \in DOMAIN t : t[c].parent = k}} |->
     IF n = "." THEN TreeDot(base, k) ELSE TreeEntry(t, base, k, n)]

TreeDirectories(t, base) ==
  [i \in {TreeInode(base, k) : k \in {0} \cup {k \in DOMAIN t : t[k].kind = "Directory"}} |->
     TreeContent(t, base, IF i = Root THEN 0 ELSE i - base)]

=============================================================================
