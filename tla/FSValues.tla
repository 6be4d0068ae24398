------------------------------ MODULE FSValues ------------------------------
(***************************************************************************)
(* The values the working-copy filesystem is made of: inode attributes and *)
(* directory entries (mount_store.rs), file content (store.rs).            *)
(*                                                                         *)
(* An object id is modelled by the object it identifies (the hash of a     *)
(* file is its content): blake3 is taken to be free of collisions.         *)
(* Timestamps, xattrs, mode and owners are left out.  Every inode keeps    *)
(* the mode 0o777 of InodeAttributes::new (nothing sets another one), and  *)
(* with it check_access grants every request whatever the owner.           *)
(***************************************************************************)
EXTENDS Naturals, Sequences, FiniteSets, Maps

CONSTANT
  NoHash,    \* InodeAttributes.hash == None
  Zero       \* the byte 0, with which a write past the end pads the file

Kinds == {"File", "Directory", "Symlink"}
Root == 1                                   \* FUSE_ROOT_ID

\* An entry of a DirectoryDescriptor.
Entry(i, kind) == [inode |-> i, kind |-> kind]

NewAttrs(kind, hash, size) ==
  [ kind      |-> kind,
    hash      |-> hash,
    size      |-> size,
    open      |-> 0,                        \* open_file_handles
    hardlinks |-> IF kind = "Directory" THEN 2 ELSE 1 ]

Dots == {".", ".."}

\* entries.insert and entries.remove, each with its set_directory_content.
Link(dirs, d, name, e)  == [dirs EXCEPT ![d] = Put(@, name, e)]
Unlink(dirs, d, name)   == [dirs EXCEPT ![d] = Drop(@, name)]

Zeros(n) == [k \in 1..n |-> Zero]
Least(a, b) == IF a < b THEN a ELSE b

=============================================================================
