------------------------------- MODULE MCDirs -------------------------------
(* One or two processes, and few inodes and names. *)
EXTENDS Dirs, TLC

CONSTANTS p1, p2

Symm == Permutations({p1, p2})

(* Reference counts are exact, and neither a pointer in memory nor a       *)
(* directory entry ever names a free inode (iget, iput, sys_unlink).       *)
PointersSound == TypeOK /\ RefsExact /\ InUseIsAllocated /\ EntriesAllocated

(* Between calls the directories are a tree whose link counts are right,   *)
(* and an inode that has lost its last link and pointer is free.           *)
TreeSound == LinkCounts /\ OneParent /\ LastPutFrees

Load(procs, inodes, ops, paths) ==
  [procs |-> procs, inodes |-> inodes, ops |-> ops, paths |-> paths]

Flat == {<<"a">>, <<"b">>}
Deep == {<<"a">>, <<"a", "a">>}
Dotted == {<<"a">>, <<"a", "a">>, <<"..">>, <<"..", "a">>, <<>>}
Upward == {<<"a">>, <<"..">>, <<"..", "a">>}

(* Two processes in one flat directory; two that make and remove a         *)
(* directory and what is in it; two that move about in growing trees; one  *)
(* that does everything on two levels; one that removes the directory it   *)
(* is in.                                                                  *)
MCWorkloads ==
  {Load({p1, p2}, 3, {"create", "open", "close", "link", "unlink"}, Flat),
   Load({p1, p2}, 3, {"create", "mkdir", "open", "close", "unlink"}, Deep),
   Load({p1, p2}, 3, {"mkdir", "chdir"}, Upward)}
  \cup {Load({p}, 4, {"create", "mkdir", "mknod", "open", "close", "link", "unlink"}, Deep) : p \in Procs}
  \cup {Load({p}, 3, {"create", "mkdir", "open", "close", "unlink", "chdir"}, Dotted) : p \in Procs}

(* Two processes create and remove one name. *)
CreateAndUnlink == {Load({p1, p2}, 2, {"create", "unlink"}, {<<"a">>})}
=============================================================================
