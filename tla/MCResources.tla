----------------------------- MODULE MCResources -----------------------------
(***************************************************************************)
(* What processes take from the kernel and give back: open files, disk     *)
(* blocks of files, pages of memory.  The three are kept apart by their    *)
(* locks: a behaviour exercises one of them, chosen in the initial state.  *)
(***************************************************************************)
EXTENDS Files, Vm

CONSTANTS
  p1, p2, Parts,
  DataInodes, Opens, Ino, NBLOCKS, BSIZE, NDIRECT, NINDIRECT, BPB, MAXOPBLOCKS, Counts

\* A file of each of two inodes.
InoOf == <<1, 2>>
\* sbrk by parts of a page and by more than one.
Shrink == {1, 3, -1, -3}

VARIABLES
  bitmap, data, entry, inode, dinode, off, wpc, f, left, at, end, logged

dataVars == <<bitmap, data, entry, inode, dinode, off, wpc, f, left, at, end, logged>>
vars == <<part, fileVars, dataVars, memVars>>

Da == INSTANCE FileData WITH Inodes <- DataInodes, pc <- wpc

ASSUME FileDataAssumption == Da!FileDataConstants

Init == part \in Parts /\ FilesInit /\ Da!Init /\ VmInit

Next ==
  \/ part = "files" /\ FilesNext /\ UNCHANGED <<part, dataVars, memVars>>
  \/ part = "data" /\ Da!Next /\ UNCHANGED <<part, fileVars, memVars>>
  \/ part = "memory" /\ VmNext /\ UNCHANGED <<part, fileVars, dataVars>>

Spec == Init /\ [][Next]_vars

-----------------------------------------------------------------------------
(* The properties of files' data; those of open files and of memory are in *)
(* modules Files and Vm.                                                   *)

(* Disk blocks (balloc, bfree, bmap, itrunc): each one in use belongs to   *)
(* one file, in one place.                                                 *)
BlocksOwned == part = "data" => Da!TypeOK /\ Da!BlocksOwned
(* File contents (readi, writei): what was written is read back, and the   *)
(* inode is on disk whenever it is not locked, although writei calls       *)
(* iupdate only if the file has grown.                                     *)
ContentsSound == part = "data" => Da!ReadsBack /\ Da!MetadataSaved
(* A round of filewrite's loop logs no more than MAXOPBLOCKS blocks        *)
(* (file.c:127-133).                                                       *)
WriteFits == part = "data" => Da!WriteFits

(* panic is out of reach, but for a disk that is full (fs.c:91). *)
NeverPanics == part = "data" => Da!OnlyFullDiskPanics
=============================================================================
