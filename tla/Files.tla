-------------------------------- MODULE Files --------------------------------
(***************************************************************************)
(* Open files: the descriptors of the processes, the table of struct file  *)
(* they share (file.c), and the inodes and pipe ends behind them.          *)
(*                                                                         *)
(* A step is one critical section of ftable.lock with what the process     *)
(* does alone around it.  Objects is the set of inodes that sys_open may   *)
(* find; a pipe has the objects <<k, "r">> and <<k, "w">>.                 *)
(***************************************************************************)
EXTENDS Resources, Integers, Sequences, FiniteSets, FiniteSetsExt

CONSTANTS NFILE, NOFILE,
          Inodes,
          NPIPE           \* bound: pipes in memory, kalloc's free pages

FilesConstants ==
  /\ NFILE \in Nat \ {0} /\ NOFILE \in Nat \ {0} /\ NPIPE \in Nat
  /\ IsFiniteSet(Procs) /\ First \in Procs

ASSUME FilesAssumption == FilesConstants

Slots == 1..NFILE
Fds == 0..NOFILE - 1
Ends == (1..NPIPE) \X {"r", "w"}
None == <<0, "none">>
InodeObjects == {<<i, "inode">> : i \in Inodes}

VARIABLES
  ref, obj,      \* struct file: reference count, and FD_NONE or what is open
  ofile,         \* a process's descriptors, 0 for a free one
  alive,         \* processes that have been forked and have not exited
  iref,          \* references to an inode that iput has not dropped
  open,          \* readopen and writeopen of a pipe
  pc, mine, ff, todo   \* a process: its first file in pipealloc, fileclose's copy, files to close

fileVars == <<ref, obj, ofile, alive, iref, open, pc, mine, ff, todo>>

FilesInit ==
  /\ ref = [f \in Slots |-> 0]
  /\ obj = [f \in Slots |-> None]
  /\ ofile = [p \in Procs |-> [d \in Fds |-> 0]]
  /\ alive = {First}
  /\ iref = [o \in InodeObjects |-> 0]
  /\ open = [e \in Ends |-> 0]
  /\ pc = [p \in Procs |-> "user"]
  /\ mine = [p \in Procs |-> 0]
  /\ ff = [p \in Procs |-> None]
  /\ todo = [p \in Procs |-> <<>>]

user(p) == p \in alive /\ pc[p] = "user" /\ todo[p] = <<>>

FreeSlots == {f \in Slots : ref[f] = 0}
FreeFds(p) == {d \in Fds : ofile[p][d] = 0}

(* sys_open, once it has the inode o: filealloc, fdalloc, and the error    *)
(* path that closes a file whose type is still FD_NONE.                    *)
sys_open(p, o) ==
  /\ user(p)
  /\ IF FreeSlots = {} THEN UNCHANGED <<ref, obj, ofile, iref, todo>>
     ELSE LET f == Min(FreeSlots) IN
          /\ ref' = [ref EXCEPT ![f] = 1]
          /\ IF FreeFds(p) = {}
               THEN todo' = [todo EXCEPT ![p] = <<f>>] /\ UNCHANGED <<obj, ofile, iref>>
               ELSE /\ ofile' = [ofile EXCEPT ![p][Min(FreeFds(p))] = f]
                    /\ obj' = [obj EXCEPT ![f] = o]
                    /\ iref' = [iref EXCEPT ![o] = @ + 1]
                    /\ UNCHANGED todo
  /\ UNCHANGED <<mine, alive, open, pc, ff>>

sys_dup(p, d) ==
  /\ user(p) /\ ofile[p][d] # 0 /\ FreeFds(p) # {}
  /\ ofile' = [ofile EXCEPT ![p][Min(FreeFds(p))] = ofile[p][d]]
  /\ ref' = [ref EXCEPT ![ofile[p][d]] = @ + 1]
  /\ UNCHANGED <<mine, obj, alive, iref, open, pc, ff, todo>>

(* sys_pipe: pipealloc takes a first file ... *)
sys_pipe(p) ==
  /\ user(p) /\ FreeSlots # {}
  /\ ref' = [ref EXCEPT ![Min(FreeSlots)] = 1]
  /\ mine' = [mine EXCEPT ![p] = Min(FreeSlots)]
  /\ pc' = [pc EXCEPT ![p] = "pipe"]
  /\ UNCHANGED <<obj, ofile, alive, iref, open, ff, todo>>

(* ... a second one and a page; without them it closes files that have no  *)
(* type yet.  Then sys_pipe needs two descriptors.                         *)
pipealloc(p) ==
  LET f0 == mine[p]
      f1 == Min(FreeSlots)
      d0 == Min(FreeFds(p))
      d1 == Min(FreeFds(p) \ {d0})
      pages == {k \in 1..NPIPE : open[<<k, "r">>] = 0 /\ open[<<k, "w">>] = 0} IN
  /\ pc[p] = "pipe"
  /\ IF FreeSlots = {}
       THEN todo' = [todo EXCEPT ![p] = <<f0>>] /\ UNCHANGED <<ref, obj, open, ofile>>
     ELSE /\ ref' = [ref EXCEPT ![f1] = 1]
          /\ IF pages = {}
               THEN todo' = [todo EXCEPT ![p] = <<f0, f1>>] /\ UNCHANGED <<obj, open, ofile>>
             ELSE LET k == Min(pages) IN
                  /\ obj' = [obj EXCEPT ![f0] = <<k, "r">>, ![f1] = <<k, "w">>]
                  /\ open' = [open EXCEPT ![<<k, "r">>] = 1, ![<<k, "w">>] = 1]
                  /\ IF Cardinality(FreeFds(p)) < 2
                       THEN todo' = [todo EXCEPT ![p] = <<f0, f1>>] /\ UNCHANGED ofile
                       ELSE ofile' = [ofile EXCEPT ![p][d0] = f0, ![p][d1] = f1] /\ UNCHANGED todo
  /\ mine' = [mine EXCEPT ![p] = 0]
  /\ pc' = [pc EXCEPT ![p] = "user"]
  /\ UNCHANGED <<alive, iref, ff>>

sys_close(p, d) ==
  /\ user(p) /\ ofile[p][d] # 0
  /\ ofile' = [ofile EXCEPT ![p][d] = 0]
  /\ todo' = [todo EXCEPT ![p] = <<ofile[p][d]>>]
  /\ UNCHANGED <<mine, ref, obj, alive, iref, open, pc, ff>>

(* fork: filedup of each descriptor.  The parent's own references keep the *)
(* files open between one filedup and the next.                            *)
fork_files(p, c) ==
  /\ user(p) /\ c \notin alive
  /\ alive' = alive \cup {c}
  /\ ofile' = [ofile EXCEPT ![c] = ofile[p]]
  /\ ref' = [f \in Slots |-> ref[f] + Cardinality({d \in Fds : ofile[p][d] = f})]
  /\ UNCHANGED <<mine, obj, iref, open, pc, ff, todo>>

(* exit closes the descriptors one after the other, then the process is    *)
(* gone.                                                                   *)
exit_files(p) ==
  /\ user(p) \/ (pc[p] = "exit" /\ todo[p] = <<>>)
  /\ LET left == Fds \ FreeFds(p) IN
     IF left = {}
       THEN /\ alive' = alive \ {p}
            /\ pc' = [pc EXCEPT ![p] = "user"]
            /\ UNCHANGED <<ofile, todo>>
       ELSE /\ todo' = [todo EXCEPT ![p] = <<ofile[p][Min(left)]>>]
            /\ ofile' = [ofile EXCEPT ![p][Min(left)] = 0]
            /\ pc' = [pc EXCEPT ![p] = "exit"]
            /\ UNCHANGED alive
  /\ UNCHANGED <<mine, ref, obj, iref, open, ff>>

mutant_fileclose_keeps_type(p) ==
  LET f == Head(todo[p]) IN
  /\ todo[p] # <<>> /\ ff[p] = None
  /\ ref' = [ref EXCEPT ![f] = @ - 1]
  /\ IF ref[f] > 1
       THEN todo' = [todo EXCEPT ![p] = Tail(@)] /\ UNCHANGED ff
       ELSE /\ ff' = [ff EXCEPT ![p] = obj[f]]
            /\ todo' = [todo EXCEPT ![p] = IF obj[f] = None THEN Tail(@) ELSE @]
  /\ UNCHANGED <<mine, obj, ofile, alive, iref, open, pc>>

(* fileclose under ftable.lock: the last reference frees the entry, after  *)
(* copying it ...                                                          *)
fileclose(p) ==
  LET f == Head(todo[p]) IN
  /\ todo[p] # <<>> /\ ff[p] = None
  /\ ref' = [ref EXCEPT ![f] = @ - 1]
  /\ IF ref[f] > 1
       THEN todo' = [todo EXCEPT ![p] = Tail(@)] /\ UNCHANGED <<obj, ff>>
       ELSE /\ obj' = [obj EXCEPT ![f] = None]
            /\ ff' = [ff EXCEPT ![p] = obj[f]]
            /\ todo' = [todo EXCEPT ![p] = IF obj[f] = None THEN Tail(@) ELSE @]
  /\ UNCHANGED <<mine, ofile, alive, iref, open, pc>>

(* ... and then what the copy has open, without the lock. *)
fileclose_object(p) ==
  /\ ff[p] # None
  /\ ff' = [ff EXCEPT ![p] = None]
  /\ todo' = [todo EXCEPT ![p] = Tail(@)]
  /\ IF ff[p] \in Ends
       THEN open' = [open EXCEPT ![ff[p]] = 0] /\ UNCHANGED iref
       ELSE iref' = [iref EXCEPT ![ff[p]] = @ - 1] /\ UNCHANGED open
  /\ UNCHANGED <<mine, ref, obj, ofile, alive, pc>>

FilesNext ==
  \E p \in Procs :
    \/ \E o \in InodeObjects : sys_open(p, o)
    \/ \E d \in Fds : sys_dup(p, d) \/ sys_close(p, d)
    \/ sys_pipe(p) \/ pipealloc(p)
    \/ \E c \in Procs : fork_files(p, c)
    \/ p # First /\ exit_files(p)
    \/ fileclose(p) \/ fileclose_object(p)

FilesSpec == FilesInit /\ [][FilesNext]_fileVars

-----------------------------------------------------------------------------

Objects == InodeObjects \cup Ends \cup {None}

FilesTypeOK ==
  /\ ref \in [Slots -> Nat]
  /\ obj \in [Slots -> Objects]
  /\ ofile \in [Procs -> [Fds -> Slots \cup {0}]]
  /\ alive \subseteq Procs
  /\ iref \in [InodeObjects -> Nat]
  /\ open \in [Ends -> {0, 1}]
  /\ pc \in [Procs -> {"user", "pipe", "exit"}]
  /\ mine \in [Procs -> Slots \cup {0}]
  /\ ff \in [Procs -> Objects]
  /\ todo \in [Procs -> Seq(Slots)]

Descriptors(f) == {x \in Procs \X Fds : ofile[x[1]][x[2]] = f}
(* The calls of fileclose(f) that are still to take its reference, by the  *)
(* process and their place from the end of what it has to close.           *)
Closing(f) == {x \in Procs \X (1..2) :
                 LET n == Len(todo[x[1]]) IN
                 /\ x[2] <= n - (IF ff[x[1]] = None THEN 0 ELSE 1)
                 /\ todo[x[1]][n + 1 - x[2]] = f}
Creating(f) == {p \in Procs : mine[p] = f}

(* ref is the number of descriptors that share the file, and of calls of   *)
(* fileclose still to come, through dup, fork, exit and every error path;  *)
(* so panic("fileclose") and panic("filedup") are out of reach, and a      *)
(* descriptor never refers to an entry that was given away.                *)
RefsAreDescriptors ==
  \A f \in Slots : /\ ref[f] = Cardinality(Descriptors(f)) + Cardinality(Closing(f))
                            + Cardinality(Creating(f))
                   /\ Descriptors(f) # {} => obj[f] # None

Files(o) == {f \in Slots : obj[f] = o}
Putting(o) == {p \in Procs : ff[p] = o}

(* What is open is open exactly as long as a file refers to it, or a copy  *)
(* that fileclose still has to put: an inode is not put twice or never,    *)
(* and the reader of a pipe learns of the end of data when the last writer *)
(* is closed and not before.                                               *)
ObjectsFollowFiles ==
  /\ \A o \in InodeObjects : iref[o] = Cardinality(Files(o)) + Cardinality(Putting(o))
  /\ \A e \in Ends : open[e] = Cardinality(Files(e)) + Cardinality(Putting(e))

(* Open files (file.c, sysfile.c, pipe.c:22-57): a struct file has a       *)
(* reference per descriptor on every error path, and the inode or pipe end *)
(* behind it is closed once, with the last of them.                        *)
FilesSound == part = "files" => FilesTypeOK /\ RefsAreDescriptors /\ ObjectsFollowFiles
=============================================================================
