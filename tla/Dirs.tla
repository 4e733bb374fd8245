-------------------------------- MODULE Dirs --------------------------------
(***************************************************************************)
(* The directory tree: the system calls of sysfile.c that look up, create, *)
(* link and remove names, run by several processes at once over the inode  *)
(* layer of fs.c.                                                          *)
(*                                                                         *)
(* A step runs from one acquiresleep of an inode to the next point where   *)
(* another process may see the difference.  An inode stands for its copy   *)
(* on disk and its cache entry together: the cache is write-through.  A    *)
(* call is one transaction, and the log commits only when no call is in    *)
(* progress (module Log), so that the states with no call in progress are  *)
(* the ones a crash can leave on the disk.                                 *)
(***************************************************************************)
EXTENDS Integers, Sequences, FiniteSets, SequencesExt

CONSTANTS Procs,
          NInodes,     \* the inodes of the disk are 1 .. NInodes
          Names,       \* what a directory entry may be called
          Workloads    \* bound: who makes which system calls with which
                       \* paths on a disk with how many inodes

Inodes == 1..NInodes
ROOTINO == 1
AllNames == Names \cup {".", ".."}

ASSUME InodeAssumption == NInodes \in Nat \ {0} /\ 0 \notin Procs
ASSUME DotAssumption == {".", ".."} \cap Names = {}
ASSUME WorkloadAssumption == \A l \in Workloads :
  l.procs \subseteq Procs /\ l.inodes \in 1..NInodes /\ \A path \in l.paths : path \in Seq(AllNames)

VARIABLES
  load,                  \* the workload of this behaviour
  type, nlink, ents,     \* the inode, and its content if it is a directory
  ref, valid, lock,      \* its cache entry
  cwd, file,             \* a process: current directory, one open file
  loc                    \* and the locals of the call it is in

vars == <<load, type, nlink, ents, ref, valid, lock, cwd, file, loc>>

Idle == [pc |-> "idle", op |-> "none", path |-> <<>>, new |-> <<>>, ip |-> 0, dp |-> 0,
         old |-> 0, puts |-> <<>>, unref |-> 0]

NoEnts == [n \in AllNames |-> 0]

(* mkfs makes the root; each process has it as current directory. *)
Init ==
  /\ load \in Workloads
  /\ type = [i \in Inodes |-> IF i = ROOTINO THEN "dir" ELSE "free"]
  /\ nlink = [i \in Inodes |-> IF i = ROOTINO THEN 1 ELSE 0]
  /\ ents = [i \in Inodes |-> IF i = ROOTINO THEN [NoEnts EXCEPT !["."] = i, ![".."] = i] ELSE NoEnts]
  /\ ref = [i \in Inodes |-> IF i = ROOTINO THEN Cardinality(Procs) ELSE 0]
  /\ valid = [i \in Inodes |-> 0]
  /\ lock = [i \in Inodes |-> 0]
  /\ cwd = [p \in Procs |-> ROOTINO]
  /\ file = [p \in Procs |-> 0]
  /\ loc = [p \in Procs |-> Idle]

Quiet == \A p \in Procs : loc[p] = Idle

-----------------------------------------------------------------------------
(* The inode layer. *)

Halted == \E p \in Procs : loc[p].pc \in {"panic", "no inodes"}

(* p is at l, and has no iput to finish first. *)
at(p, l) == loc[p].pc = l /\ loc[p].puts = <<>> /\ ~Halted

(* iget: a cache entry that nobody refers to is taken afresh. *)
iget(i) ==
  /\ ref' = [ref EXCEPT ![i] = @ + 1]
  /\ valid' = [valid EXCEPT ![i] = IF ref[i] = 0 THEN 0 ELSE @]

(* ilock: acquiresleep, and the inode is loaded. *)
ilock(i) == lock[i] = 0 /\ type[i] # "free"
loaded(i) == valid' = [valid EXCEPT ![i] = 1]

(* The inode the next step of p locks; 0 if it locks none. *)
Wants(p) ==
  LET l == loc[p] IN
  CASE l.puts # <<>> -> IF l.unref = 0 THEN Head(l.puts) ELSE 0
    [] l.pc \in {"namex", "open", "link", "chdir", "create_found", "create_new", "unlink_ip"} -> l.ip
    [] l.pc \in {"create", "mkdir", "mknod", "link2", "unlink"} -> l.dp
    [] l.pc = "link_bad" -> l.old
    [] OTHER -> 0

(* ilock finds an inode that is not allocated: panic("ilock: no type"). *)
ilock_panic(p) ==
  LET i == Wants(p) IN
  /\ i # 0 /\ loc[p].puts = <<>> /\ ~Halted
  /\ lock[i] = 0 /\ type[i] = "free"
  /\ loc' = [loc EXCEPT ![p].pc = "panic"]
  /\ UNCHANGED <<type, nlink, ents, ref, valid, lock, cwd, file>>

mutant_iput_any_ref(p) ==
  LET i == Head(loc[p].puts) IN
  /\ loc[p].puts # <<>> /\ loc[p].unref = 0 /\ ~Halted
  /\ lock[i] = 0
  /\ IF valid[i] = 1 /\ nlink[i] = 0
       THEN type' = [type EXCEPT ![i] = "free"] /\ valid' = [valid EXCEPT ![i] = 0]
            /\ ents' = [ents EXCEPT ![i] = NoEnts]
       ELSE UNCHANGED <<type, ents, valid>>
  /\ loc' = [loc EXCEPT ![p].unref = 1]
  /\ UNCHANGED <<nlink, ref, lock, cwd, file>>

mutant_iput_linked(p) ==
  LET i == Head(loc[p].puts) IN
  /\ loc[p].puts # <<>> /\ loc[p].unref = 0 /\ ~Halted
  /\ lock[i] = 0
  /\ IF valid[i] = 1 /\ ref[i] = 1
       THEN type' = [type EXCEPT ![i] = "free"] /\ valid' = [valid EXCEPT ![i] = 0]
            /\ ents' = [ents EXCEPT ![i] = NoEnts]
       ELSE UNCHANGED <<type, ents, valid>>
  /\ loc' = [loc EXCEPT ![p].unref = 1]
  /\ UNCHANGED <<nlink, ref, lock, cwd, file>>

(* iput up to releasesleep: the last reference to an inode without links   *)
(* frees it ...                                                            *)
iput(p) ==
  LET i == Head(loc[p].puts) IN
  /\ loc[p].puts # <<>> /\ loc[p].unref = 0 /\ ~Halted
  /\ lock[i] = 0
  /\ IF valid[i] = 1 /\ nlink[i] = 0 /\ ref[i] = 1
       THEN type' = [type EXCEPT ![i] = "free"] /\ valid' = [valid EXCEPT ![i] = 0]
            /\ ents' = [ents EXCEPT ![i] = NoEnts]
       ELSE UNCHANGED <<type, ents, valid>>
  /\ loc' = [loc EXCEPT ![p].unref = 1]
  /\ UNCHANGED <<nlink, ref, lock, cwd, file>>

(* ... and its second critical section drops the reference. *)
iput_unref(p) ==
  /\ loc[p].unref = 1 /\ ~Halted
  /\ ref' = [ref EXCEPT ![Head(loc[p].puts)] = @ - 1]
  /\ loc' = [loc EXCEPT ![p].unref = 0, ![p].puts = Tail(@)]
  /\ UNCHANGED <<type, nlink, ents, valid, lock, cwd, file>>

-----------------------------------------------------------------------------
(* Path lookup. *)

(* The inode number in the entry for a name, 0 if there is none. *)
dirlookup(d, n) == ents[d][n]

Parent(op) == op \in {"create", "mkdir", "mknod", "link2", "unlink"}

(* The call returns, after the given calls of iput. *)
return(p, puts) == loc' = [loc EXCEPT ![p] = [Idle EXCEPT !.puts = puts]]

(* namex returns 0, after an iput of the inode it is at. *)
namex_fails(p, i) ==
  IF loc[p].op = "link2"
    THEN loc' = [loc EXCEPT ![p].pc = "link_bad", ![p].ip = 0, ![p].puts = <<i>>]
    ELSE return(p, <<i>>)

(* A system call begins; namex starts at the root or at cwd. *)
namex_start(p, op, path, new, i) ==
  /\ at(p, "idle") /\ op \in load.ops \ {"close"}
  /\ iget(i)
  /\ loc' = [loc EXCEPT ![p] = [Idle EXCEPT !.pc = "namex", !.op = op, !.path = path, !.new = new, !.ip = i]]
  /\ UNCHANGED <<type, nlink, ents, lock, cwd, file>>

(* One round of namex's loop. *)
namex(p) ==
  LET l == loc[p]
      i == l.ip
      last == Parent(l.op) /\ Len(l.path) = 1
      next == dirlookup(i, Head(l.path)) IN
  /\ at(p, "namex") /\ l.path # <<>> /\ ilock(i)
  /\ IF type[i] # "dir" \/ (~last /\ next = 0)
       THEN namex_fails(p, i) /\ loaded(i) /\ UNCHANGED ref
     ELSE IF last
       THEN /\ loc' = [loc EXCEPT ![p].pc = l.op, ![p].ip = 0, ![p].dp = i]
            /\ loaded(i) /\ UNCHANGED ref
     ELSE /\ loc' = [loc EXCEPT ![p].ip = next, ![p].path = Tail(@), ![p].puts = <<i>>]
          /\ ref' = [ref EXCEPT ![next] = @ + 1]
          /\ valid' = [valid EXCEPT ![next] = IF ref[next] = 0 THEN 0 ELSE @, ![i] = 1]
  /\ UNCHANGED <<type, nlink, ents, lock, cwd, file>>

(* The path is used up. *)
namex_end(p) ==
  /\ at(p, "namex") /\ loc[p].path = <<>>
  /\ IF Parent(loc[p].op) THEN namex_fails(p, loc[p].ip)
     ELSE loc' = [loc EXCEPT ![p].pc = loc[p].op]
  /\ UNCHANGED <<type, nlink, ents, ref, valid, lock, cwd, file>>
-----------------------------------------------------------------------------
(* sys_open without O_CREATE, and sys_chdir, after namei.  sys_open fails  *)
(* for a directory to be written or a full ftable, and in fdalloc: here a  *)
(* process has one descriptor.                                             *)

sys_open(p, full) ==
  LET i == loc[p].ip IN
  /\ at(p, "open") /\ ilock(i) /\ loaded(i)
  /\ IF full \/ file[p] # 0
       THEN return(p, <<i>>) /\ UNCHANGED file
       ELSE return(p, <<>>) /\ file' = [file EXCEPT ![p] = i]
  /\ UNCHANGED <<type, nlink, ents, ref, lock, cwd>>

sys_chdir(p) ==
  LET i == loc[p].ip IN
  /\ at(p, "chdir") /\ ilock(i) /\ loaded(i)
  /\ IF type[i] # "dir"
       THEN return(p, <<i>>) /\ UNCHANGED cwd
       ELSE return(p, <<cwd[p]>>) /\ cwd' = [cwd EXCEPT ![p] = i]
  /\ UNCHANGED <<type, nlink, ents, ref, lock, file>>

sys_close(p) ==
  /\ at(p, "idle") /\ file[p] # 0 /\ "close" \in load.ops
  /\ return(p, <<file[p]>>)
  /\ file' = [file EXCEPT ![p] = 0]
  /\ UNCHANGED <<type, nlink, ents, ref, valid, lock, cwd>>

-----------------------------------------------------------------------------
(* create, for sys_open, sys_mkdir and sys_mknod. *)

T(op) == CASE op = "create" -> "file" [] op = "mkdir" -> "dir" [] OTHER -> "dev"
name(p) == Head(loc[p].path)
Free == {i \in 1..load.inodes : type[i] = "free"}

(* The name exists: go on with its inode, without dp. *)
create_exists(p) ==
  LET d == loc[p].dp
      i == dirlookup(d, name(p)) IN
  /\ loc[p].pc \in {"create", "mkdir", "mknod"} /\ at(p, loc[p].pc)
  /\ ilock(d) /\ i # 0
  /\ ref' = [ref EXCEPT ![i] = @ + 1]
  /\ valid' = [valid EXCEPT ![i] = IF ref[i] = 0 THEN 0 ELSE @, ![d] = 1]
  /\ loc' = [loc EXCEPT ![p].pc = "create_found", ![p].ip = i, ![p].dp = 0, ![p].puts = <<d>>]
  /\ UNCHANGED <<type, nlink, ents, lock, cwd, file>>

(* filealloc and fdalloc with ip locked, and iunlock or iunlockput. *)
OpenLocked(p, i, full) ==
  IF loc[p].op # "create" \/ full \/ file[p] # 0
    THEN return(p, <<i>>) /\ UNCHANGED file
    ELSE return(p, <<>>) /\ file' = [file EXCEPT ![p] = i]

create_found(p, full) ==
  LET i == loc[p].ip IN
  /\ at(p, "create_found") /\ ilock(i) /\ loaded(i)
  /\ IF type[i] = "file" THEN OpenLocked(p, i, full) ELSE return(p, <<i>>) /\ UNCHANGED file
  /\ UNCHANGED <<type, nlink, ents, ref, lock, cwd>>

(* ialloc takes the first free inode, or panics; dp stays locked. *)
create_ialloc(p) ==
  LET d == loc[p].dp IN
  /\ loc[p].pc \in {"create", "mkdir", "mknod"} /\ at(p, loc[p].pc)
  /\ ilock(d) /\ dirlookup(d, name(p)) = 0
  /\ IF Free = {}
       THEN loc' = [loc EXCEPT ![p].pc = "no inodes"] /\ UNCHANGED <<type, nlink, ents, ref, valid, lock>>
       ELSE LET i == CHOOSE i \in Free : \A j \in Free : i <= j IN
            /\ type' = [type EXCEPT ![i] = T(loc[p].op)]
            /\ nlink' = [nlink EXCEPT ![i] = 0]
            /\ ents' = [ents EXCEPT ![i] = NoEnts]
            /\ ref' = [ref EXCEPT ![i] = @ + 1]
            /\ valid' = [valid EXCEPT ![i] = IF ref[i] = 0 THEN 0 ELSE @, ![d] = 1]
            /\ lock' = [lock EXCEPT ![d] = p]
            /\ loc' = [loc EXCEPT ![p].pc = "create_new", ![p].ip = i]
  /\ UNCHANGED <<cwd, file>>

(* The rest of create: ip and its entry are filled in, dp is unlocked and  *)
(* put while ip stays locked.                                              *)
create_new(p) ==
  LET d == loc[p].dp
      i == loc[p].ip
      isdir == loc[p].op = "mkdir" IN
  /\ at(p, "create_new") /\ ilock(i) /\ loaded(i)
  /\ nlink' = [nlink EXCEPT ![i] = 1, ![d] = IF isdir THEN @ + 1 ELSE @]
  /\ ents' = [ents EXCEPT ![d][name(p)] = i,
                          ![i] = IF isdir THEN [@ EXCEPT !["."] = i, ![".."] = d] ELSE @]
  /\ lock' = [lock EXCEPT ![d] = 0, ![i] = p]
  /\ loc' = [loc EXCEPT ![p].pc = "created", ![p].dp = 0, ![p].puts = <<d>>]
  /\ UNCHANGED <<type, ref, cwd, file>>

(* create has returned the locked inode. *)
created(p, full) ==
  LET i == loc[p].ip IN
  /\ at(p, "created")
  /\ OpenLocked(p, i, full)
  /\ lock' = [lock EXCEPT ![i] = 0]
  /\ UNCHANGED <<type, nlink, ents, ref, valid, cwd>>

-----------------------------------------------------------------------------
(* sys_link *)

mutant_link_inc_stays_locked(p, start) ==
  LET i == loc[p].ip IN
  /\ at(p, "link") /\ ilock(i)
  /\ IF type[i] = "dir"
       THEN return(p, <<i>>) /\ loaded(i) /\ UNCHANGED <<nlink, ref>>
            /\ UNCHANGED lock
       ELSE /\ lock' = [lock EXCEPT ![i] = p]
            /\ nlink' = [nlink EXCEPT ![i] = @ + 1]
            /\ ref' = [ref EXCEPT ![start] = @ + 1]
            /\ valid' = [valid EXCEPT ![start] = IF ref[start] = 0 THEN 0 ELSE @, ![i] = 1]
            /\ loc' = [loc EXCEPT ![p] = [Idle EXCEPT !.pc = "namex", !.op = "link2",
                                            !.path = loc[p].new, !.ip = start, !.old = i]]
  /\ UNCHANGED <<type, ents, cwd, file>>

(* The link is counted first; then nameiparent(new) starts. *)
link_inc(p, start) ==
  LET i == loc[p].ip IN
  /\ at(p, "link") /\ ilock(i)
  /\ IF type[i] = "dir"
       THEN return(p, <<i>>) /\ loaded(i) /\ UNCHANGED <<nlink, ref>>
       ELSE /\ nlink' = [nlink EXCEPT ![i] = @ + 1]
            /\ ref' = [ref EXCEPT ![start] = @ + 1]
            /\ valid' = [valid EXCEPT ![start] = IF ref[start] = 0 THEN 0 ELSE @, ![i] = 1]
            /\ loc' = [loc EXCEPT ![p] = [Idle EXCEPT !.pc = "namex", !.op = "link2",
                                            !.path = loc[p].new, !.ip = start, !.old = i]]
  /\ UNCHANGED <<type, ents, lock, cwd, file>>

(* dirlink writes the entry; if the name is taken it puts the inode it     *)
(* looked up, with dp locked.                                              *)
link_dir(p) ==
  LET d == loc[p].dp
      e == dirlookup(d, name(p)) IN
  /\ at(p, "link2") /\ ilock(d)
  /\ IF e # 0
       THEN /\ ref' = [ref EXCEPT ![e] = @ + 1]
            /\ valid' = [valid EXCEPT ![e] = IF ref[e] = 0 THEN 0 ELSE @, ![d] = 1]
            /\ lock' = [lock EXCEPT ![d] = p]
            /\ loc' = [loc EXCEPT ![p].pc = "link_exists", ![p].puts = <<e>>]
            /\ UNCHANGED ents
       ELSE /\ ents' = [ents EXCEPT ![d][name(p)] = loc[p].old]
            /\ return(p, <<d, loc[p].old>>)
            /\ loaded(d)
            /\ UNCHANGED <<ref, lock>>
  /\ UNCHANGED <<type, nlink, cwd, file>>

link_exists(p) ==
  LET d == loc[p].dp IN
  /\ at(p, "link_exists")
  /\ lock' = [lock EXCEPT ![d] = 0]
  /\ loc' = [loc EXCEPT ![p].pc = "link_bad", ![p].dp = 0, ![p].path = <<>>, ![p].puts = <<d>>]
  /\ UNCHANGED <<type, nlink, ents, ref, valid, cwd, file>>

link_bad(p) ==
  LET i == loc[p].old IN
  /\ at(p, "link_bad") /\ ilock(i) /\ loaded(i)
  /\ nlink' = [nlink EXCEPT ![i] = @ - 1]
  /\ return(p, <<i>>)
  /\ UNCHANGED <<type, ents, ref, lock, cwd, file>>

-----------------------------------------------------------------------------
(* sys_unlink *)

(* "." and "..", and names that do not exist, are refused. *)
unlink_dir(p) ==
  LET d == loc[p].dp
      i == dirlookup(d, name(p)) IN
  /\ at(p, "unlink") /\ ilock(d)
  /\ IF name(p) \in {".", ".."} \/ i = 0
       THEN return(p, <<d>>) /\ loaded(d) /\ UNCHANGED <<ref, lock>>
       ELSE /\ ref' = [ref EXCEPT ![i] = @ + 1]
            /\ valid' = [valid EXCEPT ![i] = IF ref[i] = 0 THEN 0 ELSE @, ![d] = 1]
            /\ lock' = [lock EXCEPT ![d] = p]
            /\ loc' = [loc EXCEPT ![p].pc = "unlink_ip", ![p].ip = i]
  /\ UNCHANGED <<type, nlink, ents, cwd, file>>

isdirempty(d) == \A n \in Names : ents[d][n] = 0

mutant_unlink_ip_parent_count(p) ==
  LET d == loc[p].dp
      i == loc[p].ip IN
  /\ at(p, "unlink_ip") /\ ilock(i) /\ loaded(i)
  /\ ~(type[i] = "dir" /\ ~isdirempty(i))
  /\ ents' = [ents EXCEPT ![d][name(p)] = 0]
  /\ lock' = [lock EXCEPT ![d] = 0, ![i] = p]
  /\ loc' = [loc EXCEPT ![p].pc = "unlink_dec", ![p].dp = 0, ![p].puts = <<d>>]
  /\ UNCHANGED <<type, nlink, ref, cwd, file>>

(* The entry is cleared, dp is unlocked and put while ip stays locked. *)
unlink_ip(p) ==
  LET d == loc[p].dp
      i == loc[p].ip
      isdir == type[i] = "dir" IN
  /\ at(p, "unlink_ip") /\ ilock(i) /\ loaded(i)
  /\ CASE nlink[i] < 1 ->
            /\ loc' = [loc EXCEPT ![p].pc = "panic"]
            /\ UNCHANGED <<nlink, ents, lock>>
       [] nlink[i] >= 1 /\ isdir /\ ~isdirempty(i) ->
            /\ loc' = [loc EXCEPT ![p].pc = "unlink_busy", ![p].ip = 0, ![p].puts = <<i>>]
            /\ UNCHANGED <<nlink, ents, lock>>
       [] OTHER ->
            /\ ents' = [ents EXCEPT ![d][name(p)] = 0]
            /\ nlink' = [nlink EXCEPT ![d] = IF isdir THEN @ - 1 ELSE @]
            /\ lock' = [lock EXCEPT ![d] = 0, ![i] = p]
            /\ loc' = [loc EXCEPT ![p].pc = "unlink_dec", ![p].dp = 0, ![p].puts = <<d>>]
  /\ UNCHANGED <<type, ref, cwd, file>>

unlink_busy(p) ==
  LET d == loc[p].dp IN
  /\ at(p, "unlink_busy")
  /\ lock' = [lock EXCEPT ![d] = 0]
  /\ return(p, <<d>>)
  /\ UNCHANGED <<type, nlink, ents, ref, valid, cwd, file>>

unlink_dec(p) ==
  LET i == loc[p].ip IN
  /\ at(p, "unlink_dec")
  /\ nlink' = [nlink EXCEPT ![i] = @ - 1]
  /\ lock' = [lock EXCEPT ![i] = 0]
  /\ return(p, <<i>>)
  /\ UNCHANGED <<type, ents, ref, valid, cwd, file>>

-----------------------------------------------------------------------------

Step(p) ==
  \/ \E op \in load.ops, path \in load.paths, start \in {ROOTINO, cwd[p]} :
       \E new \in IF op = "link" THEN load.paths ELSE {<<>>} : namex_start(p, op, path, new, start)
  \/ namex(p) \/ namex_end(p) \/ iput(p) \/ iput_unref(p) \/ ilock_panic(p)
  \/ \E full \in BOOLEAN : sys_open(p, full) \/ create_found(p, full) \/ created(p, full)
  \/ sys_chdir(p) \/ sys_close(p)
  \/ create_exists(p) \/ create_ialloc(p) \/ create_new(p)
  \/ \E start \in {ROOTINO, cwd[p]} : link_inc(p, start)
  \/ link_dir(p) \/ link_exists(p) \/ link_bad(p)
  \/ unlink_dir(p) \/ unlink_ip(p) \/ unlink_busy(p) \/ unlink_dec(p)

Next == UNCHANGED load /\ \E p \in load.procs : Step(p)

Spec == Init /\ [][Next]_vars

-----------------------------------------------------------------------------

Pointers(p, i) ==
  Cardinality({f \in {"ip", "dp", "old"} : loc[p][f] = i})
    + (IF cwd[p] = i THEN 1 ELSE 0) + (IF file[p] = i THEN 1 ELSE 0)
    + Cardinality({k \in DOMAIN loc[p].puts : loc[p].puts[k] = i})

TypeOK ==
  /\ load \in Workloads
  /\ type \in [Inodes -> {"free", "file", "dir", "dev"}]
  /\ nlink \in [Inodes -> 0..Cardinality(Procs) + NInodes * Cardinality(AllNames)]
  /\ ents \in [Inodes -> [AllNames -> Inodes \cup {0}]]
  /\ ref \in [Inodes -> 0..5 * Cardinality(Procs)]
  /\ valid \in [Inodes -> {0, 1}]
  /\ lock \in [Inodes -> Procs \cup {0}]
  /\ cwd \in [Procs -> Inodes]
  /\ file \in [Procs -> Inodes \cup {0}]

(* ref counts the pointers to the inode: current directories, open files   *)
(* and the locals of the calls in progress, on every path of every call    *)
(* ("ip->ref tracks the number of in-memory pointers to the entry",        *)
(* fs.c:141).                                                              *)
RefsExact ==
  \A i \in Inodes :
    ref[i] = FoldSet(LAMBDA p, n : n + Pointers(p, i), 0, Procs)

(* An inode that a process works in, has open or holds is not freed under  *)
(* it by another's unlink and iput.                                        *)
InUseIsAllocated ==
  \A p \in Procs : /\ type[cwd[p]] = "dir"
                   /\ file[p] # 0 => type[file[p]] # "free"
                   /\ loc[p].old # 0 => type[loc[p].old] # "free"
                   /\ loc[p].dp # 0 => type[loc[p].dp] = "dir"

Entries(i) == {e \in Inodes \X Names : ents[e[1]][e[2]] = i}
Children(d) == {i \in Inodes \ {ROOTINO} : type[i] = "dir" /\ ents[i][".."] = d /\ Entries(i) # {}}

(* What a workload has in it: one process only; directories that are       *)
(* removed; current directories that are removed.                          *)
Alone == Cardinality(load.procs) = 1
RemovesDirs == {"mkdir", "unlink"} \subseteq load.ops
RemovesCwd == RemovesDirs /\ "chdir" \in load.ops

(* Every entry of a directory that can be looked up, ".." included, names  *)
(* an allocated inode, at any moment of a concurrent unlink.  A directory  *)
(* that was removed with a process in it is the exception (sys_unlink).    *)
EntriesAllocated ==
  ~RemovesCwd => \A d \in Inodes, n \in AllNames :
    (d = ROOTINO \/ Entries(d) # {}) /\ ents[d][n] # 0 => type[ents[d][n]] # "free"

(* Between calls, and so after any crash, nlink is "the number of links    *)
(* referring to it" (fs.c:119): its entries, and the ".." of its           *)
(* subdirectories.  Names made in a directory that has been removed are    *)
(* the exception (create does not test dp->nlink): it takes a process in   *)
(* that directory, or a second one that removes it.                        *)
LinkCounts ==
  Quiet /\ (RemovesDirs => Alone /\ ~RemovesCwd) =>
    \A i \in Inodes : type[i] # "free" =>
      nlink[i] = Cardinality(Entries(i)) + Cardinality(Children(i)) + (IF i = ROOTINO THEN 1 ELSE 0)

(* Between calls the directories form a tree: each one that has an entry   *)
(* has exactly one, in the directory its ".." names.                       *)
OneParent ==
  Quiet => \A i \in Inodes \ {ROOTINO} : type[i] = "dir" /\ Entries(i) # {} =>
    \E n \in Names : Entries(i) = {<<ents[i][".."], n>>}

(* No call reaches panic("ilock: no type") or panic("unlink: nlink < 1"),  *)
(* unless a current directory is removed.                                  *)
NeverPanics == ~RemovesCwd => \A p \in Procs : loc[p].pc # "panic"

(* The processes do not wait for each other's inode locks in a circle,     *)
(* where the last one, and nobody, ever gets on.  usertests.c:857 is       *)
(* "another concurrent link/unlink/create test, to look for deadlocks".    *)
NoCircularWait ==
  \A S \in SUBSET Procs \ {{}} :
    \E p \in S : Wants(p) = 0 \/ lock[Wants(p)] \notin S

(* A workload with links whose name is "." or "..". *)
DotLinks == "link" \in load.ops /\ \E s \in load.paths : s # <<>> /\ Last(s) \in {".", ".."}

(* There is no circular wait among lookups, creations and changes of       *)
(* directory by several processes, nor in anything a single one does.      *)
(* unlink and link are the exceptions: next to a create of the same name   *)
(* both wait for its inode with the directory locked (sysfile.c:209,       *)
(* fs.c:578), and a link named "." or ".." may wait for its own directory. *)
WaitsAreOrdered ==
  (IF Alone THEN ~DotLinks ELSE load.ops \cap {"link", "unlink"} = {}) => NoCircularWait

(* "If that was the last reference and the inode has no links to it, free  *)
(* the inode" (fs.c:345), as long as there is one process to put it.       *)
LastPutFrees ==
  Quiet /\ Alone => \A i \in Inodes : type[i] # "free" /\ nlink[i] = 0 => ref[i] > 0
=============================================================================
