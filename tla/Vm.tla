--------------------------------- MODULE Vm ---------------------------------
(***************************************************************************)
(* Physical pages and address spaces: kalloc and kfree (kalloc.c), and the *)
(* code that builds, copies, grows, shrinks and frees the pages of a       *)
(* process (vm.c; fork, growproc and wait of proc.c; exec.c), when any     *)
(* kalloc may be the one that fails.                                       *)
(*                                                                         *)
(* One kalloc is one step, and what follows up to the next one goes with   *)
(* it.  Which free page kalloc returns does not matter: freelist is a set. *)
(***************************************************************************)
EXTENDS Resources, Integers, FiniteSets, FiniteSetsExt, Functions

CONSTANTS
  NPAGES,        \* pages of physical memory
  PGSIZE,        \* bytes of a page
  NPTENTRIES, NPDENTRIES,   \* pages of a page table, page tables for user addresses
  KTABLES,       \* page tables of the kernel part
  Images,        \* exec: sizes of the program
  Sbrks,         \* sbrk: its arguments
  UINT           \* 2^32

VmConstants ==
  /\ NPAGES \in Nat /\ NPAGES >= 4 + KTABLES /\ PGSIZE \in Nat \ {0} /\ KTABLES \in Nat
  /\ NPTENTRIES \in Nat \ {0} /\ NPDENTRIES \in Nat \ {0} /\ NPTENTRIES * NPDENTRIES > 1
  /\ UINT \in Nat /\ UINT >= 2 * PGSIZE * NPTENTRIES * NPDENTRIES
  /\ First \in Procs
  /\ Images \subseteq Nat \ {0} /\ Sbrks \subseteq Int \ {0}

ASSUME VmAssumption == VmConstants

Frames == 1..NPAGES
KERNBASE == PGSIZE * NPTENTRIES * NPDENTRIES
PGROUNDUP(n) == ((n + PGSIZE - 1) \div PGSIZE) * PGSIZE
VPages == 0..NPTENTRIES * NPDENTRIES - 1
Tables == 0..NPDENTRIES - 1
PDX(v) == v \div NPTENTRIES

(* A page directory with the tables and pages below it. *)
NoSpace == [dir |-> 0, kpt |-> {}, pt |-> [d \in Tables |-> 0], pg |-> [v \in VPages |-> 0]]

VARIABLES
  freelist,
  space, sz, kstack,   \* of a process
  vpc,
  loc,                 \* the locals of its call
  new                  \* the space its call is building

memVars == <<freelist, space, sz, kstack, vpc, loc, new>>

(* op: the call; child: of fork; mem: a page not yet mapped; a: the        *)
(* address that is next; goal: the size wanted.                            *)
NoCall == [op |-> "none", child |-> First, mem |-> 0, a |-> 0, goal |-> 0]

Pages(s) == ({s.dir} \cup s.kpt \cup Range(s.pt) \cup Range(s.pg)) \ {0}

(* userinit: one page of code, in a space with one page table. *)
VmInit ==
  \E init \in {[dir |-> 1, kpt |-> 4..3 + KTABLES, pt |-> [NoSpace.pt EXCEPT ![0] = 2],
                pg |-> [NoSpace.pg EXCEPT ![0] = 3]]} :
    /\ space = [p \in Procs |-> IF p = First THEN init ELSE NoSpace]
    /\ sz = [p \in Procs |-> IF p = First THEN PGSIZE ELSE 0]
    /\ kstack = [p \in Procs |-> IF p = First THEN 4 + KTABLES ELSE 0]
    /\ freelist = 5 + KTABLES..NPAGES
    /\ vpc = [p \in Procs |-> IF p = First THEN "user" ELSE "none"]
    /\ loc = [p \in Procs |-> NoCall]
    /\ new = [p \in Procs |-> NoSpace]

Halted == \E p \in Procs : vpc[p] = "panic"
now(p, l) == vpc[p] = l /\ ~Halted

(* The page that kalloc returns, 0 if there is none. *)
kalloc == IF freelist = {} THEN 0 ELSE Min(freelist)

-----------------------------------------------------------------------------
(* Error paths. *)

(* fork fails: freevm(d) in copyuvm, and the child's stack is freed. *)
fork_fails(p) ==
  LET q == loc[p].child IN
  /\ freelist' = freelist \cup Pages(new[p]) \cup {kstack[q]} \cup ({loc[p].mem} \ {0})
  /\ new' = [new EXCEPT ![p] = NoSpace]
  /\ kstack' = [kstack EXCEPT ![q] = 0]
  /\ vpc' = [vpc EXCEPT ![p] = "user", ![q] = "none"]
  /\ loc' = [loc EXCEPT ![p] = NoCall]
  /\ UNCHANGED <<space, sz>>

(* exec fails: freevm(pgdir). *)
exec_fails(p) ==
  /\ freelist' = freelist \cup Pages(new[p]) \cup ({loc[p].mem} \ {0})
  /\ new' = [new EXCEPT ![p] = NoSpace]
  /\ vpc' = [vpc EXCEPT ![p] = "user"]
  /\ loc' = [loc EXCEPT ![p] = NoCall]
  /\ UNCHANGED <<space, sz, kstack>>

mutant_dealloc_round_down(s, oldsz, newsz) ==
  {v \in VPages : (v + 1) * PGSIZE > newsz /\ v * PGSIZE < oldsz /\ s.pg[v] # 0}

(* deallocuvm: the pages from newsz, rounded up, to oldsz. *)
dealloc(s, oldsz, newsz) ==
  {v \in VPages : v * PGSIZE >= PGROUNDUP(newsz) /\ v * PGSIZE < oldsz /\ s.pg[v] # 0}
unmap(s, vs) == [s EXCEPT !.pg = [v \in VPages |-> IF v \in vs THEN 0 ELSE s.pg[v]]]

(* sbrk fails: what allocuvm has mapped so far is taken back. *)
sbrk_fails(p) ==
  LET vs == dealloc(space[p], loc[p].goal, sz[p]) IN
  /\ freelist' = freelist \cup {space[p].pg[v] : v \in vs} \cup ({loc[p].mem} \ {0})
  /\ space' = [space EXCEPT ![p] = unmap(@, vs)]
  /\ vpc' = [vpc EXCEPT ![p] = "user"]
  /\ loc' = [loc EXCEPT ![p] = NoCall]
  /\ UNCHANGED <<new, sz, kstack>>

Fails(p) ==
  CASE loc[p].op = "fork" -> fork_fails(p)
    [] loc[p].op \in {"exec", "stack"} -> exec_fails(p)
    [] OTHER -> sbrk_fails(p)

-----------------------------------------------------------------------------
(* fork, exec and sbrk begin. *)

(* allocproc's kernel stack; then copyuvm. *)
fork(p, q) ==
  /\ now(p, "user") /\ vpc[q] = "none"
  /\ kalloc # 0
  /\ freelist' = freelist \ {kalloc}
  /\ kstack' = [kstack EXCEPT ![q] = kalloc]
  /\ vpc' = [vpc EXCEPT ![p] = "setupkvm", ![q] = "embryo"]
  /\ loc' = [loc EXCEPT ![p] = [NoCall EXCEPT !.op = "fork", !.child = q, !.goal = sz[p]]]
  /\ UNCHANGED <<space, sz, new>>

exec(p, n) ==
  /\ now(p, "user")
  /\ vpc' = [vpc EXCEPT ![p] = "setupkvm"]
  /\ loc' = [loc EXCEPT ![p] = [NoCall EXCEPT !.op = "exec", !.goal = n]]
  /\ UNCHANGED <<freelist, space, sz, kstack, new>>

(* growproc(n), n > 0: allocuvm refuses KERNBASE and more. *)
sbrk_grow(p, n) ==
  LET newsz == (sz[p] + n) % UINT IN
  /\ now(p, "user") /\ n > 0
  /\ newsz < KERNBASE /\ newsz >= sz[p]
  /\ vpc' = [vpc EXCEPT ![p] = "alloc"]
  /\ loc' = [loc EXCEPT ![p] = [NoCall EXCEPT !.op = "sbrk", !.a = PGROUNDUP(sz[p]), !.goal = newsz]]
  /\ UNCHANGED <<freelist, space, sz, kstack, new>>

(* growproc(n), n < 0: deallocuvm does nothing if the size does not        *)
(* shrink, as unsigned.  growproc takes a new size of 0 for a failure and  *)
(* leaves sz alone, but the pages are gone: the process, which is not init *)
(* (init calls no sbrk), faults at its next instruction, its page table    *)
(* being all there is to translate an address (no TLB).                    *)
sbrk_shrink(p, n) ==
  LET newsz == (sz[p] + n) % UINT
      vs == dealloc(space[p], sz[p], newsz) IN
  /\ now(p, "user") /\ n < 0 /\ newsz < sz[p] /\ (newsz = 0 => p # First)
  /\ freelist' = freelist \cup {space[p].pg[v] : v \in vs}
  /\ space' = [space EXCEPT ![p] = unmap(@, vs)]
  /\ sz' = [sz EXCEPT ![p] = IF newsz = 0 THEN @ ELSE newsz]
  /\ vpc' = [vpc EXCEPT ![p] = IF newsz = 0 THEN "fault" ELSE @]
  /\ UNCHANGED <<kstack, loc, new>>

-----------------------------------------------------------------------------
(* setupkvm: the directory and the kernel's page tables. *)

setupkvm(p) ==
  /\ now(p, "setupkvm")
  /\ IF kalloc = 0 THEN Fails(p)
     ELSE /\ freelist' = freelist \ {kalloc}
          /\ new' = [new EXCEPT ![p] = IF @.dir = 0 THEN [@ EXCEPT !.dir = kalloc]
                                       ELSE [@ EXCEPT !.kpt = new[p].kpt \cup {kalloc}]]
          /\ vpc' = [vpc EXCEPT ![p] = IF Cardinality(new'[p].kpt) = KTABLES THEN "alloc" ELSE @]
          /\ UNCHANGED <<space, sz, kstack, loc>>

-----------------------------------------------------------------------------
(* The loop of allocuvm and copyuvm. *)

(* A page; copyuvm panics if the parent has none at this address. *)
alloc(p) ==
  LET l == loc[p] IN
  /\ now(p, "alloc") /\ l.a < l.goal
  /\ IF l.op = "fork" /\ space[p].pg[l.a \div PGSIZE] = 0
       THEN vpc' = [vpc EXCEPT ![p] = "panic"] /\ UNCHANGED <<freelist, space, sz, kstack, loc, new>>
     ELSE IF l.goal >= KERNBASE \/ kalloc = 0
       THEN Fails(p)
     ELSE /\ freelist' = freelist \ {kalloc}
          /\ loc' = [loc EXCEPT ![p].mem = kalloc]
          /\ vpc' = [vpc EXCEPT ![p] = "mappages"]
          /\ UNCHANGED <<space, sz, kstack, new>>

(* s with the page mapped at v, and the page table pt for it. *)
Mapped(s, v, page, pt) == [s EXCEPT !.pg[v] = page, !.pt[PDX(v)] = pt]

(* mappages, with a new page table where walkpgdir finds none. *)
mappages(p) ==
  LET l == loc[p]
      v == l.a \div PGSIZE
      s == IF l.op = "sbrk" THEN space[p] ELSE new[p]
      old == s.pt[PDX(v)]
      pt == IF old = 0 THEN kalloc ELSE old IN
  /\ now(p, "mappages")
  /\ IF pt = 0
       THEN Fails(p)
     ELSE IF s.pg[v] # 0
       THEN vpc' = [vpc EXCEPT ![p] = "panic"] /\ UNCHANGED <<freelist, space, sz, kstack, loc, new>>
     ELSE /\ freelist' = freelist \ {pt}
          /\ IF l.op = "sbrk"
               THEN space' = [space EXCEPT ![p] = Mapped(@, v, l.mem, pt)] /\ UNCHANGED new
               ELSE new' = [new EXCEPT ![p] = Mapped(@, v, l.mem, pt)] /\ UNCHANGED space
          /\ loc' = [loc EXCEPT ![p].mem = 0, ![p].a = @ + PGSIZE]
          /\ vpc' = [vpc EXCEPT ![p] = "alloc"]
          /\ UNCHANGED <<sz, kstack>>

-----------------------------------------------------------------------------
(* The calls end. *)

fork_done(p) ==
  LET q == loc[p].child IN
  /\ now(p, "alloc") /\ loc[p].op = "fork" /\ loc[p].a >= loc[p].goal
  /\ space' = [space EXCEPT ![q] = new[p]]
  /\ sz' = [sz EXCEPT ![q] = sz[p]]
  /\ new' = [new EXCEPT ![p] = NoSpace]
  /\ vpc' = [vpc EXCEPT ![p] = "user", ![q] = "user"]
  /\ loc' = [loc EXCEPT ![p] = NoCall]
  /\ UNCHANGED <<freelist, kstack>>

(* The program is loaded: two more pages for the guard and the stack. *)
exec_loaded(p) ==
  LET top == PGROUNDUP(loc[p].goal) IN
  /\ now(p, "alloc") /\ loc[p].op = "exec" /\ loc[p].a >= loc[p].goal
  /\ loc' = [loc EXCEPT ![p].op = "stack", ![p].a = top, ![p].goal = top + 2 * PGSIZE]
  /\ UNCHANGED <<freelist, space, sz, kstack, vpc, new>>

(* The arguments fit or do not; then the image is replaced and the old one *)
(* freed.                                                                  *)
exec_done(p, fits) ==
  /\ now(p, "alloc") /\ loc[p].op = "stack" /\ loc[p].a >= loc[p].goal
  /\ IF ~fits THEN Fails(p)
     ELSE /\ space' = [space EXCEPT ![p] = new[p]]
          /\ sz' = [sz EXCEPT ![p] = loc[p].goal]
          /\ freelist' = freelist \cup Pages(space[p])
          /\ new' = [new EXCEPT ![p] = NoSpace]
          /\ vpc' = [vpc EXCEPT ![p] = "user"]
          /\ loc' = [loc EXCEPT ![p] = NoCall]
          /\ UNCHANGED kstack

sbrk_done(p) ==
  /\ now(p, "alloc") /\ loc[p].op = "sbrk" /\ loc[p].a >= loc[p].goal
  /\ sz' = [sz EXCEPT ![p] = loc[p].goal]
  /\ vpc' = [vpc EXCEPT ![p] = "user"]
  /\ loc' = [loc EXCEPT ![p] = NoCall]
  /\ UNCHANGED <<freelist, space, kstack, new>>

(* exit, called by the process or by trap after a page fault. *)
exit(p) ==
  /\ now(p, "user") \/ now(p, "fault")
  /\ p # First
  /\ vpc' = [vpc EXCEPT ![p] = "zombie"]
  /\ UNCHANGED <<freelist, space, sz, kstack, loc, new>>

(* wait, by whichever process: the stack and freevm. *)
wait(p) ==
  /\ now(p, "zombie")
  /\ freelist' = freelist \cup Pages(space[p]) \cup {kstack[p]}
  /\ space' = [space EXCEPT ![p] = NoSpace]
  /\ kstack' = [kstack EXCEPT ![p] = 0]
  /\ sz' = [sz EXCEPT ![p] = 0]
  /\ vpc' = [vpc EXCEPT ![p] = "none"]
  /\ UNCHANGED <<loc, new>>

VmNext ==
  \E p \in Procs :
    \/ \E q \in Procs : fork(p, q)
    \/ \E n \in Images : exec(p, n)
    \/ \E n \in Sbrks : sbrk_grow(p, n) \/ sbrk_shrink(p, n)
    \/ setupkvm(p) \/ alloc(p) \/ mappages(p)
    \/ fork_done(p) \/ exec_loaded(p) \/ sbrk_done(p)
    \/ \E fits \in BOOLEAN : exec_done(p, fits)
    \/ exit(p) \/ wait(p)

VmSpec == VmInit /\ [][VmNext]_memVars

-----------------------------------------------------------------------------

Space == [dir : Frames \cup {0}, kpt : SUBSET Frames, pt : [Tables -> Frames \cup {0}],
          pg : [VPages -> Frames \cup {0}]]

Locals == [op : {"none", "fork", "exec", "stack", "sbrk"}, child : Procs,
           mem : Frames \cup {0}, a : Nat, goal : Nat]

VmTypeOK ==
  /\ freelist \in SUBSET Frames
  /\ space \in [Procs -> Space] /\ new \in [Procs -> Space]
  /\ sz \in [Procs -> 0..KERNBASE - 1]
  /\ kstack \in [Procs -> Frames \cup {0}]
  /\ vpc \in [Procs -> {"none", "embryo", "user", "setupkvm", "alloc", "mappages", "fault", "zombie", "panic"}]
  /\ loc \in [Procs -> Locals]

(* Where a page of memory can be: on the free list, in a role in the space *)
(* of a process or in the one it is building, a kernel stack, or at hand.  *)
Roles == ({"dir", "kpt"} \X {0}) \cup ({"pt"} \X Tables) \cup ({"pg"} \X VPages)
Free == <<"free", First, <<"page", 0>>>>
Places == {Free} \cup ({"space", "new"} \X Procs \X Roles)
                 \cup ({"kstack", "mem"} \X Procs \X {<<"page", 0>>})

In(s, r) ==
  IF r[1] = "dir" THEN {s.dir} \ {0}
  ELSE IF r[1] = "kpt" THEN s.kpt
  ELSE IF r[1] = "pt" THEN {s.pt[r[2]]} \ {0}
  ELSE {s.pg[r[2]]} \ {0}
Held(w) ==
  IF w[1] = "free" THEN freelist
  ELSE IF w[1] = "space" THEN In(space[w[2]], w[3])
  ELSE IF w[1] = "new" THEN In(new[w[2]], w[3])
  ELSE IF w[1] = "kstack" THEN {kstack[w[2]]} \ {0}
  ELSE {loc[w[2]].mem} \ {0}

(* Every page of memory is in exactly one place: on the free list, or in   *)
(* one role in one process.  So no page is lost by an error path that gives *)
(* back part of what it took, none is freed twice, and no two address      *)
(* spaces share a page.                                                    *)
PagesAccounted ==
  LET Used == {w \in Places : Held(w) # {}} IN
  /\ UNION {Held(w) : w \in Used} = Frames
  /\ \A w, v \in Used : w # v => Held(w) \cap Held(v) = {}

(* In user mode a process has exactly the pages below its size, whatever   *)
(* the sequence of sbrk, exec and fork, with sizes that are not multiples  *)
(* of a page; except after sbrk(-sz), which takes its pages and leaves sz, *)
(* and after which it does not run on.                                     *)
ImageMatchesSize ==
  \A p \in Procs : vpc[p] = "user" =>
    \A v \in VPages : space[p].pg[v] # 0 <=> v * PGSIZE < sz[p]

(* Memory (vm.c, kalloc.c, exec.c, proc.c): no page is lost, shared or     *)
(* free while it is mapped, whichever kalloc fails; a process that runs    *)
(* has the pages of its size (after sbrk(-sz) it does not run on); and the *)
(* assertions of the code hold: mappages does not remap a page, and        *)
(* copyuvm finds every page below sz ("copyuvm: page not present",         *)
(* vm.c:416).                                                              *)
PagesSound == part = "memory" => VmTypeOK /\ PagesAccounted /\ ImageMatchesSize /\ ~Halted
=============================================================================
