------------------------------- MODULE VmProofs -------------------------------
EXTENDS Vm, FiniteSetTheorems, NaturalsInduction, WellFoundedInduction, TLAPS

(* The pages below an address, and the pages that a space maps. *)
Below(n) == {v \in VPages : v * PGSIZE < n}
Mapping(s) == {v \in VPages : s.pg[v] # 0}

(* The space in which a call maps pages. *)
Building(p) == IF loc[p].op = "sbrk" THEN space[p] ELSE new[p]

-----------------------------------------------------------------------------
(* The inductive invariant. *)

(* A process outside a call has its image and nothing else: all of it in   *)
(* user mode, and what is left of it when it has died.                     *)
Idle(p) ==
  /\ new[p] = NoSpace /\ loc[p] = NoCall
  /\ vpc[p] = "none" => space[p] = NoSpace /\ kstack[p] = 0
  /\ vpc[p] = "embryo" => space[p] = NoSpace /\ kstack[p] # 0
  /\ vpc[p] \in {"user", "fault", "zombie"} => kstack[p] # 0
  /\ vpc[p] = "user" => Mapping(space[p]) = Below(sz[p])

(* A call has mapped exactly the pages below a, which is the boundary of a *)
(* page and at most a page beyond the goal; a page is at hand between       *)
(* kalloc and mappages.                                                    *)
Call(p) ==
  LET l == loc[p] IN
  /\ l.op # "none" /\ kstack[p] # 0
  /\ \E k \in Nat : l.a = k * PGSIZE
  /\ l.a < l.goal + PGSIZE
  /\ Mapping(Building(p)) = Below(l.a)
  /\ l.mem # 0 <=> vpc[p] = "mappages"
  /\ vpc[p] = "mappages" => l.a < l.goal /\ l.goal < KERNBASE
  /\ vpc[p] = "setupkvm" => l.op \in {"fork", "exec"} /\ l.a = 0
  /\ l.op = "sbrk" => new[p] = NoSpace /\ PGROUNDUP(sz[p]) <= l.a
                     /\ sz[p] <= l.goal /\ l.goal < KERNBASE
  /\ l.op # "sbrk" => Mapping(space[p]) = Below(sz[p])
  /\ l.op = "fork" => vpc[l.child] = "embryo" /\ l.goal = sz[p]
  /\ l.op = "stack" => l.a < l.goal \/ l.goal < KERNBASE

InCall == {"setupkvm", "alloc", "mappages"}

Ctl(p) ==
  /\ vpc[p] # "panic"
  /\ vpc[p] \in InCall => Call(p)
  /\ vpc[p] \notin InCall => Idle(p)

Control ==
  /\ \A p \in Procs : Ctl(p)
  /\ \A p, q \in Procs :
       loc[p].op = "fork" /\ loc[q].op = "fork" /\ loc[p].child = loc[q].child => p = q

VmInv == VmTypeOK /\ PagesAccounted /\ Control
-----------------------------------------------------------------------------
(* Arithmetic of addresses and pages. *)

\* The order of multiples of the page size.
LEMMA Multiples ==
  ASSUME NEW v \in Nat, NEW k \in Nat, NEW c \in Nat \ {0}
  PROVE  /\ v < k <=> v * c < k * c
         /\ v < k <=> v * c + c <= k * c
         /\ (k * c) \div c = k
         /\ (k + 1) * c = k * c + c
<1>1. ASSUME v < k PROVE v * c + c <= k * c
  <2>1. PICK d \in Nat : k = v + 1 + d
    <3>1. k - v - 1 \in Nat /\ k = v + 1 + (k - v - 1)
      BY <1>1
    <3>2. QED
      BY Zenon, <3>1
  <2>2. k * c = v * c + c + d * c /\ d * c \in Nat
    BY <2>1
  <2>3. QED
    BY <2>2
<1>2. ASSUME v >= k PROVE v * c >= k * c
  <2>1. PICK d \in Nat : v = k + d
    <3>1. v - k \in Nat /\ v = k + (v - k)
      BY <1>2
    <3>2. QED
      BY Zenon, <3>1
  <2>2. v * c = k * c + d * c /\ d * c \in Nat
    BY <2>1
  <2>3. QED
    BY <2>2
<1>3. v * c \in Nat /\ k * c \in Nat
  OBVIOUS
<1>4. (k * c) \div c = k
  OBVIOUS
<1>5. (k + 1) * c = k * c + c
  OBVIOUS
<1>6. QED
  BY <1>1, <1>2, <1>3, <1>4, <1>5

\* PGROUNDUP is the least page boundary from an address on.
LEMMA RoundUp ==
  ASSUME NEW n \in Nat
  PROVE  \E k \in Nat : PGROUNDUP(n) = k * PGSIZE /\ n <= k * PGSIZE /\ k * PGSIZE < n + PGSIZE
<1>1. PGSIZE \in Nat \ {0}
  BY Zenon, VmAssumption DEF VmConstants
<1> DEFINE k == (n + PGSIZE - 1) \div PGSIZE
<1>2. k \in Nat /\ k * PGSIZE <= n + PGSIZE - 1 /\ n + PGSIZE - 1 < k * PGSIZE + PGSIZE
  BY <1>1
<1>3. PGROUNDUP(n) = k * PGSIZE
  BY Zenon DEF PGROUNDUP
<1>4. n <= k * PGSIZE /\ k * PGSIZE < n + PGSIZE
  BY <1>1, <1>2
<1>5. QED
  BY Zenon, <1>2, <1>3, <1>4


\* What the constants give: the pages of user space are those below KERNBASE.
LEMMA Sizes ==
  /\ PGSIZE \in Nat \ {0} /\ KERNBASE \in Nat /\ UINT \in Nat /\ UINT >= 2 * KERNBASE
  /\ VPages \subseteq Nat /\ Tables \subseteq Nat /\ 0 \notin Frames /\ Frames \subseteq Nat
  /\ \A v \in Nat : v \in VPages <=> v * PGSIZE < KERNBASE
  /\ \A v \in VPages : PDX(v) \in Tables
<1> DEFINE n == NPTENTRIES * NPDENTRIES
<1>1. /\ PGSIZE \in Nat \ {0} /\ NPTENTRIES \in Nat \ {0} /\ NPDENTRIES \in Nat \ {0} /\ UINT \in Nat
      /\ UINT >= 2 * PGSIZE * NPTENTRIES * NPDENTRIES
  BY Zenon, VmAssumption DEF VmConstants
<1>2. n \in Nat /\ n = NPDENTRIES * NPTENTRIES
  BY <1>1
<1>3. KERNBASE = n * PGSIZE
  BY <1>1 DEF KERNBASE
<1>4. 2 * PGSIZE * NPTENTRIES * NPDENTRIES = 2 * KERNBASE
  BY <1>1 DEF KERNBASE
<1>5. VPages = 0..n - 1
  BY Zenon DEF VPages
<1> HIDE DEF n
<1>6. VPages \subseteq Nat /\ Tables \subseteq Nat /\ 0 \notin Frames /\ Frames \subseteq Nat
  BY <1>1, <1>2, <1>5, VmAssumption DEF Tables, Frames, VmConstants
<1>7. ASSUME NEW v \in Nat PROVE v \in VPages <=> v * PGSIZE < KERNBASE
  <2>1. v < n <=> v * PGSIZE < n * PGSIZE
    BY Zenon, <1>1, <1>2, Multiples
  <2>2. QED
    BY <2>1, <1>2, <1>3, <1>5
<1>8. ASSUME NEW v \in VPages PROVE PDX(v) \in Tables
  <2> DEFINE d == v \div NPTENTRIES
  <2>1. v \in Nat /\ v < n
    BY <1>2, <1>5
  <2>2. d \in Nat /\ d * NPTENTRIES <= v
    BY <1>1, <2>1
  <2>3. d * NPTENTRIES < NPDENTRIES * NPTENTRIES
    BY <1>1, <1>2, <2>1, <2>2
  <2>4. d < NPDENTRIES
    BY Zenon, <1>1, <2>2, <2>3, Multiples
  <2>5. QED
    BY <1>1, <2>2, <2>4 DEF PDX, Tables
<1>9. KERNBASE \in Nat
  BY <1>1, <1>2, <1>3
<1>10. QED
  BY Zenon, <1>1, <1>4, <1>6, <1>7, <1>8, <1>9

\* The page at a boundary is the next one that is not below it.
LEMMA NextPage ==
  ASSUME NEW k \in Nat, k * PGSIZE < KERNBASE
  PROVE  /\ k \in VPages \ Below(k * PGSIZE) /\ (k * PGSIZE) \div PGSIZE = k
         /\ Below(k * PGSIZE + PGSIZE) = Below(k * PGSIZE) \cup {k}
         /\ k * PGSIZE + PGSIZE = (k + 1) * PGSIZE
<1>1. k \in VPages /\ (k * PGSIZE) \div PGSIZE = k /\ k * PGSIZE + PGSIZE = (k + 1) * PGSIZE
  BY Zenon, Sizes, Multiples
<1>2. k \notin Below(k * PGSIZE)
  BY Sizes DEF Below
<1>3. ASSUME NEW v \in VPages
      PROVE  v * PGSIZE < (k + 1) * PGSIZE <=> v * PGSIZE < k * PGSIZE \/ v = k
  <2>1. v \in Nat /\ k + 1 \in Nat /\ PGSIZE \in Nat \ {0}
    BY Sizes
  <2>2. v < k <=> v * PGSIZE < k * PGSIZE
    BY Zenon, <2>1, Multiples
  <2>3. v < k + 1 <=> v * PGSIZE < (k + 1) * PGSIZE
    BY Zenon, <2>1, Multiples
  <2>4. v < k + 1 <=> v < k \/ v = k
    BY <2>1
  <2>5. QED
    BY Zenon, <2>2, <2>3, <2>4
<1>4. Below(k * PGSIZE + PGSIZE) = Below(k * PGSIZE) \cup {k}
  BY <1>1, <1>3, Zenon DEF Below
<1>5. QED
  BY Zenon, <1>1, <1>2, <1>4

\* The pages below a size are those below the boundary at or above it.
LEMMA SamePages ==
  ASSUME NEW k \in Nat, NEW g \in Nat, g <= k * PGSIZE, k * PGSIZE < g + PGSIZE
  PROVE  Below(k * PGSIZE) = Below(g)
<1>1. ASSUME NEW v \in VPages PROVE v * PGSIZE < k * PGSIZE <=> v * PGSIZE < g
  <2>1. v \in Nat /\ PGSIZE \in Nat \ {0} /\ v * PGSIZE \in Nat /\ k * PGSIZE \in Nat
    BY Sizes
  <2>2. v * PGSIZE < k * PGSIZE <=> v * PGSIZE + PGSIZE <= k * PGSIZE
    BY Zenon, <2>1, Multiples
  <2>3. QED
    BY <2>1, <2>2
<1>2. QED
  BY <1>1, Zenon DEF Below

\* deallocuvm takes from the pages below a boundary exactly those that are not
\* below the new size.
LEMMA Dealloc ==
  ASSUME NEW s, NEW n \in Nat, NEW g \in Nat, NEW k \in Nat,
         Mapping(s) = Below(k * PGSIZE), n <= g, k * PGSIZE < g + PGSIZE
  PROVE  Mapping(s) \ dealloc(s, g, n) = Below(n) \cap Below(k * PGSIZE)
<1>1. PICK m \in Nat : PGROUNDUP(n) = m * PGSIZE /\ n <= m * PGSIZE /\ m * PGSIZE < n + PGSIZE
  BY Zenon, RoundUp
<1>2. ASSUME NEW v \in Below(k * PGSIZE)
      PROVE  v \in dealloc(s, g, n) <=> v \notin Below(n)
  <2>1. /\ v \in VPages /\ v \in Nat /\ PGSIZE \in Nat \ {0} /\ v * PGSIZE \in Nat
        /\ m * PGSIZE \in Nat /\ k * PGSIZE \in Nat /\ v * PGSIZE < k * PGSIZE
    BY Sizes DEF Below
  <2>2. v * PGSIZE + PGSIZE <= k * PGSIZE
    BY Zenon, <2>1, Multiples
  <2>3. v * PGSIZE < g
    BY <2>1, <2>2
  <2>4. v * PGSIZE < m * PGSIZE <=> v * PGSIZE + PGSIZE <= m * PGSIZE
    BY Zenon, <2>1, Multiples
  <2>5. v * PGSIZE >= m * PGSIZE <=> ~(v * PGSIZE < n)
    BY <1>1, <2>1, <2>4
  <2>6. s.pg[v] # 0
    BY Zenon, <2>1 DEF Mapping
  <2>7. v \in dealloc(s, g, n) <=> v * PGSIZE >= m * PGSIZE
    BY <1>1, <2>1, <2>3, <2>6, Zenon DEF dealloc
  <2>8. QED
    BY <2>1, <2>5, <2>7, Zenon DEF Below
<1>3. QED
  BY <1>2, Zenon


-----------------------------------------------------------------------------
(* The roles of pages in a space. *)

Dir == <<"dir", 0>>
Kpt == <<"kpt", 0>>
Pt(d) == <<"pt", d>>
Pg(v) == <<"pg", v>>

\* Every role is one of these four kinds.
LEMMA RolesAre ==
  /\ Dir \in Roles /\ Kpt \in Roles /\ Dir # Kpt
  /\ \A d \in Tables : Pt(d) \in Roles /\ Pt(d) # Dir /\ Pt(d) # Kpt
  /\ \A v \in VPages : Pg(v) \in Roles /\ Pg(v) # Dir /\ Pg(v) # Kpt
  /\ \A d \in Tables, v \in VPages : Pt(d) # Pg(v)
  /\ \A d, e \in Tables : Pt(d) = Pt(e) => d = e
  /\ \A v, w \in VPages : Pg(v) = Pg(w) => v = w
  /\ \A r \in Roles : \/ r = Dir \/ r = Kpt
                      \/ \E d \in Tables : r = Pt(d)
                      \/ \E v \in VPages : r = Pg(v)
BY DEF Roles, Dir, Kpt, Pt, Pg

\* The pages of a space by role.
LEMMA InIs ==
  ASSUME NEW s
  PROVE  /\ In(s, Dir) = {s.dir} \ {0} /\ In(s, Kpt) = s.kpt
         /\ \A d \in Tables : In(s, Pt(d)) = {s.pt[d]} \ {0}
         /\ \A v \in VPages : In(s, Pg(v)) = {s.pg[v]} \ {0}
BY Zenon DEF In, Dir, Kpt, Pt, Pg

\* The parts of a space have their types.
LEMMA SpaceIs ==
  ASSUME NEW s \in Space
  PROVE  /\ s.dir \in Frames \cup {0} /\ s.kpt \in SUBSET Frames
         /\ s.pt \in [Tables -> Frames \cup {0}] /\ s.pg \in [VPages -> Frames \cup {0}]
         /\ \A r \in Roles : In(s, r) \in SUBSET Frames
         /\ Mapping(s) \in SUBSET VPages
<1>1. /\ s.dir \in Frames \cup {0} /\ s.kpt \in SUBSET Frames
      /\ s.pt \in [Tables -> Frames \cup {0}] /\ s.pg \in [VPages -> Frames \cup {0}]
  BY Zenon DEF Space
<1>2. ASSUME NEW r \in Roles PROVE In(s, r) \in SUBSET Frames
  <2>1. CASE r = Dir
    <3>1. In(s, r) = {s.dir} \ {0}
      BY Zenon, <2>1, InIs
    <3>2. QED
      BY <1>1, <3>1, Zenon
  <2>2. CASE r = Kpt
    BY <1>1, <2>2, InIs, Zenon
  <2>3. ASSUME NEW d \in Tables, r = Pt(d) PROVE In(s, r) \in SUBSET Frames
    <3>1. s.pt[d] \in Frames \cup {0} /\ In(s, r) = {s.pt[d]} \ {0}
      BY Zenon, <1>1, <2>3, InIs
    <3>2. QED
      BY <3>1, Zenon
  <2>4. ASSUME NEW v \in VPages, r = Pg(v) PROVE In(s, r) \in SUBSET Frames
    <3>1. s.pg[v] \in Frames \cup {0} /\ In(s, r) = {s.pg[v]} \ {0}
      BY Zenon, <1>1, <2>4, InIs
    <3>2. QED
      BY <3>1, Zenon
  <2>5. QED
    BY <2>1, <2>2, <2>3, <2>4, RolesAre, Zenon
<1>3. QED
  BY <1>1, <1>2, Zenon DEF Mapping

\* No space has no page.
LEMMA NoSpaceIs ==
  /\ NoSpace \in Space /\ Mapping(NoSpace) = {} /\ Pages(NoSpace) = {}
  /\ \A r \in Roles : In(NoSpace, r) = {}
<1>1. /\ NoSpace.dir = 0 /\ NoSpace.kpt = {} /\ NoSpace \in Space
      /\ NoSpace.pt = [d \in Tables |-> 0] /\ NoSpace.pg = [v \in VPages |-> 0]
  BY Zenon DEF NoSpace, Space
<1>2. ASSUME NEW r \in Roles PROVE In(NoSpace, r) = {}
  <2>1. (\A d \in Tables : NoSpace.pt[d] = 0) /\ (\A v \in VPages : NoSpace.pg[v] = 0)
    BY Zenon, <1>1
  <2>2. QED
    BY <1>1, <2>1, InIs, RolesAre
<1>3. Mapping(NoSpace) = {}
  BY Zenon, <1>1 DEF Mapping
<1>4. Pages(NoSpace) = {}
  BY <1>1 DEF Pages, Range
<1>5. QED
  BY Zenon, <1>1, <1>2, <1>3, <1>4

\* freevm frees what the roles hold.
LEMMA PagesAre ==
  ASSUME NEW s \in Space
  PROVE  Pages(s) = UNION {In(s, r) : r \in Roles}
<1>1. /\ s.pt \in [Tables -> Frames \cup {0}] /\ s.pg \in [VPages -> Frames \cup {0}]
      /\ s.kpt \in SUBSET Frames /\ 0 \notin Frames
  BY Zenon, SpaceIs, Sizes
<1>2. /\ Range(s.pt) = {s.pt[d] : d \in Tables}
      /\ Range(s.pg) = {s.pg[v] : v \in VPages}
  BY Zenon, <1>1 DEF Range
<1>3. ASSUME NEW f PROVE f \in Pages(s) <=> \E r \in Roles : f \in In(s, r)
  <2>1. f \in Pages(s) <=>
          /\ f # 0
          /\ f = s.dir \/ f \in s.kpt \/ (\E d \in Tables : f = s.pt[d]) \/ (\E v \in VPages : f = s.pg[v])
    BY <1>2, Zenon DEF Pages
  <2>2. ASSUME f \in Pages(s) PROVE \E r \in Roles : f \in In(s, r)
    BY <2>1, <2>2, InIs, RolesAre
  <2>3. ASSUME NEW r \in Roles, f \in In(s, r) PROVE f \in Pages(s)
    BY <1>1, <2>1, <2>3, InIs, RolesAre
  <2>4. QED
    BY <2>2, <2>3, Zenon
<1>4. QED
  BY Zenon, <1>3


\* Two spaces that agree on the entry of a role have the same page in it.
LEMMA InSame ==
  ASSUME NEW s, NEW t, NEW r \in Roles,
         r = Dir => t.dir = s.dir, r = Kpt => t.kpt = s.kpt,
         \A d \in Tables : r = Pt(d) => t.pt[d] = s.pt[d],
         \A v \in VPages : r = Pg(v) => t.pg[v] = s.pg[v]
  PROVE  In(t, r) = In(s, r)
<1>1. CASE r = Dir
  <2>1. In(t, Dir) = {t.dir} \ {0} /\ In(s, Dir) = {s.dir} \ {0}
    BY InIs, Zenon
  <2>2. QED
    BY <1>1, <2>1, Zenon
<1>2. CASE r = Kpt
  <2>1. In(t, Kpt) = t.kpt /\ In(s, Kpt) = s.kpt
    BY InIs, Zenon
  <2>2. QED
    BY <1>2, <2>1, Zenon
<1>3. ASSUME NEW d \in Tables, r = Pt(d) PROVE In(t, r) = In(s, r)
  <2>1. In(t, Pt(d)) = {t.pt[d]} \ {0} /\ In(s, Pt(d)) = {s.pt[d]} \ {0}
    BY InIs, Zenon
  <2>2. QED
    BY <1>3, <2>1, Zenon
<1>4. ASSUME NEW v \in VPages, r = Pg(v) PROVE In(t, r) = In(s, r)
  <2>1. In(t, Pg(v)) = {t.pg[v]} \ {0} /\ In(s, Pg(v)) = {s.pg[v]} \ {0}
    BY InIs, Zenon
  <2>2. QED
    BY <1>4, <2>1, Zenon
<1>5. QED
  BY <1>1, <1>2, <1>3, <1>4, RolesAre, Zenon

\* setupkvm: a page for the directory.
LEMMA WithDir ==
  ASSUME NEW s \in Space, NEW x \in Frames, s.dir = 0
  PROVE  LET t == [s EXCEPT !.dir = x] IN
         /\ t \in Space /\ Mapping(t) = Mapping(s)
         /\ In(t, Dir) = In(s, Dir) \cup {x}
         /\ \A r \in Roles \ {Dir} : In(t, r) = In(s, r)
<1> DEFINE t == [s EXCEPT !.dir = x]
<1>1. t \in Space /\ t.dir = x /\ t.kpt = s.kpt /\ t.pt = s.pt /\ t.pg = s.pg
  BY Zenon DEF Space
<1> HIDE DEF t
<1>2. Mapping(t) = Mapping(s)
  BY <1>1, Zenon DEF Mapping
<1>3. In(t, Dir) = {x} \ {0} /\ In(s, Dir) = {} /\ x # 0
  BY Zenon, <1>1, InIs, Sizes
<1>4. ASSUME NEW r \in Roles \ {Dir} PROVE In(t, r) = In(s, r)
  BY <1>1, InSame, Zenon
<1>5. In(t, Dir) = In(s, Dir) \cup {x}
  BY Zenon, <1>3
<1>6. QED
  BY <1>1, <1>2, <1>4, <1>5, Zenon DEF t

\* setupkvm: a page for one of the kernel's page tables.
LEMMA WithTable ==
  ASSUME NEW s \in Space, NEW x \in Frames
  PROVE  LET t == [s EXCEPT !.kpt = @ \cup {x}] IN
         /\ t \in Space /\ Mapping(t) = Mapping(s)
         /\ In(t, Kpt) = In(s, Kpt) \cup {x}
         /\ \A r \in Roles \ {Kpt} : In(t, r) = In(s, r)
<1> DEFINE t == [s EXCEPT !.kpt = @ \cup {x}]
<1>1. t \in Space /\ t.dir = s.dir /\ t.kpt = s.kpt \cup {x} /\ t.pt = s.pt /\ t.pg = s.pg
  BY Zenon DEF Space
<1> HIDE DEF t
<1>2. Mapping(t) = Mapping(s)
  BY <1>1, Zenon DEF Mapping
<1>3. In(t, Kpt) = In(s, Kpt) \cup {x}
  BY Zenon, <1>1, InIs
<1>4. ASSUME NEW r \in Roles \ {Kpt} PROVE In(t, r) = In(s, r)
  BY <1>1, InSame, Zenon
<1>5. QED
  BY <1>1, <1>2, <1>3, <1>4, Zenon DEF t

\* mappages: the page at v, and its page table.
LEMMA WithPage ==
  ASSUME NEW s \in Space, NEW v \in VPages, NEW page \in Frames, NEW pt \in Frames,
         s.pg[v] = 0
  PROVE  LET t == Mapped(s, v, page, pt) IN
         /\ t \in Space /\ Mapping(t) = Mapping(s) \cup {v}
         /\ In(t, Pg(v)) = {page} /\ In(s, Pg(v)) = {}
         /\ In(t, Pt(PDX(v))) = {pt} /\ In(s, Pt(PDX(v))) = {s.pt[PDX(v)]} \ {0}
         /\ \A r \in Roles \ {Pg(v), Pt(PDX(v))} : In(t, r) = In(s, r)
<1> DEFINE t == Mapped(s, v, page, pt)
           d == PDX(v)
<1>0. d \in Tables /\ page # 0 /\ pt # 0
  BY Zenon, Sizes
<1> HIDE DEF d
<1>1. /\ s.dir \in Frames \cup {0} /\ s.kpt \in SUBSET Frames
      /\ s.pt \in [Tables -> Frames \cup {0}] /\ s.pg \in [VPages -> Frames \cup {0}]
  BY Zenon, SpaceIs
<1>2. /\ t.dir = s.dir /\ t.kpt = s.kpt
      /\ t.pt = [s.pt EXCEPT ![d] = pt] /\ t.pg = [s.pg EXCEPT ![v] = page]
  BY Zenon DEF Mapped, d, Space
<1>3. t \in Space
  BY Zenon, <1>0, <1>1 DEF Mapped, d, Space
<1> HIDE DEF t
<1>4. /\ t.pg[v] = page /\ \A w \in VPages : w # v => t.pg[w] = s.pg[w]
      /\ t.pt[d] = pt /\ \A e \in Tables : e # d => t.pt[e] = s.pt[e]
  BY Zenon, <1>0, <1>1, <1>2
<1>5. Mapping(t) = Mapping(s) \cup {v}
  BY Zenon, <1>0, <1>4 DEF Mapping
<1>6. /\ In(t, Pg(v)) = {page} /\ In(s, Pg(v)) = {}
      /\ In(t, Pt(d)) = {pt} /\ In(s, Pt(d)) = {s.pt[d]} \ {0}
  <2>1. In(t, Pg(v)) = {t.pg[v]} \ {0} /\ In(s, Pg(v)) = {s.pg[v]} \ {0}
    BY InIs
  <2>2. In(t, Pt(d)) = {t.pt[d]} \ {0} /\ In(s, Pt(d)) = {s.pt[d]} \ {0}
    BY InIs, <1>0
  <2>3. QED
    BY Zenon, <1>0, <1>4, <2>1, <2>2
<1>7. ASSUME NEW r \in Roles \ {Pg(v), Pt(d)} PROVE In(t, r) = In(s, r)
  <2>1. \A e \in Tables : r = Pt(e) => t.pt[e] = s.pt[e]
    BY Zenon, <1>4, <1>7
  <2>2. \A w \in VPages : r = Pg(w) => t.pg[w] = s.pg[w]
    BY Zenon, <1>4, <1>7
  <2>3. QED
    BY <1>2, <2>1, <2>2, InSame, Zenon
<1>8. QED
  BY <1>3, <1>5, <1>6, <1>7, Zenon DEF t, d

\* deallocuvm: pages are unmapped, the page tables stay.
LEMMA WithoutPages ==
  ASSUME NEW s \in Space, NEW vs \in SUBSET VPages
  PROVE  LET t == unmap(s, vs) IN
         /\ t \in Space /\ Mapping(t) = Mapping(s) \ vs
         /\ \A v \in vs : In(t, Pg(v)) = {}
         /\ \A r \in Roles : (\A v \in vs : r # Pg(v)) => In(t, r) = In(s, r)
<1> DEFINE t == unmap(s, vs)
<1>1. /\ s.dir \in Frames \cup {0} /\ s.kpt \in SUBSET Frames
      /\ s.pt \in [Tables -> Frames \cup {0}] /\ s.pg \in [VPages -> Frames \cup {0}]
  BY Zenon, SpaceIs
<1>2. /\ t.dir = s.dir /\ t.kpt = s.kpt /\ t.pt = s.pt
      /\ t.pg = [v \in VPages |-> IF v \in vs THEN 0 ELSE s.pg[v]]
  BY Zenon DEF unmap, Space
<1>3. t \in Space
  BY Zenon, <1>1 DEF unmap, Space
<1> HIDE DEF t
<1>4. \A v \in VPages : t.pg[v] = IF v \in vs THEN 0 ELSE s.pg[v]
  BY Zenon, <1>2
<1>5. Mapping(t) = Mapping(s) \ vs
  BY Zenon, <1>4 DEF Mapping
<1>6. ASSUME NEW v \in vs PROVE In(t, Pg(v)) = {}
  <2>1. v \in VPages /\ t.pg[v] = 0
    BY Zenon, <1>4
  <2>2. In(t, Pg(v)) = {t.pg[v]} \ {0}
    BY Zenon, <2>1, InIs
  <2>3. QED
    BY Zenon, <2>1, <2>2
<1>7. ASSUME NEW r \in Roles, \A v \in vs : r # Pg(v) PROVE In(t, r) = In(s, r)
  <2>1. \A v \in VPages : r = Pg(v) => t.pg[v] = s.pg[v]
    BY Zenon, <1>4, <1>7
  <2>2. QED
    BY <1>2, <2>1, InSame, Zenon
<1>8. QED
  BY <1>3, <1>5, <1>6, <1>7, Zenon DEF t


-----------------------------------------------------------------------------
(* The places of pages. *)

Sp(p, r) == <<"space", p, r>>
Nw(p, r) == <<"new", p, r>>
Ks(p) == <<"kstack", p, <<"page", 0>>>>
Me(p) == <<"mem", p, <<"page", 0>>>>

\* Every place is of one of these kinds.
LEMMA PlacesAre ==
  /\ Free \in Places
  /\ \A p \in Procs, r \in Roles : Sp(p, r) \in Places /\ Nw(p, r) \in Places
  /\ \A p \in Procs : Ks(p) \in Places /\ Me(p) \in Places
  /\ \A u \in Places : \/ u = Free
                       \/ \E p \in Procs, r \in Roles : u = Sp(p, r)
                       \/ \E p \in Procs, r \in Roles : u = Nw(p, r)
                       \/ \E p \in Procs : u = Ks(p)
                       \/ \E p \in Procs : u = Me(p)
BY DEF Places, Sp, Nw, Ks, Me

\* Places of different kinds, processes or roles are different.
LEMMA Apart ==
  /\ \A p, q, r, s : Sp(p, r) = Sp(q, s) <=> p = q /\ r = s
  /\ \A p, q, r, s : Nw(p, r) = Nw(q, s) <=> p = q /\ r = s
  /\ \A p, q : Ks(p) = Ks(q) <=> p = q
  /\ \A p, q : Me(p) = Me(q) <=> p = q
  /\ \A p, q, r, s : Sp(p, r) # Nw(q, s) /\ Sp(p, r) # Ks(q) /\ Sp(p, r) # Me(q) /\ Sp(p, r) # Free
  /\ \A p, q, r : Nw(p, r) # Ks(q) /\ Nw(p, r) # Me(q) /\ Nw(p, r) # Free
  /\ \A p, q : Ks(p) # Me(q) /\ Ks(p) # Free /\ Me(p) # Free
BY Zenon DEF Sp, Nw, Ks, Me, Free

\* The frame being mapped and the two places of a page in one space.
LEMMA ThreeApart ==
  ASSUME NEW p, NEW a, NEW b, a # b
  PROVE  /\ Me(p) # Sp(p, a) /\ Sp(p, a) # Sp(p, b) /\ Sp(p, b) # Me(p)
         /\ Me(p) # Nw(p, a) /\ Nw(p, a) # Nw(p, b) /\ Nw(p, b) # Me(p)
         /\ Me(p) # Free /\ Sp(p, a) # Free /\ Sp(p, b) # Free
         /\ Nw(p, a) # Free /\ Nw(p, b) # Free
BY Zenon DEF Sp, Nw, Me, Free

\* What the places hold.
LEMMA HeldIs ==
  /\ Held(Free) = freelist
  /\ \A p, r : Held(Sp(p, r)) = In(space[p], r) /\ Held(Nw(p, r)) = In(new[p], r)
  /\ \A p : Held(Ks(p)) = {kstack[p]} \ {0} /\ Held(Me(p)) = {loc[p].mem} \ {0}
BY Zenon DEF Held, Sp, Nw, Ks, Me, Free

\* What they hold after a step.
LEMMA HeldNext ==
  /\ Held(Free)' = freelist'
  /\ \A p, r : Held(Sp(p, r))' = In(space'[p], r) /\ Held(Nw(p, r))' = In(new'[p], r)
  /\ \A p : Held(Ks(p))' = {kstack'[p]} \ {0} /\ Held(Me(p))' = {loc'[p].mem} \ {0}
BY DEF Held, Sp, Nw, Ks, Me, Free, In

(* The one place of a page. *)
Owner(f, w) == \A u \in Places : f \in Held(u) <=> u = w

\* PagesAccounted, page by page.
LEMMA Owners ==
  ASSUME PagesAccounted
  PROVE  /\ \A u \in Places : Held(u) \in SUBSET Frames
         /\ \A f \in Frames : \E w \in Places : Owner(f, w)
<1> DEFINE Used == {w \in Places : Held(w) # {}}
<1>1. /\ UNION {Held(w) : w \in Used} = Frames
      /\ \A w, v \in Used : w # v => Held(w) \cap Held(v) = {}
  BY Zenon DEF PagesAccounted
<1>2. ASSUME NEW u \in Places, NEW f \in Held(u) PROVE u \in Used /\ f \in Frames
  BY Zenon, <1>1, <1>2
<1>3. ASSUME NEW f \in Frames PROVE \E w \in Places : Owner(f, w)
  <2>1. PICK w \in Used : f \in Held(w)
    BY Zenon, <1>1
  <2>2. ASSUME NEW u \in Places, f \in Held(u) PROVE u = w
    <3>1. u \in Used
      BY Zenon, <1>2, <2>2
    <3>2. QED
      BY Zenon, <1>1, <2>1, <2>2, <3>1
  <2>3. QED
    BY Zenon, <2>1, <2>2 DEF Owner
<1>4. QED
  BY Zenon, <1>2, <1>3

\* PagesAccounted after a step that gives every page one place.
LEMMA Owned ==
  ASSUME \A u \in Places : Held(u)' \in SUBSET Frames,
         \A f \in Frames : \E w \in Places : \A u \in Places : f \in Held(u)' <=> u = w
  PROVE  PagesAccounted'
<1> DEFINE Used == {w \in Places : Held(w)' # {}}
<1>1. UNION {Held(w)' : w \in Used} = Frames
  <2>1. ASSUME NEW f \in Frames PROVE \E w \in Used : f \in Held(w)'
    <3>1. PICK w \in Places : \A u \in Places : f \in Held(u)' <=> u = w
      BY Zenon
    <3>2. QED
      BY Zenon, <3>1
  <2>2. QED
    BY Zenon, <2>1
<1>2. ASSUME NEW w \in Used, NEW v \in Used, w # v PROVE Held(w)' \cap Held(v)' = {}
  <2>1. SUFFICES ASSUME NEW f \in Frames, f \in Held(w)', f \in Held(v)' PROVE FALSE
    BY Zenon
  <2>2. PICK x \in Places : \A u \in Places : f \in Held(u)' <=> u = x
    BY Zenon
  <2>3. QED
    BY Zenon, <1>2, <2>1, <2>2
<1>3. QED
  BY <1>1, <1>2, Zenon DEF PagesAccounted


\* What a step leaves where it is.
LEMMA Rest ==
  ASSUME NEW T, Free \in T,
         \A p \in Procs, r \in Roles : Sp(p, r) \notin T => In(space'[p], r) = In(space[p], r),
         \A p \in Procs, r \in Roles : Nw(p, r) \notin T => In(new'[p], r) = In(new[p], r),
         \A p \in Procs : Ks(p) \notin T => kstack'[p] = kstack[p],
         \A p \in Procs : Me(p) \notin T => loc'[p].mem = loc[p].mem
  PROVE  \A u \in Places \ T : Held(u)' = Held(u)
<1> SUFFICES ASSUME NEW u \in Places, u \notin T PROVE Held(u)' = Held(u)
  BY Zenon
<1>1. ASSUME NEW p \in Procs, NEW r \in Roles, u = Sp(p, r) PROVE Held(u)' = Held(u)
  BY <1>1, HeldIs, HeldNext
<1>2. ASSUME NEW p \in Procs, NEW r \in Roles, u = Nw(p, r) PROVE Held(u)' = Held(u)
  BY <1>2, HeldIs, HeldNext
<1>3. ASSUME NEW p \in Procs, u = Ks(p) PROVE Held(u)' = Held(u)
  <2>1. Held(u) = {kstack[p]} \ {0}
    BY Zenon, <1>3, HeldIs
  <2>2. Held(u)' = {kstack'[p]} \ {0}
    BY Zenon, <1>3, HeldNext
  <2>3. QED
    BY <1>3, <2>1, <2>2, Zenon
<1>4. ASSUME NEW p \in Procs, u = Me(p) PROVE Held(u)' = Held(u)
  <2>1. Held(u) = {loc[p].mem} \ {0}
    BY Zenon, <1>4, HeldIs
  <2>2. Held(u)' = {loc'[p].mem} \ {0}
    BY Zenon, <1>4, HeldNext
  <2>3. QED
    BY <1>4, <2>1, <2>2, Zenon
<1>5. QED
  BY <1>1, <1>2, <1>3, <1>4, PlacesAre, Zenon

\* A step that moves no page.
LEMMA Stay ==
  ASSUME PagesAccounted, freelist' = freelist, \A u \in Places \ {Free} : Held(u)' = Held(u)
  PROVE  PagesAccounted'
<1>1. \A u \in Places : Held(u)' = Held(u)
  BY HeldIs, HeldNext, Zenon
<1>2. \A u \in Places : Held(u)' \in SUBSET Frames
  BY <1>1, Owners, Zenon
<1>3. ASSUME NEW f \in Frames
      PROVE  \E w \in Places : \A u \in Places : f \in Held(u)' <=> u = w
  <2>1. PICK w \in Places : Owner(f, w)
    BY Owners, Zenon
  <2>2. QED
    BY <1>1, <2>1, Zenon DEF Owner
<1>4. QED
  BY <1>2, <1>3, Owned, Zenon

\* kalloc: a page leaves the free list for one other place.
LEMMA Take ==
  ASSUME PagesAccounted, NEW x \in freelist, NEW t \in Places, t # Free,
         freelist' = freelist \ {x}, Held(t)' = Held(t) \cup {x},
         \A u \in Places \ {t, Free} : Held(u)' = Held(u)
  PROVE  PagesAccounted'
<1>1. Free \in Places /\ Held(Free) = freelist /\ Held(Free)' = freelist \ {x}
  BY HeldIs, HeldNext, PlacesAre, Zenon
<1>2. \A u \in Places : Held(u) \in SUBSET Frames
  BY Owners, Zenon
<1>3. x \in Frames
  BY <1>1, <1>2, Zenon
<1>4. ASSUME NEW u \in Places PROVE Held(u)' \in SUBSET Frames
  <2>1. CASE u = t
    BY Zenon, <1>2, <1>3, <2>1
  <2>2. CASE u = Free
    BY <1>1, <1>2, <2>2
  <2>3. CASE u \in Places \ {t, Free}
    BY <1>2, <2>3, Zenon
  <2>4. QED
    BY <2>1, <2>2, <2>3, Zenon
<1>5. ASSUME NEW f \in Frames
      PROVE  \E w \in Places : \A u \in Places : f \in Held(u)' <=> u = w
  <2>1. PICK w \in Places : Owner(f, w)
    BY Owners, Zenon
  <2>2. CASE f = x
    <3>1. w = Free
      BY <1>1, <2>1, <2>2, Zenon DEF Owner
    <3>2. ASSUME NEW u \in Places PROVE f \in Held(u)' <=> u = t
      <4>1. CASE u = t
        BY Zenon, <2>2, <4>1
      <4>2. CASE u = Free
        BY Zenon, <1>1, <2>2, <4>2
      <4>3. CASE u \in Places \ {t, Free}
        BY <2>1, <3>1, <4>3, Zenon DEF Owner
      <4>4. QED
        BY <4>1, <4>2, <4>3, Zenon
    <3>3. QED
      BY <3>2, Zenon
  <2>3. CASE f # x
    <3>1. ASSUME NEW u \in Places PROVE f \in Held(u)' <=> f \in Held(u)
      <4>1. CASE u = t
        BY Zenon, <2>3, <4>1
      <4>2. CASE u = Free
        BY Zenon, <1>1, <2>3, <4>2
      <4>3. CASE u \in Places \ {t, Free}
        BY <4>3, Zenon
      <4>4. QED
        BY <4>1, <4>2, <4>3, Zenon
    <3>2. QED
      BY <2>1, <3>1, Zenon DEF Owner
  <2>4. QED
    BY <2>2, <2>3, Zenon
<1>6. QED
  BY <1>4, <1>5, Owned, Zenon

\* kfree: all the pages of some places go to the free list.
LEMMA Release ==
  ASSUME PagesAccounted, NEW R \in SUBSET Places, Free \notin R,
         freelist' = freelist \cup UNION {Held(u) : u \in R},
         \A u \in R : Held(u)' = {},
         \A u \in Places \ (R \cup {Free}) : Held(u)' = Held(u)
  PROVE  PagesAccounted'
<1>1. Free \in Places /\ Held(Free) = freelist /\ Held(Free)' = freelist \cup UNION {Held(u) : u \in R}
  BY HeldIs, HeldNext, PlacesAre, Zenon
<1>2. \A u \in Places : Held(u) \in SUBSET Frames
  BY Owners, Zenon
<1>3. ASSUME NEW u \in Places PROVE Held(u)' \in SUBSET Frames
  <2>1. CASE u \in R
    BY <2>1, Zenon
  <2>2. CASE u = Free
    BY <1>1, <1>2, <2>2, Zenon
  <2>3. CASE u \in Places \ (R \cup {Free})
    BY <1>2, <2>3, Zenon
  <2>4. QED
    BY <2>1, <2>2, <2>3, Zenon
<1>4. ASSUME NEW f \in Frames
      PROVE  \E w \in Places : \A u \in Places : f \in Held(u)' <=> u = w
  <2>1. PICK w \in Places : Owner(f, w)
    BY Owners, Zenon
  <2>2. CASE w \in R \cup {Free}
    <3>1. f \in Held(Free)'
      BY <1>1, <2>1, <2>2, Zenon DEF Owner
    <3>2. ASSUME NEW u \in Places, f \in Held(u)' PROVE u = Free
      BY <2>1, <2>2, <3>2, Zenon DEF Owner
    <3>3. QED
      BY <1>1, <3>1, <3>2, Zenon
  <2>3. CASE w \notin R \cup {Free}
    <3>1. f \in Held(w)'
      BY <2>1, <2>3, Zenon DEF Owner
    <3>2. ASSUME NEW u \in Places, f \in Held(u)' PROVE u = w
      <4>1. u \notin R
        BY <3>2, Zenon
      <4>2. f \notin Held(Free)'
        BY <1>1, <2>1, <2>3, Zenon DEF Owner
      <4>3. u # Free
        BY Zenon, <3>2, <4>2
      <4>4. QED
        BY <2>1, <3>2, <4>1, <4>3, Zenon DEF Owner
    <3>3. QED
      BY <3>1, <3>2, Zenon
  <2>4. QED
    BY <2>2, <2>3, Zenon
<1>5. QED
  BY <1>3, <1>4, Owned, Zenon


\* mappages: the page at hand goes to its place g in the space, and the pages X
\* of the free list, one or none, to the place h of a page table.
LEMMA MapPage ==
  ASSUME PagesAccounted, NEW m \in Places, NEW g \in Places, NEW h \in Places,
         m # Free, g # Free, h # Free, m # g, g # h, h # m,
         NEW X \in SUBSET freelist, freelist' = freelist \ X,
         Held(g) = {}, Held(g)' = Held(m), Held(m)' = {}, Held(h)' = Held(h) \cup X,
         \A u \in Places \ {m, g, h, Free} : Held(u)' = Held(u)
  PROVE  PagesAccounted'
<1>1. Free \in Places /\ Held(Free) = freelist /\ Held(Free)' = freelist \ X
  BY HeldIs, HeldNext, PlacesAre, Zenon
<1>2. \A u \in Places : Held(u) \in SUBSET Frames
  BY Owners, Zenon
<1>3. ASSUME NEW u \in Places PROVE Held(u)' \in SUBSET Frames
  <2>1. CASE u = m
    BY Zenon, <2>1
  <2>2. CASE u = g
    BY Zenon, <1>2, <2>2
  <2>3. CASE u = h
    BY Zenon, <1>1, <1>2, <2>3
  <2>4. CASE u = Free
    BY <1>1, <1>2, <2>4
  <2>5. CASE u \in Places \ {m, g, h, Free}
    BY <1>2, <2>5, Zenon
  <2>6. QED
    BY <2>1, <2>2, <2>3, <2>4, <2>5, Zenon
<1>4. ASSUME NEW f \in Frames
      PROVE  \E w \in Places : \A u \in Places : f \in Held(u)' <=> u = w
  <2>1. PICK w \in Places : Owner(f, w)
    BY Owners, Zenon
  <2>2. /\ f \in Held(m) <=> w = m
        /\ f \in Held(h) <=> w = h
        /\ f \in freelist <=> w = Free
        /\ w # g
    BY Zenon, <1>1, <2>1 DEF Owner
  <2>3. \A u \in Places : u \notin {m, g, h, Free} => (f \in Held(u)' <=> u = w)
    BY <2>1, Zenon DEF Owner
  <2>4. /\ f \notin Held(m)'
        /\ f \in Held(g)' <=> w = m
        /\ f \in Held(h)' <=> w = h \/ f \in X
        /\ f \in Held(Free)' <=> w = Free /\ f \notin X
        /\ f \in X => w = Free
    BY <1>1, <2>2, Zenon
  <2>5. CASE w = m
    <3>1. \A u \in Places : f \in Held(u)' <=> u = g
      BY Zenon, <2>3, <2>4, <2>5
    <3>2. QED
      BY <3>1, Zenon
  <2>6. CASE w # m /\ f \in X
    <3>1. \A u \in Places : f \in Held(u)' <=> u = h
      BY Zenon, <2>3, <2>4, <2>6
    <3>2. QED
      BY <3>1, Zenon
  <2>7. CASE w # m /\ f \notin X
    <3>1. \A u \in Places : f \in Held(u)' <=> u = w
      BY <2>2, <2>3, <2>4, <2>7
    <3>2. QED
      BY <3>1, Zenon
  <2>8. QED
    BY <2>5, <2>6, <2>7, Zenon
<1>5. QED
  BY <1>3, <1>4, Owned, Zenon

\* The space that p has built becomes the space of q, whose old pages are freed.
LEMMA HandOver ==
  ASSUME PagesAccounted, NEW p \in Procs, NEW q \in Procs,
         freelist' = freelist \cup UNION {Held(Sp(q, r)) : r \in Roles},
         \A r \in Roles : Held(Sp(q, r))' = Held(Nw(p, r)) /\ Held(Nw(p, r))' = {},
         \A u \in Places \ ({Free} \cup {Sp(q, r) : r \in Roles} \cup {Nw(p, r) : r \in Roles}) :
           Held(u)' = Held(u)
  PROVE  PagesAccounted'
<1> DEFINE S == {Sp(q, r) : r \in Roles}
           N == {Nw(p, r) : r \in Roles}
<1>1. /\ Free \in Places /\ Held(Free) = freelist
      /\ Held(Free)' = freelist \cup UNION {Held(Sp(q, r)) : r \in Roles}
  BY HeldIs, HeldNext, PlacesAre, Zenon
<1>2. \A u \in Places : Held(u) \in SUBSET Frames
  BY Owners, Zenon
<1>3. S \in SUBSET Places /\ N \in SUBSET Places /\ Free \notin S /\ Free \notin N /\ S \cap N = {}
  BY PlacesAre, Apart
<1>4. ASSUME NEW r \in Roles PROVE Held(Sp(q, r))' \in SUBSET Frames /\ Held(Nw(p, r))' \in SUBSET Frames
  BY Zenon, <1>2, PlacesAre
<1>5. ASSUME NEW u \in Places PROVE Held(u)' \in SUBSET Frames
  <2>1. CASE u \in S \cup N
    BY Zenon, <1>4, <2>1
  <2>2. CASE u = Free
    <3>1. UNION {Held(Sp(q, r)) : r \in Roles} \in SUBSET Frames
      BY <1>2, PlacesAre, Zenon
    <3>2. QED
      BY Zenon, <1>1, <1>2, <2>2, <3>1
  <2>3. CASE u \notin S \cup N \cup {Free}
    BY Zenon, <1>2, <2>3
  <2>4. QED
    BY <2>1, <2>2, <2>3, Zenon
<1>6. ASSUME NEW f \in Frames
      PROVE  \E w \in Places : \A u \in Places : f \in Held(u)' <=> u = w
  <2>1. PICK w \in Places : Owner(f, w)
    BY Owners, Zenon
  <2>2. \A r \in Roles : /\ f \in Held(Sp(q, r))' <=> w = Nw(p, r)
                         /\ f \notin Held(Nw(p, r))'
    BY Zenon, <2>1, PlacesAre DEF Owner
  <2>3. f \in Held(Free)' <=> w = Free \/ w \in S
    BY <1>1, <2>1, PlacesAre DEF Owner
  <2>4. \A u \in Places : u \notin S \cup N \cup {Free} => (f \in Held(u)' <=> u = w)
    BY Zenon, <2>1 DEF Owner
  <2>5. ASSUME NEW r \in Roles, w = Nw(p, r)
        PROVE  \E v \in Places : \A u \in Places : f \in Held(u)' <=> u = v
    <3>1. ASSUME NEW u \in Places PROVE f \in Held(u)' <=> u = Sp(q, r)
      <4>1. CASE u \in S
        BY <2>2, <2>5, <4>1, Apart
      <4>2. CASE u \in N
        BY Zenon, <1>3, <2>2, <4>2
      <4>3. CASE u = Free
        BY <1>3, <2>3, <2>5, <4>3, Apart
      <4>4. CASE u \notin S \cup N \cup {Free}
        BY Zenon, <2>4, <2>5, <4>4
      <4>5. QED
        BY Zenon, <4>1, <4>2, <4>3, <4>4
    <3>2. QED
      BY <3>1, PlacesAre
  <2>6. CASE w \in S \cup {Free}
    <3>1. ASSUME NEW u \in Places PROVE f \in Held(u)' <=> u = Free
      <4>1. CASE u \in S
        BY <1>3, <2>2, <2>6, <4>1, Apart
      <4>2. CASE u \in N
        BY Zenon, <1>3, <2>2, <4>2
      <4>3. CASE u = Free
        BY Zenon, <2>3, <2>6, <4>3
      <4>4. CASE u \notin S \cup N \cup {Free}
        BY Zenon, <2>4, <2>6, <4>4
      <4>5. QED
        BY Zenon, <4>1, <4>2, <4>3, <4>4
    <3>2. QED
      BY Zenon, <1>1, <3>1
  <2>7. CASE w \notin S \cup N \cup {Free}
    <3>1. ASSUME NEW u \in Places PROVE f \in Held(u)' <=> u = w
      <4>1. CASE u \in S
        BY <2>2, <2>7, <4>1
      <4>2. CASE u \in N
        BY Zenon, <1>3, <2>2, <2>7, <4>2
      <4>3. CASE u = Free
        BY Zenon, <2>3, <2>7, <4>3
      <4>4. CASE u \notin S \cup N \cup {Free}
        BY Zenon, <2>4, <2>7, <4>4
      <4>5. QED
        BY Zenon, <4>1, <4>2, <4>3, <4>4
    <3>2. QED
      BY Zenon, <2>7, <3>1
  <2>8. QED
    BY Zenon, <2>5, <2>6, <2>7
<1>7. QED
  BY <1>5, <1>6, Owned, Zenon


-----------------------------------------------------------------------------
(* The control state. *)

(* A step leaves a process alone. *)
Same(q) ==
  /\ space'[q] = space[q] /\ new'[q] = new[q] /\ sz'[q] = sz[q]
  /\ kstack'[q] = kstack[q] /\ vpc'[q] = vpc[q] /\ loc'[q] = loc[q]

\* A process that a step leaves alone, with its child, stays as it should be.
LEMMA CtlSame ==
  ASSUME NEW q \in Procs, Ctl(q), Same(q),
         loc[q].op = "fork" => vpc'[loc[q].child] = vpc[loc[q].child]
  PROVE  Ctl(q)'
<1>1. Idle(q) => Idle(q)'
  BY Zenon DEF Idle, Same
<1>2. Building(q)' = Building(q)
  BY Zenon DEF Building, Same
<1>3. Call(q) => Call(q)'
  BY <1>2, Zenon DEF Call, Same
<1>4. QED
  BY <1>1, <1>3, Zenon DEF Ctl, Same

\* The types of the parts of the state of a process.
LEMMA ProcIs ==
  ASSUME VmTypeOK, NEW p \in Procs
  PROVE  /\ space[p] \in Space /\ new[p] \in Space /\ sz[p] \in 0..KERNBASE - 1
         /\ kstack[p] \in Frames \cup {0} /\ loc[p] \in Locals
         /\ loc[p].op \in {"none", "fork", "exec", "stack", "sbrk"} /\ loc[p].child \in Procs
         /\ loc[p].mem \in Frames \cup {0} /\ loc[p].a \in Nat /\ loc[p].goal \in Nat
         /\ sz[p] \in Nat /\ sz[p] < KERNBASE
<1>1. /\ space[p] \in Space /\ new[p] \in Space /\ sz[p] \in 0..KERNBASE - 1
      /\ kstack[p] \in Frames \cup {0} /\ loc[p] \in Locals
  BY Zenon DEF VmTypeOK
<1>2. /\ loc[p].op \in {"none", "fork", "exec", "stack", "sbrk"} /\ loc[p].child \in Procs
      /\ loc[p].mem \in Frames \cup {0} /\ loc[p].a \in Nat /\ loc[p].goal \in Nat
  BY Zenon, <1>1 DEF Locals
<1>3. sz[p] \in Nat /\ sz[p] < KERNBASE
  BY <1>1, Sizes
<1>4. QED
  BY <1>1, <1>2, <1>3, Zenon

\* The child that a fork is building is an embryo, and a process that forks is in a call.
LEMMA ForkIs ==
  ASSUME Control, NEW q \in Procs, loc[q].op = "fork"
  PROVE  Call(q) /\ vpc[q] \in InCall /\ vpc[loc[q].child] = "embryo"
<1>1. Ctl(q)
  BY Zenon DEF Control
<1>2. NoCall.op = "none"
  BY Zenon DEF NoCall
<1>3. ~Idle(q)
  BY <1>2, Zenon DEF Idle
<1>4. QED
  BY <1>1, <1>3, Zenon DEF Ctl, Call

\* A step that concerns one process.
LEMMA Solo ==
  ASSUME VmInv, NEW p \in Procs, vpc[p] # "embryo",
         \A q \in Procs \ {p} : Same(q), Ctl(p)',
         loc'[p].op = "fork" => loc[p].op = "fork" /\ loc'[p].child = loc[p].child
  PROVE  Control'
<1>1. VmTypeOK /\ Control
  BY Zenon DEF VmInv
<1>2. ASSUME NEW q \in Procs PROVE Ctl(q)'
  <2>1. CASE q = p
    BY Zenon, <2>1
  <2>2. CASE q # p
    <3>1. Same(q) /\ Ctl(q)
      BY <1>1, <2>2, Zenon DEF Control
    <3>2. ASSUME loc[q].op = "fork" PROVE vpc'[loc[q].child] = vpc[loc[q].child]
      <4>1. vpc[loc[q].child] = "embryo" /\ loc[q].child \in Procs
        BY <1>1, <3>2, ForkIs, ProcIs, Zenon
      <4>2. loc[q].child # p
        BY <4>1, Zenon
      <4>3. QED
        BY <4>1, <4>2, Zenon DEF Same
    <3>3. QED
      BY <3>1, <3>2, CtlSame, Zenon
  <2>3. QED
    BY <2>1, <2>2, Zenon
<1>3. \A q \in Procs : loc'[q].op = "fork" => loc[q].op = "fork" /\ loc'[q].child = loc[q].child
  BY Zenon DEF Same
<1>4. ASSUME NEW q \in Procs, NEW r \in Procs,
             loc'[q].op = "fork", loc'[r].op = "fork", loc'[q].child = loc'[r].child
      PROVE  q = r
  BY <1>1, <1>3, <1>4, Zenon DEF Control
<1>5. QED
  BY <1>2, <1>4, Zenon DEF Control

\* A step of fork, which concerns the parent and the child.
LEMMA Pair ==
  ASSUME VmInv, NEW p \in Procs, NEW q \in Procs, vpc[p] # "embryo",
         \A o \in Procs \ {p, q} : Same(o), Ctl(p)', Ctl(q)', loc'[q].op # "fork",
         loc'[p].op = "fork" => loc'[p].child = q,
         vpc[q] # "embryo" \/ (loc[p].op = "fork" /\ loc[p].child = q)
  PROVE  Control'
<1>1. VmTypeOK /\ Control
  BY Zenon DEF VmInv
<1>2. ASSUME NEW o \in Procs \ {p, q}, loc[o].op = "fork"
      PROVE  loc[o].child \in Procs \ {p, q}
  <2>1. vpc[loc[o].child] = "embryo" /\ loc[o].child \in Procs
    BY <1>1, <1>2, ForkIs, ProcIs, Zenon
  <2>2. loc[o].child # p
    BY <2>1, Zenon
  <2>3. loc[o].child # q
    <3>1. CASE vpc[q] # "embryo"
      BY <2>1, <3>1, Zenon
    <3>2. CASE loc[p].op = "fork" /\ loc[p].child = q
      BY <1>1, <1>2, <3>2, Zenon DEF Control
    <3>3. QED
      BY <3>1, <3>2, Zenon
  <2>4. QED
    BY <2>1, <2>2, <2>3, Zenon
<1>3. ASSUME NEW o \in Procs \ {p, q} PROVE Ctl(o)'
  <2>1. Same(o) /\ Ctl(o)
    BY <1>1, Zenon DEF Control
  <2>2. ASSUME loc[o].op = "fork" PROVE vpc'[loc[o].child] = vpc[loc[o].child]
    BY <1>2, <2>2, Zenon DEF Same
  <2>3. QED
    BY <2>1, <2>2, CtlSame, Zenon
<1>4. \A o \in Procs : Ctl(o)'
  BY <1>3, Zenon
<1>5. ASSUME NEW o \in Procs \ {p, q}, loc'[o].op = "fork"
      PROVE  loc[o].op = "fork" /\ loc'[o].child = loc[o].child /\ loc'[o].child # q
  <2>1. loc'[o] = loc[o]
    BY Zenon DEF Same
  <2>2. QED
    BY <1>2, <1>5, <2>1, Zenon
<1>6. ASSUME NEW o \in Procs, NEW r \in Procs,
             loc'[o].op = "fork", loc'[r].op = "fork", loc'[o].child = loc'[r].child
      PROVE  o = r
  <2>1. o # q /\ r # q
    BY <1>6, Zenon
  <2>2. CASE o = p \/ r = p
    BY <1>5, <1>6, <2>1, <2>2, Zenon
  <2>3. CASE o # p /\ r # p
    BY <1>1, <1>5, <1>6, <2>1, <2>3, Zenon DEF Control
  <2>4. QED
    BY <2>2, <2>3, Zenon
<1>7. QED
  BY <1>4, <1>6, Zenon DEF Control

-----------------------------------------------------------------------------
(* The steps. *)

\* A nonempty set of natural numbers has a least element.
LEMMA LeastOf ==
  ASSUME NEW T \in SUBSET Nat, T # {}
  PROVE  \E m \in T : \A k \in T : m <= k
<1> DEFINE Less == {ss \in Nat \X Nat : ss[1] < ss[2]}
<1>1. IsWellFoundedOn(Less, Nat)
  BY NatLessThanWellFounded, Zenon DEF OpToRel
<1>2. \A x, y \in Nat : y < x => <<y, x>> \in Less
  BY Zenon DEF Less
<1> HIDE DEF Less
<1>3. PICK m \in T : \A y \in T : ~(<<y, m>> \in Less)
  BY <1>1, WFMin, Zenon
<1>4. ASSUME NEW k \in T PROVE m <= k
  <2>1. k \in Nat /\ m \in Nat
    BY Zenon
  <2>2. ~(k < m)
    BY <1>2, <1>3, <2>1, Zenon
  <2>3. QED
    BY <2>1, <2>2
<1>5. QED
  BY Zenon, <1>4

\* kalloc returns a page of the free list, or 0.
LEMMA Kalloc ==
  ASSUME VmTypeOK, kalloc # 0
  PROVE  kalloc \in freelist /\ kalloc \in Frames
<1>1. freelist # {} /\ kalloc = Min(freelist)
  BY Zenon DEF kalloc
<1>2. freelist \in SUBSET Nat /\ freelist \in SUBSET Frames
  BY Sizes, Zenon DEF VmTypeOK
<1>3. Min(freelist) \in freelist
  BY <1>1, <1>2, LeastOf, Zenon DEF Min
<1>4. QED
  BY <1>1, <1>2, <1>3, Zenon

\* No page is below address 0.
LEMMA NoneBelow == Below(0) = {} /\ 0 * PGSIZE = 0
<1>1. ASSUME NEW v \in VPages PROVE ~(v * PGSIZE < 0)
  <2>1. v \in Nat /\ PGSIZE \in Nat
    BY Zenon, Sizes
  <2>2. v * PGSIZE \in Nat
    BY <2>1
  <2>3. QED
    BY <2>2
<1>2. 0 * PGSIZE = 0
  BY Sizes
<1>3. QED
  BY <1>1, <1>2, Zenon DEF Below

\* A process in user mode, or that has died, has its kernel stack and no call,
\* and in user mode its image.
LEMMA UserIs ==
  ASSUME VmInv, NEW p \in Procs, vpc[p] \in {"user", "fault", "zombie"}
  PROVE  /\ new[p] = NoSpace /\ loc[p] = NoCall /\ loc[p].mem = 0 /\ loc[p].op = "none"
         /\ kstack[p] # 0
         /\ vpc[p] = "user" => Mapping(space[p]) = Below(sz[p])
<1>1. Ctl(p) /\ vpc[p] \notin InCall
  BY Zenon DEF VmInv, Control, InCall
<1>2. NoCall.mem = 0 /\ NoCall.op = "none"
  BY Zenon DEF NoCall
<1>3. QED
  BY <1>1, <1>2, Zenon DEF Ctl, Idle

\* exec begins.
LEMMA ExecStep ==
  ASSUME VmInv, NEW p \in Procs, NEW n \in Images, exec(p, n)
  PROVE  VmInv'
<1>1. VmTypeOK /\ PagesAccounted /\ n \in Nat
  BY Zenon, VmAssumption DEF VmInv, VmConstants
<1>2. /\ new[p] = NoSpace /\ loc[p].mem = 0 /\ vpc[p] = "user"
      /\ Mapping(space[p]) = Below(sz[p]) /\ kstack[p] # 0
  BY Zenon, UserIs DEF exec, now
<1> DEFINE l == [NoCall EXCEPT !.op = "exec", !.goal = n]
<1>3. /\ l \in Locals /\ l.op = "exec" /\ l.a = 0 /\ l.goal = n /\ l.mem = 0
  BY Zenon, <1>1, VmAssumption DEF Locals, NoCall, VmConstants
<1>4. /\ vpc' = [vpc EXCEPT ![p] = "setupkvm"] /\ loc' = [loc EXCEPT ![p] = l]
      /\ freelist' = freelist /\ space' = space /\ sz' = sz /\ kstack' = kstack /\ new' = new
  BY Zenon DEF exec
<1> HIDE DEF l
<1>5. VmTypeOK'
  BY Zenon, <1>1, <1>3, <1>4 DEF VmTypeOK
<1>6. /\ loc'[p] = l /\ vpc'[p] = "setupkvm"
      /\ \A q \in Procs \ {p} : Same(q)
  BY Zenon, <1>1, <1>4 DEF VmTypeOK, Same
<1>7. PagesAccounted'
  <2>1. \A q \in Procs : loc'[q].mem = loc[q].mem
    BY <1>2, <1>3, <1>6, Zenon DEF Same
  <2>2. \A u \in Places \ {Free} : Held(u)' = Held(u)
    BY <1>4, <2>1, Rest, Zenon
  <2>3. QED
    BY <1>1, <1>4, <2>2, Stay, Zenon
<1>8. Ctl(p)'
  <2>1. Mapping(new'[p]) = Below(0)
    BY <1>2, <1>4, NoSpaceIs, NoneBelow, Zenon
  <2>2. (\E k \in Nat : l.a = k * PGSIZE) /\ 0 < n + PGSIZE
    BY <1>1, <1>3, NoneBelow, Sizes
  <2>3. Call(p)'
    BY <1>2, <1>3, <1>4, <1>6, <2>1, <2>2, Zenon DEF Call, Building
  <2>4. QED
    BY <1>6, <2>3, Zenon DEF Ctl, InCall
<1>9. Control'
  BY <1>2, <1>3, <1>6, <1>8, Solo, Zenon
<1>10. QED
  BY <1>5, <1>7, <1>9, Zenon DEF VmInv


\* growproc begins to add pages.
LEMMA GrowStep ==
  ASSUME VmInv, NEW p \in Procs, NEW n \in Sbrks, sbrk_grow(p, n)
  PROVE  VmInv'
<1>1. VmTypeOK /\ PagesAccounted
  BY Zenon DEF VmInv
<1>2. /\ new[p] = NoSpace /\ loc[p].mem = 0 /\ vpc[p] = "user"
      /\ Mapping(space[p]) = Below(sz[p]) /\ kstack[p] # 0
  BY Zenon, UserIs DEF sbrk_grow, now
<1> DEFINE g == (sz[p] + n) % UINT
           a == PGROUNDUP(sz[p])
           l == [NoCall EXCEPT !.op = "sbrk", !.a = a, !.goal = g]
<1>3. g \in Nat /\ g < KERNBASE /\ g >= sz[p]
  <2>1. n \in Int /\ sz[p] \in Nat /\ UINT \in Nat \ {0} /\ sz[p] + n \in Int
    BY <1>1, ProcIs, Sizes, VmAssumption DEF VmConstants
  <2>2. g \in Nat
    BY <2>1
  <2>3. QED
    BY Zenon, <2>2 DEF sbrk_grow
<1>4. PICK k \in Nat : a = k * PGSIZE /\ sz[p] <= a /\ a < sz[p] + PGSIZE
  BY Zenon, <1>1, ProcIs, RoundUp
<1>5. a \in Nat /\ a < g + PGSIZE /\ Below(a) = Below(sz[p])
  <2>1. k * PGSIZE \in Nat /\ sz[p] \in Nat /\ PGSIZE \in Nat
    BY <1>1, ProcIs, Sizes
  <2>2. Below(k * PGSIZE) = Below(sz[p])
    BY Zenon, <1>4, <2>1, SamePages
  <2>3. QED
    BY <1>3, <1>4, <2>1, <2>2
<1>6. /\ vpc' = [vpc EXCEPT ![p] = "alloc"] /\ loc' = [loc EXCEPT ![p] = l]
      /\ freelist' = freelist /\ space' = space /\ sz' = sz /\ kstack' = kstack /\ new' = new
  BY Zenon DEF sbrk_grow
<1> HIDE DEF g, a
<1>7. l \in Locals /\ l.op = "sbrk" /\ l.a = a /\ l.goal = g /\ l.mem = 0
  BY Zenon, <1>3, <1>5, VmAssumption DEF Locals, NoCall, VmConstants
<1> HIDE DEF l
<1>8. VmTypeOK'
  BY Zenon, <1>1, <1>6, <1>7 DEF VmTypeOK
<1>9. /\ loc'[p] = l /\ vpc'[p] = "alloc"
      /\ \A q \in Procs \ {p} : Same(q)
  BY Zenon, <1>1, <1>6 DEF VmTypeOK, Same
<1>10. PagesAccounted'
  <2>1. \A q \in Procs : loc'[q].mem = loc[q].mem
    BY <1>2, <1>7, <1>9, Zenon DEF Same
  <2>2. \A u \in Places \ {Free} : Held(u)' = Held(u)
    BY <1>6, <2>1, Rest, Zenon
  <2>3. QED
    BY <1>1, <1>6, <2>2, Stay, Zenon
<1>11. Ctl(p)'
  <2>1. Mapping(space'[p]) = Below(a) /\ PGROUNDUP(sz'[p]) = a /\ a <= a
    BY <1>2, <1>5, <1>6 DEF a
  <2>2. Call(p)'
    BY <1>2, <1>3, <1>4, <1>5, <1>6, <1>7, <1>9, <2>1, Zenon DEF Call, Building
  <2>3. QED
    BY <1>9, <2>2, Zenon DEF Ctl, InCall
<1>12. Control'
  BY <1>2, <1>7, <1>9, <1>11, Solo, Zenon
<1>13. QED
  BY <1>8, <1>10, <1>12, Zenon DEF VmInv

\* growproc takes pages back.
LEMMA ShrinkStep ==
  ASSUME VmInv, NEW p \in Procs, NEW n \in Sbrks, sbrk_shrink(p, n)
  PROVE  VmInv'
<1>1. VmTypeOK /\ PagesAccounted
  BY Zenon DEF VmInv
<1>2. /\ new[p] = NoSpace /\ loc[p] = NoCall /\ vpc[p] = "user"
      /\ Mapping(space[p]) = Below(sz[p]) /\ kstack[p] # 0
  BY Zenon, UserIs DEF sbrk_shrink, now
<1> DEFINE g == (sz[p] + n) % UINT
           vs == dealloc(space[p], sz[p], g)
           s == unmap(space[p], vs)
<1>3. /\ g \in 0..KERNBASE - 1 /\ g \in Nat /\ g < sz[p]
      /\ sz[p] \in Nat /\ space[p] \in Space
  <2>1. /\ n \in Int /\ sz[p] \in Nat /\ UINT \in Nat \ {0} /\ sz[p] + n \in Int
        /\ space[p] \in Space /\ sz[p] < KERNBASE /\ KERNBASE \in Nat
    BY <1>1, ProcIs, Sizes, VmAssumption DEF VmConstants
  <2>2. g \in Nat /\ g < sz[p]
    BY <2>1 DEF sbrk_shrink
  <2>3. QED
    BY <2>1, <2>2
<1> DEFINE z == IF g = 0 THEN sz[p] ELSE g
           l == IF g = 0 THEN "fault" ELSE "user"
<1>4. /\ loc' = loc /\ kstack' = kstack /\ new' = new
      /\ freelist' = freelist \cup {space[p].pg[v] : v \in vs}
      /\ space' = [space EXCEPT ![p] = s] /\ sz' = [sz EXCEPT ![p] = z]
      /\ vpc' = [vpc EXCEPT ![p] = l]
  BY Zenon, <1>1, <1>2 DEF sbrk_shrink, VmTypeOK
<1>5. vs \in SUBSET VPages /\ \A v \in vs : space[p].pg[v] # 0
  BY Zenon DEF dealloc
<1>6. Mapping(space[p]) \ vs = Below(g)
  <2>1. PICK k \in Nat : sz[p] <= k * PGSIZE /\ k * PGSIZE < sz[p] + PGSIZE
    BY Zenon, <1>3, RoundUp
  <2>2. Below(k * PGSIZE) = Below(sz[p])
    BY <1>3, <2>1, SamePages
  <2>3. Mapping(space[p]) \ vs = Below(g) \cap Below(k * PGSIZE)
    <3>1. g <= sz[p] /\ Mapping(space[p]) = Below(k * PGSIZE)
      BY <1>2, <1>3, <2>2
    <3>2. QED
      BY <1>3, <2>1, <3>1, Dealloc
  <2>4. Below(g) \subseteq Below(sz[p])
    <3>1. SUFFICES ASSUME NEW v \in VPages, v * PGSIZE < g PROVE v * PGSIZE < sz[p]
      BY Zenon DEF Below
    <3>2. v * PGSIZE \in Nat
      BY Sizes
    <3>3. QED
      BY <1>3, <3>1, <3>2
  <2>5. QED
    BY <2>2, <2>3, <2>4, Zenon
<1>7. z \in 0..KERNBASE - 1 /\ l \in {"user", "fault"} /\ (l = "user" => z = g)
  BY Zenon, <1>1, <1>3 DEF VmTypeOK
<1> HIDE DEF g, vs, z, l
<1>8. /\ s \in Space /\ Mapping(s) = Below(g)
      /\ \A v \in vs : In(s, Pg(v)) = {}
      /\ \A r \in Roles : (\A v \in vs : r # Pg(v)) => In(s, r) = In(space[p], r)
  BY Zenon, <1>3, <1>5, <1>6, WithoutPages
<1> HIDE DEF s
<1>9. /\ space'[p] = s /\ sz'[p] = z /\ vpc'[p] = l
      /\ \A q \in Procs \ {p} : Same(q)
  BY Zenon, <1>1, <1>4 DEF VmTypeOK, Same
<1> DEFINE R == {Sp(p, Pg(v)) : v \in vs}
<1>10. R \in SUBSET Places /\ Free \notin R
  BY <1>5, PlacesAre, RolesAre, Apart
<1>11. PagesAccounted' /\ freelist' \in SUBSET Frames
  <2>1. ASSUME NEW v \in vs
        PROVE  Held(Sp(p, Pg(v))) = {space[p].pg[v]} /\ Held(Sp(p, Pg(v)))' = {}
    <3>1. Held(Sp(p, Pg(v))) = {space[p].pg[v]} \ {0}
      BY <1>5, HeldIs, InIs
    <3>2. Held(Sp(p, Pg(v)))' = In(s, Pg(v))
      BY <1>9, HeldNext, Zenon
    <3>3. QED
      BY Zenon, <1>5, <1>8, <3>1, <3>2
  <2>2. UNION {Held(u) : u \in R} = {space[p].pg[v] : v \in vs}
    BY <2>1
  <2>3. \A u \in R : Held(u)' = {}
    BY Zenon, <2>1
  <2>4. ASSUME NEW q \in Procs, NEW r \in Roles, Sp(q, r) \notin R \cup {Free}
        PROVE  In(space'[q], r) = In(space[q], r)
    <3>1. CASE q = p
      <4>1. \A v \in vs : r # Pg(v)
        BY Zenon, <2>4, <3>1
      <4>2. QED
        BY <1>8, <1>9, <3>1, <4>1, Zenon
    <3>2. CASE q # p
      BY <1>9, <3>2, Zenon DEF Same
    <3>3. QED
      BY <3>1, <3>2, Zenon
  <2>5. \A u \in Places \ (R \cup {Free}) : Held(u)' = Held(u)
    <3> HIDE DEF R
    <3>1. QED
      BY <1>4, <2>4, Rest, Zenon
  <2> HIDE DEF R
  <2>6. PagesAccounted'
    BY <1>1, <1>4, <1>10, <2>2, <2>3, <2>5, Release, Zenon
  <2>7. freelist' \in SUBSET Frames
    <3>1. \A u \in R : Held(u) \in SUBSET Frames
      BY <1>1, <1>10, Owners, Zenon
    <3>2. freelist \in SUBSET Frames
      BY Zenon, <1>1 DEF VmTypeOK
    <3>3. QED
      BY <1>4, <2>2, <3>1, <3>2, Zenon
  <2>8. QED
    BY Zenon, <2>6, <2>7
<1>12. VmTypeOK'
  BY Zenon, <1>1, <1>4, <1>8, <1>11, <1>7 DEF VmTypeOK
<1>13. Ctl(p)'
  <2>1. Idle(p)'
    BY <1>2, <1>4, <1>8, <1>9, <1>7, Zenon DEF Idle
  <2>2. QED
    BY <1>9, <1>7, <2>1, Zenon DEF Ctl, InCall
<1>14. Control'
  <2>1. vpc[p] # "embryo" /\ loc'[p] = loc[p]
    BY <1>2, <1>4, Zenon
  <2>2. QED
    BY <1>9, <1>13, <2>1, Solo, Zenon
<1>15. QED
  BY <1>11, <1>12, <1>14, Zenon DEF VmInv


\* exit leaves its memory to wait.
LEMMA ExitStep ==
  ASSUME VmInv, NEW p \in Procs, exit(p)
  PROVE  VmInv'
<1>1. VmTypeOK /\ PagesAccounted
  BY Zenon DEF VmInv
<1>2. /\ new[p] = NoSpace /\ loc[p] = NoCall /\ vpc[p] \in {"user", "fault"}
      /\ kstack[p] # 0
  BY Zenon, UserIs DEF exit, now
<1>3. /\ vpc' = [vpc EXCEPT ![p] = "zombie"] /\ loc' = loc /\ freelist' = freelist
      /\ space' = space /\ sz' = sz /\ kstack' = kstack /\ new' = new
  BY Zenon DEF exit
<1>4. VmTypeOK'
  BY Zenon, <1>1, <1>3 DEF VmTypeOK
<1>5. vpc'[p] = "zombie" /\ \A q \in Procs \ {p} : Same(q)
  BY <1>1, <1>3 DEF VmTypeOK, Same
<1>6. PagesAccounted'
  <2>1. \A u \in Places \ {Free} : Held(u)' = Held(u)
    BY <1>3, Rest, Zenon
  <2>2. QED
    BY <1>1, <1>3, <2>1, Stay, Zenon
<1>7. Ctl(p)'
  <2>1. Idle(p)'
    BY <1>2, <1>3, <1>5, Zenon DEF Idle
  <2>2. QED
    BY <1>5, <2>1, Zenon DEF Ctl, InCall
<1>8. Control'
  <2>1. vpc[p] # "embryo" /\ loc'[p] = loc[p]
    BY <1>2, <1>3, Zenon
  <2>2. QED
    BY <1>5, <1>7, <2>1, Solo, Zenon
<1>9. QED
  BY <1>4, <1>6, <1>8, Zenon DEF VmInv

\* wait frees the memory of a zombie.
LEMMA WaitStep ==
  ASSUME VmInv, NEW p \in Procs, wait(p)
  PROVE  VmInv'
<1>1. VmTypeOK /\ PagesAccounted
  BY Zenon DEF VmInv
<1>2. new[p] = NoSpace /\ loc[p] = NoCall /\ vpc[p] = "zombie" /\ kstack[p] # 0
  BY Zenon, UserIs DEF wait, now
<1>3. /\ freelist' = freelist \cup Pages(space[p]) \cup {kstack[p]}
      /\ space' = [space EXCEPT ![p] = NoSpace] /\ kstack' = [kstack EXCEPT ![p] = 0]
      /\ sz' = [sz EXCEPT ![p] = 0] /\ vpc' = [vpc EXCEPT ![p] = "none"]
      /\ loc' = loc /\ new' = new
  BY Zenon DEF wait
<1>4. /\ space'[p] = NoSpace /\ kstack'[p] = 0 /\ vpc'[p] = "none"
      /\ \A q \in Procs \ {p} : Same(q)
  BY Zenon, <1>1, <1>3 DEF VmTypeOK, Same
<1>5. space[p] \in Space /\ kstack[p] \in Frames /\ Pages(space[p]) = UNION {In(space[p], r) : r \in Roles}
  <2>1. space[p] \in Space /\ kstack[p] \in Frames
    BY <1>1, <1>2, ProcIs, Zenon
  <2>2. QED
    BY <2>1, PagesAre, Zenon
<1> DEFINE R == {Sp(p, r) : r \in Roles} \cup {Ks(p)}
<1>6. R \in SUBSET Places /\ Free \notin R
  BY PlacesAre, Apart
<1>7. ASSUME NEW r \in Roles PROVE Held(Sp(p, r)) = In(space[p], r) /\ Held(Sp(p, r))' = {}
  <2>1. Held(Sp(p, r)) = In(space[p], r) /\ Held(Sp(p, r))' = In(space'[p], r)
    BY HeldIs, HeldNext, Zenon
  <2>2. In(NoSpace, r) = {}
    BY NoSpaceIs, Zenon
  <2>3. QED
    BY Zenon, <1>4, <2>1, <2>2
<1>8. Held(Ks(p)) = {kstack[p]} /\ Held(Ks(p))' = {}
  <2>1. Held(Ks(p)) = {kstack[p]} \ {0} /\ Held(Ks(p))' = {kstack'[p]} \ {0}
    BY HeldIs, HeldNext, Zenon
  <2>2. QED
    BY Zenon, <1>2, <1>4, <2>1
<1>9. UNION {Held(u) : u \in R} = Pages(space[p]) \cup {kstack[p]}
  <2>1. ASSUME NEW f
        PROVE  (\E u \in R : f \in Held(u)) <=> f \in Pages(space[p]) \/ f = kstack[p]
    <3>1. (\E u \in R : f \in Held(u)) <=> (\E r \in Roles : f \in Held(Sp(p, r))) \/ f \in Held(Ks(p))
      BY Zenon
    <3>2. (\E r \in Roles : f \in Held(Sp(p, r))) <=> f \in Pages(space[p])
      BY <1>5, <1>7, Zenon
    <3>3. QED
      BY Zenon, <1>8, <3>1, <3>2
  <2> HIDE DEF R
  <2>2. QED
    BY Zenon, <2>1
<1>10. \A u \in R : Held(u)' = {}
  BY Zenon, <1>7, <1>8
<1>11. \A u \in Places \ (R \cup {Free}) : Held(u)' = Held(u)
  <2>1. \A q \in Procs, r \in Roles : Sp(q, r) \notin R \cup {Free} => In(space'[q], r) = In(space[q], r)
    BY <1>4, Zenon DEF Same
  <2>2. \A q \in Procs : Ks(q) \notin R \cup {Free} => kstack'[q] = kstack[q]
    BY <1>4, Zenon DEF Same
  <2> HIDE DEF R
  <2>3. QED
    BY <1>3, <2>1, <2>2, Rest, Zenon
<1> HIDE DEF R
<1>12. PagesAccounted'
  <2>1. freelist' = freelist \cup UNION {Held(u) : u \in R}
    BY <1>3, <1>9, Zenon
  <2>2. QED
    BY <1>1, <1>6, <1>10, <1>11, <2>1, Release, Zenon
<1>13. VmTypeOK'
  <2>1. Pages(space[p]) \in SUBSET Frames
    <3>1. \A r \in Roles : In(space[p], r) \in SUBSET Frames
      BY <1>5, SpaceIs, Zenon
    <3>2. QED
      BY <1>5, <3>1, Zenon
  <2>2. NoSpace \in Space /\ 0 \in 0..KERNBASE - 1
    <3>1. sz[p] \in Nat /\ sz[p] < KERNBASE /\ KERNBASE \in Nat
      BY <1>1, ProcIs, Sizes, Zenon
    <3>2. QED
      BY <3>1, NoSpaceIs
  <2>3. QED
    BY Zenon, <1>1, <1>3, <1>5, <2>1, <2>2 DEF VmTypeOK
<1>14. Ctl(p)'
  <2>1. Idle(p)'
    BY <1>2, <1>3, <1>4, Zenon DEF Idle
  <2>2. QED
    BY <1>4, <2>1, Zenon DEF Ctl, InCall
<1>15. Control'
  <2>1. vpc[p] # "embryo" /\ loc'[p] = loc[p]
    BY <1>2, <1>3, Zenon
  <2>2. QED
    BY <1>4, <1>14, <2>1, Solo, Zenon
<1>16. QED
  BY <1>12, <1>13, <1>15, Zenon DEF VmInv

\* What holds in a call.
LEMMA CallIs ==
  ASSUME VmInv, NEW p \in Procs, vpc[p] \in InCall
  PROVE  /\ VmTypeOK /\ PagesAccounted /\ Control /\ Call(p)
         /\ loc[p] \in Locals /\ loc[p].a \in Nat /\ loc[p].goal \in Nat
         /\ space[p] \in Space /\ new[p] \in Space /\ loc[p].mem \in Frames \cup {0}
         /\ loc[p].child \in Procs /\ sz[p] \in Nat
         /\ \E k \in Nat : loc[p].a = k * PGSIZE
<1>1. VmTypeOK /\ PagesAccounted /\ Control /\ Call(p)
  BY Zenon DEF VmInv, Control, Ctl
<1>2. QED
  BY <1>1, ProcIs, Zenon DEF Call

\* sbrk is done: the size is the one asked for.
LEMMA SbrkDoneStep ==
  ASSUME VmInv, NEW p \in Procs, sbrk_done(p)
  PROVE  VmInv'
<1>1. vpc[p] = "alloc" /\ loc[p].op = "sbrk" /\ loc[p].a >= loc[p].goal
  BY Zenon DEF sbrk_done, now
<1>2. /\ VmTypeOK /\ PagesAccounted /\ Call(p) /\ loc[p].a \in Nat /\ loc[p].goal \in Nat
      /\ \E k \in Nat : loc[p].a = k * PGSIZE
  BY <1>1, CallIs, Zenon DEF InCall
<1>3. /\ sz' = [sz EXCEPT ![p] = loc[p].goal] /\ vpc' = [vpc EXCEPT ![p] = "user"]
      /\ loc' = [loc EXCEPT ![p] = NoCall]
      /\ freelist' = freelist /\ space' = space /\ kstack' = kstack /\ new' = new
  BY Zenon DEF sbrk_done
<1>4. /\ kstack[p] # 0 /\ loc[p].mem = 0 /\ loc[p].goal < KERNBASE /\ new[p] = NoSpace
      /\ loc[p].a < loc[p].goal + PGSIZE /\ Mapping(space[p]) = Below(loc[p].a)
  BY <1>1, <1>2, Zenon DEF Call, Building
<1>5. Mapping(space[p]) = Below(loc[p].goal)
  <2>1. PICK k \in Nat : loc[p].a = k * PGSIZE
    BY <1>2, Zenon
  <2>2. loc[p].goal <= k * PGSIZE /\ k * PGSIZE < loc[p].goal + PGSIZE
    BY Zenon, <1>1, <1>2, <1>4, <2>1
  <2>3. Below(k * PGSIZE) = Below(loc[p].goal)
    BY <1>2, <2>2, SamePages
  <2>4. QED
    BY <1>4, <2>1, <2>3
<1>6. NoCall \in Locals /\ NoCall.mem = 0 /\ NoCall.op = "none"
  BY VmAssumption DEF NoCall, Locals, VmConstants
<1>7. VmTypeOK'
  <2>1. loc[p].goal \in 0..KERNBASE - 1
    BY <1>2, <1>4, Sizes
  <2>2. QED
    BY <1>2, <1>3, <1>6, <2>1 DEF VmTypeOK
<1>8. /\ sz'[p] = loc[p].goal /\ vpc'[p] = "user" /\ loc'[p] = NoCall
      /\ \A q \in Procs \ {p} : Same(q)
  BY Zenon, <1>2, <1>3 DEF VmTypeOK, Same
<1>9. PagesAccounted'
  <2>1. \A q \in Procs : loc'[q].mem = loc[q].mem
    BY <1>4, <1>6, <1>8, Zenon DEF Same
  <2>2. \A u \in Places \ {Free} : Held(u)' = Held(u)
    BY <1>3, <2>1, Rest, Zenon
  <2>3. QED
    BY <1>2, <1>3, <2>2, Stay, Zenon
<1>10. Ctl(p)'
  <2>1. Idle(p)'
    BY <1>3, <1>4, <1>5, <1>8, Zenon DEF Idle
  <2>2. QED
    BY <1>8, <2>1, Zenon DEF Ctl, InCall
<1>11. Control'
  BY <1>1, <1>6, <1>8, <1>10, Solo, Zenon
<1>12. QED
  BY <1>7, <1>9, <1>11, Zenon DEF VmInv


\* exec has loaded the program and goes on with the stack.
LEMMA LoadedStep ==
  ASSUME VmInv, NEW p \in Procs, exec_loaded(p)
  PROVE  VmInv'
<1>1. vpc[p] = "alloc" /\ loc[p].op = "exec" /\ loc[p].a >= loc[p].goal
  BY DEF exec_loaded, now
<1>2. /\ VmTypeOK /\ PagesAccounted /\ Call(p) /\ loc[p].a \in Nat /\ loc[p].goal \in Nat
      /\ \E k \in Nat : loc[p].a = k * PGSIZE
  BY <1>1, CallIs, Zenon DEF InCall
<1> DEFINE top == PGROUNDUP(loc[p].goal)
           l == [loc[p] EXCEPT !.op = "stack", !.a = top, !.goal = top + 2 * PGSIZE]
<1>3. PICK m \in Nat : top = m * PGSIZE /\ loc[p].goal <= top /\ top < loc[p].goal + PGSIZE
  BY Zenon, <1>2, RoundUp
<1>4. top \in Nat /\ top + 2 * PGSIZE \in Nat /\ top < top + 2 * PGSIZE /\ top < top + 2 * PGSIZE + PGSIZE
  <2>1. m * PGSIZE \in Nat /\ PGSIZE \in Nat \ {0}
    BY Sizes
  <2>2. QED
    BY <1>3, <2>1
<1>5. /\ loc' = [loc EXCEPT ![p] = l] /\ freelist' = freelist /\ space' = space
      /\ sz' = sz /\ kstack' = kstack /\ vpc' = vpc /\ new' = new
  BY Zenon, <1>2 DEF exec_loaded, VmTypeOK, Locals
<1> HIDE DEF top
<1>6. l \in Locals /\ l.op = "stack" /\ l.a = top /\ l.goal = top + 2 * PGSIZE /\ l.mem = loc[p].mem
  <2>1. loc[p] \in Locals
    BY <1>2, ProcIs, Zenon
  <2>2. QED
    BY Zenon, <1>4, <2>1 DEF Locals
<1> HIDE DEF l
<1>7. VmTypeOK'
  BY Zenon, <1>2, <1>5, <1>6 DEF VmTypeOK
<1>8. loc'[p] = l /\ \A q \in Procs \ {p} : Same(q)
  BY <1>2, <1>5 DEF VmTypeOK, Same
<1>9. PagesAccounted'
  <2>1. \A q \in Procs : loc'[q].mem = loc[q].mem
    BY <1>6, <1>8, Zenon DEF Same
  <2>2. \A u \in Places \ {Free} : Held(u)' = Held(u)
    BY <1>5, <2>1, Rest, Zenon
  <2>3. QED
    BY <1>2, <1>5, <2>2, Stay, Zenon
<1>10. /\ kstack[p] # 0 /\ loc[p].mem = 0 /\ Mapping(space[p]) = Below(sz[p])
       /\ loc[p].a < loc[p].goal + PGSIZE /\ Mapping(new[p]) = Below(loc[p].a)
  BY <1>1, <1>2, Zenon DEF Call, Building
<1>11. Mapping(new[p]) = Below(top)
  <2>1. PICK k \in Nat : loc[p].a = k * PGSIZE
    BY <1>2, Zenon
  <2>2. Below(k * PGSIZE) = Below(loc[p].goal)
    BY <1>1, <1>2, <1>10, <2>1, SamePages
  <2>3. Below(m * PGSIZE) = Below(loc[p].goal)
    BY Zenon, <1>2, <1>3, SamePages
  <2>4. QED
    BY Zenon, <1>3, <1>10, <2>1, <2>2, <2>3
<1>12. Ctl(p)'
  <2>1. Call(p)'
    BY <1>1, <1>3, <1>4, <1>5, <1>6, <1>8, <1>10, <1>11, Zenon DEF Call, Building
  <2>2. QED
    BY <1>1, <1>5, <2>1, Zenon DEF Ctl, InCall
<1>13. Control'
  BY <1>1, <1>6, <1>8, <1>12, Solo, Zenon
<1>14. QED
  BY <1>7, <1>9, <1>13, Zenon DEF VmInv

\* kalloc for the directory or for a page table of the kernel.
LEMMA SetupStep ==
  ASSUME VmInv, NEW p \in Procs, setupkvm(p), kalloc # 0
  PROVE  VmInv'
<1>1. vpc[p] = "setupkvm"
  BY DEF setupkvm, now
<1>2. /\ VmTypeOK /\ PagesAccounted /\ Call(p) /\ new[p] \in Space
      /\ kalloc \in freelist /\ kalloc \in Frames
  BY <1>1, CallIs, Kalloc, Zenon DEF InCall
<1> DEFINE t == IF new[p].dir = 0 THEN [new[p] EXCEPT !.dir = kalloc]
                ELSE [new[p] EXCEPT !.kpt = @ \cup {kalloc}]
<1>3. /\ t \in Space /\ Mapping(t) = Mapping(new[p])
      /\ \E r0 \in Roles : /\ In(t, r0) = In(new[p], r0) \cup {kalloc}
                           /\ \A r \in Roles \ {r0} : In(t, r) = In(new[p], r)
  <2>1. CASE new[p].dir = 0
    <3>1. t = [new[p] EXCEPT !.dir = kalloc]
      BY <2>1, Zenon
    <3>2. QED
      BY <1>2, <2>1, <3>1, WithDir, RolesAre
  <2>2. CASE new[p].dir # 0
    <3>1. t = [new[p] EXCEPT !.kpt = @ \cup {kalloc}]
      BY <2>2, Zenon
    <3>2. QED
      BY <1>2, <3>1, WithTable, RolesAre
  <2>3. QED
    BY <2>1, <2>2, Zenon
<1>4. /\ freelist' = freelist \ {kalloc} /\ new' = [new EXCEPT ![p] = t]
      /\ vpc' = [vpc EXCEPT ![p] = IF Cardinality(new'[p].kpt) = KTABLES THEN "alloc" ELSE @]
      /\ space' = space /\ sz' = sz /\ kstack' = kstack /\ loc' = loc
  BY Zenon DEF setupkvm
<1> HIDE DEF t
<1>5. VmTypeOK'
  BY Zenon, <1>1, <1>2, <1>3, <1>4 DEF VmTypeOK
<1>6. /\ new'[p] = t /\ vpc'[p] \in {"setupkvm", "alloc"}
      /\ \A q \in Procs \ {p} : Same(q)
  BY <1>1, <1>2, <1>4 DEF VmTypeOK, Same
<1>7. PagesAccounted'
  <2>0. PICK r0 \in Roles : /\ In(t, r0) = In(new[p], r0) \cup {kalloc}
                            /\ \A r \in Roles \ {r0} : In(t, r) = In(new[p], r)
    BY <1>3, Zenon
  <2>1. Nw(p, r0) \in Places /\ Nw(p, r0) # Free
    BY PlacesAre, Apart, Zenon
  <2>2. Held(Nw(p, r0))' = Held(Nw(p, r0)) \cup {kalloc}
    <3>1. Held(Nw(p, r0)) = In(new[p], r0) /\ Held(Nw(p, r0))' = In(new'[p], r0)
      BY HeldIs, HeldNext, Zenon
    <3>2. QED
      BY <1>6, <2>0, <3>1, Zenon
  <2>3. ASSUME NEW q \in Procs, NEW r \in Roles, Nw(q, r) \notin {Nw(p, r0), Free}
        PROVE  In(new'[q], r) = In(new[q], r)
    <3>1. CASE q = p
      <4>1. r # r0
        BY <2>3, <3>1, Zenon
      <4>2. QED
        BY <1>6, <2>0, <3>1, <4>1, Zenon
    <3>2. CASE q # p
      BY <1>6, <3>2, Zenon DEF Same
    <3>3. QED
      BY <3>1, <3>2, Zenon
  <2>4. \A u \in Places \ {Nw(p, r0), Free} : Held(u)' = Held(u)
    BY <1>4, <2>3, Rest, Zenon
  <2>5. QED
    BY <1>2, <1>4, <2>1, <2>2, <2>4, Take, Zenon
<1>8. Ctl(p)'
  <2>1. loc[p].op \in {"fork", "exec"}
    BY <1>1, <1>2, Zenon DEF Call
  <2>2. Building(p)' = t /\ Building(p) = new[p]
    BY <1>4, <1>6, <2>1 DEF Building
  <2>3. ASSUME loc[p].op = "fork" PROVE vpc'[loc[p].child] = "embryo"
    <3>1. loc[p].child \in Procs /\ vpc[loc[p].child] = "embryo"
      BY <1>1, <1>2, <2>3, ProcIs, Zenon DEF Call
    <3>2. loc[p].child # p
      BY <1>1, <3>1
    <3>3. QED
      BY <1>6, <3>1, <3>2, Zenon DEF Same
  <2>4. Call(p)'
    BY Zenon, <1>1, <1>2, <1>3, <1>4, <1>6, <2>1, <2>2, <2>3 DEF Call
  <2>5. QED
    BY <1>6, <2>4, Zenon DEF Ctl, InCall
<1>9. Control'
  BY <1>1, <1>4, <1>6, <1>8, Solo, Zenon
<1>10. QED
  BY <1>5, <1>7, <1>9, Zenon DEF VmInv


\* copyuvm finds every page of the parent below its size.
LEMMA CopyFinds ==
  ASSUME VmInv, NEW p \in Procs, vpc[p] = "alloc", loc[p].a < loc[p].goal, loc[p].op = "fork"
  PROVE  space[p].pg[loc[p].a \div PGSIZE] # 0 /\ loc[p].goal < KERNBASE
<1>1. Call(p) /\ VmTypeOK /\ loc[p].a \in Nat /\ \E k \in Nat : loc[p].a = k * PGSIZE
  BY CallIs, Zenon DEF InCall
<1>2. PICK k \in Nat : loc[p].a = k * PGSIZE
  BY <1>1, Zenon
<1>3. loc[p].goal = sz[p] /\ Mapping(space[p]) = Below(sz[p])
  BY <1>1, Zenon DEF Call
<1>4. sz[p] \in Nat /\ sz[p] < KERNBASE /\ KERNBASE \in Nat
  BY <1>1, Sizes DEF VmTypeOK
<1>5. k * PGSIZE < KERNBASE /\ k * PGSIZE < sz[p]
  BY <1>1, <1>2, <1>3, <1>4
<1>6. k \in VPages /\ (k * PGSIZE) \div PGSIZE = k
  BY Zenon, <1>5, NextPage
<1>7. k \in Below(sz[p])
  BY <1>5, <1>6, Zenon DEF Below
<1>8. QED
  BY <1>2, <1>3, <1>4, <1>6, <1>7, Zenon DEF Mapping

\* kalloc for a page of the image; the panic of copyuvm is out of reach.
LEMMA AllocStep ==
  ASSUME VmInv, NEW p \in Procs, alloc(p), ~(loc[p].goal >= KERNBASE \/ kalloc = 0)
  PROVE  VmInv'
<1>1. vpc[p] = "alloc" /\ loc[p].a < loc[p].goal
  BY DEF alloc, now
<1>2. /\ VmTypeOK /\ PagesAccounted /\ Call(p) /\ loc[p] \in Locals
      /\ loc[p].goal \in Nat /\ loc[p].a \in Nat /\ sz[p] \in Nat
      /\ kalloc \in freelist /\ kalloc \in Frames
  BY <1>1, CallIs, Kalloc, Zenon DEF InCall
<1>3. kalloc # 0 /\ loc[p].goal < KERNBASE /\ KERNBASE \in Nat
  BY <1>2, Sizes
<1>4. PICK k \in Nat : loc[p].a = k * PGSIZE
  BY <1>2, Zenon DEF Call
<1>5. loc[p].op = "fork" => space[p].pg[loc[p].a \div PGSIZE] # 0
  BY <1>1, CopyFinds, Zenon
<1> DEFINE l == [loc[p] EXCEPT !.mem = kalloc]
<1>6. /\ freelist' = freelist \ {kalloc} /\ loc' = [loc EXCEPT ![p] = l]
      /\ vpc' = [vpc EXCEPT ![p] = "mappages"]
      /\ space' = space /\ sz' = sz /\ kstack' = kstack /\ new' = new
  <2>1. /\ freelist' = freelist \ {kalloc} /\ loc' = [loc EXCEPT ![p].mem = kalloc]
        /\ vpc' = [vpc EXCEPT ![p] = "mappages"]
        /\ space' = space /\ sz' = sz /\ kstack' = kstack /\ new' = new
    BY Zenon, <1>5 DEF alloc
  <2>2. QED
    BY Zenon, <2>1
<1>7. /\ l \in Locals /\ l.op = loc[p].op /\ l.a = loc[p].a /\ l.goal = loc[p].goal
      /\ l.mem = kalloc /\ l.child = loc[p].child
  BY <1>2 DEF Locals
<1> HIDE DEF l
<1>8. VmTypeOK'
  BY <1>2, <1>6, <1>7 DEF VmTypeOK
<1>9. /\ loc'[p] = l /\ vpc'[p] = "mappages" /\ \A q \in Procs \ {p} : Same(q)
  BY Zenon, <1>2, <1>6 DEF VmTypeOK, Same
<1>10. loc[p].mem = 0
  BY <1>1, <1>2, Zenon DEF Call
<1>11. PagesAccounted'
  <2>1. Me(p) \in Places /\ Me(p) # Free
    BY PlacesAre, Apart, Zenon
  <2>2. Held(Me(p))' = Held(Me(p)) \cup {kalloc}
    <3>1. Held(Me(p)) = {loc[p].mem} \ {0} /\ Held(Me(p))' = {loc'[p].mem} \ {0}
      BY HeldIs, HeldNext, Zenon
    <3>2. QED
      BY <1>3, <1>7, <1>9, <1>10, <3>1
  <2>3. \A q \in Procs : Me(q) \notin {Me(p), Free} => loc'[q].mem = loc[q].mem
    BY <1>9, Zenon DEF Same
  <2>4. \A u \in Places \ {Me(p), Free} : Held(u)' = Held(u)
    BY <1>6, <2>3, Rest, Zenon
  <2>5. QED
    BY <1>2, <1>6, <2>1, <2>2, <2>4, Take, Zenon
<1>12. Ctl(p)'
  <2>1. Building(p)' = Building(p)
    BY <1>6, <1>7, <1>9, Zenon DEF Building
  <2>2. ASSUME loc[p].op = "fork" PROVE vpc'[loc[p].child] = "embryo"
    <3>1. loc[p].child \in Procs /\ vpc[loc[p].child] = "embryo"
      BY <1>1, <1>2, <2>2, ProcIs, Zenon DEF Call
    <3>2. loc[p].child # p
      BY Zenon, <1>1, <3>1
    <3>3. QED
      BY <1>9, <3>1, <3>2, Zenon DEF Same
  <2>3. Call(p)'
    BY <1>1, <1>2, <1>3, <1>6, <1>7, <1>9, <2>1, <2>2 DEF Call
  <2>4. QED
    BY <1>9, <2>3, Zenon DEF Ctl, InCall
<1>13. Control'
  BY <1>1, <1>7, <1>9, <1>12, Solo, Zenon
<1>14. QED
  BY <1>8, <1>11, <1>13, Zenon DEF VmInv

\* mappages maps the page; its panic is out of reach.
LEMMA MapStep ==
  ASSUME VmInv, NEW p \in Procs, mappages(p),
         Building(p).pt[PDX(loc[p].a \div PGSIZE)] # 0 \/ kalloc # 0
  PROVE  VmInv'
<1>1. vpc[p] = "mappages"
  BY Zenon DEF mappages, now
<1>2. /\ VmTypeOK /\ PagesAccounted /\ Call(p) /\ loc[p] \in Locals
      /\ loc[p].goal \in Nat /\ loc[p].a \in Nat
      /\ loc[p].mem \in Frames \cup {0} /\ space[p] \in Space /\ new[p] \in Space
  BY <1>1, CallIs, Zenon DEF InCall
<1>3. PICK k \in Nat : loc[p].a = k * PGSIZE
  BY <1>2, Zenon DEF Call
<1>4. k * PGSIZE < KERNBASE /\ loc[p].a < loc[p].goal /\ loc[p].mem \in Frames
  <2>1. loc[p].a < loc[p].goal /\ loc[p].goal < KERNBASE /\ loc[p].mem # 0
    BY <1>1, <1>2, Zenon DEF Call
  <2>2. KERNBASE \in Nat
    BY Sizes, Zenon
  <2>3. loc[p].a < KERNBASE
    BY <1>2, <2>1, <2>2
  <2>4. QED
    BY <1>2, <1>3, <2>1, <2>3, Zenon
<1>5. /\ k \in VPages /\ k \notin Below(k * PGSIZE) /\ (k * PGSIZE) \div PGSIZE = k
      /\ Below(k * PGSIZE + PGSIZE) = Below(k * PGSIZE) \cup {k}
      /\ k * PGSIZE + PGSIZE = (k + 1) * PGSIZE /\ PDX(k) \in Tables
  BY Zenon, <1>4, NextPage, Sizes
<1> DEFINE s == Building(p)
           old == s.pt[PDX(k)]
           pt == IF old = 0 THEN kalloc ELSE old
           X == {pt} \cap freelist
           t == Mapped(s, k, loc[p].mem, pt)
           l == [loc[p] EXCEPT !.mem = 0, !.a = loc[p].a + PGSIZE]
<1>6. s \in Space /\ Mapping(s) = Below(k * PGSIZE) /\ s.pg[k] = 0
  <2>1. s \in Space /\ Mapping(s) = Below(k * PGSIZE)
    BY <1>2, <1>3, Zenon DEF Building, Call
  <2>2. QED
    BY <1>5, <2>1, Zenon DEF Mapping
<1>7. /\ pt \in Frames /\ X \in SUBSET freelist /\ freelist \ {pt} = freelist \ X
      /\ {pt} = ({old} \ {0}) \cup X
  <2>1. CASE old = 0
    <3>1. pt = kalloc /\ kalloc # 0
      BY <1>3, <1>5, <2>1, Zenon
    <3>2. kalloc \in freelist /\ kalloc \in Frames
      BY <1>2, <3>1, Kalloc, Zenon
    <3>3. QED
      BY <2>1, <3>1, <3>2
  <2>2. CASE old # 0
    <3>1. pt = old /\ old \in Frames
      BY <1>5, <1>6, <2>2, SpaceIs
    <3>2. QED
      BY <2>2, <3>1
  <2>3. QED
    BY <2>1, <2>2, Zenon
<1>8. /\ freelist' = freelist \ {pt} /\ loc' = [loc EXCEPT ![p] = l]
      /\ vpc' = [vpc EXCEPT ![p] = "alloc"] /\ sz' = sz /\ kstack' = kstack
      /\ loc[p].op = "sbrk" => space' = [space EXCEPT ![p] = t] /\ new' = new
      /\ loc[p].op # "sbrk" => new' = [new EXCEPT ![p] = t] /\ space' = space
  <2>1. pt # 0
    BY <1>7, Sizes, Zenon
  <2>2. /\ freelist' = freelist \ {pt}
        /\ loc' = [loc EXCEPT ![p].mem = 0, ![p].a = @ + PGSIZE]
        /\ vpc' = [vpc EXCEPT ![p] = "alloc"] /\ sz' = sz /\ kstack' = kstack
        /\ loc[p].op = "sbrk" => space' = [space EXCEPT ![p] = t] /\ new' = new
        /\ loc[p].op # "sbrk" => new' = [new EXCEPT ![p] = t] /\ space' = space
    BY <1>3, <1>5, <1>6, <2>1 DEF mappages, Building
  <2>3. loc' = [loc EXCEPT ![p] = l]
    BY Zenon, <1>2, <2>2 DEF VmTypeOK, Locals
  <2>4. QED
    BY <2>2, <2>3, Zenon
<1>9. /\ t \in Space /\ Mapping(t) = Below(k * PGSIZE) \cup {k}
      /\ In(t, Pg(k)) = {loc[p].mem} /\ In(s, Pg(k)) = {}
      /\ In(t, Pt(PDX(k))) = {pt} /\ In(s, Pt(PDX(k))) = {old} \ {0}
      /\ \A r \in Roles \ {Pg(k), Pt(PDX(k))} : In(t, r) = In(s, r)
  <2> HIDE DEF s, pt
  <2>1. QED
    BY <1>4, <1>5, <1>6, <1>7, WithPage
<1> HIDE DEF s, old, pt, X, t
<1>10. /\ l \in Locals /\ l.op = loc[p].op /\ l.a = k * PGSIZE + PGSIZE /\ l.goal = loc[p].goal
       /\ l.mem = 0 /\ l.child = loc[p].child /\ l.a < l.goal + PGSIZE
  <2>1. loc[p].a + PGSIZE \in Nat /\ loc[p].a + PGSIZE < loc[p].goal + PGSIZE
    BY <1>2, <1>4, Sizes
  <2>2. QED
    BY <1>2, <1>3, <2>1 DEF Locals
<1> HIDE DEF l
<1>11. VmTypeOK'
  <2>1. space' \in [Procs -> Space] /\ new' \in [Procs -> Space]
    BY <1>2, <1>8, <1>9 DEF VmTypeOK
  <2>2. QED
    BY Zenon, <1>2, <1>8, <1>10, <2>1 DEF VmTypeOK
<1>12. /\ loc'[p] = l /\ vpc'[p] = "alloc" /\ \A q \in Procs \ {p} : Same(q)
       /\ loc[p].op = "sbrk" => space'[p] = t
       /\ loc[p].op # "sbrk" => new'[p] = t
  BY Zenon, <1>2, <1>8 DEF VmTypeOK, Same
<1>13. PagesAccounted'
  <2>1. CASE loc[p].op = "sbrk"
    <3>0. s = space[p] /\ space'[p] = t /\ new' = new
      BY <1>8, <1>12, <2>1 DEF s, Building
    <3> DEFINE m == Me(p)
               g == Sp(p, Pg(k))
               h == Sp(p, Pt(PDX(k)))
    <3>1. /\ m \in Places /\ g \in Places /\ h \in Places /\ m # Free /\ g # Free /\ h # Free
          /\ m # g /\ g # h /\ h # m
      <4>1. Pg(k) \in Roles /\ Pt(PDX(k)) \in Roles /\ Pt(PDX(k)) # Pg(k)
        BY <1>5, RolesAre, Zenon
      <4>2. m \in Places /\ g \in Places /\ h \in Places
        BY <4>1, PlacesAre, Zenon
      <4>3. QED
        BY <4>1, <4>2, ThreeApart, Zenon
    <3>2. /\ Held(m) = {loc[p].mem} \ {0} /\ Held(m)' = {loc'[p].mem} \ {0}
          /\ Held(g) = In(s, Pg(k)) /\ Held(g)' = In(space'[p], Pg(k))
          /\ Held(h) = In(s, Pt(PDX(k))) /\ Held(h)' = In(space'[p], Pt(PDX(k)))
      BY <3>0, HeldIs, HeldNext, Zenon
    <3>3. Held(g) = {} /\ Held(g)' = Held(m) /\ Held(m)' = {}
      <4>1. loc[p].mem # 0 /\ loc'[p].mem = 0
        BY <1>4, <1>10, <1>12, Sizes, Zenon
      <4>2. Held(g) = {} /\ Held(g)' = {loc[p].mem}
        BY <1>9, <3>0, <3>2, Zenon
      <4>3. QED
        BY <3>2, <4>1, <4>2
    <3>4. Held(h)' = Held(h) \cup X
      BY <1>7, <1>9, <3>0, <3>2, Zenon
    <3>5. ASSUME NEW q \in Procs, NEW r \in Roles, Sp(q, r) \notin {m, g, h, Free}
          PROVE  In(space'[q], r) = In(space[q], r)
      <4>1. CASE q = p
        <5>1. r \in Roles \ {Pg(k), Pt(PDX(k))}
          BY <3>5, <4>1, Zenon
        <5>2. QED
          BY <1>9, <3>0, <4>1, <5>1, Zenon
      <4>2. CASE q # p
        BY <1>12, <4>2, Zenon DEF Same
      <4>3. QED
        BY <4>1, <4>2, Zenon
    <3>6. \A q \in Procs : Me(q) \notin {m, g, h, Free} => loc'[q].mem = loc[q].mem
      BY <1>12, Zenon DEF Same
    <3>7. \A u \in Places \ {m, g, h, Free} : Held(u)' = Held(u)
      <4> HIDE DEF m, g, h
      <4>1. QED
        BY <1>8, <3>0, <3>5, <3>6, Rest, Zenon
    <3> HIDE DEF m, g, h
    <3>8. QED
      BY Zenon, <1>2, <1>7, <1>8, <3>1, <3>3, <3>4, <3>7, MapPage
  <2>2. CASE loc[p].op # "sbrk"
    <3>0. s = new[p] /\ new'[p] = t /\ space' = space
      BY <1>8, <1>12, <2>2 DEF s, Building
    <3> DEFINE m == Me(p)
               g == Nw(p, Pg(k))
               h == Nw(p, Pt(PDX(k)))
    <3>1. /\ m \in Places /\ g \in Places /\ h \in Places /\ m # Free /\ g # Free /\ h # Free
          /\ m # g /\ g # h /\ h # m
      <4>1. Pg(k) \in Roles /\ Pt(PDX(k)) \in Roles /\ Pt(PDX(k)) # Pg(k)
        BY <1>5, RolesAre, Zenon
      <4>2. m \in Places /\ g \in Places /\ h \in Places
        BY <4>1, PlacesAre, Zenon
      <4>3. QED
        BY <4>1, <4>2, ThreeApart, Zenon
    <3>2. /\ Held(m) = {loc[p].mem} \ {0} /\ Held(m)' = {loc'[p].mem} \ {0}
          /\ Held(g) = In(s, Pg(k)) /\ Held(g)' = In(new'[p], Pg(k))
          /\ Held(h) = In(s, Pt(PDX(k))) /\ Held(h)' = In(new'[p], Pt(PDX(k)))
      BY <3>0, HeldIs, HeldNext, Zenon
    <3>3. Held(g) = {} /\ Held(g)' = Held(m) /\ Held(m)' = {}
      <4>1. loc[p].mem # 0 /\ loc'[p].mem = 0
        BY <1>4, <1>10, <1>12, Sizes, Zenon
      <4>2. Held(g) = {} /\ Held(g)' = {loc[p].mem}
        BY <1>9, <3>0, <3>2, Zenon
      <4>3. QED
        BY <3>2, <4>1, <4>2
    <3>4. Held(h)' = Held(h) \cup X
      BY <1>7, <1>9, <3>0, <3>2, Zenon
    <3>5. ASSUME NEW q \in Procs, NEW r \in Roles, Nw(q, r) \notin {m, g, h, Free}
          PROVE  In(new'[q], r) = In(new[q], r)
      <4>1. CASE q = p
        <5>1. r \in Roles \ {Pg(k), Pt(PDX(k))}
          BY <3>5, <4>1, Zenon
        <5>2. QED
          BY <1>9, <3>0, <4>1, <5>1, Zenon
      <4>2. CASE q # p
        BY <1>12, <4>2, Zenon DEF Same
      <4>3. QED
        BY <4>1, <4>2, Zenon
    <3>6. \A q \in Procs : Me(q) \notin {m, g, h, Free} => loc'[q].mem = loc[q].mem
      BY <1>12, Zenon DEF Same
    <3>7. \A u \in Places \ {m, g, h, Free} : Held(u)' = Held(u)
      <4> HIDE DEF m, g, h
      <4>1. QED
        BY <1>8, <3>0, <3>5, <3>6, Rest, Zenon
    <3> HIDE DEF m, g, h
    <3>8. QED
      BY Zenon, <1>2, <1>7, <1>8, <3>1, <3>3, <3>4, <3>7, MapPage
  <2>3. QED
    BY <2>1, <2>2, Zenon
<1>14. Ctl(p)'
  <2>1. Building(p)' = t
    BY <1>10, <1>12, Zenon DEF Building
  <2>2. ASSUME loc[p].op = "fork" PROVE vpc'[loc[p].child] = "embryo"
    <3>1. loc[p].child \in Procs /\ vpc[loc[p].child] = "embryo"
      BY <1>1, <1>2, <2>2, ProcIs, Zenon DEF Call
    <3>2. loc[p].child # p
      BY Zenon, <1>1, <3>1
    <3>3. QED
      BY <1>12, <3>1, <3>2, Zenon DEF Same
  <2>3. Mapping(Building(p)') = Below(l.a) /\ \E j \in Nat : l.a = j * PGSIZE
    <3>1. k + 1 \in Nat
      OBVIOUS
    <3>2. QED
      BY <1>5, <1>9, <1>10, <2>1, <3>1, Zenon
  <2>4. ASSUME loc[p].op = "sbrk" PROVE PGROUNDUP(sz[p]) <= l.a
    <3>1. PGROUNDUP(sz[p]) <= loc[p].a
      BY <1>2, <2>4, Zenon DEF Call
    <3>2. PICK j \in Nat : PGROUNDUP(sz[p]) = j * PGSIZE
      BY Zenon, <1>2, ProcIs, RoundUp
    <3>3. QED
      BY <1>2, <1>3, <1>10, <3>1, <3>2, Sizes
  <2>5. Call(p)'
    <3>1. /\ loc[p].op # "none" /\ kstack[p] # 0
          /\ loc[p].op = "sbrk" => new[p] = NoSpace /\ sz[p] <= loc[p].goal
          /\ loc[p].op # "sbrk" => Mapping(space[p]) = Below(sz[p])
          /\ loc[p].op = "fork" => loc[p].goal = sz[p]
          /\ loc[p].goal < KERNBASE
      BY <1>1, <1>2, Zenon DEF Call
    <3>2. QED
      BY <1>8, <1>10, <1>12, <2>2, <2>3, <2>4, <3>1, Zenon DEF Call
  <2>6. QED
    BY <1>12, <2>5, Zenon DEF Ctl, InCall
<1>15. Control'
  BY <1>1, <1>10, <1>12, <1>14, Solo, Zenon
<1>16. QED
  BY <1>11, <1>13, <1>15, Zenon DEF VmInv


-----------------------------------------------------------------------------
(* The error paths. *)

\* The pages of some places and one more.
LEMMA UnionWith ==
  ASSUME NEW P, NEW t
  PROVE  UNION {Held(u) : u \in P \cup {t}} = (UNION {Held(u) : u \in P}) \cup Held(t)
<1> DEFINE U == UNION {Held(u) : u \in P \cup {t}}
           V == UNION {Held(u) : u \in P}
<1>1. ASSUME NEW f PROVE f \in U <=> \E u \in P \cup {t} : f \in Held(u)
  BY Zenon
<1>2. ASSUME NEW f PROVE f \in V <=> \E u \in P : f \in Held(u)
  BY Zenon
<1> HIDE DEF U, V
<1>3. ASSUME NEW f PROVE f \in U <=> f \in V \cup Held(t)
  BY <1>1, <1>2, Zenon
<1>4. U = V \cup Held(t)
  BY <1>3, Zenon
<1>5. QED
  BY <1>4, Zenon DEF U, V

\* What a call that fails frees: the space it was building, and more.
LEMMA NewPages ==
  ASSUME VmTypeOK, NEW p \in Procs, NEW T
  PROVE  UNION {Held(u) : u \in {Nw(p, r) : r \in Roles} \cup T}
           = Pages(new[p]) \cup UNION {Held(u) : u \in T}
<1>1. new[p] \in Space
  BY ProcIs, Zenon
<1>2. Pages(new[p]) = UNION {In(new[p], r) : r \in Roles}
  BY <1>1, PagesAre, Zenon
<1>3. \A r \in Roles : Held(Nw(p, r)) = In(new[p], r)
  BY HeldIs, Zenon
<1>4. ASSUME NEW f
      PROVE  (\E u \in {Nw(p, r) : r \in Roles} \cup T : f \in Held(u))
               <=> f \in Pages(new[p]) \/ \E u \in T : f \in Held(u)
  <2>1. (\E u \in {Nw(p, r) : r \in Roles} \cup T : f \in Held(u))
          <=> (\E r \in Roles : f \in Held(Nw(p, r))) \/ \E u \in T : f \in Held(u)
    BY Zenon
  <2>2. f \in Pages(new[p]) <=> \E r \in Roles : f \in Held(Nw(p, r))
    BY <1>2, <1>3, Zenon
  <2>3. QED
    BY <2>1, <2>2, Zenon
<1>5. QED
  BY <1>4, Zenon

\* The free list stays a set of pages.
LEMMA FreeType ==
  ASSUME VmTypeOK, PagesAccounted, NEW R \in SUBSET Places,
         freelist' = freelist \cup UNION {Held(u) : u \in R}
  PROVE  freelist' \in SUBSET Frames
<1>1. \A u \in R : Held(u) \in SUBSET Frames
  BY Owners, Zenon
<1>2. freelist \in SUBSET Frames
  BY Zenon DEF VmTypeOK
<1>3. QED
  BY <1>1, <1>2, Zenon

\* exec fails.
LEMMA ExecFails ==
  ASSUME VmInv, NEW p \in Procs, vpc[p] \in InCall, loc[p].op \in {"exec", "stack"}, exec_fails(p)
  PROVE  VmInv'
<1>1. VmTypeOK /\ PagesAccounted /\ Call(p) /\ loc[p].mem \in Frames \cup {0}
  BY CallIs, Zenon
<1>2. /\ freelist' = freelist \cup Pages(new[p]) \cup ({loc[p].mem} \ {0})
      /\ new' = [new EXCEPT ![p] = NoSpace] /\ vpc' = [vpc EXCEPT ![p] = "user"]
      /\ loc' = [loc EXCEPT ![p] = NoCall] /\ space' = space /\ sz' = sz /\ kstack' = kstack
  BY Zenon DEF exec_fails
<1>3. NoCall \in Locals /\ NoCall.mem = 0 /\ NoCall.op = "none"
  BY Zenon, VmAssumption DEF NoCall, Locals, VmConstants
<1>4. /\ new'[p] = NoSpace /\ vpc'[p] = "user" /\ loc'[p] = NoCall
      /\ \A q \in Procs \ {p} : Same(q)
  BY Zenon, <1>1, <1>2 DEF VmTypeOK, Same
<1> DEFINE N == {Nw(p, r) : r \in Roles}
           R == N \cup {Me(p)}
<1>5. R \in SUBSET Places /\ Free \notin R
  BY PlacesAre, Apart
<1>6. Held(Me(p)) = {loc[p].mem} \ {0} /\ Held(Me(p))' = {}
  <2>1. Held(Me(p)) = {loc[p].mem} \ {0} /\ Held(Me(p))' = {loc'[p].mem} \ {0}
    BY HeldIs, HeldNext, Zenon
  <2>2. QED
    BY Zenon, <1>3, <1>4, <2>1
<1>7. ASSUME NEW r \in Roles PROVE Held(Nw(p, r))' = {}
  <2>1. Held(Nw(p, r))' = In(new'[p], r) /\ In(NoSpace, r) = {}
    BY HeldNext, NoSpaceIs, Zenon
  <2>2. QED
    BY Zenon, <1>4, <2>1
<1>8. \A u \in R : Held(u)' = {}
  BY Zenon, <1>6, <1>7
<1>9. freelist' = freelist \cup UNION {Held(u) : u \in R}
  <2>1. UNION {Held(u) : u \in R} = Pages(new[p]) \cup UNION {Held(u) : u \in {Me(p)}}
    BY <1>1, NewPages, Zenon
  <2>2. UNION {Held(u) : u \in {Me(p)}} = {loc[p].mem} \ {0}
    BY Zenon, <1>6
  <2> HIDE DEF R
  <2>3. QED
    BY Zenon, <1>2, <2>1, <2>2
<1>10. \A u \in Places \ (R \cup {Free}) : Held(u)' = Held(u)
  <2>1. \A q \in Procs, r \in Roles : Nw(q, r) \notin R \cup {Free} => In(new'[q], r) = In(new[q], r)
    BY <1>4, Zenon DEF Same
  <2>2. \A q \in Procs : Me(q) \notin R \cup {Free} => loc'[q].mem = loc[q].mem
    BY <1>4, Zenon DEF Same
  <2> HIDE DEF R
  <2>3. QED
    BY <1>2, <2>1, <2>2, Rest, Zenon
<1> HIDE DEF N, R
<1>11. PagesAccounted'
  BY <1>1, <1>5, <1>8, <1>9, <1>10, Release, Zenon
<1>12. VmTypeOK'
  <2>1. freelist' \in SUBSET Frames
    BY <1>1, <1>5, <1>9, FreeType, Zenon
  <2>2. QED
    BY <1>1, <1>2, <1>3, <2>1, NoSpaceIs DEF VmTypeOK
<1>13. Ctl(p)'
  <2>1. Mapping(space[p]) = Below(sz[p]) /\ kstack[p] # 0
    BY <1>1 DEF Call
  <2>2. Idle(p)'
    BY <1>2, <1>4, <2>1, Zenon DEF Idle
  <2>3. QED
    BY <1>4, <2>2, Zenon DEF Ctl, InCall
<1>14. Control'
  <2>1. vpc[p] # "embryo"
    BY Zenon DEF InCall
  <2>2. QED
    BY <1>3, <1>4, <1>13, <2>1, Solo, Zenon
<1>15. QED
  BY <1>11, <1>12, <1>14, Zenon DEF VmInv

\* sbrk fails.
LEMMA SbrkFails ==
  ASSUME VmInv, NEW p \in Procs, vpc[p] \in InCall, loc[p].op = "sbrk", sbrk_fails(p)
  PROVE  VmInv'
<1>1. /\ VmTypeOK /\ PagesAccounted /\ Call(p) /\ loc[p].mem \in Frames \cup {0}
      /\ space[p] \in Space /\ loc[p].goal \in Nat /\ loc[p].a \in Nat /\ sz[p] \in Nat
  BY CallIs, Zenon
<1> DEFINE vs == dealloc(space[p], loc[p].goal, sz[p])
           s == unmap(space[p], vs)
<1>2. /\ freelist' = freelist \cup {space[p].pg[v] : v \in vs} \cup ({loc[p].mem} \ {0})
      /\ space' = [space EXCEPT ![p] = s] /\ vpc' = [vpc EXCEPT ![p] = "user"]
      /\ loc' = [loc EXCEPT ![p] = NoCall] /\ new' = new /\ sz' = sz /\ kstack' = kstack
  BY Zenon DEF sbrk_fails
<1>3. NoCall \in Locals /\ NoCall.mem = 0 /\ NoCall.op = "none"
  BY Zenon, VmAssumption DEF NoCall, Locals, VmConstants
<1>4. vs \in SUBSET VPages /\ \A v \in vs : space[p].pg[v] # 0
  BY Zenon DEF dealloc
<1>5. Mapping(space[p]) \ vs = Below(sz[p])
  <2>1. PICK k \in Nat : loc[p].a = k * PGSIZE
    BY <1>1, Zenon DEF Call
  <2>2. /\ Mapping(space[p]) = Below(k * PGSIZE) /\ PGROUNDUP(sz[p]) <= k * PGSIZE
        /\ k * PGSIZE < loc[p].goal + PGSIZE
    BY <1>1, <2>1, Zenon DEF Call, Building
  <2>3. PICK m \in Nat : PGROUNDUP(sz[p]) = m * PGSIZE /\ sz[p] <= m * PGSIZE
    BY <1>1, RoundUp
  <2>4. m * PGSIZE \in Nat /\ k * PGSIZE \in Nat /\ PGSIZE \in Nat
    BY Sizes
  <2>5. sz[p] <= k * PGSIZE
    BY <1>1, <2>2, <2>3, <2>4
  <2>6. Below(sz[p]) \subseteq Below(k * PGSIZE)
    <3>1. SUFFICES ASSUME NEW v \in VPages, v * PGSIZE < sz[p] PROVE v * PGSIZE < k * PGSIZE
      BY Zenon DEF Below
    <3>2. v * PGSIZE \in Nat
      BY Sizes
    <3>3. QED
      BY <1>1, <2>4, <2>5, <3>1, <3>2
  <2>7. sz[p] <= loc[p].goal
    BY <1>1, Zenon DEF Call
  <2>8. Mapping(space[p]) \ vs = Below(sz[p]) \cap Below(k * PGSIZE)
    BY <1>1, <2>2, <2>7, Dealloc
  <2>9. QED
    BY <2>6, <2>8, Zenon
<1> HIDE DEF vs
<1>6. /\ s \in Space /\ Mapping(s) = Below(sz[p])
      /\ \A v \in vs : In(s, Pg(v)) = {}
      /\ \A r \in Roles : (\A v \in vs : r # Pg(v)) => In(s, r) = In(space[p], r)
  BY Zenon, <1>1, <1>4, <1>5, WithoutPages
<1> HIDE DEF s
<1>7. /\ space'[p] = s /\ vpc'[p] = "user" /\ loc'[p] = NoCall
      /\ \A q \in Procs \ {p} : Same(q)
  BY Zenon, <1>1, <1>2 DEF VmTypeOK, Same
<1> DEFINE P == {Sp(p, Pg(v)) : v \in vs}
           R == P \cup {Me(p)}
<1>8. R \in SUBSET Places /\ Free \notin R
  BY <1>4, PlacesAre, RolesAre, Apart
<1>9. Held(Me(p)) = {loc[p].mem} \ {0} /\ Held(Me(p))' = {}
  <2>1. Held(Me(p)) = {loc[p].mem} \ {0} /\ Held(Me(p))' = {loc'[p].mem} \ {0}
    BY HeldIs, HeldNext, Zenon
  <2>2. QED
    BY Zenon, <1>3, <1>7, <2>1
<1>10. ASSUME NEW v \in vs
       PROVE  Held(Sp(p, Pg(v))) = {space[p].pg[v]} /\ Held(Sp(p, Pg(v)))' = {}
  <2>1. Held(Sp(p, Pg(v))) = {space[p].pg[v]} \ {0}
    <3>1. v \in VPages
      BY <1>4, Zenon
    <3>2. Held(Sp(p, Pg(v))) = In(space[p], Pg(v)) /\ In(space[p], Pg(v)) = {space[p].pg[v]} \ {0}
      BY <3>1, HeldIs, InIs, Zenon
    <3>3. QED
      BY <3>2, Zenon
  <2>2. Held(Sp(p, Pg(v)))' = In(s, Pg(v))
    BY <1>7, HeldNext, Zenon
  <2>3. QED
    BY Zenon, <1>4, <1>6, <2>1, <2>2
<1>11. freelist' = freelist \cup UNION {Held(u) : u \in R}
  <2>1. UNION {Held(u) : u \in P} = {space[p].pg[v] : v \in vs}
    BY <1>10
  <2> HIDE DEF P
  <2>2. UNION {Held(u) : u \in R} = (UNION {Held(u) : u \in P}) \cup Held(Me(p))
    BY UnionWith, Zenon
  <2> DEFINE U == UNION {Held(u) : u \in R}
             V == UNION {Held(u) : u \in P}
             W == {space[p].pg[v] : v \in vs}
  <2>3. U = V \cup Held(Me(p))
    BY <2>2, Zenon
  <2>4. V = W
    BY <2>1, Zenon
  <2>5. freelist' = freelist \cup W \cup ({loc[p].mem} \ {0})
    BY <1>2, Zenon
  <2> HIDE DEF U, V, W
  <2>6. freelist' = freelist \cup U
    BY Zenon, <1>9, <2>3, <2>4, <2>5
  <2>7. QED
    BY <2>6, Zenon DEF U
<1>12. \A u \in R : Held(u)' = {}
  BY <1>9, <1>10, Zenon
<1>13. \A u \in Places \ (R \cup {Free}) : Held(u)' = Held(u)
  <2>1. ASSUME NEW q \in Procs, NEW r \in Roles, Sp(q, r) \notin R \cup {Free}
        PROVE  In(space'[q], r) = In(space[q], r)
    <3>1. CASE q = p
      <4>1. \A v \in vs : r # Pg(v)
        BY Zenon, <2>1, <3>1
      <4>2. QED
        BY <1>6, <1>7, <3>1, <4>1, Zenon
    <3>2. CASE q # p
      BY <1>7, <3>2, Zenon DEF Same
    <3>3. QED
      BY <3>1, <3>2, Zenon
  <2>2. \A q \in Procs : Me(q) \notin R \cup {Free} => loc'[q].mem = loc[q].mem
    BY <1>7, Zenon DEF Same
  <2> HIDE DEF R
  <2>3. QED
    BY <1>2, <2>1, <2>2, Rest, Zenon
<1> HIDE DEF P, R
<1>14. PagesAccounted'
  BY <1>1, <1>8, <1>11, <1>12, <1>13, Release, Zenon
<1>15. VmTypeOK'
  <2>1. freelist' \in SUBSET Frames
    BY <1>1, <1>8, <1>11, FreeType, Zenon
  <2>2. QED
    BY Zenon, <1>1, <1>2, <1>3, <1>6, <2>1 DEF VmTypeOK
<1>16. Ctl(p)'
  <2>1. new[p] = NoSpace /\ kstack[p] # 0
    BY <1>1, Zenon DEF Call
  <2>2. Idle(p)'
    BY <1>2, <1>6, <1>7, <2>1, Zenon DEF Idle
  <2>3. QED
    BY <1>7, <2>2, Zenon DEF Ctl, InCall
<1>17. Control'
  <2>1. vpc[p] # "embryo"
    BY Zenon DEF InCall
  <2>2. QED
    BY <1>3, <1>7, <1>16, <2>1, Solo, Zenon
<1>18. QED
  BY <1>14, <1>15, <1>17, Zenon DEF VmInv

\* fork fails: the child's slot is free again.
LEMMA ForkFails ==
  ASSUME VmInv, NEW p \in Procs, vpc[p] \in InCall, loc[p].op = "fork", fork_fails(p)
  PROVE  VmInv'
<1>0. PICK q \in Procs : q = loc[p].child
  BY CallIs, Zenon
<1>1. /\ VmTypeOK /\ PagesAccounted /\ Control /\ Call(p) /\ loc[p].mem \in Frames \cup {0}
      /\ q \in Procs /\ vpc[q] = "embryo"
  BY <1>0, CallIs, Zenon DEF Call
<1>2. /\ freelist' = freelist \cup Pages(new[p]) \cup {kstack[q]} \cup ({loc[p].mem} \ {0})
      /\ new' = [new EXCEPT ![p] = NoSpace] /\ vpc' = [vpc EXCEPT ![p] = "user", ![q] = "none"]
      /\ loc' = [loc EXCEPT ![p] = NoCall] /\ space' = space /\ sz' = sz
      /\ kstack' = [kstack EXCEPT ![q] = 0]
  BY <1>0 DEF fork_fails
<1>3. NoCall \in Locals /\ NoCall.mem = 0 /\ NoCall.op = "none"
  BY Zenon, VmAssumption DEF NoCall, Locals, VmConstants
<1>4. /\ q # p /\ space[q] = NoSpace /\ new[q] = NoSpace /\ loc[q] = NoCall
      /\ kstack[q] \in Frames /\ kstack[p] # 0
  <2>1. q # p /\ vpc[q] \notin InCall
    BY Zenon, <1>1 DEF InCall
  <2>2. Idle(q)
    BY <1>1, <2>1, Zenon DEF Control, Ctl
  <2>3. kstack[q] \in Frames \cup {0}
    BY <1>1, ProcIs, Zenon
  <2>4. kstack[q] # 0 /\ space[q] = NoSpace /\ new[q] = NoSpace /\ loc[q] = NoCall
    BY <1>1, <2>2, Zenon DEF Idle
  <2>5. QED
    BY Zenon, <1>1, <2>1, <2>3, <2>4 DEF Call
<1>5. /\ new'[p] = NoSpace /\ vpc'[p] = "user" /\ loc'[p] = NoCall /\ kstack'[p] = kstack[p]
      /\ vpc'[q] = "none" /\ kstack'[q] = 0 /\ new'[q] = new[q] /\ loc'[q] = loc[q]
      /\ \A r \in Procs \ {p, q} : Same(r)
  BY Zenon, <1>1, <1>2, <1>4 DEF VmTypeOK, Same
<1> DEFINE N == {Nw(p, r) : r \in Roles}
           M == {Ks(q)} \cup {Me(p)}
           R == N \cup M
<1>6. R \in SUBSET Places /\ Free \notin R
  BY <1>1, PlacesAre, Apart
<1>7. Held(Me(p)) = {loc[p].mem} \ {0} /\ Held(Me(p))' = {}
  <2>1. Held(Me(p)) = {loc[p].mem} \ {0} /\ Held(Me(p))' = {loc'[p].mem} \ {0}
    BY HeldIs, HeldNext, Zenon
  <2>2. QED
    BY Zenon, <1>3, <1>5, <2>1
<1>8. Held(Ks(q)) = {kstack[q]} /\ Held(Ks(q))' = {}
  <2>1. Held(Ks(q)) = {kstack[q]} \ {0} /\ Held(Ks(q))' = {kstack'[q]} \ {0}
    BY <1>1, HeldIs, HeldNext, Zenon
  <2>2. kstack[q] # 0
    BY Zenon, <1>4, Sizes
  <2>3. QED
    BY Zenon, <1>5, <2>1, <2>2
<1>9. ASSUME NEW r \in Roles PROVE Held(Nw(p, r))' = {}
  <2>1. Held(Nw(p, r))' = In(new'[p], r) /\ In(NoSpace, r) = {}
    BY HeldNext, NoSpaceIs, Zenon
  <2>2. QED
    BY Zenon, <1>5, <2>1
<1>10. \A u \in R : Held(u)' = {}
  BY Zenon, <1>7, <1>8, <1>9
<1>11. freelist' = freelist \cup UNION {Held(u) : u \in R}
  <2> DEFINE U == UNION {Held(u) : u \in R}
             V == UNION {Held(u) : u \in M}
  <2>1. U = Pages(new[p]) \cup V
    BY <1>1, NewPages, Zenon
  <2>2. V = Held(Ks(q)) \cup Held(Me(p))
    OBVIOUS
  <2> HIDE DEF U, V
  <2>3. freelist' = freelist \cup U
    BY <1>2, <1>7, <1>8, <2>1, <2>2
  <2>4. QED
    BY <2>3, Zenon DEF U
<1>12. \A u \in Places \ (R \cup {Free}) : Held(u)' = Held(u)
  <2>1. ASSUME NEW o \in Procs, NEW r \in Roles, Nw(o, r) \notin R \cup {Free}
        PROVE  In(new'[o], r) = In(new[o], r)
    BY <1>5, <2>1, Zenon DEF Same
  <2>2. ASSUME NEW o \in Procs, Me(o) \notin R \cup {Free} PROVE loc'[o].mem = loc[o].mem
    BY <1>5, <2>2, Zenon DEF Same
  <2>3. ASSUME NEW o \in Procs, Ks(o) \notin R \cup {Free} PROVE kstack'[o] = kstack[o]
    BY <1>5, <2>3, Zenon DEF Same
  <2> HIDE DEF R
  <2>4. QED
    BY <1>2, <2>1, <2>2, <2>3, Rest, Zenon
<1> HIDE DEF N, M, R
<1>13. PagesAccounted'
  BY <1>1, <1>6, <1>10, <1>11, <1>12, Release, Zenon
<1>14. VmTypeOK'
  <2>1. freelist' \in SUBSET Frames
    BY <1>1, <1>6, <1>11, FreeType, Zenon
  <2>2. QED
    BY <1>1, <1>2, <1>3, <2>1, NoSpaceIs DEF VmTypeOK
<1>15. Ctl(p)'
  <2>1. Mapping(space[p]) = Below(sz[p])
    BY Zenon, <1>1 DEF Call
  <2>2. Idle(p)'
    BY <1>2, <1>4, <1>5, <2>1, Zenon DEF Idle
  <2>3. QED
    BY <1>5, <2>2, Zenon DEF Ctl, InCall
<1>16. Ctl(q)'
  <2>1. Idle(q)'
    BY <1>2, <1>4, <1>5, Zenon DEF Idle
  <2>2. QED
    BY <1>5, <2>1, Zenon DEF Ctl, InCall
<1>17. Control'
  <2>1. vpc[p] # "embryo"
    BY Zenon DEF InCall
  <2>2. loc'[p].op # "fork" /\ loc'[q].op # "fork"
    BY Zenon, <1>3, <1>4, <1>5
  <2>3. QED
    BY <1>1, <1>5, <1>15, <1>16, <1>0, <2>1, <2>2, Pair, Zenon
<1>18. QED
  BY <1>13, <1>14, <1>17, Zenon DEF VmInv


\* Whichever call fails, wherever it stands, every page it took is free again.
LEMMA FailsStep ==
  ASSUME VmInv, NEW p \in Procs, vpc[p] \in InCall, Fails(p)
  PROVE  VmInv'
<1>1. loc[p].op \in {"fork", "exec", "stack", "sbrk"}
  <2>1. loc[p].op # "none" /\ loc[p] \in Locals
    BY CallIs, Zenon DEF Call
  <2>2. QED
    BY Zenon, <2>1 DEF Locals
<1>2. CASE loc[p].op = "fork"
  <2>1. fork_fails(p)
    BY Zenon, <1>2 DEF Fails
  <2>2. QED
    BY <1>2, <2>1, ForkFails, Zenon
<1>3. CASE loc[p].op \in {"exec", "stack"}
  <2>1. exec_fails(p)
    BY Zenon, <1>3 DEF Fails
  <2>2. QED
    BY <1>3, <2>1, ExecFails, Zenon
<1>4. CASE loc[p].op = "sbrk"
  <2>1. sbrk_fails(p)
    BY Zenon, <1>4 DEF Fails
  <2>2. QED
    BY <1>4, <2>1, SbrkFails, Zenon
<1>5. QED
  BY <1>1, <1>2, <1>3, <1>4, Zenon

-----------------------------------------------------------------------------
(* exec and fork end. *)

\* The pages below the end of a page that is at most the goal.
LEMMA Reached ==
  ASSUME VmInv, NEW p \in Procs, vpc[p] = "alloc", loc[p].a >= loc[p].goal
  PROVE  Mapping(Building(p)) = Below(loc[p].goal)
<1>1. /\ Call(p) /\ loc[p].a \in Nat /\ loc[p].goal \in Nat
      /\ \E k \in Nat : loc[p].a = k * PGSIZE
  BY CallIs, Zenon DEF InCall
<1>2. PICK k \in Nat : loc[p].a = k * PGSIZE
  BY <1>1, Zenon
<1>3. Mapping(Building(p)) = Below(k * PGSIZE) /\ k * PGSIZE < loc[p].goal + PGSIZE
  BY <1>1, <1>2, Zenon DEF Call
<1>4. loc[p].goal <= k * PGSIZE
  BY <1>1, <1>2
<1>5. Below(k * PGSIZE) = Below(loc[p].goal)
  BY Zenon, <1>1, <1>3, <1>4, SamePages
<1>6. QED
  BY <1>3, <1>5, Zenon

\* exec replaces the image and frees the old one.
LEMMA ExecDone ==
  ASSUME VmInv, NEW p \in Procs, exec_done(p, TRUE)
  PROVE  VmInv'
<1>1. /\ vpc[p] = "alloc" /\ loc[p].op = "stack" /\ loc[p].a >= loc[p].goal
      /\ space' = [space EXCEPT ![p] = new[p]] /\ sz' = [sz EXCEPT ![p] = loc[p].goal]
      /\ freelist' = freelist \cup Pages(space[p])
      /\ new' = [new EXCEPT ![p] = NoSpace] /\ vpc' = [vpc EXCEPT ![p] = "user"]
      /\ loc' = [loc EXCEPT ![p] = NoCall] /\ kstack' = kstack
  BY Zenon DEF exec_done, now
<1>2. /\ VmTypeOK /\ PagesAccounted /\ Call(p) /\ loc[p].goal \in Nat /\ loc[p].a \in Nat
      /\ space[p] \in Space /\ new[p] \in Space
  BY <1>1, CallIs, Zenon DEF InCall
<1>3. NoCall \in Locals /\ NoCall.mem = 0 /\ NoCall.op = "none"
  BY Zenon, VmAssumption DEF NoCall, Locals, VmConstants
<1>4. /\ loc[p].goal \in 0..KERNBASE - 1 /\ loc[p].mem = 0 /\ kstack[p] # 0
      /\ Mapping(new[p]) = Below(loc[p].goal)
  <2>1. (loc[p].a < loc[p].goal \/ loc[p].goal < KERNBASE) /\ loc[p].mem = 0 /\ kstack[p] # 0
    BY <1>1, <1>2, Zenon DEF Call
  <2>2. Building(p) = new[p]
    BY Zenon, <1>1 DEF Building
  <2>3. Mapping(new[p]) = Below(loc[p].goal)
    BY <1>1, <2>2, Reached, Zenon
  <2>4. loc[p].goal \in 0..KERNBASE - 1
    BY <1>1, <1>2, <2>1, Sizes
  <2>5. QED
    BY Zenon, <2>1, <2>3, <2>4
<1>5. /\ new'[p] = NoSpace /\ vpc'[p] = "user" /\ loc'[p] = NoCall
      /\ space'[p] = new[p] /\ sz'[p] = loc[p].goal
      /\ \A q \in Procs \ {p} : Same(q)
  BY Zenon, <1>1, <1>2 DEF VmTypeOK, Same
<1>6. freelist' = freelist \cup UNION {Held(Sp(p, r)) : r \in Roles}
  <2>1. \A r \in Roles : Held(Sp(p, r)) = In(space[p], r)
    BY HeldIs, Zenon
  <2>2. Pages(space[p]) = UNION {In(space[p], r) : r \in Roles}
    BY <1>2, PagesAre, Zenon
  <2>3. {Held(Sp(p, r)) : r \in Roles} = {In(space[p], r) : r \in Roles}
    BY <2>1, Zenon
  <2>4. QED
    BY <1>1, <2>2, <2>3, Zenon
<1>7. ASSUME NEW r \in Roles
      PROVE  Held(Sp(p, r))' = Held(Nw(p, r)) /\ Held(Nw(p, r))' = {}
  <2>1. /\ Held(Sp(p, r))' = In(space'[p], r) /\ Held(Nw(p, r))' = In(new'[p], r)
        /\ Held(Nw(p, r)) = In(new[p], r) /\ In(NoSpace, r) = {}
    BY HeldIs, HeldNext, NoSpaceIs, Zenon
  <2>2. QED
    BY <1>5, <2>1
<1> DEFINE R == {Sp(p, r) : r \in Roles} \cup {Nw(p, r) : r \in Roles}
<1>8. \A u \in Places \ (R \cup {Free}) : Held(u)' = Held(u)
  <2>1. \A q \in Procs, r \in Roles : Nw(q, r) \notin R \cup {Free} => In(new'[q], r) = In(new[q], r)
    BY <1>5, Zenon DEF Same
  <2>2. \A q \in Procs, r \in Roles : Sp(q, r) \notin R \cup {Free} => In(space'[q], r) = In(space[q], r)
    BY <1>5, Zenon DEF Same
  <2>3. \A q \in Procs : loc'[q].mem = loc[q].mem
    BY <1>3, <1>4, <1>5 DEF Same
  <2> HIDE DEF R
  <2>4. QED
    BY <1>1, <2>1, <2>2, <2>3, Rest, Zenon
<1>9. PagesAccounted'
  BY <1>2, <1>6, <1>7, <1>8, HandOver, Zenon
<1> HIDE DEF R
<1>10. VmTypeOK'
  <2>1. freelist' \in SUBSET Frames
    <3>1. \A r \in Roles : Held(Sp(p, r)) \in SUBSET Frames
      BY <1>2, PlacesAre, Owners, Zenon
    <3>2. freelist \in SUBSET Frames
      BY <1>2, Zenon DEF VmTypeOK
    <3>3. QED
      BY <1>6, <3>1, <3>2, Zenon
  <2>2. QED
    BY Zenon, <1>1, <1>2, <1>3, <1>4, <2>1, NoSpaceIs DEF VmTypeOK
<1>11. Ctl(p)'
  <2>1. Idle(p)'
    BY <1>1, <1>4, <1>5, Zenon DEF Idle
  <2>2. QED
    BY <1>5, <2>1, Zenon DEF Ctl, InCall
<1>12. Control'
  <2>1. vpc[p] # "embryo"
    BY <1>1
  <2>2. QED
    BY <1>3, <1>5, <1>11, <2>1, Solo, Zenon
<1>13. QED
  BY <1>9, <1>10, <1>12, Zenon DEF VmInv


\* fork has copied the image: the child runs with it.
LEMMA ForkDone ==
  ASSUME VmInv, NEW p \in Procs, fork_done(p)
  PROVE  VmInv'
<1>1. vpc[p] = "alloc" /\ vpc[p] \in InCall /\ loc[p].op = "fork" /\ loc[p].a >= loc[p].goal
  BY Zenon DEF fork_done, now, InCall
<1>2. PICK q \in Procs : q = loc[p].child
  BY <1>1, CallIs, Zenon
<1>3. /\ space' = [space EXCEPT ![q] = new[p]] /\ sz' = [sz EXCEPT ![q] = sz[p]]
      /\ new' = [new EXCEPT ![p] = NoSpace] /\ vpc' = [vpc EXCEPT ![p] = "user", ![q] = "user"]
      /\ loc' = [loc EXCEPT ![p] = NoCall] /\ freelist' = freelist /\ kstack' = kstack
  BY Zenon, <1>2 DEF fork_done
<1>4. /\ VmTypeOK /\ PagesAccounted /\ Control /\ Call(p) /\ vpc[q] = "embryo" /\ new[p] \in Space
  BY <1>1, <1>2, CallIs, Zenon DEF Call
<1>5. NoCall \in Locals /\ NoCall.mem = 0 /\ NoCall.op = "none"
  BY VmAssumption DEF NoCall, Locals, VmConstants
<1>6. /\ q # p /\ space[q] = NoSpace /\ new[q] = NoSpace /\ loc[q] = NoCall /\ kstack[q] # 0
  <2>1. q # p /\ vpc[q] \notin InCall
    BY Zenon, <1>1, <1>4 DEF InCall
  <2>2. Idle(q)
    BY <1>4, <2>1, Zenon DEF Control, Ctl
  <2>3. QED
    BY <1>4, <2>1, <2>2, Zenon DEF Idle
<1>7. /\ loc[p].mem = 0 /\ kstack[p] # 0 /\ sz[p] \in Nat /\ sz[p] = loc[p].goal
      /\ Mapping(new[p]) = Below(sz[p]) /\ Mapping(space[p]) = Below(sz[p])
  <2>1. loc[p].mem = 0 /\ kstack[p] # 0 /\ sz[p] = loc[p].goal /\ Mapping(space[p]) = Below(sz[p])
    BY Zenon, <1>1, <1>4 DEF Call
  <2>2. Building(p) = new[p]
    BY <1>1 DEF Building
  <2>3. Mapping(new[p]) = Below(loc[p].goal)
    BY <1>1, <2>2, Reached, Zenon
  <2>4. QED
    BY <1>4, <2>1, <2>3, ProcIs, Zenon
<1>8. /\ new'[p] = NoSpace /\ vpc'[p] = "user" /\ loc'[p] = NoCall /\ space'[p] = space[p] /\ sz'[p] = sz[p]
      /\ new'[q] = new[q] /\ vpc'[q] = "user" /\ loc'[q] = loc[q] /\ space'[q] = new[p] /\ sz'[q] = sz[p]
      /\ \A o \in Procs \ {p, q} : Same(o)
  BY Zenon, <1>3, <1>4, <1>6 DEF VmTypeOK, Same
<1>9. freelist' = freelist \cup UNION {Held(Sp(q, r)) : r \in Roles}
  <2>1. ASSUME NEW r \in Roles PROVE Held(Sp(q, r)) = {}
    <3>1. Held(Sp(q, r)) = In(space[q], r) /\ In(NoSpace, r) = {}
      BY HeldIs, NoSpaceIs, Zenon
    <3>2. QED
      BY <1>6, <3>1, Zenon
  <2>2. UNION {Held(Sp(q, r)) : r \in Roles} = {}
    BY <2>1, Zenon
  <2>3. QED
    BY <1>3, <2>2, Zenon
<1>10. ASSUME NEW r \in Roles
       PROVE  Held(Sp(q, r))' = Held(Nw(p, r)) /\ Held(Nw(p, r))' = {}
  <2>1. /\ Held(Sp(q, r))' = In(space'[q], r) /\ Held(Nw(p, r))' = In(new'[p], r)
        /\ Held(Nw(p, r)) = In(new[p], r) /\ In(NoSpace, r) = {}
    BY HeldIs, HeldNext, NoSpaceIs, Zenon
  <2>2. QED
    BY Zenon, <1>8, <2>1
<1> DEFINE R == {Sp(q, r) : r \in Roles} \cup {Nw(p, r) : r \in Roles}
<1>11. \A u \in Places \ (R \cup {Free}) : Held(u)' = Held(u)
  <2>1. ASSUME NEW o \in Procs, NEW r \in Roles, Nw(o, r) \notin R \cup {Free}
        PROVE  In(new'[o], r) = In(new[o], r)
    BY <1>8, <2>1, Zenon DEF Same
  <2>2. ASSUME NEW o \in Procs, NEW r \in Roles, Sp(o, r) \notin R \cup {Free}
        PROVE  In(space'[o], r) = In(space[o], r)
    BY <1>8, <2>2, Zenon DEF Same
  <2>3. ASSUME NEW o \in Procs PROVE loc'[o].mem = loc[o].mem
    BY <1>5, <1>7, <1>8 DEF Same
  <2> HIDE DEF R
  <2>4. QED
    BY <1>3, <2>1, <2>2, <2>3, Rest, Zenon
<1>12. PagesAccounted'
  BY <1>4, <1>9, <1>10, <1>11, HandOver, Zenon
<1> HIDE DEF R
<1>13. VmTypeOK'
  BY <1>3, <1>4, <1>5, NoSpaceIs DEF VmTypeOK
<1>14. Ctl(p)'
  <2>1. Idle(p)'
    BY <1>3, <1>7, <1>8, Zenon DEF Idle
  <2>2. QED
    BY <1>8, <2>1, Zenon DEF Ctl, InCall
<1>15. Ctl(q)'
  <2>1. Idle(q)'
    BY <1>3, <1>6, <1>7, <1>8, Zenon DEF Idle
  <2>2. QED
    BY <1>8, <2>1, Zenon DEF Ctl, InCall
<1>16. Control'
  <2>1. vpc[p] # "embryo"
    BY <1>1
  <2>2. loc'[p].op # "fork" /\ loc'[q].op # "fork"
    BY Zenon, <1>5, <1>6, <1>8
  <2>3. QED
    BY <1>1, <1>2, <1>8, <1>14, <1>15, <2>1, <2>2, Pair, Zenon
<1>17. QED
  BY <1>12, <1>13, <1>16, Zenon DEF VmInv

\* fork begins: the child has its kernel stack.
LEMMA ForkStep ==
  ASSUME VmInv, NEW p \in Procs, NEW q \in Procs, fork(p, q)
  PROVE  VmInv'
<1> DEFINE l == [NoCall EXCEPT !.op = "fork", !.child = q, !.goal = sz[p]]
<1>1. /\ vpc[p] = "user" /\ vpc[q] = "none" /\ kalloc # 0
      /\ freelist' = freelist \ {kalloc} /\ kstack' = [kstack EXCEPT ![q] = kalloc]
      /\ vpc' = [vpc EXCEPT ![p] = "setupkvm", ![q] = "embryo"]
      /\ loc' = [loc EXCEPT ![p] = l] /\ space' = space /\ sz' = sz /\ new' = new
  BY Zenon DEF fork, now
<1>2. VmTypeOK /\ PagesAccounted /\ Control /\ sz[p] \in Nat
  BY ProcIs, Zenon DEF VmInv
<1>3. PICK x \in freelist : x = kalloc
  BY <1>1, <1>2, Kalloc, Zenon
<1>4. x \in Frames /\ x # 0
  BY <1>1, <1>2, <1>3, Kalloc, Zenon
<1>5. /\ new[p] = NoSpace /\ loc[p].mem = 0 /\ Mapping(space[p]) = Below(sz[p]) /\ kstack[p] # 0
  BY Zenon, <1>1, UserIs
<1>6. q # p /\ space[q] = NoSpace /\ new[q] = NoSpace /\ loc[q] = NoCall /\ kstack[q] = 0
  <2>1. q # p /\ vpc[q] \notin InCall
    BY Zenon, <1>1 DEF InCall
  <2>2. Idle(q)
    BY <1>2, <2>1, Zenon DEF Control, Ctl
  <2>3. QED
    BY <1>1, <2>1, <2>2, Zenon DEF Idle
<1>7. /\ l \in Locals /\ l.op = "fork" /\ l.child = q /\ l.mem = 0 /\ l.a = 0 /\ l.goal = sz[p]
      /\ NoCall.op = "none"
  BY Zenon, <1>2, VmAssumption DEF NoCall, Locals, VmConstants
<1> HIDE DEF l
<1>8. /\ vpc'[p] = "setupkvm" /\ loc'[p] = l /\ kstack'[p] = kstack[p]
      /\ vpc'[q] = "embryo" /\ loc'[q] = loc[q] /\ kstack'[q] = x
      /\ \A o \in Procs \ {p, q} : Same(o)
  BY <1>1, <1>2, <1>3, <1>6 DEF VmTypeOK, Same
<1>9. \A u \in Places \ {Ks(q), Free} : Held(u)' = Held(u)
  <2>1. ASSUME NEW o \in Procs PROVE loc'[o].mem = loc[o].mem
    BY <1>5, <1>7, <1>8 DEF Same
  <2>2. ASSUME NEW o \in Procs, Ks(o) \notin {Ks(q)} \cup {Free} PROVE kstack'[o] = kstack[o]
    BY <1>8, <2>2, Zenon DEF Same
  <2>3. \A u \in Places \ ({Ks(q)} \cup {Free}) : Held(u)' = Held(u)
    BY <1>1, <2>1, <2>2, Rest, Zenon
  <2>4. QED
    BY <2>3, Zenon
<1>10. PagesAccounted'
  <2>1. Held(Ks(q)) = {kstack[q]} \ {0} /\ Held(Ks(q))' = {kstack'[q]} \ {0}
    BY HeldIs, HeldNext, Zenon
  <2>2. Held(Ks(q))' = Held(Ks(q)) \cup {x}
    BY Zenon, <1>4, <1>6, <1>8, <2>1
  <2>3. Ks(q) \in Places /\ Ks(q) # Free
    BY PlacesAre, Apart, Zenon
  <2>4. freelist' = freelist \ {x}
    BY <1>1, <1>3, Zenon
  <2>5. QED
    BY <1>2, <1>9, <2>2, <2>3, <2>4, Take, Zenon
<1>11. VmTypeOK'
  BY <1>1, <1>2, <1>3, <1>4, <1>7 DEF VmTypeOK
<1>12. Ctl(p)'
  <2>1. Building(p)' = new[p]
    BY <1>1, <1>7, <1>8 DEF Building
  <2>2. Mapping(NoSpace) = {} /\ Below(0) = {} /\ 0 * PGSIZE = 0 /\ PGSIZE \in Nat \ {0}
    BY NoneBelow, Sizes DEF Mapping, NoSpace
  <2>3. Mapping(new[p]) = Below(0)
    BY <1>5, <2>2, Zenon
  <2>4. \E k \in Nat : l.a = k * PGSIZE
    BY <1>7, <2>2
  <2>5. l.a < l.goal + PGSIZE
    BY <1>2, <1>7, <2>2
  <2>6. Call(p)'
    BY <1>1, <1>5, <1>7, <1>8, <2>1, <2>3, <2>4, <2>5 DEF Call
  <2>7. QED
    BY Zenon, <1>8, <2>6 DEF Ctl, InCall
<1>13. Ctl(q)'
  <2>1. Idle(q)'
    BY <1>1, <1>4, <1>6, <1>8 DEF Idle
  <2>2. QED
    BY <1>8, <2>1, Zenon DEF Ctl, InCall
<1>14. Control'
  <2>1. vpc[p] # "embryo" /\ vpc[q] # "embryo"
    BY Zenon, <1>1
  <2>2. loc'[p].child = q /\ loc'[q].op # "fork"
    BY <1>6, <1>7, <1>8
  <2>3. /\ \A o \in Procs \ {p, q} : Same(o)
        /\ loc'[p].op = "fork" => loc'[p].child = q
        /\ vpc[q] # "embryo" \/ (loc[p].op = "fork" /\ loc[p].child = q)
    BY <1>8, <2>1, <2>2
  <2>4. QED
    BY <1>12, <1>13, <2>1, <2>2, <2>3, Pair, Zenon
<1>15. QED
  BY <1>10, <1>11, <1>14, Zenon DEF VmInv

-----------------------------------------------------------------------------
(* All steps. *)

\* A kalloc, whether it fails or not.
LEMMA BuildStep ==
  ASSUME VmInv, NEW p \in Procs, setupkvm(p) \/ alloc(p) \/ mappages(p)
  PROVE  VmInv'
<1>1. CASE setupkvm(p)
  <2>1. vpc[p] \in InCall
    BY Zenon, <1>1 DEF setupkvm, now, InCall
  <2>2. CASE kalloc = 0
    <3>1. Fails(p)
      BY <1>1, <2>2, Zenon DEF setupkvm
    <3>2. QED
      BY <2>1, <3>1, FailsStep, Zenon
  <2>3. QED
    BY <1>1, <2>2, SetupStep, Zenon
<1>2. CASE alloc(p)
  <2>1. vpc[p] = "alloc" /\ vpc[p] \in InCall /\ loc[p].a < loc[p].goal
    BY Zenon, <1>2 DEF alloc, now, InCall
  <2>2. CASE loc[p].goal >= KERNBASE \/ kalloc = 0
    <3>1. ~(loc[p].op = "fork" /\ space[p].pg[loc[p].a \div PGSIZE] = 0)
      BY <2>1, CopyFinds, Zenon
    <3>2. Fails(p)
      BY <1>2, <2>2, <3>1, Zenon DEF alloc
    <3>3. QED
      BY <2>1, <3>2, FailsStep, Zenon
  <2>3. QED
    BY <1>2, <2>2, AllocStep, Zenon
<1>3. CASE mappages(p)
  <2> DEFINE old == Building(p).pt[PDX(loc[p].a \div PGSIZE)]
  <2>1. vpc[p] \in InCall
    BY <1>3 DEF mappages, now, InCall
  <2>2. CASE old = 0 /\ kalloc = 0
    <3>1. Fails(p)
      BY Zenon, <1>3, <2>2 DEF mappages, Building
    <3>2. QED
      BY <2>1, <3>1, FailsStep, Zenon
  <2>3. QED
    BY <1>3, <2>2, MapStep, Zenon
<1>4. QED
  BY <1>1, <1>2, <1>3, Zenon

\* exec ends, whether the arguments fit or not.
LEMMA ExecEnds ==
  ASSUME VmInv, NEW p \in Procs, NEW fits \in BOOLEAN, exec_done(p, fits)
  PROVE  VmInv'
<1>1. vpc[p] \in InCall
  BY Zenon DEF exec_done, now, InCall
<1>2. CASE fits = FALSE
  <2>1. Fails(p)
    BY Zenon, <1>2 DEF exec_done
  <2>2. QED
    BY <1>1, <2>1, FailsStep, Zenon
<1>3. CASE fits = TRUE
  BY <1>3, ExecDone, Zenon
<1>4. QED
  BY <1>2, <1>3, Zenon

\* Every step keeps the inductive invariant.
LEMMA VmStep ==
  ASSUME VmInv, [VmNext]_memVars
  PROVE  VmInv'
<1>1. CASE UNCHANGED memVars
  <2>1. /\ freelist' = freelist /\ space' = space /\ sz' = sz /\ kstack' = kstack
        /\ vpc' = vpc /\ loc' = loc /\ new' = new
    BY <1>1, Zenon DEF memVars
  <2>2. \A u : Held(u)' = Held(u)
    BY <2>1, Zenon DEF Held
  <2>3. VmTypeOK' /\ PagesAccounted'
    BY <2>1, <2>2, Zenon DEF VmInv, VmTypeOK, PagesAccounted
  <2>4. \A p \in Procs : Same(p) /\ Ctl(p)
    BY <2>1, Zenon DEF Same, VmInv, Control
  <2>5. \A p \in Procs : Ctl(p)'
    BY <2>1, <2>4, CtlSame, Zenon
  <2>6. Control'
    BY <2>1, <2>5, Zenon DEF VmInv, Control
  <2>7. QED
    BY <2>3, <2>6, Zenon DEF VmInv
<1>2. CASE VmNext
  <2>1. PICK p \in Procs :
          \/ \E q \in Procs : fork(p, q)
          \/ \E n \in Images : exec(p, n)
          \/ \E n \in Sbrks : sbrk_grow(p, n) \/ sbrk_shrink(p, n)
          \/ setupkvm(p) \/ alloc(p) \/ mappages(p)
          \/ fork_done(p) \/ exec_loaded(p) \/ sbrk_done(p)
          \/ \E fits \in BOOLEAN : exec_done(p, fits)
          \/ exit(p) \/ wait(p)
    BY <1>2, Zenon DEF VmNext
  <2>2. CASE \E q \in Procs : fork(p, q)
    BY <2>2, ForkStep, Zenon
  <2>3. CASE \E n \in Images : exec(p, n)
    BY <2>3, ExecStep, Zenon
  <2>4. CASE \E n \in Sbrks : sbrk_grow(p, n) \/ sbrk_shrink(p, n)
    BY <2>4, GrowStep, ShrinkStep, Zenon
  <2>5. CASE setupkvm(p) \/ alloc(p) \/ mappages(p)
    BY <2>5, BuildStep, Zenon
  <2>6. CASE fork_done(p)
    BY <2>6, ForkDone, Zenon
  <2>7. CASE exec_loaded(p)
    BY <2>7, LoadedStep, Zenon
  <2>8. CASE sbrk_done(p)
    BY <2>8, SbrkDoneStep, Zenon
  <2>9. CASE \E fits \in BOOLEAN : exec_done(p, fits)
    BY <2>9, ExecEnds, Zenon
  <2>10. CASE exit(p) \/ wait(p)
    BY <2>10, ExitStep, WaitStep, Zenon
  <2>11. QED
    BY <2>1, <2>2, <2>3, <2>4, <2>5, <2>6, <2>7, <2>8, <2>9, <2>10, Zenon
<1>3. QED
  BY <1>1, <1>2, Zenon

-----------------------------------------------------------------------------
(* userinit. *)

\* The invariant holds when userinit has built the first process.
LEMMA VmStart == VmInit => VmInv
<1> SUFFICES ASSUME VmInit PROVE VmInv
  BY Zenon
<1> DEFINE i == [dir |-> 1, kpt |-> 4..3 + KTABLES, pt |-> [NoSpace.pt EXCEPT ![0] = 2],
                 pg |-> [NoSpace.pg EXCEPT ![0] = 3]]
<1>1. /\ space = [p \in Procs |-> IF p = First THEN i ELSE NoSpace]
      /\ sz = [p \in Procs |-> IF p = First THEN PGSIZE ELSE 0]
      /\ kstack = [p \in Procs |-> IF p = First THEN 4 + KTABLES ELSE 0]
      /\ freelist = 5 + KTABLES..NPAGES
      /\ vpc = [p \in Procs |-> IF p = First THEN "user" ELSE "none"]
      /\ loc = [p \in Procs |-> NoCall] /\ new = [p \in Procs |-> NoSpace]
  BY Zenon DEF VmInit
<1>2. /\ KTABLES \in Nat /\ NPAGES \in Nat /\ NPAGES >= 4 + KTABLES /\ First \in Procs
      /\ PGSIZE \in Nat \ {0} /\ NPTENTRIES \in Nat \ {0} /\ NPDENTRIES \in Nat \ {0}
      /\ NPTENTRIES * NPDENTRIES > 1
  BY VmAssumption DEF VmConstants
<1>3. 0 \in Tables /\ 0 \in VPages
  BY <1>2 DEF Tables, VPages
<1>4. PGSIZE \in 0..KERNBASE - 1
  <2> DEFINE n == NPTENTRIES * NPDENTRIES
  <2>1. n \in Nat /\ 1 < n
    BY <1>2
  <2>2. KERNBASE = n * PGSIZE
    BY <1>2 DEF KERNBASE
  <2> HIDE DEF n
  <2>3. 1 * PGSIZE < n * PGSIZE
    BY Zenon, <1>2, <2>1, Multiples
  <2>4. n * PGSIZE \in Nat
    BY <1>2, <2>1
  <2>5. QED
    BY <1>2, <2>2, <2>3, <2>4
<1>5. /\ 1 \in Frames /\ 2 \in Frames /\ 3 \in Frames /\ 4 + KTABLES \in Frames
      /\ 4..3 + KTABLES \in SUBSET Frames /\ 5 + KTABLES..NPAGES \in SUBSET Frames
  BY <1>2 DEF Frames
<1>6. NoSpace.pt = [d \in Tables |-> 0] /\ NoSpace.pg = [v \in VPages |-> 0] /\ NoSpace \in Space
  BY Zenon, NoSpaceIs DEF NoSpace
<1>7. /\ i.dir = 1 /\ i.kpt = 4..3 + KTABLES
      /\ i.pt = [d \in Tables |-> IF d = 0 THEN 2 ELSE 0]
      /\ i.pg = [v \in VPages |-> IF v = 0 THEN 3 ELSE 0]
  BY Zenon, <1>6
<1>8. i \in Space
  BY Zenon, <1>3, <1>5, <1>6 DEF Space
<1> HIDE DEF i
<1>9. /\ In(i, Dir) = {1} /\ In(i, Kpt) = 4..3 + KTABLES
      /\ \A d \in Tables : In(i, Pt(d)) = IF d = 0 THEN {2} ELSE {}
      /\ \A v \in VPages : In(i, Pg(v)) = IF v = 0 THEN {3} ELSE {}
  <2>1. In(i, Dir) = {1} \ {0} /\ In(i, Kpt) = 4..3 + KTABLES
    BY Zenon, <1>7, InIs
  <2>2. ASSUME NEW d \in Tables PROVE In(i, Pt(d)) = IF d = 0 THEN {2} ELSE {}
    <3>1. In(i, Pt(d)) = {IF d = 0 THEN 2 ELSE 0} \ {0}
      BY <1>7, InIs
    <3>2. QED
      BY <3>1
  <2>3. ASSUME NEW v \in VPages PROVE In(i, Pg(v)) = IF v = 0 THEN {3} ELSE {}
    <3>1. In(i, Pg(v)) = {IF v = 0 THEN 3 ELSE 0} \ {0}
      BY <1>7, InIs
    <3>2. QED
      BY <3>1
  <2>4. QED
    BY <2>1, <2>2, <2>3
<1>10. /\ Held(Sp(First, Dir)) = {1} /\ Held(Sp(First, Pt(0))) = {2} /\ Held(Sp(First, Pg(0))) = {3}
       /\ Held(Sp(First, Kpt)) = 4..3 + KTABLES /\ Held(Ks(First)) = {4 + KTABLES}
       /\ Held(Free) = 5 + KTABLES..NPAGES
  <2>1. space[First] = i /\ kstack[First] = 4 + KTABLES
    BY Zenon, <1>1, <1>2
  <2>2. Held(Ks(First)) = {4 + KTABLES} \ {0} /\ Held(Free) = 5 + KTABLES..NPAGES
    BY Zenon, <1>1, <2>1, HeldIs
  <2>3. Held(Ks(First)) = {4 + KTABLES}
    BY <1>2, <2>2
  <2>4. \A r : Held(Sp(First, r)) = In(i, r)
    BY <2>1, HeldIs, Zenon
  <2>5. QED
    BY Zenon, <1>3, <1>9, <2>2, <2>3, <2>4
<1>11. ASSUME NEW u \in Places, NEW f \in Held(u)
       PROVE  \/ u = Sp(First, Dir) /\ f = 1
              \/ u = Sp(First, Pt(0)) /\ f = 2
              \/ u = Sp(First, Pg(0)) /\ f = 3
              \/ u = Sp(First, Kpt) /\ f \in 4..3 + KTABLES
              \/ u = Ks(First) /\ f = 4 + KTABLES
              \/ u = Free /\ f \in 5 + KTABLES..NPAGES
  <2>1. CASE u = Free
    BY Zenon, <1>10, <2>1
  <2>2. ASSUME NEW p \in Procs, NEW r \in Roles, u = Sp(p, r)
        PROVE  \/ u = Sp(First, Dir) /\ f = 1
               \/ u = Sp(First, Pt(0)) /\ f = 2
               \/ u = Sp(First, Pg(0)) /\ f = 3
               \/ u = Sp(First, Kpt) /\ f \in 4..3 + KTABLES
    <3>1. f \in In(space[p], r)
      BY <2>2, HeldIs
    <3>2. p = First
      <4>1. CASE p # First
        <5>1. space[p] = NoSpace
          BY <1>1, <4>1
        <5>2. QED
          BY Zenon, <3>1, <5>1, NoSpaceIs
      <4>2. QED
        BY <4>1
    <3>3. f \in In(i, r)
      BY <1>1, <3>1, <3>2
    <3>4. CASE r = Dir \/ r = Kpt
      BY Zenon, <1>9, <2>2, <3>2, <3>3, <3>4
    <3>5. ASSUME NEW d \in Tables, r = Pt(d) PROVE d = 0 /\ f = 2
      BY <1>9, <3>3, <3>5
    <3>6. ASSUME NEW v \in VPages, r = Pg(v) PROVE v = 0 /\ f = 3
      BY Zenon, <1>9, <3>3, <3>6
    <3>7. QED
      BY <2>2, <3>2, <3>4, <3>5, <3>6, RolesAre, Zenon
  <2>3. ASSUME NEW p \in Procs, NEW r \in Roles, u = Nw(p, r) PROVE FALSE
    <3>1. f \in In(new[p], r)
      BY <2>3, HeldIs, Zenon
    <3>2. new[p] = NoSpace
      BY <1>1, Zenon
    <3>3. QED
      BY <3>1, <3>2, NoSpaceIs, Zenon
  <2>4. ASSUME NEW p \in Procs, u = Ks(p) PROVE p = First /\ f = 4 + KTABLES
    <3>1. f \in {kstack[p]} \ {0}
      BY <2>4, HeldIs
    <3>2. QED
      BY Zenon, <1>1, <3>1
  <2>5. ASSUME NEW p \in Procs, u = Me(p) PROVE FALSE
    <3>1. f \in {loc[p].mem} \ {0}
      BY Zenon, <2>5, HeldIs
    <3>2. QED
      BY Zenon, <1>1, <3>1 DEF NoCall
  <2>6. QED
    BY <2>1, <2>2, <2>3, <2>4, <2>5, PlacesAre, Zenon
<1>12. PagesAccounted
  <2> DEFINE Used == {w \in Places : Held(w) # {}}
  <2>1. ASSUME NEW f \in Frames PROVE \E w \in Places : f \in Held(w)
    <3>1. f \in {1, 2, 3} \/ f \in 4..3 + KTABLES \/ f = 4 + KTABLES \/ f \in 5 + KTABLES..NPAGES
      BY <1>2 DEF Frames
    <3>2. /\ Sp(First, Dir) \in Places /\ Sp(First, Pt(0)) \in Places /\ Sp(First, Pg(0)) \in Places
          /\ Sp(First, Kpt) \in Places /\ Ks(First) \in Places /\ Free \in Places
      BY <1>2, <1>3, PlacesAre, RolesAre, Zenon
    <3>3. QED
      BY Zenon, <1>10, <3>1, <3>2
  <2>2. ASSUME NEW w \in Places, NEW f \in Held(w) PROVE f \in Frames
    BY Zenon, <1>5, <1>11
  <2>3. UNION {Held(w) : w \in Used} = Frames
    <3>1. ASSUME NEW f PROVE f \in Frames <=> \E w \in Used : f \in Held(w)
      BY Zenon, <2>1, <2>2
    <3> HIDE DEF Used
    <3>2. QED
      BY <3>1, Zenon
  <2>4. ASSUME NEW w \in Places, NEW v \in Places, NEW f \in Held(w), f \in Held(v) PROVE w = v
    BY <1>2, <1>11, <2>4
  <2>5. \A w, v \in Used : w # v => Held(w) \cap Held(v) = {}
    BY <2>4, Zenon
  <2>6. QED
    BY <2>3, <2>5, Zenon DEF PagesAccounted
<1>13. VmTypeOK
  <2>1. NoCall \in Locals
    BY Zenon, VmAssumption DEF NoCall, Locals, VmConstants
  <2>2. 0 \in 0..KERNBASE - 1
    BY <1>4, Sizes
  <2>3. QED
    BY Zenon, <1>1, <1>4, <1>5, <1>6, <1>8, <2>1, <2>2 DEF VmTypeOK
<1>14. ASSUME NEW p \in Procs PROVE Ctl(p) /\ loc[p].op = "none"
  <2>1. new[p] = NoSpace /\ loc[p] = NoCall
    BY Zenon, <1>1
  <2>2. CASE p = First
    <3>1. vpc[p] = "user" /\ space[p] = i /\ sz[p] = PGSIZE /\ kstack[p] = 4 + KTABLES
      BY Zenon, <1>1, <2>2
    <3>2. Mapping(i) = Below(PGSIZE)
      <4>1. ASSUME NEW v \in VPages PROVE i.pg[v] # 0 <=> v * PGSIZE < PGSIZE
        <5>1. v \in Nat
          BY Zenon, Sizes
        <5>2. v < 1 <=> v * PGSIZE < 1 * PGSIZE
          BY Zenon, <1>2, <5>1, Multiples
        <5>3. QED
          BY <1>2, <1>7, <5>1, <5>2
      <4>2. QED
        BY <4>1, Zenon DEF Mapping, Below
    <3>3. Idle(p)
      BY <1>2, <2>1, <3>1, <3>2 DEF Idle
    <3>4. QED
      BY <2>1, <3>1, <3>3 DEF Ctl, InCall, NoCall
  <2>3. CASE p # First
    <3>1. vpc[p] = "none" /\ space[p] = NoSpace /\ kstack[p] = 0
      BY <1>1, <2>3
    <3>2. Idle(p)
      BY Zenon, <2>1, <3>1 DEF Idle
    <3>3. QED
      BY <2>1, <3>1, <3>2 DEF Ctl, InCall, NoCall
  <2>4. QED
    BY Zenon, <2>2, <2>3
<1>15. Control
  BY Zenon, <1>14 DEF Control
<1>16. QED
  BY <1>12, <1>13, <1>15, Zenon DEF VmInv

\* The inductive invariant says what the runs check.
LEMMA VmInvSound == VmInv => PagesSound
<1> SUFFICES ASSUME VmInv PROVE PagesSound
  BY Zenon
<1>1. VmTypeOK /\ PagesAccounted /\ \A p \in Procs : Ctl(p)
  BY Zenon DEF VmInv, Control
<1>2. ~Halted
  BY <1>1, Zenon DEF Halted, Ctl
<1>3. ASSUME NEW p \in Procs, vpc[p] = "user", NEW v \in VPages
      PROVE  space[p].pg[v] # 0 <=> v * PGSIZE < sz[p]
  <2>1. Mapping(space[p]) = Below(sz[p])
    BY Zenon, <1>3, UserIs
  <2>2. v \in Mapping(space[p]) <=> v \in Below(sz[p])
    BY <2>1, Zenon
  <2>3. QED
    BY <2>2, Zenon DEF Mapping, Below
<1>4. QED
  BY <1>1, <1>2, <1>3, Zenon DEF PagesSound, ImageMatchesSize

\* Memory (vm.c, kalloc.c, exec.c, proc.c), for any number of processes, of
\* pages and of page tables, any page size, and any programs and sbrk calls:
\* no page is lost, shared or free while it is mapped, whichever kalloc
\* fails; a process in user mode has exactly the pages below its size;
\* mappages never remaps a page and copyuvm finds every page of the parent.
\* A process that gives back all its memory with sbrk(-sz) is not in user mode
\* again: it faults.
THEOREM PagesStaySound == VmSpec => []PagesSound
<1>1. VmInit => VmInv
  BY Zenon, VmStart
<1>2. VmInv /\ [VmNext]_memVars => VmInv'
  BY Zenon, VmStep
<1>3. VmInv => PagesSound
  BY Zenon, VmInvSound
<1>4. QED
  BY <1>1, <1>2, <1>3, PTL DEF VmSpec

=============================================================================
