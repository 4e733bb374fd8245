-------------------------------- MODULE Heap --------------------------------
(***************************************************************************)
(* malloc and free (umalloc.c): a circular list of free blocks in the      *)
(* order of their addresses, joined with their neighbours when they are    *)
(* freed.  Addresses count units of one header; base is at 0 and the heap  *)
(* grows from 1 on.  A program may also call sbrk itself.  A header that   *)
(* is no longer one is set to 0.                                           *)
(***************************************************************************)
EXTENDS Integers, FiniteSets, FiniteSetsExt

CONSTANTS Top,      \* bound: the units sbrk can give
          Chunk,    \* 4096, the least morecore asks for
          Sizes     \* units that are asked for, header included

HeapConstants == Top \in Nat /\ Chunk \in Nat \ {0} /\ Sizes \subseteq Nat \ {0, 1}

base == 0
Units == 1..Top

VARIABLES
  ptr, size,    \* the header at an address
  freep,        \* -1: not yet initialised
  brk,          \* the first address above the heap
  live,         \* allocated blocks
  alien,        \* units the program got from sbrk itself
  asked, call   \* malloc's argument, and whether it is under way

vars == <<ptr, size, freep, brk, live, alien, asked, call>>

Init ==
  /\ ptr = [a \in 0..Top |-> 0] /\ size = [a \in 0..Top |-> 0]
  /\ freep = -1 /\ brk = 1
  /\ live = {} /\ alien = {}
  /\ asked = 0 /\ call = "none"

(* A walk along the list from p, n steps. *)
walk(next, p, n) == LET f[k \in 0..n] == IF k = 0 THEN p ELSE next[f[k-1]] IN f[n]

(* The loop of free: the free block p that bp goes behind. *)
place(bp) ==
  LET ok(p) == \/ bp > p /\ bp < ptr[p]
               \/ p >= ptr[p] /\ (bp > p \/ bp < ptr[p]) IN
  walk(ptr, freep, CHOOSE n \in 0..Top + 1 : ok(walk(ptr, freep, n)) /\ \A k \in 0..n-1 : ~ok(walk(ptr, freep, k)))

mutant_link_not_upper(bp, p, sz) ==
  LET down == p + sz[p] = bp IN
  [ptr |-> [ptr EXCEPT ![bp] = ptr[p], ![p] = IF down THEN ptr[p] ELSE bp],
   size |-> [sz EXCEPT ![p] = @ + IF down THEN sz[bp] ELSE 0]]

(* free's joins, first with the block above and then with the one below. *)
link(bp, p, sz) ==
  LET nx == ptr[p]
      up == bp + sz[bp] = nx
      s1 == IF up THEN [sz EXCEPT ![bp] = @ + sz[nx], ![nx] = 0] ELSE sz
      q1 == IF up THEN [ptr EXCEPT ![bp] = ptr[nx], ![nx] = 0] ELSE [ptr EXCEPT ![bp] = nx]
      down == p + s1[p] = bp
  IN [ptr |-> IF down THEN [q1 EXCEPT ![p] = q1[bp], ![bp] = 0] ELSE [q1 EXCEPT ![p] = bp],
      size |-> IF down THEN [s1 EXCEPT ![p] = @ + s1[bp], ![bp] = 0] ELSE s1]

free(bp) ==
  LET p == place(bp)
      l == link(bp, p, size)
  IN
  /\ call = "none" /\ bp \in live
  /\ ptr' = l.ptr /\ size' = l.size
  /\ freep' = p
  /\ live' = live \ {bp}
  /\ UNCHANGED <<brk, alien, asked, call>>

malloc(n) ==
  /\ call = "none"
  /\ call' = "malloc" /\ asked' = n
  /\ IF freep = -1
       THEN ptr' = [ptr EXCEPT ![base] = base] /\ size' = [size EXCEPT ![base] = 0] /\ freep' = base
       ELSE UNCHANGED <<ptr, size, freep>>
  /\ UNCHANGED <<brk, live, alien>>

(* The blocks of the list, in the order malloc looks at them; freep is the *)
(* last.                                                                   *)
ListLength == CHOOSE n \in 1..Top + 1 : walk(ptr, freep, n) = freep /\ \A k \in 1..n-1 : walk(ptr, freep, k) # freep

Fits == {k \in 1..ListLength : size[walk(ptr, freep, k)] >= asked}

(* A block that fits: taken whole, or its tail end. *)
take(k) ==
  LET prevp == walk(ptr, freep, k-1)
      p == walk(ptr, freep, k)
      q == p + size[p] - asked IN
  /\ freep' = prevp
  /\ IF size[p] = asked
       THEN ptr' = [ptr EXCEPT ![prevp] = ptr[p], ![p] = 0] /\ live' = live \cup {p} /\ UNCHANGED size
       ELSE /\ size' = [size EXCEPT ![p] = @ - asked, ![q] = asked]
            /\ live' = live \cup {q} /\ UNCHANGED ptr

malloc_take ==
  /\ call = "malloc" /\ Fits # {}
  /\ take(Min(Fits))
  /\ call' = "none" /\ asked' = 0
  /\ UNCHANGED <<brk, alien>>

(* Round the list without a fit: morecore, and the new block is freed into *)
(* the list; or sbrk fails and malloc returns 0.                           *)
morecore ==
  LET nu == IF asked < Chunk THEN Chunk ELSE asked
      sz == [size EXCEPT ![brk] = nu]
      p == place(brk)
      l == link(brk, p, sz)
  IN
  /\ call = "malloc" /\ Fits = {}
  /\ IF brk + nu > Top + 1
       THEN call' = "none" /\ asked' = 0 /\ UNCHANGED <<ptr, size, freep, brk>>
       ELSE /\ ptr' = l.ptr /\ size' = l.size
            /\ freep' = p
            /\ brk' = brk + nu
            /\ UNCHANGED <<asked, call>>
  /\ UNCHANGED <<live, alien>>

(* The program's own sbrk of a unit. *)
sbrk ==
  /\ call = "none" /\ brk <= Top
  /\ alien' = alien \cup {brk}
  /\ brk' = brk + 1
  /\ UNCHANGED <<ptr, size, freep, live, asked, call>>

Next ==
  \/ \E bp \in Units : free(bp)
  \/ \E n \in Sizes : malloc(n)
  \/ malloc_take \/ morecore \/ sbrk

Spec == Init /\ [][Next]_vars

-----------------------------------------------------------------------------

TypeOK ==
  /\ ptr \in [0..Top -> 0..Top] /\ size \in [0..Top -> 0..Top]
  /\ freep \in {-1} \cup 0..Top /\ brk \in 1..Top + 1
  /\ live \subseteq Units /\ alien \subseteq Units

FreeBlocks == IF freep = -1 THEN {} ELSE {walk(ptr, freep, k) : k \in 1..Top + 1} \ {base}
Block(a) == a..a + size[a] - 1

(* Every unit of the heap is in one block: an allocated one that malloc    *)
(* has handed out and free has not taken back, or one on the free list.    *)
(* Nothing is lost, and no two allocations overlap, whatever the order of  *)
(* calls and of free's joins.                                              *)
HeapPartitioned ==
  LET blocks == live \cup FreeBlocks IN
  /\ live \cap FreeBlocks = {}
  /\ UNION {Block(a) : a \in blocks} \cup alien = 1..brk - 1
  /\ FoldSet(LAMBDA a, n : n + size[a], Cardinality(alien), blocks) = brk - 1

(* The free list is in the order of addresses with one wrap (free's loop   *)
(* relies on it), and no two free blocks are neighbours: free memory is    *)
(* never too fragmented for a request that would fit without the join.     *)
FreeListJoined ==
  freep # -1 =>
    /\ \A a \in FreeBlocks \cup {base} :
         ptr[a] = IF \E b \in FreeBlocks : b > a THEN Min({b \in FreeBlocks : b > a}) ELSE base
    /\ \A a, b \in FreeBlocks : a + size[a] # b

(* When malloc has been round the list and found nothing, so that the heap *)
(* grows, no free block can hold the request, wherever the search began    *)
(* (freep).                                                                *)
GrowsOnlyIfNeeded == call = "malloc" /\ Fits = {} => \A a \in FreeBlocks : size[a] < asked
=============================================================================
