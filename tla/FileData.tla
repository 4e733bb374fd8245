------------------------------ MODULE FileData ------------------------------
(***************************************************************************)
(* The contents of files: the bitmap of blocks, the direct and indirect    *)
(* block numbers of an inode, and reading and writing through open files   *)
(* (balloc, bfree, bmap, itrunc, readi, writei of fs.c; fileread and       *)
(* filewrite of file.c).                                                   *)
(*                                                                         *)
(* An inode is locked while it is written, and its loop takes a step per   *)
(* block; what one process does in between, another may do to other        *)
(* inodes.  The byte that is written at offset o of file i is always       *)
(* Byte(i, o), so that a byte in the wrong place shows.                    *)
(***************************************************************************)
EXTENDS Integers, Sequences, FiniteSets, FiniteSetsExt, Functions

CONSTANTS
  Procs,
  Inodes,          \* a set of positive numbers
  Opens, Ino,      \* open files (struct file), and the inode of each
  NBLOCKS,         \* data blocks of the disk
  BSIZE, NDIRECT, NINDIRECT,
  BPB,             \* bits of a bitmap block
  MAXOPBLOCKS,
  Counts,          \* n of read and write
  UINT             \* 2^32

FileDataConstants ==
  /\ Inodes \subseteq Nat \ {0} /\ Ino \in [Opens -> Inodes] /\ Counts \subseteq 1..UINT - 1
  /\ {NBLOCKS, BSIZE, NDIRECT, NINDIRECT, BPB} \subseteq Nat \ {0}
  /\ MAXOPBLOCKS >= 6
  /\ UINT \in Nat /\ UINT > 2 * (NDIRECT + NINDIRECT) * BSIZE

Blocks == 1..NBLOCKS
MAXFILE == NDIRECT + NINDIRECT
Byte(i, o) == i * MAXFILE * BSIZE + o
NoBlock == [d \in 0..BSIZE - 1 |-> 0]
NoEntries == [k \in 0..NINDIRECT - 1 |-> 0]
(* What a free block holds: nobody clears it, and what it is does not       *)
(* matter as long as balloc does.                                          *)
Junk == [d \in 0..BSIZE - 1 |-> 1]
JunkEntries == [k \in 0..NINDIRECT - 1 |-> 1]
NoInode == [size |-> 0, addrs |-> [k \in 0..NDIRECT |-> 0]]

VARIABLES
  bitmap,        \* blocks in use
  data, entry,   \* a block's bytes, or its numbers if it is an indirect block
  inode,         \* size and addrs in memory
  dinode,        \* the same on disk
  off,           \* of an open file
  pc,            \* "user", "writei" or "panic"
  f, left,       \* filewrite: the file, and bytes to write
  at, end,       \* writei: the offset, and where it stops
  logged         \* the blocks log_write got in this transaction

vars == <<bitmap, data, entry, inode, dinode, off, pc, f, left, at, end, logged>>

Init ==
  /\ bitmap = {}
  /\ data = [b \in Blocks |-> Junk] /\ entry = [b \in Blocks |-> JunkEntries]
  /\ inode = [i \in Inodes |-> NoInode] /\ dinode = inode
  /\ off = [o \in Opens |-> 0]
  /\ pc = [p \in Procs |-> "user"]
  /\ f = [p \in Procs |-> 0] /\ left = [p \in Procs |-> 0]
  /\ at = [p \in Procs |-> 0] /\ end = [p \in Procs |-> 0]
  /\ logged = [p \in Procs |-> {}]

Halted == \E p \in Procs : pc[p] = "panic"
user(p) == pc[p] = "user" /\ ~Halted
locked(i) == \E p \in Procs : pc[p] = "writei" /\ Ino[f[p]] = i

Bitmap(b) == <<"bitmap", (b - 1) \div BPB>>
Data(b) == <<"data", b>>
Inode(i) == <<"inode", i>>

(* What bmap works on; bad: it has called panic. *)
Fs == [bitmap |-> bitmap, data |-> data, entry |-> entry, addrs |-> 0, log |-> {}, addr |-> 0, bad |-> FALSE]

mutant_balloc_no_bzero(s) ==
  LET free == Blocks \ s.bitmap
      b == Min(free) IN
  IF free = {} THEN [s EXCEPT !.bad = TRUE]
  ELSE [s EXCEPT !.bitmap = @ \cup {b}, !.addr = b, !.log = @ \cup {Bitmap(b), Data(b)}]

(* balloc: the first free block, zeroed; panic if there is none. *)
balloc(s) ==
  LET free == Blocks \ s.bitmap
      b == Min(free) IN
  IF free = {} THEN [s EXCEPT !.bad = TRUE]
  ELSE [s EXCEPT !.bitmap = @ \cup {b}, !.addr = b, !.log = @ \cup {Bitmap(b), Data(b)},
                 !.data[b] = NoBlock, !.entry[b] = NoEntries]

(* balloc unless addr is a block already; the number goes to addrs[k]. *)
direct(s, k) ==
  IF s.addrs[k] # 0 THEN [s EXCEPT !.addr = s.addrs[k]]
  ELSE LET t == balloc(s) IN IF t.bad THEN t ELSE [t EXCEPT !.addrs[k] = t.addr]

(* bmap: addr is the block of the file's block bn. *)
bmap(s, bn) ==
  LET k == bn - NDIRECT
      t == direct(s, NDIRECT)
      u == balloc(t)
  IN IF bn < NDIRECT THEN direct(s, bn)
     ELSE IF k >= NINDIRECT THEN [s EXCEPT !.bad = TRUE]
     ELSE IF t.bad THEN t
     ELSE IF t.entry[t.addr][k] # 0 THEN [t EXCEPT !.addr = t.entry[t.addr][k]]
     ELSE IF u.bad THEN u
     ELSE [u EXCEPT !.entry[t.addr][k] = u.addr, !.log = @ \cup {Data(t.addr)}]

(* The blocks of an inode, with the indirect block itself. *)
BlocksOf(i) ==
  LET a == inode[i].addrs IN
  (Range(a) \cup (IF a[NDIRECT] = 0 THEN {} ELSE Range(entry[a[NDIRECT]]))) \ {0}

-----------------------------------------------------------------------------

(* writei's checks, for n1 bytes at the file's offset. *)
Refused(i, o, n1) ==
  \/ o > inode[i].size \/ (o + n1) % UINT < o
  \/ (o + n1) % UINT > MAXFILE * BSIZE

mutant_max_no_slop == ((MAXOPBLOCKS - 1 - 1) \div 2) * BSIZE

max == ((MAXOPBLOCKS - 1 - 1 - 2) \div 2) * BSIZE
chunk(n) == IF n > max THEN max ELSE n

(* A round of filewrite's loop up to writei: begin_op, ilock, the checks.  *)
(* If they fail, filewrite returns -1, and what was written stays.         *)
filewrite_loop(p, o, n) ==
  /\ ~locked(Ino[o])
  /\ IF Refused(Ino[o], off[o], chunk(n))
       THEN pc' = [pc EXCEPT ![p] = "user"] /\ f' = [f EXCEPT ![p] = 0] /\ left' = [left EXCEPT ![p] = 0]
            /\ UNCHANGED <<at, end>>
       ELSE /\ pc' = [pc EXCEPT ![p] = "writei"]
            /\ f' = [f EXCEPT ![p] = o] /\ left' = [left EXCEPT ![p] = n]
            /\ at' = [at EXCEPT ![p] = off[o]] /\ end' = [end EXCEPT ![p] = off[o] + chunk(n)]

filewrite(p, o, n) ==
  /\ user(p) /\ left[p] = 0
  /\ filewrite_loop(p, o, n)
  /\ UNCHANGED <<bitmap, data, entry, inode, dinode, off, logged>>

filewrite_again(p) ==
  /\ user(p) /\ left[p] > 0
  /\ filewrite_loop(p, f[p], left[p])
  /\ UNCHANGED <<bitmap, data, entry, inode, dinode, off, logged>>

mutant_piece_unaligned(p) == Min({end[p] - at[p], BSIZE})

(* How much of writei's bytes go to the next block. *)
piece(p) == Min({end[p] - at[p], BSIZE - (at[p] % BSIZE)})

(* One block of writei's loop. *)
writei(p) ==
  LET i == Ino[f[p]]
      d == at[p] % BSIZE
      m == piece(p)
      s == bmap([Fs EXCEPT !.addrs = inode[i].addrs], at[p] \div BSIZE)
  IN
  /\ pc[p] = "writei" /\ ~Halted /\ at[p] < end[p]
  /\ bitmap' = s.bitmap /\ entry' = s.entry
  /\ inode' = [inode EXCEPT ![i].addrs = s.addrs]
  /\ logged' = [logged EXCEPT ![p] = @ \cup s.log \cup {Data(s.addr)}]
  /\ IF s.bad THEN pc' = [pc EXCEPT ![p] = "panic"] /\ data' = s.data /\ UNCHANGED at
     ELSE /\ data' = [s.data EXCEPT ![s.addr] = [x \in DOMAIN @ |->
                        IF x \in d..d + m - 1 THEN Byte(i, at[p] + x - d) ELSE @[x]]]
          /\ at' = [at EXCEPT ![p] = @ + m]
          /\ UNCHANGED pc
  /\ UNCHANGED <<dinode, off, f, left, end>>

(* The end of writei: iupdate, which writes size and addrs, only if the    *)
(* file has grown.  Then filewrite moves the offset, unlocks and ends the  *)
(* transaction; with all written, it returns.                              *)
writei_done(p) ==
  LET i == Ino[f[p]]
      wrote == end[p] - off[f[p]]
      grown == [inode[i] EXCEPT !.size = end[p]] IN
  /\ pc[p] = "writei" /\ ~Halted /\ at[p] = end[p]
  /\ IF end[p] > inode[i].size
       THEN inode' = [inode EXCEPT ![i] = grown] /\ dinode' = [dinode EXCEPT ![i] = grown]
       ELSE UNCHANGED <<inode, dinode>>
  /\ off' = [off EXCEPT ![f[p]] = end[p]]
  /\ left' = [left EXCEPT ![p] = @ - wrote]
  /\ f' = [f EXCEPT ![p] = IF left[p] = wrote THEN 0 ELSE @]
  /\ pc' = [pc EXCEPT ![p] = "user"]
  /\ at' = [at EXCEPT ![p] = 0] /\ end' = [end EXCEPT ![p] = 0]
  /\ logged' = [logged EXCEPT ![p] = {}]
  /\ UNCHANGED <<bitmap, data, entry>>

(* The bytes that readi copies, without the last loop's arithmetic: byte x *)
(* of what is read is byte (o + x) % BSIZE of block (o + x) / BSIZE.       *)
readi(i, o, n) ==
  LET size == inode[i].size
      s == [Fs EXCEPT !.addrs = inode[i].addrs]
      cut == IF (o + n) % UINT > size THEN size - o ELSE n
  IN IF o > size \/ (o + n) % UINT < o THEN <<>>
     ELSE [x \in 1..cut |-> data[bmap(s, (o + x - 1) \div BSIZE).addr][(o + x - 1) % BSIZE]]

fileread(p, o, n) ==
  /\ user(p) /\ left[p] = 0 /\ ~locked(Ino[o])
  /\ off' = [off EXCEPT ![o] = @ + Len(readi(Ino[o], @, n))]
  /\ UNCHANGED <<bitmap, data, entry, inode, dinode, pc, f, left, at, end, logged>>

(* The file is closed and opened again. *)
sys_open(p, o) ==
  /\ user(p) /\ left[p] = 0 /\ \A q \in Procs : f[q] # o
  /\ off' = [off EXCEPT ![o] = 0]
  /\ UNCHANGED <<bitmap, data, entry, inode, dinode, pc, f, left, at, end, logged>>

(* bfree of some blocks in use. *)
bfree(bs) ==
  /\ bitmap' = bitmap \ bs
  /\ data' = [b \in Blocks |-> IF b \in bs THEN Junk ELSE data[b]]
  /\ entry' = [b \in Blocks |-> IF b \in bs THEN JunkEntries ELSE entry[b]]

mutant_itrunc_keeps_addrs(p, i) ==
  /\ user(p) /\ left[p] = 0 /\ \A q \in Procs : f[q] # 0 => Ino[f[q]] # i
  /\ IF BlocksOf(i) \subseteq bitmap
       THEN /\ bfree(BlocksOf(i))
            /\ inode' = [inode EXCEPT ![i].size = 0]
            /\ dinode' = inode'
            /\ off' = [o \in Opens |-> IF Ino[o] = i THEN 0 ELSE off[o]]
            /\ UNCHANGED pc
       ELSE pc' = [pc EXCEPT ![p] = "panic"] /\ UNCHANGED <<bitmap, data, entry, inode, dinode, off>>
  /\ UNCHANGED <<f, left, at, end, logged>>

(* itrunc, once nobody has the file open any more; bfree panics on a free  *)
(* block.  The next opens are of a new file with the same inode.           *)
itrunc(p, i) ==
  /\ user(p) /\ left[p] = 0 /\ \A q \in Procs : f[q] # 0 => Ino[f[q]] # i
  /\ IF BlocksOf(i) \subseteq bitmap
       THEN /\ bfree(BlocksOf(i))
            /\ inode' = [inode EXCEPT ![i] = NoInode]
            /\ dinode' = [dinode EXCEPT ![i] = NoInode]
            /\ off' = [o \in Opens |-> IF Ino[o] = i THEN 0 ELSE off[o]]
            /\ UNCHANGED pc
       ELSE pc' = [pc EXCEPT ![p] = "panic"] /\ UNCHANGED <<bitmap, data, entry, inode, dinode, off>>
  /\ UNCHANGED <<f, left, at, end, logged>>

(* panic stops the machine. *)
panic == Halted /\ UNCHANGED vars

Next ==
  panic \/ \E p \in Procs :
    \/ \E o \in Opens, n \in Counts : filewrite(p, o, n) \/ fileread(p, o, n)
    \/ filewrite_again(p) \/ writei(p) \/ writei_done(p)
    \/ \E o \in Opens : sys_open(p, o)
    \/ \E i \in Inodes : itrunc(p, i)

Spec == Init /\ [][Next]_vars

-----------------------------------------------------------------------------

TypeOK ==
  /\ bitmap \subseteq Blocks
  /\ entry \in [Blocks -> [0..NINDIRECT - 1 -> 0..NBLOCKS]]
  /\ inode \in [Inodes -> [size : 0..MAXFILE * BSIZE, addrs : [0..NDIRECT -> 0..NBLOCKS]]]
  /\ off \in [Opens -> 0..MAXFILE * BSIZE]
  /\ pc \in [Procs -> {"user", "writei", "panic"}]

(* A block is in use exactly if one inode has it, in one place: no block   *)
(* is shared by two files or lost, through concurrent allocations, direct  *)
(* and indirect blocks, and reuse of freed blocks (balloc's bzero).        *)
BlocksOwned ==
  LET Places(i) == Cardinality({k \in 0..NDIRECT : inode[i].addrs[k] # 0})
                   + (IF inode[i].addrs[NDIRECT] = 0 THEN 0
                      ELSE Cardinality({k \in 0..NINDIRECT - 1 : entry[inode[i].addrs[NDIRECT]][k] # 0}))
  IN /\ bitmap = UNION {BlocksOf(i) : i \in Inodes}
     /\ FoldSet(LAMBDA i, n : n + Places(i), 0, Inodes) = Cardinality(bitmap)

(* What readi returns is what was written: from every offset, and over the *)
(* bounds of blocks and between direct and indirect blocks.                *)
ReadsBack ==
  \A i \in Inodes : ~locked(i) =>
    \A o \in 0..inode[i].size :
      readi(i, o, MAXFILE * BSIZE) = [x \in 1..inode[i].size - o |-> Byte(i, o + x - 1)]

(* bmap changes addrs and does not call iupdate; the end of writei does,   *)
(* but only if the file has grown (fs.c:524).  Still, the inode on disk is *)
(* the one in memory whenever it is not locked.                            *)
MetadataSaved == \A i \in Inodes : ~locked(i) /\ ~Halted => dinode[i] = inode[i]

(* "write a few blocks at a time to avoid exceeding the maximum log        *)
(* transaction size, including i-node, indirect block, allocation blocks,  *)
(* and 2 blocks of slop for non-aligned writes" (file.c:127): a round of   *)
(* filewrite logs at most MAXOPBLOCKS blocks, the inode included, even if  *)
(* every allocation is in another bitmap block.                            *)
WriteFits ==
  \A p \in Procs : pc[p] = "writei" => Cardinality(logged[p] \cup {Inode(Ino[f[p]])}) <= MAXOPBLOCKS

(* The only panic within reach is "balloc: out of blocks".                 *)
OnlyFullDiskPanics == Halted => bitmap = Blocks
=============================================================================
