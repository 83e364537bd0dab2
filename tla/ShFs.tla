-------------------------------- MODULE ShFs --------------------------------
(***************************************************************************)
(* The block layer of the file system (fs/shfs_journal.c, shfs_inode.c,    *)
(* shfs_link.c, shfs_aux.c).  Journal files are tables of blocks, mapped   *)
(* by every process that uses the partition.  A file inode heads the chain *)
(* of its children: the BINARY inode with its data, and one ACCESS inode   *)
(* for each credential.  A child heads the chain of the blocks of its      *)
(* data.  A block is taken from the journal that a hash of a key selects.  *)
(*                                                                         *)
(* The module follows one file and its children; any process may work on   *)
(* any of them.  One step is the access to one block, with the code up to  *)
(* the next one, except that the list of children is searched in one step  *)
(* and that truncation reads and updates a block in one.  Lengths count    *)
(* blocks: a block holds one unit of data.                                 *)
(***************************************************************************)
EXTENDS Naturals, Sequences, FiniteSets

CONSTANTS
  Procs,        \* processes
  Names,        \* names of the children
  Binary,       \* the BINARY children; the others are credentials
  Earlier,      \* the children that exist from the start; nobody uses them
  JOURNALS,     \* journals 1..JOURNALS
  Home,         \* Home[n]: shfs_journal_index of the key of n
  Hashed,       \* the journals that the keys of data blocks select
  PAGE_BLOCKS,  \* blocks of a SHARE_PAGE_SIZE page
  INIT_BLOCKS,  \* blocks of a new journal file
  MAX_BLOCK,    \* SHFS_MAX_BLOCK
  Lengths,      \* lengths of the data that is written
  Cuts,         \* lengths that truncation sets
  MaxCalls,     \* bound on the writes, clears and truncations
  MaxRestarts   \* bound on the processes that end, orderly or killed

ASSUME FsAssumption ==
  /\ IsFiniteSet(Procs) /\ IsFiniteSet(Names) /\ Binary \subseteq Names
  /\ Earlier \subseteq Names /\ Cardinality(Earlier) <= 1
  /\ JOURNALS \in Nat \ {0}
  /\ Home \in [Names -> 1..JOURNALS] /\ Hashed \subseteq 1..JOURNALS
  /\ PAGE_BLOCKS \in Nat \ {0}
  /\ INIT_BLOCKS \in Nat \ {0, 1} /\ INIT_BLOCKS % PAGE_BLOCKS = 0
  /\ MAX_BLOCK \in Nat
  /\ INIT_BLOCKS <= MAX_BLOCK
  /\ Lengths \subseteq Nat /\ Cuts \subseteq Nat
  /\ \A n \in Earlier : Home[n] # 1
  /\ MaxCalls \in Nat /\ MaxRestarts \in Nat

VARIABLES
  disk,         \* the blocks of the journals
  fsize,        \* number of blocks of each journal file
  proc,         \* the processes: their copies of inodes, their calls
  stored,       \* history: what each child should hold
  harm,         \* history: what has damaged a chain
  calls,        \* number of calls made
  restarts      \* number of processes that ended

vars == <<disk, fsize, proc, stored, harm, calls, restarts>>

Journals == 1..JOURNALS

(* shfs_idx_t; ino 0 is "none", and block 0 of a journal is never used.    *)
At(j, i) == [jno |-> j, ino |-> i]

None == At(0, 0)

Positions == {At(j, i) : j \in Journals, i \in 1..(MAX_BLOCK - 1)}

(* One unit of data: the call that wrote it and its place in the data.     *)
Unit(call, k) == [call |-> call, k |-> k]

Blank == Unit(0, 0)

Data(call, len) == [k \in 1..len |-> Unit(call, k)]

Blanks(len) == [k \in 1..len |-> Blank]

NoName == 0

(* shfs_block_t.  home is the journal that the block's name selects; has   *)
(* is the content its format and attributes tell of.                       *)
Zero ==
  [type |-> "NULL", name |-> NoName, home |-> 0, pos |-> None,
   npos |-> None, fpos |-> None, size |-> 0, has |-> {}, raw |-> Blank]

(* What the file's inode tells of child n, and what the child's own does:  *)
(* SHINODE_BINARY or SHATTR_CRED, and SHINODE_ACCESS for a credential.     *)
Kind(n) == IF n \in Binary THEN {"BINARY"} ELSE {"CRED"}

Format(n) == IF n \in Binary THEN {} ELSE {"ACCESS"}

Aux(pos, home) == [Zero EXCEPT !.type = "AUX", !.pos = pos, !.home = home]

Child(n) == [Zero EXCEPT !.type = "CHILD", !.name = n, !.home = Home[n]]

(* The file inode, in the first block that a scan of journal 1 finds.      *)
ParentPos == At(1, INIT_BLOCKS - 1)

Parent == [Zero EXCEPT !.type = "FILE", !.home = 1, !.pos = ParentPos]

(* A child that was linked before, in the first block of its journal.      *)
EarlierPos(n) == At(Home[n], INIT_BLOCKS - 1)

FirstChild == IF Earlier = {} THEN None ELSE EarlierPos(CHOOSE n \in Earlier : TRUE)

Created(pos) ==
  LET old == {n \in Earlier : pos = EarlierPos(n)}
  IN  IF pos = ParentPos THEN [Parent EXCEPT !.fpos = FirstChild]
      ELSE IF old = {} THEN Zero
      ELSE [Child(CHOOSE n \in old : TRUE) EXCEPT !.pos = pos]

(* A process that does not have the partition open.                        *)
Closed ==
  [pc |-> "closed", parent |-> Zero, ino |-> [n \in Names |-> Zero],
   map |-> [j \in Journals |-> 0], fill |-> 0, name |-> NoName,
   data |-> <<>>, of |-> 0, cur |-> Zero, dirty |-> FALSE, next |-> Zero,
   idx |-> None]

(* What a child should hold.  known is "yes", "expanded" when the length   *)
(* was last increased, or "no" when a call on it was cut short.  torn: its *)
(* chain may refer to a free block.  linked: shfs_link has returned.       *)
Stored(data, linked) ==
  [data |-> data, known |-> "yes", torn |-> FALSE, linked |-> linked]

Init ==
  /\ disk = [pos \in Positions |-> Created(pos)]
  /\ fsize = [j \in Journals |-> INIT_BLOCKS]
  /\ proc = [p \in Procs |-> Closed]
  /\ stored = [n \in Names |-> Stored(<<>>, n \in Earlier)]
  /\ harm = {}
  /\ calls = 0
  /\ restarts = 0

-----------------------------------------------------------------------------
(* Journals.                                                               *)

(* Mutant of Use: a journal is mapped with its first pages only.           *)
UseFirstPages(p, J) ==
  [j \in Journals |-> IF j \in J THEN INIT_BLOCKS ELSE proc[p].map[j]]

(* The number of blocks of a journal that a process sees: the whole pages  *)
(* of the file are mapped when it is first used, and again only when a     *)
(* scan of this process grows the map.                                     *)
Mapped(p, j) ==
  IF proc[p].map[j] = 0 THEN fsize[j] - (fsize[j] % PAGE_BLOCKS)
                        ELSE proc[p].map[j]

Use(p, J) == [j \in Journals |-> IF j \in J THEN Mapped(p, j)
                                            ELSE proc[p].map[j]]

(* shfs_journal_block returns the block: the map is not grown for it.      *)
Readable(p, pos) ==
  /\ pos.ino < MAX_BLOCK
  /\ pos.ino < Mapped(p, pos.jno)

(* The test of shfs_journal_block lets the first block past the map        *)
(* through: what happens then is undefined.                                *)
Past(p, pos) ==
  IF pos.ino < MAX_BLOCK /\ pos.ino = Mapped(p, pos.jno) THEN {"past"} ELSE {}

(* _shfs_journal_scan takes the free block with the highest number.        *)
FreeBelow(j, max) == {i \in 1..(max - 1) : disk[At(j, i)].type = "NULL"}

Highest(S) == CHOOSE i \in S : \A k \in S : k <= i

(* There is none, and the journal is to be grown before it is scanned      *)
(* again.                                                                  *)
Full(p, j) == Mapped(p, j) < MAX_BLOCK /\ FreeBelow(j, Mapped(p, j)) = {}

Scanned(p, j) == proc[p].fill = 0 /\ ~Full(p, j)

(* The scan fails in a full journal that has SHFS_MAX_BLOCK blocks, and at *)
(* the first block that is beyond that limit.                              *)
Scan(p, j) ==
  LET max == Mapped(p, j)
  IN  IF max > MAX_BLOCK \/ FreeBelow(j, max) = {}
      THEN None
      ELSE At(j, Highest(FreeBelow(j, max)))

(* The next block of a write is made when more data is pending.            *)
Makes(r) == r.cur.npos = None /\ r.of + 1 < Len(r.data)

(* The journal that a process scans at its place, or 0.                    *)
ScanOf(p) ==
  LET r == proc[p]
  IN  CASE r.pc = "slot" -> Home[r.name]
        [] r.pc = "first" /\ r.ino[r.name].fpos = None -> Home[r.name]
        [] r.pc = "next" /\ Makes(r) -> r.cur.home
        [] OTHER -> 0

(* shbuf_growmap doubles the map: the size of the file is read, ...        *)
GrowStat(p) ==
  LET j   == ScanOf(p)
      new == 2 * Mapped(p, j)
  IN  /\ j # 0 /\ proc[p].fill = 0 /\ Full(p, j)
      /\ proc' = [proc EXCEPT ![p] =
           IF fsize[j] < new
           THEN [@ EXCEPT !.map = Use(p, {j}), !.fill = fsize[j]]
           ELSE [@ EXCEPT !.map[j] = new]]
      /\ UNCHANGED <<disk, fsize, stored, harm, calls, restarts>>

(* Mutant of Extended: the new blocks are mapped and not written to the    *)
(* file.                                                                   *)
NotExtended(j, i) == fsize

Extended(j, i) == [fsize EXCEPT ![j] = IF @ <= i THEN i + 1 ELSE @]

(* ... and blank blocks are written from there on, one at a time, over     *)
(* what a faster process may have stored in them; then it is mapped.       *)
GrowFill(p) ==
  LET j   == ScanOf(p)
      i   == proc[p].fill
      new == 2 * proc[p].map[j]
  IN  /\ i # 0
      /\ disk' = [pos \in Positions |-> IF pos = At(j, i) THEN Zero ELSE disk[pos]]
      /\ harm' = harm \union
           {"wiped" : pos \in {pos \in Positions : pos = At(j, i) /\ disk[pos] # Zero}}
      /\ fsize' = Extended(j, i)
      /\ proc' = [proc EXCEPT ![p] =
           IF i + 1 < new THEN [@ EXCEPT !.fill = i + 1]
                          ELSE [@ EXCEPT !.fill = 0, !.map[j] = new]]
      /\ UNCHANGED <<stored, calls, restarts>>

-----------------------------------------------------------------------------
(* Chains.                                                                 *)

MaxChain == Cardinality(Positions)

(* The blocks of a chain in order; MaxChain + 1 of them when the chain is  *)
(* a cycle.                                                                *)
Chain(pos) ==
  LET next[c \in Seq(Positions)] ==
        IF c = <<>> \/ disk[c[Len(c)]].npos = None
        THEN c ELSE Append(c, disk[c[Len(c)]].npos)
      upto[k \in 0..MaxChain] ==
        IF k = 0 THEN (IF pos = None THEN <<>> ELSE <<pos>>)
                 ELSE next[upto[k - 1]]
  IN  upto[MaxChain]

Members(pos) == LET c == Chain(pos) IN {c[k] : k \in DOMAIN c}

(* A chain that leads to a block which is free.                            *)
Loose(pos) == \E q \in Members(pos) : disk[q].type = "NULL"

(* Mutant of Pread: the size of the inode is not looked at.                *)
PreadWhole(ino) ==
  LET c == Chain(ino.fpos)
  IN  [k \in DOMAIN c |-> disk[c[k]].raw]

(* shfs_aux_pread: the data of the chain, up to the size of the inode.     *)
Pread(ino) ==
  LET c == Chain(ino.fpos)
  IN  [k \in 1..(IF Len(c) < ino.size THEN Len(c) ELSE ino.size) |->
         disk[c[k]].raw]

Endless(pos) == Len(Chain(pos)) > MaxChain

(* shfs_link_find: whether a block could not be read or was its own        *)
(* successor, the block with name n or Zero, the journals used, and        *)
(* whether a block past a map was read.                                    *)
LinkFind(p, n) ==
  LET c      == Chain(proc[p].parent.fpos)
      Bad(k) == ~Readable(p, c[k]) \/ disk[c[k]].npos = c[k]
      stops  == {k \in DOMAIN c : Bad(k) \/ disk[c[k]].name = n}
      first  == CHOOSE k \in stops : \A i \in stops : k <= i
      used   == {k \in DOMAIN c : stops # {} => k <= first}
  IN  [err  |-> stops # {} /\ Bad(first),
       blk  |-> IF stops = {} THEN Zero ELSE disk[c[first]],
       used |-> {c[k].jno : k \in used},
       past |-> UNION {Past(p, c[k]) : k \in used}]

-----------------------------------------------------------------------------
(* What can damage a chain.                                                *)

(* A slot is found free that is about to be used: by the same write        *)
(* ("own"), by another process ("slot"), or that a chain refers to         *)
(* ("reuse"): from an inode on the disk, from the copy of it that a        *)
(* process keeps (a first write that fails leaves its slot there), or from *)
(* the block that a truncation has come to.                                *)
Pending(q) == {proc[q].cur.pos, proc[q].next.pos}

Heads ==
  {disk[pos].fpos : pos \in {pos \in Positions : disk[pos].type = "CHILD"}}
  \union {proc[q].ino[n].fpos : q \in Procs, n \in Names}
  \union {proc[q].idx : q \in Procs}

Referred == UNION {Members(pos) : pos \in Heads}

Clash(p, slot) ==
  (IF slot \in Pending(p) \ {None} THEN {"own"} ELSE {})
  \union {"slot" : q \in {q \in Procs \ {p} : slot \in Pending(q) \ {None}}}
  \union {"reuse" : pos \in {slot} \cap Referred}

(* The file's inode is written from a copy with an older list of the       *)
(* children, or that does not tell of all its content.                     *)
Overwritten(p) ==
  IF disk[ParentPos].fpos # proc[p].parent.fpos
       \/ ~(disk[ParentPos].has \subseteq proc[p].parent.has)
  THEN {"stale"} ELSE {}

(* Two processes are in calls on one child, ...                            *)
Meets(p, n) == {"shared" : q \in {q \in Procs \ {p} : proc[q].name = n}}

(* ... or one changes a child while another has a copy of its inode.       *)
Outdates(p, n) ==
  Meets(p, n) \union {"shared" : q \in {q \in Procs \ {p} : proc[q].ino[n] # Zero}}

(* A call that ended early leaves the data unknown, and maybe a chain that *)
(* refers to a free block.                                                 *)
Unsure(old, torn) == [old EXCEPT !.known = "no", !.torn = @ \/ torn]

-----------------------------------------------------------------------------
(* Opening and closing.                                                    *)

Idle(p) == proc[p].pc = "idle"

(* Every call ends here; what ends with an error has not stored the data.  *)
Return(r) ==
  [r EXCEPT !.pc = "idle", !.fill = 0, !.name = NoName, !.data = <<>>,
            !.of = 0, !.cur = Zero, !.dirty = FALSE, !.next = Zero,
            !.idx = None]

(* shfs_init, and the search for the file: its inode is read.              *)
Open(p) ==
  /\ proc[p].pc = "closed"
  /\ proc' = [proc EXCEPT ![p] = [@ EXCEPT !.pc = "idle",
                                           !.parent = disk[ParentPos],
                                           !.map = Use(p, {1})]]
  /\ UNCHANGED <<disk, fsize, stored, harm, calls, restarts>>

(* shfs_free: the copies of the inodes and the maps are dropped.           *)
Close(p) ==
  /\ Idle(p)
  /\ restarts < MaxRestarts
  /\ proc' = [proc EXCEPT ![p] = Closed]
  /\ restarts' = restarts + 1
  /\ UNCHANGED <<disk, fsize, stored, harm, calls>>

(* The process is killed; its call is left where it is.  Data that the     *)
(* inode on the disk does not refer to yet is lost, and nothing else.      *)
(* Before the file's inode is written the data is not read when that inode *)
(* does not tell of it.                                                    *)
Crash(p) ==
  LET n     == proc[p].name
      fresh == disk[proc[p].ino[n].pos].fpos = None
      cut   == proc[p].pc \in {"next", "store", "inode", "clear", "follow",
                               "clearinode", "cut", "resize"} /\ ~fresh
      hid   == proc[p].pc = "save" /\ ~(Kind(n) \subseteq disk[ParentPos].has)
  IN  /\ restarts < MaxRestarts
      /\ proc[p].pc \notin {"closed", "idle"}
      /\ proc' = [proc EXCEPT ![p] = Closed]
      /\ stored' = IF cut \/ hid
                   THEN [stored EXCEPT ![n] =
                           Unsure(@, proc[p].pc \notin {"inode", "save"})]
                   ELSE stored
      /\ restarts' = restarts + 1
      /\ UNCHANGED <<disk, fsize, harm, calls>>

-----------------------------------------------------------------------------
(* Finding and creating a child (shfs_inode, shfs_link).                   *)

(* shfs_inode when the child is not in the cache of the parent.  When it   *)
(* is not found, shfs_link repeats the search, and the first child so far  *)
(* becomes the next of the new one.                                        *)
InodeFind(p, n) ==
  LET found == LinkFind(p, n)
      first == proc[p].parent.fpos
      npos  == IF first = None THEN None ELSE disk[first].pos
      r     == [proc[p] EXCEPT !.map = Use(p, found.used)]
  IN  /\ Idle(p) /\ proc[p].ino[n] = Zero
      /\ proc' = [proc EXCEPT ![p] =
           IF found.err THEN r
           ELSE IF found.blk # Zero THEN [r EXCEPT !.ino[n] = found.blk]
           ELSE [r EXCEPT !.pc = "slot", !.name = n,
                          !.cur = [Child(n) EXCEPT !.npos = npos]]]
      /\ harm' = harm \union found.past \union Meets(p, n)
      /\ UNCHANGED <<disk, fsize, stored, calls, restarts>>

(* A free block is looked up for the child.                                *)
LinkScan(p) ==
  LET j    == Home[proc[p].name]
      slot == Scan(p, j)
      r    == [proc[p] EXCEPT !.map = Use(p, {j})]
  IN  /\ proc[p].pc = "slot" /\ Scanned(p, j)
      /\ proc' = [proc EXCEPT ![p] =
           IF slot = None THEN Return(r)
           ELSE [r EXCEPT !.pc = "child", !.cur.pos = slot]]
      /\ harm' = harm \union Clash(p, slot)
      /\ UNCHANGED <<disk, fsize, stored, calls, restarts>>

(* Mutant of LinkChild: the parent is written first.                       *)
LinkChildLate(p) ==
  /\ proc[p].pc = "child"
  /\ disk' = [disk EXCEPT ![ParentPos].fpos = proc[p].cur.pos]
  /\ proc' = [proc EXCEPT ![p].pc = "parent"]
  /\ UNCHANGED <<fsize, stored, harm, calls, restarts>>

(* The child is written before the parent refers to it.                    *)
LinkChild(p) ==
  /\ proc[p].pc = "child"
  /\ disk' = [disk EXCEPT ![proc[p].cur.pos] = proc[p].cur]
  /\ proc' = [proc EXCEPT ![p].pc = "parent"]
  /\ UNCHANGED <<fsize, stored, harm, calls, restarts>>

LinkParent(p) ==
  LET r == proc[p]
      parent == [r.parent EXCEPT !.fpos = r.cur.pos]
  IN  /\ r.pc = "parent"
      /\ disk' = [disk EXCEPT ![ParentPos] = parent]
      /\ proc' = [proc EXCEPT ![p] =
           Return([r EXCEPT !.parent = parent, !.ino[r.name] = r.cur])]
      /\ stored' = [stored EXCEPT ![r.name].linked = TRUE]
      /\ harm' = harm \union Overwritten(p)
      /\ UNCHANGED <<fsize, calls, restarts>>

(* shfs_inode_write_entity of the file, the end of shfs_write,             *)
(* shfs_cred_store and shfs_truncate.                                      *)
ParentSave(p) ==
  /\ proc[p].pc = "save"
  /\ disk' = [disk EXCEPT ![ParentPos] = proc[p].parent]
  /\ proc' = [proc EXCEPT ![p] = Return(@)]
  /\ harm' = harm \union Overwritten(p)
  /\ UNCHANGED <<fsize, stored, calls, restarts>>

-----------------------------------------------------------------------------
(* Writing the data of a child (shfs_aux_pwrite, from offset 0).           *)

Called(p, n) ==
  /\ calls < MaxCalls
  /\ Idle(p) /\ proc[p].ino[n] # Zero
  /\ calls' = calls + 1
  /\ harm' = harm \union Outdates(p, n)

(* The call on child n fails at block pos, which cannot be read, or in a   *)
(* full journal; part of it may have been carried out.                     *)
Fails(p, n, r, pos) ==
  /\ proc' = [proc EXCEPT ![p] = Return(r)]
  /\ stored' = [stored EXCEPT ![n] = Unsure(@, TRUE)]
  /\ harm' = harm \union (IF pos = None THEN {} ELSE Past(p, pos))

(* A write follows its chain to a block that is free, and stops there.     *)
Lost(blk) == IF blk.type = "NULL" THEN {"loose"} ELSE {}

(* shfs_cred_store sets the format of the credential first.                *)
WriteBegin(p, n, len) ==
  /\ Called(p, n)
  /\ proc' = [proc EXCEPT ![p] =
       [@ EXCEPT !.pc = "first", !.name = n, !.data = Data(calls + 1, len),
                 !.ino[n].has = Format(n)]]
  /\ UNCHANGED <<disk, fsize, stored, restarts>>

(* The first block is looked up, or read.                                  *)
WriteFirst(p) ==
  LET r    == proc[p]
      n    == r.name
      fpos == r.ino[n].fpos
      new  == fpos = None
      slot == Scan(p, Home[n])
      s    == [r EXCEPT !.pc = "next",
                        !.map = Use(p, {IF new THEN Home[n] ELSE fpos.jno})]
  IN  /\ r.pc = "first" /\ (new => Scanned(p, Home[n]))
      /\ \/ /\ new /\ slot # None
            /\ \E home \in Hashed :
                 proc' = [proc EXCEPT ![p] =
                   [s EXCEPT !.cur = Aux(slot, home), !.ino[n].fpos = slot,
                             !.dirty = TRUE]]
            /\ harm' = harm \union Clash(p, slot)
         \/ /\ ~new /\ Readable(p, fpos)
            /\ proc' = [proc EXCEPT ![p] =
                 [s EXCEPT !.cur = disk[fpos],
                           !.pc = IF disk[fpos].pos = None THEN "inode" ELSE "next"]]
            /\ harm' = harm \union Lost(disk[fpos])
         \/ /\ IF new THEN slot = None ELSE ~Readable(p, fpos)
            /\ proc' = [proc EXCEPT ![p] = Return(s)]
            /\ harm' = harm \union (IF new THEN {} ELSE Past(p, fpos))
      /\ UNCHANGED <<disk, fsize, stored, calls, restarts>>

(* One turn of the loop: the next block is read, or made when more data is *)
(* pending, before the current block is written.                           *)
Filled(r) ==
  LET more == r.of < Len(r.data)
  IN  [r.cur EXCEPT !.size = IF more THEN 1 ELSE 0,
                    !.raw = IF more THEN r.data[r.of + 1] ELSE @]

WriteNext(p) ==
  LET r    == proc[p]
      npos == r.cur.npos
      home == r.cur.home
      make == Makes(r)
      slot == Scan(p, home)
      s    == [r EXCEPT !.map = Use(p, {IF make THEN home ELSE npos.jno})]
      To(cur, next) ==
        [s EXCEPT !.pc = "store", !.cur = cur, !.next = next,
                  !.dirty = @ \/ cur # r.cur]
  IN  /\ r.pc = "next" /\ (make => Scanned(p, home))
      /\ \/ /\ npos = None /\ ~make
            /\ proc' = [proc EXCEPT ![p] = To(Filled(r), Zero)]
            /\ UNCHANGED <<stored, harm>>
         \/ /\ make /\ slot # None
            /\ \E h \in Hashed :
                 proc' = [proc EXCEPT ![p] =
                            To([Filled(r) EXCEPT !.npos = slot], Aux(slot, h))]
            /\ harm' = harm \union Clash(p, slot)
            /\ UNCHANGED stored
         \/ /\ npos # None /\ Readable(p, npos)
            /\ proc' = [proc EXCEPT ![p] = To(Filled(r), disk[npos])]
            /\ harm' = harm \union Lost(disk[npos])
            /\ UNCHANGED stored
         \/ /\ IF make THEN slot = None ELSE npos # None /\ ~Readable(p, npos)
            /\ Fails(p, r.name, s, npos)
      /\ UNCHANGED <<disk, fsize, calls, restarts>>

(* The block is written when it has changed.                               *)
WriteStore(p) ==
  LET r == proc[p]
  IN  /\ r.pc = "store"
      /\ disk' = IF r.dirty THEN [disk EXCEPT ![r.cur.pos] = r.cur] ELSE disk
      /\ proc' = [proc EXCEPT ![p] =
           [r EXCEPT !.pc = IF r.next.pos = None THEN "inode" ELSE "next",
                     !.of = @ + r.cur.size, !.cur = r.next, !.next = Zero,
                     !.dirty = FALSE]]
      /\ UNCHANGED <<fsize, stored, harm, calls, restarts>>

(* The inode is written last; then the file's own inode, which tells of    *)
(* the data.                                                               *)
WriteInode(p) ==
  LET r   == proc[p]
      ino == [r.ino[r.name] EXCEPT !.size = Len(r.data)]
  IN  /\ r.pc = "inode"
      /\ disk' = [disk EXCEPT ![ino.pos] = ino]
      /\ proc' = [proc EXCEPT ![p] =
           [r EXCEPT !.pc = "save", !.ino[r.name] = ino,
                     !.parent.has = @ \union Kind(r.name)]]
      /\ stored' = [stored EXCEPT ![r.name] = Stored(r.data, TRUE)]
      /\ UNCHANGED <<fsize, harm, calls, restarts>>

-----------------------------------------------------------------------------
(* Removing a credential (shfs_cred_remove, shfs_inode_clear).             *)

ClearBegin(p, n) ==
  LET ino == proc[p].ino[n]
  IN  /\ Called(p, n) /\ "ACCESS" \in ino.has
      /\ proc' = [proc EXCEPT ![p] =
           [@ EXCEPT !.pc = IF ino.fpos = None THEN "clearinode" ELSE "clear",
                     !.name = n, !.cur = ino, !.idx = ino.fpos]]
      /\ UNCHANGED <<disk, fsize, stored, restarts>>

ClearBlock(p) ==
  LET r == proc[p]
  IN  /\ r.pc = "clear"
      /\ IF Readable(p, r.idx)
         THEN /\ disk' = [disk EXCEPT ![r.idx] = Zero]
              /\ proc' = [proc EXCEPT ![p].pc = "follow",
                                      ![p].map = Use(p, {r.idx.jno})]
              /\ harm' = harm \union
                   (IF disk[r.idx].type = "CHILD" THEN {"clear"} ELSE {})
              /\ UNCHANGED stored
         ELSE Fails(p, r.name, r, r.idx) /\ UNCHANGED disk
      /\ UNCHANGED <<fsize, calls, restarts>>

(* The next block is taken from npos of the block last read, which for the *)
(* inode is its sibling; the block to clear is then npos of that one.      *)
ClearNext(p) ==
  LET r    == proc[p]
      npos == r.cur.npos
      nblk == IF npos = None THEN Zero ELSE disk[npos]
  IN  /\ r.pc = "follow"
      /\ IF npos = None \/ Readable(p, npos)
         THEN /\ proc' = [proc EXCEPT ![p] =
                   [r EXCEPT !.cur = nblk, !.idx = nblk.npos,
                             !.pc = IF nblk.npos = None THEN "clearinode"
                                                        ELSE "clear",
                             !.map = Use(p, {npos.jno})]]
              /\ UNCHANGED <<stored, harm>>
         ELSE Fails(p, r.name, r, npos)
      /\ UNCHANGED <<disk, fsize, calls, restarts>>

(* Mutant of ClearInode: fpos is not reset.                                *)
ClearInodeKeepsFpos(p) ==
  LET r   == proc[p]
      ino == [r.ino[r.name] EXCEPT !.size = 0, !.has = {}]
  IN  /\ r.pc = "clearinode"
      /\ disk' = [disk EXCEPT ![ino.pos] = ino]
      /\ proc' = [proc EXCEPT ![p] = Return([r EXCEPT !.ino[r.name] = ino])]
      /\ stored' = [stored EXCEPT ![r.name] = Stored(<<>>, TRUE)]
      /\ UNCHANGED <<fsize, harm, calls, restarts>>

ClearInode(p) ==
  LET r   == proc[p]
      ino == [r.ino[r.name] EXCEPT !.size = 0, !.has = {}, !.fpos = None]
  IN  /\ r.pc = "clearinode"
      /\ disk' = [disk EXCEPT ![ino.pos] = ino]
      /\ proc' = [proc EXCEPT ![p] = Return([r EXCEPT !.ino[r.name] = ino])]
      /\ stored' = [stored EXCEPT ![r.name] = Stored(<<>>, TRUE)]
      /\ UNCHANGED <<fsize, harm, calls, restarts>>

-----------------------------------------------------------------------------
(* Setting the length of the data (shfs_truncate, shfs_inode_truncate), of *)
(* a file that has the format.                                             *)

Resized(data, len) ==
  [k \in 1..len |-> IF k <= Len(data) THEN data[k] ELSE Blank]

TruncateBegin(p, n, len) ==
  LET ino == proc[p].ino[n]
  IN  /\ Called(p, n) /\ n \in Binary /\ "BINARY" \in proc[p].parent.has
      /\ proc' = [proc EXCEPT ![p] =
           [@ EXCEPT !.pc = IF len < ino.size /\ ino.fpos # None THEN "cut"
                             ELSE IF len = ino.size THEN "save" ELSE "resize",
                     !.name = n, !.data = Resized(<<>>, len),
                     !.idx = ino.fpos]]
      /\ UNCHANGED <<disk, fsize, stored, restarts>>

(* A block past the new length is cleared; the block before it still       *)
(* refers to it.                                                           *)
TruncateBlock(p) ==
  LET r   == proc[p]
      blk == disk[r.idx]
  IN  /\ r.pc = "cut"
      /\ IF ~Readable(p, r.idx)
         THEN Fails(p, r.name, r, r.idx) /\ UNCHANGED disk
         ELSE /\ disk' = IF r.of >= Len(r.data)
                         THEN [disk EXCEPT ![r.idx] = Zero] ELSE disk
              /\ proc' = [proc EXCEPT ![p] =
                   [r EXCEPT !.of = @ + blk.size, !.idx = blk.npos,
                             !.pc = IF blk.npos = None THEN "resize" ELSE "cut",
                             !.map = Use(p, {r.idx.jno})]]
              /\ UNCHANGED <<stored, harm>>
      /\ UNCHANGED <<fsize, calls, restarts>>

(* Only the size is set when the data grows.                               *)
TruncateInode(p) ==
  LET r   == proc[p]
      n   == r.name
      ino == [r.ino[n] EXCEPT !.size = Len(r.data)]
      old == stored[n]
  IN  /\ r.pc = "resize"
      /\ disk' = [disk EXCEPT ![ino.pos] = ino]
      /\ proc' = [proc EXCEPT ![p] = [r EXCEPT !.pc = "save", !.ino[n] = ino]]
      /\ stored' = [stored EXCEPT ![n] =
           [old EXCEPT !.data = Resized(@, Len(r.data)),
                       !.known = IF Len(r.data) > r.ino[n].size /\ @ = "yes"
                                 THEN "expanded" ELSE @,
                       !.torn = TRUE]]
      /\ UNCHANGED <<fsize, harm, calls, restarts>>

-----------------------------------------------------------------------------
Step(p) ==
  \/ GrowStat(p) \/ GrowFill(p)
  \/ LinkScan(p) \/ LinkChild(p) \/ LinkParent(p) \/ ParentSave(p)
  \/ WriteFirst(p) \/ WriteNext(p) \/ WriteStore(p) \/ WriteInode(p)
  \/ ClearBlock(p) \/ ClearNext(p) \/ ClearInode(p)
  \/ TruncateBlock(p) \/ TruncateInode(p)

Call(p, n) ==
  \/ InodeFind(p, n)
  \/ \E len \in Lengths : WriteBegin(p, n, len)
  \/ ClearBegin(p, n)
  \/ \E len \in Cuts : TruncateBegin(p, n, len)

Next ==
  \E p \in Procs :
    \/ Open(p) \/ Close(p) \/ Crash(p)
    \/ Step(p)
    \/ \E n \in Names \ Earlier : Call(p, n)

Spec == Init /\ [][Next]_vars

-----------------------------------------------------------------------------
(* Properties.                                                             *)

(* Types of the state of the journals and of the processes.                *)
TypeOK ==
  /\ \A pos \in Positions :
       /\ disk[pos].type \in {"NULL", "AUX", "CHILD", "FILE"}
       /\ disk[pos].type # "NULL" => disk[pos].pos = pos /\ pos.ino < fsize[pos.jno]
       /\ {disk[pos].npos, disk[pos].fpos} \subseteq Positions \union {None}
  /\ fsize \in [Journals -> Nat]
  /\ \A p \in Procs : {proc[p].cur.pos, proc[p].next.pos, proc[p].idx}
                        \subseteq Positions \union {None}
  /\ harm \subseteq {"own", "slot", "reuse", "loose", "clear", "stale",
                     "wiped", "shared", "past"}
  /\ calls <= MaxCalls /\ restarts <= MaxRestarts

InCall(n) == \E p \in Procs : proc[p].name = n

(* The children that are found from the inode of the file.                 *)
Children == {pos \in Members(disk[ParentPos].fpos) : disk[pos].type = "CHILD"}

Listed == {disk[pos].name : pos \in Children}

(* What a process that opens the partition now would read for child n.     *)
OnDisk(n) ==
  LET found == {pos \in Children : disk[pos].name = n}
  IN  IF found = {} THEN Zero ELSE disk[CHOOSE pos \in found : TRUE]

(* What is read of child n, with the inode of the file and its own:        *)
(* nothing unless they tell of it.                                         *)
Read(parent, n, ino) ==
  IF Kind(n) \subseteq parent.has /\ Format(n) \subseteq ino.has
  THEN Pread(ino) ELSE <<>>

(* The test of shfs_aux_pread and shfs_write, with restarts, other files   *)
(* and other processes: what the last call left is read back, by a process *)
(* that opens the partition now, and by every process that has the inode,  *)
(* knows of the data and can read its blocks.  A crash of the first write  *)
(* of a child leaves it empty; a call that fails or crashes half way does  *)
(* not touch other children.                                               *)
ReadBack ==
  harm = {} => \A n \in Names :
    stored[n].known = "yes" /\ ~InCall(n) =>
      /\ Read(disk[ParentPos], n, OnDisk(n)) = stored[n].data
      /\ \A p \in Procs :
           LET ino == proc[p].ino[n]
           IN  /\ ino # Zero /\ Kind(n) \subseteq proc[p].parent.has
               /\ \A q \in Members(ino.fpos) : Readable(p, q)
               => Read(proc[p].parent, n, ino) = stored[n].data

(* Chains end, no block is in two of them, and a chain leads only to data  *)
(* blocks: to a free block only while its child is written, or when a call *)
(* on it crashed, failed or truncated it (shfs_aux_pwrite writes a block   *)
(* before the block it refers to).                                         *)
ChainsSound ==
  harm = {} =>
    LET heads  == [n \in Listed |-> OnDisk(n).fpos]
        blocks == [n \in Listed |-> Members(heads[n])]
    IN  /\ ~Endless(disk[ParentPos].fpos)
        /\ \A n \in DOMAIN heads :
             /\ ~Endless(heads[n])
             /\ \A q \in blocks[n] :
                  \/ disk[q].type = "AUX"
                  \/ disk[q].type = "NULL" /\ (InCall(n) \/ stored[n].torn)
             /\ \A m \in DOMAIN heads \ {n} : blocks[n] \cap blocks[m] = {}

(* A child that shfs_link has linked is found by every later search, also  *)
(* after a crash: the child is written before the parent refers to it.     *)
NamesKept == harm = {} => {n \in Names : stored[n].linked} \subseteq Listed

(* A map is not renewed when another process grows the journal, and a      *)
(* store does not test it, but every block that a process is about to      *)
(* write is in its map.                                                    *)
Target(p) ==
  LET r == proc[p]
  IN  CASE r.pc \in {"child", "store"} -> r.cur.pos
        [] r.pc \in {"inode", "clearinode", "resize"} -> r.ino[r.name].pos
        [] OTHER -> ParentPos

StoresMapped ==
  \A p \in Procs :
    proc[p].pc \in {"child", "store", "inode", "clearinode", "resize", "parent", "save"}
      => Readable(p, Target(p))
=============================================================================
