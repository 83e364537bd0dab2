----------------------------- MODULE ShFsProofs -----------------------------
(***************************************************************************)
(* Theorems about ShFs, for any number of processes, children, journals    *)
(* and blocks.                                                             *)
(***************************************************************************)
EXTENDS ShFs, Integers, TLAPS, WellFoundedInduction, FiniteSetTheorems, SequenceTheorems

-----------------------------------------------------------------------------
(* Natural numbers.                                                        *)

(* A non-empty set of natural numbers has a least element.                 *)
LEMMA LeastNat ==
  ASSUME NEW T, T \subseteq Nat, T # {}
  PROVE  \E d \in T : \A e \in T : d <= e
<1>1. PICK d \in T : \A e \in T : ~(<<e, d>> \in OpToRel(<, Nat))
  BY NatLessThanWellFounded, WFMin
<1>2. \A x, y \in Nat : x < y => <<x, y>> \in OpToRel(<, Nat)
  BY DEF OpToRel
<1>3. \A e \in T : ~(e < d)
  BY <1>1, <1>2
<1>4. QED
  BY <1>3

(* A set of numbers below a bound has a greatest element: the block that   *)
(* a scan takes exists.                                                    *)
LEMMA HighestIsIn ==
  ASSUME NEW max \in Nat, NEW S, S \subseteq 1 .. (max - 1), S # {}
  PROVE  Highest(S) \in S /\ \A k \in S : k <= Highest(S)
<1> DEFINE T == {max - i : i \in S}
<1>1. T \subseteq Nat /\ T # {}
  OBVIOUS
<1>2. PICK d \in T : \A e \in T : d <= e
  BY <1>1, LeastNat
<1>3. PICK i \in S : d = max - i
  BY <1>2
<1>4. \A k \in S : max - i <= max - k
  BY <1>2, <1>3
<1>5. \A k \in S : k <= i
  BY <1>4
<1> QED
  BY <1>3, <1>5 DEF Highest

(* The whole pages of a file that has at least i blocks, a number of whole *)
(* pages, have them.                                                       *)
LEMMA WholePages ==
  ASSUME NEW b \in Nat \ {0}, NEW i \in Nat, i % b = 0, NEW x \in Nat, i <= x
  PROVE  x - (x % b) \in Nat /\ i <= x - (x % b) /\ x - (x % b) <= x
<1> DEFINE q == x \div b
           k == i \div b
<1>1. /\ x % b \in 0 .. (b - 1) /\ q \in Int /\ k \in Int
      /\ x = b * q + (x % b) /\ i = b * k + (i % b)
  BY Z3
<1>2. i = b * k
  BY <1>1
<1> HIDE DEF q, k
<1>3. k <= q
  <2> SUFFICES ASSUME q + 1 <= k PROVE FALSE
    BY <1>1
  <2>1. b * (q + 1) <= b * k
    BY <1>1
  <2>2. b * (q + 1) = b * q + b
    BY <1>1
  <2> QED
    BY <1>1, <1>2, <2>1, <2>2
<1>4. b * k <= b * q
  BY <1>1, <1>3
<1> QED
  BY <1>1, <1>2, <1>4

(* A set of numbers that has 0 and the successor of each number in it has  *)
(* every number.                                                           *)
LEMMA Induction ==
  ASSUME NEW T, 0 \in T, \A k \in Nat : k \in T => k + 1 \in T
  PROVE  \A k \in Nat : k \in T
<1> DEFINE U == Nat \ T
<1> SUFFICES ASSUME U # {} PROVE FALSE
  OBVIOUS
<1>1. PICK d \in U : \A e \in U : d <= e
  BY LeastNat
<1>2. d # 0 /\ d - 1 \in Nat /\ (d - 1) + 1 = d
  BY <1>1
<1>3. d - 1 \in T
  BY <1>1, <1>2
<1> QED
  BY <1>2, <1>3, <1>1

-----------------------------------------------------------------------------
(* Iteration of a function, the form of the recursion in Chain.            *)

Iterates(f, a, g, N) == f = [k \in 0 .. N |-> IF k = 0 THEN a ELSE g[f[k - 1]]]

Iterate(a, g, N) == CHOOSE f : Iterates(f, a, g, N)

LEMMA IterateIs ==
  ASSUME NEW a, NEW g, NEW N \in Nat
  PROVE  Iterates(Iterate(a, g, N), a, g, N)
<1> DEFINE T == {m \in Nat : \E f : Iterates(f, a, g, m)}
<1>1. 0 \in T
  <2> DEFINE f == [k \in 0 .. 0 |-> a]
  <2>1. Iterates(f, a, g, 0)
    BY DEF Iterates
  <2> QED
    BY <2>1
<1>2. ASSUME NEW m \in Nat, m \in T PROVE m + 1 \in T
  <2>1. PICK f : Iterates(f, a, g, m)
    BY <1>2
  <2> DEFINE h == [k \in 0 .. (m + 1) |-> IF k = m + 1 THEN g[f[m]] ELSE f[k]]
  <2>2. f = [k \in 0 .. m |-> IF k = 0 THEN a ELSE g[f[k - 1]]]
    BY <2>1 DEF Iterates
  <2>3. \A k \in 0 .. (m + 1) : h[k] = IF k = 0 THEN a ELSE g[h[k - 1]]
    BY <2>2
  <2>4. h = [k \in 0 .. (m + 1) |-> IF k = 0 THEN a ELSE g[h[k - 1]]]
    BY <2>3
  <2>5. Iterates(h, a, g, m + 1)
    BY <2>4 DEF Iterates
  <2> QED
    BY <2>5
<1>3. \A k \in Nat : k \in T
  <2> HIDE DEF T
  <2> QED
    BY <1>1, <1>2, Induction
<1>4. \E f : Iterates(f, a, g, N)
  BY <1>3
<1> QED
  BY <1>4 DEF Iterate

(* What holds at first and is kept by each turn holds after all turns.     *)
LEMMA IterateIn ==
  ASSUME NEW a, NEW g, NEW N \in Nat, NEW S, a \in S, \A x \in S : g[x] \in S
  PROVE  Iterate(a, g, N)[N] \in S
<1> DEFINE f == Iterate(a, g, N)
           T == {k \in Nat : k <= N => f[k] \in S}
<1>1. f = [k \in 0 .. N |-> IF k = 0 THEN a ELSE g[f[k - 1]]]
  BY IterateIs DEF Iterates
<1> HIDE DEF f
<1>2. f[0] = a /\ \A k \in 1 .. N : f[k] = g[f[k - 1]]
  BY <1>1
<1>3. 0 \in T
  BY <1>2
<1>4. ASSUME NEW k \in Nat, k \in T PROVE k + 1 \in T
  <2> SUFFICES ASSUME k + 1 <= N PROVE f[k + 1] \in S
    OBVIOUS
  <2>1. f[k] \in S /\ f[k + 1] = g[f[(k + 1) - 1]] /\ (k + 1) - 1 = k
    BY <1>2, <1>4
  <2> QED
    BY <2>1
<1>5. \A k \in Nat : k \in T
  <2> HIDE DEF T
  <2> QED
    BY <1>3, <1>4, Induction
<1> QED
  BY <1>5 DEF f

-----------------------------------------------------------------------------
(* Positions and blocks.                                                   *)

(* The positions that a scan may return: all but that of the file's inode. *)
Others == Positions \ {ParentPos}

Links == Others \union {None}

Block ==
  [type : {"NULL", "AUX", "CHILD", "FILE"}, name : Names \union {NoName},
   home : 0 .. JOURNALS, pos : Positions \union {None}, npos : Links, fpos : Links,
   size : Nat, has : SUBSET {"BINARY", "CRED", "ACCESS"}, raw : [call : Nat, k : Nat]]

(* A block that is in use, at a place that the file fs has.                *)
Used(b, fs) ==
  /\ b \in Block /\ b.type # "NULL" /\ b.home \in Journals
  /\ b.pos \in Others /\ b.pos.ino < fs[b.pos.jno]

(* What a process may have read from a block.                              *)
Copy(b, fs) == b = Zero \/ Used(b, fs)

LEMMA PositionFacts ==
  /\ None \notin Positions /\ ParentPos \in Positions
  /\ Others \subseteq Positions /\ ParentPos \notin Others /\ None \in Links
  /\ None.jno \notin Journals
  /\ \A pos \in Positions : pos.jno \in Journals /\ pos.ino \in Nat
  /\ \A pos \in Positions : pos.ino < MAX_BLOCK
  /\ \A n \in Earlier : EarlierPos(n) \in Others
<1>1. /\ JOURNALS \in Nat \ {0} /\ INIT_BLOCKS \in Nat \ {0, 1} /\ MAX_BLOCK \in Nat
      /\ INIT_BLOCKS <= MAX_BLOCK /\ Home \in [Names -> 1 .. JOURNALS] /\ Earlier \subseteq Names
      /\ \A n \in Earlier : Home[n] # 1
  BY FsAssumption
<1>2. \A j, i : At(j, i).jno = j /\ At(j, i).ino = i
  BY DEF At
<1>3. \A pos \in Positions :
        /\ pos.jno \in Journals /\ pos.ino \in 1 .. (MAX_BLOCK - 1)
  BY <1>2 DEF Positions
<1>4. \A j \in Journals, i \in 1 .. (MAX_BLOCK - 1) : At(j, i) \in Positions
  BY DEF Positions
<1>5. None \notin Positions /\ None.jno \notin Journals
  BY <1>1, <1>2, <1>3 DEF None, Journals
<1>6. ParentPos \in Positions
  BY <1>1, <1>4 DEF ParentPos, Journals
<1>7. ASSUME NEW n \in Earlier PROVE EarlierPos(n) \in Others
  <2>1. Home[n] \in Journals /\ Home[n] # 1
    BY <1>1 DEF Journals
  <2>2. EarlierPos(n) \in Positions
    BY <1>1, <1>4, <2>1 DEF EarlierPos
  <2>3. EarlierPos(n).jno # ParentPos.jno
    BY <1>2, <2>1 DEF EarlierPos, ParentPos
  <2> QED
    BY <2>2, <2>3 DEF Others
<1> QED
  BY <1>1, <1>3, <1>5, <1>6, <1>7 DEF Others, Links

LEMMA ZeroFacts ==
  /\ Zero \in Block /\ Zero.type = "NULL" /\ Zero.name = NoName
  /\ Zero.pos = None /\ Zero.npos = None /\ Zero.fpos = None /\ Zero.size = 0
  /\ Blank \in [call : Nat, k : Nat]
<1>1. Blank \in [call : Nat, k : Nat]
  BY DEF Blank, Unit
<1>2. JOURNALS \in Nat
  BY FsAssumption
<1>3. None \in Links
  BY PositionFacts
<1> QED
  BY <1>1, <1>2, <1>3 DEF Zero, Block

LEMMA PositionsFinite == IsFiniteSet(Positions) /\ MaxChain \in Nat
<1>1. IsFiniteSet(Journals) /\ IsFiniteSet(1 .. (MAX_BLOCK - 1))
  BY FS_Interval, FsAssumption DEF Journals
<1>2. IsFiniteSet(Journals \X (1 .. (MAX_BLOCK - 1)))
  BY <1>1, FS_Product
<1> DEFINE f == [x \in Journals \X (1 .. (MAX_BLOCK - 1)) |-> At(x[1], x[2])]
<1>3. f \in Surjection(Journals \X (1 .. (MAX_BLOCK - 1)), Positions)
  <2>1. \A x \in Journals \X (1 .. (MAX_BLOCK - 1)) : f[x] \in Positions
    BY DEF Positions
  <2>2. ASSUME NEW pos \in Positions
        PROVE  \E x \in Journals \X (1 .. (MAX_BLOCK - 1)) : f[x] = pos
    <3>1. PICK j \in Journals, i \in 1 .. (MAX_BLOCK - 1) : pos = At(j, i)
      BY DEF Positions
    <3>2. f[<<j, i>>] = pos
      BY <3>1
    <3> QED
      BY <3>2
  <2> QED
    BY <2>1, <2>2 DEF Surjection
<1>4. IsFiniteSet(Positions)
  BY <1>2, <1>3, FS_Surjection
<1> QED
  BY <1>4, FS_CardinalityType DEF MaxChain

-----------------------------------------------------------------------------
(* Chains.                                                                 *)

(* One more block of a chain on the disk d.                                *)
Follow(d) ==
  [c \in Seq(Positions) |->
     IF c = <<>> \/ d[c[Len(c)]].npos = None
     THEN c ELSE Append(c, d[c[Len(c)]].npos)]

Start(pos) == IF pos = None THEN <<>> ELSE <<pos>>

ChainOf(d, pos) == Iterate(Start(pos), Follow(d), MaxChain)[MaxChain]

LEMMA ChainNow == \A pos : Chain(pos) = ChainOf(disk, pos)
BY Zenon DEF Chain, ChainOf, Iterate, Iterates, Start, Follow

(* X is closed under the links of d.                                       *)
ClosedIn(d, X) == \A q \in X : d[q].npos \in X \union {None}

(* A chain stays in a set of blocks that is closed under the links.        *)
LEMMA ChainIn ==
  ASSUME NEW d, NEW X, X \subseteq Positions, ClosedIn(d, X), NEW pos \in X \union {None}
  PROVE  ChainOf(d, pos) \in Seq(X)
<1>1. Start(pos) \in Seq(X)
  BY DEF Start
<1>2. ASSUME NEW c \in Seq(X) PROVE Follow(d)[c] \in Seq(X)
  <2>1. c \in Seq(Positions)
    BY X \subseteq Positions
  <2>2. Follow(d)[c] = IF c = <<>> \/ d[c[Len(c)]].npos = None
                       THEN c ELSE Append(c, d[c[Len(c)]].npos)
    BY <2>1 DEF Follow
  <2>3. ASSUME c # <<>>, d[c[Len(c)]].npos # None
        PROVE  Append(c, d[c[Len(c)]].npos) \in Seq(X)
    <3>1. c[Len(c)] \in X
      BY <2>3
    <3>2. d[c[Len(c)]].npos \in X
      BY <3>1, <2>3 DEF ClosedIn
    <3> QED
      BY <3>2
  <2> QED
    BY <2>2, <2>3
<1> HIDE DEF Follow
<1>3. Iterate(Start(pos), Follow(d), MaxChain)[MaxChain] \in Seq(X)
  BY <1>1, <1>2, PositionsFinite, IterateIn
<1> QED
  BY <1>3 DEF ChainOf

-----------------------------------------------------------------------------
(* The shape of the state.                                                 *)

(* The blocks on the disk d of files fs.                                   *)
Formed(d, fs) ==
  /\ d \in [Positions -> Block]
  /\ d[ParentPos].type = "FILE" /\ d[ParentPos].pos = ParentPos
  /\ ParentPos.ino < fs[ParentPos.jno]
  /\ \A pos \in Others : d[pos] = Zero \/ (Used(d[pos], fs) /\ d[pos].pos = pos)

Pcs ==
  {"closed", "idle", "slot", "child", "parent", "save", "first", "next", "store",
   "inode", "clear", "follow", "clearinode", "cut", "resize"}

Process ==
  [pc : Pcs, parent : Block, ino : [Names -> Block], map : [Journals -> Nat],
   fill : Nat, name : Names \union {NoName}, data : Seq([call : Nat, k : Nat]),
   of : Nat, cur : Block, dirty : BOOLEAN, next : Block, idx : Links]

(* The map m of a process has the block b.                                 *)
InMap(m, b) == b.pos # None => b.pos.ino < m[b.pos.jno]

(* The maps of a process do not pass the end of the files, and have the    *)
(* blocks that it may write.                                               *)
Fits(r, fs) ==
  /\ \A j \in Journals : r.map[j] <= fs[j]
  /\ \A n \in Names : InMap(r.map, r.ino[n])
  /\ InMap(r.map, r.cur) /\ InMap(r.map, r.next)
  /\ r.pc # "closed" => InMap(r.map, r.parent)

(* ScanOf, of the process r.                                               *)
ScanAt(r) ==
  CASE r.pc = "slot" -> Home[r.name]
    [] r.pc = "first" /\ r.ino[r.name].fpos = None -> Home[r.name]
    [] r.pc = "next" /\ Makes(r) -> r.cur.home
    [] OTHER -> 0

(* A process that grows a file writes after the blocks of a new file.      *)
Fills(r) == r.fill # 0 => INIT_BLOCKS <= r.fill /\ ScanAt(r) \in Journals

(* What a process relies on: its copy of the file's inode is that inode,   *)
(* the child it works on exists, and it has a block to write when it is    *)
(* about to write one.                                                     *)
Running(r, fs) ==
  /\ r \in Process
  /\ \A n \in Names : Copy(r.ino[n], fs)
  /\ IF r.pc = "slot" THEN r.cur = [Child(r.name) EXCEPT !.npos = r.cur.npos]
                      ELSE Copy(r.cur, fs)
  /\ Copy(r.next, fs)
  /\ IF r.pc = "closed" THEN r = Closed
                        ELSE r.parent.type = "FILE" /\ r.parent.pos = ParentPos
  /\ r.pc \notin {"closed", "idle"} => r.name \in Names
  /\ r.pc \in {"child", "parent", "next", "store"} => r.cur # Zero
  /\ r.pc \in {"first", "next", "store", "inode", "clear", "follow", "clearinode",
               "cut", "resize"}
       => r.ino[r.name] # Zero
  /\ r.pc \in {"clear", "cut"} => r.idx # None
  /\ Fits(r, fs) /\ Fills(r)

Harms ==
  {"own", "slot", "reuse", "loose", "clear", "stale", "wiped", "shared", "past"}

Shaped ==
  /\ fsize \in [Journals -> Nat]
  /\ \A j \in Journals : INIT_BLOCKS <= fsize[j]
  /\ Formed(disk, fsize)
  /\ proc \in [Procs -> Process]
  /\ \A p \in Procs : Running(proc[p], fsize)
  /\ harm \subseteq Harms
  /\ calls \in 0 .. MaxCalls /\ restarts \in 0 .. MaxRestarts

(* No journal of fs is shorter than in old.                                *)
Longer(fs, old) ==
  /\ fs \in [Journals -> Nat] /\ old \in [Journals -> Nat]
  /\ \A j \in Journals : old[j] <= fs[j]

LEMMA LongerKeeps ==
  ASSUME NEW fs, NEW old, Longer(fs, old)
  PROVE  /\ \A b : Used(b, old) => Used(b, fs)
         /\ \A b : Copy(b, old) => Copy(b, fs)
         /\ \A d : Formed(d, old) => Formed(d, fs)
         /\ \A r : Running(r, old) => Running(r, fs)
<1>1. ASSUME NEW b, Used(b, old) PROVE Used(b, fs)
  <2>1. b.pos \in Positions
    BY <1>1 DEF Used, Others
  <2>2. b.pos.jno \in Journals /\ b.pos.ino \in Nat
    BY <2>1, PositionFacts
  <2>3. old[b.pos.jno] <= fs[b.pos.jno] /\ b.pos.ino < old[b.pos.jno]
        /\ old[b.pos.jno] \in Nat /\ fs[b.pos.jno] \in Nat
    BY <1>1, <2>2 DEF Longer, Used
  <2>4. b.pos.ino < fs[b.pos.jno]
    BY <2>2, <2>3
  <2> QED
    BY <1>1, <2>4 DEF Used
<1>2. \A b : Copy(b, old) => Copy(b, fs)
  BY <1>1 DEF Copy
<1>3. \A d : Formed(d, old) => Formed(d, fs)
  <2>1. ParentPos.ino < old[ParentPos.jno] => ParentPos.ino < fs[ParentPos.jno]
    BY PositionFacts DEF Longer
  <2> QED
    BY <1>1, <2>1, Zenon DEF Formed
<1>4. ASSUME NEW r, Running(r, old) PROVE Running(r, fs)
  <2>1. Fits(r, fs)
    <3>1. r \in Process /\ Fits(r, old)
      BY <1>4 DEF Running
    <3>2. r.map \in [Journals -> Nat]
      BY <3>1 DEF Process
    <3>3. \A j \in Journals : r.map[j] <= old[j] /\ old[j] <= fs[j]
      BY <3>1 DEF Fits, Longer
    <3>4. \A j \in Journals : r.map[j] <= fs[j]
      BY <3>2, <3>3 DEF Longer
    <3> QED
      BY <3>1, <3>4, Zenon DEF Fits
  <2> QED
    BY <1>2, <1>4, <2>1, Zenon DEF Running
<1> QED
  BY <1>1, <1>2, <1>3, <1>4, Zenon
(* A step of process p that leaves it as r and the disk as d.              *)
LEMMA ShapedStep ==
  ASSUME Shaped, NEW p \in Procs, NEW r, NEW d, NEW fs,
         proc' = [proc EXCEPT ![p] = r], disk' = d, fsize' = fs,
         Longer(fs, fsize), Running(r, fs), Formed(d, fs),
         harm' \subseteq Harms, calls' \in 0 .. MaxCalls, restarts' \in 0 .. MaxRestarts
  PROVE  Shaped'
<1>1. fs \in [Journals -> Nat]
  BY DEF Longer
<1>2. r \in Process
  BY DEF Running
<1>3. proc' \in [Procs -> Process]
  BY <1>2 DEF Shaped
<1>4. ASSUME NEW q \in Procs PROVE Running(proc'[q], fs)
  <2>1. Running(proc[q], fs)
    BY LongerKeeps DEF Shaped
  <2>2. proc'[q] = IF q = p THEN r ELSE proc[q]
    BY DEF Shaped
  <2> QED
    BY <2>1, <2>2
<1>5. \A j \in Journals : INIT_BLOCKS <= fs[j]
  BY FsAssumption DEF Longer, Shaped
<1> QED
  BY <1>1, <1>3, <1>4, <1>5, Zenon DEF Shaped

LEMMA SameLength == ASSUME Shaped PROVE Longer(fsize, fsize)
BY DEF Shaped, Longer

-----------------------------------------------------------------------------
(* Reading and writing blocks.                                             *)

LEMMA CopyFacts ==
  ASSUME NEW fs, NEW b, Copy(b, fs)
  PROVE  /\ b \in Block /\ b.npos \in Links /\ b.fpos \in Links /\ b.pos \in Links
         /\ b # Zero => Used(b, fs)
         /\ b = Zero <=> b.pos = None
         /\ b = Zero <=> b.type = "NULL"
<1>1. CASE b = Zero
  BY <1>1, ZeroFacts, PositionFacts
<1>2. CASE Used(b, fs)
  BY <1>2, ZeroFacts, PositionFacts DEF Used, Block, Others, Links
<1> QED
  BY <1>1, <1>2 DEF Copy

(* A block other than the file's inode is read.                            *)
LEMMA ReadCopy ==
  ASSUME NEW d, NEW fs, Formed(d, fs), NEW pos \in Others
  PROVE  /\ Copy(d[pos], fs)
         /\ d[pos].pos = None \/ d[pos].pos = pos
         /\ d[pos] # Zero => d[pos].pos = pos
<1>1. d[pos] = Zero \/ (Used(d[pos], fs) /\ d[pos].pos = pos)
  BY DEF Formed
<1> QED
  BY <1>1, ZeroFacts DEF Copy

LEMMA WriteBlock ==
  ASSUME NEW d, NEW fs, Formed(d, fs), NEW b, Used(b, fs)
  PROVE  Formed([d EXCEPT ![b.pos] = b], fs)
<1>1. b \in Block /\ b.pos \in Positions /\ b.pos # ParentPos
  BY DEF Used, Others
<1>2. d \in [Positions -> Block] /\ ParentPos \in Positions
  BY PositionFacts DEF Formed
<1>3. [d EXCEPT ![b.pos] = b] \in [Positions -> Block]
  BY <1>1, <1>2
<1>4. \A pos \in Positions : [d EXCEPT ![b.pos] = b][pos] = IF pos = b.pos THEN b ELSE d[pos]
  BY <1>1, <1>2
<1> QED
  BY <1>1, <1>2, <1>3, <1>4 DEF Formed, Others

LEMMA WriteZero ==
  ASSUME NEW d, NEW fs, Formed(d, fs), NEW q \in Others
  PROVE  Formed([d EXCEPT ![q] = Zero], fs)
<1>1. Zero \in Block /\ q \in Positions /\ q # ParentPos
  BY ZeroFacts DEF Others
<1>2. d \in [Positions -> Block] /\ ParentPos \in Positions
  BY PositionFacts DEF Formed
<1>3. [d EXCEPT ![q] = Zero] \in [Positions -> Block]
  BY <1>1, <1>2
<1>4. \A pos \in Positions : [d EXCEPT ![q] = Zero][pos] = IF pos = q THEN Zero ELSE d[pos]
  BY <1>1, <1>2
<1> QED
  BY <1>1, <1>2, <1>3, <1>4 DEF Formed, Others

LEMMA WriteFile ==
  ASSUME NEW d, NEW fs, Formed(d, fs), NEW b \in Block, b.type = "FILE", b.pos = ParentPos
  PROVE  Formed([d EXCEPT ![ParentPos] = b], fs)
<1>1. d \in [Positions -> Block] /\ ParentPos \in Positions
  BY PositionFacts DEF Formed
<1>2. [d EXCEPT ![ParentPos] = b] \in [Positions -> Block]
  BY <1>1
<1>3. \A pos \in Positions :
        [d EXCEPT ![ParentPos] = b][pos] = IF pos = ParentPos THEN b ELSE d[pos]
  BY <1>1
<1> QED
  BY <1>1, <1>2, <1>3 DEF Formed, Others

-----------------------------------------------------------------------------
(* Journals.                                                               *)

(* The map m of process r reaches at least as far as before, and not past  *)
(* the files.                                                              *)
Wider(m, r, fs) ==
  /\ m \in [Journals -> Nat]
  /\ \A j \in Journals : r.map[j] <= m[j] /\ m[j] <= fs[j]

LEMMA MapTypes ==
  ASSUME Shaped, NEW p \in Procs
  PROVE  /\ proc[p].map \in [Journals -> Nat]
         /\ \A j \in Journals :
              /\ Mapped(p, j) \in Nat /\ 0 < Mapped(p, j)
              /\ proc[p].map[j] <= Mapped(p, j) /\ Mapped(p, j) <= fsize[j]
              /\ proc[p].map[j] = 0 => INIT_BLOCKS <= Mapped(p, j)
         /\ \A J : Wider(Use(p, J), proc[p], fsize)
         /\ \A J : \A j \in J \cap Journals : Use(p, J)[j] = Mapped(p, j)
<1>1. proc[p].map \in [Journals -> Nat] /\ fsize \in [Journals -> Nat]
  BY DEF Shaped, Process
<1>2. \A j \in Journals : proc[p].map[j] <= fsize[j] /\ INIT_BLOCKS <= fsize[j]
  BY DEF Shaped, Running, Fits
<1>3. ASSUME NEW j \in Journals
      PROVE  /\ Mapped(p, j) \in Nat /\ 0 < Mapped(p, j)
             /\ proc[p].map[j] <= Mapped(p, j) /\ Mapped(p, j) <= fsize[j]
             /\ proc[p].map[j] = 0 => INIT_BLOCKS <= Mapped(p, j)
  <2>1. CASE proc[p].map[j] = 0
    <3>1. /\ PAGE_BLOCKS \in Nat \ {0} /\ INIT_BLOCKS \in Nat \ {0}
          /\ INIT_BLOCKS % PAGE_BLOCKS = 0
      BY FsAssumption
    <3>2. fsize[j] \in Nat /\ INIT_BLOCKS <= fsize[j]
      BY <1>1, <1>2
    <3>3. Mapped(p, j) = fsize[j] - (fsize[j] % PAGE_BLOCKS)
      BY <2>1 DEF Mapped
    <3>4. /\ Mapped(p, j) \in Nat /\ INIT_BLOCKS <= Mapped(p, j)
          /\ Mapped(p, j) <= fsize[j]
      BY <3>1, <3>2, <3>3, WholePages
    <3> QED
      BY <2>1, <3>1, <3>4
  <2>2. CASE proc[p].map[j] # 0
    BY <1>1, <1>2, <2>2 DEF Mapped
  <2> QED
    BY <2>1, <2>2
<1>4. ASSUME NEW J PROVE Wider(Use(p, J), proc[p], fsize)
  <2>1. \A j \in Journals :
          Use(p, J)[j] = IF j \in J THEN Mapped(p, j) ELSE proc[p].map[j]
    BY DEF Use
  <2>2. Use(p, J) \in [Journals -> Nat]
    BY <1>1, <1>3 DEF Use
  <2>3. \A j \in Journals : proc[p].map[j] <= Use(p, J)[j] /\ Use(p, J)[j] <= fsize[j]
    BY <1>1, <1>2, <1>3, <2>1
  <2> QED
    BY <2>2, <2>3 DEF Wider
<1>5. \A J : \A j \in J \cap Journals : Use(p, J)[j] = Mapped(p, j)
  BY DEF Use
<1> QED
  BY <1>1, <1>3, <1>4, <1>5

(* A scan returns a free block of the journal, or none.                    *)
LEMMA ScanFinds ==
  ASSUME Shaped, NEW p \in Procs, NEW j \in Journals, Scan(p, j) # None
  PROVE  /\ Scan(p, j) \in Others
         /\ Scan(p, j).jno = j
         /\ Scan(p, j).ino < Mapped(p, j)
         /\ Scan(p, j).ino < fsize[Scan(p, j).jno]
         /\ Readable(p, Scan(p, j))
         /\ disk[Scan(p, j)] = Zero
<1> DEFINE max == Mapped(p, j)
           F == FreeBelow(j, max)
           i == Highest(F)
<1>1. ~(max > MAX_BLOCK) /\ F # {} /\ Scan(p, j) = At(j, i)
  BY DEF Scan
<1>2. max \in Nat /\ MAX_BLOCK \in Nat /\ max <= fsize[j] /\ fsize[j] \in Nat
  BY MapTypes, FsAssumption DEF Shaped
<1>3. F \subseteq 1 .. (max - 1) /\ \A k \in F : disk[At(j, k)].type = "NULL"
  BY DEF FreeBelow
<1> HIDE DEF F, max
<1>4. i \in F
  BY <1>1, <1>2, <1>3, HighestIsIn
<1> HIDE DEF i
<1>5. i \in 1 .. (MAX_BLOCK - 1) /\ i < max /\ i \in Nat
  <2>1. i \in 1 .. (max - 1) /\ max <= MAX_BLOCK
    BY <1>1, <1>2, <1>3, <1>4
  <2> QED
    BY <2>1, <1>2
<1>6. At(j, i) \in Positions
  BY <1>5 DEF Positions
<1>7. disk[At(j, i)].type = "NULL"
  BY <1>3, <1>4
<1>8. At(j, i) # ParentPos
  BY <1>7 DEF Shaped, Formed
<1>9. At(j, i) \in Others
  BY <1>6, <1>8 DEF Others
<1>10. disk[At(j, i)] = Zero
  BY <1>7, <1>9, ReadCopy, CopyFacts DEF Shaped
<1>11. At(j, i).jno = j /\ At(j, i).ino = i
  BY DEF At
<1>12. i < fsize[j] /\ i < MAX_BLOCK
  BY <1>2, <1>5
<1>13. Readable(p, At(j, i))
  BY <1>5, <1>11, <1>12 DEF Readable, max
<1> QED
  BY <1>1, <1>5, <1>9, <1>10, <1>11, <1>12, <1>13 DEF max

(* A block that is read, or found free, is in the map.                     *)
LEMMA ReadMapped ==
  ASSUME Shaped, NEW p \in Procs, NEW pos \in Others, Readable(p, pos),
         NEW J, pos.jno \in J, NEW b, b.pos \in {pos, None}
  PROVE  InMap(Use(p, J), b)
<1>1. pos.jno \in Journals /\ pos.ino < Mapped(p, pos.jno)
  BY PositionFacts DEF Readable, Others
<1>2. Use(p, J)[pos.jno] = Mapped(p, pos.jno)
  BY <1>1, MapTypes
<1> QED
  BY <1>1, <1>2 DEF InMap

LEMMA InMapWider ==
  ASSUME NEW fs, NEW r, r \in Process, NEW m, Wider(m, r, fs), NEW b \in Block, InMap(r.map, b)
  PROVE  InMap(m, b)
<1>1. b.pos # None => b.pos.jno \in Journals /\ b.pos.ino \in Nat
  BY PositionFacts DEF Block
<1>2. r.map \in [Journals -> Nat] /\ m \in [Journals -> Nat]
  BY DEF Process, Wider
<1>3. \A j \in Journals : r.map[j] <= m[j] /\ r.map[j] \in Nat /\ m[j] \in Nat
  BY <1>2 DEF Wider
<1> QED
  BY <1>1, <1>3 DEF InMap

-----------------------------------------------------------------------------
(* The steps keep the shape.                                               *)

LEMMA ScanAtNow == \A p \in Procs : ScanOf(p) = ScanAt(proc[p])
BY DEF ScanOf, ScanAt

LEMMA ClosedRunning == ASSUME NEW fs \in [Journals -> Nat] PROVE Running(Closed, fs)
<1>1. Closed \in Process
  BY ZeroFacts, PositionFacts DEF Closed, Process, Pcs
<1>2. Fits(Closed, fs) /\ Fills(Closed)
  BY ZeroFacts DEF Fits, Fills, Closed, InMap
<1> QED
  BY <1>1, <1>2 DEF Running, Closed, Copy

LEMMA WiderFits ==
  ASSUME NEW fs, NEW r, r \in Process, Fits(r, fs), NEW m, Wider(m, r, fs)
  PROVE  /\ \A j \in Journals : m[j] <= fs[j]
         /\ \A n \in Names : InMap(m, r.ino[n])
         /\ InMap(m, r.cur) /\ InMap(m, r.next)
         /\ r.pc # "closed" => InMap(m, r.parent)
<1>1. /\ \A n \in Names : r.ino[n] \in Block
      /\ r.cur \in Block /\ r.next \in Block /\ r.parent \in Block
  BY DEF Process
<1> QED
  BY <1>1, InMapWider DEF Fits, Wider

LEMMA MapRunning ==
  ASSUME NEW fs, NEW r, Running(r, fs), r.pc # "closed", NEW m, Wider(m, r, fs)
  PROVE  Running([r EXCEPT !.map = m], fs)
<1>1. PICK t : t = [r EXCEPT !.map = m]
  OBVIOUS
<1>2. r \in Process /\ m \in [Journals -> Nat] /\ Fits(r, fs)
  BY DEF Running, Wider
<1>3. /\ t \in Process /\ t.map = m /\ t.pc = r.pc /\ t.name = r.name /\ t.cur = r.cur
      /\ t.next = r.next /\ t.parent = r.parent /\ t.ino = r.ino /\ t.idx = r.idx
      /\ t.fill = r.fill /\ t.of = r.of /\ t.data = r.data
  BY <1>1, <1>2 DEF Process
<1>4. Fits(t, fs)
  BY <1>2, <1>3, WiderFits, Zenon DEF Fits
<1>5. Fills(t)
  <2>1. Makes(t) = Makes(r)
    BY <1>3 DEF Makes
  <2>2. ScanAt(t) = ScanAt(r)
    BY <1>3, <2>1 DEF ScanAt
  <2> QED
    BY <1>3, <2>2 DEF Fills, Running
<1>6. Running(t, fs)
  BY <1>3, <1>4, <1>5 DEF Running
<1> QED
  BY <1>1, <1>6

LEMMA ReturnRunning ==
  ASSUME NEW fs, NEW r, Running(r, fs), r.pc # "closed"
  PROVE  Running(Return(r), fs)
<1>1. Return(r) \in Process
  <2>1. r \in Process /\ Zero \in Block /\ None \in Links /\ "idle" \in Pcs
    BY ZeroFacts, PositionFacts DEF Running, Pcs
  <2>2. <<>> \in Seq([call : Nat, k : Nat]) /\ NoName \in Names \union {NoName}
    OBVIOUS
  <2> QED
    BY <2>1, <2>2 DEF Return, Process
<1>2. Fits(Return(r), fs)
  <2>1. \A m : InMap(m, Zero)
    BY ZeroFacts DEF InMap
  <2>2. /\ Return(r).map = r.map /\ Return(r).ino = r.ino /\ Return(r).parent = r.parent
        /\ Return(r).cur = Zero /\ Return(r).next = Zero /\ Return(r).pc = "idle"
    BY DEF Return, Running, Process
  <2> QED
    BY <2>1, <2>2 DEF Running, Fits
<1>3. Fills(Return(r))
  BY DEF Fills, Return, Running, Process
<1> QED
  BY <1>1, <1>2, <1>3 DEF Running, Return, Copy, Process

LEMMA OpenShaped ==
  ASSUME Shaped, NEW p \in Procs, Open(p)
  PROVE  Shaped'
<1> DEFINE m == Use(p, {1})
           t == [proc[p] EXCEPT !.pc = "idle", !.parent = disk[ParentPos], !.map = m]
<1>1. Running(proc[p], fsize) /\ Formed(disk, fsize) /\ proc[p] \in Process
      /\ proc[p].pc = "closed" /\ proc[p] = Closed
  BY DEF Shaped, Running, Open
<1>2. Wider(m, proc[p], fsize)
  BY MapTypes
<1>3. disk[ParentPos] \in Block /\ disk[ParentPos].type = "FILE"
      /\ disk[ParentPos].pos = ParentPos
  BY <1>1, PositionFacts DEF Formed
<1>4. InMap(m, disk[ParentPos])
  <2>1. ParentPos.jno = 1 /\ ParentPos.ino = INIT_BLOCKS - 1 /\ 1 \in Journals
        /\ INIT_BLOCKS \in Nat
    BY FsAssumption DEF ParentPos, At, Journals
  <2>2. INIT_BLOCKS <= Mapped(p, 1) /\ Mapped(p, 1) \in Nat /\ m[1] = Mapped(p, 1)
    <3>1. proc[p].map[1] = 0
      BY <1>1, <2>1 DEF Closed
    <3> QED
      BY <2>1, <3>1, MapTypes
  <2>3. ParentPos.ino < m[ParentPos.jno]
    BY <2>1, <2>2
  <2> QED
    BY <1>3, <2>3 DEF InMap
<1> HIDE DEF m
<1>5. /\ t \in Process /\ t.map = m /\ t.pc = "idle" /\ t.name = NoName /\ t.cur = Zero
      /\ t.next = Zero /\ t.parent = disk[ParentPos] /\ t.ino = [n \in Names |-> Zero]
      /\ t.fill = 0
  <2>1. /\ proc[p].name = NoName /\ proc[p].cur = Zero /\ proc[p].next = Zero
        /\ proc[p].ino = [n \in Names |-> Zero] /\ proc[p].fill = 0
    BY <1>1 DEF Closed
  <2>2. m \in [Journals -> Nat] /\ "idle" \in Pcs
    BY <1>2 DEF Wider, Pcs
  <2>3. PICK r : r = proc[p]
    OBVIOUS
  <2>4. r \in Process
    BY <1>1, <2>3
  <2> QED
    BY <1>3, <2>1, <2>2, <2>3, <2>4 DEF Process
<1>6. proc' = [proc EXCEPT ![p] = t] /\ disk' = disk /\ fsize' = fsize
  BY DEF Open, m
<1>7. harm' \subseteq Harms /\ calls' \in 0 .. MaxCalls /\ restarts' \in 0 .. MaxRestarts
  BY DEF Open, Shaped
<1> HIDE DEF t
<1>8. Fits(t, fsize)
  <2>1. \A j \in Journals : m[j] <= fsize[j]
    BY <1>2 DEF Wider
  <2> QED
    BY <1>4, <1>5, <2>1, ZeroFacts DEF Fits, InMap
<1>9. Fills(t)
  BY <1>5 DEF Fills
<1>10. Running(t, fsize)
  BY <1>3, <1>5, <1>8, <1>9 DEF Running, Copy
<1> QED
  BY <1>1, <1>6, <1>7, <1>10, SameLength, ShapedStep

(* A step of a process that leaves it as t: the copies of blocks that are  *)
(* new are in its map.                                                     *)
LEMMA StepRunning ==
  ASSUME NEW fs, NEW r, Running(r, fs), r.pc # "closed",
         NEW t, t \in Process, t.pc \notin {"closed", "slot"}, t.fill = 0,
         Wider(t.map, r, fs), t.parent.type = "FILE", t.parent.pos = ParentPos,
         \A n \in Names : t.ino[n] = r.ino[n] \/ (Copy(t.ino[n], fs) /\ InMap(t.map, t.ino[n])),
         (t.cur = r.cur /\ r.pc # "slot") \/ (Copy(t.cur, fs) /\ InMap(t.map, t.cur)),
         t.next = r.next \/ (Copy(t.next, fs) /\ InMap(t.map, t.next)),
         t.pc # "idle" => t.name \in Names,
         t.pc \in {"child", "parent", "next", "store"} => t.cur # Zero,
         t.pc \in {"first", "next", "store", "inode", "clear", "follow", "clearinode",
                   "cut", "resize"} => t.ino[t.name] # Zero,
         t.pc \in {"clear", "cut"} => t.idx # None
  PROVE  Running(t, fs)
<1>1. r \in Process /\ Fits(r, fs) /\ r.parent.type = "FILE" /\ r.parent.pos = ParentPos
  BY DEF Running
<1>2. /\ \A j \in Journals : t.map[j] <= fs[j]
      /\ \A n \in Names : InMap(t.map, r.ino[n])
      /\ InMap(t.map, r.cur) /\ InMap(t.map, r.next) /\ InMap(t.map, r.parent)
  BY <1>1, WiderFits
<1>3. InMap(t.map, t.parent)
  BY <1>1, <1>2 DEF InMap
<1>4. Fits(t, fs)
  BY <1>2, <1>3 DEF Fits
<1>5. Fills(t)
  BY DEF Fills
<1>6. (\A n \in Names : Copy(t.ino[n], fs)) /\ Copy(t.cur, fs) /\ Copy(t.next, fs)
  BY DEF Running
<1> QED
  BY <1>4, <1>5, <1>6 DEF Running

(* Only a process that scans a journal grows it.                           *)
LEMMA NoFill ==
  ASSUME NEW fs, NEW r, Running(r, fs), r.pc \notin {"slot", "first", "next"}
  PROVE  r.fill = 0
<1>1. ScanAt(r) = 0
  BY DEF ScanAt
<1>2. 0 \notin Journals
  BY DEF Journals
<1> QED
  BY <1>1, <1>2 DEF Running, Fills

LEMMA SameMap ==
  ASSUME NEW fs, NEW r, Running(r, fs), fs \in [Journals -> Nat]
  PROVE  Wider(r.map, r, fs)
<1>1. r.map \in [Journals -> Nat] /\ \A j \in Journals : r.map[j] <= fs[j]
  BY DEF Running, Process, Fits
<1> QED
  BY <1>1 DEF Wider

LEMMA EndShaped ==
  ASSUME Shaped, NEW p \in Procs, Close(p) \/ Crash(p)
  PROVE  Shaped'
<1>1. /\ proc' = [proc EXCEPT ![p] = Closed] /\ disk' = disk /\ fsize' = fsize
      /\ harm' = harm /\ calls' = calls /\ restarts < MaxRestarts /\ restarts' = restarts + 1
  BY DEF Close, Crash
<1>2. harm' \subseteq Harms /\ calls' \in 0 .. MaxCalls /\ restarts' \in 0 .. MaxRestarts
  BY <1>1, FsAssumption DEF Shaped
<1>3. Formed(disk, fsize) /\ fsize \in [Journals -> Nat]
  BY DEF Shaped
<1> QED
  BY <1>1, <1>2, <1>3, ClosedRunning, SameLength, ShapedStep

(* The causes of damage that a step may add.                               *)
LEMMA HarmTypes ==
  /\ \A p, slot : Clash(p, slot) \subseteq Harms
  /\ \A p : Overwritten(p) \subseteq Harms
  /\ \A b : Lost(b) \subseteq Harms
  /\ \A p, pos : Past(p, pos) \subseteq Harms
  /\ \A p, n : Meets(p, n) \subseteq Harms
  /\ \A p, n : Outdates(p, n) \subseteq Harms
  /\ \A p, n : LinkFind(p, n).past \subseteq Harms
<1>1. \A p, pos : Past(p, pos) \subseteq Harms
  BY DEF Past, Harms
<1>2. ASSUME NEW p, NEW n PROVE LinkFind(p, n).past \subseteq Harms
  BY <1>1 DEF LinkFind
<1> QED
  BY <1>1, <1>2 DEF Clash, Overwritten, Lost, Meets, Outdates, Harms

(* A search of the children returns a block that is one of theirs, and     *)
(* that is in the map when it was read.                                    *)
LEMMA FindCopy ==
  ASSUME Shaped, NEW p \in Procs, NEW n
  PROVE  /\ Copy(LinkFind(p, n).blk, fsize)
         /\ ~LinkFind(p, n).err => InMap(Use(p, LinkFind(p, n).used), LinkFind(p, n).blk)
<1> DEFINE c == Chain(proc[p].parent.fpos)
           Bad(k) == ~Readable(p, c[k]) \/ disk[c[k]].npos = c[k]
           stops == {k \in DOMAIN c : Bad(k) \/ disk[c[k]].name = n}
           first == CHOOSE k \in stops : \A i \in stops : k <= i
           used == {k \in DOMAIN c : stops # {} => k <= first}
<1>1. proc[p].parent.fpos \in Others \union {None}
  BY DEF Shaped, Process, Block, Links
<1>2. ClosedIn(disk, Others)
  BY ReadCopy, CopyFacts DEF ClosedIn, Shaped, Links
<1>3. c \in Seq(Others)
  BY <1>1, <1>2, ChainNow, ChainIn, PositionFacts
<1>4. /\ LinkFind(p, n).blk = IF stops = {} THEN Zero ELSE disk[c[first]]
      /\ LinkFind(p, n).err = (stops # {} /\ Bad(first))
      /\ LinkFind(p, n).used = {c[k].jno : k \in used}
  BY DEF LinkFind
<1>5. CASE stops = {}
  <2>1. LinkFind(p, n).blk = Zero
    BY <1>4, <1>5
  <2> QED
    BY <2>1, ZeroFacts DEF Copy, InMap
<1>6. CASE stops # {}
  <2>1. stops \subseteq Nat /\ stops \subseteq DOMAIN c
    BY <1>3
  <2>2. first \in stops
    <3> HIDE DEF stops
    <3> QED
      BY <1>6, <2>1, LeastNat
  <2>3. first \in Nat /\ first \in DOMAIN c /\ first <= first
    <3> HIDE DEF first, stops, c
    <3> QED
      BY <2>1, <2>2
  <2>4. first \in used
    BY <2>3
  <2>5. c[first].jno \in LinkFind(p, n).used
    BY <1>4, <2>4
  <2>6. ~LinkFind(p, n).err => Readable(p, c[first])
    BY <1>4, <1>6
  <2>7. LinkFind(p, n).blk = disk[c[first]]
    BY <1>4, <1>6
  <2>8. c[first] \in Others
    <3> HIDE DEF first, c
    <3> QED
      BY <1>3, <2>3
  <2> HIDE DEF first, c
  <2>9. PICK x \in Others : x = c[first]
    BY <2>8
  <2>10. Copy(disk[x], fsize) /\ disk[x].pos \in {x, None}
    BY ReadCopy DEF Shaped
  <2>11. PICK J : J = LinkFind(p, n).used
    OBVIOUS
  <2>12. Readable(p, x) => InMap(Use(p, J), disk[x])
    BY <2>5, <2>9, <2>10, <2>11, ReadMapped
  <2> QED
    BY <2>6, <2>7, <2>9, <2>10, <2>11, <2>12
<1> QED
  BY <1>5, <1>6

LEMMA InodeFindShaped ==
  ASSUME Shaped, NEW p \in Procs, NEW n \in Names, InodeFind(p, n)
  PROVE  Shaped'
<1> DEFINE blk == LinkFind(p, n).blk
           m == Use(p, LinkFind(p, n).used)
           r == [proc[p] EXCEPT !.map = m]
           first == proc[p].parent.fpos
           npos == IF first = None THEN None ELSE disk[first].pos
           b == [Child(n) EXCEPT !.npos = npos]
<1>1. Running(proc[p], fsize) /\ Formed(disk, fsize)
  BY DEF Shaped
<1>2. Wider(m, proc[p], fsize)
  BY MapTypes
<1>3. Copy(blk, fsize) /\ blk \in Block
  BY FindCopy, CopyFacts
<1>4. proc[p].pc = "idle"
  BY DEF InodeFind, Idle
<1>5. \/ proc' = [proc EXCEPT ![p] = r]
      \/ InMap(m, blk) /\ proc' = [proc EXCEPT ![p] = [r EXCEPT !.ino[n] = blk]]
      \/ proc' = [proc EXCEPT ![p] = [r EXCEPT !.pc = "slot", !.name = n, !.cur = b]]
  BY FindCopy, Zenon DEF InodeFind
<1>6. /\ disk' = disk /\ fsize' = fsize
      /\ harm' \subseteq Harms /\ calls' \in 0 .. MaxCalls /\ restarts' \in 0 .. MaxRestarts
  BY HarmTypes DEF InodeFind, Shaped
<1>7. npos \in Links
  <2>1. first \in Links
    BY DEF Shaped, Process, Block
  <2> QED
    BY <2>1, <1>1, ReadCopy, PositionFacts DEF Links
<1> HIDE DEF blk, m, npos
<1>8. Running(r, fsize) /\ r.pc = "idle" /\ r.map = m /\ Wider(m, r, fsize)
  <2>1. Running(r, fsize)
    BY <1>1, <1>2, <1>4, MapRunning
  <2>2. r.pc = "idle" /\ r.map = m
    BY <1>1, <1>4 DEF Running, Process
  <2>3. m \in [Journals -> Nat] /\ \A j \in Journals : m[j] <= fsize[j] /\ m[j] <= m[j]
    BY <1>2 DEF Wider
  <2> QED
    BY <2>1, <2>2, <2>3 DEF Wider
<1> HIDE DEF r
<1>9. ASSUME InMap(m, blk) PROVE Running([r EXCEPT !.ino[n] = blk], fsize)
  <2>1. PICK t : t = [r EXCEPT !.ino[n] = blk]
    OBVIOUS
  <2>2. /\ t \in Process /\ t.map = r.map /\ t.pc = "idle" /\ t.name = r.name /\ t.cur = r.cur
        /\ t.next = r.next /\ t.parent = r.parent /\ t.fill = r.fill
        /\ \A k \in Names : t.ino[k] = IF k = n THEN blk ELSE r.ino[k]
    BY <1>3, <1>8, <2>1 DEF Running, Process
  <2>3. r.fill = 0
    BY <1>8, NoFill
  <2>4. t.parent.type = "FILE" /\ t.parent.pos = ParentPos
    BY <1>8, <2>2 DEF Running
  <2>5. Running(t, fsize)
    BY <1>3, <1>8, <1>9, <2>2, <2>3, <2>4, StepRunning
  <2> QED
    BY <2>1, <2>5
<1>10. Running([r EXCEPT !.pc = "slot", !.name = n, !.cur = b], fsize)
  <2>1. b \in Block /\ b.pos = None /\ b = [Child(n) EXCEPT !.npos = b.npos]
    <3>1. Home[n] \in 0 .. JOURNALS /\ Zero \in Block
      BY FsAssumption, ZeroFacts
    <3> QED
      BY <1>7, <3>1 DEF Child, Block, Zero
  <2> HIDE DEF b
  <2>2. PICK t : t = [r EXCEPT !.pc = "slot", !.name = n, !.cur = b]
    OBVIOUS
  <2>3. /\ t \in Process /\ t.map = r.map /\ t.pc = "slot" /\ t.name = n /\ t.cur = b
        /\ t.next = r.next /\ t.parent = r.parent /\ t.ino = r.ino /\ t.fill = r.fill
    BY <1>8, <2>1, <2>2 DEF Running, Process, Pcs
  <2>4. r.fill = 0
    BY <1>8, NoFill
  <2>5. Fits(t, fsize)
    BY <1>8, <2>1, <2>3 DEF Running, Fits, InMap
  <2>6. Running(t, fsize)
    BY <1>8, <2>1, <2>3, <2>4, <2>5 DEF Running, Fills
  <2> QED
    BY <2>2, <2>6
<1>11. PICK t : proc' = [proc EXCEPT ![p] = t] /\ Running(t, fsize)
  BY <1>5, <1>8, <1>9, <1>10
<1> QED
  BY <1>1, <1>6, <1>11, SameLength, ShapedStep

(* New blocks.                                                             *)
LEMMA NewBlocks ==
  ASSUME NEW fs, NEW slot \in Others, slot.ino < fs[slot.jno]
  PROVE  /\ \A home \in Journals : Used(Aux(slot, home), fs) /\ Aux(slot, home).pos = slot
         /\ \A n \in Names : Used([Child(n) EXCEPT !.pos = slot], fs)
         /\ \A n \in Names, npos \in Links :
              Used([Child(n) EXCEPT !.pos = slot, !.npos = npos], fs)
<1>1. Zero \in Block /\ slot \in Positions \union {None}
  BY ZeroFacts DEF Others
<1>2. \A j \in Journals : j \in 0 .. JOURNALS
  BY FsAssumption DEF Journals
<1>3. \A n \in Names : Home[n] \in Journals
  BY FsAssumption DEF Journals
<1>4. ASSUME NEW home \in Journals PROVE Used(Aux(slot, home), fs) /\ Aux(slot, home).pos = slot
  BY <1>1, <1>2 DEF Aux, Used, Block
<1>5. ASSUME NEW n \in Names, NEW npos \in Links
      PROVE  Used([Child(n) EXCEPT !.pos = slot, !.npos = npos], fs)
  BY <1>1, <1>2, <1>3 DEF Child, Used, Block
<1>6. ASSUME NEW n \in Names PROVE Used([Child(n) EXCEPT !.pos = slot], fs)
  BY <1>1, <1>2, <1>3 DEF Child, Used, Block
<1> QED
  BY <1>4, <1>5, <1>6

(* A process that scans a journal scans one that there is.                 *)
LEMMA ScanJournal ==
  ASSUME Shaped, NEW p \in Procs, ScanOf(p) # 0
  PROVE  /\ ScanOf(p) \in Journals
         /\ proc[p].pc \in {"slot", "first", "next"} /\ proc[p].name \in Names
<1> DEFINE r == proc[p]
<1>1. Running(r, fsize)
  BY DEF Shaped
<1>2. r.pc \in {"slot", "first", "next"}
  BY DEF ScanOf
<1>3. r.name \in Names
  BY <1>1, <1>2 DEF Running
<1>4. Home[r.name] \in Journals
  BY <1>3, FsAssumption DEF Journals
<1>5. r.pc = "next" => r.cur.home \in Journals
  BY <1>1, CopyFacts DEF Running, Used
<1> QED
  BY <1>2, <1>3, <1>4, <1>5 DEF ScanOf

(* The map of one journal is widened, and a part of the file may be left   *)
(* to be filled.                                                           *)
LEMMA GrowRunning ==
  ASSUME NEW fs, NEW r, Running(r, fs), r.pc # "closed", NEW m, Wider(m, r, fs),
         NEW f \in Nat, f # 0 => INIT_BLOCKS <= f /\ ScanAt(r) \in Journals
  PROVE  Running([r EXCEPT !.map = m, !.fill = f], fs)
<1>1. PICK t : t = [r EXCEPT !.map = m, !.fill = f]
  OBVIOUS
<1>2. r \in Process /\ m \in [Journals -> Nat] /\ Fits(r, fs)
  BY DEF Running, Wider
<1>3. /\ t \in Process /\ t.map = m /\ t.pc = r.pc /\ t.name = r.name /\ t.cur = r.cur
      /\ t.next = r.next /\ t.parent = r.parent /\ t.ino = r.ino /\ t.idx = r.idx
      /\ t.fill = f /\ t.of = r.of /\ t.data = r.data
  BY <1>1, <1>2 DEF Process
<1>4. Fits(t, fs)
  BY <1>2, <1>3, WiderFits, Zenon DEF Fits
<1>5. Fills(t)
  <2>1. Makes(t) = Makes(r)
    BY <1>3 DEF Makes
  <2>2. ScanAt(t) = ScanAt(r)
    BY <1>3, <2>1 DEF ScanAt
  <2> QED
    BY <1>3, <2>2 DEF Fills
<1>6. Running(t, fs)
  BY <1>3, <1>4, <1>5 DEF Running
<1> QED
  BY <1>1, <1>6

LEMMA GrowStatShaped ==
  ASSUME Shaped, NEW p \in Procs, GrowStat(p)
  PROVE  Shaped'
<1> DEFINE j   == ScanOf(p)
           new == 2 * Mapped(p, j)
           r   == proc[p]
<1>1. Running(r, fsize) /\ Formed(disk, fsize) /\ fsize \in [Journals -> Nat]
      /\ r \in Process
  BY DEF Shaped, Running
<1>2. j \in Journals /\ r.pc # "closed" /\ r.fill = 0 /\ ScanAt(r) = j
  BY ScanJournal, ScanAtNow DEF GrowStat
<1>3. /\ disk' = disk /\ fsize' = fsize /\ harm' \subseteq Harms
      /\ calls' \in 0 .. MaxCalls /\ restarts' \in 0 .. MaxRestarts
  BY DEF GrowStat, Shaped
<1>4. /\ Mapped(p, j) \in Nat /\ r.map[j] <= Mapped(p, j) /\ fsize[j] \in Nat
      /\ INIT_BLOCKS <= fsize[j] /\ INIT_BLOCKS \in Nat /\ r.map \in [Journals -> Nat]
  BY <1>1, <1>2, MapTypes, FsAssumption DEF Shaped
<1>5. proc' = [proc EXCEPT ![p] = IF fsize[j] < new
                                  THEN [r EXCEPT !.map = Use(p, {j}), !.fill = fsize[j]]
                                  ELSE [r EXCEPT !.map[j] = new]]
  BY DEF GrowStat
<1> HIDE DEF j
<1>6. CASE fsize[j] < new
  <2>1. Wider(Use(p, {j}), r, fsize)
    BY MapTypes
  <2>2. Running([r EXCEPT !.map = Use(p, {j}), !.fill = fsize[j]], fsize)
    BY <1>1, <1>2, <1>4, <2>1, GrowRunning
  <2> QED
    BY <1>1, <1>3, <1>5, <1>6, <2>2, SameLength, ShapedStep
<1>7. CASE ~(fsize[j] < new)
  <2>1. PICK m : m = [r.map EXCEPT ![j] = new]
    OBVIOUS
  <2>2. Wider(m, r, fsize)
    <3>1. new \in Nat /\ new <= fsize[j] /\ r.map[j] <= new
      BY <1>2, <1>4, <1>7
    <3>2. \A k \in Journals : r.map[k] <= fsize[k]
      BY <1>1 DEF Running, Fits
    <3> QED
      BY <1>2, <1>4, <2>1, <3>1, <3>2 DEF Wider
  <2>3. Running([r EXCEPT !.map = m], fsize)
    BY <1>1, <1>2, <2>2, MapRunning
  <2>4. proc' = [proc EXCEPT ![p] = [r EXCEPT !.map = m]]
    BY <1>1, <1>5, <1>7, <2>1 DEF Process
  <2> QED
    BY <1>1, <1>3, <2>3, <2>4, SameLength, ShapedStep
<1> QED
  BY <1>6, <1>7

(* The disk after a blank block was written: the file's inode is not       *)
(* overwritten.                                                            *)
LEMMA FillFormed ==
  ASSUME NEW d, NEW fs, Formed(d, fs), NEW j, NEW i \in Nat, INIT_BLOCKS <= i
  PROVE  /\ Formed([pos \in Positions |-> IF pos = At(j, i) THEN Zero ELSE d[pos]], fs)
         /\ At(j, i) # ParentPos
<1>1. At(j, i) # ParentPos
  <2>1. At(j, i).ino = i /\ ParentPos.ino = INIT_BLOCKS - 1 /\ INIT_BLOCKS \in Nat
    BY FsAssumption DEF At, ParentPos
  <2> QED
    BY <2>1
<1>2. PICK e : e = [pos \in Positions |-> IF pos = At(j, i) THEN Zero ELSE d[pos]]
  OBVIOUS
<1>3. d \in [Positions -> Block] /\ ParentPos \in Positions /\ Zero \in Block
  BY PositionFacts, ZeroFacts DEF Formed
<1>4. /\ e \in [Positions -> Block]
      /\ \A pos \in Positions : e[pos] = IF pos = At(j, i) THEN Zero ELSE d[pos]
  BY <1>2, <1>3
<1>5. Formed(e, fs)
  BY <1>1, <1>3, <1>4 DEF Formed, Others
<1> QED
  BY <1>1, <1>2, <1>5

LEMMA GrowFillShaped ==
  ASSUME Shaped, NEW p \in Procs, GrowFill(p)
  PROVE  Shaped'
<1> DEFINE j   == ScanOf(p)
           r   == proc[p]
           i   == r.fill
           new == 2 * r.map[j]
           fs  == Extended(j, i)
           d   == [pos \in Positions |-> IF pos = At(j, i) THEN Zero ELSE disk[pos]]
<1>1. Running(r, fsize) /\ Formed(disk, fsize) /\ fsize \in [Journals -> Nat]
      /\ r \in Process
  BY DEF Shaped, Running
<1>2. i # 0 /\ INIT_BLOCKS <= i /\ i \in Nat /\ ScanAt(r) \in Journals /\ ScanAt(r) = j
  BY <1>1, ScanAtNow DEF GrowFill, Running, Fills, Process
<1>3. j \in Journals /\ r.pc # "closed"
  <2>1. 0 \notin Journals
    BY DEF Journals
  <2> QED
    BY <1>2, <2>1, ScanJournal
<1>4. /\ disk' = d /\ fsize' = fs
      /\ calls' \in 0 .. MaxCalls /\ restarts' \in 0 .. MaxRestarts
  BY DEF GrowFill, Shaped
<1>5. harm' \subseteq Harms
  BY DEF GrowFill, Shaped, Harms
<1>6. Longer(fs, fsize) /\ fs[j] >= i + 1 /\ fs \in [Journals -> Nat]
  BY <1>1, <1>2, <1>3 DEF Extended, Longer
<1>7. Formed(d, fsize)
  BY <1>1, <1>2, FillFormed
<1>8. proc' = [proc EXCEPT ![p] = IF i + 1 < new THEN [r EXCEPT !.fill = i + 1]
                                  ELSE [r EXCEPT !.fill = 0, !.map[j] = new]]
  BY DEF GrowFill
<1> HIDE DEF fs, j, d
<1>9. Running(r, fs) /\ Formed(d, fs)
  BY <1>1, <1>6, <1>7, LongerKeeps
<1>10. /\ r.map \in [Journals -> Nat] /\ r.map[j] \in Nat /\ INIT_BLOCKS \in Nat
       /\ \A k \in Journals : r.map[k] <= fs[k] /\ fs[k] \in Nat
  BY <1>1, <1>3, <1>6, <1>9, FsAssumption DEF Process, Running, Fits
<1>11. CASE i + 1 < new
  <2>1. Wider(r.map, r, fs)
    BY <1>6, <1>9, SameMap
  <2>2. i + 1 \in Nat /\ INIT_BLOCKS <= i + 1
    BY <1>2, <1>10
  <2>3. Running([r EXCEPT !.map = r.map, !.fill = i + 1], fs)
    BY <1>2, <1>3, <1>9, <2>1, <2>2, GrowRunning
  <2>4. [r EXCEPT !.map = r.map, !.fill = i + 1] = [r EXCEPT !.fill = i + 1]
    BY <1>1 DEF Process
  <2> QED
    BY <1>4, <1>5, <1>6, <1>8, <1>9, <1>11, <2>3, <2>4, ShapedStep
<1>12. CASE ~(i + 1 < new)
  <2>1. PICK m : m = [r.map EXCEPT ![j] = new]
    OBVIOUS
  <2>2. Wider(m, r, fs)
    <3>1. new \in Nat /\ new <= fs[j] /\ r.map[j] <= new
      BY <1>2, <1>3, <1>6, <1>10, <1>12
    <3> QED
      BY <1>3, <1>10, <2>1, <3>1 DEF Wider
  <2>3. Running([r EXCEPT !.map = m, !.fill = 0], fs)
    BY <1>3, <1>9, <2>2, GrowRunning
  <2>4. [r EXCEPT !.fill = 0, !.map[j] = new] = [r EXCEPT !.map = m, !.fill = 0]
    BY <1>1, <2>1 DEF Process
  <2>5. proc' = [proc EXCEPT ![p] = [r EXCEPT !.map = m, !.fill = 0]]
    BY <1>8, <1>12, <2>4
  <2> QED
    BY <1>4, <1>5, <1>6, <1>9, <2>3, <2>5, ShapedStep
<1> QED
  BY <1>11, <1>12

LEMMA LinkScanShaped ==
  ASSUME Shaped, NEW p \in Procs, LinkScan(p)
  PROVE  Shaped'
<1> DEFINE n    == proc[p].name
           slot == Scan(p, Home[n])
           m    == Use(p, {Home[n]})
           r    == [proc[p] EXCEPT !.map = m]
           b    == [r.cur EXCEPT !.pos = slot]
<1>1. Running(proc[p], fsize) /\ Formed(disk, fsize) /\ proc[p].pc = "slot"
  BY DEF Shaped, LinkScan
<1>2. n \in Names /\ Home[n] \in Journals
  BY <1>1, FsAssumption DEF Running, Journals
<1>3. /\ disk' = disk /\ fsize' = fsize
      /\ calls' \in 0 .. MaxCalls /\ restarts' \in 0 .. MaxRestarts
  BY DEF LinkScan, Shaped
<1>4. harm' \subseteq Harms
  BY HarmTypes DEF LinkScan, Shaped
<1>5. proc' = [proc EXCEPT ![p] =
                 IF slot = None THEN Return(r) ELSE [r EXCEPT !.pc = "child", !.cur.pos = slot]]
  BY DEF LinkScan
<1>6. Wider(m, proc[p], fsize)
  BY MapTypes
<1>7. Running(r, fsize)
  BY <1>1, <1>6, MapRunning
<1>8. slot # None => /\ slot \in Others /\ slot.ino < fsize[slot.jno] /\ Readable(p, slot)
                     /\ slot.jno = Home[n]
  BY <1>2, ScanFinds
<1>9. proc[p].fill = 0
  BY DEF LinkScan, Scanned
<1>10. slot # None => InMap(m, b)
  <2>1. ASSUME NEW x, x.pos = slot, slot # None PROVE InMap(m, x)
    BY <1>2, <1>8, <2>1, ReadMapped
  <2>2. r.cur \in Block
    BY <1>7 DEF Running, Process
  <2>3. b.pos = slot
    BY <2>2 DEF Block
  <2> QED
    BY <2>1, <2>3
<1> HIDE DEF m
<1>11. /\ r.pc = "slot" /\ r.name = n /\ r.map = m /\ r.fill = 0 /\ r.cur = proc[p].cur
       /\ r \in Process
  BY <1>1, <1>7, <1>9 DEF Running, Process
<1> HIDE DEF r, slot
<1>12. CASE slot = None
  <2>1. Running(Return(r), fsize)
    BY <1>7, <1>11, ReturnRunning
  <2> QED
    BY <1>1, <1>3, <1>4, <1>5, <1>12, <2>1, SameLength, ShapedStep
<1>13. CASE slot # None
  <2>1. r.cur = [Child(n) EXCEPT !.npos = r.cur.npos] /\ r.cur.npos \in Links
    BY <1>7, <1>11 DEF Running, Process, Block
  <2>2. b = [Child(n) EXCEPT !.pos = slot, !.npos = r.cur.npos]
    BY <2>1 DEF Child, Zero
  <2>3. PICK t : t = [r EXCEPT !.pc = "child", !.cur = b]
    OBVIOUS
  <2>4. proc' = [proc EXCEPT ![p] = t]
    BY <1>5, <1>11, <1>13, <2>3 DEF Process
  <2> HIDE DEF b
  <2>5. Used(b, fsize)
    BY <1>2, <1>8, <1>13, <2>1, <2>2, NewBlocks
  <2>6. Copy(b, fsize) /\ b \in Block /\ b # Zero
    BY <2>5, ZeroFacts DEF Copy, Used
  <2>7. /\ t \in Process /\ t.map = m /\ t.pc = "child" /\ t.name = n /\ t.cur = b
        /\ t.next = r.next /\ t.parent = r.parent /\ t.fill = 0 /\ t.ino = r.ino
    BY <1>11, <2>3, <2>6 DEF Process, Pcs
  <2>8. /\ t.parent.type = "FILE" /\ t.parent.pos = ParentPos
        /\ Wider(t.map, r, fsize)
    BY <1>7, <1>11, <2>7, SameMap DEF Running, Shaped
  <2>9. Running(t, fsize)
    BY <1>2, <1>7, <1>10, <1>11, <1>13, <2>6, <2>7, <2>8, StepRunning
  <2> QED
    BY <1>1, <1>3, <1>4, <2>4, <2>9, SameLength, ShapedStep
<1> QED
  BY <1>12, <1>13

LEMMA LinkChildShaped ==
  ASSUME Shaped, NEW p \in Procs, LinkChild(p)
  PROVE  Shaped'
<1> DEFINE q == proc[p]
           d == [disk EXCEPT ![q.cur.pos] = q.cur]
<1>1. Running(q, fsize) /\ Formed(disk, fsize) /\ q.pc = "child" /\ fsize \in [Journals -> Nat]
  BY DEF Shaped, LinkChild
<1>2. Used(q.cur, fsize)
  BY <1>1 DEF Running, Copy
<1>3. Formed(d, fsize)
  BY <1>1, <1>2, WriteBlock
<1>4. PICK t : t = [q EXCEPT !.pc = "parent"]
  OBVIOUS
<1>5. /\ proc' = [proc EXCEPT ![p] = t] /\ disk' = d /\ fsize' = fsize
  BY <1>4 DEF LinkChild
<1>6. harm' \subseteq Harms /\ calls' \in 0 .. MaxCalls /\ restarts' \in 0 .. MaxRestarts
  BY DEF LinkChild, Shaped
<1> HIDE DEF q, d
<1>7. /\ t \in Process /\ t.map = q.map /\ t.pc = "parent" /\ t.name = q.name /\ t.cur = q.cur
      /\ t.next = q.next /\ t.parent = q.parent /\ t.fill = q.fill /\ t.ino = q.ino
  BY <1>1, <1>4 DEF Running, Process, Pcs
<1>8. /\ t.parent.type = "FILE" /\ t.parent.pos = ParentPos /\ q.name \in Names
      /\ q.cur # Zero /\ Wider(t.map, q, fsize) /\ q.fill = 0
  BY <1>1, <1>7, SameMap, NoFill DEF Running
<1>9. Running(t, fsize)
  BY <1>1, <1>7, <1>8, StepRunning
<1> QED
  BY <1>1, <1>3, <1>5, <1>6, <1>9, SameLength, ShapedStep

LEMMA LinkParentShaped ==
  ASSUME Shaped, NEW p \in Procs, LinkParent(p)
  PROVE  Shaped'
<1> DEFINE r == proc[p]
           b == [r.parent EXCEPT !.fpos = r.cur.pos]
           s == [r EXCEPT !.parent = b, !.ino[r.name] = r.cur]
           d == [disk EXCEPT ![ParentPos] = b]
<1>1. Running(r, fsize) /\ Formed(disk, fsize) /\ r.pc = "parent"
      /\ fsize \in [Journals -> Nat]
  BY DEF Shaped, LinkParent
<1>2. Used(r.cur, fsize) /\ r.name \in Names
  BY <1>1 DEF Running, Copy
<1>3. b \in Block /\ b.type = "FILE" /\ b.pos = ParentPos
  BY <1>1, <1>2 DEF Running, Process, Block, Used, Links
<1>4. Formed(d, fsize)
  BY <1>1, <1>3, WriteFile
<1>5. /\ proc' = [proc EXCEPT ![p] = Return(s)] /\ disk' = d /\ fsize' = fsize
  BY DEF LinkParent
<1>6. harm' \subseteq Harms /\ calls' \in 0 .. MaxCalls /\ restarts' \in 0 .. MaxRestarts
  BY HarmTypes DEF LinkParent, Shaped
<1> HIDE DEF r, b, d
<1>7. /\ s \in Process /\ s.map = r.map /\ s.pc = "parent" /\ s.name = r.name /\ s.cur = r.cur
      /\ s.next = r.next /\ s.parent = b /\ s.fill = r.fill
      /\ \A k \in Names : s.ino[k] = IF k = r.name THEN r.cur ELSE r.ino[k]
  BY <1>1, <1>2, <1>3 DEF Running, Process, Used
<1> HIDE DEF s
<1>8. /\ Wider(s.map, r, fsize) /\ r.fill = 0 /\ Copy(r.cur, fsize) /\ InMap(s.map, r.cur)
      /\ r.cur # Zero
  BY <1>1, <1>7, SameMap, NoFill DEF Running, Fits
<1>9. Running(s, fsize)
  BY <1>1, <1>2, <1>3, <1>7, <1>8, StepRunning
<1>10. Running(Return(s), fsize)
  BY <1>7, <1>9, ReturnRunning
<1> QED
  BY <1>1, <1>4, <1>5, <1>6, <1>10, SameLength, ShapedStep DEF Shaped

LEMMA ParentSaveShaped ==
  ASSUME Shaped, NEW p \in Procs, ParentSave(p)
  PROVE  Shaped'
<1>1. Running(proc[p], fsize) /\ Formed(disk, fsize) /\ proc[p].pc = "save"
  BY DEF Shaped, ParentSave
<1>2. Formed([disk EXCEPT ![ParentPos] = proc[p].parent], fsize)
  BY <1>1, WriteFile DEF Running, Process
<1>3. Running(Return(proc[p]), fsize)
  BY <1>1, ReturnRunning
<1>4. /\ proc' = [proc EXCEPT ![p] = Return(proc[p])] /\ fsize' = fsize
      /\ disk' = [disk EXCEPT ![ParentPos] = proc[p].parent]
  BY DEF ParentSave
<1>5. harm' \subseteq Harms /\ calls' \in 0 .. MaxCalls /\ restarts' \in 0 .. MaxRestarts
  BY HarmTypes DEF ParentSave, Shaped
<1> QED
  BY <1>2, <1>3, <1>4, <1>5, SameLength, ShapedStep

(* A call on child n begins.                                               *)
LEMMA CalledFacts ==
  ASSUME Shaped, NEW p \in Procs, NEW n \in Names, Called(p, n)
  PROVE  /\ calls' \in 0 .. MaxCalls /\ harm' \subseteq Harms
         /\ proc[p].pc = "idle" /\ Used(proc[p].ino[n], fsize)
         /\ proc[p].ino[n] \in Block /\ proc[p].ino[n].fpos \in Links
         /\ proc[p].fill = 0 /\ proc[p].ino[n] # Zero
         /\ InMap(proc[p].map, proc[p].ino[n])
<1>1. calls < MaxCalls /\ calls' = calls + 1 /\ calls \in 0 .. MaxCalls /\ MaxCalls \in Nat
  BY FsAssumption DEF Called, Shaped
<1>2. calls' \in 0 .. MaxCalls /\ harm' \subseteq Harms
  BY <1>1, HarmTypes DEF Called, Shaped
<1>3. proc[p].pc = "idle" /\ proc[p].ino[n] # Zero
  BY DEF Called, Idle
<1>4. Copy(proc[p].ino[n], fsize) /\ Running(proc[p], fsize)
      /\ InMap(proc[p].map, proc[p].ino[n])
  BY DEF Shaped, Running, Fits
<1>5. proc[p].fill = 0
  BY <1>3, <1>4, NoFill
<1> QED
  BY <1>2, <1>3, <1>4, <1>5, CopyFacts

(* Data that is written is a sequence of units.                            *)
LEMMA DataType ==
  \A call, len \in Nat : Data(call, len) \in Seq([call : Nat, k : Nat])
<1> SUFFICES ASSUME NEW call \in Nat, NEW len \in Nat
             PROVE  Data(call, len) \in Seq([call : Nat, k : Nat])
  OBVIOUS
<1>1. \A k \in 1 .. len : Unit(call, k) \in [call : Nat, k : Nat]
  BY DEF Unit
<1> QED
  BY <1>1 DEF Data

LEMMA ResizedType ==
  \A data \in Seq([call : Nat, k : Nat]), len \in Nat :
    Resized(data, len) \in Seq([call : Nat, k : Nat])
<1> SUFFICES ASSUME NEW data \in Seq([call : Nat, k : Nat]), NEW len \in Nat
             PROVE  Resized(data, len) \in Seq([call : Nat, k : Nat])
  OBVIOUS
<1> DEFINE U == [call : Nat, k : Nat]
<1>1. Blank \in U
  BY ZeroFacts
<1>0. data \in Seq(U)
  OBVIOUS
<1> HIDE DEF U
<1>2. \A k \in 1 .. len : k <= Len(data) => data[k] \in U
  BY <1>0
<1>3. Resized(data, len) \in [1 .. len -> U]
  BY <1>1, <1>2 DEF Resized
<1>4. Resized(data, len) \in Seq(U)
  BY <1>3
<1> QED
  BY <1>4 DEF U

LEMMA FormatType == \A n : Format(n) \subseteq {"BINARY", "CRED", "ACCESS"}
                           /\ Kind(n) \subseteq {"BINARY", "CRED", "ACCESS"}
BY DEF Format, Kind

LEMMA WriteBeginShaped ==
  ASSUME Shaped, NEW p \in Procs, NEW n \in Names, NEW len \in Lengths, WriteBegin(p, n, len)
  PROVE  Shaped'
<1> DEFINE r == proc[p]
<1>1. Running(r, fsize) /\ Formed(disk, fsize) /\ fsize \in [Journals -> Nat]
  BY DEF Shaped
<1>2. /\ calls' \in 0 .. MaxCalls /\ harm' \subseteq Harms
      /\ r.pc = "idle" /\ Used(r.ino[n], fsize) /\ r.fill = 0 /\ InMap(r.map, r.ino[n])
      /\ r.ino[n] # Zero
  BY CalledFacts DEF WriteBegin
<1>3. disk' = disk /\ fsize' = fsize /\ restarts' \in 0 .. MaxRestarts
  BY DEF WriteBegin, Shaped
<1>4. Data(calls + 1, len) \in Seq([call : Nat, k : Nat])
  BY DataType, FsAssumption DEF Shaped
<1>5. PICK i : i = [r.ino[n] EXCEPT !.has = Format(n)]
  OBVIOUS
<1>6. Used(i, fsize) /\ i.pos = r.ino[n].pos
  BY <1>2, <1>5, FormatType DEF Used, Block
<1>7. Copy(i, fsize) /\ i \in Block /\ i # Zero /\ InMap(r.map, i)
  BY <1>2, <1>6, ZeroFacts DEF Copy, Used, InMap
<1>8. PICK t : t = [r EXCEPT !.pc = "first", !.name = n, !.data = Data(calls + 1, len),
                             !.ino[n] = i]
  OBVIOUS
<1>9. proc' = [proc EXCEPT ![p] = t]
  BY <1>1, <1>5, <1>8 DEF WriteBegin, Running, Process
<1> HIDE DEF r
<1>10. /\ t \in Process /\ t.map = r.map /\ t.pc = "first" /\ t.name = n /\ t.cur = r.cur
       /\ t.next = r.next /\ t.parent = r.parent /\ t.fill = r.fill
       /\ \A k \in Names : t.ino[k] = IF k = n THEN i ELSE r.ino[k]
  BY <1>1, <1>4, <1>7, <1>8 DEF Running, Process, Pcs
<1>11. /\ t.parent.type = "FILE" /\ t.parent.pos = ParentPos /\ Wider(t.map, r, fsize)
  BY <1>1, <1>2, <1>10, SameMap DEF Running
<1>12. Running(t, fsize)
  BY <1>1, <1>2, <1>7, <1>10, <1>11, StepRunning
<1> QED
  BY <1>1, <1>2, <1>3, <1>9, <1>12, SameLength, ShapedStep

(* A call ends with an error.                                              *)
LEMMA FailsRunning ==
  ASSUME NEW fs, NEW r, Running(r, fs), r.pc # "closed", NEW m, Wider(m, r, fs)
  PROVE  Running(Return([r EXCEPT !.map = m]), fs)
<1>1. Running([r EXCEPT !.map = m], fs) /\ [r EXCEPT !.map = m].pc # "closed"
  BY MapRunning DEF Running, Process
<1> QED
  BY <1>1, ReturnRunning

LEMMA ReturnSame ==
  ASSUME NEW fs, NEW r, Running(r, fs), NEW m, NEW pc
  PROVE  Return([r EXCEPT !.pc = pc, !.map = m]) = Return([r EXCEPT !.map = m])
BY DEF Return, Running, Process

LEMMA WriteFirstShaped ==
  ASSUME Shaped, NEW p \in Procs, WriteFirst(p)
  PROVE  Shaped'
<1> DEFINE r    == proc[p]
           n    == r.name
           ino  == r.ino[n]
           fpos == ino.fpos
           new  == fpos = None
           slot == Scan(p, Home[n])
           m    == Use(p, {IF new THEN Home[n] ELSE fpos.jno})
           s    == [r EXCEPT !.pc = "next", !.map = m]
<1>1. Running(r, fsize) /\ Formed(disk, fsize) /\ r.pc = "first"
  BY DEF Shaped, WriteFirst
<1>2. /\ n \in Names /\ ino # Zero /\ Copy(ino, fsize) /\ Home[n] \in Journals
      /\ r \in Process
  BY <1>1, FsAssumption DEF Running, Journals
<1>3. Used(ino, fsize) /\ fpos \in Links
  BY <1>2, CopyFacts
<1>4. disk' = disk /\ fsize' = fsize /\ calls' \in 0 .. MaxCalls /\ restarts' \in 0 .. MaxRestarts
  BY DEF WriteFirst, Shaped
<1>5. harm' \subseteq Harms
  BY HarmTypes DEF WriteFirst, Shaped
<1>6. Wider(m, r, fsize)
  BY MapTypes
<1>7. slot # None => /\ slot \in Others /\ slot.ino < fsize[slot.jno] /\ Readable(p, slot)
                     /\ slot.jno = Home[n]
  BY <1>2, ScanFinds
<1>8. \/ /\ new /\ slot # None /\ Scanned(p, Home[n])
         /\ \E home \in Hashed :
              proc' = [proc EXCEPT ![p] =
                [s EXCEPT !.cur = Aux(slot, home), !.ino[n].fpos = slot, !.dirty = TRUE]]
      \/ /\ ~new /\ Readable(p, fpos)
         /\ proc' = [proc EXCEPT ![p] =
              [s EXCEPT !.cur = disk[fpos],
                        !.pc = IF disk[fpos].pos = None THEN "inode" ELSE "next"]]
      \/ proc' = [proc EXCEPT ![p] = Return(s)]
  BY Zenon DEF WriteFirst
<1>9. ASSUME new, slot # None, NEW b, b.pos = slot PROVE InMap(m, b)
  BY <1>2, <1>7, <1>9, ReadMapped
<1>10. ASSUME ~new, Readable(p, fpos) PROVE InMap(m, disk[fpos]) /\ Copy(disk[fpos], fsize)
  <2>1. fpos \in Others
    BY <1>3, <1>10 DEF Links
  <2>2. Copy(disk[fpos], fsize) /\ disk[fpos].pos \in {fpos, None}
    BY <1>1, <2>1, ReadCopy
  <2> QED
    BY <1>10, <2>1, <2>2, ReadMapped
<1>11. r.fill = 0 \/ ~new
  BY DEF WriteFirst, Scanned
<1>12. ~new => r.fill = 0
  <2>1. ~new => ScanAt(r) = 0
    BY <1>1 DEF ScanAt
  <2>2. 0 \notin Journals
    BY DEF Journals
  <2> QED
    BY <1>1, <2>1, <2>2 DEF Running, Fills
<1>13. r.parent.type = "FILE" /\ r.parent.pos = ParentPos
  BY <1>1 DEF Running
<1> HIDE DEF m, slot
<1>14. CASE /\ new /\ slot # None
            /\ \E home \in Hashed :
                 proc' = [proc EXCEPT ![p] =
                   [s EXCEPT !.cur = Aux(slot, home), !.ino[n].fpos = slot, !.dirty = TRUE]]
  <2>1. PICK home \in Hashed :
          proc' = [proc EXCEPT ![p] =
            [s EXCEPT !.cur = Aux(slot, home), !.ino[n].fpos = slot, !.dirty = TRUE]]
    BY <1>14
  <2>2. home \in Journals
    BY FsAssumption DEF Journals
  <2>3. Used(Aux(slot, home), fsize) /\ Aux(slot, home).pos = slot
    BY <1>7, <1>14, <2>2, NewBlocks
  <2>4. PICK b : b = Aux(slot, home)
    OBVIOUS
  <2>5. PICK i : i = [ino EXCEPT !.fpos = slot]
    OBVIOUS
  <2>6. Used(i, fsize) /\ i.pos = ino.pos
    BY <1>3, <1>7, <1>14, <2>5 DEF Used, Block, Links
  <2>7. b \in Block /\ i \in Block /\ b # Zero /\ i # Zero /\ Copy(b, fsize) /\ Copy(i, fsize)
    BY <2>3, <2>4, <2>6, ZeroFacts DEF Used, Copy
  <2>8. InMap(m, b) /\ InMap(m, ino)
    <3>1. ino \in Block /\ InMap(r.map, ino)
      BY <1>1, <1>2, <1>3 DEF Running, Fits, Used
    <3> QED
      BY <1>2, <1>6, <1>9, <1>14, <2>3, <2>4, <3>1, InMapWider
  <2>9. InMap(m, i)
    BY <2>6, <2>8 DEF InMap
  <2>10. PICK t : t = [r EXCEPT !.pc = "next", !.map = m, !.cur = b, !.ino[n] = i, !.dirty = TRUE]
    OBVIOUS
  <2>11. proc' = [proc EXCEPT ![p] = t]
    BY <1>2, <2>1, <2>4, <2>5, <2>10 DEF Process
  <2>12. m \in [Journals -> Nat]
    BY <1>6 DEF Wider
  <2> HIDE DEF ino
  <2>13. /\ t \in Process /\ t.map = m /\ t.pc = "next" /\ t.name = n /\ t.cur = b
         /\ t.next = r.next /\ t.parent = r.parent /\ t.fill = r.fill
         /\ \A k \in Names : t.ino[k] = IF k = n THEN i ELSE r.ino[k]
    BY <1>2, <2>7, <2>10, <2>12 DEF Process, Pcs
  <2>14. Running(t, fsize)
    BY <1>1, <1>2, <1>6, <1>11, <1>13, <1>14, <2>7, <2>8, <2>9, <2>13, StepRunning
  <2> QED
    BY <1>1, <1>4, <1>5, <2>11, <2>14, SameLength, ShapedStep
<1>15. CASE /\ ~new /\ Readable(p, fpos)
            /\ proc' = [proc EXCEPT ![p] =
                 [s EXCEPT !.cur = disk[fpos],
                           !.pc = IF disk[fpos].pos = None THEN "inode" ELSE "next"]]
  <2>1. PICK b : b = disk[fpos]
    OBVIOUS
  <2>2. Copy(b, fsize) /\ b \in Block /\ (b.pos # None => b # Zero) /\ InMap(m, b)
    BY <1>10, <1>15, <2>1, CopyFacts
  <2>3. PICK c : c = IF b.pos = None THEN "inode" ELSE "next"
    OBVIOUS
  <2>4. PICK t : t = [r EXCEPT !.pc = c, !.map = m, !.cur = b]
    OBVIOUS
  <2>5. proc' = [proc EXCEPT ![p] = t]
    BY <1>2, <1>15, <2>1, <2>3, <2>4 DEF Process
  <2>6. m \in [Journals -> Nat]
    BY <1>6 DEF Wider
  <2>7. /\ t \in Process /\ t.map = m /\ t.pc = c /\ t.name = n /\ t.cur = b
        /\ t.next = r.next /\ t.parent = r.parent /\ t.fill = r.fill /\ t.ino = r.ino
    BY <1>2, <2>2, <2>3, <2>4, <2>6 DEF Process, Pcs
  <2> HIDE DEF ino
  <2>8. Running(t, fsize)
    <3>1. r.ino[n] # Zero
      BY <1>2 DEF ino
    <3> QED
      BY <1>1, <1>2, <1>6, <1>12, <1>13, <1>15, <2>2, <2>3, <2>7, <3>1, StepRunning
  <2> QED
    BY <1>1, <1>4, <1>5, <2>5, <2>8, SameLength, ShapedStep
<1>16. CASE proc' = [proc EXCEPT ![p] = Return(s)]
  <2>1. Running(Return([r EXCEPT !.map = m]), fsize)
    BY <1>1, <1>6, FailsRunning
  <2>2. Return(s) = Return([r EXCEPT !.map = m])
    BY <1>1, ReturnSame
  <2>3. Running(Return(s), fsize)
    BY <2>1, <2>2
  <2> QED
    BY <1>1, <1>4, <1>5, <1>16, <2>3, SameLength, ShapedStep
<1> QED
  BY <1>8, <1>14, <1>15, <1>16

LEMMA NextElement ==
  ASSUME NEW U, NEW d \in Seq(U), NEW k \in Nat, k < Len(d)
  PROVE  d[k + 1] \in U
OBVIOUS

LEMMA FilledUsed ==
  ASSUME NEW fs, NEW r, Running(r, fs), Used(r.cur, fs)
  PROVE  Used(Filled(r), fs) /\ Filled(r).pos = r.cur.pos /\ Filled(r).npos = r.cur.npos
<1>1. r.data \in Seq([call : Nat, k : Nat]) /\ r.of \in Nat
  BY DEF Running, Process
<1>2. r.of < Len(r.data) => r.data[r.of + 1] \in [call : Nat, k : Nat]
  BY <1>1, NextElement, Zenon
<1> QED
  BY <1>2 DEF Filled, Used, Block

LEMMA WriteNextShaped ==
  ASSUME Shaped, NEW p \in Procs, WriteNext(p)
  PROVE  Shaped'
<1> DEFINE r    == proc[p]
           npos == r.cur.npos
           home == r.cur.home
           make == Makes(r)
           slot == Scan(p, home)
           m    == Use(p, {IF make THEN home ELSE npos.jno})
           s    == [r EXCEPT !.map = m]
           To(cur, next) ==
             [s EXCEPT !.pc = "store", !.cur = cur, !.next = next, !.dirty = @ \/ cur # r.cur]
<1>1. Running(r, fsize) /\ Formed(disk, fsize) /\ r.pc = "next" /\ r \in Process
  BY DEF Shaped, WriteNext, Running
<1>2. r.cur # Zero /\ Used(r.cur, fsize) /\ home \in Journals /\ npos \in Links
  BY <1>1, CopyFacts DEF Running, Used
<1>3. /\ disk' = disk /\ fsize' = fsize /\ calls' \in 0 .. MaxCalls
      /\ restarts' \in 0 .. MaxRestarts
  BY DEF WriteNext, Shaped
<1>4. harm' \subseteq Harms
  BY HarmTypes DEF WriteNext, Fails, Shaped
<1>5. slot # None => /\ slot \in Others /\ slot.ino < fsize[slot.jno] /\ Readable(p, slot)
                     /\ slot.jno = home
  BY <1>2, ScanFinds
<1>6. Wider(m, r, fsize)
  BY MapTypes
<1>7. \/ npos = None /\ ~make /\ proc' = [proc EXCEPT ![p] = To(Filled(r), Zero)]
      \/ make /\ slot # None
         /\ \E h \in Hashed :
              proc' = [proc EXCEPT ![p] = To([Filled(r) EXCEPT !.npos = slot], Aux(slot, h))]
      \/ npos # None /\ Readable(p, npos) /\ ~make
         /\ proc' = [proc EXCEPT ![p] = To(Filled(r), disk[npos])]
      \/ proc' = [proc EXCEPT ![p] = Return(s)]
  <2>1. npos # None => ~make
    BY DEF Makes
  <2> QED
    BY <2>1, Zenon DEF WriteNext, Fails
<1>8. r.fill = 0
  <2>1. make => r.fill = 0
    BY DEF WriteNext, Scanned
  <2>2. ~make => ScanAt(r) = 0
    BY <1>1 DEF ScanAt
  <2>3. 0 \notin Journals
    BY DEF Journals
  <2> QED
    BY <1>1, <2>1, <2>2, <2>3 DEF Running, Fills
<1>9. ASSUME make, slot # None, NEW b, b.pos = slot PROVE InMap(m, b)
  BY <1>2, <1>5, <1>9, ReadMapped
<1>10. ASSUME ~make, npos # None, Readable(p, npos)
       PROVE  InMap(m, disk[npos]) /\ Copy(disk[npos], fsize)
  <2>1. npos \in Others
    BY <1>2, <1>10 DEF Links
  <2>2. Copy(disk[npos], fsize) /\ disk[npos].pos \in {npos, None}
    BY <1>1, <2>1, ReadCopy
  <2> QED
    BY <1>10, <2>1, <2>2, ReadMapped
<1>11. /\ r.parent.type = "FILE" /\ r.parent.pos = ParentPos /\ r.ino[r.name] # Zero
       /\ r.name \in Names
  BY <1>1 DEF Running
<1>12. InMap(m, r.cur)
  <2>1. r.cur \in Block /\ InMap(r.map, r.cur)
    BY <1>1 DEF Running, Process, Fits
  <2> QED
    BY <1>1, <1>6, <2>1, InMapWider
<1> HIDE DEF m, slot, make
<1>13. Used(Filled(r), fsize) /\ InMap(m, Filled(r))
  BY <1>1, <1>2, <1>12, FilledUsed DEF InMap
<1>14. ASSUME NEW b, Used(b, fsize), InMap(m, b), NEW c, Copy(c, fsize), InMap(m, c)
       PROVE  Running(To(b, c), fsize)
  <2>1. b \in Block /\ c \in Block /\ b # Zero /\ Copy(b, fsize)
    BY <1>14, CopyFacts, ZeroFacts DEF Used, Copy
  <2>2. PICK t : t = To(b, c)
    OBVIOUS
  <2>3. m \in [Journals -> Nat]
    BY <1>6 DEF Wider
  <2>4. /\ t \in Process /\ t.pc = "store" /\ t.name = r.name /\ t.cur = b /\ t.next = c
        /\ t.parent = r.parent /\ t.ino = r.ino /\ t.map = m /\ t.fill = r.fill
    <3>1. (r.dirty \/ b # r.cur) \in BOOLEAN
      OBVIOUS
    <3> QED
      BY <1>1, <2>1, <2>2, <2>3, <3>1 DEF Process, Pcs
  <2> HIDE DEF To
  <2>5. Running(t, fsize)
    BY <1>1, <1>6, <1>8, <1>11, <1>14, <2>1, <2>4, StepRunning
  <2> QED
    BY <2>2, <2>5
<1>15. PICK t : proc' = [proc EXCEPT ![p] = t] /\ Running(t, fsize)
  <2>1. CASE npos = None /\ ~make /\ proc' = [proc EXCEPT ![p] = To(Filled(r), Zero)]
    <3>1. Copy(Zero, fsize) /\ InMap(m, Zero)
      BY ZeroFacts DEF Copy, InMap
    <3>2. Running(To(Filled(r), Zero), fsize)
      BY <1>13, <1>14, <3>1
    <3> QED
      BY <2>1, <3>2
  <2>2. CASE make /\ slot # None
             /\ \E h \in Hashed :
                  proc' = [proc EXCEPT ![p] = To([Filled(r) EXCEPT !.npos = slot], Aux(slot, h))]
    <3>1. PICK h \in Hashed :
            proc' = [proc EXCEPT ![p] = To([Filled(r) EXCEPT !.npos = slot], Aux(slot, h))]
      BY <2>2
    <3>0. h \in Journals
      BY FsAssumption DEF Journals
    <3>2. Used(Aux(slot, h), fsize) /\ Aux(slot, h).pos = slot
      BY <1>5, <2>2, <3>0, NewBlocks
    <3>3. Used([Filled(r) EXCEPT !.npos = slot], fsize)
          /\ [Filled(r) EXCEPT !.npos = slot].pos = Filled(r).pos
      BY <1>5, <1>13, <2>2 DEF Used, Block, Links
    <3>4. InMap(m, Aux(slot, h)) /\ InMap(m, [Filled(r) EXCEPT !.npos = slot])
      BY <1>9, <1>13, <2>2, <3>2, <3>3 DEF InMap
    <3>5. Running(To([Filled(r) EXCEPT !.npos = slot], Aux(slot, h)), fsize)
      BY <1>14, <3>2, <3>3, <3>4 DEF Copy
    <3> QED
      BY <3>1, <3>5
  <2>3. CASE npos # None /\ Readable(p, npos) /\ ~make
             /\ proc' = [proc EXCEPT ![p] = To(Filled(r), disk[npos])]
    <3>1. Running(To(Filled(r), disk[npos]), fsize)
      BY <1>10, <1>13, <1>14, <2>3
    <3> QED
      BY <2>3, <3>1
  <2>4. CASE proc' = [proc EXCEPT ![p] = Return(s)]
    <3>1. Running(Return(s), fsize)
      BY <1>1, <1>6, FailsRunning
    <3> QED
      BY <2>4, <3>1
  <2> HIDE DEF To, r, s
  <2> QED
    BY <1>7, <2>1, <2>2, <2>3, <2>4
<1> QED
  BY <1>1, <1>3, <1>4, <1>15, SameLength, ShapedStep

LEMMA WriteStoreShaped ==
  ASSUME Shaped, NEW p \in Procs, WriteStore(p)
  PROVE  Shaped'
<1> DEFINE r == proc[p]
           d == IF r.dirty THEN [disk EXCEPT ![r.cur.pos] = r.cur] ELSE disk
<1>1. Running(r, fsize) /\ Formed(disk, fsize) /\ r.pc = "store" /\ r \in Process
      /\ fsize \in [Journals -> Nat]
  BY DEF Shaped, WriteStore, Running
<1>2. Used(r.cur, fsize) /\ (r.next.pos # None => r.next # Zero)
  BY <1>1, CopyFacts DEF Running
<1>3. Formed(d, fsize)
  <2>1. Formed([disk EXCEPT ![r.cur.pos] = r.cur], fsize)
    BY <1>1, <1>2, WriteBlock
  <2> QED
    BY <1>1, <2>1
<1>4. r.of + r.cur.size \in Nat
  <2>1. r.of \in Nat /\ r.cur \in Block
    BY <1>1 DEF Process
  <2>2. r.cur.size \in Nat
    BY <2>1 DEF Block
  <2> QED
    BY <2>1, <2>2
<1>5. PICK c : c = IF r.next.pos = None THEN "inode" ELSE "next"
  OBVIOUS
<1>6. PICK t : t = [r EXCEPT !.pc = c, !.of = @ + r.cur.size, !.cur = r.next, !.next = Zero,
                             !.dirty = FALSE]
  OBVIOUS
<1>7. proc' = [proc EXCEPT ![p] = t] /\ disk' = d /\ fsize' = fsize
  BY <1>5, <1>6 DEF WriteStore
<1>8. harm' \subseteq Harms /\ calls' \in 0 .. MaxCalls /\ restarts' \in 0 .. MaxRestarts
  BY DEF WriteStore, Shaped
<1>9. Zero \in Block /\ Copy(Zero, fsize) /\ InMap(r.map, Zero)
  BY ZeroFacts DEF Copy, InMap
<1> HIDE DEF d, r
<1>10. /\ t \in Process /\ t.pc = c /\ t.name = r.name /\ t.cur = r.next /\ t.next = Zero
       /\ t.parent = r.parent /\ t.ino = r.ino /\ t.map = r.map /\ t.fill = r.fill
  BY <1>1, <1>4, <1>5, <1>6, <1>9 DEF Process, Pcs
<1>11. /\ r.parent.type = "FILE" /\ r.parent.pos = ParentPos /\ r.ino[r.name] # Zero
       /\ r.name \in Names /\ Copy(r.next, fsize) /\ InMap(r.map, r.next)
       /\ r.fill = 0 /\ Wider(r.map, r, fsize)
  BY <1>1, SameMap, NoFill DEF Running, Fits
<1>12. Running(t, fsize)
  BY <1>1, <1>2, <1>5, <1>9, <1>10, <1>11, StepRunning
<1> QED
  BY <1>3, <1>7, <1>8, <1>12, SameLength, ShapedStep

(* An inode is written from a copy, with another size, head or format.     *)
LEMMA InodeUsed ==
  ASSUME NEW fs, NEW r, Running(r, fs), r.name \in Names, r.ino[r.name] # Zero,
         NEW len \in Nat
  PROVE  /\ Used([r.ino[r.name] EXCEPT !.size = len], fs)
         /\ [r.ino[r.name] EXCEPT !.size = len].pos = r.ino[r.name].pos
         /\ Used([r.ino[r.name] EXCEPT !.size = len, !.has = {}, !.fpos = None], fs)
         /\ [r.ino[r.name] EXCEPT !.size = len, !.has = {}, !.fpos = None].pos
              = r.ino[r.name].pos
<1>1. Used(r.ino[r.name], fs)
  BY CopyFacts DEF Running
<1>2. None \in Links
  BY PositionFacts
<1> QED
  BY <1>1, <1>2 DEF Used, Block

(* A process after it has written the inode b of its child, with what the  *)
(* file's inode tells of it.                                               *)
LEMMA InodeRunning ==
  ASSUME NEW fs \in [Journals -> Nat], NEW r, Running(r, fs), r.name \in Names,
         r.pc \notin {"closed", "slot", "first", "next"},
         NEW b, Used(b, fs), b.pos = r.ino[r.name].pos, r.ino[r.name] # Zero,
         NEW h, h \subseteq {"BINARY", "CRED", "ACCESS"}
  PROVE  /\ Running([r EXCEPT !.ino[r.name] = b], fs)
         /\ [r EXCEPT !.ino[r.name] = b].pc = r.pc
         /\ Running([r EXCEPT !.pc = "save", !.ino[r.name] = b, !.parent.has = h], fs)
<1>1. b \in Block /\ b # Zero /\ Copy(b, fs)
  BY ZeroFacts DEF Used, Copy
<1>2. InMap(r.map, b)
  BY DEF Running, Fits, InMap
<1>3. /\ Wider(r.map, r, fs) /\ r.fill = 0 /\ r \in Process
      /\ r.parent.type = "FILE" /\ r.parent.pos = ParentPos /\ r.parent \in Block
  BY SameMap, NoFill DEF Running, Process
<1>4. PICK t : t = [r EXCEPT !.ino[r.name] = b]
  OBVIOUS
<1>5. /\ t \in Process /\ t.pc = r.pc /\ t.name = r.name /\ t.cur = r.cur /\ t.next = r.next
      /\ t.parent = r.parent /\ t.idx = r.idx /\ t.map = r.map /\ t.fill = r.fill
      /\ \A k \in Names : t.ino[k] = IF k = r.name THEN b ELSE r.ino[k]
  BY <1>1, <1>3, <1>4 DEF Process
<1>6. Running(t, fs)
  <2>1. /\ t.pc \in {"child", "parent", "next", "store"} => t.cur # Zero
        /\ t.pc \in {"clear", "cut"} => t.idx # None
    BY <1>5 DEF Running
  <2> QED
    BY <1>1, <1>2, <1>3, <1>5, <2>1, StepRunning
<1>7. PICK g : g = [r.parent EXCEPT !.has = h]
  OBVIOUS
<1>8. g \in Block /\ g.type = "FILE" /\ g.pos = ParentPos
  BY <1>3, <1>7 DEF Block
<1>9. PICK u : u = [r EXCEPT !.pc = "save", !.ino[r.name] = b, !.parent = g]
  OBVIOUS
<1>10. /\ u \in Process /\ u.pc = "save" /\ u.name = r.name /\ u.cur = r.cur /\ u.next = r.next
       /\ u.parent = g /\ u.map = r.map /\ u.fill = r.fill
       /\ \A k \in Names : u.ino[k] = IF k = r.name THEN b ELSE r.ino[k]
  BY <1>1, <1>3, <1>8, <1>9 DEF Process, Pcs
<1>11. Running(u, fs)
  BY <1>1, <1>2, <1>3, <1>8, <1>10, StepRunning
<1>12. u = [r EXCEPT !.pc = "save", !.ino[r.name] = b, !.parent.has = h]
  BY <1>3, <1>7, <1>9 DEF Process
<1> QED
  BY <1>4, <1>5, <1>6, <1>11, <1>12

(* The steps that write the inode of the child.                            *)
LEMMA InodeShaped ==
  ASSUME Shaped, NEW p \in Procs,
         WriteInode(p) \/ ClearInode(p) \/ TruncateInode(p)
  PROVE  Shaped'
<1> DEFINE r == proc[p]
<1>1. /\ Running(r, fsize) /\ Formed(disk, fsize) /\ fsize \in [Journals -> Nat]
      /\ r.pc \in {"inode", "clearinode", "resize"} /\ r \in Process
  BY DEF Shaped, WriteInode, ClearInode, TruncateInode, Running
<1>2. /\ r.name \in Names /\ r.ino[r.name] # Zero /\ Len(r.data) \in Nat
      /\ r.parent \in Block /\ r.parent.has \subseteq {"BINARY", "CRED", "ACCESS"}
  <2>1. /\ r.name \in Names /\ r.ino[r.name] # Zero /\ Len(r.data) \in Nat
        /\ r.parent \in Block
    BY <1>1 DEF Running, Process
  <2> QED
    BY <2>1 DEF Block
<1>3. /\ fsize' = fsize /\ harm' = harm /\ calls' = calls /\ restarts' = restarts
  BY DEF WriteInode, ClearInode, TruncateInode
<1>4. PICK b, h : /\ Used(b, fsize) /\ disk' = [disk EXCEPT ![b.pos] = b]
                  /\ b.pos = r.ino[r.name].pos /\ h \subseteq {"BINARY", "CRED", "ACCESS"}
                  /\ \/ proc' = [proc EXCEPT ![p] =
                                   [r EXCEPT !.pc = "save", !.ino[r.name] = b, !.parent.has = h]]
                     \/ proc' = [proc EXCEPT ![p] = Return([r EXCEPT !.ino[r.name] = b])]
  <2>1. CASE WriteInode(p) \/ TruncateInode(p)
    <3>1. PICK b : b = [r.ino[r.name] EXCEPT !.size = Len(r.data)]
      OBVIOUS
    <3>2. Used(b, fsize) /\ b.pos = r.ino[r.name].pos
      BY <1>1, <1>2, <3>1, InodeUsed
    <3>3. PICK h : h = IF WriteInode(p) THEN r.parent.has \union Kind(r.name) ELSE r.parent.has
      OBVIOUS
    <3>4. h \subseteq {"BINARY", "CRED", "ACCESS"}
      BY <1>2, <3>3, FormatType
    <3>5. disk' = [disk EXCEPT ![b.pos] = b]
      BY <2>1, <3>1, Zenon DEF WriteInode, TruncateInode
    <3>6. CASE WriteInode(p)
      <4>1. proc' = [proc EXCEPT ![p] =
              [r EXCEPT !.pc = "save", !.ino[r.name] = b, !.parent.has = h]]
        BY <3>1, <3>3, <3>6 DEF WriteInode
      <4> QED
        BY <3>2, <3>4, <3>5, <4>1
    <3>7. CASE ~WriteInode(p)
      <4>1. proc' = [proc EXCEPT ![p] = [r EXCEPT !.pc = "save", !.ino[r.name] = b]]
        BY <2>1, <3>1, <3>7, Zenon DEF TruncateInode
      <4>2. [r EXCEPT !.pc = "save", !.ino[r.name] = b]
              = [r EXCEPT !.pc = "save", !.ino[r.name] = b, !.parent.has = h]
        <5>1. [r.parent EXCEPT !.has = h] = r.parent
          BY <1>2, <3>3, <3>7 DEF Block
        <5>2. PICK g : g = r.parent /\ g = [r.parent EXCEPT !.has = h]
          BY <5>1
        <5> QED
          BY <1>1, <5>2 DEF Process
      <4> QED
        BY <3>2, <3>4, <3>5, <4>1, <4>2
    <3> QED
      BY <3>6, <3>7
  <2>2. CASE ClearInode(p)
    <3>1. PICK b : b = [r.ino[r.name] EXCEPT !.size = 0, !.has = {}, !.fpos = None]
      OBVIOUS
    <3>2. Used(b, fsize) /\ b.pos = r.ino[r.name].pos
      BY <1>1, <1>2, <3>1, InodeUsed
    <3>3. /\ disk' = [disk EXCEPT ![b.pos] = b]
          /\ proc' = [proc EXCEPT ![p] = Return([r EXCEPT !.ino[r.name] = b])]
      BY <2>2, <3>1, Zenon DEF ClearInode
    <3> QED
      BY <3>2, <3>3
  <2> QED
    BY <2>1, <2>2
<1> HIDE DEF r
<1>5. /\ Running([r EXCEPT !.pc = "save", !.ino[r.name] = b, !.parent.has = h], fsize)
      /\ Running([r EXCEPT !.ino[r.name] = b], fsize)
      /\ [r EXCEPT !.ino[r.name] = b].pc = r.pc
  BY <1>1, <1>2, <1>4, InodeRunning
<1>6. Running(Return([r EXCEPT !.ino[r.name] = b]), fsize)
  BY <1>1, <1>5, ReturnRunning
<1>7. Formed([disk EXCEPT ![b.pos] = b], fsize)
  BY <1>1, <1>4, WriteBlock
<1>8. PICK t : proc' = [proc EXCEPT ![p] = t] /\ Running(t, fsize)
  BY <1>4, <1>5, <1>6
<1>9. harm' \subseteq Harms /\ calls' \in 0 .. MaxCalls /\ restarts' \in 0 .. MaxRestarts
  BY <1>3 DEF Shaped
<1> QED
  BY <1>3, <1>4, <1>7, <1>8, <1>9, SameLength, ShapedStep

LEMMA ClearBeginShaped ==
  ASSUME Shaped, NEW p \in Procs, NEW n \in Names, ClearBegin(p, n)
  PROVE  Shaped'
<1> DEFINE r == proc[p]
           b == r.ino[n]
           c == IF b.fpos = None THEN "clearinode" ELSE "clear"
           t == [r EXCEPT !.pc = c, !.name = n, !.cur = b, !.idx = b.fpos]
<1>1. Running(r, fsize) /\ Formed(disk, fsize) /\ fsize \in [Journals -> Nat]
  BY DEF Shaped
<1>2. /\ calls' \in 0 .. MaxCalls /\ r.pc = "idle" /\ Used(b, fsize) /\ harm' \subseteq Harms
      /\ b \in Block /\ b.fpos \in Links /\ b # Zero /\ r.fill = 0 /\ InMap(r.map, b)
  BY CalledFacts DEF ClearBegin
<1>3. proc' = [proc EXCEPT ![p] = t]
  BY DEF ClearBegin
<1>4. Copy(b, fsize)
  BY <1>2 DEF Copy
<1>5. /\ disk' = disk /\ fsize' = fsize /\ restarts' \in 0 .. MaxRestarts
  BY DEF ClearBegin, Shaped
<1>6. c \in {"clear", "clearinode"} /\ (c = "clear" => b.fpos # None)
  OBVIOUS
<1> HIDE DEF r, c
<1>7. /\ t \in Process /\ t.pc = c /\ t.name = n /\ t.cur = b /\ t.next = r.next
      /\ t.parent = r.parent /\ t.ino = r.ino /\ t.idx = b.fpos /\ t.map = r.map
      /\ t.fill = r.fill
  BY <1>1, <1>2, <1>6 DEF Running, Process, Pcs
<1> HIDE DEF t
<1>8. /\ Wider(r.map, r, fsize) /\ r.parent.type = "FILE" /\ r.parent.pos = ParentPos
  BY <1>1, <1>2, SameMap DEF Running
<1>9. t.pc \in {"clear", "clearinode"} /\ t.ino[t.name] # Zero
      /\ (t.pc = "clear" => t.idx # None)
  BY <1>2, <1>6, <1>7
<1>10. Running(t, fsize)
  BY <1>1, <1>2, <1>4, <1>7, <1>8, <1>9, StepRunning
<1> QED
  BY <1>1, <1>2, <1>3, <1>5, <1>10, SameLength, ShapedStep

LEMMA TruncateBeginShaped ==
  ASSUME Shaped, NEW p \in Procs, NEW n \in Names, NEW len \in Cuts,
         TruncateBegin(p, n, len)
  PROVE  Shaped'
<1> DEFINE r == proc[p]
           b == r.ino[n]
           c == IF len < b.size /\ b.fpos # None THEN "cut"
                ELSE IF len = b.size THEN "save" ELSE "resize"
           t == [r EXCEPT !.pc = c, !.name = n, !.data = Resized(<<>>, len), !.idx = b.fpos]
<1>1. Running(r, fsize) /\ Formed(disk, fsize) /\ fsize \in [Journals -> Nat]
  BY DEF Shaped
<1>2. /\ calls' \in 0 .. MaxCalls /\ r.pc = "idle" /\ Used(b, fsize) /\ harm' \subseteq Harms
      /\ b \in Block /\ b.fpos \in Links /\ b # Zero /\ r.fill = 0
  BY CalledFacts DEF TruncateBegin
<1>3. proc' = [proc EXCEPT ![p] = t]
  BY DEF TruncateBegin
<1>4. c \in {"cut", "save", "resize"} /\ (c = "cut" => b.fpos # None)
  OBVIOUS
<1>5. /\ disk' = disk /\ fsize' = fsize /\ restarts' \in 0 .. MaxRestarts
  BY DEF TruncateBegin, Shaped
<1>6. Resized(<<>>, len) \in Seq([call : Nat, k : Nat])
  <2>1. <<>> \in Seq([call : Nat, k : Nat]) /\ len \in Nat
    BY FsAssumption
  <2> QED
    BY <2>1, ResizedType, Zenon
<1> HIDE DEF r, c
<1>7. /\ t \in Process /\ t.pc = c /\ t.name = n /\ t.cur = r.cur /\ t.next = r.next
      /\ t.parent = r.parent /\ t.ino = r.ino /\ t.idx = b.fpos /\ t.map = r.map
      /\ t.fill = r.fill
  BY <1>1, <1>2, <1>4, <1>6 DEF Running, Process, Pcs
<1> HIDE DEF t
<1>8. /\ Wider(r.map, r, fsize) /\ r.parent.type = "FILE" /\ r.parent.pos = ParentPos
  BY <1>1, <1>2, SameMap DEF Running
<1>9. t.pc \in {"cut", "save", "resize"} /\ t.ino[t.name] # Zero
      /\ (t.pc = "cut" => t.idx # None)
  BY <1>2, <1>4, <1>7
<1>10. Running(t, fsize)
  BY <1>1, <1>2, <1>7, <1>8, <1>9, StepRunning
<1> QED
  BY <1>1, <1>2, <1>3, <1>5, <1>10, SameLength, ShapedStep

LEMMA ClearBlockShaped ==
  ASSUME Shaped, NEW p \in Procs, ClearBlock(p)
  PROVE  Shaped'
<1> DEFINE r == proc[p]
           m == Use(p, {r.idx.jno})
           t == [r EXCEPT !.pc = "follow", !.map = m]
<1>1. Running(r, fsize) /\ Formed(disk, fsize) /\ r.pc = "clear" /\ r \in Process
  BY DEF Shaped, ClearBlock, Running
<1>2. r.idx \in Others
  BY <1>1 DEF Running, Process, Links
<1>3. /\ fsize' = fsize /\ calls' \in 0 .. MaxCalls /\ restarts' \in 0 .. MaxRestarts
  BY DEF ClearBlock, Shaped
<1>4. harm' \subseteq Harms
  BY HarmTypes DEF ClearBlock, Fails, Shaped, Harms
<1>5. CASE Readable(p, r.idx)
  <2>1. disk' = [disk EXCEPT ![r.idx] = Zero] /\ proc' = [proc EXCEPT ![p] = t]
    BY <1>5 DEF ClearBlock
  <2>2. Wider(m, r, fsize) /\ m \in [Journals -> Nat]
    BY MapTypes DEF Wider
  <2>3. Formed([disk EXCEPT ![r.idx] = Zero], fsize)
    BY <1>1, <1>2, WriteZero
  <2> HIDE DEF m, r
  <2>4. /\ t \in Process /\ t.pc = "follow" /\ t.name = r.name /\ t.cur = r.cur
        /\ t.next = r.next /\ t.parent = r.parent /\ t.ino = r.ino /\ t.map = m
        /\ t.fill = r.fill
    BY <1>1, <2>2 DEF Process, Pcs
  <2> HIDE DEF t
  <2>5. /\ r.parent.type = "FILE" /\ r.parent.pos = ParentPos /\ r.fill = 0
        /\ r.ino[r.name] # Zero /\ r.name \in Names
    BY <1>1, NoFill DEF Running
  <2>6. Running(t, fsize)
    BY <1>1, <2>2, <2>4, <2>5, StepRunning
  <2> QED
    BY <1>3, <1>4, <2>1, <2>3, <2>6, SameLength, ShapedStep
<1>6. CASE ~Readable(p, r.idx)
  <2>1. proc' = [proc EXCEPT ![p] = Return(r)] /\ disk' = disk
    BY <1>6 DEF ClearBlock, Fails
  <2>2. Running(Return(r), fsize)
    BY <1>1, ReturnRunning
  <2> QED
    BY <1>1, <1>3, <1>4, <2>1, <2>2, SameLength, ShapedStep
<1> QED
  BY <1>5, <1>6

LEMMA ClearNextShaped ==
  ASSUME Shaped, NEW p \in Procs, ClearNext(p)
  PROVE  Shaped'
<1> DEFINE r    == proc[p]
           npos == r.cur.npos
           nblk == IF npos = None THEN Zero ELSE disk[npos]
           m    == Use(p, {npos.jno})
           c    == IF nblk.npos = None THEN "clearinode" ELSE "clear"
           t    == [r EXCEPT !.cur = nblk, !.idx = nblk.npos, !.pc = c, !.map = m]
<1>1. Running(r, fsize) /\ Formed(disk, fsize) /\ r.pc = "follow" /\ r \in Process
  BY DEF Shaped, ClearNext, Running
<1>2. npos \in Links
  BY <1>1, CopyFacts DEF Running
<1>3. /\ fsize' = fsize /\ disk' = disk /\ calls' \in 0 .. MaxCalls
      /\ restarts' \in 0 .. MaxRestarts
  BY DEF ClearNext, Shaped
<1>4. harm' \subseteq Harms
  BY HarmTypes DEF ClearNext, Fails, Shaped
<1>5. CASE npos = None \/ Readable(p, npos)
  <2>1. proc' = [proc EXCEPT ![p] = t]
    BY <1>5, Zenon DEF ClearNext
  <2>2. Wider(m, r, fsize) /\ m \in [Journals -> Nat]
    BY MapTypes DEF Wider
  <2>3. Copy(nblk, fsize) /\ InMap(m, nblk)
    <3>1. Copy(Zero, fsize) /\ InMap(m, Zero)
      BY ZeroFacts DEF Copy, InMap
    <3>2. ASSUME npos # None PROVE Copy(disk[npos], fsize) /\ InMap(m, disk[npos])
      <4>1. npos \in Others
        BY <1>2, <3>2 DEF Links
      <4>2. Copy(disk[npos], fsize) /\ disk[npos].pos \in {npos, None}
        BY <1>1, <4>1, ReadCopy
      <4> QED
        BY <1>5, <3>2, <4>1, <4>2, ReadMapped
    <3> QED
      BY <3>1, <3>2
  <2>4. nblk \in Block /\ nblk.npos \in Links
    BY <2>3, CopyFacts
  <2>5. c \in {"clear", "clearinode"} /\ (c = "clear" => nblk.npos # None)
    OBVIOUS
  <2> HIDE DEF m, nblk, c, r
  <2>6. /\ t \in Process /\ t.pc = c /\ t.name = r.name /\ t.cur = nblk /\ t.idx = nblk.npos
        /\ t.next = r.next /\ t.parent = r.parent /\ t.ino = r.ino /\ t.map = m
        /\ t.fill = r.fill
    BY <1>1, <2>2, <2>4, <2>5 DEF Process, Pcs
  <2> HIDE DEF t
  <2>7. /\ r.parent.type = "FILE" /\ r.parent.pos = ParentPos /\ r.fill = 0
        /\ r.ino[r.name] # Zero /\ r.name \in Names
    BY <1>1, NoFill DEF Running
  <2>8. t.pc \in {"clear", "clearinode"} /\ (t.pc = "clear" => t.idx # None)
    BY <2>5, <2>6
  <2>9. Running(t, fsize)
    BY <1>1, <2>2, <2>3, <2>6, <2>7, <2>8, StepRunning
  <2> QED
    BY <1>1, <1>3, <1>4, <2>1, <2>9, SameLength, ShapedStep
<1>6. CASE ~(npos = None \/ Readable(p, npos))
  <2>1. proc' = [proc EXCEPT ![p] = Return(r)]
    BY <1>6 DEF ClearNext, Fails
  <2>2. Running(Return(r), fsize)
    BY <1>1, ReturnRunning
  <2> QED
    BY <1>1, <1>3, <1>4, <2>1, <2>2, SameLength, ShapedStep
<1> QED
  BY <1>5, <1>6

LEMMA TruncateBlockShaped ==
  ASSUME Shaped, NEW p \in Procs, TruncateBlock(p)
  PROVE  Shaped'
<1> DEFINE r   == proc[p]
           blk == disk[r.idx]
           m   == Use(p, {r.idx.jno})
           d   == IF r.of >= Len(r.data) THEN [disk EXCEPT ![r.idx] = Zero] ELSE disk
           c   == IF blk.npos = None THEN "resize" ELSE "cut"
           t   == [r EXCEPT !.of = @ + blk.size, !.idx = blk.npos, !.pc = c, !.map = m]
<1>1. Running(r, fsize) /\ Formed(disk, fsize) /\ r.pc = "cut" /\ r \in Process
  BY DEF Shaped, TruncateBlock, Running
<1>2. r.idx \in Others
  BY <1>1 DEF Running, Process, Links
<1>3. /\ fsize' = fsize /\ calls' \in 0 .. MaxCalls /\ restarts' \in 0 .. MaxRestarts
  BY DEF TruncateBlock, Shaped
<1>4. harm' \subseteq Harms
  BY HarmTypes DEF TruncateBlock, Fails, Shaped
<1>5. CASE Readable(p, r.idx)
  <2>1. disk' = d /\ proc' = [proc EXCEPT ![p] = t]
    BY <1>5, Zenon DEF TruncateBlock
  <2>2. Wider(m, r, fsize) /\ m \in [Journals -> Nat]
    BY MapTypes DEF Wider
  <2>3. blk \in Block /\ blk.npos \in Links
    BY <1>1, <1>2, ReadCopy, CopyFacts
  <2>4. blk.size \in Nat
    BY <2>3 DEF Block
  <2>5. r.of + blk.size \in Nat
    BY <1>1, <2>4 DEF Process
  <2>6. Formed(d, fsize)
    <3>1. Formed([disk EXCEPT ![r.idx] = Zero], fsize)
      BY <1>1, <1>2, WriteZero
    <3> QED
      BY <1>1, <3>1
  <2>7. c \in {"resize", "cut"} /\ (c = "cut" => blk.npos # None)
    OBVIOUS
  <2> HIDE DEF m, blk, d, c, r
  <2>8. /\ t \in Process /\ t.pc = c /\ t.name = r.name /\ t.cur = r.cur /\ t.idx = blk.npos
        /\ t.next = r.next /\ t.parent = r.parent /\ t.ino = r.ino /\ t.map = m
        /\ t.fill = r.fill
    BY <1>1, <2>2, <2>3, <2>5, <2>7 DEF Process, Pcs
  <2> HIDE DEF t
  <2>9. /\ r.parent.type = "FILE" /\ r.parent.pos = ParentPos /\ r.fill = 0
        /\ r.ino[r.name] # Zero /\ r.name \in Names
    BY <1>1, NoFill DEF Running
  <2>10. t.pc \in {"cut", "resize"} /\ (t.pc = "cut" => t.idx # None)
    BY <2>7, <2>8
  <2>11. Running(t, fsize)
    BY <1>1, <2>2, <2>8, <2>9, <2>10, StepRunning
  <2> QED
    BY <1>3, <1>4, <2>1, <2>6, <2>11, SameLength, ShapedStep
<1>6. CASE ~Readable(p, r.idx)
  <2>1. proc' = [proc EXCEPT ![p] = Return(r)] /\ disk' = disk
    BY <1>6 DEF TruncateBlock, Fails
  <2>2. Running(Return(r), fsize)
    BY <1>1, ReturnRunning
  <2> QED
    BY <1>1, <1>3, <1>4, <2>1, <2>2, SameLength, ShapedStep
<1> QED
  BY <1>5, <1>6

LEMMA ShapedInit == Init => Shaped
<1> SUFFICES ASSUME Init PROVE Shaped
  OBVIOUS
<1>1. fsize \in [Journals -> Nat] /\ \A j \in Journals : fsize[j] = INIT_BLOCKS
  BY FsAssumption DEF Init
<1>2. \A pos \in Positions : disk[pos] = Created(pos)
  BY DEF Init
<1>3. FirstChild \in Links
  BY PositionFacts DEF FirstChild, Links
<1>4. /\ Created(ParentPos) \in Block /\ Created(ParentPos).type = "FILE"
      /\ Created(ParentPos).pos = ParentPos
  <2>1. Parent \in Block /\ Parent.type = "FILE" /\ Parent.pos = ParentPos
    <3>1. Zero \in Block /\ ParentPos \in Positions
      BY ZeroFacts, PositionFacts
    <3>2. 1 \in 0 .. JOURNALS
      BY FsAssumption
    <3> QED
      BY <3>1, <3>2 DEF Parent, Block
  <2>2. Created(ParentPos) = [Parent EXCEPT !.fpos = FirstChild]
    BY DEF Created
  <2> QED
    BY <1>3, <2>1, <2>2 DEF Block
<1>5. ASSUME NEW pos \in Others
      PROVE  Created(pos) = Zero \/ (Used(Created(pos), fsize) /\ Created(pos).pos = pos)
  <2> DEFINE old == {n \in Earlier : pos = EarlierPos(n)}
             n   == CHOOSE n \in old : TRUE
  <2>1. CASE old = {}
    BY <1>5, <2>1 DEF Created, Others
  <2>2. CASE old # {}
    <3>1. n \in Earlier /\ pos = EarlierPos(n)
      BY <2>2
    <3>2. Created(pos) = [Child(n) EXCEPT !.pos = pos]
      BY <1>5, <2>2 DEF Created, Others
    <3> HIDE DEF n
    <3>3. n \in Names /\ pos.ino = INIT_BLOCKS - 1 /\ pos.jno \in Journals
      <4>1. pos \in Positions
        BY <1>5 DEF Others
      <4>2. pos.jno \in Journals
        BY <4>1, PositionFacts
      <4>3. pos.ino = INIT_BLOCKS - 1
        BY <3>1 DEF EarlierPos, At
      <4> QED
        BY <3>1, <4>2, <4>3, FsAssumption
    <3>4. pos.ino < fsize[pos.jno]
      BY <3>3, <1>1, FsAssumption
    <3>5. Used([Child(n) EXCEPT !.pos = pos], fsize)
      BY <3>3, <3>4, <1>5, NewBlocks
    <3>6. [Child(n) EXCEPT !.pos = pos].pos = pos
      BY DEF Child, Zero
    <3> QED
      BY <3>2, <3>5, <3>6
  <2> QED
    BY <2>1, <2>2
<1>6. disk \in [Positions -> Block]
  <2>1. \A pos \in Positions : Created(pos) \in Block
    BY <1>4, <1>5, ZeroFacts DEF Others, Used
  <2> QED
    BY <2>1 DEF Init
<1>7. Formed(disk, fsize)
  <2>1. ParentPos.ino = INIT_BLOCKS - 1 /\ ParentPos.jno \in Journals
    BY PositionFacts DEF ParentPos, At
  <2>2. ParentPos.ino < fsize[ParentPos.jno]
    BY <2>1, <1>1, FsAssumption
  <2> QED
    BY <1>2, <1>4, <1>5, <1>6, <2>2, PositionFacts DEF Formed
<1>8. \A p \in Procs : Running(proc[p], fsize) /\ proc[p] \in Process
  BY <1>1, ClosedRunning DEF Init, Running
<1>9. proc \in [Procs -> Process]
  BY <1>8 DEF Init
<1>10. harm \subseteq Harms /\ calls \in 0 .. MaxCalls /\ restarts \in 0 .. MaxRestarts
  BY FsAssumption DEF Init
<1>11. \A j \in Journals : INIT_BLOCKS <= fsize[j]
  BY <1>1, FsAssumption
<1> QED
  BY <1>1, <1>7, <1>8, <1>9, <1>10, <1>11 DEF Shaped

LEMMA ShapedNext == Shaped /\ [Next]_vars => Shaped'
<1> SUFFICES ASSUME Shaped, [Next]_vars PROVE Shaped'
  OBVIOUS
<1>1. CASE UNCHANGED vars
  BY <1>1 DEF vars, Shaped
<1>2. ASSUME NEW p \in Procs, Open(p) \/ Close(p) \/ Crash(p) PROVE Shaped'
  BY <1>2, OpenShaped, EndShaped
<1>3. ASSUME NEW p \in Procs, Step(p) PROVE Shaped'
  BY <1>3, LinkScanShaped, LinkChildShaped, LinkParentShaped, ParentSaveShaped,
     WriteFirstShaped, WriteNextShaped, WriteStoreShaped, InodeShaped, ClearBlockShaped,
     ClearNextShaped, TruncateBlockShaped, GrowStatShaped, GrowFillShaped
  DEF Step
<1>4. ASSUME NEW p \in Procs, NEW n \in Names \ Earlier, Call(p, n) PROVE Shaped'
  BY <1>4, InodeFindShaped, WriteBeginShaped, ClearBeginShaped, TruncateBeginShaped DEF Call
<1> QED
  BY <1>1, <1>2, <1>3, <1>4 DEF Next

(* The blocks of the journals keep their form and every block in use is    *)
(* at its own position inside its file; what a process is about to write   *)
(* or to clear has a place.  With damaged chains too: whatever processes   *)
(* do to each other's chains, no block is written outside the files or     *)
(* over the inode of the file.                                             *)
THEOREM FsTypes == Spec => []TypeOK
<1>1. Shaped => TypeOK
  <2> SUFFICES ASSUME Shaped PROVE TypeOK
    OBVIOUS
  <2>1. ASSUME NEW pos \in Positions
        PROVE  /\ disk[pos].type \in {"NULL", "AUX", "CHILD", "FILE"}
               /\ disk[pos].type # "NULL" => disk[pos].pos = pos /\ pos.ino < fsize[pos.jno]
               /\ {disk[pos].npos, disk[pos].fpos} \subseteq Positions \union {None}
    <3>1. disk[pos] \in Block
      BY DEF Shaped, Formed
    <3>2. CASE pos = ParentPos
      BY <3>1, <3>2 DEF Shaped, Formed, Block, Links, Others
    <3>3. CASE pos \in Others
      <4>1. disk[pos] = Zero \/ (Used(disk[pos], fsize) /\ disk[pos].pos = pos)
        BY <3>3 DEF Shaped, Formed
      <4>2. disk[pos].type # "NULL" => disk[pos].pos = pos /\ pos.ino < fsize[pos.jno]
        BY <4>1, ZeroFacts DEF Used
      <4> QED
        BY <3>1, <4>2 DEF Block, Links, Others
    <3> QED
      BY <3>2, <3>3 DEF Others
  <2>2. ASSUME NEW p \in Procs
        PROVE  {proc[p].cur.pos, proc[p].next.pos, proc[p].idx} \subseteq Positions \union {None}
    <3>1. proc[p].cur \in Block /\ proc[p].next \in Block /\ proc[p].idx \in Links
      BY DEF Shaped, Process
    <3> QED
      BY <3>1 DEF Block, Links, Others
  <2>3. /\ fsize \in [Journals -> Nat] /\ calls <= MaxCalls /\ restarts <= MaxRestarts
        /\ harm \subseteq {"own", "slot", "reuse", "loose", "clear", "stale", "wiped",
                            "shared", "past"}
    BY DEF Shaped, Harms
  <2> QED
    BY <2>1, <2>2, <2>3 DEF TypeOK
<1> QED
  BY <1>1, ShapedInit, ShapedNext, PTL DEF Spec

(* A store into a block does not test the map, which another process may   *)
(* have outgrown, but every block that a process is about to write is in   *)
(* its map: the copies of inodes and blocks that it keeps came from its    *)
(* map, its scans return blocks of it, and it never shrinks.  With damaged *)
(* chains too.                                                             *)
THEOREM FsMaps == Spec => []StoresMapped
<1>1. Shaped => StoresMapped
  <2> SUFFICES ASSUME Shaped, NEW p \in Procs,
                      proc[p].pc \in {"child", "store", "inode", "clearinode", "resize",
                                     "parent", "save"}
               PROVE  Readable(p, Target(p))
    BY DEF StoresMapped
  <2> DEFINE r == proc[p]
  <2>1. Running(r, fsize) /\ r \in Process /\ Fits(r, fsize)
    BY DEF Shaped, Running
  <2>2. PICK b \in {r.cur, r.parent, r.ino[r.name]} :
          b \in Block /\ b.pos = Target(p) /\ b.pos # None /\ InMap(r.map, b)
    <3>1. CASE r.pc \in {"child", "store"}
      <4>1. r.cur # Zero /\ Copy(r.cur, fsize) /\ InMap(r.map, r.cur)
        BY <2>1, <3>1 DEF Running, Fits
      <4>2. Target(p) = r.cur.pos
        BY <3>1 DEF Target
      <4> QED
        BY <4>1, <4>2, CopyFacts
    <3>2. CASE r.pc \in {"inode", "clearinode", "resize"}
      <4>1. r.name \in Names /\ r.ino[r.name] # Zero
        BY <2>1, <3>2 DEF Running
      <4>2. Copy(r.ino[r.name], fsize) /\ InMap(r.map, r.ino[r.name])
        BY <2>1, <4>1 DEF Running, Fits
      <4>3. Target(p) = r.ino[r.name].pos
        BY <3>2 DEF Target
      <4> QED
        BY <4>1, <4>2, <4>3, CopyFacts
    <3>3. CASE r.pc \in {"parent", "save"}
      <4>1. r.parent.pos = ParentPos /\ InMap(r.map, r.parent) /\ r.parent \in Block
        BY <2>1, <3>3 DEF Running, Fits, Process
      <4>2. Target(p) = ParentPos
        BY <3>3 DEF Target
      <4> QED
        BY <4>1, <4>2, PositionFacts
    <3> QED
      BY <3>1, <3>2, <3>3
  <2>3. b.pos \in Positions /\ b.pos.ino < r.map[b.pos.jno]
    BY <2>2 DEF InMap, Block
  <2>4. /\ b.pos.jno \in Journals /\ b.pos.ino \in Nat /\ b.pos.ino < MAX_BLOCK
        /\ r.map[b.pos.jno] \in Nat
    BY <2>1, <2>3, PositionFacts DEF Process
  <2>5. Mapped(p, b.pos.jno) = r.map[b.pos.jno]
    BY <2>3, <2>4 DEF Mapped
  <2> QED
    BY <2>2, <2>3, <2>4, <2>5 DEF Readable
<1> QED
  BY <1>1, ShapedInit, ShapedNext, PTL DEF Spec

=============================================================================
