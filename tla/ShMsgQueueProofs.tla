-------------------------- MODULE ShMsgQueueProofs --------------------------
(***************************************************************************)
(* Theorems about ShMsgQueue for every table size, data area, set of peers *)
(* and choice of message sizes.                                            *)
(***************************************************************************)
EXTENDS MCMsgFifo, ShMsgMapProofs, FiniteSetTheorems, FunctionTheorems, SequenceTheorems

(* What shmsg_read copies out is made of bytes of the data area.           *)
LEMMA CopyType ==
  ASSUME Sound(q), NEW idx \in Slots
  PROVE  /\ CopyOf(q.msg[idx]).src \in Peers \union {Blank}
         /\ CopyOf(q.msg[idx]).bytes \subseteq Values \union {Blank}
<1> DEFINE m == q.msg[idx]
<1>1. m \in Message /\ m.of + m.size <= DATA_SIZE
  BY DEF Sound, Region, WithinData
<1>2. m.of .. m.of + m.size - 1 \subseteq Bytes
  BY <1>1, MsgMapAssumption DEF Message, Bytes
<1>3. \A o \in Bytes : q.data[o] \in Values \union {Blank}
  BY DEF Sound, Region
<1>4. m.src \in Peers \union {Blank}
  BY <1>1 DEF Message
<1> HIDE DEF m
<1>5. QED
  BY <1>2, <1>3, <1>4 DEF CopyOf, m

(* The inductive invariant: the region is well formed.                     *)
IInv == TypeOK /\ InBounds

LEMMA InitIInv == Init => IInv
BY InitSound DEF Init, IInv, TypeOK, InBounds, Sound, Results, Nothing

(* A whole call of shmsg_write keeps the region well formed.               *)
LEMMA WriteIInv ==
  ASSUME IInv, NEW src \in Peers, NEW dest \in Peers, NEW size \in Sizes,
         NEW v \in Values, ShmsgWrite(src, dest, size, v)
  PROVE  IInv'
<1> DEFINE
      idx == WriteSlot(q)
      m == Addressed(src, dest)
<1>1. Sound(q) /\ idx \in Slots
  BY WriteSlotType DEF IInv, TypeOK, InBounds, Sound
<1>2. Sound(m)
  BY <1>1, WriteMapSound, AddressSound DEF Addressed
<1>3. size \in Nat
  BY MsgMapAssumption
<1>4. \/ q' = q
      \/ q' = ShmsgRelease(m, idx)
      \/ DataFits(m, size) /\ q' = ShmsgWriteMapData(m, idx, size, v)
  BY DEF ShmsgWrite
<1> HIDE DEF m, idx
<1>5. Sound(q')
  BY <1>1, <1>2, <1>3, <1>4, ReleaseSound, WriteMapDataSound
<1>6. ret' \in Results /\ got' = got
  BY DEF ShmsgWrite, Results
<1>7. QED
  BY <1>5, <1>6 DEF IInv, TypeOK, InBounds, Sound

(* A whole call of shmsg_read keeps the region well formed.                *)
LEMMA ReadIInv ==
  ASSUME IInv, NEW key, ShmsgRead(key)
  PROVE  IInv'
<1>1. Sound(q)
  BY DEF IInv, TypeOK, InBounds, Sound
<1>2. CASE ReadableSlots(q, key) = {}
  BY <1>2 DEF IInv, TypeOK, InBounds, ShmsgRead, Results
<1>3. CASE ReadableSlots(q, key) # {}
  <2> DEFINE idx == ReadSlot(q, key)
  <2>1. idx \in Slots
    BY <1>1, <1>3, ReadSlotType DEF Sound
  <2>2. /\ q' = ShmsgRelease(ShmsgReadAdvance(q, idx), idx)
        /\ got' = CopyOf(q.msg[idx])
        /\ ret' \in Results
    BY <1>3 DEF ShmsgRead, Results
  <2> HIDE DEF idx
  <2>3. Sound(q')
    BY <1>1, <2>1, <2>2, ReadAdvanceSound, ReleaseSound
  <2>4. QED
    BY <1>1, <2>1, <2>2, <2>3, CopyType DEF IInv, TypeOK, InBounds, Sound
<1>4. QED
  BY <1>2, <1>3

(* Setting a flag keeps the region well formed.                            *)
LEMMA CtlIInv ==
  ASSUME IInv, NEW value \in BOOLEAN, ShmsgctlOverflow(value)
  PROVE  IInv'
BY DEF IInv, TypeOK, InBounds, ShmsgctlOverflow, Region, WithinData

(* For every table size, data area and choice of message sizes (zero and   *)
(* too large ones included), destinations and overflow settings, no memcpy *)
(* of the queue code leaves the mapped file.                               *)
THEOREM MsgBounds == Spec => [](TypeOK /\ InBounds)
<1>1. Init => IInv
  BY InitIInv
<1>2. IInv /\ [Next]_vars => IInv'
  <2> SUFFICES ASSUME IInv, [Next]_vars PROVE IInv'
    OBVIOUS
  <2>1. ASSUME NEW src \in Peers, NEW dest \in Readers \union {Owner},
               NEW size \in Sizes, NEW v \in Values, ShmsgWrite(src, dest, size, v)
        PROVE  IInv'
    BY <2>1, WriteIInv, MsgQueueAssumption
  <2>2. ASSUME NEW key \in Readers, ShmsgRead(key) PROVE IInv'
    BY <2>2, ReadIInv
  <2>3. ASSUME NEW value \in BOOLEAN, ShmsgctlOverflow(value) PROVE IInv'
    BY <2>3, CtlIInv
  <2>4. CASE UNCHANGED vars
    BY <2>4 DEF vars, IInv, TypeOK, InBounds
  <2>5. QED
    BY <2>1, <2>2, <2>3, <2>4 DEF Next
<1>3. QED
  BY <1>1, <1>2, PTL DEF Spec, IInv

(* Whatever is written, the region keeps the shape of shmsgq_t, and what   *)
(* shmsg_read hands over comes from a peer and from the data area.         *)
THEOREM MsgTypes == Spec => []TypeOK
BY MsgBounds, PTL

-----------------------------------------------------------------------------
(* Among the entries in use, shmsg_write changes at most the one at        *)
(* read_idx, and that one only to make room.                               *)
LEMMA WriteKeepsUnread ==
  ASSUME IInv, NEW src \in Peers, NEW dest \in Peers, NEW size \in Sizes,
         NEW v \in Values, ShmsgWrite(src, dest, size, v)
  PROVE  KeepsUnread
<1> DEFINE idx == WriteSlot(q)
<1>1. Sound(q) /\ idx \in Slots
  BY WriteSlotType DEF IInv, TypeOK, InBounds, Sound
<1>2. CASE q' = q
  BY <1>2 DEF KeepsUnread
<1>3. CASE /\ ~QueueFull(q)
           /\ \/ q' = ShmsgRelease(Addressed(src, dest), idx)
              \/ q' = ShmsgWriteMapData(Addressed(src, dest), idx, size, v)
  <2>1. \A i \in Slots : i # idx => q'.msg[i] = q.msg[i]
    <3> DEFINE
          w == ShmsgWriteMap(q)
          a == Addressed(src, dest)
    <3>1. w \in Region /\ \A i \in Slots : i # idx => w.msg[i] = q.msg[i]
      BY <1>1, WriteMapSound DEF Sound, Region, ShmsgWriteMap
    <3>2. a = ShmsgAddress(w, idx, src, dest)
      BY DEF Addressed
    <3> HIDE DEF idx, w, a
    <3>3. \A i \in Slots : i # idx => a.msg[i] = w.msg[i]
      BY <1>1, <3>1, <3>2 DEF Region, ShmsgAddress
    <3>4. a \in Region
      BY <1>1, <3>2, WriteMapSound, AddressSound DEF Sound, w
    <3>5. q' = ShmsgRelease(a, idx) \/ q' = ShmsgWriteMapData(a, idx, size, v)
      BY <1>3 DEF a
    <3>6. \A i \in Slots : i # idx => q'.msg[i] = a.msg[i]
      BY <1>1, <3>4, <3>5 DEF Region, ShmsgRelease, ShmsgWriteMapData
    <3>7. QED
      BY <3>1, <3>3, <3>6
  <2>2. FreeSlots(q) # {} => idx \notin Occupied(q)
    <3>1. FreeSlots(q) \subseteq Slots /\ q.write_idx \in Slots
      BY <1>1 DEF FreeSlots, WriteScan, Sound, Region
    <3>2. FreeSlots(q) # {} => idx \in FreeSlots(q)
      BY <3>1, FirstFromIsFirst DEF WriteSlot
    <3>3. QED
      BY <3>2 DEF FreeSlots
  <2>3. FreeSlots(q) = {} => q.overflow /\ idx = q.read_idx
    BY <1>3 DEF QueueFull, WriteSlot
  <2>4. Occupied(q) \subseteq Slots
    BY DEF Occupied
  <2> HIDE DEF idx
  <2>5. QED
    BY <2>1, <2>2, <2>3, <2>4 DEF KeepsUnread
<1>4. QED
  BY <1>2, <1>3 DEF ShmsgWrite

(* shmsg_read changes only the entry it returns.                           *)
LEMMA ReadKeepsUnread ==
  ASSUME IInv, NEW key \in Readers, ShmsgRead(key)
  PROVE  KeepsUnread
<1>1. Sound(q)
  BY DEF IInv, TypeOK, InBounds, Sound
<1>2. CASE ReadableSlots(q, key) = {}
  BY <1>2 DEF KeepsUnread, ShmsgRead
<1>3. CASE ReadableSlots(q, key) # {}
  <2> DEFINE idx == ReadSlot(q, key)
  <2>1. idx \in Slots /\ idx \in ReadableSlots(q, key)
    BY <1>1, <1>3, ReadSlotType DEF Sound
  <2>2. q' = ShmsgRelease(ShmsgReadAdvance(q, idx), idx)
    BY <1>3 DEF ShmsgRead
  <2> HIDE DEF idx
  <2>3. /\ \A i \in Slots : i # idx => q'.msg[i] = q.msg[i]
        /\ q'.write_idx = q.write_idx
    BY <1>1, <2>1, <2>2 DEF Sound, Region, ShmsgRelease, ShmsgReadAdvance
  <2>4. QED
    BY <2>1, <2>3 DEF KeepsUnread, Occupied, idx
<1>4. QED
  BY <1>2, <1>3

(* For every choice of the constants, an unread message is only removed by *)
(* the reader it is for or, at read_idx of a full queue with               *)
(* SHMSGF_OVERFLOW, by a writer.                                           *)
THEOREM MsgUnreadKept == Spec => UnreadKept
<1>1. IInv /\ [Next]_vars => [KeepsUnread]_vars
  <2> SUFFICES ASSUME IInv, [Next]_vars PROVE [KeepsUnread]_vars
    OBVIOUS
  <2>1. ASSUME NEW src \in Peers, NEW dest \in Readers \union {Owner},
               NEW size \in Sizes, NEW v \in Values, ShmsgWrite(src, dest, size, v)
        PROVE  KeepsUnread
    BY <2>1, WriteKeepsUnread, MsgQueueAssumption
  <2>2. ASSUME NEW key \in Readers, ShmsgRead(key) PROVE KeepsUnread
    BY <2>2, ReadKeepsUnread
  <2>3. ASSUME NEW value \in BOOLEAN, ShmsgctlOverflow(value) PROVE KeepsUnread
    BY <2>3 DEF ShmsgctlOverflow, KeepsUnread, IInv, TypeOK, Region
  <2>4. QED
    BY <2>1, <2>2, <2>3 DEF Next
<1>2. Spec => []IInv
  BY MsgBounds DEF IInv
<1>3. QED
  BY <1>1, <1>2, PTL DEF Spec, UnreadKept

-----------------------------------------------------------------------------
(***************************************************************************)
(* The message queue implements MsgMailbox, for every table size, in the   *)
(* use it is written for: one receiver, and messages of one size, not      *)
(* empty, of which the data area holds a whole table.                      *)
(*                                                                         *)
(* The data area is then a ring of cells of one message each, at least as  *)
(* many as the table has entries.  The unread messages are consecutive in  *)
(* both rings, so the next cell is never one of theirs; what shmsg_read    *)
(* and an overflow make of read_of never refuses it.                       *)
(***************************************************************************)

(* The use of the queue the theorems are about.                            *)
OneReceiver(S) ==
  /\ S \in Nat \ {0}
  /\ MAX_MESSAGES_PER_QUEUE * S <= DATA_SIZE
  /\ \A size \in Sizes : size = S \/ size >= DATA_SIZE
  /\ Readers = {Owner}

(* Where cell c of the data area begins.                                   *)
Pos(S, c) == c * S

LEMMA PosNat == ASSUME NEW S \in Nat, NEW c \in Nat PROVE Pos(S, c) \in Nat
BY DEF Pos

LEMMA PosFirst == ASSUME NEW S \in Nat PROVE Pos(S, 0) = 0
BY DEF Pos

LEMMA PosNext == ASSUME NEW S \in Nat, NEW c \in Nat PROVE Pos(S, c + 1) = Pos(S, c) + S
BY DEF Pos

(* Cells do not overlap.                                                   *)
LEMMA PosApart ==
  ASSUME NEW S \in Nat, NEW a \in Nat, NEW b \in Nat, a < b
  PROVE  Pos(S, a) + S <= Pos(S, b)
<1>1. PICK d \in Nat : b = a + 1 + d
  <2>1. b - a - 1 \in Nat
    OBVIOUS
  <2> QED
    BY <2>1
<1>2. Pos(S, b) = a * S + S + d * S
  BY <1>1 DEF Pos
<1>3. d * S \in Nat
  OBVIOUS
<1> QED
  BY <1>2, <1>3 DEF Pos

(* The cells of the data area: one for each entry at least.                *)
Cells(S) == DATA_SIZE \div S

Geometry(S, K) ==
  /\ S \in Nat \ {0} /\ K \in Nat /\ MAX_MESSAGES_PER_QUEUE <= K
  /\ Pos(S, K) <= DATA_SIZE /\ DATA_SIZE - Pos(S, K) < S

LEMMA CellsFit ==
  ASSUME NEW S, OneReceiver(S)
  PROVE  Geometry(S, Cells(S))
<1>0. S \in Nat \ {0} /\ MAX_MESSAGES_PER_QUEUE * S <= DATA_SIZE
  BY DEF OneReceiver
<1>1. PICK K : K = Cells(S)
  OBVIOUS
<1>2. K \in Nat /\ K * S <= DATA_SIZE /\ DATA_SIZE < K * S + S
  BY <1>0, <1>1, MsgMapAssumption DEF Cells
<1>3. MAX_MESSAGES_PER_QUEUE <= K
  <2>1. SUFFICES ASSUME K < MAX_MESSAGES_PER_QUEUE PROVE FALSE
    BY <1>2, MsgMapAssumption
  <2>2. Pos(S, K) + S <= Pos(S, MAX_MESSAGES_PER_QUEUE)
    BY <1>0, <1>2, <2>1, PosApart, MsgMapAssumption
  <2> QED
    BY <1>0, <1>2, <2>2, MsgMapAssumption DEF Pos
<1>4. Pos(S, K) = K * S
  BY DEF Pos
<1>5. Geometry(S, K)
  BY <1>0, <1>2, <1>3, <1>4, MsgMapAssumption DEF Geometry
<1> QED
  BY <1>1, <1>5, Zenon

-----------------------------------------------------------------------------
(* The two rings.                                                          *)

(* The entry k entries after i.                                            *)
Fwd(i, k) == IF i + k >= MAX_MESSAGES_PER_QUEUE THEN i + k - MAX_MESSAGES_PER_QUEUE ELSE i + k

(* The cell j cells before the write position w, of K cells.               *)
Cell(w, K, j) == IF j <= w THEN w - j ELSE w - j + K

(* The cell that is written next.                                          *)
Upcoming(w, K) == IF w = K THEN 0 ELSE w

LEMMA FwdDistance ==
  ASSUME NEW i \in Slots, NEW k \in 0 .. MAX_MESSAGES_PER_QUEUE - 1
  PROVE  Fwd(i, k) \in Slots /\ Distance(i, Fwd(i, k)) = k
BY MsgMapAssumption DEF Fwd, Distance, Slots

LEMMA DistanceFwd ==
  ASSUME NEW i \in Slots, NEW j \in Slots
  PROVE  Distance(i, j) \in 0 .. MAX_MESSAGES_PER_QUEUE - 1 /\ Fwd(i, Distance(i, j)) = j
BY MsgMapAssumption DEF Fwd, Distance, Slots

LEMMA FwdFull == ASSUME NEW i \in Slots PROVE Fwd(i, MAX_MESSAGES_PER_QUEUE) = i
BY MsgMapAssumption DEF Fwd, Slots

LEMMA FwdSucc ==
  ASSUME NEW i \in Slots, NEW k \in 0 .. MAX_MESSAGES_PER_QUEUE - 1
  PROVE  Succ(Fwd(i, k)) = Fwd(i, k + 1)
BY MsgMapAssumption DEF Fwd, Slots, Succ

(* Distances from the next entry are one less, but for the entry itself.   *)
LEMMA SuccDistance ==
  ASSUME NEW i \in Slots, NEW j \in Slots
  PROVE  Distance(Succ(i), j) = IF j = i THEN MAX_MESSAGES_PER_QUEUE - 1 ELSE Distance(i, j) - 1
BY MsgMapAssumption DEF Distance, Slots, Succ

LEMMA DistanceZero ==
  ASSUME NEW i \in Slots, NEW j \in Slots
  PROVE  (Distance(i, j) = 0) <=> (j = i)
BY MsgMapAssumption DEF Distance, Slots

LEMMA Modulo ==
  ASSUME NEW M \in Nat \ {0}, NEW x \in Nat, x < M + M
  PROVE  x % M = IF x < M THEN x ELSE x - M
OBVIOUS

(* The positions of the table's entries, as BoxOf counts them.             *)
LEMMA FwdModulo ==
  ASSUME NEW i \in Slots, NEW k \in 0 .. MAX_MESSAGES_PER_QUEUE - 1
  PROVE  (i + k) % MAX_MESSAGES_PER_QUEUE = Fwd(i, k)
<1>1. PICK x \in Nat : x = i + k
  BY MsgMapAssumption DEF Slots
<1>2. x < MAX_MESSAGES_PER_QUEUE + MAX_MESSAGES_PER_QUEUE
  BY <1>1, MsgMapAssumption DEF Slots
<1>3. x % MAX_MESSAGES_PER_QUEUE
        = IF x < MAX_MESSAGES_PER_QUEUE THEN x ELSE x - MAX_MESSAGES_PER_QUEUE
  BY ONLY <1>2, Modulo, MsgMapAssumption
<1>4. Fwd(i, k) = IF x < MAX_MESSAGES_PER_QUEUE THEN x ELSE x - MAX_MESSAGES_PER_QUEUE
  BY <1>1, MsgMapAssumption DEF Fwd, Slots
<1> QED
  BY <1>1, <1>3, <1>4, Zenon

(* The entries a scan meets before its n-th step are n.                    *)
LEMMA CountEntries ==
  ASSUME NEW i \in Slots, NEW n \in 0 .. MAX_MESSAGES_PER_QUEUE
  PROVE  Cardinality({j \in Slots : Distance(i, j) < n}) = n
<1> DEFINE T == {j \in Slots : Distance(i, j) < n}
           f == [k \in 1 .. n |-> Fwd(i, k - 1)]
<1>1. n \in Nat /\ n <= MAX_MESSAGES_PER_QUEUE
  BY MsgMapAssumption
<1>2. \A k \in 1 .. n : k - 1 \in 0 .. MAX_MESSAGES_PER_QUEUE - 1 /\ k - 1 < n
  BY <1>1, MsgMapAssumption
<1>3. \A k \in 1 .. n : Fwd(i, k - 1) \in Slots /\ Distance(i, Fwd(i, k - 1)) = k - 1
  BY <1>2, FwdDistance
<1>4. f \in [1 .. n -> T]
  BY <1>2, <1>3
<1>5. \A a, b \in 1 .. n : f[a] = f[b] => a = b
  BY <1>1, <1>3
<1>6. \A j \in T : \E a \in 1 .. n : f[a] = j
  <2> TAKE j \in T
  <2>1. Distance(i, j) \in 0 .. MAX_MESSAGES_PER_QUEUE - 1 /\ Fwd(i, Distance(i, j)) = j
    BY DistanceFwd
  <2>2. PICK d \in Nat : d = Distance(i, j)
    BY <2>1
  <2>3. d + 1 \in 1 .. n /\ d + 1 - 1 = d
    BY <1>1, <2>2
  <2>4. f[d + 1] = Fwd(i, d)
    BY <2>3
  <2> QED
    BY <2>1, <2>2, <2>3, <2>4
<1>7. f \in Bijection(1 .. n, T)
  BY <1>4, <1>5, <1>6, Fun_IsBij
<1>8. IsFiniteSet(1 .. n) /\ Cardinality(1 .. n) = n
  BY <1>1, FS_Interval
<1> QED
  BY <1>7, <1>8, FS_Bijection DEF ExistsBijection

-----------------------------------------------------------------------------
(* The invariant.                                                          *)

(* Entry i holds an unread message, whole, in cell c.                      *)
Stored(r, i, S, c) ==
  LET m == r.msg[i]
  IN  /\ m.src \in Peers /\ m.dest = Owner /\ m.val \in Values
      /\ m.size = S /\ m.of = Pos(S, c)
      /\ \A o \in Bytes : (Pos(S, c) <= o /\ o < Pos(S, c) + S) => r.data[o] = m.val

(* The n entries from read_idx on are the unread messages, in the n cells  *)
(* before the write position w.  read_of is where the oldest of them       *)
(* begins or, once it met the end of the last cell, stays there.           *)
Ring(r, S, K, n, w, c) ==
  /\ r \in Region
  /\ n \in 0 .. MAX_MESSAGES_PER_QUEUE /\ w \in 0 .. K /\ c \in 0 .. K
  /\ w = 0 => n = 0
  /\ r.write_of = Pos(S, w) /\ r.read_of = Pos(S, c)
  /\ c = K \/ c = Cell(w, K, n)
  /\ \A i \in Slots :
       IF Distance(r.read_idx, i) < n
       THEN Stored(r, i, S, Cell(w, K, n - Distance(r.read_idx, i)))
       ELSE r.msg[i].src = Blank

FifoInv(S) ==
  \E n \in 0 .. MAX_MESSAGES_PER_QUEUE, w, c \in 0 .. Cells(S) :
    Ring(q, S, Cells(S), n, w, c) /\ q.write_idx = Fwd(q.read_idx, n)

-----------------------------------------------------------------------------
(* Cells.                                                                  *)

LEMMA CellType ==
  ASSUME NEW K \in Nat, NEW w \in 1 .. K, NEW j \in 1 .. K
  PROVE  /\ Cell(w, K, j) \in 0 .. K - 1
         /\ Cell(w, K, j) + 1 = K \/ Cell(w, K, j) + 1 = Cell(w, K, j - 1)
         /\ j < K => Cell(w, K, j) # Upcoming(w, K)
BY DEF Cell, Upcoming

LEMMA CellStep ==
  ASSUME NEW K \in Nat \ {0}, NEW w \in 0 .. K
  PROVE  /\ Upcoming(w, K) \in 0 .. K - 1
         /\ Cell(Upcoming(w, K) + 1, K, 1) = Upcoming(w, K)
         /\ \A j \in 1 .. K - 1 : w # 0 => Cell(Upcoming(w, K) + 1, K, j + 1) = Cell(w, K, j)
         /\ Cell(w, K, 0) = w
BY DEF Cell, Upcoming

(* The next cell fits before read_of, wherever that is, while fewer        *)
(* messages are unread than there are cells.                               *)
LEMMA NextFits ==
  ASSUME NEW S, NEW K, Geometry(S, K), NEW r, r.write_of \in Nat, r.read_of \in Nat,
         NEW n \in 0 .. K - 1, NEW w \in 0 .. K, NEW c \in 0 .. K,
         w = 0 => n = 0, r.write_of = Pos(S, w), r.read_of = Pos(S, c),
         c = K \/ c = Cell(w, K, n)
  PROVE  /\ DataFits(r, S) /\ DataStart(r, S) = Pos(S, Upcoming(w, K))
<1>1. /\ S \in Nat \ {0} /\ K \in Nat /\ K # 0
      /\ Pos(S, K) <= DATA_SIZE /\ DATA_SIZE - Pos(S, K) < S
  BY MsgMapAssumption DEF Geometry
<1>2. PICK pw \in Nat : pw = Pos(S, w)
  BY <1>1, PosNat
<1>3. PICK pc \in Nat : pc = Pos(S, c)
  BY <1>1, PosNat
<1>4. PICK pk \in Nat : pk = Pos(S, K)
  BY <1>1, PosNat
<1>5. DATA_SIZE \in Nat
  BY MsgMapAssumption
<1>6. Pos(S, 0) = 0
  BY <1>1, PosFirst
<1>7. c > 0 => S <= pc
  <2>1. SUFFICES ASSUME 0 < c PROVE S <= pc
    BY <1>1
  <2>2. Pos(S, 0) + S <= Pos(S, c)
    BY <1>1, <2>1, PosApart
  <2> QED
    BY <1>1, <1>3, <1>6, <2>2
<1>8. w < c => pw + S <= pc
  BY <1>1, <1>2, <1>3, PosApart
<1>9. w < K => pw + S <= pk
  BY <1>1, <1>2, <1>4, PosApart
<1>10. c < w => pc + S <= pw
  BY <1>1, <1>2, <1>3, PosApart
<1>11. CASE w = K
  <2>1. Upcoming(w, K) = 0 /\ pw = pk
    BY <1>2, <1>4, <1>11 DEF Upcoming
  <2>2. c > 0
    BY <1>1, <1>11 DEF Cell
  <2>3. pw >= pc
    BY <1>1, <1>2, <1>3, <1>10, <1>11
  <2>4. DATA_SIZE - pw < S
    BY <1>1, <1>4, <2>1
  <2>5. DataStart(r, S) = 0 /\ DataEnd(r, S) = pc
    BY <1>1, <1>2, <1>3, <1>5, <2>3, <2>4 DEF DataStart, DataEnd
  <2>6. DataFits(r, S)
    BY <1>1, <1>3, <1>7, <2>2, <2>5 DEF DataFits
  <2> QED
    BY <1>6, <2>1, <2>5, <2>6
<1>12. CASE w # K
  <2>1. Upcoming(w, K) = w /\ w < K
    BY <1>1, <1>12 DEF Upcoming
  <2>2. DATA_SIZE - pw >= S
    BY <1>1, <1>4, <1>5, <1>9, <2>1
  <2>3. DataStart(r, S) = pw
    BY <1>1, <1>2, <1>3, <1>5, <2>2 DEF DataStart
  <2>4. CASE c <= w
    <3>1. pw >= pc
      BY <1>1, <1>2, <1>3, <1>10, <2>4
    <3>2. DataEnd(r, S) = DATA_SIZE
      BY <1>1, <1>2, <1>3, <1>5, <2>2, <3>1 DEF DataEnd
    <3> QED
      BY <1>2, <2>1, <2>2, <2>3, <3>2 DEF DataFits
  <2>5. CASE w < c
    <3>1. pw + S <= pc
      BY <1>8, <2>5
    <3>2. DataEnd(r, S) = pc
      BY <1>1, <1>2, <1>3, <1>5, <3>1 DEF DataEnd
    <3>3. DataEnd(r, S) - DataStart(r, S) >= S
      BY <1>1, <2>3, <3>1, <3>2
    <3> QED
      BY <1>2, <2>1, <2>3, <3>3 DEF DataFits
  <2> QED
    BY <2>4, <2>5
<1> QED
  BY <1>11, <1>12

-----------------------------------------------------------------------------
(* The scans.                                                              *)

LEMMA RingParts ==
  ASSUME NEW S, NEW K, NEW n, NEW w, NEW c, NEW r, Ring(r, S, K, n, w, c)
  PROVE  /\ r.read_idx \in Slots /\ r.write_idx \in Slots /\ r.msg \in [Slots -> Message]
         /\ r.read_of \in Nat /\ r.write_of \in Nat /\ r.overflow \in BOOLEAN
         /\ r.data \in [Bytes -> Values \union {Blank}]
BY DEF Ring, Region

(* The entries in use are the first n from read_idx on.                    *)
LEMMA RingOccupied ==
  ASSUME NEW S, NEW K, NEW n, NEW w, NEW c, NEW r, Ring(r, S, K, n, w, c)
  PROVE  Occupied(r) = {i \in Slots : Distance(r.read_idx, i) < n}
<1>1. \A i \in Slots : (r.msg[i].src # Blank) <=> (Distance(r.read_idx, i) < n)
  BY MsgMapAssumption DEF Ring, Stored
<1> QED
  BY <1>1 DEF Occupied

(* shmsg_write_map finds the entry at write_idx free, unless all entries   *)
(* are in use: then write_idx is read_idx.                                 *)
LEMMA RingFree ==
  ASSUME NEW S, NEW K, NEW n, NEW w, NEW c, NEW r, Ring(r, S, K, n, w, c),
         r.write_idx = Fwd(r.read_idx, n)
  PROVE  /\ (FreeSlots(r) = {}) <=> (n = MAX_MESSAGES_PER_QUEUE)
         /\ WriteSlot(r) = r.write_idx
<1>1. n \in 0 .. MAX_MESSAGES_PER_QUEUE
  BY DEF Ring
<1>2. r.read_idx \in Slots /\ r.write_idx \in Slots
  BY RingParts
<1>3. Occupied(r) = {i \in Slots : Distance(r.read_idx, i) < n}
  BY RingOccupied
<1>4. CASE n = MAX_MESSAGES_PER_QUEUE
  <2>1. \A i \in Slots : Distance(r.read_idx, i) < n
    BY <1>2, <1>4, DistanceType, MsgMapAssumption
  <2>2. FreeSlots(r) = {}
    BY <1>3, <2>1 DEF FreeSlots, WriteScan
  <2>3. r.write_idx = r.read_idx
    BY <1>2, <1>4, FwdFull
  <2> QED
    BY <1>4, <2>2, <2>3 DEF WriteSlot
<1>5. CASE n # MAX_MESSAGES_PER_QUEUE
  <2>1. n \in 0 .. MAX_MESSAGES_PER_QUEUE - 1
    BY <1>1, <1>5, MsgMapAssumption
  <2>2. Distance(r.read_idx, r.write_idx) = n
    BY <1>2, <2>1, FwdDistance
  <2>3. r.write_idx \in WriteScan(r)
    <3>1. r.write_idx >= r.write_idx
      BY <1>2 DEF Slots
    <3>2. r.write_idx <= r.read_idx \/ r.read_idx <= r.write_idx
      BY <1>2 DEF Slots
    <3> QED
      BY <1>2, <3>1, <3>2 DEF WriteScan
  <2>4. r.write_idx \notin Occupied(r)
    BY <1>3, <2>1, <2>2
  <2>5. r.write_idx \in FreeSlots(r)
    BY <2>3, <2>4 DEF FreeSlots
  <2>6. FreeSlots(r) \subseteq Slots
    BY DEF FreeSlots, WriteScan
  <2>7. FirstFrom(r.write_idx, FreeSlots(r)) \in FreeSlots(r)
    BY <1>2, <2>5, <2>6, FirstFromIsFirst
  <2>8. Distance(r.write_idx, FirstFrom(r.write_idx, FreeSlots(r))) <= Distance(r.write_idx, r.write_idx)
    BY <1>2, <2>5, <2>6, FirstFromIsFirst
  <2>9. PICK f \in Slots : f = FirstFrom(r.write_idx, FreeSlots(r))
    BY <2>6, <2>7
  <2>10. Distance(r.write_idx, r.write_idx) = 0
    BY <1>2, DistanceZero
  <2>11. Distance(r.write_idx, f) = 0
    BY <1>2, <2>8, <2>9, <2>10, DistanceType
  <2>12. f = r.write_idx
    BY <1>2, <2>9, <2>11, DistanceZero
  <2> QED
    BY <1>5, <2>5, <2>9, <2>12 DEF WriteSlot
<1> QED
  BY <1>4, <1>5

(* shmsg_read_map finds every unread message, the oldest at read_idx.      *)
LEMMA RingReadable ==
  ASSUME NEW S \in Nat \ {0}, NEW K, NEW n, NEW w, NEW c, NEW r, Ring(r, S, K, n, w, c),
         r.write_idx = Fwd(r.read_idx, n)
  PROVE  /\ ReadableSlots(r, Owner) = Occupied(r)
         /\ (Occupied(r) = {}) <=> (n = 0)
         /\ n # 0 => ReadSlot(r, Owner) = r.read_idx
<1>1. n \in 0 .. MAX_MESSAGES_PER_QUEUE
  BY DEF Ring
<1>2. r.read_idx \in Slots /\ r.write_idx \in Slots
  BY RingParts
<1>3. Occupied(r) = {i \in Slots : Distance(r.read_idx, i) < n}
  BY RingOccupied
<1>4. ASSUME NEW i \in Slots, Distance(r.read_idx, i) < n
      PROVE  i \in ReadScan(r) /\ ShmsgReadValid(r.msg[i], Owner)
  <2>1. Stored(r, i, S, Cell(w, K, n - Distance(r.read_idx, i)))
    BY <1>4 DEF Ring
  <2>2. ShmsgReadValid(r.msg[i], Owner)
    BY <2>1, MsgMapAssumption DEF Stored, ShmsgReadValid
  <2>3. i \in ReadScan(r)
    BY <1>1, <1>2, <1>4, MsgMapAssumption DEF ReadScan, Distance, Fwd, Slots
  <2> QED
    BY <2>2, <2>3
<1>5. ReadableSlots(r, Owner) = Occupied(r)
  <2>1. Occupied(r) \subseteq ReadableSlots(r, Owner)
    BY <1>3, <1>4 DEF ReadableSlots
  <2>2. ReadableSlots(r, Owner) \subseteq Occupied(r)
    BY DEF ReadableSlots, ReadScan, ShmsgReadValid, Occupied
  <2> QED
    BY <2>1, <2>2
<1>6. CASE n = 0
  <2>1. \A i \in Slots : ~(Distance(r.read_idx, i) < 0)
    BY <1>2, DistanceType
  <2> QED
    BY <1>3, <1>5, <1>6, <2>1
<1>7. CASE n # 0
  <2>1. Distance(r.read_idx, r.read_idx) = 0
    BY <1>2, DistanceZero
  <2>2. r.read_idx \in Occupied(r)
    BY <1>1, <1>2, <1>3, <1>7, <2>1
  <2>3. Occupied(r) \subseteq Slots
    BY DEF Occupied
  <2>4. FirstFrom(r.read_idx, Occupied(r)) \in Occupied(r)
    BY <1>2, <2>2, <2>3, FirstFromIsFirst
  <2>5. Distance(r.read_idx, FirstFrom(r.read_idx, Occupied(r))) <= Distance(r.read_idx, r.read_idx)
    BY <1>2, <2>2, <2>3, FirstFromIsFirst
  <2>6. PICK f \in Slots : f = FirstFrom(r.read_idx, Occupied(r))
    BY <2>3, <2>4
  <2>7. Distance(r.read_idx, f) = 0
    BY <1>2, <2>1, <2>5, <2>6, DistanceType
  <2>8. f = r.read_idx
    BY <1>2, <2>6, <2>7, DistanceZero
  <2> QED
    BY <1>5, <1>7, <2>2, <2>6, <2>8 DEF ReadSlot
<1> QED
  BY <1>5, <1>6, <1>7

-----------------------------------------------------------------------------
(* Writing.                                                                *)

(* shmsg_write_map takes the entry after the unread messages, giving up    *)
(* the oldest of them when there is none.                                  *)
LEMMA Reserves ==
  ASSUME NEW S, NEW K, Geometry(S, K), NEW n, NEW w, NEW c, NEW r, Ring(r, S, K, n, w, c),
         r.write_idx = Fwd(r.read_idx, n), NEW a, a = ShmsgWriteMap(r)
  PROVE  \E d \in 0 .. MAX_MESSAGES_PER_QUEUE - 1, e \in 0 .. K :
           /\ Ring(a, S, K, d, w, e)
           /\ Distance(a.read_idx, r.write_idx) = d
           /\ a.write_idx = Fwd(a.read_idx, d + 1)
           /\ \A i \in Slots \ {r.write_idx} : a.msg[i] = r.msg[i]
           /\ a.overflow = r.overflow
           /\ IF n = MAX_MESSAGES_PER_QUEUE
              THEN d = n - 1 /\ a.read_idx = Succ(r.read_idx)
              ELSE d = n /\ a.read_idx = r.read_idx
<1>1. /\ S \in Nat \ {0} /\ K \in Nat /\ MAX_MESSAGES_PER_QUEUE <= K
      /\ MAX_MESSAGES_PER_QUEUE \in Nat \ {0}
  BY MsgMapAssumption DEF Geometry
<1>2. /\ n \in 0 .. MAX_MESSAGES_PER_QUEUE /\ w \in 0 .. K /\ c \in 0 .. K
      /\ w = 0 => n = 0
      /\ r.write_of = Pos(S, w) /\ r.read_of = Pos(S, c)
      /\ c = K \/ c = Cell(w, K, n)
      /\ r \in Region
  BY DEF Ring
<1>3. /\ r.read_idx \in Slots /\ r.write_idx \in Slots /\ r.msg \in [Slots -> Message]
      /\ r.read_of \in Nat
  BY RingParts
<1>4. PICK x \in Slots : x = r.write_idx
  BY <1>3
<1>5. PICK y \in Slots : y = r.read_idx
  BY <1>3
<1>6. WriteSlot(r) = x /\ ((FreeSlots(r) = {}) <=> (n = MAX_MESSAGES_PER_QUEUE))
  BY <1>4, RingFree
<1>7. BlankMessage \in Message /\ BlankMessage.src = Blank
  BY DEF BlankMessage, Message
<1>8. PICK ms \in [Slots -> Message] : ms = [r.msg EXCEPT ![x] = BlankMessage]
  BY <1>3, <1>7
<1>9. ms[x] = BlankMessage /\ \A i \in Slots \ {x} : ms[i] = r.msg[i]
  BY <1>3, <1>8
<1>10. Succ(x) \in Slots /\ Succ(y) \in Slots
  BY SuccType
<1>11. CASE n # MAX_MESSAGES_PER_QUEUE
  <2>1. a = [r EXCEPT !.write_idx = Succ(x), !.msg = ms]
    BY <1>2, <1>6, <1>8, <1>11 DEF ShmsgWriteMap, Region
  <2>2. /\ a \in Region /\ a.write_idx = Succ(x) /\ a.msg = ms /\ a.read_idx = y
        /\ a.read_of = r.read_of /\ a.write_of = r.write_of /\ a.data = r.data
        /\ a.overflow = r.overflow
    BY <1>2, <1>5, <1>10, <2>1 DEF Region
  <2>3. n \in 0 .. MAX_MESSAGES_PER_QUEUE - 1
    BY <1>1, <1>2, <1>11
  <2>4. Distance(y, x) = n /\ Succ(x) = Fwd(y, n + 1)
    BY <1>4, <1>5, <2>3, FwdDistance, FwdSucc
  <2>5. ASSUME NEW i \in Slots
        PROVE  IF Distance(y, i) < n THEN Stored(a, i, S, Cell(w, K, n - Distance(y, i)))
                                     ELSE a.msg[i].src = Blank
    <3>1. CASE i = x
      BY <1>7, <1>9, <2>2, <2>3, <2>4, <3>1
    <3>2. CASE i # x
      <4>1. a.msg[i] = r.msg[i] /\ a.data = r.data
        BY <1>9, <2>2, <3>2
      <4>2. IF Distance(y, i) < n THEN Stored(r, i, S, Cell(w, K, n - Distance(y, i)))
                                  ELSE r.msg[i].src = Blank
        BY <1>5 DEF Ring
      <4> QED
        BY <4>1, <4>2 DEF Stored
    <3> QED
      BY <3>1, <3>2
  <2>6. Ring(a, S, K, n, w, c)
    BY <1>2, <2>2, <2>5 DEF Ring
  <2>7. \A i \in Slots \ {x} : a.msg[i] = r.msg[i]
    BY <1>9, <2>2
  <2> QED
    BY <1>2, <1>4, <1>5, <1>11, <2>2, <2>3, <2>4, <2>6, <2>7
<1>12. CASE n = MAX_MESSAGES_PER_QUEUE
  <2>1. x = y
    BY <1>4, <1>5, <1>12, FwdFull
  <2>2. Distance(y, y) = 0 /\ w \in 1 .. K /\ n \in 1 .. K
    BY <1>1, <1>2, <1>12, DistanceZero
  <2>3. Stored(r, y, S, Cell(w, K, n))
    <3>1. Distance(y, y) < n /\ n - Distance(y, y) = n
      BY <1>1, <1>12, <2>2
    <3>2. Stored(r, y, S, Cell(w, K, n - Distance(y, y)))
      BY <1>5, <3>1 DEF Ring
    <3> QED
      BY <3>1, <3>2
  <2>4. PICK z \in 0 .. K - 1 : z = Cell(w, K, n)
    BY <1>1, <2>2, CellType
  <2>5. PICK e \in 0 .. K : e = z + 1
    BY <1>1
  <2>6. e = K \/ e = Cell(w, K, n - 1)
    BY <1>1, <2>2, <2>4, <2>5, CellType
  <2>7. r.msg[y].of + r.msg[y].size = Pos(S, e)
    <3>1. r.msg[y].of = Pos(S, z) /\ r.msg[y].size = S
      BY <2>3, <2>4 DEF Stored
    <3> QED
      BY <1>1, <2>5, <3>1, PosNext
  <2>8. a = [r EXCEPT !.read_idx = Succ(x), !.read_of = Pos(S, e), !.write_idx = Succ(x), !.msg = ms]
    BY <1>2, <1>6, <1>8, <1>12, <2>1, <2>7 DEF ShmsgWriteMap, Region
  <2>9. Pos(S, e) \in Nat
    <3>1. S \in Nat /\ e \in Nat
      BY <1>1
    <3> QED
      BY <3>1, PosNat
  <2>10. /\ a \in Region /\ a.write_idx = Succ(x) /\ a.msg = ms /\ a.read_idx = Succ(y)
         /\ a.read_of = Pos(S, e) /\ a.write_of = r.write_of /\ a.data = r.data
         /\ a.overflow = r.overflow
    BY <1>2, <1>10, <2>1, <2>8, <2>9 DEF Region
  <2>11. PICK d \in 0 .. MAX_MESSAGES_PER_QUEUE - 1 : d = n - 1 /\ d + 1 = MAX_MESSAGES_PER_QUEUE
    BY <1>1, <1>12
  <2>12. Distance(Succ(y), x) = d /\ Succ(x) = Fwd(Succ(y), d + 1)
    <3>1. Distance(Succ(y), x) = d
      BY <1>1, <1>12, <2>1, <2>11, SuccDistance
    <3>2. Fwd(Succ(y), MAX_MESSAGES_PER_QUEUE) = Succ(y)
      BY <1>10, FwdFull
    <3> QED
      BY <2>1, <2>11, <3>1, <3>2
  <2>13. ASSUME NEW i \in Slots
         PROVE  IF Distance(Succ(y), i) < d
                THEN Stored(a, i, S, Cell(w, K, d - Distance(Succ(y), i)))
                ELSE a.msg[i].src = Blank
    <3>1. CASE i = x
      BY <1>7, <1>9, <2>10, <2>11, <2>12, <3>1
    <3>2. CASE i # x
      <4>1. a.msg[i] = r.msg[i] /\ a.data = r.data
        BY <1>9, <2>10, <3>2
      <4>2. PICK u \in Nat : u = Distance(y, i)
        BY DistanceType
      <4>3. Distance(Succ(y), i) = u - 1 /\ u # 0 /\ u < n
        BY <1>1, <1>12, <2>1, <3>2, <4>2, SuccDistance, DistanceZero, DistanceType
      <4>4. d - (u - 1) = n - u /\ u - 1 < d
        BY <1>1, <1>2, <2>11, <4>3
      <4>5. Stored(r, i, S, Cell(w, K, n - u))
        BY <1>5, <4>2, <4>3 DEF Ring
      <4>6. Stored(a, i, S, Cell(w, K, n - u))
        BY <4>1, <4>5 DEF Stored
      <4> QED
        BY <4>3, <4>4, <4>6
    <3> QED
      BY <3>1, <3>2
  <2>14. Ring(a, S, K, d, w, e)
    <3>1. d \in 0 .. MAX_MESSAGES_PER_QUEUE /\ (w = 0 => d = 0) /\ (e = K \/ e = Cell(w, K, d))
      BY <1>1, <2>2, <2>6, <2>11
    <3> QED
      BY <1>2, <2>10, <2>13, <3>1 DEF Ring
  <2>15. \A i \in Slots \ {x} : a.msg[i] = r.msg[i]
    BY <1>9, <2>10
  <2> QED
    BY <1>4, <1>5, <1>12, <2>10, <2>11, <2>12, <2>14, <2>15
<1> QED
  BY <1>11, <1>12

(* The message is stored whole in the next cell, which is none of those of *)
(* the unread messages.                                                    *)
LEMMA Stores ==
  ASSUME NEW S, NEW K, Geometry(S, K), NEW d \in 0 .. MAX_MESSAGES_PER_QUEUE - 1, NEW w, NEW e,
         NEW a, Ring(a, S, K, d, w, e), NEW x \in Slots, Distance(a.read_idx, x) = d,
         NEW src \in Peers, NEW v \in Values,
         NEW b, b = ShmsgAddress(a, x, src, Owner),
         NEW t, t = ShmsgWriteMapData(b, x, S, v)
  PROVE  /\ DataFits(b, S) /\ DataFits(a, S)
         /\ \E y \in 0 .. K : Ring(t, S, K, d + 1, y, e)
         /\ t.read_idx = a.read_idx /\ t.write_idx = a.write_idx /\ t.overflow = a.overflow
         /\ \A i \in Slots \ {x} : t.msg[i] = a.msg[i]
         /\ t.msg[x].src = src /\ t.msg[x].val = v
<1>1. /\ S \in Nat \ {0} /\ K \in Nat \ {0} /\ MAX_MESSAGES_PER_QUEUE <= K
      /\ MAX_MESSAGES_PER_QUEUE \in Nat \ {0} /\ Pos(S, K) <= DATA_SIZE /\ DATA_SIZE \in Nat
  BY MsgMapAssumption DEF Geometry
<1>2. /\ w \in 0 .. K /\ e \in 0 .. K
      /\ w = 0 => d = 0
      /\ a.write_of = Pos(S, w) /\ a.read_of = Pos(S, e)
      /\ e = K \/ e = Cell(w, K, d)
      /\ a \in Region
  BY DEF Ring
<1>3. /\ a.read_idx \in Slots /\ a.write_idx \in Slots /\ a.msg \in [Slots -> Message]
      /\ a.read_of \in Nat /\ a.write_of \in Nat /\ a.data \in [Bytes -> Values \union {Blank}]
  BY RingParts
<1>4. PICK m \in Message : m = [a.msg[x] EXCEPT !.src = src, !.dest = Owner]
  <2>1. a.msg[x] \in Message
    BY <1>3
  <2> QED
    BY <2>1, MsgQueueAssumption DEF Message
<1>5. m.src = src /\ m.dest = Owner
  <2>1. a.msg[x] \in Message
    BY <1>3
  <2> QED
    BY <1>4, <2>1 DEF Message
<1>6. PICK ms \in [Slots -> Message] : ms = [a.msg EXCEPT ![x] = m]
  BY <1>3
<1>7. ms[x] = m /\ \A i \in Slots \ {x} : ms[i] = a.msg[i]
  BY <1>3, <1>6
<1>8. b = [a EXCEPT !.msg = ms]
  BY <1>2, <1>4, <1>6 DEF ShmsgAddress, Region
<1>9. /\ b \in Region /\ b.msg = ms /\ b.read_idx = a.read_idx /\ b.write_idx = a.write_idx
      /\ b.read_of = a.read_of /\ b.write_of = a.write_of /\ b.data = a.data
      /\ b.overflow = a.overflow
  BY <1>2, <1>8 DEF Region
<1>10. d \in 0 .. K - 1
  BY <1>1
<1>11. DataFits(b, S) /\ DataStart(b, S) = Pos(S, Upcoming(w, K)) /\ DataFits(a, S)
  BY <1>1, <1>2, <1>3, <1>9, <1>10, NextFits
<1>12. PICK u \in 0 .. K - 1 : u = Upcoming(w, K)
  BY <1>1, <1>2, CellStep
<1>13. PICK p \in Nat : p = Pos(S, u)
  BY <1>1, PosNat
<1>14. p + S = Pos(S, u + 1) /\ p + S \in Nat
  BY <1>1, <1>13, PosNext
<1>15. PICK k \in Message : k = [m EXCEPT !.size = S, !.of = p, !.val = v]
  BY <1>1 DEF Message
<1>16. k.src = src /\ k.dest = Owner /\ k.size = S /\ k.of = p /\ k.val = v
  BY <1>5, <1>15 DEF Message
<1>17. PICK ns \in [Slots -> Message] : ns = [ms EXCEPT ![x] = k]
  OBVIOUS
<1>18. ns[x] = k /\ \A i \in Slots \ {x} : ns[i] = a.msg[i]
  BY <1>7, <1>17
<1>19. PICK dt \in [Bytes -> Values \union {Blank}] :
         dt = [o \in Bytes |-> IF p <= o /\ o < p + S THEN v ELSE a.data[o]]
  BY <1>3
<1>20. t = [b EXCEPT !.write_of = p + S, !.data = dt, !.msg = ns]
  <2>1. DataStart(b, S) = p
    BY <1>11, <1>12, <1>13
  <2>2. b.msg[x] = m /\ b.msg = ms /\ b.data = a.data
    BY <1>7, <1>9
  <2>3. t = [b EXCEPT !.write_of = p + S,
                      !.data = [o \in Bytes |-> IF p <= o /\ o < p + S THEN v ELSE b.data[o]],
                      !.msg = [b.msg EXCEPT ![x] = [b.msg[x] EXCEPT !.size = S, !.of = p, !.val = v]]]
    BY <1>9, <2>1 DEF ShmsgWriteMapData, Region
  <2> QED
    BY <1>15, <1>17, <1>19, <2>2, <2>3
<1>21. /\ t \in Region /\ t.msg = ns /\ t.read_idx = a.read_idx /\ t.write_idx = a.write_idx
       /\ t.read_of = a.read_of /\ t.write_of = p + S /\ t.data = dt
       /\ t.overflow = a.overflow
  BY <1>9, <1>14, <1>20 DEF Region
<1>22. PICK y \in 1 .. K : y = u + 1
  BY <1>1
<1>23. Cell(y, K, 1) = u /\ (\A j \in 1 .. K - 1 : w # 0 => Cell(y, K, j + 1) = Cell(w, K, j))
       /\ Cell(w, K, 0) = w
  BY <1>1, <1>2, <1>12, <1>22, CellStep
<1>24. ASSUME NEW i \in Slots
       PROVE  IF Distance(a.read_idx, i) < d + 1
              THEN Stored(t, i, S, Cell(y, K, d + 1 - Distance(a.read_idx, i)))
              ELSE t.msg[i].src = Blank
  <2>1. PICK f \in Nat : f = Distance(a.read_idx, i)
    BY <1>3, DistanceType
  <2>2. CASE i = x
    <3>1. f = d /\ d + 1 - f = 1
      BY <2>1, <2>2
    <3>2. \A o \in Bytes : (p <= o /\ o < p + S) => dt[o] = v
      BY <1>19
    <3>3. Stored(t, i, S, u)
      BY <1>13, <1>16, <1>18, <1>21, <2>2, <3>2 DEF Stored
    <3> QED
      BY <1>23, <2>1, <3>1, <3>3
  <2>3. CASE i # x
    <3>1. f # d
      <4>1. Fwd(a.read_idx, f) = i /\ Fwd(a.read_idx, d) = x
        BY <1>3, <2>1, DistanceFwd
      <4> QED
        BY <2>3, <4>1
    <3>2. t.msg[i] = a.msg[i]
      BY <1>18, <1>21, <2>3
    <3>3. CASE f < d
      <4>1. PICK j \in 1 .. K - 1 : j = d - f
        BY <1>1, <2>1, <3>3
      <4>2. w \in 1 .. K /\ j \in 1 .. K /\ j < K /\ d + 1 - f = j + 1
        BY <1>1, <1>2, <2>1, <3>3, <4>1
      <4>3. PICK z \in 0 .. K - 1 : z = Cell(w, K, j) /\ z # u
        BY <1>1, <1>12, <4>2, CellType
      <4>4. Cell(y, K, j + 1) = z
        BY <1>23, <4>1, <4>2, <4>3
      <4>5. Stored(a, i, S, z)
        BY <2>1, <3>3, <4>1, <4>3 DEF Ring
      <4>6. PICK g \in Nat : g = Pos(S, z)
        BY <1>1, PosNat
      <4>7. g + S <= p \/ p + S <= g
        <5>1. z < u \/ u < z
          BY <4>3
        <5> QED
          BY <1>1, <1>13, <4>6, <5>1, PosApart
      <4>8. ASSUME NEW o \in Bytes, g <= o, o < g + S PROVE dt[o] = a.data[o]
        <5>1. ~(p <= o /\ o < p + S)
          BY <1>1, <4>7, <4>8 DEF Bytes
        <5> QED
          BY <1>19, <5>1
      <4>9. Stored(t, i, S, z)
        BY <1>21, <3>2, <4>5, <4>6, <4>8 DEF Stored
      <4> QED
        BY <2>1, <3>3, <4>2, <4>4, <4>9
    <3>4. CASE f > d
      <4>1. a.msg[i].src = Blank
        BY <2>1, <3>4 DEF Ring
      <4>2. ~(f < d + 1)
        BY <3>4
      <4> QED
        BY <2>1, <3>2, <4>1, <4>2
    <3> QED
      BY <3>1, <3>3, <3>4
  <2> QED
    BY <2>2, <2>3
<1>25. e = K \/ e = Cell(y, K, d + 1)
  <2>1. CASE d = 0
    BY <1>2, <1>12, <1>22, <1>23, <2>1 DEF Upcoming
  <2>2. CASE d # 0
    <3>1. d \in 1 .. K - 1 /\ w # 0
      BY <1>2, <1>10, <2>2
    <3> QED
      BY <1>2, <1>23, <3>1
  <2> QED
    BY <2>1, <2>2
<1>26. Ring(t, S, K, d + 1, y, e)
  <2>1. d + 1 \in 0 .. MAX_MESSAGES_PER_QUEUE /\ y \in 0 .. K /\ y # 0
    BY <1>1
  <2>2. t.write_of = Pos(S, y)
    BY <1>14, <1>21, <1>22
  <2>3. e \in 0 .. K /\ t \in Region /\ t.read_of = Pos(S, e) /\ (y = 0 => d + 1 = 0)
    BY <1>2, <1>21, <2>1
  <2>4. \A i \in Slots : IF Distance(t.read_idx, i) < d + 1
                         THEN Stored(t, i, S, Cell(y, K, d + 1 - Distance(t.read_idx, i)))
                         ELSE t.msg[i].src = Blank
    BY <1>21, <1>24
  <2>5. PICK h : h = d + 1
    OBVIOUS
  <2>6. \A i \in Slots : IF Distance(t.read_idx, i) < h
                         THEN Stored(t, i, S, Cell(y, K, h - Distance(t.read_idx, i)))
                         ELSE t.msg[i].src = Blank
    <3> TAKE i \in Slots
    <3>1. PICK f \in Nat : f = Distance(t.read_idx, i)
      BY <1>3, <1>21, DistanceType
    <3>2. (f < d + 1) = (f < h) /\ d + 1 - f = h - f
      BY <2>5, <3>1
    <3>3. IF f < d + 1 THEN Stored(t, i, S, Cell(y, K, d + 1 - f)) ELSE t.msg[i].src = Blank
      BY <2>4, <3>1, Zenon
    <3>4. IF f < h THEN Stored(t, i, S, Cell(y, K, h - f)) ELSE t.msg[i].src = Blank
      BY <3>2, <3>3, Zenon
    <3> QED
      BY <3>1, <3>4, Zenon
  <2>7. /\ h \in 0 .. MAX_MESSAGES_PER_QUEUE /\ (y = 0 => h = 0)
        /\ e = K \/ e = Cell(y, K, h)
    BY <1>25, <2>1, <2>3, <2>5
  <2>8. Ring(t, S, K, h, y, e)
    BY <2>1, <2>2, <2>3, <2>6, <2>7 DEF Ring
  <2> QED
    BY <2>5, <2>8, Zenon
<1> QED
  BY <1>11, <1>16, <1>18, <1>21, <1>26

-----------------------------------------------------------------------------
(* Reading.                                                                *)

LEMMA FwdBack ==
  ASSUME NEW i \in Slots, NEW k \in 1 .. MAX_MESSAGES_PER_QUEUE
  PROVE  Fwd(Succ(i), k - 1) = Fwd(i, k)
BY MsgMapAssumption DEF Fwd, Slots, Succ

(* shmsg_read takes the oldest message and leaves the others in place.     *)
LEMMA Takes ==
  ASSUME NEW S, NEW K, Geometry(S, K), NEW n, NEW w, NEW c, NEW r, Ring(r, S, K, n, w, c),
         n # 0, NEW y \in Slots, y = r.read_idx,
         NEW t, t = ShmsgRelease(ShmsgReadAdvance(r, y), y)
  PROVE  /\ \E e \in 0 .. K : Ring(t, S, K, n - 1, w, e)
         /\ t.read_idx = Succ(y) /\ t.write_idx = r.write_idx /\ t.overflow = r.overflow
         /\ \A i \in Slots \ {y} : t.msg[i] = r.msg[i]
         /\ \E z \in 0 .. K - 1 : Stored(r, y, S, z)
<1>1. /\ S \in Nat \ {0} /\ K \in Nat /\ MAX_MESSAGES_PER_QUEUE <= K
      /\ MAX_MESSAGES_PER_QUEUE \in Nat \ {0}
  BY MsgMapAssumption DEF Geometry
<1>2. /\ n \in 0 .. MAX_MESSAGES_PER_QUEUE /\ w \in 0 .. K /\ c \in 0 .. K
      /\ w = 0 => n = 0
      /\ r.write_of = Pos(S, w) /\ r.read_of = Pos(S, c)
      /\ c = K \/ c = Cell(w, K, n)
      /\ r \in Region
  BY DEF Ring
<1>3. /\ r.write_idx \in Slots /\ r.msg \in [Slots -> Message]
      /\ r.read_of \in Nat
  BY RingParts
<1>4. Distance(y, y) = 0 /\ w \in 1 .. K /\ n \in 1 .. K
  BY <1>1, <1>2, DistanceZero
<1>5. Stored(r, y, S, Cell(w, K, n))
  <2>1. Distance(y, y) < n /\ n - Distance(y, y) = n
    BY <1>1, <1>4
  <2>2. Stored(r, y, S, Cell(w, K, n - Distance(y, y)))
    BY <2>1 DEF Ring
  <2> QED
    BY <2>1, <2>2
<1>6. PICK z \in 0 .. K - 1 : z = Cell(w, K, n)
  BY <1>1, <1>4, CellType
<1>7. r.msg[y].of = Pos(S, z) /\ r.msg[y].size = S
  BY <1>5, <1>6 DEF Stored
<1>8. PICK e \in 0 .. K : e = IF c = z THEN z + 1 ELSE c
  <2>1. (IF c = z THEN z + 1 ELSE c) \in 0 .. K
    BY <1>1, <1>2
  <2> QED
    BY <2>1
<1>9. PICK d \in 0 .. MAX_MESSAGES_PER_QUEUE - 1 : d = n - 1
  BY <1>1, <1>2
<1>10. e = K \/ e = Cell(w, K, d)
  BY <1>1, <1>2, <1>4, <1>6, <1>8, <1>9, CellType
<1>11. S \in Nat /\ z \in Nat /\ c \in Nat /\ e \in Nat
  BY <1>1, <1>2
<1>12. PICK pz \in Nat : pz = Pos(S, z)
  BY <1>11, PosNat
<1>13. PICK pc \in Nat : pc = Pos(S, c)
  BY <1>11, PosNat
<1>14. PICK pe \in Nat : pe = Pos(S, e)
  BY <1>11, PosNat
<1>15. (IF pz = pc THEN pc + S ELSE pc) = pe
  <2>1. CASE c = z
    BY <1>8, <1>11, <1>12, <1>13, <1>14, <2>1, PosNext
  <2>2. CASE c # z
    <3>1. pz # pc
      <4>1. c < z \/ z < c
        BY <1>11, <2>2
      <4>2. pc + S <= pz \/ pz + S <= pc
        BY <1>11, <1>12, <1>13, <4>1, PosApart
      <4> QED
        BY <1>1, <4>2
    <3> QED
      BY <1>8, <1>13, <1>14, <2>2, <3>1
  <2> QED
    BY <2>1, <2>2
<1>16. Succ(y) \in Slots
  BY SuccType
<1>17. PICK a : a = ShmsgReadAdvance(r, y)
  OBVIOUS
<1>18. a = [r EXCEPT !.read_idx = Succ(y), !.read_of = pe]
  <2>1. r.msg[y].of = pz /\ r.msg[y].size = S /\ r.read_of = pc
    BY <1>2, <1>7, <1>12, <1>13
  <2> QED
    BY <1>2, <1>15, <1>17, <2>1 DEF ShmsgReadAdvance, Region
<1>19. /\ a \in Region /\ a.write_idx = r.write_idx /\ a.msg = r.msg /\ a.read_idx = Succ(y)
       /\ a.read_of = pe /\ a.write_of = r.write_of /\ a.data = r.data /\ a.overflow = r.overflow
  BY <1>2, <1>16, <1>18 DEF Region
<1>20. r.msg[y] \in Message
  BY <1>3
<1>21. PICK m \in Message : m = [r.msg[y] EXCEPT !.src = Blank]
  BY <1>20 DEF Message
<1>22. m.src = Blank
  BY <1>20, <1>21 DEF Message
<1>23. PICK ms \in [Slots -> Message] : ms = [r.msg EXCEPT ![y] = m]
  BY <1>3
<1>24. ms[y] = m /\ \A i \in Slots \ {y} : ms[i] = r.msg[i]
  BY <1>3, <1>23
<1>25. t = [a EXCEPT !.msg = ms]
  BY <1>17, <1>19, <1>21, <1>23 DEF ShmsgRelease, Region
<1>26. /\ t \in Region /\ t.write_idx = r.write_idx /\ t.msg = ms /\ t.read_idx = Succ(y)
       /\ t.read_of = pe /\ t.write_of = r.write_of /\ t.data = r.data /\ t.overflow = r.overflow
  BY <1>19, <1>25 DEF Region
<1>27. ASSUME NEW i \in Slots
       PROVE  IF Distance(t.read_idx, i) < d
              THEN Stored(t, i, S, Cell(w, K, d - Distance(t.read_idx, i)))
              ELSE t.msg[i].src = Blank
  <2>1. CASE i = y
    <3>1. Distance(t.read_idx, i) = MAX_MESSAGES_PER_QUEUE - 1
      BY <1>26, <2>1, SuccDistance
    <3>2. ~(MAX_MESSAGES_PER_QUEUE - 1 < d)
      BY <1>1
    <3> QED
      BY <1>22, <1>24, <1>26, <2>1, <3>1, <3>2
  <2>2. CASE i # y
    <3>1. t.msg[i] = r.msg[i] /\ t.data = r.data
      BY <1>24, <1>26, <2>2
    <3>2. PICK u \in Nat : u = Distance(y, i)
      BY DistanceType
    <3>3. Distance(t.read_idx, i) = u - 1 /\ u # 0
      BY <1>26, <2>2, <3>2, SuccDistance, DistanceZero
    <3>4. d - (u - 1) = n - u /\ ((u - 1 < d) <=> (u < n)) /\ u - 1 \in Nat
      BY <1>1, <1>2, <1>9, <3>2, <3>3
    <3>5. IF u < n THEN Stored(r, i, S, Cell(w, K, n - u)) ELSE r.msg[i].src = Blank
      BY <3>2 DEF Ring
    <3>6. IF u < n THEN Stored(t, i, S, Cell(w, K, n - u)) ELSE t.msg[i].src = Blank
      BY <3>1, <3>5 DEF Stored
    <3> QED
      BY <3>3, <3>4, <3>6
  <2> QED
    BY <2>1, <2>2
<1>28. Ring(t, S, K, d, w, e)
  <2>1. d \in 0 .. MAX_MESSAGES_PER_QUEUE /\ (w = 0 => d = 0)
    BY <1>1, <1>4
  <2>2. t.write_of = Pos(S, w) /\ t.read_of = Pos(S, e)
    BY <1>2, <1>14, <1>26
  <2> QED
    BY <1>2, <1>10, <1>26, <1>27, <2>1, <2>2 DEF Ring
<1>29. \A i \in Slots \ {y} : t.msg[i] = r.msg[i]
  BY <1>24, <1>26
<1> QED
  BY <1>5, <1>6, <1>9, <1>26, <1>28, <1>29

-----------------------------------------------------------------------------
(* The mailbox.                                                            *)

Letter == [src : Peers, val : Values]

(* What the abstract mailbox sees of entry i.                              *)
LetterOf(r, i) == [src |-> r.msg[i].src, val |-> r.msg[i].val]

Box(r, n) == [k \in 1 .. n |-> LetterOf(r, Fwd(r.read_idx, k - 1))]

(* BoxOf of any region.                                                    *)
BoxAt(r) ==
  [k \in 1 .. Cardinality(Occupied(r)) |->
     LET i == (r.read_idx + k - 1) % MAX_MESSAGES_PER_QUEUE
     IN [src |-> r.msg[i].src, val |-> r.msg[i].val]]

LEMMA BoxAtRing ==
  ASSUME NEW S, NEW K, NEW n, NEW w, NEW c, NEW r, Ring(r, S, K, n, w, c)
  PROVE  BoxAt(r) = Box(r, n) /\ Box(r, n) \in Seq(Letter)
<1>1. n \in 0 .. MAX_MESSAGES_PER_QUEUE /\ MAX_MESSAGES_PER_QUEUE \in Nat \ {0}
  BY MsgMapAssumption DEF Ring
<1>2. r.read_idx \in Slots
  BY RingParts
<1>3. Cardinality(Occupied(r)) = n
  BY <1>1, <1>2, RingOccupied, CountEntries
<1>4. ASSUME NEW k \in 1 .. n
      PROVE  /\ (r.read_idx + k - 1) % MAX_MESSAGES_PER_QUEUE = Fwd(r.read_idx, k - 1)
             /\ LetterOf(r, Fwd(r.read_idx, k - 1)) \in Letter
  <2>1. PICK j \in 0 .. MAX_MESSAGES_PER_QUEUE - 1 : j = k - 1 /\ j < n
    BY <1>1
  <2>2. r.read_idx + k - 1 = r.read_idx + j
    BY <1>1, <1>2, <2>1 DEF Slots
  <2>3. (r.read_idx + j) % MAX_MESSAGES_PER_QUEUE = Fwd(r.read_idx, j)
    BY <1>2, <2>1, FwdModulo
  <2>4. PICK i \in Slots : i = Fwd(r.read_idx, j) /\ Distance(r.read_idx, i) = j
    BY <1>2, <2>1, FwdDistance
  <2>5. Stored(r, i, S, Cell(w, K, n - j))
    BY <2>1, <2>4 DEF Ring
  <2>6. LetterOf(r, i) \in Letter
    BY <2>5 DEF LetterOf, Letter, Stored
  <2> QED
    BY <2>1, <2>2, <2>3, <2>4, <2>6
<1>5. BoxAt(r) = Box(r, n)
  BY <1>3, <1>4 DEF BoxAt, Box, LetterOf
<1>6. Box(r, n) \in Seq(Letter)
  <2>1. n \in Nat
    BY <1>1
  <2> QED
    BY <1>4, <2>1 DEF Box
<1> QED
  BY <1>5, <1>6

(* The oldest message leaves.                                              *)
LEMMA BoxTail ==
  ASSUME NEW r, NEW t, NEW n \in 1 .. MAX_MESSAGES_PER_QUEUE, r.read_idx \in Slots,
         t.read_idx = Succ(r.read_idx), \A i \in Slots \ {r.read_idx} : t.msg[i] = r.msg[i],
         Box(r, n) \in Seq(Letter), Box(t, n - 1) \in Seq(Letter)
  PROVE  /\ Box(t, n - 1) = Tail(Box(r, n))
         /\ Box(r, n) # <<>> /\ Head(Box(r, n)) = LetterOf(r, r.read_idx)
<1>1. n \in Nat /\ n # 0 /\ MAX_MESSAGES_PER_QUEUE \in Nat \ {0} /\ n <= MAX_MESSAGES_PER_QUEUE
  BY MsgMapAssumption
<1>2. PICK s \in Seq(Letter) : s = Box(r, n)
  BY Zenon
<1>3. PICK u \in Seq(Letter) : u = Box(t, n - 1)
  BY Zenon
<1>4. Len(s) = n /\ Len(u) = n - 1
  BY <1>1, <1>2, <1>3 DEF Box
<1>5. ASSUME NEW k \in 1 .. n - 1 PROVE u[k] = s[k + 1]
  <2>1. u[k] = LetterOf(t, Fwd(Succ(r.read_idx), k - 1))
    BY <1>3 DEF Box
  <2>2. k \in 1 .. MAX_MESSAGES_PER_QUEUE /\ k \in 0 .. MAX_MESSAGES_PER_QUEUE - 1 /\ k + 1 \in 1 .. n
        /\ k + 1 - 1 = k /\ k # 0
    BY <1>1
  <2>3. Fwd(Succ(r.read_idx), k - 1) = Fwd(r.read_idx, k)
    BY <2>2, FwdBack
  <2>4. s[k + 1] = LetterOf(r, Fwd(r.read_idx, k))
    BY <1>2, <2>2 DEF Box
  <2>5. PICK i \in Slots : i = Fwd(r.read_idx, k) /\ Distance(r.read_idx, i) = k
    BY <2>2, FwdDistance
  <2>6. i # r.read_idx
    BY <2>2, <2>5, DistanceZero
  <2>7. LetterOf(t, i) = LetterOf(r, i)
    BY <2>6 DEF LetterOf
  <2> QED
    BY <2>1, <2>3, <2>4, <2>5, <2>7
<1>6. u = Tail(s)
  BY <1>1, <1>4, <1>5
<1>7. s # <<>> /\ Head(s) = s[1]
  BY <1>1, <1>4
<1>8. s[1] = LetterOf(r, r.read_idx)
  <2>1. 1 \in 1 .. n /\ 1 - 1 = 0
    BY <1>1
  <2>2. s[1] = LetterOf(r, Fwd(r.read_idx, 1 - 1))
    BY <1>2, <2>1 DEF Box
  <2>3. Fwd(r.read_idx, 0) = r.read_idx
    BY <1>1 DEF Fwd, Slots
  <2> QED
    BY <2>1, <2>2, <2>3
<1> QED
  BY <1>2, <1>3, <1>6, <1>7, <1>8

(* A new message enters.                                                   *)
LEMMA BoxAppend ==
  ASSUME NEW a, NEW t, NEW d \in 0 .. MAX_MESSAGES_PER_QUEUE - 1, a.read_idx \in Slots,
         NEW x \in Slots, Distance(a.read_idx, x) = d,
         t.read_idx = a.read_idx, \A i \in Slots \ {x} : t.msg[i] = a.msg[i],
         Box(a, d) \in Seq(Letter), Box(t, d + 1) \in Seq(Letter)
  PROVE  Box(t, d + 1) = Append(Box(a, d), LetterOf(t, x))
<1>1. d \in Nat /\ MAX_MESSAGES_PER_QUEUE \in Nat \ {0}
  BY MsgMapAssumption
<1>2. PICK s \in Seq(Letter) : s = Box(a, d)
  BY Zenon
<1>3. PICK u \in Seq(Letter) : u = Box(t, d + 1)
  BY Zenon
<1>4. Len(s) = d /\ Len(u) = d + 1
  BY <1>1, <1>2, <1>3 DEF Box
<1>5. ASSUME NEW k \in 1 .. d PROVE u[k] = s[k]
  <2>1. PICK j \in 0 .. MAX_MESSAGES_PER_QUEUE - 1 : j = k - 1 /\ j < d
    BY <1>1
  <2>2. PICK i \in Slots : i = Fwd(a.read_idx, j) /\ Distance(a.read_idx, i) = j
    BY <2>1, FwdDistance
  <2>3. i # x
    BY <2>1, <2>2
  <2>4. u[k] = LetterOf(t, Fwd(t.read_idx, k - 1)) /\ s[k] = LetterOf(a, Fwd(a.read_idx, k - 1))
    BY <1>1, <1>2, <1>3 DEF Box
  <2>5. LetterOf(t, i) = LetterOf(a, i)
    BY <2>3 DEF LetterOf
  <2> QED
    BY <2>1, <2>2, <2>4, <2>5
<1>6. u[d + 1] = LetterOf(t, x)
  <2>1. d + 1 \in 1 .. d + 1 /\ d + 1 - 1 = d
    BY <1>1
  <2>2. u[d + 1] = LetterOf(t, Fwd(t.read_idx, d + 1 - 1))
    BY <1>3, <2>1 DEF Box
  <2>3. Fwd(a.read_idx, d) = x
    BY DistanceFwd
  <2> QED
    BY <2>1, <2>2, <2>3
<1>7. LetterOf(t, x) \in Letter
  BY <1>1, <1>3, <1>4, <1>6
<1>8. PICK l \in Letter : l = LetterOf(t, x)
  BY <1>7, Zenon
<1>9. u = Append(s, l)
  BY <1>1, <1>4, <1>5, <1>6, <1>8
<1> QED
  BY <1>2, <1>3, <1>8, <1>9

-----------------------------------------------------------------------------
(* Every call keeps the invariant and is a call of the mailbox.            *)

LEMMA BoxNow == BoxOf = BoxAt(q) /\ BoxOf' = BoxAt(q')
BY DEF BoxOf, BoxAt

LEMMA FifoInit == ASSUME NEW S, OneReceiver(S) PROVE Init => FifoInv(S) /\ Mailbox!Init
<1> SUFFICES ASSUME Init PROVE FifoInv(S) /\ Mailbox!Init
  OBVIOUS
<1>1. PICK K : K = Cells(S) /\ Geometry(S, K)
  BY CellsFit
<1>2. S \in Nat \ {0} /\ K \in Nat /\ MAX_MESSAGES_PER_QUEUE \in Nat \ {0}
  BY <1>1, MsgMapAssumption DEF Geometry
<1>3. /\ q.read_idx = 0 /\ q.write_idx = 0 /\ q.read_of = 0 /\ q.write_of = 0
      /\ q.overflow = FALSE /\ q \in Region
      /\ \A i \in Slots : q.msg[i].src = Blank
  BY InitSound DEF Init, ShmsgQueueInit, Sound, BlankMessage
<1>4. 0 \in Slots /\ 0 \in 0 .. K /\ 0 \in 0 .. MAX_MESSAGES_PER_QUEUE
  BY <1>2 DEF Slots
<1>5. \A i \in Slots : ~(Distance(0, i) < 0)
  BY <1>4, DistanceType
<1>6. Pos(S, 0) = 0 /\ Cell(0, K, 0) = 0 /\ Fwd(0, 0) = 0
  BY <1>2, PosFirst DEF Cell, Fwd
<1>7. Ring(q, S, K, 0, 0, 0)
  BY <1>3, <1>4, <1>5, <1>6 DEF Ring
<1>8. FifoInv(S)
  BY <1>1, <1>3, <1>4, <1>6, <1>7 DEF FifoInv
<1>9. BoxOf = <<>>
  <2>1. BoxAt(q) = Box(q, 0) /\ Box(q, 0) \in Seq(Letter)
    BY <1>7, BoxAtRing
  <2>2. Box(q, 0) = <<>>
    BY DEF Box
  <2> QED
    BY <2>1, <2>2, BoxNow
<1>10. Mailbox!Init
  BY <1>3, <1>9 DEF Init, Nothing, Mailbox!Init
<1> QED
  BY <1>8, <1>10

(* What the invariant says of the region now.                              *)
LEMMA FifoRing ==
  ASSUME NEW S, OneReceiver(S), FifoInv(S)
  PROVE  \E K \in Nat, n \in 0 .. MAX_MESSAGES_PER_QUEUE, w \in Nat, c \in Nat :
           /\ K = Cells(S) /\ Geometry(S, K)
           /\ Ring(q, S, K, n, w, c) /\ q.write_idx = Fwd(q.read_idx, n)
           /\ BoxOf = Box(q, n) /\ Box(q, n) \in Seq(Letter)
<1>1. Geometry(S, Cells(S))
  BY CellsFit
<1>2. Cells(S) \in Nat
  BY <1>1 DEF Geometry
<1>3. PICK n \in 0 .. MAX_MESSAGES_PER_QUEUE, w \in 0 .. Cells(S), c \in 0 .. Cells(S) :
        Ring(q, S, Cells(S), n, w, c) /\ q.write_idx = Fwd(q.read_idx, n)
  BY DEF FifoInv
<1>4. BoxAt(q) = Box(q, n) /\ Box(q, n) \in Seq(Letter)
  BY <1>3, BoxAtRing
<1>5. BoxOf = Box(q, n)
  BY <1>4, BoxNow
<1> QED
  BY <1>1, <1>2, <1>3, <1>4, <1>5

(* The invariant and the mailbox after a step to the region t.             *)
LEMMA FifoAfter ==
  ASSUME NEW S, NEW K, Geometry(S, K), K = Cells(S), NEW n, NEW w, NEW c, NEW t,
         Ring(t, S, K, n, w, c), t.write_idx = Fwd(t.read_idx, n), q' = t
  PROVE  FifoInv(S)' /\ BoxOf' = Box(t, n) /\ Box(t, n) \in Seq(Letter)
<1>1. n \in 0 .. MAX_MESSAGES_PER_QUEUE /\ w \in 0 .. K /\ c \in 0 .. K
  BY DEF Ring
<1>2. FifoInv(S)'
  BY <1>1 DEF FifoInv
<1>3. BoxAt(t) = Box(t, n) /\ Box(t, n) \in Seq(Letter)
  BY BoxAtRing
<1> QED
  BY <1>2, <1>3, BoxNow

LEMMA FifoWrites ==
  ASSUME NEW S, OneReceiver(S), FifoInv(S), NEW src \in Peers, NEW size \in Sizes,
         NEW v \in Values, ShmsgWrite(src, Owner, size, v)
  PROVE  FifoInv(S)' /\ Mailbox!Next
<1>1. PICK K \in Nat, n \in 0 .. MAX_MESSAGES_PER_QUEUE, w \in Nat, c \in Nat :
           /\ K = Cells(S) /\ Geometry(S, K)
           /\ Ring(q, S, K, n, w, c) /\ q.write_idx = Fwd(q.read_idx, n)
           /\ BoxOf = Box(q, n) /\ Box(q, n) \in Seq(Letter)
  BY FifoRing
<1>2. n \in Nat /\ MAX_MESSAGES_PER_QUEUE \in Nat \ {0} /\ n <= MAX_MESSAGES_PER_QUEUE
  BY MsgMapAssumption
<1>3. PICK s \in Seq(Letter) : s = BoxOf /\ s = Box(q, n)
  BY <1>1, Zenon
<1>4. Len(s) = n
  BY <1>2, <1>3 DEF Box
<1>5. /\ (FreeSlots(q) = {}) <=> (n = MAX_MESSAGES_PER_QUEUE)
      /\ WriteSlot(q) = q.write_idx
  BY <1>1, RingFree
<1>6. got' = got
  BY DEF ShmsgWrite
<1>7. CASE size >= DATA_SIZE
  <2>1. q' = q /\ ret' = "SHERR_INVAL"
    BY <1>7, MsgMapAssumption DEF ShmsgWrite
  <2>2. FifoInv(S)' /\ BoxOf' = BoxOf
    BY <1>1, <2>1, FifoAfter
  <2>3. Mailbox!SendTooBig
    BY <1>6, <1>7, <2>1, <2>2 DEF Mailbox!SendTooBig
  <2> QED
    BY <2>2, <2>3 DEF Mailbox!Next
<1>8. CASE size < DATA_SIZE /\ QueueFull(q)
  <2>1. q' = q /\ ret' = "SHERR_AGAIN"
    BY <1>8, MsgMapAssumption DEF ShmsgWrite
  <2>2. FifoInv(S)' /\ BoxOf' = BoxOf
    BY <1>1, <2>1, FifoAfter
  <2>3. n = MAX_MESSAGES_PER_QUEUE /\ ~q.overflow
    BY <1>5, <1>8 DEF QueueFull
  <2>4. Mailbox!Send([src |-> src, val |-> v])
    BY <1>3, <1>4, <1>6, <2>1, <2>2, <2>3 DEF Mailbox!Send
  <2> QED
    BY <2>2, <2>4 DEF Mailbox!Next
<1>9. CASE size < DATA_SIZE /\ ~QueueFull(q)
  <2>1. size = S
    BY <1>9, MsgMapAssumption DEF OneReceiver
  <2>2. PICK a : a = ShmsgWriteMap(q)
    OBVIOUS
  <2>3. PICK x \in Slots : x = q.write_idx
    BY <1>1, RingParts
  <2>4. PICK d \in 0 .. MAX_MESSAGES_PER_QUEUE - 1, e \in 0 .. K :
           /\ Ring(a, S, K, d, w, e)
           /\ Distance(a.read_idx, x) = d
           /\ a.write_idx = Fwd(a.read_idx, d + 1)
           /\ \A i \in Slots \ {x} : a.msg[i] = q.msg[i]
           /\ a.overflow = q.overflow
           /\ IF n = MAX_MESSAGES_PER_QUEUE
              THEN d = n - 1 /\ a.read_idx = Succ(q.read_idx)
              ELSE d = n /\ a.read_idx = q.read_idx
    <3>1. /\ Geometry(S, K) /\ Ring(q, S, K, n, w, c)
          /\ q.write_idx = Fwd(q.read_idx, n)
      BY <1>1
    <3>2. \E d \in 0 .. MAX_MESSAGES_PER_QUEUE - 1, e \in 0 .. K :
             /\ Ring(a, S, K, d, w, e)
             /\ Distance(a.read_idx, q.write_idx) = d
             /\ a.write_idx = Fwd(a.read_idx, d + 1)
             /\ \A i \in Slots \ {q.write_idx} : a.msg[i] = q.msg[i]
             /\ a.overflow = q.overflow
             /\ IF n = MAX_MESSAGES_PER_QUEUE
                THEN d = n - 1 /\ a.read_idx = Succ(q.read_idx)
                ELSE d = n /\ a.read_idx = q.read_idx
      BY <3>1, <2>2, Reserves
    <3> QED
      BY <3>2, <2>3, Zenon
  <2>5. PICK b : b = ShmsgAddress(a, x, src, Owner)
    OBVIOUS
  <2>6. PICK t : t = ShmsgWriteMapData(b, x, S, v)
    OBVIOUS
  <2>7. /\ DataFits(b, S)
        /\ \E y \in 0 .. K : Ring(t, S, K, d + 1, y, e)
        /\ t.read_idx = a.read_idx /\ t.write_idx = a.write_idx /\ t.overflow = a.overflow
        /\ \A i \in Slots \ {x} : t.msg[i] = a.msg[i]
        /\ t.msg[x].src = src /\ t.msg[x].val = v
    BY <1>1, <2>4, <2>5, <2>6, Stores
  <2>8. q' = t /\ ret' = "0"
    <3>1. Addressed(src, Owner) = b
      BY <1>5, <2>2, <2>3, <2>5 DEF Addressed
    <3> QED
      BY <1>5, <1>9, <2>1, <2>3, <2>6, <2>7, <3>1, MsgMapAssumption DEF ShmsgWrite
  <2>9. PICK y \in 0 .. K : Ring(t, S, K, d + 1, y, e)
    BY <2>7
  <2>10. FifoInv(S)' /\ BoxOf' = Box(t, d + 1) /\ Box(t, d + 1) \in Seq(Letter)
    BY <1>1, <2>4, <2>7, <2>8, <2>9, FifoAfter
  <2>11. Box(a, d) \in Seq(Letter) /\ a.read_idx \in Slots
    BY <2>4, BoxAtRing, RingParts
  <2>12. PICK l : l = [src |-> src, val |-> v]
    OBVIOUS
  <2>13. LetterOf(t, x) = l
    BY <2>7, <2>12 DEF LetterOf
  <2>14. BoxOf' = Append(Box(a, d), l)
    BY <2>4, <2>7, <2>10, <2>11, <2>13, BoxAppend, ZenonT(40)
  <2>15. q'.overflow = q.overflow
    BY <2>4, <2>7, <2>8
  <2>16. CASE n # MAX_MESSAGES_PER_QUEUE
    <3>1. d = n /\ a.read_idx = q.read_idx
      BY <2>4, <2>16
    <3>2. ASSUME NEW k \in 1 .. n
          PROVE  LetterOf(a, Fwd(a.read_idx, k - 1)) = LetterOf(q, Fwd(q.read_idx, k - 1))
      <4>1. PICK j \in 0 .. MAX_MESSAGES_PER_QUEUE - 1 : j = k - 1 /\ j < n
        BY <1>2
      <4>2. PICK i \in Slots : i = Fwd(q.read_idx, j) /\ Distance(q.read_idx, i) = j
        BY <2>11, <3>1, <4>1, FwdDistance
      <4>3. i # x
        BY <2>4, <3>1, <4>1, <4>2
      <4>4. a.msg[i] = q.msg[i]
        BY <2>4, <4>3
      <4> QED
        BY <3>1, <4>1, <4>2, <4>4 DEF LetterOf
    <3>3. Box(a, d) = s
      BY <1>3, <3>1, <3>2 DEF Box
    <3>4. Len(s) < MAX_MESSAGES_PER_QUEUE /\ BoxOf' = Append(s, l)
      BY <1>2, <1>4, <2>14, <2>16, <3>3
    <3>5. Mailbox!Send(l)
      BY <1>3, <1>6, <2>8, <2>15, <3>4 DEF Mailbox!Send
    <3> QED
      BY <2>10, <2>12, <3>5 DEF Mailbox!Next
  <2>17. CASE n = MAX_MESSAGES_PER_QUEUE
    <3>1. d = n - 1 /\ a.read_idx = Succ(q.read_idx) /\ n \in 1 .. MAX_MESSAGES_PER_QUEUE
      BY <1>2, <2>4, <2>17
    <3>2. q.read_idx \in Slots
      BY <1>1, RingParts
    <3>3. x = q.read_idx
      BY <1>1, <2>3, <2>17, <3>2, FwdFull
    <3>4. Box(a, n - 1) = Tail(Box(q, n))
      BY <1>1, <2>4, <2>11, <3>1, <3>2, <3>3, BoxTail
    <3>5. BoxOf' = Append(Tail(s), l)
      BY <1>3, <2>14, <3>1, <3>4
    <3>6. q.overflow
      BY <1>5, <1>9, <2>17 DEF QueueFull
    <3>7. Mailbox!Send(l)
      BY <1>3, <1>4, <1>6, <2>8, <2>15, <2>17, <3>5, <3>6 DEF Mailbox!Send
    <3> QED
      BY <2>10, <2>12, <3>7 DEF Mailbox!Next
  <2> QED
    BY <2>16, <2>17
<1> QED
  BY <1>7, <1>8, <1>9, MsgMapAssumption

LEMMA FifoReads ==
  ASSUME NEW S, OneReceiver(S), FifoInv(S), ShmsgRead(Owner)
  PROVE  FifoInv(S)' /\ Mailbox!Next
<1>1. PICK K \in Nat, n \in 0 .. MAX_MESSAGES_PER_QUEUE, w \in Nat, c \in Nat :
           /\ K = Cells(S) /\ Geometry(S, K)
           /\ Ring(q, S, K, n, w, c) /\ q.write_idx = Fwd(q.read_idx, n)
           /\ BoxOf = Box(q, n) /\ Box(q, n) \in Seq(Letter)
  BY FifoRing
<1>2. n \in Nat /\ MAX_MESSAGES_PER_QUEUE \in Nat \ {0} /\ n <= MAX_MESSAGES_PER_QUEUE
      /\ S \in Nat \ {0}
  BY <1>1, MsgMapAssumption DEF Geometry
<1>3. /\ ReadableSlots(q, Owner) = Occupied(q)
      /\ (Occupied(q) = {}) <=> (n = 0)
      /\ n # 0 => ReadSlot(q, Owner) = q.read_idx
  BY <1>1, <1>2, RingReadable
<1>4. CASE n = 0
  <2>1. q' = q /\ got' = got /\ ret' = "SHERR_NOMSG"
    BY <1>3, <1>4 DEF ShmsgRead
  <2>2. FifoInv(S)' /\ BoxOf' = BoxOf
    BY <1>1, <2>1, FifoAfter
  <2>3. BoxOf = <<>>
    BY <1>1, <1>4 DEF Box
  <2>4. Mailbox!Receive
    BY <2>1, <2>2, <2>3 DEF Mailbox!Receive
  <2> QED
    BY <2>2, <2>4 DEF Mailbox!Next
<1>5. CASE n # 0
  <2>1. PICK y \in Slots : y = q.read_idx
    BY <1>1, RingParts
  <2>2. PICK t : t = ShmsgRelease(ShmsgReadAdvance(q, y), y)
    OBVIOUS
  <2>3. q' = t /\ got' = CopyOf(q.msg[y]) /\ ret' = "0"
    BY <1>3, <1>5, <2>1, <2>2 DEF ShmsgRead
  <2>4. /\ \E e \in 0 .. K : Ring(t, S, K, n - 1, w, e)
        /\ t.read_idx = Succ(y) /\ t.write_idx = q.write_idx /\ t.overflow = q.overflow
        /\ \A i \in Slots \ {y} : t.msg[i] = q.msg[i]
        /\ \E z \in 0 .. K - 1 : Stored(q, y, S, z)
    BY <1>1, <1>5, <2>1, <2>2, Takes
  <2>5. PICK e \in 0 .. K : Ring(t, S, K, n - 1, w, e)
    BY <2>4
  <2>6. t.write_idx = Fwd(t.read_idx, n - 1)
    <3>1. n \in 1 .. MAX_MESSAGES_PER_QUEUE
      BY <1>2, <1>5
    <3>2. Fwd(Succ(y), n - 1) = Fwd(y, n)
      BY <3>1, FwdBack
    <3> QED
      BY <1>1, <2>1, <2>4, <3>2
  <2>7. FifoInv(S)' /\ BoxOf' = Box(t, n - 1) /\ Box(t, n - 1) \in Seq(Letter)
    BY <1>1, <2>3, <2>5, <2>6, FifoAfter
  <2>8. /\ Box(t, n - 1) = Tail(Box(q, n))
        /\ Box(q, n) # <<>> /\ Head(Box(q, n)) = LetterOf(q, y)
    <3>1. n \in 1 .. MAX_MESSAGES_PER_QUEUE
      BY <1>2, <1>5
    <3> QED
      BY <1>1, <2>1, <2>4, <2>7, <3>1, BoxTail
  <2>9. BoxOf # <<>> /\ BoxOf' = Tail(BoxOf) /\ Head(BoxOf) = LetterOf(q, y)
    BY <1>1, <2>7, <2>8
  <2>10. CopyOf(q.msg[y]) = [src |-> q.msg[y].src, bytes |-> {q.msg[y].val}]
    <3>1. PICK z \in 0 .. K - 1 : Stored(q, y, S, z)
      BY <2>4
    <3>2. PICK p \in Nat : p = Pos(S, z)
      BY <1>2, PosNat
    <3>3. q.msg[y].of = p /\ q.msg[y].size = S
      BY <3>1, <3>2 DEF Stored
    <3>4. p + S <= DATA_SIZE
      <4>1. Pos(S, z) + S <= Pos(S, K)
        BY <1>2, PosApart
      <4>2. Pos(S, K) <= DATA_SIZE /\ Pos(S, K) \in Nat
        BY <1>1, <1>2, PosNat DEF Geometry
      <4> QED
        BY <1>2, <3>2, <4>1, <4>2, MsgMapAssumption
    <3>5. \A o \in p .. p + S - 1 : q.data[o] = q.msg[y].val
      <4> TAKE o \in p .. p + S - 1
      <4>1. o \in Bytes /\ p <= o /\ o < p + S
        BY <1>2, <3>4, MsgMapAssumption DEF Bytes
      <4> QED
        BY <3>1, <3>2, <4>1 DEF Stored
    <3>6. p \in p .. p + S - 1
      BY <1>2
    <3>7. {q.data[o] : o \in p .. p + S - 1} = {q.msg[y].val}
      BY <3>5, <3>6
    <3> QED
      BY <3>3, <3>7 DEF CopyOf
  <2>11. LetterOf(q, y).src = q.msg[y].src /\ LetterOf(q, y).val = q.msg[y].val
    BY DEF LetterOf
  <2>12. got' = [src |-> Head(BoxOf).src, bytes |-> {Head(BoxOf).val}]
    BY <2>3, <2>9, <2>10, <2>11
  <2>13. q'.overflow = q.overflow
    BY <2>3, <2>4
  <2>14. Mailbox!Receive
    BY <2>3, <2>9, <2>12, <2>13 DEF Mailbox!Receive
  <2> QED
    BY <2>7, <2>14 DEF Mailbox!Next
<1> QED
  BY <1>4, <1>5

LEMMA FifoCtl ==
  ASSUME NEW S, OneReceiver(S), FifoInv(S), NEW value \in BOOLEAN, ShmsgctlOverflow(value)
  PROVE  FifoInv(S)' /\ Mailbox!Next
<1>1. PICK K \in Nat, n \in 0 .. MAX_MESSAGES_PER_QUEUE, w \in Nat, c \in Nat :
           /\ K = Cells(S) /\ Geometry(S, K)
           /\ Ring(q, S, K, n, w, c) /\ q.write_idx = Fwd(q.read_idx, n)
           /\ BoxOf = Box(q, n) /\ Box(q, n) \in Seq(Letter)
  BY FifoRing
<1>2. PICK t : t = [q EXCEPT !.overflow = value]
  OBVIOUS
<1>3. q' = t /\ ret' = ret /\ got' = got
  BY <1>2 DEF ShmsgctlOverflow
<1>4. q \in Region
  BY <1>1 DEF Ring
<1>5. /\ t \in Region /\ t.overflow = value /\ t.read_idx = q.read_idx
      /\ t.write_idx = q.write_idx /\ t.read_of = q.read_of /\ t.write_of = q.write_of
      /\ t.msg = q.msg /\ t.data = q.data
  BY <1>2, <1>4 DEF Region
<1>6. Ring(t, S, K, n, w, c)
  BY <1>1, <1>5 DEF Ring, Stored
<1>7. FifoInv(S)' /\ BoxOf' = Box(t, n)
  BY <1>1, <1>3, <1>5, <1>6, FifoAfter
<1>8. Box(t, n) = Box(q, n)
  BY <1>5 DEF Box, LetterOf
<1>9. Mailbox!SetOverflow(value)
  BY <1>1, <1>3, <1>5, <1>7, <1>8 DEF Mailbox!SetOverflow
<1> QED
  BY <1>7, <1>9 DEF Mailbox!Next

LEMMA FifoStep ==
  ASSUME NEW S, OneReceiver(S), FifoInv(S), [Next]_vars
  PROVE  FifoInv(S)' /\ [Mailbox!Next]_(Mailbox!vars)
<1>1. Readers = {Owner} /\ Readers \union {Owner} = {Owner}
  BY DEF OneReceiver
<1>2. ASSUME NEW src \in Peers, NEW dest \in Readers \union {Owner}, NEW size \in Sizes,
             NEW v \in Values, ShmsgWrite(src, dest, size, v)
      PROVE  FifoInv(S)' /\ Mailbox!Next
  BY <1>1, <1>2, FifoWrites
<1>3. ASSUME NEW key \in Readers, ShmsgRead(key) PROVE FifoInv(S)' /\ Mailbox!Next
  BY <1>1, <1>3, FifoReads
<1>4. ASSUME NEW value \in BOOLEAN, ShmsgctlOverflow(value) PROVE FifoInv(S)' /\ Mailbox!Next
  BY <1>4, FifoCtl
<1>5. CASE UNCHANGED vars
  <2>1. q' = q /\ ret' = ret /\ got' = got
    BY <1>5 DEF vars
  <2>2. FifoInv(S)' /\ BoxOf' = BoxOf
    BY <2>1, BoxNow DEF FifoInv
  <2> QED
    BY <2>1, <2>2 DEF Mailbox!vars
<1> QED
  BY <1>2, <1>3, <1>4, <1>5 DEF Next

LEMMA FifoInvariant ==
  ASSUME NEW S, OneReceiver(S)
  PROVE  Spec => []FifoInv(S)
<1>1. Init => FifoInv(S)
  BY FifoInit
<1>2. FifoInv(S) /\ [Next]_vars => FifoInv(S)'
  BY FifoStep
<1> QED
  BY <1>1, <1>2, PTL DEF Spec

-----------------------------------------------------------------------------
(* The theorems.                                                           *)

(* For any table size, a queue with one receiver and messages of one size  *)
(* of which the data area holds a table is a mailbox: every call of        *)
(* shmsg_write, shmsg_read and shmsgctl does what MsgMailbox says.         *)
THEOREM FifoMailbox ==
  ASSUME NEW S, OneReceiver(S)
  PROVE  Spec => IsMailbox
<1>1. Init => Mailbox!Init
  BY FifoInit
<1>2. FifoInv(S) /\ [Next]_vars => [Mailbox!Next]_(Mailbox!vars)
  BY FifoStep
<1>3. Spec => []FifoInv(S)
  BY FifoInvariant
<1> QED
  BY <1>1, <1>2, <1>3, PTL DEF Spec, IsMailbox, Mailbox!Spec

(* In that use no unread message is overwritten (shmsg_write_map_data).    *)
THEOREM FifoIntact ==
  ASSUME NEW S, OneReceiver(S)
  PROVE  Spec => []Intact
<1>1. FifoInv(S) => Intact
  <2> SUFFICES ASSUME FifoInv(S), NEW i \in Occupied(q),
                      NEW o \in q.msg[i].of .. q.msg[i].of + q.msg[i].size - 1
               PROVE  q.data[o] = q.msg[i].val
    BY DEF Intact
  <2>1. PICK K \in Nat, n \in 0 .. MAX_MESSAGES_PER_QUEUE, w \in Nat, c \in Nat :
           /\ K = Cells(S) /\ Geometry(S, K)
           /\ Ring(q, S, K, n, w, c) /\ q.write_idx = Fwd(q.read_idx, n)
           /\ BoxOf = Box(q, n) /\ Box(q, n) \in Seq(Letter)
    BY FifoRing
  <2>2. i \in Slots /\ Distance(q.read_idx, i) < n
    BY <2>1, RingOccupied
  <2>3. /\ S \in Nat \ {0} /\ MAX_MESSAGES_PER_QUEUE <= K /\ MAX_MESSAGES_PER_QUEUE \in Nat \ {0}
        /\ q.read_idx \in Slots /\ w \in 0 .. K /\ (w = 0 => n = 0)
    BY <2>1, MsgMapAssumption DEF Geometry, Ring, Region
  <2>4. PICK f \in Nat : f = Distance(q.read_idx, i)
    BY <2>2, <2>3, DistanceType
  <2>5. PICK j \in 1 .. K : j = n - f
    BY <2>2, <2>3, <2>4
  <2>6. w \in 1 .. K
    BY <2>2, <2>3, <2>4
  <2>7. PICK z \in 0 .. K - 1 : z = Cell(w, K, j)
    BY <2>6, CellType
  <2>8. Stored(q, i, S, z)
    BY <2>1, <2>2, <2>4, <2>5, <2>7 DEF Ring
  <2>9. PICK p \in Nat : p = Pos(S, z)
    BY <2>3, PosNat
  <2>10. q.msg[i].of = p /\ q.msg[i].size = S
    BY <2>8, <2>9 DEF Stored
  <2>11. p + S <= DATA_SIZE
    <3>1. Pos(S, z) + S <= Pos(S, K)
      BY <2>3, PosApart
    <3>2. Pos(S, K) <= DATA_SIZE /\ Pos(S, K) \in Nat
      BY <2>1, <2>3, PosNat DEF Geometry
    <3> QED
      BY <2>3, <2>9, <3>1, <3>2, MsgMapAssumption
  <2>12. o \in Bytes /\ p <= o /\ o < p + S
    BY <2>3, <2>10, <2>11, MsgMapAssumption DEF Bytes
  <2> QED
    BY <2>8, <2>9, <2>12 DEF Stored
<1> QED
  BY <1>1, FifoInvariant, PTL

(* In that use shmsg_read finds a message when there is one                *)
(* (shmsg_read_map, shmsg_read_valid).                                     *)
THEOREM FifoFound ==
  ASSUME NEW S, OneReceiver(S)
  PROVE  Spec => []NoHiddenMessage
<1>1. FifoInv(S) => NoHiddenMessage
  <2> SUFFICES ASSUME FifoInv(S) PROVE NoHiddenMessage
    OBVIOUS
  <2>1. PICK K \in Nat, n \in 0 .. MAX_MESSAGES_PER_QUEUE, w \in Nat, c \in Nat :
           /\ K = Cells(S) /\ Geometry(S, K)
           /\ Ring(q, S, K, n, w, c) /\ q.write_idx = Fwd(q.read_idx, n)
           /\ BoxOf = Box(q, n) /\ Box(q, n) \in Seq(Letter)
    BY FifoRing
  <2>2. S \in Nat \ {0} /\ Readers = {Owner}
    BY DEF OneReceiver
  <2>3. ReadableSlots(q, Owner) = Occupied(q)
    BY <2>1, <2>2, RingReadable
  <2> QED
    BY <2>2, <2>3 DEF NoHiddenMessage
<1> QED
  BY <1>1, FifoInvariant, PTL

(* In that use a queue without messages takes the next one: read_of and    *)
(* write_of leave room for it, wherever they came to lie                   *)
(* (shmsg_write_map_data).                                                 *)
THEOREM FifoAccepts ==
  ASSUME NEW S, OneReceiver(S)
  PROVE  Spec => []EmptyAccepts
<1>1. FifoInv(S) => EmptyAccepts
  <2> SUFFICES ASSUME FifoInv(S), NEW size \in Sizes, size < DATA_SIZE
               PROVE  DataFits(ShmsgWriteMap(q), size)
    BY DEF EmptyAccepts
  <2>1. size = S
    BY MsgMapAssumption DEF OneReceiver
  <2>2. PICK K \in Nat, n \in 0 .. MAX_MESSAGES_PER_QUEUE, w \in Nat, c \in Nat :
           /\ K = Cells(S) /\ Geometry(S, K)
           /\ Ring(q, S, K, n, w, c) /\ q.write_idx = Fwd(q.read_idx, n)
           /\ BoxOf = Box(q, n) /\ Box(q, n) \in Seq(Letter)
    BY FifoRing
  <2>3. PICK a : a = ShmsgWriteMap(q)
    OBVIOUS
  <2>4. PICK d \in 0 .. MAX_MESSAGES_PER_QUEUE - 1, e \in 0 .. K : Ring(a, S, K, d, w, e)
    BY <2>2, <2>3, Reserves
  <2>5. d \in 0 .. K - 1 /\ a.write_of \in Nat /\ a.read_of \in Nat
    BY <2>2, <2>4, RingParts, MsgMapAssumption DEF Geometry
  <2>6. /\ w \in 0 .. K /\ (w = 0 => d = 0) /\ a.write_of = Pos(S, w) /\ a.read_of = Pos(S, e)
        /\ e = K \/ e = Cell(w, K, d)
    BY <2>4 DEF Ring
  <2>7. DataFits(a, S)
    BY <2>2, <2>5, <2>6, NextFits
  <2> QED
    BY <2>1, <2>3, <2>7
<1> QED
  BY <1>1, FifoInvariant, PTL

=============================================================================
