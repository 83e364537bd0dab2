--------------------------- MODULE ShMsgMapProofs ---------------------------
(***************************************************************************)
(* Lemmas about the functions of ShMsgMap for every table size and data    *)
(* area: the scans return entries of the table, and each function keeps    *)
(* the region well formed.  They hold for whole calls (ShMsgQueueProofs)   *)
(* and for the interleaved steps of several processes (ShMsgSharedProofs). *)
(***************************************************************************)
EXTENDS ShMsgMap, TLAPS, WellFoundedInduction

(* Succ is the successor in the cyclic table.                              *)
LEMMA SuccType == \A i \in Slots : Succ(i) \in Slots
BY MsgMapAssumption DEF Slots, Succ

(* A scan's distances are natural numbers below the table size.            *)
LEMMA DistanceType ==
  \A from, i \in Slots : Distance(from, i) \in 0 .. MAX_MESSAGES_PER_QUEUE - 1
BY MsgMapAssumption DEF Slots, Distance

(* A non-empty set of natural numbers has a least element.                 *)
LEMMA LeastElement ==
  ASSUME NEW T, T \subseteq Nat, T # {}
  PROVE  \E d \in T : \A e \in T : d <= e
<1>1. PICK d \in T : \A e \in T : ~(<<e, d>> \in OpToRel(<, Nat))
  BY NatLessThanWellFounded, WFMin
<1>2. \A x, y \in Nat : x < y => <<x, y>> \in OpToRel(<, Nat)
  BY DEF OpToRel
<1>3. \A e \in T : ~(e < d)
  BY <1>1, <1>2
<1>4. QED
  BY <1>3

(* A scan that visits a non-empty set of entries has a first one, so the   *)
(* loops of shmsg_write_map and shmsg_read_map return one of the entries.  *)
LEMMA FirstFromIsFirst ==
  ASSUME NEW from \in Slots, NEW S, S \subseteq Slots, S # {}
  PROVE  /\ FirstFrom(from, S) \in S
         /\ \A j \in S : Distance(from, FirstFrom(from, S)) <= Distance(from, j)
<1> DEFINE D == {Distance(from, i) : i \in S}
<1>1. \A i \in S : Distance(from, i) \in Nat
  BY DistanceType
<1>2. D \subseteq Nat /\ D # {}
  BY <1>1
<1>3. \E d \in D : \A e \in D : d <= e
  BY <1>2, LeastElement
<1>4. \E k \in S : \A j \in S : Distance(from, k) <= Distance(from, j)
  BY <1>3
<1>5. QED
  BY <1>4 DEF FirstFrom

-----------------------------------------------------------------------------
(* What each function of shsys_msg.c keeps of a well-formed region.        *)

Sound(r) == r \in Region /\ WithinData(r)

(* A new queue file is well formed.                                        *)
LEMMA InitSound == Sound(ShmsgQueueInit)
BY MsgMapAssumption
DEF Sound, Region, WithinData, ShmsgQueueInit, BlankMessage, Message, Slots, Bytes

(* shmsg_write_map returns an entry of the table.                          *)
LEMMA WriteSlotType == ASSUME NEW r \in Region PROVE WriteSlot(r) \in Slots
<1>1. r.write_idx \in Slots /\ r.read_idx \in Slots
  BY DEF Region
<1>2. FreeSlots(r) \subseteq Slots
  BY DEF FreeSlots, WriteScan
<1>3. QED
  BY <1>1, <1>2, FirstFromIsFirst DEF WriteSlot

(* shmsg_read_map returns an entry of the table.                           *)
LEMMA ReadSlotType ==
  ASSUME NEW r \in Region, NEW key, ReadableSlots(r, key) # {}
  PROVE  ReadSlot(r, key) \in ReadableSlots(r, key) /\ ReadSlot(r, key) \in Slots
<1>1. r.read_idx \in Slots
  BY DEF Region
<1>2. ReadableSlots(r, key) \subseteq Slots
  BY DEF ReadableSlots, ReadScan
<1>3. QED
  BY <1>1, <1>2, FirstFromIsFirst DEF ReadSlot

(* shmsg_write_map keeps the region well formed.                           *)
LEMMA WriteMapSound ==
  ASSUME NEW r, Sound(r)
  PROVE  Sound(ShmsgWriteMap(r))
<1> DEFINE
      idx == WriteSlot(r)
      ri == IF FreeSlots(r) = {} THEN Succ(idx) ELSE r.read_idx
      ro == IF FreeSlots(r) = {} THEN r.msg[idx].of + r.msg[idx].size ELSE r.read_of
      ms == [r.msg EXCEPT ![idx] = BlankMessage]
<1>1. idx \in Slots /\ Succ(idx) \in Slots
  BY WriteSlotType, SuccType DEF Sound
<1>2. BlankMessage \in Message
  BY DEF BlankMessage, Message
<1>3. ri \in Slots /\ ro \in Nat
  BY <1>1 DEF Sound, Region, Message
<1>4. ms \in [Slots -> Message]
  BY <1>1, <1>2 DEF Sound, Region
<1>5. ShmsgWriteMap(r) = [r EXCEPT !.read_idx = ri, !.read_of = ro,
                                   !.write_idx = Succ(idx), !.msg = ms]
  BY DEF ShmsgWriteMap
<1>6. ShmsgWriteMap(r) \in Region
  <2> HIDE DEF idx, ri, ro, ms
  <2> QED BY <1>1, <1>3, <1>4, <1>5 DEF Sound, Region
<1>7. WithinData(ShmsgWriteMap(r))
  <2> HIDE DEF idx
  <2> QED BY <1>1, MsgMapAssumption
          DEF Sound, Region, Message, WithinData, ShmsgWriteMap, BlankMessage, idx
<1>8. QED
  BY <1>6, <1>7 DEF Sound

(* Naming the source and the destination keeps the region well formed.     *)
LEMMA AddressSound ==
  ASSUME NEW r, Sound(r), NEW idx \in Slots, NEW src \in Peers, NEW dest \in Peers
  PROVE  Sound(ShmsgAddress(r, idx, src, dest))
<1> DEFINE
      m == [r.msg[idx] EXCEPT !.src = src, !.dest = dest]
      ms == [r.msg EXCEPT ![idx] = m]
<1>1. m \in Message /\ m.of = r.msg[idx].of /\ m.size = r.msg[idx].size
  BY DEF Sound, Region, Message
<1>2. ShmsgAddress(r, idx, src, dest) = [r EXCEPT !.msg = ms]
  BY DEF ShmsgAddress
<1> HIDE DEF m
<1>3. ms \in [Slots -> Message]
  BY <1>1 DEF Sound, Region
<1>4. \A i \in Slots : ms[i].of = r.msg[i].of /\ ms[i].size = r.msg[i].size
  BY <1>1 DEF Sound, Region
<1> HIDE DEF ms
<1>5. QED
  BY <1>2, <1>3, <1>4 DEF Sound, Region, WithinData

(* Releasing an entry keeps the region well formed.                        *)
LEMMA ReleaseSound ==
  ASSUME NEW r, Sound(r), NEW idx \in Slots
  PROVE  Sound(ShmsgRelease(r, idx))
<1> DEFINE
      m == [r.msg[idx] EXCEPT !.src = Blank]
      ms == [r.msg EXCEPT ![idx] = m]
<1>1. m \in Message /\ m.of = r.msg[idx].of /\ m.size = r.msg[idx].size
  BY DEF Sound, Region, Message
<1>2. ShmsgRelease(r, idx) = [r EXCEPT !.msg = ms]
  BY DEF ShmsgRelease
<1> HIDE DEF m
<1>3. ms \in [Slots -> Message]
  BY <1>1 DEF Sound, Region
<1>4. \A i \in Slots : ms[i].of = r.msg[i].of /\ ms[i].size = r.msg[i].size
  BY <1>1 DEF Sound, Region
<1> HIDE DEF ms
<1>5. QED
  BY <1>2, <1>3, <1>4 DEF Sound, Region, WithinData

(* The place shmsg_write_map_data chooses, if it chooses one, is inside    *)
(* the data area.                                                          *)
LEMMA DataPlace ==
  ASSUME NEW r, Sound(r), NEW size \in Nat, DataFits(r, size)
  PROVE  DataStart(r, size) \in Nat /\ DataStart(r, size) + size <= DATA_SIZE
BY MsgMapAssumption
DEF Sound, Region, WithinData, DataFits, DataStart, DataEnd

(* shmsg_write_map_data keeps the region well formed: its memcpy ends      *)
(* before the end of the mapping.                                          *)
LEMMA WriteMapDataSound ==
  ASSUME NEW r, Sound(r), NEW idx \in Slots, NEW size \in Nat, NEW v \in Values,
         DataFits(r, size)
  PROVE  Sound(ShmsgWriteMapData(r, idx, size, v))
<1> DEFINE
      start == DataStart(r, size)
      m == [r.msg[idx] EXCEPT !.size = size, !.of = start, !.val = v]
      ms == [r.msg EXCEPT ![idx] = m]
      d == [o \in Bytes |-> IF start <= o /\ o < start + size THEN v ELSE r.data[o]]
<1>1. start \in Nat /\ start + size \in Nat /\ start + size <= DATA_SIZE
  BY DataPlace
<1>2. ShmsgWriteMapData(r, idx, size, v)
        = [r EXCEPT !.write_of = start + size, !.data = d, !.msg = ms]
  BY DEF ShmsgWriteMapData
<1> HIDE DEF start
<1>3. m \in Message /\ m.of = start /\ m.size = size
  BY <1>1 DEF Sound, Region, Message
<1>4. d \in [Bytes -> Values \union {Blank}]
  BY DEF Sound, Region
<1> HIDE DEF m, d
<1>5. ms \in [Slots -> Message]
  BY <1>3 DEF Sound, Region
<1>6. \A i \in Slots : ms[i].of + ms[i].size <= DATA_SIZE
  BY <1>1, <1>3 DEF Sound, Region, WithinData
<1> HIDE DEF ms
<1>7. QED
  BY <1>1, <1>2, <1>4, <1>5, <1>6 DEF Sound, Region, WithinData

(* The bookkeeping of shmsg_read keeps the region well formed: read_of is  *)
(* only ever moved to the end of an entry.                                 *)
LEMMA ReadAdvanceSound ==
  ASSUME NEW r, Sound(r), NEW idx \in Slots
  PROVE  Sound(ShmsgReadAdvance(r, idx))
<1> DEFINE ro == IF r.msg[idx].of = r.read_of THEN r.read_of + r.msg[idx].size
                                              ELSE r.read_of
<1>1. Succ(r.read_idx) \in Slots
  BY SuccType DEF Sound, Region
<1>2. r.msg[idx].of \in Nat /\ r.msg[idx].size \in Nat
  BY DEF Sound, Region, Message
<1>3. ro \in Nat /\ ro <= DATA_SIZE
  BY <1>2, MsgMapAssumption DEF Sound, Region, WithinData
<1>4. ShmsgReadAdvance(r, idx) = [r EXCEPT !.read_idx = Succ(r.read_idx), !.read_of = ro]
  BY DEF ShmsgReadAdvance
<1> HIDE DEF ro
<1>5. QED
  BY <1>1, <1>3, <1>4 DEF Sound, Region, WithinData

=============================================================================
