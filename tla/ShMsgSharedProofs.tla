------------------------- MODULE ShMsgSharedProofs --------------------------
(***************************************************************************)
(* Theorems about ShMsgShared, for any number of processes, entries, bytes *)
(* and crashes and for messages of any sizes: while no two processes are   *)
(* inside the lock at once, no copy leaves the mapping, the entries of     *)
(* stored messages stay, and an entry is lost only to a crash, whichever   *)
(* of the separate stores of shmsg_write and shmsg_read is the last one    *)
(* that a process makes.                                                   *)
(***************************************************************************)
EXTENDS ShMsgShared, ShMsgMapProofs, FiniteSetTheorems

(* Types, and when a process has chosen a size.                            *)
Placed == {"move", "copy", "size", "of", "unlock"}

Local(p) ==
  /\ pc[p] \notin Placed => size[p] = 0
  /\ pc[p] \in {"move", "copy", "size"} => size[p] \in Sizes

SInv == TypeOK /\ \A p \in Procs : Local(p)

LEMMA SInvInit == Init => SInv
<1> SUFFICES ASSUME Init PROVE SInv
  OBVIOUS
<1>1. q \in Region
  BY InitSound DEF Init, Sound
<1>2. 0 \in Slots
  BY MsgMapAssumption DEF Slots
<1>3. lock \in 0 .. LEASE /\ crashes \in 0 .. MaxCrashes /\ overlap = FALSE
  <2>1. lock = 0 /\ crashes = 0 /\ overlap = FALSE
    BY DEF Init
  <2>2. QED
    BY <2>1, MsgSharedAssumption
<1>4. /\ pc \in [Procs -> PCs] /\ op \in [Procs -> {"none", "write", "read"}]
      /\ age \in [Procs -> 0 .. LEASE] /\ slot \in [Procs -> Slots]
      /\ start \in [Procs -> Nat] /\ size \in [Procs -> Nat]
  BY <1>2, MsgSharedAssumption DEF Init, PCs
<1>5. \A p \in Procs : Local(p)
  BY DEF Init, Local
<1>6. QED
  BY <1>1, <1>3, <1>4, <1>5 DEF SInv, TypeOK

(* What one process does to its own variables leaves the others' alone.    *)
LEMMA LocalStep ==
  ASSUME SInv, TypeOK', NEW p \in Procs,
         \A r \in Procs \ {p} : pc'[r] = pc[r] /\ size'[r] = size[r],
         pc'[p] \notin Placed => size'[p] = 0,
         pc'[p] \in {"move", "copy", "size"} => size'[p] \in Sizes
  PROVE  SInv'
BY DEF SInv, Local

(* Steps that leave the region alone keep the types.                       *)
LEMMA SInvPlain ==
  ASSUME SInv, NEW p \in Procs,
         \/ \E call \in {"write", "read"} : Call(p, call)
         \/ ShmsgLockCheck(p) \/ ShmsgLockSet(p) \/ ShmsgUnlock(p)
         \/ Crash(p) \/ Restart(p)
  PROVE  SInv'
<1> USE MsgSharedAssumption, MsgMapAssumption DEF Goto, Leave, At
<1>0. /\ 0 \in Slots /\ pc \in [Procs -> PCs] /\ size \in [Procs -> Nat]
      /\ pc[p] \notin Placed => size[p] = 0
  BY DEF Slots, SInv, TypeOK, Local
<1>1. ASSUME NEW call \in {"write", "read"}, Call(p, call) PROVE SInv'
  <2>1. TypeOK'
    BY <1>1 DEF SInv, TypeOK, PCs, Call
  <2>2. /\ \A r \in Procs \ {p} : pc'[r] = pc[r] /\ size'[r] = size[r]
        /\ pc'[p] = "check" /\ size'[p] = 0
    BY <1>0, <1>1 DEF Call, Placed
  <2>3. QED
    BY <2>1, <2>2, LocalStep
<1>2. CASE ShmsgLockCheck(p)
  <2>1. TypeOK'
    BY <1>0, <1>2 DEF SInv, TypeOK, PCs, ShmsgLockCheck
  <2>2. /\ \A r \in Procs \ {p} : pc'[r] = pc[r] /\ size'[r] = size[r]
        /\ pc'[p] \in {"idle", "set"} /\ size'[p] = 0
    BY <1>0, <1>2 DEF ShmsgLockCheck, Placed
  <2>3. QED
    BY <2>1, <2>2, LocalStep
<1>3. CASE ShmsgLockSet(p)
  <2>1. TypeOK'
    BY <1>3 DEF SInv, TypeOK, PCs, Inside, ShmsgLockSet
  <2>2. /\ \A r \in Procs \ {p} : pc'[r] = pc[r] /\ size'[r] = size[r]
        /\ pc'[p] \in {"unlock", "scan"} /\ size'[p] = 0
    BY <1>0, <1>3 DEF ShmsgLockSet, Placed
  <2>3. QED
    BY <2>1, <2>2, LocalStep
<1>4. CASE ShmsgUnlock(p) \/ Crash(p)
  <2>1. TypeOK'
    BY <1>0, <1>4 DEF SInv, TypeOK, PCs, ShmsgUnlock, Crash
  <2>2. /\ \A r \in Procs \ {p} : pc'[r] = pc[r] /\ size'[r] = size[r]
        /\ pc'[p] \in {"idle", "dead"} /\ size'[p] = 0
    BY <1>0, <1>4 DEF ShmsgUnlock, Crash
  <2>3. QED
    BY <2>1, <2>2, LocalStep
<1>5. CASE Restart(p)
  <2>1. TypeOK'
    BY <1>5 DEF SInv, TypeOK, PCs, Restart
  <2>2. /\ \A r \in Procs \ {p} : pc'[r] = pc[r] /\ size'[r] = size[r]
        /\ pc'[p] = "idle" /\ size'[p] = 0
    BY <1>0, <1>5 DEF Restart, Placed
  <2>3. QED
    BY <2>1, <2>2, LocalStep
<1>6. QED
  BY <1>1, <1>2, <1>3, <1>4, <1>5

(* Replacing one entry of the table.                                       *)
LEMMA EntryType ==
  ASSUME NEW r \in Region, NEW idx \in Slots, NEW m \in Message
  PROVE  /\ [r EXCEPT !.msg[idx] = m] \in Region
         /\ [r EXCEPT !.msg[idx] = m].msg = [r.msg EXCEPT ![idx] = m]
         /\ [r EXCEPT !.msg[idx] = m].overflow = r.overflow
         /\ [r EXCEPT !.msg[idx] = m].read_of = r.read_of
         /\ [r EXCEPT !.msg[idx] = m].write_of = r.write_of
<1>1. [r.msg EXCEPT ![idx] = m] \in [Slots -> Message]
  BY DEF Region
<1>2. QED
  BY <1>1 DEF Region

(* What each step that writes the region does to it.                       *)
Entry(p, m) ==
  /\ q'.msg = [q.msg EXCEPT ![slot[p]] = m]
  /\ q'.read_of = q.read_of /\ q'.write_of = q.write_of

LEMMA Effects ==
  ASSUME SInv, NEW p \in Procs
  PROVE  /\ q.msg \in [Slots -> Message] /\ slot[p] \in Slots
         /\ q.read_of \in Nat /\ q.write_of \in Nat
         /\ start[p] \in Nat /\ size[p] \in Nat
         /\ WriteClaim(p) => q' \in Region /\ q'.overflow = q.overflow
                             /\ Entry(p, BlankMessage)
         /\ WriteAddress(p) => /\ q' \in Region /\ q'.overflow = q.overflow
              /\ Entry(p, [q.msg[slot[p]] EXCEPT !.src = p, !.dest = Owner])
         /\ WriteUndo(p) \/ ReadRelease(p) =>
              /\ q' \in Region /\ q'.overflow = q.overflow
              /\ Entry(p, [q.msg[slot[p]] EXCEPT !.src = Blank])
         /\ WriteSize(p) => /\ q' \in Region /\ q'.overflow = q.overflow
              /\ Entry(p, [q.msg[slot[p]] EXCEPT !.size = size[p]])
         /\ WriteOf(p) => /\ q' \in Region /\ q'.overflow = q.overflow
              /\ Entry(p, [q.msg[slot[p]] EXCEPT !.of = start[p]])
<1> USE MsgSharedAssumption
<1> DEFINE e == q.msg[slot[p]]
<1>1. q \in Region /\ slot[p] \in Slots /\ start[p] \in Nat /\ size[p] \in Nat
  BY DEF SInv, TypeOK
<1>2. /\ q.msg \in [Slots -> Message] /\ q.read_of \in Nat /\ q.write_of \in Nat
      /\ e \in Message
  BY <1>1 DEF Region
<1>3. BlankMessage \in Message
  BY DEF BlankMessage, Message
<1>4. /\ [e EXCEPT !.src = p, !.dest = Owner] \in Message
      /\ [e EXCEPT !.src = Blank] \in Message
      /\ [e EXCEPT !.size = size[p]] \in Message
      /\ [e EXCEPT !.of = start[p]] \in Message
  BY <1>1, <1>2 DEF Message
<1>5. ASSUME WriteClaim(p)
      PROVE  q' \in Region /\ q'.overflow = q.overflow /\ Entry(p, BlankMessage)
  <2> DEFINE r == [q EXCEPT !.msg[slot[p]] = BlankMessage]
  <2>1. /\ r \in Region /\ r.msg = [q.msg EXCEPT ![slot[p]] = BlankMessage]
        /\ r.overflow = q.overflow /\ r.read_of = q.read_of /\ r.write_of = q.write_of
    BY <1>1, <1>3, EntryType
  <2>2. Succ(slot[p]) \in Slots
    BY <1>1, SuccType
  <2>3. q' = [r EXCEPT !.write_idx = Succ(slot[p])]
    BY <1>1, <1>5 DEF WriteClaim, Region
  <2> HIDE DEF r
  <2>4. QED
    BY <2>1, <2>2, <2>3 DEF Region, Entry
<1>6. ASSUME NEW m \in Message, q' = [q EXCEPT !.msg[slot[p]] = m]
      PROVE  q' \in Region /\ q'.overflow = q.overflow /\ Entry(p, m)
  BY <1>1, <1>6, EntryType DEF Entry
<1>7. ASSUME WriteAddress(p)
      PROVE  q' = [q EXCEPT !.msg[slot[p]] = [e EXCEPT !.src = p, !.dest = Owner]]
  BY <1>7 DEF WriteAddress, ShmsgAddress
<1>8. ASSUME WriteUndo(p) \/ ReadRelease(p)
      PROVE  q' = [q EXCEPT !.msg[slot[p]] = [e EXCEPT !.src = Blank]]
  BY <1>8 DEF WriteUndo, ReadRelease, ShmsgRelease
<1>9. ASSUME WriteSize(p)
      PROVE  q' = [q EXCEPT !.msg[slot[p]] = [e EXCEPT !.size = size[p]]]
  BY <1>9 DEF WriteSize
<1>10. ASSUME WriteOf(p)
       PROVE  q' = [q EXCEPT !.msg[slot[p]] = [e EXCEPT !.of = start[p]]]
  BY <1>10 DEF WriteOf
<1> HIDE DEF e
<1>11. QED
  BY <1>1, <1>2, <1>4, <1>5, <1>6, <1>7, <1>8, <1>9, <1>10 DEF e

(* The stores of offsets, of the index and of the content.                 *)
LEMMA Stores ==
  ASSUME SInv, NEW p \in Procs
  PROVE  /\ WriteMove(p) =>
              /\ q' \in Region /\ q'.msg = q.msg /\ q'.overflow = q.overflow
              /\ q'.read_of = q.read_of /\ q'.write_of = start[p] + size[p]
         /\ \A v \in Values : WriteCopy(p, v) =>
              /\ q' \in Region /\ q'.msg = q.msg /\ q'.overflow = q.overflow
              /\ q'.read_of = q.read_of /\ q'.write_of = q.write_of
         /\ ReadAdvance(p) =>
              /\ q' \in Region /\ q'.msg = q.msg /\ q'.overflow = q.overflow
              /\ q'.read_of = q.read_of /\ q'.write_of = q.write_of
         /\ ReadFree(p) =>
              /\ q' \in Region /\ q'.msg = q.msg /\ q'.overflow = q.overflow
              /\ q'.read_of = q.read_of + q.msg[slot[p]].size
              /\ q'.write_of = q.write_of
<1>1. q \in Region /\ start[p] + size[p] \in Nat /\ q.msg[slot[p]].size \in Nat
  <2>1. q.msg[slot[p]] \in Message /\ start[p] \in Nat /\ size[p] \in Nat
    BY Effects
  <2>2. QED
    BY <2>1 DEF SInv, TypeOK, Message
<1>2. ASSUME WriteMove(p)
      PROVE  /\ q' \in Region /\ q'.msg = q.msg /\ q'.overflow = q.overflow
             /\ q'.read_of = q.read_of /\ q'.write_of = start[p] + size[p]
  BY <1>1, <1>2 DEF WriteMove, Region
<1>3. ASSUME NEW v \in Values, WriteCopy(p, v)
      PROVE  /\ q' \in Region /\ q'.msg = q.msg /\ q'.overflow = q.overflow
             /\ q'.read_of = q.read_of /\ q'.write_of = q.write_of
  <2> DEFINE d == [o \in Bytes |-> IF start[p] <= o /\ o < start[p] + size[p]
                                   THEN v ELSE q.data[o]]
  <2>1. d \in [Bytes -> Values \union {Blank}]
    BY <1>1 DEF Region
  <2>2. q' = [q EXCEPT !.data = d]
    BY <1>3 DEF WriteCopy
  <2> HIDE DEF d
  <2>3. QED
    BY <1>1, <2>1, <2>2 DEF Region
<1>4. ASSUME ReadAdvance(p)
      PROVE  /\ q' \in Region /\ q'.msg = q.msg /\ q'.overflow = q.overflow
             /\ q'.read_of = q.read_of /\ q'.write_of = q.write_of
  <2>1. Succ(q.read_idx) \in Slots
    BY <1>1, SuccType DEF Region
  <2>2. QED
    BY <1>1, <1>4, <2>1 DEF ReadAdvance, Region
<1>5. ASSUME ReadFree(p)
      PROVE  /\ q' \in Region /\ q'.msg = q.msg /\ q'.overflow = q.overflow
             /\ q'.read_of = q.read_of + q.msg[slot[p]].size
             /\ q'.write_of = q.write_of
  BY <1>1, <1>5 DEF ReadFree, Region
<1>6. QED
  BY <1>2, <1>3, <1>4, <1>5

(* A step inside the lock that keeps the types of what it stores.          *)
LEMMA SInvAccess ==
  ASSUME SInv, NEW p \in Procs, NEW label \in Inside, Access(p, label),
         q' \in Region, slot' \in [Procs -> Slots],
         UNCHANGED <<start, size>>,
         label \notin Placed => size[p] = 0,
         label \in {"move", "copy", "size"} => size[p] \in Sizes
  PROVE  SInv'
<1>1. TypeOK'
  BY DEF SInv, TypeOK, PCs, Access, Goto
<1>2. /\ \A r \in Procs \ {p} : pc'[r] = pc[r] /\ size'[r] = size[r]
      /\ pc'[p] = label /\ size'[p] = size[p]
  BY DEF SInv, TypeOK, Access, Goto
<1>3. QED
  BY <1>1, <1>2, LocalStep

(* The steps of shmsg_write keep the types.                                *)
LEMMA SInvWrite ==
  ASSUME SInv, NEW p \in Procs,
         \/ WriteScanStep(p) \/ WriteClaim(p) \/ WriteAddress(p) \/ WriteStart(p)
         \/ \E len \in Sizes : WritePlace(p, len)
         \/ WriteUndo(p) \/ WriteMove(p) \/ \E v \in Values : WriteCopy(p, v)
         \/ WriteSize(p) \/ WriteOf(p)
  PROVE  SInv'
<1> USE DEF At
<1>1. /\ q \in Region /\ slot \in [Procs -> Slots] /\ start \in [Procs -> Nat]
      /\ size \in [Procs -> Nat] /\ q.write_of \in Nat /\ q.read_of \in Nat
      /\ pc[p] \notin Placed => size[p] = 0
      /\ pc[p] \in {"move", "copy", "size"} => size[p] \in Sizes
  BY Effects DEF SInv, TypeOK, Local
<1>2. CASE WriteScanStep(p)
  <2>1. WriteSlot(q) \in Slots
    BY WriteSlotType, <1>1
  <2>2. slot' \in [Procs -> Slots] /\ size[p] = 0
    BY <1>1, <1>2, <2>1 DEF WriteScanStep, Placed
  <2>3. \E label \in {"unlock", "claim"} : Access(p, label)
    BY <1>2 DEF WriteScanStep
  <2>4. QED
    BY <1>1, <1>2, <2>2, <2>3, SInvAccess DEF WriteScanStep, Inside
<1>3. ASSUME WriteClaim(p) \/ WriteAddress(p) PROVE SInv'
  <2>1. q' \in Region /\ size[p] = 0
    BY <1>1, <1>3, Effects DEF WriteClaim, WriteAddress, Placed
  <2>2. \E label \in {"address", "start"} : Access(p, label)
    BY <1>3 DEF WriteClaim, WriteAddress
  <2>3. slot' \in [Procs -> Slots] /\ UNCHANGED <<start, size>>
    BY <1>1, <1>3 DEF WriteClaim, WriteAddress
  <2>4. QED
    BY <2>1, <2>2, <2>3, SInvAccess DEF Inside, Filling
<1>4. CASE WriteStart(p)
  <2>1. TypeOK'
    BY <1>1, <1>4 DEF WriteStart, Access, Goto, SInv, TypeOK, PCs, Inside, Filling
  <2>2. /\ \A r \in Procs \ {p} : pc'[r] = pc[r] /\ size'[r] = size[r]
        /\ pc'[p] = "place" /\ size'[p] = 0
    BY <1>1, <1>4 DEF WriteStart, Access, Goto, SInv, TypeOK, Placed
  <2>3. QED
    BY <2>1, <2>2, LocalStep
<1>5. ASSUME NEW len \in Sizes, WritePlace(p, len) PROVE SInv'
  <2>1. len \in Nat /\ Begin(p, len) \in Nat
    BY <1>1, MsgMapAssumption DEF Begin
  <2>2. CASE Holds(Begin(p, len), End(p, len), len)
    <3>1. TypeOK'
      BY <1>1, <1>5, <2>1, <2>2
      DEF WritePlace, Access, Goto, SInv, TypeOK, PCs, Inside, Filling
    <3>2. /\ \A r \in Procs \ {p} : pc'[r] = pc[r] /\ size'[r] = size[r]
          /\ pc'[p] = "move" /\ size'[p] = len
      BY <1>1, <1>5, <2>2 DEF WritePlace, Access, Goto, SInv, TypeOK
    <3>3. QED
      BY <3>1, <3>2, LocalStep DEF Placed
  <2>3. CASE ~Holds(Begin(p, len), End(p, len), len)
    <3>1. /\ Access(p, "undo") /\ UNCHANGED <<start, size>> /\ size[p] = 0
          /\ q' \in Region /\ slot' \in [Procs -> Slots]
      BY <1>1, <1>5, <2>3 DEF WritePlace, Placed
    <3>2. QED
      BY <3>1, SInvAccess DEF Inside, Filling
  <2>4. QED
    BY <2>2, <2>3
<1>6. ASSUME WriteUndo(p) \/ WriteMove(p) \/ (\E v \in Values : WriteCopy(p, v))
             \/ WriteSize(p) \/ WriteOf(p)
      PROVE  SInv'
  <2>1. q' \in Region
    BY <1>6, Effects, Stores
  <2>2. slot' \in [Procs -> Slots] /\ UNCHANGED <<start, size>>
    BY <1>1, <1>6 DEF WriteUndo, WriteMove, WriteCopy, WriteSize, WriteOf
  <2>3. \/ Access(p, "unlock") \/ Access(p, "of")
        \/ pc[p] = "move" /\ Access(p, "copy")
        \/ pc[p] = "copy" /\ Access(p, "size")
    <3>1. CASE WriteUndo(p) \/ WriteSize(p) \/ WriteOf(p)
      BY <3>1 DEF WriteUndo, WriteSize, WriteOf
    <3>2. CASE WriteMove(p)
      BY <3>2 DEF WriteMove
    <3>3. ASSUME NEW v \in Values, WriteCopy(p, v)
          PROVE  pc[p] = "copy" /\ Access(p, "size")
      BY <3>3 DEF WriteCopy
    <3>4. QED
      BY <1>6, <3>1, <3>2, <3>3
  <2>4. QED
    BY <1>1, <2>1, <2>2, <2>3, SInvAccess DEF Inside, Filling, Placed
<1>7. QED
  BY <1>2, <1>3, <1>4, <1>5, <1>6

(* The steps of shmsg_read keep the types.                                 *)
LEMMA SInvRead ==
  ASSUME SInv, NEW p \in Procs,
         ReadScanStep(p) \/ ReadAdvance(p) \/ ReadTest(p) \/ ReadFree(p)
         \/ ReadRelease(p)
  PROVE  SInv'
<1> USE DEF At
<1>1. /\ q \in Region /\ slot \in [Procs -> Slots]
      /\ pc[p] \notin Placed => size[p] = 0
  BY DEF SInv, TypeOK, Local
<1>2. size[p] = 0 /\ UNCHANGED <<start, size>>
  BY <1>1 DEF ReadScanStep, ReadAdvance, ReadTest, ReadFree, ReadRelease, Placed
<1>3. slot' \in [Procs -> Slots]
  <2>1. ReadableSlots(q, p) # {} => ReadSlot(q, p) \in Slots
    BY ReadSlotType, <1>1
  <2>2. QED
    BY <1>1, <2>1 DEF ReadScanStep, ReadAdvance, ReadTest, ReadFree, ReadRelease
<1>4. q' \in Region
  <2>1. CASE ReadScanStep(p) \/ ReadTest(p)
    BY <1>1, <2>1 DEF ReadScanStep, ReadTest
  <2>2. CASE ReadAdvance(p) \/ ReadFree(p) \/ ReadRelease(p)
    BY <2>2, Effects, Stores
  <2>3. QED
    BY <2>1, <2>2
<1>5. \E label \in {"unlock", "advance", "test", "free", "release"} : Access(p, label)
  BY DEF ReadScanStep, ReadAdvance, ReadTest, ReadFree, ReadRelease
<1>6. QED
  BY <1>2, <1>3, <1>4, <1>5, SInvAccess DEF Inside

(* Every step keeps the types.                                             *)
LEMMA SInvNext == SInv /\ [Next]_vars => SInv'
<1> SUFFICES ASSUME SInv, [Next]_vars PROVE SInv'
  OBVIOUS
<1>1. ASSUME NEW p \in Procs, Step(p) PROVE SInv'
  BY <1>1, SInvPlain, SInvWrite, SInvRead DEF Step
<1>2. ASSUME NEW p \in Procs,
             \/ \E call \in {"write", "read"} : Call(p, call)
             \/ Crash(p) \/ Restart(p)
      PROVE  SInv'
  BY <1>2, SInvPlain
<1>3. CASE Tick
  <2>1. TypeOK'
    BY <1>3, MsgSharedAssumption DEF Tick, SInv, TypeOK
  <2>2. QED
    BY <1>3, <2>1 DEF Tick, SInv, Local
<1>4. CASE UNCHANGED vars
  BY <1>4 DEF vars, SInv, TypeOK, Local
<1>5. QED
  BY <1>1, <1>2, <1>3, <1>4 DEF Next

(* However the processes interleave, stall and crash, the region keeps the *)
(* shape of shmsgq_t and the lock its lease.                               *)
THEOREM SharedTypes == Spec => []TypeOK
<1>1. SInv => TypeOK
  BY DEF SInv
<1>2. QED
  BY <1>1, SInvInit, SInvNext, PTL DEF Spec

-----------------------------------------------------------------------------
(* While processes do not overlap.                                         *)

(* What a process in the middle of shmsg_write or shmsg_read relies on:    *)
(* the entry it found is still free, the entry it took still blank, the    *)
(* entry it addressed still without content, the entry it gave a size      *)
(* still without offset, and the bytes it gives up are the next in turn.   *)
Reserved(p) ==
  LET m == q.msg[slot[p]]
  IN  /\ pc[p] = "claim" => m.src = Blank
      /\ pc[p] = "address" => m = BlankMessage
      /\ pc[p] \in Filling => m.src # Blank /\ m.size = 0 /\ m.of = 0
      /\ pc[p] = "of" => m.src # Blank /\ m.size = size[p] /\ m.of = 0
      /\ pc[p] = "free" => m.of = q.read_of

Alone == \A p, r \in Procs : pc[p] \in Inside /\ pc[r] \in Inside => p = r

(* SHMSGF_OVERFLOW is off, and without an overlap at most one process is   *)
(* inside, whose entry nobody else touches.                                *)
SerialInv ==
  /\ q.overflow = FALSE
  /\ ~overlap => Alone /\ \A p \in Procs : Reserved(p)
  /\ SerialBounds

Quiet == PCs \ ({"claim", "address", "of", "free"} \union Filling)

LEMMA SerialInit == Init => SerialInv
<1> SUFFICES ASSUME Init PROVE SerialInv
  OBVIOUS
<1>1. q.overflow = FALSE /\ WithinData(q)
  BY InitSound DEF Init, Sound, ShmsgQueueInit
<1>2. \A p \in Procs : pc[p] = "idle" /\ start[p] + size[p] <= DATA_SIZE
  BY MsgMapAssumption DEF Init
<1>3. QED
  BY <1>1, <1>2 DEF SerialInv, SerialBounds, Alone, Reserved, Inside, Filling

(* A step of the only process inside leaves the others outside.            *)
LEMMA StepAlone ==
  ASSUME SInv, Alone, NEW p \in Procs, NEW label, pc[p] \in Inside,
         pc' = [pc EXCEPT ![p] = label]
  PROVE  Alone' /\ \A r \in Procs \ {p} : Reserved(r)'
<1>1. \A r \in Procs \ {p} : pc'[r] = pc[r] /\ pc[r] \notin Inside
  BY DEF SInv, TypeOK, Alone
<1>2. QED
  BY <1>1 DEF Alone, Reserved, Inside

(* A step that leaves the region alone and is not about to write it.       *)
LEMMA QuietStep ==
  ASSUME SInv, SerialInv, NEW p \in Procs, NEW label \in Quiet, UNCHANGED q,
         pc' = [pc EXCEPT ![p] = label],
         \A r \in Procs \ {p} :
           slot'[r] = slot[r] /\ start'[r] = start[r] /\ size'[r] = size[r],
         ~overlap => start'[p] + size'[p] <= DATA_SIZE,
         overlap => overlap',
         label \in Inside => \A r \in Procs \ {p} : pc[r] \notin Inside \/ overlap'
  PROVE  SerialInv'
<1>1. \A r \in Procs \ {p} : pc'[r] = pc[r]
  BY DEF SInv, TypeOK
<1>2. pc'[p] = label
  BY DEF SInv, TypeOK
<1>3. ASSUME ~overlap' PROVE Alone'
  BY <1>1, <1>2, <1>3 DEF SerialInv, Alone
<1>4. ASSUME ~overlap', NEW r \in Procs PROVE Reserved(r)'
  BY <1>1, <1>2, <1>4 DEF SerialInv, Reserved, Quiet
<1>5. SerialBounds'
  <2>1. SUFFICES ASSUME ~overlap' PROVE WithinData(q)' /\ \A r \in Procs : start'[r] + size'[r] <= DATA_SIZE
    BY DEF SerialBounds
  <2>2. WithinData(q) /\ \A r \in Procs : start[r] + size[r] <= DATA_SIZE
    BY <2>1 DEF SerialInv, SerialBounds
  <2>3. WithinData(q)'
    BY <2>2 DEF WithinData
  <2>4. QED
    BY <2>1, <2>2, <2>3
<1>6. QED
  BY <1>3, <1>4, <1>5 DEF SerialInv

(* A step of the process inside that stores to the region.                 *)
LEMMA StoreStep ==
  ASSUME SInv, SerialInv, NEW p \in Procs, NEW label, pc[p] \in Inside,
         Access(p, label), q'.overflow = q.overflow,
         ~overlap => /\ Reserved(p)' /\ WithinData(q')
                     /\ \A r \in Procs : start'[r] + size'[r] <= DATA_SIZE
  PROVE  SerialInv'
<1>1. overlap' = overlap /\ pc' = [pc EXCEPT ![p] = label]
  BY DEF Access, Goto
<1>2. SerialBounds'
  BY <1>1 DEF SerialBounds
<1>3. ~overlap => Alone' /\ \A r \in Procs \ {p} : Reserved(r)'
  BY <1>1, StepAlone DEF SerialInv
<1>4. QED
  BY <1>1, <1>2, <1>3 DEF SerialInv

(* Without an overlap the entries and the process inside fit the data.     *)
LEMMA SerialFacts ==
  ASSUME SInv, SerialInv, ~overlap, NEW p \in Procs
  PROVE  /\ Reserved(p) /\ q.msg[slot[p]] \in Message
         /\ q.read_of \in Nat /\ q.write_of \in Nat
         /\ q.read_of <= DATA_SIZE /\ q.write_of <= DATA_SIZE
         /\ \A i \in Slots : q.msg[i].of + q.msg[i].size <= DATA_SIZE
         /\ \A r \in Procs : start[r] + size[r] <= DATA_SIZE
         /\ start[p] \in Nat /\ size[p] \in Nat
BY Effects DEF SerialInv, SerialBounds, WithinData

(* Storing an entry that fits.                                             *)
LEMMA EntryFits ==
  ASSUME SInv, SerialInv, ~overlap, NEW p \in Procs, NEW m, Entry(p, m),
         m.of + m.size <= DATA_SIZE
  PROVE  WithinData(q') /\ q'.msg[slot[p]] = m
<1>1. \A i \in Slots : q'.msg[i].of + q'.msg[i].size <= DATA_SIZE
  BY Effects, SerialFacts DEF Entry
<1>2. q'.read_of <= DATA_SIZE /\ q'.write_of <= DATA_SIZE
  BY SerialFacts DEF Entry
<1>3. q'.msg[slot[p]] = m
  BY Effects DEF Entry
<1>4. QED
  BY <1>1, <1>2, <1>3 DEF WithinData

(* shmsg_write_map_data chooses a place inside the data area.              *)
LEMMA PlaceFits ==
  ASSUME SInv, SerialInv, ~overlap, NEW p \in Procs, size[p] = 0, NEW len \in Nat,
         Holds(Begin(p, len), End(p, len), len)
  PROVE  Begin(p, len) \in Nat /\ Begin(p, len) + len <= DATA_SIZE
<1>1. /\ start[p] \in Nat /\ q.read_of \in Nat /\ DATA_SIZE \in Nat
      /\ start[p] <= DATA_SIZE /\ q.read_of <= DATA_SIZE
  BY SerialFacts, MsgMapAssumption
<1>2. QED
  BY <1>1 DEF Holds, Begin, End, Wraps

(* Every step of shmsg_write keeps what the processes rely on.             *)
LEMMA SerialWrite ==
  ASSUME SInv, SerialInv, NEW p \in Procs,
         \/ WriteScanStep(p) \/ WriteClaim(p) \/ WriteAddress(p) \/ WriteStart(p)
         \/ \E len \in Sizes : WritePlace(p, len)
         \/ WriteUndo(p) \/ WriteMove(p) \/ \E v \in Values : WriteCopy(p, v)
         \/ WriteSize(p) \/ WriteOf(p)
  PROVE  SerialInv'
<1> USE DEF At
<1> DEFINE m == q.msg[slot[p]]
<1>1. /\ pc \in [Procs -> PCs] /\ slot \in [Procs -> Slots]
      /\ start \in [Procs -> Nat] /\ size \in [Procs -> Nat]
      /\ pc[p] \notin Placed => size[p] = 0
      /\ q \in Region
  BY DEF SInv, TypeOK, Local
<1>2. CASE WriteScanStep(p)
  <2>1. pc[p] \in Inside /\ q' = q /\ UNCHANGED <<start, size>>
    BY <1>2 DEF WriteScanStep, Inside
  <2>2. \E label : Access(p, label) /\ pc'[p] = label
    BY <1>1, <1>2 DEF WriteScanStep, Access, Goto
  <2>3. ASSUME ~overlap PROVE Reserved(p)'
    <3>1. CASE QueueFull(q)
      BY <1>1, <1>2, <3>1 DEF WriteScanStep, Access, Goto, Reserved, Filling
    <3>2. CASE ~QueueFull(q)
      <4>1. FreeSlots(q) # {}
        BY <3>2 DEF QueueFull, SerialInv
      <4>2. FreeSlots(q) \subseteq Slots \ Occupied(q) /\ q.write_idx \in Slots
        BY <1>1 DEF FreeSlots, WriteScan, Region
      <4>3. WriteSlot(q) \in Slots \ Occupied(q)
        BY <4>1, <4>2, FirstFromIsFirst DEF WriteSlot
      <4>4. q.msg[WriteSlot(q)].src = Blank
        BY <4>3 DEF Occupied
      <4>5. pc'[p] = "claim" /\ slot'[p] = WriteSlot(q)
        BY <1>1, <1>2, <3>2 DEF WriteScanStep, Access, Goto
      <4>6. QED
        BY <2>1, <4>4, <4>5 DEF Reserved, Filling
    <3>3. QED
      BY <3>1, <3>2
  <2>4. QED
    BY <2>1, <2>2, <2>3, StoreStep DEF SerialInv, SerialBounds
<1>3. CASE WriteClaim(p)
  <2>1. pc[p] \in Inside /\ Access(p, "address") /\ UNCHANGED <<slot, start, size>>
    BY <1>3 DEF WriteClaim, Inside
  <2>2. pc'[p] = "address"
    BY <1>1, <2>1 DEF Access, Goto
  <2>3. ASSUME ~overlap PROVE Reserved(p)' /\ WithinData(q')
    <3>1. BlankMessage.of + BlankMessage.size <= DATA_SIZE
      BY MsgMapAssumption DEF BlankMessage
    <3>2. WithinData(q') /\ q'.msg[slot[p]] = BlankMessage
      BY <1>3, <2>3, <3>1, Effects, EntryFits
    <3>3. QED
      BY <2>1, <2>2, <3>2 DEF Reserved, Filling
  <2>4. q'.overflow = q.overflow
    BY <1>3, Effects
  <2>5. QED
    BY <2>1, <2>3, <2>4, StoreStep, SerialFacts
<1>4. CASE WriteAddress(p)
  <2>1. pc[p] \in Inside /\ Access(p, "start") /\ UNCHANGED <<slot, start, size>>
    BY <1>4 DEF WriteAddress, Inside
  <2>2. pc'[p] = "start"
    BY <1>1, <2>1 DEF Access, Goto
  <2>3. ASSUME ~overlap PROVE Reserved(p)' /\ WithinData(q')
    <3> DEFINE e == [m EXCEPT !.src = p, !.dest = Owner]
    <3>1. m = BlankMessage
      BY <1>4, <2>3, SerialFacts DEF WriteAddress, Reserved
    <3>2. e.src = p /\ e.size = 0 /\ e.of = 0
      BY <3>1 DEF BlankMessage
    <3>3. Entry(p, e) /\ q'.overflow = q.overflow
      BY <1>4, Effects
    <3> HIDE DEF e
    <3>4. WithinData(q') /\ q'.msg[slot[p]] = e
      BY <2>3, <3>2, <3>3, EntryFits, MsgMapAssumption
    <3>5. p # Blank
      BY MsgMapAssumption, MsgSharedAssumption
    <3>6. QED
      BY <2>1, <2>2, <3>2, <3>4, <3>5 DEF Reserved, Filling
  <2>4. q'.overflow = q.overflow
    BY <1>4, Effects
  <2>5. QED
    BY <2>1, <2>3, <2>4, StoreStep, SerialFacts
<1>5. CASE WriteStart(p)
  <2>1. /\ pc[p] \in Inside /\ Access(p, "place") /\ UNCHANGED <<q, slot, size>>
        /\ pc[p] = "start" /\ start' = [start EXCEPT ![p] = q.write_of]
    BY <1>5 DEF WriteStart, Inside, Filling
  <2>2. pc'[p] = "place" /\ size[p] = 0
    BY <1>1, <2>1 DEF Access, Goto, Placed
  <2>3. ASSUME ~overlap
        PROVE  /\ Reserved(p)' /\ WithinData(q')
               /\ \A r \in Procs : start'[r] + size'[r] <= DATA_SIZE
    <3>1. Reserved(p)' /\ WithinData(q')
      BY <2>1, <2>2, <2>3, SerialFacts DEF Reserved, Filling, SerialInv, SerialBounds
    <3>2. ASSUME NEW r \in Procs PROVE start'[r] + size'[r] <= DATA_SIZE
      BY <1>1, <2>1, <2>2, <2>3, SerialFacts
    <3>3. QED
      BY <3>1, <3>2
  <2>4. QED
    BY <2>1, <2>3, StoreStep
<1>6. ASSUME NEW len \in Sizes, WritePlace(p, len) PROVE SerialInv'
  <2>1. pc[p] = "place" /\ pc[p] \in Inside /\ UNCHANGED <<q, slot>> /\ size[p] = 0
    BY <1>1, <1>6 DEF WritePlace, Inside, Filling, Placed
  <2>2. CASE Holds(Begin(p, len), End(p, len), len)
    <3>1. /\ Access(p, "move") /\ start' = [start EXCEPT ![p] = Begin(p, len)]
          /\ size' = [size EXCEPT ![p] = len]
      BY <1>6, <2>2 DEF WritePlace
    <3>2. pc'[p] = "move"
      BY <1>1, <3>1 DEF Access, Goto
    <3>3. ASSUME ~overlap
          PROVE  /\ Reserved(p)' /\ WithinData(q')
                 /\ \A r \in Procs : start'[r] + size'[r] <= DATA_SIZE
      <4>1. Reserved(p)' /\ WithinData(q')
        BY <2>1, <3>2, <3>3, SerialFacts DEF Reserved, Filling, SerialInv, SerialBounds
      <4>2. len \in Nat
        BY MsgMapAssumption
      <4>3. Begin(p, len) + len <= DATA_SIZE
        BY <2>1, <2>2, <3>3, <4>2, PlaceFits
      <4>4. ASSUME NEW r \in Procs PROVE start'[r] + size'[r] <= DATA_SIZE
        BY <1>1, <3>1, <3>3, <4>3, SerialFacts
      <4>5. QED
        BY <4>1, <4>4
    <3>4. QED
      BY <2>1, <3>1, <3>3, StoreStep
  <2>3. CASE ~Holds(Begin(p, len), End(p, len), len)
    <3>1. Access(p, "undo") /\ UNCHANGED <<start, size>>
      BY <1>6, <2>3 DEF WritePlace
    <3>2. pc'[p] = "undo"
      BY <1>1, <3>1 DEF Access, Goto
    <3>3. ASSUME ~overlap PROVE Reserved(p)' /\ WithinData(q')
      BY <2>1, <3>1, <3>2, <3>3, SerialFacts DEF Reserved, Filling, SerialInv, SerialBounds
    <3>4. QED
      BY <2>1, <3>1, <3>3, StoreStep, SerialFacts
  <2>4. QED
    BY <2>2, <2>3
<1>7. CASE WriteUndo(p)
  <2>1. pc[p] \in Inside /\ Access(p, "unlock") /\ UNCHANGED <<slot, start, size>>
    BY <1>7 DEF WriteUndo, Inside, Filling
  <2>2. pc'[p] = "unlock"
    BY <1>1, <2>1 DEF Access, Goto
  <2>3. ASSUME ~overlap PROVE Reserved(p)' /\ WithinData(q')
    <3> DEFINE e == [m EXCEPT !.src = Blank]
    <3>1. m \in Message /\ m.of + m.size <= DATA_SIZE
      BY <2>3, SerialFacts, Effects
    <3>2. e.of + e.size <= DATA_SIZE
      BY <3>1 DEF Message
    <3>3. Entry(p, e)
      BY <1>7, Effects
    <3> HIDE DEF e
    <3>4. WithinData(q')
      BY <2>3, <3>2, <3>3, EntryFits
    <3>5. QED
      BY <2>2, <3>4 DEF Reserved, Filling
  <2>4. q'.overflow = q.overflow
    BY <1>7, Effects
  <2>5. QED
    BY <2>1, <2>3, <2>4, StoreStep, SerialFacts
<1>8. CASE WriteMove(p)
  <2>1. /\ pc[p] = "move" /\ pc[p] \in Inside /\ Access(p, "copy")
        /\ UNCHANGED <<slot, start, size>>
    BY <1>8 DEF WriteMove, Inside, Filling
  <2>2. /\ pc'[p] = "copy" /\ q'.msg = q.msg /\ q'.overflow = q.overflow
        /\ q'.read_of = q.read_of /\ q'.write_of = start[p] + size[p]
    BY <1>1, <1>8, <2>1, Stores DEF Access, Goto
  <2>3. ASSUME ~overlap PROVE Reserved(p)' /\ WithinData(q')
    BY <2>1, <2>2, <2>3, SerialFacts DEF Reserved, Filling, WithinData
  <2>4. QED
    BY <2>1, <2>2, <2>3, StoreStep, SerialFacts
<1>9. ASSUME NEW v \in Values, WriteCopy(p, v) PROVE SerialInv'
  <2>1. /\ pc[p] = "copy" /\ pc[p] \in Inside /\ Access(p, "size")
        /\ UNCHANGED <<slot, start, size>>
    BY <1>9 DEF WriteCopy, Inside, Filling
  <2>2. /\ pc'[p] = "size" /\ q'.msg = q.msg /\ q'.overflow = q.overflow
        /\ q'.read_of = q.read_of /\ q'.write_of = q.write_of
    BY <1>1, <1>9, <2>1, Stores DEF Access, Goto
  <2>3. ASSUME ~overlap PROVE Reserved(p)' /\ WithinData(q')
    BY <2>1, <2>2, <2>3, SerialFacts DEF Reserved, Filling, WithinData
  <2>4. QED
    BY <2>1, <2>2, <2>3, StoreStep, SerialFacts
<1>10. CASE WriteSize(p)
  <2>1. /\ pc[p] = "size" /\ pc[p] \in Inside /\ Access(p, "of")
        /\ UNCHANGED <<slot, start, size>>
    BY <1>10 DEF WriteSize, Inside, Filling
  <2>2. pc'[p] = "of"
    BY <1>1, <2>1 DEF Access, Goto
  <2>3. ASSUME ~overlap PROVE Reserved(p)' /\ WithinData(q')
    <3> DEFINE e == [m EXCEPT !.size = size[p]]
    <3>1. m \in Message /\ m.src # Blank /\ m.of = 0
      BY <2>1, <2>3, SerialFacts DEF Reserved, Filling
    <3>2. e.src # Blank /\ e.size = size[p] /\ e.of = 0
      BY <3>1 DEF Message
    <3>3. size[p] <= DATA_SIZE
      BY <2>3, SerialFacts, MsgMapAssumption
    <3>4. Entry(p, e)
      BY <1>10, Effects
    <3> HIDE DEF e
    <3>5. WithinData(q') /\ q'.msg[slot[p]] = e
      BY <1>1, <2>3, <3>2, <3>3, <3>4, EntryFits, MsgMapAssumption
    <3>6. QED
      BY <2>1, <2>2, <3>2, <3>5 DEF Reserved, Filling
  <2>4. q'.overflow = q.overflow
    BY <1>10, Effects
  <2>5. QED
    BY <2>1, <2>3, <2>4, StoreStep, SerialFacts
<1>11. CASE WriteOf(p)
  <2>1. /\ pc[p] = "of" /\ pc[p] \in Inside /\ Access(p, "unlock")
        /\ UNCHANGED <<slot, start, size>>
    BY <1>11 DEF WriteOf, Inside
  <2>2. pc'[p] = "unlock"
    BY <1>1, <2>1 DEF Access, Goto
  <2>3. ASSUME ~overlap PROVE Reserved(p)' /\ WithinData(q')
    <3> DEFINE e == [m EXCEPT !.of = start[p]]
    <3>1. m \in Message /\ m.size = size[p]
      BY <2>1, <2>3, SerialFacts DEF Reserved
    <3>2. e.of + e.size <= DATA_SIZE
      BY <2>3, <3>1, SerialFacts DEF Message
    <3>3. Entry(p, e)
      BY <1>11, Effects
    <3> HIDE DEF e
    <3>4. WithinData(q')
      BY <2>3, <3>2, <3>3, EntryFits
    <3>5. QED
      BY <2>2, <3>4 DEF Reserved, Filling
  <2>4. q'.overflow = q.overflow
    BY <1>11, Effects
  <2>5. QED
    BY <2>1, <2>3, <2>4, StoreStep, SerialFacts
<1>12. QED
  BY <1>2, <1>3, <1>4, <1>5, <1>6, <1>7, <1>8, <1>9, <1>10, <1>11

(* Every step of shmsg_read keeps what the processes rely on.              *)
LEMMA SerialRead ==
  ASSUME SInv, SerialInv, NEW p \in Procs,
         ReadScanStep(p) \/ ReadAdvance(p) \/ ReadTest(p) \/ ReadFree(p)
         \/ ReadRelease(p)
  PROVE  SerialInv'
<1> USE DEF At
<1> DEFINE m == q.msg[slot[p]]
<1>1. pc \in [Procs -> PCs] /\ slot \in [Procs -> Slots] /\ q \in Region
  BY DEF SInv, TypeOK
<1>2. pc[p] \in Inside /\ UNCHANGED <<start, size>>
  BY DEF ReadScanStep, ReadAdvance, ReadTest, ReadFree, ReadRelease, Inside
<1>3. CASE ReadScanStep(p)
  <2>1. PICK label \in {"unlock", "advance"} : Access(p, label)
    BY <1>3 DEF ReadScanStep
  <2>2. pc'[p] = label /\ q' = q
    BY <1>1, <1>3, <2>1 DEF Access, Goto, ReadScanStep
  <2>3. Reserved(p)'
    BY <2>2 DEF Reserved, Filling
  <2>4. QED
    BY <1>2, <2>1, <2>2, <2>3, StoreStep DEF SerialInv, SerialBounds
<1>4. CASE ReadAdvance(p)
  <2>1. Access(p, "test")
    BY <1>4 DEF ReadAdvance
  <2>2. /\ pc'[p] = "test" /\ q'.msg = q.msg /\ q'.overflow = q.overflow
        /\ q'.read_of = q.read_of /\ q'.write_of = q.write_of
    BY <1>1, <1>4, <2>1, Stores DEF Access, Goto
  <2>3. Reserved(p)'
    BY <2>2 DEF Reserved, Filling
  <2>4. ASSUME ~overlap PROVE WithinData(q')
    BY <2>2, <2>4, SerialFacts DEF WithinData
  <2>5. QED
    BY <1>2, <2>1, <2>2, <2>3, <2>4, StoreStep, SerialFacts
<1>5. CASE ReadTest(p)
  <2>1. PICK label \in {"free", "release"} :
          Access(p, label) /\ (label = "free" => m.of = q.read_of)
    BY <1>5 DEF ReadTest
  <2>2. pc'[p] = label /\ q' = q /\ slot' = slot
    BY <1>1, <1>5, <2>1 DEF Access, Goto, ReadTest
  <2>3. Reserved(p)'
    BY <2>1, <2>2 DEF Reserved, Filling
  <2>4. QED
    BY <1>2, <2>1, <2>2, <2>3, StoreStep DEF SerialInv, SerialBounds
<1>6. CASE ReadFree(p)
  <2>1. Access(p, "release") /\ pc[p] = "free"
    BY <1>6 DEF ReadFree
  <2>2. /\ pc'[p] = "release" /\ q'.msg = q.msg /\ q'.overflow = q.overflow
        /\ q'.read_of = q.read_of + m.size /\ q'.write_of = q.write_of
    BY <1>1, <1>6, <2>1, Stores DEF Access, Goto
  <2>3. Reserved(p)'
    BY <2>2 DEF Reserved, Filling
  <2>4. ASSUME ~overlap PROVE WithinData(q')
    <3>1. m.of = q.read_of /\ m.of + m.size <= DATA_SIZE
      BY <1>1, <2>1, <2>4, SerialFacts DEF Reserved
    <3> HIDE DEF m
    <3>2. QED
      BY <2>2, <2>4, <3>1, SerialFacts DEF WithinData
  <2>5. QED
    BY <1>2, <2>1, <2>2, <2>3, <2>4, StoreStep, SerialFacts
<1>7. CASE ReadRelease(p)
  <2>1. Access(p, "unlock")
    BY <1>7 DEF ReadRelease
  <2>2. pc'[p] = "unlock" /\ q'.overflow = q.overflow
    BY <1>1, <1>7, <2>1, Effects DEF Access, Goto
  <2>3. Reserved(p)'
    BY <2>2 DEF Reserved, Filling
  <2>4. ASSUME ~overlap PROVE WithinData(q')
    <3> DEFINE e == [m EXCEPT !.src = Blank]
    <3>1. m \in Message /\ m.of + m.size <= DATA_SIZE
      BY <2>4, SerialFacts, Effects
    <3>2. e.of + e.size <= DATA_SIZE
      BY <3>1 DEF Message
    <3>3. Entry(p, e)
      BY <1>7, Effects
    <3> HIDE DEF e
    <3>4. QED
      BY <2>4, <3>2, <3>3, EntryFits
  <2>5. QED
    BY <1>2, <2>1, <2>2, <2>3, <2>4, StoreStep, SerialFacts
<1>8. QED
  BY <1>3, <1>4, <1>5, <1>6, <1>7

(* Taking and giving up the lock, calls, crashes and restarts.             *)
LEMMA SerialPlain ==
  ASSUME SInv, SerialInv, NEW p \in Procs,
         \/ \E call \in {"write", "read"} : Call(p, call)
         \/ ShmsgLockCheck(p) \/ ShmsgLockSet(p) \/ ShmsgUnlock(p)
         \/ Crash(p) \/ Restart(p)
  PROVE  SerialInv'
<1> USE DEF At
<1>1. /\ slot \in [Procs -> Slots] /\ start \in [Procs -> Nat]
      /\ size \in [Procs -> Nat] /\ DATA_SIZE \in Nat
  BY MsgMapAssumption DEF SInv, TypeOK
<1>2. ~overlap => start[p] + size[p] <= DATA_SIZE
  BY SerialFacts
<1>3. {"check", "idle", "set", "unlock", "scan", "dead"} \subseteq Quiet
  BY DEF Quiet, PCs, Inside, Filling
<1>4. ASSUME NEW label, Leave(p, label)
      PROVE  /\ pc' = [pc EXCEPT ![p] = label]
             /\ start'[p] + size'[p] <= DATA_SIZE
             /\ \A r \in Procs \ {p} :
                  slot'[r] = slot[r] /\ start'[r] = start[r] /\ size'[r] = size[r]
  BY <1>1, <1>4 DEF Leave, Goto
<1>5. {"check", "idle", "set", "dead"} \intersect Inside = {}
  BY DEF Inside, Filling
<1>6. ASSUME NEW call \in {"write", "read"}, Call(p, call) PROVE SerialInv'
  BY <1>2, <1>3, <1>5, <1>6, QuietStep DEF Call, Goto
<1>7. CASE Restart(p)
  BY <1>2, <1>3, <1>5, <1>7, QuietStep DEF Restart, Goto
<1>8. CASE ShmsgLockSet(p)
  <2>1. PICK label \in {"unlock", "scan"} : pc' = [pc EXCEPT ![p] = label]
    BY <1>8 DEF ShmsgLockSet, Goto
  <2>2. /\ UNCHANGED <<q, slot, start, size>>
        /\ overlap => overlap'
        /\ \A r \in Procs \ {p} : pc[r] \notin Inside \/ overlap'
    BY <1>8 DEF ShmsgLockSet
  <2>3. QED
    BY <1>2, <1>3, <2>1, <2>2, QuietStep
<1>9. CASE ShmsgLockCheck(p)
  <2>1. UNCHANGED <<q, overlap>>
    BY <1>9 DEF ShmsgLockCheck
  <2>2. CASE lock > 0
    BY <1>3, <1>4, <1>5, <1>9, <2>1, <2>2, QuietStep DEF ShmsgLockCheck
  <2>3. CASE ~(lock > 0)
    <3>1. pc' = [pc EXCEPT ![p] = "set"] /\ UNCHANGED <<slot, start, size>>
      BY <1>9, <2>3 DEF ShmsgLockCheck, Goto
    <3>2. QED
      BY <1>2, <1>3, <1>5, <2>1, <3>1, QuietStep
  <2>4. QED
    BY <2>2, <2>3
<1>10. CASE ShmsgUnlock(p) \/ Crash(p)
  <2>1. UNCHANGED <<q, overlap>> /\ \E label \in {"idle", "dead"} : Leave(p, label)
    BY <1>10 DEF ShmsgUnlock, Crash
  <2>2. QED
    BY <1>3, <1>4, <1>5, <2>1, QuietStep
<1>11. QED
  BY <1>6, <1>7, <1>8, <1>9, <1>10

LEMMA SerialNext == SInv /\ SerialInv /\ [Next]_vars => SerialInv'
<1> SUFFICES ASSUME SInv, SerialInv, [Next]_vars PROVE SerialInv'
  OBVIOUS
<1>1. CASE Tick \/ UNCHANGED vars
  <2>1. UNCHANGED <<q, pc, slot, start, size, overlap>>
    BY <1>1 DEF Tick, vars
  <2>2. QED
    BY <2>1 DEF SerialInv, SerialBounds, WithinData, Alone, Reserved
<1>2. CASE \E p \in Procs : Step(p)
  BY <1>2, SerialWrite, SerialRead, SerialPlain DEF Step
<1>3. CASE \E p \in Procs, call \in {"write", "read"} : Call(p, call)
  BY <1>3, SerialPlain
<1>4. CASE \E p \in Procs : Crash(p) \/ Restart(p)
  BY <1>4, SerialPlain
<1>5. QED
  BY <1>1, <1>2, <1>3, <1>4 DEF Next

(* For messages of any sizes: while no two processes were inside the lock  *)
(* at once, shmsg_write_map_data and shmsg_read copy within the data area, *)
(* although write_of, read_of, sizes and offsets are stored one at a time  *)
(* and a crash may leave any of them undone.                               *)
THEOREM SharedBounds == Spec => []SerialBounds
<1>1. SerialInv => SerialBounds
  BY DEF SerialInv
<1>2. QED
  BY <1>1, SInvInit, SInvNext, SerialInit, SerialNext, PTL DEF Spec

-----------------------------------------------------------------------------
(* Stored entries.                                                         *)

LEMMA StoredNext == SInv /\ SerialInv /\ [Next]_vars => overlap \/ KeepsStored
<1> USE DEF At
<1> SUFFICES ASSUME SInv, SerialInv, [Next]_vars, ~overlap, NEW i \in Complete
             PROVE  \/ q'.msg[i] = q.msg[i]
                    \/ \E p \in Procs : pc[p] \in {"of", "release"} /\ slot[p] = i
  BY DEF KeepsStored
<1>1. i \in Slots /\ q.msg[i].src # Blank /\ q.msg[i].size # 0
  BY DEF Complete, Occupied
<1>2. ASSUME NEW p \in Procs, slot[p] # i, NEW m, Entry(p, m)
      PROVE  q'.msg[i] = q.msg[i]
  BY <1>1, <1>2, Effects DEF Entry
<1>3. ASSUME NEW p \in Procs,
             pc[p] \in {"claim", "address"} \/ pc[p] \in Filling
      PROVE  slot[p] # i
  BY <1>1, <1>3 DEF SerialInv, Reserved, BlankMessage
<1>4. ASSUME NEW p \in Procs, WriteClaim(p) PROVE q'.msg[i] = q.msg[i]
  BY <1>2, <1>3, <1>4, Effects DEF WriteClaim
<1>5. ASSUME NEW p \in Procs, WriteAddress(p) PROVE q'.msg[i] = q.msg[i]
  BY <1>2, <1>3, <1>5, Effects DEF WriteAddress
<1>6. ASSUME NEW p \in Procs, WriteUndo(p) PROVE q'.msg[i] = q.msg[i]
  BY <1>2, <1>3, <1>6, Effects DEF WriteUndo, Filling
<1>7. ASSUME NEW p \in Procs, WriteSize(p) PROVE q'.msg[i] = q.msg[i]
  BY <1>2, <1>3, <1>7, Effects DEF WriteSize, Filling
<1>8. ASSUME NEW p \in Procs, WriteOf(p) \/ ReadRelease(p)
      PROVE  q'.msg[i] = q.msg[i] \/ (pc[p] \in {"of", "release"} /\ slot[p] = i)
  BY <1>2, <1>8, Effects DEF WriteOf, ReadRelease
<1>9. ASSUME NEW p \in Procs,
             \/ WriteMove(p) \/ ReadAdvance(p) \/ ReadFree(p)
             \/ \E v \in Values : WriteCopy(p, v)
      PROVE  q'.msg[i] = q.msg[i]
  BY <1>9, Stores
<1>10. ASSUME NEW p \in Procs,
              \/ \E call \in {"write", "read"} : Call(p, call)
              \/ Crash(p) \/ Restart(p) \/ ShmsgLockCheck(p) \/ ShmsgLockSet(p)
              \/ ShmsgUnlock(p) \/ WriteScanStep(p) \/ ReadScanStep(p)
              \/ WriteStart(p) \/ ReadTest(p)
              \/ \E len \in Sizes : WritePlace(p, len)
       PROVE  UNCHANGED q
  BY <1>10 DEF Call, Crash, Restart, ShmsgLockCheck, ShmsgLockSet, ShmsgUnlock,
               WriteScanStep, ReadScanStep, WriteStart, ReadTest, WritePlace
<1>11. CASE Tick \/ UNCHANGED vars
  BY <1>11 DEF Tick, vars
<1>12. QED
  BY <1>4, <1>5, <1>6, <1>7, <1>8, <1>9, <1>10, <1>11 DEF Next, Step

(* Unless two processes were between shmsg_lock and shmsg_unlock at once,  *)
(* the table entry of a message shmsg_write has stored stays as it is      *)
(* until shmsg_read releases it, wherever the processes stall, crash and   *)
(* restart.                                                                *)
THEOREM SharedEntriesKept == Spec => SerialEntriesKept
<1>1. SInv /\ SerialInv /\ [Next]_vars => [overlap \/ KeepsStored]_vars
  BY StoredNext
<1>2. QED
  BY <1>1, SInvInit, SInvNext, SerialInit, SerialNext, PTL
  DEF Spec, SerialEntriesKept

-----------------------------------------------------------------------------
(* Entries lost to crashes.                                                *)

(* Lost entries are finitely many.                                         *)
LEMMA LeakedFinite == IsFiniteSet(Leaked) /\ Cardinality(Leaked) \in Nat
<1>1. IsFiniteSet(Slots)
  BY FS_Interval, MsgMapAssumption DEF Slots
<1>2. Leaked \subseteq Slots
  BY DEF Leaked, Complete, Occupied
<1>3. QED
  BY <1>1, <1>2, FS_Subset, FS_CardinalityType

(* An entry is lost exactly when it is addressed, has no content, and      *)
(* nobody is about to store one.                                           *)
LEMMA LeakedDef ==
  \A i : i \in Leaked <=>
    /\ i \in Slots /\ q.msg[i].src # Blank /\ q.msg[i].size = 0
    /\ \A p \in Procs : ~(pc[p] \in Filling /\ slot[p] = i)
BY DEF Leaked, Complete, Occupied, At

(* No step but a crash loses an entry; a message without content is never  *)
(* accepted by shmsg_read_valid, hence the hypothesis.                     *)
LEMMA NoLeak ==
  ASSUME SInv, SerialInv, ~overlap, 0 \notin Sizes, [Next]_vars,
         \A p \in Procs : ~Crash(p)
  PROVE  Leaked' \subseteq Leaked
<1> USE DEF At
<1> SUFFICES ASSUME NEW i \in Leaked' PROVE i \in Leaked
  OBVIOUS
<1>1. /\ i \in Slots /\ q'.msg[i].src # Blank /\ q'.msg[i].size = 0
      /\ \A p \in Procs : ~(pc'[p] \in Filling /\ slot'[p] = i)
  BY DEF Leaked, Complete, Occupied
<1>2. ASSUME NEW p \in Procs, pc[p] \notin Filling, q'.msg[i] = q.msg[i],
             \A r \in Procs \ {p} : pc'[r] = pc[r] /\ slot'[r] = slot[r]
      PROVE  i \in Leaked
  BY <1>1, <1>2, LeakedDef
<1>3. ASSUME NEW p \in Procs, NEW label, pc' = [pc EXCEPT ![p] = label]
      PROVE  pc'[p] = label /\ \A r \in Procs \ {p} : pc'[r] = pc[r]
  BY <1>3 DEF SInv, TypeOK
<1>4. ASSUME NEW p \in Procs, NEW m, Entry(p, m)
      PROVE  /\ i = slot[p] => q'.msg[i] = m
             /\ i # slot[p] => q'.msg[i] = q.msg[i]
  BY <1>1, <1>4, Effects DEF Entry
<1>5. ASSUME NEW p \in Procs, i # slot[p], pc[p] \in Filling, q'.msg[i] = q.msg[i]
      PROVE  i \in Leaked
  <2>1. \A r \in Procs \ {p} : pc[r] \notin Filling
    BY <1>5 DEF SerialInv, Alone, Inside
  <2>2. QED
    BY <1>1, <1>5, <2>1, LeakedDef
<1>6. ASSUME NEW p \in Procs, NEW call \in {"write", "read"}, Call(p, call)
      PROVE  i \in Leaked
  BY <1>2, <1>3, <1>6 DEF Call, Goto, Filling
<1>7. ASSUME NEW p \in Procs, ShmsgLockCheck(p) \/ ShmsgUnlock(p)
      PROVE  i \in Leaked
  <2>1. UNCHANGED q /\ pc[p] \notin Filling
    BY <1>7 DEF ShmsgLockCheck, ShmsgUnlock, Filling
  <2>2. \A r \in Procs \ {p} : pc'[r] = pc[r] /\ slot'[r] = slot[r]
    BY <1>7 DEF ShmsgLockCheck, ShmsgUnlock, Leave, Goto, SInv, TypeOK
  <2>3. QED
    BY <1>2, <2>1, <2>2
<1>8. ASSUME NEW p \in Procs, ShmsgLockSet(p) \/ Restart(p) PROVE i \in Leaked
  BY <1>2, <1>3, <1>8 DEF ShmsgLockSet, Restart, Goto, Filling
<1>9. ASSUME NEW p \in Procs, WriteScanStep(p) \/ ReadScanStep(p)
      PROVE  i \in Leaked
  <2>1. UNCHANGED q /\ pc[p] \notin Filling
    BY <1>9 DEF WriteScanStep, ReadScanStep, Filling
  <2>2. \A r \in Procs \ {p} : pc'[r] = pc[r] /\ slot'[r] = slot[r]
    BY <1>9 DEF WriteScanStep, ReadScanStep, Access, Goto, SInv, TypeOK
  <2>3. QED
    BY <1>2, <2>1, <2>2
<1>10. ASSUME NEW p \in Procs, ReadAdvance(p) \/ ReadTest(p) \/ ReadFree(p)
       PROVE  i \in Leaked
  <2>1. q'.msg = q.msg /\ slot' = slot /\ pc[p] \notin Filling
    BY <1>10, Stores DEF ReadAdvance, ReadTest, ReadFree, Filling
  <2>2. \A r \in Procs \ {p} : pc'[r] = pc[r]
    BY <1>10 DEF ReadAdvance, ReadTest, ReadFree, Access, Goto, SInv, TypeOK
  <2>3. QED
    BY <1>2, <2>1, <2>2
<1>11. ASSUME NEW p \in Procs, WriteClaim(p) PROVE i \in Leaked
  <2>1. Entry(p, BlankMessage) /\ BlankMessage.src = Blank
    BY <1>11, Effects DEF BlankMessage
  <2>2. q'.msg[i] = q.msg[i]
    BY <1>1, <1>4, <2>1
  <2>3. QED
    BY <1>2, <1>3, <1>11, <2>2 DEF WriteClaim, Access, Goto, Filling
<1>12. ASSUME NEW p \in Procs, WriteAddress(p) PROVE i \in Leaked
  <2>1. pc'[p] \in Filling /\ slot' = slot
    BY <1>3, <1>12 DEF WriteAddress, Access, Goto, Filling
  <2>2. q'.msg[i] = q.msg[i]
    BY <1>1, <1>4, <1>12, <2>1, Effects
  <2>3. QED
    BY <1>2, <1>3, <1>12, <2>1, <2>2 DEF WriteAddress, Access, Goto, Filling
<1>13. ASSUME NEW p \in Procs,
              \/ WriteStart(p) \/ WriteMove(p)
              \/ \E len \in Sizes : WritePlace(p, len)
              \/ \E v \in Values : WriteCopy(p, v)
       PROVE  i \in Leaked
  <2>1. q'.msg = q.msg /\ slot' = slot /\ pc[p] \in Filling
    BY <1>13, Stores DEF WriteStart, WriteMove, WritePlace, WriteCopy, Filling
  <2>2. PICK label \in Filling : pc' = [pc EXCEPT ![p] = label]
    <3>1. \E label \in {"place", "move", "undo", "copy", "size"} : Access(p, label)
      BY <1>13 DEF WriteStart, WriteMove, WritePlace, WriteCopy
    <3>2. QED
      BY <3>1 DEF Access, Goto, Filling
  <2>3. pc'[p] \in Filling
    BY <1>3, <2>2
  <2>4. QED
    BY <1>1, <1>5, <2>1, <2>3
<1>14. ASSUME NEW p \in Procs, WriteUndo(p) \/ ReadRelease(p) PROVE i \in Leaked
  <2>1. [q.msg[slot[p]] EXCEPT !.src = Blank].src = Blank
    BY Effects DEF Message
  <2>2. i # slot[p] /\ q'.msg[i] = q.msg[i]
    BY <1>1, <1>4, <1>14, <2>1, Effects
  <2>3. \A r \in Procs \ {p} : pc'[r] = pc[r] /\ slot'[r] = slot[r]
    BY <1>14 DEF WriteUndo, ReadRelease, Access, Goto, SInv, TypeOK
  <2>4. QED
    BY <1>2, <1>5, <2>2, <2>3
<1>15. ASSUME NEW p \in Procs, WriteSize(p) PROVE i \in Leaked
  <2>1. size[p] # 0 /\ pc[p] \in Filling
    BY <1>15 DEF WriteSize, SInv, Local, Filling
  <2>2. [q.msg[slot[p]] EXCEPT !.size = size[p]].size = size[p]
    BY Effects DEF Message
  <2>3. i # slot[p] /\ q'.msg[i] = q.msg[i]
    BY <1>1, <1>4, <1>15, <2>1, <2>2, Effects
  <2>4. QED
    BY <1>5, <2>1, <2>3
<1>16. ASSUME NEW p \in Procs, WriteOf(p) PROVE i \in Leaked
  <2>1. /\ q.msg[slot[p]].src # Blank /\ q.msg[slot[p]].size = size[p]
        /\ q.msg[slot[p]] \in Message /\ pc[p] \notin Filling
    BY <1>16, SerialFacts DEF WriteOf, Reserved, Filling
  <2>2. ASSUME i = slot[p] PROVE i \in Leaked
    <3>1. q.msg[i].size = 0
      <4> DEFINE e == [q.msg[slot[p]] EXCEPT !.of = start[p]]
      <4>1. Entry(p, e) /\ e.size = q.msg[slot[p]].size
        BY <1>16, <2>1, Effects DEF Message
      <4> HIDE DEF e
      <4>2. QED
        BY <1>1, <1>4, <2>2, <4>1
    <3>2. \A r \in Procs : pc[r] \notin Filling
      BY <1>16, <2>1 DEF WriteOf, SerialInv, Alone, Inside
    <3>3. QED
      BY <1>1, <2>1, <2>2, <3>1, <3>2, LeakedDef
  <2>3. ASSUME i # slot[p] PROVE i \in Leaked
    <3>1. q'.msg[i] = q.msg[i]
      BY <1>4, <1>16, <2>3, Effects
    <3>2. QED
      BY <1>2, <1>3, <1>16, <2>1, <3>1 DEF WriteOf, Access, Goto
  <2>4. QED
    BY <2>2, <2>3
<1>17. CASE Tick \/ UNCHANGED vars
  <2>1. UNCHANGED <<q, pc, slot>>
    BY <1>17 DEF Tick, vars
  <2>2. QED
    BY <1>1, <2>1, LeakedDef
<1>18. QED
  BY <1>6, <1>7, <1>8, <1>9, <1>10, <1>11, <1>12, <1>13, <1>14, <1>15, <1>16, <1>17
  DEF Next, Step

(* A crash loses at most the entry the process was filling in.             *)
LEMMA CrashLeaksOne ==
  ASSUME SInv, NEW p \in Procs, Crash(p)
  PROVE  Leaked' \subseteq Leaked \union {slot[p]}
<1>1. \A r \in Procs \ {p} : pc'[r] = pc[r] /\ slot'[r] = slot[r]
  BY DEF Crash, Leave, Goto, SInv, TypeOK
<1>2. q' = q
  BY DEF Crash
<1>3. QED
  BY <1>1, <1>2 DEF Leaked, Complete, Occupied, At

(* The bound on lost entries is kept by every step.                        *)
LEMMA LeakNext ==
  ASSUME 0 \notin Sizes
  PROVE  SInv /\ SerialInv /\ LeakBound /\ [Next]_vars => LeakBound'
<1> SUFFICES ASSUME SInv, SerialInv, LeakBound, [Next]_vars, ~overlap'
             PROVE  Cardinality(Leaked') <= crashes'
  BY DEF LeakBound
<1>1. /\ IsFiniteSet(Leaked) /\ Cardinality(Leaked) \in Nat
      /\ IsFiniteSet(Leaked') /\ Cardinality(Leaked') \in Nat
  <2>1. IsFiniteSet(Slots) /\ Leaked' \subseteq Slots
    BY FS_Interval, MsgMapAssumption DEF Slots, Leaked, Complete, Occupied
  <2>2. QED
    BY <2>1, LeakedFinite, FS_Subset, FS_CardinalityType
<1>2. crashes \in Nat
  BY MsgSharedAssumption DEF SInv, TypeOK
<1>3. ~overlap
  BY DEF Next, Step, vars, Call, Crash, Restart, Tick, ShmsgLockCheck, ShmsgLockSet,
         Access, WriteScanStep, WriteClaim, WriteAddress, WriteStart, WritePlace,
         WriteUndo, WriteMove, WriteCopy, WriteSize, WriteOf, ReadScanStep,
         ReadAdvance, ReadTest, ReadFree, ReadRelease, ShmsgUnlock
<1>4. Cardinality(Leaked) <= crashes
  BY <1>3 DEF LeakBound
<1>5. ASSUME NEW p \in Procs, Crash(p) PROVE Cardinality(Leaked') <= crashes'
  <2> DEFINE L == Leaked \union {slot[p]}
  <2>1. /\ IsFiniteSet(L) /\ Cardinality(L) \in Nat
        /\ Cardinality(L) <= Cardinality(Leaked) + 1
    <3>1. /\ IsFiniteSet(L)
          /\ Cardinality(L) = IF slot[p] \in Leaked THEN Cardinality(Leaked)
                                                   ELSE Cardinality(Leaked) + 1
      BY <1>1, FS_AddElement
    <3> HIDE DEF L
    <3>2. QED
      BY <1>1, <3>1
  <2>2. Cardinality(Leaked') <= Cardinality(L)
    BY <1>5, <2>1, CrashLeaksOne, FS_Subset
  <2>3. crashes' = crashes + 1
    BY <1>5 DEF Crash
  <2>4. QED
    BY <1>1, <1>2, <1>4, <2>1, <2>2, <2>3
<1>6. CASE \A p \in Procs : ~Crash(p)
  <2>1. Cardinality(Leaked') <= Cardinality(Leaked)
    BY <1>1, <1>3, <1>6, NoLeak, FS_Subset
  <2>2. crashes' = crashes
    BY <1>6 DEF Next, Step, vars, Call, Restart, Tick, ShmsgLockCheck, ShmsgLockSet,
                Access, WriteScanStep, WriteClaim, WriteAddress, WriteStart,
                WritePlace, WriteUndo, WriteMove, WriteCopy, WriteSize, WriteOf,
                ReadScanStep, ReadAdvance, ReadTest, ReadFree, ReadRelease,
                ShmsgUnlock
  <2>3. QED
    BY <1>1, <1>2, <1>4, <2>1, <2>2
<1>7. QED
  BY <1>5, <1>6

(* If no message is empty and processes do not overlap, an entry of the    *)
(* table is lost only to a crash, and each crash loses at most one.        *)
THEOREM SharedLeakBound ==
  ASSUME 0 \notin Sizes
  PROVE  Spec => []LeakBound
<1>1. Init => LeakBound
  <2> SUFFICES ASSUME Init PROVE Cardinality(Leaked) <= crashes
    BY DEF LeakBound
  <2>1. Leaked = {}
    BY DEF Init, Leaked, Complete, Occupied, ShmsgQueueInit, BlankMessage
  <2>2. QED
    BY <2>1, FS_EmptySet DEF Init
<1>2. SInv /\ SerialInv /\ LeakBound /\ [Next]_vars => LeakBound'
  BY LeakNext
<1>3. QED
  BY <1>1, <1>2, SInvInit, SInvNext, SerialInit, SerialNext, PTL DEF Spec
=============================================================================
