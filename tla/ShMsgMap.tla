------------------------------ MODULE ShMsgMap ------------------------------
(***************************************************************************)
(* The memory-mapped region of one libshare IPC message queue (shmsgq_t)   *)
(* and the functions of shsys_msg.c that work on it with the queue's lock  *)
(* held.  Every function is an operator from a region to a region, so that *)
(* ShMsgQueue (whole calls) and ShMsgShared (interleaved steps of several  *)
(* processes) use the same definitions.                                    *)
(*                                                                         *)
(* Data abstraction: a message's content is one value repeated over its    *)
(* bytes, so that data[o] says which message last wrote byte o.            *)
(***************************************************************************)
EXTENDS Integers, FiniteSets

CONSTANTS
  MAX_MESSAGES_PER_QUEUE,   \* entries of the message table
  DATA_SIZE,                \* MESSAGE_QUEUE_SIZE - sizeof(shmsgq_t)
  Peers,                    \* public keys of the peers that use the queue
  Values,                   \* message contents
  Sizes,                    \* message sizes the callers use
  Blank                     \* ashkey_blank(), and the content of a new file

ASSUME MsgMapAssumption ==
  /\ MAX_MESSAGES_PER_QUEUE \in Nat \ {0}
  /\ DATA_SIZE \in Nat
  /\ Sizes \subseteq Nat
  /\ Blank \notin Peers
  /\ Blank \notin Values

Slots == 0 .. MAX_MESSAGES_PER_QUEUE - 1
Offsets == 0 .. DATA_SIZE
Bytes == 0 .. DATA_SIZE - 1

(* shmsg_t.  val is a history field: the content the sender handed over.   *)
Message == [src  : Peers \union {Blank},
            dest : Peers \union {Blank},
            size : Nat,
            of   : Nat,
            val  : Values \union {Blank}]

BlankMessage == [src |-> Blank, dest |-> Blank, size |-> 0, of |-> 0,
                 val |-> Blank]

(* shmsgq_t without its lock_t.                                            *)
Region == [overflow  : BOOLEAN,
           read_idx  : Slots,
           write_idx : Slots,
           read_of   : Nat,
           write_of  : Nat,
           msg       : [Slots -> Message],
           data      : [Bytes -> Values \union {Blank}]]

(* The offsets and the extent of every entry lie inside the data area.     *)
WithinData(q) ==
  /\ q.read_of <= DATA_SIZE
  /\ q.write_of <= DATA_SIZE
  /\ \A i \in Slots : q.msg[i].of + q.msg[i].size <= DATA_SIZE

(* shmsg_queue_init: a new queue file is MESSAGE_QUEUE_SIZE zero bytes.    *)
ShmsgQueueInit ==
  [overflow  |-> FALSE,
   read_idx  |-> 0,
   write_idx |-> 0,
   read_of   |-> 0,
   write_of  |-> 0,
   msg       |-> [i \in Slots |-> BlankMessage],
   data      |-> [o \in Bytes |-> Blank]]

(***************************************************************************)
(* Walking the message table.                                              *)
(***************************************************************************)

(* Mutant of Succ: no wrap at the end of the table.                        *)
SuccNoWrap(i) == i + 1

Succ(i) == IF i = MAX_MESSAGES_PER_QUEUE - 1 THEN 0 ELSE i + 1

(* How many entries a scan that starts at "from" visits before i.          *)
Distance(from, i) ==
  IF i >= from THEN i - from ELSE i + MAX_MESSAGES_PER_QUEUE - from

(* The entry of S that a scan upwards from "from" meets first.             *)
FirstFrom(from, S) ==
  CHOOSE i \in S : \A j \in S : Distance(from, i) <= Distance(from, j)

Occupied(q) == {i \in Slots : q.msg[i].src # Blank}

(***************************************************************************)
(* Writing.                                                                *)
(***************************************************************************)

(* The entries shmsg_write_map visits, all in the order of Distance from   *)
(* write_idx: the "else" loop includes read_idx itself.                    *)
WriteScan(q) ==
  IF q.read_idx <= q.write_idx
    THEN {i \in Slots : i >= q.write_idx \/ i < q.read_idx}
    ELSE {i \in Slots : i >= q.write_idx /\ i <= q.read_idx}

(* Mutant of FreeSlots: without the test for a blank source.               *)
FreeSlotsAny(q) == WriteScan(q)

FreeSlots(q) == WriteScan(q) \ Occupied(q)

(* shmsg_write_map returns NULL in exactly this case.                      *)
QueueFull(q) == FreeSlots(q) = {} /\ ~q.overflow

(* The entry shmsg_write_map returns.                                      *)
WriteSlot(q) ==
  IF FreeSlots(q) # {} THEN FirstFrom(q.write_idx, FreeSlots(q))
                       ELSE q.read_idx

(* shmsg_write_map with its effect on the region: when no entry is free    *)
(* the oldest one is given up.                                             *)
ShmsgWriteMap(q) ==
  LET idx == WriteSlot(q)
      discard == FreeSlots(q) = {}
  IN [q EXCEPT
        !.read_idx  = IF discard THEN Succ(idx) ELSE @,
        !.read_of   = IF discard THEN q.msg[idx].of + q.msg[idx].size ELSE @,
        !.write_idx = Succ(idx),
        !.msg[idx]  = BlankMessage]

(* shmsg_write_map_data, its choice of place: where the content starts and *)
(* the bytes that are free from there on.                                  *)
DataStart(q, size) ==
  IF q.write_of >= q.read_of /\ DATA_SIZE - q.write_of < size
    THEN 0 ELSE q.write_of

DataEnd(q, size) ==
  IF q.write_of >= q.read_of /\ DATA_SIZE - q.write_of >= size
    THEN DATA_SIZE ELSE q.read_of

(* Mutant of DataFits: off by one.                                         *)
DataFitsAlmost(q, size) == DataEnd(q, size) - DataStart(q, size) + 1 >= size

DataFits(q, size) == DataEnd(q, size) - DataStart(q, size) >= size

(* Mutant of ShmsgWriteMapData: the write offset ends one byte early.      *)
WriteMapDataShort(q, idx, size, v) ==
  LET start == DataStart(q, size)
  IN [q EXCEPT
        !.write_of = start + size - 1,
        !.data     = [o \in Bytes |->
                        IF start <= o /\ o < start + size THEN v ELSE @[o]],
        !.msg[idx] = [@ EXCEPT !.size = size, !.of = start, !.val = v]]

(* shmsg_write_map_data, its effect when the content fits.                 *)
ShmsgWriteMapData(q, idx, size, v) ==
  LET start == DataStart(q, size)
  IN [q EXCEPT
        !.write_of = start + size,
        !.data     = [o \in Bytes |->
                        IF start <= o /\ o < start + size THEN v ELSE @[o]],
        !.msg[idx] = [@ EXCEPT !.size = size, !.of = start, !.val = v]]

(* shmsg_write, the entry's source and destination.                        *)
ShmsgAddress(q, idx, src, dest) ==
  [q EXCEPT !.msg[idx] = [@ EXCEPT !.src = src, !.dest = dest]]

(* shmsg_write's error path and shmsg_read's clean up blank the source.    *)
ShmsgRelease(q, idx) ==
  [q EXCEPT !.msg[idx] = [@ EXCEPT !.src = Blank]]

(***************************************************************************)
(* Reading.                                                                *)
(***************************************************************************)

(* Mutant of ReadScan: equal indices mean an empty queue, never a full one.*)
ReadScanFullIsEmpty(q) ==
  IF q.write_idx < q.read_idx
    THEN {i \in Slots : i >= q.read_idx \/ i < q.write_idx}
    ELSE {i \in Slots : i >= q.read_idx /\ i < q.write_idx}

(* The entries shmsg_read_map visits, in the order of Distance from        *)
(* read_idx: the whole table when write_idx = read_idx.                    *)
ReadScan(q) ==
  IF q.write_idx <= q.read_idx
    THEN {i \in Slots : i >= q.read_idx \/ i < q.write_idx}
    ELSE {i \in Slots : i >= q.read_idx /\ i < q.write_idx}

ShmsgReadValid(m, key) ==
  /\ m.src # Blank
  /\ m.size # 0
  /\ m.dest = key

ReadableSlots(q, key) == {i \in ReadScan(q) : ShmsgReadValid(q.msg[i], key)}

(* Mutant of ReadSlot: the scan starts at entry 0, not at read_idx.        *)
ReadSlotLowest(q, key) == FirstFrom(0, ReadableSlots(q, key))

(* The entry shmsg_read_map returns when it returns one.                   *)
ReadSlot(q, key) == FirstFrom(q.read_idx, ReadableSlots(q, key))

(* Mutants of ShmsgReadAdvance: read_of is forgotten, or moves whatever    *)
(* message was read.                                                       *)
ReadAdvanceIndexOnly(q, idx) == [q EXCEPT !.read_idx = Succ(@)]

ReadAdvanceAlways(q, idx) ==
  [q EXCEPT !.read_idx = Succ(@), !.read_of = @ + q.msg[idx].size]

(* shmsg_read, the bookkeeping for the entry found: read_idx moves by one  *)
(* whichever entry it was.                                                 *)
ShmsgReadAdvance(q, idx) ==
  [q EXCEPT
     !.read_idx = Succ(@),
     !.read_of  = IF q.msg[idx].of = @ THEN @ + q.msg[idx].size ELSE @]

=============================================================================
