----------------------------- MODULE ShMsgQueue -----------------------------
(***************************************************************************)
(* One libshare message queue (shsys_msg.c), one whole call at a time: the *)
(* calls of the processes that share the queue's file never overlap.       *)
(* (ShMsgShared lets them overlap, with the lock the code has.)            *)
(*                                                                         *)
(* The region is a file, so it outlives the processes: a process that      *)
(* stops or unmaps it (SHMSGF_RMID) changes nothing here.                  *)
(***************************************************************************)
EXTENDS ShMsgMap

CONSTANTS
  Owner,      \* the peer the queue was opened for: shmsgget(peer)
  Readers     \* the peers whose processes call shmsg_read

ASSUME MsgQueueAssumption ==
  /\ Owner \in Peers
  /\ Readers \subseteq Peers

VARIABLES
  q,          \* the mapped region
  ret,        \* what the last call returned
  got         \* what the last successful shmsg_read copied to its caller

vars == <<q, ret, got>>

Results == {"0", "SHERR_AGAIN", "SHERR_INVAL", "SHERR_NOMSG"}

(* A received message: its source and the values of the bytes copied.      *)
Nothing == [src |-> Blank, bytes |-> {}]

CopyOf(m) == [src |-> m.src,
              bytes |-> {q.data[o] : o \in m.of .. m.of + m.size - 1}]

Init ==
  /\ q = ShmsgQueueInit
  /\ ret = "0"
  /\ got = Nothing

(* shmsg_write up to the entry that is filled in or, when its content does *)
(* not fit, released again: write_idx stays behind it either way.          *)
Addressed(src, dest) ==
  ShmsgAddress(ShmsgWriteMap(q), WriteSlot(q), src, dest)

(* shmsg_write(msg_qid, msg_buff, dest_key) by the process of peer src;    *)
(* shmsgsnd is the call with dest = Owner.                                 *)
ShmsgWrite(src, dest, size, v) ==
  LET idx == WriteSlot(q)
      m == Addressed(src, dest)
  IN /\ UNCHANGED got
     /\ \/ /\ size >= DATA_SIZE
           /\ ret' = "SHERR_INVAL"
           /\ UNCHANGED q
        \/ /\ size < DATA_SIZE
           /\ QueueFull(q)
           /\ ret' = "SHERR_AGAIN"
           /\ UNCHANGED q
        \/ /\ size < DATA_SIZE
           /\ ~QueueFull(q)
           /\ ~DataFits(m, size)
           /\ q' = ShmsgRelease(m, idx)
           /\ ret' = "SHERR_AGAIN"
        \/ /\ size < DATA_SIZE
           /\ ~QueueFull(q)
           /\ DataFits(m, size)
           /\ q' = ShmsgWriteMapData(m, idx, size, v)
           /\ ret' = "0"

(* shmsg_read by the process of peer key (shmsgrcv copies what it gets).   *)
ShmsgRead(key) ==
  \/ /\ ReadableSlots(q, key) = {}
     /\ ret' = "SHERR_NOMSG"
     /\ UNCHANGED <<q, got>>
  \/ /\ ReadableSlots(q, key) # {}
     /\ LET idx == ReadSlot(q, key)
        IN /\ q' = ShmsgRelease(ShmsgReadAdvance(q, idx), idx)
           /\ got' = CopyOf(q.msg[idx])
     /\ ret' = "0"

(* shmsgctl(msg_qid, SHMSGF_OVERFLOW, value).                              *)
ShmsgctlOverflow(value) ==
  /\ q' = [q EXCEPT !.overflow = value]
  /\ UNCHANGED <<ret, got>>

Next ==
  \/ \E src \in Peers, dest \in Readers \union {Owner}, size \in Sizes, v \in Values :
       ShmsgWrite(src, dest, size, v)
  \/ \E key \in Readers : ShmsgRead(key)
  \/ \E value \in BOOLEAN : ShmsgctlOverflow(value)

Spec == Init /\ [][Next]_vars

(***************************************************************************)
(* Properties of every use of the queue.                                   *)
(***************************************************************************)

(* The region keeps the shape of shmsgq_t.                                 *)
TypeOK ==
  /\ q \in Region
  /\ ret \in Results
  /\ got.src \in Peers \union {Blank}
  /\ got.bytes \subseteq Values \union {Blank}

(* No memcpy of shmsg_write_map_data or shmsg_read leaves the mapped file: *)
(* the offsets, which wrap and are added up in several places, and the     *)
(* extent of every entry of the table, stay inside the data area.          *)
InBounds == WithinData(q)

(* What UnreadKept says of one step.                                       *)
KeepsUnread ==
  \A i \in Occupied(q) :
    \/ q'.msg[i] = q.msg[i]
    \/ /\ q'.write_idx = q.write_idx
       /\ \E key \in Readers : i \in ReadableSlots(q, key) /\ i = ReadSlot(q, key)
    \/ q.overflow /\ FreeSlots(q) = {} /\ i = q.read_idx

(* An unread message leaves the table only when shmsg_read hands it to the *)
(* peer it is for, or when shmsg_write finds no free entry, the queue has  *)
(* SHMSGF_OVERFLOW and the message is at read_idx.                         *)
UnreadKept == [][KeepsUnread]_vars

(***************************************************************************)
(* Properties of the use the code is written for.                          *)
(***************************************************************************)

(* The bytes of an unread message are those its sender handed over.        *)
Intact ==
  \A i \in Occupied(q) :
    \A o \in q.msg[i].of .. q.msg[i].of + q.msg[i].size - 1 :
      q.data[o] = q.msg[i].val

(* shmsg_read finds a message when the table holds one for its caller.     *)
NoHiddenMessage ==
  \A key \in Readers :
    (\E i \in Occupied(q) : q.msg[i].dest = key) => ReadableSlots(q, key) # {}

(* A queue without messages takes any message that is not too large.       *)
EmptyAccepts ==
  Occupied(q) = {} =>
    \A size \in Sizes :
      size < DATA_SIZE => DataFits(ShmsgWriteMap(q), size)

=============================================================================
