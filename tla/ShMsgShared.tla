---------------------------- MODULE ShMsgShared -----------------------------
(***************************************************************************)
(* Several processes use one message queue at the same time (shsys_msg.c). *)
(* shmsg_lock is a time stamp in the shared region: a process reads the    *)
(* clock, looks at lock_t, and stores the clock plus one second; these are *)
(* separate steps, anyone may store 0, and a process may stall or die      *)
(* between any two steps.  shmsg_write and shmsg_read are split where they *)
(* load from the region and store to it; the scan of the table for an      *)
(* entry is one step.  SHMSGF_OVERFLOW is off (see ShMsgQueue).            *)
(*                                                                         *)
(* Time is relative: lock is how long lock_t is still in the future (0     *)
(* when unlocked or expired), age[p] how long ago p read the clock.        *)
(***************************************************************************)
EXTENDS ShMsgMap

CONSTANTS
  Procs,        \* the processes; a process is known by its peer key
  Owner,        \* the process the queue was opened for, the only reader
  LEASE,        \* clock ticks in the one second of shmsg_lock
  MaxCrashes    \* bound on the number of crashes

ASSUME MsgSharedAssumption ==
  /\ Procs \subseteq Peers
  /\ Owner \in Procs
  /\ LEASE \in Nat \ {0}
  /\ MaxCrashes \in Nat

VARIABLES
  q,            \* the region
  lock,         \* max(lock_t - now, 0)
  pc,           \* where each process is
  op,           \* the call each process is in
  age,          \* ticks since the process read the clock in shmsg_lock
  slot,         \* the entry (msg) the process works on
  start,        \* start_of of shmsg_write_map_data
  size,         \* msg_size of shmsg_write_map_data
  crashes,      \* number of crashes so far
  overlap       \* history: two processes were between lock and unlock at once

vars == <<q, lock, pc, op, age, slot, start, size, crashes, overlap>>

(* Where a process fills the entry it has addressed.                       *)
Filling == {"start", "place", "undo", "move", "copy", "size"}

(* Where a process holds, or believes it holds, the lock.                  *)
Inside == {"scan", "claim", "address", "of", "advance", "test", "free",
           "release", "unlock"} \union Filling

PCs == {"idle", "check", "set", "dead"} \union Inside

Init ==
  /\ q = ShmsgQueueInit
  /\ lock = 0
  /\ pc = [p \in Procs |-> "idle"]
  /\ op = [p \in Procs |-> "none"]
  /\ age = [p \in Procs |-> 0]
  /\ slot = [p \in Procs |-> 0]
  /\ start = [p \in Procs |-> 0]
  /\ size = [p \in Procs |-> 0]
  /\ crashes = 0
  /\ overlap = FALSE

Goto(p, label) == pc' = [pc EXCEPT ![p] = label]

At(p, label) == pc[p] = label

(* The call is over: its local variables are gone.                         *)
Leave(p, label) ==
  /\ Goto(p, label)
  /\ op' = [op EXCEPT ![p] = "none"]
  /\ age' = [age EXCEPT ![p] = 0]
  /\ slot' = [slot EXCEPT ![p] = 0]
  /\ start' = [start EXCEPT ![p] = 0]
  /\ size' = [size EXCEPT ![p] = 0]

(* A process starts shmsg_write or, if the queue is its own, shmsg_read.   *)
Call(p, call) ==
  /\ At(p, "idle")
  /\ call = "read" => p = Owner
  /\ op' = [op EXCEPT ![p] = call]
  /\ Goto(p, "check")
  /\ UNCHANGED <<q, lock, age, slot, start, size, crashes, overlap>>

(* Mutant of ShmsgLockCheck: a caller that finds the lock taken renews it. *)
LockCheckRenews(p) ==
  /\ At(p, "check")
  /\ IF lock > 0
       THEN Leave(p, "idle") /\ lock' = LEASE
       ELSE Goto(p, "set") /\ UNCHANGED <<lock, op, age, slot, start, size>>
  /\ UNCHANGED <<q, crashes, overlap>>

(* shmsg_lock: read the clock and look at lock_t; the call fails with      *)
(* SHERR_AGAIN when it is in the future.                                   *)
ShmsgLockCheck(p) ==
  /\ At(p, "check")
  /\ IF lock > 0 THEN Leave(p, "idle")
                 ELSE Goto(p, "set") /\ UNCHANGED <<op, age, slot, start, size>>
  /\ UNCHANGED <<q, lock, crashes, overlap>>

(* shmsg_lock: store the clock value read before plus one second.  The     *)
(* calls that overlap are followed to their end; of a call that begins     *)
(* later only the lock is, since the region may then hold anything.        *)
ShmsgLockSet(p) ==
  /\ At(p, "set")
  /\ lock' = LEASE - age[p]
  /\ Goto(p, IF overlap THEN "unlock" ELSE "scan")
  /\ age' = [age EXCEPT ![p] = 0]
  /\ overlap' = (overlap \/ \E r \in Procs \ {p} : pc[r] \in Inside)
  /\ UNCHANGED <<q, op, slot, start, size, crashes>>

-----------------------------------------------------------------------------
(* shmsg_write.                                                            *)

(* One access to the region by p, which leaves everything else alone.      *)
Access(p, label) ==
  /\ Goto(p, label)
  /\ UNCHANGED <<lock, op, age, crashes, overlap>>

(* shmsg_write_map, the scan for a free entry.                             *)
WriteScanStep(p) ==
  /\ At(p, "scan") /\ op[p] = "write"
  /\ IF QueueFull(q)
       THEN Access(p, "unlock") /\ UNCHANGED slot
       ELSE Access(p, "claim") /\ slot' = [slot EXCEPT ![p] = WriteSlot(q)]
  /\ UNCHANGED <<q, start, size>>

(* shmsg_write_map, label "done": take the entry and clear it.             *)
WriteClaim(p) ==
  /\ At(p, "claim")
  /\ q' = [q EXCEPT !.write_idx = Succ(slot[p]), !.msg[slot[p]] = BlankMessage]
  /\ Access(p, "address")
  /\ UNCHANGED <<slot, start, size>>

(* shmsg_write: source and destination keys.                               *)
WriteAddress(p) ==
  /\ At(p, "address")
  /\ q' = ShmsgAddress(q, slot[p], p, Owner)
  /\ Access(p, "start")
  /\ UNCHANGED <<slot, start, size>>

(* shmsg_write_map_data: load write_of.                                    *)
WriteStart(p) ==
  /\ At(p, "start")
  /\ start' = [start EXCEPT ![p] = q.write_of]
  /\ Access(p, "place")
  /\ UNCHANGED <<q, slot, size>>

(* end - begin >= len for size_t: a difference below zero is a large one.  *)
Holds(begin, end, len) == end < begin \/ end - begin >= len

(* shmsg_write_map_data: load read_of and choose the place, for a write_of *)
(* that was loaded before.  A message that is too large for the queue was  *)
(* refused before shmsg_lock.                                              *)
Wraps(p, len) == start[p] >= q.read_of /\ ~Holds(start[p], DATA_SIZE, len)

Begin(p, len) == IF Wraps(p, len) THEN 0 ELSE start[p]

End(p, len) ==
  IF start[p] >= q.read_of /\ ~Wraps(p, len) THEN DATA_SIZE ELSE q.read_of

WritePlace(p, len) ==
  /\ At(p, "place") /\ len < DATA_SIZE
  /\ IF Holds(Begin(p, len), End(p, len), len)
       THEN /\ Access(p, "move")
            /\ start' = [start EXCEPT ![p] = Begin(p, len)]
            /\ size' = [size EXCEPT ![p] = len]
       ELSE Access(p, "undo") /\ UNCHANGED <<start, size>>
  /\ UNCHANGED <<q, slot>>

(* The error path of shmsg_write.                                          *)
WriteUndo(p) ==
  /\ At(p, "undo")
  /\ q' = ShmsgRelease(q, slot[p])
  /\ Access(p, "unlock")
  /\ UNCHANGED <<slot, start, size>>

(* shmsg_write_map_data, its four stores: write_of, the content, msg_size  *)
(* and msg_of.                                                             *)
WriteMove(p) ==
  /\ At(p, "move")
  /\ q' = [q EXCEPT !.write_of = start[p] + size[p]]
  /\ Access(p, "copy")
  /\ UNCHANGED <<slot, start, size>>

WriteCopy(p, v) ==
  /\ At(p, "copy")
  /\ q' = [q EXCEPT !.data = [o \in Bytes |->
                IF start[p] <= o /\ o < start[p] + size[p] THEN v ELSE @[o]]]
  /\ Access(p, "size")
  /\ UNCHANGED <<slot, start, size>>

WriteSize(p) ==
  /\ At(p, "size")
  /\ q' = [q EXCEPT !.msg[slot[p]].size = size[p]]
  /\ Access(p, "of")
  /\ UNCHANGED <<slot, start, size>>

WriteOf(p) ==
  /\ At(p, "of")
  /\ q' = [q EXCEPT !.msg[slot[p]].of = start[p]]
  /\ Access(p, "unlock")
  /\ UNCHANGED <<slot, start, size>>

-----------------------------------------------------------------------------
(* shmsg_read.  Nobody else stores read_idx and read_of, so that each of   *)
(* the two additions is one step.                                          *)

(* shmsg_read_map.                                                         *)
ReadScanStep(p) ==
  /\ At(p, "scan") /\ op[p] = "read"
  /\ IF ReadableSlots(q, p) = {}
       THEN Access(p, "unlock") /\ UNCHANGED slot
       ELSE Access(p, "advance") /\ slot' = [slot EXCEPT ![p] = ReadSlot(q, p)]
  /\ UNCHANGED <<q, start, size>>

(* The index moves by one, whichever entry was found.                      *)
ReadAdvance(p) ==
  /\ At(p, "advance")
  /\ q' = [q EXCEPT !.read_idx = Succ(@)]
  /\ Access(p, "test")
  /\ UNCHANGED <<slot, start, size>>

(* Mutant of ReadTest: read_of moves whatever message was read.            *)
ReadTestAlways(p) ==
  /\ At(p, "test")
  /\ Access(p, "free")
  /\ UNCHANGED <<q, slot, start, size>>

(* The bytes of the message are given up when they are the next in turn.   *)
ReadTest(p) ==
  /\ At(p, "test")
  /\ Access(p, IF q.msg[slot[p]].of = q.read_of THEN "free" ELSE "release")
  /\ UNCHANGED <<q, slot, start, size>>

ReadFree(p) ==
  /\ At(p, "free")
  /\ q' = [q EXCEPT !.read_of = @ + q.msg[slot[p]].size]
  /\ Access(p, "release")
  /\ UNCHANGED <<slot, start, size>>

(* Mutant of ReadRelease: clears the size and leaves the source.           *)
ReadReleaseSize(p) ==
  /\ At(p, "release")
  /\ q' = [q EXCEPT !.msg[slot[p]].size = 0]
  /\ Access(p, "unlock")
  /\ UNCHANGED <<slot, start, size>>

(* Copy the content and blank the entry.                                   *)
ReadRelease(p) ==
  /\ At(p, "release")
  /\ q' = ShmsgRelease(q, slot[p])
  /\ Access(p, "unlock")
  /\ UNCHANGED <<slot, start, size>>

-----------------------------------------------------------------------------
(* shmsg_unlock, whoever's lock it is by now.                              *)
ShmsgUnlock(p) ==
  /\ At(p, "unlock")
  /\ lock' = 0
  /\ Leave(p, "idle")
  /\ UNCHANGED <<q, crashes, overlap>>

(* The process stops, wherever it is; the region stays as it is.           *)
Crash(p) ==
  /\ crashes < MaxCrashes
  /\ ~At(p, "dead")
  /\ crashes' = crashes + 1
  /\ Leave(p, "dead")
  /\ UNCHANGED <<q, lock, overlap>>

(* The program is started again: shmsgget maps the same file.              *)
Restart(p) ==
  /\ At(p, "dead")
  /\ Goto(p, "idle")
  /\ UNCHANGED <<q, lock, op, age, slot, start, size, crashes, overlap>>

(* Time passes.                                                            *)
Tick ==
  /\ lock' = IF lock > 0 THEN lock - 1 ELSE 0
  /\ age' = [p \in Procs |-> IF At(p, "set") /\ age[p] < LEASE THEN age[p] + 1
                                                              ELSE age[p]]
  /\ UNCHANGED <<q, pc, op, slot, start, size, crashes, overlap>>

Step(p) ==
  \/ ShmsgLockCheck(p) \/ ShmsgLockSet(p)
  \/ WriteScanStep(p) \/ WriteClaim(p) \/ WriteAddress(p)
  \/ WriteStart(p) \/ \E len \in Sizes : WritePlace(p, len)
  \/ WriteUndo(p) \/ WriteMove(p) \/ \E v \in Values : WriteCopy(p, v)
  \/ WriteSize(p) \/ WriteOf(p)
  \/ ReadScanStep(p) \/ ReadAdvance(p) \/ ReadTest(p) \/ ReadFree(p)
  \/ ReadRelease(p)
  \/ ShmsgUnlock(p)

Next ==
  \/ \E p \in Procs : Step(p)
  \/ \E p \in Procs, call \in {"write", "read"} : Call(p, call)
  \/ \E p \in Procs : Crash(p) \/ Restart(p)
  \/ Tick

(* Time passes and a live process takes its next step; processes need not  *)
(* call, stop or come back.                                                *)
Spec == /\ Init /\ [][Next]_vars
        /\ WF_vars(Tick)
        /\ \A p \in Procs : WF_vars(Step(p))

(***************************************************************************)
(* Properties.                                                             *)
(***************************************************************************)

(* The region keeps the shape of shmsgq_t and the lock its lease.          *)
TypeOK ==
  /\ q \in Region
  /\ lock \in 0 .. LEASE
  /\ pc \in [Procs -> PCs]
  /\ op \in [Procs -> {"none", "write", "read"}]
  /\ age \in [Procs -> 0 .. LEASE]
  /\ slot \in [Procs -> Slots]
  /\ start \in [Procs -> Nat] /\ size \in [Procs -> Nat]
  /\ crashes \in 0 .. MaxCrashes
  /\ overlap \in BOOLEAN

(* As long as no two processes were between shmsg_lock and shmsg_unlock at *)
(* the same time, no copy of shmsg_write_map_data or shmsg_read leaves the *)
(* mapping, whichever of the separate stores of offsets and sizes a crash  *)
(* leaves undone.                                                          *)
SerialBounds ==
  ~overlap =>
    /\ WithinData(q)
    /\ \A p \in Procs : start[p] + size[p] <= DATA_SIZE

Complete == {i \in Occupied(q) : q.msg[i].size # 0}

(* The step leaves the entry of every stored message alone, or shmsg_read  *)
(* releases it, or shmsg_write, which has stored the size, has yet to store*)
(* the offset.                                                             *)
KeepsStored ==
  \A i \in Complete :
    \/ q'.msg[i] = q.msg[i]
    \/ \E p \in Procs : pc[p] \in {"of", "release"} /\ slot[p] = i

(* The entry of a message that shmsg_write has stored stays as it is in    *)
(* the table until shmsg_read releases it, whoever stalls or crashes       *)
(* where, unless two processes were between shmsg_lock and shmsg_unlock at *)
(* the same time.  This is about the entry: its bytes in the data area are *)
(* not safe from later writes once a process died inside the lock.         *)
SerialEntriesKept == [][overlap \/ KeepsStored]_vars

(* Entries that hold no message and that no process is filling in.         *)
Leaked == {i \in Occupied(q) \ Complete :
             \A p \in Procs : ~(pc[p] \in Filling /\ slot[p] = i)}

(* Unless processes overlap, an entry can only be lost to a crash, one     *)
(* entry per crash.                                                        *)
LeakBound == ~overlap => Cardinality(Leaked) <= crashes

(* However processes stall, crash and retry, the lock does not stay taken: *)
(* lock_t is again and again 0 or past.                                    *)
LockExpires == []<>(lock = 0)

=============================================================================
