------------------------------- MODULE ShProc -------------------------------
(***************************************************************************)
(* The process pool (sys/shsys_proc.c).  The application (the parent) owns *)
(* pool_max slots.  shproc_push takes an idle slot, or forks a worker for  *)
(* an unused one, and writes a request to the slot's stream socket: a      *)
(* shproc_req_t header, then the data, in separate non-blocking writes.    *)
(* The worker reads the request, answers with a RUN header, calls the      *)
(* request callback and answers with an IDLE header and the result.        *)
(* shproc_poll reads the answers and calls the response callback.  A file  *)
(* descriptor travels on a datagram socket of its own.                     *)
(*                                                                         *)
(* One step is one system call with the code up to the next one.  A stream *)
(* is a sequence of units of sizeof(shproc_req_t) bytes: a header, or one  *)
(* unit of data.  The parent ignores SIGPIPE.                              *)
(***************************************************************************)
EXTENDS Naturals, Sequences, FiniteSets

CONSTANTS
  POOL_MAX,     \* pool_max
  Fds,          \* file descriptors a request may carry; 0 is "none"
  Sizes,        \* sizes of requests and results, in units
  CAP,          \* units a socket buffer holds
  MaxJobs,      \* bound on the requests the application makes
  MaxCrashes,   \* bound on the workers that die
  MayStop,      \* does the application call shproc_stop and shproc_shutdown
  Reaped        \* are dead workers waited for (by the application or by init)

ASSUME ProcAssumption ==
  /\ POOL_MAX \in Nat \ {0}
  /\ Fds \subseteq Nat \ {0}
  /\ Sizes \subseteq Nat
  /\ CAP \in Nat \ {0}
  /\ MaxJobs \in Nat
  /\ MaxCrashes \in Nat
  /\ MayStop \in BOOLEAN
  /\ Reaped \in BOOLEAN

VARIABLES
  slot,         \* the slots: the parent's shproc_t, its worker, its sockets
  parent,       \* where the parent is, in which call and with which frame
  jobs,         \* history: the requests made, their results
  crashes       \* number of workers that died

vars == <<slot, parent, jobs, crashes>>

Slots == 1..POOL_MAX

States == {"NONE", "IDLE", "PEND", "RUN"}

FdValues == Fds \union {0}

(* A header (shproc_req_t); job is the request it belongs to.              *)
Header(state, len, fd, job) ==
  [kind |-> "head", state |-> state, len |-> len, fd |-> fd, job |-> job]

(* One unit of the data of a request or of a result.                       *)
Data(job) ==
  [kind |-> "data", state |-> "NONE", len |-> 0, fd |-> 0, job |-> job]

(* What shproc_read makes of a unit it takes for a header: nothing marks a *)
(* header, and the crc is never looked at.                                 *)
Headers(unit) ==
  IF unit.kind = "head"
  THEN {unit}
  ELSE {Header(s, n, fd, unit.job) : s \in States, n \in Sizes, fd \in FdValues}

(* The bytes of the data of a job, n units of them.                        *)
Content(job, n) == [k \in 1..n |-> job]

(* The parent outside the library.                                         *)
Ready == [pc |-> "ready", at |-> 0, left |-> 0, buf |-> <<>>, job |-> 0]

(* A worker that enters shproc_worker_main; fd is the descriptor it was    *)
(* passed, user_fd the one named in the header.                            *)
Fresh == [pc |-> "head", fd |-> 0, user_fd |-> 0, left |-> 0, buf |-> <<>>, job |-> 0]

NoWorker == [Fresh EXCEPT !.pc = "none"]

(* A slot of the calloc in shproc_pool_init.  job (the request scheduled   *)
(* last) and broken (a frame on its streams was cut short) are history.    *)
UnusedSlot ==
  [state |-> "NONE", user_fd |-> 0, worker |-> NoWorker, down |-> <<>>,
   up |-> <<>>, dgram |-> <<>>, job |-> 0, broken |-> FALSE]

Alive(s) == s.worker.pc \notin {"none", "dead", "gone"}

Init ==
  /\ slot = [i \in Slots |-> UnusedSlot]
  /\ parent = Ready
  /\ jobs = <<>>
  /\ crashes = 0

-----------------------------------------------------------------------------
(* The parent: starting and stopping workers.                              *)

(* shproc_get: the first slot in a state, if any, as a set.                *)
ShprocGet(state) ==
  {i \in Slots : /\ slot[i].state = state
                 /\ \A j \in 1..(i - 1) : slot[j].state # state}

(* shproc_fork: new sockets and a worker; user_fd is left alone.           *)
ShprocFork(s) ==
  [UnusedSlot EXCEPT !.state = "IDLE", !.user_fd = s.user_fd, !.worker = Fresh]

ShprocStart ==
  /\ parent.pc = "ready"
  /\ \E i \in ShprocGet("NONE") : slot' = [slot EXCEPT ![i] = ShprocFork(@)]
  /\ UNCHANGED <<parent, jobs, crashes>>

(* kill works on a zombie, and fails once it was waited for.               *)
CanKill(s) == s.worker.pc # "gone"

(* shproc_stop: SIGQUIT ends the worker, the sockets are closed, user_fd   *)
(* stays.  When kill fails the slot is left as it is.                      *)
Stopped(s) ==
  IF s.state # "NONE" /\ CanKill(s)
  THEN [UnusedSlot EXCEPT !.user_fd = s.user_fd]
  ELSE s

ShprocStop(i) ==
  /\ MayStop
  /\ parent.pc = "ready"
  /\ slot' = [slot EXCEPT ![i] = Stopped(@)]
  /\ UNCHANGED <<parent, jobs, crashes>>

ShprocShutdown ==
  /\ MayStop
  /\ parent.pc = "ready"
  /\ slot' = [i \in Slots |-> Stopped(slot[i])]
  /\ UNCHANGED <<parent, jobs, crashes>>

-----------------------------------------------------------------------------
(* The parent: shproc_push = shproc_pull, shproc_setfd, shproc_schedule.   *)

(* shproc_pull: the slot for the next request, an idle one if there is one.*)
ShprocPull ==
  IF ShprocGet("IDLE") # {} THEN ShprocGet("IDLE") ELSE ShprocGet("NONE")

(* The slot once it was pulled and given the request's descriptor.         *)
Pulled(s, fd) ==
  LET ready == IF s.state = "NONE" THEN ShprocFork(s) ELSE s
  IN  [ready EXCEPT !.user_fd = IF fd # 0 THEN fd ELSE @]

(* Can a unit be written to a stream of CAP units?                         *)
HasRoom(stream) == Len(stream) < CAP

(* shproc_push up to the write of the header.  A dead worker (EPIPE) or a  *)
(* full buffer (EAGAIN) ends the call.                                     *)
ShprocPush(fd, len) ==
  LET job == Len(jobs) + 1
  IN  /\ parent.pc = "ready"
      /\ Len(jobs) < MaxJobs
      /\ \E i \in ShprocPull :
           LET s == Pulled(slot[i], fd)
           IN  IF Alive(s) /\ HasRoom(s.down)
               THEN /\ slot' = [slot EXCEPT ![i] =
                         [s EXCEPT !.down = Append(s.down, Header("RUN", len, s.user_fd, job)),
                                   !.job = job]]
                    /\ parent' = [Ready EXCEPT !.pc = "write", !.at = i,
                                               !.left = len, !.job = job]
                    /\ jobs' = Append(jobs, [fd |-> fd, len |-> len, reply |-> 0,
                                             answered |-> FALSE])
               ELSE /\ slot' = [slot EXCEPT ![i] = s]
                    /\ UNCHANGED <<parent, jobs>>
      /\ UNCHANGED crashes

(* shproc_write, the loop over the data, one unit: the call fails when the *)
(* worker is dead or made no room within 100 ms.                           *)
ShprocPushData ==
  LET i == parent.at
      s == slot[i]
  IN  /\ parent.pc = "write"
      /\ parent.left > 0
      /\ IF Alive(s) /\ HasRoom(s.down)
         THEN /\ slot' = [slot EXCEPT ![i].down = Append(@, Data(parent.job))]
              /\ parent' = [parent EXCEPT !.left = @ - 1]
         ELSE /\ slot' = [slot EXCEPT ![i].broken = TRUE]
              /\ parent' = Ready
      /\ UNCHANGED <<jobs, crashes>>

(* Mutant of ShprocPushEnd: the test of user_fd is dropped.                *)
ShprocPushEndAnyFd ==
  LET i == parent.at
      s == slot[i]
  IN  /\ parent.pc = "write"
      /\ parent.left = 0
      /\ slot' = [slot EXCEPT ![i].state = "PEND",
                              ![i].dgram = IF Alive(s) THEN Append(@, s.user_fd)
                                           ELSE @]
      /\ parent' = Ready
      /\ UNCHANGED <<jobs, crashes>>

(* shproc_schedule after the data: send the descriptor, become pending.    *)
ShprocPushEnd ==
  LET i == parent.at
      s == slot[i]
  IN  /\ parent.pc = "write"
      /\ parent.left = 0
      /\ slot' = [slot EXCEPT ![i].state = "PEND",
                              ![i].dgram = IF s.user_fd # 0 /\ Alive(s)
                                           THEN Append(@, s.user_fd) ELSE @]
      /\ parent' = Ready
      /\ UNCHANGED <<jobs, crashes>>

-----------------------------------------------------------------------------
(* The parent: shproc_poll, which visits the slots in order.               *)

(* shproc_parent_poll of a slot is over: the loop of shproc_poll goes on.  *)
NextSlot == [Ready EXCEPT !.pc = "scan", !.at = parent.at + 1]

ShprocPoll ==
  /\ parent.pc = "ready"
  /\ parent' = [Ready EXCEPT !.pc = "scan", !.at = 1]
  /\ UNCHANGED <<slot, jobs, crashes>>

(* Mutant of ShprocPollSlot: pending slots are skipped too.                *)
PollSlotRunOnly ==
  LET i == parent.at
  IN  /\ parent.pc = "scan"
      /\ parent' = IF i > POOL_MAX THEN Ready
                   ELSE IF slot[i].state = "RUN" /\ CanKill(slot[i])
                   THEN [parent EXCEPT !.pc = "head"]
                   ELSE NextSlot
      /\ UNCHANGED <<slot, jobs, crashes>>

(* Unused and idle slots are skipped.  When kill(pid, 0) fails shproc_stop *)
(* is called, which fails for the same reason and leaves the slot alone.   *)
ShprocPollSlot ==
  LET i == parent.at
  IN  /\ parent.pc = "scan"
      /\ \/ /\ i > POOL_MAX
            /\ parent' = Ready
            /\ UNCHANGED slot
         \/ /\ i \in Slots
            /\ slot[i].state \in {"NONE", "IDLE"}
            /\ parent' = NextSlot
            /\ UNCHANGED slot
         \/ /\ i \in Slots
            /\ slot[i].state \in {"PEND", "RUN"}
            /\ CanKill(slot[i])
            /\ parent' = [parent EXCEPT !.pc = "head"]
            /\ UNCHANGED slot
         \/ /\ i \in Slots
            /\ slot[i].state \in {"PEND", "RUN"}
            /\ ~CanKill(slot[i])
            /\ slot' = [slot EXCEPT ![i] = Stopped(@)]
            /\ parent' = NextSlot
      /\ UNCHANGED <<jobs, crashes>>

(* Mutants of HeaderSeen: user_fd stays, and any frame is a response.      *)
HeaderSeenKeepsFd(s, h) ==
  [s EXCEPT !.up = Tail(@),
            !.state = IF h.state \in {"RUN", "IDLE"} THEN h.state ELSE @]

HeaderSeenAnyIdle(s, h) ==
  [s EXCEPT !.up = Tail(@), !.state = "IDLE", !.user_fd = 0]

(* What a header does to the parent's shproc_t.                            *)
HeaderSeen(s, h) ==
  [s EXCEPT !.up = Tail(@),
            !.state = IF h.state \in {"RUN", "IDLE"} THEN h.state ELSE @,
            !.user_fd = IF h.state = "IDLE" THEN 0 ELSE @]

(* shproc_read in the parent, the header.  Nothing to read (and the end of *)
(* the stream, when the worker is dead) ends the poll of the slot.         *)
ShprocReadHeader ==
  LET i == parent.at
  IN  /\ parent.pc = "head"
      /\ \/ /\ slot[i].up = <<>>
            /\ parent' = NextSlot
            /\ UNCHANGED slot
         \/ /\ slot[i].up # <<>>
            /\ \E h \in Headers(Head(slot[i].up)) :
                 /\ slot' = [slot EXCEPT ![i] = HeaderSeen(@, h)]
                 /\ parent' = [parent EXCEPT !.pc = "data", !.left = h.len,
                                             !.buf = <<>>, !.job = h.job]
      /\ UNCHANGED <<jobs, crashes>>

(* Mutant of ShprocReadData: missing data is taken for the end of it.      *)
ReadDataEarlyEnd ==
  LET i == parent.at
  IN  /\ parent.pc = "data"
      /\ parent.left > 0
      /\ IF slot[i].up # <<>>
         THEN /\ slot' = [slot EXCEPT ![i].up = Tail(@)]
              /\ parent' = [parent EXCEPT !.left = @ - 1,
                                          !.buf = Append(@, Head(slot[i].up).job)]
         ELSE /\ parent' = [parent EXCEPT !.left = 0]
              /\ UNCHANGED slot
      /\ UNCHANGED <<jobs, crashes>>

(* shproc_read in the parent, the loop over the data, one unit.  Data that *)
(* is not there yet (EAGAIN) is an error: the frame's header is gone.      *)
ShprocReadData ==
  LET i == parent.at
  IN  /\ parent.pc = "data"
      /\ parent.left > 0
      /\ IF slot[i].up # <<>>
         THEN /\ slot' = [slot EXCEPT ![i].up = Tail(@)]
              /\ parent' = [parent EXCEPT !.left = @ - 1,
                                          !.buf = Append(@, Head(slot[i].up).job)]
         ELSE /\ slot' = [slot EXCEPT ![i].broken = TRUE]
              /\ parent' = NextSlot
      /\ UNCHANGED <<jobs, crashes>>

(* A frame is complete; it is a response if the slot is idle now.          *)
ShprocReadEnd ==
  /\ parent.pc = "data"
  /\ parent.left = 0
  /\ parent' = [parent EXCEPT !.pc = IF slot[parent.at].state = "IDLE"
                                     THEN "respond" ELSE "head"]
  /\ UNCHANGED <<slot, jobs, crashes>>

(* shproc_parent_poll hands the buffer to the response callback.           *)
ShprocRespond ==
  /\ parent.pc = "respond"
  /\ jobs' = [jobs EXCEPT ![parent.job].answered = TRUE]
  /\ parent' = [parent EXCEPT !.pc = "head"]
  /\ UNCHANGED <<slot, crashes>>

-----------------------------------------------------------------------------
(* The worker of slot i: shproc_worker_main calls shproc_child_poll.       *)

At(i, pc) == slot[i].worker.pc = pc

(* shproc_read in the worker, the header.                                  *)
WorkerReadHeader(i) ==
  /\ At(i, "head")
  /\ slot[i].down # <<>>
  /\ \E h \in Headers(Head(slot[i].down)) :
       slot' = [slot EXCEPT ![i].down = Tail(@),
                            ![i].worker = [Fresh EXCEPT !.pc = "data", !.left = h.len,
                                                        !.user_fd = h.fd, !.job = h.job]]
  /\ UNCHANGED <<parent, jobs, crashes>>

(* Mutant of WorkerReadData: missing data is taken for the end of it.      *)
WorkerReadDataEarlyEnd(i) ==
  LET s == slot[i]
  IN  /\ At(i, "data")
      /\ slot' = [slot EXCEPT ![i] =
            IF s.worker.left > 0 /\ s.down # <<>>
            THEN [s EXCEPT !.down = Tail(@), !.worker.left = @ - 1,
                           !.worker.buf = Append(@, Head(s.down).job)]
            ELSE [s EXCEPT !.worker.pc = "ack"]]
      /\ UNCHANGED <<parent, jobs, crashes>>

(* shproc_read in the worker, the data: a request whose data is not there  *)
(* yet is dropped.                                                         *)
WorkerReadData(i) ==
  LET s == slot[i]
  IN  /\ At(i, "data")
      /\ slot' = [slot EXCEPT ![i] =
            IF s.worker.left = 0
            THEN [s EXCEPT !.worker.pc = "ack"]
            ELSE IF s.down # <<>>
            THEN [s EXCEPT !.down = Tail(s.down), !.worker.left = s.worker.left - 1,
                           !.worker.buf = Append(s.worker.buf, Head(s.down).job)]
            ELSE [s EXCEPT !.worker = Fresh, !.broken = TRUE]]
      /\ UNCHANGED <<parent, jobs, crashes>>

(* shproc_child_poll: the RUN header, with no data.  Its result is ignored.*)
WorkerAck(i) ==
  LET s == slot[i]
      next == IF s.worker.user_fd # 0 THEN "recv" ELSE "run"
  IN  /\ At(i, "ack")
      /\ slot' = [slot EXCEPT ![i] =
            IF HasRoom(s.up)
            THEN [s EXCEPT !.worker.pc = next,
                           !.up = Append(s.up, Header("RUN", 0, 0, s.worker.job))]
            ELSE [s EXCEPT !.worker.pc = next, !.broken = TRUE]]
      /\ UNCHANGED <<parent, jobs, crashes>>

(* shproc_read_fd: recvmsg waits for a descriptor.                         *)
WorkerRecvFd(i) ==
  /\ At(i, "recv")
  /\ slot[i].dgram # <<>>
  /\ slot' = [slot EXCEPT ![i].worker.pc = "run",
                          ![i].worker.fd = Head(slot[i].dgram),
                          ![i].dgram = Tail(@)]
  /\ UNCHANGED <<parent, jobs, crashes>>

(* The request callback runs and leaves n units of result.                 *)
WorkerRun(i, n) ==
  LET job == slot[i].worker.job
  IN  /\ At(i, "run")
      /\ slot' = [slot EXCEPT ![i].worker.pc = "reply",
                              ![i].worker.left = n,
                              ![i].worker.buf = Content(job, n)]
      /\ jobs' = [jobs EXCEPT ![job].reply = n]
      /\ UNCHANGED <<parent, crashes>>

(* The IDLE header of the result; lost when the buffer is full.            *)
WorkerReply(i) ==
  LET s == slot[i]
      h == Header("IDLE", s.worker.left, 0, s.worker.job)
  IN  /\ At(i, "reply")
      /\ slot' = [slot EXCEPT ![i] =
            IF HasRoom(s.up)
            THEN [s EXCEPT !.worker.pc = "write", !.up = Append(s.up, h)]
            ELSE [s EXCEPT !.worker = Fresh, !.broken = TRUE]]
      /\ UNCHANGED <<parent, jobs, crashes>>

(* The data of the result; given up when the parent makes no room.         *)
WorkerWriteData(i) ==
  LET s == slot[i]
  IN  /\ At(i, "write")
      /\ slot' = [slot EXCEPT ![i] =
            IF s.worker.left = 0
            THEN [s EXCEPT !.worker = Fresh]
            ELSE IF HasRoom(s.up)
            THEN [s EXCEPT !.up = Append(s.up, Data(Head(s.worker.buf))),
                           !.worker.buf = Tail(s.worker.buf),
                           !.worker.left = s.worker.left - 1]
            ELSE [s EXCEPT !.worker = Fresh, !.broken = TRUE]]
      /\ UNCHANGED <<parent, jobs, crashes>>

(* A worker dies: its streams stay readable, the parent can not write.     *)
Crash(i) ==
  /\ crashes < MaxCrashes
  /\ Alive(slot[i])
  /\ slot' = [slot EXCEPT ![i].worker = [Fresh EXCEPT !.pc = "dead"]]
  /\ crashes' = crashes + 1
  /\ UNCHANGED <<parent, jobs>>

(* The zombie is waited for.                                               *)
Reap(i) ==
  /\ Reaped
  /\ At(i, "dead")
  /\ slot' = [slot EXCEPT ![i].worker.pc = "gone"]
  /\ UNCHANGED <<parent, jobs, crashes>>

-----------------------------------------------------------------------------
ParentStep ==
  \/ ShprocPushData
  \/ ShprocPushEnd
  \/ ShprocPollSlot
  \/ ShprocReadHeader
  \/ ShprocReadData
  \/ ShprocReadEnd
  \/ ShprocRespond

WorkerStep(i) ==
  \/ WorkerReadHeader(i)
  \/ WorkerReadData(i)
  \/ WorkerAck(i)
  \/ WorkerRecvFd(i)
  \/ \E n \in Sizes : WorkerRun(i, n)
  \/ WorkerReply(i)
  \/ WorkerWriteData(i)

Next ==
  \/ ShprocStart
  \/ \E i \in Slots : ShprocStop(i)
  \/ ShprocShutdown
  \/ \E fd \in FdValues, len \in Sizes : ShprocPush(fd, len)
  \/ ShprocPoll
  \/ ParentStep
  \/ \E i \in Slots : WorkerStep(i) \/ Crash(i) \/ Reap(i)

Spec == Init /\ [][Next]_vars

(* Calls of the library end, workers run, and the application polls.       *)
FairSpec ==
  /\ Spec
  /\ WF_vars(ParentStep)
  /\ SF_vars(ShprocPoll)
  /\ \A i \in Slots : WF_vars(WorkerStep(i))

-----------------------------------------------------------------------------
Unit ==
  [kind : {"head", "data"}, state : States, len : Sizes \union {0},
   fd : FdValues, job : 0..MaxJobs]

WorkerPCs ==
  {"none", "head", "data", "ack", "recv", "run", "reply", "write", "dead", "gone"}

SlotOK(s) ==
  /\ s.state \in States
  /\ s.user_fd \in FdValues
  /\ s.worker.pc \in WorkerPCs
  /\ s.worker.fd \in FdValues
  /\ s.worker.user_fd \in FdValues
  /\ s.worker.left \in Nat
  /\ s.worker.job \in 0..Len(jobs)
  /\ Len(s.down) <= CAP /\ \A k \in DOMAIN s.down : s.down[k] \in Unit
  /\ Len(s.up) <= CAP /\ \A k \in DOMAIN s.up : s.up[k] \in Unit
  /\ \A k \in DOMAIN s.dgram : s.dgram[k] \in Fds
  /\ s.job \in 0..Len(jobs)
  /\ s.broken \in BOOLEAN

(* The types of the slots, the parent and the history (shproc_t,           *)
(* shproc_req_t): states are the four SHPROC_ values, and neither stream   *)
(* holds more than its buffer.                                             *)
TypeOK ==
  /\ \A i \in Slots : SlotOK(slot[i])
  /\ parent.pc \in {"ready", "write", "scan", "head", "data", "respond"}
  /\ parent.at \in 0..(POOL_MAX + 1)
  /\ parent.pc \in {"write", "head", "data", "respond"} => parent.at \in Slots
  /\ parent.job \in 0..Len(jobs)
  /\ Len(jobs) <= MaxJobs
  /\ crashes \in 0..MaxCrashes

(* Slots the properties speak of: no frame was cut short on them.          *)
Whole(i) == ~slot[i].broken

(* Whoever reads before the writer wrote the rest of a frame cuts it       *)
(* short; unless that happened the request callback sees exactly the data  *)
(* of the request scheduled last on its slot (shproc_schedule,             *)
(* shproc_child_poll).                                                     *)
RequestIntact ==
  \A i \in Slots :
    (At(i, "run") /\ Whole(i)) =>
      /\ slot[i].worker.job = slot[i].job
      /\ slot[i].worker.buf = Content(slot[i].job, jobs[slot[i].job].len)

(* The request callback is given the descriptor its own request was pushed *)
(* with, and none when it was pushed without (shproc_push, shproc_setfd,   *)
(* shproc_read_fd).                                                        *)
DescriptorIntact ==
  \A i \in Slots :
    (At(i, "run") /\ Whole(i)) => slot[i].worker.fd = jobs[slot[i].job].fd

(* The response callback sees the complete result of the request scheduled *)
(* last on that slot, and sees it once (shproc_parent_poll).               *)
ResponseIntact ==
  LET i == parent.at
      job == slot[i].job
  IN  (parent.pc = "respond" /\ Whole(i)) =>
         /\ parent.job = job
         /\ ~jobs[job].answered
         /\ parent.buf = Content(job, jobs[job].reply)

(* An idle slot is handed to the next request: nothing of an earlier one   *)
(* may be left in its sockets or in its worker (shproc_get, SHPROC_IDLE).  *)
IdleIsClean ==
  \A i \in Slots :
    (slot[i].state = "IDLE" /\ Whole(i) /\ Alive(slot[i]) /\ parent.at # i) =>
      /\ slot[i].down = <<>> /\ slot[i].up = <<>> /\ slot[i].dgram = <<>>
      /\ slot[i].worker.pc \in {"head", "write"}
      /\ slot[i].worker.left = 0

(* A scheduled request comes to an end: its slot gets idle again, unless   *)
(* a frame was cut short, the worker died or it was stopped.               *)
PendingEnds ==
  \A i \in Slots :
    (slot[i].state = "PEND") ~>
      (slot[i].state \in {"IDLE", "NONE"} \/ ~Whole(i) \/ ~Alive(slot[i]))
=============================================================================
