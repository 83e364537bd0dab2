---------------------------- MODULE ShProcProofs ----------------------------
(***************************************************************************)
(* Theorems about ShProc, for every size of the pool, of the socket        *)
(* buffers and of requests and results, any number of requests, and        *)
(* workers that die and are stopped at any moment.  (The one about the     *)
(* descriptor is for an application that does not stop workers.)           *)
(***************************************************************************)
EXTENDS ShProc, TLAPS, SequenceTheorems

-----------------------------------------------------------------------------
(* Types, for any state of the program.                                    *)

WorkerType ==
  [pc : WorkerPCs, fd : FdValues, user_fd : FdValues, left : Nat, buf : Seq(Nat),
   job : Nat]

SlotType ==
  [state : States, user_fd : FdValues, worker : WorkerType, down : Seq(Unit),
   up : Seq(Unit), dgram : Seq(Fds), job : Nat, broken : BOOLEAN]

JobType == [fd : FdValues, len : Sizes, reply : Nat, answered : BOOLEAN]

ParentType ==
  [pc : {"ready", "write", "scan", "head", "data", "respond"},
   at : 0 .. POOL_MAX + 1, left : Nat, buf : Seq(Nat), job : Nat]

(* buf holds n units of the data of a job.                                 *)
Holds(buf, job, n) == Len(buf) = n /\ \A k \in 1 .. n : buf[k] = job

(* What a worker is about to write is the result of its job.               *)
Replies(w) ==
  w.pc \in {"reply", "write"} =>
    Holds(w.buf, w.job, w.left) /\ (w.pc = "reply" => w.left \in Sizes)

-----------------------------------------------------------------------------
(* Each request belongs to one slot: own names it, and whatever a slot, or *)
(* the parent when it works on one, holds of a request stays there.        *)

Mine(own, job, i) == job \in DOMAIN own /\ own[job] = i

InRequest == {"data", "ack", "recv", "run", "reply", "write"}

StreamGood(own, q, i) ==
  /\ q \in Seq(Unit)
  /\ Len(q) <= CAP
  /\ \A k \in 1 .. Len(q) : Mine(own, q[k].job, i)

WorkerGood(own, w, i) ==
  /\ w \in WorkerType
  /\ Replies(w)
  /\ w.job = 0 \/ Mine(own, w.job, i)
  /\ w.pc \in InRequest => w.job # 0

SlotGood(own, s, i) ==
  /\ s \in SlotType
  /\ s.job = 0 \/ Mine(own, s.job, i)
  /\ WorkerGood(own, s.worker, i)
  /\ StreamGood(own, s.down, i)
  /\ StreamGood(own, s.up, i)

ParentGood(own, p) ==
  /\ p \in ParentType
  /\ p.pc \in {"write", "head", "data", "respond"} => p.at \in Slots
  /\ p.pc \in {"write", "data", "respond"} => Mine(own, p.job, p.at)
  /\ p.job = 0 \/ p.job \in DOMAIN own

-----------------------------------------------------------------------------
(* A slot s with the request J on which no frame was cut short.            *)

(* What the parent p does with slot i: writes a request, reads the data of *)
(* an answer, calls the response callback, or nothing of these.            *)
Mode(p, i) ==
  IF p.at = i /\ p.pc \in {"write", "data", "respond"} THEN p.pc ELSE "away"

(* The units of the last request's frame, and of its answers, in order.    *)
DownUnit(job, len, fd, k) == IF k = 1 THEN Header("RUN", len, fd, job) ELSE Data(job)

UpUnit(job, len, k) ==
  IF k = 1 THEN Header("RUN", 0, 0, job)
  ELSE IF k = 2 THEN Header("IDLE", len, 0, job) ELSE Data(job)

(* How many units the parent has written of the request ...                *)
Sent(m, p, J) == IF m = "write" THEN 1 + (J.len - p.left) ELSE 1 + J.len

(* ... and read of the answers.                                            *)
Taken(s, m, p, J) ==
  IF m = "write" \/ s.state = "PEND" THEN 0
  ELSE IF s.state = "RUN" THEN 1
  ELSE IF m = "data" THEN 2 + (J.reply - p.left) ELSE 2 + J.reply

ParentOK(s, m, p, J) ==
  /\ s.state # "NONE"
  /\ m = "write" => p.job = s.job /\ s.state = "IDLE" /\ p.left <= J.len
  /\ m = "data" => /\ p.job = s.job /\ s.state \in {"RUN", "IDLE"}
                   /\ s.state = "RUN" => p.left = 0
                   /\ s.state = "IDLE" => /\ p.left <= J.reply
                                          /\ Holds(p.buf, s.job, J.reply - p.left)
  /\ m = "respond" => p.job = s.job /\ s.state = "IDLE" /\ Holds(p.buf, s.job, J.reply)
  /\ m # "away" \/ s.state # "IDLE" => ~J.answered

(* The worker has emitted e units, the parent has read n of them; the rest *)
(* is in the socket.                                                       *)
UpOK(s, n, J, e) ==
  /\ n <= e
  /\ Len(s.up) = e - n
  /\ \A k \in 1 .. e - n : s.up[k] = UpUnit(s.job, J.reply, n + k)

(* The parent has written n units, the worker has read r of them.          *)
DownOK(s, n, J, r) ==
  /\ r <= n
  /\ Len(s.down) = n - r
  /\ \A k \in 1 .. n - r : s.down[k] = DownUnit(s.job, J.len, s.user_fd, r + k)

(* Where the worker is: before the request, in it, or behind it.           *)
WorkerOK(s, J, r, e) ==
  LET w   == s.worker
      all == J.len + 1
  IN  \/ w.pc \in {"head", "write"} /\ w.left = 0 /\ r = 0 /\ e = 0
      \/ /\ w.pc = "data" /\ w.job = s.job /\ w.user_fd = s.user_fd /\ w.fd = 0
         /\ r > 0 /\ r + w.left = all /\ e = 0
         /\ Holds(w.buf, s.job, r - 1)
      \/ /\ w.pc \in {"ack", "recv"} /\ w.job = s.job /\ w.user_fd = s.user_fd /\ w.fd = 0
         /\ r = all /\ e = (IF w.pc = "ack" THEN 0 ELSE 1)
         /\ w.pc = "recv" => w.user_fd # 0
         /\ Holds(w.buf, s.job, J.len)
      \/ /\ w.pc = "run" /\ w.job = s.job /\ w.fd = s.user_fd
         /\ r = all /\ e = 1
         /\ Holds(w.buf, s.job, J.len)
      \/ /\ w.pc = "reply" /\ w.job = s.job /\ w.left = J.reply
         /\ r = all /\ e = 1
      \/ /\ w.pc = "write" /\ w.job = s.job /\ r = all /\ e + w.left = 2 + J.reply
         /\ e >= 2
      \/ w.pc = "head" /\ w.left = 0 /\ r = all /\ e = 2 + J.reply

(* The descriptor is on its way from the end of the push until the worker  *)
(* has it, and the worker does not run without it.                         *)
DgramOK(s, m, e) ==
  LET waits == e <= 1 /\ s.worker.pc \notin {"run", "reply"}
  IN  /\ IF s.user_fd # 0 /\ m # "write" /\ waits
         THEN s.dgram = <<s.user_fd>>
         ELSE s.dgram = <<>>
      /\ (s.user_fd # 0 /\ m = "write") => waits

ChildOK(s, m, p, J, r, e) ==
  DownOK(s, Sent(m, p, J), J, r) /\ WorkerOK(s, J, r, e) /\ DgramOK(s, m, e)

Busy(s, m, p, J) ==
  /\ ParentOK(s, m, p, J)
  /\ \E r \in 0 .. J.len + 1, e \in 0 .. J.reply + 2 :
       /\ UpOK(s, Taken(s, m, p, J), J, e)
       /\ Alive(s) => ChildOK(s, m, p, J, r, e)

(* A slot without a request.                                               *)
Blank(s, m) ==
  /\ s.down = <<>> /\ s.up = <<>> /\ s.dgram = <<>>
  /\ \/ s.state = "NONE" /\ s.worker.pc = "none"
     \/ s.state = "IDLE" /\ s.worker.pc \in {"head", "dead", "gone"} /\ s.worker.left = 0
  /\ m = "away"

Sound(s, m, p, js) ==
  ~s.broken => IF s.job = 0 THEN Blank(s, m) ELSE Busy(s, m, p, js[s.job])

-----------------------------------------------------------------------------
(* The inductive invariant.                                                *)

Typed ==
  /\ slot \in [Slots -> SlotType]
  /\ jobs \in Seq(JobType)
  /\ Len(jobs) <= MaxJobs
  /\ crashes \in 0 .. MaxCrashes

OwnedBy(own) ==
  /\ own \in [1 .. Len(jobs) -> Slots]
  /\ ParentGood(own, parent)
  /\ \A i \in Slots : SlotGood(own, slot[i], i)

AllSound == \A i \in Slots : Sound(slot[i], Mode(parent, i), parent, jobs)

PInv ==
  /\ Typed
  /\ \E own \in [1 .. Len(jobs) -> Slots] : OwnedBy(own)
  /\ AllSound

-----------------------------------------------------------------------------
(* Facts the proofs keep needing.                                          *)

LEMMA Appended ==
  ASSUME NEW S, NEW q \in Seq(S), NEW u \in S
  PROVE  /\ Append(q, u) \in Seq(S)
         /\ Len(Append(q, u)) = Len(q) + 1
         /\ \A k \in 1 .. Len(q) : Append(q, u)[k] = q[k]
         /\ Append(q, u)[Len(q) + 1] = u
  OBVIOUS

LEMMA Consumed ==
  ASSUME NEW S, NEW q \in Seq(S), q # <<>>
  PROVE  /\ Len(q) \in Nat \ {0}
         /\ Head(q) = q[1]
         /\ Head(q) \in S
         /\ Tail(q) \in Seq(S)
         /\ Len(Tail(q)) = Len(q) - 1
         /\ \A k \in 1 .. Len(q) - 1 : Tail(q)[k] = q[k + 1]
  OBVIOUS

LEMMA NoUnits == ASSUME NEW S PROVE <<>> \in Seq(S) /\ Len(<<>>) = 0
  OBVIOUS

LEMMA IsEmpty == ASSUME NEW S, NEW q \in Seq(S), Len(q) = 0 PROVE q = <<>>
  OBVIOUS

(* A step that changes slot i, the parent and the jobs of slot i only.     *)
LEMMA SlotStep ==
  ASSUME Typed, AllSound,
         NEW own \in [1 .. Len(jobs) -> Slots], OwnedBy(own),
         NEW i \in Slots, NEW t, slot' = [slot EXCEPT ![i] = t],
         NEW new \in [1 .. Len(jobs') -> Slots],
         Len(jobs') >= Len(jobs), \A j \in 1 .. Len(jobs) : new[j] = own[j],
         jobs' \in Seq(JobType), Len(jobs') <= MaxJobs,
         \A j \in 1 .. Len(jobs) : own[j] # i => jobs'[j] = jobs[j],
         crashes' \in 0 .. MaxCrashes,
         ParentGood(new, parent'),
         \/ parent' = parent
         \/ \A j \in Slots \ {i} : Mode(parent, j) = "away" /\ Mode(parent', j) = "away",
         SlotGood(new, t, i),
         Sound(t, Mode(parent', i), parent', jobs')
  PROVE  PInv'
<1>1. t \in SlotType
  BY DEF SlotGood
<1>2. slot' \in [Slots -> SlotType] /\ slot'[i] = t
      /\ \A j \in Slots \ {i} : slot'[j] = slot[j]
  BY <1>1 DEF Typed
<1>3. Typed'
  BY <1>2 DEF Typed
<1>4. Len(jobs) \in Nat /\ Len(jobs') \in Nat
  BY DEF Typed
<1>5. \A job, j : Mine(own, job, j) => Mine(new, job, j)
  BY <1>4 DEF Mine
<1>6. ASSUME NEW j \in Slots \ {i}
      PROVE  SlotGood(new, slot'[j], j) /\ Sound(slot'[j], Mode(parent', j), parent', jobs')
  <2>1. PICK s : s = slot[j]
    OBVIOUS
  <2>2. slot'[j] = s
    BY <1>2, <2>1
  <2>3. SlotGood(own, s, j)
    BY <2>1 DEF OwnedBy
  <2>4. SlotGood(new, s, j)
    BY <2>3, <1>5 DEF SlotGood, WorkerGood, StreamGood
  <2>5. Sound(s, Mode(parent, j), parent, jobs)
    BY <2>1 DEF AllSound
  <2>6. s.job # 0 => jobs'[s.job] = jobs[s.job]
    BY <2>3 DEF SlotGood, Mine
  <2>7. ASSUME s.job # 0
        PROVE  Busy(s, Mode(parent, j), parent, jobs[s.job]) =>
                 Busy(s, Mode(parent', j), parent', jobs'[s.job])
    <3>1. PICK J : J = jobs[s.job]
      OBVIOUS
    <3>2. jobs'[s.job] = J
      BY <2>6, <2>7, <3>1
    <3>3. CASE parent' = parent
      BY <3>1, <3>2, <3>3, Zenon
    <3>4. CASE Mode(parent, j) = "away" /\ Mode(parent', j) = "away"
      <4>1. Busy(s, "away", parent, J) => Busy(s, "away", parent', J)
        BY DEF Busy, ParentOK, Taken, Sent, ChildOK
      <4> QED
        BY <4>1, <3>1, <3>2, <3>4
    <3> QED
      BY <3>3, <3>4
  <2>8. Blank(s, Mode(parent, j)) => Blank(s, Mode(parent', j))
    BY DEF Blank
  <2>9. Sound(s, Mode(parent', j), parent', jobs')
    BY <2>5, <2>7, <2>8 DEF Sound
  <2> QED
    BY <2>2, <2>4, <2>9
<1>7. \A j \in Slots : SlotGood(new, slot'[j], j)
  BY <1>2, <1>6
<1>8. AllSound'
  BY <1>2, <1>6 DEF AllSound
<1>9. OwnedBy(new)'
  BY <1>7 DEF OwnedBy
<1> QED
  BY <1>3, <1>8, <1>9 DEF PInv

(* The same when no request is added or changed.                           *)
LEMMA QuietStep ==
  ASSUME Typed, AllSound,
         NEW own \in [1 .. Len(jobs) -> Slots], OwnedBy(own),
         NEW i \in Slots, NEW t, slot' = [slot EXCEPT ![i] = t],
         jobs' = jobs, crashes' \in 0 .. MaxCrashes,
         ParentGood(own, parent'),
         \/ parent' = parent
         \/ \A j \in Slots \ {i} : Mode(parent, j) = "away" /\ Mode(parent', j) = "away",
         SlotGood(own, t, i),
         Sound(t, Mode(parent', i), parent', jobs)
  PROVE  PInv'
<1>1. Len(jobs') = Len(jobs) /\ Len(jobs) \in Nat /\ jobs' \in Seq(JobType)
      /\ Len(jobs') <= MaxJobs
  BY DEF Typed
<1>2. own \in [1 .. Len(jobs') -> Slots]
  BY <1>1
<1>3. Len(jobs') >= Len(jobs)
  BY <1>1
<1>4. Sound(t, Mode(parent', i), parent', jobs')
  OBVIOUS
<1> QED
  BY <1>1, <1>2, <1>3, <1>4, SlotStep

(* What the invariant says of one slot.                                    *)
LEMMA AtSlot ==
  ASSUME Typed, AllSound,
         NEW own \in [1 .. Len(jobs) -> Slots], OwnedBy(own), NEW i \in Slots
  PROVE  /\ slot[i] \in SlotType
         /\ SlotGood(own, slot[i], i)
         /\ Sound(slot[i], Mode(parent, i), parent, jobs)
         /\ slot[i].job # 0 => slot[i].job \in 1 .. Len(jobs) /\ jobs[slot[i].job] \in JobType
         /\ parent \in ParentType
         /\ ParentGood(own, parent)
<1>1. SlotGood(own, slot[i], i) /\ ParentGood(own, parent)
  BY DEF OwnedBy
<1>2. slot[i].job # 0 => slot[i].job \in 1 .. Len(jobs)
  BY <1>1 DEF SlotGood, Mine
<1> QED
  BY <1>1, <1>2 DEF AllSound, SlotGood, ParentGood, Typed

(* A busy slot, from its parts.                                            *)
LEMMA IsBusy ==
  ASSUME NEW s, NEW m, NEW p, NEW js, s.job # 0,
         ParentOK(s, m, p, js[s.job]),
         NEW r \in 0 .. js[s.job].len + 1, NEW e \in 0 .. js[s.job].reply + 2,
         UpOK(s, Taken(s, m, p, js[s.job]), js[s.job], e),
         Alive(s) => ChildOK(s, m, p, js[s.job], r, e)
  PROVE  Sound(s, m, p, js)
  BY Zenon DEF Sound, Busy

(* A slot of the calloc, or after a fork, with any user_fd.                *)
LEMMA EmptySlot ==
  ASSUME NEW own, NEW i, NEW t \in SlotType,
         (t.state = "NONE" /\ t.worker = NoWorker) \/ (t.state = "IDLE" /\ t.worker = Fresh),
         t.down = <<>>, t.up = <<>>, t.dgram = <<>>, t.job = 0
  PROVE  /\ SlotGood(own, t, i)
         /\ \A p, js : Sound(t, "away", p, js)
<1>1. CAP >= 0
  BY ProcAssumption
<1>2. t.worker.job = 0 /\ t.worker.pc \in {"none", "head"} /\ t.worker.left = 0
      /\ (t.state = "IDLE" => t.worker.pc = "head") /\ (t.state = "NONE" => t.worker.pc = "none")
  BY DEF NoWorker, Fresh
<1>3. Len(t.down) = 0 /\ Len(t.up) = 0
  OBVIOUS
<1>4. Replies(t.worker)
  BY <1>2 DEF Replies
<1>5. WorkerGood(own, t.worker, i)
  BY <1>2, <1>4 DEF WorkerGood, InRequest, SlotType
<1>5a. StreamGood(own, t.down, i) /\ StreamGood(own, t.up, i)
  BY <1>1, <1>3 DEF StreamGood, SlotType
<1>6. Blank(t, "away")
  BY <1>2 DEF Blank
<1> QED
  BY <1>5, <1>5a, <1>6 DEF SlotGood, Sound

LEMMA CallocSlot ==
  /\ UnusedSlot \in SlotType
  /\ UnusedSlot.state = "NONE" /\ UnusedSlot.worker = NoWorker
  /\ UnusedSlot.down = <<>> /\ UnusedSlot.up = <<>> /\ UnusedSlot.dgram = <<>>
  /\ UnusedSlot.job = 0 /\ UnusedSlot.broken = FALSE
<1>1. NoWorker = [pc |-> "none", fd |-> 0, user_fd |-> 0, left |-> 0, buf |-> <<>>,
                  job |-> 0]
  BY DEF NoWorker, Fresh
<1>2. NoWorker \in WorkerType
  BY <1>1 DEF WorkerType, WorkerPCs, FdValues
<1> QED
  BY <1>2 DEF SlotType, States, FdValues, UnusedSlot

LEMMA ForkedSlot ==
  ASSUME NEW s \in SlotType, NEW t, t = ShprocFork(s)
  PROVE  /\ t \in SlotType
         /\ t.state = "IDLE" /\ t.worker = Fresh /\ t.user_fd = s.user_fd
         /\ t.down = <<>> /\ t.up = <<>> /\ t.dgram = <<>>
         /\ t.job = 0 /\ t.broken = FALSE
<1>1. Fresh \in WorkerType
  BY DEF Fresh, WorkerType, WorkerPCs, FdValues
<1>2. PICK w \in WorkerType : w = Fresh
  BY <1>1
<1>3. PICK u \in SlotType : u = UnusedSlot
  BY CallocSlot
<1>4. PICK f \in FdValues : f = s.user_fd
  BY DEF SlotType
<1>5. t = [u EXCEPT !.state = "IDLE", !.user_fd = f, !.worker = w]
  BY <1>2, <1>3, <1>4, Zenon DEF ShprocFork
<1>6. u.down = <<>> /\ u.up = <<>> /\ u.dgram = <<>> /\ u.job = 0 /\ u.broken = FALSE
  BY <1>3, CallocSlot
<1>7. t \in SlotType
  BY <1>5 DEF SlotType, States
<1> QED
  BY <1>2, <1>4, <1>5, <1>6, <1>7 DEF SlotType

LEMMA StoppedSlot ==
  ASSUME NEW s \in SlotType, NEW t, t = Stopped(s)
  PROVE  \/ t = s
         \/ /\ t \in SlotType
            /\ t.state = "NONE" /\ t.worker = NoWorker /\ t.user_fd = s.user_fd
            /\ t.down = <<>> /\ t.up = <<>> /\ t.dgram = <<>>
            /\ t.job = 0 /\ t.broken = FALSE
<1>1. PICK u \in SlotType : u = UnusedSlot
  BY CallocSlot
<1>2. PICK f \in FdValues : f = s.user_fd
  BY DEF SlotType
<1>3. t = s \/ t = [u EXCEPT !.user_fd = f]
  BY <1>1, <1>2, Zenon DEF Stopped
<1>4. /\ u.state = "NONE" /\ u.worker = NoWorker
      /\ u.down = <<>> /\ u.up = <<>> /\ u.dgram = <<>> /\ u.job = 0 /\ u.broken = FALSE
  BY <1>1, CallocSlot
<1> QED
  BY <1>2, <1>3, <1>4 DEF SlotType

LEMMA ParentReady ==
  /\ Ready.pc = "ready" /\ Ready.at = 0 /\ Ready.left = 0 /\ Ready.job = 0
  /\ Ready \in ParentType
  /\ \A own : ParentGood(own, Ready)
  /\ \A j : Mode(Ready, j) = "away"
<1>1. Ready.pc = "ready" /\ Ready.at = 0 /\ Ready.left = 0 /\ Ready.job = 0
  BY DEF Ready
<1>2. Ready \in ParentType
  BY ProcAssumption DEF Ready, ParentType
<1> QED
  BY <1>1, <1>2 DEF ParentGood, Mode

LEMMA InitInv == Init => PInv
<1> SUFFICES ASSUME Init PROVE PInv
  OBVIOUS
<1>1. PICK u \in SlotType : u = UnusedSlot
  BY CallocSlot
<1>2. /\ u.state = "NONE" /\ u.worker = NoWorker /\ u.down = <<>> /\ u.up = <<>>
      /\ u.dgram = <<>> /\ u.job = 0
  BY <1>1, CallocSlot
<1>3. ASSUME NEW own, NEW i PROVE SlotGood(own, u, i)
  <2>1. (u.state = "NONE" /\ u.worker = NoWorker) \/ (u.state = "IDLE" /\ u.worker = Fresh)
    BY <1>2
  <2> QED
    BY <1>2, <2>1, EmptySlot
<1>4. ASSUME NEW p, NEW js PROVE Sound(u, "away", p, js)
  <2>1. Blank(u, "away")
    BY <1>2 DEF Blank, NoWorker, Fresh
  <2> QED
    BY <1>2, <2>1 DEF Sound
<1>5. jobs \in Seq(JobType) /\ Len(jobs) = 0
  BY DEF Init
<1>6. Typed
  BY <1>1, <1>5, ProcAssumption DEF Typed, Init
<1>7. AllSound
  BY <1>1, <1>4, ParentReady DEF AllSound, Init
<1>8. PICK own : own \in [1 .. Len(jobs) -> Slots]
  <2>1. [j \in {} |-> 0] \in [1 .. Len(jobs) -> Slots]
    BY <1>5
  <2> QED
    BY <2>1
<1>9. OwnedBy(own)
  BY <1>1, <1>3, <1>8, ParentReady DEF OwnedBy, Init
<1> QED
  BY <1>6, <1>7, <1>8, <1>9 DEF PInv

-----------------------------------------------------------------------------
(* Starting and stopping workers.                                          *)

(* A slot without a request, wherever the parent is idle.                  *)
LEMMA Renewed ==
  ASSUME PInv, parent.pc = "ready", UNCHANGED <<parent, jobs, crashes>>,
         NEW i \in Slots, NEW t \in SlotType, slot' = [slot EXCEPT ![i] = t],
         (t.state = "NONE" /\ t.worker = NoWorker) \/ (t.state = "IDLE" /\ t.worker = Fresh),
         t.down = <<>>, t.up = <<>>, t.dgram = <<>>, t.job = 0
  PROVE  PInv'
<1>1. PICK own \in [1 .. Len(jobs) -> Slots] : OwnedBy(own)
  BY DEF PInv
<1>2. Typed /\ AllSound
  BY DEF PInv
<1>3. SlotGood(own, t, i) /\ Sound(t, "away", parent', jobs)
  BY EmptySlot
<1>4. Mode(parent', i) = "away"
  BY DEF Mode
<1>5. ParentGood(own, parent') /\ parent' = parent /\ jobs' = jobs
  BY <1>1 DEF OwnedBy
<1>6. crashes' \in 0 .. MaxCrashes
  BY <1>2 DEF Typed
<1>7. Sound(t, Mode(parent', i), parent', jobs)
  BY <1>3, <1>4
<1> QED
  BY <1>1, <1>2, <1>3, <1>5, <1>6, <1>7, QuietStep

LEMMA Starts == PInv /\ ShprocStart => PInv'
<1> SUFFICES ASSUME PInv, ShprocStart PROVE PInv'
  OBVIOUS
<1>1. PICK i \in Slots : slot' = [slot EXCEPT ![i] = ShprocFork(slot[i])]
  BY DEF ShprocStart, ShprocGet
<1>2. slot[i] \in SlotType
  BY DEF PInv, Typed
<1>3. PICK t : t = ShprocFork(slot[i])
  OBVIOUS
<1>4. /\ t \in SlotType
      /\ t.state = "IDLE" /\ t.worker = Fresh
      /\ t.down = <<>> /\ t.up = <<>> /\ t.dgram = <<>> /\ t.job = 0
  BY <1>2, <1>3, ForkedSlot
<1>5. slot' = [slot EXCEPT ![i] = t]
  BY <1>1, <1>3, Zenon
<1>6. parent.pc = "ready" /\ UNCHANGED <<parent, jobs, crashes>>
  BY DEF ShprocStart
<1> QED
  BY <1>4, <1>5, <1>6, Renewed

LEMMA Stops == ASSUME NEW i \in Slots PROVE PInv /\ ShprocStop(i) => PInv'
<1> SUFFICES ASSUME PInv, ShprocStop(i) PROVE PInv'
  OBVIOUS
<1>1. slot \in [Slots -> SlotType]
  BY DEF PInv, Typed
<1>2. PICK t : t = Stopped(slot[i])
  OBVIOUS
<1>3. slot' = [slot EXCEPT ![i] = t]
  BY <1>2, Zenon DEF ShprocStop
<1>4. parent.pc = "ready" /\ UNCHANGED <<parent, jobs, crashes>>
  BY DEF ShprocStop
<1>5. CASE t = slot[i]
  <2>1. slot' = slot
    BY <1>1, <1>3, <1>5
  <2> QED
    BY <2>1, <1>4 DEF PInv, Typed, OwnedBy, AllSound
<1>6. CASE /\ t \in SlotType
           /\ t.state = "NONE" /\ t.worker = NoWorker
           /\ t.down = <<>> /\ t.up = <<>> /\ t.dgram = <<>> /\ t.job = 0
  <2>1. (t.state = "NONE" /\ t.worker = NoWorker) \/ (t.state = "IDLE" /\ t.worker = Fresh)
    BY <1>6
  <2> QED
    BY <2>1, <1>3, <1>4, <1>6, Renewed
<1>7. slot[i] \in SlotType
  BY <1>1
<1> QED
  BY <1>2, <1>5, <1>6, <1>7, StoppedSlot

LEMMA Shuts == PInv /\ ShprocShutdown => PInv'
<1> SUFFICES ASSUME PInv, ShprocShutdown PROVE PInv'
  OBVIOUS
<1>1. Typed /\ AllSound
  BY DEF PInv
<1>2. PICK own \in [1 .. Len(jobs) -> Slots] : OwnedBy(own)
  BY DEF PInv
<1>3. parent.pc = "ready" /\ UNCHANGED <<parent, jobs, crashes>>
      /\ slot' = [i \in Slots |-> Stopped(slot[i])]
  BY DEF ShprocShutdown
<1>4. ASSUME NEW i \in Slots
      PROVE  SlotGood(own, slot'[i], i) /\ Sound(slot'[i], Mode(parent, i), parent, jobs)
  <2>1. PICK t : t = Stopped(slot[i])
    OBVIOUS
  <2>2. slot'[i] = t
    BY <1>3, <2>1
  <2>3. CASE t = slot[i]
    BY <1>1, <1>2, <2>2, <2>3 DEF OwnedBy, AllSound
  <2>4. CASE /\ t \in SlotType
             /\ t.state = "NONE" /\ t.worker = NoWorker
             /\ t.down = <<>> /\ t.up = <<>> /\ t.dgram = <<>> /\ t.job = 0
    <3>0. (t.state = "NONE" /\ t.worker = NoWorker) \/ (t.state = "IDLE" /\ t.worker = Fresh)
      BY <2>4
    <3>1. SlotGood(own, t, i) /\ Sound(t, "away", parent, jobs)
      BY <3>0, <2>4, EmptySlot
    <3>2. Mode(parent, i) = "away"
      BY <1>3 DEF Mode
    <3> QED
      BY <2>2, <3>1, <3>2
  <2>5. slot[i] \in SlotType
    BY <1>1 DEF Typed
  <2> QED
    BY <2>1, <2>3, <2>4, <2>5, StoppedSlot
<1>5. slot' \in [Slots -> SlotType]
  BY <1>3, <1>4 DEF SlotGood
<1>6. Typed'
  BY <1>1, <1>3, <1>5 DEF Typed
<1>7. AllSound'
  BY <1>3, <1>4 DEF AllSound
<1>8. OwnedBy(own)'
  BY <1>2, <1>3, <1>4 DEF OwnedBy
<1> QED
  BY <1>3, <1>6, <1>7, <1>8 DEF PInv

-----------------------------------------------------------------------------
(* Streams.                                                                *)

LEMMA StreamAppend ==
  ASSUME NEW own, NEW i, NEW q, StreamGood(own, q, i), HasRoom(q),
         NEW u \in Unit, Mine(own, u.job, i)
  PROVE  StreamGood(own, Append(q, u), i)
<1>1. q \in Seq(Unit) /\ Len(q) \in Nat /\ Len(q) < CAP
  BY DEF StreamGood, HasRoom
<1>2. PICK d \in Seq(Unit) : d = Append(q, u)
  <2>1. Append(q, u) \in Seq(Unit)
    BY <1>1
  <2> QED
    BY <2>1, Zenon
<1>3. Len(d) = Len(q) + 1 /\ (\A k \in 1 .. Len(q) : d[k] = q[k]) /\ d[Len(q) + 1] = u
  BY <1>1, <1>2, Appended
<1>4. \A k \in 1 .. Len(d) : Mine(own, d[k].job, i)
  BY <1>1, <1>3 DEF StreamGood
<1>5. Len(d) <= CAP
  BY <1>1, <1>3, ProcAssumption
<1> QED
  BY <1>2, <1>4, <1>5 DEF StreamGood

LEMMA StreamTail ==
  ASSUME NEW own, NEW i, NEW q, StreamGood(own, q, i), q # <<>>
  PROVE  /\ StreamGood(own, Tail(q), i)
         /\ Head(q) \in Unit
         /\ Mine(own, Head(q).job, i)
<1>1. q \in Seq(Unit) /\ Len(q) <= CAP
  BY DEF StreamGood
<1>2. PICK d \in Seq(Unit) : d = Tail(q)
  <2>1. Tail(q) \in Seq(Unit)
    BY <1>1
  <2> QED
    BY <2>1, Zenon
<1>3. /\ Len(q) \in Nat \ {0} /\ Len(d) = Len(q) - 1
      /\ \A k \in 1 .. Len(q) - 1 : d[k] = q[k + 1]
      /\ Head(q) = q[1] /\ Head(q) \in Unit
  BY <1>1, <1>2, Consumed
<1>4. \A k \in 1 .. Len(d) : Mine(own, d[k].job, i)
  BY <1>3 DEF StreamGood
<1>5. Len(d) <= CAP
  BY <1>1, <1>3, ProcAssumption
<1>6. Mine(own, Head(q).job, i)
  BY <1>3 DEF StreamGood
<1> QED
  BY <1>2, <1>3, <1>4, <1>5, <1>6 DEF StreamGood

(* A slot on which a frame is cut short now.                               *)
LEMMA CutShort ==
  ASSUME NEW own, NEW i, NEW s, SlotGood(own, s, i), NEW t, t = [s EXCEPT !.broken = TRUE]
  PROVE  SlotGood(own, t, i) /\ \A m, p, js : Sound(t, m, p, js)
<1>1. s \in SlotType
  BY DEF SlotGood
<1>2. /\ t \in SlotType /\ t.job = s.job /\ t.worker = s.worker /\ t.down = s.down
      /\ t.up = s.up /\ t.broken = TRUE
  BY <1>1 DEF SlotType
<1> QED
  BY <1>2 DEF SlotGood, Sound

(* Whatever job a slot owns, its units are typed.                          *)
LEMMA OwnedUnits ==
  ASSUME Typed, NEW own \in [1 .. Len(jobs) -> Slots], NEW i, NEW job, Mine(own, job, i)
  PROVE  /\ job \in 1 .. Len(jobs) /\ jobs[job] \in JobType
         /\ job \in Nat /\ job # 0
         /\ Data(job) \in Unit /\ Data(job).job = job
         /\ \A st \in States, n \in Sizes \union {0}, fd \in FdValues :
              /\ Header(st, n, fd, job) \in Unit
              /\ Header(st, n, fd, job).job = job
<1>1. job \in 1 .. Len(jobs) /\ job \in 0 .. MaxJobs
  BY ProcAssumption DEF Mine, Typed
<1> QED
  BY <1>1 DEF Typed, Data, Header, Unit, States, FdValues

-----------------------------------------------------------------------------
(* The parent writes a request.                                            *)


(* The parent at work on slot i.                                           *)
LEMMA AtWork ==
  ASSUME PInv, parent.pc \in {"write", "head", "data", "respond"}
  PROVE  \E own \in [1 .. Len(jobs) -> Slots], i \in Slots, s \in SlotType, p \in ParentType :
           /\ Typed /\ AllSound /\ OwnedBy(own)
           /\ p = parent /\ i = p.at /\ s = slot[i]
           /\ SlotGood(own, s, i) /\ ParentGood(own, p)
           /\ Sound(s, Mode(p, i), p, jobs)
           /\ \A j \in Slots \ {i} : Mode(p, j) = "away"
<1>1. Typed /\ AllSound
  BY DEF PInv
<1>2. PICK own \in [1 .. Len(jobs) -> Slots] : OwnedBy(own)
  BY DEF PInv
<1>3. PICK p \in ParentType : p = parent /\ ParentGood(own, p)
  BY <1>2 DEF OwnedBy, ParentGood
<1>4. PICK i \in Slots : i = p.at
  BY <1>3 DEF ParentGood
<1>5. PICK s \in SlotType : s = slot[i]
  BY <1>1 DEF Typed
<1>6. \A j \in Slots \ {i} : Mode(p, j) = "away"
  BY <1>4 DEF Mode
<1>7. SlotGood(own, s, i) /\ Sound(s, Mode(p, i), p, jobs)
  BY <1>1, <1>2, <1>3, <1>5, AtSlot
<1> QED
  BY <1>1, <1>2, <1>3, <1>4, <1>5, <1>6, <1>7

(* A busy slot, taken apart.                                               *)
LEMMA BusyParts ==
  ASSUME Typed, NEW own \in [1 .. Len(jobs) -> Slots],
         NEW i, NEW s, NEW m, NEW p, SlotGood(own, s, i),
         Sound(s, m, p, jobs), ~s.broken, s.job # 0
  PROVE  \E J \in JobType, r \in Nat, e \in Nat :
           /\ J = jobs[s.job] /\ J.len \in Nat /\ J.reply \in Nat /\ s.job \in 1 .. Len(jobs)
           /\ ParentOK(s, m, p, J)
           /\ r <= J.len + 1 /\ e <= J.reply + 2
           /\ UpOK(s, Taken(s, m, p, J), J, e)
           /\ Alive(s) => ChildOK(s, m, p, J, r, e)
<1>1. Busy(s, m, p, jobs[s.job])
  BY DEF Sound
<1>2. s.job \in 1 .. Len(jobs)
  BY DEF SlotGood, Mine
<1>3. PICK J \in JobType : J = jobs[s.job]
  BY <1>2 DEF Typed
<1>4. J.len \in Nat /\ J.reply \in Nat
  BY ProcAssumption DEF JobType
<1>5. Busy(s, m, p, J)
  BY <1>1, <1>3
<1>6. PICK r \in 0 .. J.len + 1, e \in 0 .. J.reply + 2 :
           /\ UpOK(s, Taken(s, m, p, J), J, e)
           /\ Alive(s) => ChildOK(s, m, p, J, r, e)
  BY <1>5, Zenon DEF Busy
<1>7. ParentOK(s, m, p, J)
  BY <1>5 DEF Busy
<1>8. r \in Nat /\ e \in Nat /\ r <= J.len + 1 /\ e <= J.reply + 2
  BY <1>4, <1>6
<1> QED
  BY <1>2, <1>3, <1>4, <1>6, <1>7, <1>8

(* ... and put together again.                                             *)
LEMMA Rebuilt ==
  ASSUME NEW s, NEW m, NEW p, NEW js, NEW J, J = js[s.job], s.job # 0,
         J.len \in Nat, J.reply \in Nat, NEW r \in Nat, NEW e \in Nat,
         r <= J.len + 1, e <= J.reply + 2,
         ParentOK(s, m, p, J), UpOK(s, Taken(s, m, p, J), J, e),
         Alive(s) => ChildOK(s, m, p, J, r, e)
  PROVE  Sound(s, m, p, js)
<1>1. r \in 0 .. J.len + 1 /\ e \in 0 .. J.reply + 2
  OBVIOUS
<1>2. Busy(s, m, p, J)
  BY <1>1, Zenon DEF Busy
<1> QED
  BY <1>2 DEF Sound

LEMMA Writes == PInv /\ ShprocPushData => PInv'
<1> SUFFICES ASSUME PInv, ShprocPushData PROVE PInv'
  OBVIOUS
<1>1. PICK own \in [1 .. Len(jobs) -> Slots], i \in Slots, s \in SlotType, p \in ParentType :
           /\ Typed /\ AllSound /\ OwnedBy(own)
           /\ p = parent /\ i = p.at /\ s = slot[i]
           /\ SlotGood(own, s, i) /\ ParentGood(own, p)
           /\ Sound(s, Mode(p, i), p, jobs)
           /\ \A j \in Slots \ {i} : Mode(p, j) = "away"
  BY AtWork DEF ShprocPushData
<1>2. p.pc = "write" /\ p.left > 0 /\ p.left \in Nat /\ jobs' = jobs /\ crashes' = crashes
  BY <1>1 DEF ShprocPushData, ParentType
<1>3. Mode(p, i) = "write"
  BY <1>1, <1>2 DEF Mode
<1>4. Sound(s, "write", p, jobs)
  BY <1>1, <1>3
<1>5. Mine(own, p.job, i)
  BY <1>1, <1>2 DEF ParentGood
<1>6. crashes' \in 0 .. MaxCrashes
  BY <1>1, <1>2 DEF Typed
<1>7. CASE Alive(s) /\ HasRoom(s.down)
  <2>1. PICK q : q = [p EXCEPT !.left = p.left - 1]
    OBVIOUS
  <2>2. /\ q \in ParentType /\ q.left = p.left - 1 /\ q.left \in Nat
        /\ q.pc = p.pc /\ q.at = p.at /\ q.job = p.job
    <3>1. PICK n \in Nat : n = p.left - 1
      BY <1>2
    <3>2. q = [p EXCEPT !.left = n]
      BY <2>1, <3>1, Zenon
    <3> QED
      BY <3>1, <3>2 DEF ParentType
  <2>3. parent' = q
    BY <1>1, <1>7, <2>1 DEF ShprocPushData
  <2>4. PICK d : d = Append(s.down, Data(p.job))
    OBVIOUS
  <2>5. PICK t : t = [s EXCEPT !.down = d]
    OBVIOUS
  <2>6. slot' = [slot EXCEPT ![i] = t]
    BY <1>1, <1>7, <2>4, <2>5 DEF ShprocPushData
  <2>7. Data(p.job) \in Unit /\ Mine(own, Data(p.job).job, i)
    BY <1>1, <1>5, OwnedUnits
  <2>8. StreamGood(own, s.down, i)
    BY <1>1 DEF SlotGood
  <2>9. StreamGood(own, d, i)
    BY <1>7, <2>4, <2>7, <2>8, StreamAppend
  <2>10. d \in Seq(Unit)
    BY <2>9 DEF StreamGood
  <2>11. /\ t \in SlotType /\ t.down = d /\ t.job = s.job /\ t.worker = s.worker
         /\ t.up = s.up /\ t.broken = s.broken /\ t.state = s.state
         /\ t.user_fd = s.user_fd /\ t.dgram = s.dgram
    BY <2>5, <2>10 DEF SlotType
  <2>12. SlotGood(own, t, i)
    BY <1>1, <2>9, <2>11 DEF SlotGood
  <2>13. ParentGood(own, q)
    BY <1>1, <2>2 DEF ParentGood
  <2>14. Mode(q, i) = "write" /\ \A j \in Slots \ {i} : Mode(q, j) = "away"
    BY <1>1, <1>2, <2>2 DEF Mode
  <2>15. ASSUME ~s.broken PROVE Sound(t, "write", q, jobs)
    <3>1. s.job # 0
      BY <1>4, <2>15 DEF Sound, Blank
    <3>2. PICK J \in JobType, r \in Nat, e \in Nat :
              /\ J = jobs[s.job] /\ J.len \in Nat /\ J.reply \in Nat /\ s.job \in 1 .. Len(jobs)
              /\ ParentOK(s, "write", p, J)
              /\ r <= J.len + 1 /\ e <= J.reply + 2
              /\ UpOK(s, Taken(s, "write", p, J), J, e)
              /\ Alive(s) => ChildOK(s, "write", p, J, r, e)
      BY <1>1, <1>4, <2>15, <3>1, BusyParts
    <3>3. p.job = s.job /\ s.state = "IDLE" /\ p.left <= J.len
      BY <3>2 DEF ParentOK
    <3>4. ParentOK(t, "write", q, J)
      BY <1>2, <2>2, <2>11, <3>2, <3>3 DEF ParentOK
    <3>5. UpOK(t, Taken(t, "write", q, J), J, e)
      BY <3>2, <2>11 DEF UpOK, Taken
    <3>6. DownOK(s, Sent("write", p, J), J, r) /\ WorkerOK(s, J, r, e) /\ DgramOK(s, "write", e)
      BY <1>7, <3>2 DEF ChildOK
    <3>7. Sent("write", q, J) = Sent("write", p, J) + 1 /\ Sent("write", p, J) \in Nat \ {0}
          /\ Sent("write", q, J) <= 1 + J.len
      <4>1. J.len \in Nat
        BY <3>2
      <4> QED
        BY <1>2, <2>2, <3>3, <4>1 DEF Sent
    <3>8. DownOK(t, Sent("write", q, J), J, r)
      <4>1. PICK n \in Nat \ {0} : n = Sent("write", p, J)
        BY <3>7
      <4>2. r \in Nat /\ s.down \in Seq(Unit)
        BY <2>8 DEF StreamGood
      <4>3. r <= n /\ Len(s.down) = n - r
            /\ \A k \in 1 .. n - r : s.down[k] = DownUnit(s.job, J.len, s.user_fd, r + k)
        BY <3>6, <4>1 DEF DownOK
      <4>4. Len(d) = Len(s.down) + 1 /\ (\A k \in 1 .. Len(s.down) : d[k] = s.down[k])
            /\ d[Len(s.down) + 1] = Data(s.job)
        BY <2>4, <2>7, <4>2, <3>3, Appended
      <4>5. DownUnit(s.job, J.len, s.user_fd, n + 1) = Data(s.job)
        BY DEF DownUnit
      <4>6. \A k \in 1 .. (n + 1) - r : d[k] = DownUnit(s.job, J.len, s.user_fd, r + k)
        BY <4>2, <4>3, <4>4, <4>5
      <4>7. Sent("write", q, J) = n + 1
        BY <3>7, <4>1
      <4>8. t.down = d /\ t.job = s.job /\ t.user_fd = s.user_fd
        BY <2>11
      <4>9. r <= n + 1 /\ Len(d) = (n + 1) - r
        BY <4>2, <4>3, <4>4
      <4>10. DownOK(t, n + 1, J, r)
        BY <4>6, <4>8, <4>9 DEF DownOK
      <4> QED
        BY <4>7, <4>10
    <3>9. WorkerOK(t, J, r, e) /\ DgramOK(t, "write", e)
      BY <3>6, <2>11 DEF WorkerOK, DgramOK
    <3>10. ChildOK(t, "write", q, J, r, e)
      BY <3>8, <3>9 DEF ChildOK
    <3>11. J = jobs[t.job] /\ t.job # 0
      BY <2>11, <3>1, <3>2
    <3> QED
      BY <3>2, <3>4, <3>5, <3>10, <3>11, Rebuilt
  <2>16. Sound(t, Mode(parent', i), parent', jobs)
    BY <2>3, <2>11, <2>14, <2>15 DEF Sound
  <2>17. ParentGood(own, parent') /\ \A j \in Slots \ {i} : Mode(parent, j) = "away" /\ Mode(parent', j) = "away"
    BY <1>1, <2>3, <2>13, <2>14
  <2> QED
    BY <1>1, <1>2, <1>6, <2>6, <2>12, <2>16, <2>17, QuietStep
<1>8. CASE ~(Alive(s) /\ HasRoom(s.down))
  <2>1. PICK t : t = [s EXCEPT !.broken = TRUE]
    OBVIOUS
  <2>2. parent' = Ready /\ slot' = [slot EXCEPT ![i] = t]
    BY <1>1, <1>8, <2>1 DEF ShprocPushData
  <2>3. SlotGood(own, t, i) /\ Sound(t, Mode(parent', i), parent', jobs)
    BY <1>1, <2>1, CutShort
  <2>4. ParentGood(own, parent') /\ \A j \in Slots \ {i} : Mode(parent, j) = "away" /\ Mode(parent', j) = "away"
    BY <1>1, <2>2, ParentReady
  <2> QED
    BY <1>1, <1>2, <1>6, <2>2, <2>3, <2>4, QuietStep
<1> QED
  BY <1>7, <1>8

LEMMA Schedules == PInv /\ ShprocPushEnd => PInv'
<1> SUFFICES ASSUME PInv, ShprocPushEnd PROVE PInv'
  OBVIOUS
<1>1. PICK own \in [1 .. Len(jobs) -> Slots], i \in Slots, s \in SlotType, p \in ParentType :
           /\ Typed /\ AllSound /\ OwnedBy(own)
           /\ p = parent /\ i = p.at /\ s = slot[i]
           /\ SlotGood(own, s, i) /\ ParentGood(own, p)
           /\ Sound(s, Mode(p, i), p, jobs)
           /\ \A j \in Slots \ {i} : Mode(p, j) = "away"
  BY AtWork DEF ShprocPushEnd
<1>2. p.pc = "write" /\ p.left = 0 /\ jobs' = jobs /\ crashes' = crashes /\ parent' = Ready
  BY <1>1 DEF ShprocPushEnd
<1>3. Mode(p, i) = "write"
  BY <1>1, <1>2 DEF Mode
<1>4. Sound(s, "write", p, jobs)
  BY <1>1, <1>3
<1>5. PICK g : g = IF s.user_fd # 0 /\ Alive(s) THEN Append(s.dgram, s.user_fd) ELSE s.dgram
  OBVIOUS
<1>6. crashes' \in 0 .. MaxCrashes
  BY <1>1, <1>2 DEF Typed
<1>7. g \in Seq(Fds)
  <2>1. s.dgram \in Seq(Fds) /\ (s.user_fd # 0 => s.user_fd \in Fds)
    BY DEF SlotType, FdValues
  <2> QED
    BY <1>5, <2>1, Appended
<1>8. PICK t : t = [s EXCEPT !.state = "PEND", !.dgram = g]
  OBVIOUS
<1>9. slot' = [slot EXCEPT ![i] = t]
  BY <1>1, <1>5, <1>8 DEF ShprocPushEnd, Typed, SlotType
<1>10. /\ t \in SlotType /\ t.down = s.down /\ t.job = s.job /\ t.worker = s.worker
       /\ t.up = s.up /\ t.broken = s.broken /\ t.state = "PEND"
       /\ t.user_fd = s.user_fd /\ t.dgram = g
  BY <1>7, <1>8 DEF SlotType, States
<1>11. SlotGood(own, t, i)
  BY <1>1, <1>10 DEF SlotGood
<1>12. ASSUME ~s.broken PROVE Sound(t, "away", Ready, jobs)
  <2>1. s.job # 0
    BY <1>4, <1>12 DEF Sound, Blank
  <2>2. PICK J \in JobType, r \in Nat, e \in Nat :
            /\ J = jobs[s.job] /\ J.len \in Nat /\ J.reply \in Nat /\ s.job \in 1 .. Len(jobs)
            /\ ParentOK(s, "write", p, J)
            /\ r <= J.len + 1 /\ e <= J.reply + 2
            /\ UpOK(s, Taken(s, "write", p, J), J, e)
            /\ Alive(s) => ChildOK(s, "write", p, J, r, e)
    BY <1>1, <1>4, <1>12, <2>1, BusyParts
  <2>3. ParentOK(t, "away", Ready, J)
    BY <1>10, <2>2 DEF ParentOK
  <2>4. UpOK(t, Taken(t, "away", Ready, J), J, e)
    BY <1>10, <2>2 DEF UpOK, Taken
  <2>5. ASSUME Alive(s) PROVE ChildOK(t, "away", Ready, J, r, e)
    <3>1. DownOK(s, Sent("write", p, J), J, r) /\ WorkerOK(s, J, r, e) /\ DgramOK(s, "write", e)
      BY <2>2, <2>5 DEF ChildOK
    <3>2. Sent("away", Ready, J) = Sent("write", p, J)
      BY <1>2, <2>2 DEF Sent
    <3>3. DownOK(t, Sent("away", Ready, J), J, r)
      BY <1>10, <3>1, <3>2 DEF DownOK
    <3>4. WorkerOK(t, J, r, e)
      BY <1>10, <3>1 DEF WorkerOK
    <3>5. DgramOK(t, "away", e)
      <4>1. s.dgram = <<>> /\ (s.user_fd # 0 => e <= 1 /\ s.worker.pc \notin {"run", "reply"})
        BY <3>1 DEF DgramOK
      <4>2. s.user_fd # 0 => g = <<s.user_fd>>
        BY <1>5, <2>5, <4>1
      <4>3. s.user_fd = 0 => g = <<>>
        BY <1>5, <4>1
      <4> QED
        BY <1>10, <4>1, <4>2, <4>3 DEF DgramOK
    <3> QED
      BY <3>3, <3>4, <3>5 DEF ChildOK
  <2>6. Alive(t) => Alive(s)
    BY <1>10 DEF Alive
  <2>7. J = jobs[t.job] /\ t.job # 0
    BY <1>10, <2>1, <2>2
  <2> QED
    BY <2>2, <2>3, <2>4, <2>5, <2>6, <2>7, Rebuilt
<1>13. Mode(Ready, i) = "away"
  BY ParentReady
<1>14. Sound(t, Mode(parent', i), parent', jobs)
  BY <1>2, <1>10, <1>12, <1>13 DEF Sound
<1>15. ParentGood(own, parent') /\ \A j \in Slots \ {i} : Mode(parent, j) = "away" /\ Mode(parent', j) = "away"
  BY <1>1, <1>2, ParentReady
<1> QED
  BY <1>1, <1>2, <1>6, <1>9, <1>11, <1>14, <1>15, QuietStep

(* An idle slot the parent is not working on has nothing left of the last  *)
(* request.                                                                *)
LEMMA IdleSlot ==
  ASSUME Typed, NEW own \in [1 .. Len(jobs) -> Slots],
         NEW i, NEW s, NEW p, SlotGood(own, s, i), Sound(s, "away", p, jobs),
         ~s.broken, s.state = "IDLE", Alive(s)
  PROVE  /\ s.down = <<>> /\ s.up = <<>> /\ s.dgram = <<>>
         /\ s.worker.pc \in {"head", "write"} /\ s.worker.left = 0
<1>1. CASE s.job = 0
  BY <1>1 DEF Sound, Blank, Alive
<1>2. CASE s.job # 0
  <2>1. PICK J \in JobType, r \in Nat, e \in Nat :
            /\ J = jobs[s.job] /\ J.len \in Nat /\ J.reply \in Nat /\ s.job \in 1 .. Len(jobs)
            /\ ParentOK(s, "away", p, J)
            /\ r <= J.len + 1 /\ e <= J.reply + 2
            /\ UpOK(s, Taken(s, "away", p, J), J, e)
            /\ Alive(s) => ChildOK(s, "away", p, J, r, e)
    BY <1>2, BusyParts
  <2>2. J.len \in Nat /\ J.reply \in Nat /\ r <= J.len + 1 /\ e <= J.reply + 2
    BY <2>1
  <2>3. UpOK(s, 2 + J.reply, J, e)
    BY <2>1 DEF Taken
  <2>4. s.up \in Seq(Unit) /\ s.down \in Seq(Unit)
    BY DEF SlotGood, StreamGood
  <2>5. e = 2 + J.reply /\ Len(s.up) = 0
    BY <2>2, <2>3, <2>4 DEF UpOK
  <2>6. s.up = <<>>
    BY <2>4, <2>5, IsEmpty
  <2>7. DownOK(s, 1 + J.len, J, r) /\ WorkerOK(s, J, r, e) /\ DgramOK(s, "away", e)
    BY <2>1 DEF ChildOK, Sent
  <2>8. s.worker.left \in Nat
    BY DEF SlotGood, SlotType, WorkerType
  <2>9. r = J.len + 1 /\ s.worker.pc \in {"head", "write"} /\ s.worker.left = 0
    BY <2>2, <2>5, <2>7, <2>8 DEF WorkerOK
  <2>10. Len(s.down) = 0
    BY <2>2, <2>7, <2>9 DEF DownOK
  <2>11. s.down = <<>>
    BY <2>4, <2>10, IsEmpty
  <2>12. s.dgram = <<>>
    BY <2>2, <2>5, <2>7 DEF DgramOK
  <2> QED
    BY <2>6, <2>9, <2>11, <2>12
<1> QED
  BY <1>1, <1>2

(* The slot once it was pulled.                                            *)
LEMMA PulledSlot ==
  ASSUME Typed, NEW own \in [1 .. Len(jobs) -> Slots],
         NEW i, NEW z, NEW p, SlotGood(own, z, i), Sound(z, "away", p, jobs),
         z.state \in {"NONE", "IDLE"}, NEW fd \in FdValues, NEW s, s = Pulled(z, fd)
  PROVE  /\ SlotGood(own, s, i) /\ s.state = "IDLE"
         /\ s.user_fd = IF fd # 0 THEN fd ELSE z.user_fd
         /\ (~s.broken /\ Alive(s)) =>
              /\ s.down = <<>> /\ s.up = <<>> /\ s.dgram = <<>>
              /\ s.worker.pc \in {"head", "write"} /\ s.worker.left = 0
         /\ ~Alive(s) => Sound(s, "away", p, jobs)
<1>1. z \in SlotType
  BY DEF SlotGood
<1>2. PICK y : y = IF z.state = "NONE" THEN ShprocFork(z) ELSE z
  OBVIOUS
<1>3. SlotGood(own, y, i) /\ Sound(y, "away", p, jobs) /\ y.state = "IDLE" /\ y.user_fd = z.user_fd
  <2>1. CASE z.state = "NONE"
    <3>1. y = ShprocFork(z)
      BY <1>2, <2>1
    <3>2. /\ y \in SlotType /\ y.state = "IDLE" /\ y.worker = Fresh /\ y.user_fd = z.user_fd
          /\ y.down = <<>> /\ y.up = <<>> /\ y.dgram = <<>> /\ y.job = 0
      BY <1>1, <3>1, ForkedSlot
    <3>3. (y.state = "NONE" /\ y.worker = NoWorker) \/ (y.state = "IDLE" /\ y.worker = Fresh)
      BY <3>2
    <3>4. SlotGood(own, y, i) /\ Sound(y, "away", p, jobs)
      BY <3>2, <3>3, EmptySlot
    <3> QED
      BY <3>2, <3>4
  <2>2. CASE z.state = "IDLE"
    <3>1. y = z
      BY <1>2, <2>2
    <3> QED
      BY <2>2, <3>1
  <2> QED
    BY <2>1, <2>2
<1>4. y \in SlotType
  BY <1>3 DEF SlotGood
<1>5. PICK f \in FdValues : f = IF fd # 0 THEN fd ELSE y.user_fd
  BY <1>4 DEF SlotType
<1>6. s = [y EXCEPT !.user_fd = f]
  BY <1>2, <1>4, <1>5 DEF Pulled, SlotType
<1>7. /\ s \in SlotType /\ s.down = y.down /\ s.job = y.job /\ s.worker = y.worker
      /\ s.up = y.up /\ s.broken = y.broken /\ s.state = y.state
      /\ s.user_fd = f /\ s.dgram = y.dgram
  BY <1>4, <1>6 DEF SlotType
<1>8. SlotGood(own, s, i)
  BY <1>3, <1>7 DEF SlotGood
<1>9. Alive(s) = Alive(y)
  BY <1>7 DEF Alive
<1>10. ASSUME ~s.broken, Alive(s)
       PROVE  /\ s.down = <<>> /\ s.up = <<>> /\ s.dgram = <<>>
              /\ s.worker.pc \in {"head", "write"} /\ s.worker.left = 0
  <2>1. ~y.broken /\ Alive(y)
    BY <1>7, <1>9, <1>10
  <2>2. /\ y.down = <<>> /\ y.up = <<>> /\ y.dgram = <<>>
        /\ y.worker.pc \in {"head", "write"} /\ y.worker.left = 0
    BY <1>3, <2>1, IdleSlot
  <2> QED
    BY <1>7, <2>2
<1>11. ASSUME ~Alive(s) PROVE Sound(s, "away", p, jobs)
  <2>1. Blank(y, "away") => Blank(s, "away")
    BY <1>7 DEF Blank
  <2>2. ASSUME NEW J PROVE Busy(y, "away", p, J) => Busy(s, "away", p, J)
    BY <1>7, <1>9, <1>11 DEF Busy, ParentOK, UpOK, Taken
  <2> QED
    BY <1>3, <1>7, <2>1, <2>2 DEF Sound
<1> QED
  BY <1>3, <1>5, <1>7, <1>8, <1>10, <1>11

LEMMA Pushes ==
  ASSUME NEW fd \in FdValues, NEW len \in Sizes
  PROVE  PInv /\ ShprocPush(fd, len) => PInv'
<1> SUFFICES ASSUME PInv, ShprocPush(fd, len) PROVE PInv'
  OBVIOUS
<1>1. Typed /\ AllSound
  BY DEF PInv
<1>2. PICK own \in [1 .. Len(jobs) -> Slots] : OwnedBy(own)
  BY DEF PInv
<1>3. parent.pc = "ready" /\ Len(jobs) < MaxJobs /\ crashes' = crashes
  BY DEF ShprocPush
<1>4. PICK job \in Nat \ {0} : job = Len(jobs) + 1
  BY <1>1 DEF Typed
<1>5. PICK i \in ShprocPull :
        LET s == Pulled(slot[i], fd)
        IN  IF Alive(s) /\ HasRoom(s.down)
            THEN /\ slot' = [slot EXCEPT ![i] =
                      [s EXCEPT !.down = Append(s.down, Header("RUN", len, s.user_fd, job)),
                                !.job = job]]
                 /\ parent' = [Ready EXCEPT !.pc = "write", !.at = i,
                                            !.left = len, !.job = job]
                 /\ jobs' = Append(jobs, [fd |-> fd, len |-> len, reply |-> 0,
                                          answered |-> FALSE])
            ELSE /\ slot' = [slot EXCEPT ![i] = s]
                 /\ UNCHANGED <<parent, jobs>>
  BY <1>4 DEF ShprocPush
<1>6. i \in Slots /\ slot[i].state \in {"NONE", "IDLE"}
  BY <1>5 DEF ShprocPull, ShprocGet
<1>7. SlotGood(own, slot[i], i) /\ Sound(slot[i], Mode(parent, i), parent, jobs)
  BY <1>1, <1>2, <1>6, AtSlot
<1>8. \A j : Mode(parent, j) = "away"
  BY <1>3 DEF Mode
<1>9. Sound(slot[i], "away", parent, jobs)
  BY <1>7, <1>8
<1>10. PICK s : s = Pulled(slot[i], fd)
  OBVIOUS
<1>11. /\ SlotGood(own, s, i) /\ s.state = "IDLE"
       /\ (~s.broken /\ Alive(s)) =>
            /\ s.down = <<>> /\ s.up = <<>> /\ s.dgram = <<>>
            /\ s.worker.pc \in {"head", "write"} /\ s.worker.left = 0
       /\ ~Alive(s) => Sound(s, "away", parent, jobs)
  BY <1>1, <1>2, <1>6, <1>7, <1>9, <1>10, PulledSlot
<1>12. s \in SlotType /\ StreamGood(own, s.down, i)
  BY <1>11 DEF SlotGood
<1>13. crashes' \in 0 .. MaxCrashes
  BY <1>1, <1>3 DEF Typed
<1>14. CASE ~(Alive(s) /\ HasRoom(s.down))
  <2>1. slot' = [slot EXCEPT ![i] = s] /\ parent' = parent /\ jobs' = jobs
    BY <1>5, <1>10, <1>14
  <2>2. Sound(s, "away", parent, jobs)
    <3>1. CASE ~Alive(s)
      BY <1>11, <3>1
    <3>2. CASE s.broken
      BY <3>2 DEF Sound
    <3>3. CASE Alive(s) /\ ~s.broken
      <4>1. Len(s.down) = 0
        BY <1>11, <3>3
      <4>2. HasRoom(s.down)
        BY <4>1, ProcAssumption DEF HasRoom
      <4> QED
        BY <1>14, <3>3, <4>2
    <3>4. s.broken \in BOOLEAN
      BY <1>12 DEF SlotType
    <3> QED
      BY <3>1, <3>2, <3>3, <3>4
  <2>3. Sound(s, Mode(parent', i), parent', jobs)
    BY <1>8, <2>1, <2>2
  <2>4. ParentGood(own, parent')
    BY <1>2, <2>1 DEF OwnedBy
  <2> QED
    BY <1>1, <1>2, <1>6, <1>11, <1>13, <2>1, <2>3, <2>4, QuietStep
<1>15. CASE Alive(s) /\ HasRoom(s.down)
  <2>1. PICK h : h = Header("RUN", len, s.user_fd, job)
    OBVIOUS
  <2>2. PICK d : d = Append(s.down, h)
    OBVIOUS
  <2>3. PICK t : t = [s EXCEPT !.down = d, !.job = job]
    OBVIOUS
  <2>4. PICK q : q = [Ready EXCEPT !.pc = "write", !.at = i, !.left = len, !.job = job]
    OBVIOUS
  <2>5. PICK K \in JobType : K = [fd |-> fd, len |-> len, reply |-> 0, answered |-> FALSE]
    BY DEF JobType
  <2>6. slot' = [slot EXCEPT ![i] = t] /\ parent' = q /\ jobs' = Append(jobs, K)
    BY <1>5, <1>10, <1>15, <2>1, <2>2, <2>3, <2>4, <2>5
  <2>7. PICK js \in Seq(JobType) : js = jobs'
    <3>1. Append(jobs, K) \in Seq(JobType)
      BY <1>1 DEF Typed
    <3> QED
      BY <2>6, <3>1
  <2>8. /\ Len(js) = job /\ js[job] = K
        /\ \A j \in 1 .. Len(jobs) : js[j] = jobs[j]
    <3>1. jobs \in Seq(JobType)
      BY <1>1 DEF Typed
    <3> QED
      BY <1>4, <2>6, <2>7, <3>1, Appended
  <2>9. job <= MaxJobs /\ Len(jobs) \in Nat /\ job \in 1 .. job
    BY <1>1, <1>3, <1>4, ProcAssumption DEF Typed
  <2>10. PICK new : new = [j \in 1 .. job |-> IF j = job THEN i ELSE own[j]]
    OBVIOUS
  <2>11. new \in [1 .. job -> Slots] /\ \A j \in 1 .. Len(jobs) : new[j] = own[j]
    BY <1>4, <1>6, <2>9, <2>10
  <2>12. Mine(new, job, i) /\ \A j, k : Mine(own, j, k) => Mine(new, j, k)
    BY <1>4, <2>9, <2>10, <2>11 DEF Mine
  <2>13. h \in Unit /\ h.job = job
    <3>1. s.user_fd \in FdValues /\ job \in 0 .. MaxJobs
      BY <1>12, <2>9 DEF SlotType
    <3> QED
      BY <2>1, <3>1 DEF Header, Unit, States
  <2>14. StreamGood(new, s.down, i) /\ StreamGood(new, s.up, i)
    BY <1>11, <2>12 DEF SlotGood, StreamGood
  <2>15. StreamGood(new, d, i)
    <3>1. Mine(new, h.job, i)
      BY <2>12, <2>13
    <3> QED
      BY <1>15, <2>2, <2>13, <2>14, <3>1, StreamAppend
  <2>16. d \in Seq(Unit)
    BY <2>15 DEF StreamGood
  <2>17. /\ t \in SlotType /\ t.down = d /\ t.job = job /\ t.worker = s.worker
         /\ t.up = s.up /\ t.broken = s.broken /\ t.state = "IDLE"
         /\ t.user_fd = s.user_fd /\ t.dgram = s.dgram
    BY <1>11, <1>12, <2>3, <2>16 DEF SlotType
  <2>18. SlotGood(new, t, i)
    BY <1>11, <2>12, <2>14, <2>15, <2>17 DEF SlotGood, WorkerGood
  <2>19. /\ q \in ParentType /\ q.pc = "write" /\ q.at = i /\ q.left = len /\ q.job = job
    <3>1. len \in Nat /\ i \in 0 .. POOL_MAX + 1
      BY <1>6, ProcAssumption DEF Slots
    <3>2. PICK u \in ParentType : u = Ready
      BY ParentReady
    <3>3. q = [u EXCEPT !.pc = "write", !.at = i, !.left = len, !.job = job]
      BY <2>4, <3>2, Zenon
    <3> QED
      BY <3>1, <3>3 DEF ParentType
  <2>20. ParentGood(new, q)
    BY <1>6, <2>11, <2>12, <2>19 DEF ParentGood, Mine
  <2>21. Mode(q, i) = "write" /\ \A j \in Slots \ {i} : Mode(q, j) = "away"
    BY <2>19 DEF Mode
  <2>22. ASSUME ~t.broken PROVE Sound(t, "write", q, js)
    <3>1. /\ s.down = <<>> /\ s.up = <<>> /\ s.dgram = <<>>
          /\ s.worker.pc \in {"head", "write"} /\ s.worker.left = 0
      BY <1>11, <1>15, <2>17, <2>22
    <3>2. K.len = len /\ K.reply = 0 /\ K.answered = FALSE /\ len \in Nat
      BY <2>5, ProcAssumption
    <3>3. ParentOK(t, "write", q, K)
      BY <2>17, <2>19, <3>2 DEF ParentOK
    <3>4. UpOK(t, Taken(t, "write", q, K), K, 0)
      BY <2>17, <3>1 DEF UpOK, Taken
    <3>5. Sent("write", q, K) = 1
      BY <2>19, <3>2 DEF Sent
    <3>6. d = <<h>>
      BY <2>2, <3>1
    <3>7. DownOK(t, Sent("write", q, K), K, 0)
      <4>1. Len(d) = 1 /\ d[1] = DownUnit(job, len, s.user_fd, 1)
        BY <2>1, <3>6 DEF DownUnit
      <4> QED
        BY <2>17, <3>2, <3>5, <4>1 DEF DownOK
    <3>8. WorkerOK(t, K, 0, 0) /\ DgramOK(t, "write", 0)
      BY <2>17, <3>1 DEF WorkerOK, DgramOK
    <3>9. ChildOK(t, "write", q, K, 0, 0)
      BY <3>7, <3>8 DEF ChildOK
    <3>10. K = js[t.job] /\ t.job # 0 /\ K.len \in Nat /\ K.reply \in Nat
           /\ 0 <= K.len + 1 /\ 0 <= K.reply + 2 /\ 0 \in Nat
      BY <1>4, <2>8, <2>17, <3>2
    <3> QED
      BY <3>3, <3>4, <3>9, <3>10, Rebuilt
  <2>23. Sound(t, Mode(parent', i), parent', jobs')
    BY <2>6, <2>7, <2>21, <2>22 DEF Sound
  <2>24. ParentGood(new, parent') /\ \A j \in Slots \ {i} : Mode(parent, j) = "away" /\ Mode(parent', j) = "away"
    BY <1>8, <2>6, <2>20, <2>21
  <2>25. new \in [1 .. Len(jobs') -> Slots] /\ Len(jobs') >= Len(jobs) /\ jobs' \in Seq(JobType)
         /\ Len(jobs') <= MaxJobs /\ \A j \in 1 .. Len(jobs) : own[j] # i => jobs'[j] = jobs[j]
    BY <1>4, <2>7, <2>8, <2>9, <2>11
  <2> QED
    BY <1>1, <1>2, <1>6, <1>13, <2>6, <2>11, <2>18, <2>23, <2>24, <2>25, SlotStep
<1> QED
  BY <1>14, <1>15

-----------------------------------------------------------------------------
(* The parent polls.                                                       *)

(* A parent that goes from slot to slot.                                   *)
LEMMA Walks ==
  ASSUME PInv, slot' = slot, jobs' = jobs, crashes' = crashes,
         \A j \in Slots : Mode(parent, j) = "away" /\ Mode(parent', j) = "away",
         parent' \in ParentType, parent'.pc = "head" => parent'.at \in Slots,
         parent'.pc \in {"ready", "scan", "head"},
         parent'.job = 0 \/ parent'.job = parent.job
  PROVE  PInv'
<1>1. Typed /\ AllSound
  BY DEF PInv
<1>2. PICK own \in [1 .. Len(jobs) -> Slots] : OwnedBy(own)
  BY DEF PInv
<1>3. 1 \in Slots
  BY ProcAssumption DEF Slots
<1>4. SlotGood(own, slot[1], 1) /\ Sound(slot[1], "away", parent, jobs) /\ slot[1] \in SlotType
      /\ ParentGood(own, parent)
  BY <1>1, <1>2, <1>3, AtSlot
<1>5. slot' = [slot EXCEPT ![1] = slot[1]]
  BY <1>1, <1>3 DEF Typed
<1>6. ParentGood(own, parent')
  BY <1>4 DEF ParentGood
<1>8. ASSUME NEW J PROVE Busy(slot[1], "away", parent, J) => Busy(slot[1], "away", parent', J)
  BY DEF Busy, ParentOK, Taken, Sent, ChildOK
<1>9. Sound(slot[1], "away", parent', jobs)
  BY <1>4, <1>8 DEF Sound
<1>10. Sound(slot[1], Mode(parent', 1), parent', jobs)
  BY <1>3, <1>9
<1>11. \A j \in Slots \ {1} : Mode(parent, j) = "away" /\ Mode(parent', j) = "away"
  OBVIOUS
<1>12. crashes' \in 0 .. MaxCrashes
  BY <1>1 DEF Typed
<1> QED
  BY <1>1, <1>2, <1>3, <1>4, <1>5, <1>6, <1>10, <1>11, <1>12, QuietStep

(* The parent of the next slot of the loop.                                *)
LEMMA ToNextSlot ==
  ASSUME parent.at \in Slots, NEW q, q = NextSlot
  PROVE  q \in ParentType /\ q.pc = "scan" /\ q.job = 0 /\ \A j : Mode(q, j) = "away"
<1>1. PICK n \in 0 .. POOL_MAX + 1 : n = parent.at + 1
  BY ProcAssumption DEF Slots
<1>2. PICK u \in ParentType : u = Ready
  BY ParentReady
<1>3. q = [u EXCEPT !.pc = "scan", !.at = n]
  BY <1>1, <1>2, Zenon DEF NextSlot
<1>4. u.job = 0
  BY <1>2, ParentReady
<1>5. q \in ParentType /\ q.pc = "scan" /\ q.job = 0
  BY <1>3, <1>4 DEF ParentType
<1> QED
  BY <1>5 DEF Mode

LEMMA Polls == PInv /\ ShprocPoll => PInv'
<1> SUFFICES ASSUME PInv, ShprocPoll PROVE PInv'
  OBVIOUS
<1>1. slot' = slot /\ jobs' = jobs /\ crashes' = crashes /\ parent.pc = "ready"
  BY DEF ShprocPoll
<1>2. PICK u \in ParentType : u = Ready
  BY ParentReady
<1>3. parent' = [u EXCEPT !.pc = "scan", !.at = 1] /\ u.job = 0
  BY <1>2, ParentReady DEF ShprocPoll
<1>4. parent' \in ParentType /\ parent'.pc = "scan" /\ parent'.job = 0
  <2>1. PICK n \in 0 .. POOL_MAX + 1 : n = 1
    BY ProcAssumption
  <2>2. parent' = [u EXCEPT !.pc = "scan", !.at = n]
    BY <1>3, <2>1, Zenon
  <2> QED
    BY <1>3, <2>2 DEF ParentType
<1>5. \A j \in Slots : Mode(parent, j) = "away" /\ Mode(parent', j) = "away"
  BY <1>1, <1>4 DEF Mode
<1> QED
  BY <1>1, <1>4, <1>5, Walks

LEMMA Scans == PInv /\ ShprocPollSlot => PInv'
<1> SUFFICES ASSUME PInv, ShprocPollSlot PROVE PInv'
  OBVIOUS
<1>1. jobs' = jobs /\ crashes' = crashes /\ parent.pc = "scan" /\ parent \in ParentType
      /\ slot \in [Slots -> SlotType]
  BY DEF ShprocPollSlot, PInv, Typed, OwnedBy, ParentGood
<1>2. slot' = slot
  <2>1. ASSUME NEW i \in Slots, ~CanKill(slot[i]), slot' = [slot EXCEPT ![i] = Stopped(slot[i])]
        PROVE  slot' = slot
    <3>1. Stopped(slot[i]) = slot[i]
      BY <2>1 DEF Stopped
    <3> QED
      BY <1>1, <2>1, <3>1
  <2> QED
    BY <2>1 DEF ShprocPollSlot
<1>3. CASE parent' = Ready
  <2>1. parent' \in ParentType /\ parent'.pc = "ready" /\ parent'.job = 0
    BY <1>3, ParentReady
  <2>2. \A j \in Slots : Mode(parent, j) = "away" /\ Mode(parent', j) = "away"
    BY <1>1, <2>1 DEF Mode
  <2> QED
    BY <1>1, <1>2, <2>1, <2>2, Walks
<1>4. CASE parent.at \in Slots /\ parent' = NextSlot
  <2>1. parent' \in ParentType /\ parent'.pc = "scan" /\ parent'.job = 0
    BY <1>4, ToNextSlot
  <2>2. \A j \in Slots : Mode(parent, j) = "away" /\ Mode(parent', j) = "away"
    BY <1>1, <2>1 DEF Mode
  <2> QED
    BY <1>1, <1>2, <2>1, <2>2, Walks
<1>5. CASE parent.at \in Slots /\ parent' = [parent EXCEPT !.pc = "head"]
  <2>1. /\ parent' \in ParentType /\ parent'.pc = "head" /\ parent'.job = parent.job
        /\ parent'.at = parent.at
    BY <1>1, <1>5 DEF ParentType
  <2>2. \A j \in Slots : Mode(parent, j) = "away" /\ Mode(parent', j) = "away"
    BY <1>1, <2>1 DEF Mode
  <2> QED
    BY <1>1, <1>2, <1>5, <2>1, <2>2, Walks
<1> QED
  BY <1>3, <1>4, <1>5 DEF ShprocPollSlot

(* The parent takes a unit of the answers, the worker adds one.            *)
LEMMA UpTaken ==
  ASSUME NEW s, NEW t, NEW J, NEW n \in Nat, NEW e \in Nat, UpOK(s, n, J, e),
         s.up \in Seq(Unit), s.up # <<>>, t.up = Tail(s.up), t.job = s.job
  PROVE  UpOK(t, n + 1, J, e) /\ Head(s.up) = UpUnit(s.job, J.reply, n + 1)
<1>1. /\ Len(s.up) \in Nat \ {0} /\ Head(s.up) = s.up[1] /\ Len(t.up) = Len(s.up) - 1
      /\ \A k \in 1 .. Len(s.up) - 1 : t.up[k] = s.up[k + 1]
  BY Consumed
<1>2. /\ n <= e /\ Len(s.up) = e - n
      /\ \A k \in 1 .. e - n : s.up[k] = UpUnit(s.job, J.reply, n + k)
  BY DEF UpOK
<1>3. Head(s.up) = UpUnit(s.job, J.reply, n + 1)
  BY <1>1, <1>2
<1>4. ASSUME NEW k \in 1 .. e - (n + 1)
      PROVE  t.up[k] = UpUnit(t.job, J.reply, (n + 1) + k)
  <2>1. k \in 1 .. Len(s.up) - 1 /\ k + 1 \in 1 .. e - n
    BY <1>2
  <2>2. n + (k + 1) = (n + 1) + k
    OBVIOUS
  <2> QED
    BY <1>1, <1>2, <2>1, <2>2
<1> QED
  BY <1>1, <1>2, <1>3, <1>4 DEF UpOK

LEMMA UpAdded ==
  ASSUME NEW s, NEW t, NEW J, NEW n \in Nat, NEW e \in Nat, UpOK(s, n, J, e),
         s.up \in Seq(Unit), NEW u \in Unit, u = UpUnit(s.job, J.reply, e + 1),
         t.up = Append(s.up, u), t.job = s.job
  PROVE  UpOK(t, n, J, e + 1)
<1>1. /\ Len(s.up) \in Nat /\ Len(t.up) = Len(s.up) + 1 /\ t.up[Len(s.up) + 1] = u
      /\ \A k \in 1 .. Len(s.up) : t.up[k] = s.up[k]
  BY Appended
<1>2. /\ n <= e /\ Len(s.up) = e - n
      /\ \A k \in 1 .. e - n : s.up[k] = UpUnit(s.job, J.reply, n + k)
  BY DEF UpOK
<1>3. ASSUME NEW k \in 1 .. (e + 1) - n
      PROVE  t.up[k] = UpUnit(t.job, J.reply, n + k)
  <2>1. CASE k \in 1 .. e - n
    BY <1>1, <1>2, <2>1
  <2>2. CASE k = (e + 1) - n
    <3>1. n + k = e + 1 /\ k = Len(s.up) + 1
      BY <1>2, <2>2
    <3> QED
      BY <1>1, <3>1
  <2> QED
    BY <1>2, <2>1, <2>2
<1> QED
  BY <1>1, <1>2, <1>3 DEF UpOK

(* What a unit is taken for.                                               *)
LEMMA AsHeader ==
  ASSUME NEW u \in Unit, NEW h \in Headers(u)
  PROVE  /\ h.state \in States /\ h.len \in Nat /\ h.fd \in FdValues /\ h.job = u.job
         /\ u.kind = "head" => h = u
<1>1. CASE u.kind = "head"
  <2>1. h = u
    BY <1>1 DEF Headers
  <2>2. u.state \in States /\ u.len \in Sizes \union {0} /\ u.fd \in FdValues
    BY DEF Unit
  <2>3. u.len \in Nat
    <3>1. Sizes \subseteq Nat
      BY ProcAssumption
    <3>2. PICK n \in Sizes \union {0} : n = u.len
      BY <2>2
    <3>3. CASE n = 0
      BY <3>2, <3>3
    <3>4. CASE n \in Sizes
      BY <3>1, <3>2, <3>4, Zenon
    <3> QED
      BY <3>2, <3>3, <3>4
  <2> QED
    BY <1>1, <2>1, <2>2, <2>3, Zenon
<1>2. CASE u.kind # "head"
  <2>1. PICK st \in States, n \in Sizes, fd \in FdValues : h = Header(st, n, fd, u.job)
    BY <1>2 DEF Headers
  <2> QED
    BY <1>2, <2>1, ProcAssumption DEF Header
<1> QED
  BY <1>1, <1>2

LEMMA Heads == PInv /\ ShprocReadHeader => PInv'
<1> SUFFICES ASSUME PInv, ShprocReadHeader PROVE PInv'
  OBVIOUS
<1>1. PICK own \in [1 .. Len(jobs) -> Slots], i \in Slots, s \in SlotType, p \in ParentType :
           /\ Typed /\ AllSound /\ OwnedBy(own)
           /\ p = parent /\ i = p.at /\ s = slot[i]
           /\ SlotGood(own, s, i) /\ ParentGood(own, p)
           /\ Sound(s, Mode(p, i), p, jobs)
           /\ \A j \in Slots \ {i} : Mode(p, j) = "away"
  BY AtWork DEF ShprocReadHeader
<1>2. p.pc = "head" /\ jobs' = jobs /\ crashes' = crashes /\ Mode(p, i) = "away"
      /\ \A j \in Slots : Mode(p, j) = "away"
  BY <1>1 DEF ShprocReadHeader, Mode
<1>3. Sound(s, "away", p, jobs)
  BY <1>1, <1>2
<1>4. crashes' \in 0 .. MaxCrashes
  BY <1>1, <1>2 DEF Typed
<1>5. CASE s.up = <<>>
  <2>1. slot' = slot /\ parent' = NextSlot /\ parent.at \in Slots
    BY <1>1, <1>5 DEF ShprocReadHeader
  <2>2. parent' \in ParentType /\ parent'.pc = "scan" /\ parent'.job = 0
    BY <2>1, ToNextSlot
  <2>3. \A j \in Slots : Mode(parent, j) = "away" /\ Mode(parent', j) = "away"
    BY <1>1, <1>2, <2>2 DEF Mode
  <2> QED
    BY <1>2, <2>1, <2>2, <2>3, Walks
<1>6. CASE s.up # <<>>
  <2>1. PICK h \in Headers(Head(s.up)) :
          /\ slot' = [slot EXCEPT ![i] = HeaderSeen(s, h)]
          /\ parent' = [p EXCEPT !.pc = "data", !.left = h.len, !.buf = <<>>, !.job = h.job]
    BY <1>1, <1>6 DEF ShprocReadHeader
  <2>2. StreamGood(own, s.up, i) /\ s.up \in Seq(Unit)
    BY <1>1 DEF SlotGood, StreamGood
  <2>3. StreamGood(own, Tail(s.up), i) /\ Head(s.up) \in Unit /\ Mine(own, Head(s.up).job, i)
    BY <1>6, <2>2, StreamTail
  <2>4. /\ h.state \in States /\ h.len \in Nat /\ h.fd \in FdValues /\ Mine(own, h.job, i)
        /\ Head(s.up).kind = "head" => h = Head(s.up)
    BY <2>3, AsHeader
  <2>5. PICK d \in Seq(Unit) : d = Tail(s.up)
    BY <2>3, Zenon DEF StreamGood
  <2>6. PICK st \in States : st = IF h.state \in {"RUN", "IDLE"} THEN h.state ELSE s.state
    BY <2>4 DEF SlotType
  <2>7. PICK f \in FdValues : f = IF h.state = "IDLE" THEN 0 ELSE s.user_fd
    BY DEF SlotType, FdValues
  <2>8. PICK t : t = [s EXCEPT !.up = d, !.state = st, !.user_fd = f]
    OBVIOUS
  <2>9. HeaderSeen(s, h) = t
    BY <2>5, <2>6, <2>7, <2>8 DEF HeaderSeen, SlotType
  <2>10. /\ t \in SlotType /\ t.down = s.down /\ t.job = s.job /\ t.worker = s.worker
         /\ t.up = d /\ t.broken = s.broken /\ t.state = st
         /\ t.user_fd = f /\ t.dgram = s.dgram
    BY <2>8 DEF SlotType
  <2>11. SlotGood(own, t, i)
    BY <1>1, <2>3, <2>5, <2>10 DEF SlotGood
  <2>12. PICK q : q = [p EXCEPT !.pc = "data", !.left = h.len, !.buf = <<>>, !.job = h.job]
    OBVIOUS
  <2>13. /\ q \in ParentType /\ q.pc = "data" /\ q.at = i /\ q.left = h.len /\ q.buf = <<>>
         /\ q.job = h.job
    <3>1. h.job \in Nat /\ <<>> \in Seq(Nat)
      BY <1>1, <2>4, OwnedUnits
    <3> QED
      BY <1>1, <2>4, <2>12, <3>1 DEF ParentType
  <2>14. ParentGood(own, q)
    BY <2>4, <2>13 DEF ParentGood, Mine
  <2>15. Mode(q, i) = "data" /\ \A j \in Slots \ {i} : Mode(q, j) = "away"
    BY <2>13 DEF Mode
  <2>16. ASSUME ~s.broken PROVE Sound(t, "data", q, jobs)
    <3>1. s.job # 0
      BY <1>3, <1>6, <2>16 DEF Sound, Blank
    <3>2. PICK J \in JobType, r \in Nat, e \in Nat :
              /\ J = jobs[s.job] /\ J.len \in Nat /\ J.reply \in Nat /\ s.job \in 1 .. Len(jobs)
              /\ ParentOK(s, "away", p, J)
              /\ r <= J.len + 1 /\ e <= J.reply + 2
              /\ UpOK(s, Taken(s, "away", p, J), J, e)
              /\ Alive(s) => ChildOK(s, "away", p, J, r, e)
      BY <1>1, <1>3, <2>16, <3>1, BusyParts
    <3>3. J.len \in Nat /\ J.reply \in Nat /\ r <= J.len + 1 /\ e <= J.reply + 2
      BY <3>2
    <3>4. UpOK(s, Taken(s, "away", p, J), J, e)
      BY <3>2
    <3>5. Len(s.up) \in Nat \ {0} /\ t.up = Tail(s.up)
      BY <1>6, <2>2, <2>5, <2>10, Consumed
    <3>6. s.state \in {"PEND", "RUN"}
      <4>1. s.state # "IDLE"
        <5>1. SUFFICES ASSUME s.state = "IDLE" PROVE FALSE
          OBVIOUS
        <5>2. UpOK(s, 2 + J.reply, J, e)
          BY <3>4, <5>1 DEF Taken
        <5> QED
          BY <3>3, <3>5, <5>2 DEF UpOK
      <4>2. s.state # "NONE" /\ s.state \in States
        BY <3>2 DEF ParentOK, SlotType
      <4> QED
        BY <4>1, <4>2 DEF States
    <3>6a. ~J.answered
      BY <3>2, <3>6 DEF ParentOK
    <3>7. Sent("data", q, J) = Sent("away", p, J)
      BY DEF Sent
    <3>8. CASE s.state = "PEND"
      <4>0. PICK n \in Nat : n = 0
        OBVIOUS
      <4>1. UpOK(s, n, J, e)
        BY <3>4, <3>8, <4>0 DEF Taken
      <4>2. UpOK(t, n + 1, J, e) /\ Head(s.up) = UpUnit(s.job, J.reply, n + 1)
        BY <1>6, <2>2, <2>10, <3>5, <4>1, UpTaken
      <4>3. UpOK(t, 1, J, e) /\ Head(s.up) = Header("RUN", 0, 0, s.job)
        BY <4>0, <4>2 DEF UpUnit
      <4>4. h = Header("RUN", 0, 0, s.job)
        BY <2>4, <4>3 DEF Header
      <4>5. h.state = "RUN" /\ h.len = 0 /\ h.job = s.job
        BY <4>4 DEF Header
      <4>6. t.state = "RUN" /\ t.user_fd = s.user_fd /\ q.left = 0 /\ q.job = s.job
        BY <2>6, <2>7, <2>10, <2>13, <4>5
      <4>7. ParentOK(t, "data", q, J)
        BY <2>10, <3>6a, <4>6 DEF ParentOK
      <4>8. UpOK(t, Taken(t, "data", q, J), J, e)
        BY <4>3, <4>6 DEF Taken
      <4>9. ASSUME Alive(s) PROVE ChildOK(t, "data", q, J, r, e)
        <5>1. DownOK(s, Sent("away", p, J), J, r) /\ WorkerOK(s, J, r, e) /\ DgramOK(s, "away", e)
          BY <3>2, <4>9 DEF ChildOK
        <5>2. DownOK(t, Sent("data", q, J), J, r)
          BY <2>10, <3>7, <4>6, <5>1 DEF DownOK
        <5>3. WorkerOK(t, J, r, e)
          BY <2>10, <4>6, <5>1 DEF WorkerOK
        <5>4. DgramOK(t, "data", e)
          BY <2>10, <4>6, <5>1 DEF DgramOK
        <5> QED
          BY <5>2, <5>3, <5>4 DEF ChildOK
      <4>10. J = jobs[t.job] /\ t.job # 0 /\ (Alive(t) => Alive(s))
        BY <2>10, <3>1, <3>2 DEF Alive
      <4> QED
        BY <3>3, <4>7, <4>8, <4>9, <4>10, Rebuilt
    <3>9. CASE s.state = "RUN"
      <4>1. UpOK(s, 1, J, e)
        BY <3>4, <3>9 DEF Taken
      <4>2. UpOK(t, 1 + 1, J, e) /\ Head(s.up) = UpUnit(s.job, J.reply, 1 + 1)
        BY <1>6, <2>2, <2>10, <3>5, <4>1, UpTaken
      <4>3. UpOK(t, 2, J, e) /\ Head(s.up) = Header("IDLE", J.reply, 0, s.job)
        BY <4>2 DEF UpUnit
      <4>4. h = Header("IDLE", J.reply, 0, s.job)
        BY <2>4, <4>3 DEF Header
      <4>5. h.state = "IDLE" /\ h.len = J.reply /\ h.job = s.job
        BY <4>4 DEF Header
      <4>6. t.state = "IDLE" /\ t.user_fd = 0 /\ q.left = J.reply /\ q.job = s.job
        BY <2>6, <2>7, <2>10, <2>13, <4>5
      <4>7. Holds(q.buf, s.job, J.reply - q.left)
        BY <2>13, <3>3, <4>6 DEF Holds
      <4>8. ParentOK(t, "data", q, J)
        BY <2>10, <3>3, <3>6a, <4>6, <4>7 DEF ParentOK
      <4>9. Taken(t, "data", q, J) = 2
        BY <3>3, <4>6 DEF Taken
      <4>10. UpOK(t, Taken(t, "data", q, J), J, e)
        BY <4>3, <4>9
      <4>11. e >= 2
        BY <4>3 DEF UpOK
      <4>12. ASSUME Alive(s) PROVE ChildOK(t, "data", q, J, r, e)
        <5>1. DownOK(s, 1 + J.len, J, r) /\ WorkerOK(s, J, r, e) /\ DgramOK(s, "away", e)
          BY <3>2, <4>12 DEF ChildOK, Sent
        <5>2. r = J.len + 1
          BY <3>3, <4>11, <5>1 DEF WorkerOK
        <5>3. DownOK(t, Sent("data", q, J), J, r)
          BY <2>10, <3>3, <5>1, <5>2 DEF DownOK, Sent
        <5>4. WorkerOK(t, J, r, e)
          BY <2>10, <4>11, <5>1 DEF WorkerOK
        <5>5. DgramOK(t, "data", e)
          BY <2>10, <4>6, <4>11, <5>1 DEF DgramOK
        <5> QED
          BY <5>3, <5>4, <5>5 DEF ChildOK
      <4>13. J = jobs[t.job] /\ t.job # 0 /\ (Alive(t) => Alive(s))
        BY <2>10, <3>1, <3>2 DEF Alive
      <4> QED
        BY <3>3, <4>8, <4>10, <4>12, <4>13, Rebuilt
    <3> QED
      BY <3>6, <3>8, <3>9
  <2>17. Sound(t, Mode(parent', i), parent', jobs)
    BY <2>1, <2>10, <2>12, <2>15, <2>16 DEF Sound
  <2>18. ParentGood(own, parent') /\ \A j \in Slots \ {i} : Mode(parent, j) = "away" /\ Mode(parent', j) = "away"
    BY <1>1, <2>1, <2>12, <2>14, <2>15
  <2>19. slot' = [slot EXCEPT ![i] = t]
    BY <2>1, <2>9, Zenon
  <2> QED
    BY <1>1, <1>2, <1>4, <2>11, <2>17, <2>18, <2>19, QuietStep
<1> QED
  BY <1>5, <1>6

LEMMA HoldsMore ==
  ASSUME NEW b \in Seq(Nat), NEW job \in Nat, NEW n \in Nat, Holds(b, job, n)
  PROVE  Append(b, job) \in Seq(Nat) /\ Holds(Append(b, job), job, n + 1)
<1>1. PICK c \in Seq(Nat) : c = Append(b, job)
  <2>1. Append(b, job) \in Seq(Nat)
    OBVIOUS
  <2> QED
    BY <2>1, Zenon
<1>2. /\ Len(c) = Len(b) + 1 /\ c[Len(b) + 1] = job
      /\ \A k \in 1 .. Len(b) : c[k] = b[k]
  BY <1>1, Appended
<1>3. Len(b) = n /\ \A k \in 1 .. n : b[k] = job
  BY DEF Holds
<1> QED
  BY <1>1, <1>2, <1>3 DEF Holds

LEMMA Takes == PInv /\ ShprocReadData => PInv'
<1> SUFFICES ASSUME PInv, ShprocReadData PROVE PInv'
  OBVIOUS
<1>1. PICK own \in [1 .. Len(jobs) -> Slots], i \in Slots, s \in SlotType, p \in ParentType :
           /\ Typed /\ AllSound /\ OwnedBy(own)
           /\ p = parent /\ i = p.at /\ s = slot[i]
           /\ SlotGood(own, s, i) /\ ParentGood(own, p)
           /\ Sound(s, Mode(p, i), p, jobs)
           /\ \A j \in Slots \ {i} : Mode(p, j) = "away"
  BY AtWork DEF ShprocReadData
<1>2. p.pc = "data" /\ p.left > 0 /\ p.left \in Nat /\ jobs' = jobs /\ crashes' = crashes
  BY <1>1 DEF ShprocReadData, ParentType
<1>3. Mode(p, i) = "data"
  BY <1>1, <1>2 DEF Mode
<1>4. Sound(s, "data", p, jobs)
  BY <1>1, <1>3
<1>5. crashes' \in 0 .. MaxCrashes
  BY <1>1, <1>2 DEF Typed
<1>6. CASE s.up = <<>>
  <2>1. PICK t : t = [s EXCEPT !.broken = TRUE]
    OBVIOUS
  <2>2. parent' = NextSlot /\ slot' = [slot EXCEPT ![i] = t] /\ parent.at \in Slots
    BY <1>1, <1>6, <2>1 DEF ShprocReadData
  <2>3. SlotGood(own, t, i) /\ Sound(t, Mode(parent', i), parent', jobs)
    BY <1>1, <2>1, CutShort
  <2>4. parent' \in ParentType /\ parent'.pc = "scan" /\ parent'.job = 0
        /\ \A j : Mode(parent', j) = "away"
    BY <2>2, ToNextSlot
  <2>5. ParentGood(own, parent')
    BY <2>4 DEF ParentGood
  <2>6. \A j \in Slots \ {i} : Mode(parent, j) = "away" /\ Mode(parent', j) = "away"
    BY <1>1, <2>4
  <2> QED
    BY <1>1, <1>2, <1>5, <2>2, <2>3, <2>5, <2>6, QuietStep
<1>7. CASE s.up # <<>>
  <2>1. StreamGood(own, s.up, i) /\ s.up \in Seq(Unit)
    BY <1>1 DEF SlotGood, StreamGood
  <2>2. StreamGood(own, Tail(s.up), i) /\ Head(s.up) \in Unit /\ Mine(own, Head(s.up).job, i)
    BY <1>7, <2>1, StreamTail
  <2>3. PICK d \in Seq(Unit) : d = Tail(s.up)
    BY <2>2, Zenon DEF StreamGood
  <2>4. PICK t : t = [s EXCEPT !.up = d]
    OBVIOUS
  <2>5. slot' = [slot EXCEPT ![i] = t]
    BY <1>1, <1>7, <2>3, <2>4 DEF ShprocReadData
  <2>6. /\ t \in SlotType /\ t.down = s.down /\ t.job = s.job /\ t.worker = s.worker
        /\ t.up = d /\ t.broken = s.broken /\ t.state = s.state
        /\ t.user_fd = s.user_fd /\ t.dgram = s.dgram
    BY <2>4 DEF SlotType
  <2>7. SlotGood(own, t, i)
    BY <1>1, <2>2, <2>3, <2>6 DEF SlotGood
  <2>8. PICK x \in Nat : x = Head(s.up).job
    BY <1>1, <2>2, OwnedUnits
  <2>9. PICK b \in Seq(Nat) : b = Append(p.buf, x)
    <3>1. p.buf \in Seq(Nat)
      BY DEF ParentType
    <3>2. Append(p.buf, x) \in Seq(Nat)
      BY <3>1
    <3> QED
      BY <3>2, Zenon
  <2>10. PICK l \in Nat : l = p.left - 1
    BY <1>2
  <2>11. PICK q : q = [p EXCEPT !.left = l, !.buf = b]
    OBVIOUS
  <2>12. parent' = q
    BY <1>1, <1>7, <2>8, <2>9, <2>10, <2>11 DEF ShprocReadData, ParentType
  <2>13. /\ q \in ParentType /\ q.pc = "data" /\ q.at = i /\ q.left = l /\ q.buf = b
         /\ q.job = p.job
    BY <1>1, <1>2, <2>11 DEF ParentType
  <2>14. ParentGood(own, q)
    BY <1>1, <1>2, <2>13 DEF ParentGood
  <2>15. Mode(q, i) = "data" /\ \A j \in Slots \ {i} : Mode(q, j) = "away"
    BY <2>13 DEF Mode
  <2>16. ASSUME ~s.broken PROVE Sound(t, "data", q, jobs)
    <3>1. s.job # 0
      BY <1>4, <2>16 DEF Sound, Blank
    <3>2. PICK J \in JobType, r \in Nat, e \in Nat :
              /\ J = jobs[s.job] /\ J.len \in Nat /\ J.reply \in Nat /\ s.job \in 1 .. Len(jobs)
              /\ ParentOK(s, "data", p, J)
              /\ r <= J.len + 1 /\ e <= J.reply + 2
              /\ UpOK(s, Taken(s, "data", p, J), J, e)
              /\ Alive(s) => ChildOK(s, "data", p, J, r, e)
      BY <1>1, <1>4, <2>16, <3>1, BusyParts
    <3>3. J.len \in Nat /\ J.reply \in Nat /\ r <= J.len + 1 /\ e <= J.reply + 2
          /\ s.job \in Nat
      BY <3>2
    <3>4. /\ p.job = s.job /\ s.state = "IDLE" /\ p.left <= J.reply
          /\ Holds(p.buf, s.job, J.reply - p.left) /\ ~J.answered
      BY <1>2, <3>2 DEF ParentOK
    <3>5. PICK k \in Nat : k = J.reply - p.left
      BY <1>2, <3>3, <3>4
    <3>6. Taken(s, "data", p, J) = 2 + k /\ Taken(t, "data", q, J) = (2 + k) + 1
          /\ J.reply - q.left = k + 1
      <4>1. J.reply - q.left = k + 1
        BY <1>2, <2>10, <2>13, <3>3, <3>4, <3>5, SMTT(20)
      <4>2. Taken(s, "data", p, J) = 2 + (J.reply - p.left)
            /\ Taken(t, "data", q, J) = 2 + (J.reply - q.left)
        BY <2>6, <3>4 DEF Taken
      <4> QED
        BY <3>5, <4>1, <4>2
    <3>7. UpOK(s, 2 + k, J, e)
      BY <3>2, <3>6
    <3>8. 2 + k \in Nat /\ t.up = Tail(s.up)
      BY <2>3, <2>6
    <3>9. UpOK(t, (2 + k) + 1, J, e) /\ Head(s.up) = UpUnit(s.job, J.reply, (2 + k) + 1)
      BY <1>7, <2>1, <2>6, <3>7, <3>8, UpTaken
    <3>10. Head(s.up) = Data(s.job)
      BY <3>9 DEF UpUnit
    <3>11. x = s.job
      BY <2>8, <3>10 DEF Data
    <3>12. Holds(b, s.job, k + 1)
      <4>1. p.buf \in Seq(Nat) /\ Holds(p.buf, s.job, k)
        BY <3>4, <3>5 DEF ParentType
      <4> QED
        BY <2>9, <3>3, <3>11, <4>1, HoldsMore
    <3>13. ParentOK(t, "data", q, J)
      BY <1>2, <2>6, <2>10, <2>13, <3>3, <3>4, <3>6, <3>12, SMTT(20) DEF ParentOK
    <3>14. UpOK(t, Taken(t, "data", q, J), J, e)
      BY <3>6, <3>9
    <3>15. ASSUME Alive(s) PROVE ChildOK(t, "data", q, J, r, e)
      <4>1. DownOK(s, Sent("data", p, J), J, r) /\ WorkerOK(s, J, r, e) /\ DgramOK(s, "data", e)
        BY <3>2, <3>15 DEF ChildOK
      <4>2. DownOK(t, Sent("data", q, J), J, r)
        BY <2>6, <4>1 DEF DownOK, Sent
      <4>3. WorkerOK(t, J, r, e)
        BY <2>6, <4>1 DEF WorkerOK
      <4>4. DgramOK(t, "data", e)
        BY <2>6, <4>1 DEF DgramOK
      <4> QED
        BY <4>2, <4>3, <4>4 DEF ChildOK
    <3>16. J = jobs[t.job] /\ t.job # 0 /\ (Alive(t) => Alive(s))
      BY <2>6, <3>1, <3>2 DEF Alive
    <3> QED
      BY <3>3, <3>13, <3>14, <3>15, <3>16, Rebuilt
  <2>17. Sound(t, Mode(parent', i), parent', jobs)
    BY <2>6, <2>12, <2>15, <2>16 DEF Sound
  <2>18. ParentGood(own, parent') /\ \A j \in Slots \ {i} : Mode(parent, j) = "away" /\ Mode(parent', j) = "away"
    BY <1>1, <2>12, <2>14, <2>15
  <2> QED
    BY <1>1, <1>2, <1>5, <2>5, <2>7, <2>17, <2>18, QuietStep
<1> QED
  BY <1>6, <1>7

LEMMA Ends == PInv /\ ShprocReadEnd => PInv'
<1> SUFFICES ASSUME PInv, ShprocReadEnd PROVE PInv'
  OBVIOUS
<1>1. PICK own \in [1 .. Len(jobs) -> Slots], i \in Slots, s \in SlotType, p \in ParentType :
           /\ Typed /\ AllSound /\ OwnedBy(own)
           /\ p = parent /\ i = p.at /\ s = slot[i]
           /\ SlotGood(own, s, i) /\ ParentGood(own, p)
           /\ Sound(s, Mode(p, i), p, jobs)
           /\ \A j \in Slots \ {i} : Mode(p, j) = "away"
  BY AtWork DEF ShprocReadEnd
<1>2. p.pc = "data" /\ p.left = 0 /\ jobs' = jobs /\ crashes' = crashes /\ slot' = slot
  BY <1>1 DEF ShprocReadEnd
<1>3. Sound(s, "data", p, jobs)
  BY <1>1, <1>2 DEF Mode
<1>4. crashes' \in 0 .. MaxCrashes
  BY <1>1, <1>2 DEF Typed
<1>5. slot' = [slot EXCEPT ![i] = s]
  BY <1>1, <1>2 DEF Typed
<1>6. PICK pc \in {"respond", "head"} : pc = IF s.state = "IDLE" THEN "respond" ELSE "head"
  OBVIOUS
<1>7. PICK q : q = [p EXCEPT !.pc = pc]
  OBVIOUS
<1>8. parent' = q
  BY <1>1, <1>6, <1>7 DEF ShprocReadEnd
<1>9. /\ q \in ParentType /\ q.pc = pc /\ q.at = i /\ q.left = 0 /\ q.buf = p.buf
      /\ q.job = p.job
  BY <1>1, <1>2, <1>7 DEF ParentType
<1>10. ParentGood(own, q)
  BY <1>1, <1>2, <1>9 DEF ParentGood
<1>11. PICK m : m = Mode(q, i)
  OBVIOUS
<1>12. /\ s.state = "IDLE" => m = "respond"
       /\ s.state # "IDLE" => m = "away"
       /\ \A j \in Slots \ {i} : Mode(q, j) = "away"
  BY <1>6, <1>9, <1>11 DEF Mode
<1>13. ASSUME ~s.broken PROVE Sound(s, m, q, jobs)
  <2>1. s.job # 0
    BY <1>3, <1>13 DEF Sound, Blank
  <2>2. PICK J \in JobType, r \in Nat, e \in Nat :
            /\ J = jobs[s.job] /\ J.len \in Nat /\ J.reply \in Nat /\ s.job \in 1 .. Len(jobs)
            /\ ParentOK(s, "data", p, J)
            /\ r <= J.len + 1 /\ e <= J.reply + 2
            /\ UpOK(s, Taken(s, "data", p, J), J, e)
            /\ Alive(s) => ChildOK(s, "data", p, J, r, e)
    BY <1>1, <1>3, <1>13, <2>1, BusyParts
  <2>3. J.len \in Nat /\ J.reply \in Nat /\ r <= J.len + 1 /\ e <= J.reply + 2
    BY <2>2
  <2>4. /\ p.job = s.job /\ s.state \in {"RUN", "IDLE"} /\ ~J.answered
        /\ s.state = "IDLE" => Holds(p.buf, s.job, J.reply)
    BY <1>2, <2>2, <2>3 DEF ParentOK
  <2>5. m # "write" /\ m # "data"
    BY <1>12, <2>4
  <2>6. ParentOK(s, m, q, J)
    BY <1>9, <1>12, <2>4 DEF ParentOK
  <2>7. Taken(s, m, q, J) = Taken(s, "data", p, J)
    BY <1>2, <2>3, <2>4, <2>5 DEF Taken
  <2>8. UpOK(s, Taken(s, m, q, J), J, e)
    BY <2>2, <2>7
  <2>9. Alive(s) => ChildOK(s, m, q, J, r, e)
    BY <2>2, <2>5 DEF ChildOK, DownOK, Sent, DgramOK
  <2>10. J = jobs[s.job]
    BY <2>2
  <2> QED
    BY <2>1, <2>3, <2>6, <2>8, <2>9, <2>10, Rebuilt
<1>14. Sound(s, Mode(parent', i), parent', jobs)
  BY <1>8, <1>11, <1>13 DEF Sound
<1>15. ParentGood(own, parent') /\ \A j \in Slots \ {i} : Mode(parent, j) = "away" /\ Mode(parent', j) = "away"
  BY <1>1, <1>8, <1>10, <1>12
<1> QED
  BY <1>1, <1>2, <1>4, <1>5, <1>14, <1>15, QuietStep

LEMMA Responds == PInv /\ ShprocRespond => PInv'
<1> SUFFICES ASSUME PInv, ShprocRespond PROVE PInv'
  OBVIOUS
<1>1. PICK own \in [1 .. Len(jobs) -> Slots], i \in Slots, s \in SlotType, p \in ParentType :
           /\ Typed /\ AllSound /\ OwnedBy(own)
           /\ p = parent /\ i = p.at /\ s = slot[i]
           /\ SlotGood(own, s, i) /\ ParentGood(own, p)
           /\ Sound(s, Mode(p, i), p, jobs)
           /\ \A j \in Slots \ {i} : Mode(p, j) = "away"
  BY AtWork DEF ShprocRespond
<1>2. p.pc = "respond" /\ crashes' = crashes /\ slot' = slot
  BY <1>1 DEF ShprocRespond
<1>3. Sound(s, "respond", p, jobs)
  BY <1>1, <1>2 DEF Mode
<1>4. crashes' \in 0 .. MaxCrashes
  BY <1>1, <1>2 DEF Typed
<1>5. slot' = [slot EXCEPT ![i] = s]
  BY <1>1, <1>2 DEF Typed
<1>6. PICK q : q = [p EXCEPT !.pc = "head"]
  OBVIOUS
<1>7. parent' = q
  BY <1>1, <1>6 DEF ShprocRespond
<1>8. /\ q \in ParentType /\ q.pc = "head" /\ q.at = i /\ q.job = p.job
  BY <1>1, <1>6 DEF ParentType
<1>9. Mine(own, p.job, i)
  BY <1>1, <1>2 DEF ParentGood
<1>10. p.job \in 1 .. Len(jobs) /\ jobs[p.job] \in JobType
  BY <1>1, <1>9, OwnedUnits
<1>11. PICK K : K = [jobs[p.job] EXCEPT !.answered = TRUE]
  OBVIOUS
<1>12. /\ K \in JobType /\ K.len = jobs[p.job].len /\ K.reply = jobs[p.job].reply
       /\ K.fd = jobs[p.job].fd
  BY <1>10, <1>11 DEF JobType
<1>13. jobs \in Seq(JobType)
  BY <1>1 DEF Typed
<1>14. jobs' = [jobs EXCEPT ![p.job] = K]
  BY <1>1, <1>10, <1>11, <1>13 DEF ShprocRespond
<1>15. /\ jobs' \in Seq(JobType) /\ Len(jobs') = Len(jobs) /\ jobs'[p.job] = K
       /\ \A j \in 1 .. Len(jobs) : j # p.job => jobs'[j] = jobs[j]
  BY <1>10, <1>12, <1>13, <1>14
<1>16. Mode(q, i) = "away" /\ \A j \in Slots \ {i} : Mode(q, j) = "away"
  BY <1>8 DEF Mode
<1>17. ASSUME ~s.broken PROVE Sound(s, "away", q, jobs')
  <2>1. s.job # 0
    BY <1>3, <1>17 DEF Sound, Blank
  <2>2. PICK J \in JobType, r \in Nat, e \in Nat :
            /\ J = jobs[s.job] /\ J.len \in Nat /\ J.reply \in Nat /\ s.job \in 1 .. Len(jobs)
            /\ ParentOK(s, "respond", p, J)
            /\ r <= J.len + 1 /\ e <= J.reply + 2
            /\ UpOK(s, Taken(s, "respond", p, J), J, e)
            /\ Alive(s) => ChildOK(s, "respond", p, J, r, e)
    BY <1>1, <1>3, <1>17, <2>1, BusyParts
  <2>3. J.len \in Nat /\ J.reply \in Nat /\ r <= J.len + 1 /\ e <= J.reply + 2
    BY <2>2
  <2>4. p.job = s.job /\ s.state = "IDLE"
    BY <2>2 DEF ParentOK
  <2>5. K.len = J.len /\ K.reply = J.reply /\ jobs'[s.job] = K
    BY <1>12, <1>15, <2>2, <2>4
  <2>6. ParentOK(s, "away", q, K)
    BY <2>4 DEF ParentOK
  <2>7. UpOK(s, Taken(s, "away", q, K), K, e)
    BY <2>2, <2>4, <2>5 DEF UpOK, Taken
  <2>8. Alive(s) => ChildOK(s, "away", q, K, r, e)
    BY <2>2, <2>5, SMTT(20) DEF ChildOK, DownOK, Sent, WorkerOK, DgramOK
  <2> QED
    BY <2>1, <2>3, <2>5, <2>6, <2>7, <2>8, Rebuilt
<1>18. Sound(s, Mode(parent', i), parent', jobs')
  BY <1>7, <1>16, <1>17 DEF Sound
<1>19. ParentGood(own, parent')
  BY <1>1, <1>7, <1>8 DEF ParentGood
<1>20. \A j \in Slots \ {i} : Mode(parent, j) = "away" /\ Mode(parent', j) = "away"
  BY <1>1, <1>7, <1>16
<1>21. \A j \in 1 .. Len(jobs) : own[j] # i => jobs'[j] = jobs[j]
  BY <1>9, <1>15 DEF Mine
<1>22. own \in [1 .. Len(jobs') -> Slots] /\ Len(jobs') >= Len(jobs) /\ jobs' \in Seq(JobType)
       /\ Len(jobs') <= MaxJobs /\ \A j \in 1 .. Len(jobs) : own[j] = own[j]
  BY <1>1, <1>13, <1>15 DEF Typed
<1> QED
  BY <1>1, <1>4, <1>5, <1>18, <1>19, <1>20, <1>21, <1>22, SlotStep

-----------------------------------------------------------------------------
(* The workers.                                                            *)

(* The worker of slot i.                                                   *)
LEMMA AtWorker ==
  ASSUME PInv, NEW i \in Slots
  PROVE  \E own \in [1 .. Len(jobs) -> Slots], s \in SlotType, w \in WorkerType,
            p \in ParentType, m \in {"write", "data", "respond", "away"} :
           /\ Typed /\ AllSound /\ OwnedBy(own)
           /\ p = parent /\ s = slot[i] /\ w = s.worker /\ m = Mode(p, i)
           /\ SlotGood(own, s, i) /\ WorkerGood(own, w, i)
           /\ StreamGood(own, s.down, i) /\ StreamGood(own, s.up, i)
           /\ Sound(s, m, p, jobs)
<1>1. Typed /\ AllSound
  BY DEF PInv
<1>2. PICK own \in [1 .. Len(jobs) -> Slots] : OwnedBy(own)
  BY DEF PInv
<1>3. PICK p \in ParentType : p = parent
  BY <1>2 DEF OwnedBy, ParentGood
<1>4. PICK s \in SlotType : s = slot[i]
  BY <1>1 DEF Typed
<1>5. PICK w \in WorkerType : w = s.worker
  BY DEF SlotType
<1>6. PICK m \in {"write", "data", "respond", "away"} : m = Mode(p, i)
  BY DEF Mode
<1>7. SlotGood(own, s, i) /\ Sound(s, m, p, jobs)
  BY <1>1, <1>2, <1>3, <1>4, <1>6, AtSlot
<1>8. WorkerGood(own, w, i) /\ StreamGood(own, s.down, i) /\ StreamGood(own, s.up, i)
  BY <1>5, <1>7 DEF SlotGood
<1> QED
  BY <1>1, <1>2, <1>3, <1>4, <1>5, <1>6, <1>7, <1>8

LEMMA WorkerStepped ==
  ASSUME Typed, AllSound,
         NEW own \in [1 .. Len(jobs) -> Slots], OwnedBy(own),
         NEW i \in Slots, NEW t, slot' = [slot EXCEPT ![i] = t],
         parent' = parent, jobs' = jobs, crashes' \in 0 .. MaxCrashes,
         NEW p, NEW m, p = parent, m = Mode(p, i),
         SlotGood(own, t, i), Sound(t, m, p, jobs)
  PROVE  PInv'
<1>1. ParentGood(own, parent')
  BY DEF OwnedBy
<1>2. Sound(t, Mode(parent', i), parent', jobs)
  OBVIOUS
<1> QED
  BY <1>1, <1>2, QuietStep

(* What the parent knows of a slot depends on its state and its request.   *)
LEMMA SameParent ==
  ASSUME NEW s, NEW t, NEW m, NEW p, NEW J, t.state = s.state, t.job = s.job
  PROVE  /\ ParentOK(s, m, p, J) => ParentOK(t, m, p, J)
         /\ Taken(t, m, p, J) = Taken(s, m, p, J)
<1>1. ParentOK(s, m, p, J) => ParentOK(t, m, p, J)
  BY DEF ParentOK
<1>2. Taken(t, m, p, J) = Taken(s, m, p, J)
  BY DEF Taken
<1> QED
  BY <1>1, <1>2

LEMMA Counts ==
  ASSUME NEW s \in SlotType, NEW m, NEW p \in ParentType, NEW J, J.len \in Nat, J.reply \in Nat,
         ParentOK(s, m, p, J)
  PROVE  Sent(m, p, J) \in 1 .. J.len + 1 /\ Taken(s, m, p, J) \in 0 .. J.reply + 2
<1>1. p.left \in Nat
  BY DEF ParentType
<1>2. Sent(m, p, J) \in 1 .. J.len + 1
  <2>1. CASE m = "write"
    <3>1. p.left <= J.len
      BY <2>1 DEF ParentOK
    <3> QED
      BY <1>1, <2>1, <3>1 DEF Sent
  <2>2. CASE m # "write"
    BY <2>2 DEF Sent
  <2> QED
    BY <2>1, <2>2
<1>3. Taken(s, m, p, J) \in 0 .. J.reply + 2
  <2>1. CASE m = "write" \/ s.state \in {"PEND", "RUN"}
    BY <2>1 DEF Taken
  <2>2. CASE ~(m = "write" \/ s.state \in {"PEND", "RUN"}) /\ m = "data"
    <3>1. p.left <= J.reply
      BY <2>2 DEF ParentOK
    <3> QED
      BY <1>1, <2>2, <3>1 DEF Taken
  <2>3. CASE ~(m = "write" \/ s.state \in {"PEND", "RUN"}) /\ m # "data"
    BY <2>3 DEF Taken
  <2> QED
    BY <2>1, <2>2, <2>3
<1> QED
  BY <1>2, <1>3

LEMMA DownTaken ==
  ASSUME NEW s, NEW t, NEW J, NEW n \in Nat, NEW r \in Nat, DownOK(s, n, J, r),
         s.down \in Seq(Unit), s.down # <<>>, t.down = Tail(s.down), t.job = s.job,
         t.user_fd = s.user_fd
  PROVE  /\ DownOK(t, n, J, r + 1)
         /\ Head(s.down) = DownUnit(s.job, J.len, s.user_fd, r + 1)
<1>1. /\ Len(s.down) \in Nat \ {0} /\ Head(s.down) = s.down[1]
      /\ Len(t.down) = Len(s.down) - 1
      /\ \A k \in 1 .. Len(s.down) - 1 : t.down[k] = s.down[k + 1]
  BY Consumed
<1>2. /\ r <= n /\ Len(s.down) = n - r
      /\ \A k \in 1 .. n - r : s.down[k] = DownUnit(s.job, J.len, s.user_fd, r + k)
  BY DEF DownOK
<1>3. Head(s.down) = DownUnit(s.job, J.len, s.user_fd, r + 1)
  BY <1>1, <1>2
<1>4. ASSUME NEW k \in 1 .. n - (r + 1)
      PROVE  t.down[k] = DownUnit(t.job, J.len, t.user_fd, (r + 1) + k)
  <2>1. k \in 1 .. Len(s.down) - 1 /\ k + 1 \in 1 .. n - r
    BY <1>2
  <2>2. r + (k + 1) = (r + 1) + k
    OBVIOUS
  <2> QED
    BY <1>1, <1>2, <2>1, <2>2
<1> QED
  BY <1>1, <1>2, <1>3, <1>4 DEF DownOK

(* A worker that starts over, and one that gives up a frame.               *)
LEMMA FreshWorker ==
  /\ Fresh \in WorkerType /\ \A own, i : WorkerGood(own, Fresh, i)
  /\ Fresh.pc = "head" /\ Fresh.left = 0 /\ Fresh.fd = 0 /\ Fresh.job = 0
  /\ Fresh.buf = <<>> /\ Fresh.user_fd = 0
<1>1. Fresh \in WorkerType /\ Fresh.pc = "head" /\ Fresh.left = 0 /\ Fresh.fd = 0
      /\ Fresh.job = 0 /\ Fresh.buf = <<>> /\ Fresh.user_fd = 0
  BY DEF Fresh, WorkerType, WorkerPCs, FdValues
<1>2. Replies(Fresh)
  BY <1>1 DEF Replies
<1> QED
  BY <1>1, <1>2 DEF WorkerGood, InRequest

LEMMA GivesUp ==
  ASSUME NEW own, NEW i, NEW s \in SlotType, SlotGood(own, s, i),
         NEW t, t = [s EXCEPT !.worker = Fresh, !.broken = TRUE]
  PROVE  SlotGood(own, t, i) /\ \A m, p, js : Sound(t, m, p, js)
<1>1. PICK v \in WorkerType : v = Fresh
  BY FreshWorker
<1>2. t = [s EXCEPT !.worker = v, !.broken = TRUE]
  BY <1>1, Zenon
<1>3. WorkerGood(own, v, i)
  BY <1>1, FreshWorker
<1>4. /\ t \in SlotType /\ t.job = s.job /\ t.worker = v /\ t.down = s.down
      /\ t.up = s.up /\ t.broken = TRUE
  BY <1>2 DEF SlotType
<1> QED
  BY <1>3, <1>4 DEF SlotGood, Sound

LEMMA ReadsHeader == ASSUME NEW i \in Slots PROVE PInv /\ WorkerReadHeader(i) => PInv'
<1> SUFFICES ASSUME PInv, WorkerReadHeader(i) PROVE PInv'
  OBVIOUS
<1>1. PICK own \in [1 .. Len(jobs) -> Slots], s \in SlotType, w \in WorkerType,
           p \in ParentType, m \in {"write", "data", "respond", "away"} :
           /\ Typed /\ AllSound /\ OwnedBy(own)
           /\ p = parent /\ s = slot[i] /\ w = s.worker /\ m = Mode(p, i)
           /\ SlotGood(own, s, i) /\ WorkerGood(own, w, i)
           /\ StreamGood(own, s.down, i) /\ StreamGood(own, s.up, i)
           /\ Sound(s, m, p, jobs)
  BY AtWorker
<1>2. w.pc = "head" /\ s.down # <<>> /\ parent' = parent /\ jobs' = jobs /\ crashes' = crashes
  BY <1>1 DEF WorkerReadHeader, At
<1>3. PICK h \in Headers(Head(s.down)) :
        slot' = [slot EXCEPT ![i].down = Tail(@),
                             ![i].worker = [Fresh EXCEPT !.pc = "data", !.left = h.len,
                                                         !.user_fd = h.fd, !.job = h.job]]
  BY <1>1 DEF WorkerReadHeader
<1>4. crashes' \in 0 .. MaxCrashes
  BY <1>1, <1>2 DEF Typed
<1>5. StreamGood(own, Tail(s.down), i) /\ Head(s.down) \in Unit /\ Mine(own, Head(s.down).job, i)
  BY <1>1, <1>2, StreamTail
<1>6. /\ h.state \in States /\ h.len \in Nat /\ h.fd \in FdValues /\ Mine(own, h.job, i)
      /\ Head(s.down).kind = "head" => h = Head(s.down)
  BY <1>5, AsHeader
<1>7. h.job \in Nat /\ h.job # 0
  BY <1>1, <1>6, OwnedUnits
<1>8. PICK d \in Seq(Unit) : d = Tail(s.down)
  BY <1>5, Zenon DEF StreamGood
<1>9. PICK v : v = [Fresh EXCEPT !.pc = "data", !.left = h.len, !.user_fd = h.fd, !.job = h.job]
  OBVIOUS
<1>10. /\ v \in WorkerType /\ v.pc = "data" /\ v.left = h.len /\ v.user_fd = h.fd /\ v.job = h.job
       /\ v.fd = 0 /\ v.buf = <<>>
  <2>1. PICK f \in WorkerType : f = Fresh
    BY FreshWorker
  <2>2. v = [f EXCEPT !.pc = "data", !.left = h.len, !.user_fd = h.fd, !.job = h.job]
    BY <1>9, <2>1, Zenon
  <2>3. f.fd = 0 /\ f.buf = <<>>
    BY <2>1, FreshWorker
  <2> QED
    BY <1>6, <1>7, <2>2, <2>3 DEF WorkerType, WorkerPCs
<1>11. WorkerGood(own, v, i)
  BY <1>6, <1>7, <1>10 DEF WorkerGood, Replies
<1>12. PICK t : t = [s EXCEPT !.down = d, !.worker = v]
  OBVIOUS
<1>13. slot' = [slot EXCEPT ![i] = t]
  BY <1>1, <1>3, <1>8, <1>9, <1>12 DEF Typed
<1>14. /\ t \in SlotType /\ t.down = d /\ t.job = s.job /\ t.worker = v
       /\ t.up = s.up /\ t.broken = s.broken /\ t.state = s.state
       /\ t.user_fd = s.user_fd /\ t.dgram = s.dgram
  BY <1>10, <1>12 DEF SlotType
<1>15. SlotGood(own, t, i)
  BY <1>1, <1>5, <1>8, <1>11, <1>14 DEF SlotGood
<1>16. ASSUME ~s.broken PROVE Sound(t, m, p, jobs)
  <2>1. s.job # 0
    BY <1>1, <1>2, <1>16 DEF Sound, Blank
  <2>2. PICK J \in JobType, r \in Nat, e \in Nat :
            /\ J = jobs[s.job] /\ J.len \in Nat /\ J.reply \in Nat /\ s.job \in 1 .. Len(jobs)
            /\ ParentOK(s, m, p, J)
            /\ r <= J.len + 1 /\ e <= J.reply + 2
            /\ UpOK(s, Taken(s, m, p, J), J, e)
            /\ Alive(s) => ChildOK(s, m, p, J, r, e)
    BY <1>1, <1>16, <2>1, BusyParts
  <2>3. J.len \in Nat /\ J.reply \in Nat /\ r <= J.len + 1 /\ e <= J.reply + 2 /\ ParentOK(s, m, p, J)
    BY <2>2
  <2>4. Sent(m, p, J) \in 1 .. J.len + 1 /\ Taken(s, m, p, J) \in 0 .. J.reply + 2
    BY <2>3, Counts
  <2>5. Alive(s)
    BY <1>1, <1>2 DEF Alive
  <2>6. DownOK(s, Sent(m, p, J), J, r) /\ WorkerOK(s, J, r, e) /\ DgramOK(s, m, e)
    BY <2>2, <2>5 DEF ChildOK
  <2>7. s.down \in Seq(Unit) /\ Len(s.down) \in Nat \ {0}
    BY <1>1, <1>2 DEF StreamGood
  <2>8. r = 0 /\ e = 0
    <3>1. (r = 0 /\ e = 0) \/ r = J.len + 1
      BY <1>1, <1>2, <2>6 DEF WorkerOK
    <3>2. r # J.len + 1
      BY <2>3, <2>4, <2>6, <2>7 DEF DownOK
    <3> QED
      BY <3>1, <3>2
  <2>9. t.down = Tail(s.down) /\ Sent(m, p, J) \in Nat
    BY <1>8, <1>14, <2>4
  <2>10. DownOK(t, Sent(m, p, J), J, r + 1) /\ Head(s.down) = DownUnit(s.job, J.len, s.user_fd, r + 1)
    <3>1. PICK n \in Nat : n = Sent(m, p, J)
      BY <2>9
    <3>2. DownOK(s, n, J, r)
      BY <2>6, <3>1
    <3>3. DownOK(t, n, J, r + 1) /\ Head(s.down) = DownUnit(s.job, J.len, s.user_fd, r + 1)
      <4>1. /\ s.down \in Seq(Unit) /\ s.down # <<>> /\ t.down = Tail(s.down)
            /\ t.job = s.job /\ t.user_fd = s.user_fd
        BY <1>2, <1>14, <2>7, <2>9
      <4> QED
        BY <3>2, <4>1, DownTaken
    <3> QED
      BY <3>1, <3>3
  <2>11. Head(s.down) = Header("RUN", J.len, s.user_fd, s.job)
    BY <2>8, <2>10 DEF DownUnit
  <2>12. h = Header("RUN", J.len, s.user_fd, s.job)
    BY <1>6, <2>11 DEF Header
  <2>13. h.len = J.len /\ h.fd = s.user_fd /\ h.job = s.job
    BY <2>12 DEF Header
  <2>14. WorkerOK(t, J, 1, e)
    <3>1. Holds(v.buf, s.job, 0)
      BY <1>10 DEF Holds
    <3> QED
      BY <1>10, <1>14, <2>3, <2>8, <2>13, <3>1 DEF WorkerOK
  <2>15. DgramOK(t, m, e)
    BY <1>1, <1>2, <1>10, <1>14, <2>6 DEF DgramOK
  <2>16. ChildOK(t, m, p, J, 1, e)
    BY <2>8, <2>10, <2>14, <2>15 DEF ChildOK
  <2>17. ParentOK(t, m, p, J) /\ UpOK(t, Taken(t, m, p, J), J, e)
    <3>1. ParentOK(t, m, p, J) /\ Taken(t, m, p, J) = Taken(s, m, p, J)
      BY <1>14, <2>3, SameParent
    <3> QED
      BY <1>14, <2>2, <3>1 DEF UpOK
  <2>18. J = jobs[t.job] /\ t.job # 0 /\ 1 <= J.len + 1 /\ 1 \in Nat
    BY <1>14, <2>1, <2>2
  <2> QED
    BY <2>3, <2>16, <2>17, <2>18, Rebuilt
<1>17. Sound(t, m, p, jobs)
  BY <1>14, <1>16 DEF Sound
<1> QED
  BY <1>1, <1>2, <1>4, <1>13, <1>15, <1>17, WorkerStepped

LEMMA ReadsData == ASSUME NEW i \in Slots PROVE PInv /\ WorkerReadData(i) => PInv'
<1> SUFFICES ASSUME PInv, WorkerReadData(i) PROVE PInv'
  OBVIOUS
<1>1. PICK own \in [1 .. Len(jobs) -> Slots], s \in SlotType, w \in WorkerType,
           p \in ParentType, m \in {"write", "data", "respond", "away"} :
           /\ Typed /\ AllSound /\ OwnedBy(own)
           /\ p = parent /\ s = slot[i] /\ w = s.worker /\ m = Mode(p, i)
           /\ SlotGood(own, s, i) /\ WorkerGood(own, w, i)
           /\ StreamGood(own, s.down, i) /\ StreamGood(own, s.up, i)
           /\ Sound(s, m, p, jobs)
  BY AtWorker
<1>2. w.pc = "data" /\ parent' = parent /\ jobs' = jobs /\ crashes' = crashes
      /\ w.left \in Nat /\ w.job # 0
  BY <1>1 DEF WorkerReadData, At, WorkerType, WorkerGood, InRequest
<1>3. crashes' \in 0 .. MaxCrashes
  BY <1>1, <1>2 DEF Typed
<1>4. Alive(s)
  BY <1>1, <1>2 DEF Alive
<1>5. CASE w.left = 0
  <2>1. PICK v : v = [w EXCEPT !.pc = "ack"]
    OBVIOUS
  <2>2. /\ v \in WorkerType /\ v.pc = "ack" /\ v.left = w.left /\ v.user_fd = w.user_fd
        /\ v.job = w.job /\ v.fd = w.fd /\ v.buf = w.buf
    BY <2>1 DEF WorkerType, WorkerPCs
  <2>3. PICK t : t = [s EXCEPT !.worker = v]
    OBVIOUS
  <2>4. slot' = [slot EXCEPT ![i] = t]
    BY <1>1, <1>5, <2>1, <2>3 DEF WorkerReadData
  <2>5. WorkerGood(own, v, i)
    BY <1>1, <1>2, <2>2 DEF WorkerGood, Replies
  <2>6. /\ t \in SlotType /\ t.down = s.down /\ t.job = s.job /\ t.worker = v
        /\ t.up = s.up /\ t.broken = s.broken /\ t.state = s.state
        /\ t.user_fd = s.user_fd /\ t.dgram = s.dgram
    BY <2>2, <2>3 DEF SlotType
  <2>7. SlotGood(own, t, i)
    BY <1>1, <2>5, <2>6 DEF SlotGood
  <2>8. ASSUME ~s.broken PROVE Sound(t, m, p, jobs)
    <3>1. s.job # 0
      BY <1>1, <1>2, <2>8 DEF Sound, Blank
    <3>2. PICK J \in JobType, r \in Nat, e \in Nat :
              /\ J = jobs[s.job] /\ J.len \in Nat /\ J.reply \in Nat /\ s.job \in 1 .. Len(jobs)
              /\ ParentOK(s, m, p, J)
              /\ r <= J.len + 1 /\ e <= J.reply + 2
              /\ UpOK(s, Taken(s, m, p, J), J, e)
              /\ Alive(s) => ChildOK(s, m, p, J, r, e)
      BY <1>1, <2>8, <3>1, BusyParts
    <3>3. J.len \in Nat /\ J.reply \in Nat /\ r <= J.len + 1 /\ e <= J.reply + 2 /\ ParentOK(s, m, p, J)
      BY <3>2
    <3>4. DownOK(s, Sent(m, p, J), J, r) /\ WorkerOK(s, J, r, e) /\ DgramOK(s, m, e)
      BY <1>4, <3>2 DEF ChildOK
    <3>5. /\ w.job = s.job /\ w.user_fd = s.user_fd /\ w.fd = 0 /\ r = J.len + 1 /\ e = 0
          /\ Holds(w.buf, s.job, r - 1)
      BY <1>1, <1>2, <1>5, <3>3, <3>4 DEF WorkerOK
    <3>6. Holds(w.buf, s.job, J.len)
      BY <3>3, <3>5
    <3>7. WorkerOK(t, J, r, e)
      BY <2>2, <2>6, <3>5, <3>6 DEF WorkerOK
    <3>8. DgramOK(t, m, e) /\ DownOK(t, Sent(m, p, J), J, r)
      BY <1>1, <1>2, <2>2, <2>6, <3>4 DEF DgramOK, DownOK
    <3>9. ChildOK(t, m, p, J, r, e)
      BY <3>7, <3>8 DEF ChildOK
    <3>10. ParentOK(t, m, p, J) /\ UpOK(t, Taken(t, m, p, J), J, e)
      <4>1. ParentOK(t, m, p, J) /\ Taken(t, m, p, J) = Taken(s, m, p, J)
        BY <2>6, <3>3, SameParent
      <4> QED
        BY <2>6, <3>2, <4>1 DEF UpOK
    <3>11. J = jobs[t.job] /\ t.job # 0
      BY <2>6, <3>1, <3>2
    <3> QED
      BY <3>3, <3>9, <3>10, <3>11, Rebuilt
  <2>9. Sound(t, m, p, jobs)
    BY <2>6, <2>8 DEF Sound
  <2> QED
    BY <1>1, <1>2, <1>3, <2>4, <2>7, <2>9, WorkerStepped
<1>6. CASE w.left # 0 /\ s.down # <<>>
  <2>1. StreamGood(own, Tail(s.down), i) /\ Head(s.down) \in Unit /\ Mine(own, Head(s.down).job, i)
    BY <1>1, <1>6, StreamTail
  <2>2. PICK d \in Seq(Unit) : d = Tail(s.down)
    BY <2>1, Zenon DEF StreamGood
  <2>3. PICK x \in Nat : x = Head(s.down).job
    BY <1>1, <2>1, OwnedUnits
  <2>4. PICK b \in Seq(Nat) : b = Append(w.buf, x)
    <3>1. w.buf \in Seq(Nat)
      BY DEF WorkerType
    <3>2. Append(w.buf, x) \in Seq(Nat)
      BY <3>1
    <3> QED
      BY <3>2, Zenon
  <2>5. PICK l \in Nat : l = w.left - 1
    BY <1>2, <1>6
  <2>6. PICK v : v = [w EXCEPT !.left = l, !.buf = b]
    OBVIOUS
  <2>7. /\ v \in WorkerType /\ v.pc = "data" /\ v.left = l /\ v.user_fd = w.user_fd
        /\ v.job = w.job /\ v.fd = w.fd /\ v.buf = b
    BY <1>2, <2>6 DEF WorkerType
  <2>8. PICK t : t = [s EXCEPT !.down = d, !.worker = v]
    OBVIOUS
  <2>9. slot' = [slot EXCEPT ![i] = t]
    BY <1>1, <1>6, <2>2, <2>3, <2>4, <2>5, <2>6, <2>8 DEF WorkerReadData, SlotType
  <2>10. WorkerGood(own, v, i)
    BY <1>1, <1>2, <2>7 DEF WorkerGood, Replies
  <2>11. /\ t \in SlotType /\ t.down = d /\ t.job = s.job /\ t.worker = v
         /\ t.up = s.up /\ t.broken = s.broken /\ t.state = s.state
         /\ t.user_fd = s.user_fd /\ t.dgram = s.dgram
    BY <2>7, <2>8 DEF SlotType
  <2>12. SlotGood(own, t, i)
    BY <1>1, <2>1, <2>2, <2>10, <2>11 DEF SlotGood
  <2>13. ASSUME ~s.broken PROVE Sound(t, m, p, jobs)
    <3>1. s.job # 0
      BY <1>1, <1>2, <2>13 DEF Sound, Blank
    <3>2. PICK J \in JobType, r \in Nat, e \in Nat :
              /\ J = jobs[s.job] /\ J.len \in Nat /\ J.reply \in Nat /\ s.job \in 1 .. Len(jobs)
              /\ ParentOK(s, m, p, J)
              /\ r <= J.len + 1 /\ e <= J.reply + 2
              /\ UpOK(s, Taken(s, m, p, J), J, e)
              /\ Alive(s) => ChildOK(s, m, p, J, r, e)
      BY <1>1, <2>13, <3>1, BusyParts
    <3>3. J.len \in Nat /\ J.reply \in Nat /\ r <= J.len + 1 /\ e <= J.reply + 2 /\ ParentOK(s, m, p, J)
          /\ s.job \in Nat
      BY <3>2
    <3>4. Sent(m, p, J) \in Nat
      BY <3>3, Counts
    <3>5. DownOK(s, Sent(m, p, J), J, r) /\ WorkerOK(s, J, r, e) /\ DgramOK(s, m, e)
      BY <1>4, <3>2 DEF ChildOK
    <3>6. /\ w.job = s.job /\ w.user_fd = s.user_fd /\ w.fd = 0 /\ r > 0 /\ e = 0
          /\ r + w.left = J.len + 1 /\ Holds(w.buf, s.job, r - 1)
      BY <1>1, <1>2, <1>6, <3>5 DEF WorkerOK
    <3>7. s.down \in Seq(Unit) /\ t.down = Tail(s.down)
      BY <1>1, <2>2, <2>11 DEF StreamGood
    <3>8. DownOK(t, Sent(m, p, J), J, r + 1) /\ Head(s.down) = DownUnit(s.job, J.len, s.user_fd, r + 1)
      <4>1. PICK n \in Nat : n = Sent(m, p, J)
        BY <3>4
      <4>2. DownOK(s, n, J, r)
        BY <3>5, <4>1
      <4>3. DownOK(t, n, J, r + 1) /\ Head(s.down) = DownUnit(s.job, J.len, s.user_fd, r + 1)
        BY <1>6, <2>11, <3>4, <3>7, <4>2, DownTaken
      <4> QED
        BY <4>1, <4>3
    <3>9. Head(s.down) = Data(s.job)
      BY <3>6, <3>8 DEF DownUnit
    <3>10. x = s.job
      BY <2>3, <3>9 DEF Data
    <3>11. Holds(b, s.job, (r + 1) - 1)
      <4>1. PICK k \in Nat : k = r - 1
        BY <3>6
      <4>2. w.buf \in Seq(Nat) /\ Holds(w.buf, s.job, k)
        BY <3>6, <4>1 DEF WorkerType
      <4>3. Holds(b, s.job, k + 1)
        BY <2>4, <3>3, <3>10, <4>2, HoldsMore
      <4>4. k + 1 = (r + 1) - 1
        BY <3>6, <4>1
      <4> QED
        BY <4>3, <4>4
    <3>12. (r + 1) + l = J.len + 1 /\ r + 1 > 0 /\ r + 1 \in Nat /\ r + 1 <= J.len + 1
      BY <1>2, <2>5, <3>3, <3>6
    <3>13. WorkerOK(t, J, r + 1, e)
      BY <2>7, <2>11, <3>6, <3>11, <3>12 DEF WorkerOK
    <3>14. DgramOK(t, m, e)
      BY <1>1, <1>2, <2>7, <2>11, <3>5 DEF DgramOK
    <3>15. ChildOK(t, m, p, J, r + 1, e)
      BY <3>8, <3>13, <3>14 DEF ChildOK
    <3>16. ParentOK(t, m, p, J) /\ UpOK(t, Taken(t, m, p, J), J, e)
      <4>1. ParentOK(t, m, p, J) /\ Taken(t, m, p, J) = Taken(s, m, p, J)
        BY <2>11, <3>3, SameParent, SMTT(20)
      <4> QED
        BY <2>11, <3>2, <4>1 DEF UpOK
    <3>17. J = jobs[t.job] /\ t.job # 0
      BY <2>11, <3>1, <3>2
    <3> QED
      BY <3>3, <3>12, <3>15, <3>16, <3>17, Rebuilt
  <2>14. Sound(t, m, p, jobs)
    BY <2>11, <2>13 DEF Sound
  <2> QED
    BY <1>1, <1>2, <1>3, <2>9, <2>12, <2>14, WorkerStepped
<1>7. CASE w.left # 0 /\ s.down = <<>>
  <2>1. PICK t : t = [s EXCEPT !.worker = Fresh, !.broken = TRUE]
    OBVIOUS
  <2>2. slot' = [slot EXCEPT ![i] = t]
    BY <1>1, <1>7, <2>1 DEF WorkerReadData
  <2>3. SlotGood(own, t, i) /\ Sound(t, m, p, jobs)
    BY <1>1, <2>1, GivesUp
  <2> QED
    BY <1>1, <1>2, <1>3, <2>2, <2>3, WorkerStepped
<1> QED
  BY <1>5, <1>6, <1>7

(* The worker moves on and adds unit e + 1 of the answers.                 *)
LEMMA Emits ==
  ASSUME NEW s \in SlotType, NEW t \in SlotType, NEW m, NEW p \in ParentType,
         NEW J, NEW r \in Nat, NEW e \in Nat, J.len \in Nat, J.reply \in Nat,
         ParentOK(s, m, p, J), UpOK(s, Taken(s, m, p, J), J, e),
         DownOK(s, Sent(m, p, J), J, r),
         t.down = s.down, t.job = s.job, t.state = s.state, t.user_fd = s.user_fd,
         t.up = s.up \/ (\E u \in Unit : u = UpUnit(s.job, J.reply, e + 1) /\ t.up = Append(s.up, u))
  PROVE  /\ ParentOK(t, m, p, J) /\ DownOK(t, Sent(m, p, J), J, r)
         /\ t.up = s.up => UpOK(t, Taken(t, m, p, J), J, e)
         /\ t.up # s.up => UpOK(t, Taken(t, m, p, J), J, e + 1)
<1>1. ParentOK(t, m, p, J) /\ Taken(t, m, p, J) = Taken(s, m, p, J)
  BY SameParent
<1>2. DownOK(t, Sent(m, p, J), J, r)
  BY DEF DownOK
<1>3. PICK n \in Nat : n = Taken(s, m, p, J)
  BY Counts
<1>4. UpOK(s, n, J, e) /\ s.up \in Seq(Unit)
  BY <1>3 DEF SlotType
<1>5. ASSUME t.up # s.up PROVE UpOK(t, n, J, e + 1)
  <2>1. PICK u \in Unit : u = UpUnit(s.job, J.reply, e + 1) /\ t.up = Append(s.up, u)
    BY <1>5
  <2> QED
    BY <1>4, <2>1, UpAdded
<1>6. t.up = s.up => UpOK(t, n, J, e)
  BY <1>4 DEF UpOK
<1> QED
  BY <1>1, <1>2, <1>3, <1>5, <1>6

LEMMA Grows ==
  ASSUME NEW S, NEW q \in Seq(S), NEW u \in S
  PROVE  Append(q, u) # q
  OBVIOUS

LEMMA Acks == ASSUME NEW i \in Slots PROVE PInv /\ WorkerAck(i) => PInv'
<1> SUFFICES ASSUME PInv, WorkerAck(i) PROVE PInv'
  OBVIOUS
<1>1. PICK own \in [1 .. Len(jobs) -> Slots], s \in SlotType, w \in WorkerType,
           p \in ParentType, m \in {"write", "data", "respond", "away"} :
           /\ Typed /\ AllSound /\ OwnedBy(own)
           /\ p = parent /\ s = slot[i] /\ w = s.worker /\ m = Mode(p, i)
           /\ SlotGood(own, s, i) /\ WorkerGood(own, w, i)
           /\ StreamGood(own, s.down, i) /\ StreamGood(own, s.up, i)
           /\ Sound(s, m, p, jobs)
  BY AtWorker
<1>2. w.pc = "ack" /\ parent' = parent /\ jobs' = jobs /\ crashes' = crashes /\ w.job # 0
  BY <1>1 DEF WorkerAck, At, WorkerGood, InRequest
<1>3. crashes' \in 0 .. MaxCrashes
  BY <1>1, <1>2 DEF Typed
<1>4. PICK next \in {"recv", "run"} : next = IF w.user_fd # 0 THEN "recv" ELSE "run"
  OBVIOUS
<1>5. PICK v : v = [w EXCEPT !.pc = next]
  OBVIOUS
<1>6. /\ v \in WorkerType /\ v.pc = next /\ v.left = w.left /\ v.user_fd = w.user_fd
      /\ v.job = w.job /\ v.fd = w.fd /\ v.buf = w.buf
  BY <1>5 DEF WorkerType, WorkerPCs
<1>7. WorkerGood(own, v, i)
  BY <1>1, <1>2, <1>6 DEF WorkerGood, Replies
<1>8. CASE ~HasRoom(s.up)
  <2>1. PICK t : t = [s EXCEPT !.worker = v, !.broken = TRUE]
    OBVIOUS
  <2>2. slot' = [slot EXCEPT ![i] = t]
    BY <1>1, <1>4, <1>5, <1>8, <2>1 DEF WorkerAck
  <2>3. /\ t \in SlotType /\ t.job = s.job /\ t.worker = v /\ t.down = s.down
        /\ t.up = s.up /\ t.broken = TRUE
    BY <1>6, <2>1 DEF SlotType
  <2>4. SlotGood(own, t, i) /\ Sound(t, m, p, jobs)
    BY <1>1, <1>7, <2>3 DEF SlotGood, Sound
  <2> QED
    BY <1>1, <1>2, <1>3, <2>2, <2>4, WorkerStepped
<1>9. CASE HasRoom(s.up)
  <2>1. Mine(own, w.job, i)
    BY <1>1, <1>2 DEF WorkerGood
  <2>2. PICK u \in Unit : u = Header("RUN", 0, 0, w.job) /\ Mine(own, u.job, i)
    <3>1. w.job \in 0 .. MaxJobs
      BY <1>1, <2>1, ProcAssumption DEF Mine, Typed
    <3>2. Header("RUN", 0, 0, w.job) \in Unit /\ Header("RUN", 0, 0, w.job).job = w.job
      BY <3>1 DEF Header, Unit, States, FdValues
    <3> QED
      BY <2>1, <3>2
  <2>3. StreamGood(own, Append(s.up, u), i)
    BY <1>1, <1>9, <2>2, StreamAppend
  <2>4. PICK d \in Seq(Unit) : d = Append(s.up, u)
    BY <2>3, Zenon DEF StreamGood
  <2>5. PICK t : t = [s EXCEPT !.worker = v, !.up = d]
    OBVIOUS
  <2>6. slot' = [slot EXCEPT ![i] = t]
    BY <1>1, <1>4, <1>5, <1>9, <2>2, <2>4, <2>5 DEF WorkerAck
  <2>7. /\ t \in SlotType /\ t.down = s.down /\ t.job = s.job /\ t.worker = v
        /\ t.up = d /\ t.broken = s.broken /\ t.state = s.state
        /\ t.user_fd = s.user_fd /\ t.dgram = s.dgram
    BY <1>6, <2>5 DEF SlotType
  <2>8. SlotGood(own, t, i)
    BY <1>1, <1>7, <2>3, <2>4, <2>7 DEF SlotGood
  <2>9. ASSUME ~s.broken PROVE Sound(t, m, p, jobs)
    <3>1. s.job # 0
      BY <1>1, <1>2, <2>9 DEF Sound, Blank
    <3>2. PICK J \in JobType, r \in Nat, e \in Nat :
              /\ J = jobs[s.job] /\ J.len \in Nat /\ J.reply \in Nat /\ s.job \in 1 .. Len(jobs)
              /\ ParentOK(s, m, p, J)
              /\ r <= J.len + 1 /\ e <= J.reply + 2
              /\ UpOK(s, Taken(s, m, p, J), J, e)
              /\ Alive(s) => ChildOK(s, m, p, J, r, e)
      BY <1>1, <2>9, <3>1, BusyParts
    <3>3. J.len \in Nat /\ J.reply \in Nat /\ r <= J.len + 1 /\ e <= J.reply + 2 /\ ParentOK(s, m, p, J)
          /\ UpOK(s, Taken(s, m, p, J), J, e)
      BY <3>2
    <3>4. DownOK(s, Sent(m, p, J), J, r) /\ WorkerOK(s, J, r, e) /\ DgramOK(s, m, e)
      BY <1>1, <1>2, <3>2 DEF ChildOK, Alive
    <3>5. /\ w.job = s.job /\ w.user_fd = s.user_fd /\ w.fd = 0 /\ r = J.len + 1 /\ e = 0
          /\ Holds(w.buf, s.job, J.len)
      BY <1>1, <1>2, <3>4 DEF WorkerOK
    <3>6. u = UpUnit(s.job, J.reply, e + 1)
      BY <2>2, <3>5 DEF UpUnit
    <3>7. t.up = Append(s.up, u) /\ t.up # s.up
      <4>1. s.up \in Seq(Unit)
        BY DEF SlotType
      <4> QED
        BY <2>4, <2>7, <4>1, Grows
    <3>8. ParentOK(t, m, p, J) /\ DownOK(t, Sent(m, p, J), J, r) /\ UpOK(t, Taken(t, m, p, J), J, e + 1)
      BY <2>7, <3>3, <3>4, <3>6, <3>7, Emits, SMTT(20)
    <3>9. WorkerOK(t, J, r, e + 1)
      BY <1>4, <1>6, <2>7, <3>5 DEF WorkerOK
    <3>10. DgramOK(t, m, e + 1)
      BY <1>1, <1>2, <1>4, <1>6, <2>7, <3>4, <3>5 DEF DgramOK
    <3>11. ChildOK(t, m, p, J, r, e + 1)
      BY <3>8, <3>9, <3>10 DEF ChildOK
    <3>12. J = jobs[t.job] /\ t.job # 0 /\ e + 1 \in Nat /\ e + 1 <= J.reply + 2
      BY <2>7, <3>1, <3>2, <3>3, <3>5
    <3> QED
      BY <3>3, <3>8, <3>11, <3>12, Rebuilt
  <2>10. Sound(t, m, p, jobs)
    BY <2>7, <2>9 DEF Sound
  <2> QED
    BY <1>1, <1>2, <1>3, <2>6, <2>8, <2>10, WorkerStepped
<1> QED
  BY <1>8, <1>9

LEMMA ReceivesFd == ASSUME NEW i \in Slots PROVE PInv /\ WorkerRecvFd(i) => PInv'
<1> SUFFICES ASSUME PInv, WorkerRecvFd(i) PROVE PInv'
  OBVIOUS
<1>1. PICK own \in [1 .. Len(jobs) -> Slots], s \in SlotType, w \in WorkerType,
           p \in ParentType, m \in {"write", "data", "respond", "away"} :
           /\ Typed /\ AllSound /\ OwnedBy(own)
           /\ p = parent /\ s = slot[i] /\ w = s.worker /\ m = Mode(p, i)
           /\ SlotGood(own, s, i) /\ WorkerGood(own, w, i)
           /\ StreamGood(own, s.down, i) /\ StreamGood(own, s.up, i)
           /\ Sound(s, m, p, jobs)
  BY AtWorker
<1>2. w.pc = "recv" /\ parent' = parent /\ jobs' = jobs /\ crashes' = crashes /\ s.dgram # <<>>
  BY <1>1 DEF WorkerRecvFd, At
<1>3. crashes' \in 0 .. MaxCrashes
  BY <1>1, <1>2 DEF Typed
<1>4. s.dgram \in Seq(Fds)
  BY DEF SlotType
<1>5. PICK f \in Fds : f = Head(s.dgram)
  BY <1>2, <1>4, Consumed
<1>6. PICK g \in Seq(Fds) : g = Tail(s.dgram)
  <2>1. Tail(s.dgram) \in Seq(Fds)
    BY <1>2, <1>4, Consumed
  <2> QED
    BY <2>1, Zenon
<1>7. PICK v : v = [w EXCEPT !.pc = "run", !.fd = f]
  OBVIOUS
<1>8. /\ v \in WorkerType /\ v.pc = "run" /\ v.left = w.left /\ v.user_fd = w.user_fd
      /\ v.job = w.job /\ v.fd = f /\ v.buf = w.buf
  BY <1>7 DEF WorkerType, WorkerPCs, FdValues
<1>9. WorkerGood(own, v, i)
  BY <1>1, <1>2, <1>8 DEF WorkerGood, Replies, InRequest
<1>10. PICK t : t = [s EXCEPT !.worker = v, !.dgram = g]
  OBVIOUS
<1>11. slot' = [slot EXCEPT ![i] = t]
  BY <1>1, <1>5, <1>6, <1>7, <1>10 DEF WorkerRecvFd, Typed, SlotType, WorkerType
<1>12. /\ t \in SlotType /\ t.down = s.down /\ t.job = s.job /\ t.worker = v
       /\ t.up = s.up /\ t.broken = s.broken /\ t.state = s.state
       /\ t.user_fd = s.user_fd /\ t.dgram = g
  BY <1>8, <1>10 DEF SlotType
<1>13. SlotGood(own, t, i)
  BY <1>1, <1>9, <1>12 DEF SlotGood
<1>14. ASSUME ~s.broken PROVE Sound(t, m, p, jobs)
  <2>1. s.job # 0
    BY <1>1, <1>2, <1>14 DEF Sound, Blank
  <2>2. PICK J \in JobType, r \in Nat, e \in Nat :
            /\ J = jobs[s.job] /\ J.len \in Nat /\ J.reply \in Nat /\ s.job \in 1 .. Len(jobs)
            /\ ParentOK(s, m, p, J)
            /\ r <= J.len + 1 /\ e <= J.reply + 2
            /\ UpOK(s, Taken(s, m, p, J), J, e)
            /\ Alive(s) => ChildOK(s, m, p, J, r, e)
    BY <1>1, <1>14, <2>1, BusyParts
  <2>3. J.len \in Nat /\ J.reply \in Nat /\ r <= J.len + 1 /\ e <= J.reply + 2 /\ ParentOK(s, m, p, J)
        /\ UpOK(s, Taken(s, m, p, J), J, e)
    BY <2>2
  <2>4. DownOK(s, Sent(m, p, J), J, r) /\ WorkerOK(s, J, r, e) /\ DgramOK(s, m, e)
    BY <1>1, <1>2, <2>2 DEF ChildOK, Alive
  <2>5. /\ w.job = s.job /\ r = J.len + 1 /\ e = 1 /\ Holds(w.buf, s.job, J.len)
    BY <1>1, <1>2, <2>4 DEF WorkerOK
  <2>6. s.user_fd # 0 /\ m # "write" /\ s.dgram = <<s.user_fd>>
    BY <1>2, <2>4 DEF DgramOK
  <2>7. f = s.user_fd /\ g = <<>>
    BY <1>5, <1>6, <2>6
  <2>8. WorkerOK(t, J, r, e)
    BY <1>8, <1>12, <2>5, <2>7 DEF WorkerOK
  <2>9. DgramOK(t, m, e)
    BY <1>8, <1>12, <2>6, <2>7 DEF DgramOK
  <2>10. ParentOK(t, m, p, J) /\ DownOK(t, Sent(m, p, J), J, r) /\ UpOK(t, Taken(t, m, p, J), J, e)
    BY <1>12, <2>3, <2>4, Emits
  <2>11. ChildOK(t, m, p, J, r, e)
    BY <2>8, <2>9, <2>10 DEF ChildOK
  <2>12. J = jobs[t.job] /\ t.job # 0
    BY <1>12, <2>1, <2>2
  <2> QED
    BY <2>3, <2>10, <2>11, <2>12, Rebuilt
<1>15. Sound(t, m, p, jobs)
  BY <1>12, <1>14 DEF Sound
<1> QED
  BY <1>1, <1>2, <1>3, <1>11, <1>13, <1>15, WorkerStepped

LEMMA Replying == ASSUME NEW i \in Slots PROVE PInv /\ WorkerReply(i) => PInv'
<1> SUFFICES ASSUME PInv, WorkerReply(i) PROVE PInv'
  OBVIOUS
<1>1. PICK own \in [1 .. Len(jobs) -> Slots], s \in SlotType, w \in WorkerType,
           p \in ParentType, m \in {"write", "data", "respond", "away"} :
           /\ Typed /\ AllSound /\ OwnedBy(own)
           /\ p = parent /\ s = slot[i] /\ w = s.worker /\ m = Mode(p, i)
           /\ SlotGood(own, s, i) /\ WorkerGood(own, w, i)
           /\ StreamGood(own, s.down, i) /\ StreamGood(own, s.up, i)
           /\ Sound(s, m, p, jobs)
  BY AtWorker
<1>2. w.pc = "reply" /\ parent' = parent /\ jobs' = jobs /\ crashes' = crashes /\ w.job # 0
      /\ w.left \in Nat
  BY <1>1 DEF WorkerReply, At, WorkerGood, InRequest, WorkerType
<1>3. crashes' \in 0 .. MaxCrashes
  BY <1>1, <1>2 DEF Typed
<1>4. CASE ~HasRoom(s.up)
  <2>1. PICK t : t = [s EXCEPT !.worker = Fresh, !.broken = TRUE]
    OBVIOUS
  <2>2. slot' = [slot EXCEPT ![i] = t]
    BY <1>1, <1>4, <2>1 DEF WorkerReply
  <2>3. SlotGood(own, t, i) /\ Sound(t, m, p, jobs)
    BY <1>1, <2>1, GivesUp
  <2> QED
    BY <1>1, <1>2, <1>3, <2>2, <2>3, WorkerStepped
<1>5. CASE HasRoom(s.up)
  <2>1. Mine(own, w.job, i) /\ Holds(w.buf, w.job, w.left) /\ w.left \in Sizes
    BY <1>1, <1>2 DEF WorkerGood, Replies
  <2>2. PICK u \in Unit : u = Header("IDLE", w.left, 0, w.job) /\ Mine(own, u.job, i)
    BY <1>1, <2>1, OwnedUnits DEF States, FdValues
  <2>3. StreamGood(own, Append(s.up, u), i)
    BY <1>1, <1>5, <2>2, StreamAppend
  <2>4. PICK d \in Seq(Unit) : d = Append(s.up, u)
    BY <2>3, Zenon DEF StreamGood
  <2>5. PICK v : v = [w EXCEPT !.pc = "write"]
    OBVIOUS
  <2>6. /\ v \in WorkerType /\ v.pc = "write" /\ v.left = w.left /\ v.user_fd = w.user_fd
        /\ v.job = w.job /\ v.fd = w.fd /\ v.buf = w.buf
    BY <2>5 DEF WorkerType, WorkerPCs
  <2>7. WorkerGood(own, v, i)
    BY <1>2, <2>1, <2>6 DEF WorkerGood, Replies
  <2>8. PICK t : t = [s EXCEPT !.worker = v, !.up = d]
    OBVIOUS
  <2>9. slot' = [slot EXCEPT ![i] = t]
    BY <1>1, <1>5, <2>2, <2>4, <2>5, <2>8 DEF WorkerReply
  <2>10. /\ t \in SlotType /\ t.down = s.down /\ t.job = s.job /\ t.worker = v
         /\ t.up = d /\ t.broken = s.broken /\ t.state = s.state
         /\ t.user_fd = s.user_fd /\ t.dgram = s.dgram
    BY <2>6, <2>8 DEF SlotType
  <2>11. SlotGood(own, t, i)
    BY <1>1, <2>3, <2>4, <2>7, <2>10 DEF SlotGood
  <2>12. ASSUME ~s.broken PROVE Sound(t, m, p, jobs)
    <3>1. s.job # 0
      BY <1>1, <1>2, <2>12 DEF Sound, Blank
    <3>2. PICK J \in JobType, r \in Nat, e \in Nat :
              /\ J = jobs[s.job] /\ J.len \in Nat /\ J.reply \in Nat /\ s.job \in 1 .. Len(jobs)
              /\ ParentOK(s, m, p, J)
              /\ r <= J.len + 1 /\ e <= J.reply + 2
              /\ UpOK(s, Taken(s, m, p, J), J, e)
              /\ Alive(s) => ChildOK(s, m, p, J, r, e)
      BY <1>1, <2>12, <3>1, BusyParts
    <3>3. J.len \in Nat /\ J.reply \in Nat /\ r <= J.len + 1 /\ e <= J.reply + 2 /\ ParentOK(s, m, p, J)
          /\ UpOK(s, Taken(s, m, p, J), J, e)
      BY <3>2
    <3>4. DownOK(s, Sent(m, p, J), J, r) /\ WorkerOK(s, J, r, e) /\ DgramOK(s, m, e)
      BY <1>1, <1>2, <3>2 DEF ChildOK, Alive
    <3>5. w.job = s.job /\ w.left = J.reply /\ r = J.len + 1 /\ e = 1
      BY <1>1, <1>2, <3>4 DEF WorkerOK
    <3>6. u = UpUnit(s.job, J.reply, e + 1)
      BY <2>2, <3>5 DEF UpUnit
    <3>7. t.up = Append(s.up, u) /\ t.up # s.up
      <4>1. s.up \in Seq(Unit)
        BY DEF SlotType
      <4> QED
        BY <2>4, <2>10, <4>1, Grows
    <3>8. ParentOK(t, m, p, J) /\ DownOK(t, Sent(m, p, J), J, r) /\ UpOK(t, Taken(t, m, p, J), J, e + 1)
      BY <2>10, <3>3, <3>4, <3>6, <3>7, Emits
    <3>9. WorkerOK(t, J, r, e + 1)
      BY <2>6, <2>10, <3>3, <3>5 DEF WorkerOK
    <3>10. DgramOK(t, m, e + 1)
      BY <1>1, <1>2, <2>6, <2>10, <3>4, <3>5 DEF DgramOK
    <3>11. ChildOK(t, m, p, J, r, e + 1)
      BY <3>8, <3>9, <3>10 DEF ChildOK
    <3>12. J = jobs[t.job] /\ t.job # 0 /\ e + 1 \in Nat /\ e + 1 <= J.reply + 2
      BY <2>10, <3>1, <3>2, <3>3, <3>5
    <3> QED
      BY <3>3, <3>8, <3>11, <3>12, Rebuilt
  <2>13. Sound(t, m, p, jobs)
    BY <2>10, <2>12 DEF Sound
  <2> QED
    BY <1>1, <1>2, <1>3, <2>9, <2>11, <2>13, WorkerStepped
<1> QED
  BY <1>4, <1>5

LEMMA Runs ==
  ASSUME NEW i \in Slots, NEW n \in Sizes
  PROVE  PInv /\ WorkerRun(i, n) => PInv'
<1> SUFFICES ASSUME PInv, WorkerRun(i, n) PROVE PInv'
  OBVIOUS
<1>1. PICK own \in [1 .. Len(jobs) -> Slots], s \in SlotType, w \in WorkerType,
           p \in ParentType, m \in {"write", "data", "respond", "away"} :
           /\ Typed /\ AllSound /\ OwnedBy(own)
           /\ p = parent /\ s = slot[i] /\ w = s.worker /\ m = Mode(p, i)
           /\ SlotGood(own, s, i) /\ WorkerGood(own, w, i)
           /\ StreamGood(own, s.down, i) /\ StreamGood(own, s.up, i)
           /\ Sound(s, m, p, jobs)
  BY AtWorker
<1>2. w.pc = "run" /\ parent' = parent /\ crashes' = crashes /\ w.job # 0 /\ n \in Nat
      /\ jobs' = [jobs EXCEPT ![w.job].reply = n]
  BY <1>1, ProcAssumption DEF WorkerRun, At, WorkerGood, InRequest
<1>3. crashes' \in 0 .. MaxCrashes
  BY <1>1, <1>2 DEF Typed
<1>4. Mine(own, w.job, i)
  BY <1>1, <1>2 DEF WorkerGood
<1>5. w.job \in 1 .. Len(jobs) /\ jobs[w.job] \in JobType /\ w.job \in Nat
  BY <1>1, <1>4, OwnedUnits
<1>6. PICK b \in Seq(Nat) : b = Content(w.job, n)
  <2>1. Content(w.job, n) \in Seq(Nat)
    BY <1>2, <1>5 DEF Content
  <2> QED
    BY <2>1, Zenon
<1>7. Holds(b, w.job, n)
  BY <1>2, <1>5, <1>6 DEF Content, Holds
<1>8. PICK v : v = [w EXCEPT !.pc = "reply", !.left = n, !.buf = b]
  OBVIOUS
<1>9. /\ v \in WorkerType /\ v.pc = "reply" /\ v.left = n /\ v.user_fd = w.user_fd
      /\ v.job = w.job /\ v.fd = w.fd /\ v.buf = b
  BY <1>2, <1>8 DEF WorkerType, WorkerPCs
<1>10. WorkerGood(own, v, i)
  BY <1>2, <1>4, <1>7, <1>9 DEF WorkerGood, Replies
<1>11. PICK t : t = [s EXCEPT !.worker = v]
  OBVIOUS
<1>12. slot' = [slot EXCEPT ![i] = t]
  BY <1>1, <1>6, <1>8, <1>11 DEF WorkerRun, Typed, SlotType, WorkerType
<1>13. /\ t \in SlotType /\ t.down = s.down /\ t.job = s.job /\ t.worker = v
       /\ t.up = s.up /\ t.broken = s.broken /\ t.state = s.state
       /\ t.user_fd = s.user_fd /\ t.dgram = s.dgram
  BY <1>9, <1>11 DEF SlotType
<1>14. SlotGood(own, t, i)
  BY <1>1, <1>10, <1>13 DEF SlotGood
<1>15. PICK K : K = [jobs[w.job] EXCEPT !.reply = n]
  OBVIOUS
<1>16. /\ K \in JobType /\ K.len = jobs[w.job].len /\ K.reply = n
       /\ K.answered = jobs[w.job].answered
  BY <1>2, <1>5, <1>15 DEF JobType
<1>17. jobs \in Seq(JobType)
  BY <1>1 DEF Typed
<1>18. jobs' = [jobs EXCEPT ![w.job] = K]
  BY <1>2, <1>5, <1>15, <1>17
<1>19. /\ jobs' \in Seq(JobType) /\ Len(jobs') = Len(jobs) /\ jobs'[w.job] = K
       /\ \A j \in 1 .. Len(jobs) : j # w.job => jobs'[j] = jobs[j]
  BY <1>5, <1>16, <1>17, <1>18
<1>20. ASSUME ~s.broken PROVE Sound(t, m, p, jobs')
  <2>1. s.job # 0
    BY <1>1, <1>2, <1>20 DEF Sound, Blank
  <2>2. PICK J \in JobType, r \in Nat, e \in Nat :
            /\ J = jobs[s.job] /\ J.len \in Nat /\ J.reply \in Nat /\ s.job \in 1 .. Len(jobs)
            /\ ParentOK(s, m, p, J)
            /\ r <= J.len + 1 /\ e <= J.reply + 2
            /\ UpOK(s, Taken(s, m, p, J), J, e)
            /\ Alive(s) => ChildOK(s, m, p, J, r, e)
    BY <1>1, <1>20, <2>1, BusyParts
  <2>3. J.len \in Nat /\ J.reply \in Nat /\ r <= J.len + 1 /\ e <= J.reply + 2 /\ ParentOK(s, m, p, J)
        /\ UpOK(s, Taken(s, m, p, J), J, e)
    BY <2>2
  <2>4. DownOK(s, Sent(m, p, J), J, r) /\ WorkerOK(s, J, r, e) /\ DgramOK(s, m, e)
    BY <1>1, <1>2, <2>2 DEF ChildOK, Alive
  <2>5. w.job = s.job /\ r = J.len + 1 /\ e = 1
    BY <1>1, <1>2, <2>4 DEF WorkerOK
  <2>6. K.len = J.len /\ K.answered = J.answered /\ jobs'[t.job] = K /\ K.reply = n
    BY <1>13, <1>16, <1>19, <2>2, <2>5
  <2>7. PICK k \in Nat : k = Taken(s, m, p, J)
    BY <2>3, Counts
  <2>8. k <= 1
    BY <2>3, <2>5, <2>7 DEF UpOK
  <2>9. m = "write" \/ s.state \in {"PEND", "RUN"}
    <3>1. SUFFICES ASSUME m # "write", s.state \notin {"PEND", "RUN"} PROVE FALSE
      OBVIOUS
    <3>2. p.left \in Nat
      BY DEF ParentType
    <3>3. CASE m = "data"
      <4>1. p.left <= J.reply
        BY <2>3, <3>1, <3>3 DEF ParentOK
      <4>2. k = 2 + (J.reply - p.left)
        BY <2>7, <3>1, <3>3 DEF Taken
      <4> QED
        BY <2>3, <2>8, <3>2, <4>1, <4>2
    <3>4. CASE m # "data"
      <4>1. k = 2 + J.reply
        BY <2>7, <3>1, <3>4 DEF Taken
      <4> QED
        BY <2>3, <2>8, <4>1
    <3> QED
      BY <3>3, <3>4
  <2>10. ParentOK(t, m, p, K)
    BY <1>13, <2>3, <2>6, <2>9 DEF ParentOK
  <2>11. Taken(t, m, p, K) = k
    BY <1>13, <2>7, <2>9 DEF Taken
  <2>12. UpOK(t, k, K, 1)
    <3>1. UpOK(s, k, J, 1)
      BY <2>3, <2>5, <2>7
    <3>2. ASSUME NEW x \in 1 .. 1 - k PROVE t.up[x] = UpUnit(t.job, K.reply, k + x)
      <4>1. k + x = 1
        BY <2>8
      <4>2. s.up[x] = UpUnit(s.job, J.reply, 1)
        BY <3>1, <4>1 DEF UpOK
      <4> QED
        BY <1>13, <4>1, <4>2 DEF UpUnit
    <3> QED
      BY <1>13, <3>1, <3>2 DEF UpOK
  <2>13. DownOK(t, Sent(m, p, K), K, r)
    BY <1>13, <2>4, <2>6 DEF DownOK, Sent
  <2>14. WorkerOK(t, K, r, 1)
    BY <1>9, <1>13, <2>5, <2>6 DEF WorkerOK
  <2>15. DgramOK(t, m, 1)
    BY <1>1, <1>2, <1>9, <1>13, <2>4 DEF DgramOK
  <2>16. ChildOK(t, m, p, K, r, 1)
    BY <2>13, <2>14, <2>15 DEF ChildOK
  <2>17. UpOK(t, Taken(t, m, p, K), K, 1)
    BY <2>11, <2>12
  <2>18. K = jobs'[t.job] /\ t.job # 0 /\ 1 \in Nat /\ 1 <= K.reply + 2 /\ K.len \in Nat
         /\ K.reply \in Nat /\ r <= K.len + 1
    BY <1>2, <1>13, <2>1, <2>3, <2>6, SMTT(20)
  <2> QED
    BY <2>10, <2>16, <2>17, <2>18, Rebuilt
<1>21. Sound(t, Mode(parent', i), parent', jobs')
  BY <1>1, <1>2, <1>13, <1>20 DEF Sound
<1>22. ParentGood(own, parent')
  BY <1>1, <1>2 DEF OwnedBy
<1>23. \A j \in 1 .. Len(jobs) : own[j] # i => jobs'[j] = jobs[j]
  BY <1>4, <1>19 DEF Mine
<1>24. own \in [1 .. Len(jobs') -> Slots] /\ Len(jobs') >= Len(jobs) /\ jobs' \in Seq(JobType)
       /\ Len(jobs') <= MaxJobs /\ \A j \in 1 .. Len(jobs) : own[j] = own[j]
  BY <1>1, <1>17, <1>19 DEF Typed
<1> QED
  BY <1>1, <1>2, <1>3, <1>12, <1>14, <1>21, <1>22, <1>23, <1>24, SlotStep

LEMMA HoldsLess ==
  ASSUME NEW b \in Seq(Nat), NEW job \in Nat, NEW n \in Nat \ {0}, Holds(b, job, n)
  PROVE  Tail(b) \in Seq(Nat) /\ Holds(Tail(b), job, n - 1) /\ Head(b) = job
<1>1. Len(b) = n /\ \A k \in 1 .. n : b[k] = job
  BY DEF Holds
<1>2. b # <<>>
  BY <1>1
<1>3. /\ Head(b) = b[1] /\ Tail(b) \in Seq(Nat) /\ Len(Tail(b)) = Len(b) - 1
      /\ \A k \in 1 .. Len(b) - 1 : Tail(b)[k] = b[k + 1]
  BY <1>2, Consumed
<1> QED
  BY <1>1, <1>3 DEF Holds

LEMMA WritesResult == ASSUME NEW i \in Slots PROVE PInv /\ WorkerWriteData(i) => PInv'
<1> SUFFICES ASSUME PInv, WorkerWriteData(i) PROVE PInv'
  OBVIOUS
<1>1. PICK own \in [1 .. Len(jobs) -> Slots], s \in SlotType, w \in WorkerType,
           p \in ParentType, m \in {"write", "data", "respond", "away"} :
           /\ Typed /\ AllSound /\ OwnedBy(own)
           /\ p = parent /\ s = slot[i] /\ w = s.worker /\ m = Mode(p, i)
           /\ SlotGood(own, s, i) /\ WorkerGood(own, w, i)
           /\ StreamGood(own, s.down, i) /\ StreamGood(own, s.up, i)
           /\ Sound(s, m, p, jobs)
  BY AtWorker
<1>2. w.pc = "write" /\ parent' = parent /\ jobs' = jobs /\ crashes' = crashes /\ w.job # 0
      /\ w.left \in Nat
  BY <1>1 DEF WorkerWriteData, At, WorkerGood, InRequest, WorkerType
<1>3. crashes' \in 0 .. MaxCrashes
  BY <1>1, <1>2 DEF Typed
<1>4. Mine(own, w.job, i) /\ Holds(w.buf, w.job, w.left)
  BY <1>1, <1>2 DEF WorkerGood, Replies
<1>5. CASE w.left = 0
  <2>1. PICK v \in WorkerType : v = Fresh
    BY FreshWorker
  <2>2. v.pc = "head" /\ v.left = 0 /\ WorkerGood(own, v, i)
    BY <2>1, FreshWorker
  <2>3. PICK t : t = [s EXCEPT !.worker = v]
    OBVIOUS
  <2>4. slot' = [slot EXCEPT ![i] = t]
    BY <1>1, <1>5, <2>1, <2>3 DEF WorkerWriteData
  <2>5. /\ t \in SlotType /\ t.down = s.down /\ t.job = s.job /\ t.worker = v
        /\ t.up = s.up /\ t.broken = s.broken /\ t.state = s.state
        /\ t.user_fd = s.user_fd /\ t.dgram = s.dgram
    BY <2>3 DEF SlotType
  <2>6. SlotGood(own, t, i)
    BY <1>1, <2>2, <2>5 DEF SlotGood
  <2>7. ASSUME ~s.broken PROVE Sound(t, m, p, jobs)
    <3>1. s.job # 0
      BY <1>1, <1>2, <2>7 DEF Sound, Blank
    <3>2. PICK J \in JobType, r \in Nat, e \in Nat :
              /\ J = jobs[s.job] /\ J.len \in Nat /\ J.reply \in Nat /\ s.job \in 1 .. Len(jobs)
              /\ ParentOK(s, m, p, J)
              /\ r <= J.len + 1 /\ e <= J.reply + 2
              /\ UpOK(s, Taken(s, m, p, J), J, e)
              /\ Alive(s) => ChildOK(s, m, p, J, r, e)
      BY <1>1, <2>7, <3>1, BusyParts
    <3>3. J.len \in Nat /\ J.reply \in Nat /\ r <= J.len + 1 /\ e <= J.reply + 2 /\ ParentOK(s, m, p, J)
          /\ UpOK(s, Taken(s, m, p, J), J, e)
      BY <3>2
    <3>4. DownOK(s, Sent(m, p, J), J, r) /\ WorkerOK(s, J, r, e) /\ DgramOK(s, m, e)
      BY <1>1, <1>2, <3>2 DEF ChildOK, Alive
    <3>5. ParentOK(t, m, p, J) /\ DownOK(t, Sent(m, p, J), J, r) /\ UpOK(t, Taken(t, m, p, J), J, e)
      BY <2>5, <3>3, <3>4, Emits
    <3>6. (r = 0 /\ e = 0) \/ (r = J.len + 1 /\ e = 2 + J.reply)
      BY <1>1, <1>2, <1>5, <3>3, <3>4 DEF WorkerOK
    <3>7. WorkerOK(t, J, r, e)
      BY <2>2, <2>5, <3>6 DEF WorkerOK
    <3>8. DgramOK(t, m, e)
      BY <1>1, <1>2, <2>2, <2>5, <3>4 DEF DgramOK
    <3>9. ChildOK(t, m, p, J, r, e)
      BY <3>5, <3>7, <3>8 DEF ChildOK
    <3>10. J = jobs[t.job] /\ t.job # 0
      BY <2>5, <3>1, <3>2
    <3> QED
      BY <3>3, <3>5, <3>9, <3>10, Rebuilt
  <2>8. Sound(t, m, p, jobs)
    BY <2>5, <2>7 DEF Sound
  <2> QED
    BY <1>1, <1>2, <1>3, <2>4, <2>6, <2>8, WorkerStepped
<1>6. CASE w.left # 0 /\ HasRoom(s.up)
  <2>1. w.job \in Nat /\ Data(w.job) \in Unit /\ Data(w.job).job = w.job
    BY <1>1, <1>4, OwnedUnits
  <2>2. PICK u \in Unit : u = Data(w.job) /\ Mine(own, u.job, i)
    BY <1>4, <2>1
  <2>3. w.buf \in Seq(Nat)
    BY DEF WorkerType
  <2>4. PICK l \in Nat : l = w.left - 1
    BY <1>2, <1>6
  <2>5. Tail(w.buf) \in Seq(Nat) /\ Holds(Tail(w.buf), w.job, w.left - 1) /\ Head(w.buf) = w.job
    BY <1>2, <1>4, <1>6, <2>1, <2>3, HoldsLess
  <2>6. PICK b \in Seq(Nat) : b = Tail(w.buf) /\ Holds(b, w.job, l)
    BY <2>4, <2>5, Zenon
  <2>7. StreamGood(own, Append(s.up, u), i)
    BY <1>1, <1>6, <2>2, StreamAppend
  <2>8. PICK d \in Seq(Unit) : d = Append(s.up, u)
    BY <2>7, Zenon DEF StreamGood
  <2>9. PICK v : v = [w EXCEPT !.buf = b, !.left = l]
    OBVIOUS
  <2>10. /\ v \in WorkerType /\ v.pc = "write" /\ v.left = l /\ v.user_fd = w.user_fd
         /\ v.job = w.job /\ v.fd = w.fd /\ v.buf = b
    BY <1>2, <2>9 DEF WorkerType
  <2>11. WorkerGood(own, v, i)
    BY <1>2, <1>4, <2>6, <2>10 DEF WorkerGood, Replies
  <2>12. PICK t : t = [s EXCEPT !.up = d, !.worker = v]
    OBVIOUS
  <2>13. slot' = [slot EXCEPT ![i] = t]
    BY <1>1, <1>6, <2>2, <2>4, <2>5, <2>6, <2>8, <2>9, <2>12 DEF WorkerWriteData, SlotType
  <2>14. /\ t \in SlotType /\ t.down = s.down /\ t.job = s.job /\ t.worker = v
         /\ t.up = d /\ t.broken = s.broken /\ t.state = s.state
         /\ t.user_fd = s.user_fd /\ t.dgram = s.dgram
    BY <2>10, <2>12 DEF SlotType
  <2>15. SlotGood(own, t, i)
    BY <1>1, <2>7, <2>8, <2>11, <2>14 DEF SlotGood
  <2>16. ASSUME ~s.broken PROVE Sound(t, m, p, jobs)
    <3>1. s.job # 0
      BY <1>1, <1>2, <2>16 DEF Sound, Blank
    <3>2. PICK J \in JobType, r \in Nat, e \in Nat :
              /\ J = jobs[s.job] /\ J.len \in Nat /\ J.reply \in Nat /\ s.job \in 1 .. Len(jobs)
              /\ ParentOK(s, m, p, J)
              /\ r <= J.len + 1 /\ e <= J.reply + 2
              /\ UpOK(s, Taken(s, m, p, J), J, e)
              /\ Alive(s) => ChildOK(s, m, p, J, r, e)
      BY <1>1, <2>16, <3>1, BusyParts
    <3>3. J.len \in Nat /\ J.reply \in Nat /\ r <= J.len + 1 /\ e <= J.reply + 2 /\ ParentOK(s, m, p, J)
          /\ UpOK(s, Taken(s, m, p, J), J, e)
      BY <3>2
    <3>4. DownOK(s, Sent(m, p, J), J, r) /\ WorkerOK(s, J, r, e) /\ DgramOK(s, m, e)
      BY <1>1, <1>2, <3>2 DEF ChildOK, Alive
    <3>5. w.job = s.job /\ r = J.len + 1 /\ e + w.left = 2 + J.reply /\ e >= 2
      BY <1>1, <1>2, <1>6, <3>4 DEF WorkerOK
    <3>6. u = UpUnit(s.job, J.reply, e + 1)
      BY <2>2, <3>5 DEF UpUnit
    <3>7. t.up = Append(s.up, u) /\ t.up # s.up
      <4>1. s.up \in Seq(Unit)
        BY DEF SlotType
      <4> QED
        BY <2>8, <2>14, <4>1, Grows
    <3>8. ParentOK(t, m, p, J) /\ DownOK(t, Sent(m, p, J), J, r) /\ UpOK(t, Taken(t, m, p, J), J, e + 1)
      <4>1. /\ J.len \in Nat /\ J.reply \in Nat /\ ParentOK(s, m, p, J)
            /\ UpOK(s, Taken(s, m, p, J), J, e) /\ DownOK(s, Sent(m, p, J), J, r)
        BY <3>3, <3>4
      <4>2. t \in SlotType /\ t.down = s.down /\ t.job = s.job /\ t.state = s.state
            /\ t.user_fd = s.user_fd
        BY <2>14
      <4>3. \E x \in Unit : x = UpUnit(s.job, J.reply, e + 1) /\ t.up = Append(s.up, x)
        BY <3>6, <3>7
      <4> QED
        BY <4>1, <4>2, <4>3, <3>7, Emits
    <3>9. e + 1 \in Nat /\ e + 1 <= J.reply + 2 /\ (e + 1) + l = 2 + J.reply /\ e + 1 >= 2
      <4>1. J.reply \in Nat /\ w.left \in Nat /\ w.left # 0
        BY <1>2, <1>6, <3>3
      <4>2. e + w.left = 2 + J.reply /\ e >= 2 /\ l = w.left - 1
        BY <2>4, <3>5
      <4> QED
        BY ONLY <4>1, <4>2, e \in Nat, l \in Nat
    <3>10. WorkerOK(t, J, r, e + 1)
      BY <2>10, <2>14, <3>5, <3>9 DEF WorkerOK
    <3>11. DgramOK(t, m, e + 1)
      BY <1>1, <1>2, <2>10, <2>14, <3>4, <3>5 DEF DgramOK
    <3>12. ChildOK(t, m, p, J, r, e + 1)
      BY <3>8, <3>10, <3>11 DEF ChildOK
    <3>13. J = jobs[t.job] /\ t.job # 0
      BY <2>14, <3>1, <3>2
    <3> QED
      BY <3>3, <3>8, <3>9, <3>12, <3>13, Rebuilt
  <2>17. Sound(t, m, p, jobs)
    BY <2>14, <2>16 DEF Sound
  <2> QED
    BY <1>1, <1>2, <1>3, <2>13, <2>15, <2>17, WorkerStepped
<1>7. CASE w.left # 0 /\ ~HasRoom(s.up)
  <2>1. PICK t : t = [s EXCEPT !.worker = Fresh, !.broken = TRUE]
    OBVIOUS
  <2>2. slot' = [slot EXCEPT ![i] = t]
    BY <1>1, <1>7, <2>1 DEF WorkerWriteData
  <2>3. SlotGood(own, t, i) /\ Sound(t, m, p, jobs)
    BY <1>1, <2>1, GivesUp
  <2> QED
    BY <1>1, <1>2, <1>3, <2>2, <2>3, WorkerStepped
<1> QED
  BY <1>5, <1>6, <1>7

(* A slot whose worker is dead now.                                        *)
LEMMA Dies ==
  ASSUME PInv, NEW i \in Slots, NEW v \in WorkerType, v.pc \in {"dead", "gone"},
         v.left = 0 \/ v.left = slot[i].worker.left,
         v.job = 0 \/ v.job = slot[i].worker.job,
         slot[i].worker.pc # "none", slot' = [slot EXCEPT ![i].worker = v],
         parent' = parent, jobs' = jobs, crashes' \in 0 .. MaxCrashes
  PROVE  PInv'
<1>1. PICK own \in [1 .. Len(jobs) -> Slots], s \in SlotType, w \in WorkerType,
           p \in ParentType, m \in {"write", "data", "respond", "away"} :
           /\ Typed /\ AllSound /\ OwnedBy(own)
           /\ p = parent /\ s = slot[i] /\ w = s.worker /\ m = Mode(p, i)
           /\ SlotGood(own, s, i) /\ WorkerGood(own, w, i)
           /\ StreamGood(own, s.down, i) /\ StreamGood(own, s.up, i)
           /\ Sound(s, m, p, jobs)
  BY AtWorker
<1>2. PICK t : t = [s EXCEPT !.worker = v]
  OBVIOUS
<1>3. slot' = [slot EXCEPT ![i] = t]
  BY <1>1, <1>2
<1>4. /\ t \in SlotType /\ t.down = s.down /\ t.job = s.job /\ t.worker = v
      /\ t.up = s.up /\ t.broken = s.broken /\ t.state = s.state
      /\ t.user_fd = s.user_fd /\ t.dgram = s.dgram
  BY <1>2 DEF SlotType
<1>5. WorkerGood(own, v, i)
  BY <1>1 DEF WorkerGood, Replies, InRequest
<1>6. SlotGood(own, t, i)
  BY <1>1, <1>4, <1>5 DEF SlotGood
<1>7. ~Alive(t)
  BY <1>4 DEF Alive
<1>8. Blank(s, m) => Blank(t, m)
  BY <1>1, <1>4 DEF Blank
<1>9. ASSUME NEW J PROVE Busy(s, m, p, J) => Busy(t, m, p, J)
  BY <1>4, <1>7 DEF Busy, ParentOK, UpOK, Taken
<1>10. Sound(t, m, p, jobs)
  BY <1>1, <1>4, <1>8, <1>9 DEF Sound
<1> QED
  BY <1>1, <1>3, <1>6, <1>10, WorkerStepped

LEMMA Crashes == ASSUME NEW i \in Slots PROVE PInv /\ Crash(i) => PInv'
<1> SUFFICES ASSUME PInv, Crash(i) PROVE PInv'
  OBVIOUS
<1>1. PICK f \in WorkerType : f = Fresh /\ f.left = 0 /\ f.job = 0
  BY FreshWorker
<1>2. PICK v : v = [f EXCEPT !.pc = "dead"]
  OBVIOUS
<1>3. v \in WorkerType /\ v.pc = "dead" /\ v.left = 0 /\ v.job = 0
  BY <1>1, <1>2 DEF WorkerType, WorkerPCs
<1>4. slot' = [slot EXCEPT ![i].worker = v] /\ slot[i].worker.pc # "none" /\ parent' = parent
      /\ jobs' = jobs
  BY <1>1, <1>2 DEF Crash, Alive
<1>5. crashes' \in 0 .. MaxCrashes
  BY ProcAssumption DEF Crash, PInv, Typed
<1> QED
  BY <1>3, <1>4, <1>5, Dies

LEMMA Reaps == ASSUME NEW i \in Slots PROVE PInv /\ Reap(i) => PInv'
<1> SUFFICES ASSUME PInv, Reap(i) PROVE PInv'
  OBVIOUS
<1>1. slot[i] \in SlotType
  BY DEF PInv, Typed
<1>2. PICK w \in WorkerType : w = slot[i].worker
  BY <1>1 DEF SlotType
<1>3. PICK v : v = [w EXCEPT !.pc = "gone"]
  OBVIOUS
<1>4. v \in WorkerType /\ v.pc = "gone" /\ v.left = w.left /\ v.job = w.job
  BY <1>3 DEF WorkerType, WorkerPCs
<1>5. slot' = [slot EXCEPT ![i].worker = v] /\ slot[i].worker.pc # "none" /\ parent' = parent
      /\ jobs' = jobs
  BY <1>1, <1>2, <1>3 DEF Reap, At
<1>6. crashes' \in 0 .. MaxCrashes
  BY DEF Reap, PInv, Typed
<1> QED
  BY <1>2, <1>4, <1>5, <1>6, Dies

-----------------------------------------------------------------------------
(* The invariant.                                                          *)

LEMMA StepInv == PInv /\ [Next]_vars => PInv'
<1> SUFFICES ASSUME PInv, [Next]_vars PROVE PInv'
  OBVIOUS
<1>1. CASE ShprocStart
  BY <1>1, Starts
<1>2. ASSUME NEW i \in Slots, ShprocStop(i) PROVE PInv'
  BY <1>2, Stops
<1>3. CASE ShprocShutdown
  BY <1>3, Shuts
<1>4. ASSUME NEW fd \in FdValues, NEW len \in Sizes, ShprocPush(fd, len) PROVE PInv'
  BY <1>4, Pushes
<1>5. CASE ShprocPoll
  BY <1>5, Polls
<1>6. CASE ParentStep
  <2>1. CASE ShprocPushData
    BY <2>1, Writes
  <2>2. CASE ShprocPushEnd
    BY <2>2, Schedules
  <2>3. CASE ShprocPollSlot
    BY <2>3, Scans
  <2>4. CASE ShprocReadHeader
    BY <2>4, Heads
  <2>5. CASE ShprocReadData
    BY <2>5, Takes
  <2>6. CASE ShprocReadEnd
    BY <2>6, Ends
  <2>7. CASE ShprocRespond
    BY <2>7, Responds
  <2> QED
    BY <1>6, <2>1, <2>2, <2>3, <2>4, <2>5, <2>6, <2>7 DEF ParentStep
<1>7. ASSUME NEW i \in Slots, WorkerStep(i) PROVE PInv'
  <2>1. CASE WorkerReadHeader(i)
    BY <2>1, ReadsHeader
  <2>2. CASE WorkerReadData(i)
    BY <2>2, ReadsData
  <2>3. CASE WorkerAck(i)
    BY <2>3, Acks
  <2>4. CASE WorkerRecvFd(i)
    BY <2>4, ReceivesFd
  <2>5. ASSUME NEW n \in Sizes, WorkerRun(i, n) PROVE PInv'
    BY <2>5, Runs
  <2>6. CASE WorkerReply(i)
    BY <2>6, Replying
  <2>7. CASE WorkerWriteData(i)
    BY <2>7, WritesResult
  <2> QED
    BY <1>7, <2>1, <2>2, <2>3, <2>4, <2>5, <2>6, <2>7 DEF WorkerStep
<1>8. ASSUME NEW i \in Slots, Crash(i) PROVE PInv'
  BY <1>8, Crashes
<1>9. ASSUME NEW i \in Slots, Reap(i) PROVE PInv'
  BY <1>9, Reaps
<1>10. CASE UNCHANGED vars
  BY <1>10 DEF vars, PInv, Typed, OwnedBy, AllSound
<1> QED
  BY <1>1, <1>2, <1>3, <1>4, <1>5, <1>6, <1>7, <1>8, <1>9, <1>10 DEF Next

LEMMA Invariant == Spec => []PInv
  BY InitInv, StepInv, PTL DEF Spec

-----------------------------------------------------------------------------
(* The theorems.                                                           *)

(* What the invariant says of a slot with a running worker.                *)
LEMMA RunningSlot ==
  ASSUME PInv, NEW i \in Slots, At(i, "run"), Whole(i)
  PROVE  /\ slot[i].job \in 1 .. Len(jobs) /\ jobs[slot[i].job].len \in Nat
         /\ slot[i].worker.job = slot[i].job
         /\ slot[i].worker.fd = slot[i].user_fd
         /\ slot[i].worker.buf \in Seq(Nat)
         /\ Holds(slot[i].worker.buf, slot[i].job, jobs[slot[i].job].len)
<1>1. PICK own \in [1 .. Len(jobs) -> Slots], s \in SlotType, w \in WorkerType,
           p \in ParentType, m \in {"write", "data", "respond", "away"} :
           /\ Typed /\ AllSound /\ OwnedBy(own)
           /\ p = parent /\ s = slot[i] /\ w = s.worker /\ m = Mode(p, i)
           /\ SlotGood(own, s, i) /\ WorkerGood(own, w, i)
           /\ StreamGood(own, s.down, i) /\ StreamGood(own, s.up, i)
           /\ Sound(s, m, p, jobs)
  BY AtWorker
<1>2. w.pc = "run" /\ ~s.broken
  BY <1>1 DEF At, Whole
<1>3. s.job # 0
  BY <1>1, <1>2 DEF Sound, Blank
<1>4. PICK J \in JobType, r \in Nat, e \in Nat :
          /\ J = jobs[s.job] /\ J.len \in Nat /\ J.reply \in Nat /\ s.job \in 1 .. Len(jobs)
          /\ ParentOK(s, m, p, J)
          /\ r <= J.len + 1 /\ e <= J.reply + 2
          /\ UpOK(s, Taken(s, m, p, J), J, e)
          /\ Alive(s) => ChildOK(s, m, p, J, r, e)
  BY <1>1, <1>2, <1>3, BusyParts
<1>5. WorkerOK(s, J, r, e)
  BY <1>1, <1>2, <1>4 DEF ChildOK, Alive
<1>6. w.job = s.job /\ w.fd = s.user_fd /\ Holds(w.buf, s.job, J.len)
  BY <1>1, <1>2, <1>5 DEF WorkerOK
<1>7. w.buf \in Seq(Nat)
  BY DEF WorkerType
<1> QED
  BY <1>1, <1>4, <1>6, <1>7

LEMMA HoldsContent ==
  ASSUME NEW b \in Seq(Nat), NEW job, NEW n \in Nat, Holds(b, job, n)
  PROVE  b = Content(job, n)
<1>1. b = [k \in 1 .. Len(b) |-> b[k]]
  OBVIOUS
<1> QED
  BY <1>1 DEF Holds, Content

(* Types: whatever crashes, stops and full buffers do, states are the four *)
(* SHPROC_ values, no stream holds more than its buffer, and the parent    *)
(* works on a slot of the pool (shproc_t, shproc_req_t).                   *)
THEOREM ProcTypes == Spec => []TypeOK
<1>1. PInv => TypeOK
  <2> SUFFICES ASSUME PInv PROVE TypeOK
    OBVIOUS
  <2>1. Typed
    BY DEF PInv
  <2>2. PICK own \in [1 .. Len(jobs) -> Slots] : OwnedBy(own)
    BY DEF PInv
  <2>3. ParentGood(own, parent)
    BY <2>2 DEF OwnedBy
  <2>4. Len(jobs) \in Nat /\ DOMAIN own = 1 .. Len(jobs)
    BY <2>1 DEF Typed
  <2>5. ASSUME NEW i \in Slots PROVE SlotOK(slot[i])
    <3>1. PICK s \in SlotType : s = slot[i]
      BY <2>1 DEF Typed
    <3>2. SlotGood(own, s, i)
      BY <2>2, <3>1 DEF OwnedBy
    <3>3. s.worker \in WorkerType /\ s.down \in Seq(Unit) /\ s.up \in Seq(Unit)
          /\ s.dgram \in Seq(Fds) /\ s.state \in States /\ s.user_fd \in FdValues
          /\ s.broken \in BOOLEAN
      BY DEF SlotType
    <3>4. s.worker.pc \in WorkerPCs /\ s.worker.fd \in FdValues
          /\ s.worker.user_fd \in FdValues /\ s.worker.left \in Nat
      BY <3>3 DEF WorkerType
    <3>5. s.job \in 0 .. Len(jobs) /\ s.worker.job \in 0 .. Len(jobs)
      BY <2>4, <3>2 DEF SlotGood, WorkerGood, Mine
    <3>6. Len(s.down) <= CAP /\ Len(s.up) <= CAP
      BY <3>2 DEF SlotGood, StreamGood
    <3>7. /\ \A k \in DOMAIN s.down : s.down[k] \in Unit
          /\ \A k \in DOMAIN s.up : s.up[k] \in Unit
          /\ \A k \in DOMAIN s.dgram : s.dgram[k] \in Fds
      BY <3>3
    <3> QED
      BY <3>1, <3>3, <3>4, <3>5, <3>6, <3>7 DEF SlotOK
  <2>6. parent.job \in 0 .. Len(jobs)
    BY <2>3, <2>4 DEF ParentGood
  <2> QED
    BY <2>1, <2>3, <2>5, <2>6 DEF TypeOK, Typed, ParentGood, ParentType
<1> QED
  BY <1>1, Invariant, PTL

(* The request callback sees exactly the data of the request scheduled     *)
(* last on its slot, as long as no frame was cut short there: whatever is  *)
(* stopped, killed and started over (shproc_schedule, shproc_child_poll).  *)
THEOREM ProcRequests == Spec => []RequestIntact
<1>1. PInv => RequestIntact
  <2> SUFFICES ASSUME PInv, NEW i \in Slots, At(i, "run"), Whole(i)
               PROVE  /\ slot[i].worker.job = slot[i].job
                      /\ slot[i].worker.buf = Content(slot[i].job, jobs[slot[i].job].len)
    BY DEF RequestIntact
  <2> QED
    BY RunningSlot, HoldsContent
<1> QED
  BY <1>1, Invariant, PTL

(* The response callback sees the complete result of the request scheduled *)
(* last on the slot, and for the first time (shproc_parent_poll).          *)
THEOREM ProcResponses == Spec => []ResponseIntact
<1>1. PInv => ResponseIntact
  <2> SUFFICES ASSUME PInv, parent.pc = "respond", Whole(parent.at)
               PROVE  /\ parent.job = slot[parent.at].job
                      /\ ~jobs[slot[parent.at].job].answered
                      /\ parent.buf = Content(slot[parent.at].job, jobs[slot[parent.at].job].reply)
    BY DEF ResponseIntact
  <2>1. PICK own \in [1 .. Len(jobs) -> Slots], i \in Slots, s \in SlotType, p \in ParentType :
           /\ Typed /\ AllSound /\ OwnedBy(own)
           /\ p = parent /\ i = p.at /\ s = slot[i]
           /\ SlotGood(own, s, i) /\ ParentGood(own, p)
           /\ Sound(s, Mode(p, i), p, jobs)
           /\ \A j \in Slots \ {i} : Mode(p, j) = "away"
    BY AtWork
  <2>2. Sound(s, "respond", p, jobs) /\ ~s.broken
    BY <2>1 DEF Mode, Whole
  <2>3. s.job # 0
    BY <2>2 DEF Sound, Blank
  <2>4. PICK J \in JobType, r \in Nat, e \in Nat :
            /\ J = jobs[s.job] /\ J.len \in Nat /\ J.reply \in Nat /\ s.job \in 1 .. Len(jobs)
            /\ ParentOK(s, "respond", p, J)
            /\ r <= J.len + 1 /\ e <= J.reply + 2
            /\ UpOK(s, Taken(s, "respond", p, J), J, e)
            /\ Alive(s) => ChildOK(s, "respond", p, J, r, e)
    BY <2>1, <2>2, <2>3, BusyParts
  <2>5. p.job = s.job /\ Holds(p.buf, s.job, J.reply) /\ ~J.answered
    BY <2>4 DEF ParentOK
  <2>6. p.buf \in Seq(Nat) /\ J.reply \in Nat
    BY <2>4 DEF ParentType
  <2>7. p.buf = Content(s.job, J.reply)
    BY <2>5, <2>6, HoldsContent
  <2> QED
    BY <2>1, <2>4, <2>5, <2>7
<1> QED
  BY <1>1, Invariant, PTL

(* An idle slot that is handed to the next request holds nothing of an     *)
(* earlier one, in its sockets or in its worker (shproc_get, SHPROC_IDLE). *)
THEOREM ProcIdle == Spec => []IdleIsClean
<1>1. PInv => IdleIsClean
  <2> SUFFICES ASSUME PInv, NEW i \in Slots, slot[i].state = "IDLE", Whole(i),
                      Alive(slot[i]), parent.at # i
               PROVE  /\ slot[i].down = <<>> /\ slot[i].up = <<>> /\ slot[i].dgram = <<>>
                      /\ slot[i].worker.pc \in {"head", "write"}
                      /\ slot[i].worker.left = 0
    BY DEF IdleIsClean
  <2>1. PICK own \in [1 .. Len(jobs) -> Slots] : OwnedBy(own)
    BY DEF PInv
  <2>2. Typed /\ AllSound
    BY DEF PInv
  <2>3. SlotGood(own, slot[i], i) /\ Sound(slot[i], Mode(parent, i), parent, jobs)
    BY <2>1, <2>2, AtSlot
  <2>4. Mode(parent, i) = "away" /\ ~slot[i].broken
    BY DEF Mode, Whole
  <2>5. Sound(slot[i], "away", parent, jobs)
    BY <2>3, <2>4
  <2> QED
    BY <2>2, <2>3, <2>4, <2>5, IdleSlot
<1> QED
  BY <1>1, Invariant, PTL

-----------------------------------------------------------------------------
(* Descriptors.  A slot's user_fd is the descriptor of the last request    *)
(* until its answer is read, and 0 otherwise, unless the slot was stopped  *)
(* (shproc_stop leaves user_fd alone).                                     *)

FdSlot(s, m, js) ==
  /\ s.state = "NONE" => s.user_fd = 0
  /\ (~s.broken /\ Alive(s)) =>
       IF s.job = 0 \/ (s.state = "IDLE" /\ m # "write")
       THEN s.user_fd = 0
       ELSE s.user_fd = js[s.job].fd

FInv == PInv /\ \A i \in Slots : FdSlot(slot[i], Mode(parent, i), jobs)

(* A step that leaves state, request and user_fd of a slot alone.          *)
LEMMA FdSame ==
  ASSUME NEW s, NEW t, NEW m, NEW n, NEW js, NEW ks, FdSlot(s, m, js),
         t.state = s.state, t.user_fd = s.user_fd, t.job = s.job,
         t.broken \in BOOLEAN, ~t.broken => ~s.broken, Alive(t) => Alive(s),
         (n = "write") = (m = "write"), s.job # 0 => ks[s.job].fd = js[s.job].fd
  PROVE  FdSlot(t, n, ks)
  BY DEF FdSlot

LEMMA FdStep ==
  ASSUME FInv, PInv', NEW i \in Slots, NEW t, slot' = [slot EXCEPT ![i] = t],
         \A k \in 1 .. Len(jobs) : jobs'[k].fd = jobs[k].fd,
         \A j \in Slots \ {i} : (Mode(parent', j) = "write") = (Mode(parent, j) = "write"),
         FdSlot(t, Mode(parent', i), jobs')
  PROVE  FInv'
<1>1. slot \in [Slots -> SlotType] /\ Typed /\ AllSound
  BY DEF FInv, PInv, Typed
<1>2. PICK own \in [1 .. Len(jobs) -> Slots] : OwnedBy(own)
  BY DEF FInv, PInv
<1>3. slot'[i] = t
  BY <1>1
<1>4. ASSUME NEW j \in Slots \ {i} PROVE FdSlot(slot'[j], Mode(parent', j), jobs')
  <2>1. PICK s \in SlotType : s = slot[j]
    BY <1>1
  <2>2. slot'[j] = s
    BY <1>1, <2>1
  <2>3. s.job # 0 => jobs'[s.job].fd = jobs[s.job].fd
    BY <1>1, <1>2, <2>1, AtSlot
  <2>4. FdSlot(s, Mode(parent, j), jobs) /\ s.broken \in BOOLEAN
    BY <2>1 DEF FInv, SlotType
  <2>5. FdSlot(s, Mode(parent', j), jobs')
    BY <2>3, <2>4, FdSame
  <2> QED
    BY <2>2, <2>5
<1>5. ASSUME NEW j \in Slots PROVE FdSlot(slot'[j], Mode(parent', j), jobs')
  BY <1>3, <1>4
<1> QED
  BY <1>5 DEF FInv

(* The same when the slot keeps its state, its request and its user_fd.    *)
LEMMA FdKept ==
  ASSUME FInv, PInv', NEW i \in Slots, NEW t \in SlotType, slot' = [slot EXCEPT ![i] = t],
         \A k \in 1 .. Len(jobs) : jobs'[k].fd = jobs[k].fd,
         \A j \in Slots : (Mode(parent', j) = "write") = (Mode(parent, j) = "write"),
         t.state = slot[i].state, t.user_fd = slot[i].user_fd, t.job = slot[i].job,
         ~t.broken => ~slot[i].broken, Alive(t) => Alive(slot[i])
  PROVE  FInv'
<1>1. Typed /\ AllSound
  BY DEF FInv, PInv
<1>2. PICK own \in [1 .. Len(jobs) -> Slots] : OwnedBy(own)
  BY DEF FInv, PInv
<1>3. PICK s \in SlotType : s = slot[i]
  BY <1>1 DEF Typed
<1>4. s.job # 0 => jobs'[s.job].fd = jobs[s.job].fd
  BY <1>1, <1>2, <1>3, AtSlot
<1>5. FdSlot(s, Mode(parent, i), jobs) /\ t.broken \in BOOLEAN
  BY <1>3 DEF FInv, SlotType
<1>6. FdSlot(t, Mode(parent', i), jobs')
  BY <1>3, <1>4, <1>5, FdSame
<1> QED
  BY <1>6, FdStep

LEMMA FdPushes ==
  ASSUME NEW fd \in FdValues, NEW len \in Sizes
  PROVE  FInv /\ PInv' /\ ShprocPush(fd, len) => FInv'
<1> SUFFICES ASSUME FInv, PInv', ShprocPush(fd, len) PROVE FInv'
  OBVIOUS
<1>1. Typed /\ AllSound /\ PInv
  BY DEF FInv, PInv
<1>2. PICK own \in [1 .. Len(jobs) -> Slots] : OwnedBy(own)
  BY <1>1 DEF PInv
<1>3. parent.pc = "ready" /\ Len(jobs) < MaxJobs /\ jobs \in Seq(JobType)
  BY <1>1 DEF ShprocPush, Typed
<1>4. PICK job \in Nat \ {0} : job = Len(jobs) + 1
  BY <1>1 DEF Typed
<1>5. PICK i \in ShprocPull :
        LET s == Pulled(slot[i], fd)
        IN  IF Alive(s) /\ HasRoom(s.down)
            THEN /\ slot' = [slot EXCEPT ![i] =
                      [s EXCEPT !.down = Append(s.down, Header("RUN", len, s.user_fd, job)),
                                !.job = job]]
                 /\ parent' = [Ready EXCEPT !.pc = "write", !.at = i,
                                            !.left = len, !.job = job]
                 /\ jobs' = Append(jobs, [fd |-> fd, len |-> len, reply |-> 0,
                                          answered |-> FALSE])
            ELSE /\ slot' = [slot EXCEPT ![i] = s]
                 /\ UNCHANGED <<parent, jobs>>
  BY <1>4 DEF ShprocPush
<1>6. i \in Slots /\ slot[i].state \in {"NONE", "IDLE"}
  BY <1>5 DEF ShprocPull, ShprocGet
<1>7. \A j : Mode(parent, j) = "away"
  BY <1>3 DEF Mode
<1>8. PICK z \in SlotType : z = slot[i]
  BY <1>1, <1>6 DEF Typed
<1>9. SlotGood(own, z, i) /\ Sound(z, "away", parent, jobs) /\ FdSlot(z, "away", jobs)
  BY <1>1, <1>2, <1>6, <1>7, <1>8, AtSlot DEF FInv
<1>10. PICK s : s = Pulled(z, fd)
  OBVIOUS
<1>11. /\ SlotGood(own, s, i) /\ s.state = "IDLE"
       /\ s.user_fd = IF fd # 0 THEN fd ELSE z.user_fd
       /\ (~s.broken /\ Alive(s)) =>
            /\ s.down = <<>> /\ s.up = <<>> /\ s.dgram = <<>>
            /\ s.worker.pc \in {"head", "write"} /\ s.worker.left = 0
  BY <1>1, <1>2, <1>6, <1>8, <1>9, <1>10, PulledSlot
<1>12. s \in SlotType
  BY <1>11 DEF SlotGood
<1>13. ASSUME ~s.broken, Alive(s) PROVE s.user_fd = fd /\ HasRoom(s.down)
  <2>1. z.user_fd = 0
    <3>1. CASE z.state = "NONE"
      BY <1>9, <3>1 DEF FdSlot
    <3>2. CASE z.state = "IDLE"
      <4>1. s = [z EXCEPT !.user_fd = IF fd # 0 THEN fd ELSE z.user_fd]
        BY <1>10, <3>2 DEF Pulled, SlotType
      <4>2. s.broken = z.broken /\ s.worker = z.worker
        BY <4>1 DEF SlotType
      <4>3. ~z.broken /\ Alive(z)
        BY <1>13, <4>2 DEF Alive
      <4> QED
        BY <1>9, <3>2, <4>3 DEF FdSlot
    <3> QED
      BY <1>6, <1>8, <3>1, <3>2
  <2>2. Len(s.down) = 0
    BY <1>11, <1>13
  <2>3. HasRoom(s.down)
    BY <2>2, ProcAssumption DEF HasRoom
  <2> QED
    BY <1>11, <2>1, <2>3
<1>14. CASE ~(Alive(s) /\ HasRoom(s.down))
  <2>1. slot' = [slot EXCEPT ![i] = s] /\ parent' = parent /\ jobs' = jobs
    BY <1>5, <1>8, <1>10, <1>14
  <2>2. FdSlot(s, "away", jobs)
    BY <1>11, <1>13, <1>14 DEF FdSlot
  <2>3. FdSlot(s, Mode(parent', i), jobs')
    BY <1>7, <2>1, <2>2
  <2>4. \A k \in 1 .. Len(jobs) : jobs'[k].fd = jobs[k].fd
    BY <2>1
  <2>5. \A j \in Slots \ {i} : (Mode(parent', j) = "write") = (Mode(parent, j) = "write")
    BY <2>1
  <2> QED
    BY <1>6, <2>1, <2>3, <2>4, <2>5, FdStep
<1>15. CASE Alive(s) /\ HasRoom(s.down)
  <2>1. PICK h : h = Append(s.down, Header("RUN", len, s.user_fd, job))
    OBVIOUS
  <2>2. PICK t : t = [s EXCEPT !.down = h, !.job = job]
    OBVIOUS
  <2>3. PICK K \in JobType : K = [fd |-> fd, len |-> len, reply |-> 0, answered |-> FALSE]
    BY DEF JobType
  <2>4. PICK q : q = [Ready EXCEPT !.pc = "write", !.at = i, !.left = len, !.job = job]
    OBVIOUS
  <2>5. slot' = [slot EXCEPT ![i] = t] /\ parent' = q /\ jobs' = Append(jobs, K)
    BY <1>5, <1>8, <1>10, <1>15, <2>1, <2>2, <2>3, <2>4
  <2>6. q.pc = "write" /\ q.at = i
    BY <2>4 DEF Ready
  <2>7. Mode(q, i) = "write" /\ \A j \in Slots \ {i} : Mode(q, j) = "away"
    BY <2>6 DEF Mode
  <2>8. jobs'[job] = K /\ \A k \in 1 .. Len(jobs) : jobs'[k] = jobs[k]
    BY <1>3, <1>4, <2>5, Appended
  <2>9. t.state = "IDLE" /\ t.user_fd = s.user_fd /\ t.job = job /\ t.broken = s.broken
    BY <1>11, <1>12, <2>2 DEF SlotType
  <2>10. K.fd = fd
    BY <2>3
  <2>11. FdSlot(t, "write", jobs')
    BY <1>4, <1>13, <1>15, <2>8, <2>9, <2>10 DEF FdSlot
  <2>12. \A j \in Slots \ {i} : (Mode(parent', j) = "write") = (Mode(parent, j) = "write")
    BY <1>7, <2>5, <2>7
  <2>13. \A k \in 1 .. Len(jobs) : jobs'[k].fd = jobs[k].fd
    BY <2>8
  <2>14. FdSlot(t, Mode(parent', i), jobs')
    BY <2>5, <2>7, <2>11
  <2> QED
    BY <1>6, <2>5, <2>12, <2>13, <2>14, FdStep
<1> QED
  BY <1>14, <1>15

LEMMA FdStarts == FInv /\ PInv' /\ ShprocStart => FInv'
<1> SUFFICES ASSUME FInv, PInv', ShprocStart PROVE FInv'
  OBVIOUS
<1>1. PICK i \in Slots : slot' = [slot EXCEPT ![i] = ShprocFork(slot[i])] /\ slot[i].state = "NONE"
  BY DEF ShprocStart, ShprocGet
<1>2. PICK s \in SlotType : s = slot[i]
  BY DEF FInv, PInv, Typed
<1>3. PICK t : t = ShprocFork(s)
  OBVIOUS
<1>4. t.state = "IDLE" /\ t.user_fd = s.user_fd /\ t.job = 0
  BY <1>3, ForkedSlot
<1>5. s.user_fd = 0
  BY <1>1, <1>2 DEF FInv, FdSlot
<1>6. parent.pc = "ready" /\ parent' = parent /\ jobs' = jobs
  BY DEF ShprocStart
<1>7. FdSlot(t, "away", jobs)
  BY <1>4, <1>5 DEF FdSlot
<1>8. FdSlot(t, Mode(parent', i), jobs')
  BY <1>6, <1>7 DEF Mode
<1>9. slot' = [slot EXCEPT ![i] = t]
  BY <1>1, <1>2, <1>3, Zenon
<1>10. \A k \in 1 .. Len(jobs) : jobs'[k].fd = jobs[k].fd
  BY <1>6
<1>11. \A j \in Slots \ {i} : (Mode(parent', j) = "write") = (Mode(parent, j) = "write")
  BY <1>6
<1> QED
  BY <1>8, <1>9, <1>10, <1>11, FdStep

(* A parent that neither starts nor ends a request and changes no slot.    *)
LEMMA FdWalks ==
  ASSUME FInv, PInv', slot' = slot,
         parent.pc # "write", parent'.pc # "write",
         \A k \in 1 .. Len(jobs) : jobs'[k].fd = jobs[k].fd
  PROVE  FInv'
<1>1. 1 \in Slots
  BY ProcAssumption DEF Slots
<1>2. slot[1] \in SlotType /\ slot' = [slot EXCEPT ![1] = slot[1]]
  BY <1>1 DEF FInv, PInv, Typed
<1>3. \A j \in Slots : (Mode(parent', j) = "write") = (Mode(parent, j) = "write")
  BY DEF Mode
<1> QED
  BY <1>1, <1>2, <1>3, FdKept

LEMMA FdWrites == FInv /\ PInv' /\ (ShprocPushData \/ ShprocPushEnd) => FInv'
<1> SUFFICES ASSUME FInv, PInv', ShprocPushData \/ ShprocPushEnd PROVE FInv'
  OBVIOUS
<1>0. PInv
  BY DEF FInv
<1>1. PICK own \in [1 .. Len(jobs) -> Slots], i \in Slots, s \in SlotType, p \in ParentType :
           /\ Typed /\ AllSound /\ OwnedBy(own)
           /\ p = parent /\ i = p.at /\ s = slot[i]
           /\ SlotGood(own, s, i) /\ ParentGood(own, p)
           /\ Sound(s, Mode(p, i), p, jobs)
           /\ \A j \in Slots \ {i} : Mode(p, j) = "away"
  BY <1>0, AtWork DEF ShprocPushData, ShprocPushEnd
<1>2. p.pc = "write" /\ jobs' = jobs /\ Mode(p, i) = "write" /\ slot \in [Slots -> SlotType]
  BY <1>1 DEF ShprocPushData, ShprocPushEnd, Mode, Typed
<1>3. FdSlot(s, "write", jobs)
  BY <1>1, <1>2 DEF FInv
<1>4. PICK t \in SlotType : t = slot'[i]
  BY <1>1 DEF PInv, Typed
<1>5. CASE ShprocPushData /\ Alive(s) /\ HasRoom(s.down)
  <2>1. /\ slot' = [slot EXCEPT ![i].down = Append(s.down, Data(p.job))]
        /\ parent' = [p EXCEPT !.left = p.left - 1]
    BY <1>1, <1>5 DEF ShprocPushData
  <2>2. slot' = [slot EXCEPT ![i] = t]
    BY <1>1, <1>2, <1>4, <2>1
  <2>3. t = [s EXCEPT !.down = Append(s.down, Data(p.job))]
    BY <1>1, <1>2, <1>4, <2>1
  <2>4. /\ t.state = s.state /\ t.user_fd = s.user_fd /\ t.job = s.job /\ t.broken = s.broken
        /\ t.worker = s.worker
    BY <2>3 DEF SlotType
  <2>5. parent'.pc = p.pc /\ parent'.at = p.at
    BY <2>1 DEF ParentType
  <2>6. \A j \in Slots : (Mode(parent', j) = "write") = (Mode(parent, j) = "write")
    BY <1>1, <2>5 DEF Mode
  <2>7. \A k \in 1 .. Len(jobs) : jobs'[k].fd = jobs[k].fd
    BY <1>2
  <2>8. Alive(t) => Alive(slot[i])
    BY <1>1, <2>4 DEF Alive
  <2> QED
    BY <1>1, <2>2, <2>4, <2>6, <2>7, <2>8, FdKept
<1>6. CASE ShprocPushData /\ ~(Alive(s) /\ HasRoom(s.down))
  <2>1. slot' = [slot EXCEPT ![i].broken = TRUE] /\ parent' = Ready
    BY <1>1, <1>6 DEF ShprocPushData
  <2>2. slot' = [slot EXCEPT ![i] = t]
    BY <1>1, <1>2, <1>4, <2>1
  <2>3. t = [s EXCEPT !.broken = TRUE]
    BY <1>1, <1>2, <1>4, <2>1
  <2>4. t.state = s.state /\ t.user_fd = s.user_fd /\ t.broken = TRUE
    BY <2>3 DEF SlotType
  <2>5. FdSlot(t, Mode(parent', i), jobs')
    BY <1>3, <2>4 DEF FdSlot
  <2>6. \A j \in Slots \ {i} : (Mode(parent', j) = "write") = (Mode(parent, j) = "write")
    BY <1>1, <2>1, ParentReady
  <2>7. \A k \in 1 .. Len(jobs) : jobs'[k].fd = jobs[k].fd
    BY <1>2
  <2> QED
    BY <2>2, <2>5, <2>6, <2>7, FdStep
<1>7. CASE ShprocPushEnd
  <2>1. PICK g : slot' = [slot EXCEPT ![i].state = "PEND", ![i].dgram = g] /\ parent' = Ready
    BY <1>1, <1>7 DEF ShprocPushEnd
  <2>2. slot' = [slot EXCEPT ![i] = t]
    BY <1>1, <1>2, <1>4, <2>1
  <2>3. t = [s EXCEPT !.state = "PEND", !.dgram = g]
    BY <1>1, <1>2, <1>4, <2>1
  <2>4. /\ t.state = "PEND" /\ t.user_fd = s.user_fd /\ t.broken = s.broken /\ t.job = s.job
        /\ t.worker = s.worker
    BY <2>3 DEF SlotType
  <2>5. Alive(t) = Alive(s)
    BY <2>4 DEF Alive
  <2>6. FdSlot(t, Mode(parent', i), jobs')
    BY <1>2, <1>3, <2>4, <2>5 DEF FdSlot
  <2>7. \A j \in Slots \ {i} : (Mode(parent', j) = "write") = (Mode(parent, j) = "write")
    BY <1>1, <2>1, ParentReady
  <2>8. \A k \in 1 .. Len(jobs) : jobs'[k].fd = jobs[k].fd
    BY <1>2
  <2> QED
    BY <2>2, <2>6, <2>7, <2>8, FdStep
<1> QED
  BY <1>5, <1>6, <1>7

LEMMA FdReads == FInv /\ PInv' /\ (ShprocReadHeader \/ ShprocReadData) => FInv'
<1> SUFFICES ASSUME FInv, PInv', ShprocReadHeader \/ ShprocReadData PROVE FInv'
  OBVIOUS
<1>0. PInv
  BY DEF FInv
<1>1. PICK own \in [1 .. Len(jobs) -> Slots], i \in Slots, s \in SlotType, p \in ParentType :
           /\ Typed /\ AllSound /\ OwnedBy(own)
           /\ p = parent /\ i = p.at /\ s = slot[i]
           /\ SlotGood(own, s, i) /\ ParentGood(own, p)
           /\ Sound(s, Mode(p, i), p, jobs)
           /\ \A j \in Slots \ {i} : Mode(p, j) = "away"
  BY <1>0, AtWork DEF ShprocReadHeader, ShprocReadData
<1>2. p.pc \in {"head", "data"} /\ jobs' = jobs /\ slot \in [Slots -> SlotType]
      /\ \A k \in 1 .. Len(jobs) : jobs'[k].fd = jobs[k].fd
  BY <1>1 DEF ShprocReadHeader, ShprocReadData, Typed
<1>3. parent'.pc \in {"scan", "data"}
  <2>1. NextSlot.pc = "scan"
    BY DEF NextSlot, Ready
  <2>2. ASSUME NEW x, NEW y, NEW z, parent' = [p EXCEPT !.pc = "data", !.left = x, !.buf = y, !.job = z]
        PROVE  parent'.pc = "data"
    BY <2>2 DEF ParentType
  <2>3. ASSUME NEW x, NEW y, p.pc = "data", parent' = [p EXCEPT !.left = x, !.buf = y]
        PROVE  parent'.pc = "data"
    BY <2>3 DEF ParentType
  <2>4. CASE ShprocReadHeader
    <3>1. CASE s.up = <<>>
      BY <1>1, <2>1, <2>4, <3>1 DEF ShprocReadHeader
    <3>2. CASE s.up # <<>>
      <4>1. PICK h : parent' = [p EXCEPT !.pc = "data", !.left = h.len, !.buf = <<>>, !.job = h.job]
        BY <1>1, <2>4, <3>2 DEF ShprocReadHeader
      <4> QED
        BY <2>2, <4>1
    <3> QED
      BY <3>1, <3>2
  <2>5. CASE ShprocReadData
    BY <1>1, <2>1, <2>3, <2>5 DEF ShprocReadData
  <2> QED
    BY <2>4, <2>5
<1>4. \A j \in Slots : (Mode(parent', j) = "write") = (Mode(parent, j) = "write")
  BY <1>1, <1>2, <1>3 DEF Mode
<1>5. PICK t \in SlotType : t = slot'[i]
  BY <1>1 DEF PInv, Typed
<1>6. FdSlot(s, Mode(p, i), jobs) /\ Mode(p, i) # "write" /\ Mode(parent', i) # "write"
  BY <1>1, <1>2, <1>3 DEF FInv, Mode
<1>7. CASE ShprocReadHeader /\ s.up # <<>>
  <2>1. PICK h : slot' = [slot EXCEPT ![i] = HeaderSeen(s, h)]
    BY <1>1, <1>7 DEF ShprocReadHeader
  <2>2. slot' = [slot EXCEPT ![i] = t] /\ t = HeaderSeen(s, h)
    BY <1>1, <1>2, <1>5, <2>1
  <2>3. /\ t.job = s.job /\ t.broken = s.broken /\ t.worker = s.worker
        /\ t.state = IF h.state \in {"RUN", "IDLE"} THEN h.state ELSE s.state
        /\ t.user_fd = IF h.state = "IDLE" THEN 0 ELSE s.user_fd
    BY <2>2 DEF HeaderSeen, SlotType
  <2>4. Alive(t) = Alive(s)
    BY <2>3 DEF Alive
  <2>5. Sound(s, "away", p, jobs)
    BY <1>1, <1>7 DEF ShprocReadHeader, Mode
  <2>6. (~s.broken /\ Alive(s)) => s.state # "IDLE"
    BY <1>1, <1>7, <2>5, IdleSlot
  <2>7. FdSlot(t, Mode(parent', i), jobs')
    BY <1>2, <1>6, <2>3, <2>4, <2>6 DEF FdSlot
  <2> QED
    BY <1>2, <1>4, <2>2, <2>7, FdStep
<1>8. CASE ~(ShprocReadHeader /\ s.up # <<>>)
  <2>1. \/ slot' = slot
        \/ slot' = [slot EXCEPT ![i].up = Tail(s.up)]
        \/ slot' = [slot EXCEPT ![i].broken = TRUE]
    BY <1>1, <1>8 DEF ShprocReadHeader, ShprocReadData
  <2>2. slot' = [slot EXCEPT ![i] = t]
    BY <1>1, <1>2, <1>5, <2>1
  <2>3. t = s \/ t = [s EXCEPT !.up = Tail(s.up)] \/ t = [s EXCEPT !.broken = TRUE]
    BY <1>1, <1>2, <1>5, <2>1
  <2>4. /\ t.state = s.state /\ t.user_fd = s.user_fd /\ t.job = s.job /\ t.worker = s.worker
        /\ ~t.broken => ~s.broken
    BY <2>3 DEF SlotType
  <2>5. Alive(t) => Alive(slot[i])
    BY <1>1, <2>4 DEF Alive
  <2> QED
    BY <1>1, <1>2, <1>4, <2>2, <2>4, <2>5, FdKept
<1> QED
  BY <1>7, <1>8

(* The parent walks on over the slots, or hands over a response.           *)
LEMMA FdScans ==
  FInv /\ PInv' /\ (ShprocPoll \/ ShprocPollSlot \/ ShprocReadEnd \/ ShprocRespond) => FInv'
<1> SUFFICES ASSUME FInv, PInv', ShprocPoll \/ ShprocPollSlot \/ ShprocReadEnd \/ ShprocRespond
             PROVE  FInv'
  OBVIOUS
<1>1. slot \in [Slots -> SlotType] /\ jobs \in Seq(JobType)
  BY DEF FInv, PInv, Typed
<1>2. PICK p \in ParentType : p = parent
  BY DEF FInv, PInv, OwnedBy, ParentGood
<1>3. slot' = slot
  <2>1. ASSUME NEW i \in Slots, ~CanKill(slot[i]), slot' = [slot EXCEPT ![i] = Stopped(slot[i])]
        PROVE  slot' = slot
    <3>1. Stopped(slot[i]) = slot[i]
      BY <2>1 DEF Stopped
    <3> QED
      BY <1>1, <2>1, <3>1
  <2> QED
    BY <2>1 DEF ShprocPoll, ShprocPollSlot, ShprocReadEnd, ShprocRespond
<1>4. p.pc # "write" /\ parent'.pc # "write"
  <2>1. Ready.pc = "ready" /\ NextSlot.pc = "scan" /\ [Ready EXCEPT !.pc = "scan", !.at = 1].pc = "scan"
    BY DEF NextSlot, Ready
  <2>2. \A x : [p EXCEPT !.pc = x].pc = x
    BY DEF ParentType
  <2>3. CASE ShprocPoll
    BY <1>2, <2>1, <2>3 DEF ShprocPoll
  <2>4. CASE ShprocPollSlot
    BY <1>2, <2>1, <2>2, <2>4 DEF ShprocPollSlot
  <2>5. CASE ShprocReadEnd
    BY <1>2, <2>2, <2>5 DEF ShprocReadEnd
  <2>6. CASE ShprocRespond
    BY <1>2, <2>2, <2>6 DEF ShprocRespond
  <2> QED
    BY <2>3, <2>4, <2>5, <2>6
<1>5. \A k \in 1 .. Len(jobs) : jobs'[k].fd = jobs[k].fd
  <2>1. CASE ShprocRespond
    <3>1. jobs' = [jobs EXCEPT ![p.job].answered = TRUE]
      BY <1>2, <2>1 DEF ShprocRespond
    <3>2. ASSUME NEW k \in 1 .. Len(jobs) PROVE jobs'[k].fd = jobs[k].fd
      <4>1. jobs[k] \in JobType
        BY <1>1
      <4> QED
        BY <1>1, <3>1, <4>1 DEF JobType
    <3> QED
      BY <3>2
  <2>2. CASE ~ShprocRespond
    BY <2>2 DEF ShprocPoll, ShprocPollSlot, ShprocReadEnd
  <2> QED
    BY <2>1, <2>2
<1> QED
  BY <1>2, <1>3, <1>4, <1>5, FdWalks

(* A worker changes nothing of the parent's shproc_t.                      *)
LEMMA FdWorks ==
  ASSUME NEW i \in Slots
  PROVE  FInv /\ PInv' /\ (WorkerStep(i) \/ Crash(i) \/ Reap(i)) => FInv'
<1> SUFFICES ASSUME FInv, PInv', WorkerStep(i) \/ Crash(i) \/ Reap(i) PROVE FInv'
  OBVIOUS
<1>1. slot \in [Slots -> SlotType] /\ jobs \in Seq(JobType)
  BY DEF FInv, PInv, Typed
<1>2. PICK s \in SlotType : s = slot[i]
  BY <1>1
<1>3. PICK t \in SlotType : t = slot'[i]
  BY DEF PInv, Typed
<1>4. parent' = parent /\ \A j \in Slots : (Mode(parent', j) = "write") = (Mode(parent, j) = "write")
  BY DEF WorkerStep, WorkerReadHeader, WorkerReadData, WorkerAck, WorkerRecvFd, WorkerRun,
         WorkerReply, WorkerWriteData, Crash, Reap
<1>5. \A k \in 1 .. Len(jobs) : jobs'[k].fd = jobs[k].fd
  <2>1. ASSUME NEW n \in Sizes, WorkerRun(i, n), NEW k \in 1 .. Len(jobs)
        PROVE  jobs'[k].fd = jobs[k].fd
    <3>1. jobs' = [jobs EXCEPT ![s.worker.job].reply = n]
      BY <1>2, <2>1 DEF WorkerRun
    <3>2. jobs[k] \in JobType
      BY <1>1, <2>1
    <3> QED
      BY <1>1, <2>1, <3>1, <3>2 DEF JobType
  <2>2. CASE \A n \in Sizes : ~WorkerRun(i, n)
    BY <2>2 DEF WorkerStep, WorkerReadHeader, WorkerReadData, WorkerAck, WorkerRecvFd,
                WorkerReply, WorkerWriteData, Crash, Reap
  <2> QED
    BY <2>1, <2>2
<1>6. ASSUME NEW u, slot' = [slot EXCEPT ![i] = u] PROVE slot' = [slot EXCEPT ![i] = t] /\ t = u
  BY <1>1, <1>3, <1>6
<1>7. s.worker \in WorkerType /\ t.worker \in WorkerType
  BY DEF SlotType
<1>8. ASSUME NEW u, slot' = [slot EXCEPT ![i] = u],
             u.state = s.state, u.user_fd = s.user_fd, u.job = s.job,
             ~u.broken => ~s.broken, Alive(s) \/ ~Alive(u)
      PROVE  FInv'
  <2>1. slot' = [slot EXCEPT ![i] = t] /\ t = u
    BY <1>6, <1>8
  <2>2. /\ t.state = slot[i].state /\ t.user_fd = slot[i].user_fd /\ t.job = slot[i].job
        /\ ~t.broken => ~slot[i].broken
        /\ Alive(t) => Alive(slot[i])
    BY <1>2, <1>8, <2>1
  <2> QED
    BY <1>4, <1>5, <2>1, <2>2, FdKept
<1>9. CASE WorkerReadHeader(i)
  <2>1. PICK w : slot' = [slot EXCEPT ![i].down = Tail(s.down), ![i].worker = w]
    BY <1>2, <1>9 DEF WorkerReadHeader
  <2>2. PICK u : u = [s EXCEPT !.down = Tail(s.down), !.worker = w]
    OBVIOUS
  <2>3. slot' = [slot EXCEPT ![i] = u]
    BY <1>1, <1>2, <2>1, <2>2
  <2>4. u.state = s.state /\ u.user_fd = s.user_fd /\ u.job = s.job /\ u.broken = s.broken
    BY <2>2 DEF SlotType
  <2>5. Alive(s)
    BY <1>2, <1>9 DEF WorkerReadHeader, At, Alive
  <2> QED
    BY <1>8, <2>3, <2>4, <2>5
<1>10. CASE WorkerRecvFd(i)
  <2>1. slot' = [slot EXCEPT ![i].worker.pc = "run", ![i].worker.fd = Head(s.dgram),
                             ![i].dgram = Tail(s.dgram)]
    BY <1>2, <1>10 DEF WorkerRecvFd
  <2>2. PICK u : u = [s EXCEPT !.worker.pc = "run", !.worker.fd = Head(s.dgram),
                               !.dgram = Tail(s.dgram)]
    OBVIOUS
  <2>3. slot' = [slot EXCEPT ![i] = u]
    BY <1>1, <1>2, <2>1, <2>2
  <2>4. u.state = s.state /\ u.user_fd = s.user_fd /\ u.job = s.job /\ u.broken = s.broken
    BY <2>2 DEF SlotType
  <2>5. Alive(s)
    BY <1>2, <1>10 DEF WorkerRecvFd, At, Alive
  <2> QED
    BY <1>8, <2>3, <2>4, <2>5
<1>11. ASSUME NEW n \in Sizes, WorkerRun(i, n) PROVE FInv'
  <2>1. PICK b : slot' = [slot EXCEPT ![i].worker.pc = "reply", ![i].worker.left = n,
                                      ![i].worker.buf = b]
    BY <1>11 DEF WorkerRun
  <2>2. PICK u : u = [s EXCEPT !.worker.pc = "reply", !.worker.left = n, !.worker.buf = b]
    OBVIOUS
  <2>3. slot' = [slot EXCEPT ![i] = u]
    BY <1>1, <1>2, <2>1, <2>2
  <2>4. u.state = s.state /\ u.user_fd = s.user_fd /\ u.job = s.job /\ u.broken = s.broken
    BY <2>2 DEF SlotType
  <2>5. Alive(s)
    BY <1>2, <1>11 DEF WorkerRun, At, Alive
  <2> QED
    BY <1>8, <2>3, <2>4, <2>5
<1>12. CASE WorkerReadData(i) \/ WorkerAck(i) \/ WorkerReply(i) \/ WorkerWriteData(i)
  <2>1. Alive(s)
    BY <1>2, <1>12 DEF WorkerReadData, WorkerAck, WorkerReply, WorkerWriteData, At, Alive
  <2>2. ASSUME NEW u, slot' = [slot EXCEPT ![i] = u],
               u.state = s.state, u.user_fd = s.user_fd, u.job = s.job, ~u.broken => ~s.broken
        PROVE  FInv'
    BY <1>8, <2>1, <2>2
  <2>3. CASE WorkerReadData(i)
    <3>1. PICK u : u = IF s.worker.left = 0
                       THEN [s EXCEPT !.worker.pc = "ack"]
                       ELSE IF s.down # <<>>
                       THEN [s EXCEPT !.down = Tail(s.down), !.worker.left = s.worker.left - 1,
                                      !.worker.buf = Append(s.worker.buf, Head(s.down).job)]
                       ELSE [s EXCEPT !.worker = Fresh, !.broken = TRUE]
      OBVIOUS
    <3>2. slot' = [slot EXCEPT ![i] = u]
      BY <1>2, <2>3, <3>1, Zenon DEF WorkerReadData
    <3>3. u.state = s.state /\ u.user_fd = s.user_fd /\ u.job = s.job /\ (~u.broken => ~s.broken)
      BY <3>1 DEF SlotType
    <3> QED
      BY <2>2, <3>2, <3>3
  <2>4. CASE WorkerAck(i)
    <3>1. PICK x : x = IF s.worker.user_fd # 0 THEN "recv" ELSE "run"
      OBVIOUS
    <3>2. PICK u : u = IF HasRoom(s.up)
                       THEN [s EXCEPT !.worker.pc = x,
                                      !.up = Append(s.up, Header("RUN", 0, 0, s.worker.job))]
                       ELSE [s EXCEPT !.worker.pc = x, !.broken = TRUE]
      OBVIOUS
    <3>3. slot' = [slot EXCEPT ![i] = u]
      BY <1>2, <2>4, <3>1, <3>2, Zenon DEF WorkerAck
    <3>4. u.state = s.state /\ u.user_fd = s.user_fd /\ u.job = s.job /\ (~u.broken => ~s.broken)
      BY <3>2 DEF SlotType
    <3> QED
      BY <2>2, <3>3, <3>4
  <2>5. CASE WorkerReply(i)
    <3>1. PICK h : h = Header("IDLE", s.worker.left, 0, s.worker.job)
      OBVIOUS
    <3>2. PICK u : u = IF HasRoom(s.up)
                       THEN [s EXCEPT !.worker.pc = "write", !.up = Append(s.up, h)]
                       ELSE [s EXCEPT !.worker = Fresh, !.broken = TRUE]
      OBVIOUS
    <3>3. slot' = [slot EXCEPT ![i] = u]
      BY <1>2, <2>5, <3>1, <3>2, Zenon DEF WorkerReply
    <3>4. u.state = s.state /\ u.user_fd = s.user_fd /\ u.job = s.job /\ (~u.broken => ~s.broken)
      BY <3>2 DEF SlotType
    <3> QED
      BY <2>2, <3>3, <3>4
  <2>6. CASE WorkerWriteData(i)
    <3>1. PICK u : u = IF s.worker.left = 0
                       THEN [s EXCEPT !.worker = Fresh]
                       ELSE IF HasRoom(s.up)
                       THEN [s EXCEPT !.up = Append(s.up, Data(Head(s.worker.buf))),
                                      !.worker.buf = Tail(s.worker.buf),
                                      !.worker.left = s.worker.left - 1]
                       ELSE [s EXCEPT !.worker = Fresh, !.broken = TRUE]
      OBVIOUS
    <3>2. slot' = [slot EXCEPT ![i] = u]
      BY <1>2, <2>6, <3>1, Zenon DEF WorkerWriteData
    <3>3. u.state = s.state /\ u.user_fd = s.user_fd /\ u.job = s.job /\ (~u.broken => ~s.broken)
      BY <3>1 DEF SlotType
    <3> QED
      BY <2>2, <3>2, <3>3
  <2> QED
    BY <1>12, <2>3, <2>4, <2>5, <2>6
<1>13. CASE Crash(i)
  <2>1. PICK u : u = [s EXCEPT !.worker = [Fresh EXCEPT !.pc = "dead"]]
    OBVIOUS
  <2>2. slot' = [slot EXCEPT ![i] = u]
    BY <1>1, <1>2, <1>13, <2>1 DEF Crash
  <2>3. u.state = s.state /\ u.user_fd = s.user_fd /\ u.job = s.job /\ u.broken = s.broken
    BY <2>1 DEF SlotType
  <2>4. Alive(s)
    BY <1>2, <1>13 DEF Crash
  <2> QED
    BY <1>8, <2>2, <2>3, <2>4
<1>14. CASE Reap(i)
  <2>1. PICK u : u = [s EXCEPT !.worker.pc = "gone"]
    OBVIOUS
  <2>2. slot' = [slot EXCEPT ![i] = u]
    BY <1>1, <1>2, <1>14, <2>1 DEF Reap
  <2>3. u.state = s.state /\ u.user_fd = s.user_fd /\ u.job = s.job /\ u.broken = s.broken
        /\ u.worker.pc = "gone"
    BY <1>7, <2>1 DEF SlotType, WorkerType
  <2>4. ~Alive(u)
    BY <2>3 DEF Alive
  <2> QED
    BY <1>8, <2>2, <2>3, <2>4
<1> QED
  BY <1>9, <1>10, <1>11, <1>12, <1>13, <1>14 DEF WorkerStep

LEMMA FdStepInv ==
  ASSUME MayStop = FALSE
  PROVE  FInv /\ [Next]_vars => FInv'
<1> SUFFICES ASSUME FInv, [Next]_vars PROVE FInv'
  OBVIOUS
<1>1. PInv'
  BY StepInv DEF FInv
<1>2. CASE ShprocStart
  BY <1>1, <1>2, FdStarts
<1>3. ASSUME NEW fd \in FdValues, NEW len \in Sizes, ShprocPush(fd, len) PROVE FInv'
  BY <1>1, <1>3, FdPushes
<1>4. CASE ShprocPushData \/ ShprocPushEnd
  BY <1>1, <1>4, FdWrites
<1>5. CASE ShprocReadHeader \/ ShprocReadData
  BY <1>1, <1>5, FdReads
<1>6. CASE ShprocPoll \/ ShprocPollSlot \/ ShprocReadEnd \/ ShprocRespond
  BY <1>1, <1>6, FdScans
<1>7. ASSUME NEW i \in Slots, WorkerStep(i) \/ Crash(i) \/ Reap(i) PROVE FInv'
  BY <1>1, <1>7, FdWorks
<1>8. ASSUME ShprocShutdown \/ \E i \in Slots : ShprocStop(i) PROVE FALSE
  BY <1>8 DEF ShprocShutdown, ShprocStop
<1>9. CASE UNCHANGED vars
  BY <1>1, <1>9 DEF vars, FInv
<1> QED
  BY <1>2, <1>3, <1>4, <1>5, <1>6, <1>7, <1>8, <1>9 DEF Next, ParentStep

(* A worker that runs its request has at most its RUN header answered and  *)
(* read, so its slot did not turn idle yet.                                *)
LEMMA RunningBusy ==
  ASSUME PInv, NEW i \in Slots, At(i, "run"), Whole(i)
  PROVE  Mode(parent, i) = "write" \/ slot[i].state \in {"PEND", "RUN"}
<1>1. PICK own \in [1 .. Len(jobs) -> Slots], s \in SlotType, w \in WorkerType,
           p \in ParentType, m \in {"write", "data", "respond", "away"} :
           /\ Typed /\ AllSound /\ OwnedBy(own)
           /\ p = parent /\ s = slot[i] /\ w = s.worker /\ m = Mode(p, i)
           /\ SlotGood(own, s, i) /\ WorkerGood(own, w, i)
           /\ StreamGood(own, s.down, i) /\ StreamGood(own, s.up, i)
           /\ Sound(s, m, p, jobs)
  BY AtWorker
<1>2. w.pc = "run" /\ ~s.broken
  BY <1>1 DEF At, Whole
<1>3. s.job # 0
  BY <1>1, <1>2 DEF Sound, Blank
<1>4. PICK J \in JobType, r \in Nat, e \in Nat :
          /\ J = jobs[s.job] /\ J.len \in Nat /\ J.reply \in Nat /\ s.job \in 1 .. Len(jobs)
          /\ ParentOK(s, m, p, J)
          /\ r <= J.len + 1 /\ e <= J.reply + 2
          /\ UpOK(s, Taken(s, m, p, J), J, e)
          /\ Alive(s) => ChildOK(s, m, p, J, r, e)
  BY <1>1, <1>2, <1>3, BusyParts
<1>5. WorkerOK(s, J, r, e)
  BY <1>1, <1>2, <1>4 DEF ChildOK, Alive
<1>6. e = 1 /\ J.len \in Nat /\ J.reply \in Nat /\ ParentOK(s, m, p, J)
      /\ UpOK(s, Taken(s, m, p, J), J, 1)
  BY <1>1, <1>2, <1>4, <1>5 DEF WorkerOK
<1>7. PICK k \in Nat : k = Taken(s, m, p, J)
  BY <1>6, Counts
<1>8. k <= 1
  BY <1>6, <1>7 DEF UpOK
<1>9. m = "write" \/ s.state \in {"PEND", "RUN"}
  <2>1. SUFFICES ASSUME m # "write", s.state \notin {"PEND", "RUN"} PROVE FALSE
    OBVIOUS
  <2>2. p.left \in Nat
    BY DEF ParentType
  <2>3. CASE m = "data"
    <3>1. p.left <= J.reply
      BY <1>6, <2>1, <2>3 DEF ParentOK
    <3>2. k = 2 + (J.reply - p.left)
      BY <1>7, <2>1, <2>3 DEF Taken
    <3> QED
      BY <1>6, <1>8, <2>2, <3>1, <3>2
  <2>4. CASE m # "data"
    <3>1. k = 2 + J.reply
      BY <1>7, <2>1, <2>4 DEF Taken
    <3> QED
      BY <1>6, <1>8, <3>1
  <2> QED
    BY <2>3, <2>4
<1> QED
  BY <1>1, <1>9

(* When no slot is stopped, the request callback is given the descriptor   *)
(* its own request was pushed with, and none when it was pushed without    *)
(* (shproc_push, shproc_setfd, shproc_read_fd), whatever workers crash.    *)
(* shproc_stop leaves user_fd in the slot, and refutes it.                 *)
THEOREM ProcDescriptors ==
  ASSUME MayStop = FALSE
  PROVE  Spec => []DescriptorIntact
<1>1. Init => FInv
  <2> SUFFICES ASSUME Init PROVE FInv
    OBVIOUS
  <2>1. PInv
    BY InitInv
  <2>2. \A i \in Slots : slot[i] = UnusedSlot
    BY DEF Init
  <2>3. UnusedSlot.user_fd = 0 /\ UnusedSlot.job = 0
    BY DEF UnusedSlot
  <2> QED
    BY <2>1, <2>2, <2>3 DEF FInv, FdSlot
<1>2. FInv => DescriptorIntact
  <2> SUFFICES ASSUME FInv, NEW i \in Slots, At(i, "run"), Whole(i)
               PROVE  slot[i].worker.fd = jobs[slot[i].job].fd
    BY DEF DescriptorIntact
  <2>1. PInv /\ FdSlot(slot[i], Mode(parent, i), jobs)
    BY DEF FInv
  <2>2. slot[i].worker.fd = slot[i].user_fd /\ slot[i].job \in 1 .. Len(jobs)
    BY <2>1, RunningSlot
  <2>3. Mode(parent, i) = "write" \/ slot[i].state \in {"PEND", "RUN"}
    BY <2>1, RunningBusy
  <2>4. ~slot[i].broken /\ Alive(slot[i])
    BY DEF Whole, At, Alive
  <2>5. slot[i].job # 0
    BY <2>2
  <2> QED
    BY <2>1, <2>2, <2>3, <2>4, <2>5 DEF FdSlot
<1>3. FInv /\ [Next]_vars => FInv'
  BY FdStepInv
<1> QED
  BY <1>1, <1>2, <1>3, PTL DEF Spec
=============================================================================
