------------------------------- MODULE ShLock -------------------------------
(***************************************************************************)
(* The lock of one key (shmem_lock.c): a shlock_t in the process's lock    *)
(* map, with a pthread mutex and the fields ref and tid, which shlock_open *)
(* and shlock_tryopen write after the mutex is locked and shlock_close     *)
(* writes after it is unlocked.  The map and the fields are plain memory:  *)
(* every access is a step of its own, "ref++" and "ref--" are a load and a *)
(* store.                                                                  *)
(***************************************************************************)
EXTENDS Naturals, FiniteSets

CONSTANTS
  Threads,
  None,        \* no thread, no lock object; tid 0
  First,       \* the lock object an earlier caller left in the map
  Preopened,   \* whether the map has a lock object for the key at the start
  Calls,       \* which of "open" and "tryopen" the threads use
  Private,     \* values of (flags & SHLK_PRIVATE) the threads use
  MaxHeld,     \* bound on the opens a thread holds at once
  MUTEX_MAX,   \* how often a recursive mutex can be locked
  REF_MOD      \* modulus of the unsigned field ref

ASSUME LockAssumption ==
  /\ None \notin Threads /\ First \notin Threads /\ First # None
  /\ Preopened \in BOOLEAN
  /\ Calls \subseteq {"open", "tryopen"}
  /\ Private \subseteq BOOLEAN
  /\ MaxHeld \in Nat
  /\ MUTEX_MAX \in Nat \ {0}
  /\ REF_MOD \in Nat \ {0, 1}

(* A lock object is named after the thread that allocated it: a thread     *)
(* allocates one only when the map has none, and the map never loses one.  *)
Objs == Threads \union {First}

VARIABLES
  entry,       \* the map: the lock object of the key, or None
  mutex,       \* each object's pthread mutex
  ref, tid,    \* each object's fields
  pc,          \* where each thread is
  call,        \* the call it is in
  priv,        \* that call's (flags & SHLK_PRIVATE)
  lk,          \* that call's local variable lk
  tmp,         \* the value of ref it has loaded
  held,        \* history: opens that succeeded, less closes called
  raced        \* history: an unprotected access met another thread's

vars == <<entry, mutex, ref, tid, pc, call, priv, lk, tmp, held, raced>>

Mutex == [owner : Threads \union {None}, count : Nat, recursive : BOOLEAN]

(* calloc: the all-zero pthread_mutex_t is an unlocked normal mutex.       *)
ZeroMutex == [owner |-> None, count |-> 0, recursive |-> FALSE]

PCs == {"idle", "lookup", "create", "init", "lock", "check", "decide",
        "settid", "load", "store", "closecheck", "unlock", "closeload",
        "closestore", "cleartid"}

Init ==
  /\ entry = IF Preopened THEN First ELSE None
  /\ mutex = [o \in Objs |-> [ZeroMutex EXCEPT !.recursive = (o = First)]]
  /\ ref = [o \in Objs |-> 0]
  /\ tid = [o \in Objs |-> None]
  /\ pc = [t \in Threads |-> "idle"]
  /\ call = [t \in Threads |-> "none"]
  /\ priv = [t \in Threads |-> FALSE]
  /\ lk = [t \in Threads |-> None]
  /\ tmp = [t \in Threads |-> 0]
  /\ held = [t \in Threads |-> 0]
  /\ raced = FALSE

At(t, label) == pc[t] = label
Goto(t, label) == pc' = [pc EXCEPT ![t] = label]

(* The call returns: its local variables are gone.                         *)
Return(t) ==
  /\ Goto(t, "idle")
  /\ call' = [call EXCEPT ![t] = "none"]
  /\ priv' = [priv EXCEPT ![t] = FALSE]
  /\ lk' = [lk EXCEPT ![t] = None]
  /\ tmp' = [tmp EXCEPT ![t] = 0]

InCall == <<call, priv, lk, tmp>>

(***************************************************************************)
(* The pthread mutex (external): what glibc does.                          *)
(***************************************************************************)
(* EBUSY, or the wait in pthread_mutex_lock, otherwise.                    *)
Available(m, t) == m.owner = None \/ (m.recursive /\ m.owner = t)

(* EAGAIN otherwise: the lock count of a recursive mutex is at its limit.  *)
CanLock(m, t) == Available(m, t) /\ m.count < MUTEX_MAX

Locked(m, t) ==
  [owner |-> t, count |-> m.count + 1, recursive |-> m.recursive]

(* A recursive mutex checks who unlocks it, a normal one does not.         *)
CanUnlock(m, t) == m.recursive => m.owner = t

Unlocked(m) ==
  IF m.recursive /\ m.count > 1
    THEN [owner |-> m.owner, count |-> m.count - 1, recursive |-> TRUE]
    ELSE [owner |-> None, count |-> 0, recursive |-> m.recursive]

(***************************************************************************)
(* Calls.                                                                  *)
(***************************************************************************)

(* A thread calls shlock_open or shlock_tryopen.                           *)
CallOpen(t, c, p) ==
  /\ At(t, "idle")
  /\ held[t] < MaxHeld
  /\ call' = [call EXCEPT ![t] = c]
  /\ priv' = [priv EXCEPT ![t] = p]
  /\ Goto(t, "lookup")
  /\ UNCHANGED <<entry, mutex, ref, tid, lk, tmp, held>>

(* A thread that holds the lock calls shlock_close: from here on it no     *)
(* longer relies on the lock.                                              *)
CallClose(t) ==
  /\ At(t, "idle")
  /\ held[t] > 0
  /\ held' = [held EXCEPT ![t] = @ - 1]
  /\ call' = [call EXCEPT ![t] = "close"]
  /\ Goto(t, "lookup")
  /\ UNCHANGED <<entry, mutex, ref, tid, priv, lk, tmp>>

(* shmap_get_ptr in all three functions.  (A close finds an entry: the     *)
(* thread has opened the lock.)                                            *)
Lookup(t) ==
  /\ At(t, "lookup")
  /\ lk' = [lk EXCEPT ![t] = entry]
  /\ Goto(t, IF entry = None THEN "create"
             ELSE CASE call[t] = "open"     -> "lock"
                    [] call[t] = "tryopen"  -> "check"
                    [] OTHER                -> "closecheck")
  /\ UNCHANGED <<entry, mutex, ref, tid, call, priv, tmp, held>>

(* calloc and shmap_set_ptr: the key's previous object is replaced.        *)
Create(t) ==
  /\ At(t, "create")
  /\ entry' = t
  /\ lk' = [lk EXCEPT ![t] = t]
  /\ Goto(t, "init")
  /\ UNCHANGED <<mutex, ref, tid, call, priv, tmp, held>>

(* pthread_mutex_init, when the object is already in the map.              *)
MutexInit(t) ==
  /\ At(t, "init")
  /\ mutex' = [mutex EXCEPT ![lk[t]] = [ZeroMutex EXCEPT !.recursive = ~priv[t]]]
  /\ Goto(t, IF call[t] = "open" THEN "lock" ELSE "decide")
  /\ UNCHANGED <<entry, ref, tid, InCall, held>>

(* Mutant of MutexLock: goes on whether or not the mutex was free.         *)
MutexLockNoWait(t) ==
  /\ At(t, "lock")
  /\ mutex' = IF CanLock(mutex[lk[t]], t)
              THEN [mutex EXCEPT ![lk[t]] = Locked(@, t)] ELSE mutex
  /\ Goto(t, "settid")
  /\ UNCHANGED <<InCall, entry, ref, tid, held>>

(* shlock_open: pthread_mutex_lock; NULL when that fails.                  *)
MutexLock(t) ==
  /\ At(t, "lock")
  /\ Available(mutex[lk[t]], t)
  /\ IF CanLock(mutex[lk[t]], t)
       THEN /\ mutex' = [mutex EXCEPT ![lk[t]] = Locked(@, t)]
            /\ Goto(t, "settid")
            /\ UNCHANGED InCall
       ELSE Return(t) /\ UNCHANGED mutex
  /\ UNCHANGED <<entry, ref, tid, held>>

(* shlock_tryopen: the object is in use.                                   *)
TryCheck(t) ==
  /\ At(t, "check")
  /\ IF ref[lk[t]] # 0 /\ (priv[t] \/ tid[lk[t]] # t)
       THEN Return(t)
       ELSE Goto(t, "decide") /\ UNCHANGED InCall
  /\ UNCHANGED <<entry, mutex, ref, tid, held>>

(* shlock_tryopen: pthread_mutex_trylock, unless the thread has the lock.  *)
TryDecide(t) ==
  /\ At(t, "decide")
  /\ LET needed == ref[lk[t]] = 0 \/ tid[lk[t]] # t
     IN \/ /\ needed /\ CanLock(mutex[lk[t]], t)
           /\ mutex' = [mutex EXCEPT ![lk[t]] = Locked(@, t)]
           /\ Goto(t, "settid")
           /\ UNCHANGED InCall
        \/ /\ needed /\ ~CanLock(mutex[lk[t]], t)
           /\ Return(t)
           /\ UNCHANGED mutex
        \/ /\ ~needed
           /\ Goto(t, "settid")
           /\ UNCHANGED <<mutex, InCall>>
  /\ UNCHANGED <<entry, ref, tid, held>>

(* Both opens: lk->tid = tid.                                              *)
SetTid(t) ==
  /\ At(t, "settid")
  /\ tid' = [tid EXCEPT ![lk[t]] = t]
  /\ Goto(t, "load")
  /\ UNCHANGED <<entry, mutex, ref, InCall, held>>

(* Both opens: lk->ref++ is a load ...                                     *)
RefLoad(t) ==
  /\ At(t, "load")
  /\ tmp' = [tmp EXCEPT ![t] = ref[lk[t]]]
  /\ Goto(t, "store")
  /\ UNCHANGED <<entry, mutex, ref, tid, call, priv, lk, held>>

(* ... and a store; the lock is open.                                      *)
RefStore(t) ==
  /\ At(t, "store")
  /\ ref' = [ref EXCEPT ![lk[t]] = (tmp[t] + 1) % REF_MOD]
  /\ held' = [held EXCEPT ![t] = @ + 1]
  /\ Return(t)
  /\ UNCHANGED <<entry, mutex, tid>>

(* shlock_close: nothing to do for an unused lock or another's lock.       *)
CloseCheck(t) ==
  /\ At(t, "closecheck")
  /\ IF ref[lk[t]] = 0 \/ tid[lk[t]] # t
       THEN Return(t)
       ELSE Goto(t, "unlock") /\ UNCHANGED InCall
  /\ UNCHANGED <<entry, mutex, ref, tid, held>>

(* shlock_close: pthread_mutex_unlock; -1 when the mutex is not locked by  *)
(* the caller.                                                             *)
MutexUnlock(t) ==
  /\ At(t, "unlock")
  /\ IF CanUnlock(mutex[lk[t]], t)
       THEN /\ mutex' = [mutex EXCEPT ![lk[t]] = Unlocked(@)]
            /\ Goto(t, "closeload")
            /\ UNCHANGED InCall
       ELSE Return(t) /\ UNCHANGED mutex
  /\ UNCHANGED <<entry, ref, tid, held>>

(* shlock_close, after the mutex is unlocked: lk->ref-- is a load ...      *)
CloseLoad(t) ==
  /\ At(t, "closeload")
  /\ tmp' = [tmp EXCEPT ![t] = ref[lk[t]]]
  /\ Goto(t, "closestore")
  /\ UNCHANGED <<entry, mutex, ref, tid, call, priv, lk, held>>

(* Mutants of CloseStore: a signed ref, and no store at all.               *)
CloseStoreSigned(t) ==
  /\ At(t, "closestore")
  /\ ref' = [ref EXCEPT ![lk[t]] = tmp[t] - 1]
  /\ Goto(t, "cleartid")
  /\ UNCHANGED <<entry, mutex, tid, InCall, held>>

CloseStoreLost(t) ==
  /\ At(t, "closestore")
  /\ Goto(t, "cleartid")
  /\ UNCHANGED <<entry, mutex, ref, tid, InCall, held>>

(* ... and a store of an unsigned number.                                  *)
CloseStore(t) ==
  /\ At(t, "closestore")
  /\ ref' = [ref EXCEPT ![lk[t]] = (tmp[t] + REF_MOD - 1) % REF_MOD]
  /\ Goto(t, "cleartid")
  /\ UNCHANGED <<entry, mutex, tid, InCall, held>>

(* shlock_close: "if (lk->ref == 0) lk->tid = 0", where the compiler may   *)
(* use the value just stored or load ref again.                            *)
ClearTid(t) ==
  /\ At(t, "cleartid")
  /\ \E zero \in {tmp[t] = 1, ref[lk[t]] = 0} :
       tid' = IF zero THEN [tid EXCEPT ![lk[t]] = None] ELSE tid
  /\ Return(t)
  /\ UNCHANGED <<entry, mutex, ref, held>>

Step(t) ==
  \/ Lookup(t) \/ Create(t) \/ MutexInit(t)
  \/ MutexLock(t) \/ TryCheck(t) \/ TryDecide(t)
  \/ SetTid(t) \/ RefLoad(t) \/ RefStore(t)
  \/ CloseCheck(t) \/ MutexUnlock(t) \/ CloseLoad(t) \/ CloseStore(t)
  \/ ClearTid(t)

(* Where a thread uses the fields of its lock object.                      *)
FieldAccess == {"check", "decide", "settid", "load", "store", "closecheck",
                "closeload", "closestore", "cleartid"}

(* Thread t's next step meets another thread in the middle of what no      *)
(* mutex protects: adding the lock object, or the end of shlock_close.     *)
Conflict(t) ==
  \E u \in Threads \ {t} :
    \/ pc[u] \in {"create", "init"} /\ pc[t] # "idle"
    \/ /\ pc[u] \in {"closeload", "closestore", "cleartid"}
       /\ pc[t] \in FieldAccess
       /\ lk[t] = lk[u]

Next ==
  \E t \in Threads :
    /\ \/ Step(t)
       \/ \E c \in Calls, p \in Private : CallOpen(t, c, p)
       \/ CallClose(t)
    /\ raced' = (raced \/ Conflict(t))

Spec == Init /\ [][Next]_vars

(* A thread inside the library, unless it waits for the mutex, goes on; a  *)
(* thread that holds the lock closes it; nobody has to open it.  A mutex   *)
(* that is free again and again is granted in the end.                     *)
FairSpec ==
  /\ Spec
  /\ \A t \in Threads : 
       /\ WF_vars(Step(t) /\ raced' = (raced \/ Conflict(t)))
       /\ SF_vars(MutexLock(t) /\ raced' = (raced \/ Conflict(t)))
       /\ WF_vars(CallClose(t) /\ raced' = (raced \/ Conflict(t)))

(***************************************************************************)
(* Properties.                                                             *)
(***************************************************************************)

TypeOK ==
  /\ entry \in Objs \union {None}
  /\ mutex \in [Objs -> Mutex]
  /\ ref \in [Objs -> 0 .. REF_MOD - 1]
  /\ tid \in [Objs -> Threads \union {None}]
  /\ pc \in [Threads -> PCs]
  /\ call \in [Threads -> {"none", "open", "tryopen", "close"}]
  /\ priv \in [Threads -> BOOLEAN]
  /\ lk \in [Threads -> Objs \union {None}]
  /\ tmp \in [Threads -> 0 .. REF_MOD - 1]
  /\ held \in [Threads -> 0 .. MaxHeld]
  /\ raced \in BOOLEAN

(* No two threads have the lock of one key open at the same time.          *)
MutualExclusion ==
  \A t, u \in Threads : held[t] > 0 /\ held[u] > 0 => t = u

Quiet == \A t \in Threads : At(t, "idle") /\ held[t] = 0

(* When every open has been closed, the mutex is unlocked.                 *)
ClosedIsUnlocked ==
  Quiet /\ entry # None => mutex[entry].owner = None

(* When every open has been closed, ref counts none.                       *)
ClosedIsUnused ==
  Quiet /\ entry # None => ref[entry] = 0

(* Unless an unprotected access met another thread's, the lock excludes    *)
(* and a closed lock is free for the next thread.                          *)
RaceFreeLock ==
  ~raced => MutualExclusion /\ ClosedIsUnlocked /\ ClosedIsUnused

(* A thread that waits in shlock_open gets the lock.                       *)
OpenReturns ==
  \A t \in Threads : At(t, "lock") ~> At(t, "idle")

=============================================================================
