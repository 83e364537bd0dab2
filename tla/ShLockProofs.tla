---------------------------- MODULE ShLockProofs ----------------------------
(***************************************************************************)
(* Theorems about ShLock for every number of threads.  shlock_open and     *)
(* shlock_close exclude, at every depth of nesting, once the lock object   *)
(* exists: whatever the unprotected updates of ref and tid do, they can    *)
(* only make shlock_close unlock less, never more.  And with both opens    *)
(* and no object at the start the lock excludes, and a closed lock is      *)
(* free, until two threads meet in one of the unprotected places.          *)
(***************************************************************************)
EXTENDS ShLock, TLAPS

(* How many of the locks taken on the mutex thread t still relies on.      *)
Claims(t) ==
  held[t] + (IF \/ pc[t] \in {"settid", "load", "store", "closecheck", "unlock"}
                \/ pc[t] = "lookup" /\ call[t] = "close"
             THEN 1 ELSE 0)

Typed ==
  /\ mutex \in [Objs -> Mutex]
  /\ pc \in [Threads -> PCs]
  /\ call \in [Threads -> {"none", "open", "tryopen", "close"}]
  /\ lk \in [Threads -> Objs \union {None}]
  /\ held \in [Threads -> Nat]

(* Every thread works on the one lock object, with shlock_open or          *)
(* shlock_close.                                                           *)
OneObject ==
  /\ entry = First
  /\ \A t \in Threads :
       /\ pc[t] \notin {"create", "init", "check", "decide"}
       /\ call[t] # "tryopen"
       /\ pc[t] = "lookup" => call[t] \in {"open", "close"}
       /\ pc[t] \notin {"idle", "lookup"} => lk[t] = First

(* A thread that relies on the lock owns the mutex often enough.           *)
Covered ==
  /\ mutex[First].recursive
  /\ mutex[First].owner = None <=> mutex[First].count = 0
  /\ \A t \in Threads :
       Claims(t) > 0 => /\ mutex[First].owner = t
                        /\ mutex[First].count >= Claims(t)

LInv == Typed /\ OneObject /\ Covered

(* Locking and unlocking keep a mutex a mutex.                             *)
LEMMA MutexType ==
  ASSUME NEW m \in Mutex, NEW t \in Threads
  PROVE  Locked(m, t) \in Mutex /\ Unlocked(m) \in Mutex
<1>1. m.owner \in Threads \union {None} /\ m.count \in Nat /\ m.recursive \in BOOLEAN
  BY DEF Mutex
<1>2. Locked(m, t) \in Mutex
  BY <1>1 DEF Locked, Mutex
<1>3. CASE m.recursive /\ m.count > 1
  BY <1>1, <1>2, <1>3 DEF Unlocked, Mutex
<1>4. CASE ~(m.recursive /\ m.count > 1)
  BY <1>1, <1>2, <1>4 DEF Unlocked, Mutex
<1>5. QED
  BY <1>3, <1>4

(* The initial state satisfies the invariant.                              *)
LEMMA LInvInit ==
  ASSUME Preopened = TRUE
  PROVE  Init => LInv
<1> SUFFICES ASSUME Init PROVE LInv
  OBVIOUS
<1>1. Typed
  BY LockAssumption DEF Init, Typed, Mutex, ZeroMutex, PCs, Objs
<1>2. OneObject
  BY DEF Init, OneObject
<1>3. First \in Objs
  BY DEF Objs
<1>4. mutex[First] = [owner |-> None, count |-> 0, recursive |-> TRUE]
  BY <1>3 DEF Init, ZeroMutex
<1>5. \A t \in Threads : Claims(t) = 0
  BY DEF Init, Claims
<1>6. QED
  BY <1>1, <1>2, <1>4, <1>5 DEF LInv, Covered

(* What a thread's own step may do to the invariant: it is enough that the *)
(* step keeps the types and the object, leaves the other threads alone and *)
(* keeps its own claims covered; or frees or takes the mutex properly.     *)
LEMMA CoveredStep ==
  ASSUME LInv, NEW t \in Threads, Typed', OneObject',
         \A u \in Threads \ {t} : Claims(u)' = Claims(u),
         \/ mutex' = mutex /\ Claims(t)' <= Claims(t)
         \/ /\ mutex'[First] = Locked(mutex[First], t)
            /\ Available(mutex[First], t)
            /\ Claims(t)' = Claims(t) + 1
         \/ /\ mutex'[First] = Unlocked(mutex[First])
            /\ Claims(t) > 0
            /\ Claims(t)' = Claims(t) - 1
  PROVE  LInv'
<1> DEFINE m == mutex[First]
           n == mutex'[First]
<1>1. /\ m \in Mutex /\ n \in Mutex
      /\ \A u \in Threads : Claims(u) \in Nat /\ Claims(u)' \in Nat
  BY DEF LInv, Typed, Objs, Claims
<1>2. /\ m.recursive
      /\ m.owner = None <=> m.count = 0
      /\ \A u \in Threads : Claims(u) > 0 => m.owner = u /\ m.count >= Claims(u)
  BY DEF LInv, Covered
<1>3. \A u \in Threads : u # None
  BY LockAssumption
<1> SUFFICES /\ n.recursive
             /\ n.owner = None <=> n.count = 0
             /\ \A u \in Threads : Claims(u)' > 0 => n.owner = u /\ n.count >= Claims(u)'
  BY DEF LInv, Covered
<1>4. CASE mutex' = mutex /\ Claims(t)' <= Claims(t)
  <2>1. n = m
    BY <1>4
  <2> HIDE DEF m, n
  <2>2. \A u \in Threads : Claims(u)' <= Claims(u)
    BY <1>1, <1>4
  <2>3. ASSUME NEW u \in Threads, Claims(u)' > 0
        PROVE  n.owner = u /\ n.count >= Claims(u)'
    <3>1. Claims(u) > 0 /\ m.count \in Nat
      BY <1>1, <2>2, <2>3 DEF Mutex
    <3>2. QED
      BY <1>1, <1>2, <2>1, <2>2, <3>1
  <2>4. QED
    BY <1>2, <2>1, <2>3
<1>5. CASE n = Locked(m, t) /\ Available(m, t) /\ Claims(t)' = Claims(t) + 1
  <2> HIDE DEF m, n
  <2>1. n.owner = t /\ n.count = m.count + 1 /\ n.recursive = m.recursive /\ m.count \in Nat
    BY <1>1, <1>5 DEF Locked, Mutex
  <2>2. \A u \in Threads \ {t} : Claims(u) = 0
    BY <1>1, <1>2, <1>3, <1>5 DEF Available
  <2>3. m.count >= Claims(t)
    BY <1>1, <1>2, <2>1
  <2>4. QED
    BY <1>1, <1>2, <1>3, <1>5, <2>1, <2>2, <2>3
<1>6. CASE n = Unlocked(m) /\ Claims(t) > 0 /\ Claims(t)' = Claims(t) - 1
  <2> HIDE DEF m, n
  <2>1. m.owner = t /\ m.count >= Claims(t) /\ m.count \in Nat
    BY <1>1, <1>2, <1>6 DEF Mutex
  <2>2. \A u \in Threads \ {t} : Claims(u) = 0
    BY <1>1, <1>2, <2>1
  <2>3. CASE m.count > 1
    <3>1. n.owner = t /\ n.count = m.count - 1 /\ n.recursive
      BY <1>1, <1>2, <1>6, <2>1, <2>3 DEF Unlocked, Mutex
    <3>2. QED
      BY <1>1, <1>3, <1>6, <2>1, <2>2, <2>3, <3>1
  <2>4. CASE ~(m.count > 1)
    <3>1. n.owner = None /\ n.count = 0 /\ n.recursive
      BY <1>1, <1>2, <1>6, <2>1, <2>4 DEF Unlocked, Mutex
    <3>2. Claims(t)' = 0
      BY <1>1, <1>6, <2>1, <2>4
    <3>3. QED
      BY <1>1, <2>2, <3>1, <3>2
  <2>5. QED
    BY <2>3, <2>4
<1>7. QED
  BY <1>4, <1>5, <1>6

(* A step of thread t that only moves t keeps types, object and the claims *)
(* of the others.                                                          *)
LEMMA FrameStep ==
  ASSUME LInv, NEW t \in Threads, entry' = entry, Typed',
         pc'[t] \notin {"create", "init", "check", "decide"},
         call'[t] # "tryopen",
         pc'[t] = "lookup" => call'[t] \in {"open", "close"},
         pc'[t] \notin {"idle", "lookup"} => lk'[t] = First,
         \A u \in Threads \ {t} : /\ pc'[u] = pc[u] /\ call'[u] = call[u]
                                  /\ lk'[u] = lk[u] /\ held'[u] = held[u]
  PROVE  OneObject' /\ \A u \in Threads \ {t} : Claims(u)' = Claims(u)
BY DEF LInv, OneObject, Claims

(* The steps that neither lock nor unlock.                                 *)
LEMMA PlainSteps ==
  ASSUME LInv, NEW t \in Threads,
         \/ \E p \in Private : CallOpen(t, "open", p)
         \/ CallClose(t) \/ Lookup(t) \/ SetTid(t) \/ RefLoad(t) \/ RefStore(t)
         \/ CloseCheck(t) \/ CloseLoad(t) \/ CloseStore(t) \/ ClearTid(t)
  PROVE  LInv'
<1> USE DEF Goto, Return, InCall, At
<1>1. Typed /\ OneObject
  BY DEF LInv
<1>2. CASE \E p \in Private : CallOpen(t, "open", p)
  <2>1. Typed'
    BY <1>1, <1>2 DEF Typed, CallOpen, PCs
  <2>2. Claims(t)' <= Claims(t) /\ mutex' = mutex
    BY <1>1, <1>2 DEF Typed, CallOpen, Claims
  <2>3. OneObject' /\ \A u \in Threads \ {t} : Claims(u)' = Claims(u)
    BY <1>1, <1>2, <2>1, FrameStep DEF Typed, CallOpen
  <2>4. QED
    BY <2>1, <2>2, <2>3, CoveredStep
<1>3. CASE CallClose(t)
  <2>1. Typed'
    BY <1>1, <1>3 DEF Typed, CallClose, PCs
  <2>2. Claims(t)' <= Claims(t) /\ mutex' = mutex
    BY <1>1, <1>3 DEF Typed, CallClose, Claims
  <2>3. OneObject' /\ \A u \in Threads \ {t} : Claims(u)' = Claims(u)
    BY <1>1, <1>3, <2>1, FrameStep DEF Typed, CallClose
  <2>4. QED
    BY <2>1, <2>2, <2>3, CoveredStep
<1>4. CASE Lookup(t)
  <2>0. /\ entry = First /\ entry # None
        /\ pc'[t] = IF call[t] = "open" THEN "lock" ELSE "closecheck"
    BY <1>1, <1>4, LockAssumption DEF Typed, OneObject, Lookup
  <2>1. Typed'
    BY <1>1, <1>4, <2>0 DEF Typed, Lookup, PCs, Objs
  <2>2. Claims(t)' <= Claims(t) /\ mutex' = mutex
    BY <1>1, <1>4, <2>0 DEF Typed, OneObject, Lookup, Claims
  <2>3. OneObject' /\ \A u \in Threads \ {t} : Claims(u)' = Claims(u)
    BY <1>1, <1>4, <2>0, <2>1, FrameStep DEF Typed, OneObject, Lookup
  <2>4. QED
    BY <2>1, <2>2, <2>3, CoveredStep
<1>5. CASE SetTid(t) \/ RefLoad(t) \/ CloseLoad(t) \/ CloseStore(t)
  <2>1. Typed'
    BY <1>1, <1>5 DEF Typed, SetTid, RefLoad, CloseLoad, CloseStore, PCs
  <2>2. Claims(t)' <= Claims(t) /\ mutex' = mutex
    BY <1>1, <1>5 DEF Typed, SetTid, RefLoad, CloseLoad, CloseStore, Claims
  <2>3. OneObject' /\ \A u \in Threads \ {t} : Claims(u)' = Claims(u)
    BY <1>1, <1>5, <2>1, FrameStep
    DEF Typed, OneObject, SetTid, RefLoad, CloseLoad, CloseStore
  <2>4. QED
    BY <2>1, <2>2, <2>3, CoveredStep
<1>6. CASE RefStore(t) \/ ClearTid(t)
  <2>1. Typed'
    BY <1>1, <1>6 DEF Typed, RefStore, ClearTid, PCs
  <2>2. Claims(t)' <= Claims(t) /\ mutex' = mutex
    BY <1>1, <1>6 DEF Typed, RefStore, ClearTid, Claims
  <2>3. OneObject' /\ \A u \in Threads \ {t} : Claims(u)' = Claims(u)
    BY <1>1, <1>6, <2>1, FrameStep DEF Typed, OneObject, RefStore, ClearTid
  <2>4. QED
    BY <2>1, <2>2, <2>3, CoveredStep
<1>7. CASE CloseCheck(t)
  <2>1. Typed'
    BY <1>1, <1>7 DEF Typed, CloseCheck, PCs
  <2>2. Claims(t)' <= Claims(t) /\ mutex' = mutex
    BY <1>1, <1>7 DEF Typed, CloseCheck, Claims
  <2>3. OneObject' /\ \A u \in Threads \ {t} : Claims(u)' = Claims(u)
    BY <1>1, <1>7, <2>1, FrameStep DEF Typed, OneObject, CloseCheck
  <2>4. QED
    BY <2>1, <2>2, <2>3, CoveredStep
<1>8. QED
  BY <1>2, <1>3, <1>4, <1>5, <1>6, <1>7

(* pthread_mutex_lock: only a thread that may lock does.                   *)
LEMMA LockStep ==
  ASSUME LInv, NEW t \in Threads, MutexLock(t)
  PROVE  LInv'
<1> USE DEF Goto, Return, InCall, At
<1>1. Typed /\ OneObject /\ lk[t] = First /\ First \in Objs
  BY DEF LInv, OneObject, MutexLock, Objs
<1>2. CASE CanLock(mutex[lk[t]], t)
  <2>1. mutex'[First] = Locked(mutex[First], t) /\ mutex'[First] \in Mutex
    <3>1. mutex' = [mutex EXCEPT ![lk[t]] = Locked(mutex[lk[t]], t)]
      BY <1>2 DEF MutexLock
    <3>2. QED
      BY <1>1, <3>1, MutexType DEF Typed
  <2>2. Typed'
    BY <1>1, <1>2, <2>1 DEF Typed, MutexLock, PCs
  <2>3. Claims(t)' = Claims(t) + 1
    BY <1>1, <1>2 DEF Typed, MutexLock, Claims
  <2>4. OneObject' /\ \A u \in Threads \ {t} : Claims(u)' = Claims(u)
    BY <1>1, <1>2, <2>2, FrameStep DEF Typed, OneObject, MutexLock
  <2>5. QED
    BY <1>1, <2>1, <2>2, <2>3, <2>4, CoveredStep DEF MutexLock
<1>3. CASE ~CanLock(mutex[lk[t]], t)
  <2>1. Typed'
    BY <1>1, <1>3 DEF Typed, MutexLock, PCs
  <2>2. Claims(t)' <= Claims(t) /\ mutex' = mutex
    BY <1>1, <1>3 DEF Typed, MutexLock, Claims
  <2>3. OneObject' /\ \A u \in Threads \ {t} : Claims(u)' = Claims(u)
    BY <1>1, <1>3, <2>1, FrameStep DEF Typed, OneObject, MutexLock
  <2>4. QED
    BY <2>1, <2>2, <2>3, CoveredStep
<1>4. QED
  BY <1>2, <1>3

(* pthread_mutex_unlock: it gives up one claim of its caller.              *)
LEMMA UnlockStep ==
  ASSUME LInv, NEW t \in Threads, MutexUnlock(t)
  PROVE  LInv'
<1> USE DEF Goto, Return, InCall, At
<1>1. Typed /\ OneObject /\ lk[t] = First /\ First \in Objs
  BY DEF LInv, OneObject, MutexUnlock, Objs
<1>2. Claims(t) > 0
  BY <1>1 DEF Claims, Typed, MutexUnlock
<1>3. CanUnlock(mutex[lk[t]], t)
  BY <1>1, <1>2 DEF LInv, Covered, CanUnlock
<1>4. mutex'[First] = Unlocked(mutex[First]) /\ mutex'[First] \in Mutex
  BY <1>1, <1>3, MutexType DEF MutexUnlock, Typed
<1>5. Typed'
  BY <1>1, <1>3, <1>4 DEF Typed, MutexUnlock, PCs
<1>6. Claims(t)' = Claims(t) - 1
  BY <1>1, <1>3 DEF Typed, MutexUnlock, Claims
<1>7. OneObject' /\ \A u \in Threads \ {t} : Claims(u)' = Claims(u)
  BY <1>1, <1>3, <1>5, FrameStep DEF Typed, OneObject, MutexUnlock
<1>8. QED
  BY <1>2, <1>4, <1>5, <1>6, <1>7, CoveredStep

(* For any number of threads: once the lock object of a key exists, and as *)
(* long as shlock_tryopen is not used on it, no two threads have the lock  *)
(* open at the same time, even though ref and tid are updated unprotected. *)
THEOREM OpenExcludes ==
  ASSUME Preopened = TRUE, "tryopen" \notin Calls
  PROVE  Spec => []MutualExclusion
<1>1. Init => LInv
  BY LInvInit
<1>2. LInv /\ [Next]_vars => LInv'
  <2> SUFFICES ASSUME LInv, [Next]_vars PROVE LInv'
    OBVIOUS
  <2>1. CASE UNCHANGED vars
    BY <2>1 DEF vars, LInv, Typed, OneObject, Covered, Claims
  <2>2. ASSUME NEW t \in Threads, Step(t) PROVE LInv'
    <3>1. ~(Create(t) \/ MutexInit(t) \/ TryCheck(t) \/ TryDecide(t))
      BY DEF LInv, OneObject, Create, MutexInit, TryCheck, TryDecide, At
    <3>2. QED
      BY <2>2, <3>1, PlainSteps, LockStep, UnlockStep DEF Step
  <2>3. ASSUME NEW t \in Threads, NEW c \in Calls, NEW p \in Private, CallOpen(t, c, p)
        PROVE  LInv'
    BY <2>3, PlainSteps, LockAssumption
  <2>4. ASSUME NEW t \in Threads, CallClose(t) PROVE LInv'
    BY <2>4, PlainSteps
  <2>5. QED
    BY <2>1, <2>2, <2>3, <2>4 DEF Next
<1>3. LInv => MutualExclusion
  BY DEF LInv, Typed, Covered, Claims, MutualExclusion
<1>4. QED
  BY <1>1, <1>2, <1>3, PTL DEF Spec

-----------------------------------------------------------------------------
(* Types, for every use of the lock.                                       *)

(* A thread inside a call works on an object, and has room for one open.   *)
InCallOK ==
  \A t \in Threads :
    /\ pc[t] \notin {"idle", "lookup", "create"} => lk[t] \in Objs
    /\ pc[t] # "idle" => held[t] < MaxHeld
    /\ pc[t] = "lookup" => call[t] \in {"open", "tryopen", "close"}

TInv == TypeOK /\ InCallOK

(* Counting up and down stays within the width of ref.                     *)
LEMMA RefWraps ==
  \A n \in 0 .. REF_MOD - 1 : /\ (n + 1) % REF_MOD \in 0 .. REF_MOD - 1
                             /\ (n + REF_MOD - 1) % REF_MOD \in 0 .. REF_MOD - 1
BY LockAssumption

(* The initial state satisfies the invariant.                              *)
LEMMA TInvInit == Init => TInv
<1> SUFFICES ASSUME Init PROVE TInv
  OBVIOUS
<1>1. entry \in Objs \union {None} /\ raced = FALSE
  BY DEF Init, Objs
<1>2. mutex \in [Objs -> Mutex]
  BY DEF Init, Mutex, ZeroMutex
<1>3. ref \in [Objs -> 0 .. REF_MOD - 1] /\ tid \in [Objs -> Threads \union {None}]
  BY LockAssumption DEF Init
<1>4. /\ pc \in [Threads -> PCs] /\ priv \in [Threads -> BOOLEAN]
      /\ call \in [Threads -> {"none", "open", "tryopen", "close"}]
      /\ lk \in [Threads -> Objs \union {None}]
      /\ tmp \in [Threads -> 0 .. REF_MOD - 1] /\ held \in [Threads -> 0 .. MaxHeld]
  BY LockAssumption DEF Init, PCs
<1>5. InCallOK
  BY DEF Init, InCallOK
<1>6. QED
  BY <1>1, <1>2, <1>3, <1>4, <1>5 DEF TInv, TypeOK

(* The calls and the steps of a thread keep the types.                     *)
LEMMA TInvStep ==
  ASSUME TInv, NEW t \in Threads, raced' \in BOOLEAN,
         \/ Step(t) \/ CallClose(t)
         \/ \E c \in Calls, p \in Private : CallOpen(t, c, p)
  PROVE  TInv'
<1> USE LockAssumption DEF Goto, Return, InCall, At, TInv
<1>1. ASSUME NEW c \in Calls, NEW p \in Private, CallOpen(t, c, p) PROVE TInv'
  BY <1>1 DEF TypeOK, InCallOK, CallOpen, PCs
<1>2. CASE CallClose(t)
  BY <1>2 DEF TypeOK, InCallOK, CallClose, PCs
<1>3. CASE Lookup(t)
  <2>1. \E label \in {"lock", "check", "closecheck", "create"} :
          /\ pc' = [pc EXCEPT ![t] = label]
          /\ label # "create" => entry # None
    <3> DEFINE next == IF entry = None THEN "create"
                       ELSE CASE call[t] = "open"     -> "lock"
                              [] call[t] = "tryopen"  -> "check"
                              [] OTHER                -> "closecheck"
    <3>1. pc' = [pc EXCEPT ![t] = next]
      BY <1>3 DEF Lookup
    <3>2. /\ next \in {"lock", "check", "closecheck", "create"}
          /\ next # "create" => entry # None
      OBVIOUS
    <3> HIDE DEF next
    <3>3. QED
      BY <3>1, <3>2
  <2>2. QED
    BY <1>3, <2>1 DEF TypeOK, InCallOK, Lookup, PCs
<1>4. CASE Create(t)
  BY <1>4 DEF TypeOK, InCallOK, Create, PCs, Objs
<1>5. CASE MutexInit(t)
  <2>1. [ZeroMutex EXCEPT !.recursive = ~priv[t]] \in Mutex
    BY DEF ZeroMutex, Mutex, TypeOK
  <2>2. QED
    BY <1>5, <2>1 DEF TypeOK, InCallOK, MutexInit, PCs
<1>6. ASSUME lk[t] \in Objs PROVE Locked(mutex[lk[t]], t) \in Mutex
                                /\ Unlocked(mutex[lk[t]]) \in Mutex
  BY <1>6, MutexType DEF TypeOK
<1> DEFINE Rest == UNCHANGED <<entry, ref, tid, held>>
           Outside == {"idle", "lookup", "create"}
<1>7. ASSUME Return(t), UNCHANGED mutex, Rest PROVE TInv'
  BY <1>7 DEF TypeOK, InCallOK, PCs
<1>8. ASSUME pc[t] \notin Outside, NEW label \in PCs \ Outside, Goto(t, label), Rest,
             UNCHANGED InCall, mutex' \in [Objs -> Mutex]
      PROVE  TInv'
  BY <1>8 DEF TypeOK, InCallOK
<1>9. CASE MutexLock(t) \/ TryDecide(t)
  <2>1. pc[t] \notin Outside /\ lk[t] \in Objs
    BY <1>9 DEF MutexLock, TryDecide, InCallOK
  <2>2. CASE mutex' = [mutex EXCEPT ![lk[t]] = Locked(mutex[lk[t]], t)]
             /\ Goto(t, "settid") /\ UNCHANGED InCall /\ Rest
    <3>1. mutex' \in [Objs -> Mutex]
      BY <1>6, <2>1, <2>2 DEF TypeOK
    <3>2. QED
      BY <1>8, <2>1, <2>2, <3>1 DEF PCs
  <2>3. CASE Return(t) /\ UNCHANGED mutex /\ Rest
    BY <1>7, <2>3
  <2>4. CASE Goto(t, "settid") /\ UNCHANGED <<mutex, InCall>> /\ Rest
    BY <1>8, <2>1, <2>4 DEF PCs, TypeOK
  <2>5. QED
    BY <1>9, <2>2, <2>3, <2>4 DEF MutexLock, TryDecide
<1>10. CASE SetTid(t)
  BY <1>10 DEF TypeOK, InCallOK, SetTid, PCs
<1>11. CASE RefLoad(t)
  BY <1>11 DEF TypeOK, InCallOK, RefLoad, PCs
<1>12. CASE RefStore(t)
  <2>1. (tmp[t] + 1) % REF_MOD \in 0 .. REF_MOD - 1
    BY RefWraps DEF TypeOK
  <2>2. QED
    BY <1>12, <2>1 DEF TypeOK, InCallOK, RefStore, PCs
<1>13. CASE TryCheck(t) \/ CloseCheck(t)
  <2>1. pc[t] \notin Outside
    BY <1>13 DEF TryCheck, CloseCheck
  <2>2. mutex' = mutex /\ Rest
    BY <1>13 DEF TryCheck, CloseCheck
  <2>3. \/ Return(t)
        \/ Goto(t, "decide") /\ UNCHANGED InCall
        \/ Goto(t, "unlock") /\ UNCHANGED InCall
    BY <1>13 DEF TryCheck, CloseCheck
  <2>4. QED
    BY <1>7, <1>8, <2>1, <2>2, <2>3 DEF PCs, TypeOK
<1>14. CASE MutexUnlock(t)
  <2>1. pc[t] \notin Outside /\ lk[t] \in Objs
    BY <1>14 DEF MutexUnlock, InCallOK
  <2>2. CASE CanUnlock(mutex[lk[t]], t)
    <3>1. mutex' \in [Objs -> Mutex]
      BY <1>6, <1>14, <2>1, <2>2 DEF MutexUnlock, TypeOK
    <3>2. QED
      BY <1>8, <1>14, <2>1, <2>2, <3>1 DEF MutexUnlock, PCs
  <2>3. CASE ~CanUnlock(mutex[lk[t]], t)
    BY <1>7, <1>14, <2>3 DEF MutexUnlock
  <2>4. QED
    BY <2>2, <2>3
<1>15. CASE CloseLoad(t)
  BY <1>15 DEF TypeOK, InCallOK, CloseLoad, PCs
<1>16. CASE CloseStore(t)
  <2>1. (tmp[t] + REF_MOD - 1) % REF_MOD \in 0 .. REF_MOD - 1
    BY RefWraps DEF TypeOK
  <2>2. QED
    BY <1>16, <2>1 DEF TypeOK, InCallOK, CloseStore, PCs
<1>17. CASE ClearTid(t)
  BY <1>17 DEF TypeOK, InCallOK, ClearTid, PCs
<1>18. QED
  BY <1>1, <1>2, <1>3, <1>4, <1>5, <1>9, <1>10, <1>11, <1>12, <1>13, <1>14, <1>15,
     <1>16, <1>17
  DEF Step

LEMMA TInvNext == TInv /\ [Next]_vars => TInv'
<1> SUFFICES ASSUME TInv, [Next]_vars PROVE TInv'
  OBVIOUS
<1>1. CASE UNCHANGED vars
  BY <1>1 DEF vars, TInv, TypeOK, InCallOK
<1>2. CASE Next
  <2>1. PICK t \in Threads :
          /\ \/ Step(t) \/ CallClose(t)
             \/ \E c \in Calls, p \in Private : CallOpen(t, c, p)
          /\ raced' = (raced \/ Conflict(t))
    BY <1>2 DEF Next
  <2>2. raced' \in BOOLEAN
    BY <2>1
  <2>3. QED
    BY <2>1, <2>2, TInvStep
<1>3. QED
  BY <1>1, <1>2

(* Whatever threads call and wherever they are interrupted, every variable *)
(* keeps its type: no function dereferences a null lock object, ref stays  *)
(* within its width, and no thread counts more opens than it made.         *)
THEOREM LockTypes == Spec => []TypeOK
<1>1. TInv => TypeOK
  BY DEF TInv
<1>2. QED
  BY <1>1, TInvInit, TInvNext, PTL DEF Spec

-----------------------------------------------------------------------------
(* Without a race.                                                         *)

(* Thread t has locked the mutex, by what it knows.                        *)
Owns(t) ==
  \/ held[t] > 0
  \/ pc[t] \in {"settid", "load", "store", "closecheck", "unlock"}
  \/ pc[t] = "lookup" /\ call[t] = "close"

(* Thread t has unlocked the mutex and still writes the fields.            *)
Closing(t) == pc[t] \in {"closeload", "closestore", "cleartid"}

(* While the object is added to the map every other thread is outside the  *)
(* functions or has not looked yet.                                        *)
CreatedAlone ==
  \A t \in Threads : pc[t] \in {"create", "init"} =>
    /\ entry = (IF pc[t] = "create" THEN None ELSE t)
    /\ \A u \in Threads : u # t => pc[u] \in {"idle", "lookup"}
    /\ \A u \in Threads : ~Owns(u)

(* Every thread works on the object of the map.                            *)
SameObject ==
  \A t \in Threads :
    /\ pc[t] \notin {"idle", "lookup", "create"} => lk[t] = entry
    /\ entry = None => pc[t] \in {"idle", "lookup", "create"} /\ ~Owns(t)

(* An object nobody uses.                                                  *)
Unused(o) == mutex[o].owner = None /\ mutex[o].count = 0 /\ ref[o] = 0 /\ tid[o] = None

(* The mutex belongs to the thread that relies on it, once.                *)
OwnerOwns ==
  /\ mutex[entry].owner = None => mutex[entry].count = 0
  /\ mutex[entry].owner # None => mutex[entry].count = 1
  /\ \A t \in Threads : Owns(t) <=> mutex[entry].owner = t

(* One thread at most is at the end of shlock_close, and another one that  *)
(* has the mutex meanwhile has not touched the fields yet.                 *)
OneClosing ==
  \A t, u \in Threads : Closing(u) =>
    /\ Closing(t) => t = u
    /\ Owns(t) => pc[t] = "settid"

(* The fields say what the thread that uses them has stored there.         *)
FieldsKept ==
  /\ \A t \in Threads : Closing(t) =>
       /\ tid[entry] = t
       /\ ref[entry] = (IF pc[t] = "cleartid" THEN 0 ELSE 1)
       /\ pc[t] # "closeload" => tmp[t] = 1
  /\ \A t \in Threads : Owns(t) /\ pc[t] # "settid" =>
       /\ tid[entry] = t
       /\ ref[entry] = (IF pc[t] \in {"load", "store"} THEN 0 ELSE 1)
       /\ pc[t] = "store" => tmp[t] = 0
  /\ (\A t \in Threads : ~Closing(t) /\ (Owns(t) => pc[t] = "settid")) =>
       ref[entry] = 0 /\ tid[entry] = None

InUse == OwnerOwns /\ OneClosing /\ FieldsKept

Calm ==
  /\ CreatedAlone /\ SameObject
  /\ entry = None => \A o \in Objs : Unused(o)
  /\ entry # None => InUse

RInv == ~raced => Calm

(* The step changes no local variable of a thread but t.                   *)
Frame(t) ==
  \A u \in Threads \ {t} :
    /\ pc'[u] = pc[u] /\ call'[u] = call[u] /\ lk'[u] = lk[u]
    /\ tmp'[u] = tmp[u] /\ held'[u] = held[u]

(* No thread has the lock object before there is one.                      *)
LEMMA RInvInit == Init => RInv
<1> SUFFICES ASSUME Init PROVE Calm
  BY DEF RInv
<1>1. \A t \in Threads : pc[t] = "idle" /\ ~Owns(t) /\ ~Closing(t)
  BY DEF Init, Owns, Closing
<1>2. First \in Objs /\ \A t \in Threads : t # None
  BY LockAssumption DEF Objs
<1>3. \A o \in Objs : Unused(o)
  BY DEF Init, Unused, ZeroMutex
<1>4. CreatedAlone /\ SameObject
  BY <1>1 DEF CreatedAlone, SameObject
<1>5. entry # None => InUse
  <2> SUFFICES ASSUME entry # None PROVE InUse
    OBVIOUS
  <2>1. Unused(entry)
    BY <1>2, <1>3 DEF Init
  <2>2. QED
    BY <1>1, <1>2, <2>1 DEF InUse, OwnerOwns, OneClosing, FieldsKept, Unused
<1>6. QED
  BY <1>3, <1>4, <1>5 DEF Calm

(* What a step of t leaves alone.                                          *)
LEMMA StepFrame ==
  ASSUME TInv, NEW t \in Threads,
         \/ Step(t) \/ CallClose(t)
         \/ \E c \in Calls, p \in Private : CallOpen(t, c, p)
  PROVE  Frame(t)
<1> USE DEF Goto, Return, InCall, TInv, TypeOK, Frame
<1>1. ASSUME NEW c \in Calls, NEW p \in Private, CallOpen(t, c, p) PROVE Frame(t)
  BY <1>1 DEF CallOpen
<1>2. CASE CallClose(t) \/ RefStore(t) \/ ClearTid(t)
  BY <1>2 DEF CallClose, RefStore, ClearTid
<1>3. CASE Lookup(t) \/ Create(t) \/ MutexInit(t)
  BY <1>3 DEF Lookup, Create, MutexInit
<1>4. CASE SetTid(t) \/ RefLoad(t) \/ CloseLoad(t) \/ CloseStore(t)
  BY <1>4 DEF SetTid, RefLoad, CloseLoad, CloseStore
<1>5. CASE MutexLock(t) \/ MutexUnlock(t)
  BY <1>5 DEF MutexLock, MutexUnlock
<1>6. CASE TryCheck(t) \/ TryDecide(t) \/ CloseCheck(t)
  BY <1>6 DEF TryCheck, TryDecide, CloseCheck
<1>7. QED
  BY <1>1, <1>2, <1>3, <1>4, <1>5, <1>6 DEF Step

(* The other threads rely on the mutex after the step as before.           *)
LEMMA OthersSame ==
  ASSUME NEW t \in Threads, Frame(t)
  PROVE  \A u \in Threads \ {t} : /\ Owns(u)' <=> Owns(u)
                                  /\ Closing(u)' <=> Closing(u)
BY DEF Frame, Owns, Closing

(* A thread in a call that is not nested holds no lock from before.        *)
LEMMA OwnsInCall ==
  ASSUME MaxHeld <= 1, TInv, NEW t \in Threads, pc[t] # "idle"
  PROVE  /\ held[t] = 0
         /\ Owns(t) <=> \/ pc[t] \in {"settid", "load", "store", "closecheck", "unlock"}
                        \/ pc[t] = "lookup" /\ call[t] = "close"
BY LockAssumption DEF TInv, TypeOK, InCallOK, Owns

(* A thread that has the object goes on alone with it: nobody is adding    *)
(* one, and the step of t does not either.                                 *)
LEMMA ObjectKept ==
  ASSUME TInv, Calm, NEW t \in Threads, ~Conflict(t), Frame(t),
         pc[t] \notin {"idle", "lookup", "create", "init"}, entry' = entry,
         pc'[t] \notin {"lookup", "create", "init"},
         pc'[t] # "idle" => lk'[t] = lk[t]
  PROVE  entry # None /\ lk[t] = entry /\ CreatedAlone' /\ SameObject'
<1>1. entry # None /\ lk[t] = entry
  BY DEF Calm, SameObject
<1>2. \A u \in Threads : pc'[u] \notin {"create", "init"}
  BY DEF Conflict, Frame
<1>3. CreatedAlone'
  BY <1>2 DEF CreatedAlone
<1>4. SameObject'
  BY <1>1 DEF Calm, SameObject, Frame
<1>5. QED
  BY <1>1, <1>3, <1>4

(* Starting a call: shlock_open and shlock_tryopen, or shlock_close.       *)
LEMMA CalmCall ==
  ASSUME MaxHeld <= 1, TInv, Calm, NEW t \in Threads, Frame(t),
         \/ CallClose(t)
         \/ \E c \in Calls, p \in Private : CallOpen(t, c, p)
  PROVE  Calm'
<1>1. /\ pc[t] = "idle" /\ pc'[t] = "lookup"
      /\ UNCHANGED <<entry, mutex, ref, tid>>
  BY DEF CallClose, CallOpen, At, Goto, TInv, TypeOK
<1>2. Owns(t)' <=> Owns(t)
  <2>1. CASE CallClose(t)
    BY <2>1 DEF CallClose, Owns, TInv, TypeOK, At, Goto
  <2>2. ASSUME NEW c \in Calls, NEW p \in Private, CallOpen(t, c, p)
        PROVE  Owns(t)' <=> Owns(t)
    BY <2>2, LockAssumption DEF CallOpen, Owns, TInv, TypeOK, At, Goto
  <2>3. QED
    BY <2>1, <2>2
<1>3. ~Closing(t) /\ ~Closing(t)'
  BY <1>1 DEF Closing
<1>4. \A u \in Threads : (Owns(u)' <=> Owns(u)) /\ (Closing(u)' <=> Closing(u))
  BY <1>2, <1>3, OthersSame
<1>5. CreatedAlone' /\ SameObject'
  BY <1>1, <1>4 DEF Calm, CreatedAlone, SameObject, Frame
<1>6. entry' = None => \A o \in Objs : Unused(o)'
  BY <1>1 DEF Calm, Unused
<1>7. entry' # None => InUse'
  BY <1>1, <1>3, <1>4 DEF Calm, InUse, OwnerOwns, OneClosing, FieldsKept, Frame
<1>8. QED
  BY <1>5, <1>6, <1>7 DEF Calm

(* shmap_get_ptr: the thread gets the object, or is the one to add it.     *)
LEMMA CalmLookup ==
  ASSUME MaxHeld <= 1, TInv, TInv', Calm, NEW t \in Threads, ~Conflict(t), Frame(t),
         Lookup(t)
  PROVE  Calm'
<1>1. /\ pc[t] = "lookup" /\ UNCHANGED <<entry, mutex, ref, tid, call, held>>
      /\ lk'[t] = entry
  BY DEF Lookup, At, TInv, TypeOK
<1>2. \A u \in Threads \ {t} : pc[u] \notin {"create", "init"}
  BY <1>1 DEF Conflict
<1>3. CASE entry = None
  <2>1. pc'[t] = "create"
    BY <1>3 DEF Lookup, Goto, TInv, TypeOK
  <2>2. \A u \in Threads : ~Owns(u) /\ pc[u] \in {"idle", "lookup", "create"}
    BY <1>3 DEF Calm, SameObject
  <2>3. ~Owns(t)'
    BY <1>1, <2>1, OwnsInCall DEF Owns
  <2>4. \A u \in Threads : ~Owns(u)'
    BY <2>2, <2>3, OthersSame
  <2>5. CreatedAlone' /\ SameObject'
    BY <1>1, <1>2, <1>3, <2>1, <2>2, <2>4 DEF CreatedAlone, SameObject, Frame
  <2>6. QED
    BY <1>1, <1>3, <2>5 DEF Calm, Unused
<1>4. CASE entry # None
  <2>1. /\ pc'[t] \in {"lock", "check", "closecheck"}
        /\ pc'[t] = "closecheck" <=> call[t] = "close"
    BY <1>1, <1>4 DEF Lookup, Goto, TInv, TypeOK, InCallOK
  <2>2. Owns(t)' <=> Owns(t)
    BY <1>1, <2>1 DEF Owns, TInv, TypeOK
  <2>3. ~Closing(t) /\ ~Closing(t)'
    BY <1>1, <2>1 DEF Closing
  <2>4. \A u \in Threads : (Owns(u)' <=> Owns(u)) /\ (Closing(u)' <=> Closing(u))
    BY <2>2, <2>3, OthersSame
  <2>5. CreatedAlone' /\ SameObject'
    BY <1>1, <1>2, <1>4, <2>1 DEF Calm, CreatedAlone, SameObject, Frame
  <2>6. InUse'
    BY <1>1, <1>4, <2>1, <2>3, <2>4
    DEF Calm, InUse, OwnerOwns, OneClosing, FieldsKept, Frame
  <2>7. QED
    BY <1>1, <1>4, <2>5, <2>6 DEF Calm
<1>5. QED
  BY <1>3, <1>4

(* calloc, shmap_set_ptr and pthread_mutex_init: the new object is unused. *)
LEMMA CalmCreate ==
  ASSUME MaxHeld <= 1, TInv, Calm, NEW t \in Threads, Frame(t),
         Create(t) \/ MutexInit(t)
  PROVE  Calm'
<1>1. t \in Objs /\ t # None /\ \A u \in Threads : u # None
  BY LockAssumption DEF Objs
<1>2. /\ pc[t] \in {"create", "init"}
      /\ \A u \in Threads \ {t} : pc[u] \in {"idle", "lookup"}
      /\ \A u \in Threads : ~Owns(u) /\ ~Closing(u)
  BY DEF Create, MutexInit, At, Calm, CreatedAlone, Closing
<1>3. /\ pc'[t] \in {"init", "lock", "decide"} /\ held' = held
      /\ UNCHANGED <<ref, tid>> /\ entry' = t /\ lk'[t] = t
  <2>1. CASE Create(t)
    BY <2>1 DEF Create, At, Goto, TInv, TypeOK
  <2>2. CASE MutexInit(t)
    BY <2>2 DEF MutexInit, At, Goto, InCall, TInv, TypeOK, Calm, CreatedAlone, SameObject
  <2>3. QED
    BY <2>1, <2>2
<1>4. \A u \in Threads : ~Owns(u)' /\ ~Closing(u)'
  <2>1. ~Owns(t)' /\ ~Closing(t)'
    BY <1>2, <1>3 DEF Owns, Closing
  <2>2. QED
    BY <1>2, <2>1, OthersSame
<1>5. CreatedAlone' /\ SameObject'
  BY <1>1, <1>2, <1>3, <1>4 DEF CreatedAlone, SameObject, Frame
<1>6. mutex'[t].owner = None /\ mutex'[t].count = 0 /\ ref[t] = 0 /\ tid[t] = None
  <2>1. CASE Create(t)
    BY <1>1, <2>1 DEF Create, At, Calm, CreatedAlone, Unused
  <2>2. CASE MutexInit(t)
    <3>1. entry = t /\ lk[t] = t
      BY <2>2 DEF MutexInit, At, Calm, CreatedAlone, SameObject
    <3>2. mutex'[t] = [ZeroMutex EXCEPT !.recursive = ~priv[t]]
      BY <1>1, <2>2, <3>1 DEF MutexInit, TInv, TypeOK
    <3>3. mutex'[t].owner = None /\ mutex'[t].count = 0
      BY <3>2 DEF ZeroMutex
    <3>4. ref[t] = 0 /\ tid[t] = None
      BY <1>1, <1>2, <3>1 DEF Calm, InUse, FieldsKept
    <3>5. QED
      BY <3>3, <3>4
  <2>3. QED
    BY <2>1, <2>2
<1>7. InUse'
  BY <1>1, <1>3, <1>4, <1>6 DEF InUse, OwnerOwns, OneClosing, FieldsKept
<1>8. QED
  BY <1>1, <1>3, <1>5, <1>7 DEF Calm

(* Where a thread uses the fields nobody else is at the end of its close.  *)
LEMMA NoCloser ==
  ASSUME Calm, NEW t \in Threads, ~Conflict(t), pc[t] \in FieldAccess
  PROVE  \A u \in Threads \ {t} : ~Closing(u)
BY DEF Calm, SameObject, Conflict, Closing, FieldAccess

(* The open fails: the thread had nothing and gets nothing.                *)
LEMMA CalmGiveUp ==
  ASSUME MaxHeld <= 1, TInv, Calm, NEW t \in Threads, ~Conflict(t), Frame(t),
         pc[t] \in {"lock", "check", "decide"},
         Return(t) \/ (Goto(t, "decide") /\ UNCHANGED InCall),
         UNCHANGED <<entry, mutex, ref, tid, held>>
  PROVE  Calm'
<1>1. pc'[t] \in {"idle", "decide"} /\ (pc'[t] = "decide" => lk'[t] = lk[t])
  BY DEF Return, Goto, InCall, TInv, TypeOK
<1>2. ~Owns(t) /\ ~Owns(t)' /\ ~Closing(t) /\ ~Closing(t)'
  BY <1>1, OwnsInCall DEF Owns, Closing
<1>3. entry # None /\ CreatedAlone' /\ SameObject'
  BY <1>1, ObjectKept
<1>4. \A u \in Threads : (Owns(u)' <=> Owns(u)) /\ (Closing(u)' <=> Closing(u))
  BY <1>2, OthersSame
<1>5. InUse'
  BY <1>2, <1>3, <1>4 DEF Calm, InUse, OwnerOwns, OneClosing, FieldsKept, Frame
<1>6. QED
  BY <1>3, <1>5 DEF Calm

(* The thread locks the mutex: nobody else has it.                         *)
LEMMA CalmAcquire ==
  ASSUME MaxHeld <= 1, TInv, Calm, NEW t \in Threads, ~Conflict(t), Frame(t),
         pc[t] \in {"lock", "decide"}, Available(mutex[lk[t]], t),
         mutex' = [mutex EXCEPT ![lk[t]] = Locked(mutex[lk[t]], t)],
         Goto(t, "settid"), UNCHANGED InCall, UNCHANGED <<entry, ref, tid, held>>
  PROVE  Calm'
<1>1. pc'[t] = "settid" /\ lk'[t] = lk[t] /\ t # None
  BY LockAssumption DEF Goto, InCall, TInv, TypeOK
<1>2. ~Owns(t) /\ Owns(t)' /\ ~Closing(t) /\ ~Closing(t)'
  BY <1>1, OwnsInCall DEF Owns, Closing
<1>3. entry # None /\ lk[t] = entry /\ entry \in Objs /\ CreatedAlone' /\ SameObject'
  BY <1>1, ObjectKept DEF TInv, TypeOK
<1>4. InUse
  BY <1>3 DEF Calm
<1>5. mutex[entry].owner = None /\ mutex[entry].count = 0
  BY <1>2, <1>3, <1>4 DEF Available, InUse, OwnerOwns
<1>6. mutex'[entry].owner = t /\ mutex'[entry].count = 1
  <2>1. mutex'[entry] = Locked(mutex[entry], t)
    BY <1>3 DEF TInv, TypeOK
  <2>2. QED
    BY <1>5, <2>1 DEF Locked
<1>7. \A u \in Threads \ {t} : ~Owns(u)' /\ ~Owns(u) /\ (Closing(u)' <=> Closing(u))
  BY <1>4, <1>5, LockAssumption, OthersSame DEF InUse, OwnerOwns
<1>8. OwnerOwns' /\ OneClosing'
  BY <1>1, <1>2, <1>4, <1>6, <1>7 DEF InUse, OwnerOwns, OneClosing
<1>9. FieldsKept'
  BY <1>1, <1>2, <1>4, <1>7 DEF InUse, FieldsKept, Frame
<1>10. QED
  BY <1>3, <1>8, <1>9 DEF Calm, InUse

(* pthread_mutex_lock, the test in shlock_tryopen and its trylock.         *)
LEMMA CalmLock ==
  ASSUME MaxHeld <= 1, TInv, Calm, NEW t \in Threads, ~Conflict(t), Frame(t),
         MutexLock(t) \/ TryCheck(t) \/ TryDecide(t)
  PROVE  Calm'
<1>1. CASE MutexLock(t)
  BY <1>1, CalmAcquire, CalmGiveUp DEF MutexLock, At
<1>2. CASE TryCheck(t)
  BY <1>2, CalmGiveUp DEF TryCheck, At
<1>3. CASE TryDecide(t)
  <2>1. pc[t] = "decide" /\ pc[t] \in FieldAccess
    BY <1>3 DEF TryDecide, At, FieldAccess
  <2>2. ~Owns(t) /\ \A u \in Threads : ~Closing(u)
    BY <2>1, OwnsInCall, NoCloser DEF Closing
  <2>3. lk[t] = entry /\ entry # None /\ InUse
    BY <2>1 DEF Calm, SameObject
  <2>4. ref[lk[t]] = 0 \/ tid[lk[t]] # t
    BY <2>2, <2>3 DEF InUse, FieldsKept
  <2>5. CASE CanLock(mutex[lk[t]], t)
    BY <1>3, <2>1, <2>4, <2>5, CalmAcquire DEF TryDecide, CanLock
  <2>6. CASE ~CanLock(mutex[lk[t]], t)
    BY <1>3, <2>1, <2>4, <2>6, CalmGiveUp DEF TryDecide
  <2>7. QED
    BY <2>5, <2>6
<1>4. QED
  BY <1>1, <1>2, <1>3

(* The thread that has the mutex writes the fields or looks at them.       *)
LEMMA CalmOwner ==
  ASSUME MaxHeld <= 1, TInv, Calm, NEW t \in Threads, ~Conflict(t), Frame(t),
         SetTid(t) \/ RefLoad(t) \/ RefStore(t) \/ CloseCheck(t)
  PROVE  Calm'
<1> USE DEF Goto, InCall, At
<1>1. pc[t] \in {"settid", "load", "store", "closecheck"} /\ pc[t] \in FieldAccess
  BY DEF SetTid, RefLoad, RefStore, CloseCheck, FieldAccess
<1>2. Owns(t) /\ held[t] = 0 /\ \A u \in Threads : ~Closing(u)
  BY <1>1, OwnsInCall, NoCloser DEF Closing
<1>3. lk[t] = entry /\ entry # None /\ entry \in Objs /\ InUse
  BY <1>1 DEF Calm, SameObject, TInv, TypeOK
<1>4. \A u \in Threads \ {t} : ~Owns(u)
  BY <1>2, <1>3 DEF InUse, OwnerOwns
<1>5. ASSUME UNCHANGED <<entry, mutex>>, Owns(t)', ~Closing(t)', pc'[t] # "settid",
             pc'[t] \notin {"lookup", "create", "init"},
             pc'[t] # "idle" => lk'[t] = lk[t],
             tid'[entry] = t,
             ref'[entry] = (IF pc'[t] \in {"load", "store"} THEN 0 ELSE 1),
             pc'[t] = "store" => tmp'[t] = 0
      PROVE  Calm'
  <2>1. CreatedAlone' /\ SameObject'
    BY <1>1, <1>5, ObjectKept
  <2>2. \A u \in Threads : (Owns(u)' <=> Owns(u)) /\ ~Closing(u)'
    BY <1>2, <1>5, OthersSame
  <2>3. InUse'
    BY <1>2, <1>3, <1>4, <1>5, <2>2 DEF InUse, OwnerOwns, OneClosing, FieldsKept
  <2>4. QED
    BY <1>3, <1>5, <2>1, <2>3 DEF Calm
<1>6. CASE SetTid(t)
  <2>1. pc[t] = "settid" /\ pc'[t] = "load" /\ lk'[t] = lk[t] /\ tid'[entry] = t
    BY <1>3, <1>6 DEF SetTid, TInv, TypeOK
  <2>2. ref'[entry] = 0
    BY <1>2, <1>3, <1>4, <1>6, <2>1 DEF SetTid, InUse, FieldsKept
  <2>3. QED
    BY <1>5, <1>6, <2>1, <2>2 DEF SetTid, Owns, Closing
<1>7. CASE RefLoad(t)
  <2>1. /\ pc[t] = "load" /\ pc'[t] = "store" /\ lk'[t] = lk[t]
        /\ tmp'[t] = ref[entry] /\ UNCHANGED <<ref, tid>>
    BY <1>3, <1>7 DEF RefLoad, TInv, TypeOK
  <2>2. tid[entry] = t /\ ref[entry] = 0
    BY <1>2, <1>3, <2>1 DEF InUse, FieldsKept
  <2>3. QED
    BY <1>5, <1>7, <2>1, <2>2 DEF RefLoad, Owns, Closing
<1>8. CASE RefStore(t)
  <2>1. /\ pc[t] = "store" /\ pc'[t] = "idle" /\ held'[t] = held[t] + 1
        /\ ref'[entry] = (tmp[t] + 1) % REF_MOD /\ UNCHANGED tid
    BY <1>3, <1>8 DEF RefStore, Return, TInv, TypeOK
  <2>2. tid[entry] = t /\ tmp[t] = 0
    BY <1>2, <1>3, <2>1 DEF InUse, FieldsKept
  <2>3. (0 + 1) % REF_MOD = 1
    BY LockAssumption
  <2>4. Owns(t)'
    BY <1>2, <2>1 DEF Owns
  <2>5. QED
    BY <1>5, <1>8, <2>1, <2>2, <2>3, <2>4 DEF RefStore, Closing
<1>9. CASE CloseCheck(t)
  <2>1. pc[t] = "closecheck" /\ UNCHANGED <<ref, tid>>
    BY <1>9 DEF CloseCheck
  <2>2. tid[entry] = t /\ ref[entry] = 1
    BY <1>2, <1>3, <2>1 DEF InUse, FieldsKept
  <2>3. pc'[t] = "unlock" /\ lk'[t] = lk[t]
    BY <1>3, <1>9, <2>2 DEF CloseCheck, TInv, TypeOK
  <2>4. QED
    BY <1>5, <1>9, <2>1, <2>2, <2>3 DEF CloseCheck, Owns, Closing
<1>10. QED
  BY <1>6, <1>7, <1>8, <1>9

(* pthread_mutex_unlock in shlock_close: the mutex is free, the fields are *)
(* still the thread's.                                                     *)
LEMMA CalmUnlock ==
  ASSUME MaxHeld <= 1, TInv, Calm, NEW t \in Threads, ~Conflict(t), Frame(t),
         MutexUnlock(t)
  PROVE  Calm'
<1>1. pc[t] = "unlock"
  BY DEF MutexUnlock, At
<1>2. Owns(t) /\ held[t] = 0 /\ ~Closing(t)
  BY <1>1, OwnsInCall DEF Closing
<1>3. lk[t] = entry /\ entry # None /\ entry \in Objs /\ InUse
  BY <1>1 DEF Calm, SameObject, TInv, TypeOK
<1>4. mutex[entry].owner = t /\ mutex[entry].count = 1 /\ t # None
  BY <1>2, <1>3, LockAssumption DEF InUse, OwnerOwns
<1>5. \A u \in Threads \ {t} : ~Owns(u) /\ ~Closing(u)
  BY <1>1, <1>2, <1>3, <1>4 DEF InUse, OwnerOwns, OneClosing
<1>6. tid[entry] = t /\ ref[entry] = 1
  BY <1>1, <1>2, <1>3 DEF InUse, FieldsKept
<1>7. CanUnlock(mutex[lk[t]], t)
  BY <1>3, <1>4 DEF CanUnlock
<1>8. /\ mutex' = [mutex EXCEPT ![lk[t]] = Unlocked(mutex[lk[t]])]
      /\ pc'[t] = "closeload" /\ lk'[t] = lk[t]
      /\ UNCHANGED <<entry, ref, tid, held>>
  BY <1>7 DEF MutexUnlock, Goto, InCall, TInv, TypeOK
<1>9. mutex'[entry].owner = None /\ mutex'[entry].count = 0
  <2>1. mutex'[entry] = Unlocked(mutex[entry])
    BY <1>3, <1>8 DEF TInv, TypeOK
  <2>2. QED
    BY <1>4, <2>1 DEF Unlocked
<1>10. ~Owns(t)' /\ Closing(t)' /\ \A u \in Threads \ {t} : ~Owns(u)' /\ ~Closing(u)'
  BY <1>2, <1>5, <1>8, OthersSame DEF Owns, Closing
<1>11. CreatedAlone' /\ SameObject'
  BY <1>1, <1>8, ObjectKept
<1>12. InUse'
  BY <1>6, <1>8, <1>9, <1>10, LockAssumption
  DEF InUse, OwnerOwns, OneClosing, FieldsKept
<1>13. QED
  BY <1>3, <1>8, <1>11, <1>12 DEF Calm

(* The end of shlock_close: ref counts down and tid is cleared, while      *)
(* another thread may have the mutex but has not used the fields.          *)
LEMMA CalmClosing ==
  ASSUME MaxHeld <= 1, TInv, Calm, NEW t \in Threads, ~Conflict(t), Frame(t),
         CloseLoad(t) \/ CloseStore(t) \/ ClearTid(t)
  PROVE  Calm'
<1> USE DEF Goto, InCall, At
<1>1. pc[t] \in {"closeload", "closestore", "cleartid"}
  BY DEF CloseLoad, CloseStore, ClearTid
<1>2. ~Owns(t) /\ held[t] = 0 /\ Closing(t)
  BY <1>1, OwnsInCall DEF Closing
<1>3. lk[t] = entry /\ entry # None /\ entry \in Objs /\ InUse
  BY <1>1 DEF Calm, SameObject, TInv, TypeOK
<1>4. /\ \A u \in Threads : Owns(u) => pc[u] = "settid"
      /\ \A u \in Threads \ {t} : ~Closing(u)
  BY <1>2, <1>3 DEF InUse, OneClosing
<1>5. UNCHANGED <<entry, mutex, held>>
  BY DEF CloseLoad, CloseStore, ClearTid
<1>6. ASSUME pc'[t] \in {"closestore", "cleartid", "idle"},
             pc'[t] # "idle" => lk'[t] = lk[t]
      PROVE  /\ CreatedAlone' /\ SameObject' /\ OwnerOwns' /\ OneClosing'
             /\ ~Owns(t)'
             /\ \A u \in Threads : Owns(u)' => pc'[u] = "settid"
             /\ \A u \in Threads \ {t} : ~Closing(u)'
  <2>1. CreatedAlone' /\ SameObject'
    BY <1>1, <1>5, <1>6, ObjectKept
  <2>2. ~Owns(t)'
    BY <1>2, <1>5, <1>6 DEF Owns
  <2>3. \A u \in Threads : Owns(u)' <=> Owns(u)
    BY <1>2, <2>2, OthersSame
  <2>4. \A u \in Threads \ {t} : ~Closing(u)' /\ pc'[u] = pc[u]
    BY <1>4, OthersSame DEF Frame
  <2>5. \A u \in Threads : Owns(u)' => pc'[u] = "settid"
    BY <1>4, <2>2, <2>3, <2>4
  <2>6. OwnerOwns' /\ OneClosing'
    BY <1>3, <1>5, <2>3, <2>4, <2>5 DEF InUse, OwnerOwns, OneClosing
  <2>7. QED
    BY <2>1, <2>2, <2>4, <2>5, <2>6
<1>7. CASE CloseLoad(t)
  <2>1. /\ pc[t] = "closeload" /\ pc'[t] = "closestore" /\ lk'[t] = lk[t]
        /\ tmp'[t] = ref[entry] /\ UNCHANGED <<ref, tid>>
    BY <1>3, <1>7 DEF CloseLoad, TInv, TypeOK
  <2>2. tid[entry] = t /\ ref[entry] = 1
    BY <1>2, <1>3, <2>1 DEF InUse, FieldsKept
  <2>3. Closing(t)'
    BY <2>1 DEF Closing
  <2>4. FieldsKept'
    BY <1>5, <1>6, <2>1, <2>2, <2>3 DEF FieldsKept
  <2>5. QED
    BY <1>3, <1>5, <1>6, <2>1, <2>4 DEF Calm, InUse
<1>8. CASE CloseStore(t)
  <2>1. /\ pc[t] = "closestore" /\ pc'[t] = "cleartid" /\ lk'[t] = lk[t]
        /\ ref'[entry] = (tmp[t] + REF_MOD - 1) % REF_MOD
        /\ UNCHANGED <<tid, tmp>>
    BY <1>3, <1>8 DEF CloseStore, TInv, TypeOK
  <2>2. tid[entry] = t /\ tmp[t] = 1
    BY <1>2, <1>3, <2>1 DEF InUse, FieldsKept
  <2>3. (1 + REF_MOD - 1) % REF_MOD = 0
    BY LockAssumption
  <2>4. Closing(t)'
    BY <2>1 DEF Closing
  <2>5. FieldsKept'
    BY <1>5, <1>6, <2>1, <2>2, <2>3, <2>4 DEF FieldsKept
  <2>6. QED
    BY <1>3, <1>5, <1>6, <2>1, <2>5 DEF Calm, InUse
<1>9. CASE ClearTid(t)
  <2>1. pc[t] = "cleartid" /\ pc'[t] = "idle" /\ UNCHANGED ref
    BY <1>9 DEF ClearTid, Return, TInv, TypeOK
  <2>2. tmp[t] = 1 /\ ref[entry] = 0
    BY <1>2, <1>3, <2>1 DEF InUse, FieldsKept
  <2>3. tid'[entry] = None
    BY <1>3, <1>9, <2>2 DEF ClearTid, TInv, TypeOK
  <2>4. ~Closing(t)'
    BY <2>1 DEF Closing
  <2>5. FieldsKept'
    BY <1>5, <1>6, <2>1, <2>2, <2>3, <2>4 DEF FieldsKept
  <2>6. QED
    BY <1>3, <1>5, <1>6, <2>1, <2>5 DEF Calm, InUse
<1>10. QED
  BY <1>7, <1>8, <1>9

(* A step without a race keeps the lock calm.                              *)
LEMMA RInvNext ==
  ASSUME MaxHeld <= 1
  PROVE  TInv /\ RInv /\ [Next]_vars => RInv'
<1> SUFFICES ASSUME TInv, RInv, [Next]_vars, ~raced' PROVE Calm'
  BY DEF RInv
<1>1. TInv'
  BY TInvNext
<1>2. CASE UNCHANGED vars
  <2>1. Calm
    BY <1>2 DEF RInv, vars
  <2>2. QED
    BY <1>2, <2>1 DEF vars, Calm, CreatedAlone, SameObject, Unused, InUse, OwnerOwns,
                      OneClosing, FieldsKept, Owns, Closing
<1>3. CASE Next
  <2>1. PICK t \in Threads :
          /\ \/ Step(t) \/ CallClose(t)
             \/ \E c \in Calls, p \in Private : CallOpen(t, c, p)
          /\ raced' = (raced \/ Conflict(t))
    BY <1>3 DEF Next
  <2>2. Calm /\ ~Conflict(t)
    BY <2>1 DEF RInv
  <2>3. Frame(t)
    BY <2>1, StepFrame
  <2>4. QED
    BY <1>1, <2>1, <2>2, <2>3, CalmCall, CalmLookup, CalmCreate, CalmLock, CalmOwner,
       CalmUnlock, CalmClosing
    DEF Step
<1>4. QED
  BY <1>2, <1>3

(* For any number of threads that use shlock_open, shlock_tryopen and      *)
(* shlock_close on a key, the object's creation included, without nesting: *)
(* as long as no thread meets another one adding the object or ending      *)
(* shlock_close, the lock excludes, and once everybody has closed it, the  *)
(* mutex is unlocked and ref is 0.                                         *)
THEOREM RaceFree ==
  ASSUME MaxHeld <= 1
  PROVE  Spec => []RaceFreeLock
<1>1. TInv /\ RInv /\ [Next]_vars => RInv'
  BY RInvNext
<1>2. TInv /\ RInv => RaceFreeLock
  <2> SUFFICES ASSUME TInv, Calm
               PROVE  MutualExclusion /\ ClosedIsUnlocked /\ ClosedIsUnused
    BY DEF RInv, RaceFreeLock
  <2>1. \A t \in Threads : held[t] > 0 => entry # None /\ mutex[entry].owner = t
    BY DEF Calm, SameObject, InUse, OwnerOwns, Owns
  <2>2. MutualExclusion
    BY <2>1 DEF MutualExclusion
  <2>3. ASSUME Quiet, entry # None PROVE mutex[entry].owner = None /\ ref[entry] = 0
    <3>1. \A t \in Threads : ~Owns(t) /\ ~Closing(t)
      BY <2>3 DEF Quiet, At, Owns, Closing
    <3>2. mutex[entry] \in Mutex
      BY <2>3 DEF TInv, TypeOK
    <3>3. mutex[entry].owner \in Threads \union {None}
      BY <3>2 DEF Mutex
    <3>4. InUse
      BY <2>3 DEF Calm
    <3>5. QED
      BY <3>1, <3>3, <3>4 DEF InUse, OwnerOwns, FieldsKept
  <2>4. QED
    BY <2>2, <2>3 DEF ClosedIsUnlocked, ClosedIsUnused
<1>3. QED
  BY <1>1, <1>2, TInvInit, TInvNext, RInvInit, PTL DEF Spec

=============================================================================
