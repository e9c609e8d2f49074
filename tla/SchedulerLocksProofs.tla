------------------------ MODULE SchedulerLocksProofs ------------------------
(***************************************************************************)
(* What holds of SchedulerLocks for every number of masters, workers and   *)
(* services.                                                               *)
(***************************************************************************)
EXTENDS SchedulerLocks, TLAPS

USE RunnersAssumption, MaxEndedAssumption, NoneAssumption, NoWorkerAssumption

(* A worker with a request in hand knows its service. *)
TargetSet ==
  \A w \in Workers : pc[w] \notin {"idle", "exited"} => target[w] \in Services

(* The end of the current acquisition can still be counted. *)
EndedRoom ==
  \A m \in Masters, s \in Services : holder[s] = m => ended[m][s] < MaxEnded

(* Typing is inductive only with the two facts above. *)
Typing == TypeOK /\ TargetSet /\ EndedRoom

(* Every step of a worker through Master.schedule. *)
LEMMA MasterType == \A w \in Workers : Master(w) \in Masters
BY DEF Workers, Master

(* The wrapper's Unlock keeps the types and the room for the watchers. *)
LEMMA WrapperUnlockTyping ==
  ASSUME Typing, NEW m \in Masters, NEW s \in Services, NEW r \in BOOLEAN,
         WrapperUnlock(m, s, r)
  PROVE  /\ holder' \in [Services -> Masters \union {NoMaster}]
         /\ libHeld' \in [Masters -> [Services -> BOOLEAN]]
         /\ held' \in [Masters -> [Services -> BOOLEAN]]
         /\ ended' \in [Masters -> [Services -> 0..MaxEnded]]
         /\ EndedRoom'
<1>1. /\ libHeld' \in [Masters -> [Services -> BOOLEAN]]
      /\ held' \in [Masters -> [Services -> BOOLEAN]]
  BY DEF WrapperUnlock, Typing, TypeOK
<1>2. CASE libHeld[m][s] /\ holder[s] = m /\ r
  <2>1. /\ holder' = [holder EXCEPT ![s] = NoMaster]
        /\ ended' = [ended EXCEPT ![m][s] = @ + 1]
    BY <1>2 DEF WrapperUnlock
  <2>2. ended[m][s] \in 0..MaxEnded /\ ended[m][s] < MaxEnded
    BY <1>2 DEF Typing, TypeOK, EndedRoom
  <2>3. ended[m][s] + 1 \in 0..MaxEnded
    BY <2>2
  <2>4. /\ holder' \in [Services -> Masters \union {NoMaster}]
        /\ ended' \in [Masters -> [Services -> 0..MaxEnded]]
    BY <2>1, <2>3 DEF Typing, TypeOK
  <2>5. EndedRoom'
    BY <2>1 DEF Typing, TypeOK, EndedRoom
  <2> QED BY <1>1, <2>4, <2>5
<1>3. CASE ~(libHeld[m][s] /\ holder[s] = m /\ r)
  <2>1. UNCHANGED <<holder, ended>>
    BY <1>3 DEF WrapperUnlock
  <2> QED BY <1>1, <2>1 DEF Typing, TypeOK, EndedRoom
<1> QED BY <1>2, <1>3

LEMMA LoseKeyTyping ==
  ASSUME Typing, NEW s \in Services, holder[s] # NoMaster, LoseKey(s)
  PROVE  Typing'
<1>1. /\ holder[s] \in Masters
      /\ ended[holder[s]][s] \in 0..MaxEnded
      /\ ended[holder[s]][s] < MaxEnded
  BY DEF Typing, TypeOK, EndedRoom
<1>2. ended[holder[s]][s] + 1 \in 0..MaxEnded
  BY <1>1
<1>3. TypeOK'
  BY <1>1, <1>2 DEF LoseKey, lifeVars, Typing, TypeOK
<1>4. EndedRoom' /\ TargetSet'
  BY <1>1 DEF LoseKey, Typing, TypeOK, EndedRoom, TargetSet
<1> QED BY <1>3, <1>4 DEF Typing

(* A step of one worker, shutdown and faults aside. *)
LEMMA WorkerStepTyping ==
  ASSUME Typing, NEW w \in Workers, WorkerStep(w)
  PROVE  Typing'
<1> USE MasterType DEF Typing
<1>1. CASE LockBegin(w)
  BY <1>1 DEF LockBegin, Goto, TakeMutex, lockVars, lifeVars, TypeOK, TargetSet, EndedRoom, Place
<1>2. CASE LockErrHeld(w)
  BY <1>2 DEF LockErrHeld, GoIdle, Goto, FreeMutex, lockVars, lifeVars, TypeOK, TargetSet,
              EndedRoom, Place
<1>3. CASE LockAcquire(w)
  <2>1. target[w] \in Services
    BY <1>3 DEF LockAcquire, Goto, TargetSet
  <2>2. TypeOK'
    BY <1>3, <2>1 DEF LockAcquire, Goto, FreeMutex, lifeVars, TypeOK, Place
  <2>3. TargetSet' /\ EndedRoom'
    BY <1>3, <2>1 DEF LockAcquire, CanAcquire, Goto, TypeOK, TargetSet, EndedRoom
  <2> QED BY <2>2, <2>3
<1>4. CASE LockGiveUp(w)
  BY <1>4 DEF LockGiveUp, Goto, FreeMutex, lockVars, lifeVars, TypeOK, TargetSet, EndedRoom, Place
<1>5. CASE CheckHeld(w)
  BY <1>5 DEF CheckHeld, Goto, lockVars, lifeVars, TypeOK, TargetSet, EndedRoom, Place
<1>6. CASE ScheduleDone(w)
  BY <1>6 DEF ScheduleDone, Goto, lockVars, lifeVars, TypeOK, TargetSet, EndedRoom, Place
<1>7. CASE DeferredUnlock(w)
  <2>1. target[w] \in Services
    BY <1>7 DEF DeferredUnlock, GoIdle, Goto, TargetSet
  <2>2. WrapperUnlock(Master(w), target[w], TRUE)
    BY <1>7 DEF DeferredUnlock
  <2>3. TypeOK' /\ EndedRoom'
    BY <1>7, <2>1, <2>2, WrapperUnlockTyping
       DEF DeferredUnlock, GoIdle, Goto, lifeVars, TypeOK, Place
  <2>4. TargetSet'
    BY <1>7 DEF DeferredUnlock, GoIdle, Goto, TypeOK, TargetSet
  <2> QED BY <2>3, <2>4
<1> QED
  BY <1>1, <1>2, <1>3, <1>4, <1>5, <1>6, <1>7 DEF WorkerStep, LockStep

LEMMA WorkTyping ==
  ASSUME Typing, Work
  PROVE  Typing'
<1> USE MasterType DEF Typing
<1>1. ASSUME NEW w \in Workers, WorkerStep(w) PROVE Typing'
  BY <1>1, WorkerStepTyping
<1>2. ASSUME NEW w \in Workers, NEW s \in Services, Request(w, s) PROVE Typing'
  BY <1>2 DEF Request, Goto, lockVars, lifeVars, TypeOK, TargetSet, EndedRoom, Place
<1>3. ASSUME NEW m \in Masters, NEW s \in Services, WatcherFires(m, s) PROVE Typing'
  <2>1. ended[m][s] \in 0..MaxEnded /\ ended[m][s] - 1 \in 0..MaxEnded
    BY <1>3 DEF WatcherFires, TypeOK
  <2> QED BY <1>3, <2>1 DEF WatcherFires, lifeVars, TypeOK, TargetSet, EndedRoom
<1> QED BY <1>1, <1>2, <1>3 DEF Work

LEMMA ShutdownTyping ==
  ASSUME Typing, Shutdown
  PROVE  Typing'
<1> USE MasterType DEF Typing
<1>1. ASSUME NEW m \in Masters, StopBegin(m) PROVE Typing'
  BY <1>1 DEF StopBegin, lockVars, TypeOK, TargetSet, EndedRoom
<1>2. ASSUME NEW m \in Masters, CloseQuit(m) PROVE Typing'
  BY <1>2 DEF CloseQuit, lockVars, TypeOK, TargetSet, EndedRoom
<1>3. ASSUME NEW m \in Masters, NEW s \in Services, StopUnlock(m, s) PROVE Typing'
  <2>1. WrapperUnlock(m, s, TRUE)
    BY <1>3 DEF StopUnlock
  <2>2. TypeOK' /\ EndedRoom'
    BY <1>3, <2>1, WrapperUnlockTyping DEF StopUnlock, TypeOK
  <2>3. TargetSet'
    BY <1>3 DEF StopUnlock, TargetSet
  <2> QED BY <2>2, <2>3
<1>4. ASSUME NEW w \in Workers, WorkerExits(w) PROVE Typing'
  BY <1>4 DEF WorkerExits, Goto, lockVars, lifeVars, TypeOK, TargetSet, EndedRoom, Place
<1> QED BY <1>1, <1>2, <1>3, <1>4 DEF Shutdown

LEMMA FaultsTyping ==
  ASSUME Typing, Faults
  PROVE  Typing'
<1> USE MasterType DEF Typing
<1>1. ASSUME NEW m \in Masters, Crash(m) PROVE Typing'
  BY <1>1 DEF Crash, lockVars, TypeOK, TargetSet, EndedRoom, Place
<1>2. ASSUME NEW s \in Services, SessionLapses(s) PROVE Typing'
  BY <1>2, LoseKeyTyping DEF SessionLapses, Lapsed
<1>3. ASSUME NEW s \in Services, SessionLost(s) PROVE Typing'
  BY <1>3, LoseKeyTyping DEF SessionLost
<1>4. ASSUME NEW w \in Workers, LockFails(w) PROVE Typing'
  BY <1>4 DEF LockFails, GoIdle, Goto, FreeMutex, lockVars, lifeVars, TypeOK, TargetSet,
              EndedRoom, Place
<1>5. ASSUME NEW w \in Workers, ReleaseFails(w) PROVE Typing'
  <2>1. target[w] \in Services
    BY <1>5 DEF ReleaseFails, GoIdle, Goto, TargetSet
  <2>2. WrapperUnlock(Master(w), target[w], FALSE)
    BY <1>5 DEF ReleaseFails
  <2>3. TypeOK' /\ EndedRoom'
    BY <1>5, <2>1, <2>2, WrapperUnlockTyping
       DEF ReleaseFails, GoIdle, Goto, lifeVars, TypeOK, Place
  <2>4. TargetSet'
    BY <1>5 DEF ReleaseFails, GoIdle, Goto, TypeOK, TargetSet
  <2> QED BY <2>3, <2>4
<1> QED BY <1>1, <1>2, <1>3, <1>4, <1>5 DEF Faults, Deaths

LEMMA InitTyping == Init => Typing
BY DEF Init, Typing, TypeOK, TargetSet, EndedRoom, Place

LEMMA NextTyping == Typing /\ [Next]_vars => Typing'
<1> SUFFICES ASSUME Typing, [Next]_vars PROVE Typing'
  OBVIOUS
<1>1. CASE Next
  BY <1>1, WorkTyping, ShutdownTyping, FaultsTyping DEF Next
<1>2. CASE UNCHANGED vars
  BY <1>2 DEF vars, lockVars, lifeVars, Typing, TypeOK, TargetSet, EndedRoom
<1> QED BY <1>1, <1>2

(* Type correctness, with crashes, lost sessions and shutdown. *)
THEOREM TypeCorrect == Spec => []TypeOK
<1>1. Typing => TypeOK
  BY DEF Typing
<1> QED BY <1>1, InitTyping, NextTyping, PTL DEF Spec

-----------------------------------------------------------------------------
(* No lock is left behind.  The invariant needs only Typing beside it: the *)
(* one step that sets isHeld puts its worker past Lock, and the one step   *)
(* that takes a worker from there clears isHeld for its service.           *)

NoLeakInv == Typing /\ NoLeakedLock

LEMMA WrapperUnlockLibHeld ==
  ASSUME TypeOK, NEW m \in Masters, NEW s \in Services, NEW r \in BOOLEAN,
         WrapperUnlock(m, s, r)
  PROVE  /\ ~libHeld'[m][s]
         /\ \A n \in Masters, t \in Services : libHeld'[n][t] => libHeld[n][t]
BY DEF WrapperUnlock, TypeOK

(* A worker at its Unlock leaves; every other worker stays where it is. *)
LEMMA UnlockNoLeak ==
  ASSUME NoLeakInv, NEW w \in Workers, NEW r \in BOOLEAN,
         GoIdle(w, "unlock"), WrapperUnlock(Master(w), target[w], r), life' = life
  PROVE  NoLeakedLock'
<1>1. Master(w) \in Masters /\ target[w] \in Services
  BY MasterType DEF NoLeakInv, Typing, TargetSet, GoIdle, Goto
<1>2. /\ ~libHeld'[Master(w)][target[w]]
      /\ \A n \in Masters, t \in Services : libHeld'[n][t] => libHeld[n][t]
  BY <1>1, WrapperUnlockLibHeld DEF NoLeakInv, Typing
<1>3. ASSUME NEW n \in Masters, NEW t \in Services, libHeld'[n][t], life'[n] # "dead"
      PROVE  \E v \in Workers : Master(v) = n /\ PastLock(v, t)'
  <2>1. PICK v \in Workers : Master(v) = n /\ PastLock(v, t)
    BY <1>2, <1>3 DEF NoLeakInv, NoLeakedLock
  <2>2. v # w
    BY <1>2, <1>3, <2>1 DEF PastLock
  <2>3. PastLock(v, t)'
    BY <2>1, <2>2 DEF PastLock, GoIdle, Goto, NoLeakInv, Typing, TypeOK
  <2> QED BY <2>1, <2>3
<1> QED BY <1>3 DEF NoLeakedLock, PastLock

(* Steps that leave isHeld and life alone and keep every worker past Lock. *)
LEMMA KeepsNoLeak ==
  ASSUME NoLeakedLock, UNCHANGED libHeld,
         \A m \in Masters : life'[m] # "dead" => life[m] # "dead",
         \A v \in Workers, s \in Services :
            life'[Master(v)] # "dead" /\ PastLock(v, s) => PastLock(v, s)'
  PROVE  NoLeakedLock'
BY DEF NoLeakedLock, PastLock

LEMMA WorkNoLeak ==
  ASSUME NoLeakInv, Work
  PROVE  NoLeakedLock'
<1> USE MasterType DEF NoLeakInv, Typing
<1>1. ASSUME NEW w \in Workers, LockBegin(w) PROVE NoLeakedLock'
  BY <1>1, KeepsNoLeak DEF LockBegin, Goto, lockVars, lifeVars, TypeOK, PastLock
<1>2. ASSUME NEW w \in Workers, LockErrHeld(w) PROVE NoLeakedLock'
  BY <1>2, KeepsNoLeak DEF LockErrHeld, GoIdle, Goto, lockVars, lifeVars, TypeOK, PastLock
<1>3. ASSUME NEW w \in Workers, LockAcquire(w) PROVE NoLeakedLock'
  <2>1. target[w] \in Services
    BY <1>3 DEF LockAcquire, Goto, TargetSet
  <2>2. \A s \in Services : s = target[w] => PastLock(w, s)'
    BY <1>3 DEF LockAcquire, Goto, TypeOK, PastLock
  <2>3. \A v \in Workers, s \in Services : PastLock(v, s) => PastLock(v, s)'
    BY <1>3 DEF LockAcquire, Goto, TypeOK, PastLock
  <2>4. \A m \in Masters, s \in Services :
           libHeld'[m][s] => libHeld[m][s] \/ (m = Master(w) /\ s = target[w])
    BY <1>3, <2>1 DEF LockAcquire, TypeOK
  <2>5. life' = life
    BY <1>3 DEF LockAcquire, lifeVars
  <2>6. ASSUME NEW m \in Masters, NEW s \in Services, libHeld'[m][s], life'[m] # "dead"
        PROVE  \E v \in Workers : Master(v) = m /\ PastLock(v, s)'
    <3>1. CASE libHeld[m][s]
      <4>1. PICK v \in Workers : Master(v) = m /\ PastLock(v, s)
        BY <2>5, <2>6, <3>1 DEF NoLeakedLock
      <4> QED BY <2>3, <4>1
    <3>2. CASE m = Master(w) /\ s = target[w]
      BY <2>2, <3>2
    <3> QED BY <2>4, <2>6, <3>1, <3>2
  <2> QED BY <2>6 DEF NoLeakedLock
<1>4. ASSUME NEW w \in Workers, LockGiveUp(w) PROVE NoLeakedLock'
  BY <1>4, KeepsNoLeak DEF LockGiveUp, Goto, lockVars, lifeVars, TypeOK, PastLock
<1>5. ASSUME NEW w \in Workers, CheckHeld(w) PROVE NoLeakedLock'
  BY <1>5, KeepsNoLeak DEF CheckHeld, Goto, lockVars, lifeVars, TypeOK, PastLock
<1>6. ASSUME NEW w \in Workers, ScheduleDone(w) PROVE NoLeakedLock'
  BY <1>6, KeepsNoLeak DEF ScheduleDone, Goto, lockVars, lifeVars, TypeOK, PastLock
<1>7. ASSUME NEW w \in Workers, DeferredUnlock(w) PROVE NoLeakedLock'
  BY <1>7, UnlockNoLeak DEF DeferredUnlock, lifeVars
<1>8. ASSUME NEW w \in Workers, NEW s \in Services, Request(w, s) PROVE NoLeakedLock'
  BY <1>8, KeepsNoLeak DEF Request, Goto, lockVars, lifeVars, TypeOK, PastLock
<1>9. ASSUME NEW m \in Masters, NEW s \in Services, WatcherFires(m, s) PROVE NoLeakedLock'
  BY <1>9, KeepsNoLeak DEF WatcherFires, lifeVars, PastLock
<1> QED
  BY <1>1, <1>2, <1>3, <1>4, <1>5, <1>6, <1>7, <1>8, <1>9 DEF Work, WorkerStep, LockStep

LEMMA ShutdownNoLeak ==
  ASSUME NoLeakInv, Shutdown
  PROVE  NoLeakedLock'
<1> USE MasterType DEF NoLeakInv, Typing
<1>1. ASSUME NEW m \in Masters, StopBegin(m) PROVE NoLeakedLock'
  BY <1>1, KeepsNoLeak DEF StopBegin, lockVars, TypeOK, PastLock
<1>2. ASSUME NEW m \in Masters, CloseQuit(m) PROVE NoLeakedLock'
  BY <1>2, KeepsNoLeak DEF CloseQuit, lockVars, TypeOK, PastLock
<1>3. ASSUME NEW m \in Masters, NEW s \in Services, StopUnlock(m, s) PROVE NoLeakedLock'
  <2>1. \A n \in Masters, t \in Services : libHeld'[n][t] => libHeld[n][t]
    BY <1>3, WrapperUnlockLibHeld DEF StopUnlock
  <2> QED BY <1>3, <2>1 DEF StopUnlock, NoLeakedLock, PastLock
<1>4. ASSUME NEW w \in Workers, WorkerExits(w) PROVE NoLeakedLock'
  BY <1>4, KeepsNoLeak DEF WorkerExits, Goto, lockVars, lifeVars, TypeOK, PastLock
<1> QED BY <1>1, <1>2, <1>3, <1>4 DEF Shutdown

LEMMA FaultsNoLeak ==
  ASSUME NoLeakInv, Faults
  PROVE  NoLeakedLock'
<1> USE MasterType DEF NoLeakInv, Typing
<1>1. ASSUME NEW m \in Masters, Crash(m) PROVE NoLeakedLock'
  BY <1>1, KeepsNoLeak DEF Crash, lockVars, TypeOK, PastLock
<1>2. ASSUME NEW s \in Services, LoseKey(s) PROVE NoLeakedLock'
  BY <1>2, KeepsNoLeak DEF LoseKey, lifeVars, PastLock
<1>3. ASSUME NEW w \in Workers, LockFails(w) PROVE NoLeakedLock'
  BY <1>3, KeepsNoLeak DEF LockFails, GoIdle, Goto, lockVars, lifeVars, TypeOK, PastLock
<1>4. ASSUME NEW w \in Workers, ReleaseFails(w) PROVE NoLeakedLock'
  BY <1>4, UnlockNoLeak DEF ReleaseFails, lifeVars
<1> QED BY <1>1, <1>2, <1>3, <1>4 DEF Faults, Deaths, SessionLapses, SessionLost

(* Every lock a living master's library holds will be given back by one of *)
(* its workers, with any number of workers and under every fault.          *)
THEOREM NoLockLeaks == Spec => []NoLeakedLock
<1>1. Init => NoLeakInv
  BY InitTyping DEF Init, NoLeakInv, NoLeakedLock
<1>2. NoLeakInv /\ [Next]_vars => NoLeakInv'
  <2> SUFFICES ASSUME NoLeakInv, [Next]_vars PROVE NoLeakInv'
    OBVIOUS
  <2>1. Typing'
    BY NextTyping DEF NoLeakInv
  <2>2. CASE Next
    BY <2>1, <2>2, WorkNoLeak, ShutdownNoLeak, FaultsNoLeak DEF Next, NoLeakInv
  <2>3. CASE UNCHANGED vars
    BY <2>1, <2>3 DEF vars, lockVars, lifeVars, NoLeakInv, NoLeakedLock, PastLock
  <2> QED BY <2>2, <2>3
<1>3. NoLeakInv => NoLeakedLock
  BY DEF NoLeakInv
<1> QED BY <1>1, <1>2, <1>3, PTL DEF Spec

-----------------------------------------------------------------------------
(* Exclusion.  With one worker per master, or one master, no two workers of*)
(* a master are past Lock for one service at once; then a worker's Unlock  *)
(* can only take its own lock away, and what IsHeld told it stays true.    *)

OneEach == \A m \in Masters : Runners[m] = 1

SoleAttempt == OneEach \/ \A m, n \in Masters : m = n

KeyAgrees ==
  \A m \in Masters, s \in Services : libHeld[m][s] <=> holder[s] = m

HeldUnderKey ==
  \A m \in Masters, s \in Services : held[m][s] => holder[s] = m

Alone ==
  \A v, w \in Workers, s \in Services :
    v # w /\ Master(v) = Master(w) /\ PastLock(v, s) => ~PastLock(w, s)

PastLockHasKey ==
  ~OneEach => \A w \in Workers, s \in Services : PastLock(w, s) => holder[s] = Master(w)

KeyInv == KeyAgrees /\ HeldUnderKey
WhoInv == Alone /\ PastLockHasKey /\ SchedulesUnderTheKey
ExclInv == Typing /\ KeyInv /\ WhoInv

LEMMA OneWorker ==
  ASSUME OneEach, NEW v \in Workers, NEW w \in Workers, Master(v) = Master(w)
  PROVE  v = w
BY DEF OneEach, Workers, Master

(* A step that leaves the key, isHeld and held alone, and takes no worker  *)
(* past Lock or into Schedule without the key.                             *)
LEMMA KeepsExcl ==
  ASSUME ExclInv, UNCHANGED <<holder, libHeld, held>>,
         \A v \in Workers, s \in Services : PastLock(v, s)' => PastLock(v, s),
         \A v \in Workers : pc'[v] = "schedule" =>
             target'[v] = target[v] /\ (pc[v] = "schedule" \/ held[Master(v)][target[v]]),
         \A v \in Workers : pc'[v] = "schedule" => target[v] \in Services
  PROVE  KeyInv' /\ WhoInv'
<1>1. KeyInv'
  BY DEF ExclInv, KeyInv, KeyAgrees, HeldUnderKey
<1>2. Alone'
  BY DEF ExclInv, WhoInv, Alone
<1>3. PastLockHasKey'
  BY DEF ExclInv, WhoInv, PastLockHasKey
<1>4. SchedulesUnderTheKey'
  BY MasterType DEF ExclInv, WhoInv, KeyInv, HeldUnderKey, SchedulesUnderTheKey
<1> QED BY <1>1, <1>2, <1>3, <1>4 DEF WhoInv

LEMMA AcquireExcl ==
  ASSUME SoleAttempt, ExclInv, NEW w \in Workers, LockAcquire(w)
  PROVE  KeyInv' /\ WhoInv'
<1> DEFINE m == Master(w)
           t == target[w]
<1>1. /\ m \in Masters /\ t \in Services
      /\ pc[w] = "locking" /\ pc' = [pc EXCEPT ![w] = "locked"]
      /\ ~libHeld[m][t] /\ holder[t] = NoMaster
      /\ holder' = [holder EXCEPT ![t] = m]
      /\ libHeld' = [libHeld EXCEPT ![m][t] = TRUE]
      /\ held' = [held EXCEPT ![m][t] = TRUE]
      /\ target' = target
  BY MasterType DEF LockAcquire, CanAcquire, Goto, ExclInv, Typing, TargetSet
<1>2. \A v \in Workers, s \in Services :
         PastLock(v, s)' <=> PastLock(v, s) \/ (v = w /\ s = t)
  BY <1>1 DEF PastLock, ExclInv, Typing, TypeOK
<1>3. KeyInv'
  BY <1>1 DEF ExclInv, Typing, TypeOK, KeyInv, KeyAgrees, HeldUnderKey
<1>4. ASSUME NEW v \in Workers, v # w, Master(v) = m PROVE ~PastLock(v, t)
  <2>1. ~OneEach
    BY <1>4, OneWorker
  <2> QED BY <1>1, <1>4, <2>1 DEF ExclInv, WhoInv, PastLockHasKey
<1>5. Alone'
  BY <1>2, <1>4 DEF ExclInv, WhoInv, Alone
<1>6. PastLockHasKey'
  BY <1>1, <1>2, MasterType DEF ExclInv, WhoInv, PastLockHasKey, Typing, TypeOK
<1>7. SchedulesUnderTheKey'
  BY <1>1, MasterType
     DEF ExclInv, WhoInv, SchedulesUnderTheKey, Typing, TypeOK, TargetSet
<1> QED BY <1>3, <1>5, <1>6, <1>7 DEF WhoInv

LEMMA GiveUpExcl ==
  ASSUME SoleAttempt, ExclInv, NEW w \in Workers, LockGiveUp(w)
  PROVE  KeyInv' /\ WhoInv'
<1> DEFINE m == Master(w)
           t == target[w]
<1>1. /\ m \in Masters /\ t \in Services
      /\ pc[w] = "locking" /\ pc' = [pc EXCEPT ![w] = "locked"]
      /\ ~libHeld[m][t] /\ holder[t] # NoMaster
      /\ UNCHANGED <<holder, libHeld, held, target>>
  BY MasterType DEF LockGiveUp, MayGiveUp, Goto, lockVars, ExclInv, Typing, TargetSet
<1>2. OneEach
  <2>1. holder[t] \in Masters /\ holder[t] # m
    BY <1>1 DEF ExclInv, Typing, TypeOK, KeyInv, KeyAgrees
  <2> QED BY <1>1, <2>1 DEF SoleAttempt
<1>3. KeyInv'
  BY <1>1 DEF ExclInv, KeyInv, KeyAgrees, HeldUnderKey
<1>4. Alone' /\ PastLockHasKey'
  BY <1>2, OneWorker DEF Alone, PastLockHasKey
<1>5. SchedulesUnderTheKey'
  BY <1>1 DEF ExclInv, WhoInv, SchedulesUnderTheKey, Typing, TypeOK
<1> QED BY <1>3, <1>4, <1>5 DEF WhoInv

LEMMA UnlockExcl ==
  ASSUME SoleAttempt, ExclInv, NEW w \in Workers, DeferredUnlock(w)
  PROVE  KeyInv' /\ WhoInv'
<1> DEFINE m == Master(w)
           t == target[w]
<1>1. /\ m \in Masters /\ t \in Services
      /\ pc[w] = "unlock" /\ pc' = [pc EXCEPT ![w] = "idle"]
      /\ target' = [target EXCEPT ![w] = NoService]
      /\ WrapperUnlock(m, t, TRUE)
  BY MasterType DEF DeferredUnlock, GoIdle, Goto, ExclInv, Typing, TargetSet
<1>2. /\ libHeld' = [libHeld EXCEPT ![m][t] = FALSE]
      /\ held' = [held EXCEPT ![m][t] = FALSE]
      /\ holder' = [holder EXCEPT ![t] = IF holder[t] = m THEN NoMaster ELSE @]
  BY <1>1 DEF WrapperUnlock, ExclInv, KeyInv, KeyAgrees, Typing, TypeOK
<1>3. KeyInv'
  BY <1>1, <1>2 DEF ExclInv, Typing, TypeOK, KeyInv, KeyAgrees, HeldUnderKey
<1>4. \A v \in Workers, s \in Services :
         PastLock(v, s)' <=> PastLock(v, s) /\ v # w
  BY <1>1 DEF PastLock, ExclInv, Typing, TypeOK
<1>5. PastLock(w, t)
  BY <1>1 DEF PastLock
<1>6. \A v \in Workers, s \in Services :
         PastLock(v, s) /\ v # w /\ holder[s] = Master(v) => holder'[s] = Master(v)
  BY <1>1, <1>2, <1>5 DEF ExclInv, WhoInv, Alone, Typing, TypeOK
<1>7. Alone'
  BY <1>4 DEF ExclInv, WhoInv, Alone
<1>8. PastLockHasKey'
  BY <1>4, <1>6 DEF ExclInv, WhoInv, PastLockHasKey
<1>9. SchedulesUnderTheKey'
  <2> SUFFICES ASSUME NEW v \in Workers, pc'[v] = "schedule"
               PROVE  holder'[target'[v]] = Master(v)
    BY DEF SchedulesUnderTheKey
  <2>1. v # w /\ pc[v] = "schedule" /\ target'[v] = target[v]
    BY <1>1 DEF ExclInv, Typing, TypeOK
  <2>2. target[v] \in Services /\ PastLock(v, target[v])
    BY <2>1 DEF PastLock, ExclInv, Typing, TargetSet
  <2> QED BY <1>6, <2>1, <2>2 DEF ExclInv, WhoInv, SchedulesUnderTheKey
<1> QED BY <1>3, <1>7, <1>8, <1>9 DEF WhoInv

LEMMA WorkExcl ==
  ASSUME SoleAttempt, ExclInv, Work
  PROVE  KeyInv' /\ WhoInv'
<1> USE DEF PastLock, ExclInv, Typing, TypeOK, TargetSet
<1>1. ASSUME NEW w \in Workers, LockBegin(w) PROVE KeyInv' /\ WhoInv'
  BY <1>1, KeepsExcl DEF LockBegin, Goto, lockVars
<1>2. ASSUME NEW w \in Workers, LockErrHeld(w) PROVE KeyInv' /\ WhoInv'
  BY <1>2, KeepsExcl DEF LockErrHeld, GoIdle, Goto, lockVars
<1>3. ASSUME NEW w \in Workers, LockAcquire(w) PROVE KeyInv' /\ WhoInv'
  BY <1>3, AcquireExcl
<1>4. ASSUME NEW w \in Workers, LockGiveUp(w) PROVE KeyInv' /\ WhoInv'
  BY <1>4, GiveUpExcl
<1>5. ASSUME NEW w \in Workers, CheckHeld(w) PROVE KeyInv' /\ WhoInv'
  BY <1>5, KeepsExcl DEF CheckHeld, Goto, lockVars
<1>6. ASSUME NEW w \in Workers, ScheduleDone(w) PROVE KeyInv' /\ WhoInv'
  BY <1>6, KeepsExcl DEF ScheduleDone, Goto, lockVars
<1>7. ASSUME NEW w \in Workers, DeferredUnlock(w) PROVE KeyInv' /\ WhoInv'
  BY <1>7, UnlockExcl
<1>8. ASSUME NEW w \in Workers, NEW s \in Services, Request(w, s) PROVE KeyInv' /\ WhoInv'
  BY <1>8, KeepsExcl DEF Request, Goto, lockVars
<1>9. ASSUME NEW m \in Masters, NEW s \in Services, WatcherFires(m, s)
      PROVE  KeyInv' /\ WhoInv'
  <2>1. /\ UNCHANGED <<holder, libHeld, pc, target>>
        /\ held' = [held EXCEPT ![m][s] = FALSE]
    BY <1>9 DEF WatcherFires
  <2>2. KeyInv'
    BY <2>1 DEF KeyInv, KeyAgrees, HeldUnderKey
  <2>3. WhoInv'
    BY <2>1 DEF WhoInv, Alone, PastLockHasKey, SchedulesUnderTheKey
  <2> QED BY <2>2, <2>3
<1> QED
  BY <1>1, <1>2, <1>3, <1>4, <1>5, <1>6, <1>7, <1>8, <1>9 DEF Work, WorkerStep, LockStep

LEMMA InitExcl == Init => ExclInv
<1> SUFFICES ASSUME Init PROVE ExclInv
  OBVIOUS
<1>1. Typing
  BY InitTyping
<1>2. KeyInv /\ WhoInv
  BY DEF Init, KeyInv, KeyAgrees, HeldUnderKey, WhoInv, Alone, PastLockHasKey,
         SchedulesUnderTheKey, PastLock
<1> QED BY <1>1, <1>2 DEF ExclInv

LEMMA StepExcl ==
  ASSUME SoleAttempt
  PROVE  ExclInv /\ [Work]_vars => ExclInv'
<1> SUFFICES ASSUME ExclInv, [Work]_vars PROVE ExclInv'
  OBVIOUS
<1>1. Typing'
  BY NextTyping DEF ExclInv, Next
<1>2. CASE Work
  BY <1>1, <1>2, WorkExcl DEF ExclInv
<1>3. CASE UNCHANGED vars
  <2>1. KeyInv'
    BY <1>3 DEF vars, ExclInv, KeyInv, KeyAgrees, HeldUnderKey
  <2>2. WhoInv'
    BY <1>3 DEF vars, ExclInv, WhoInv, Alone, PastLockHasKey, SchedulesUnderTheKey, PastLock
  <2> QED BY <1>1, <2>1, <2>2 DEF ExclInv
<1> QED BY <1>2, <1>3

LEMMA ExclImpliesMutualExclusion == ExclInv => MutualExclusion
<1> SUFFICES ASSUME ExclInv,
                    NEW v \in Workers, NEW w \in Workers,
                    v # w, pc[v] = "schedule", pc[w] = "schedule", target[v] = target[w]
             PROVE  FALSE
  BY DEF MutualExclusion
<1>1. target[v] \in Services /\ PastLock(v, target[v]) /\ PastLock(w, target[v])
  BY DEF PastLock, ExclInv, Typing, TargetSet
<1>2. Master(v) = Master(w)
  BY DEF ExclInv, WhoInv, SchedulesUnderTheKey
<1> QED BY <1>1, <1>2 DEF ExclInv, WhoInv, Alone

(* Without faults and shutdown, the workers of single-worker masters, or of*)
(* a single master, never schedule one service at the same time.           *)
THEOREM ExclusiveScheduling ==
  ASSUME SoleAttempt
  PROVE  CalmSpec => []MutualExclusion
<1>1. ExclInv /\ [Work]_vars => ExclInv'
  BY StepExcl
<1> QED BY <1>1, InitExcl, ExclImpliesMutualExclusion, PTL DEF CalmSpec

(* ... and each of them works under a key its master owns in Consul.       *)
THEOREM SchedulingUnderTheKey ==
  ASSUME SoleAttempt
  PROVE  CalmSpec => []SchedulesUnderTheKey
<1>1. ExclInv /\ [Work]_vars => ExclInv'
  BY StepExcl
<1>2. ExclInv => SchedulesUnderTheKey
  BY DEF ExclInv, WhoInv
<1> QED BY <1>1, <1>2, InitExcl, PTL DEF CalmSpec

-----------------------------------------------------------------------------
(* Implementation of ScheduleRight: IsHeld answering yes is Enter, the end *)
(* of Schedule is Leave, every other step of a worker is a stutter.        *)

LEMMA SchedulingStutters ==
  ASSUME \A v \in Workers : pc'[v] = "schedule" <=> pc[v] = "schedule",
         \A v \in Workers : pc[v] = "schedule" => target'[v] = target[v]
  PROVE  UNCHANGED Scheduling
BY DEF Scheduling

LEMMA StepImplementsRight ==
  ASSUME Typing, MutualExclusion', [Work]_vars
  PROVE  [Right!Next]_Scheduling
<1> USE DEF Typing, TypeOK
<1>1. ASSUME NEW w \in Workers, LockBegin(w) PROVE UNCHANGED Scheduling
  BY <1>1, SchedulingStutters DEF LockBegin, Goto
<1>2. ASSUME NEW w \in Workers, LockErrHeld(w) PROVE UNCHANGED Scheduling
  BY <1>2, SchedulingStutters DEF LockErrHeld, GoIdle, Goto
<1>3. ASSUME NEW w \in Workers, LockAcquire(w) PROVE UNCHANGED Scheduling
  BY <1>3, SchedulingStutters DEF LockAcquire, Goto
<1>4. ASSUME NEW w \in Workers, LockGiveUp(w) PROVE UNCHANGED Scheduling
  BY <1>4, SchedulingStutters DEF LockGiveUp, Goto
<1>5. ASSUME NEW w \in Workers, CheckHeld(w) PROVE [Right!Next]_Scheduling
  <2>1. CASE held[Master(w)][target[w]]
    <3>1. /\ pc[w] = "locked" /\ pc' = [pc EXCEPT ![w] = "schedule"]
          /\ target' = target
      BY <1>5, <2>1 DEF CheckHeld, Goto
    <3>2. target[w] \in Services
      BY <3>1 DEF TargetSet
    <3>3. \A v \in Workers : pc[v] = "schedule" => target[v] # target[w]
      BY <3>1 DEF MutualExclusion
    <3>4. Scheduling[w] = NoService /\ \A v \in Workers : Scheduling[v] # target[w]
      BY <3>1, <3>2, <3>3 DEF Scheduling
    <3>5. Scheduling' = [Scheduling EXCEPT ![w] = target[w]]
      BY <3>1 DEF Scheduling
    <3> QED BY <3>2, <3>4, <3>5 DEF Right!Next, Right!Enter
  <2>2. CASE ~held[Master(w)][target[w]]
    BY <1>5, <2>2, SchedulingStutters DEF CheckHeld, Goto
  <2> QED BY <2>1, <2>2
<1>6. ASSUME NEW w \in Workers, ScheduleDone(w) PROVE Right!Next
  <2>1. /\ pc[w] = "schedule" /\ pc' = [pc EXCEPT ![w] = "unlock"]
        /\ target' = target
    BY <1>6 DEF ScheduleDone, Goto
  <2>2. Scheduling[w] # NoService
    BY <2>1 DEF Scheduling, TargetSet
  <2>3. Scheduling' = [Scheduling EXCEPT ![w] = NoService]
    BY <2>1 DEF Scheduling
  <2> QED BY <2>2, <2>3 DEF Right!Next, Right!Leave
<1>7. ASSUME NEW w \in Workers, DeferredUnlock(w) PROVE UNCHANGED Scheduling
  BY <1>7, SchedulingStutters DEF DeferredUnlock, GoIdle, Goto
<1>8. ASSUME NEW w \in Workers, NEW s \in Services, Request(w, s) PROVE UNCHANGED Scheduling
  BY <1>8, SchedulingStutters DEF Request, Goto
<1>9. ASSUME NEW m \in Masters, NEW s \in Services, WatcherFires(m, s)
      PROVE  UNCHANGED Scheduling
  BY <1>9, SchedulingStutters DEF WatcherFires
<1>10. CASE UNCHANGED vars
  BY <1>10, SchedulingStutters DEF vars
<1> QED
  BY <1>1, <1>2, <1>3, <1>4, <1>5, <1>6, <1>7, <1>8, <1>9, <1>10 DEF Work, WorkerStep, LockStep

(* The locks of single-worker masters, or of a single master, implement    *)
(* the right to schedule a service throughout the cluster.                 *)
THEOREM LocksImplementRight ==
  ASSUME SoleAttempt
  PROVE  CalmSpec => ImplementsRight
<1>1. Init => Right!Init
  BY DEF Init, Right!Init, Scheduling
<1>2. ExclInv /\ [Work]_vars => ExclInv'
  BY StepExcl
<1>3. ExclInv /\ ExclInv' /\ [Work]_vars => [Right!Next]_Scheduling
  <2>1. ExclInv' => MutualExclusion'
    BY ExclImpliesMutualExclusion, PTL
  <2> QED BY <2>1, StepImplementsRight DEF ExclInv
<1> QED BY <1>1, <1>2, <1>3, InitExcl, PTL DEF CalmSpec, ImplementsRight, Right!Spec

-----------------------------------------------------------------------------
(* The same with masters that die, sessions that nobody renews and calls   *)
(* that fail, for masters of one worker each.  The key and isHeld agree no *)
(* longer: a dead master owns keys its library will never give back, and a *)
(* living one owns a key it failed to release.  What remains is that a     *)
(* living master's flag implies isHeld, and isHeld the key; and a worker in*)
(* Schedule keeps isHeld, for nobody else unlocks its wrapper.             *)

KeptKey ==
  \A m \in Masters, s \in Services :
    life[m] # "dead" => (held[m][s] => libHeld[m][s]) /\ (libHeld[m][s] => holder[s] = m)

DeadGone == \A w \in Workers : life[Master(w)] = "dead" => pc[w] = "exited"

ScheduleHolds == \A w \in Workers : pc[w] = "schedule" => libHeld[Master(w)][target[w]]

KeptInv == Typing /\ KeptKey /\ DeadGone /\ ScheduleHolds

(* Steps that leave the lock alone. *)
LEMMA KeepsKept ==
  ASSUME KeptInv, Typing', UNCHANGED <<holder, libHeld, held, life>>,
         \A v \in Workers : pc[v] = "exited" => pc'[v] = "exited",
         \A v \in Workers : pc'[v] = "schedule" =>
            target'[v] = target[v] /\ (pc[v] = "schedule" \/ libHeld[Master(v)][target[v]])
  PROVE  KeptInv'
BY DEF KeptInv, KeptKey, DeadGone, ScheduleHolds

LEMMA AcquireKept ==
  ASSUME KeptInv, Typing', NEW w \in Workers, LockAcquire(w)
  PROVE  KeptInv'
<1> DEFINE m == Master(w)
           t == target[w]
<1>1. /\ m \in Masters /\ t \in Services
      /\ pc[w] = "locking" /\ pc' = [pc EXCEPT ![w] = "locked"]
      /\ holder[t] = NoMaster
      /\ holder' = [holder EXCEPT ![t] = m]
      /\ libHeld' = [libHeld EXCEPT ![m][t] = TRUE]
      /\ held' = [held EXCEPT ![m][t] = TRUE]
      /\ UNCHANGED <<target, life>>
  BY MasterType DEF LockAcquire, CanAcquire, Goto, lifeVars, KeptInv, Typing, TargetSet
<1>2. KeptKey'
  BY <1>1, NoneAssumption DEF NoneAssumption, KeptInv, KeptKey, Typing, TypeOK
<1>3. DeadGone'
  BY <1>1 DEF KeptInv, DeadGone, Typing, TypeOK
<1>4. ScheduleHolds'
  BY <1>1, MasterType DEF KeptInv, ScheduleHolds, Typing, TypeOK, TargetSet
<1> QED BY <1>2, <1>3, <1>4 DEF KeptInv

(* The deferred Unlock, answered or not: only the worker itself was past   *)
(* the lock of its wrapper.                                                *)
LEMMA UnlockKept ==
  ASSUME OneEach, KeptInv, Typing', NEW w \in Workers, NEW r \in BOOLEAN,
         GoIdle(w, "unlock"), WrapperUnlock(Master(w), target[w], r), life' = life
  PROVE  KeptInv'
<1> DEFINE m == Master(w)
           t == target[w]
<1>1. /\ m \in Masters /\ t \in Services
      /\ pc[w] = "unlock" /\ pc' = [pc EXCEPT ![w] = "idle"]
      /\ target' = [target EXCEPT ![w] = NoService]
  BY MasterType DEF GoIdle, Goto, KeptInv, Typing, TargetSet
<1>2. /\ libHeld' = [libHeld EXCEPT ![m][t] = FALSE]
      /\ held' = [held EXCEPT ![m][t] = FALSE]
      /\ holder' = holder \/ (holder[t] = m /\ holder' = [holder EXCEPT ![t] = NoMaster])
  BY DEF WrapperUnlock
<1>3. KeptKey'
  BY <1>1, <1>2 DEF KeptInv, KeptKey, Typing, TypeOK
<1>4. DeadGone'
  BY <1>1 DEF KeptInv, DeadGone, Typing, TypeOK
<1>5. ASSUME NEW v \in Workers, pc'[v] = "schedule" PROVE libHeld'[Master(v)][target'[v]]
  <2>1. v # w /\ pc[v] = "schedule" /\ target'[v] = target[v]
    BY <1>1, <1>5 DEF KeptInv, Typing, TypeOK
  <2>2. Master(v) # m
    BY <2>1, OneWorker
  <2> QED BY <1>1, <1>2, <2>1, <2>2, MasterType DEF KeptInv, ScheduleHolds, Typing, TypeOK, TargetSet
<1> QED BY <1>3, <1>4, <1>5 DEF KeptInv, ScheduleHolds

LEMMA WorkKept ==
  ASSUME OneEach, KeptInv, Typing', Work
  PROVE  KeptInv'
<1> USE DEF KeptInv, Typing, TypeOK
<1>1. ASSUME NEW w \in Workers, LockBegin(w) PROVE KeptInv'
  BY <1>1, KeepsKept DEF LockBegin, Goto, lockVars, lifeVars
<1>2. ASSUME NEW w \in Workers, LockErrHeld(w) PROVE KeptInv'
  BY <1>2, KeepsKept DEF LockErrHeld, GoIdle, Goto, lockVars, lifeVars
<1>3. ASSUME NEW w \in Workers, LockAcquire(w) PROVE KeptInv'
  BY <1>3, AcquireKept
<1>4. ASSUME NEW w \in Workers, LockGiveUp(w) PROVE KeptInv'
  BY <1>4, KeepsKept DEF LockGiveUp, Goto, lockVars, lifeVars
<1>5. ASSUME NEW w \in Workers, CheckHeld(w) PROVE KeptInv'
  <2>1. life[Master(w)] # "dead" /\ target[w] \in Services /\ Master(w) \in Masters
    BY <1>5, MasterType DEF CheckHeld, Goto, DeadGone, TargetSet
  <2>2. held[Master(w)][target[w]] => libHeld[Master(w)][target[w]]
    BY <2>1 DEF KeptKey
  <2> QED BY <1>5, <2>2, KeepsKept DEF CheckHeld, Goto, lockVars, lifeVars
<1>6. ASSUME NEW w \in Workers, ScheduleDone(w) PROVE KeptInv'
  BY <1>6, KeepsKept DEF ScheduleDone, Goto, lockVars, lifeVars
<1>7. ASSUME NEW w \in Workers, DeferredUnlock(w) PROVE KeptInv'
  BY <1>7, UnlockKept DEF DeferredUnlock, lifeVars
<1>8. ASSUME NEW w \in Workers, NEW s \in Services, Request(w, s) PROVE KeptInv'
  BY <1>8, KeepsKept DEF Request, Goto, lockVars, lifeVars
<1>9. ASSUME NEW m \in Masters, NEW s \in Services, WatcherFires(m, s) PROVE KeptInv'
  <2>1. /\ UNCHANGED <<holder, libHeld, pc, target, life>>
        /\ held' = [held EXCEPT ![m][s] = FALSE]
    BY <1>9 DEF WatcherFires, lifeVars
  <2> QED BY <2>1 DEF KeptKey, DeadGone, ScheduleHolds
<1> QED
  BY <1>1, <1>2, <1>3, <1>4, <1>5, <1>6, <1>7, <1>8, <1>9 DEF Work, WorkerStep, LockStep

LEMMA DeathsKept ==
  ASSUME OneEach, KeptInv, Typing', Deaths
  PROVE  KeptInv'
<1> USE DEF KeptInv, Typing, TypeOK
<1>1. ASSUME NEW m \in Masters, Crash(m) PROVE KeptInv'
  <2>1. /\ UNCHANGED <<holder, libHeld, held>>
        /\ life' = [life EXCEPT ![m] = "dead"]
        /\ \A w \in Workers : pc'[w] = IF Master(w) = m THEN "exited" ELSE pc[w]
        /\ \A w \in Workers : target'[w] = IF Master(w) = m THEN NoService ELSE target[w]
    BY <1>1 DEF Crash, lockVars
  <2>2. KeptKey'
    BY <2>1 DEF KeptKey
  <2>3. DeadGone'
    BY <2>1, MasterType DEF DeadGone
  <2>4. ScheduleHolds'
    BY <2>1 DEF ScheduleHolds
  <2> QED BY <2>2, <2>3, <2>4
<1>2. ASSUME NEW s \in Services, SessionLapses(s) PROVE KeptInv'
  <2>1. /\ holder' = [holder EXCEPT ![s] = NoMaster]
        /\ UNCHANGED <<libHeld, held, pc, target, life>>
        /\ holder[s] # NoMaster /\ (life[holder[s]] = "dead" \/ ~libHeld[holder[s]][s])
    BY <1>2 DEF SessionLapses, Lapsed, LoseKey, lifeVars
  <2> QED BY <2>1 DEF KeptKey, DeadGone, ScheduleHolds
<1>3. ASSUME NEW w \in Workers, LockFails(w) PROVE KeptInv'
  BY <1>3, KeepsKept DEF LockFails, GoIdle, Goto, lockVars, lifeVars
<1>4. ASSUME NEW w \in Workers, ReleaseFails(w) PROVE KeptInv'
  BY <1>4, UnlockKept DEF ReleaseFails, lifeVars
<1> QED BY <1>1, <1>2, <1>3, <1>4 DEF Deaths

LEMMA InitKept == Init => KeptInv
<1> SUFFICES ASSUME Init PROVE KeptInv
  OBVIOUS
<1>1. Typing
  BY InitTyping
<1> QED BY <1>1, MasterType DEF Init, KeptInv, KeptKey, DeadGone, ScheduleHolds

LEMMA StepKept ==
  ASSUME OneEach
  PROVE  KeptInv /\ [Work \/ Deaths]_vars => KeptInv'
<1> SUFFICES ASSUME KeptInv, [Work \/ Deaths]_vars PROVE KeptInv'
  OBVIOUS
<1>1. Typing'
  BY NextTyping DEF KeptInv, Next, Faults
<1>2. CASE Work \/ Deaths
  BY <1>1, <1>2, WorkKept, DeathsKept
<1>3. CASE UNCHANGED vars
  BY <1>1, <1>3 DEF vars, KeptInv, KeptKey, DeadGone, ScheduleHolds
<1> QED BY <1>2, <1>3

LEMMA KeptUnderTheKey == KeptInv => SchedulesUnderTheKey
<1> SUFFICES ASSUME KeptInv, NEW w \in Workers, pc[w] = "schedule"
             PROVE  holder[target[w]] = Master(w)
  BY DEF SchedulesUnderTheKey
<1>1. life[Master(w)] # "dead" /\ target[w] \in Services /\ Master(w) \in Masters
  BY MasterType DEF KeptInv, Typing, TargetSet, DeadGone
<1> QED BY <1>1 DEF KeptInv, KeptKey, ScheduleHolds

LEMMA KeptImpliesMutualExclusion ==
  ASSUME OneEach
  PROVE  KeptInv => MutualExclusion
<1> SUFFICES ASSUME KeptInv,
                    NEW v \in Workers, NEW w \in Workers,
                    v # w, pc[v] = "schedule", pc[w] = "schedule", target[v] = target[w]
             PROVE  FALSE
  BY DEF MutualExclusion
<1>1. Master(v) = Master(w)
  BY KeptUnderTheKey DEF SchedulesUnderTheKey
<1> QED BY <1>1, OneWorker

(* With one worker per master, no two workers schedule one service at the  *)
(* same time, although masters die in the middle of it, their sessions run *)
(* out, and calls to Consul fail; and each works under a key of its master.*)
THEOREM ExclusiveDespiteDeaths ==
  ASSUME OneEach
  PROVE  KeptSpec => [](MutualExclusion /\ SchedulesUnderTheKey)
<1>1. KeptInv /\ [Work \/ Deaths]_vars => KeptInv'
  BY StepKept
<1>2. KeptInv => MutualExclusion /\ SchedulesUnderTheKey
  BY KeptImpliesMutualExclusion, KeptUnderTheKey
<1> QED BY <1>1, <1>2, InitKept, PTL DEF KeptSpec

(* A fault is a stutter of ScheduleRight, but for a crash in the middle of *)
(* Schedule, which is the Leave of the one worker the master has.          *)
LEMMA DeathsImplementRight ==
  ASSUME OneEach, KeptInv, Deaths
  PROVE  [Right!Next]_Scheduling
<1> USE DEF KeptInv, Typing, TypeOK
<1>1. ASSUME NEW m \in Masters, Crash(m) PROVE [Right!Next]_Scheduling
  <2>1. \A v \in Workers : /\ pc'[v] = IF Master(v) = m THEN "exited" ELSE pc[v]
                           /\ target'[v] = IF Master(v) = m THEN NoService ELSE target[v]
    BY <1>1 DEF Crash
  <2>2. CASE \E w \in Workers : Master(w) = m /\ pc[w] = "schedule"
    <3>1. PICK w \in Workers : Master(w) = m /\ pc[w] = "schedule"
      BY <2>2
    <3>2. \A v \in Workers : v # w => Master(v) # m
      BY <3>1, OneWorker
    <3>3. Scheduling[w] # NoService
      BY <3>1, NoneAssumption DEF NoneAssumption, Scheduling, TargetSet
    <3>4. Scheduling' = [Scheduling EXCEPT ![w] = NoService]
      BY <2>1, <3>1, <3>2 DEF Scheduling
    <3> QED BY <3>3, <3>4 DEF Right!Next, Right!Leave
  <2>3. CASE ~ \E w \in Workers : Master(w) = m /\ pc[w] = "schedule"
    BY <2>1, <2>3, SchedulingStutters
  <2> QED BY <2>2, <2>3
<1>2. ASSUME NEW s \in Services, SessionLapses(s) PROVE UNCHANGED Scheduling
  BY <1>2, SchedulingStutters DEF SessionLapses, LoseKey
<1>3. ASSUME NEW w \in Workers, LockFails(w) PROVE UNCHANGED Scheduling
  BY <1>3, SchedulingStutters DEF LockFails, GoIdle, Goto
<1>4. ASSUME NEW w \in Workers, ReleaseFails(w) PROVE UNCHANGED Scheduling
  BY <1>4, SchedulingStutters DEF ReleaseFails, GoIdle, Goto
<1> QED BY <1>1, <1>2, <1>3, <1>4 DEF Deaths

(* The locks of single-worker masters implement the right to schedule a    *)
(* service with all of these faults.                                       *)
THEOREM LocksImplementRightDespiteDeaths ==
  ASSUME OneEach
  PROVE  KeptSpec => ImplementsRight
<1>1. Init => Right!Init
  BY DEF Init, Right!Init, Scheduling
<1>2. KeptInv /\ [Work \/ Deaths]_vars => KeptInv'
  BY StepKept
<1>3. KeptInv /\ KeptInv' /\ [Work \/ Deaths]_vars => [Right!Next]_Scheduling
  <2>1. KeptInv' => MutualExclusion'
    BY KeptImpliesMutualExclusion, PTL
  <2> QED BY <2>1, StepImplementsRight, DeathsImplementRight DEF KeptInv
<1> QED BY <1>1, <1>2, <1>3, InitKept, PTL DEF KeptSpec, ImplementsRight, Right!Spec
=============================================================================
