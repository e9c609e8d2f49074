---------------------------- MODULE MasterProofs ----------------------------
(***************************************************************************)
(* A master of any number of workers, with any lists and any number of     *)
(* changes, takes no deployment back to an older revision, until a Lock    *)
(* call for it gives up or Stop begins.                                    *)
(*                                                                         *)
(* NeverBackwards is not inductive: that a worker writes a revision at     *)
(* least as new as the one applied follows from what it read while it had  *)
(* the lock, and that nobody else had it meanwhile; and that nobody else   *)
(* had it, from the library having the lock until that worker unlocks it.  *)
(***************************************************************************)
EXTENDS Master, TLAPS

PastLock(w) == wpc[w] \in {"locked", "read", "schedule", "unlock"}

(* What the deferred Unlock of a worker that gave up, and Stop, end.       *)
Guarded(d) == life = "up" /\ d \notin contested

(* What is known of the variables that the argument needs. *)
Shapes ==
  /\ version \in [Deployments -> Nat]
  /\ applied \in [Deployments -> Nat]
  /\ DOMAIN lock = Deployments
  /\ DOMAIN wpc = Workers
  /\ DOMAIN request = Workers
  /\ DOMAIN revision = Workers

(* What a worker read, and what was applied, is no newer than the latest.  *)
ReadKnown ==
  \A w \in Workers, d \in Deployments :
    wpc[w] = "schedule" /\ request[w] = d => revision[w] \in Nat /\ revision[w] <= version[d]

AppliedKnown == \A d \in Deployments : applied[d] <= version[d]

(* The library has the lock that a worker works under. *)
LockTaken ==
  \A w \in Workers, d \in Deployments :
    PastLock(w) /\ request[w] = d /\ Guarded(d) => lock[d] # "free"

(* One worker at a time works under the lock of a deployment. *)
OneHolder ==
  \A v, w \in Workers, d \in Deployments :
    PastLock(v) /\ PastLock(w) /\ request[v] = d /\ request[w] = d /\ Guarded(d) => v = w

(* The revision a worker is about to apply is no older than the applied one*)
FreshUnderLock ==
  \A w \in Workers, d \in Deployments :
    wpc[w] = "schedule" /\ request[w] = d /\ Guarded(d) => applied[d] <= revision[w]

Inv ==
  /\ Shapes /\ ReadKnown /\ AppliedKnown
  /\ LockTaken /\ OneHolder /\ FreshUnderLock

LEMMA InitInv == Init => Inv
  BY DEF Init, Inv, Shapes, ReadKnown, AppliedKnown, LockTaken, OneHolder, FreshUnderLock, PastLock

(* The steps that leave the workers, the revisions and the tasks alone.    *)
LEMMA ElsewhereInv ==
  Inv /\ UNCHANGED <<version, applied, requestVars, lockVars, life>> => Inv'
  BY DEF Inv, Shapes, ReadKnown, AppliedKnown, LockTaken, OneHolder, FreshUnderLock, PastLock,
         Guarded, requestVars, lockVars

(* A new revision of a deployment. *)
LEMMA PutInv ==
  ASSUME Inv, NEW d \in Deployments, PutDeployment(d)
  PROVE  Inv'
<1>1. /\ UNCHANGED <<applied, wpc, request, revision, lock, contested, life>>
      /\ version' = [version EXCEPT ![d] = @ + 1]
  BY DEF PutDeployment, storeVars, workerVars, requestVars, lockVars, lifeVars
<1>2. Shapes'
  BY <1>1 DEF Inv, Shapes
<1>3. \A e \in Deployments : version'[e] \in Nat /\ version[e] <= version'[e]
  BY <1>1 DEF Inv, Shapes
<1>4. ReadKnown'
  BY <1>1, <1>3 DEF Inv, Shapes, ReadKnown
<1>5. AppliedKnown'
  BY <1>1, <1>3 DEF Inv, Shapes, AppliedKnown
<1>6. LockTaken' /\ OneHolder' /\ FreshUnderLock'
  BY <1>1 DEF Inv, LockTaken, OneHolder, FreshUnderLock, PastLock, Guarded
<1> QED
  BY <1>2, <1>4, <1>5, <1>6 DEF Inv

(* The watcher takes the flag down, not the lock. *)
LEMMA FlagInv ==
  ASSUME Inv, NEW d \in Deployments, FlagFalls(d)
  PROVE  Inv'
<1>1. /\ UNCHANGED <<version, applied, wpc, request, revision, contested, life>>
      /\ lock' = [lock EXCEPT ![d] = "unflagged"]
  BY DEF FlagFalls, notQueueOrWorker, configVars, storeVars, requestVars, lifeVars
<1>2. Shapes' /\ ReadKnown' /\ AppliedKnown' /\ OneHolder' /\ FreshUnderLock'
  BY <1>1 DEF Inv, Shapes, ReadKnown, AppliedKnown, OneHolder, FreshUnderLock, PastLock, Guarded
<1>3. LockTaken'
  BY <1>1 DEF Inv, Shapes, LockTaken, PastLock, Guarded
<1> QED
  BY <1>2, <1>3 DEF Inv

(* From its beginning Stop guards nothing any more. *)
LEMMA StopInv ==
  ASSUME Inv, Stop
  PROVE  Inv'
<1>1. UNCHANGED <<version, applied, wpc, request, revision>> /\ DOMAIN lock' = DOMAIN lock
  BY DEF Stop, StopBegins, StopUnlocks, CloseQuit, configVars, storeVars, workerVars, requestVars,
         lockVars
<1>2. life' # "up"
  BY DEF Stop, StopBegins, StopUnlocks, CloseQuit
<1>3. Shapes' /\ ReadKnown' /\ AppliedKnown'
  BY <1>1 DEF Inv, Shapes, ReadKnown, AppliedKnown
<1>4. LockTaken' /\ OneHolder' /\ FreshUnderLock'
  BY <1>2 DEF LockTaken, OneHolder, FreshUnderLock, Guarded
<1> QED
  BY <1>3, <1>4 DEF Inv

(* A worker that pops, receives a request, drops it or exits: past the     *)
(* lock it is not afterwards, and nothing is applied.                      *)
LEMMA AwayInv ==
  ASSUME Inv, NEW w \in Workers,
         UNCHANGED <<version, applied, lock, contested, life>>,
         DOMAIN request' = Workers, DOMAIN revision' = Workers,
         NEW to, to \notin {"locked", "read", "schedule", "unlock"},
         wpc' = [wpc EXCEPT ![w] = to],
         \A v \in Workers \ {w} : request'[v] = request[v] /\ revision'[v] = revision[v]
  PROVE  Inv'
<1>1. /\ DOMAIN wpc' = Workers
      /\ wpc'[w] = to
      /\ \A v \in Workers \ {w} : wpc'[v] = wpc[v]
  BY DEF Inv, Shapes
<1>2. Shapes' /\ AppliedKnown'
  BY <1>1 DEF Inv, Shapes, AppliedKnown
<1>3. ReadKnown'
  BY <1>1 DEF Inv, ReadKnown
<1>4. LockTaken'
  BY <1>1 DEF Inv, LockTaken, PastLock, Guarded
<1>5. OneHolder'
  BY <1>1 DEF Inv, OneHolder, PastLock, Guarded
<1>6. FreshUnderLock'
  BY <1>1 DEF Inv, FreshUnderLock, Guarded
<1> QED
  BY <1>2, <1>3, <1>4, <1>5, <1>6 DEF Inv

(* A worker that moves on past its lock without reading or applying.       *)
LEMMA MovesInv ==
  ASSUME Inv, NEW w \in Workers, PastLock(w),
         UNCHANGED <<version, applied, request, revision, lock, contested, life>>,
         NEW to, to \in {"read", "unlock"},
         wpc' = [wpc EXCEPT ![w] = to]
  PROVE  Inv'
<1>1. /\ DOMAIN wpc' = Workers
      /\ wpc'[w] = to
      /\ \A v \in Workers \ {w} : wpc'[v] = wpc[v]
  BY DEF Inv, Shapes
<1>2. Shapes' /\ AppliedKnown'
  BY <1>1 DEF Inv, Shapes, AppliedKnown
<1>3. ReadKnown' /\ FreshUnderLock'
  BY <1>1 DEF Inv, ReadKnown, FreshUnderLock, Guarded
<1>4. \A v \in Workers : PastLock(v)' => PastLock(v)
  BY <1>1 DEF PastLock
<1>5. LockTaken' /\ OneHolder'
  BY <1>4 DEF Inv, LockTaken, OneHolder, Guarded
<1> QED
  BY <1>2, <1>3, <1>5 DEF Inv

(* Lock succeeds: nobody was past this lock, since it was free.            *)
LEMMA LocksInv ==
  ASSUME Inv, NEW w \in Workers, WorkerLocks(w)
  PROVE  Inv'
<1>1. /\ wpc' = [wpc EXCEPT ![w] = "locked"]
      /\ lock[request[w]] = "free"
      /\ lock' = [lock EXCEPT ![request[w]] = "held"]
      /\ UNCHANGED <<version, applied, request, revision, contested, life>>
  BY DEF WorkerLocks, Step, LockBusy, notQueueOrWorker, configVars, storeVars, lifeVars
<1>2. /\ DOMAIN wpc' = Workers
      /\ wpc'[w] = "locked"
      /\ \A v \in Workers \ {w} : wpc'[v] = wpc[v]
  BY <1>1 DEF Inv, Shapes
<1>3. \A d \in Deployments : lock'[d] = IF d = request[w] THEN "held" ELSE lock[d]
  BY <1>1 DEF Inv, Shapes
<1>4. Shapes' /\ AppliedKnown'
  BY <1>1, <1>2 DEF Inv, Shapes, AppliedKnown
<1>5. ReadKnown' /\ FreshUnderLock'
  BY <1>1, <1>2 DEF Inv, ReadKnown, FreshUnderLock, Guarded
<1>6. LockTaken'
  BY <1>1, <1>2, <1>3 DEF Inv, LockTaken, PastLock, Guarded
<1>7. \A v \in Workers, d \in Deployments :
        PastLock(v) /\ request[v] = d /\ Guarded(d) => request[w] # d
  BY <1>1 DEF Inv, LockTaken
<1>8. OneHolder'
  <2> SUFFICES ASSUME NEW u \in Workers, NEW v \in Workers, NEW d \in Deployments,
                      PastLock(u)', PastLock(v)', request[u] = d, request[v] = d, Guarded(d)
               PROVE  u = v
    BY <1>1 DEF OneHolder, Guarded
  <2>1. CASE u # w /\ v # w
    BY <1>2, <2>1 DEF Inv, OneHolder, PastLock
  <2>2. u = w => v = w
    BY <1>2, <1>7 DEF PastLock
  <2>3. v = w => u = w
    BY <1>2, <1>7 DEF PastLock
  <2> QED
    BY <2>1, <2>2, <2>3
<1> QED
  BY <1>4, <1>5, <1>6, <1>8 DEF Inv

(* Lock gives up: the deployment is contested from now on.                 *)
LEMMA GivesUpInv ==
  ASSUME Inv, NEW w \in Workers, WorkerGivesUp(w)
  PROVE  Inv'
<1>1. /\ wpc' = [wpc EXCEPT ![w] = "locked"]
      /\ contested' = contested \union {request[w]}
      /\ UNCHANGED <<version, applied, request, revision, lock, life>>
  BY DEF WorkerGivesUp, Step, notQueueOrWorker, configVars, storeVars, lifeVars
<1>2. /\ DOMAIN wpc' = Workers
      /\ wpc'[w] = "locked"
      /\ \A v \in Workers \ {w} : wpc'[v] = wpc[v]
  BY <1>1 DEF Inv, Shapes
<1>3. \A d : Guarded(d)' => Guarded(d) /\ request[w] # d
  BY <1>1 DEF Guarded
<1>4. Shapes' /\ AppliedKnown'
  BY <1>1, <1>2 DEF Inv, Shapes, AppliedKnown
<1>5. ReadKnown' /\ FreshUnderLock'
  BY <1>1, <1>2, <1>3 DEF Inv, ReadKnown, FreshUnderLock
<1>6. LockTaken'
  BY <1>1, <1>2, <1>3 DEF Inv, LockTaken, PastLock
<1>7. OneHolder'
  BY <1>1, <1>2, <1>3 DEF Inv, OneHolder, PastLock
<1> QED
  BY <1>4, <1>5, <1>6, <1>7 DEF Inv

LEMMA ReadsInv ==
  ASSUME Inv, NEW w \in Workers, WorkerReads(w)
  PROVE  Inv'
<1>1. /\ wpc[w] = "read"
      /\ wpc' = [wpc EXCEPT ![w] = "schedule"]
      /\ revision' = [revision EXCEPT ![w] = version[request[w]]]
      /\ UNCHANGED <<version, applied, request, lock, contested, life>>
  BY DEF WorkerReads, Step, notQueueOrWorker, configVars, storeVars, lockVars, lifeVars
<1>2. /\ DOMAIN wpc' = Workers /\ DOMAIN revision' = Workers
      /\ wpc'[w] = "schedule"
      /\ revision'[w] = version[request[w]]
      /\ \A v \in Workers \ {w} : wpc'[v] = wpc[v] /\ revision'[v] = revision[v]
  BY <1>1 DEF Inv, Shapes
<1>3. Shapes' /\ AppliedKnown'
  BY <1>1, <1>2 DEF Inv, Shapes, AppliedKnown
<1>4. ReadKnown'
  BY <1>1, <1>2 DEF Inv, Shapes, ReadKnown
<1>5. FreshUnderLock'
  BY <1>1, <1>2 DEF Inv, Shapes, FreshUnderLock, AppliedKnown, Guarded
<1>6. \A v \in Workers : PastLock(v)' => PastLock(v)
  BY <1>1, <1>2 DEF PastLock
<1>7. LockTaken' /\ OneHolder'
  BY <1>1, <1>6 DEF Inv, LockTaken, OneHolder, Guarded
<1> QED
  BY <1>3, <1>4, <1>5, <1>7 DEF Inv

(* Schedule: what it applies is what the worker read. *)
LEMMA SchedulesApplies ==
  ASSUME Inv, NEW w \in Workers, WorkerSchedules(w)
  PROVE  /\ wpc[w] = "schedule"
         /\ wpc' = [wpc EXCEPT ![w] = "unlock"]
         /\ UNCHANGED <<version, request, lock, contested, life>>
         /\ DOMAIN revision' = Workers
         /\ \A v \in Workers \ {w} : revision'[v] = revision[v]
         /\ applied' \in [Deployments -> Nat]
         /\ \A d \in Deployments :
              /\ applied'[d] = IF request[w] = d THEN revision[w] ELSE applied[d]
              /\ applied'[d] <= version[d]
              /\ Guarded(d) => applied[d] <= applied'[d]
<1>1. /\ wpc[w] = "schedule"
      /\ wpc' = [wpc EXCEPT ![w] = "unlock"]
      /\ revision' = [revision EXCEPT ![w] = 0]
      /\ applied' = [applied EXCEPT ![request[w]] = revision[w]]
      /\ UNCHANGED <<version, request, lock, contested, life>>
  BY DEF WorkerSchedules, Step, configVars, lockVars, lifeVars
<1>2. \A d \in Deployments :
        request[w] = d => /\ revision[w] \in Nat /\ revision[w] <= version[d]
                          /\ Guarded(d) => applied[d] <= revision[w]
  BY <1>1 DEF Inv, ReadKnown, FreshUnderLock
<1>3. \A d \in Deployments :
        applied'[d] = IF request[w] = d THEN revision[w] ELSE applied[d]
  BY <1>1 DEF Inv, Shapes
<1>4. applied' \in [Deployments -> Nat]
  BY <1>1, <1>2 DEF Inv, Shapes
<1>5. \A d \in Deployments :
        applied'[d] <= version[d] /\ (Guarded(d) => applied[d] <= applied'[d])
  BY <1>2, <1>3 DEF Inv, Shapes, AppliedKnown
<1>6. DOMAIN revision' = Workers /\ \A v \in Workers \ {w} : revision'[v] = revision[v]
  BY <1>1 DEF Inv, Shapes
<1> QED
  BY <1>1, <1>3, <1>4, <1>5, <1>6

LEMMA SchedulesInv ==
  ASSUME Inv, NEW w \in Workers, WorkerSchedules(w)
  PROVE  Inv'
<1>1. /\ DOMAIN wpc' = Workers
      /\ wpc'[w] = "unlock"
      /\ \A v \in Workers \ {w} : wpc'[v] = wpc[v]
  BY SchedulesApplies DEF Inv, Shapes
<1>2. Shapes'
  BY <1>1, SchedulesApplies DEF Inv, Shapes
<1>3. ReadKnown' /\ AppliedKnown'
  BY <1>1, SchedulesApplies DEF Inv, ReadKnown, AppliedKnown
<1>4. \A v \in Workers : PastLock(v)' => PastLock(v)
  BY <1>1, SchedulesApplies DEF PastLock
<1>5. LockTaken' /\ OneHolder'
  BY <1>4, SchedulesApplies DEF Inv, LockTaken, OneHolder, Guarded
<1>6. \A v \in Workers \ {w}, d \in Deployments :
        wpc[v] = "schedule" /\ request[v] = d /\ Guarded(d) => applied'[d] = applied[d]
  BY SchedulesApplies DEF Inv, OneHolder, PastLock
<1>7. FreshUnderLock'
  BY <1>1, <1>6, SchedulesApplies DEF Inv, FreshUnderLock, Guarded
<1> QED
  BY <1>2, <1>3, <1>5, <1>7 DEF Inv

(* The deferred Unlock frees a lock that no other worker is past.          *)
LEMMA UnlocksInv ==
  ASSUME Inv, NEW w \in Workers, WorkerUnlocks(w)
  PROVE  Inv'
<1>1. /\ wpc[w] = "unlock"
      /\ wpc' = [wpc EXCEPT ![w] = "pop"]
      /\ request' = [request EXCEPT ![w] = NoDeployment]
      /\ revision' = [revision EXCEPT ![w] = 0]
      /\ lock' = [lock EXCEPT ![request[w]] = "free"]
      /\ UNCHANGED <<version, applied, contested, life>>
  BY DEF WorkerUnlocks, Return, Step, notQueueOrWorker, configVars, storeVars, lifeVars
<1>2. /\ DOMAIN wpc' = Workers /\ DOMAIN request' = Workers /\ DOMAIN revision' = Workers
      /\ wpc'[w] = "pop"
      /\ \A v \in Workers \ {w} :
           wpc'[v] = wpc[v] /\ request'[v] = request[v] /\ revision'[v] = revision[v]
  BY <1>1 DEF Inv, Shapes
<1>3. \A d \in Deployments : lock'[d] = IF d = request[w] THEN "free" ELSE lock[d]
  BY <1>1 DEF Inv, Shapes
<1>4. Shapes' /\ AppliedKnown'
  BY <1>1, <1>2 DEF Inv, Shapes, AppliedKnown
<1>5. ReadKnown' /\ FreshUnderLock'
  BY <1>1, <1>2 DEF Inv, ReadKnown, FreshUnderLock, Guarded
<1>6. OneHolder'
  BY <1>1, <1>2 DEF Inv, OneHolder, PastLock, Guarded
<1>7. \A v \in Workers \ {w}, d \in Deployments :
        PastLock(v) /\ request[v] = d /\ Guarded(d) => request[w] # d
  BY <1>1 DEF Inv, OneHolder, PastLock
<1>8. LockTaken'
  BY <1>1, <1>2, <1>3, <1>7 DEF Inv, LockTaken, PastLock, Guarded
<1> QED
  BY <1>4, <1>5, <1>6, <1>8 DEF Inv

LEMMA WorkerInv ==
  ASSUME Inv, NEW w \in Workers, Worker(w)
  PROVE  Inv'
<1> USE DEF notQueueOrWorker, configVars, storeVars, lockVars, lifeVars
<1>1. CASE WorkerPops(w)
  <2>1. /\ wpc' = [wpc EXCEPT ![w] = "listen"]
        /\ UNCHANGED <<version, applied, request, revision, lock, contested, life>>
    BY <1>1 DEF WorkerPops, Step
  <2> QED
    BY <2>1, AwayInv DEF Inv, Shapes
<1>2. CASE WorkerReceives(w)
  <2>1. /\ wpc' = [wpc EXCEPT ![w] = "lock"]
        /\ request' = [request EXCEPT ![w] = Q!Delivered]
        /\ UNCHANGED <<version, applied, revision, lock, contested, life>>
    BY <1>2 DEF WorkerReceives, Step
  <2>2. DOMAIN request' = Workers /\ \A v \in Workers \ {w} : request'[v] = request[v]
    BY <2>1 DEF Inv, Shapes
  <2> QED
    BY <2>1, <2>2, AwayInv DEF Inv, Shapes
<1>3. CASE WorkerExits(w)
  <2>1. /\ wpc' = [wpc EXCEPT ![w] = "exited"]
        /\ UNCHANGED <<version, applied, request, revision, lock, contested, life>>
    BY <1>3 DEF WorkerExits, Step
  <2> QED
    BY <2>1, AwayInv DEF Inv, Shapes
<1>4. CASE WorkerRefused(w)
  <2>1. /\ wpc' = [wpc EXCEPT ![w] = "pop"]
        /\ request' = [request EXCEPT ![w] = NoDeployment]
        /\ revision' = [revision EXCEPT ![w] = 0]
        /\ UNCHANGED <<version, applied, lock, contested, life>>
    BY <1>4 DEF WorkerRefused, Return, Step
  <2>2. /\ DOMAIN request' = Workers /\ DOMAIN revision' = Workers
        /\ \A v \in Workers \ {w} : request'[v] = request[v] /\ revision'[v] = revision[v]
    BY <2>1 DEF Inv, Shapes
  <2> QED
    BY <2>1, <2>2, AwayInv
<1>5. CASE WorkerLocks(w) \/ WorkerGivesUp(w) \/ WorkerReads(w)
  BY <1>5, LocksInv, GivesUpInv, ReadsInv
<1>6. CASE WorkerChecks(w)
  <2>1. PICK to \in {"read", "unlock"} :
          /\ wpc[w] = "locked" /\ wpc' = [wpc EXCEPT ![w] = to]
          /\ UNCHANGED <<version, applied, request, revision, lock, contested, life>>
    BY <1>6 DEF WorkerChecks, Step
  <2> QED
    BY <2>1, MovesInv DEF PastLock
<1>7. CASE WorkerFindsNothing(w)
  <2>1. /\ wpc[w] = "read" /\ wpc' = [wpc EXCEPT ![w] = "unlock"]
        /\ UNCHANGED <<version, applied, request, revision, lock, contested, life>>
    BY <1>7 DEF WorkerFindsNothing, Step
  <2> QED
    BY <2>1, MovesInv DEF PastLock
<1>8. CASE WorkerSchedules(w) \/ WorkerUnlocks(w)
  BY <1>8, SchedulesInv, UnlocksInv
<1> QED
  BY <1>1, <1>2, <1>3, <1>4, <1>5, <1>6, <1>7, <1>8 DEF Worker, WorkerGoesOn, Locking

(* Of all other steps only a put touches what the invariant is about.      *)
LEMMA OtherSteps ==
  ASSUME Next
  PROVE  \/ \E w \in Workers : Worker(w)
         \/ \E d \in Deployments : PutDeployment(d) \/ FlagFalls(d)
         \/ Stop
         \/ UNCHANGED <<version, applied, requestVars, lockVars, life>>
<1> USE DEF configVars, storeVars, workerVars, lifeVars
<1>1. CASE Operator
  BY <1>1 DEF Operator, DelDeployment, PutCluster
<1>2. CASE Emit
  BY <1>2 DEF Emit
<1>3. CASE Monitor
  BY <1>3 DEF Monitor, Dispatching, ReceiveConfig, TimerFires, StartDispatch,
              Dispatch, DispatchFails, DispatchDone, RequestGc, MonitorExits
<1>4. CASE QueueStep
  BY <1>4 DEF QueueStep, notQueueOrWorker
<1>5. CASE Collector
  BY <1>5 DEF Collector, Collecting, GcReadsCluster, GcLists, GcPuts, GcEnds, GcExits, notGc
<1> QED
  BY <1>1, <1>2, <1>3, <1>4, <1>5 DEF Next, Run

LEMMA NextInv == Inv /\ [Next]_vars => Inv'
<1> SUFFICES ASSUME Inv, [Next]_vars PROVE Inv'
  OBVIOUS
<1>1. CASE UNCHANGED vars
  BY <1>1, ElsewhereInv DEF vars, configVars, storeVars, workerVars, lifeVars
<1>2. CASE Next
  BY <1>2, OtherSteps, WorkerInv, PutInv, FlagInv, StopInv, ElsewhereInv
<1> QED
  BY <1>1, <1>2

(* Only WorkerSchedules applies anything. *)
Forward == \A d \in Deployments \ contested : life = "up" => applied'[d] >= applied[d]

LEMMA StepForward ==
  ASSUME Inv, [Next]_vars
  PROVE  [Forward]_vars
<1>1. CASE UNCHANGED vars
  BY <1>1
<1>2. CASE \E w \in Workers : WorkerSchedules(w)
  BY <1>2, SchedulesApplies DEF Inv, Shapes, Forward, Guarded
<1>3. CASE Next /\ ~ \E w \in Workers : WorkerSchedules(w)
  <2>1. applied' = applied
    <3>1. CASE \E w \in Workers : Worker(w)
      BY <1>3, <3>1 DEF Worker, WorkerGoesOn, Locking, WorkerPops, WorkerReceives, WorkerExits,
           WorkerLocks, WorkerRefused, WorkerGivesUp, WorkerChecks, WorkerReads,
           WorkerFindsNothing, WorkerUnlocks, notQueueOrWorker, storeVars
    <3>2. CASE Stop \/ \E d \in Deployments : PutDeployment(d) \/ FlagFalls(d)
      BY <3>2 DEF Stop, StopBegins, StopUnlocks, CloseQuit, PutDeployment, FlagFalls,
           notQueueOrWorker, storeVars
    <3> QED
      BY <1>3, <3>1, <3>2, OtherSteps
  <2> QED
    BY <2>1 DEF Inv, Shapes, Forward
<1> QED
  BY <1>1, <1>2, <1>3

(* The theorem of the module: for any number of workers and deployments, no*)
(* step of a master takes a deployment back to an older revision before a  *)
(* Lock call for it gives up or Stop begins (master.go:151-180): whatever  *)
(* the operators, the events, refused calls and late watchers do.          *)
THEOREM MasterNeverBackwards == Spec => NeverBackwards
<1>1. Spec => []Inv
  BY InitInv, NextInv, PTL DEF Spec
<1>2. Inv /\ [Next]_vars => [Forward]_vars
  BY StepForward
<1> QED
  BY <1>1, <1>2, PTL DEF Spec, NeverBackwards, Forward

(* One worker of a master at a time is past the lock of a deployment, from *)
(* Lock to the deferred Unlock, and the library has the lock all that time *)
(* (master.go:151-156), under the same two conditions.                     *)
THEOREM MasterOneHolder == Spec => [](OneHolder /\ LockTaken)
<1>1. Spec => []Inv
  BY InitInv, NextInv, PTL DEF Spec
<1>2. Inv => OneHolder /\ LockTaken
  BY DEF Inv
<1> QED
  BY <1>1, <1>2, PTL
=============================================================================
