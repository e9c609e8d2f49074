------------------------------- MODULE Master -------------------------------
(***************************************************************************)
(* One master (master/master.go): the monitor that turns configuration     *)
(* events, failing nodes and a timer into requests for every deployment of *)
(* the cluster, the unique queue (SchedulerQueue), the workers, and the    *)
(* garbage collector, with the part of the Consul backend that emits the   *)
(* events (backends/consul/consul_events.go).                              *)
(*                                                                         *)
(* A deployment is known by its name and a revision number.  Schedule is   *)
(* one step that makes the cluster run the revision it was called with;    *)
(* DefaultScheduler has its inside.  A deployment's lock is the wrapper    *)
(* that the workers of this master share (SchedulerLocks has its inside):  *)
(* what the library and the flag say, not who locked it, since every worker*)
(* past Lock runs the deferred Unlock.  Another master is seen only in a   *)
(* Lock call that gives up, and in a flag that falls under its worker.     *)
(***************************************************************************)
EXTENDS Integers, Sequences, FiniteSets, SequencesExt

CONSTANTS
  Deployments,
  Workers,      (* the goroutines of Master.worker, Config.Runners of them *)
  Nobody,
  NoDeployment,
  EnqueueCap, DequeueCap,
  EventCap,     (* capacity of listenConfig, 100 in master.go:59           *)
  GcCap,        (* capacity of runGc, 50 in master.go:24                   *)
  Listings,     (* the values operators give to cluster.Deployments        *)
  Contended,    (* the deployments that another master schedules as well   *)
  MaxChanges    (* bound: changes of the configuration in a behaviour      *)

ASSUME MasterCapAssumption == EventCap \in Nat \ {0} /\ GcCap \in Nat \ {0}
ASSUME QueueAssumption ==
  EnqueueCap \in Nat \ {0} /\ DequeueCap \in Nat \ {0} /\ Nobody \notin Workers
ASSUME BoundAssumption == MaxChanges \in Nat
ASSUME ListingsAssumption == Listings \subseteq Seq(Deployments)
ASSUME ContendedAssumption == Contended \subseteq Deployments

VARIABLES
  (* in Consul *)
  cluster,      (* cluster.Deployments, in order                           *)
  defined,      (* the deployments that have a configuration               *)
  version,      (* deployment -> its latest revision                       *)
  changes,      (* changes made so far                                     *)
  latest,       (* the latest change: "put" or "delete" while the events   *)
                (* goroutine has not listed it, "seen" afterwards          *)
  scheduled,    (* the deployments with tasks marked scheduled             *)
  applied,      (* deployment -> the revision of its last Schedule         *)
  (* the monitor *)
  mpc, todo, onConfig, events,
  (* the queue *)
  queue, enqueue, dequeue, sending,
  (* the workers *)
  wpc, request, revision,
  lock,         (* deployment -> "free", "held", or "unflagged": the       *)
                (* library has it, the wrapper's flag is down              *)
  contested,    (* auxiliary: the deployments a Lock call gave up on       *)
  (* the garbage collector *)
  gpc, gcReqs, gcCluster, gcTodo,
  (* Master.Stop: "up", "stopping" in Locks.Stop, "quit" once the quit     *)
  (* channel is closed; the wrappers that are not unlocked yet             *)
  life, unstopped

configVars == <<cluster, defined, version, changes>>
storeVars == <<scheduled, applied>>
monitorVars == <<mpc, todo, onConfig>>
queueVars == <<queue, enqueue, dequeue, sending>>
requestVars == <<wpc, request, revision>>
lockVars == <<lock, contested>>
workerVars == <<requestVars, lockVars>>
gcVars == <<gpc, gcCluster, gcTodo>>
lifeVars == <<life, unstopped>>
vars == <<configVars, latest, storeVars, monitorVars, events, queueVars, workerVars,
          gcVars, gcReqs, lifeVars>>

Q == INSTANCE SchedulerQueue WITH Values <- Deployments, Poppers <- Workers

Revision == 0..(MaxChanges + 1)

(* The places of a worker: before Pop, in its select, at Lock, before      *)
(* IsHeld, at the reads, in Schedule, at the deferred Unlock, gone.        *)
Place == {"pop", "listen", "lock", "locked", "read", "schedule", "unlock", "exited"}

TypeOK ==
  /\ cluster \in Seq(Deployments)
  /\ defined \subseteq Deployments
  /\ version \in [Deployments -> Revision]
  /\ changes \in 0..MaxChanges
  /\ latest \in {"put", "delete", "seen"}
  /\ scheduled \subseteq Deployments
  /\ applied \in [Deployments -> Revision]
  /\ mpc \in {"select", "dispatch", "gc", "exited"}
  /\ todo \in Seq(Deployments)
  /\ onConfig \in BOOLEAN
  /\ events \in 0..EventCap
  /\ Q!TypeOK
  /\ wpc \in [Workers -> Place]
  /\ request \in [Workers -> Deployments \union {NoDeployment}]
  /\ revision \in [Workers -> Revision]
  /\ lock \in [Deployments -> {"free", "held", "unflagged"}]
  /\ contested \subseteq Contended
  /\ gpc \in {"wait", "list", "put", "exited"}
  /\ gcReqs \in 0..GcCap
  /\ gcCluster \subseteq Deployments
  /\ gcTodo \subseteq Deployments
  /\ life \in {"up", "stopping", "quit"}
  /\ unstopped \subseteq Deployments

(* A master starts on whatever configuration it finds; no task yet.        *)
Init ==
  /\ cluster \in Listings
  /\ defined \in SUBSET Deployments
  /\ version = [d \in Deployments |-> 1]
  /\ changes = 0
  /\ latest = "put"
  /\ scheduled = {}
  /\ applied = [d \in Deployments |-> 0]
  /\ mpc = "select" /\ todo = << >> /\ onConfig = FALSE /\ events = 0
  /\ Q!Init
  /\ wpc = [w \in Workers |-> "pop"]
  /\ request = [w \in Workers |-> NoDeployment]
  /\ revision = [w \in Workers |-> 0]
  /\ lock = [d \in Deployments |-> "free"]
  /\ contested = {}
  /\ gpc = "wait" /\ gcReqs = 0 /\ gcCluster = {} /\ gcTodo = {}
  /\ life = "up" /\ unstopped = {}

-----------------------------------------------------------------------------
(* The operator *)

Change == changes < MaxChanges /\ changes' = changes + 1

(* A deployment is put; Deployment.Validate looks at no other object.      *)
PutDeployment(d) ==
  /\ Change
  /\ defined' = defined \union {d}
  /\ version' = [version EXCEPT ![d] = @ + 1]
  /\ latest' = "put"
  /\ UNCHANGED <<cluster, storeVars, monitorVars, events, queueVars, workerVars, gcVars, gcReqs,
                 lifeVars>>

(* A cluster is put; Cluster.Validate checks no more than its name         *)
(* (api/cluster.go:9-14), so that it may list what is not defined.         *)
PutCluster(l) ==
  /\ l # cluster
  /\ Change
  /\ cluster' = l
  /\ latest' = "put"
  /\ UNCHANGED <<defined, version, storeVars, monitorVars, events, queueVars, workerVars, gcVars,
                 gcReqs, lifeVars>>

DelDeployment(d) ==
  /\ d \in defined
  /\ Change
  /\ defined' = defined \ {d}
  /\ latest' = "delete"
  /\ UNCHANGED <<cluster, version, storeVars, monitorVars, events, queueVars, workerVars, gcVars,
                 gcReqs, lifeVars>>

Operator ==
  \/ \E d \in Deployments : PutDeployment(d) \/ DelDeployment(d)
  \/ \E l \in Listings : PutCluster(l)

-----------------------------------------------------------------------------
(* The events goroutine of the Consul backend *)

(* The list that follows a change emits an event for each key modified at  *)
(* the latest index: none of the changes before it, and none for a key     *)
(* that was deleted.  A full channel drops the event.                      *)
EmitUncapped == events + 1
EmitOne == IF events < EventCap THEN events + 1 ELSE events

Emit ==
  /\ latest # "seen"
  /\ latest' = "seen"
  /\ events' = IF latest = "put" THEN EmitOne ELSE events
  /\ UNCHANGED <<configVars, storeVars, monitorVars, queueVars, workerVars, gcVars, gcReqs,
                 lifeVars>>

-----------------------------------------------------------------------------
(* Master.monitor and dispatchAll *)

(* dispatchAll reads the cluster. *)
StartDispatch(config) ==
  /\ mpc = "select"
  /\ mpc' = "dispatch"
  /\ todo' = cluster
  /\ onConfig' = config
  /\ UNCHANGED <<configVars, latest, storeVars, queueVars, workerVars, gcVars, gcReqs, lifeVars>>

ReceiveConfig ==
  /\ events > 0
  /\ events' = events - 1
  /\ StartDispatch(TRUE)

(* Sixty seconds in the select, or a failing node: whatever the queue and  *)
(* the workers are at.                                                     *)
TimerFires ==
  /\ StartDispatch(FALSE)
  /\ UNCHANGED events

(* The next deployment is requested; Push blocks while its channel is full.*)
Dispatch ==
  /\ mpc = "dispatch"
  /\ todo # << >>
  /\ Head(todo) \in defined
  /\ Q!Push(Head(todo))
  /\ todo' = Tail(todo)
  /\ UNCHANGED <<configVars, latest, storeVars, mpc, onConfig, events, workerVars, gcVars,
                 gcReqs, lifeVars>>

(* A listed deployment that is not defined ends the dispatch: dispatchAll  *)
(* returns the error (master.go:101-106).                                  *)
DispatchFails ==
  /\ mpc = "dispatch"
  /\ todo # << >>
  /\ Head(todo) \notin defined
  /\ todo' = << >>
  /\ UNCHANGED <<configVars, latest, storeVars, mpc, onConfig, events, queueVars,
                 workerVars, gcVars, gcReqs, lifeVars>>

(* A configuration event asks for a collection after the dispatch.         *)
DispatchDone ==
  /\ mpc = "dispatch"
  /\ todo = << >>
  /\ mpc' = IF onConfig THEN "gc" ELSE "select"
  /\ onConfig' = FALSE
  /\ UNCHANGED <<configVars, latest, storeVars, todo, events, queueVars,
                 workerVars, gcVars, gcReqs, lifeVars>>

RequestGc ==
  /\ mpc = "gc"
  /\ gcReqs < GcCap
  /\ gcReqs' = gcReqs + 1
  /\ mpc' = "select"
  /\ UNCHANGED <<configVars, latest, storeVars, todo, onConfig, events, queueVars,
                 workerVars, gcVars, lifeVars>>

MonitorExits ==
  /\ mpc = "select"
  /\ life = "quit"
  /\ mpc' = "exited"
  /\ UNCHANGED <<configVars, latest, storeVars, todo, onConfig, events, queueVars,
                 workerVars, gcVars, gcReqs, lifeVars>>

Dispatching == Dispatch \/ DispatchFails \/ DispatchDone \/ RequestGc
Monitor == ReceiveConfig \/ TimerFires \/ Dispatching \/ MonitorExits

-----------------------------------------------------------------------------
(* The queue's goroutine *)

notQueueOrWorker == <<configVars, latest, storeVars, monitorVars, events, gcVars, gcReqs, lifeVars>>

QueueStep == (Q!Enqueue \/ Q!Answer) /\ UNCHANGED <<notQueueOrWorker, workerVars>>

-----------------------------------------------------------------------------
(* Master.worker and schedule *)

Step(w, from, to) == wpc[w] = from /\ wpc' = [wpc EXCEPT ![w] = to]

(* The worker's turn is over, its locals are gone. *)
Return(w, from) ==
  /\ Step(w, from, "pop")
  /\ request' = [request EXCEPT ![w] = NoDeployment]
  /\ revision' = [revision EXCEPT ![w] = 0]

WorkerPops(w) ==
  /\ Step(w, "pop", "listen")
  /\ Q!Pop(w)
  /\ UNCHANGED <<notQueueOrWorker, lockVars, request, revision>>

WorkerReceives(w) ==
  /\ Step(w, "listen", "lock")
  /\ Q!Deliver(w)
  /\ request' = [request EXCEPT ![w] = Q!Delivered]
  /\ UNCHANGED <<notQueueOrWorker, lockVars, revision>>

(* The other case of the select: its future stays with the queue.          *)
WorkerExits(w) ==
  /\ Step(w, "listen", "exited")
  /\ life = "quit"
  /\ UNCHANGED <<notQueueOrWorker, lockVars, queueVars, request, revision>>

(* Lock succeeds unless the library has this lock already. *)
LockedNever(d) == FALSE
LockBusy(d) == lock[d] # "free"

WorkerLocks(w) ==
  /\ Step(w, "lock", "locked")
  /\ ~LockBusy(request[w])
  /\ lock' = [lock EXCEPT ![request[w]] = "held"]
  /\ UNCHANGED <<notQueueOrWorker, queueVars, contested, request, revision>>

(* ErrLockHeld, or the server does not answer: the request is dropped and  *)
(* nothing unlocked (master.go:152-155).                                   *)
WorkerRefused(w) ==
  /\ Return(w, "lock")
  /\ UNCHANGED <<notQueueOrWorker, lockVars, queueVars>>

(* Another session has the key for as long as Lock tries: neither an error *)
(* nor a lock, and schedule goes on to IsHeld (consul_lock.go:14-31).      *)
WorkerGivesUp(w) ==
  /\ Step(w, "lock", "locked")
  /\ ~LockBusy(request[w])
  /\ request[w] \in Contended
  /\ contested' = contested \union {request[w]}
  /\ UNCHANGED <<notQueueOrWorker, queueVars, lock, request, revision>>

(* The watcher of a lock that is lost, or, late, of an earlier one.        *)
FlagFalls(d) ==
  /\ lock[d] = "held"
  /\ lock' = [lock EXCEPT ![d] = "unflagged"]
  /\ UNCHANGED <<notQueueOrWorker, queueVars, contested, requestVars>>

(* IsHeld reads the flag, a sibling's for a worker that gave up. *)
WorkerChecks(w) ==
  /\ Step(w, "locked", IF lock[request[w]] = "held" THEN "read" ELSE "unlock")
  /\ UNCHANGED <<notQueueOrWorker, lockVars, queueVars, request, revision>>

(* The cluster and the deployment are read under the lock (159-169); the   *)
(* cluster's list is not looked at.                                        *)
WorkerReads(w) ==
  /\ Step(w, "read", "schedule")
  /\ request[w] \in defined
  /\ revision' = [revision EXCEPT ![w] = version[request[w]]]
  /\ UNCHANGED <<notQueueOrWorker, lockVars, queueVars, request>>

WorkerFindsNothing(w) ==
  /\ Step(w, "read", "unlock")
  /\ request[w] \notin defined
  /\ UNCHANGED <<notQueueOrWorker, lockVars, queueVars, request, revision>>

WorkerSchedules(w) ==
  /\ Step(w, "schedule", "unlock")
  /\ scheduled' = scheduled \union {request[w]}
  /\ applied' = [applied EXCEPT ![request[w]] = revision[w]]
  /\ revision' = [revision EXCEPT ![w] = 0]
  /\ UNCHANGED <<configVars, latest, monitorVars, events, queueVars, lockVars, request, gcVars,
                 gcReqs, lifeVars>>

(* The deferred Unlock, of whatever the wrapper has by then.               *)
WorkerKeepsLock(w) ==
  /\ Return(w, "unlock")
  /\ UNCHANGED <<notQueueOrWorker, lockVars, queueVars>>
WorkerUnlocks(w) ==
  /\ Return(w, "unlock")
  /\ lock' = [lock EXCEPT ![request[w]] = "free"]
  /\ contested = {}
  /\ UNCHANGED <<notQueueOrWorker, queueVars, contested>>

WorkerGoesOn(w) ==
  \/ WorkerPops(w)
  \/ WorkerReceives(w)
  \/ WorkerChecks(w)
  \/ WorkerReads(w)
  \/ WorkerFindsNothing(w)
  \/ WorkerSchedules(w)
  \/ WorkerUnlocks(w)

Locking(w) == WorkerLocks(w) \/ WorkerRefused(w) \/ WorkerGivesUp(w)

Worker(w) == WorkerGoesOn(w) \/ Locking(w) \/ WorkerExits(w)

-----------------------------------------------------------------------------
(* The garbage collector *)

notGc == <<configVars, latest, monitorVars, events, queueVars, workerVars, lifeVars>>

GcReadsCluster ==
  /\ gpc = "wait"
  /\ gcReqs > 0
  /\ gpc' = "list"
  /\ gcReqs' = gcReqs - 1
  /\ gcCluster' = ToSet(cluster)
  /\ UNCHANGED <<notGc, storeVars, gcTodo>>

(* ListTasks, of the cluster, whether scheduled or not: the records of a   *)
(* deployment that was scheduled once are there until its agents have      *)
(* deleted the last of them, which may be at any time.                     *)
GcListing ==
  {scheduled \union old : old \in SUBSET {d \in Deployments : applied[d] > 0}}
GcLists ==
  /\ gpc = "list"
  /\ gpc' = "put"
  /\ \E listed \in GcListing : gcTodo' = listed \ gcCluster
  /\ gcCluster' = {}
  /\ UNCHANGED <<notGc, storeVars, gcReqs>>

(* PutTask for the tasks of a deployment the cluster did not list.         *)
GcPuts(d) ==
  /\ gpc = "put"
  /\ d \in gcTodo
  /\ gcTodo' = gcTodo \ {d}
  /\ scheduled' = scheduled \ {d}
  /\ UNCHANGED <<notGc, applied, gpc, gcReqs, gcCluster>>

GcEnds ==
  /\ gpc = "put"
  /\ gcTodo = {}
  /\ gpc' = "wait"
  /\ UNCHANGED <<notGc, storeVars, gcReqs, gcCluster, gcTodo>>

GcExits ==
  /\ gpc = "wait"
  /\ life = "quit"
  /\ gpc' = "exited"
  /\ UNCHANGED <<notGc, storeVars, gcReqs, gcCluster, gcTodo>>

Collecting == GcReadsCluster \/ GcLists \/ GcEnds \/ \E d \in Deployments : GcPuts(d)
Collector == Collecting \/ GcExits

-----------------------------------------------------------------------------

(* Master.Stop: Locks.Stop takes no mutex and unlocks wrapper after        *)
(* wrapper, whoever works under it (lockers.go:61-65) ...                  *)
StopBegins ==
  /\ life = "up"
  /\ life' = "stopping"
  /\ unstopped' = Deployments
  /\ UNCHANGED <<configVars, latest, storeVars, monitorVars, events, queueVars, workerVars, gcVars,
                 gcReqs>>

StopUnlocks(d) ==
  /\ life = "stopping"
  /\ d \in unstopped
  /\ unstopped' = unstopped \ {d}
  /\ lock' = [lock EXCEPT ![d] = "free"]
  /\ contested = {}
  /\ UNCHANGED <<configVars, latest, storeVars, monitorVars, events, queueVars, requestVars,
                 contested, gcVars, gcReqs, life>>

(* ... and then the quit channel is closed (master.go:242-246).            *)
CloseQuit ==
  /\ life = "stopping"
  /\ unstopped = {}
  /\ life' = "quit"
  /\ UNCHANGED <<configVars, latest, storeVars, monitorVars, events, queueVars, workerVars, gcVars,
                 gcReqs, unstopped>>

Stop == StopBegins \/ CloseQuit \/ \E d \in Deployments : StopUnlocks(d)

Run ==
  \/ Operator \/ Emit \/ Monitor \/ QueueStep \/ Collector
  \/ \E w \in Workers : Worker(w)
  \/ \E d \in Deployments : FlagFalls(d)

RunSpec == Init /\ [][Run]_vars

Next == Run \/ Stop
Spec == Init /\ [][Next]_vars

(* While it runs, every goroutine runs on.  A select with two cases ready  *)
(* takes each in the end (Go picks at random).  A deployment's lock that is*)
(* free time and again is had in the end, and found held in the end:       *)
(* schedule sleeps a random time before it tries (master.go:145-147), and a*)
(* watcher or a sibling's Unlock does not hit every time between the lock  *)
(* and IsHeld.  Nothing forces a Lock call to give up or a flag to fall.   *)
Locks(d) == \E w \in Workers : request[w] = d /\ WorkerLocks(w)
FindsHeld(d) == \E w \in Workers : request[w] = d /\ lock[d] = "held" /\ WorkerChecks(w)

Fairness ==
  /\ WF_vars(TimerFires)
  /\ WF_vars(Dispatching)
  /\ WF_vars(QueueStep)
  /\ \A w \in Workers : WF_vars(WorkerGoesOn(w) \/ Locking(w))
  /\ \A d \in Deployments : SF_vars(Locks(d)) /\ SF_vars(FindsHeld(d))
  /\ WF_vars(Collecting)

FairSpec == Spec /\ Fairness
RunFairSpec == RunSpec /\ Fairness

-----------------------------------------------------------------------------
(* Properties *)

(* The deployments dispatchAll gets to: those listed before the first name *)
(* that is not defined.                                                    *)
Reached == {cluster[i] : i \in {i \in 1..Len(cluster) : \A j \in 1..i : cluster[j] \in defined}}

UpToDate(d) == d \in scheduled /\ applied[d] = version[d]

(* Once the configuration stays as it is, the deployments that dispatchAll *)
(* gets to end up scheduled at their latest revision, for good: although   *)
(* events are lost (two changes between two lists, a deletion, a full      *)
(* channel), requests are dropped when a lock is taken, workers unlock each*)
(* other's locks, and the collector works from an old list                 *)
(* (readme:158-163).  The hypothesis is what the last-in first-out queue   *)
(* needs (queue.go:55): that it is empty time and again.  A master that is *)
(* asked faster than its workers schedule may starve a deployment; nothing *)
(* in the code prevents that.                                              *)
Settles == [](life = "up") /\ []<>(queue = << >>) => <>[](\A d \in Reached : UpToDate(d))

(* A deployment never goes back to an older revision: the revision is read *)
(* under the lock that the same worker schedules under (master.go:151-180).*)
(* That is so until a Lock call for it gives up, or Stop begins: both free *)
(* the lock a sibling works under, and a worker that gave up walks in on a *)
(* sibling's flag; the sibling may then apply what it read before.         *)
NeverBackwards ==
  [][\A d \in Deployments \ contested : life = "up" => applied'[d] >= applied[d]]_vars

(* A worker never waits for a request that went to somebody else, and none *)
(* is answered twice: a future is in the queue or being answered exactly   *)
(* while its worker is in the select, unless the worker has quit.          *)
OneFuture ==
  \A w \in Workers :
    LET futures == Cardinality({i \in 1..Len(dequeue) : dequeue[i] = w})
                   + (IF sending = w THEN 1 ELSE 0)
    IN  CASE wpc[w] = "listen" -> futures = 1
          [] wpc[w] = "exited" -> futures <= 1
          [] OTHER -> futures = 0
=============================================================================
