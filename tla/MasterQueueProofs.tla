-------------------------- MODULE MasterQueueProofs --------------------------
(***************************************************************************)
(* The types of a master, and its queue and workers together: futures and  *)
(* workers stay paired.                                                    *)
(* The steps of the queue are those of SchedulerQueue, whose invariant is  *)
(* taken from SchedulerQueueProofs.                                        *)
(***************************************************************************)
EXTENDS Master, SequenceTheorems, FiniteSetTheorems, TLAPS

QP == INSTANCE SchedulerQueueProofs WITH Values <- Deployments, Poppers <- Workers

USE MasterCapAssumption, QueueAssumption, BoundAssumption, ListingsAssumption, ContendedAssumption
    DEF MasterCapAssumption, QueueAssumption, BoundAssumption, ListingsAssumption,
        ContendedAssumption

(* TypeOK without the queue, in the parts that a process changes.          *)
ConfigTypes ==
  /\ cluster \in Seq(Deployments)
  /\ defined \subseteq Deployments
  /\ version \in [Deployments -> Revision]
  /\ changes \in 0..MaxChanges
  /\ latest \in {"put", "delete", "seen"}

StoreTypes ==
  /\ scheduled \subseteq Deployments
  /\ applied \in [Deployments -> Revision]

MonitorTypes ==
  /\ mpc \in {"select", "dispatch", "gc", "exited"}
  /\ todo \in Seq(Deployments)
  /\ onConfig \in BOOLEAN
  /\ events \in 0..EventCap

WorkerTypes ==
  /\ wpc \in [Workers -> Place]
  /\ request \in [Workers -> Deployments \union {NoDeployment}]
  /\ revision \in [Workers -> Revision]

GcTypes ==
  /\ gpc \in {"wait", "list", "put", "exited"}
  /\ gcReqs \in 0..GcCap
  /\ gcCluster \subseteq Deployments
  /\ gcTodo \subseteq Deployments

LockTypes ==
  /\ lock \in [Deployments -> {"free", "held", "unflagged"}]
  /\ contested \subseteq Contended

LifeTypes ==
  /\ life \in {"up", "stopping", "quit"}
  /\ unstopped \subseteq Deployments

(* The revisions stay within their bound because each is a change.         *)
VersionBound == \A d \in Deployments : version[d] <= changes + 1

(* A worker that has a request works on a deployment.                      *)
RequestKnown ==
  \A w \in Workers :
    wpc[w] \in {"lock", "locked", "read", "schedule", "unlock"} => request[w] \in Deployments

TypeInv ==
  /\ ConfigTypes /\ StoreTypes /\ MonitorTypes /\ WorkerTypes /\ GcTypes
  /\ LockTypes /\ LifeTypes
  /\ VersionBound /\ RequestKnown
  /\ QP!QueueInv

(* Workers and futures, in the form that is inductive: no worker is twice  *)
(* in the channel, or in it and being answered, and those that are have    *)
(* asked; a worker in the select has its future somewhere.                 *)
Asked == {"listen", "exited"}
Paired ==
  /\ \A i, j \in 1..Len(dequeue) : dequeue[i] = dequeue[j] => i = j
  /\ \A i \in 1..Len(dequeue) : dequeue[i] # sending /\ wpc[dequeue[i]] \in Asked
  /\ sending # Nobody => wpc[sending] \in Asked
  /\ \A w \in Workers :
       wpc[w] = "listen" => sending = w \/ \E i \in 1..Len(dequeue) : dequeue[i] = w

-----------------------------------------------------------------------------
LEMMA TypeInvTypes == TypeInv => TypeOK
  BY DEF TypeInv, TypeOK, ConfigTypes, StoreTypes, MonitorTypes, WorkerTypes, GcTypes,
         LockTypes, LifeTypes, QP!QueueInv, QP!TypeOK, Q!TypeOK

LEMMA InitTypes == Init => TypeInv
<1> SUFFICES ASSUME Init PROVE TypeInv
  OBVIOUS
<1>1. QP!QueueInv
  BY QP!InitQueueInv DEF Init, Q!Init, QP!Init
<1>2. ConfigTypes /\ VersionBound
  BY DEF Init, ConfigTypes, Revision, VersionBound
<1>3. StoreTypes
  BY DEF Init, StoreTypes, Revision
<1>4. MonitorTypes /\ GcTypes
  <2>1. onConfig \in BOOLEAN
    BY DEF Init
  <2>2. events \in 0..EventCap /\ gcReqs \in 0..GcCap
    BY DEF Init
  <2>3. todo \in Seq(Deployments) /\ gcCluster \subseteq Deployments /\ gcTodo \subseteq Deployments
    BY DEF Init
  <2> QED
    BY <2>1, <2>2, <2>3 DEF Init, MonitorTypes, GcTypes
<1>5. WorkerTypes
  BY DEF Init, WorkerTypes, Revision, Place
<1>7. LockTypes /\ LifeTypes
  BY DEF Init, LockTypes, LifeTypes
<1>6. RequestKnown
  BY DEF Init, RequestKnown
<1> QED
  BY <1>1, <1>2, <1>3, <1>4, <1>5, <1>6, <1>7 DEF TypeInv

(* The deployment that the monitor requests next, or a worker receives.    *)
LEMMA HeadOfTodo ==
  ASSUME MonitorTypes, todo # << >>
  PROVE  Head(todo) \in Deployments /\ Tail(todo) \in Seq(Deployments)
  BY HeadTailProperties DEF MonitorTypes

LEMMA DeliveredKnown ==
  ASSUME QP!QueueInv, NEW w \in Workers, sending = w
  PROVE  Q!Delivered \in Deployments
<1>1. queue \in Seq(Deployments) /\ queue # << >>
  BY DEF QP!QueueInv, QP!TypeOK
<1>2. Len(queue) \in 1..Len(queue)
  BY <1>1, EmptySeq
<1> QED
  BY <1>1, <1>2 DEF Q!Delivered, Q!Last

(* A step of a master is a step of its queue, or leaves it alone.          *)
LEMMA QueueSteps ==
  ASSUME TypeInv, Next
  PROVE  [QP!Next]_(QP!queueVars)
<1> USE DEF QP!queueVars, queueVars
<1>1. CASE Operator
  BY <1>1 DEF Operator, PutDeployment, PutCluster, DelDeployment
<1>2. CASE Emit \/ Stop \/ \E d \in Deployments : FlagFalls(d)
  BY <1>2 DEF Emit, Stop, StopBegins, StopUnlocks, CloseQuit, FlagFalls
<1>3. CASE Dispatch
  <2>1. Head(todo) \in Deployments
    BY <1>3, HeadOfTodo DEF TypeInv, Dispatch
  <2> QED
    BY <1>3, <2>1 DEF Dispatch, QP!Next, Q!Push, QP!Push
<1>4. CASE Monitor /\ ~Dispatch
  BY <1>4 DEF Monitor, Dispatching, ReceiveConfig, TimerFires, StartDispatch,
              DispatchFails, DispatchDone, RequestGc, MonitorExits
<1>5. CASE QueueStep
  BY <1>5 DEF QueueStep, QP!Next, Q!Enqueue, QP!Enqueue, Q!Answer, QP!Answer, Q!DoEnqueue,
              QP!DoEnqueue, Q!RemoveAt, QP!RemoveAt, Q!Position, QP!Position, Q!IsQueued, QP!IsQueued
<1>6. ASSUME NEW w \in Workers, WorkerPops(w) PROVE QP!Next
  BY <1>6 DEF WorkerPops, QP!Next, Q!Pop, QP!Pop
<1>7. ASSUME NEW w \in Workers, WorkerReceives(w) PROVE QP!Next
  BY <1>7 DEF WorkerReceives, QP!Next, Q!Deliver, QP!Deliver, Q!Front, QP!Front
<1>8. ASSUME NEW w \in Workers, Worker(w), ~WorkerPops(w), ~WorkerReceives(w)
      PROVE  UNCHANGED queueVars
  BY <1>8 DEF Worker, WorkerGoesOn, Locking, WorkerChecks, WorkerReads, WorkerFindsNothing,
              WorkerSchedules, WorkerUnlocks, WorkerLocks, WorkerRefused, WorkerGivesUp, WorkerExits
<1>9. CASE Collector
  BY <1>9 DEF Collector, Collecting, GcReadsCluster, GcLists, GcPuts, GcEnds, GcExits, notGc
<1> QED
  BY <1>1, <1>2, <1>3, <1>4, <1>5, <1>6, <1>7, <1>8, <1>9 DEF Next, Run, Monitor

LEMMA QueueKept == ASSUME TypeInv, Next PROVE QP!QueueInv'
<1>1. QP!CapAssumption /\ QP!NobodyAssumption
  BY DEF QP!CapAssumption, QP!NobodyAssumption
<1> QED
  BY <1>1, QueueSteps, QP!NextQueueInv DEF TypeInv

-----------------------------------------------------------------------------
(* The parts a process does not touch it leaves as they are.               *)
LEMMA PutTypes ==
  ASSUME TypeInv, NEW d \in Deployments, PutDeployment(d)
  PROVE  ConfigTypes' /\ VersionBound'
<1>1. /\ changes < MaxChanges /\ changes' = changes + 1
      /\ defined' = defined \union {d}
      /\ version' = [version EXCEPT ![d] = @ + 1]
      /\ latest' = "put" /\ cluster' = cluster
  BY DEF PutDeployment, Change
<1>2. changes' \in 0..MaxChanges
  BY <1>1 DEF TypeInv, ConfigTypes
<1>3. \A e \in Deployments : version'[e] \in Revision /\ version'[e] <= changes' + 1
  BY <1>1, <1>2 DEF TypeInv, ConfigTypes, VersionBound, Revision
<1> QED
  BY <1>1, <1>2, <1>3 DEF TypeInv, ConfigTypes, VersionBound

LEMMA OperatorTypes ==
  ASSUME TypeInv, Operator \/ Emit
  PROVE  /\ ConfigTypes' /\ VersionBound' /\ MonitorTypes'
         /\ UNCHANGED <<storeVars, workerVars, gcVars, gcReqs, lifeVars>>
<1>1. ASSUME NEW d \in Deployments, PutDeployment(d)
      PROVE  /\ ConfigTypes' /\ VersionBound'
             /\ UNCHANGED <<monitorVars, events, storeVars, workerVars, gcVars, gcReqs, lifeVars>>
  BY <1>1, PutTypes DEF PutDeployment
<1>2. ASSUME NEW d \in Deployments, DelDeployment(d)
      PROVE  /\ ConfigTypes' /\ VersionBound'
             /\ UNCHANGED <<monitorVars, events, storeVars, workerVars, gcVars, gcReqs, lifeVars>>
  BY <1>2 DEF DelDeployment, Change, TypeInv, ConfigTypes, VersionBound, Revision
<1>3. ASSUME NEW l \in Listings, PutCluster(l)
      PROVE  /\ ConfigTypes' /\ VersionBound'
             /\ UNCHANGED <<monitorVars, events, storeVars, workerVars, gcVars, gcReqs, lifeVars>>
  BY <1>3 DEF PutCluster, Change, TypeInv, ConfigTypes, VersionBound, Revision
<1>4. CASE Operator
  BY <1>1, <1>2, <1>3, <1>4 DEF Operator, TypeInv, MonitorTypes, monitorVars
<1>5. CASE Emit
  <2>1. /\ UNCHANGED <<cluster, defined, version, changes>> /\ latest' = "seen"
        /\ UNCHANGED <<mpc, todo, onConfig>> /\ events' \in 0..EventCap
    BY <1>5 DEF Emit, EmitOne, TypeInv, MonitorTypes, configVars, monitorVars
  <2> QED
    BY <1>5, <2>1 DEF Emit, TypeInv, ConfigTypes, VersionBound, MonitorTypes
<1> QED
  BY <1>4, <1>5

LEMMA MonitorTypesKept ==
  ASSUME TypeInv, Monitor
  PROVE  /\ MonitorTypes' /\ gcReqs' \in 0..GcCap
         /\ UNCHANGED <<configVars, latest, storeVars, workerVars, gcVars, lifeVars>>
<1> USE DEF TypeInv, MonitorTypes
<1>1. ASSUME StartDispatch(TRUE) \/ StartDispatch(FALSE),
             events' \in 0..EventCap
      PROVE  /\ MonitorTypes' /\ gcReqs' \in 0..GcCap
             /\ UNCHANGED <<configVars, latest, storeVars, workerVars, gcVars, lifeVars>>
  <2>1. onConfig' \in BOOLEAN
    BY <1>1 DEF StartDispatch
  <2> QED
    BY <1>1, <2>1 DEF StartDispatch, ConfigTypes, GcTypes
<1>2. CASE ReceiveConfig
  <2>1. StartDispatch(TRUE)
    BY <1>2 DEF ReceiveConfig
  <2>2. events' \in 0..EventCap
    BY <1>2 DEF ReceiveConfig
  <2> QED
    BY <1>1, <2>1, <2>2
<1>4. CASE TimerFires
  <2>1. StartDispatch(FALSE) /\ events' = events
    BY <1>4 DEF TimerFires
  <2> QED
    BY <1>1, <2>1
<1>5. CASE Dispatch
  BY <1>5, HeadOfTodo DEF Dispatch, GcTypes
<1>6. CASE DispatchFails
  BY <1>6 DEF DispatchFails, GcTypes
<1>9. CASE DispatchDone
  <2>1. onConfig' \in BOOLEAN /\ mpc' \in {"select", "gc"}
    BY <1>9 DEF DispatchDone
  <2> QED
    BY <1>9, <2>1 DEF DispatchDone, GcTypes
<1>7. CASE RequestGc
  BY <1>7 DEF RequestGc, GcTypes
<1>8. CASE MonitorExits
  BY <1>8 DEF MonitorExits, GcTypes
<1> QED
  BY <1>2, <1>4, <1>5, <1>6, <1>7, <1>8, <1>9 DEF Monitor, Dispatching

LEMMA CollectorTypes ==
  ASSUME TypeInv, Collector
  PROVE  GcTypes' /\ StoreTypes' /\ UNCHANGED notGc
<1> USE DEF TypeInv, GcTypes, StoreTypes, storeVars
<1>1. CASE GcReadsCluster
  <2>1. ToSet(cluster) \subseteq Deployments
    BY DEF ConfigTypes, ToSet
  <2> QED
    BY <1>1, <2>1 DEF GcReadsCluster, notGc
<1>2. CASE GcLists
  <2>1. \A l \in GcListing : l \subseteq Deployments
    BY DEF GcListing
  <2> QED
    BY <1>2, <2>1 DEF GcLists, notGc
<1>3. ASSUME NEW d \in Deployments, GcPuts(d) PROVE GcTypes' /\ StoreTypes' /\ UNCHANGED notGc
  BY <1>3 DEF GcPuts, notGc
<1>4. CASE GcEnds \/ GcExits
  BY <1>4 DEF GcEnds, GcExits, notGc
<1> QED
  BY <1>1, <1>2, <1>3, <1>4 DEF Collector, Collecting

LEMMA WorkerTypesKept ==
  ASSUME TypeInv, NEW w \in Workers, Worker(w)
  PROVE  /\ WorkerTypes' /\ RequestKnown' /\ StoreTypes' /\ LockTypes'
         /\ UNCHANGED <<configVars, latest, monitorVars, events, gcVars, gcReqs, lifeVars>>
<1> USE DEF TypeInv, WorkerTypes, RequestKnown, StoreTypes, LockTypes, Place, storeVars, lockVars,
            notQueueOrWorker, Step
<1>1. CASE WorkerPops(w) \/ WorkerExits(w)
  BY <1>1 DEF WorkerPops, WorkerExits
<1>2. CASE WorkerReceives(w)
  <2>1. sending = w
    BY <1>2 DEF WorkerReceives, Q!Deliver
  <2>2. Q!Delivered \in Deployments
    BY <2>1, DeliveredKnown
  <2> QED
    BY <1>2, <2>2 DEF WorkerReceives
<1>3. CASE WorkerLocks(w)
  BY <1>3 DEF WorkerLocks
<1>4. CASE WorkerGivesUp(w)
  BY <1>4 DEF WorkerGivesUp
<1>5. CASE WorkerRefused(w) \/ WorkerUnlocks(w)
  <2>1. /\ wpc' = [wpc EXCEPT ![w] = "pop"]
        /\ request' = [request EXCEPT ![w] = NoDeployment]
        /\ revision' = [revision EXCEPT ![w] = 0]
        /\ contested' = contested
        /\ lock' = lock \/ lock' = [lock EXCEPT ![request[w]] = "free"]
        /\ UNCHANGED notQueueOrWorker
    BY <1>5 DEF WorkerRefused, WorkerUnlocks, Return
  <2>2. 0 \in Revision
    BY DEF Revision
  <2> QED
    BY <2>1, <2>2
<1>6. CASE WorkerChecks(w)
  <2>1. PICK to \in {"read", "unlock"} : wpc[w] = "locked" /\ wpc' = [wpc EXCEPT ![w] = to]
    BY <1>6 DEF WorkerChecks
  <2> QED
    BY <1>6, <2>1 DEF WorkerChecks
<1>7. CASE WorkerFindsNothing(w)
  BY <1>7 DEF WorkerFindsNothing
<1>8. CASE WorkerReads(w)
  BY <1>8 DEF WorkerReads, ConfigTypes
<1>9. CASE WorkerSchedules(w)
  BY <1>9 DEF WorkerSchedules, Revision
<1> QED
  BY <1>1, <1>2, <1>3, <1>4, <1>5, <1>6, <1>7, <1>8, <1>9 DEF Worker, WorkerGoesOn, Locking

(* The watcher, and Stop, touch the locks and the life of the master only. *)
LEMMA StopTypes ==
  ASSUME TypeInv, Stop \/ \E d \in Deployments : FlagFalls(d)
  PROVE  /\ LockTypes' /\ LifeTypes'
         /\ UNCHANGED <<configVars, latest, storeVars, monitorVars, events, requestVars, gcVars,
                        gcReqs>>
<1> USE DEF TypeInv, LockTypes, LifeTypes, workerVars, lockVars
<1>1. ASSUME NEW d \in Deployments, FlagFalls(d)
      PROVE  /\ LockTypes' /\ LifeTypes'
             /\ UNCHANGED <<configVars, latest, storeVars, monitorVars, events, requestVars, gcVars,
                            gcReqs>>
  BY <1>1 DEF FlagFalls, notQueueOrWorker, lifeVars
<1>2. CASE StopBegins \/ CloseQuit
  BY <1>2 DEF StopBegins, CloseQuit
<1>3. ASSUME NEW d \in Deployments, StopUnlocks(d)
      PROVE  /\ LockTypes' /\ LifeTypes'
             /\ UNCHANGED <<configVars, latest, storeVars, monitorVars, events, requestVars, gcVars,
                            gcReqs>>
  BY <1>3 DEF StopUnlocks
<1> QED
  BY <1>1, <1>2, <1>3 DEF Stop

LEMMA NextTypes == TypeInv /\ [Next]_vars => TypeInv'
<1> SUFFICES ASSUME TypeInv, [Next]_vars PROVE TypeInv'
  OBVIOUS
<1> USE DEF TypeInv, configVars, storeVars, monitorVars, workerVars, requestVars, lockVars, gcVars,
            lifeVars
<1>1. CASE UNCHANGED vars
  BY <1>1 DEF vars, queueVars, ConfigTypes, StoreTypes, MonitorTypes, WorkerTypes, GcTypes,
              LockTypes, LifeTypes, VersionBound, RequestKnown, QP!QueueInv, QP!TypeOK, QP!Unique
<1>2. CASE Operator \/ Emit
  BY <1>2, OperatorTypes, QueueKept DEF Next, Run, StoreTypes, WorkerTypes, GcTypes, LockTypes,
              LifeTypes, RequestKnown
<1>3. CASE Monitor
  BY <1>3, MonitorTypesKept, QueueKept DEF Next, Run, ConfigTypes, StoreTypes, WorkerTypes, GcTypes,
              LockTypes, LifeTypes, VersionBound, RequestKnown
<1>4. CASE QueueStep
  BY <1>4, QueueKept DEF QueueStep, notQueueOrWorker, Next, Run, ConfigTypes, StoreTypes,
              MonitorTypes, WorkerTypes, GcTypes, LockTypes, LifeTypes, VersionBound, RequestKnown
<1>5. CASE Collector
  BY <1>5, CollectorTypes, QueueKept DEF notGc, Next, Run, ConfigTypes, MonitorTypes, WorkerTypes,
              LockTypes, LifeTypes, VersionBound, RequestKnown
<1>6. ASSUME NEW w \in Workers, Worker(w) PROVE TypeInv'
  BY <1>6, WorkerTypesKept, QueueKept DEF Next, Run, ConfigTypes, MonitorTypes, GcTypes, LifeTypes,
              VersionBound
<1>7. CASE Stop \/ \E d \in Deployments : FlagFalls(d)
  BY <1>7, StopTypes, QueueKept DEF Next, Run, ConfigTypes, StoreTypes, MonitorTypes, WorkerTypes,
              GcTypes, VersionBound, RequestKnown
<1> QED
  BY <1>1, <1>2, <1>3, <1>4, <1>5, <1>6, <1>7 DEF Next, Run

-----------------------------------------------------------------------------
LEMMA InitPaired == Init => Paired
  BY DEF Init, Q!Init, Paired

(* A future that is asked for is added at the end of the channel.          *)
LEMMA PopsPaired ==
  ASSUME TypeInv, Paired, NEW w \in Workers, WorkerPops(w)
  PROVE  Paired'
<1>1. /\ wpc[w] = "pop" /\ wpc' = [wpc EXCEPT ![w] = "listen"]
      /\ dequeue' = Append(dequeue, w) /\ sending' = sending
  BY DEF WorkerPops, Step, Q!Pop
<1>2. dequeue \in Seq(Workers) /\ sending \in Workers \union {Nobody}
  BY DEF TypeInv, QP!QueueInv, QP!TypeOK
<1>3. /\ Len(dequeue') = Len(dequeue) + 1
      /\ \A i \in 1..Len(dequeue) : dequeue'[i] = dequeue[i]
      /\ dequeue'[Len(dequeue) + 1] = w
  BY <1>1, <1>2, AppendProperties
<1>4. /\ wpc'[w] = "listen"
      /\ \A v \in Workers \ {w} : wpc'[v] = wpc[v]
  BY <1>1 DEF TypeInv, WorkerTypes
<1>5. \A i \in 1..Len(dequeue) : dequeue[i] \in Workers /\ dequeue[i] # w
  BY <1>1, <1>2 DEF Paired, Asked
<1>6. sending # w
  BY <1>1, <1>2 DEF Paired, Asked
<1> QED
  BY <1>1, <1>2, <1>3, <1>4, <1>5, <1>6 DEF Paired, Asked

(* The queue's goroutine takes the first future out and answers it.        *)
LEMMA AnswerPaired ==
  ASSUME TypeInv, Paired, Q!Answer, wpc' = wpc
  PROVE  Paired'
<1>1. /\ sending = Nobody /\ dequeue # << >>
      /\ sending' = Head(dequeue) /\ dequeue' = Tail(dequeue)
  BY DEF Q!Answer
<1>2. dequeue \in Seq(Workers)
  BY DEF TypeInv, QP!QueueInv, QP!TypeOK
<1>3. /\ Len(dequeue) \in Nat \ {0} /\ sending' = dequeue[1]
      /\ Len(dequeue') = Len(dequeue) - 1
      /\ \A i \in 1..(Len(dequeue) - 1) : dequeue'[i] = dequeue[i + 1]
  BY <1>1, <1>2, HeadTailProperties, EmptySeq
<1>4. \A i \in 1..Len(dequeue') : i + 1 \in 1..Len(dequeue) /\ dequeue'[i] = dequeue[i + 1]
  BY <1>3
<1>5. \A i, j \in 1..Len(dequeue') : dequeue'[i] = dequeue'[j] => i = j
  BY <1>3, <1>4 DEF Paired
<1>6. \A i \in 1..Len(dequeue') : dequeue'[i] # sending' /\ wpc[dequeue'[i]] \in Asked
  BY <1>3, <1>4 DEF Paired
<1>7. wpc[sending'] \in Asked
  BY <1>3 DEF Paired
<1>8. ASSUME NEW w \in Workers, wpc[w] = "listen", sending' # w
      PROVE  \E i \in 1..Len(dequeue') : dequeue'[i] = w
  <2>1. PICK k \in 1..Len(dequeue) : dequeue[k] = w
    BY <1>1, <1>8 DEF Paired
  <2>2. k # 1 /\ k - 1 \in 1..Len(dequeue') /\ dequeue'[k - 1] = w
    BY <1>3, <1>8, <2>1
  <2> QED
    BY <2>2
<1> QED
  BY <1>5, <1>6, <1>7, <1>8 DEF Paired

LEMMA ReceivesPaired ==
  ASSUME TypeInv, Paired, NEW w \in Workers, WorkerReceives(w)
  PROVE  Paired'
<1>1. /\ wpc' = [wpc EXCEPT ![w] = "lock"]
      /\ sending = w /\ sending' = Nobody /\ dequeue' = dequeue
  BY DEF WorkerReceives, Step, Q!Deliver
<1>2. dequeue \in Seq(Workers)
  BY DEF TypeInv, QP!QueueInv, QP!TypeOK
<1>3. /\ wpc'[w] = "lock"
      /\ \A v \in Workers \ {w} : wpc'[v] = wpc[v]
  BY <1>1 DEF TypeInv, WorkerTypes
<1>4. \A i \in 1..Len(dequeue) : dequeue[i] \in Workers \ {w}
  BY <1>1, <1>2 DEF Paired
<1> QED
  BY <1>1, <1>3, <1>4 DEF Paired

(* A worker that neither asks nor receives stays on its side of the select.*)
LEMMA AwayPaired ==
  ASSUME TypeInv, Paired, NEW w \in Workers, UNCHANGED <<dequeue, sending>>,
         NEW from, NEW to, Step(w, from, to), to # "listen",
         from \in Asked => to \in Asked
  PROVE  Paired'
<1>1. dequeue \in Seq(Workers) /\ sending \in Workers \union {Nobody}
  BY DEF TypeInv, QP!QueueInv, QP!TypeOK
<1>2. /\ wpc[w] = from /\ wpc'[w] = to
      /\ \A v \in Workers \ {w} : wpc'[v] = wpc[v]
  BY DEF Step, TypeInv, WorkerTypes
<1>3. \A v \in Workers : wpc[v] \in Asked => wpc'[v] \in Asked
  BY <1>2
<1>4. \A v \in Workers : wpc'[v] = "listen" => wpc[v] = "listen"
  BY <1>2
<1> QED
  BY <1>1, <1>3, <1>4 DEF Paired

LEMMA WorkerPaired ==
  ASSUME TypeInv, Paired, NEW w \in Workers, Worker(w)
  PROVE  Paired'
<1>1. CASE WorkerPops(w)
  BY <1>1, PopsPaired
<1>2. CASE WorkerReceives(w)
  BY <1>2, ReceivesPaired
<1>3. CASE WorkerExits(w)
  <2>1. Step(w, "listen", "exited") /\ UNCHANGED <<dequeue, sending>>
    BY <1>3 DEF WorkerExits, queueVars
  <2> QED
    BY <2>1, AwayPaired DEF Asked
<1>4. CASE WorkerRefused(w)
  <2>1. Step(w, "lock", "pop") /\ UNCHANGED <<dequeue, sending>>
    BY <1>4 DEF WorkerRefused, Return, queueVars
  <2> QED
    BY <2>1, AwayPaired DEF Asked
<1>5. CASE WorkerFindsNothing(w)
  <2>1. Step(w, "read", "unlock") /\ UNCHANGED <<dequeue, sending>>
    BY <1>5 DEF WorkerFindsNothing, queueVars
  <2> QED
    BY <2>1, AwayPaired DEF Asked
<1>6. CASE WorkerLocks(w)
  <2>1. Step(w, "lock", "locked") /\ UNCHANGED <<dequeue, sending>>
    BY <1>6 DEF WorkerLocks, queueVars
  <2> QED
    BY <2>1, AwayPaired DEF Asked
<1>7. CASE WorkerGivesUp(w)
  <2>1. Step(w, "lock", "locked") /\ UNCHANGED <<dequeue, sending>>
    BY <1>7 DEF WorkerGivesUp, queueVars
  <2> QED
    BY <2>1, AwayPaired DEF Asked
<1>8. CASE WorkerChecks(w)
  <2>1. PICK to \in {"read", "unlock"} : Step(w, "locked", to) /\ UNCHANGED <<dequeue, sending>>
    BY <1>8 DEF WorkerChecks, queueVars
  <2> QED
    BY <2>1, AwayPaired DEF Asked
<1>9. CASE WorkerReads(w)
  <2>1. Step(w, "read", "schedule") /\ UNCHANGED <<dequeue, sending>>
    BY <1>9 DEF WorkerReads, queueVars
  <2> QED
    BY <2>1, AwayPaired DEF Asked
<1>10. CASE WorkerSchedules(w)
  <2>1. Step(w, "schedule", "unlock") /\ UNCHANGED <<dequeue, sending>>
    BY <1>10 DEF WorkerSchedules, queueVars
  <2> QED
    BY <2>1, AwayPaired DEF Asked
<1>11. CASE WorkerUnlocks(w)
  <2>1. Step(w, "unlock", "pop") /\ UNCHANGED <<dequeue, sending>>
    BY <1>11 DEF WorkerUnlocks, Return, queueVars
  <2> QED
    BY <2>1, AwayPaired DEF Asked
<1> QED
  BY <1>1, <1>2, <1>3, <1>4, <1>5, <1>6, <1>7, <1>8, <1>9, <1>10, <1>11
     DEF Worker, WorkerGoesOn, Locking

LEMMA NextPaired == TypeInv /\ Paired /\ [Next]_vars => Paired'
<1> SUFFICES ASSUME TypeInv, Paired, [Next]_vars PROVE Paired'
  OBVIOUS
<1>1. ASSUME UNCHANGED <<dequeue, sending, wpc>> PROVE Paired'
  BY <1>1 DEF Paired
<1> USE DEF queueVars, workerVars, requestVars
<1>2. CASE UNCHANGED vars
  BY <1>1, <1>2 DEF vars
<1>3. CASE Operator \/ Emit
  BY <1>1, <1>3 DEF Operator, PutDeployment, PutCluster, DelDeployment, Emit
<1>8. CASE Stop \/ \E d \in Deployments : FlagFalls(d)
  BY <1>1, <1>8 DEF Stop, StopBegins, StopUnlocks, CloseQuit, FlagFalls
<1>4. CASE Monitor
  BY <1>1, <1>4 DEF Monitor, Dispatching, ReceiveConfig, TimerFires, StartDispatch,
              Dispatch, Q!Push, DispatchFails, DispatchDone, RequestGc, MonitorExits
<1>5. CASE QueueStep
  <2>1. CASE Q!Enqueue
    BY <1>1, <1>5, <2>1 DEF QueueStep, Q!Enqueue
  <2>2. CASE Q!Answer
    BY <1>5, <2>2, AnswerPaired DEF QueueStep
  <2> QED
    BY <1>5, <2>1, <2>2 DEF QueueStep
<1>6. CASE Collector
  BY <1>1, <1>6, CollectorTypes DEF notGc
<1>7. ASSUME NEW w \in Workers, Worker(w) PROVE Paired'
  BY <1>7, WorkerPaired
<1> QED
  BY <1>2, <1>3, <1>4, <1>5, <1>6, <1>7, <1>8 DEF Next, Run

(* Paired counts: no worker has two futures, and one in the select has one.*)
LEMMA PairedCounts == TypeInv /\ Paired => OneFuture
<1> SUFFICES ASSUME TypeInv, Paired, NEW w \in Workers
             PROVE  LET futures == Cardinality({i \in 1..Len(dequeue) : dequeue[i] = w})
                                   + (IF sending = w THEN 1 ELSE 0)
                    IN  CASE wpc[w] = "listen" -> futures = 1
                          [] wpc[w] = "exited" -> futures <= 1
                          [] OTHER -> futures = 0
  BY DEF OneFuture
<1> DEFINE places == {i \in 1..Len(dequeue) : dequeue[i] = w}
<1>1. sending \in Workers \union {Nobody}
  BY DEF TypeInv, QP!QueueInv, QP!TypeOK
<1>2. CASE \E i \in 1..Len(dequeue) : dequeue[i] = w
  <2>1. PICK k \in 1..Len(dequeue) : dequeue[k] = w
    BY <1>2
  <2>2. places = {k}
    BY <2>1 DEF Paired
  <2>3. Cardinality(places) = 1
    BY <2>2, FS_Singleton
  <2>4. sending # w /\ wpc[w] \in Asked
    BY <2>1 DEF Paired
  <2> HIDE DEF places
  <2>5. Cardinality(places) + (IF sending = w THEN 1 ELSE 0) = 1
    BY <2>3, <2>4
  <2> QED
    BY <2>4, <2>5 DEF Asked, places
<1>3. CASE ~ \E i \in 1..Len(dequeue) : dequeue[i] = w
  <2>1. places = {}
    BY <1>3
  <2>2. Cardinality(places) = 0
    BY <2>1, FS_EmptySet
  <2>3. sending = w => wpc[w] \in Asked
    BY DEF Paired
  <2>4. wpc[w] = "listen" => sending = w
    BY <1>3 DEF Paired
  <2> HIDE DEF places
  <2>5. Cardinality(places) + (IF sending = w THEN 1 ELSE 0) = IF sending = w THEN 1 ELSE 0
    BY <2>2
  <2> QED
    BY <2>3, <2>4, <2>5 DEF Asked, places
<1> QED
  BY <1>2, <1>3

-----------------------------------------------------------------------------
(* Type correctness of a master, for any number of deployments, workers,   *)
(* changes, any lists and any capacities of its channels.                  *)
THEOREM MasterTypeCorrect == Spec => []TypeOK
<1>1. Spec => []TypeInv
  BY InitTypes, NextTypes, PTL DEF Spec
<1> QED
  BY <1>1, TypeInvTypes, PTL

(* Futures and workers stay paired over any number of requests, also when  *)
(* workers leave the select on Stop (master.go:113-142, queue.go:47-71).   *)
THEOREM MasterOneFuture == Spec => []OneFuture
<1>1. Spec => [](TypeInv /\ Paired)
  <2>1. Init => TypeInv /\ Paired
    BY InitTypes, InitPaired
  <2>2. TypeInv /\ Paired /\ [Next]_vars => TypeInv' /\ Paired'
    BY NextTypes, NextPaired
  <2> QED
    BY <2>1, <2>2, PTL DEF Spec
<1> QED
  BY <1>1, PairedCounts, PTL
=============================================================================
