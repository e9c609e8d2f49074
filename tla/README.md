# A TLA+ model of consul-scheduler

consul-scheduler runs deployments on a cluster of hosts: operators put
configuration into Consul, masters turn it into tasks with a host, agents start
and stop what is assigned to their host.  Everything the processes know of each
other goes through Consul: its key-value store, its locks and its sessions.
These modules model what those processes do to each other, TLC checks them on
small instances, and TLAPS proves the central facts for all instances.

- [The system](#the-system)
- [The modules](#the-modules)
- [What the runs check](#what-the-runs-check)
- [Bounds](#bounds)
- [Fairness](#fairness)
- [What is proved](#what-is-proved)
- [Known limits of the code](#known-limits-of-the-code)
- [What is not modelled](#what-is-not-modelled)
- [The plan](#the-plan)

## The system

| part | state | operations | talks to |
|---|---|---|---|
| Master (`master/master.go`) | the queue, the channels `listenConfig`, `listenHealth`, `runGc`, `quit` | monitor and dispatchAll, workers and schedule, garbage collector, Stop | Consul events, queue, locks, scheduler |
| Queue (`master/queue.go`) | a slice and two buffered channels, owned by one goroutine | Push, Pop, doEnqueue | monitor pushes, workers pop |
| Locks (`master/lockers.go`, `backends/consul/consul_lock.go`) | a mutex, one wrapper per service with a `held` flag, the library's lock, the key's session in Consul | Lock, Unlock, IsHeld, Stop, the watcher goroutine | all masters, through Consul |
| Default scheduler (`scheduler/scheduler.go`) | a view of the hosts that the workers of a master share, the locals of Schedule | syncHosts, Schedule (cleanup, scale down, scale up), selectHost, updateHost, selectPort | tasks and hosts in Consul |
| Rankers (`scheduler/rankers.go`) | none | rank, score | the scheduler |
| Agent (`agent/agent.go`, `agent/state.go`) | a TaskState per task, a queue of starts and stops, a saved file | sync, syncTask, start, stop, PublishState, Run | its tasks, their health and its host in Consul; the executors |
| Consul events (`backends/consul/consul_events.go`) | the last index seen, the listeners | monitor, monitorHealth, emit | masters, agents, discovery |
| Operator actions (`actions/`) | none | apply, scale, drain | clusters, deployments, hosts in Consul |
| Health agent (`health/`) | a monitor per check | sync, Monitor.Run | the state of tasks in Consul |
| Discovery (`discovery/`) | endpoints per service, an index, listeners | sync, Listen | services and tasks in Consul |

What makes each part hard, and what makes it correct:

- **Locks.**  A master's workers share one wrapper per service, the flag is
  cleared by a goroutine that runs whenever it likes, `held` is read once and
  then trusted for the whole of Schedule, sessions get lost, masters die.
  Correct: one worker in the cluster schedules a service at a time, under a key
  its master owns; no lock is left behind; every request ends.
- **Queue.**  One goroutine blocks in a send between looking at the last
  element and dropping it; a loop deletes from the slice it ranges over.
  Correct: no request twice, none dropped, none delivered to nobody.
- **Master.**  Events get lost, requests are dropped when a lock is taken, the
  queue is last in first out, the collector works from an old cluster.
  Correct: what is wanted gets scheduled in the end, and, as long as a worker
  keeps the lock it works under, never an older revision after a newer one.
- **Default scheduler.**  The workers of a master change one view of the hosts
  under each other, the view lags behind what agents publish, the counters of
  the cleanup overlap, masters die between two puts.  Correct: a pass stops at
  the minimum, does not give away what it has given away already, and the tasks
  become the wanted ones.
- **Agent.**  Several runners work on one queue, a stop or a start runs long
  after it was decided, health comes from two places.  Correct: what is
  scheduled runs once, what is not is stopped, what fails is given up.
- **Rankers.**  An insertion sort that is off by one place, over hosts in the
  order of a Go map.  Correct: the worst host comes last.
- **Health agent.**  Monitors outlive their entry, share the IDs of checks and
  put states over each other's and the agent's.  Correct: a check of tasks that
  stay has a monitor, and a task gets the state its monitors find.
- **Discovery.**  A send on a channel nobody reads while a lock is held.
  Correct: whoever polls is answered.

`PROJECT.json` lists every hazard at its line with the properties that cover it.

## The modules

| module | models | actions |
|---|---|---|
| `ScheduleRight` | the promise of `lockers.go:23`, the right to schedule a service, as three definitions over one variable | Enter, Leave |
| `SchedulerLocks` | `Master.schedule` around the lock, `SchedulerLocks`, `ConsulLockWrapper`; as its environment the Consul library and sessions | Request, LockBegin, LockErrHeld, LockAcquire, LockGiveUp, CheckHeld, ScheduleDone, DeferredUnlock, WatcherFires; StopBegin, StopUnlock, CloseQuit, WorkerExits; Crash, SessionLapses, SessionLost, LockFails, ReleaseFails |
| `SchedulerLocksProofs` | theorems about it | |
| `SchedulerQueue` | `queue.go`: the goroutine and its callers | Push, Pop, Enqueue, Answer, Deliver |
| `QueueSlice` | the loop of `doEnqueue` on the Go slice, with what deleting from a slice one ranges over does; `SchedulerQueue` extends it to compare it with `DoEnqueue` | |
| `SchedulerQueueProofs` | theorems about the queue | |
| `IterationProofs` | lemmas on loops over numbers: a least member, induction up to n, the run of a loop | |
| `Master` | a whole master around an instance of `SchedulerQueue`, with the operators and the events that reach it | the monitor's select, dispatchAll element by element, a worker's turn: WorkerPops, WorkerReceives, WorkerLocks, WorkerRefused, WorkerGivesUp, WorkerChecks, WorkerReads, WorkerFindsNothing, WorkerSchedules, WorkerUnlocks, WorkerExits; FlagFalls; the collector in three steps; StopBegins, StopUnlocks, CloseQuit |
| `MasterProofs`, `MasterQueueProofs` | theorems about it; the second about its types and its futures | |
| `Rankers` | `rankers.go`: the insertion, as operators | |
| `DefaultScheduler` | Schedule, for the workers of any number of masters, with the agents and operators around it | Begin, ReadFails, List, Clean, Cleaned, Down, DownDone, SelectHost, UpNext, Place, UpDone; Restart; Configure, Drain; AgentSees, AgentRejects, AgentStops, AgentPublishes |
| `DefaultSchedulerProofs` | theorems about it | |
| `Agent` | the agent of a host: `sync`, `syncTask`, the runners with `start` and `stop`, the TaskStates and their file; around it the scheduler, the containers, Consul's checks | SyncBegin, ReadState, ReadFails, Probe, NoDeployment, RejectTask, DecideStart, DecideStop, DecideNothing, Send, SyncDone; Take, StartBegins, StartTask, StartTaskFails, StartEnds, StopBegins, StopTask, StopTaskFails, StopDeletes, StopEnds, PutStateFails; Restart; Issue, Unschedule, Dies, CheckRuns, GraceEnds, MonitorReports |
| `AgentProofs` | theorems about it | |
| `HealthAgent` | `health/`: the loop of each host's health agent and the goroutines of its monitors | SyncLists, SyncApplies, HealthRestart; Check, Report; Move, Flip, AgentPuts |
| `Discovery` | `discovery.go`: sync and the polls | SyncReads, SyncLocks, Finds, FindFails, SyncEnds, Stop; Poll, Subscribe, TimesOut, Answer; Edit |
| `Observers` | the two beside each other: what the monitors put and the checks find decides which tasks `Discovery` takes for running | |
| `ObserversProofs` | theorems about the two | |

Each `MC` module gives a module's constants values for TLC, and the `.cfg` files
beside it are the runs.

The modules cut the system where one part needs only a fact of the next:
`Master` has Schedule as one step because `DefaultScheduler` has its inside, and
a Lock call as one step because `SchedulerLocks` has that one's.  What the
workers of a master do to each other through a lock is in `Master` all the same:
`lock` is the wrapper they share, every worker past Lock ends with the deferred
Unlock of whatever the wrapper has by then (`WorkerUnlocks`), and so does
`Locks.Stop`.  Another master is seen only in a Lock call that gives up
(`WorkerGivesUp`, for the deployments in `Contended`) and in a flag that falls
(`FlagFalls`).  `DefaultScheduler` relies on no lock at all: any number of passes
of one deployment may run at once.  The agent in
`DefaultScheduler` is what the scheduler sees of one: that it notices, rejects
and stops tasks, in any order.  `Agent` has its inside, where the scheduler is
two actions, Issue and Unschedule, and the monitors of a health agent one,
MonitorReports; `HealthAgent` has their inside, where tasks come, go and move
and the agent only puts states.

State and code.  In `SchedulerLocks`, `holder` is the session of the key in
Consul, `libHeld` the library's `isHeld`, `held` the wrapper's flag, `ended` the
watchers whose leader channel is closed and that have yet to run, `pc` the place
of a worker in `Master.schedule`.  In `Master`, `mpc`, `wpc` and `gpc` are the
places of the three kinds of goroutine; a deployment's configuration is a
revision number, and `applied` is the one of its last Schedule; `contested` is
auxiliary, the deployments that a Lock call gave up on.  In
`DefaultScheduler`, `tasks` are the records under `state/tasks`, a task's id is
deployment, version and instance, `view` is `DefaultScheduler.hosts` per master,
and `job` has the locals of one Schedule call: `taskMap`, `count`, `removed`,
and the loop's index.  In `Agent`, `issued` is a task's record, `stored` its
state under `state/health`, `local` its TaskState (times are reduced to whether
the grace period of the last start is over), `saved` the file, `loop` the locals
of `sync` and `syncTask` with `lost`, the TaskState that `syncTask` still has in
hand when a runner deleted it from the map; `late` and `crossed` are auxiliary,
the tasks that a stop deleted at the wrong time.  In `HealthAgent`, `entry` is the map `State` from
check to monitor, with the monitor's task, and `monitors` the bag of the
goroutines that run, in the map or not.  In `Discovery`, `spc` and `cpc` are the
places of the loop and of a poll, `locked` says that the loop has the write
lock; what the others do under it is one step each.  Every `range` over a Go map is a choice of any order.

Steps.  A step is what happens between two points at which another process or
goroutine can be noticed: a call to Consul, a channel operation, taking or
freeing a mutex, reading a variable another goroutine writes.  The cleanup of
one task with its put is one step, and so is `updateHost` with the put after it
(nothing another process reads lies between them).

## What the runs check

Passing runs:

- `locks_solo` (`SchedulesUnderTheKey`, `ImplementsRight`): two masters with a
  worker each, two services, under `KeptSpec`: masters crash, sessions lapse and
  calls to Consul go unanswered, but no living holder loses its session.  A
  worker in Schedule owns the key in Consul, and the locks implement
  `ScheduleRight`.
- `locks_faults` (`TypeOK`, `NoLeakedLock`, `RequestEnds`, `KeyComesFree`): two
  masters with Stop, crashes, lost sessions, unanswered calls.  A lock that a
  living master holds always has a worker on its way to the deferred Unlock;
  every request ends and every key comes free.
- `queue` (`TypeOK`, `Unique`, `LoopMovesToEnd`, `NothingDropped`): the queue is
  unique and drops nothing.  `LoopMovesToEnd` compares the loop of
  `queue.go:38-43`, which would slice out of range on a queue with a value
  twice, with `DoEnqueue` on every queue the program can reach.
- `master_safe` (`TypeOK`, `OneFuture`, `NeverBackwards`, `Settles`): two workers
  of one master at one deployment that another master schedules as well, with
  Stop.  A future is with the queue exactly while its worker waits for it.  The
  deployment never goes back to an older revision until a Lock call for it gives
  up or Stop begins; with either exception taken out TLC finds the step back
  (see the known limits).  And `Settles` as below, although the workers unlock
  each other's lock.
- `master_settles` (`Settles`): two deployments and lists that may name an
  undefined one.  Once the configuration stays, every deployment `dispatchAll`
  gets to is scheduled at its latest revision, for good.  The property assumes a
  queue that is empty time and again: the timer dispatches whatever the queue is
  at (`master.go:82`), and the queue is last in first out.
- `sched_pass` (`TypeOK`, `PassFits`, `MinKept`, `LastResort`): what a pass
  places fits, the cleanup and scaling down stop at the minimum whatever is
  lost, rejected or old, in every order, and the host with the worst score gets
  a task only when no other host fits it.
- `sched_converges` (`Converges`): two workers of one master that may pass over
  the same deployment at once, with one view of one host.  Both list the same
  tasks, choose the same room and reserve it twice, and each syncs the host under
  the other.  The deployment is upgraded, doubled or given up, a master dies in
  the middle of a pass, and a drain is undone by the agent: the scheduled tasks
  become exactly the wanted ones.
- `agent_keeps` (`TypeOK`, `OneStart`, `AttemptsBounded`, `HealthyOrGivenUp`,
  `StopsUnscheduled`): a task with docker or bash, with health checks or without,
  or with a monitor of the health agent that puts states over it, issued,
  unscheduled and issued again while two runners work.  A start is not queued
  again while it is pending; a task ends up healthy or rejected after a bounded
  number of attempts; and once it is unscheduled for good, its process is stopped
  and its record gone.  The exceptions are in the properties: a task whose start
  was abandoned stays STARTING (`Abandoned`, see `agent_restarts`); a stop that
  comes late, after the task was scheduled again, takes its TaskState with it
  (`late`); and where a start and a stop of the task cross, so that the start
  runs the process after the stop stopped it, or after it deleted the record,
  the process runs on without one (`crossed`).  Each of the three ways in which
  they cross is needed: without it TLC finds `StopsUnscheduled` violated.
- `observers` (`TypeOK`, `Backed`, `Covered`, `Settled`, `AnswersUntilFound`): two
  tasks of one definition, which share the ID of their check.  An entry always has
  its monitor, without which its check would never run again.  Although the entry of a
  task that has gone keeps the other from getting a monitor, and the process may
  end, the check ends up with a monitor for a task that is there; a task's
  state settles at what its monitors agree on, over late results, failed puts
  and what the agent puts; and a poll is answered until a sync has found its
  first service.  From then on none is: see the known limits.

Runs that show the code doing something else than its documents, comments or
tests say:

- `locks_default` (`MutualExclusion`, false): with more than one worker per
  master, the default, two masters schedule one service at once.  A worker whose
  wait for the lock ended runs the deferred Unlock as well, on the wrapper that
  another worker of its master acquired meanwhile.
- `sched_count` (`CountSettles`, false): scaling down walks instance numbers
  from the number of tasks left.  A rejected task leaves a gap; the task behind
  the gap is never reached, in this pass or a later one.
- `agent_restarts` (`RestartsUnhealthy`, false): a start that fails leaves
  STARTING in Consul, which `syncTask` takes for a start under way: the task is
  neither started again nor rejected.

Every property of a passing run has a mutant in `PROJECT.json`: an operator
beside the definition it replaces (`OldAtMin` beside `Old`, `UnlockFlagOnly`
beside `WrapperUnlock`), a plausible slip that the run catches.

## Bounds

| run | instance | why it is enough |
|---|---|---|
| `locks_solo` | 2 masters, 1 worker each, 2 services, any number of crashes, lapses and failed calls | one that holds and one that waits, of which either may die; services meet only in the masters' mutexes.  `MaxEnded` = 2 watchers of one wrapper: one from the last acquisition and one that is late.  Proved for all numbers |
| `locks_faults` | 2 masters, one with 2 workers and one with 1, 1 service, any number of faults | the safety half is proved for all numbers; liveness needs a holder and one who waits |
| `locks_default` | 2 masters, 2 workers each, 1 service | the smallest in which a wrapper is shared and contended |
| `queue` | 3 values, 2 poppers, channels of 2 | a value first, in the middle and last in the queue; both channels full |
| `master_safe` | 1 deployment, 2 workers, 1 change, channels of 1, a cluster that lists the deployment, Lock calls that give up and flags that fall any number of times | both workers in every pair of places of their turns at one lock, every channel full, a deployment that may be undefined, Stop anywhere.  Its safety properties are proved for all numbers |
| `master_settles` | 2 deployments, 1 worker, 1 change, channels of 1, a cluster that lists both or none, no Stop | a queue with two requests in either order, a list whose first or second name may be undefined; refused calls and flags that fall any number of times |
| `sched_pass` | 2 deployments, of 2 tasks with a fixed port and of 1 task, 2 hosts of room 2, 1 worker, 1 change, 1 rejection, 1 failed call | a task can be rejected and old at once; a port and a host can run out; the passes of one deployment make the hosts' scores differ for the other.  With two hosts a ranking is one insertion; `LastResort` is proved for any number |
| `sched_converges` | a deployment of 1 task that is upgraded, becomes 2 tasks or none; 2 workers of 1 master, 1 host of room 2, 1 change, 1 restart, 1 drain | old and new tasks share the host; the two passes, of the same or of different configurations, stand in every pair of phases |
| `agent_keeps` | 1 task of three definitions (docker, bash, docker with a monitor), 2 runners, a queue of 1, 1 more attempt, 2 changes with 1 fault of any kind or 3 changes without | the task is issued over its own unscheduled record; a start and a stop of it run at once; the queue is full; attempts are counted up to the bound by restarts after each grace period.  The safety properties are proved for any number of changes and faults |
| `observers` | 1 host, 2 tasks, 1 check that both have, 3 events, 1 service, 1 client, 2 edits or failed calls | two tasks placed and one gone are 3 events; so are one placed, its process ended and its check passing, or one placed, its check passing and a put that fails or is the agent's; `Tolerance` is 1 for the code's 3, as one failure is a warning and two are a failure |
| `agent_restarts` | the same with 1 definition, 1 change and starts that may take longer than the grace period | one failed start |

The capacities of the channels (100, 50 and 50 in the code) are constants; the
runs take them so small that they fill up.  `MaxChanges`, `MaxFailures` (of
`DefaultScheduler`), `MaxRejects`, `MaxDrains`, `MaxRestarts`, `Budgets`, `MaxEvents`, `MaxEdits` count what the environment may still
do; what the program itself does is never bounded except by `MaxEnded`, the
watchers that may be late (the acquisition waits at the bound).

Deadlock is checked except in `locks_solo`, `locks_faults` and `master_safe`, where
the system may end: all masters dead or stopped.

## Fairness

- `SchedulerLocks`: every goroutine that can go on does.  `sync.Mutex` hands the
  mutex to every waiter in the end (its starvation mode), hence strong fairness
  of `LockBegin` and `DeferredUnlock`; the library's Lock returns after
  `LockWaitTime` at the latest because `LockTryOnce` is set; Schedule returns; a
  session that nobody renews lapses.  No request, stop or fault is ever forced.
- `Master`: every goroutine runs on, and a `select` with several cases ready
  takes each of them in the end (Go picks at random).  The timer's dispatch
  happens in the end while the monitor is in its select, whatever the queue and
  the workers are at.  Receiving an event is not forced, nor that one is
  emitted: what an event would start the timer starts later.  A deployment's
  lock that is free time and again is had in the end, and found held in the end
  (two conditions of strong fairness per deployment): `schedule` sleeps a random
  time before it tries (`master.go:145-147`), and a watcher or a sibling's Unlock
  does not hit between Lock and IsHeld every time.  Nothing forces a Lock call to
  be refused or to give up, a flag to fall, or Stop.
- `Agent`: the loop syncs at its interval and goes on, each runner goes on, the
  grace period ends, Consul runs the checks of registered tasks, the monitors of
  the health agent report.  A `select`
  with the queue and `stopCh` takes from the queue as long as the agent is not
  stopped.  Nothing else is forced: no start fails, no container dies, nothing
  is issued.  `Slow` FALSE keeps a grace period going until a pending start is
  done: the executor gets no more than the grace period for the command
  (`executors.go:86`, `157`), but the wait in the queue and pulling an image, up
  to fifteen minutes (`executors.go:16`), come on top, and starts that long are
  outside these runs.
- `DefaultScheduler`: a pass that began goes on; a deployment is asked for again
  and again (the master dispatches all each minute; `Settles` is the reason to
  believe it); agents sync and publish at their interval, and runners empty
  their queue.
- `HealthAgent`: the loop of each host syncs every thirty seconds, and each
  monitor checks at its interval and puts what it found.
- `Discovery`: the loop goes on wherever it does not block, and so does a poll;
  a waiter gets a read-write lock that comes free time and again.  The send on
  `changes` has no step at all, since nothing receives.

## What is proved

For every number of masters, workers, services, deployments, hosts, tasks,
runners, values and every capacity, from the named ASSUMEs of the modules
(numbers are naturals, the "nobody" values are not members of the sets they
stand apart from, deployments, hosts and runners are finitely many):

- `SchedulerLocksProofs!TypeCorrect`, `NoLockLeaks`: `Spec => []TypeOK` and
  `Spec => []NoLeakedLock`, with Stop and all faults.  `NoLeakedLock`
  needs only the typing beside it (`NoLeakInv`), because the one step that sets
  the library's flag puts its worker past Lock and the one step that takes a
  worker from there clears the flag.  The typing needs two facts more: a worker
  with a request knows its service, and the end of a current acquisition can
  still be counted.
- `ExclusiveScheduling`, `SchedulingUnderTheKey`, `LocksImplementRight`: under
  `CalmSpec` (no Stop, no faults) and the assumption `SoleAttempt` that at most
  one attempt at a service's lock per wrapper can meet another master's (each
  master has one worker, or there is one master), mutual exclusion, scheduling
  under the key, and the refinement of `ScheduleRight`.  The strengthening ties
  `holder`, `libHeld` and `held` to each other and to the worker past the lock.
  Without the assumption the statements are false: `locks_default`.
- `ExclusiveDespiteDeaths`, `LocksImplementRightDespiteDeaths`: the same under
  `KeptSpec`, where masters crash, the sessions of the dead and of unanswered
  releases lapse, and calls fail, for masters of one worker each (`OneEach`).  The
  invariant `KeptInv` speaks of living masters only: a wrapper's flag implies the
  library's and that one the key, the workers of the dead are gone, and a worker
  in Schedule has the library's lock.  A key that a dead master or an unanswered
  release leaves behind keeps the others out until it lapses, and nobody schedules
  under it.  `OneEach` is needed: under `KeptSpec` TLC shows even a single master of
  three workers scheduling a service twice at once, since an unanswered release
  leaves a key that the next worker waits for in vain, and that worker then gives
  back what a third one acquired.  `KeptSpec` leaves out `SessionLost` and Stop,
  after which a Schedule that runs goes on without the key.
- `SchedulerQueueProofs!QueueTypeCorrect`, `QueueUnique`, `QueueDropsNothing`.
  `Unique` is kept by `DoEnqueue` because removing a value from a duplicate-free
  sequence and appending it leaves it duplicate-free; `NothingDropped` follows
  action by action.
- `QueueLoopMovesToEnd`: `Spec => []LoopMovesToEnd`, for queues of any length.  The
  loop is a recursive function from the number of steps to the slice.  `LoopRun`
  shows that it takes the values the loop's body gives it, and `LoopDeletes` that
  on a unique queue the slice stays as it is up to the value and then has what
  follows moved up for good: the value is met once, so that nothing is deleted
  twice.  Both are inductions over the steps; the library's induction theorems
  take an operator, which cannot be instantiated here, and `IterationProofs` gets
  the same for sets from its theorem on minimal elements.
- `MasterProofs!MasterNeverBackwards`: `Spec => NeverBackwards`, for a deployment
  whose Lock calls have not given up (`contested`) in a master that was not
  stopped.  The property is not inductive.  The invariant adds, under the same
  two conditions, that one worker at a time is past the lock of a deployment
  (`OneHolder`) and that the library has the lock as long as one is
  (`LockTaken`), both stated as `MasterOneHolder`; that the revision a worker read
  under the lock is at least the one applied; and, without conditions, that
  nothing unknown is applied.  The refused calls and the flags that fall need no
  condition: a refused worker unlocks nothing, and one whose flag fell unlocks
  only what it locked itself.
- `MasterQueueProofs!MasterTypeCorrect`, `MasterOneFuture`: the types of a master,
  and that its futures stay paired with the workers that wait, also when a worker
  leaves the select after Stop.  The lemmas of `SchedulerQueueProofs` are used
  through `INSTANCE`.
- `AgentProofs!AgentTypeCorrect`, and under `~Slow` (a start takes less than the
  grace period) `AgentOneStart` and `AgentAttemptsBounded`.  The invariant says
  where the starts of a task can be: in the loop's hands, in the queue or with a
  runner; that there is at most one, and the task in its grace period, unless a
  late stop took its TaskState; and that a start is pending only while the
  attempts counted leave room for it.  With `Slow` the statements are false
  (known limits).
- `DefaultSchedulerProofs!SchedulerTypeCorrect`, with no assumption beyond the
  ASSUMEs, and `SchedulerMinKept`: its invariant `CountOK` says that by the
  counters there are never more tasks left than the map holds, however often a
  task was counted, and that scaling down begins below that number, so that
  both loops stop no lower than the minimum.
- `DefaultSchedulerProofs!SchedulerPassFits`: under `Alone`, every worker has a
  master of its own.  The invariant `PassInv` follows a host through a pass: as
  many tasks as were placed on it are missing from its room in the view, and
  the ports are reserved.  With two workers of one master a sync of one takes
  back what the other reserved, and the statement is false; `sched_pass` has one
  worker for that reason.
- `DefaultSchedulerProofs!SchedulerLastResort`: `Spec => LastResort`, for any number
  of hosts.  Each of the three ways in which `rank` inserts keeps the host with the
  worst score last (`InsertRanks`), although not the others in order; a ranking of
  all hosts has each of them (`RankRanks`); and the scheduler takes the last one
  only when none before it fits (`SelectsLast`).
- `ObserversProofs!ObserversTypeCorrect`, `EntriesBacked`: the types of both agents,
  and that every entry of a health agent has a running monitor.  The monitors are a
  bag, for which two lemmas say what adding and changing a monitor leaves in it; a
  sync starts the monitor of an entry in the step that makes the entry, and a
  monitor that goes on keeps its host, task and check.

Only model-checked:

- liveness under fairness, which the prover does not reach: `RequestEnds`,
  `KeyComesFree`, `Settles`, `Converges`, `HealthyOrGivenUp`, `StopsUnscheduled`,
  `Covered`, `Settled`, `AnswersUntilFound`.

All other properties of the passing runs are theorems.

## Known limits of the code

Met while modelling.  Three are runs (above); the others follow from the lines named and
are left to the reader of the code.

- Stopping a master (`lockers.go:61-65`) gives its locks back while its workers
  are in Schedule, so that another worker, of this or another master, may
  schedule the same service.  A worker that gave up waiting does the same to its
  sibling (`master.go:156`), and takes the sibling's flag for its own
  (`master.go:158`).  In both cases a worker may apply the revision it read
  before after a sibling applied a newer one; the next dispatch repairs it.
- After Stop a future of a worker that has quit can be the next one in the queue;
  the goroutine then blocks in the send to it (`queue.go:55`).
- The queue is last in first out and the timer fills it whatever its length: a
  master that is asked faster than its workers schedule may never get to the
  oldest request.  `Settles` assumes a queue that is empty time and again.
- The watcher of an earlier acquisition (`consul_lock.go:25-28`) may clear the
  flag of a later one; the worker then drops its request.
- `dispatchAll` returns at the first listed deployment that cannot be read
  (`master.go:102-105`), so that those after it are never asked for; `Settles`
  says so by speaking of the ones reached.
- A deployment taken off a cluster's list while a request for it is queued is
  scheduled after the collection, and stays until the next change.
- A host the master knew before it was drained stays in its view
  (`scheduler.go:52-56`) and is still given tasks; and `PublishState` puts a host
  record that undoes the drain (`agent.go:191-214`).
- `syncHosts` replaces what `updateHost` reserved by what the agent published
  before it noticed the task; the next pass may give the same port away.
- `Max` is read nowhere while tasks of two versions coexist: an upgrade has up to
  desired new tasks beside the old ones that are left.
- What is promised of `min` (`readme.md:270`) holds of a pass as it counts the
  tasks it listed (`MinKept`), not of the deployment: a new master that does not
  know a drained host takes that host's tasks away without regard to the minimum
  (`scheduler.go:114-121`), to place them again elsewhere; two passes of one
  upgrade may each remove an old task; a stop that was queued for a rejected
  task deletes the record of one that was scheduled again; and a minimum raised
  after a pass began is not looked at.
- With `min` equal to `desired` an upgrade never starts: nothing old may be
  removed, nothing new is missing.  `Converges` has room below `desired`.
- An unscheduled task whose id is placed on another host before its agent looked
  is run by the first host for ever: agents look only at records that name them.
- A late stop (`agent.go:153-154`) deletes the TaskState of a task that was
  scheduled again: its start can be queued a second time while the first is
  pending, against the comment at `agent.go:470-471`.  The same happens to a start
  that takes longer than the grace period.  Without the exception `OneStart` is
  false.
- A start and a stop of one task can run in two runners at once, and a start can
  still be queued when an earlier stop deletes the record: the process then runs
  on without a record.  `StopsUnscheduled` excepts these cases.
- A rejection puts the record as it was listed (`agent.go:293`): a task that was
  unscheduled since is scheduled again, as rejected, until the next pass.
- A task without checks is healthy as soon as it is STARTED, and a healthy sync
  sets its attempts to 0 (`agent.go:226-229`), which is what `agent.go:281` tests
  for "has not been started": it is started again after every grace period, and
  with a port of its own it is rejected, because that port is taken, by itself.
- docker cannot stop a container it never had; `stop` then returns before it
  deletes the record, which stays.
- `GetDeployment` says not found on every error (`consul_api.go:191-194`), and
  `syncTask` rejects the task; a task whose deployment was deleted is never
  stopped (`agent.go:254-260` returns before the stop).
- `DelHost` is deferred before the agent has asked for its name
  (`agent.go:403-405`), so that it deletes the host "".
- `AgentState.get` writes the map without the lock (`state.go:45`) while runners
  and the loop use it, which the Go runtime may end the process for; that end is
  the crash in `Agent`.
- `rank` (`rankers.go:27`) inserts before the element it has just passed over:
  hosts scored 5, 1 and then 3 come out as 3, 5, 1.  None is lost and the worst
  is last, which is all that `LastResort` says.
- Discovery's `sync` sends on `changes`, which nothing reads, while it holds the
  lock `Listen` needs (`discovery.go:137`): with the first service it finds it
  stops for good, and so does every poll.  What `sync` does with a second list
  of endpoints, the change index and the subscribers are never reached.
- The agent and the health agent subscribe to `state::state/hosts/<host>`, under
  which nothing is put: what starts a sync is the timer and, for the agent, a
  check that fails.
- A monitor that is taken out of the map is not stopped (`health/agent.go:102`).
  When its task is on another host by then, it finds the task failing for ever
  and puts that over what the new host's monitor puts; `Settled` speaks of
  monitors that agree.  `Stop` closes a channel that was never made
  (`health/agent.go:57`), and a panic ends the process.
- The health agent takes the URL of a check as it was written, without the port
  filled in, and leaves the container's ID empty (`health/agent.go:76-84`), so
  that such checks fail whatever the task does.
- A stop that waits in the agent's queue deletes the record of a task that was
  scheduled again in the meantime (`agent.go:153`), although `agent.go:320` speaks
  of a task that is not scheduled; the next pass schedules it again.
- The error of `PutTask` is not looked at (`scheduler.go:117`, `192`): the
  counters of the pass go on as if the put had been done.  The failed put of a
  surplus task that was scaled down leaves a gap like the one of `sched_count`.
- `selectPort` does not reserve the port it picks and may draw 0, so that two
  ports of a host can be equal (`scheduler.go:215`); past 65535 it starts over at
  8000, below the range it keeps to (line 231).
- A rejection does not make the master schedule again: it emits no event the
  master listens to; the timer does.

## What is not modelled

- Ports the scheduler picks itself (`selectPort`).  A picked port goes into the
  task's record and is read by no other decision of the scheduler, so that no
  state of the models would depend on it.
- Resources other than one unit per task, and with them the weights of `score`.
- Tasks of several containers; setup and teardown commands (`RunTeardown` runs
  the setup, `task_definition.go:119`).
- Records as text (encoding, keys, JSON), flags, logging, HTTP routes other than
  the poll, and what docker and bash do inside their commands: pure I/O.
- The in-memory backend, which serves tests and demonstrations.  Its locks
  exclude nobody; its `ListTasks` calls `GetTaskState`, which takes the write
  lock, while it has the read lock, and never returns when `Running` or
  `Failing` is set.
- The pattern match of events.  An event starts earlier what a timer starts
  anyway, and the models let it start at any time; only for the config keys do
  they follow what is lost (`Master`).
- `PutTask` registers a task's checks with the Consul agent of the process that
  puts it; `Agent` takes them to see the task's process.

## The plan

1. Locks, with `ScheduleRight` as what they promise; proofs.
2. Queue; proofs.
3. Master around the queue, with the wrapper its workers share; proofs.
4. Default scheduler with agents and operators as its environment, and the
   rankers; proofs.
5. Agent: sync, runners, restarts, the saved file, rejection, the states that
   monitors put; proofs.
6. Health agent and discovery, beside each other.

All are done, and every safety property of the passing runs is proved.  What
could follow: mutual exclusion and an unconditional `NeverBackwards` for masters
of several workers once a worker gives back only what it acquired, a minimum of
the deployment once the passes agree on what they took away, dynamic ports once
the scheduler reserves them, and the part of discovery's `sync` that a reader on
`changes` would make reachable.
