-------------------------- MODULE DefaultScheduler --------------------------
(***************************************************************************)
(* The scheduler that the workers of a master share                        *)
(* (scheduler/scheduler.go): its view of the hosts, and the phases of      *)
(* Schedule, interleaved with the agents, the operators, the other workers *)
(* and the other masters.                                                  *)
(*                                                                         *)
(* A task is <<deployment, version, instance>>, its id.  It takes one unit *)
(* of a host's resources and the fixed port of its deployment, if it has   *)
(* one.  Left out: the ports the scheduler picks itself.                   *)
(*                                                                         *)
(* Nothing here relies on a deployment's lock: two passes of one deployment*)
(* may run at once, as after a Lock call that gave up or in Stop (Master,  *)
(* SchedulerLocks).  An agent is what Schedule sees of it: it notices the  *)
(* tasks of its host, deletes those no longer scheduled, rejects tasks and *)
(* publishes what is left of the host (agent/agent.go).                    *)
(***************************************************************************)
EXTENDS Integers, FiniteSets, Rankers

CONSTANTS
  Deployments,
  Masters,
  Workers,
  MasterOf,      (* worker -> its master                                   *)
  Hosts,
  None,          (* no host, no deployment                                 *)
  FixedPort,     (* deployment -> its host port, or NoPort                 *)
  NoPort,
  Packing,       (* deployments with the scheduler "binpack"; the others   *)
                 (* spread their tasks                                     *)
  Capacity,      (* tasks a host has resources for                         *)
  Configs,       (* deployment -> what operators may ask for: desired, min,*)
                 (* max, version                                           *)
  FirstConfig,   (* ... and what they begin with                           *)
  MaxVersion, MaxInstances,  (* bounds on versions and on desired          *)
  MaxChanges,    (* bound: configuration changes in a behaviour            *)
  MaxRejects,    (* bound: rejected tasks                                  *)
  MaxDrains,     (* bound: hosts an operator drains                        *)
  MaxFailures,   (* bound: calls to Consul that fail                       *)
  MaxRestarts    (* bound: masters that stop or crash and start again      *)

ASSUME CapacityAssumption == Capacity \in Nat
ASSUME NoneAssumption == None \notin Hosts /\ None \notin Deployments
ASSUME MasterAssumption == MasterOf \in [Workers -> Masters]
ASSUME InstancesAssumption == MaxInstances \in Nat /\ MaxVersion \in Nat \ {0}
ASSUME DeploymentsAssumption == IsFiniteSet(Deployments)
ASSUME HostsAssumption == IsFiniteSet(Hosts)
ASSUME BudgetAssumption ==
  {MaxChanges, MaxRejects, MaxDrains, MaxFailures, MaxRestarts} \subseteq Nat

TaskIds == Deployments \X (1..MaxVersion) \X (0..(MaxInstances - 1))
TaskId(d, v, i) == <<d, v, i>>
Dep(k) == k[1]
Version(k) == k[2]

(* Deployment.Validate (api/deployment.go:20-43). *)
Config == [desired : 0..MaxInstances, min : Nat, max : Nat, version : 1..MaxVersion]
ValidConfig(c) == c.min <= c.max /\ c.min <= c.desired /\ c.desired <= c.max

ASSUME ConfigsAssumption ==
  \A d \in Deployments :
    /\ FirstConfig[d] \in Configs[d]
    /\ \A c \in Configs[d] : c \in Config /\ ValidConfig(c)

VARIABLES
  (* in Consul *)
  config,     (* deployment -> its configuration                           *)
  tasks,      (* task id -> its record                                     *)
  published,  (* host -> what its record says                              *)
  (* the agents *)
  agent,      (* host -> its TaskState and what it is about to do          *)
  (* the schedulers *)
  view,       (* master -> DefaultScheduler.hosts                          *)
  pc,         (* worker -> its phase of Schedule                           *)
  job,        (* worker -> the locals of Schedule                          *)
  budget      (* how often the environment may still act: see the bounds   *)

vars == <<config, tasks, published, agent, view, pc, job, budget>>

Absent == [host |-> None, scheduled |-> FALSE, rejected |-> FALSE]
TaskRecord == [host : Hosts \union {None}, scheduled : BOOLEAN, rejected : BOOLEAN]
Placed(h) == [host |-> h, scheduled |-> TRUE, rejected |-> FALSE]

Ports == {FixedPort[d] : d \in Deployments} \ {NoPort}
PortsOf(d) == {FixedPort[d]} \ {NoPort}

(* A host of the view: what ListHosts said, less what was placed since.    *)
HostView == [known : BOOLEAN, free : Int, ports : SUBSET Ports]
Unknown == [known |-> FALSE, free |-> 0, ports |-> {}]

NoMap == [k \in {} |-> Absent]
NoConfig == [desired |-> 0, min |-> 0, max |-> 0, version |-> 1]
NoJob == [dep |-> None, cfg |-> NoConfig, todo |-> {}, map |-> NoMap,
          count |-> 0, removed |-> 0, i |-> 0, host |-> None, added |-> {}]

Phases == {"idle", "list", "clean", "down", "up", "place"}
Resting == [w \in Workers |-> "idle"]

(* Types.  taskMap (map) holds what ListTasks returned or Schedule placed, *)
(* scheduled tasks of the deployment all; the cleanup walks a part of it.  *)
TypeOK ==
  /\ \A d \in Deployments : config[d] \in Configs[d]
  /\ tasks \in [TaskIds -> TaskRecord]
  /\ published \in [Hosts -> [draining : BOOLEAN, free : Int, ports : SUBSET Ports]]
  /\ agent \in [Hosts -> [running : SUBSET TaskIds, rejecting : SUBSET TaskIds,
                          stopping : SUBSET TaskIds]]
  /\ view \in [Masters -> [Hosts -> HostView]]
  /\ pc \in [Workers -> Phases]
  /\ \A w \in Workers :
       /\ pc[w] # "idle" => job[w].dep \in Deployments /\ job[w].cfg \in Configs[job[w].dep]
       /\ pc[w] = "place" => job[w].host \in Hosts
       /\ DOMAIN job[w].map \subseteq {k \in TaskIds : Dep(k) = job[w].dep}
       /\ \A k \in DOMAIN job[w].map :
            job[w].map[k] \in TaskRecord /\ job[w].map[k].scheduled /\ job[w].map[k].host \in Hosts
       /\ job[w].todo \subseteq DOMAIN job[w].map
       /\ job[w].count \in Nat /\ job[w].removed \in Nat /\ job[w].i \in Int
       /\ job[w].added \subseteq DOMAIN job[w].map
  /\ budget \in [changes : 0..MaxChanges, rejects : 0..MaxRejects, drains : 0..MaxDrains,
                 failures : 0..MaxFailures, restarts : 0..MaxRestarts]

(* The agents have published empty hosts; no master has looked yet.        *)
Init ==
  /\ config = [d \in Deployments |-> FirstConfig[d]]
  /\ tasks = [k \in TaskIds |-> Absent]
  /\ published = [h \in Hosts |-> [draining |-> FALSE, free |-> Capacity, ports |-> {}]]
  /\ agent = [h \in Hosts |-> [running |-> {}, rejecting |-> {}, stopping |-> {}]]
  /\ view = [m \in Masters |-> [h \in Hosts |-> Unknown]]
  /\ pc = Resting
  /\ job = [w \in Workers |-> NoJob]
  /\ budget = [changes |-> MaxChanges, rejects |-> MaxRejects, drains |-> MaxDrains,
               failures |-> MaxFailures, restarts |-> MaxRestarts]

schedulerVars == <<view, pc, job>>
worldVars == <<config, published, agent>>

Spend(what) == budget[what] > 0 /\ budget' = [budget EXCEPT ![what] = @ - 1]

-----------------------------------------------------------------------------
(* The operators: apply and scale put a configuration, drain marks a host. *)

Configure(d, c) ==
  /\ c # config[d]
  /\ Spend("changes")
  /\ config' = [config EXCEPT ![d] = c]
  /\ UNCHANGED <<tasks, published, agent, schedulerVars>>

Drain(h) ==
  /\ ~published[h].draining
  /\ Spend("drains")
  /\ published' = [published EXCEPT ![h].draining = TRUE]
  /\ UNCHANGED <<config, tasks, agent, schedulerVars>>

-----------------------------------------------------------------------------
(* The agents *)

(* sync lists the tasks of the host.  Each enters the TaskState; one that  *)
(* is no longer scheduled is queued to be stopped, and one with too many   *)
(* attempts or a port that is taken is about to be rejected.               *)
AgentSees(h, k) ==
  /\ tasks[k].host = h
  /\ \/ /\ ~tasks[k].scheduled
        /\ k \notin agent[h].stopping
        /\ agent' = [agent EXCEPT ![h].running = @ \union {k}, ![h].stopping = @ \union {k}]
        /\ UNCHANGED budget
     \/ /\ tasks[k].scheduled
        /\ k \notin agent[h].running
        /\ agent' = [agent EXCEPT ![h].running = @ \union {k}]
        /\ UNCHANGED budget
     \/ /\ tasks[k].scheduled /\ ~tasks[k].rejected
        /\ k \notin agent[h].rejecting
        /\ Spend("rejects")
        /\ agent' = [agent EXCEPT ![h].running = @ \union {k}, ![h].rejecting = @ \union {k}]
  /\ UNCHANGED <<config, tasks, published, schedulerVars>>

(* The record the sync read is put back, rejected: scheduled, and here.    *)
AgentRejects(h, k) ==
  /\ k \in agent[h].rejecting
  /\ agent' = [agent EXCEPT ![h].rejecting = @ \ {k}]
  /\ tasks' = [tasks EXCEPT ![k] = [Placed(h) EXCEPT !.rejected = TRUE]]
  /\ UNCHANGED <<config, published, schedulerVars, budget>>

(* A runner gets to the stop: the record goes, whatever it says by now.    *)
AgentStops(h, k) ==
  /\ k \in agent[h].stopping
  /\ agent' = [agent EXCEPT ![h].running = @ \ {k}, ![h].stopping = @ \ {k}]
  /\ tasks' = [tasks EXCEPT ![k] = Absent]
  /\ UNCHANGED <<config, published, schedulerVars, budget>>

(* PublishState.  The host it puts was never draining: a drain is undone.  *)
Publication(h) ==
  [draining |-> FALSE,
   free |-> Capacity - Cardinality(agent[h].running),
   ports |-> UNION {PortsOf(Dep(k)) : k \in agent[h].running}]

AgentPublishes(h) ==
  /\ published[h] # Publication(h)
  /\ published' = [published EXCEPT ![h] = Publication(h)]
  /\ UNCHANGED <<config, tasks, agent, schedulerVars, budget>>

-----------------------------------------------------------------------------
(* Schedule *)

Goto(w, from, to) == pc[w] = from /\ pc' = [pc EXCEPT ![w] = to]
Known(w, h) == view[MasterOf[w]][h].known

(* PutTask; its error is not looked at.                                    *)
Put(k, record) ==
  \/ tasks' = [tasks EXCEPT ![k] = record] /\ UNCHANGED budget
  \/ Spend("failures") /\ UNCHANGED tasks

(* syncHosts adds and overwrites; it skips draining hosts and never takes  *)
(* one out.                                                                *)
Synced(m, h) ==
  IF published[h].draining
  THEN view[m][h]
  ELSE [known |-> TRUE, free |-> published[h].free, ports |-> published[h].ports]

(* Begin, with the configuration the worker read before, and sync the      *)
(* hosts.  With no host at all Schedule returns.                           *)
Begin(w, d) ==
  LET seen == [h \in Hosts |-> Synced(MasterOf[w], h)] IN
  /\ pc[w] = "idle"
  /\ view' = [view EXCEPT ![MasterOf[w]] = seen]
  /\ \E h \in Hosts : seen[h].known
  /\ pc' = [pc EXCEPT ![w] = "list"]
  /\ job' = [job EXCEPT ![w] = [NoJob EXCEPT !.dep = d, !.cfg = config[d]]]
  /\ UNCHANGED <<tasks, worldVars, budget>>

(* Schedule returns.                                                       *)
Return(w) ==
  /\ pc' = [pc EXCEPT ![w] = "idle"]
  /\ job' = [job EXCEPT ![w] = NoJob]

(* The task definition or the list of tasks cannot be read.                *)
ReadFails(w) ==
  /\ pc[w] = "list"
  /\ Spend("failures")
  /\ Return(w)
  /\ UNCHANGED <<tasks, view, worldVars>>

(* ListTasks: the scheduled tasks of the deployment, as they are now.      *)
ListedAll(w) == {k \in TaskIds : Dep(k) = job[w].dep /\ tasks[k] # Absent}
Listed(w) == {k \in TaskIds : Dep(k) = job[w].dep /\ tasks[k].scheduled}

List(w) ==
  LET found == Listed(w) IN
  /\ Goto(w, "list", "clean")
  /\ job' = [job EXCEPT ![w].todo = found, ![w].map = [k \in found |-> tasks[k]],
                        ![w].count = Cardinality(found)]
  /\ UNCHANGED <<tasks, view, worldVars, budget>>

Without(map, k) == [j \in DOMAIN map \ {k} |-> map[j]]
Unscheduled(record) == [record EXCEPT !.scheduled = FALSE]
One(b) == IF b THEN 1 ELSE 0

(* One task of the cleanup loop, in any order (a Go map).  The three tests *)
(* follow one another without a continue: a task may count more than once. *)
Gone(w, k) == One(~Known(w, job[w].map[k].host)) + One(job[w].map[k].rejected)
OldAtMin(w, k, left) == left >= job[w].cfg.min /\ Version(k) # job[w].cfg.version
Old(w, k, left) == left > job[w].cfg.min /\ Version(k) # job[w].cfg.version
Left(w) == job[w].count - job[w].removed

Clean(w, k) ==
  LET gone == Gone(w, k)
      old  == Old(w, k, Left(w) - gone)
  IN
  /\ pc[w] = "clean"
  /\ k \in job[w].todo
  /\ IF gone > 0 \/ old
     THEN /\ job' = [job EXCEPT ![w].todo = @ \ {k}, ![w].map = Without(@, k),
                                ![w].removed = @ + gone + One(old)]
          /\ Put(k, Unscheduled(job[w].map[k]))
     ELSE /\ job' = [job EXCEPT ![w].todo = @ \ {k}]
          /\ UNCHANGED <<tasks, budget>>
  /\ UNCHANGED <<pc, view, worldVars>>

(* By the counters there are too many (scaling down leaves at least the    *)
(* desired number, so the test for too few fails after it), too few, or    *)
(* just enough.                                                            *)
Cleaned(w) ==
  /\ pc[w] = "clean"
  /\ job[w].todo = {}
  /\ \/ /\ Left(w) > job[w].cfg.desired
        /\ pc' = [pc EXCEPT ![w] = "down"]
        /\ job' = [job EXCEPT ![w].i = Left(w) - 1]
     \/ /\ Left(w) < job[w].cfg.desired
        /\ pc' = [pc EXCEPT ![w] = "up"]
        /\ job' = [job EXCEPT ![w].i = 0]
     \/ /\ Left(w) = job[w].cfg.desired
        /\ Return(w)
  /\ UNCHANGED <<tasks, view, worldVars, budget>>

(* Scaling down walks the instances of the current version, from the       *)
(* number left to the desired one.  An instance that is not there removes  *)
(* nothing.                                                                *)
Instance(w) == TaskId(job[w].dep, job[w].cfg.version, job[w].i)
SurplusTooFew(w) == job[w].i > job[w].cfg.desired
Surplus(w) == job[w].i > job[w].cfg.desired - 1

Down(w) ==
  /\ pc[w] = "down"
  /\ Surplus(w)
  /\ IF Instance(w) \in DOMAIN job[w].map
     THEN /\ job' = [job EXCEPT ![w].map = Without(@, Instance(w)), ![w].removed = @ + 1,
                                ![w].i = @ - 1]
          /\ Put(Instance(w), Unscheduled(job[w].map[Instance(w)]))
     ELSE /\ job' = [job EXCEPT ![w].i = @ - 1]
          /\ UNCHANGED <<tasks, budget>>
  /\ UNCHANGED <<pc, view, worldVars>>

DownDone(w) ==
  /\ pc[w] = "down"
  /\ ~Surplus(w)
  /\ Return(w)
  /\ UNCHANGED <<tasks, view, worldVars, budget>>

(* Scaling up walks the instances below desired.                           *)
Fits(w, h) ==
  /\ Known(w, h)
  /\ view[MasterOf[w]][h].free > 0
  /\ PortsOf(job[w].dep) \intersect view[MasterOf[w]][h].ports = {}

Missing(w) == job[w].i < job[w].cfg.desired /\ Instance(w) \notin DOMAIN job[w].map

(* SpreadRanker and PackRanker, which turns the score around.              *)
Score(w) ==
  LET free(h) == view[MasterOf[w]][h].free IN
  [h \in Hosts |-> IF job[w].dep \in Packing THEN -free(h) ELSE free(h)]

(* selectHost, under the read lock: the first host of the ranking that     *)
(* fits.                                                                   *)
SelectHost(w, h) ==
  /\ Goto(w, "up", "place")
  /\ Missing(w)
  /\ Fits(w, h)
  /\ \E ranking \in Rankings({g \in Hosts : Known(w, g)}, Score(w)) :
       \E i \in DOMAIN ranking :
         ranking[i] = h /\ \A j \in 1..(i - 1) : ~Fits(w, ranking[j])
  /\ job' = [job EXCEPT ![w].host = h]
  /\ UNCHANGED <<tasks, view, worldVars, budget>>

(* The instance is there, or no host fits it: on to the next.              *)
UpNext(w) ==
  /\ pc[w] = "up"
  /\ job[w].i < job[w].cfg.desired
  /\ Missing(w) => \A h \in Hosts : ~Fits(w, h)
  /\ job' = [job EXCEPT ![w].i = @ + 1]
  /\ UNCHANGED <<tasks, pc, view, worldVars, budget>>

(* updateHost, under the write lock, and the put.                          *)
ReserveRoomOnly(w, h) == [view EXCEPT ![MasterOf[w]][h].free = @ - 1]
Reserve(w, h) ==
  LET seen == view[MasterOf[w]][h] IN
  [view EXCEPT ![MasterOf[w]][h] =
     [seen EXCEPT !.free = @ - 1, !.ports = @ \union PortsOf(job[w].dep)]]

Place(w) ==
  LET h == job[w].host
      k == Instance(w)
  IN
  /\ Goto(w, "place", "up")
  /\ view' = Reserve(w, h)
  /\ Put(k, Placed(h))
  /\ job' = [job EXCEPT ![w].i = @ + 1, ![w].host = None, ![w].added = @ \union {k},
                        ![w].map = [j \in DOMAIN @ \union {k} |-> IF j = k THEN Placed(h) ELSE @[j]]]
  /\ UNCHANGED worldVars

UpDone(w) ==
  /\ pc[w] = "up"
  /\ ~(job[w].i < job[w].cfg.desired)
  /\ Return(w)
  /\ UNCHANGED <<tasks, view, worldVars, budget>>

ScheduleStep(w) ==
  \/ List(w)
  \/ \E k \in job[w].todo : Clean(w, k)
  \/ Cleaned(w)
  \/ Down(w) \/ DownDone(w)
  \/ \E h \in Hosts : SelectHost(w, h)
  \/ UpNext(w) \/ Place(w) \/ UpDone(w)

(* A master stops with its workers in the middle, or the Go runtime ends   *)
(* it: Schedule reads the map of hosts without the lock that syncHosts     *)
(* writes it under (scheduler.go:75, 114).  Another one takes its place,   *)
(* with a view of its own.                                                 *)
Restart(m) ==
  /\ Spend("restarts")
  /\ view' = [view EXCEPT ![m] = [h \in Hosts |-> Unknown]]
  /\ pc' = [w \in Workers |-> IF MasterOf[w] = m THEN "idle" ELSE pc[w]]
  /\ job' = [w \in Workers |-> IF MasterOf[w] = m THEN NoJob ELSE job[w]]
  /\ UNCHANGED <<tasks, worldVars>>
-----------------------------------------------------------------------------
AgentStep(h) ==
  \/ AgentPublishes(h)
  \/ \E k \in TaskIds : AgentSees(h, k) \/ AgentRejects(h, k) \/ AgentStops(h, k)

Next ==
  \/ \E d \in Deployments : \E c \in Configs[d] : Configure(d, c)
  \/ \E h \in Hosts : Drain(h) \/ AgentStep(h)
  \/ \E w \in Workers :
       \/ \E d \in Deployments : Begin(w, d)
       \/ ReadFails(w)
       \/ ScheduleStep(w)
  \/ \E m \in Masters : Restart(m)

Spec == Init /\ [][Next]_vars

(* A pass that began goes on.  Every deployment is asked for again and     *)
(* again: the master dispatches all of them each minute (Master), and a    *)
(* worker that got the lock begins.  Agents sync and publish every         *)
(* interval, and their runners empty the queue.                            *)
Fairness ==
  /\ \A w \in Workers : WF_vars(ScheduleStep(w))
  /\ \A d \in Deployments : SF_vars(\E w \in Workers : Begin(w, d))
  /\ \A h \in Hosts :
       /\ WF_vars(AgentPublishes(h))
       /\ \A k \in TaskIds :
            WF_vars(AgentSees(h, k) \/ AgentStops(h, k) \/ AgentRejects(h, k))

FairSpec == Spec /\ Fairness

-----------------------------------------------------------------------------
ScheduledTasks(d) == {k \in TaskIds : Dep(k) = d /\ tasks[k].scheduled}
Wanted(d) == {TaskId(d, config[d].version, i) : i \in 0..(config[d].desired - 1)}

(* A pass takes away tasks it counts as surplus or old only while it still *)
(* has its minimum left: whatever was lost or rejected, in whatever order  *)
(* the cleanup meets them, and whatever the counters say of it             *)
(* (scheduler.go:110-153; readme.md:270 "the minimum amount the scheduler  *)
(* can drop to").                                                          *)
MinKept ==
  [][\A w \in Workers : \A k \in DOMAIN job[w].map :
        pc'[w] \in {"clean", "down"} /\ Gone(w, k) = 0 /\ k \notin DOMAIN job'[w].map
          => Cardinality(DOMAIN job'[w].map) >= job[w].cfg.min]_vars

(* What one pass places on a host, it places in room and on ports that it  *)
(* has not given away itself (scheduler.go:265-277), while no other worker *)
(* of the same master syncs the hosts under it.                            *)
PassFits ==
  \A w \in Workers, h \in Hosts :
    LET here == {k \in job[w].added : job[w].map[k].host = h} IN
    /\ Cardinality(here) <= Capacity
    /\ Cardinality(here) > 1 => PortsOf(job[w].dep) = {}

(* With the minimum below the desired number, and as long as nothing is    *)
(* rejected or fails, the tasks arrive at exactly the wanted instances of  *)
(* the wanted version, and stay, although two workers pass over the        *)
(* deployment at once, choose the same room and sync the hosts under each  *)
(* other, a master may die in the middle of a pass and a host may be       *)
(* drained for a while.                                                    *)
Converges == <>[](\A d \in Deployments : ScheduledTasks(d) = Wanted(d))

(* False: scheduler_test.go:160, after a pass as many tasks as desired.    *)
CountSettles ==
  \A d \in Deployments : <>[](Cardinality(ScheduledTasks(d)) = config[d].desired)

(* The host with the worst score of all gets a task only when no other one *)
(* fits it (scheduler.go:291-307).  More than that the ranking does not    *)
(* see to: of three hosts the second best may come first.                  *)
LastResort ==
  [][\A w \in Workers :
        pc[w] = "up" /\ pc'[w] = "place" =>
          LET others == {h \in Hosts : Known(w, h)} \ {job'[w].host} IN
          (\A h \in others : Score(w)[h] > Score(w)[job'[w].host])
            => \A h \in others : ~Fits(w, h)]_vars
=============================================================================
