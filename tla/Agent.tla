-------------------------------- MODULE Agent --------------------------------
(***************************************************************************)
(* The agent of one host (agent/agent.go, agent/state.go): its loop syncs  *)
(* the tasks the scheduler issued for the host with what runs there, and   *)
(* queues starts and stops; its runners carry them out.  Around it, the    *)
(* scheduler, the processes and the health checks of Consul.               *)
(*                                                                         *)
(* A task has one container.  Left out: its resources and what the agent   *)
(* publishes of them (DefaultScheduler).                                   *)
(***************************************************************************)
EXTENDS Naturals, Sequences, FiniteSets

CONSTANTS
  Tasks,
  Runners,      (* the goroutines of Agent.runner, Config.Runners of them  *)
  Definitions,  (* what the definition of a task may say                   *)
  MaxAttempts,  (* of the deployment                                       *)
  QueueSize,    (* of the channel from the loop to the runners; 500        *)
  Leaves,       (* what is left of a container when its start fails        *)
  Slow,         (* may a start, with its wait in the queue, take longer    *)
                (* than the grace period?                                  *)
  Budgets       (* bound: in a behaviour, the tasks issued or unscheduled  *)
                (* by the scheduler (changes), and the starts, stops and   *)
                (* calls to Consul that fail, the processes that die and   *)
                (* the agents that end and start again (faults)            *)

(* probed: the container is essential and its executor can tell whether it *)
(* is there, as docker's does and bash's does not.  checked: it has health *)
(* checks.  port: it has a host port of its own.  monitored: the health    *)
(* agent of the host runs its checks as well (HealthAgent).                *)
Definition == [probed : BOOLEAN, checked : BOOLEAN, port : BOOLEAN, monitored : BOOLEAN]

Containers == {"absent", "up", "dead"}

ASSUME BoundsAssumption == MaxAttempts \in Nat /\ QueueSize \in Nat \ {0}
ASSUME ActorsAssumption == Tasks # {} /\ IsFiniteSet(Runners)
ASSUME BudgetAssumption == Budgets \subseteq [changes : Nat, faults : Nat]
ASSUME DefinitionsAssumption == Definitions \subseteq Definition
ASSUME LeavesAssumption == Leaves \subseteq Containers /\ Leaves # {} /\ Slow \in BOOLEAN

VARIABLES
  def,        (* task -> its definition                                    *)
  issued,     (* task -> its record under state/tasks                      *)
  stored,     (* task -> its state under state/health, never deleted       *)
  check,      (* task -> whether its health checks pass                    *)
  container,  (* task -> its container, or its process, on the host        *)
  local,      (* task -> the agent's TaskState                             *)
  saved,      (* the TaskState in agent-state.json                         *)
  queue,      (* actions for the runners                                   *)
  loop,       (* the locals of sync and syncTask                           *)
  runner,     (* runner -> what it is doing                                *)
  late,       (* history: tasks that a stop deleted although they were     *)
              (* scheduled again, about to start, or in the loop's list as *)
              (* scheduled                                                 *)
  crossed,    (* history: tasks of which a start and a stop ran at once,   *)
              (* or whose record a stop deleted with a start yet to come   *)
  budget      (* what the environment may still do: see the bounds         *)

vars == <<def, issued, stored, check, container, local, saved, queue, loop, runner, late, crossed,
          budget>>
history == <<late, crossed>>
consulVars == <<issued, stored, check>>
agentVars == <<local, saved, queue, loop, runner>>

(* A record that names the host.  For the agent a rejected task matters as *)
(* long as it is scheduled.                                                *)
Record == {"absent", "scheduled", "rejected", "unscheduled"}
State == {"pending", "starting", "started", "stopping", "stopped", "exited", "running", "failing"}

(* A TaskState: Attempts, whether State is STARTING, and whether StartedAt *)
(* is less than the grace period ago.  One that is missing is zero to get. *)
TaskStates == [attempts : Nat, starting : BOOLEAN, grace : BOOLEAN]
NoState == [attempts |-> 0, starting |-> FALSE, grace |-> FALSE]

Action == [op : {"start", "stop"}, task : Tasks]
NoTask == CHOOSE t \in Tasks : TRUE
AtRest == [at |-> "wait", todo |-> {}, copy |-> [t \in Tasks |-> "absent"], task |-> NoTask,
           healthy |-> FALSE, lost |-> << >>, op |-> "start"]
Idle == [at |-> "idle", task |-> NoTask]

Steps == {"idle", "start", "run", "ran", "stop", "halt", "delete", "deleted"}

TypeOK ==
  /\ def \in [Tasks -> Definitions]
  /\ issued \in [Tasks -> Record]
  /\ stored \in [Tasks -> State]
  /\ check \in [Tasks -> BOOLEAN]
  /\ container \in [Tasks -> Containers]
  /\ \A t \in Tasks : local[t] \in TaskStates /\ saved[t] \in TaskStates
  /\ queue \in Seq(Action) /\ Len(queue) <= QueueSize
  /\ loop \in [at : {"wait", "next", "probe", "decide", "send"}, todo : SUBSET Tasks,
               copy : [Tasks -> Record], task : Tasks, healthy : BOOLEAN,
               lost : Seq(TaskStates), op : {"start", "stop"}]
  /\ runner \in [Runners -> [at : Steps, task : Tasks]]
  /\ late \subseteq Tasks /\ crossed \subseteq Tasks
  /\ budget \in [changes : Nat, faults : Nat]

Init ==
  /\ def \in [Tasks -> Definitions]
  /\ issued = [t \in Tasks |-> "absent"]
  /\ stored = [t \in Tasks |-> "pending"]
  /\ check = [t \in Tasks |-> FALSE]
  /\ container = [t \in Tasks |-> "absent"]
  /\ local = [t \in Tasks |-> NoState]
  /\ saved = [t \in Tasks |-> NoState]
  /\ queue = << >>
  /\ loop = AtRest
  /\ runner = [r \in Runners |-> Idle]
  /\ late = {}
  /\ crossed = {}
  /\ budget \in Budgets

Spend(what) == budget[what] > 0 /\ budget' = [budget EXCEPT ![what] = @ - 1]

-----------------------------------------------------------------------------
(* The environment *)

(* PutTask registers the task's checks, which begin as critical.           *)
PutTask(t, record) ==
  /\ issued' = [issued EXCEPT ![t] = record]
  /\ check' = [check EXCEPT ![t] = FALSE]

(* The scheduler issues a task, over the record of one it unscheduled, and *)
(* unschedules it.                                                         *)
Issue(t) ==
  /\ issued[t] \in {"absent", "unscheduled"}
  /\ Spend("changes")
  /\ PutTask(t, "scheduled")
  /\ UNCHANGED <<def, history, stored, container, agentVars>>

Unschedule(t) ==
  /\ issued[t] \in {"scheduled", "rejected"}
  /\ Spend("changes")
  /\ PutTask(t, "unscheduled")
  /\ UNCHANGED <<def, history, stored, container, agentVars>>

(* A process dies; its container may stay.                                 *)
Dies(t) ==
  /\ container[t] = "up"
  /\ Spend("faults")
  /\ \E left \in {"absent", "dead"} : container' = [container EXCEPT ![t] = left]
  /\ UNCHANGED <<def, history, consulVars, agentVars>>

(* Consul runs the checks of a registered task.                            *)
CheckRuns(t) ==
  /\ def[t].checked /\ issued[t] # "absent"
  /\ check[t] # (container[t] = "up")
  /\ check' = [check EXCEPT ![t] = ~@]
  /\ UNCHANGED <<def, history, issued, stored, container, agentVars, budget>>

(* A monitor puts what its check found, over whatever the agent had put    *)
(* ("failing" stands for "warning" as well).  Consul's own checks have the *)
(* last word on it, but not on the states the agent is authoritative over. *)
MonitorReports(t) ==
  LET found == IF container[t] = "up" THEN "running" ELSE "failing" IN
  /\ def[t].monitored /\ def[t].checked /\ issued[t] # "absent"
  /\ stored[t] # found
  /\ stored' = [stored EXCEPT ![t] = found]
  /\ UNCHANGED <<def, history, issued, check, container, agentVars, budget>>

(* GetTaskState (consul_api.go:450-486).                                   *)
TaskState(t) ==
  IF \/ stored[t] \in {"stopping", "starting", "exited"}
     \/ ~def[t].checked \/ issued[t] = "absent"
  THEN stored[t]
  ELSE IF check[t] THEN "running" ELSE "failing"

Healthy(t) == TaskState(t) \in {"running", "started"}

-----------------------------------------------------------------------------
(* Starts of a task that are decided, queued or under way.                 *)
Pending(t) ==
  (IF loop.at = "send" /\ loop.op = "start" /\ loop.task = t THEN 1 ELSE 0)
  + Cardinality({i \in DOMAIN queue : queue[i] = [op |-> "start", task |-> t]})
  + Cardinality({r \in Runners : runner[r].at \in {"start", "run", "ran"} /\ runner[r].task = t})

(* The grace period of the last start is over.                             *)
GraceEnds(t) ==
  /\ local[t].grace
  /\ Slow \/ Pending(t) = 0
  /\ local' = [local EXCEPT ![t].grace = FALSE]
  /\ UNCHANGED <<def, history, consulVars, container, saved, queue, loop, runner, budget>>

-----------------------------------------------------------------------------
(* sync, on an event or when the timer fires *)

(* ListTasks by host.                                                      *)
SyncBegin ==
  /\ loop.at = "wait"
  /\ loop' = [loop EXCEPT !.at = "next", !.copy = issued,
                          !.todo = {t \in Tasks : issued[t] # "absent"}]
  /\ UNCHANGED <<def, history, consulVars, container, local, saved, queue, runner, budget>>

(* syncTask reads the state of the next task in Consul, and notes it.      *)
ReadState(t) ==
  /\ loop.at = "next"
  /\ t \in loop.todo
  /\ loop' = [loop EXCEPT !.at = "probe", !.todo = @ \ {t}, !.task = t, !.healthy = Healthy(t)]
  /\ local' = [local EXCEPT ![t].starting = TaskState(t) = "starting",
                            ![t].attempts = IF Healthy(t) THEN 0 ELSE @]
  /\ UNCHANGED <<def, history, consulVars, container, saved, queue, runner, budget>>

(* The state cannot be read.                                               *)
ReadFails(t) ==
  /\ loop.at = "next"
  /\ t \in loop.todo
  /\ Spend("faults")
  /\ loop' = [loop EXCEPT !.todo = @ \ {t}]
  /\ UNCHANGED <<def, history, consulVars, container, local, saved, queue, runner>>

(* IsRunning, which says of a container whether it is there.  The put may  *)
(* fail, unnoticed.                                                        *)
Exited(t) == def[t].probed /\ container[t] = "absent"
Probed == loop' = [loop EXCEPT !.at = "decide", !.healthy = @ /\ ~Exited(loop.task)]

ProbeOnly ==
  /\ loop.at = "probe"
  /\ Probed
  /\ UNCHANGED <<def, history, consulVars, container, local, saved, queue, runner, budget>>
Probe ==
  /\ loop.at = "probe"
  /\ \/ /\ stored' = IF Exited(loop.task) THEN [stored EXCEPT ![loop.task] = "exited"] ELSE stored
        /\ UNCHANGED budget
     \/ Exited(loop.task) /\ Spend("faults") /\ UNCHANGED stored
  /\ Probed
  /\ UNCHANGED <<def, history, issued, check, container, local, saved, queue, runner>>

(* On to the next task.                                                    *)
Continue ==
  loop' = [loop EXCEPT !.at = "next", !.task = NoTask, !.healthy = FALSE,
                       !.lost = << >>, !.op = "start"]

(* The record is put back as it was listed, rejected, or the put fails,    *)
(* unnoticed.                                                              *)
PutRejected(t) == PutTask(t, IF loop.copy[t] = "unscheduled" THEN "unscheduled" ELSE "rejected")

(* The deployment is not found.  GetDeployment says so as well when Consul *)
(* does not answer (consul_api.go:191-194).                                *)
NoDeployment ==
  /\ loop.at = "decide"
  /\ Spend("faults")
  /\ PutRejected(loop.task) \/ UNCHANGED <<issued, check>>
  /\ Continue
  /\ UNCHANGED <<def, history, stored, container, local, saved, queue, runner>>

(* The TaskState syncTask has in hand: lost, once a runner deleted it from  *)
(* the map.                                                                *)
InHand == IF loop.lost = << >> THEN local[loop.task] ELSE loop.lost[1]

(* The task is to be started: it has health checks and is not healthy, or  *)
(* it has none and no attempt is on record.                                *)
Wanting(t) ==
  /\ loop.copy[t] = "scheduled"
  /\ ~InHand.starting
  /\ \/ def[t].checked /\ ~loop.healthy
     \/ ~def[t].checked /\ InHand.attempts = 0

TooManyAttemptsLate == InHand.attempts > MaxAttempts + 1
TooManyAttempts == InHand.attempts > MaxAttempts
PortTaken(t) == def[t].port /\ container[t] = "up"

RejectTask ==
  /\ loop.at = "decide"
  /\ Wanting(loop.task) /\ ~InHand.grace
  /\ TooManyAttempts \/ PortTaken(loop.task)
  /\ \/ PutRejected(loop.task) /\ UNCHANGED budget
     \/ Spend("faults") /\ UNCHANGED <<issued, check>>
  /\ Continue
  /\ UNCHANGED <<def, history, stored, container, local, saved, queue, runner>>

MarkStartingOnly(t) ==
  local' = IF loop.lost = << >> THEN [local EXCEPT ![t].starting = TRUE] ELSE local
MarkStarting(t) ==
  local' = IF loop.lost = << >> THEN [local EXCEPT ![t].starting = TRUE, ![t].grace = TRUE]
           ELSE local

DecideStart ==
  /\ loop.at = "decide"
  /\ Wanting(loop.task) /\ ~InHand.grace
  /\ ~TooManyAttempts /\ ~PortTaken(loop.task)
  /\ MarkStarting(loop.task)
  /\ loop' = [loop EXCEPT !.at = "send", !.lost = << >>, !.op = "start"]
  /\ UNCHANGED <<def, history, consulVars, container, saved, queue, runner, budget>>

DecideStopOnce ==
  /\ loop.at = "decide"
  /\ loop.copy[loop.task] = "unscheduled"
  /\ IF stored[loop.task] = "stopping" THEN Continue
     ELSE loop' = [loop EXCEPT !.at = "send", !.lost = << >>, !.op = "stop"]
  /\ UNCHANGED <<def, history, consulVars, container, local, saved, queue, runner, budget>>
DecideStop ==
  /\ loop.at = "decide"
  /\ loop.copy[loop.task] = "unscheduled"
  /\ loop' = [loop EXCEPT !.at = "send", !.lost = << >>, !.op = "stop"]
  /\ UNCHANGED <<def, history, consulVars, container, local, saved, queue, runner, budget>>

DecideNothing ==
  /\ loop.at = "decide"
  /\ loop.copy[loop.task] # "unscheduled"
  /\ Wanting(loop.task) => InHand.grace
  /\ Continue
  /\ UNCHANGED <<def, history, consulVars, container, local, saved, queue, runner, budget>>

(* The action goes to the runners, or is dropped if the queue stays full   *)
(* for fifteen seconds.                                                    *)
SendAnyway ==
  /\ loop.at = "send"
  /\ queue' = Append(queue, [op |-> loop.op, task |-> loop.task])
  /\ Continue
  /\ UNCHANGED <<def, history, consulVars, container, local, saved, runner, budget>>
Send ==
  /\ loop.at = "send"
  /\ \/ /\ Len(queue) < QueueSize
        /\ queue' = Append(queue, [op |-> loop.op, task |-> loop.task])
     \/ /\ Len(queue) = QueueSize
        /\ UNCHANGED queue
  /\ Continue
  /\ UNCHANGED <<def, history, consulVars, container, local, saved, runner, budget>>

SyncDone ==
  /\ loop.at = "next"
  /\ loop.todo = {}
  /\ loop' = AtRest
  /\ UNCHANGED <<def, history, consulVars, container, local, saved, queue, runner, budget>>

SyncStep ==
  \/ SyncBegin
  \/ \E t \in Tasks : ReadState(t)
  \/ Probe
  \/ RejectTask \/ DecideStart \/ DecideStop \/ DecideNothing
  \/ Send
  \/ SyncDone

-----------------------------------------------------------------------------
(* The runners *)

GoOn(r, from, to) == runner[r].at = from /\ runner' = [runner EXCEPT ![r].at = to]
GoIdle(r, from) == runner[r].at = from /\ runner' = [runner EXCEPT ![r] = Idle]

Take(r) ==
  /\ runner[r].at = "idle"
  /\ queue # << >>
  /\ runner' = [runner EXCEPT ![r] = [at |-> Head(queue).op, task |-> Head(queue).task]]
  /\ queue' = Tail(queue)
  /\ UNCHANGED <<def, history, consulVars, container, local, saved, loop, budget>>

(* start: the state in Consul, then the TaskState.                         *)
CountAttempt(t) ==
  local' = [local EXCEPT ![t] = [starting |-> TRUE, grace |-> TRUE, attempts |-> @.attempts + 1]]

StartBegins(r) ==
  LET t == runner[r].task IN
  /\ GoOn(r, "start", "run")
  /\ stored' = [stored EXCEPT ![t] = "starting"]
  /\ CountAttempt(t)
  /\ UNCHANGED <<def, history, issued, check, container, saved, queue, loop, budget>>

(* StartTask: docker pulls the image, removes the container and runs it.   *)
(* It crosses a stop that has just stopped the task.                       *)
Stopped(t) == \E r \in Runners : runner[r] = [at |-> "delete", task |-> t]

StartTask(r) ==
  LET t == runner[r].task IN
  /\ GoOn(r, "run", "ran")
  /\ container' = [container EXCEPT ![t] = "up"]
  /\ crossed' = IF Stopped(t) THEN crossed \union {t} ELSE crossed
  /\ UNCHANGED <<def, late, consulVars, local, saved, queue, loop, budget>>

(* It fails: the state stays STARTING.                                     *)
StartTaskFails(r) ==
  /\ GoIdle(r, "run")
  /\ Spend("faults")
  /\ \E left \in Leaves : container' = [container EXCEPT ![runner[r].task] = left]
  /\ UNCHANGED <<def, history, consulVars, local, saved, queue, loop>>

StartEnds(r) ==
  /\ GoIdle(r, "ran")
  /\ stored' = [stored EXCEPT ![runner[r].task] = "started"]
  /\ UNCHANGED <<def, history, issued, check, container, local, saved, queue, loop, budget>>

StopBegins(r) ==
  /\ GoOn(r, "stop", "halt")
  /\ stored' = [stored EXCEPT ![runner[r].task] = "stopping"]
  /\ UNCHANGED <<def, history, issued, check, container, local, saved, queue, loop, budget>>

(* StopTask.  docker cannot stop a container that is not there, and leaves *)
(* the one it stopped.                                                     *)
StopTask(r) ==
  LET t == runner[r].task IN
  /\ GoOn(r, "halt", "delete")
  /\ ~(def[t].probed /\ container[t] = "absent")
  /\ container' = [container EXCEPT ![t] = IF @ = "up" THEN "dead" ELSE @]
  /\ UNCHANGED <<def, history, consulVars, local, saved, queue, loop, budget>>

StopTaskFails(r) ==
  LET t == runner[r].task IN
  /\ GoIdle(r, "halt")
  /\ \/ def[t].probed /\ container[t] = "absent" /\ UNCHANGED budget
     \/ Spend("faults")
  /\ UNCHANGED <<def, history, consulVars, container, local, saved, queue, loop>>

(* The loop has yet to decide of the task as it was listed, as scheduled.  *)
Undecided(t) ==
  loop.at # "wait" /\ loop.copy[t] = "scheduled" /\ (t \in loop.todo \/ t = loop.task)

(* DelTask, whose error is not looked at, and del; then the state in       *)
(* Consul.                                                                 *)
StopDeletes(r) ==
  LET t == runner[r].task IN
  /\ GoOn(r, "delete", "deleted")
  /\ \/ /\ issued' = [issued EXCEPT ![t] = "absent"]
        /\ check' = [check EXCEPT ![t] = FALSE]
        /\ UNCHANGED budget
     \/ Spend("faults") /\ UNCHANGED <<issued, check>>
  /\ local' = [local EXCEPT ![t] = NoState]
  /\ loop' = IF loop.task = t /\ loop.at \in {"probe", "decide"} /\ loop.lost = << >>
             THEN [loop EXCEPT !.lost = <<local[t]>>] ELSE loop
  /\ late' = IF issued[t] = "unscheduled" /\ Pending(t) = 0 /\ loop.copy[t] # "scheduled"
             THEN late ELSE late \union {t}
  /\ crossed' = IF Pending(t) > 0 \/ Undecided(t) THEN crossed \union {t} ELSE crossed
  /\ UNCHANGED <<def, stored, container, saved, queue>>

StopEnds(r) ==
  /\ GoIdle(r, "deleted")
  /\ stored' = [stored EXCEPT ![runner[r].task] = "stopped"]
  /\ UNCHANGED <<def, history, issued, check, container, local, saved, queue, loop, budget>>

(* PutTaskState fails: start and stop return at once.                      *)
PutStateFails(r) ==
  /\ runner[r].at \in {"start", "ran", "stop", "deleted"}
  /\ Spend("faults")
  /\ runner' = [runner EXCEPT ![r] = Idle]
  /\ UNCHANGED <<def, history, consulVars, container, local, saved, queue, loop>>

RunnerStep(r) ==
  \/ Take(r)
  \/ StartBegins(r) \/ StartTask(r) \/ StartEnds(r)
  \/ StopBegins(r) \/ StopTask(r) \/ StopTaskFails(r) \/ StopDeletes(r) \/ StopEnds(r)

-----------------------------------------------------------------------------
(* The process ends, cutting its runners short, and another one loads what *)
(* was saved last.  Only a stop in the loop's select saves (agent.go:400). *)
Loaded(states) == [t \in Tasks |-> [states[t] EXCEPT !.starting = FALSE]]

Stops == loop.at = "wait" /\ saved' = local
Crashes == UNCHANGED saved

Restart ==
  /\ Spend("faults")
  /\ Stops \/ Crashes
  /\ local' = Loaded(saved')
  /\ queue' = << >>
  /\ loop' = AtRest
  /\ runner' = [r \in Runners |-> Idle]
  /\ UNCHANGED <<def, history, consulVars, container>>

-----------------------------------------------------------------------------
Next ==
  \/ SyncStep
  \/ \E t \in Tasks : ReadFails(t)
  \/ NoDeployment
  \/ \E r \in Runners : RunnerStep(r) \/ StartTaskFails(r) \/ PutStateFails(r)
  \/ Restart
  \/ \E t \in Tasks : Issue(t) \/ Unschedule(t) \/ Dies(t) \/ CheckRuns(t) \/ GraceEnds(t)
                       \/ MonitorReports(t)

Spec == Init /\ [][Next]_vars

(* The loop syncs every interval and its runners run; time passes, and     *)
(* Consul runs the checks.                                                 *)
Fairness ==
  /\ WF_vars(SyncStep)
  /\ \A r \in Runners : WF_vars(RunnerStep(r))
  /\ \A t \in Tasks : WF_vars(GraceEnds(t)) /\ WF_vars(CheckRuns(t)) /\ WF_vars(MonitorReports(t))

FairSpec == Spec /\ Fairness

-----------------------------------------------------------------------------
(* A start is not queued again while it waits or runs, whatever the syncs  *)
(* in between read from Consul, if it takes less than the grace period     *)
(* (agent.go:312 "put the started at here since time into the queue could  *)
(* be longer").  Not so for a task that a late stop deleted: its grace     *)
(* period went with the TaskState.                                         *)
OneStart == \A t \in Tasks \ late : Pending(t) <= 1

(* What fails is given up after MaxAttempts more attempts (agent.go:289),  *)
(* over restarts of the agent too.  A late stop lets two starts run and    *)
(* count at once.                                                          *)
AttemptsBounded == \A t \in Tasks \ late : local[t].attempts <= MaxAttempts + 1

(* A start that failed, or that an error or the end of the agent cut off,  *)
(* leaves STARTING in Consul.  Only another start changes that, the EXITED *)
(* of a probe that finds no container, or a monitor.                       *)
Abandoned(t) ==
  /\ stored[t] = "starting"
  /\ ~def[t].monitored
  /\ Pending(t) = 0
  /\ def[t].probed => container[t] # "absent"

(* A task with checks that stays scheduled is healthy or rejected again    *)
(* and again, however often it dies and its starts fail, the agent crashes *)
(* or Consul does not answer, unless a start of it was abandoned           *)
(* (agent.go:281-317).                                                     *)
HealthyOrGivenUp ==
  \A t \in Tasks :
    []<>(issued[t] = "scheduled" /\ def[t].checked /\ ~Abandoned(t) => Healthy(t))

(* False: readme.md:9 "restarts unhealthy tasks", agent.go:315 "restart the *)
(* task since it is failing".  A task whose start failed stays STARTING in *)
(* Consul, and is neither tried again nor rejected.                        *)
RestartsUnhealthy ==
  \A t \in Tasks :
    []<>(issued[t] = "scheduled" /\ def[t].checked => container[t] = "up")

(* A task that is no longer scheduled, for good, ends up with its process  *)
(* stopped and its record deleted (agent.go:319), whatever fails or ends   *)
(* on the way, and whether or not an earlier stop deleted a later record;  *)
(* only docker cannot stop a container that is not there.  Not so where a  *)
(* start crossed a stop: the process may run on without a record.          *)
StopsUnscheduled ==
  \A t \in Tasks :
    \/ []<>(issued[t] \in {"scheduled", "rejected"})
    \/ <>[](\/ issued[t] = "absent" /\ container[t] # "up"
            \/ Exited(t)
            \/ t \in crossed)
==============================================================================
