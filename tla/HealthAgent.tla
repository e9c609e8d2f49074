----------------------------- MODULE HealthAgent -----------------------------
(***************************************************************************)
(* The health agents of the hosts (health/agent.go, health/health.go): the *)
(* loop of each keeps a map from check to monitor in step with the tasks   *)
(* of its host, and a monitor, a goroutine of its own, runs its check      *)
(* every interval and puts what it found as the state of its task.         *)
(*                                                                         *)
(* A check is known by its ID, which names the task definition and not the *)
(* task (api/task_definition.go:67).  The loop syncs every thirty seconds: *)
(* nothing is put under the key it subscribes to, state/hosts/<host>.  The *)
(* environment places and removes tasks, and their processes answer.       *)
(***************************************************************************)
EXTENDS Naturals, FiniteSets, Bags

CONSTANTS
  Hosts,
  Tasks,
  Checks,       (* the IDs of checks                                       *)
  ChecksOf,     (* task -> the checks of its definition                    *)
  None,         (* no host, no task                                        *)
  Tolerance,    (* failures in a row that are a warning only; 3            *)
  MaxEvents     (* bound: tasks placed, moved or removed, processes that   *)
                (* answer otherwise, states the agents put, health agents  *)
                (* that end and start again, and puts that fail            *)

ASSUME HealthChecksAssumption == ChecksOf \in [Tasks -> SUBSET Checks]
ASSUME HealthNoneAssumption == None \notin Hosts /\ None \notin Tasks
ASSUME ToleranceAssumption == Tolerance \in Nat
ASSUME EventsAssumption == MaxEvents \in Nat

VARIABLES
  host,      (* task -> the host its record names                          *)
  passing,   (* task -> the checks that pass where it runs                 *)
  state,     (* task -> its state under state/health                       *)
  entry,     (* host -> HealthAgent.State: check -> the task that is       *)
             (* monitored for it                                           *)
  listed,    (* host -> the tasks the sync under way has listed            *)
  monitors,  (* the goroutines of Monitor.Run                              *)
  events     (* what the environment has done: see the bound               *)

healthVars == <<host, passing, state, entry, listed, monitors, events>>

(* due: a check has run, its result is not put yet.                        *)
Monitor == [host : Hosts, task : Tasks, check : Checks, failures : 0..(Tolerance + 1),
            due : BOOLEAN]
Started(h, t, c) == [host |-> h, task |-> t, check |-> c, failures |-> 0, due |-> FALSE]

(* "starting" stands for all the states the agent is authoritative over:   *)
(* starting, stopping and exited.                                          *)
AgentState == {"starting", "started"}
TaskState == AgentState \union {"pending", "running", "warning", "failing"}

HealthTypeOK ==
  /\ host \in [Tasks -> Hosts \union {None}]
  /\ \A t \in Tasks : passing[t] \subseteq ChecksOf[t]
  /\ state \in [Tasks -> TaskState]
  /\ \A h \in Hosts, c \in Checks :
       entry[h][c] # None => entry[h][c] \in Tasks /\ c \in ChecksOf[entry[h][c]]
  /\ listed \in [Hosts -> {<< >>} \union {<<ts>> : ts \in SUBSET Tasks}]
  /\ IsABag(monitors) /\ BagToSet(monitors) \subseteq Monitor
  /\ events \in 0..MaxEvents

HealthInit ==
  /\ host = [t \in Tasks |-> None]
  /\ passing = [t \in Tasks |-> {}]
  /\ state = [t \in Tasks |-> "pending"]
  /\ entry = [h \in Hosts |-> [c \in Checks |-> None]]
  /\ listed = [h \in Hosts |-> << >>]
  /\ monitors = EmptyBag
  /\ events = 0

Event == events < MaxEvents /\ events' = events + 1

-----------------------------------------------------------------------------
(* The environment *)

(* A record is put for a host, or over that of another one (scheduler.go:  *)
(* 192), or goes.                                                          *)
Move(t, h) ==
  /\ host[t] # h
  /\ Event
  /\ host' = [host EXCEPT ![t] = h]
  /\ passing' = [passing EXCEPT ![t] = {}]
  /\ UNCHANGED <<state, entry, listed, monitors>>

Flip(t, c) ==
  /\ host[t] # None /\ c \in ChecksOf[t]
  /\ Event
  /\ passing' = [passing EXCEPT ![t] = IF c \in @ THEN @ \ {c} ELSE @ \union {c}]
  /\ UNCHANGED <<host, state, entry, listed, monitors>>

AgentPuts(t, s) ==
  /\ host[t] # None
  /\ Event
  /\ state' = [state EXCEPT ![t] = s]
  /\ UNCHANGED <<host, passing, entry, listed, monitors>>

-----------------------------------------------------------------------------
(* sync *)

(* ListTasks by host.                                                      *)
SyncLists(h) ==
  /\ listed[h] = << >>
  /\ listed' = [listed EXCEPT ![h] = <<{t \in Tasks : host[t] = h}>>]
  /\ UNCHANGED <<host, passing, state, entry, monitors, events>>

(* Checks of the listed tasks that have no monitor in the map get one, for *)
(* one of these tasks; then the entries whose task was not listed go, and  *)
(* their monitors stay.                                                    *)
Missing(h) == {c \in Checks : entry[h][c] = None /\ \E t \in listed[h][1] : c \in ChecksOf[t]}
CollectedNever(h, map) == map
Collected(h, map) == [c \in Checks |-> IF map[c] \in listed[h][1] THEN map[c] ELSE None]

SyncApplies(h) ==
  /\ listed[h] # << >>
  /\ \E task \in [Missing(h) -> listed[h][1]] :
       /\ \A c \in Missing(h) : c \in ChecksOf[task[c]]
       /\ entry' = [entry EXCEPT ![h] = Collected(h,
                      [c \in Checks |-> IF c \in Missing(h) THEN task[c] ELSE entry[h][c]])]
       /\ monitors' = monitors (+) SetToBag({Started(h, task[c], c) : c \in Missing(h)})
  /\ listed' = [listed EXCEPT ![h] = << >>]
  /\ UNCHANGED <<host, passing, state, events>>

-----------------------------------------------------------------------------
(* Monitor.Run *)

Becomes(m, n) == monitors' = (monitors (-) SetToBag({m})) (+) SetToBag({n})

(* A check reaches what runs on its own host only.                         *)
Passes(m) == host[m.task] = m.host /\ m.check \in passing[m.task]

CountedForever(m) ==
  IF Passes(m) THEN m.failures ELSE IF m.failures <= Tolerance THEN m.failures + 1 ELSE m.failures
Counted(m) ==
  IF Passes(m) THEN 0 ELSE IF m.failures <= Tolerance THEN m.failures + 1 ELSE m.failures

Check(m) ==
  /\ ~m.due
  /\ Becomes(m, [m EXCEPT !.failures = Counted(m), !.due = TRUE])
  /\ UNCHANGED <<host, passing, state, entry, listed, events>>

Status(m) ==
  IF m.failures > Tolerance THEN "failing" ELSE IF m.failures > 0 THEN "warning" ELSE "running"

(* PutTaskState, whatever the state is by then; its error is not looked at.*)
ReportOrStop(m) ==
  /\ m.due
  /\ \/ /\ Becomes(m, [m EXCEPT !.due = FALSE])
        /\ state' = [state EXCEPT ![m.task] = Status(m)] /\ UNCHANGED events
     \/ monitors' = monitors (-) SetToBag({m}) /\ Event /\ UNCHANGED state
  /\ UNCHANGED <<host, passing, entry, listed>>
Report(m) ==
  /\ m.due
  /\ Becomes(m, [m EXCEPT !.due = FALSE])
  /\ \/ state' = [state EXCEPT ![m.task] = Status(m)] /\ UNCHANGED events
     \/ Event /\ UNCHANGED state
  /\ UNCHANGED <<host, passing, entry, listed>>

(* The process ends, with all its goroutines: Stop ends in a panic, since  *)
(* it closes a channel that was never made (health/agent.go:57).           *)
HealthRestart(h) ==
  /\ Event
  /\ entry' = [entry EXCEPT ![h] = [c \in Checks |-> None]]
  /\ listed' = [listed EXCEPT ![h] = << >>]
  /\ monitors' = [m \in {n \in DOMAIN monitors : n.host # h} |-> monitors[m]]
  /\ UNCHANGED <<host, passing, state>>

-----------------------------------------------------------------------------
Sync(h) == SyncLists(h) \/ SyncApplies(h)
Beats(h, t, c) ==
  \E m \in DOMAIN monitors : m.host = h /\ m.task = t /\ m.check = c /\ (Check(m) \/ Report(m))

HealthNext ==
  \/ \E t \in Tasks : \E h \in Hosts \union {None} : Move(t, h)
  \/ \E t \in Tasks, s \in AgentState : AgentPuts(t, s)
  \/ \E t \in Tasks, c \in Checks : Flip(t, c)
  \/ \E h \in Hosts : Sync(h) \/ HealthRestart(h)
  \/ \E m \in DOMAIN monitors : Check(m) \/ Report(m)

HealthSpec == HealthInit /\ [][HealthNext]_healthVars

(* The loops sync every thirty seconds, the monitors check every interval. *)
HealthFairness ==
  /\ \A h \in Hosts : WF_healthVars(Sync(h))
  /\ \A h \in Hosts, t \in Tasks, c \in Checks : WF_healthVars(Beats(h, t, c))

HealthFairSpec == HealthSpec /\ HealthFairness

-----------------------------------------------------------------------------
(* A check with an entry gets no other monitor, so that nothing would ever *)
(* run it again if the monitor behind the entry were gone.  It is there,   *)
(* whichever checks failed to be put, and whatever the syncs and restarts  *)
(* of the agent met with in between (health/agent.go:76-103).              *)
Backed ==
  \A h \in Hosts, c \in Checks :
    entry[h][c] # None =>
      \E m \in DOMAIN monitors : m.host = h /\ m.task = entry[h][c] /\ m.check = c

(* A check of tasks that stay on a host ends up with a monitor for a task  *)
(* of the host, although the entry of a task that has gone keeps the check *)
(* of the others from getting one until it is collected, and although the  *)
(* health agent may end (health/agent.go:72-103).                          *)
Covered ==
  \A h \in Hosts, c \in Checks :
    <>[](\E t \in Tasks : host[t] = h /\ c \in ChecksOf[t])
      => <>[](entry[h][c] # None /\ host[entry[h][c]] = h)

MonitorsOf(t) == {m \in DOMAIN monitors : m.task = t}

(* The state of a monitored task settles at what its monitors find, over   *)
(* late results, failed puts and what the agent puts, as long as all of    *)
(* them find the same (health/health.go:101-114): also the ones of its     *)
(* earlier stays, which nothing stops.                                     *)
Settled ==
  \A t \in Tasks :
    /\ <>[](MonitorsOf(t) # {} /\ \A m \in MonitorsOf(t) : Passes(m)) => <>[](state[t] = "running")
    /\ <>[](MonitorsOf(t) # {} /\ \A m \in MonitorsOf(t) : ~Passes(m)) => <>[](state[t] = "failing")
==============================================================================
