----------------------------- MODULE AgentProofs -----------------------------
(***************************************************************************)
(* An agent of any number of runners and tasks, with any queue: its types, *)
(* and, if a start takes less than the grace period, that a task is never  *)
(* started twice at once and not more often than its deployment allows.    *)
(***************************************************************************)
EXTENDS Agent, SequenceTheorems, FiniteSetTheorems, TLAPS

USE ActorsAssumption, BoundsAssumption, BudgetAssumption, DefinitionsAssumption, LeavesAssumption
    DEF ActorsAssumption, BoundsAssumption, BudgetAssumption, DefinitionsAssumption,
        LeavesAssumption, history

(* TypeOK in parts. *)
ConsulTypes ==
  /\ issued \in [Tasks -> Record]
  /\ stored \in [Tasks -> State]
  /\ check \in [Tasks -> BOOLEAN]

HostTypes ==
  /\ def \in [Tasks -> Definitions]
  /\ container \in [Tasks -> Containers]
  /\ late \subseteq Tasks /\ crossed \subseteq Tasks
  /\ budget \in [changes : Nat, faults : Nat]

Loop ==
  [at : {"wait", "next", "probe", "decide", "send"}, todo : SUBSET Tasks, copy : [Tasks -> Record],
   task : Tasks, healthy : BOOLEAN, lost : Seq(TaskStates), op : {"start", "stop"}]

StateTypes == local \in [Tasks -> TaskStates] /\ saved \in [Tasks -> TaskStates]
LoopTypes == loop \in Loop /\ queue \in Seq(Action) /\ Len(queue) <= QueueSize
RunnerTypes == runner \in [Runners -> [at : Steps, task : Tasks]]

TypeInv == ConsulTypes /\ HostTypes /\ StateTypes /\ LoopTypes /\ RunnerTypes

LEMMA TypeInvTypes == TypeInv => TypeOK
  BY DEF TypeInv, TypeOK, ConsulTypes, HostTypes, StateTypes, LoopTypes, Loop, RunnerTypes

LEMMA NoTaskIsTask == NoTask \in Tasks
  BY DEF NoTask

LEMMA RestTypes == AtRest \in Loop /\ Idle \in [at : Steps, task : Tasks]
  BY NoTaskIsTask DEF AtRest, Loop, Idle, Steps, Record

LEMMA InitTypes == Init => TypeInv
<1> SUFFICES ASSUME Init PROVE TypeInv
  OBVIOUS
<1>1. ConsulTypes
  BY DEF Init, ConsulTypes, Record, State
<1>2. HostTypes
  BY DEF Init, HostTypes, Containers
<1>3. StateTypes
  BY DEF Init, StateTypes, NoState, TaskStates
<1>4. LoopTypes /\ RunnerTypes
  BY RestTypes DEF Init, LoopTypes, RunnerTypes
<1> QED
  BY <1>1, <1>2, <1>3, <1>4 DEF TypeInv

-----------------------------------------------------------------------------
LEMMA SpendTypes ==
  ASSUME HostTypes, NEW what \in {"changes", "faults"}, Spend(what)
  PROVE  budget' \in [changes : Nat, faults : Nat]
  BY DEF HostTypes, Spend

LEMMA PutTaskTypes ==
  ASSUME ConsulTypes, NEW t \in Tasks, NEW record \in Record, PutTask(t, record), stored' = stored
  PROVE  ConsulTypes'
  BY DEF ConsulTypes, PutTask

Environment ==
  \E t \in Tasks : Issue(t) \/ Unschedule(t) \/ Dies(t) \/ CheckRuns(t) \/ MonitorReports(t)

LEMMA EnvironmentTypes ==
  ASSUME TypeInv, Environment
  PROVE  ConsulTypes' /\ HostTypes' /\ UNCHANGED agentVars
<1> PICK t \in Tasks : Issue(t) \/ Unschedule(t) \/ Dies(t) \/ CheckRuns(t) \/ MonitorReports(t)
  BY DEF Environment
<1> USE DEF TypeInv, HostTypes
<1>1. CASE Issue(t) \/ Unschedule(t)
  <2>1. PICK record \in Record : PutTask(t, record)
    BY <1>1 DEF Issue, Unschedule, Record
  <2> QED
    BY <1>1, <2>1, PutTaskTypes, SpendTypes DEF Issue, Unschedule
<1>2. CASE Dies(t)
  BY <1>2, SpendTypes DEF Dies, Containers, consulVars, ConsulTypes
<1>3. CASE CheckRuns(t)
  <2>1. check' \in [Tasks -> BOOLEAN]
    BY <1>3 DEF CheckRuns, ConsulTypes
  <2> QED
    BY <1>3, <2>1 DEF CheckRuns, ConsulTypes
<1>4. CASE MonitorReports(t)
  BY <1>4 DEF MonitorReports, ConsulTypes, State
<1> QED
  BY <1>1, <1>2, <1>3, <1>4

(* What a rejection and Continue leave of the loop. *)
LEMMA ContinueTypes == ASSUME loop \in Loop, Continue PROVE loop' \in Loop
<1>1. << >> \in Seq(TaskStates)
  OBVIOUS
<1> QED
  BY <1>1, NoTaskIsTask DEF Continue, Loop

LEMMA RejectTypes ==
  ASSUME TypeInv, PutRejected(loop.task) \/ UNCHANGED <<issued, check>>, Continue, stored' = stored
  PROVE  ConsulTypes' /\ loop' \in Loop
<1>1. loop \in Loop /\ loop.task \in Tasks
  BY DEF TypeInv, LoopTypes, Loop
<1>2. CASE PutRejected(loop.task)
  <2>1. PICK record \in Record : PutTask(loop.task, record)
    BY <1>2 DEF PutRejected, Record
  <2> QED
    BY <1>1, <2>1, PutTaskTypes, ContinueTypes DEF TypeInv
<1>3. CASE UNCHANGED <<issued, check>>
  BY <1>1, <1>3, ContinueTypes DEF TypeInv, ConsulTypes
<1> QED
  BY <1>2, <1>3

(* The loop: what it notes of a task, and what it sends to the runners.    *)
LoopStep ==
  SyncStep \/ NoDeployment \/ \E t \in Tasks : ReadFails(t)

LEMMA LoopStepTypes ==
  ASSUME TypeInv, LoopStep
  PROVE  TypeInv'
<1> USE DEF TypeInv, LoopTypes
<1>1. loop.task \in Tasks /\ loop.at \in {"wait", "next", "probe", "decide", "send"}
      /\ loop.op \in {"start", "stop"} /\ loop.healthy \in BOOLEAN
  BY DEF Loop
<1>2. CASE SyncBegin
  <2>1. loop' \in Loop
    BY <1>2 DEF SyncBegin, Loop, ConsulTypes
  <2> QED
    BY <1>2, <2>1 DEF SyncBegin, consulVars, ConsulTypes, HostTypes, StateTypes, RunnerTypes
<1>3. ASSUME NEW t \in Tasks, ReadState(t) PROVE TypeInv'
  <2>1. Healthy(t) \in BOOLEAN /\ (TaskState(t) = "starting") \in BOOLEAN
    BY DEF Healthy
  <2>2. loop' \in Loop
    BY <1>3, <2>1 DEF ReadState, Loop
  <2>3. local' \in [Tasks -> TaskStates]
    <3>1. local[t] \in TaskStates
      BY DEF StateTypes
    <3>2. [local[t] EXCEPT !.starting = (TaskState(t) = "starting"),
                           !.attempts = IF Healthy(t) THEN 0 ELSE @] \in TaskStates
      BY <2>1, <3>1 DEF TaskStates
    <3> QED
      BY <1>3, <3>2 DEF ReadState, StateTypes
  <2> QED
    BY <1>3, <2>2, <2>3 DEF ReadState, consulVars, ConsulTypes, HostTypes, StateTypes, RunnerTypes
<1>4. ASSUME NEW t \in Tasks, ReadFails(t) PROVE TypeInv'
  <2>1. loop' \in Loop
    BY <1>4 DEF ReadFails, Loop
  <2> QED
    BY <1>4, <2>1, SpendTypes
       DEF ReadFails, consulVars, ConsulTypes, HostTypes, StateTypes, RunnerTypes
<1>5. CASE Probe
  <2>1. loop' \in Loop
    <3>1. (loop.healthy /\ ~Exited(loop.task)) \in BOOLEAN
      OBVIOUS
    <3> QED
      BY <1>5, <3>1 DEF Probe, Probed, Loop
  <2>2. stored' \in [Tasks -> State]
    BY <1>1, <1>5 DEF Probe, ConsulTypes, State
  <2>3. budget' \in [changes : Nat, faults : Nat]
    BY <1>5, SpendTypes DEF Probe, HostTypes
  <2> QED
    BY <1>5, <2>1, <2>2, <2>3 DEF Probe, ConsulTypes, HostTypes, StateTypes, RunnerTypes
<1>6. CASE NoDeployment
  BY <1>6, RejectTypes, SpendTypes DEF NoDeployment, HostTypes, StateTypes, RunnerTypes
<1>7. CASE RejectTask
  <2>1. budget' \in [changes : Nat, faults : Nat]
    BY <1>7, SpendTypes DEF RejectTask, HostTypes
  <2> QED
    BY <1>7, <2>1, RejectTypes DEF RejectTask, HostTypes, StateTypes, RunnerTypes
<1>8. CASE DecideStart
  <2>1. loop' \in Loop
    <3>1. << >> \in Seq(TaskStates)
      OBVIOUS
    <3> QED
      BY <1>8, <3>1 DEF DecideStart, Loop
  <2>2. local' \in [Tasks -> TaskStates]
    BY <1>1, <1>8 DEF DecideStart, MarkStarting, StateTypes, TaskStates
  <2> QED
    BY <1>8, <2>1, <2>2
       DEF DecideStart, consulVars, ConsulTypes, HostTypes, StateTypes, RunnerTypes
<1>9. CASE DecideStop
  <2>1. loop' \in Loop
    <3>1. << >> \in Seq(TaskStates)
      OBVIOUS
    <3> QED
      BY <1>9, <3>1 DEF DecideStop, Loop
  <2> QED
    BY <1>9, <2>1 DEF DecideStop, consulVars, ConsulTypes, HostTypes, StateTypes, RunnerTypes
<1>10. CASE DecideNothing
  BY <1>10, ContinueTypes
     DEF DecideNothing, consulVars, ConsulTypes, HostTypes, StateTypes, RunnerTypes
<1>11. CASE Send
  <2>1. [op |-> loop.op, task |-> loop.task] \in Action
    BY <1>1 DEF Action
  <2>2. queue' \in Seq(Action) /\ Len(queue') <= QueueSize
    <3>1. queue \in Seq(Action) /\ Len(queue) \in Nat /\ Len(queue) <= QueueSize
      BY DEF TypeInv, LoopTypes
    <3>2. CASE queue' = queue
      BY <3>1, <3>2
    <3>3. CASE Len(queue) < QueueSize /\ queue' = Append(queue, [op |-> loop.op, task |-> loop.task])
      <4>1. queue' \in Seq(Action) /\ Len(queue') = Len(queue) + 1
        BY <2>1, <3>1, <3>3, AppendProperties
      <4> QED
        BY <3>1, <3>3, <4>1
    <3> QED
      BY <1>11, <3>2, <3>3 DEF Send
  <2> QED
    BY <1>11, <2>2, ContinueTypes
       DEF Send, consulVars, ConsulTypes, HostTypes, StateTypes, RunnerTypes
<1>12. CASE SyncDone
  BY <1>12, RestTypes DEF SyncDone, consulVars, ConsulTypes, HostTypes, StateTypes, RunnerTypes
<1> QED
  BY <1>2, <1>3, <1>4, <1>5, <1>6, <1>7, <1>8, <1>9, <1>10, <1>11, <1>12 DEF LoopStep, SyncStep

(* The runners. *)
RunnerMoves(r) == RunnerStep(r) \/ StartTaskFails(r) \/ PutStateFails(r)

LEMMA RunnerStepTypes ==
  ASSUME TypeInv, NEW r \in Runners, RunnerMoves(r)
  PROVE  TypeInv'
<1> DEFINE t == runner[r].task
<1>1. t \in Tasks /\ runner[r].at \in Steps
  BY DEF TypeInv, RunnerTypes
<1>2. ASSUME NEW from, NEW to \in Steps, GoOn(r, from, to) PROVE RunnerTypes'
  BY <1>2 DEF GoOn, TypeInv, RunnerTypes
<1>3. ASSUME NEW from, GoIdle(r, from) PROVE RunnerTypes'
  BY <1>3, RestTypes DEF GoIdle, TypeInv, RunnerTypes
<1> HIDE DEF t
<1>4. CASE Take(r)
  <2>1. queue # << >> /\ queue' = Tail(queue)
        /\ runner' = [runner EXCEPT ![r] = [at |-> Head(queue).op, task |-> Head(queue).task]]
    BY <1>4 DEF Take
  <2>2. /\ Head(queue) \in Action
        /\ Tail(queue) \in Seq(Action) /\ Len(Tail(queue)) <= QueueSize
    BY <2>1, HeadTailProperties DEF TypeInv, LoopTypes
  <2>3. [at |-> Head(queue).op, task |-> Head(queue).task] \in [at : Steps, task : Tasks]
    BY <2>2 DEF Action, Steps
  <2>4. RunnerTypes'
    BY <2>1, <2>3 DEF TypeInv, RunnerTypes
  <2> QED
    BY <1>4, <2>1, <2>2, <2>4
       DEF Take, TypeInv, consulVars, ConsulTypes, HostTypes, StateTypes, LoopTypes
<1> USE DEF TypeInv, ConsulTypes, HostTypes, StateTypes, LoopTypes, consulVars
<1>5. CASE StartBegins(r)
  <2>1. stored' \in [Tasks -> State]
    BY <1>5 DEF StartBegins, State
  <2>2. local' \in [Tasks -> TaskStates]
    <3>1. [starting |-> TRUE, grace |-> TRUE, attempts |-> local[t].attempts + 1] \in TaskStates
      BY <1>1 DEF TaskStates
    <3> QED
      BY <1>5, <3>1 DEF StartBegins, CountAttempt, t
  <2>3. RunnerTypes'
    BY <1>2, <1>5 DEF StartBegins, Steps
  <2> QED
    BY <1>5, <2>1, <2>2, <2>3 DEF StartBegins
<1>6. CASE StartTask(r)
  <2>1. RunnerTypes'
    BY <1>2, <1>6 DEF StartTask, Steps
  <2>2. /\ container' = [container EXCEPT ![t] = "up"]
        /\ crossed' \subseteq crossed \union {t}
        /\ UNCHANGED <<def, late, consulVars, local, saved, queue, loop, budget>>
    BY <1>6 DEF StartTask, t
  <2> QED
    BY <1>1, <2>1, <2>2 DEF Containers
<1>7. CASE StartTaskFails(r)
  <2>1. RunnerTypes'
    BY <1>3, <1>7 DEF StartTaskFails
  <2> QED
    BY <1>7, <2>1, SpendTypes DEF StartTaskFails
<1>8. CASE StartEnds(r) \/ StopEnds(r)
  <2>1. RunnerTypes'
    BY <1>3, <1>8 DEF StartEnds, StopEnds
  <2> QED
    BY <1>8, <2>1 DEF StartEnds, StopEnds, State
<1>9. CASE StopBegins(r)
  <2>1. RunnerTypes'
    BY <1>2, <1>9 DEF StopBegins, Steps
  <2> QED
    BY <1>9, <2>1 DEF StopBegins, State
<1>10. CASE StopTask(r)
  <2>1. RunnerTypes'
    BY <1>2, <1>10 DEF StopTask, Steps
  <2> QED
    BY <1>10, <2>1 DEF StopTask, Containers
<1>11. CASE StopTaskFails(r)
  <2>1. RunnerTypes'
    BY <1>3, <1>11 DEF StopTaskFails
  <2> QED
    BY <1>11, <2>1, SpendTypes DEF StopTaskFails
<1>12. CASE StopDeletes(r)
  <2>1. RunnerTypes'
    BY <1>2, <1>12 DEF StopDeletes, Steps
  <2>2. /\ issued' = [issued EXCEPT ![t] = "absent"] \/ issued' = issued
        /\ check' = [check EXCEPT ![t] = FALSE] \/ check' = check
        /\ local' = [local EXCEPT ![t] = NoState]
        /\ late' \subseteq late \union {t} /\ crossed' \subseteq crossed \union {t}
        /\ UNCHANGED <<def, stored, container, saved, queue>>
    BY <1>12 DEF StopDeletes, t
  <2>3. loop' = loop \/ loop' = [loop EXCEPT !.lost = <<local[t]>>]
    BY <1>12 DEF StopDeletes, t
  <2>4. loop' \in Loop
    <3>1. <<local[t]>> \in Seq(TaskStates)
      BY <1>1
    <3> QED
      BY <2>3, <3>1 DEF Loop
  <2>5. NoState \in TaskStates /\ "absent" \in Record
    BY DEF NoState, TaskStates, Record
  <2>6. budget' \in [changes : Nat, faults : Nat]
    BY <1>12, SpendTypes DEF StopDeletes
  <2> QED
    BY <1>1, <2>1, <2>2, <2>4, <2>5, <2>6
<1>13. CASE PutStateFails(r)
  <2>1. RunnerTypes'
    BY <1>13, RestTypes DEF PutStateFails, RunnerTypes
  <2> QED
    BY <1>13, <2>1, SpendTypes DEF PutStateFails
<1> QED
  BY <1>4, <1>5, <1>6, <1>7, <1>8, <1>9, <1>10, <1>11, <1>12, <1>13 DEF RunnerMoves, RunnerStep

LEMMA RestartTypes == ASSUME TypeInv, Restart PROVE TypeInv'
<1>1. saved' \in [Tasks -> TaskStates]
  BY DEF Restart, Stops, Crashes, TypeInv, StateTypes
<1>2. local' \in [Tasks -> TaskStates]
  BY <1>1 DEF Restart, Loaded, TaskStates
<1>3. LoopTypes' /\ RunnerTypes'
  BY RestTypes DEF Restart, LoopTypes, RunnerTypes
<1> QED
  BY <1>1, <1>2, <1>3, SpendTypes DEF Restart, TypeInv, consulVars, ConsulTypes, HostTypes, StateTypes

LEMMA GraceEndsTypes == ASSUME TypeInv, NEW t \in Tasks, GraceEnds(t) PROVE TypeInv'
<1>1. local' \in [Tasks -> TaskStates]
  BY DEF GraceEnds, TypeInv, StateTypes, TaskStates
<1> QED
  BY <1>1 DEF GraceEnds, TypeInv, consulVars, ConsulTypes, HostTypes, StateTypes, LoopTypes,
              RunnerTypes

(* The steps of an agent and of what is around it, as the proofs go through*)
(* them.                                                                   *)
LEMMA NextCases ==
  ASSUME Next
  PROVE  \/ Environment \/ LoopStep \/ Restart
         \/ \E r \in Runners : RunnerMoves(r)
         \/ \E t \in Tasks : GraceEnds(t)
  BY DEF Next, Environment, LoopStep, RunnerMoves

LEMMA NextTypes == TypeInv /\ [Next]_vars => TypeInv'
<1> SUFFICES ASSUME TypeInv, [Next]_vars PROVE TypeInv'
  OBVIOUS
<1>1. CASE UNCHANGED vars
  BY <1>1 DEF vars, TypeInv, ConsulTypes, HostTypes, StateTypes, LoopTypes, RunnerTypes
<1>2. CASE Environment
  BY <1>2, EnvironmentTypes DEF agentVars, TypeInv, StateTypes, LoopTypes, RunnerTypes
<1> QED
  BY <1>1, <1>2, NextCases, LoopStepTypes, RunnerStepTypes, RestartTypes, GraceEndsTypes

(* Type correctness of an agent: the queue keeps its capacity, and an      *)
(* action is for a task and a runner at every point of a sync, for any     *)
(* tasks, runners and bounds.                                              *)
THEOREM AgentTypeCorrect == Spec => []TypeOK
  BY InitTypes, NextTypes, TypeInvTypes, PTL DEF Spec

-----------------------------------------------------------------------------
(* Where the starts of a task are that are decided, queued or under way.   *)
Sending(t) == loop.at = "send" /\ loop.op = "start" /\ loop.task = t
Queued(t) == {i \in DOMAIN queue : queue[i] = [op |-> "start", task |-> t]}
Started(t) == {r \in Runners : runner[r].at \in {"start", "run", "ran"} /\ runner[r].task = t}
Waiting(t) == {r \in Runners : runner[r].at = "start" /\ runner[r].task = t}

NoStart(t) == ~Sending(t) /\ Queued(t) = {} /\ Started(t) = {}
AtMostOne(t) ==
  /\ \A i, j \in Queued(t) : i = j
  /\ \A q, r \in Started(t) : q = r
  /\ Sending(t) => Queued(t) = {} /\ Started(t) = {}
  /\ Queued(t) # {} => Started(t) = {}

(* What is known of a task that no late stop deleted: one start at most,   *)
(* and a grace period as long as there is one; no attempt too many, and    *)
(* one to spare while a start is not yet counted.                          *)
Fresh(t) ==
  /\ AtMostOne(t)
  /\ ~NoStart(t) => local[t].grace
  /\ local[t].attempts <= MaxAttempts + 1
  /\ saved[t].attempts <= MaxAttempts + 1
  /\ Sending(t) \/ Queued(t) # {} \/ Waiting(t) # {} => local[t].attempts <= MaxAttempts

(* The TaskState that syncTask has in hand is the one in the map, but for  *)
(* tasks it will not start or a late stop deleted.                         *)
InHandKept ==
  loop.lost # << >> =>
    /\ loop.at \in {"probe", "decide"}
    /\ loop.copy[loop.task] = "scheduled" => loop.task \in late

StartsInv == (\A t \in Tasks \ late : Fresh(t)) /\ InHandKept

LEMMA PendingCounts ==
  ASSUME TypeInv, NEW t \in Tasks
  PROVE  /\ Pending(t) = 0 => NoStart(t)
         /\ AtMostOne(t) => Pending(t) <= 1
<1>1. Pending(t) = (IF Sending(t) THEN 1 ELSE 0) + Cardinality(Queued(t)) + Cardinality(Started(t))
  BY DEF Pending, Sending, Queued, Started
<1>2. IsFiniteSet(Queued(t)) /\ IsFiniteSet(Started(t))
  <2>1. IsFiniteSet(DOMAIN queue)
    BY FS_Interval DEF TypeInv, LoopTypes
  <2> QED
    BY <2>1, FS_Subset DEF Queued, Started
<1>3. /\ Cardinality(Queued(t)) \in Nat /\ (Cardinality(Queued(t)) = 0 <=> Queued(t) = {})
      /\ Cardinality(Started(t)) \in Nat /\ (Cardinality(Started(t)) = 0 <=> Started(t) = {})
  BY <1>2, FS_CardinalityType, FS_EmptySet
<1>4. Pending(t) = 0 => NoStart(t)
  BY <1>1, <1>3 DEF NoStart
<1>5. ASSUME NEW S, \A x, y \in S : x = y PROVE S = {} \/ Cardinality(S) = 1
  <2>1. CASE S # {}
    <3>1. PICK x \in S : TRUE
      BY <2>1
    <3>2. S = {x}
      BY <1>5
    <3> QED
      BY <3>2, FS_Singleton
  <2> QED
    BY <2>1
<1>6. ASSUME AtMostOne(t) PROVE Pending(t) <= 1
  <2>1. /\ Queued(t) = {} \/ Cardinality(Queued(t)) = 1
        /\ Started(t) = {} \/ Cardinality(Started(t)) = 1
    BY <1>5, <1>6 DEF AtMostOne
  <2> QED
    BY <1>1, <1>3, <1>6, <2>1 DEF AtMostOne
<1> QED
  BY <1>4, <1>6

LEMMA InitStarts == Init => StartsInv
  BY DEF Init, StartsInv, Fresh, AtMostOne, NoStart, Sending, Queued, Started, Waiting, InHandKept,
         AtRest, Idle, NoState

(* A step that adds no start of a task, and leaves its grace period.       *)
LEMMA Fewer ==
  ASSUME TypeInv, TypeInv', NEW t \in Tasks, Fresh(t),
         Sending(t)' => Sending(t), Queued(t)' \subseteq Queued(t),
         Started(t)' \subseteq Started(t), Waiting(t)' \subseteq Waiting(t),
         local'[t].grace = local[t].grace, local'[t].attempts <= local[t].attempts,
         saved'[t] = saved[t]
  PROVE  Fresh(t)'
<1>1. local[t].attempts \in Nat /\ local'[t].attempts \in Nat
  BY DEF TypeInv, StateTypes, TaskStates
<1>2. AtMostOne(t)'
  BY DEF Fresh, AtMostOne
<1>3. NoStart(t) => NoStart(t)'
  BY DEF NoStart
<1> QED
  BY <1>1, <1>2, <1>3 DEF Fresh

(* The steps of the loop that decide and send no start.                    *)
QuietStep ==
  \/ SyncBegin \/ Probe \/ NoDeployment \/ RejectTask \/ DecideStop \/ DecideNothing \/ SyncDone
  \/ \E t \in Tasks : ReadState(t) \/ ReadFails(t)

LEMMA QuietLoop ==
  ASSUME TypeInv, QuietStep
  PROVE  /\ ~(loop'.at = "send" /\ loop'.op = "start")
         /\ \/ loop'.lost = << >>
            \/ loop.at \in {"wait", "next"} /\ loop'.lost = loop.lost
            \/ Probe
<1> USE DEF TypeInv, LoopTypes
<1>1. ASSUME Continue PROVE loop'.at = "next" /\ loop'.lost = << >>
  BY <1>1 DEF Continue, Loop
<1>2. CASE NoDeployment \/ RejectTask \/ DecideNothing
  BY <1>1, <1>2 DEF NoDeployment, RejectTask, DecideNothing
<1>3. CASE DecideStop
  BY <1>3 DEF DecideStop, Loop
<1>4. CASE SyncDone
  BY <1>4 DEF SyncDone, AtRest
<1>5. CASE SyncBegin
  BY <1>5 DEF SyncBegin, Loop
<1>6. CASE \E t \in Tasks : ReadFails(t)
  BY <1>6 DEF ReadFails, Loop
<1>7. CASE \E t \in Tasks : ReadState(t)
  <2>1. PICK t \in Tasks : ReadState(t)
    BY <1>7
  <2>2. loop.at = "next" /\ loop' = [loop EXCEPT !.at = "probe", !.todo = @ \ {t}, !.task = t,
                                                 !.healthy = Healthy(t)]
    BY <2>1 DEF ReadState
  <2> QED
    BY <2>2 DEF Loop
<1>8. CASE Probe
  BY <1>8 DEF Probe, Probed, Loop
<1> QED
  BY <1>2, <1>3, <1>4, <1>5, <1>6, <1>7, <1>8 DEF QuietStep

LEMMA QuietStarts ==
  ASSUME TypeInv, TypeInv', StartsInv, QuietStep
  PROVE  StartsInv'
<1>1. /\ UNCHANGED <<queue, runner, saved, late>>
      /\ \A t \in Tasks : /\ local'[t].grace = local[t].grace
                          /\ local'[t].attempts <= local[t].attempts
  <2>1. \A t \in Tasks : local[t].attempts \in Nat
    BY DEF TypeInv, StateTypes, TaskStates
  <2>2. CASE \E t \in Tasks : ReadState(t)
    BY <2>1, <2>2 DEF ReadState, TypeInv, StateTypes, TaskStates
  <2>3. CASE ~ \E t \in Tasks : ReadState(t)
    BY <2>1, <2>3 DEF QuietStep, SyncBegin, Probe, NoDeployment, RejectTask, DecideStop, DecideNothing,
          SyncDone, ReadFails
  <2> QED
    BY <2>2, <2>3
<1>2. ~(loop'.at = "send" /\ loop'.op = "start")
  BY QuietLoop
<1>3. InHandKept'
  <2>1. CASE Probe
    <3>1. /\ loop.at = "probe" /\ loop'.at = "decide" /\ loop'.lost = loop.lost
          /\ loop'.copy = loop.copy /\ loop'.task = loop.task
      BY <2>1 DEF Probe, Probed, TypeInv, LoopTypes, Loop
    <3> QED
      BY <1>1, <3>1 DEF StartsInv, InHandKept
  <2>2. CASE ~Probe
    BY <2>2, QuietLoop DEF StartsInv, InHandKept
  <2> QED
    BY <2>1, <2>2
<1>4. ASSUME NEW t \in Tasks \ late' PROVE Fresh(t)'
  <2>1. Fresh(t)
    BY <1>1, <1>4 DEF StartsInv
  <2> QED
    BY <1>1, <1>2, <2>1, Fewer DEF Sending, Queued, Started, Waiting
<1> QED
  BY <1>3, <1>4 DEF StartsInv

(* A start is decided only when none is pending: the grace period is over. *)
LEMMA DecideStarts ==
  ASSUME TypeInv, TypeInv', StartsInv, DecideStart
  PROVE  StartsInv'
<1> DEFINE d == loop.task
<1>1. /\ d \in Tasks /\ loop.copy[d] = "scheduled" /\ ~InHand.grace
      /\ ~(InHand.attempts > MaxAttempts)
      /\ MarkStarting(d)
      /\ loop' = [loop EXCEPT !.at = "send", !.lost = << >>, !.op = "start"]
      /\ UNCHANGED <<queue, runner, saved, late>>
  BY DEF DecideStart, Wanting, TooManyAttempts, TypeInv, LoopTypes, Loop
<1>2. loop'.lost = << >> /\ loop'.task = d
  BY <1>1 DEF TypeInv, LoopTypes, Loop
<1>3. ASSUME NEW t \in Tasks \ late', t # d PROVE Fresh(t)'
  <2>1. Fresh(t)
    BY <1>1, <1>3 DEF StartsInv
  <2>2. local'[t] = local[t] /\ local[t].attempts \in Nat
    BY <1>1, <1>3 DEF MarkStarting, TypeInv, StateTypes, TaskStates
  <2> QED
    BY <1>1, <1>2, <1>3, <2>1, <2>2, Fewer DEF Sending, Queued, Started, Waiting
<1>4. ASSUME d \notin late' PROVE Fresh(d)'
  <2>1. Fresh(d)
    BY <1>1, <1>4 DEF StartsInv
  <2>2. loop.lost = << >>
    BY <1>1, <1>4 DEF StartsInv, InHandKept
  <2>3. ~local[d].grace /\ local[d].attempts \in Nat /\ local[d].attempts <= MaxAttempts
    BY <1>1, <2>2 DEF InHand, TypeInv, StateTypes, TaskStates
  <2>4. Queued(d) = {} /\ Started(d) = {}
    BY <2>1, <2>3 DEF Fresh, NoStart
  <2>5. local'[d].grace /\ local'[d].attempts = local[d].attempts
    BY <1>1, <2>2 DEF MarkStarting, TypeInv, StateTypes, TaskStates
  <2>6. Queued(d)' = {} /\ Started(d)' = {}
    BY <1>1, <1>2, <2>4 DEF Queued, Started
  <2> QED
    BY <1>1, <2>1, <2>3, <2>5, <2>6 DEF Fresh, AtMostOne
<1> QED
  BY <1>1, <1>2, <1>3, <1>4 DEF StartsInv, InHandKept

(* Into the queue, or dropped. *)
LEMMA SendStarts ==
  ASSUME TypeInv, TypeInv', StartsInv, Send
  PROVE  StartsInv'
<1>1. /\ loop.at = "send" /\ loop.op \in {"start", "stop"} /\ loop.task \in Tasks
      /\ loop'.at = "next" /\ loop'.lost = << >>
      /\ UNCHANGED <<local, runner, saved, late>>
  BY DEF Send, Continue, TypeInv, LoopTypes, Loop
<1>2. InHandKept'
  BY <1>1 DEF InHandKept
<1>3. ASSUME NEW t \in Tasks \ late' PROVE Fresh(t)'
  <2>1. Fresh(t) /\ local[t].attempts \in Nat
    BY <1>1, <1>3 DEF StartsInv, TypeInv, StateTypes, TaskStates
  <2>2. ~Sending(t)' /\ Started(t)' = Started(t) /\ Waiting(t)' = Waiting(t)
    BY <1>1 DEF Sending, Started, Waiting
  <2>3. CASE queue' = queue
    BY <1>1, <2>1, <2>2, <2>3, Fewer DEF Queued
  <2>4. CASE queue' = Append(queue, [op |-> loop.op, task |-> loop.task])
    <3>1. /\ queue \in Seq(Action) /\ DOMAIN queue = 1..Len(queue)
          /\ DOMAIN queue' = 1..(Len(queue) + 1) /\ Len(queue) \in Nat
          /\ \A i \in 1..Len(queue) : queue'[i] = queue[i]
          /\ queue'[Len(queue) + 1] = [op |-> loop.op, task |-> loop.task]
      BY <1>1, <2>4, AppendProperties DEF TypeInv, LoopTypes, Action
    <3>2. CASE Sending(t)
      <4>1. Queued(t) = {} /\ Started(t) = {}
        BY <2>1, <3>2 DEF Fresh, AtMostOne
      <4>2. Queued(t)' \subseteq {Len(queue) + 1}
        BY <3>1, <4>1 DEF Queued
      <4> QED
        BY <1>1, <2>1, <2>2, <3>2, <4>1, <4>2 DEF Fresh, AtMostOne, NoStart
    <3>3. CASE ~Sending(t)
      <4>1. [op |-> loop.op, task |-> loop.task] # [op |-> "start", task |-> t]
        BY <1>1, <3>3 DEF Sending
      <4>2. Queued(t)' \subseteq Queued(t)
        BY <3>1, <4>1 DEF Queued
      <4> QED
        BY <1>1, <2>1, <2>2, <4>2, Fewer
    <3> QED
      BY <3>2, <3>3
  <2> QED
    BY <2>3, <2>4 DEF Send
<1> QED
  BY <1>2, <1>3 DEF StartsInv

LEMMA LoopStarts ==
  ASSUME TypeInv, TypeInv', StartsInv, LoopStep
  PROVE  StartsInv'
  BY QuietStarts, DecideStarts, SendStarts DEF LoopStep, SyncStep, QuietStep

-----------------------------------------------------------------------------
(* A runner takes an action out of the queue: a start moves with it.       *)
LEMMA TakeStarts ==
  ASSUME TypeInv, TypeInv', StartsInv, NEW r \in Runners, Take(r)
  PROVE  StartsInv'
<1>1. /\ runner[r].at = "idle" /\ queue # << >> /\ queue' = Tail(queue)
      /\ runner' = [runner EXCEPT ![r] = [at |-> Head(queue).op, task |-> Head(queue).task]]
      /\ UNCHANGED <<local, saved, loop, late>>
  BY DEF Take
<1>2. /\ Len(queue) \in Nat \ {0} /\ DOMAIN queue = 1..Len(queue)
      /\ Head(queue) = queue[1] /\ queue[1] \in Action
      /\ DOMAIN queue' = 1..(Len(queue) - 1)
      /\ \A i \in 1..(Len(queue) - 1) : queue'[i] = queue[i + 1]
  BY <1>1, HeadTailProperties, EmptySeq DEF TypeInv, LoopTypes
<1>3. /\ runner'[r] = [at |-> queue[1].op, task |-> queue[1].task]
      /\ \A q \in Runners \ {r} : runner'[q] = runner[q]
  BY <1>1, <1>2 DEF TypeInv, RunnerTypes
<1>4. ASSUME NEW t \in Tasks \ late' PROVE Fresh(t)'
  <2>1. Fresh(t) /\ local[t].attempts \in Nat
    BY <1>1, <1>4 DEF StartsInv, TypeInv, StateTypes, TaskStates
  <2>2. \A i \in Queued(t)' : i + 1 \in Queued(t)
    BY <1>2 DEF Queued
  <2>3. r \notin Started(t) /\ (Sending(t)' <=> Sending(t))
    BY <1>1 DEF Started, Sending
  <2>4. CASE queue[1] = [op |-> "start", task |-> t]
    <3>1. 1 \in Queued(t)
      BY <1>2, <2>4 DEF Queued
    <3>2. Started(t) = {} /\ ~Sending(t)
      BY <2>1, <3>1 DEF Fresh, AtMostOne
    <3>3. Queued(t)' = {}
      BY <1>2, <2>1, <2>2, <3>1 DEF Fresh, AtMostOne, Queued
    <3>4. Started(t)' \subseteq {r}
      BY <1>3, <3>2 DEF Started
    <3>5. local[t].grace /\ local[t].attempts <= MaxAttempts
      BY <2>1, <3>1 DEF Fresh, NoStart
    <3> QED
      BY <1>1, <2>1, <2>3, <3>2, <3>3, <3>4, <3>5 DEF Fresh, AtMostOne, NoStart
  <2>5. CASE queue[1] # [op |-> "start", task |-> t]
    <3>1. ~(queue[1].op = "start" /\ queue[1].task = t) /\ queue[1].op \in {"start", "stop"}
      BY <1>2, <2>5 DEF Action
    <3>2. Started(t)' = Started(t) /\ Waiting(t)' = Waiting(t)
      BY <1>1, <1>3, <3>1 DEF Started, Waiting
    <3>3. \A i, j \in Queued(t)' : i = j
      BY <1>2, <2>1, <2>2 DEF Fresh, AtMostOne, Queued
    <3>4. Queued(t)' # {} => Queued(t) # {}
      BY <2>2
    <3> QED
      BY <1>1, <2>1, <2>3, <3>2, <3>3, <3>4 DEF Fresh, AtMostOne, NoStart
  <2> QED
    BY <2>4, <2>5
<1> QED
  BY <1>1, <1>4 DEF StartsInv, InHandKept

(* Of a start that begins, the attempt is counted.                         *)
LEMMA BeginsStarts ==
  ASSUME TypeInv, TypeInv', StartsInv, NEW r \in Runners, StartBegins(r)
  PROVE  StartsInv'
<1> DEFINE d == runner[r].task
<1>1. /\ runner[r].at = "start" /\ d \in Tasks
      /\ runner' = [runner EXCEPT ![r].at = "run"]
      /\ local' = [local EXCEPT ![d] =
                     [starting |-> TRUE, grace |-> TRUE, attempts |-> @.attempts + 1]]
      /\ UNCHANGED <<queue, loop, saved, late>>
  BY DEF StartBegins, GoOn, CountAttempt, TypeInv, RunnerTypes
<1>2. /\ runner'[r].at = "run" /\ runner'[r].task = d
      /\ \A q \in Runners \ {r} : runner'[q] = runner[q]
  BY <1>1 DEF TypeInv, RunnerTypes
<1>3. ASSUME NEW t \in Tasks
      PROVE  /\ (Sending(t)' <=> Sending(t)) /\ Queued(t)' = Queued(t)
             /\ Started(t)' = Started(t) /\ Waiting(t)' \subseteq Waiting(t) \ {r}
             /\ t = d => r \in Started(t) /\ r \in Waiting(t)
  BY <1>1, <1>2 DEF Sending, Queued, Started, Waiting
<1>4. ASSUME NEW t \in Tasks \ late' PROVE Fresh(t)'
  <2>1. Fresh(t) /\ local[t].attempts \in Nat
    BY <1>1, <1>4 DEF StartsInv, TypeInv, StateTypes, TaskStates
  <2>2. CASE t # d
    <3>1. local'[t] = local[t]
      BY <1>1, <2>2 DEF TypeInv, StateTypes
    <3>2. /\ Sending(t)' => Sending(t)
          /\ Queued(t)' \subseteq Queued(t)
          /\ Started(t)' \subseteq Started(t) /\ Waiting(t)' \subseteq Waiting(t)
      BY <1>3
    <3>3. local'[t].grace = local[t].grace /\ local'[t].attempts <= local[t].attempts
      BY <2>1, <3>1
    <3>4. saved'[t] = saved[t]
      BY <1>1
    <3> QED
      BY <2>1, <3>2, <3>3, <3>4, Fewer
  <2>3. CASE t = d
    <3>1. local'[t].grace /\ local'[t].attempts = local[t].attempts + 1
      BY <1>1, <2>3 DEF TypeInv, StateTypes
    <3>2. r \in Started(t) /\ r \in Waiting(t)
      BY <1>3, <2>3
    <3>3. ~Sending(t) /\ Queued(t) = {} /\ local[t].attempts <= MaxAttempts
      BY <2>1, <3>2 DEF Fresh, AtMostOne
    <3>4. \A q \in Waiting(t) : q = r
      BY <2>1, <3>2 DEF Fresh, AtMostOne, Waiting, Started
    <3>5. Waiting(t)' = {}
      BY <1>3, <3>4
    <3> QED
      BY <1>1, <1>3, <2>1, <3>1, <3>3, <3>5 DEF Fresh, AtMostOne
  <2> QED
    BY <2>2, <2>3
<1> QED
  BY <1>1, <1>4 DEF StartsInv, InHandKept

(* A stop deletes the TaskState: either nothing is pending, or it is late. *)
LEMMA DeletesStarts ==
  ASSUME TypeInv, TypeInv', StartsInv, NEW r \in Runners, StopDeletes(r)
  PROVE  StartsInv'
<1> DEFINE d == runner[r].task
<1>1. /\ runner[r].at = "delete" /\ d \in Tasks
      /\ runner' = [runner EXCEPT ![r].at = "deleted"]
      /\ local' = [local EXCEPT ![d] = NoState]
      /\ late \subseteq late' /\ late' \subseteq late \union {d}
      /\ d \notin late' => Pending(d) = 0 /\ loop.copy[d] # "scheduled"
      /\ UNCHANGED <<queue, saved>>
  BY DEF StopDeletes, GoOn, TypeInv, RunnerTypes
<1>2. \/ loop' = loop
      \/ /\ loop.task = d /\ loop.at \in {"probe", "decide"}
         /\ loop' = [loop EXCEPT !.lost = <<local[d]>>]
  BY DEF StopDeletes
<1>3. /\ loop'.at = loop.at /\ loop'.op = loop.op /\ loop'.task = loop.task
      /\ loop'.copy = loop.copy
      /\ loop' = loop \/ (loop.task = d /\ loop.at \in {"probe", "decide"})
  BY <1>2 DEF TypeInv, LoopTypes, Loop
<1>4. InHandKept'
  <2>1. CASE loop' = loop
    BY <1>1, <2>1 DEF StartsInv, InHandKept
  <2>2. CASE loop.task = d /\ loop.at \in {"probe", "decide"}
    BY <1>1, <1>3, <2>2 DEF InHandKept
  <2> QED
    BY <1>3, <2>1, <2>2
<1>5. ASSUME NEW t \in Tasks
      PROVE  /\ (Sending(t)' <=> Sending(t)) /\ Queued(t)' = Queued(t)
             /\ Started(t)' \subseteq Started(t) /\ Waiting(t)' \subseteq Waiting(t)
  BY <1>1, <1>3 DEF Sending, Queued, Started, Waiting, TypeInv, RunnerTypes
<1>6. ASSUME NEW t \in Tasks \ late' PROVE Fresh(t)'
  <2>1. Fresh(t) /\ local[t].attempts \in Nat
    BY <1>1, <1>6 DEF StartsInv, TypeInv, StateTypes, TaskStates
  <2>2. CASE t # d
    <3>1. local'[t] = local[t]
      BY <1>1, <2>2 DEF TypeInv, StateTypes
    <3> QED
      BY <1>1, <1>5, <2>1, <3>1, Fewer
  <2>3. CASE t = d
    <3>1. NoStart(t) /\ Waiting(t) = {}
      BY <1>1, <1>6, <2>3, PendingCounts DEF NoStart, Waiting, Started
    <3>2. local'[t].attempts = 0
      BY <1>1, <2>3 DEF NoState, TypeInv, StateTypes
    <3>3. NoStart(t)' /\ Waiting(t)' = {}
      BY <1>5, <3>1 DEF NoStart
    <3> QED
      BY <1>1, <2>1, <3>2, <3>3 DEF Fresh, AtMostOne, NoStart
  <2> QED
    BY <2>2, <2>3
<1> QED
  BY <1>4, <1>6 DEF StartsInv

LEMMA RunnerStarts ==
  ASSUME TypeInv, TypeInv', StartsInv, NEW r \in Runners, RunnerMoves(r)
  PROVE  StartsInv'
<1>1. CASE Take(r)
  BY <1>1, TakeStarts
<1>2. CASE StartBegins(r)
  BY <1>2, BeginsStarts
<1>3. CASE StopDeletes(r)
  BY <1>3, DeletesStarts
<1>4. CASE ~Take(r) /\ ~StartBegins(r) /\ ~StopDeletes(r)
  <2>1. /\ UNCHANGED <<queue, loop, local, saved, late>>
        /\ \A q \in Runners \ {r} : runner'[q] = runner[q]
    BY <1>4 DEF RunnerMoves, RunnerStep, StartTask, StartTaskFails, StartEnds, StopBegins, StopTask,
          StopTaskFails, StopEnds, PutStateFails, GoOn, GoIdle, TypeInv, RunnerTypes
  <2>2. \/ runner'[r].at \notin {"start", "run", "ran"}
        \/ /\ runner[r].at = "run" /\ runner'[r].at = "ran" /\ runner'[r].task = runner[r].task
    BY <1>4 DEF RunnerMoves, RunnerStep, StartTask, StartTaskFails, StartEnds, StopBegins, StopTask,
          StopTaskFails, StopEnds, PutStateFails, GoOn, GoIdle, Idle, TypeInv, RunnerTypes
  <2>3. ASSUME NEW t \in Tasks
        PROVE  Started(t)' \subseteq Started(t) /\ Waiting(t)' \subseteq Waiting(t)
    BY <2>1, <2>2 DEF Started, Waiting
  <2>4. ASSUME NEW t \in Tasks \ late' PROVE Fresh(t)'
    <3>1. Fresh(t) /\ local[t].attempts \in Nat
      BY <2>1, <2>4 DEF StartsInv, TypeInv, StateTypes, TaskStates
    <3>2. Sending(t)' = Sending(t) /\ Queued(t)' = Queued(t)
      BY <2>1 DEF Sending, Queued
    <3> QED
      BY <2>1, <2>3, <3>1, <3>2, Fewer
  <2> QED
    BY <2>1, <2>4 DEF StartsInv, InHandKept
<1> QED
  BY <1>1, <1>2, <1>3, <1>4

(* The end of the process takes all starts with it.                        *)
LEMMA RestartStarts ==
  ASSUME TypeInv, TypeInv', StartsInv, Restart
  PROVE  StartsInv'
<1>1. /\ saved' = local \/ saved' = saved
      /\ local' = Loaded(saved') /\ queue' = << >> /\ loop' = AtRest
      /\ runner' = [r \in Runners |-> Idle] /\ late' = late
  BY DEF Restart, Stops, Crashes
<1>2. ASSUME NEW t \in Tasks \ late' PROVE Fresh(t)'
  <2>1. Fresh(t)
    BY <1>1, <1>2 DEF StartsInv
  <2>2. local'[t].attempts = saved'[t].attempts
    BY <1>1 DEF Loaded, TypeInv, StateTypes, TaskStates
  <2>3. saved'[t].attempts <= MaxAttempts + 1
    BY <1>1, <2>1 DEF Fresh
  <2>4. ~Sending(t)' /\ Queued(t)' = {} /\ Started(t)' = {} /\ Waiting(t)' = {}
    BY <1>1 DEF Sending, Queued, Started, Waiting, AtRest, Idle
  <2> QED
    BY <2>2, <2>3, <2>4 DEF Fresh, AtMostOne, NoStart
<1>3. InHandKept'
  BY <1>1 DEF InHandKept, AtRest
<1> QED
  BY <1>2, <1>3 DEF StartsInv

(* A grace period ends only when no start is pending any more.             *)
LEMMA GraceStarts ==
  ASSUME ~Slow, TypeInv, TypeInv', StartsInv, NEW d \in Tasks, GraceEnds(d)
  PROVE  StartsInv'
<1>1. /\ Pending(d) = 0 /\ local' = [local EXCEPT ![d].grace = FALSE]
      /\ UNCHANGED <<queue, loop, runner, saved, late>>
  BY DEF GraceEnds
<1>2. ASSUME NEW t \in Tasks \ late' PROVE Fresh(t)'
  <2>1. Fresh(t) /\ local[t].attempts \in Nat
    BY <1>1, <1>2 DEF StartsInv, TypeInv, StateTypes, TaskStates
  <2>2. /\ Sending(t)' = Sending(t) /\ Queued(t)' = Queued(t)
        /\ Started(t)' = Started(t) /\ Waiting(t)' = Waiting(t)
    BY <1>1 DEF Sending, Queued, Started, Waiting
  <2>3. local'[t].attempts = local[t].attempts
    BY <1>1 DEF TypeInv, StateTypes, TaskStates
  <2>4. NoStart(t) \/ local'[t].grace = local[t].grace
    BY <1>1, PendingCounts DEF TypeInv, StateTypes, TaskStates
  <2> QED
    BY <1>1, <2>1, <2>2, <2>3, <2>4 DEF Fresh, AtMostOne, NoStart
<1> QED
  BY <1>1, <1>2 DEF StartsInv, InHandKept

LEMMA NextStarts == ~Slow /\ TypeInv /\ StartsInv /\ [Next]_vars => StartsInv'
<1> SUFFICES ASSUME ~Slow, TypeInv, StartsInv, [Next]_vars PROVE StartsInv'
  OBVIOUS
<1>1. TypeInv'
  BY NextTypes
<1>2. ASSUME UNCHANGED <<local, saved, queue, loop, runner, late>> PROVE StartsInv'
  BY <1>2 DEF StartsInv, Fresh, AtMostOne, NoStart, Sending, Queued, Started, Waiting, InHandKept
<1>3. CASE UNCHANGED vars
  BY <1>2, <1>3 DEF vars
<1>4. CASE Environment
  BY <1>2, <1>4 DEF Environment, Issue, Unschedule, Dies, CheckRuns, MonitorReports, agentVars
<1> QED
  BY <1>1, <1>3, <1>4, NextCases, LoopStarts, RunnerStarts, RestartStarts, GraceStarts

LEMMA SpecStarts == ~Slow => (Spec => [](TypeInv /\ StartsInv))
<1>1. Init => TypeInv /\ StartsInv
  BY InitTypes, InitStarts
<1>2. ~Slow /\ TypeInv /\ StartsInv /\ [Next]_vars => TypeInv' /\ StartsInv'
  BY NextTypes, NextStarts
<1> SUFFICES ASSUME ~Slow PROVE Spec => [](TypeInv /\ StartsInv)
  OBVIOUS
<1>3. TypeInv /\ StartsInv /\ [Next]_vars => TypeInv' /\ StartsInv'
  BY <1>2
<1> QED
  BY <1>1, <1>3, PTL DEF Spec

(* No task is queued to be started, or started, twice at once, if a start  *)
(* takes less than the grace period (agent.go:281-317), except one that a  *)
(* late stop deleted: whatever fails, and however often the agent ends.    *)
THEOREM AgentOneStart == ~Slow => (Spec => []OneStart)
<1> SUFFICES ASSUME ~Slow PROVE Spec => []OneStart
  OBVIOUS
<1>1. Spec => [](TypeInv /\ StartsInv)
  BY SpecStarts
<1>2. TypeInv /\ StartsInv => OneStart
  BY PendingCounts DEF StartsInv, Fresh, OneStart
<1> QED
  BY <1>1, <1>2, PTL

(* The attempts at a task end at the maximum of its deployment and one     *)
(* (agent.go:108-111, 289), over clean and unclean ends of the agent.      *)
THEOREM AgentAttemptsBounded == ~Slow => (Spec => []AttemptsBounded)
<1> SUFFICES ASSUME ~Slow PROVE Spec => []AttemptsBounded
  OBVIOUS
<1>1. Spec => [](TypeInv /\ StartsInv)
  BY SpecStarts
<1>2. StartsInv => AttemptsBounded
  BY DEF StartsInv, Fresh, AttemptsBounded
<1> QED
  BY <1>1, <1>2, PTL
=============================================================================
