--------------------------- MODULE ObserversProofs ---------------------------
(***************************************************************************)
(* The health agents and the discovery agent, for all hosts, tasks, checks *)
(* and services: their types, and that behind every entry of a health      *)
(* agent there is a monitor.  The monitors are a bag, so the proofs rest   *)
(* on two lemmas about bags.                                               *)
(***************************************************************************)
EXTENDS Observers, TLAPS

USE HealthChecksAssumption, HealthNoneAssumption, ToleranceAssumption, EventsAssumption,
    ServicesAssumption, EditsAssumption
    DEF HealthChecksAssumption, HealthNoneAssumption, ToleranceAssumption, EventsAssumption,
        ServicesAssumption, EditsAssumption

(* Monitors that start are added to those that run. *)
LEMMA AddedToBag ==
  ASSUME NEW B, IsABag(B), NEW S
  PROVE  IsABag(B (+) SetToBag(S)) /\ DOMAIN (B (+) SetToBag(S)) = DOMAIN B \union S
<1> DEFINE C == B (+) SetToBag(S)
<1>1. DOMAIN C = DOMAIN B \union S
  BY DEF (+), SetToBag
<1>2. ASSUME NEW e \in DOMAIN C PROVE C[e] \in {n \in Nat : n > 0}
  <2>1. e \in DOMAIN B => B[e] \in Nat /\ B[e] > 0
    BY DEF IsABag
  <2> QED BY <1>1, <1>2, <2>1 DEF (+), SetToBag
<1>3. C = [e \in DOMAIN C |-> C[e]]
  BY DEF (+)
<1> HIDE DEF C
<1>4. IsABag(C)
  BY <1>2, <1>3 DEF IsABag
<1> QED BY <1>1, <1>4 DEF C

(* Those of one host end. *)
LEMMA RestOfBag ==
  ASSUME NEW B, IsABag(B), NEW S, S \subseteq DOMAIN B
  PROVE  IsABag([b \in S |-> B[b]])
<1>1. \A b \in S : B[b] \in {n \in Nat : n > 0}
  BY DEF IsABag
<1>2. [b \in S |-> B[b]] \in [S -> {n \in Nat : n > 0}]
  BY <1>1
<1> QED BY <1>2 DEF IsABag

(* A monitor goes on: all the others are still there, and it in its new    *)
(* state.                                                                  *)
LEMMA ChangedInBag ==
  ASSUME NEW B, IsABag(B), NEW m, NEW n
  PROVE  LET C == (B (-) SetToBag({m})) (+) SetToBag({n}) IN
         /\ IsABag(C)
         /\ DOMAIN C \subseteq DOMAIN B \union {n}
         /\ n \in DOMAIN C
         /\ \A b \in DOMAIN B : b # m => b \in DOMAIN C
<1> DEFINE R == B (-) SetToBag({m})
<1>1. \A e \in DOMAIN B : B[e] \in Nat /\ B[e] > 0
  BY DEF IsABag
<1>2. R = [e \in {d \in DOMAIN B : (IF d = m THEN B[d] - 1 ELSE B[d]) > 0} |->
             IF e = m THEN B[e] - 1 ELSE B[e]]
  <2>1. DOMAIN SetToBag({m}) = {m} /\ SetToBag({m})[m] = 1
    BY DEF SetToBag
  <2> QED BY <2>1, Zenon DEF (-)
<1> HIDE DEF R
<1>3. \A e \in DOMAIN R : e \in DOMAIN B /\ R[e] \in {k \in Nat : k > 0}
  BY <1>1, <1>2
<1>4. \A b \in DOMAIN B : b # m => b \in DOMAIN R
  BY <1>1, <1>2
<1>5. R = [e \in DOMAIN R |-> R[e]]
  BY <1>2
<1>6. IsABag(R)
  BY <1>3, <1>5 DEF IsABag
<1>7. IsABag(R (+) SetToBag({n})) /\ DOMAIN (R (+) SetToBag({n})) = DOMAIN R \union {n}
  BY <1>6, AddedToBag
<1> QED BY <1>3, <1>4, <1>7 DEF R

-----------------------------------------------------------------------------
(* The health agents.  The types by owner: what the environment changes,   *)
(* and what the agents and their monitors do.                              *)
WorldTypes ==
  /\ host \in [Tasks -> Hosts \union {None}]
  /\ passing \in [Tasks -> SUBSET Checks]
  /\ \A t \in Tasks : passing[t] \subseteq ChecksOf[t]
  /\ state \in [Tasks -> TaskState]
  /\ events \in 0..MaxEvents

LoopTypes ==
  /\ entry \in [Hosts -> [Checks -> Tasks \union {None}]]
  /\ \A h \in Hosts, c \in Checks : entry[h][c] # None => c \in ChecksOf[entry[h][c]]
  /\ listed \in [Hosts -> {<< >>} \union {<<ts>> : ts \in SUBSET Tasks}]

MonitorTypes == IsABag(monitors) /\ DOMAIN monitors \subseteq Monitor

HealthInv == WorldTypes /\ LoopTypes /\ MonitorTypes /\ Backed

LEMMA HealthInvTypes == HealthInv => HealthTypeOK
BY DEF HealthInv, WorldTypes, LoopTypes, MonitorTypes, HealthTypeOK, BagToSet

LEMMA InitHealthInv == HealthInit => HealthInv
<1> SUFFICES ASSUME HealthInit PROVE HealthInv
  OBVIOUS
<1>1. WorldTypes /\ LoopTypes /\ Backed
  BY DEF HealthInit, WorldTypes, LoopTypes, Backed, TaskState
<1>2. MonitorTypes
  BY DEF HealthInit, MonitorTypes, EmptyBag, SetToBag, IsABag
<1> QED BY <1>1, <1>2 DEF HealthInv

(* The environment leaves the agents and the monitors alone. *)
LEMMA EnvironmentHealthInv ==
  ASSUME HealthInv,
         \/ \E t \in Tasks, h \in Hosts \union {None} : Move(t, h)
         \/ \E t \in Tasks, c \in Checks : Flip(t, c)
         \/ \E t \in Tasks, s \in AgentState : AgentPuts(t, s)
  PROVE  HealthInv'
<1> USE DEF HealthInv
<1>1. UNCHANGED <<entry, listed, monitors>>
  BY DEF Move, Flip, AgentPuts
<1>2. LoopTypes' /\ MonitorTypes' /\ Backed'
  BY <1>1 DEF LoopTypes, MonitorTypes, Backed
<1>3. ASSUME NEW t \in Tasks, NEW h \in Hosts \union {None}, Move(t, h) PROVE WorldTypes'
  BY <1>3 DEF Move, Event, WorldTypes
<1>4. ASSUME NEW t \in Tasks, NEW c \in Checks, Flip(t, c) PROVE WorldTypes'
  BY <1>4 DEF Flip, Event, WorldTypes
<1>5. ASSUME NEW t \in Tasks, NEW s \in AgentState, AgentPuts(t, s) PROVE WorldTypes'
  BY <1>5 DEF AgentPuts, Event, WorldTypes, TaskState
<1> QED BY <1>2, <1>3, <1>4, <1>5

(* What a sync has listed. *)
LEMMA ListedTasks ==
  ASSUME LoopTypes, NEW h \in Hosts, listed[h] # << >>
  PROVE  listed[h][1] \subseteq Tasks
BY DEF LoopTypes

LEMMA StartedMonitor ==
  ASSUME NEW h \in Hosts, NEW t \in Tasks, NEW c \in Checks
  PROVE  Started(h, t, c) \in Monitor
BY DEF Started, Monitor

LEMMA SyncListsHealthInv ==
  ASSUME HealthInv, NEW h \in Hosts, SyncLists(h)
  PROVE  HealthInv'
<1> USE DEF HealthInv
<1>1. UNCHANGED <<host, passing, state, entry, monitors, events>>
  BY DEF SyncLists
<1>2. WorldTypes' /\ MonitorTypes' /\ Backed'
  BY <1>1 DEF WorldTypes, MonitorTypes, Backed
<1>3. <<{t \in Tasks : host[t] = h}>> \in {<<ts>> : ts \in SUBSET Tasks}
  OBVIOUS
<1>4. LoopTypes'
  BY <1>1, <1>3 DEF SyncLists, LoopTypes
<1> QED BY <1>2, <1>4

(* An entry that a sync adds gets its monitor in the same step; an entry   *)
(* that stays keeps its own; one that is collected needs none.             *)
LEMMA SyncAppliesHealthInv ==
  ASSUME HealthInv, NEW h \in Hosts, SyncApplies(h)
  PROVE  HealthInv'
<1> USE DEF HealthInv
<1>1. PICK task \in [Missing(h) -> listed[h][1]] :
        /\ \A c \in Missing(h) : c \in ChecksOf[task[c]]
        /\ entry' = [entry EXCEPT ![h] = Collected(h,
                       [c \in Checks |-> IF c \in Missing(h) THEN task[c] ELSE entry[h][c]])]
        /\ monitors' = monitors (+) SetToBag({Started(h, task[c], c) : c \in Missing(h)})
  BY DEF SyncApplies
<1> DEFINE new == {Started(h, task[c], c) : c \in Missing(h)}
<1>2. listed[h] # << >> /\ listed' = [listed EXCEPT ![h] = << >>]
      /\ UNCHANGED <<host, passing, state, events>>
  BY DEF SyncApplies
<1>3. Missing(h) \subseteq Checks /\ \A c \in Missing(h) : task[c] \in Tasks
  BY <1>1, <1>2, ListedTasks DEF Missing
<1>4. IsABag(monitors') /\ DOMAIN monitors' = DOMAIN monitors \union new
  BY <1>1, AddedToBag DEF MonitorTypes
<1>5. new \subseteq Monitor
  BY <1>3, StartedMonitor
<1>6. WorldTypes' /\ MonitorTypes'
  BY <1>2, <1>4, <1>5 DEF WorldTypes, MonitorTypes
<1>7. entry' \in [Hosts -> [Checks -> Tasks \union {None}]]
  <2> DEFINE map == [c \in Checks |-> IF c \in Missing(h) THEN task[c] ELSE entry[h][c]]
  <2>1. Collected(h, map) \in [Checks -> Tasks \union {None}]
    BY <1>2, ListedTasks DEF Collected
  <2> QED BY <1>1, <2>1 DEF LoopTypes
<1>8. ASSUME NEW g \in Hosts, NEW c \in Checks, entry'[g][c] # None
      PROVE  \/ g = h /\ c \in Missing(h) /\ entry'[g][c] = task[c]
             \/ entry'[g][c] = entry[g][c]
  BY <1>1, <1>8 DEF LoopTypes, Collected
<1>9. LoopTypes'
  BY <1>1, <1>2, <1>7, <1>8 DEF LoopTypes
<1>10. Backed'
  <2> SUFFICES ASSUME NEW g \in Hosts, NEW c \in Checks, entry'[g][c] # None
               PROVE  \E m \in DOMAIN monitors' :
                        m.host = g /\ m.task = entry'[g][c] /\ m.check = c
    BY DEF Backed
  <2>1. CASE g = h /\ c \in Missing(h) /\ entry'[g][c] = task[c]
    <3>1. Started(h, task[c], c) \in DOMAIN monitors'
      BY <1>4, <2>1
    <3> QED BY <2>1, <3>1 DEF Started
  <2>2. CASE entry'[g][c] = entry[g][c]
    BY <1>4, <2>2 DEF Backed
  <2> QED BY <1>8, <2>1, <2>2
<1> QED BY <1>6, <1>9, <1>10

(* A monitor that becomes another state of itself keeps its host, its task *)
(* and its check.                                                          *)
LEMMA BecomesHealthInv ==
  ASSUME HealthInv, NEW m \in DOMAIN monitors, NEW n \in Monitor, Becomes(m, n),
         n.host = m.host /\ n.task = m.task /\ n.check = m.check,
         UNCHANGED <<entry, listed>>
  PROVE  LoopTypes' /\ MonitorTypes' /\ Backed'
<1> USE DEF HealthInv
<1>1. /\ IsABag(monitors')
      /\ DOMAIN monitors' \subseteq DOMAIN monitors \union {n}
      /\ n \in DOMAIN monitors'
      /\ \A b \in DOMAIN monitors : b # m => b \in DOMAIN monitors'
  BY ChangedInBag DEF Becomes, MonitorTypes
<1>2. LoopTypes' /\ MonitorTypes'
  BY <1>1 DEF LoopTypes, MonitorTypes
<1>3. Backed'
  <2> SUFFICES ASSUME NEW h \in Hosts, NEW c \in Checks, entry[h][c] # None
               PROVE  \E b \in DOMAIN monitors' :
                        b.host = h /\ b.task = entry[h][c] /\ b.check = c
    BY DEF Backed
  <2>1. PICK b \in DOMAIN monitors : b.host = h /\ b.task = entry[h][c] /\ b.check = c
    BY DEF Backed
  <2> QED BY <1>1, <2>1
<1> QED BY <1>2, <1>3

LEMMA MonitorHealthInv ==
  ASSUME HealthInv, NEW m \in DOMAIN monitors, Check(m) \/ Report(m)
  PROVE  HealthInv'
<1> USE DEF HealthInv
<1>1. m \in Monitor
  BY DEF MonitorTypes
<1>2. CASE Check(m)
  <2> DEFINE n == [m EXCEPT !.failures = Counted(m), !.due = TRUE]
  <2>1. Counted(m) \in 0..(Tolerance + 1)
    BY <1>1 DEF Counted, Monitor
  <2>2. n \in Monitor /\ n.host = m.host /\ n.task = m.task /\ n.check = m.check
    BY <1>1, <2>1 DEF Monitor
  <2>3. Becomes(m, n) /\ UNCHANGED <<host, passing, state, entry, listed, events>>
    BY <1>2 DEF Check
  <2>4. LoopTypes' /\ MonitorTypes' /\ Backed'
    BY <2>2, <2>3, BecomesHealthInv
  <2> QED BY <2>3, <2>4 DEF WorldTypes
<1>3. CASE Report(m)
  <2> DEFINE n == [m EXCEPT !.due = FALSE]
  <2>1. n \in Monitor /\ n.host = m.host /\ n.task = m.task /\ n.check = m.check
    BY <1>1 DEF Monitor
  <2>2. Becomes(m, n) /\ UNCHANGED <<host, passing, entry, listed>>
    BY <1>3 DEF Report
  <2>3. LoopTypes' /\ MonitorTypes' /\ Backed'
    BY <2>1, <2>2, BecomesHealthInv
  <2>4. m.task \in Tasks /\ Status(m) \in TaskState
    BY <1>1 DEF Monitor, Status, TaskState
  <2>5. WorldTypes'
    BY <1>3, <2>2, <2>4 DEF Report, Event, WorldTypes
  <2> QED BY <2>3, <2>5
<1> QED BY <1>2, <1>3

(* The process of a host takes its map and its monitors with it, and only  *)
(* its own.                                                                *)
LEMMA RestartHealthInv ==
  ASSUME HealthInv, NEW h \in Hosts, HealthRestart(h)
  PROVE  HealthInv'
<1> USE DEF HealthInv
<1>1. DOMAIN monitors' = {m \in DOMAIN monitors : m.host # h}
  BY DEF HealthRestart
<1>2. MonitorTypes'
  BY <1>1, RestOfBag DEF MonitorTypes, HealthRestart
<1>3. WorldTypes'
  BY DEF HealthRestart, Event, WorldTypes
<1>4. LoopTypes'
  BY DEF HealthRestart, LoopTypes
<1>5. Backed'
  <2> SUFFICES ASSUME NEW g \in Hosts, NEW c \in Checks, entry'[g][c] # None
               PROVE  \E m \in DOMAIN monitors' :
                        m.host = g /\ m.task = entry'[g][c] /\ m.check = c
    BY DEF Backed
  <2>1. g # h /\ entry'[g][c] = entry[g][c]
    BY DEF HealthRestart, LoopTypes
  <2>2. PICK m \in DOMAIN monitors : m.host = g /\ m.task = entry[g][c] /\ m.check = c
    BY <2>1 DEF Backed
  <2> QED BY <1>1, <2>1, <2>2
<1> QED BY <1>2, <1>3, <1>4, <1>5

LEMMA NextHealthInv == HealthInv /\ [HealthNext]_healthVars => HealthInv'
<1> SUFFICES ASSUME HealthInv, [HealthNext]_healthVars PROVE HealthInv'
  OBVIOUS
<1>1. CASE UNCHANGED healthVars
  BY <1>1 DEF healthVars, HealthInv, WorldTypes, LoopTypes, MonitorTypes, Backed
<1>2. CASE HealthNext
  BY <1>2, EnvironmentHealthInv, SyncListsHealthInv, SyncAppliesHealthInv, MonitorHealthInv,
     RestartHealthInv DEF HealthNext, Sync
<1> QED BY <1>1, <1>2

-----------------------------------------------------------------------------
(* The discovery agent. *)
DiscoveryInv ==
  /\ D!DiscoveryTypeOK
  /\ known \in [Services -> SUBSET (Hosts \union {None})]

LEMMA InitDiscoveryInv == D!DiscoveryInit => DiscoveryInv
<1> SUFFICES ASSUME D!DiscoveryInit PROVE DiscoveryInv
  OBVIOUS
<1>1. known \in [Services -> SUBSET (Hosts \union {None})] /\ \A s \in Services : known[s] = {None}
  BY DEF D!DiscoveryInit
<1>2. registered = {} /\ spc = "wait" /\ todo = {} /\ locked = FALSE
  BY DEF D!DiscoveryInit
<1>3. cpc \in [Clients -> {"idle", "lock", "select", "read"}] /\ edits \in 0..MaxEdits
  BY DEF D!DiscoveryInit
<1> QED BY <1>1, <1>2, <1>3 DEF DiscoveryInv, D!DiscoveryTypeOK

(* What it stores are hosts. *)
LEMMA EndpointsHosts ==
  ASSUME HealthInv, NEW s \in Services
  PROVE  D!Endpoints(s) \subseteq Hosts
BY DEF HealthInv, WorldTypes, D!Endpoints

(* The loop; the lock is held between the listing and the return. *)
LEMMA SyncDiscoveryInv ==
  ASSUME HealthInv, DiscoveryInv, D!SyncStep
  PROVE  DiscoveryInv'
<1> USE DEF DiscoveryInv, D!DiscoveryTypeOK
<1>1. CASE D!SyncReads
  BY <1>1 DEF D!SyncReads
<1>2. CASE D!SyncLocks
  BY <1>2 DEF D!SyncLocks
<1>3. CASE D!SyncEnds
  BY <1>3 DEF D!SyncEnds, D!Return, D!Unlock
<1>4. ASSUME NEW s \in Services, D!Finds(s) PROVE DiscoveryInv'
  BY <1>4, EndpointsHosts DEF D!Finds
<1>5. ASSUME NEW s \in Services, D!FindFails(s) PROVE DiscoveryInv'
  <2>1. spc' = "wait" /\ todo' = {} /\ locked' = FALSE /\ UNCHANGED <<registered, known, cpc>>
    BY <1>5 DEF D!FindFails, D!Return, D!Unlock
  <2>2. edits' \in 0..MaxEdits
    BY <1>5 DEF D!FindFails, D!EditOrError
  <2> QED BY <2>1, <2>2
<1> QED BY <1>1, <1>2, <1>3, <1>4, <1>5 DEF D!SyncStep

LEMMA ListenDiscoveryInv ==
  ASSUME DiscoveryInv, NEW c \in Clients, D!Poll(c) \/ D!Listen(c)
  PROVE  DiscoveryInv'
BY DEF DiscoveryInv, D!DiscoveryTypeOK, D!Poll, D!Listen, D!Subscribe, D!TimesOut, D!Answer,
       D!GoTo, D!elsewhere

LEMMA NextDiscoveryInv ==
  ASSUME HealthInv, DiscoveryInv, D!DiscoveryNext
  PROVE  DiscoveryInv'
<1>1. CASE D!Stop
  BY <1>1 DEF D!Stop, D!EditOrError, DiscoveryInv, D!DiscoveryTypeOK
<1>2. ASSUME NEW s \in Services, D!Edit(s) PROVE DiscoveryInv'
  BY <1>2 DEF D!Edit, D!EditOrError, DiscoveryInv, D!DiscoveryTypeOK
<1> QED BY <1>1, <1>2, SyncDiscoveryInv, ListenDiscoveryInv DEF D!DiscoveryNext

-----------------------------------------------------------------------------
(* Both together. *)
ObserversInv == HealthInv /\ DiscoveryInv

LEMMA InitObserversInv == Init => ObserversInv
BY InitHealthInv, InitDiscoveryInv DEF Init, ObserversInv

LEMMA NextObserversInv == ObserversInv /\ [Next]_vars => ObserversInv'
<1> SUFFICES ASSUME ObserversInv, [Next]_vars PROVE ObserversInv'
  OBVIOUS
<1> USE DEF ObserversInv
<1>1. ASSUME UNCHANGED discovery, DiscoveryInv PROVE DiscoveryInv'
  BY <1>1 DEF discovery, DiscoveryInv, D!DiscoveryTypeOK
<1>2. ASSUME UNCHANGED healthVars PROVE HealthInv'
  BY <1>2, NextHealthInv
<1>3. CASE HealthNext /\ UNCHANGED discovery
  BY <1>1, <1>3, NextHealthInv
<1>4. CASE D!DiscoveryNext /\ UNCHANGED <<entry, listed, monitors, events>>
  <2>1. UNCHANGED healthVars
    BY <1>4 DEF D!DiscoveryNext, healthVars
  <2> QED BY <1>2, <1>4, <2>1, NextDiscoveryInv
<1>5. CASE UNCHANGED vars
  BY <1>1, <1>2, <1>5 DEF vars
<1> QED BY <1>3, <1>4, <1>5 DEF Next

(* Type correctness of both agents: the counters of the monitors stay      *)
(* within the tolerance, the entries name tasks that have the check, what  *)
(* is known of a service are hosts, and the lock is held exactly while a   *)
(* sync looks up services or announces one.                                *)
THEOREM ObserversTypeCorrect == Spec => []TypeOK
<1>1. ObserversInv => TypeOK
  BY HealthInvTypes DEF ObserversInv, DiscoveryInv, TypeOK
<1> QED BY <1>1, InitObserversInv, NextObserversInv, PTL DEF Spec

(* Behind every entry of a health agent there is a monitor, for any number *)
(* of hosts, tasks and checks (health/agent.go:76-103).                    *)
THEOREM EntriesBacked == Spec => []Backed
<1>1. ObserversInv => Backed
  BY DEF ObserversInv, HealthInv
<1> QED BY <1>1, InitObserversInv, NextObserversInv, PTL DEF Spec
==============================================================================
