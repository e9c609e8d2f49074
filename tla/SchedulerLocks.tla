--------------------------- MODULE SchedulerLocks ---------------------------
(***************************************************************************)
(* The lock that a master's workers take before they schedule a service:   *)
(* Master.schedule (master/master.go:144-187), SchedulerLocks              *)
(* (master/lockers.go), ConsulLockWrapper (backends/consul/consul_lock.go) *)
(* and, as the external part, the Lock of the Consul client library with   *)
(* LockTryOnce set, and the sessions of the Consul server.                 *)
(*                                                                         *)
(* A master is one process.  Its workers share one SchedulerLocks: a mutex *)
(* and one wrapper per service.  A wrapper holds the library's lock        *)
(* (libHeld), the flag the program reads (held), and starts a goroutine    *)
(* per Lock call that clears the flag once the leader channel closes.  A   *)
(* master that restarts keeps nothing: it is another member of Masters.    *)
(***************************************************************************)
EXTENDS Integers, FiniteSets

CONSTANTS
  Masters,
  Services,
  Runners,    (* master -> Config.Runners, its workers; 3 by default       *)
  NoMaster,   (* the key's session when nobody holds it                    *)
  NoWorker,   (* the owner of a free mutex                                 *)
  NoService,  (* what an idle worker works on                              *)
  MaxEnded    (* bound: watchers of one wrapper that have yet to run       *)

ASSUME RunnersAssumption == Runners \in [Masters -> Nat \ {0}]
ASSUME MaxEndedAssumption == MaxEnded \in Nat \ {0}
ASSUME NoneAssumption == NoMaster \notin Masters /\ NoService \notin Services

Workers == UNION {{m} \X (1..Runners[m]) : m \in Masters}
Master(w) == w[1]

ASSUME NoWorkerAssumption == NoWorker \notin Workers

VARIABLES
  holder,   (* service -> master whose session owns the key in Consul      *)
  libHeld,  (* master, service -> isHeld of the library's lock             *)
  held,     (* master, service -> ConsulLockWrapper.held                   *)
  ended,    (* master, service -> acquisitions that are over and whose     *)
            (* watcher goroutine has not cleared held yet                  *)
  mutex,    (* master -> worker inside SchedulerLocks.Lock or Unlock       *)
  pc,       (* worker -> its place in Master.schedule                      *)
  target,   (* worker -> the service of its request                        *)
  life,     (* master -> "up", "stopping" in Locks.Stop, "quit" once the   *)
            (* quit channel is closed, "dead"                              *)
  unstopped (* master -> the wrappers Locks.Stop has yet to unlock         *)

vars == <<holder, libHeld, held, ended, mutex, pc, target, life, unstopped>>

lockVars == <<holder, libHeld, held, ended>>
lifeVars == <<life, unstopped>>

(* The places of a worker: waiting in Pop, at the mutex, in the library's  *)
(* Lock call, before IsHeld, in Schedule, at the deferred Unlock, gone.    *)
Place == {"idle", "lock", "locking", "locked", "schedule", "unlock", "exited"}

TypeOK ==
  /\ holder \in [Services -> Masters \union {NoMaster}]
  /\ libHeld \in [Masters -> [Services -> BOOLEAN]]
  /\ held \in [Masters -> [Services -> BOOLEAN]]
  /\ ended \in [Masters -> [Services -> 0..MaxEnded]]
  /\ mutex \in [Masters -> Workers \union {NoWorker}]
  /\ pc \in [Workers -> Place]
  /\ target \in [Workers -> Services \union {NoService}]
  /\ life \in [Masters -> {"up", "stopping", "quit", "dead"}]
  /\ unstopped \in [Masters -> SUBSET Services]

Init ==
  /\ holder = [s \in Services |-> NoMaster]
  /\ libHeld = [m \in Masters |-> [s \in Services |-> FALSE]]
  /\ held = [m \in Masters |-> [s \in Services |-> FALSE]]
  /\ ended = [m \in Masters |-> [s \in Services |-> 0]]
  /\ mutex = [m \in Masters |-> NoWorker]
  /\ pc = [w \in Workers |-> "idle"]
  /\ target = [w \in Workers |-> NoService]
  /\ life = [m \in Masters |-> "up"]
  /\ unstopped = [m \in Masters |-> {}]

-----------------------------------------------------------------------------
(* Helpers *)

Goto(w, from, to) == pc[w] = from /\ pc' = [pc EXCEPT ![w] = to]

(* The worker leaves schedule and waits for its next request. *)
GoIdle(w, from) ==
  /\ Goto(w, from, "idle")
  /\ target' = [target EXCEPT ![w] = NoService]

(* lockers.go:25 and 51, and the deferred s.lock.Unlock(). *)
TakeMutex(w) ==
  /\ mutex[Master(w)] = NoWorker
  /\ mutex' = [mutex EXCEPT ![Master(w)] = w]
FreeMutex(w) == mutex' = [mutex EXCEPT ![Master(w)] = NoWorker]

(* Unlock of the wrapper, ConsulLockWrapper.Unlock: the flag first, then   *)
(* the library, which does nothing but report ErrLockNotHeld unless it     *)
(* believes it holds the lock.  Releasing the key closes the leader        *)
(* channel, unless the session was lost and it is closed already.          *)
(* released says whether the server answered the release.                  *)
UnlockUnchecked(m, s, released) ==
  /\ held' = [held EXCEPT ![m][s] = FALSE]
  /\ libHeld' = [libHeld EXCEPT ![m][s] = FALSE]
  /\ holder' = [holder EXCEPT ![s] = NoMaster]
  /\ ended' = [ended EXCEPT ![m][s] = @ + 1]
UnlockFlagOnly(m, s, released) ==
  /\ held' = [held EXCEPT ![m][s] = FALSE]
  /\ UNCHANGED <<libHeld, holder, ended>>
WrapperUnlock(m, s, released) ==
  /\ held' = [held EXCEPT ![m][s] = FALSE]
  /\ libHeld' = [libHeld EXCEPT ![m][s] = FALSE]
  /\ IF libHeld[m][s] /\ holder[s] = m /\ released
     THEN /\ holder' = [holder EXCEPT ![s] = NoMaster]
          /\ ended' = [ended EXCEPT ![m][s] = @ + 1]
     ELSE UNCHANGED <<holder, ended>>

-----------------------------------------------------------------------------
(* Master.schedule, by one worker *)

(* A request reaches the worker (master.go:117-125, the random sleep of    *)
(* 145-147 included).                                                      *)
Request(w, s) ==
  /\ life[Master(w)] # "dead"
  /\ Goto(w, "idle", "lock")
  /\ target' = [target EXCEPT ![w] = s]
  /\ UNCHANGED <<lockVars, mutex, lifeVars>>

(* locks.Lock: the worker takes the mutex and calls the library with it.   *)
LockBegin(w) ==
  /\ Goto(w, "lock", "locking")
  /\ TakeMutex(w)
  /\ UNCHANGED <<lockVars, target, lifeVars>>

(* The library refuses: this wrapper holds the lock, for another worker of *)
(* the same master.  schedule drops the request (master.go:152-155).       *)
LockErrHeld(w) ==
  /\ GoIdle(w, "locking")
  /\ libHeld[Master(w)][target[w]]
  /\ FreeMutex(w)
  /\ UNCHANGED <<lockVars, lifeVars>>

(* The library acquires the key: a leader channel comes back.              *)
CanAcquireAnyway(m, s) == ~libHeld[m][s] /\ ended[m][s] < MaxEnded
CanAcquire(m, s) ==
  /\ ~libHeld[m][s]
  /\ holder[s] = NoMaster
  /\ ended[m][s] < MaxEnded

LockAcquire(w) ==
  LET m == Master(w)  s == target[w] IN
  /\ Goto(w, "locking", "locked")
  /\ CanAcquire(m, s)
  /\ holder' = [holder EXCEPT ![s] = m]
  /\ libHeld' = [libHeld EXCEPT ![m][s] = TRUE]
  /\ held' = [held EXCEPT ![m][s] = TRUE]
  /\ FreeMutex(w)
  /\ UNCHANGED <<ended, target, lifeVars>>

(* LockTryOnce: another session owns the key for the whole wait.  The      *)
(* library returns neither a channel nor an error, the wrapper leaves its  *)
(* flag as it is and schedule goes on to IsHeld.                           *)
MayGiveUpNever(w) == FALSE
MayGiveUp(w) ==
  /\ ~libHeld[Master(w)][target[w]]
  /\ holder[target[w]] # NoMaster

LockGiveUp(w) ==
  /\ Goto(w, "locking", "locked")
  /\ MayGiveUp(w)
  /\ FreeMutex(w)
  /\ UNCHANGED <<lockVars, target, lifeVars>>

(* lock.IsHeld(), read without the mutex (master.go:158, 184-186).         *)
CheckIgnored(w) ==
  /\ Goto(w, "locked", "schedule")
  /\ UNCHANGED <<lockVars, mutex, target, lifeVars>>
CheckHeld(w) ==
  /\ Goto(w, "locked", IF held[Master(w)][target[w]] THEN "schedule" ELSE "unlock")
  /\ UNCHANGED <<lockVars, mutex, target, lifeVars>>

(* Schedule returns, or the cluster, the deployment or the scheduler was   *)
(* not found (master.go:159-183): the deferred Unlock is next.             *)
ScheduleDone(w) ==
  /\ Goto(w, "schedule", "unlock")
  /\ UNCHANGED <<lockVars, mutex, target, lifeVars>>

(* The deferred locks.Unlock: under the mutex, whether or not this worker  *)
(* is the one that acquired the lock.                                      *)
DeferredUnlock(w) ==
  /\ mutex[Master(w)] = NoWorker
  /\ GoIdle(w, "unlock")
  /\ WrapperUnlock(Master(w), target[w], TRUE)
  /\ UNCHANGED <<mutex, lifeVars>>

(* A watcher sees its leader channel closed (consul_lock.go:25-28).        *)
WatcherFires(m, s) ==
  /\ ended[m][s] > 0
  /\ ended' = [ended EXCEPT ![m][s] = @ - 1]
  /\ held' = [held EXCEPT ![m][s] = FALSE]
  /\ UNCHANGED <<holder, libHeld, mutex, pc, target, lifeVars>>

LockStep(w) == LockErrHeld(w) \/ LockAcquire(w) \/ LockGiveUp(w)

WorkerStep(w) ==
  \/ LockBegin(w)
  \/ LockStep(w)
  \/ CheckHeld(w)
  \/ ScheduleDone(w)
  \/ DeferredUnlock(w)

Work ==
  \/ \E w \in Workers : WorkerStep(w) \/ \E s \in Services : Request(w, s)
  \/ \E m \in Masters, s \in Services : WatcherFires(m, s)

-----------------------------------------------------------------------------
(* Shutdown *)

(* Master.Stop calls Locks.Stop, which takes no mutex and unlocks wrapper  *)
(* after wrapper (lockers.go:61-65)...                                     *)
StopBegin(m) ==
  /\ life[m] = "up"
  /\ life' = [life EXCEPT ![m] = "stopping"]
  /\ unstopped' = [unstopped EXCEPT ![m] = Services]
  /\ UNCHANGED <<lockVars, mutex, pc, target>>

StopUnlock(m, s) ==
  /\ life[m] = "stopping"
  /\ s \in unstopped[m]
  /\ unstopped' = [unstopped EXCEPT ![m] = @ \ {s}]
  /\ WrapperUnlock(m, s, TRUE)
  /\ UNCHANGED <<mutex, pc, target, life>>

(* ... and then closes the quit channel (master.go:242-246).               *)
CloseQuit(m) ==
  /\ life[m] = "stopping"
  /\ unstopped[m] = {}
  /\ life' = [life EXCEPT ![m] = "quit"]
  /\ UNCHANGED <<lockVars, mutex, pc, target, unstopped>>

(* A worker between two requests sees the closed channel (master.go:135).  *)
WorkerExits(w) ==
  /\ life[Master(w)] = "quit"
  /\ Goto(w, "idle", "exited")
  /\ UNCHANGED <<lockVars, mutex, target, lifeVars>>

Shutdown ==
  \/ \E m \in Masters : StopBegin(m) \/ CloseQuit(m) \/ \E s \in Services : StopUnlock(m, s)
  \/ \E w \in Workers : WorkerExits(w)

-----------------------------------------------------------------------------
(* Faults *)

(* The process dies: killed, or log.Fatal five seconds after a signal.  Its*)
(* workers are gone and its sessions are renewed no more.                  *)
Crash(m) ==
  /\ life[m] # "dead"
  /\ life' = [life EXCEPT ![m] = "dead"]
  /\ pc' = [w \in Workers |-> IF Master(w) = m THEN "exited" ELSE pc[w]]
  /\ target' = [w \in Workers |-> IF Master(w) = m THEN NoService ELSE target[w]]
  /\ mutex' = [mutex EXCEPT ![m] = NoWorker]
  /\ unstopped' = [unstopped EXCEPT ![m] = {}]
  /\ UNCHANGED lockVars

(* The session that owns the key is gone from the server; the library's    *)
(* monitor closes the leader channel but keeps isHeld.                     *)
LoseKey(s) ==
  /\ holder' = [holder EXCEPT ![s] = NoMaster]
  /\ ended' = [ended EXCEPT ![holder[s]][s] = @ + 1]
  /\ UNCHANGED <<libHeld, held, mutex, pc, target, lifeVars>>

(* Nobody renews the session: its owner is dead, or gave the lock back     *)
(* with a release the server did not answer.  The TTL ends it.             *)
Lapsed(s) ==
  /\ holder[s] # NoMaster
  /\ life[holder[s]] = "dead" \/ ~libHeld[holder[s]][s]
SessionLapses(s) == Lapsed(s) /\ LoseKey(s)

(* The session of a living holder is lost: a partition, or a long pause.   *)
SessionLost(s) == holder[s] # NoMaster /\ ~Lapsed(s) /\ LoseKey(s)

(* The server does not answer the Lock call (master.go:152-155) ...        *)
LockFails(w) ==
  /\ GoIdle(w, "locking")
  /\ ~libHeld[Master(w)][target[w]]
  /\ FreeMutex(w)
  /\ UNCHANGED <<lockVars, lifeVars>>

(* ... or the Unlock call, whose error nobody looks at (lockers.go:57).    *)
ReleaseFails(w) ==
  /\ mutex[Master(w)] = NoWorker
  /\ GoIdle(w, "unlock")
  /\ libHeld[Master(w)][target[w]]
  /\ WrapperUnlock(Master(w), target[w], FALSE)
  /\ UNCHANGED <<mutex, lifeVars>>

(* What can go wrong while a master that lives and holds a lock keeps its  *)
(* session.                                                                *)
Deaths ==
  \/ \E m \in Masters : Crash(m)
  \/ \E s \in Services : SessionLapses(s)
  \/ \E w \in Workers : LockFails(w) \/ ReleaseFails(w)

Faults == Deaths \/ \E s \in Services : SessionLost(s)

-----------------------------------------------------------------------------
(* Specifications: without shutdown and faults; with masters that die and  *)
(* calls that fail, but without a session lost under its holder and        *)
(* without shutdown; with everything.                                      *)

CalmSpec == Init /\ [][Work]_vars
KeptSpec == Init /\ [][Work \/ Deaths]_vars

Next == Work \/ Shutdown \/ Faults
Spec == Init /\ [][Next]_vars

(* Goroutines run; sync.Mutex hands the lock to every waiter in the end    *)
(* (its starvation mode), the library's Lock call returns after at most    *)
(* LockWaitTime, Schedule returns, and the TTL of a session nobody renews  *)
(* runs out.  Nothing forces a request, a stop or a fault.                 *)
Fairness ==
  /\ \A w \in Workers :
       /\ SF_vars(LockBegin(w) \/ DeferredUnlock(w))
       /\ WF_vars(LockStep(w) \/ CheckHeld(w) \/ ScheduleDone(w))
  /\ \A m \in Masters, s \in Services : WF_vars(WatcherFires(m, s))
  /\ \A s \in Services : WF_vars(SessionLapses(s))

FairSpec == Spec /\ Fairness

-----------------------------------------------------------------------------
(* Properties *)

(* Lock has returned without an error and Unlock has not run yet. *)
PastLock(w, s) == pc[w] \in {"locked", "schedule", "unlock"} /\ target[w] = s

(* Two workers never schedule the same service at once: what               *)
(* lockers.go:23 says.  It takes two masters, a wait that ended without    *)
(* the lock and a wrapper shared by the workers of a master to break it.   *)
MutualExclusion ==
  \A v, w \in Workers :
    v # w /\ pc[v] = "schedule" /\ pc[w] = "schedule" => target[v] # target[w]

(* A worker in Schedule works under a key that its own master owns in      *)
(* Consul, although held was read before Schedule began (master.go:158).   *)
SchedulesUnderTheKey ==
  \A w \in Workers : pc[w] = "schedule" => holder[target[w]] = Master(w)

(* No lock is left behind: while a living master's wrapper holds a lock,   *)
(* one of its workers is on its way to the deferred Unlock                 *)
(* (master.go:156), on every path through schedule, whatever other workers,*)
(* shutdown, lost sessions or unanswered calls do in between.              *)
NoLeakedLock ==
  \A m \in Masters, s \in Services :
    libHeld[m][s] /\ life[m] # "dead" => \E w \in Workers : Master(w) = m /\ PastLock(w, s)

(* schedule comes to an end for every request, whatever the other masters  *)
(* hold, lose or leave behind when they die.                               *)
RequestEnds ==
  \A w \in Workers : pc[w] = "lock" ~> pc[w] \in {"idle", "exited"}

(* No key is taken for ever: it is released, or the session of a master    *)
(* that died or failed to release it lapses.                               *)
KeyComesFree ==
  \A s \in Services : []<>(holder[s] = NoMaster)

(* Seen from outside, a worker has the right while it is in Schedule. *)
Scheduling == [w \in Workers |-> IF pc[w] = "schedule" THEN target[w] ELSE NoService]

Right == INSTANCE ScheduleRight WITH scheduling <- Scheduling

(* The locks implement the right to schedule a service (lockers.go:23).    *)
ImplementsRight == Right!Spec
=============================================================================
