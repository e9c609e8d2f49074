------------------------------ MODULE Discovery ------------------------------
(***************************************************************************)
(* The discovery agent (discovery/discovery.go): a loop that looks up the  *)
(* endpoints of every service and keeps them under a read-write lock, and  *)
(* the polls of its HTTP route, which listen for a change or a timeout.    *)
(*                                                                         *)
(* Nothing reads the channel that a change is announced on                 *)
(* (discovery.go:22, 137): the first sync that finds a service it did not  *)
(* know blocks there, with the lock, and so what the code does with a      *)
(* second list of endpoints is never reached, nor is ChangeIdx ever other  *)
(* than zero, nor does anybody send to a subscriber.                       *)
(***************************************************************************)
EXTENDS Naturals, FiniteSets

CONSTANTS
  Hosts, Tasks,
  ChecksOf,     (* task -> its health checks                               *)
  None,         (* no host, not known                                      *)
  Services,
  Managing,     (* the services to look up; if none is given, all          *)
  TasksOf,      (* service -> the tasks of its cluster and deployment      *)
  Clients,      (* those who poll                                          *)
  MaxEdits      (* bound: services an operator puts or deletes, calls to   *)
                (* Consul that fail, and Stop                                     *)

VARIABLES
  host, passing, state,  (* in Consul: see HealthAgent                     *)
  registered,   (* the services in Consul                                  *)
  known,        (* DiscoveryAgent.Services, of hosts for endpoints         *)
  spc,          (* where sync is                                           *)
  todo,         (* the services it has still to look up                    *)
  locked,       (* it has the lock, of the others' critical sections each  *)
                (* is one step                                             *)
  cpc,          (* client -> where its Listen is                           *)
  edits         (* what the environment has done: see the bound            *)

ownVars == <<registered, known, spc, todo, locked, cpc, edits>>
discoveryVars == <<host, passing, state, ownVars>>

DiscoveryTypeOK ==
  /\ registered \subseteq Services
  /\ \A s \in Services : known[s] = {None} \/ known[s] \subseteq Hosts
  /\ spc \in {"wait", "lock", "look", "send", "stopped"}
  /\ todo \subseteq Services
  /\ locked \in BOOLEAN /\ (locked <=> spc \in {"look", "send"})
  /\ cpc \in [Clients -> {"idle", "lock", "select", "read"}]
  /\ edits \in 0..MaxEdits

DiscoveryInit ==
  /\ registered = {}
  /\ known = [s \in Services |-> {None}]
  /\ spc = "wait" /\ todo = {} /\ locked = FALSE
  /\ cpc = [c \in Clients |-> "idle"]
  /\ edits = 0

EditOrError == edits < MaxEdits /\ edits' = edits + 1

-----------------------------------------------------------------------------
(* The operator puts a service, or deletes it.                             *)
Edit(s) ==
  /\ EditOrError
  /\ registered' = IF s \in registered THEN registered \ {s} ELSE registered \union {s}
  /\ UNCHANGED <<known, spc, todo, locked, cpc>>

-----------------------------------------------------------------------------
(* sync, on an event or after thirty seconds *)

(* ListServices, or GetService for each it manages, those not found left   *)
(* out; the lock comes after it.                                           *)
SyncReads ==
  /\ spc = "wait"
  /\ spc' = "lock"
  /\ todo' = IF Managing = {} THEN registered ELSE registered \intersect Managing
  /\ UNCHANGED <<registered, known, locked, cpc, edits>>

SyncLocks ==
  /\ spc = "lock"
  /\ ~locked
  /\ spc' = "look"
  /\ locked' = TRUE
  /\ UNCHANGED <<registered, known, todo, cpc, edits>>

(* The deferred Unlock, wherever sync returns.                             *)
UnlockForgotten == locked' = (todo # {})
Unlock == locked' = FALSE
Return == spc' = "wait" /\ todo' = {} /\ Unlock

(* GetTaskState, as ListTasks asks it (consul_api.go:381-392, 450-486).    *)
Running(t) ==
  /\ state[t] # "starting"
  /\ IF ChecksOf[t] = {} THEN state[t] \in {"running", "started"} ELSE passing[t] = ChecksOf[t]

(* endpoints: the running tasks, wherever they are.                        *)
Endpoints(s) == {host[t] : t \in {u \in TasksOf[s] : host[u] # None /\ Running(u)}}

(* A service not known before, since it never gets to a second one: the    *)
(* endpoints are stored, though there be none, and the change announced.   *)
Finds(s) ==
  /\ spc = "look" /\ s \in todo
  /\ s \in registered
  /\ known' = [known EXCEPT ![s] = Endpoints(s)]
  /\ spc' = "send"
  /\ UNCHANGED <<registered, todo, locked, cpc, edits>>

(* It was deleted since it was listed, or a call fails: sync returns, and  *)
(* the services after it wait for the next.                                *)
FindFails(s) ==
  /\ spc = "look" /\ s \in todo
  /\ \/ s \notin registered /\ UNCHANGED edits
     \/ EditOrError
  /\ Return
  /\ UNCHANGED <<registered, known, cpc>>

SyncEnds ==
  /\ spc = "look" /\ todo = {}
  /\ Return
  /\ UNCHANGED <<registered, known, cpc, edits>>

(* Stop is heard between two syncs; the polls go on.                       *)
Stop ==
  /\ spc = "wait"
  /\ EditOrError
  /\ spc' = "stopped"
  /\ UNCHANGED <<registered, known, todo, locked, cpc>>

-----------------------------------------------------------------------------
(* Listen *)

GoTo(c, from, to) == cpc[c] = from /\ cpc' = [cpc EXCEPT ![c] = to]
elsewhere == <<registered, known, spc, todo, locked, edits>>

Poll(c) == GoTo(c, "idle", "lock") /\ UNCHANGED elsewhere

(* Under the lock it subscribes and compares the index: only a client with *)
(* a negative one is answered without a wait.                              *)
Subscribe(c) ==
  /\ ~locked
  /\ GoTo(c, "lock", "select") \/ GoTo(c, "lock", "read")
  /\ UNCHANGED elsewhere

(* Ten seconds (discovery.go:254), since nothing is sent to subscribers.   *)
TimesOut(c) == GoTo(c, "select", "read") /\ UNCHANGED elsewhere

(* The answer is read under the read lock.                                 *)
Answer(c) ==
  /\ ~locked
  /\ GoTo(c, "read", "idle")
  /\ UNCHANGED elsewhere

-----------------------------------------------------------------------------
SyncStep == SyncReads \/ SyncLocks \/ SyncEnds \/ \E s \in Services : Finds(s) \/ FindFails(s)
Listen(c) == Subscribe(c) \/ TimesOut(c) \/ Answer(c)

DiscoveryNext ==
  /\ \/ Stop \/ \E s \in Services : Edit(s)
     \/ SyncStep
     \/ \E c \in Clients : Poll(c) \/ Listen(c)
  /\ UNCHANGED <<host, passing, state>>

(* A lock that is free time and again is had in the end: Go's RWMutex      *)
(* passes over nobody who waits.                                           *)
DiscoveryFairness ==
  /\ WF_discoveryVars(SyncStep /\ UNCHANGED <<host, passing, state>>)
  /\ \A c \in Clients : SF_discoveryVars(Listen(c) /\ UNCHANGED <<host, passing, state>>)

-----------------------------------------------------------------------------
(* A poll is answered, whatever services come and go between the list and  *)
(* the lookup, and whatever fails, until a sync has found a service        *)
(* (discovery.go:39-78, 125-131).  From then on none is: see spc.          *)
AnswersUntilFound ==
  \A c \in Clients : cpc[c] # "idle" ~> cpc[c] = "idle" \/ spc = "send"
==============================================================================
