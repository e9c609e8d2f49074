---------------------------- MODULE ScheduleRight ----------------------------
(***************************************************************************)
(* What the locks of the masters promise, in the words of the comment over *)
(* SchedulerLocks.Lock (master/lockers.go:23): "lock locks throughout the  *)
(* cluster the right to schedule a given service".  A worker may run       *)
(* Schedule for a service only while no other worker of any master does.   *)
(*                                                                         *)
(* SchedulerLocks implements this specification when every master runs one *)
(* worker, also while masters die and calls fail, and when there is one    *)
(* master and nothing fails; with the defaults (several masters of three   *)
(* workers each) it does not.                                              *)
(***************************************************************************)
CONSTANTS
  Workers,    (* the scheduling goroutines of all masters                  *)
  Services,   (* the lock names, "<cluster>:<deployment>"                  *)
  NoService   (* a worker that is not inside Schedule                      *)

VARIABLE scheduling   (* the service each worker is scheduling *)

TypeOK == scheduling \in [Workers -> Services \union {NoService}]

Init == scheduling = [w \in Workers |-> NoService]

Enter(w, s) ==
  /\ scheduling[w] = NoService
  /\ \A v \in Workers : scheduling[v] # s
  /\ scheduling' = [scheduling EXCEPT ![w] = s]

Leave(w) ==
  /\ scheduling[w] # NoService
  /\ scheduling' = [scheduling EXCEPT ![w] = NoService]

Next == \E w \in Workers : Leave(w) \/ \E s \in Services : Enter(w, s)

Spec == Init /\ [][Next]_scheduling
=============================================================================
