--------------------------- MODULE SchedulerQueue ---------------------------
(***************************************************************************)
(* The unique queue between a master's dispatcher and its workers          *)
(* (master/queue.go): a goroutine that owns a slice, a buffered channel of *)
(* values to enqueue, and a buffered channel of futures, one unbuffered    *)
(* channel per Pop, that it answers with the LAST element of the slice.    *)
(* Nothing in the program calls its Stop.                                  *)
(***************************************************************************)
EXTENDS Integers, Sequences, SequencesExt, QueueSlice

CONSTANTS
  Values,      (* what is queued: schedule requests                        *)
  Poppers,     (* the goroutines that call Pop                             *)
  Nobody,      (* nobody is being answered                                 *)
  EnqueueCap,  (* capacity of the enqueue channel, 50 in queue.go:7        *)
  DequeueCap   (* capacity of the dequeue channel, 50 in queue.go:8        *)

ASSUME CapAssumption == EnqueueCap \in Nat \ {0} /\ DequeueCap \in Nat \ {0}
ASSUME NobodyAssumption == Nobody \notin Poppers

VARIABLES
  queue,       (* SchedulerQueue.queue                                     *)
  enqueue,     (* the values in the enqueue channel                        *)
  dequeue,     (* the poppers whose futures are in the dequeue channel     *)
  sending      (* the popper whose answer the goroutine is blocked on      *)

queueVars == <<queue, enqueue, dequeue, sending>>

TypeOK ==
  /\ queue \in Seq(Values)
  /\ enqueue \in Seq(Values) /\ Len(enqueue) <= EnqueueCap
  /\ dequeue \in Seq(Poppers) /\ Len(dequeue) <= DequeueCap
  /\ sending \in Poppers \union {Nobody}
  /\ sending # Nobody => queue # << >>

Init ==
  /\ queue = << >>
  /\ enqueue = << >>
  /\ dequeue = << >>
  /\ sending = Nobody

(* doEnqueue (queue.go:37-45): the value moves to the end, or is added     *)
(* there.  QueueSlice has the loop over the slice that does it.            *)
IsQueued(q, v) == \E i \in 1..Len(q) : q[i] = v
Position(q, v) == CHOOSE i \in 1..Len(q) : q[i] = v

DoEnqueueTwice(q, v) == Append(q, v)
DoEnqueueOnTop(q, v) == IF Len(q) > 0 THEN Append(Front(q), v) ELSE <<v>>
DoEnqueue(q, v) ==
  Append(IF IsQueued(q, v) THEN RemoveAt(q, Position(q, v)) ELSE q, v)

(* Push blocks while the channel is full. *)
Push(v) ==
  /\ Len(enqueue) < EnqueueCap
  /\ enqueue' = Append(enqueue, v)
  /\ UNCHANGED <<queue, dequeue, sending>>

(* Pop only leaves the future; the caller then waits on it. *)
Pop(p) ==
  /\ Len(dequeue) < DequeueCap
  /\ dequeue' = Append(dequeue, p)
  /\ UNCHANGED <<queue, enqueue, sending>>

(* The goroutine takes a value (queue.go:52-53 and 64-65). *)
Enqueue ==
  /\ sending = Nobody
  /\ enqueue # << >>
  /\ queue' = DoEnqueue(queue, Head(enqueue))
  /\ enqueue' = Tail(enqueue)
  /\ UNCHANGED <<dequeue, sending>>

(* It takes a future, only while the queue has items in it, and starts the *)
(* send (queue.go:54-55).                                                  *)
AnswerFromNothing ==
  /\ sending = Nobody
  /\ dequeue # << >>
  /\ sending' = Head(dequeue)
  /\ dequeue' = Tail(dequeue)
  /\ UNCHANGED <<queue, enqueue>>
AnswerTwice ==
  /\ sending = Nobody
  /\ queue # << >>
  /\ dequeue # << >>
  /\ sending' = Head(dequeue)
  /\ UNCHANGED <<queue, enqueue, dequeue>>
Answer ==
  /\ sending = Nobody
  /\ queue # << >>
  /\ dequeue # << >>
  /\ sending' = Head(dequeue)
  /\ dequeue' = Tail(dequeue)
  /\ UNCHANGED <<queue, enqueue>>

(* The popper receives the last element, and the goroutine drops it from   *)
(* the slice (queue.go:55-56).  A popper that has gone never receives.     *)
Delivered == Last(queue)
Deliver(p) ==
  /\ sending = p
  /\ queue' = Front(queue)
  /\ sending' = Nobody
  /\ UNCHANGED <<enqueue, dequeue>>

Next ==
  \/ \E v \in Values : Push(v)
  \/ \E p \in Poppers : Pop(p) \/ Deliver(p)
  \/ Enqueue
  \/ Answer

Spec == Init /\ [][Next]_queueVars

-----------------------------------------------------------------------------
(* Properties *)

(* The queue is unique (the comment of queue.go:15-16): two dispatches of  *)
(* one deployment leave one request, so that a burst of configuration      *)
(* changes cannot make the queue grow past the number of deployments.      *)
Unique == \A i, j \in 1..Len(queue) : queue[i] = queue[j] => i = j

(* On every queue the program can reach, the loop that deletes while it    *)
(* ranges (queue.go:38-43) moves the value to the end and never slices out *)
(* of range; it would on a queue that held a value twice.                  *)
LoopMovesToEnd ==
  \A v \in Values : ~LoopPanics(queue, v) /\ LoopEnqueue(queue, v) = DoEnqueue(queue, v)

(* Moving a value to the end drops no other request: a value leaves the    *)
(* slice only when it is delivered.                                        *)
NothingDropped ==
  [][\A v \in Values :
       IsQueued(queue, v) /\ ~IsQueued(queue', v) => sending # Nobody /\ v = Delivered]_queueVars
=============================================================================
