------------------------ MODULE SchedulerQueueProofs ------------------------
(***************************************************************************)
(* The queue of a master stays unique, and drops no request, for every set *)
(* of requests and workers and every capacity of its channels.             *)
(***************************************************************************)
EXTENDS SchedulerQueue, IterationProofs, SequenceTheorems, TLAPS

USE CapAssumption, NobodyAssumption

(* A sequence without the element at one position. *)
LEMMA RemoveAtElements ==
  ASSUME NEW S, NEW q \in Seq(S), NEW i \in 1..Len(q)
  PROVE  /\ RemoveAt(q, i) \in Seq(S)
         /\ Len(RemoveAt(q, i)) = Len(q) - 1
         /\ \A j \in 1..(Len(q) - 1) :
               RemoveAt(q, i)[j] = IF j < i THEN q[j] ELSE q[j + 1]
<1> DEFINE left  == SubSeq(q, 1, i - 1)
           right == SubSeq(q, i + 1, Len(q))
<1>1. Len(q) \in Nat
  OBVIOUS
<1>2. left \in Seq(S) /\ Len(left) = i - 1 /\ \A j \in 1..(i - 1) : left[j] = q[j]
  BY <1>1
<1>3. right \in Seq(S) /\ Len(right) = Len(q) - i
      /\ \A j \in 1..(Len(q) - i) : right[j] = q[i + j]
  BY <1>1
<1>4. RemoveAt(q, i) = left \o right
  BY DEF RemoveAt
<1>5. left \o right \in Seq(S) /\ Len(left \o right) = Len(left) + Len(right)
      /\ \A j \in 1..(Len(left) + Len(right)) :
            (left \o right)[j] = IF j <= Len(left) THEN left[j] ELSE right[j - Len(left)]
  BY <1>2, <1>3, ConcatProperties
<1> HIDE DEF left, right
<1> QED BY <1>1, <1>2, <1>3, <1>4, <1>5

LEMMA FrontElements ==
  ASSUME NEW S, NEW q \in Seq(S), q # << >>
  PROVE  /\ Front(q) \in Seq(S)
         /\ Len(Front(q)) = Len(q) - 1
         /\ \A j \in 1..(Len(q) - 1) : Front(q)[j] = q[j]
<1>1. Len(q) \in Nat \ {0}
  BY EmptySeq
<1> DEFINE n == Len(q) - 1
<1>2. Front(q) = SubSeq(q, 1, n)
  BY DEF Front
<1>3. n \in Int /\ \A i \in 1..n : q[i] \in S
  BY <1>1
<1> HIDE DEF n
<1>4. /\ SubSeq(q, 1, n) \in Seq(S)
      /\ Len(SubSeq(q, 1, n)) = IF 1 <= n THEN n - 1 + 1 ELSE 0
      /\ \A i \in 1..(n - 1 + 1) : SubSeq(q, 1, n)[i] = q[1 + i - 1]
  BY <1>3, SubSeqProperties
<1>5. n \in Nat /\ n = Len(q) - 1
  BY <1>1 DEF n
<1>6. Len(Front(q)) = n /\ \A i \in 1..n : Front(q)[i] = q[i]
  BY <1>2, <1>4, <1>5
<1> QED BY <1>2, <1>4, <1>5, <1>6

DistinctItems(q) == \A i, j \in 1..Len(q) : q[i] = q[j] => i = j

(* doEnqueue on a unique queue: unique again, with the same values and v.  *)
LEMMA DoEnqueueElements ==
  ASSUME NEW q \in Seq(Values), NEW v \in Values, DistinctItems(q)
  PROVE  /\ DoEnqueue(q, v) \in Seq(Values)
         /\ DistinctItems(DoEnqueue(q, v))
         /\ \A u \in Values : IsQueued(DoEnqueue(q, v), u) <=> IsQueued(q, u) \/ u = v
         /\ DoEnqueue(q, v) # << >>
<1>1. CASE IsQueued(q, v)
  <2> DEFINE p == Position(q, v)
             r == RemoveAt(q, p)
  <2>1. p \in 1..Len(q) /\ q[p] = v
    BY <1>1 DEF IsQueued, Position
  <2>2. /\ r \in Seq(Values)
        /\ Len(r) = Len(q) - 1
        /\ \A j \in 1..(Len(q) - 1) : r[j] = IF j < p THEN q[j] ELSE q[j + 1]
    BY <2>1, RemoveAtElements
  <2>3. DoEnqueue(q, v) = Append(r, v)
    BY <1>1 DEF DoEnqueue
  <2> HIDE DEF p, r
  <2>4. /\ Append(r, v) \in Seq(Values)
        /\ Len(Append(r, v)) = Len(q)
        /\ \A j \in 1..(Len(q) - 1) : Append(r, v)[j] = r[j]
        /\ Append(r, v)[Len(q)] = v
    BY <2>1, <2>2, AppendProperties
  <2>5. \A j \in 1..Len(r) : r[j] # v
    BY <2>1, <2>2 DEF DistinctItems
  <2>6. DistinctItems(r)
    BY <2>1, <2>2 DEF DistinctItems
  <2>7. DistinctItems(Append(r, v))
    BY <2>2, <2>4, <2>5, <2>6 DEF DistinctItems
  <2>8. ASSUME NEW u \in Values, IsQueued(q, u), u # v PROVE IsQueued(Append(r, v), u)
    <3>1. PICK k \in 1..Len(q) : q[k] = u
      BY <2>8 DEF IsQueued
    <3>2. k # p
      BY <2>1, <2>8, <3>1
    <3>3. CASE k < p
      BY <2>1, <2>2, <2>4, <3>1, <3>3 DEF IsQueued
    <3>4. CASE k > p
      <4>1. k - 1 \in 1..(Len(q) - 1) /\ r[k - 1] = q[k]
        BY <2>1, <2>2, <3>1, <3>4
      <4> QED BY <2>4, <3>1, <4>1 DEF IsQueued
    <3> QED BY <2>1, <3>1, <3>2, <3>3, <3>4
  <2>9. ASSUME NEW u \in Values, IsQueued(Append(r, v), u), u # v PROVE IsQueued(q, u)
    <3>1. PICK k \in 1..(Len(q) - 1) : r[k] = u
      BY <2>4, <2>9 DEF IsQueued
    <3> QED BY <2>1, <2>2, <3>1 DEF IsQueued
  <2>10. IsQueued(Append(r, v), v)
    BY <2>1, <2>4 DEF IsQueued
  <2>11. Append(r, v) # << >>
    BY <2>1, <2>4, EmptySeq
  <2> QED BY <1>1, <2>3, <2>4, <2>7, <2>8, <2>9, <2>10, <2>11
<1>2. CASE ~IsQueued(q, v)
  <2>1. DoEnqueue(q, v) = Append(q, v)
    BY <1>2 DEF DoEnqueue
  <2>2. /\ Append(q, v) \in Seq(Values)
        /\ Len(Append(q, v)) = Len(q) + 1
        /\ \A j \in 1..Len(q) : Append(q, v)[j] = q[j]
        /\ Append(q, v)[Len(q) + 1] = v
    BY AppendProperties
  <2>3. DistinctItems(Append(q, v))
    BY <1>2, <2>2 DEF DistinctItems, IsQueued
  <2>4. \A u \in Values : IsQueued(Append(q, v), u) <=> IsQueued(q, u) \/ u = v
    BY <2>2 DEF IsQueued
  <2>5. Append(q, v) # << >>
    BY <2>2, EmptySeq
  <2> QED BY <2>1, <2>2, <2>3, <2>4, <2>5
<1> QED BY <1>1, <1>2

-----------------------------------------------------------------------------
(* The loop over the slice (QueueSlice).  Its states are slices of the one *)
(* backing array.                                                          *)
Slices(q) == [array : [1..Len(q) -> Values], len : 0..Len(q), panic : BOOLEAN]

LEMMA DeleteAtSlice ==
  ASSUME NEW q \in Seq(Values), NEW slice \in Slices(q), NEW i \in 1..Len(q)
  PROVE  DeleteAt(slice, i) \in Slices(q)
<1>1. slice.array \in [1..Len(q) -> Values] /\ slice.len \in 0..Len(q) /\ Len(q) \in Nat
  BY DEF Slices
<1> DEFINE moved == [j \in DOMAIN slice.array |->
                       IF j >= i /\ j < slice.len THEN slice.array[j + 1] ELSE slice.array[j]]
<1>2. moved \in [1..Len(q) -> Values]
  BY <1>1
<1>3. CASE i > slice.len
  BY <1>3 DEF DeleteAt, Slices
<1>4. CASE ~(i > slice.len)
  <2>1. slice.len - 1 \in 0..Len(q)
    BY <1>1, <1>4
  <2>2. DeleteAt(slice, i) = [slice EXCEPT !.array = moved, !.len = slice.len - 1]
    BY <1>4 DEF DeleteAt
  <2> HIDE DEF moved
  <2> QED BY <1>2, <2>1, <2>2 DEF Slices
<1> QED BY <1>3, <1>4

(* One pass of the loop's body. *)
Body(v, i, slice) == IF slice.array[i] = v THEN DeleteAt(slice, i) ELSE slice

LEMMA LoopRun ==
  ASSUME NEW q \in Seq(Values), NEW v \in Values
  PROVE  \E f \in [0..Len(q) -> Slices(q)] :
           /\ f[0] = Whole(q)
           /\ \A i \in 1..Len(q) : f[i] = Body(v, i, f[i - 1])
           /\ RangeAndDelete(q, v) = f[Len(q)]
<1> DEFINE n == Len(q)
           S == Slices(q)
           step == [i \in 1..n |-> [slice \in S |-> Body(v, i, slice)]]
<1>1. n \in Nat /\ q \in [1..n -> Values]
  OBVIOUS
<1>2. Whole(q) \in S
  BY <1>1 DEF Whole, Slices
<1>3. \A i \in 1..n, slice \in S : Body(v, i, slice) \in S
  BY DeleteAtSlice DEF Body
<1>4. step \in [1..n -> [S -> S]]
  BY <1>3
<1>5. PICK f \in Runs(n, S, Whole(q), step) : TRUE
  <2> HIDE DEF n, S, step
  <2> QED BY <1>1, <1>2, <1>4, LoopRuns
<1>6. f \in [0..n -> S] /\ f[0] = Whole(q) /\ \A i \in 1..n : f[i] = step[i][f[i - 1]]
  BY <1>5 DEF Runs
<1>7. ASSUME NEW i \in 1..n PROVE f[i - 1] \in S /\ f[i] = Body(v, i, f[i - 1])
  <2>1. i - 1 \in 0..n
    BY <1>1
  <2>2. f[i - 1] \in S
    BY <1>6, <2>1
  <2> HIDE DEF S
  <2> QED BY <1>6, <2>2
<1> DEFINE after[i \in 0..Len(q)] ==
             IF i = 0 THEN Whole(q)
             ELSE IF after[i - 1].array[i] = v THEN DeleteAt(after[i - 1], i) ELSE after[i - 1]
<1>8. f = [i \in 0..n |-> IF i = 0 THEN Whole(q) ELSE Body(v, i, f[i - 1])]
  <2>1. \A i \in 0..n : f[i] = IF i = 0 THEN Whole(q) ELSE Body(v, i, f[i - 1])
    BY <1>1, <1>6, <1>7
  <2> QED BY <1>6, <2>1
<1>9. after = [i \in 0..n |-> IF i = 0 THEN Whole(q) ELSE Body(v, i, after[i - 1])]
  BY <1>8, Zenon DEF Body
<1>10. RangeAndDelete(q, v) = after[n]
  BY DEF RangeAndDelete
<1>11. after[n] = f[n]
  <2> HIDE DEF after
  <2> DEFINE T == {i \in 0..n : after[i] = f[i]}
  <2>1. 0 \in T
    BY <1>1, <1>6, <1>9
  <2>2. ASSUME NEW i \in 1..n, i - 1 \in T PROVE i \in T
    <3>1. i \in 0..n /\ i # 0 /\ after[i - 1] = f[i - 1]
      BY <1>1, <2>2
    <3>2. after[i] = Body(v, i, after[i - 1])
      BY <1>9, <3>1
    <3> QED BY <1>7, <3>1, <3>2
  <2> HIDE DEF T
  <2>3. 0..n \subseteq T
    BY <1>1, <2>1, <2>2, InductionUpTo
  <2> QED BY <1>1, <2>3 DEF T
<1> QED BY <1>6, <1>7, <1>10, <1>11

(* What the loop has made of a unique slice after i steps: nothing as long *)
(* as it has not met the value, and then the value is gone, the ones after *)
(* it have moved up, and it meets the value no more.                       *)
LEMMA LoopDeletes ==
  ASSUME NEW q \in Seq(Values), NEW v \in Values, DistinctItems(q),
         NEW p \in 1..Len(q), q[p] = v
  PROVE  LET slice == RangeAndDelete(q, v) IN
         /\ slice.len = Len(q) - 1
         /\ slice.panic = FALSE
         /\ slice.array \in [1..Len(q) -> Values]
         /\ \A j \in 1..(Len(q) - 1) : slice.array[j] = IF j < p THEN q[j] ELSE q[j + 1]
<1> DEFINE n == Len(q)
           Shifted == [j \in 1..n |-> IF j >= p /\ j < n THEN q[j + 1] ELSE q[j]]
           Done == [array |-> Shifted, len |-> n - 1, panic |-> FALSE]
<1>1. n \in Nat /\ q \in [1..n -> Values]
  OBVIOUS
<1>2. PICK f \in [0..n -> Slices(q)] :
        /\ f[0] = Whole(q)
        /\ \A i \in 1..n : f[i] = Body(v, i, f[i - 1])
        /\ RangeAndDelete(q, v) = f[n]
  BY LoopRun
<1>3. DeleteAt(Whole(q), p) = Done
  <2>1. ~(p > Whole(q).len) /\ Whole(q).array = q /\ DOMAIN q = 1..n
        /\ Whole(q).len = n /\ Whole(q).panic = FALSE
    BY <1>1 DEF Whole
  <2> QED BY <2>1 DEF DeleteAt, Whole
<1>4. \A j \in 1..n : j > p => Shifted[j] # v
  BY <1>1 DEF DistinctItems
<1> DEFINE T == {i \in 0..n : f[i] = IF i < p THEN Whole(q) ELSE Done}
<1>5. 0 \in T
  BY <1>1, <1>2
<1>6. ASSUME NEW i \in 1..n, i - 1 \in T PROVE i \in T
  <2>1. i \in 0..n /\ f[i] = Body(v, i, f[i - 1])
    BY <1>1, <1>2
  <2>2. CASE i < p
    <3>1. f[i - 1] = Whole(q) /\ q[i] # v
      BY <1>1, <1>6, <2>2 DEF DistinctItems
    <3> QED BY <2>1, <2>2, <3>1 DEF Body, Whole
  <2>3. CASE i = p
    <3>1. f[i - 1] = Whole(q)
      BY <1>1, <1>6, <2>3
    <3>2. f[i] = DeleteAt(Whole(q), p)
      BY <2>1, <2>3, <3>1 DEF Body, Whole
    <3> QED BY <1>3, <2>1, <2>3, <3>2
  <2>4. CASE i > p
    <3>1. f[i - 1] = Done /\ Done.array[i] # v
      BY <1>1, <1>4, <1>6, <2>4
    <3>2. f[i] = Done
      BY <2>1, <3>1 DEF Body
    <3> QED BY <2>1, <2>4, <3>2
  <2> QED BY <1>1, <2>2, <2>3, <2>4
<1>7. 0..n \subseteq T
  <2> HIDE DEF T
  <2> QED BY <1>1, <1>5, <1>6, InductionUpTo
<1>8. RangeAndDelete(q, v) = Done
  BY <1>1, <1>2, <1>7
<1> QED BY <1>1, <1>8

(* A value that is not queued is not deleted. *)
LEMMA LoopKeeps ==
  ASSUME NEW q \in Seq(Values), NEW v \in Values, ~IsQueued(q, v)
  PROVE  RangeAndDelete(q, v) = Whole(q)
<1> DEFINE n == Len(q)
<1>1. n \in Nat
  OBVIOUS
<1>2. PICK f \in [0..n -> Slices(q)] :
        /\ f[0] = Whole(q)
        /\ \A i \in 1..n : f[i] = Body(v, i, f[i - 1])
        /\ RangeAndDelete(q, v) = f[n]
  BY LoopRun
<1> DEFINE T == {i \in 0..n : f[i] = Whole(q)}
<1>3. 0 \in T
  BY <1>1, <1>2
<1>4. ASSUME NEW i \in 1..n, i - 1 \in T PROVE i \in T
  <2>1. i \in 0..n /\ f[i] = Body(v, i, Whole(q)) /\ q[i] # v
    BY <1>1, <1>2, <1>4 DEF IsQueued
  <2> QED BY <2>1 DEF Body, Whole
<1>5. 0..n \subseteq T
  <2> HIDE DEF T
  <2> QED BY <1>1, <1>3, <1>4, InductionUpTo
<1> QED BY <1>1, <1>2, <1>5

(* The loop of doEnqueue and the append after it do what DoEnqueue says.   *)
LEMMA LoopIsDoEnqueue ==
  ASSUME NEW q \in Seq(Values), NEW v \in Values, DistinctItems(q)
  PROVE  ~LoopPanics(q, v) /\ LoopEnqueue(q, v) = DoEnqueue(q, v)
<1>1. CASE IsQueued(q, v)
  <2> DEFINE p == Position(q, v)
             slice == RangeAndDelete(q, v)
             left == SubSeq(slice.array, 1, Len(q) - 1)
  <2>1. p \in 1..Len(q) /\ q[p] = v
    BY <1>1 DEF IsQueued, Position
  <2>2. /\ slice.len = Len(q) - 1
        /\ slice.panic = FALSE
        /\ slice.array \in [1..Len(q) -> Values]
        /\ \A j \in 1..(Len(q) - 1) : slice.array[j] = IF j < p THEN q[j] ELSE q[j + 1]
    BY <2>1, LoopDeletes
  <2>3. /\ RemoveAt(q, p) \in Seq(Values)
        /\ Len(RemoveAt(q, p)) = Len(q) - 1
        /\ \A j \in 1..(Len(q) - 1) : RemoveAt(q, p)[j] = IF j < p THEN q[j] ELSE q[j + 1]
    BY <2>1, RemoveAtElements
  <2> HIDE DEF p, slice
  <2>4. slice.array \in Seq(Values) /\ Len(slice.array) = Len(q)
    BY <2>2, IsASeq
  <2>5. /\ left \in Seq(Values)
        /\ Len(left) = Len(q) - 1
        /\ \A j \in 1..(Len(q) - 1) : left[j] = slice.array[j]
    <3> DEFINE m == Len(q) - 1
    <3>1. m \in Int /\ \A i \in 1..m : slice.array[i] \in Values
      BY <2>1, <2>2
    <3> HIDE DEF m
    <3>2. /\ SubSeq(slice.array, 1, m) \in Seq(Values)
          /\ Len(SubSeq(slice.array, 1, m)) = IF 1 <= m THEN m - 1 + 1 ELSE 0
          /\ \A i \in 1..(m - 1 + 1) : SubSeq(slice.array, 1, m)[i] = slice.array[1 + i - 1]
      BY <3>1, SubSeqProperties
    <3>3. m \in Nat /\ m = Len(q) - 1 /\ left = SubSeq(slice.array, 1, m)
      BY <2>1 DEF m
    <3> HIDE DEF left
    <3>4. Len(left) = m /\ \A i \in 1..m : left[i] = slice.array[i]
      BY <3>2, <3>3
    <3> QED BY <3>2, <3>3, <3>4
  <2> HIDE DEF left
  <2>6. left = RemoveAt(q, p)
    BY <2>2, <2>3, <2>5, SeqEqual
  <2>7. LoopEnqueue(q, v) = Append(left, v) /\ ~LoopPanics(q, v)
    BY <2>2 DEF LoopEnqueue, LoopPanics, slice, left
  <2>8. DoEnqueue(q, v) = Append(RemoveAt(q, p), v)
    BY <1>1 DEF DoEnqueue, p
  <2> QED BY <2>6, <2>7, <2>8
<1>2. CASE ~IsQueued(q, v)
  <2>1. RangeAndDelete(q, v) = Whole(q)
    BY <1>2, LoopKeeps
  <2>2. SubSeq(q, 1, Len(q)) = q
    BY SubSeqFull
  <2> QED BY <1>2, <2>1, <2>2 DEF LoopEnqueue, LoopPanics, Whole, DoEnqueue
<1> QED BY <1>1, <1>2

-----------------------------------------------------------------------------
(* Unique is inductive over the typing. *)
QueueInv == TypeOK /\ Unique

LEMMA InitQueueInv == Init => QueueInv
BY EmptySeq DEF Init, QueueInv, TypeOK, Unique

LEMMA NextQueueInv == QueueInv /\ [Next]_queueVars => QueueInv'
<1> SUFFICES ASSUME QueueInv, [Next]_queueVars PROVE QueueInv'
  OBVIOUS
<1> USE DEF QueueInv, TypeOK, Unique
<1>1. ASSUME NEW v \in Values, Push(v) PROVE QueueInv'
  BY <1>1, AppendProperties DEF Push
<1>2. ASSUME NEW p \in Poppers, Pop(p) PROVE QueueInv'
  BY <1>2, AppendProperties DEF Pop
<1>3. CASE Enqueue
  <2>1. /\ Head(enqueue) \in Values /\ Tail(enqueue) \in Seq(Values)
        /\ Len(Tail(enqueue)) <= EnqueueCap
    BY <1>3, HeadTailProperties DEF Enqueue
  <2>2. DistinctItems(queue)
    BY DEF DistinctItems
  <2>3. queue' \in Seq(Values) /\ DistinctItems(queue') /\ queue' # << >>
    BY <1>3, <2>1, <2>2, DoEnqueueElements DEF Enqueue
  <2> QED BY <1>3, <2>1, <2>3 DEF Enqueue, DistinctItems
<1>4. CASE Answer
  BY <1>4, HeadTailProperties DEF Answer
<1>5. ASSUME NEW p \in Poppers, Deliver(p) PROVE QueueInv'
  <2>1. sending = p /\ queue # << >> /\ queue' = Front(queue)
        /\ sending' = Nobody /\ UNCHANGED <<enqueue, dequeue>>
    BY <1>5 DEF Deliver
  <2>2. /\ queue' \in Seq(Values) /\ Len(queue') = Len(queue) - 1
        /\ \A j \in 1..(Len(queue) - 1) : queue'[j] = queue[j]
    BY <2>1, FrontElements
  <2> QED BY <2>1, <2>2
<1>6. CASE UNCHANGED queueVars
  BY <1>6 DEF queueVars
<1> QED BY <1>1, <1>2, <1>3, <1>4, <1>5, <1>6 DEF Next

(* Type correctness: the channels keep their capacity and the goroutine    *)
(* never sends from an empty slice.                                        *)
THEOREM QueueTypeCorrect == Spec => []TypeOK
<1>1. QueueInv => TypeOK
  BY DEF QueueInv
<1> QED BY <1>1, InitQueueInv, NextQueueInv, PTL DEF Spec

(* The queue is unique, as its comment says (queue.go:15-16). *)
THEOREM QueueUnique == Spec => []Unique
<1>1. QueueInv => Unique
  BY DEF QueueInv
<1> QED BY <1>1, InitQueueInv, NextQueueInv, PTL DEF Spec

(* The loop that deletes from the slice it ranges over moves the value to  *)
(* the end, and never slices out of range, on every queue there can be     *)
(* (queue.go:37-45).                                                       *)
THEOREM QueueLoopMovesToEnd == Spec => []LoopMovesToEnd
<1>1. QueueInv => LoopMovesToEnd
  <2> SUFFICES ASSUME QueueInv, NEW v \in Values
               PROVE  ~LoopPanics(queue, v) /\ LoopEnqueue(queue, v) = DoEnqueue(queue, v)
    BY DEF LoopMovesToEnd
  <2>1. queue \in Seq(Values) /\ DistinctItems(queue)
    BY DEF QueueInv, TypeOK, Unique, DistinctItems
  <2> QED BY <2>1, LoopIsDoEnqueue
<1> QED BY <1>1, InitQueueInv, NextQueueInv, PTL DEF Spec

(* A request leaves the queue only when a worker receives it. *)
THEOREM QueueDropsNothing == Spec => NothingDropped
<1> DEFINE Kept == \A v \in Values :
             IsQueued(queue, v) /\ ~IsQueued(queue', v) => sending # Nobody /\ v = Delivered
<1>1. QueueInv /\ [Next]_queueVars => [Kept]_queueVars
  <2> SUFFICES ASSUME QueueInv, Next,
                      NEW v \in Values, IsQueued(queue, v), ~IsQueued(queue', v)
               PROVE  sending # Nobody /\ v = Delivered
    OBVIOUS
  <2> USE DEF QueueInv, TypeOK, Unique
  <2>1. ASSUME NEW u \in Values, Push(u) PROVE FALSE
    BY <2>1 DEF Push
  <2>2. ASSUME NEW p \in Poppers, Pop(p) PROVE FALSE
    BY <2>2 DEF Pop
  <2>3. CASE Enqueue
    <3>1. Head(enqueue) \in Values
      BY <2>3, HeadTailProperties DEF Enqueue
    <3> QED BY <2>3, <3>1, DoEnqueueElements DEF Enqueue, DistinctItems
  <2>4. CASE Answer
    BY <2>4 DEF Answer
  <2>5. ASSUME NEW p \in Poppers, Deliver(p) PROVE sending # Nobody /\ v = Delivered
    <3>1. sending # Nobody /\ queue # << >> /\ queue' = Front(queue)
      BY <2>5 DEF Deliver
    <3>2. PICK k \in 1..Len(queue) : queue[k] = v
      BY DEF IsQueued
    <3>3. k \notin 1..(Len(queue) - 1)
      BY <3>1, <3>2, FrontElements DEF IsQueued
    <3>4. k = Len(queue)
      BY <3>2, <3>3
    <3> QED BY <3>1, <3>2, <3>4 DEF Delivered, Last
  <2> QED BY <2>1, <2>2, <2>3, <2>4, <2>5 DEF Next
<1> QED BY <1>1, InitQueueInv, NextQueueInv, PTL DEF Spec, NothingDropped
=============================================================================
