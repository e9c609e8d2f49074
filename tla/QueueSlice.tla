----------------------------- MODULE QueueSlice -----------------------------
(***************************************************************************)
(* The loop of doEnqueue (master/queue.go:37-45) on a Go slice: it ranges  *)
(* over the slice as it was when the loop began while it deletes from the  *)
(* backing array that both share.                                          *)
(***************************************************************************)
EXTENDS Integers, Sequences

(* A slice: the backing array, how much of it s.queue still spans, and     *)
(* whether a slice expression was out of range.                            *)
Whole(q) == [array |-> q, len |-> Len(q), panic |-> FALSE]

(* append(s.queue[:i], s.queue[i+1:]...), i counted from 1: the rest of the*)
(* slice moves one place to the left, the place behind it keeps its value. *)
DeleteAfter(slice, i) ==
  IF i > slice.len THEN [slice EXCEPT !.panic = TRUE]
  ELSE [slice EXCEPT
          !.array = [j \in DOMAIN slice.array |->
                       IF j > i /\ j < slice.len THEN slice.array[j + 1] ELSE slice.array[j]],
          !.len = slice.len - 1]
DeleteAt(slice, i) ==
  IF i > slice.len THEN [slice EXCEPT !.panic = TRUE]
  ELSE [slice EXCEPT
          !.array = [j \in DOMAIN slice.array |->
                       IF j >= i /\ j < slice.len THEN slice.array[j + 1] ELSE slice.array[j]],
          !.len = slice.len - 1]

RangeAndDelete(q, v) ==
  LET after[i \in 0..Len(q)] ==
        IF i = 0 THEN Whole(q)
        ELSE IF after[i - 1].array[i] = v THEN DeleteAt(after[i - 1], i) ELSE after[i - 1]
  IN  after[Len(q)]

LoopPanics(q, v) == RangeAndDelete(q, v).panic

LoopEnqueue(q, v) ==
  LET slice == RangeAndDelete(q, v)
  IN  Append(SubSeq(slice.array, 1, slice.len), v)
=============================================================================
