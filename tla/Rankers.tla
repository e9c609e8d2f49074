------------------------------- MODULE Rankers -------------------------------
(***************************************************************************)
(* The order in which a scheduler tries the hosts (scheduler/rankers.go):  *)
(* an insertion sort by score over the hosts in the order a Go map gives   *)
(* them.  It inserts before the better neighbour instead of after it, so   *)
(* that only the last host is where it belongs: 5, 1 and then 3 makes      *)
(* 3, 5, 1.                                                                *)
(***************************************************************************)
EXTENDS Integers, Sequences, SequencesExt

(* One host into the ranking of the hosts before it. *)
InsertSwapped(ranking, h, score) ==
  IF ranking = << >> \/ score[h] <= score[Head(ranking)]
  THEN <<h>> \o ranking ELSE Append(ranking, h)
Insert(ranking, h, score) ==
  LET between == {i \in 1..(Len(ranking) - 1) :
                    score[ranking[i + 1]] <= score[h] /\ score[h] <= score[ranking[i]]}
  IN
  IF ranking = << >> \/ score[h] >= score[Head(ranking)] THEN <<h>> \o ranking
  ELSE IF score[h] <= score[Last(ranking)] THEN Append(ranking, h)
  ELSE InsertAt(ranking, CHOOSE i \in between : \A j \in between : i <= j, h)

Rank(order, score) ==
  LET ranked[i \in 0..Len(order)] ==
        IF i = 0 THEN << >> ELSE Insert(ranked[i - 1], order[i], score)
  IN  ranked[Len(order)]

Rankings(hosts, score) == {Rank(order, score) : order \in SetToSeqs(hosts)}
=============================================================================
