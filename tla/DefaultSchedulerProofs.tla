----------------------- MODULE DefaultSchedulerProofs -----------------------
(***************************************************************************)
(* A scheduler on any number of hosts, deployments, workers and masters,   *)
(* with any configurations: its types, that a pass gives no host more than *)
(* it has, that it takes no deployment below its minimum, and that the host*)
(* with the worst score is its last resort.                                *)
(***************************************************************************)
EXTENDS DefaultScheduler, IterationProofs, FiniteSetTheorems, SequenceTheorems, TLAPS

(* The ranking of the hosts: what an insertion does to a ranking whose     *)
(* last host has the worst score.                                          *)

LastIsWorst(r, score) == \A j \in 1..Len(r) : score[r[Len(r)]] <= score[r[j]]
Ranked(H, score) == {r \in Seq(H) : LastIsWorst(r, score)}

(* The sequence r with h before its element p. *)
Inserted(r, p, h) ==
  [j \in 1..(Len(r) + 1) |-> IF j < p THEN r[j] ELSE IF j = p THEN h ELSE r[j - 1]]
Insertions(r, h) == {Inserted(r, p, h) : p \in 1..(Len(r) + 1)}

LEMMA InsertedTypes ==
  ASSUME NEW H, NEW r \in Seq(H), NEW h \in H, NEW p \in 1..(Len(r) + 1)
  PROVE  /\ Inserted(r, p, h) \in Seq(H)
         /\ Len(Inserted(r, p, h)) = Len(r) + 1
         /\ \A j \in 1..(Len(r) + 1) :
              Inserted(r, p, h)[j] = IF j < p THEN r[j] ELSE IF j = p THEN h ELSE r[j - 1]
<1>1. Len(r) \in Nat /\ \A j \in 1..Len(r) : r[j] \in H
  OBVIOUS
<1>2. Inserted(r, p, h) \in [1..(Len(r) + 1) -> H]
  BY <1>1 DEF Inserted
<1>3. Len(r) + 1 \in Nat
  BY <1>1
<1>4. Inserted(r, p, h) \in Seq(H)
  BY <1>2, <1>3 DEF Inserted
<1>5. Len(Inserted(r, p, h)) = Len(r) + 1
  BY <1>2, <1>3, <1>4
<1> QED
  BY <1>4, <1>5 DEF Inserted

(* The three ways to insert are one. *)
LEMMA InsertAtInserts ==
  ASSUME NEW H, NEW r \in Seq(H), NEW h \in H
  PROVE  /\ \A p \in 1..Len(r) : InsertAt(r, p, h) = Inserted(r, p, h)
         /\ <<h>> \o r = Inserted(r, 1, h)
         /\ Append(r, h) = Inserted(r, Len(r) + 1, h)
<1>1. Len(r) \in Nat /\ \A j \in 1..Len(r) : r[j] \in H
  OBVIOUS
<1>2. <<h>> \in Seq(H) /\ Len(<<h>>) = 1
  OBVIOUS
<1>3. ASSUME NEW p \in 1..Len(r) PROVE InsertAt(r, p, h) = Inserted(r, p, h)
  <2> DEFINE left == SubSeq(r, 1, p - 1)
             right == SubSeq(r, p, Len(r))
  <2>1. left \in Seq(H) /\ Len(left) = p - 1 /\ \A j \in 1..(p - 1) : left[j] = r[j]
    BY <1>1, SubSeqProperties
  <2>2. /\ right \in Seq(H) /\ Len(right) = Len(r) - p + 1
        /\ \A j \in 1..(Len(r) - p + 1) : right[j] = r[p + j - 1]
    BY <1>1, SubSeqProperties
  <2> HIDE DEF left, right
  <2>3. /\ left \o <<h>> \in Seq(H) /\ Len(left \o <<h>>) = p
        /\ \A j \in 1..p : (left \o <<h>>)[j] = IF j < p THEN r[j] ELSE h
    BY <1>2, <2>1, ConcatProperties
  <2> DEFINE start == left \o <<h>>
             end == start \o right
             wanted == Inserted(r, p, h)
  <2>4. start \in Seq(H) /\ Len(start) = p /\ \A j \in 1..p : start[j] = IF j < p THEN r[j] ELSE h
    BY <2>3
  <2> HIDE DEF start
  <2>5. /\ end \in Seq(H) /\ Len(end) = Len(r) + 1
        /\ \A j \in 1..(Len(r) + 1) : end[j] = IF j <= p THEN start[j] ELSE right[j - p]
    <3>1. Len(start) + Len(right) = Len(r) + 1
      BY <1>1, <2>2, <2>4
    <3>2. /\ end \in Seq(H) /\ Len(end) = Len(start) + Len(right)
          /\ \A j \in 1..(Len(start) + Len(right)) :
               end[j] = IF j <= Len(start) THEN start[j] ELSE right[j - Len(start)]
      <4> HIDE DEF right
      <4> QED
        BY <2>2, <2>4, ConcatProperties
    <3> QED
      BY <2>4, <3>1, <3>2
  <2>6. /\ wanted \in Seq(H) /\ Len(wanted) = Len(r) + 1
        /\ \A j \in 1..(Len(r) + 1) : wanted[j] = IF j < p THEN r[j] ELSE IF j = p THEN h ELSE r[j - 1]
    <3>1. p \in 1..(Len(r) + 1)
      BY <1>1
    <3> QED
      BY <3>1, InsertedTypes
  <2> HIDE DEF end, wanted
  <2>7. ASSUME NEW j \in 1..Len(end) PROVE end[j] = wanted[j]
    <3>1. j \in 1..(Len(r) + 1) /\ j \in Int /\ Len(r) \in Int /\ p \in 1..Len(r)
      BY <1>1, <2>5
    <3>2. CASE j <= p
      BY <2>4, <2>5, <2>6, <3>1, <3>2
    <3>3. CASE j > p
      <4>1. j - p \in 1..(Len(r) - p + 1) /\ p + (j - p) - 1 = j - 1
        BY <3>1, <3>3
      <4>2. right[j - p] = r[j - 1]
        BY <2>2, <4>1
      <4> QED
        BY <2>5, <2>6, <3>1, <3>3, <4>2
    <3> QED
      BY <3>1, <3>2, <3>3
  <2>8. end = wanted
    BY <2>5, <2>6, <2>7, SeqEqual
  <2> QED
    BY <2>8 DEF InsertAt, left, right, start, end, wanted
<1>4. <<h>> \o r = Inserted(r, 1, h)
  <2> DEFINE end == <<h>> \o r
             wanted == Inserted(r, 1, h)
  <2>1. /\ end \in Seq(H) /\ Len(end) = Len(r) + 1
        /\ \A j \in 1..(Len(r) + 1) : end[j] = IF j <= 1 THEN h ELSE r[j - 1]
    BY <1>1, <1>2, ConcatProperties
  <2>2. 1 \in 1..(Len(r) + 1)
    BY <1>1
  <2>3. /\ wanted \in Seq(H) /\ Len(wanted) = Len(r) + 1
        /\ \A j \in 1..(Len(r) + 1) :
             wanted[j] = IF j < 1 THEN r[j] ELSE IF j = 1 THEN h ELSE r[j - 1]
    BY <2>2, InsertedTypes
  <2> HIDE DEF end, wanted
  <2>4. \A j \in 1..Len(end) : end[j] = wanted[j]
    BY <1>1, <2>1, <2>3, SMTT(30)
  <2>5. end = wanted
    BY <2>1, <2>3, <2>4, SeqEqual
  <2> QED
    BY <2>5 DEF end, wanted
<1>5. Append(r, h) = Inserted(r, Len(r) + 1, h)
  <2> DEFINE end == Append(r, h)
             wanted == Inserted(r, Len(r) + 1, h)
  <2>1. /\ end \in Seq(H) /\ Len(end) = Len(r) + 1
        /\ \A j \in 1..(Len(r) + 1) : end[j] = IF j <= Len(r) THEN r[j] ELSE h
    BY <1>1, AppendProperties
  <2>2. Len(r) + 1 \in 1..(Len(r) + 1)
    BY <1>1
  <2>3. /\ wanted \in Seq(H) /\ Len(wanted) = Len(r) + 1
        /\ \A j \in 1..(Len(r) + 1) :
             wanted[j] = IF j < Len(r) + 1 THEN r[j] ELSE IF j = Len(r) + 1 THEN h ELSE r[j - 1]
    BY <2>2, InsertedTypes
  <2> HIDE DEF end, wanted
  <2>4. \A j \in 1..Len(end) : end[j] = wanted[j]
    BY <1>1, <2>1, <2>3
  <2>5. end = wanted
    BY <2>1, <2>3, <2>4, SeqEqual
  <2> QED
    BY <2>5 DEF end, wanted
<1> QED
  BY <1>3, <1>4, <1>5

(* The worst stays last when one is put before a host that is no better    *)
(* or behind all of them when it is no better.                             *)
LEMMA InsertedRanked ==
  ASSUME NEW H, NEW score \in [H -> Int], NEW r \in Ranked(H, score), NEW h \in H,
         NEW p \in 1..(Len(r) + 1),
         p <= Len(r) => score[r[Len(r)]] <= score[h],
         p = Len(r) + 1 => \A j \in 1..Len(r) : score[h] <= score[r[j]]
  PROVE  Inserted(r, p, h) \in Ranked(H, score) /\ Inserted(r, p, h) \in Insertions(r, h)
<1> DEFINE new == Inserted(r, p, h)
<1>1. r \in Seq(H) /\ \A j \in 1..Len(r) : score[r[Len(r)]] <= score[r[j]]
  BY DEF Ranked, LastIsWorst
<1>2. Len(r) \in Nat /\ \A j \in 1..Len(r) : r[j] \in H /\ score[r[j]] \in Int
  BY <1>1
<1>3. /\ new \in Seq(H) /\ Len(new) = Len(r) + 1
      /\ \A j \in 1..(Len(r) + 1) : new[j] = IF j < p THEN r[j] ELSE IF j = p THEN h ELSE r[j - 1]
  BY <1>1, InsertedTypes
<1>4. score[h] \in Int
  OBVIOUS
<1> HIDE DEF new
<1>5. ASSUME NEW j \in 1..(Len(r) + 1) PROVE score[new[Len(r) + 1]] <= score[new[j]]
  <2>1. CASE p <= Len(r)
    <3>1. new[Len(r) + 1] = r[Len(r)]
      BY <1>2, <1>3, <2>1
    <3>2. new[j] = h \/ \E i \in 1..Len(r) : new[j] = r[i]
      <4>1. CASE j < p
        BY <1>2, <1>3, <4>1
      <4>2. CASE j = p
        BY <1>3, <4>2
      <4>3. CASE j > p
        <5>1. j - 1 \in 1..Len(r) /\ new[j] = r[j - 1]
          BY <1>2, <1>3, <4>3
        <5> QED
          BY <5>1
      <4> QED
        BY <4>1, <4>2, <4>3
    <3> QED
      BY <1>1, <2>1, <3>1, <3>2
  <2>2. CASE p = Len(r) + 1
    <3>1. new[Len(r) + 1] = h /\ (j = Len(r) + 1 \/ (j \in 1..Len(r) /\ new[j] = r[j]))
      BY <1>2, <1>3, <2>2
    <3> QED
      BY <1>4, <2>2, <3>1
  <2> QED
    BY <1>2, <2>1, <2>2
<1> QED
  BY <1>3, <1>5 DEF Ranked, LastIsWorst, Insertions, new

(* Insert puts a host somewhere into the ranking and keeps the worst last: *)
(* in the middle there is a place, for the first host that is no better is *)
(* not the first of all.                                                   *)
LEMMA InsertRanks ==
  ASSUME NEW H, NEW score \in [H -> Int], NEW r \in Ranked(H, score), NEW h \in H
  PROVE  Insert(r, h, score) \in Ranked(H, score) /\ Insert(r, h, score) \in Insertions(r, h)
<1>1. r \in Seq(H) /\ \A j \in 1..Len(r) : score[r[Len(r)]] <= score[r[j]]
  BY DEF Ranked, LastIsWorst
<1>2. Len(r) \in Nat /\ (\A j \in 1..Len(r) : r[j] \in H /\ score[r[j]] \in Int) /\ score[h] \in Int
  BY <1>1
<1>3. CASE r = << >> \/ score[h] >= score[Head(r)]
  <2>1. Insert(r, h, score) = Inserted(r, 1, h)
    BY <1>1, <1>3, InsertAtInserts DEF Insert
  <2>2. 1 \in 1..(Len(r) + 1)
    BY <1>2
  <2>3. 1 <= Len(r) => score[r[Len(r)]] <= score[h]
    BY <1>1, <1>2, <1>3
  <2>4. 1 = Len(r) + 1 => \A j \in 1..Len(r) : score[h] <= score[r[j]]
    BY <1>2
  <2> QED
    BY <2>1, <2>2, <2>3, <2>4, InsertedRanked
<1>4. CASE r # << >> /\ ~(score[h] >= score[Head(r)]) /\ score[h] <= score[Last(r)]
  <2>1. Insert(r, h, score) = Inserted(r, Len(r) + 1, h)
    BY <1>1, <1>4, InsertAtInserts DEF Insert
  <2>2. Len(r) + 1 \in 1..(Len(r) + 1) /\ ~(Len(r) + 1 <= Len(r))
    BY <1>2
  <2>3. \A j \in 1..Len(r) : score[h] <= score[r[j]]
    <3>1. Len(r) \in 1..Len(r) /\ score[h] <= score[r[Len(r)]]
      BY <1>1, <1>2, <1>4 DEF Last
    <3> QED
      BY <1>1, <1>2, <3>1
  <2> QED
    BY <2>1, <2>2, <2>3, InsertedRanked
<1>5. CASE r # << >> /\ ~(score[h] >= score[Head(r)]) /\ ~(score[h] <= score[Last(r)])
  <2> DEFINE between == {i \in 1..(Len(r) - 1) :
                           score[r[i + 1]] <= score[h] /\ score[h] <= score[r[i]]}
             NoBetter == {i \in 1..Len(r) : score[r[i]] <= score[h]}
             first == CHOOSE i \in between : \A j \in between : i <= j
  <2>1. Len(r) \in 1..Len(r) /\ score[h] < score[r[1]] /\ score[r[Len(r)]] < score[h]
    BY <1>1, <1>2, <1>5 DEF Last
  <2>2. PICK i \in NoBetter : \A j \in NoBetter : i <= j
    <3>1. NoBetter \subseteq Nat /\ NoBetter # {}
      BY <1>2, <2>1
    <3> HIDE DEF NoBetter
    <3> QED
      BY <3>1, LeastMember
  <2>3. i - 1 \in between
    <3>1. i \in 1..Len(r) /\ score[r[i]] <= score[h] /\ i # 1
      BY <1>2, <2>1, <2>2
    <3>2. i - 1 \in 1..Len(r) /\ i - 1 \notin NoBetter /\ i - 1 \in 1..(Len(r) - 1) /\ (i - 1) + 1 = i
      BY <1>2, <2>2, <3>1
    <3>3. score[h] <= score[r[i - 1]]
      BY <1>2, <3>2
    <3> QED
      BY <3>1, <3>2, <3>3
  <2>4. first \in between
    <3>1. between \subseteq Nat
      OBVIOUS
    <3> HIDE DEF between
    <3>2. \E m \in between : \A j \in between : m <= j
      BY <2>3, <3>1, LeastMember
    <3> QED
      BY <3>2, Zenon
  <2>5. first \in 1..Len(r)
    BY <1>2, <2>4
  <2>6. Insert(r, h, score) = InsertAt(r, first, h)
    BY <1>5 DEF Insert
  <2> HIDE DEF first, between, NoBetter
  <2>7. Insert(r, h, score) = Inserted(r, first, h)
    BY <1>1, <2>5, <2>6, InsertAtInserts
  <2>8. /\ first \in 1..(Len(r) + 1) /\ first # Len(r) + 1
        /\ score[r[Len(r)]] <= score[h]
    BY <1>2, <2>1, <2>5
  <2> QED
    BY <2>7, <2>8, InsertedRanked
<1> QED
  BY <1>3, <1>4, <1>5

(* A ranking has no host twice; its hosts. *)
Distinct(r) == \A i, j \in 1..Len(r) : i # j => r[i] # r[j]
Members(r) == {r[j] : j \in 1..Len(r)}

LEMMA InsertionMembers ==
  ASSUME NEW H, NEW r \in Seq(H), NEW h \in H \ Members(r), Distinct(r), NEW s \in Insertions(r, h)
  PROVE  Distinct(s) /\ Members(s) = Members(r) \union {h}
<1>1. PICK p \in 1..(Len(r) + 1) : s = Inserted(r, p, h)
  BY DEF Insertions
<1>2. /\ Len(s) = Len(r) + 1
      /\ \A j \in 1..(Len(r) + 1) : s[j] = IF j < p THEN r[j] ELSE IF j = p THEN h ELSE r[j - 1]
  BY <1>1, InsertedTypes
<1>3. Len(r) \in Nat /\ \A j \in 1..Len(r) : r[j] # h
  BY DEF Members
<1>4. \A j \in 1..Len(s) : \/ j < p /\ j \in 1..Len(r) /\ s[j] = r[j]
                           \/ j = p /\ s[j] = h
                           \/ j > p /\ j - 1 \in 1..Len(r) /\ s[j] = r[j - 1]
  BY <1>2, <1>3
<1>5. Distinct(s)
  <2>1. ASSUME NEW i \in 1..Len(s), NEW j \in 1..Len(s), i < j PROVE s[i] # s[j]
    <3>1. i \in Int /\ j \in Int /\ p \in Int
      BY <1>2, <1>3
    <3>2. CASE j < p
      BY <1>4, <2>1, <3>1, <3>2 DEF Distinct
    <3>3. CASE j = p
      BY <1>3, <1>4, <2>1, <3>1, <3>3
    <3>4. CASE j > p
      <4>1. j - 1 \in 1..Len(r) /\ s[j] = r[j - 1]
        BY <1>4, <3>1, <3>4
      <4>2. CASE i < p
        <5>1. i \in 1..Len(r) /\ s[i] = r[i] /\ i # j - 1
          BY <1>4, <3>1, <3>4, <4>2
        <5> QED
          BY <4>1, <5>1 DEF Distinct
      <4>3. CASE i = p
        BY <1>3, <1>4, <3>1, <4>1, <4>3
      <4>4. CASE i > p
        <5>1. i - 1 \in 1..Len(r) /\ s[i] = r[i - 1] /\ i - 1 # j - 1
          BY <1>4, <2>1, <3>1, <4>4
        <5> QED
          BY <4>1, <5>1 DEF Distinct
      <4> QED
        BY <3>1, <4>2, <4>3, <4>4
    <3> QED
      BY <3>1, <3>2, <3>3, <3>4
  <2> QED
    BY <1>2, <1>3, <2>1 DEF Distinct
<1>6. Members(s) \subseteq Members(r) \union {h}
  BY <1>4 DEF Members
<1>7. ASSUME NEW j \in 1..Len(r) PROVE r[j] \in Members(s)
  <2>1. CASE j < p
    BY <1>2, <1>3, <2>1 DEF Members
  <2>2. CASE ~(j < p)
    <3>1. j + 1 \in 1..Len(s) /\ ~(j + 1 < p) /\ j + 1 # p /\ (j + 1) - 1 = j
      BY <1>2, <1>3, <2>2
    <3>2. s[j + 1] = r[j]
      BY <1>2, <3>1
    <3> QED
      BY <3>1, <3>2 DEF Members
  <2> QED
    BY <2>1, <2>2
<1>8. h \in Members(s)
  BY <1>2, <1>3 DEF Members
<1> QED
  BY <1>5, <1>6, <1>7, <1>8 DEF Members

(* The loop of rank, over any order of the hosts. *)
LEMMA RankRun ==
  ASSUME NEW H, NEW score \in [H -> Int], NEW order \in Seq(H)
  PROVE  \E f \in [0..Len(order) -> Ranked(H, score)] :
           /\ f[0] = << >>
           /\ \A i \in 1..Len(order) : f[i] = Insert(f[i - 1], order[i], score)
           /\ Rank(order, score) = f[Len(order)]
<1> DEFINE n == Len(order)
           S == Ranked(H, score)
           step == [i \in 1..n |-> [r \in S |-> Insert(r, order[i], score)]]
<1>1. n \in Nat /\ \A i \in 1..n : order[i] \in H
  OBVIOUS
<1>2. << >> \in S
  <2>1. << >> \in Seq(H) /\ Len(<< >>) = 0
    OBVIOUS
  <2> QED
    BY <2>1 DEF Ranked, LastIsWorst
<1>3. \A i \in 1..n, r \in S : Insert(r, order[i], score) \in S
  BY <1>1, InsertRanks
<1>4. step \in [1..n -> [S -> S]]
  BY <1>3
<1>5. PICK f \in Runs(n, S, << >>, step) : TRUE
  <2> HIDE DEF n, S, step
  <2> QED
    BY <1>1, <1>2, <1>4, LoopRuns
<1>6. f \in [0..n -> S] /\ f[0] = << >> /\ \A i \in 1..n : f[i] = step[i][f[i - 1]]
  BY <1>5 DEF Runs
<1>7. ASSUME NEW i \in 1..n PROVE f[i - 1] \in S /\ f[i] = Insert(f[i - 1], order[i], score)
  <2>1. i - 1 \in 0..n
    BY <1>1
  <2>2. f[i - 1] \in S
    BY <1>6, <2>1
  <2> HIDE DEF S
  <2> QED
    BY <1>6, <2>2
<1> DEFINE ranked[i \in 0..Len(order)] ==
             IF i = 0 THEN << >> ELSE Insert(ranked[i - 1], order[i], score)
<1>8. f = [i \in 0..n |-> IF i = 0 THEN << >> ELSE Insert(f[i - 1], order[i], score)]
  <2>1. \A i \in 0..n : f[i] = IF i = 0 THEN << >> ELSE Insert(f[i - 1], order[i], score)
    BY <1>1, <1>6, <1>7
  <2> QED
    BY <1>6, <2>1
<1>9. ranked = [i \in 0..n |-> IF i = 0 THEN << >> ELSE Insert(ranked[i - 1], order[i], score)]
  BY <1>8, Zenon
<1>10. Rank(order, score) = ranked[n]
  BY DEF Rank
<1>11. ranked[n] = f[n]
  <2> HIDE DEF ranked
  <2> DEFINE T == {i \in 0..n : ranked[i] = f[i]}
  <2>1. 0 \in T
    BY <1>1, <1>6, <1>9
  <2>2. ASSUME NEW i \in 1..n, i - 1 \in T PROVE i \in T
    <3>1. i \in 0..n /\ i # 0 /\ ranked[i - 1] = f[i - 1]
      BY <1>1, <2>2
    <3>2. ranked[i] = Insert(ranked[i - 1], order[i], score)
      BY <1>9, <3>1
    <3> QED
      BY <1>7, <3>1, <3>2
  <2> HIDE DEF T
  <2>3. 0..n \subseteq T
    BY <1>1, <2>1, <2>2, InductionUpTo
  <2> QED
    BY <1>1, <2>3 DEF T
<1> QED
  BY <1>6, <1>7, <1>10, <1>11

(* A ranking has the hosts it ranks, each once, and the worst of them last.*)
LEMMA RankRanks ==
  ASSUME NEW H, NEW score \in [H -> Int], NEW order \in Seq(H), Distinct(order)
  PROVE  /\ Rank(order, score) \in Ranked(H, score)
         /\ Distinct(Rank(order, score))
         /\ Members(Rank(order, score)) = Members(order)
<1> DEFINE n == Len(order)
<1>1. n \in Nat /\ \A i \in 1..n : order[i] \in H
  OBVIOUS
<1>2. PICK f \in [0..n -> Ranked(H, score)] :
        /\ f[0] = << >>
        /\ \A i \in 1..n : f[i] = Insert(f[i - 1], order[i], score)
        /\ Rank(order, score) = f[n]
  BY RankRun
<1> DEFINE Before(i) == {order[j] : j \in 1..i}
           T == {i \in 0..n : Distinct(f[i]) /\ Members(f[i]) = Before(i)}
<1>3. 0 \in T
  <2>1. Len(<< >>) = 0 /\ 0 \in 0..n /\ 1..0 = {}
    BY <1>1
  <2> QED
    BY <1>2, <2>1 DEF Distinct, Members
<1>4. ASSUME NEW i \in 1..n, i - 1 \in T PROVE i \in T
  <2>1. /\ i \in 0..n /\ i - 1 \in 0..n /\ i \in Nat
        /\ Distinct(f[i - 1]) /\ Members(f[i - 1]) = Before(i - 1)
    BY <1>1, <1>4, SMTT(30)
  <2>2. f[i - 1] \in Ranked(H, score) /\ f[i - 1] \in Seq(H) /\ order[i] \in H
    BY <1>1, <1>2, <2>1 DEF Ranked
  <2>3. order[i] \notin Before(i - 1)
    <3>1. \A j \in 1..(i - 1) : j \in 1..n /\ j # i
      BY <1>1
    <3> QED
      BY <3>1 DEF Distinct
  <2>4. f[i] \in Insertions(f[i - 1], order[i])
    <3>1. f[i] = Insert(f[i - 1], order[i], score)
      BY <1>2
    <3>2. Insert(f[i - 1], order[i], score) \in Insertions(f[i - 1], order[i])
      BY <2>2, InsertRanks, Zenon
    <3> QED
      BY <3>1, <3>2
  <2>5. Distinct(f[i]) /\ Members(f[i]) = Members(f[i - 1]) \union {order[i]}
    <3> DEFINE r == f[i - 1]
               h == order[i]
               s == f[i]
    <3>1. r \in Seq(H) /\ h \in H \ Members(r) /\ Distinct(r) /\ s \in Insertions(r, h)
      BY <2>1, <2>2, <2>3, <2>4
    <3> HIDE DEF r, h, s
    <3>2. Distinct(s) /\ Members(s) = Members(r) \union {h}
      BY <3>1, InsertionMembers
    <3> QED
      BY <3>2 DEF r, h, s
  <2>6. Before(i) = Before(i - 1) \union {order[i]}
    <3>1. 1..i = (1..(i - 1)) \union {i}
      BY <2>1
    <3> QED
      BY <3>1
  <2> QED
    BY <2>1, <2>5, <2>6
<1> HIDE DEF T
<1>5. 0..n \subseteq T
  BY <1>1, <1>3, <1>4, InductionUpTo
<1>6. n \in T /\ n \in 0..n
  BY <1>1, <1>5
<1> QED
  BY <1>2, <1>6 DEF T, Members

(* Every ranking of a finite set of hosts. *)
LEMMA RankingsRank ==
  ASSUME NEW H, NEW score \in [H -> Int], NEW hosts \in SUBSET H, IsFiniteSet(hosts),
         NEW ranking \in Rankings(hosts, score)
  PROVE  ranking \in Ranked(H, score) /\ Distinct(ranking) /\ Members(ranking) = hosts
<1>1. PICK order \in SetToSeqs(hosts) : ranking = Rank(order, score)
  BY DEF Rankings
<1> DEFINE n == Cardinality(hosts)
<1>2. n \in Nat
  BY FS_CardinalityType
<1>3. order \in [1..n -> hosts] /\ \A i, j \in 1..n : i # j => order[i] # order[j]
  BY <1>1 DEF SetToSeqs
<1>4. order \in Seq(H) /\ Len(order) = n
  BY <1>2, <1>3
<1>5. Members(order) = hosts
  <2>1. order \in Injection(1..n, hosts)
    BY <1>3 DEF Injection, IsInjective
  <2>2. IsFiniteSet(1..n) /\ Cardinality(1..n) = n
    BY <1>2, FS_Interval
  <2>3. order \in Surjection(1..n, hosts)
    BY <2>1, <2>2, FS_Injection
  <2> QED
    BY <1>3, <1>4, <2>3 DEF Surjection, Members
<1>6. Distinct(order)
  BY <1>3, <1>4 DEF Distinct
<1> QED
  BY <1>1, <1>4, <1>5, <1>6, RankRanks

-----------------------------------------------------------------------------
USE CapacityAssumption, NoneAssumption, MasterAssumption, InstancesAssumption, ConfigsAssumption,
    BudgetAssumption
    DEF CapacityAssumption, NoneAssumption, MasterAssumption, InstancesAssumption,
        ConfigsAssumption, BudgetAssumption

(* TypeOK in parts, with what else is known of the records of the tasks    *)
(* and of the locals of Schedule in its phases.                            *)
TaskTypes ==
  /\ tasks \in [TaskIds -> TaskRecord]
  /\ \A k \in TaskIds : tasks[k].scheduled => tasks[k].host \in Hosts

Budget ==
  [changes : 0..MaxChanges, rejects : 0..MaxRejects, drains : 0..MaxDrains,
   failures : 0..MaxFailures, restarts : 0..MaxRestarts]

WorldTypes ==
  /\ config \in [Deployments -> Config]
  /\ \A d \in Deployments : config[d] \in Configs[d]
  /\ published \in [Hosts -> [draining : BOOLEAN, free : Int, ports : SUBSET Ports]]
  /\ agent \in [Hosts -> [running : SUBSET TaskIds, rejecting : SUBSET TaskIds,
                          stopping : SUBSET TaskIds]]

ViewTypes == view \in [Masters -> [Hosts -> HostView]]

Maps == UNION {[S -> TaskRecord] : S \in SUBSET TaskIds}
Job ==
  [dep : Deployments \union {None}, cfg : Config, todo : SUBSET TaskIds, map : Maps, count : Nat,
   removed : Nat, i : Int, host : Hosts \union {None}, added : SUBSET TaskIds]

(* The counters never say there are more tasks than the map holds, and     *)
(* scaling down begins at the last one they count.                         *)
CountOK(w) ==
  /\ pc[w] \in {"clean", "down"} => Left(w) <= Cardinality(DOMAIN job[w].map)
  /\ pc[w] = "down" => job[w].i <= Left(w) - 1

JobOK(w) ==
  /\ pc[w] # "idle" => job[w].dep \in Deployments /\ job[w].cfg \in Configs[job[w].dep]
  /\ pc[w] \in {"idle", "list"} => DOMAIN job[w].map = {}
  /\ \A k \in DOMAIN job[w].map :
       Dep(k) = job[w].dep /\ job[w].map[k].scheduled /\ job[w].map[k].host \in Hosts
  /\ job[w].todo \subseteq DOMAIN job[w].map
  /\ pc[w] # "clean" => job[w].todo = {}
  /\ job[w].added \subseteq DOMAIN job[w].map
  /\ pc[w] \notin {"up", "place"} => job[w].added = {}
  /\ pc[w] \in {"up", "place"} => job[w].i >= 0
  /\ pc[w] = "place" =>
       job[w].host \in Hosts /\ job[w].i < job[w].cfg.desired /\ Instance(w) \notin DOMAIN job[w].map
  /\ CountOK(w)

WorkerTypes == pc \in [Workers -> Phases] /\ job \in [Workers -> Job]
JobTypes == WorkerTypes /\ \A w \in Workers : JobOK(w)

TypeInv == TaskTypes /\ WorldTypes /\ ViewTypes /\ JobTypes /\ budget \in Budget

LEMMA MapTypes ==
  ASSUME NEW map \in Maps
  PROVE  /\ DOMAIN map \subseteq TaskIds
         /\ \A k \in DOMAIN map : map[k] \in TaskRecord
         /\ \A k \in TaskIds : Without(map, k) \in Maps /\ DOMAIN Without(map, k) = DOMAIN map \ {k}
         /\ \A k \in TaskIds : \A j \in DOMAIN map \ {k} : Without(map, k)[j] = map[j]
<1>1. PICK S \in SUBSET TaskIds : map \in [S -> TaskRecord]
  BY DEF Maps
<1>2. ASSUME NEW k \in TaskIds PROVE Without(map, k) \in [S \ {k} -> TaskRecord]
  BY <1>1 DEF Without
<1> QED
  BY <1>1, <1>2 DEF Maps, Without

LEMMA TypeInvTypes == TypeInv => TypeOK
<1> SUFFICES ASSUME TypeInv PROVE TypeOK
  OBVIOUS
<1>1. ASSUME NEW w \in Workers
      PROVE  /\ pc[w] # "idle" => job[w].dep \in Deployments /\ job[w].cfg \in Configs[job[w].dep]
             /\ pc[w] = "place" => job[w].host \in Hosts
             /\ DOMAIN job[w].map \subseteq {k \in TaskIds : Dep(k) = job[w].dep}
             /\ \A k \in DOMAIN job[w].map :
                  job[w].map[k] \in TaskRecord /\ job[w].map[k].scheduled /\ job[w].map[k].host \in Hosts
             /\ job[w].todo \subseteq DOMAIN job[w].map
             /\ job[w].count \in Nat /\ job[w].removed \in Nat /\ job[w].i \in Int
             /\ job[w].added \subseteq DOMAIN job[w].map
  <2>1. JobOK(w) /\ job[w] \in Job
    BY DEF TypeInv, JobTypes, WorkerTypes
  <2>2. job[w].map \in Maps
    BY <2>1 DEF Job
  <2> QED
    BY <2>1, <2>2, MapTypes DEF JobOK, Job
<1> QED
  BY <1>1 DEF TypeInv, TypeOK, TaskTypes, WorldTypes, ViewTypes, JobTypes, WorkerTypes, Budget

LEMMA NoJobTypes == NoJob \in Job /\ DOMAIN NoJob.map = {} /\ NoJob.todo = {} /\ NoJob.added = {}
<1>1. NoMap \in [{} -> TaskRecord] /\ {} \in SUBSET TaskIds /\ DOMAIN NoMap = {}
  BY DEF NoMap
<1>2. NoMap \in Maps
  BY <1>1 DEF Maps
<1>3. NoConfig \in Config
  BY DEF NoConfig, Config
<1> QED
  BY <1>1, <1>2, <1>3 DEF NoJob, Job

(* There are finitely many tasks. *)
LEMMA TaskIdsFinite == IsFiniteSet(TaskIds)
<1> DEFINE versions == 1..MaxVersion
           instances == 0..(MaxInstances - 1)
           pairs == (Deployments \X versions) \X instances
           f == [k \in TaskIds |-> <<<<k[1], k[2]>>, k[3]>>]
<1>1. IsFiniteSet(versions) /\ IsFiniteSet(instances)
  <2>1. 1 \in Int /\ 0 \in Int /\ MaxVersion \in Int /\ MaxInstances - 1 \in Int
    OBVIOUS
  <2> QED
    BY <2>1, FS_Interval
<1>2. IsFiniteSet(pairs)
  BY <1>1, FS_Product, DeploymentsAssumption DEF DeploymentsAssumption
<1>3. f \in Injection(TaskIds, pairs)
  BY DEF TaskIds, Injection, IsInjective
<1> HIDE DEF pairs
<1> QED
  BY <1>2, <1>3, FS_Injection

LEMMA InitTypes == Init => TypeInv
<1> SUFFICES ASSUME Init PROVE TypeInv
  OBVIOUS
<1>1. TaskTypes
  BY DEF Init, TaskTypes, Absent, TaskRecord
<1>2. WorldTypes
  BY DEF Init, WorldTypes, Ports
<1>3. ViewTypes
  BY DEF Init, ViewTypes, Unknown, HostView
<1>4. JobTypes
  BY NoJobTypes DEF Init, JobTypes, WorkerTypes, JobOK, CountOK, Resting, Phases
<1>5. budget \in Budget
  BY DEF Init, Budget
<1> QED
  BY <1>1, <1>2, <1>3, <1>4, <1>5 DEF TypeInv

-----------------------------------------------------------------------------
(* The actions of the world around the schedulers. *)

WorldSteps ==
  \/ \E d \in Deployments : \E c \in Configs[d] : Configure(d, c)
  \/ \E h \in Hosts : Drain(h) \/ AgentStep(h)

LEMMA SpendTypes ==
  ASSUME budget \in Budget, NEW what, Spend(what),
         what \in {"changes", "rejects", "drains", "failures", "restarts"}
  PROVE  budget' \in Budget
BY DEF Spend, Budget

LEMMA PutTypes ==
  ASSUME TaskTypes, budget \in Budget, NEW k \in TaskIds, NEW record \in TaskRecord,
         record.scheduled => record.host \in Hosts, Put(k, record)
  PROVE  TaskTypes' /\ budget' \in Budget
<1>1. CASE tasks' = [tasks EXCEPT ![k] = record] /\ UNCHANGED budget
  BY <1>1 DEF TaskTypes
<1>2. CASE Spend("failures") /\ UNCHANGED tasks
  BY <1>2, SpendTypes DEF TaskTypes
<1> QED
  BY <1>1, <1>2 DEF Put

LEMMA JobTypesKept == JobTypes /\ UNCHANGED <<pc, job>> => JobTypes'
BY DEF JobTypes, WorkerTypes, JobOK, CountOK, Left, Instance, TaskId

(* What is published is some number and some ports of deployments. *)
LEMMA PublicationTypes ==
  ASSUME WorldTypes, NEW h \in Hosts
  PROVE  Publication(h) \in [draining : BOOLEAN, free : Int, ports : SUBSET Ports]
<1>1. agent[h].running \subseteq TaskIds
  BY DEF WorldTypes
<1>2. Cardinality(agent[h].running) \in Nat
  BY <1>1, TaskIdsFinite, FS_Subset, FS_CardinalityType
<1>3. \A k \in TaskIds : Dep(k) \in Deployments
  BY DEF TaskIds, Dep
<1>4. UNION {PortsOf(Dep(k)) : k \in agent[h].running} \in SUBSET Ports
  BY <1>1, <1>3 DEF PortsOf, Ports
<1> QED
  BY <1>2, <1>4 DEF Publication

LEMMA WorldStepTypes ==
  ASSUME TypeInv, WorldSteps
  PROVE  TypeInv'
<1> USE DEF TypeInv, schedulerVars
<1>1. ASSUME NEW d \in Deployments, NEW c \in Configs[d], Configure(d, c) PROVE TypeInv'
  <2>1. UNCHANGED <<tasks, view, pc, job>> /\ budget' \in Budget
    BY <1>1, SpendTypes DEF Configure
  <2>2. WorldTypes'
    BY <1>1 DEF Configure, WorldTypes
  <2> QED
    BY <2>1, <2>2, JobTypesKept DEF TaskTypes, ViewTypes
<1>2. ASSUME NEW h \in Hosts, Drain(h) PROVE TypeInv'
  <2>1. UNCHANGED <<tasks, view, pc, job>> /\ budget' \in Budget
    BY <1>2, SpendTypes DEF Drain
  <2>2. WorldTypes'
    BY <1>2 DEF Drain, WorldTypes
  <2> QED
    BY <2>1, <2>2, JobTypesKept DEF TaskTypes, ViewTypes
<1>3. ASSUME NEW h \in Hosts, AgentPublishes(h) PROVE TypeInv'
  <2>1. UNCHANGED <<tasks, view, pc, job, budget>>
    BY <1>3 DEF AgentPublishes
  <2>2. WorldTypes'
    BY <1>3, PublicationTypes DEF AgentPublishes, WorldTypes
  <2> QED
    BY <2>1, <2>2, JobTypesKept DEF TaskTypes, ViewTypes
<1>4. ASSUME NEW h \in Hosts, NEW k \in TaskIds, AgentSees(h, k) PROVE TypeInv'
  <2>1. UNCHANGED <<tasks, config, published, view, pc, job>> /\ budget' \in Budget
    BY <1>4, SpendTypes DEF AgentSees
  <2>2. WorldTypes'
    BY <1>4 DEF AgentSees, WorldTypes
  <2> QED
    BY <2>1, <2>2, JobTypesKept DEF TaskTypes, ViewTypes
<1>5. ASSUME NEW h \in Hosts, NEW k \in TaskIds, AgentRejects(h, k) PROVE TypeInv'
  <2>1. UNCHANGED <<config, published, view, pc, job, budget>>
    BY <1>5 DEF AgentRejects
  <2>2. WorldTypes'
    BY <1>5 DEF AgentRejects, WorldTypes
  <2>3. TaskTypes'
    BY <1>5 DEF AgentRejects, TaskTypes, TaskRecord, Placed
  <2> QED
    BY <2>1, <2>2, <2>3, JobTypesKept DEF ViewTypes
<1>6. ASSUME NEW h \in Hosts, NEW k \in TaskIds, AgentStops(h, k) PROVE TypeInv'
  <2>1. UNCHANGED <<config, published, view, pc, job, budget>>
    BY <1>6 DEF AgentStops
  <2>2. WorldTypes'
    BY <1>6 DEF AgentStops, WorldTypes
  <2>3. TaskTypes'
    BY <1>6 DEF AgentStops, TaskTypes, TaskRecord, Absent
  <2> QED
    BY <2>1, <2>2, <2>3, JobTypesKept DEF ViewTypes
<1> QED
  BY <1>1, <1>2, <1>3, <1>4, <1>5, <1>6 DEF WorldSteps, AgentStep

-----------------------------------------------------------------------------
(* The actions of a worker. *)

LEMMA JobStep ==
  ASSUME JobTypes, NEW w \in Workers, WorkerTypes', JobOK(w)',
         \A v \in Workers \ {w} : pc'[v] = pc[v] /\ job'[v] = job[v]
  PROVE  JobTypes'
BY DEF JobTypes, JobOK, CountOK, Left, Instance, TaskId

LEMMA ReturnTypes ==
  ASSUME JobTypes, NEW w \in Workers, Return(w)
  PROVE  JobTypes'
<1>1. WorkerTypes'
  BY NoJobTypes DEF JobTypes, WorkerTypes, Return, Phases
<1>2. pc'[w] = "idle" /\ job'[w] = NoJob
  BY DEF JobTypes, WorkerTypes, Return
<1>3. JobOK(w)'
  BY <1>2, NoJobTypes DEF JobOK, CountOK
<1> QED
  BY <1>1, <1>3, JobStep DEF JobTypes, WorkerTypes, Return

(* The map of a worker, and how many tasks it holds. *)
LEMMA MapOf ==
  ASSUME JobTypes, NEW w \in Workers
  PROVE  /\ job[w] \in Job /\ job[w].map \in Maps /\ JobOK(w)
         /\ DOMAIN job[w].map \subseteq TaskIds
         /\ IsFiniteSet(DOMAIN job[w].map)
         /\ Cardinality(DOMAIN job[w].map) \in Nat
         /\ Left(w) \in Int
<1>1. job[w] \in Job /\ job[w].map \in Maps /\ JobOK(w)
  BY DEF JobTypes, WorkerTypes, Job
<1>2. DOMAIN job[w].map \subseteq TaskIds
  BY <1>1, MapTypes
<1> QED
  BY <1>1, <1>2, TaskIdsFinite, FS_Subset, FS_CardinalityType DEF Left, Job

LEMMA BeginTypes ==
  ASSUME TypeInv, NEW w \in Workers, NEW d \in Deployments, Begin(w, d)
  PROVE  TypeInv'
<1> USE DEF TypeInv
<1>1. UNCHANGED <<tasks, config, published, agent, budget>>
  BY DEF Begin, worldVars
<1>2. ViewTypes'
  <2>1. \A h \in Hosts : Synced(MasterOf[w], h) \in HostView
    BY DEF ViewTypes, WorldTypes, Synced, HostView
  <2> QED
    BY <2>1 DEF Begin, ViewTypes
<1>3. [NoJob EXCEPT !.dep = d, !.cfg = config[d]] \in Job
  BY NoJobTypes DEF WorldTypes, Job
<1>4. WorkerTypes'
  BY <1>3 DEF Begin, JobTypes, WorkerTypes, Phases
<1>5. JobOK(w)'
  <2>1. pc'[w] = "list" /\ job'[w] = [NoJob EXCEPT !.dep = d, !.cfg = config[d]]
    BY DEF Begin, JobTypes, WorkerTypes
  <2>2. config[d] \in Configs[d]
    BY DEF WorldTypes
  <2> QED
    BY <2>1, <2>2, NoJobTypes DEF JobOK, CountOK, NoJob
<1>6. JobTypes'
  BY <1>4, <1>5, JobStep DEF Begin, JobTypes, WorkerTypes
<1> QED
  BY <1>1, <1>2, <1>6 DEF TaskTypes, WorldTypes

LEMMA ReadFailsTypes ==
  ASSUME TypeInv, NEW w \in Workers, ReadFails(w)
  PROVE  TypeInv'
<1>1. UNCHANGED <<tasks, view, config, published, agent>> /\ budget' \in Budget /\ Return(w)
  BY SpendTypes DEF ReadFails, worldVars, TypeInv
<1> QED
  BY <1>1, ReturnTypes DEF TypeInv, TaskTypes, WorldTypes, ViewTypes

LEMMA ListTypes ==
  ASSUME TypeInv, NEW w \in Workers, List(w)
  PROVE  TypeInv'
<1> USE DEF TypeInv
<1> DEFINE found == Listed(w)
           listed == [k \in found |-> tasks[k]]
           after == [job[w] EXCEPT !.todo = found, !.map = listed, !.count = Cardinality(found)]
<1>1. UNCHANGED <<tasks, view, config, published, agent, budget>>
  BY DEF List, worldVars
<1>2. /\ found \in SUBSET TaskIds
      /\ \A k \in found : Dep(k) = job[w].dep /\ tasks[k].scheduled /\ tasks[k].host \in Hosts
  BY DEF Listed, TaskTypes
<1>3. Cardinality(found) \in Nat
  BY <1>2, TaskIdsFinite, FS_Subset, FS_CardinalityType
<1>4. listed \in [found -> TaskRecord] /\ DOMAIN listed = found /\ \A k \in found : listed[k] = tasks[k]
  BY <1>2 DEF TaskTypes
<1>5. listed \in Maps
  BY <1>2, <1>4 DEF Maps
<1>6. pc[w] = "list" /\ pc' = [pc EXCEPT ![w] = "clean"] /\ job' = [job EXCEPT ![w] = after]
  BY MapOf DEF List, Goto, JobTypes, WorkerTypes
<1>7. job[w] \in Job /\ JobOK(w)
  BY MapOf
<1> HIDE DEF found, listed
<1>8. after \in Job
  BY <1>2, <1>3, <1>5, <1>7 DEF Job
<1>9. WorkerTypes'
  BY <1>6, <1>8 DEF JobTypes, WorkerTypes, Phases
<1>10. JobOK(w)'
  <2>1. pc'[w] = "clean" /\ job'[w] = after
    BY <1>6 DEF JobTypes, WorkerTypes
  <2>2. /\ after.dep = job[w].dep /\ after.cfg = job[w].cfg /\ after.todo = found
        /\ after.map = listed /\ after.count = Cardinality(found) /\ after.removed = job[w].removed
        /\ after.added = job[w].added
    BY <1>7 DEF Job
  <2>3. job[w].added = {} /\ job[w].removed \in Nat
    BY <1>6, <1>7 DEF JobOK, Job
  <2>4. job[w].dep \in Deployments /\ job[w].cfg \in Configs[job[w].dep]
    BY <1>6, <1>7 DEF JobOK
  <2>5. CountOK(w)'
    BY <1>3, <1>4, <2>1, <2>2, <2>3 DEF CountOK, Left
  <2> QED
    BY <1>2, <1>4, <2>1, <2>2, <2>3, <2>4, <2>5 DEF JobOK
<1>11. JobTypes'
  BY <1>6, <1>9, <1>10, JobStep DEF JobTypes, WorkerTypes
<1> QED
  BY <1>1, <1>11 DEF TaskTypes, WorldTypes, ViewTypes

(* A task leaves the map of a worker. *)
LEMMA Taken ==
  ASSUME JobTypes, NEW w \in Workers, NEW k \in DOMAIN job[w].map
  PROVE  /\ k \in TaskIds
         /\ Without(job[w].map, k) \in Maps
         /\ DOMAIN Without(job[w].map, k) = DOMAIN job[w].map \ {k}
         /\ \A j \in DOMAIN job[w].map \ {k} : Without(job[w].map, k)[j] = job[w].map[j]
         /\ Cardinality(DOMAIN job[w].map \ {k}) = Cardinality(DOMAIN job[w].map) - 1
         /\ Unscheduled(job[w].map[k]) \in TaskRecord
         /\ ~Unscheduled(job[w].map[k]).scheduled
<1>1. k \in TaskIds /\ job[w].map[k] \in TaskRecord
  BY MapOf, MapTypes
<1>2. Cardinality(DOMAIN job[w].map \ {k}) = Cardinality(DOMAIN job[w].map) - 1
  BY MapOf, FS_RemoveElement
<1> QED
  BY <1>1, <1>2, MapOf, MapTypes DEF Unscheduled, TaskRecord

LEMMA CleanTypes ==
  ASSUME TypeInv, NEW w \in Workers, NEW k \in job[w].todo, Clean(w, k)
  PROVE  TypeInv'
<1> USE DEF TypeInv
<1> DEFINE gone == Gone(w, k)
           old == Old(w, k, Left(w) - gone)
           rest == Without(job[w].map, k)
<1>1. UNCHANGED <<pc, view, config, published, agent>> /\ pc[w] = "clean"
  BY DEF Clean, worldVars
<1>2. job[w] \in Job /\ JobOK(w) /\ k \in DOMAIN job[w].map
  BY MapOf DEF JobOK
<1>3. gone \in Nat /\ One(old) \in 0..1 /\ (old => One(old) = 1)
  BY DEF Gone, One
<1> HIDE DEF gone, old
<1>4. CASE gone > 0 \/ old
  <2> DEFINE after == [job[w] EXCEPT !.todo = @ \ {k}, !.map = rest, !.removed = @ + gone + One(old)]
  <2>1. job' = [job EXCEPT ![w] = after] /\ Put(k, Unscheduled(job[w].map[k]))
    BY <1>4 DEF Clean, JobTypes, WorkerTypes, gone, old
  <2>2. TaskTypes' /\ budget' \in Budget
    BY <1>2, <2>1, Taken, PutTypes
  <2>3. rest \in Maps /\ DOMAIN rest = DOMAIN job[w].map \ {k}
        /\ \A j \in DOMAIN rest : rest[j] = job[w].map[j]
    BY <1>2, Taken
  <2> HIDE DEF rest
  <2>4. after \in Job
    <3>1. job[w].todo \ {k} \in SUBSET TaskIds /\ job[w].removed + gone + One(old) \in Nat
      BY <1>2, <1>3 DEF Job
    <3> QED
      BY <1>2, <2>3, <3>1 DEF Job
  <2>5. WorkerTypes'
    BY <1>1, <2>1, <2>4 DEF JobTypes, WorkerTypes
  <2>6. JobOK(w)'
    <3>1. pc'[w] = "clean" /\ job'[w] = after
      BY <1>1, <2>1 DEF JobTypes, WorkerTypes
    <3>2. /\ after.dep = job[w].dep /\ after.cfg = job[w].cfg /\ after.todo = job[w].todo \ {k}
          /\ after.map = rest /\ after.count = job[w].count
          /\ after.removed = job[w].removed + gone + One(old) /\ after.added = job[w].added
      BY <1>2 DEF Job
    <3>3. job[w].count \in Nat /\ job[w].removed \in Nat
      BY <1>2 DEF Job
    <3>4. CountOK(w)'
      <4>1. Cardinality(DOMAIN rest) = Cardinality(DOMAIN job[w].map) - 1
        BY <1>2, <2>3, Taken
      <4>2. Left(w) <= Cardinality(DOMAIN job[w].map) /\ Cardinality(DOMAIN job[w].map) \in Nat
        BY <1>1, <1>2, MapOf DEF JobOK, CountOK
      <4>3. gone + One(old) >= 1
        BY <1>3, <1>4
      <4> QED
        BY <1>3, <3>1, <3>2, <3>3, <4>1, <4>2, <4>3 DEF CountOK, Left
    <3> QED
      BY <1>1, <1>2, <2>3, <3>1, <3>2, <3>4 DEF JobOK
  <2>7. JobTypes'
    BY <1>1, <2>1, <2>5, <2>6, JobStep DEF JobTypes, WorkerTypes
  <2> QED
    BY <1>1, <2>2, <2>7 DEF WorldTypes, ViewTypes
<1>5. CASE ~(gone > 0 \/ old)
  <2>1. job' = [job EXCEPT ![w].todo = @ \ {k}] /\ UNCHANGED <<tasks, budget>>
    BY <1>5 DEF Clean, gone, old
  <2>2. WorkerTypes'
    BY <1>1, <1>2, <2>1 DEF JobTypes, WorkerTypes, Job
  <2>3. JobOK(w)'
    BY <1>1, <1>2, <2>1 DEF JobTypes, WorkerTypes, JobOK, CountOK, Left, Job
  <2>4. JobTypes'
    BY <1>1, <2>1, <2>2, <2>3, JobStep DEF JobTypes, WorkerTypes
  <2> QED
    BY <1>1, <2>1, <2>4 DEF WorldTypes, ViewTypes, TaskTypes
<1> QED
  BY <1>4, <1>5

LEMMA CleanedTypes ==
  ASSUME TypeInv, NEW w \in Workers, Cleaned(w)
  PROVE  TypeInv'
<1> USE DEF TypeInv
<1>1. UNCHANGED <<tasks, view, config, published, agent, budget>>
  BY DEF Cleaned, worldVars
<1>2. job[w] \in Job /\ JobOK(w) /\ Left(w) \in Int
  BY MapOf
<1>3. ASSUME NEW p \in {"down", "up"}, NEW i \in Int, pc' = [pc EXCEPT ![w] = p],
             job' = [job EXCEPT ![w].i = i], p = "down" => i = Left(w) - 1, p = "up" => i = 0
      PROVE  JobTypes'
  <2>1. WorkerTypes'
    BY <1>2, <1>3 DEF JobTypes, WorkerTypes, Job, Phases
  <2>2. /\ pc'[w] = p /\ job'[w] = [job[w] EXCEPT !.i = i]
    BY <1>3 DEF JobTypes, WorkerTypes
  <2>3. JobOK(w)'
    BY <1>2, <1>3, <2>2 DEF Cleaned, JobOK, CountOK, Left, Job
  <2> QED
    BY <1>3, <2>1, <2>3, JobStep DEF JobTypes, WorkerTypes
<1>4. JobTypes'
  BY <1>2, <1>3, ReturnTypes DEF Cleaned
<1> QED
  BY <1>1, <1>4 DEF TaskTypes, WorldTypes, ViewTypes

LEMMA DownTypes ==
  ASSUME TypeInv, NEW w \in Workers, Down(w)
  PROVE  TypeInv'
<1> USE DEF TypeInv
<1> DEFINE k == Instance(w)
           rest == Without(job[w].map, k)
<1>1. UNCHANGED <<pc, view, config, published, agent>> /\ pc[w] = "down"
  BY DEF Down, worldVars
<1>2. job[w] \in Job /\ JobOK(w)
  BY MapOf
<1>3. CASE k \in DOMAIN job[w].map
  <2> DEFINE after == [job[w] EXCEPT !.map = rest, !.removed = @ + 1, !.i = @ - 1]
  <2>1. job' = [job EXCEPT ![w] = after] /\ Put(k, Unscheduled(job[w].map[k]))
    BY <1>3 DEF Down, JobTypes, WorkerTypes
  <2>2. TaskTypes' /\ budget' \in Budget
    BY <1>3, <2>1, Taken, PutTypes
  <2>3. rest \in Maps /\ DOMAIN rest = DOMAIN job[w].map \ {k}
        /\ \A j \in DOMAIN rest : rest[j] = job[w].map[j]
    BY <1>3, Taken
  <2>4. Cardinality(DOMAIN rest) = Cardinality(DOMAIN job[w].map) - 1
    BY <1>3, <2>3, Taken
  <2> HIDE DEF rest, k
  <2>5. after \in Job
    <3>1. job[w].removed + 1 \in Nat /\ job[w].i - 1 \in Int
      BY <1>2 DEF Job
    <3> QED
      BY <1>2, <2>3, <3>1 DEF Job
  <2>6. WorkerTypes'
    BY <1>1, <2>1, <2>5 DEF JobTypes, WorkerTypes
  <2>7. JobOK(w)'
    <3>1. pc'[w] = "down" /\ job'[w] = after
      BY <1>1, <2>1 DEF JobTypes, WorkerTypes
    <3>2. /\ after.dep = job[w].dep /\ after.cfg = job[w].cfg /\ after.todo = job[w].todo
          /\ after.map = rest /\ after.count = job[w].count /\ after.i = job[w].i - 1
          /\ after.removed = job[w].removed + 1 /\ after.added = job[w].added
      BY <1>2 DEF Job
    <3>3. job[w].count \in Nat /\ job[w].removed \in Nat /\ job[w].i \in Int
      BY <1>2 DEF Job
    <3>4. CountOK(w)'
      <4>1. Left(w) <= Cardinality(DOMAIN job[w].map) /\ Cardinality(DOMAIN job[w].map) \in Nat
            /\ job[w].i <= Left(w) - 1
        BY <1>1, <1>2, MapOf DEF JobOK, CountOK
      <4> QED
        BY <2>4, <3>1, <3>2, <3>3, <4>1 DEF CountOK, Left
    <3>5. job[w].todo = {}
      BY <1>1, <1>2 DEF JobOK
    <3> QED
      BY <1>1, <1>2, <2>3, <3>1, <3>2, <3>4, <3>5 DEF JobOK
  <2>8. JobTypes'
    BY <1>1, <2>1, <2>6, <2>7, JobStep DEF JobTypes, WorkerTypes
  <2> QED
    BY <1>1, <2>2, <2>8 DEF WorldTypes, ViewTypes
<1>4. CASE k \notin DOMAIN job[w].map
  <2>1. job' = [job EXCEPT ![w].i = @ - 1] /\ UNCHANGED <<tasks, budget>>
    BY <1>4 DEF Down
  <2>2. WorkerTypes'
    BY <1>1, <1>2, <2>1 DEF JobTypes, WorkerTypes, Job
  <2>3. JobOK(w)'
    BY <1>1, <1>2, <2>1, MapOf DEF JobTypes, WorkerTypes, JobOK, CountOK, Left, Job
  <2>4. JobTypes'
    BY <1>1, <2>1, <2>2, <2>3, JobStep DEF JobTypes, WorkerTypes
  <2> QED
    BY <1>1, <2>1, <2>4 DEF WorldTypes, ViewTypes, TaskTypes
<1> QED
  BY <1>3, <1>4

LEMMA LoopTypes ==
  ASSUME TypeInv, NEW w \in Workers,
         \/ DownDone(w) \/ UpNext(w) \/ UpDone(w)
         \/ \E h \in Hosts : SelectHost(w, h)
  PROVE  TypeInv'
<1> USE DEF TypeInv
<1>1. UNCHANGED <<tasks, view, config, published, agent, budget>>
  BY DEF DownDone, UpNext, UpDone, SelectHost, worldVars
<1>2. job[w] \in Job /\ JobOK(w)
  BY MapOf
<1>3. ASSUME DownDone(w) \/ UpDone(w) PROVE JobTypes'
  BY <1>3, ReturnTypes DEF DownDone, UpDone
<1>4. ASSUME UpNext(w) PROVE JobTypes'
  <2>1. pc[w] = "up" /\ UNCHANGED pc /\ job' = [job EXCEPT ![w].i = @ + 1]
    BY <1>4 DEF UpNext
  <2>2. WorkerTypes'
    BY <1>2, <2>1 DEF JobTypes, WorkerTypes, Job
  <2>3. JobOK(w)'
    BY <1>2, <2>1 DEF JobTypes, WorkerTypes, JobOK, CountOK, Job
  <2> QED
    BY <2>1, <2>2, <2>3, JobStep DEF JobTypes, WorkerTypes
<1>5. ASSUME NEW h \in Hosts, SelectHost(w, h) PROVE JobTypes'
  <2>1. /\ pc[w] = "up" /\ pc' = [pc EXCEPT ![w] = "place"]
        /\ job' = [job EXCEPT ![w].host = h] /\ Missing(w)
    BY <1>5 DEF SelectHost, Goto
  <2>2. WorkerTypes'
    BY <1>2, <2>1 DEF JobTypes, WorkerTypes, Job, Phases
  <2>3. JobOK(w)'
    BY <1>2, <2>1 DEF JobTypes, WorkerTypes, JobOK, CountOK, Job, Missing, Instance, TaskId
  <2> QED
    BY <2>1, <2>2, <2>3, JobStep DEF JobTypes, WorkerTypes
<1> QED
  BY <1>1, <1>3, <1>4, <1>5 DEF TaskTypes, WorldTypes, ViewTypes

(* The instance a worker places is a task, and goes to a host of the view. *)
LEMMA Placing ==
  ASSUME TypeInv, NEW w \in Workers, Place(w)
  PROVE  /\ pc[w] = "place" /\ job[w].host \in Hosts /\ job[w].dep \in Deployments
         /\ Instance(w) \in TaskIds /\ Dep(Instance(w)) = job[w].dep
         /\ Instance(w) \notin DOMAIN job[w].map
         /\ PortsOf(job[w].dep) \subseteq Ports
<1>1. pc[w] = "place"
  BY DEF Place, Goto
<1>2. job[w] \in Job /\ JobOK(w)
  BY MapOf DEF TypeInv
<1>3. job[w].dep \in Deployments /\ job[w].cfg \in Config
  BY <1>1, <1>2 DEF JobOK, Job
<1>4. job[w].cfg.version \in 1..MaxVersion /\ job[w].i \in 0..(MaxInstances - 1)
  BY <1>1, <1>2, <1>3 DEF JobOK, Config, Job
<1> QED
  BY <1>1, <1>2, <1>3, <1>4 DEF JobOK, Instance, TaskId, TaskIds, Dep, PortsOf, Ports

LEMMA PlaceTypes ==
  ASSUME TypeInv, NEW w \in Workers, Place(w)
  PROVE  TypeInv'
<1> USE DEF TypeInv
<1> DEFINE h == job[w].host
           k == Instance(w)
           map == [j \in DOMAIN job[w].map \union {k} |-> IF j = k THEN Placed(h) ELSE job[w].map[j]]
           after == [job[w] EXCEPT !.i = @ + 1, !.host = None, !.added = @ \union {k}, !.map = map]
<1>1. /\ UNCHANGED <<config, published, agent>> /\ pc[w] = "place" /\ pc' = [pc EXCEPT ![w] = "up"]
      /\ view' = Reserve(w, h) /\ Put(k, Placed(h)) /\ job' = [job EXCEPT ![w] = after]
  BY DEF Place, Goto, worldVars, JobTypes, WorkerTypes
<1>2. job[w] \in Job /\ JobOK(w) /\ DOMAIN job[w].map \subseteq TaskIds
  BY MapOf
<1>3. ViewTypes'
  <2> DEFINE m == MasterOf[w]
             less == [view[m][h] EXCEPT !.free = @ - 1, !.ports = @ \union PortsOf(job[w].dep)]
  <2>1. m \in Masters /\ h \in Hosts /\ view[m] \in [Hosts -> HostView]
    BY Placing DEF ViewTypes
  <2>2. less \in HostView
    <3>1. view[m][h] \in HostView /\ PortsOf(job[w].dep) \subseteq Ports
      BY <2>1, Placing
    <3>2. view[m][h].free - 1 \in Int /\ view[m][h].ports \union PortsOf(job[w].dep) \in SUBSET Ports
      BY <3>1 DEF HostView
    <3> QED
      BY <3>1, <3>2 DEF HostView
  <2>3. view' = [view EXCEPT ![m] = [view[m] EXCEPT ![h] = less]]
    BY <1>1 DEF Reserve
  <2> HIDE DEF less
  <2> QED
    BY <2>1, <2>2, <2>3 DEF ViewTypes
<1>4. Placed(h) \in TaskRecord /\ Placed(h).scheduled /\ Placed(h).host = h
  BY Placing DEF Placed, TaskRecord
<1>5. TaskTypes' /\ budget' \in Budget
  BY <1>1, <1>4, Placing, PutTypes
<1>6. map \in Maps /\ DOMAIN map = DOMAIN job[w].map \union {k}
      /\ \A j \in DOMAIN map : map[j] = IF j = k THEN Placed(h) ELSE job[w].map[j]
  <2>1. \A j \in DOMAIN job[w].map : job[w].map[j] \in TaskRecord
    BY MapOf, MapTypes
  <2>2. DOMAIN job[w].map \union {k} \in SUBSET TaskIds
    BY <1>2, Placing
  <2>3. map \in [DOMAIN job[w].map \union {k} -> TaskRecord]
    BY <1>4, <2>1
  <2> QED
    BY <2>2, <2>3 DEF Maps
<1> HIDE DEF map
<1>7. after \in Job
  <2>1. job[w].i + 1 \in Int /\ job[w].added \union {k} \in SUBSET TaskIds
    BY <1>2, Placing DEF Job
  <2> QED
    BY <1>2, <1>6, <2>1 DEF Job
<1>8. WorkerTypes'
  BY <1>1, <1>7 DEF JobTypes, WorkerTypes, Phases
<1>9. JobOK(w)'
  <2>1. pc'[w] = "up" /\ job'[w] = after
    BY <1>1 DEF JobTypes, WorkerTypes
  <2>2. /\ after.dep = job[w].dep /\ after.cfg = job[w].cfg /\ after.todo = job[w].todo
        /\ after.map = map /\ after.i = job[w].i + 1 /\ after.added = job[w].added \union {k}
    BY <1>2 DEF Job
  <2>3. job[w].i \in Int
    BY <1>2 DEF Job
  <2> QED
    BY <1>1, <1>2, <1>4, <1>6, <2>1, <2>2, <2>3, Placing DEF JobOK, CountOK
<1>10. JobTypes'
  BY <1>1, <1>8, <1>9, JobStep DEF JobTypes, WorkerTypes
<1> QED
  BY <1>1, <1>3, <1>5, <1>10 DEF WorldTypes

LEMMA RestartTypes ==
  ASSUME TypeInv, NEW m \in Masters, Restart(m)
  PROVE  TypeInv'
<1> USE DEF TypeInv
<1>1. UNCHANGED <<tasks, config, published, agent>> /\ budget' \in Budget
  BY SpendTypes DEF Restart, worldVars
<1>2. ViewTypes'
  BY DEF Restart, ViewTypes, Unknown, HostView
<1>3. WorkerTypes'
  <2>1. \A w \in Workers : pc'[w] \in Phases /\ job'[w] \in Job
    BY NoJobTypes DEF Restart, JobTypes, WorkerTypes, Phases
  <2> QED
    BY <2>1 DEF Restart, WorkerTypes
<1>4. ASSUME NEW w \in Workers PROVE JobOK(w)'
  <2>1. CASE MasterOf[w] = m
    <3>1. pc'[w] = "idle" /\ job'[w] = NoJob
      BY <2>1 DEF Restart
    <3> QED
      BY <3>1, NoJobTypes DEF JobOK, CountOK
  <2>2. CASE MasterOf[w] # m
    <3>1. pc'[w] = pc[w] /\ job'[w] = job[w]
      BY <2>2 DEF Restart
    <3> QED
      BY <3>1 DEF JobTypes, JobOK, CountOK, Left, Instance, TaskId
  <2> QED
    BY <2>1, <2>2
<1> QED
  BY <1>1, <1>2, <1>3, <1>4 DEF TaskTypes, WorldTypes, JobTypes

LEMMA ScheduleStepTypes ==
  ASSUME TypeInv, NEW w \in Workers, ScheduleStep(w)
  PROVE  TypeInv'
BY ListTypes, CleanTypes, CleanedTypes, DownTypes, LoopTypes, PlaceTypes DEF ScheduleStep

LEMMA NextTypes == TypeInv /\ [Next]_vars => TypeInv'
<1> SUFFICES ASSUME TypeInv, [Next]_vars PROVE TypeInv'
  OBVIOUS
<1>1. CASE WorldSteps
  BY <1>1, WorldStepTypes
<1>2. ASSUME NEW w \in Workers, (\E d \in Deployments : Begin(w, d)) \/ ReadFails(w) \/ ScheduleStep(w)
      PROVE  TypeInv'
  BY <1>2, BeginTypes, ReadFailsTypes, ScheduleStepTypes
<1>3. ASSUME NEW m \in Masters, Restart(m) PROVE TypeInv'
  BY <1>3, RestartTypes
<1>4. CASE UNCHANGED vars
  BY <1>4, JobTypesKept DEF vars, TypeInv, TaskTypes, WorldTypes, ViewTypes
<1> QED
  BY <1>1, <1>2, <1>3, <1>4 DEF Next, WorldSteps

LEMMA TypesKept == Spec => []TypeInv
BY InitTypes, NextTypes, PTL DEF Spec

(* The types of the scheduler, its view, its locals and the records        *)
(* (scheduler.go:52-277), for any number of everything.                    *)
THEOREM SchedulerTypeCorrect == Spec => []TypeOK
BY TypesKept, TypeInvTypes, PTL

-----------------------------------------------------------------------------
(* The minimum of a deployment. *)

Keeps(w, k) ==
  pc'[w] \in {"clean", "down"} /\ Gone(w, k) = 0 /\ k \notin DOMAIN job'[w].map
    => Cardinality(DOMAIN job'[w].map) >= job[w].cfg.min

LEMMA MinimumOf ==
  ASSUME JobTypes, NEW w \in Workers, pc[w] # "idle"
  PROVE  job[w].cfg.min \in Nat /\ job[w].cfg.desired \in Nat /\ job[w].cfg.min <= job[w].cfg.desired
<1>1. job[w].dep \in Deployments /\ job[w].cfg \in Configs[job[w].dep]
  BY MapOf DEF JobOK
<1> QED
  BY <1>1 DEF Config, ValidConfig

LEMMA CleanKeeps ==
  ASSUME TypeInv, NEW w \in Workers, NEW k \in job[w].todo, Clean(w, k), NEW j \in DOMAIN job[w].map
  PROVE  Keeps(w, j)
<1> SUFFICES ASSUME Gone(w, j) = 0, j \notin DOMAIN job'[w].map
             PROVE  Cardinality(DOMAIN job'[w].map) >= job[w].cfg.min
  BY DEF Keeps
<1>1. JobTypes /\ job[w] \in Job /\ JobOK(w) /\ pc[w] = "clean"
  BY MapOf DEF TypeInv, Clean
<1>2. k \in DOMAIN job[w].map
  BY <1>1 DEF JobOK
<1> DEFINE rest == Without(job[w].map, k)
<1>3. rest = Without(job[w].map, k)
  OBVIOUS
<1>4. job'[w].map = rest \/ job'[w].map = job[w].map
  BY <1>1 DEF Clean, JobTypes, WorkerTypes, Job
<1> HIDE DEF rest
<1>5. DOMAIN rest = DOMAIN job[w].map \ {k} /\ Cardinality(DOMAIN rest) = Cardinality(DOMAIN job[w].map) - 1
  BY <1>1, <1>2, <1>3, Taken
<1>6. job'[w].map = rest /\ j = k
  BY <1>4, <1>5
<1>7. Old(w, k, Left(w))
  <2>1. job'[w].map # job[w].map
    BY <1>2, <1>5, <1>6
  <2>2. Gone(w, k) = 0 /\ Left(w) - 0 = Left(w)
    BY <1>1, <1>6, MapOf
  <2>3. Gone(w, k) > 0 \/ Old(w, k, Left(w) - Gone(w, k))
    <3>1. SUFFICES ASSUME ~(Gone(w, k) > 0 \/ Old(w, k, Left(w) - Gone(w, k))) PROVE FALSE
      OBVIOUS
    <3>2. job' = [job EXCEPT ![w].todo = @ \ {k}]
      BY <3>1 DEF Clean
    <3> QED
      BY <1>1, <2>1, <3>2 DEF JobTypes, WorkerTypes, Job
  <2> QED
    BY <2>2, <2>3
<1>8. Left(w) > job[w].cfg.min /\ Left(w) <= Cardinality(DOMAIN job[w].map)
  BY <1>1, <1>7 DEF Old, JobOK, CountOK
<1> QED
  BY <1>1, <1>5, <1>6, <1>8, MinimumOf, MapOf

LEMMA DownKeeps ==
  ASSUME TypeInv, NEW w \in Workers, Down(w), NEW j \in DOMAIN job[w].map
  PROVE  Keeps(w, j)
<1> SUFFICES ASSUME j \notin DOMAIN job'[w].map
             PROVE  Cardinality(DOMAIN job'[w].map) >= job[w].cfg.min
  BY DEF Keeps
<1> DEFINE k == Instance(w)
           rest == Without(job[w].map, k)
<1>1. JobTypes /\ job[w] \in Job /\ JobOK(w) /\ pc[w] = "down" /\ Surplus(w)
  BY MapOf DEF TypeInv, Down
<1>2. k \in DOMAIN job[w].map /\ job'[w].map = rest
  BY <1>1 DEF Down, JobTypes, WorkerTypes, Job
<1>3. Cardinality(DOMAIN rest) = Cardinality(DOMAIN job[w].map) - 1
  BY <1>1, <1>2, Taken
<1> HIDE DEF rest
<1>4. /\ Left(w) <= Cardinality(DOMAIN job[w].map) /\ job[w].i <= Left(w) - 1
      /\ job[w].i > job[w].cfg.desired - 1 /\ job[w].i \in Int
  BY <1>1 DEF JobOK, CountOK, Surplus, Job
<1> QED
  BY <1>1, <1>2, <1>3, <1>4, MinimumOf, MapOf

LEMMA NextKeeps ==
  ASSUME TypeInv, Next, NEW w \in Workers, NEW k \in DOMAIN job[w].map
  PROVE  Keeps(w, k)
<1> USE DEF TypeInv, JobTypes, WorkerTypes
<1>1. CASE WorldSteps
  BY <1>1 DEF WorldSteps, AgentStep, Configure, Drain, AgentPublishes, AgentSees, AgentRejects,
     AgentStops, schedulerVars, Keeps
<1>2. ASSUME NEW m \in Masters, Restart(m) PROVE Keeps(w, k)
  BY <1>2 DEF Restart, Keeps
<1>3. ASSUME NEW v \in Workers, NEW d \in Deployments, Begin(v, d) PROVE Keeps(w, k)
  BY <1>3 DEF Begin, Keeps
<1>4. ASSUME NEW v \in Workers, ReadFails(v) \/ DownDone(v) \/ UpDone(v) PROVE Keeps(w, k)
  BY <1>4 DEF ReadFails, DownDone, UpDone, Return, Keeps
<1>5. ASSUME NEW v \in Workers, List(v) PROVE Keeps(w, k)
  <2>1. CASE v = w
    BY <1>5, <2>1, MapOf DEF List, Goto, JobOK
  <2>2. CASE v # w
    BY <1>5, <2>2 DEF List, Keeps
  <2> QED
    BY <2>1, <2>2
<1>6. ASSUME NEW v \in Workers, NEW j \in job[v].todo, Clean(v, j) PROVE Keeps(w, k)
  <2>1. CASE v = w
    BY <1>6, <2>1, CleanKeeps
  <2>2. CASE v # w
    BY <1>6, <2>2 DEF Clean, Keeps
  <2> QED
    BY <2>1, <2>2
<1>7. ASSUME NEW v \in Workers, Down(v) PROVE Keeps(w, k)
  <2>1. CASE v = w
    BY <1>7, <2>1, DownKeeps
  <2>2. CASE v # w
    BY <1>7, <2>2 DEF Down, Keeps
  <2> QED
    BY <2>1, <2>2
<1>8. ASSUME NEW v \in Workers, Cleaned(v) PROVE Keeps(w, k)
  <2>1. job[v] \in Job
    BY MapOf
  <2>2. \/ job'[w] = job[w]
        \/ job'[w] = NoJob /\ pc'[w] = "idle"
        \/ \E i : job'[w] = [job[w] EXCEPT !.i = i]
    <3>1. CASE v = w
      <4>1. CASE job' = [job EXCEPT ![w].i = Left(w) - 1]
        BY <4>1, MapOf
      <4>2. CASE job' = [job EXCEPT ![w].i = 0]
        BY <4>2, MapOf
      <4>3. CASE Return(w)
        BY <4>3 DEF Return
      <4> QED
        BY <1>8, <3>1, <4>1, <4>2, <4>3, Zenon DEF Cleaned
    <3>2. CASE v # w
      BY <1>8, <3>2 DEF Cleaned, Return
    <3> QED
      BY <3>1, <3>2
  <2> QED
    BY <2>2, MapOf DEF Keeps, Job
<1>9. ASSUME NEW v \in Workers, UpNext(v) \/ Place(v) \/ \E h \in Hosts : SelectHost(v, h)
      PROVE  Keeps(w, k)
  <2>1. CASE v = w
    BY <1>9, <2>1 DEF UpNext, Place, SelectHost, Goto, Keeps
  <2>2. CASE v # w
    BY <1>9, <2>2 DEF UpNext, Place, SelectHost, Keeps
  <2> QED
    BY <2>1, <2>2
<1> QED
  BY <1>1, <1>2, <1>3, <1>4, <1>5, <1>6, <1>7, <1>8, <1>9 DEF Next, WorldSteps, ScheduleStep

(* A pass never takes a deployment below its minimum of its own accord: by *)
(* its counters there are never more tasks than there are, and both loops  *)
(* that take tasks away stop at a number that is no less than the minimum. *)
THEOREM SchedulerMinKept == Spec => MinKept
<1>1. TypeInv /\ [Next]_vars =>
        [\A w \in Workers : \A k \in DOMAIN job[w].map :
            pc'[w] \in {"clean", "down"} /\ Gone(w, k) = 0 /\ k \notin DOMAIN job'[w].map
              => Cardinality(DOMAIN job'[w].map) >= job[w].cfg.min]_vars
  BY NextKeeps DEF Keeps
<1> QED
  BY <1>1, TypesKept, PTL DEF Spec, MinKept

-----------------------------------------------------------------------------
(* What one pass places on a host, while no other worker of its master     *)
(* syncs the hosts under it.                                               *)

Alone == \A v, w \in Workers : MasterOf[v] = MasterOf[w] => v = w

Here(w, h) == {k \in job[w].added : job[w].map[k].host = h}

RoomOK ==
  /\ \A h \in Hosts : published[h].free <= Capacity
  /\ \A m \in Masters, h \in Hosts : view[m][h].free <= Capacity

(* What the pass has placed on a host was taken from the view of it.       *)
FitOK(w, h) ==
  /\ Cardinality(Here(w, h)) <= Capacity
  /\ Cardinality(Here(w, h)) <= Capacity - view[MasterOf[w]][h].free
  /\ Here(w, h) # {} => PortsOf(job[w].dep) \subseteq view[MasterOf[w]][h].ports
  /\ Cardinality(Here(w, h)) > 1 => PortsOf(job[w].dep) = {}

PlaceFits(w) == pc[w] = "place" => Fits(w, job[w].host)

PassInv ==
  /\ RoomOK
  /\ \A w \in Workers : PlaceFits(w)
  /\ \A w \in Workers : \A h \in Hosts : FitOK(w, h)

(* A worker whose locals and whose view stay has what it had. *)
LEMMA WorkerKept ==
  ASSUME PassInv, NEW w \in Workers, UNCHANGED <<pc[w], job[w], view[MasterOf[w]]>>
  PROVE  PlaceFits(w)' /\ \A h \in Hosts : FitOK(w, h)'
<1>1. PlaceFits(w)'
  BY DEF PassInv, PlaceFits, Fits, Known
<1>2. ASSUME NEW h \in Hosts PROVE FitOK(w, h)'
  <2>1. Here(w, h)' = Here(w, h)
    BY DEF Here
  <2> QED
    BY <2>1 DEF PassInv, FitOK
<1> QED
  BY <1>1, <1>2

LEMMA PassInit == Init => PassInv
<1> SUFFICES ASSUME Init PROVE PassInv
  OBVIOUS
<1>1. TypeInv
  BY InitTypes
<1>2. RoomOK
  BY DEF Init, RoomOK, Unknown
<1>3. ASSUME NEW w \in Workers, NEW h \in Hosts PROVE FitOK(w, h)
  <2>1. view[MasterOf[w]][h].free = 0 /\ job[w].added = {}
    BY NoJobTypes DEF Init, Unknown
  <2>2. Here(w, h) = {} /\ Cardinality({}) = 0
    BY <2>1, FS_EmptySet DEF Here
  <2>3. Cardinality(Here(w, h)) = 0
    BY <2>2
  <2> QED
    BY <2>1, <2>2, <2>3 DEF FitOK
<1> QED
  BY <1>2, <1>3 DEF PassInv, PlaceFits, Init, Resting

LEMMA WorldFits ==
  ASSUME TypeInv, PassInv, WorldSteps
  PROVE  PassInv'
<1>1. UNCHANGED <<view, pc, job>>
  BY DEF WorldSteps, AgentStep, Configure, Drain, AgentPublishes, AgentSees, AgentRejects,
     AgentStops, schedulerVars
<1>2. \A h \in Hosts : Publication(h).free <= Capacity
  <2>1. ASSUME NEW h \in Hosts PROVE Cardinality(agent[h].running) \in Nat
    <3>1. agent[h].running \subseteq TaskIds
      BY DEF TypeInv, WorldTypes
    <3> QED
      BY <3>1, TaskIdsFinite, FS_Subset, FS_CardinalityType
  <2> QED
    BY <2>1 DEF Publication
<1>3. \A h \in Hosts : published'[h].free <= Capacity
  <2>1. ASSUME NEW h \in Hosts, Drain(h) PROVE \A g \in Hosts : published'[g].free <= Capacity
    BY <2>1 DEF Drain, TypeInv, WorldTypes, PassInv, RoomOK
  <2>2. ASSUME NEW h \in Hosts, AgentPublishes(h)
        PROVE  \A g \in Hosts : published'[g].free <= Capacity
    BY <1>2, <2>2 DEF AgentPublishes, TypeInv, WorldTypes, PassInv, RoomOK
  <2>3. ASSUME UNCHANGED published PROVE \A g \in Hosts : published'[g].free <= Capacity
    BY <2>3 DEF PassInv, RoomOK
  <2> QED
    BY <2>1, <2>2, <2>3 DEF WorldSteps, AgentStep, Configure, AgentSees, AgentRejects, AgentStops
<1>4. RoomOK'
  BY <1>1, <1>3 DEF PassInv, RoomOK
<1>5. \A w \in Workers : PlaceFits(w)' /\ \A h \in Hosts : FitOK(w, h)'
  BY <1>1, WorkerKept
<1> QED
  BY <1>4, <1>5 DEF PassInv

(* A step of one worker leaves the others alone, with their own views. *)
LEMMA OtherWorkers ==
  ASSUME Alone, PassInv, NEW w \in Workers, RoomOK',
         \A v \in Workers \ {w} : pc'[v] = pc[v] /\ job'[v] = job[v],
         \A m \in Masters \ {MasterOf[w]} : view'[m] = view[m],
         PlaceFits(w)', \A h \in Hosts : FitOK(w, h)'
  PROVE  PassInv'
<1>1. ASSUME NEW v \in Workers, v # w PROVE PlaceFits(v)' /\ \A h \in Hosts : FitOK(v, h)'
  <2>1. MasterOf[v] # MasterOf[w] /\ MasterOf[v] \in Masters
    BY <1>1 DEF Alone
  <2> QED
    BY <1>1, <2>1, WorkerKept
<1> QED
  BY <1>1 DEF PassInv

(* A pass begins, returns or has placed nothing. *)
LEMMA NothingPlaced ==
  ASSUME Alone, TypeInv', PassInv, NEW w \in Workers, RoomOK',
         \A v \in Workers \ {w} : pc'[v] = pc[v] /\ job'[v] = job[v],
         \A m \in Masters \ {MasterOf[w]} : view'[m] = view[m],
         job'[w].added = {}, pc'[w] # "place"
  PROVE  PassInv'
<1>1. PlaceFits(w)'
  BY DEF PlaceFits
<1>2. ASSUME NEW h \in Hosts PROVE FitOK(w, h)'
  <2>1. view'[MasterOf[w]][h].free \in Int /\ view'[MasterOf[w]][h].free <= Capacity
    BY DEF TypeInv, ViewTypes, HostView, RoomOK
  <2>2. Here(w, h)' = {} /\ Cardinality({}) = 0
    BY FS_EmptySet DEF Here
  <2>3. Cardinality(Here(w, h)') = 0
    BY <2>2
  <2> QED
    BY <2>1, <2>2, <2>3 DEF FitOK
<1> QED
  BY <1>1, <1>2, OtherWorkers

LEMMA BeginFits ==
  ASSUME Alone, TypeInv, TypeInv', PassInv, NEW w \in Workers, NEW d \in Deployments, Begin(w, d)
  PROVE  PassInv'
<1>1. RoomOK'
  <2>1. \A h \in Hosts : Synced(MasterOf[w], h).free <= Capacity
    BY DEF PassInv, RoomOK, Synced
  <2> QED
    BY <2>1 DEF Begin, worldVars, TypeInv, ViewTypes, PassInv, RoomOK
<1>2. job'[w].added = {} /\ pc'[w] = "list"
  BY NoJobTypes DEF Begin, TypeInv, JobTypes, WorkerTypes, NoJob
<1>3. /\ \A v \in Workers \ {w} : pc'[v] = pc[v] /\ job'[v] = job[v]
      /\ \A m \in Masters \ {MasterOf[w]} : view'[m] = view[m]
  BY DEF Begin, TypeInv, JobTypes, WorkerTypes, ViewTypes
<1> QED
  BY <1>1, <1>2, <1>3, NothingPlaced

(* Every step of a pass before it places, and its return. *)
LEMMA BeforeFits ==
  ASSUME Alone, TypeInv, TypeInv', PassInv, NEW w \in Workers,
         \/ ReadFails(w) \/ List(w) \/ Cleaned(w) \/ Down(w) \/ DownDone(w) \/ UpDone(w)
         \/ \E k \in job[w].todo : Clean(w, k)
  PROVE  PassInv'
<1>1. UNCHANGED <<view, published>>
  BY DEF ReadFails, List, Cleaned, Down, DownDone, UpDone, Clean, worldVars
<1>2. RoomOK'
  BY <1>1 DEF PassInv, RoomOK
<1>3. \A v \in Workers \ {w} : pc'[v] = pc[v] /\ job'[v] = job[v]
  <2>1. CASE ReadFails(w) \/ DownDone(w) \/ UpDone(w)
    BY <2>1 DEF ReadFails, DownDone, UpDone, Return, TypeInv, JobTypes, WorkerTypes
  <2>2. CASE List(w) \/ Cleaned(w)
    BY <2>2 DEF List, Goto, Cleaned, Return, TypeInv, JobTypes, WorkerTypes
  <2>3. CASE Down(w)
    BY <2>3 DEF Down, TypeInv, JobTypes, WorkerTypes
  <2>4. ASSUME NEW k \in job[w].todo, Clean(w, k)
        PROVE  \A v \in Workers \ {w} : pc'[v] = pc[v] /\ job'[v] = job[v]
    BY <2>4 DEF Clean, TypeInv, JobTypes, WorkerTypes
  <2> QED
    BY <2>1, <2>2, <2>3, <2>4
<1>4. job[w] \in Job /\ JobOK(w)
  BY MapOf DEF TypeInv
<1>5. job'[w].added = {} /\ pc'[w] # "place"
  <2>1. CASE ReadFails(w) \/ DownDone(w) \/ UpDone(w)
    BY <2>1, NoJobTypes DEF ReadFails, DownDone, UpDone, Return, TypeInv, JobTypes, WorkerTypes
  <2>2. CASE List(w)
    <3>1. /\ pc[w] = "list" /\ pc' = [pc EXCEPT ![w] = "clean"]
          /\ \E found, map, count :
               job' = [job EXCEPT ![w].todo = found, ![w].map = map, ![w].count = count]
      BY <2>2, Zenon DEF List, Goto
    <3>2. pc \in [Workers -> Phases] /\ job \in [Workers -> Job] /\ job[w].added = {}
      BY <1>4, <3>1 DEF TypeInv, JobTypes, WorkerTypes, JobOK
    <3> QED
      BY <3>1, <3>2 DEF Job
  <2>3. CASE Cleaned(w)
    BY <1>4, <2>3, NoJobTypes DEF Cleaned, Return, TypeInv, JobTypes, WorkerTypes, Job, JobOK
  <2>4. CASE Down(w)
    BY <1>4, <2>4 DEF Down, TypeInv, JobTypes, WorkerTypes, Job, JobOK
  <2>5. ASSUME NEW k \in job[w].todo, Clean(w, k) PROVE job'[w].added = {} /\ pc'[w] # "place"
    BY <1>4, <2>5 DEF Clean, TypeInv, JobTypes, WorkerTypes, Job, JobOK
  <2> QED
    BY <2>1, <2>2, <2>3, <2>4, <2>5
<1> QED
  BY <1>1, <1>2, <1>3, <1>5, NothingPlaced

LEMMA UpFits ==
  ASSUME Alone, TypeInv, PassInv, NEW w \in Workers, UpNext(w) \/ \E h \in Hosts : SelectHost(w, h)
  PROVE  PassInv'
<1>1. UNCHANGED <<view, published>>
  BY DEF UpNext, SelectHost, worldVars
<1>2. RoomOK'
  BY <1>1 DEF PassInv, RoomOK
<1>3. \A v \in Workers \ {w} : pc'[v] = pc[v] /\ job'[v] = job[v]
  BY DEF UpNext, SelectHost, Goto, TypeInv, JobTypes, WorkerTypes
<1>4. job[w] \in Job /\ pc \in [Workers -> Phases] /\ job \in [Workers -> Job]
  BY MapOf DEF TypeInv, JobTypes, WorkerTypes
<1>5. job'[w].dep = job[w].dep /\ job'[w].map = job[w].map /\ job'[w].added = job[w].added
  BY <1>4 DEF UpNext, SelectHost, Job
<1>6. PlaceFits(w)'
  <2>1. CASE UpNext(w)
    BY <1>4, <2>1 DEF UpNext, PlaceFits
  <2>2. ASSUME NEW h \in Hosts, SelectHost(w, h) PROVE PlaceFits(w)'
    <3>1. job'[w].host = h /\ Fits(w, h)
      BY <1>4, <2>2 DEF SelectHost, Job
    <3> QED
      BY <1>1, <1>5, <3>1 DEF PlaceFits, Fits, Known
  <2> QED
    BY <2>1, <2>2
<1>7. ASSUME NEW h \in Hosts PROVE FitOK(w, h)'
  <2>1. Here(w, h)' = Here(w, h)
    BY <1>5 DEF Here
  <2> QED
    BY <1>1, <1>5, <2>1 DEF PassInv, FitOK
<1> QED
  BY <1>1, <1>2, <1>3, <1>6, <1>7, OtherWorkers

LEMMA PlacesFit ==
  ASSUME Alone, TypeInv, PassInv, NEW w \in Workers, Place(w)
  PROVE  PassInv'
<1> DEFINE k == Instance(w)
           m == MasterOf[w]
<1>0. PICK h \in Hosts : h = job[w].host
  BY Placing
<1>1. /\ UNCHANGED published /\ pc' = [pc EXCEPT ![w] = "up"] /\ view' = Reserve(w, h)
      /\ pc[w] = "place"
  BY <1>0 DEF Place, Goto, worldVars
<1>2. job[w] \in Job /\ JobOK(w) /\ pc \in [Workers -> Phases] /\ job \in [Workers -> Job]
      /\ view \in [Masters -> [Hosts -> HostView]] /\ m \in Masters /\ h \in Hosts
  BY MapOf, Placing DEF TypeInv, JobTypes, WorkerTypes, ViewTypes
<1>3. /\ job'[w].dep = job[w].dep /\ job'[w].added = job[w].added \union {k}
      /\ job'[w].map = [j \in DOMAIN job[w].map \union {k} |-> IF j = k THEN Placed(h) ELSE job[w].map[j]]
  BY <1>0, <1>2 DEF Place, Job
<1>4. /\ view[m][h].free \in Int
      /\ view'[m][h].free = view[m][h].free - 1
      /\ view'[m][h].ports = view[m][h].ports \union PortsOf(job[w].dep)
      /\ \A g \in Hosts \ {h} : view'[m][g] = view[m][g]
      /\ \A n \in Masters \ {m} : view'[n] = view[n]
  BY <1>1, <1>2 DEF Reserve, HostView
<1>5. Fits(w, h) /\ FitOK(w, h)
  BY <1>0, <1>1, <1>2 DEF PassInv, PlaceFits
<1>6. k \notin DOMAIN job[w].map /\ job[w].added \subseteq DOMAIN job[w].map /\ IsFiniteSet(DOMAIN job[w].map)
  BY <1>1, <1>2, MapOf DEF JobOK, TypeInv
<1>7. Here(w, h)' = Here(w, h) \union {k} /\ \A g \in Hosts \ {h} : Here(w, g)' = Here(w, g)
  <2>1. \A j \in job[w].added : j # k /\ job'[w].map[j] = job[w].map[j]
    BY <1>3, <1>6
  <2>2. job'[w].map[k].host = h
    BY <1>3 DEF Placed
  <2> QED
    BY <1>3, <2>1, <2>2 DEF Here
<1>8. RoomOK'
  <2>1. ASSUME NEW n \in Masters, NEW g \in Hosts PROVE view'[n][g].free <= Capacity
    <3>1. view[n][g].free <= Capacity /\ view[m][h].free <= Capacity
      BY <1>2 DEF PassInv, RoomOK
    <3>2. CASE n = m /\ g = h
      BY <1>4, <3>1, <3>2
    <3>3. CASE ~(n = m /\ g = h)
      BY <1>4, <3>1, <3>3
    <3> QED
      BY <3>2, <3>3
  <2> QED
    BY <1>1, <2>1 DEF PassInv, RoomOK
<1>9. PlaceFits(w)'
  BY <1>1, <1>2 DEF PlaceFits
<1>10. FitOK(w, h)'
  <2>1. Here(w, h) \subseteq DOMAIN job[w].map /\ k \notin Here(w, h)
    BY <1>6 DEF Here
  <2>2. Cardinality(Here(w, h)) \in Nat /\ Cardinality(Here(w, h) \union {k}) = Cardinality(Here(w, h)) + 1
    BY <1>6, <2>1, FS_Subset, FS_AddElement, FS_CardinalityType
  <2>3. view[m][h].free > 0 /\ PortsOf(job[w].dep) \intersect view[m][h].ports = {}
    BY <1>5 DEF Fits
  <2>4. /\ Cardinality(Here(w, h)) <= Capacity - view[m][h].free
        /\ Here(w, h) # {} => PortsOf(job[w].dep) \subseteq view[m][h].ports
    BY <1>5 DEF FitOK
  <2>5. Cardinality(Here(w, h)) > 0 => Here(w, h) # {}
    <3>1. Cardinality({}) = 0
      BY FS_EmptySet
    <3>2. CASE Here(w, h) = {}
      BY <3>1, <3>2
    <3> QED
      BY <3>2
  <2>6. Cardinality(Here(w, h)') > 1 => PortsOf(job'[w].dep) = {}
    BY <1>3, <1>7, <2>2, <2>3, <2>4, <2>5
  <2>7. /\ Cardinality(Here(w, h)') <= Capacity
        /\ Cardinality(Here(w, h)') <= Capacity - view'[m][h].free
    BY <1>4, <1>7, <2>2, <2>3, <2>4
  <2>8. PortsOf(job'[w].dep) \subseteq view'[m][h].ports
    BY <1>3, <1>4
  <2> QED
    BY <2>6, <2>7, <2>8 DEF FitOK
<1>11. ASSUME NEW g \in Hosts \ {h} PROVE FitOK(w, g)'
  BY <1>3, <1>4, <1>7, <1>11 DEF PassInv, FitOK
<1>12. \A v \in Workers \ {w} : pc'[v] = pc[v] /\ job'[v] = job[v]
  BY <1>1, <1>2 DEF Place
<1> QED
  BY <1>4, <1>8, <1>9, <1>10, <1>11, <1>12, OtherWorkers

LEMMA RestartFits ==
  ASSUME TypeInv, TypeInv', PassInv, NEW m \in Masters, Restart(m)
  PROVE  PassInv'
<1>1. RoomOK'
  BY DEF Restart, worldVars, PassInv, RoomOK, Unknown, TypeInv, ViewTypes
<1>2. ASSUME NEW w \in Workers, MasterOf[w] = m
      PROVE  PlaceFits(w)' /\ \A h \in Hosts : FitOK(w, h)'
  <2>1. pc'[w] = "idle" /\ job'[w].added = {}
    BY <1>2, NoJobTypes DEF Restart
  <2>2. \A h \in Hosts : Here(w, h)' = {}
    BY <2>1 DEF Here
  <2>3. \A h \in Hosts : Cardinality(Here(w, h)') = 0
    BY <2>2, FS_EmptySet
  <2>4. \A h \in Hosts : view'[MasterOf[w]][h].free \in Int /\ view'[MasterOf[w]][h].free <= Capacity
    BY <1>1 DEF TypeInv, ViewTypes, HostView, RoomOK
  <2> QED
    BY <2>1, <2>2, <2>3, <2>4 DEF PlaceFits, FitOK
<1>3. ASSUME NEW w \in Workers, MasterOf[w] # m
      PROVE  PlaceFits(w)' /\ \A h \in Hosts : FitOK(w, h)'
  <2>1. UNCHANGED <<pc[w], job[w], view[MasterOf[w]]>>
    BY <1>3 DEF Restart, TypeInv, ViewTypes
  <2> QED
    BY <2>1, WorkerKept
<1> QED
  BY <1>1, <1>2, <1>3 DEF PassInv

LEMMA NextFits ==
  ASSUME Alone, TypeInv, PassInv, [Next]_vars
  PROVE  PassInv'
<1>1. TypeInv'
  BY NextTypes
<1>2. CASE WorldSteps
  BY <1>2, WorldFits
<1>3. ASSUME NEW w \in Workers, (\E d \in Deployments : Begin(w, d)) \/ ReadFails(w) \/ ScheduleStep(w)
      PROVE  PassInv'
  BY <1>1, <1>3, BeginFits, BeforeFits, UpFits, PlacesFit DEF ScheduleStep
<1>4. ASSUME NEW m \in Masters, Restart(m) PROVE PassInv'
  BY <1>1, <1>4, RestartFits
<1>5. CASE UNCHANGED vars
  <2>1. RoomOK'
    BY <1>5 DEF vars, PassInv, RoomOK
  <2>2. \A w \in Workers : PlaceFits(w)' /\ \A h \in Hosts : FitOK(w, h)'
    BY <1>5, WorkerKept DEF vars
  <2> QED
    BY <2>1, <2>2 DEF PassInv
<1> QED
  BY <1>2, <1>3, <1>4, <1>5 DEF Next, WorldSteps

(* What one pass places on a host, it places in room and on ports that it  *)
(* has not given away itself, when every worker has a master, and so a     *)
(* view of the hosts, of its own: the view had the room when the pass      *)
(* chose the host and lost it when the pass placed.                        *)
THEOREM SchedulerPassFits == Alone => (Spec => []PassFits)
<1> SUFFICES ASSUME Alone PROVE Spec => []PassFits
  OBVIOUS
<1>1. Init => TypeInv /\ PassInv
  BY InitTypes, PassInit
<1>2. TypeInv /\ PassInv /\ [Next]_vars => (TypeInv /\ PassInv)'
  BY NextTypes, NextFits
<1>3. PassInv => PassFits
  BY DEF PassInv, FitOK, Here, PassFits
<1> QED
  BY <1>1, <1>2, <1>3, PTL DEF Spec

-----------------------------------------------------------------------------
(* The last resort. *)

TakesLast(w) ==
  LET others == {h \in Hosts : Known(w, h)} \ {job'[w].host} IN
  (\A h \in others : Score(w)[h] > Score(w)[job'[w].host]) => \A h \in others : ~Fits(w, h)

LEMMA ScoreTypes ==
  ASSUME TypeInv, NEW w \in Workers
  PROVE  Score(w) \in [Hosts -> Int]
<1>1. \A h \in Hosts : view[MasterOf[w]][h].free \in Int
  BY DEF TypeInv, ViewTypes, HostView
<1>2. \A h \in Hosts : -view[MasterOf[w]][h].free \in Int
  BY <1>1
<1> QED
  BY <1>1, <1>2 DEF Score

(* A host that is worse than all others is the last of every ranking, so   *)
(* that all others are tried before it.                                    *)
LEMMA SelectsLast ==
  ASSUME TypeInv, NEW w \in Workers, NEW h \in Hosts, SelectHost(w, h)
  PROVE  TakesLast(w)
<1> DEFINE known == {g \in Hosts : Known(w, g)}
           score == Score(w)
<1>1. job'[w].host = h
  <2>1. job[w] \in Job /\ job \in [Workers -> Job]
    BY MapOf DEF TypeInv, JobTypes, WorkerTypes
  <2> QED
    BY <2>1 DEF SelectHost, Job
<1>2. PICK ranking \in Rankings(known, score) :
        \E i \in DOMAIN ranking : ranking[i] = h /\ \A j \in 1..(i - 1) : ~Fits(w, ranking[j])
  BY DEF SelectHost
<1>3. score \in [Hosts -> Int]
  BY ScoreTypes
<1>4. known \in SUBSET Hosts /\ IsFiniteSet(known)
  <2>1. known \subseteq Hosts
    OBVIOUS
  <2> QED
    BY <2>1, HostsAssumption, FS_Subset DEF HostsAssumption
<1> HIDE DEF known, score
<1>5. ranking \in Ranked(Hosts, score) /\ Distinct(ranking) /\ Members(ranking) = known
  BY <1>2, <1>3, <1>4, RankingsRank
<1> DEFINE n == Len(ranking)
<1>6. /\ ranking \in Seq(Hosts) /\ n \in Nat /\ DOMAIN ranking = 1..n
      /\ \A j \in 1..n : ranking[j] \in Hosts /\ score[ranking[n]] <= score[ranking[j]]
  <2>1. ranking \in Seq(Hosts) /\ \A j \in 1..n : score[ranking[n]] <= score[ranking[j]]
    BY <1>5 DEF Ranked, LastIsWorst
  <2> QED
    BY <2>1
<1>7. PICK i \in 1..n : ranking[i] = h /\ \A j \in 1..(i - 1) : ~Fits(w, ranking[j])
  BY <1>2, <1>6
<1>8. SUFFICES ASSUME \A g \in known \ {h} : score[g] > score[h]
               PROVE  \A g \in known \ {h} : ~Fits(w, g)
  BY <1>1 DEF TakesLast, known, score
<1>9. ranking[n] = h
  <2>1. n \in 1..n /\ ranking[n] \in known
    BY <1>5, <1>6, <1>7 DEF Members
  <2>2. score[ranking[n]] \in Int /\ score[h] \in Int /\ score[ranking[n]] <= score[h]
    BY <1>3, <1>6, <1>7, <2>1
  <2> QED
    BY <1>8, <2>1, <2>2
<1>10. i = n
  <2>1. n \in 1..n /\ ranking[i] = ranking[n]
    BY <1>6, <1>7, <1>9
  <2> QED
    BY <1>5, <2>1 DEF Distinct
<1>11. ASSUME NEW g \in known \ {h} PROVE ~Fits(w, g)
  <2>1. PICK j \in 1..n : ranking[j] = g
    BY <1>5 DEF Members
  <2>2. j \in 1..(i - 1)
    BY <1>6, <1>9, <1>10, <2>1
  <2> QED
    BY <1>7, <2>1, <2>2
<1> QED
  BY <1>11

(* No other step takes a worker from up to place. *)
LEMMA NextTakesLast ==
  TypeInv /\ [Next]_vars =>
    [\A w \in Workers : pc[w] = "up" /\ pc'[w] = "place" => TakesLast(w)]_vars
<1> SUFFICES ASSUME TypeInv, Next, NEW w \in Workers, pc[w] = "up", pc'[w] = "place"
             PROVE  TakesLast(w)
  OBVIOUS
<1>1. pc \in [Workers -> Phases]
  BY DEF TypeInv, JobTypes, WorkerTypes
<1>2. CASE WorldSteps
  BY <1>2 DEF WorldSteps, Configure, Drain, AgentStep, AgentPublishes, AgentSees, AgentRejects,
              AgentStops, schedulerVars
<1>3. ASSUME NEW v \in Workers, (\E d \in Deployments : Begin(v, d)) \/ ReadFails(v) \/ ScheduleStep(v)
      PROVE  TakesLast(w)
  <2>1. CASE \E d \in Deployments : Begin(v, d)
    BY <1>1, <2>1 DEF Begin
  <2>2. CASE ReadFails(v) \/ DownDone(v) \/ UpDone(v)
    BY <1>1, <2>2 DEF ReadFails, DownDone, UpDone, Return
  <2>3. CASE List(v) \/ Place(v)
    <3>1. \E to \in {"clean", "up"} : pc' = [pc EXCEPT ![v] = to]
      BY <2>3, Zenon DEF List, Place, Goto
    <3> QED
      BY <1>1, <3>1
  <2>4. CASE Cleaned(v)
    BY <1>1, <2>4 DEF Cleaned, Return
  <2>5. CASE Down(v) \/ UpNext(v) \/ \E k \in job[v].todo : Clean(v, k)
    BY <2>5, Zenon DEF Down, UpNext, Clean
  <2>6. ASSUME NEW h \in Hosts, SelectHost(v, h) PROVE TakesLast(w)
    <3>1. v = w
      BY <1>1, <2>6 DEF SelectHost, Goto
    <3> QED
      BY <2>6, <3>1, SelectsLast
  <2> QED
    BY <1>3, <2>1, <2>2, <2>3, <2>4, <2>5, <2>6 DEF ScheduleStep
<1>4. ASSUME NEW m \in Masters, Restart(m) PROVE TakesLast(w)
  BY <1>1, <1>4 DEF Restart
<1> QED
  BY <1>2, <1>3, <1>4 DEF Next, WorldSteps

(* The host with the worst score of all gets a task only when no other one *)
(* fits it (rankers.go:15-40, scheduler.go:291-307), however many hosts    *)
(* there are and in whatever order the map of hosts gives them: an         *)
(* insertion keeps the worst of the ranking last.                          *)
THEOREM SchedulerLastResort == Spec => LastResort
<1>1. TypeInv /\ [Next]_vars =>
        [\A w \in Workers :
           pc[w] = "up" /\ pc'[w] = "place" =>
             LET others == {h \in Hosts : Known(w, h)} \ {job'[w].host} IN
             (\A h \in others : Score(w)[h] > Score(w)[job'[w].host])
               => \A h \in others : ~Fits(w, h)]_vars
  BY NextTakesLast DEF TakesLast
<1> QED
  BY <1>1, TypesKept, PTL DEF Spec, LastResort
=============================================================================
