---------------------------- MODULE SwarmProofs ----------------------------
(***************************************************************************)
(* Proofs about Swarm, for any number of tasks and workers, any tasks that *)
(* fail, fill their pipes or are skipped, and a dispatcher that may stop   *)
(* anywhere.                                                               *)
(*                                                                         *)
(* The invariant says of every task, from its place before, in or behind   *)
(* the batch at hand, what its worker and its rows are.                    *)
(***************************************************************************)
EXTENDS Swarm, FiniteSetTheorems, SequenceTheorems, TLAPS

Statuses == {"skipped", "running", "ok", "error"}

\* The rows a task may have.
RowsSkipped == <<"skipped">>
RowsRunning == <<"running">>
RowsEnded(status) == <<"running", status>>

\* What may have become of a task.
Unseen(t) == proc[t] = "none" /\ rows[t] = <<>>
Started(t) == proc[t] \in {"running", "ok", "error"}
Fresh(t) == Started(t) /\ rows[t] = <<>>
Shown(t) == Started(t) /\ rows[t] = RowsRunning
Final(t) ==
  \/ proc[t] = "none" /\ rows[t] = RowsSkipped
  \/ Ended(t) /\ rows[t] = RowsEnded(proc[t])

\* Batches begin at multiples of Workers, and turn is a task of the batch at hand.
BatchOK ==
  /\ start \in 0..(Tasks + Workers) /\ turn \in 0..Tasks
  /\ \E k \in Nat : start = k * Workers
  /\ pc = "ask" => start < Tasks /\ turn = start + 1
  /\ pc \in {"skip", "launch", "record", "collect"} => start < turn /\ turn <= BatchEnd

PlaceOf(t) ==
  /\ Unseen(t) \/ Fresh(t) \/ Shown(t) \/ Final(t)
  /\ t <= start => Final(t)
  /\ t > BatchEnd => Unseen(t)
  /\ pc \in {"loop", "ask", "done"} /\ t > start => Unseen(t)
  /\ pc \in {"skip", "launch"} /\ t >= turn => Unseen(t)
  /\ pc = "record" /\ t > turn => Unseen(t)
  /\ pc = "record" /\ t = turn => Fresh(t)
  /\ pc \in {"skip", "collect"} /\ t < turn => Final(t)
  /\ pc \in {"launch", "record"} /\ start < t /\ t < turn => Shown(t)
  /\ pc = "collect" /\ turn <= t /\ t <= BatchEnd => Shown(t)
  /\ Fresh(t) => pc = "gone" \/ (pc = "record" /\ t = turn)

\* The tasks that the two counters count.
Dispatched == {t \in TaskIds : proc[t] # "none" /\ rows[t] # <<>>}
Failures == {t \in TaskIds : proc[t] = "error" /\ rows[t] = RowsEnded("error")}

CountOK == dispatched = Cardinality(Dispatched) /\ failures = Cardinality(Failures)

Kinds ==
  /\ pc \in PC /\ humanLoop \in BOOLEAN /\ chatty \in SUBSET TaskIds
  /\ proc \in [TaskIds -> {"none", "running", "ok", "error"}]
  /\ rows \in [TaskIds -> Seq(Statuses)]

SwarmInv == Kinds /\ BatchOK /\ CountOK /\ \A t \in TaskIds : PlaceOf(t)

\* A second row behind the first.
LEMMA AppendToOne ==
  ASSUME NEW S, NEW a \in S, NEW b \in S
  PROVE  Append(<<a>>, b) = <<a, b>>
<1> DEFINE s == Append(<<a>>, b)
           t == <<a, b>>
<1>1. t \in Seq(S) /\ Len(t) = 2 /\ t[1] = a /\ t[2] = b
  OBVIOUS
<1>2. <<a>> \in Seq(S) /\ Len(<<a>>) = 1 /\ <<a>>[1] = a
  OBVIOUS
<1>3. s \in Seq(S) /\ Len(s) = 2 /\ s[1] = a /\ s[2] = b
  BY <1>2
<1> HIDE DEF s, t
<1>4. \A i \in 1..Len(s) : s[i] = t[i]
  <2>1. \A i \in 1..2 : i = 1 \/ i = 2
    OBVIOUS
  <2> QED
    BY <2>1, <1>1, <1>3
<1>5. s = t
  BY <1>1, <1>3, <1>4, SeqEqual
<1> QED
  BY <1>5 DEF s, t

USE SwarmNumbers

-----------------------------------------------------------------------------
\* Rows, batches and counters

\* Rows tell the states apart, and each state gives the next by one row more.
LEMMA RowFacts ==
  /\ RowsSkipped \in Seq(Statuses) /\ RowsRunning \in Seq(Statuses)
  /\ \A s \in {"ok", "error"} : RowsEnded(s) \in Seq(Statuses)
  /\ Append(<<>>, "skipped") = RowsSkipped /\ Append(<<>>, "running") = RowsRunning
  /\ \A s \in {"ok", "error"} : Append(RowsRunning, s) = RowsEnded(s)
  /\ <<>> # RowsSkipped /\ <<>> # RowsRunning /\ RowsSkipped # RowsRunning
  /\ \A s \in {"ok", "error"} :
       RowsEnded(s) # <<>> /\ RowsEnded(s) # RowsSkipped /\ RowsEnded(s) # RowsRunning
  /\ RowsEnded("ok") # RowsEnded("error")
<1>1. /\ Len(RowsSkipped) = 1 /\ RowsSkipped[1] = "skipped"
      /\ Len(RowsRunning) = 1 /\ RowsRunning[1] = "running"
      /\ RowsSkipped \in Seq(Statuses) /\ RowsRunning \in Seq(Statuses)
  BY DEF RowsSkipped, RowsRunning, Statuses
<1>2. ASSUME NEW s \in {"ok", "error"}
      PROVE  /\ Len(RowsEnded(s)) = 2 /\ RowsEnded(s)[2] = s
             /\ RowsEnded(s) \in Seq(Statuses)
  BY DEF RowsEnded, Statuses
<1>3. Append(<<>>, "skipped") = RowsSkipped /\ Append(<<>>, "running") = RowsRunning
  BY DEF RowsSkipped, RowsRunning
<1>4. ASSUME NEW s \in {"ok", "error"} PROVE Append(RowsRunning, s) = RowsEnded(s)
  <2>1. "running" \in Statuses /\ s \in Statuses
    BY DEF Statuses
  <2>2. Append(<<"running">>, s) = <<"running", s>>
    BY <2>1, AppendToOne
  <2> QED
    BY <2>2 DEF RowsRunning, RowsEnded
<1>5. Len(<<>>) = 0
  OBVIOUS
<1> HIDE DEF RowsSkipped, RowsRunning, RowsEnded
<1>6. <<>> # RowsSkipped /\ <<>> # RowsRunning /\ RowsSkipped # RowsRunning
  BY <1>1, <1>5
<1>7. ASSUME NEW s \in {"ok", "error"}
      PROVE  RowsEnded(s) # <<>> /\ RowsEnded(s) # RowsSkipped /\ RowsEnded(s) # RowsRunning
  BY <1>1, <1>2, <1>5
<1>8. RowsEnded("ok") # RowsEnded("error")
  BY <1>2
<1> QED
  BY <1>1, <1>2, <1>3, <1>4, <1>6, <1>7, <1>8

\* The batch at hand.
LEMMA BatchFacts ==
  ASSUME start \in 0..(Tasks + Workers)
  PROVE  /\ BatchEnd \in Nat /\ BatchEnd <= Tasks /\ BatchEnd <= start + Workers
         /\ start < Tasks => start < BatchEnd
         /\ \A t \in TaskIds : t <= start + Workers => t <= BatchEnd
  BY DEF BatchEnd, TaskIds

\* Tasks of one batch have the same number of their batch.
LEMMA SameBatch ==
  ASSUME NEW k \in Nat, NEW t \in Nat, k * Workers < t, t <= k * Workers + Workers
  PROVE  BatchOf(t) = k
  BY DEF BatchOf

\* Counting a task that was not counted yet.
LEMMA CountOneMore ==
  ASSUME NEW S \in SUBSET TaskIds, NEW t \in TaskIds, t \notin S
  PROVE  Cardinality(S \cup {t}) = Cardinality(S) + 1
<1>1. IsFiniteSet(TaskIds)
  BY FS_Interval DEF TaskIds
<1>2. IsFiniteSet(S)
  BY <1>1, FS_Subset
<1> QED
  BY <1>2, FS_AddElement

\* No count exceeds the number of tasks.
LEMMA CountBound ==
  ASSUME NEW S \in SUBSET TaskIds
  PROVE  Cardinality(S) \in 0..Tasks
<1>1. IsFiniteSet(TaskIds) /\ Cardinality(TaskIds) = Tasks
  BY FS_Interval DEF TaskIds
<1>2. IsFiniteSet(S) /\ Cardinality(S) <= Cardinality(TaskIds)
  BY <1>1, FS_Subset
<1> QED
  BY <1>1, <1>2, FS_CardinalityType

-----------------------------------------------------------------------------
\* The dispatcher

\* No worker is started, and nothing is recorded.
LEMMA SwarmInit == Init => SwarmInv
<1> SUFFICES ASSUME Init PROVE SwarmInv
  OBVIOUS
<1>1. Kinds
  BY DEF Init, Kinds, PC
<1>2. start = 0 * Workers
  BY DEF Init
<1>3. BatchOK
  BY <1>2 DEF Init, BatchOK
<1>4. Dispatched = {} /\ Failures = {}
  BY DEF Init, Dispatched, Failures
<1>5. CountOK
  BY <1>4, FS_EmptySet DEF Init, CountOK
<1>6. \A t \in TaskIds : PlaceOf(t)
  BY DEF Init, PlaceOf, Unseen, Fresh, Started, TaskIds
<1> QED
  BY <1>1, <1>3, <1>5, <1>6 DEF SwarmInv

\* Steps that move the dispatcher only.
LEMMA MoveKeeps ==
  ASSUME SwarmInv, NextBatch \/ Finished \/ Answer \/ Stop
  PROVE  SwarmInv'
<1> USE DEF SwarmInv
<1>1. UNCHANGED <<start, failures, dispatched, proc, rows, fixed>>
  BY DEF NextBatch, Finished, Answer, Stop
<1>2. Kinds'
  BY <1>1 DEF Kinds, PC, fixed, NextBatch, Finished, Answer, Stop
<1>3. BatchEnd' = BatchEnd
  BY <1>1 DEF BatchEnd
<1>4. BatchOK'
  BY <1>1, <1>3, BatchFacts DEF BatchOK, NextBatch, Finished, Answer, Stop
<1>5. CountOK'
  BY <1>1 DEF CountOK, Dispatched, Failures
<1>6. ASSUME NEW t \in TaskIds PROVE PlaceOf(t)'
  <2>1. /\ Unseen(t)' = Unseen(t) /\ Fresh(t)' = Fresh(t)
        /\ Shown(t)' = Shown(t) /\ Final(t)' = Final(t)
    BY <1>1 DEF Unseen, Fresh, Shown, Final, Started, Ended
  <2>2. ~(Unseen(t) /\ Fresh(t))
    BY DEF Unseen, Fresh, Started
  <2>3. t \in Nat /\ t >= 1
    BY DEF TaskIds
  <2>4. PlaceOf(t)
    OBVIOUS
  <2> QED
    BY <2>1, <2>2, <2>3, <2>4, <1>1, <1>3, BatchFacts
       DEF PlaceOf, BatchOK, NextBatch, Finished, Answer, Stop
<1> QED
  BY <1>2, <1>4, <1>5, <1>6

\* What stays the same of a task that a step leaves alone.
LEMMA Untouched ==
  ASSUME NEW t \in TaskIds, proc'[t] = proc[t], rows'[t] = rows[t]
  PROVE  /\ Unseen(t)' = Unseen(t) /\ Fresh(t)' = Fresh(t)
         /\ Shown(t)' = Shown(t) /\ Final(t)' = Final(t)
  BY DEF Unseen, Fresh, Shown, Final, Started, Ended

\* A task is in one state only.
LEMMA OneKind ==
  ASSUME SwarmInv, NEW t \in TaskIds
  PROVE  /\ t \in Nat /\ 1 <= t /\ t <= Tasks
         /\ Unseen(t) => ~Fresh(t) /\ ~Shown(t) /\ ~Final(t)
         /\ Fresh(t) => ~Shown(t) /\ ~Final(t)
         /\ Shown(t) => ~Final(t)
<1>1. t \in Nat /\ 1 <= t /\ t <= Tasks
  BY DEF TaskIds
<1>2. Unseen(t) => ~Fresh(t) /\ ~Shown(t) /\ ~Final(t)
  BY RowFacts DEF Unseen, Fresh, Shown, Final, Started, Ended
<1>3. Fresh(t) => ~Shown(t) /\ ~Final(t)
  BY RowFacts DEF Fresh, Shown, Final, Started, Ended
<1>4. Shown(t) => ~Final(t)
  BY RowFacts DEF Shown, Final, Started, Ended
<1> QED
  BY <1>1, <1>2, <1>3, <1>4

\* The batch behind the one at hand.
LEMMA NextBatchFacts ==
  ASSUME start \in 0..(Tasks + Workers), start < Tasks, start' = start + Workers
  PROVE  /\ start' \in 0..(Tasks + Workers)
         /\ BatchEnd' \in Nat /\ BatchEnd <= BatchEnd'
         /\ (\E k \in Nat : start = k * Workers) => \E k \in Nat : start' = k * Workers
<1>1. /\ start' \in 0..(Tasks + Workers)
      /\ BatchEnd' \in Nat /\ BatchEnd <= BatchEnd'
  BY DEF BatchEnd
<1>2. ASSUME NEW k \in Nat, start = k * Workers PROVE start' = (k + 1) * Workers /\ k + 1 \in Nat
  BY <1>2
<1> QED
  BY <1>1, <1>2

\* Skipping a task keeps the invariant.
LEMMA SkipKeeps ==
  ASSUME SwarmInv, Skip
  PROVE  SwarmInv'
<1> USE DEF SwarmInv
<1>0. /\ start \in 0..(Tasks + Workers) /\ start < turn /\ turn <= BatchEnd
      /\ turn \in Nat /\ start \in Nat /\ BatchEnd \in Nat /\ BatchEnd <= Tasks
      /\ BatchEnd <= start + Workers
      /\ \A t \in TaskIds : t <= start + Workers => t <= BatchEnd
      /\ \E k \in Nat : start = k * Workers
  BY BatchFacts DEF SwarmInv, BatchOK, Skip, RecordRunning, Collect
<1>1. /\ turn \in TaskIds /\ start < Tasks
      /\ PlaceOf(turn) /\ Unseen(turn) /\ rows[turn] = <<>> /\ proc[turn] = "none"
  BY BatchFacts DEF Skip, PlaceOf, BatchOK, Unseen, TaskIds
<1>2. /\ UNCHANGED <<failures, dispatched, proc, fixed>>
      /\ rows'[turn] = RowsSkipped
      /\ \A u \in TaskIds \ {turn} : rows'[u] = rows[u]
      /\ rows' \in [TaskIds -> Seq(Statuses)]
  BY <1>1, RowFacts DEF Skip, Record, Kinds
<1>3. \/ /\ turn = BatchEnd /\ pc' = "loop" /\ turn' = turn /\ start' = start + Workers
      \/ /\ turn < BatchEnd /\ pc' = "skip" /\ turn' = turn + 1 /\ start' = start
         /\ BatchEnd' = BatchEnd
  BY BatchFacts DEF Skip, Advance, BatchOK, BatchEnd
<1>4. Kinds'
  BY <1>2, <1>3 DEF Kinds, PC, fixed
<1>5. BatchOK'
  <2>1. CASE turn = BatchEnd
    <3>1. pc' = "loop" /\ start' = start + Workers /\ turn' \in 0..Tasks
      BY <2>1, <1>0, <1>3
    <3> QED
      BY <3>1, <1>0, <1>1, NextBatchFacts DEF BatchOK
  <2>2. CASE turn < BatchEnd
    <3>1. turn' \in 0..Tasks /\ start < turn' /\ turn' <= BatchEnd
      BY <2>2, <1>0, <1>3
    <3>2. \E k \in Nat : start' = k * Workers
      BY <2>2, <1>0, <1>3
    <3>3. start' = start /\ BatchEnd' = BatchEnd /\ pc' \notin {"ask"}
      BY <2>2, <1>0, <1>3
    <3> QED
      BY <3>1, <3>2, <3>3 DEF BatchOK
  <2> QED
    BY <1>3, <2>1, <2>2
<1>6. Dispatched' = Dispatched /\ Failures' = Failures
  BY <1>1, <1>2, RowFacts DEF Dispatched, Failures
<1>7. CountOK'
  BY <1>2, <1>6 DEF CountOK
<1>8. ASSUME NEW u \in TaskIds PROVE PlaceOf(u)'
  <2>1. u = turn => Final(u)' /\ ~Fresh(u)'
    BY <1>1, <1>2 DEF Final, Fresh, Started
  <2>2. u # turn => /\ Unseen(u)' = Unseen(u) /\ Fresh(u)' = Fresh(u)
                    /\ Shown(u)' = Shown(u) /\ Final(u)' = Final(u)
    BY <1>2, Untouched
  <2>3. PlaceOf(u) /\ pc = "skip"
    BY DEF Skip
  <2>4. CASE turn = BatchEnd
    <3>1. pc' = "loop" /\ start' = start + Workers
      BY <2>4, <1>0, <1>3
    <3>2. u <= start' => Final(u)'
      BY <2>1, <2>2, <2>3, <2>4, <3>1, <1>0, OneKind DEF PlaceOf
    <3>3. u > start' => Unseen(u)' /\ u # turn
      BY <2>2, <2>3, <2>4, <3>1, <1>0, OneKind DEF PlaceOf
    <3>4. start' \in Nat /\ u \in Nat /\ BatchEnd' \in Nat /\ (u > BatchEnd' => u > start')
      <4>1. start' \in Nat /\ u \in Nat /\ BatchEnd' \in Nat /\ u <= Tasks
        BY <3>1, <1>0, <1>1, NextBatchFacts, OneKind
      <4>2. BatchEnd' = IF start' + Workers < Tasks THEN start' + Workers ELSE Tasks
        BY DEF BatchEnd
      <4>3. \A m \in Nat : u > (IF m + Workers < Tasks THEN m + Workers ELSE Tasks) => u > m
        BY <4>1
      <4> QED
        BY <4>1, <4>2, <4>3
    <3>5. ~Fresh(u)'
      BY <3>2, <3>3, <3>4, <2>1, <2>2, <2>3, OneKind
    <3> QED
      BY <3>1, <3>2, <3>3, <3>4, <3>5 DEF PlaceOf
  <2>5. CASE turn < BatchEnd
    <3>1. /\ pc' = "skip" /\ turn' = turn + 1 /\ start' = start /\ BatchEnd' = BatchEnd
          /\ pc = "skip" /\ start < turn /\ turn < BatchEnd
          /\ turn \in Nat /\ start \in Nat /\ BatchEnd \in Nat /\ u \in Nat
      BY <2>3, <2>5, <1>0, <1>3, OneKind
    <3>2. CASE u = turn
      BY <3>1, <3>2, <2>1 DEF PlaceOf
    <3>3. CASE u # turn
      <4>1. u >= turn' => u >= turn
        BY <3>1
      <4>2. u < turn' => u < turn
        BY <3>1, <3>3
      <4> QED
        BY <3>1, <3>3, <4>1, <4>2, <2>2, <2>3 DEF PlaceOf
    <3> QED
      BY <3>2, <3>3
  <2> QED
    BY <1>3, <2>4, <2>5
<1> QED
  BY <1>4, <1>5, <1>7, <1>8

\* Starting a worker keeps the invariant: it has no row yet.
LEMMA LaunchKeeps ==
  ASSUME SwarmInv, Launch
  PROVE  SwarmInv'
<1> USE DEF SwarmInv
<1>1. /\ turn \in TaskIds
      /\ PlaceOf(turn) /\ Unseen(turn) /\ rows[turn] = <<>> /\ proc[turn] = "none"
  BY BatchFacts DEF Launch, PlaceOf, BatchOK, Unseen, TaskIds
<1>2. /\ UNCHANGED <<start, turn, failures, dispatched, rows, fixed>>
      /\ pc = "launch" /\ pc' = "record"
      /\ proc'[turn] = "running"
      /\ \A u \in TaskIds \ {turn} : proc'[u] = proc[u]
      /\ proc' \in [TaskIds -> {"none", "running", "ok", "error"}]
  BY <1>1 DEF Launch, Kinds
<1>3. BatchEnd' = BatchEnd
  BY <1>2 DEF BatchEnd
<1>4. Kinds'
  BY <1>2 DEF Kinds, PC, fixed
<1>5. BatchOK'
  BY <1>2, <1>3 DEF BatchOK
<1>6. Dispatched' = Dispatched /\ Failures' = Failures
  BY <1>1, <1>2, RowFacts DEF Dispatched, Failures
<1>7. CountOK'
  BY <1>2, <1>6 DEF CountOK
<1>8. ASSUME NEW u \in TaskIds PROVE PlaceOf(u)'
  <2>1. u = turn => Fresh(u)'
    BY <1>1, <1>2 DEF Fresh, Started
  <2>2. u # turn => /\ Unseen(u)' = Unseen(u) /\ Fresh(u)' = Fresh(u)
                    /\ Shown(u)' = Shown(u) /\ Final(u)' = Final(u)
    BY <1>2, Untouched
  <2> QED
    BY <2>1, <2>2, <1>1, <1>2, <1>3, <1>5, BatchFacts, OneKind DEF PlaceOf, BatchOK
<1> QED
  BY <1>4, <1>5, <1>7, <1>8

\* So does recording it; it counts as dispatched from then on.
LEMMA RecordKeeps ==
  ASSUME SwarmInv, RecordRunning
  PROVE  SwarmInv'
<1> USE DEF SwarmInv
<1>0. /\ start \in 0..(Tasks + Workers) /\ start < turn /\ turn <= BatchEnd
      /\ turn \in Nat /\ start \in Nat /\ BatchEnd \in Nat /\ BatchEnd <= Tasks
      /\ BatchEnd <= start + Workers
      /\ \A t \in TaskIds : t <= start + Workers => t <= BatchEnd
      /\ \E k \in Nat : start = k * Workers
  BY BatchFacts DEF SwarmInv, BatchOK, Skip, RecordRunning, Collect
<1>1. /\ turn \in TaskIds
      /\ PlaceOf(turn) /\ Fresh(turn) /\ rows[turn] = <<>> /\ Started(turn)
  BY BatchFacts DEF RecordRunning, PlaceOf, BatchOK, Fresh, TaskIds
<1>2. /\ UNCHANGED <<start, failures, proc, fixed>>
      /\ dispatched' = dispatched + 1
      /\ rows'[turn] = RowsRunning
      /\ \A u \in TaskIds \ {turn} : rows'[u] = rows[u]
      /\ rows' \in [TaskIds -> Seq(Statuses)]
  BY <1>1, RowFacts DEF RecordRunning, Record, Kinds
<1>3. /\ BatchEnd' = BatchEnd
      /\ \/ turn = BatchEnd /\ pc' = "collect" /\ turn' = start + 1
         \/ turn < BatchEnd /\ pc' = "launch" /\ turn' = turn + 1
  BY <1>2, BatchFacts DEF RecordRunning, Advance, BatchOK, BatchEnd
<1>4. Kinds'
  BY <1>2, <1>3 DEF Kinds, PC, fixed
<1>5. BatchOK'
  <2>1. turn' \in 0..Tasks /\ start < turn' /\ turn' <= BatchEnd
    BY <1>0, <1>3
  <2>2. \E k \in Nat : start' = k * Workers
    BY <1>2 DEF BatchOK
  <2> QED
    BY <2>1, <2>2, <1>2, <1>3 DEF BatchOK
<1>6. /\ turn \notin Dispatched /\ Dispatched' = Dispatched \cup {turn}
      /\ Failures' = Failures
  BY <1>1, <1>2, RowFacts DEF Dispatched, Failures, Started
<1>7. CountOK'
  <2>1. Dispatched \in SUBSET TaskIds
    BY DEF Dispatched
  <2> QED
    BY <1>1, <1>2, <1>6, <2>1, CountOneMore DEF CountOK
<1>8. ASSUME NEW u \in TaskIds PROVE PlaceOf(u)'
  <2>1. u = turn => Shown(u)' /\ ~Fresh(u)'
    BY <1>1, <1>2, RowFacts DEF Shown, Fresh, Started
  <2>2. u # turn => /\ Unseen(u)' = Unseen(u) /\ Fresh(u)' = Fresh(u)
                    /\ Shown(u)' = Shown(u) /\ Final(u)' = Final(u)
    BY <1>2, Untouched
  <2>3. PlaceOf(u) /\ pc = "record"
    BY DEF RecordRunning
  <2> QED
    <3>1. /\ pc = "record" /\ pc' \in {"collect", "launch"} /\ start' = start /\ BatchEnd' = BatchEnd
          /\ start < turn /\ turn <= BatchEnd
          /\ pc' = "collect" => turn = BatchEnd /\ turn' = start + 1
          /\ pc' = "launch" => turn < BatchEnd /\ turn' = turn + 1
          /\ turn \in Nat /\ start \in Nat /\ BatchEnd \in Nat /\ u \in Nat
      BY <2>3, <1>0, <1>2, <1>3, OneKind
    <3>2. CASE u = turn
      BY <3>1, <3>2, <2>1 DEF PlaceOf
    <3>3. CASE u # turn
      <4>1. pc' = "launch" => (u >= turn' => u > turn) /\ (u < turn' => u < turn)
        BY <3>1, <3>3
      <4>2. pc' = "collect" => (u < turn' => u <= start)
                               /\ (turn' <= u /\ u <= BatchEnd => start < u /\ u < turn)
        BY <3>1, <3>3
      <4> QED
        BY <3>1, <3>3, <4>1, <4>2, <2>2, <2>3 DEF PlaceOf
    <3> QED
      BY <3>2, <3>3
<1> QED
  BY <1>4, <1>5, <1>7, <1>8

\* And collecting one that has ended: a failure is counted once.
LEMMA CollectKeeps ==
  ASSUME SwarmInv, Collect
  PROVE  SwarmInv'
<1> USE DEF SwarmInv
<1>0. /\ start \in 0..(Tasks + Workers) /\ start < turn /\ turn <= BatchEnd
      /\ turn \in Nat /\ start \in Nat /\ BatchEnd \in Nat /\ BatchEnd <= Tasks
      /\ BatchEnd <= start + Workers
      /\ \A t \in TaskIds : t <= start + Workers => t <= BatchEnd
      /\ \E k \in Nat : start = k * Workers
  BY BatchFacts DEF SwarmInv, BatchOK, Skip, RecordRunning, Collect
<1>1. /\ turn \in TaskIds /\ start < Tasks
      /\ PlaceOf(turn) /\ Shown(turn) /\ rows[turn] = RowsRunning
      /\ proc[turn] \in {"ok", "error"}
  BY BatchFacts DEF Collect, PlaceOf, BatchOK, Shown, Ended, TaskIds
<1>2. /\ UNCHANGED <<dispatched, proc, fixed>>
      /\ failures' = IF proc[turn] = "error" THEN failures + 1 ELSE failures
      /\ rows'[turn] = RowsEnded(proc[turn])
      /\ \A u \in TaskIds \ {turn} : rows'[u] = rows[u]
      /\ rows' \in [TaskIds -> Seq(Statuses)]
  BY <1>1, RowFacts DEF Collect, Record, Failed, Kinds
<1>3. \/ /\ turn = BatchEnd /\ pc' = "loop" /\ turn' = turn /\ start' = start + Workers
      \/ /\ turn < BatchEnd /\ pc' = "collect" /\ turn' = turn + 1 /\ start' = start
         /\ BatchEnd' = BatchEnd
  BY BatchFacts DEF Collect, Advance, BatchOK, BatchEnd
<1>4. Kinds'
  BY <1>2, <1>3 DEF Kinds, PC, fixed
<1>5. BatchOK'
  <2>1. CASE turn = BatchEnd
    <3>1. pc' = "loop" /\ start' = start + Workers /\ turn' \in 0..Tasks
      BY <2>1, <1>0, <1>3
    <3> QED
      BY <3>1, <1>0, <1>1, NextBatchFacts DEF BatchOK
  <2>2. CASE turn < BatchEnd
    <3>1. turn' \in 0..Tasks /\ start < turn' /\ turn' <= BatchEnd
      BY <2>2, <1>0, <1>3
    <3>2. \E k \in Nat : start' = k * Workers
      BY <2>2, <1>0, <1>3
    <3>3. start' = start /\ BatchEnd' = BatchEnd /\ pc' \notin {"ask"}
      BY <2>2, <1>0, <1>3
    <3> QED
      BY <3>1, <3>2, <3>3 DEF BatchOK
  <2> QED
    BY <1>3, <2>1, <2>2
<1>6. /\ turn \notin Failures
      /\ Dispatched' = Dispatched
      /\ Failures' = IF proc[turn] = "error" THEN Failures \cup {turn} ELSE Failures
  BY <1>1, <1>2, RowFacts DEF Dispatched, Failures
<1>7. CountOK'
  <2>1. Failures \in SUBSET TaskIds
    BY DEF Failures
  <2> QED
    BY <1>1, <1>2, <1>6, <2>1, CountOneMore DEF CountOK
<1>8. ASSUME NEW u \in TaskIds PROVE PlaceOf(u)'
  <2>1. u = turn => Final(u)' /\ ~Fresh(u)'
    BY <1>1, <1>2, RowFacts DEF Final, Fresh, Started, Ended
  <2>2. u # turn => /\ Unseen(u)' = Unseen(u) /\ Fresh(u)' = Fresh(u)
                    /\ Shown(u)' = Shown(u) /\ Final(u)' = Final(u)
    BY <1>2, Untouched
  <2>3. PlaceOf(u) /\ pc = "collect"
    BY DEF Collect
  <2> QED
    BY <2>1, <2>2, <2>3, <1>1, <1>3, <1>5, BatchFacts, NextBatchFacts, OneKind DEF PlaceOf, BatchOK
<1> QED
  BY <1>4, <1>5, <1>7, <1>8

\* A worker ends.
LEMMA WorkerKeeps ==
  ASSUME SwarmInv, NEW t \in TaskIds, WorkerEnds(t)
  PROVE  SwarmInv'
<1> USE DEF SwarmInv
<1>1. /\ UNCHANGED <<dispatcher, rows, fixed>>
      /\ proc[t] = "running" /\ proc'[t] \in {"ok", "error"}
      /\ \A u \in TaskIds \ {t} : proc'[u] = proc[u]
      /\ proc' \in [TaskIds -> {"none", "running", "ok", "error"}]
  BY DEF WorkerEnds, Kinds
<1>2. UNCHANGED <<pc, start, turn, failures, dispatched>> /\ BatchEnd' = BatchEnd
  BY <1>1 DEF dispatcher, BatchEnd
<1>3. Kinds' /\ BatchOK'
  BY <1>1, <1>2 DEF Kinds, BatchOK, fixed
<1>4. rows[t] \in {<<>>, RowsRunning}
  BY <1>1 DEF PlaceOf, Unseen, Fresh, Shown, Final, Ended
<1>5. Dispatched' = Dispatched /\ Failures' = Failures
  BY <1>1, <1>4, RowFacts DEF Dispatched, Failures
<1>6. CountOK'
  BY <1>2, <1>5 DEF CountOK
<1>7. ASSUME NEW u \in TaskIds PROVE PlaceOf(u)'
  <2>1. u # t => /\ Unseen(u)' = Unseen(u) /\ Fresh(u)' = Fresh(u)
                 /\ Shown(u)' = Shown(u) /\ Final(u)' = Final(u)
    BY <1>1, Untouched
  <2>2. u = t => /\ Fresh(u)' = Fresh(u) /\ Shown(u)' = Shown(u)
                 /\ ~Unseen(u) /\ ~Final(u)
    BY <1>1 DEF Unseen, Fresh, Shown, Final, Started, Ended
  <2> QED
    BY <2>1, <2>2, <1>2 DEF PlaceOf
<1> QED
  BY <1>3, <1>6, <1>7

\* Every step keeps the invariant.
LEMMA SwarmNext == SwarmInv /\ [Next]_vars => SwarmInv'
<1> SUFFICES ASSUME SwarmInv, [Next]_vars PROVE SwarmInv'
  OBVIOUS
<1>1. CASE UNCHANGED vars
  BY <1>1, ZenonT(60) DEF vars, dispatcher, fixed, SwarmInv, Kinds, BatchOK, BatchEnd, CountOK, Dispatched,
     Failures, PlaceOf, Unseen, Fresh, Shown, Final, Started, Ended
<1>2. CASE Next
  BY <1>2, MoveKeeps, SkipKeeps, LaunchKeeps, RecordKeeps, CollectKeeps, WorkerKeeps
     DEF Next, Dispatching
<1> QED
  BY <1>1, <1>2

\* What became of a task follows from its place in the list.
THEOREM SwarmInvariant == Spec => []SwarmInv
  BY SwarmInit, SwarmNext, PTL DEF Spec

\* Every variable keeps its type; the counters never exceed the number of tasks.
THEOREM SwarmTyped == Spec => []TypeOK
<1>1. SwarmInv => TypeOK
  <2> SUFFICES ASSUME SwarmInv PROVE TypeOK
    OBVIOUS
  <2>1. Dispatched \in SUBSET TaskIds /\ Failures \in SUBSET TaskIds
    BY DEF Dispatched, Failures
  <2>2. failures \in 0..Tasks /\ dispatched \in 0..Tasks
    BY <2>1, CountBound DEF SwarmInv, CountOK
  <2> QED
    BY <2>2 DEF SwarmInv, Kinds, BatchOK, TypeOK, Statuses
<1> QED
  BY <1>1, SwarmInvariant, PTL

\* Batches never overlap, whatever becomes of the dispatcher.
THEOREM OneBatchAtATimeHolds == Spec => []OneBatchAtATime
<1>1. SwarmInv => OneBatchAtATime
  <2> SUFFICES ASSUME SwarmInv PROVE OneBatchAtATime
    OBVIOUS
  <2>1. PICK k \in Nat : start = k * Workers
    BY DEF SwarmInv, BatchOK
  <2>2. start \in Nat /\ BatchEnd \in Nat /\ BatchEnd <= start + Workers
    BY BatchFacts DEF SwarmInv, BatchOK
  <2>3. \A t \in Running : t \in Nat /\ start < t /\ t <= start + Workers
    <3> SUFFICES ASSUME NEW t \in Running
                 PROVE  t \in Nat /\ start < t /\ t <= start + Workers
      OBVIOUS
    <3>1. t \in TaskIds /\ t \in Nat /\ proc[t] = "running"
      BY DEF Running, TaskIds
    <3>2. ~Unseen(t) /\ ~Final(t)
      BY <3>1 DEF Unseen, Final, Ended
    <3> QED
      BY <2>2, <3>1, <3>2 DEF SwarmInv, PlaceOf
  <2>4. \A t \in Running : BatchOf(t) = k
    BY <2>1, <2>3, SameBatch
  <2>5. Running \subseteq (start + 1)..(start + Workers)
    BY <2>2, <2>3
  <2>6. /\ IsFiniteSet((start + 1)..(start + Workers))
        /\ Cardinality((start + 1)..(start + Workers)) = Workers
    BY <2>2, FS_Interval
  <2>7. Cardinality(Running) <= Workers
    BY <2>5, <2>6, FS_Subset
  <2> QED
    BY <2>4, <2>7 DEF OneBatchAtATime
<1> QED
  BY <1>1, SwarmInvariant, PTL

\* The rows tell what became of each worker, as far as the dispatcher came.
THEOREM RowsTellWorkersHolds == Spec => []RowsTellWorkers
<1>1. SwarmInv => RowsTellWorkers
  <2> SUFFICES ASSUME SwarmInv, NEW t \in TaskIds
               PROVE  /\ proc[t] = "none" => rows[t] \in {<<>>, RowsSkipped}
                      /\ proc[t] = "running" => rows[t] \in {<<>>, RowsRunning}
                      /\ proc[t] \in {"ok", "error"} =>
                           rows[t] \in {<<>>, RowsRunning, RowsEnded(proc[t])}
                      /\ proc[t] # "none" /\ rows[t] = <<>> =>
                           pc = "gone" \/ (pc = "record" /\ turn = t)
    BY DEF RowsTellWorkers, RowsSkipped, RowsRunning, RowsEnded
  <2>1. PlaceOf(t) /\ proc[t] \in {"none", "running", "ok", "error"}
    BY DEF SwarmInv, Kinds
  <2> QED
    BY <2>1 DEF PlaceOf, Unseen, Fresh, Shown, Final, Started, Ended
<1> QED
  BY <1>1, SwarmInvariant, PTL

\* A swarm that returns has counted every worker that it started, and every one
\* that failed.
THEOREM ResultCountsFailuresHolds == Spec => []ResultCountsFailures
<1>1. SwarmInv => ResultCountsFailures
  <2> SUFFICES ASSUME SwarmInv, pc = "done" PROVE ResultCountsFailures
    BY DEF ResultCountsFailures
  <2>1. ASSUME NEW t \in TaskIds PROVE Unseen(t) \/ Final(t)
    BY OneKind DEF SwarmInv, PlaceOf, BatchOK
  <2>2. Failures = {t \in TaskIds : proc[t] = "error"}
    BY <2>1 DEF Failures, Unseen, Final, Ended
  <2>3. Dispatched = {t \in TaskIds : proc[t] # "none"}
    BY <2>1, RowFacts DEF Dispatched, Unseen, Final, Ended
  <2>4. ASSUME NEW t \in TaskIds, proc[t] # "none" PROVE rows[t] = RowsEnded(proc[t])
    BY <2>1, <2>4 DEF Unseen, Final
  <2> QED
    BY <2>2, <2>3, <2>4 DEF SwarmInv, CountOK, ResultCountsFailures, RowsEnded
<1> QED
  BY <1>1, SwarmInvariant, PTL
=============================================================================
