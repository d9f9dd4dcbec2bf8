------------------------- MODULE ManagedAgentProofs -------------------------
(***************************************************************************)
(* Proofs about ManagedAgent, for any requests, threads and limits: Codex  *)
(* works only in a clean and recorded thread, no thread is lost sight of,  *)
(* an applied change is remembered, what is shown of the connection is     *)
(* true and a stopped connection is silent.  The invariant is proved part  *)
(* by part: the queue, the run, the threads, the results, the status.      *)
(***************************************************************************)
EXTENDS ManagedAgent, SequenceTheorems, FiniteSetTheorems, TLAPS

-----------------------------------------------------------------------------
(* Sequences with their newest elements.                                   *)

(* Of n elements, those of the full sequence s but for its first, then e.  *)
Pushed(S, kept, s, e, n) ==
  /\ kept \in Seq(S) /\ Len(kept) = n /\ kept[n] = e
  /\ \A i \in 1 .. n : i # n => kept[i] = s[i + 1]

(* A new element of a sequence that is full pushes the first one out.      *)
LEMMA NewestIsSuffix ==
  ASSUME NEW S, NEW s \in Seq(S), NEW e \in S, NEW n \in Nat \ {0}, Len(s) = n
  PROVE  Pushed(S, Newest(Append(s, e), n), s, e, n)
<1> DEFINE all == Append(s, e)
<1>1. /\ all \in Seq(S) /\ Len(all) = Len(s) + 1 /\ Len(s) \in Nat
      /\ \A i \in 1 .. Len(s) : all[i] = s[i]
      /\ all[Len(s) + 1] = e
  BY AppendProperties, LenProperties
<1>2. \A i \in 2 .. n + 1 : all[i] \in S
  BY <1>1, ElementOfSeq
<1>3. Newest(all, n) = SubSeq(all, 2, n + 1)
  BY <1>1 DEF Newest
<1>4. /\ SubSeq(all, 2, n + 1) \in Seq(S) /\ Len(SubSeq(all, 2, n + 1)) = n
      /\ \A i \in 1 .. n : SubSeq(all, 2, n + 1)[i] = all[i + 1]
  <2>1. /\ SubSeq(all, 2, n + 1) \in Seq(S)
        /\ Len(SubSeq(all, 2, n + 1)) = IF 2 <= n + 1 THEN n + 1 - 2 + 1 ELSE 0
        /\ \A i \in 1 .. n + 1 - 2 + 1 : SubSeq(all, 2, n + 1)[i] = all[2 + i - 1]
    <3>1. n + 1 \in Int /\ 2 \in Int
      OBVIOUS
    <3> HIDE DEF all
    <3> QED BY <1>2, <3>1, SubSeqProperties
  <2> HIDE DEF all
  <2>2. \A i \in Nat : 2 + i - 1 = i + 1
    OBVIOUS
  <2> QED BY <2>1, <2>2
<1> HIDE DEF all
<1>5. \A i \in 1 .. n : i # n => all[i + 1] = s[i + 1]
  BY <1>1
<1> QED BY <1>1, <1>3, <1>4, <1>5 DEF all, Pushed

-----------------------------------------------------------------------------
(* The queue.                                                              *)

(* What any step makes of the queue and the records.                       *)
QueueMoves ==
  \/ UNCHANGED <<queue, step, records, disposed>>
  \/ (\E r \in Requests : Accept(r)) \/ Dispose
  \/ /\ queue # <<>> /\ UNCHANGED disposed
     /\ \/ /\ step' \in {"stopping", "opening", "touching"} /\ UNCHANGED <<queue, records>>
        \/ EndOperation /\ (records' = records \/ (disposed /\ records' = <<>>))
  \/ Started(grant)

(* An accepted request joins the end of the queue and of the records.      *)
LEMMA AcceptKeepsOrder ==
  ASSUME QueueFits, NEW r \in Requests, Accept(r)
  PROVE  QueueFits'
<1>1. /\ queue \in Seq(Operations) /\ records \in Seq(Requests) /\ ~disposed
      /\ Len(queue) < MaxQueue /\ Len(records) <= MaxRecords /\ r \notin Range(records)
      /\ queue' = Append(queue, r) /\ records' = Newest(Append(records, r), MaxRecords)
      /\ UNCHANGED <<step, disposed>>
  BY DEF QueueFits, Accept, Remembered
<1>2. /\ queue' \in Seq(Operations) /\ Len(queue') = Len(queue) + 1 /\ queue' # <<>>
      /\ Len(queue) \in Nat /\ DOMAIN queue = 1 .. Len(queue)
      /\ \A i \in 1 .. Len(queue) : queue'[i] = queue[i]
      /\ queue'[Len(queue) + 1] = r
  <2>1. r \in Operations
    BY DEF Operations
  <2> QED BY <1>1, <2>1, AppendProperties, LenProperties
<1>3. DOMAIN queue' = 1 .. Len(queue) + 1
  BY <1>2, LenProperties
<1> DEFINE dropped == IF Len(records) = MaxRecords THEN 1 ELSE 0
<1>4. MaxRecords \in Nat \ {0} /\ MaxRecords >= 1 /\ MaxQueue \in Nat /\ MaxQueue <= MaxRecords
  BY ManagedAssumption
<1>5. /\ records' \in Seq(Requests) /\ Len(records') = Len(records) + 1 - dropped
      /\ Len(records') <= MaxRecords
      /\ records'[Len(records')] = r
      /\ \A i \in 1 .. Len(records') : i # Len(records') => records'[i] = records[i + dropped]
  <2>1. Len(records) \in Nat /\ Len(records) <= MaxRecords
    BY <1>1, LenProperties
  <2>2. CASE Len(records) # MaxRecords
    <3>1. records' = Append(records, r)
      <4>1. Len(Append(records, r)) = Len(records) + 1
        BY <1>1, AppendProperties
      <4> QED BY <1>1, <1>4, <2>1, <2>2, <4>1 DEF Newest
    <3>2. /\ records' \in Seq(Requests) /\ Len(records') = Len(records) + 1
          /\ records'[Len(records) + 1] = r
          /\ \A i \in 1 .. Len(records) : records'[i] = records[i]
      BY <1>1, <3>1, AppendProperties
    <3>3. dropped = 0 /\ Len(records) + 1 <= MaxRecords
      BY <1>4, <2>1, <2>2
    <3> HIDE DEF dropped
    <3>4. \A i \in 1 .. Len(records') : i # Len(records') => i \in 1 .. Len(records) /\ i + dropped = i
      BY <2>1, <3>2, <3>3
    <3>5. Len(records) + 1 - dropped = Len(records) + 1
      BY <2>1, <3>3
    <3> QED BY <3>2, <3>3, <3>4, <3>5
  <2>3. CASE Len(records) = MaxRecords
    <3>1. /\ records' \in Seq(Requests) /\ Len(records') = MaxRecords
          /\ records'[MaxRecords] = r
          /\ \A i \in 1 .. MaxRecords : i # MaxRecords => records'[i] = records[i + 1]
      <4>1. /\ r \in Requests /\ records \in Seq(Requests) /\ MaxRecords \in Nat \ {0}
            /\ Len(records) = MaxRecords /\ records' = Newest(Append(records, r), MaxRecords)
        BY <1>1, <1>4, <2>3
      <4>2. Pushed(Requests, records', records, r, MaxRecords)
        BY <4>1, NewestIsSuffix, Zenon
      <4> QED BY <4>2 DEF Pushed
    <3>2. dropped = 1 /\ Len(records) + 1 - 1 = MaxRecords /\ MaxRecords <= MaxRecords
      <4>1. dropped = 1
        BY <2>3
      <4>2. MaxRecords + 1 - 1 = MaxRecords /\ MaxRecords <= MaxRecords
        BY <1>4
      <4> QED BY <2>3, <4>1, <4>2
    <3> HIDE DEF dropped
    <3> QED BY <3>1, <3>2
  <2> QED BY <2>2, <2>3
<1>6. Len(records) \in Nat /\ DOMAIN records = 1 .. Len(records)
  BY <1>1, LenProperties
<1>7. dropped \in {0, 1} /\ (dropped = 1 <=> Len(records) = MaxRecords)
  OBVIOUS
<1> HIDE DEF dropped
<1>8. Len(records') \in Nat /\ Len(records') = Len(records) + 1 - dropped
  <2>1. Len(records') = Len(records) + 1 - dropped
    BY <1>5
  <2> QED BY ONLY <1>6, <1>7, <2>1
<1>9. Len(records') >= 1 /\ (Len(records') = Len(records) + 1 \/ Len(records') = MaxRecords)
  <2>1. CASE dropped = 0
    BY ONLY <1>6, <1>8, <2>1
  <2>2. CASE dropped = 1
    <3>1. Len(records) = MaxRecords
      BY <1>7, <2>2
    <3>2. Len(records') = Len(records)
      BY <1>6, <1>8, <2>2
    <3> QED BY <1>4, <3>1, <3>2
  <2> QED BY <1>7, <2>1, <2>2
<1>10. \A i \in 1 .. Len(queue) :
        queue[i] # StartUp => /\ Len(queue) - i < Len(records)
                           /\ queue[i] = records[Len(records) - (Len(queue) - i)]
  BY <1>1, <1>2 DEF QueueFits
<1>11. \A i \in 1 .. Len(queue) : queue[i] # r
  <2> SUFFICES ASSUME NEW i \in 1 .. Len(queue), queue[i] = r PROVE FALSE
    OBVIOUS
  <2>1. r # StartUp
    BY ManagedAssumption
  <2>2. Len(records) - (Len(queue) - i) \in 1 .. Len(records)
    BY <1>2, <1>6, <1>10, <2>1
  <2> QED BY <1>1, <1>6, <1>10, <2>1, <2>2 DEF Range
<1>12. \A i, j \in DOMAIN queue' : queue'[i] = queue'[j] => i = j
  <2>1. \A i, j \in 1 .. Len(queue) : queue[i] = queue[j] => i = j
    BY <1>2 DEF QueueFits
  <2> QED BY <1>2, <1>3, <1>11, <2>1
<1>13. \A i \in DOMAIN queue' : queue'[i] # Closing
  <2>1. \A i \in 1 .. Len(queue) : queue[i] # Closing
    BY <1>1, <1>2 DEF QueueFits
  <2>2. r # Closing
    BY ManagedAssumption
  <2> QED BY <1>2, <1>3, <2>1, <2>2
<1>14. ASSUME NEW i \in DOMAIN queue', queue'[i] # StartUp
       PROVE  /\ Len(queue') - i < Len(records')
              /\ queue'[i] = records'[Len(records') - (Len(queue') - i)]
  <2>1. CASE i = Len(queue) + 1
    <3>1. Len(records') \in 1 .. Len(records') /\ Len(queue') - i = 0
      BY <1>2, <1>8, <1>9, <2>1
    <3> QED BY <1>2, <1>5, <2>1, <3>1
  <2>2. CASE i \in 1 .. Len(queue)
    <3> DEFINE behind == Len(queue) - i
    <3>1. behind \in Nat /\ behind < Len(queue) /\ Len(queue') - i = behind + 1
      BY <1>2, <2>2
    <3>2. behind < Len(records) /\ queue[i] = records[Len(records) - behind]
      BY <1>2, <1>10, <1>14, <2>2
    <3> HIDE DEF behind
    <3>3. behind + 1 < Len(records')
      <4>1. Len(records) <= MaxRecords /\ Len(queue) < MaxQueue /\ Len(queue) \in Nat
        BY <1>1, <1>2
      <4>2. behind + 1 < MaxRecords
        BY <1>4, <3>1, <4>1
      <4>3. behind < Len(records)
        BY <3>2
      <4> QED BY ONLY <1>4, <1>6, <1>8, <1>9, <3>1, <4>1, <4>2, <4>3
    <3>4. records'[Len(records') - (behind + 1)] = records[Len(records) - behind]
      <4>1. Len(records') - (behind + 1) \in 1 .. Len(records')
            /\ Len(records') - (behind + 1) # Len(records')
            /\ Len(records') - (behind + 1) + dropped = Len(records) - behind
        <5>1. Len(records') \in Nat /\ Len(records') = Len(records) + 1 - dropped
          BY <1>5, <1>6, <1>7
        <5> QED BY <1>6, <1>7, <3>1, <3>3, <5>1
      <4> QED BY <1>5, <4>1
    <3> QED BY <1>2, <2>2, <3>1, <3>2, <3>3, <3>4
  <2> QED BY <1>3, <2>1, <2>2, <1>2
<1>15. Len(queue') <= MaxQueue
  BY <1>4, <1>1, <1>2
<1>16. disposed' = disposed /\ step' = step /\ ~disposed'
       /\ disposed \in BOOLEAN /\ step \in {"start", "stopping", "opening", "touching"}
  BY <1>1 DEF QueueFits
<1>17. Len(queue') <= MaxQueue + IF disposed' THEN 1 ELSE 0
  BY <1>4, <1>15, <1>16
<1> QED BY <1>2, <1>5, <1>12, <1>13, <1>14, <1>16, <1>17 DEF QueueFits

(* The other steps keep the queue in its order.                            *)
LEMMA QueueInvariant == QueueFits /\ QueueMoves => QueueFits'
<1> SUFFICES ASSUME QueueFits, QueueMoves PROVE QueueFits'
  OBVIOUS
<1>1. /\ queue \in Seq(Operations) /\ records \in Seq(Requests) /\ disposed \in BOOLEAN
      /\ Len(queue) \in Nat /\ DOMAIN queue = 1 .. Len(queue) /\ MaxQueue \in Nat
      /\ Len(queue) <= MaxQueue + IF disposed THEN 1 ELSE 0
  BY LenProperties, ManagedAssumption DEF QueueFits
<1>2. CASE UNCHANGED <<queue, step, records, disposed>>
  BY <1>2 DEF QueueFits
<1>3. CASE Dispose
  <2>1. /\ queue' = Append(queue, Closing) /\ ~disposed /\ disposed' = TRUE
        /\ UNCHANGED <<step, records>>
    BY <1>3 DEF Dispose
  <2>2. /\ queue' \in Seq(Operations) /\ Len(queue') = Len(queue) + 1 /\ queue' # <<>>
        /\ \A i \in 1 .. Len(queue) : queue'[i] = queue[i]
        /\ queue'[Len(queue) + 1] = Closing
    <3>1. Closing \in Operations
      BY DEF Operations
    <3> QED BY <1>1, <2>1, <3>1, AppendProperties
  <2>3. DOMAIN queue' = 1 .. Len(queue) + 1
    BY <2>2, LenProperties
  <2>4. \A i, j \in DOMAIN queue' : queue'[i] = queue'[j] => i = j
    <3>1. \A i, j \in 1 .. Len(queue) : queue[i] = queue[j] => i = j
      BY <1>1 DEF QueueFits
    <3>2. \A i \in 1 .. Len(queue) : queue[i] # Closing
      BY <1>1, <2>1 DEF QueueFits
    <3> QED BY <1>1, <2>2, <2>3, <3>1, <3>2
  <2>5. Len(queue') <= MaxQueue + 1
    BY <1>1, <2>1, <2>2
  <2> QED BY <2>1, <2>2, <2>4, <2>5 DEF QueueFits
<1>4. CASE /\ queue # <<>> /\ UNCHANGED <<disposed, queue, records>>
           /\ step' \in {"stopping", "opening", "touching"}
  BY <1>4 DEF QueueFits
<1>5. CASE /\ queue # <<>> /\ UNCHANGED disposed /\ EndOperation
           /\ records' = records \/ (disposed /\ records' = <<>>)
  <2>1. /\ queue' \in Seq(Operations) /\ Len(queue') = Len(queue) - 1
        /\ \A i \in 1 .. Len(queue') : queue'[i] = queue[i + 1]
    BY <1>1, <1>5, HeadTailProperties DEF EndOperation
  <2>2. DOMAIN queue' = 1 .. Len(queue') /\ Len(queue') \in Nat
    BY <2>1, LenProperties
  <2>3. \A i \in DOMAIN queue' : i + 1 \in DOMAIN queue
    BY <1>1, <2>1, <2>2
  <2>4. \A i, j \in DOMAIN queue' : queue'[i] = queue'[j] => i = j
    <3>1. \A i, j \in DOMAIN queue : queue[i] = queue[j] => i = j
      BY DEF QueueFits
    <3>2. \A i, j \in DOMAIN queue' : i + 1 = j + 1 => i = j
      BY <2>2
    <3> QED BY <2>1, <2>2, <2>3, <3>1, <3>2
  <2>5. \A i \in DOMAIN queue' : queue'[i] = Closing => disposed'
    BY <1>5, <2>1, <2>2, <2>3 DEF QueueFits
  <2>6. step' = "start"
    BY <1>5 DEF EndOperation
  <2>7. records' \in Seq(Requests) /\ Len(records') <= MaxRecords
    <3>1. <<>> \in Seq(Requests) /\ Len(<<>>) = 0 /\ MaxRecords >= 0
      BY EmptySeq, ManagedAssumption
    <3> QED BY <1>1, <1>5, <3>1 DEF QueueFits
  <2>8. Len(queue') <= MaxQueue + IF disposed' THEN 1 ELSE 0
    BY <1>1, <1>5, <2>1
  <2>9. ASSUME ~disposed', NEW i \in DOMAIN queue', queue'[i] # StartUp
        PROVE  /\ Len(queue') - i < Len(records')
               /\ queue'[i] = records'[Len(records') - (Len(queue') - i)]
    <3>1. records' = records /\ ~disposed
      BY <1>5, <2>9
    <3>2. Len(queue) - (i + 1) = Len(queue') - i
      BY <1>1, <2>1, <2>2
    <3>3. queue[i + 1] # StartUp /\ queue'[i] = queue[i + 1]
      BY <2>1, <2>2, <2>9
    <3>4. /\ Len(queue) - (i + 1) < Len(records)
          /\ queue[i + 1] = records[Len(records) - (Len(queue) - (i + 1))]
      BY <2>3, <3>1, <3>3 DEF QueueFits
    <3> QED BY <3>1, <3>2, <3>3, <3>4
  <2> QED BY <1>5, <2>1, <2>4, <2>5, <2>6, <2>7, <2>8, <2>9, <1>1 DEF QueueFits
<1>6. CASE Started(grant)
  <2>1. /\ queue' \in {<<>>, <<StartUp>>} /\ step' = "start" /\ disposed' = FALSE /\ records' = <<>>
    BY <1>6 DEF Started
  <2>2. StartUp \in Operations /\ StartUp # Closing /\ MaxQueue >= 1 /\ MaxRecords \in Nat
    BY ManagedAssumption DEF Operations
  <2>3. queue' \in Seq(Operations) /\ Len(queue') <= MaxQueue
    <3>1. CASE queue' = <<>>
      BY <1>1, <3>1, EmptySeq
    <3>2. CASE queue' = <<StartUp>>
      BY <1>1, <2>2, <3>2
    <3> QED BY <2>1, <3>1, <3>2
  <2>4. records' \in Seq(Requests) /\ Len(records') <= MaxRecords
    BY <2>1, <2>2, EmptySeq
  <2>5. Len(queue') \in Nat
    BY <2>3, LenProperties
  <2>6. DOMAIN queue' \subseteq {1} /\ \A i \in DOMAIN queue' : queue'[i] = StartUp
    BY <2>1
  <2>7. \A i, j \in DOMAIN queue' : i = j
    BY <2>6
  <2>8. Len(queue') <= MaxQueue + IF disposed' THEN 1 ELSE 0
    BY <1>1, <2>1, <2>3, <2>5
  <2>9. disposed' \in BOOLEAN
    BY <2>1
  <2> QED BY <2>1, <2>2, <2>3, <2>4, <2>6, <2>7, <2>8, <2>9 DEF QueueFits
<1> QED BY <1>2, <1>3, <1>4, <1>5, <1>6, AcceptKeepsOrder DEF QueueMoves

(* Only dispose() puts a stop for good into the queue.                     *)
LEMMA KindOfOperation ==
  /\ \A o \in Operations : KindOf(o) = "dispose" => o = Closing
  /\ KindOf(StartUp) = "connect"
<1>1. \A r \in Requests : Asked[r].kind # "dispose"
  BY ManagedAssumption DEF Kinds
<1> QED BY <1>1, ManagedAssumption DEF KindOf, Operations

(* The stop of dispose() is reached only after dispose().                  *)
LEMMA DisposeIsLast ==
  ASSUME QueueFits, DisposeEnds
  PROVE  disposed
<1>1. queue # <<>> /\ Head(queue) \in Operations /\ 1 \in DOMAIN queue /\ queue[1] = Head(queue)
  <2>1. queue # <<>> /\ queue \in Seq(Operations)
    BY DEF DisposeEnds, Runs, QueueFits
  <2> QED BY <2>1, LenProperties, HeadTailProperties, EmptySeq
<1>2. Head(queue) = Closing
  BY <1>1, KindOfOperation DEF DisposeEnds, Runs, Operation
<1> QED BY <1>1, <1>2 DEF QueueFits

-----------------------------------------------------------------------------
(* The turn.                                                               *)

(* A turn that goes on keeps its revision, and its thread if it has one.   *)
LEMMA TurnGoes ==
  ASSUME turn \in Turn
  PROVE  /\ \A stage \in Stages : Go(stage) =>
              /\ turn' \in Turn /\ turn'.stage = stage
              /\ turn'.revision = turn.revision /\ turn'.thread = turn.thread
         /\ \A outcome \in Outcomes : Cleans(outcome) =>
              /\ turn' \in Turn /\ turn'.stage = "cleaning"
              /\ turn'.revision = turn.revision /\ turn'.thread = turn.thread
         /\ \A t \in Threads :
              turn' = [turn EXCEPT !.stage = "journaling", !.thread = t] =>
                /\ turn' \in Turn /\ turn'.stage = "journaling"
                /\ turn'.revision = turn.revision /\ turn'.thread = t
<1>1. {"cleaning", "journaling"} \subseteq Stages
  BY DEF Stages
<1>2. ASSUME NEW outcome \in Outcomes, Cleans(outcome)
      PROVE  /\ turn' \in Turn /\ turn'.stage = "cleaning"
             /\ turn'.revision = turn.revision /\ turn'.thread = turn.thread
  <2>1. turn' = [turn EXCEPT !.stage = "cleaning", !.outcome = outcome]
    BY <1>2 DEF Cleans
  <2> QED BY <1>1, <2>1 DEF Turn
<1>3. \A stage \in Stages : Go(stage) =>
        /\ turn' \in Turn /\ turn'.stage = stage
        /\ turn'.revision = turn.revision /\ turn'.thread = turn.thread
  BY DEF Turn, Go
<1>4. \A t \in Threads : turn' = [turn EXCEPT !.stage = "journaling", !.thread = t] =>
        /\ turn' \in Turn /\ turn'.stage = "journaling"
        /\ turn'.revision = turn.revision /\ turn'.thread = t
  BY <1>1 DEF Turn
<1> QED BY <1>2, <1>3, <1>4

(* The turn of no delivery.                                                *)
LEMMA NoTurnFacts == NoTurn \in Turn /\ NoTurn.stage = "none"
<1>1. "none" \in Stages /\ "none" \in Outcomes /\ 0 \in 0 .. MaxRevisions
  BY ManagedAssumption DEF Stages, Outcomes
<1> QED BY <1>1 DEF NoTurn, Turn

(* How a delivery ends is one of the ways it can.                          *)
LEMMA OutcomeFacts ==
  /\ {"terminal", "unknown", "returned", "thrown"} \subseteq Outcomes
  /\ EndOfSignalled \subseteq Outcomes
  /\ \A accepted, fatal \in BOOLEAN :
       /\ Outcome(accepted, "returned") \in Outcomes
       /\ OutcomeOfFailure(fatal, accepted) \in Outcomes
BY DEF Outcomes, EndOfSignalled, Outcome, OutcomeOfFailure

(* Where the run can be when its delivery is over.                         *)
Afterwards == {"waiting", "claiming", "reporting", "ending"}

(* A delivery that is over leaves no turn, and its run goes on or ends.    *)
LEMMA OverMoves ==
  ASSUME NEW outcome, Over(outcome), leaseLost \in BOOLEAN
  PROVE  turn' = NoTurn /\ run' \in Afterwards /\ leaseLost' \in BOOLEAN
BY DEF Over, AfterDelivery, Afterwards

(* What a step of a delivery leaves alone, and what it makes of its turn.  *)
TurnMoves ==
  /\ turn.stage # "none"
  /\ UNCHANGED <<grant, connected, disposed, queue, step, records, published, closed>>
  /\ aborted' \in BOOLEAN /\ (aborted => aborted') /\ leaseLost' \in BOOLEAN
  /\ \/ turn' = NoTurn /\ run' \in Afterwards
     \/ /\ turn' \in Turn /\ turn'.stage # "none"
        /\ turn'.revision = turn.revision /\ UNCHANGED run

(* The pump's own report, after a delivery that told nothing of its end.   *)
Reports == \E accepted \in BOOLEAN : ReportEnds(accepted)

(* A failure that is told may abort the connection and nothing else.       *)
LEMMA FailureAborts ==
  ASSUME aborted \in BOOLEAN, NEW fatal \in BOOLEAN, NEW accepted \in BOOLEAN
  PROVE  /\ Fails(fatal, accepted) => aborted' \in BOOLEAN /\ (aborted => aborted')
         /\ FailsUnlessSignalled(fatal, accepted) =>
              aborted' \in BOOLEAN /\ (aborted => aborted')
         /\ OnFailure(turn.revision, fatal) => aborted' \in BOOLEAN /\ (aborted => aborted')
BY DEF FailsUnlessSignalled, Fails, OnFailure

(* Every step of a delivery is such a step.                                *)
LEMMA TurnStepMoves ==
  ASSUME turn \in Turn, aborted \in BOOLEAN, leaseLost \in BOOLEAN, TurnStep
  PROVE  TurnMoves \/ Reports
<1> DEFINE Left == UNCHANGED <<grant, connected, disposed, queue, step, records,
                               published, closed>>
           Kept == aborted' \in BOOLEAN /\ (aborted => aborted')
           Leaves == turn' = NoTurn /\ run' \in Afterwards /\ leaseLost' \in BOOLEAN
           OnTo == /\ turn' \in Turn /\ turn'.stage # "none"
                   /\ turn'.revision = turn.revision /\ UNCHANGED <<run, leaseLost>>
           Moves == turn.stage # "none" /\ Left /\ Kept /\ (Leaves \/ OnTo)
<1> SUFFICES Moves \/ Reports
  BY DEF TurnMoves
<1>1. \A stage \in Stages \ {"none"} : Go(stage) /\ UNCHANGED <<run, leaseLost>> => OnTo
  BY TurnGoes
<1>2. \A outcome \in Outcomes : Cleans(outcome) /\ UNCHANGED <<run, leaseLost>> => OnTo
  BY TurnGoes
<1>3. \A t \in Threads :
        turn' = [turn EXCEPT !.stage = "journaling", !.thread = t] /\ UNCHANGED <<run, leaseLost>>
          => OnTo
  BY TurnGoes
<1>4. \A fatal, accepted \in BOOLEAN :
        Fails(fatal, accepted) \/ FailsUnlessSignalled(fatal, accepted)
          \/ OnFailure(turn.revision, fatal) => Kept
  BY FailureAborts
<1>5. UNCHANGED aborted => Kept
  OBVIOUS
<1>6. {"threading", "checking", "starting", "dispatched", "working", "auditing",
       "validating", "applying", "settling", "cleaning", "forgetting"}
        \subseteq Stages \ {"none"}
  BY DEF Stages
<1>7. \A outcome : Over(outcome) => Leaves
  BY OverMoves
<1> HIDE DEF Kept, Leaves, OnTo
<1>8. CASE Prepared \/ Checked \/ Journaled \/ ThreadDeleted
  BY <1>1, <1>5, <1>6, <1>8 DEF Prepared, Checked, Journaled, ThreadDeleted, At, supervisor
<1>9. CASE TurnInterrupted
  BY <1>2, <1>5, <1>9, OutcomeFacts DEF TurnInterrupted, At, supervisor
<1>10. CASE TurnAnswered
  BY <1>1, <1>2, <1>5, <1>6, <1>10, OutcomeFacts DEF TurnAnswered, At, Outside
<1>11. CASE TurnWorks \/ TurnCompletes
  BY <1>1, <1>5, <1>6, <1>11 DEF TurnWorks, TurnCompletes, At, Outside
<1>12. CASE Audited \/ Passed
  BY <1>1, <1>5, <1>6, <1>12 DEF Audited, Passed, At, Outside
<1>13. CASE NeedsReview \/ Applied
  BY <1>1, <1>5, <1>6, <1>13 DEF NeedsReview, Applied, At, Outside
<1>14. CASE \E accepted \in BOOLEAN : TurnUnproved(accepted)
  BY <1>2, <1>5, <1>14, OutcomeFacts DEF TurnUnproved, At, Outside
<1>15. CASE TurnRejected
  BY <1>2, <1>4, <1>5, <1>15, OutcomeFacts DEF TurnRejected, At, Outside
<1>16. CASE (\E accepted \in BOOLEAN : TurnFails(accepted)) \/ Settled
  BY <1>2, <1>5, <1>16, OutcomeFacts DEF TurnFails, Settled, At, Outside
<1>17. CASE ThreadStarts
  <2>1. FreshThread \in Threads
    BY <1>17 DEF ThreadStarts, FreshThread, FreshThreads
  <2> QED BY <1>3, <1>5, <1>17, <2>1 DEF ThreadStarts, At, supervisor
<1>18. CASE ThreadIsLost
  BY <1>4, <1>7, <1>18 DEF ThreadIsLost, At, Outside
<1>19. CASE \E accepted \in BOOLEAN : PrepareFails(accepted)
  BY <1>4, <1>7, <1>19 DEF PrepareFails, At, Outside
<1>20. CASE \E fatal, accepted \in BOOLEAN : ThreadRefused(fatal, accepted)
  BY <1>4, <1>7, <1>20 DEF ThreadRefused, At, Outside
<1>21. CASE \E accepted \in BOOLEAN : JournalFails(accepted)
  BY <1>2, <1>4, <1>21, OutcomeFacts DEF JournalFails, FailsBeforeTurn, At, Outside
<1>22. CASE \E fatal, accepted \in BOOLEAN : ChecksFail(fatal, accepted)
  BY <1>2, <1>4, <1>22, OutcomeFacts DEF ChecksFail, FailsBeforeTurn, At, Outside
<1>23. CASE \E accepted \in BOOLEAN : CompletionFails(accepted) \/ ResultIsUnreadable(accepted)
  BY <1>2, <1>4, <1>23, OutcomeFacts DEF CompletionFails, ResultIsUnreadable, At, Outside
<1>24. CASE ThreadForgotten \/ CleanupSkipped
  BY <1>5, <1>7, <1>24 DEF ThreadForgotten, CleanupSkipped, DeliverEnds, At, supervisor
<1>25. CASE CleanupFails
  BY <1>7, <1>25 DEF CleanupFails, OnCleanupWarning, DeliverEnds, At, Outside, Kept
<1> QED BY <1>8, <1>9, <1>10, <1>11, <1>12, <1>13, <1>14, <1>15, <1>16, <1>17, <1>18, <1>19,
          <1>20, <1>21, <1>22, <1>23, <1>24, <1>25 DEF TurnStep, Reports

-----------------------------------------------------------------------------
(* The run of the pump, and the queue again.                               *)

(* An operation takes its place at the head of the queue, and starts a run *)
(* only for a connection that nobody has aborted.                          *)
LEMMA OperationStepMoves ==
  ASSUME QueueFits, RunFits, OperationStep
  PROVE  QueueMoves /\ RunFits'
<1> DEFINE InQueue == /\ queue # <<>> /\ UNCHANGED disposed
                      /\ \/ /\ step' \in {"stopping", "opening", "touching"}
                            /\ UNCHANGED <<queue, records>>
                         \/ /\ EndOperation
                            /\ records' = records \/ (disposed /\ records' = <<>>)
           Waits == UNCHANGED <<queue, step, records, disposed>>
           Pumps == /\ UNCHANGED <<run, turn, leaseLost>>
                    /\ closed' \in BOOLEAN /\ connected' \in BOOLEAN /\ aborted' \in BOOLEAN
                    /\ connected' => step' = "start"
                    /\ ~connected' /\ step' # "stopping" => run' = "none"
                    /\ step' \in {"opening", "touching"} => ~aborted'
<1>1. /\ connected \in BOOLEAN /\ aborted \in BOOLEAN /\ closed \in BOOLEAN
      /\ connected => step = "start"
      /\ ~connected /\ step # "stopping" => run = "none"
      /\ step \in {"opening", "touching"} => ~aborted
  BY DEF RunFits
<1>2. Pumps => RunFits'
  BY DEF RunFits
<1>3. InQueue \/ Waits => QueueMoves
  BY DEF QueueMoves
<1>4. SUFFICES (InQueue \/ Waits) /\ (Pumps \/ RunFits')
  BY <1>2, <1>3
<1>5. CASE ConnectReturns /\ Quiet
  BY <1>1, <1>5 DEF ConnectReturns, Quiet, connection, Runs, EndOperation
<1>6. CASE ConnectSwitches /\ Quiet
  BY <1>1, <1>6 DEF ConnectSwitches, StopConnection, Quiet, connection, Runs
<1>7. CASE ConnectAuthorizes(Stopped) /\ Quiet
  BY <1>1, <1>7 DEF ConnectAuthorizes, Stopped, Quiet, connection, Runs, EndOperation
<1>8. CASE DisconnectBegins /\ Quiet
  BY <1>1, <1>8 DEF DisconnectBegins, StopConnection, Quiet, connection
<1>9. ASSUME Stopped /\ StopEnds, Revokes \/ Quiet
      PROVE  InQueue /\ Pumps
  <2>1. UNCHANGED <<run, turn, leaseLost, closed>>
    BY <1>9 DEF Revokes, Quiet, connection
  <2>2. CASE DisconnectEnds \/ CancelEnds
    BY <1>1, <1>9, <2>1, <2>2 DEF DisconnectEnds, CancelEnds, Stopped, Runs, EndOperation
  <2>3. CASE DisposeEnds
    <3>1. disposed
      BY <2>3, DisposeIsLast
    <3> QED BY <1>1, <1>9, <2>1, <2>3, <3>1 DEF DisposeEnds, Stopped, Runs, EndOperation
  <2> QED BY <1>9, <2>2, <2>3 DEF StopEnds
<1>10. CASE CancelRefused /\ Quiet
  BY <1>1, <1>10 DEF CancelRefused, Quiet, connection, Runs, EndOperation
<1>11. CASE CancelBegins /\ Quiet
  BY <1>1, <1>11 DEF CancelBegins, StopConnection, Quiet, connection, Runs
<1>12. CASE DisposeBegins /\ Quiet
  BY <1>1, <1>12 DEF DisposeBegins, StopConnection, Quiet, connection, Runs
<1>13. CASE OpenServer
  BY <1>1, <1>13 DEF OpenServer, supervisor
<1>14. CASE \E t \in Threads : RecoverThread(t)
  BY <1>1, <1>14 DEF RecoverThread, supervisor, connection
<1>15. CASE OpenEnds
  BY <1>1, <1>15 DEF OpenEnds, Opening, Runs, connection
<1>16. CASE OpenFails
  BY <1>1, <1>16 DEF OpenFails, ConnectFails, Opening, Runs, EndOperation
<1>17. CASE Untouched
  BY <1>1, <1>17 DEF Untouched, TouchFails, ConnectFails, Runs, EndOperation
<1>18. CASE Connected
  <2>1. InQueue /\ step = "touching" /\ run = "none" /\ ~aborted
    BY <1>1, <1>18 DEF Connected, ConnectEnds, Runs, EndOperation
  <2>2. /\ run' = "claiming" /\ step' = "start" /\ connected' = TRUE
        /\ UNCHANGED <<leaseLost, closed, turn, aborted>>
    BY <1>18 DEF Connected, ConnectEnds, EndOperation
  <2> QED BY <2>1, <2>2 DEF RunFits, Runnings
<1> QED
  BY <1>5, <1>6, <1>7, <1>8, <1>9, <1>10, <1>11, <1>12, <1>13, <1>14, <1>15,
     <1>16, <1>17, <1>18 DEF OperationStep

(* The pump leaves the queue alone; the turn begins with its delivery.     *)
LEMMA PumpStepMoves ==
  ASSUME RunFits, published \in 0 .. MaxRevisions, PumpStep
  PROVE  RunFits' /\ UNCHANGED <<queue, step, records, disposed>>
<1>1. /\ run \in Runnings /\ {"claiming", "waiting", "delivering", "reporting"} \subseteq Runnings
      /\ turn \in Turn /\ (turn.stage # "none" <=> run = "delivering")
      /\ leaseLost \in BOOLEAN /\ closed \in BOOLEAN
      /\ connected \in BOOLEAN /\ aborted \in BOOLEAN
      /\ connected => step = "start"
      /\ ~connected /\ step # "stopping" => run = "none"
      /\ step \in {"opening", "touching"} => ~aborted
  BY DEF RunFits, Runnings
<1>2. CASE Claim
  BY <1>1, <1>2 DEF Claim, Outside, RunFits
<1>3. CASE LeaseLost
  BY <1>1, <1>3 DEF LeaseLost, supervisor, RunFits
<1>4. CASE Skip
  BY <1>1, <1>4 DEF Skip, Take, Outside, RunFits
<1>5. CASE Deliver
  <2>1. turn' = [NoTurn EXCEPT !.stage = "preparing", !.revision = published + 1]
    BY <1>5 DEF Deliver
  <2>2. "preparing" \in Stages /\ published + 1 \in 0 .. MaxRevisions
    <3>1. published < MaxRevisions /\ MaxRevisions \in Nat
      BY <1>5, ManagedAssumption DEF Deliver, Take
    <3> QED BY <3>1 DEF Stages
  <2>3. turn' \in Turn /\ turn'.stage # "none"
    BY <2>1, <2>2, NoTurnFacts DEF Turn
  <2> QED BY <1>1, <1>5, <2>3 DEF Deliver, Take, Outside, RunFits
<1>6. CASE DeliverToNobody
  BY <1>1, <1>6 DEF DeliverToNobody, Take, Outside, RunFits
<1>7. CASE RunEnds
  BY <1>1, <1>7 DEF RunEnds, RunSettles, RunFits, Runnings
<1>8. CASE ServerFails
  BY <1>1, <1>8 DEF ServerFails, supervisor, RunFits
<1> QED BY <1>2, <1>3, <1>4, <1>5, <1>6, <1>7, <1>8 DEF PumpStep

(* What the queue and the run are at the start, and again after a restart. *)
LEMMA StartOfRun ==
  ASSUME connected' = FALSE, aborted' = FALSE, step' = "start", run' = "none",
         leaseLost' = FALSE, closed' = TRUE, turn' = NoTurn
  PROVE  RunFits'
BY NoTurnFacts DEF RunFits, Runnings

(* No step but an operation's own takes it from the queue, and a run is    *)
(* never left behind by the connection it was started for.                 *)
LEMMA StepOfRun ==
  ASSUME QueueFits, RunFits, published \in 0 .. MaxRevisions, [Next]_vars
  PROVE  QueueMoves /\ RunFits'
<1>1. CASE UNCHANGED vars
  BY <1>1 DEF vars, supervisor, connection, QueueMoves, RunFits
<1>2. CASE Restart
  BY <1>2, StartOfRun DEF Restart, Started, QueueMoves
<1>3. CASE FailedRevocation
  <2>1. UNCHANGED <<connected, aborted, disposed, records, run, turn, leaseLost, closed>>
    BY <1>3 DEF FailedRevocation, RevokeFails, Quiet, Revokes, connection
  <2> QED BY <1>3, <2>1 DEF FailedRevocation, RevokeFails, Runs, EndOperation, Stopped,
                            QueueMoves, RunFits
<1>4. CASE (\E r \in Requests : Accept(r)) /\ Quiet
  BY <1>4 DEF Accept, Quiet, connection, QueueMoves, RunFits
<1>5. CASE Dispose /\ Quiet
  BY <1>5 DEF Dispose, Quiet, connection, QueueMoves, RunFits
<1>6. CASE GrantGiven /\ Quiet
  BY <1>6 DEF GrantGiven, Quiet, connection, QueueMoves, RunFits
<1>7. CASE OperationStep
  BY <1>7, OperationStepMoves
<1>8. CASE TurnStep
  <2>1. TurnMoves \/ Reports
    BY <1>8, TurnStepMoves DEF RunFits
  <2>2. CASE TurnMoves
    <3>1. Afterwards \subseteq Runnings /\ "delivering" \notin Afterwards
      BY DEF Afterwards, Runnings
    <3>2. RunFits'
      BY <2>2, <3>1, NoTurnFacts DEF TurnMoves, RunFits
    <3> QED BY <2>2, <3>2 DEF TurnMoves, QueueMoves
  <2>3. CASE Reports
    <3>1. /\ UNCHANGED <<connected, aborted, disposed, queue, step, records, closed, turn>>
          /\ run = "reporting" /\ run' \in {"claiming", "ending"} /\ leaseLost' = FALSE
      BY <2>3 DEF Reports, ReportEnds, AfterDelivery, Outside
    <3> QED BY <3>1 DEF QueueMoves, RunFits, Runnings
  <2> QED BY <2>1, <2>2, <2>3
<1>9. CASE PumpStep
  BY <1>9, PumpStepMoves DEF QueueMoves
<1>10. CASE (\E i \in DOMAIN results : GetResult(i)) /\ Quiet
  BY <1>10 DEF GetResult, Quiet, connection, QueueMoves, RunFits
<1> QED
  BY <1>1, <1>2, <1>3, <1>4, <1>5, <1>6, <1>7, <1>8, <1>9, <1>10 DEF Next, Goes, Steps

-----------------------------------------------------------------------------
(* The results.                                                            *)

(* Where the results that are kept have their places after one is added:   *)
(* all have moved on by one, when the first was dropped, or none.          *)
Added(S, kept, s, e, n, dropped) ==
  /\ dropped \in {0, 1} /\ (dropped = 1 => Len(s) = n)
  /\ kept \in Seq(S) /\ Len(kept) = Len(s) + 1 - dropped /\ Len(kept) <= n
  /\ Len(kept) >= 1 /\ kept[Len(kept)] = e
  /\ \A i \in 1 .. Len(kept) : i # Len(kept) =>
       i + dropped \in 1 .. Len(s) /\ kept[i] = s[i + dropped]

(* A new element comes last, and the first makes room for it.              *)
LEMMA NewestIsAdded ==
  ASSUME NEW S, NEW s \in Seq(S), NEW e \in S, NEW n \in Nat \ {0}, Len(s) <= n
  PROVE  \E dropped : Added(S, Newest(Append(s, e), n), s, e, n, dropped)
<1>1. /\ Append(s, e) \in Seq(S) /\ Len(Append(s, e)) = Len(s) + 1 /\ Len(s) \in Nat
      /\ \A i \in 1 .. Len(s) : Append(s, e)[i] = s[i]
      /\ Append(s, e)[Len(s) + 1] = e
  BY AppendProperties, LenProperties
<1>2. CASE Len(s) # n
  <2>1. Newest(Append(s, e), n) = Append(s, e)
    BY <1>1, <1>2 DEF Newest
  <2>2. \A i \in 1 .. Len(s) + 1 : i # Len(s) + 1 => i + 0 \in 1 .. Len(s) /\ i + 0 = i
    BY <1>1
  <2>3. Len(s) + 1 - 0 = Len(s) + 1 /\ Len(s) + 1 <= n /\ Len(s) + 1 >= 1
    BY <1>1, <1>2
  <2>4. Added(S, Append(s, e), s, e, n, 0)
    BY <1>1, <2>2, <2>3 DEF Added
  <2> QED BY <2>1, <2>4
<1>3. CASE Len(s) = n
  <2> DEFINE kept == Newest(Append(s, e), n)
  <2>1. Pushed(S, kept, s, e, n)
    BY <1>3, NewestIsSuffix, Zenon
  <2> HIDE DEF kept
  <2>2. \A i \in 1 .. n : i # n => i + 1 \in 1 .. n
    OBVIOUS
  <2>3. n + 1 - 1 = n /\ n <= n /\ n >= 1
    OBVIOUS
  <2>4. Added(S, kept, s, e, n, 1)
    BY <1>3, <2>1, <2>2, <2>3 DEF Added, Pushed
  <2> QED BY <2>4 DEF kept
<1> QED BY <1>2, <1>3

(* A result that is remembered is kept, and no other is dropped before as  *)
(* many were stored after it as are kept.                                  *)
LEMMA RememberKeeps ==
  ASSUME MemoryFits, NEW p \in 1 .. MaxRevisions, Remember(p)
  PROVE  /\ MemoryFits' /\ expired' = expired /\ Known(p)'
         /\ \A r : Known(r) => Known(r)'
<1> DEFINE n == Len(results)
           m == Len(remembered)
<1>1. /\ results \in Seq(1 .. MaxRevisions) /\ n <= MaxResults
      /\ remembered \in Seq(1 .. MaxRevisions) /\ expired \subseteq 1 .. MaxRevisions
      /\ Range(results) \subseteq Range(remembered)
      /\ \A i \in DOMAIN results, j \in DOMAIN remembered :
           remembered[j] = results[i] => m - j >= n - i
  BY DEF MemoryFits
<1>2. /\ n \in Nat /\ DOMAIN results = 1 .. n /\ m \in Nat /\ DOMAIN remembered = 1 .. m
      /\ MaxResults \in Nat \ {0}
  BY <1>1, LenProperties, ManagedAssumption
<1>3. CASE p \in Range(results)
  <2>1. UNCHANGED <<results, expired, remembered>>
    BY <1>3 DEF Remember, memory
  <2>2. Known(p)
    BY <1>1, <1>3 DEF Known, Range
  <2> QED BY <1>1, <2>1, <2>2 DEF MemoryFits, Known
<1>4. CASE p \notin Range(results)
  <2>1. /\ results' = Newest(Append(results, p), MaxResults)
        /\ remembered' = Append(remembered, p) /\ expired' = expired
    BY <1>4 DEF Remember
  <2>2. PICK dropped : Added(1 .. MaxRevisions, results', results, p, MaxResults, dropped)
    <3>1. \E dropped : Added(1 .. MaxRevisions, Newest(Append(results, p), MaxResults), results,
                             p, MaxResults, dropped)
      BY <1>1, <1>2, NewestIsAdded, Zenon
    <3> QED BY <2>1, <3>1
  <2> DEFINE last == Len(results')
  <2>3. /\ dropped \in {0, 1} /\ (dropped = 1 => n = MaxResults)
        /\ results' \in Seq(1 .. MaxRevisions) /\ last = n + 1 - dropped /\ last <= MaxResults
        /\ last >= 1 /\ results'[last] = p
        /\ \A i \in 1 .. last : i # last => i + dropped \in 1 .. n /\ results'[i] = results[i + dropped]
    BY <2>2 DEF Added
  <2>4. last \in Nat /\ DOMAIN results' = 1 .. last
    BY <2>3, LenProperties
  <2>5. /\ remembered' \in Seq(1 .. MaxRevisions) /\ Len(remembered') = m + 1
        /\ \A j \in 1 .. m : remembered'[j] = remembered[j]
        /\ remembered'[m + 1] = p
    BY <1>1, <2>1, AppendProperties
  <2>6. DOMAIN remembered' = 1 .. m + 1
    BY <2>5, LenProperties
  <2> HIDE DEF last, n, m
  <2>7. ASSUME NEW i \in 1 .. last, i # last
        PROVE  /\ i + dropped \in 1 .. n /\ results'[i] = results[i + dropped]
               /\ results'[i] \in Range(results) /\ results'[i] # p
               /\ last - i = n - (i + dropped) + 1
    <3>1. i + dropped \in 1 .. n /\ results'[i] = results[i + dropped]
      BY <2>3, <2>7
    <3>2. results'[i] \in Range(results)
      BY <1>2, <3>1 DEF Range
    <3>3. last - i = n - (i + dropped) + 1
      BY <1>2, <2>3, <2>4, <3>1
    <3> QED BY <1>4, <3>1, <3>2, <3>3
  <2>8. Range(results') \subseteq Range(remembered')
    <3>1. Range(results') \subseteq Range(results) \cup {p}
      <4>1. \A i \in 1 .. last : results'[i] \in Range(results) \cup {p}
        BY <2>3, <2>7
      <4> QED BY <2>4, <4>1 DEF Range
    <3>2. Range(remembered) \cup {p} \subseteq Range(remembered')
      <4>1. \A j \in 1 .. m : j \in 1 .. m + 1
        BY <1>2
      <4>2. m + 1 \in 1 .. m + 1
        BY <1>2
      <4> QED BY <1>2, <2>5, <2>6, <4>1, <4>2 DEF Range
    <3> QED BY <1>1, <3>1, <3>2
  <2>9. ASSUME NEW i \in 1 .. last, NEW j \in 1 .. m + 1, remembered'[j] = results'[i]
        PROVE  (m + 1) - j >= last - i
    <3>1. CASE i = last
      BY <1>2, <2>4, <3>1
    <3>2. CASE i # last
      <4>1. j \in 1 .. m
        <5>1. j # m + 1
          BY <2>5, <2>7, <2>9, <3>2
        <5> QED BY <1>2, <5>1
      <4>2. m - j >= n - (i + dropped)
        BY <1>1, <1>2, <2>5, <2>7, <2>9, <3>2, <4>1
      <4>3. last - i = n - (i + dropped) + 1 /\ i + dropped \in 1 .. n
        BY <2>7, <3>2
      <4> QED BY ONLY <1>2, <2>4, <4>1, <4>2, <4>3
    <3> QED BY <3>1, <3>2
  <2>10. MemoryFits'
    BY <1>1, <2>1, <2>3, <2>4, <2>5, <2>6, <2>8, <2>9 DEF MemoryFits, last
  <2>11. p \in Range(results')
    <3>1. last \in 1 .. last
      BY <2>3, <2>4
    <3> QED BY <2>3, <2>4, <3>1 DEF Range
  <2>12. Known(p)'
    <3>1. m + 1 \in 1 .. m + 1
      BY <1>2
    <3> QED BY <2>5, <2>6, <2>11, <3>1 DEF Known
  <2>13. ASSUME NEW r, Known(r) PROVE Known(r)'
    <3>1. PICK j \in 1 .. m : remembered[j] = r /\ (j > m - MaxResults => r \in Range(results))
      BY <1>2, <2>13 DEF Known, m
    <3>2. j \in 1 .. m + 1 /\ remembered'[j] = r
      BY <1>2, <2>5, <3>1
    <3>3. ASSUME j > (m + 1) - MaxResults PROVE r \in Range(results')
      <4>1. j > m - MaxResults
        BY <1>2, <3>1, <3>3
      <4>2. PICK k \in 1 .. n : results[k] = r
        BY <1>2, <3>1, <4>1 DEF Range
      <4>3. m - j >= n - k
        BY <1>1, <1>2, <3>1, <4>2
      <4>4. k - dropped \in 1 .. last /\ k - dropped # last /\ (k - dropped) + dropped = k
        <5>1. k # dropped
          <6>1. dropped = 1 => k > 1
            BY <1>2, <2>3, <3>1, <3>3, <4>2, <4>3
          <6> QED BY <2>3, <4>2, <6>1
        <5> QED BY <1>2, <2>3, <2>4, <4>2, <5>1
      <4>5. results'[k - dropped] = r
        BY <2>7, <4>2, <4>4
      <4> QED BY <2>4, <4>4, <4>5 DEF Range
    <3> QED BY <2>5, <2>6, <3>2, <3>3 DEF Known
  <2> QED BY <2>1, <2>10, <2>12, <2>13
<1> QED BY <1>3, <1>4

(* Without one of its elements a sequence is the others in their order.    *)
LEMMA Removed ==
  ASSUME NEW S, NEW s \in Seq(S), NEW i \in 1 .. Len(s)
  PROVE  /\ RemoveAt(s, i) \in Seq(S) /\ Len(RemoveAt(s, i)) = Len(s) - 1
         /\ \A k \in 1 .. Len(s) - 1 : RemoveAt(s, i)[k] = IF k < i THEN s[k] ELSE s[k + 1]
<1> DEFINE n == Len(s)
           before == SubSeq(s, 1, i - 1)
           after == SubSeq(s, i + 1, n)
<1>1. n \in Nat /\ i \in 1 .. n /\ \A k \in 1 .. n : s[k] \in S
  BY LenProperties, ElementOfSeq
<1>2. /\ before \in Seq(S) /\ Len(before) = i - 1
      /\ \A k \in 1 .. i - 1 : before[k] = s[k]
  <2>1. /\ before \in Seq(S) /\ Len(before) = IF 1 <= i - 1 THEN i - 1 - 1 + 1 ELSE 0
        /\ \A k \in 1 .. i - 1 - 1 + 1 : before[k] = s[1 + k - 1]
    <3>1. 1 \in Int /\ i - 1 \in Int /\ \A k \in 1 .. i - 1 : s[k] \in S
      BY <1>1
    <3> QED BY <3>1, SubSeqProperties
  <2> HIDE DEF before, n
  <2> QED BY <1>1, <2>1
<1>3. /\ after \in Seq(S) /\ Len(after) = n - i
      /\ \A k \in 1 .. n - i : after[k] = s[i + k]
  <2>1. /\ after \in Seq(S) /\ Len(after) = IF i + 1 <= n THEN n - (i + 1) + 1 ELSE 0
        /\ \A k \in 1 .. n - (i + 1) + 1 : after[k] = s[i + 1 + k - 1]
    <3>1. i + 1 \in Int /\ n \in Int /\ \A k \in i + 1 .. n : s[k] \in S
      BY <1>1
    <3> HIDE DEF n
    <3> QED BY <3>1, SubSeqProperties
  <2> HIDE DEF after, n
  <2> QED BY <1>1, <2>1
<1>4. RemoveAt(s, i) = before \o after
  BY DEF RemoveAt
<1> HIDE DEF before, after, n
<1>5. /\ before \o after \in Seq(S) /\ Len(before \o after) = Len(before) + Len(after)
      /\ \A k \in 1 .. Len(before) + Len(after) : (before \o after)[k] =
           IF k <= Len(before) THEN before[k] ELSE after[k - Len(before)]
  BY <1>2, <1>3, ConcatProperties
<1>6. Len(before) + Len(after) = n - 1
  BY <1>1, <1>2, <1>3
<1>7. ASSUME NEW k \in 1 .. n - 1
      PROVE  (before \o after)[k] = IF k < i THEN s[k] ELSE s[k + 1]
  <2>1. CASE k < i
    <3>1. k \in 1 .. i - 1 /\ k <= i - 1
      BY <1>1, <2>1
    <3> QED BY <1>2, <1>5, <1>6, <2>1, <3>1
  <2>2. CASE ~(k < i)
    <3>1. ~(k <= i - 1) /\ k - (i - 1) \in 1 .. n - i /\ i + (k - (i - 1)) = k + 1
      BY <1>1, <2>2
    <3> QED BY <1>2, <1>3, <1>5, <1>6, <2>2, <3>1
  <2> QED BY <2>1, <2>2
<1> QED BY <1>4, <1>5, <1>6, <1>7 DEF n

(* When a result expires, the others are kept as they were.                *)
LEMMA GetResultKeeps ==
  ASSUME MemoryFits, NEW e \in DOMAIN results, GetResult(e)
  PROVE  /\ MemoryFits' /\ remembered' = remembered
         /\ expired' = expired \cup {results[e]}
         /\ Range(results') \subseteq Range(results)
         /\ Range(results) \ expired' \subseteq Range(results')
         /\ \A r : Known(r) /\ r \notin expired' => Known(r)'
<1> DEFINE n == Len(results)
           m == Len(remembered)
<1>1. /\ results \in Seq(1 .. MaxRevisions) /\ n <= MaxResults
      /\ remembered \in Seq(1 .. MaxRevisions) /\ expired \subseteq 1 .. MaxRevisions
      /\ Range(results) \subseteq Range(remembered)
      /\ \A i \in DOMAIN results, j \in DOMAIN remembered :
           remembered[j] = results[i] => m - j >= n - i
  BY DEF MemoryFits
<1>2. /\ n \in Nat /\ DOMAIN results = 1 .. n /\ m \in Nat /\ DOMAIN remembered = 1 .. m
      /\ MaxResults \in Nat /\ \A k \in 1 .. n : results[k] \in 1 .. MaxRevisions
  BY <1>1, LenProperties, ElementOfSeq, ManagedAssumption
<1>3. /\ results' = RemoveAt(results, e) /\ remembered' = remembered
      /\ expired' = expired \cup {results[e]}
  BY DEF GetResult
<1>4. /\ results' \in Seq(1 .. MaxRevisions) /\ Len(results') = n - 1
      /\ \A k \in 1 .. n - 1 : results'[k] = IF k < e THEN results[k] ELSE results[k + 1]
  BY <1>1, <1>2, <1>3, Removed
<1>5. DOMAIN results' = 1 .. n - 1
  BY <1>4, LenProperties
<1> HIDE DEF n, m
<1>6. ASSUME NEW k \in 1 .. n - 1
      PROVE  \E i \in 1 .. n : results'[k] = results[i] /\ n - i >= (n - 1) - k
  <2>1. CASE k < e
    <3>1. k \in 1 .. n /\ n - k >= (n - 1) - k
      BY <1>2
    <3> QED BY <1>4, <2>1, <3>1
  <2>2. CASE ~(k < e)
    <3>1. k + 1 \in 1 .. n /\ n - (k + 1) >= (n - 1) - k
      BY <1>2
    <3> QED BY <1>4, <2>2, <3>1
  <2> QED BY <2>1, <2>2
<1>7. Range(results') \subseteq Range(results)
  BY <1>2, <1>5, <1>6 DEF Range
<1>8. ASSUME NEW i \in 1 .. n, results[i] # results[e]
      PROVE  results[i] \in Range(results')
  <2>1. i # e /\ e \in 1 .. n
    BY <1>2, <1>8
  <2>2. CASE i < e
    <3>1. i \in 1 .. n - 1
      BY <1>2, <2>1, <2>2
    <3> QED BY <1>4, <1>5, <2>2, <3>1 DEF Range
  <2>3. CASE i > e
    <3>1. i - 1 \in 1 .. n - 1 /\ ~(i - 1 < e) /\ (i - 1) + 1 = i
      BY <1>2, <2>1, <2>3
    <3> QED BY <1>4, <1>5, <3>1 DEF Range
  <2> QED BY <1>2, <2>1, <2>2, <2>3
<1>9. Range(results) \ expired' \subseteq Range(results')
  BY <1>2, <1>3, <1>8 DEF Range
<1>10. ASSUME NEW k \in 1 .. n - 1, NEW j \in 1 .. m, remembered[j] = results'[k]
       PROVE  m - j >= (n - 1) - k
  <2>1. PICK i \in 1 .. n : results'[k] = results[i] /\ n - i >= (n - 1) - k
    BY <1>6
  <2>2. m - j >= n - i
    BY <1>1, <1>2, <1>10, <2>1
  <2> QED BY <1>2, <2>1, <2>2
<1>11. MemoryFits'
  <2>1. n - 1 <= MaxResults
    BY <1>1, <1>2
  <2>2. expired' \subseteq 1 .. MaxRevisions
    BY <1>1, <1>2, <1>3
  <2> QED BY <1>1, <1>2, <1>3, <1>4, <1>5, <1>7, <1>10, <2>1, <2>2 DEF MemoryFits, m
<1>12. \A r : Known(r) /\ r \notin expired' => Known(r)'
  BY <1>3, <1>9 DEF Known
<1> QED BY <1>3, <1>7, <1>9, <1>11, <1>12

(* What is known of the revision in work, once it has a result or cannot   *)
(* have one.                                                               *)
LEMMA ResultIsKept ==
  ASSUME ResultsFit, turn.stage # "none", UNCHANGED <<run, published, disposed>>,
         turn'.stage # "none" => turn'.revision = turn.revision,
         \/ Remember(turn.revision) /\ UNCHANGED unreadable
         \/ UNCHANGED memory /\ unreadable' = unreadable \cup {turn.revision},
         applied' = applied \cup {turn.revision} \/ UNCHANGED <<applied, unreadable>>
  PROVE  ResultsFit'
<1>1. /\ published \in 0 .. MaxRevisions /\ published >= 1 /\ turn.revision = published
      /\ applied \subseteq 1 .. published /\ unreadable \subseteq applied
      /\ MemoryFits
      /\ ~disposed => \A r \in applied \ (expired \cup unreadable) : Known(r)
  BY DEF ResultsFit, AppliedIsRemembered
<1>2. published \in 1 .. MaxRevisions /\ published \in 1 .. published
  BY <1>1, ManagedAssumption
<1>3. applied' \subseteq 1 .. published
  BY <1>1, <1>2
<1>4. unreadable' \subseteq applied'
  BY <1>1
<1>5. MemoryFits' /\ (~disposed => \A r \in applied' \ (expired' \cup unreadable') : Known(r)')
  <2>1. CASE Remember(turn.revision) /\ UNCHANGED unreadable
    <3>1. MemoryFits' /\ expired' = expired /\ Known(published)' /\ \A r : Known(r) => Known(r)'
      BY <1>1, <1>2, <2>1, RememberKeeps
    <3> QED BY <1>1, <2>1, <3>1
  <2>2. CASE UNCHANGED memory /\ unreadable' = unreadable \cup {turn.revision}
    <3>1. UNCHANGED <<results, expired, remembered>>
      BY <2>2 DEF memory
    <3>2. MemoryFits' /\ \A r : Known(r) => Known(r)'
      BY <1>1, <3>1 DEF MemoryFits, Known
    <3> QED BY <1>1, <2>2, <3>1, <3>2
  <2> QED BY <2>1, <2>2
<1> QED BY <1>1, <1>3, <1>4, <1>5 DEF ResultsFit, AppliedIsRemembered

(* What keeps the results as they are, or gives up all.                    *)
LEMMA ResultsStand ==
  ASSUME ResultsFit, published' \in 0 .. MaxRevisions,
         turn'.stage # "none" => turn'.revision = published' /\ published' >= 1,
         run' = "reporting" => published' >= 1,
         \/ UNCHANGED <<memory, project>> /\ (disposed => disposed') /\ published' >= published
         \/ /\ results' = <<>> /\ remembered' = <<>> /\ expired' = {}
            /\ \/ UNCHANGED <<project, published>> /\ disposed'
               \/ applied' = {} /\ unreadable' = {}
  PROVE  ResultsFit'
<1>1. /\ published \in 0 .. MaxRevisions /\ applied \subseteq 1 .. published
      /\ unreadable \subseteq applied /\ MemoryFits /\ AppliedIsRemembered
  BY DEF ResultsFit
<1>2. CASE UNCHANGED <<memory, project>> /\ (disposed => disposed') /\ published' >= published
  <2>1. UNCHANGED <<results, expired, remembered, applied, unreadable>>
    BY <1>2 DEF memory, project
  <2>2. MemoryFits' /\ AppliedIsRemembered'
    BY <1>1, <1>2, <2>1 DEF MemoryFits, AppliedIsRemembered, Known
  <2>3. applied \subseteq 1 .. published'
    BY <1>1, <1>2
  <2> QED BY <1>1, <2>1, <2>2, <2>3 DEF ResultsFit
<1>3. CASE /\ results' = <<>> /\ remembered' = <<>> /\ expired' = {}
           /\ \/ UNCHANGED <<project, published>> /\ disposed'
              \/ applied' = {} /\ unreadable' = {}
  <2>1. <<>> \in Seq(1 .. MaxRevisions) /\ Len(<<>>) = 0 /\ DOMAIN <<>> = {}
    BY EmptySeq
  <2>2. MemoryFits'
    <3>1. 0 <= MaxResults
      BY ManagedAssumption
    <3> QED BY <1>3, <2>1, <3>1 DEF MemoryFits, Range
  <2>3. AppliedIsRemembered'
    BY <1>3 DEF AppliedIsRemembered
  <2> QED BY <1>1, <1>3, <2>2, <2>3 DEF ResultsFit, project
<1> QED BY <1>2, <1>3

(* Of the steps of a delivery, three have a result or lose one.            *)
LEMMA TurnResults ==
  ASSUME TurnStep
  PROVE  \/ NeedsReview \/ Applied \/ (\E accepted \in BOOLEAN : ResultIsUnreadable(accepted))
         \/ UNCHANGED <<memory, project>>
<1>1. CASE Prepared \/ ThreadStarts \/ Journaled \/ Checked \/ TurnInterrupted
           \/ ThreadDeleted \/ ThreadForgotten \/ CleanupSkipped
  BY <1>1 DEF Prepared, ThreadStarts, Journaled, Checked, TurnInterrupted, ThreadDeleted,
              ThreadForgotten, CleanupSkipped, supervisor
<1>2. CASE \E fatal, accepted \in BOOLEAN :
             PrepareFails(accepted) \/ ThreadRefused(fatal, accepted)
             \/ JournalFails(accepted) \/ ChecksFail(fatal, accepted)
             \/ TurnUnproved(accepted) \/ TurnFails(accepted) \/ CompletionFails(accepted)
             \/ ReportEnds(accepted)
  BY <1>2 DEF PrepareFails, ThreadRefused, JournalFails, ChecksFail, TurnUnproved, TurnFails,
              CompletionFails, ReportEnds
<1>3. CASE ThreadIsLost \/ TurnAnswered \/ TurnRejected \/ TurnWorks
  BY <1>3 DEF ThreadIsLost, TurnAnswered, TurnRejected, TurnWorks
<1>4. CASE TurnCompletes \/ Audited \/ Passed \/ Settled \/ CleanupFails
  BY <1>4 DEF TurnCompletes, Audited, Passed, Settled, CleanupFails
<1> QED BY <1>1, <1>2, <1>3, <1>4 DEF TurnStep

(* Every step keeps what is known of applied changes.                      *)
LEMMA StepOfResults ==
  ASSUME QueueFits, RunFits, ResultsFit, [Next]_vars
  PROVE  ResultsFit'
<1>1. /\ published \in 0 .. MaxRevisions /\ published >= published
      /\ turn.stage # "none" => turn.revision = published /\ published >= 1
      /\ run = "reporting" => published >= 1
  BY DEF ResultsFit
<1>2. ASSUME UNCHANGED <<memory, project, published, turn>>, disposed => disposed',
             run' = run \/ run' # "reporting"
      PROVE  ResultsFit'
  BY <1>1, <1>2, ResultsStand
<1>3. CASE UNCHANGED vars
  BY <1>2, <1>3 DEF vars, supervisor, connection
<1>4. CASE Restart
  <2>1. /\ results' = <<>> /\ remembered' = <<>> /\ expired' = {}
        /\ applied' = {} /\ unreadable' = {} /\ published' = 0 /\ turn' = NoTurn /\ run' = "none"
    BY <1>4 DEF Restart, Started
  <2>2. published' \in 0 .. MaxRevisions
    BY <2>1, ManagedAssumption
  <2> QED BY <2>1, <2>2, NoTurnFacts, ResultsStand
<1>5. CASE FailedRevocation
  BY <1>2, <1>5 DEF FailedRevocation, RevokeFails, Quiet, Revokes, connection
<1>6. CASE (\E r \in Requests : Accept(r)) /\ Quiet
  BY <1>2, <1>6 DEF Accept, Quiet, connection
<1>7. CASE Dispose /\ Quiet
  BY <1>2, <1>7 DEF Dispose, Quiet, connection
<1>8. CASE GrantGiven /\ Quiet
  BY <1>2, <1>8 DEF GrantGiven, Quiet, connection
<1>9. CASE OperationStep
  <2>1. ASSUME Stopped /\ StopEnds, Revokes \/ Quiet PROVE ResultsFit'
    <3>1. UNCHANGED <<project, published, turn, disposed, run>>
      BY <2>1 DEF Revokes, Quiet, connection, StopEnds, DisconnectEnds, CancelEnds, DisposeEnds
    <3>2. CASE DisconnectEnds \/ CancelEnds
      BY <1>2, <3>1, <3>2 DEF DisconnectEnds, CancelEnds
    <3>3. CASE DisposeEnds
      <4>1. results' = <<>> /\ remembered' = <<>> /\ expired' = {}
        BY <3>3 DEF DisposeEnds
      <4>2. disposed
        BY <3>3, DisposeIsLast
      <4> QED BY <1>1, <3>1, <4>1, <4>2, ResultsStand
    <3> QED BY <2>1, <3>2, <3>3 DEF StopEnds
  <2>2. CASE (ConnectReturns \/ ConnectSwitches \/ ConnectAuthorizes(Stopped)
              \/ DisconnectBegins \/ CancelRefused \/ CancelBegins \/ DisposeBegins) /\ Quiet
    BY <1>2, <2>2 DEF ConnectReturns, ConnectSwitches, ConnectAuthorizes, DisconnectBegins,
                      CancelRefused, CancelBegins, DisposeBegins, Quiet, connection
  <2>3. CASE OpenServer \/ (\E t \in Threads : RecoverThread(t)) \/ OpenEnds \/ OpenFails
             \/ Connected \/ Untouched
    BY <1>2, <2>3 DEF OpenServer, RecoverThread, OpenEnds, OpenFails, Connected, Untouched,
                      ConnectFails, ConnectEnds, TouchFails, supervisor, connection
  <2> QED BY <1>9, <2>1, <2>2, <2>3 DEF OperationStep
<1>10. CASE TurnStep
  <2>1. TurnMoves \/ Reports
    BY <1>10, TurnStepMoves DEF RunFits
  <2>2. CASE Reports
    <3>1. UNCHANGED <<memory, project, published, turn, disposed>> /\ run' # "reporting"
      BY <2>2 DEF Reports, ReportEnds, AfterDelivery, Outside
    <3> QED BY <1>2, <3>1
  <2>3. CASE TurnMoves
    <3>1. turn.stage # "none" /\ UNCHANGED <<published, disposed>>
          /\ (turn'.stage # "none" => turn'.revision = turn.revision)
      BY <2>3, NoTurnFacts DEF TurnMoves
    <3>2. CASE UNCHANGED <<memory, project>>
      BY <1>1, <3>1, <3>2, ResultsStand
    <3>3. CASE NeedsReview
      BY <3>1, <3>3, ResultIsKept DEF NeedsReview, OnResult, project
    <3>4. CASE Applied
      BY <3>1, <3>4, ResultIsKept DEF Applied, OnResult
    <3>5. CASE \E accepted \in BOOLEAN : ResultIsUnreadable(accepted)
      BY <3>1, <3>5, ResultIsKept DEF ResultIsUnreadable
    <3> QED BY <1>10, <3>2, <3>3, <3>4, <3>5, TurnResults
  <2> QED BY <2>1, <2>2, <2>3
<1>11. CASE PumpStep
  <2>1. UNCHANGED <<memory, project, disposed>>
    BY <1>11 DEF PumpStep, Claim, LeaseLost, Skip, Deliver, DeliverToNobody, RunEnds,
                 RunSettles, ServerFails, Outside, supervisor
  <2>2. CASE Claim \/ LeaseLost \/ RunEnds \/ ServerFails
    BY <1>2, <2>1, <2>2 DEF Claim, LeaseLost, RunEnds, RunSettles, ServerFails
  <2>3. CASE Skip \/ Deliver \/ DeliverToNobody
    <3>1. /\ run = "waiting" /\ published' = published + 1 /\ published' \in 0 .. MaxRevisions
          /\ published' >= published /\ published' >= 1
      <4>1. run = "waiting" /\ published < MaxRevisions /\ published' = published + 1
        BY <2>3 DEF Skip, Deliver, DeliverToNobody, Take
      <4> QED BY <1>1, <4>1, ManagedAssumption
    <3>2. turn'.stage # "none" => turn'.revision = published'
      <4>1. CASE Skip \/ DeliverToNobody
        BY <3>1, <4>1 DEF Skip, DeliverToNobody, RunFits
      <4>2. CASE Deliver
        <5>1. turn' = [NoTurn EXCEPT !.stage = "preparing", !.revision = published + 1]
          BY <4>2 DEF Deliver
        <5> QED BY <3>1, <5>1, NoTurnFacts DEF Turn
      <4> QED BY <2>3, <4>1, <4>2
    <3> QED BY <2>1, <3>1, <3>2, ResultsStand
  <2> QED BY <1>11, <2>2, <2>3 DEF PumpStep
<1>12. CASE (\E e \in DOMAIN results : GetResult(e)) /\ Quiet
  <2>1. PICK e \in DOMAIN results : GetResult(e)
    BY <1>12
  <2>2. UNCHANGED <<run, published, turn, applied, unreadable, disposed>>
    BY <1>12, <2>1 DEF GetResult, Quiet, connection, project
  <2>3. /\ MemoryFits' /\ expired \subseteq expired'
        /\ \A r : Known(r) /\ r \notin expired' => Known(r)'
    <3>1. MemoryFits
      BY DEF ResultsFit
    <3> QED BY <2>1, <3>1, GetResultKeeps
  <2>4. AppliedIsRemembered'
    BY <2>2, <2>3 DEF ResultsFit, AppliedIsRemembered
  <2> QED BY <1>1, <2>2, <2>3, <2>4 DEF ResultsFit
<1> QED
  BY <1>3, <1>4, <1>5, <1>6, <1>7, <1>8, <1>9, <1>10, <1>11, <1>12 DEF Next, Goes, Steps

-----------------------------------------------------------------------------
(* The threads.                                                            *)

(* A connection may begin a delivery.                                      *)
Ready ==
  step = "touching" \/ (run \in {"claiming", "waiting", "reporting"} /\ ~aborted /\ ~closed)

(* Nothing changes for the threads while the turn and the disk are the     *)
(* same and no connection comes into work.                                 *)
LEMMA ThreadsStand ==
  ASSUME ThreadsFit, UNCHANGED <<disk, turn>>, Ready' => Ready \/ journal = {}
  PROVE  ThreadsFit'
BY DEF ThreadsFit, ThreadsAreKnown, At, Ready, disk

(* A turn with its thread in the journal goes on, or to the end of it.     *)
LEMMA ThreadsKept ==
  ASSUME ThreadsFit, RunFits, UNCHANGED disk, UNCHANGED <<run, step>>,
         At(Recorded), turn'.stage \in Recorded \cup {"cleaning"}, turn'.thread = turn.thread
  PROVE  ThreadsFit'
<1>1. run = "delivering" /\ step # "touching"
  BY DEF RunFits, At, Recorded
<1>2. turn.thread \in Threads /\ journal = {turn.thread}
  BY DEF ThreadsFit, At, Recorded, Threadless
<1>3. ~At({"preparing", "threading", "journaling"})' /\ ~At({"forgetting"})'
  BY DEF At, Recorded
<1> QED BY <1>1, <1>2, <1>3 DEF ThreadsFit, ThreadsAreKnown, At, Recorded, disk

(* A turn ends with the disk as it is: nothing of it is left, or no other  *)
(* turn follows in this connection.                                        *)
LEMMA ThreadsLeft ==
  ASSUME ThreadsFit, RunFits, UNCHANGED disk, turn' = NoTurn, UNCHANGED step,
         turn.stage # "none", ~At({"journaling"}),
         At({"preparing", "threading"}) \/ aborted' \/ closed'
  PROVE  ThreadsFit'
<1>1. step # "touching"
  BY DEF RunFits
<1>2. turn'.stage = "none"
  BY NoTurnFacts
<1>3. Ready' => journal = {}
  BY <1>1 DEF Ready, ThreadsFit, At
<1> QED BY <1>2, <1>3 DEF ThreadsFit, ThreadsAreKnown, At, Recorded, Threadless, Ready, disk

(* A delivery creates its thread when the journal is empty, writes it down *)
(* before Codex works in it, and deletes it before its record.             *)
LEMMA TurnThreads ==
  ASSUME RunFits, ThreadsFit, TurnStep, TurnMoves
  PROVE  ThreadsFit'
<1>1. turn \in Turn /\ turn.stage # "none" /\ run = "delivering" /\ step # "touching"
      /\ UNCHANGED <<step, closed>>
  BY DEF TurnMoves, RunFits
<1>2. /\ threads \subseteq Threads /\ journal \subseteq Threads /\ strays \subseteq Threads
      /\ IsFiniteSet(journal) /\ Cardinality(journal) <= MaxJournal
  BY DEF ThreadsFit
<1>3. \A stage \in Stages : Go(stage) => turn'.stage = stage /\ turn'.thread = turn.thread
  BY <1>1, TurnGoes
<1>4. \A outcome \in Outcomes : Cleans(outcome) =>
        turn'.stage = "cleaning" /\ turn'.thread = turn.thread
  BY <1>1, TurnGoes
<1>5. Stages = Threadless \cup {"journaling"} \cup Recorded \cup {"cleaning", "forgetting"}
  BY DEF Stages, Threadless, Recorded
<1> DEFINE Leaves == turn' = NoTurn
<1>23. \A outcome : Over(outcome) => Leaves
  BY DEF Over
<1>6. CASE Prepared
  <2>1. turn'.stage = "threading" /\ journal = {} /\ UNCHANGED <<disk, run, aborted>>
    BY <1>3, <1>5, <1>6 DEF Prepared, At, supervisor, ThreadsFit, Threadless
  <2> QED BY <1>2, <1>6, <2>1 DEF Prepared, ThreadsFit, ThreadsAreKnown, At, Recorded, Threadless, disk
<1>7. CASE (\E accepted \in BOOLEAN : PrepareFails(accepted))
           \/ (\E fatal, accepted \in BOOLEAN : ThreadRefused(fatal, accepted))
  BY <1>1, <1>23, <1>7, ThreadsLeft DEF PrepareFails, ThreadRefused, At
<1>8. FreshThreads # {} => FreshThread \in Threads
  BY DEF FreshThread, FreshThreads
<1>9. CASE ThreadStarts
  <2>1. /\ threads' = threads \cup {FreshThread} /\ UNCHANGED <<journal, strays, run, step>>
        /\ turn'.stage = "journaling" /\ turn'.thread = FreshThread /\ FreshThread \in Threads
        /\ journal = {} /\ threads \subseteq journal \cup strays
    <3>1. /\ threads' = threads \cup {FreshThread} /\ UNCHANGED <<journal, strays, run>>
          /\ turn' = [turn EXCEPT !.stage = "journaling", !.thread = FreshThread]
          /\ FreshThread \in Threads /\ At({"threading"})
      BY <1>8, <1>9 DEF ThreadStarts
    <3>2. turn'.stage = "journaling" /\ turn'.thread = FreshThread
      BY <1>1, <3>1, TurnGoes
    <3> QED BY <1>1, <3>1, <3>2 DEF ThreadsFit, ThreadsAreKnown, At
  <2> HIDE DEF FreshThread
  <2> QED BY <1>1, <1>2, <2>1 DEF ThreadsFit, ThreadsAreKnown, At, Recorded, Threadless
<1>10. CASE ThreadIsLost
  <2>1. /\ threads' = threads \cup {FreshThread} /\ strays' = strays \cup {FreshThread}
        /\ UNCHANGED journal /\ turn'.stage = "none"
        /\ FreshThread \in Threads /\ At({"threading"})
    BY <1>8, <1>10, <1>23, NoTurnFacts DEF ThreadIsLost
  <2>2. journal = {}
    BY <2>1 DEF ThreadsFit, At
  <2> QED BY <1>1, <1>2, <2>1, <2>2 DEF ThreadsFit, ThreadsAreKnown, At, Recorded, Threadless
<1>11. CASE Journaled
  <2>1. /\ journal' = journal \cup {turn.thread} /\ UNCHANGED <<threads, strays, run>>
        /\ turn'.stage = "checking" /\ turn'.thread = turn.thread
        /\ At({"journaling"}) /\ Cardinality(journal) < MaxJournal
    BY <1>3, <1>5, <1>11 DEF Journaled, Recorded
  <2>2. journal = {} /\ turn.thread \in Threads /\ threads \subseteq strays \cup {turn.thread}
    BY <2>1 DEF ThreadsFit, ThreadsAreKnown, At, Threadless
  <2>3. journal' = {turn.thread}
    BY <2>1, <2>2
  <2>4. IsFiniteSet(journal') /\ Cardinality(journal') <= MaxJournal
    <3>1. Cardinality(journal) = 0 /\ Cardinality(journal') = 1 /\ IsFiniteSet(journal')
      BY <2>2, <2>3, FS_EmptySet, FS_Singleton
    <3>2. MaxJournal \in Nat
      BY ManagedAssumption
    <3> QED BY <2>1, <3>1, <3>2
  <2> QED BY <1>1, <1>2, <2>1, <2>2, <2>3, <2>4
          DEF ThreadsFit, ThreadsAreKnown, At, Recorded, Threadless
<1>12. CASE \E accepted \in BOOLEAN : JournalFails(accepted)
  <2>1. /\ turn'.stage = "cleaning" /\ turn'.thread = turn.thread
        /\ UNCHANGED <<journal, run>> /\ At({"journaling"})
        /\ \/ threads' = threads \ {turn.thread} /\ UNCHANGED strays
           \/ strays' = strays \cup {turn.thread} /\ UNCHANGED threads
    BY <1>4, <1>12, OutcomeFacts DEF JournalFails, FailsBeforeTurn
  <2>2. journal = {} /\ turn.thread \in Threads /\ threads \subseteq strays \cup {turn.thread}
    BY <2>1 DEF ThreadsFit, ThreadsAreKnown, At, Threadless
  <2> QED BY <1>1, <1>2, <2>1, <2>2 DEF ThreadsFit, ThreadsAreKnown, At, Recorded, Threadless
<1>13. ASSUME UNCHANGED <<disk, run>>, At(Recorded), turn'.thread = turn.thread,
              turn'.stage \in Recorded \cup {"cleaning"}
       PROVE  ThreadsFit'
  BY <1>1, <1>13, ThreadsKept
<1>14. CASE Checked
  BY <1>3, <1>5, <1>13, <1>14 DEF Checked, At, Recorded
<1>15. CASE TurnWorks \/ TurnCompletes \/ Audited \/ Passed \/ NeedsReview \/ Applied
  BY <1>3, <1>5, <1>13, <1>15 DEF TurnWorks, TurnCompletes, Audited, Passed, NeedsReview, Applied,
                                   At, Recorded
<1>16. CASE TurnAnswered
  BY <1>3, <1>4, <1>5, <1>13, <1>16, OutcomeFacts DEF TurnAnswered, At, Recorded
<1>17. CASE TurnInterrupted \/ TurnRejected \/ Settled
            \/ \E accepted \in BOOLEAN : TurnUnproved(accepted) \/ TurnFails(accepted)
  BY <1>4, <1>13, <1>17, OutcomeFacts DEF TurnInterrupted, TurnRejected, Settled, TurnUnproved,
                                          TurnFails, At, Recorded
<1>18. CASE (\E fatal, accepted \in BOOLEAN : ChecksFail(fatal, accepted))
            \/ (\E accepted \in BOOLEAN :
                  CompletionFails(accepted) \/ ResultIsUnreadable(accepted))
  BY <1>4, <1>13, <1>18, OutcomeFacts DEF ChecksFail, FailsBeforeTurn, CompletionFails,
                                          ResultIsUnreadable, At, Recorded
<1>19. CASE ThreadDeleted
  <2>1. /\ threads' = threads \ {turn.thread} /\ UNCHANGED <<journal, strays, run>>
        /\ turn'.stage = "forgetting" /\ turn'.thread = turn.thread /\ At({"cleaning"})
    BY <1>3, <1>5, <1>19 DEF ThreadDeleted
  <2> QED BY <1>1, <1>2, <2>1 DEF ThreadsFit, ThreadsAreKnown, At, Recorded, Threadless
<1>20. CASE ThreadForgotten
  <2>1. /\ journal' = journal \ {turn.thread} /\ UNCHANGED <<threads, strays>>
        /\ turn'.stage = "none" /\ At({"forgetting"})
    BY <1>20, <1>23, NoTurnFacts DEF ThreadForgotten, DeliverEnds
  <2>2. journal \subseteq {turn.thread} /\ turn.thread \notin threads
        /\ threads \subseteq journal \cup strays
    BY <2>1 DEF ThreadsFit, ThreadsAreKnown, At
  <2>3. journal' = {} /\ IsFiniteSet(journal') /\ Cardinality(journal') <= MaxJournal
    BY <2>1, <2>2, FS_EmptySet, ManagedAssumption
  <2> QED BY <1>1, <1>2, <2>1, <2>2, <2>3 DEF ThreadsFit, ThreadsAreKnown, At, Recorded, Threadless
<1>21. CASE CleanupSkipped
  BY <1>1, <1>21, <1>23, ThreadsLeft DEF CleanupSkipped, DeliverEnds, At
<1>22. CASE CleanupFails
  BY <1>1, <1>22, <1>23, ThreadsLeft DEF CleanupFails, OnCleanupWarning, DeliverEnds, At
<1>24. ~(\E accepted \in BOOLEAN : ReportEnds(accepted))
  BY <1>1 DEF ReportEnds
<1> QED
  BY <1>6, <1>7, <1>9, <1>10, <1>11, <1>12, <1>14, <1>15, <1>16, <1>17, <1>18,
     <1>19, <1>20, <1>21, <1>22, <1>24 DEF TurnStep

(* Every step keeps what is known of the threads.                          *)
LEMMA StepOfThreads ==
  ASSUME RunFits, ThreadsFit, [Next]_vars
  PROVE  ThreadsFit'
<1>1. /\ (turn.stage # "none" <=> run = "delivering")
      /\ connected => step = "start"
      /\ ~connected /\ step # "stopping" => run = "none"
  BY DEF RunFits
<1>2. /\ threads \subseteq Threads /\ journal \subseteq Threads /\ strays \subseteq Threads
      /\ IsFiniteSet(journal) /\ Cardinality(journal) <= MaxJournal
      /\ turn.stage # "journaling" => threads \subseteq journal \cup strays
  BY DEF ThreadsFit, ThreadsAreKnown, At
<1>3. ASSUME Quiet, Ready' => Ready PROVE ThreadsFit'
  BY <1>3, ThreadsStand DEF Quiet, connection
<1>4. CASE UNCHANGED vars
  BY <1>3, <1>4 DEF vars, supervisor, connection, Quiet, Ready
<1>5. CASE Restart
  <2>1. /\ strays' = strays \cup (threads \ journal) /\ UNCHANGED <<threads, journal>>
        /\ run' = "none" /\ turn'.stage = "none" /\ step' = "start"
    BY <1>5, NoTurnFacts DEF Restart, Started
  <2> QED BY <1>2, <2>1 DEF ThreadsFit, ThreadsAreKnown, At, Recorded, Threadless
<1>6. ASSUME Revokes, Stopped, step' = "start" PROVE ThreadsFit'
  <2>1. threads' = {} /\ strays' = {} /\ UNCHANGED <<journal, run, turn>> /\ run = "none"
    BY <1>6 DEF Revokes, Stopped, connection
  <2> QED BY <1>1, <1>2, <1>6, <2>1 DEF ThreadsFit, ThreadsAreKnown, At, Recorded, Threadless
<1>7. CASE FailedRevocation
  BY <1>3, <1>6, <1>7 DEF FailedRevocation, RevokeFails, EndOperation, Quiet, connection, Ready
<1>8. CASE (\E r \in Requests : Accept(r)) /\ Quiet
  BY <1>3, <1>8 DEF Accept, Quiet, connection, Ready
<1>9. CASE Dispose /\ Quiet
  BY <1>3, <1>9 DEF Dispose, Quiet, connection, Ready
<1>10. CASE GrantGiven /\ Quiet
  BY <1>3, <1>10 DEF GrantGiven, Quiet, connection, Ready
<1>11. CASE OperationStep
  <2>1. CASE ConnectReturns /\ Quiet
    BY <1>3, <2>1 DEF ConnectReturns, EndOperation, Quiet, connection, Ready
  <2>2. CASE (ConnectSwitches \/ DisconnectBegins \/ CancelBegins \/ DisposeBegins) /\ Quiet
    BY <1>3, <2>2 DEF ConnectSwitches, DisconnectBegins, CancelBegins, DisposeBegins,
                      StopConnection, Quiet, connection, Ready
  <2>3. CASE ConnectAuthorizes(Stopped) /\ Quiet
    <3>1. run = "none" /\ step' # "touching" /\ UNCHANGED run
      BY <1>1, <2>3 DEF ConnectAuthorizes, Stopped, Runs, EndOperation, Quiet, connection
    <3> QED BY <1>3, <2>3, <3>1 DEF Ready
  <2>4. ASSUME Stopped /\ StopEnds, Revokes \/ Quiet PROVE ThreadsFit'
    <3>1. step' = "start" /\ UNCHANGED aborted
      BY <2>4 DEF StopEnds, DisconnectEnds, CancelEnds, DisposeEnds, EndOperation
    <3> QED BY <1>3, <1>6, <2>4, <3>1 DEF Quiet, connection, Ready
  <2>5. CASE CancelRefused /\ Quiet
    BY <1>3, <2>5 DEF CancelRefused, EndOperation, Quiet, connection, Ready
  <2>6. CASE OpenServer
    BY <1>1, <2>6, ThreadsStand DEF OpenServer, Opening, Runs, supervisor, disk, Ready
  <2>7. CASE \E t \in Threads : RecoverThread(t)
    <3>1. PICK t \in Threads : RecoverThread(t)
      BY <2>7
    <3>2. /\ threads' = threads \ {t} /\ journal' = journal \ {t} /\ UNCHANGED strays
          /\ UNCHANGED <<step, run, turn>> /\ step = "opening" /\ run = "none"
      BY <1>1, <3>1 DEF RecoverThread, Opening, Runs, supervisor, connection
    <3>3. IsFiniteSet(journal') /\ Cardinality(journal') <= MaxJournal
      <4>1. journal' \subseteq journal
        BY <3>2
      <4>2. IsFiniteSet(journal') /\ Cardinality(journal') <= Cardinality(journal)
            /\ Cardinality(journal') \in Nat /\ Cardinality(journal) \in Nat
        BY <1>2, <4>1, FS_Subset, FS_CardinalityType
      <4> QED BY <1>2, <4>2, ManagedAssumption
    <3> QED BY <1>1, <1>2, <3>2, <3>3 DEF ThreadsFit, ThreadsAreKnown, At, Recorded, Threadless
  <2>8. CASE OpenEnds
    BY <2>8, ThreadsStand DEF OpenEnds, Recovered, connection
  <2>9. CASE OpenFails \/ Untouched
    <3>1. step' = "start" /\ closed' = TRUE /\ UNCHANGED <<disk, turn>>
      BY <2>9 DEF OpenFails, Untouched, TouchFails, ConnectFails, EndOperation
    <3> QED BY <3>1, ThreadsStand DEF Ready
  <2>10. CASE Connected
    <3>1. Ready /\ UNCHANGED <<disk, turn>>
      BY <2>10 DEF Connected, ConnectEnds, Runs, Ready
    <3> QED BY <3>1, ThreadsStand
  <2> QED BY <1>11, <2>1, <2>2, <2>3, <2>4, <2>5, <2>6, <2>7, <2>8, <2>9, <2>10 DEF OperationStep
<1>12. CASE TurnStep
  <2>1. TurnMoves \/ Reports
    BY <1>12, TurnStepMoves DEF RunFits
  <2>2. CASE Reports
    BY <2>2, ThreadsStand DEF Reports, ReportEnds, Outside, Ready
  <2> QED BY <1>12, <2>1, <2>2, TurnThreads
<1>13. CASE PumpStep
  <2>1. CASE Claim \/ LeaseLost \/ Skip
    BY <2>1, ThreadsStand DEF Claim, LeaseLost, Skip, Take, Outside, supervisor, Ready
  <2>2. CASE Deliver
    <3>1. turn'.stage = "preparing" /\ UNCHANGED <<disk, step, aborted, closed>> /\ Ready
          /\ run' = "delivering"
      <4>1. turn' = [NoTurn EXCEPT !.stage = "preparing", !.revision = published + 1]
        BY <2>2 DEF Deliver
      <4>2. turn'.stage = "preparing"
        BY <4>1, NoTurnFacts DEF Turn
      <4> QED BY <2>2, <4>2 DEF Deliver, Take, Outside, Ready
    <3>2. journal = {} /\ turn.stage = "none"
      BY <1>1, <2>2, <3>1 DEF Ready, ThreadsFit, Deliver, Take
    <3> QED BY <1>2, <3>1, <3>2 DEF ThreadsFit, ThreadsAreKnown, At, Recorded, Threadless, disk
  <2>3. CASE DeliverToNobody \/ RunEnds \/ ServerFails
    BY <2>3, ThreadsStand DEF DeliverToNobody, RunEnds, RunSettles, ServerFails, Outside,
                              supervisor, Ready
  <2> QED BY <1>13, <2>1, <2>2, <2>3 DEF PumpStep
<1>14. CASE (\E i \in DOMAIN results : GetResult(i)) /\ Quiet
  BY <1>3, <1>14 DEF GetResult, Quiet, connection, Ready
<1> QED
  BY <1>4, <1>5, <1>7, <1>8, <1>9, <1>10, <1>11, <1>12, <1>13, <1>14 DEF Next, Goes, Steps

-----------------------------------------------------------------------------
(* The status.                                                             *)

(* What the adapter tells is a status, and a failure that ends the         *)
(* connection is shown as one.                                             *)
LEMMA ToldStatus ==
  ASSUME status \in Status, NEW revision \in 0 .. MaxRevisions
  PROVE  /\ \A phase \in Phases : OnPhase(revision, phase) => status' \in Status
         /\ \A phase \in {"dispatching", "dispatched", "working", "failed", "delivery-unknown",
                          "completed"} :
              OnDispatch(revision, phase) => status' \in Status
         /\ \A written \in BOOLEAN : OnResult(revision, written) => status' \in Status
         /\ \A fatal \in BOOLEAN :
              OnFailure(revision, fatal) => status' \in Status /\ (fatal => ~ShowsWork')
         /\ OnCleanupWarning(revision) => status' \in Status /\ ~ShowsWork'
         /\ OnReady => status' \in Status
<1>1. /\ {"busy", "degraded", "ready"} \subseteq States
      /\ {"failed", "cleanup-warning", "completed", "review-required", "running",
          "preparing"} \subseteq Phases
      /\ status.phase \in Phases /\ status.state \in States
      /\ status.mode \in {"inbox", "managed"}
  BY DEF States, Phases, Status
<1>2. \A phase \in Phases : OnPhase(revision, phase) => status' \in Status
  BY <1>1 DEF OnPhase, Status
<1>3. ASSUME NEW phase \in {"dispatching", "dispatched", "working", "failed",
                             "delivery-unknown", "completed"},
             OnDispatch(revision, phase)
      PROVE  status' \in Status
  <2> DEFINE state == IF phase \in {"completed", "failed"} THEN "ready" ELSE "busy"
             shown == CASE phase = "working" -> "running"
                        [] phase \in {"failed", "delivery-unknown"} -> "failed"
                        [] phase = "completed" ->
                             IF status.revision = revision THEN status.phase ELSE "completed"
                        [] OTHER -> TaskPhase(revision)
  <2>1. state \in States
    BY <1>1
  <2>2. shown \in Phases
    BY <1>1 DEF TaskPhase
  <2>3. status' = [status EXCEPT !.state = state, !.revision = revision, !.phase = shown]
    BY <1>3 DEF OnDispatch
  <2> HIDE DEF state, shown
  <2> QED BY <2>1, <2>2, <2>3 DEF Status
<1>4. \A written \in BOOLEAN : OnResult(revision, written) => status' \in Status
  BY <1>1 DEF OnResult, Status
<1>5. ASSUME NEW fatal \in BOOLEAN, OnFailure(revision, fatal)
      PROVE  status' \in Status /\ (fatal => ~ShowsWork')
  BY <1>1, <1>5 DEF OnFailure, Status, ShowsWork
<1>6. OnCleanupWarning(revision) => status' \in Status /\ ~ShowsWork'
  BY <1>1 DEF OnCleanupWarning, Status, ShowsWork
<1>7. OnReady => status' \in Status
  BY <1>1 DEF OnReady, Status
<1> QED BY <1>2, <1>3, <1>4, <1>5, <1>6, <1>7

(* A failed connection in which a turn is left ends it without another     *)
(* word, and a turn that fails the connection says so.                     *)
LEMMA TurnStatus ==
  ASSUME RunFits, status \in Status, published \in 0 .. MaxRevisions, TurnStep,
         connected /\ aborted => At({"none", "cleaning", "forgetting"}) /\ ~ShowsWork
  PROVE  /\ status' \in Status
         /\ connected /\ aborted' => At({"none", "cleaning", "forgetting"})' /\ ~ShowsWork'
<1> DEFINE Ended == At({"none", "cleaning", "forgetting"})
           Goal == status' \in Status /\ (connected /\ aborted' => Ended' /\ ~ShowsWork')
<1>1. turn \in Turn /\ turn.revision \in 0 .. MaxRevisions /\ aborted \in BOOLEAN
  BY DEF RunFits, Turn
<1>2. \A stage \in Stages : Go(stage) => turn'.stage = stage
  BY <1>1, TurnGoes
<1>3. \A outcome \in Outcomes : Cleans(outcome) => turn'.stage = "cleaning"
  BY <1>1, TurnGoes
<1>4. \A outcome : Over(outcome) => Ended'
  <2>1. turn' = NoTurn => Ended'
    BY NoTurnFacts DEF At
  <2> HIDE DEF Ended
  <2> QED BY <2>1 DEF Over
<1>5. ASSUME UNCHANGED <<status, aborted>>, Ended' \/ ~Ended PROVE Goal
  BY <1>5 DEF ShowsWork
<1>6. ASSUME ~Ended, UNCHANGED aborted, status' \in Status PROVE Goal
  BY <1>6
<1>7. ASSUME ~Ended, Ended', NEW fatal \in BOOLEAN, NEW accepted \in BOOLEAN,
             Fails(fatal, accepted) \/ OnFailure(turn.revision, fatal)
      PROVE  Goal
  <2>1. CASE OnFailure(turn.revision, fatal)
    <3>1. status' \in Status /\ (fatal => ~ShowsWork')
      BY <1>1, <2>1, ToldStatus
    <3>2. aborted' = (aborted \/ fatal)
      BY <2>1 DEF OnFailure
    <3> QED BY <1>7, <3>1, <3>2
  <2>2. CASE /\ status' = [status EXCEPT !.state = "ready", !.phase = "failed",
                                         !.revision = turn.revision]
             /\ UNCHANGED aborted
    <3>1. "ready" \in States /\ "failed" \in Phases
      BY DEF States, Phases
    <3>2. status' \in Status
      BY <1>1, <2>2, <3>1 DEF Status
    <3> QED BY <1>6, <1>7, <2>2, <3>2
  <2> QED BY <1>7, <2>1, <2>2 DEF Fails
<1>8. {"threading", "checking", "starting", "dispatched", "working", "auditing", "validating",
       "applying", "settling", "cleaning", "forgetting"} \subseteq Stages
  BY DEF Stages
<1>9. {"auditing", "validating", "applying"} \subseteq Phases
  BY DEF Phases
<1> SUFFICES Goal
  OBVIOUS
<1> HIDE DEF Goal
<1>10. CASE Prepared \/ Journaled \/ Checked \/ ThreadStarts
  BY <1>5, <1>10 DEF Prepared, Journaled, Checked, ThreadStarts, supervisor, At
<1>11. CASE TurnInterrupted \/ ThreadDeleted
  BY <1>2, <1>3, <1>5, <1>8, <1>11, OutcomeFacts DEF TurnInterrupted, ThreadDeleted, supervisor, At
<1>12. CASE ThreadForgotten \/ CleanupSkipped
  BY <1>4, <1>5, <1>12 DEF ThreadForgotten, CleanupSkipped, DeliverEnds, supervisor
<1>13. ASSUME ~Ended, Ended', NEW fatal \in BOOLEAN, NEW accepted \in BOOLEAN,
              FailsUnlessSignalled(fatal, accepted)
       PROVE  Goal
  BY <1>5, <1>7, <1>13 DEF FailsUnlessSignalled
<1>14. CASE (\E accepted \in BOOLEAN : PrepareFails(accepted)) \/ ThreadIsLost
            \/ (\E fatal, accepted \in BOOLEAN : ThreadRefused(fatal, accepted))
  BY <1>4, <1>7, <1>13, <1>14 DEF PrepareFails, ThreadRefused, ThreadIsLost, At
<1>15. CASE (\E accepted \in BOOLEAN : JournalFails(accepted))
            \/ (\E fatal, accepted \in BOOLEAN : ChecksFail(fatal, accepted))
  <2>1. ASSUME NEW fatal \in BOOLEAN, NEW accepted \in BOOLEAN,
               FailsBeforeTurn(fatal, accepted), ~Ended
        PROVE  Goal
    <3>1. Ended'
      BY <1>3, <2>1, OutcomeFacts DEF FailsBeforeTurn, At
    <3> QED BY <1>13, <2>1, <3>1 DEF FailsBeforeTurn
  <2> QED BY <1>15, <2>1 DEF JournalFails, ChecksFail, At
<1>16. CASE TurnAnswered \/ TurnWorks
  <2>1. ~Ended /\ UNCHANGED aborted
    BY <1>16 DEF TurnAnswered, TurnWorks, At
  <2>2. status' \in Status
    BY <1>1, <1>16, ToldStatus DEF TurnAnswered, TurnWorks
  <2> QED BY <1>6, <2>1, <2>2
<1>17. CASE TurnRejected
  <2>1. ~Ended /\ Ended'
    BY <1>3, <1>17, OutcomeFacts DEF TurnRejected, At
  <2> QED BY <1>5, <1>7, <1>17, <2>1 DEF TurnRejected
<1>18. CASE \E accepted \in BOOLEAN : TurnUnproved(accepted) \/ TurnFails(accepted)
  <2>1. ~Ended /\ UNCHANGED aborted
    BY <1>18 DEF TurnUnproved, TurnFails, At
  <2>2. status' \in Status
    BY <1>1, <1>18, ToldStatus DEF TurnUnproved, TurnFails
  <2> QED BY <1>6, <2>1, <2>2
<1>19. CASE Settled
  BY <1>1, <1>6, <1>19, ToldStatus DEF Settled, At
<1>20. CASE TurnCompletes \/ Audited \/ Passed
  BY <1>1, <1>6, <1>9, <1>20, ToldStatus DEF TurnCompletes, Audited, Passed, At
<1>21. CASE NeedsReview \/ Applied
  BY <1>1, <1>6, <1>21, ToldStatus DEF NeedsReview, Applied, At
<1>22. CASE \E accepted \in BOOLEAN : CompletionFails(accepted) \/ ResultIsUnreadable(accepted)
  <2>1. PICK accepted \in BOOLEAN : CompletionFails(accepted) \/ ResultIsUnreadable(accepted)
    BY <1>22
  <2>2. ~Ended /\ Ended'
    BY <1>3, <2>1, OutcomeFacts DEF CompletionFails, ResultIsUnreadable, At
  <2> QED BY <1>7, <2>1, <2>2 DEF CompletionFails, ResultIsUnreadable
<1>24. CASE Reports
  <2>1. PICK accepted \in BOOLEAN : ReportEnds(accepted)
    BY <1>24 DEF Reports
  <2>2. UNCHANGED <<turn, aborted>>
    BY <2>1 DEF ReportEnds
  <2>3. CASE accepted /\ ~Signalled
    <3>1. ~aborted' /\ OnDispatch(published, "delivery-unknown")
      BY <2>1, <2>2, <2>3 DEF ReportEnds, Signalled
    <3>2. status' \in Status
      BY <3>1, ToldStatus
    <3> QED BY <3>1, <3>2 DEF Goal
  <2>4. CASE ~(accepted /\ ~Signalled)
    <3>1. UNCHANGED status
      BY <2>1, <2>4 DEF ReportEnds
    <3>2. Ended' \/ ~Ended
      BY <2>2 DEF At
    <3> QED BY <1>5, <2>2, <3>1, <3>2
  <2> QED BY <2>3, <2>4
<1>23. CASE CleanupFails
  <2>1. Ended' /\ status' \in Status /\ ~ShowsWork'
    BY <1>1, <1>4, <1>23, ToldStatus DEF CleanupFails, DeliverEnds
  <2> QED BY <2>1 DEF Goal
<1> QED
  BY <1>10, <1>11, <1>12, <1>14, <1>15, <1>16, <1>17, <1>18, <1>19,
     <1>20, <1>21, <1>22, <1>23, <1>24 DEF TurnStep, Reports

(* The pump works for a connection, or for one that a stop waits for.      *)
LEMMA PumpStatus ==
  ASSUME RunFits, ResultsFit, StatusFits, PumpStep, unrevoked' = (unrevoked /\ status' = status)
  PROVE  StatusFits'
<1>1. /\ status \in Status /\ grant \in {"valid", "missing", "invalid"} /\ unrevoked \in BOOLEAN
      /\ Runs("cancel", "stopping") => Asked[Operation].revision \in 0 .. MaxRevisions
      /\ connected /\ aborted => At({"none", "cleaning", "forgetting"}) /\ ~ShowsWork
      /\ grant = "invalid" => run = "none"
      /\ connected \/ step = "stopping" \/ run = "none"
      /\ connected \in BOOLEAN /\ aborted \in BOOLEAN
  BY DEF StatusFits, RunFits
<1>2. unrevoked' \in BOOLEAN
  BY <1>1
<1>3. run # "none"
  BY <1>1 DEF PumpStep, Claim, LeaseLost, Skip, Deliver, DeliverToNobody, RunEnds, ServerFails,
              Take
<1>4. ASSUME UNCHANGED <<grant, queue, step, connected, aborted>>, status' \in Status,
             aborted => UNCHANGED <<status, turn>>
      PROVE  StatusFits'
  <2>1. connected \/ step = "stopping"
    BY <1>1, <1>3
  <2>2. connected' /\ aborted' => At({"none", "cleaning", "forgetting"})' /\ ~ShowsWork'
    BY <1>1, <1>4 DEF At, ShowsWork
  <2>3. Runs("cancel", "stopping")' => Asked[Operation'].revision \in 0 .. MaxRevisions
    BY <1>1, <1>4 DEF Runs, Operation
  <2> QED BY <1>1, <1>2, <1>3, <1>4, <2>1, <2>2, <2>3 DEF StatusFits
<1>5. CASE Claim
  <2>1. 0 \in 0 .. MaxRevisions
    BY ManagedAssumption
  <2>2. status' \in Status
    BY <1>1, <1>5, <2>1, ToldStatus DEF Claim
  <2> QED BY <1>4, <1>5, <2>2 DEF Claim, Outside
<1>6. CASE LeaseLost \/ ServerFails
  BY <1>1, <1>4, <1>6 DEF LeaseLost, ServerFails, supervisor
<1>7. CASE Skip \/ Deliver \/ DeliverToNobody
  <2>1. published + 1 \in 0 .. MaxRevisions
    <3>1. published < MaxRevisions /\ published \in 0 .. MaxRevisions /\ MaxRevisions \in Nat
      BY <1>7, ManagedAssumption DEF Skip, Deliver, DeliverToNobody, Take, ResultsFit
    <3> QED BY ONLY <3>1
  <2>2. "preparing" \in Phases
    BY DEF Phases
  <2>3. status' \in Status
    BY <1>1, <1>7, <2>1, <2>2, ToldStatus DEF Skip, Deliver, DeliverToNobody
  <2> QED BY <1>4, <1>7, <2>3 DEF Skip, Deliver, DeliverToNobody, Take, Outside
<1>8. CASE RunEnds
  <2>1. /\ connected' = FALSE /\ UNCHANGED <<grant, aborted, disposed, queue, step>>
        /\ status' = IF aborted \/ disposed THEN status
                     ELSE [status EXCEPT !.state = "degraded", !.mode = "inbox"]
        /\ run' = "none"
    BY <1>8 DEF RunEnds, RunSettles
  <2>2. [status EXCEPT !.state = "degraded", !.mode = "inbox"] \in Status
    <3>1. "degraded" \in States
      BY DEF States
    <3> QED BY <1>1, <3>1 DEF Status
  <2>3. status' \in Status
    BY <1>1, <2>1, <2>2
  <2>4. step # "stopping" /\ ~disposed => ~ShowsWork'
    <3>1. CASE aborted
      BY <1>1, <1>3, <2>1, <3>1 DEF ShowsWork
    <3>2. CASE ~aborted /\ ~disposed
      BY <1>1, <2>1, <3>2 DEF ShowsWork, Status
    <3> QED BY <3>1, <3>2
  <2>5. Runs("cancel", "stopping")' => Asked[Operation'].revision \in 0 .. MaxRevisions
    BY <1>1, <2>1 DEF Runs, Operation
  <2> QED BY <1>1, <1>2, <1>3, <2>1, <2>3, <2>4, <2>5 DEF StatusFits
<1> QED BY <1>5, <1>6, <1>7, <1>8 DEF PumpStep

(* An operation shows what it does: only one that has connected leaves a   *)
(* status of a working agent behind.                                       *)
LEMMA OperationStatus ==
  ASSUME QueueFits, RunFits, StatusFits, OperationStep,
         unrevoked' = (unrevoked /\ status' = status)
  PROVE  StatusFits'
<1>1. /\ status \in Status /\ grant \in {"valid", "missing", "invalid"} /\ unrevoked \in BOOLEAN
      /\ Runs("cancel", "stopping") => Asked[Operation].revision \in 0 .. MaxRevisions
      /\ ~connected /\ step # "stopping" /\ ~disposed /\ ~unrevoked => ~ShowsWork
      /\ connected /\ aborted => At({"none", "cleaning", "forgetting"}) /\ ~ShowsWork
      /\ grant = "invalid" =>
           ~connected /\ run = "none" /\ step \notin {"opening", "touching"} /\ ~ShowsWork
      /\ connected \in BOOLEAN /\ aborted \in BOOLEAN /\ disposed \in BOOLEAN
      /\ connected => step = "start"
      /\ step \in {"opening", "touching"} => ~aborted
      /\ ~connected /\ step # "stopping" => run = "none"
      /\ step \in {"start", "stopping", "opening", "touching"}
  BY DEF StatusFits, RunFits, QueueFits
<1>2. unrevoked' \in BOOLEAN
  BY <1>1
<1>3. {"disconnected", "awaiting-consent", "connecting", "degraded", "error", "disconnecting"}
        \subseteq States /\ "cancelled" \in Phases
  BY DEF States, Phases
<1>4. status.state \in States /\ status.mode \in {"inbox", "managed"}
  BY <1>1 DEF Status
<1>5. ASSUME step' # "stopping", status' \in Status,
             ~connected' /\ ~disposed' /\ ~unrevoked' => ~ShowsWork',
             connected' /\ aborted' => At({"none", "cleaning", "forgetting"})' /\ ~ShowsWork',
             grant' \in {grant, "missing"}, run' = run \/ grant' # "invalid",
             grant = "invalid" => ~connected' /\ step' \notin {"opening", "touching"} /\ ~ShowsWork'
      PROVE  StatusFits'
  BY <1>1, <1>2, <1>5 DEF StatusFits, Runs
<1>6. ASSUME StopConnection, UNCHANGED <<grant, queue, run>>, status' \in Status,
             KindOf(Operation) = "cancel" => Asked[Operation].revision \in 0 .. MaxRevisions,
             ShowsWork' => ShowsWork
      PROVE  StatusFits'
  <2>1. step' = "stopping" /\ connected' = FALSE
    BY <1>6 DEF StopConnection
  <2> QED BY <1>1, <1>2, <1>6, <2>1 DEF StatusFits, Runs, Operation
<1>7. ASSUME NEW state \in {"disconnected", "awaiting-consent", "connecting", "degraded", "error",
                            "disconnecting"},
             status' = [status EXCEPT !.state = state, !.mode = "inbox"]
      PROVE  status' \in Status /\ ~ShowsWork'
  <2>1. state \in States
    BY <1>3
  <2> QED BY <1>1, <1>7, <2>1 DEF Status, ShowsWork
<1>8. ASSUME NEW state \in {"error", "disconnecting"},
             status' = [status EXCEPT !.state = state]
      PROVE  status' \in Status /\ (ShowsWork' => ShowsWork)
  <2>1. state \in States
    BY <1>3
  <2> QED BY <1>1, <1>8, <2>1 DEF Status, ShowsWork
<1>9. CASE (ConnectReturns \/ CancelRefused) /\ Quiet
  <2>1. UNCHANGED <<status, grant, connected, aborted, disposed, run, turn, unrevoked>>
        /\ step = "start" /\ step' = "start"
    BY <1>1, <1>9 DEF ConnectReturns, CancelRefused, EndOperation, Runs, Quiet, connection
  <2> QED BY <1>1, <1>5, <2>1 DEF ShowsWork, At
<1>10. CASE ConnectSwitches /\ Quiet
  <2>1. StopConnection /\ UNCHANGED <<grant, queue, run>> /\ KindOf(Operation) = "switch"
        /\ status' = [status EXCEPT !.state = "disconnecting", !.mode = "inbox"]
    BY <1>10 DEF ConnectSwitches, Runs, Quiet, connection
  <2> QED BY <1>6, <1>7, <2>1
<1>11. CASE DisconnectBegins /\ Quiet
  <2>1. StopConnection /\ UNCHANGED <<grant, queue, run>>
        /\ KindOf(Operation) \in {"disconnect", "revoke"}
        /\ status' = [status EXCEPT !.state = "disconnecting"]
    BY <1>11 DEF DisconnectBegins, Quiet, connection
  <2> QED BY <1>6, <1>8, <2>1
<1>12. CASE CancelBegins /\ Quiet
  <2>1. StopConnection /\ UNCHANGED <<status, grant, queue, run>>
        /\ status.revision = Asked[Operation].revision
    BY <1>12 DEF CancelBegins, Quiet, connection
  <2>2. status.revision \in 0 .. MaxRevisions
    BY <1>1 DEF Status
  <2> QED BY <1>1, <1>6, <2>1, <2>2 DEF ShowsWork
<1>13. CASE DisposeBegins /\ Quiet
  <2>1. StopConnection /\ UNCHANGED <<status, grant, queue, run>> /\ KindOf(Operation) = "dispose"
    BY <1>13 DEF DisposeBegins, Runs, Quiet, connection
  <2> QED BY <1>1, <1>6, <2>1 DEF ShowsWork
<1>14. CASE ConnectAuthorizes(Stopped) /\ Quiet
  <2>1. UNCHANGED <<grant, connected, disposed, run, turn>> /\ ~connected /\ step' # "stopping"
        /\ step' # "touching" /\ (grant = "invalid" => step' = "start")
        /\ \/ \E state \in {"connecting", "awaiting-consent"} :
                status' = [status EXCEPT !.state = state, !.mode = "inbox"]
           \/ grant = "invalid" /\ status' = [status EXCEPT !.state = "error"]
    BY <1>1, <1>14 DEF ConnectAuthorizes, EndOperation, Runs, Quiet, connection
  <2>2. status' \in Status /\ ~ShowsWork'
    BY <1>1, <1>7, <1>8, <2>1
  <2> QED BY <1>1, <1>5, <2>1, <2>2
<1>15. ASSUME Stopped /\ StopEnds, Revokes \/ Quiet PROVE StatusFits'
  <2>1. run' = run /\ step = "stopping" /\ step' = "start" /\ UNCHANGED <<connected, disposed>>
        /\ ~connected
    BY <1>1, <1>15 DEF StopEnds, DisconnectEnds, CancelEnds, DisposeEnds, EndOperation, Runs,
                       Revokes, Quiet, connection
  <2>2. CASE DisconnectEnds
    <3>1. grant' \in {grant, "missing"}
          /\ status' = [status EXCEPT !.state = "disconnected", !.mode = "inbox",
                                      !.model = "default"]
      BY <2>2 DEF DisconnectEnds
    <3>2. status' \in Status /\ ~ShowsWork'
      BY <1>1, <1>3, <3>1 DEF Status, ShowsWork
    <3> QED BY <1>5, <2>1, <3>1, <3>2
  <2>3. CASE CancelEnds
    <3>1. UNCHANGED grant /\ Asked[Operation].revision \in 0 .. MaxRevisions
          /\ status' = [status EXCEPT !.state = "disconnected", !.mode = "inbox",
                          !.revision = Asked[Operation].revision, !.phase = "cancelled"]
      BY <1>1, <2>3 DEF CancelEnds
    <3>2. status' \in Status /\ ~ShowsWork'
      BY <1>1, <1>3, <3>1 DEF Status, ShowsWork
    <3> QED BY <1>5, <2>1, <3>1, <3>2
  <2>4. CASE DisposeEnds
    <3>1. UNCHANGED <<status, grant>> /\ disposed
      BY <2>4, DisposeIsLast DEF DisposeEnds
    <3> QED BY <1>1, <1>5, <2>1, <3>1 DEF ShowsWork
  <2> QED BY <1>15, <2>2, <2>3, <2>4 DEF StopEnds
<1>16. CASE OpenServer \/ (\E t \in Threads : RecoverThread(t)) \/ OpenEnds
  <2>1. UNCHANGED <<status, grant, connected, aborted, disposed, run, turn, unrevoked>>
        /\ step = "opening" /\ step' # "stopping"
    BY <1>1, <1>16 DEF OpenServer, RecoverThread, OpenEnds, Opening, Runs, supervisor, connection
  <2> QED BY <1>1, <1>5, <2>1 DEF ShowsWork, At
<1>17. CASE OpenFails \/ Untouched
  <2>1. UNCHANGED <<grant, connected, disposed, run>> /\ step' = "start" /\ ~connected
        /\ status' = [status EXCEPT !.state = "degraded", !.mode = "inbox"]
    BY <1>1, <1>17 DEF OpenFails, Untouched, TouchFails, ConnectFails, EndOperation, Opening, Runs
  <2> QED BY <1>1, <1>5, <1>7, <2>1
<1>18. CASE Connected
  <2>1. connected' = TRUE /\ step' = "start" /\ grant = "valid" /\ UNCHANGED <<grant, aborted>>
        /\ ~aborted
        /\ \E kind \in {"connect", "switch"} : status' = [status EXCEPT !.model = Wanted(kind)]
    BY <1>1, <1>18 DEF Connected, ConnectEnds, EndOperation, Runs
  <2>2. status' \in Status
    BY <1>1, <2>1 DEF Status, Wanted
  <2> QED BY <1>1, <1>5, <2>1, <2>2
<1> QED
  BY <1>9, <1>10, <1>11, <1>12, <1>13, <1>14, <1>15, <1>16, <1>17, <1>18
     DEF OperationStep

(* Every step keeps what is known of the status.                           *)
LEMMA StepOfStatus ==
  ASSUME QueueFits, RunFits, ResultsFit, StatusFits, [Next]_vars
  PROVE  StatusFits'
<1>1. /\ status \in Status /\ grant \in {"valid", "missing", "invalid"} /\ unrevoked \in BOOLEAN
      /\ Runs("cancel", "stopping") => Asked[Operation].revision \in 0 .. MaxRevisions
      /\ ~connected /\ step # "stopping" /\ ~disposed /\ ~unrevoked => ~ShowsWork
      /\ connected /\ aborted => At({"none", "cleaning", "forgetting"}) /\ ~ShowsWork
      /\ grant = "invalid" =>
           ~connected /\ run = "none" /\ step \notin {"opening", "touching"} /\ ~ShowsWork
      /\ connected \/ step = "stopping" \/ run = "none"
      /\ connected => step = "start"
      /\ queue = <<>> => step = "start"
      /\ queue \in Seq(Operations)
  BY DEF StatusFits, RunFits, QueueFits
<1>2. ASSUME UNCHANGED <<status, connected, aborted, step, run, turn, unrevoked>>,
             disposed => disposed', grant' \in {grant, "valid"},
             queue # <<>> => queue' # <<>> /\ Head(queue') = Head(queue)
      PROVE  StatusFits'
  <2>1. Runs("cancel", "stopping")' => Asked[Operation'].revision \in 0 .. MaxRevisions
    BY <1>1, <1>2 DEF Runs, Operation
  <2> QED BY <1>1, <1>2, <2>1 DEF StatusFits, ShowsWork, At
<1>3. CASE UNCHANGED vars
  BY <1>1, <1>2, <1>3 DEF vars, supervisor, connection
<1>4. CASE Restart
  <2>1. /\ status' = [state |-> "disconnected", mode |-> "inbox", model |-> "default",
                      revision |-> 0, phase |-> "none"]
        /\ connected' = FALSE /\ step' = "start" /\ run' = "none" /\ unrevoked' = FALSE
        /\ UNCHANGED grant
    BY <1>4 DEF Restart, Started
  <2>2. status' \in Status /\ ~ShowsWork'
    <3>1. 0 \in 0 .. MaxRevisions
      BY ManagedAssumption
    <3> QED BY <2>1, <3>1 DEF Status, States, Phases, ShowsWork
  <2> QED BY <1>1, <2>1, <2>2 DEF StatusFits, Runs
<1>5. CASE FailedRevocation
  <2>1. UNCHANGED <<status, grant, connected, aborted, run, turn>> /\ unrevoked' = TRUE
        /\ step = "stopping" /\ step' = "start"
    BY <1>5 DEF FailedRevocation, RevokeFails, EndOperation, Runs, Quiet, Revokes, connection
  <2> QED BY <1>1, <2>1 DEF StatusFits, Runs, ShowsWork, At
<1>6. ASSUME unrevoked' = (unrevoked /\ status' = status), UNCHANGED status
      PROVE  UNCHANGED unrevoked
  BY <1>1, <1>6
<1>7. \A o \in Operations : queue # <<>> => Append(queue, o) # <<>> /\ Head(Append(queue, o)) = Head(queue)
  <2>1. SUFFICES ASSUME NEW o \in Operations, queue # <<>>
                 PROVE  Append(queue, o) # <<>> /\ Head(Append(queue, o)) = Head(queue)
    OBVIOUS
  <2>2. /\ Append(queue, o) \in Seq(Operations) /\ Len(Append(queue, o)) = Len(queue) + 1
        /\ \A i \in 1 .. Len(queue) : Append(queue, o)[i] = queue[i]
    BY <1>1, AppendProperties
  <2>3. Len(queue) \in Nat \ {0} /\ 1 \in 1 .. Len(queue) /\ Head(queue) = queue[1]
    BY <1>1, <2>1, LenProperties, EmptySeq, HeadTailProperties
  <2>4. Append(queue, o) # <<>> /\ Head(Append(queue, o)) = Append(queue, o)[1]
    BY <2>2, <2>3, EmptySeq, HeadTailProperties
  <2> QED BY <2>2, <2>3, <2>4
<1>8. CASE Goes((\E r \in Requests : Accept(r)) /\ Quiet)
  <2>1. PICK r \in Requests : Accept(r)
    BY <1>8 DEF Goes
  <2>2. r \in Operations /\ queue' = Append(queue, r)
    BY <2>1 DEF Accept, Operations
  <2> QED BY <1>2, <1>6, <1>7, <1>8, <2>1, <2>2 DEF Goes, Accept, Quiet, connection
<1>9. CASE Goes(Dispose /\ Quiet)
  <2>1. Closing \in Operations
    BY DEF Operations
  <2> QED BY <1>2, <1>6, <1>7, <1>9, <2>1 DEF Goes, Dispose, Quiet, connection
<1>10. CASE Goes(GrantGiven /\ Quiet)
  BY <1>2, <1>6, <1>10 DEF Goes, GrantGiven, Quiet, connection
<1>11. CASE Goes(OperationStep)
  BY <1>11, OperationStatus DEF Goes
<1>12. CASE Goes(TurnStep)
  <2>1. TurnMoves \/ Reports
    BY <1>12, TurnStepMoves DEF Goes, RunFits
  <2>2. /\ status' \in Status
        /\ connected /\ aborted' => At({"none", "cleaning", "forgetting"})' /\ ~ShowsWork'
    BY <1>1, <1>12, TurnStatus DEF Goes, ResultsFit
  <2>3. run # "none" /\ UNCHANGED <<grant, connected, queue, step>>
    BY <2>1 DEF TurnMoves, RunFits, Reports, ReportEnds, Outside
  <2>4. connected \/ step = "stopping"
    BY <1>1, <2>3
  <2>5. unrevoked' \in BOOLEAN
    BY <1>1, <1>12 DEF Goes
  <2>6. Runs("cancel", "stopping")' => Asked[Operation'].revision \in 0 .. MaxRevisions
    BY <1>1, <2>3 DEF Runs, Operation
  <2> QED BY <1>1, <2>2, <2>3, <2>4, <2>5, <2>6 DEF StatusFits
<1>13. CASE Goes(PumpStep)
  BY <1>13, PumpStatus DEF Goes
<1>14. CASE Goes((\E i \in DOMAIN results : GetResult(i)) /\ Quiet)
  BY <1>1, <1>2, <1>6, <1>14 DEF Goes, GetResult, Quiet, connection
<1> QED
  BY <1>3, <1>4, <1>5, <1>8, <1>9, <1>10, <1>11, <1>12, <1>13, <1>14 DEF Next, Goes, Steps

-----------------------------------------------------------------------------
(* The invariant and what follows from it.                                 *)

(* It holds at the start of the first development server.                  *)
LEMMA InitialInvariant == Init => ManagedInvariant
<1> SUFFICES ASSUME Init PROVE ManagedInvariant
  OBVIOUS
<1>1. /\ grant \in {"valid", "missing", "invalid"}
      /\ status = [state |-> "disconnected", mode |-> "inbox", model |-> "default",
                   revision |-> 0, phase |-> "none"]
      /\ connected = FALSE /\ aborted = FALSE /\ disposed = FALSE
      /\ queue = IF grant = "valid" THEN <<StartUp>> ELSE <<>>
      /\ step = "start" /\ records = <<>> /\ results = <<>>
      /\ run = "none" /\ leaseLost = FALSE /\ published = 0 /\ closed = TRUE
      /\ turn = NoTurn /\ threads = {} /\ journal = {} /\ strays = {} /\ applied = {}
      /\ expired = {} /\ remembered = <<>> /\ unreadable = {}
      /\ restarts = 0 /\ unrevoked = FALSE
  BY DEF Init, InitSupervisor, InitTurn
<1>2. /\ MaxRecords \in Nat \ {0} /\ MaxResults \in Nat \ {0} /\ MaxQueue \in Nat \ {0}
      /\ MaxRevisions \in Nat /\ MaxJournal \in Nat /\ StartUp # Closing
  BY ManagedAssumption
<1>3. \A S : <<>> \in Seq(S) /\ Len(<<>>) = 0 /\ DOMAIN <<>> = {}
  BY EmptySeq
<1>4. QueueFits
  <2>1. StartUp \in Operations
    BY DEF Operations
  <2>2. queue \in {<<>>, <<StartUp>>} /\ queue \in Seq(Operations)
    <3>1. CASE grant = "valid"
      BY <1>1, <2>1, <3>1
    <3>2. CASE grant # "valid"
      BY <1>1, <1>3, <3>2
    <3> QED BY <3>1, <3>2
  <2>3. Len(queue) \in {0, 1} /\ DOMAIN queue \subseteq {1} /\ \A i \in DOMAIN queue : queue[i] = StartUp
    BY <1>3, <2>2
  <2>4. Len(queue) <= MaxQueue + IF disposed THEN 1 ELSE 0
    BY <1>1, <1>2, <2>3
  <2>5. records \in Seq(Requests) /\ Len(records) <= MaxRecords
    BY <1>1, <1>2, <1>3
  <2> QED BY ZenonT(60), <1>1, <1>2, <2>2, <2>3, <2>4, <2>5 DEF QueueFits
<1>5. RunFits
  BY <1>1, NoTurnFacts DEF RunFits, Runnings
<1>6. ThreadsFit
  <2>1. IsFiniteSet(journal) /\ Cardinality(journal) <= MaxJournal
    BY <1>1, <1>2, FS_EmptySet
  <2> QED BY <1>1, <2>1, NoTurnFacts DEF ThreadsFit, ThreadsAreKnown, At, Recorded, Threadless
<1>7. ResultsFit
  <2>1. /\ results \in Seq(1 .. MaxRevisions) /\ Len(results) <= MaxResults /\ DOMAIN results = {}
        /\ remembered \in Seq(1 .. MaxRevisions)
    BY <1>1, <1>2, <1>3
  <2>2. MemoryFits
    BY <1>1, <2>1 DEF MemoryFits, Range
  <2> QED BY <1>1, <1>2, <2>2, NoTurnFacts DEF ResultsFit, AppliedIsRemembered
<1>8. StatusFits
  <2>1. status \in Status /\ ~ShowsWork
    <3>1. 0 \in 0 .. MaxRevisions
      BY <1>2
    <3> QED BY <1>1, <3>1 DEF Status, States, Phases, ShowsWork
  <2> QED BY <1>1, <2>1 DEF StatusFits, Runs
<1> QED BY <1>1, <1>4, <1>5, <1>6, <1>7, <1>8 DEF ManagedInvariant

(* Every step keeps it.                                                    *)
LEMMA StepKeepsInvariant == ManagedInvariant /\ [Next]_vars => ManagedInvariant'
<1> SUFFICES ASSUME ManagedInvariant, [Next]_vars PROVE ManagedInvariant'
  OBVIOUS
<1>1. QueueFits /\ RunFits /\ ThreadsFit /\ ResultsFit /\ StatusFits /\ restarts \in Nat
  BY DEF ManagedInvariant
<1>2. QueueMoves /\ RunFits'
  BY <1>1, StepOfRun DEF ResultsFit
<1>3. QueueFits'
  BY <1>1, <1>2, QueueInvariant
<1>4. ThreadsFit'
  BY <1>1, StepOfThreads
<1>5. ResultsFit'
  BY <1>1, StepOfResults
<1>6. StatusFits'
  BY <1>1, StepOfStatus
<1>7. restarts' \in Nat
  <2>1. restarts' = restarts \/ restarts' = restarts + 1
    BY DEF Next, Restart, Goes, FailedRevocation, vars
  <2> QED BY <1>1, <2>1
<1> QED BY <1>2, <1>3, <1>4, <1>5, <1>6, <1>7 DEF ManagedInvariant

(* The inductive invariant of the managed agent.                           *)
THEOREM ManagedInvariantHolds == Spec => []ManagedInvariant
BY InitialInvariant, StepKeepsInvariant, PTL DEF Spec

(* The state of the supervisor, of its connection and of the disk always   *)
(* has its types, and the journal never holds more threads than it may.    *)
THEOREM TypeCorrect == Spec => []TypeOK
<1>1. ManagedInvariant => TypeOK
  <2> SUFFICES ASSUME ManagedInvariant PROVE TypeOK
    OBVIOUS
  <2>1. QueueFits /\ RunFits /\ ThreadsFit /\ ResultsFit /\ StatusFits
    BY DEF ManagedInvariant
  <2>2. MaxQueue \in Nat /\ MaxRecords \in Nat /\ MaxResults \in Nat
    BY ManagedAssumption
  <2>3. queue \in Seq(Operations) /\ Len(queue) <= MaxQueue + 2
    <3>1. queue \in Seq(Operations) /\ Len(queue) <= MaxQueue + IF disposed THEN 1 ELSE 0
      BY <2>1 DEF QueueFits
    <3>2. Len(queue) \in Nat
      BY <3>1, LenProperties
    <3> QED BY <2>2, <3>1, <3>2
  <2>6. {connected, aborted, disposed, unrevoked} \subseteq BOOLEAN
    BY <2>1 DEF QueueFits, RunFits, StatusFits
  <2> QED BY <2>1, <2>3, <2>6
          DEF TypeOK, QueueFits, RunFits, ThreadsFit, ResultsFit, MemoryFits, StatusFits, Operations
<1> QED BY <1>1, ManagedInvariantHolds, PTL

(* A request that the browser sends again is never in the queue twice,     *)
(* however many requests were accepted since (idempotent()).               *)
THEOREM RetryNeverRunsTwice == Spec => []RetryRunsOnce
<1>1. ManagedInvariant => RetryRunsOnce
  <2> SUFFICES ASSUME QueueFits, NEW r \in Requests
               PROVE  Cardinality({i \in DOMAIN queue : queue[i] = r}) <= 1
    BY DEF ManagedInvariant, RetryRunsOnce
  <2> DEFINE places == {i \in DOMAIN queue : queue[i] = r}
  <2>1. \A i, j \in places : i = j
    BY DEF QueueFits
  <2>2. places = {} \/ \E i \in places : places = {i}
    BY <2>1
  <2> HIDE DEF places
  <2>3. Cardinality(places) \in {0, 1}
    BY <2>2, FS_EmptySet, FS_Singleton
  <2>4. Cardinality(places) <= 1
    BY <2>3
  <2> QED BY <2>4 DEF places
<1> QED BY <1>1, ManagedInvariantHolds, PTL

(* Between operations a working agent is shown only of a connection, but   *)
(* for a revocation that has failed (supervisor.ts).                       *)
THEOREM StatusAlwaysTrue == Spec => []StatusIsTrue
<1>1. ManagedInvariant => StatusIsTrue
  BY DEF ManagedInvariant, StatusFits, QueueFits, StatusIsTrue, ShowsWork
<1> QED BY <1>1, ManagedInvariantHolds, PTL

(* Codex works only in a thread that is recorded, and only when the        *)
(* threads of all earlier turns are gone, also of those of this connection *)
(* whose lease was lost and claimed again (managed-adapter.ts).            *)
THEOREM AlwaysCleanBeforeWork == Spec => []CleanBeforeWork
<1>1. ManagedInvariant => CleanBeforeWork
  BY DEF ManagedInvariant, ThreadsFit, CleanBeforeWork, At, Recorded
<1> QED BY <1>1, ManagedInvariantHolds, PTL

(* No thread with the user's code in it is ever without a record, but for  *)
(* the one just created and those a crash or a failure left at once.       *)
THEOREM ThreadsAlwaysKnown == Spec => []ThreadsAreKnown
<1>1. ManagedInvariant => ThreadsAreKnown
  BY DEF ManagedInvariant, ThreadsFit
<1> QED BY <1>1, ManagedInvariantHolds, PTL

(* The result of an applied change is kept until it expires or as many     *)
(* newer ones were stored as are kept, whatever became of its connection   *)
(* and however many turns, refusals and reads came between; only one that  *)
(* could not be read has none (rememberResult(), getResult()).             *)
THEOREM AppliedAlwaysRemembered == Spec => []AppliedIsRemembered
<1>1. ManagedInvariant => AppliedIsRemembered
  BY DEF ManagedInvariant, ResultsFit
<1> QED BY <1>1, ManagedInvariantHolds, PTL

(* When no operation waits and nothing is connected, no step but a new     *)
(* operation's or a restart changes what is shown, the project or the      *)
(* threads, and no result comes or goes but for its age: the run of a      *)
(* stopped connection is over.                                             *)
THEOREM StoppedAlwaysSilent == Spec => StoppedIsSilent
<1> DEFINE Silent == /\ UNCHANGED <<status, applied, threads, remembered>>
                     /\ Range(results) \ expired' \subseteq Range(results')
<1>1. ManagedInvariant /\ [Next]_vars
        => [queue = <<>> /\ ~connected /\ restarts' = restarts => Silent]_vars
  <2> SUFFICES ASSUME QueueFits, RunFits, MemoryFits, restarts \in Nat, [Next]_vars, queue = <<>>,
                      ~connected, restarts' = restarts
               PROVE  Silent
    BY DEF ManagedInvariant, ResultsFit
  <2>1. run = "none" /\ turn.stage = "none"
    BY DEF QueueFits, RunFits
  <2>2. CASE UNCHANGED vars
    BY <2>2 DEF vars, supervisor, disk, memory, project
  <2>3. CASE Restart
    BY <2>3 DEF Restart
  <2>4. CASE FailedRevocation \/ OperationStep
    <3>1. queue # <<>>
      BY <2>4 DEF FailedRevocation, RevokeFails, OperationStep, ConnectReturns, ConnectSwitches,
                  ConnectAuthorizes, DisconnectBegins, StopEnds, DisconnectEnds, CancelEnds,
                  DisposeEnds, CancelRefused, CancelBegins, DisposeBegins, OpenServer,
                  RecoverThread, OpenEnds, OpenFails, Connected, ConnectEnds, Untouched,
                  TouchFails, Opening, Runs
    <3> QED BY <3>1
  <2>5. CASE ((\E r \in Requests : Accept(r)) \/ Dispose \/ GrantGiven) /\ Quiet
    BY <2>5 DEF Accept, Dispose, GrantGiven, Quiet, disk, memory, project
  <2>6. CASE TurnStep
    BY <2>1, <2>6, TurnStepMoves DEF TurnMoves, RunFits, Reports, ReportEnds
  <2>7. CASE PumpStep
    BY <2>1, <2>7 DEF PumpStep, Claim, LeaseLost, Skip, Deliver, DeliverToNobody, RunEnds,
                      ServerFails, Take
  <2>8. CASE (\E e \in DOMAIN results : GetResult(e)) /\ Quiet
    <3>1. PICK e \in DOMAIN results : GetResult(e)
      BY <2>8
    <3>2. UNCHANGED <<status, applied, threads>>
      BY <2>8, <3>1 DEF GetResult, Quiet, disk, project
    <3> QED BY <3>1, <3>2, GetResultKeeps
  <2> QED BY <2>2, <2>3, <2>4, <2>5, <2>6, <2>7, <2>8 DEF Next, Goes, Steps
<1> QED BY <1>1, ManagedInvariantHolds, PTL DEF Spec, StoppedIsSilent
=============================================================================
