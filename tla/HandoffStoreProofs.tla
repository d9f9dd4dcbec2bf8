------------------------- MODULE HandoffStoreProofs -------------------------
(***************************************************************************)
(* Proofs about HandoffStore, for any number of requests, connectors and   *)
(* waiters, any durations and any limits.                                  *)
(***************************************************************************)
EXTENDS HandoffStore, FiniteSetTheorems, SequenceTheorems, TLAPS

(* Summaries from newest to oldest, each older than the bound.             *)
Ordered(summaries, bound) ==
  \A i \in 1..Len(summaries) :
    /\ summaries[i].cursor < bound
    /\ \A j \in 1..Len(summaries) : i < j => summaries[i].cursor > summaries[j].cursor

(* The undefined handoff and record are not handoffs and records.          *)
LEMMA NullsAreApart ==
  /\ NoHandoff \notin Handoff
  /\ NoRecord \notin Record
BY StoreAssumption DEF NoHandoff, NoRecord, Handoff, Record

(* Archiving puts the current handoff in front and keeps as much of the    *)
(* history as the limit allows, in its order.                              *)
LEMMA ArchiveKeepsOrder ==
  ASSUME current \in Handoff, NEW state \in {"expired", "superseded"},
         NEW summaries \in Seq(Summary), Ordered(summaries, current.cursor)
  PROVE  /\ Archive(state, summaries) \in Seq(Summary)
         /\ Len(Archive(state, summaries)) \in 1..MaxHistory
         /\ Archive(state, summaries)[1].cursor = current.cursor
         /\ Ordered(Archive(state, summaries), current.cursor + 1)
<1> DEFINE first    == [cursor |-> current.cursor, state |-> state]
           archived == <<first>> \o summaries
           size     == IF Len(archived) < MaxHistory THEN Len(archived) ELSE MaxHistory
           kept     == SubSeq(archived, 1, size)
<1> USE StoreAssumption
<1>1. first \in Summary /\ <<first>> \in Seq(Summary) /\ current.cursor \in Nat
  BY DEF Handoff, Summary
<1>2. /\ archived \in Seq(Summary) /\ Len(archived) = Len(summaries) + 1
      /\ archived[1] = first
      /\ \A i \in 2..Len(archived) : archived[i] = summaries[i - 1] /\ i - 1 \in 1..Len(summaries)
  <2>1. Len(<<first>>) = 1 /\ <<first>>[1] = first /\ Len(summaries) \in Nat
    BY LenProperties
  <2> HIDE DEF first
  <2> QED BY <1>1, <2>1, ConcatProperties
<1>3. size \in 1..MaxHistory /\ size <= Len(archived)
  BY <1>2, LenProperties
<1> HIDE DEF archived, size
<1>4. \A i \in 1..size : archived[i] \in Summary
  BY <1>2, <1>3, ElementOfSeq
<1>5. kept \in Seq(Summary) /\ Len(kept) = size /\ \A i \in 1..size : kept[i] = archived[i]
  BY <1>3, <1>4, SubSeqProperties
<1>6. Archive(state, summaries) = kept
  BY DEF Archive, archived, size
<1> HIDE DEF kept, first
<1>7. \A i \in 1..Len(summaries) : summaries[i].cursor \in Nat
  <2>1. \A i \in 1..Len(summaries) : summaries[i] \in Summary
    BY ElementOfSeq
  <2> QED BY <2>1 DEF Summary
<1>8. Ordered(kept, current.cursor + 1)
  <2> SUFFICES ASSUME NEW i \in 1..size
               PROVE  /\ kept[i].cursor < current.cursor + 1
                      /\ \A j \in 1..size : i < j => kept[i].cursor > kept[j].cursor
    BY <1>5 DEF Ordered
  <2>1. CASE i = 1
    <3>1. kept[i].cursor = current.cursor
      BY <1>2, <1>3, <1>5, <2>1 DEF first
    <3>2. ASSUME NEW j \in 1..size, i < j PROVE kept[j].cursor < current.cursor
      <4>1. kept[j] = summaries[j - 1] /\ j - 1 \in 1..Len(summaries)
        BY <1>2, <1>3, <1>5, <2>1, <3>2
      <4> QED BY <4>1 DEF Ordered
    <3> QED BY <1>1, <3>1, <3>2
  <2>2. CASE i # 1
    <3>1. kept[i] = summaries[i - 1] /\ i - 1 \in 1..Len(summaries)
      BY <1>2, <1>3, <1>5, <2>2
    <3>2. ASSUME NEW j \in 1..size, i < j PROVE kept[i].cursor > kept[j].cursor
      <4>1. kept[j] = summaries[j - 1] /\ j - 1 \in 1..Len(summaries) /\ i - 1 < j - 1
        BY <1>2, <1>3, <1>5, <2>2, <3>2
      <4> QED BY <3>1, <4>1 DEF Ordered
    <3>3. kept[i].cursor < current.cursor /\ kept[i].cursor \in Nat
      BY <1>7, <3>1 DEF Ordered
    <3> QED BY <1>1, <3>2, <3>3
  <2> QED BY <2>1, <2>2
<1>9. kept[1].cursor = current.cursor
  BY <1>2, <1>3, <1>5 DEF first
<1> QED BY <1>3, <1>5, <1>6, <1>8, <1>9

(* The invariant holds of the freshly created store.                       *)
LEMMA InitInvariant == Init => StoreInvariant
<1> SUFFICES ASSUME Init PROVE StoreInvariant
  OBVIOUS
<1> USE StoreAssumption DEF Init
<1>1. Records = {} /\ Waiting = {}
  BY DEF Records, Waiting, Idle
<1>2. Cardinality(Records) = 0 /\ Cardinality(Waiting) = 0 /\ PoolsAreFinite
  BY <1>1, FS_EmptySet DEF PoolsAreFinite
<1>3. TypeOK
  <2>1. history \in Seq(Summary) /\ Len(history) = 0
    BY EmptySeq
  <2>2. MaxHistory \in Nat /\ MaxRequestIds \in Nat /\ MaxWaiters \in Nat /\ MaxRevisions \in Nat
    OBVIOUS
  <2>3. idempotency \in [Requests -> Record \cup {NoRecord}]
    OBVIOUS
  <2>4. waits \in [Waiters -> Wait \cup {Idle}]
    OBVIOUS
  <2>5. storeClosed \in BOOLEAN
    OBVIOUS
  <2> QED BY <1>2, <2>1, <2>2, <2>3, <2>4, <2>5 DEF TypeOK
<1> QED
  BY <1>1, <1>2, <1>3 DEF StoreInvariant, HistoryIsInOrder, OfferIsRecorded, NoHandoffIsMissed

-----------------------------------------------------------------------------
(* What sweep leaves, which every handler starts from.                     *)

(* Sweeping drops records, and none of the handoff that stays on offer.    *)
LEMMA SweptRecords ==
  ASSUME StoreInvariant
  PROVE  LET Left == {request \in Requests : SweptIdempotency[request] # NoRecord}
         IN  /\ SweptIdempotency \in [Requests -> Record \cup {NoRecord}]
             /\ IsFiniteSet(Left) /\ Cardinality(Left) \in Nat
             /\ Left \subseteq Records /\ Cardinality(Left) <= MaxRequestIds
             /\ SweptCurrent # NoHandoff =>
                  SweptIdempotency[current.request] = idempotency[current.request]
<1> DEFINE Left == {request \in Requests : SweptIdempotency[request] # NoRecord}
<1> USE StoreAssumption, NullsAreApart
<1>1. idempotency \in [Requests -> Record \cup {NoRecord}]
  BY DEF StoreInvariant, TypeOK
<1>2. SweptIdempotency \in [Requests -> Record \cup {NoRecord}]
  BY <1>1 DEF SweptIdempotency
<1>3. Left \in SUBSET Records
  BY <1>1 DEF SweptIdempotency, Records
<1>4. IsFiniteSet(Left) /\ Cardinality(Left) <= Cardinality(Records)
  BY <1>3, FS_Subset DEF StoreInvariant, PoolsAreFinite
<1>5. Cardinality(Left) \in Nat /\ Cardinality(Records) \in Nat /\ Cardinality(Records) <= MaxRequestIds
  BY <1>4, FS_CardinalityType DEF StoreInvariant, PoolsAreFinite, TypeOK
<1>6. ASSUME SweptCurrent # NoHandoff
      PROVE  SweptIdempotency[current.request] = idempotency[current.request]
  <2>1. current \in Handoff /\ current.left \in Nat /\ current.left # 0
    BY <1>6 DEF SweptCurrent, Lapsed, StoreInvariant, TypeOK, Handoff
  <2>2. current.request \in Requests
    BY <2>1 DEF Handoff
  <2>3. idempotency[current.request] \in Record /\ idempotency[current.request].left >= current.left
    BY <1>1, <2>1, <2>2 DEF StoreInvariant, OfferIsRecorded
  <2>4. idempotency[current.request].left # 0
    BY <2>1, <2>3 DEF Record
  <2> QED BY <2>2, <2>4 DEF SweptIdempotency
<1> QED BY <1>2, <1>3, <1>4, <1>5, <1>6

(* Sweeping archives what has expired and keeps the rest as it was.        *)
LEMMA SweptHandoff ==
  ASSUME StoreInvariant
  PROVE  /\ SweptCurrent \in Handoff \cup {NoHandoff}
         /\ SweptCurrent # NoHandoff =>
              /\ SweptCurrent = current /\ SweptHistory = history
              /\ current.left > 0 /\ current.cursor = revision
              /\ Ordered(SweptHistory, revision)
         /\ SweptHistory \in Seq(Summary) /\ Len(SweptHistory) <= MaxHistory
         /\ Ordered(SweptHistory, revision + 1)
         /\ (SweptCurrent = NoHandoff /\ revision > 0 /\ ~storeClosed) =>
              Len(SweptHistory) > 0 /\ SweptHistory[1].cursor = revision
<1> USE StoreAssumption, NullsAreApart
<1>1. /\ current \in Handoff \cup {NoHandoff} /\ history \in Seq(Summary)
      /\ Len(history) <= MaxHistory /\ revision \in Nat
      /\ current # NoHandoff => current.cursor = revision /\ Ordered(history, revision)
      /\ Len(history) \in Nat
  BY LenProperties DEF StoreInvariant, TypeOK, HistoryIsInOrder, Ordered
<1>2. \A i \in 1..Len(history) : history[i].cursor \in Nat
  <2>1. \A i \in 1..Len(history) : history[i] \in Summary
    BY <1>1, ElementOfSeq
  <2> QED BY <2>1 DEF Summary
<1>3. Ordered(history, revision + 1)
  BY <1>1, <1>2 DEF StoreInvariant, HistoryIsInOrder, Ordered
<1>4. CASE Lapsed
  <2>1. current \in Handoff /\ current.cursor = revision /\ Ordered(history, current.cursor)
    BY <1>1, <1>4 DEF Lapsed
  <2>2. SweptCurrent = NoHandoff /\ SweptHistory = Archive("expired", history)
    BY <1>4 DEF SweptCurrent, SweptHistory
  <2> HIDE DEF Handoff, Summary
  <2> QED BY <1>1, <2>1, <2>2, ArchiveKeepsOrder
<1>5. CASE ~Lapsed
  <2>1. SweptCurrent = current /\ SweptHistory = history
    BY <1>5 DEF SweptCurrent, SweptHistory
  <2>2. current # NoHandoff => current.left > 0
    BY <1>1, <1>5 DEF Lapsed, Handoff
  <2> QED BY <1>1, <1>3, <2>1, <2>2 DEF StoreInvariant, HistoryIsInOrder
<1> QED BY <1>4, <1>5

(* What a swept store needs to be in order, whatever is written to the     *)
(* receipts and the waiters.                                               *)
StoredIsSound ==
  /\ history \in Seq(Summary) /\ Len(history) <= MaxHistory
  /\ idempotency \in [Requests -> Record \cup {NoRecord}]
  /\ IsFiniteSet(Records) /\ Cardinality(Records) <= MaxRequestIds
  /\ HistoryIsInOrder
  /\ OfferIsRecorded

(* Sweeping keeps the store in order, and so does a receipt after it.      *)
LEMMA SweptIsSound ==
  ASSUME StoreInvariant, ~storeClosed, UNCHANGED <<storeClosed, revision>>,
         history' = SweptHistory, idempotency' = SweptIdempotency,
         current' # NoHandoff =>
           /\ SweptCurrent # NoHandoff
           /\ current'.cursor = current.cursor /\ current'.left = current.left
           /\ current'.request = current.request,
         SweptCurrent # NoHandoff => current' # NoHandoff
  PROVE  StoredIsSound'
<1> USE StoreAssumption, NullsAreApart
<1>1. Records' = {request \in Requests : SweptIdempotency[request] # NoRecord}
  BY DEF Records
<1>2. /\ idempotency' \in [Requests -> Record \cup {NoRecord}]
      /\ IsFiniteSet(Records') /\ Cardinality(Records') <= MaxRequestIds
  BY <1>1, SweptRecords
<1>3. history' \in Seq(Summary) /\ Len(history') <= MaxHistory
  BY SweptHandoff
<1>4. HistoryIsInOrder'
  <2>1. /\ Ordered(history', revision + 1) /\ revision \in Nat
        /\ current' # NoHandoff => Ordered(history', revision) /\ current'.cursor = revision
        /\ (current' = NoHandoff /\ revision > 0) => Len(history') > 0 /\ history'[1].cursor = revision
    BY SweptHandoff DEF StoreInvariant, TypeOK
  <2>2. \A i \in 1..Len(history') : history'[i] \in Summary
    BY <1>3, ElementOfSeq
  <2>3. \A i \in 1..Len(history') : history'[i].cursor \in Nat
    BY <2>2 DEF Summary
  <2> QED BY <2>1, <2>3 DEF HistoryIsInOrder, Ordered
<1>5. OfferIsRecorded'
  <2> SUFFICES ASSUME current' # NoHandoff PROVE OfferIsRecorded'
    BY DEF OfferIsRecorded
  <2>1. idempotency'[current.request] = idempotency[current.request] /\ current # NoHandoff
    BY SweptRecords, SweptHandoff DEF SweptCurrent
  <2> QED BY <2>1 DEF OfferIsRecorded, StoreInvariant
<1> QED BY <1>2, <1>3, <1>4, <1>5 DEF StoredIsSound

(* A call that only sweeps the store, but may move one waiter.             *)
LEMMA SweepInvariant ==
  ASSUME StoreInvariant, SweepStore, UNCHANGED revision,
         waits' \in [Waiters -> Wait \cup {Idle}],
         IsFiniteSet(Waiting'), Cardinality(Waiting') <= MaxWaiters,
         NoHandoffIsMissed',
         \A waiter \in Waiting' : waits'[waiter].after <= revision
  PROVE  StoreInvariant'
<1> USE StoreAssumption, NullsAreApart
<1>1. StoredIsSound'
  <2>1. SweptCurrent # NoHandoff => SweptCurrent = current
    BY SweptHandoff
  <2> QED BY <2>1, SweptIsSound DEF SweepStore
<1>2. /\ current' \in Handoff \cup {NoHandoff} /\ (current' # NoHandoff => current' = current)
      /\ storeClosed' = storeClosed /\ ~storeClosed
  BY SweptHandoff DEF SweepStore
<1>3. current' # NoHandoff => IsFiniteSet(current'.receipts) /\ Cardinality(current'.receipts) <= MaxReceipts
  BY <1>2 DEF StoreInvariant, PoolsAreFinite, TypeOK
<1>4. revision' \in 0..MaxRevisions /\ storeClosed' \in BOOLEAN
  BY <1>2 DEF StoreInvariant, TypeOK
<1> QED
  BY <1>1, <1>2, <1>3, <1>4 DEF StoredIsSound, StoreInvariant, TypeOK, PoolsAreFinite

(* Sweeping alone misses nobody.                                           *)
LEMMA ReadInvariant ==
  ASSUME StoreInvariant, ReadStore, UNCHANGED revision
  PROVE  StoreInvariant'
<1>1. Waiting' = Waiting /\ SweepStore /\ waits' = waits
  BY DEF ReadStore, Waiting
<1>2. current' # NoHandoff => current' = current
  BY <1>1 DEF SweepStore, SweptCurrent
<1>3. NoHandoffIsMissed'
  BY <1>1, <1>2 DEF NoHandoffIsMissed, StoreInvariant
<1> QED BY <1>1, <1>3, SweepInvariant DEF StoreInvariant, TypeOK, PoolsAreFinite

(* A new handoff is the newest, is recorded, and answers every waiter.     *)
LEMMA PublishInvariant ==
  ASSUME StoreInvariant, NEW request \in Requests, StorePublish(request)
  PROVE  StoreInvariant'
<1> USE StoreAssumption, NullsAreApart
<1> DEFINE Left == {r \in Requests : SweptIdempotency[r] # NoRecord}
<1>1. /\ revision \in 0..MaxRevisions /\ revision' = revision + 1 /\ revision' \in 1..MaxRevisions
      /\ ~storeClosed /\ storeClosed' = storeClosed /\ storeClosed' \in BOOLEAN
  BY DEF StorePublish, CanPublish, StoreInvariant, TypeOK
<1>2. /\ current' \in Handoff /\ current' # NoHandoff /\ current'.cursor = revision'
      /\ current'.left = HandoffTtl /\ current'.request = request /\ current'.receipts = {}
  BY <1>1 DEF StorePublish, Handoff
<1>3. IsFiniteSet(current'.receipts) /\ Cardinality(current'.receipts) <= MaxReceipts
  BY <1>2, FS_EmptySet
<1>4. history' \in Seq(Summary) /\ Len(history') <= MaxHistory /\ Ordered(history', revision')
  <2>1. CASE SweptCurrent = NoHandoff
    BY <1>1, <2>1, SweptHandoff DEF StorePublish
  <2>2. CASE SweptCurrent # NoHandoff
    <3>1. /\ current \in Handoff /\ current.cursor = revision
          /\ history \in Seq(Summary) /\ Ordered(history, current.cursor)
      BY <2>2, SweptHandoff
    <3>2. history' = Archive("superseded", history)
      BY <2>2 DEF StorePublish
    <3> HIDE DEF Handoff, Summary
    <3> QED BY <1>1, <3>1, <3>2, ArchiveKeepsOrder
  <2> QED BY <2>1, <2>2
<1>5. /\ idempotency' \in [Requests -> Record \cup {NoRecord}]
      /\ idempotency'[request] = [cursor |-> revision + 1, left |-> RequestIdTtl]
      /\ idempotency'[request] \in Record
      /\ \A r \in Requests \ {request} : idempotency'[r] = SweptIdempotency[r]
  <2>1. SweptIdempotency \in [Requests -> Record \cup {NoRecord}]
    BY SweptRecords
  <2>2. [cursor |-> revision + 1, left |-> RequestIdTtl] \in Record
    BY <1>1 DEF Record
  <2> QED BY <2>1, <2>2 DEF StorePublish
<1>6. IsFiniteSet(Records') /\ Cardinality(Records') <= MaxRequestIds
  <2>1. Records' = Left \cup {request}
    BY <1>5 DEF Records
  <2>2. IsFiniteSet(Left) /\ Cardinality(Left) \in Nat
    BY SweptRecords
  <2>3. Cardinality(Left) < MaxRequestIds
    BY DEF StorePublish, CanPublish
  <2> HIDE DEF Left
  <2>4. /\ IsFiniteSet(Left \cup {request})
        /\ Cardinality(Left \cup {request}) =
             IF request \in Left THEN Cardinality(Left) ELSE Cardinality(Left) + 1
    BY <2>2, FS_AddElement
  <2>5. Cardinality(Left \cup {request}) \in Nat
    BY <2>4, FS_CardinalityType
  <2> QED BY <2>1, <2>2, <2>3, <2>4, <2>5
<1>7. waits' \in [Waiters -> Wait \cup {Idle}] /\ Waiting' = {}
  <2>1. waits \in [Waiters -> Wait \cup {Idle}]
    BY DEF StoreInvariant, TypeOK
  <2>2. ASSUME NEW waiter \in Waiters
        PROVE  waits'[waiter] \in Wait \cup {Idle} /\ waits'[waiter].state # "waiting"
    <3>1. CASE waiter \in Waiting
      <4>1. waits[waiter] \in Wait /\ waits[waiter].after \in 0..MaxRevisions
        BY <2>1, <3>1 DEF Waiting, Idle, Wait
      <4>2. waits'[waiter] = Answer(waiter, revision + 1)
        BY <3>1 DEF StorePublish
      <4> QED BY <1>1, <4>1, <4>2 DEF Answer, Wait
    <3>2. CASE waiter \notin Waiting
      BY <2>1, <3>2 DEF StorePublish, Waiting
    <3> QED BY <3>1, <3>2
  <2>3. waits' = [waiter \in Waiters |-> waits'[waiter]]
    BY DEF StorePublish
  <2> QED BY <2>2, <2>3 DEF Waiting
<1>8. IsFiniteSet(Waiting') /\ Cardinality(Waiting') <= MaxWaiters
  BY <1>7, FS_EmptySet
<1>9. HistoryIsInOrder' /\ OfferIsRecorded' /\ NoHandoffIsMissed'
  <2>1. HistoryIsInOrder'
    <3>1. \A i \in 1..Len(history') : history'[i] \in Summary
      BY <1>4, ElementOfSeq
    <3>2. \A i \in 1..Len(history') : history'[i].cursor \in Nat
      BY <3>1 DEF Summary
    <3> QED BY <1>1, <1>2, <1>4, <3>2 DEF HistoryIsInOrder, Ordered
  <2>2. OfferIsRecorded'
    BY <1>1, <1>2, <1>5 DEF OfferIsRecorded
  <2> QED BY <1>7, <2>1, <2>2 DEF NoHandoffIsMissed
<1>10. TypeOK'
  BY <1>1, <1>2, <1>3, <1>4, <1>5, <1>6, <1>7, <1>8 DEF TypeOK
<1> QED
  BY <1>1, <1>3, <1>6, <1>7, <1>8, <1>9, <1>10 DEF StoreInvariant, PoolsAreFinite

(* A receipt is added to the handoff that stays on offer, and counted.     *)
LEMMA AckInvariant ==
  ASSUME StoreInvariant, UNCHANGED revision, NEW cursor, NEW receiver \in Receivers,
         Ack(cursor, receiver)
  PROVE  StoreInvariant'
<1> USE StoreAssumption, NullsAreApart
<1>1. /\ current \in Handoff /\ SweptHistory = history /\ SweptCurrent = current
      /\ ~storeClosed /\ storeClosed' = storeClosed /\ waits' = waits
  BY SweptHandoff DEF Ack, CanAck
<1>2. /\ current' \in Handoff /\ current' # NoHandoff
      /\ current'.cursor = current.cursor /\ current'.left = current.left
      /\ current'.request = current.request
      /\ current'.receipts = current.receipts \cup {receiver}
  BY <1>1 DEF Ack, Handoff
<1>3. StoredIsSound'
  BY <1>1, <1>2, SweptIsSound DEF Ack, CanAck
<1>4. IsFiniteSet(current'.receipts) /\ Cardinality(current'.receipts) <= MaxReceipts
  <2>1. IsFiniteSet(current.receipts) /\ Cardinality(current.receipts) <= MaxReceipts
    BY <1>1 DEF StoreInvariant, PoolsAreFinite, TypeOK
  <2>2. Cardinality(current.receipts) \in Nat
    BY <2>1, FS_CardinalityType
  <2>3. /\ IsFiniteSet(current.receipts \cup {receiver})
        /\ Cardinality(current.receipts \cup {receiver}) =
             IF receiver \in current.receipts THEN Cardinality(current.receipts)
             ELSE Cardinality(current.receipts) + 1
    BY <2>1, FS_AddElement
  <2>4. receiver \in current.receipts \/ Cardinality(current.receipts) < MaxReceipts
    BY DEF Ack, CanAck
  <2> QED BY <1>2, <2>1, <2>2, <2>3, <2>4
<1>5. Waiting' = Waiting /\ NoHandoffIsMissed'
  BY <1>1, <1>2 DEF Waiting, NoHandoffIsMissed, StoreInvariant
<1>6. TypeOK'
  BY <1>1, <1>2, <1>3, <1>4, <1>5 DEF StoreInvariant, TypeOK, StoredIsSound
<1> QED
  BY <1>1, <1>2, <1>3, <1>4, <1>5, <1>6 DEF StoreInvariant, PoolsAreFinite, StoredIsSound

(* Who is left waiting already has what is on offer, and had room to wait. *)
LEMMA StartWaitInvariant ==
  ASSUME StoreInvariant, UNCHANGED revision, NEW waiter \in Waiters, NEW after \in 0..revision,
         StartWait(waiter, after)
  PROVE  StoreInvariant'
<1> USE StoreAssumption, NullsAreApart
<1>1. /\ waits \in [Waiters -> Wait \cup {Idle}] /\ revision \in 0..MaxRevisions
      /\ IsFiniteSet(Waiting) /\ Cardinality(Waiting) \in Nat /\ Cardinality(Waiting) <= MaxWaiters
  <2>1. Cardinality(Waiting) \in Nat
    BY FS_CardinalityType DEF StoreInvariant, PoolsAreFinite
  <2> QED BY <2>1 DEF StoreInvariant, TypeOK, PoolsAreFinite
<1>2. /\ SweepStore /\ waiter \notin Waiting /\ after \in 0..MaxRevisions
      /\ waits' = [waits EXCEPT ![waiter] = WaitOutcome(after)]
  BY <1>1 DEF StartWait
<1>3. WaitOutcome(after) \in Wait /\ WaitOutcome(after).after = after
  <2>1. SweptCurrent # NoHandoff => current.cursor \in 1..MaxRevisions
    BY SweptHandoff DEF Handoff
  <2> QED BY <1>2, <2>1 DEF WaitOutcome, Wait
<1>4. WaitOutcome(after).state = "waiting" =>
        /\ Cardinality(Waiting) < MaxWaiters
        /\ SweptCurrent # NoHandoff => current.cursor = after
  BY <1>1 DEF WaitOutcome
<1>5. waits' \in [Waiters -> Wait \cup {Idle}] /\ waits'[waiter] = WaitOutcome(after)
  BY <1>1, <1>2, <1>3
<1>6. Waiting' = IF WaitOutcome(after).state = "waiting" THEN Waiting \cup {waiter} ELSE Waiting
  BY <1>1, <1>2, <1>5 DEF Waiting
<1>7. IsFiniteSet(Waiting') /\ Cardinality(Waiting') <= MaxWaiters
  <2>1. /\ IsFiniteSet(Waiting \cup {waiter})
        /\ Cardinality(Waiting \cup {waiter}) = Cardinality(Waiting) + 1
    BY <1>1, <1>2, FS_AddElement
  <2> QED BY <1>1, <1>4, <1>6, <2>1
<1>8. NoHandoffIsMissed'
  <2> SUFFICES ASSUME NEW other \in Waiting', current' # NoHandoff
               PROVE  waits'[other].after = current'.cursor
    BY DEF NoHandoffIsMissed
  <2>1. current' = current /\ SweptCurrent # NoHandoff /\ current # NoHandoff
    BY <1>2 DEF SweepStore, SweptCurrent
  <2>2. CASE other = waiter
    BY <1>2, <1>3, <1>4, <1>5, <1>6, <2>1, <2>2
  <2>3. CASE other # waiter
    BY <1>1, <1>2, <1>6, <2>1, <2>3 DEF Waiting, StoreInvariant, NoHandoffIsMissed
  <2> QED BY <2>2, <2>3
<1>9. \A other \in Waiting' : waits'[other].after <= revision
  BY <1>1, <1>2, <1>3, <1>5, <1>6 DEF Waiting, StoreInvariant
<1> QED BY <1>2, <1>5, <1>7, <1>8, <1>9, SweepInvariant

(* A wait that times out or is aborted only leaves the pool.               *)
LEMMA EndWaitInvariant ==
  ASSUME StoreInvariant, UNCHANGED revision, NEW waiter \in Waiters,
         NEW state \in {"timeout", "closed"}, EndWait(waiter, state)
  PROVE  StoreInvariant'
<1> USE StoreAssumption, NullsAreApart
<1>1. waits \in [Waiters -> Wait \cup {Idle}] /\ waits[waiter] \in Wait
  BY DEF EndWait, Waiting, Idle, StoreInvariant, TypeOK
<1>2. /\ waits' \in [Waiters -> Wait \cup {Idle}]
      /\ waits'[waiter].state = state
      /\ \A other \in Waiters \ {waiter} : waits'[other] = waits[other]
  <2>1. /\ [waits[waiter] EXCEPT !.state = state] \in Wait
        /\ [waits[waiter] EXCEPT !.state = state].state = state
    BY <1>1 DEF EndWait, Waiting, Wait
  <2> QED BY <1>1, <2>1 DEF EndWait
<1>3. /\ Waiting' \in SUBSET Waiting
      /\ \A other \in Waiting' : waits'[other] = waits[other]
  BY <1>2 DEF Waiting
<1>4. IsFiniteSet(Waiting') /\ Cardinality(Waiting') <= MaxWaiters
  <2>1. IsFiniteSet(Waiting) /\ Cardinality(Waiting) <= MaxWaiters
    BY DEF StoreInvariant, PoolsAreFinite, TypeOK
  <2>2. IsFiniteSet(Waiting') /\ Cardinality(Waiting') <= Cardinality(Waiting)
    BY <1>3, <2>1, FS_Subset
  <2>3. Cardinality(Waiting) \in Nat /\ Cardinality(Waiting') \in Nat
    BY <2>1, <2>2, FS_CardinalityType
  <2> QED BY <2>1, <2>2, <2>3
<1>5. /\ UNCHANGED <<current, history, idempotency, storeClosed>> /\ Records' = Records
  BY DEF EndWait, Records
<1>6. TypeOK'
  BY <1>2, <1>4, <1>5 DEF StoreInvariant, TypeOK
<1> QED
  BY <1>3, <1>4, <1>5, <1>6 DEF StoreInvariant, PoolsAreFinite, HistoryIsInOrder, OfferIsRecorded,
     NoHandoffIsMissed

(* Closing empties the store and answers everyone.                         *)
LEMMA CloseInvariant ==
  ASSUME StoreInvariant, UNCHANGED revision, CloseStore
  PROVE  StoreInvariant'
<1> USE StoreAssumption, NullsAreApart
<1>1. /\ waits' \in [Waiters -> Wait \cup {Idle}] /\ Waiting' = {} /\ Records' = {}
  <2>1. waits \in [Waiters -> Wait \cup {Idle}]
    BY DEF StoreInvariant, TypeOK
  <2>2. ASSUME NEW waiter \in Waiters
        PROVE  waits'[waiter] \in Wait \cup {Idle} /\ waits'[waiter].state # "waiting"
    <3>1. CASE waiter \in Waiting
      <4>1. waits[waiter] \in [state: {"waiting", "timeout", "closed", "busy", "unknown"},
                               after: 0..MaxRevisions]
        BY <2>1, <3>1 DEF Waiting, Idle, Wait
      <4> QED BY <3>1, <4>1 DEF CloseStore, Wait
    <3>2. CASE waiter \notin Waiting
      BY <2>1, <3>2 DEF CloseStore, Waiting
    <3> QED BY <3>1, <3>2
  <2> QED BY <2>2 DEF CloseStore, Waiting, Records
<1>2. /\ PoolsAreFinite' /\ Cardinality(Waiting') = 0 /\ Cardinality(Records') = 0
  BY <1>1, FS_EmptySet DEF PoolsAreFinite, CloseStore
<1>3. history' \in Seq(Summary) /\ Len(history') = 0 /\ revision' \in 0..MaxRevisions
  BY EmptySeq DEF CloseStore, StoreInvariant, TypeOK
<1>4. storeClosed' \in BOOLEAN
  BY DEF CloseStore
<1>5. idempotency' \in [Requests -> Record \cup {NoRecord}]
  BY DEF CloseStore
<1>6. 0 <= MaxWaiters /\ 0 <= MaxRequestIds /\ 0 <= MaxHistory
  OBVIOUS
<1> QED
  BY <1>1, <1>2, <1>3, <1>4, <1>5, <1>6 DEF CloseStore, StoreInvariant, TypeOK, HistoryIsInOrder,
     OfferIsRecorded, NoHandoffIsMissed

(* The clock runs for the handoff and the records alike, and the record    *)
(* stays ahead.                                                            *)
LEMMA TickInvariant ==
  ASSUME StoreInvariant, UNCHANGED revision, TickStore
  PROVE  StoreInvariant'
<1> USE StoreAssumption, NullsAreApart
<1>1. /\ UNCHANGED <<history, waits, storeClosed>> /\ Waiting' = Waiting
  BY DEF TickStore, Waiting
<1>2. /\ current' \in Handoff \cup {NoHandoff}
      /\ current' # NoHandoff <=> current # NoHandoff
      /\ current # NoHandoff =>
           /\ current'.cursor = current.cursor /\ current'.request = current.request
           /\ current'.receipts = current.receipts
           /\ current.left \in Nat /\ current'.left \in Nat
           /\ current'.left = IF current.left = 0 THEN 0 ELSE current.left - 1
  BY SMTT(30) DEF TickStore, StoreInvariant, TypeOK, Handoff
<1>3. ASSUME NEW request \in Requests
      PROVE  /\ idempotency'[request] \in Record \cup {NoRecord}
             /\ idempotency'[request] # NoRecord <=> idempotency[request] # NoRecord
             /\ idempotency[request] # NoRecord =>
                  /\ idempotency'[request].cursor = idempotency[request].cursor
                  /\ idempotency[request].left \in Nat
                  /\ idempotency'[request].left =
                       IF idempotency[request].left = 0 THEN 0 ELSE idempotency[request].left - 1
  <2>1. idempotency[request] \in Record \cup {NoRecord}
    BY DEF StoreInvariant, TypeOK
  <2> QED BY <2>1 DEF TickStore, Record
<1>4. idempotency' \in [Requests -> Record \cup {NoRecord}] /\ Records' = Records
  BY <1>3 DEF TickStore, Records
<1>5. TypeOK'
  BY <1>1, <1>2, <1>4 DEF StoreInvariant, TypeOK
<1>6. OfferIsRecorded'
  <2> SUFFICES ASSUME current # NoHandoff PROVE OfferIsRecorded'
    BY <1>2 DEF OfferIsRecorded
  <2>1. current.request \in Requests
    BY DEF StoreInvariant, TypeOK, Handoff
  <2> QED BY SMTT(30), <1>2, <1>3, <2>1 DEF OfferIsRecorded, StoreInvariant
<1> QED
  BY <1>1, <1>2, <1>4, <1>5, <1>6 DEF StoreInvariant, PoolsAreFinite, HistoryIsInOrder,
     NoHandoffIsMissed

-----------------------------------------------------------------------------

(* Every step of the store preserves the invariant.                        *)
LEMMA NextInvariant == StoreInvariant /\ [Next]_vars => StoreInvariant'
<1> SUFFICES ASSUME StoreInvariant, [Next]_vars PROVE StoreInvariant'
  OBVIOUS
<1>1. CASE UNCHANGED vars
  BY <1>1 DEF vars, storeVars, StoreInvariant, TypeOK, PoolsAreFinite, HistoryIsInOrder,
     OfferIsRecorded, NoHandoffIsMissed, Records, Waiting
<1>2. ASSUME NEW request \in Requests, StorePublish(request) PROVE StoreInvariant'
  BY <1>2, PublishInvariant
<1>3. CASE Call /\ UNCHANGED revision
  <2>1. CASE ReadStore
    BY <1>3, <2>1, ReadInvariant
  <2>2. ASSUME NEW cursor \in 1..revision, NEW receiver \in Receivers, Ack(cursor, receiver)
        PROVE  StoreInvariant'
    BY <1>3, <2>2, AckInvariant
  <2>3. ASSUME NEW waiter \in Waiters, NEW after \in 0..revision, StartWait(waiter, after)
        PROVE  StoreInvariant'
    BY <1>3, <2>3, StartWaitInvariant
  <2>4. ASSUME NEW waiter \in Waiters, WaitTimeout(waiter) \/ WaitAbort(waiter)
        PROVE  StoreInvariant'
    BY <1>3, <2>4, EndWaitInvariant DEF WaitTimeout, WaitAbort
  <2>5. CASE CloseStore
    BY <1>3, <2>5, CloseInvariant
  <2>6. CASE TickStore
    BY <1>3, <2>6, TickInvariant
  <2> QED BY <1>3, <2>1, <2>2, <2>3, <2>4, <2>5, <2>6 DEF Call
<1> QED BY <1>1, <1>2, <1>3 DEF Next

(* The inductive invariant of the store.                                   *)
THEOREM StoreInvariantHolds == Spec => []StoreInvariant
BY InitInvariant, NextInvariant, PTL DEF Spec

(* Type correctness: no pool of the store ever outgrows its limit.         *)
THEOREM TypeCorrect == Spec => []TypeOK
<1>1. StoreInvariant => TypeOK
  BY DEF StoreInvariant
<1> QED BY <1>1, StoreInvariantHolds, PTL

(* No client is ever left waiting for a handoff that is on offer.          *)
THEOREM HandoffNeverMissed == Spec => []NoHandoffIsMissed
<1>1. StoreInvariant => NoHandoffIsMissed
  BY DEF StoreInvariant
<1> QED BY <1>1, StoreInvariantHolds, PTL

(* The newest revision is on offer or heads the history, also once swept.  *)
LEMMA NewestInvariant == StoreInvariant => NewestIsKnown
<1> SUFFICES ASSUME StoreInvariant PROVE NewestIsKnown
  OBVIOUS
<1>1. ASSUME revision > 0, ~storeClosed PROVE Known(revision)
  <2>1. CASE SweptCurrent # NoHandoff
    BY <2>1, SweptHandoff DEF Known
  <2>2. CASE SweptCurrent = NoHandoff
    <3>1. Len(SweptHistory) > 0 /\ SweptHistory[1].cursor = revision /\ SweptHistory \in Seq(Summary)
      BY <1>1, <2>2, SweptHandoff
    <3>2. 1 \in 1..Len(SweptHistory)
      BY <3>1, LenProperties
    <3> QED BY <3>1, <3>2 DEF Known
  <2> QED BY <2>1, <2>2
<1> QED BY <1>1 DEF NewestIsKnown, StoreInvariant, HistoryIsInOrder

(* The newest revision stays reachable until the store is closed.          *)
THEOREM NewestAlwaysKnown == Spec => []NewestIsKnown
BY NewestInvariant, StoreInvariantHolds, PTL

(* While a handoff is on offer its publish request is replayed.            *)
THEOREM RetryAlwaysReplayed == Spec => []RetryIsReplayed
<1>1. StoreInvariant => RetryIsReplayed
  <2> SUFFICES ASSUME StoreInvariant, SweptCurrent # NoHandoff PROVE RetryIsReplayed
    BY DEF RetryIsReplayed
  <2>1. current # NoHandoff /\ SweptIdempotency[current.request] = idempotency[current.request]
    BY SweptRecords, SweptHandoff DEF SweptCurrent
  <2> QED BY <2>1 DEF RetryIsReplayed, Replayed, StoreInvariant, OfferIsRecorded
<1> QED BY <1>1, StoreInvariantHolds, PTL

(* What one step may answer a client with.                                 *)
LEMMA AnswerStep == StoreInvariant /\ [Next]_vars => AnswersAreNewStep
<1> SUFFICES ASSUME StoreInvariant, [Next]_vars PROVE AnswersAreNewStep
  OBVIOUS
<1> USE StoreAssumption, NullsAreApart
<1>1. waits' = waits => AnswersAreNewStep
  BY DEF AnswersAreNewStep
<1>2. CASE UNCHANGED vars
  BY <1>1, <1>2 DEF vars, storeVars
<1>3. ASSUME NEW request \in Requests, StorePublish(request) PROVE AnswersAreNewStep
  <2>1. /\ revision \in Nat /\ revision' = revision + 1
        /\ current' # NoHandoff /\ current'.cursor = revision' /\ current'.left > 0
    BY <1>3 DEF StorePublish, StoreInvariant, TypeOK, NoHandoff
  <2>2. ASSUME NEW waiter \in Waiters, waits'[waiter] # waits[waiter]
        PROVE  waits'[waiter].cursor = revision' /\ waits'[waiter].cursor > waits'[waiter].after
    <3>1. waiter \in Waiting /\ waits'[waiter] = Answer(waiter, revision + 1)
      BY <1>3, <2>2 DEF StorePublish
    <3>2. waits[waiter].after <= revision /\ waits[waiter].after \in Nat
      BY <3>1 DEF StoreInvariant, TypeOK, Waiting, Wait, Idle
    <3> QED BY <2>1, <3>1, <3>2 DEF Answer
  <2> QED BY <2>1, <2>2 DEF AnswersAreNewStep
<1>4. CASE Call /\ UNCHANGED revision
  <2>1. CASE ReadStore \/ (\E cursor \in 1..revision, receiver \in Receivers : Ack(cursor, receiver))
             \/ TickStore
    BY <1>1, <2>1 DEF ReadStore, Ack, TickStore
  <2>2. ASSUME NEW waiter \in Waiters, NEW after \in 0..revision, StartWait(waiter, after)
        PROVE  AnswersAreNewStep
    <3> SUFFICES ASSUME NEW other \in Waiters, waits'[other] # waits[other],
                        waits'[other].state = "handoff"
                 PROVE  /\ waits'[other].cursor = revision'
                        /\ waits'[other].cursor > waits'[other].after
                        /\ current' # NoHandoff /\ current'.cursor = revision' /\ current'.left > 0
      BY DEF AnswersAreNewStep
    <3>1. waits'[other] = WaitOutcome(after)
      BY <2>2 DEF StartWait, StoreInvariant, TypeOK
    <3>2. /\ SweptCurrent # NoHandoff /\ current.cursor # after
          /\ waits'[other].cursor = current.cursor /\ waits'[other].after = after
      BY <3>1 DEF WaitOutcome
    <3>3. /\ SweptCurrent = current /\ current.left > 0 /\ current.cursor = revision
          /\ revision \in Nat
      BY <3>2, SweptHandoff DEF StoreInvariant, TypeOK
    <3>4. current' = SweptCurrent
      BY <2>2 DEF StartWait, SweepStore
    <3> QED BY <1>4, <3>2, <3>3, <3>4
  <2>3. ASSUME NEW waiter \in Waiters, NEW state \in {"timeout", "closed"}, EndWait(waiter, state)
        PROVE  AnswersAreNewStep
    <3>1. waits[waiter] \in Wait
      BY <2>3 DEF EndWait, Waiting, Idle, StoreInvariant, TypeOK
    <3>2. ASSUME NEW other \in Waiters, waits'[other] # waits[other]
          PROVE  waits'[other].state = state
      BY <2>3, <3>1, <3>2 DEF EndWait, StoreInvariant, TypeOK, Wait
    <3> QED BY <3>2 DEF AnswersAreNewStep
  <2>4. CASE CloseStore
    <3>1. ASSUME NEW other \in Waiters, waits'[other] # waits[other]
          PROVE  waits'[other].state = "closed"
      <4>1. /\ other \in Waiting /\ waits[other] \in Wait
            /\ waits'[other] = [waits[other] EXCEPT !.state = "closed"]
        BY <2>4, <3>1 DEF CloseStore, StoreInvariant, TypeOK, Waiting, Idle
      <4> QED BY <4>1 DEF Wait
    <3> QED BY <3>1 DEF AnswersAreNewStep
  <2> QED BY <1>4, <2>1, <2>2, <2>3, <2>4 DEF Call, WaitTimeout, WaitAbort
<1> QED BY <1>2, <1>3, <1>4 DEF Next

(* A client is only ever answered with the newest handoff, new to it.      *)
THEOREM AnswersAlwaysNew == Spec => AnswersAreNew
BY StoreInvariantHolds, AnswerStep, PTL DEF Spec, AnswersAreNew
=============================================================================
