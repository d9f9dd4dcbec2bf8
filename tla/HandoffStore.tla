---------------------------- MODULE HandoffStore ----------------------------
(***************************************************************************)
(* The in-memory store of published handoffs: the current one, a short     *)
(* history, the idempotency records of publish requests, and the long-poll *)
(* waiters.                                                                *)
(* Code: packages/dev-server/src/external-handoff/store.ts.                *)
(*                                                                         *)
(* Handlers run to completion and begin with sweep(), whose effect stays   *)
(* when the call is refused.  Deadlines count the time left.  A cursor is  *)
(* the number of the revision it names, 0 stands for undefined.  A publish *)
(* is atomic with the reservation it makes in between, so a composed       *)
(* specification conjoins StorePublish with the registry's reserve().      *)
(***************************************************************************)
EXTENDS Naturals, Sequences, FiniteSets

CONSTANTS
  Requests,       \* publish request ids
  Receivers,      \* connector instance ids that acknowledge
  Waiters,        \* clients with a long poll
  HandoffTtl,     \* handoffTtlMs, in ticks
  RequestIdTtl,   \* requestIdTtlMs, in ticks
  MaxHistory,     \* maximumHistorySummaries
  MaxRequestIds,  \* maximumRequestIdRecords
  MaxReceipts,    \* maximumConnectorReceipts
  MaxWaiters,     \* maximumWaiters
  MaxRevisions    \* bound: handoffs published

ASSUME StoreAssumption ==
  /\ HandoffTtl \in Nat \ {0}
  /\ RequestIdTtl \in Nat /\ RequestIdTtl >= HandoffTtl
  /\ MaxHistory \in Nat \ {0}
  /\ {MaxRequestIds, MaxReceipts, MaxWaiters, MaxRevisions} \subseteq Nat

VARIABLES
  current,      \* the handoff on offer, or NoHandoff
  history,      \* summaries of earlier ones, newest first
  idempotency,  \* request id -> what it published, or NoRecord
  waits,        \* the state of each client's wait() call
  revision,     \* revisions published
  storeClosed

storeVars == <<current, history, idempotency, waits, storeClosed>>

-----------------------------------------------------------------------------
NoHandoff == [cursor |-> 0]
NoRecord  == [cursor |-> 0]
Idle      == [state |-> "idle"]

(* The request that published the handoff, and the cursor a waiter already *)
(* has, are not kept in the code: the properties speak of them.            *)
Handoff ==
  [cursor: 1..MaxRevisions, left: 0..HandoffTtl, receipts: SUBSET Receivers, request: Requests]
Summary == [cursor: 1..MaxRevisions, state: {"expired", "superseded"}]
Record  == [cursor: 1..MaxRevisions, left: 0..RequestIdTtl]
Wait ==
  [state: {"waiting", "timeout", "closed", "busy", "unknown"}, after: 0..MaxRevisions]
    \cup [state: {"handoff"}, after: 0..MaxRevisions, cursor: 1..MaxRevisions]

Records == {request \in Requests : idempotency[request] # NoRecord}
Waiting == {waiter \in Waiters : waits[waiter].state = "waiting"}

-----------------------------------------------------------------------------
(* What sweep leaves behind.                                               *)

Lapsed == current # NoHandoff /\ current.left = 0

Archive(state, summaries) ==
  LET archived == <<[cursor |-> current.cursor, state |-> state]>> \o summaries
  IN  SubSeq(archived, 1, IF Len(archived) < MaxHistory THEN Len(archived) ELSE MaxHistory)

SweptCurrent == IF Lapsed THEN NoHandoff ELSE current
(* An expired handoff is forgotten.  (Bugs the properties are tried        *)
(* against are named Bug..., and stand before what they would replace.)    *)
BugExpiredIsForgotten == history

SweptHistory == IF Lapsed THEN Archive("expired", history) ELSE history
(* A request id expires a tick too early.                                  *)
BugRecordExpiresEarly ==
  [request \in Requests |->
     IF idempotency[request] # NoRecord /\ idempotency[request].left <= 1
     THEN NoRecord ELSE idempotency[request]]

SweptIdempotency ==
  [request \in Requests |->
     IF idempotency[request] # NoRecord /\ idempotency[request].left = 0
     THEN NoRecord ELSE idempotency[request]]

SweepStore ==
  /\ ~storeClosed
  /\ current' = SweptCurrent
  /\ history' = SweptHistory
  /\ idempotency' = SweptIdempotency
  /\ UNCHANGED storeClosed

(* knownSummary(): the handoff on offer or one still in the history.       *)
Known(cursor) ==
  \/ SweptCurrent # NoHandoff /\ SweptCurrent.cursor = cursor
  \/ \E i \in 1..Len(SweptHistory) : SweptHistory[i].cursor = cursor

-----------------------------------------------------------------------------
(* The handlers.                                                           *)

(* current(), currentCursor(), status(), a replayed publish, and any call  *)
(* refused once the store is swept, such as a known request id that comes  *)
(* with another annotation (the fingerprint is left out of the records).   *)
ReadStore == SweepStore /\ UNCHANGED waits

Replayed(request) == SweptIdempotency[request] # NoRecord

(* One record too many fits in the pool.                                   *)
BugOneRecordTooMany(request) ==
  /\ ~storeClosed
  /\ ~Replayed(request)
  /\ Cardinality({r \in Requests : SweptIdempotency[r] # NoRecord}) <= MaxRequestIds

CanPublish(request) ==
  /\ ~storeClosed
  /\ ~Replayed(request)
  /\ Cardinality({r \in Requests : SweptIdempotency[r] # NoRecord}) < MaxRequestIds

Answer(waiter, cursor) == [state |-> "handoff", after |-> waits[waiter].after, cursor |-> cursor]

(* publish() of a request not seen before: the handoff on offer is         *)
(* superseded and every waiter is answered.                                *)
StorePublish(request) ==
  /\ CanPublish(request)
  /\ revision < MaxRevisions
  /\ revision' = revision + 1
  /\ current' = [cursor |-> revision + 1, left |-> HandoffTtl, receipts |-> {},
                 request |-> request]
  /\ history' = IF SweptCurrent = NoHandoff THEN SweptHistory
                ELSE Archive("superseded", history)
  /\ idempotency' = [SweptIdempotency EXCEPT ![request] =
       [cursor |-> revision + 1, left |-> RequestIdTtl]]
  /\ waits' = [waiter \in Waiters |->
       IF waiter \in Waiting THEN Answer(waiter, revision + 1) ELSE waits[waiter]]
  /\ UNCHANGED storeClosed

(* ack(): a receipt is recorded once per connector, for the current handoff. *)
CanAck(cursor, receiver) ==
  /\ ~storeClosed
  /\ SweptCurrent # NoHandoff /\ current.cursor = cursor
  /\ receiver \in current.receipts \/ Cardinality(current.receipts) < MaxReceipts

Ack(cursor, receiver) ==
  /\ CanAck(cursor, receiver)
  /\ current' = [current EXCEPT !.receipts = @ \cup {receiver}]
  /\ idempotency' = SweptIdempotency
  /\ UNCHANGED <<history, waits, storeClosed>>

(* A wait always waits for the next publish.                               *)
BugWaitForNext(after) ==
  IF after # 0 /\ ~Known(after) THEN [state |-> "unknown", after |-> after]
  ELSE IF Cardinality(Waiting) >= MaxWaiters THEN [state |-> "busy", after |-> after]
  ELSE [state |-> "waiting", after |-> after]

(* A wait is answered from what is stored, expired or not.                 *)
BugAnswerExpired(after) ==
  IF current # NoHandoff /\ current.cursor # after
  THEN [state |-> "handoff", after |-> after, cursor |-> current.cursor]
  ELSE [state |-> "busy", after |-> after]

(* wait(): answered at once when there is something newer than the cursor  *)
(* the client already has.                                                 *)
WaitOutcome(after) ==
  IF after # 0 /\ ~Known(after) THEN [state |-> "unknown", after |-> after]
  ELSE IF SweptCurrent # NoHandoff /\ current.cursor # after
       THEN [state |-> "handoff", after |-> after, cursor |-> current.cursor]
  ELSE IF Cardinality(Waiting) >= MaxWaiters THEN [state |-> "busy", after |-> after]
  ELSE [state |-> "waiting", after |-> after]

StartWait(waiter, after) ==
  /\ waiter \notin Waiting
  /\ SweepStore
  /\ waits' = [waits EXCEPT ![waiter] = WaitOutcome(after)]

EndWait(waiter, state) ==
  /\ waiter \in Waiting
  /\ waits' = [waits EXCEPT ![waiter] = [@ EXCEPT !.state = state]]
  /\ UNCHANGED <<current, history, idempotency, storeClosed>>

WaitTimeout(waiter) == EndWait(waiter, "timeout")
WaitAbort(waiter)   == EndWait(waiter, "closed")

CloseStore ==
  /\ ~storeClosed
  /\ storeClosed' = TRUE
  /\ current' = NoHandoff
  /\ history' = <<>>
  /\ idempotency' = [request \in Requests |-> NoRecord]
  /\ waits' = [waiter \in Waiters |->
       IF waiter \in Waiting THEN [waits[waiter] EXCEPT !.state = "closed"] ELSE waits[waiter]]

TickStore ==
  /\ current' = IF current = NoHandoff \/ current.left = 0 THEN current
                ELSE [current EXCEPT !.left = @ - 1]
  /\ idempotency' = [request \in Requests |->
       IF idempotency[request] = NoRecord \/ idempotency[request].left = 0
       THEN idempotency[request] ELSE [idempotency[request] EXCEPT !.left = @ - 1]]
  /\ UNCHANGED <<history, waits, storeClosed>>

-----------------------------------------------------------------------------
(* The store on its own: publishers, connectors and waiters in any order.  *)
(* A waiter asks for what follows the handoff it was last given.           *)

vars == <<storeVars, revision>>

Init ==
  /\ current = NoHandoff
  /\ history = <<>>
  /\ idempotency = [request \in Requests |-> NoRecord]
  /\ waits = [waiter \in Waiters |-> Idle]
  /\ revision = 0
  /\ storeClosed = FALSE

Call ==
  \/ ReadStore
  \/ \E cursor \in 1..revision, receiver \in Receivers : Ack(cursor, receiver)
  \/ \E waiter \in Waiters :
       \/ \E after \in 0..revision : StartWait(waiter, after)
       \/ WaitTimeout(waiter)
       \/ WaitAbort(waiter)
  \/ CloseStore
  \/ TickStore

Next ==
  \/ \E request \in Requests : StorePublish(request)
  \/ Call /\ UNCHANGED revision

Spec == Init /\ [][Next]_vars

-----------------------------------------------------------------------------
(* Properties.                                                             *)

(* Every variable has its type, and no pool outgrows its limit.            *)
TypeOK ==
  /\ current \in Handoff \cup {NoHandoff}
  /\ current # NoHandoff => Cardinality(current.receipts) <= MaxReceipts
  /\ history \in Seq(Summary) /\ Len(history) <= MaxHistory
  /\ idempotency \in [Requests -> Record \cup {NoRecord}]
  /\ Cardinality(Records) <= MaxRequestIds
  /\ waits \in [Waiters -> Wait \cup {Idle}]
  /\ Cardinality(Waiting) <= MaxWaiters
  /\ revision \in 0..MaxRevisions
  /\ storeClosed \in BOOLEAN

(* No wake-up is lost: a client that is left waiting already has the       *)
(* handoff on offer, however publish, wait and expiry interleave (wait,    *)
(* settleWaiters).                                                         *)
NoHandoffIsMissed ==
  \A waiter \in Waiting :
    current # NoHandoff => waits[waiter].after = current.cursor

(* The newest revision stays known after it expires or is picked up, so    *)
(* that its status and its review remain reachable: it is on offer or at   *)
(* the head of the history, which runs from newest to oldest without       *)
(* repeating a revision (archive, knownSummary).                           *)
NewestIsKnown ==
  /\ (revision > 0 /\ ~storeClosed) => Known(revision)
  /\ \A i, j \in 1..Len(history) : i < j => history[i].cursor > history[j].cursor
  /\ current # NoHandoff => \A i \in 1..Len(history) : history[i].cursor < current.cursor

(* A publish that is retried while its handoff is still on offer finds its *)
(* record, and so never makes a second revision (findReplay, publish).     *)
RetryIsReplayed ==
  SweptCurrent # NoHandoff =>
    /\ Replayed(current.request)
    /\ idempotency[current.request].cursor = current.cursor

(* A client is only ever answered with the newest handoff, one that it     *)
(* does not have and that has not expired (wait, settleWaiters, sweep).    *)
AnswersAreNewStep ==
  \A waiter \in Waiters :
    (waits'[waiter] # waits[waiter] /\ waits'[waiter].state = "handoff") =>
      /\ waits'[waiter].cursor = revision' /\ waits'[waiter].cursor > waits'[waiter].after
      /\ current' # NoHandoff /\ current'.cursor = revision' /\ current'.left > 0

AnswersAreNew == [][AnswersAreNewStep]_vars

-----------------------------------------------------------------------------
(* The inductive invariant the proofs rest on, conjunct by conjunct.       *)

(* The pools can be counted.                                               *)
PoolsAreFinite ==
  /\ IsFiniteSet(Records) /\ IsFiniteSet(Waiting)
  /\ current # NoHandoff => IsFiniteSet(current.receipts)

(* What is on offer is the newest revision; the history holds earlier ones *)
(* from newest to oldest, and starts with the newest when none is on offer. *)
HistoryIsInOrder ==
  /\ \A i \in 1..Len(history) :
       /\ history[i].cursor <= revision
       /\ current # NoHandoff => history[i].cursor < revision
       /\ \A j \in 1..Len(history) : i < j => history[i].cursor > history[j].cursor
  /\ current # NoHandoff => current.cursor = revision
  /\ (current = NoHandoff /\ revision > 0 /\ ~storeClosed) =>
       Len(history) > 0 /\ history[1].cursor = revision

(* The request of the handoff on offer has a record that outlives it.      *)
OfferIsRecorded ==
  current # NoHandoff =>
    /\ idempotency[current.request] # NoRecord
    /\ idempotency[current.request].cursor = current.cursor
    /\ idempotency[current.request].left >= current.left

(* Nobody asks for what follows a revision that is still to come, and a    *)
(* closed store is empty.                                                  *)
StoreInvariant ==
  /\ TypeOK
  /\ PoolsAreFinite
  /\ HistoryIsInOrder
  /\ OfferIsRecorded
  /\ NoHandoffIsMissed
  /\ \A waiter \in Waiting : waits[waiter].after <= revision
  /\ storeClosed =>
       current = NoHandoff /\ history = <<>> /\ Records = {} /\ Waiting = {}
=============================================================================
