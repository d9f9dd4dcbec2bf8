----------------------- MODULE HandoffDeliveryProofs -----------------------
(***************************************************************************)
(* Proofs about HandoffDelivery, for any pumps, requests and limits: each  *)
(* handoff is handed over at most once, two agents write at a time only    *)
(* after a review, an unproved delivery can be reviewed, the outcome shown *)
(* is the agent's, and the pump that holds the lease is woken.             *)
(* What is proved of the registry and of the store alone holds of them in  *)
(* the delivery too, since its steps are theirs; then each step of the     *)
(* delivery is shown to keep the rest of DeliveryInvariant.                *)
(***************************************************************************)
EXTENDS HandoffDelivery, FiniteSetTheorems, TLAPS

RP == INSTANCE ActiveRegistryProofs WITH Connectors <- Pumps
SP == INSTANCE HandoffStoreProofs WITH Receivers <- Pumps, Waiters <- Pumps

-----------------------------------------------------------------------------
(* The registry and the store of the delivery are those of the proofs.     *)

(* Its registry is the one the registry's own proofs are about.            *)
LEMMA SameRegistry ==
  /\ RP!RegistryInvariant <=> R!RegistryInvariant
  /\ RP!RegistryInvariant' <=> R!RegistryInvariant'
  /\ [RP!Next]_(RP!vars) <=> [R!Next]_(R!vars)
<1> USE DEF
      RP!NoLease, R!NoLease, RP!NoDispatch, R!NoDispatch, RP!Held, R!Held,
      RP!Unsettled, R!Unsettled, RP!TerminalPhases, R!TerminalPhases, RP!Phases, R!Phases,
      RP!ReportablePhases, R!ReportablePhases, RP!Started, R!Started,
      RP!AllowedTransitions, R!AllowedTransitions
<1>1. /\ RP!RegistryInvariant <=> R!RegistryInvariant
      /\ RP!RegistryInvariant' <=> R!RegistryInvariant'
  BY DEF RP!RegistryInvariant, R!RegistryInvariant, RP!TypeOK, R!TypeOK, RP!OpenDispatchIsOwned,
     R!OpenDispatchIsOwned, RP!Lease, R!Lease, RP!Dispatch, R!Dispatch
<1>2. RP!Next <=> R!Next
  BY DEF RP!EndedDispatch, R!EndedDispatch, RP!EndedBlocked, R!EndedBlocked, RP!EndLease, R!EndLease,
     RP!Overdue, R!Overdue, RP!Live, R!Live, RP!SweptDispatch, R!SweptDispatch, RP!SweptBlocked,
     R!SweptBlocked, RP!SweepLease, R!SweepLease, RP!Sweep, R!Sweep, RP!Publishable, R!Publishable,
     RP!ValidLease, R!ValidLease, RP!SweepOnly, R!SweepOnly, RP!CanRenew, R!CanRenew, RP!RenewClaim,
     R!RenewClaim, RP!CanGrant, R!CanGrant, RP!GrantClaim, R!GrantClaim, RP!Heartbeat, R!Heartbeat,
     RP!CanReport, R!CanReport, RP!Report, R!Report, RP!Release, R!Release, RP!ReserveInbox,
     R!ReserveInbox, RP!ReserveActive, R!ReserveActive, RP!CanResolve, R!CanResolve,
     RP!ResolveDelivery, R!ResolveDelivery, RP!CloseRegistry, R!CloseRegistry, RP!Lower, R!Lower,
     RP!TickRegistry, R!TickRegistry, RP!Publish, R!Publish, RP!Call, R!Call, RP!Next, R!Next
<1>3. RP!vars' = RP!vars <=> R!vars' = R!vars
  BY DEF RP!vars, R!vars, RP!registryVars, R!registryVars
<1> QED BY ONLY <1>1, <1>2, <1>3

(* Every step of the registry keeps its invariant.                         *)
LEMMA RegistryKeepsInvariant ==
  ASSUME R!RegistryInvariant, [R!Next]_(R!vars)
  PROVE  R!RegistryInvariant'
<1>1. RP!RegistryAssumption
  BY DeliveryAssumption DEF R!RegistryAssumption, RP!RegistryAssumption
<1>2. RP!RegistryInvariant /\ [RP!Next]_(RP!vars) => RP!RegistryInvariant'
  BY <1>1, RP!NextInvariant DEF RP!NextInvariant
<1> QED BY <1>2, SameRegistry

(* The store of the delivery is that of the proofs, state by state.        *)
LEMMA SameStore ==
  /\ SP!StoreInvariant <=> S!StoreInvariant
  /\ SP!Init <=> S!Init
  /\ SP!NewestIsKnown <=> S!NewestIsKnown
<1> USE DEF
      SP!NoHandoff, S!NoHandoff, SP!NoRecord, S!NoRecord, SP!Idle, S!Idle, SP!Records, S!Records,
      SP!Waiting, S!Waiting, SP!Cardinality, S!Cardinality, SP!IsFiniteSet, S!IsFiniteSet
<1>1. SP!StoreInvariant <=> S!StoreInvariant
  BY DEF SP!StoreInvariant, S!StoreInvariant, SP!TypeOK, S!TypeOK, SP!PoolsAreFinite,
     S!PoolsAreFinite, SP!HistoryIsInOrder, S!HistoryIsInOrder, SP!OfferIsRecorded, S!OfferIsRecorded,
     SP!NoHandoffIsMissed, S!NoHandoffIsMissed, SP!Handoff, S!Handoff, SP!Summary, S!Summary,
     SP!Record, S!Record, SP!Wait, S!Wait
<1>2. SP!Init <=> S!Init
  BY DEF SP!Init, S!Init
<1>3. SP!NewestIsKnown <=> S!NewestIsKnown
  BY DEF SP!NewestIsKnown, S!NewestIsKnown, SP!Known, S!Known, SP!SweptCurrent, S!SweptCurrent,
     SP!SweptHistory, S!SweptHistory, SP!Lapsed, S!Lapsed, SP!Archive, S!Archive
<1> QED BY <1>1, <1>2, <1>3

(* So it is step by step.                                                  *)
LEMMA SameStoreSteps ==
  /\ SP!StoreInvariant' <=> S!StoreInvariant'
  /\ [SP!Next]_(SP!vars) <=> [S!Next]_(S!vars)
<1> USE DEF
      SP!NoHandoff, S!NoHandoff, SP!NoRecord, S!NoRecord, SP!Idle, S!Idle, SP!Records, S!Records,
      SP!Waiting, S!Waiting, SP!Cardinality, S!Cardinality, SP!IsFiniteSet, S!IsFiniteSet
<1>1. SP!StoreInvariant' <=> S!StoreInvariant'
  BY DEF SP!StoreInvariant, S!StoreInvariant, SP!TypeOK, S!TypeOK, SP!PoolsAreFinite,
     S!PoolsAreFinite, SP!HistoryIsInOrder, S!HistoryIsInOrder, SP!OfferIsRecorded, S!OfferIsRecorded,
     SP!NoHandoffIsMissed, S!NoHandoffIsMissed, SP!Handoff, S!Handoff, SP!Summary, S!Summary,
     SP!Record, S!Record, SP!Wait, S!Wait
<1>2. SP!Next <=> S!Next
  BY DEF SP!Lapsed, S!Lapsed, SP!Archive, S!Archive, SP!SweptCurrent, S!SweptCurrent,
     SP!SweptHistory, S!SweptHistory, SP!SweptIdempotency, S!SweptIdempotency, SP!SweepStore,
     S!SweepStore, SP!Known, S!Known, SP!ReadStore, S!ReadStore, SP!Replayed, S!Replayed,
     SP!CanPublish, S!CanPublish, SP!Answer, S!Answer, SP!StorePublish, S!StorePublish, SP!CanAck,
     S!CanAck, SP!Ack, S!Ack, SP!WaitOutcome, S!WaitOutcome, SP!StartWait, S!StartWait, SP!EndWait,
     S!EndWait, SP!WaitTimeout, S!WaitTimeout, SP!WaitAbort, S!WaitAbort, SP!CloseStore,
     S!CloseStore, SP!TickStore, S!TickStore, SP!Call, S!Call, SP!Next, S!Next
<1>3. SP!vars' = SP!vars <=> S!vars' = S!vars
  BY DEF SP!vars, S!vars, SP!storeVars, S!storeVars
<1> QED BY ONLY <1>1, <1>2, <1>3

(* Every step of the store keeps its invariant and answers with what is    *)
(* new.                                                                    *)
LEMMA StoreKeepsInvariant ==
  ASSUME S!StoreInvariant, [S!Next]_(S!vars)
  PROVE  S!StoreInvariant' /\ S!AnswersAreNewStep
<1>1. SP!StoreAssumption
  BY DeliveryAssumption DEF S!StoreAssumption, SP!StoreAssumption
<1>2. SP!StoreInvariant /\ [SP!Next]_(SP!vars) => SP!StoreInvariant'
  BY <1>1, SP!NextInvariant DEF SP!NextInvariant
<1>3. SP!StoreInvariant /\ [SP!Next]_(SP!vars) => SP!AnswersAreNewStep
  BY <1>1, SP!AnswerStep DEF SP!AnswerStep
<1>4. SP!AnswersAreNewStep <=> S!AnswersAreNewStep
  BY DEF SP!AnswersAreNewStep, S!AnswersAreNewStep, SP!NoHandoff, S!NoHandoff
<1> QED BY ONLY <1>2, <1>3, <1>4, SameStore, SameStoreSteps, S!StoreInvariant, [S!Next]_(S!vars)

-----------------------------------------------------------------------------
(* What a step may do to the lease and the dispatch.                       *)

(* What the registry's invariant says of the fields the proofs look at.    *)
LEMMA RegistryFacts ==
  ASSUME R!RegistryInvariant
  PROVE  /\ tokens \in 0..MaxTokens /\ revision \in 0..MaxRevisions
         /\ registryClosed \in BOOLEAN /\ blocked \in Kinds \cup {NoKind}
         /\ R!Held =>
              /\ lease \in R!Lease /\ ~registryClosed
              /\ lease.token \in 1..tokens /\ lease.baseline \in 0..MaxRevisions
              /\ lease.connector \in Pumps /\ lease.kind \in Kinds
         /\ dispatch # R!NoDispatch =>
              /\ dispatch \in R!Dispatch /\ ~registryClosed
              /\ dispatch.cursor \in 1..revision /\ dispatch.phase \in R!Phases
         /\ R!Unsettled => R!Held /\ dispatch # R!NoDispatch /\ blocked = NoKind
         /\ blocked # NoKind =>
              ~R!Held /\ dispatch # R!NoDispatch /\ dispatch.phase = "delivery-unknown"
<1>1. /\ tokens \in 0..MaxTokens /\ revision \in 0..MaxRevisions
      /\ registryClosed \in BOOLEAN /\ blocked \in Kinds \cup {NoKind}
  BY DEF R!RegistryInvariant, R!TypeOK
<1>2. ASSUME R!Held
      PROVE  /\ lease \in R!Lease /\ ~registryClosed
             /\ lease.token \in 1..tokens /\ lease.baseline \in 0..MaxRevisions
             /\ lease.connector \in Pumps /\ lease.kind \in Kinds
  <2>1. lease \in R!Lease /\ lease.token <= tokens /\ ~registryClosed
    BY <1>2 DEF R!RegistryInvariant, R!TypeOK, R!Held
  <2> QED BY <1>1, <2>1 DEF R!Lease
<1>3. ASSUME dispatch # R!NoDispatch
      PROVE  /\ dispatch \in R!Dispatch /\ ~registryClosed
             /\ dispatch.cursor \in 1..revision /\ dispatch.phase \in R!Phases
  <2>1. dispatch \in R!Dispatch /\ dispatch.cursor <= revision /\ ~registryClosed
    BY <1>3 DEF R!RegistryInvariant, R!TypeOK
  <2> QED BY <1>1, <2>1 DEF R!Dispatch
<1>4. R!Unsettled => R!Held /\ dispatch # R!NoDispatch /\ blocked = NoKind
  BY DEF R!RegistryInvariant, R!OpenDispatchIsOwned, R!Unsettled
<1>5. blocked # NoKind =>
        ~R!Held /\ dispatch # R!NoDispatch /\ dispatch.phase = "delivery-unknown"
  BY DEF R!RegistryInvariant
<1> QED BY <1>1, <1>2, <1>3, <1>4, <1>5

(* The step leaves the lease to whom it belongs, or grants a new one over  *)
(* nothing; it settles the dispatch at most, never opens or reopens it;    *)
(* and a delivery left unproved shuts the gate or is reviewed.             *)
Moves ==
  /\ registryClosed' = registryClosed /\ tokens' >= tokens
  /\ R!Held' =>
       \/ /\ R!Held /\ lease'.token = lease.token
          /\ lease'.connector = lease.connector /\ lease'.baseline = lease.baseline
       \/ lease'.token > tokens /\ lease'.baseline <= revision /\ ~R!Unsettled'
  /\ dispatch' = R!NoDispatch <=> dispatch = R!NoDispatch
  /\ dispatch # R!NoDispatch =>
       /\ dispatch'.cursor = dispatch.cursor
       /\ dispatch'.phase # dispatch.phase => R!Unsettled /\ dispatch'.phase # "queued"
       /\ (/\ dispatch'.phase = "delivery-unknown" /\ dispatch.cursor \notin reviewed'
           /\ dispatch.phase \in R!Started \/ blocked # NoKind) => blocked' # NoKind
  /\ blocked' # NoKind => R!Unsettled \/ blocked # NoKind

(* The step settles nothing but a dispatch nobody was offered, or one the  *)
(* end of its lease leaves unproved.                                       *)
Quiet ==
  dispatch # R!NoDispatch =>
    \/ dispatch'.phase = dispatch.phase
    \/ dispatch.phase = "queued" /\ dispatch'.phase = "failed"
    \/ dispatch'.phase = "delivery-unknown"

(* The dispatch stays as it is; the lease lives on, ends or is a new one.  *)
LEMMA SameDispatchMoves ==
  ASSUME R!RegistryInvariant, UNCHANGED <<dispatch, blocked, registryClosed>>, tokens' >= tokens,
         R!Held' =>
           \/ /\ R!Held /\ lease'.token = lease.token
              /\ lease'.connector = lease.connector /\ lease'.baseline = lease.baseline
           \/ lease'.token > tokens /\ lease'.baseline <= revision /\ ~R!Unsettled'
  PROVE  Moves /\ Quiet
<1>1. dispatch' = R!NoDispatch <=> dispatch = R!NoDispatch
  BY DEF R!NoDispatch
<1>2. R!Unsettled => blocked = NoKind
  BY RegistryFacts
<1>3. (dispatch # R!NoDispatch /\ dispatch.phase \in R!Started) => dispatch.phase # "delivery-unknown"
  BY DEF R!Started
<1> QED BY <1>1, <1>2, <1>3 DEF Moves, Quiet

(* Nothing happens at the registry.                                        *)
LEMMA NothingMoves ==
  ASSUME R!RegistryInvariant, UNCHANGED registry
  PROVE  Moves /\ Quiet
<1>1. /\ tokens \in Nat
      /\ R!Held' = R!Held /\ R!Unsettled' = R!Unsettled
      /\ dispatch' = dispatch /\ lease' = lease /\ blocked' = blocked
      /\ tokens' = tokens /\ registryClosed' = registryClosed
  BY RegistryFacts, DeliveryAssumption
     DEF registry, R!Held, R!Unsettled, R!NoDispatch, R!NoLease, R!RegistryAssumption
<1>2. dispatch # R!NoDispatch => dispatch.phase \in R!Phases
  BY RegistryFacts
<1>3. R!Unsettled => blocked = NoKind
  BY RegistryFacts
<1>4. (dispatch # R!NoDispatch /\ dispatch.phase \in R!Started) => R!Unsettled
  BY DEF R!Unsettled, R!Started, R!TerminalPhases
<1> QED BY <1>1, <1>2, <1>3, <1>4 DEF Moves, Quiet, R!Started

(* The end of a lease, by its release or swept, for a new lease or not.    *)
LEMMA EndMoves ==
  ASSUME R!RegistryInvariant, R!Held, dispatch' = R!EndedDispatch,
         UNCHANGED registryClosed, tokens' >= tokens,
         R!Held' => lease'.token > tokens /\ lease'.baseline <= revision,
         \/ blocked' = R!EndedBlocked
         \/ blocked' = NoKind /\ dispatch.cursor \in reviewed'
  PROVE  Moves /\ Quiet /\ ~R!Unsettled'
<1>1. /\ lease.kind \in Kinds /\ NoKind \notin Kinds /\ blocked = NoKind
  BY RegistryFacts, DeliveryAssumption DEF R!RegistryAssumption
<1>2. CASE ~R!Unsettled
  <2>1. dispatch' = dispatch /\ ~R!Unsettled'
    BY <1>2 DEF R!EndedDispatch, R!Unsettled, R!NoDispatch
  <2>2. blocked' = NoKind
    BY <1>1, <1>2, RegistryFacts DEF R!EndedBlocked, R!Unsettled, R!Started, R!TerminalPhases, R!NoDispatch
  <2>3. dispatch # R!NoDispatch => dispatch.phase \notin R!Started
    BY <1>2 DEF R!Unsettled, R!Started, R!TerminalPhases
  <2>4. dispatch' = R!NoDispatch <=> dispatch = R!NoDispatch
    BY <2>1 DEF R!NoDispatch
  <2> QED BY <1>1, <2>1, <2>2, <2>3, <2>4 DEF Moves, Quiet
<1>3. CASE R!Unsettled
  <2> DEFINE ended == IF dispatch.phase = "queued" THEN "failed" ELSE "delivery-unknown"
  <2>1. dispatch # R!NoDispatch /\ dispatch \in R!Dispatch /\ dispatch.phase \in R!Phases
    BY <1>3, RegistryFacts
  <2>2. dispatch' = [dispatch EXCEPT !.phase = ended]
    BY <1>3 DEF R!EndedDispatch
  <2>3. /\ dispatch' \in R!Dispatch /\ dispatch'.cursor = dispatch.cursor
        /\ dispatch'.phase = ended
    BY <2>1, <2>2 DEF R!Dispatch, R!Phases
  <2>4. dispatch' # R!NoDispatch
    BY <2>3 DEF R!Dispatch, R!NoDispatch, R!Phases
  <2>5. ~R!Unsettled'
    BY <2>3 DEF R!Unsettled, R!TerminalPhases
  <2>6. dispatch.phase \in R!Started \/ dispatch.phase = "queued"
    BY <1>3, <2>1 DEF R!Unsettled, R!Started, R!TerminalPhases, R!Phases
  <2>7. dispatch.phase \in R!Started => blocked' = lease.kind \/ dispatch.cursor \in reviewed'
    BY DEF R!EndedBlocked
  <2> QED BY <1>1, <1>3, <2>1, <2>3, <2>4, <2>5, <2>6, <2>7 DEF Moves, Quiet, R!Started
<1> QED BY <1>2, <1>3

(* A call that sweeps, and at most answers the review of the dispatch.     *)
LEMMA SweepMoves ==
  ASSUME R!RegistryInvariant, R!SweepLease, UNCHANGED registryClosed, tokens' = tokens,
         \/ blocked' = R!SweptBlocked
         \/ blocked' = NoKind /\ dispatch.cursor \in reviewed'
  PROVE  Moves /\ Quiet
<1>1. CASE R!Overdue
  BY <1>1, EndMoves, RegistryFacts
     DEF R!Overdue, R!SweepLease, R!SweptDispatch, R!SweptBlocked, R!Held
<1>2. CASE ~R!Overdue
  <2>1. /\ lease' = lease /\ dispatch' = dispatch
        /\ blocked' = blocked \/ (blocked' = NoKind /\ dispatch.cursor \in reviewed')
    BY <1>2 DEF R!SweepLease, R!SweptDispatch, R!SweptBlocked
  <2>2. tokens \in Nat
    BY RegistryFacts, DeliveryAssumption DEF R!RegistryAssumption
  <2>3. R!Held' = R!Held /\ R!Unsettled' = R!Unsettled /\ (dispatch' = R!NoDispatch <=> dispatch = R!NoDispatch)
    BY <2>1 DEF R!Held, R!Unsettled, R!NoDispatch, R!NoLease
  <2>4. R!Unsettled => blocked = NoKind
    BY RegistryFacts
  <2>5. (dispatch # R!NoDispatch /\ dispatch.phase \in R!Started) => R!Unsettled
    BY DEF R!Unsettled, R!Started, R!TerminalPhases
  <2> QED BY <2>1, <2>2, <2>3, <2>4, <2>5 DEF Moves, Quiet, R!Started
<1> QED BY <1>1, <1>2

(* A call that only sweeps.                                                *)
LEMMA SweepOnlyMoves ==
  ASSUME R!RegistryInvariant, R!SweepOnly
  PROVE  Moves /\ Quiet
BY SweepMoves DEF R!SweepOnly, R!Sweep

(* A claim, by the holder of the lease or when there is none.              *)
LEMMA ClaimMoves ==
  ASSUME R!RegistryInvariant, NEW kind \in Kinds, NEW connector \in Pumps, NEW baseline \in 0..revision,
         R!Held => lease.baseline <= revision,
         R!RenewClaim(kind, connector) \/ R!GrantClaim(kind, connector, baseline)
  PROVE  /\ Moves /\ Quiet
         /\ R!Held' /\ lease'.connector = connector /\ lease'.baseline <= revision
         /\ lease'.token > 0 /\ lease'.token <= tokens'
<1>1. CASE R!RenewClaim(kind, connector)
  <2>1. /\ R!Held /\ lease \in R!Lease /\ lease.token \in 1..tokens /\ lease.connector = connector
        /\ lease' = [lease EXCEPT !.left = LeaseDuration]
        /\ UNCHANGED <<dispatch, blocked, lastReleasedToken, tokens, registryClosed>>
    BY <1>1, RegistryFacts DEF R!RenewClaim, R!CanRenew, R!Live
  <2>2. /\ lease'.token = lease.token /\ lease'.connector = lease.connector
        /\ lease'.baseline = lease.baseline
    BY <2>1 DEF R!Lease
  <2>3. R!Held' /\ tokens \in Nat
    BY <2>1, <2>2, RegistryFacts, DeliveryAssumption DEF R!Held, R!NoLease, R!RegistryAssumption
  <2> QED BY <2>1, <2>2, <2>3, SameDispatchMoves
<1>2. CASE R!GrantClaim(kind, connector, baseline)
  <2>1. /\ lease' = [token |-> tokens + 1, kind |-> kind, connector |-> connector,
                     baseline |-> baseline, left |-> LeaseDuration]
        /\ tokens' = tokens + 1 /\ UNCHANGED registryClosed /\ ~R!Live
        /\ dispatch' = R!SweptDispatch /\ blocked' = R!SweptBlocked
        /\ tokens \in Nat
    BY <1>2, RegistryFacts, DeliveryAssumption
       DEF R!GrantClaim, R!CanGrant, R!RegistryAssumption
  <2>2. /\ lease'.token = tokens + 1 /\ lease'.connector = connector /\ lease'.baseline = baseline
    BY <2>1
  <2>3. R!Held'
    BY <2>1, <2>2 DEF R!Held, R!NoLease
  <2>4. CASE R!Overdue
    <3>1. R!Held /\ dispatch' = R!EndedDispatch /\ blocked' = R!EndedBlocked
      BY <2>1, <2>4 DEF R!Overdue, R!SweptDispatch, R!SweptBlocked
    <3>2. tokens' >= tokens /\ lease'.token > tokens /\ lease'.baseline <= revision
      BY <2>1, <2>2, RegistryFacts
    <3>3. Moves /\ Quiet
      BY <2>1, <3>1, <3>2, EndMoves
    <3> QED BY <2>1, <2>2, <2>3, <3>2, <3>3
  <2>5. CASE ~R!Overdue
    <3>1. ~R!Held /\ dispatch' = dispatch /\ blocked' = blocked
      BY <2>1, <2>5 DEF R!Live, R!SweptDispatch, R!SweptBlocked
    <3>2. ~R!Unsettled /\ ~R!Unsettled'
      BY <3>1, RegistryFacts DEF R!Unsettled, R!NoDispatch
    <3>3. tokens' >= tokens /\ lease'.token > tokens /\ lease'.baseline <= revision
      BY <2>1, <2>2, RegistryFacts
    <3> QED BY <2>1, <2>2, <2>3, <3>1, <3>2, <3>3, SameDispatchMoves
  <2> QED BY <2>4, <2>5
<1> QED BY <1>1, <1>2

(* A heartbeat renews the lease it names.                                  *)
LEMMA HeartbeatMoves ==
  ASSUME R!RegistryInvariant, NEW token, R!Heartbeat(token)
  PROVE  Moves /\ Quiet
<1>1. /\ R!Held /\ lease \in R!Lease
      /\ lease' = [lease EXCEPT !.left = LeaseDuration]
      /\ UNCHANGED <<dispatch, blocked, lastReleasedToken, tokens, registryClosed>>
  BY RegistryFacts DEF R!Heartbeat, R!ValidLease, R!Live
<1>2. /\ lease'.token = lease.token /\ lease'.connector = lease.connector
      /\ lease'.baseline = lease.baseline
  BY <1>1 DEF R!Lease
<1>3. tokens \in Nat
  BY RegistryFacts, DeliveryAssumption DEF R!RegistryAssumption
<1> QED BY <1>1, <1>2, <1>3, SameDispatchMoves

(* The release of a lease ends it.                                         *)
LEMMA ReleaseMoves ==
  ASSUME R!RegistryInvariant, NEW token, R!Release(token)
  PROVE  Moves /\ Quiet
<1>1. tokens \in Nat
  BY RegistryFacts, DeliveryAssumption DEF R!RegistryAssumption
<1>2. R!Held /\ lease' = R!NoLease /\ dispatch' = R!EndedDispatch /\ blocked' = R!EndedBlocked
      /\ tokens' = tokens /\ UNCHANGED registryClosed
  BY DEF R!Release, R!ValidLease, R!Live, R!EndLease
<1>3. ~R!Held'
  BY <1>2 DEF R!Held, R!NoLease
<1> QED BY <1>1, <1>2, <1>3, EndMoves

(* The review of the unproved delivery opens the gate.                     *)
LEMMA ResolveMoves ==
  ASSUME R!RegistryInvariant, NEW cursor, R!ResolveDelivery(cursor), cursor \in reviewed'
  PROVE  Moves /\ Quiet
BY SweepMoves DEF R!ResolveDelivery, R!CanResolve

(* Time passes for the lease and the dispatch.                             *)
LEMMA TickMoves ==
  ASSUME R!RegistryInvariant, R!TickRegistry
  PROVE  Moves /\ Quiet
<1>1. tokens \in Nat
  BY RegistryFacts, DeliveryAssumption DEF R!RegistryAssumption
<1>2. /\ R!Held' => R!Held
      /\ R!Held => /\ lease'.token = lease.token /\ lease'.connector = lease.connector
                   /\ lease'.baseline = lease.baseline
  <2>1. R!Held => lease \in R!Lease
    BY RegistryFacts
  <2> QED BY <2>1 DEF R!TickRegistry, R!Held, R!NoLease, R!Lease
<1>3. /\ dispatch' = R!NoDispatch <=> dispatch = R!NoDispatch
      /\ dispatch # R!NoDispatch =>
           dispatch'.cursor = dispatch.cursor /\ dispatch'.phase = dispatch.phase
  <2>1. dispatch # R!NoDispatch => dispatch \in R!Dispatch
    BY RegistryFacts
  <2>2. CASE R!Unsettled
    <3>1. dispatch # R!NoDispatch /\ dispatch \in R!Dispatch
      BY <2>1, <2>2 DEF R!Unsettled
    <3>2. dispatch' = [dispatch EXCEPT !.left = R!Lower(@)]
      BY <2>2 DEF R!TickRegistry
    <3>3. dispatch'.cursor = dispatch.cursor /\ dispatch'.phase = dispatch.phase
      BY <3>1, <3>2 DEF R!Dispatch
    <3>4. dispatch.phase \in R!Phases
      BY <3>1 DEF R!Dispatch
    <3> QED BY <3>1, <3>3, <3>4 DEF R!NoDispatch, R!Phases
  <2>3. CASE ~R!Unsettled
    BY <2>3 DEF R!TickRegistry, R!NoDispatch
  <2> QED BY <2>2, <2>3
<1>4. /\ registryClosed' = registryClosed /\ tokens' = tokens /\ blocked' = blocked
  BY DEF R!TickRegistry
<1>5. R!Unsettled => blocked = NoKind
  BY RegistryFacts
<1> QED BY <1>1, <1>2, <1>3, <1>4, <1>5 DEF Moves, Quiet, R!Started

(* The report of a phase: the dispatch takes it, or has it already.        *)
LEMMA ReportMoves ==
  ASSUME R!RegistryInvariant, NEW token, NEW cursor, NEW phase \in R!ReportablePhases,
         R!Report(token, cursor, phase)
  PROVE  /\ Moves
         /\ R!Held /\ lease.token = token
         /\ dispatch # R!NoDispatch /\ dispatch.cursor = cursor /\ dispatch'.phase = phase
         /\ phase # dispatch.phase =>
              R!Unsettled /\ phase \in R!AllowedTransitions[dispatch.phase]
<1>1. /\ R!Held /\ lease.token = token /\ dispatch # R!NoDispatch /\ dispatch.cursor = cursor
      /\ dispatch \in R!Dispatch /\ dispatch.phase \in R!Phases /\ tokens \in Nat
      /\ tokens' = tokens /\ registryClosed' = registryClosed
      /\ dispatch' = [dispatch EXCEPT !.phase = phase]
      /\ phase = dispatch.phase \/ phase \in R!AllowedTransitions[dispatch.phase]
  BY RegistryFacts, DeliveryAssumption
     DEF R!Report, R!CanReport, R!ValidLease, R!Live, R!RegistryAssumption
<1>2. dispatch'.phase = phase /\ dispatch'.cursor = dispatch.cursor /\ phase # "queued"
  BY <1>1 DEF R!Dispatch, R!ReportablePhases
<1>3. dispatch' # R!NoDispatch
  BY <1>2 DEF R!NoDispatch, R!ReportablePhases, R!Phases
<1>4. phase # dispatch.phase => R!Unsettled
  BY <1>1 DEF R!AllowedTransitions, R!Unsettled, R!TerminalPhases
<1>5. /\ blocked = NoKind /\ lease.kind # NoKind
      /\ (phase = "delivery-unknown" /\ dispatch.phase # phase) => blocked' = lease.kind
  BY <1>1, RegistryFacts, DeliveryAssumption DEF R!Report, R!RegistryAssumption
<1>6. \/ lease' = lease /\ R!Held' /\ blocked' = blocked
      \/ ~R!Held' /\ phase # dispatch.phase
  BY <1>1 DEF R!Report, R!Held, R!NoLease
<1>7. dispatch.phase \in R!Started => dispatch.phase # "delivery-unknown"
  BY DEF R!Started
<1>8. Moves
  BY <1>1, <1>2, <1>3, <1>4, <1>5, <1>6, <1>7 DEF Moves
<1> QED BY <1>1, <1>2, <1>4, <1>8

-----------------------------------------------------------------------------
(* What every step of a pump keeps.                                        *)

(* The pump keeps to its lease; it goes on with its delivery, or is done,  *)
(* or its lease or its dispatch is over; and it waits for nothing newer    *)
(* than it was offered.                                                    *)
PumpFollows(p) ==
  /\ \A q \in Pumps : q # p => pump'[q] = pump[q]
  /\ p \in Pumps =>
       /\ KeepsItsLease(p)'
       /\ Done(p) => Done(p)'
       /\ pump[p].pc \in {"deliver", "lost"} =>
            \/ Done(p)'
            \/ /\ pump'[p].pc \in {"deliver", "lost"}
               /\ pump'[p].token = pump[p].token /\ pump'[p].cursor = pump[p].cursor
            \/ ~(R!Unsettled' /\ lease'.token = pump[p].token /\ dispatch'.cursor = pump[p].cursor)
       /\ pump'[p].pc = "deliver" =>
            /\ pump[p].pc = "deliver" /\ pump'[p].cursor = pump[p].cursor
            /\ pump'[p].phase # "none"
            /\ IsTerminal(pump'[p].phase) =>
                 pump'[p].phase = pump[p].phase \/ dispatch'.phase = pump'[p].phase
            /\ pump'[p].writing => pump[p].writing
       /\ (/\ R!Unsettled' /\ dispatch'.phase = "queued"
           /\ lease'.token = pump'[p].token /\ pump'[p].pc \in {"wait", "waiting"}) =>
            pump'[p].after < dispatch'.cursor

(* Every outcome that is reported, or is still to be, is the agent's.      *)
ReportsFollow(p) ==
  /\ \A cursor \in 1..MaxRevisions :
       /\ outcomes[cursor] \subseteq outcomes'[cursor]
       /\ outcomes'[cursor] # outcomes[cursor] =>
            /\ p \in Pumps /\ pump[p].pc = "deliver" /\ pump[p].cursor = cursor
            /\ ~pump'[p].writing
  /\ \A request \in late' : request \in late \/ IsSound(request)'
  /\ (dispatch # R!NoDispatch /\ dispatch'.phase # dispatch.phase) =>
       /\ dispatch'.phase = "completed" => "completed" \in outcomes'[dispatch.cursor]
       /\ dispatch'.phase = "failed" =>
            "failed" \in outcomes'[dispatch.cursor] \/ delivered[dispatch.cursor] = 0

(* The step is p's own, or the broker's for it.                            *)
Follows(p) ==
  /\ Moves /\ DeliveryFits' /\ UNCHANGED <<revision, delivered>> /\ reviewed \subseteq reviewed'
  /\ PumpFollows(p) /\ ReportsFollow(p)

(* A lease that has the token of a pump was the pump's before the step.    *)
LEMMA TokenStays ==
  ASSUME DeliveryInvariant, R!RegistryInvariant', Moves, NEW token, token <= tokens,
         token \in Nat, R!Held', lease'.token = token
  PROVE  /\ R!Held /\ lease.token = token
         /\ lease'.connector = lease.connector /\ lease'.baseline = lease.baseline
<1>1. tokens \in Nat
  BY RegistryFacts, DeliveryAssumption DEF DeliveryInvariant, R!RegistryAssumption
<1> QED BY <1>1 DEF Moves

(* What is unsettled after the step was so before, under the same lease.   *)
LEMMA UnsettledStays ==
  ASSUME DeliveryInvariant, R!RegistryInvariant', Moves, R!Unsettled'
  PROVE  /\ R!Unsettled /\ dispatch'.cursor = dispatch.cursor
         /\ R!Held /\ R!Held' /\ lease'.token = lease.token
         /\ lease'.connector = lease.connector /\ lease'.baseline = lease.baseline
         /\ dispatch # R!NoDispatch /\ dispatch' # R!NoDispatch
         /\ dispatch'.phase = "queued" => dispatch.phase = "queued"
<1>1. R!Held' /\ dispatch' # R!NoDispatch
  BY DEF R!RegistryInvariant, R!OpenDispatchIsOwned, R!Unsettled
<1>2. dispatch # R!NoDispatch /\ R!Unsettled /\ dispatch'.cursor = dispatch.cursor
  BY <1>1 DEF Moves, R!Unsettled
<1>3. R!Held
  BY <1>2, RegistryFacts DEF DeliveryInvariant
<1> QED BY <1>1, <1>2, <1>3 DEF Moves

(* The other pumps keep to their leases.                                   *)
LEMMA FollowsKeepsLeases ==
  ASSUME DeliveryInvariant, R!RegistryInvariant', NEW p, Follows(p)
  PROVE  PumpsKeepTheirLease'
<1> SUFFICES ASSUME NEW q \in Pumps, q # p PROVE KeepsItsLease(q)'
  BY DEF Follows, PumpFollows, PumpsKeepTheirLease
<1>1. pump'[q] = pump[q] /\ Moves /\ revision' = revision
  BY DEF Follows, PumpFollows
<1>2. KeepsItsLease(q) /\ pump[q].token \in Nat
  BY DeliveryAssumption
     DEF DeliveryInvariant, PumpsKeepTheirLease, DeliveryFits, PumpState, R!RegistryAssumption
<1>3. tokens \in Nat /\ tokens' \in Nat /\ tokens' >= tokens
  BY <1>1, RegistryFacts, DeliveryAssumption
     DEF Moves, DeliveryInvariant, R!RegistryAssumption, R!RegistryInvariant, R!TypeOK
<1>4. (R!Held' /\ lease'.token = pump[q].token) =>
        R!Held /\ lease.token = pump[q].token /\ lease'.connector = lease.connector
  BY <1>1, <1>2, TokenStays DEF KeepsItsLease
<1> QED BY <1>1, <1>2, <1>3, <1>4 DEF KeepsItsLease

(* The dispatch is still the newest, and nobody is ahead of it.            *)
LEMMA FollowsKeepsNewest ==
  ASSUME DeliveryInvariant, R!RegistryInvariant', NEW p, Follows(p)
  PROVE  DispatchIsNewest'
<1>1. Moves /\ revision' = revision
  BY DEF Follows
<1>2. (R!Unsettled' \/ blocked' # NoKind) => dispatch'.cursor = revision'
  <2>1. blocked' # NoKind =>
          (R!Unsettled \/ blocked # NoKind) /\ dispatch'.cursor = dispatch.cursor
    BY <1>1, RegistryFacts DEF Moves, DeliveryInvariant
  <2> QED BY <1>1, <2>1, UnsettledStays DEF DeliveryInvariant, DispatchIsNewest
<1>3. R!Held' => lease'.baseline <= revision'
  BY <1>1 DEF Moves, DeliveryInvariant, DispatchIsNewest
<1>4. R!Unsettled' => lease'.baseline < dispatch'.cursor
  BY <1>1, UnsettledStays DEF DeliveryInvariant, DispatchIsNewest
<1>5. ASSUME NEW q \in Pumps, R!Unsettled', dispatch'.phase = "queued",
             lease'.token = pump'[q].token, pump'[q].pc \in {"wait", "waiting"}
      PROVE  pump'[q].after < dispatch'.cursor
  <2>1. CASE q = p
    BY <1>5, <2>1 DEF Follows, PumpFollows
  <2>2. CASE q # p
    <3>1. pump'[q] = pump[q]
      BY <2>2 DEF Follows, PumpFollows
    <3> QED BY <1>1, <1>5, <3>1, UnsettledStays DEF DeliveryInvariant, DispatchIsNewest
  <2> QED BY <2>1, <2>2
<1> QED BY <1>2, <1>3, <1>4, <1>5 DEF DispatchIsNewest

(* Deliveries are still counted, and the pump that holds the lease of an   *)
(* open one is still making it, or done.                                   *)
LEMMA FollowsKeepsCount ==
  ASSUME DeliveryInvariant, R!RegistryInvariant', NEW p, Follows(p)
  PROVE  DeliveriesAreCounted'
<1>1. /\ Moves /\ revision' = revision /\ delivered' = delivered
      /\ \A q \in Pumps : q # p => pump'[q] = pump[q]
  BY DEF Follows, PumpFollows
<1>2. ASSUME NEW cursor \in 1..MaxRevisions
      PROVE  /\ delivered'[cursor] <= 1
             /\ delivered'[cursor] > 0 => cursor <= revision'
             /\ outcomes'[cursor] # {} => delivered'[cursor] > 0
  <2>1. /\ delivered[cursor] <= 1
        /\ delivered[cursor] > 0 => cursor <= revision
        /\ outcomes[cursor] # {} => delivered[cursor] > 0
    BY DEF DeliveryInvariant, DeliveriesAreCounted
  <2>2. outcomes'[cursor] # outcomes[cursor] => delivered[cursor] > 0
    BY DEF Follows, ReportsFollow, DeliveryInvariant, DeliveriesAreCounted
  <2> QED BY <1>1, <2>1, <2>2
<1>3. (R!Unsettled' /\ dispatch'.phase = "queued") => delivered'[dispatch'.cursor] = 0
  BY <1>1, UnsettledStays DEF DeliveryInvariant, DeliveriesAreCounted
<1>4. ASSUME R!Unsettled', delivered'[dispatch'.cursor] > 0
      PROVE  Done(lease.connector)' \/ HasTheDispatch(lease.connector)'
  <2>1. /\ R!Unsettled /\ delivered[dispatch.cursor] > 0 /\ dispatch'.cursor = dispatch.cursor
        /\ lease'.token = lease.token /\ lease'.connector = lease.connector
    BY <1>1, <1>4, UnsettledStays
  <2>2. Done(lease.connector) \/ HasTheDispatch(lease.connector)
    BY <2>1 DEF DeliveryInvariant, DeliveriesAreCounted
  <2>3. lease.connector \in Pumps
    BY <2>1, RegistryFacts DEF DeliveryInvariant
  <2>4. CASE lease.connector # p
    <3>1. pump'[lease.connector] = pump[lease.connector]
      BY <1>1, <2>3, <2>4
    <3> QED BY <2>1, <2>2, <3>1 DEF Done, HasTheDispatch
  <2>5. CASE lease.connector = p
    <3>1. CASE Done(p)
      BY <2>1, <2>3, <2>5, <3>1 DEF Follows, PumpFollows, Done
    <3>2. CASE HasTheDispatch(p)
      BY <1>4, <2>1, <2>3, <2>5, <3>2 DEF Follows, PumpFollows, Done, HasTheDispatch
    <3> QED BY <2>2, <2>5, <3>1, <3>2
  <2> QED BY <2>4, <2>5
<1>5. ASSUME NEW q \in Pumps, pump'[q].pc = "deliver"
      PROVE  /\ pump[q].pc = "deliver" /\ pump'[q].cursor = pump[q].cursor
             /\ pump'[q].phase # "none"
             /\ delivered'[pump'[q].cursor] > 0
             /\ (R!Unsettled' /\ dispatch'.cursor = pump'[q].cursor) => ~IsTerminal(pump'[q].phase)
  <2>1. CASE q = p
    BY <1>1, <1>5, <2>1, UnsettledStays
       DEF Follows, PumpFollows, DeliveryInvariant, DeliveriesAreCounted, R!Unsettled, IsTerminal, R!TerminalPhases
  <2>2. CASE q # p
    BY <1>1, <1>5, <2>2, UnsettledStays DEF DeliveryInvariant, DeliveriesAreCounted
  <2> QED BY <2>1, <2>2
<1>6. \A q \in Pumps : pump'[q].pc = "deliver" =>
        /\ pump'[q].phase # "none" /\ delivered'[pump'[q].cursor] > 0
        /\ (R!Unsettled' /\ dispatch'.cursor = pump'[q].cursor) => ~IsTerminal(pump'[q].phase)
        /\ \A other \in Pumps :
             (other # q /\ pump'[other].pc = "deliver") => pump'[other].cursor # pump'[q].cursor
  BY <1>5 DEF DeliveryInvariant, DeliveriesAreCounted
<1> QED BY <1>2, <1>3, <1>4, <1>6 DEF DeliveriesAreCounted, IsTerminal

(* The late reports of outcomes are still sound.                           *)
LEMMA FollowsKeepsLate ==
  ASSUME DeliveryInvariant, R!RegistryInvariant', NEW p, Follows(p)
  PROVE  LateReportsAreSound'
<1> SUFFICES ASSUME NEW request \in late' PROVE IsSound(request)'
  BY DEF LateReportsAreSound
<1>1. CASE request \notin late
  BY <1>1 DEF Follows, ReportsFollow
<1>2. CASE request \in late
  <2>1. /\ Moves /\ revision' = revision /\ delivered' = delivered /\ request \in LateRequest
        /\ \A q \in Pumps : q # p => pump'[q] = pump[q]
    BY <1>2 DEF Follows, PumpFollows, DeliveryInvariant, DeliveryFits
  <2>2. IsSound(request)
    BY <1>2 DEF DeliveryInvariant, LateReportsAreSound
  <2>3. tokens \in Nat /\ tokens' \in Nat /\ tokens' >= tokens /\ request.token \in Nat
    BY <2>1, RegistryFacts, DeliveryAssumption
       DEF Moves, DeliveryInvariant, R!RegistryAssumption, R!RegistryInvariant, R!TypeOK, LateRequest
  <2>4. request.token <= tokens' /\ request.cursor <= revision'
    BY <2>1, <2>2, <2>3 DEF IsSound
  <2>5. request.cursor \in 1..MaxRevisions => outcomes[request.cursor] \subseteq outcomes'[request.cursor]
    BY DEF Follows, ReportsFollow
  <2>6. request.phase \in {"completed", "failed"} => request.cursor \in 1..MaxRevisions
    BY <2>1 DEF LateRequest
  <2>7. request.phase = "completed" => "completed" \in outcomes'[request.cursor]
    BY <2>2, <2>5, <2>6 DEF IsSound
  <2>8. ASSUME request.phase = "failed", R!Unsettled', lease'.token = request.token,
               dispatch'.cursor = request.cursor
        PROVE  \/ "failed" \in outcomes'[request.cursor]
               \/ delivered'[request.cursor] = 0 /\ Done(lease.connector)'
    <3>1. /\ R!Unsettled /\ lease.token = request.token /\ dispatch.cursor = request.cursor
          /\ lease'.connector = lease.connector
      BY <2>1, <2>8, UnsettledStays
    <3>2. lease.connector \in Pumps
      BY <3>1, RegistryFacts DEF DeliveryInvariant
    <3>3. CASE "failed" \in outcomes[request.cursor]
      BY <2>5, <2>6, <2>8, <3>3
    <3>4. CASE delivered[request.cursor] = 0 /\ Done(lease.connector)
      <4>1. CASE lease.connector = p
        BY <2>1, <3>1, <3>2, <3>4, <4>1 DEF Follows, PumpFollows, Done
      <4>2. CASE lease.connector # p
        BY <2>1, <3>1, <3>2, <3>4, <4>2 DEF Done
      <4> QED BY <4>1, <4>2
    <3> QED BY <2>2, <2>8, <3>1, <3>3, <3>4 DEF IsSound
  <2> QED BY <2>4, <2>7, <2>8 DEF IsSound
<1> QED BY <1>1, <1>2

(* What is said of the dispatch is still the agent's word.                 *)
LEMMA FollowsKeepsOutcome ==
  ASSUME DeliveryInvariant, R!RegistryInvariant', NEW p, Follows(p)
  PROVE  OutcomeIsTheAgents'
<1> SUFFICES ASSUME dispatch' # R!NoDispatch
             PROVE  /\ dispatch'.phase = "completed" => "completed" \in outcomes'[dispatch'.cursor]
                    /\ dispatch'.phase = "failed" =>
                         "failed" \in outcomes'[dispatch'.cursor] \/ delivered'[dispatch'.cursor] = 0
  BY DEF OutcomeIsTheAgents, R!NoDispatch
<1>1. /\ dispatch # R!NoDispatch /\ dispatch'.cursor = dispatch.cursor
      /\ delivered' = delivered
  BY DEF Follows, Moves
<1>2. dispatch.cursor \in 1..MaxRevisions
  BY <1>1, RegistryFacts, DeliveryAssumption DEF DeliveryInvariant, R!RegistryAssumption
<1>3. outcomes[dispatch.cursor] \subseteq outcomes'[dispatch.cursor]
  BY <1>2 DEF Follows, ReportsFollow
<1>4. CASE dispatch'.phase = dispatch.phase
  BY <1>1, <1>3, <1>4 DEF DeliveryInvariant, OutcomeIsTheAgents
<1>5. CASE dispatch'.phase # dispatch.phase
  BY <1>1, <1>5 DEF Follows, ReportsFollow
<1> QED BY <1>4, <1>5

(* Who may be writing was so before, and is watched as before.             *)
LEMMA FollowsKeepsWriters ==
  ASSUME DeliveryInvariant, R!RegistryInvariant', NEW p, Follows(p)
  PROVE  WritersAreWatched' /\ WritersOverlapOnlyAfterReview'
<1>1. /\ Moves /\ revision' = revision /\ delivered' = delivered /\ reviewed \subseteq reviewed'
      /\ \A q \in Pumps : q # p => pump'[q] = pump[q]
  BY DEF Follows, PumpFollows
<1>2. ASSUME NEW q \in Pumps, pump'[q].writing
      PROVE  /\ pump[q].writing /\ pump[q].pc = "deliver" /\ pump'[q].cursor = pump[q].cursor
             /\ pump[q].cursor \in 1..MaxRevisions /\ delivered[pump[q].cursor] > 0
             /\ outcomes'[pump[q].cursor] = {}
  <2>1. pump[q].writing /\ pump[q].pc = "deliver" /\ pump'[q].cursor = pump[q].cursor
    <3>1. CASE q = p
      <4>1. pump'[p].pc = "deliver"
        BY <1>2, <3>1 DEF Follows, PumpFollows, KeepsItsLease
      <4> QED BY <1>2, <3>1, <4>1 DEF Follows, PumpFollows
    <3>2. CASE q # p
      BY <1>1, <1>2, <3>2 DEF DeliveryInvariant, PumpsKeepTheirLease, KeepsItsLease
    <3> QED BY <3>1, <3>2
  <2>2. delivered[pump[q].cursor] > 0 /\ outcomes[pump[q].cursor] = {}
    BY <2>1 DEF DeliveryInvariant, DeliveriesAreCounted, WritersAreWatched
  <2>3. pump[q].cursor \in 1..MaxRevisions
    BY <2>1, DeliveryAssumption
       DEF DeliveryInvariant, DeliveryFits, PumpState, PumpsKeepTheirLease, KeepsItsLease, Handling,
           R!RegistryAssumption
  <2>4. outcomes'[pump[q].cursor] = outcomes[pump[q].cursor]
    <3>1. SUFFICES ASSUME outcomes'[pump[q].cursor] # outcomes[pump[q].cursor] PROVE FALSE
      OBVIOUS
    <3>2. p \in Pumps /\ pump[p].pc = "deliver" /\ pump[p].cursor = pump[q].cursor /\ ~pump'[p].writing
      BY <2>3, <3>1 DEF Follows, ReportsFollow
    <3>3. p = q
      BY <2>1, <3>2 DEF DeliveryInvariant, DeliveriesAreCounted
    <3> QED BY <1>2, <3>2, <3>3
  <2> QED BY <2>1, <2>2, <2>3, <2>4
<1>3. WritersOverlapOnlyAfterReview'
  BY <1>1, <1>2 DEF DeliveryInvariant, WritersOverlapOnlyAfterReview
<1>4. ASSUME NEW q \in Pumps, pump'[q].writing, ~registryClosed'
      PROVE  /\ dispatch' # R!NoDispatch
             /\ pump'[q].cursor <= dispatch'.cursor
             /\ pump'[q].cursor \notin reviewed' =>
                  /\ pump'[q].cursor = dispatch'.cursor
                  /\ dispatch'.phase \in R!Started
                       \/ (dispatch'.phase = "delivery-unknown" /\ blocked' # NoKind)
             /\ pump'[q].cursor = dispatch'.cursor =>
                  dispatch'.phase \in R!Started \cup {"delivery-unknown"}
  <2>1. /\ pump[q].writing /\ pump'[q].cursor = pump[q].cursor /\ delivered[pump[q].cursor] > 0
        /\ outcomes'[pump[q].cursor] = {}
    BY <1>2, <1>4
  <2>2. /\ dispatch # R!NoDispatch /\ pump[q].cursor <= dispatch.cursor
        /\ pump[q].cursor \notin reviewed =>
             /\ pump[q].cursor = dispatch.cursor
             /\ dispatch.phase \in R!Started
                  \/ (dispatch.phase = "delivery-unknown" /\ blocked # NoKind)
        /\ pump[q].cursor = dispatch.cursor =>
             dispatch.phase \in R!Started \cup {"delivery-unknown"}
    BY <1>1, <1>4, <2>1 DEF Moves, DeliveryInvariant, WritersAreWatched
  <2>3. dispatch' # R!NoDispatch /\ dispatch'.cursor = dispatch.cursor
    BY <1>1, <2>2 DEF Moves
  <2>4. ASSUME pump[q].cursor = dispatch.cursor
        PROVE  dispatch'.phase \in R!Started \cup {"delivery-unknown"}
    <3>1. CASE dispatch'.phase = dispatch.phase
      BY <2>2, <2>4, <3>1
    <3>2. CASE dispatch'.phase # dispatch.phase
      <4>1. /\ dispatch'.phase \in R!Phases /\ dispatch'.phase # "queued"
        BY <1>1, <2>2, <2>3, <3>2 DEF Moves, R!RegistryInvariant, R!TypeOK, R!Dispatch
      <4>2. delivered[dispatch.cursor] # 0
        BY <2>1, <2>4
      <4>3. dispatch'.phase \notin {"completed", "failed"}
        BY <2>1, <2>2, <2>4, <3>2, <4>2 DEF Follows, ReportsFollow
      <4> QED BY <4>1, <4>3 DEF R!Phases, R!Started
    <3> QED BY <3>1, <3>2
  <2>5. ASSUME pump[q].cursor \notin reviewed'
        PROVE  dispatch'.phase \in R!Started
                 \/ (dispatch'.phase = "delivery-unknown" /\ blocked' # NoKind)
    <3>1. /\ pump[q].cursor = dispatch.cursor /\ dispatch.cursor \notin reviewed'
          /\ dispatch.phase \in R!Started \/ blocked # NoKind
      BY <1>1, <2>2, <2>5
    <3> QED BY <1>1, <2>2, <2>4, <3>1 DEF Moves
  <2> QED BY <1>1, <2>1, <2>2, <2>3, <2>4, <2>5
<1>5. ASSUME NEW q \in Pumps, pump'[q].writing PROVE outcomes'[pump'[q].cursor] = {}
  BY <1>2, <1>5
<1>6. WritersAreWatched'
  BY <1>4, <1>5 DEF WritersAreWatched, R!NoDispatch, R!Started
<1> QED BY <1>3, <1>6

-----------------------------------------------------------------------------
(* The steps of the delivery are steps of the registry and of the store.   *)

(* What the delivery asks of the registry, a publish excepted.             *)
RegistryOperation ==
  \/ UNCHANGED registry
  \/ R!SweepOnly
  \/ \E kind \in Kinds, connector \in Pumps :
       \/ R!RenewClaim(kind, connector)
       \/ \E baseline \in {0, revision} : R!GrantClaim(kind, connector, baseline)
  \/ \E token \in Nat : R!Heartbeat(token) \/ R!Release(token)
  \/ \E token \in Nat, cursor \in Nat, phase \in R!ReportablePhases : R!Report(token, cursor, phase)
  \/ \E cursor \in 1..revision : R!ResolveDelivery(cursor)
  \/ R!CloseRegistry
  \/ R!TickRegistry

(* It is a step of the registry, whoever asks.                             *)
LEMMA OperationIsStep ==
  ASSUME R!RegistryInvariant, RegistryOperation, UNCHANGED revision
  PROVE  [R!Next]_(R!vars)
<1>1. CASE UNCHANGED registry
  BY <1>1 DEF registry, R!vars, R!registryVars
<1>2. ASSUME NEW token \in Nat, R!Heartbeat(token) \/ R!Release(token)
      PROVE  token \in 1..tokens
  BY <1>2, RegistryFacts DEF R!Heartbeat, R!Release, R!ValidLease, R!Live
<1>3. ASSUME NEW token \in Nat, NEW cursor \in Nat, NEW phase \in R!ReportablePhases,
             R!Report(token, cursor, phase)
      PROVE  token \in 1..tokens /\ cursor \in 1..revision
  BY <1>3, RegistryFacts DEF R!Report, R!CanReport, R!ValidLease, R!Live
<1> QED
  BY <1>1, <1>2, <1>3 DEF RegistryOperation, R!Next, R!Call

(* What is on offer is the newest revision.                                *)
LEMMA BaselineIsNewest ==
  ASSUME DeliveryInvariant
  PROVE  S!SweptCurrent.cursor \in {0, revision}
BY DEF DeliveryInvariant, S!StoreInvariant, S!HistoryIsInOrder, S!SweptCurrent, S!NoHandoff

(* Whatever it does besides, a step that publishes nothing asks the        *)
(* registry for one operation.                                             *)
LEMMA ClaimOperation ==
  ASSUME DeliveryInvariant, NEW p \in Pumps, Claim(p) \/ ClaimRefused(p)
  PROVE  RegistryOperation /\ UNCHANGED revision
BY BaselineIsNewest DEF Claim, ClaimRefused, RegistryOperation, Kinds, Calm, Local

(* A wait, a receipt or the end of a delivery asks the registry for nothing. *)
LEMMA WaitOperation ==
  ASSUME NEW p \in Pumps,
         BeginWait(p) \/ TakeAnswer(p) \/ WaitTimesOut(p) \/ Acknowledge(p)
           \/ DeliverEnds(p) \/ Disconnect(p) \/ Unwind(p)
  PROVE  UNCHANGED <<registry, revision>>
BY DEF BeginWait, TakeAnswer, WaitTimesOut, Acknowledge, DeliverEnds, Disconnect, Unwind, Calm, Local

(* A report is one, whatever becomes of it.                                *)
LEMMA ReportOperation ==
  ASSUME DeliveryInvariant, NEW p \in Pumps,
         \/ OfferToAdapter(p) \/ Decline(p) \/ ReportLost(p)
         \/ \E phase \in R!ReportablePhases : AdapterReports(p, phase)
  PROVE  RegistryOperation /\ UNCHANGED revision
<1> USE DEF RegistryOperation
<1>1. pump[p].token \in Nat /\ pump[p].cursor \in Nat
  BY DeliveryAssumption DEF DeliveryInvariant, DeliveryFits, PumpState, R!RegistryAssumption
<1>2. {"dispatching", "failed", "delivery-unknown"} \subseteq R!ReportablePhases
  BY DEF R!ReportablePhases, R!Phases
<1>3. CASE OfferToAdapter(p)
  BY <1>1, <1>2, <1>3 DEF OfferToAdapter, PumpReports
<1>4. CASE Decline(p)
  BY <1>1, <1>2, <1>4 DEF Decline, PumpReports
<1>5. CASE ReportLost(p)
  BY <1>1, <1>2, <1>5 DEF ReportLost, Calm
<1>6. CASE \E phase \in R!ReportablePhases : AdapterReports(p, phase)
  BY <1>1, <1>6 DEF AdapterReports
<1> QED BY <1>3, <1>4, <1>5, <1>6

(* So is a heartbeat or a release.                                         *)
LEMMA BeatOperation ==
  ASSUME DeliveryInvariant, NEW p \in Pumps, Beat(p) \/ BeatRefused(p) \/ ReleaseLease(p)
  PROVE  RegistryOperation /\ UNCHANGED revision
<1>1. pump[p].token \in Nat
  BY DeliveryAssumption DEF DeliveryInvariant, DeliveryFits, PumpState, R!RegistryAssumption
<1> QED BY <1>1 DEF Beat, BeatRefused, ReleaseLease, Calm, RegistryOperation

(* So is what the broker makes of a late request.                          *)
LEMMA LateOperation ==
  ASSUME DeliveryInvariant, NEW request \in late, HandleLate(request)
  PROVE  RegistryOperation /\ UNCHANGED revision
<1>1. /\ request.token \in Nat /\ request.cursor \in Nat
      /\ request.op = "report" => request.phase \in R!ReportablePhases
  BY DeliveryAssumption DEF DeliveryInvariant, DeliveryFits, LateRequest, R!RegistryAssumption
<1> QED BY <1>1 DEF HandleLate, Calm, RegistryOperation

(* The steps of the browser and of time, but for the publish.              *)
LEMMA BrowserOperation ==
  ASSUME DeliveryInvariant,
         \/ \E request \in Requests : BeginPublish(request) \/ FailPublish(request)
         \/ PollStatus
         \/ \E cursor \in 1..revision : Review(cursor)
         \/ CloseService \/ Tick
  PROVE  RegistryOperation /\ UNCHANGED revision
BY DEF BeginPublish, FailPublish, PollStatus, Review, CloseService, Tick, RegistryOperation

(* Every step of the delivery is a step of the registry, or none.          *)
LEMMA RegistryStep ==
  ASSUME DeliveryInvariant, [Next]_vars
  PROVE  [R!Next]_(R!vars)
<1> SUFFICES ASSUME Next PROVE [R!Next]_(R!vars)
  BY DEF vars, registry, R!vars, R!registryVars
<1>1. R!RegistryInvariant
  BY DEF DeliveryInvariant
<1>2. ASSUME NEW request \in Requests, FinishPublish(request) PROVE R!Next
  BY <1>2 DEF FinishPublish, S!StorePublish, R!Next, R!Publish
<1>3. CASE \/ \E request \in Requests : BeginPublish(request) \/ FailPublish(request)
           \/ PollStatus
           \/ \E cursor \in 1..revision : Review(cursor)
           \/ CloseService \/ Tick
  BY <1>1, <1>3, BrowserOperation, OperationIsStep
<1>4. ASSUME NEW p \in Pumps, Pump(p) PROVE RegistryOperation /\ UNCHANGED revision
  BY <1>4, ClaimOperation, WaitOperation, ReportOperation, BeatOperation
     DEF Pump, RegistryOperation
<1>5. ASSUME NEW request \in late, HandleLate(request) PROVE [R!Next]_(R!vars)
  BY <1>1, <1>5, LateOperation, OperationIsStep
<1> QED BY <1>1, <1>2, <1>3, <1>4, <1>5, OperationIsStep DEF Next, Browser

(* Forgetting the answer or the wait of a pump is no call of the store.    *)
DropsWait(p) ==
  /\ waits' = [waits EXCEPT ![p] = S!Idle]
  /\ UNCHANGED <<current, history, idempotency, storeClosed, revision>>

(* It keeps the invariant of the store all the same.                       *)
LEMMA DropKeepsInvariant ==
  ASSUME S!StoreInvariant, NEW p \in Pumps, DropsWait(p)
  PROVE  S!StoreInvariant'
<1>1. /\ waits \in [Pumps -> S!Wait \cup {S!Idle}]
      /\ S!Cardinality(S!Waiting) <= MaxWaiters /\ S!IsFiniteSet(S!Waiting)
  BY DEF S!StoreInvariant, S!TypeOK, S!PoolsAreFinite
<1>2. \A q \in Pumps : waits'[q] = IF q = p THEN S!Idle ELSE waits[q]
  BY <1>1 DEF DropsWait
<1>3. waits' \in [Pumps -> S!Wait \cup {S!Idle}]
  BY <1>1 DEF DropsWait
<1>4. S!Waiting' = S!Waiting \ {p}
  BY <1>2 DEF S!Waiting, S!Idle
<1>5. S!Cardinality(S!Waiting') <= MaxWaiters /\ S!IsFiniteSet(S!Waiting')
  <2>1. /\ S!IsFiniteSet(S!Waiting) <=> IsFiniteSet(S!Waiting)
        /\ S!IsFiniteSet(S!Waiting') <=> IsFiniteSet(S!Waiting')
    BY DEF S!IsFiniteSet, IsFiniteSet
  <2>2. /\ S!Cardinality(S!Waiting) = Cardinality(S!Waiting)
        /\ S!Cardinality(S!Waiting') = Cardinality(S!Waiting')
    BY DEF S!Cardinality, Cardinality
  <2> HIDE DEF S!Waiting
  <2>3. /\ IsFiniteSet(S!Waiting') /\ Cardinality(S!Waiting') <= Cardinality(S!Waiting)
        /\ Cardinality(S!Waiting') \in Nat /\ Cardinality(S!Waiting) \in Nat
    BY <1>1, <1>4, <2>1, FS_Subset, FS_CardinalityType
  <2>4. MaxWaiters \in Nat
    BY DeliveryAssumption DEF S!StoreAssumption
  <2> QED BY <1>1, <2>1, <2>2, <2>3, <2>4
<1>6. /\ current' = current /\ history' = history /\ idempotency' = idempotency
      /\ storeClosed' = storeClosed /\ revision' = revision
  BY DEF DropsWait
<1>7. S!Records' = S!Records
  BY <1>6 DEF S!Records
<1>8. S!TypeOK'
  BY <1>3, <1>5, <1>6, <1>7 DEF S!StoreInvariant, S!TypeOK, S!NoHandoff
<1>9. S!PoolsAreFinite'
  BY <1>5, <1>6, <1>7 DEF S!StoreInvariant, S!PoolsAreFinite, S!NoHandoff
<1>10. S!HistoryIsInOrder' /\ S!OfferIsRecorded'
  BY <1>6 DEF S!StoreInvariant, S!HistoryIsInOrder, S!OfferIsRecorded, S!NoHandoff, S!NoRecord
<1>11. S!NoHandoffIsMissed' /\ \A q \in S!Waiting' : waits'[q].after <= revision'
  <2>1. \A q \in S!Waiting' : q \in S!Waiting /\ waits'[q] = waits[q]
    BY <1>2, <1>4 DEF S!Waiting
  <2> QED BY <1>6, <2>1 DEF S!StoreInvariant, S!NoHandoffIsMissed, S!NoHandoff
<1>12. storeClosed' =>
         current' = S!NoHandoff /\ history' = <<>> /\ S!Records' = {} /\ S!Waiting' = {}
  BY <1>4, <1>6, <1>7 DEF S!StoreInvariant, S!NoHandoff
<1> QED BY <1>8, <1>9, <1>10, <1>11, <1>12 DEF S!StoreInvariant, S!NoHandoff

(* What the delivery asks of the store, a publish excepted.                *)
StoreOperation ==
  \/ UNCHANGED store
  \/ S!ReadStore
  \/ \E p \in Pumps :
       \/ \E cursor \in Nat : S!Ack(cursor, p)
       \/ \E after \in 0..revision : S!StartWait(p, after)
       \/ S!WaitTimeout(p)
  \/ S!CloseStore
  \/ S!TickStore

(* It is a step of the store, whoever asks.                                *)
LEMMA StoreOperationIsStep ==
  ASSUME S!StoreInvariant, StoreOperation, UNCHANGED revision
  PROVE  [S!Next]_(S!vars)
<1>1. CASE UNCHANGED store
  BY <1>1 DEF store, S!vars, S!storeVars
<1>2. ASSUME NEW p \in Pumps, NEW cursor \in Nat, S!Ack(cursor, p)
      PROVE  cursor \in 1..revision
  BY <1>2, DeliveryAssumption
     DEF S!Ack, S!CanAck, S!SweptCurrent, S!StoreInvariant, S!HistoryIsInOrder, S!TypeOK, S!Handoff,
         S!StoreAssumption
<1> QED BY <1>1, <1>2 DEF StoreOperation, S!Next, S!Call

(* Every step of the delivery but a publish asks the store for one         *)
(* operation, or drops a wait.                                             *)
LEMMA BrowserStoreOperation ==
  ASSUME \/ \E request \in Requests : BeginPublish(request) \/ FailPublish(request)
         \/ PollStatus
         \/ \E cursor \in 1..revision : Review(cursor)
         \/ CloseService \/ Tick
  PROVE  StoreOperation
BY DEF BeginPublish, FailPublish, PollStatus, Review, CloseService, Tick, StoreOperation

(* The steps of a pump.                                                    *)
LEMMA PumpStoreOperation ==
  ASSUME DeliveryInvariant, NEW p \in Pumps, Pump(p)
  PROVE  StoreOperation \/ DropsWait(p)
<1>1. pump[p].after \in 0..revision /\ pump[p].cursor \in Nat
  <2>1. pump[p].after \in Nat /\ pump[p].cursor \in Nat
    BY DeliveryAssumption DEF DeliveryInvariant, DeliveryFits, PumpState, R!RegistryAssumption
  <2>2. pump[p].after <= revision /\ revision \in Nat
    BY RegistryFacts, DeliveryAssumption
       DEF DeliveryInvariant, PumpsKeepTheirLease, KeepsItsLease, R!RegistryAssumption
  <2> QED BY <2>1, <2>2
<1>2. CASE Claim(p) \/ ClaimRefused(p)
  BY <1>2 DEF Claim, ClaimRefused, StoreOperation, Local
<1>3. CASE BeginWait(p) \/ WaitTimesOut(p) \/ Acknowledge(p)
  BY <1>1, <1>3 DEF BeginWait, WaitTimesOut, Acknowledge, StoreOperation
<1>4. CASE TakeAnswer(p) \/ Unwind(p)
  BY <1>4 DEF TakeAnswer, Unwind, DropsWait, Calm
<1>5. CASE OfferToAdapter(p) \/ Decline(p)
  BY <1>5 DEF OfferToAdapter, Decline, PumpReports, StoreOperation
<1>6. CASE \E phase \in R!ReportablePhases : AdapterReports(p, phase)
  BY <1>6 DEF AdapterReports, StoreOperation
<1>7. CASE DeliverEnds(p) \/ ReportLost(p) \/ Disconnect(p)
  BY <1>7 DEF DeliverEnds, ReportLost, Disconnect, StoreOperation, Local
<1>8. CASE Beat(p) \/ BeatRefused(p) \/ ReleaseLease(p)
  BY <1>8 DEF Beat, BeatRefused, ReleaseLease, StoreOperation
<1> QED BY <1>2, <1>3, <1>4, <1>5, <1>6, <1>7, <1>8 DEF Pump

(* Every step of the delivery is one of the store, or drops a wait.        *)
LEMMA StoreIsUsed ==
  ASSUME DeliveryInvariant, Next
  PROVE  [S!Next]_(S!vars) \/ \E p \in Pumps : DropsWait(p)
<1>1. S!StoreInvariant
  BY DEF DeliveryInvariant
<1>2. ASSUME NEW request \in Requests, FinishPublish(request) PROVE [S!Next]_(S!vars)
  BY <1>2 DEF FinishPublish, S!Next
<1>3. CASE \/ \E request \in Requests : BeginPublish(request) \/ FailPublish(request)
           \/ PollStatus
           \/ \E cursor \in 1..revision : Review(cursor)
           \/ CloseService \/ Tick
  BY <1>1, <1>3, BrowserStoreOperation, BrowserOperation, StoreOperationIsStep
<1>4. ASSUME NEW p \in Pumps, Pump(p) PROVE [S!Next]_(S!vars) \/ DropsWait(p)
  <2>1. UNCHANGED revision
    BY <1>4, ClaimOperation, WaitOperation, ReportOperation, BeatOperation DEF Pump
  <2> QED BY <1>1, <1>4, <2>1, PumpStoreOperation, StoreOperationIsStep
<1>5. ASSUME NEW request \in late, HandleLate(request) PROVE [S!Next]_(S!vars)
  <2>1. StoreOperation /\ UNCHANGED revision
    BY <1>5, LateOperation DEF HandleLate, StoreOperation
  <2> QED BY <1>1, <2>1, StoreOperationIsStep
<1> QED BY <1>2, <1>3, <1>4, <1>5 DEF Next, Browser

(* The store's invariant holds after every step of the delivery.           *)
LEMMA StoreStep ==
  ASSUME DeliveryInvariant, Next
  PROVE  S!StoreInvariant'
BY StoreIsUsed, StoreKeepsInvariant, DropKeepsInvariant DEF DeliveryInvariant

-----------------------------------------------------------------------------
(* The shapes the steps of a pump have.                                    *)

(* The fields of a pump, as numbers where they are.                        *)
LEMMA PumpFacts ==
  ASSUME DeliveryInvariant, NEW p \in Pumps
  PROVE  /\ pump \in [Pumps -> PumpState] /\ pump[p] \in PumpState /\ KeepsItsLease(p)
         /\ pump[p].token \in Nat /\ pump[p].cursor \in Nat /\ pump[p].after \in Nat
         /\ tokens \in Nat /\ revision \in Nat
         /\ tokens <= MaxTokens /\ revision <= MaxRevisions
<1>1. pump \in [Pumps -> PumpState] /\ pump[p] \in PumpState /\ KeepsItsLease(p)
  BY DEF DeliveryInvariant, DeliveryFits, PumpsKeepTheirLease
<1>2. MaxTokens \in Nat /\ MaxRevisions \in Nat
  BY DeliveryAssumption DEF R!RegistryAssumption
<1>3. tokens \in 0..MaxTokens /\ revision \in 0..MaxRevisions
  BY RegistryFacts DEF DeliveryInvariant
<1> QED BY <1>1, <1>2, <1>3 DEF PumpState

(* A pump that starts.                                                     *)
LEMMA FreshIsState == Fresh \in PumpState
<1>1. /\ Fresh.pc \in Steps /\ Fresh.next \in {"claim", "stopped"}
      /\ Fresh.phase \in R!ReportablePhases \cup {"none"}
      /\ Fresh.abort \in {"no", "lease", "closed"} /\ Fresh.writing \in BOOLEAN
  BY DEF Fresh, Steps
<1>2. 0 \in 0..MaxTokens /\ 0 \in 0..MaxRevisions
  BY DeliveryAssumption DEF R!RegistryAssumption
<1> QED BY <1>1, <1>2 DEF Fresh, PumpState

(* A pump keeps its token and its claim on the lease.                      *)
LEMMA LeaseStays ==
  ASSUME DeliveryInvariant, R!RegistryInvariant', Moves, NEW p \in Pumps,
         pump'[p].token = pump[p].token
  PROVE  /\ pump'[p].token <= tokens'
         /\ (R!Held' /\ lease'.token = pump'[p].token) =>
              R!Held /\ lease.token = pump[p].token /\ lease'.connector = p
<1>1. pump[p].token \in Nat /\ pump[p].token <= tokens /\ tokens \in Nat
  BY PumpFacts DEF KeepsItsLease
<1>2. tokens' >= tokens /\ tokens' \in Nat
  BY DeliveryAssumption DEF Moves, R!RegistryInvariant, R!TypeOK, R!RegistryAssumption
<1>3. (R!Held /\ lease.token = pump[p].token) => lease.connector = p
  BY PumpFacts DEF KeepsItsLease
<1> QED BY <1>1, <1>2, <1>3, TokenStays

(* A pump that does nothing.                                               *)
LEMMA RestFollows ==
  ASSUME DeliveryInvariant, R!RegistryInvariant', Moves, UNCHANGED <<revision, pump>>, NEW p
  PROVE  PumpFollows(p) /\ pump' \in [Pumps -> PumpState]
<1>0. pump' \in [Pumps -> PumpState] /\ \A q \in Pumps : pump'[q] = pump[q]
  BY DEF DeliveryInvariant, DeliveryFits
<1> SUFFICES ASSUME p \in Pumps PROVE PumpFollows(p)
  BY <1>0 DEF PumpFollows
<1>1. KeepsItsLease(p)'
  BY LeaseStays, PumpFacts DEF KeepsItsLease
<1>2. pump[p].pc = "deliver" => pump[p].phase # "none"
  BY DEF DeliveryInvariant, DeliveriesAreCounted
<1>3. (/\ R!Unsettled' /\ dispatch'.phase = "queued"
       /\ lease'.token = pump[p].token /\ pump[p].pc \in {"wait", "waiting"}) =>
        pump[p].after < dispatch'.cursor
  BY UnsettledStays DEF DeliveryInvariant, DispatchIsNewest
<1> QED BY <1>1, <1>2, <1>3, PumpFacts DEF PumpFollows, Done

(* A pump leaves its run, for another one only without its lease or when   *)
(* it has no delivery under way.                                           *)
LEMMA LeaveFollows ==
  ASSUME DeliveryInvariant, R!RegistryInvariant', Moves, UNCHANGED revision,
         NEW p \in Pumps, NEW next \in {"claim", "stopped"}, Leave(p, next),
         pump[p].pc \in InRun,
         (next = "claim" /\ pump[p].pc \in {"deliver", "lost"}) => pump[p].abort = "lease"
  PROVE  /\ PumpFollows(p) /\ pump' \in [Pumps -> PumpState]
         /\ next = "stopped" => Done(p)'
<1>1. /\ pump' \in [Pumps -> PumpState]
      /\ \A q \in Pumps : q # p => pump'[q] = pump[q]
      /\ pump'[p].pc = "release" /\ pump'[p].next = next /\ pump'[p].token = pump[p].token
      /\ pump'[p].after = 0 /\ pump'[p].cursor = 0 /\ pump'[p].phase = "none"
      /\ pump'[p].abort = "no" /\ ~pump'[p].writing
  <2> DEFINE left == [Fresh EXCEPT !.pc = "release", !.next = next, !.token = pump[p].token]
  <2>1. /\ left \in PumpState /\ left.pc = "release" /\ left.next = next
        /\ left.token = pump[p].token /\ left.after = 0 /\ left.cursor = 0
        /\ left.phase = "none" /\ left.abort = "no" /\ ~left.writing
    <3>1. Fresh \in PumpState /\ pump[p].token \in 0..MaxTokens
      BY FreshIsState, PumpFacts DEF PumpState
    <3>2. /\ Fresh.after = 0 /\ Fresh.cursor = 0 /\ Fresh.phase = "none"
          /\ Fresh.abort = "no" /\ ~Fresh.writing
      BY DEF Fresh
    <3>3. left \in PumpState
      BY <3>1 DEF PumpState, Steps
    <3>4. /\ left.pc = "release" /\ left.next = next /\ left.token = pump[p].token
          /\ left.after = Fresh.after /\ left.cursor = Fresh.cursor /\ left.phase = Fresh.phase
          /\ left.abort = Fresh.abort /\ left.writing = Fresh.writing
      BY <3>1 DEF PumpState
    <3> QED BY ONLY <3>2, <3>3, <3>4
  <2>2. pump' = [pump EXCEPT ![p] = left]
    BY DEF Leave
  <2> HIDE DEF left
  <2>3. /\ pump' \in [Pumps -> PumpState] /\ pump'[p] = left
        /\ \A q \in Pumps : q # p => pump'[q] = pump[q]
    BY <2>1, <2>2, PumpFacts
  <2> QED BY <2>1, <2>3
<1>2. KeepsItsLease(p)'
  BY <1>1, LeaseStays, PumpFacts DEF KeepsItsLease, Handling
<1>3. next = "stopped" => Done(p)'
  BY <1>1 DEF Done
<1>4. pump[p].abort = "lease" => ~(R!Unsettled' /\ lease'.token = pump[p].token)
  BY UnsettledStays, PumpFacts DEF KeepsItsLease
<1>5. ~Done(p)
  BY DEF Done, InRun
<1> QED BY <1>1, <1>2, <1>3, <1>4, <1>5 DEF PumpFollows

(* A pump that stops before it has claimed anything.                       *)
LEMMA StopFollows ==
  ASSUME DeliveryInvariant, R!RegistryInvariant', Moves, UNCHANGED revision,
         NEW p \in Pumps, pump[p].pc = "claim", pump' = [pump EXCEPT ![p] = Stopped]
  PROVE  PumpFollows(p) /\ pump' \in [Pumps -> PumpState]
<1>1. /\ Stopped \in PumpState /\ Stopped.pc = "stopped" /\ Stopped.token = 0
      /\ Stopped.after = 0 /\ Stopped.cursor = 0 /\ Stopped.abort = "no" /\ ~Stopped.writing
  <2>1. /\ Stopped.pc = "stopped" /\ Stopped.token = 0
        /\ Stopped.after = 0 /\ Stopped.cursor = 0 /\ Stopped.abort = "no" /\ ~Stopped.writing
    BY DEF Stopped, Fresh
  <2>2. Stopped \in PumpState
    BY FreshIsState DEF Stopped, PumpState, Steps
  <2> QED BY <2>1, <2>2
<1>2. /\ pump' \in [Pumps -> PumpState] /\ pump'[p] = Stopped
      /\ \A q \in Pumps : q # p => pump'[q] = pump[q]
  BY <1>1, PumpFacts
<1>3. R!Held' => lease'.token > 0
  BY DEF R!RegistryInvariant, R!TypeOK, R!Held, R!Lease
<1>4. tokens' \in Nat /\ revision' \in Nat
  BY DeliveryAssumption DEF R!RegistryInvariant, R!TypeOK, R!RegistryAssumption
<1>5. KeepsItsLease(p)'
  BY <1>1, <1>2, <1>3, <1>4 DEF KeepsItsLease, InRun, Handling
<1> QED BY <1>1, <1>2, <1>5 DEF PumpFollows, Done

(* A pump goes on in its run, and hands nothing over.                      *)
LEMMA StepFollows ==
  ASSUME DeliveryInvariant, R!RegistryInvariant', Moves, UNCHANGED revision,
         NEW p \in Pumps, pump' \in [Pumps -> PumpState],
         \A q \in Pumps : q # p => pump'[q] = pump[q],
         pump[p].pc \in InRun, pump'[p].pc \in InRun \ {"deliver", "lost"},
         pump'[p].token = pump[p].token, pump'[p].abort = pump[p].abort, ~pump'[p].writing,
         pump'[p].after <= revision, pump'[p].cursor <= revision,
         pump'[p].pc \in Handling => pump'[p].cursor > 0,
         pump[p].pc \in {"deliver", "lost"} => ~(R!Unsettled' /\ dispatch'.cursor = pump[p].cursor),
         (R!Unsettled' /\ dispatch'.phase = "queued" /\ lease'.token = pump[p].token
            /\ pump'[p].pc \in {"wait", "waiting"}) => pump'[p].after < dispatch'.cursor
  PROVE  PumpFollows(p)
<1>1. KeepsItsLease(p)'
  BY LeaseStays, PumpFacts DEF KeepsItsLease
<1>2. ~Done(p)
  BY DEF Done, InRun
<1> QED BY <1>1, <1>2 DEF PumpFollows

(* A pump that is aborted where it is.                                     *)
LEMMA AbortFollows ==
  ASSUME DeliveryInvariant, R!RegistryInvariant', Moves, UNCHANGED revision,
         NEW p \in Pumps, NEW abort \in {"lease", "closed"}, pump[p].pc \in InRun,
         pump' = [pump EXCEPT ![p].abort = abort],
         abort = "lease" => ~(R!Held' /\ lease'.token = pump[p].token)
  PROVE  PumpFollows(p) /\ pump' \in [Pumps -> PumpState]
<1>1. /\ pump' \in [Pumps -> PumpState] /\ pump'[p].abort = abort
      /\ \A q \in Pumps : q # p => pump'[q] = pump[q]
      /\ pump'[p].pc = pump[p].pc /\ pump'[p].token = pump[p].token
      /\ pump'[p].after = pump[p].after /\ pump'[p].cursor = pump[p].cursor
      /\ pump'[p].phase = pump[p].phase /\ pump'[p].writing = pump[p].writing
  BY PumpFacts DEF PumpState
<1>2. KeepsItsLease(p)'
  BY <1>1, LeaseStays, PumpFacts DEF KeepsItsLease
<1>3. ~Done(p)
  BY DEF Done, InRun
<1>4. pump[p].pc = "deliver" => pump[p].phase # "none"
  BY DEF DeliveryInvariant, DeliveriesAreCounted
<1>5. (/\ R!Unsettled' /\ dispatch'.phase = "queued"
       /\ lease'.token = pump[p].token /\ pump[p].pc \in {"wait", "waiting"}) =>
        pump[p].after < dispatch'.cursor
  BY UnsettledStays DEF DeliveryInvariant, DispatchIsNewest
<1> QED BY <1>1, <1>2, <1>3, <1>4, <1>5 DEF PumpFollows

(* What the registry settles of its own accord nobody was handed, or is    *)
(* unproved.                                                               *)
LEMMA QuietReports ==
  ASSUME DeliveryInvariant, Moves, Quiet, UNCHANGED <<outcomes, delivered>>, NEW p,
         \A request \in late' : request \in late \/ IsSound(request)'
  PROVE  ReportsFollow(p)
<1>1. (dispatch # R!NoDispatch /\ dispatch'.phase # dispatch.phase /\ dispatch'.phase = "failed")
        => delivered[dispatch.cursor] = 0
  BY DEF Moves, Quiet, DeliveryInvariant, DeliveriesAreCounted
<1>2. (dispatch # R!NoDispatch /\ dispatch'.phase # dispatch.phase) => dispatch'.phase # "completed"
  BY DEF Quiet
<1> QED BY <1>1, <1>2 DEF ReportsFollow

-----------------------------------------------------------------------------
(* The steps that hand nothing over and report nothing.                    *)

(* The waits are untouched, and so are the pumps that wait.                *)
LEMMA WaitsStay ==
  ASSUME DeliveryInvariant, UNCHANGED <<waits, revision>>,
         \A q \in Pumps : pump[q].pc = "waiting" =>
           pump'[q].pc = "waiting" /\ pump'[q].after = pump[q].after
  PROVE  WaitsAreThePumps'
<1>1. S!Waiting' = S!Waiting
  BY DEF S!Waiting
<1> QED BY <1>1 DEF DeliveryInvariant, WaitsAreThePumps, S!Waiting

(* A step that only asks the registry, and leaves the late requests alone. *)
LEMMA CalmFollows ==
  ASSUME DeliveryInvariant, Moves, Quiet, NEW p,
         PumpFollows(p), pump' \in [Pumps -> PumpState],
         UNCHANGED <<late, delivered, outcomes, revision, reviewed, storeClosed>>
  PROVE  Follows(p)
<1>1. DeliveryFits'
  BY DEF DeliveryInvariant, DeliveryFits, Moves
<1>2. ReportsFollow(p)
  BY QuietReports
<1> QED BY <1>1, <1>2 DEF Follows

(* A claim that is granted: what the pump waits for comes before any       *)
(* handoff that is queued under its lease.                                 *)
LEMMA ClaimFollows ==
  ASSUME DeliveryInvariant, R!RegistryInvariant', NEW p \in Pumps, Claim(p)
  PROVE  Follows(p) /\ WaitsAreThePumps'
<1>1. /\ pump[p].pc = "claim" /\ Calm /\ UNCHANGED <<late, waits, storeClosed>>
      /\ \/ R!RenewClaim(KindOf[p], p)
         \/ R!GrantClaim(KindOf[p], p, S!SweptCurrent.cursor)
      /\ \/ pump' = [pump EXCEPT ![p] =
              [@ EXCEPT !.pc = "wait", !.token = lease'.token, !.after = lease'.baseline]]
         \/ pump' = [pump EXCEPT ![p] = Stopped]
  BY DEF Claim, S!ReadStore, S!SweepStore
<1>2. /\ Moves /\ Quiet
      /\ R!Held' /\ lease'.connector = p /\ lease'.baseline <= revision
      /\ lease'.token > 0 /\ lease'.token <= tokens'
  <2>1. S!SweptCurrent.cursor \in 0..revision /\ KindOf[p] \in Kinds
    BY BaselineIsNewest, PumpFacts DEF Kinds
  <2>2. R!Held => lease.baseline <= revision
    BY DEF DeliveryInvariant, DispatchIsNewest
  <2> QED BY <1>1, <2>1, <2>2, ClaimMoves DEF DeliveryInvariant
<1>3. CASE pump' = [pump EXCEPT ![p] = Stopped]
  <2>1. PumpFollows(p) /\ pump' \in [Pumps -> PumpState]
    BY <1>1, <1>2, <1>3, StopFollows DEF Calm
  <2>2. WaitsAreThePumps'
    BY <1>1, <1>3, PumpFacts, WaitsStay DEF Calm
  <2> QED BY <1>1, <1>2, <2>1, <2>2, CalmFollows DEF Calm
<1>4. CASE pump' = [pump EXCEPT ![p] =
              [@ EXCEPT !.pc = "wait", !.token = lease'.token, !.after = lease'.baseline]]
  <2>1. lease'.token \in 0..MaxTokens /\ lease'.baseline \in 0..MaxRevisions
    BY <1>2, DeliveryAssumption
       DEF R!RegistryInvariant, R!TypeOK, R!Held, R!Lease, R!RegistryAssumption
  <2>2. /\ pump' \in [Pumps -> PumpState]
        /\ \A q \in Pumps : q # p => pump'[q] = pump[q]
        /\ pump'[p].pc = "wait" /\ pump'[p].token = lease'.token
        /\ pump'[p].after = lease'.baseline /\ pump'[p].cursor = pump[p].cursor
        /\ pump'[p].abort = pump[p].abort /\ pump'[p].writing = pump[p].writing
    <3> DEFINE won ==
          [pump[p] EXCEPT !.pc = "wait", !.token = lease'.token, !.after = lease'.baseline]
    <3>1. won \in PumpState
      BY <2>1, PumpFacts DEF PumpState, Steps
    <3>2. /\ won.pc = "wait" /\ won.token = lease'.token /\ won.after = lease'.baseline
          /\ won.cursor = pump[p].cursor /\ won.abort = pump[p].abort
          /\ won.writing = pump[p].writing
      BY PumpFacts DEF PumpState
    <3>3. pump' = [pump EXCEPT ![p] = won]
      BY <1>4
    <3> HIDE DEF won
    <3> QED BY <3>1, <3>2, <3>3, PumpFacts
  <2>3. KeepsItsLease(p)'
    <3>1. pump[p].cursor <= revision /\ pump[p].abort = "no" /\ ~pump[p].writing
      BY <1>1, PumpFacts DEF KeepsItsLease, InRun
    <3> QED BY <1>1, <1>2, <2>2, <3>1 DEF KeepsItsLease, Handling, Calm
  <2>4. R!Unsettled' => lease'.baseline < dispatch'.cursor
    BY <1>2, UnsettledStays DEF DeliveryInvariant, DispatchIsNewest
  <2>5. PumpFollows(p)
    BY <1>1, <2>2, <2>3, <2>4 DEF PumpFollows, Done
  <2>6. WaitsAreThePumps'
    BY <1>1, <2>2, WaitsStay DEF Calm
  <2> QED BY <1>1, <1>2, <2>2, <2>5, <2>6, CalmFollows DEF Calm
<1> QED BY <1>1, <1>3, <1>4

(* A claim that is refused, or fails, ends the run.                        *)
LEMMA ClaimRefusedFollows ==
  ASSUME DeliveryInvariant, R!RegistryInvariant', NEW p \in Pumps, ClaimRefused(p)
  PROVE  Follows(p) /\ WaitsAreThePumps'
<1>1. /\ pump[p].pc = "claim" /\ pump' = [pump EXCEPT ![p] = Stopped]
      /\ UNCHANGED <<late, delivered, outcomes, revision, reviewed, waits, storeClosed>>
      /\ UNCHANGED registry \/ R!SweepOnly
  BY DEF ClaimRefused, Local, store, S!ReadStore, S!SweepStore
<1>2. Moves /\ Quiet
  BY <1>1, NothingMoves, SweepOnlyMoves DEF DeliveryInvariant
<1>3. PumpFollows(p) /\ pump' \in [Pumps -> PumpState]
  BY <1>1, <1>2, StopFollows
<1>4. WaitsAreThePumps'
  BY <1>1, PumpFacts, WaitsStay
<1> QED BY <1>1, <1>2, <1>3, <1>4, CalmFollows

(* The pump asks for what follows its cursor, and becomes a waiting client *)
(* unless it is answered at once.                                          *)
LEMMA BeginWaitFollows ==
  ASSUME DeliveryInvariant, R!RegistryInvariant', NEW p \in Pumps, BeginWait(p)
  PROVE  Follows(p) /\ WaitsAreThePumps'
<1>1. /\ pump[p].pc = "wait" /\ S!StartWait(p, pump[p].after)
      /\ pump' = [pump EXCEPT ![p].pc = "waiting"]
      /\ UNCHANGED <<registry, late, revision, reviewed, delivered, outcomes, storeClosed>>
  BY DEF BeginWait, At, Goto, Calm, S!StartWait, S!SweepStore
<1>2. Moves /\ Quiet
  BY <1>1, NothingMoves DEF DeliveryInvariant
<1>3. /\ pump' \in [Pumps -> PumpState]
      /\ \A q \in Pumps : q # p => pump'[q] = pump[q]
      /\ pump'[p].pc = "waiting" /\ pump'[p].token = pump[p].token /\ pump'[p].abort = pump[p].abort
      /\ pump'[p].after = pump[p].after /\ pump'[p].cursor = pump[p].cursor
      /\ pump'[p].writing = pump[p].writing
  BY <1>1, PumpFacts DEF PumpState, Steps
<1>4. /\ pump[p].after <= revision /\ pump[p].cursor <= revision /\ ~pump[p].writing
      /\ pump[p].pc \in InRun
  BY <1>1, PumpFacts DEF KeepsItsLease, InRun, Steps
<1>5. (R!Unsettled' /\ dispatch'.phase = "queued" /\ lease'.token = pump[p].token) =>
        pump[p].after < dispatch'.cursor
  BY <1>1, <1>2, UnsettledStays DEF DeliveryInvariant, DispatchIsNewest
<1>6. PumpFollows(p)
  BY <1>1, <1>2, <1>3, <1>4, <1>5, StepFollows DEF InRun, Steps, Handling
<1>7. WaitsAreThePumps'
  <2>1. /\ waits \in [Pumps -> S!Wait \cup {S!Idle}]
        /\ waits' = [waits EXCEPT ![p] = S!WaitOutcome(pump[p].after)]
    BY <1>1 DEF DeliveryInvariant, S!StoreInvariant, S!TypeOK, S!StartWait
  <2>2. /\ waits'[p] = S!WaitOutcome(pump[p].after)
        /\ \A q \in Pumps : q # p => waits'[q] = waits[q]
    BY <2>1
  <2>3. /\ waits'[p].state = "waiting" => waits'[p].after = pump[p].after
        /\ waits'[p].state = "handoff" => waits'[p].cursor <= revision
    <3>1. S!SweptCurrent # S!NoHandoff => current.cursor = revision
      BY DEF DeliveryInvariant, S!StoreInvariant, S!HistoryIsInOrder, S!SweptCurrent
    <3> QED BY <2>2, <3>1, PumpFacts DEF S!WaitOutcome
  <2>4. ASSUME NEW q \in Pumps
        PROVE  /\ q \in S!Waiting' => pump'[q].pc = "waiting" /\ waits'[q].after = pump'[q].after
               /\ waits'[q].state = "handoff" => waits'[q].cursor <= revision
    BY <1>3, <2>2, <2>3 DEF S!Waiting, DeliveryInvariant, WaitsAreThePumps
  <2> QED BY <1>1, <2>4 DEF WaitsAreThePumps
<1> QED BY <1>1, <1>2, <1>3, <1>6, <1>7, CalmFollows

(* The wait is answered, or has timed out.                                 *)
LEMMA WaitTimesOutFollows ==
  ASSUME DeliveryInvariant, R!RegistryInvariant', NEW p \in Pumps, WaitTimesOut(p)
  PROVE  Follows(p) /\ WaitsAreThePumps'
<1>1. /\ UNCHANGED <<registry, pump, late, revision, reviewed, delivered, outcomes, storeClosed>>
      /\ p \in S!Waiting /\ waits' = [waits EXCEPT ![p] = [@ EXCEPT !.state = "timeout"]]
  BY DEF WaitTimesOut, Calm, pumps, S!WaitTimeout, S!EndWait
<1>2. Moves /\ Quiet
  BY <1>1, NothingMoves DEF DeliveryInvariant
<1>3. PumpFollows(p) /\ pump' \in [Pumps -> PumpState]
  BY <1>1, <1>2, RestFollows
<1>4. WaitsAreThePumps'
  <2>1. waits \in [Pumps -> S!Wait \cup {S!Idle}] /\ waits[p] \in S!Wait
    BY <1>1 DEF DeliveryInvariant, S!StoreInvariant, S!TypeOK, S!Waiting, S!Idle
  <2>2. /\ waits'[p].state = "timeout"
        /\ \A q \in Pumps : q # p => waits'[q] = waits[q]
    BY <1>1, <2>1 DEF S!Wait
  <2> QED BY <1>1, <2>2 DEF S!Waiting, DeliveryInvariant, WaitsAreThePumps
<1> QED BY <1>1, <1>2, <1>3, <1>4, CalmFollows

(* A pump that forgets its wait is none of the waiting clients.            *)
LEMMA DroppedWaits ==
  ASSUME DeliveryInvariant, UNCHANGED revision, NEW p \in Pumps,
         waits' = [waits EXCEPT ![p] = S!Idle],
         \A q \in Pumps : q # p => pump'[q] = pump[q]
  PROVE  WaitsAreThePumps'
<1>1. waits \in [Pumps -> S!Wait \cup {S!Idle}]
  BY DEF DeliveryInvariant, S!StoreInvariant, S!TypeOK
<1>2. waits'[p].state = "idle" /\ \A q \in Pumps : q # p => waits'[q] = waits[q]
  BY <1>1 DEF S!Idle
<1> QED BY <1>2 DEF S!Waiting, DeliveryInvariant, WaitsAreThePumps

(* The pump takes what its wait was answered with.                         *)
LEMMA TakeAnswerFollows ==
  ASSUME DeliveryInvariant, R!RegistryInvariant', NEW p \in Pumps, TakeAnswer(p)
  PROVE  Follows(p) /\ WaitsAreThePumps'
<1>1. /\ pump[p].pc = "waiting" /\ pump[p].pc \in InRun
      /\ waits' = [waits EXCEPT ![p] = S!Idle]
      /\ UNCHANGED <<registry, late, revision, reviewed, delivered, outcomes, storeClosed>>
  BY DEF TakeAnswer, At, Calm, InRun, Steps
<1>2. Moves /\ Quiet
  BY <1>1, NothingMoves DEF DeliveryInvariant
<1>3. ~pump[p].writing /\ pump[p].after <= revision /\ pump[p].cursor <= revision
  BY <1>1, PumpFacts DEF KeepsItsLease
<1>4. CASE waits[p].state = "handoff"
  <2>1. pump' = [pump EXCEPT ![p].pc = "ack", ![p].cursor = waits[p].cursor]
    BY <1>4 DEF TakeAnswer
  <2>2. waits[p].cursor \in 1..MaxRevisions /\ waits[p].cursor <= revision
    <3>1. waits[p] \in S!Wait \cup {S!Idle} /\ waits[p].cursor <= revision
      BY <1>4 DEF DeliveryInvariant, S!StoreInvariant, S!TypeOK, WaitsAreThePumps
    <3> QED BY <1>4, <3>1 DEF S!Wait, S!Idle
  <2>3. /\ pump' \in [Pumps -> PumpState]
        /\ \A q \in Pumps : q # p => pump'[q] = pump[q]
        /\ pump'[p].pc = "ack" /\ pump'[p].token = pump[p].token /\ pump'[p].abort = pump[p].abort
        /\ pump'[p].after = pump[p].after /\ pump'[p].cursor = waits[p].cursor
        /\ pump'[p].writing = pump[p].writing
    <3>1. waits[p].cursor \in 0..MaxRevisions
      BY <2>2
    <3> QED BY <2>1, <3>1, PumpFacts DEF PumpState, Steps
  <2>4. PumpFollows(p)
    BY <1>1, <1>2, <1>3, <2>2, <2>3, StepFollows DEF InRun, Steps
  <2> QED BY <1>1, <1>2, <2>3, <2>4, DroppedWaits, CalmFollows
<1>5. CASE waits[p].state = "timeout"
  <2>1. pump' = [pump EXCEPT ![p].pc = "wait"]
    BY <1>5 DEF TakeAnswer, Goto
  <2>2. /\ pump' \in [Pumps -> PumpState]
        /\ \A q \in Pumps : q # p => pump'[q] = pump[q]
        /\ pump'[p].pc = "wait" /\ pump'[p].token = pump[p].token /\ pump'[p].abort = pump[p].abort
        /\ pump'[p].after = pump[p].after /\ pump'[p].cursor = pump[p].cursor
        /\ pump'[p].writing = pump[p].writing
    BY <2>1, PumpFacts DEF PumpState, Steps
  <2>3. (R!Unsettled' /\ dispatch'.phase = "queued" /\ lease'.token = pump[p].token) =>
          pump[p].after < dispatch'.cursor
    BY <1>1, <1>2, UnsettledStays DEF DeliveryInvariant, DispatchIsNewest
  <2>4. PumpFollows(p)
    BY <1>1, <1>2, <1>3, <2>2, <2>3, StepFollows DEF InRun, Steps, Handling
  <2> QED BY <1>1, <1>2, <2>2, <2>4, DroppedWaits, CalmFollows
<1>6. CASE waits[p].state \notin {"handoff", "timeout"}
  <2>1. PICK next \in {"claim", "stopped"} : Leave(p, next)
    BY <1>6 DEF TakeAnswer
  <2>2. PumpFollows(p) /\ pump' \in [Pumps -> PumpState]
    BY <1>1, <1>2, <2>1, LeaveFollows
  <2>3. \A q \in Pumps : q # p => pump'[q] = pump[q]
    BY <2>2 DEF PumpFollows
  <2> QED BY <1>1, <1>2, <2>2, <2>3, DroppedWaits, CalmFollows
<1> QED BY <1>4, <1>5, <1>6

(* The receipt is recorded, or not.                                        *)
LEMMA AcknowledgeFollows ==
  ASSUME DeliveryInvariant, R!RegistryInvariant', NEW p \in Pumps, Acknowledge(p)
  PROVE  Follows(p) /\ WaitsAreThePumps'
<1>1. /\ pump[p].pc = "ack" /\ pump[p].pc \in InRun
      /\ UNCHANGED <<registry, late, revision, reviewed, delivered, outcomes, waits, storeClosed>>
  BY DEF Acknowledge, At, Calm, InRun, Steps, store, S!Ack, S!ReadStore, S!SweepStore
<1>2. PICK pc \in {"offer", "decline"} : pump' = [pump EXCEPT ![p].pc = pc]
  BY DEF Acknowledge, Goto
<1>3. Moves /\ Quiet
  BY <1>1, NothingMoves DEF DeliveryInvariant
<1>4. /\ pump' \in [Pumps -> PumpState]
      /\ \A q \in Pumps : q # p => pump'[q] = pump[q]
      /\ pump'[p].pc = pc /\ pump'[p].token = pump[p].token /\ pump'[p].abort = pump[p].abort
      /\ pump'[p].after = pump[p].after /\ pump'[p].cursor = pump[p].cursor
      /\ pump'[p].writing = pump[p].writing
  BY <1>2, PumpFacts DEF PumpState, Steps
<1>5. /\ ~pump[p].writing /\ pump[p].after <= revision /\ pump[p].cursor <= revision
      /\ pump[p].cursor > 0
  BY <1>1, PumpFacts DEF KeepsItsLease, Handling
<1>6. PumpFollows(p)
  BY <1>1, <1>2, <1>3, <1>4, <1>5, StepFollows DEF InRun, Steps
<1>7. WaitsAreThePumps'
  BY <1>1, <1>4, WaitsStay
<1> QED BY <1>1, <1>3, <1>4, <1>6, <1>7, CalmFollows

(* The adapter returned or threw: the delivery is over, or unproved.       *)
LEMMA DeliverEndsFollows ==
  ASSUME DeliveryInvariant, R!RegistryInvariant', NEW p \in Pumps, DeliverEnds(p)
  PROVE  Follows(p) /\ WaitsAreThePumps'
<1>1. /\ pump[p].pc = "deliver" /\ pump[p].pc \in InRun
      /\ UNCHANGED <<registry, late, revision, reviewed, delivered, outcomes, waits, storeClosed>>
  BY DEF DeliverEnds, At, Local, InRun, Steps, store
<1>2. Moves /\ Quiet
  BY <1>1, NothingMoves DEF DeliveryInvariant
<1>3. /\ pump[p].cursor > 0 /\ pump[p].cursor <= revision /\ pump[p].cursor \in 0..MaxRevisions
      /\ pump[p].writing => ~IsTerminal(pump[p].phase)
  BY <1>1, PumpFacts DEF KeepsItsLease, Handling, PumpState
<1>4. CASE IsTerminal(pump[p].phase)
  <2>1. pump' = [pump EXCEPT ![p] =
          [@ EXCEPT !.pc = "wait", !.after = pump[p].cursor, !.cursor = 0, !.phase = "none"]]
    BY <1>4 DEF DeliverEnds
  <2>2. /\ pump' \in [Pumps -> PumpState]
        /\ \A q \in Pumps : q # p => pump'[q] = pump[q]
        /\ pump'[p].pc = "wait" /\ pump'[p].token = pump[p].token /\ pump'[p].abort = pump[p].abort
        /\ pump'[p].after = pump[p].cursor /\ pump'[p].cursor = 0
        /\ pump'[p].writing = pump[p].writing
    <3> DEFINE over ==
          [pump[p] EXCEPT !.pc = "wait", !.after = pump[p].cursor, !.cursor = 0, !.phase = "none"]
    <3>0. 0 \in 0..MaxRevisions
      BY DeliveryAssumption DEF R!RegistryAssumption
    <3>1. over \in PumpState
      BY <1>3, <3>0, PumpFacts DEF PumpState, Steps
    <3>2. /\ over.pc = "wait" /\ over.token = pump[p].token /\ over.abort = pump[p].abort
          /\ over.after = pump[p].cursor /\ over.cursor = 0 /\ over.writing = pump[p].writing
      BY PumpFacts DEF PumpState
    <3>3. pump' = [pump EXCEPT ![p] = over]
      BY <2>1
    <3> HIDE DEF over
    <3> QED BY <3>1, <3>2, <3>3, PumpFacts
  <2>3. ~(R!Unsettled' /\ dispatch'.cursor = pump[p].cursor)
    BY <1>1, <1>2, <1>4, UnsettledStays DEF DeliveryInvariant, DeliveriesAreCounted
  <2>4. R!Unsettled' => pump[p].cursor < dispatch'.cursor
    <3>1. R!Unsettled' => dispatch'.cursor = revision
      BY <1>2, UnsettledStays DEF DeliveryInvariant, DispatchIsNewest
    <3> QED BY <1>3, <2>3, <3>1, PumpFacts
  <2>5. PumpFollows(p)
    BY <1>1, <1>2, <1>3, <1>4, <2>2, <2>3, <2>4, PumpFacts, StepFollows DEF InRun, Steps, Handling
  <2>6. WaitsAreThePumps'
    BY <1>1, <2>2, WaitsStay
  <2> QED BY <1>1, <1>2, <2>2, <2>5, <2>6, CalmFollows
<1>5. CASE ~IsTerminal(pump[p].phase)
  <2>1. pump' = [pump EXCEPT ![p] = [@ EXCEPT !.pc = "lost", !.writing = FALSE]]
    BY <1>5 DEF DeliverEnds
  <2>2. /\ pump' \in [Pumps -> PumpState]
        /\ \A q \in Pumps : q # p => pump'[q] = pump[q]
        /\ pump'[p].pc = "lost" /\ pump'[p].token = pump[p].token /\ pump'[p].abort = pump[p].abort
        /\ pump'[p].after = pump[p].after /\ pump'[p].cursor = pump[p].cursor
        /\ ~pump'[p].writing
    <3> DEFINE over == [pump[p] EXCEPT !.pc = "lost", !.writing = FALSE]
    <3>1. over \in PumpState
      BY PumpFacts DEF PumpState, Steps
    <3>2. /\ over.pc = "lost" /\ over.token = pump[p].token /\ over.abort = pump[p].abort
          /\ over.after = pump[p].after /\ over.cursor = pump[p].cursor /\ over.writing = FALSE
      BY PumpFacts DEF PumpState
    <3>3. pump' = [pump EXCEPT ![p] = over]
      BY <2>1
    <3> HIDE DEF over
    <3> QED BY <3>1, <3>2, <3>3, PumpFacts
  <2>3. KeepsItsLease(p)'
    BY <1>1, <1>2, <2>2, LeaseStays, PumpFacts DEF KeepsItsLease, InRun, Steps, Handling
  <2>4. PumpFollows(p)
    BY <1>1, <2>2, <2>3 DEF PumpFollows, Done
  <2>5. WaitsAreThePumps'
    BY <1>1, <2>2, WaitsStay
  <2> QED BY <1>1, <1>2, <2>2, <2>4, <2>5, CalmFollows
<1> QED BY <1>4, <1>5

(* The heartbeat, and what aborts a run.                                   *)
LEMMA BeatFollows ==
  ASSUME DeliveryInvariant, R!RegistryInvariant', NEW p \in Pumps,
         Beat(p) \/ BeatRefused(p) \/ Disconnect(p)
  PROVE  Follows(p) /\ WaitsAreThePumps'
<1>1. /\ pump[p].pc \in InRun
      /\ UNCHANGED <<late, revision, reviewed, delivered, outcomes, waits, storeClosed>>
  BY DEF Beat, BeatRefused, Disconnect, Local, Calm, store, pumps
<1>2. CASE Beat(p)
  <2>1. Moves /\ Quiet
    BY <1>2, HeartbeatMoves DEF Beat, DeliveryInvariant
  <2>2. PumpFollows(p) /\ pump' \in [Pumps -> PumpState]
    BY <1>1, <1>2, <2>1, RestFollows DEF Beat, pumps
  <2>3. WaitsAreThePumps'
    BY <1>1, <1>2, WaitsStay DEF Beat, pumps
  <2> QED BY <1>1, <2>1, <2>2, <2>3, CalmFollows
<1>3. CASE BeatRefused(p) \/ Disconnect(p)
  <2>1. Moves /\ Quiet
    BY <1>3, NothingMoves, SweepOnlyMoves DEF BeatRefused, Disconnect, Local, DeliveryInvariant
  <2>2. PICK abort \in {"lease", "closed"} :
          /\ pump' = [pump EXCEPT ![p].abort = abort]
          /\ abort = "lease" => BeatRefused(p)
    BY <1>3 DEF BeatRefused, Disconnect
  <2>3. BeatRefused(p) => ~(R!Held' /\ lease'.token = pump[p].token)
    <3>1. BeatRefused(p) => /\ ~R!ValidLease(pump[p].token) /\ ~registryClosed
                            /\ lease' = IF R!Overdue THEN R!NoLease ELSE lease
      BY DEF BeatRefused, R!SweepOnly, R!Sweep, R!SweepLease
    <3> QED BY <3>1 DEF R!ValidLease, R!Live, R!Held, R!NoLease
  <2>4. PumpFollows(p) /\ pump' \in [Pumps -> PumpState]
    BY <1>1, <2>1, <2>2, <2>3, AbortFollows
  <2>5. WaitsAreThePumps'
    BY <1>1, <2>2, PumpFacts, WaitsStay DEF PumpState
  <2> QED BY <1>1, <2>1, <2>4, <2>5, CalmFollows
<1> QED BY <1>2, <1>3

-----------------------------------------------------------------------------
(* The requests whose caller has given up on them.                         *)

(* A late request is the one given up on now, or was late before.          *)
LEMMA GivenUp ==
  ASSUME DeliveryInvariant, NEW request \in LateRequest, GiveUp(request) \/ UNCHANGED late
  PROVE  late' \subseteq LateRequest /\ \A other \in late' : other \in late \/ other = request
BY DEF GiveUp, DeliveryInvariant, DeliveryFits

(* A pump that holds the lease and has not handed the newest handoff over  *)
(* yet is the only one that may.                                           *)
LEMMA NotYetHanded ==
  ASSUME DeliveryInvariant, NEW p \in Pumps, R!Unsettled, lease.token = pump[p].token,
         pump[p].pc \in {"ack", "offer", "decline"}
  PROVE  lease.connector = p /\ delivered[dispatch.cursor] = 0
<1>1. R!Held /\ dispatch # R!NoDispatch
  BY RegistryFacts DEF DeliveryInvariant
<1>2. lease.connector = p
  BY <1>1, PumpFacts DEF KeepsItsLease
<1>3. delivered[dispatch.cursor] \in Nat
  <2>1. dispatch.cursor \in 1..MaxRevisions
    BY <1>1, RegistryFacts, DeliveryAssumption DEF DeliveryInvariant, R!RegistryAssumption
  <2> QED BY <2>1 DEF DeliveryInvariant, DeliveryFits
<1>4. ~Done(p) /\ ~HasTheDispatch(p)
  BY DEF Done, HasTheDispatch
<1> QED BY <1>2, <1>3, <1>4 DEF DeliveryInvariant, DeliveriesAreCounted

(* A report a pump has given up on is sound: an outcome is the agent's, or *)
(* comes from a pump that declined and lets its lease go.                  *)
LEMMA LateReportIsSound ==
  ASSUME DeliveryInvariant, R!RegistryInvariant', Moves, UNCHANGED <<revision, delivered>>,
         NEW p \in Pumps, NEW phase \in R!ReportablePhases, NEW request,
         request = LateReport(p, phase), pump[p].pc \in Handling,
         IsTerminal(phase) =>
           \/ phase \in outcomes'[pump[p].cursor]
           \/ phase = "failed" /\ pump[p].pc = "decline" /\ (pump[p].abort = "lease" \/ Done(p)')
  PROVE  request \in LateRequest /\ IsSound(request)'
<1>1. /\ request = [op |-> "report", token |-> pump[p].token, cursor |-> pump[p].cursor,
                    phase |-> phase]
      /\ request.token = pump[p].token /\ request.cursor = pump[p].cursor
      /\ request.phase = phase
  BY DEF LateReport
<1>2. /\ pump[p].token \in 1..MaxTokens /\ pump[p].token <= tokens
      /\ pump[p].cursor \in 1..MaxRevisions /\ pump[p].cursor <= revision
  BY PumpFacts, DeliveryAssumption DEF KeepsItsLease, InRun, Steps, Handling, R!RegistryAssumption
<1>3. request \in LateRequest
  BY <1>1, <1>2 DEF LateRequest
<1>4. pump[p].token <= tokens'
  <2>1. tokens' \in Nat /\ tokens' >= tokens
    BY DeliveryAssumption DEF Moves, R!RegistryInvariant, R!TypeOK, R!RegistryAssumption
  <2> QED BY <1>2, <2>1, PumpFacts
<1>5. ASSUME R!Unsettled', lease'.token = pump[p].token, dispatch'.cursor = pump[p].cursor,
             phase = "failed", phase \notin outcomes'[pump[p].cursor]
      PROVE  delivered'[pump[p].cursor] = 0 /\ Done(lease.connector)'
  <2>1. pump[p].pc = "decline" /\ (pump[p].abort = "lease" \/ Done(p)')
    BY <1>5 DEF IsTerminal
  <2>2. /\ R!Unsettled /\ R!Held /\ lease.token = pump[p].token /\ dispatch.cursor = pump[p].cursor
        /\ lease'.connector = lease.connector
    BY <1>5, UnsettledStays
  <2>3. lease.connector = p /\ delivered[pump[p].cursor] = 0
    BY <2>1, <2>2, NotYetHanded
  <2>4. pump[p].abort # "lease"
    BY <2>2, PumpFacts DEF KeepsItsLease
  <2>5. Done(p)'
    BY <2>1, <2>4
  <2> QED BY <2>2, <2>3, <2>5 DEF Done
<1>6. phase = "completed" => "completed" \in outcomes'[pump[p].cursor]
  BY DEF IsTerminal
<1> QED BY <1>1, <1>2, <1>3, <1>4, <1>5, <1>6 DEF IsSound

(* A step that settles nothing of its own accord, whatever it gives up on. *)
LEMMA QuietFollows ==
  ASSUME DeliveryInvariant, Moves, Quiet, NEW p,
         PumpFollows(p), pump' \in [Pumps -> PumpState],
         UNCHANGED <<delivered, outcomes, revision, storeClosed>>, reviewed \subseteq reviewed',
         late' \subseteq LateRequest, \A request \in late' : request \in late \/ IsSound(request)'
  PROVE  Follows(p)
<1>1. DeliveryFits'
  BY DEF DeliveryInvariant, DeliveryFits, Moves
<1>2. ReportsFollow(p)
  BY QuietReports
<1> QED BY <1>1, <1>2 DEF Follows

(* The aborted run unwinds, its call given up on.                          *)
LEMMA UnwindFollows ==
  ASSUME DeliveryInvariant, R!RegistryInvariant', NEW p \in Pumps, Unwind(p)
  PROVE  Follows(p) /\ WaitsAreThePumps'
<1>1. /\ pump[p].pc \in InRun /\ waits' = [waits EXCEPT ![p] = S!Idle]
      /\ UNCHANGED <<registry, revision, reviewed, delivered, outcomes, storeClosed>>
  BY DEF Unwind, Calm
<1>2. Moves /\ Quiet
  BY <1>1, NothingMoves DEF DeliveryInvariant
<1>3. PICK next \in {"claim", "stopped"} :
        Leave(p, next) /\ (next = "claim" => pump[p].abort = "lease")
  BY DEF Unwind
<1>4. /\ PumpFollows(p) /\ pump' \in [Pumps -> PumpState]
      /\ pump[p].abort = "lease" \/ Done(p)'
  BY <1>1, <1>2, <1>3, LeaveFollows
<1>5. WaitsAreThePumps'
  BY <1>1, <1>4, DroppedWaits DEF PumpFollows
<1>6. CASE UNCHANGED late
  BY <1>1, <1>2, <1>4, <1>5, <1>6, CalmFollows
<1>7. ASSUME NEW phase \in {"dispatching", "failed"}, NEW request, request = LateReport(p, phase),
             GiveUp(request), pump[p].pc \in {"offer", "decline"},
             phase = "failed" => pump[p].pc = "decline"
      PROVE  Follows(p)
  <2>1. phase \in R!ReportablePhases
    BY DEF R!ReportablePhases, R!Phases
  <2>2. request \in LateRequest /\ IsSound(request)'
    BY <1>1, <1>2, <1>4, <1>7, <2>1, LateReportIsSound DEF IsTerminal, Handling
  <2>3. late' \subseteq LateRequest /\ \A other \in late' : other \in late \/ IsSound(other)'
    BY <1>7, <2>2, GivenUp
  <2> QED BY <1>1, <1>2, <1>4, <2>3, QuietFollows
<1> QED BY <1>5, <1>6, <1>7 DEF Unwind

(* The run is over, whatever became of the release.                        *)
LEMMA ReleaseLeaseFollows ==
  ASSUME DeliveryInvariant, R!RegistryInvariant', NEW p \in Pumps, ReleaseLease(p)
  PROVE  Follows(p) /\ WaitsAreThePumps'
<1>1. /\ pump[p].pc = "release" /\ AfterRelease(p)
      /\ UNCHANGED <<revision, reviewed, delivered, outcomes, waits, storeClosed>>
  BY DEF ReleaseLease, Calm, store
<1>2. Moves /\ Quiet
  BY NothingMoves, SweepOnlyMoves, ReleaseMoves DEF ReleaseLease, DeliveryInvariant
<1>3. /\ pump' \in [Pumps -> PumpState] /\ \A q \in Pumps : q # p => pump'[q] = pump[q]
      /\ pump'[p].pc = pump[p].next /\ pump'[p].token = 0 /\ pump'[p].after = 0
      /\ pump'[p].cursor = 0 /\ pump'[p].abort = "no" /\ ~pump'[p].writing
  <2> DEFINE after == [Fresh EXCEPT !.pc = pump[p].next]
  <2>1. pump[p].next \in {"claim", "stopped"}
    BY PumpFacts DEF PumpState
  <2>2. /\ Fresh.token = 0 /\ Fresh.after = 0 /\ Fresh.cursor = 0
        /\ Fresh.abort = "no" /\ ~Fresh.writing
    BY DEF Fresh
  <2>3. after \in PumpState
    BY <2>1, FreshIsState DEF PumpState, Steps
  <2>4. /\ after.pc = pump[p].next /\ after.token = Fresh.token /\ after.after = Fresh.after
        /\ after.cursor = Fresh.cursor /\ after.abort = Fresh.abort
        /\ after.writing = Fresh.writing
    BY FreshIsState DEF PumpState
  <2>5. pump' = [pump EXCEPT ![p] = after]
    BY <1>1 DEF AfterRelease
  <2> HIDE DEF after
  <2> QED BY <2>2, <2>3, <2>4, <2>5, PumpFacts
<1>4. pump[p].next \in {"claim", "stopped"}
  BY PumpFacts DEF PumpState
<1>5. KeepsItsLease(p)'
  <2>1. R!Held' => lease'.token > 0
    BY DEF R!RegistryInvariant, R!TypeOK, R!Held, R!Lease
  <2>2. tokens' \in Nat /\ revision' \in Nat
    BY DeliveryAssumption DEF R!RegistryInvariant, R!TypeOK, R!RegistryAssumption
  <2> QED BY <1>3, <1>4, <2>1, <2>2 DEF KeepsItsLease, InRun, Handling
<1>6. PumpFollows(p)
  BY <1>1, <1>3, <1>4, <1>5 DEF PumpFollows, Done
<1>7. WaitsAreThePumps'
  BY <1>1, <1>3, WaitsStay
<1>8. CASE UNCHANGED late
  BY <1>1, <1>2, <1>3, <1>6, <1>7, <1>8, CalmFollows
<1>9. ASSUME NEW request, request = LateRelease(p), GiveUp(request)
      PROVE  Follows(p)
  <2>1. /\ request = [op |-> "release", token |-> pump[p].token, cursor |-> 0, phase |-> "none"]
        /\ request.token = pump[p].token /\ request.cursor = 0 /\ request.phase = "none"
    BY <1>9 DEF LateRelease
  <2>2. pump[p].token \in 1..MaxTokens /\ pump[p].token <= tokens
    BY <1>1, PumpFacts, DeliveryAssumption DEF KeepsItsLease, R!RegistryAssumption
  <2>3. request \in LateRequest
    BY <2>1, <2>2 DEF LateRequest
  <2>4. tokens' \in Nat /\ revision' \in Nat /\ tokens' >= tokens
    BY <1>2, DeliveryAssumption DEF Moves, R!RegistryInvariant, R!TypeOK, R!RegistryAssumption
  <2>5. IsSound(request)'
    BY <2>1, <2>2, <2>4, PumpFacts DEF IsSound
  <2>6. late' \subseteq LateRequest /\ \A other \in late' : other \in late \/ IsSound(other)'
    BY <1>9, <2>3, <2>5, GivenUp
  <2> QED BY <1>1, <1>2, <1>3, <1>6, <2>6, QuietFollows
<1> QED BY <1>7, <1>8, <1>9 DEF ReleaseLease

(* The unproved delivery is reported with best effort.                     *)
LEMMA ReportLostFollows ==
  ASSUME DeliveryInvariant, R!RegistryInvariant', NEW p \in Pumps, ReportLost(p)
  PROVE  Follows(p) /\ WaitsAreThePumps'
<1>1. /\ pump[p].pc = "lost" /\ pump[p].pc \in InRun
      /\ UNCHANGED <<revision, reviewed, delivered, outcomes, waits, storeClosed>>
  BY DEF ReportLost, Calm, store, InRun, Steps
<1>2. PICK next \in {"claim", "stopped"} :
        Leave(p, next) /\ (next = "claim" => pump[p].abort = "lease")
  BY DEF ReportLost
<1>3. "delivery-unknown" \in R!ReportablePhases
  BY DEF R!ReportablePhases, R!Phases
<1>4. Moves /\ Quiet
  <2>1. CASE R!Report(pump[p].token, pump[p].cursor, "delivery-unknown")
    <3>1. Moves /\ dispatch'.phase = "delivery-unknown"
      BY <1>3, <2>1, ReportMoves DEF DeliveryInvariant
    <3> QED BY <3>1 DEF Quiet
  <2> QED BY <2>1, NothingMoves, SweepOnlyMoves DEF ReportLost, DeliveryInvariant
<1>5. PumpFollows(p) /\ pump' \in [Pumps -> PumpState]
  BY <1>1, <1>2, <1>4, LeaveFollows
<1>6. WaitsAreThePumps'
  <2>1. \A q \in Pumps : pump[q].pc = "waiting" => pump'[q] = pump[q]
    BY <1>1, <1>5 DEF PumpFollows
  <2> QED BY <1>1, <2>1, WaitsStay
<1>7. CASE UNCHANGED late
  BY <1>1, <1>4, <1>5, <1>6, <1>7, CalmFollows
<1>8. ASSUME NEW request, request = LateReport(p, "delivery-unknown"), GiveUp(request)
      PROVE  Follows(p)
  <2>1. request \in LateRequest /\ IsSound(request)'
    BY <1>1, <1>3, <1>4, <1>8, LateReportIsSound DEF IsTerminal, Handling
  <2>2. late' \subseteq LateRequest /\ \A other \in late' : other \in late \/ IsSound(other)'
    BY <1>8, <2>1, GivenUp
  <2> QED BY <1>1, <1>4, <1>5, <2>2, QuietFollows
<1> QED BY <1>6, <1>7, <1>8 DEF ReportLost

(* A report of the pump itself that is refused, or fails, ends its run.    *)
LEMMA FailedReportFollows ==
  ASSUME DeliveryInvariant, R!RegistryInvariant', NEW p \in Pumps,
         NEW phase \in R!ReportablePhases, NEW request, request = LateReport(p, phase),
         pump[p].pc \in {"offer", "decline"},
         IsTerminal(phase) => phase = "failed" /\ pump[p].pc = "decline",
         UNCHANGED <<store, revision, publishing, reviewed, outcomes, delivered>>,
         \/ /\ R!SweepOnly \/ UNCHANGED registry
            /\ Leave(p, "stopped") \/ Leave(p, "claim")
            /\ UNCHANGED late
         \/ UNCHANGED registry /\ GiveUp(request) /\ Leave(p, "stopped")
  PROVE  Follows(p) /\ WaitsAreThePumps'
<1>1. /\ pump[p].pc \in InRun /\ pump[p].pc \in Handling
      /\ pump[p].pc \notin {"deliver", "lost", "waiting"}
      /\ UNCHANGED <<waits, storeClosed>>
  BY DEF InRun, Steps, Handling, store
<1>2. Moves /\ Quiet
  BY NothingMoves, SweepOnlyMoves DEF DeliveryInvariant
<1>3. /\ PumpFollows(p) /\ pump' \in [Pumps -> PumpState]
      /\ Leave(p, "stopped") => Done(p)'
  BY <1>1, <1>2, LeaveFollows
<1>4. WaitsAreThePumps'
  <2>1. \A q \in Pumps : pump[q].pc = "waiting" => pump'[q] = pump[q]
    BY <1>1, <1>3 DEF PumpFollows
  <2> QED BY <1>1, <2>1, WaitsStay
<1>5. CASE UNCHANGED late
  BY <1>1, <1>2, <1>3, <1>4, <1>5, CalmFollows
<1>6. CASE GiveUp(request) /\ Leave(p, "stopped")
  <2>1. request \in LateRequest /\ IsSound(request)'
    BY <1>1, <1>2, <1>3, <1>6, LateReportIsSound
  <2>2. late' \subseteq LateRequest /\ \A other \in late' : other \in late \/ IsSound(other)'
    BY <1>6, <2>1, GivenUp
  <2> QED BY <1>1, <1>2, <1>3, <1>4, <2>2, QuietFollows
<1> QED BY <1>5, <1>6

(* Nothing was handed over, and the report that it failed is taken.        *)
LEMMA DeclineFollows ==
  ASSUME DeliveryInvariant, R!RegistryInvariant', NEW p \in Pumps, Decline(p)
  PROVE  Follows(p) /\ WaitsAreThePumps'
<1>1. /\ pump[p].pc = "decline" /\ pump[p].pc \in InRun
      /\ UNCHANGED <<store, revision, publishing, reviewed, outcomes, delivered>>
      /\ "failed" \in R!ReportablePhases
  BY DEF Decline, PumpReports, At, InRun, Steps, R!ReportablePhases, R!Phases
<1>2. CASE /\ R!Report(pump[p].token, pump[p].cursor, "failed")
           /\ pump' = [pump EXCEPT ![p].pc = "wait", ![p].after = pump[p].cursor, ![p].cursor = 0]
           /\ UNCHANGED late
  <2>1. /\ Moves /\ R!Held /\ lease.token = pump[p].token
        /\ dispatch # R!NoDispatch /\ dispatch'.phase = "failed"
        /\ dispatch.phase # "failed" => R!Unsettled
    BY <1>1, <1>2, ReportMoves DEF DeliveryInvariant
  <2>2. dispatch.phase # "failed" => delivered[dispatch.cursor] = 0
    BY <1>1, <2>1, NotYetHanded
  <2>3. ReportsFollow(p)
    BY <1>1, <1>2, <2>1, <2>2 DEF ReportsFollow
  <2>4. /\ pump[p].cursor \in 0..MaxRevisions /\ 0 \in 0..MaxRevisions
        /\ pump[p].cursor <= revision /\ ~pump[p].writing
    BY <1>1, PumpFacts, DeliveryAssumption DEF KeepsItsLease, PumpState, R!RegistryAssumption
  <2>5. /\ pump' \in [Pumps -> PumpState]
        /\ \A q \in Pumps : q # p => pump'[q] = pump[q]
        /\ pump'[p].pc = "wait" /\ pump'[p].token = pump[p].token /\ pump'[p].abort = pump[p].abort
        /\ pump'[p].after = pump[p].cursor /\ pump'[p].cursor = 0
        /\ pump'[p].writing = pump[p].writing
    <3> DEFINE declined == [pump[p] EXCEPT !.pc = "wait", !.after = pump[p].cursor, !.cursor = 0]
    <3>1. declined \in PumpState
      BY <2>4, PumpFacts DEF PumpState, Steps
    <3>2. /\ declined.pc = "wait" /\ declined.token = pump[p].token
          /\ declined.abort = pump[p].abort /\ declined.after = pump[p].cursor
          /\ declined.cursor = 0 /\ declined.writing = pump[p].writing
      BY PumpFacts DEF PumpState
    <3>3. pump' = [pump EXCEPT ![p] = declined]
      BY <1>2
    <3> HIDE DEF declined
    <3> QED BY <3>1, <3>2, <3>3, PumpFacts
  <2>6. ~R!Unsettled'
    BY <2>1 DEF R!Unsettled, R!TerminalPhases
  <2>7. PumpFollows(p)
    BY <1>1, <2>1, <2>4, <2>5, <2>6, PumpFacts, StepFollows DEF InRun, Steps, Handling
  <2>8. WaitsAreThePumps'
    BY <1>1, <2>5, WaitsStay DEF store
  <2>9. DeliveryFits'
    BY <1>1, <1>2, <2>1, <2>5 DEF DeliveryInvariant, DeliveryFits, Moves, store
  <2> QED BY <1>1, <2>1, <2>3, <2>7, <2>8, <2>9 DEF Follows
<1>3. CASE \/ /\ R!SweepOnly \/ UNCHANGED registry
              /\ Leave(p, "stopped") \/ Leave(p, "claim")
              /\ UNCHANGED late
           \/ /\ UNCHANGED registry /\ GiveUp(LateReport(p, "failed"))
              /\ Leave(p, "stopped")
  <2>1. PICK request : request = LateReport(p, "failed")
    OBVIOUS
  <2> QED BY <1>1, <1>3, <2>1, FailedReportFollows
<1> QED BY <1>2, <1>3 DEF Decline, PumpReports

(* The adapter reports, and an outcome ends its writing, whether the       *)
(* registry takes the report, refuses it or never answers.                 *)
LEMMA AdapterReportsFollows ==
  ASSUME DeliveryInvariant, R!RegistryInvariant', NEW p \in Pumps,
         NEW phase \in R!ReportablePhases, AdapterReports(p, phase)
  PROVE  Follows(p) /\ WaitsAreThePumps'
<1>1. /\ pump[p].pc = "deliver" /\ pump[p].pc \in InRun /\ pump[p].pc \in Handling
      /\ UNCHANGED <<revision, reviewed, delivered, waits, storeClosed>>
      /\ outcomes' = IF IsTerminal(phase)
                     THEN [outcomes EXCEPT ![pump[p].cursor] = @ \cup {phase}] ELSE outcomes
  BY DEF AdapterReports, At, store, InRun, Steps, Handling
<1>2. PICK reported \in {phase, pump[p].phase} :
        /\ pump' = [pump EXCEPT ![p].phase = reported, ![p].writing = @ /\ ~IsTerminal(phase)]
        /\ \/ R!Report(pump[p].token, pump[p].cursor, phase) /\ UNCHANGED late
           \/ /\ reported = pump[p].phase /\ Moves /\ Quiet
              /\ GiveUp(LateReport(p, phase)) \/ UNCHANGED late
  <2>1. /\ UNCHANGED registry => Moves /\ Quiet
        /\ R!SweepOnly => Moves /\ Quiet
    BY NothingMoves, SweepOnlyMoves DEF DeliveryInvariant
  <2>2. ASSUME pump' = [pump EXCEPT ![p].writing = @ /\ ~IsTerminal(phase)]
        PROVE  pump' = [pump EXCEPT ![p].phase = pump[p].phase,
                                    ![p].writing = @ /\ ~IsTerminal(phase)]
    <3> DEFINE silent == ~IsTerminal(phase)
    <3> HIDE DEF silent
    <3> QED BY <2>2, PumpFacts DEF PumpState, silent
  <2> QED BY <2>1, <2>2 DEF AdapterReports
<1>3. /\ Moves
      /\ \/ /\ dispatch # R!NoDispatch /\ dispatch.cursor = pump[p].cursor
            /\ dispatch'.phase = phase /\ UNCHANGED late
         \/ Quiet /\ reported = pump[p].phase
  BY <1>2, ReportMoves DEF DeliveryInvariant
<1>4. /\ pump[p].cursor \in 1..MaxRevisions
      /\ pump[p].phase \in R!ReportablePhases
  <2>1. pump[p].phase # "none"
    BY <1>1 DEF DeliveryInvariant, DeliveriesAreCounted
  <2> QED BY <1>1, <2>1, PumpFacts, DeliveryAssumption
          DEF KeepsItsLease, PumpState, R!RegistryAssumption
<1>5. /\ pump' \in [Pumps -> PumpState] /\ \A q \in Pumps : q # p => pump'[q] = pump[q]
      /\ pump'[p].pc = "deliver" /\ pump'[p].token = pump[p].token
      /\ pump'[p].after = pump[p].after /\ pump'[p].cursor = pump[p].cursor
      /\ pump'[p].abort = pump[p].abort /\ pump'[p].phase = reported
      /\ pump'[p].writing => pump[p].writing /\ ~IsTerminal(phase)
  <2> DEFINE silent == ~IsTerminal(phase)
             said == [pump[p] EXCEPT !.phase = reported, !.writing = @ /\ silent]
  <2>1. (pump[p].writing /\ silent) \in BOOLEAN
    OBVIOUS
  <2> HIDE DEF silent
  <2>2. reported \in R!ReportablePhases
    BY <1>4
  <2>3. said \in PumpState
    BY <2>1, <2>2, PumpFacts DEF PumpState
  <2>4. /\ said.pc = pump[p].pc /\ said.token = pump[p].token /\ said.after = pump[p].after
        /\ said.cursor = pump[p].cursor /\ said.abort = pump[p].abort
        /\ said.phase = reported
    BY PumpFacts DEF PumpState
  <2>5. said.writing = (pump[p].writing /\ silent)
    BY PumpFacts DEF PumpState
  <2>6. pump' = [pump EXCEPT ![p] = said]
    BY <1>2 DEF silent
  <2> HIDE DEF said
  <2>7. /\ pump' \in [Pumps -> PumpState] /\ pump'[p] = said
        /\ \A q \in Pumps : q # p => pump'[q] = pump[q]
    BY <2>3, <2>6, PumpFacts
  <2>8. pump'[p].writing = (pump[p].writing /\ silent)
    BY <2>5, <2>7
  <2>9. pump'[p].writing => pump[p].writing /\ ~IsTerminal(phase)
    BY <2>8 DEF silent
  <2> QED BY <1>1, <2>4, <2>7, <2>9
<1>6. PumpFollows(p)
  <2>1. pump'[p].writing => ~IsTerminal(reported)
    BY <1>1, <1>2, <1>5, PumpFacts DEF KeepsItsLease
  <2>2. KeepsItsLease(p)'
    BY <1>1, <1>3, <1>5, <2>1, LeaseStays, PumpFacts DEF KeepsItsLease, IsTerminal
  <2>3. reported # "none"
    BY <1>4, <1>2 DEF R!ReportablePhases, R!Phases
  <2>4. IsTerminal(reported) => reported = pump[p].phase \/ dispatch'.phase = reported
    BY <1>2, <1>3
  <2> QED BY <1>1, <1>5, <2>2, <2>3, <2>4 DEF PumpFollows, Done, IsTerminal
<1>7. /\ outcomes' \in [1..MaxRevisions -> SUBSET {"completed", "failed"}]
      /\ \A cursor \in 1..MaxRevisions :
           /\ outcomes[cursor] \subseteq outcomes'[cursor]
           /\ outcomes'[cursor] # outcomes[cursor] => cursor = pump[p].cursor /\ IsTerminal(phase)
      /\ IsTerminal(phase) => phase \in outcomes'[pump[p].cursor]
  <2>1. outcomes \in [1..MaxRevisions -> SUBSET {"completed", "failed"}]
    BY DEF DeliveryInvariant, DeliveryFits
  <2> QED BY <1>1, <1>4, <2>1 DEF IsTerminal
<1>8. late' \subseteq LateRequest /\ \A request \in late' : request \in late \/ IsSound(request)'
  <2>1. CASE UNCHANGED late
    BY <2>1 DEF DeliveryInvariant, DeliveryFits
  <2>2. CASE GiveUp(LateReport(p, phase))
    <3>1. PICK request : request = LateReport(p, phase)
      OBVIOUS
    <3>2. request \in LateRequest /\ IsSound(request)'
      BY <1>1, <1>3, <1>7, <3>1, LateReportIsSound
    <3> QED BY <2>2, <3>1, <3>2, GivenUp
  <2> QED BY <1>2, <2>1, <2>2
<1>9. ASSUME dispatch # R!NoDispatch, dispatch'.phase # dispatch.phase
      PROVE  /\ dispatch'.phase = "completed" => "completed" \in outcomes'[dispatch.cursor]
             /\ dispatch'.phase = "failed" =>
                  "failed" \in outcomes'[dispatch.cursor] \/ delivered[dispatch.cursor] = 0
  <2>1. CASE dispatch.cursor = pump[p].cursor /\ dispatch'.phase = phase
    BY <1>7, <2>1 DEF IsTerminal
  <2>2. CASE Quiet
    BY <1>3, <1>9, <2>2 DEF Moves, Quiet, DeliveryInvariant, DeliveriesAreCounted
  <2> QED BY <1>3, <2>1, <2>2
<1>10. ReportsFollow(p)
  BY <1>1, <1>5, <1>7, <1>8, <1>9 DEF ReportsFollow
<1>11. WaitsAreThePumps'
  BY <1>1, <1>5, WaitsStay
<1>12. DeliveryFits'
  BY <1>1, <1>3, <1>5, <1>7, <1>8 DEF DeliveryInvariant, DeliveryFits, Moves
<1> QED BY <1>1, <1>3, <1>6, <1>10, <1>11, <1>12 DEF Follows

(* The broker handles a request its caller has given up on.                *)
LEMMA HandleLateFollows ==
  ASSUME DeliveryInvariant, R!RegistryInvariant', NEW request \in late, HandleLate(request)
  PROVE  Follows(request) /\ WaitsAreThePumps'
<1>1. /\ UNCHANGED <<pump, revision, reviewed, delivered, outcomes, waits, storeClosed>>
      /\ late' \subseteq late /\ late \subseteq LateRequest /\ request \in LateRequest
      /\ IsSound(request)
  BY DEF HandleLate, Calm, store, DeliveryInvariant, DeliveryFits, LateReportsAreSound
<1>2. CASE /\ request.op = "report"
           /\ R!Report(request.token, request.cursor, request.phase)
  <2>1. request.phase \in R!ReportablePhases
    BY <1>1, <1>2 DEF LateRequest
  <2>2. /\ Moves /\ lease.token = request.token
        /\ dispatch # R!NoDispatch /\ dispatch.cursor = request.cursor
        /\ dispatch'.phase = request.phase
        /\ request.phase # dispatch.phase => R!Unsettled
    BY <1>2, <2>1, ReportMoves DEF DeliveryInvariant
  <2>3. ReportsFollow(request)
    BY <1>1, <2>2 DEF ReportsFollow, IsSound
  <2>4. PumpFollows(request) /\ pump' \in [Pumps -> PumpState]
    BY <1>1, <2>2, RestFollows
  <2>5. DeliveryFits'
    BY <1>1, <2>2, <2>4 DEF DeliveryInvariant, DeliveryFits, Moves
  <2>6. WaitsAreThePumps'
    BY <1>1, WaitsStay
  <2> QED BY <1>1, <2>2, <2>3, <2>4, <2>5, <2>6 DEF Follows
<1>3. CASE R!SweepOnly \/ R!Release(request.token)
  <2>1. Moves /\ Quiet
    BY <1>3, SweepOnlyMoves, ReleaseMoves DEF DeliveryInvariant
  <2>2. PumpFollows(request) /\ pump' \in [Pumps -> PumpState]
    BY <1>1, <2>1, RestFollows
  <2>3. WaitsAreThePumps'
    BY <1>1, WaitsStay
  <2>4. late' \subseteq LateRequest /\ \A other \in late' : other \in late \/ IsSound(other)'
    BY <1>1
  <2>5. Follows(request)
    BY <1>1, <2>1, <2>2, <2>4, QuietFollows
  <2> QED BY <2>3, <2>5
<1> QED BY <1>2, <1>3 DEF HandleLate

(* The browser asks, or time passes, and nothing is published or closed.   *)
LEMMA BrowserFollows ==
  ASSUME DeliveryInvariant, R!RegistryInvariant',
         \/ \E request \in Requests : BeginPublish(request) \/ FailPublish(request)
         \/ PollStatus
         \/ \E cursor \in 1..revision : Review(cursor)
         \/ Tick
  PROVE  Follows("browser") /\ WaitsAreThePumps'
<1>1. /\ UNCHANGED <<pump, late, revision, delivered, outcomes, waits, storeClosed>>
      /\ reviewed \subseteq reviewed' /\ late \subseteq LateRequest
  BY DEF BeginPublish, FailPublish, PollStatus, Review, Tick, pumps, store, S!ReadStore, S!SweepStore,
         S!TickStore, DeliveryInvariant, DeliveryFits
<1>2. Moves /\ Quiet
  <2>1. CASE \E cursor \in 1..revision : Review(cursor)
    BY <2>1, ResolveMoves DEF Review, DeliveryInvariant
  <2> QED BY <2>1, NothingMoves, SweepOnlyMoves, TickMoves
          DEF BeginPublish, FailPublish, PollStatus, Tick, DeliveryInvariant
<1>3. PumpFollows("browser") /\ pump' \in [Pumps -> PumpState]
  BY <1>1, <1>2, RestFollows
<1>4. WaitsAreThePumps'
  BY <1>1, WaitsStay
<1> QED BY <1>1, <1>2, <1>3, <1>4, QuietFollows

-----------------------------------------------------------------------------
(* The step that hands a handoff over.                                     *)

(* The report is refused, or fails, and the run ends.                      *)
LEMMA OfferRefusedFollows ==
  ASSUME DeliveryInvariant, R!RegistryInvariant', NEW p \in Pumps, OfferToAdapter(p),
         ~(R!Report(pump[p].token, pump[p].cursor, "dispatching")
           /\ delivered' = [delivered EXCEPT ![pump[p].cursor] = @ + 1])
  PROVE  Follows(p) /\ WaitsAreThePumps'
<1>1. PICK request : request = LateReport(p, "dispatching")
  OBVIOUS
<1>2. "dispatching" \in R!ReportablePhases /\ ~IsTerminal("dispatching")
  BY DEF R!ReportablePhases, R!Phases, IsTerminal
<1> QED BY <1>1, <1>2, FailedReportFollows DEF OfferToAdapter, PumpReports, At

(* What the step does when the report is taken: the pump holds the lease   *)
(* of the newest handoff, which nobody was handed before.                  *)
LEMMA OfferTakenFacts ==
  ASSUME DeliveryInvariant, NEW p \in Pumps, OfferToAdapter(p),
         R!Report(pump[p].token, pump[p].cursor, "dispatching"),
         delivered' = [delivered EXCEPT ![pump[p].cursor] = @ + 1]
  PROVE  /\ Moves /\ pump[p].pc = "offer" /\ pump[p].abort = "no"
         /\ R!Unsettled /\ lease' = lease /\ lease.token = pump[p].token /\ lease.connector = p
         /\ dispatch # R!NoDispatch /\ dispatch' # R!NoDispatch /\ blocked' = blocked
         /\ dispatch.cursor = pump[p].cursor /\ dispatch'.cursor = pump[p].cursor
         /\ dispatch'.phase = "dispatching" /\ ~registryClosed
         /\ pump[p].cursor \in 1..MaxRevisions /\ pump[p].cursor = revision
         /\ delivered[pump[p].cursor] = 0 /\ delivered' # delivered
         /\ UNCHANGED <<late, outcomes, revision, reviewed, waits, storeClosed>>
<1>1. "dispatching" \in R!ReportablePhases
  BY DEF R!ReportablePhases, R!Phases
<1>2. /\ Moves /\ R!Held /\ lease.token = pump[p].token
      /\ dispatch # R!NoDispatch /\ dispatch.cursor = pump[p].cursor
      /\ dispatch'.phase = "dispatching"
      /\ dispatch.phase # "dispatching" => R!Unsettled
  BY <1>1, ReportMoves DEF DeliveryInvariant
<1>3. R!Unsettled
  BY <1>2 DEF R!Unsettled, R!TerminalPhases
<1>4. pump[p].pc = "offer" /\ pump[p].abort = "no"
  BY DEF OfferToAdapter, At
<1>5. lease.connector = p /\ delivered[pump[p].cursor] = 0
  BY <1>2, <1>3, <1>4, NotYetHanded
<1>6. /\ lease' = lease /\ blocked' = blocked /\ dispatch' # R!NoDispatch
      /\ dispatch'.cursor = pump[p].cursor
  BY <1>2 DEF R!Report, Moves
<1>7. pump[p].cursor \in 1..MaxRevisions /\ pump[p].cursor = revision /\ ~registryClosed
  BY <1>2, <1>3, RegistryFacts, DeliveryAssumption
     DEF DeliveryInvariant, DispatchIsNewest, R!RegistryAssumption
<1>8. delivered' # delivered
  BY <1>5, <1>7 DEF DeliveryInvariant, DeliveryFits
<1>9. UNCHANGED <<late, outcomes, revision, reviewed, waits, storeClosed>>
  BY <1>8 DEF OfferToAdapter, PumpReports, store
<1> QED BY <1>2, <1>3, <1>4, <1>5, <1>6, <1>7, <1>8, <1>9

(* The pump after the report was taken.                                    *)
LEMMA OfferTakenPump ==
  ASSUME DeliveryInvariant, NEW p \in Pumps, OfferToAdapter(p),
         R!Report(pump[p].token, pump[p].cursor, "dispatching"),
         delivered' = [delivered EXCEPT ![pump[p].cursor] = @ + 1]
  PROVE  /\ pump' \in [Pumps -> PumpState] /\ \A q \in Pumps : q # p => pump'[q] = pump[q]
         /\ pump'[p].pc = "deliver" /\ pump'[p].token = pump[p].token
         /\ pump'[p].after = pump[p].after /\ pump'[p].cursor = pump[p].cursor
         /\ pump'[p].abort = pump[p].abort /\ pump'[p].phase = "dispatching"
         /\ pump'[p].writing
<1> DEFINE offered == [pump[p] EXCEPT !.pc = "deliver", !.phase = "dispatching", !.writing = TRUE]
<1>1. delivered' # delivered
  BY OfferTakenFacts
<1>2. pump' = [pump EXCEPT ![p] = offered]
  BY <1>1 DEF OfferToAdapter, PumpReports
<1>3. "dispatching" \in R!ReportablePhases
  BY DEF R!ReportablePhases, R!Phases
<1>4. offered \in PumpState
  BY <1>3, PumpFacts DEF PumpState, Steps
<1>5. /\ offered.pc = "deliver" /\ offered.token = pump[p].token /\ offered.after = pump[p].after
      /\ offered.cursor = pump[p].cursor /\ offered.abort = pump[p].abort
      /\ offered.phase = "dispatching"
  BY PumpFacts DEF PumpState
<1>6. offered.writing
  BY PumpFacts DEF PumpState
<1> HIDE DEF offered
<1>7. /\ pump' \in [Pumps -> PumpState] /\ pump'[p] = offered
      /\ \A q \in Pumps : q # p => pump'[q] = pump[q]
  BY <1>2, <1>4, PumpFacts
<1> QED BY <1>5, <1>6, <1>7

(* A pump the step leaves alone keeps to its lease.                        *)
LEMMA OtherKeepsLease ==
  ASSUME DeliveryInvariant, R!RegistryInvariant', Moves, revision' >= revision,
         NEW q \in Pumps, pump'[q] = pump[q]
  PROVE  KeepsItsLease(q)'
<1>1. /\ KeepsItsLease(q) /\ pump[q].token \in Nat /\ pump[q].after \in Nat
      /\ pump[q].cursor \in Nat /\ tokens \in Nat /\ revision \in Nat
  BY PumpFacts
<1>2. tokens' \in Nat /\ tokens' >= tokens /\ revision' \in Nat
  BY DeliveryAssumption DEF Moves, R!RegistryInvariant, R!TypeOK, R!RegistryAssumption
<1>3. (R!Held' /\ lease'.token = pump[q].token) =>
        R!Held /\ lease.token = pump[q].token /\ lease'.connector = lease.connector
  BY <1>1, TokenStays DEF KeepsItsLease
<1> QED BY <1>1, <1>2, <1>3 DEF KeepsItsLease

(* The handoff is handed over for the first time, and nobody else may      *)
(* still be writing unless the user has reviewed it.                       *)
LEMMA OfferTakenKeepsInvariant ==
  ASSUME DeliveryInvariant, R!RegistryInvariant', S!StoreInvariant', NEW p \in Pumps,
         OfferToAdapter(p), R!Report(pump[p].token, pump[p].cursor, "dispatching"),
         delivered' = [delivered EXCEPT ![pump[p].cursor] = @ + 1]
  PROVE  DeliveryInvariant'
<1>1. /\ Moves /\ pump[p].pc = "offer" /\ pump[p].abort = "no"
      /\ R!Unsettled /\ lease' = lease /\ lease.token = pump[p].token /\ lease.connector = p
      /\ dispatch # R!NoDispatch /\ dispatch' # R!NoDispatch /\ blocked' = blocked
      /\ dispatch.cursor = pump[p].cursor /\ dispatch'.cursor = pump[p].cursor
      /\ dispatch'.phase = "dispatching" /\ ~registryClosed
      /\ pump[p].cursor \in 1..MaxRevisions /\ pump[p].cursor = revision
      /\ delivered[pump[p].cursor] = 0
      /\ UNCHANGED <<late, outcomes, revision, reviewed, waits, storeClosed>>
  BY OfferTakenFacts
<1>2. /\ pump' \in [Pumps -> PumpState] /\ \A q \in Pumps : q # p => pump'[q] = pump[q]
      /\ pump'[p].pc = "deliver" /\ pump'[p].token = pump[p].token
      /\ pump'[p].after = pump[p].after /\ pump'[p].cursor = pump[p].cursor
      /\ pump'[p].abort = pump[p].abort /\ pump'[p].phase = "dispatching"
      /\ pump'[p].writing
  BY OfferTakenPump
<1>3. /\ delivered \in [1..MaxRevisions -> Nat] /\ delivered' \in [1..MaxRevisions -> Nat]
      /\ delivered'[pump[p].cursor] = 1
      /\ \A cursor \in 1..MaxRevisions : cursor # pump[p].cursor =>
           delivered'[cursor] = delivered[cursor]
  BY <1>1 DEF DeliveryInvariant, DeliveryFits
<1>4. outcomes[pump[p].cursor] = {}
  BY <1>1, <1>3 DEF DeliveryInvariant, DeliveriesAreCounted
<1>5. \A q \in Pumps : pump[q].pc = "deliver" =>
        q # p /\ pump[q].cursor # pump[p].cursor /\ pump[q].cursor \in 1..MaxRevisions
  <2>1. \A q \in Pumps : pump[q].pc = "deliver" => delivered[pump[q].cursor] > 0
    BY DEF DeliveryInvariant, DeliveriesAreCounted
  <2>2. ASSUME NEW q \in Pumps, pump[q].pc = "deliver" PROVE pump[q].cursor \in 1..MaxRevisions
    BY <2>2, PumpFacts, DeliveryAssumption DEF KeepsItsLease, Handling, R!RegistryAssumption
  <2> QED BY <1>1, <2>1, <2>2
<1>6. DeliveryFits'
  BY <1>1, <1>2, <1>3 DEF DeliveryInvariant, DeliveryFits, Moves
<1>7. PumpsKeepTheirLease'
  <2>1. KeepsItsLease(p)'
    BY <1>1, <1>2, LeaseStays, PumpFacts DEF KeepsItsLease, InRun, Steps, IsTerminal
  <2>2. ASSUME NEW q \in Pumps, q # p PROVE KeepsItsLease(q)'
    BY <1>1, <1>2, <2>2, OtherKeepsLease, PumpFacts
  <2> QED BY <2>1, <2>2 DEF PumpsKeepTheirLease
<1>8. WaitsAreThePumps'
  BY <1>1, <1>2, WaitsStay
<1>9. DispatchIsNewest'
  BY <1>1, UnsettledStays DEF DeliveryInvariant, DispatchIsNewest, R!Held
<1>10. DeliveriesAreCounted'
  <2>1. ASSUME NEW cursor \in 1..MaxRevisions
        PROVE  /\ delivered'[cursor] <= 1
               /\ delivered'[cursor] > 0 => cursor <= revision'
               /\ outcomes'[cursor] # {} => delivered'[cursor] > 0
    BY <1>1, <1>3, PumpFacts DEF DeliveryInvariant, DeliveriesAreCounted
  <2>2. HasTheDispatch(lease.connector)'
    BY <1>1, <1>2 DEF HasTheDispatch
  <2>3. ASSUME NEW q \in Pumps, pump'[q].pc = "deliver"
        PROVE  /\ pump'[q].phase # "none"
               /\ delivered'[pump'[q].cursor] > 0
               /\ (R!Unsettled' /\ dispatch'.cursor = pump'[q].cursor) =>
                    ~IsTerminal(pump'[q].phase)
    BY <1>1, <1>2, <1>3, <1>5, <2>3 DEF DeliveryInvariant, DeliveriesAreCounted, IsTerminal
  <2>4. \A q, other \in Pumps : (other # q /\ pump'[q].pc = "deliver" /\ pump'[other].pc = "deliver")
           => pump'[other].cursor # pump'[q].cursor
    BY <1>2, <1>5 DEF DeliveryInvariant, DeliveriesAreCounted
  <2> QED BY <1>1, <2>1, <2>2, <2>3, <2>4 DEF DeliveriesAreCounted, IsTerminal
<1>11. LateReportsAreSound'
  <2> SUFFICES ASSUME NEW request \in late PROVE IsSound(request)'
    BY <1>1 DEF LateReportsAreSound
  <2>1. IsSound(request) /\ request.token \in Nat
    BY DeliveryAssumption
       DEF DeliveryInvariant, LateReportsAreSound, DeliveryFits, LateRequest, R!RegistryAssumption
  <2>2. tokens \in Nat /\ tokens' \in Nat /\ tokens' >= tokens
    BY <1>1, PumpFacts, DeliveryAssumption
       DEF Moves, R!RegistryInvariant, R!TypeOK, R!RegistryAssumption
  <2>3. ~(request.phase = "failed" /\ lease.token = request.token /\ dispatch.cursor = request.cursor)
    BY <1>1, <1>4, <2>1 DEF IsSound, Done
  <2> QED BY <1>1, <2>1, <2>2, <2>3 DEF IsSound
<1>12. ASSUME NEW q \in Pumps, q # p, pump'[q].writing
       PROVE  /\ outcomes'[pump'[q].cursor] = {}
              /\ pump'[q].cursor < pump[p].cursor /\ pump'[q].cursor \in reviewed'
  <2>1. pump[q].writing /\ pump[q].pc = "deliver" /\ pump'[q] = pump[q]
    BY <1>2, <1>12, PumpFacts DEF KeepsItsLease
  <2>2. pump[q].cursor # pump[p].cursor /\ pump[q].cursor \in Nat /\ pump[p].cursor \in Nat
    BY <1>5, <2>1, PumpFacts
  <2> QED BY <1>1, <2>1, <2>2 DEF DeliveryInvariant, WritersAreWatched
<1>13. WritersAreWatched'
  <2>1. \A q \in Pumps : pump'[q].writing =>
          /\ outcomes'[pump'[q].cursor] = {}
          /\ \/ pump'[q].cursor < pump[p].cursor /\ pump'[q].cursor \in reviewed'
             \/ pump'[q].cursor = pump[p].cursor
    BY <1>1, <1>2, <1>4, <1>12
  <2>2. "dispatching" \in R!Started
    BY DEF R!Started
  <2>3. \A q \in Pumps : pump'[q].cursor \in Nat
    BY <1>2, DeliveryAssumption DEF PumpState, R!RegistryAssumption
  <2> QED BY <1>1, <2>1, <2>2, <2>3, PumpFacts DEF WritersAreWatched, R!NoDispatch
<1>14. WritersOverlapOnlyAfterReview'
  <2> SUFFICES ASSUME NEW q \in Pumps, NEW r \in Pumps, pump'[q].writing, pump'[r].writing,
                      pump'[q].cursor < pump'[r].cursor
               PROVE  pump'[q].cursor \in reviewed'
    BY DEF WritersOverlapOnlyAfterReview
  <2>1. CASE q # p
    BY <1>12, <2>1
  <2>2. CASE q = p
    BY <1>2, <1>12, <2>2, PumpFacts
  <2> QED BY <2>1, <2>2
<1>15. OutcomeIsTheAgents'
  BY <1>1 DEF OutcomeIsTheAgents
<1> QED BY <1>6, <1>7, <1>8, <1>9, <1>10, <1>11, <1>13, <1>14, <1>15 DEF DeliveryInvariant

-----------------------------------------------------------------------------
(* The publish of the next handoff, and the end of the session.            *)

(* The registry only takes a handoff when nothing is under way.            *)
LEMMA PublishableIsSettled ==
  ASSUME R!RegistryInvariant, R!Publishable
  PROVE  /\ ~registryClosed
         /\ dispatch # R!NoDispatch => blocked = NoKind /\ dispatch.phase \notin R!Started
<1>1. R!Held => lease.kind # NoKind
  BY RegistryFacts, DeliveryAssumption DEF R!RegistryAssumption
<1>2. dispatch # R!NoDispatch /\ dispatch.phase \in R!Started => R!Unsettled /\ R!Held
  BY RegistryFacts DEF R!Unsettled, R!Started, R!TerminalPhases
<1>3. blocked # NoKind => ~R!Held
  BY RegistryFacts
<1> QED BY <1>1, <1>2, <1>3
        DEF R!Publishable, R!SweptBlocked, R!EndedBlocked, R!Live, R!Overdue

(* What the publish does to the dispatch: none is open, or the new one is  *)
(* queued under the lease in force.                                        *)
LEMMA ReserveFacts ==
  ASSUME DeliveryInvariant, R!RegistryInvariant',
         R!ReserveInbox \/ R!ReserveActive(revision + 1)
  PROVE  /\ ~registryClosed /\ tokens' = tokens /\ registryClosed' = registryClosed
         /\ blocked' = NoKind
         /\ dispatch # R!NoDispatch => dispatch.phase \notin R!Started /\ blocked = NoKind
         /\ R!Held' => R!Held /\ lease' = lease
         /\ \/ /\ Moves /\ Quiet /\ ~R!Held' /\ ~R!Unsettled'
               /\ dispatch # R!NoDispatch /\ dispatch.phase = "delivery-unknown" =>
                    dispatch'.phase = "delivery-unknown"
            \/ /\ R!Held /\ dispatch' # R!NoDispatch
               /\ dispatch'.cursor = revision + 1 /\ dispatch'.phase = "queued"
<1>1. /\ ~registryClosed
      /\ dispatch # R!NoDispatch => blocked = NoKind /\ dispatch.phase \notin R!Started
  BY PublishableIsSettled DEF DeliveryInvariant, R!ReserveInbox, R!ReserveActive
<1>2. CASE R!ReserveInbox
  <2>1. /\ R!Sweep /\ ~R!Live /\ R!SweptBlocked = NoKind
        /\ tokens' = tokens /\ registryClosed' = registryClosed
    BY <1>2 DEF R!ReserveInbox, R!Publishable
  <2>2. Moves /\ Quiet
    BY <2>1, SweepMoves DEF R!Sweep, DeliveryInvariant
  <2>3. ~R!Held'
    BY <2>1 DEF R!Sweep, R!SweepLease, R!Live, R!Held, R!NoLease
  <2>4. ~R!Unsettled'
    BY <2>3 DEF R!RegistryInvariant, R!OpenDispatchIsOwned
  <2>5. dispatch # R!NoDispatch /\ dispatch.phase = "delivery-unknown" =>
          dispatch'.phase = "delivery-unknown"
    BY <2>2 DEF Quiet
  <2> QED BY <1>1, <2>1, <2>2, <2>3, <2>4, <2>5 DEF R!Sweep
<1>3. CASE R!ReserveActive(revision + 1)
  <2>1. /\ R!Held /\ R!SweptBlocked = NoKind /\ blocked' = blocked /\ ~R!Overdue
        /\ lease' = lease /\ tokens' = tokens /\ registryClosed' = registryClosed
        /\ dispatch'.cursor = revision + 1 /\ dispatch'.phase = "queued"
    BY <1>3 DEF R!ReserveActive, R!Publishable, R!Live
  <2>2. dispatch' # R!NoDispatch
    BY <2>1 DEF R!NoDispatch
  <2>3. blocked' = NoKind
    BY <2>1 DEF R!SweptBlocked
  <2> QED BY <1>1, <2>1, <2>2, <2>3
<1> QED BY <1>2, <1>3

(* The newest handoff: whoever may still be writing was reviewed, and      *)
(* nobody was handed it, is ahead of it or holds an older offer of it.     *)
LEMMA PublishKeepsInvariant ==
  ASSUME DeliveryInvariant, R!RegistryInvariant', S!StoreInvariant',
         NEW request \in Requests, FinishPublish(request)
  PROVE  DeliveryInvariant'
<1>1. /\ revision' = revision + 1 /\ revision \in Nat /\ revision' \in 1..MaxRevisions
      /\ UNCHANGED <<pump, late, delivered, outcomes, reviewed, storeClosed>>
      /\ R!ReserveInbox \/ R!ReserveActive(revision + 1)
      /\ waits' = [waiter \in Pumps |->
           IF waiter \in S!Waiting THEN S!Answer(waiter, revision + 1) ELSE waits[waiter]]
  <2>1. revision \in 0..MaxRevisions /\ revision < MaxRevisions /\ MaxRevisions \in Nat
    BY RegistryFacts, DeliveryAssumption
       DEF DeliveryInvariant, FinishPublish, S!StorePublish, R!RegistryAssumption
  <2> QED BY <2>1 DEF FinishPublish, S!StorePublish, pumps
<1>2. /\ ~registryClosed /\ tokens' = tokens /\ registryClosed' = registryClosed
      /\ blocked' = NoKind
      /\ dispatch # R!NoDispatch => dispatch.phase \notin R!Started /\ blocked = NoKind
      /\ R!Held' => R!Held /\ lease' = lease
      /\ \/ /\ Moves /\ Quiet /\ ~R!Held' /\ ~R!Unsettled'
            /\ dispatch # R!NoDispatch /\ dispatch.phase = "delivery-unknown" =>
                 dispatch'.phase = "delivery-unknown"
         \/ /\ R!Held /\ dispatch' # R!NoDispatch
            /\ dispatch'.cursor = revision + 1 /\ dispatch'.phase = "queued"
  BY <1>1, ReserveFacts
<1>3. \A p \in Pumps :
        /\ KeepsItsLease(p) /\ pump[p].after \in Nat /\ pump[p].cursor \in Nat
        /\ pump[p].after <= revision /\ pump[p].cursor <= revision
  BY PumpFacts DEF KeepsItsLease
<1>4. DeliveryFits'
  BY <1>1, <1>2 DEF DeliveryInvariant, DeliveryFits
<1>5. PumpsKeepTheirLease'
  BY <1>1, <1>2, <1>3 DEF PumpsKeepTheirLease, KeepsItsLease
<1>6. WaitsAreThePumps'
  <2>1. \A p \in Pumps : waits'[p] =
          IF p \in S!Waiting THEN S!Answer(p, revision + 1) ELSE waits[p]
    BY <1>1
  <2>2. \A p \in Pumps : p \notin S!Waiting'
    <3>1. ASSUME NEW p \in Pumps, p \in S!Waiting PROVE waits'[p].state # "waiting"
      <4>1. waits'[p] = S!Answer(p, revision + 1)
        BY <2>1, <3>1
      <4> QED BY <4>1 DEF S!Answer
    <3>2. ASSUME NEW p \in Pumps, p \notin S!Waiting PROVE waits'[p].state # "waiting"
      BY <2>1, <3>2 DEF S!Waiting
    <3> QED BY <3>1, <3>2 DEF S!Waiting
  <2>3. ASSUME NEW p \in Pumps, waits'[p].state = "handoff" PROVE waits'[p].cursor <= revision'
    <3>1. CASE p \in S!Waiting
      BY <1>1, <2>1, <3>1 DEF S!Answer
    <3>2. CASE p \notin S!Waiting
      <4>1. waits'[p] = waits[p] /\ waits[p].cursor <= revision
        BY <2>1, <2>3, <3>2 DEF DeliveryInvariant, WaitsAreThePumps
      <4>2. waits[p] \in S!Wait \cup {S!Idle}
        BY DEF DeliveryInvariant, S!StoreInvariant, S!TypeOK
      <4>3. waits[p].cursor \in Nat
        BY <2>3, <4>1, <4>2, DeliveryAssumption DEF S!Wait, S!Idle, R!RegistryAssumption
      <4> QED BY <1>1, <4>1, <4>3
    <3> QED BY <3>1, <3>2
  <2> QED BY <2>2, <2>3 DEF WaitsAreThePumps
<1>7. DispatchIsNewest'
  <2>1. R!Held => lease.baseline <= revision /\ lease.baseline \in Nat
    BY RegistryFacts, DeliveryAssumption DEF DeliveryInvariant, DispatchIsNewest, R!RegistryAssumption
  <2>2. R!Unsettled' => dispatch'.cursor = revision + 1 /\ R!Held'
    BY <1>2 DEF R!RegistryInvariant, R!OpenDispatchIsOwned
  <2> QED BY <1>1, <1>2, <1>3, <2>1, <2>2 DEF DispatchIsNewest
<1>8. DeliveriesAreCounted'
  <2>1. ASSUME NEW cursor \in 1..MaxRevisions
        PROVE  /\ delivered'[cursor] <= 1
               /\ delivered'[cursor] > 0 => cursor <= revision'
               /\ outcomes'[cursor] # {} => delivered'[cursor] > 0
    BY <1>1 DEF DeliveryInvariant, DeliveriesAreCounted
  <2>2. R!Unsettled' => dispatch'.cursor = revision'
    BY <1>1, <1>2
  <2>3. delivered'[revision'] = 0
    BY <1>1 DEF DeliveryInvariant, DeliveriesAreCounted, DeliveryFits
  <2>4. ASSUME NEW p \in Pumps, pump'[p].pc = "deliver"
        PROVE  /\ pump'[p].phase # "none"
               /\ delivered'[pump'[p].cursor] > 0
               /\ (R!Unsettled' /\ dispatch'.cursor = pump'[p].cursor) =>
                    ~IsTerminal(pump'[p].phase)
               /\ \A q \in Pumps :
                    (q # p /\ pump'[q].pc = "deliver") => pump'[q].cursor # pump'[p].cursor
    <3>1. pump[p].cursor # revision'
      BY <1>1, <1>3
    <3> QED BY <1>1, <2>2, <2>4, <3>1 DEF DeliveryInvariant, DeliveriesAreCounted
  <2> QED BY <2>1, <2>2, <2>3, <2>4 DEF DeliveriesAreCounted, IsTerminal
<1>9. LateReportsAreSound'
  <2> SUFFICES ASSUME NEW other \in late PROVE IsSound(other)'
    BY <1>1 DEF LateReportsAreSound
  <2>1. IsSound(other) /\ other.cursor \in Nat
    BY DeliveryAssumption
       DEF DeliveryInvariant, LateReportsAreSound, DeliveryFits, LateRequest, R!RegistryAssumption
  <2>2. R!Unsettled' => dispatch'.cursor # other.cursor
    BY <1>1, <1>2, <2>1 DEF IsSound
  <2> QED BY <1>1, <1>2, <2>1, <2>2 DEF IsSound
<1>10. WritersAreWatched'
  <2> SUFFICES ASSUME NEW p \in Pumps, pump[p].writing
               PROVE  /\ outcomes[pump[p].cursor] = {}
                      /\ dispatch' # R!NoDispatch
                      /\ pump[p].cursor <= dispatch'.cursor
                      /\ pump[p].cursor \in reviewed
                      /\ pump[p].cursor = dispatch'.cursor =>
                           dispatch'.phase \in R!Started \cup {"delivery-unknown"}
    BY <1>1 DEF WritersAreWatched, R!NoDispatch, R!Started
  <2>1. /\ outcomes[pump[p].cursor] = {}
        /\ dispatch # R!NoDispatch /\ pump[p].cursor <= dispatch.cursor
        /\ pump[p].cursor \in reviewed
        /\ pump[p].cursor = dispatch.cursor => dispatch.phase = "delivery-unknown"
    BY <1>2 DEF DeliveryInvariant, WritersAreWatched
  <2>2. CASE Moves
    BY <1>2, <1>3, <2>1, <2>2 DEF Moves
  <2>3. CASE dispatch' # R!NoDispatch /\ dispatch'.cursor = revision + 1
    BY <1>1, <1>3, <2>1, <2>3
  <2> QED BY <1>2, <2>1, <2>2, <2>3
<1>11. WritersOverlapOnlyAfterReview'
  BY <1>1 DEF DeliveryInvariant, WritersOverlapOnlyAfterReview
<1>12. OutcomeIsTheAgents'
  BY <1>1, <1>2 DEF OutcomeIsTheAgents, Moves, Quiet, DeliveryInvariant, DeliveriesAreCounted
<1> QED BY <1>4, <1>5, <1>6, <1>7, <1>8, <1>9, <1>10, <1>11, <1>12 DEF DeliveryInvariant

(* The session is over: nothing is dispatched, and every client that       *)
(* waited is told.                                                         *)
LEMMA CloseKeepsInvariant ==
  ASSUME DeliveryInvariant, R!RegistryInvariant', S!StoreInvariant', CloseService
  PROVE  DeliveryInvariant'
<1>1. /\ UNCHANGED <<pump, late, delivered, outcomes, reviewed, revision, tokens>>
      /\ lease' = R!NoLease /\ dispatch' = R!NoDispatch /\ blocked' = NoKind
      /\ registryClosed' = TRUE /\ storeClosed' = TRUE
      /\ waits' = [waiter \in Pumps |->
           IF waiter \in S!Waiting THEN [waits[waiter] EXCEPT !.state = "closed"] ELSE waits[waiter]]
  BY DEF CloseService, pumps, R!CloseRegistry, S!CloseStore
<1>2. ~R!Held' /\ ~R!Unsettled'
  BY <1>1 DEF R!Held, R!Unsettled, R!NoLease, R!NoDispatch
<1>3. DeliveryFits'
  BY <1>1 DEF DeliveryInvariant, DeliveryFits
<1>4. PumpsKeepTheirLease'
  BY <1>1, <1>2 DEF DeliveryInvariant, PumpsKeepTheirLease, KeepsItsLease
<1>5. WaitsAreThePumps'
  <2>1. S!Waiting' = {}
    BY <1>1 DEF S!StoreInvariant
  <2>2. ASSUME NEW p \in Pumps, waits'[p].state = "handoff" PROVE waits'[p] = waits[p]
    <3>1. waits[p] \in S!Wait \cup {S!Idle}
      BY DEF DeliveryInvariant, S!StoreInvariant, S!TypeOK
    <3> QED BY <1>1, <2>2, <3>1 DEF S!Waiting, S!Wait, S!Idle
  <2> QED BY <1>1, <2>1, <2>2 DEF DeliveryInvariant, WaitsAreThePumps
<1>6. DispatchIsNewest'
  BY <1>1, <1>2 DEF DispatchIsNewest
<1>7. DeliveriesAreCounted'
  BY <1>1, <1>2 DEF DeliveryInvariant, DeliveriesAreCounted
<1>8. LateReportsAreSound'
  BY <1>1, <1>2 DEF DeliveryInvariant, LateReportsAreSound, IsSound
<1>9. WritersAreWatched'
  BY <1>1 DEF DeliveryInvariant, WritersAreWatched
<1>10. WritersOverlapOnlyAfterReview' /\ OutcomeIsTheAgents'
  BY <1>1 DEF DeliveryInvariant, WritersOverlapOnlyAfterReview, OutcomeIsTheAgents, R!NoDispatch
<1> QED BY <1>3, <1>4, <1>5, <1>6, <1>7, <1>8, <1>9, <1>10 DEF DeliveryInvariant

-----------------------------------------------------------------------------
(* The theorems.                                                           *)

(* In the beginning nothing is leased, published or handed over.           *)
LEMMA InitialInvariant == Init => DeliveryInvariant
<1> SUFFICES ASSUME Init PROVE DeliveryInvariant
  OBVIOUS
<1>1. /\ lease = R!NoLease /\ dispatch = R!NoDispatch /\ blocked = NoKind
      /\ lastReleasedToken = 0 /\ tokens = 0 /\ registryClosed = FALSE /\ revision = 0
  BY DEF Init, R!Init
<1>2. /\ pump = [p \in Pumps |-> Fresh] /\ late = {}
      /\ delivered = [cursor \in 1..MaxRevisions |-> 0]
      /\ outcomes = [cursor \in 1..MaxRevisions |-> {}]
      /\ storeClosed = FALSE /\ waits = [waiter \in Pumps |-> S!Idle]
  BY DEF Init, S!Init
<1>3. MaxTokens \in Nat /\ MaxRevisions \in Nat
  BY DeliveryAssumption DEF R!RegistryAssumption
<1>4. ~R!Held /\ ~R!Unsettled
  BY <1>1 DEF R!Held, R!Unsettled
<1>5. R!RegistryInvariant
  <2>1. registryClosed \in BOOLEAN
    BY <1>1
  <2>2. R!TypeOK
    BY <2>1, DeliveryAssumption DEF Init, R!Init, R!TypeOK, R!RegistryAssumption
  <2> QED BY <1>1, <1>4, <2>2 DEF R!RegistryInvariant, R!OpenDispatchIsOwned
<1>6. S!StoreInvariant
  <2>1. SP!StoreAssumption
    BY DeliveryAssumption DEF S!StoreAssumption, SP!StoreAssumption
  <2>2. SP!Init => SP!StoreInvariant
    BY <2>1, SP!InitInvariant DEF SP!InitInvariant
  <2> QED BY <2>2, SameStore DEF Init
<1>7. \A p \in Pumps : /\ pump[p] = Fresh /\ waits[p] = S!Idle
                       /\ waits[p].state = "idle"
                       /\ pump[p].pc = "claim" /\ pump[p].token = 0 /\ pump[p].after = 0
                       /\ pump[p].cursor = 0 /\ pump[p].abort = "no" /\ ~pump[p].writing
  BY <1>2 DEF Fresh, S!Idle
<1>8. DeliveryFits
  BY <1>1, <1>2, <1>3, FreshIsState DEF DeliveryFits
<1>9. PumpsKeepTheirLease
  BY <1>1, <1>4, <1>7 DEF PumpsKeepTheirLease, KeepsItsLease, InRun, Handling
<1>10. WaitsAreThePumps
  BY <1>7 DEF WaitsAreThePumps, S!Waiting
<1>11. DispatchIsNewest /\ DeliveriesAreCounted
  BY <1>1, <1>2, <1>4, <1>7 DEF DispatchIsNewest, DeliveriesAreCounted
<1>12. LateReportsAreSound /\ WritersAreWatched
  BY <1>2, <1>7 DEF LateReportsAreSound, WritersAreWatched
<1>13. WritersOverlapOnlyAfterReview /\ OutcomeIsTheAgents
  BY <1>1, <1>7 DEF WritersOverlapOnlyAfterReview, OutcomeIsTheAgents
<1> QED BY <1>5, <1>6, <1>8, <1>9, <1>10, <1>11, <1>12, <1>13 DEF DeliveryInvariant

(* What every step but three keeps.                                        *)
LEMMA FollowsKeepsInvariant ==
  ASSUME DeliveryInvariant, R!RegistryInvariant', S!StoreInvariant', NEW p, Follows(p),
         WaitsAreThePumps'
  PROVE  DeliveryInvariant'
<1>1. DeliveryFits'
  BY DEF Follows
<1> QED BY <1>1, FollowsKeepsLeases, FollowsKeepsNewest, FollowsKeepsCount, FollowsKeepsLate,
           FollowsKeepsOutcome, FollowsKeepsWriters DEF DeliveryInvariant

(* Every step of the delivery keeps its invariant.                         *)
LEMMA StepKeepsInvariant == DeliveryInvariant /\ [Next]_vars => DeliveryInvariant'
<1> SUFFICES ASSUME DeliveryInvariant, [Next]_vars PROVE DeliveryInvariant'
  OBVIOUS
<1>1. R!RegistryInvariant'
  BY RegistryStep, RegistryKeepsInvariant DEF DeliveryInvariant
<1>2. CASE UNCHANGED vars
  <2>1. /\ UNCHANGED <<registry, store, revision, pump, late, delivered, outcomes, reviewed>>
        /\ UNCHANGED <<waits, storeClosed>>
    BY <1>2 DEF vars, pumps, store
  <2>2. Moves /\ Quiet
    BY <2>1, NothingMoves DEF DeliveryInvariant
  <2>3. Follows("nobody") /\ WaitsAreThePumps'
    BY <1>1, <2>1, <2>2, RestFollows, CalmFollows, WaitsStay
  <2>4. S!StoreInvariant'
    BY <2>1, StoreKeepsInvariant DEF DeliveryInvariant, S!vars, S!storeVars, store
  <2> QED BY <1>1, <2>3, <2>4, FollowsKeepsInvariant
<1>3. CASE Next
  <2>1. S!StoreInvariant'
    BY <1>3, StoreStep
  <2>2. ASSUME NEW request \in Requests, FinishPublish(request) PROVE DeliveryInvariant'
    BY <1>1, <2>1, <2>2, PublishKeepsInvariant
  <2>3. CASE CloseService
    BY <1>1, <2>1, <2>3, CloseKeepsInvariant
  <2>4. CASE \/ \E request \in Requests : BeginPublish(request) \/ FailPublish(request)
             \/ PollStatus
             \/ \E cursor \in 1..revision : Review(cursor)
             \/ Tick
    BY <1>1, <2>1, <2>4, BrowserFollows, FollowsKeepsInvariant
  <2>5. ASSUME NEW p \in Pumps, Pump(p) PROVE DeliveryInvariant'
    <3>1. CASE /\ OfferToAdapter(p)
               /\ R!Report(pump[p].token, pump[p].cursor, "dispatching")
               /\ delivered' = [delivered EXCEPT ![pump[p].cursor] = @ + 1]
      BY <1>1, <2>1, <3>1, OfferTakenKeepsInvariant
    <3>2. CASE /\ OfferToAdapter(p)
               /\ ~(/\ R!Report(pump[p].token, pump[p].cursor, "dispatching")
                    /\ delivered' = [delivered EXCEPT ![pump[p].cursor] = @ + 1])
      BY <1>1, <2>1, <3>2, OfferRefusedFollows, FollowsKeepsInvariant
    <3>3. CASE ~OfferToAdapter(p)
      <4>1. Follows(p) /\ WaitsAreThePumps'
        BY <1>1, <2>5, <3>3, ClaimFollows, ClaimRefusedFollows, BeginWaitFollows, TakeAnswerFollows,
           WaitTimesOutFollows, AcknowledgeFollows, DeclineFollows, AdapterReportsFollows,
           DeliverEndsFollows, ReportLostFollows, BeatFollows, UnwindFollows, ReleaseLeaseFollows
           DEF Pump
      <4> QED BY <1>1, <2>1, <4>1, FollowsKeepsInvariant
    <3> QED BY <3>1, <3>2, <3>3
  <2>6. ASSUME NEW request \in late, HandleLate(request) PROVE DeliveryInvariant'
    BY <1>1, <2>1, <2>6, HandleLateFollows, FollowsKeepsInvariant
  <2> QED BY <1>3, <2>2, <2>3, <2>4, <2>5, <2>6 DEF Next, Browser
<1> QED BY <1>2, <1>3

(* The invariant of the delivery, of its registry and of its store holds   *)
(* of every state, whatever is lost, late or repeated.                     *)
THEOREM DeliveryInvariantHolds == Spec => []DeliveryInvariant
BY InitialInvariant, StepKeepsInvariant, PTL DEF Spec

(* Each published handoff is handed to an agent at most once.              *)
THEOREM HandedOverAtMostOnce == Spec => []AtMostOnce
<1>1. DeliveryInvariant => AtMostOnce
  BY DEF DeliveryInvariant, DeliveriesAreCounted, AtMostOnce
<1> QED BY <1>1, DeliveryInvariantHolds, PTL

(* Two agents write at the same time only after the user has reviewed the  *)
(* workspace of the earlier one.                                           *)
THEOREM WritersNeverOverlapUnreviewed == Spec => []WritersOverlapOnlyAfterReview
<1>1. DeliveryInvariant => WritersOverlapOnlyAfterReview
  BY DEF DeliveryInvariant
<1> QED BY <1>1, DeliveryInvariantHolds, PTL

(* What the session says of a dispatch is always the agent's own word.     *)
THEOREM OutcomeAlwaysTheAgents == Spec => []OutcomeIsTheAgents
<1>1. DeliveryInvariant => OutcomeIsTheAgents
  BY DEF DeliveryInvariant
<1> QED BY <1>1, DeliveryInvariantHolds, PTL

(* The newest revision is known to an open store.                          *)
LEMMA NewestKnown == S!StoreInvariant => S!NewestIsKnown
<1>1. SP!StoreAssumption
  BY DeliveryAssumption DEF S!StoreAssumption, SP!StoreAssumption
<1>2. SP!StoreInvariant => SP!NewestIsKnown
  BY <1>1, SP!NewestInvariant DEF SP!NewestInvariant
<1> QED BY <1>2, SameStore

(* The user can always open the gate over an unproved delivery: the store  *)
(* still knows it, and the registry takes the review.                      *)
THEOREM UnprovedAlwaysReviewable == Spec => []UnprovedIsReviewable
<1>1. DeliveryInvariant => UnprovedIsReviewable
  <2> SUFFICES ASSUME DeliveryInvariant, blocked # NoKind
               PROVE  S!Known(dispatch.cursor) /\ R!CanResolve(dispatch.cursor)
    BY DEF UnprovedIsReviewable
  <2>1. /\ ~R!Held /\ ~registryClosed /\ dispatch # R!NoDispatch
        /\ dispatch.phase = "delivery-unknown" /\ dispatch.cursor = revision /\ revision > 0
    BY RegistryFacts DEF DeliveryInvariant, DispatchIsNewest
  <2>2. S!Known(revision)
    BY <2>1, NewestKnown DEF DeliveryInvariant, DeliveryFits, S!NewestIsKnown
  <2>3. R!CanResolve(dispatch.cursor)
    BY <2>1 DEF R!CanResolve, R!SweptBlocked, R!SweptDispatch, R!Overdue
  <2> QED BY <2>1, <2>2, <2>3
<1> QED BY <1>1, DeliveryInvariantHolds, PTL

(* The pump that holds the lease is never asleep while a handoff on offer  *)
(* is queued for it.                                                       *)
THEOREM HolderAlwaysWoken == Spec => []HolderIsWoken
<1>1. DeliveryInvariant => HolderIsWoken
  <2> SUFFICES ASSUME DeliveryInvariant, NEW p \in S!Waiting,
                      R!Live, lease.token = pump[p].token,
                      dispatch # R!NoDispatch, dispatch.phase = "queued",
                      current # S!NoHandoff
               PROVE  FALSE
    BY DEF HolderIsWoken
  <2>1. p \in Pumps /\ pump[p].pc = "waiting" /\ waits[p].after = pump[p].after
    BY DEF DeliveryInvariant, WaitsAreThePumps, S!Waiting
  <2>2. waits[p].after = current.cursor /\ current.cursor = revision
    BY DEF DeliveryInvariant, S!StoreInvariant, S!NoHandoffIsMissed, S!HistoryIsInOrder
  <2>3. R!Unsettled
    BY DEF R!Unsettled, R!TerminalPhases
  <2>4. dispatch.cursor = revision /\ pump[p].after < dispatch.cursor
    BY <2>1, <2>3 DEF DeliveryInvariant, DispatchIsNewest
  <2> QED BY <2>1, <2>2, <2>4, PumpFacts
<1> QED BY <1>1, DeliveryInvariantHolds, PTL

(* The delivery uses the registry as it is specified on its own: every     *)
(* behaviour of the delivery is one of the registry, so that whatever is   *)
(* proved of the registry alone holds of it here (broker, service).        *)
THEOREM RegistryIsUsedAsSpecified == Spec => R!Spec
<1>1. Init => R!Init
  BY DEF Init
<1>2. DeliveryInvariant /\ [Next]_vars => [R!Next]_(R!vars)
  BY RegistryStep
<1> QED BY <1>1, <1>2, DeliveryInvariantHolds, PTL DEF Spec, R!Spec

(* A step of the registry is a step of the session's promise, or none.     *)
LEMMA RegistryGateStep ==
  ASSUME R!RegistryInvariant, R!RegistryInvariant', [R!Next]_(R!vars)
  PROVE  [R!Gate!GateNext]_(R!Gate!gateVars)
<1>1. RP!RegistryAssumption
  BY DeliveryAssumption DEF R!RegistryAssumption, RP!RegistryAssumption
<1>2. /\ RP!RegistryInvariant <=> R!RegistryInvariant
      /\ RP!RegistryInvariant' <=> R!RegistryInvariant'
      /\ [RP!Next]_(RP!vars) <=> [R!Next]_(R!vars)
  BY SameRegistry
<1>3. [RP!Gate!GateNext]_(RP!Gate!gateVars)
  BY <1>1, <1>2, RP!GateStep DEF RP!GateStep
<1>4. /\ RP!GateState = R!GateState /\ RP!GateState' = R!GateState'
      /\ RP!GateTask = R!GateTask /\ RP!GateTask' = R!GateTask'
  BY DEF RP!GateState, R!GateState, RP!GateTask, R!GateTask, RP!Unsettled, R!Unsettled,
     RP!NoDispatch, R!NoDispatch, RP!TerminalPhases, R!TerminalPhases
<1> QED
  BY <1>3, <1>4
     DEF RP!Gate!GateNext, R!Gate!GateNext, RP!Gate!Offer, R!Gate!Offer, RP!Gate!Settle,
         R!Gate!Settle, RP!Gate!Lose, R!Gate!Lose, RP!Gate!Review, R!Gate!Review,
         RP!Gate!CloseGate, R!Gate!CloseGate, RP!Gate!gateVars, R!Gate!gateVars

(* The whole delivery keeps the session's promise: whatever is lost, late  *)
(* or repeated between the two processes, at most one handoff is in an     *)
(* agent's hands, in order and once, and only a review opens a shut gate.  *)
THEOREM DeliveryKeepsPromise == Spec => R!KeepsPromise
<1>1. Init => R!Gate!GateInit
  BY DEF Init, R!Init, R!Gate!GateInit, R!GateState, R!GateTask, R!Unsettled
<1>2. DeliveryInvariant /\ DeliveryInvariant' /\ [Next]_vars => [R!Gate!GateNext]_(R!Gate!gateVars)
  BY RegistryStep, RegistryGateStep DEF DeliveryInvariant
<1> QED BY <1>1, <1>2, DeliveryInvariantHolds, PTL DEF Spec, R!KeepsPromise, R!Gate!GateSpec

(* In the delivery, too, a long poll is only ever answered with the newest *)
(* handoff, one the connector does not have and that has not expired       *)
(* (wait, settleWaiters); dropped waits answer nothing.                    *)
THEOREM ConnectorsGetTheNewest == Spec => [][S!AnswersAreNewStep]_vars
<1>1. ASSUME DeliveryInvariant, [Next]_vars PROVE S!AnswersAreNewStep
  <2>1. CASE UNCHANGED vars
    BY <2>1 DEF vars, store, S!AnswersAreNewStep
  <2>2. ASSUME NEW p \in Pumps, DropsWait(p) PROVE S!AnswersAreNewStep
    <3>1. waits \in [Pumps -> S!Wait \cup {S!Idle}]
      BY <1>1 DEF DeliveryInvariant, S!StoreInvariant, S!TypeOK
    <3>2. /\ waits'[p].state # "handoff"
          /\ \A q \in Pumps : q # p => waits'[q] = waits[q]
      BY <2>2, <3>1 DEF DropsWait, S!Idle
    <3> QED BY <3>2 DEF S!AnswersAreNewStep
  <2>3. CASE [S!Next]_(S!vars)
    BY <1>1, <2>3, StoreKeepsInvariant DEF DeliveryInvariant
  <2> QED BY <1>1, <2>1, <2>2, <2>3, StoreIsUsed
<1> QED BY <1>1, DeliveryInvariantHolds, PTL DEF Spec
=============================================================================
