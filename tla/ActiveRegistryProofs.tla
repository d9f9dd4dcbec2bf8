------------------------ MODULE ActiveRegistryProofs ------------------------
(***************************************************************************)
(* Proofs about ActiveRegistry, for any number of adapter kinds and        *)
(* connectors and any durations.                                           *)
(***************************************************************************)
EXTENDS ActiveRegistry, TLAPS

(* The undefined lease and dispatch are not leases and dispatches.         *)
LEMMA NullsAreApart ==
  /\ NoLease \notin Lease
  /\ NoDispatch \notin Dispatch
BY DEF NoLease, NoDispatch, Lease, Dispatch, Phases

(* The invariant holds of the freshly created registry.                    *)
LEMMA InitInvariant == Init => RegistryInvariant
<1> SUFFICES ASSUME Init PROVE RegistryInvariant
  OBVIOUS
<1>1. registryClosed \in BOOLEAN
  BY DEF Init
<1>2. TypeOK
  BY <1>1, RegistryAssumption DEF Init, TypeOK
<1>3. ~Held /\ ~Unsettled
  BY DEF Init, Held, Unsettled
<1> QED
  BY <1>2, <1>3 DEF Init, RegistryInvariant, OpenDispatchIsOwned

(* Ending a lease settles the dispatch it carries, whatever ends it.       *)
LEMMA EndLeaseInvariant ==
  ASSUME RegistryInvariant, Held, EndLease,
         UNCHANGED <<tokens, registryClosed, revision>>
  PROVE  RegistryInvariant' /\ ~Unsettled'
<1> USE RegistryAssumption, NullsAreApart
<1>1. lease \in Lease /\ blocked = NoKind /\ ~registryClosed
  BY DEF RegistryInvariant, TypeOK, Held
<1>2. CASE ~Unsettled
  <2>1. dispatch' = dispatch /\ ~Unsettled'
    BY <1>2 DEF EndLease, EndedDispatch, Unsettled
  <2>2. blocked' = NoKind
    BY <1>1, <1>2 DEF EndLease, EndedBlocked, Unsettled, Started, TerminalPhases, NoDispatch
  <2> QED
    BY <1>1, <2>1, <2>2 DEF RegistryInvariant, TypeOK, OpenDispatchIsOwned, EndLease, Held, Lease
<1>3. CASE Unsettled
  <2>1. /\ dispatch \in Dispatch /\ dispatch' \in Dispatch
        /\ dispatch'.phase \in TerminalPhases
        /\ dispatch'.kind = dispatch.kind /\ dispatch'.cursor = dispatch.cursor
        /\ dispatch'.phase = IF dispatch.phase = "queued" THEN "failed" ELSE "delivery-unknown"
    BY <1>3 DEF RegistryInvariant, TypeOK, EndLease, EndedDispatch, Unsettled, Dispatch,
                Phases, TerminalPhases
  <2>2. dispatch.kind = lease.kind /\ dispatch.phase \in {"queued"} \cup Started
    BY <1>3, <2>1 DEF RegistryInvariant, OpenDispatchIsOwned, Unsettled, Dispatch, Phases,
                      TerminalPhases, Started
  <2>3. /\ blocked' \in Kinds \cup {NoKind}
        /\ blocked' # NoKind => dispatch'.phase = "delivery-unknown" /\ dispatch'.kind = blocked'
    BY <1>1, <2>1, <2>2 DEF EndLease, EndedBlocked, Started, Lease
  <2>4. ~Unsettled'
    BY <2>1 DEF Unsettled
  <2> QED
    BY <1>1, <2>1, <2>3, <2>4 DEF RegistryInvariant, TypeOK, OpenDispatchIsOwned, EndLease, Held, Lease
<1> QED BY <1>2, <1>3

(* A call that only sweeps, which every handler does first.                *)
LEMMA SweepInvariant ==
  ASSUME RegistryInvariant, Sweep, UNCHANGED <<tokens, registryClosed, revision>>
  PROVE  RegistryInvariant'
<1>1. CASE Overdue
  <2>1. Held /\ EndLease
    BY <1>1 DEF Overdue, Sweep, SweepLease, SweptDispatch, SweptBlocked, EndLease
  <2> QED BY <2>1, EndLeaseInvariant
<1>2. CASE ~Overdue
  BY <1>2 DEF Sweep, SweepLease, SweptDispatch, SweptBlocked, RegistryInvariant, TypeOK,
              OpenDispatchIsOwned, Held, Unsettled
<1> QED BY <1>1, <1>2

(* Claims: only a new lease is written, over a settled dispatch.           *)
LEMMA ClaimInvariant ==
  ASSUME RegistryInvariant, UNCHANGED revision,
         NEW kind \in Kinds, NEW connector \in Connectors, NEW baseline \in 0..MaxRevisions,
         RenewClaim(kind, connector) \/ GrantClaim(kind, connector, baseline)
  PROVE  RegistryInvariant'
<1> USE RegistryAssumption, NullsAreApart
<1>1. CASE RenewClaim(kind, connector)
  <2>1. lease \in Lease /\ lease' \in Lease /\ lease'.token = lease.token /\ lease'.kind = lease.kind
    BY <1>1 DEF RenewClaim, CanRenew, Live, Held, RegistryInvariant, TypeOK, Lease
  <2> QED
    BY <1>1, <2>1 DEF RenewClaim, CanRenew, Live, RegistryInvariant, TypeOK,
                      OpenDispatchIsOwned, Held, Unsettled
<1>2. CASE GrantClaim(kind, connector, baseline)
  <2>1. lease' \in Lease /\ lease'.token = tokens' /\ tokens' \in 0..MaxTokens
    BY <1>2 DEF GrantClaim, RegistryInvariant, TypeOK, Lease
  <2>2. blocked' = NoKind /\ ~registryClosed' /\ lastReleasedToken' \in 0..MaxTokens
    BY <1>2 DEF GrantClaim, CanGrant
  <2>3. /\ dispatch' \in Dispatch \cup {NoDispatch}
        /\ ~Unsettled'
        /\ dispatch' # NoDispatch => dispatch'.cursor <= revision
    <3>1. CASE Overdue
      <4>1. Held /\ lease \in Lease
        BY <1>2, <3>1 DEF Overdue, Held, RegistryInvariant, TypeOK
      <4> QED
        BY <1>2, <3>1, <4>1 DEF GrantClaim, SweptDispatch, EndedDispatch, RegistryInvariant, TypeOK,
             Unsettled, Dispatch, Phases, TerminalPhases
    <3>2. CASE ~Overdue
      <4>1. dispatch' = dispatch /\ ~Held
        BY <1>2, <3>2 DEF GrantClaim, CanGrant, Live, SweptDispatch
      <4> QED
        BY <4>1 DEF RegistryInvariant, TypeOK, OpenDispatchIsOwned, Unsettled
    <3> QED BY <3>1, <3>2
  <2>4. registryClosed' \in BOOLEAN /\ revision' \in 0..MaxRevisions
    BY <1>2 DEF GrantClaim, RegistryInvariant, TypeOK
  <2> QED
    BY <2>1, <2>2, <2>3, <2>4 DEF RegistryInvariant, TypeOK, OpenDispatchIsOwned, Lease
<1> QED BY <1>1, <1>2

(* Heartbeats extend the lease and touch nothing else.                     *)
LEMMA HeartbeatInvariant ==
  ASSUME RegistryInvariant, UNCHANGED revision, NEW token, Heartbeat(token)
  PROVE  RegistryInvariant'
<1> USE RegistryAssumption, NullsAreApart
<1>1. lease \in Lease /\ lease' \in Lease /\ lease'.token = lease.token /\ lease'.kind = lease.kind
  BY DEF Heartbeat, ValidLease, Live, Held, RegistryInvariant, TypeOK, Lease
<1> QED
  BY <1>1 DEF Heartbeat, ValidLease, Live, RegistryInvariant, TypeOK, OpenDispatchIsOwned,
              Held, Unsettled

(* A report moves the dispatch of the lease in force, and takes the lease  *)
(* away exactly when it leaves the delivery unproved.                      *)
LEMMA ReportInvariant ==
  ASSUME RegistryInvariant, UNCHANGED revision,
         NEW token, NEW cursor, NEW phase \in ReportablePhases, Report(token, cursor, phase)
  PROVE  RegistryInvariant'
<1> USE RegistryAssumption, NullsAreApart
<1>1. /\ lease \in Lease /\ Held /\ ~registryClosed /\ blocked = NoKind
      /\ dispatch \in Dispatch /\ dispatch.kind = lease.kind
  BY DEF Report, CanReport, ValidLease, Live, Held, RegistryInvariant, TypeOK
<1>2. /\ dispatch' \in Dispatch /\ dispatch'.phase = phase /\ dispatch'.kind = lease.kind
      /\ dispatch'.cursor = dispatch.cursor /\ dispatch'.owner = dispatch.owner
  BY <1>1 DEF Report, Dispatch, ReportablePhases
<1>3. CASE phase = "delivery-unknown" /\ dispatch.phase # phase
  <2>1. /\ lease' = NoLease /\ blocked' = lease.kind /\ lastReleasedToken' = lease.token
        /\ UNCHANGED <<tokens, registryClosed>>
    BY <1>3 DEF Report
  <2>2. ~Unsettled'
    BY <1>2, <1>3 DEF Unsettled, TerminalPhases
  <2> QED
    BY <1>1, <1>2, <1>3, <2>1, <2>2 DEF RegistryInvariant, TypeOK, OpenDispatchIsOwned, Held, Lease
<1>4. CASE ~(phase = "delivery-unknown" /\ dispatch.phase # phase)
  <2>1. UNCHANGED <<lease, blocked, lastReleasedToken, tokens, registryClosed>>
    BY <1>4 DEF Report
  <2>2. Unsettled' => Unsettled
    BY <1>1, <1>2 DEF Unsettled, TerminalPhases, Report, CanReport, AllowedTransitions, Dispatch, Phases
  <2> QED
    BY <1>1, <1>2, <2>1, <2>2 DEF RegistryInvariant, TypeOK, OpenDispatchIsOwned, Held
<1> QED BY <1>3, <1>4

(* A handoff is queued only for a live lease with nothing open before it.  *)
LEMMA PublishInvariant ==
  ASSUME RegistryInvariant, Publish
  PROVE  RegistryInvariant'
<1> USE RegistryAssumption, NullsAreApart
<1>1. /\ revision \in 0..MaxRevisions /\ revision' \in 0..MaxRevisions
      /\ revision' = revision + 1
  BY DEF Publish, RegistryInvariant, TypeOK
<1>2. dispatch # NoDispatch => dispatch.cursor <= revision'
  BY <1>1 DEF RegistryInvariant, TypeOK, Dispatch
<1>3. CASE ReserveInbox
  <2>1. Sweep /\ UNCHANGED <<tokens, registryClosed>>
    BY <1>3 DEF ReserveInbox
  <2>2. CASE Overdue
    <3>1. Held /\ EndLease
      BY <2>1, <2>2 DEF Overdue, Sweep, SweepLease, SweptDispatch, SweptBlocked, EndLease
    <3>2. lease \in Lease /\ blocked = NoKind /\ ~registryClosed
      BY <3>1 DEF RegistryInvariant, TypeOK, Held
    <3>3. /\ dispatch' \in Dispatch \cup {NoDispatch} /\ ~Unsettled'
          /\ dispatch' # NoDispatch => dispatch'.cursor <= revision'
      BY <1>2, <3>1, <3>2 DEF EndLease, EndedDispatch, RegistryInvariant, TypeOK, Unsettled, Dispatch,
                        Phases, TerminalPhases
    <3>4. blocked' = NoKind
      BY <1>3, <2>2, <3>1 DEF ReserveInbox, Publishable, SweptBlocked, EndLease
    <3> QED
      BY <1>1, <2>1, <3>1, <3>2, <3>3, <3>4 DEF EndLease, RegistryInvariant, TypeOK,
         OpenDispatchIsOwned, Held, Lease
  <2>3. CASE ~Overdue
    BY <1>1, <1>2, <2>1, <2>3 DEF Sweep, SweepLease, SweptDispatch, SweptBlocked, RegistryInvariant,
       TypeOK, OpenDispatchIsOwned, Held, Unsettled
  <2> QED BY <2>2, <2>3
<1>4. CASE ReserveActive(revision + 1)
  <2>1. /\ lease \in Lease /\ Held /\ ~registryClosed /\ blocked = NoKind
        /\ UNCHANGED <<lease, blocked, lastReleasedToken, tokens, registryClosed>>
    BY <1>4 DEF ReserveActive, Live, Held, RegistryInvariant, TypeOK
  <2>2. /\ dispatch' \in Dispatch /\ dispatch'.cursor = revision'
        /\ dispatch'.owner = lease.token /\ dispatch'.kind = lease.kind
    BY <1>1, <1>4, <2>1 DEF ReserveActive, Dispatch, Lease, Phases
  <2> QED
    BY <1>1, <2>1, <2>2 DEF RegistryInvariant, TypeOK, OpenDispatchIsOwned, Held
<1> QED BY <1>3, <1>4 DEF Publish

(* The user's review opens the gate and leaves the outcome as it is.       *)
LEMMA ResolveInvariant ==
  ASSUME RegistryInvariant, UNCHANGED revision, NEW cursor, ResolveDelivery(cursor)
  PROVE  RegistryInvariant'
<1> USE RegistryAssumption, NullsAreApart
<1>1. blocked' = NoKind /\ SweepLease /\ UNCHANGED <<tokens, registryClosed, revision>>
  BY DEF ResolveDelivery
<1>2. CASE Overdue
  <2>1. lease \in Lease /\ Held /\ ~registryClosed
    BY <1>2 DEF Overdue, Held, RegistryInvariant, TypeOK
  <2>2. /\ dispatch' \in Dispatch \cup {NoDispatch} /\ ~Unsettled'
        /\ dispatch' # NoDispatch => dispatch'.cursor <= revision
    BY <1>1, <1>2 DEF SweepLease, SweptDispatch, EndedDispatch, RegistryInvariant, TypeOK,
                      Unsettled, Dispatch, Phases, TerminalPhases
  <2> QED
    BY <1>1, <1>2, <2>1, <2>2 DEF SweepLease, RegistryInvariant, TypeOK, OpenDispatchIsOwned,
       Held, Lease
<1>3. CASE ~Overdue
  BY <1>1, <1>3 DEF SweepLease, SweptDispatch, RegistryInvariant, TypeOK, OpenDispatchIsOwned,
                    Held, Unsettled
<1> QED BY <1>2, <1>3

(* A closed registry holds nothing.                                        *)
LEMMA CloseInvariant ==
  ASSUME RegistryInvariant, UNCHANGED revision, CloseRegistry
  PROVE  RegistryInvariant'
<1> USE RegistryAssumption, NullsAreApart
<1>1. registryClosed' \in BOOLEAN
  BY DEF CloseRegistry
<1> QED
  BY <1>1 DEF CloseRegistry, RegistryInvariant, TypeOK, OpenDispatchIsOwned, Held, Unsettled

(* The clock moves deadlines only.                                         *)
LEMMA TickInvariant ==
  ASSUME RegistryInvariant, UNCHANGED revision, TickRegistry
  PROVE  RegistryInvariant'
<1> USE RegistryAssumption, NullsAreApart
<1>1. /\ lease' \in Lease \cup {NoLease} /\ lease'.token = lease.token
      /\ Held' <=> Held
      /\ Held => lease'.kind = lease.kind
  BY DEF TickRegistry, Held, Lower, RegistryInvariant, TypeOK, Lease
<1>2. /\ dispatch' \in Dispatch \cup {NoDispatch} /\ dispatch'.phase = dispatch.phase
      /\ Unsettled' <=> Unsettled
      /\ dispatch' # NoDispatch <=> dispatch # NoDispatch
      /\ dispatch # NoDispatch => /\ dispatch'.cursor = dispatch.cursor
                                  /\ dispatch'.kind = dispatch.kind
                                  /\ dispatch'.owner = dispatch.owner
  <2>1. CASE Unsettled
    BY <2>1 DEF TickRegistry, Unsettled, Lower, RegistryInvariant, TypeOK, Dispatch
  <2>2. CASE ~Unsettled
    BY <2>2 DEF TickRegistry, Unsettled, RegistryInvariant, TypeOK
  <2> QED BY <2>1, <2>2
<1> QED
  BY <1>1, <1>2 DEF TickRegistry, RegistryInvariant, TypeOK, OpenDispatchIsOwned

-----------------------------------------------------------------------------

(* Every step of the registry preserves the invariant.                     *)
LEMMA NextInvariant == RegistryInvariant /\ [Next]_vars => RegistryInvariant'
<1> SUFFICES ASSUME RegistryInvariant, [Next]_vars PROVE RegistryInvariant'
  OBVIOUS
<1> USE RegistryAssumption
<1>1. revision \in 0..MaxRevisions
  BY DEF RegistryInvariant, TypeOK
<1>2. CASE UNCHANGED vars
  BY <1>2 DEF vars, registryVars, RegistryInvariant, TypeOK, OpenDispatchIsOwned, Held, Unsettled
<1>3. CASE Publish
  BY <1>3, PublishInvariant
<1>4. CASE TickRegistry /\ UNCHANGED revision
  BY <1>4, TickInvariant
<1>5. CASE Call /\ UNCHANGED revision
  <2>1. CASE SweepOnly
    BY <1>5, <2>1, SweepInvariant DEF SweepOnly
  <2>2. ASSUME NEW kind \in Kinds, NEW connector \in Connectors, RenewClaim(kind, connector)
        PROVE  RegistryInvariant'
    BY <1>1, <1>5, <2>2, ClaimInvariant
  <2>3. ASSUME NEW kind \in Kinds, NEW connector \in Connectors, NEW baseline \in {0, revision},
               GrantClaim(kind, connector, baseline)
        PROVE  RegistryInvariant'
    <3>1. baseline \in 0..MaxRevisions
      BY <1>1
    <3> QED BY <1>5, <2>3, <3>1, ClaimInvariant
  <2>4. ASSUME NEW token, Heartbeat(token) PROVE RegistryInvariant'
    BY <1>5, <2>4, HeartbeatInvariant
  <2>5. ASSUME NEW token, Release(token) PROVE RegistryInvariant'
    BY <1>5, <2>5, EndLeaseInvariant DEF Release, ValidLease, Live
  <2>6. ASSUME NEW token, NEW cursor, NEW phase \in ReportablePhases, Report(token, cursor, phase)
        PROVE  RegistryInvariant'
    BY <1>5, <2>6, ReportInvariant
  <2>7. ASSUME NEW cursor, ResolveDelivery(cursor) PROVE RegistryInvariant'
    BY <1>5, <2>7, ResolveInvariant
  <2>8. CASE CloseRegistry
    BY <1>5, <2>8, CloseInvariant
  <2> QED
    BY <1>5, <2>1, <2>2, <2>3, <2>4, <2>5, <2>6, <2>7, <2>8 DEF Call
<1> QED BY <1>2, <1>3, <1>4, <1>5 DEF Next

(* The inductive invariant of the registry.                                *)
THEOREM RegistryInvariantHolds == Spec => []RegistryInvariant
BY InitInvariant, NextInvariant, PTL DEF Spec

(* Type correctness.                                                       *)
THEOREM TypeCorrect == Spec => []TypeOK
<1>1. RegistryInvariant => TypeOK
  BY DEF RegistryInvariant
<1> QED BY <1>1, RegistryInvariantHolds, PTL

(* No lease ends without settling its dispatch, and none is inherited.     *)
THEOREM OpenDispatchAlwaysOwned == Spec => []OpenDispatchIsOwned
<1>1. RegistryInvariant => OpenDispatchIsOwned
  BY DEF RegistryInvariant
<1> QED BY <1>1, RegistryInvariantHolds, PTL

(* A shut gate can always be opened by the user.                           *)
THEOREM ShutGateAlwaysResolvable == Spec => []ShutGateIsResolvable
<1>1. RegistryInvariant => ShutGateIsResolvable
  <2> SUFFICES ASSUME RegistryInvariant, blocked # NoKind
               PROVE  /\ ~Held /\ dispatch # NoDispatch
                      /\ dispatch.phase = "delivery-unknown" /\ dispatch.kind = blocked
                      /\ CanResolve(dispatch.cursor)
    BY DEF ShutGateIsResolvable
  <2>1. ~Overdue
    BY DEF RegistryInvariant, Overdue
  <2> QED
    BY <2>1 DEF RegistryInvariant, CanResolve, SweptBlocked, SweptDispatch
<1> QED BY <1>1, RegistryInvariantHolds, PTL

-----------------------------------------------------------------------------
(* The outcome of a dispatch, step by step.                                *)

(* Ending a lease moves its dispatch along an allowed transition.          *)
LEMMA EndedIsAllowed ==
  ASSUME RegistryInvariant, dispatch # NoDispatch
  PROVE  /\ EndedDispatch.cursor = dispatch.cursor /\ EndedDispatch.owner = dispatch.owner
         /\ \/ EndedDispatch.phase = dispatch.phase
            \/ EndedDispatch.phase \in AllowedTransitions[dispatch.phase]
<1>1. dispatch \in Dispatch
  BY DEF RegistryInvariant, TypeOK
<1>2. CASE ~Unsettled
  BY <1>2 DEF EndedDispatch
<1>3. CASE Unsettled
  <2>1. dispatch.phase \in {"queued"} \cup Started
    BY <1>1, <1>3 DEF Unsettled, Dispatch, Phases, TerminalPhases, Started
  <2>2. EndedDispatch =
          [dispatch EXCEPT !.phase = IF @ = "queued" THEN "failed" ELSE "delivery-unknown"]
    BY <1>3 DEF EndedDispatch
  <2>3. /\ EndedDispatch.cursor = dispatch.cursor /\ EndedDispatch.owner = dispatch.owner
        /\ EndedDispatch.phase = IF dispatch.phase = "queued" THEN "failed" ELSE "delivery-unknown"
    BY <1>1, <2>2 DEF Dispatch
  <2>4. /\ "failed" \in AllowedTransitions["queued"]
        /\ \A phase \in Started : "delivery-unknown" \in AllowedTransitions[phase]
    BY DEF AllowedTransitions, Phases, Started
  <2> QED BY <2>1, <2>3, <2>4
<1> QED BY <1>2, <1>3

(* A step of the registry moves its dispatch only as the table allows.     *)
LEMMA OutcomeStep == RegistryInvariant /\ [Next]_vars => OutcomeIsFinalStep
<1> SUFFICES ASSUME RegistryInvariant, [Next]_vars, dispatch # NoDispatch, ~registryClosed'
             PROVE  OutcomeIsFinalStep
  BY DEF OutcomeIsFinalStep
<1>1. dispatch \in Dispatch /\ dispatch.cursor <= revision /\ revision \in Nat
  BY RegistryAssumption DEF RegistryInvariant, TypeOK
<1>2. dispatch' = dispatch => OutcomeIsFinalStep
  BY DEF OutcomeIsFinalStep
<1>3. dispatch' = EndedDispatch => OutcomeIsFinalStep
  BY EndedIsAllowed DEF OutcomeIsFinalStep
<1>4. dispatch' = SweptDispatch => OutcomeIsFinalStep
  BY <1>2, <1>3 DEF SweptDispatch
<1>5. CASE UNCHANGED vars
  BY <1>2, <1>5 DEF vars, registryVars
<1>6. CASE Publish
  <2>1. CASE ReserveInbox
    BY <1>4, <2>1 DEF ReserveInbox, Sweep, SweepLease
  <2>2. CASE ReserveActive(revision + 1)
    <3>1. dispatch'.cursor = revision + 1 /\ dispatch'.phase = "queued" /\ ~Unsettled
      BY <2>2 DEF ReserveActive, Publishable
    <3>2. revision + 1 > dispatch.cursor
      BY <1>1 DEF Dispatch
    <3> QED BY <3>1, <3>2 DEF OutcomeIsFinalStep
  <2> QED BY <1>6, <2>1, <2>2 DEF Publish
<1>7. CASE TickRegistry
  <2>1. /\ dispatch'.cursor = dispatch.cursor /\ dispatch'.owner = dispatch.owner
        /\ dispatch'.phase = dispatch.phase
    BY <1>1, <1>7 DEF TickRegistry, Dispatch
  <2> QED BY <2>1 DEF OutcomeIsFinalStep
<1>8. CASE Call
  <2>1. CASE SweepOnly
    BY <1>4, <2>1 DEF SweepOnly, Sweep, SweepLease
  <2>2. ASSUME NEW kind, NEW connector, RenewClaim(kind, connector)
        PROVE  OutcomeIsFinalStep
    BY <1>2, <2>2 DEF RenewClaim
  <2>3. ASSUME NEW kind, NEW connector, NEW baseline, GrantClaim(kind, connector, baseline)
        PROVE  OutcomeIsFinalStep
    BY <1>4, <2>3 DEF GrantClaim
  <2>4. ASSUME NEW token, Heartbeat(token) PROVE OutcomeIsFinalStep
    BY <1>2, <2>4 DEF Heartbeat
  <2>5. ASSUME NEW token, Release(token) PROVE OutcomeIsFinalStep
    BY <1>3, <2>5 DEF Release, EndLease
  <2>6. ASSUME NEW token, NEW cursor, NEW phase, Report(token, cursor, phase)
        PROVE  OutcomeIsFinalStep
    <3>1. /\ dispatch'.cursor = dispatch.cursor /\ dispatch'.owner = dispatch.owner
          /\ dispatch'.phase = phase
      BY <1>1, <2>6 DEF Report, Dispatch
    <3> QED BY <2>6, <3>1 DEF Report, CanReport, OutcomeIsFinalStep
  <2>7. ASSUME NEW cursor, ResolveDelivery(cursor) PROVE OutcomeIsFinalStep
    BY <1>4, <2>7 DEF ResolveDelivery, SweepLease
  <2>8. CASE CloseRegistry
    BY <2>8 DEF CloseRegistry
  <2> QED
    BY <1>8, <2>1, <2>2, <2>3, <2>4, <2>5, <2>6, <2>7, <2>8 DEF Call
<1> QED BY <1>5, <1>6, <1>7, <1>8 DEF Next

(* A settled outcome is never rewritten, whoever drives the registry.      *)
THEOREM OutcomeFinal == Spec => OutcomeIsFinal
BY RegistryInvariantHolds, OutcomeStep, PTL DEF Spec, OutcomeIsFinal

-----------------------------------------------------------------------------
(* An unproved delivery shuts the gate, and nothing passes a shut gate.    *)

(* A dispatch that becomes unproved with the end of its lease shuts the    *)
(* gate for its own kind of adapter.                                       *)
LEMMA EndedHazard ==
  ASSUME RegistryInvariant, EndedDispatch # dispatch,
         EndedDispatch.phase = "delivery-unknown"
  PROVE  EndedBlocked = EndedDispatch.kind
<1>1. Unsettled /\ dispatch \in Dispatch
  BY DEF EndedDispatch, Unsettled, RegistryInvariant, TypeOK
<1>2. EndedDispatch =
        [dispatch EXCEPT !.phase = IF @ = "queued" THEN "failed" ELSE "delivery-unknown"]
  BY <1>1 DEF EndedDispatch
<1>3. EndedDispatch.kind = dispatch.kind /\ dispatch.phase # "queued"
  BY <1>1, <1>2 DEF Dispatch
<1>4. dispatch.phase \in Started
  BY <1>1, <1>3 DEF Unsettled, Dispatch, Phases, TerminalPhases, Started
<1>5. dispatch.kind = lease.kind
  BY <1>1 DEF RegistryInvariant, OpenDispatchIsOwned
<1> QED BY <1>3, <1>4, <1>5 DEF EndedBlocked

(* What the handlers see behind a shut gate: no lease, nothing to sweep.   *)
LEMMA BehindShutGate ==
  ASSUME RegistryInvariant, blocked # NoKind
  PROVE  /\ lease = NoLease /\ ~Held /\ ~Live /\ ~Overdue /\ ~Unsettled
         /\ SweptDispatch = dispatch /\ SweptBlocked = blocked
BY DEF RegistryInvariant, Held, Live, Overdue, Unsettled, TerminalPhases, SweptDispatch, SweptBlocked

(* Every step that leaves a delivery unproved shuts the gate in the same   *)
(* step, and a shut gate grants nothing.                                   *)
LEMMA HazardStep == RegistryInvariant /\ [Next]_vars => HazardShutsGateStep
<1> SUFFICES ASSUME RegistryInvariant, [Next]_vars PROVE HazardShutsGateStep
  OBVIOUS
<1>1. dispatch' = dispatch /\ lease' = lease => HazardShutsGateStep
  BY BehindShutGate DEF HazardShutsGateStep
<1>2. SweepLease /\ blocked' = SweptBlocked => HazardShutsGateStep
  <2> SUFFICES ASSUME SweepLease, blocked' = SweptBlocked PROVE HazardShutsGateStep
    OBVIOUS
  <2>1. CASE ~Overdue
    BY <2>1, <1>1 DEF SweepLease, SweptDispatch
  <2>2. CASE Overdue
    <3>1. blocked = NoKind
      BY <2>2, BehindShutGate
    <3>2. lease' = NoLease /\ dispatch' = EndedDispatch /\ blocked' = EndedBlocked
      BY <2>2 DEF SweepLease, SweptDispatch, SweptBlocked
    <3> QED BY <3>1, <3>2, EndedHazard DEF HazardShutsGateStep
  <2> QED BY <2>1, <2>2
<1>3. CASE UNCHANGED vars
  BY <1>1, <1>3 DEF vars, registryVars
<1>4. CASE Publish
  <2>1. CASE ReserveInbox
    BY <1>2, <2>1 DEF ReserveInbox, Sweep
  <2>2. CASE ReserveActive(revision + 1)
    <3>1. dispatch'.phase = "queued"
      BY <2>2 DEF ReserveActive
    <3>2. blocked = NoKind
      BY <2>2, BehindShutGate DEF ReserveActive
    <3> QED BY <3>1, <3>2 DEF HazardShutsGateStep
  <2> QED BY <1>4, <2>1, <2>2 DEF Publish
<1>5. CASE TickRegistry
  <2>1. blocked # NoKind => lease' = lease /\ dispatch' = dispatch
    BY <1>5, BehindShutGate DEF TickRegistry
  <2>2. dispatch' # dispatch => dispatch'.phase # "delivery-unknown"
    <3> SUFFICES ASSUME Unsettled, dispatch' # dispatch
                 PROVE  dispatch'.phase # "delivery-unknown"
      BY <1>5 DEF TickRegistry
    <3>1. dispatch \in Dispatch
      BY DEF RegistryInvariant, TypeOK, Unsettled
    <3>2. dispatch'.phase = dispatch.phase
      BY <1>5, <3>1 DEF TickRegistry, Dispatch
    <3> QED BY <3>2 DEF Unsettled, TerminalPhases
  <2> QED BY <2>1, <2>2, BehindShutGate DEF HazardShutsGateStep
<1>6. CASE Call
  <2>1. CASE SweepOnly
    BY <1>2, <2>1 DEF SweepOnly, Sweep
  <2>2. ASSUME NEW kind, NEW connector, RenewClaim(kind, connector)
        PROVE  HazardShutsGateStep
    BY <2>2 DEF RenewClaim, CanRenew, HazardShutsGateStep
  <2>3. ASSUME NEW kind, NEW connector, NEW baseline, GrantClaim(kind, connector, baseline)
        PROVE  HazardShutsGateStep
    <3>1. SweptBlocked = NoKind /\ dispatch' = SweptDispatch
      BY <2>3 DEF GrantClaim, CanGrant
    <3>2. blocked = NoKind
      BY <3>1, BehindShutGate
    <3>3. EndedDispatch # dispatch => ~(Overdue /\ EndedDispatch.phase = "delivery-unknown")
      <4> SUFFICES ASSUME EndedDispatch # dispatch, Overdue,
                          EndedDispatch.phase = "delivery-unknown"
                   PROVE  FALSE
        OBVIOUS
      <4>1. EndedBlocked = NoKind /\ EndedBlocked = EndedDispatch.kind
        BY <3>1, EndedHazard DEF SweptBlocked
      <4>2. dispatch \in Dispatch /\ EndedDispatch.kind = dispatch.kind
        <5>1. dispatch \in Dispatch
          BY DEF RegistryInvariant, TypeOK, EndedDispatch, Unsettled
        <5> QED BY <5>1 DEF EndedDispatch, Dispatch
      <4> QED BY <4>1, <4>2, NullsAreApart, RegistryAssumption DEF Dispatch
    <3> QED BY <3>1, <3>2, <3>3 DEF SweptDispatch, HazardShutsGateStep
  <2>4. ASSUME NEW token, Heartbeat(token) PROVE HazardShutsGateStep
    BY <2>4, BehindShutGate DEF Heartbeat, ValidLease, HazardShutsGateStep
  <2>5. ASSUME NEW token, Release(token) PROVE HazardShutsGateStep
    <3>1. blocked = NoKind
      BY <2>5, BehindShutGate DEF Release, ValidLease
    <3> QED BY <2>5, <3>1, EndedHazard DEF Release, EndLease, HazardShutsGateStep
  <2>6. ASSUME NEW token, NEW cursor, NEW phase, Report(token, cursor, phase)
        PROVE  HazardShutsGateStep
    <3>1. blocked = NoKind
      BY <2>6, BehindShutGate DEF Report, CanReport, ValidLease
    <3>2. dispatch \in Dispatch
      BY <2>6 DEF Report, CanReport, RegistryInvariant, TypeOK
    <3>3. dispatch'.phase = phase /\ dispatch'.kind = lease.kind
      BY <2>6, <3>2 DEF Report, CanReport, Dispatch
    <3>4. dispatch.phase = phase => dispatch' = dispatch
      BY <2>6, <3>2 DEF Report, Dispatch
    <3> QED BY <2>6, <3>1, <3>3, <3>4 DEF Report, HazardShutsGateStep
  <2>7. ASSUME NEW cursor, ResolveDelivery(cursor) PROVE HazardShutsGateStep
    <3>1. ResolveDelivery(dispatch.cursor)
      BY <2>7 DEF ResolveDelivery, CanResolve
    <3>2. blocked # NoKind => lease' = NoLease /\ dispatch' = dispatch
      BY <2>7, BehindShutGate DEF ResolveDelivery, SweepLease
    <3> QED BY <3>1, <3>2 DEF HazardShutsGateStep
  <2>8. CASE CloseRegistry
    BY <2>8 DEF CloseRegistry, HazardShutsGateStep, NoDispatch
  <2> QED
    BY <1>6, <2>1, <2>2, <2>3, <2>4, <2>5, <2>6, <2>7, <2>8 DEF Call
<1> QED BY <1>3, <1>4, <1>5, <1>6 DEF Next

(* An unproved delivery always shuts the gate, and nothing passes it.      *)
THEOREM HazardAlwaysShutsGate == Spec => HazardShutsGate
BY RegistryInvariantHolds, HazardStep, PTL DEF Spec, HazardShutsGate

-----------------------------------------------------------------------------
(* The registry implements DeliveryGate.                                   *)

(* The gate of a dispatch that ends with its lease: it was busy if the     *)
(* dispatch was open, and is shut afterwards exactly when the agent may    *)
(* have started.                                                           *)
LEMMA EndedGate ==
  ASSUME RegistryInvariant, Held, dispatch' = EndedDispatch, UNCHANGED registryClosed,
         RegistryInvariant', blocked' \in {EndedBlocked, NoKind}
  PROVE  [Gate!GateNext]_(Gate!gateVars)
<1>1. blocked = NoKind /\ ~registryClosed /\ ~registryClosed'
  BY DEF RegistryInvariant
<1>2. GateTask' = GateTask
  <2>1. CASE dispatch = NoDispatch
    BY <2>1 DEF EndedDispatch, Unsettled, GateTask
  <2>2. CASE dispatch # NoDispatch
    <3>1. EndedDispatch.cursor = dispatch.cursor /\ dispatch \in Dispatch
      BY <2>2, EndedIsAllowed DEF RegistryInvariant, TypeOK
    <3>2. dispatch' # NoDispatch
      BY <2>2, <3>1, NullsAreApart DEF EndedDispatch, Unsettled, Dispatch, Phases, NoDispatch
    <3> QED BY <2>2, <3>1, <3>2 DEF GateTask
  <2> QED BY <2>1, <2>2
<1>3. CASE ~Unsettled
  <2>1. dispatch' = dispatch /\ ~Unsettled' /\ EndedBlocked = NoKind
    BY <1>1, <1>3 DEF EndedDispatch, EndedBlocked, Unsettled, Started, TerminalPhases, NoDispatch
  <2>2. GateState = "open" /\ GateState' = "open"
    BY <1>1, <1>3, <2>1 DEF GateState
  <2> QED BY <1>2, <2>2 DEF Gate!gateVars
<1>4. CASE Unsettled
  <2>1. GateState = "busy"
    BY <1>1, <1>4 DEF GateState
  <2>2. dispatch \in Dispatch
    BY <1>4 DEF Unsettled, RegistryInvariant, TypeOK
  <2>3. ~Unsettled'
    BY <1>4, <2>2 DEF EndedDispatch, Unsettled, Dispatch, TerminalPhases
  <2>4. GateState' \in {"open", "shut"}
    BY <1>1, <2>3 DEF GateState
  <2> QED
    BY <1>2, <2>1, <2>4 DEF Gate!GateNext, Gate!Settle, Gate!Lose
<1> QED BY <1>3, <1>4

(* What changes neither the gate nor its task is a stutter.                *)
LEMMA SameGate ==
  ASSUME UNCHANGED <<blocked, registryClosed>>,
         \/ dispatch' = dispatch
         \/ /\ dispatch # NoDispatch /\ dispatch' # NoDispatch
            /\ dispatch'.cursor = dispatch.cursor
            /\ dispatch'.phase = dispatch.phase
  PROVE  [Gate!GateNext]_(Gate!gateVars)
<1>1. GateState' = GateState /\ GateTask' = GateTask
  BY DEF GateState, GateTask, Unsettled
<1> QED BY <1>1 DEF Gate!gateVars

(* Sweeping, and sweeping under a review of the workspace.                 *)
LEMMA SweptGate ==
  ASSUME RegistryInvariant, RegistryInvariant', UNCHANGED registryClosed,
         dispatch' = SweptDispatch, blocked' = SweptBlocked
  PROVE  [Gate!GateNext]_(Gate!gateVars)
<1>1. CASE Overdue
  BY <1>1, EndedGate DEF Overdue, SweptDispatch, SweptBlocked
<1>2. CASE ~Overdue
  BY <1>2, SameGate DEF SweptDispatch, SweptBlocked
<1> QED BY <1>1, <1>2

(* The initial state is an open gate.                                      *)
LEMMA InitGate == Init => Gate!GateInit
BY DEF Init, Gate!GateInit, GateState, GateTask, Unsettled

(* Every step of the registry is a step of the gate, or none.              *)
LEMMA GateStep ==
  RegistryInvariant /\ RegistryInvariant' /\ [Next]_vars => [Gate!GateNext]_(Gate!gateVars)
<1> SUFFICES ASSUME RegistryInvariant, RegistryInvariant', [Next]_vars
             PROVE  [Gate!GateNext]_(Gate!gateVars)
  OBVIOUS
<1> USE RegistryAssumption
<1>1. dispatch \in Dispatch \cup {NoDispatch} /\ revision \in Nat
  BY DEF RegistryInvariant, TypeOK
<1>2. CASE UNCHANGED vars
  BY <1>2, SameGate DEF vars, registryVars
<1>3. CASE Publish
  <2>1. CASE ReserveInbox
    BY <2>1, SweptGate DEF ReserveInbox, Sweep, SweepLease
  <2>2. CASE ReserveActive(revision + 1)
    <3>1. /\ blocked = NoKind /\ blocked' = NoKind /\ ~registryClosed /\ ~registryClosed'
          /\ ~Unsettled
      BY <2>2 DEF ReserveActive, Publishable, Live, RegistryInvariant
    <3>2. dispatch'.cursor = revision + 1 /\ dispatch'.phase = "queued" /\ dispatch' # NoDispatch
      BY <2>2 DEF ReserveActive, NoDispatch
    <3>3. GateState = "open" /\ GateState' = "busy"
      BY <3>1, <3>2 DEF GateState, Unsettled, TerminalPhases
    <3>4. GateTask' = revision + 1 /\ GateTask \in 0..revision /\ revision + 1 <= MaxRevisions
      BY <1>1, <1>3, <3>2 DEF GateTask, Dispatch, Publish, RegistryInvariant, TypeOK
    <3> QED BY <1>1, <3>3, <3>4 DEF Gate!GateNext, Gate!Offer
  <2> QED BY <1>3, <2>1, <2>2 DEF Publish
<1>4. CASE TickRegistry
  <2>1. CASE Unsettled
    <3>1. dispatch \in Dispatch /\ dispatch # NoDispatch
      BY <1>1, <2>1 DEF Unsettled
    <3>2. /\ dispatch' \in [phase: Phases, kind: Kinds, cursor: 1..MaxRevisions,
                            left: Nat, owner: 1..MaxTokens]
          /\ dispatch'.cursor = dispatch.cursor /\ dispatch'.phase = dispatch.phase
      BY <1>4, <2>1, <3>1 DEF TickRegistry, Lower, Dispatch
    <3>3. dispatch' # NoDispatch
      BY <3>2 DEF NoDispatch, Phases
    <3> QED BY <1>4, <3>1, <3>2, <3>3, SameGate DEF TickRegistry
  <2>2. CASE ~Unsettled
    BY <1>4, <2>2, SameGate DEF TickRegistry
  <2> QED BY <2>1, <2>2
<1>5. CASE Call
  <2>1. CASE SweepOnly
    BY <2>1, SweptGate DEF SweepOnly, Sweep, SweepLease
  <2>2. ASSUME NEW kind, NEW connector, RenewClaim(kind, connector)
        PROVE  [Gate!GateNext]_(Gate!gateVars)
    BY <2>2, SameGate DEF RenewClaim
  <2>3. ASSUME NEW kind, NEW connector, NEW baseline, GrantClaim(kind, connector, baseline)
        PROVE  [Gate!GateNext]_(Gate!gateVars)
    BY <2>3, SweptGate DEF GrantClaim
  <2>4. ASSUME NEW token, Heartbeat(token) PROVE [Gate!GateNext]_(Gate!gateVars)
    BY <2>4, SameGate DEF Heartbeat
  <2>5. ASSUME NEW token, Release(token) PROVE [Gate!GateNext]_(Gate!gateVars)
    BY <2>5, EndedGate DEF Release, ValidLease, Live, EndLease
  <2>6. ASSUME NEW token, NEW cursor, NEW phase, Report(token, cursor, phase)
        PROVE  [Gate!GateNext]_(Gate!gateVars)
    <3>1. /\ dispatch \in Dispatch /\ dispatch # NoDispatch /\ blocked = NoKind
          /\ lease \in Lease /\ ~registryClosed /\ ~registryClosed'
      BY <1>1, <2>6 DEF Report, CanReport, ValidLease, Live, Held, RegistryInvariant, TypeOK
    <3>2. dispatch'.cursor = dispatch.cursor /\ dispatch'.phase = phase
      BY <2>6, <3>1 DEF Report, Dispatch
    <3>3. phase \in Phases /\ dispatch' # NoDispatch
      BY <2>6, <3>1, <3>2 DEF Report, CanReport, AllowedTransitions, Dispatch, Phases, NoDispatch
    <3>4. CASE phase = dispatch.phase
      BY <2>6, <3>1, <3>2, <3>3, <3>4, SameGate DEF Report
    <3>5. CASE phase # dispatch.phase
      <4>1. Unsettled /\ GateState = "busy" /\ GateTask' = GateTask
        BY <2>6, <3>1, <3>2, <3>3, <3>5 DEF Report, CanReport, AllowedTransitions, Dispatch, Phases,
           Unsettled, TerminalPhases, GateState, GateTask
      <4>2. GateState' \in {"busy", "open", "shut"}
        BY <3>1 DEF GateState
      <4> QED BY <4>1, <4>2 DEF Gate!GateNext, Gate!Settle, Gate!Lose, Gate!gateVars
    <3> QED BY <3>4, <3>5
  <2>7. ASSUME NEW cursor, ResolveDelivery(cursor) PROVE [Gate!GateNext]_(Gate!gateVars)
    <3>1. UNCHANGED registryClosed /\ blocked' = NoKind /\ dispatch' = SweptDispatch
      BY <2>7 DEF ResolveDelivery, SweepLease
    <3>2. CASE Overdue
      BY <3>1, <3>2, EndedGate DEF Overdue, SweptDispatch
    <3>3. CASE ~Overdue
      <4>1. /\ blocked # NoKind /\ dispatch' = dispatch /\ ~registryClosed
            /\ dispatch.phase = "delivery-unknown"
        BY <2>7, <3>1, <3>3 DEF ResolveDelivery, CanResolve, SweptBlocked, SweptDispatch
      <4>2. GateState = "shut" /\ GateState' = "open" /\ GateTask' = GateTask
        BY <3>1, <4>1 DEF GateState, GateTask, Unsettled, TerminalPhases
      <4> QED BY <4>2 DEF Gate!GateNext, Gate!Review
    <3> QED BY <3>2, <3>3
  <2>8. CASE CloseRegistry
    <3>1. GateState # "closed" /\ GateState' = "closed" /\ GateTask' = 0
      BY <2>8 DEF CloseRegistry, GateState, GateTask
    <3> QED BY <3>1 DEF Gate!GateNext, Gate!CloseGate
  <2> QED
    BY <1>5, <2>1, <2>2, <2>3, <2>4, <2>5, <2>6, <2>7, <2>8 DEF Call
<1> QED BY <1>2, <1>3, <1>4, <1>5 DEF Next

(* The registry keeps the session's promise about writing agents.          *)
THEOREM RegistryKeepsPromise == Spec => KeepsPromise
BY InitGate, GateStep, RegistryInvariantHolds, PTL DEF Spec, KeepsPromise, Gate!GateSpec
=============================================================================
