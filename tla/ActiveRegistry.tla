--------------------------- MODULE ActiveRegistry ---------------------------
(***************************************************************************)
(* The registry of the one active agent connection of a development        *)
(* session: who holds the lease, the one handoff dispatched to it and the  *)
(* hazard gate that follows an unproved delivery.                          *)
(* Code: packages/dev-server/src/external-handoff/active-registry.ts.      *)
(*                                                                         *)
(* Every handler runs to completion on the event loop, so each is one      *)
(* action.  The handlers begin with sweep(), whose effect stays even when  *)
(* the call is then refused.  Monotonic deadlines are counters of the time *)
(* left, which Tick lowers: a deadline has passed when nothing is left.    *)
(* Lease tokens are numbered in the order they are drawn, a cursor is the  *)
(* number of the revision it names; 0 stands for undefined.                *)
(***************************************************************************)
EXTENDS Naturals

CONSTANTS
  Kinds,            \* adapter kinds
  Connectors,       \* connector instance ids
  NoKind,           \* "blocked" is undefined
  LeaseDuration,    \* activeLeaseDurationMs, in ticks
  DispatchTimeout,  \* activeDispatchTimeoutMs, in ticks
  MaxTokens,        \* bound: leases granted
  MaxRevisions      \* bound: handoffs published

ASSUME RegistryAssumption ==
  /\ NoKind \notin Kinds
  /\ LeaseDuration \in Nat \ {0}
  /\ DispatchTimeout \in Nat \ {0}
  /\ MaxTokens \in Nat
  /\ MaxRevisions \in Nat

VARIABLES
  lease,              \* the current lease, or NoLease
  dispatch,           \* the last dispatch, or NoDispatch
  blocked,            \* kind of the adapter whose delivery is unproved
  lastReleasedToken,  \* token of the lease that ended last, for release()
  tokens,             \* tokens drawn so far
  registryClosed,
  revision            \* revisions the store has published: its cursors

registryVars ==
  <<lease, dispatch, blocked, lastReleasedToken, tokens, registryClosed>>

-----------------------------------------------------------------------------
(* Data.                                                                   *)

Phases == {"queued", "dispatching", "dispatched", "working",
           "completed", "failed", "delivery-unknown"}

ReportablePhases == Phases \ {"queued"}

TerminalPhases == {"completed", "failed", "delivery-unknown"}

Started == {"dispatching", "dispatched", "working"}

AllowedTransitions ==
  [phase \in Phases |->
     CASE phase = "queued"      -> {"dispatching", "failed"}
       [] phase = "dispatching" -> {"dispatched", "working", "failed", "delivery-unknown"}
       [] phase = "dispatched"  -> {"working", "failed", "delivery-unknown"}
       [] phase = "working"     -> {"completed", "failed", "delivery-unknown"}
       [] OTHER                 -> {}]

NoLease    == [token |-> 0]
NoDispatch == [phase |-> "none"]

Held      == lease # NoLease
Unsettled == dispatch # NoDispatch /\ dispatch.phase \notin TerminalPhases

(* The owner of a dispatch, the token of the lease it was reserved under,  *)
(* is not in the code: the properties speak of it.                         *)
Lease ==
  [token: 1..MaxTokens, kind: Kinds, connector: Connectors,
   baseline: 0..MaxRevisions, left: 0..LeaseDuration]

Dispatch ==
  [phase: Phases, kind: Kinds, cursor: 1..MaxRevisions,
   left: 0..DispatchTimeout, owner: 1..MaxTokens]

-----------------------------------------------------------------------------
(* What endLease and sweep leave behind.                                   *)

(* Bugs the properties are tried against stand before the definition each  *)
(* would take the place of, and are named Bug... .                         *)

(* A delivery under way is not settled by the end of its lease.            *)
BugStartedStaysOpen ==
  IF Unsettled /\ dispatch.phase = "queued"
  THEN [dispatch EXCEPT !.phase = "failed"] ELSE dispatch

(* The end of a lease rewrites an outcome already reported.                *)
BugSettledIsRewritten ==
  IF dispatch = NoDispatch THEN dispatch
  ELSE [dispatch EXCEPT !.phase = IF @ = "queued" THEN "failed" ELSE "delivery-unknown"]

(* A handoff offered to the adapter counts as not delivered.               *)
BugOfferedHasFailed ==
  IF ~Unsettled THEN dispatch
  ELSE [dispatch EXCEPT !.phase =
    IF @ \in {"queued", "dispatching"} THEN "failed" ELSE "delivery-unknown"]

EndedDispatch ==
  IF ~Unsettled THEN dispatch
  ELSE [dispatch EXCEPT !.phase = IF @ = "queued" THEN "failed" ELSE "delivery-unknown"]

(* A lease that ends during a delivery leaves the gate open.               *)
BugGateStaysOpen == blocked

EndedBlocked ==
  IF dispatch.phase \in Started THEN lease.kind ELSE blocked

EndLease ==
  /\ lease' = NoLease
  /\ dispatch' = EndedDispatch
  /\ blocked' = EndedBlocked
  /\ lastReleasedToken' = lease.token

(* Only the lease has a deadline, and a heartbeat renews it.               *)
BugNoDispatchDeadline == Held /\ lease.left = 0

Overdue ==
  /\ Held
  /\ lease.left = 0 \/ (Unsettled /\ dispatch.left = 0)

(* What a handler sees once it has swept.                                  *)
Live == Held /\ ~Overdue
SweptDispatch == IF Overdue THEN EndedDispatch ELSE dispatch
SweptBlocked  == IF Overdue THEN EndedBlocked ELSE blocked

SweepLease ==
  /\ lease' = IF Overdue THEN NoLease ELSE lease
  /\ lastReleasedToken' = IF Overdue THEN lease.token ELSE lastReleasedToken
  /\ dispatch' = SweptDispatch

Sweep == SweepLease /\ blocked' = SweptBlocked

(* A handoff is taken while the adapter is busy with another.              *)
BugPublishWhileBusy == ~registryClosed /\ SweptBlocked = NoKind

Publishable ==
  /\ ~registryClosed
  /\ SweptBlocked = NoKind
  /\ ~(Live /\ Unsettled)

ValidLease(token) == ~registryClosed /\ Live /\ lease.token = token

-----------------------------------------------------------------------------
(* The handlers.                                                           *)

(* Any call that only sweeps: snapshot(), assertPublishable(), release()   *)
(* of the lease that just ended, and every call refused after its sweep.   *)
SweepOnly ==
  /\ ~registryClosed
  /\ Sweep
  /\ UNCHANGED <<tokens, registryClosed>>

(* claim() by the holder renews its lease, which keeps its token and the   *)
(* baseline of its first claim.                                            *)
CanRenew(kind, connector) ==
  /\ ~registryClosed /\ Live /\ blocked = NoKind
  /\ lease.kind = kind /\ lease.connector = connector

RenewClaim(kind, connector) ==
  /\ CanRenew(kind, connector)
  /\ lease' = [lease EXCEPT !.left = LeaseDuration]
  /\ UNCHANGED <<dispatch, blocked, lastReleasedToken, tokens, registryClosed>>

(* A lease is granted behind the shut gate.                                *)
BugGrantWhileBlocked == ~registryClosed /\ ~Live

(* claim() with no live lease grants a new one.                            *)
CanGrant == ~registryClosed /\ ~Live /\ SweptBlocked = NoKind

GrantClaim(kind, connector, baseline) ==
  /\ CanGrant /\ tokens < MaxTokens
  /\ tokens' = tokens + 1
  /\ lease' = [token |-> tokens + 1, kind |-> kind, connector |-> connector,
               baseline |-> baseline, left |-> LeaseDuration]
  /\ dispatch' = SweptDispatch
  /\ blocked' = SweptBlocked
  /\ lastReleasedToken' = 0
  /\ UNCHANGED registryClosed

Heartbeat(token) ==
  /\ ValidLease(token)
  /\ lease' = [lease EXCEPT !.left = LeaseDuration]
  /\ UNCHANGED <<dispatch, blocked, lastReleasedToken, tokens, registryClosed>>

(* report(): the same phase again changes nothing; an unproved delivery    *)
(* closes the gate and takes the lease away.                               *)
CanReport(token, cursor, phase) ==
  /\ ValidLease(token)
  /\ dispatch # NoDispatch
  /\ dispatch.cursor = cursor /\ dispatch.kind = lease.kind
  /\ phase = dispatch.phase \/ phase \in AllowedTransitions[dispatch.phase]

(* The lease survives the report of an unproved delivery.                  *)
BugReportKeepsLease(token, cursor, phase) ==
  /\ CanReport(token, cursor, phase)
  /\ dispatch' = [dispatch EXCEPT !.phase = phase]
  /\ blocked' = IF phase = "delivery-unknown" THEN lease.kind ELSE blocked
  /\ UNCHANGED <<lease, lastReleasedToken, tokens, registryClosed>>

Report(token, cursor, phase) ==
  /\ CanReport(token, cursor, phase)
  /\ dispatch' = [dispatch EXCEPT !.phase = phase]
  /\ IF phase = "delivery-unknown" /\ dispatch.phase # phase
     THEN /\ blocked' = lease.kind
          /\ lastReleasedToken' = lease.token
          /\ lease' = NoLease
     ELSE UNCHANGED <<lease, blocked, lastReleasedToken>>
  /\ UNCHANGED <<tokens, registryClosed>>

Release(token) ==
  /\ ValidLease(token)
  /\ EndLease
  /\ UNCHANGED <<tokens, registryClosed>>

(* reserve(): a handoff published while no adapter is connected goes to    *)
(* the inbox; otherwise it is queued for the adapter that holds the lease. *)
ReserveInbox ==
  /\ Publishable /\ ~Live
  /\ Sweep
  /\ UNCHANGED <<tokens, registryClosed>>

(* The deadline of the dispatch is counted from the end of the lease.      *)
BugLateDeadline(cursor) ==
  /\ Publishable /\ Live
  /\ dispatch' = [phase |-> "queued", kind |-> lease.kind, cursor |-> cursor,
                  left |-> lease.left + DispatchTimeout, owner |-> lease.token]
  /\ UNCHANGED <<lease, blocked, lastReleasedToken, tokens, registryClosed>>

ReserveActive(cursor) ==
  /\ Publishable /\ Live
  /\ dispatch' = [phase |-> "queued", kind |-> lease.kind, cursor |-> cursor,
                  left |-> DispatchTimeout, owner |-> lease.token]
  /\ UNCHANGED <<lease, blocked, lastReleasedToken, tokens, registryClosed>>

(* resolveDelivery(): the user confirms that the workspace was reviewed.   *)
CanResolve(cursor) ==
  /\ ~registryClosed /\ SweptBlocked # NoKind
  /\ SweptDispatch.phase = "delivery-unknown" /\ dispatch.cursor = cursor

ResolveDelivery(cursor) ==
  /\ CanResolve(cursor)
  /\ SweepLease
  /\ blocked' = NoKind
  /\ UNCHANGED <<tokens, registryClosed>>

CloseRegistry ==
  /\ ~registryClosed
  /\ registryClosed' = TRUE
  /\ lease' = NoLease
  /\ dispatch' = NoDispatch
  /\ blocked' = NoKind
  /\ lastReleasedToken' = 0
  /\ UNCHANGED tokens

(* The monotonic clock: the deadline of a settled dispatch is never read.  *)
Lower(n) == IF n = 0 THEN 0 ELSE n - 1

TickRegistry ==
  /\ lease' = IF Held THEN [lease EXCEPT !.left = Lower(@)] ELSE lease
  /\ dispatch' = IF Unsettled THEN [dispatch EXCEPT !.left = Lower(@)] ELSE dispatch
  /\ UNCHANGED <<blocked, lastReleasedToken, tokens, registryClosed>>

-----------------------------------------------------------------------------
(* The registry on its own, called by anyone with anything: connectors use *)
(* any token drawn so far and report any phase of any cursor.              *)

vars == <<registryVars, revision>>

Init ==
  /\ lease = NoLease
  /\ dispatch = NoDispatch
  /\ blocked = NoKind
  /\ lastReleasedToken = 0
  /\ tokens = 0
  /\ registryClosed = FALSE
  /\ revision = 0

(* The store publishes the next revision, and reserves it first.           *)
Publish ==
  /\ revision < MaxRevisions
  /\ revision' = revision + 1
  /\ ReserveInbox \/ ReserveActive(revision + 1)

Call ==
  \/ SweepOnly
  \/ \E kind \in Kinds, connector \in Connectors :
       \/ RenewClaim(kind, connector)
       \/ \E baseline \in {0, revision} : GrantClaim(kind, connector, baseline)
  \/ \E token \in 1..tokens :
       \/ Heartbeat(token)
       \/ Release(token)
       \/ \E cursor \in 1..revision, phase \in ReportablePhases :
            Report(token, cursor, phase)
  \/ \E cursor \in 1..revision : ResolveDelivery(cursor)
  \/ CloseRegistry

Next == Publish \/ (Call /\ UNCHANGED revision) \/ (TickRegistry /\ UNCHANGED revision)

Spec == Init /\ [][Next]_vars

(* Time passes, and somebody goes on calling: the holder's heartbeats while *)
(* it lives, the browser's polls of the status when it does not.           *)
FairSpec ==
  /\ Spec
  /\ WF_vars(TickRegistry /\ UNCHANGED revision)
  /\ WF_vars(SweepOnly /\ UNCHANGED revision)

-----------------------------------------------------------------------------
(* Properties.                                                             *)

(* Every variable has its type.                                            *)
TypeOK ==
  /\ lease \in Lease \cup {NoLease}
  /\ dispatch \in Dispatch \cup {NoDispatch}
  /\ blocked \in Kinds \cup {NoKind}
  /\ lastReleasedToken \in 0..MaxTokens
  /\ tokens \in 0..MaxTokens
  /\ registryClosed \in BOOLEAN
  /\ revision \in 0..MaxRevisions

(* A dispatch that is still open belongs to the very lease in force: no    *)
(* lease ends, by release, expiry or deadline, without settling the        *)
(* dispatch it carried, and no later lease inherits one (endLease, sweep). *)
OpenDispatchIsOwned ==
  Unsettled => Held /\ dispatch.owner = lease.token /\ dispatch.kind = lease.kind

(* The gate is shut only over a delivery that was really left unproved, by *)
(* an adapter of the kind shown to the user, and nobody holds a lease      *)
(* behind it; so resolveDelivery() can always open it (enterUnknown,       *)
(* report, resolveDelivery).                                               *)
ShutGateIsResolvable ==
  blocked # NoKind =>
    /\ ~Held
    /\ dispatch # NoDispatch
    /\ dispatch.phase = "delivery-unknown" /\ dispatch.kind = blocked
    /\ CanResolve(dispatch.cursor)

(* The invariant the proofs rest on.                                       *)
RegistryInvariant ==
  /\ TypeOK
  /\ OpenDispatchIsOwned
  /\ blocked # NoKind =>
       /\ ~Held /\ ~registryClosed /\ dispatch # NoDispatch
       /\ dispatch.phase = "delivery-unknown" /\ dispatch.kind = blocked
  /\ Held => ~registryClosed /\ lease.token <= tokens
  /\ dispatch # NoDispatch => ~registryClosed /\ dispatch.cursor <= revision

(* The life of a dispatch follows ALLOWED_TRANSITIONS whoever drives it,   *)
(* reports, sweeps and releases alike: a settled outcome is never          *)
(* rewritten, and only a newer handoff takes the place of a settled one.   *)
OutcomeIsFinalStep ==
  (dispatch # NoDispatch /\ ~registryClosed') =>
    \/ /\ dispatch'.cursor = dispatch.cursor /\ dispatch'.owner = dispatch.owner
       /\ \/ dispatch'.phase = dispatch.phase
          \/ dispatch'.phase \in AllowedTransitions[dispatch.phase]
    \/ ~Unsettled /\ dispatch'.cursor > dispatch.cursor /\ dispatch'.phase = "queued"

OutcomeIsFinal == [][OutcomeIsFinalStep]_vars

(* A delivery that becomes unproved shuts the gate in the same step, or is *)
(* resolved by the user in it; a shut gate grants no lease and dispatches  *)
(* nothing (enterUnknown, claim, assertPublishable, reserve).              *)
HazardShutsGateStep ==
  /\ (dispatch' # dispatch /\ dispatch'.phase = "delivery-unknown") =>
       \/ blocked' = dispatch'.kind /\ lease' = NoLease
       \/ ResolveDelivery(dispatch.cursor)
  /\ (blocked # NoKind /\ ~registryClosed') => lease' = NoLease /\ dispatch' = dispatch

HazardShutsGate == [][HazardShutsGateStep]_vars

(* An agent that hangs cannot keep the session busy, not even when its     *)
(* connector goes on beating: every dispatch is settled in the end (sweep, *)
(* activeDispatchTimeoutMs).                                               *)
DispatchSettles == Unsettled ~> ~Unsettled

(* The registry implements the session's promise: the gate is busy while   *)
(* a dispatch is open, and shut while the adapter is blocked.              *)
GateState ==
  IF registryClosed THEN "closed"
  ELSE IF blocked # NoKind THEN "shut"
  ELSE IF Unsettled THEN "busy" ELSE "open"

GateTask == IF dispatch = NoDispatch THEN 0 ELSE dispatch.cursor

Gate == INSTANCE DeliveryGate WITH MaxTask <- MaxRevisions, gate <- GateState, task <- GateTask

KeepsPromise == Gate!GateSpec
=============================================================================
