--------------------------- MODULE HandoffDelivery ---------------------------
(***************************************************************************)
(* The way of a handoff from the browser to a writing agent: the service   *)
(* that publishes it, the store and the registry (INSTANCEs of their own   *)
(* modules), the broker's calls, and the event pumps that hold the lease,  *)
(* fetch the handoff and drive a vendor adapter.                           *)
(* Code: packages/dev-server/src/external-handoff/service.ts and           *)
(* broker.ts, packages/bridge/src/client.ts, active/event-pump.ts.         *)
(*                                                                         *)
(* The broker handles a call in one step.  A call may fail for the pump at *)
(* any time (timeout, abort, a destroyed socket): its request is then      *)
(* "late", and the broker may still handle it afterwards or never see it.  *)
(* A pump is one run of a connector with an id of its own; a user who      *)
(* reconnects starts another one.                                          *)
(***************************************************************************)
EXTENDS Naturals, Sequences, FiniteSets

CONSTANTS
  Pumps,            \* connector runs
  KindOf,           \* the adapter kind of each
  NoKind,
  Requests,         \* publish request ids of the browser
  LeaseDuration, DispatchTimeout, HandoffTtl, RequestIdTtl,   \* in ticks
  MaxHistory, MaxRequestIds, MaxReceipts, MaxWaiters,         \* limits of the store
  MaxRevisions,     \* bound: handoffs published
  MaxTokens,        \* bound: leases granted
  MaxLate           \* bound: failed requests still under way

VARIABLES
  lease, dispatch, blocked, lastReleasedToken, tokens, registryClosed,  \* registry
  current, history, idempotency, waits, storeClosed,                    \* store
  revision,
  publishing,   \* request ids whose publish() waits for authorize()
  pump,         \* the local state of each pump
  late,         \* requests whose caller has given up on them
  delivered,    \* times each revision was handed to an adapter's deliver()
  outcomes,     \* the terminal reports adapters made of each
  reviewed      \* revisions whose unproved delivery the user has reviewed

Kinds == {KindOf[p] : p \in Pumps}

R == INSTANCE ActiveRegistry WITH Connectors <- Pumps
S == INSTANCE HandoffStore WITH Receivers <- Pumps, Waiters <- Pumps

ASSUME DeliveryAssumption == R!RegistryAssumption /\ S!StoreAssumption

registry == <<lease, dispatch, blocked, lastReleasedToken, tokens, registryClosed>>
store    == <<current, history, idempotency, waits, storeClosed>>
pumps    == <<pump, late, delivered, outcomes>>
vars     == <<registry, store, revision, publishing, pumps, reviewed>>

-----------------------------------------------------------------------------
(* The browser's calls, through the service.                               *)

(* publish() until it waits for authorize(): not a replay, not in flight,  *)
(* and the registry is not busy.                                           *)
BeginPublish(request) ==
  /\ request \notin publishing
  /\ ~S!Replayed(request) /\ R!Publishable
  /\ S!ReadStore /\ R!SweepOnly
  /\ publishing' = publishing \cup {request}
  /\ UNCHANGED <<revision, pumps, reviewed>>

(* The rest of publish() in one step: the store mints the revision while   *)
(* the registry reserves it.                                               *)
FinishPublish(request) ==
  /\ request \in publishing
  /\ S!StorePublish(request)
  /\ R!ReserveInbox \/ R!ReserveActive(revision + 1)
  /\ publishing' = publishing \ {request}
  /\ UNCHANGED <<pumps, reviewed>>

(* authorize() refused the page, or the store or the registry refused the  *)
(* handoff; the browser may try again with the same request id.            *)
FailPublish(request) ==
  /\ request \in publishing
  /\ publishing' = publishing \ {request}
  /\ \/ UNCHANGED <<registry, store>>
     \/ ~S!CanPublish(request) /\ S!ReadStore /\ UNCHANGED registry
     \/ S!CanPublish(request) /\ ~R!Publishable /\ S!ReadStore /\ R!SweepOnly
  /\ UNCHANGED <<revision, pumps, reviewed>>

(* status() and capability(), which the browser polls; and the broker's    *)
(* status, or a status() of no handoff, which only reads the store.        *)
PollStatus ==
  /\ S!ReadStore /\ (R!SweepOnly \/ UNCHANGED registry)
  /\ UNCHANGED <<revision, publishing, pumps, reviewed>>

(* resolveDelivery() first looks the cursor up in the store.               *)
Review(cursor) ==
  /\ S!ReadStore /\ S!Known(cursor)
  /\ R!ResolveDelivery(cursor)
  /\ reviewed' = reviewed \cup {cursor}
  /\ UNCHANGED <<revision, publishing, pumps>>

CloseService ==
  /\ R!CloseRegistry /\ S!CloseStore
  /\ publishing' = {}
  /\ UNCHANGED <<revision, pumps, reviewed>>

Tick ==
  /\ R!TickRegistry /\ S!TickStore
  /\ UNCHANGED <<revision, publishing, pumps, reviewed>>

-----------------------------------------------------------------------------
(* The pump: one lease run after another, until an error it cannot recover *)
(* from.  "pc" is the call of consumeLease it is at; the heartbeat runs    *)
(* beside it and aborts the run when it fails.                             *)

Steps == {"claim", "wait", "waiting", "ack", "offer", "decline", "deliver",
          "lost", "release", "stopped"}
InRun == Steps \ {"claim", "release", "stopped"}

(* "next" follows the release; "abort" is "lease" when a heartbeat was      *)
(* refused and "closed" for any other end of the run; "phase" is the lifecycle's;      *)
(* "writing", the agent may be changing the workspace, is  *)
(* not in the code.                                                        *)
Fresh ==
  [pc |-> "claim", next |-> "stopped", token |-> 0, after |-> 0, cursor |-> 0,
   phase |-> "none", abort |-> "no", writing |-> FALSE]
Stopped == [Fresh EXCEPT !.pc = "stopped"]

(* The run is at this call, and has not been aborted: once it is, a call    *)
(* fails before it is sent.                                                *)
At(p, pc) == pump[p].pc = pc /\ pump[p].abort = "no"

Goto(p, pc) == pump' = [pump EXCEPT ![p].pc = pc]

(* The end of a lease run: release, and then claim again or stop.          *)
Leave(p, next) ==
  pump' = [pump EXCEPT ![p] =
    [Fresh EXCEPT !.pc = "release", !.next = next, !.token = pump[p].token]]

LateReport(p, phase) ==
  [op |-> "report", token |-> pump[p].token, cursor |-> pump[p].cursor, phase |-> phase]
LateRelease(p) ==
  [op |-> "release", token |-> pump[p].token, cursor |-> 0, phase |-> "none"]

(* A call fails for its caller; what becomes of the request is open.       *)
GiveUp(request) ==
  late' = IF Cardinality(late) < MaxLate THEN late \cup {request} ELSE late

Local == UNCHANGED <<registry, store, revision, publishing, reviewed>>
Calm  == UNCHANGED <<revision, publishing, reviewed, delivered, outcomes>>

(* activeClaim(): the broker passes the handoff now on offer as baseline.  *)
Claim(p) ==
  /\ pump[p].pc = "claim"
  /\ S!ReadStore
  /\ \/ R!RenewClaim(KindOf[p], p)
     \/ R!GrantClaim(KindOf[p], p, S!SweptCurrent.cursor)
  /\ \/ pump' = [pump EXCEPT ![p] =
           [@ EXCEPT !.pc = "wait", !.token = lease'.token, !.after = lease'.baseline]]
     \/ pump' = [pump EXCEPT ![p] = Stopped]      \* the answer was lost
  /\ UNCHANGED late /\ Calm

(* Busy, held by another connector, or not reachable: the pump gives up.   *)
ClaimRefused(p) ==
  /\ pump[p].pc = "claim"
  /\ pump' = [pump EXCEPT ![p] = Stopped]
  /\ \/ Local
     \/ /\ ~R!CanRenew(KindOf[p], p) /\ ~R!CanGrant
        /\ S!ReadStore /\ R!SweepOnly
        /\ UNCHANGED <<revision, publishing, reviewed>>
  /\ UNCHANGED <<late, delivered, outcomes>>

(* wait() for what follows the cursor the pump already has.                *)
BeginWait(p) ==
  /\ At(p, "wait")
  /\ S!StartWait(p, pump[p].after)
  /\ Goto(p, "waiting")
  /\ UNCHANGED <<registry, late>> /\ Calm

TakeAnswer(p) ==
  /\ At(p, "waiting") /\ p \notin S!Waiting
  /\ CASE waits[p].state = "handoff" ->
            pump' = [pump EXCEPT ![p].pc = "ack", ![p].cursor = waits[p].cursor]
       [] waits[p].state = "timeout" -> Goto(p, "wait")
       [] waits[p].state \in {"unknown", "busy"} -> Leave(p, "claim")
       [] OTHER -> Leave(p, "stopped")
  /\ waits' = [waits EXCEPT ![p] = S!Idle]
  /\ UNCHANGED <<registry, current, history, idempotency, storeClosed, late>> /\ Calm

WaitTimesOut(p) ==
  /\ S!WaitTimeout(p)
  /\ UNCHANGED <<registry, pumps>> /\ Calm

(* The receipt must be recorded before an agent is started.                *)
Acknowledge(p) ==
  /\ At(p, "ack")
  /\ \/ /\ S!Ack(pump[p].cursor, p)
        /\ Goto(p, "offer") \/ Goto(p, "decline")  \* the answer may be lost
     \/ /\ ~S!CanAck(pump[p].cursor, p) \/ storeClosed
        /\ S!ReadStore \/ UNCHANGED store
        /\ Goto(p, "decline")
     \/ UNCHANGED store /\ Goto(p, "decline")      \* the request was lost
  /\ UNCHANGED <<registry, late>> /\ Calm

(* The answer to a report the pump makes itself, or its failure.           *)
PumpReports(p, phase, reported) ==
  /\ \/ /\ R!Report(pump[p].token, pump[p].cursor, phase)
        /\ reported /\ UNCHANGED late
     \/ /\ ~R!CanReport(pump[p].token, pump[p].cursor, phase)
        /\ R!SweepOnly \/ (registryClosed /\ UNCHANGED registry)
        /\ Leave(p, IF R!ValidLease(pump[p].token) \/ registryClosed
                    THEN "stopped" ELSE "claim")
        /\ UNCHANGED <<late, delivered>>
     \/ /\ UNCHANGED registry
        /\ GiveUp(LateReport(p, phase)) /\ Leave(p, "stopped")
        /\ UNCHANGED delivered
  /\ UNCHANGED <<store, revision, publishing, reviewed, outcomes>>

(* "dispatching" is reported, then the adapter is handed the handoff.      *)
OfferToAdapter(p) ==
  /\ At(p, "offer")
  /\ PumpReports(p, "dispatching",
       /\ pump' = [pump EXCEPT ![p].pc = "deliver", ![p].phase = "dispatching",
                               ![p].writing = TRUE]
       /\ delivered' = [delivered EXCEPT ![pump[p].cursor] = @ + 1])

(* Without a receipt nothing is handed over, and the dispatch has failed.  *)
Decline(p) ==
  /\ At(p, "decline")
  /\ PumpReports(p, "failed",
       /\ pump' = [pump EXCEPT ![p].pc = "wait", ![p].after = pump[p].cursor, ![p].cursor = 0]
       /\ UNCHANGED delivered)

-----------------------------------------------------------------------------
(* The adapter, behind the lifecycle of its delivery.                      *)

TransitionAllowed ==
  [phase \in {"dispatching", "dispatched", "working", "completed", "failed", "delivery-unknown"} |->
     CASE phase = "dispatching" -> {"dispatched", "working", "failed", "delivery-unknown"}
       [] phase = "dispatched"  -> {"working", "failed", "delivery-unknown"}
       [] phase = "working"     -> {"completed", "failed", "delivery-unknown"}
       [] OTHER                 -> {}]

IsTerminal(phase) == phase \in {"completed", "failed"}

(* report(): refused once the run is aborted; a failed call leaves the     *)
(* lifecycle's phase, and the adapter may go on.                           *)
AdapterReports(p, phase) ==
  /\ At(p, "deliver")
  /\ phase \in TransitionAllowed[pump[p].phase]
  /\ \/ /\ R!Report(pump[p].token, pump[p].cursor, phase)
        /\ pump' = [pump EXCEPT ![p].phase = phase,
                               ![p].writing = @ /\ ~IsTerminal(phase)]
        /\ UNCHANGED late
     \/ /\ pump' = [pump EXCEPT ![p].writing = @ /\ ~IsTerminal(phase)]
        /\ \/ UNCHANGED registry /\ GiveUp(LateReport(p, phase))
           \/ /\ ~R!CanReport(pump[p].token, pump[p].cursor, phase)
              /\ R!SweepOnly /\ UNCHANGED late
  /\ outcomes' = IF IsTerminal(phase)
                 THEN [outcomes EXCEPT ![pump[p].cursor] = @ \cup {phase}] ELSE outcomes
  /\ UNCHANGED <<store, revision, publishing, reviewed, delivered>>

(* Bugs the properties are tried against: the pump tries an unproved       *)
(* delivery again.                                                         *)
BugRetryUnproved(p) ==
  /\ At(p, "deliver")
  /\ pump' = [pump EXCEPT ![p] =
       IF IsTerminal(@.phase)
       THEN [@ EXCEPT !.pc = "wait", !.after = pump[p].cursor, !.cursor = 0, !.phase = "none"]
       ELSE [@ EXCEPT !.pc = "offer", !.writing = FALSE]]
  /\ UNCHANGED <<late, delivered, outcomes>> /\ Local

(* After a delivery the pump waits for what follows the newest handoff.    *)
BugSkipToNewest(p) ==
  /\ At(p, "deliver")
  /\ pump' = [pump EXCEPT ![p] =
       IF IsTerminal(@.phase)
       THEN [@ EXCEPT !.pc = "wait", !.after = revision, !.cursor = 0, !.phase = "none"]
       ELSE [@ EXCEPT !.pc = "lost", !.writing = FALSE]]
  /\ UNCHANGED <<late, delivered, outcomes>> /\ Local

(* deliver() returns, or throws of its own accord: after a terminal report *)
(* the pump waits for the next handoff, otherwise the delivery is unproved. *)
DeliverEnds(p) ==
  /\ At(p, "deliver")
  /\ pump' = [pump EXCEPT ![p] =
       IF IsTerminal(@.phase)
       THEN [@ EXCEPT !.pc = "wait", !.after = pump[p].cursor, !.cursor = 0, !.phase = "none"]
       ELSE [@ EXCEPT !.pc = "lost", !.writing = FALSE]]
  /\ UNCHANGED <<late, delivered, outcomes>> /\ Local

(* The unproved delivery is reported with best effort, unless the run was  *)
(* aborted meanwhile, and the run throws ActiveDeliveryUnknownError; but   *)
(* the error of a refused heartbeat takes its place.                       *)
ReportLost(p) ==
  /\ pump[p].pc = "lost"
  /\ IF pump[p].phase = "delivery-unknown" \/ pump[p].abort # "no"
     THEN UNCHANGED <<registry, late>>
     ELSE \/ R!Report(pump[p].token, pump[p].cursor, "delivery-unknown") /\ UNCHANGED late
          \/ UNCHANGED registry /\ GiveUp(LateReport(p, "delivery-unknown"))
          \/ /\ ~R!CanReport(pump[p].token, pump[p].cursor, "delivery-unknown")
             /\ R!SweepOnly /\ UNCHANGED late
  /\ Leave(p, IF pump[p].abort = "lease" THEN "claim" ELSE "stopped")
  /\ UNCHANGED store /\ Calm

-----------------------------------------------------------------------------
(* The heartbeat beside the run, aborts, and the release at its end.       *)

Beat(p) ==
  /\ pump[p].pc \in InRun /\ pump[p].abort = "no"
  /\ R!Heartbeat(pump[p].token)
  /\ UNCHANGED <<store, pumps>> /\ Calm

(* A lease no longer valid can be claimed again.                           *)
BeatRefused(p) ==
  /\ pump[p].pc \in InRun /\ pump[p].abort = "no"
  /\ ~R!ValidLease(pump[p].token) /\ R!SweepOnly
  /\ pump' = [pump EXCEPT ![p].abort = "lease"]
  /\ UNCHANGED <<store, late>> /\ Calm

(* The user disconnects, the connector is shut down or dies, or a          *)
(* heartbeat or a wait meets a transport error: the run ends, and whether  *)
(* the release reaches the broker is open.                                 *)
Disconnect(p) ==
  /\ pump[p].pc \in InRun /\ pump[p].abort # "closed"
  /\ pump' = [pump EXCEPT ![p].abort = "closed"]
  /\ UNCHANGED <<late, delivered, outcomes>> /\ Local

(* The aborted run unwinds: a call under way fails, an adapter throws or   *)
(* returns.  A heartbeat lost during a delivery leaves it unproved, unless *)
(* the adapter returned: then only the heartbeat's error is left.          *)
Unwind(p) ==
  /\ pump[p].pc \in InRun \ {"lost"} /\ pump[p].abort # "no"
  /\ waits' = [waits EXCEPT ![p] = S!Idle]
  /\ \/ UNCHANGED late
     \/ pump[p].pc = "offer" /\ GiveUp(LateReport(p, "dispatching"))
     \/ pump[p].pc = "decline" /\ GiveUp(LateReport(p, "failed"))
  /\ \/ /\ pump[p].abort = "closed" \/ pump[p].phase \in R!Started
        /\ Leave(p, "stopped")
     \/ pump[p].abort = "lease" /\ Leave(p, "claim")
  /\ UNCHANGED <<registry, current, history, idempotency, storeClosed>> /\ Calm

(* bestEffortRelease(): whatever becomes of it, the run is over.           *)
AfterRelease(p) == pump' = [pump EXCEPT ![p] = [Fresh EXCEPT !.pc = pump[p].next]]

ReleaseLease(p) ==
  /\ pump[p].pc = "release"
  /\ AfterRelease(p)
  /\ \/ R!Release(pump[p].token) /\ UNCHANGED late
     \/ ~R!ValidLease(pump[p].token) /\ R!SweepOnly /\ UNCHANGED late
     \/ UNCHANGED registry /\ GiveUp(LateRelease(p))
  /\ UNCHANGED store /\ Calm

(* The broker handles a request its caller has given up on.                *)
HandleLate(request) ==
  /\ late' = late \ {request}
  /\ \/ request.op = "report" /\ R!Report(request.token, request.cursor, request.phase)
     \/ request.op = "release" /\ R!Release(request.token)
     \/ R!SweepOnly /\ IF request.op = "report"
                       THEN ~R!CanReport(request.token, request.cursor, request.phase)
                       ELSE ~R!ValidLease(request.token)
  /\ UNCHANGED <<store, pump>> /\ Calm

-----------------------------------------------------------------------------
Init ==
  /\ R!Init /\ S!Init
  /\ publishing = {}
  /\ pump = [p \in Pumps |-> Fresh]
  /\ late = {}
  /\ delivered = [cursor \in 1..MaxRevisions |-> 0]
  /\ outcomes = [cursor \in 1..MaxRevisions |-> {}]
  /\ reviewed = {}

Browser ==
  \/ \E request \in Requests :
       BeginPublish(request) \/ FinishPublish(request) \/ FailPublish(request)
  \/ PollStatus
  \/ \E cursor \in 1..revision : Review(cursor)
  \/ CloseService

Pump(p) ==
  \/ Claim(p) \/ ClaimRefused(p)
  \/ BeginWait(p) \/ TakeAnswer(p) \/ WaitTimesOut(p) \/ Acknowledge(p)
  \/ OfferToAdapter(p) \/ Decline(p)
  \/ \E phase \in R!ReportablePhases : AdapterReports(p, phase)
  \/ DeliverEnds(p) \/ ReportLost(p)
  \/ Beat(p) \/ BeatRefused(p) \/ Disconnect(p) \/ Unwind(p) \/ ReleaseLease(p)

Next ==
  \/ Browser
  \/ Tick
  \/ \E p \in Pumps : Pump(p)
  \/ \E request \in late : HandleLate(request)

Spec == Init /\ [][Next]_vars

-----------------------------------------------------------------------------
(* Properties.                                                             *)

(* Each published handoff is handed to an agent at most once, whatever is  *)
(* lost, late or repeated: claims that renew, waits that are answered      *)
(* again, pumps that start over (claim, wait, report).                     *)
AtMostOnce == \A cursor \in 1..MaxRevisions : delivered[cursor] <= 1

(* Two agents write at the same time only when the user has reviewed the   *)
(* earlier one's workspace and so declared its delivery over.              *)
WritersOverlapOnlyAfterReview ==
  \A p, q \in Pumps :
    (pump[p].writing /\ pump[q].writing /\ pump[p].cursor < pump[q].cursor) =>
      pump[p].cursor \in reviewed

(* The user can always open the gate: the store still knows the cursor of  *)
(* an unproved delivery, however long it was under way, so that            *)
(* resolveDelivery() passes both checks (archive, knownSummary, reserve).  *)
UnprovedIsReviewable ==
  blocked # NoKind => S!Known(dispatch.cursor) /\ R!CanResolve(dispatch.cursor)

(* What the session says of a dispatch is the agent's own word: completed  *)
(* only if its adapter reported so, failed only if the adapter reported so *)
(* or was never handed the handoff (endLease, report, sweep).              *)
OutcomeIsTheAgents ==
  dispatch # R!NoDispatch =>
    /\ dispatch.phase = "completed" => "completed" \in outcomes[dispatch.cursor]
    /\ dispatch.phase = "failed" =>
         "failed" \in outcomes[dispatch.cursor] \/ delivered[dispatch.cursor] = 0

(* The pump that holds the live lease is never left asleep while a handoff *)
(* that is still on offer is queued for it (claim's baseline, wait).       *)
HolderIsWoken ==
  \A p \in S!Waiting :
    ~(/\ R!Live /\ lease.token = pump[p].token
      /\ dispatch # R!NoDispatch /\ dispatch.phase = "queued"
      /\ current # S!NoHandoff)

(* A pump that left a delivery unproved stops and does not claim again.    *)
UnprovedPumpStopsStep ==
  \A p \in Pumps :
    /\ pump[p].pc = "lost" \/ pump[p].phase = "delivery-unknown"
    /\ pump'[p].pc = "release"
    => pump'[p].next = "stopped"

UnprovedPumpStops == [][UnprovedPumpStopsStep]_vars

-----------------------------------------------------------------------------
(* The inductive invariant the proofs rest on, conjunct by conjunct.       *)

LateRequest ==
  [op: {"report"}, token: 1..MaxTokens, cursor: 1..MaxRevisions,
   phase: R!ReportablePhases]
    \cup [op: {"release"}, token: 1..MaxTokens, cursor: {0}, phase: {"none"}]

PumpState ==
  [pc: Steps, next: {"claim", "stopped"}, token: 0..MaxTokens, after: 0..MaxRevisions,
   cursor: 0..MaxRevisions, phase: R!ReportablePhases \cup {"none"},
   abort: {"no", "lease", "closed"}, writing: BOOLEAN]

DeliveryFits ==
  /\ pump \in [Pumps -> PumpState]
  /\ late \subseteq LateRequest
  /\ delivered \in [1..MaxRevisions -> Nat]
  /\ outcomes \in [1..MaxRevisions -> SUBSET {"completed", "failed"}]
  /\ storeClosed = registryClosed

(* The pump has done with its handoffs, and this connector run is over.    *)
Done(p) ==
  pump[p].pc = "stopped" \/ (pump[p].pc = "release" /\ pump[p].next = "stopped")

Handling == {"ack", "offer", "decline", "deliver", "lost"}

(* A pump keeps to its own lease, whose end it cannot outlive unnoticed,   *)
(* and knows of no handoff that is still to come.                          *)
KeepsItsLease(p) ==
  /\ pump[p].token <= tokens /\ pump[p].after <= revision /\ pump[p].cursor <= revision
  /\ pump[p].pc \in InRun \cup {"release"} => pump[p].token > 0
  /\ pump[p].pc \in Handling => pump[p].cursor > 0
  /\ pump[p].pc \notin InRun => pump[p].abort = "no"
  /\ pump[p].writing => pump[p].pc = "deliver" /\ ~IsTerminal(pump[p].phase)
  /\ (R!Held /\ lease.token = pump[p].token) => lease.connector = p
  /\ pump[p].abort = "lease" => ~(R!Held /\ lease.token = pump[p].token)

PumpsKeepTheirLease == \A p \in Pumps : KeepsItsLease(p)

(* A client that waits is a pump that waits, for what follows its cursor.  *)
WaitsAreThePumps ==
  \A p \in Pumps :
    /\ p \in S!Waiting => pump[p].pc = "waiting" /\ waits[p].after = pump[p].after
    /\ waits[p].state = "handoff" => waits[p].cursor <= revision

(* The handoff that is dispatched, or whose delivery shut the gate, is the *)
(* newest; and its lease and the pump that holds it came before it.        *)
DispatchIsNewest ==
  /\ (R!Unsettled \/ blocked # NoKind) => dispatch.cursor = revision
  /\ R!Held => lease.baseline <= revision
  /\ R!Unsettled => lease.baseline < dispatch.cursor
  /\ \A p \in Pumps :
       (/\ R!Unsettled /\ dispatch.phase = "queued"
        /\ lease.token = pump[p].token /\ pump[p].pc \in {"wait", "waiting"}) =>
         pump[p].after < dispatch.cursor

(* While a delivery is open, the pump that holds its lease is making it or *)
(* will never make another.                                                *)
HasTheDispatch(p) ==
  /\ pump[p].pc \in {"deliver", "lost"}
  /\ pump[p].token = lease.token /\ pump[p].cursor = dispatch.cursor

DeliveriesAreCounted ==
  /\ \A cursor \in 1..MaxRevisions :
       /\ delivered[cursor] <= 1
       /\ delivered[cursor] > 0 => cursor <= revision
       /\ outcomes[cursor] # {} => delivered[cursor] > 0
  /\ (R!Unsettled /\ dispatch.phase = "queued") => delivered[dispatch.cursor] = 0
  /\ (R!Unsettled /\ delivered[dispatch.cursor] > 0) =>
       Done(lease.connector) \/ HasTheDispatch(lease.connector)
  /\ \A p \in Pumps : pump[p].pc = "deliver" =>
       /\ pump[p].phase # "none"
       /\ delivered[pump[p].cursor] > 0
       /\ (R!Unsettled /\ dispatch.cursor = pump[p].cursor) => ~IsTerminal(pump[p].phase)
       /\ \A q \in Pumps :
            (q # p /\ pump[q].pc = "deliver") => pump[q].cursor # pump[p].cursor

(* A late report of an outcome is the agent's, or one of a handoff that    *)
(* nobody was handed or will be.                                           *)
IsSound(request) ==
  /\ request.token <= tokens /\ request.cursor <= revision
  /\ request.phase = "completed" => "completed" \in outcomes[request.cursor]
  /\ (/\ request.phase = "failed"
      /\ R!Unsettled /\ lease.token = request.token /\ dispatch.cursor = request.cursor) =>
       \/ "failed" \in outcomes[request.cursor]
       \/ delivered[request.cursor] = 0 /\ Done(lease.connector)

LateReportsAreSound == \A request \in late : IsSound(request)

(* The workspace an agent may still change is that of the newest delivery, *)
(* open or unproved behind the gate, or of one that was reviewed.          *)
WritersAreWatched ==
  \A p \in Pumps : pump[p].writing =>
    /\ outcomes[pump[p].cursor] = {}
    /\ ~registryClosed =>
         /\ dispatch # R!NoDispatch
         /\ pump[p].cursor <= dispatch.cursor
         /\ pump[p].cursor \notin reviewed =>
              /\ pump[p].cursor = dispatch.cursor
              /\ dispatch.phase \in R!Started
                   \/ (dispatch.phase = "delivery-unknown" /\ blocked # NoKind)
         /\ pump[p].cursor = dispatch.cursor =>
              dispatch.phase \in R!Started \cup {"delivery-unknown"}

DeliveryInvariant ==
  /\ R!RegistryInvariant /\ S!StoreInvariant
  /\ DeliveryFits
  /\ PumpsKeepTheirLease
  /\ WaitsAreThePumps
  /\ DispatchIsNewest
  /\ DeliveriesAreCounted
  /\ LateReportsAreSound
  /\ WritersAreWatched
  /\ WritersOverlapOnlyAfterReview
  /\ OutcomeIsTheAgents
=============================================================================
