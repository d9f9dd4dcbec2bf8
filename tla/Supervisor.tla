----------------------------- MODULE Supervisor -----------------------------
(***************************************************************************)
(* The supervisor of the managed agent: the browser's connect, disconnect  *)
(* and cancel requests, which it remembers and runs one after another, the *)
(* connection it owns, the status it publishes and the results it keeps.   *)
(* Code: packages/bridge/src/supervisor/supervisor.ts and grant-store.ts.  *)
(*                                                                         *)
(* An operation waits in the chain of serialize(); the head of the queue   *)
(* is the one that runs and `step` tells what it waits for.  The adapter   *)
(* and the pump of the connection are in ManagedTurn, which calls the      *)
(* On... operators below where the code calls onEvent().                   *)
(* Of the status, errors, models offered, checks, files, timings and the   *)
(* delivery axes are left out.                                             *)
(***************************************************************************)
EXTENDS Naturals, Sequences, FiniteSets, SequencesExt

CONSTANTS
  Requests,     \* request ids of the browser
  Asked,        \* what each of them asks for: a record [kind, revision]
  StartUp,      \* the connect of start-up, which nobody asked for
  Closing,      \* the stop that dispose() puts in the chain
  MaxRecords,   \* request records kept (64)
  MaxResults,   \* results kept (16)
  MaxQueue,     \* bound: operations accepted and not ended
  MaxRevisions  \* bound: handoffs published in a session

VARIABLES
  status,       \* what the browser is shown
  grant,        \* the project's grant on disk
  connected,    \* connection # undefined
  aborted,      \* the controller of the latest connection was aborted
  disposed,
  queue,        \* operations accepted and not ended, in their order
  step,         \* what the first of them waits for
  records,      \* requests remembered, the oldest first
  results,      \* revisions whose result is kept, the oldest first
  expired,      \* history: revisions whose result was removed for its age
  remembered    \* history: every result that was stored, the oldest first

memory     == <<results, expired, remembered>>
supervisor == <<status, grant, connected, aborted, disposed, queue, step,
                records, memory>>

States == {"disconnected", "awaiting-consent", "connecting", "ready", "busy",
           "degraded", "error", "disconnecting"}
Phases == {"none", "preparing", "running", "auditing", "validating",
           "applying", "completed", "review-required", "failed", "cancelled",
           "cleanup-warning"}
Kinds  == {"connect", "switch", "disconnect", "revoke", "cancel"}

(* A connect names no model, a switch names one that is offered.           *)
Status == [state: States, mode: {"inbox", "managed"},
           model: {"default", "chosen"}, revision: 0 .. MaxRevisions,
           phase: Phases]

KindOf(operation) ==
  CASE operation = StartUp -> "connect"
    [] operation = Closing -> "dispose"
    [] OTHER               -> Asked[operation].kind

-----------------------------------------------------------------------------
(* What the adapter and the pump tell the supervisor.                      *)

TaskPhase(revision) ==
  IF status.revision = revision THEN status.phase ELSE "preparing"

OnPhase(revision, phase) ==
  status' = [status EXCEPT !.state = "busy", !.revision = revision,
                           !.phase = phase]

(* As it would be if the failure only asked for the abort.                 *)
BugOnFailure(revision, fatal) ==
  /\ status' = [status EXCEPT !.revision = revision, !.phase = "failed"]
  /\ aborted' = (aborted \/ fatal)

(* A failure of the protocol or of the isolation ends the connection.      *)
OnFailure(revision, fatal) ==
  /\ status' = [status EXCEPT
       !.revision = revision, !.phase = "failed",
       !.state = IF fatal THEN "degraded" ELSE @,
       !.mode  = IF fatal THEN "inbox" ELSE @]
  /\ aborted' = (aborted \/ fatal)

(* As it would be if the connection went on after a failed cleanup.        *)
BugCleanupWarning(revision) ==
  /\ status' = [status EXCEPT !.revision = revision, !.phase = "cleanup-warning"]
  /\ UNCHANGED aborted

OnCleanupWarning(revision) ==
  /\ status' = [status EXCEPT !.state = "degraded", !.mode = "inbox",
                              !.revision = revision, !.phase = "cleanup-warning"]
  /\ aborted' = TRUE

(* As it would be if the oldest were never dropped.                        *)
BugNewest(s, n) == s

Newest(s, n) == IF Len(s) > n THEN SubSeq(s, Len(s) - n + 1, Len(s)) ELSE s

(* rememberResult(): a result that is there keeps its place.               *)
Remember(revision) ==
  IF revision \in Range(results) THEN UNCHANGED memory
  ELSE /\ results' = Newest(Append(results, revision), MaxResults)
       /\ remembered' = Append(remembered, revision)
       /\ UNCHANGED expired

OnResult(revision, written) ==
  /\ Remember(revision)
  /\ status' = [status EXCEPT !.revision = revision,
                  !.phase = IF written THEN "completed" ELSE "review-required"]

OnReady == status' = [status EXCEPT !.state = "ready", !.mode = "managed"]

(* The report of a phase of the delivery has been accepted.                *)
OnDispatch(revision, phase) ==
  status' = [status EXCEPT
    !.state = IF phase \in {"completed", "failed"} THEN "ready" ELSE "busy",
    !.revision = revision,
    !.phase = CASE phase = "working" -> "running"
                [] phase \in {"failed", "delivery-unknown"} -> "failed"
                [] phase = "completed" ->
                     IF status.revision = revision THEN status.phase
                     ELSE "completed"
                [] OTHER -> TaskPhase(revision)]

-----------------------------------------------------------------------------
(* The chain of operations.                                                *)

Operation == Head(queue)

Runs(kind, at) == step = at /\ queue # <<>> /\ KindOf(Operation) = kind

EndOperation == queue' = Tail(queue) /\ step' = "start"

(* As it would be if the newest record made room for itself.               *)
BugRemembered(record) ==
  IF Len(records) = MaxRecords THEN records ELSE Append(records, record)

(* connect(), disconnect() and cancel() until serialize(): a request that  *)
(* is remembered gets the promise it has, which changes nothing.           *)
Remembered(record) == Newest(Append(records, record), MaxRecords)

Accept(request) ==
  /\ ~disposed /\ Len(queue) < MaxQueue
  /\ request \notin Range(records)
  /\ records' = Remembered(request)
  /\ queue' = Append(queue, request)
  /\ UNCHANGED <<status, grant, connected, aborted, disposed, step, memory>>

Dispose ==
  /\ ~disposed /\ Len(queue) < MaxQueue
  /\ disposed' = TRUE
  /\ queue' = Append(queue, Closing)
  /\ UNCHANGED <<status, grant, connected, aborted, step, records, memory>>

(* As it would be if the run were only waited for.                         *)
BugStopConnection ==
  /\ connected' = FALSE
  /\ step' = "stopping"
  /\ UNCHANGED aborted

(* stopConnection() up to its waits: for the pump, the run, the execution. *)
StopConnection ==
  /\ connected' = FALSE
  /\ aborted' = (aborted \/ connected)
  /\ step' = "stopping"

Wanted(kind) ==
  IF kind = "switch" THEN "chosen" ELSE "default"

(* connectInternal() that has nothing to do: the request's own signal is   *)
(* aborted, the session is over, the connection is there already or busy.  *)
ConnectReturns ==
  /\ \E kind \in {"connect", "switch"} :
       /\ Runs(kind, "start")
       /\ \/ Operation # StartUp
          \/ disposed
          \/ /\ connected
             /\ \/ kind = "connect" \/ status.model = Wanted(kind)
                \/ status.state # "ready"
  /\ EndOperation
  /\ UNCHANGED <<status, grant, connected, aborted, disposed, records, memory>>

(* Another model is wanted: the healthy connection is stopped first.       *)
ConnectSwitches ==
  /\ Runs("switch", "start") /\ ~disposed
  /\ connected /\ status.model # "chosen" /\ status.state = "ready"
  /\ status' = [status EXCEPT !.state = "disconnecting", !.mode = "inbox"]
  /\ StopConnection
  /\ UNCHANGED <<grant, disposed, queue, records, memory>>

(* The grant decides whether the adapter is opened.  Nobody passes         *)
(* confirmManagedAccess, so a missing grant is not asked for.              *)
ConnectAuthorizes(stopped) ==
  /\ \E kind \in {"connect", "switch"} :
       \/ Runs(kind, "start") /\ ~disposed /\ ~connected
       \/ Runs(kind, "stopping") /\ stopped
  /\ \/ /\ grant = "valid"
        /\ status' = [status EXCEPT !.state = "connecting", !.mode = "inbox"]
        /\ aborted' = FALSE
        /\ step' = "opening"
        /\ UNCHANGED queue
     \/ /\ grant = "missing"
        /\ status' = [status EXCEPT !.state = "awaiting-consent", !.mode = "inbox"]
        /\ EndOperation /\ UNCHANGED aborted
     \/ /\ grant = "invalid"
        /\ status' = [status EXCEPT !.state = "error"]
        /\ EndOperation /\ UNCHANGED aborted
  /\ UNCHANGED <<grant, connected, disposed, records, memory>>

(* The catch of connectInternal(): the adapter or the touch of the grant   *)
(* has failed.                                                             *)
ConnectFails ==
  /\ aborted' = TRUE
  /\ status' = [status EXCEPT !.state = "degraded", !.mode = "inbox"]
  /\ EndOperation
  /\ UNCHANGED <<grant, connected, disposed, records, memory>>

TouchFails == \E kind \in {"connect", "switch"} : Runs(kind, "touching") /\ ConnectFails

(* The grant is touched, the pump is started and the connection is there.  *)
ConnectEnds ==
  /\ \E kind \in {"connect", "switch"} :
       /\ Runs(kind, "touching")
       /\ status' = [status EXCEPT !.model = Wanted(kind)]
  /\ grant = "valid"
  /\ connected' = TRUE
  /\ EndOperation
  /\ UNCHANGED <<grant, aborted, disposed, records, memory>>

(* disconnect() publishes first and then stops.                            *)
DisconnectBegins ==
  /\ queue # <<>> /\ step = "start" /\ KindOf(Operation) \in {"disconnect", "revoke"}
  /\ status' = [status EXCEPT !.state = "disconnecting"]
  /\ StopConnection
  /\ UNCHANGED <<grant, disposed, queue, records, memory>>

DisconnectEnds ==
  /\ queue # <<>> /\ step = "stopping" /\ KindOf(Operation) \in {"disconnect", "revoke"}
  /\ grant' = IF KindOf(Operation) = "revoke" THEN "missing" ELSE grant
  /\ status' = [status EXCEPT !.state = "disconnected", !.mode = "inbox",
                              !.model = "default"]
  /\ EndOperation
  /\ UNCHANGED <<connected, aborted, disposed, records, memory>>

(* The private home or the grant cannot be removed: the request fails, and *)
(* the status is not published.                                            *)
RevokeFails ==
  /\ Runs("revoke", "stopping")
  /\ EndOperation
  /\ UNCHANGED <<status, grant, connected, aborted, disposed, records, memory>>

(* cancel() compares the revision with the task shown, whatever its phase. *)
CancelRefused ==
  /\ Runs("cancel", "start") /\ status.revision # Asked[Operation].revision
  /\ EndOperation
  /\ UNCHANGED <<status, grant, connected, aborted, disposed, records, memory>>

CancelBegins ==
  /\ Runs("cancel", "start") /\ status.revision = Asked[Operation].revision
  /\ StopConnection
  /\ UNCHANGED <<status, grant, disposed, queue, records, memory>>

CancelEnds ==
  /\ Runs("cancel", "stopping")
  /\ status' = [status EXCEPT !.state = "disconnected", !.mode = "inbox",
                  !.revision = Asked[Operation].revision, !.phase = "cancelled"]
  /\ EndOperation
  /\ UNCHANGED <<grant, connected, aborted, disposed, records, memory>>

DisposeBegins ==
  /\ Runs("dispose", "start")
  /\ StopConnection
  /\ UNCHANGED <<status, grant, disposed, queue, records, memory>>

DisposeEnds ==
  /\ Runs("dispose", "stopping")
  /\ EndOperation
  /\ records' = <<>> /\ results' = <<>> /\ expired' = {} /\ remembered' = <<>>
  /\ UNCHANGED <<status, grant, connected, aborted, disposed>>

(* A stop has nothing more to wait for when the run of the pump is over.   *)
StopEnds == DisconnectEnds \/ CancelEnds \/ DisposeEnds

(* The run of the pump ends: its catch publishes unless the end was asked  *)
(* for, its finally gives the connection up.                               *)
RunSettles ==
  /\ connected' = FALSE
  /\ status' = IF aborted \/ disposed THEN status
               ELSE [status EXCEPT !.state = "degraded", !.mode = "inbox"]
  /\ UNCHANGED <<grant, aborted, disposed, queue, step, records, memory>>

(* A result is asked for ten minutes after its audit: it is removed.       *)
GetResult(i) ==
  /\ results' = RemoveAt(results, i)
  /\ expired' = expired \cup {results[i]}
  /\ UNCHANGED <<status, grant, connected, aborted, disposed, queue, step, records,
                 remembered>>

(* `spotpatch init` writes a grant.                                        *)
GrantGiven ==
  /\ grant # "valid" /\ grant' = "valid"
  /\ UNCHANGED <<status, connected, aborted, disposed, queue, step, records,
                 memory>>

(* createExternalAgentSupervisor(): connects by itself with a valid grant. *)
Started(found) ==
  /\ status' = [state |-> "disconnected", mode |-> "inbox", model |-> "default",
                revision |-> 0, phase |-> "none"]
  /\ connected' = FALSE /\ aborted' = FALSE /\ disposed' = FALSE
  /\ queue' = IF found = "valid" THEN <<StartUp>> ELSE <<>>
  /\ step' = "start" /\ records' = <<>>
  /\ results' = <<>> /\ expired' = {} /\ remembered' = <<>>

InitSupervisor ==
  /\ grant \in {"valid", "missing", "invalid"}
  /\ status = [state |-> "disconnected", mode |-> "inbox", model |-> "default",
               revision |-> 0, phase |-> "none"]
  /\ connected = FALSE /\ aborted = FALSE /\ disposed = FALSE
  /\ queue = IF grant = "valid" THEN <<StartUp>> ELSE <<>>
  /\ step = "start" /\ records = <<>>
  /\ results = <<>> /\ expired = {} /\ remembered = <<>>
=============================================================================
