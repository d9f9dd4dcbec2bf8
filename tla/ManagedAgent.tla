---------------------------- MODULE ManagedAgent ----------------------------
(***************************************************************************)
(* The managed agent of a development session: the supervisor's operations *)
(* (Supervisor) and the connection they start and stop (ManagedTurn), over *)
(* restarts and crashes of the development server, of which only the grant,*)
(* the journal and Codex's own threads are left.                           *)
(***************************************************************************)
EXTENDS ManagedTurn

CONSTANT MaxRestarts   \* bound: starts of the development server after the first

VARIABLES
  restarts,
  unrevoked   \* history: a revocation has failed, and nothing was published since

vars == <<supervisor, connection, disk, project, restarts, unrevoked>>

ASSUME ManagedAssumption ==
  /\ MaxRecords \in Nat \ {0} /\ MaxResults \in Nat \ {0}
  /\ MaxQueue \in 1 .. MaxRecords
  /\ {MaxRevisions, MaxJournal, MaxRestarts} \subseteq Nat
  /\ \A r \in Requests : Asked[r].kind \in Kinds
  /\ NoThread \notin Threads
  /\ StartUp \notin Requests /\ Closing \notin Requests /\ StartUp # Closing

-----------------------------------------------------------------------------
Quiet == UNCHANGED <<connection, disk, project>>

(* As it would be if stopConnection() did not wait for the run.            *)
BugStopped == TRUE

(* A stopped connection is one whose run is over.                          *)
Stopped == run = "none"

(* disconnect with revoke also removes the private home of the app server. *)
Revokes ==
  /\ Runs("revoke", "stopping")
  /\ threads' = {} /\ strays' = {}
  /\ UNCHANGED <<journal, connection, project>>

OperationStep ==
  \/ ConnectReturns /\ Quiet
  \/ ConnectSwitches /\ Quiet
  \/ ConnectAuthorizes(Stopped) /\ Quiet
  \/ DisconnectBegins /\ Quiet
  \/ Stopped /\ StopEnds /\ IF Runs("revoke", "stopping") THEN Revokes ELSE Quiet
  \/ CancelRefused /\ Quiet
  \/ CancelBegins /\ Quiet
  \/ DisposeBegins /\ Quiet
  \/ OpenServer
  \/ \E t \in Threads : RecoverThread(t)
  \/ OpenEnds
  \/ OpenFails
  \/ Connected
  \/ Untouched

FailedRevocation ==
  /\ Stopped /\ RevokeFails /\ (Quiet \/ Revokes)
  /\ unrevoked' = TRUE /\ UNCHANGED restarts

TurnStep ==
  \/ Prepared
  \/ \E accepted \in BOOLEAN : PrepareFails(accepted)
  \/ ThreadStarts
  \/ ThreadIsLost
  \/ \E fatal, accepted \in BOOLEAN : ThreadRefused(fatal, accepted)
  \/ Journaled
  \/ \E accepted \in BOOLEAN : JournalFails(accepted)
  \/ Checked
  \/ \E fatal, accepted \in BOOLEAN : ChecksFail(fatal, accepted)
  \/ TurnAnswered
  \/ TurnRejected
  \/ \E accepted \in BOOLEAN : TurnUnproved(accepted)
  \/ TurnWorks
  \/ TurnInterrupted
  \/ \E accepted \in BOOLEAN : TurnFails(accepted)
  \/ TurnCompletes
  \/ Audited
  \/ Passed
  \/ NeedsReview
  \/ Applied
  \/ \E accepted \in BOOLEAN : ResultIsUnreadable(accepted)
  \/ \E accepted \in BOOLEAN : CompletionFails(accepted)
  \/ Settled
  \/ ThreadDeleted
  \/ ThreadForgotten
  \/ CleanupSkipped
  \/ CleanupFails
  \/ \E accepted \in BOOLEAN : ReportEnds(accepted)

(* Bound: each restart leaves one handoff less to take.                    *)
PumpStep ==
  \/ Claim
  \/ LeaseLost
  \/ (published + restarts < MaxRevisions) /\ (Skip \/ Deliver \/ DeliverToNobody)
  \/ RunEnds
  \/ ServerFails

(* The development server ends, by dispose() or by a crash at any time,    *)
(* and is started again.                                                   *)
Restart ==
  /\ restarts < MaxRestarts
  /\ restarts' = restarts + 1
  /\ Started(grant)
  /\ strays' = strays \cup (threads \ journal)
  /\ run' = "none" /\ leaseLost' = FALSE /\ published' = 0 /\ closed' = TRUE
  /\ turn' = NoTurn /\ applied' = {} /\ unreadable' = {}
  /\ unrevoked' = FALSE
  /\ UNCHANGED <<grant, threads, journal>>

Init == InitSupervisor /\ InitTurn /\ restarts = 0 /\ unrevoked = FALSE

Goes(steps) ==
  steps /\ unrevoked' = (unrevoked /\ status' = status) /\ UNCHANGED restarts

Steps ==
  \/ \E r \in Requests : Accept(r) /\ Quiet
  \/ Dispose /\ Quiet
  \/ GrantGiven /\ Quiet
  \/ (\E i \in DOMAIN results : GetResult(i)) /\ Quiet
  \/ OperationStep
  \/ TurnStep
  \/ PumpStep

Next ==
  \/ Restart
  \/ Goes(Steps)
  \/ FailedRevocation

Spec == Init /\ [][Next]_vars

(* Every request to the app server, every git command and every check has  *)
(* a timeout, and an aborted run leaves all its waits: an operation that   *)
(* has begun goes on, and so does a run that was told to stop.  Nothing is *)
(* assumed of the browser, the broker or Codex's answers.                  *)
FairSpec ==
  /\ Spec
  /\ WF_vars(step # "start" /\ (Goes(OperationStep) \/ FailedRevocation))
  /\ WF_vars(aborted /\ Goes(TurnStep \/ RunEnds))

-----------------------------------------------------------------------------
Runnings == {"none", "claiming", "waiting", "delivering", "reporting", "ending"}

TypeOK ==
  /\ status \in Status
  /\ grant \in {"valid", "missing", "invalid"}
  /\ {connected, aborted, disposed, unrevoked} \subseteq BOOLEAN
  /\ queue \in Seq(Requests \cup {StartUp, Closing}) /\ Len(queue) <= MaxQueue + 2
  /\ step \in {"start", "stopping", "opening", "touching"}
  /\ records \in Seq(Requests) /\ Len(records) <= MaxRecords
  /\ results \in Seq(1 .. MaxRevisions) /\ Len(results) <= MaxResults
  /\ expired \subseteq 1 .. MaxRevisions /\ unreadable \subseteq applied
  /\ remembered \in Seq(1 .. MaxRevisions)
  /\ run \in Runnings
  /\ leaseLost \in BOOLEAN /\ closed \in BOOLEAN
  /\ turn \in Turn
  /\ threads \subseteq Threads /\ journal \subseteq Threads /\ strays \subseteq Threads
  /\ Cardinality(journal) <= MaxJournal
  /\ applied \subseteq 1 .. published

(* A request whose answer the browser has lost and that it sends again is  *)
(* not run twice at a time, as long as fewer operations wait than records  *)
(* are kept (idempotent(), supervisor.ts).                                 *)
RetryRunsOnce ==
  \A r \in Requests :
    Cardinality({i \in DOMAIN queue : queue[i] = r}) <= 1

(* Between operations, a status that shows a working managed agent is that *)
(* of a connection: whatever ended it was told, once, and last - but for a *)
(* revocation that fails, after which disconnect() publishes nothing       *)
(* (supervisor.ts).                                                        *)
StatusIsTrue ==
  queue = <<>> /\ ~disposed /\ ~unrevoked
    /\ (status.mode = "managed" \/ status.state \in {"ready", "busy"})
  => connected

(* Codex works only in a thread that is written down for deletion, and     *)
(* only when those of earlier turns, connections and crashed servers are   *)
(* gone (recoverThreadCleanup(), deliver() in managed-adapter.ts).         *)
CleanBeforeWork ==
  At({"starting", "dispatched", "working", "auditing", "validating",
      "applying", "settling"})
  => journal = {turn.thread}

(* A thread with the user's code in it is never without a record, but for  *)
(* the moment in which it is created and for the strays, which a crash, an *)
(* unreadable answer or a failed write in that moment has left.  No order  *)
(* of deletions, failures and restarts loses the record of a thread        *)
(* (deliver, #deleteThread, #recoverThreadCleanup in managed-adapter.ts).  *)
ThreadsAreKnown ==
  threads \subseteq journal \cup strays
                      \cup (IF At({"journaling"}) THEN {turn.thread} ELSE {})

(* The result of a revision was stored, and is kept while it is among the  *)
(* last of those.                                                          *)
Known(r) ==
  \E i \in DOMAIN remembered :
    /\ remembered[i] = r
    /\ i > Len(remembered) - MaxResults => r \in Range(results)

(* The diff of an applied change can be seen afterwards, also when the     *)
(* connection was stopped or lost while it was applied, or took other      *)
(* tasks: until its ten minutes are over, or as many newer results were    *)
(* stored as are kept.  The one exception is a result that could not be    *)
(* read where it should have been stored (rememberResult(), getResult()).  *)
AppliedIsRemembered ==
  ~disposed => \A r \in applied \ (expired \cup unreadable) : Known(r)

(* Once an operation that stops the connection is over and no other waits, *)
(* nothing of that connection changes what is shown, the project or Codex's*)
(* threads any more, no result is stored and none is lost but to its age   *)
(* (stopConnection()).                                                     *)
StoppedIsSilent ==
  [][queue = <<>> /\ ~connected /\ restarts' = restarts
       => /\ UNCHANGED <<status, applied, threads, remembered>>
          /\ Range(results) \ expired' \subseteq Range(results')]_vars

(* An operation the supervisor has begun ends: no stop waits for ever for  *)
(* a turn, and no connect for an app server, so the browser's requests     *)
(* behind it are reached (serialize(), stopConnection()).                  *)
OperationsEnd == (step # "start") ~> (step = "start")

(* What the technical proposal promises (docs/.../10, section 10.3): a     *)
(* cancelled task never reaches the project.                               *)
CancelledIsNotApplied ==
  status.phase = "cancelled" => status.revision \notin applied

-----------------------------------------------------------------------------
(* The inductive invariant the proofs rest on, part by part.               *)
Operations == Requests \cup {StartUp, Closing}

(* What waits was remembered in the order in which it was accepted, so the *)
(* records that are dropped are of operations that are over.               *)
QueueFits ==
  /\ queue \in Seq(Operations) /\ Len(queue) <= MaxQueue + IF disposed THEN 1 ELSE 0
  /\ records \in Seq(Requests) /\ Len(records) <= MaxRecords
  /\ disposed \in BOOLEAN /\ step \in {"start", "stopping", "opening", "touching"}
  /\ \A i, j \in DOMAIN queue : queue[i] = queue[j] => i = j
  /\ \A i \in DOMAIN queue : queue[i] = Closing => disposed
  /\ queue = <<>> => step = "start"
  /\ ~disposed =>
       \A i \in DOMAIN queue :
         LET behind == Len(queue) - i
         IN  queue[i] # StartUp =>
               behind < Len(records) /\ queue[i] = records[Len(records) - behind]

(* A run of the pump outlives its connection only while an operation waits *)
(* for its end, and a delivery is the pump's.                              *)
RunFits ==
  /\ run \in Runnings
  /\ turn \in Turn /\ (turn.stage # "none" <=> run = "delivering")
  /\ leaseLost \in BOOLEAN /\ closed \in BOOLEAN
  /\ connected \in BOOLEAN /\ aborted \in BOOLEAN
  /\ connected => step = "start"
  /\ ~connected /\ step # "stopping" => run = "none"
  /\ step \in {"opening", "touching"} => ~aborted

Threadless == {"none", "preparing", "threading"}
Recorded == {"checking", "starting", "dispatched", "working", "auditing", "validating",
             "applying", "settling"}

(* The journal is empty before a turn and holds its thread in it; what is  *)
(* left in it by one that was not cleaned up comes with a connection that  *)
(* takes no other.                                                         *)
ThreadsFit ==
  /\ threads \subseteq Threads /\ journal \subseteq Threads /\ strays \subseteq Threads
  /\ ~At(Threadless) => turn.thread \in Threads
  /\ \/ step = "touching"
     \/ run \in {"claiming", "waiting", "reporting"} /\ ~aborted /\ ~closed
     \/ At({"preparing", "threading", "journaling"})
     => journal = {}
  /\ At(Recorded) => journal = {turn.thread}
  /\ At({"cleaning", "forgetting"}) => journal \subseteq {turn.thread}
  /\ At({"forgetting"}) => turn.thread \notin threads
  /\ IsFiniteSet(journal) /\ Cardinality(journal) <= MaxJournal
  /\ ThreadsAreKnown

(* What is kept of the results was stored, and lies as far from the end of *)
(* what was stored as from its own, or further.                            *)
MemoryFits ==
  /\ results \in Seq(1 .. MaxRevisions) /\ Len(results) <= MaxResults
  /\ remembered \in Seq(1 .. MaxRevisions) /\ expired \subseteq 1 .. MaxRevisions
  /\ Range(results) \subseteq Range(remembered)
  /\ \A i \in DOMAIN results, j \in DOMAIN remembered :
       remembered[j] = results[i] => Len(remembered) - j >= Len(results) - i

(* The delivery in work is of the latest revision.                         *)
ResultsFit ==
  /\ published \in 0 .. MaxRevisions /\ applied \subseteq 1 .. published
  /\ unreadable \subseteq applied
  /\ turn.stage # "none" => turn.revision = published /\ published >= 1
  /\ run = "reporting" => published >= 1
  /\ MemoryFits /\ AppliedIsRemembered

ShowsWork == status.mode = "managed" \/ status.state \in {"ready", "busy"}

(* A connection that has failed, and none at all, are not shown as one     *)
(* that works; a grant that was never valid has opened none.               *)
StatusFits ==
  /\ status \in Status /\ grant \in {"valid", "missing", "invalid"} /\ unrevoked \in BOOLEAN
  /\ Runs("cancel", "stopping") => Asked[Operation].revision \in 0 .. MaxRevisions
  /\ ~connected /\ step # "stopping" /\ ~disposed /\ ~unrevoked => ~ShowsWork
  /\ connected /\ aborted => At({"none", "cleaning", "forgetting"}) /\ ~ShowsWork
  /\ grant = "invalid" =>
       ~connected /\ run = "none" /\ step \notin {"opening", "touching"} /\ ~ShowsWork

ManagedInvariant ==
  QueueFits /\ RunFits /\ ThreadsFit /\ ResultsFit /\ StatusFits /\ restarts \in Nat
=============================================================================
