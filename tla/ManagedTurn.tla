---------------------------- MODULE ManagedTurn ----------------------------
(***************************************************************************)
(* One connection of the supervisor: the adapter that drives Codex's app   *)
(* server, the journal of threads it has to delete, the isolated execution *)
(* that audits, validates and applies what Codex wrote, and the run of the *)
(* event pump that feeds it (HandoffDelivery has the pump's protocol).     *)
(* Code: packages/bridge/src/active/codex/managed-adapter.ts and           *)
(* protocol.ts, supervisor/thread-cleanup-journal.ts,                      *)
(* packages/agent/src/managed/managed-execution.ts.                        *)
(*                                                                         *)
(* A step lasts from one await to the next; those between which nothing    *)
(* that is modelled can change are one step.  What Codex answers and       *)
(* whether a call of the broker is accepted is open.                       *)
(***************************************************************************)
EXTENDS Supervisor

CONSTANTS
  Threads,      \* ids of Codex threads
  NoThread,     \* undefined
  MaxJournal    \* threads the journal holds (32)

VARIABLES
  run,          \* where the run of the pump is
  leaseLost,    \* its lease was lost during a delivery or the report of its end
  published,    \* the last revision taken
  closed,       \* the adapter is closed or its app server is gone
  turn,         \* the delivery that is in deliver()
  threads,      \* threads stored in the private home of the app server
  journal,      \* the threads written down for deletion
  strays,       \* threads that no journal ever held
  applied,      \* revisions whose change was written to the project
  unreadable    \* history: those whose result could not be remembered

connection == <<run, leaseLost, published, closed, turn>>
disk       == <<threads, journal, strays>>
project    == <<applied, unreadable>>

Stages == {"none", "preparing", "threading", "journaling", "checking",
           "starting", "dispatched", "working", "auditing", "validating",
           "applying", "settling", "cleaning", "forgetting"}

(* How a delivery ends: the broker has accepted completed or failed, or    *)
(* that it is unproved; or deliver() returns or throws without either.     *)
Outcomes == {"none", "terminal", "unknown", "returned", "thrown"}

Turn   == [stage: Stages, revision: 0 .. MaxRevisions,
           thread: Threads \cup {NoThread}, outcome: Outcomes]
NoTurn == [stage |-> "none", revision |-> 0, thread |-> NoThread,
           outcome |-> "none"]

At(stages) == turn.stage \in stages
Go(stage)  == turn' = [turn EXCEPT !.stage = stage]

Cleans(outcome) == turn' = [turn EXCEPT !.stage = "cleaning", !.outcome = outcome]

(* The signal of the delivery: of the connection or of its lease.          *)
Signalled == aborted \/ leaseLost

(* A report is accepted only while nothing has signalled.                  *)
Outcome(accepted, otherwise) ==
  IF accepted /\ ~Signalled THEN "terminal" ELSE otherwise

Outside == <<grant, connected, disposed, queue, step, records>>

-----------------------------------------------------------------------------
(* connect(): the app server is started, the threads of earlier runs are   *)
(* deleted, and then only is the adapter handed out.                       *)

Opening == \E kind \in {"connect", "switch"} : Runs(kind, "opening")

OpenServer ==
  /\ Opening /\ closed
  /\ closed' = FALSE
  /\ UNCHANGED <<supervisor, run, leaseLost, published, turn, disk, project>>

(* A thread that is missing already counts as deleted.                     *)
RecoverThread(t) ==
  /\ Opening /\ ~closed /\ t \in journal
  /\ threads' = threads \ {t}
  /\ journal' = journal \ {t}
  /\ UNCHANGED <<supervisor, connection, strays, project>>

Recovered == journal = {}

OpenEnds ==
  /\ Opening /\ ~closed /\ Recovered
  /\ step' = "touching"
  /\ UNCHANGED <<status, grant, connected, aborted, disposed, queue, records,
                 memory, connection, disk, project>>

(* The handshake, the account, the models or a deletion has failed.        *)
OpenFails ==
  /\ Opening
  /\ closed' = TRUE
  /\ ConnectFails
  /\ UNCHANGED <<run, leaseLost, published, turn, disk, project>>

Connected ==
  /\ ConnectEnds
  /\ run' = "claiming"
  /\ UNCHANGED <<leaseLost, published, closed, turn, disk, project>>

(* The abort reaches nobody: connect() no longer listens and no pump owns  *)
(* the adapter, so its app server goes on without an owner.                *)
Untouched ==
  /\ TouchFails
  /\ closed' = TRUE
  /\ UNCHANGED <<run, leaseLost, published, turn, disk, project>>

-----------------------------------------------------------------------------
(* The run of the pump around the deliveries.                              *)

Claim ==
  /\ run = "claiming" /\ ~aborted
  /\ run' = "waiting"
  /\ OnReady
  /\ UNCHANGED <<Outside, aborted, memory, leaseLost, published, closed, turn, disk, project>>

LeaseLost ==
  /\ \/ run = "waiting" /\ run' = "claiming" /\ UNCHANGED leaseLost
     \/ /\ run \in {"delivering", "reporting"} /\ ~leaseLost
        /\ leaseLost' = TRUE /\ UNCHANGED run
  /\ UNCHANGED <<supervisor, published, closed, turn, disk, project>>

Take == run = "waiting" /\ ~aborted /\ published < MaxRevisions
          /\ published' = published + 1

(* The receipt was not recorded: failed without a delivery.                *)
Skip ==
  /\ Take
  /\ OnDispatch(published + 1, "failed")
  /\ UNCHANGED <<Outside, aborted, memory, run, leaseLost, closed, turn, disk, project>>

Deliver ==
  /\ Take /\ ~closed
  /\ OnPhase(published + 1, "preparing")
  /\ turn' = [NoTurn EXCEPT !.stage = "preparing", !.revision = published + 1]
  /\ run' = "delivering"
  /\ UNCHANGED <<Outside, aborted, memory, leaseLost, closed, disk, project>>

(* The app server is gone and deliver() throws.                            *)
DeliverToNobody ==
  /\ Take /\ closed
  /\ OnDispatch(published + 1, "dispatching")
  /\ run' = "reporting"
  /\ UNCHANGED <<Outside, aborted, memory, leaseLost, closed, turn, disk, project>>

(* The run is aborted, its delivery is unproved or its lease is refused:   *)
(* the adapter is closed.                                                  *)
RunEnds ==
  /\ run \in {"claiming", "waiting", "ending"}
  /\ run' = "none" /\ closed' = TRUE
  /\ RunSettles
  /\ UNCHANGED <<leaseLost, published, turn, disk, project>>

ServerFails ==
  /\ run # "none" /\ ~closed
  /\ closed' = TRUE
  /\ UNCHANGED <<supervisor, run, leaseLost, published, turn, disk, project>>

(* A lease that was lost in a delivery whose end is proved, or was told as *)
(* unproved: another one is claimed for the same adapter, unless the       *)
(* heartbeat failed for good.                                              *)
AfterDelivery(otherwise) == IF leaseLost THEN {"claiming", "ending"} ELSE {otherwise}

(* deliver() is over.  What it left open the pump itself tells, unless it  *)
(* threw once the signal was there; an aborted run ends.                   *)
Over(outcome) ==
  /\ turn' = NoTurn
  /\ run' \in CASE aborted \/ (outcome = "thrown" /\ leaseLost) -> {"ending"}
              [] ~aborted /\ outcome = "terminal" -> AfterDelivery("waiting")
              [] ~aborted /\ outcome = "unknown"  -> AfterDelivery("ending")
              [] OTHER -> {"reporting"}
  /\ leaseLost' = (leaseLost /\ run' = "reporting")

DeliverEnds == Over(turn.outcome)

(* The report of delivery-unknown is over, whatever has become of it.      *)
ReportEnds(accepted) ==
  /\ run = "reporting"
  /\ run' \in IF aborted THEN {"ending"} ELSE AfterDelivery("ending")
  /\ leaseLost' = FALSE
  /\ IF accepted /\ ~Signalled
     THEN OnDispatch(published, "delivery-unknown") ELSE UNCHANGED status
  /\ UNCHANGED <<Outside, aborted, memory, published, closed, turn, disk, project>>

-----------------------------------------------------------------------------
(* deliver() up to the turn.                                               *)

(* The failure and its report, which is not accepted after a failure that  *)
(* ends the connection.                                                    *)
Fails(fatal, accepted) ==
  IF accepted /\ ~fatal /\ ~Signalled
  THEN /\ status' = [status EXCEPT !.state = "ready", !.phase = "failed",
                                   !.revision = turn.revision]
       /\ UNCHANGED aborted
  ELSE OnFailure(turn.revision, fatal)

Prepared ==
  /\ At({"preparing"})
  /\ Go("threading")
  /\ UNCHANGED <<supervisor, run, leaseLost, published, closed, disk, project>>

(* The target files are not clean, or the snapshot cannot be made.         *)
PrepareFails(accepted) ==
  /\ At({"preparing"})
  /\ Fails(FALSE, accepted)
  /\ Over(Outcome(accepted, "thrown"))
  /\ UNCHANGED <<Outside, memory, published, closed, disk, project>>

(* Codex gives a thread an id no thread has; which one makes no difference.*)
FreshThreads == Threads \ (threads \cup journal)
FreshThread  == CHOOSE t \in FreshThreads : TRUE

ThreadStarts ==
  /\ At({"threading"}) /\ ~closed /\ FreshThreads # {}
  /\ threads' = threads \cup {FreshThread}
  /\ turn' = [turn EXCEPT !.stage = "journaling", !.thread = FreshThread]
  /\ UNCHANGED <<supervisor, run, leaseLost, published, closed, journal,
                 strays, project>>

(* The catch of deliver(): nothing is told once the signal is there.       *)
FailsUnlessSignalled(fatal, accepted) ==
  IF Signalled THEN UNCHANGED <<status, aborted>> ELSE Fails(fatal, accepted)

OutcomeOfFailure(fatal, accepted) ==
  IF Signalled THEN "thrown" ELSE Outcome(accepted /\ ~fatal, "returned")

(* The thread is there, but the answer cannot be read.                     *)
ThreadIsLost ==
  /\ At({"threading"}) /\ ~closed /\ FreshThreads # {}
  /\ threads' = threads \cup {FreshThread} /\ strays' = strays \cup {FreshThread}
  /\ FailsUnlessSignalled(TRUE, FALSE)
  /\ Over(OutcomeOfFailure(TRUE, FALSE))
  /\ UNCHANGED <<Outside, memory, published, closed, journal, project>>

(* thread/start is refused, or the app server is gone.                     *)
ThreadRefused(fatal, accepted) ==
  /\ At({"threading"})
  /\ FailsUnlessSignalled(fatal, accepted)
  /\ Over(OutcomeOfFailure(fatal, accepted))
  /\ UNCHANGED <<Outside, memory, published, closed, disk, project>>

Journaled ==
  /\ At({"journaling"}) /\ Cardinality(journal) < MaxJournal
  /\ journal' = journal \cup {turn.thread}
  /\ Go("checking")
  /\ UNCHANGED <<supervisor, run, leaseLost, published, closed, threads,
                 strays, project>>

(* Failed before the turn, with a thread to delete.                        *)
FailsBeforeTurn(fatal, accepted) ==
  FailsUnlessSignalled(fatal, accepted) /\ Cleans(OutcomeOfFailure(fatal, accepted))

(* The journal is full or cannot be written: the thread is deleted at once *)
(* or has no record.                                                       *)
JournalFails(accepted) ==
  /\ At({"journaling"})
  /\ FailsBeforeTurn(FALSE, accepted)
  /\ \/ ~closed /\ threads' = threads \ {turn.thread} /\ UNCHANGED strays
     \/ strays' = strays \cup {turn.thread} /\ UNCHANGED threads
  /\ UNCHANGED <<Outside, memory, run, leaseLost, published, closed, journal, project>>

(* hooks and MCP servers are looked for: any of them is a breach of the    *)
(* isolation, like an answer that cannot be read.                          *)
ChecksFail(fatal, accepted) ==
  /\ At({"checking"})
  /\ FailsBeforeTurn(fatal, accepted)
  /\ UNCHANGED <<Outside, memory, run, leaseLost, published, closed, disk, project>>

(* runTurn() sends turn/start; a signal that came before is not heard.     *)
Checked ==
  /\ At({"checking"}) /\ ~closed
  /\ Go("starting")
  /\ UNCHANGED <<supervisor, run, leaseLost, published, closed, disk, project>>

-----------------------------------------------------------------------------
(* runTurn() and the events of the turn.                                   *)

(* The signal is heard by the turn, unless it came before.                 *)
EndOfSignalled == {"returned", "thrown"}

(* The answer with the turn's id; the report of it ends a signalled turn.  *)
TurnAnswered ==
  /\ At({"starting"}) /\ ~closed
  /\ IF Signalled
     THEN (\E outcome \in EndOfSignalled : Cleans(outcome)) /\ UNCHANGED status
     ELSE Go("dispatched") /\ OnDispatch(turn.revision, "dispatched")
  /\ UNCHANGED <<Outside, aborted, memory, run, leaseLost, published, closed,
                 disk, project>>

(* turn/start is refused: told, unless the signal was heard before.        *)
TurnRejected ==
  /\ At({"starting"}) /\ ~closed
  /\ \/ /\ OnFailure(turn.revision, TRUE)
        /\ Cleans(IF Signalled THEN "thrown" ELSE "returned")
     \/ Signalled /\ Cleans("returned") /\ UNCHANGED <<status, aborted>>
  /\ UNCHANGED <<Outside, memory, run, leaseLost, published, closed, disk, project>>

(* finishUnknown(): the turn may have been written and nothing tells what  *)
(* became of it - no answer, no terminal event in time, a report refused.  *)
TurnUnproved(accepted) ==
  /\ At({"starting", "dispatched", "working"})
  /\ IF accepted /\ ~Signalled
     THEN OnDispatch(turn.revision, "delivery-unknown") /\ Cleans("unknown")
     ELSE /\ UNCHANGED status
          /\ \/ Cleans("thrown")
             \/ At({"starting"}) /\ Signalled /\ Cleans("returned")
  /\ UNCHANGED <<Outside, aborted, memory, run, leaseLost, published, closed,
                 disk, project>>

TurnWorks ==
  /\ At({"dispatched"}) /\ ~closed /\ ~Signalled
  /\ Go("working")
  /\ OnDispatch(turn.revision, "working")
  /\ UNCHANGED <<Outside, aborted, memory, run, leaseLost, published, closed,
                 disk, project>>

(* interruptAndFail(): Codex is asked to stop, and whether it answers or   *)
(* the request fails, the turn has failed.                                 *)
TurnInterrupted ==
  /\ At({"dispatched", "working"}) /\ Signalled
  /\ Cleans("returned")
  /\ UNCHANGED <<supervisor, run, leaseLost, published, closed, disk, project>>

TurnFails(accepted) ==
  /\ At({"working"}) /\ ~closed
  /\ Cleans(Outcome(accepted, "returned"))
  /\ IF accepted /\ ~Signalled THEN OnDispatch(turn.revision, "failed") ELSE UNCHANGED status
  /\ UNCHANGED <<Outside, aborted, memory, run, leaseLost, published, closed,
                 disk, project>>

TurnCompletes ==
  /\ At({"working"}) /\ ~closed
  /\ Go("auditing")
  /\ OnPhase(turn.revision, "auditing")
  /\ UNCHANGED <<Outside, aborted, memory, run, leaseLost, published, closed,
                 disk, project>>

-----------------------------------------------------------------------------
(* finishCompleted(): auditAndApply() and the report of its end.           *)

Audited ==
  /\ At({"auditing"}) /\ ~Signalled
  /\ Go("validating")
  /\ OnPhase(turn.revision, "validating")
  /\ UNCHANGED <<Outside, aborted, memory, run, leaseLost, published, closed,
                 disk, project>>

(* Every required check passed: the last look at the signal is behind.     *)
Passed ==
  /\ At({"validating"}) /\ ~Signalled
  /\ Go("applying")
  /\ OnPhase(turn.revision, "applying")
  /\ UNCHANGED <<Outside, aborted, memory, run, leaseLost, published, closed,
                 disk, project>>

(* A check failed, could not be run, or none is configured.                *)
NeedsReview ==
  /\ At({"validating"}) /\ ~Signalled
  /\ Go("settling")
  /\ OnResult(turn.revision, FALSE)
  /\ UNCHANGED <<Outside, aborted, run, leaseLost, published, closed, disk, project>>

(* As it would be if a signalled delivery had no result to tell.           *)
BugApplied ==
  /\ At({"applying"})
  /\ applied' = applied \cup {turn.revision}
  /\ Go("settling")
  /\ IF Signalled THEN UNCHANGED <<status, memory>> ELSE OnResult(turn.revision, TRUE)
  /\ UNCHANGED <<Outside, aborted, run, leaseLost, published, closed, disk, unreadable>>

Applied ==
  /\ At({"applying"})
  /\ applied' = applied \cup {turn.revision}
  /\ Go("settling")
  /\ OnResult(turn.revision, TRUE)
  /\ UNCHANGED <<Outside, aborted, run, leaseLost, published, closed, disk, unreadable>>

(* The change is written, but its result is larger than a result may be    *)
(* (the limits of the agent can be configured): parse() throws where it    *)
(* should be remembered, and the task is told to have failed.              *)
ResultIsUnreadable(accepted) ==
  /\ At({"applying"})
  /\ applied' = applied \cup {turn.revision}
  /\ unreadable' = unreadable \cup {turn.revision}
  /\ Fails(FALSE, accepted)
  /\ Cleans(Outcome(accepted, "returned"))
  /\ UNCHANGED <<Outside, memory, run, leaseLost, published, closed, disk>>

(* The audit, the checks, the apply or the report of success has failed;   *)
(* this is told even to a connection that is being stopped.                *)
CompletionFails(accepted) ==
  /\ \/ At({"auditing", "validating", "applying"})
     \/ At({"settling"}) /\ (Signalled \/ ~accepted)
  /\ Fails(FALSE, accepted)
  /\ Cleans(Outcome(accepted, "returned"))
  /\ UNCHANGED <<Outside, memory, run, leaseLost, published, closed, disk, project>>

Settled ==
  /\ At({"settling"}) /\ ~Signalled
  /\ Cleans("terminal")
  /\ OnDispatch(turn.revision, "completed")
  /\ UNCHANGED <<Outside, aborted, memory, run, leaseLost, published, closed,
                 disk, project>>

-----------------------------------------------------------------------------
(* The end of deliver(): first the thread, then its record in the journal. *)

(* As it would be if the record went first.                                *)
BugThreadDeleted ==
  /\ At({"cleaning"}) /\ ~closed /\ turn.thread \in threads
  /\ journal' = journal \ {turn.thread}
  /\ Go("forgetting")
  /\ UNCHANGED <<supervisor, run, leaseLost, published, closed, threads,
                 strays, project>>

ThreadDeleted ==
  /\ At({"cleaning"}) /\ ~closed /\ turn.thread \in threads
  /\ threads' = threads \ {turn.thread}
  /\ Go("forgetting")
  /\ UNCHANGED <<supervisor, run, leaseLost, published, closed, journal,
                 strays, project>>

ThreadForgotten ==
  /\ At({"forgetting"})
  /\ journal' = journal \ {turn.thread}
  /\ DeliverEnds
  /\ UNCHANGED <<supervisor, published, closed, threads, strays, project>>

(* Nothing is tried with an app server that is gone.                       *)
CleanupSkipped ==
  /\ At({"cleaning"}) /\ closed
  /\ DeliverEnds
  /\ UNCHANGED <<supervisor, published, closed, disk, project>>

CleanupFails ==
  /\ At({"cleaning", "forgetting"})
  /\ OnCleanupWarning(turn.revision)
  /\ DeliverEnds
  /\ UNCHANGED <<Outside, memory, published, closed, disk, project>>

InitTurn ==
  /\ run = "none" /\ leaseLost = FALSE /\ published = 0 /\ closed = TRUE
  /\ turn = NoTurn
  /\ threads = {} /\ journal = {} /\ strays = {}
  /\ applied = {} /\ unreadable = {}
=============================================================================
