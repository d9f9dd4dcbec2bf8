------------------------------- MODULE AskJobs -------------------------------
(***************************************************************************)
(* The read-only questions of a session: a request is admitted while its   *)
(* executor is probed, then runs over a captured snapshot of the sources   *)
(* until it is answered, cancelled or failed.                              *)
(* Code: packages/dev-server/src/contextual-ask/manager.ts, workspace/     *)
(* activity-coordinator.ts.                                                *)
(*                                                                         *)
(* A job is known by the request that made it: requests and jobs come and  *)
(* go together.  "asking" is the request in pendingRequests, which holds   *)
(* the lease that its job takes over.                                      *)
(***************************************************************************)
EXTENDS Naturals

CONSTANT AskRequests    \* request ids

VARIABLES
  active,      \* the coordinator's activity: "none", "ask" or "change"
  asks,        \* what became of each request
  asksClosed   \* "open", "closing" while close() waits, "closed"

askVars == <<asks, asksClosed>>

-----------------------------------------------------------------------------
TerminalStatuses == {"answered", "cancelled", "failed"}
ActiveStatuses   == {"asking", "authorizing", "running", "cancelling"}

(* Where run() waits: for the snapshot, for the executor, for the check    *)
(* that the sources are unchanged ("projecting").  "aborted" is the reason *)
(* of the first abort; "snapshot", whether the job still has its sources.  *)
Ask ==
  [status: ActiveStatuses \cup TerminalStatuses,
   run: {"none", "capturing", "executing", "projecting", "over"},
   aborted: {"no", "cancelled", "timeout"}, snapshot: BOOLEAN]

NoAsk == [status |-> "none"]

Is(request, run) == asks[request] # NoAsk /\ asks[request].run = run

Put(request, ask) == asks' = [asks EXCEPT ![request] = ask]

Release(kind) == active' = IF active = kind THEN "none" ELSE active

-----------------------------------------------------------------------------
(* create(): a request seen before gets its job again.  Another is refused *)
(* while a job is active or the coordinator is taken.                      *)
AskCreate(request) ==
  /\ asksClosed = "open" /\ asks[request] = NoAsk
  /\ \A other \in AskRequests : asks[other].status \notin ActiveStatuses
  /\ active = "none" /\ active' = "ask"
  /\ Put(request, [status |-> "asking", run |-> "none", aborted |-> "no", snapshot |-> FALSE])
  /\ UNCHANGED asksClosed

(* A ready executor: earlier jobs are forgotten and the run begins.        *)
AskAdmitted(request) ==
  /\ asks[request].status = "asking" /\ asksClosed = "open"
  /\ asks' = [other \in AskRequests |->
       IF other = request THEN [asks[request] EXCEPT !.status = "authorizing", !.run = "capturing"]
       ELSE IF asks[other].status \in TerminalStatuses THEN NoAsk ELSE asks[other]]
  /\ UNCHANGED <<active, asksClosed>>

(* Not ready, timed out, or closed in the meantime.                        *)
AskRefused(request) ==
  /\ asks[request].status = "asking"
  /\ Put(request, NoAsk)
  /\ Release("ask")
  /\ UNCHANGED asksClosed

-----------------------------------------------------------------------------
(* The run.  fail() and finish() release the lease and the snapshot.       *)

Ended(ask, status) == [ask EXCEPT !.status = status, !.run = "over", !.snapshot = FALSE]

(* The lease stays taken by a question that failed.                        *)
BugFailKeepsLease(request) ==
  /\ asks[request].status \in ActiveStatuses \ {"asking"}
  /\ Put(request, Ended(asks[request],
       IF asks[request].aborted = "cancelled" THEN "cancelled" ELSE "failed"))
  /\ UNCHANGED <<active, asksClosed>>

AskFails(request) ==
  /\ asks[request].status \in ActiveStatuses \ {"asking"}
  /\ Put(request, Ended(asks[request],
       IF asks[request].aborted = "cancelled" THEN "cancelled" ELSE "failed"))
  /\ Release("ask")
  /\ UNCHANGED asksClosed

(* A snapshot that arrives after an abort is disposed of.                  *)
AskCaptured(request) ==
  /\ Is(request, "capturing") /\ asks[request].aborted = "no"
  /\ Put(request, [asks[request] EXCEPT !.status = "running", !.run = "executing",
                                        !.snapshot = TRUE])
  /\ UNCHANGED <<active, asksClosed>>

(* The answer races with the abort, and loses to an earlier one.           *)
AskExecuted(request) ==
  /\ Is(request, "executing") /\ asks[request].aborted = "no"
  /\ Put(request, [asks[request] EXCEPT !.run = "projecting"])
  /\ UNCHANGED <<active, asksClosed>>

(* The last look at the signal comes before the answer is projected.       *)
BugLateAnswerCounts(request) ==
  /\ Is(request, "projecting")
  /\ Put(request, Ended(asks[request], "answered"))
  /\ Release("ask")
  /\ UNCHANGED asksClosed

AskAnswered(request) ==
  /\ Is(request, "projecting") /\ asks[request].aborted = "no"
  /\ Put(request, Ended(asks[request], "answered"))
  /\ Release("ask")
  /\ UNCHANGED asksClosed

Abort(ask, reason) == [ask EXCEPT !.aborted = IF @ = "no" THEN reason ELSE @]

(* jobTimeoutMs has passed; the run finds out where it waits.              *)
AskTimesOut(request) ==
  /\ asks[request].status \in ActiveStatuses \ {"asking"} /\ asks[request].aborted = "no"
  /\ Put(request, Abort(asks[request], "timeout"))
  /\ UNCHANGED <<active, asksClosed>>

-----------------------------------------------------------------------------
AskCancel(request) ==
  /\ asks[request].status \in {"authorizing", "running"}
  /\ Put(request, [Abort(asks[request], "cancelled") EXCEPT !.status = "cancelling",
                                                            !.snapshot = FALSE])
  /\ UNCHANGED <<active, asksClosed>>

(* cleanupExpired(): a result is forgotten when its time to live is over.  *)
AskExpires(request) ==
  /\ asksClosed # "closed" /\ asks[request].status \in TerminalStatuses
  /\ Put(request, NoAsk)
  /\ UNCHANGED <<active, asksClosed>>

(* close() aborts the request being admitted, which then fails, or the job *)
(* that is active, and waits for it.                                       *)
CloseAsks ==
  /\ asksClosed = "open" /\ asksClosed' = "closing"
  /\ asks' = [request \in AskRequests |->
       IF asks[request].status \in ActiveStatuses
       THEN Abort(asks[request], "cancelled") ELSE asks[request]]
  /\ UNCHANGED active

AsksCloseEnds ==
  /\ asksClosed = "closing" /\ asksClosed' = "closed"
  /\ \A request \in AskRequests : asks[request].status \notin ActiveStatuses
  /\ asks' = [request \in AskRequests |-> NoAsk]
  /\ UNCHANGED active

-----------------------------------------------------------------------------
InitAsks ==
  /\ asks = [request \in AskRequests |-> NoAsk]
  /\ asksClosed = "open"

(* What ends every wait: an answer, a failure or a timeout.                *)
AskStep(request) ==
  \/ AskAdmitted(request) \/ AskRefused(request)
  \/ AskCaptured(request) \/ AskExecuted(request) \/ AskAnswered(request)
  \/ AskFails(request)

NextAsks ==
  \/ \E request \in AskRequests :
       \/ AskCreate(request) \/ AskStep(request) \/ AskTimesOut(request)
       \/ AskCancel(request) \/ AskExpires(request)
  \/ CloseAsks \/ AsksCloseEnds

-----------------------------------------------------------------------------
(* Every variable has its type.                                            *)
AsksTypeOK ==
  /\ active \in {"none", "ask", "change"}
  /\ asks \in [AskRequests -> Ask \cup {NoAsk}]
  /\ asksClosed \in {"open", "closing", "closed"}
=============================================================================
