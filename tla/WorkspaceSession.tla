-------------------------- MODULE WorkspaceSession --------------------------
(***************************************************************************)
(* One development session's use of the project's files: the writing jobs  *)
(* and the read-only questions, kept apart by the coordinator's one        *)
(* activity, and the order in which the session closes them.               *)
(* Code: packages/dev-server/src/development-session.ts, workspace/        *)
(* activity-coordinator.ts; the managers are INSTANCEs of their modules.   *)
(***************************************************************************)
EXTENDS Naturals, FiniteSets

CONSTANTS Jobs, MaxRetained, Files, Edited, MaxEdits, AskRequests

ASSUME SessionAssumption ==
  MaxRetained \in Nat \ {0} /\ MaxEdits \in Nat /\ Edited \subseteq Files

VARIABLES
  active, configured, jobs, retained, jobsClosed, project, changes, asks, asksClosed

J == INSTANCE AgentJobs
A == INSTANCE AskJobs

jobVars == <<configured, jobs, retained, jobsClosed, project, changes>>
askVars == <<asks, asksClosed>>
vars    == <<active, jobVars, askVars>>

-----------------------------------------------------------------------------
Init == active = "none" /\ J!InitJobs /\ A!InitAsks

(* The questions are closed before the jobs.                               *)
Next ==
  \/ A!NextAsks /\ UNCHANGED jobVars
  \/ /\ J!NextJobs /\ (jobsClosed' # "open" => asksClosed = "closed")
     /\ UNCHANGED askVars

Spec == Init /\ [][Next]_vars

(* Whatever is waited for without the user ends: provider calls, checks,   *)
(* git commands and executors have timeouts, and so have jobs.             *)
FairSpec ==
  /\ Spec
  /\ \A job \in Jobs :
       /\ WF_vars(J!RunStep(job) /\ UNCHANGED askVars)
       /\ WF_vars(J!WriteStep(job) /\ UNCHANGED askVars)
  /\ \A request \in AskRequests : WF_vars(A!AskStep(request) /\ UNCHANGED jobVars)

-----------------------------------------------------------------------------
(* Properties.                                                             *)

(* Every variable has its type.                                            *)
TypeOK == J!JobsTypeOK /\ A!AsksTypeOK

Asking  == {request \in AskRequests : asks[request].status \in A!ActiveStatuses}
Working == {job \in Jobs : J!IsActive(job)}

(* The workspace is taken exactly while somebody uses it, and by one user  *)
(* at a time: no way a job or a question ends, fails, is cancelled or      *)
(* reverted leaks the lease or gives it up early (acquire, release).       *)
OneActivity ==
  /\ active = "ask" <=> Asking # {}
  /\ jobsClosed # "closed" => (active = "change" <=> Working # {})
  /\ Cardinality(Asking) <= 1 /\ Cardinality(Working) <= 1

(* A question is answered over files that no job of the session changes    *)
(* meanwhile, by an apply or a revert (acquire, create, revert).           *)
AskedFilesStandStillStep ==
  (\E f \in Files : project'[f].by # project[f].by) => Asking = {}

AskedFilesStandStill == [][AskedFilesStandStillStep]_vars

(* As long as the session lives, an applied change can still be reverted:  *)
(* its job is not forgotten for a newer one (pruneJobs).                   *)
AppliedIsKeptStep ==
  \A job \in retained :
    (jobs[job].status = "applied" /\ jobsClosed' # "closed") =>
      job \in retained' /\ jobs'[job].status \in {"applied", "reverting"}

AppliedIsKept == [][AppliedIsKeptStep]_vars

(* A job shown as cancelled has left nothing in the project's files        *)
(* (cancel, finishWithError, applyChange).                                 *)
CancelledLeavesNothing ==
  \A job \in Jobs : jobs[job].status = "cancelled" => ~J!Written(job)

(* What an applied change leaves in the project is what was reviewed and   *)
(* checked, and what a reverted one leaves is what the agent was given,    *)
(* whatever the user edits meanwhile: an edit makes the call fail          *)
(* (applyPreparedAgentChange, revertPreparedAgentChange).                  *)
OutcomeIsExactStep ==
  \A job \in Jobs :
    jobs'[job].status # jobs[job].status =>
      /\ jobs'[job].status = "applied" /\ jobs[job].status = "applying" =>
           project = J!With(changes[job].cut, job)
      /\ jobs'[job].status = "reverted" => project = changes[job].cut

OutcomeIsExact == [][OutcomeIsExactStep]_vars

(* A cancelled question gives no answer, however late the cancellation     *)
(* came, and reads no source, not even from a snapshot that arrives        *)
(* afterwards (run, raceWithAbort, cancel, finish).                        *)
CancelledReadsNothing(request) ==
  (asks[request].status = "cancelling" /\ asks'[request] # A!NoAsk) => ~asks'[request].snapshot

CancelledAskIsSilentStep ==
  \A request \in AskRequests :
    /\ CancelledReadsNothing(request)
    /\ (asks[request].status = "cancelling" \/
          (asks[request] # A!NoAsk /\ asks[request].aborted = "cancelled")) =>
       asks'[request].status \in
         {asks[request].status, "cancelling", "cancelled", "failed", "none"}

CancelledAskIsSilent == [][CancelledAskIsSilentStep]_vars

(* Nobody keeps the workspace for ever but a user who has a change to      *)
(* review: every run, cancelled or not, and every question ends.           *)
WorkspaceIsFreed ==
  active # "none" ~>
    (active = "none" \/ \E job \in retained : jobs[job].status = "awaiting-review")

(* The change of a job that the user has cancelled is not written to the   *)
(* project.                                                                *)
CancelIsHonouredStep ==
  \A job \in Jobs : jobs[job].status = "cancelling" => jobs'[job].status # "applying"

CancelIsHonoured == [][CancelIsHonouredStep]_vars

(* git is let loose on the project only when the files the agent touched   *)
(* are those it was given (docs/.../16, the paragraph on Apply).           *)
AppliedToIsolatedStep ==
  \A job \in Jobs :
    (/\ jobs[job].status = "applying"
     /\ changes[job].step = "comparing" /\ changes'[job].step = "writing")
    => project = changes[job].cut

AppliedToIsolated == [][AppliedToIsolatedStep]_vars

-----------------------------------------------------------------------------
(* The inductive invariant the proofs rest on, conjunct by conjunct.       *)

(* Where a run is and what its job shows go together: a run that prepares  *)
(* shows its phase, or that it is being cancelled once it is aborted.      *)
RunFits(job) ==
  LET run == jobs[job].run  status == jobs[job].status
  IN  /\ run \in {"preparing", "running", "validating", "captured", "failed"} <=>
           status \in {"preparing", "running", "validating", "cancelling"}
      /\ run \in {"preparing", "running", "validating"} /\ ~jobs[job].aborted => status = run
      /\ status = "cancelling" => jobs[job].aborted
      /\ run = "applying" => status = "applying"
      /\ status # "queued"

(* How far the change of a job is follows from its run and its status, and *)
(* it is being written exactly in the two statuses that say so.            *)
ChangeFits(job) ==
  LET run == jobs[job].run  status == jobs[job].status  state == changes[job].state
  IN  /\ run = "preparing" => state = "none"
      /\ run \in {"running", "validating"} => state = "cut"
      /\ run = "captured" \/ status = "awaiting-review" => state = "prepared"
      /\ run = "failed" \/ status \in {"cancelled", "completed", "failed"} =>
           state \in {"none", "cut", "prepared"}
      /\ status \in {"applying", "applied", "reverting", "reverted"} => state = status
      /\ state # "none" =>
           (changes[job].step # "none" <=> status \in {"applying", "reverting"})

(* Nothing is in the project before git writes it.                         *)
IsUnwritten(job) ==
  \/ jobs[job].status \in {"preparing", "running", "validating", "cancelling",
                           "awaiting-review", "cancelled", "completed"}
  \/ jobs[job].status = "applying" /\ changes[job].step \in {"comparing", "writing"}

(* What a change was made from, its baseline and the project differ by the *)
(* user's edits only, which are never undone; one that was applied was     *)
(* applied to what it was made from.                                       *)
ContentsFit(job) ==
  LET change == changes[job]
  IN  \A f \in Files :
        /\ change.cut[f].edits <= project[f].edits
        /\ jobs[job].run \in {"running", "validating"} => change.cut[f].by = project[f].by
        /\ change.state # "cut" =>
             /\ change.cut[f].edits <= change.base[f].edits
             /\ change.base[f].edits <= project[f].edits
             /\ change.base[f].by = change.cut[f].by
        /\ change.state \in {"applied", "reverting", "reverted"} =>
             change.base[f].edits = change.cut[f].edits

JobFits(job) ==
  /\ jobs[job] = J!NoJob => changes[job].state = "none"
  /\ jobs[job] # J!NoJob =>
       RunFits(job) /\ ChangeFits(job) /\ (IsUnwritten(job) => ~J!Written(job))
  /\ changes[job].state # "none" => ContentsFit(job)

(* The leases: one job or one question at a time, and the coordinator      *)
(* knows; a closed manager has given up its jobs and their leases.         *)
LeasesFit ==
  /\ active = "ask" <=> Asking # {}
  /\ \A a, b \in Asking : a = b
  /\ \A a, b \in Working : a = b
  /\ jobsClosed # "closed" =>
       /\ active = "change" <=> Working # {}
       /\ retained = {job \in Jobs : jobs[job] # J!NoJob}
       /\ \A job \in retained : jobs[job].lease <=> J!IsActive(job)
  /\ jobsClosed = "closed" =>
       /\ active # "change" /\ retained = {}
       /\ \A job \in Jobs : jobs[job] # J!NoJob => jobs[job].run = "over" /\ ~jobs[job].lease
  /\ jobsClosed # "open" => asksClosed = "closed"

(* Where a question's run is, too, follows from its status; one that is    *)
(* being cancelled was aborted and has no sources, and one still being     *)
(* admitted is aborted by closing only.                                    *)
AskFits(request) ==
  LET ask == asks[request]
  IN  /\ ask.status = "asking" <=> ask.run = "none"
      /\ ask.status \in A!TerminalStatuses <=> ask.run = "over"
      /\ ask.status = "cancelling" => ask.aborted # "no" /\ ~ask.snapshot
      /\ ask.status = "asking" /\ ask.aborted # "no" => asksClosed # "open"

SessionInvariant ==
  /\ TypeOK
  /\ IsFiniteSet(retained)
  /\ LeasesFit
  /\ \A job \in Jobs : JobFits(job)
  /\ \A request \in AskRequests : asks[request] # A!NoAsk => AskFits(request)
  /\ asksClosed = "closed" => \A request \in AskRequests : asks[request] = A!NoAsk
=============================================================================
