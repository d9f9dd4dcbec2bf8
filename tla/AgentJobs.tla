------------------------------ MODULE AgentJobs ------------------------------
(***************************************************************************)
(* The jobs of the built-in writing agent: their statuses, the run that    *)
(* prepares a change in an isolated worktree, and the user's calls that    *)
(* cancel a job, apply its change to the project or revert it.             *)
(* Code: packages/dev-server/src/agent/job-manager.ts, workspace/          *)
(* activity-coordinator.ts, packages/agent/src/engine/                     *)
(* execute-agent-change.ts.                                                *)
(*                                                                         *)
(* A handler runs to completion; runJob(), apply() and revert() are in     *)
(* several steps, split where they wait.  The change itself and the files  *)
(* it is written to are in PreparedChange.                                 *)
(***************************************************************************)
EXTENDS PreparedChange

CONSTANT
  MaxRetained    \* MAX_RETAINED_JOBS, at least one

VARIABLES
  active,       \* the coordinator's activity: "none", "ask" or "change"
  configured,   \* execution.applyMode of the session
  jobs,         \* the record of each job
  retained,     \* ids in the manager's table
  jobsClosed    \* "open", "closing" while close() waits, "closed"

jobVars == <<configured, jobs, retained, jobsClosed, project, changes>>

-----------------------------------------------------------------------------
ApplyModes == {"review", "auto", "trusted-auto"}

(* A request that asks for trusted-auto must carry the user's consent.     *)
RequestModes ==
  IF configured = "trusted-auto" THEN {"review", "trusted-auto"} ELSE {configured}

ActiveStatuses ==
  {"queued", "preparing", "running", "validating", "awaiting-review",
   "applying", "cancelling", "reverting"}

CancellableStatuses == {"queued", "preparing", "running", "validating", "awaiting-review"}

(* Bugs the properties are tried against stand before the definition they  *)
(* would replace.  Here an applied job gives way to a new one, too.        *)
BugPrunableStatuses == {"completed", "cancelled", "reverted", "failed", "applied"}

PrunableStatuses == {"completed", "cancelled", "reverted", "failed"}

Statuses == ActiveStatuses \cup PrunableStatuses \cup {"applied"}

(* What executeAgentChange() made: "unchecked" did not pass its checks, an *)
(* "eligible" change may be applied without a review in auto mode.         *)
Changes == {"unchecked", "empty", "change", "eligible"}

(* Where the run is: "captured" is past its last look at the signal, in    *)
(* the wait for the file hashes and the removal of the worktree; "failed"  *)
(* waits for that removal after an error.                                  *)
Job ==
  [status: Statuses, mode: ApplyModes,
   run: {"preparing", "running", "validating", "captured", "failed", "applying", "over"},
   aborted: BOOLEAN, lease: BOOLEAN, change: Changes \cup {"none"}]

NoJob == [status |-> "none"]

IsActive(job) == jobs[job].status \in ActiveStatuses

Release(held, kind) == IF held /\ active = kind THEN "none" ELSE active

(* transition(): a job that is no longer active gives up its lease.        *)
Become(job, next) ==
  /\ jobs' = [jobs EXCEPT ![job] = [next EXCEPT !.lease = @ /\ next.status \in ActiveStatuses]]
  /\ active' = Release(jobs[job].lease /\ next.status \notin ActiveStatuses, "change")
  /\ UNCHANGED <<configured, retained, jobsClosed>>

-----------------------------------------------------------------------------
(* create(): the table makes room first, and the job is refused afterwards *)
(* when the coordinator is taken or the provider cannot be resolved.  Of   *)
(* the jobs that may go the oldest does, here any.                         *)
HasActive(excluded) == \E job \in retained \ {excluded} : IsActive(job)

(* The table makes room a job too late.                                    *)
BugPrunedTooLate ==
  IF Cardinality(retained) <= MaxRetained THEN {retained}
  ELSE {retained \ {job} : job \in {j \in retained : jobs[j].status \in PrunableStatuses}}

Pruned ==
  IF Cardinality(retained) < MaxRetained THEN {retained}
  ELSE {retained \ {job} : job \in {j \in retained : jobs[j].status \in PrunableStatuses}}

Kept(table) == [job \in Jobs |-> IF job \in retained \ table THEN NoJob ELSE jobs[job]]

(* The run starts before any other call is served.                         *)
Create(job, mode) ==
  /\ jobsClosed = "open" /\ mode \in RequestModes
  /\ jobs[job] = NoJob /\ ~Written(job) /\ ~HasActive(job)
  /\ active = "none" /\ active' = "change"
  /\ \E table \in Pruned :
       /\ retained' = table \cup {job} /\ Dropped(retained \ table)
       /\ jobs' = [Kept(table) EXCEPT ![job] =
            [status |-> "preparing", mode |-> mode, run |-> "preparing", aborted |-> FALSE,
             lease |-> TRUE, change |-> "none"]]
  /\ UNCHANGED <<configured, jobsClosed, project>>

CreateRefused ==
  /\ jobsClosed = "open" /\ \A job \in retained : ~IsActive(job)
  /\ \E table \in Pruned :
       retained' = table /\ jobs' = Kept(table) /\ Dropped(retained \ table)
  /\ UNCHANGED <<active, configured, jobsClosed, project>>

-----------------------------------------------------------------------------
(* The run.                                                                *)

(* onPhase(), and the last step without one.                               *)
RunAdvances(job) ==
  /\ jobs[job] # NoJob /\ ~jobs[job].aborted
  /\ \/ /\ jobs[job].run = "preparing"
        /\ Become(job, [jobs[job] EXCEPT !.run = "running", !.status = "running"])
        /\ Cut(job)
     \/ /\ jobs[job].run = "running"
        /\ Become(job, [jobs[job] EXCEPT !.run = "validating", !.status = "validating"])
        /\ UNCHANGED <<project, changes>>
     \/ /\ jobs[job].run = "validating"
        /\ Become(job, [jobs[job] EXCEPT !.run = "captured"])
        /\ Captured(job)

(* The provider, a tool or a check fails, a limit or the time is reached.  *)
RunFails(job) ==
  /\ jobs[job] # NoJob
  /\ jobs[job].run \in {"preparing", "running", "validating", "captured"}
  /\ Become(job, [jobs[job] EXCEPT !.run = "failed"])
  /\ UNCHANGED <<project, changes>>

(* The wait for the provider does not hear of the abort.                   *)
BugProviderIgnoresAbort(job) ==
  /\ jobs[job] # NoJob /\ jobs[job].aborted
  /\ jobs[job].run \in {"preparing", "validating"}
  /\ Become(job, [jobs[job] EXCEPT !.run = "failed"])
  /\ UNCHANGED <<project, changes>>

(* Each wait before the last look at the signal ends when it is aborted.   *)
RunIsAborted(job) ==
  /\ jobs[job] # NoJob /\ jobs[job].aborted
  /\ jobs[job].run \in {"preparing", "running", "validating"}
  /\ Become(job, [jobs[job] EXCEPT !.run = "failed"])
  /\ UNCHANGED <<project, changes>>

(* finishWithError().                                                      *)
RunEndsInError(job) ==
  /\ jobs[job] # NoJob /\ jobs[job].run = "failed"
  /\ Become(job, [jobs[job] EXCEPT !.run = "over",
       !.status = IF jobs[job].aborted THEN "cancelled" ELSE "failed"])
  /\ UNCHANGED <<project, changes>>

(* executeAgentChange() resolves; nobody looks at the signal again.        *)
AppliesDirectly(job, change) ==
  \/ jobs[job].mode = "auto" /\ change = "eligible"
  \/ jobs[job].mode = "trusted-auto"

RunResolves(job, change) ==
  /\ jobs[job] # NoJob /\ jobs[job].run = "captured"
  /\ change = "eligible" => jobs[job].mode = "auto"
  /\ change = "unchecked" => jobs[job].mode # "trusted-auto"
  /\ LET done == [jobs[job] EXCEPT !.change = change, !.run = "over"]
     IN  \/ /\ change = "unchecked" /\ Become(job, [done EXCEPT !.status = "failed"])
            /\ UNCHANGED <<project, changes>>
         \/ /\ change = "empty" /\ Become(job, [done EXCEPT !.status = "completed"])
            /\ UNCHANGED <<project, changes>>
         \/ /\ change \in {"change", "eligible"} /\ AppliesDirectly(job, change)
            /\ Become(job, [done EXCEPT !.status = "applying", !.run = "applying"])
            /\ Begin(job, "applying")
         \/ /\ change \in {"change", "eligible"} /\ ~AppliesDirectly(job, change)
            /\ Become(job, [done EXCEPT !.status = "awaiting-review"])
            /\ UNCHANGED <<project, changes>>

-----------------------------------------------------------------------------
(* Writing the project.                                                    *)

Apply(job) ==
  /\ job \in retained
  /\ jobs[job].status = "awaiting-review" /\ jobs[job].change \in {"change", "eligible"}
  /\ Become(job, [jobs[job] EXCEPT !.status = "applying"])
  /\ Begin(job, "applying")

(* The waits inside applyPreparedAgentChange() and its reverse.            *)
WriteProceeds(job) ==
  /\ Compared(job) \/ Wrote(job)
  /\ UNCHANGED <<active, configured, jobs, retained, jobsClosed>>

ApplySucceeds(job) ==
  /\ jobs[job].status = "applying"
  /\ Verified(job)
  /\ Become(job, [jobs[job] EXCEPT !.status = "applied", !.run = "over"])

(* The failed writing of a cancelled job counts as its cancellation.       *)
BugApplyFails(job) ==
  /\ jobs[job].status = "applying"
  /\ Failed(job)
  /\ Become(job, [jobs[job] EXCEPT !.run = "over",
       !.status = IF jobs[job].aborted THEN "cancelled" ELSE "failed"])

ApplyFails(job) ==
  /\ jobs[job].status = "applying"
  /\ Failed(job)
  /\ Become(job, [jobs[job] EXCEPT !.status = "failed", !.run = "over"])

(* revert() only looks at the other jobs.                                  *)
BugRevertTakesNoLease(job) ==
  /\ job \in retained
  /\ jobs[job].status = "applied" /\ ~HasActive(job)
  /\ jobs' = [jobs EXCEPT ![job] = [@ EXCEPT !.status = "reverting"]]
  /\ Begin(job, "reverting")
  /\ UNCHANGED <<active, configured, retained, jobsClosed>>

(* revert() needs the workspace for itself again.                          *)
Revert(job) ==
  /\ job \in retained
  /\ jobs[job].status = "applied" /\ ~HasActive(job)
  /\ active = "none" /\ active' = "change"
  /\ jobs' = [jobs EXCEPT ![job] = [@ EXCEPT !.status = "reverting", !.lease = TRUE]]
  /\ Begin(job, "reverting")
  /\ UNCHANGED <<configured, retained, jobsClosed>>

RevertSucceeds(job) ==
  /\ jobs[job].status = "reverting"
  /\ Verified(job)
  /\ Become(job, [jobs[job] EXCEPT !.status = "reverted"])

RevertFails(job) ==
  /\ jobs[job].status = "reverting"
  /\ Failed(job)
  /\ Become(job, [jobs[job] EXCEPT !.status = "applied"])

-----------------------------------------------------------------------------
Cancel(job) ==
  /\ job \in retained /\ jobs[job].status \in CancellableStatuses
  /\ IF jobs[job].status = "awaiting-review"
     THEN Become(job, [jobs[job] EXCEPT !.status = "cancelled", !.aborted = TRUE,
                                        !.change = "none"])
     ELSE Become(job, [jobs[job] EXCEPT !.status = "cancelling", !.aborted = TRUE])
  /\ UNCHANGED <<project, changes>>

(* close() aborts what can be cancelled and waits for the runs; a user's   *)
(* apply() or revert() is not waited for.                                  *)
CloseJobs ==
  /\ jobsClosed = "open" /\ jobsClosed' = "closing"
  /\ jobs' = [job \in Jobs |->
       IF job \in retained /\ jobs[job].status \in CancellableStatuses
       THEN [jobs[job] EXCEPT !.aborted = TRUE] ELSE jobs[job]]
  /\ UNCHANGED <<active, configured, retained, project, changes>>

JobsCloseEnds ==
  /\ jobsClosed = "closing" /\ jobsClosed' = "closed"
  /\ \A job \in retained : jobs[job].run = "over"
  /\ retained' = {}
  /\ jobs' = [job \in Jobs |-> IF jobs[job] = NoJob THEN NoJob
                               ELSE [jobs[job] EXCEPT !.lease = FALSE]]
  /\ active' = Release(\E job \in retained : jobs[job].lease, "change")
  /\ UNCHANGED <<configured, project, changes>>

-----------------------------------------------------------------------------
InitJobs ==
  /\ configured \in ApplyModes
  /\ jobs = [job \in Jobs |-> NoJob]
  /\ retained = {}
  /\ jobsClosed = "open"
  /\ InitChanges

(* What the run and the writing do by themselves.                          *)
RunStep(job) ==
  \/ RunAdvances(job) \/ RunIsAborted(job) \/ RunEndsInError(job)
  \/ \E change \in Changes : RunResolves(job, change)

WriteStep(job) ==
  \/ WriteProceeds(job)
  \/ ApplySucceeds(job) \/ ApplyFails(job)
  \/ RevertSucceeds(job) \/ RevertFails(job)

UserCall(job) ==
  \/ \E mode \in ApplyModes : Create(job, mode)
  \/ Apply(job) \/ Revert(job) \/ Cancel(job)

NextJobs ==
  \/ \E job \in Jobs : RunStep(job) \/ RunFails(job) \/ WriteStep(job) \/ UserCall(job)
  \/ \E f \in Files : Edit(f) /\ UNCHANGED <<active, configured, jobs, retained, jobsClosed>>
  \/ CreateRefused
  \/ CloseJobs \/ JobsCloseEnds

-----------------------------------------------------------------------------
(* Every variable has its type.                                            *)
JobsTypeOK ==
  /\ active \in {"none", "ask", "change"}
  /\ configured \in ApplyModes
  /\ jobs \in [Jobs -> Job \cup {NoJob}]
  /\ retained \subseteq Jobs /\ Cardinality(retained) <= MaxRetained
  /\ jobsClosed \in {"open", "closing", "closed"}
  /\ ChangesTypeOK
=============================================================================
