----------------------- MODULE WorkspaceSessionProofs ------------------------
(***************************************************************************)
(* Proofs about WorkspaceSession, for any jobs, questions, files and       *)
(* limits.                                                                 *)
(***************************************************************************)
EXTENDS WorkspaceSession, FiniteSetTheorems, TLAPS

(* The undefined job, change and question are no jobs, changes, questions. *)
LEMMA NullsAreApart ==
  /\ J!NoJob \notin J!Job /\ J!NoJob.status = "none"
  /\ J!NoChange \notin J!Change /\ J!NoChange.state = "none"
  /\ A!NoAsk \notin A!Ask /\ A!NoAsk.status = "none"
BY DEF J!NoJob, J!Job, J!Statuses, J!ActiveStatuses, J!PrunableStatuses, J!NoChange, J!Change,
       A!NoAsk, A!Ask, A!ActiveStatuses, A!TerminalStatuses

(* The managers count as the session does.                                 *)
LEMMA SameCardinality == ASSUME NEW S PROVE J!Cardinality(S) = Cardinality(S)
BY DEF J!Cardinality, Cardinality

(* The types, written out.                                                 *)
LEMMA Types ==
  ASSUME TypeOK
  PROVE  /\ active \in {"none", "ask", "change"} /\ configured \in J!ApplyModes
         /\ jobs \in [Jobs -> J!Job \cup {J!NoJob}]
         /\ changes \in [Jobs -> J!Change \cup {J!NoChange}]
         /\ project \in [Files -> J!Content]
         /\ retained \subseteq Jobs /\ Cardinality(retained) <= MaxRetained
         /\ jobsClosed \in {"open", "closing", "closed"}
         /\ asks \in [AskRequests -> A!Ask \cup {A!NoAsk}]
         /\ asksClosed \in {"open", "closing", "closed"}
BY SameCardinality DEF TypeOK, J!JobsTypeOK, J!ChangesTypeOK, J!Contents, A!AsksTypeOK

(* The invariant holds of the new session.                                 *)
LEMMA InitInvariant == Init => SessionInvariant
<1> SUFFICES ASSUME Init PROVE SessionInvariant
  OBVIOUS
<1> USE SessionAssumption, NullsAreApart DEF Init, J!InitJobs, J!InitChanges, A!InitAsks
<1>1. Asking = {} /\ Working = {}
  BY DEF Asking, Working, J!IsActive, J!ActiveStatuses, A!ActiveStatuses
<1>2. IsFiniteSet(retained) /\ Cardinality(retained) = 0 /\ MaxRetained \in Nat
  BY FS_EmptySet
<1>3. project \in J!Contents
  BY DEF J!Contents, J!Content
<1>4. TypeOK
  BY <1>2, <1>3, SameCardinality DEF TypeOK, J!JobsTypeOK, J!ChangesTypeOK, A!AsksTypeOK
<1>5. LeasesFit
  BY <1>1 DEF LeasesFit
<1> QED
  BY <1>2, <1>4, <1>5 DEF SessionInvariant, JobFits

-----------------------------------------------------------------------------
(* A step of one job that has the workspace.                               *)

(* What writing the files of one job leaves of the others.                 *)
OthersStand(job) ==
  \A f \in Files :
    /\ project'[f].edits = project[f].edits
    /\ \A b \in Jobs \ {job} : b \in project'[f].by <=> b \in project[f].by

(* When an active job moves, fits again, and gives its lease back exactly  *)
(* when it is no longer active, then everything fits again: the other jobs *)
(* are past their writing, since only one job is active.                   *)
LEMMA JobMoves ==
  ASSUME SessionInvariant, UNCHANGED <<askVars, configured, retained, jobsClosed>>,
         NEW job \in Jobs, J!IsActive(job),
         jobs' \in [Jobs -> J!Job \cup {J!NoJob}], jobs'[job] \in J!Job,
         changes' \in [Jobs -> J!Change \cup {J!NoChange}], project' \in J!Contents,
         \A b \in Jobs \ {job} : jobs'[b] = jobs[b] /\ changes'[b] = changes[b],
         jobs'[job].lease <=> (jobs[job].lease /\ jobs'[job].status \in J!ActiveStatuses),
         active' = J!Release(jobs[job].lease /\ jobs'[job].status \notin J!ActiveStatuses, "change"),
         jobs[job].run = "over" => jobs'[job].run = "over",
         OthersStand(job), JobFits(job)'
  PROVE  SessionInvariant'
<1> USE SessionAssumption, NullsAreApart
<1>1. /\ active \in {"none", "ask", "change"} /\ configured \in J!ApplyModes
      /\ jobs \in [Jobs -> J!Job \cup {J!NoJob}] /\ jobs[job] \in J!Job
      /\ retained \subseteq Jobs /\ Cardinality(retained) <= MaxRetained /\ IsFiniteSet(retained)
      /\ jobsClosed \in {"open", "closing", "closed"} /\ A!AsksTypeOK
  BY Types DEF SessionInvariant, J!IsActive, J!ActiveStatuses, TypeOK
<1>2. active' \in {active, "none"} /\ (active' # active => active = "change")
  BY DEF J!Release
<1>3. TypeOK'
  BY <1>1, <1>2, SameCardinality DEF TypeOK, J!JobsTypeOK, J!ChangesTypeOK, A!AsksTypeOK, askVars
<1>4. Asking' = Asking
  BY DEF Asking, askVars
<1>5. /\ Working' \subseteq Working
      /\ job \in Working
      /\ Working = {job}
      /\ Working' # {} <=> jobs'[job].status \in J!ActiveStatuses
  <2>1. \A b \in Jobs \ {job} : b \in Working' <=> b \in Working
    BY DEF Working, J!IsActive
  <2>2. job \in Working /\ Working = {job}
    BY DEF Working, SessionInvariant, LeasesFit
  <2>3. job \in Working' <=> jobs'[job].status \in J!ActiveStatuses
    BY DEF Working, J!IsActive
  <2>4. Working' \subseteq Jobs
    BY DEF Working
  <2> QED BY <2>1, <2>2, <2>3, <2>4
<1>6. LeasesFit'
  <2>1. CASE jobsClosed = "closed"
    <3>1. ~jobs[job].lease /\ active' = active /\ ~jobs'[job].lease
      BY <1>1, <2>1 DEF SessionInvariant, LeasesFit, J!Release
    <3> QED BY <1>1, <1>4, <1>5, <2>1, <3>1 DEF SessionInvariant, LeasesFit, askVars
  <2>2. CASE jobsClosed # "closed"
    <3>1. active = "change" /\ job \in retained /\ jobs[job].lease /\ Asking = {}
      BY <1>1, <1>5, <2>2 DEF SessionInvariant, LeasesFit
    <3>2. active' = IF jobs'[job].status \in J!ActiveStatuses THEN "change" ELSE "none"
      BY <3>1 DEF J!Release
    <3>3. retained' = {b \in Jobs : jobs'[b] # J!NoJob}
      <4>1. retained' = retained /\ retained = {b \in Jobs : jobs[b] # J!NoJob}
        BY <2>2 DEF SessionInvariant, LeasesFit
      <4>2. \A b \in Jobs : jobs'[b] # J!NoJob <=> jobs[b] # J!NoJob
        BY <1>1
      <4> QED BY <4>1, <4>2
    <3>4. \A b \in retained' : jobs'[b].lease <=> J!IsActive(b)'
      BY <2>2, <3>1 DEF SessionInvariant, LeasesFit, J!IsActive
    <3> QED BY <1>4, <1>5, <2>2, <3>1, <3>2, <3>3, <3>4 DEF SessionInvariant, LeasesFit, askVars
  <2> QED BY <2>1, <2>2
<1>7. ASSUME NEW b \in Jobs PROVE JobFits(b)'
  <2>1. CASE b = job
    BY <2>1
  <2>2. CASE b # job
    <3>1. jobs'[b] = jobs[b] /\ changes'[b] = changes[b] /\ JobFits(b) /\ b \notin Working
      BY <1>5, <2>2 DEF SessionInvariant
    <3>2. J!Written(b)' <=> J!Written(b)
      BY <2>2 DEF J!Written, OthersStand
    <3>3. jobs[b] # J!NoJob => jobs[b].run \notin {"running", "validating"}
      BY <3>1 DEF Working, J!IsActive, JobFits, RunFits, J!ActiveStatuses
    <3>4. changes[b].state # "none" => jobs[b] # J!NoJob
      BY <3>1 DEF JobFits
    <3>5. changes[b].state # "none" => ContentsFit(b)'
      BY <3>1, <3>3, <3>4 DEF JobFits, ContentsFit, OthersStand
    <3> QED BY <3>1, <3>2, <3>5 DEF JobFits, RunFits, ChangeFits, IsUnwritten
  <2> QED BY <2>1, <2>2
<1>8. \A request \in AskRequests : asks'[request] # A!NoAsk => AskFits(request)'
  BY DEF SessionInvariant, AskFits, askVars
<1> QED
  BY <1>1, <1>3, <1>6, <1>7, <1>8 DEF SessionInvariant, askVars

(* What transition() makes of a job.                                       *)
LEMMA BecomeIs ==
  ASSUME TypeOK, NEW job \in Jobs, NEW next \in J!Job, J!Become(job, next)
  PROVE  /\ jobs' \in [Jobs -> J!Job \cup {J!NoJob}] /\ jobs'[job] \in J!Job
         /\ jobs'[job].status = next.status /\ jobs'[job].run = next.run
         /\ jobs'[job].aborted = next.aborted /\ jobs'[job].change = next.change
         /\ jobs'[job].lease <=> next.lease /\ next.status \in J!ActiveStatuses
         /\ \A b \in Jobs \ {job} : jobs'[b] = jobs[b]
         /\ active' = J!Release(jobs[job].lease /\ next.status \notin J!ActiveStatuses, "change")
         /\ UNCHANGED <<configured, retained, jobsClosed>>
<1> DEFINE written == [next EXCEPT !.lease = @ /\ next.status \in J!ActiveStatuses]
<1>1. /\ written \in J!Job /\ written.status = next.status /\ written.run = next.run
      /\ written.aborted = next.aborted /\ written.change = next.change
      /\ written.lease <=> next.lease /\ next.status \in J!ActiveStatuses
  BY DEF J!Job
<1>2. /\ jobs' = [jobs EXCEPT ![job] = written] /\ jobs \in [Jobs -> J!Job \cup {J!NoJob}]
      /\ active' = J!Release(jobs[job].lease /\ next.status \notin J!ActiveStatuses, "change")
      /\ UNCHANGED <<configured, retained, jobsClosed>>
  BY Types DEF J!Become
<1> HIDE DEF written
<1> QED BY <1>1, <1>2

(* A transition of an active job that keeps what it has of the project.    *)
LEMMA BecomeInvariant ==
  ASSUME SessionInvariant, UNCHANGED askVars, NEW job \in Jobs, J!IsActive(job),
         NEW next \in J!Job, J!Become(job, next), next.lease = jobs[job].lease,
         jobs[job].run = "over" => next.run = "over",
         changes' \in [Jobs -> J!Change \cup {J!NoChange}], project' \in J!Contents,
         \A b \in Jobs \ {job} : changes'[b] = changes[b],
         OthersStand(job), JobFits(job)'
  PROVE  SessionInvariant'
<1>1. TypeOK
  BY DEF SessionInvariant
<1> QED BY <1>1, BecomeIs, JobMoves

(* What the invariant says of one active job.                              *)
LEMMA ActiveFits ==
  ASSUME SessionInvariant, NEW job \in Jobs, jobs[job] # J!NoJob
  PROVE  /\ jobs[job] \in J!Job /\ RunFits(job) /\ ChangeFits(job)
         /\ IsUnwritten(job) => ~J!Written(job)
         /\ changes[job].state # "none" => changes[job] \in J!Change /\ ContentsFit(job)
         /\ changes[job].state = "none" => changes[job] = J!NoChange
         /\ project \in J!Contents /\ changes \in [Jobs -> J!Change \cup {J!NoChange}]
<1>1. TypeOK /\ JobFits(job)
  BY DEF SessionInvariant
<1>2. jobs[job] \in J!Job /\ changes[job] \in J!Change \cup {J!NoChange}
  BY <1>1, Types
<1>3. changes[job].state = "none" => changes[job] = J!NoChange
  BY <1>2 DEF J!Change
<1> QED BY <1>1, <1>2, <1>3, NullsAreApart, Types DEF JobFits, J!Contents

(* A transition that touches neither the change nor the files.             *)
LEMMA StatusMoves ==
  ASSUME SessionInvariant, UNCHANGED <<askVars, project, changes>>,
         NEW job \in Jobs, jobs[job] # J!NoJob, J!IsActive(job),
         NEW next \in J!Job, J!Become(job, next), next.lease = jobs[job].lease,
         jobs[job].run = "over" => next.run = "over",
         RunFits(job)', ChangeFits(job)', IsUnwritten(job)' => IsUnwritten(job),
         next.run \in {"running", "validating"} => jobs[job].run \in {"running", "validating"}
  PROVE  SessionInvariant'
<1> USE NullsAreApart
<1>1. TypeOK
  BY DEF SessionInvariant
<1>2. jobs'[job] \in J!Job /\ jobs'[job].run = next.run
  BY <1>1, BecomeIs
<1>3. J!Written(job)' <=> J!Written(job)
  BY DEF J!Written
<1>4. changes[job].state # "none" => ContentsFit(job)'
  BY <1>2, ActiveFits DEF ContentsFit
<1>5. JobFits(job)'
  BY <1>2, <1>3, <1>4, ActiveFits DEF JobFits
<1>6. OthersStand(job)
  BY DEF OthersStand
<1>7. /\ project' \in J!Contents /\ changes' \in [Jobs -> J!Change \cup {J!NoChange}]
      /\ \A b \in Jobs \ {job} : changes'[b] = changes[b]
  BY ActiveFits
<1> QED BY <1>5, <1>6, <1>7, BecomeInvariant

(* The run is cut its worktree: what it starts from is what is there.      *)
LEMMA RunAdvancesInvariant ==
  ASSUME SessionInvariant, UNCHANGED askVars, NEW job \in Jobs, J!RunAdvances(job)
  PROVE  SessionInvariant'
<1> USE NullsAreApart
<1>1. /\ TypeOK /\ jobs[job] # J!NoJob /\ jobs[job] \in J!Job /\ ~jobs[job].aborted
      /\ project' = project /\ project \in J!Contents
      /\ changes \in [Jobs -> J!Change \cup {J!NoChange}]
      /\ jobs[job].run \in {"preparing", "running", "validating"}
      /\ jobs[job].status = jobs[job].run
  BY ActiveFits DEF SessionInvariant, J!RunAdvances, J!Cut, J!Captured, RunFits
<1>2. J!IsActive(job) /\ ~J!Written(job) /\ OthersStand(job) /\ (J!Written(job)' <=> J!Written(job))
  BY <1>1, ActiveFits DEF J!IsActive, J!ActiveStatuses, IsUnwritten, OthersStand, J!Written
<1>3. \A f \in Files : project[f] \in J!Content /\ project[f].edits \in Nat
  BY <1>1, SessionAssumption DEF J!Contents, J!Content
<1>4. CASE jobs[job].run = "preparing"
  <2> DEFINE next == [jobs[job] EXCEPT !.run = "running", !.status = "running"]
  <2>1. J!Become(job, next) /\ J!Cut(job)
    BY <1>4 DEF J!RunAdvances
  <2>2. /\ next \in J!Job /\ next.lease = jobs[job].lease /\ next.run = "running"
        /\ next.status = "running" /\ ~next.aborted
    BY <1>1 DEF J!Job, J!Statuses, J!ActiveStatuses
  <2> HIDE DEF next
  <2>3. /\ jobs'[job] \in J!Job /\ jobs'[job].run = "running" /\ jobs'[job].status = "running"
        /\ ~jobs'[job].aborted
    BY <1>1, <2>1, <2>2, BecomeIs
  <2> DEFINE change == [state |-> "cut", step |-> "none", cut |-> project, base |-> project]
  <2>4. change \in J!Change
    BY <1>1 DEF J!Change
  <2>5. /\ changes' = [changes EXCEPT ![job] = change]
        /\ changes' \in [Jobs -> J!Change \cup {J!NoChange}] /\ changes'[job] = change
        /\ \A b \in Jobs \ {job} : changes'[b] = changes[b]
    BY <1>1, <2>1, <2>4 DEF J!Cut
  <2>6. ContentsFit(job)'
    BY <1>1, <1>3, <2>3, <2>5 DEF ContentsFit
  <2>7. JobFits(job)'
    BY <1>2, <2>3, <2>5, <2>6 DEF JobFits, RunFits, ChangeFits
  <2> QED BY <1>1, <1>2, <1>4, <2>1, <2>2, <2>5, <2>7, BecomeInvariant
<1>5. CASE jobs[job].run = "running"
  <2> DEFINE next == [jobs[job] EXCEPT !.run = "validating", !.status = "validating"]
  <2>1. J!Become(job, next) /\ UNCHANGED changes
    BY <1>5 DEF J!RunAdvances
  <2>2. /\ next \in J!Job /\ next.lease = jobs[job].lease /\ next.run = "validating"
        /\ next.status = "validating" /\ ~next.aborted
    BY <1>1 DEF J!Job, J!Statuses, J!ActiveStatuses
  <2> HIDE DEF next
  <2>3. /\ jobs'[job].run = "validating" /\ jobs'[job].status = "validating"
        /\ ~jobs'[job].aborted
    BY <1>1, <2>1, <2>2, BecomeIs
  <2>4. RunFits(job)' /\ ChangeFits(job)' /\ IsUnwritten(job)
    BY <1>1, <1>5, <2>1, <2>3, ActiveFits DEF RunFits, ChangeFits, IsUnwritten
  <2> QED BY <1>1, <1>2, <1>5, <2>1, <2>2, <2>4, StatusMoves
<1>6. CASE jobs[job].run = "validating"
  <2> DEFINE next == [jobs[job] EXCEPT !.run = "captured"]
  <2>1. J!Become(job, next) /\ J!Captured(job)
    BY <1>6 DEF J!RunAdvances
  <2>2. /\ next \in J!Job /\ next.lease = jobs[job].lease /\ next.run = "captured"
        /\ next.status = "validating" /\ ~next.aborted
    BY <1>1, <1>6 DEF J!Job
  <2> HIDE DEF next
  <2>3. /\ jobs'[job] \in J!Job /\ jobs'[job].run = "captured" /\ jobs'[job].status = "validating"
        /\ ~jobs'[job].aborted
    BY <1>1, <2>1, <2>2, BecomeIs
  <2>4. changes[job] \in J!Change /\ changes[job].state = "cut" /\ ContentsFit(job) /\ changes[job].step = "none"
    BY <1>1, <1>6, ActiveFits DEF ChangeFits
  <2>5. /\ changes' \in [Jobs -> J!Change \cup {J!NoChange}]
        /\ changes'[job].state = "prepared" /\ changes'[job].step = "none"
        /\ changes'[job].cut = changes[job].cut /\ changes'[job].base = project
        /\ \A b \in Jobs \ {job} : changes'[b] = changes[b]
    BY <1>1, <2>1, <2>4 DEF J!Captured, J!Change
  <2>6. ContentsFit(job)'
    BY <1>1, <1>3, <1>6, <2>3, <2>4, <2>5 DEF ContentsFit
  <2>7. JobFits(job)'
    BY <1>2, <2>3, <2>5, <2>6 DEF JobFits, RunFits, ChangeFits
  <2> QED BY <1>1, <1>2, <1>6, <2>1, <2>2, <2>5, <2>7, BecomeInvariant
<1> QED BY <1>1, <1>4, <1>5, <1>6

(* A run that fails or hears that it is aborted has its worktree removed.  *)
LEMMA RunFailsInvariant ==
  ASSUME SessionInvariant, UNCHANGED askVars, NEW job \in Jobs,
         J!RunFails(job) \/ J!RunIsAborted(job)
  PROVE  SessionInvariant'
<1> DEFINE next == [jobs[job] EXCEPT !.run = "failed"]
<1>1. /\ TypeOK /\ jobs[job] # J!NoJob /\ jobs[job] \in J!Job /\ UNCHANGED <<project, changes>>
      /\ J!Become(job, next)
      /\ jobs[job].run \in {"preparing", "running", "validating", "captured"}
      /\ jobs[job].status \in {"preparing", "running", "validating", "cancelling"}
  BY ActiveFits DEF SessionInvariant, J!RunFails, J!RunIsAborted, RunFits
<1>2. /\ next \in J!Job /\ next.lease = jobs[job].lease /\ next.run = "failed"
      /\ next.status = jobs[job].status /\ next.aborted = jobs[job].aborted
  BY <1>1 DEF J!Job
<1> HIDE DEF next
<1>3. /\ jobs'[job].run = "failed" /\ jobs'[job].status = jobs[job].status
      /\ jobs'[job].aborted = jobs[job].aborted
  BY <1>1, <1>2, BecomeIs
<1>4. J!IsActive(job) /\ RunFits(job)' /\ ChangeFits(job)' /\ IsUnwritten(job)
  BY <1>1, <1>3, ActiveFits DEF RunFits, ChangeFits, IsUnwritten, J!IsActive, J!ActiveStatuses
<1> QED BY <1>1, <1>2, <1>4, StatusMoves

(* finishWithError(): nothing of a run that failed is in the project.      *)
LEMMA RunEndsInErrorInvariant ==
  ASSUME SessionInvariant, UNCHANGED askVars, NEW job \in Jobs, J!RunEndsInError(job)
  PROVE  SessionInvariant'
<1> DEFINE next == [jobs[job] EXCEPT !.run = "over",
                      !.status = IF jobs[job].aborted THEN "cancelled" ELSE "failed"]
<1>1. /\ TypeOK /\ jobs[job] # J!NoJob /\ jobs[job] \in J!Job /\ UNCHANGED <<project, changes>>
      /\ J!Become(job, next) /\ jobs[job].run = "failed"
      /\ jobs[job].status \in {"preparing", "running", "validating", "cancelling"}
  BY ActiveFits DEF SessionInvariant, J!RunEndsInError, RunFits
<1>2. /\ next \in J!Job /\ next.lease = jobs[job].lease /\ next.run = "over"
      /\ next.status \in {"cancelled", "failed"}
  BY <1>1 DEF J!Job, J!Statuses, J!PrunableStatuses
<1> HIDE DEF next
<1>3. jobs'[job].run = "over" /\ jobs'[job].status \in {"cancelled", "failed"}
  BY <1>1, <1>2, BecomeIs
<1>4. J!IsActive(job) /\ RunFits(job)' /\ ChangeFits(job)' /\ IsUnwritten(job)
  BY <1>1, <1>3, ActiveFits DEF RunFits, ChangeFits, IsUnwritten, J!IsActive, J!ActiveStatuses
<1> QED BY <1>1, <1>2, <1>4, StatusMoves

(* A change that is applied begins with a comparison of the files.         *)
LEMMA ApplyBegins ==
  ASSUME SessionInvariant, UNCHANGED askVars, NEW job \in Jobs,
         jobs[job] # J!NoJob, J!IsActive(job), IsUnwritten(job), changes[job].state = "prepared",
         NEW next \in J!Job, J!Become(job, next), next.lease = jobs[job].lease,
         next.status = "applying", next.run \in {"applying", "over"},
         jobs[job].run = "over" => next.run = "over",
         J!Begin(job, "applying")
  PROVE  SessionInvariant'
<1> USE NullsAreApart
<1>1. /\ TypeOK /\ jobs[job] \in J!Job /\ project' = project /\ project \in J!Contents
      /\ changes \in [Jobs -> J!Change \cup {J!NoChange}]
      /\ changes[job] \in J!Change /\ ContentsFit(job) /\ ~J!Written(job)
  BY ActiveFits DEF SessionInvariant, J!Begin
<1>2. jobs'[job] \in J!Job /\ jobs'[job].run = next.run /\ jobs'[job].status = "applying"
  BY <1>1, BecomeIs
<1>3. /\ changes' \in [Jobs -> J!Change \cup {J!NoChange}]
      /\ changes'[job].state = "applying" /\ changes'[job].step = "comparing"
      /\ changes'[job].cut = changes[job].cut /\ changes'[job].base = changes[job].base
      /\ \A b \in Jobs \ {job} : changes'[b] = changes[b]
  BY <1>1 DEF J!Begin, J!Change
<1>4. ContentsFit(job)' /\ (J!Written(job)' <=> J!Written(job)) /\ OthersStand(job)
  BY <1>1, <1>2, <1>3 DEF ContentsFit, J!Written, OthersStand
<1>5. JobFits(job)'
  BY <1>1, <1>2, <1>3, <1>4 DEF JobFits, RunFits, ChangeFits
<1> QED BY <1>1, <1>3, <1>4, <1>5, BecomeInvariant

(* executeAgentChange() resolves: the change is empty, has failed its      *)
(* checks, waits for a review or is applied at once.                       *)
LEMMA RunResolvesInvariant ==
  ASSUME SessionInvariant, UNCHANGED askVars, NEW job \in Jobs, NEW change \in J!Changes,
         J!RunResolves(job, change)
  PROVE  SessionInvariant'
<1> DEFINE done == [jobs[job] EXCEPT !.change = change, !.run = "over"]
<1>1. /\ TypeOK /\ jobs[job] # J!NoJob /\ jobs[job] \in J!Job /\ jobs[job].run = "captured"
      /\ jobs[job].status \in {"preparing", "running", "validating", "cancelling"}
      /\ changes[job].state = "prepared" /\ changes[job].step = "none"
  BY ActiveFits DEF SessionInvariant, J!RunResolves, RunFits, ChangeFits
<1>2. J!IsActive(job) /\ IsUnwritten(job)
  BY <1>1 DEF IsUnwritten, J!IsActive, J!ActiveStatuses
<1>3. ASSUME NEW status \in {"failed", "completed", "awaiting-review"},
             J!Become(job, [done EXCEPT !.status = status]), UNCHANGED <<project, changes>>
      PROVE  SessionInvariant'
  <2> DEFINE next == [done EXCEPT !.status = status]
  <2>1. /\ next \in J!Job /\ next.lease = jobs[job].lease /\ next.run = "over"
        /\ next.status = status
    BY <1>1 DEF J!Job, J!Statuses, J!ActiveStatuses, J!PrunableStatuses, J!Changes
  <2>2. J!Become(job, next)
    BY <1>3
  <2> HIDE DEF next, done
  <2>3. jobs'[job].run = "over" /\ jobs'[job].status = status
    BY <1>1, <2>1, <2>2, BecomeIs
  <2>4. RunFits(job)' /\ ChangeFits(job)'
    BY <1>1, <1>3, <2>3 DEF RunFits, ChangeFits
  <2> QED BY <1>1, <1>2, <1>3, <2>1, <2>2, <2>4, StatusMoves
<1>4. ASSUME J!Become(job, [done EXCEPT !.status = "applying", !.run = "applying"]),
             J!Begin(job, "applying")
      PROVE  SessionInvariant'
  <2> DEFINE next == [done EXCEPT !.status = "applying", !.run = "applying"]
  <2>1. /\ next \in J!Job /\ next.lease = jobs[job].lease /\ next.run = "applying"
        /\ next.status = "applying"
    BY <1>1 DEF J!Job, J!Statuses, J!ActiveStatuses, J!Changes
  <2>2. J!Become(job, next)
    BY <1>4
  <2> HIDE DEF next, done
  <2> QED BY <1>1, <1>2, <1>4, <2>1, <2>2, ApplyBegins
<1> QED BY <1>3, <1>4 DEF J!RunResolves

(* The user applies a change after the review.                             *)
LEMMA ApplyInvariant ==
  ASSUME SessionInvariant, UNCHANGED askVars, NEW job \in Jobs, J!Apply(job)
  PROVE  SessionInvariant'
<1> DEFINE next == [jobs[job] EXCEPT !.status = "applying"]
<1>1. /\ TypeOK /\ jobs[job].status = "awaiting-review" /\ J!Become(job, next)
      /\ J!Begin(job, "applying")
  BY DEF SessionInvariant, J!Apply
<1>2. jobs[job] # J!NoJob /\ jobs[job] \in J!Job
  BY <1>1, Types, NullsAreApart
<1>3. jobs[job].run = "over" /\ changes[job].state = "prepared" /\ IsUnwritten(job) /\ J!IsActive(job)
  BY <1>1, <1>2, ActiveFits DEF RunFits, ChangeFits, IsUnwritten, J!IsActive, J!ActiveStatuses, J!Job
<1>4. /\ next \in J!Job /\ next.lease = jobs[job].lease /\ next.run = "over"
      /\ next.status = "applying"
  BY <1>2, <1>3 DEF J!Job, J!Statuses, J!ActiveStatuses
<1> HIDE DEF next
<1> QED BY <1>1, <1>2, <1>3, <1>4, ApplyBegins

-----------------------------------------------------------------------------
(* Writing the files.                                                      *)

(* git changes the files by its own job's change only, and no edit.        *)
LEMMA GitWritesIs ==
  ASSUME NEW job \in Jobs, NEW written \in SUBSET Files, project \in J!Contents,
         J!GitWrites(job, written)
  PROVE  project' \in J!Contents /\ OthersStand(job)
<1>1. ASSUME NEW f \in Files
      PROVE  /\ project'[f] \in J!Content /\ project'[f].edits = project[f].edits
             /\ \A b \in Jobs \ {job} : b \in project'[f].by <=> b \in project[f].by
  <2>1. project[f] \in J!Content
    BY DEF J!Contents
  <2>2. project'[f] \in {project[f], [project[f] EXCEPT !.by = @ \cup {job}],
                         [project[f] EXCEPT !.by = @ \ {job}]}
    BY DEF J!GitWrites, J!Patched, J!With, J!Without
  <2> QED BY <2>1, <2>2 DEF J!Content
<1>2. project' = [f \in Files |-> project'[f]]
  BY DEF J!GitWrites
<1> QED BY <1>1, <1>2 DEF J!Contents, OthersStand

(* A job whose change is being written is active, and says which way.      *)
LEMMA WriterFits ==
  ASSUME SessionInvariant, NEW job \in Jobs, changes[job] # J!NoChange,
         changes[job].step # "none"
  PROVE  /\ TypeOK /\ jobs[job] # J!NoJob /\ jobs[job] \in J!Job /\ J!IsActive(job)
         /\ changes[job] \in J!Change /\ jobs[job].status = changes[job].state
         /\ jobs[job].status \in {"applying", "reverting"}
         /\ jobs[job].run \in {"applying", "over"}
         /\ jobs[job].status = "reverting" => jobs[job].run = "over"
         /\ RunFits(job) /\ ChangeFits(job) /\ ContentsFit(job)
         /\ project \in J!Contents /\ changes \in [Jobs -> J!Change \cup {J!NoChange}]
<1> USE NullsAreApart
<1>1. TypeOK /\ changes[job] \in J!Change /\ changes[job].state # "none"
  BY Types DEF SessionInvariant, J!Change
<1>2. jobs[job] # J!NoJob
  BY <1>1 DEF SessionInvariant, JobFits
<1>3. /\ jobs[job] \in J!Job /\ RunFits(job) /\ ChangeFits(job) /\ ContentsFit(job)
      /\ project \in J!Contents /\ changes \in [Jobs -> J!Change \cup {J!NoChange}]
  BY <1>1, <1>2, ActiveFits
<1>4. jobs[job].status \in {"applying", "reverting"} /\ jobs[job].status = changes[job].state
  BY <1>1, <1>3 DEF ChangeFits
<1> QED BY <1>1, <1>2, <1>3, <1>4 DEF RunFits, J!IsActive, J!ActiveStatuses, J!Job

(* A comparison or a patch in the middle of an apply or a revert.          *)
LEMMA WriteProceedsInvariant ==
  ASSUME SessionInvariant, UNCHANGED askVars, NEW job \in Jobs, J!WriteProceeds(job)
  PROVE  SessionInvariant'
<1> USE NullsAreApart
<1>1. changes[job] # J!NoChange /\ changes[job].step \in {"comparing", "writing"}
  BY DEF J!WriteProceeds, J!Compared, J!Wrote, J!GitWrites
<1>2. /\ jobs' = jobs /\ active' = active /\ UNCHANGED <<configured, retained, jobsClosed>>
      /\ jobs[job] \in J!Job /\ J!IsActive(job) /\ TypeOK
      /\ jobs \in [Jobs -> J!Job \cup {J!NoJob}]
  BY <1>1, WriterFits, Types DEF J!WriteProceeds
<1>3. /\ changes' \in [Jobs -> J!Change \cup {J!NoChange}]
      /\ changes'[job].state = changes[job].state /\ changes'[job].step \in {"writing", "verifying"}
      /\ changes'[job].cut = changes[job].cut /\ changes'[job].base = changes[job].base
      /\ \A b \in Jobs \ {job} : changes'[b] = changes[b]
      /\ changes'[job].step = "writing" => changes[job].step = "comparing" /\ project' = project
  BY <1>1, WriterFits DEF J!WriteProceeds, J!Compared, J!Wrote, J!Change
<1>4. project' \in J!Contents /\ OthersStand(job)
  <2>1. CASE J!Compared(job)
    BY <1>1, <2>1, WriterFits DEF J!Compared, OthersStand
  <2>2. CASE J!Wrote(job)
    BY <1>1, <2>2, WriterFits, GitWritesIs DEF J!Wrote
  <2> QED BY <2>1, <2>2 DEF J!WriteProceeds
<1>5. ContentsFit(job)'
  BY <1>1, <1>2, <1>3, <1>4, WriterFits DEF ContentsFit, OthersStand
<1>6. JobFits(job)'
  <2>1. RunFits(job)' /\ ChangeFits(job)'
    BY <1>1, <1>2, <1>3, WriterFits DEF RunFits, ChangeFits
  <2>2. IsUnwritten(job)' => ~J!Written(job)'
    BY <1>1, <1>2, <1>3, WriterFits, ActiveFits DEF IsUnwritten, J!Written
  <2> QED BY <1>1, <1>2, <1>5, <2>1, <2>2, WriterFits DEF JobFits
<1>7. /\ jobs'[job].lease <=> (jobs[job].lease /\ jobs'[job].status \in J!ActiveStatuses)
      /\ active' = J!Release(jobs[job].lease /\ jobs'[job].status \notin J!ActiveStatuses, "change")
  BY <1>2 DEF J!IsActive, J!Release
<1> QED BY <1>2, <1>3, <1>4, <1>6, <1>7, JobMoves

(* An apply or a revert that ends, verified or not.                        *)
LEMMA WriteEndsInvariant ==
  ASSUME SessionInvariant, UNCHANGED askVars, NEW job \in Jobs,
         NEW next \in J!Job, J!Become(job, next), next.lease = jobs[job].lease, next.run = "over",
         \/ J!Verified(job) /\ next.status = changes'[job].state
         \/ /\ J!Failed(job)
            /\ next.status = IF changes[job].state = "applying" THEN "failed" ELSE "applied"
  PROVE  SessionInvariant'
<1> USE NullsAreApart
<1>1. changes[job] # J!NoChange /\ changes[job].step # "none"
  BY DEF J!Verified, J!Failed
<1>2. /\ TypeOK /\ jobs'[job] \in J!Job /\ jobs'[job].run = "over" /\ jobs'[job].status = next.status
      /\ jobs[job] \in J!Job /\ J!IsActive(job)
  BY <1>1, WriterFits, BecomeIs
<1>3. /\ changes' \in [Jobs -> J!Change \cup {J!NoChange}] /\ changes'[job] \in J!Change
      /\ changes'[job].cut = changes[job].cut /\ changes'[job].base = changes[job].base
      /\ changes'[job].step = "none" /\ changes'[job].state \in {"prepared", "applied", "reverted"}
      /\ \A b \in Jobs \ {job} : changes'[b] = changes[b]
  BY <1>1, WriterFits DEF J!Verified, J!Failed, J!Change
<1>4. project' \in J!Contents /\ OthersStand(job)
  <2>1. CASE UNCHANGED project
    BY <1>1, <2>1, WriterFits DEF OthersStand
  <2>2. CASE \E written \in SUBSET Files : J!GitWrites(job, written)
    BY <1>1, <2>2, WriterFits, GitWritesIs
  <2> QED BY <2>1, <2>2 DEF J!Verified, J!Failed
<1>5. changes'[job].state \in {"applied", "reverted"} =>
        \A f \in Files : changes[job].base[f].edits = changes[job].cut[f].edits
  <2>1. CASE changes[job].state = "applying" /\ J!Verified(job)
    <3>1. project = J!With(changes[job].cut, job)
      BY <2>1 DEF J!Verified, J!After, J!Expected
    <3>2. ASSUME NEW f \in Files
          PROVE  changes[job].base[f].edits = changes[job].cut[f].edits
      <4>1. changes[job].cut[f] \in J!Content /\ changes[job].base[f] \in J!Content
        BY <1>1, WriterFits DEF J!Change, J!Contents
      <4>2. project[f].edits = changes[job].cut[f].edits
        BY <3>1, <4>1 DEF J!With, J!Content
      <4>3. /\ changes[job].cut[f].edits <= changes[job].base[f].edits
            /\ changes[job].base[f].edits <= project[f].edits
        BY <1>1, <2>1, WriterFits DEF ContentsFit
      <4> QED BY <4>1, <4>2, <4>3, SessionAssumption DEF J!Content
    <3> QED BY <3>2
  <2>2. CASE changes[job].state = "applying" /\ J!Failed(job)
    BY <1>1, <2>2, WriterFits DEF J!Failed, J!Change
  <2>3. CASE changes[job].state = "reverting"
    BY <1>1, <2>3, WriterFits DEF ContentsFit
  <2> QED BY <1>1, <2>1, <2>2, <2>3, WriterFits
<1>6. ContentsFit(job)'
  BY <1>1, <1>2, <1>3, <1>4, <1>5, WriterFits DEF ContentsFit, OthersStand
<1>7. /\ next.status \in {"applied", "reverted", "failed"}
      /\ next.status \in {"applied", "reverted"} => changes'[job].state = next.status
      /\ next.status = "failed" => changes'[job].state = "prepared"
  BY <1>1, <1>3, WriterFits DEF J!Verified, J!Failed, J!Change
<1>8. JobFits(job)'
  BY <1>2, <1>3, <1>6, <1>7 DEF JobFits, RunFits, ChangeFits, IsUnwritten
<1> QED BY <1>2, <1>3, <1>4, <1>8, BecomeInvariant

(* The writing step of a job, however it goes.                             *)
LEMMA WriteStepInvariant ==
  ASSUME SessionInvariant, UNCHANGED askVars, NEW job \in Jobs, J!WriteStep(job)
  PROVE  SessionInvariant'
<1> DEFINE ended(status) == [jobs[job] EXCEPT !.status = status, !.run = "over"]
<1>1. ASSUME changes[job] # J!NoChange, changes[job].step # "none",
             NEW status \in {"applied", "failed", "reverted"}
      PROVE  /\ ended(status) \in J!Job /\ ended(status).lease = jobs[job].lease
             /\ ended(status).run = "over" /\ ended(status).status = status
  BY <1>1, WriterFits DEF J!Job, J!Statuses, J!PrunableStatuses
<1>2. ASSUME J!Verified(job), NEW status \in {"applied", "reverted"},
             status = IF changes[job].state = "applying" THEN "applied" ELSE "reverted",
             J!Become(job, ended(status))
      PROVE  SessionInvariant'
  <2>1. changes[job] # J!NoChange /\ changes[job].step # "none"
    BY <1>2 DEF J!Verified
  <2>2. status = changes'[job].state
    BY <1>2, <2>1, WriterFits DEF J!Verified, J!Change
  <2>3. /\ ended(status) \in J!Job /\ ended(status).lease = jobs[job].lease
        /\ ended(status).run = "over" /\ ended(status).status = status
    BY <1>1, <2>1
  <2> HIDE DEF ended
  <2> QED BY <1>2, <2>2, <2>3, WriteEndsInvariant
<1>3. ASSUME J!Failed(job), NEW status \in {"applied", "failed"},
             status = IF changes[job].state = "applying" THEN "failed" ELSE "applied",
             J!Become(job, ended(status))
      PROVE  SessionInvariant'
  <2>1. changes[job] # J!NoChange /\ changes[job].step # "none"
    BY <1>3 DEF J!Failed
  <2>2. /\ ended(status) \in J!Job /\ ended(status).lease = jobs[job].lease
        /\ ended(status).run = "over" /\ ended(status).status = status
    BY <1>1, <2>1
  <2> HIDE DEF ended
  <2> QED BY <1>3, <2>2, WriteEndsInvariant
<1>4. ASSUME changes[job] # J!NoChange, changes[job].step # "none"
      PROVE  /\ jobs[job].status = changes[job].state
             /\ jobs[job].status = "reverting" =>
                  \A status : [jobs[job] EXCEPT !.status = status] = ended(status)
  BY <1>4, WriterFits DEF J!Job
<1>5. CASE J!WriteProceeds(job)
  BY <1>5, WriteProceedsInvariant
<1>6. CASE J!ApplySucceeds(job)
  BY <1>2, <1>4, <1>6 DEF J!ApplySucceeds, J!Verified
<1>7. CASE J!ApplyFails(job)
  BY <1>3, <1>4, <1>7 DEF J!ApplyFails, J!Failed
<1>8. CASE J!RevertSucceeds(job)
  <2>1. J!Verified(job) /\ jobs[job].status = "reverting" /\ changes[job].state = "reverting"
    BY <1>4, <1>8 DEF J!RevertSucceeds, J!Verified
  <2>2. J!Become(job, ended("reverted"))
    BY <1>4, <1>8, <2>1 DEF J!RevertSucceeds, J!Verified
  <2> HIDE DEF ended
  <2> QED BY <1>2, <2>1, <2>2
<1>9. CASE J!RevertFails(job)
  <2>1. J!Failed(job) /\ jobs[job].status = "reverting" /\ changes[job].state = "reverting"
    BY <1>4, <1>9 DEF J!RevertFails, J!Failed
  <2>2. J!Become(job, ended("applied"))
    BY <1>4, <1>9, <2>1 DEF J!RevertFails, J!Failed
  <2> HIDE DEF ended
  <2> QED BY <1>3, <2>1, <2>2
<1> QED BY <1>5, <1>6, <1>7, <1>8, <1>9 DEF J!WriteStep

-----------------------------------------------------------------------------
(* The user's other calls.                                                 *)

(* A cancelled run is left to its abort, a reviewed change is given up.    *)
LEMMA CancelInvariant ==
  ASSUME SessionInvariant, UNCHANGED askVars, NEW job \in Jobs, J!Cancel(job)
  PROVE  SessionInvariant'
<1> USE NullsAreApart
<1>1. /\ TypeOK /\ UNCHANGED <<project, changes>>
      /\ jobs[job].status \in {"preparing", "running", "validating", "awaiting-review"}
      /\ jobs[job] # J!NoJob /\ jobs[job] \in J!Job
  <2>1. /\ TypeOK /\ UNCHANGED <<project, changes>>
        /\ jobs[job].status \in {"queued", "preparing", "running", "validating", "awaiting-review"}
    BY DEF SessionInvariant, J!Cancel, J!CancellableStatuses
  <2>2. jobs[job] # J!NoJob /\ jobs[job].status # "queued" /\ jobs[job] \in J!Job
    BY <2>1, ActiveFits DEF RunFits
  <2> QED BY <2>1, <2>2
<1>2. J!IsActive(job) /\ IsUnwritten(job)
  BY <1>1 DEF J!IsActive, J!ActiveStatuses, IsUnwritten
<1>3. CASE jobs[job].status = "awaiting-review"
  <2> DEFINE next == [jobs[job] EXCEPT !.status = "cancelled", !.aborted = TRUE, !.change = "none"]
  <2>1. J!Become(job, next)
    BY <1>3 DEF J!Cancel
  <2>2. jobs[job].run = "over" /\ changes[job].state = "prepared"
    BY <1>1, <1>3, ActiveFits DEF RunFits, ChangeFits, J!Job
  <2>3. /\ next \in J!Job /\ next.lease = jobs[job].lease /\ next.run = "over"
        /\ next.status = "cancelled"
    BY <1>1, <2>2 DEF J!Job, J!Statuses, J!PrunableStatuses
  <2> HIDE DEF next
  <2>4. jobs'[job].run = "over" /\ jobs'[job].status = "cancelled"
    BY <1>1, <2>1, <2>3, BecomeIs
  <2>5. RunFits(job)' /\ ChangeFits(job)'
    BY <1>1, <1>3, <2>2, <2>4, ActiveFits DEF RunFits, ChangeFits
  <2> QED BY <1>1, <1>2, <2>1, <2>3, <2>5, StatusMoves
<1>4. CASE jobs[job].status # "awaiting-review"
  <2> DEFINE next == [jobs[job] EXCEPT !.status = "cancelling", !.aborted = TRUE]
  <2>1. J!Become(job, next)
    BY <1>4 DEF J!Cancel
  <2>2. /\ next \in J!Job /\ next.lease = jobs[job].lease /\ next.run = jobs[job].run
        /\ next.status = "cancelling" /\ next.aborted
    BY <1>1 DEF J!Job, J!Statuses, J!ActiveStatuses
  <2> HIDE DEF next
  <2>3. jobs'[job].run = jobs[job].run /\ jobs'[job].status = "cancelling" /\ jobs'[job].aborted
    BY <1>1, <2>1, <2>2, BecomeIs
  <2>4. RunFits(job)' /\ ChangeFits(job)'
    BY <1>1, <1>4, <2>3, ActiveFits DEF RunFits, ChangeFits
  <2> QED BY <1>1, <1>2, <2>1, <2>2, <2>4, StatusMoves
<1> QED BY <1>3, <1>4

(* A revert takes the workspace again, for a job that is not forgotten.    *)
LEMMA RevertInvariant ==
  ASSUME SessionInvariant, UNCHANGED askVars, NEW job \in Jobs, J!Revert(job)
  PROVE  SessionInvariant'
<1> USE NullsAreApart
<1>1. /\ TypeOK /\ project' = project /\ project \in J!Contents
      /\ changes \in [Jobs -> J!Change \cup {J!NoChange}]
      /\ jobs \in [Jobs -> J!Job \cup {J!NoJob}] /\ IsFiniteSet(retained)
      /\ retained \subseteq Jobs /\ Cardinality(retained) <= MaxRetained
      /\ jobs[job].status = "applied" /\ job \in retained /\ jobs[job] # J!NoJob
      /\ active = "none" /\ active' = "change"
      /\ UNCHANGED <<configured, retained, jobsClosed>>
      /\ configured \in J!ApplyModes /\ A!AsksTypeOK /\ jobsClosed \in {"open", "closing", "closed"}
  BY Types DEF SessionInvariant, J!Revert, J!Begin, TypeOK, J!Contents
<1>2. /\ jobs[job] \in J!Job /\ jobs[job].run = "over" /\ changes[job].state = "applied"
      /\ changes[job] \in J!Change /\ ContentsFit(job)
  BY <1>1, ActiveFits DEF RunFits, ChangeFits, J!Job
<1>3. jobsClosed # "closed" /\ Working = {} /\ Asking = {}
  BY <1>1 DEF SessionInvariant, LeasesFit
<1> DEFINE next == [jobs[job] EXCEPT !.status = "reverting", !.lease = TRUE]
<1>4. /\ next \in J!Job /\ next.status = "reverting" /\ next.run = "over" /\ next.lease
  BY <1>2 DEF J!Job, J!Statuses, J!ActiveStatuses
<1>5. jobs' = [jobs EXCEPT ![job] = next]
  BY DEF J!Revert
<1> HIDE DEF next
<1>6. /\ jobs' \in [Jobs -> J!Job \cup {J!NoJob}] /\ jobs'[job] = next
      /\ \A b \in Jobs \ {job} : jobs'[b] = jobs[b]
  BY <1>1, <1>4, <1>5
<1>7. /\ changes' \in [Jobs -> J!Change \cup {J!NoChange}]
      /\ changes'[job].state = "reverting" /\ changes'[job].step = "comparing"
      /\ changes'[job].cut = changes[job].cut /\ changes'[job].base = changes[job].base
      /\ \A b \in Jobs \ {job} : changes'[b] = changes[b]
  BY <1>1, <1>2 DEF J!Revert, J!Begin, J!Change
<1>8. TypeOK'
  BY <1>1, <1>6, <1>7, SameCardinality DEF TypeOK, J!JobsTypeOK, J!ChangesTypeOK, A!AsksTypeOK, askVars
<1>9. Working' = {job} /\ Asking' = {}
  BY <1>1, <1>3, <1>4, <1>6 DEF Working, Asking, J!IsActive, J!ActiveStatuses, askVars
<1>10. LeasesFit'
  <2>1. retained' = {b \in Jobs : jobs'[b] # J!NoJob}
    BY <1>1, <1>3, <1>4, <1>6 DEF SessionInvariant, LeasesFit
  <2>2. \A b \in retained' : jobs'[b].lease <=> J!IsActive(b)'
    BY <1>1, <1>3, <1>4, <1>6 DEF SessionInvariant, LeasesFit, J!IsActive, J!ActiveStatuses
  <2> QED BY <1>1, <1>3, <1>9, <2>1, <2>2 DEF SessionInvariant, LeasesFit, askVars
<1>11. ASSUME NEW b \in Jobs PROVE JobFits(b)'
  <2>1. CASE b = job
    BY <1>1, <1>2, <1>4, <1>6, <1>7, <2>1 DEF JobFits, RunFits, ChangeFits, IsUnwritten, ContentsFit
  <2>2. CASE b # job
    <3>1. /\ jobs'[b] = jobs[b] /\ changes'[b] = changes[b] /\ JobFits(b)
          /\ J!Written(b)' <=> J!Written(b)
      BY <1>1, <1>6, <1>7, <2>2 DEF SessionInvariant, J!Written
    <3> QED BY <1>1, <3>1 DEF JobFits, RunFits, ChangeFits, IsUnwritten, ContentsFit
  <2> QED BY <2>1, <2>2
<1> QED
  BY <1>1, <1>8, <1>10, <1>11 DEF SessionInvariant, AskFits, askVars

(* A request is admitted when nobody works, and any job may then go that   *)
(* is pruned: what stays is what was there, or nothing.                    *)
LEMMA PrunedIs ==
  ASSUME SessionInvariant, NEW table \in J!Pruned
  PROVE  /\ table \subseteq retained /\ IsFiniteSet(table) /\ Cardinality(table) <= MaxRetained
         /\ \A other \in retained \ table : jobs[other].status \in J!PrunableStatuses
         /\ Cardinality(table) < MaxRetained
         /\ J!Kept(table) \in [Jobs -> J!Job \cup {J!NoJob}]
         /\ \A other \in Jobs :
              J!Kept(table)[other] = IF other \in retained \ table THEN J!NoJob ELSE jobs[other]
<1>1. /\ IsFiniteSet(retained) /\ Cardinality(retained) <= MaxRetained /\ Cardinality(retained) \in Nat
      /\ MaxRetained \in Nat \ {0} /\ jobs \in [Jobs -> J!Job \cup {J!NoJob}] /\ retained \subseteq Jobs
  <2>1. IsFiniteSet(retained) /\ TypeOK
    BY DEF SessionInvariant
  <2>2. Cardinality(retained) \in Nat
    BY <2>1, FS_CardinalityType
  <2> QED BY <2>1, <2>2, Types, SessionAssumption
<1>2. J!Cardinality(retained) = Cardinality(retained)
  BY SameCardinality
<1>3. CASE Cardinality(retained) < MaxRetained
  BY <1>1, <1>2, <1>3 DEF J!Pruned, J!Kept
<1>4. CASE ~(Cardinality(retained) < MaxRetained)
  <2>1. PICK gone \in retained : table = retained \ {gone} /\ jobs[gone].status \in J!PrunableStatuses
    BY <1>2, <1>4 DEF J!Pruned
  <2>2. Cardinality(table) = Cardinality(retained) - 1 /\ IsFiniteSet(table)
    BY <1>1, <2>1, FS_RemoveElement
  <2> QED BY <1>1, <2>1, <2>2 DEF J!Kept
<1> QED BY <1>3, <1>4

(* What pruning does to jobs that are over keeps all but the new job's     *)
(* room: the jobs that work or can be reverted stand.                      *)
LEMMA PrunedInvariant ==
  ASSUME SessionInvariant, UNCHANGED <<askVars, project, configured, jobsClosed>>,
         jobsClosed = "open", Working = {}, NEW table \in J!Pruned,
         J!Dropped(retained \ table)
  PROVE  /\ changes' \in [Jobs -> J!Change \cup {J!NoChange}]
         /\ \A other \in Jobs :
              /\ other \in retained \ table => changes'[other] = J!NoChange
              /\ other \notin retained \ table => changes'[other] = changes[other]
         /\ \A other \in Jobs \ table : J!Kept(table)[other] = J!NoJob
         /\ \A other \in table :
              /\ J!Kept(table)[other] = jobs[other] /\ jobs[other] # J!NoJob
              /\ ~jobs[other].lease /\ ~J!IsActive(other) /\ changes'[other] = changes[other]
<1>1. changes \in [Jobs -> J!Change \cup {J!NoChange}] /\ table \subseteq Jobs
  BY Types, PrunedIs DEF SessionInvariant
<1>2. /\ retained = {job \in Jobs : jobs[job] # J!NoJob}
      /\ \A job \in retained : jobs[job].lease <=> J!IsActive(job)
  BY DEF SessionInvariant, LeasesFit
<1> QED BY <1>1, <1>2, PrunedIs DEF J!Dropped, Working

(* A new job takes the workspace, and the place of an old one.             *)
LEMMA CreateInvariant ==
  ASSUME SessionInvariant, UNCHANGED askVars, NEW job \in Jobs, NEW mode \in J!ApplyModes,
         J!Create(job, mode)
  PROVE  SessionInvariant'
<1> USE NullsAreApart
<1> DEFINE next == [status |-> "preparing", mode |-> mode, run |-> "preparing", aborted |-> FALSE,
                    lease |-> TRUE, change |-> "none"]
<1>1. PICK table \in J!Pruned :
        /\ retained' = table \cup {job} /\ J!Dropped(retained \ table)
        /\ jobs' = [J!Kept(table) EXCEPT ![job] = next]
  BY DEF J!Create
<1>2. next \in J!Job /\ next.status = "preparing" /\ next.run = "preparing" /\ next.lease /\ ~next.aborted
  BY DEF J!Job, J!Statuses, J!ActiveStatuses
<1> HIDE DEF next
<1>3. /\ TypeOK /\ jobsClosed = "open" /\ jobs[job] = J!NoJob /\ ~J!Written(job)
      /\ active = "none" /\ active' = "change" /\ UNCHANGED <<configured, jobsClosed, project>>
      /\ configured \in J!ApplyModes /\ A!AsksTypeOK /\ project \in J!Contents
  BY Types DEF SessionInvariant, J!Create, TypeOK, J!Contents
<1>4. Working = {} /\ Asking = {} /\ retained = {b \in Jobs : jobs[b] # J!NoJob}
  BY <1>3 DEF SessionInvariant, LeasesFit
<1>5. /\ table \subseteq retained /\ IsFiniteSet(table) /\ Cardinality(table) < MaxRetained
      /\ J!Kept(table) \in [Jobs -> J!Job \cup {J!NoJob}]
  BY PrunedIs
<1>6. /\ changes' \in [Jobs -> J!Change \cup {J!NoChange}]
      /\ \A other \in Jobs :
           /\ other \in retained \ table => changes'[other] = J!NoChange
           /\ other \notin retained \ table => changes'[other] = changes[other]
      /\ \A other \in Jobs \ table : J!Kept(table)[other] = J!NoJob
      /\ \A other \in table :
           /\ J!Kept(table)[other] = jobs[other] /\ jobs[other] # J!NoJob
           /\ ~jobs[other].lease /\ ~J!IsActive(other) /\ changes'[other] = changes[other]
  BY <1>1, <1>3, <1>4, PrunedInvariant
<1>7. /\ jobs' \in [Jobs -> J!Job \cup {J!NoJob}] /\ jobs'[job] = next /\ job \notin table
      /\ \A other \in Jobs \ {job} : jobs'[other] = J!Kept(table)[other]
  BY <1>1, <1>2, <1>3, <1>5, <1>6
<1>8. IsFiniteSet(retained') /\ Cardinality(retained') <= MaxRetained /\ retained' \subseteq Jobs
  <2>1. Cardinality(table \cup {job}) = Cardinality(table) + 1 /\ IsFiniteSet(table \cup {job})
    BY <1>5, <1>7, FS_AddElement
  <2>2. Cardinality(table) \in Nat
    BY <1>5, FS_CardinalityType
  <2> QED BY <1>1, <1>4, <1>5, <2>1, <2>2, SessionAssumption
<1>9. TypeOK'
  BY <1>3, <1>6, <1>7, <1>8, SameCardinality
  DEF TypeOK, J!JobsTypeOK, J!ChangesTypeOK, A!AsksTypeOK, askVars
<1>10. Working' = {job} /\ Asking' = {}
  BY <1>2, <1>3, <1>4, <1>6, <1>7 DEF Working, Asking, J!IsActive, J!ActiveStatuses, askVars
<1>11. LeasesFit'
  <2>1. retained' = {b \in Jobs : jobs'[b] # J!NoJob}
    BY <1>1, <1>2, <1>4, <1>5, <1>6, <1>7
  <2>2. \A b \in retained' : jobs'[b].lease <=> J!IsActive(b)'
    BY <1>1, <1>2, <1>4, <1>5, <1>6, <1>7 DEF J!IsActive, J!ActiveStatuses
  <2> QED BY <1>3, <1>10, <2>1, <2>2 DEF SessionInvariant, LeasesFit, askVars
<1>12. ASSUME NEW b \in Jobs PROVE JobFits(b)'
  <2>1. JobFits(b) /\ (J!Written(b)' <=> J!Written(b))
    BY <1>3 DEF SessionInvariant, J!Written
  <2>2. CASE b = job
    <3>1. changes'[b].state = "none"
      BY <1>3, <1>4, <1>6, <2>1, <2>2 DEF JobFits
    <3> QED BY <1>2, <1>3, <1>7, <2>1, <2>2, <3>1 DEF JobFits, RunFits, ChangeFits
  <2>3. CASE b # job /\ b \in table
    BY <1>3, <1>6, <1>7, <2>1, <2>3 DEF JobFits, RunFits, ChangeFits, IsUnwritten, ContentsFit
  <2>4. CASE b # job /\ b \notin table
    <3>1. jobs'[b] = J!NoJob
      BY <1>6, <1>7, <2>4
    <3>2. changes'[b].state = "none"
      BY <1>4, <1>6, <2>1, <2>4 DEF JobFits
    <3> QED BY <3>1, <3>2 DEF JobFits
  <2> QED BY <2>2, <2>3, <2>4
<1> QED
  BY <1>3, <1>8, <1>9, <1>11, <1>12 DEF SessionInvariant, AskFits, askVars

(* A request that is refused may have cost an old job its place.           *)
LEMMA CreateRefusedInvariant ==
  ASSUME SessionInvariant, UNCHANGED askVars, J!CreateRefused
  PROVE  SessionInvariant'
<1> USE NullsAreApart
<1>1. PICK table \in J!Pruned :
        retained' = table /\ J!Dropped(retained \ table) /\ jobs' = J!Kept(table)
  BY DEF J!CreateRefused
<1>2. /\ TypeOK /\ jobsClosed = "open" /\ \A job \in retained : ~J!IsActive(job)
      /\ active' = active /\ UNCHANGED <<configured, jobsClosed, project>>
      /\ active \in {"none", "ask", "change"}
      /\ configured \in J!ApplyModes /\ A!AsksTypeOK /\ project \in J!Contents
  BY Types DEF SessionInvariant, J!CreateRefused, TypeOK, J!Contents
<1>3. retained = {b \in Jobs : jobs[b] # J!NoJob} /\ Working = {} /\ active # "change"
  <2>1. retained = {b \in Jobs : jobs[b] # J!NoJob} /\ (active = "change" <=> Working # {})
    BY <1>2 DEF SessionInvariant, LeasesFit
  <2> QED BY <1>2, <2>1 DEF Working, J!IsActive, J!ActiveStatuses
<1>4. /\ table \subseteq retained /\ IsFiniteSet(table) /\ Cardinality(table) <= MaxRetained
      /\ J!Kept(table) \in [Jobs -> J!Job \cup {J!NoJob}]
  BY PrunedIs
<1>5. /\ changes' \in [Jobs -> J!Change \cup {J!NoChange}]
      /\ \A other \in Jobs :
           /\ other \in retained \ table => changes'[other] = J!NoChange
           /\ other \notin retained \ table => changes'[other] = changes[other]
      /\ \A other \in Jobs \ table : J!Kept(table)[other] = J!NoJob
      /\ \A other \in table :
           /\ J!Kept(table)[other] = jobs[other] /\ jobs[other] # J!NoJob
           /\ ~jobs[other].lease /\ ~J!IsActive(other) /\ changes'[other] = changes[other]
  BY <1>1, <1>2, <1>3, PrunedInvariant
<1>6. TypeOK'
  BY <1>1, <1>2, <1>3, <1>4, <1>5, SameCardinality
  DEF TypeOK, J!JobsTypeOK, J!ChangesTypeOK, A!AsksTypeOK, askVars
<1>7. Working' = {} /\ Asking' = Asking
  BY <1>1, <1>5 DEF Working, Asking, J!IsActive, J!ActiveStatuses, askVars
<1>8. LeasesFit'
  <2>1. retained' = {b \in Jobs : jobs'[b] # J!NoJob}
    BY <1>1, <1>3, <1>4, <1>5
  <2>2. \A b \in retained' : jobs'[b].lease <=> J!IsActive(b)'
    BY <1>1, <1>5 DEF J!IsActive
  <2> QED BY <1>2, <1>3, <1>7, <2>1, <2>2 DEF SessionInvariant, LeasesFit, askVars
<1>9. ASSUME NEW b \in Jobs PROVE JobFits(b)'
  <2>1. JobFits(b) /\ (J!Written(b)' <=> J!Written(b))
    BY <1>2 DEF SessionInvariant, J!Written
  <2>2. CASE b \in table
    BY <1>1, <1>2, <1>5, <2>1, <2>2 DEF JobFits, RunFits, ChangeFits, IsUnwritten, ContentsFit
  <2>3. CASE b \notin table
    <3>1. jobs'[b] = J!NoJob
      BY <1>1, <1>5, <2>3
    <3>2. changes'[b].state = "none"
      BY <1>3, <1>5, <2>1, <2>3 DEF JobFits
    <3> QED BY <3>1, <3>2 DEF JobFits
  <2> QED BY <2>2, <2>3
<1> QED
  BY <1>1, <1>2, <1>4, <1>6, <1>8, <1>9 DEF SessionInvariant, AskFits, askVars

(* The user's editor takes no part in the jobs: what a change was made     *)
(* from and its baseline may only fall behind.                             *)
LEMMA EditInvariant ==
  ASSUME SessionInvariant, UNCHANGED <<askVars, active, configured, jobs, retained, jobsClosed>>,
         NEW f \in Files, J!Edit(f)
  PROVE  SessionInvariant'
<1>1. /\ TypeOK /\ project \in [Files -> J!Content] /\ MaxEdits \in Nat
      /\ changes' = changes /\ project[f].edits < MaxEdits
      /\ project' = [project EXCEPT ![f].edits = @ + 1]
  BY Types, SessionAssumption DEF SessionInvariant, J!Edit
<1>2. ASSUME NEW g \in Files
      PROVE  /\ project'[g] \in J!Content /\ project'[g].by = project[g].by
             /\ project[g].edits \in Nat /\ project'[g].edits \in Nat
             /\ project[g].edits <= project'[g].edits
  BY <1>1 DEF J!Content
<1>3. project' \in J!Contents
  BY <1>1, <1>2 DEF J!Contents
<1>4. TypeOK'
  BY <1>1, <1>3 DEF TypeOK, J!JobsTypeOK, J!ChangesTypeOK, A!AsksTypeOK, askVars
<1>5. LeasesFit'
  BY DEF SessionInvariant, LeasesFit, Working, Asking, J!IsActive, askVars
<1>6. ASSUME NEW b \in Jobs PROVE JobFits(b)'
  <2>1. JobFits(b) /\ (J!Written(b)' <=> J!Written(b))
    BY <1>2 DEF SessionInvariant, J!Written
  <2>2. ASSUME changes[b].state # "none" PROVE ContentsFit(b)'
    <3>1. changes[b] \in J!Change /\ ContentsFit(b)
      BY <1>1, <2>1, <2>2, Types, NullsAreApart DEF JobFits
    <3>2. ASSUME NEW g \in Files
          PROVE  changes[b].cut[g].edits \in Nat /\ changes[b].base[g].edits \in Nat
      BY <1>1, <3>1 DEF J!Change, J!Contents, J!Content
    <3> QED BY <1>1, <1>2, <3>1, <3>2 DEF ContentsFit
  <2> QED BY <1>1, <2>1, <2>2 DEF JobFits, RunFits, ChangeFits, IsUnwritten
<1> QED
  BY <1>4, <1>5, <1>6 DEF SessionInvariant, AskFits, askVars

-----------------------------------------------------------------------------
(* Closing the jobs.                                                       *)

(* Closing aborts what can be cancelled and leaves the rest as it is.      *)
LEMMA CloseJobsInvariant ==
  ASSUME SessionInvariant, UNCHANGED askVars, asksClosed = "closed", J!CloseJobs
  PROVE  SessionInvariant'
<1> USE NullsAreApart
<1>1. /\ TypeOK /\ jobs \in [Jobs -> J!Job \cup {J!NoJob}] /\ jobsClosed = "open"
      /\ jobsClosed' = "closing" /\ UNCHANGED <<active, configured, retained, project, changes>>
  BY Types DEF SessionInvariant, J!CloseJobs
<1>2. ASSUME NEW b \in Jobs
      PROVE  /\ jobs'[b] \in J!Job \cup {J!NoJob} /\ (jobs'[b] = J!NoJob <=> jobs[b] = J!NoJob)
             /\ jobs'[b].status = jobs[b].status
             /\ jobs[b] # J!NoJob =>
                  /\ jobs'[b].run = jobs[b].run /\ jobs'[b].lease = jobs[b].lease
                  /\ jobs'[b].aborted \in {jobs[b].aborted, TRUE}
  <2>1. jobs'[b] \in {jobs[b], [jobs[b] EXCEPT !.aborted = TRUE]}
    BY DEF J!CloseJobs
  <2>2. CASE jobs[b] = J!NoJob
    BY <2>2 DEF J!CloseJobs, J!CancellableStatuses, J!NoJob
  <2>3. CASE jobs[b] \in J!Job
    <3> DEFINE aborted == [jobs[b] EXCEPT !.aborted = TRUE]
    <3>1. /\ aborted \in J!Job /\ aborted.status = jobs[b].status
          /\ aborted.run = jobs[b].run
      BY <2>3 DEF J!Job
    <3>2. aborted.lease = jobs[b].lease /\ aborted.aborted = TRUE
      BY <2>3 DEF J!Job
    <3>3. jobs'[b] = jobs[b] \/ jobs'[b] = aborted
      BY <2>1
    <3> HIDE DEF aborted
    <3> QED BY <2>3, <3>1, <3>2, <3>3
  <2> QED BY <1>1, <2>2, <2>3
<1>3. jobs' \in [Jobs -> J!Job \cup {J!NoJob}]
  <2>1. jobs' = [b \in Jobs |-> jobs'[b]]
    BY DEF J!CloseJobs
  <2> QED BY <1>2, <2>1
<1>4. TypeOK'
  BY <1>1, <1>3 DEF TypeOK, J!JobsTypeOK, J!ChangesTypeOK, A!AsksTypeOK, askVars
<1>5. LeasesFit'
  <2>1. Working' = Working /\ Asking' = Asking
    BY <1>2 DEF Working, Asking, J!IsActive, askVars
  <2>2. retained = {b \in Jobs : jobs[b] # J!NoJob} /\ \A b \in retained : jobs[b].lease <=> J!IsActive(b)
    BY <1>1 DEF SessionInvariant, LeasesFit
  <2>3. retained' = {b \in Jobs : jobs'[b] # J!NoJob} /\ \A b \in retained' : jobs'[b].lease <=> J!IsActive(b)'
    BY <1>1, <1>2, <2>2 DEF J!IsActive
  <2> QED BY <1>1, <2>1, <2>3 DEF SessionInvariant, LeasesFit, askVars
<1>6. ASSUME NEW b \in Jobs PROVE JobFits(b)'
  <2>1. JobFits(b) /\ (J!Written(b)' <=> J!Written(b))
    BY <1>1 DEF SessionInvariant, J!Written
  <2>2. CASE jobs[b] = J!NoJob
    BY <1>1, <1>2, <2>1, <2>2 DEF JobFits
  <2>3. CASE jobs[b] # J!NoJob
    <3>1. jobs[b].aborted \in BOOLEAN /\ jobs'[b].aborted \in BOOLEAN
      BY <1>1, <1>3, <1>2, <2>3 DEF J!Job
    <3>2. RunFits(b)'
      BY <1>2, <2>1, <2>3, <3>1 DEF JobFits, RunFits
    <3>3. ChangeFits(b)' /\ (IsUnwritten(b)' => IsUnwritten(b))
      BY <1>1, <1>2, <2>1, <2>3 DEF JobFits, ChangeFits, IsUnwritten
    <3>4. changes'[b].state # "none" => ContentsFit(b)'
      BY <1>1, <1>2, <2>1, <2>3 DEF JobFits, ContentsFit
    <3> QED BY <1>1, <1>2, <2>1, <2>3, <3>2, <3>3, <3>4 DEF JobFits
  <2> QED BY <2>2, <2>3
<1> QED
  BY <1>1, <1>4, <1>5, <1>6 DEF SessionInvariant, AskFits, askVars

(* When the runs are over the table is forgotten and the leases returned.  *)
LEMMA JobsCloseEndsInvariant ==
  ASSUME SessionInvariant, UNCHANGED askVars, asksClosed = "closed", J!JobsCloseEnds
  PROVE  SessionInvariant'
<1> USE NullsAreApart
<1>1. /\ TypeOK /\ jobs \in [Jobs -> J!Job \cup {J!NoJob}] /\ jobsClosed = "closing"
      /\ jobsClosed' = "closed" /\ UNCHANGED <<configured, project, changes>>
      /\ retained' = {} /\ \A b \in retained : jobs[b].run = "over"
      /\ active \in {"none", "ask", "change"} /\ MaxRetained \in Nat
  BY Types, SessionAssumption DEF SessionInvariant, J!JobsCloseEnds
<1>2. ASSUME NEW b \in Jobs
      PROVE  /\ jobs'[b] \in J!Job \cup {J!NoJob} /\ (jobs'[b] = J!NoJob <=> jobs[b] = J!NoJob)
             /\ jobs'[b].status = jobs[b].status
             /\ jobs[b] # J!NoJob =>
                  /\ jobs'[b].run = jobs[b].run /\ jobs'[b].lease = FALSE
                  /\ jobs'[b].aborted = jobs[b].aborted
  BY ZenonT(60), <1>1 DEF J!JobsCloseEnds, J!Job
<1>3. jobs' \in [Jobs -> J!Job \cup {J!NoJob}]
  <2>1. jobs' = [b \in Jobs |-> jobs'[b]]
    BY DEF J!JobsCloseEnds
  <2> QED BY <1>2, <2>1
<1>4. IsFiniteSet(retained') /\ Cardinality(retained') <= MaxRetained /\ retained' \subseteq Jobs
  BY <1>1, FS_EmptySet
<1>5. active' \in {active, "none"} /\ active' # "change"
  <2>1. /\ active = "change" => Working # {}
        /\ retained = {b \in Jobs : jobs[b] # J!NoJob}
        /\ \A b \in retained : jobs[b].lease <=> J!IsActive(b)
    BY <1>1 DEF SessionInvariant, LeasesFit
  <2>2. active = "change" => \E b \in retained : jobs[b].lease
    BY <2>1 DEF Working, J!IsActive, J!ActiveStatuses
  <2> QED BY <1>1, <2>2 DEF J!JobsCloseEnds, J!Release
<1>6. TypeOK'
  BY <1>1, <1>3, <1>4, <1>5, SameCardinality
  DEF TypeOK, J!JobsTypeOK, J!ChangesTypeOK, A!AsksTypeOK, askVars
<1>7. LeasesFit'
  <2>1. Working' = Working /\ Asking' = Asking
    BY <1>2 DEF Working, Asking, J!IsActive, askVars
  <2>2. \A b \in Jobs : jobs'[b] # J!NoJob => jobs'[b].run = "over" /\ ~jobs'[b].lease
    BY <1>1, <1>2 DEF SessionInvariant, LeasesFit
  <2>3. Asking = {}
    BY DEF SessionInvariant, Asking, A!ActiveStatuses
  <2>4. active' # "ask"
    BY <1>5, <2>3 DEF SessionInvariant, LeasesFit
  <2> QED BY <1>1, <1>5, <2>1, <2>2, <2>3, <2>4 DEF SessionInvariant, LeasesFit, askVars
<1>8. ASSUME NEW b \in Jobs PROVE JobFits(b)'
  <2>1. JobFits(b) /\ (J!Written(b)' <=> J!Written(b))
    BY <1>1 DEF SessionInvariant, J!Written
  <2> QED BY <1>1, <1>2, <2>1 DEF JobFits, RunFits, ChangeFits, IsUnwritten, ContentsFit
<1> QED
  BY <1>1, <1>4, <1>6, <1>7, <1>8 DEF SessionInvariant, AskFits, askVars

-----------------------------------------------------------------------------
(* The questions.                                                          *)

(* When one question moves, fits again, and the coordinator knows whether  *)
(* anybody still asks, then everything fits again.                         *)
LEMMA AskMoves ==
  ASSUME SessionInvariant, UNCHANGED jobVars, UNCHANGED asksClosed, asksClosed # "closed",
         NEW request \in AskRequests,
         asks' \in [AskRequests -> A!Ask \cup {A!NoAsk}],
         \A other \in AskRequests \ {request} :
           asks'[other] = asks[other] \/
             (asks[other].status \in A!TerminalStatuses /\ asks'[other] = A!NoAsk),
         asks'[request] # A!NoAsk => AskFits(request)',
         active' \in {"none", "ask", "change"}, active' = "change" <=> active = "change",
         active' = "ask" <=> (Asking \ {request} # {} \/ asks'[request].status \in A!ActiveStatuses),
         asks'[request].status \in A!ActiveStatuses => Asking \subseteq {request}
  PROVE  SessionInvariant'
<1> USE NullsAreApart
<1>1. TypeOK /\ A!NoAsk.status \notin A!ActiveStatuses /\ MaxRetained \in Nat
  BY SessionAssumption DEF SessionInvariant, A!ActiveStatuses
<1>2. TypeOK'
  BY <1>1 DEF TypeOK, J!JobsTypeOK, J!ChangesTypeOK, A!AsksTypeOK, jobVars
<1>3. \A other \in AskRequests \ {request} : other \in Asking' <=> other \in Asking
  BY <1>1 DEF Asking, A!ActiveStatuses, A!TerminalStatuses
<1>4. request \in Asking' <=> asks'[request].status \in A!ActiveStatuses
  BY DEF Asking
<1>5. /\ active' = "ask" <=> Asking' # {}
      /\ \A a, b \in Asking' : a = b
  <2>1. Asking' \subseteq AskRequests /\ Asking \subseteq AskRequests
    BY DEF Asking
  <2>2. \A a, b \in Asking : a = b
    BY DEF SessionInvariant, LeasesFit
  <2> QED BY <1>3, <1>4, <2>1, <2>2
<1>6. LeasesFit'
  <2>1. Working' = Working
    BY DEF Working, J!IsActive, jobVars
  <2> QED BY <1>5, <2>1 DEF SessionInvariant, LeasesFit, J!IsActive, jobVars
<1>7. \A b \in Jobs : JobFits(b)'
  BY DEF SessionInvariant, JobFits, RunFits, ChangeFits, IsUnwritten, ContentsFit, J!Written, jobVars
<1>8. \A other \in AskRequests : asks'[other] # A!NoAsk => AskFits(other)'
  BY DEF SessionInvariant, AskFits
<1> QED BY <1>2, <1>6, <1>7, <1>8 DEF SessionInvariant, jobVars

(* A question that is active has the workspace for itself.                 *)
LEMMA AskerFits ==
  ASSUME SessionInvariant, NEW request \in AskRequests,
         asks[request].status \in A!ActiveStatuses
  PROVE  /\ asks[request] \in A!Ask /\ AskFits(request) /\ asksClosed # "closed"
         /\ Asking = {request} /\ active = "ask"
         /\ asks \in [AskRequests -> A!Ask \cup {A!NoAsk}]
<1>1. TypeOK /\ asks[request] # A!NoAsk
  BY NullsAreApart DEF SessionInvariant, A!ActiveStatuses
<1>2. asks[request] \in A!Ask /\ AskFits(request) /\ asksClosed # "closed"
  BY <1>1, Types DEF SessionInvariant
<1>3. request \in Asking /\ Asking = {request} /\ active = "ask"
  BY DEF SessionInvariant, LeasesFit, Asking
<1> QED BY <1>1, <1>2, <1>3, Types

(* A question that goes on, and keeps the workspace.                       *)
LEMMA AskGoesOn ==
  ASSUME SessionInvariant, UNCHANGED jobVars, UNCHANGED <<active, asksClosed>>,
         NEW request \in AskRequests, asks[request].status \in A!ActiveStatuses,
         NEW ask \in A!Ask, asks' = [asks EXCEPT ![request] = ask],
         ask.status \in A!ActiveStatuses, ask.status # "asking", ask.run \notin {"none", "over"},
         ask.status = "cancelling" => ask.aborted # "no" /\ ~ask.snapshot
  PROVE  SessionInvariant'
<1>1. /\ asks' \in [AskRequests -> A!Ask \cup {A!NoAsk}] /\ asks'[request] = ask
      /\ \A other \in AskRequests \ {request} : asks'[other] = asks[other]
      /\ Asking = {request} /\ active = "ask" /\ asksClosed # "closed"
  BY AskerFits
<1>2. AskFits(request)'
  BY <1>1 DEF AskFits, A!ActiveStatuses, A!TerminalStatuses
<1> QED BY <1>1, <1>2, AskMoves

(* A question that ends, or is not admitted, gives the workspace back.     *)
LEMMA AskEnds ==
  ASSUME SessionInvariant, UNCHANGED jobVars, UNCHANGED asksClosed, A!Release("ask"),
         NEW request \in AskRequests, asks[request].status \in A!ActiveStatuses,
         NEW ask \in A!Ask \cup {A!NoAsk}, asks' = [asks EXCEPT ![request] = ask],
         ask # A!NoAsk => ask.status \in A!TerminalStatuses /\ ask.run = "over"
  PROVE  SessionInvariant'
<1>1. /\ asks' \in [AskRequests -> A!Ask \cup {A!NoAsk}] /\ asks'[request] = ask
      /\ \A other \in AskRequests \ {request} : asks'[other] = asks[other]
      /\ Asking = {request} /\ active = "ask" /\ asksClosed # "closed" /\ active' = "none"
  BY AskerFits DEF A!Release
<1>2. ask.status \notin A!ActiveStatuses
  BY NullsAreApart DEF A!ActiveStatuses, A!TerminalStatuses
<1>3. ask # A!NoAsk => AskFits(request)'
  BY <1>1 DEF AskFits, A!TerminalStatuses
<1> QED BY <1>1, <1>2, <1>3, AskMoves

(* The steps a question takes by itself.                                   *)
LEMMA AskStepInvariant ==
  ASSUME SessionInvariant, UNCHANGED jobVars, NEW request \in AskRequests, A!AskStep(request)
  PROVE  SessionInvariant'
<1> USE NullsAreApart
<1>1. CASE A!AskAdmitted(request)
  <2> DEFINE ask == [asks[request] EXCEPT !.status = "authorizing", !.run = "capturing"]
  <2>1. asks[request].status \in A!ActiveStatuses /\ UNCHANGED <<active, asksClosed>>
    BY <1>1 DEF A!AskAdmitted, A!ActiveStatuses
  <2>2. ask \in A!Ask /\ ask.status = "authorizing" /\ ask.run = "capturing"
    BY <2>1, AskerFits DEF A!Ask, A!ActiveStatuses
  <2>3. asks' = [other \in AskRequests |->
           IF other = request THEN ask
           ELSE IF asks[other].status \in A!TerminalStatuses THEN A!NoAsk ELSE asks[other]]
    BY <1>1 DEF A!AskAdmitted
  <2> HIDE DEF ask
  <2>4. /\ asks' \in [AskRequests -> A!Ask \cup {A!NoAsk}] /\ asks'[request] = ask
        /\ \A other \in AskRequests \ {request} :
             asks'[other] = asks[other] \/
               (asks[other].status \in A!TerminalStatuses /\ asks'[other] = A!NoAsk)
    BY <2>1, <2>2, <2>3, AskerFits
  <2>5. AskFits(request)' /\ ask.status \in A!ActiveStatuses
    BY <2>2, <2>4 DEF AskFits, A!ActiveStatuses, A!TerminalStatuses
  <2> QED BY <2>1, <2>4, <2>5, AskerFits, AskMoves
<1>2. CASE A!AskRefused(request)
  <2>1. asks[request].status \in A!ActiveStatuses
    BY <1>2 DEF A!AskRefused, A!ActiveStatuses
  <2> QED BY <1>2, <2>1, AskEnds DEF A!AskRefused, A!Put
<1>3. CASE A!AskCaptured(request)
  <2> DEFINE ask == [asks[request] EXCEPT !.status = "running", !.run = "executing", !.snapshot = TRUE]
  <2>1. /\ asks[request] \in A!Ask /\ asks[request].status \in A!ActiveStatuses
        /\ UNCHANGED <<active, asksClosed>> /\ asks' = [asks EXCEPT ![request] = ask]
    BY <1>3, Types DEF A!AskCaptured, A!Is, A!Put, SessionInvariant, AskFits, A!Ask,
                       A!TerminalStatuses, A!ActiveStatuses
  <2>2. ask \in A!Ask /\ ask.status = "running" /\ ask.run = "executing"
    BY <2>1 DEF A!Ask, A!ActiveStatuses
  <2> HIDE DEF ask
  <2> QED BY <2>1, <2>2, AskGoesOn DEF A!ActiveStatuses
<1>4. CASE A!AskExecuted(request)
  <2> DEFINE ask == [asks[request] EXCEPT !.run = "projecting"]
  <2>1. /\ asks[request] \in A!Ask /\ asks[request].status \in A!ActiveStatuses
        /\ asks[request].status \notin {"asking", "cancelling"}
        /\ UNCHANGED <<active, asksClosed>> /\ asks' = [asks EXCEPT ![request] = ask]
    BY <1>4, Types DEF A!AskExecuted, A!Is, A!Put, SessionInvariant, AskFits, A!Ask,
                       A!TerminalStatuses, A!ActiveStatuses
  <2>2. ask \in A!Ask /\ ask.status = asks[request].status /\ ask.run = "projecting"
    BY <2>1 DEF A!Ask
  <2> HIDE DEF ask
  <2> QED BY <2>1, <2>2, AskGoesOn
<1>5. CASE A!AskAnswered(request)
  <2> DEFINE ask == A!Ended(asks[request], "answered")
  <2>1. /\ asks[request] \in A!Ask /\ asks[request].status \in A!ActiveStatuses
        /\ UNCHANGED asksClosed /\ asks' = [asks EXCEPT ![request] = ask] /\ A!Release("ask")
    BY <1>5, Types DEF A!AskAnswered, A!Is, A!Put, SessionInvariant, AskFits, A!Ask,
                       A!TerminalStatuses, A!ActiveStatuses
  <2>2. ask \in A!Ask /\ ask.status \in A!TerminalStatuses /\ ask.run = "over"
    BY <2>1 DEF A!Ask, A!Ended, A!TerminalStatuses
  <2> HIDE DEF ask
  <2> QED BY <2>1, <2>2, AskEnds
<1>6. CASE A!AskFails(request)
  <2> DEFINE ask == A!Ended(asks[request],
                      IF asks[request].aborted = "cancelled" THEN "cancelled" ELSE "failed")
  <2>1. /\ asks[request] \in A!Ask /\ asks[request].status \in A!ActiveStatuses
        /\ UNCHANGED asksClosed /\ asks' = [asks EXCEPT ![request] = ask] /\ A!Release("ask")
    BY <1>6, AskerFits DEF A!AskFails, A!Put
  <2>2. ask \in A!Ask /\ ask.status \in A!TerminalStatuses /\ ask.run = "over"
    BY <2>1 DEF A!Ask, A!Ended, A!TerminalStatuses
  <2> HIDE DEF ask
  <2> QED BY <2>1, <2>2, AskEnds
<1> QED BY <1>1, <1>2, <1>3, <1>4, <1>5, <1>6 DEF A!AskStep

(* The calls about one question, and the time it may take.                 *)
LEMMA AskCallInvariant ==
  ASSUME SessionInvariant, UNCHANGED jobVars, NEW request \in AskRequests,
         A!AskCreate(request) \/ A!AskTimesOut(request) \/ A!AskCancel(request)
           \/ A!AskExpires(request)
  PROVE  SessionInvariant'
<1> USE NullsAreApart
<1>1. CASE A!AskCreate(request)
  <2> DEFINE ask == [status |-> "asking", run |-> "none", aborted |-> "no", snapshot |-> FALSE]
  <2>1. ask \in A!Ask /\ ask.status = "asking" /\ ask.run = "none" /\ ask.aborted = "no"
    BY DEF A!Ask, A!ActiveStatuses
  <2>2. /\ asks' = [asks EXCEPT ![request] = ask] /\ active = "none" /\ active' = "ask"
        /\ asksClosed = "open" /\ UNCHANGED asksClosed
    BY <1>1 DEF A!AskCreate, A!Put
  <2> HIDE DEF ask
  <2>3. asks' \in [AskRequests -> A!Ask \cup {A!NoAsk}] /\ asks'[request] = ask
    BY <2>1, <2>2, Types DEF SessionInvariant
  <2>4. AskFits(request)' /\ ask.status \in A!ActiveStatuses
    BY <2>1, <2>3 DEF AskFits, A!ActiveStatuses, A!TerminalStatuses
  <2>5. Asking = {}
    BY <2>2 DEF SessionInvariant, LeasesFit
  <2> QED BY <2>2, <2>3, <2>4, <2>5, AskMoves
<1>2. CASE A!AskTimesOut(request)
  <2> DEFINE ask == A!Abort(asks[request], "timeout")
  <2>1. /\ asks[request].status \in A!ActiveStatuses /\ asks[request].status # "asking"
        /\ asks[request].aborted = "no"
        /\ UNCHANGED <<active, asksClosed>> /\ asks' = [asks EXCEPT ![request] = ask]
    BY <1>2 DEF A!AskTimesOut, A!Put
  <2>2. asks[request] \in A!Ask /\ AskFits(request)
    BY <2>1, AskerFits
  <2>3. /\ ask \in A!Ask /\ ask.status = asks[request].status /\ ask.run = asks[request].run
        /\ asks[request].run \notin {"none", "over"} /\ ask.status # "cancelling"
    BY <2>1, <2>2 DEF A!Ask, A!Abort, AskFits, A!ActiveStatuses, A!TerminalStatuses
  <2> HIDE DEF ask
  <2> QED BY <2>1, <2>3, AskGoesOn
<1>3. CASE A!AskCancel(request)
  <2> DEFINE ask == [A!Abort(asks[request], "cancelled") EXCEPT !.status = "cancelling", !.snapshot = FALSE]
  <2>1. /\ asks[request].status \in A!ActiveStatuses /\ asks[request].status \in {"authorizing", "running"}
        /\ UNCHANGED <<active, asksClosed>> /\ asks' = [asks EXCEPT ![request] = ask]
    BY <1>3 DEF A!AskCancel, A!Put, A!ActiveStatuses
  <2>2. asks[request] \in A!Ask /\ AskFits(request)
    BY <2>1, AskerFits
  <2>3. /\ ask \in A!Ask /\ ask.status = "cancelling" /\ ask.run = asks[request].run
        /\ asks[request].run \notin {"none", "over"} /\ ask.aborted # "no" /\ ~ask.snapshot
    BY <2>1, <2>2 DEF A!Ask, A!Abort, AskFits, A!ActiveStatuses, A!TerminalStatuses
  <2> HIDE DEF ask
  <2> QED BY <2>1, <2>3, AskGoesOn DEF A!ActiveStatuses
<1>4. CASE A!AskExpires(request)
  <2>1. /\ asksClosed # "closed" /\ asks[request].status \in A!TerminalStatuses
        /\ asks' = [asks EXCEPT ![request] = A!NoAsk] /\ UNCHANGED <<active, asksClosed>>
    BY <1>4 DEF A!AskExpires, A!Put
  <2>2. /\ asks' \in [AskRequests -> A!Ask \cup {A!NoAsk}] /\ asks'[request] = A!NoAsk
        /\ \A other \in AskRequests \ {request} : asks'[other] = asks[other]
        /\ active \in {"none", "ask", "change"}
    BY <2>1, Types DEF SessionInvariant
  <2>3. request \notin Asking /\ A!NoAsk.status \notin A!ActiveStatuses
    BY <2>1 DEF Asking, A!ActiveStatuses, A!TerminalStatuses
  <2>4. active = "ask" <=> Asking # {}
    BY DEF SessionInvariant, LeasesFit
  <2> QED BY <2>1, <2>2, <2>3, <2>4, AskMoves
<1> QED BY <1>1, <1>2, <1>3, <1>4

(* Closing aborts the question that is asked and waits until there is none. *)
LEMMA AsksCloseInvariant ==
  ASSUME SessionInvariant, UNCHANGED jobVars, A!CloseAsks \/ A!AsksCloseEnds
  PROVE  SessionInvariant'
<1> USE NullsAreApart
<1>1. /\ TypeOK /\ active' = active /\ active \in {"none", "ask", "change"}
      /\ asks \in [AskRequests -> A!Ask \cup {A!NoAsk}] /\ asksClosed' \in {"closing", "closed"}
      /\ asksClosed # "closed"
  BY Types DEF SessionInvariant, A!CloseAsks, A!AsksCloseEnds
<1>2. ASSUME NEW request \in AskRequests
      PROVE  /\ asks'[request] \in A!Ask \cup {A!NoAsk}
             /\ asks'[request].status \in A!ActiveStatuses <=> asks[request].status \in A!ActiveStatuses
             /\ asks'[request] # A!NoAsk => AskFits(request)'
             /\ asksClosed' = "closed" => asks'[request] = A!NoAsk
  <2>1. CASE A!AsksCloseEnds
    BY <1>1, <2>1 DEF A!AsksCloseEnds, A!ActiveStatuses
  <2>2. CASE A!CloseAsks /\ asks[request].status \notin A!ActiveStatuses
    BY <1>1, <2>2 DEF A!CloseAsks, SessionInvariant, AskFits, A!ActiveStatuses
  <2>3. CASE A!CloseAsks /\ asks[request].status \in A!ActiveStatuses
    <3>1. asks[request] \in A!Ask /\ AskFits(request)
      BY <2>3, AskerFits
    <3>2. asksClosed' = "closing" /\ asks'[request] = A!Abort(asks[request], "cancelled")
      BY <2>3 DEF A!CloseAsks
    <3>3. /\ asks'[request] \in A!Ask /\ asks'[request].status = asks[request].status
          /\ asks'[request].run = asks[request].run /\ asks'[request].aborted # "no"
          /\ asks'[request].snapshot = asks[request].snapshot
      BY <3>1, <3>2 DEF A!Abort, A!Ask
    <3> QED BY <2>3, <3>1, <3>2, <3>3 DEF AskFits
  <2> QED BY <2>1, <2>2, <2>3 DEF A!CloseAsks, A!AsksCloseEnds
<1>3. asks' \in [AskRequests -> A!Ask \cup {A!NoAsk}]
  <2>1. asks' = [request \in AskRequests |-> asks'[request]]
    BY DEF A!CloseAsks, A!AsksCloseEnds
  <2> QED BY <1>2, <2>1
<1>4. TypeOK'
  BY <1>1, <1>3 DEF TypeOK, J!JobsTypeOK, J!ChangesTypeOK, A!AsksTypeOK, jobVars
<1>5. Asking' = Asking
  BY <1>2 DEF Asking
<1>6. LeasesFit'
  <2>1. Working' = Working
    BY DEF Working, J!IsActive, jobVars
  <2> QED BY <1>1, <1>5, <2>1 DEF SessionInvariant, LeasesFit, J!IsActive, jobVars
<1>7. \A b \in Jobs : JobFits(b)'
  BY DEF SessionInvariant, JobFits, RunFits, ChangeFits, IsUnwritten, ContentsFit, J!Written, jobVars
<1> QED BY <1>2, <1>4, <1>6, <1>7 DEF SessionInvariant, jobVars

-----------------------------------------------------------------------------
(* Every step keeps the invariant.                                         *)
LEMMA NextInvariant == SessionInvariant /\ [Next]_vars => SessionInvariant'
<1> SUFFICES ASSUME SessionInvariant, [Next]_vars PROVE SessionInvariant'
  OBVIOUS
<1>1. CASE UNCHANGED vars
  <2>1. UNCHANGED <<active, configured, jobs, retained, jobsClosed, project, changes, asks, asksClosed>>
    BY <1>1 DEF vars, jobVars, askVars
  <2> QED BY <2>1 DEF SessionInvariant, TypeOK, J!JobsTypeOK, J!ChangesTypeOK, A!AsksTypeOK, LeasesFit,
       Working, Asking, J!IsActive, JobFits, RunFits, ChangeFits, IsUnwritten, ContentsFit,
       J!Written, AskFits
<1>2. CASE A!NextAsks /\ UNCHANGED jobVars
  BY <1>2, AskStepInvariant, AskCallInvariant, AsksCloseInvariant DEF A!NextAsks
<1>3. CASE J!NextJobs /\ (jobsClosed' # "open" => asksClosed = "closed") /\ UNCHANGED askVars
  <2>1. ASSUME NEW job \in Jobs, J!RunStep(job) \/ J!RunFails(job) PROVE SessionInvariant'
    BY <1>3, <2>1, RunAdvancesInvariant, RunFailsInvariant, RunEndsInErrorInvariant,
       RunResolvesInvariant DEF J!RunStep
  <2>2. ASSUME NEW job \in Jobs, J!WriteStep(job) PROVE SessionInvariant'
    BY <1>3, <2>2, WriteStepInvariant
  <2>3. ASSUME NEW job \in Jobs, J!UserCall(job) PROVE SessionInvariant'
    BY <1>3, <2>3, CreateInvariant, ApplyInvariant, RevertInvariant, CancelInvariant DEF J!UserCall
  <2>4. ASSUME NEW f \in Files, J!Edit(f), UNCHANGED <<active, configured, jobs, retained, jobsClosed>>
        PROVE  SessionInvariant'
    BY <1>3, <2>4, EditInvariant
  <2>5. CASE J!CreateRefused
    BY <1>3, <2>5, CreateRefusedInvariant
  <2>6. CASE J!CloseJobs
    BY <1>3, <2>6, CloseJobsInvariant DEF J!CloseJobs
  <2>7. CASE J!JobsCloseEnds
    BY <1>3, <2>7, JobsCloseEndsInvariant DEF J!JobsCloseEnds
  <2> QED BY <1>3, <2>1, <2>2, <2>3, <2>4, <2>5, <2>6, <2>7 DEF J!NextJobs
<1> QED BY <1>1, <1>2, <1>3 DEF Next

(* The invariant holds in every state of a session.                        *)
THEOREM SessionInvariantHolds == Spec => []SessionInvariant
BY InitInvariant, NextInvariant, PTL DEF Spec

(* Every variable of a session has its type.                               *)
THEOREM TypeCorrect == Spec => []TypeOK
<1>1. SessionInvariant => TypeOK
  BY DEF SessionInvariant
<1> QED BY <1>1, SessionInvariantHolds, PTL

(* The workspace has one user at a time, and is taken exactly while it has *)
(* one (acquire, release).                                                 *)
THEOREM OneActivityAtATime == Spec => []OneActivity
<1>1. SessionInvariant => OneActivity
  <2> SUFFICES ASSUME SessionInvariant PROVE OneActivity
    OBVIOUS
  <2>1. ASSUME NEW S, \A a, b \in S : a = b PROVE Cardinality(S) <= 1
    <3>1. CASE S = {}
      BY <3>1, FS_EmptySet
    <3>2. CASE S # {}
      <4>1. PICK a \in S : S = {a}
        BY <2>1, <3>2
      <4> QED BY <4>1, FS_Singleton
    <3> QED BY <3>1, <3>2
  <2>2. LeasesFit
    BY DEF SessionInvariant
  <2>3. Cardinality(Asking) <= 1 /\ Cardinality(Working) <= 1
    BY <2>1, <2>2 DEF LeasesFit
  <2> QED BY <2>2, <2>3 DEF OneActivity, LeasesFit
<1> QED BY <1>1, SessionInvariantHolds, PTL

(* A job that shows as cancelled has left nothing in the project's files   *)
(* (cancel, finishWithError, applyChange).                                 *)
THEOREM CancelledAlwaysLeavesNothing == Spec => []CancelledLeavesNothing
<1>1. SessionInvariant => CancelledLeavesNothing
  BY NullsAreApart DEF SessionInvariant, JobFits, IsUnwritten, CancelledLeavesNothing
<1> QED BY <1>1, SessionInvariantHolds, PTL

-----------------------------------------------------------------------------
(* The action properties.                                                  *)

(* Only applying and reverting make a job applied or reverted, and only a  *)
(* revert makes an applied job anything else.                              *)
StatusMovesRightly(job) ==
  \/ jobs'[job].status = jobs[job].status
  \/ jobs[job].status # "applied" /\ jobs'[job].status \notin {"applied", "reverted"}
  \/ J!ApplySucceeds(job) \/ J!RevertSucceeds(job) \/ J!RevertFails(job) \/ J!Revert(job)

(* The steps of a run, and the calls of the user but for new jobs.         *)
LEMMA OneJobMovesRightly ==
  ASSUME SessionInvariant, NEW job \in Jobs, NEW b \in Jobs,
         \/ J!RunStep(b) \/ J!RunFails(b) \/ J!WriteStep(b)
         \/ J!Apply(b) \/ J!Revert(b) \/ J!Cancel(b)
  PROVE  StatusMovesRightly(job) /\ retained' = retained
<1> USE NullsAreApart
<1>1. TypeOK /\ jobs \in [Jobs -> J!Job \cup {J!NoJob}] /\ (jobs[b] # J!NoJob => jobs[b] \in J!Job)
  BY Types DEF SessionInvariant
<1> DEFINE quiet == {"running", "validating", "failed", "completed", "cancelled", "cancelling",
                     "applying", "awaiting-review"}
<1>2. ASSUME jobs[b] \in J!Job, jobs[b].status # "applied", NEW next, J!Become(b, next),
             next.status \in quiet \cup {jobs[b].status}, next \in J!Job
      PROVE  StatusMovesRightly(job) /\ retained' = retained
  BY <1>1, <1>2, BecomeIs DEF StatusMovesRightly
<1>3. CASE J!RunAdvances(b)
  BY ZenonT(60), <1>1, <1>2, <1>3, ActiveFits
  DEF J!RunAdvances, J!Job, RunFits, J!Statuses, J!ActiveStatuses, J!PrunableStatuses
<1>4. CASE J!RunFails(b) \/ J!RunIsAborted(b) \/ J!RunEndsInError(b)
  BY ZenonT(60), <1>1, <1>2, <1>4, ActiveFits
  DEF J!RunFails, J!RunIsAborted, J!RunEndsInError, J!Job, RunFits, J!Statuses,
      J!ActiveStatuses, J!PrunableStatuses
<1>5. ASSUME NEW change \in J!Changes, J!RunResolves(b, change)
      PROVE  StatusMovesRightly(job) /\ retained' = retained
  <2>1. jobs[b] \in J!Job /\ jobs[b].status # "applied"
    BY <1>1, <1>5, ActiveFits DEF J!RunResolves, RunFits
  <2>2. PICK next \in J!Job : J!Become(b, next) /\ next.status \in quiet
    <3> DEFINE done == [jobs[b] EXCEPT !.change = change, !.run = "over"]
    <3>1. ASSUME NEW status \in quiet, NEW run \in {"applying", "over"}
          PROVE  /\ [done EXCEPT !.status = status] \in J!Job
                 /\ [done EXCEPT !.status = status].status = status
                 /\ [done EXCEPT !.status = status, !.run = run] \in J!Job
                 /\ [done EXCEPT !.status = status, !.run = run].status = status
      <4>1. done \in J!Job
        BY <2>1 DEF J!Job, J!Changes
      <4>2. status \in J!Statuses
        BY DEF J!Statuses, J!ActiveStatuses, J!PrunableStatuses
      <4> HIDE DEF done
      <4> QED BY <4>1, <4>2 DEF J!Job
    <3> HIDE DEF done
    <3>2. \/ \E status \in quiet : J!Become(b, [done EXCEPT !.status = status])
          \/ J!Become(b, [done EXCEPT !.status = "applying", !.run = "applying"])
      BY <1>5 DEF J!RunResolves, done
    <3> QED BY <3>1, <3>2
  <2> QED BY <1>2, <2>1, <2>2
<1>6. CASE J!Apply(b) \/ J!Cancel(b)
  BY <1>1, <1>2, <1>6
  DEF J!Apply, J!Cancel, J!CancellableStatuses, J!Job, J!Statuses, J!ActiveStatuses, J!PrunableStatuses
<1>7. CASE J!Revert(b)
  BY <1>1, <1>7 DEF J!Revert, StatusMovesRightly
<1>8. CASE J!WriteProceeds(b)
  BY <1>8 DEF J!WriteProceeds, StatusMovesRightly
<1>9. CASE J!ApplySucceeds(b) \/ J!RevertSucceeds(b) \/ J!RevertFails(b)
  BY <1>1, <1>9 DEF J!ApplySucceeds, J!RevertSucceeds, J!RevertFails, J!Become, StatusMovesRightly
<1>10. CASE J!ApplyFails(b)
  BY <1>1, <1>2, <1>10 DEF J!ApplyFails, J!Job, J!Statuses, J!PrunableStatuses
<1> QED BY <1>3, <1>4, <1>5, <1>6, <1>7, <1>8, <1>9, <1>10 DEF J!RunStep, J!WriteStep

(* In every step an applied job stays in the table until the manager is    *)
(* closed, and every job's status moves as it should.                      *)
LEMMA StatusSteps ==
  ASSUME SessionInvariant, Next, NEW job \in Jobs
  PROVE  /\ StatusMovesRightly(job)
         /\ jobs[job].status = "applied" /\ job \in retained /\ jobsClosed' # "closed" =>
              job \in retained'
<1> USE NullsAreApart
<1>1. TypeOK /\ jobs \in [Jobs -> J!Job \cup {J!NoJob}]
  BY Types DEF SessionInvariant
<1>2. CASE A!NextAsks /\ UNCHANGED jobVars
  BY <1>2 DEF jobVars, StatusMovesRightly
<1>3. ASSUME NEW b \in Jobs, NEW mode \in J!ApplyModes, J!Create(b, mode)
      PROVE  /\ StatusMovesRightly(job)
             /\ jobs[job].status = "applied" /\ job \in retained => job \in retained'
  <2>1. PICK table \in J!Pruned :
          /\ retained' = table \cup {b}
          /\ jobs' = [J!Kept(table) EXCEPT ![b] =
               [status |-> "preparing", mode |-> mode, run |-> "preparing", aborted |-> FALSE,
                lease |-> TRUE, change |-> "none"]]
    BY <1>3 DEF J!Create
  <2>2. jobs[b] = J!NoJob
    BY <1>3 DEF J!Create
  <2>3. /\ \A other \in retained \ table : jobs[other].status \in J!PrunableStatuses
        /\ J!Kept(table)[job] = IF job \in retained \ table THEN J!NoJob ELSE jobs[job]
        /\ J!Kept(table) \in [Jobs -> J!Job \cup {J!NoJob}]
    BY PrunedIs
  <2> QED BY <2>1, <2>2, <2>3 DEF StatusMovesRightly, J!PrunableStatuses
<1>4. CASE J!CreateRefused
  <2>1. PICK table \in J!Pruned : retained' = table /\ jobs' = J!Kept(table)
    BY <1>4 DEF J!CreateRefused
  <2>2. /\ \A other \in retained \ table : jobs[other].status \in J!PrunableStatuses
        /\ J!Kept(table)[job] = IF job \in retained \ table THEN J!NoJob ELSE jobs[job]
    BY PrunedIs
  <2> QED BY <2>1, <2>2 DEF StatusMovesRightly, J!PrunableStatuses
<1>5. CASE J!CloseJobs \/ J!JobsCloseEnds
  <2>1. /\ jobs'[job] \in {jobs[job], [jobs[job] EXCEPT !.aborted = TRUE], [jobs[job] EXCEPT !.lease = FALSE]}
        /\ retained' = retained \/ jobsClosed' = "closed"
    BY <1>5 DEF J!CloseJobs, J!JobsCloseEnds
  <2>2. jobs'[job].status = jobs[job].status
    <3>1. CASE jobs[job] = J!NoJob
      BY <1>5, <3>1 DEF J!CloseJobs, J!JobsCloseEnds, J!CancellableStatuses
    <3>2. CASE jobs[job] \in J!Job
      BY <2>1, <3>2 DEF J!Job
    <3> QED BY <1>1, <3>1, <3>2
  <2> QED BY <2>1, <2>2 DEF StatusMovesRightly
<1>6. CASE \E f \in Files : J!Edit(f) /\ UNCHANGED <<active, configured, jobs, retained, jobsClosed>>
  BY <1>6 DEF StatusMovesRightly
<1> QED
  BY <1>2, <1>3, <1>4, <1>5, <1>6, OneJobMovesRightly DEF Next, J!NextJobs, J!UserCall

(* As long as the session lives, an applied change can still be reverted   *)
(* (pruneJobs).                                                            *)
THEOREM AppliedAlwaysKept == Spec => AppliedIsKept
<1>1. SessionInvariant /\ [Next]_vars => [AppliedIsKeptStep]_vars
  <2> SUFFICES ASSUME SessionInvariant, Next, NEW job \in retained,
                      jobs[job].status = "applied", jobsClosed' # "closed"
               PROVE  job \in retained' /\ jobs'[job].status \in {"applied", "reverting"}
    BY DEF AppliedIsKeptStep
  <2>1. TypeOK /\ job \in Jobs /\ jobs \in [Jobs -> J!Job \cup {J!NoJob}] /\ jobs[job] \in J!Job
    BY Types, NullsAreApart DEF SessionInvariant
  <2>2. job \in retained' /\ StatusMovesRightly(job)
    BY <2>1, StatusSteps
  <2>3. J!Revert(job) => jobs'[job].status = "reverting"
    BY <2>1 DEF J!Revert, J!Job
  <2> QED
    BY <2>2, <2>3 DEF StatusMovesRightly, J!ApplySucceeds, J!RevertSucceeds, J!RevertFails
<1> QED BY <1>1, SessionInvariantHolds, PTL DEF Spec, AppliedIsKept

(* What a change leaves behind is exact: what was reviewed once it is      *)
(* applied, what the agent was given once it is reverted                   *)
(* (applyPreparedAgentChange, revertPreparedAgentChange).                  *)
THEOREM OutcomeAlwaysExact == Spec => OutcomeIsExact
<1>1. SessionInvariant /\ [Next]_vars => [OutcomeIsExactStep]_vars
  <2> SUFFICES ASSUME SessionInvariant, Next, NEW job \in Jobs,
                      jobs'[job].status # jobs[job].status
               PROVE  /\ jobs'[job].status = "applied" /\ jobs[job].status = "applying" =>
                           project = J!With(changes[job].cut, job)
                      /\ jobs'[job].status = "reverted" => project = changes[job].cut
    BY DEF OutcomeIsExactStep
  <2>1. /\ TypeOK /\ jobs \in [Jobs -> J!Job \cup {J!NoJob}] /\ StatusMovesRightly(job)
        /\ jobs[job] # J!NoJob => jobs[job] \in J!Job
    BY Types, StatusSteps DEF SessionInvariant
  <2>2. CASE J!ApplySucceeds(job)
    <3>1. /\ changes[job] # J!NoChange /\ changes[job].step # "none" /\ project = J!After(job)
          /\ jobs[job].status = "applying"
      BY <2>2 DEF J!ApplySucceeds, J!Verified
    <3>2. changes[job].state = "applying" /\ jobs[job] \in J!Job
      BY <3>1, WriterFits
    <3>3. jobs'[job].status = "applied"
      BY <2>1, <2>2, <3>2 DEF J!ApplySucceeds, J!Become, J!Job
    <3> QED BY <3>1, <3>2, <3>3 DEF J!After, J!Expected
  <2>3. CASE J!RevertSucceeds(job)
    <3>1. /\ changes[job] # J!NoChange /\ changes[job].step # "none" /\ project = J!After(job)
          /\ jobs[job].status = "reverting"
      BY <2>3 DEF J!RevertSucceeds, J!Verified
    <3>2. changes[job].state = "reverting" /\ changes[job] \in J!Change /\ ContentsFit(job) /\ jobs[job] \in J!Job
      BY <3>1, WriterFits
    <3>3. project = changes[job].base
      BY <3>1, <3>2 DEF J!After
    <3>4. ASSUME NEW f \in Files PROVE changes[job].base[f] = changes[job].cut[f]
      <4>1. changes[job].base[f] \in J!Content /\ changes[job].cut[f] \in J!Content
        BY <3>2 DEF J!Change, J!Contents
      <4>2. /\ changes[job].base[f].by = changes[job].cut[f].by
            /\ changes[job].base[f].edits = changes[job].cut[f].edits
        BY <3>2 DEF ContentsFit
      <4> QED BY <4>1, <4>2 DEF J!Content
    <3>5. changes[job].base = changes[job].cut
      <4>1. changes[job].base \in [Files -> J!Content] /\ changes[job].cut \in [Files -> J!Content]
        BY <3>2 DEF J!Change, J!Contents
      <4> QED BY <3>4, <4>1
    <3>6. jobs'[job].status = "reverted"
      BY <2>1, <2>3, <3>2 DEF J!RevertSucceeds, J!Become, J!Job
    <3> QED BY <3>3, <3>5, <3>6
  <2>4. CASE J!RevertFails(job) \/ J!Revert(job)
    <3>1. jobs[job].status \in {"applied", "reverting"}
      BY <2>4 DEF J!RevertFails, J!Revert
    <3>2. jobs[job] \in J!Job
      BY <2>1, <3>1, NullsAreApart
    <3>3. jobs'[job].status \in {"applied", "reverting"}
      BY ZenonT(60), <2>1, <2>4, <3>2 DEF J!RevertFails, J!Revert, J!Become, J!Job
    <3> QED BY <3>1, <3>3
  <2>5. CASE jobs[job].status # "applied" /\ jobs'[job].status \notin {"applied", "reverted"}
    BY <2>5
  <2> QED BY <2>1, <2>2, <2>3, <2>4, <2>5 DEF StatusMovesRightly
<1> QED BY <1>1, SessionInvariantHolds, PTL DEF Spec, OutcomeIsExact

(* While a question is asked no job changes the files it is answered over  *)
(* (acquire, create, revert).                                              *)
THEOREM AskedFilesAlwaysStandStill == Spec => AskedFilesStandStill
<1>1. SessionInvariant /\ [Next]_vars => [AskedFilesStandStillStep]_vars
  <2> SUFFICES ASSUME SessionInvariant, Next, NEW f \in Files, project'[f].by # project[f].by
               PROVE  Asking = {}
    BY DEF AskedFilesStandStillStep
  <2>1. TypeOK /\ project \in [Files -> J!Content]
    BY Types DEF SessionInvariant
  <2>2. ~\E g \in Files : J!Edit(g)
    BY <2>1 DEF J!Edit, J!Content
  <2>3. PICK job \in Jobs, written \in SUBSET Files : J!GitWrites(job, written)
    BY ZenonT(60), <2>2 DEF Next, jobVars, J!NextJobs, J!RunStep, J!RunAdvances, J!Cut, J!Captured, J!RunFails,
      J!RunIsAborted, J!RunEndsInError, J!RunResolves, J!Begin, J!WriteStep, J!WriteProceeds,
      J!Compared, J!Wrote, J!ApplySucceeds, J!ApplyFails, J!RevertSucceeds, J!RevertFails,
      J!Verified, J!Failed, J!UserCall, J!Create, J!Apply, J!Revert, J!Cancel, J!CreateRefused,
      J!CloseJobs, J!JobsCloseEnds
  <2>4. J!IsActive(job)
    BY <2>3, WriterFits DEF J!GitWrites
  <2>5. CASE jobsClosed # "closed"
    BY <2>4, <2>5 DEF SessionInvariant, LeasesFit, Working
  <2>6. CASE jobsClosed = "closed"
    BY <2>6, NullsAreApart DEF SessionInvariant, LeasesFit, Asking, A!ActiveStatuses
  <2> QED BY <2>5, <2>6
<1> QED BY <1>1, SessionInvariantHolds, PTL DEF Spec, AskedFilesStandStill

(* A cancelled question gives no answer and reads nothing any more, however *)
(* late the cancellation came (run, raceWithAbort, cancel, finish).        *)
THEOREM CancelledAskAlwaysSilent == Spec => CancelledAskIsSilent
<1>1. SessionInvariant /\ [Next]_vars => [CancelledAskIsSilentStep]_vars
  <2> SUFFICES ASSUME SessionInvariant, Next, NEW request \in AskRequests,
                      \/ asks[request].status = "cancelling"
                      \/ asks[request] # A!NoAsk /\ asks[request].aborted = "cancelled"
               PROVE  /\ CancelledReadsNothing(request)
                      /\ asks'[request].status \in
                           {asks[request].status, "cancelling", "cancelled", "failed", "none"}
    BY DEF CancelledAskIsSilentStep, CancelledReadsNothing
  <2> USE NullsAreApart
  <2>1. /\ TypeOK /\ asks \in [AskRequests -> A!Ask \cup {A!NoAsk}] /\ asks[request] # A!NoAsk
        /\ asks[request] \in A!Ask /\ AskFits(request)
    BY Types DEF SessionInvariant
  <2>2. asks[request].aborted # "no"
    BY <2>1 DEF AskFits
  <2> DEFINE Silent == /\ CancelledReadsNothing(request)
                       /\ asks'[request].status \in
                            {asks[request].status, "cancelling", "cancelled", "failed", "none"}
  <2>3. asks'[request] = asks[request] => Silent
    BY <2>1 DEF AskFits, CancelledReadsNothing
  <2>4. asks'[request] = A!NoAsk => Silent
    BY DEF CancelledReadsNothing
  <2>5. CASE UNCHANGED askVars
    BY <2>3, <2>5 DEF askVars
  <2>6. ASSUME NEW other \in AskRequests,
               A!AskCreate(other) \/ A!AskRefused(other) \/ A!AskExpires(other)
        PROVE  Silent
    BY <2>1, <2>3, <2>4, <2>6 DEF A!AskCreate, A!AskRefused, A!AskExpires, A!Put
  <2>7. ASSUME NEW other \in AskRequests, A!AskAdmitted(other) PROVE Silent
    <3>1. other # request
      BY <2>1, <2>2, <2>7 DEF A!AskAdmitted, AskFits
    <3> QED BY <2>3, <2>4, <2>7, <3>1 DEF A!AskAdmitted
  <2>8. ASSUME NEW other \in AskRequests,
               A!AskCaptured(other) \/ A!AskExecuted(other) \/ A!AskAnswered(other) \/ A!AskTimesOut(other)
        PROVE  Silent
    BY <2>1, <2>2, <2>3, <2>8 DEF A!AskCaptured, A!AskExecuted, A!AskAnswered, A!AskTimesOut, A!Put
  <2>9. ASSUME NEW other \in AskRequests, A!AskFails(other) \/ A!AskCancel(other) PROVE Silent
    <3>1. CASE other # request
      BY <2>1, <2>3, <2>9, <3>1 DEF A!AskFails, A!AskCancel, A!Put
    <3>2. CASE other = request /\ A!AskFails(request)
      <4>1. asks'[request] = A!Ended(asks[request],
              IF asks[request].aborted = "cancelled" THEN "cancelled" ELSE "failed")
        BY <2>1, <3>2 DEF A!AskFails, A!Put
      <4> QED BY <2>1, <4>1 DEF A!Ended, A!Ask, CancelledReadsNothing
    <3>3. CASE other = request /\ A!AskCancel(request)
      <4>1. asks'[request] = [A!Abort(asks[request], "cancelled") EXCEPT !.status = "cancelling",
                                                                        !.snapshot = FALSE]
        BY <2>1, <3>3 DEF A!AskCancel, A!Put
      <4> QED BY <2>1, <4>1 DEF A!Abort, A!Ask, CancelledReadsNothing
    <3> QED BY <2>9, <3>1, <3>2, <3>3
  <2>10. CASE A!CloseAsks
    <3>1. asks'[request] \in {asks[request], A!Abort(asks[request], "cancelled")}
      BY <2>10 DEF A!CloseAsks
    <3>2. A!Abort(asks[request], "cancelled") = asks[request]
      BY <2>1, <2>2 DEF A!Abort, A!Ask
    <3> QED BY <2>3, <3>1, <3>2
  <2>11. CASE A!AsksCloseEnds
    BY <2>4, <2>11 DEF A!AsksCloseEnds
  <2>12. ASSUME NEW other \in AskRequests,
                \/ A!AskCreate(other) \/ A!AskStep(other) \/ A!AskTimesOut(other)
                \/ A!AskCancel(other) \/ A!AskExpires(other)
         PROVE  Silent
    BY <2>6, <2>7, <2>8, <2>9, <2>12 DEF A!AskStep
  <2>13. CASE A!NextAsks
    BY <2>10, <2>11, <2>12, <2>13 DEF A!NextAsks
  <2> QED BY <2>5, <2>13 DEF Next
<1> QED BY <1>1, SessionInvariantHolds, PTL DEF Spec, CancelledAskIsSilent
=============================================================================
