------------------------------ MODULE PageAgent ------------------------------
(***************************************************************************)
(* The page's side of a writing job: what the agent panel shows, which of  *)
(* its buttons can be pressed, and the requests on their way to the        *)
(* development server and back.                                            *)
(* Code: packages/runtime/src/controller/agent-workflow.ts, api/           *)
(* runtime-api.ts, ui/agent-panel.ts, ui/runtime-view.ts; the server's     *)
(* answers are those of packages/dev-server/src/agent/job-manager.ts and   *)
(* server/agent-http.ts, which AgentJobs models in full.                   *)
(*                                                                         *)
(* The workflow counts a revision up to disown its requests.  Here the     *)
(* requests it disowns are marked instead: live is FALSE once the revision *)
(* a request was made under is no longer the workflow's.                   *)
(***************************************************************************)
EXTENDS Integers, FiniteSets, Sequences

CONSTANTS
  MaxRuns,      \* bound: runs of the agent; job n is what run n creates
  MaxCalls      \* bound: requests under way when the user makes another

VARIABLES
  jobs,          \* the status of each job of the server
  questions,     \* the state of each question of the server
  calls,         \* the agent workflow's requests
  losses,
  runs,          \* runs started so far
  snapshot,      \* the job the workflow shows, or NoJob
  result,        \* the job whose result it shows, or 0
  pending,       \* actionPending
  applied,       \* appliedDuringCurrentJob
  editing,       \* the view's editingEnabled
  panelEditing,  \* the agent panel's own editingEnabled
  presented      \* jobPresented: the panel shows a job

-----------------------------------------------------------------------------
(* The jobs of the server.  "running" stands for queued to validating and  *)
(* "over" for completed, cancelled, reverted and failed.                   *)
JobIds == 1 .. MaxRuns

JobStatuses ==
  {"running", "awaiting-review", "applying", "applied", "cancelling", "reverting", "over"}

EndStatuses == {"awaiting-review", "applied", "over"}

WorkspaceIsFree ==
  /\ \A job \in JobIds : jobs[job] \in {"none", "applied", "over"}
  /\ \A q \in DOMAIN questions : questions[q] # "running"

(* What becomes of a job by itself.                                        *)
JobSteps ==
  {<<"running", "awaiting-review">>, <<"running", "over">>, <<"running", "applying">>,
   <<"applying", "applied">>, <<"applying", "over">>, <<"cancelling", "over">>,
   <<"reverting", "over">>, <<"reverting", "applied">>}

pageVars == <<snapshot, result, pending, applied, presented>>

-----------------------------------------------------------------------------
(* A request: "run" is the health check and the creation of a job, "stream"*)
(* reads its events, "refresh" its result, "settle" the result after one   *)
(* of the user's actions, "let-go" cancels a job the page has dropped.     *)
(* Its step: the "health" check, "sent", "working" at the server or as a   *)
(* stream, then "answered", "refused" or "lost".                           *)
(* status is what the reply says; of a refused action what was shown       *)
(* before it; of a stream the event read last, ahead of those in feed.     *)
Actions == {"apply", "cancel", "revert"}

Call(kind, job, step, status) ==
  [kind |-> kind, job |-> job, step |-> step, status |-> status, feed |-> <<>>, live |-> TRUE]

Disowned(set) == {[c EXCEPT !.live = FALSE] : c \in set}

Turns(call, into) == calls' = (calls \ {call}) \cup into

Answered(call, status) == [call EXCEPT !.step = "answered", !.status = status]
Refused(call) == [call EXCEPT !.step = "refused"]

(* transition() of the server: the streams of the job get the event, up to *)
(* the one they end with.                                                  *)
Fed(call, job, status) ==
  LET last == IF call.feed = <<>> THEN call.status ELSE call.feed[Len(call.feed)]
  IN  IF call.kind = "stream" /\ call.job = job /\ last \notin EndStatuses
      THEN [call EXCEPT !.feed = Append(@, status)] ELSE call

Becomes(call, into, job, status) ==
  /\ jobs' = [jobs EXCEPT ![job] = status]
  /\ calls' = {Fed(c, job, status) : c \in (calls \ {call}) \cup {into}}

Leaves(call, into) == Turns(call, {into}) /\ UNCHANGED jobs

JobAdvances(job, status) ==
  /\ <<jobs[job], status>> \in JobSteps
  /\ jobs' = [jobs EXCEPT ![job] = status]
  /\ calls' = {Fed(c, job, status) : c \in calls}
  /\ UNCHANGED <<questions, losses, runs, editing, panelEditing>>
  /\ UNCHANGED pageVars

ServeRun(c) ==
  /\ c.kind = "run"
  /\ IF WorkspaceIsFree THEN Becomes(c, Answered(c, "running"), c.job, "running")
                        ELSE Leaves(c, Refused(c))

ServeResult(c) == c.kind \in {"refresh", "settle"} /\ Leaves(c, Answered(c, jobs[c.job]))

ServeCancel(c) ==
  /\ c.kind \in {"cancel", "let-go"}
  /\ CASE jobs[c.job] = "running" ->
            Becomes(c, Answered(c, "cancelling"), c.job, "cancelling")
       [] jobs[c.job] = "awaiting-review" -> Becomes(c, Answered(c, "over"), c.job, "over")
       [] OTHER -> Leaves(c, Refused(c))

(* apply() and revert() answer once the files are written.                 *)
ServeWrite(c) ==
  \/ /\ c.kind = "apply"
     /\ IF jobs[c.job] = "awaiting-review"
        THEN Becomes(c, [c EXCEPT !.step = "working"], c.job, "applying")
        ELSE Leaves(c, Refused(c))
  \/ /\ c.kind = "revert"
     /\ IF jobs[c.job] = "applied" /\ WorkspaceIsFree
        THEN Becomes(c, [c EXCEPT !.step = "working"], c.job, "reverting")
        ELSE Leaves(c, Refused(c))

WriteEnds(c) ==
  /\ c.step = "working"
  /\ CASE c.kind = "apply" /\ jobs[c.job] = "applied" -> Leaves(c, Answered(c, "applied"))
       [] c.kind = "revert" /\ jobs[c.job] = "over" -> Leaves(c, Answered(c, "over"))
       [] c.kind \in {"apply", "revert"} /\ jobs[c.job] \in {"applied", "over"} ->
            Leaves(c, Refused(c))
       [] OTHER -> FALSE

Serve(c) ==
  /\ \/ c.step = "sent" /\ (ServeRun(c) \/ ServeResult(c) \/ ServeCancel(c) \/ ServeWrite(c))
     \/ WriteEnds(c)
  /\ UNCHANGED <<questions, losses, runs, editing, panelEditing>>
  /\ UNCHANGED pageVars

(* A request, its reply or the rest of an event stream is lost.            *)
Lose(c) ==
  /\ c.live /\ c.step \notin {"refused", "lost"}
  /\ losses' = losses + 1
  /\ Turns(c, {[c EXCEPT !.step = "lost"]})
  /\ UNCHANGED <<jobs, questions, runs, editing, panelEditing>>
  /\ UNCHANGED pageVars

-----------------------------------------------------------------------------
(* What the page does with a reply.  detach is what onApplied() does to    *)
(* the selection, when it is called.                                       *)
NoJob == [job |-> 0, status |-> "none"]
Shown(job, status) == [job |-> job, status |-> status]

(* As it would be if the revision of a reply were not looked at.           *)
BugFresh(c) == TRUE

Fresh(c) == c.live

SetEditing(enabled) == editing' = enabled /\ panelEditing' = enabled

(* renderJob().                                                            *)
Renders(shown) == snapshot' = shown /\ presented' = (presented \/ shown # NoJob)

Applies(status) == status = "applied" /\ ~applied

(* run(): the health check may find that no job can be started now.        *)
HealthIsKnown(c) ==
  /\ c.kind = "run" /\ c.step = "health"
  /\ \/ /\ Fresh(c)
        /\ Turns(c, {[c EXCEPT !.step = "sent"]})
        /\ UNCHANGED <<editing, panelEditing>>
     \/ /\ Fresh(c)
        /\ Turns(c, {}) /\ SetEditing(TRUE)
     \/ /\ ~Fresh(c)
        /\ Turns(c, {}) /\ UNCHANGED <<editing, panelEditing>>
  /\ UNCHANGED <<jobs, questions, losses, runs>>
  /\ UNCHANGED pageVars

RunIsAnswered(c) ==
  /\ c.kind = "run" /\ c.step \in {"answered", "refused", "lost"}
  /\ CASE Fresh(c) /\ c.step = "answered" ->
            /\ Turns(c, {[Call("stream", c.job, "working", "none") EXCEPT
                            !.feed = <<jobs[c.job]>>]})
            /\ Renders(Shown(c.job, c.status)) /\ result' = 0
            /\ UNCHANGED <<editing, panelEditing>>
       [] Fresh(c) /\ c.step # "answered" ->
            /\ Turns(c, {}) /\ SetEditing(TRUE)
            /\ UNCHANGED <<snapshot, presented, result>>
       [] OTHER -> Turns(c, {}) /\ UNCHANGED <<editing, panelEditing, snapshot, presented, result>>
  /\ UNCHANGED <<jobs, questions, losses, runs, pending, applied>>

(* observeJob(): an event, the end of the stream, or its loss.  Of the     *)
(* events before the stream was opened it replays, here, the last.         *)
EventArrives(c, detach) ==
  /\ c.kind = "stream" /\ c.step = "working" /\ c.feed # <<>>
  /\ LET status == Head(c.feed)
     IN  /\ Turns(c, {[c EXCEPT !.feed = Tail(@), !.status = status]})
         /\ IF Fresh(c)
            THEN /\ Renders(Shown(c.job, status))
                 /\ applied' = (applied \/ status = "applied")
                 /\ detach = Applies(status)
            ELSE ~detach /\ UNCHANGED <<snapshot, presented, applied>>
  /\ UNCHANGED <<jobs, questions, losses, runs, result, pending, editing, panelEditing>>

StreamEnds(c) ==
  /\ c.kind = "stream"
  /\ \/ /\ c.step = "working" /\ c.feed = <<>> /\ c.status \in EndStatuses
        /\ Turns(c, IF Fresh(c) THEN {Call("refresh", c.job, "sent", "none")} ELSE {})
        /\ UNCHANGED <<snapshot, presented>>
     \/ /\ c.step = "lost"
        /\ Turns(c, {})
        /\ IF Fresh(c) THEN Renders(snapshot) ELSE UNCHANGED <<snapshot, presented>>
  /\ UNCHANGED <<jobs, questions, losses, runs, result, pending, applied, editing,
                 panelEditing>>

(* refreshResult(); the one of an action ends the action.                  *)
ResultArrives(c) ==
  /\ c.kind \in {"refresh", "settle"} /\ c.step \in {"answered", "lost"}
  /\ Turns(c, {})
  /\ CASE Fresh(c) /\ c.step = "answered" ->
            Renders(Shown(c.job, c.status)) /\ result' = c.job
       [] Fresh(c) /\ c.step = "lost" -> Renders(snapshot) /\ UNCHANGED result
       [] OTHER -> UNCHANGED <<snapshot, presented, result>>
  /\ pending' = (pending /\ ~(Fresh(c) /\ c.kind = "settle"))
  /\ UNCHANGED <<jobs, questions, losses, runs, applied, editing, panelEditing>>

ActionIsAnswered(c, detach) ==
  /\ c.kind \in Actions /\ c.step \in {"answered", "refused", "lost"}
  /\ IF Fresh(c)
     THEN /\ Turns(c, {Call("settle", c.job, "sent", "none")})
          /\ snapshot' = Shown(c.job, c.status)
          /\ applied' = (applied \/ (c.step = "answered" /\ c.status = "applied"))
          /\ detach = (c.step = "answered" /\ Applies(c.status))
     ELSE Turns(c, {}) /\ ~detach /\ UNCHANGED <<snapshot, applied>>
  /\ UNCHANGED <<jobs, questions, losses, runs, result, pending, presented, editing,
                 panelEditing>>

LetGoIsAnswered(c) ==
  /\ c.kind = "let-go" /\ c.step \in {"answered", "refused"}
  /\ Turns(c, {})
  /\ UNCHANGED <<jobs, questions, losses, runs, editing, panelEditing>>
  /\ UNCHANGED pageVars

-----------------------------------------------------------------------------
(* What the user does.  The controller adds when the panel is visible.     *)
Run ==
  /\ snapshot = NoJob /\ (panelEditing \/ editing)
  /\ runs < MaxRuns
  /\ runs' = runs + 1
  /\ calls' = Disowned(calls) \cup {Call("run", runs + 1, "health", "none")}
  /\ SetEditing(FALSE)
  /\ UNCHANGED <<jobs, questions, losses>>
  /\ UNCHANGED pageVars

Offered(action) ==
  CASE action = "cancel" -> snapshot.status \in {"running", "awaiting-review"}
    [] action = "apply" -> snapshot.status = "awaiting-review"
    [] action = "revert" -> snapshot.status = "applied"

During(action) ==
  CASE action = "cancel" -> "cancelling"
    [] action = "apply" -> "applying"
    [] action = "revert" -> "reverting"

Act(action) ==
  /\ presented /\ Offered(action) /\ ~pending
  /\ pending' = TRUE
  /\ Renders(Shown(snapshot.job, During(action)))
  /\ calls' = calls \cup {Call(action, snapshot.job, "sent", snapshot.status)}
  /\ UNCHANGED <<jobs, questions, losses, runs, result, applied, editing, panelEditing>>

(* resetState(); others are requests the caller adds.                      *)
ResetState(others) ==
  /\ calls' = Disowned(calls) \cup others
  /\ snapshot' = NoJob /\ result' = 0 /\ pending' = FALSE /\ applied' = FALSE
  /\ presented' = FALSE /\ SetEditing(TRUE)
  /\ UNCHANGED <<jobs, questions, losses, runs>>

(* The revise button; after an apply the controller reselects instead.     *)
Reset ==
  presented /\ snapshot.status = "over" /\ ~applied /\ ResetState({})

(* providerOrModelChanged() and testCapability().                          *)
SetupChanges ==
  /\ panelEditing /\ ~presented
  /\ calls' = Disowned(calls)
  /\ UNCHANGED <<jobs, questions, losses, runs, editing, panelEditing>>
  /\ UNCHANGED pageVars

(* As it would be if the cancellation went out before cancelPending().     *)
BugLetGo == {}

(* disposeSelection(), after api.cancelPending(): what was asked for is    *)
(* not waited for, and a job that can still be cancelled is cancelled.     *)
LetGo ==
  IF snapshot.status \in {"running", "awaiting-review", "cancelling"}
  THEN {[Call("let-go", snapshot.job, "sent", "none") EXCEPT !.live = FALSE]} ELSE {}

Aborted == {c \in calls : c.step = "sent" /\ c.kind \notin {"refresh", "settle"}}

DisposeSelection ==
  /\ calls' = Disowned(Aborted) \cup LetGo
  /\ snapshot' = NoJob /\ result' = 0 /\ pending' = FALSE /\ applied' = FALSE
  /\ UNCHANGED <<jobs, losses, runs>>

(* hideSelection(): the panel forgets the job, the workflow does not.      *)
HidePanel == presented' = FALSE /\ panelEditing' = TRUE

-----------------------------------------------------------------------------
InitAgent ==
  /\ jobs = [job \in JobIds |-> "none"]
  /\ calls = {} /\ losses = 0 /\ runs = 0
  /\ snapshot = NoJob /\ result = 0
  /\ pending = FALSE /\ applied = FALSE /\ presented = FALSE
  /\ editing = TRUE /\ panelEditing = TRUE
=============================================================================
