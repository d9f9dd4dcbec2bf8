----------------------------- MODULE PageSession -----------------------------
(***************************************************************************)
(* The page: the elements the user has selected, the planner that is open  *)
(* or closed over them, and what the three ways to use a selection - the   *)
(* writing agent, a question, a handoff - make of it.                      *)
(* Code: packages/runtime/src/controller/runtime-controller.ts, state/     *)
(* runtime-state.ts, ui/runtime-view.ts.                                   *)
(*                                                                         *)
(* The instructions the user types, the preview text, highlights, the      *)
(* data-flow reports and the copy kept for a reload are left out.          *)
(***************************************************************************)
EXTENDS PageAsk, PageHandoff

CONSTANTS
  Configurations,   \* the pages considered, of Config
  MaxWork,          \* bound: runs, questions and lost replies together
  MaxSelected       \* bound: elements selected, targetSequence

Config == [extensions: SUBSET {"ai", "ask", "handoff"}, maxTargets: Nat \ {0}]

ASSUME PageAssumption ==
  /\ {MaxRuns, MaxCalls, MaxQuestions, MaxSends, MaxRequests, MaxPublished, MaxWork,
      MaxSelected} \subseteq Nat
  /\ Configurations \subseteq Config

VARIABLES
  config,     \* the configuration of this page
  status,     \* the state of the runtime
  targets,    \* per selected element, how far the collection of its context is
  selected,   \* elements selected so far: targetSequence
  letGo       \* history: the cancellable jobs the page has dropped

selectionVars == <<config, status, targets, selected, letGo>>
vars == <<jobs, questions, calls, losses, runs, snapshot, result, pending, applied, editing,
          panelEditing, presented, asks, asked, busy, asking, answer, dialog, sending, retry,
          consent, sends, requests, publishes, published, config, status, targets,
          selected, letGo>>

Chosen == DOMAIN targets
NoTargets == [t \in {} |-> "ready"]

(* canPreview().                                                           *)
ContextIsReady == Chosen # {} /\ \A t \in Chosen : targets[t] = "ready"

WorkIsLeft == runs + asked + losses < MaxWork

AgentStands == UNCHANGED <<jobs, calls, losses, runs, snapshot, result, pending, applied,
                           editing, panelEditing, presented>>
AskStands == UNCHANGED <<asks, asked, busy, asking, answer>>
HandoffStands == UNCHANGED handoffVars

-----------------------------------------------------------------------------
(* Selecting.  In "inspecting" with elements already chosen another one is *)
(* being added.                                                            *)

(* activate() from idle.                                                   *)
Open ==
  /\ status = "idle"
  /\ status' = IF Chosen = {} THEN "inspecting" ELSE "selected"
  /\ IF Chosen = {} THEN HidePanel ELSE UNCHANGED <<presented, panelEditing>>
  /\ UNCHANGED <<config, targets, selected, letGo, jobs, questions, calls, losses,
                 runs, snapshot, result, pending, applied, editing>>
  /\ AskStands /\ HandoffStands

(* close(); the jobs, questions and handoffs go on.                        *)
Close ==
  /\ status \in {"inspecting", "selected"}
  /\ ~(status = "inspecting" /\ Chosen # {})
  /\ status' = "idle"
  /\ HidePanel /\ HideHandoff
  /\ UNCHANGED <<config, targets, selected, letGo, jobs, questions, calls, losses,
                 runs, snapshot, result, pending, applied, editing>>
  /\ AskStands

AddTarget ==
  /\ status = "selected" /\ editing /\ Cardinality(Chosen) < config.maxTargets
  /\ status' = "inspecting" /\ HideHandoff
  /\ UNCHANGED <<config, targets, selected, letGo, questions>>
  /\ AgentStands /\ AskStands

(* cancelAddTarget(), or the element is one of the selected ones.          *)
KeepTargets ==
  /\ status = "inspecting" /\ Chosen # {}
  /\ status' = "selected"
  /\ UNCHANGED <<config, targets, selected, letGo, questions>>
  /\ AgentStands /\ AskStands /\ HandoffStands

(* beginSelection() of the two workflows: they forget what they showed,    *)
(* and cancel nothing.                                                     *)
BeginSelection ==
  /\ ResetState({})
  /\ IF "ask" \in config.extensions
     THEN /\ asks' = Disowned(asks) /\ busy' = FALSE /\ asking' = 0 /\ answer' = 0
          /\ UNCHANGED asked
     ELSE AskStands

SelectElement ==
  /\ status = "inspecting" /\ selected < MaxSelected
  /\ selected' = selected + 1
  /\ targets' = [t \in Chosen \cup {selected + 1} |->
                  IF t \in Chosen THEN targets[t] ELSE "loading"]
  /\ status' = "selected"
  /\ IF Chosen = {} THEN BeginSelection ELSE AgentStands /\ AskStands
  /\ UNCHANGED <<config, letGo, questions>>
  /\ HandoffStands

(* The collection of its context ends, well or not.  A closed planner does *)
(* not hear of it, and does not ask again: the context is missed.          *)
ContextArrives(t) ==
  /\ targets[t] = "loading"
  /\ targets' = [targets EXCEPT ![t] = IF status = "idle" THEN "missed" ELSE "ready"]
  /\ UNCHANGED <<config, status, selected, letGo, questions>>
  /\ AgentStands /\ AskStands /\ HandoffStands

(* removeTarget(): without an element left the next one is chosen.         *)
RemoveTarget(t) ==
  /\ status = "selected" /\ editing /\ t \in Chosen
  /\ targets' = [u \in Chosen \ {t} |-> targets[u]]
  /\ status' = IF Chosen = {t} THEN "inspecting" ELSE "selected"
  /\ IF Chosen = {t} THEN HideHandoff ELSE HandoffStands
  /\ UNCHANGED <<config, selected, letGo, questions>>
  /\ AgentStands /\ AskStands

-----------------------------------------------------------------------------
(* releaseSelection(): the requests are aborted, then what can still be    *)
(* cancelled is, and nothing stays selected.                               *)
Releases ==
  /\ targets' = NoTargets
  /\ letGo' = letGo \cup
       (IF snapshot.status \in {"running", "awaiting-review", "cancelling"}
        THEN {snapshot.job} ELSE {})
  /\ DisposeSelection /\ presented' = FALSE /\ panelEditing' = TRUE
  /\ WithdrawHandoff
  /\ UNCHANGED <<config, selected>>

(* beginReselect(), from its button or after a reset.                      *)
Reselects ==
  /\ status = "selected" /\ status' = "inspecting"
  /\ IF "ask" \in config.extensions THEN DropQuestion ELSE AskStands

Reselect ==
  /\ editing
  /\ Releases /\ Reselects
  /\ editing' = (editing \/ "ask" \in config.extensions)
  /\ UNCHANGED questions

(* The revise button.                                                      *)
Revise ==
  /\ status = "selected" /\ "ai" \in config.extensions
  /\ \/ /\ Reset
        /\ UNCHANGED <<config, status, targets, selected, letGo>>
        /\ AskStands /\ HandoffStands
     \/ /\ presented /\ snapshot.status = "over" /\ applied
        /\ ResetState({}) /\ Reselects
        /\ targets' = NoTargets
        /\ WithdrawHandoff
        /\ UNCHANGED <<config, selected, letGo>>

(* The runtime goes, with a hot update of itself.                          *)
Dispose ==
  /\ status # "disposed" /\ status' = "disposed"
  /\ Releases
  /\ IF "ask" \in config.extensions THEN DisposeQuestion ELSE AskStands
  /\ editing' = (editing \/ "ask" \in config.extensions)
  /\ UNCHANGED questions

-----------------------------------------------------------------------------
(* Using the selection.                                                    *)
AgentPanel ==
  /\ status = "selected" /\ "ai" \in config.extensions
  /\ Cardinality(calls \cup asks) <= MaxCalls
  /\ (ContextIsReady /\ WorkIsLeft /\ Run) \/ SetupChanges \/ \E action \in Actions : Act(action)
  /\ UNCHANGED selectionVars /\ AskStands /\ HandoffStands

AskPanel ==
  /\ status = "selected" /\ "ask" \in config.extensions
  /\ Cardinality(calls \cup asks) <= MaxCalls
  /\ (ContextIsReady /\ WorkIsLeft /\ Submit) \/ CancelQuestion \/ NewQuestion
  /\ UNCHANGED selectionVars /\ HandoffStands

HandoffPanel ==
  /\ status = "selected" /\ "handoff" \in config.extensions
  /\ (ContextIsReady /\ editing /\ Send) \/ Confirm \/ Decline
  /\ UNCHANGED <<selectionVars, questions>> /\ AgentStands /\ AskStands

(* What comes back.  detachAppliedTargets() ends the collections.          *)
Detached == [t \in Chosen |-> IF targets[t] = "loading" THEN "missed" ELSE targets[t]]

AgentReply ==
  \E c \in calls, detach \in BOOLEAN :
    /\ \/ EventArrives(c, detach) \/ ActionIsAnswered(c, detach)
       \/ ~detach /\ (HealthIsKnown(c) \/ RunIsAnswered(c) \/ StreamEnds(c)
                        \/ ResultArrives(c) \/ LetGoIsAnswered(c))
    /\ targets' = IF detach THEN Detached ELSE targets
    /\ UNCHANGED <<config, status, selected, letGo>>
    /\ AskStands /\ HandoffStands

AskReply(a) ==
  /\ a \in asks
  /\ SubmitProceeds(a) \/ SubmitEnds(a) \/ CancelIsAnswered(a)
  /\ UNCHANGED selectionVars /\ HandoffStands

AskMoves(a) ==
  \/ AskReply(a)
  \/ a \in asks /\ ServeAsk(a) /\ UNCHANGED selectionVars /\ HandoffStands

PublishMoves ==
  /\ \/ \E p \in publishes : ServePublish(p) \/ PublishIsAnswered(p)
     \/ \E i \in DOMAIN published : RecordExpires(i)
  /\ UNCHANGED <<selectionVars, questions>> /\ AgentStands /\ AskStands

JobMoves(job) ==
  /\ \E next \in JobStatuses : JobAdvances(job, next)
  /\ UNCHANGED selectionVars /\ AskStands /\ HandoffStands

ServeAgent(c) ==
  c \in calls /\ Serve(c) /\ UNCHANGED selectionVars /\ AskStands /\ HandoffStands

QuestionMoves(q) ==
  /\ \E state \in {"answered", "over"} : QuestionEndsAs(q, state)
  /\ UNCHANGED selectionVars /\ HandoffStands

Losses ==
  \/ /\ WorkIsLeft /\ (\E c \in calls : Lose(c)) /\ AskStands
     /\ UNCHANGED selectionVars /\ HandoffStands
  \/ WorkIsLeft /\ (\E a \in asks : LoseAsk(a)) /\ UNCHANGED selectionVars /\ HandoffStands
  \/ /\ \E p \in publishes : LosePublish(p)
     /\ UNCHANGED <<selectionVars, questions>> /\ AgentStands /\ AskStands

-----------------------------------------------------------------------------
Init ==
  /\ InitAgent /\ InitAsk /\ InitHandoff
  /\ config \in Configurations
  /\ consent = "none" \/ "handoff" \in config.extensions
  /\ status = "idle" /\ targets = NoTargets /\ selected = 0
  /\ letGo = {}

Next ==
  \/ Open \/ Close \/ AddTarget \/ KeepTargets \/ SelectElement
  \/ \E t \in Chosen : ContextArrives(t)
  \/ \E t \in Chosen : RemoveTarget(t)
  \/ Reselect \/ Revise \/ Dispose
  \/ AgentPanel \/ AskPanel \/ HandoffPanel
  \/ AgentReply \/ PublishMoves
  \/ \E a \in asks : AskMoves(a)
  \/ \E job \in JobIds : JobMoves(job)
  \/ \E c \in calls : ServeAgent(c)
  \/ \E q \in QuestionIds : QuestionMoves(q)
  \/ Losses

(* The server goes on with its jobs and questions, serves what reaches it  *)
(* and the page hears of it; the user need not do anything.                *)
Fairness ==
  /\ \A job \in JobIds :
       /\ WF_vars(JobMoves(job))
       /\ WF_vars(\E c \in calls : c.kind = "let-go" /\ c.job = job /\ ServeAgent(c))
  /\ \A q \in QuestionIds :
       /\ WF_vars(QuestionMoves(q))
       /\ WF_vars(\E a \in asks : a.question = q /\ AskMoves(a))

Spec == Init /\ [][Next]_vars /\ Fairness

-----------------------------------------------------------------------------
(* What the panels show is of the latest run and of the latest question,   *)
(* whatever replies of earlier ones still come in: the job, its result,    *)
(* the question that can be cancelled, the answer.  Code: the revision of  *)
(* agent-workflow.ts, isCurrent() of contextual-ask-workflow.ts.           *)
ShownIsOfThisRun ==
  /\ snapshot # NoJob => snapshot.job = runs
  /\ result \in {0, snapshot.job}
  /\ {asking, answer} \subseteq {0, asked}

(* However often the answer to a publication is lost and the user sends    *)
(* again, and however late the first request arrives, what the user sent   *)
(* once is published once, as long as the broker holds its record; and     *)
(* nothing is published unless the user has confirmed the disclosure.      *)
(* Code: retryablePublish of external-handoff-workflow.ts, hasConsent() of *)
(* external-handoff-panel.ts, findReplay() of store.ts.                    *)
SentIsPublishedOnce ==
  /\ \A i, j \in DOMAIN published :
       i < j /\ published[i].for.send = published[j].for.send => ~published[i].remembered
  /\ published # <<>> => consent # "none"

(* A job the page showed as one that could be cancelled, and drops with    *)
(* the selection or with itself, does not stay with the server: it ends,   *)
(* and so the workspace becomes free.  Code: releaseSelection() and        *)
(* dispose() of runtime-controller.ts, disposeSelection().                 *)
DroppedJobEnds ==
  \A job \in JobIds : job \in letGo ~> jobs[job] \in {"applied", "over"}

(* A question does not leave the planner busy for ever, whether it is      *)
(* answered, refused, cancelled, lost on its way or dropped.  Code:        *)
(* submit(), cancel() and cancelPending() of contextual-ask-workflow.ts.   *)
QuestionEnds == busy ~> ~busy

-----------------------------------------------------------------------------
(* The inductive invariant the proofs rest on, workflow by workflow.  The  *)
(* requests that are not disowned are about the latest run and the latest  *)
(* question, so whatever they bring is of these.                           *)
ShownStatuses == JobStatuses \cup {"none"}

AgentRequest ==
  [kind: Actions \cup {"run", "stream", "refresh", "settle", "let-go"}, job: JobIds,
   step: {"health", "sent", "working", "answered", "refused", "lost"},
   status: ShownStatuses, feed: Seq(ShownStatuses), live: BOOLEAN]

AgentTypeOK ==
  /\ jobs \in [JobIds -> ShownStatuses]
  /\ calls \subseteq AgentRequest
  /\ losses \in Nat /\ runs \in 0 .. MaxRuns
  /\ snapshot \in [job: JobIds, status: ShownStatuses] \cup {NoJob}
  /\ result \in JobIds \cup {0}
  /\ pending \in BOOLEAN /\ applied \in BOOLEAN /\ presented \in BOOLEAN
  /\ editing \in BOOLEAN /\ panelEditing \in BOOLEAN

AgentFits ==
  /\ AgentTypeOK
  /\ snapshot # NoJob => snapshot.job = runs
  /\ result \in {0, snapshot.job}
  /\ \A c \in calls : c.live => c.job = runs

AskRequest ==
  [kind: {"create", "events", "result", "cancel"}, question: QuestionIds,
   step: {"sent", "answered", "refused", "lost"}, live: BOOLEAN]

AskTypeOK ==
  /\ questions \in [QuestionIds -> {"none", "running", "answered", "over"}]
  /\ asks \subseteq AskRequest
  /\ asked \in 0 .. MaxQuestions /\ busy \in BOOLEAN
  /\ asking \in QuestionIds \cup {0} /\ answer \in QuestionIds \cup {0}

AskFits ==
  /\ AskTypeOK
  /\ {asking, answer} \subseteq {0, asked}
  /\ \A a \in asks : a.live => a.question = asked

Request == [request: Nat, send: Nat]
Publication ==
  [for: Request, step: {"sent", "answered", "refused", "lost"}, live: BOOLEAN]

HandoffTypeOK ==
  /\ dialog \in BOOLEAN /\ sending \in BOOLEAN
  /\ consent \in {"none", "given", "remembered"}
  /\ sends \in Nat /\ requests \in Nat
  /\ retry \in Request /\ publishes \subseteq Publication
  /\ published \in Seq([for: Request, remembered: BOOLEAN])

(* All requests there are, on their way, to be sent again or published: no *)
(* two were drawn for one sending, and none for one still to come.         *)
Requested ==
  {p.for : p \in publishes} \cup {published[i].for : i \in DOMAIN published}
    \cup ({retry} \ {NoRequest})

(* A request makes a second revision when the record of the first is gone. *)
OneRecord ==
  \A i, j \in DOMAIN published :
    i < j /\ published[i].for = published[j].for => ~published[i].remembered

HandoffFits ==
  /\ HandoffTypeOK
  /\ \A r \in Requested : r.request \in 1 .. requests /\ r.send \in 1 .. sends
  /\ \A r, s \in Requested : r.send = s.send => r = s
  /\ OneRecord
  /\ Requested # {} => consent # "none"

SelectionTypeOK ==
  /\ config \in Configurations
  /\ status \in {"idle", "inspecting", "selected", "disposed"}
  /\ selected \in Nat /\ Chosen \subseteq 1 .. selected
  /\ targets \in [Chosen -> {"loading", "ready", "missed"}] /\ letGo \subseteq JobIds

(* Every variable has its type.                                            *)
TypeOK == AgentTypeOK /\ AskTypeOK /\ HandoffTypeOK /\ SelectionTypeOK

PageInvariant == AgentFits /\ AskFits /\ HandoffFits /\ SelectionTypeOK
=============================================================================
