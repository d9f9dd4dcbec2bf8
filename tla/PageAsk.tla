------------------------------- MODULE PageAsk -------------------------------
(***************************************************************************)
(* The page's side of a question: one is under way at a time, it can be    *)
(* cancelled, and while it is the selection cannot be edited.              *)
(* Code: packages/runtime/src/controller/contextual-ask-workflow.ts, api/  *)
(* contextual-ask-api.ts; the server's answers are those of packages/      *)
(* dev-server/src/contextual-ask/manager.ts, which AskJobs models in full. *)
(***************************************************************************)
EXTENDS PageAgent

CONSTANT MaxQuestions   \* bound: questions submitted

VARIABLES
  asks,      \* the ask workflow's requests, marked like the agent's
  asked,     \* questions submitted so far
  busy,
  asking,    \* the question of currentSnapshot while it can be cancelled, or 0
  answer     \* the question of currentResult, or 0

QuestionIds == 1 .. MaxQuestions

(* A request: "create", "events", "result" or "cancel", with the steps of  *)
(* the agent's.                                                            *)
Ask(kind, q) == [kind |-> kind, question |-> q, step |-> "sent", live |-> TRUE]

TurnsInto(ask, into) == asks' = (asks \ {ask}) \cup into
Step(ask, step) == TurnsInto(ask, {[ask EXCEPT !.step = step]})

(* onBusyChange().                                                         *)
SetBusy(now) == busy' = now /\ SetEditing(~now)

-----------------------------------------------------------------------------
(* The server: a question is refused while the workspace is taken, and it  *)
(* ends by itself.                                                         *)
QuestionEndsAs(q, state) ==
  /\ questions[q] = "running" /\ state \in {"answered", "over"}
  /\ questions' = [questions EXCEPT ![q] = state]
  /\ UNCHANGED <<jobs, calls, losses, runs, asks, asked, busy, asking, answer, editing,
                 panelEditing>>
  /\ UNCHANGED pageVars

ServeAsk(a) ==
  /\ a.step = "sent"
  /\ CASE a.kind = "create" /\ WorkspaceIsFree ->
            /\ questions' = [questions EXCEPT ![a.question] = "running"]
            /\ Step(a, "answered")
       [] a.kind = "create" /\ ~WorkspaceIsFree -> Step(a, "refused") /\ UNCHANGED questions
       [] a.kind = "events" ->
            questions[a.question] # "running" /\ Step(a, "answered") /\ UNCHANGED questions
       [] a.kind = "result" -> Step(a, "answered") /\ UNCHANGED questions
       [] a.kind = "cancel" ->
            /\ questions' = [questions EXCEPT ![a.question] = IF @ = "running" THEN "over" ELSE @]
            /\ Step(a, "answered")
  /\ UNCHANGED <<jobs, calls, losses, runs, asked, busy, asking, answer, editing,
                 panelEditing>>
  /\ UNCHANGED pageVars

LoseAsk(a) ==
  /\ a.live /\ a.step \in {"sent", "answered"}
  /\ losses' = losses + 1
  /\ Step(a, "lost")
  /\ UNCHANGED <<jobs, questions, calls, runs, asked, busy, asking, answer, editing,
                 panelEditing>>
  /\ UNCHANGED pageVars

-----------------------------------------------------------------------------
(* submit(), after each of its waits: the creation, the events, the        *)
(* result.  A reply of an earlier revision ends it.                        *)
SubmitProceeds(a) ==
  /\ a.kind \in {"create", "events"} /\ a.step = "answered"
  /\ IF Fresh(a)
     THEN /\ TurnsInto(a, {Ask(IF a.kind = "create" THEN "events" ELSE "result", a.question)})
          /\ asking' = IF a.kind = "create" THEN a.question ELSE 0
     ELSE TurnsInto(a, {}) /\ UNCHANGED asking
  /\ UNCHANGED <<jobs, questions, calls, losses, runs, asked, busy, answer, editing,
                 panelEditing>>
  /\ UNCHANGED pageVars

(* As it would be if a failure did not clear busy.                         *)
BugSubmitEnds(a) ==
  /\ a.kind \in {"create", "events", "result"}
  /\ a.step \in {"refused", "lost"} \/ (a.kind = "result" /\ a.step = "answered")
  /\ TurnsInto(a, {})
  /\ IF Fresh(a) /\ a.step = "answered"
     THEN /\ SetBusy(FALSE) /\ asking' = 0
          /\ answer' = IF questions[a.question] = "answered" THEN a.question ELSE answer
     ELSE UNCHANGED <<busy, asking, answer, editing, panelEditing>>
  /\ UNCHANGED <<jobs, questions, calls, losses, runs, asked>>
  /\ UNCHANGED pageVars

SubmitEnds(a) ==
  /\ a.kind \in {"create", "events", "result"}
  /\ a.step \in {"refused", "lost"} \/ (a.kind = "result" /\ a.step = "answered")
  /\ TurnsInto(a, {})
  /\ IF Fresh(a)
     THEN /\ SetBusy(FALSE)
          /\ IF a.step = "answered"
             THEN /\ asking' = 0
                  /\ answer' = IF questions[a.question] = "answered" THEN a.question ELSE answer
             ELSE UNCHANGED <<asking, answer>>
     ELSE UNCHANGED <<busy, asking, answer, editing, panelEditing>>
  /\ UNCHANGED <<jobs, questions, calls, losses, runs, asked>>
  /\ UNCHANGED pageVars

(* cancel(), when it is answered or fails; the question may go on.         *)
CancelIsAnswered(a) ==
  /\ a.kind = "cancel" /\ a.step \in {"answered", "lost"}
  /\ TurnsInto(a, {})
  /\ IF Fresh(a)
     THEN /\ SetBusy(FALSE)
          /\ asking' = IF a.step = "answered" THEN 0 ELSE asking
     ELSE UNCHANGED <<busy, asking, editing, panelEditing>>
  /\ UNCHANGED <<jobs, questions, calls, losses, runs, asked, answer>>
  /\ UNCHANGED pageVars

-----------------------------------------------------------------------------
Submit ==
  /\ ~busy /\ asked < MaxQuestions
  /\ asked' = asked + 1
  /\ asks' = Disowned(asks) \cup {Ask("create", asked + 1)}
  /\ SetBusy(TRUE) /\ asking' = 0 /\ answer' = 0
  /\ UNCHANGED <<jobs, questions, calls, losses, runs>>
  /\ UNCHANGED pageVars

CancelQuestion ==
  /\ busy /\ asking # 0
  /\ \A a \in asks : a.kind # "cancel"
  /\ asks' = asks \cup {Ask("cancel", asking)}
  /\ UNCHANGED <<jobs, questions, calls, losses, runs, asked, busy, asking, answer, editing,
                 panelEditing>>
  /\ UNCHANGED pageVars

(* The button is there once there is an answer.                            *)
NewQuestion ==
  /\ ~busy /\ answer # 0
  /\ asks' = Disowned(asks)
  /\ asking' = 0 /\ answer' = 0
  /\ UNCHANGED <<jobs, questions, calls, losses, runs, asked, busy, editing, panelEditing>>
  /\ UNCHANGED pageVars

(* cancelPending(): nothing is waited for, and what can be cancelled is.   *)
LeftAlone == {[a EXCEPT !.live = FALSE] : a \in {b \in asks :
                b.step = "sent" /\ b.kind \in {"create", "cancel"}}}

DropQuestion ==
  /\ asks' = LeftAlone \cup
       (IF asking = 0 THEN {} ELSE {[Ask("cancel", asking) EXCEPT !.live = FALSE]})
  /\ SetBusy(FALSE) /\ asking' = 0
  /\ UNCHANGED <<asked, answer>>

(* dispose() aborts the cancellation with everything else.                 *)
DisposeQuestion ==
  /\ asks' = LeftAlone
  /\ SetBusy(FALSE) /\ asking' = 0
  /\ UNCHANGED <<asked, answer>>

InitAsk ==
  /\ questions = [q \in QuestionIds |-> "none"]
  /\ asks = {} /\ asked = 0 /\ busy = FALSE /\ asking = 0 /\ answer = 0
=============================================================================
