----------------------------- MODULE PageHandoff -----------------------------
(***************************************************************************)
(* Sending the selection to an external agent from the page.  What would   *)
(* be disclosed is shown until the user has confirmed it once in this tab; *)
(* the request is published, and one whose outcome is not known is         *)
(* published again.  The broker answers a request it remembers from its    *)
(* record, and forgets the record after requestIdTtlMs.                    *)
(* Code: packages/runtime/src/controller/external-handoff-workflow.ts,     *)
(* ui/external-handoff-panel.ts; packages/dev-server/src/external-handoff/ *)
(* service.ts, store.ts.                                                   *)
(***************************************************************************)
EXTENDS Naturals, Sequences

CONSTANTS
  MaxSends,       \* bound: new requests made
  MaxRequests,    \* bound: request ids drawn, at least as many
  MaxPublished    \* bound: revisions made

VARIABLES
  dialog,      \* the disclosure is shown
  sending,     \* userActionPending
  retry,       \* retryablePublish, or NoRequest
  consent,     \* "none"; "given" where the tab cannot store it; "remembered"
  sends,       \* new requests made so far
  requests,    \* request ids drawn so far
  publishes,   \* publish requests on their way
  published    \* the revisions made, and whether their record is still held

handoffVars == <<dialog, sending, retry, consent, sends, requests, publishes, published>>

(* A request: its id, and which of the user's sendings it was made for.    *)
NoRequest == [request |-> 0, send |-> 0]

(* A publish request is sent, then answered, refused or lost.              *)
Publish(request) == [for |-> request, step |-> "sent", live |-> TRUE]

-----------------------------------------------------------------------------
(* As it would be if another try drew another id.                          *)
BugAgain == [retry EXCEPT !.request = requests + 1]

(* The request that is published again is the one that got no answer.      *)
Again == retry

Sends(request) ==
  /\ retry' = request
  /\ requests' = IF request.request > requests THEN request.request ELSE requests
  /\ publishes' = publishes \cup {Publish(request)}

SendsNew ==
  /\ sends < MaxSends /\ requests < MaxRequests
  /\ sends' = sends + 1
  /\ Sends([request |-> requests + 1, send |-> sends + 1])

(* handleSend(): what got no answer goes out again without a question;     *)
(* confirmDisclosure() asks for a new one unless hasConsent().             *)
Send ==
  /\ ~sending /\ sending' = TRUE
  /\ \/ /\ retry # NoRequest /\ Again.request <= MaxRequests
        /\ Sends(Again) /\ UNCHANGED <<dialog, sends>>
     \/ /\ retry = NoRequest /\ consent = "remembered"
        /\ SendsNew /\ UNCHANGED dialog
     \/ /\ retry = NoRequest /\ consent # "remembered"
        /\ dialog' = TRUE /\ UNCHANGED <<retry, sends, requests, publishes>>
  /\ UNCHANGED <<consent, published>>

(* rememberConsent() fails where the storage is blocked.                   *)
Confirm ==
  /\ dialog /\ dialog' = FALSE
  /\ consent' \in {"given", "remembered"}
  /\ SendsNew
  /\ UNCHANGED <<sending, published>>

(* settleDisclosure(false): declined, or the panel is hidden.              *)
DialogGoes == dialog' = FALSE /\ sending' = (sending /\ ~dialog)

Decline ==
  /\ dialog /\ DialogGoes
  /\ UNCHANGED <<retry, consent, sends, requests, publishes, published>>

-----------------------------------------------------------------------------
Moves(p, step) == publishes' = (publishes \ {p}) \cup {[p EXCEPT !.step = step]}

Remembered(request) ==
  \E i \in DOMAIN published : published[i].for.request = request /\ published[i].remembered

(* publish(): a request that is remembered is answered with what it made,  *)
(* any other makes a revision, and either may be refused.                  *)
ServePublish(p) ==
  /\ p.step = "sent"
  /\ \/ Remembered(p.for.request) /\ Moves(p, "answered") /\ UNCHANGED published
     \/ /\ ~Remembered(p.for.request) /\ Len(published) < MaxPublished
        /\ published' = Append(published, [for |-> p.for, remembered |-> TRUE])
        /\ Moves(p, "answered")
     \/ Moves(p, "refused") /\ UNCHANGED published
  /\ UNCHANGED <<dialog, sending, retry, consent, sends, requests>>

(* sweep() drops the record of a request; requestIdTtlMs have passed.      *)
RecordExpires(i) ==
  /\ published[i].remembered
  /\ published' = [published EXCEPT ![i].remembered = FALSE]
  /\ UNCHANGED <<dialog, sending, retry, consent, sends, requests, publishes>>

(* The answer is lost, and the request itself may still be on its way.     *)
LosePublish(p) ==
  /\ p.live /\ p.step \in {"sent", "answered"}
  /\ \E late \in SUBSET {[p EXCEPT !.live = FALSE]} :
       publishes' = (publishes \ {p}) \cup {[p EXCEPT !.step = "lost"]} \cup late
  /\ UNCHANGED <<dialog, sending, retry, consent, sends, requests, published>>

(* A refusal with a code is final, anything else can be tried again.       *)
PublishIsAnswered(p) ==
  /\ p.step # "sent"
  /\ publishes' = publishes \ {p}
  /\ IF p.live
     THEN sending' = FALSE /\ retry' = IF p.step = "lost" THEN retry ELSE NoRequest
     ELSE UNCHANGED <<sending, retry>>
  /\ UNCHANGED <<dialog, consent, sends, requests, published>>

(* cancelPending(), with the panel hidden after it.                        *)
WithdrawHandoff ==
  /\ sending' = FALSE /\ retry' = NoRequest /\ dialog' = FALSE
  /\ publishes' = {[p EXCEPT !.live = FALSE] : p \in publishes}
  /\ UNCHANGED <<consent, sends, requests, published>>

HideHandoff ==
  DialogGoes /\ UNCHANGED <<retry, consent, sends, requests, publishes, published>>

(* The consent of this tab outlives the page that asked for it.            *)
InitHandoff ==
  /\ dialog = FALSE /\ sending = FALSE /\ retry = NoRequest
  /\ consent \in {"none", "remembered"}
  /\ sends = 0 /\ requests = 0 /\ publishes = {} /\ published = <<>>
=============================================================================
