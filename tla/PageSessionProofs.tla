-------------------------- MODULE PageSessionProofs ---------------------------
(***************************************************************************)
(* Proofs about PageSession, for any pages and bounds: what the panels     *)
(* show is of the latest run and question, and what the user sent once is  *)
(* published once as long as the broker remembers it.  Each workflow keeps *)
(* its own part of the invariant, and the page's steps are made of theirs. *)
(***************************************************************************)
EXTENDS PageSession, SequenceTheorems, TLAPS

-----------------------------------------------------------------------------
(* The handoff.                                                            *)

(* A publish request that is marked or goes on is still for what it was.   *)
LEMMA MarkedPublish ==
  ASSUME NEW p \in Publication
  PROVE  /\ [p EXCEPT !.live = FALSE] \in Publication /\ [p EXCEPT !.live = FALSE].for = p.for
         /\ \A step \in {"sent", "answered", "refused", "lost"} :
              [p EXCEPT !.step = step] \in Publication /\ [p EXCEPT !.step = step].for = p.for
BY DEF Publication

(* Without a new request what there is stays as it fits.                   *)
LEMMA NoNewRequest ==
  ASSUME HandoffFits, HandoffTypeOK', OneRecord', Requested' \subseteq Requested,
         UNCHANGED <<consent, sends, requests>>
  PROVE  HandoffFits'
BY DEF HandoffFits

(* A new request is for a sending of its own.                              *)
LEMMA NewRequest ==
  ASSUME HandoffFits, SendsNew, UNCHANGED published, consent' \in {"given", "remembered"},
         dialog' \in BOOLEAN, sending' \in BOOLEAN
  PROVE  HandoffFits'
<1> DEFINE new == [request |-> requests + 1, send |-> sends + 1]
<1>1. HandoffTypeOK /\ sends \in Nat /\ requests \in Nat
  BY DEF HandoffFits, HandoffTypeOK
<1>2. /\ retry' = new /\ publishes' = publishes \cup {Publish(new)} /\ Publish(new).for = new
      /\ requests' = requests + 1 /\ sends' = sends + 1
  BY <1>1 DEF SendsNew, Sends, Publish
<1>3. new \in Request /\ new.request = requests + 1 /\ new.send = sends + 1
  BY <1>1 DEF Request
<1> HIDE DEF new
<1>4. Publish(new) \in Publication
  BY <1>3 DEF Publish, Publication
<1>5. HandoffTypeOK'
  BY <1>1, <1>2, <1>3, <1>4 DEF HandoffTypeOK
<1>6. Requested' \subseteq Requested \cup {new}
  BY <1>2 DEF Requested
<1>7. \A r \in Requested : r.request \in 1 .. requests /\ r.send \in 1 .. sends
  BY DEF HandoffFits
<1>8. \A r \in Requested' : r.request \in 1 .. requests' /\ r.send \in 1 .. sends'
  BY <1>1, <1>2, <1>3, <1>6, <1>7
<1>9. \A r, s \in Requested' : r.send = s.send => r = s
  <2>1. \A r \in Requested : r.send # new.send
    BY <1>1, <1>3, <1>7
  <2>2. \A r, s \in Requested : r.send = s.send => r = s
    BY DEF HandoffFits
  <2> QED BY <1>6, <2>1, <2>2
<1>10. OneRecord'
  BY DEF HandoffFits, OneRecord
<1> QED BY <1>5, <1>8, <1>9, <1>10 DEF HandoffFits

(* The steps of the handoff.                                               *)
HandoffMoves ==
  \/ HandoffStands \/ HideHandoff \/ WithdrawHandoff
  \/ Send \/ Confirm \/ Decline
  \/ \E p \in publishes : ServePublish(p) \/ PublishIsAnswered(p) \/ LosePublish(p)
  \/ \E i \in DOMAIN published : RecordExpires(i)

(* The broker makes a revision only of a request it does not remember.     *)
LEMMA ServedOnce ==
  ASSUME HandoffFits, NEW p \in publishes, ServePublish(p)
  PROVE  /\ published' \in Seq([for: Request, remembered: BOOLEAN])
         /\ \A i \in DOMAIN published' :
              (\E k \in DOMAIN published : published'[i].for = published[k].for)
                \/ published'[i].for = p.for
         /\ OneRecord'
<1> DEFINE new == [for |-> p.for, remembered |-> TRUE]
<1>1. /\ published \in Seq([for: Request, remembered: BOOLEAN]) /\ OneRecord
      /\ p \in Publication
  BY DEF HandoffFits, HandoffTypeOK
<1>2. CASE UNCHANGED published
  BY <1>1, <1>2 DEF OneRecord
<1>3. CASE ~Remembered(p.for.request) /\ published' = Append(published, new)
  <2>1. new \in [for: Request, remembered: BOOLEAN] /\ new.for = p.for
    BY <1>1 DEF Publication
  <2> HIDE DEF new
  <2>2. /\ DOMAIN published = 1 .. Len(published) /\ Len(published) \in Nat
        /\ DOMAIN published' = 1 .. Len(published) + 1
        /\ \A i \in DOMAIN published : published'[i] = published[i]
        /\ published'[Len(published) + 1] = new
    BY <1>1, <1>3, <2>1
  <2>3. published' \in Seq([for: Request, remembered: BOOLEAN])
    BY <1>1, <1>3, <2>1
  <2>4. \A i \in DOMAIN published : published[i].for = p.for => ~published[i].remembered
    BY <1>3 DEF Remembered
  <2>5. ASSUME NEW i \in DOMAIN published', NEW j \in DOMAIN published', i < j,
               published'[i].for = published'[j].for
        PROVE  ~published'[i].remembered
    <3>1. i \in DOMAIN published /\ published'[i] = published[i]
      BY <2>2, <2>5
    <3>2. CASE j \in DOMAIN published
      BY <1>1, <2>2, <2>5, <3>1, <3>2 DEF OneRecord
    <3>3. CASE j = Len(published) + 1
      BY <2>1, <2>2, <2>4, <2>5, <3>1, <3>3
    <3> QED BY <2>2, <3>2, <3>3
  <2>6. OneRecord'
    BY <2>5 DEF OneRecord
  <2>7. \A i \in DOMAIN published' : i \in DOMAIN published \/ i = Len(published) + 1
    BY <2>2
  <2> QED BY <2>1, <2>2, <2>3, <2>6, <2>7
<1> QED BY <1>2, <1>3 DEF ServePublish

(* Every step of the handoff keeps its requests in order: only what the    *)
(* user has confirmed draws one, and it draws a new one.                   *)
LEMMA HandoffInvariant == HandoffFits /\ HandoffMoves => HandoffFits'
<1> SUFFICES ASSUME HandoffFits, HandoffMoves PROVE HandoffFits'
  OBVIOUS
<1>1. /\ HandoffTypeOK /\ OneRecord /\ (\A p \in publishes : p.for \in Requested)
      /\ \A i \in DOMAIN published : published[i].for \in Requested
  BY DEF HandoffFits, Requested
<1>2. CASE HandoffStands
  <2>1. HandoffTypeOK' /\ OneRecord' /\ Requested' = Requested
    BY <1>1, <1>2 DEF HandoffStands, handoffVars, HandoffTypeOK, OneRecord, Requested
  <2> QED BY <1>2, <2>1, NoNewRequest DEF HandoffStands, handoffVars
<1>3. CASE HideHandoff \/ Decline
  <2>1. dialog' \in BOOLEAN /\ sending' \in BOOLEAN
    BY <1>3 DEF HideHandoff, Decline, DialogGoes
  <2>2. UNCHANGED <<retry, consent, sends, requests, publishes, published>>
    BY <1>3 DEF HideHandoff, Decline
  <2>3. HandoffTypeOK' /\ OneRecord' /\ Requested' = Requested
    BY <1>1, <2>1, <2>2 DEF HandoffTypeOK, OneRecord, Requested
  <2> QED BY <2>2, <2>3, NoNewRequest
<1>4. CASE WithdrawHandoff
  <2>1. \A q \in publishes' : \E p \in publishes : q \in Publication /\ q.for = p.for
    <3> TAKE q \in publishes'
    <3>1. PICK p \in publishes : q = [p EXCEPT !.live = FALSE]
      BY <1>4 DEF WithdrawHandoff
    <3>2. p \in Publication
      BY <1>1 DEF HandoffTypeOK
    <3> QED BY <3>1, <3>2, MarkedPublish
  <2>2. retry' = NoRequest /\ sending' = FALSE /\ dialog' = FALSE
        /\ UNCHANGED <<consent, sends, requests, published>>
    BY <1>4 DEF WithdrawHandoff
  <2>3. NoRequest \in Request
    BY DEF NoRequest, Request
  <2>4. HandoffTypeOK' /\ OneRecord'
    BY <1>1, <2>1, <2>2, <2>3 DEF HandoffTypeOK, OneRecord
  <2>5. Requested' \subseteq Requested
    BY <1>1, <2>1, <2>2 DEF Requested
  <2> QED BY <2>2, <2>4, <2>5, NoNewRequest
<1>5. CASE Send
  <2>1. sending' = TRUE /\ UNCHANGED <<consent, published>>
    BY <1>5 DEF Send
  <2>2. CASE dialog' = TRUE /\ UNCHANGED <<retry, sends, requests, publishes>>
    <3>1. HandoffTypeOK' /\ OneRecord' /\ Requested' = Requested
      BY <1>1, <2>1, <2>2 DEF HandoffTypeOK, OneRecord, Requested
    <3> QED BY <2>1, <2>2, <3>1, NoNewRequest
  <2>3. CASE consent = "remembered" /\ SendsNew /\ UNCHANGED dialog
    <3>1. dialog' \in BOOLEAN
      BY <1>1, <2>3 DEF HandoffTypeOK
    <3> QED BY <2>1, <2>3, <3>1, NewRequest
  <2>4. CASE retry # NoRequest /\ Sends(Again) /\ UNCHANGED <<dialog, sends>>
    <3>1. retry \in Requested /\ retry.request <= requests
      BY <1>1, <2>4 DEF Requested, HandoffFits, HandoffTypeOK
    <3>2. /\ retry' = retry /\ publishes' = publishes \cup {Publish(retry)}
          /\ requests' = requests
      BY <1>1, <2>4, <3>1 DEF Sends, Again, HandoffTypeOK, Request
    <3>3. Publish(retry).for = retry /\ Publish(retry) \in Publication
      BY <1>1 DEF HandoffTypeOK, Publish, Publication
    <3>4. HandoffTypeOK' /\ OneRecord'
      BY <1>1, <2>1, <2>4, <3>2, <3>3 DEF HandoffTypeOK, OneRecord
    <3>5. Requested' \subseteq Requested
      BY <2>1, <3>1, <3>2, <3>3 DEF Requested
    <3> QED BY <2>1, <2>4, <3>2, <3>4, <3>5, NoNewRequest
  <2> QED BY <1>5, <2>2, <2>3, <2>4 DEF Send
<1>6. CASE Confirm
  <2>1. dialog' \in BOOLEAN /\ sending' \in BOOLEAN
    BY <1>1, <1>6 DEF Confirm, HandoffTypeOK
  <2> QED BY <1>6, <2>1, NewRequest DEF Confirm
<1>7. ASSUME NEW p \in publishes, ServePublish(p) \/ PublishIsAnswered(p) \/ LosePublish(p)
      PROVE  HandoffFits'
  <2>1. UNCHANGED <<dialog, consent, sends, requests>>
    BY <1>7 DEF ServePublish, PublishIsAnswered, LosePublish
  <2>2. retry' \in {retry, NoRequest} /\ sending' \in {sending, FALSE}
    BY <1>7 DEF ServePublish, PublishIsAnswered, LosePublish
  <2>3. p \in Publication
    BY <1>1 DEF HandoffTypeOK
  <2>4. publishes' \subseteq publishes \cup {[p EXCEPT !.live = FALSE]}
          \cup {[p EXCEPT !.step = step] : step \in {"sent", "answered", "refused", "lost"}}
    BY <1>7 DEF ServePublish, Moves, PublishIsAnswered, LosePublish
  <2>5. \A q \in publishes' : q \in publishes \/ (q \in Publication /\ q.for = p.for)
    <3> TAKE q \in publishes'
    <3>1. CASE q = [p EXCEPT !.live = FALSE]
      BY <2>3, <3>1, MarkedPublish
    <3>2. ASSUME NEW step \in {"sent", "answered", "refused", "lost"}, q = [p EXCEPT !.step = step]
          PROVE  q \in Publication /\ q.for = p.for
      BY <2>3, <3>2, MarkedPublish
    <3> QED BY <2>4, <3>1, <3>2
  <2>6. sending' \in BOOLEAN
    BY <1>1, <2>2 DEF HandoffTypeOK
  <2>7. NoRequest \in Request /\ p.for \in Request
    BY <2>3 DEF NoRequest, Request, Publication
  <2>8. /\ published' \in Seq([for: Request, remembered: BOOLEAN])
        /\ \A i \in DOMAIN published' :
             (\E k \in DOMAIN published : published'[i].for = published[k].for)
               \/ published'[i].for = p.for
        /\ OneRecord'
    <3>1. CASE UNCHANGED published
      BY <1>1, <3>1 DEF HandoffTypeOK, OneRecord
    <3>2. CASE ServePublish(p)
      BY <3>2, ServedOnce
    <3> QED BY <1>7, <3>1, <3>2 DEF PublishIsAnswered, LosePublish
  <2>9. HandoffTypeOK'
    BY <1>1, <2>1, <2>2, <2>5, <2>6, <2>7, <2>8 DEF HandoffTypeOK
  <2>10. \A i \in DOMAIN published' : published'[i].for \in Requested
    BY <1>1, <2>8
  <2>11. Requested' \subseteq Requested
    BY <1>1, <2>2, <2>5, <2>10 DEF Requested
  <2> QED BY <2>1, <2>8, <2>9, <2>11, NoNewRequest
<1>8. ASSUME NEW i \in DOMAIN published, RecordExpires(i)
      PROVE  HandoffFits'
  <2>1. /\ published' = [published EXCEPT ![i].remembered = FALSE]
        /\ UNCHANGED <<dialog, sending, retry, consent, sends, requests, publishes>>
    BY <1>8 DEF RecordExpires
  <2>2. /\ published \in Seq([for: Request, remembered: BOOLEAN])
        /\ \A k \in DOMAIN published : published[k] \in [for: Request, remembered: BOOLEAN]
    <3>1. published \in Seq([for: Request, remembered: BOOLEAN])
      BY <1>1 DEF HandoffTypeOK
    <3>2. DOMAIN published = 1 .. Len(published)
      BY <3>1
    <3>3. \A k \in 1 .. Len(published) : published[k] \in [for: Request, remembered: BOOLEAN]
      BY <3>1, ElementOfSeq
    <3> QED BY <3>1, <3>2, <3>3
  <2> DEFINE gone == [published[i] EXCEPT !.remembered = FALSE]
  <2>3. /\ gone \in [for: Request, remembered: BOOLEAN] /\ gone.for = published[i].for
        /\ ~gone.remembered
    BY <2>2
  <2>4. published' = [published EXCEPT ![i] = gone]
    BY <2>1
  <2> HIDE DEF gone
  <2>5. /\ published' \in Seq([for: Request, remembered: BOOLEAN])
        /\ DOMAIN published' = DOMAIN published
        /\ \A k \in DOMAIN published :
             /\ published'[k].for = published[k].for
             /\ published'[k].remembered => published[k].remembered
    BY <2>2, <2>3, <2>4
  <2>6. OneRecord'
    BY <1>1, <2>5 DEF OneRecord
  <2>7. HandoffTypeOK'
    BY <1>1, <2>1, <2>5 DEF HandoffTypeOK
  <2>8. Requested' \subseteq Requested
    BY <1>1, <2>1, <2>5 DEF Requested
  <2> QED BY <2>1, <2>6, <2>7, <2>8, NoNewRequest
<1> QED BY <1>2, <1>3, <1>4, <1>5, <1>6, <1>7, <1>8 DEF HandoffMoves

-----------------------------------------------------------------------------
(* The questions.                                                          *)

(* A request that is marked or goes on is about the question it was about. *)
LEMMA MarkedAsk ==
  ASSUME NEW a \in AskRequest
  PROVE  /\ [a EXCEPT !.live = FALSE] \in AskRequest /\ ~[a EXCEPT !.live = FALSE].live
         /\ \A step \in {"sent", "answered", "refused", "lost"} :
              /\ [a EXCEPT !.step = step] \in AskRequest
              /\ [a EXCEPT !.step = step].question = a.question
              /\ [a EXCEPT !.step = step].live = a.live
BY DEF AskRequest

(* A new request is about the question it is made for.                     *)
LEMMA NewAsk ==
  ASSUME NEW q \in QuestionIds, NEW kind \in {"create", "events", "result", "cancel"}
  PROVE  /\ Ask(kind, q) \in AskRequest /\ Ask(kind, q).question = q /\ Ask(kind, q).live
         /\ [Ask(kind, q) EXCEPT !.live = FALSE] \in AskRequest
         /\ ~[Ask(kind, q) EXCEPT !.live = FALSE].live
BY DEF Ask, AskRequest

(* What there is stays as it fits when new requests are about the latest   *)
(* question and nothing else is shown.                                     *)
LEMMA SameQuestion ==
  ASSUME AskFits, UNCHANGED asked,
         questions' \in [QuestionIds -> {"none", "running", "answered", "over"}],
         \A a \in asks' : a \in asks \/ (a \in AskRequest /\ (a.live => a.question = asked)),
         busy' \in BOOLEAN, {asking', answer'} \subseteq {0, asking, answer, asked}
  PROVE  AskFits'
<1>1. {asking', answer'} \subseteq {0, asked}
  BY DEF AskFits
<1>2. asked \in QuestionIds \cup {0}
  BY PageAssumption DEF AskFits, AskTypeOK, QuestionIds
<1>3. AskTypeOK'
  BY <1>1, <1>2 DEF AskFits, AskTypeOK
<1> QED BY <1>1, <1>3 DEF AskFits

(* The steps of the questions.                                             *)
QuestionsMove ==
  \/ (AskStands \/ DropQuestion \/ DisposeQuestion \/ BeginSelection) /\ UNCHANGED questions
  \/ Submit \/ CancelQuestion \/ NewQuestion
  \/ \E a \in asks : SubmitProceeds(a) \/ SubmitEnds(a) \/ CancelIsAnswered(a)
                       \/ ServeAsk(a) \/ LoseAsk(a)
  \/ \E q \in QuestionIds, state \in {"answered", "over"} : QuestionEndsAs(q, state)

(* A reply of an earlier question moves nothing the page shows.            *)
LEMMA AskReplyInvariant ==
  ASSUME AskFits, NEW a \in asks,
         SubmitProceeds(a) \/ SubmitEnds(a) \/ CancelIsAnswered(a) \/ ServeAsk(a) \/ LoseAsk(a)
  PROVE  AskFits'
<1>1. /\ AskTypeOK /\ a \in AskRequest /\ (a.live => a.question = asked) /\ a.question \in QuestionIds
      /\ a.live \in BOOLEAN
  BY DEF AskFits, AskTypeOK, AskRequest
<1>2. UNCHANGED asked
  BY DEF SubmitProceeds, SubmitEnds, CancelIsAnswered, ServeAsk, LoseAsk
<1>3. CASE SubmitProceeds(a)
  <2> DEFINE next == Ask(IF a.kind = "create" THEN "events" ELSE "result", a.question)
  <2>1. next \in AskRequest /\ next.question = a.question
    BY <1>1, NewAsk
  <2>2. /\ asks' \subseteq asks \cup (IF a.live THEN {next} ELSE {})
        /\ asking' \in {0, asking} \cup (IF a.live THEN {a.question} ELSE {})
        /\ UNCHANGED <<questions, busy, answer>>
    BY <1>3 DEF SubmitProceeds, TurnsInto, Fresh
  <2> HIDE DEF next
  <2> QED BY <1>1, <1>2, <2>1, <2>2, SameQuestion DEF AskTypeOK
<1>4. CASE SubmitEnds(a) \/ CancelIsAnswered(a)
  <2>1. /\ asks' \subseteq asks /\ UNCHANGED questions
        /\ {asking', answer'} \subseteq {0, asking, answer} \cup (IF a.live THEN {a.question} ELSE {})
    BY <1>4 DEF SubmitEnds, CancelIsAnswered, TurnsInto, Fresh
  <2>2. busy' \in BOOLEAN
    BY <1>1, <1>4 DEF SubmitEnds, CancelIsAnswered, SetBusy, AskTypeOK
  <2> QED BY <1>1, <1>2, <2>1, <2>2, SameQuestion DEF AskTypeOK
<1>5. CASE ServeAsk(a) \/ LoseAsk(a)
  <2>1. PICK step \in {"sent", "answered", "refused", "lost"} :
          asks' = (asks \ {a}) \cup {[a EXCEPT !.step = step]}
    <3>1. a.kind \in {"create", "events", "result", "cancel"}
      BY <1>1 DEF AskRequest
    <3> QED BY <1>5, <3>1 DEF ServeAsk, LoseAsk, Step, TurnsInto
  <2>2. \A b \in asks' : b \in asks \/ (b \in AskRequest /\ (b.live => b.question = asked))
    <3> DEFINE next == [a EXCEPT !.step = step]
    <3>1. next \in AskRequest /\ next.question = a.question /\ next.live = a.live
      BY <1>1, MarkedAsk
    <3>2. asks' = (asks \ {a}) \cup {next}
      BY <2>1
    <3> HIDE DEF next
    <3> QED BY <1>1, <3>1, <3>2
  <2>3. questions' \in [QuestionIds -> {"none", "running", "answered", "over"}]
    <3>1. \/ questions' = questions
          \/ \E state \in {"running", "over", questions[a.question]} :
               questions' = [questions EXCEPT ![a.question] = state]
      <4>1. a.kind \in {"create", "events", "result", "cancel"}
        BY <1>1 DEF AskRequest
      <4> QED BY <1>5, <4>1 DEF ServeAsk, LoseAsk
    <3>2. /\ questions \in [QuestionIds -> {"none", "running", "answered", "over"}]
          /\ a.question \in QuestionIds
      BY <1>1 DEF AskTypeOK
    <3> QED BY <3>1, <3>2
  <2>4. UNCHANGED <<busy, asking, answer>>
    BY <1>5 DEF ServeAsk, LoseAsk
  <2> QED BY <1>1, <1>2, <2>2, <2>3, <2>4, SameQuestion DEF AskTypeOK
<1> QED BY <1>3, <1>4, <1>5

(* Every step keeps the requests that count about the latest question.     *)
LEMMA AskInvariant == AskFits /\ QuestionsMove => AskFits'
<1> SUFFICES ASSUME AskFits, QuestionsMove PROVE AskFits'
  OBVIOUS
<1>1. AskTypeOK /\ asks \subseteq AskRequest /\ {asking, answer} \subseteq {0, asked}
  BY DEF AskFits, AskTypeOK
<1> DEFINE disowned(s) == {[a EXCEPT !.live = FALSE] : a \in s}
<1>2. ASSUME NEW s \in SUBSET asks
      PROVE  \A b \in disowned(s) : b \in AskRequest /\ ~b.live
  <2> TAKE b \in disowned(s)
  <2>1. PICK a \in s : b = [a EXCEPT !.live = FALSE]
    OBVIOUS
  <2>2. a \in AskRequest
    BY <1>1, <1>2
  <2> QED BY <2>1, <2>2, MarkedAsk
<1>3. CASE AskStands /\ UNCHANGED questions
  BY <1>1, <1>3, SameQuestion DEF AskStands, AskTypeOK
<1>4. CASE (DropQuestion \/ DisposeQuestion) /\ UNCHANGED questions
  <2>1. /\ asks' \subseteq disowned({b \in asks : b.step = "sent" /\ b.kind \in {"create", "cancel"}})
             \cup (IF asking = 0 THEN {} ELSE {[Ask("cancel", asking) EXCEPT !.live = FALSE]})
        /\ busy' = FALSE /\ asking' = 0 /\ UNCHANGED <<asked, answer, questions>>
    BY <1>4 DEF DropQuestion, DisposeQuestion, LeftAlone, SetBusy
  <2>2. asking # 0 => /\ [Ask("cancel", asking) EXCEPT !.live = FALSE] \in AskRequest
                      /\ ~[Ask("cancel", asking) EXCEPT !.live = FALSE].live
    BY <1>1, NewAsk DEF AskTypeOK
  <2>3. \A b \in asks' : b \in AskRequest /\ ~b.live
    BY <1>2, <2>1, <2>2
  <2> QED BY <1>1, <2>1, <2>3, SameQuestion DEF AskTypeOK
<1>5. CASE BeginSelection /\ UNCHANGED questions
  <2>1. \/ AskStands
        \/ /\ asks' = disowned(asks) /\ busy' = FALSE /\ asking' = 0 /\ answer' = 0
           /\ UNCHANGED asked
    BY <1>5 DEF BeginSelection, Disowned
  <2>2. CASE AskStands
    BY <1>3, <1>5, <2>2
  <2> QED BY <1>1, <1>2, <1>5, <2>1, <2>2, SameQuestion DEF AskTypeOK
<1>6. CASE Submit
  <2>1. /\ asked' = asked + 1 /\ asking' = 0 /\ answer' = 0 /\ busy' = TRUE /\ UNCHANGED questions
        /\ asks' = disowned(asks) \cup {Ask("create", asked + 1)} /\ asked < MaxQuestions
    BY <1>6 DEF Submit, SetBusy, Disowned
  <2>2. asked + 1 \in QuestionIds /\ asked + 1 \in 0 .. MaxQuestions
    BY <1>1, <2>1, PageAssumption DEF AskTypeOK, QuestionIds
  <2>3. /\ Ask("create", asked + 1) \in AskRequest
        /\ Ask("create", asked + 1).question = asked + 1
    BY <2>2, NewAsk
  <2>4. AskTypeOK'
    BY <1>1, <1>2, <2>1, <2>2, <2>3 DEF AskTypeOK
  <2>5. \A a \in asks' : a.live => a.question = asked'
    BY <1>2, <2>1, <2>3
  <2> QED BY <2>1, <2>4, <2>5 DEF AskFits
<1>7. CASE CancelQuestion
  <2>1. /\ asking # 0 /\ asks' = asks \cup {Ask("cancel", asking)}
        /\ UNCHANGED <<questions, asked, busy, asking, answer>>
    BY <1>7 DEF CancelQuestion
  <2>2. Ask("cancel", asking) \in AskRequest /\ Ask("cancel", asking).question = asked
    BY <1>1, <2>1, NewAsk DEF AskTypeOK
  <2> QED BY <1>1, <2>1, <2>2, SameQuestion DEF AskTypeOK
<1>8. CASE NewQuestion
  <2>1. /\ asks' = disowned(asks) /\ asking' = 0 /\ answer' = 0
        /\ UNCHANGED <<questions, asked, busy>>
    BY <1>8 DEF NewQuestion, Disowned
  <2> QED BY <1>1, <1>2, <2>1, SameQuestion DEF AskTypeOK
<1>9. ASSUME NEW q \in QuestionIds, NEW state \in {"answered", "over"}, QuestionEndsAs(q, state)
      PROVE  AskFits'
  BY <1>1, <1>9, SameQuestion DEF QuestionEndsAs, AskTypeOK
<1> QED
  BY <1>3, <1>4, <1>5, <1>6, <1>7, <1>8, <1>9, AskReplyInvariant DEF QuestionsMove

-----------------------------------------------------------------------------
(* The writing agent.                                                      *)

(* The undefined job is no job, and the job of a run is one.               *)
LEMMA JobsAreApart ==
  /\ NoJob \notin [job: JobIds, status: ShownStatuses] /\ NoJob.job = 0 /\ NoJob.status = "none"
  /\ \A job \in JobIds, s \in ShownStatuses :
       /\ Shown(job, s) \in [job: JobIds, status: ShownStatuses] /\ Shown(job, s).job = job
BY PageAssumption DEF NoJob, JobIds, Shown

(* What becomes of a request leaves it about its job, and as live as it    *)
(* was, unless it is disowned.                                             *)
LEMMA MarkedCall ==
  ASSUME NEW c \in AgentRequest
  PROVE  /\ [c EXCEPT !.live = FALSE] \in AgentRequest /\ ~[c EXCEPT !.live = FALSE].live
         /\ \A step \in {"health", "sent", "working", "answered", "refused", "lost"} :
              /\ [c EXCEPT !.step = step] \in AgentRequest
              /\ [c EXCEPT !.step = step].job = c.job /\ [c EXCEPT !.step = step].live = c.live
         /\ \A s \in ShownStatuses :
              Answered(c, s) \in AgentRequest /\ Answered(c, s).job = c.job /\ Answered(c, s).live = c.live
BY DEF AgentRequest, Answered

(* A new request is about the job it is made for.                          *)
LEMMA NewCall ==
  ASSUME NEW job \in JobIds, NEW s \in ShownStatuses,
         NEW kind \in Actions \cup {"run", "stream", "refresh", "settle", "let-go"},
         NEW step \in {"health", "sent", "working", "answered", "refused", "lost"},
         NEW feed \in Seq(ShownStatuses)
  PROVE  /\ Call(kind, job, step, s) \in AgentRequest /\ Call(kind, job, step, s).job = job
         /\ [Call(kind, job, step, s) EXCEPT !.feed = feed] \in AgentRequest
         /\ [Call(kind, job, step, s) EXCEPT !.feed = feed].job = job
         /\ [Call(kind, job, step, s) EXCEPT !.live = FALSE] \in AgentRequest
         /\ ~[Call(kind, job, step, s) EXCEPT !.live = FALSE].live
<1>1. <<>> \in Seq(ShownStatuses)
  BY EmptySeq
<1> DEFINE call == Call(kind, job, step, s)
<1>2. call \in AgentRequest /\ call.job = job
  BY <1>1 DEF Call, AgentRequest
<1> HIDE DEF call
<1>3. /\ [call EXCEPT !.feed = feed] \in AgentRequest /\ [call EXCEPT !.feed = feed].job = job
      /\ [call EXCEPT !.live = FALSE] \in AgentRequest /\ ~[call EXCEPT !.live = FALSE].live
  BY <1>2 DEF AgentRequest
<1> QED BY <1>2, <1>3 DEF call

(* A stream that is fed an event stays what it was.                        *)
LEMMA FedFits ==
  ASSUME NEW c \in AgentRequest, NEW job, NEW s \in ShownStatuses
  PROVE  Fed(c, job, s) \in AgentRequest /\ Fed(c, job, s).job = c.job /\ Fed(c, job, s).live = c.live
<1>1. c.feed \in Seq(ShownStatuses)
  BY DEF AgentRequest
<1>2. Append(c.feed, s) \in Seq(ShownStatuses)
  BY <1>1, AppendProperties
<1>3. Fed(c, job, s) \in {c, [c EXCEPT !.feed = Append(c.feed, s)]}
  BY DEF Fed
<1> QED BY <1>2, <1>3 DEF AgentRequest

(* A step that starts no run fits when what it shows is of the latest one, *)
(* and so are the requests that count.                                     *)
LEMMA SameRun ==
  ASSUME AgentFits, UNCHANGED runs, jobs' \in [JobIds -> ShownStatuses], losses' \in Nat,
         \A c \in calls' : c \in AgentRequest /\ (c.live => c.job = runs),
         snapshot' \in [job: JobIds, status: ShownStatuses] \cup {NoJob},
         snapshot' # NoJob => snapshot'.job = runs,
         result' \in {0, snapshot'.job},
         pending' \in BOOLEAN, applied' \in BOOLEAN, presented' \in BOOLEAN,
         editing' \in BOOLEAN, panelEditing' \in BOOLEAN
  PROVE  AgentFits'
<1>1. result' \in JobIds \cup {0}
  BY JobsAreApart
<1> QED BY <1>1 DEF AgentFits, AgentTypeOK

(* The server's part.                                                      *)
LEMMA ServerInvariant ==
  ASSUME AgentFits,
         \/ \E job \in JobIds, s \in JobStatuses : JobAdvances(job, s)
         \/ \E c \in calls : Serve(c) \/ Lose(c)
  PROVE  AgentFits'
<1>1. /\ AgentTypeOK /\ jobs \in [JobIds -> ShownStatuses] /\ losses \in Nat
      /\ \A c \in calls : c \in AgentRequest /\ (c.live => c.job = runs) /\ c.job \in JobIds
  BY DEF AgentFits, AgentTypeOK, AgentRequest
<1> DEFINE fits(set) == \A c \in set : c \in AgentRequest /\ (c.live => c.job = runs)
<1>2. ASSUME calls' \in SUBSET AgentRequest, fits(calls'), jobs' \in [JobIds -> ShownStatuses],
             losses' \in Nat, UNCHANGED <<runs, editing, panelEditing>>, UNCHANGED pageVars
      PROVE  AgentFits'
  BY <1>1, <1>2, SameRun DEF AgentFits, AgentTypeOK, pageVars
<1>3. ASSUME NEW set, fits(set), NEW job \in JobIds, NEW s \in ShownStatuses
      PROVE  LET fed == {Fed(c, job, s) : c \in set}  IN fed \in SUBSET AgentRequest /\ fits(fed)
  BY <1>3, FedFits
<1>4. ASSUME NEW job \in JobIds, NEW s \in JobStatuses, JobAdvances(job, s)
      PROVE  AgentFits'
  <2>1. /\ calls' = {Fed(c, job, s) : c \in calls} /\ jobs' = [jobs EXCEPT ![job] = s]
        /\ UNCHANGED <<losses, runs, editing, panelEditing>> /\ UNCHANGED pageVars
    BY <1>4 DEF JobAdvances
  <2>2. s \in ShownStatuses
    BY DEF ShownStatuses
  <2>3. calls' \in SUBSET AgentRequest /\ fits(calls')
    BY <1>1, <1>3, <2>1, <2>2
  <2> QED BY <1>1, <1>2, <2>1, <2>2, <2>3
<1>5. ASSUME NEW c \in calls, Serve(c) PROVE AgentFits'
  <2>1. c \in AgentRequest /\ (c.live => c.job = runs) /\ c.job \in JobIds
    BY <1>1
  <2>2. ASSUME NEW into \in AgentRequest, into.job = c.job, into.live = c.live
        PROVE  fits((calls \ {c}) \cup {into})
    BY <1>1, <2>1, <2>2
  <2>3. ASSUME NEW into \in AgentRequest, into.job = c.job, into.live = c.live, Leaves(c, into)
        PROVE  /\ calls' \in SUBSET AgentRequest /\ fits(calls')
               /\ jobs' \in [JobIds -> ShownStatuses]
    BY <1>1, <2>2, <2>3 DEF Leaves, Turns
  <2>4. ASSUME NEW into \in AgentRequest, into.job = c.job, into.live = c.live,
               NEW s \in JobStatuses, Becomes(c, into, c.job, s)
        PROVE  /\ calls' \in SUBSET AgentRequest /\ fits(calls')
               /\ jobs' \in [JobIds -> ShownStatuses]
    <3> DEFINE set == (calls \ {c}) \cup {into}
    <3>1. s \in ShownStatuses /\ fits(set)
      BY <2>2, <2>4 DEF ShownStatuses
    <3>2. calls' = {Fed(d, c.job, s) : d \in set} /\ jobs' = [jobs EXCEPT ![c.job] = s]
      BY <2>4 DEF Becomes
    <3> HIDE DEF set
    <3>3. calls' \in SUBSET AgentRequest /\ fits(calls')
      BY <1>3, <2>1, <3>1, <3>2
    <3> QED BY <1>1, <2>1, <3>1, <3>2, <3>3
  <2>5. /\ \A s \in ShownStatuses :
             Answered(c, s) \in AgentRequest /\ Answered(c, s).job = c.job /\ Answered(c, s).live = c.live
        /\ Refused(c) \in AgentRequest /\ Refused(c).job = c.job /\ Refused(c).live = c.live
        /\ LET working == [c EXCEPT !.step = "working"]
           IN  working \in AgentRequest /\ working.job = c.job /\ working.live = c.live
    BY <2>1, MarkedCall DEF Refused
  <2>6. jobs[c.job] \in ShownStatuses
    BY <1>1, <2>1
  <2>7. {"running", "cancelling", "over", "applying", "reverting", "applied"} \subseteq JobStatuses
        /\ JobStatuses \subseteq ShownStatuses
    BY DEF JobStatuses, ShownStatuses
  <2>8. calls' \in SUBSET AgentRequest /\ fits(calls') /\ jobs' \in [JobIds -> ShownStatuses]
    <3>1. CASE ServeRun(c)
      BY <2>3, <2>4, <2>5, <2>7, <3>1 DEF ServeRun
    <3>2. CASE ServeResult(c)
      BY <2>3, <2>5, <2>6, <3>2 DEF ServeResult
    <3>3. CASE ServeCancel(c)
      BY <2>3, <2>4, <2>5, <2>7, <3>3 DEF ServeCancel
    <3>4. CASE ServeWrite(c)
      BY <2>3, <2>4, <2>5, <2>7, <3>4 DEF ServeWrite
    <3>5. CASE WriteEnds(c)
      BY <2>3, <2>5, <2>7, <3>5 DEF WriteEnds
    <3> QED BY <1>5, <3>1, <3>2, <3>3, <3>4, <3>5 DEF Serve
  <2> QED BY <1>1, <1>2, <1>5, <2>8 DEF Serve
<1>6. ASSUME NEW c \in calls, Lose(c) PROVE AgentFits'
  <2> DEFINE lost == [c EXCEPT !.step = "lost"]
  <2>1. lost \in AgentRequest /\ lost.job = c.job /\ lost.live = c.live
    BY <1>1, MarkedCall
  <2>2. /\ calls' = (calls \ {c}) \cup {lost} /\ losses' = losses + 1
        /\ UNCHANGED <<jobs, runs, editing, panelEditing>> /\ UNCHANGED pageVars
    BY <1>6 DEF Lose, Turns
  <2> HIDE DEF lost
  <2>3. calls' \in SUBSET AgentRequest /\ fits(calls')
    BY <1>1, <2>1, <2>2
  <2>4. losses' \in Nat /\ jobs' \in [JobIds -> ShownStatuses]
    BY <1>1, <2>2
  <2> QED BY <1>2, <2>2, <2>3, <2>4
<1> QED BY <1>4, <1>5, <1>6

(* What a reply may do: only one that counts changes what is shown, and    *)
(* then to what is known of its job, which is the latest.                  *)
LEMMA ReplyFits ==
  ASSUME AgentFits, UNCHANGED <<jobs, losses, runs>>, NEW c \in calls, NEW into \in SUBSET AgentRequest,
         \A d \in into : d.job = c.job /\ (d.live => c.live), Turns(c, into),
         \/ UNCHANGED <<snapshot, result>>
         \/ c.live /\ \E s \in ShownStatuses :
              snapshot' = Shown(c.job, s) /\ result' \in {0, result, c.job},
         pending' \in BOOLEAN, applied' \in BOOLEAN, presented' \in BOOLEAN,
         editing' \in BOOLEAN, panelEditing' \in BOOLEAN
  PROVE  AgentFits'
<1>1. /\ AgentTypeOK /\ jobs \in [JobIds -> ShownStatuses] /\ losses \in Nat
      /\ \A d \in calls : d \in AgentRequest /\ (d.live => d.job = runs) /\ d.job \in JobIds
      /\ snapshot # NoJob => snapshot.job = runs
      /\ result \in {0, snapshot.job}
      /\ snapshot \in [job: JobIds, status: ShownStatuses] \cup {NoJob}
  BY DEF AgentFits, AgentTypeOK, AgentRequest
<1>2. \A d \in calls' : d \in AgentRequest /\ (d.live => d.job = runs)
  BY <1>1 DEF Turns
<1>3. CASE UNCHANGED <<snapshot, result>>
  BY <1>1, <1>2, <1>3, SameRun
<1>4. ASSUME c.live, NEW s \in ShownStatuses, snapshot' = Shown(c.job, s), result' \in {0, result, c.job}
      PROVE  AgentFits'
  <2>1. c.job = runs /\ c.job \in JobIds
    BY <1>1, <1>4
  <2>2. snapshot' \in [job: JobIds, status: ShownStatuses] /\ snapshot'.job = runs
    BY <1>4, <2>1, JobsAreApart
  <2>3. result \in {0, runs}
    BY <1>1, JobsAreApart
  <2> QED BY <1>1, <1>2, <1>4, <2>1, <2>2, <2>3, SameRun
<1> QED BY <1>3, <1>4

(* Every reply that comes in, on time or late.                             *)
LEMMA ReplyInvariant ==
  ASSUME AgentFits, NEW c \in calls, NEW detach \in BOOLEAN,
         \/ HealthIsKnown(c) \/ RunIsAnswered(c) \/ EventArrives(c, detach) \/ StreamEnds(c)
         \/ ResultArrives(c) \/ ActionIsAnswered(c, detach) \/ LetGoIsAnswered(c)
  PROVE  AgentFits'
<1>1. /\ c \in AgentRequest /\ c.job \in JobIds /\ c.status \in ShownStatuses /\ c.live \in BOOLEAN
      /\ c.feed \in Seq(ShownStatuses) /\ jobs[c.job] \in ShownStatuses
      /\ c.live => c.job = runs
  BY DEF AgentFits, AgentTypeOK, AgentRequest
<1>2. snapshot # NoJob => snapshot = Shown(snapshot.job, snapshot.status) /\ snapshot.job = runs
                          /\ snapshot.status \in ShownStatuses
  BY DEF AgentFits, AgentTypeOK, Shown
<1>3. /\ editing \in BOOLEAN /\ panelEditing \in BOOLEAN /\ pending \in BOOLEAN
      /\ applied \in BOOLEAN /\ presented \in BOOLEAN
  BY DEF AgentFits, AgentTypeOK
<1> DEFINE fits(into) == \A d \in into : d.job = c.job /\ (d.live => c.live)
<1> DEFINE quiet == UNCHANGED <<jobs, losses, runs>>
<1> DEFINE shows == \/ UNCHANGED <<snapshot, result>>
                    \/ c.live /\ \E s \in ShownStatuses :
                         snapshot' = Shown(c.job, s) /\ result' \in {0, result, c.job}
<1>4. CASE HealthIsKnown(c)
  <2> DEFINE sent == [c EXCEPT !.step = "sent"]
  <2>1. PICK into \in {{sent}, {}} : Turns(c, into)
    BY <1>4 DEF HealthIsKnown
  <2>2. sent \in AgentRequest /\ sent.job = c.job /\ sent.live = c.live
    BY <1>1, MarkedCall
  <2> HIDE DEF sent
  <2>3. into \in SUBSET AgentRequest /\ fits(into)
    BY <2>1, <2>2
  <2>4. editing' \in BOOLEAN /\ panelEditing' \in BOOLEAN
    BY <1>3, <1>4 DEF HealthIsKnown, SetEditing
  <2>5. quiet /\ UNCHANGED pageVars
    BY <1>4 DEF HealthIsKnown
  <2> QED BY <1>3, <2>1, <2>3, <2>4, <2>5, ReplyFits DEF pageVars
<1>5. CASE RunIsAnswered(c)
  <2> DEFINE stream == [Call("stream", c.job, "working", "none") EXCEPT !.feed = <<jobs[c.job]>>]
  <2>1. stream \in AgentRequest /\ stream.job = c.job
    <3>1. <<jobs[c.job]>> \in Seq(ShownStatuses) /\ "none" \in ShownStatuses
      BY <1>1 DEF ShownStatuses
    <3>2. "stream" \in Actions \cup {"run", "stream", "refresh", "settle", "let-go"}
          /\ "working" \in {"health", "sent", "working", "answered", "refused", "lost"}
      OBVIOUS
    <3> QED BY <1>1, <3>1, <3>2 DEF Call, AgentRequest
  <2> HIDE DEF stream
  <2>2. PICK into \in SUBSET {stream} : Turns(c, into) /\ (into # {} => c.live)
    BY <1>5 DEF RunIsAnswered, Fresh, stream
  <2>3. into \in SUBSET AgentRequest /\ fits(into)
    BY <2>1, <2>2
  <2>4. /\ editing' \in BOOLEAN /\ panelEditing' \in BOOLEAN /\ presented' \in BOOLEAN
        /\ pending' = pending /\ applied' = applied
    BY <1>3, <1>5 DEF RunIsAnswered, SetEditing, Renders
  <2>5. \/ UNCHANGED <<snapshot, result>>
        \/ c.live /\ snapshot' = Shown(c.job, c.status) /\ result' = 0
    BY <1>5 DEF RunIsAnswered, Renders, Fresh
  <2>6. quiet
    BY <1>5 DEF RunIsAnswered
  <2> QED BY <1>1, <1>3, <2>2, <2>3, <2>4, <2>5, <2>6, ReplyFits
<1>6. CASE EventArrives(c, detach)
  <2> DEFINE next == [c EXCEPT !.feed = Tail(@), !.status = Head(c.feed)]
  <2>1. Head(c.feed) \in ShownStatuses /\ next \in AgentRequest /\ next.job = c.job /\ next.live = c.live
    <3>1. Head(c.feed) \in ShownStatuses /\ Tail(c.feed) \in Seq(ShownStatuses)
      BY <1>1, <1>6, HeadTailProperties DEF EventArrives
    <3> QED BY <1>1, <3>1 DEF AgentRequest
  <2>2. Turns(c, {next})
    BY <1>6 DEF EventArrives
  <2> HIDE DEF next
  <2>3. \/ UNCHANGED <<snapshot, result>>
        \/ c.live /\ snapshot' = Shown(c.job, Head(c.feed)) /\ result' = result
    BY <1>6 DEF EventArrives, Renders, Fresh
  <2>4. presented' \in BOOLEAN /\ applied' \in BOOLEAN
    BY <1>3, <1>6 DEF EventArrives, Renders
  <2>5. quiet /\ UNCHANGED <<pending, editing, panelEditing>>
    BY <1>6 DEF EventArrives
  <2>6. {next} \in SUBSET AgentRequest /\ fits({next})
    BY <2>1
  <2>7. shows
    BY <2>1, <2>3
  <2>8. pending' \in BOOLEAN /\ applied' \in BOOLEAN /\ presented' \in BOOLEAN
        /\ editing' \in BOOLEAN /\ panelEditing' \in BOOLEAN
    BY <1>3, <2>4, <2>5
  <2>9. UNCHANGED <<jobs, losses, runs>>
    BY <2>5
  <2> QED BY <2>2, <2>6, <2>7, <2>8, <2>9, ReplyFits
<1>7. CASE StreamEnds(c)
  <2> DEFINE refresh == Call("refresh", c.job, "sent", "none")
  <2>1. refresh \in AgentRequest /\ refresh.job = c.job
    <3>1. "none" \in ShownStatuses /\ <<>> \in Seq(ShownStatuses)
      BY EmptySeq DEF ShownStatuses
    <3>2. "refresh" \in Actions \cup {"run", "stream", "refresh", "settle", "let-go"}
          /\ "sent" \in {"health", "sent", "working", "answered", "refused", "lost"}
      OBVIOUS
    <3> QED BY <1>1, <3>1, <3>2 DEF Call, AgentRequest
  <2> HIDE DEF refresh
  <2>2. PICK into \in SUBSET {refresh} : Turns(c, into) /\ (into # {} => c.live)
    BY <1>7 DEF StreamEnds, Fresh, refresh
  <2>3. into \in SUBSET AgentRequest /\ fits(into)
    BY <2>1, <2>2
  <2>4. presented' \in BOOLEAN /\ UNCHANGED <<snapshot, result>>
    BY <1>3, <1>7 DEF StreamEnds, Renders
  <2>5. quiet /\ UNCHANGED <<pending, applied, editing, panelEditing>>
    BY <1>7 DEF StreamEnds
  <2> QED BY <1>3, <2>2, <2>3, <2>4, <2>5, ReplyFits
<1>8. CASE ResultArrives(c)
  <2>1. Turns(c, {}) /\ quiet /\ UNCHANGED <<applied, editing, panelEditing>>
    BY <1>8 DEF ResultArrives
  <2>2. \/ UNCHANGED <<snapshot, result>>
        \/ c.live /\ snapshot' = Shown(c.job, c.status) /\ result' = c.job
    BY <1>8 DEF ResultArrives, Renders, Fresh
  <2>3. presented' \in BOOLEAN /\ pending' \in BOOLEAN
    BY <1>3, <1>8 DEF ResultArrives, Renders
  <2>4. shows
    BY <1>1, <2>2
  <2>5. {} \in SUBSET AgentRequest /\ fits({})
    OBVIOUS
  <2>6. pending' \in BOOLEAN /\ applied' \in BOOLEAN /\ presented' \in BOOLEAN
        /\ editing' \in BOOLEAN /\ panelEditing' \in BOOLEAN
    BY <1>3, <2>1, <2>3
  <2>7. UNCHANGED <<jobs, losses, runs>>
    BY <2>1
  <2> QED BY <2>1, <2>4, <2>5, <2>6, <2>7, ReplyFits
<1>9. CASE ActionIsAnswered(c, detach)
  <2> DEFINE settle == Call("settle", c.job, "sent", "none")
  <2>1. settle \in AgentRequest /\ settle.job = c.job
    <3>1. "none" \in ShownStatuses /\ <<>> \in Seq(ShownStatuses)
      BY EmptySeq DEF ShownStatuses
    <3>2. "settle" \in Actions \cup {"run", "stream", "refresh", "settle", "let-go"}
          /\ "sent" \in {"health", "sent", "working", "answered", "refused", "lost"}
      OBVIOUS
    <3> QED BY <1>1, <3>1, <3>2 DEF Call, AgentRequest
  <2> HIDE DEF settle
  <2>2. PICK into \in SUBSET {settle} : Turns(c, into) /\ (into # {} => c.live)
    BY <1>9 DEF ActionIsAnswered, Fresh, settle
  <2>3. into \in SUBSET AgentRequest /\ fits(into)
    BY <2>1, <2>2
  <2>4. \/ UNCHANGED <<snapshot, result>>
        \/ c.live /\ snapshot' = Shown(c.job, c.status) /\ result' = result
    BY <1>9 DEF ActionIsAnswered, Fresh
  <2>5. applied' \in BOOLEAN
    BY <1>3, <1>9 DEF ActionIsAnswered
  <2>6. quiet /\ UNCHANGED <<pending, presented, editing, panelEditing>>
    BY <1>9 DEF ActionIsAnswered
  <2>7. shows
    BY <1>1, <2>4
  <2>8. pending' \in BOOLEAN /\ applied' \in BOOLEAN /\ presented' \in BOOLEAN
        /\ editing' \in BOOLEAN /\ panelEditing' \in BOOLEAN
    BY <1>3, <2>5, <2>6
  <2>9. UNCHANGED <<jobs, losses, runs>>
    BY <2>6
  <2> QED BY <2>2, <2>3, <2>7, <2>8, <2>9, ReplyFits
<1>10. CASE LetGoIsAnswered(c)
  <2>1. /\ Turns(c, {}) /\ quiet /\ UNCHANGED <<editing, panelEditing>>
        /\ UNCHANGED pageVars
    BY <1>10 DEF LetGoIsAnswered
  <2> QED BY <1>3, <2>1, ReplyFits DEF pageVars
<1> QED BY <1>4, <1>5, <1>6, <1>7, <1>8, <1>9, <1>10

(* A step that moves no request and shows the same job changes nothing     *)
(* that matters here: questions and hidden panels only lock and unlock.    *)
LEMMA SamePanel ==
  ASSUME AgentFits, UNCHANGED <<jobs, calls, runs, snapshot, result, pending, applied>>,
         losses' \in Nat, presented' \in BOOLEAN, editing' \in BOOLEAN, panelEditing' \in BOOLEAN
  PROVE  AgentFits'
BY DEF AgentFits, AgentTypeOK

(* The requests of a page that forgets its job are disowned.               *)
LEMMA DisownedFit ==
  ASSUME NEW set \in SUBSET AgentRequest
  PROVE  \A d \in Disowned(set) : d \in AgentRequest /\ ~d.live
<1> TAKE d \in Disowned(set)
<1>1. PICK c \in set : d = [c EXCEPT !.live = FALSE]
  BY DEF Disowned
<1>2. c \in AgentRequest
  OBVIOUS
<1> QED BY <1>1, <1>2, MarkedCall

(* A page that forgets its job, and disowns what it asked for, fits.       *)
LEMMA ForgottenFits ==
  ASSUME AgentFits, UNCHANGED <<jobs, losses, runs>>, \A d \in calls' : d \in AgentRequest /\ ~d.live,
         snapshot' = NoJob, result' = 0,
         pending' \in BOOLEAN, applied' \in BOOLEAN, presented' \in BOOLEAN,
         editing' \in BOOLEAN, panelEditing' \in BOOLEAN
  PROVE  AgentFits'
<1>1. jobs' \in [JobIds -> ShownStatuses] /\ losses' \in Nat
  BY DEF AgentFits, AgentTypeOK
<1> QED BY <1>1, SameRun

(* resetState().                                                           *)
LEMMA ResetFits == ASSUME AgentFits, ResetState({}) PROVE AgentFits'
<1>1. calls' = Disowned(calls) /\ calls \in SUBSET AgentRequest
  BY DEF ResetState, AgentFits, AgentTypeOK
<1>2. \A d \in calls' : d \in AgentRequest /\ ~d.live
  BY <1>1, DisownedFit
<1>3. /\ UNCHANGED <<jobs, losses, runs>> /\ snapshot' = NoJob /\ result' = 0
      /\ pending' = FALSE /\ applied' = FALSE /\ presented' = FALSE
      /\ editing' = TRUE /\ panelEditing' = TRUE
  BY DEF ResetState, SetEditing
<1> QED BY <1>2, <1>3, ForgottenFits

(* disposeSelection(), which may still ask for a cancellation.             *)
LEMMA ReleaseFits ==
  ASSUME AgentFits, DisposeSelection, presented' = FALSE, panelEditing' = TRUE, editing' \in BOOLEAN
  PROVE  AgentFits'
<1>1. /\ calls' = Disowned(Aborted) \cup LetGo /\ Aborted \in SUBSET AgentRequest
      /\ snapshot \in [job: JobIds, status: ShownStatuses] \cup {NoJob}
  BY DEF DisposeSelection, Aborted, AgentFits, AgentTypeOK
<1>2. \A d \in LetGo : d \in AgentRequest /\ ~d.live
  <2>1. SUFFICES ASSUME snapshot.status \in {"running", "awaiting-review", "cancelling"}
                 PROVE  LET let == [Call("let-go", snapshot.job, "sent", "none") EXCEPT !.live = FALSE]
                        IN  let \in AgentRequest /\ ~let.live
    BY DEF LetGo
  <2>2. snapshot.job \in JobIds
    BY <1>1, <2>1, JobsAreApart
  <2>3. "none" \in ShownStatuses /\ <<>> \in Seq(ShownStatuses)
    BY EmptySeq DEF ShownStatuses
  <2> QED BY <2>2, <2>3 DEF Call, AgentRequest
<1>3. \A d \in calls' : d \in AgentRequest /\ ~d.live
  BY <1>1, <1>2, DisownedFit
<1>4. /\ UNCHANGED <<jobs, losses, runs>> /\ snapshot' = NoJob /\ result' = 0
      /\ pending' = FALSE /\ applied' = FALSE
  BY DEF DisposeSelection
<1> QED BY <1>3, <1>4, ForgottenFits

(* What the user does with the agent panel.                                *)
LEMMA UserInvariant ==
  ASSUME AgentFits, Run \/ SetupChanges \/ \E action \in Actions : Act(action)
  PROVE  AgentFits'
<1>1. /\ AgentTypeOK /\ calls \in SUBSET AgentRequest
      /\ runs \in Nat /\ jobs \in [JobIds -> ShownStatuses] /\ losses \in Nat
      /\ snapshot \in [job: JobIds, status: ShownStatuses] \cup {NoJob}
      /\ snapshot # NoJob => snapshot.job = runs
      /\ result \in {0, snapshot.job}
      /\ \A c \in calls : c.live => c.job = runs
  BY DEF AgentFits, AgentTypeOK
<1>2. /\ editing \in BOOLEAN /\ panelEditing \in BOOLEAN /\ pending \in BOOLEAN
      /\ applied \in BOOLEAN /\ presented \in BOOLEAN
  BY <1>1 DEF AgentTypeOK
<1>3. \A d \in Disowned(calls) : d \in AgentRequest /\ ~d.live
  BY <1>1, DisownedFit
<1>4. CASE Run
  <2> DEFINE call == Call("run", runs + 1, "health", "none")
  <2>1. /\ calls' = Disowned(calls) \cup {call} /\ runs' = runs + 1 /\ runs < MaxRuns
        /\ editing' = FALSE /\ panelEditing' = FALSE /\ snapshot = NoJob
        /\ UNCHANGED <<jobs, losses>>
    BY <1>4 DEF Run, SetEditing
  <2>2. UNCHANGED <<snapshot, result, pending, applied, presented>>
    BY <1>4 DEF Run, pageVars
  <2>3. runs + 1 \in JobIds /\ runs' \in 0 .. MaxRuns
    BY <1>1, <2>1, PageAssumption DEF JobIds
  <2>4. call \in AgentRequest /\ call.job = runs + 1
    <3>1. "none" \in ShownStatuses /\ <<>> \in Seq(ShownStatuses)
      BY EmptySeq DEF ShownStatuses
    <3> QED BY <2>3, <3>1 DEF Call, AgentRequest
  <2> HIDE DEF call
  <2>5. calls' \subseteq AgentRequest /\ \A c \in calls' : c.live => c.job = runs'
    BY <1>3, <2>1, <2>4
  <2>6. pending' \in BOOLEAN /\ applied' \in BOOLEAN /\ presented' \in BOOLEAN
    BY <1>2, <2>2
  <2>7. AgentTypeOK'
    BY <1>1, <2>1, <2>2, <2>3, <2>5, <2>6 DEF AgentTypeOK
  <2> QED BY <1>1, <2>1, <2>2, <2>5, <2>7 DEF AgentFits
<1>5. CASE SetupChanges
  <2>1. calls' = Disowned(calls) /\ UNCHANGED <<jobs, losses, runs, editing, panelEditing>>
    BY <1>5 DEF SetupChanges
  <2>2. UNCHANGED <<snapshot, result, pending, applied, presented>>
    BY <1>5 DEF SetupChanges, pageVars
  <2> QED BY <1>1, <1>2, <1>3, <2>1, <2>2, SameRun
<1>6. ASSUME NEW action \in Actions, Act(action) PROVE AgentFits'
  <2> DEFINE call == Call(action, snapshot.job, "sent", snapshot.status)
  <2>1. /\ calls' = calls \cup {call} /\ pending' = TRUE /\ Offered(action)
        /\ snapshot' = Shown(snapshot.job, During(action))
        /\ UNCHANGED <<jobs, losses, runs, result, applied, editing, panelEditing>>
    BY <1>6 DEF Act, Renders
  <2>2. presented' \in BOOLEAN
    BY <1>2, <1>6 DEF Act, Renders
  <2>3. snapshot # NoJob /\ snapshot.job \in JobIds /\ snapshot.status \in ShownStatuses
        /\ snapshot.job = runs
    <3>1. snapshot # NoJob
      BY <2>1, JobsAreApart DEF Offered, Actions
    <3> QED BY <1>1, <3>1
  <2>4. During(action) \in ShownStatuses
    BY DEF During, Actions, ShownStatuses, JobStatuses
  <2>5. /\ snapshot' \in [job: JobIds, status: ShownStatuses] /\ snapshot'.job = runs
    BY <2>1, <2>3, <2>4, JobsAreApart
  <2>6. call \in AgentRequest /\ call.job = runs
    <3>1. <<>> \in Seq(ShownStatuses)
      BY EmptySeq
    <3> QED BY <2>3, <3>1 DEF Call, AgentRequest
  <2> HIDE DEF call
  <2>7. \A c \in calls' : c \in AgentRequest /\ (c.live => c.job = runs)
    BY <1>1, <2>1, <2>6
  <2> QED BY <1>1, <1>2, <2>1, <2>2, <2>3, <2>5, <2>7, SameRun
<1> QED BY <1>4, <1>5, <1>6

-----------------------------------------------------------------------------
(* The page.  A step of it is a step of each workflow.                     *)
LEMMA PageStepOfHandoff == Next => HandoffMoves
<1> USE DEF HandoffMoves
<1>1. Open \/ Close \/ AddTarget \/ KeepTargets \/ SelectElement => HandoffMoves
  BY DEF Open, Close, AddTarget, KeepTargets, SelectElement
<1>2. (\E t \in Chosen : ContextArrives(t) \/ RemoveTarget(t)) => HandoffMoves
  BY DEF ContextArrives, RemoveTarget
<1>3. Reselect \/ Revise \/ Dispose => HandoffMoves
  BY DEF Reselect, Revise, Dispose, Releases
<1>4. AgentPanel \/ AskPanel \/ HandoffPanel => HandoffMoves
  BY DEF AgentPanel, AskPanel, HandoffPanel
<1>5. AgentReply \/ PublishMoves => HandoffMoves
  BY DEF AgentReply, PublishMoves
<1>6. (\E a \in asks : AskMoves(a)) \/ (\E job \in JobIds : JobMoves(job)) => HandoffMoves
  BY DEF AskMoves, AskReply, JobMoves
<1>7. (\E c \in calls : ServeAgent(c)) \/ (\E q \in QuestionIds : QuestionMoves(q)) => HandoffMoves
  BY DEF ServeAgent, QuestionMoves
<1>8. Losses => HandoffMoves
  BY DEF Losses
<1> QED BY <1>1, <1>2, <1>3, <1>4, <1>5, <1>6, <1>7, <1>8 DEF Next

(* Every step of the page moves the questions as one of them does.         *)
LEMMA PageStepOfQuestions == Next => QuestionsMove
<1>1. Open \/ Close \/ AddTarget \/ KeepTargets \/ SelectElement => QuestionsMove
  BY DEF QuestionsMove, Open, Close, AddTarget, KeepTargets, SelectElement
<1>2. (\E t \in Chosen : ContextArrives(t) \/ RemoveTarget(t)) => QuestionsMove
  BY DEF QuestionsMove, ContextArrives, RemoveTarget
<1>3. Reselect \/ Revise \/ Dispose => QuestionsMove
  BY DEF QuestionsMove, Reselect, Revise, Dispose, Reselects, Reset, ResetState
<1>4. AgentPanel \/ AskPanel \/ HandoffPanel => QuestionsMove
  BY DEF QuestionsMove, AgentPanel, AskPanel, HandoffPanel, Run, SetupChanges, Act
<1>5. AgentReply \/ PublishMoves => QuestionsMove
  <2>1. PublishMoves => QuestionsMove
    BY DEF PublishMoves, QuestionsMove
  <2>2. AgentReply => AskStands /\ UNCHANGED questions
    BY ZenonT(60) DEF AgentReply, EventArrives, ActionIsAnswered, HealthIsKnown, RunIsAnswered,
           StreamEnds, ResultArrives, LetGoIsAnswered
  <2> QED BY <2>1, <2>2 DEF QuestionsMove
<1>6. (\E a \in asks : AskMoves(a)) \/ (\E job \in JobIds : JobMoves(job)) => QuestionsMove
  BY DEF QuestionsMove, AskMoves, AskReply, JobMoves, JobAdvances
<1>7. (\E c \in calls : ServeAgent(c)) \/ (\E q \in QuestionIds : QuestionMoves(q))
        => QuestionsMove
  BY DEF QuestionsMove, ServeAgent, Serve, QuestionMoves
<1>8. Losses => QuestionsMove
  BY DEF QuestionsMove, Losses, Lose
<1> QED BY <1>1, <1>2, <1>3, <1>4, <1>5, <1>6, <1>7, <1>8 DEF Next

(* For the writing agent the rest of the page only shows and hides, locks  *)
(* and unlocks.                                                            *)
LEMMA PageStepOfAgent == AgentFits /\ Next => AgentFits'
<1> SUFFICES ASSUME AgentFits, Next PROVE AgentFits'
  OBVIOUS
<1>1. /\ editing \in BOOLEAN /\ panelEditing \in BOOLEAN /\ pending \in BOOLEAN
      /\ applied \in BOOLEAN /\ presented \in BOOLEAN /\ losses \in Nat
  BY DEF AgentFits, AgentTypeOK
<1>2. CASE AgentStands
  <2>1. /\ pending' \in BOOLEAN /\ applied' \in BOOLEAN /\ presented' \in BOOLEAN
        /\ editing' \in BOOLEAN /\ panelEditing' \in BOOLEAN /\ losses' \in Nat
    BY <1>1, <1>2 DEF AgentStands
  <2> QED BY <1>2, <2>1, SamePanel DEF AgentStands
<1>3. CASE Open \/ Close
  <2>1. UNCHANGED <<jobs, calls, losses, runs, snapshot, result, pending, applied, editing>>
    BY <1>3 DEF Open, Close
  <2>2. presented' \in BOOLEAN /\ panelEditing' \in BOOLEAN
    BY <1>1, <1>3 DEF Open, Close, HidePanel
  <2> QED BY <1>1, <2>1, <2>2, SamePanel
<1>4. CASE AddTarget \/ KeepTargets \/ SelectElement
  <2>1. AgentStands \/ ResetState({})
    BY <1>4 DEF AddTarget, KeepTargets, SelectElement, BeginSelection
  <2> QED BY <1>2, <2>1, ResetFits
<1>5. CASE \E t \in Chosen : ContextArrives(t) \/ RemoveTarget(t)
  BY <1>2, <1>5 DEF ContextArrives, RemoveTarget
<1>6. CASE Reselect \/ Dispose
  <2>1. DisposeSelection /\ presented' = FALSE /\ panelEditing' = TRUE
    BY <1>6 DEF Reselect, Dispose, Releases
  <2>2. editing' = (editing \/ "ask" \in config.extensions)
    BY <1>6 DEF Reselect, Dispose
  <2>3. editing' \in BOOLEAN
    BY <1>1, <2>2
  <2> QED BY <2>1, <2>3, ReleaseFits
<1>7. CASE Revise
  BY <1>7, ResetFits DEF Revise, Reset
<1>8. CASE AgentPanel
  BY <1>8, UserInvariant DEF AgentPanel
<1>9. ASSUME UNCHANGED <<jobs, calls, runs>>, UNCHANGED pageVars, losses' \in Nat,
             UNCHANGED <<editing, panelEditing>> \/ \E now \in BOOLEAN : SetBusy(now)
      PROVE  AgentFits'
  <2>1. /\ editing' \in BOOLEAN /\ panelEditing' \in BOOLEAN
    BY <1>1, <1>9 DEF SetBusy, SetEditing
  <2>2. UNCHANGED <<snapshot, result, pending, applied, presented>>
    BY <1>9 DEF pageVars
  <2>3. presented' \in BOOLEAN
    BY <1>1, <2>2
  <2> QED BY <1>9, <2>1, <2>2, <2>3, SamePanel
<1>10. CASE AskPanel
  <2>1. UNCHANGED <<jobs, calls, runs, losses>> /\ UNCHANGED pageVars
    BY <1>10 DEF AskPanel, Submit, CancelQuestion, NewQuestion
  <2>2. UNCHANGED <<editing, panelEditing>> \/ \E now \in BOOLEAN : SetBusy(now)
    BY <1>10 DEF AskPanel, Submit, CancelQuestion, NewQuestion
  <2> QED BY <1>1, <1>9, <2>1, <2>2
<1>11. CASE HandoffPanel \/ PublishMoves
  BY <1>2, <1>11 DEF HandoffPanel, PublishMoves
<1>12. CASE AgentReply
  BY <1>12, ReplyInvariant DEF AgentReply
<1>13. CASE \E a \in asks : AskMoves(a)
  <2>1. PICK a \in asks : SubmitProceeds(a) \/ SubmitEnds(a) \/ CancelIsAnswered(a) \/ ServeAsk(a)
    BY <1>13 DEF AskMoves, AskReply
  <2>2. UNCHANGED <<jobs, calls, runs, losses>> /\ UNCHANGED pageVars
    BY <2>1 DEF SubmitProceeds, SubmitEnds, CancelIsAnswered, ServeAsk
  <2>3. UNCHANGED <<editing, panelEditing>> \/ \E now \in BOOLEAN : SetBusy(now)
    BY <2>1 DEF SubmitProceeds, SubmitEnds, CancelIsAnswered, ServeAsk
  <2> QED BY <1>1, <1>9, <2>2, <2>3
<1>14. CASE \E job \in JobIds : JobMoves(job)
  BY <1>14, ServerInvariant DEF JobMoves
<1>15. CASE \E c \in calls : ServeAgent(c)
  BY <1>15, ServerInvariant DEF ServeAgent
<1>16. CASE \E q \in QuestionIds : QuestionMoves(q)
  <2>1. /\ UNCHANGED <<jobs, calls, runs, losses, editing, panelEditing>> /\ UNCHANGED pageVars
    BY <1>16 DEF QuestionMoves, QuestionEndsAs
  <2> QED BY <1>1, <1>9, <2>1
<1>17. CASE Losses
  <2>1. CASE \E c \in calls : Lose(c)
    BY <2>1, ServerInvariant
  <2>2. CASE \E a \in asks : LoseAsk(a)
    <3>1. /\ UNCHANGED <<jobs, calls, runs, editing, panelEditing>> /\ UNCHANGED pageVars
          /\ losses' = losses + 1
      BY <2>2 DEF LoseAsk
    <3> QED BY <1>1, <1>9, <3>1
  <2> QED BY <1>2, <1>17, <2>1, <2>2 DEF Losses
<1> QED
  BY <1>3, <1>4, <1>5, <1>6, <1>7, <1>8, <1>10, <1>11, <1>12, <1>13, <1>14, <1>15, <1>16, <1>17
     DEF Next

(* The elements that are selected were selected on this page, and what was *)
(* dropped is a job.                                                       *)
LEMMA SelectionInvariant == AgentFits /\ SelectionTypeOK /\ Next => SelectionTypeOK'
<1> SUFFICES ASSUME AgentFits, SelectionTypeOK, Next PROVE SelectionTypeOK'
  OBVIOUS
<1>1. CASE UNCHANGED selectionVars
  BY <1>1 DEF SelectionTypeOK, selectionVars, Chosen
<1>2. CASE Open \/ Close \/ AddTarget \/ KeepTargets
  BY <1>2 DEF SelectionTypeOK, Chosen, Open, Close, AddTarget, KeepTargets
<1>3. CASE SelectElement
  BY <1>3 DEF SelectionTypeOK, Chosen, SelectElement
<1>4. ASSUME NEW t \in Chosen, ContextArrives(t) \/ RemoveTarget(t) PROVE SelectionTypeOK'
  BY <1>4 DEF SelectionTypeOK, Chosen, ContextArrives, RemoveTarget
<1>5. CASE Reselect \/ Dispose
  <2>1. snapshot.status \in {"running", "awaiting-review", "cancelling"} => snapshot.job \in JobIds
    BY JobsAreApart DEF AgentFits, AgentTypeOK
  <2>2. Releases /\ status' \in {"inspecting", "disposed"}
    BY <1>5 DEF Reselect, Dispose, Reselects
  <2> QED BY <2>1, <2>2 DEF SelectionTypeOK, Releases, Chosen, NoTargets
<1>6. CASE Revise
  BY <1>6 DEF Revise, Reselects, SelectionTypeOK, Chosen, NoTargets
<1>7. CASE AgentReply
  BY <1>7 DEF AgentReply, Detached, SelectionTypeOK, Chosen
<1>8. CASE AgentPanel \/ AskPanel \/ HandoffPanel \/ PublishMoves \/ Losses
  BY <1>1, <1>8 DEF AgentPanel, AskPanel, HandoffPanel, PublishMoves, Losses
<1>9. CASE \/ \E a \in asks : AskMoves(a)
           \/ \E job \in JobIds : JobMoves(job)
           \/ \E c \in calls : ServeAgent(c)
           \/ \E q \in QuestionIds : QuestionMoves(q)
  BY <1>1, <1>9 DEF AskMoves, AskReply, JobMoves, ServeAgent, QuestionMoves
<1> QED BY <1>2, <1>3, <1>4, <1>5, <1>6, <1>7, <1>8, <1>9 DEF Next

(* The invariant holds of a page just loaded.                              *)
LEMMA InitialInvariant == Init => PageInvariant
<1> SUFFICES ASSUME Init PROVE PageInvariant
  OBVIOUS
<1>1. AgentFits
  <2>1. /\ jobs = [job \in JobIds |-> "none"] /\ "none" \in ShownStatuses /\ calls = {} /\ losses = 0
        /\ runs = 0 /\ snapshot = NoJob /\ result = 0
    BY DEF Init, InitAgent, ShownStatuses
  <2>2. /\ pending = FALSE /\ applied = FALSE /\ presented = FALSE
        /\ editing = TRUE /\ panelEditing = TRUE
    BY DEF Init, InitAgent
  <2>3. jobs \in [JobIds -> ShownStatuses] /\ runs \in 0 .. MaxRuns
    BY <2>1, PageAssumption
  <2>4. AgentTypeOK
    BY <2>1, <2>2, <2>3 DEF AgentTypeOK
  <2> QED BY <2>1, <2>4 DEF AgentFits
<1>2. AskFits
  <2>1. /\ questions = [q \in QuestionIds |-> "none"] /\ asks = {} /\ asked = 0 /\ busy = FALSE
        /\ asking = 0 /\ answer = 0
    BY DEF Init, InitAsk
  <2>2. questions \in [QuestionIds -> {"none", "running", "answered", "over"}]
    BY <2>1
  <2>3. asked \in 0 .. MaxQuestions
    BY <2>1, PageAssumption
  <2>4. AskTypeOK
    BY <2>1, <2>2, <2>3 DEF AskTypeOK
  <2> QED BY <2>1, <2>4 DEF AskFits
<1>3. HandoffFits
  <2>1. /\ dialog = FALSE /\ sending = FALSE /\ retry = NoRequest /\ sends = 0 /\ requests = 0
        /\ consent \in {"none", "remembered"} /\ publishes = {} /\ published = <<>>
    BY DEF Init, InitHandoff
  <2>2. HandoffTypeOK
    <3>1. NoRequest \in Request
      BY DEF NoRequest, Request
    <3>2. published \in Seq([for: Request, remembered: BOOLEAN])
      BY <2>1
    <3> QED BY <2>1, <3>1, <3>2 DEF HandoffTypeOK
  <2>3. DOMAIN published = {} /\ Requested = {}
    BY <2>1 DEF Requested
  <2> QED BY <2>2, <2>3 DEF HandoffFits, OneRecord
<1>4. SelectionTypeOK
  BY DEF Init, SelectionTypeOK, Chosen, NoTargets
<1> QED BY <1>1, <1>2, <1>3, <1>4 DEF PageInvariant

(* Every step of the page keeps it.                                        *)
LEMMA StepKeepsInvariant == PageInvariant /\ [Next]_vars => PageInvariant'
<1> SUFFICES ASSUME PageInvariant, [Next]_vars PROVE PageInvariant'
  OBVIOUS
<1>1. CASE Next
  BY <1>1, PageStepOfHandoff, HandoffInvariant, PageStepOfQuestions, AskInvariant,
     PageStepOfAgent, SelectionInvariant DEF PageInvariant
<1>2. CASE UNCHANGED vars
  <2>1. HandoffFits'
    BY <1>2, HandoffInvariant DEF PageInvariant, HandoffMoves, HandoffStands, handoffVars, vars
  <2> QED BY <1>2, <2>1 DEF vars, PageInvariant, AgentFits, AgentTypeOK, AskFits, AskTypeOK,
                            SelectionTypeOK, Chosen
<1> QED BY <1>1, <1>2

(* The invariant holds throughout.                                         *)
THEOREM PageInvariantHolds == Spec => []PageInvariant
BY InitialInvariant, StepKeepsInvariant, PTL DEF Spec

(* Every variable has its type.                                            *)
THEOREM TypeCorrect == Spec => []TypeOK
<1>1. PageInvariant => TypeOK
  BY DEF PageInvariant, TypeOK, AgentFits, AskFits, HandoffFits
<1> QED BY <1>1, PageInvariantHolds, PTL

(* What the panels show is of the latest run and the latest question,      *)
(* whatever replies of earlier ones still come in.                         *)
THEOREM ShownAlwaysOfThisRun == Spec => []ShownIsOfThisRun
<1>1. PageInvariant => ShownIsOfThisRun
  BY DEF PageInvariant, ShownIsOfThisRun, AgentFits, AskFits
<1> QED BY <1>1, PageInvariantHolds, PTL

(* What the user sent once is published once as long as the broker holds   *)
(* its record, however often the answer is lost and the request sent       *)
(* again, and nothing is published that the user has not agreed to.        *)
THEOREM SentAlwaysPublishedOnce == Spec => []SentIsPublishedOnce
<1>1. ASSUME PageInvariant PROVE SentIsPublishedOnce
  <2>1. \A i \in DOMAIN published : published[i].for \in Requested
    BY DEF Requested
  <2>2. /\ OneRecord /\ (\A r, s \in Requested : r.send = s.send => r = s)
        /\ Requested # {} => consent # "none"
    BY <1>1 DEF PageInvariant, HandoffFits
  <2>3. published # <<>> => Requested # {}
    <3>1. published \in Seq([for: Request, remembered: BOOLEAN])
      BY <1>1 DEF PageInvariant, HandoffFits, HandoffTypeOK
    <3>2. published # <<>> => 1 \in DOMAIN published
      BY <3>1
    <3> QED BY <2>1, <3>2
  <2> QED BY <2>1, <2>2, <2>3 DEF SentIsPublishedOnce, OneRecord
<1> QED BY <1>1, PageInvariantHolds, PTL
=============================================================================
