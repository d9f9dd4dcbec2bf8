-------------------------- MODULE NextLaunchProofs ---------------------------
(***************************************************************************)
(* Proofs about NextLaunch, for any hosts, configurations and limits.      *)
(***************************************************************************)
EXTENDS NextLaunch, SequenceTheorems, TLAPS

Memos == {NoMemo} \cup [state: {"asking", "answered"}, request: Request]

(* The undefined request is not a request, and the undefined memo neither  *)
(* asks nor is answered.                                                   *)
LEMMA NullsAreApart ==
  NoRequest \notin Request /\ NoMemo.state = "none" /\ NoSignature \notin Signatures
BY LaunchAssumption DEF NoRequest, Request, NoMemo

(* The invariant holds before Next is started.                             *)
LEMMA InitInvariant == Init => LaunchInvariant
<1> SUFFICES ASSUME Init PROVE LaunchInvariant
  OBVIOUS
<1> USE LaunchAssumption, NullsAreApart DEF Init
<1>1. failed \in BOOLEAN /\ configured \in BOOLEAN /\ requested \in BOOLEAN /\ forcing \in BOOLEAN
  OBVIOUS
<1>2. memo \in [Hosts -> Memos] /\ \A host \in Hosts : memo[host].state = "none"
  BY DEF Memos
<1>3. queue \in Seq(Request) /\ MaxSends \in Nat /\ MaxConfigurations \in Nat
  OBVIOUS
<1>4. TypeOK
  BY <1>1, <1>2, <1>3 DEF TypeOK, Memos
<1> QED
  BY <1>2, <1>4 DEF LaunchInvariant, ActivationIsOnce, AnswersAreAcknowledged,
                    ActivationIsAwaited, NothingIsLeft, SidecarCloses

(* The host that waits for this answer hears it, and no other does.        *)
LEMMA AnswerIsHeard ==
  ASSUME TypeOK, NEW request \in Request, NEW ok \in BOOLEAN, Answer(request, ok)
  PROVE  /\ memo' \in [Hosts -> Memos]
         /\ \A host \in Hosts : memo'[host].state = "answered" =>
              \/ memo[host].state = "answered" /\ memo'[host] = memo[host]
              \/ ok /\ memo'[host].request = request
<1>1. ASSUME NEW host \in Hosts
      PROVE  /\ memo'[host] \in Memos
             /\ memo'[host].state = "answered" =>
                  \/ memo[host].state = "answered" /\ memo'[host] = memo[host]
                  \/ ok /\ memo'[host].request = request
  <2>1. memo[host] \in Memos
    BY DEF TypeOK, Memos
  <2>2. Memo("answered", request) \in Memos /\ Memo("answered", request).request = request
    BY DEF Memo, Memos
  <2>3. NoMemo \in Memos
    BY DEF Memos
  <2> QED BY <2>1, <2>2, <2>3, NullsAreApart DEF Answer
<1> QED BY <1>1 DEF Answer

(* What is not refused fits what was accepted, and did not fail.           *)
LEMMA NotRefused ==
  ASSUME NEW request \in Request, Refusal(request) = "none"
  PROVE  /\ ~OverTheLimit
         /\ accepted \in {NoSignature, request.signature}
         /\ accepted = request.signature => ~failed
BY DEF Refusal

-----------------------------------------------------------------------------

(* One request is handled: it is refused, acknowledged again, or the first *)
(* one, whose activation begins before the command ends.                   *)
LEMMA HandledInvariant ==
  ASSUME LaunchInvariant, NEW request \in Request, handling = NoRequest,
         Refuses(request) \/ AcceptsAgain(request) \/ AcceptsFirst(request),
         UNCHANGED <<sent, requested, forcing, cli>>,
         wire' \subseteq Request, queue' \in Seq(Request), awaited' \in Nat,
         accepted = NoSignature => queue' = <<>>
  PROVE  LaunchInvariant'
<1> USE LaunchAssumption, NullsAreApart
<1>1. TypeOK /\ request.signature \in Signatures
  BY DEF LaunchInvariant, Request
<1>2. seen' \in 0 .. MaxConfigurations /\ child' \in {"running", "told", "killed", "gone"}
  <2>1. seen' = seen \/ (~OverTheLimit /\ seen' = seen + 1)
    BY NotRefused DEF Refuses, AcceptsAgain, AcceptsFirst
  <2>2. child' = child \/ child' = Told
    BY DEF Refuses, AcceptsAgain, AcceptsFirst
  <2>3. MaxConfigurations \in Nat /\ seen \in 0 .. MaxConfigurations
    BY <1>1 DEF TypeOK
  <2>4. seen' \in 0 .. MaxConfigurations
    BY <2>1, <2>3 DEF OverTheLimit
  <2> QED BY <1>1, <2>2, <2>4 DEF TypeOK, Told
<1>3. CASE Refuses(request)
  <2>1. UNCHANGED <<handling, accepted, failed, configured, session, canary>> /\ Answer(request, FALSE)
    BY <1>3 DEF Refuses
  <2>2. /\ memo' \in [Hosts -> Memos]
        /\ \A host \in Hosts : memo'[host].state = "answered" =>
             memo[host].state = "answered" /\ memo'[host] = memo[host]
    BY <1>1, <2>1, AnswerIsHeard
  <2>3. TypeOK'
    BY <1>1, <1>2, <2>1, <2>2 DEF TypeOK, Memos
  <2> QED
    BY <2>1, <2>2, <2>3 DEF LaunchInvariant, ActivationIsOnce, AnswersAreAcknowledged,
                            ActivationIsAwaited, NothingIsLeft, SidecarCloses
<1>4. CASE AcceptsAgain(request)
  <2>1. /\ accepted = request.signature /\ ~failed /\ accepted # NoSignature
        /\ UNCHANGED <<handling, accepted, failed, session>>
        /\ Acknowledges(request)
    BY <1>1, <1>4, NotRefused DEF AcceptsAgain
  <2>2. configured
    BY <2>1 DEF LaunchInvariant, ActivationIsOnce
  <2>3. configured' /\ configured' \in BOOLEAN /\ canary' = canary /\ Answer(request, TRUE)
    BY <2>1, <2>2 DEF Acknowledges
  <2>4. /\ memo' \in [Hosts -> Memos]
        /\ \A host \in Hosts : memo'[host].state = "answered" =>
             \/ memo[host].state = "answered" /\ memo'[host] = memo[host]
             \/ memo'[host].request = request
    BY <1>1, <2>3, AnswerIsHeard
  <2>5. TypeOK'
    BY <1>1, <1>2, <2>1, <2>3, <2>4 DEF TypeOK, Memos
  <2> QED
    BY <2>1, <2>2, <2>3, <2>4, <2>5 DEF LaunchInvariant, ActivationIsOnce, AnswersAreAcknowledged,
                                    ActivationIsAwaited, NothingIsLeft, SidecarCloses
<1>5. CASE AcceptsFirst(request)
  <2>1. /\ accepted = NoSignature /\ accepted' = request.signature /\ accepted' # NoSignature
        /\ ~failed /\ ~configured /\ session' = "none" /\ session = "none"
    BY <1>1, <1>5 DEF AcceptsFirst, LaunchInvariant, ActivationIsOnce
  <2>2. \A host \in Hosts : memo[host].state # "answered"
    BY <2>1 DEF LaunchInvariant, AnswersAreAcknowledged
  <2>3. canary # "trying" /\ cli # "draining"
    BY <2>1 DEF LaunchInvariant, AnswersAreAcknowledged, ActivationIsAwaited
  <2>4. CASE SidecarCloses
    <3>1. failed' = TRUE /\ Answer(request, FALSE) /\ UNCHANGED <<handling, configured, canary>>
      BY <1>5, <2>4 DEF AcceptsFirst
    <3>2. memo' \in [Hosts -> Memos] /\ \A host \in Hosts : memo'[host].state # "answered"
      BY <1>1, <2>2, <3>1, AnswerIsHeard
    <3>3. TypeOK'
      BY <1>1, <1>2, <2>1, <3>1, <3>2 DEF TypeOK, Memos
    <3> QED
      BY <2>1, <2>3, <3>1, <3>2, <3>3 DEF LaunchInvariant, ActivationIsOnce,
         AnswersAreAcknowledged, ActivationIsAwaited, NothingIsLeft, SidecarCloses
  <2>5. CASE ~SidecarCloses /\ request.signature \in Disabled
    <3>1. Acknowledges(request) /\ UNCHANGED <<handling, failed>>
      BY <1>5, <2>5 DEF AcceptsFirst
    <3>2. configured' /\ configured' \in BOOLEAN /\ canary' = canary /\ Answer(request, TRUE)
      BY <2>5, <3>1 DEF Acknowledges
    <3>3. /\ memo' \in [Hosts -> Memos]
          /\ \A host \in Hosts : memo'[host].state = "answered" => memo'[host].request = request
      BY <1>1, <2>2, <3>2, AnswerIsHeard
    <3>4. TypeOK'
      BY <1>1, <1>2, <2>1, <3>1, <3>2, <3>3 DEF TypeOK, Memos
    <3> QED
      BY <2>1, <2>3, <2>5, <3>1, <3>2, <3>3, <3>4 DEF LaunchInvariant, ActivationIsOnce,
         AnswersAreAcknowledged, ActivationIsAwaited, NothingIsLeft, SidecarCloses
  <2>6. CASE ~SidecarCloses /\ request.signature \notin Disabled
    <3>1. handling' = request /\ UNCHANGED <<memo, failed, configured, canary>>
      BY <1>5, <2>6 DEF AcceptsFirst
    <3>2. TypeOK'
      BY <1>1, <1>2, <2>1, <3>1 DEF TypeOK
    <3> QED
      BY <2>1, <2>2, <2>3, <2>6, <3>1, <3>2 DEF LaunchInvariant, ActivationIsOnce,
         AnswersAreAcknowledged, ActivationIsAwaited, NothingIsLeft, SidecarCloses
  <2> QED BY <2>4, <2>5, <2>6
<1> QED BY <1>3, <1>4, <1>5

(* A request that comes while another is under way waits for its turn.     *)
LEMMA ArrivesInvariant ==
  ASSUME LaunchInvariant, NEW request \in wire, Arrives(request)
  PROVE  LaunchInvariant'
<1>1. /\ request \in Request /\ wire' \subseteq Request /\ TypeOK
      /\ UNCHANGED <<sent, requested, forcing, cli, awaited>>
  BY DEF LaunchInvariant, TypeOK, Arrives, cliVars
<1>2. CASE handling = NoRequest /\ queue = <<>>
  <2>1. /\ Refuses(request) \/ AcceptsAgain(request) \/ AcceptsFirst(request)
        /\ queue' = queue
    BY <1>2 DEF Arrives
  <2>2. queue' \in Seq(Request) /\ awaited' \in Nat
    BY <1>1, <2>1 DEF TypeOK
  <2> QED BY <1>1, <1>2, <2>1, <2>2, HandledInvariant
<1>3. CASE ~(handling = NoRequest /\ queue = <<>>)
  <2>1. /\ queue' = Append(queue, request)
        /\ UNCHANGED <<memo, handling, seen, accepted, failed, configured, session, canary, child>>
    BY <1>3 DEF Arrives
  <2>2. queue' \in Seq(Request)
    BY <1>1, <2>1 DEF TypeOK
  <2>3. TypeOK'
    BY <1>1, <2>1, <2>2 DEF TypeOK
  <2>4. accepted # NoSignature
    BY <1>3 DEF LaunchInvariant, ActivationIsOnce
  <2> QED
    BY <1>1, <2>1, <2>3, <2>4 DEF LaunchInvariant, ActivationIsOnce, AnswersAreAcknowledged,
                                  ActivationIsAwaited, NothingIsLeft, SidecarCloses
<1> QED BY <1>2, <1>3

(* The next request of the queue is handled.                               *)
LEMMA NextIsHandledInvariant ==
  ASSUME LaunchInvariant, NextIsHandled
  PROVE  LaunchInvariant'
<1>1. /\ queue \in Seq(Request) /\ queue # <<>> /\ queue' = Tail(queue) /\ awaited \in Nat
      /\ wire \subseteq Request
      /\ UNCHANGED <<sent, wire, requested, forcing, cli>> /\ handling = NoRequest
      /\ Refuses(Head(queue)) \/ AcceptsAgain(Head(queue))
      /\ awaited' = IF awaited = 0 THEN 0 ELSE awaited - 1
  BY DEF NextIsHandled, LaunchInvariant, TypeOK
<1>2. Head(queue) \in Request /\ queue' \in Seq(Request)
  BY <1>1, HeadTailProperties
<1>3. accepted # NoSignature /\ awaited' \in Nat
  BY <1>1 DEF LaunchInvariant, ActivationIsOnce
<1> QED BY <1>1, <1>2, <1>3, HandledInvariant

(* An activation that ends acknowledges its configuration, over a session, *)
(* or has failed for good.                                                 *)
LEMMA ActivationEndsInvariant ==
  ASSUME LaunchInvariant, NEW ok \in BOOLEAN, ActivationEnds(ok)
  PROVE  LaunchInvariant'
<1> USE LaunchAssumption, NullsAreApart
<1>1. /\ handling \in Request /\ handling' = NoRequest /\ accepted = handling.signature
      /\ ~failed /\ ~configured /\ accepted # NoSignature /\ accepted \notin Disabled
      /\ UNCHANGED <<sent, wire, queue, seen, accepted, session, childVars, cli>>
  BY DEF ActivationEnds, LaunchInvariant, TypeOK, ActivationIsOnce
<1>2. awaited' \in Nat /\ TypeOK
  BY DEF ActivationEnds, LaunchInvariant, TypeOK
<1>3. \A host \in Hosts : memo[host].state # "answered"
  BY <1>1 DEF LaunchInvariant, AnswersAreAcknowledged
<1>4. ~SidecarCloses
  BY <1>1 DEF LaunchInvariant, ActivationIsAwaited, NothingIsLeft
<1>5. CASE ok
  <2>1. session # "none" /\ Acknowledges(handling) /\ failed' = failed
    BY <1>5 DEF ActivationEnds
  <2>2. /\ configured' /\ configured' \in BOOLEAN /\ Answer(handling, TRUE)
        /\ canary' \in {"none", "trying", "over"}
    BY <1>2, <2>1 DEF Acknowledges, TypeOK
  <2>3. /\ memo' \in [Hosts -> Memos]
        /\ \A host \in Hosts : memo'[host].state = "answered" => memo'[host].request = handling
    BY <1>1, <1>2, <1>3, <2>2, AnswerIsHeard
  <2>4. TypeOK'
    BY <1>1, <1>2, <2>1, <2>2, <2>3 DEF TypeOK, Memos, childVars
  <2> QED
    BY <1>1, <1>4, <2>1, <2>2, <2>3, <2>4 DEF LaunchInvariant, ActivationIsOnce,
       AnswersAreAcknowledged, ActivationIsAwaited, NothingIsLeft, SidecarCloses
<1>6. CASE ~ok
  <2>1. failed' = TRUE /\ Answer(handling, FALSE) /\ UNCHANGED <<configured, canary>>
    BY <1>6 DEF ActivationEnds
  <2>2. memo' \in [Hosts -> Memos] /\ \A host \in Hosts : memo'[host].state # "answered"
    BY <1>1, <1>2, <1>3, <2>1, AnswerIsHeard
  <2>3. TypeOK'
    BY <1>1, <1>2, <2>1, <2>2 DEF TypeOK, Memos, childVars
  <2> QED
    BY <1>1, <1>4, <2>1, <2>2, <2>3 DEF LaunchInvariant, ActivationIsOnce,
       AnswersAreAcknowledged, ActivationIsAwaited, NothingIsLeft, SidecarCloses
<1> QED BY <1>5, <1>6

(* The session of the configuration that is being activated opens.         *)
LEMMA SessionOpensInvariant ==
  ASSUME LaunchInvariant, SessionOpens
  PROVE  LaunchInvariant'
<1>1. TypeOK'
  BY DEF LaunchInvariant, TypeOK, SessionOpens, hostVars, childVars, cliVars
<1> QED
  BY <1>1 DEF Ended, SessionOpens, hostVars, childVars, cliVars, LaunchInvariant, ActivationIsOnce,
     AnswersAreAcknowledged, ActivationIsAwaited, NothingIsLeft, SidecarCloses

(* The session that closes has been closed, or stays unclosed.             *)
LEMMA SessionClosesInvariant ==
  ASSUME LaunchInvariant, SessionCloses
  PROVE  LaunchInvariant'
<1>1. TypeOK'
  BY DEF LaunchInvariant, TypeOK, SessionCloses, hostVars, childVars, cliVars
<1> QED
  BY <1>1 DEF Ended, SessionCloses, hostVars, childVars, cliVars, LaunchInvariant,
     ActivationIsOnce, AnswersAreAcknowledged, ActivationIsAwaited, NothingIsLeft, SidecarCloses

(* The end of the command: it waits for the activation, then closes.       *)
LEMMA CliInvariant ==
  ASSUME LaunchInvariant, CliSteps
  PROVE  LaunchInvariant'
<1>1. TypeOK /\ Len(queue) \in Nat
  BY LenProperties DEF LaunchInvariant, TypeOK
<1>2. /\ UNCHANGED <<memo, sent, wire, queue, handling, seen, accepted, failed, configured,
                     child, requested, canary>>
      /\ forcing' \in BOOLEAN
  BY <1>1 DEF CliSteps, Drains, CloseBegins, Returns, Exits, hostVars, queueVars, childVars, TypeOK
<1>3. /\ cli' \in {"draining", "closing", "returned", "exited"}
      /\ session' \in {"none", "open", "closing", "closed", "unclosed"}
      /\ session' = "none" <=> session = "none"
      /\ cli' # "draining" => session' # "open"
      /\ cli' = "exited" => session' \in {"none", "closed"}
  BY <1>1 DEF CliSteps, Drains, CloseBegins, Returns, Exits, queueVars, Closes, TypeOK, LaunchInvariant,
     ActivationIsAwaited, NothingIsLeft, SidecarCloses
<1>4. awaited' \in Nat
  BY <1>1 DEF CliSteps, Drains, CloseBegins, Returns, Exits, TypeOK, UnderWay
<1>5. /\ cli' = "draining" => accepted # NoSignature /\ (handling # NoRequest => awaited' > 0)
      /\ cli' # "draining" => handling = NoRequest
  <2>1. CASE Drains
    <3>1. awaited' = UnderWay /\ UnderWay \in Nat /\ (handling # NoRequest => UnderWay > 0)
      BY <1>1, <2>1 DEF Drains, UnderWay
    <3>2. UnderWay # 0 => queue # <<>> \/ handling # NoRequest
      BY <1>1 DEF UnderWay
    <3>3. accepted = NoSignature => UnderWay = 0 /\ canary # "trying"
      BY <3>2 DEF LaunchInvariant, ActivationIsOnce, AnswersAreAcknowledged
    <3> QED BY <2>1, <3>1, <3>3 DEF Drains, Closes
  <2>2. CASE CloseBegins
    BY <1>1, <2>2 DEF CloseBegins, Closes, LaunchInvariant, ActivationIsAwaited
  <2>3. CASE Returns \/ Exits
    BY <2>3 DEF Returns, Exits, LaunchInvariant, ActivationIsAwaited, NothingIsLeft, SidecarCloses
  <2> QED BY <2>1, <2>2, <2>3 DEF CliSteps
<1>6. TypeOK'
  BY <1>1, <1>2, <1>3, <1>4 DEF TypeOK
<1> QED
  BY <1>2, <1>3, <1>5, <1>6 DEF LaunchInvariant, ActivationIsOnce, AnswersAreAcknowledged,
     ActivationIsAwaited, NothingIsLeft, SidecarCloses

(* What the hosts do changes only what they remember, never to an answer.  *)
LEMMA HostInvariant ==
  ASSUME LaunchInvariant, HostSteps
  PROVE  LaunchInvariant'
<1> USE LaunchAssumption, NullsAreApart
<1>1. TypeOK
  BY DEF LaunchInvariant
<1> DEFINE OnlyAsks ==
      /\ UNCHANGED <<queueVars, childVars, cliVars, canary>>
      /\ sent' \in 0 .. MaxSends /\ wire' \subseteq Request
      /\ memo' \in [Hosts -> Memos]
      /\ \A host \in Hosts : memo'[host].state = "answered" => memo'[host] = memo[host]
<1>2. OnlyAsks
  <2>1. ASSUME NEW host \in Hosts, NEW signature \in Signatures, Configure(host, signature)
        PROVE  OnlyAsks
    <3> DEFINE request == [host |-> host, signature |-> signature, id |-> sent + 1]
    <3>1. sent' \in 0 .. MaxSends /\ request \in Request
      BY <1>1, <2>1 DEF Configure, TypeOK, Request
    <3>2. /\ wire' = wire \cup {request}
          /\ memo' = [memo EXCEPT ![host] = Memo("asking", request)]
          /\ UNCHANGED <<queueVars, childVars, cliVars, canary>>
      BY <2>1 DEF Configure
    <3>3. Memo("asking", request) \in Memos /\ Memo("asking", request).state = "asking"
      BY <3>1 DEF Memo, Memos
    <3> HIDE DEF request
    <3>4. memo \in [Hosts -> Memos] /\ wire \subseteq Request
      BY <1>1 DEF TypeOK, Memos
    <3> QED BY <3>1, <3>2, <3>3, <3>4
  <2>2. ASSUME NEW host \in Hosts, GivesUp(host) \/ IsReplaced(host) PROVE OnlyAsks
    <3>1. memo \in [Hosts -> Memos] /\ NoMemo \in Memos
      BY <1>1 DEF TypeOK, Memos
    <3> QED BY <1>1, <2>2, <3>1 DEF GivesUp, IsReplaced, TypeOK
  <2> QED BY <2>1, <2>2 DEF HostSteps
<1>3. TypeOK'
  BY <1>1, <1>2 DEF TypeOK, Memos, queueVars, childVars, cliVars
<1> QED
  BY <1>2, <1>3 DEF queueVars, childVars, cliVars, LaunchInvariant, ActivationIsOnce,
     AnswersAreAcknowledged, ActivationIsAwaited, NothingIsLeft, SidecarCloses

(* Signals, timers and the end of the child leave the sidecar as it is.    *)
LEMMA ChildInvariant ==
  ASSUME LaunchInvariant,
         \/ ChildExits \/ UserSignals \/ ForceTimerFires \/ UserInsists
         \/ StartupTimerFires \/ SidecarFails \/ CanaryEnds
  PROVE  LaunchInvariant'
<1> USE NullsAreApart
<1>1. TypeOK
  BY DEF LaunchInvariant
<1>2. /\ UNCHANGED <<sent, wire, queueVars, awaited>>
      /\ memo' = memo \/ memo' = [host \in Hosts |-> NoMemo]
      /\ cli' = cli \/ cli' = "killed"
      /\ canary' = canary \/ canary' = "over"
      /\ child' \in {child, Told, "gone", "killed"}
  BY DEF ChildExits, UserSignals, ForceTimerFires, UserInsists, StartupTimerFires, SidecarFails,
     CanaryEnds, hostVars, queueVars, childVars, cliVars, Told
<1>3. requested' \in BOOLEAN /\ forcing' \in BOOLEAN
  BY <1>1 DEF ChildExits, UserSignals, ForceTimerFires, UserInsists, StartupTimerFires,
     SidecarFails, CanaryEnds, childVars, TypeOK
<1>4. TypeOK'
  BY <1>1, <1>2, <1>3 DEF TypeOK, queueVars, Told
<1>5. \A host \in Hosts : memo'[host].state = "answered" => memo'[host] = memo[host]
  BY <1>2
<1> QED
  BY <1>2, <1>4, <1>5 DEF queueVars, LaunchInvariant, ActivationIsOnce, AnswersAreAcknowledged,
     ActivationIsAwaited, NothingIsLeft, SidecarCloses

-----------------------------------------------------------------------------

(* Every step of the launch preserves the invariant.                       *)
LEMMA NextInvariant == LaunchInvariant /\ [Next]_vars => LaunchInvariant'
<1> SUFFICES ASSUME LaunchInvariant, [Next]_vars PROVE LaunchInvariant'
  OBVIOUS
<1>1. CASE UNCHANGED vars
  BY <1>1 DEF vars, LaunchInvariant, TypeOK, ActivationIsOnce, AnswersAreAcknowledged,
     ActivationIsAwaited, NothingIsLeft, SidecarCloses
<1>2. CASE HostSteps
  BY <1>2, HostInvariant
<1>3. ASSUME NEW request \in wire, Arrives(request) PROVE LaunchInvariant'
  BY <1>3, ArrivesInvariant
<1>4. CASE \/ ChildExits \/ UserSignals \/ ForceTimerFires \/ UserInsists
           \/ StartupTimerFires \/ SidecarFails \/ CanaryEnds
  BY <1>4, ChildInvariant
<1>5. CASE SidecarSteps
  BY <1>5, NextIsHandledInvariant, SessionOpensInvariant, ActivationEndsInvariant DEF SidecarSteps
<1>6. CASE CliSteps
  BY <1>6, CliInvariant
<1>7. CASE SessionCloses
  BY <1>7, SessionClosesInvariant
<1> QED BY <1>1, <1>2, <1>3, <1>4, <1>5, <1>6, <1>7 DEF Next

(* The inductive invariant of the launch.                                  *)
THEOREM LaunchInvariantHolds == Spec => []LaunchInvariant
BY InitInvariant, NextInvariant, PTL DEF Spec

(* All processes of Next were told of one session, theirs, and it was      *)
(* started.                                                                *)
THEOREM HostsAlwaysAgree == Spec => []HostsAgree
<1>1. LaunchInvariant => HostsAgree
  BY DEF LaunchInvariant, ActivationIsOnce, AnswersAreAcknowledged, HostsAgree
<1> QED BY <1>1, LaunchInvariantHolds, PTL

(* The command never returns over a session that is open or being made,    *)
(* and its process never ends before the session has closed.               *)
THEOREM NothingIsEverLeft == Spec => []NothingIsLeft
<1>1. LaunchInvariant => NothingIsLeft
  BY DEF LaunchInvariant, ActivationIsAwaited
<1> QED BY <1>1, LaunchInvariantHolds, PTL
=============================================================================
