----------------------------- MODULE NextLaunch ------------------------------
(***************************************************************************)
(* `spotpatch-next dev`: the command owns a sidecar, the server of the     *)
(* development session, and a child, Next, whose processes load the        *)
(* project's configuration and each ask the sidecar for the session it     *)
(* describes.  It returns when the child is gone and the sidecar closed or *)
(* took too long; its process ends when the sidecar's server is closed.    *)
(* Code: packages/next/src/cli-owner.ts, cli.ts, sidecar.ts,               *)
(* config/handshake.ts, internal/configuration-server.ts.                  *)
(*                                                                         *)
(* A configuration is its signature, and correct in its form; what is      *)
(* served to the browser and the exit status are left out.                 *)
(***************************************************************************)
EXTENDS Naturals, Sequences, FiniteSets

CONSTANTS
  Hosts,                \* the processes of Next that load the configuration
  Signatures,           \* what they may find there
  Disabled,             \* the signatures with SpotPatch not enabled
  MaxConfigurations,    \* MAX_CONFIGURATION_REQUESTS
  MaxSends              \* bound: requests the hosts make

NoSignature == "none"

ASSUME LaunchAssumption ==
  /\ Disabled \subseteq Signatures /\ NoSignature \notin Signatures
  /\ {MaxConfigurations, MaxSends} \subseteq Nat

VARIABLES
  memo,            \* by host: what configureNextRuntime() remembers
  sent,            \* requests made so far
  wire,            \* requests the sidecar has not read yet
  queue,           \* configurationQueue, without the one being handled
  handling,        \* the request whose session is being made, or NoRequest
  seen,            \* seenRequestIds
  accepted,        \* acceptedSignature
  failed,          \* activationFailed
  configured,
  session,         \* the development session
  canary,          \* publicRouteCanary: "none", "trying", "over"
  child,           \* "running", "told" to end, "killed", "gone"
  requested,       \* a signal of the user is being forwarded
  forcing,         \* forceTimer runs
  cli,             \* how far the command is: "running" ... "exited", or "killed"
  awaited          \* the part of the queue that is waited for

vars == <<memo, sent, wire, queue, handling, seen, accepted, failed, configured, session,
          canary, child, requested, forcing, cli, awaited>>

Request == [host: Hosts, signature: Signatures, id: 1 .. MaxSends]
NoRequest == [id |-> 0]

(* The state of configureNextRuntime(): nothing under way, or a request    *)
(* that is not answered, or one that was.                                  *)
NoMemo == [state |-> "none"]
Memo(state, request) == [state |-> state, request |-> request]

(* close() of the sidecar has been called; its process is there no more.   *)
SidecarCloses == cli \in {"closing", "returned", "exited"}
Ended == cli \in {"exited", "killed"}

hostVars == <<memo, sent, wire>>
queueVars == <<queue, handling, seen, accepted, failed, configured, session>>
childVars == <<child, requested, forcing>>
cliVars == <<cli, awaited>>

-----------------------------------------------------------------------------
(* The hosts.  A host asks once; a failure, or 15 seconds without an       *)
(* answer, and it may ask again.  With another configuration it is         *)
(* refused on the spot, until Next replaces its process.                   *)
Configure(host, signature) ==
  /\ child # "gone" /\ memo[host] = NoMemo /\ sent < MaxSends
  /\ sent' = sent + 1
  /\ LET request == [host |-> host, signature |-> signature, id |-> sent + 1]
     IN  /\ wire' = wire \cup {request}
         /\ memo' = [memo EXCEPT ![host] = Memo("asking", request)]
  /\ UNCHANGED <<queueVars, childVars, cliVars, canary>>

GivesUp(host) ==
  /\ memo[host].state = "asking"
  /\ memo' = [memo EXCEPT ![host] = NoMemo]
  /\ UNCHANGED <<sent, wire, queueVars, childVars, cliVars, canary>>

IsReplaced(host) ==
  /\ memo[host].state = "answered"
  /\ memo' = [memo EXCEPT ![host] = NoMemo]
  /\ UNCHANGED <<sent, wire, queueVars, childVars, cliVars, canary>>

(* An answer is heard by a host that still waits for it.                   *)
Answer(request, ok) ==
  memo' = [host \in Hosts |->
             IF memo[host] = Memo("asking", request)
             THEN IF ok THEN Memo("answered", request) ELSE NoMemo
             ELSE memo[host]]

-----------------------------------------------------------------------------
(* The child.                                                              *)
Told == IF child = "running" THEN "told" ELSE child

(* It ends by itself, or as it was told, or it does not listen.            *)
ChildExits ==
  /\ child # "gone" /\ child' = "gone"
  /\ memo' = [host \in Hosts |-> NoMemo]
  /\ UNCHANGED <<sent, wire, queueVars, requested, forcing, cliVars, canary>>

(* As it would be if a child that does not listen were not killed.         *)
BugUserSignals ==
  /\ cli = "running" /\ ~requested
  /\ requested' = TRUE /\ child' = Told
  /\ UNCHANGED <<hostVars, queueVars, forcing, cliVars, canary>>

(* forwardSignal(), for SIGINT and SIGTERM.                                *)
UserSignals ==
  /\ cli = "running" /\ ~requested
  /\ requested' = TRUE /\ forcing' = TRUE /\ child' = Told
  /\ UNCHANGED <<hostVars, queueVars, cliVars, canary>>

ForceTimerFires ==
  /\ forcing /\ forcing' = FALSE
  /\ child' = IF child = "gone" THEN child ELSE "killed"
  /\ UNCHANGED <<hostVars, queueVars, requested, cliVars, canary>>

(* The handlers are used once and removed: another signal ends the process *)
(* at once, also when the command has returned and its sidecar is open.    *)
UserInsists ==
  /\ (cli = "running" /\ requested) \/ cli \in {"draining", "closing", "returned"}
  /\ cli' = "killed"
  /\ UNCHANGED <<hostVars, queueVars, childVars, canary, awaited>>

StartupTimerFires ==
  /\ cli = "running" /\ ~configured
  /\ child' = Told
  /\ UNCHANGED <<hostVars, queueVars, requested, forcing, cliVars, canary>>

(* onFatalError().                                                         *)
SidecarFails ==
  /\ cli \in {"running", "draining"} /\ child = "running" /\ child' = "told"
  /\ UNCHANGED <<hostVars, queueVars, requested, forcing, cliVars, canary>>

(* waitForPublicRoute(), up to its deadline or until it is aborted.        *)
CanaryEnds ==
  /\ canary = "trying" /\ canary' = "over"
  /\ child' \in IF cli = "running" THEN {child, Told} ELSE {child}
  /\ UNCHANGED <<hostVars, queueVars, requested, forcing, cliVars>>

-----------------------------------------------------------------------------
(* handleConfiguration(), one request after the other.                     *)
OverTheLimit == seen >= MaxConfigurations

(* As it would be if a failed activation were not remembered.              *)
BugRefusal(request) ==
  CASE OverTheLimit -> "INVALID_IPC"
    [] ~OverTheLimit /\ accepted \notin {NoSignature, request.signature} ->
         "CONFIGURATION_CONFLICT"
    [] OTHER -> "none"

Refusal(request) ==
  CASE OverTheLimit -> "INVALID_IPC"
    [] ~OverTheLimit /\ accepted \notin {NoSignature, request.signature} ->
         "CONFIGURATION_CONFLICT"
    [] ~OverTheLimit /\ accepted = request.signature /\ failed -> "CONFIGURATION_FAILED"
    [] OTHER -> "none"

Refuses(request) ==
  /\ Refusal(request) # "none"
  /\ child' = IF OverTheLimit THEN Told ELSE child
  /\ seen' = IF OverTheLimit THEN seen ELSE seen + 1
  /\ Answer(request, FALSE)
  /\ UNCHANGED <<handling, accepted, failed, configured, session, canary>>

(* The first acknowledgement stops the startup timer and starts to look    *)
(* for the public route.                                                   *)
Acknowledges(request) ==
  /\ configured' = TRUE
  /\ canary' = IF configured \/ request.signature \in Disabled THEN canary
               ELSE IF cli = "running" THEN "trying" ELSE "over"
  /\ Answer(request, TRUE)

AcceptsAgain(request) ==
  /\ Refusal(request) = "none" /\ accepted = request.signature
  /\ seen' = seen + 1
  /\ Acknowledges(request)
  /\ UNCHANGED <<handling, accepted, failed, session, child>>

(* activate(): a closed sidecar refuses, a disabled one has no session.    *)
AcceptsFirst(request) ==
  /\ Refusal(request) = "none" /\ accepted = NoSignature
  /\ seen' = seen + 1 /\ accepted' = request.signature
  /\ CASE SidecarCloses ->
            /\ failed' = TRUE /\ Answer(request, FALSE)
            /\ UNCHANGED <<handling, configured, canary>>
       [] ~SidecarCloses /\ request.signature \in Disabled ->
            Acknowledges(request) /\ UNCHANGED <<handling, failed>>
       [] OTHER ->
            /\ handling' = request
            /\ UNCHANGED <<memo, failed, configured, canary>>
  /\ UNCHANGED <<session, child>>

(* The configuration is read: it waits for the ones before it.             *)
Arrives(request) ==
  /\ request \in wire /\ ~Ended
  /\ wire' = wire \ {request}
  /\ IF handling = NoRequest /\ queue = <<>>
     THEN /\ Refuses(request) \/ AcceptsAgain(request) \/ AcceptsFirst(request)
          /\ UNCHANGED queue
     ELSE /\ queue' = Append(queue, request)
          /\ UNCHANGED <<memo, handling, seen, accepted, failed, configured, session, canary,
                         child>>
  /\ UNCHANGED <<sent, requested, forcing, cliVars>>

(* The one that is accepted first never had to wait.                       *)
NextIsHandled ==
  /\ handling = NoRequest /\ queue # <<>> /\ ~Ended
  /\ Refuses(Head(queue)) \/ AcceptsAgain(Head(queue))
  /\ queue' = Tail(queue)
  /\ awaited' = IF awaited = 0 THEN 0 ELSE awaited - 1
  /\ UNCHANGED <<sent, wire, requested, forcing, cli>>

(* createDevelopmentSession() and what comes after it in activate().       *)
SessionOpens ==
  /\ handling # NoRequest /\ session = "none" /\ session' = "open"
  /\ ~Ended
  /\ UNCHANGED <<hostVars, queue, handling, seen, accepted, failed, configured, childVars,
                 cliVars, canary>>

ActivationEnds(ok) ==
  /\ handling # NoRequest /\ ~Ended
  /\ handling' = NoRequest
  /\ awaited' = IF awaited = 0 THEN 0 ELSE awaited - 1
  /\ IF ok
     THEN session # "none" /\ Acknowledges(handling) /\ UNCHANGED failed
     ELSE /\ failed' = TRUE /\ Answer(handling, FALSE)
          /\ UNCHANGED <<configured, canary>>
  /\ UNCHANGED <<sent, wire, queue, seen, accepted, session, childVars, cli>>

-----------------------------------------------------------------------------
UnderWay == Len(queue) + (IF handling = NoRequest THEN 0 ELSE 1)

Closes == cli' = "closing" /\ session' = IF session = "open" THEN "closing" ELSE session

(* As it would be if the queue were not waited for.                        *)
BugDrains ==
  /\ cli = "running" /\ child = "gone"
  /\ forcing' = FALSE /\ awaited' = 0
  /\ IF canary # "trying" THEN Closes ELSE cli' = "draining" /\ UNCHANGED session
  /\ UNCHANGED <<hostVars, queue, handling, seen, accepted, failed, configured, child,
                 requested, canary>>

(* The end, once the child is gone: the canary is aborted, the requests    *)
(* then queued are waited for, then the canary, then the sidecar closes.   *)
Drains ==
  /\ cli = "running" /\ child = "gone"
  /\ forcing' = FALSE /\ awaited' = UnderWay
  /\ IF UnderWay = 0 /\ canary # "trying" THEN Closes ELSE cli' = "draining" /\ UNCHANGED session
  /\ UNCHANGED <<hostVars, queue, handling, seen, accepted, failed, configured, child,
                 requested, canary>>

CloseBegins ==
  /\ cli = "draining" /\ awaited = 0 /\ canary # "trying" /\ Closes
  /\ UNCHANGED <<hostVars, queue, handling, seen, accepted, failed, configured, childVars,
                 awaited, canary>>

(* The services of the session end; one that fails to, or that does not    *)
(* answer, leaves it unclosed, and close() of the sidecar goes no further. *)
SessionCloses ==
  /\ session = "closing" /\ ~Ended
  /\ session' \in {"closed", "unclosed"}
  /\ UNCHANGED <<hostVars, queue, handling, seen, accepted, failed, configured, childVars,
                 cliVars, canary>>

(* closeSidecar(): the sidecar is closed, or failed to, or five seconds    *)
(* are over.  cli.ts sets the exit code and waits for the event loop.      *)
Returns ==
  /\ cli = "closing" /\ cli' = "returned"
  /\ UNCHANGED <<hostVars, queueVars, childVars, awaited, canary>>

(* The server is closed after the session; nothing else keeps the process. *)
Exits ==
  /\ cli = "returned" /\ session \in {"none", "closed"}
  /\ cli' = "exited"
  /\ UNCHANGED <<hostVars, queueVars, childVars, awaited, canary>>

-----------------------------------------------------------------------------
Init ==
  /\ memo = [host \in Hosts |-> NoMemo] /\ sent = 0 /\ wire = {}
  /\ queue = <<>> /\ handling = NoRequest /\ seen = 0 /\ accepted = NoSignature
  /\ failed = FALSE /\ configured = FALSE /\ session = "none" /\ canary = "none"
  /\ child = "running" /\ requested = FALSE /\ forcing = FALSE
  /\ cli = "running" /\ awaited = 0

HostSteps ==
  \E host \in Hosts :
    (\E signature \in Signatures : Configure(host, signature)) \/ GivesUp(host)
      \/ IsReplaced(host)

SidecarSteps == NextIsHandled \/ SessionOpens \/ \E ok \in BOOLEAN : ActivationEnds(ok)

CliSteps == Drains \/ CloseBegins \/ Returns \/ Exits

Next ==
  \/ HostSteps
  \/ \E request \in wire : Arrives(request)
  \/ ChildExits \/ UserSignals \/ ForceTimerFires \/ UserInsists
  \/ StartupTimerFires \/ SidecarFails \/ CanaryEnds
  \/ SidecarSteps \/ CliSteps \/ SessionCloses

(* A process that is killed ends; timers fire; a session is made, or not,  *)
(* and a route is found, or not, in bounded time.  A session that closes   *)
(* for ever counts as unclosed: this says that it is one or the other.     *)
Fairness ==
  /\ WF_vars(child = "killed" /\ ChildExits)
  /\ WF_vars(ForceTimerFires) /\ WF_vars(CanaryEnds)
  /\ WF_vars(SidecarSteps) /\ WF_vars(CliSteps) /\ WF_vars(SessionCloses)

Spec == Init /\ [][Next]_vars /\ Fairness

-----------------------------------------------------------------------------
(* The processes of Next that were told of a session were all told of the  *)
(* same one, the one that their own configuration describes, and it was    *)
(* started: whoever gave up and asked again meanwhile, and in which order  *)
(* the requests came.  Code: handleConfiguration() of cli-owner.ts,        *)
(* configureNextRuntime() of handshake.ts.                                 *)
HostsAgree ==
  \A host \in Hosts : memo[host].state = "answered" =>
    /\ memo[host].request.signature = accepted /\ ~failed
    /\ session = "none" => accepted \in Disabled

(* The command leaves no session behind: once it closes the sidecar no     *)
(* session is open or being made, whatever was under way when Next ended,  *)
(* and the process ends only after the session.  Code: the last part of    *)
(* runNextDevelopment() in cli-owner.ts, activate() and close() of         *)
(* sidecar.ts.                                                             *)
NothingIsLeft ==
  /\ SidecarCloses => handling = NoRequest /\ session # "open"
  /\ cli = "exited" => session \in {"none", "closed"}

(* A user who interrupts the command gets the terminal back, even when     *)
(* Next does not listen and whatever is being started.  The command always *)
(* returns; its process ends too, unless the session cannot be closed: the *)
(* five seconds of closeSidecar() end the wait and not the process, which  *)
(* then takes a second signal.  Code: forwardSignal(), closeSidecar() in   *)
(* cli-owner.ts, cli.ts, close() of sidecar.ts.                            *)
InterruptReturns ==
  /\ requested ~> cli \in {"returned", "exited", "killed"}
  /\ requested ~> Ended \/ session = "unclosed"

-----------------------------------------------------------------------------
(* The inductive invariant the proofs rest on, conjunct by conjunct.       *)

(* Every variable has its type, and no more requests are counted than may  *)
(* be.                                                                     *)
TypeOK ==
  /\ memo \in [Hosts -> {NoMemo} \cup [state: {"asking", "answered"}, request: Request]]
  /\ sent \in 0 .. MaxSends /\ wire \subseteq Request
  /\ queue \in Seq(Request) /\ handling \in Request \cup {NoRequest}
  /\ seen \in 0 .. MaxConfigurations
  /\ accepted \in Signatures \cup {NoSignature}
  /\ failed \in BOOLEAN /\ configured \in BOOLEAN
  /\ session \in {"none", "open", "closing", "closed", "unclosed"}
  /\ canary \in {"none", "trying", "over"}
  /\ child \in {"running", "told", "killed", "gone"}
  /\ requested \in BOOLEAN /\ forcing \in BOOLEAN
  /\ cli \in {"running", "draining", "closing", "returned", "exited", "killed"}
  /\ awaited \in Nat

(* How far the accepted configuration has come: nothing is under way       *)
(* before there is one; it is being activated, or has failed, or else has  *)
(* been acknowledged, which takes a session unless SpotPatch is disabled.  *)
ActivationIsOnce ==
  /\ accepted = NoSignature =>
       /\ ~failed /\ ~configured /\ session = "none"
       /\ queue = <<>> /\ handling = NoRequest
  /\ handling # NoRequest =>
       /\ accepted = handling.signature /\ accepted \notin Disabled
       /\ ~failed /\ ~configured
  /\ (accepted # NoSignature /\ handling = NoRequest /\ ~failed) => configured
  /\ configured => ~failed /\ (session = "none" => accepted \in Disabled)

(* Only an acknowledged configuration answers a host or looks for a route. *)
AnswersAreAcknowledged ==
  /\ \A host \in Hosts : memo[host].state = "answered" =>
       configured /\ memo[host].request.signature = accepted
  /\ canary = "trying" => configured

(* The sidecar closes after the activation it waits for.                   *)
ActivationIsAwaited ==
  /\ cli = "draining" => accepted # NoSignature /\ (handling # NoRequest => awaited > 0)
  /\ NothingIsLeft

LaunchInvariant ==
  TypeOK /\ ActivationIsOnce /\ AnswersAreAcknowledged /\ ActivationIsAwaited
=============================================================================
