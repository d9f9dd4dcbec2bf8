# SpotPatch: a TLA+ model and its proofs

SpotPatch lets a developer select elements of a running page, write notes on
them and send them to a coding agent. This directory models the part of it that
decides who may write the project's files, when, and what the user is told
about it: the dev server's handoff to external agents, the connector that
drives such an agent, the managed agent that the dev server connects by itself,
the jobs of the built-in agent with the files they are applied to, the
read-only questions, the page's side of all of these, and the launch of a
session under Next. `PROJECT.json` maps every definition to the lines it models; paths
below are relative to `src/packages/`.

## 1. The system

### Components and their state

| Component | Source | State | Operations | Interacts with |
|---|---|---|---|---|
| Active registry | `dev-server/src/external-handoff/active-registry.ts` | the one lease of an active agent, its one dispatch, the hazard gate (`blocked`), the token released last | claim, heartbeat, report, release, reserve, resolveDelivery, snapshot, close | called by service and broker |
| Handoff store | `dev-server/src/external-handoff/store.ts` | the current handoff, a short history, request records, parked long polls | publish, replay, status, ack, wait, close | calls `reserve` of the registry inside publish |
| Handoff service | `dev-server/src/external-handoff/service.ts` | publish requests in flight | publish, status, capability, resolveDelivery, start, close | browser routes on one side, store and registry on the other |
| Broker | `dev-server/src/external-handoff/broker.ts` | HTTP server, sockets | the connector's calls | connector process over loopback HTTP |
| Bridge client | `bridge/src/client.ts`, `broker-client.ts` | lease in use, last receipt | activeClaim, wait, activeReport, activeHeartbeat, activeRelease | broker; calls time out |
| Event pump | `bridge/src/active/event-pump.ts` | the run of one connector: lease, cursor, phase of the delivery, abort signals | run, close | bridge client, vendor adapter |
| Job manager | `dev-server/src/agent/job-manager.ts`, `workspace/activity-coordinator.ts` | up to 32 jobs with status, controller and lease; the workspace's one activity | create, cancel, apply, revert, close | agent engine, coordinator |
| Agent engine | `agent/src/engine/execute-agent-change.ts`, `worktree/git-worktree.ts` | an isolated worktree | executeAgentChange | provider, git |
| Prepared change | `agent/src/worktree/prepared-change.ts` | baseline and expected hashes, state of each change | apply, revert | git, the user's files |
| Contextual ask manager | `dev-server/src/contextual-ask/manager.ts` | one active question, its snapshot, the pending admissions, recent answers | create, cancel, result, close | executors, coordinator |
| Development session | `dev-server/src/development-session.ts` | the list of cleanups | create, close | all of the above |
| Supervisor | `bridge/src/supervisor/` | connection, queue of operations, request records, results, grant and cleanup journal on disk | connect, disconnect, cancel, dispose | pump, managed adapter |
| Managed adapter | `bridge/src/active/codex/managed-adapter.ts` | one turn of Codex's app server, threads to delete | connect, deliver, close | app server, journal, managed execution |
| Managed execution | `agent/src/managed/managed-execution.ts` | an independent snapshot | prepare, auditAndApply, dispose | git, prepared change |
| Other vendor adapters | `bridge/src/active/codex`, `claude` | protocol and turn state | deliver, close | app server, MCP |
| Browser workflows | `runtime/src/controller/` | selection, the job, question or publication shown, revisions that disown old requests | run, cancel, apply, discard, revert, ask, send | the dev server's routes, panels |
| Next launch | `next/src/cli-owner.ts`, `sidecar.ts`, `config/handshake.ts` | configuration queue, accepted signature, child process, session | start, configure, activate, close | Next's processes, signals |
| Analysis and build | `analyzer`, `compiler`, `vite`, `astro`, `react-adapter`, the rest of `next` | none that lives long | transforms, set-up | the bundler |

Everything in one process runs on one event loop, so a handler without an
`await` is atomic; the interleavings are between handlers, between the two ends
of an `await`, between the dev server and the connector process, and between
all of them and the clock.

### What is hard, and what makes each part correct

* *Registry.* Leases and dispatches expire, but only when the next call looks
  (`sweep`). Correct means: an open dispatch always has the lease it was
  reserved under; an outcome is never rewritten; an unproved delivery shuts the
  gate at once, and the user can always open it; a hanging agent does not keep
  the session busy.
* *Store.* A publish and a long poll race; old handoffs expire into a history
  of eight. Correct means: no lost wake-up, no stale answer, the newest revision
  stays known, a retried publish is a replay.
* *Delivery.* Calls get lost, or are handled after the caller has given up on
  them; the connector dies and comes back; the user reviews and opens the gate
  while the old agent may still be writing. Correct means: a handoff reaches an
  agent at most once, two agents write at a time only after a review, the
  outcome shown is the agent's own word, the holder of the lease is woken.
* *Jobs and questions.* Several ways to end each (result, error, cancel,
  timeout, close) with a lease that must be given back on every one, and results
  that arrive after the cancellation. Correct means: one user of the workspace
  at a time, nothing read or answered after a cancellation, nothing written by a
  job that is shown as cancelled, an applied change remains revertible, and
  nobody holds the workspace for ever.
* *A change and the user's files.* The user goes on editing while a change is
  compared, checked, written and compared again. Correct means: an outcome is
  exactly what was reviewed, or the call fails; git is let loose only on the files
  the agent was given.
* *Managed agent.* Operations queue up behind one that waits for an app server,
  events of a connection arrive while it is stopped, and threads with the user's
  code stay in the app server's private home after a crash; a connection whose lease
  was lost goes on with another one. Correct means: a retry runs once, a stopped
  connection is silent, the status is that of a connection, no thread is forgotten or
  left behind when the next turn begins, an applied change can be looked at until
  its age or newer results remove it, every operation ends.
* *Page.* Replies overtake each other, requests are aborted or lost, and the
  user closes, selects anew and sends again meanwhile. Correct means: what is
  shown is of the latest run, what was sent once is published once while the broker
  remembers it and never without consent, a job or a question that is dropped ends.
* *Next launch.* Processes of Next ask, give up and ask again while a session is
  activated and the user interrupts. Correct means: all hosts agree, no session
  is left behind, the command always returns, and its process ends unless the
  session cannot be closed.

`PROJECT.json` lists each hazard at its line, with the properties aimed at it.

## 2. The modules

```
DeliveryGate          abstract promise of the session
    ^ refines
ActiveRegistry        <- ActiveRegistryProofs
HandoffStore          <- HandoffStoreProofs
    ^ INSTANCE of both          ^ INSTANCE of both
HandoffDelivery       <- HandoffDeliveryProofs
                      service, broker, client, pump, adapter, lost and late calls

PreparedChange
    ^ EXTENDS
AgentJobs   AskJobs
    ^ INSTANCE of both
WorkspaceSession      <- WorkspaceSessionProofs
                      coordinator, order of closing

Supervisor
    ^ EXTENDS
ManagedTurn           one connection: adapter, thread journal, execution, pump
    ^ EXTENDS
ManagedAgent          <- ManagedAgentProofs
                      restarts and crashes of the dev server

PageAgent   PageAsk   PageHandoff
    ^ EXTENDS all three
PageSession           <- PageSessionProofs
                      selection, planner, what closes or drops what

NextLaunch            <- NextLaunchProofs
                      command, sidecar, Next's processes
```

A module `...Proofs` extends the module it is about and adds theorems with their
proofs; the inductive invariant is at the end of the module itself, so that TLC can
evaluate it too (`INVARIANT DeliveryInvariant` and so on in a `.cfg`).

Each `MC...` module adds only the symmetry and the model values its `.cfg`
files need. Definitions keep the names of the source. Definitions called
`Bug...` are slips a maintainer could make; they stand before the definition they
would replace, are used by no specification, and show that the properties
notice them.

**ActiveRegistry.** Variables are the five `let`s of the closure
(`lease`, `dispatch`, `blocked`, `lastReleasedToken`, `closed`), the number of
tokens drawn and the store's revision. One action per handler; a call that is
refused still sweeps, which is `SweepOnly`. Deadlines are counters of ticks
left, so that a time value never grows without bound: `left = 0` is "now >=
deadline". Tokens and cursors are numbers in the order they are drawn.
`dispatch.owner` (the token a dispatch was reserved under) is the one field the
code does not have; properties speak of it. On its own, the registry is called
by anyone with any token drawn so far, any cursor published and any phase.

**DeliveryGate.** Two variables, `gate` (open, busy, shut, closed) and `task`.
ActiveRegistry implements it by `GateState` and `GateTask` (property
`KeepsPromise`).

**HandoffStore.** `current`, `history`, `idempotency` and the state of each
client's `wait()`. A publish is one action because the code has no `await` in
it, and is conjoined with the registry's `reserve()` where both are present.
`current.request` and `waits[w].after` are kept for the properties.

**HandoffDelivery.** Instances of both, the service's `publishing` set (between
`assertPublishable()` and the end of `authorize()`), a program counter for each
pump, `late` (requests whose caller has given up), and three histories:
`delivered`, `outcomes`, `reviewed`. A call has three outcomes for its pump:
answered, refused, or failed; a failed one may be handled later or never. An
adapter reports any phase its lifecycle allows, in any order allowed, and
returns or throws at any time. A pump that is aborted fails its next call
before sending it. A reconnect is another pump with an id of its own.

**PreparedChange.** `project` is the content of the user's files, a set of
changes and a number of edits for each; `changes` the private record of each
job's change. What the worktree was made from (`cut`) is kept beside the
baseline hashes (`base`), since the code takes the second later than the first.
An apply and a revert are the same steps with other hashes: comparing, writing,
verifying, each behind an `await`, with `Edit` possible between any two. git is
external: it refuses a patch, writes all files, also over an edit elsewhere in a
file, or ends after some of them.

**AgentJobs.** The table of jobs, each with `status`, where its run is (`run`),
`aborted`, `lease` and the kind of change it prepared. `run = "captured"` is the
stretch after the engine's last look at the signal. `create()` includes the
start of `runJob()`, a microtask later, as no handler can come in between; which
of the prunable jobs goes is left open (the code takes the oldest).

**AskJobs.** A request and its job are one record, since they are made and
forgotten together; `aborted` holds the reason of the first abort, as
`AbortSignal` does. `run` tells which `await` of `run()` it is in.

**WorkspaceSession.** Both managers over the coordinator's one `active`
variable, with the questions closed before the jobs.

**Supervisor.** `queue` is the chain of `serialize()`; its head runs and `step`
says which `await` it is in. `records` are the idempotency records, oldest
first, `results` the results that are kept, `grant` what is on disk; `expired` and
`remembered` are histories of the results removed for their age and of all that
were stored. `getResult()` removes a result it finds too old, which may be any
of them. Operations the
browser did not ask for (the automatic connect of a restart, the one in
`dispose()`) stand in the queue as `StartUp` and `Closing`. The `On...` operators
are the callbacks a connection calls.

**ManagedTurn.** `run` is where the connection's pump is, `turn` where its
delivery is, stage by stage in the order of `deliver()`: prepare, thread,
journal, hooks, turn, audit, validation, apply, cleanup. A stage may fail, hear of
the abort, or be overtaken by the end of the app server (`ServerFails`). What
`deliver()` leaves open the pump reports itself (`run = "reporting"`), and
`turn.outcome` says whether there is anything to report. A run whose lease was lost
meanwhile claims another one, and takes its next turn with the same adapter
(`AfterDelivery`). `unreadable` are the changes whose result could not be stored,
since it did not fit the schema. `journal`
is the file of threads to delete, `threads` those that exist in the app server's
private home, `strays` the ones no journal ever held, since a crash, an
unreadable answer or a failed write came before their id was written down.

**ManagedAgent.** The next-state relation of both, and `Restart`, which comes
after `dispose()` or, as a crash, at any step and leaves only what is on disk.

**PageAgent, PageAsk, PageHandoff.** Each workflow's `let`s, and the requests on
their way: made, served, answered or lost. The server's side is what
AgentJobs and AskJobs let a browser see, cut down to statuses. The workflows'
revision counters are replaced by a mark on each request that says whether it is
still the workflow's. An aborted request that was handed to `fetch` in an earlier
handler may still be served; one aborted in the handler that issued it never
leaves the browser. `consent` is asked for once: it covers all later sendings of
the tab, of an earlier page too, unless the tab cannot store it. `published` are the
revisions in their order, with a mark on those whose request the broker still
remembers; it forgets at any time (`RecordExpires`), and a retry that comes later
makes another revision.

**PageSession.** The selection state machine and the planner over them: what
`close()`, `beginReselect()`, `releaseSelection()`, a new element or the end of the
runtime does to each workflow. `letGo` holds the jobs the page has asked to
cancel when it dropped them.

**NextLaunch.** Each host's request, its memo and its retry; the owner's queue;
the sidecar's session; the child; the command's progress to its return and, after
it, to the end of the process, which the sidecar's server keeps alive until the
session is closed. A session that fails to close, or does not answer, stays
`unclosed`. A configuration is its signature.

## 3. The runs

| Run | Question it answers | Distinct states |
|---|---|---|
| `ActiveRegistry` | Whatever two connectors of two kinds call, in any order and with stale tokens: is every open dispatch owned and settled in the end, every outcome final, every hazard behind a shut gate that can be opened, and does the registry implement DeliveryGate? | 14,828 |
| `HandoffStore` | Can a wake-up get lost, a stale handoff be answered, the newest be forgotten, a retry make a second revision? | 22,815 |
| `DeliverySolo` | One connector, one late request at a time: is anything delivered twice, can a shut gate become permanent, can the holder sleep through its own handoff? | 750,809 |
| `DeliveryTakeover` | A second connector while the first may still write: do writers overlap only after a review, is the outcome shown the agent's? | 954,721 |
| `WorkspaceSession` | Two jobs, a question, two files and a user who edits one: leases, late answers, reverts, pruning, exact outcomes, and is the workspace given back? | 144,244 |
| `ManagedAgent` | Connect, switch, cancel, revoke and their retries over one crash, two turns with one adapter, lost leases: retries, status, threads, results, silence after a stop, and does every operation end? | 966,403 |
| `PageSession` | A page with the agent and questions, and one with the handoff, with lost and late replies: is what is shown current, is what was sent published once and never without consent, do dropped jobs and all questions end? | 597,102 |
| `NextLaunch` | Two hosts, two configurations, time limits, refusals, signals: do the hosts agree, is anything left, does the command return and its process end? | 94,935 |
| `UnprovedPump`, `CancelIgnored`, `StaleBaseline`, `CancelApplies` | expected violations, see section 5 | |

Deadlock checking is off in all of them: a session closes, a command returns, and
the bounds (`MaxTokens`, `MaxRevisions`, `MaxEdits` and the like) stop the system in states where it really would
go on.

### Bounds, and why they are enough

* `MaxTokens`, `MaxRevisions` (2 to 4) bound the leases granted and the handoffs
  published. A property relates at most a dispatch, the lease before it and the
  one after it, or a handoff and its successor, which two or three show.
* `LeaseDuration`, `DispatchTimeout`, `HandoffTtl`, `RequestIdTtl` (1 to 3
  ticks). Only their order matters: in `ActiveRegistry` the dispatch outlives a
  lease that is not renewed and a lease that is renewed outlives the dispatch.
  The store's assumption `RequestIdTtl >= HandoffTtl` is what the constants of
  `shared/src/protocol/external-handoff-constants.ts` satisfy (15 minutes each),
  and `RetryIsReplayed` needs it.
* Pools (`MaxHistory`, `MaxRequestIds`, `MaxReceipts`, `MaxWaiters`,
  `MaxRetained`, `MaxRecords`, `MaxResults`) are smaller than the demand, so that each limit is reached.
* `MaxLate` is the number of requests under way after their caller gave up. One
  in `DeliverySolo`; none in `DeliveryTakeover`, whose two pumps interleave
  instead, to keep the run short.
* `MaxRetained = 1` with two jobs: a second job exists only if the first gives way.
  One file that is edited and one that is not show both a conflict and a patch
  that is written half.
* `ManagedAgent`: two handoffs, so that a turn follows another one of the same
  adapter and, with `MaxResults = 1`, a result gives way to a newer one; each
  restart leaves one handoff less. Two threads and one restart show a thread that is
  left over by the first life and one made in the second. A queue of two operations
  that wait, the automatic and the closing one among them. `CancelApplies` needs one
  thread, one handoff and no restart.
* `MaxQueue` is the bound under which `RetryRunsOnce` holds: the code keeps 64
  records and puts no limit on waiting operations, so that with more than 64 of
  them waiting a retry would run twice.
* `PageSession`: `MaxWork` counts runs, questions and lost replies together, so
  that two runs, a run beside a question, and a run with a loss all occur;
  `MaxCalls` is the number of requests under way when the user makes one more.
  Three request ids for two sendings leave room for one drawn wrongly; two revisions
  (`MaxPublished`) are one of each, or two of one that the broker has forgotten
  meanwhile.
* `NextLaunch`: three requests of two hosts suffice for one that gave up on an
  answer still to come, another one of the same host, and one of the other.
* Symmetry is used over ids only, and in no run with a liveness property.

### Fairness

* `ActiveRegistry!FairSpec`: weak fairness of the clock and of `SweepOnly`, a
  call by anybody. The code has no timer for deadlines: it is the callers that
  notice them. Whenever somebody could be kept waiting, somebody calls: the
  holder's heartbeats sweep while the connector lives, and the status shown to
  a user comes from `snapshot()`, which sweeps. Nothing is assumed of agents or
  of their reports.
* `WorkspaceSession!FairSpec`: weak fairness of each job's run, of each writing
  and of each question. All waits in them end by themselves: provider calls,
  checks and git commands have timeouts, a job has `jobTimeoutMs`, a question
  `jobTimeoutMs` and its admission `capabilityTimeoutMs`. No fairness of users:
  a change may wait for its review for ever, and the property says so.
* `ManagedAgent!FairSpec`: weak fairness of the operation that has begun, and of
  the turn and the end of a pump that has been aborted. Requests to the app
  server, git commands, checks and the turn itself have time limits, and the
  stop of the app server ends in a kill. Nothing is assumed of the browser, the
  broker or what Codex answers.
* `PageSession`: weak fairness of the server's jobs and questions, of the
  cancellation that a dropped job is sent, and of a question's own requests. The
  user need not do anything. Where a reply is lost, the page hears of an error.
* `NextLaunch`: a killed child ends, the timer that kills it fires, the canary
  ends by its abort or its timeout, the sidecar and the command go on. A session
  that is being closed is closed or counts as `unclosed`, for which nothing is
  promised but the return. Next itself need not listen to a signal, nor need a host
  ask.

## 4. What is proved

Every invariant and every action property that a passing run checks, and the
refinement of DeliveryGate, is a theorem about all values of the constants: any
numbers of connectors, jobs, files, questions, threads, hosts and pages, any
durations, any bounds.

| Module | Theorem | States |
|---|---|---|
| `ActiveRegistryProofs` | `RegistryInvariantHolds` | the inductive invariant |
| | `TypeCorrect` | `TypeOK` |
| | `OpenDispatchAlwaysOwned` | `OpenDispatchIsOwned` |
| | `ShutGateAlwaysResolvable` | `ShutGateIsResolvable` |
| | `OutcomeFinal` | `OutcomeIsFinal` |
| | `HazardAlwaysShutsGate` | `HazardShutsGate` |
| | `RegistryKeepsPromise` | `KeepsPromise`: the registry implements DeliveryGate |
| `HandoffStoreProofs` | `StoreInvariantHolds` | the inductive invariant |
| | `TypeCorrect` | `TypeOK`, the limits of the pools included |
| | `HandoffNeverMissed` | `NoHandoffIsMissed` |
| | `NewestAlwaysKnown` | `NewestIsKnown` |
| | `RetryAlwaysReplayed` | `RetryIsReplayed` |
| | `AnswersAlwaysNew` | `AnswersAreNew` |
| `HandoffDeliveryProofs` | `DeliveryInvariantHolds` | the inductive invariant |
| | `HandedOverAtMostOnce` | `AtMostOnce` |
| | `WritersNeverOverlapUnreviewed` | `WritersOverlapOnlyAfterReview` |
| | `OutcomeAlwaysTheAgents` | `OutcomeIsTheAgents` |
| | `UnprovedAlwaysReviewable` | `UnprovedIsReviewable` |
| | `HolderAlwaysWoken` | `HolderIsWoken` |
| | `RegistryIsUsedAsSpecified` | every behaviour is one of ActiveRegistry |
| | `DeliveryKeepsPromise` | every behaviour is one of DeliveryGate |
| | `ConnectorsGetTheNewest` | HandoffStore's `AnswersAreNewStep`, of the delivery |
| `WorkspaceSessionProofs` | `SessionInvariantHolds` | the inductive invariant |
| | `TypeCorrect` | `TypeOK` |
| | `OneActivityAtATime` | `OneActivity` |
| | `CancelledAlwaysLeavesNothing` | `CancelledLeavesNothing` |
| | `AppliedAlwaysKept` | `AppliedIsKept` |
| | `OutcomeAlwaysExact` | `OutcomeIsExact` |
| | `AskedFilesAlwaysStandStill` | `AskedFilesStandStill` |
| | `CancelledAskAlwaysSilent` | `CancelledAskIsSilent` |
| `ManagedAgentProofs` | `ManagedInvariantHolds` | the inductive invariant |
| | `TypeCorrect` | `TypeOK` |
| | `RetryNeverRunsTwice` | `RetryRunsOnce` |
| | `StatusAlwaysTrue` | `StatusIsTrue` |
| | `AlwaysCleanBeforeWork` | `CleanBeforeWork` |
| | `ThreadsAlwaysKnown` | `ThreadsAreKnown` |
| | `AppliedAlwaysRemembered` | `AppliedIsRemembered` |
| | `StoppedAlwaysSilent` | `StoppedIsSilent` |
| `PageSessionProofs` | `PageInvariantHolds` | the inductive invariant |
| | `TypeCorrect` | every variable has its type |
| | `ShownAlwaysOfThisRun` | `ShownIsOfThisRun` |
| | `SentAlwaysPublishedOnce` | `SentIsPublishedOnce` |
| `NextLaunchProofs` | `LaunchInvariantHolds` | the inductive invariant |
| | `HostsAlwaysAgree` | `HostsAgree` |
| | `NothingIsEverLeft` | `NothingIsLeft` |

### What the proofs assume

The named assumptions of the modules, and nothing else: null values are no members
of the sets they stand beside, bounds are natural numbers, durations and the sizes
that must hold one element are positive. Three say more:

* `StoreAssumption`: `RequestIdTtl >= HandoffTtl`, as in
  `external-handoff-constants.ts`. Without it `RetryIsReplayed` is false.
* `ManagedAssumption`: `MaxQueue \in 1 .. MaxRecords`, the bound under which the
  code's unlimited queue is safe (section 3). Without it `RetryRunsOnce` is false.
* `DeliveryAssumption` is the conjunction of those of registry and store.

No fairness is assumed, since all of this is safety.

### The inductive invariants, and why they are needed

* **Registry.** `OpenDispatchIsOwned` alone is not inductive. `resolveDelivery()`
  opens a gate, and a claim could then be granted under an old token or behind a
  dispatch that is still open, unless a shut gate is known to stand over a settled
  dispatch with no lease behind it, tokens in use to have been drawn, a dispatch's
  cursor to have been published, and a closed registry to be empty.
  `RegistryInvariant` adds exactly these. Nearly every handler begins with a sweep
  and a sweep may end the lease, so the lemmas on these two carry most of the
  weight. The refinement needs the invariant on both sides of a step (`GateState`
  depends on whether the new dispatch is open).
* **Store.** `HistoryIsInOrder` says that what is on offer is newer than all of
  the history, and that the head of the history is the newest revision when
  nothing is on offer: this makes `NewestIsKnown` survive `archive()` and the
  trimming to `MaxHistory`. `OfferIsRecorded` ties the remaining time of the
  request's record to that of its handoff, which a tick lowers together.
  `PoolsAreFinite` is there because cardinalities mean nothing otherwise.
* **Delivery.** `DeliveryInvariant` contains those of registry and store. Four
  facts carry the rest. A pump keeps to its lease (`KeepsItsLease`): if the lease
  in force has its token, the lease is its own. The dispatch is the newest handoff
  (`DispatchIsNewest`) and newer than the cursor of the pump that waits for it.
  An open dispatch that was handed over is in the hands of the pump that holds the
  lease, or that pump will never deliver again (`DeliveriesAreCounted`); without
  the second half a connector that gives up after `offered` would break it. A
  report that is handled late is sound (`IsSound`): it is the agent's own, or
  about a handoff nobody was or will be handed. `WritersAreWatched` then says of
  each agent that may still write that its delivery is the newest, open or behind
  the gate, or was reviewed.
* **Workspace.** `RunFits` and `ChangeFits` tie where a job's run is to the status
  it shows and to how far its change has come; `LeasesFit` ties the leases to the
  coordinator's one activity; `ContentsFit` relates what the worktree was made
  from, the baseline hashes and the project by the user's edits. Edits are only
  ever added, so a comparison that finds the baseline unchanged at the end proves
  that nothing came in between: that is why `OutcomeIsExact` holds although the
  baseline is taken late (finding `StaleBaseline`).
* **Managed agent.** In five parts which are proved apart (`StepOfRun`,
  `StepOfThreads`, ...). The queue of operations is a suffix of the records
  (`QueueFits`), hence a record in use is never the one that is dropped. `RunFits`
  says that a pump without a connection has an operation waiting for its end.
  `ThreadsFit` says what the journal holds at each stage of a turn, crashes included:
  it is empty while a run claims, waits or reports, unless the run was aborted or its
  app server is gone, which keeps `CleanBeforeWork` from one turn to the next of
  the same adapter. `MemoryFits` says that what is kept lies as far from the end of
  what was stored as from its own, or further, so that removing an old result from
  the middle lets no newer one go.
* **Page.** Each workflow keeps its own part: a request that is not disowned is
  about the latest run or question (`AgentFits`, `AskFits`); of all requests to
  publish, those on their way, published, or kept for a retry, no two are for one
  sending, and there are none without consent (`HandoffFits`); a request makes a
  second revision only when the record of the first is gone (`OneRecord`). The page's own steps are made of the workflows',
  which `PageStepOfHandoff`, `PageStepOfQuestions` and `PageStepOfAgent` show.
* **Launch.** A configuration is accepted once and is then being activated, has
  failed or was acknowledged (`ActivationIsOnce`); only an acknowledged one
  answers a host; the sidecar closes after the activation it waits for, and the
  process ends after the session (`ActivationIsAwaited`).

### How the proofs are laid out

One lemma per handler, or per group of handlers that touch the same variables,
shows that it keeps the invariant; `NextInvariant` or `StepKeepsInvariant` puts
them together; the theorem follows by temporal reasoning. Steps that behave alike
share a statement that says what matters of them: the lemmas `JobMoves` and
`AskMoves` for any step of one job or question, the predicates `QueueMoves` and
`TurnMoves` for the managed agent, `HandoffMoves` and `QuestionsMove` for the
page, `Moves` for the registry in use.

HandoffDeliveryProofs reuses the two proofs it composes through `INSTANCE` (`RP`,
`SP`): `SameRegistry` and `SameStore` identify the instances, `RegistryStep` and
`StoreIsUsed` show every step of the delivery to be one of the registry, and one
of the store or the end of a wait whose client has gone.
`RegistryIsUsedAsSpecified`, `DeliveryKeepsPromise` and `ConnectorsGetTheNewest`
are what this gives beyond the properties of the runs: the service and the broker
never use the registry in a way its own specification does not foresee, and what
is proved of registry and store alone holds between the two processes. For the
pumps' part, lemmas of the name `...Moves` show that no step of the registry opens
or reopens a dispatch, and those of the name `...Follows` that a step of a pump
also keeps to its own lease, delivery and reports (`Follows`); the
`FollowsKeeps...` lemmas show that any such step keeps each part of the invariant.
Three steps do more and are proved apart: the offer to the adapter, which counts a
delivery; the end of a publication, which reserves the next dispatch; and closing.

### What is only model-checked

* `DispatchSettles`, `WorkspaceIsFreed`, `OperationsEnd`, `DroppedJobEnds`,
  `QuestionEnds` and `InterruptReturns`: liveness under fairness, and ENABLED, are
  out of the prover's reach. The invariants they rest on are proved.
* The four runs that expect a violation.

No proof rests on a recursive definition, and there is none in the modules.

## 5. Findings

* **`UnprovedPump`.** `docs/技术方案/外部Agent连接/08-测试验收与实施计划.md:195`
  says that after an unproved delivery the pump stops. When the pump reports
  `delivery-unknown`, the registry takes the lease away; a heartbeat sent at
  that moment is refused, and its error replaces the run's at
  `event-pump.ts:341`, so that the pump claims again. The gate is shut, so no
  second delivery comes of it.
* **`CancelIgnored`.** `docs/技术方案/12-测试与验收.md:158` says that cancelling
  the agent leaves the business workspace unchanged. Between the engine's last
  look at the signal and the end of the worktree's removal a job still shows
  `validating` and accepts a cancellation; `runJob()` does not look at the
  signal after its `await`, and applies the change in `auto` and `trusted-auto`
  mode.
* **`StaleBaseline`.** `docs/技术方案/16-AIAgent执行与变更审阅.md:226` says that
  an apply confirms the touched files to be those of the isolated baseline and
  that any concurrent change makes it fail. `execute-agent-change.ts:385-388`
  takes the baseline hashes from the project when the run is over, so that an
  edit saved during the run is taken for the baseline. The comparison passes, git
  writes over the edited file wherever its hunks fit, and the hashes afterwards
  differ: the job ends as failed, its files changed, with nothing to revert it by.
* **`CancelApplies`.** `docs/技术方案/外部Agent连接/10-连接生命周期执行契约与产品收敛.md:623`
  says that a cancelled managed task is never applied, and
  `04-交接模型与本地协议.md:195` that a task that has ended is refused.
  `cancel()` compares only the revision, and an apply under way is waited for, not
  stopped: the task is shown as cancelled over a changed project.

What the models show besides, without a run of its own:

* Page: `close()` empties the panels while the workflows keep their job. Reopened,
  the page shows no Apply, Discard or Revert and ignores Run. The panels share one
  lock of editing, so that a question refused because a job runs unlocks the
  editing; the last target can then be removed and the job is dropped without a
  cancellation. A context that arrives while the planner is closed leaves its
  target loading. `dispose()` of the question workflow cancels by a request that
  the same handler aborts. A creation under way when the selection is dropped
  leaves its job with nobody; its id is not known yet. A publication that is
  repeated after a failure carries the annotation it was first made with; repeated
  after 15 minutes it makes a second revision, since the broker has dropped the
  record of the first.
* Managed agent: after a revocation that fails `disconnect()` publishes nothing,
  so that the old status stays (`StatusIsTrue` excepts it); a grant that cannot be
  touched (`supervisor.ts:565`) leaves an app server nobody owns; an app server that
  ends while idle is not noticed. A change may be written whose result is then refused
  by the schema of results: the task is shown as failed, and its diff is not kept.
* Change: a revert that fails after git has written leaves the files as they are
  with its state `applied`. `close()` does not wait for a user's apply or revert.
* Next: a second signal of the same kind, or one while the command closes, kills
  it at once, since the handlers are `once`; the activation that failed is
  remembered and answered again; the refusals of a canary, a time limit or a
  failed sidecar send SIGTERM with no SIGKILL behind it. The five seconds of
  `closeSidecar()` end the command's wait only: a session that cannot be closed
  leaves the sidecar's server open, and the process stays until a second signal.

## 6. What is not modelled

* The lists in `PROJECT.json` name each component and why. In short: rendering,
  prompts, collectors and localisation; static analysis and source markers
  (pure functions over syntax trees); HTTP routing, options and schemas; build
  plugins and installers.
* Of the modelled components: snapshots and their size limits, fingerprints,
  wall-clock timestamps, event logs and their listeners, discovery of several
  sessions, `start()` of the service, answers' projection, tool and provider turns.
* Of the managed agent: the direct adapter of Codex, the model catalogue,
  Windows.
* Of the page: preview and Back, a reload with its saved session, data-flow
  reports, polls of the handoff's status, the control panel of the managed agent.
* Of the launch: exit status, malformed messages, registration of sources.
* The transaction by which an initialiser changes several files
  (`dev-server/src/integration/file-plan.ts`), the descriptor file and discovery.

## 7. Plan

Done: survey; DeliveryGate, ActiveRegistry with its theorems; HandoffStore;
HandoffDelivery; PreparedChange, AgentJobs, AskJobs, WorkspaceSession;
Supervisor, ManagedTurn, ManagedAgent; PageAgent, PageAsk, PageHandoff,
PageSession; NextLaunch.

Theorems: every safety invariant and action property of the passing runs, the
inductive invariants they follow from, and the delivery's use of the registry and
of DeliveryGate (section 4).

Left to do, in this order:

1. Proofs: an abstract specification of the coordinator (free, asked about, changed
   by one job) with WorkspaceSession shown to implement it, as DeliveryGate is for
   the registry; another of what a supervisor promises its page, for ManagedAgent.
2. Models: the initialisers' file plan with its rollback; discovery of sessions and
   stale descriptors (`bridge/src/client.ts`); the tool loop with its limits and
   cached checks.
