# HiveSwarm, in TLA+

HiveSwarm runs an evaluation as a tree of agent runs. An API process keeps one
*dashboard* per project and changes it in atomic mutations; a request to
orchestrate asks a model, turn by turn, which agents to start; an execution driver
turns admitted runs into jobs; a worker turns jobs into containers, whose output
comes back to the API as callbacks; a browser console displays snapshots and
sends the operator's commands. Beside it the repository carries a design skill
whose live mode is a small distributed system of its own: an overlay in a page, a
helper process, and coding agents that poll it. This directory holds TLA+ modules
for the parts of both where order matters, the TLC configurations that check them,
and TLAPS proofs. `PROJECT.json` maps every definition to the lines it translates.

    tlasany M.tla            parse a module
    tlc -config X.cfg M      check a run (see the table of runs)
    tlapm M.tla              prove M (SequenceFacts, OrchestratorProofs,
                             ExecutionProofs, StoreProofs, EvaluationProofs,
                             ConsoleProofs, LiveProofs, CopyEditsProofs)

## Inventory

| Component | State | Operations | What makes it correct |
|---|---|---|---|
| Orchestrator service (`apps/api/src/orchestrator.ts`) | the dashboard: run status, agent runs, approvals, scope rules, metrics | `spawn`, `decideApproval`, `ingest`, `complete`, `terminate`, `setRunState` | nothing executes unauthorised; ended stays ended; waiting implies a pending question; counters fresh; recursion bounded |
| Policy engine (`policy.ts`) | none | `evaluate` | deny over allow; depth; declared and gated capabilities |
| Execution drivers (`executor.ts`) | BullMQ queue of executions, queue of control commands | `dispatch`, `terminate`, `controlRun` | an admitted run gets a job once; a terminated one loses it |
| Worker (`apps/worker/src/worker.ts`) | jobs claimed, containers, callback chain | claim, run, report, control | every exit reported after its events; slots freed |
| State store (`store.ts`) | snapshots, active project, audit trail | `mutateDashboard`, `saveDashboard`, `setActiveProject`, `initialize`, `appendAudit` | a mutation is atomic, happens at most once, is not lost when confirmed; every call ends |
| Project and scope rule routes (`server.ts`) | none of their own | create and activate a project, add and remove rules | the active project exists; an allow rule always remains |
| Agent registry (`registry.ts`) | manifests by id and version | install, list, get | the newest enabled version |
| Orchestration loop, model provider, planner (`orchestration-loop.ts`, `model-provider.ts`, `planner.ts`) | turn and spawn counters of one request | run | bounded turns and agents; a true account of what was started |
| Event bus (`events.ts`) | subscriptions | publish, subscribe | events reach the subscriptions of their run |
| Console client and hook (`workspace-client.ts`, `use-project-workspace.ts`) | generation, loads, commands, snapshot, subscription | load, subscribe, execute, render effects | no stale snapshot; one refresh at a time; the last update is shown |
| Live helper (`live-server.mjs`, `poll-lanes.mjs`) | queue of events, leases, waiting polls | `POST /events`, `GET` and `POST /poll`, restart | an event goes to one agent at a time and leaves the queue; an answer of the user is carried out |
| Live journal (`session-store.mjs`, `vocabulary.mjs`) | one snapshot per session | append, replay | what is pending survives a restart; late events are ignored |
| Live overlay (`live-browser.js`) | state of the session on the page, requests in order | Go, accept, discard, reload | only other projects' sessions are given up |
| Live poller (`live-poll.mjs`) | none | poll, carry out accept and discard, reply | - |
| Copy edits (`manual-apply.mjs`, `manual-edit-routes.mjs`, `manual-edits-buffer.mjs`, `live-commit-manual-edits.mjs`) | buffer, transaction file, commits, apply events | save, commit, keep fixing, roll back, discard, reply, timeout, recovery | what leaves the buffer is in the source; what is applied stays; an answer accounts for what a commit left in the source |
| Execution plan (`execution-plan.ts`) | none | compile a run to container options | - |
| Evidence and report (`contracts/evidence.ts`, `report.ts`) | none | graph projections, Markdown | walks are bounded and complete up to their bound |
| Agent runtimes (`agents/`) | inside a container | emit events, exit | - |
| Views, seed, config, ids, schemas; the skill's detector, hooks and source rewriting | - | - | not part of the control |

How they interact. A request enters a route, which calls the orchestrator. The
orchestrator changes the dashboard in one mutation and *afterwards*, in the same
handler but in separate awaits, calls the driver, writes the audit log and
publishes an event. Between those awaits any other handler may run, any of the
calls may throw, and the process may stop. The worker learns of a run from its
job, of a pause or a termination from the control queue, and answers with HTTP
callbacks that come back as `ingest` and `complete`. The console learns of
changes from the event stream and fetches a whole snapshot each time.

In live mode the overlay posts an event for each click of the user. The helper
appends it to the session's journal, queues it, and hands it to the first agent
that polls, under a lease. The agent edits the source and replies; the helper
acknowledges the event, journals the reply and broadcasts it to the page. Copy
edits go another way: they are staged in a buffer file, and committing them makes
the helper wait, inside the route, for an agent's reply to an apply event.

What is hard, therefore: handlers interleaved after their mutations; a stop in
the middle of one; late, repeated and reordered callbacks; three records (run,
agent, approval) that several handlers update separately; snapshot loads that
overtake each other; mutations of one row from several connections; a queue, a
journal and a page that each believe to know the state of a session; files that
agents edit while the helper snapshots and restores them. `PROJECT.json` lists
these hazards one by one at the lines where they bite, with the properties that
cover them.

## Modules

| Module | What it is |
|---|---|
| `Orchestrator`, `MCOrchestrator` | one run's dashboard, the handlers with their calls after the mutation, both drivers, the scope rule routes; its small instances |
| `OrchestratorProofs` | theorems about `Orchestrator` |
| `Execution`, `MCExecution` | the queue driver's jobs, the worker in Docker mode, its containers, the control queue, and the API's handlers as far as they meet them |
| `ExecutionProofs` | theorems about `Execution` |
| `StoreData`, `AtomicStore` | the data of the state store, and what it promises its callers |
| `Store` | both drivers of the store; its property `IsAtomic` is the refinement of `AtomicStore` |
| `ScopeRules`, `Workspace`, `MCStore` | the scope rules and their mutations; `Store` with them as its data; the small instance |
| `StoreProofs` | the refinement, for every value of the constants, and what the routes get from it |
| `Evaluation`, `MCEvaluation` | the orchestration loop, both providers, the registry |
| `EvaluationProofs` | theorems about `Evaluation` |
| `Console`, `MCConsole` | the workspace client and its hook, with an abstract API |
| `ConsoleProofs` | theorems about `Console` |
| `LiveJournal` | what a session's journal remembers |
| `LiveSession`, `MCLive` | overlay, helper and agents over one session or two |
| `LiveProofs` | theorems about `LiveSession` |
| `CopyEdits`, `MCCopyEdits` | buffer, transaction, commits, repairs, recovery |
| `CopyEditsProofs` | theorems about `CopyEdits` |
| `SequenceFacts` | lemmas on sequences that the proof modules cite |

### Orchestrator

*State.* `runStatus`, `agents`, `approvals`, `scopeRules`, `metrics` are the
dashboard (`engagement.status`, `agents`, and so on). Agent runs and approvals
are identified by position, because the code only ever appends them and never
removes one. `calls[r]` is what request `r` has still to do after its mutation:
the loop of dispatches, the control command, the driver's terminate, or the
spawn half of a spawn request. `waiting` and `claimed` are the jobs in the queue
and the executions the worker has started. `failures` counts handlers cut short.

*Actions.* One per mutation or call, named after the code: `Spawn`
(`spawn`), `DecideProposal` and `DecideAgent` (`decideApproval`, by the two
branches of line 86), `IngestEvidence`, `IngestScopeProposal`,
`IngestSpawnRequest` with `SpawnChild` and `RejectChild` (`ingest`, which for a
spawn request is two mutations), `Complete`, `Terminate` with
`TerminateExecution`, `SetRunState` with `ControlRun`, `StartQueued` and
`Dispatch`, `AddScopeRule`, `RemoveScopeRule`, `Claim`. A mutation is atomic
because `mutateDashboard` is. `refreshMetrics` is part of every mutation that
calls it, and absent from `SetRunState`, where the code does not call it.
`Fail(r)` throws away the rest of one handler, `Crash` that of all of them; the
dashboard and the queue survive, as PostgreSQL and Redis do. A handler whose
mutation throws changes nothing and is no action.

*Abstraction.* Targets and boundaries are related by a constant `Covers`, for
`ruleMatches`. A spawn request is its target and its capabilities. Evidence is
only the fact of a report. A worker may post any event for a started execution
at any time and report any exit any number of times, which covers retries and
late callbacks. An operator and the worker are unconstrained: nothing happens
only because it is convenient.

### Execution

`Orchestrator` collapses everything behind the queue into "a started execution
may post anything, any time". `Execution` opens that up, and in turn collapses
what is in front of it: runs are born queued, with the `dispatch` of their spawn
still to come, and approvals do not occur.

*State.* `status` is the API's status of each run; `due`, `terminating` and
`orders` are the calls its handlers still have to make (dispatches, the steps of
a terminate, the steps of each pause and resume). `job`, `waitList` and `control`
are BullMQ's: the job kept under the id of each run, with the attempts made of
it, the waiting jobs in order, and the control commands nobody took yet. `stage`
and `chain` are the local state of `executeContainer` for each run: how far the
attempt has come, and how many events its callback chain still has to post.
`handling` holds the control commands under way, each with the containers it
listed and the one it inspected. `containers[a]` are all containers ever made
for run `a`, by age. `refused` are the runs of which an event was not accepted.

*Actions.* `Dispatch`, `LookAtJob`, `RemoveJob` and `PostTerminate` are the calls
of `QueueExecutionDriver` (terminate is three round trips to Redis, so it is
three steps); `Terminate`, `SetRunState` and `StartQueued` are the mutations
before them. `Claim`, `Create`, `Start`, `Write`, `PostEvent`, `Report` and
`Remove` follow `executeContainer` from await to await. `FailCall`, `FailReport`,
`FailWait` and `LoseEvent` are its calls that throw: the first three end the
attempt, the last one is caught at line 73 and only logged. A report that fails
may have been handled by the API all the same. `FailWait` (line 86) leaves the
container running behind a failed attempt and is therefore counted in `stops`,
with the stops of the worker, not in `errors`. `Take`, `List`, `Inspect`, `Act` and `Done`
follow `controlContainers`. `Exit` is a container that ends by itself,
`StopWorker` the worker process that does.

*Abstraction.* Only the worker's Docker mode; the simulated one creates nothing
to control. A line of output is a count, and a second attempt
waits for events of the first that are still to be posted (only a broken wait can
leave any). The loops over the runs of a resume and
of a control command visit them in any order. BullMQ and Docker are external,
and modelled as the code relies on them: adding a job under an id that is still
kept does nothing; removing a job that a worker has locked throws; a job whose
worker vanished is waiting again once, and failed the second time; finished jobs
are kept (the code keeps the last 500 completed and 1000 failed ones); pausing or
unpausing a container in the wrong state throws, stopping one is harmless; a
stopped container may end with either result.

### Store and Workspace

*State.* `driver` is the one the configuration names. `boards`, `active` and
`audit` are the content: dashboards by project, the active project, the audit
trail. `stage[c]` is how far each call has come. `tail` is `MemoryStore`'s chain of
promises. `waiters`, `target`, `holder` and `copy` are `PostgresStore`'s pool
queue, the row a transaction found, the row locks, and the payload it read.

*Actions.* `Chain` and `MutateMemory` are the two halves of `MemoryStore`'s
`mutateDashboard`, before and after `await previous`. `Connect`, `Begin`, `Find`,
`Lock`, `Update`, `Commit`, `Return` and `Rollback` are the statements of
`PostgresStore`'s; `Find` and `Lock` are one `SELECT ... FOR UPDATE`, whose WHERE
clause is evaluated again when it had to wait. `Save`, `Check` and `Activate` are
the single statements that create and activate a project, `Audit` the record each
route ends with. `StatementFails`, `QueryFails`, and the outcomes "unsure" and
"lost" are errors before and after the effect. `Stop` ends the process; `StartMemory`,
`LookForRows`, `SeedRows` and `ChooseActive` are `initialize`.

*Abstraction.* A mutation is three operators: whose dashboard it is for
(`Belongs`), when its callback throws (`Throws`), and what it makes of the dashboard
(`Result`). `AtomicStore` has the same three and no drivers. `Workspace` fills them
with `ScopeRules`: adding and removing rules by project, touching an agent by its
id. Manifests have a table of their own and are in `Evaluation`. Two API processes
on one database are not modelled.

### Evaluation

*State.* `packages` is the registry's table, `runs` the agent runs of the project
in order, `at` and `turn` where each request is. `calls` are the model's tool calls,
or the plan's steps, still to be carried out. `started` is the provider's counter
and `reported` the loop's list: the two accounts of what a request started.

*Actions.* `Begin`, `Answer`, `AnswerInText`, `NoAnswer` and `TurnEnds` are a turn
of `model-provider.ts`; `Drop` and `FinishCalled` the calls that start nothing.
`Spawn`, `Admit`, `Refuse`, `Announce` and `AnnounceFails` are the orchestrator's
`spawn` between its awaits: the registry is read, the mutation admits the run or is
refused, and the audit record or the dispatch may throw although the run is there.
`Install` replaces a package, `Stop` ends the process and installs the shipped
packages again.

*Abstraction.* The policy's verdict is a choice between `Admit` and `Refuse`; a
version is a number; a tool call is the id it asks for, or that it is of no use.

### Console

*State.* `generation` and the set `loads` are `WorkspaceClient`; a load carries
the generation it took, the project it asked for, whether the subscription
awaits it, and the API's answer once there is one. `stream` is the closure of
`subscribe` (timer, refreshing, dirty) with the notifications under way.
`commands` are the calls of `execute`. `shown` is the dashboard on screen. Of
the API there are `active` and a version number per project.

*Actions.* `Reply`, `Show`, `Discard`, `FailLoad` for load and refresh;
`RunEffect`, `Connect`, `Disconnect` for the subscription; `Schedule` and `Fire`
for its timer; `Issue`, `Handle`, `Return`, `FailCommand` for execute; `Change`
for everything other actors do. React runs the effect some time after the render
that changed the project, which is why `RunEffect` is a step of its own.

### Live mode: LiveJournal and LiveSession

*State.* `view`, `current`, `awaiting`, `gate`, `capturing`, `linked` and
`abandoned` are the overlay's; `requests` are its messages on their way. `journal`,
`queue` and `parked` are the helper's: a snapshot per session, pending events with
their leases, polls that wait. `agent[a]` is what each agent holds, and whether its
lease is still valid. `written` are the sessions whose variants are in the source.

*Actions.* `Go`, `Captured`, `VariantsArrive`, `Answer`, `MountFails` and `Reload`
are the page. `Checkpoint`, `PostEvent`, `OrphanedDiscard` and `Refused` are the
handler of `POST /events`. `Poll`, `PollTimesOut`, `Scaffolded` (the second half of
`leaseEvent`, after its await), `LeaseExpires` and `Reply` are `/poll`. The loop of
`flushPendingPolls` is one operator, `Serve`: the poll at place k takes the available
event of rank k in the order of `selectAvailablePendingEvent`. `Bounce` is a published
component that does not compile: its event is acknowledged, and with it goes the lease
of whoever had it (`Revoked`). `Crash` is an agent that vanishes, `Restart` the helper.

*Abstraction.* What the helper broadcasts reaches the page in the same step. Phases
that nothing tells apart are one ("open"). An agent's work is any outcome. One variant
of a session reports that it does not mount, so that an event is told by its session
and its type (the code queues such a report once per variant). The
poller's automatic handling of an accept or discard is the only one that names the
event it replies to, as in the code.

### CopyEdits

*State.* `staged` is the buffer, `source` the text of each element in its file,
`transaction` the transaction file. `commit[c]` are the local variables of the
commit route while it waits: batch, snapshot, chunks to do, what is reported so far.
`work` are the apply events. `told` is what the page was last told is applied; it is
the page's memory and never read by an action.

*Actions.* `Save`, `Commit`, `KeepFixing`, `Rollback` and `Discard` are the routes,
`Timeout` the hard timeout of an event, `Restart` the helper with its recovery.
`Take`, `Write`, `Reply` and `StaleReply` are the agents: they write any text they
were given, or get it wrong in any way, and report anything about it. Between two awaits the
helper does everything in one turn; so `Reply`, `Timeout` and `Discard` include all
the commit does until it waits for the next chunk or repair, or returns.

*Abstraction.* A text is the number of its save, or `Broken`, which stands for the
texts that the checks of a file reject (syntax, markers), or `Wrong`, which stands for
all others that are nobody's edit: a typo, half an edit, another sentence, which no
check tells from a good text. The code looks for the new text within a line; a line
that has it and more counts as the text. `commit[c].files` of a commit that returned
are the files that its answer names. Texts are never deleted: the page refuses an
empty one (`live-browser.js:3735`) and never sends the `deleted` that
`event-validation.mjs:88` would accept. Only the chat provider
(an agent that polls), not the subprocess runners. A reported result that is "done"
is treated like a partial one without failures, and of an error only the files
count, as the code does. The page offers Apply, Keep fixing and Roll back only while
nothing is being applied, and no page is applied from two tabs at once: `NoneOn`.
In the instance the two pages are in different files. An agent interrupted by a
restart writes no more. Left out: a second lease of the same event, the command-line
discard, the scrubbing done by an accept, the overlay's dock.

## Runs

| Run | Instance | Question |
|---|---|---|
| `orch_approvals` | queue driver, 2 agents, 2 approvals, 2 requests, 1 failure, rules added and removed | `QueuedIsAuthorised`, `NobodyWaitsForNothing`, `OnlyDecisionReopens`, `ScopeGate`, `TypeOK`: whatever the order of decisions, pauses, reports and terminations, is everything that can execute authorised, is nobody forgotten, does what ended stay ended? |
| `orch_simulated` | simulated driver, 3 agents with the orchestrator, depth up to 2, 1 approval | does the second mutation of this driver keep `MetricsFresh`? |
| `orch_live` | queue driver, 3 agents with the orchestrator, depth up to 1, fair handlers, nobody terminates | do spawn requests of agents keep `LineageSound`? A child at depth 2 is asked for and refused. `StartingIsLaunched`: what resume takes to starting reaches the queue |
| `exec_worker` | 1 run, 2 attempts, 1 pause or resume, 2 failed calls, 1 stop of the worker, a terminate at any moment | `CompletedIsReported`, `EvidenceBeforeExit`, `LiveIsWatched`, `DispatchedOnce`, `TypeOK` |
| `exec_slots` | a task and a session for 1 slot, 2 failed calls, fair | `JobSettles`: failed and retried jobs give their slot back, and every waiting task is settled |
| `store_drivers` | both drivers, a pool of 2, 3 mutations of 2 projects, 1 creation, 1 activation, 1 error, 1 stop, fair | `IsAtomic`, `ActiveExists`, `LastAllowKept`, `TouchesItsProject`, `EveryCallEnds`, `TypeOK` |
| `evaluation` | 1 request, 2 turns, 2 agents, 2 calls per answer, 1 run of somebody else, 1 error or stop, fair | `LimitKept`, `OutcomeIsTrue`, `OnlyWhatWasOffered`, `EveryRequestEnds`, `TypeOK` |
| `console_live` | 2 projects, 2 commands, 1 failure, fair | `OneEventRefresh`, `NeverBackwards`, `FinalUpdateShown`, `TypeOK` |
| `live_session` | 1 session, 2 agents, 1 agent that vanishes, restart or broken preview, fair | `OneWorker`, `NoPollWaitsBesideWork`, `AnsweredIsRetired`, `AnswerNotSwallowed`, `EveryEventEnds`, `TypeOK` |
| `copy_edits` | 3 texts on 2 pages, 2 saves, 2 commits in chunks of 1, 1 repair, 1 stop or late act, fair timer | `ClearedIsWritten`, `AppliedStays`, `FirstPassAnswersForAll`, `EveryCommitEnds`, `TypeOK` |
| `exec_terminate` | violation | `TerminateStops` |
| `live_go` | violation: a new session beside one of another project | `OnlyForeignAbandoned` |

*Bounds and why they are enough.* `MaxAgents`, `MaxApprovals`, `MaxFailures`,
`MaxLines`, `MaxOrders`, `MaxErrors`, `MaxStops`, `MaxVersion`, `MaxCommands`,
`MaxCalls`, `MaxOthers`, `MaxSaves` and `MaxFaults` bound counters that only grow
(or, for `MaxLines`, a chain that can grow).

- Orchestrator: two requests in flight give every race of two handlers. Three
  agents, the orchestrator included, give two siblings, or a child that asks for a
  child of its own: with `MaxDepth` 1 (`orch_live`) that one is a level too deep, so
  the limit is met and not only approached; with `MaxDepth` 2 (`orch_simulated`) it
  is created. `LineageCorrect` holds for every limit.
  Two approvals on one agent give a decision that is not the last one.
  The two targets are one inside and one outside the initial scope, with
  overlapping allow and deny boundaries.
- Execution: the safety properties relate one run to its own job, containers and
  commands, so one run is enough for them: runs meet only in the slots, in the
  order of the wait list and inside one command. `exec_slots` has the two runs
  that compete for a slot. Two attempts are what the code configures; two failed
  calls use both up; one stop gives an attempt next to a container that was left
  behind.
- Store: two calls that remove the last two allow rules at once, a third that is
  addressed to an agent of a project that is being created meanwhile, and a pool of
  two for three mutations, so that one of them waits. The theorems hold for any
  number.
- Evaluation: two calls in each of two turns reach each limit before and after the
  other; one error is one run in neither account.
- Console: two projects give a switch, two commands a command that overtakes
  another.
- Live mode: one session has every event type in the queue at once, and sessions
  share nothing but the queue's order; two agents give a lease that passes from one
  to the other. `live_go` needs a second session as the foreign one.
- Copy edits: two texts of one file and chunks of one give a chunk that succeeds
  before one that fails; a second page gives a transaction that is overwritten. One
  fault is a restart, or an agent that writes or replies once after its commit gave
  up on it; an agent that is given up when no fault is left is not remembered.

Requests are symmetric in `orch_approvals` and `orch_simulated`; no liveness run uses
symmetry. Deadlock is not
checked: a run whose bounds are used up, an evaluation whose work is done, or a
console with nothing to do, rightly stops.

*Fairness.* `Orchestrator!Fairness` is weak fairness of `Continue(r)`: the event
loop of the API process runs every handler that was not cut short. Nothing is
assumed of operators, workers or jobs. The liveness run takes
`Unterminated`, in which nobody terminates: terminating is the one way to take a
run out of starting without its job, and to have the dispatch loop's work undone.
`Execution!Fairness` says that the worker works on whatever it can (BullMQ claims
waiting jobs while a slot is free, promotes delayed ones, and `executeContainer`
goes on after each await), and that tasks exit by themselves; sessions need not,
calls may fail, and nothing is assumed of operators or control commands.
`Store!FairSpec` says that the process starts and that the database answers or
fails each statement (statements have a timeout of ten seconds). `Evaluation!FairSpec`
says that a request goes on: the model answers within its 60 seconds or the request
is aborted. `Console!Fairness` says that requests are answered or discarded and that
the browser runs effects, queued events and timers; nothing is assumed of operators,
of the connection, or of anyone changing a project. `LiveSession!Fairness` says that
the helper handles requests, that lease timers fire, that an agent goes on polling
and working, and that an agent which keeps a valid lease replies in the end (strong
fairness, since a lease can run out before); an agent may also vanish.
`CopyEdits!Fairness` is the hard timeout alone: agents need do nothing.

*What some properties exclude.* A stop of the worker, or a wait that breaks off,
leaves containers running while the jobs are tried again: the code does nothing
about it, and `EvidenceBeforeExit`, `LiveIsWatched` and `DispatchedOnce` start from
`stops = 0`. `EvidenceBeforeExit` starts from `errors = 0` too: after a report that
the API handled and the worker believes lost, a second attempt posts evidence of a
run that has ended. `CompletedIsReported` excludes nothing. `AppliedStays`
starts from `late = 0`, and the pages of the instance share no file: see the last
section of disagreements. `FirstPassAnswersForAll` is about commits that end without a
repair, after which there is no check of what is not applied. `EveryEventEnds` lets an
event wait behind answers of the user that never cease, because they go first.

Every property of a passing run has a mutant in `PROJECT.json`: a definition
named `Slip...` next to the one it stands in for, under which TLC finds the
property violated.

## What disagrees with the documents

Two disagreements have a run that shows them:

1. `exec_terminate`: terminate reads the job's state and removes the job in two
   calls. If the worker claims the job in between, `remove` throws, the terminate
   command is never posted, and a second terminate returns early because the run
   has ended. The container starts and nobody stops it. `docs/operations.md:37`
   says terminate stops a specialist.
2. `live_go`: the page sends the progress of a new session before the request that
   creates it, and waits for nothing. The helper does not know the session, and the
   page gives its own session up. The comment at `live-browser.js:7139` says that
   progress must never overtake creation and that the gate sees to it.

Other behaviours are reachable in the models or plain in the code, and stay without
a run.

In the platform:

- An approval that is still pending when its agent is terminated can be approved
  afterwards; `decideApproval` (line 95) then queues and dispatches the terminated
  run (`docs/operations.md:37`: terminate stops it).
- A pause is only a value of `engagement.status`. A decision with another approval
  pending, or a scope proposal, replaces it by `waiting_approval`, and `spawn` then
  admits runs (same line: a pause prevents new spawns).
- Resume commits `starting` for all queued runs before it dispatches them; after a
  stop in between, later resumes do not select them (same line: resume dispatches
  queued agents).
- Two control commands are handled at once: a resume can inspect a container before
  the pause in front of it has frozen it (same line: resume unfreezes sessions).
- With the simulated driver, a run terminated before its dispatch is revived.
- A report that the worker gave up after ten seconds may be handled later, after the
  second attempt has begun.
- In the console the latest load wins, whichever project it is for: a refresh of the
  old project can supersede the load of the one switched to (`README.md:27`:
  switching cancels obsolete requests).
- The registry takes the newest version first and asks afterwards whether it is
  enabled, so a disabled newer version hides an enabled older one, and a restart
  enables the shipped packages again (`docs/agent-packages.md:3`: the latest enabled
  version).
- A tool call that is not a function, or whose arguments do not parse as expected,
  gets no answer in the conversation; the fixed plan gives up after its first error,
  although it started runs before.

In live mode:

- The error of a generation that the user has answered meanwhile finds no event of
  its own in the queue, and leaves the waiting accept there, but clears that accept
  from the journal; a restart before an agent took it loses it
  (`session-store.mjs:527`; `reference/live.md:76`: startup requeues unacknowledged
  events). A bounced publish is acknowledged and journals nothing.

In copy edits:

- An agent that replies after the hard timeout, or after a discard, has its files
  restored to the snapshot of its own event (`manual-apply.mjs:229`), although a
  later commit may have applied other texts there. This is why `AppliedStays` leaves
  late agents out.
- An undo writes whole files back (`live-commit-manual-edits.mjs:689`,
  `manual-apply.mjs:798` and `862`). If a file has texts of two pages, the undo of one
  page takes away what a commit of the other page applied meanwhile and told its page.
  With such a file TLC finds this in eight steps: two commits and a discard.
- The transaction file holds one transaction. A commit on a second page overwrites
  that of a first page whose repair awaits a decision; rolling the first page back
  then restores nothing. Keep fixing takes whatever transaction the file holds.
- A discard during a later chunk or a repair rolls the transaction back and then
  restores the snapshot of the event, which holds the earlier chunks' edits; the
  repair loop may ask an agent for the discarded batch once more.
- An agent that leaves half an edit, or another wrong text, and reports the entry
  failed or not at all, leaves it in the source if it names the file: the check for
  such entries (`live-commit-manual-edits.mjs:521`) looks for the whole new text, and
  the commit ends without an undo (line 1204). `reference/degraded/manual-edit-applier.md:62`
  tells agents never to leave changes behind, and `live-copy-edit-agent.mjs:49` that
  the server rolls back what appears partially written. `FirstPassAnswersForAll` says
  what is true: the edit itself and broken texts do not stay, and the answer names the
  file.
- A repair is accepted without the check that failed entries were left unwritten.
- An entry that is saved again while it is being applied leaves the buffer with the
  older text, because entries are cleared by id.

## Proofs

`OrchestratorProofs` proves, for every value of the constants that satisfies
`OrchestratorAssumption` (any number of requests, agents, approvals and
failures, any `Covers`, either driver):

| Theorem | States |
|---|---|
| `Invariant` | `[](TypeOK /\ QueuedIsAuthorised)` |
| `TypeCorrect` | `[]TypeOK` |
| `AuthorisationCorrect` | `[]LaunchedIsAuthorised` |
| `LineageCorrect` | `[]LineageSound` |
| `CountersCorrect` | `[]MetricsFresh` |
| `WaitingCorrect` | `[]NobodyWaitsForNothing` |
| `GateCorrect` | `ScopeGate` |
| `FinalityCorrect` | `OnlyDecisionReopens`, assuming `Driver = "queue"` |

*The inductive invariant.* `LaunchedIsAuthorised` speaks of jobs and executions
only, and is not inductive: a run enters the queue from a dispatch loop, which
took it from the queued runs, where a decision had put it. `QueuedIsAuthorised`
follows that chain backwards: whatever is queued, held by a dispatch loop, in
the queue or started (`Cleared`) has every spawn approval of its own approved,
and has one if it asked for a gated capability. For a decision to preserve this
one also needs that a run has at most one spawn approval and that positions name
existing runs; that is `Linked`. The other direction is that no step takes
anything away: approvals that were approved stay so, and runs keep their
capabilities. The lemmas about `KeepsRuns` and `KeepsApprovals` say this once
per action and the preservation proof cites them. `LineageSound`,
`NobodyWaitsForNothing` and `MetricsFresh` are proved on top of it in the same
way, each with one step per action. `ScopeGate` is a fact about single steps:
`GateStep` shows that whatever adds a run keeps the earlier ones as they were and
decided the new one by the rules of that moment.

`FinalityCorrect` needs the queue driver: the simulated driver's `dispatch` sets
`running` without looking, so a run terminated before its dispatch is revived.
TLC confirms that the property fails there.

`ExecutionProofs` proves, under `ExecutionAssumption` (any finite set of runs, any
number of slots, attempts, control handlers, orders, failed calls and stops):

| Theorem | States |
|---|---|
| `SoundAlways` | `[]Sound`: types, the wait list, attempts and jobs agree |
| `TypeCorrect` | `[]TypeOK` |
| `ReportsCorrect` | `[]CompletedIsReported` |
| `OneLiveContainer` | `[]LiveIsWatched` |
| `EvidenceFirst` | `[]EvidenceBeforeExit` |
| `OneExecution` | `[]DispatchedOnce` |

*The inductive invariants.* `TypeOK` is not inductive: that an attempt which
throws stays within `Attempts` needs that an attempt under way belongs to an
active job with an attempt left, and that the claimed job was waiting needs the
agreement of the wait list with the jobs, through the removals of terminate and
the return of stalled jobs. `Sound` is that conjunction, and everything else is
proved on top of it. `CompletedIsReported` is strengthened with the attempts that
have reported but not yet removed their container (`Reported`). `LiveIsWatched`
is inductive on top of `Sound`, because an attempt leaves "started" only when it
has seen the exit. `EvidenceBeforeExit` needs that a run which is completed or
failed has an empty chain and a job that cannot start again (`Quiet`), and for
that a termination which is under way to belong to a terminated run
(`ByOperator`), since terminate is what removes jobs. `DispatchedOnce` needs the
account of `Accounted`: every container belongs to an attempt that threw or to
the one that is under way or completed.

`StoreProofs` proves, under `StoreAssumption`, `ResultAssumption` and
`PoolAssumption` (any projects, calls, dashboards and mutations, any pool, any
number of errors and stops), and under `WorkspaceAssumption` on top of them for what
the routes make of the store:

| Theorem | States |
|---|---|
| `StoreTyped` | `[]TypeOK` |
| `ActiveStays` | `[]ActiveExists` |
| `StoreIsAtomic` | `IsAtomic`: `Store` implements `AtomicStore` |
| `TouchedItsProject` | `[]TouchesItsProject` |
| `AllowRuleStays` | `LastAllowKept` |

*The refinement and its invariant.* The mapping hides the drivers: `boards` and
`active` are themselves, `durable` says which driver it is, and `outcome` maps each
stage to new, pending, applied, done or failed. A Postgres mutation is applied by
its `Commit`, which writes the payload read at `Lock`; that this is the mutation of
the dashboard *as it then is* needs `Locking`: a transaction past its SELECT holds
the row's lock, and until it commits nobody else writes that row. `saveDashboard` takes
no lock, so that in turn needs `Creating`: it only ever writes rows that do not exist
yet. `Starting` says that the seed meets an empty store, `Staged` that each kind of
call has stages of its own, `Waiting` that a connection is handed to a call that waits
for it. The last two theorems do not look at the drivers at all: every step of the
workspace is a step of `AtomicStore`, and those preserve `AllTidy` (distinct rule ids,
touched by own agents).

`EvaluationProofs` proves, under `EvaluationAssumption` (any requests, packages,
limits, plan, errors and stops, either provider):

| Theorem | States |
|---|---|
| `EvaluationSound` | `[]Inv`, the inductive invariant |
| `EvaluationTyped` | `[]TypeOK` |
| `LimitHolds` | `[]LimitKept` |
| `OutcomeHolds` | `[]OutcomeIsTrue` |
| `OfferHolds` | `[]OnlyWhatWasOffered` |

*The inductive invariant.* Between the mutation and the end of `spawn` a run exists
that neither account includes: `Counted` allows for it with `Unsure`, `Announcing`
says that it is that one run, and `Calling` that a request inside `spawn` was below
its limit. `Kept` (packages are replaced, never removed) carries what was offered to
the moment it is read again, `Reading` from there to the mutation. `Planning` follows
the fixed plan step by step: each step done started a run, which is what makes its
reason true in the end (`Ending`). `Asking` and `Fresh` are the same for turns and
for requests that did not begin.

`ConsoleProofs` proves, under `ConsoleAssumption` (any projects, commands, changes
and failures):

| Theorem | States |
|---|---|
| `ConsoleTyped` | `[]TypeOK` |
| `RefreshesOne` | `[]OneEventRefresh` |
| `ScreenForward` | `NeverBackwards` |

*The inductive invariant.* `Coalesced` says that a subscription has a timer or a
refresh, never both, so that the timer starts no second refresh, and that a load
waited for by the subscription is that refresh. `Current` says that the answer to the
load that would be accepted is not older than the screen: when a load is shown it was
the only one of the latest generation, so nothing acceptable is left until the next
load starts, and that one is answered later, with the version as it is by then.

`LiveProofs` proves, under `LiveAssumption` (any finite set of sessions, own or
foreign, any number of agents, vanished agents, restarts and broken previews, requests
in any order):

| Theorem | States |
|---|---|
| `Invariant` | `[]IInv`, the inductive invariant |
| `Typed` | `[]TypeOK` |
| `LeasedToOne` | `[]OneWorker` |
| `WorkIsServed` | `[]NoPollWaitsBesideWork` |
| `AnsweredRetires` | `[]AnsweredIsRetired` |
| `AnswersWait` | `AnswerNotSwallowed` |

*The inductive invariant.* That two agents never work on one event (`Exclusive`) is
not inductive: an event that is handed out must be one nobody has. So `Handed` says
where the event of a running lease is: in the queue, and leased, or it is a generation
that an answer took out of the queue. The second case is the hard one, because a
generation that comes back to the queue while its agent still works would be given to
another. `Story` rules that out, session by session, by following a session from its
creation: as long as the request that creates it is on its way the helper knows nothing
of it (`Untouched`), and as long as its first generation is still to be prepared
(requested, queued, pending in the journal, or being scaffolded), nothing else has
happened to it (`Calm`), so that no answer has been given and no later event is pending. `CreatedOnce` says that
the page asks for a creation once. A restart rebuilds the queue from the journal:
`Pends` says that what is pending there is of its own session and no generation that
was answered, which is what `Retired`, and with it `AnsweredIsRetired`, needs.
`KeysOnce` (an event is queued once) makes the one removal of
`retirePendingGeneration` and `acknowledgePendingEvent` enough, and `Line` says that
the waiting polls are those of waiting agents, each once. `NoPollWaitsBesideWork` is a
conjunct of its own, and rests on the lemmas about ranks: polls and available events
are matched one to one in their order, so that after `Serve` one of the two is used up.
`AnswersWait` is a fact about single steps on top of it: the only steps that take an
answer out of the queue acknowledge it by its own type, which only an agent that
carries out an answer names, or infers while the answer is leased.

`CopyEditsProofs` proves, under `CopyAssumption` (any texts, pages, files and
commits, chunks of any size, any number of repairs, saves, stops and late acts):

| Theorem | States |
|---|---|
| `CopyTyped` | `[]TypeOK` |
| `ClearedWasWritten` | `ClearedIsWritten` |
| `ToldStays` | `AppliedStays`, if `Apart` |
| `FirstPassAccounted` | `FirstPassAnswersForAll` |

*The inductive invariant.* The buffer is cleared by id, long after the batch was
taken from it. `Sound` ties the two together: the id of an entry a commit has is
borne by no other element's staged entry, what is staged for an element is that
entry or a later one, and the page was never told of its text; ids must be unique in
the buffer for that (`Buffer`), and no two commits work on one page (`Working`), so
that none tells of what another has. `Events` says that a reply can only be about
entries of its commit. Every way a turn goes on (push, accept, undo, repair) is one
lemma about what it was given (`Eligible`, `Given`), and each route cites them.

*What an answer accounts for.* `FirstPassAccounted` is a fact about single steps on
top of the same invariant, of which it needs that a commit's snapshot has all files of
its batch and that the page was never told of its texts (`Sound`). An accepted text was
verified (`AcceptAccounts`). Of one that is not applied, `MustUndo` and the checks of
the files leave three cases: it is as before, or its file is reported; if it is the
edit it has leaked, and if it is broken in a reported file the checks fail. An undo
puts the batch back from the snapshot (`UndoAccounts`). It holds with late agents and
for files of two pages.

*What snapshots remember.* Three kinds of snapshots are written back: that of the
transaction file, that of the commit and that of the event, any of them long after it
was made. An undo is harmless if the snapshot has every text that is told and still
in the source (`Remembers`), and nothing of another page. The undo of a first pass
loses none of these texts (`Undoable`), also after a discard has put back the snapshot
of the file or of the event, which must hold none that its own lacks (`Owns`, `Live`).
`Memory` joins these, with the fact that of a commit's events only one is waited for.
It holds until an agent answers late (`Remembered` is the invariant) and only if no
file has texts of two pages: `Apart`, the one hypothesis beyond `CopyAssumption`, which
a shared file makes false in the code as in the model, with the effect described
under the disagreements. TLC confirmed `Memory` in the instance before it was proved.
An agent that is waited for cannot break it, since it writes only texts the page has
not been told of (`Fresh`), or wrong ones.

*Only model-checked.* The liveness properties `StartingIsLaunched`, `JobSettles`,
`FinalUpdateShown`, `EveryCallEnds`, `EveryEventEnds`, `EveryRequestEnds` and
`EveryCommitEnds`: liveness is out of this prover's reach. Every invariant and every
action property of the passing runs is stated by a theorem.

## Not modelled, and why

- Rule matching inside the policy is a constant.
- The worker's simulated mode, the callback of a last unterminated line and the
  manifest the worker reads are left out of `Execution`, whose API decides a report
  that the worker gave up at the moment it fails.
- `Orchestrator`, `Execution` and `Evaluation` are three views of one system that are
  not composed: approvals and containers never meet in one module. `Orchestrator` and
  `Evaluation` take the store's atomicity from `Store`.
- The model's own plan (`createPlan`) starts nothing. The evidence walks and the
  execution plan are pure functions, left for later.
- Live mode: steer, prefetch, the exit timer, the redelivery of missed completions,
  checkpoint revisions, the source lock, component previews, the delay of the event
  stream, and how a copy edit is located in the source (a search over file text).
- The skill's detector, its hooks and its project context are functions of files
  without concurrent state.
- Views, reports, seed data, configuration and string validation hold no control
  state. Agent runtimes are arbitrary programs to the platform.

## Plan

In this order, the most important first:

1. `Execution` with late reports and the manifest read at execution time, so that
   the outcome an operator sees can be compared with the attempts made.
2. `Evidence` (backward walk, attack paths) and the freeform runner's plan against
   reference definitions, in one run.
3. The rest of live mode: steer, prefetch, the redelivery of missed completions.
4. Proofs: `AppliedStays` without `Apart`, for pages that share a file but are not
   applied at the same time (TLC finds no violation for two such pages, one text
   each, and three commits).
