------------------------------ MODULE Execution -------------------------------
(***************************************************************************)
(* An admitted agent run on its way through the queue driver, the worker   *)
(* in Docker mode and its containers, and back to the API.                 *)
(*                                                                         *)
(* The API keeps a status per run, and its handlers go on after their      *)
(* mutation to dispatch, to terminate and to post control commands.  A     *)
(* BullMQ job is claimed by the worker, which creates a container, posts   *)
(* what it writes through a chain of callbacks, reports its exit and       *)
(* removes it.  An attempt that throws is made again after a delay.  Two   *)
(* handlers serve the control queue, container by container.               *)
(*                                                                         *)
(* Approvals are not part of this module: runs are born queued, with the   *)
(* dispatch of their spawn still to come.  The loops over the runs of a    *)
(* resume and of a control command visit them in any order.                *)
(***************************************************************************)
EXTENDS Naturals, Sequences, FiniteSets

CONSTANTS
  Runs,       \* agent runs
  Tasks,      \* those that exit by themselves; the others are sessions
  Slots,      \* WORKER_CONCURRENCY
  Attempts,   \* attempts of a job
  Handlers,   \* control commands handled at once
  MaxLines,   \* bound: events of a run waiting to be posted
  MaxOrders,  \* bound: pauses and resumes
  MaxErrors,  \* bound: calls of the worker that fail
  MaxStops    \* bound: stops of the worker, and waits that break off

ASSUME ExecutionAssumption ==
  /\ IsFiniteSet(Runs)
  /\ Tasks \subseteq Runs
  /\ Slots \in Nat \ {0}
  /\ Attempts \in Nat \ {0}
  /\ Handlers \in Nat \ {0}
  /\ {MaxLines, MaxOrders, MaxErrors, MaxStops} \subseteq Nat

VARIABLES
  status,       \* API: the status of each run
  due,          \* API: calls of dispatch that handlers have still to make
  terminating,  \* API: where terminate is with each run
  orders,       \* API: the pauses and resumes so far
  job,          \* Redis: the job of each run
  waitList,     \* Redis: the waiting jobs, oldest first
  control,      \* Redis: the control commands not yet taken
  stage,        \* worker: how far the attempt at each run's job has come
  chain,        \* worker: events that are not yet posted
  handling,     \* worker: the control commands under way
  containers,   \* Docker: the containers ever created for each run
  refused,      \* runs of which the API refused, or never got, an event
  errors,       \* failed calls so far
  stops         \* stops of the worker, and waits for a container that broke off

api == <<status, due, terminating, orders>>
redis == <<job, waitList, control>>
worker == <<stage, chain, handling>>
faults == <<errors, stops>>
vars == <<api, redis, worker, containers, refused, faults>>

-----------------------------------------------------------------------------
Statuses == {"queued", "starting", "running", "completed", "failed", "terminated"}

Ended == {"completed", "failed", "terminated"}

Jobs == [state : {"none", "waiting", "delayed", "active", "completed", "failed"},
         made : 0..Attempts, stalls : 0..1]

NoJob == [state |-> "none", made |-> 0, stalls |-> 0]

Stages == {"idle", "claimed", "created", "started", "reported"}

Containers == {"created", "running", "paused", "succeeded", "failed", "removed"}

Live == {"running", "paused"}

Commands == [action : {"pause", "resume", "terminate"}, number : Nat, runs : SUBSET Runs]

\* todo: runs still to visit; of run, the containers listed and the one aimed at.
Visits == [command : Commands, todo : SUBSET Runs, run : SUBSET Runs,
           listed : SUBSET Nat, aim : SUBSET Nat]

Visit(command) ==
  [command |-> command, todo |-> command.runs, run |-> {}, listed |-> {}, aim |-> {}]

Orders == [action : {"pause", "resume"}, runs : SUBSET Runs, step : {"post", "start", "over"}]

-----------------------------------------------------------------------------
(***************************************************************************)
(* Helpers, and the Slips that could be made in their place.               *)
(***************************************************************************)
SlipKnown(a) == job[a].state = "waiting"

\* A job of this id is still kept, so that another one is ignored.
Known(a) == job[a].state # "none"

SlipBusy == {a \in Runs : job[a].state \in {"active", "delayed", "failed"}}

Busy == {a \in Runs : job[a].state = "active"}

SlipAfterThrow(a) == [job[a] EXCEPT !.made = @ + 1, !.state = "completed"]

SlipRetry(a) ==
  [job[a] EXCEPT !.made = @ + 1, !.state = IF job[a].made < Attempts THEN "delayed" ELSE "failed"]

\* The job after an attempt that threw.
AfterThrow(a) ==
  [job[a] EXCEPT !.made = @ + 1,
                 !.state = IF job[a].made + 1 < Attempts THEN "delayed" ELSE "failed"]

Latest(a) == Len(containers[a])

Gone(state) == state \in {"succeeded", "failed"}

SlipExitSeen(a) == TRUE

\* container.wait and the end of its stream.
ExitSeen(a) == Gone(containers[a][Latest(a)])

SlipDrained(a) == TRUE

\* await callbackChain
Drained(a) == chain[a] = 0

Outcome(a) == IF containers[a][Latest(a)] = "succeeded" THEN "completed" ELSE "failed"

\* complete: only a terminated run ignores the report.
Completed(a) == [status EXCEPT ![a] = IF @ = "terminated" THEN @ ELSE Outcome(a)]

\* The ways to put the members of S in a row.
Orderings(S) ==
  {order \in [1..Cardinality(S) -> S] : \A i, j \in DOMAIN order : order[i] = order[j] => i = j}

\* The wait list without its i-th job.
Unlisted(i) == SubSeq(waitList, 1, i - 1) \o SubSeq(waitList, i + 1, Len(waitList))

\* What the command would do to a container found in this state.
Concerns(action, state) ==
  \/ action = "pause" /\ state = "running"
  \/ action = "resume" /\ state = "paused"
  \/ action = "terminate" /\ state \in Live

\* The Docker engine: what the call makes of a container in this state.
Results(action, state) ==
  IF action = "pause" THEN {"paused"}
  ELSE IF action = "resume" THEN {"running"} ELSE {"succeeded", "failed"}

-----------------------------------------------------------------------------
Init ==
  /\ status = [a \in Runs |-> "queued"]
  /\ due = [a \in Runs |-> 1]
  /\ terminating = [a \in Runs |-> "no"]
  /\ orders = <<>>
  /\ job = [a \in Runs |-> NoJob]
  /\ waitList = <<>>
  /\ control = <<>>
  /\ stage = [a \in Runs |-> "idle"]
  /\ chain = [a \in Runs |-> 0]
  /\ handling = {}
  /\ containers = [a \in Runs |-> <<>>]
  /\ refused = {}
  /\ errors = 0
  /\ stops = 0

(***************************************************************************)
(* The API.  dispatch adds a job under the run's id, unless BullMQ still   *)
(* keeps one.                                                              *)
(***************************************************************************)
Dispatch(a) ==
  /\ due[a] > 0
  /\ due' = [due EXCEPT ![a] = @ - 1]
  /\ IF Known(a) THEN UNCHANGED <<job, waitList>>
     ELSE /\ job' = [job EXCEPT ![a] = [NoJob EXCEPT !.state = "waiting"]]
          /\ waitList' = Append(waitList, a)
  /\ UNCHANGED <<status, terminating, orders, control, worker, containers, refused, faults>>

\* terminate: the mutation, then getJob and getState, then remove if that was
\* the state, then the command.
Terminate(a) ==
  /\ status[a] \notin Ended
  /\ status' = [status EXCEPT ![a] = "terminated"]
  /\ terminating' = [terminating EXCEPT ![a] = "look"]
  /\ UNCHANGED <<due, orders, redis, worker, containers, refused, faults>>

LookAtJob(a) ==
  /\ terminating[a] = "look"
  /\ terminating' = [terminating EXCEPT ![a] =
       IF job[a].state \in {"waiting", "delayed"} THEN "remove" ELSE "post"]
  /\ UNCHANGED <<status, due, orders, redis, worker, containers, refused, faults>>

\* BullMQ refuses to remove a job that the worker has locked meanwhile.
RemoveJob(a) ==
  /\ terminating[a] = "remove"
  /\ IF job[a].state = "active"
     THEN /\ terminating' = [terminating EXCEPT ![a] = "over"]
          /\ UNCHANGED <<job, waitList>>
     ELSE /\ terminating' = [terminating EXCEPT ![a] = "post"]
          /\ job' = [job EXCEPT ![a] = NoJob]
          /\ IF job[a].state = "waiting"
             THEN \E i \in DOMAIN waitList : waitList[i] = a /\ waitList' = Unlisted(i)
             ELSE UNCHANGED waitList
  /\ UNCHANGED <<status, due, orders, control, worker, containers, refused, faults>>

PostTerminate(a) ==
  /\ terminating[a] = "post"
  /\ terminating' = [terminating EXCEPT ![a] = "over"]
  /\ control' = Append(control, [action |-> "terminate", number |-> 0, runs |-> {a}])
  /\ UNCHANGED <<status, due, orders, job, waitList, worker, containers, refused, faults>>

\* setRunState: the first mutation names the runs to control.
SetRunState(action) ==
  /\ Len(orders) < MaxOrders
  /\ orders' = Append(orders, [action |-> action, step |-> "post",
                               runs |-> {a \in Runs : status[a] \in {"running", "starting"}}])
  /\ UNCHANGED <<status, due, terminating, redis, worker, containers, refused, faults>>

PostOrder(o) ==
  /\ orders[o].step = "post"
  /\ orders' = [orders EXCEPT ![o].runs = {},
                 ![o].step = IF orders[o].action = "pause" THEN "over" ELSE "start"]
  /\ control' = Append(control, [action |-> orders[o].action, number |-> o, runs |-> orders[o].runs])
  /\ UNCHANGED <<status, due, terminating, job, waitList, worker, containers, refused, faults>>

StartQueued(o) ==
  LET queued == {a \in Runs : status[a] = "queued"}
  IN  /\ orders[o].step = "start"
      /\ orders' = [orders EXCEPT ![o].step = "over"]
      /\ status' = [a \in Runs |-> IF a \in queued THEN "starting" ELSE status[a]]
      /\ due' = [a \in Runs |-> IF a \in queued THEN due[a] + 1 ELSE due[a]]
      /\ UNCHANGED <<terminating, redis, worker, containers, refused, faults>>

(***************************************************************************)
(* The worker's attempt at a job: executeContainer.                        *)
(***************************************************************************)
Move(a, next) == stage' = [stage EXCEPT ![a] = next]

SetContainer(a, k, state) == containers' = [containers EXCEPT ![a][k] = state]

Claim(a) ==
  /\ Cardinality(Busy) < Slots
  /\ waitList # <<>> /\ a = Head(waitList)
  /\ waitList' = Tail(waitList)
  /\ job' = [job EXCEPT ![a].state = "active"]
  /\ Move(a, "claimed")
  /\ UNCHANGED <<api, control, chain, handling, containers, refused, faults>>

\* The manifest is read, the container created and its output attached.
Create(a) ==
  /\ stage[a] = "claimed"
  /\ Move(a, "created")
  /\ containers' = [containers EXCEPT ![a] = Append(@, "created")]
  /\ UNCHANGED <<api, redis, chain, handling, refused, faults>>

Start(a) ==
  /\ stage[a] = "created"
  /\ Move(a, "started")
  /\ SetContainer(a, Latest(a), "running")
  /\ UNCHANGED <<api, redis, chain, handling, refused, faults>>

\* A line of the container becomes an event at the end of the callback chain.
Write(a) ==
  /\ stage[a] = "started"
  /\ containers[a][Latest(a)] = "running"
  /\ chain[a] < MaxLines
  /\ chain' = [chain EXCEPT ![a] = @ + 1]
  /\ UNCHANGED <<api, redis, stage, handling, containers, refused, faults>>

\* callback to ingest: a refusal is logged, and the chain goes on.
PostEvent(a) ==
  /\ chain[a] > 0
  /\ chain' = [chain EXCEPT ![a] = @ - 1]
  /\ IF status[a] \in Ended
     THEN refused' = refused \cup {a} /\ UNCHANGED status
     ELSE status' = [status EXCEPT ![a] = "running"] /\ UNCHANGED refused
  /\ UNCHANGED <<due, terminating, orders, redis, stage, handling, containers, faults>>

\* callback to complete, answered.
Report(a) ==
  /\ stage[a] = "started"
  /\ ExitSeen(a)
  /\ Drained(a)
  /\ status' = Completed(a)
  /\ Move(a, "reported")
  /\ UNCHANGED <<due, terminating, orders, redis, chain, handling, containers, refused, faults>>

\* The container is removed, and the job is done.
Remove(a) ==
  /\ stage[a] = "reported"
  /\ SetContainer(a, Latest(a), "removed")
  /\ job' = [job EXCEPT ![a].state = "completed"]
  /\ Move(a, "idle")
  /\ UNCHANGED <<api, waitList, control, chain, handling, refused, faults>>

\* The attempt throws.
Throw(a) ==
  /\ job' = [job EXCEPT ![a] = AfterThrow(a)]
  /\ Move(a, "idle")
  /\ UNCHANGED <<due, terminating, orders, waitList, control, handling, containers>>

\* A call fails.
Err ==
  /\ errors < MaxErrors
  /\ errors' = errors + 1
  /\ UNCHANGED stops

\* Before the container runs (no manifest, image, mount or engine), or while
\* it is removed.
FailCall(a) ==
  /\ stage[a] \in {"claimed", "created", "reported"}
  /\ Err
  /\ Throw(a)
  /\ UNCHANGED <<status, chain, refused>>

\* The report fails; the API may or may not have handled it.
FailReport(a) ==
  /\ stage[a] = "started"
  /\ ExitSeen(a)
  /\ Drained(a)
  /\ Err
  /\ Throw(a)
  /\ status' \in {status, Completed(a)}
  /\ UNCHANGED <<chain, refused>>

\* The wait for the container breaks off.  Events that it had written already
\* are posted all the same.
FailWait(a) ==
  /\ stage[a] = "started"
  /\ stops < MaxStops
  /\ stops' = stops + 1
  /\ Throw(a)
  /\ UNCHANGED <<status, chain, refused, errors>>

\* An event is lost; the failure is logged, and the chain goes on.
LoseEvent(a) ==
  /\ chain[a] > 0
  /\ Err
  /\ chain' = [chain EXCEPT ![a] = @ - 1]
  /\ refused' = refused \cup {a}
  /\ UNCHANGED <<api, redis, stage, handling, containers>>

\* The backoff of a failed attempt is over.
Retry(a) ==
  /\ job[a].state = "delayed"
  /\ job' = [job EXCEPT ![a].state = "waiting"]
  /\ waitList' = Append(waitList, a)
  /\ UNCHANGED <<api, control, worker, containers, refused, faults>>

\* A container exits by itself, with or without success.
Exit(a, k) ==
  /\ containers[a][k] = "running"
  /\ \E state \in {"succeeded", "failed"} : SetContainer(a, k, state)
  /\ UNCHANGED <<api, redis, worker, refused, faults>>

(***************************************************************************)
(* controlContainers: the containers of each run in turn are listed, each  *)
(* is inspected, and what was found decides.  An error other than that the *)
(* container is gone or has stopped ends the command.                      *)
(***************************************************************************)
Becomes(v, w) == handling' = (handling \ {v}) \cup {w}

Take ==
  /\ Cardinality(handling) < Handlers
  /\ control # <<>>
  /\ control' = Tail(control)
  /\ handling' = handling \cup {Visit(Head(control))}
  /\ UNCHANGED <<api, job, waitList, stage, chain, containers, refused, faults>>

List(v, a) ==
  /\ v.listed = {}
  /\ a \in v.todo
  /\ Becomes(v, [v EXCEPT !.todo = @ \ {a}, !.run = {a}, !.aim = {},
                          !.listed = {k \in DOMAIN containers[a] : containers[a][k] # "removed"}])
  /\ UNCHANGED <<api, redis, stage, chain, containers, refused, faults>>

Inspect(v, k) ==
  /\ v.aim = {} /\ k \in v.listed
  /\ \E a \in v.run :
       Becomes(v, IF Concerns(v.command.action, containers[a][k])
                  THEN [v EXCEPT !.aim = {k}] ELSE [v EXCEPT !.listed = @ \ {k}])
  /\ UNCHANGED <<api, redis, stage, chain, containers, refused, faults>>

Act(v, k) ==
  /\ v.aim = {k}
  /\ \E a \in v.run :
       IF Concerns(v.command.action, containers[a][k])
       THEN /\ \E state \in Results(v.command.action, containers[a][k]) : SetContainer(a, k, state)
            /\ Becomes(v, [v EXCEPT !.aim = {}, !.listed = @ \ {k}])
       ELSE /\ IF containers[a][k] = "removed" \/ v.command.action = "terminate"
               THEN Becomes(v, [v EXCEPT !.aim = {}, !.listed = @ \ {k}])
               ELSE handling' = handling \ {v}
            /\ UNCHANGED containers
  /\ UNCHANGED <<api, redis, stage, chain, refused, faults>>

Done(v) ==
  /\ v.todo = {} /\ v.listed = {}
  /\ handling' = handling \ {v}
  /\ UNCHANGED <<api, redis, stage, chain, containers, refused, faults>>

(***************************************************************************)
(* The worker process stops.  BullMQ finds the jobs it held stalled and    *)
(* lets them wait again, once each; a control command starts over.  The    *)
(* containers go on without anybody reading their output.                  *)
(***************************************************************************)
StopWorker ==
  /\ stops < MaxStops
  /\ stops' = stops + 1
  /\ job' = [a \in Runs |-> IF a \notin Busy THEN job[a]
                            ELSE IF job[a].stalls = 1 THEN [job[a] EXCEPT !.state = "failed"]
                            ELSE [job[a] EXCEPT !.state = "waiting", !.stalls = 1]]
  /\ \E order \in Orderings({a \in Busy : job[a].stalls = 0}) : waitList' = order \o waitList
  /\ stage' = [a \in Runs |-> "idle"]
  /\ chain' = [a \in Runs |-> 0]
  /\ refused' = refused \cup {a \in Runs : chain[a] > 0}
  /\ \E order \in Orderings(handling) :
       control' = [i \in DOMAIN order |-> order[i].command] \o control
  /\ handling' = {}
  /\ UNCHANGED <<api, containers, errors>>

-----------------------------------------------------------------------------
Api(a) ==
  \/ Dispatch(a)
  \/ LookAtJob(a)
  \/ RemoveJob(a)
  \/ PostTerminate(a)

Work(a) ==
  \/ Claim(a)
  \/ Create(a)
  \/ Start(a)
  \/ PostEvent(a)
  \/ Report(a)
  \/ Remove(a)
  \/ Retry(a)

Control ==
  \/ Take
  \/ \E v \in handling, a \in Runs : List(v, a)
  \/ \E v \in handling : \E k \in v.listed : Inspect(v, k)
  \/ \E v \in handling : \E k \in v.listed : Act(v, k)
  \/ \E v \in handling : Done(v)

Next ==
  \/ \E a \in Runs : Api(a)
  \/ \E a \in Runs : Terminate(a)
  \/ \E action \in {"pause", "resume"} : SetRunState(action)
  \/ \E o \in DOMAIN orders : PostOrder(o)
  \/ \E o \in DOMAIN orders : StartQueued(o)
  \/ \E a \in Runs : Work(a)
  \/ \E a \in Runs : Write(a)
  \/ \E a \in Runs : \E k \in DOMAIN containers[a] : Exit(a, k)
  \/ \E a \in Runs : FailCall(a)
  \/ \E a \in Runs : FailReport(a)
  \/ \E a \in Runs : FailWait(a)
  \/ \E a \in Runs : LoseEvent(a)
  \/ Control
  \/ StopWorker

Spec == Init /\ [][Next]_vars

\* The worker works on what it can, and a task exits.
Fairness ==
  /\ \A a \in Runs : WF_vars(Work(a))
  /\ \A a \in Tasks : WF_vars(\E k \in DOMAIN containers[a] : Exit(a, k))

FairSpec == Spec /\ Fairness
-----------------------------------------------------------------------------
(***************************************************************************)
(* Properties.                                                             *)
(***************************************************************************)

\* Every variable keeps its shape; the wait list holds every waiting job once,
\* and no other.
TypeOK ==
  /\ status \in [Runs -> Statuses]
  /\ due \in [Runs -> Nat]
  /\ terminating \in [Runs -> {"no", "look", "remove", "post", "over"}]
  /\ orders \in Seq(Orders)
  /\ job \in [Runs -> Jobs]
  /\ waitList \in Seq(Runs)
  /\ \A i, j \in DOMAIN waitList : waitList[i] = waitList[j] => i = j
  /\ \A a \in Runs : job[a].state = "waiting" <=> \E i \in DOMAIN waitList : waitList[i] = a
  /\ control \in Seq(Commands)
  /\ stage \in [Runs -> Stages]
  /\ chain \in [Runs -> Nat]
  /\ handling \subseteq Visits
  /\ containers \in [Runs -> Seq(Containers)]
  /\ refused \subseteq Runs
  /\ errors \in Nat
  /\ stops \in Nat

\* A job that BullMQ counts as completed is a run that has ended: no exit is
\* forgotten on the way, whichever calls fail or are made twice (executeContainer
\* and complete).
CompletedIsReported ==
  \A a \in Runs : job[a].state = "completed" => status[a] \in Ended

\* No exit overtakes the evidence it belongs to: while nothing fails, the API
\* refuses events of a run only because an operator terminated it
\* (the callback chain, ingest and complete).
EvidenceBeforeExit ==
  errors = 0 /\ stops = 0 => \A a \in refused : status[a] = "terminated"

\* A container that runs, or is frozen, is the one the worker waits for: neither
\* a failed attempt nor a retry nor a settled job leaves a second one behind,
\* unless the worker stops or loses the engine (executeContainer under BullMQ's attempts).
LiveIsWatched ==
  stops = 0 =>
    \A a \in Runs : \A k \in DOMAIN containers[a] :
      containers[a][k] \in Live => stage[a] = "started" /\ k = Latest(a)

\* However often spawn and resume dispatch the same run, its container is created
\* once, and once more for each attempt that threw (dispatch with a job id);
\* a terminated run may have lost its job and got another.
DispatchedOnce ==
  stops = 0 =>
    \A a \in Runs : status[a] # "terminated" =>
      /\ Len(containers[a]) <= Attempts
      /\ Len(containers[a]) <= errors + 1

Frozen == \E a \in Runs : \E k \in DOMAIN containers[a] : containers[a][k] = "paused"

\* Every waiting job is tried and settled in the end, with failures and retries,
\* unless a container is left frozen or the sessions hold every slot (Worker).
JobSettles ==
  \A a \in Tasks :
    (job[a].state = "waiting") ~>
      (job[a].state \in {"none", "completed", "failed"} \/ Frozen
       \/ Cardinality({b \in Runs \ Tasks : job[b].state = "active"}) = Slots)

-----------------------------------------------------------------------------
(***************************************************************************)
(* What the documents say, where the code does otherwise.                  *)
(***************************************************************************)

\* No call is under way, in the API, in the queues or in the worker.
Settled ==
  /\ \A a \in Runs : due[a] = 0 /\ terminating[a] \in {"no", "over"}
  /\ \A o \in DOMAIN orders : orders[o].step = "over"
  /\ control = <<>> /\ handling = {}
  /\ \A a \in Runs : job[a].state \notin {"waiting", "delayed"}
  /\ \A a \in Runs : stage[a] \in {"idle", "started"}

NothingFailed == errors = 0 /\ stops = 0

\* "Terminate stops one selected specialist" (docs/operations.md): once everything
\* has settled, no container of a terminated run is live.
TerminateStops ==
  Settled /\ NothingFailed =>
    \A a \in Runs : status[a] = "terminated" =>
      \A k \in DOMAIN containers[a] : containers[a][k] \notin Live
=============================================================================
