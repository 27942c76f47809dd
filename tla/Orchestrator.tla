---------------------------- MODULE Orchestrator ----------------------------
(***************************************************************************)
(* One evaluation run as OrchestratorService keeps it: the dashboard that  *)
(* StateStore.mutateDashboard reads and writes in one atomic mutation, and *)
(* the HTTP handlers that go on after their mutation - to the execution    *)
(* driver, the control queue, the audit log - while other handlers run.    *)
(*                                                                         *)
(* A handler is its mutation (one atomic action on the dashboard) followed *)
(* by the calls it still has to make, kept in calls[r] for the request r   *)
(* it serves.  Any of those calls may throw, and the process may die, in   *)
(* which case the rest of the handler never happens.  Audit rows and       *)
(* published events are read by nothing modelled here; they belong to the  *)
(* step they surround.  A handler whose mutation throws changes nothing    *)
(* and is not an action.                                                   *)
(*                                                                         *)
(* Agent runs and approvals are identified by their position: the code     *)
(* pushes onto dashboard.agents, unshifts onto dashboard.approvals, gives  *)
(* fresh ids and removes neither.  Run 1 is the orchestrator itself.       *)
(***************************************************************************)
EXTENDS Naturals, Sequences, FiniteSets

CONSTANTS
  Driver,         \* config.executionDriver: "queue" or "simulated"
  MaxDepth,       \* deepest specialist the policy admits (five in the code)
  Requests,       \* HTTP requests that may be in flight at once
  Targets,        \* targets a specialist may be given
  PrimaryTarget,  \* the target the engagement was created for
  Boundaries,     \* (kind, value) pairs a scope rule may name
  Covers,         \* Covers[b]: the targets that boundary b matches
  InitialRules,   \* scope rules the engagement is created with
  Capabilities,   \* capabilities a request may name
  Declared,       \* capabilities the manifests declare
  Gated,          \* capabilities that need a human decision
  Bodies,         \* bound: spawn requests that are ever made
  OperatorRules,  \* bound: rules an operator ever adds or removes
  MaxAgents,      \* bound: agent runs ever created, the orchestrator included
  MaxApprovals,   \* bound: approvals ever requested
  MaxFailures     \* bound: handlers cut short

ScopeRules == [boundary : Boundaries, action : {"allow", "deny"}]

ASSUME OrchestratorAssumption ==
  /\ Driver \in {"queue", "simulated"}
  /\ MaxDepth \in Nat
  /\ PrimaryTarget \in Targets
  /\ Covers \in [Boundaries -> SUBSET Targets]
  /\ InitialRules \subseteq ScopeRules
  /\ OperatorRules \subseteq ScopeRules
  /\ Bodies \subseteq [target : Targets, capabilities : SUBSET Capabilities]
  /\ MaxAgents \in Nat
  /\ MaxApprovals \in Nat
  /\ MaxFailures \in Nat

VARIABLES
  runStatus,     \* dashboard.engagement.status
  agents,        \* dashboard.agents
  approvals,     \* dashboard.approvals
  scopeRules,    \* dashboard.engagement.scopeRules
  metrics,       \* dashboard.metrics
  calls,         \* what each request in flight has still to do
  waiting,       \* agent runs whose execution job is in the queue
  claimed,       \* agent runs whose execution has started
  failures       \* handlers cut short so far

dashboard == <<runStatus, agents, approvals, scopeRules, metrics>>
execution == <<waiting, claimed>>
vars == <<runStatus, agents, approvals, scopeRules, metrics, calls, waiting,
          claimed, failures>>

-----------------------------------------------------------------------------
(***************************************************************************)
(* The shape of the state.                                                 *)
(***************************************************************************)
RunStatuses == {"planning", "running", "paused", "waiting_approval",
                "completed", "failed", "cancelled"}

AgentStatuses == {"queued", "starting", "running", "waiting_approval",
                  "completed", "failed", "terminated"}

Ended == {"completed", "failed", "terminated"}

AgentRuns == [parent : Nat, depth : Nat, status : AgentStatuses,
              target : Targets, capabilities : SUBSET Capabilities]

Approvals == [agentRun : Nat, kind : {"agent_spawn", "scope_proposal"},
              status : {"pending", "approved", "denied"}, boundaries : SUBSET Boundaries]

Operations == {"idle", "spawn", "dispatch", "pause", "resume", "start", "terminate"}

Calls == [op : Operations, runs : SUBSET Nat]

NoParent == 0

Idle == [op |-> "idle", runs |-> {}]

-----------------------------------------------------------------------------
(***************************************************************************)
(* Helpers.  A definition whose name starts with Slip is a mistake that    *)
(* could be made at that place; the properties below tell it apart from    *)
(* the code.                                                               *)
(***************************************************************************)
SlipCounts(as, ps) ==
  [activeAgents |-> Cardinality({a \in DOMAIN as : as[a].status \notin Ended}),
   pendingApprovals |-> Cardinality({p \in DOMAIN ps : ps[p].status = "pending"})]

\* refreshMetrics, the two counters that handlers of this module can move.
Counts(as, ps) ==
  [activeAgents |-> Cardinality({a \in DOMAIN as : as[a].status = "running"}),
   pendingApprovals |-> Cardinality({p \in DOMAIN ps : ps[p].status = "pending"})]

RefreshMetrics == metrics' = Counts(agents', approvals')

MatchedBy(action, target) ==
  \E rule \in scopeRules : rule.action = action /\ target \in Covers[rule.boundary]

SlipWithinScope(target) == MatchedBy("allow", target)

WithinScope(target) == MatchedBy("allow", target) /\ ~MatchedBy("deny", target)

NeedsApproval(target, capabilities) ==
  ~WithinScope(target) \/ capabilities \cap Gated # {}

DepthBelow(parent) == IF parent = NoParent THEN 1 ELSE agents[parent].depth + 1

SlipAdmissible(parent, capabilities) ==
  /\ parent \in DOMAIN agents \cup {NoParent}
  /\ parent # NoParent => agents[parent].depth <= MaxDepth
  /\ capabilities \subseteq Declared

\* The rejections of PolicyEngine.evaluate that no human can lift.
Admissible(parent, capabilities) ==
  /\ parent \in DOMAIN agents \cup {NoParent}
  /\ DepthBelow(parent) <= MaxDepth
  /\ capabilities \subseteq Declared

\* The runs whose containers a pause or a resume command names.
Controllable ==
  {a \in DOMAIN agents : agents[a].status \in {"running", "starting", "waiting_approval"}}

SlipDispatchable == {a \in DOMAIN agents : agents[a].status \in {"queued", "waiting_approval"}}

Dispatchable == {a \in DOMAIN agents : agents[a].status = "queued"}

SlipActive(a) == agents[a].status # "terminated"

Active(a) == agents[a].status \notin Ended

SlipReporting(a) == IF agents[a].status \in {"queued", "starting"} THEN "started" ELSE agents[a].status

\* A queued or starting run that reports is running.
Reporting(a) ==
  IF agents[a].status \in {"queued", "starting"} THEN "running" ELSE agents[a].status

Pending(ps) == {p \in DOMAIN ps : ps[p].status = "pending"}

SlipDecidedRunStatus(wasPaused) == IF wasPaused THEN "paused" ELSE "waiting_approval"

DecidedRunStatus(wasPaused) ==
  IF Pending(approvals') # {} THEN "waiting_approval"
  ELSE IF wasPaused THEN "paused" ELSE "running"

\* What request r does next; a dispatch loop with nothing left is over.
Proceed(r, op, runs) ==
  calls' = [calls EXCEPT ![r] =
              IF op = "dispatch" /\ runs = {} THEN Idle ELSE [op |-> op, runs |-> runs]]

Finish(r) == calls' = [calls EXCEPT ![r] = Idle]

SlipRemaining(runs, a) == {}

\* The dispatch loop awaits one run before it turns to the next.
Remaining(runs, a) == runs \ {a}
-----------------------------------------------------------------------------
(***************************************************************************)
(* POST /api/engagements leaves a planning run whose only agent is the     *)
(* orchestrator, running at depth zero.                                    *)
(***************************************************************************)
Init ==
  /\ runStatus = "planning"
  /\ agents = <<[parent |-> NoParent, depth |-> 0, status |-> "running",
                 target |-> PrimaryTarget, capabilities |-> {}]>>
  /\ approvals = <<>>
  /\ scopeRules = InitialRules
  /\ metrics = [activeAgents |-> 1, pendingApprovals |-> 0]
  /\ calls = [r \in Requests |-> Idle]
  /\ waiting = {}
  /\ claimed = {}
  /\ failures = 0

(***************************************************************************)
(* spawn.  The mutation either queues the new run and leaves request r to  *)
(* dispatch it, or parks it behind a new approval and is done.  Bodies     *)
(* that name an unknown package, lifecycle or plan shape are rejected from *)
(* the request alone and change nothing.                                   *)
(***************************************************************************)
SpawnOpen == runStatus \notin {"paused", "completed", "failed", "cancelled"}

SpawnMutation(r, parent, body) ==
  LET new == Len(agents) + 1
      needsApproval == NeedsApproval(body.target, body.capabilities)
  IN  /\ SpawnOpen
      /\ Admissible(parent, body.capabilities)
      /\ Len(agents) < MaxAgents
      /\ agents' = Append(agents,
           [parent |-> parent, depth |-> DepthBelow(parent),
            status |-> IF needsApproval THEN "waiting_approval" ELSE "queued",
            target |-> body.target, capabilities |-> body.capabilities])
      /\ \/ /\ needsApproval
            /\ Len(approvals) < MaxApprovals
            /\ approvals' = Append(approvals,
                 [agentRun |-> new, kind |-> "agent_spawn",
                  status |-> "pending", boundaries |-> {}])
            /\ runStatus' = "waiting_approval"
            /\ Finish(r)
         \/ /\ ~needsApproval
            /\ Proceed(r, "dispatch", {new})
            /\ UNCHANGED <<approvals, runStatus>>
      /\ UNCHANGED <<scopeRules, waiting, claimed, failures>>
      /\ RefreshMetrics

Spawn(r, parent, body) ==
  /\ calls[r] = Idle
  /\ SpawnMutation(r, parent, body)

(***************************************************************************)
(* decideApproval.  An approved scope proposal widens the scope and lets   *)
(* its agent go on; every other decision queues or ends the agent run,     *)
(* whatever that run's status is by now.                                   *)
(***************************************************************************)
DecideProposal(p) ==
  LET a == approvals[p].agentRun
      allow == {[boundary |-> b, action |-> "allow"] : b \in approvals[p].boundaries}
      deny == {[boundary |-> b, action |-> "deny"] : b \in approvals[p].boundaries}
  IN  /\ p \in Pending(approvals)
      /\ approvals[p].kind = "scope_proposal"
      /\ approvals' = [approvals EXCEPT ![p].status = "approved"]
      /\ scopeRules' = IF allow \subseteq scopeRules THEN scopeRules
                       ELSE (scopeRules \ deny) \cup allow
      /\ agents' = [agents EXCEPT ![a].status = IF @ = "waiting_approval" THEN "running" ELSE @]
      /\ runStatus' = DecidedRunStatus(runStatus = "paused")
      /\ UNCHANGED <<calls, waiting, claimed, failures>>
      /\ RefreshMetrics

DecideAgent(r, p, decision) ==
  LET a == approvals[p].agentRun
  IN  /\ calls[r] = Idle
      /\ p \in Pending(approvals)
      /\ approvals[p].kind = "agent_spawn" \/ decision = "denied"
      /\ approvals' = [approvals EXCEPT ![p].status = decision]
      /\ agents' = [agents EXCEPT ![a].status =
                      IF decision = "approved" THEN "queued" ELSE "terminated"]
      /\ runStatus' = DecidedRunStatus(runStatus = "paused")
      /\ IF decision = "approved" /\ runStatus # "paused"
         THEN Proceed(r, "dispatch", {a}) ELSE UNCHANGED calls
      /\ UNCHANGED <<scopeRules, waiting, claimed, failures>>
      /\ RefreshMetrics

(***************************************************************************)
(* ingest.  A started execution posts events, in any order and as often as *)
(* it likes.  Log, node, edge, finding and artifact events only add        *)
(* evidence; a scope proposal parks the run; a spawn request first counts  *)
(* as a report, then goes on to spawn a child.                             *)
(***************************************************************************)
IngestEvidence(a) ==
  /\ a \in claimed
  /\ Active(a)
  /\ agents' = [agents EXCEPT ![a].status = Reporting(a)]
  /\ UNCHANGED <<runStatus, approvals, scopeRules, calls, waiting, claimed, failures>>
  /\ RefreshMetrics

IngestScopeProposal(a, b) ==
  /\ a \in claimed
  /\ Active(a)
  /\ "scope.propose" \in agents[a].capabilities
  /\ Len(approvals) < MaxApprovals
  /\ approvals' = Append(approvals, [agentRun |-> a, kind |-> "scope_proposal",
                                     status |-> "pending", boundaries |-> {b}])
  /\ agents' = [agents EXCEPT ![a].status = "waiting_approval"]
  /\ runStatus' = "waiting_approval"
  /\ UNCHANGED <<scopeRules, calls, waiting, claimed, failures>>
  /\ RefreshMetrics

IngestSpawnRequest(r, a) ==
  /\ calls[r] = Idle
  /\ a \in claimed
  /\ Active(a)
  /\ agents' = [agents EXCEPT ![a].status = Reporting(a)]
  /\ Proceed(r, "spawn", {a})
  /\ UNCHANGED <<runStatus, approvals, scopeRules, waiting, claimed, failures>>
  /\ RefreshMetrics

\* The spawn half of a spawn request: admitted as a child, or rejected.
SpawnChild(r, body) ==
  /\ calls[r].op = "spawn"
  /\ \E parent \in calls[r].runs : SpawnMutation(r, parent, body)

RejectChild(r) ==
  /\ calls[r].op = "spawn"
  /\ Finish(r)
  /\ UNCHANGED <<dashboard, execution, failures>>

\* complete: the worker reports an exit; only a terminated run ignores it.
Complete(a, outcome) ==
  /\ a \in claimed
  /\ agents[a].status # "terminated"
  /\ agents' = [agents EXCEPT ![a].status = outcome]
  /\ UNCHANGED <<runStatus, approvals, scopeRules, calls, waiting, claimed, failures>>
  /\ RefreshMetrics

\* terminate, the mutation; a run that already ended is left alone.
Terminate(r, a) ==
  /\ calls[r] = Idle
  /\ a \in DOMAIN agents
  /\ Active(a)
  /\ agents' = [agents EXCEPT ![a].status = "terminated"]
  /\ Proceed(r, "terminate", {a})
  /\ UNCHANGED <<runStatus, approvals, scopeRules, waiting, claimed, failures>>
  /\ RefreshMetrics

(***************************************************************************)
(* setRunState.  Both mutations set the status unconditionally and collect *)
(* the runs to control; resuming then takes every queued run to starting   *)
(* in a second mutation and dispatches them one by one.                    *)
(***************************************************************************)
SetRunState(r, status) ==
  /\ calls[r] = Idle
  /\ runStatus' = status
  /\ Proceed(r, IF status = "paused" THEN "pause" ELSE "resume", Controllable)
  /\ UNCHANGED <<agents, approvals, scopeRules, metrics, waiting, claimed, failures>>

\* executor.controlRun: the command is posted; containers follow it later.
ControlRun(r) ==
  /\ \/ calls[r].op = "pause" /\ Finish(r)
     \/ calls[r].op = "resume" /\ Proceed(r, "start", {})
  /\ UNCHANGED <<dashboard, execution, failures>>

StartQueued(r) ==
  /\ calls[r].op = "start"
  /\ agents' = [a \in DOMAIN agents |->
                  IF a \in Dispatchable THEN [agents[a] EXCEPT !.status = "starting"]
                  ELSE agents[a]]
  /\ Proceed(r, "dispatch", Dispatchable)
  /\ UNCHANGED <<runStatus, approvals, scopeRules, waiting, claimed, failures>>
  /\ RefreshMetrics

(***************************************************************************)
(* ExecutionDriver.  The queue driver adds a job under the run's id, which *)
(* BullMQ ignores while a job of that id is still kept; the simulated      *)
(* driver marks the run as running in a mutation of its own.               *)
(***************************************************************************)
DispatchToQueue(r, a) ==
  /\ Driver = "queue"
  /\ waiting' = waiting \cup ({a} \ claimed)
  /\ UNCHANGED <<agents, metrics, claimed>>

DispatchSimulated(r, a) ==
  /\ Driver = "simulated"
  /\ agents' = [agents EXCEPT ![a].status = "running"]
  /\ metrics' = [metrics EXCEPT !.activeAgents = Counts(agents', approvals).activeAgents]
  /\ claimed' = claimed \cup {a}
  /\ UNCHANGED waiting

Dispatch(r, a) ==
  /\ calls[r].op = "dispatch"
  /\ a \in calls[r].runs
  /\ \A b \in calls[r].runs : a <= b
  /\ DispatchToQueue(r, a) \/ DispatchSimulated(r, a)
  /\ Proceed(r, "dispatch", Remaining(calls[r].runs, a))
  /\ UNCHANGED <<runStatus, approvals, scopeRules, failures>>

\* executor.terminate: a job nobody has claimed is removed from the queue.
TerminateExecution(r) ==
  /\ calls[r].op = "terminate"
  /\ waiting' = waiting \ calls[r].runs
  /\ Finish(r)
  /\ UNCHANGED <<dashboard, claimed, failures>>

\* The worker takes a job from the queue and starts the execution.
Claim(a) ==
  /\ a \in waiting
  /\ waiting' = waiting \ {a}
  /\ claimed' = claimed \cup {a}
  /\ UNCHANGED <<dashboard, calls, failures>>

\* POST and DELETE /api/scope/rules; the last allow rule cannot be removed.
AddScopeRule(rule) ==
  /\ rule \notin scopeRules
  /\ scopeRules' = scopeRules \cup {rule}
  /\ UNCHANGED <<runStatus, agents, approvals, metrics, calls, waiting, claimed, failures>>

RemoveScopeRule(rule) ==
  /\ rule \in scopeRules
  /\ rule.action = "allow" => \E other \in scopeRules \ {rule} : other.action = "allow"
  /\ scopeRules' = scopeRules \ {rule}
  /\ UNCHANGED <<runStatus, agents, approvals, metrics, calls, waiting, claimed, failures>>

\* A call of the handler throws, or the API process stops: the rest is lost.
Fail(r) ==
  /\ failures < MaxFailures
  /\ calls[r] # Idle
  /\ Finish(r)
  /\ failures' = failures + 1
  /\ UNCHANGED <<dashboard, execution>>

Crash ==
  /\ failures < MaxFailures
  /\ calls' = [r \in Requests |-> Idle]
  /\ failures' = failures + 1
  /\ UNCHANGED <<dashboard, execution>>

\* Whatever request r does next without waiting for anybody.
Continue(r) ==
  \/ \E body \in Bodies : SpawnChild(r, body)
  \/ RejectChild(r)
  \/ ControlRun(r)
  \/ StartQueued(r)
  \/ \E a \in DOMAIN agents : Dispatch(r, a)
  \/ TerminateExecution(r)

Next ==
  \/ \E r \in Requests, parent \in DOMAIN agents \cup {NoParent}, body \in Bodies :
       Spawn(r, parent, body)
  \/ \E p \in DOMAIN approvals : DecideProposal(p)
  \/ \E r \in Requests, p \in DOMAIN approvals, decision \in {"approved", "denied"} :
       DecideAgent(r, p, decision)
  \/ \E a \in claimed : IngestEvidence(a)
  \/ \E a \in claimed, b \in Boundaries : IngestScopeProposal(a, b)
  \/ \E r \in Requests, a \in claimed : IngestSpawnRequest(r, a)
  \/ \E a \in claimed, outcome \in {"completed", "failed"} : Complete(a, outcome)
  \/ \E r \in Requests, a \in DOMAIN agents : Terminate(r, a)
  \/ \E r \in Requests, status \in {"running", "paused"} : SetRunState(r, status)
  \/ \E r \in Requests : Continue(r)
  \/ \E a \in waiting : Claim(a)
  \/ \E rule \in OperatorRules : AddScopeRule(rule)
  \/ \E rule \in OperatorRules : RemoveScopeRule(rule)
  \/ \E r \in Requests : Fail(r)
  \/ Crash

Spec == Init /\ [][Next]_vars

\* The event loop runs every handler that has not been cut short to its end.
Fairness == \A r \in Requests : WF_vars(Continue(r))

\* Operators terminate nothing, and are otherwise free.
Unterminated == Init /\ [][Next /\ ~\E r \in Requests, a \in DOMAIN agents : Terminate(r, a)]_vars

FairSpec == Unterminated /\ Fairness
-----------------------------------------------------------------------------
(***************************************************************************)
(* Properties.                                                             *)
(***************************************************************************)

\* Every variable keeps its shape.
TypeOK ==
  /\ runStatus \in RunStatuses
  /\ agents \in Seq(AgentRuns)
  /\ approvals \in Seq(Approvals)
  /\ scopeRules \subseteq ScopeRules
  /\ metrics \in [activeAgents : Nat, pendingApprovals : Nat]
  /\ calls \in [Requests -> Calls]
  /\ waiting \subseteq DOMAIN agents
  /\ claimed \subseteq DOMAIN agents
  /\ failures \in Nat

Launched == waiting \cup claimed

SpawnApprovals(a) ==
  {p \in DOMAIN approvals : approvals[p].kind = "agent_spawn" /\ approvals[p].agentRun = a}

\* A human stands behind the run: no decision on it is pending or was a
\* denial, and gated capabilities come with an approval.
Authorised(a) ==
  /\ \A p \in SpawnApprovals(a) : approvals[p].status = "approved"
  /\ agents[a].capabilities \cap Gated # {} => SpawnApprovals(a) # {}

\* No execution reaches the queue, or a container, on the strength of a resume,
\* a report or a retry: a human approved it first wherever the policy said so
\* (spawn, decideApproval, setRunState and dispatch together).
LaunchedIsAuthorised == \A a \in Launched : Authorised(a)

Dispatching(a) == \E r \in Requests : calls[r].op = "dispatch" /\ a \in calls[r].runs

\* Positions name agent runs that exist, and a run is asked about once at birth.
Linked ==
  /\ \A p \in DOMAIN approvals : approvals[p].agentRun \in DOMAIN agents
  /\ \A r \in Requests : calls[r].runs \subseteq DOMAIN agents
  /\ \A a \in DOMAIN agents : \A p, q \in SpawnApprovals(a) : p = q

Cleared(a) == a \in Launched \/ agents[a].status = "queued" \/ Dispatching(a)

\* Why LaunchedIsAuthorised holds: a run is authorised from the moment it is
\* queued, so that neither resume nor a dispatch under way needs to ask again
\* (spawn, decideApproval, setRunState).
QueuedIsAuthorised ==
  /\ Linked
  /\ \A a \in DOMAIN agents : Cleared(a) => Authorised(a)

\* Recursion is bounded by the stored lineage: each run sits one level below a
\* parent that was created before it, and none is deeper than the policy admits
\* (spawn and PolicyEngine.evaluate).
LineageSound ==
  \A a \in DOMAIN agents :
    /\ agents[a].parent < a
    /\ agents[a].depth <= MaxDepth
    /\ a > 1 => agents[a].depth =
         IF agents[a].parent = NoParent THEN 1 ELSE agents[agents[a].parent].depth + 1

\* Whoever waits for a human has a question before a human: a run or an agent in
\* waiting_approval has a pending approval of its own that will release it
\* (spawn, decideApproval and applyEvent keep three records in step).
NobodyWaitsForNothing ==
  /\ runStatus = "waiting_approval" => Pending(approvals) # {}
  /\ \A a \in DOMAIN agents : agents[a].status = "waiting_approval" =>
       \E p \in Pending(approvals) : approvals[p].agentRun = a

\* The counters of the dashboard are never stale, whichever handler ran last.
MetricsFresh ==
  /\ metrics.activeAgents = Cardinality({a \in DOMAIN agents : agents[a].status = "running"})
  /\ metrics.pendingApprovals =
       Cardinality({p \in DOMAIN approvals : approvals[p].status = "pending"})

\* Deny rules override allow rules, and an unmatched target is denied: a run is
\* queued at birth only inside the scope of that moment (policy.ts).
ScopeGate ==
  [][\A a \in DOMAIN agents' \ DOMAIN agents : agents'[a].status = "queued" =>
       /\ \E rule \in scopeRules : rule.action = "allow"
                                   /\ agents'[a].target \in Covers[rule.boundary]
       /\ \A rule \in scopeRules : agents'[a].target \in Covers[rule.boundary]
                                   => rule.action # "deny"]_vars

\* Late events, late exits and resumes never bring an ended run back: only a
\* decision on one of its own approvals can (ingest, complete, setRunState).
OnlyDecisionReopens ==
  [][\A a \in DOMAIN agents : agents[a].status \in Ended /\ agents'[a].status \notin Ended =>
       \E p \in Pending(approvals) : /\ approvals[p].agentRun = a
                                     /\ approvals'[p].status = "approved"]_vars

Starting(a) == a \in DOMAIN agents /\ agents[a].status = "starting"

\* "Resume ... dispatches queued agents" (docs/operations.md): a run that resume
\* has taken to starting reaches the queue (setRunState), while nobody
\* terminates anything.
StartingIsLaunched ==
  \A a \in 1..MaxAgents :
    Starting(a) ~> (a \in Launched \/ (a \in DOMAIN agents /\ agents[a].status \in Ended))

=============================================================================
