------------------------- MODULE OrchestratorProofs -------------------------
(***************************************************************************)
(* What Orchestrator promises for every value of its constants.            *)
(***************************************************************************)
EXTENDS Orchestrator, SequenceFacts, FiniteSetTheorems, SequenceTheorems, TLAPS

-----------------------------------------------------------------------------
(***************************************************************************)
(* Facts about the data the handlers work on.                              *)
(***************************************************************************)

\* Writing the status of one agent run leaves a sequence of agent runs that
\* differs in that status alone.
LEMMA StatusWritten ==
  ASSUME NEW s \in Seq(AgentRuns), NEW a \in DOMAIN s, NEW st \in AgentStatuses,
         NEW t, t = [s EXCEPT ![a].status = st]
  PROVE  /\ t \in Seq(AgentRuns)
         /\ Len(t) = Len(s)
         /\ DOMAIN t = DOMAIN s
         /\ t[a] = [s[a] EXCEPT !.status = st]
         /\ \A b \in DOMAIN s : b # a => t[b] = s[b]
<1>1. Len(s) \in Nat /\ DOMAIN s = 1..Len(s) /\ s \in [1..Len(s) -> AgentRuns]
  BY LenProperties
<1>2. t \in [1..Len(s) -> AgentRuns]
  BY <1>1 DEF AgentRuns
<1>3. t \in Seq(AgentRuns) /\ Len(t) = Len(s) /\ DOMAIN t = DOMAIN s
  BY <1>1, <1>2, FunctionIsSeq
<1> QED
  BY <1>1, <1>3

\* The counters of the dashboard are numbers.
LEMMA CountsType ==
  ASSUME NEW as \in Seq(AgentRuns), NEW ps \in Seq(Approvals)
  PROVE  Counts(as, ps) \in [activeAgents : Nat, pendingApprovals : Nat]
<1>1. Len(as) \in Nat /\ DOMAIN as = 1..Len(as) /\ Len(ps) \in Nat /\ DOMAIN ps = 1..Len(ps)
  BY LenProperties
<1>2. \A n \in Nat : IsFiniteSet(1..n)
  BY FS_Interval
<1>3. Cardinality({a \in DOMAIN as : as[a].status = "running"}) \in Nat
  BY <1>1, <1>2, FS_Subset, FS_CardinalityType
<1>4. Cardinality({p \in DOMAIN ps : ps[p].status = "pending"}) \in Nat
  BY <1>1, <1>2, FS_Subset, FS_CardinalityType
<1> QED
  BY <1>3, <1>4 DEF Counts

\* Deciding an approval changes its status alone.
LEMMA DecisionWritten ==
  ASSUME NEW s \in Seq(Approvals), NEW p \in DOMAIN s, NEW d \in {"approved", "denied"},
         NEW t, t = [s EXCEPT ![p].status = d]
  PROVE  /\ t \in Seq(Approvals)
         /\ DOMAIN t = DOMAIN s
         /\ t[p] = [s[p] EXCEPT !.status = d]
         /\ \A q \in DOMAIN s : q # p => t[q] = s[q]
<1>1. Len(s) \in Nat /\ DOMAIN s = 1..Len(s) /\ s \in [1..Len(s) -> Approvals]
  BY LenProperties
<1>2. t \in [1..Len(s) -> Approvals]
  BY <1>1 DEF Approvals
<1>3. t \in Seq(Approvals) /\ DOMAIN t = DOMAIN s
  BY <1>1, <1>2, FunctionIsSeq
<1> QED
  BY <1>1, <1>3

\* What a request still has to do is always a call.
LEMMA ProceedType ==
  ASSUME calls \in [Requests -> Calls], NEW r \in Requests,
         NEW op \in Operations, NEW runs \in SUBSET Nat, Proceed(r, op, runs)
  PROVE  calls' \in [Requests -> Calls]
BY DEF Proceed, Idle, Calls, Operations

LEMMA FinishType ==
  ASSUME calls \in [Requests -> Calls], NEW r \in Requests, Finish(r)
  PROVE  calls' \in [Requests -> Calls]
BY DEF Finish, Idle, Calls, Operations

\* Positions hold agent runs and approvals.
LEMMA RunTyped ==
  ASSUME TypeOK
  PROVE  /\ Len(agents) \in Nat
         /\ DOMAIN agents = 1..Len(agents)
         /\ \A a \in DOMAIN agents :
              /\ agents[a] \in AgentRuns
              /\ agents[a].parent \in Nat
              /\ agents[a].depth \in Nat
              /\ agents[a].status \in AgentStatuses
<1>1. Len(agents) \in Nat /\ DOMAIN agents = 1..Len(agents)
  BY LenProperties DEF TypeOK
<1>2. \A a \in DOMAIN agents : agents[a] \in AgentRuns
  BY <1>1, ElementOfSeq DEF TypeOK
<1> QED
  BY <1>1, <1>2 DEF AgentRuns

LEMMA ApprovalTyped ==
  ASSUME TypeOK
  PROVE  /\ Len(approvals) \in Nat
         /\ DOMAIN approvals = 1..Len(approvals)
         /\ \A p \in DOMAIN approvals :
              /\ approvals[p] \in Approvals
              /\ approvals[p].boundaries \in SUBSET Boundaries
<1>1. Len(approvals) \in Nat /\ DOMAIN approvals = 1..Len(approvals)
  BY LenProperties DEF TypeOK
<1>2. \A p \in DOMAIN approvals : approvals[p] \in Approvals
  BY <1>1, ElementOfSeq DEF TypeOK
<1> QED
  BY <1>1, <1>2 DEF Approvals

\* A step that refreshes the counters leaves them well-typed.
LEMMA RefreshType ==
  ASSUME agents' \in Seq(AgentRuns), approvals' \in Seq(Approvals), RefreshMetrics
  PROVE  metrics' \in [activeAgents : Nat, pendingApprovals : Nat]
BY CountsType DEF RefreshMetrics
-----------------------------------------------------------------------------
(***************************************************************************)
(* Type correctness.                                                       *)
(***************************************************************************)
LEMMA TypeInit == Init => TypeOK
<1> SUFFICES ASSUME Init PROVE TypeOK
  OBVIOUS
<1>1. agents \in Seq(AgentRuns) /\ approvals \in Seq(Approvals)
  <2>1. [parent |-> NoParent, depth |-> 0, status |-> "running",
         target |-> PrimaryTarget, capabilities |-> {}] \in AgentRuns
    BY OrchestratorAssumption DEF AgentRuns, AgentStatuses, NoParent
  <2> QED
    BY <2>1 DEF Init
<1>2. calls \in [Requests -> Calls]
  BY DEF Init, Idle, Calls, Operations
<1> QED
  BY <1>1, <1>2, OrchestratorAssumption DEF Init, TypeOK, RunStatuses

LEMMA SpawnType ==
  ASSUME TypeOK, NEW r \in Requests, NEW parent, NEW body \in Bodies,
         SpawnMutation(r, parent, body)
  PROVE  TypeOK'
<1>1. DOMAIN agents = 1..Len(agents) /\ Len(agents) \in Nat
  BY RunTyped
<1>2. parent \in Nat /\ DepthBelow(parent) \in Nat
  BY RunTyped DEF SpawnMutation, Admissible, DepthBelow, NoParent
<1>3. PICK new \in AgentRuns : agents' = Append(agents, new)
  BY <1>2, OrchestratorAssumption DEF SpawnMutation, AgentRuns, AgentStatuses
<1>4. agents' \in Seq(AgentRuns) /\ DOMAIN agents \subseteq DOMAIN agents'
  BY <1>3, Appended DEF TypeOK
<1>5. approvals' \in Seq(Approvals)
  <2> DEFINE asked == [agentRun |-> Len(agents) + 1, kind |-> "agent_spawn",
                       status |-> "pending", boundaries |-> {}]
  <2>1. approvals \in Seq(Approvals) /\ asked \in Approvals
    BY <1>1 DEF Approvals, TypeOK
  <2>2. approvals' = approvals \/ approvals' = Append(approvals, asked)
    BY DEF SpawnMutation
  <2> QED
    BY <2>1, <2>2, Appended
<1>6. calls' \in [Requests -> Calls]
  <2>1. CASE Finish(r)
    BY <2>1, FinishType DEF TypeOK
  <2>2. CASE Proceed(r, "dispatch", {Len(agents) + 1})
    BY <1>1, <2>2, ProceedType DEF TypeOK, Operations
  <2> QED
    BY <2>1, <2>2 DEF SpawnMutation
<1>7. metrics' \in [activeAgents : Nat, pendingApprovals : Nat]
  BY <1>4, <1>5, RefreshType DEF SpawnMutation
<1> QED
  BY <1>4, <1>5, <1>6, <1>7 DEF TypeOK, SpawnMutation, RunStatuses

\* The common shape of the other handlers: one status written, counters fresh.
LEMMA WriteType ==
  ASSUME TypeOK, NEW a \in DOMAIN agents, NEW st \in AgentStatuses,
         agents' = [agents EXCEPT ![a].status = st],
         approvals' \in Seq(Approvals), runStatus' \in RunStatuses,
         scopeRules' \subseteq ScopeRules, calls' \in [Requests -> Calls],
         UNCHANGED <<waiting, claimed, failures>>, RefreshMetrics
  PROVE  TypeOK'
<1>1. agents' \in Seq(AgentRuns) /\ DOMAIN agents' = DOMAIN agents
  BY StatusWritten DEF TypeOK
<1>2. metrics' \in [activeAgents : Nat, pendingApprovals : Nat]
  BY <1>1, RefreshType
<1> QED
  BY <1>1, <1>2 DEF TypeOK

LEMMA DecisionType ==
  ASSUME TypeOK, NEW p \in DOMAIN approvals, NEW wasPaused,
         runStatus' = DecidedRunStatus(wasPaused)
  PROVE  runStatus' \in RunStatuses
BY DEF DecidedRunStatus, RunStatuses

LEMMA DecideProposalType ==
  ASSUME TypeOK, NEW p \in DOMAIN approvals, approvals[p].agentRun \in DOMAIN agents,
         DecideProposal(p)
  PROVE  TypeOK'
<1> DEFINE a == approvals[p].agentRun
           allow == {[boundary |-> b, action |-> "allow"] : b \in approvals[p].boundaries}
           deny == {[boundary |-> b, action |-> "deny"] : b \in approvals[p].boundaries}
           st == IF agents[a].status = "waiting_approval" THEN "running" ELSE agents[a].status
<1>1. approvals' \in Seq(Approvals)
  BY DecisionWritten DEF DecideProposal, TypeOK
<1>2. scopeRules' \subseteq ScopeRules
  <2>1. allow \subseteq ScopeRules
    BY ApprovalTyped DEF ScopeRules
  <2>2. scopeRules' = scopeRules \/ scopeRules' = (scopeRules \ deny) \cup allow
    BY DEF DecideProposal
  <2> QED
    BY <2>1, <2>2 DEF TypeOK
<1>3. runStatus' \in RunStatuses
  BY DecisionType DEF DecideProposal
<1>4. st \in AgentStatuses
  BY RunTyped DEF AgentStatuses
<1>5. agents' = [agents EXCEPT ![a].status = st]
  BY DEF DecideProposal
<1>6. UNCHANGED <<calls, waiting, claimed, failures>> /\ RefreshMetrics
  BY DEF DecideProposal
<1>7. calls' \in [Requests -> Calls]
  BY <1>6 DEF TypeOK
<1> QED
  BY <1>1, <1>2, <1>3, <1>4, <1>5, <1>6, <1>7, WriteType

LEMMA DecideAgentType ==
  ASSUME TypeOK, NEW r \in Requests, NEW p \in DOMAIN approvals,
         approvals[p].agentRun \in DOMAIN agents,
         NEW decision \in {"approved", "denied"}, DecideAgent(r, p, decision)
  PROVE  TypeOK'
<1> DEFINE a == approvals[p].agentRun
           st == IF decision = "approved" THEN "queued" ELSE "terminated"
<1>1. approvals' \in Seq(Approvals)
  BY DecisionWritten DEF DecideAgent, TypeOK
<1>2. runStatus' \in RunStatuses
  BY DecisionType DEF DecideAgent
<1>3. calls' \in [Requests -> Calls]
  <2>1. {a} \in SUBSET Nat
    BY RunTyped
  <2>2. calls' = calls \/ Proceed(r, "dispatch", {a})
    BY DEF DecideAgent
  <2>3. calls \in [Requests -> Calls]
    BY DEF TypeOK
  <2> QED
    BY <2>1, <2>2, <2>3, ProceedType DEF Operations
<1>4. st \in AgentStatuses
  BY DEF AgentStatuses
<1>5. agents' = [agents EXCEPT ![a].status = st] /\ RefreshMetrics
  BY DEF DecideAgent
<1>6. UNCHANGED <<scopeRules, waiting, claimed, failures>>
  BY DEF DecideAgent
<1>7. scopeRules' \subseteq ScopeRules
  BY <1>6 DEF TypeOK
<1> QED
  BY <1>1, <1>2, <1>3, <1>4, <1>5, <1>6, <1>7, WriteType

LEMMA IngestType ==
  ASSUME TypeOK, NEW a \in claimed,
         \/ IngestEvidence(a)
         \/ \E b \in Boundaries : IngestScopeProposal(a, b)
         \/ \E r \in Requests : IngestSpawnRequest(r, a)
         \/ \E outcome \in {"completed", "failed"} : Complete(a, outcome)
  PROVE  TypeOK'
<1>1. a \in DOMAIN agents /\ agents[a].status \in AgentStatuses /\ a \in Nat
  BY RunTyped DEF TypeOK
<1>2. Reporting(a) \in AgentStatuses
  BY <1>1 DEF Reporting, AgentStatuses
<1>3. CASE IngestEvidence(a)
  BY <1>1, <1>2, <1>3, WriteType DEF IngestEvidence, TypeOK
<1>4. ASSUME NEW b \in Boundaries, IngestScopeProposal(a, b)
      PROVE  TypeOK'
  <2> DEFINE asked == [agentRun |-> a, kind |-> "scope_proposal",
                       status |-> "pending", boundaries |-> {b}]
  <2>1. approvals \in Seq(Approvals) /\ asked \in Approvals
    BY <1>1 DEF TypeOK, Approvals
  <2>2. approvals' \in Seq(Approvals)
    BY <1>4, <2>1, Appended DEF IngestScopeProposal
  <2>3. /\ agents' = [agents EXCEPT ![a].status = "waiting_approval"]
        /\ "waiting_approval" \in AgentStatuses
        /\ runStatus' \in RunStatuses
        /\ UNCHANGED <<waiting, claimed, failures>>
        /\ RefreshMetrics
    BY <1>4 DEF IngestScopeProposal, RunStatuses, AgentStatuses
  <2>4. scopeRules' \subseteq ScopeRules /\ calls' \in [Requests -> Calls]
    BY <1>4 DEF IngestScopeProposal, TypeOK
  <2> QED
    BY <1>1, <2>2, <2>3, <2>4, WriteType
<1>5. ASSUME NEW r \in Requests, IngestSpawnRequest(r, a)
      PROVE  TypeOK'
  <2>1. calls' \in [Requests -> Calls]
    BY <1>1, <1>5, ProceedType DEF IngestSpawnRequest, TypeOK, Operations
  <2> QED
    BY <1>1, <1>2, <1>5, <2>1, WriteType DEF IngestSpawnRequest, TypeOK
<1>6. ASSUME NEW outcome \in {"completed", "failed"}, Complete(a, outcome)
      PROVE  TypeOK'
  <2>1. outcome \in AgentStatuses
    BY DEF AgentStatuses
  <2> QED
    BY <1>1, <1>6, <2>1, WriteType DEF Complete, TypeOK
<1> QED
  BY <1>3, <1>4, <1>5, <1>6

LEMMA TerminateType ==
  ASSUME TypeOK, NEW r \in Requests, NEW a \in DOMAIN agents, Terminate(r, a)
  PROVE  TypeOK'
<1>1. calls' \in [Requests -> Calls]
  BY RunTyped, ProceedType DEF Terminate, TypeOK, Operations
<1>2. "terminated" \in AgentStatuses
  BY DEF AgentStatuses
<1> QED
  BY <1>1, <1>2, WriteType DEF Terminate, TypeOK

LEMMA SetRunStateType ==
  ASSUME TypeOK, NEW r \in Requests, NEW status \in {"running", "paused"},
         SetRunState(r, status)
  PROVE  TypeOK'
<1>1. Controllable \in SUBSET Nat
  BY RunTyped DEF Controllable
<1>2. calls' \in [Requests -> Calls]
  BY <1>1, ProceedType DEF SetRunState, TypeOK, Operations
<1> QED
  BY <1>2 DEF SetRunState, TypeOK, RunStatuses

LEMMA StartQueuedType ==
  ASSUME TypeOK, NEW r \in Requests, StartQueued(r)
  PROVE  TypeOK' /\ DOMAIN agents' = DOMAIN agents
<1>1. agents' \in [1..Len(agents) -> AgentRuns]
  BY RunTyped DEF StartQueued, AgentRuns, AgentStatuses
<1>2. agents' \in Seq(AgentRuns) /\ DOMAIN agents' = DOMAIN agents
  BY <1>1, RunTyped, FunctionIsSeq
<1>3. calls' \in [Requests -> Calls]
  BY RunTyped, ProceedType DEF StartQueued, Dispatchable, TypeOK, Operations
<1>4. metrics' \in [activeAgents : Nat, pendingApprovals : Nat]
  BY <1>2, RefreshType DEF StartQueued, TypeOK
<1> QED
  BY <1>2, <1>3, <1>4 DEF StartQueued, TypeOK

LEMMA DispatchType ==
  ASSUME TypeOK, NEW r \in Requests, NEW a \in DOMAIN agents, Dispatch(r, a)
  PROVE  TypeOK' /\ DOMAIN agents' = DOMAIN agents
<1>1. calls' \in [Requests -> Calls]
  <2>1. calls[r].runs \in SUBSET Nat
    BY DEF TypeOK, Calls
  <2> QED
    BY <2>1, ProceedType DEF Dispatch, Remaining, TypeOK, Operations
<1>2. CASE DispatchToQueue(r, a)
  BY <1>1, <1>2 DEF Dispatch, DispatchToQueue, TypeOK
<1>3. CASE DispatchSimulated(r, a)
  <2>1. agents' \in Seq(AgentRuns) /\ DOMAIN agents' = DOMAIN agents
    BY <1>3, StatusWritten DEF DispatchSimulated, TypeOK, AgentStatuses
  <2>2. Counts(agents', approvals).activeAgents \in Nat
    BY <2>1, CountsType DEF TypeOK
  <2>3. metrics' \in [activeAgents : Nat, pendingApprovals : Nat]
    BY <1>3, <2>2 DEF DispatchSimulated, TypeOK
  <2> QED
    BY <1>1, <1>3, <2>1, <2>3 DEF Dispatch, DispatchSimulated, TypeOK
<1> QED
  BY <1>2, <1>3 DEF Dispatch

LEMMA ContinueType ==
  ASSUME TypeOK, NEW r \in Requests, Continue(r)
  PROVE  TypeOK'
<1>1. ASSUME NEW body \in Bodies, SpawnChild(r, body)
      PROVE  TypeOK'
  BY <1>1, SpawnType DEF SpawnChild
<1>2. CASE RejectChild(r)
  BY <1>2, FinishType DEF RejectChild, TypeOK, dashboard, execution
<1>3. CASE ControlRun(r)
  <2>1. calls' \in [Requests -> Calls]
    BY <1>3, FinishType, ProceedType DEF ControlRun, TypeOK, Operations
  <2> QED
    BY <1>3, <2>1 DEF ControlRun, TypeOK, dashboard, execution
<1>4. CASE StartQueued(r)
  BY <1>4, StartQueuedType
<1>5. ASSUME NEW a \in DOMAIN agents, Dispatch(r, a)
      PROVE  TypeOK'
  BY <1>5, DispatchType
<1>6. CASE TerminateExecution(r)
  BY <1>6, FinishType DEF TerminateExecution, TypeOK, dashboard
<1> QED
  BY <1>1, <1>2, <1>3, <1>4, <1>5, <1>6 DEF Continue

LEMMA TypeStep ==
  ASSUME TypeOK, Linked, [Next]_vars
  PROVE  TypeOK'
<1>1. CASE UNCHANGED vars
  BY <1>1 DEF TypeOK, vars
<1>2. ASSUME NEW r \in Requests, NEW parent, NEW body \in Bodies, Spawn(r, parent, body)
      PROVE  TypeOK'
  BY <1>2, SpawnType DEF Spawn
<1>3. ASSUME NEW p \in DOMAIN approvals, DecideProposal(p)
      PROVE  TypeOK'
  BY <1>3, DecideProposalType DEF Linked
<1>4. ASSUME NEW r \in Requests, NEW p \in DOMAIN approvals,
             NEW decision \in {"approved", "denied"}, DecideAgent(r, p, decision)
      PROVE  TypeOK'
  BY <1>4, DecideAgentType DEF Linked
<1>5. ASSUME NEW a \in claimed,
             \/ IngestEvidence(a)
             \/ \E b \in Boundaries : IngestScopeProposal(a, b)
             \/ \E r \in Requests : IngestSpawnRequest(r, a)
             \/ \E outcome \in {"completed", "failed"} : Complete(a, outcome)
      PROVE  TypeOK'
  BY <1>5, IngestType
<1>6. ASSUME NEW r \in Requests, NEW a \in DOMAIN agents, Terminate(r, a)
      PROVE  TypeOK'
  BY <1>6, TerminateType
<1>7. ASSUME NEW r \in Requests, NEW status \in {"running", "paused"}, SetRunState(r, status)
      PROVE  TypeOK'
  BY <1>7, SetRunStateType
<1>8. ASSUME NEW r \in Requests, Continue(r)
      PROVE  TypeOK'
  BY <1>8, ContinueType
<1>9. ASSUME NEW a \in waiting, Claim(a)
      PROVE  TypeOK'
  BY <1>9 DEF Claim, TypeOK, dashboard
<1>10. ASSUME NEW rule \in OperatorRules, AddScopeRule(rule) \/ RemoveScopeRule(rule)
       PROVE  TypeOK'
  BY <1>10, OrchestratorAssumption DEF AddScopeRule, RemoveScopeRule, TypeOK
<1>11. ASSUME NEW r \in Requests, Fail(r)
       PROVE  TypeOK'
  BY <1>11, FinishType DEF Fail, TypeOK, dashboard, execution
<1>12. CASE Crash
  BY <1>12 DEF Crash, Idle, Calls, Operations, TypeOK, dashboard, execution
<1> QED
  BY <1>1, <1>2, <1>3, <1>4, <1>5, <1>6, <1>7, <1>8, <1>9, <1>10, <1>11, <1>12 DEF Next

-----------------------------------------------------------------------------
(***************************************************************************)
(* What no handler ever does: an agent run keeps its place, its depth, its *)
(* target and its capabilities, and what was asked about it and approved   *)
(* stays asked and approved.                                               *)
(***************************************************************************)
KeepsRuns ==
  /\ DOMAIN agents \subseteq DOMAIN agents'
  /\ \A a \in DOMAIN agents :
       /\ agents'[a].parent = agents[a].parent
       /\ agents'[a].depth = agents[a].depth
       /\ agents'[a].capabilities = agents[a].capabilities

KeepsApprovals ==
  /\ DOMAIN approvals \subseteq DOMAIN approvals'
  /\ \A p \in DOMAIN approvals :
       /\ approvals'[p].agentRun = approvals[p].agentRun
       /\ approvals'[p].kind = approvals[p].kind
       /\ approvals[p].status # "pending" => approvals'[p].status = approvals[p].status
  /\ \A p \in DOMAIN approvals' \ DOMAIN approvals :
       approvals'[p].kind = "agent_spawn" => approvals'[p].agentRun \notin DOMAIN agents

LEMMA WriteKeepsRuns ==
  ASSUME TypeOK, NEW a \in DOMAIN agents, NEW st \in AgentStatuses,
         agents' = [agents EXCEPT ![a].status = st]
  PROVE  /\ KeepsRuns
         /\ DOMAIN agents' = DOMAIN agents
         /\ agents'[a].status = st
         /\ \A b \in DOMAIN agents : b # a => agents'[b] = agents[b]
<1>1. /\ DOMAIN agents' = DOMAIN agents
      /\ agents'[a] = [agents[a] EXCEPT !.status = st]
      /\ \A b \in DOMAIN agents : b # a => agents'[b] = agents[b]
  BY StatusWritten DEF TypeOK
<1>2. agents[a] \in AgentRuns
  BY RunTyped
<1>3. /\ agents'[a].parent = agents[a].parent
      /\ agents'[a].depth = agents[a].depth
      /\ agents'[a].capabilities = agents[a].capabilities
      /\ agents'[a].status = st
  BY <1>1, <1>2 DEF AgentRuns
<1> QED
  BY <1>1, <1>3 DEF KeepsRuns

LEMMA DecisionKeepsApprovals ==
  ASSUME TypeOK, NEW p \in Pending(approvals), NEW d \in {"approved", "denied"},
         approvals' = [approvals EXCEPT ![p].status = d]
  PROVE  /\ KeepsApprovals
         /\ DOMAIN approvals' = DOMAIN approvals
         /\ approvals'[p].status = d
         /\ \A q \in DOMAIN approvals : q # p => approvals'[q] = approvals[q]
<1>1. p \in DOMAIN approvals /\ approvals[p].status = "pending"
  BY DEF Pending
<1>2. /\ DOMAIN approvals' = DOMAIN approvals
      /\ approvals'[p] = [approvals[p] EXCEPT !.status = d]
      /\ \A q \in DOMAIN approvals : q # p => approvals'[q] = approvals[q]
  BY <1>1, DecisionWritten DEF TypeOK
<1>3. approvals[p] \in Approvals
  BY <1>1, ApprovalTyped
<1>4. /\ approvals'[p].agentRun = approvals[p].agentRun
      /\ approvals'[p].kind = approvals[p].kind
      /\ approvals'[p].status = d
  BY <1>2, <1>3 DEF Approvals
<1> QED
  BY <1>1, <1>2, <1>4 DEF KeepsApprovals

\* A spawn adds one run and at most one approval, which asks about that run.
LEMMA SpawnKeeps ==
  ASSUME TypeOK, NEW r \in Requests, NEW parent, NEW body \in Bodies,
         SpawnMutation(r, parent, body)
  PROVE  /\ KeepsRuns /\ KeepsApprovals
         /\ Len(agents) + 1 \notin DOMAIN agents
         /\ DOMAIN agents' = DOMAIN agents \cup {Len(agents) + 1}
         /\ agents'[Len(agents) + 1].parent = parent
         /\ agents'[Len(agents) + 1].depth = DepthBelow(parent)
         /\ agents'[Len(agents) + 1].target = body.target
         /\ agents'[Len(agents) + 1].capabilities = body.capabilities
         /\ agents'[Len(agents) + 1].status =
              IF NeedsApproval(body.target, body.capabilities)
              THEN "waiting_approval" ELSE "queued"
         /\ \A a \in DOMAIN agents : agents'[a] = agents[a]
         /\ \/ approvals' = approvals /\ ~NeedsApproval(body.target, body.capabilities)
            \/ /\ NeedsApproval(body.target, body.capabilities)
               /\ DOMAIN approvals' = DOMAIN approvals \cup {Len(approvals) + 1}
               /\ Len(approvals) + 1 \notin DOMAIN approvals
               /\ approvals'[Len(approvals) + 1].agentRun = Len(agents) + 1
               /\ approvals'[Len(approvals) + 1].status = "pending"
               /\ \A p \in DOMAIN approvals : approvals'[p] = approvals[p]
<1> DEFINE needed == NeedsApproval(body.target, body.capabilities)
           new == [parent |-> parent, depth |-> DepthBelow(parent),
                   status |-> IF needed THEN "waiting_approval" ELSE "queued",
                   target |-> body.target, capabilities |-> body.capabilities]
           asked == [agentRun |-> Len(agents) + 1, kind |-> "agent_spawn",
                     status |-> "pending", boundaries |-> {}]
<1>1. agents' = Append(agents, new) /\ parent \in DOMAIN agents \cup {NoParent}
  BY DEF SpawnMutation, Admissible
<1>2. parent \in Nat /\ DepthBelow(parent) \in Nat
  BY <1>1, RunTyped DEF DepthBelow, NoParent
<1>3. new \in AgentRuns
  BY <1>2, OrchestratorAssumption DEF AgentRuns, AgentStatuses
<1>4. agents \in Seq(AgentRuns) /\ approvals \in Seq(Approvals) /\ asked \in Approvals
  BY RunTyped DEF TypeOK, Approvals
<1>5. /\ DOMAIN agents' = DOMAIN agents \cup {Len(agents) + 1}
      /\ agents'[Len(agents) + 1] = new
      /\ \A a \in DOMAIN agents : agents'[a] = agents[a]
  BY <1>1, <1>3, <1>4, Appended
<1>6. Len(agents) + 1 \notin DOMAIN agents /\ Len(approvals) + 1 \notin DOMAIN approvals
  BY RunTyped, ApprovalTyped
<1>7. KeepsRuns
  BY <1>5 DEF KeepsRuns
<1>8. CASE approvals' = approvals /\ ~needed
  BY <1>5, <1>6, <1>7, <1>8 DEF KeepsApprovals
<1>9. CASE approvals' = Append(approvals, asked) /\ needed
  <2>1. /\ DOMAIN approvals' = DOMAIN approvals \cup {Len(approvals) + 1}
        /\ approvals'[Len(approvals) + 1] = asked
        /\ \A p \in DOMAIN approvals : approvals'[p] = approvals[p]
    BY <1>4, <1>9, Appended
  <2>2. KeepsApprovals
    BY <1>6, <2>1 DEF KeepsApprovals
  <2> QED
    BY <1>5, <1>6, <1>7, <1>9, <2>1, <2>2
<1> QED
  BY <1>8, <1>9 DEF SpawnMutation

LEMMA ProposalKeepsApprovals ==
  ASSUME TypeOK, NEW a \in DOMAIN agents, NEW b \in Boundaries, IngestScopeProposal(a, b)
  PROVE  /\ KeepsApprovals
         /\ DOMAIN approvals' = DOMAIN approvals \cup {Len(approvals) + 1}
         /\ Len(approvals) + 1 \notin DOMAIN approvals
         /\ approvals'[Len(approvals) + 1].agentRun = a
         /\ approvals'[Len(approvals) + 1].kind = "scope_proposal"
         /\ approvals'[Len(approvals) + 1].status = "pending"
         /\ \A p \in DOMAIN approvals : approvals'[p] = approvals[p]
<1> DEFINE asked == [agentRun |-> a, kind |-> "scope_proposal",
                     status |-> "pending", boundaries |-> {b}]
<1>1. approvals \in Seq(Approvals) /\ asked \in Approvals
  BY RunTyped DEF TypeOK, Approvals
<1>2. /\ DOMAIN approvals' = DOMAIN approvals \cup {Len(approvals) + 1}
      /\ approvals'[Len(approvals) + 1] = asked
      /\ \A p \in DOMAIN approvals : approvals'[p] = approvals[p]
  BY <1>1, Appended DEF IngestScopeProposal
<1>3. Len(approvals) + 1 \notin DOMAIN approvals
  BY ApprovalTyped
<1> QED
  BY <1>2, <1>3 DEF KeepsApprovals

LEMMA UnchangedKeeps ==
  /\ UNCHANGED agents => KeepsRuns
  /\ UNCHANGED approvals => KeepsApprovals
BY DEF KeepsRuns, KeepsApprovals

\* One lemma per handler that writes a status: which run, and to what.
LEMMA DecideProposalWrites ==
  ASSUME TypeOK, Linked, NEW p \in DOMAIN approvals, DecideProposal(p)
  PROVE  /\ KeepsRuns /\ KeepsApprovals
         /\ DOMAIN agents' = DOMAIN agents
         /\ DOMAIN approvals' = DOMAIN approvals
         /\ \A q \in DOMAIN approvals : q # p => approvals'[q] = approvals[q]
         /\ approvals'[p].status = "approved"
         /\ \A b \in DOMAIN agents : b # approvals[p].agentRun => agents'[b] = agents[b]
         /\ agents'[approvals[p].agentRun].status =
              IF agents[approvals[p].agentRun].status = "waiting_approval" THEN "running"
              ELSE agents[approvals[p].agentRun].status
<1> DEFINE a == approvals[p].agentRun
           st == IF agents[a].status = "waiting_approval" THEN "running" ELSE agents[a].status
<1>1. a \in DOMAIN agents
  BY DEF Linked
<1>2. st \in AgentStatuses
  BY <1>1, RunTyped DEF AgentStatuses
<1>3. agents' = [agents EXCEPT ![a].status = st]
  BY DEF DecideProposal
<1>4. p \in Pending(approvals) /\ approvals' = [approvals EXCEPT ![p].status = "approved"]
  BY DEF DecideProposal
<1>5. /\ KeepsRuns /\ DOMAIN agents' = DOMAIN agents /\ agents'[a].status = st
      /\ \A b \in DOMAIN agents : b # a => agents'[b] = agents[b]
  BY <1>1, <1>2, <1>3, WriteKeepsRuns
<1> QED
  BY <1>4, <1>5, DecisionKeepsApprovals

LEMMA DecideAgentWrites ==
  ASSUME TypeOK, Linked, NEW r \in Requests, NEW p \in DOMAIN approvals,
         NEW decision \in {"approved", "denied"}, DecideAgent(r, p, decision)
  PROVE  /\ KeepsRuns /\ KeepsApprovals
         /\ DOMAIN agents' = DOMAIN agents
         /\ DOMAIN approvals' = DOMAIN approvals
         /\ \A q \in DOMAIN approvals : q # p => approvals'[q] = approvals[q]
         /\ approvals'[p].status = decision
         /\ \A b \in DOMAIN agents : b # approvals[p].agentRun => agents'[b] = agents[b]
         /\ agents'[approvals[p].agentRun].status =
              IF decision = "approved" THEN "queued" ELSE "terminated"
<1> DEFINE a == approvals[p].agentRun
           st == IF decision = "approved" THEN "queued" ELSE "terminated"
<1>1. a \in DOMAIN agents /\ st \in AgentStatuses
  BY DEF Linked, AgentStatuses
<1>2. /\ agents' = [agents EXCEPT ![a].status = st]
      /\ p \in Pending(approvals)
      /\ approvals' = [approvals EXCEPT ![p].status = decision]
  BY DEF DecideAgent
<1>3. /\ KeepsRuns /\ DOMAIN agents' = DOMAIN agents /\ agents'[a].status = st
      /\ \A b \in DOMAIN agents : b # a => agents'[b] = agents[b]
  BY <1>1, <1>2, WriteKeepsRuns
<1> QED
  BY <1>2, <1>3, DecisionKeepsApprovals

\* A report or an exit of an execution, or a termination.
Reports(a) ==
  \/ IngestEvidence(a)
  \/ \E r \in Requests : IngestSpawnRequest(r, a)
  \/ \E outcome \in {"completed", "failed"} : Complete(a, outcome)

LEMMA ReportWrites ==
  ASSUME TypeOK, NEW a \in claimed, Reports(a)
  PROVE  /\ KeepsRuns
         /\ DOMAIN agents' = DOMAIN agents
         /\ \A b \in DOMAIN agents : b # a => agents'[b] = agents[b]
         /\ agents[a].status \in Ended => agents'[a].status \in Ended
         /\ agents[a].status # "waiting_approval" => agents'[a].status # "waiting_approval"
         /\ agents'[a].status # "queued"
         /\ UNCHANGED <<runStatus, approvals, scopeRules, waiting, claimed>>
<1>1. a \in DOMAIN agents /\ agents[a].status \in AgentStatuses
  BY RunTyped DEF TypeOK
<1>2. Reporting(a) \in AgentStatuses
  BY <1>1 DEF Reporting, AgentStatuses
<1>3. CASE agents' = [agents EXCEPT ![a].status = Reporting(a)]
  BY <1>1, <1>2, <1>3, WriteKeepsRuns
     DEF Reports, IngestEvidence, IngestSpawnRequest, Complete, Reporting, Active, Ended
<1>4. ASSUME NEW outcome \in {"completed", "failed"},
             agents' = [agents EXCEPT ![a].status = outcome]
      PROVE  /\ KeepsRuns
             /\ DOMAIN agents' = DOMAIN agents
             /\ \A b \in DOMAIN agents : b # a => agents'[b] = agents[b]
             /\ agents'[a].status = outcome
  BY <1>1, <1>4, WriteKeepsRuns DEF AgentStatuses
<1> QED
  BY <1>3, <1>4 DEF Reports, IngestEvidence, IngestSpawnRequest, Complete, Ended

LEMMA ProposalWrites ==
  ASSUME TypeOK, NEW a \in claimed, NEW b \in Boundaries, IngestScopeProposal(a, b)
  PROVE  /\ KeepsRuns
         /\ DOMAIN agents' = DOMAIN agents
         /\ \A c \in DOMAIN agents : c # a => agents'[c] = agents[c]
         /\ agents'[a].status = "waiting_approval"
         /\ agents[a].status \notin Ended
BY RunTyped, WriteKeepsRuns DEF IngestScopeProposal, TypeOK, AgentStatuses, Active

LEMMA TerminateWrites ==
  ASSUME TypeOK, NEW r \in Requests, NEW a \in DOMAIN agents, Terminate(r, a)
  PROVE  /\ KeepsRuns
         /\ DOMAIN agents' = DOMAIN agents
         /\ \A c \in DOMAIN agents : c # a => agents'[c] = agents[c]
         /\ agents'[a].status = "terminated"
BY WriteKeepsRuns DEF Terminate, AgentStatuses

LEMMA StartQueuedWrites ==
  ASSUME TypeOK, NEW r \in Requests, StartQueued(r)
  PROVE  /\ KeepsRuns
         /\ DOMAIN agents' = DOMAIN agents
         /\ \A c \in DOMAIN agents : agents'[c].status =
              IF agents[c].status = "queued" THEN "starting" ELSE agents[c].status
<1>1. DOMAIN agents' = DOMAIN agents
  BY StartQueuedType
<1>2. \A c \in DOMAIN agents : agents'[c] =
        IF agents[c].status = "queued" THEN [agents[c] EXCEPT !.status = "starting"]
        ELSE agents[c]
  BY DEF StartQueued, Dispatchable
<1>3. \A c \in DOMAIN agents : agents[c] \in AgentRuns
  BY RunTyped
<1> QED
  BY <1>1, <1>2, <1>3 DEF KeepsRuns, AgentRuns

LEMMA DispatchWrites ==
  ASSUME TypeOK, NEW r \in Requests, NEW a \in DOMAIN agents, Dispatch(r, a)
  PROVE  /\ KeepsRuns
         /\ DOMAIN agents' = DOMAIN agents
         /\ \A c \in DOMAIN agents : c # a => agents'[c] = agents[c]
         /\ agents' = agents \/ agents'[a].status = "running"
<1>1. CASE agents' = agents
  BY <1>1, UnchangedKeeps
<1>2. CASE agents' = [agents EXCEPT ![a].status = "running"]
  BY <1>2, WriteKeepsRuns DEF AgentStatuses
<1> QED
  BY <1>1, <1>2 DEF Dispatch, DispatchToQueue, DispatchSimulated

-----------------------------------------------------------------------------
(***************************************************************************)
(* Authorisation.                                                          *)
(***************************************************************************)
LEMMA AuthorisedStays ==
  ASSUME KeepsRuns, KeepsApprovals, NEW a \in DOMAIN agents, Authorised(a)
  PROVE  Authorised(a)'
<1>1. SpawnApprovals(a)' = SpawnApprovals(a)
  BY DEF KeepsApprovals, SpawnApprovals
<1>2. \A p \in SpawnApprovals(a) : approvals[p].status = "approved" =>
        approvals'[p].status = "approved"
  BY DEF KeepsApprovals, SpawnApprovals
<1> QED
  BY <1>1, <1>2 DEF Authorised, KeepsRuns

LEMMA LinkedStays ==
  ASSUME Linked, KeepsRuns, KeepsApprovals,
         \A p \in DOMAIN approvals' \ DOMAIN approvals :
           approvals'[p].agentRun \in DOMAIN agents',
         \A r \in Requests : calls'[r].runs \subseteq DOMAIN agents',
         \A a \in DOMAIN agents' \ DOMAIN agents :
           \A p, q \in SpawnApprovals(a)' : p = q
  PROVE  Linked'
<1>1. \A p \in DOMAIN approvals' : approvals'[p].agentRun \in DOMAIN agents'
  BY DEF Linked, KeepsRuns, KeepsApprovals
<1>2. \A a \in DOMAIN agents : SpawnApprovals(a)' = SpawnApprovals(a)
  BY DEF KeepsApprovals, SpawnApprovals
<1>3. \A a \in DOMAIN agents' : \A p, q \in SpawnApprovals(a)' : p = q
  BY <1>2 DEF Linked
<1> QED
  BY <1>1, <1>3 DEF Linked

\* Only what request r turns to can be dispatched that was not before.
LEMMA ProceedRuns ==
  ASSUME calls \in [Requests -> Calls], NEW r \in Requests, NEW op, NEW runs,
         Proceed(r, op, runs)
  PROVE  /\ \A b : Dispatching(b)' => Dispatching(b) \/ (op = "dispatch" /\ b \in runs)
         /\ \A q \in Requests : calls'[q].runs \subseteq calls[q].runs \cup runs
BY DEF Proceed, Dispatching, Idle, Calls

LEMMA FinishRuns ==
  ASSUME calls \in [Requests -> Calls], NEW r \in Requests, Finish(r)
  PROVE  /\ \A b : Dispatching(b)' => Dispatching(b)
         /\ \A q \in Requests : calls'[q].runs \subseteq calls[q].runs
BY DEF Finish, Dispatching, Idle

\* A run is born queued only when the policy asks for no approval.
LEMMA SpawnAuthorised ==
  ASSUME TypeOK, QueuedIsAuthorised, NEW r \in Requests, NEW parent,
         NEW body \in Bodies, SpawnMutation(r, parent, body)
  PROVE  QueuedIsAuthorised'
<1> DEFINE needed == NeedsApproval(body.target, body.capabilities)
<1>0. PICK new : new = Len(agents) + 1
  OBVIOUS
<1>1. /\ KeepsRuns /\ KeepsApprovals
      /\ new \notin DOMAIN agents
      /\ DOMAIN agents' = DOMAIN agents \cup {new}
      /\ agents'[new].capabilities = body.capabilities
      /\ agents'[new].status = IF needed THEN "waiting_approval" ELSE "queued"
      /\ \A a \in DOMAIN agents : agents'[a] = agents[a]
      /\ \/ approvals' = approvals /\ ~needed
         \/ /\ needed
            /\ DOMAIN approvals' = DOMAIN approvals \cup {Len(approvals) + 1}
            /\ approvals'[Len(approvals) + 1].agentRun = new
            /\ \A p \in DOMAIN approvals : approvals'[p] = approvals[p]
  BY <1>0, SpawnKeeps
<1>2. /\ Linked /\ calls \in [Requests -> Calls]
      /\ waiting \subseteq DOMAIN agents /\ claimed \subseteq DOMAIN agents
      /\ UNCHANGED <<waiting, claimed>>
  BY DEF QueuedIsAuthorised, TypeOK, SpawnMutation
<1>3. SpawnApprovals(new)' \subseteq {Len(approvals) + 1}
  BY <1>1, <1>2 DEF SpawnApprovals, Linked
<1>4. ~needed => SpawnApprovals(new)' = {}
  BY <1>1, <1>2 DEF SpawnApprovals, Linked
<1>5. Finish(r) \/ (Proceed(r, "dispatch", {new}) /\ ~needed)
  BY <1>0 DEF SpawnMutation
<1>6. /\ \A b : Dispatching(b)' => Dispatching(b) \/ (b = new /\ ~needed)
      /\ \A q \in Requests : calls'[q].runs \subseteq calls[q].runs \cup {new}
  <2>1. CASE Finish(r)
    BY <1>2, <2>1, FinishRuns
  <2>2. CASE Proceed(r, "dispatch", {new}) /\ ~needed
    BY <1>2, <2>2, ProceedRuns
  <2> QED
    BY <1>5, <2>1, <2>2
<1>7. Linked'
  <2>1. \A p \in DOMAIN approvals' \ DOMAIN approvals : approvals'[p].agentRun \in DOMAIN agents'
    BY <1>1
  <2>2. \A q \in Requests : calls'[q].runs \subseteq DOMAIN agents'
    BY <1>1, <1>2, <1>6 DEF Linked
  <2>3. \A a \in DOMAIN agents' \ DOMAIN agents : \A p, q \in SpawnApprovals(a)' : p = q
    BY <1>1, <1>3
  <2> QED
    BY <1>1, <1>2, <2>1, <2>2, <2>3, LinkedStays
<1>8. ASSUME NEW b \in DOMAIN agents, Cleared(b)'
      PROVE  Authorised(b)'
  <2>1. Cleared(b)
    BY <1>1, <1>2, <1>6, <1>8 DEF Cleared, Launched
  <2> QED
    BY <1>1, <2>1, AuthorisedStays DEF QueuedIsAuthorised
<1>9. ASSUME Cleared(new)'
      PROVE  Authorised(new)'
  <2>1. ~needed
    <3>1. new \notin waiting' /\ new \notin claimed' /\ ~Dispatching(new)
      BY <1>1, <1>2 DEF Dispatching, Linked
    <3> QED
      BY <1>1, <1>6, <1>9, <3>1 DEF Cleared, Launched
  <2>2. SpawnApprovals(new)' = {} /\ agents'[new].capabilities \cap Gated = {}
    BY <1>1, <1>4, <2>1 DEF NeedsApproval
  <2> QED
    BY <2>2 DEF Authorised
<1> QED
  BY <1>1, <1>7, <1>8, <1>9 DEF QueuedIsAuthorised

\* Handlers that queue nothing, ask for no spawn and dispatch nothing new.
LEMMA OthersAuthorised ==
  ASSUME TypeOK, QueuedIsAuthorised, KeepsRuns, KeepsApprovals,
         DOMAIN agents' = DOMAIN agents,
         \A p \in DOMAIN approvals' \ DOMAIN approvals :
           approvals'[p].agentRun \in DOMAIN agents,
         \A r \in Requests : calls'[r].runs \subseteq DOMAIN agents,
         \A b \in DOMAIN agents : Cleared(b)' => Cleared(b) \/ Authorised(b)'
  PROVE  QueuedIsAuthorised'
<1>1. Linked'
  BY LinkedStays DEF QueuedIsAuthorised
<1>2. \A b \in DOMAIN agents : Cleared(b)' => Authorised(b)'
  BY AuthorisedStays DEF QueuedIsAuthorised
<1> QED
  BY <1>1, <1>2 DEF QueuedIsAuthorised

\* An approved request was the only question about its run, so that the run it
\* queues has every approval it needs.
LEMMA DecideAgentAuthorised ==
  ASSUME TypeOK, QueuedIsAuthorised, NEW r \in Requests, NEW p \in DOMAIN approvals,
         NEW decision \in {"approved", "denied"}, DecideAgent(r, p, decision)
  PROVE  QueuedIsAuthorised'
<1>0. PICK a : a = approvals[p].agentRun
  OBVIOUS
<1>1. /\ KeepsRuns /\ KeepsApprovals
      /\ DOMAIN agents' = DOMAIN agents
      /\ DOMAIN approvals' = DOMAIN approvals
      /\ approvals'[p].status = decision
      /\ \A b \in DOMAIN agents : b # a => agents'[b] = agents[b]
      /\ agents'[a].status = IF decision = "approved" THEN "queued" ELSE "terminated"
  BY <1>0, DecideAgentWrites DEF QueuedIsAuthorised
<1>2. /\ a \in DOMAIN agents /\ calls \in [Requests -> Calls]
      /\ \A q \in Requests : calls[q].runs \subseteq DOMAIN agents
      /\ UNCHANGED <<waiting, claimed>>
  BY <1>0 DEF QueuedIsAuthorised, Linked, TypeOK, DecideAgent
<1>3. /\ \A b : Dispatching(b)' => Dispatching(b) \/ (b = a /\ decision = "approved")
      /\ \A q \in Requests : calls'[q].runs \subseteq DOMAIN agents
  <2>1. CASE UNCHANGED calls
    BY <1>2, <2>1 DEF Dispatching
  <2>2. CASE decision = "approved" /\ Proceed(r, "dispatch", {a})
    BY <1>2, <2>2, ProceedRuns
  <2> QED
    BY <1>0, <2>1, <2>2 DEF DecideAgent
<1>4. decision = "approved" => Authorised(a)'
  <2> SUFFICES ASSUME decision = "approved" PROVE Authorised(a)'
    OBVIOUS
  <2>1. p \in SpawnApprovals(a)
    BY <1>0 DEF DecideAgent, SpawnApprovals
  <2>2. SpawnApprovals(a) = {p}
    BY <1>2, <2>1 DEF QueuedIsAuthorised, Linked
  <2>3. SpawnApprovals(a)' = {p}
    BY <1>1, <1>2, <2>2 DEF KeepsApprovals, SpawnApprovals
  <2> QED
    BY <1>1, <2>3 DEF Authorised
<1>5. \A b \in DOMAIN agents : Cleared(b)' => Cleared(b) \/ Authorised(b)'
  BY <1>1, <1>2, <1>3, <1>4 DEF Cleared, Launched
<1> QED
  BY <1>1, <1>2, <1>3, <1>5, OthersAuthorised

LEMMA DecideProposalAuthorised ==
  ASSUME TypeOK, QueuedIsAuthorised, NEW p \in DOMAIN approvals, DecideProposal(p)
  PROVE  QueuedIsAuthorised'
<1>0. PICK a : a = approvals[p].agentRun
  OBVIOUS
<1>1. /\ KeepsRuns /\ KeepsApprovals
      /\ DOMAIN agents' = DOMAIN agents
      /\ DOMAIN approvals' = DOMAIN approvals
      /\ \A b \in DOMAIN agents : b # a => agents'[b] = agents[b]
      /\ agents'[a].status = IF agents[a].status = "waiting_approval" THEN "running"
                             ELSE agents[a].status
  BY <1>0, DecideProposalWrites DEF QueuedIsAuthorised
<1>2. UNCHANGED <<waiting, claimed, calls>>
  BY DEF DecideProposal
<1>3. \A r \in Requests : calls'[r].runs \subseteq DOMAIN agents
  BY <1>2 DEF QueuedIsAuthorised, Linked
<1>4. \A b \in DOMAIN agents : Cleared(b)' => Cleared(b)
  BY <1>1, <1>2 DEF Cleared, Launched, Dispatching
<1> QED
  BY <1>1, <1>3, <1>4, OthersAuthorised

LEMMA IngestAuthorised ==
  ASSUME TypeOK, QueuedIsAuthorised, NEW a \in claimed,
         \/ IngestEvidence(a)
         \/ \E b \in Boundaries : IngestScopeProposal(a, b)
         \/ \E r \in Requests : IngestSpawnRequest(r, a)
         \/ \E outcome \in {"completed", "failed"} : Complete(a, outcome)
  PROVE  QueuedIsAuthorised'
<1>1. /\ a \in DOMAIN agents /\ calls \in [Requests -> Calls]
      /\ \A q \in Requests : calls[q].runs \subseteq DOMAIN agents
  BY DEF QueuedIsAuthorised, Linked, TypeOK
<1>2. CASE Reports(a)
  <2>1. /\ KeepsRuns /\ KeepsApprovals
        /\ DOMAIN agents' = DOMAIN agents
        /\ DOMAIN approvals' = DOMAIN approvals
        /\ \A b \in DOMAIN agents : b # a => agents'[b] = agents[b]
        /\ agents'[a].status # "queued"
        /\ UNCHANGED <<waiting, claimed>>
    BY <1>2, ReportWrites, UnchangedKeeps
  <2>2. /\ \A b : Dispatching(b)' => Dispatching(b)
        /\ \A q \in Requests : calls'[q].runs \subseteq DOMAIN agents
    <3>1. CASE UNCHANGED calls
      BY <1>1, <3>1 DEF Dispatching
    <3>2. ASSUME NEW r \in Requests, Proceed(r, "spawn", {a})
          PROVE  /\ \A b : Dispatching(b)' => Dispatching(b)
                 /\ \A q \in Requests : calls'[q].runs \subseteq DOMAIN agents
      <4>1. /\ \A b : Dispatching(b)' => Dispatching(b) \/ ("spawn" = "dispatch" /\ b \in {a})
            /\ \A q \in Requests : calls'[q].runs \subseteq calls[q].runs \cup {a}
        BY <1>1, <3>2, ProceedRuns
      <4> QED
        BY <1>1, <4>1
    <3> QED
      BY <1>2, <3>1, <3>2 DEF Reports, IngestEvidence, IngestSpawnRequest, Complete
  <2>3. \A b \in DOMAIN agents : Cleared(b)' => Cleared(b)
    BY <2>1, <2>2 DEF Cleared, Launched
  <2> QED
    BY <2>1, <2>2, <2>3, OthersAuthorised
<1>3. ASSUME NEW b \in Boundaries, IngestScopeProposal(a, b)
      PROVE  QueuedIsAuthorised'
  <2>1. /\ KeepsRuns /\ KeepsApprovals
        /\ DOMAIN agents' = DOMAIN agents
        /\ \A c \in DOMAIN agents : c # a => agents'[c] = agents[c]
        /\ agents'[a].status = "waiting_approval"
        /\ \A q \in DOMAIN approvals' \ DOMAIN approvals : approvals'[q].agentRun = a
    BY <1>1, <1>3, ProposalWrites, ProposalKeepsApprovals
  <2>2. UNCHANGED <<waiting, claimed, calls>>
    BY <1>3 DEF IngestScopeProposal
  <2>3. \A c \in DOMAIN agents : Cleared(c)' => Cleared(c)
    BY <2>1, <2>2 DEF Cleared, Launched, Dispatching
  <2> QED
    BY <1>1, <2>1, <2>2, <2>3, OthersAuthorised
<1> QED
  BY <1>2, <1>3 DEF Reports

LEMMA TerminateAuthorised ==
  ASSUME TypeOK, QueuedIsAuthorised, NEW r \in Requests, NEW a \in DOMAIN agents,
         Terminate(r, a)
  PROVE  QueuedIsAuthorised'
<1>1. /\ KeepsRuns /\ KeepsApprovals
      /\ DOMAIN agents' = DOMAIN agents
      /\ \A c \in DOMAIN agents : c # a => agents'[c] = agents[c]
      /\ agents'[a].status = "terminated"
      /\ UNCHANGED <<approvals, waiting, claimed>>
  BY TerminateWrites, UnchangedKeeps DEF Terminate
<1>2. calls \in [Requests -> Calls] /\ Proceed(r, "terminate", {a})
  BY DEF TypeOK, Terminate
<1>3. /\ \A b : Dispatching(b)' => Dispatching(b) \/ ("terminate" = "dispatch" /\ b \in {a})
      /\ \A q \in Requests : calls'[q].runs \subseteq calls[q].runs \cup {a}
  BY <1>2, ProceedRuns
<1>4. \A q \in Requests : calls'[q].runs \subseteq DOMAIN agents
  BY <1>3 DEF QueuedIsAuthorised, Linked
<1>5. \A c \in DOMAIN agents : Cleared(c)' => Cleared(c)
  BY <1>1, <1>3 DEF Cleared, Launched
<1> QED
  BY <1>1, <1>4, <1>5, OthersAuthorised

\* Steps that leave every agent run and every approval as they are.
LEMMA QuietAuthorised ==
  ASSUME TypeOK, QueuedIsAuthorised, UNCHANGED <<agents, approvals>>,
         \A q \in Requests : calls'[q].runs \subseteq DOMAIN agents,
         \A b \in DOMAIN agents : Dispatching(b)' => Dispatching(b),
         waiting' \cup claimed' \subseteq waiting \cup claimed
  PROVE  QueuedIsAuthorised'
<1>1. KeepsRuns /\ KeepsApprovals
  BY UnchangedKeeps
<1>2. \A b \in DOMAIN agents : Cleared(b)' => Cleared(b)
  BY DEF Cleared, Launched
<1> QED
  BY <1>1, <1>2, OthersAuthorised

LEMMA SetRunStateAuthorised ==
  ASSUME TypeOK, QueuedIsAuthorised, NEW r \in Requests,
         NEW status \in {"running", "paused"}, SetRunState(r, status)
  PROVE  QueuedIsAuthorised'
<1>0. PICK op \in {"pause", "resume"} : Proceed(r, op, Controllable)
  BY DEF SetRunState
<1>1. calls \in [Requests -> Calls] /\ UNCHANGED <<agents, approvals, waiting, claimed>>
  BY DEF TypeOK, SetRunState
<1>2. /\ \A b : Dispatching(b)' => Dispatching(b) \/ (op = "dispatch" /\ b \in Controllable)
      /\ \A q \in Requests : calls'[q].runs \subseteq calls[q].runs \cup Controllable
  BY <1>0, <1>1, ProceedRuns
<1>3. \A q \in Requests : calls'[q].runs \subseteq DOMAIN agents
  BY <1>2 DEF QueuedIsAuthorised, Linked, Controllable
<1> QED
  BY <1>1, <1>2, <1>3, QuietAuthorised

LEMMA StartQueuedAuthorised ==
  ASSUME TypeOK, QueuedIsAuthorised, NEW r \in Requests, StartQueued(r)
  PROVE  QueuedIsAuthorised'
<1>1. /\ KeepsRuns /\ KeepsApprovals
      /\ DOMAIN agents' = DOMAIN agents
      /\ \A c \in DOMAIN agents : agents'[c].status =
           IF agents[c].status = "queued" THEN "starting" ELSE agents[c].status
      /\ UNCHANGED <<approvals, waiting, claimed>>
  BY StartQueuedWrites, UnchangedKeeps DEF StartQueued
<1>2. calls \in [Requests -> Calls] /\ Proceed(r, "dispatch", Dispatchable)
  BY DEF TypeOK, StartQueued
<1>3. /\ \A b : Dispatching(b)' => Dispatching(b) \/ b \in Dispatchable
      /\ \A q \in Requests : calls'[q].runs \subseteq calls[q].runs \cup Dispatchable
  BY <1>2, ProceedRuns
<1>4. \A q \in Requests : calls'[q].runs \subseteq DOMAIN agents
  BY <1>3 DEF QueuedIsAuthorised, Linked, Dispatchable
<1>5. \A c \in DOMAIN agents : Cleared(c)' => Cleared(c)
  BY <1>1, <1>3 DEF Cleared, Launched, Dispatchable
<1> QED
  BY <1>1, <1>4, <1>5, OthersAuthorised

LEMMA DispatchAuthorised ==
  ASSUME TypeOK, QueuedIsAuthorised, NEW r \in Requests, NEW a \in DOMAIN agents,
         Dispatch(r, a)
  PROVE  QueuedIsAuthorised'
<1>1. /\ KeepsRuns /\ KeepsApprovals
      /\ DOMAIN agents' = DOMAIN agents
      /\ \A c \in DOMAIN agents : c # a => agents'[c] = agents[c]
      /\ UNCHANGED approvals
  BY DispatchWrites, UnchangedKeeps DEF Dispatch
<1>2. waiting' \cup claimed' \subseteq waiting \cup claimed \cup {a}
  BY DEF Dispatch, DispatchToQueue, DispatchSimulated
<1>3. Dispatching(a)
  BY DEF Dispatch, Dispatching
<1>4. /\ calls \in [Requests -> Calls]
      /\ Proceed(r, "dispatch", Remaining(calls[r].runs, a))
      /\ Remaining(calls[r].runs, a) \subseteq calls[r].runs
      /\ calls[r].op = "dispatch"
  BY DEF TypeOK, Dispatch, Remaining
<1>5. /\ \A b : Dispatching(b)' => Dispatching(b) \/ b \in calls[r].runs
      /\ \A q \in Requests : calls'[q].runs \subseteq calls[q].runs \cup calls[r].runs
  BY <1>4, ProceedRuns
<1>6. \A b : Dispatching(b)' => Dispatching(b)
  BY <1>4, <1>5 DEF Dispatching
<1>7. \A q \in Requests : calls'[q].runs \subseteq DOMAIN agents
  BY <1>5 DEF QueuedIsAuthorised, Linked
<1>8. \A c \in DOMAIN agents : Cleared(c)' => Cleared(c)
  BY <1>1, <1>2, <1>3, <1>6 DEF Cleared, Launched
<1> QED
  BY <1>1, <1>7, <1>8, OthersAuthorised

LEMMA ContinueAuthorised ==
  ASSUME TypeOK, QueuedIsAuthorised, NEW r \in Requests, Continue(r)
  PROVE  QueuedIsAuthorised'
<1>0. /\ calls \in [Requests -> Calls]
      /\ \A q \in Requests : calls[q].runs \subseteq DOMAIN agents
  BY DEF TypeOK, QueuedIsAuthorised, Linked
<1>1. ASSUME NEW body \in Bodies, SpawnChild(r, body)
      PROVE  QueuedIsAuthorised'
  BY <1>1, SpawnAuthorised DEF SpawnChild
<1>2. CASE Finish(r) /\ UNCHANGED <<agents, approvals>> /\
           waiting' \cup claimed' \subseteq waiting \cup claimed
  BY <1>0, <1>2, FinishRuns, QuietAuthorised
<1>3. CASE Proceed(r, "start", {}) /\ UNCHANGED <<dashboard, execution>>
  <2>1. /\ \A b : Dispatching(b)' => Dispatching(b) \/ ("start" = "dispatch" /\ b \in {})
        /\ \A q \in Requests : calls'[q].runs \subseteq calls[q].runs \cup {}
    BY <1>0, <1>3, ProceedRuns
  <2> QED
    BY <1>0, <1>3, <2>1, QuietAuthorised DEF dashboard, execution
<1>4. CASE StartQueued(r)
  BY <1>4, StartQueuedAuthorised
<1>5. ASSUME NEW a \in DOMAIN agents, Dispatch(r, a)
      PROVE  QueuedIsAuthorised'
  BY <1>5, DispatchAuthorised
<1>6. CASE RejectChild(r) \/ ControlRun(r) \/ TerminateExecution(r)
  BY <1>2, <1>3, <1>6
     DEF RejectChild, ControlRun, TerminateExecution, dashboard, execution
<1> QED
  BY <1>1, <1>4, <1>5, <1>6 DEF Continue

LEMMA AuthorisedInit == Init => QueuedIsAuthorised
BY DEF Init, QueuedIsAuthorised, Linked, Cleared, Launched, Dispatching, SpawnApprovals,
       Authorised, Idle

LEMMA AuthorisedStep ==
  ASSUME TypeOK, QueuedIsAuthorised, [Next]_vars
  PROVE  QueuedIsAuthorised'
<1>0. /\ calls \in [Requests -> Calls]
      /\ \A q \in Requests : calls[q].runs \subseteq DOMAIN agents
  BY DEF TypeOK, QueuedIsAuthorised, Linked
<1>1. CASE UNCHANGED <<agents, approvals, calls>> /\
           waiting' \cup claimed' \subseteq waiting \cup claimed
  BY <1>0, <1>1, QuietAuthorised DEF Dispatching
<1>2. ASSUME NEW r \in Requests, NEW parent, NEW body \in Bodies, Spawn(r, parent, body)
      PROVE  QueuedIsAuthorised'
  BY <1>2, SpawnAuthorised DEF Spawn
<1>3. ASSUME NEW p \in DOMAIN approvals, DecideProposal(p)
      PROVE  QueuedIsAuthorised'
  BY <1>3, DecideProposalAuthorised
<1>4. ASSUME NEW r \in Requests, NEW p \in DOMAIN approvals,
             NEW decision \in {"approved", "denied"}, DecideAgent(r, p, decision)
      PROVE  QueuedIsAuthorised'
  BY <1>4, DecideAgentAuthorised
<1>5. ASSUME NEW a \in claimed,
             \/ IngestEvidence(a)
             \/ \E b \in Boundaries : IngestScopeProposal(a, b)
             \/ \E r \in Requests : IngestSpawnRequest(r, a)
             \/ \E outcome \in {"completed", "failed"} : Complete(a, outcome)
      PROVE  QueuedIsAuthorised'
  BY <1>5, IngestAuthorised
<1>6. ASSUME NEW r \in Requests, NEW a \in DOMAIN agents, Terminate(r, a)
      PROVE  QueuedIsAuthorised'
  BY <1>6, TerminateAuthorised
<1>7. ASSUME NEW r \in Requests, NEW status \in {"running", "paused"}, SetRunState(r, status)
      PROVE  QueuedIsAuthorised'
  BY <1>7, SetRunStateAuthorised
<1>8. ASSUME NEW r \in Requests, Continue(r)
      PROVE  QueuedIsAuthorised'
  BY <1>8, ContinueAuthorised
<1>9. ASSUME NEW a \in waiting, Claim(a)
      PROVE  QueuedIsAuthorised'
  BY <1>1, <1>9 DEF Claim, dashboard
<1>10. ASSUME NEW rule \in OperatorRules, AddScopeRule(rule) \/ RemoveScopeRule(rule)
       PROVE  QueuedIsAuthorised'
  BY <1>1, <1>10 DEF AddScopeRule, RemoveScopeRule
<1>11. ASSUME NEW r \in Requests, Fail(r)
       PROVE  QueuedIsAuthorised'
  BY <1>0, <1>11, FinishRuns, QuietAuthorised DEF Fail, dashboard, execution
<1>12. CASE Crash
  BY <1>0, <1>12, QuietAuthorised DEF Crash, Idle, Dispatching, dashboard, execution
<1>13. CASE UNCHANGED vars
  BY <1>1, <1>13 DEF vars
<1> QED
  BY <1>2, <1>3, <1>4, <1>5, <1>6, <1>7, <1>8, <1>9, <1>10, <1>11, <1>12, <1>13 DEF Next

\* Type correctness, and the authorisation of whatever is queued: they hold
\* together, as the writes of a decision are typed only where approvals name
\* runs that exist.
THEOREM Invariant == Spec => [](TypeOK /\ QueuedIsAuthorised)
<1>1. Init => TypeOK /\ QueuedIsAuthorised
  BY TypeInit, AuthorisedInit
<1>2. TypeOK /\ QueuedIsAuthorised /\ [Next]_vars => (TypeOK /\ QueuedIsAuthorised)'
  BY TypeStep, AuthorisedStep DEF QueuedIsAuthorised
<1> QED
  BY <1>1, <1>2, PTL DEF Spec

\* Every variable of the orchestrator keeps its shape.
THEOREM TypeCorrect == Spec => []TypeOK
BY Invariant, PTL

\* Whatever is in the queue or executing was authorised: no path of spawn,
\* decideApproval, setRunState, ingest or dispatch leads around a human decision.
THEOREM AuthorisationCorrect == Spec => []LaunchedIsAuthorised
<1>1. TypeOK /\ QueuedIsAuthorised => LaunchedIsAuthorised
  BY DEF TypeOK, QueuedIsAuthorised, Cleared, LaunchedIsAuthorised, Launched
<1> QED
  BY <1>1, Invariant, PTL

-----------------------------------------------------------------------------
(***************************************************************************)
(* Lineage.                                                                *)
(***************************************************************************)
LEMMA StepShape ==
  ASSUME TypeOK, Linked, [Next]_vars
  PROVE  /\ KeepsRuns
         /\ \/ DOMAIN agents' = DOMAIN agents
            \/ \E r \in Requests, parent \in DOMAIN agents \cup {NoParent}, body \in Bodies :
                 SpawnMutation(r, parent, body)
<1> DEFINE Goal ==
      /\ KeepsRuns
      /\ \/ DOMAIN agents' = DOMAIN agents
         \/ \E r \in Requests, parent \in DOMAIN agents \cup {NoParent}, body \in Bodies :
              SpawnMutation(r, parent, body)
<1>1. CASE UNCHANGED agents
  BY <1>1, UnchangedKeeps
<1>2. ASSUME NEW r \in Requests, NEW parent, NEW body \in Bodies,
             SpawnMutation(r, parent, body)
      PROVE  Goal
  <2>1. parent \in DOMAIN agents \cup {NoParent}
    BY <1>2 DEF SpawnMutation, Admissible
  <2> QED
    BY <1>2, <2>1, SpawnKeeps
<1>3. ASSUME NEW p \in DOMAIN approvals, DecideProposal(p)
      PROVE  Goal
  BY <1>3, DecideProposalWrites
<1>4. ASSUME NEW r \in Requests, NEW p \in DOMAIN approvals,
             NEW decision \in {"approved", "denied"}, DecideAgent(r, p, decision)
      PROVE  Goal
  BY <1>4, DecideAgentWrites
<1>5. ASSUME NEW a \in claimed, Reports(a)
      PROVE  Goal
  BY <1>5, ReportWrites
<1>6. ASSUME NEW a \in claimed, NEW b \in Boundaries, IngestScopeProposal(a, b)
      PROVE  Goal
  BY <1>6, ProposalWrites
<1>7. ASSUME NEW r \in Requests, NEW a \in DOMAIN agents, Terminate(r, a)
      PROVE  Goal
  BY <1>7, TerminateWrites
<1>8. ASSUME NEW r \in Requests, Continue(r)
      PROVE  Goal
  <2>1. CASE \E body \in Bodies : SpawnChild(r, body)
    BY <1>2, <2>1 DEF SpawnChild
  <2>2. CASE StartQueued(r)
    BY <2>2, StartQueuedWrites
  <2>3. CASE \E a \in DOMAIN agents : Dispatch(r, a)
    BY <2>3, DispatchWrites
  <2>4. CASE RejectChild(r) \/ ControlRun(r) \/ TerminateExecution(r)
    BY <1>1, <2>4 DEF RejectChild, ControlRun, TerminateExecution, dashboard
  <2> QED
    BY <1>8, <2>1, <2>2, <2>3, <2>4 DEF Continue
<1>9. CASE \/ \E r \in Requests, status \in {"running", "paused"} : SetRunState(r, status)
           \/ \E a \in waiting : Claim(a)
           \/ \E rule \in OperatorRules : AddScopeRule(rule) \/ RemoveScopeRule(rule)
           \/ \E r \in Requests : Fail(r)
           \/ Crash
           \/ UNCHANGED vars
  BY <1>1, <1>9
     DEF SetRunState, Claim, AddScopeRule, RemoveScopeRule, Fail, Crash, vars, dashboard
<1> QED
  BY <1>2, <1>3, <1>4, <1>5, <1>6, <1>7, <1>8, <1>9 DEF Next, Spawn, Reports

LEMMA LineageStep ==
  ASSUME TypeOK, Linked, LineageSound, [Next]_vars
  PROVE  LineageSound'
<1>1. CASE DOMAIN agents' = DOMAIN agents
  <2>1. KeepsRuns
    BY StepShape
  <2>2. \A a \in DOMAIN agents : agents[a].parent = NoParent \/ agents[a].parent \in DOMAIN agents
    BY RunTyped DEF LineageSound, NoParent
  <2> QED
    BY <1>1, <2>1, <2>2 DEF LineageSound, KeepsRuns
<1>2. ASSUME NEW r \in Requests, NEW parent \in DOMAIN agents \cup {NoParent},
             NEW body \in Bodies, SpawnMutation(r, parent, body)
      PROVE  LineageSound'
  <2>1. PICK new : new = Len(agents) + 1
    OBVIOUS
  <2>2. /\ KeepsRuns
        /\ DOMAIN agents' = DOMAIN agents \cup {new}
        /\ agents'[new].parent = parent
        /\ agents'[new].depth = DepthBelow(parent)
        /\ \A a \in DOMAIN agents : agents'[a] = agents[a]
    BY <1>2, <2>1, SpawnKeeps
  <2>3. parent < new /\ DepthBelow(parent) <= MaxDepth
    BY <1>2, <2>1, RunTyped DEF SpawnMutation, Admissible, NoParent
  <2>4. \A a \in DOMAIN agents : agents[a].parent = NoParent \/ agents[a].parent \in DOMAIN agents
    BY RunTyped DEF LineageSound, NoParent
  <2>5. agents'[new].depth =
          IF agents'[new].parent = NoParent THEN 1 ELSE agents'[agents'[new].parent].depth + 1
    BY <2>2 DEF DepthBelow
  <2>6. \A a \in DOMAIN agents :
          /\ agents'[a].parent < a
          /\ agents'[a].depth <= MaxDepth
          /\ a > 1 => agents'[a].depth =
               IF agents'[a].parent = NoParent THEN 1 ELSE agents'[agents'[a].parent].depth + 1
    BY <2>2, <2>4 DEF LineageSound
  <2> QED
    BY <2>2, <2>3, <2>5, <2>6 DEF LineageSound
<1> QED
  BY <1>1, <1>2, StepShape

\* Recursion is bounded: whoever spawns whom, every run sits one level below an
\* earlier parent and within the depth the policy admits.
THEOREM LineageCorrect == Spec => []LineageSound
<1>1. Init => LineageSound
  BY OrchestratorAssumption DEF Init, LineageSound, NoParent
<1>2. TypeOK /\ Linked /\ LineageSound /\ [Next]_vars => LineageSound'
  BY LineageStep
<1>3. TypeOK /\ QueuedIsAuthorised => TypeOK /\ Linked
  BY DEF QueuedIsAuthorised
<1> QED
  BY <1>1, <1>2, <1>3, Invariant, PTL DEF Spec

-----------------------------------------------------------------------------
(***************************************************************************)
(* Counters.                                                               *)
(***************************************************************************)
LEMMA MetricsStep ==
  ASSUME TypeOK, MetricsFresh, [Next]_vars
  PROVE  MetricsFresh'
<1>1. CASE RefreshMetrics
  BY <1>1 DEF RefreshMetrics, Counts, MetricsFresh
<1>2. CASE UNCHANGED <<agents, approvals, metrics>>
  BY <1>2 DEF MetricsFresh
<1>3. ASSUME NEW r \in Requests, NEW a \in DOMAIN agents, Dispatch(r, a)
      PROVE  MetricsFresh'
  <2>1. CASE DispatchToQueue(r, a)
    BY <1>2, <1>3, <2>1 DEF Dispatch, DispatchToQueue
  <2>2. CASE DispatchSimulated(r, a)
    <3>1. metrics' = [metrics EXCEPT !.activeAgents = Counts(agents', approvals).activeAgents]
      BY <2>2 DEF DispatchSimulated
    <3>2. metrics'.activeAgents =
            Cardinality({b \in DOMAIN agents' : agents'[b].status = "running"})
      BY <3>1 DEF Counts, TypeOK
    <3>3. metrics'.pendingApprovals = metrics.pendingApprovals /\ approvals' = approvals
      BY <1>3, <3>1 DEF TypeOK, Dispatch
    <3> QED
      BY <3>2, <3>3 DEF MetricsFresh
  <2> QED
    BY <1>3, <2>1, <2>2 DEF Dispatch
<1>4. CASE \E r \in Requests : Continue(r)
  BY <1>1, <1>2, <1>3, <1>4
     DEF Continue, SpawnChild, SpawnMutation, RejectChild, ControlRun, StartQueued,
         TerminateExecution, dashboard
<1>5. CASE \/ \E r \in Requests, status \in {"running", "paused"} : SetRunState(r, status)
           \/ \E a \in waiting : Claim(a)
           \/ \E rule \in OperatorRules : AddScopeRule(rule) \/ RemoveScopeRule(rule)
           \/ \E r \in Requests : Fail(r)
           \/ Crash
           \/ UNCHANGED vars
  BY <1>2, <1>5
     DEF SetRunState, Claim, AddScopeRule, RemoveScopeRule, Fail, Crash, vars, dashboard
<1> QED
  BY <1>1, <1>4, <1>5
     DEF Next, Spawn, SpawnMutation, DecideProposal, DecideAgent, IngestEvidence,
         IngestScopeProposal, IngestSpawnRequest, Complete, Terminate

LEMMA MetricsInit == Init => MetricsFresh
<1> SUFFICES ASSUME Init PROVE MetricsFresh
  OBVIOUS
<1>1. DOMAIN agents = {1} /\ agents[1].status = "running" /\ DOMAIN approvals = {}
  BY DEF Init
<1>2. {a \in DOMAIN agents : agents[a].status = "running"} = {1}
  BY <1>1
<1>3. {p \in DOMAIN approvals : approvals[p].status = "pending"} = {}
  BY <1>1
<1>4. Cardinality({1}) = 1 /\ Cardinality({}) = 0
  BY FS_Singleton, FS_EmptySet
<1> QED
  BY <1>2, <1>3, <1>4 DEF Init, MetricsFresh

\* The counters agree with the records after every handler and every driver.
THEOREM CountersCorrect == Spec => []MetricsFresh
<1>1. TypeOK /\ MetricsFresh /\ [Next]_vars => MetricsFresh'
  BY MetricsStep
<1> QED
  BY <1>1, MetricsInit, TypeCorrect, PTL DEF Spec

-----------------------------------------------------------------------------
(***************************************************************************)
(* Waiting.                                                                *)
(***************************************************************************)

\* Nobody starts to wait, and no question is answered or withdrawn.
LEMMA CalmWaiting ==
  ASSUME NobodyWaitsForNothing, DOMAIN agents' = DOMAIN agents, UNCHANGED approvals,
         runStatus' = "waiting_approval" => runStatus = "waiting_approval",
         \A b \in DOMAIN agents : agents'[b].status = "waiting_approval" =>
           agents[b].status = "waiting_approval"
  PROVE  NobodyWaitsForNothing'
BY DEF NobodyWaitsForNothing, Pending

LEMMA SpawnWaiting ==
  ASSUME TypeOK, NobodyWaitsForNothing, NEW r \in Requests, NEW parent,
         NEW body \in Bodies, SpawnMutation(r, parent, body)
  PROVE  NobodyWaitsForNothing'
<1> DEFINE needed == NeedsApproval(body.target, body.capabilities)
<1>0. PICK new : new = Len(agents) + 1
  OBVIOUS
<1>1. /\ DOMAIN agents' = DOMAIN agents \cup {new}
      /\ agents'[new].status = IF needed THEN "waiting_approval" ELSE "queued"
      /\ \A a \in DOMAIN agents : agents'[a] = agents[a]
      /\ \/ approvals' = approvals /\ ~needed
         \/ /\ needed
            /\ DOMAIN approvals' = DOMAIN approvals \cup {Len(approvals) + 1}
            /\ approvals'[Len(approvals) + 1].agentRun = new
            /\ approvals'[Len(approvals) + 1].status = "pending"
            /\ \A p \in DOMAIN approvals : approvals'[p] = approvals[p]
  BY <1>0, SpawnKeeps
<1>2. CASE approvals' = approvals /\ ~needed
  <2>1. UNCHANGED runStatus
    BY <1>2 DEF SpawnMutation
  <2> QED
    BY <1>1, <1>2, <2>1 DEF NobodyWaitsForNothing, Pending
<1>3. CASE needed
  BY <1>1, <1>3 DEF NobodyWaitsForNothing, Pending
<1> QED
  BY <1>1, <1>2, <1>3

LEMMA DecisionWaiting ==
  ASSUME TypeOK, Linked, NobodyWaitsForNothing, NEW p \in DOMAIN approvals,
         \/ DecideProposal(p)
         \/ \E r \in Requests, decision \in {"approved", "denied"} : DecideAgent(r, p, decision)
  PROVE  NobodyWaitsForNothing'
<1>0. PICK a : a = approvals[p].agentRun
  OBVIOUS
<1>1. /\ DOMAIN agents' = DOMAIN agents
      /\ DOMAIN approvals' = DOMAIN approvals
      /\ \A q \in DOMAIN approvals : q # p => approvals'[q] = approvals[q]
      /\ \A b \in DOMAIN agents : b # a => agents'[b] = agents[b]
      /\ agents'[a].status # "waiting_approval"
  <2>1. CASE DecideProposal(p)
    BY <1>0, <2>1, DecideProposalWrites
  <2>2. CASE \E r \in Requests, decision \in {"approved", "denied"} :
               DecideAgent(r, p, decision)
    BY <1>0, <2>2, DecideAgentWrites
  <2> QED
    BY <2>1, <2>2
<1>2. runStatus' = "waiting_approval" => Pending(approvals') # {}
  BY DEF DecideProposal, DecideAgent, DecidedRunStatus
<1>3. ASSUME NEW b \in DOMAIN agents, agents'[b].status = "waiting_approval"
      PROVE  \E q \in Pending(approvals') : approvals'[q].agentRun = b
  <2>1. b # a /\ agents[b].status = "waiting_approval"
    BY <1>1, <1>3
  <2>2. PICK q \in Pending(approvals) : approvals[q].agentRun = b
    BY <2>1 DEF NobodyWaitsForNothing
  <2>3. q # p /\ q \in DOMAIN approvals
    BY <1>0, <2>1, <2>2 DEF Pending
  <2> QED
    BY <1>1, <2>2, <2>3 DEF Pending
<1> QED
  BY <1>1, <1>2, <1>3 DEF NobodyWaitsForNothing, Pending

LEMMA ProposalWaiting ==
  ASSUME TypeOK, NobodyWaitsForNothing, NEW a \in claimed, NEW b \in Boundaries,
         IngestScopeProposal(a, b)
  PROVE  NobodyWaitsForNothing'
<1>1. /\ DOMAIN agents' = DOMAIN agents
      /\ \A c \in DOMAIN agents : c # a => agents'[c] = agents[c]
      /\ a \in DOMAIN agents
  BY ProposalWrites DEF TypeOK
<1>2. /\ DOMAIN approvals' = DOMAIN approvals \cup {Len(approvals) + 1}
      /\ approvals'[Len(approvals) + 1].agentRun = a
      /\ approvals'[Len(approvals) + 1].status = "pending"
      /\ \A p \in DOMAIN approvals : approvals'[p] = approvals[p]
  BY <1>1, ProposalKeepsApprovals
<1> QED
  BY <1>1, <1>2 DEF NobodyWaitsForNothing, Pending

LEMMA WaitingStep ==
  ASSUME TypeOK, Linked, NobodyWaitsForNothing, [Next]_vars
  PROVE  NobodyWaitsForNothing'
<1>1. CASE UNCHANGED <<runStatus, agents, approvals>>
  BY <1>1, CalmWaiting
<1>2. ASSUME NEW a \in claimed, Reports(a)
      PROVE  NobodyWaitsForNothing'
  BY <1>2, ReportWrites, CalmWaiting
<1>3. ASSUME NEW r \in Requests, NEW a \in DOMAIN agents, Terminate(r, a)
      PROVE  NobodyWaitsForNothing'
  BY <1>3, TerminateWrites, CalmWaiting DEF Terminate
<1>4. ASSUME NEW r \in Requests, NEW status \in {"running", "paused"}, SetRunState(r, status)
      PROVE  NobodyWaitsForNothing'
  BY <1>4, CalmWaiting DEF SetRunState
<1>5. ASSUME NEW r \in Requests, Continue(r)
      PROVE  NobodyWaitsForNothing'
  <2>1. CASE \E body \in Bodies : SpawnChild(r, body)
    BY <2>1, SpawnWaiting DEF SpawnChild
  <2>2. CASE StartQueued(r)
    BY <2>2, StartQueuedWrites, CalmWaiting DEF StartQueued
  <2>3. ASSUME NEW a \in DOMAIN agents, Dispatch(r, a)
        PROVE  NobodyWaitsForNothing'
    BY <2>3, DispatchWrites, CalmWaiting DEF Dispatch
  <2>4. CASE RejectChild(r) \/ ControlRun(r) \/ TerminateExecution(r)
    BY <1>1, <2>4 DEF RejectChild, ControlRun, TerminateExecution, dashboard
  <2> QED
    BY <1>5, <2>1, <2>2, <2>3, <2>4 DEF Continue
<1>6. CASE \/ \E a \in waiting : Claim(a)
           \/ \E rule \in OperatorRules : AddScopeRule(rule) \/ RemoveScopeRule(rule)
           \/ \E r \in Requests : Fail(r)
           \/ Crash
           \/ UNCHANGED vars
  BY <1>1, <1>6 DEF Claim, AddScopeRule, RemoveScopeRule, Fail, Crash, vars, dashboard
<1> QED
  BY <1>2, <1>3, <1>4, <1>5, <1>6, SpawnWaiting, DecisionWaiting, ProposalWaiting
     DEF Next, Spawn, Reports

\* Whoever waits for a human has a pending question that will release it.
THEOREM WaitingCorrect == Spec => []NobodyWaitsForNothing
<1>1. Init => NobodyWaitsForNothing
  BY DEF Init, NobodyWaitsForNothing
<1>2. TypeOK /\ Linked /\ NobodyWaitsForNothing /\ [Next]_vars => NobodyWaitsForNothing'
  BY WaitingStep
<1>3. TypeOK /\ QueuedIsAuthorised => TypeOK /\ Linked
  BY DEF QueuedIsAuthorised
<1> QED
  BY <1>1, <1>2, <1>3, Invariant, PTL DEF Spec

-----------------------------------------------------------------------------
(***************************************************************************)
(* Finality.                                                               *)
(***************************************************************************)
Reopened(a) == agents[a].status \in Ended /\ agents'[a].status \notin Ended

LEMMA FinalityStep ==
  ASSUME Driver = "queue", TypeOK, Linked, [Next]_vars, NEW a \in DOMAIN agents, Reopened(a)
  PROVE  \E p \in Pending(approvals) :
           approvals[p].agentRun = a /\ approvals'[p].status = "approved"
<1>1. agents'[a] # agents[a]
  BY DEF Reopened
<1>2. ASSUME NEW r \in Requests, NEW p \in DOMAIN approvals,
             NEW decision \in {"approved", "denied"}, DecideAgent(r, p, decision)
      PROVE  \E q \in Pending(approvals) :
               approvals[q].agentRun = a /\ approvals'[q].status = "approved"
  <2>1. approvals[p].agentRun = a
    BY <1>1, <1>2, DecideAgentWrites
  <2>2. decision = "approved"
    BY <1>2, <2>1, DecideAgentWrites DEF Reopened, Ended
  <2> QED
    BY <1>2, <2>1, <2>2, DecideAgentWrites DEF DecideAgent
<1>3. ASSUME NEW p \in DOMAIN approvals, DecideProposal(p)
      PROVE  FALSE
  BY <1>1, <1>3, DecideProposalWrites DEF Reopened, Ended
<1>4. ASSUME NEW b \in claimed, Reports(b)
      PROVE  FALSE
  BY <1>1, <1>4, ReportWrites DEF Reopened
<1>5. ASSUME NEW b \in claimed, NEW c \in Boundaries, IngestScopeProposal(b, c)
      PROVE  FALSE
  BY <1>1, <1>5, ProposalWrites DEF Reopened
<1>6. ASSUME NEW r \in Requests, NEW b \in DOMAIN agents, Terminate(r, b)
      PROVE  FALSE
  BY <1>1, <1>6, TerminateWrites DEF Reopened, Ended
<1>7. ASSUME NEW r \in Requests, NEW parent, NEW body \in Bodies,
             SpawnMutation(r, parent, body)
      PROVE  FALSE
  BY <1>1, <1>7, SpawnKeeps
<1>8. ASSUME NEW r \in Requests, StartQueued(r)
      PROVE  FALSE
  BY <1>8, StartQueuedWrites DEF Reopened, Ended
<1>9. ASSUME UNCHANGED agents
      PROVE  FALSE
  BY <1>1, <1>9
<1>10. ASSUME NEW r \in Requests, Continue(r)
       PROVE  FALSE
  BY <1>7, <1>8, <1>9, <1>10
     DEF Continue, SpawnChild, RejectChild, ControlRun, Dispatch, DispatchToQueue,
         DispatchSimulated, TerminateExecution, dashboard
<1>11. CASE \/ \E r \in Requests, status \in {"running", "paused"} : SetRunState(r, status)
            \/ \E b \in waiting : Claim(b)
            \/ \E rule \in OperatorRules : AddScopeRule(rule) \/ RemoveScopeRule(rule)
            \/ \E r \in Requests : Fail(r)
            \/ Crash
            \/ UNCHANGED vars
  BY <1>9, <1>11
     DEF SetRunState, Claim, AddScopeRule, RemoveScopeRule, Fail, Crash, vars, dashboard
<1> QED
  BY <1>2, <1>3, <1>4, <1>5, <1>6, <1>7, <1>10, <1>11 DEF Next, Spawn, Reports

\* With the queue driver, nothing but an approval of its own reopens an ended run.
\* (The simulated driver's dispatch writes a status of its own and can.)
THEOREM FinalityCorrect == ASSUME Driver = "queue" PROVE Spec => OnlyDecisionReopens
<1>1. TypeOK /\ Linked /\ [Next]_vars =>
        [\A a \in DOMAIN agents : agents[a].status \in Ended /\ agents'[a].status \notin Ended =>
           \E p \in Pending(approvals) : /\ approvals[p].agentRun = a
                                         /\ approvals'[p].status = "approved"]_vars
  BY FinalityStep DEF Reopened
<1>2. TypeOK /\ QueuedIsAuthorised => TypeOK /\ Linked
  BY DEF QueuedIsAuthorised
<1> QED
  BY <1>1, <1>2, Invariant, PTL DEF Spec, OnlyDecisionReopens

-----------------------------------------------------------------------------
(***************************************************************************)
(* The scope gate.                                                         *)
(***************************************************************************)
LEMMA GateStep ==
  ASSUME TypeOK, Linked, [Next]_vars, NEW a \in DOMAIN agents' \ DOMAIN agents,
         agents'[a].status = "queued"
  PROVE  /\ \E rule \in scopeRules : rule.action = "allow"
                                    /\ agents'[a].target \in Covers[rule.boundary]
         /\ \A rule \in scopeRules : agents'[a].target \in Covers[rule.boundary]
                                    => rule.action # "deny"
<1>1. PICK r \in Requests, parent \in DOMAIN agents \cup {NoParent}, body \in Bodies :
        SpawnMutation(r, parent, body)
  BY StepShape
<1>2. /\ agents'[a].target = body.target
      /\ ~NeedsApproval(body.target, body.capabilities)
  <2>1. a = Len(agents) + 1
    BY <1>1, SpawnKeeps
  <2>2. agents'[a].status = IF NeedsApproval(body.target, body.capabilities)
                            THEN "waiting_approval" ELSE "queued"
    BY <1>1, <2>1, SpawnKeeps
  <2> QED
    BY <1>1, <2>1, <2>2, SpawnKeeps
<1> QED
  BY <1>2 DEF NeedsApproval, WithinScope, MatchedBy

\* policy.ts: a run is queued at birth only inside the scope of that moment,
\* with deny before allow, whoever asks for it and whatever rules come and go.
THEOREM GateCorrect == Spec => ScopeGate
<1>1. TypeOK /\ Linked /\ [Next]_vars =>
        [\A a \in DOMAIN agents' \ DOMAIN agents : agents'[a].status = "queued" =>
           /\ \E rule \in scopeRules : rule.action = "allow"
                                     /\ agents'[a].target \in Covers[rule.boundary]
           /\ \A rule \in scopeRules : agents'[a].target \in Covers[rule.boundary]
                                     => rule.action # "deny"]_vars
  BY GateStep
<1>2. TypeOK /\ QueuedIsAuthorised => TypeOK /\ Linked
  BY DEF QueuedIsAuthorised
<1> QED
  BY <1>1, <1>2, Invariant, PTL DEF Spec, ScopeGate
=============================================================================
