----------------------------- MODULE Evaluation -----------------------------
(***************************************************************************)
(* An evaluation request: the orchestration loop (orchestration-loop.ts)   *)
(* asks a model turn by turn (model-provider.ts), or a fixed plan          *)
(* (planner.ts), which specialists to start, and starts them through       *)
(* spawn (orchestrator.ts).  Meanwhile packages are installed and replaced *)
(* in the registry (registry.ts), the project is paused and resumed, other *)
(* requests run, and calls fail after they had their effect.               *)
(***************************************************************************)
EXTENDS Naturals, Sequences, FiniteSets

CONSTANTS
  Requests,     \* POST /api/runs/:runId/orchestrate, all for one project
  Others,       \* stands for whoever else starts agents in it
  Agents,       \* ids of packages
  Root,         \* "orchestrator", which no request may start
  Manifests,    \* what can be installed
  Shipped,      \* the packages of the registry's directory
  Preferred,    \* the ids of the fixed plan, in order
  Finish,       \* a finish_evaluation call
  Faulty,       \* a call that is malformed, of another tool, or does not parse
  MaxTurns,     \* maxTurns of a request
  MaxAgents,    \* maxAgents of a request
  MaxCalls,     \* bound: calls in one answer of the model
  MaxOthers,    \* bound: runs that others create
  MaxErrors     \* bound: failing calls after a mutation, and stops

\* A call that asks for a specialist stands for its id.
Calls == Agents \cup {Finish, Faulty}

ASSUME EvaluationAssumption ==
  /\ Root \in Agents
  /\ Others \notin Requests
  /\ {Finish, Faulty} \cap Agents = {}
  /\ Finish # Faulty
  /\ Manifests \subseteq [agent : Agents, version : Nat, enabled : BOOLEAN]
  /\ Shipped \subseteq Manifests
  /\ \A m, n \in Shipped : m.agent = n.agent /\ m.version = n.version => m = n
  /\ Preferred \in Seq(Agents \ {Root})
  /\ {MaxTurns, MaxAgents} \subseteq Nat \ {0}
  /\ {MaxCalls, MaxOthers, MaxErrors} \subseteq Nat

VARIABLES
  provider,   \* "model" if there is an API key, else "plan"
  packages,   \* agent_packages: one manifest per id and version
  admitting,  \* the project is neither paused nor ended
  runs,       \* the agent runs created, in order
  at,         \* where each request is
  offered,    \* the manifests it read when it began
  turn,
  calls,      \* of the model's answer, or the plan, still to be carried out
  held,       \* the manifest spawn read, and then the position of its run
  started,    \* spawned of the provider: a number
  reported,   \* spawned of the loop: positions of runs
  outcome,    \* stoppedReason
  errors

shared == <<provider, packages, admitting>>
loop == <<at, offered, turn, calls, held, started, reported, outcome>>
vars == <<shared, runs, loop, errors>>

Places == {"new", "asking", "calling", "mutating", "announcing", "ended", "failed"}
Outcomes == {"none", "completed", "no_tool_calls", "turn_limit", "agent_limit"}
Over == {"ended", "failed"}

Init ==
  /\ provider \in {"model", "plan"}
  /\ packages = Shipped
  /\ admitting = TRUE
  /\ runs = << >>
  /\ at = [r \in Requests |-> "new"]
  /\ offered = [r \in Requests |-> {}]
  /\ turn = [r \in Requests |-> 1]
  /\ calls = [r \in Requests |-> << >>]
  /\ held = [r \in Requests |-> 0]
  /\ started = [r \in Requests |-> 0]
  /\ reported = [r \in Requests |-> {}]
  /\ outcome = [r \in Requests |-> "none"]
  /\ errors = 0

\* The positions of the runs that r created.
RunsOf(r) == {i \in DOMAIN runs : runs[i].by = r}

-----------------------------------------------------------------------------
(***************************************************************************)
(* The registry.                                                           *)
(***************************************************************************)
\* list: the highest version of each id, enabled or not.
Newest ==
  {m \in packages : \A n \in packages : n.agent = m.agent => n.version <= m.version}

\* get
Selectable(a) == {m \in Newest : m.agent = a /\ m.enabled}

Ids(manifests) == {m.agent : m \in manifests}

\* upsertManifest on each: what has the same id and version is replaced.
Upserted(manifests) ==
  {n \in packages : \A m \in manifests : n.agent # m.agent \/ n.version # m.version}
    \cup manifests

Install(m) ==
  /\ packages' = Upserted({m})
  /\ UNCHANGED <<provider, admitting, runs, loop, errors>>

\* setRunState of an operator, and whatever ends an engagement.
Admitting(b) ==
  /\ admitting' = b
  /\ UNCHANGED <<provider, packages, runs, loop, errors>>

-----------------------------------------------------------------------------
(***************************************************************************)
(* The loop.                                                               *)
(***************************************************************************)
Moves(r, from, to) == at[r] = from /\ at' = [at EXCEPT ![r] = to]

\* run, up to the first turn or the first step of the plan.
Begin(r) ==
  /\ IF provider = "model"
       THEN /\ Moves(r, "new", "asking")
            /\ offered' = [offered EXCEPT ![r] = {m \in Newest : m.enabled}]
            /\ UNCHANGED calls
       ELSE /\ Moves(r, "new", "calling")
            /\ offered' = [offered EXCEPT ![r] = Newest]
            /\ calls' = [calls EXCEPT ![r] = Preferred]
  /\ UNCHANGED <<shared, runs, turn, held, started, reported, outcome, errors>>

Ends(r, from, reason) ==
  /\ Moves(r, from, "ended")
  /\ outcome' = [outcome EXCEPT ![r] = reason]
  /\ UNCHANGED <<shared, runs, offered, turn, calls, held, started, reported, errors>>

\* The model answers with calls, or with text alone.
Answer(r, answer) ==
  /\ Moves(r, "asking", "calling")
  /\ calls' = [calls EXCEPT ![r] = answer]
  /\ UNCHANGED <<shared, runs, offered, turn, held, started, reported, outcome, errors>>

AnswerInText(r) == Ends(r, "asking", "no_tool_calls")

\* An error of the model's API, or its 60 seconds.
NoAnswer(r) ==
  /\ Moves(r, "asking", "failed")
  /\ UNCHANGED <<shared, runs, offered, turn, calls, held, started, reported, outcome, errors>>

Carrying(r) == calls[r] # << >> /\ at[r] = "calling"
Rest(r) == calls' = [calls EXCEPT ![r] = Tail(calls[r])]

\* Slip...: as in Orchestrator, a mistake that could be made at that place.
SlipStartable(r, call) ==
  call \in Ids(offered[r]) \ {Root} /\ started[r] <= MaxAgents

SlipUnoffered(r, call) ==
  call \in Ids(Newest) /\ started[r] < MaxAgents

\* The calls that reach spawn.  Each step of a plan starts a run or ends the
\* request, so its first MaxAgents steps are those before the limit.
Startable(r, call) ==
  call \in Ids(offered[r]) \ {Root} /\ started[r] < MaxAgents

Drop(r) ==
  /\ Carrying(r)
  /\ Head(calls[r]) # Finish /\ ~ Startable(r, Head(calls[r]))
  /\ Rest(r)
  /\ UNCHANGED <<shared, runs, at, offered, turn, held, started, reported, outcome, errors>>

FinishCalled(r) ==
  /\ Carrying(r) /\ Head(calls[r]) = Finish
  /\ Ends(r, "calling", "completed")

\* What an error of spawn does: the model is told, the plan is given up.
Throws(r) ==
  /\ IF provider = "model"
       THEN at' = [at EXCEPT ![r] = "calling"] /\ Rest(r)
       ELSE at' = [at EXCEPT ![r] = "failed"] /\ UNCHANGED calls
  /\ UNCHANGED <<shared, offered, turn, held, started, reported, outcome>>

\* spawn: registry.get ...
Spawn(r) ==
  /\ Carrying(r) /\ Startable(r, Head(calls[r]))
  /\ IF Selectable(Head(calls[r])) = {}
       THEN Throws(r) /\ UNCHANGED <<runs, errors>>
       ELSE /\ Moves(r, "calling", "mutating")
            /\ held' = [held EXCEPT ![r] =
                          (CHOOSE m \in Selectable(Head(calls[r])) : TRUE).version]
            /\ UNCHANGED <<shared, runs, offered, turn, calls, started, reported, outcome, errors>>

\* ... the mutation, with the run queued or waiting for approval ...
Admit(r) ==
  /\ Moves(r, "mutating", "announcing")
  /\ admitting
  /\ runs' = Append(runs, [by |-> r, agent |-> Head(calls[r]), version |-> held[r]])
  /\ held' = [held EXCEPT ![r] = Len(runs) + 1]
  /\ UNCHANGED <<shared, offered, turn, calls, started, reported, outcome, errors>>

\* ... or refused: not admitting, or by policy ...
Refuse(r) ==
  /\ at[r] = "mutating"
  /\ Throws(r)
  /\ UNCHANGED <<runs, errors>>

\* ... and its audit record and dispatch,
Announce(r) ==
  /\ Moves(r, "announcing", "calling")
  /\ Rest(r)
  /\ reported' = [reported EXCEPT ![r] = @ \cup {held[r]}]
  /\ started' = [started EXCEPT ![r] = @ + 1]
  /\ UNCHANGED <<shared, runs, offered, turn, held, outcome, errors>>

SlipAnnounceFails(r) ==
  /\ at[r] = "announcing"
  /\ errors < MaxErrors /\ errors' = errors + 1
  /\ reported' = [reported EXCEPT ![r] = @ \cup {held[r]}]
  /\ at' = [at EXCEPT ![r] = "calling"] /\ Rest(r)
  /\ UNCHANGED <<shared, runs, offered, turn, held, started, outcome>>

\* either of which may throw although the run is there.
AnnounceFails(r) ==
  /\ at[r] = "announcing"
  /\ errors < MaxErrors /\ errors' = errors + 1
  /\ Throws(r)
  /\ UNCHANGED runs

PlanLength(r) == Cardinality({i \in DOMAIN Preferred : Preferred[i] \in Ids(offered[r])})

SlipTurnEnds(r) ==
  /\ at[r] = "calling" /\ calls[r] = << >>
  /\ IF provider = "plan" \/ started[r] >= MaxAgents THEN Ends(r, "calling", "agent_limit")
     ELSE /\ Moves(r, "calling", "asking")
          /\ UNCHANGED <<shared, runs, turn, offered, calls, held, started, reported, outcome, errors>>

SlipOneTurnMore(r) ==
  /\ at[r] = "calling" /\ calls[r] = << >>
  /\ IF provider = "plan" \/ started[r] >= MaxAgents THEN Ends(r, "calling", "agent_limit")
     ELSE IF turn[r] > MaxTurns THEN Ends(r, "calling", "turn_limit")
     ELSE /\ Moves(r, "calling", "asking")
          /\ turn' = [turn EXCEPT ![r] = @ + 1]
          /\ UNCHANGED <<shared, runs, offered, calls, held, started, reported, outcome, errors>>

\* All calls of the turn, or all steps of the plan, are done.
TurnEnds(r) ==
  /\ at[r] = "calling" /\ calls[r] = << >>
  /\ IF provider = "plan"
       THEN Ends(r, "calling", IF PlanLength(r) > MaxAgents THEN "agent_limit" ELSE "completed")
     ELSE IF started[r] >= MaxAgents THEN Ends(r, "calling", "agent_limit")
     ELSE IF turn[r] = MaxTurns THEN Ends(r, "calling", "turn_limit")
     ELSE /\ Moves(r, "calling", "asking")
          /\ turn' = [turn EXCEPT ![r] = @ + 1]
          /\ UNCHANGED <<shared, runs, offered, calls, held, started, reported, outcome, errors>>

\* The spawn route and the spawn requests of agents, here in one step.
SpawnOther(m) ==
  /\ admitting /\ m.enabled /\ m \in Newest
  /\ Cardinality(RunsOf(Others)) < MaxOthers
  /\ runs' = Append(runs, [by |-> Others, agent |-> m.agent, version |-> m.version])
  /\ UNCHANGED <<shared, loop, errors>>

\* The process stops and starts again: requests under way are gone, and the
\* packages of the directory are installed once more (initialize).
Stop ==
  /\ errors < MaxErrors /\ errors' = errors + 1
  /\ at' = [r \in Requests |-> IF at[r] \in {"new"} \cup Over THEN at[r] ELSE "failed"]
  /\ packages' = Upserted(Shipped)
  /\ UNCHANGED <<provider, admitting, runs, offered, turn, calls, held, started, reported, outcome>>

-----------------------------------------------------------------------------
Answers == UNION {[1..n -> Calls] : n \in 1..MaxCalls}

Progress(r) ==
  \/ \E answer \in Answers : Answer(r, answer)
  \/ AnswerInText(r) \/ NoAnswer(r)
  \/ Drop(r) \/ FinishCalled(r) \/ Spawn(r) \/ Admit(r) \/ Refuse(r)
  \/ Announce(r) \/ AnnounceFails(r) \/ TurnEnds(r)

Next ==
  \/ \E m \in Manifests : Install(m) \/ SpawnOther(m)
  \/ \E b \in BOOLEAN : Admitting(b)
  \/ \E r \in Requests : Begin(r) \/ Progress(r)
  \/ Stop

Spec == Init /\ [][Next]_vars

\* The process gets to run; the model answers within its 60 seconds or the
\* request is aborted.
FairSpec == Spec /\ \A r \in Requests : WF_vars(Progress(r))

-----------------------------------------------------------------------------
TypeOK ==
  /\ provider \in {"model", "plan"}
  /\ packages \subseteq Manifests
  /\ admitting \in BOOLEAN
  /\ runs \in Seq([by : Requests \cup {Others}, agent : Agents, version : Nat])
  /\ at \in [Requests -> Places]
  /\ offered \in [Requests -> SUBSET Manifests]
  /\ turn \in [Requests -> 1..MaxTurns]
  /\ calls \in [Requests -> Seq(Calls)]
  /\ held \in [Requests -> Nat]
  /\ started \in [Requests -> 0..MaxAgents]
  /\ reported \in [Requests -> SUBSET (DOMAIN runs)]
  /\ outcome \in [Requests -> Outcomes]
  /\ errors \in 0..MaxErrors

\* model-provider.ts 257-264: a request does not create more runs than its
\* maxAgents, except that a run whose audit record or dispatch threw after
\* the mutation is not counted.
LimitKept == \A r \in Requests : Cardinality(RunsOf(r)) <= MaxAgents + errors

\* orchestration-loop.ts 75 and model-provider.ts 265 keep two accounts of
\* what was started: they agree with each other, with the dashboard up to the
\* calls that failed, and with the reason the caller is given.
OutcomeIsTrue ==
  \A r \in Requests : at[r] = "ended" =>
    /\ reported[r] \subseteq RunsOf(r)
    /\ Cardinality(reported[r]) = started[r]
    /\ Cardinality(RunsOf(r) \ reported[r]) <= errors
    /\ outcome[r] = "agent_limit" => started[r] = MaxAgents
    /\ outcome[r] \in {"turn_limit", "no_tool_calls"} => started[r] < MaxAgents

\* orchestration-loop.ts 56-68 and registry.ts 36-39: whatever is installed
\* meanwhile, a request starts only what it was offered, in that version or a
\* newer one, never the orchestrator itself.
OnlyWhatWasOffered ==
  \A r \in Requests : \A i \in RunsOf(r) :
    /\ runs[i].agent # Root
    /\ \E m \in offered[r] : m.agent = runs[i].agent /\ m.version <= runs[i].version

\* model-provider.ts 233-272: every request ends, whatever the model calls.
EveryRequestEnds == \A r \in Requests : at[r] # "new" ~> at[r] \in Over
=============================================================================
