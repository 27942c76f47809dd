-------------------------- MODULE EvaluationProofs --------------------------
(***************************************************************************)
(* Theorems about Evaluation, for any number of requests, packages, turns, *)
(* agents and failing calls, and either provider.                          *)
(***************************************************************************)
EXTENDS Evaluation, SequenceFacts, SequenceTheorems, FiniteSetTheorems, TLAPS

-----------------------------------------------------------------------------
(***************************************************************************)
(* The inductive invariant, request by request.                            *)
(***************************************************************************)
Run == [by : Requests \cup {Others}, agent : Agents, version : Nat]

\* The types of the variables.
Typed ==
  /\ provider \in {"model", "plan"}
  /\ packages \subseteq Manifests
  /\ admitting \in BOOLEAN
  /\ runs \in Seq(Run)
  /\ at \in [Requests -> Places]
  /\ offered \in [Requests -> SUBSET Manifests]
  /\ turn \in [Requests -> 1..MaxTurns]
  /\ calls \in [Requests -> Seq(Calls)]
  /\ held \in [Requests -> Nat]
  /\ started \in [Requests -> 0..MaxAgents]
  /\ reported \in [Requests -> SUBSET Nat]
  /\ outcome \in [Requests -> Outcomes]
  /\ errors \in 0..MaxErrors

\* Nothing is under way for a request that did not begin.
Fresh(r) == at[r] = "new" => started[r] = 0 /\ reported[r] = {} /\ RunsOf(r) = {}

\* Packages are replaced, never removed.
Kept(r) ==
  \A m \in offered[r] : \E n \in packages : n.agent = m.agent /\ n.version = m.version

\* A request inside spawn has a call that may get there.
Calling(r) ==
  at[r] \in {"mutating", "announcing"} =>
    calls[r] # << >> /\ Startable(r, Head(calls[r]))

\* What spawn read is at least as new as what was offered.
Reading(r) ==
  at[r] = "mutating" =>
    \E m \in offered[r] : m.agent = Head(calls[r]) /\ m.version <= held[r]

\* The run that is being announced is not reported yet.
Announcing(r) == at[r] = "announcing" => held[r] \in RunsOf(r) \ reported[r]

Unsure(r) == IF at[r] = "announcing" THEN 1 ELSE 0

\* The accounts of what was started.
Counted(r) ==
  /\ reported[r] \subseteq RunsOf(r)
  /\ Cardinality(reported[r]) = started[r]
  /\ Cardinality(RunsOf(r) \ reported[r]) <= errors + Unsure(r)

\* The model is asked only below the limit.
Asking(r) == at[r] = "asking" => provider = "model" /\ started[r] < MaxAgents

\* The first k steps of the plan that name a listed package.
Steps(r, k) == {i \in 1..k : Preferred[i] \in Ids(offered[r])}
Done(r) == Len(Preferred) - Len(calls[r])

\* A plan is carried out in order, and each of its steps started a run.
Planning(r) ==
  provider = "plan" /\ at[r] \in {"calling", "mutating", "announcing"} =>
    /\ Done(r) \in 0..Len(Preferred)
    /\ \A i \in 1..Len(calls[r]) : calls[r][i] = Preferred[Done(r) + i]
    /\ started[r] = MaxAgents \/ started[r] = Cardinality(Steps(r, Done(r)))

\* The reason of a request that ended is the true one.
Ending(r) ==
  at[r] = "ended" =>
    /\ outcome[r] = "agent_limit" => started[r] = MaxAgents
    /\ outcome[r] \in {"turn_limit", "no_tool_calls"} => started[r] < MaxAgents

\* What was started was offered.
Offering(r) ==
  \A i \in RunsOf(r) :
    /\ runs[i].agent # Root
    /\ \E m \in offered[r] : m.agent = runs[i].agent /\ m.version <= runs[i].version

Sound(r) ==
  /\ Fresh(r) /\ Kept(r) /\ Calling(r) /\ Reading(r) /\ Announcing(r)
  /\ Counted(r) /\ Asking(r) /\ Planning(r) /\ Ending(r) /\ Offering(r)

Inv == Typed /\ \A r \in Requests : Sound(r)

-----------------------------------------------------------------------------
(***************************************************************************)
(* Facts about the operators.                                              *)
(***************************************************************************)
LEMMA RunsListed ==
  ASSUME Typed, NEW r
  PROVE  /\ Len(runs) \in Nat /\ DOMAIN runs = 1..Len(runs)
         /\ RunsOf(r) \subseteq 1..Len(runs)
         /\ IsFiniteSet(RunsOf(r)) /\ Cardinality(RunsOf(r)) \in Nat
<1>1. Len(runs) \in Nat /\ DOMAIN runs = 1..Len(runs)
  BY LenProperties DEF Typed
<1>2. RunsOf(r) \in SUBSET (1..Len(runs))
  BY <1>1 DEF RunsOf
<1>3. IsFiniteSet(1..Len(runs))
  BY <1>1, FS_Interval
<1> QED
  BY <1>1, <1>2, <1>3, FS_Subset, FS_CardinalityType

\* A new run belongs to the one that creates it.
LEMMA RunsGrow ==
  ASSUME Typed, NEW x \in Run, runs' = Append(runs, x), NEW r
  PROVE  /\ runs' \in Seq(Run)
         /\ RunsOf(r)' = RunsOf(r) \cup (IF x.by = r THEN {Len(runs) + 1} ELSE {})
         /\ \A i \in RunsOf(r) : runs'[i] = runs[i]
         /\ runs'[Len(runs) + 1] = x
         /\ Len(runs) + 1 \notin RunsOf(r)
<1>1. runs \in Seq(Run)
  BY DEF Typed
<1>2. /\ runs' \in Seq(Run) /\ Len(runs) \in Nat
      /\ DOMAIN runs = 1..Len(runs) /\ DOMAIN runs' = 1..(Len(runs) + 1)
      /\ runs'[Len(runs) + 1] = x
      /\ \A i \in DOMAIN runs : runs'[i] = runs[i]
  BY <1>1, Appended
<1> QED
  BY <1>2 DEF RunsOf

LEMMA UpsertedKeeps ==
  ASSUME NEW S, NEW n \in packages
  PROVE  \E m \in Upserted(S) : m.agent = n.agent /\ m.version = n.version
BY DEF Upserted

LEMMA UpsertedTyped ==
  ASSUME Typed, NEW S \in SUBSET Manifests
  PROVE  Upserted(S) \in SUBSET Manifests
BY DEF Typed, Upserted

LEMMA NewestListed == Newest \subseteq packages
BY DEF Newest

\* registry.get finds nothing older than a manifest of the same id.
LEMMA SelectableIsNew ==
  ASSUME Typed, NEW a, Selectable(a) # {}, NEW n \in packages, n.agent = a
  PROVE  LET m == CHOOSE m \in Selectable(a) : TRUE
         IN  m.version \in Nat /\ n.version <= m.version
<1> DEFINE m == CHOOSE m \in Selectable(a) : TRUE
<1>1. m \in Selectable(a)
  OBVIOUS
<1>2. m \in packages /\ m.agent = a /\ n.version <= m.version
  BY <1>1 DEF Selectable, Newest
<1>3. m.version \in Nat
  BY <1>2, EvaluationAssumption DEF Typed
<1> QED
  BY <1>2, <1>3

\* The calls that are left.
LEMMA Shorter ==
  ASSUME Typed, NEW r \in Requests, calls[r] # << >>
  PROVE  /\ Head(calls[r]) \in Calls /\ Head(calls[r]) = calls[r][1]
         /\ Tail(calls[r]) \in Seq(Calls)
         /\ Len(calls[r]) \in Nat \ {0}
         /\ Len(Tail(calls[r])) = Len(calls[r]) - 1
         /\ \A i \in 1..Len(Tail(calls[r])) : Tail(calls[r])[i] = calls[r][i + 1]
<1>1. calls[r] \in Seq(Calls)
  BY DEF Typed
<1>2. Len(calls[r]) \in Nat \ {0} /\ Head(calls[r]) = calls[r][1] /\ Head(calls[r]) \in Calls
  BY <1>1, EmptySeq, HeadTailProperties, LenProperties, ElementOfSeq
<1>3. Tail(calls[r]) \in Seq(Calls) /\ Len(Tail(calls[r])) = Len(calls[r]) - 1
  BY <1>1, HeadTailProperties
<1>4. \A i \in 1..Len(Tail(calls[r])) : Tail(calls[r])[i] = calls[r][i + 1]
  BY <1>1, <1>3, HeadTailProperties
<1> QED
  BY <1>2, <1>3, <1>4

-----------------------------------------------------------------------------
(***************************************************************************)
(* Types.                                                                  *)
(***************************************************************************)
LEMMA TypedInit == Init => Typed
BY EvaluationAssumption, EmptySeq DEF Init, Typed, Places, Outcomes

LEMMA TypedEnds ==
  ASSUME Typed, NEW r \in Requests, NEW from, NEW reason \in Outcomes, Ends(r, from, reason)
  PROVE  Typed'
BY DEF Typed, Ends, Moves, shared, Places

LEMMA TypedThrows ==
  ASSUME Typed, NEW r \in Requests, calls[r] # << >>, Throws(r), runs' = runs,
         errors' \in 0..MaxErrors
  PROVE  Typed'
<1>1. Tail(calls[r]) \in Seq(Calls)
  BY Shorter
<1> QED
  BY <1>1 DEF Typed, Throws, Rest, shared, Places

LEMMA TypedStep == Inv /\ [Next]_vars => Typed'
<1> SUFFICES ASSUME Inv, [Next]_vars PROVE Typed'
  OBVIOUS
<1>0. Typed /\ errors \in Nat /\ MaxErrors \in Nat /\ MaxAgents \in Nat \ {0} /\ MaxTurns \in Nat \ {0}
  BY EvaluationAssumption DEF Inv, Typed
<1>1. ASSUME NEW m \in Manifests, Install(m) PROVE Typed'
  <2>1. packages' \subseteq Manifests
    BY <1>0, <1>1, UpsertedTyped DEF Install
  <2> QED
    BY <1>0, <1>1, <2>1 DEF Install, Typed, loop
<1>2. ASSUME NEW m \in Manifests, SpawnOther(m) PROVE Typed'
  <2> DEFINE x == [by |-> Others, agent |-> m.agent, version |-> m.version]
  <2>1. x \in Run
    BY <1>0, EvaluationAssumption DEF Typed, Run
  <2>2. runs' = Append(runs, x)
    BY <1>2 DEF SpawnOther
  <2>3. runs' \in Seq(Run)
    BY <1>0, <2>1, <2>2, RunsGrow
  <2> QED
    BY <1>0, <1>2, <2>3 DEF SpawnOther, Typed, loop, shared
<1>3. ASSUME NEW b \in BOOLEAN, Admitting(b) PROVE Typed'
  BY <1>0, <1>3 DEF Admitting, Typed, loop
<1>4. ASSUME NEW r \in Requests, Begin(r) PROVE Typed'
  <2>1. Newest \subseteq Manifests /\ Preferred \in Seq(Calls)
    <3>1. Agents \ {Root} \subseteq Calls
      BY DEF Calls
    <3> HIDE DEF Calls
    <3>2. Preferred \in [1..Len(Preferred) -> Agents \ {Root}] /\ Len(Preferred) \in Nat
      BY EvaluationAssumption, LenProperties
    <3>3. Preferred \in [1..Len(Preferred) -> Calls]
      BY <3>1, <3>2
    <3> QED
      BY <1>0, <3>2, <3>3, FunctionIsSeq, NewestListed DEF Typed
  <2> QED
    BY <1>0, <1>4, <2>1 DEF Begin, Moves, Typed, Places, shared
<1>5. ASSUME NEW r \in Requests, NEW answer \in Answers, Answer(r, answer) PROVE Typed'
  <2>1. PICK n \in 1..MaxCalls : answer \in [1..n -> Calls]
    BY DEF Answers
  <2>2. answer \in Seq(Calls)
    BY <2>1, FunctionIsSeq, EvaluationAssumption
  <2> QED
    BY <1>0, <1>5, <2>2 DEF Answer, Moves, Typed, Places, shared
<1>6. ASSUME NEW r \in Requests, AnswerInText(r) PROVE Typed'
  BY <1>0, <1>6, TypedEnds DEF AnswerInText, Outcomes
<1>7. ASSUME NEW r \in Requests, NoAnswer(r) PROVE Typed'
  BY <1>0, <1>7 DEF NoAnswer, Moves, Typed, Places, shared
<1>8. ASSUME NEW r \in Requests, Drop(r) PROVE Typed'
  <2>1. Tail(calls[r]) \in Seq(Calls)
    BY <1>0, <1>8, Shorter DEF Drop, Carrying
  <2> QED
    BY <1>0, <1>8, <2>1 DEF Drop, Rest, Typed, shared
<1>9. ASSUME NEW r \in Requests, FinishCalled(r) PROVE Typed'
  BY <1>0, <1>9, TypedEnds DEF FinishCalled, Outcomes
<1>10. ASSUME NEW r \in Requests, Spawn(r) PROVE Typed'
  <2>1. CASE Selectable(Head(calls[r])) = {}
    BY <1>0, <1>10, <2>1, TypedThrows DEF Spawn, Carrying, Typed
  <2>2. CASE Selectable(Head(calls[r])) # {}
    <3> DEFINE m == CHOOSE m \in Selectable(Head(calls[r])) : TRUE
    <3>1. m \in packages
      BY <2>2 DEF Selectable, Newest
    <3>2. m.version \in Nat
      BY <1>0, <3>1, EvaluationAssumption DEF Typed
    <3>3. held' = [held EXCEPT ![r] = m.version]
      BY <1>10, <2>2 DEF Spawn
    <3> HIDE DEF m
    <3>4. held' \in [Requests -> Nat]
      BY <1>0, <3>2, <3>3 DEF Typed
    <3> QED
      BY <1>0, <1>10, <2>2, <3>4 DEF Spawn, Moves, Typed, Places, shared
  <2> QED
    BY <2>1, <2>2
<1>11. ASSUME NEW r \in Requests, Admit(r) PROVE Typed'
  <2> DEFINE x == [by |-> r, agent |-> Head(calls[r]), version |-> held[r]]
  <2>1. Head(calls[r]) \in Agents
    BY <1>0, <1>11, EvaluationAssumption DEF Inv, Sound, Calling, Admit, Moves, Startable, Ids, Typed
  <2>2. x \in Run /\ runs' = Append(runs, x)
    BY <1>0, <1>11, <2>1 DEF Admit, Typed, Run
  <2>3. runs' \in Seq(Run) /\ Len(runs) \in Nat
    BY <1>0, <2>2, RunsGrow, RunsListed
  <2> QED
    BY <1>0, <1>11, <2>3 DEF Admit, Moves, Typed, Places, shared
<1>12. ASSUME NEW r \in Requests, Refuse(r) PROVE Typed'
  BY <1>0, <1>12, TypedThrows DEF Refuse, Inv, Sound, Calling, Typed
<1>13. ASSUME NEW r \in Requests, Announce(r) PROVE Typed'
  <2>1. calls[r] # << >> /\ started[r] < MaxAgents
    BY <1>13 DEF Announce, Moves, Inv, Sound, Calling, Startable
  <2>2. Tail(calls[r]) \in Seq(Calls)
    BY <1>0, <2>1, Shorter
  <2>3. started[r] + 1 \in 0..MaxAgents
    BY <1>0, <2>1 DEF Typed
  <2>4. reported[r] \cup {held[r]} \in SUBSET Nat
    BY <1>0 DEF Typed
  <2> QED
    BY <1>0, <1>13, <2>2, <2>3, <2>4 DEF Announce, Moves, Rest, Typed, Places, shared
<1>14. ASSUME NEW r \in Requests, AnnounceFails(r) PROVE Typed'
  <2>1. errors' \in 0..MaxErrors
    BY <1>0, <1>14 DEF AnnounceFails
  <2> QED
    BY <1>0, <1>14, <2>1, TypedThrows DEF AnnounceFails, Inv, Sound, Calling
<1>15. ASSUME NEW r \in Requests, TurnEnds(r) PROVE Typed'
  <2>1. CASE \E reason \in Outcomes : Ends(r, "calling", reason)
    BY <1>0, <2>1, TypedEnds
  <2>2. CASE provider # "plan" /\ ~ (started[r] >= MaxAgents) /\ turn[r] # MaxTurns
    <3>1. turn[r] + 1 \in 1..MaxTurns
      BY <1>0, <2>2 DEF Typed
    <3> QED
      BY <1>0, <1>15, <2>2, <3>1 DEF TurnEnds, Moves, Typed, Places, shared
  <2> QED
    BY <1>15, <2>1, <2>2 DEF TurnEnds, Outcomes
<1>16. ASSUME Stop PROVE Typed'
  <2>1. packages' \subseteq Manifests
    BY <1>0, <1>16, UpsertedTyped, EvaluationAssumption DEF Stop
  <2>2. errors' \in 0..MaxErrors
    BY <1>0, <1>16 DEF Stop
  <2>3. at' \in [Requests -> Places]
    BY <1>0, <1>16 DEF Stop, Typed, Places
  <2> QED
    BY <1>0, <1>16, <2>1, <2>2, <2>3 DEF Stop, Typed
<1>17. ASSUME UNCHANGED vars PROVE Typed'
  BY <1>0, <1>17 DEF vars, shared, loop, Typed
<1> QED
  BY <1>1, <1>2, <1>3, <1>4, <1>5, <1>6, <1>7, <1>8, <1>9, <1>10, <1>11, <1>12, <1>13, <1>14,
     <1>15, <1>16, <1>17 DEF Next, Progress

-----------------------------------------------------------------------------
(***************************************************************************)
(* What a step leaves alone.                                               *)
(***************************************************************************)
PackagesKept ==
  \A n \in packages : \E m \in packages' : m.agent = n.agent /\ m.version = n.version

RunsKept(r) == RunsOf(r)' = RunsOf(r) /\ \A i \in RunsOf(r) : runs'[i] = runs[i]

\* The state of one request in the loop.
Same(r) ==
  /\ at'[r] = at[r] /\ offered'[r] = offered[r] /\ calls'[r] = calls[r]
  /\ held'[r] = held[r] /\ started'[r] = started[r] /\ reported'[r] = reported[r]
  /\ outcome'[r] = outcome[r]

\* A request that neither acts nor gets a run stays sound.
LEMMA Undisturbed ==
  ASSUME Inv, Typed', NEW r \in Requests, Same(r), PackagesKept, RunsKept(r),
         provider' = provider, errors <= errors'
  PROVE  Sound(r)'
<1>1. Fresh(r)' /\ Calling(r)' /\ Reading(r)' /\ Announcing(r)' /\ Asking(r)' /\ Ending(r)'
  BY DEF Inv, Sound, Same, RunsKept, Fresh, Calling, Startable, Ids, Reading, Announcing, Asking, Ending
<1>2. Kept(r)' /\ Offering(r)'
  BY DEF Inv, Sound, Same, RunsKept, PackagesKept, Kept, Offering
<1>3. Counted(r)'
  <2>1. Typed /\ Counted(r) /\ errors \in Nat /\ errors' \in Nat
    BY EvaluationAssumption DEF Inv, Sound, Typed
  <2>2. IsFiniteSet(RunsOf(r)) /\ RunsOf(r) \ reported[r] \in SUBSET RunsOf(r)
    BY <2>1, RunsListed
  <2>3. Cardinality(RunsOf(r) \ reported[r]) \in Nat
    BY <2>2, FS_Subset, FS_CardinalityType
  <2> QED
    BY <2>1, <2>3 DEF Counted, Unsure, Same, RunsKept
<1>4. Planning(r)'
  BY DEF Inv, Sound, Same, Planning, Done, Steps
<1> QED
  BY <1>1, <1>2, <1>3, <1>4 DEF Sound

LEMMA RunsUnchanged ==
  ASSUME runs' = runs, NEW r
  PROVE  RunsKept(r)
BY DEF RunsKept, RunsOf

LEMMA PackagesUnchanged ==
  ASSUME packages' = packages
  PROVE  PackagesKept
BY DEF PackagesKept

\* The other requests in a step of request r.
LEMMA OthersUndisturbed ==
  ASSUME Inv, Typed', NEW r \in Requests, \A q \in Requests \ {r} : Same(q) /\ RunsKept(q),
         packages' = packages, provider' = provider, errors <= errors', Sound(r)'
  PROVE  \A q \in Requests : Sound(q)'
BY Undisturbed, PackagesUnchanged

\* The accounts of a request that neither starts nor reports anything.
LEMMA AccountsKept ==
  ASSUME Inv, Typed', NEW r \in Requests, PackagesKept, runs' = runs,
         offered'[r] = offered[r], started'[r] = started[r], reported'[r] = reported[r],
         errors + Unsure(r) <= errors' + Unsure(r)'
  PROVE  Kept(r)' /\ Counted(r)' /\ Offering(r)' /\ RunsOf(r)' = RunsOf(r)
<1>0. RunsOf(r)' = RunsOf(r)
  BY DEF RunsOf
<1>1. Kept(r)' /\ Offering(r)'
  BY <1>0 DEF Inv, Sound, PackagesKept, Kept, Offering
<1>2. Counted(r)'
  <2>0. Unsure(r) \in Nat /\ Unsure(r)' \in Nat
    BY DEF Unsure
  <2>a. errors \in Nat /\ errors' \in Nat
    BY EvaluationAssumption DEF Inv, Typed
  <2>1. Typed /\ Counted(r) /\ errors + Unsure(r) \in Nat /\ errors' + Unsure(r)' \in Nat
    BY <2>0, <2>a DEF Inv, Sound
  <2>2. IsFiniteSet(RunsOf(r)) /\ RunsOf(r) \ reported[r] \in SUBSET RunsOf(r)
    BY <2>1, RunsListed
  <2>3. Cardinality(RunsOf(r) \ reported[r]) \in Nat
    BY <2>2, FS_Subset, FS_CardinalityType
  <2> QED
    BY <1>0, <2>1, <2>3 DEF Counted
<1> QED
  BY <1>0, <1>1, <1>2

\* Dropping the first call of a plan without starting a run: the step named
\* no listed package, or the limit is reached.
LEMMA PlanSkips ==
  ASSUME Inv, NEW r \in Requests, calls[r] # << >>, Rest(r), at[r] = "calling",
         at'[r] = "calling", offered'[r] = offered[r], started'[r] = started[r],
         provider' = provider, Typed',
         provider = "plan" => ~ Startable(r, Head(calls[r]))
  PROVE  Planning(r)'
<1> SUFFICES ASSUME provider = "plan" PROVE Planning(r)'
  BY DEF Planning
<1>0. /\ Typed /\ Planning(r)
      /\ Preferred \in Seq(Agents \ {Root}) /\ Len(Preferred) \in Nat
      /\ MaxAgents \in Nat /\ started[r] \in 0..MaxAgents
  BY EvaluationAssumption, LenProperties DEF Inv, Sound, Typed
<1>1. /\ calls'[r] = Tail(calls[r])
      /\ Head(calls[r]) = calls[r][1]
      /\ Len(calls[r]) \in Nat \ {0}
      /\ Len(calls'[r]) = Len(calls[r]) - 1
      /\ \A i \in 1..Len(calls'[r]) : calls'[r][i] = calls[r][i + 1]
  BY <1>0, Shorter DEF Rest, Typed
<1>a. Done(r) \in 0..Len(Preferred)
  BY <1>0 DEF Planning
<1>b. PICK k \in 0..Len(Preferred) : k = Done(r)
  BY <1>a
<1>2. k + 1 \in 1..Len(Preferred) /\ Done(r)' = k + 1
  <2>1. k = Len(Preferred) - Len(calls[r])
    BY <1>b DEF Done
  <2>2. Done(r)' = Len(Preferred) - Len(calls'[r])
    BY DEF Done
  <2> QED
    BY <1>0, <1>1, <2>1, <2>2
<1>3. /\ \A i \in 1..Len(calls[r]) : calls[r][i] = Preferred[k + i]
      /\ started[r] = MaxAgents \/ started[r] = Cardinality(Steps(r, k))
  BY <1>0, <1>b DEF Planning
<1>4. \A i \in 1..Len(calls'[r]) : calls'[r][i] = Preferred[k + 1 + i]
  <2> TAKE i \in 1..Len(calls'[r])
  <2>1. i + 1 \in 1..Len(calls[r]) /\ i \in Int
    BY <1>1
  <2>2. calls[r][i + 1] = Preferred[k + (i + 1)]
    BY <1>3, <2>1
  <2>3. k + (i + 1) = k + 1 + i
    BY <1>2, <2>1
  <2> QED
    BY <1>1, <2>2, <2>3
<1>5. Head(calls[r]) = Preferred[k + 1] /\ Head(calls[r]) # Root
  <2>1. calls[r][1] = Preferred[k + 1]
    BY <1>1, <1>3
  <2>2. Preferred[k + 1] \in Agents \ {Root}
    BY <1>0, <1>2, ElementOfSeq
  <2> QED
    BY <1>1, <2>1, <2>2
<1>6. started[r] = MaxAgents \/ Preferred[k + 1] \notin Ids(offered[r])
  BY <1>0, <1>5 DEF Startable
<1>7. Preferred[k + 1] \notin Ids(offered[r]) => Steps(r, k)' = Steps(r, k) /\ Steps(r, k + 1)' = Steps(r, k)
  <2>1. \A i : i \in 1..(k + 1) <=> i \in 1..k \/ i = k + 1
    BY <1>2
  <2> QED
    BY <2>1 DEF Steps, Ids
<1>8. Steps(r, Done(r))' = Steps(r, k + 1)'
  BY <1>2 DEF Steps
<1>9. started'[r] = MaxAgents \/ started'[r] = Cardinality(Steps(r, Done(r))')
  BY <1>3, <1>6, <1>7, <1>8
<1>10. Cardinality(Steps(r, Done(r)))' = Cardinality(Steps(r, Done(r))')
  OBVIOUS
<1>11. \A i \in 1..Len(calls[r])' : calls[r][i]' = Preferred[Done(r) + i]'
  BY <1>2, <1>4
<1> QED
  BY <1>2, <1>9, <1>11 DEF Planning

-----------------------------------------------------------------------------
(***************************************************************************)
(* The steps, each for the request that takes it.                          *)
(***************************************************************************)
LEMMA SoundInit == Init => \A r \in Requests : Sound(r)
<1> SUFFICES ASSUME Init, NEW r \in Requests PROVE Sound(r)
  OBVIOUS
<1>1. RunsOf(r) = {}
  BY EmptySeq DEF Init, RunsOf
<1>2. errors = 0 /\ Unsure(r) = 0 /\ Cardinality({}) = 0
  BY FS_EmptySet DEF Init, Unsure
<1>3. Counted(r)
  BY <1>1, <1>2 DEF Init, Counted
<1> QED
  BY <1>1, <1>3 DEF Init, Sound, Fresh, Kept, Calling, Reading, Announcing, Asking, Planning,
     Ending, Offering

LEMMA BeginSound ==
  ASSUME Inv, Typed', NEW r \in Requests, Begin(r)
  PROVE  Sound(r)'
<1>0. /\ Typed /\ Sound(r) /\ at[r] = "new" /\ started[r] = 0 /\ reported[r] = {}
      /\ RunsOf(r) = {} /\ RunsOf(r)' = {}
      /\ started'[r] = 0 /\ reported'[r] = {} /\ errors' = errors /\ errors \in Nat
      /\ packages' = packages /\ provider' = provider /\ MaxAgents \in Nat \ {0}
  BY EvaluationAssumption DEF Begin, Moves, Inv, Sound, Fresh, RunsOf, shared, Typed
<1>1. at'[r] = IF provider = "model" THEN "asking" ELSE "calling"
  BY <1>0 DEF Begin, Moves, Typed
<1>2. offered'[r] \subseteq packages
  BY <1>0, NewestListed DEF Begin, Typed
<1>3. Kept(r)' /\ Offering(r)'
  BY <1>0, <1>2 DEF Kept, Offering
<1>4. Counted(r)'
  BY <1>0, <1>1, FS_EmptySet DEF Counted, Unsure
<1>5. Fresh(r)' /\ Calling(r)' /\ Reading(r)' /\ Announcing(r)' /\ Asking(r)' /\ Ending(r)'
  BY <1>0, <1>1 DEF Fresh, Calling, Reading, Announcing, Asking, Ending
<1>6. Planning(r)'
  <2> SUFFICES ASSUME provider # "model" PROVE Planning(r)'
    BY <1>0 DEF Planning
  <2>1. calls'[r] = Preferred /\ Len(Preferred) \in Nat
    BY <1>0, EvaluationAssumption, LenProperties DEF Begin, Typed
  <2>2. Done(r)' = 0
    BY <2>1 DEF Done
  <2>3. Steps(r, Done(r))' = {}
    BY <2>2 DEF Steps
  <2>4. Cardinality(Steps(r, Done(r)))' = 0
    BY <2>3, FS_EmptySet
  <2>5. \A i \in 1..Len(calls[r])' : calls[r][i]' = Preferred[Done(r) + i]'
    BY <2>1, <2>2
  <2> QED
    BY <1>0, <2>1, <2>2, <2>4, <2>5 DEF Planning
<1> QED
  BY <1>3, <1>4, <1>5, <1>6 DEF Sound

LEMMA EndsSound ==
  ASSUME Inv, Typed', NEW r \in Requests, NEW from \in {"asking", "calling"}, NEW reason,
         Ends(r, from, reason),
         reason = "agent_limit" => started[r] = MaxAgents,
         reason \in {"turn_limit", "no_tool_calls"} => started[r] < MaxAgents
  PROVE  Sound(r)'
<1>0. /\ Typed /\ Sound(r) /\ at[r] \in {"asking", "calling"} /\ at'[r] = "ended"
      /\ outcome'[r] = reason /\ offered' = offered /\ started' = started
      /\ reported' = reported /\ runs' = runs /\ errors' = errors /\ packages' = packages
  BY DEF Ends, Moves, Inv, Typed, shared
<1>1. Unsure(r) = 0 /\ Unsure(r)' = 0
  BY <1>0 DEF Unsure
<1>2. errors + Unsure(r) <= errors' + Unsure(r)'
  BY <1>0, <1>1, EvaluationAssumption DEF Typed
<1>3. Kept(r)' /\ Counted(r)' /\ Offering(r)'
  BY <1>0, <1>2, AccountsKept, PackagesUnchanged
<1>4. Fresh(r)' /\ Calling(r)' /\ Reading(r)' /\ Announcing(r)' /\ Asking(r)' /\ Planning(r)'
  BY <1>0 DEF Fresh, Calling, Reading, Announcing, Asking, Planning
<1>5. Ending(r)'
  BY <1>0 DEF Ending
<1> QED
  BY <1>3, <1>4, <1>5 DEF Sound

\* A request that goes back to its calls, or fails, without starting a run.
LEMMA ReturnSound ==
  ASSUME Inv, Typed', NEW r \in Requests, at'[r] \in {"calling", "failed"},
         at[r] # "new", PackagesKept, runs' = runs, provider' = provider,
         offered'[r] = offered[r], started'[r] = started[r], reported'[r] = reported[r],
         errors + Unsure(r) <= errors', Planning(r)'
  PROVE  Sound(r)'
<1>1. Unsure(r)' = 0 /\ errors' \in Nat
  BY EvaluationAssumption DEF Unsure, Typed
<1>2. errors + Unsure(r) <= errors' + Unsure(r)'
  BY <1>1
<1>3. Kept(r)' /\ Counted(r)' /\ Offering(r)'
  BY <1>2, AccountsKept
<1>4. Fresh(r)' /\ Calling(r)' /\ Reading(r)' /\ Announcing(r)' /\ Asking(r)' /\ Ending(r)'
  BY DEF Fresh, Calling, Reading, Announcing, Asking, Ending
<1> QED
  BY <1>3, <1>4 DEF Sound

LEMMA ThrowsSound ==
  ASSUME Inv, Typed', NEW r \in Requests, Throws(r), runs' = runs,
         at[r] \in {"calling", "mutating", "announcing"}, errors + Unsure(r) <= errors'
  PROVE  Sound(r)'
<1>1. /\ at'[r] = IF provider = "model" THEN "calling" ELSE "failed"
      /\ packages' = packages /\ provider' = provider /\ offered' = offered
      /\ started' = started /\ reported' = reported
  BY DEF Throws, shared, Inv, Typed
<1>2. Planning(r)'
  BY <1>1 DEF Planning
<1> QED
  BY <1>1, <1>2, ReturnSound, PackagesUnchanged

LEMMA AnswerSound ==
  ASSUME Inv, Typed', NEW r \in Requests, NEW answer, Answer(r, answer)
  PROVE  Sound(r)'
<1>1. /\ Typed /\ at[r] = "asking" /\ at'[r] = "calling" /\ provider = "model"
      /\ packages' = packages /\ provider' = provider /\ offered' = offered /\ runs' = runs
      /\ started' = started /\ reported' = reported /\ errors' = errors /\ errors \in Nat
  BY EvaluationAssumption DEF Answer, Moves, shared, Inv, Sound, Asking, Typed
<1>2. Unsure(r) = 0
  BY <1>1 DEF Unsure
<1>3. Planning(r)'
  BY <1>1 DEF Planning
<1> QED
  BY <1>1, <1>2, <1>3, ReturnSound, PackagesUnchanged

LEMMA NoAnswerSound ==
  ASSUME Inv, Typed', NEW r \in Requests, NoAnswer(r)
  PROVE  Sound(r)'
<1>1. /\ Typed /\ at[r] = "asking" /\ at'[r] = "failed"
      /\ packages' = packages /\ provider' = provider /\ offered' = offered /\ runs' = runs
      /\ started' = started /\ reported' = reported /\ errors' = errors /\ errors \in Nat
  BY EvaluationAssumption DEF NoAnswer, Moves, shared, Inv, Typed
<1>2. Unsure(r) = 0
  BY <1>1 DEF Unsure
<1>3. Planning(r)'
  BY <1>1 DEF Planning
<1> QED
  BY <1>1, <1>2, <1>3, ReturnSound, PackagesUnchanged

LEMMA DropSound ==
  ASSUME Inv, Typed', NEW r \in Requests, Drop(r)
  PROVE  Sound(r)'
<1>1. /\ Typed /\ at[r] = "calling" /\ at'[r] = "calling" /\ calls[r] # << >> /\ Rest(r)
      /\ packages' = packages /\ provider' = provider /\ offered' = offered /\ runs' = runs
      /\ started' = started /\ reported' = reported /\ errors' = errors /\ errors \in Nat
      /\ ~ Startable(r, Head(calls[r]))
  BY EvaluationAssumption DEF Drop, Carrying, shared, Inv, Typed
<1>2. Unsure(r) = 0
  BY <1>1 DEF Unsure
<1>3. Planning(r)'
  BY <1>1, PlanSkips
<1> QED
  BY <1>1, <1>2, <1>3, ReturnSound, PackagesUnchanged

LEMMA FinishSound ==
  ASSUME Inv, Typed', NEW r \in Requests, FinishCalled(r)
  PROVE  Sound(r)'
BY EndsSound DEF FinishCalled

LEMMA TextSound ==
  ASSUME Inv, Typed', NEW r \in Requests, AnswerInText(r)
  PROVE  Sound(r)'
<1>1. at[r] = "asking" /\ started[r] < MaxAgents
  BY DEF AnswerInText, Ends, Moves, Inv, Sound, Asking
<1> QED
  BY <1>1, EndsSound DEF AnswerInText

\* What spawn reads is at least as new as what the request was offered.
LEMMA SpawnSound ==
  ASSUME Inv, Typed', NEW r \in Requests, Spawn(r)
  PROVE  Sound(r)'
<1>b. at[r] = "calling"
  BY DEF Spawn, Carrying
<1>c. calls[r] # << >> /\ Startable(r, Head(calls[r]))
  BY DEF Spawn, Carrying
<1>d. errors \in Nat
  BY EvaluationAssumption DEF Inv, Typed
<1>0. /\ Typed /\ Sound(r) /\ at[r] = "calling" /\ calls[r] # << >>
      /\ Startable(r, Head(calls[r])) /\ errors \in Nat
  BY <1>b, <1>c, <1>d DEF Inv
<1>a. Unsure(r) = 0
  BY <1>0 DEF Unsure
<1>1. CASE Selectable(Head(calls[r])) = {}
  <2>1. Throws(r) /\ runs' = runs /\ errors' = errors
    BY <1>1 DEF Spawn
  <2> QED
    BY <1>0, <1>a, <2>1, ThrowsSound
<1>2. CASE Selectable(Head(calls[r])) # {}
  <2> DEFINE w == CHOOSE m \in Selectable(Head(calls[r])) : TRUE
  <2>1. /\ at'[r] = "mutating" /\ held'[r] = w.version
        /\ packages' = packages /\ provider' = provider /\ offered' = offered /\ runs' = runs
        /\ calls' = calls /\ started' = started /\ reported' = reported /\ errors' = errors
    BY <1>0, <1>2 DEF Spawn, Moves, shared, Typed
  <2>2. PICK m \in offered[r] : m.agent = Head(calls[r])
    BY <1>0 DEF Startable, Ids
  <2>3. PICK n \in packages : n.agent = m.agent /\ n.version = m.version
    BY <1>0 DEF Sound, Kept
  <2>4. n.version <= w.version
    BY <1>0, <1>2, <2>2, <2>3, SelectableIsNew
  <2> HIDE DEF w
  <2>5. Reading(r)'
    BY <2>1, <2>2, <2>3, <2>4 DEF Reading
  <2>6. Unsure(r)' = 0
    BY <2>1 DEF Unsure
  <2>7. Kept(r)' /\ Counted(r)' /\ Offering(r)'
    BY <1>0, <1>a, <2>1, <2>6, AccountsKept, PackagesUnchanged
  <2>8. Calling(r)'
    BY <1>0, <2>1 DEF Calling, Startable, Ids
  <2>9. Fresh(r)' /\ Announcing(r)' /\ Asking(r)' /\ Ending(r)'
    BY <2>1 DEF Fresh, Announcing, Asking, Ending
  <2>10. Planning(r)'
    BY <1>0, <2>1 DEF Sound, Planning, Done, Steps
  <2> QED
    BY <2>5, <2>7, <2>8, <2>9, <2>10 DEF Sound
<1> QED
  BY <1>1, <1>2

LEMMA AdmitSound ==
  ASSUME Inv, Typed', NEW r \in Requests, Admit(r)
  PROVE  Sound(r)'
<1> DEFINE x == [by |-> r, agent |-> Head(calls[r]), version |-> held[r]]
<1> DEFINE e == Len(runs) + 1
<1>0. /\ Typed /\ Sound(r) /\ at[r] = "mutating" /\ at'[r] = "announcing" /\ held'[r] = e
      /\ packages' = packages /\ provider' = provider /\ offered' = offered
      /\ calls' = calls /\ started' = started /\ reported' = reported /\ errors' = errors
      /\ runs' = Append(runs, x) /\ errors \in Nat
  BY EvaluationAssumption DEF Admit, Moves, shared, Inv, Typed
<1>1. calls[r] # << >> /\ Startable(r, Head(calls[r]))
  BY <1>0 DEF Sound, Calling
<1>2. x \in Run
  BY <1>0, <1>1, EvaluationAssumption DEF Startable, Ids, Typed, Run
<1>3. /\ RunsOf(r)' = RunsOf(r) \cup {e}
      /\ \A i \in RunsOf(r) : runs'[i] = runs[i]
      /\ runs'[e] = x /\ e \notin RunsOf(r)
  BY <1>0, <1>2, RunsGrow
<1>4. Kept(r)'
  BY <1>0 DEF Sound, Kept
<1>5. PICK m \in offered[r] : m.agent = Head(calls[r]) /\ m.version <= held[r]
  BY <1>0 DEF Sound, Reading
<1>6. x.agent = Head(calls[r]) /\ x.version = held[r] /\ Head(calls[r]) # Root
  BY <1>1 DEF Startable
<1>9. Counted(r)'
  <2>1. reported[r] \subseteq RunsOf(r) /\ Cardinality(reported[r]) = started[r]
        /\ Cardinality(RunsOf(r) \ reported[r]) <= errors /\ Unsure(r)' = 1
    BY <1>0 DEF Sound, Counted, Unsure, Typed
  <2>2. IsFiniteSet(RunsOf(r) \ reported[r]) /\ Cardinality(RunsOf(r) \ reported[r]) \in Nat
    BY <1>0, RunsListed, FS_Subset, FS_CardinalityType
  <2>3. RunsOf(r)' \ reported[r] = (RunsOf(r) \ reported[r]) \cup {e}
    BY <1>3, <2>1
  <2>4. e \notin RunsOf(r) \ reported[r]
    BY <1>3
  <2>5. Cardinality((RunsOf(r) \ reported[r]) \cup {e}) = Cardinality(RunsOf(r) \ reported[r]) + 1
    BY <2>2, <2>4, FS_AddElement
  <2>6. Cardinality(RunsOf(r) \ reported[r])' <= errors' + Unsure(r)'
    <3>1. (RunsOf(r) \ reported[r])' = (RunsOf(r) \ reported[r]) \cup {e}
      BY <1>0, <2>3
    <3>2. Cardinality(RunsOf(r) \ reported[r])' = Cardinality(RunsOf(r) \ reported[r]) + 1
      BY <2>5, <3>1
    <3> QED
      BY <1>0, <2>1, <2>2, <3>2
  <2>7. (reported[r] \subseteq RunsOf(r))' /\ (Cardinality(reported[r]) = started[r])'
    BY <1>0, <1>3, <2>1
  <2> QED
    BY <2>6, <2>7 DEF Counted
<1>8. Announcing(r)'
  <2>1. reported[r] \subseteq RunsOf(r)
    BY <1>0 DEF Sound, Counted
  <2> QED
    BY <1>0, <1>3, <2>1 DEF Announcing
<1>10. Calling(r)'
  BY <1>0, <1>1 DEF Calling, Startable, Ids
<1>11. Fresh(r)' /\ Reading(r)' /\ Asking(r)' /\ Ending(r)'
  BY <1>0 DEF Fresh, Reading, Asking, Ending
<1>12. Planning(r)'
  BY <1>0 DEF Sound, Planning, Done, Steps
<1> HIDE DEF x, e
<1>7. Offering(r)'
  BY <1>0, <1>3, <1>5, <1>6 DEF Sound, Offering
<1> QED
  BY <1>4, <1>7, <1>8, <1>9, <1>10, <1>11, <1>12 DEF Sound

\* The run is announced, and a step of the plan is done.
LEMMA AnnounceSound ==
  ASSUME Inv, Typed', NEW r \in Requests, Announce(r)
  PROVE  Sound(r)'
<1>0. /\ Typed /\ Sound(r) /\ at[r] = "announcing" /\ at'[r] = "calling"
      /\ packages' = packages /\ provider' = provider /\ offered' = offered /\ runs' = runs
      /\ calls'[r] = Tail(calls[r]) /\ started'[r] = started[r] + 1
      /\ reported'[r] = reported[r] \cup {held[r]} /\ errors' = errors
  BY DEF Announce, Moves, Rest, shared, Inv, Typed
<1>1. errors \in Nat /\ MaxAgents \in Nat /\ started[r] \in 0..MaxAgents
  BY EvaluationAssumption DEF Inv, Typed
<1>2. calls[r] # << >> /\ Startable(r, Head(calls[r]))
  BY <1>0 DEF Sound, Calling
<1>3. held[r] \in RunsOf(r) \ reported[r] /\ reported[r] \subseteq RunsOf(r)
  BY <1>0 DEF Sound, Announcing, Counted
<1>4. RunsOf(r)' = RunsOf(r)
  BY <1>0 DEF RunsOf
<1>5. Counted(r)'
  <2>1. IsFiniteSet(reported[r]) /\ IsFiniteSet(RunsOf(r) \ reported[r])
        /\ Cardinality(RunsOf(r) \ reported[r]) \in Nat
    BY <1>0, <1>3, RunsListed, FS_Subset, FS_CardinalityType
  <2>2. Cardinality(reported[r] \cup {held[r]}) = Cardinality(reported[r]) + 1
    BY <1>3, <2>1, FS_AddElement
  <2>3. Cardinality((RunsOf(r) \ reported[r]) \ {held[r]}) = Cardinality(RunsOf(r) \ reported[r]) - 1
    BY <1>3, <2>1, FS_RemoveElement
  <2>4. (RunsOf(r) \ reported[r])' = (RunsOf(r) \ reported[r]) \ {held[r]}
    BY <1>0, <1>4
  <2>5. Cardinality(reported[r]) = started[r] /\ Cardinality(RunsOf(r) \ reported[r]) <= errors + 1
    BY <1>0 DEF Sound, Counted, Unsure
  <2>6. (Cardinality(reported[r]) = started[r])'
    BY <1>0, <2>2, <2>5
  <2>7. Cardinality(RunsOf(r) \ reported[r])' = Cardinality((RunsOf(r) \ reported[r]) \ {held[r]})
    BY <2>4
  <2>8. Cardinality(RunsOf(r) \ reported[r])' <= errors
    BY <1>1, <2>1, <2>3, <2>5, <2>7
  <2>9. Unsure(r)' = 0
    BY <1>0 DEF Unsure
  <2>10. (Cardinality(RunsOf(r) \ reported[r]) <= errors + Unsure(r))'
    BY <1>0, <1>1, <2>8, <2>9
  <2>11. (reported[r] \subseteq RunsOf(r))'
    BY <1>0, <1>3, <1>4
  <2> QED
    BY <2>6, <2>10, <2>11 DEF Counted
<1>6. Kept(r)' /\ Offering(r)'
  BY <1>0, <1>4 DEF Sound, Kept, Offering
<1>7. Fresh(r)' /\ Calling(r)' /\ Reading(r)' /\ Announcing(r)' /\ Asking(r)' /\ Ending(r)'
  BY <1>0 DEF Fresh, Calling, Reading, Announcing, Asking, Ending
<1>8. Planning(r)'
  <2> SUFFICES ASSUME provider = "plan" PROVE Planning(r)'
    BY <1>0 DEF Planning
  <2>1. /\ Preferred \in Seq(Agents \ {Root}) /\ Len(Preferred) \in Nat
    BY EvaluationAssumption, LenProperties
  <2>2. /\ Head(calls[r]) = calls[r][1]
        /\ Len(calls[r]) \in Nat \ {0}
        /\ Len(calls'[r]) = Len(calls[r]) - 1
        /\ \A i \in 1..Len(calls'[r]) : calls'[r][i] = calls[r][i + 1]
    BY <1>0, <1>2, Shorter
  <2>3. Planning(r)
    BY <1>0 DEF Sound
  <2>4. PICK k \in 0..Len(Preferred) : k = Done(r)
    BY <1>0, <2>3 DEF Planning
  <2>5. k + 1 \in 1..Len(Preferred) /\ Done(r)' = k + 1
    <3>1. k = Len(Preferred) - Len(calls[r])
      BY <2>4 DEF Done
    <3>2. Done(r)' = Len(Preferred) - Len(calls'[r])
      BY DEF Done
    <3> QED
      BY <2>1, <2>2, <3>1, <3>2
  <2>6. /\ \A i \in 1..Len(calls[r]) : calls[r][i] = Preferred[k + i]
        /\ started[r] = MaxAgents \/ started[r] = Cardinality(Steps(r, k))
    BY <1>0, <2>3, <2>4 DEF Planning
  <2>7. \A i \in 1..Len(calls'[r]) : calls'[r][i] = Preferred[k + 1 + i]
    <3> TAKE i \in 1..Len(calls'[r])
    <3>1. i + 1 \in 1..Len(calls[r]) /\ i \in Int
      BY <2>2
    <3>2. calls[r][i + 1] = Preferred[k + (i + 1)]
      BY <2>6, <3>1
    <3>3. k + (i + 1) = k + 1 + i
      BY <2>4, <3>1
    <3> QED
      BY <2>2, <3>2, <3>3
  <2>8. Preferred[k + 1] \in Ids(offered[r]) /\ started[r] < MaxAgents
    <3>1. Head(calls[r]) = Preferred[k + 1]
      BY <2>2, <2>6
    <3> QED
      BY <1>2, <3>1 DEF Startable
  <2>9. Steps(r, k + 1)' = Steps(r, k) \cup {k + 1} /\ k + 1 \notin Steps(r, k)
    <3>1. \A i : i \in 1..(k + 1) <=> i \in 1..k \/ i = k + 1
      BY <2>4
    <3>2. k + 1 \notin 1..k
      BY <2>4
    <3> QED
      BY <1>0, <2>8, <3>1, <3>2 DEF Steps, Ids
  <2>10. IsFiniteSet(Steps(r, k)) /\ Cardinality(Steps(r, k)) \in Nat
    <3>1. Steps(r, k) \in SUBSET (1..k) /\ IsFiniteSet(1..k)
      BY <2>4, FS_Interval DEF Steps
    <3> QED
      BY <3>1, FS_Subset, FS_CardinalityType
  <2>11. Cardinality(Steps(r, k) \cup {k + 1}) = Cardinality(Steps(r, k)) + 1
    BY <2>9, <2>10, FS_AddElement
  <2>12. Steps(r, Done(r))' = Steps(r, k + 1)'
    BY <2>5 DEF Steps
  <2>13. Cardinality(Steps(r, Done(r)))' = started'[r]
    <3>1. started[r] = Cardinality(Steps(r, k))
      BY <1>1, <2>6, <2>8
    <3>2. Steps(r, Done(r))' = Steps(r, k) \cup {k + 1}
      BY <2>9, <2>12
    <3> QED
      BY <1>0, <2>11, <3>1, <3>2
  <2>14. \A i \in 1..Len(calls[r])' : calls[r][i]' = Preferred[Done(r) + i]'
    BY <2>5, <2>7
  <2> QED
    BY <2>5, <2>13, <2>14 DEF Planning
<1> QED
  BY <1>5, <1>6, <1>7, <1>8 DEF Sound

\* A plan that ends at its limit used it up.
LEMMA TurnEndsSound ==
  ASSUME Inv, Typed', NEW r \in Requests, TurnEnds(r)
  PROVE  Sound(r)'
<1>a. at[r] = "calling" /\ calls[r] = << >>
  BY DEF TurnEnds
<1>b. MaxAgents \in Nat \ {0} /\ started[r] \in 0..MaxAgents /\ errors \in Nat
  BY EvaluationAssumption DEF Inv, Typed
<1>0. /\ Typed /\ Sound(r) /\ at[r] = "calling" /\ calls[r] = << >>
      /\ MaxAgents \in Nat \ {0} /\ started[r] \in 0..MaxAgents /\ errors \in Nat
  BY <1>a, <1>b DEF Inv
<1>1. CASE provider = "plan"
  <2>1. Preferred \in Seq(Agents \ {Root}) /\ Len(Preferred) \in Nat /\ DOMAIN Preferred = 1..Len(Preferred)
    BY EvaluationAssumption, LenProperties
  <2>2. Done(r) = Len(Preferred)
    BY <1>0, <2>1, EmptySeq DEF Done
  <2>3. PlanLength(r) = Cardinality(Steps(r, Len(Preferred)))
    BY <2>1 DEF PlanLength, Steps
  <2>4. started[r] = MaxAgents \/ started[r] = PlanLength(r)
    BY <1>0, <1>1, <2>2, <2>3 DEF Sound, Planning
  <2>5. PlanLength(r) > MaxAgents => started[r] = MaxAgents
    BY <1>0, <2>4
  <2>6. PICK reason : /\ Ends(r, "calling", reason)
                      /\ reason = IF PlanLength(r) > MaxAgents THEN "agent_limit" ELSE "completed"
    BY <1>1 DEF TurnEnds
  <2> QED
    BY <2>5, <2>6, EndsSound
<1>2. CASE provider # "plan" /\ started[r] >= MaxAgents
  <2>1. Ends(r, "calling", "agent_limit") /\ started[r] = MaxAgents
    BY <1>0, <1>2 DEF TurnEnds
  <2> QED
    BY <2>1, EndsSound
<1>3. CASE provider # "plan" /\ ~ (started[r] >= MaxAgents) /\ turn[r] = MaxTurns
  <2>1. Ends(r, "calling", "turn_limit") /\ started[r] < MaxAgents
    BY <1>0, <1>3 DEF TurnEnds
  <2> QED
    BY <2>1, EndsSound
<1>4. CASE provider # "plan" /\ ~ (started[r] >= MaxAgents) /\ turn[r] # MaxTurns
  <2>1. /\ at'[r] = "asking" /\ provider' = provider /\ packages' = packages
        /\ offered' = offered /\ runs' = runs /\ started' = started /\ reported' = reported
        /\ errors' = errors
    BY <1>0, <1>4 DEF TurnEnds, Moves, shared, Typed
  <2>2. provider = "model" /\ started[r] < MaxAgents
    BY <1>0, <1>4 DEF Typed
  <2>3. Unsure(r) = 0 /\ Unsure(r)' = 0
    BY <1>0, <2>1 DEF Unsure
  <2>4. Kept(r)' /\ Counted(r)' /\ Offering(r)'
    BY <1>0, <2>1, <2>3, AccountsKept, PackagesUnchanged
  <2>5. Fresh(r)' /\ Calling(r)' /\ Reading(r)' /\ Announcing(r)' /\ Asking(r)' /\ Ending(r)' /\ Planning(r)'
    BY <2>1, <2>2 DEF Fresh, Calling, Reading, Announcing, Asking, Ending, Planning
  <2> QED
    BY <2>4, <2>5 DEF Sound
<1> QED
  BY <1>1, <1>2, <1>3, <1>4

LEMMA StopSound ==
  ASSUME Inv, Typed', NEW r \in Requests, Stop
  PROVE  Sound(r)'
<1>0. /\ Typed /\ Sound(r) /\ runs' = runs /\ offered' = offered /\ started' = started
      /\ reported' = reported /\ outcome' = outcome /\ provider' = provider
      /\ errors' = errors + 1 /\ PackagesKept
  BY UpsertedKeeps DEF Stop, Inv, PackagesKept
<1>1. errors \in Nat
  BY EvaluationAssumption DEF Inv, Typed
<1>2. at'[r] = IF at[r] \in {"new", "ended", "failed"} THEN at[r] ELSE "failed"
  BY DEF Stop, Over
<1>3. Unsure(r) \in {0, 1} /\ Unsure(r)' = 0
  BY <1>2 DEF Unsure
<1>4. errors + Unsure(r) <= errors' + Unsure(r)'
  BY <1>0, <1>1, <1>3
<1>5. Kept(r)' /\ Counted(r)' /\ Offering(r)' /\ RunsOf(r)' = RunsOf(r)
  BY <1>0, <1>4, AccountsKept
<1>6. Fresh(r)' /\ Calling(r)' /\ Reading(r)' /\ Announcing(r)' /\ Asking(r)' /\ Ending(r)' /\ Planning(r)'
  BY <1>0, <1>2, <1>5 DEF Sound, Fresh, Calling, Reading, Announcing, Asking, Ending, Planning
<1> QED
  BY <1>5, <1>6 DEF Sound

-----------------------------------------------------------------------------
(***************************************************************************)
(* The theorems.                                                           *)
(***************************************************************************)
\* A step of request r leaves the loop of every other request alone.
LEMMA Elsewhere ==
  ASSUME Inv, NEW r \in Requests, Begin(r) \/ Progress(r), NEW q \in Requests \ {r}
  PROVE  Same(q) /\ RunsKept(q)
<1>0. Typed
  BY DEF Inv
<1>1. Same(q)
  <2>1. ASSUME Begin(r) PROVE Same(q)
    BY <1>0, <2>1 DEF Begin, Moves, Same, Typed
  <2>2. ASSUME NEW answer, Answer(r, answer) PROVE Same(q)
    BY <1>0, <2>2 DEF Answer, Moves, Same, Typed
  <2>3. ASSUME AnswerInText(r) \/ NoAnswer(r) \/ FinishCalled(r) PROVE Same(q)
    BY <1>0, <2>3 DEF AnswerInText, NoAnswer, FinishCalled, Ends, Moves, Same, Typed
  <2>4. ASSUME Drop(r) PROVE Same(q)
    BY <1>0, <2>4 DEF Drop, Rest, Same, Typed
  <2>5. ASSUME Throws(r) PROVE Same(q)
    BY <1>0, <2>5 DEF Throws, Rest, Same, Typed
  <2>6. ASSUME Spawn(r) PROVE Same(q)
    BY <1>0, <2>5, <2>6 DEF Spawn, Moves, Same, Typed
  <2>7. ASSUME Admit(r) PROVE Same(q)
    BY <1>0, <2>7 DEF Admit, Moves, Same, Typed
  <2>8. ASSUME Refuse(r) \/ AnnounceFails(r) PROVE Same(q)
    BY <2>5, <2>8 DEF Refuse, AnnounceFails
  <2>9. ASSUME Announce(r) PROVE Same(q)
    BY <1>0, <2>9 DEF Announce, Moves, Rest, Same, Typed
  <2>10. ASSUME TurnEnds(r) PROVE Same(q)
    BY <1>0, <2>10 DEF TurnEnds, Ends, Moves, Same, Typed
  <2> QED
    BY <2>1, <2>2, <2>3, <2>4, <2>6, <2>7, <2>8, <2>9, <2>10 DEF Progress
<1>2. RunsKept(q)
  <2>1. CASE Admit(r)
    <3> DEFINE x == [by |-> r, agent |-> Head(calls[r]), version |-> held[r]]
    <3>1. Head(calls[r]) \in Agents
      BY <1>0, <2>1, EvaluationAssumption DEF Inv, Sound, Calling, Admit, Moves, Startable, Ids, Typed
    <3>2. x \in Run /\ runs' = Append(runs, x) /\ x.by # q
      BY <1>0, <2>1, <3>1 DEF Admit, Typed, Run
    <3> HIDE DEF x
    <3>3. RunsOf(q)' = RunsOf(q) \cup {} /\ \A i \in RunsOf(q) : runs'[i] = runs[i]
      BY <1>0, <3>2, RunsGrow
    <3> QED
      BY <3>3 DEF RunsKept
  <2>2. CASE ~ Admit(r)
    <3>1. runs' = runs
      BY <2>2 DEF Begin, Progress, Answer, AnswerInText, NoAnswer, Drop, FinishCalled, Ends, Spawn,
         Refuse, Announce, AnnounceFails, TurnEnds
    <3> QED
      BY <3>1, RunsUnchanged
  <2> QED
    BY <2>1, <2>2
<1> QED
  BY <1>1, <1>2

LEMMA RequestSound ==
  ASSUME Inv, Typed', NEW r \in Requests, Begin(r) \/ Progress(r)
  PROVE  Sound(r)'
<1>1. errors \in Nat /\ Unsure(r) \in {0, 1}
  BY EvaluationAssumption DEF Inv, Typed, Unsure
<1>2. ASSUME Refuse(r) PROVE Sound(r)'
  <2>1. Unsure(r) = 0 /\ errors' = errors
    BY <1>2 DEF Refuse, Unsure
  <2> QED
    BY <1>1, <1>2, <2>1, ThrowsSound DEF Refuse
<1>3. ASSUME AnnounceFails(r) PROVE Sound(r)'
  <2>1. errors + Unsure(r) <= errors'
    BY <1>1, <1>3 DEF AnnounceFails
  <2> QED
    BY <1>3, <2>1, ThrowsSound DEF AnnounceFails
<1> QED
  BY <1>2, <1>3, BeginSound, AnswerSound, TextSound, NoAnswerSound, DropSound, FinishSound,
     SpawnSound, AdmitSound, AnnounceSound, TurnEndsSound DEF Progress

LEMMA SoundStep == Inv /\ [Next]_vars => \A q \in Requests : Sound(q)'
<1> SUFFICES ASSUME Inv, [Next]_vars PROVE \A q \in Requests : Sound(q)'
  OBVIOUS
<1>0. Typed /\ Typed' /\ errors \in Nat
  BY TypedStep, EvaluationAssumption DEF Inv, Typed
<1>1. ASSUME NEW m \in Manifests, Install(m) PROVE \A q \in Requests : Sound(q)'
  <2>1. PackagesKept /\ runs' = runs /\ provider' = provider /\ errors' = errors
    BY <1>1, UpsertedKeeps DEF Install, PackagesKept
  <2>2. \A q \in Requests : Same(q) /\ RunsKept(q)
    BY <1>1, <2>1, RunsUnchanged DEF Install, loop, Same
  <2> QED
    BY <1>0, <2>1, <2>2, Undisturbed
<1>2. ASSUME NEW m \in Manifests, SpawnOther(m) PROVE \A q \in Requests : Sound(q)'
  <2> DEFINE x == [by |-> Others, agent |-> m.agent, version |-> m.version]
  <2>1. x \in Run /\ x.by = Others /\ runs' = Append(runs, x)
    BY <1>2, EvaluationAssumption DEF SpawnOther, Run
  <2>2. provider' = provider /\ packages' = packages /\ errors' = errors
    BY <1>2 DEF SpawnOther, shared
  <2> HIDE DEF x
  <2>3. \A q \in Requests : Same(q) /\ RunsKept(q)
    <3> TAKE q \in Requests
    <3>1. RunsOf(q)' = RunsOf(q) \cup {} /\ \A i \in RunsOf(q) : runs'[i] = runs[i]
      BY <1>0, <2>1, RunsGrow, EvaluationAssumption
    <3> QED
      BY <1>2, <3>1 DEF SpawnOther, loop, Same, RunsKept
  <2> QED
    BY <1>0, <2>2, <2>3, Undisturbed, PackagesUnchanged
<1>3. ASSUME NEW b \in BOOLEAN, Admitting(b) PROVE \A q \in Requests : Sound(q)'
  <2>1. packages' = packages /\ runs' = runs /\ provider' = provider /\ errors' = errors
    BY <1>3 DEF Admitting
  <2>2. \A q \in Requests : Same(q) /\ RunsKept(q)
    BY <1>3, <2>1, RunsUnchanged DEF Admitting, loop, Same
  <2> QED
    BY <1>0, <2>1, <2>2, Undisturbed, PackagesUnchanged
<1>4. ASSUME NEW r \in Requests, Begin(r) \/ Progress(r) PROVE \A q \in Requests : Sound(q)'
  <2>1. Sound(r)'
    BY <1>0, <1>4, RequestSound
  <2>2. packages' = packages /\ provider' = provider
    BY <1>4 DEF Begin, Progress, Answer, AnswerInText, NoAnswer, Drop, FinishCalled, Ends, Spawn,
       Throws, Admit, Refuse, Announce, AnnounceFails, TurnEnds, shared
  <2>3. errors <= errors'
    BY <1>0, <1>4 DEF Begin, Progress, Answer, AnswerInText, NoAnswer, Drop, FinishCalled, Ends,
       Spawn, Admit, Refuse, Announce, AnnounceFails, TurnEnds
  <2> QED
    BY <1>0, <1>4, <2>1, <2>2, <2>3, Elsewhere, OthersUndisturbed
<1>5. ASSUME Stop PROVE \A q \in Requests : Sound(q)'
  BY <1>0, <1>5, StopSound
<1>6. ASSUME UNCHANGED vars PROVE \A q \in Requests : Sound(q)'
  <2>1. packages' = packages /\ runs' = runs /\ provider' = provider /\ errors' = errors
    BY <1>6 DEF vars, shared
  <2>2. \A q \in Requests : Same(q) /\ RunsKept(q)
    BY <1>6, <2>1, RunsUnchanged DEF vars, loop, Same
  <2> QED
    BY <1>0, <2>1, <2>2, Undisturbed, PackagesUnchanged
<1> QED
  BY <1>1, <1>2, <1>3, <1>4, <1>5, <1>6 DEF Next

\* The inductive invariant of the evaluation loop.
THEOREM EvaluationSound == Spec => []Inv
<1>1. Init => Inv
  BY TypedInit, SoundInit DEF Inv
<1>2. Inv /\ [Next]_vars => Inv'
  BY TypedStep, SoundStep DEF Inv
<1> QED
  BY <1>1, <1>2, PTL DEF Spec

\* Every variable of the loop keeps to its type.
THEOREM EvaluationTyped == Spec => []TypeOK
<1>1. Inv => TypeOK
  <2> SUFFICES ASSUME Inv PROVE TypeOK
    OBVIOUS
  <2>1. \A r \in Requests : reported[r] \subseteq DOMAIN runs
    BY DEF Inv, Sound, Counted, RunsOf
  <2>2. reported \in [Requests -> SUBSET (DOMAIN runs)]
    BY <2>1 DEF Inv, Typed
  <2> QED
    BY <2>2 DEF Inv, Typed, Run, TypeOK
<1> QED
  BY EvaluationSound, <1>1, PTL

\* model-provider.ts 257-264: no request creates more runs than its maxAgents
\* and the calls that failed.
THEOREM LimitHolds == Spec => []LimitKept
<1>1. Inv => LimitKept
  <2> SUFFICES ASSUME Inv, NEW r \in Requests
               PROVE  Cardinality(RunsOf(r)) <= MaxAgents + errors
    BY DEF LimitKept
  <2>0. Typed /\ Sound(r) /\ errors \in Nat /\ MaxAgents \in Nat /\ started[r] \in 0..MaxAgents
    BY EvaluationAssumption DEF Inv, Typed
  <2>1. /\ reported[r] \subseteq RunsOf(r) /\ Cardinality(reported[r]) = started[r]
        /\ Cardinality(RunsOf(r) \ reported[r]) <= errors + Unsure(r)
    BY <2>0 DEF Sound, Counted
  <2>2. /\ IsFiniteSet(reported[r]) /\ IsFiniteSet(RunsOf(r) \ reported[r])
        /\ Cardinality(RunsOf(r) \ reported[r]) \in Nat
    BY <2>0, <2>1, RunsListed, FS_Subset, FS_CardinalityType
  <2>3. RunsOf(r) = reported[r] \cup (RunsOf(r) \ reported[r])
        /\ reported[r] \cap (RunsOf(r) \ reported[r]) = {}
    BY <2>1
  <2>4. Cardinality(RunsOf(r)) = started[r] + Cardinality(RunsOf(r) \ reported[r])
    BY <2>1, <2>2, <2>3, FS_EmptySet, FS_Union
  <2>5. CASE at[r] = "announcing"
    <3>1. started[r] < MaxAgents /\ Unsure(r) = 1
      BY <2>0, <2>5 DEF Sound, Calling, Startable, Unsure
    <3> QED
      BY <2>0, <2>1, <2>2, <2>4, <3>1
  <2>6. CASE at[r] # "announcing"
    <3>1. Unsure(r) = 0
      BY <2>6 DEF Unsure
    <3> QED
      BY <2>0, <2>1, <2>2, <2>4, <3>1
  <2> QED
    BY <2>5, <2>6
<1> QED
  BY EvaluationSound, <1>1, PTL

\* orchestration-loop.ts 75 and model-provider.ts 265: the accounts of what a
\* request started agree, also with the reason its caller is given.
THEOREM OutcomeHolds == Spec => []OutcomeIsTrue
<1>1. Inv => OutcomeIsTrue
  <2> SUFFICES ASSUME Inv, NEW r \in Requests, at[r] = "ended"
               PROVE  /\ reported[r] \subseteq RunsOf(r)
                      /\ Cardinality(reported[r]) = started[r]
                      /\ Cardinality(RunsOf(r) \ reported[r]) <= errors
                      /\ outcome[r] = "agent_limit" => started[r] = MaxAgents
                      /\ outcome[r] \in {"turn_limit", "no_tool_calls"} => started[r] < MaxAgents
    BY DEF OutcomeIsTrue
  <2>1. Unsure(r) = 0 /\ errors \in Nat
    BY EvaluationAssumption DEF Unsure, Inv, Typed
  <2> QED
    BY <2>1 DEF Inv, Sound, Counted, Ending
<1> QED
  BY EvaluationSound, <1>1, PTL

\* orchestration-loop.ts 56-68 and registry.ts 36-39: a request starts only
\* what it was offered, in that version or a newer one.
THEOREM OfferHolds == Spec => []OnlyWhatWasOffered
<1>1. Inv => OnlyWhatWasOffered
  BY DEF Inv, Sound, Offering, OnlyWhatWasOffered
<1> QED
  BY EvaluationSound, <1>1, PTL
=============================================================================
