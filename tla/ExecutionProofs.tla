--------------------------- MODULE ExecutionProofs ----------------------------
(***************************************************************************)
(* What Execution promises for every value of its constants.               *)
(***************************************************************************)
EXTENDS Execution, SequenceFacts, FiniteSetTheorems, SequenceTheorems, TLAPS

-----------------------------------------------------------------------------
(***************************************************************************)
(* An attempt that is under way belongs to an active job, and a job that   *)
(* may be tried again has an attempt left.                                 *)
(***************************************************************************)
Attempted(a) ==
  /\ stage[a] # "idle" => job[a].state = "active"
  /\ job[a].state \in {"waiting", "delayed", "active"} => job[a].made < Attempts

\* The wait list holds each waiting job once, and no other.
Listed ==
  /\ Once(waitList)
  /\ \A a \in Runs : job[a].state = "waiting" <=> Holds(waitList, a)

\* The types of the variables, one by one.
Typed ==
  /\ status \in [Runs -> Statuses]
  /\ due \in [Runs -> Nat]
  /\ terminating \in [Runs -> {"no", "look", "remove", "post", "over"}]
  /\ orders \in Seq(Orders)
  /\ job \in [Runs -> Jobs]
  /\ waitList \in Seq(Runs)
  /\ control \in Seq(Commands)
  /\ stage \in [Runs -> Stages]
  /\ chain \in [Runs -> Nat]
  /\ handling \subseteq Visits
  /\ IsFiniteSet(handling)
  /\ containers \in [Runs -> Seq(Containers)]
  /\ refused \subseteq Runs
  /\ errors \in Nat
  /\ stops \in Nat

Sound == Typed /\ Listed /\ \A a \in Runs : Attempted(a)

LEMMA SoundTypes == Sound => TypeOK
BY DEF Sound, TypeOK, Typed, Listed, Once, Holds

LEMMA JobFields ==
  ASSUME job \in [Runs -> Jobs], NEW a \in Runs
  PROVE  /\ job[a] \in Jobs
         /\ job[a].state \in {"none", "waiting", "delayed", "active", "completed", "failed"}
         /\ job[a].made \in Nat
         /\ job[a].made <= Attempts
         /\ job[a].stalls \in 0..1
BY ExecutionAssumption DEF Jobs

\* Writing the state of one container leaves every other one, and their number.
LEMMA ContainerWritten ==
  ASSUME containers \in [Runs -> Seq(Containers)], NEW a \in Runs, NEW k,
         NEW state \in Containers, SetContainer(a, k, state)
  PROVE  /\ containers' \in [Runs -> Seq(Containers)]
         /\ \A b \in Runs : Len(containers'[b]) = Len(containers[b])
         /\ \A b \in Runs : DOMAIN containers'[b] = DOMAIN containers[b]
         /\ \A b \in Runs : b # a => containers'[b] = containers[b]
         /\ k \in DOMAIN containers[a] => containers'[a][k] = state
         /\ \A j \in DOMAIN containers[a] : j # k => containers'[a][j] = containers[a][j]
<1> DEFINE t == [containers[a] EXCEPT ![k] = state]
<1>1. containers' = [containers EXCEPT ![a] = t]
  BY DEF SetContainer
<1>2. containers[a] \in Seq(Containers)
  OBVIOUS
<1>3. /\ t \in Seq(Containers)
      /\ Len(t) = Len(containers[a])
      /\ DOMAIN t = DOMAIN containers[a]
      /\ k \in DOMAIN containers[a] => t[k] = state
      /\ \A j \in DOMAIN containers[a] : j # k => t[j] = containers[a][j]
  BY <1>2, Written
<1> HIDE DEF t
<1> QED
  BY <1>1, <1>3

\* Taking the first command, and adding one at the end.
LEMMA CommandAdded ==
  ASSUME control \in Seq(Commands), NEW c \in Commands, control' = Append(control, c)
  PROVE  control' \in Seq(Commands)
BY AppendProperties

-----------------------------------------------------------------------------
(***************************************************************************)
(* Type correctness.                                                       *)
(***************************************************************************)
LEMMA SoundInit == Init => Sound
<1> SUFFICES ASSUME Init PROVE Sound
  OBVIOUS
<1>1. Typed
  <2>1. NoJob \in Jobs
    BY ExecutionAssumption DEF NoJob, Jobs
  <2> QED
    BY <2>1, FS_EmptySet DEF Init, Typed, Statuses, Stages
<1>2. Listed
  BY DEF Init, Listed, Once, Holds, NoJob
<1>3. \A a \in Runs : Attempted(a)
  BY DEF Init, Attempted, NoJob
<1> QED
  BY <1>1, <1>2, <1>3 DEF Sound

\* Steps of the API.
LEMMA DispatchSound ==
  ASSUME Sound, NEW a \in Runs, Dispatch(a)
  PROVE  Sound'
<1>1. Typed /\ Listed /\ \A b \in Runs : Attempted(b)
  BY DEF Sound
<1>2. due' \in [Runs -> Nat]
  BY <1>1 DEF Typed, Dispatch
<1>3. CASE Known(a)
  BY <1>1, <1>2, <1>3 DEF Dispatch, Sound, Typed, Listed, Attempted, worker, faults
<1>4. CASE ~Known(a)
  <2>1. /\ job' = [job EXCEPT ![a] = [NoJob EXCEPT !.state = "waiting"]]
        /\ waitList' = Append(waitList, a)
        /\ UNCHANGED <<status, terminating, orders, control, worker, containers, refused, faults>>
    BY <1>4 DEF Dispatch
  <2>2. job' \in [Runs -> Jobs]
    <3>1. [NoJob EXCEPT !.state = "waiting"] \in Jobs
      <4>1. [NoJob EXCEPT !.state = "waiting"] = [state |-> "waiting", made |-> 0, stalls |-> 0]
        BY DEF NoJob
      <4> QED
        BY <4>1, ExecutionAssumption DEF Jobs
    <3> QED
      BY <1>1, <2>1, <3>1 DEF Typed
  <2>3. job[a].state = "none"
    BY <1>4 DEF Known
  <2>4. ~Holds(waitList, a)
    BY <1>1, <2>3 DEF Listed
  <2>5. /\ waitList' \in Seq(Runs) /\ Once(waitList')
        /\ \A x : Holds(waitList', x) <=> Holds(waitList, x) \/ x = a
    <3>1. waitList \in Seq(Runs) /\ Once(waitList) /\ waitList' = Append(waitList, a)
      BY <1>1, <2>1 DEF Typed, Listed
    <3> QED
      BY <2>4, <3>1, AppendedOnce
  <2>6. Typed'
    BY <1>1, <1>2, <2>1, <2>2, <2>5 DEF Typed, worker, faults
  <2>7. Listed'
    BY <1>1, <2>1, <2>5 DEF Typed, Listed, NoJob
  <2>8. \A b \in Runs : Attempted(b)'
    BY <1>1, <2>1, <2>3, ExecutionAssumption DEF Typed, Attempted, NoJob, worker
  <2> QED
    BY <2>6, <2>7, <2>8 DEF Sound
<1> QED
  BY <1>3, <1>4

LEMMA TerminateSound ==
  ASSUME Sound, NEW a \in Runs,
         Terminate(a) \/ LookAtJob(a) \/ PostTerminate(a)
  PROVE  Sound'
<1>1. Typed /\ Listed /\ \A b \in Runs : Attempted(b)
  BY DEF Sound
<1>2. UNCHANGED <<due, orders, job, waitList, stage, chain, handling, containers, refused, errors, stops>>
  BY DEF Terminate, LookAtJob, PostTerminate, redis, worker, faults
<1>3. status' \in [Runs -> Statuses]
  BY <1>1 DEF Typed, Terminate, LookAtJob, PostTerminate, Statuses
<1>4. terminating' \in [Runs -> {"no", "look", "remove", "post", "over"}]
  BY <1>1 DEF Typed, Terminate, LookAtJob, PostTerminate
<1>5. control' \in Seq(Commands)
  <2>1. [action |-> "terminate", number |-> 0, runs |-> {a}] \in Commands
    BY DEF Commands
  <2> QED
    BY <1>1, <2>1, CommandAdded DEF Typed, Terminate, LookAtJob, PostTerminate, redis
<1> QED
  BY <1>1, <1>2, <1>3, <1>4, <1>5 DEF Sound, Typed, Listed, Attempted

LEMMA RemoveJobSound ==
  ASSUME Sound, NEW a \in Runs, RemoveJob(a)
  PROVE  Sound'
<1>1. Typed /\ Listed /\ \A b \in Runs : Attempted(b)
  BY DEF Sound
<1>2. terminating' \in [Runs -> {"no", "look", "remove", "post", "over"}]
  BY <1>1 DEF Typed, RemoveJob
<1>3. UNCHANGED <<status, due, orders, control, stage, chain, handling, containers, refused, errors, stops>>
  BY DEF RemoveJob, worker, faults
<1>4. CASE job[a].state = "active"
  BY <1>1, <1>2, <1>3, <1>4 DEF RemoveJob, Sound, Typed, Listed, Attempted
<1>5. CASE job[a].state # "active"
  <2>1. /\ job' = [job EXCEPT ![a] = NoJob]
        /\ IF job[a].state = "waiting"
           THEN \E i \in DOMAIN waitList : waitList[i] = a /\ waitList' = Unlisted(i)
           ELSE UNCHANGED waitList
    BY <1>5 DEF RemoveJob
  <2>2. job' \in [Runs -> Jobs]
    BY <1>1, <2>1, ExecutionAssumption DEF Typed, NoJob, Jobs
  <2>3. /\ waitList' \in Seq(Runs) /\ Once(waitList')
        /\ \A x \in Runs : Holds(waitList', x) <=> Holds(waitList, x) /\ x # a
    <3>1. CASE job[a].state = "waiting"
      <4>1. PICK i \in DOMAIN waitList : waitList[i] = a /\ waitList' = Unlisted(i)
        BY <2>1, <3>1
      <4>2. waitList' = Without(waitList, i)
        BY <4>1 DEF Unlisted, Without
      <4> QED
        BY <1>1, <4>1, <4>2, RemovedOnce DEF Typed, Listed
    <3>2. CASE job[a].state # "waiting"
      BY <1>1, <2>1, <3>2 DEF Typed, Listed
    <3> QED
      BY <3>1, <3>2
  <2>4. Typed'
    BY <1>1, <1>2, <1>3, <2>2, <2>3 DEF Typed
  <2>5. Listed'
    BY <1>1, <2>1, <2>3 DEF Typed, Listed, NoJob
  <2>6. \A b \in Runs : Attempted(b)'
    BY <1>1, <1>3, <1>5, <2>1 DEF Typed, Attempted, NoJob
  <2> QED
    BY <2>4, <2>5, <2>6 DEF Sound
<1> QED
  BY <1>4, <1>5

LEMMA OrderSound ==
  ASSUME Sound,
         \/ \E action \in {"pause", "resume"} : SetRunState(action)
         \/ \E o \in DOMAIN orders : PostOrder(o) \/ StartQueued(o)
  PROVE  Sound'
<1>1. Typed /\ Listed /\ \A b \in Runs : Attempted(b)
  BY DEF Sound
<1>2. UNCHANGED <<terminating, job, waitList, stage, chain, handling, containers, refused, errors, stops>>
  BY DEF SetRunState, PostOrder, StartQueued, redis, worker, faults
<1>3. status' \in [Runs -> Statuses] /\ due' \in [Runs -> Nat]
  <2>1. ASSUME NEW o \in DOMAIN orders, StartQueued(o)
        PROVE  status' \in [Runs -> Statuses] /\ due' \in [Runs -> Nat]
    <3> DEFINE queued == {a \in Runs : status[a] = "queued"}
    <3>1. /\ status' = [a \in Runs |-> IF a \in queued THEN "starting" ELSE status[a]]
          /\ due' = [a \in Runs |-> IF a \in queued THEN due[a] + 1 ELSE due[a]]
      BY <2>1 DEF StartQueued
    <3> HIDE DEF queued
    <3>2. \A a \in Runs : status[a] \in Statuses /\ due[a] \in Nat
      BY <1>1 DEF Typed
    <3> QED
      BY <3>1, <3>2 DEF Statuses
  <2> QED
    BY <1>1, <2>1 DEF Typed, SetRunState, PostOrder
<1>4. orders' \in Seq(Orders)
  <2>1. ASSUME NEW action \in {"pause", "resume"}, SetRunState(action)
        PROVE  orders' \in Seq(Orders)
    <3>1. [action |-> action, step |-> "post",
           runs |-> {a \in Runs : status[a] \in {"running", "starting"}}] \in Orders
      BY DEF Orders
    <3> QED
      BY <1>1, <2>1, <3>1, AppendProperties DEF SetRunState, Typed
  <2>2. ASSUME NEW o \in DOMAIN orders, PostOrder(o) \/ StartQueued(o)
        PROVE  orders' \in Seq(Orders)
    <3>1. o \in 1..Len(orders) /\ orders[o] \in Orders
      BY <1>1, LenProperties, ElementOfSeq DEF Typed
    <3>2. PICK e \in Orders : orders' = [orders EXCEPT ![o] = e]
      <4>1. CASE PostOrder(o)
        <5> DEFINE e == [orders[o] EXCEPT !.runs = {},
                          !.step = IF orders[o].action = "pause" THEN "over" ELSE "start"]
        <5>1. e \in Orders
          BY <3>1 DEF Orders
        <5>2. orders' = [orders EXCEPT ![o] = e]
          BY <4>1 DEF PostOrder
        <5> QED
          BY <5>1, <5>2
      <4>2. CASE StartQueued(o)
        <5> DEFINE e == [orders[o] EXCEPT !.step = "over"]
        <5>1. e \in Orders
          BY <3>1 DEF Orders
        <5>2. orders' = [orders EXCEPT ![o] = e]
          BY <4>2 DEF StartQueued
        <5> QED
          BY <5>1, <5>2
      <4> QED
        BY <2>2, <4>1, <4>2
    <3> QED
      BY <1>1, <3>2, Written DEF Typed
  <2> QED
    BY <2>1, <2>2
<1>5. control' \in Seq(Commands)
  <2>1. ASSUME NEW o \in DOMAIN orders, PostOrder(o)
        PROVE  control' \in Seq(Commands)
    <3>1. o \in Nat /\ orders[o] \in Orders
      BY <1>1, LenProperties, ElementOfSeq DEF Typed
    <3>2. [action |-> orders[o].action, number |-> o, runs |-> orders[o].runs] \in Commands
      BY <3>1 DEF Orders, Commands
    <3> QED
      BY <1>1, <2>1, <3>2, CommandAdded DEF PostOrder, Typed
  <2> QED
    BY <1>1, <2>1 DEF SetRunState, StartQueued, redis, Typed
<1> QED
  BY <1>1, <1>2, <1>3, <1>4, <1>5 DEF Sound, Typed, Listed, Attempted

\* Steps of an attempt.
LEMMA ClaimSound ==
  ASSUME Sound, NEW a \in Runs, Claim(a)
  PROVE  Sound'
<1>1. Typed /\ Listed /\ \A b \in Runs : Attempted(b)
  BY DEF Sound
<1>2. /\ waitList # <<>> /\ a = Head(waitList) /\ waitList' = Tail(waitList)
      /\ job' = [job EXCEPT ![a].state = "active"]
      /\ stage' = [stage EXCEPT ![a] = "claimed"]
      /\ UNCHANGED <<status, due, terminating, orders, control, chain, handling, containers,
                     refused, errors, stops>>
  BY DEF Claim, Move, api, faults
<1>3. /\ waitList' \in Seq(Runs) /\ Once(waitList') /\ Holds(waitList, a)
      /\ \A x : Holds(waitList', x) <=> Holds(waitList, x) /\ x # a
  <2>1. waitList \in Seq(Runs) /\ Once(waitList)
    BY <1>1 DEF Typed, Listed
  <2> QED
    BY <1>2, <2>1, TailOnce
<1>4. job[a].state = "waiting"
  BY <1>1, <1>3 DEF Listed
<1>5. job' \in [Runs -> Jobs] /\ stage' \in [Runs -> Stages]
  BY <1>1, <1>2 DEF Typed, Jobs, Stages
<1>6. Typed'
  BY <1>1, <1>2, <1>3, <1>5 DEF Typed
<1>7. \A b \in Runs : job'[b] = IF b = a THEN [job[a] EXCEPT !.state = "active"] ELSE job[b]
  BY <1>1, <1>2 DEF Typed
<1>8. job'[a].state = "active" /\ job'[a].made = job[a].made
  BY <1>1, <1>7 DEF Typed, Jobs
<1>9. Listed'
  BY <1>1, <1>3, <1>7, <1>8 DEF Listed
<1>10. \A b \in Runs : Attempted(b)'
  BY <1>1, <1>2, <1>4, <1>7, <1>8 DEF Attempted, Typed
<1> QED
  BY <1>6, <1>9, <1>10 DEF Sound

LEMMA RetrySound ==
  ASSUME Sound, NEW a \in Runs, Retry(a)
  PROVE  Sound'
<1>1. Typed /\ Listed /\ \A b \in Runs : Attempted(b)
  BY DEF Sound
<1>2. /\ job[a].state = "delayed"
      /\ job' = [job EXCEPT ![a].state = "waiting"]
      /\ waitList' = Append(waitList, a)
      /\ UNCHANGED <<status, due, terminating, orders, control, stage, chain, handling, containers,
                     refused, errors, stops>>
  BY DEF Retry, api, worker, faults
<1>3. /\ waitList' \in Seq(Runs) /\ Once(waitList')
      /\ \A x : Holds(waitList', x) <=> Holds(waitList, x) \/ x = a
  <2>1. waitList \in Seq(Runs) /\ Once(waitList) /\ ~Holds(waitList, a)
    BY <1>1, <1>2 DEF Typed, Listed
  <2> QED
    BY <1>2, <2>1, AppendedOnce
<1>4. job' \in [Runs -> Jobs]
  BY <1>1, <1>2 DEF Typed, Jobs
<1>5. Typed'
  BY <1>1, <1>2, <1>3, <1>4 DEF Typed
<1>6. \A b \in Runs : job'[b] = IF b = a THEN [job[a] EXCEPT !.state = "waiting"] ELSE job[b]
  BY <1>1, <1>2 DEF Typed
<1>7. job'[a].state = "waiting" /\ job'[a].made = job[a].made
  BY <1>1, <1>6 DEF Typed, Jobs
<1>8. Listed'
  BY <1>1, <1>3, <1>6, <1>7 DEF Listed
<1>9. \A b \in Runs : Attempted(b)'
  BY <1>1, <1>2, <1>6, <1>7 DEF Attempted, Typed
<1> QED
  BY <1>5, <1>8, <1>9 DEF Sound

\* A step that leaves the job and only moves an attempt on.
LEMMA MovedSound ==
  ASSUME Sound, NEW a \in Runs, stage[a] # "idle",
         \/ UNCHANGED stage
         \/ \E next \in Stages : Move(a, next),
         UNCHANGED <<due, terminating, orders, job, waitList, control, handling, errors, stops>>,
         status' \in [Runs -> Statuses], chain' \in [Runs -> Nat],
         containers' \in [Runs -> Seq(Containers)], refused' \subseteq Runs
  PROVE  Sound'
<1>1. Typed /\ Listed /\ \A b \in Runs : Attempted(b)
  BY DEF Sound
<1>2. stage' \in [Runs -> Stages]
  BY <1>1 DEF Typed, Move
<1>3. Typed' /\ Listed'
  BY <1>1, <1>2 DEF Typed, Listed
<1>4. \A b \in Runs : Attempted(b)'
  BY <1>1 DEF Attempted, Move, Typed
<1> QED
  BY <1>3, <1>4 DEF Sound

LEMMA CompletedType ==
  ASSUME status \in [Runs -> Statuses], NEW a \in Runs
  PROVE  Completed(a) \in [Runs -> Statuses]
BY DEF Completed, Outcome, Statuses

LEMMA AttemptSound ==
  ASSUME Sound, NEW a \in Runs, Create(a) \/ Start(a) \/ Write(a) \/ Report(a)
  PROVE  Sound'
<1>1. Typed
  BY DEF Sound
<1>2. UNCHANGED <<due, terminating, orders, job, waitList, control, handling, refused, errors, stops>>
  BY DEF Create, Start, Write, Report, api, redis, faults
<1>3. stage[a] # "idle" /\ (UNCHANGED stage \/ \E next \in Stages : Move(a, next))
  BY DEF Create, Start, Write, Report, Stages
<1>4. status' \in [Runs -> Statuses]
  BY <1>1, CompletedType DEF Typed, Create, Start, Write, Report, api
<1>5. chain' \in [Runs -> Nat]
  <2>1. CASE Write(a)
    <3>1. chain' = [chain EXCEPT ![a] = chain[a] + 1] /\ chain[a] \in Nat
      BY <1>1, <2>1 DEF Typed, Write
    <3> QED
      BY <1>1, <3>1 DEF Typed
  <2> QED
    BY <1>1, <2>1 DEF Typed, Create, Start, Report
<1>6. containers' \in [Runs -> Seq(Containers)]
  <2>1. CASE Create(a)
    <3>1. containers[a] \in Seq(Containers) /\ "created" \in Containers
      BY <1>1 DEF Typed, Containers
    <3>2. Append(containers[a], "created") \in Seq(Containers)
      BY <3>1, AppendProperties
    <3> QED
      BY <1>1, <2>1, <3>2 DEF Typed, Create
  <2>2. CASE Start(a)
    BY <1>1, <2>2, ContainerWritten DEF Typed, Start, Containers
  <2> QED
    BY <1>1, <2>1, <2>2 DEF Typed, Write, Report
<1>7. refused' \subseteq Runs
  BY <1>1, <1>2 DEF Typed
<1> QED
  BY <1>2, <1>3, <1>4, <1>5, <1>6, <1>7, MovedSound

\* Posting an event, and losing one, touch neither the job nor the attempt.
LEMMA EventSound ==
  ASSUME Sound, NEW a \in Runs, PostEvent(a) \/ LoseEvent(a)
  PROVE  Sound'
<1>1. Typed /\ Listed /\ \A b \in Runs : Attempted(b)
  BY DEF Sound
<1>2. UNCHANGED <<due, terminating, orders, job, waitList, control, stage, handling, containers, stops>>
  BY DEF PostEvent, LoseEvent, Err, api, redis, faults
<1>3. status' \in [Runs -> Statuses] /\ refused' \subseteq Runs
  BY <1>1 DEF Typed, PostEvent, LoseEvent, api, Statuses
<1>4. chain' \in [Runs -> Nat] /\ errors' \in Nat
  <2>1. chain[a] > 0 /\ chain[a] \in Nat /\ chain' = [chain EXCEPT ![a] = chain[a] - 1]
    BY <1>1 DEF Typed, PostEvent, LoseEvent
  <2>2. chain[a] - 1 \in Nat
    BY <2>1
  <2>3. errors' \in Nat
    BY <1>1 DEF Typed, PostEvent, LoseEvent, Err, faults
  <2> QED
    BY <1>1, <2>1, <2>2, <2>3 DEF Typed
<1> QED
  BY <1>1, <1>2, <1>3, <1>4 DEF Sound, Typed, Listed, Attempted

\* What the job is after an attempt that threw.
LEMMA ThrownJob ==
  ASSUME Sound, NEW a \in Runs, stage[a] # "idle", Throw(a)
  PROVE  /\ job' \in [Runs -> Jobs]
         /\ \A b \in Runs : b # a => job'[b] = job[b]
         /\ job[a].state = "active" /\ job[a].made < Attempts
         /\ job'[a].state \in {"delayed", "failed"}
         /\ job'[a].made = job[a].made + 1
         /\ job'[a].state = "delayed" => job'[a].made < Attempts
<1>1. /\ job \in [Runs -> Jobs]
      /\ job[a].state = "active" /\ job[a].made < Attempts
      /\ job' = [job EXCEPT ![a] = AfterThrow(a)]
  BY DEF Sound, Typed, Attempted, Throw
<1>2. job[a].made \in Nat /\ job[a].stalls \in 0..1 /\ Attempts \in Nat /\ job[a] \in Jobs
  BY <1>1, JobFields, ExecutionAssumption
<1>3. AfterThrow(a).made = job[a].made + 1
  BY <1>2 DEF AfterThrow, Jobs
<1>4. AfterThrow(a).state = IF job[a].made + 1 < Attempts THEN "delayed" ELSE "failed"
  BY <1>2 DEF AfterThrow, Jobs
<1>5. AfterThrow(a) \in Jobs
  <2>1. \A m \in 0..Attempts, x \in {"delayed", "failed"} :
          [job[a] EXCEPT !.made = m, !.state = x] \in Jobs
    BY <1>2 DEF Jobs
  <2>2. job[a].made + 1 \in 0..Attempts
    BY <1>1, <1>2
  <2>3. AfterThrow(a) = [job[a] EXCEPT !.made = job[a].made + 1,
                           !.state = IF job[a].made + 1 < Attempts THEN "delayed" ELSE "failed"]
    BY DEF AfterThrow
  <2> QED
    BY <2>1, <2>2, <2>3
<1>6. job' \in [Runs -> Jobs] /\ job'[a] = AfterThrow(a) /\ \A b \in Runs : b # a => job'[b] = job[b]
  BY <1>1, <1>5
<1> QED
  BY <1>1, <1>2, <1>3, <1>4, <1>6

LEMMA ThrowSound ==
  ASSUME Sound, NEW a \in Runs, FailCall(a) \/ FailReport(a) \/ FailWait(a)
  PROVE  Sound'
<1>1. Typed /\ Listed /\ \A b \in Runs : Attempted(b)
  BY DEF Sound
<1>2. /\ stage[a] # "idle" /\ Throw(a)
      /\ stage' = [stage EXCEPT ![a] = "idle"]
      /\ UNCHANGED <<due, terminating, orders, waitList, control, handling, containers, chain, refused>>
  BY DEF FailCall, FailReport, FailWait, Throw, Move
<1>3. status' \in [Runs -> Statuses]
  BY <1>1, CompletedType DEF Typed, FailCall, FailReport, FailWait
<1>4. errors' \in Nat /\ stops' \in Nat
  BY <1>1 DEF Typed, FailCall, FailReport, FailWait, Err
<1>5. stage' \in [Runs -> Stages]
  BY <1>1, <1>2 DEF Typed, Stages
<1>6. Typed'
  BY <1>1, <1>2, <1>3, <1>4, <1>5, ThrownJob DEF Typed
<1>7. Listed'
  BY <1>1, <1>2, ThrownJob DEF Listed
<1>8. \A b \in Runs : Attempted(b)'
  BY <1>1, <1>2, ThrownJob DEF Attempted, Typed
<1> QED
  BY <1>6, <1>7, <1>8 DEF Sound

LEMMA RemoveSound ==
  ASSUME Sound, NEW a \in Runs, Remove(a)
  PROVE  Sound'
<1>1. Typed /\ Listed /\ \A b \in Runs : Attempted(b)
  BY DEF Sound
<1>2. /\ SetContainer(a, Latest(a), "removed")
      /\ job' = [job EXCEPT ![a].state = "completed"]
      /\ stage' = [stage EXCEPT ![a] = "idle"]
      /\ UNCHANGED <<status, due, terminating, orders, waitList, control, chain, handling, refused,
                     errors, stops>>
  BY DEF Remove, Move, api, faults
<1>3. job[a].state = "active"
  BY <1>1 DEF Remove, Attempted
<1>4. containers' \in [Runs -> Seq(Containers)]
  BY <1>1, <1>2, ContainerWritten DEF Typed, Containers
<1>5. job' \in [Runs -> Jobs] /\ stage' \in [Runs -> Stages]
  BY <1>1, <1>2 DEF Typed, Jobs, Stages
<1>6. Typed'
  BY <1>1, <1>2, <1>4, <1>5 DEF Typed
<1>7. job'[a].state = "completed" /\ \A b \in Runs : b # a => job'[b] = job[b]
  BY <1>1, <1>2 DEF Typed, Jobs
<1>8. Listed'
  BY <1>1, <1>2, <1>3, <1>7 DEF Listed
<1>9. \A b \in Runs : Attempted(b)'
  BY <1>1, <1>2, <1>7 DEF Attempted, Typed
<1> QED
  BY <1>6, <1>8, <1>9 DEF Sound

\* Steps of the containers and of the control commands.
LEMMA BesideSound ==
  ASSUME Sound, UNCHANGED <<status, due, terminating, orders, job, waitList, stage, chain, refused,
                            errors, stops>>,
         control' \in Seq(Commands), handling' \subseteq Visits, IsFiniteSet(handling'),
         containers' \in [Runs -> Seq(Containers)]
  PROVE  Sound'
BY DEF Sound, Typed, Listed, Attempted

LEMMA ExitSound ==
  ASSUME Sound, NEW a \in Runs, NEW k \in DOMAIN containers[a], Exit(a, k)
  PROVE  Sound'
<1>1. Typed
  BY DEF Sound
<1>2. containers' \in [Runs -> Seq(Containers)]
  BY <1>1, ContainerWritten DEF Typed, Exit, Containers
<1> QED
  BY <1>1, <1>2, BesideSound DEF Exit, Typed, api, redis, worker, faults

\* A command moves on: one visit takes the place of another.
LEMMA VisitReplaced ==
  ASSUME Typed, NEW v, NEW w \in Visits,
         \/ Becomes(v, w)
         \/ handling' = handling \ {v}
         \/ handling' = handling \cup {w}
  PROVE  handling' \subseteq Visits /\ IsFiniteSet(handling')
<1>1. IsFiniteSet(handling \ {v})
  BY FS_RemoveElement DEF Typed
<1>2. IsFiniteSet((handling \ {v}) \cup {w}) /\ IsFiniteSet(handling \cup {w})
  BY <1>1, FS_AddElement DEF Typed
<1> QED
  BY <1>1, <1>2 DEF Becomes, Typed

LEMMA TakeSound ==
  ASSUME Sound, Take
  PROVE  Sound'
<1>1. Typed
  BY DEF Sound
<1>2. control \in Seq(Commands) /\ control # <<>> /\ control' = Tail(control)
  BY <1>1 DEF Typed, Take
<1>3. Head(control) \in Commands /\ control' \in Seq(Commands)
  BY <1>2, HeadTailProperties
<1>4. Visit(Head(control)) \in Visits
  BY <1>3 DEF Visit, Visits, Commands
<1>5. handling' \subseteq Visits /\ IsFiniteSet(handling')
  BY <1>1, <1>4, VisitReplaced DEF Take
<1>6. containers' \in [Runs -> Seq(Containers)]
  BY <1>1 DEF Typed, Take
<1> QED
  BY <1>3, <1>5, <1>6, BesideSound DEF Take, api, faults

LEMMA VisitMoves ==
  ASSUME Typed, NEW v \in handling, NEW listed \in SUBSET Nat, NEW aim \in SUBSET Nat
  PROVE  /\ [v EXCEPT !.aim = aim, !.listed = listed] \in Visits
         /\ [v EXCEPT !.aim = aim] \in Visits
         /\ [v EXCEPT !.listed = listed] \in Visits
         /\ \A a \in Runs : [v EXCEPT !.todo = v.todo \ {a}, !.run = {a}, !.aim = aim,
                               !.listed = listed] \in Visits
<1>1. v \in Visits
  BY DEF Typed
<1> QED
  BY <1>1 DEF Visits

LEMMA ListSound ==
  ASSUME Sound, NEW v \in handling, NEW a \in Runs, List(v, a)
  PROVE  Sound'
<1>1. Typed
  BY DEF Sound
<1> DEFINE listed == {k \in DOMAIN containers[a] : containers[a][k] # "removed"}
           w == [v EXCEPT !.todo = v.todo \ {a}, !.run = {a}, !.aim = {}, !.listed = listed]
<1>2. listed \in SUBSET Nat
  BY <1>1, LenProperties DEF Typed
<1>3. Becomes(v, w)
  BY DEF List
<1> HIDE DEF listed
<1>4. w \in Visits
  BY <1>1, <1>2, VisitMoves
<1> HIDE DEF w
<1>5. handling' \subseteq Visits /\ IsFiniteSet(handling')
  BY <1>1, <1>3, <1>4, VisitReplaced
<1> QED
  BY <1>1, <1>5, BesideSound DEF List, Typed, api, redis, faults

LEMMA InspectSound ==
  ASSUME Sound, NEW v \in handling, NEW k \in v.listed, Inspect(v, k)
  PROVE  Sound'
<1>1. Typed /\ v \in Visits
  BY DEF Sound, Typed
<1>2. v.listed \in SUBSET Nat /\ v.listed \ {k} \in SUBSET Nat /\ {k} \in SUBSET Nat
  BY <1>1 DEF Visits
<1>3. \E w \in Visits : Becomes(v, w)
  <2>1. [v EXCEPT !.aim = {k}] \in Visits /\ [v EXCEPT !.listed = v.listed \ {k}] \in Visits
    BY <1>1, <1>2, VisitMoves
  <2> QED
    BY <2>1 DEF Inspect
<1>4. handling' \subseteq Visits /\ IsFiniteSet(handling')
  BY <1>1, <1>3, VisitReplaced
<1> QED
  BY <1>1, <1>4, BesideSound DEF Inspect, Typed, api, redis, faults

LEMMA ActSound ==
  ASSUME Sound, NEW v \in handling, NEW k \in v.listed, Act(v, k)
  PROVE  Sound'
<1>1. Typed /\ v \in Visits
  BY DEF Sound, Typed
<1>2. v.listed \ {k} \in SUBSET Nat /\ {} \in SUBSET Nat /\ v.run \subseteq Runs
  BY <1>1 DEF Visits
<1> DEFINE w == [v EXCEPT !.aim = {}, !.listed = v.listed \ {k}]
<1>3. w \in Visits
  BY <1>1, <1>2, VisitMoves
<1>4. Becomes(v, w) \/ handling' = handling \ {v}
  BY DEF Act
<1> HIDE DEF w
<1>5. handling' \subseteq Visits /\ IsFiniteSet(handling')
  BY <1>1, <1>3, <1>4, VisitReplaced
<1>6. containers' \in [Runs -> Seq(Containers)]
  <2>1. PICK a \in v.run :
          \/ \E state \in Results(v.command.action, containers[a][k]) : SetContainer(a, k, state)
          \/ UNCHANGED containers
    BY DEF Act
  <2>2. Results(v.command.action, containers[a][k]) \subseteq Containers
    BY DEF Results, Containers
  <2> QED
    BY <1>1, <1>2, <2>1, <2>2, ContainerWritten DEF Typed
<1>7. control' \in Seq(Commands)
  BY <1>1 DEF Typed, Act, redis
<1>8. UNCHANGED <<status, due, terminating, orders, job, waitList, stage, chain, refused, errors, stops>>
  BY DEF Act, api, redis, faults
<1> QED
  BY <1>5, <1>6, <1>7, <1>8, BesideSound

LEMMA DoneSound ==
  ASSUME Sound, NEW v \in handling, Done(v)
  PROVE  Sound'
<1>1. Typed /\ v \in Visits
  BY DEF Sound, Typed
<1>2. handling' \subseteq Visits /\ IsFiniteSet(handling')
  BY <1>1, VisitReplaced DEF Done
<1> QED
  BY <1>1, <1>2, BesideSound DEF Done, Typed, api, redis, faults

\* What a job is after the stop of the worker.
LEMMA StoppedJob ==
  ASSUME Typed, StopWorker, NEW a \in Runs
  PROVE  /\ job'[a] \in Jobs
         /\ job'[a].made = job[a].made
         /\ a \notin Busy => job'[a].state = job[a].state
         /\ a \in Busy => job'[a].state = IF a \in {b \in Busy : job[b].stalls = 0}
                                         THEN "waiting" ELSE "failed"
<1>1. job[a] \in Jobs
  BY DEF Typed
<1>2. /\ a \notin Busy => job'[a] = job[a]
      /\ a \in Busy /\ job[a].stalls = 1 => job'[a] = [job[a] EXCEPT !.state = "failed"]
      /\ a \in Busy /\ job[a].stalls # 1 => job'[a] = [job[a] EXCEPT !.state = "waiting", !.stalls = 1]
  <2>1. job'[a] = IF a \notin Busy THEN job[a]
                  ELSE IF job[a].stalls = 1 THEN [job[a] EXCEPT !.state = "failed"]
                  ELSE [job[a] EXCEPT !.state = "waiting", !.stalls = 1]
    BY DEF StopWorker
  <2> QED
    BY <2>1, Zenon
<1>3. job[a].stalls = 1 \/ job[a].stalls = 0
  BY <1>1 DEF Jobs
<1>4. CASE a \notin Busy
  BY <1>1, <1>2, <1>4
<1>5. CASE a \in Busy /\ job[a].stalls = 1
  <2>1. job'[a] = [job[a] EXCEPT !.state = "failed"] /\ ~(job[a].stalls = 0)
    BY <1>2, <1>5
  <2>2. job'[a] \in Jobs /\ job'[a].made = job[a].made /\ job'[a].state = "failed"
    BY <1>1, <2>1 DEF Jobs
  <2> QED
    BY <1>5, <2>1, <2>2
<1>6. CASE a \in Busy /\ job[a].stalls = 0
  <2>1. job'[a] = [job[a] EXCEPT !.state = "waiting", !.stalls = 1]
    BY <1>2, <1>6
  <2>2. job'[a].made = job[a].made /\ job'[a].state = "waiting"
    BY <1>1, <2>1 DEF Jobs
  <2>3. \A l \in 0..1 : [job[a] EXCEPT !.state = "waiting", !.stalls = l] \in Jobs
    BY <1>1 DEF Jobs
  <2>4. 1 \in 0..1
    OBVIOUS
  <2>5. job'[a] \in Jobs
    BY <2>1, <2>3, <2>4
  <2> QED
    BY <1>6, <2>2, <2>5
<1> QED
  BY <1>3, <1>4, <1>5, <1>6

\* The stop of the worker.
LEMMA StopSound ==
  ASSUME Sound, StopWorker
  PROVE  Sound'
<1>1. Typed /\ Listed /\ \A a \in Runs : Attempted(a)
  BY DEF Sound
<1> DEFINE back == {a \in Busy : job[a].stalls = 0}
<1>2. PICK order \in Orderings(back) : waitList' = order \o waitList
  BY DEF StopWorker
<1>3. PICK taken \in Orderings(handling) :
        control' = [i \in DOMAIN taken |-> taken[i].command] \o control
  BY DEF StopWorker
<1>5. \A a \in Runs :
        /\ job'[a] \in Jobs /\ job'[a].made = job[a].made
        /\ a \notin Busy => job'[a].state = job[a].state
        /\ a \in Busy => job'[a].state = IF a \in back THEN "waiting" ELSE "failed"
  BY <1>1, StoppedJob
<1>6. job' \in [Runs -> Jobs]
  BY <1>5 DEF StopWorker
<1>7. back \subseteq Runs /\ IsFiniteSet(back) /\ \A a \in back : job[a].state = "active"
  BY ExecutionAssumption, FS_Subset DEF Busy
<1> HIDE DEF back
<1>8. order \in Seq(Runs) /\ Once(order) /\ \A x : Holds(order, x) <=> x \in back
  <2>1. order \in Seq(back) /\ Once(order) /\ \A x : Holds(order, x) <=> x \in back
    BY <1>2, <1>7, OrderingLists DEF Orderings
  <2> QED
    BY <1>7, <2>1, SeqMonotonic
<1>9. /\ waitList' \in Seq(Runs) /\ Once(waitList')
      /\ \A x : Holds(waitList', x) <=> x \in back \/ Holds(waitList, x)
  <2>1. waitList \in Seq(Runs) /\ Once(waitList)
    BY <1>1 DEF Typed, Listed
  <2>2. \A x : ~(Holds(order, x) /\ Holds(waitList, x))
    BY <1>1, <1>7, <1>8 DEF Listed
  <2> QED
    BY <1>2, <1>8, <2>1, <2>2, JoinedOnce
<1>10. control' \in Seq(Commands)
  <2> DEFINE again == [i \in DOMAIN taken |-> taken[i].command]
  <2>1. Cardinality(handling) \in Nat
    BY <1>1, FS_CardinalityType DEF Typed
  <2>2. taken \in [1..Cardinality(handling) -> handling]
    BY <1>3 DEF Orderings
  <2>3. \A v \in handling : v.command \in Commands
    BY <1>1 DEF Typed, Visits
  <2>4. again \in [1..Cardinality(handling) -> Commands]
    BY <2>2, <2>3
  <2>5. again \in Seq(Commands) /\ control \in Seq(Commands)
    BY <1>1, <2>1, <2>4, FunctionIsSeq DEF Typed
  <2> HIDE DEF again
  <2>6. control' = again \o control
    BY <1>3 DEF again
  <2> QED
    BY <2>5, <2>6, ConcatProperties
<1>11. /\ stage' = [a \in Runs |-> "idle"]
       /\ chain' = [a \in Runs |-> 0]
       /\ handling' = {}
       /\ refused' \subseteq Runs
       /\ stops' \in Nat
       /\ UNCHANGED <<status, due, terminating, orders, containers, errors>>
  <2>1. /\ stage' = [a \in Runs |-> "idle"]
        /\ chain' = [a \in Runs |-> 0]
        /\ handling' = {}
        /\ UNCHANGED <<status, due, terminating, orders, containers, errors>>
    BY DEF StopWorker, api
  <2>2. refused' = refused \cup {a \in Runs : chain[a] > 0} /\ stops' = stops + 1
    BY DEF StopWorker
  <2>3. refused \subseteq Runs /\ stops \in Nat
    BY <1>1 DEF Typed
  <2> QED
    BY <2>1, <2>2, <2>3
<1>12. Typed'
  BY <1>1, <1>6, <1>9, <1>10, <1>11, FS_EmptySet DEF Typed, Stages
<1>13. Listed'
  <2> SUFFICES ASSUME NEW a \in Runs
               PROVE  job'[a].state = "waiting" <=> a \in back \/ Holds(waitList, a)
    BY <1>9 DEF Listed
  <2>1. job[a].state = "waiting" <=> Holds(waitList, a)
    BY <1>1 DEF Listed
  <2>2. a \in Busy <=> job[a].state = "active"
    BY DEF Busy
  <2>3. a \in back => a \in Busy
    BY <1>7, <2>2
  <2> QED
    BY <1>5, <2>1, <2>2, <2>3
<1>14. \A a \in Runs : Attempted(a)'
  <2> SUFFICES ASSUME NEW a \in Runs PROVE Attempted(a)'
    OBVIOUS
  <2>1. stage'[a] = "idle"
    BY <1>11
  <2>2. a \in Busy <=> job[a].state = "active"
    BY DEF Busy
  <2> QED
    BY <1>1, <1>5, <2>1, <2>2 DEF Attempted
<1> QED
  BY <1>12, <1>13, <1>14 DEF Sound

LEMMA SoundStep ==
  ASSUME Sound, [Next]_vars
  PROVE  Sound'
<1>1. CASE UNCHANGED vars
  BY <1>1 DEF vars, api, redis, worker, faults, Sound, Typed, Listed, Attempted
<1>2. ASSUME NEW a \in Runs, Api(a) \/ Terminate(a)
      PROVE  Sound'
  BY <1>2, DispatchSound, TerminateSound, RemoveJobSound DEF Api
<1>3. CASE \/ \E action \in {"pause", "resume"} : SetRunState(action)
           \/ \E o \in DOMAIN orders : PostOrder(o) \/ StartQueued(o)
  BY <1>3, OrderSound
<1>4. ASSUME NEW a \in Runs, Work(a) \/ Write(a)
      PROVE  Sound'
  BY <1>4, ClaimSound, AttemptSound, EventSound, RemoveSound, RetrySound DEF Work
<1>5. ASSUME NEW a \in Runs, NEW k \in DOMAIN containers[a], Exit(a, k)
      PROVE  Sound'
  BY <1>5, ExitSound
<1>6. ASSUME NEW a \in Runs, FailCall(a) \/ FailReport(a) \/ FailWait(a) \/ LoseEvent(a)
      PROVE  Sound'
  BY <1>6, ThrowSound, EventSound
<1>7. CASE Control
  BY <1>7, TakeSound, ListSound, InspectSound, ActSound, DoneSound DEF Control
<1>8. CASE StopWorker
  BY <1>8, StopSound
<1> QED
  BY <1>1, <1>2, <1>3, <1>4, <1>5, <1>6, <1>7, <1>8 DEF Next

\* In every behaviour the variables have their types, the wait list holds the
\* waiting jobs, and an attempt under way belongs to an active job that has an
\* attempt left.
THEOREM SoundAlways == Spec => []Sound
<1>1. Init => Sound
  BY SoundInit
<1>2. Sound /\ [Next]_vars => Sound'
  BY SoundStep
<1> QED
  BY <1>1, <1>2, PTL DEF Spec

\* Type correctness of the queue, the worker and its containers.
THEOREM TypeCorrect == Spec => []TypeOK
<1>1. Sound => TypeOK
  BY SoundTypes
<1> QED
  BY <1>1, SoundAlways, PTL

-----------------------------------------------------------------------------
(***************************************************************************)
(* No exit is forgotten.  The report comes before the removal, so the      *)
(* attempt that completes the job has gone through "reported".             *)
(***************************************************************************)
Reported(a) == (job[a].state = "completed" \/ stage[a] = "reported") => status[a] \in Ended

\* A run that has ended stays so: nothing in this module reopens it.
LEMMA EndedStays ==
  ASSUME Sound, [Next]_vars, NEW a \in Runs, status[a] \in Ended
  PROVE  status'[a] \in Ended /\ (status[a] = "terminated" => status'[a] = "terminated")
<1>1. status \in [Runs -> Statuses]
  BY DEF Sound, Typed
<1>2. \A b \in Runs : Completed(b)[a] \in Ended /\ (status[a] = "terminated" => Completed(b)[a] = "terminated")
  BY <1>1 DEF Completed, Outcome, Ended
<1>3. CASE UNCHANGED status
  BY <1>3
<1>4. ASSUME NEW b \in Runs, Terminate(b)
      PROVE  status'[a] \in Ended /\ (status[a] = "terminated" => status'[a] = "terminated")
  BY <1>1, <1>4 DEF Terminate, Ended
<1>5. ASSUME NEW o \in DOMAIN orders, StartQueued(o)
      PROVE  status'[a] \in Ended /\ (status[a] = "terminated" => status'[a] = "terminated")
  BY <1>1, <1>5 DEF StartQueued, Ended
<1>6. ASSUME NEW b \in Runs, PostEvent(b)
      PROVE  status'[a] \in Ended /\ (status[a] = "terminated" => status'[a] = "terminated")
  BY <1>1, <1>6 DEF PostEvent, Ended
<1>7. ASSUME NEW b \in Runs, Report(b) \/ FailReport(b)
      PROVE  status'[a] \in Ended /\ (status[a] = "terminated" => status'[a] = "terminated")
  BY <1>2, <1>7 DEF Report, FailReport
<1>8. ASSUME Next
      PROVE  \/ UNCHANGED status
             \/ \E b \in Runs : Terminate(b) \/ PostEvent(b) \/ Report(b) \/ FailReport(b)
             \/ \E o \in DOMAIN orders : StartQueued(o)
  BY <1>8 DEF Next, Api, Work, Control, Dispatch, LookAtJob, RemoveJob, PostTerminate, SetRunState,
       PostOrder, Claim, Create, Start, Remove, Retry, Write, Exit, FailCall, FailWait, LoseEvent,
       Take, List, Inspect, Act, Done, StopWorker, api
<1>9. CASE UNCHANGED vars
  BY <1>9 DEF vars, api
<1> QED
  BY <1>3, <1>4, <1>5, <1>6, <1>7, <1>8, <1>9

\* A job is completed by Remove alone, and an attempt has reported by Report alone.
LEMMA ReportedComes ==
  ASSUME Sound, [Next]_vars, NEW a \in Runs
  PROVE  /\ job'[a].state = "completed" => job[a].state = "completed" \/ stage[a] = "reported"
         /\ stage'[a] = "reported" => stage[a] = "reported" \/ (Report(a) /\ status'[a] \in Ended)
<1>1. Typed /\ job[a] \in Jobs /\ \A b \in Runs : Attempted(b)
  BY DEF Sound, Typed
<1> DEFINE Comes ==
      /\ job'[a].state = "completed" => job[a].state = "completed" \/ stage[a] = "reported"
      /\ stage'[a] = "reported" => stage[a] = "reported" \/ (Report(a) /\ status'[a] \in Ended)
<1> SUFFICES Comes
  OBVIOUS
<1>2. CASE UNCHANGED <<job, stage>>
  BY <1>2
<1>3. ASSUME NEW b \in Runs, Dispatch(b) \/ RemoveJob(b) \/ Claim(b) \/ Retry(b)
      PROVE  Comes
  <2>1. stage'[a] = "reported" => stage[a] = "reported"
    BY <1>1, <1>3 DEF Typed, Dispatch, RemoveJob, Claim, Retry, Move, worker
  <2>2. CASE Dispatch(b) \/ RemoveJob(b)
    <3>1. job' = job \/ job' = [job EXCEPT ![b] = NoJob] \/ job' = [job EXCEPT ![b] = [NoJob EXCEPT !.state = "waiting"]]
      BY <2>2 DEF Dispatch, RemoveJob
    <3>2. NoJob.state = "none" /\ [NoJob EXCEPT !.state = "waiting"].state = "waiting"
      BY DEF NoJob
    <3> QED
      BY <1>1, <2>1, <3>1, <3>2 DEF Typed
  <2>3. CASE Claim(b) \/ Retry(b)
    <3>1. job' = [job EXCEPT ![b].state = "active"] \/ job' = [job EXCEPT ![b].state = "waiting"]
      BY <2>3 DEF Claim, Retry
    <3> QED
      BY <1>1, <2>1, <3>1 DEF Typed, Jobs
  <2> QED
    BY <1>3, <2>2, <2>3
<1>4. ASSUME NEW b \in Runs, Create(b) \/ Start(b)
      PROVE  Comes
  BY <1>1, <1>4 DEF Typed, Create, Start, Move, redis
<1>5. ASSUME NEW b \in Runs, Report(b)
      PROVE  Comes
  <2>1. status'[b] \in Ended
    BY <1>1, <1>5 DEF Typed, Report, Completed, Outcome, Ended
  <2> QED
    BY <1>1, <1>5, <2>1 DEF Typed, Report, Move, redis
<1>6. ASSUME NEW b \in Runs, Remove(b)
      PROVE  Comes
  BY <1>1, <1>6 DEF Typed, Jobs, Remove, Move
<1>7. ASSUME NEW b \in Runs, FailCall(b) \/ FailReport(b) \/ FailWait(b)
      PROVE  Comes
  <2>1. stage[b] # "idle" /\ Throw(b) /\ stage' = [stage EXCEPT ![b] = "idle"]
    BY <1>7 DEF FailCall, FailReport, FailWait, Throw, Move
  <2> QED
    BY <1>1, <2>1, ThrownJob DEF Typed
<1>8. CASE StopWorker
  <2>1. stage'[a] = "idle"
    BY <1>8 DEF StopWorker
  <2>2. job'[a].state = "completed" => job[a].state = "completed"
    BY <1>1, <1>8, StoppedJob
  <2> QED
    BY <2>1, <2>2
<1>9. ASSUME Next
      PROVE  \/ UNCHANGED <<job, stage>>
             \/ \E b \in Runs : Dispatch(b) \/ RemoveJob(b) \/ Claim(b) \/ Retry(b)
             \/ \E b \in Runs : Create(b) \/ Start(b)
             \/ \E b \in Runs : Report(b)
             \/ \E b \in Runs : Remove(b)
             \/ \E b \in Runs : FailCall(b) \/ FailReport(b) \/ FailWait(b)
             \/ StopWorker
  BY <1>9 DEF Next, Api, Work, Control, LookAtJob, PostTerminate, SetRunState, Terminate, StartQueued,
       PostOrder, PostEvent, Write, Exit, LoseEvent, Take, List, Inspect, Act, Done, worker, redis
<1>10. CASE UNCHANGED vars
  BY <1>2, <1>10 DEF vars, redis, worker
<1> HIDE DEF Comes
<1> QED
  BY <1>2, <1>3, <1>4, <1>5, <1>6, <1>7, <1>8, <1>9, <1>10

\* Whatever fails and is made again, a completed job is a run that has ended.
THEOREM ReportsCorrect == Spec => []CompletedIsReported
<1> DEFINE Inv == \A a \in Runs : Reported(a)
<1>1. Init => Inv
  BY DEF Init, Reported, NoJob
<1>2. Sound /\ Inv /\ [Next]_vars => Inv'
  <2> SUFFICES ASSUME Sound, Inv, [Next]_vars, NEW a \in Runs
               PROVE  Reported(a)'
    OBVIOUS
  <2> QED
    BY EndedStays, ReportedComes DEF Reported
<1>3. Inv => CompletedIsReported
  BY DEF Reported, CompletedIsReported
<1> HIDE DEF Inv
<1> QED
  BY <1>1, <1>2, <1>3, SoundAlways, PTL DEF Spec

-----------------------------------------------------------------------------
(***************************************************************************)
(* One live container.  The property is inductive: an attempt goes on from *)
(* "started" only when it has seen the exit of its container.              *)
(***************************************************************************)
Watched(a) ==
  stops = 0 =>
    \A k \in DOMAIN containers[a] :
      containers[a][k] \in Live => stage[a] = "started" /\ k = Latest(a)

LEMMA WatchedStep ==
  ASSUME Sound, \A b \in Runs : Watched(b), [Next]_vars, NEW a \in Runs
  PROVE  Watched(a)'
<1>1. Typed /\ \A b \in Runs : Attempted(b)
  BY DEF Sound
<1>2. CASE UNCHANGED <<stage, containers, stops>>
  BY <1>2 DEF Watched, Latest
<1>3. ASSUME NEW b \in Runs, Claim(b)
      PROVE  Watched(a)'
  <2>1. stage[b] = "idle"
    <3>1. waitList \in Seq(Runs) /\ waitList # <<>> /\ b = Head(waitList) /\ Once(waitList)
      BY <1>1, <1>3 DEF Typed, Claim, Sound, Listed
    <3>2. Holds(waitList, b)
      BY <3>1, TailOnce
    <3>3. job[b].state = "waiting"
      BY <3>2 DEF Sound, Listed
    <3> QED
      BY <1>1, <3>3 DEF Attempted
  <2>2. UNCHANGED <<containers, stops>> /\ stage' = [stage EXCEPT ![b] = "claimed"]
    BY <1>3 DEF Claim, Move, faults
  <2> QED
    BY <1>1, <2>1, <2>2 DEF Watched, Latest, Typed
<1>4. ASSUME NEW b \in Runs, Create(b)
      PROVE  Watched(a)'
  <2>1. /\ stage[b] = "claimed" /\ stage' = [stage EXCEPT ![b] = "created"]
        /\ containers' = [containers EXCEPT ![b] = Append(containers[b], "created")]
        /\ stops' = stops
    BY <1>4 DEF Create, Move, faults
  <2>2. CASE a # b
    <3>1. containers'[a] = containers[a] /\ stage'[a] = stage[a]
      BY <1>1, <2>1, <2>2 DEF Typed
    <3> QED
      BY <2>1, <3>1 DEF Watched, Latest
  <2>3. CASE a = b
    <3>1. containers[a] \in Seq(Containers) /\ "created" \in Containers
      BY <1>1 DEF Typed, Containers
    <3>2. containers'[a] = Append(containers[a], "created")
      BY <1>1, <2>1, <2>3 DEF Typed
    <3>3. /\ DOMAIN containers'[a] = DOMAIN containers[a] \cup {Len(containers[a]) + 1}
          /\ containers'[a][Len(containers[a]) + 1] = "created"
          /\ \A k \in DOMAIN containers[a] : containers'[a][k] = containers[a][k]
      BY <3>1, <3>2, Appended
    <3>4. stops = 0 => \A k \in DOMAIN containers[a] : containers[a][k] \notin Live
      BY <2>1, <2>3 DEF Watched
    <3> QED
      BY <2>1, <3>3, <3>4 DEF Watched, Live
  <2> QED
    BY <2>2, <2>3
<1>5. ASSUME NEW b \in Runs, Start(b)
      PROVE  Watched(a)'
  <2>1. /\ stage[b] = "created" /\ stage' = [stage EXCEPT ![b] = "started"]
        /\ SetContainer(b, Latest(b), "running")
        /\ stops' = stops
    BY <1>5 DEF Start, Move, faults
  <2>2. /\ DOMAIN containers'[a] = DOMAIN containers[a] /\ Len(containers'[a]) = Len(containers[a])
        /\ a # b => containers'[a] = containers[a]
        /\ \A k \in DOMAIN containers[b] : k # Latest(b) => containers'[b][k] = containers[b][k]
    BY <1>1, <2>1, ContainerWritten DEF Typed, Containers
  <2>3. CASE a # b
    BY <1>1, <2>1, <2>2, <2>3 DEF Watched, Latest, Typed
  <2>4. CASE a = b
    <3>1. stage'[a] = "started"
      BY <1>1, <2>1, <2>4 DEF Typed
    <3>2. stops = 0 => \A k \in DOMAIN containers[a] : containers[a][k] \notin Live
      BY <2>1, <2>4 DEF Watched
    <3> QED
      BY <2>1, <2>2, <2>4, <3>1, <3>2 DEF Watched, Latest
  <2> QED
    BY <2>3, <2>4
<1>6. ASSUME NEW b \in Runs, Report(b) \/ FailReport(b)
      PROVE  Watched(a)'
  <2>1. /\ stage[b] = "started" /\ ExitSeen(b)
        /\ UNCHANGED <<containers, stops>>
        /\ \E next \in Stages : stage' = [stage EXCEPT ![b] = next]
    BY <1>6 DEF Report, FailReport, Throw, Err, Move, Stages, faults
  <2>2. stops = 0 => \A k \in DOMAIN containers[b] : containers[b][k] \notin Live
    BY <2>1 DEF Watched, ExitSeen, Gone, Live
  <2> QED
    BY <1>1, <2>1, <2>2 DEF Watched, Latest, Typed
<1>7. ASSUME NEW b \in Runs, FailCall(b)
      PROVE  Watched(a)'
  <2>1. /\ stage[b] # "started"
        /\ UNCHANGED <<containers, stops>>
        /\ stage' = [stage EXCEPT ![b] = "idle"]
    BY <1>7 DEF FailCall, Throw, Err, Move
  <2>2. stops = 0 => \A k \in DOMAIN containers[b] : containers[b][k] \notin Live
    BY <2>1 DEF Watched
  <2> QED
    BY <1>1, <2>1, <2>2 DEF Watched, Latest, Typed
<1>8. ASSUME NEW b \in Runs, Remove(b)
      PROVE  Watched(a)'
  <2>1. /\ stage[b] = "reported" /\ stage' = [stage EXCEPT ![b] = "idle"]
        /\ SetContainer(b, Latest(b), "removed")
        /\ stops' = stops
    BY <1>8 DEF Remove, Move, faults
  <2>2. /\ DOMAIN containers'[a] = DOMAIN containers[a] /\ Len(containers'[a]) = Len(containers[a])
        /\ a # b => containers'[a] = containers[a]
        /\ Latest(b) \in DOMAIN containers[b] => containers'[b][Latest(b)] = "removed"
        /\ \A k \in DOMAIN containers[b] : k # Latest(b) => containers'[b][k] = containers[b][k]
    BY <1>1, <2>1, ContainerWritten DEF Typed, Containers
  <2>3. CASE a # b
    BY <1>1, <2>1, <2>2, <2>3 DEF Watched, Latest, Typed
  <2>4. CASE a = b
    <3>1. stops = 0 => \A k \in DOMAIN containers[a] : containers[a][k] \notin Live
      BY <2>1, <2>4 DEF Watched
    <3> QED
      BY <2>1, <2>2, <2>4, <3>1 DEF Watched, Live
  <2> QED
    BY <2>3, <2>4
<1>9. ASSUME NEW b \in Runs, NEW k, NEW state \in Containers, SetContainer(b, k, state),
             k \in DOMAIN containers[b] => (state \in Live => containers[b][k] \in Live),
             UNCHANGED <<stage, stops>>
      PROVE  Watched(a)'
  <2>1. /\ DOMAIN containers'[a] = DOMAIN containers[a] /\ Len(containers'[a]) = Len(containers[a])
        /\ a # b => containers'[a] = containers[a]
        /\ k \in DOMAIN containers[b] => containers'[b][k] = state
        /\ \A j \in DOMAIN containers[b] : j # k => containers'[b][j] = containers[b][j]
    BY <1>1, <1>9, ContainerWritten DEF Typed
  <2>2. \A j \in DOMAIN containers[a] : containers'[a][j] \in Live => containers[a][j] \in Live
    BY <1>9, <2>1
  <2> QED
    BY <1>9, <2>1, <2>2 DEF Watched, Latest
<1>10. ASSUME NEW b \in Runs, NEW k \in DOMAIN containers[b], Exit(b, k)
       PROVE  Watched(a)'
  <2>1. PICK state \in {"succeeded", "failed"} : SetContainer(b, k, state)
    BY <1>10 DEF Exit
  <2>2. state \in Containers /\ state \notin Live /\ UNCHANGED <<stage, stops>>
    BY <1>10 DEF Exit, Containers, Live, worker, faults
  <2> QED
    BY <1>9, <2>1, <2>2
<1>11. ASSUME NEW v \in handling, NEW k \in v.listed, Act(v, k)
       PROVE  Watched(a)'
  <2>1. v.run \subseteq Runs
    BY <1>1 DEF Typed, Visits
  <2>2. UNCHANGED <<stage, stops>>
    BY <1>11 DEF Act, faults
  <2>3. \/ UNCHANGED containers
        \/ \E b \in v.run : \E state \in Results(v.command.action, containers[b][k]) :
             Concerns(v.command.action, containers[b][k]) /\ SetContainer(b, k, state)
    BY <1>11 DEF Act
  <2>4. CASE UNCHANGED containers
    BY <1>2, <2>2, <2>4
  <2>5. ASSUME NEW b \in v.run, NEW state \in Results(v.command.action, containers[b][k]),
               Concerns(v.command.action, containers[b][k]), SetContainer(b, k, state)
        PROVE  Watched(a)'
    <3>1. state \in Containers /\ containers[b][k] \in Live
      BY <2>5 DEF Results, Concerns, Containers, Live
    <3> QED
      BY <1>9, <2>1, <2>2, <2>5, <3>1
  <2> QED
    BY <2>3, <2>4, <2>5
<1>12. CASE StopWorker \/ \E b \in Runs : FailWait(b)
  <2>1. stops' # 0
    <3>1. stops' = stops + 1
      BY <1>12 DEF StopWorker, FailWait
    <3>2. stops \in Nat
      BY <1>1 DEF Typed
    <3> QED
      BY <3>1, <3>2
  <2> QED
    BY <2>1 DEF Watched
<1>13. ASSUME Next
       PROVE  \/ UNCHANGED <<stage, containers, stops>>
              \/ \E b \in Runs : Claim(b) \/ Create(b) \/ Start(b) \/ Remove(b) \/ FailCall(b)
              \/ \E b \in Runs : Report(b) \/ FailReport(b)
              \/ \E b \in Runs : \E k \in DOMAIN containers[b] : Exit(b, k)
              \/ \E v \in handling : \E k \in v.listed : Act(v, k)
              \/ StopWorker \/ \E b \in Runs : FailWait(b)
  BY <1>13 DEF Next, Api, Work, Control, Dispatch, RemoveJob, Retry, LookAtJob, PostTerminate, SetRunState,
       Terminate, StartQueued, PostOrder, PostEvent, Write, LoseEvent, Err, Take, List, Inspect, Done,
       worker, faults
<1>14. CASE UNCHANGED vars
  BY <1>2, <1>14 DEF vars, worker, faults
<1> QED
  BY <1>2, <1>3, <1>4, <1>5, <1>6, <1>7, <1>8, <1>10, <1>11, <1>12, <1>13, <1>14

\* Failed attempts, retries and repeated dispatches never leave a second container
\* behind, while the worker goes on.
THEOREM OneLiveContainer == Spec => []LiveIsWatched
<1> DEFINE Inv == \A a \in Runs : Watched(a)
<1>1. Init => Inv
  BY DEF Init, Watched
<1>2. Sound /\ Inv /\ [Next]_vars => Inv'
  BY WatchedStep
<1>3. Inv => LiveIsWatched
  BY DEF Watched, LiveIsWatched
<1> HIDE DEF Inv
<1> QED
  BY <1>1, <1>2, <1>3, SoundAlways, PTL DEF Spec

-----------------------------------------------------------------------------
(***************************************************************************)
(* No exit overtakes the evidence.  While nothing fails, a run that is     *)
(* completed or failed has posted all its events, and its job never starts *)
(* again; so the only ended run that still has events to post is one that  *)
(* an operator terminated.                                                 *)
(***************************************************************************)
ByOperator(a) == terminating[a] # "no" => status[a] = "terminated"

Quiet(a) ==
  errors = 0 /\ stops = 0 /\ status[a] \in {"completed", "failed"} =>
    chain[a] = 0 /\ (stage[a] = "reported" \/ job[a].state = "completed")

Rightly(a) == errors = 0 /\ stops = 0 /\ a \in refused => status[a] = "terminated"

\* Only Terminate begins a termination.
LEMMA ByOperatorStep ==
  ASSUME Sound, [Next]_vars, NEW a \in Runs, ByOperator(a)
  PROVE  ByOperator(a)'
<1>1. Typed
  BY DEF Sound
<1>2. CASE terminating[a] # "no"
  BY <1>2, EndedStays DEF ByOperator, Ended
<1>3. CASE terminating[a] = "no" /\ ~ \E b \in Runs : Terminate(b)
  <2>1. terminating'[a] = "no"
    <3>1. CASE UNCHANGED terminating
      BY <1>3, <3>1
    <3>2. ASSUME NEW b \in Runs, LookAtJob(b) \/ RemoveJob(b) \/ PostTerminate(b)
          PROVE  terminating'[a] = "no"
      <4>1. terminating[b] # "no" /\ \E step : terminating' = [terminating EXCEPT ![b] = step]
        BY <3>2 DEF LookAtJob, RemoveJob, PostTerminate
      <4> QED
        BY <1>1, <1>3, <4>1 DEF Typed
    <3>3. ASSUME Next
          PROVE  \/ UNCHANGED terminating
                 \/ \E b \in Runs : LookAtJob(b) \/ RemoveJob(b) \/ PostTerminate(b)
      BY <1>3, <3>3 DEF Next, Api, Work, Control, Dispatch, SetRunState, StartQueued, PostOrder, Claim,
           Create, Start, Remove, Retry, Report, Write, PostEvent, Exit, FailCall, FailReport, FailWait,
           Throw, LoseEvent, Take, List, Inspect, Act, Done, StopWorker, api
    <3>4. CASE UNCHANGED vars
      BY <3>1, <3>4 DEF vars, api
    <3> QED
      BY <3>1, <3>2, <3>3, <3>4
  <2> QED
    BY <2>1 DEF ByOperator
<1>4. ASSUME NEW b \in Runs, Terminate(b)
      PROVE  ByOperator(a)'
  BY <1>1, <1>4 DEF Terminate, ByOperator, Typed
<1> QED
  BY <1>2, <1>3, <1>4

LEMMA QuietStep ==
  ASSUME Sound, [Next]_vars, NEW a \in Runs, ByOperator(a), Quiet(a)
  PROVE  Quiet(a)'
<1>1. Typed /\ Attempted(a) /\ job[a] \in Jobs
  BY DEF Sound, Typed
<1> SUFFICES ASSUME errors' = 0, stops' = 0, status'[a] \in {"completed", "failed"}
             PROVE  chain'[a] = 0 /\ (stage'[a] = "reported" \/ job'[a].state = "completed")
  BY DEF Quiet
<1>2. \/ UNCHANGED <<errors, stops>>
      \/ \E b \in Runs : FailCall(b) \/ FailReport(b) \/ FailWait(b) \/ LoseEvent(b)
      \/ StopWorker
  BY DEF Next, Api, Work, Control, Dispatch, RemoveJob, LookAtJob, PostTerminate, SetRunState, Terminate,
       StartQueued, PostOrder, Claim, Create, Start, Remove, Retry, Report, Write, PostEvent, Exit, Take,
       List, Inspect, Act, Done, vars, faults
<1>3. UNCHANGED <<errors, stops>>
  <2>1. errors \in Nat /\ stops \in Nat
    BY <1>1 DEF Typed
  <2>2. ASSUME NEW b \in Runs, FailCall(b) \/ FailReport(b) \/ FailWait(b) \/ LoseEvent(b)
        PROVE  FALSE
    <3>1. errors' = errors + 1 \/ stops' = stops + 1
      BY <2>2 DEF FailCall, FailReport, FailWait, LoseEvent, Err
    <3> QED
      BY <2>1, <3>1
  <2>3. CASE StopWorker
    <3>1. stops' = stops + 1
      BY <2>3 DEF StopWorker
    <3> QED
      BY <2>1, <3>1
  <2> QED
    BY <1>2, <2>2, <2>3
<1>4. CASE status[a] \in {"completed", "failed"}
  <2>1. chain[a] = 0 /\ (stage[a] = "reported" \/ job[a].state = "completed")
    BY <1>3, <1>4 DEF Quiet
  <2>2. terminating[a] = "no"
    BY <1>4 DEF ByOperator
  <2>3. job[a].state \in {"active", "completed"} /\ stage[a] # "started"
    BY <1>1, <2>1 DEF Attempted
  <2>4. chain'[a] = 0
    <3>1. CASE UNCHANGED chain
      BY <2>1, <3>1
    <3>2. ASSUME NEW b \in Runs, Write(b) \/ PostEvent(b)
          PROVE  chain'[a] = 0
      <4>1. b # a /\ \E n : chain' = [chain EXCEPT ![b] = n]
        BY <2>1, <2>3, <3>2 DEF Write, PostEvent
      <4> QED
        BY <1>1, <2>1, <4>1 DEF Typed
    <3>3. \/ UNCHANGED chain
          \/ \E b \in Runs : Write(b) \/ PostEvent(b)
          \/ \E b \in Runs : LoseEvent(b)
          \/ StopWorker
      BY DEF Next, Api, Work, Control, Dispatch, RemoveJob, LookAtJob, PostTerminate, SetRunState,
           Terminate, StartQueued, PostOrder, Claim, Create, Start, Remove, Retry, Report, Exit, Take,
           List, Inspect, Act, Done, FailCall, FailReport, FailWait, vars, worker
    <3>4. CASE StopWorker
      BY <3>4 DEF StopWorker
    <3>5. ASSUME NEW b \in Runs, LoseEvent(b)
          PROVE  FALSE
      <4>1. errors' = errors + 1 /\ errors \in Nat
        BY <1>1, <3>5 DEF LoseEvent, Err, Typed
      <4> QED
        BY <1>3, <4>1
    <3> QED
      BY <3>1, <3>2, <3>3, <3>4, <3>5
  <2>5. stage'[a] = "reported" \/ job'[a].state = "completed"
    <3>1. CASE UNCHANGED <<stage, job>>
      BY <2>1, <3>1
    <3>2. ASSUME NEW b \in Runs, Dispatch(b) \/ RemoveJob(b) \/ Retry(b)
          PROVE  stage'[a] = "reported" \/ job'[a].state = "completed"
      <4>1. b # a \/ UNCHANGED job
        BY <2>2, <2>3, <3>2 DEF Dispatch, Known, RemoveJob, Retry
      <4>2. UNCHANGED stage /\ (UNCHANGED job \/ \E j : job' = [job EXCEPT ![b] = j])
        BY <3>2 DEF Dispatch, RemoveJob, Retry, worker
      <4> QED
        BY <1>1, <2>1, <4>1, <4>2 DEF Typed
    <3>3. ASSUME NEW b \in Runs, Claim(b)
          PROVE  stage'[a] = "reported" \/ job'[a].state = "completed"
      <4>1. b # a
        <5>1. waitList \in Seq(Runs) /\ waitList # <<>> /\ b = Head(waitList) /\ Once(waitList)
          BY <1>1, <3>3 DEF Typed, Claim, Sound, Listed
        <5>2. Holds(waitList, b)
          BY <5>1, TailOnce
        <5>3. job[b].state = "waiting"
          BY <5>2 DEF Sound, Listed
        <5> QED
          BY <2>3, <5>3
      <4>2. stage' = [stage EXCEPT ![b] = "claimed"] /\ job' = [job EXCEPT ![b].state = "active"]
        BY <3>3 DEF Claim, Move
      <4> QED
        BY <1>1, <2>1, <4>1, <4>2 DEF Typed
    <3>4. ASSUME NEW b \in Runs, Create(b) \/ Start(b) \/ Report(b)
          PROVE  stage'[a] = "reported" \/ job'[a].state = "completed"
      <4>1. UNCHANGED job /\ stage[b] # "reported" /\ \E next : stage' = [stage EXCEPT ![b] = next]
        BY <3>4 DEF Create, Start, Report, Move, redis
      <4> QED
        BY <1>1, <2>1, <4>1 DEF Typed
    <3>5. ASSUME NEW b \in Runs, Remove(b)
          PROVE  stage'[a] = "reported" \/ job'[a].state = "completed"
      <4>1. stage' = [stage EXCEPT ![b] = "idle"] /\ job' = [job EXCEPT ![b].state = "completed"]
        BY <3>5 DEF Remove, Move
      <4> QED
        BY <1>1, <2>1, <4>1 DEF Typed, Jobs
    <3>6. \/ UNCHANGED <<stage, job>>
          \/ \E b \in Runs : Dispatch(b) \/ RemoveJob(b) \/ Retry(b)
          \/ \E b \in Runs : Claim(b) \/ Remove(b)
          \/ \E b \in Runs : Create(b) \/ Start(b) \/ Report(b)
          \/ \E b \in Runs : FailCall(b) \/ FailReport(b) \/ FailWait(b)
          \/ StopWorker
      BY DEF Next, Api, Work, Control, LookAtJob, PostTerminate, SetRunState, Terminate, StartQueued,
           PostOrder, PostEvent, Write, Exit, LoseEvent, Take, List, Inspect, Act, Done, vars, worker, redis
    <3>7. /\ ~StopWorker
          /\ \A b \in Runs : ~FailCall(b) /\ ~FailReport(b) /\ ~FailWait(b)
      <4>1. errors \in Nat /\ stops \in Nat
        BY <1>1 DEF Typed
      <4>2. ASSUME NEW b \in Runs, FailCall(b) \/ FailReport(b) \/ FailWait(b)
            PROVE  errors' = errors + 1 \/ stops' = stops + 1
        BY <4>2 DEF FailCall, FailReport, FailWait, Err
      <4>3. StopWorker => stops' = stops + 1
        BY DEF StopWorker
      <4> QED
        BY <1>3, <4>1, <4>2, <4>3
    <3> QED
      BY <3>1, <3>2, <3>3, <3>4, <3>5, <3>6, <3>7
  <2> QED
    BY <2>4, <2>5
<1>5. CASE status[a] \notin {"completed", "failed"}
  <2>1. Report(a)
    <3>1. ASSUME NEW b \in Runs, Report(b), b # a
          PROVE  status'[a] = status[a]
      BY <1>1, <3>1 DEF Report, Completed, Typed
    <3>2. ASSUME NEW b \in Runs, Terminate(b) \/ PostEvent(b)
          PROVE  status'[a] \in {status[a], "terminated", "running"}
      BY <1>1, <3>2 DEF Terminate, PostEvent, Typed
    <3>3. ASSUME NEW o \in DOMAIN orders, StartQueued(o)
          PROVE  status'[a] \in {status[a], "starting"}
      BY <1>1, <3>3 DEF StartQueued, Typed
    <3>4. \/ UNCHANGED status
          \/ \E b \in Runs : Terminate(b) \/ PostEvent(b)
          \/ \E b \in Runs : Report(b)
          \/ \E b \in Runs : FailReport(b)
          \/ \E o \in DOMAIN orders : StartQueued(o)
      BY DEF Next, Api, Work, Control, Dispatch, LookAtJob, RemoveJob, PostTerminate, SetRunState,
           PostOrder, Claim, Create, Start, Remove, Retry, Write, Exit, FailCall, FailWait, LoseEvent,
           Take, List, Inspect, Act, Done, StopWorker, vars, api
    <3>5. ASSUME NEW b \in Runs, FailReport(b)
          PROVE  FALSE
      <4>1. errors' = errors + 1 /\ errors \in Nat
        BY <1>1, <3>5 DEF FailReport, Err, Typed
      <4> QED
        BY <1>3, <4>1
    <3> QED
      BY <1>5, <3>1, <3>2, <3>3, <3>4, <3>5
  <2> QED
    BY <1>1, <2>1 DEF Report, Drained, Move, Typed
<1> QED
  BY <1>4, <1>5

LEMMA RightlyStep ==
  ASSUME Sound, [Next]_vars, NEW a \in Runs, Quiet(a), Rightly(a)
  PROVE  Rightly(a)'
<1>1. Typed
  BY DEF Sound
<1> SUFFICES ASSUME errors' = 0, stops' = 0, a \in refused'
             PROVE  status'[a] = "terminated"
  BY DEF Rightly
<1>2. errors = 0 /\ stops = 0
  <2>1. errors \in Nat /\ stops \in Nat
    BY <1>1 DEF Typed
  <2>2. /\ errors' = errors \/ errors' = errors + 1
        /\ stops' = stops \/ stops' = stops + 1
    BY DEF Next, Api, Work, Control, Dispatch, RemoveJob, LookAtJob, PostTerminate, SetRunState, Terminate,
         StartQueued, PostOrder, Claim, Create, Start, Remove, Retry, Report, Write, PostEvent, Exit, Take,
         List, Inspect, Act, Done, FailCall, FailReport, FailWait, LoseEvent, Err, StopWorker, vars, faults
  <2> QED
    BY <2>1, <2>2
<1>3. CASE a \in refused
  <2>1. status[a] = "terminated"
    BY <1>2, <1>3 DEF Rightly
  <2> QED
    BY <2>1, EndedStays DEF Ended
<1>4. CASE a \notin refused
  <2>1. PostEvent(a) /\ status[a] \in Ended
    <3>1. ASSUME NEW b \in Runs, PostEvent(b)
          PROVE  b = a /\ status[a] \in Ended
      BY <1>4, <3>1 DEF PostEvent
    <3>2. \/ UNCHANGED refused
          \/ \E b \in Runs : PostEvent(b)
          \/ \E b \in Runs : LoseEvent(b)
          \/ StopWorker
      BY DEF Next, Api, Work, Control, Dispatch, RemoveJob, LookAtJob, PostTerminate, SetRunState, Terminate,
           StartQueued, PostOrder, Claim, Create, Start, Remove, Retry, Report, Write, Exit, Take, List,
           Inspect, Act, Done, FailCall, FailReport, FailWait, vars
    <3>3. /\ ~StopWorker
          /\ \A b \in Runs : ~LoseEvent(b)
      BY <1>2 DEF StopWorker, LoseEvent, Err
    <3> QED
      BY <1>4, <3>1, <3>2, <3>3
  <2>2. chain[a] # 0
    BY <1>1, <2>1 DEF PostEvent, Typed
  <2>3. status[a] = "terminated"
    BY <1>2, <2>1, <2>2 DEF Quiet, Ended
  <2> QED
    BY <2>3, EndedStays DEF Ended
<1> QED
  BY <1>3, <1>4

\* While no call fails and the worker goes on, the API refuses events of terminated
\* runs only: the exit is reported behind all the evidence.
THEOREM EvidenceFirst == Spec => []EvidenceBeforeExit
<1> DEFINE Inv == \A a \in Runs : ByOperator(a) /\ Quiet(a) /\ Rightly(a)
<1>1. Init => Inv
  BY DEF Init, ByOperator, Quiet, Rightly
<1>2. Sound /\ Inv /\ [Next]_vars => Inv'
  BY ByOperatorStep, QuietStep, RightlyStep
<1>3. Sound /\ Inv => EvidenceBeforeExit
  BY DEF Sound, Typed, Rightly, EvidenceBeforeExit
<1> HIDE DEF Inv
<1> QED
  BY <1>1, <1>2, <1>3, SoundAlways, PTL DEF Spec

-----------------------------------------------------------------------------
(***************************************************************************)
(* One execution, however often it is dispatched.  Every container of a    *)
(* run belongs to an attempt that threw, which is counted in made, or to   *)
(* the attempt that is under way or has completed the job.                 *)
(***************************************************************************)
Under(a) == stage[a] \in {"created", "started", "reported"} \/ job[a].state = "completed"

Accounted(a) ==
  stops = 0 /\ terminating[a] = "no" =>
    /\ job[a].made <= errors
    /\ job[a].state = "none" => Len(containers[a]) = 0
    /\ job[a].state = "completed" => job[a].made < Attempts
    /\ Len(containers[a]) <= job[a].made + (IF Under(a) THEN 1 ELSE 0)

\* The step concerns another run, or nothing that is counted.
LEMMA AccountedSame ==
  ASSUME Sound, NEW a \in Runs, Accounted(a), stops' = stops,
         errors' = errors \/ errors' = errors + 1,
         job'[a] = job[a], Len(containers'[a]) = Len(containers[a]), terminating'[a] = "no" => terminating[a] = "no",
         Under(a)' <=> Under(a)
  PROVE  Accounted(a)'
<1>1. job[a].made \in Nat /\ errors \in Nat
  BY JobFields DEF Sound, Typed
<1> QED
  BY <1>1 DEF Accounted

LEMMA AccountedStep ==
  ASSUME Sound, [Next]_vars, NEW a \in Runs, Accounted(a)
  PROVE  Accounted(a)'
<1>1. Typed /\ Attempted(a) /\ Listed
  BY DEF Sound
<1>2. /\ job[a] \in Jobs /\ job[a].made \in Nat /\ Attempts \in Nat /\ errors \in Nat /\ stops \in Nat
      /\ Len(containers[a]) \in Nat
  BY <1>1, JobFields, LenProperties, ExecutionAssumption DEF Typed
<1>3. terminating'[a] = "no" => terminating[a] = "no"
  <2>1. \/ UNCHANGED terminating
        \/ \E b \in Runs : \E step \in {"look", "remove", "post", "over"} :
             terminating' = [terminating EXCEPT ![b] = step]
    BY DEF Next, Api, Work, Control, Dispatch, SetRunState, StartQueued, PostOrder, Claim, Terminate,
         LookAtJob, RemoveJob, PostTerminate, Create, Start, Remove, Retry, Report, Write, PostEvent, Exit,
         FailCall, FailReport, FailWait, Throw, LoseEvent, Take, List, Inspect, Act, Done, StopWorker, vars,
         api
  <2> QED
    BY <1>1, <2>1 DEF Typed
<1>4. ASSUME UNCHANGED <<job, stage>>, stops' = stops, errors' = errors \/ errors' = errors + 1,
             Len(containers'[a]) = Len(containers[a])
      PROVE  Accounted(a)'
  BY <1>3, <1>4, AccountedSame DEF Under
<1>5. ASSUME NEW b \in Runs, b # a, stops' = stops, errors' = errors \/ errors' = errors + 1,
             job' = job \/ \E j : job' = [job EXCEPT ![b] = j],
             stage' = stage \/ \E next : stage' = [stage EXCEPT ![b] = next],
             Len(containers'[a]) = Len(containers[a])
      PROVE  Accounted(a)'
  <2>1. job'[a] = job[a] /\ stage'[a] = stage[a]
    BY <1>1, <1>5 DEF Typed
  <2> QED
    BY <1>3, <1>5, <2>1, AccountedSame DEF Under
<1>6. ASSUME NEW b \in Runs, NEW k, NEW state \in Containers, SetContainer(b, k, state)
      PROVE  Len(containers'[a]) = Len(containers[a])
  BY <1>1, <1>6, ContainerWritten DEF Typed
<1>7. ASSUME NEW b \in Runs, Dispatch(b)
      PROVE  Accounted(a)'
  <2>1. UNCHANGED <<stage, containers, errors, stops, terminating>>
    BY <1>7 DEF Dispatch, worker, faults
  <2>2. CASE UNCHANGED job
    BY <1>4, <2>1, <2>2
  <2>3. CASE b # a
    BY <1>5, <1>7, <2>1, <2>3 DEF Dispatch
  <2>4. CASE b = a /\ ~Known(a)
    <3>1. job' = [job EXCEPT ![a] = [NoJob EXCEPT !.state = "waiting"]] /\ job[a].state = "none"
      BY <1>7, <2>4 DEF Dispatch, Known
    <3>2. job'[a] = [NoJob EXCEPT !.state = "waiting"]
      BY <1>1, <3>1 DEF Typed
    <3>3. job'[a].made = 0 /\ job'[a].state = "waiting"
      BY <3>2 DEF NoJob
    <3> QED
      BY <1>2, <2>1, <3>1, <3>3 DEF Accounted
  <2> QED
    BY <1>7, <2>2, <2>3, <2>4 DEF Dispatch
<1>8. ASSUME NEW b \in Runs, RemoveJob(b)
      PROVE  Accounted(a)'
  <2>1. CASE b # a
    BY <1>5, <1>8, <2>1 DEF RemoveJob, worker, faults
  <2>2. CASE b = a
    <3>1. terminating[a] # "no"
      BY <1>8, <2>2 DEF RemoveJob
    <3> QED
      BY <1>3, <3>1 DEF Accounted
  <2> QED
    BY <2>1, <2>2
<1>9. ASSUME NEW b \in Runs, Claim(b) \/ Retry(b)
      PROVE  Accounted(a)'
  <2>1. /\ UNCHANGED <<containers, errors, stops, terminating>>
        /\ \E state \in {"active", "waiting"} : job' = [job EXCEPT ![b].state = state]
        /\ stage' = stage \/ stage' = [stage EXCEPT ![b] = "claimed"]
    BY <1>9 DEF Claim, Retry, Move, api, worker, faults
  <2>2. CASE b # a
    <3>1. \E j : job' = [job EXCEPT ![b] = j]
      BY <2>1
    <3> QED
      BY <1>5, <2>1, <2>2, <3>1
  <2>3. CASE b = a
    <3>1. job[a].state \in {"waiting", "delayed"}
      <4>1. CASE Retry(b)
        BY <2>3, <4>1 DEF Retry
      <4>2. CASE Claim(b)
        <5>1. waitList \in Seq(Runs) /\ waitList # <<>> /\ b = Head(waitList) /\ Once(waitList)
          BY <1>1, <4>2 DEF Typed, Claim, Listed
        <5>2. Holds(waitList, b)
          BY <5>1, TailOnce
        <5> QED
          BY <1>1, <2>3, <5>2 DEF Listed
      <4> QED
        BY <1>9, <4>1, <4>2
    <3>2. ~Under(a) /\ stage[a] = "idle"
      BY <1>1, <3>1 DEF Attempted, Under
    <3>3. job'[a].made = job[a].made /\ job'[a].state \in {"active", "waiting"}
      BY <1>1, <1>2, <2>1, <2>3 DEF Typed, Jobs
    <3>4. ~Under(a)'
      BY <1>1, <2>1, <2>3, <3>2, <3>3 DEF Under, Typed
    <3> QED
      BY <2>1, <3>2, <3>3, <3>4 DEF Accounted
  <2> QED
    BY <2>2, <2>3
<1>10. ASSUME NEW b \in Runs, Create(b)
       PROVE  Accounted(a)'
  <2>1. /\ UNCHANGED <<job, errors, stops, terminating>>
        /\ stage[b] = "claimed" /\ stage' = [stage EXCEPT ![b] = "created"]
        /\ containers' = [containers EXCEPT ![b] = Append(containers[b], "created")]
    BY <1>10 DEF Create, Move, api, redis, faults
  <2>2. CASE b # a
    BY <1>1, <1>5, <2>1, <2>2 DEF Typed
  <2>3. CASE b = a
    <3>1. containers[a] \in Seq(Containers) /\ "created" \in Containers
      BY <1>1 DEF Typed, Containers
    <3>2. Len(containers'[a]) = Len(containers[a]) + 1
      BY <1>1, <2>1, <2>3, <3>1, AppendProperties DEF Typed
    <3>3. ~Under(a) /\ Under(a)' /\ job[a].state = "active"
      BY <1>1, <2>1, <2>3 DEF Attempted, Under, Typed
    <3> QED
      BY <1>2, <2>1, <3>2, <3>3 DEF Accounted
  <2> QED
    BY <2>2, <2>3
<1>11. ASSUME NEW b \in Runs, Start(b) \/ Report(b)
       PROVE  Accounted(a)'
  <2>1. /\ UNCHANGED <<job, errors, stops, terminating>>
        /\ stage[b] \in {"created", "started"}
        /\ \E next \in {"started", "reported"} : stage' = [stage EXCEPT ![b] = next]
    BY <1>11 DEF Start, Report, Move, api, redis, faults
  <2>2. Len(containers'[a]) = Len(containers[a])
    BY <1>6, <1>11 DEF Start, Report, Containers
  <2>3. Under(a)' <=> Under(a)
    BY <1>1, <2>1 DEF Under, Typed
  <2> QED
    BY <1>3, <2>1, <2>2, <2>3, AccountedSame
<1>12. ASSUME NEW b \in Runs, Remove(b)
       PROVE  Accounted(a)'
  <2>1. /\ UNCHANGED <<errors, stops, terminating>>
        /\ stage[b] = "reported" /\ stage' = [stage EXCEPT ![b] = "idle"]
        /\ job' = [job EXCEPT ![b].state = "completed"]
    BY <1>12 DEF Remove, Move, api, faults
  <2>2. Len(containers'[a]) = Len(containers[a])
    BY <1>6, <1>12 DEF Remove, Containers
  <2>3. CASE b # a
    <3>1. \E j : job' = [job EXCEPT ![b] = j]
      BY <2>1
    <3> QED
      BY <1>5, <2>1, <2>2, <2>3, <3>1
  <2>4. CASE b = a
    <3>1. job'[a].state = "completed" /\ job'[a].made = job[a].made
      BY <1>1, <1>2, <2>1, <2>4 DEF Typed, Jobs
    <3>2. Under(a) /\ Under(a)' /\ job[a].made < Attempts
      BY <1>1, <2>1, <2>4, <3>1 DEF Under, Attempted
    <3> QED
      BY <2>1, <2>2, <3>1, <3>2 DEF Accounted
  <2> QED
    BY <2>3, <2>4
<1>13. ASSUME NEW b \in Runs, FailCall(b) \/ FailReport(b)
       PROVE  Accounted(a)'
  <2>1. /\ UNCHANGED <<containers, stops, terminating>> /\ errors' = errors + 1
        /\ stage[b] # "idle" /\ stage' = [stage EXCEPT ![b] = "idle"] /\ Throw(b)
        /\ job' = [job EXCEPT ![b] = AfterThrow(b)]
    BY <1>13 DEF FailCall, FailReport, Err, Throw, Move
  <2>2. CASE b # a
    BY <1>5, <2>1, <2>2
  <2>3. CASE b = a
    <3>1. job'[a].made = job[a].made + 1 /\ job'[a].state \in {"delayed", "failed"}
      BY <2>1, <2>3, ThrownJob
    <3> QED
      BY <1>2, <2>1, <3>1 DEF Accounted
  <2> QED
    BY <2>2, <2>3
<1>14. CASE StopWorker \/ \E b \in Runs : FailWait(b)
  <2>1. stops' = stops + 1
    BY <1>14 DEF StopWorker, FailWait
  <2> QED
    BY <1>2, <2>1 DEF Accounted
<1>15. ASSUME NEW b \in Runs, LoseEvent(b)
       PROVE  Accounted(a)'
  BY <1>4, <1>15 DEF LoseEvent, Err, redis
<1>16. ASSUME \/ \E b \in Runs : \E k \in DOMAIN containers[b] : Exit(b, k)
              \/ \E v \in handling : \E k \in v.listed : Act(v, k)
       PROVE  Accounted(a)'
  <2>1. UNCHANGED <<job, stage, errors, stops>>
    BY <1>16 DEF Exit, Act, redis, worker, faults
  <2>2. ASSUME NEW v \in handling, NEW k \in v.listed, Act(v, k)
        PROVE  Len(containers'[a]) = Len(containers[a])
    <3>1. v.run \subseteq Runs
      BY <1>1 DEF Typed, Visits
    <3>2. \/ UNCHANGED containers
          \/ \E b \in v.run : \E state \in Results(v.command.action, containers[b][k]) :
               SetContainer(b, k, state)
      BY <2>2 DEF Act
    <3>3. \A b : Results(v.command.action, containers[b][k]) \subseteq Containers
      BY DEF Results, Containers
    <3> QED
      BY <1>6, <3>1, <3>2, <3>3
  <2>3. ASSUME NEW b \in Runs, NEW k \in DOMAIN containers[b], Exit(b, k)
        PROVE  Len(containers'[a]) = Len(containers[a])
    BY <1>6, <2>3 DEF Exit, Containers
  <2> QED
    BY <1>4, <1>16, <2>1, <2>2, <2>3
<1>17. CASE UNCHANGED <<job, stage, errors, stops, containers>>
  BY <1>4, <1>17
<1>18. ASSUME Next
       PROVE  \/ UNCHANGED <<job, stage, errors, stops, containers>>
              \/ \E b \in Runs : Dispatch(b) \/ RemoveJob(b) \/ Claim(b) \/ Retry(b)
              \/ \E b \in Runs : Create(b) \/ Start(b) \/ Report(b) \/ Remove(b)
              \/ \E b \in Runs : FailCall(b) \/ FailReport(b) \/ LoseEvent(b)
              \/ StopWorker \/ \E b \in Runs : FailWait(b)
              \/ \E b \in Runs : \E k \in DOMAIN containers[b] : Exit(b, k)
              \/ \E v \in handling : \E k \in v.listed : Act(v, k)
  BY <1>18 DEF Next, Api, Work, Control, LookAtJob, PostTerminate, SetRunState, Terminate, StartQueued,
       PostOrder, PostEvent, Write, Take, List, Inspect, Done, worker, redis, faults
<1>19. CASE UNCHANGED vars
  BY <1>17, <1>19 DEF vars, worker, redis, faults
<1> QED
  BY <1>7, <1>8, <1>9, <1>10, <1>11, <1>12, <1>13, <1>14, <1>15, <1>16, <1>17, <1>18, <1>19

\* Repeated dispatches start nothing twice: containers are as many as the attempts
\* that threw, and one more.
THEOREM OneExecution == Spec => []DispatchedOnce
<1> DEFINE Inv == \A a \in Runs : Accounted(a) /\ ByOperator(a)
<1>1. Init => Inv
  BY EmptySeq DEF Init, Accounted, ByOperator, NoJob, Under
<1>2. Sound /\ Inv /\ [Next]_vars => Inv'
  BY AccountedStep, ByOperatorStep
<1>3. Sound /\ Inv => DispatchedOnce
  <2> SUFFICES ASSUME Sound, Inv, stops = 0, NEW a \in Runs, status[a] # "terminated"
               PROVE  Len(containers[a]) <= Attempts /\ Len(containers[a]) <= errors + 1
    BY DEF DispatchedOnce
  <2>1. /\ job[a].made \in Nat /\ job[a].made <= Attempts
        /\ errors \in Nat /\ Attempts \in Nat /\ Len(containers[a]) \in Nat
    BY JobFields, LenProperties, ExecutionAssumption DEF Sound, Typed
  <2>2. Accounted(a) /\ terminating[a] = "no" /\ Attempted(a)
    BY DEF ByOperator, Sound
  <2>3. Under(a) => job[a].made < Attempts
    BY <2>2 DEF Under, Attempted, Accounted
  <2> QED
    BY <2>1, <2>2, <2>3 DEF Accounted
<1> HIDE DEF Inv
<1> QED
  BY <1>1, <1>2, <1>3, SoundAlways, PTL DEF Spec
=============================================================================
