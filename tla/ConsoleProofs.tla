--------------------------- MODULE ConsoleProofs ----------------------------
(***************************************************************************)
(* Theorems about Console, for any number of projects, commands, changes   *)
(* and failures.                                                           *)
(***************************************************************************)
EXTENDS Console, SequenceTheorems, FiniteSetTheorems, TLAPS

-----------------------------------------------------------------------------
(***************************************************************************)
(* The inductive invariant.                                                *)
(***************************************************************************)
\* The subscription has one timer or one refresh, and a load it waits for is
\* that refresh.
Coalesced ==
  /\ stream.timer => ~ stream.refreshing
  /\ \A load \in loads : load.forStream => stream.refreshing
  /\ \A one, other \in loads : one.forStream /\ other.forStream => one = other

\* A snapshot shows a version that its project has had.
Had(s) == \A p \in Projects : s.project = {p} => s.version <= version[p]

\* The answer to the load that would be accepted is not older than the screen.
Ahead(load) ==
  load.generation = generation =>
    \A s \in load.reply : s.project = shown.project => s.version >= shown.version

Current ==
  /\ Had(shown)
  /\ \A load \in loads : \A s \in load.reply : Had(s)
  /\ \A load \in loads : Ahead(load)

Inv == TypeOK /\ Coalesced /\ Current

-----------------------------------------------------------------------------
(***************************************************************************)
(* Types of the parts.                                                     *)
(***************************************************************************)
LEMMA NewLoadTyped ==
  ASSUME NEW n \in Nat, NEW project \in Optional, NEW b \in BOOLEAN
  PROVE  NewLoad(n, project, b) \in Loads
BY DEF NewLoad, Loads

LEMMA SubscriptionTyped ==
  ASSUME NEW project \in Optional
  PROVE  Subscription(project) \in Streams
BY DEF Subscription, Streams

LEMMA NotifiedTyped ==
  ASSUME stream \in Streams, NEW p
  PROVE  /\ Notified(p) \in Streams
         /\ Notified(p).timer = stream.timer
         /\ Notified(p).refreshing = stream.refreshing
BY DEF Notified, Streams

LEMMA AfterRefreshTyped ==
  ASSUME stream \in Streams, NEW load \in Loads
  PROVE  /\ AfterRefresh(load) \in Streams
         /\ load.forStream => ~ AfterRefresh(load).refreshing
         /\ ~ load.forStream => AfterRefresh(load) = stream
BY DEF AfterRefresh, Streams, Loads

LEMMA AnsweredTyped ==
  ASSUME NEW load \in Loads, NEW r \in SUBSET Snapshots
  PROVE  /\ [load EXCEPT !.reply = r] \in Loads
         /\ [load EXCEPT !.reply = r].generation = load.generation
         /\ [load EXCEPT !.reply = r].forStream = load.forStream
         /\ [load EXCEPT !.reply = r].reply = r
BY DEF Loads

LEMMA CommandTyped ==
  ASSUME commands \in Seq(Commands), NEW c \in DOMAIN commands,
         NEW s \in {"sent", "handled", "over"},
         commands' = [commands EXCEPT ![c].stage = s]
  PROVE  commands' \in Seq(Commands) /\ commands[c] \in Commands
<1>1. /\ Len(commands) \in Nat /\ DOMAIN commands = 1..Len(commands)
      /\ commands \in [1..Len(commands) -> Commands]
  BY LenProperties
<1>2. commands[c] \in Commands
  BY <1>1
<1>3. [commands[c] EXCEPT !.stage = s] \in Commands
  BY <1>2 DEF Commands
<1>4. commands' \in [1..Len(commands) -> Commands]
  BY <1>1, <1>3
<1> QED
  BY <1>1, <1>2, <1>4, SeqDef

-----------------------------------------------------------------------------
(***************************************************************************)
(* The steps that several actions share.                                   *)
(***************************************************************************)
\* load, up to its await: nothing is answered yet.
LEMMA StartLoadKeeps ==
  ASSUME Inv, NEW project \in Optional, NEW b \in BOOLEAN, StartLoad(project, b)
  PROVE  /\ generation' \in Nat
         /\ generation' > generation
         /\ loads' \subseteq Loads
         /\ \A load \in loads' : load.generation <= generation'
         /\ \A one, other \in loads' : one.generation = other.generation => one = other
         /\ \A load \in loads' : load \in loads \/ load = NewLoad(generation', project, b)
<1>1. generation' = generation + 1 /\ generation \in Nat
  BY DEF Inv, TypeOK, StartLoad, NextGeneration
<1>2. loads' = loads \cup {NewLoad(generation', project, b)}
  BY <1>1 DEF StartLoad, NextGeneration
<1>3. NewLoad(generation', project, b) \in Loads
  BY <1>1, NewLoadTyped
<1>4. NewLoad(generation', project, b).generation = generation'
  BY DEF NewLoad
<1>5. \A load \in loads : load \in Loads /\ load.generation \in Nat /\ load.generation <= generation
  BY DEF Inv, TypeOK, Loads
<1> QED
  BY <1>1, <1>2, <1>3, <1>4, <1>5 DEF Inv, TypeOK

LEMMA StartLoadCurrent ==
  ASSUME Inv, NEW project \in Optional, NEW b \in BOOLEAN, StartLoad(project, b),
         UNCHANGED <<shown, version>>
  PROVE  Current'
<1>1. \A load \in loads' : load \in loads \/ load = NewLoad(generation', project, b)
  BY StartLoadKeeps
<1>2. \A load \in loads : load.generation \in Nat /\ load.generation <= generation
  BY DEF Inv, TypeOK, Loads
<1>3. generation' \in Nat /\ generation \in Nat /\ generation' > generation
  BY StartLoadKeeps DEF Inv, TypeOK
<1>4. NewLoad(generation', project, b).reply = {}
  BY DEF NewLoad
<1> QED
  BY <1>1, <1>2, <1>3, <1>4 DEF Inv, Current, Had, Ahead

\* load, after its await: it returns.
LEMMA LoadReturns ==
  ASSUME Inv, NEW load \in loads, loads' = loads \ {load}, stream' = AfterRefresh(load)
  PROVE  loads' \subseteq Loads /\ stream' \in Streams /\ Coalesced'
<1>1. load \in Loads /\ stream \in Streams
  BY DEF Inv, TypeOK
<1>2. load.forStream \in BOOLEAN
  BY <1>1 DEF Loads
<1>3. CASE load.forStream
  <2>1. \A other \in loads' : ~ other.forStream
    BY <1>3 DEF Inv, Coalesced
  <2> QED
    BY <1>1, <1>3, <2>1, AfterRefreshTyped DEF Inv, TypeOK, Coalesced
<1>4. CASE ~ load.forStream
  BY <1>1, <1>4, AfterRefreshTyped DEF Inv, TypeOK, Coalesced
<1> QED
  BY <1>2, <1>3, <1>4

\* Steps that leave the loads and the screen alone, and take no version back.
LEMMA VersionsGrow ==
  ASSUME Inv, UNCHANGED <<loads, shown, generation>>,
         version' \in [Projects -> Nat], \A p \in Projects : version'[p] >= version[p]
  PROVE  Current'
<1>1. ASSUME NEW s \in Snapshots, Had(s)
      PROVE  Had(s)'
  BY <1>1 DEF Had, Snapshots, Inv, TypeOK
<1>2. \A load \in loads : \A s \in load.reply : s \in Snapshots
  BY DEF Inv, TypeOK, Loads
<1>3. shown \in Snapshots
  BY DEF Inv, TypeOK
<1> QED
  BY <1>1, <1>2, <1>3 DEF Inv, Current, Had, Ahead

LEMMA VersionRaised ==
  ASSUME Inv, NEW p \in Projects, version' = [version EXCEPT ![p] = @ + 1]
  PROVE  version' \in [Projects -> Nat] /\ \A q \in Projects : version'[q] >= version[q]
BY DEF Inv, TypeOK

-----------------------------------------------------------------------------
(***************************************************************************)
(* The invariant holds.                                                    *)
(***************************************************************************)
LEMMA InvInit == Init => Inv
<1> SUFFICES ASSUME Init PROVE Inv
  OBVIOUS
<1>1. {} \in Optional
  BY DEF Optional
<1>2. loads = {NewLoad(1, {}, FALSE)} /\ NewLoad(1, {}, FALSE) \in Loads
  BY <1>1, NewLoadTyped DEF Init
<1>3. NewLoad(1, {}, FALSE).generation = 1 /\ ~ NewLoad(1, {}, FALSE).forStream
      /\ NewLoad(1, {}, FALSE).reply = {}
  BY DEF NewLoad
<1>4. stream = Subscription({}) /\ stream \in Streams /\ ~ stream.timer
  BY <1>1, SubscriptionTyped DEF Init, Subscription
<1>5. shown \in Snapshots
  BY <1>1 DEF Init, Snapshots
<1>6. TypeOK
  <2>1. commands \in Seq(Commands)
    BY EmptySeq DEF Init
  <2>2. loads \subseteq Loads /\ \A load \in loads : load = NewLoad(1, {}, FALSE)
    BY <1>2
  <2>3. active \in Projects /\ version \in [Projects -> Nat] /\ generation = 1 /\ errors \in Nat
    BY ConsoleAssumption DEF Init
  <2>4. \A load \in loads : load.generation <= generation
    <3>1. \A load \in loads : load.generation = 1
      BY <1>3, <2>2
    <3> QED
      BY <2>3, <3>1
  <2>5. \A one, other \in loads : one = other
    <3> TAKE one, other \in loads
    <3>1. one = NewLoad(1, {}, FALSE)
      BY <2>2
    <3>2. other = NewLoad(1, {}, FALSE)
      BY <2>2
    <3> QED
      BY <3>1, <3>2
  <2>6. generation \in Nat
    BY <2>3
  <2> QED
    BY <1>4, <1>5, <2>1, <2>2, <2>3, <2>4, <2>5, <2>6, Zenon DEF TypeOK
<1>7. Coalesced
  BY <1>2, <1>3, <1>4 DEF Coalesced
<1>8. Current
  BY <1>2, <1>3 DEF Current, Had, Ahead, Init
<1> QED
  BY <1>6, <1>7, <1>8 DEF Inv

LEMMA ReplyKeeps ==
  ASSUME Inv, NEW load \in loads, Reply(load)
  PROVE  Inv'
<1>1. load \in Loads /\ load.reply = {}
  BY DEF Inv, TypeOK, Reply
<1>2. PICK p \in IF load.project = {} THEN {active} ELSE load.project :
        loads' = (loads \ {load}) \cup
                 {[load EXCEPT !.reply = {[project |-> {p}, version |-> version[p]]}]}
  BY DEF Reply
<1>3. p \in Projects
  BY <1>1, <1>2 DEF Inv, TypeOK, Loads, Optional
<1>4. PICK answer \in Snapshots : answer = [project |-> {p}, version |-> version[p]]
  BY <1>3 DEF Snapshots, Optional, Inv, TypeOK
<1>5. PICK answered \in Loads :
        /\ answered = [load EXCEPT !.reply = {answer}]
        /\ answered.generation = load.generation
        /\ answered.forStream = load.forStream
        /\ answered.reply = {answer}
  <2>1. {answer} \in SUBSET Snapshots
    BY <1>4
  <2> QED
    BY <1>1, <2>1, AnsweredTyped
<1>6. loads' = (loads \ {load}) \cup {answered}
  BY <1>2, <1>4, <1>5
<1>7. UNCHANGED <<active, version, generation, commands, shown, stream, errors>>
  BY DEF Reply
<1>8. Had(answer)
  BY <1>3, <1>4 DEF Had, Inv, TypeOK
<1>9. answer.project = shown.project => answer.version >= shown.version
  BY <1>3, <1>4 DEF Inv, Current, Had
<1>10. TypeOK'
  <2>1. loads' \subseteq Loads
    BY <1>5, <1>6 DEF Inv, TypeOK
  <2>2. \A one \in loads' : one.generation <= generation'
    BY <1>5, <1>6, <1>7 DEF Inv, TypeOK
  <2>3. \A one, other \in loads' : one.generation = other.generation => one = other
    <3>1. \A one, other \in loads : one.generation = other.generation => one = other
      BY DEF Inv, TypeOK
    <3>2. \A one \in loads \ {load} : one.generation # answered.generation
      BY <1>5, <3>1
    <3> QED
      BY <1>6, <3>1, <3>2, Zenon
  <2> QED
    <3>1. /\ active' = active /\ version' = version /\ generation' = generation
          /\ commands' = commands /\ shown' = shown /\ stream' = stream /\ errors' = errors
      BY <1>7
    <3> QED
      BY <2>1, <2>2, <2>3, <3>1, Zenon DEF Inv, TypeOK
<1>11. Coalesced'
  BY <1>5, <1>6, <1>7 DEF Inv, Coalesced
<1>12. Current'
  <2>1. \A one \in loads' : one = answered \/ one \in loads
    BY <1>6
  <2>2. \A s : Had(s)' <=> Had(s)
    BY <1>7 DEF Had
  <2>3. Ahead(answered)'
    BY <1>5, <1>7, <1>9 DEF Ahead
  <2>4. \A one \in loads : Ahead(one)'
    BY <1>7 DEF Inv, Current, Ahead
  <2> QED
    BY <1>5, <1>7, <1>8, <2>1, <2>2, <2>3, <2>4 DEF Inv, Current
<1> QED
  BY <1>10, <1>11, <1>12 DEF Inv

\* The load that is shown was the only one of its generation, so that none is
\* left that would be accepted.
LEMMA ShowKeeps ==
  ASSUME Inv, NEW load \in loads, Show(load)
  PROVE  Inv'
<1>1. loads' = loads \ {load} /\ stream' = AfterRefresh(load)
      /\ UNCHANGED <<active, version, generation, commands, errors>>
  BY DEF Show
<1>2. shown' \in load.reply /\ load.generation = generation
  BY DEF Show, Accepted
<1>3. shown' \in Snapshots /\ Had(shown')
  BY <1>2 DEF Inv, TypeOK, Loads, Current
<1>4. \A other \in loads' : other \in loads /\ other.generation # generation
  BY <1>1, <1>2 DEF Inv, TypeOK
<1>5. loads' \subseteq Loads /\ stream' \in Streams /\ Coalesced'
  BY <1>1, LoadReturns
<1>6. TypeOK'
  BY <1>1, <1>3, <1>5 DEF Inv, TypeOK
<1>7. Current'
  BY <1>1, <1>3, <1>4 DEF Inv, Current, Had, Ahead
<1> QED
  BY <1>5, <1>6, <1>7 DEF Inv

LEMMA GiveUpKeeps ==
  ASSUME Inv, NEW load \in loads, Discard(load) \/ FailLoad(load)
  PROVE  Inv'
<1>1. loads' = loads \ {load} /\ stream' = AfterRefresh(load)
      /\ UNCHANGED <<active, version, generation, commands, shown>>
  BY DEF Discard, FailLoad
<1>2. errors' \in Nat
  BY DEF Discard, FailLoad, Inv, TypeOK
<1>3. loads' \subseteq Loads /\ stream' \in Streams /\ Coalesced'
  BY <1>1, LoadReturns
<1>4. TypeOK'
  BY <1>1, <1>2, <1>3 DEF Inv, TypeOK
<1>5. Current'
  BY <1>1 DEF Inv, Current, Had, Ahead
<1> QED
  BY <1>3, <1>4, <1>5 DEF Inv

\* The refresh of a subscription that was closed is nobody's any more.
LEMMA EffectKeeps ==
  ASSUME Inv, RunEffect
  PROVE  Inv'
<1> DEFINE forgotten(load) == [load EXCEPT !.forStream = FALSE]
<1>1. loads' = {forgotten(load) : load \in loads} /\ stream' = Subscription(shown.project)
      /\ UNCHANGED <<active, version, generation, commands, shown, errors>>
  BY DEF RunEffect
<1>2. \A load \in loads : /\ forgotten(load) \in Loads
                          /\ forgotten(load).generation = load.generation
                          /\ ~ forgotten(load).forStream
                          /\ forgotten(load).reply = load.reply
  BY DEF Inv, TypeOK, Loads
<1>3. shown.project \in Optional
  BY DEF Inv, TypeOK, Snapshots
<1>4. stream' \in Streams /\ ~ stream'.timer
  BY <1>1, <1>3, SubscriptionTyped DEF Subscription
<1> HIDE DEF forgotten
<1>5. TypeOK'
  BY <1>1, <1>2, <1>4 DEF Inv, TypeOK
<1>6. Coalesced'
  BY <1>1, <1>2, <1>4 DEF Coalesced
<1>7. Current'
  <2>1. \A s : Had(s)' <=> Had(s)
    BY <1>1 DEF Had
  <2>2. ASSUME NEW load \in loads PROVE Ahead(forgotten(load))'
    BY <1>1, <1>2, <2>2 DEF Inv, Current, Ahead
  <2> QED
    BY <1>1, <1>2, <2>1, <2>2 DEF Inv, Current
<1> QED
  BY <1>5, <1>6, <1>7 DEF Inv

\* Notifications and the connection: the stream changes, nothing else of note.
LEMMA StreamKeeps ==
  ASSUME Inv, Connect \/ Disconnect \/ Schedule
  PROVE  Inv'
<1>0. stream \in Streams /\ errors \in Nat
  BY DEF Inv, TypeOK
<1>1. UNCHANGED <<active, version, generation, loads, commands, shown>> /\ errors' \in Nat
  <2>1. CASE Connect \/ Schedule
    BY <1>0, <2>1 DEF Connect, Schedule
  <2>2. CASE Disconnect
    BY <1>0, <2>2 DEF Disconnect
  <2> QED
    BY <2>1, <2>2
<1>2. /\ stream' \in Streams
      /\ stream'.refreshing = stream.refreshing
      /\ stream'.timer => stream.timer \/ ~ stream.refreshing
  <2>1. CASE Connect \/ Disconnect
    <3>1. PICK b \in BOOLEAN, n \in Nat :
            stream' = [stream EXCEPT !.connected = b, !.arriving = n]
      <4>1. CASE Connect
        <5>1. stream' = [stream EXCEPT !.connected = TRUE, !.arriving = stream.arriving]
              /\ stream.arriving \in Nat
          BY <1>0, <4>1 DEF Connect, Streams
        <5> QED
          BY <5>1
      <4>2. CASE Disconnect
        BY <4>2 DEF Disconnect
      <4> QED
        BY <2>1, <4>1, <4>2
    <3> QED
      BY <1>0, <3>1 DEF Streams
  <2>2. CASE Schedule
    <3>1. PICK p \in stream.project :
            stream' = [stream EXCEPT !.arriving = @ - 1, !.heard = version[p],
                                     !.dirty = TRUE, !.timer = @ \/ TimerWanted]
      BY <2>2 DEF Schedule
    <3>2. stream \in Streams /\ stream.arriving > 0 /\ version[p] \in Nat
      <4>1. stream.project \in Optional
        BY <1>0 DEF Streams
      <4>2. p \in Projects
        BY <3>1, <4>1 DEF Optional
      <4> QED
        BY <1>0, <2>2, <4>2 DEF Schedule, Inv, TypeOK
    <3>3. (stream.timer \/ TimerWanted) \in BOOLEAN
      BY <3>2 DEF Streams, TimerWanted
    <3>4. (stream.timer \/ TimerWanted) => stream.timer \/ ~ stream.refreshing
      BY DEF TimerWanted
    <3>5. stream.arriving - 1 \in Nat
      BY <3>2 DEF Streams
    <3> QED
      BY <3>1, <3>2, <3>3, <3>4, <3>5 DEF Streams
  <2> QED
    BY <2>1, <2>2
<1>3. TypeOK'
  BY <1>1, <1>2 DEF Inv, TypeOK
<1>4. Coalesced'
  BY <1>1, <1>2 DEF Inv, Coalesced
<1>5. Current'
  BY <1>1 DEF Inv, Current, Had, Ahead
<1> QED
  BY <1>3, <1>4, <1>5 DEF Inv

\* While a timer runs there is no refresh, so its own is the only one.
LEMMA FireKeeps ==
  ASSUME Inv, Fire
  PROVE  Inv'
<1>1. /\ stream.timer
      /\ stream' = [stream EXCEPT !.timer = FALSE, !.dirty = FALSE, !.refreshing = TRUE]
      /\ StartLoad(stream.project, TRUE)
      /\ UNCHANGED <<active, version, commands, shown, errors>>
  BY DEF Fire
<1>2. stream \in Streams /\ stream.project \in Optional
  BY DEF Inv, TypeOK, Streams
<1>3. stream' \in Streams /\ ~ stream'.timer /\ stream'.refreshing
  BY <1>1, <1>2 DEF Streams
<1>4. \A load \in loads : ~ load.forStream
  BY <1>1 DEF Inv, Coalesced
<1>5. TypeOK'
  BY <1>1, <1>2, <1>3, StartLoadKeeps DEF Inv, TypeOK
<1>6. Coalesced'
  BY <1>1, <1>2, <1>3, <1>4, StartLoadKeeps DEF Coalesced
<1>7. Current'
  BY <1>1, <1>2, StartLoadCurrent
<1> QED
  BY <1>5, <1>6, <1>7 DEF Inv

LEMMA ReturnKeeps ==
  ASSUME Inv, NEW c \in DOMAIN commands, Return(c)
  PROVE  Inv'
<1>1. /\ commands' = [commands EXCEPT ![c].stage = "over"]
      /\ StartLoad({commands[c].project}, FALSE)
      /\ UNCHANGED <<active, version, shown, stream, errors>>
  BY DEF Return
<1>2. commands' \in Seq(Commands) /\ commands[c] \in Commands
  BY <1>1, CommandTyped DEF Inv, TypeOK
<1>3. {commands[c].project} \in Optional
  BY <1>2 DEF Commands, Optional
<1>4. TypeOK'
  BY <1>1, <1>2, <1>3, StartLoadKeeps DEF Inv, TypeOK
<1>5. ~ NewLoad(generation', {commands[c].project}, FALSE).forStream
  BY DEF NewLoad
<1>6. Coalesced'
  BY <1>1, <1>3, <1>5, StartLoadKeeps DEF Inv, Coalesced
<1>7. Current'
  BY <1>1, <1>3, StartLoadCurrent
<1> QED
  BY <1>4, <1>6, <1>7 DEF Inv

\* Commands on their way, and the changes they and others make.
LEMMA ChangeKeeps ==
  ASSUME Inv,
         \/ \E kind \in {"switch", "change"}, p \in Projects : Issue(kind, p)
         \/ \E c \in DOMAIN commands : Handle(c) \/ FailCommand(c)
         \/ \E p \in Projects : Change(p)
  PROVE  Inv'
<1> DEFINE Goal ==
      /\ active' \in Projects
      /\ version' \in [Projects -> Nat] /\ \A p \in Projects : version'[p] >= version[p]
      /\ commands' \in Seq(Commands)
      /\ stream' \in Streams
      /\ stream'.timer = stream.timer /\ stream'.refreshing = stream.refreshing
      /\ errors' \in Nat
      /\ UNCHANGED <<generation, loads, shown>>
<1>1. stream \in Streams /\ \A p \in Projects : version[p] >= version[p]
  BY DEF Inv, TypeOK
<1>2. ASSUME NEW kind \in {"switch", "change"}, NEW p \in Projects, Issue(kind, p)
      PROVE  Goal
  <2>1. [kind |-> kind, project |-> p, stage |-> "sent"] \in Commands
    BY DEF Commands
  <2>2. commands' \in Seq(Commands)
    BY <1>2, <2>1, AppendProperties DEF Issue, Inv, TypeOK
  <2> QED
    BY <1>1, <1>2, <2>2 DEF Issue, Inv, TypeOK
<1>3. ASSUME NEW c \in DOMAIN commands, Handle(c)
      PROVE  Goal
  <2>1. commands' \in Seq(Commands) /\ commands[c] \in Commands
    BY <1>3, CommandTyped DEF Handle, Inv, TypeOK
  <2>2. commands[c].project \in Projects
    BY <2>1 DEF Commands
  <2>3. /\ generation' = generation /\ loads' = loads /\ shown' = shown /\ errors' = errors
        /\ \/ active' = commands[c].project /\ UNCHANGED <<version, stream>>
           \/ /\ version' = [version EXCEPT ![commands[c].project] = @ + 1]
              /\ stream' \in {stream, Notified(commands[c].project)}
              /\ UNCHANGED active
    BY <1>3 DEF Handle
  <2> QED
    BY <1>1, <2>1, <2>2, <2>3, VersionRaised, NotifiedTyped DEF Inv, TypeOK
<1>4. ASSUME NEW c \in DOMAIN commands, FailCommand(c)
      PROVE  Goal
  <2>1. commands' \in Seq(Commands)
    BY <1>4, CommandTyped DEF FailCommand, Inv, TypeOK
  <2> QED
    BY <1>1, <1>4, <2>1 DEF FailCommand, Inv, TypeOK
<1>5. ASSUME NEW p \in Projects, Change(p)
      PROVE  Goal
  BY <1>1, <1>5, VersionRaised, NotifiedTyped DEF Change, Inv, TypeOK
<1>6. Goal
  BY <1>2, <1>3, <1>4, <1>5
<1>7. TypeOK'
  BY <1>6 DEF Inv, TypeOK
<1>8. Coalesced'
  BY <1>6 DEF Inv, Coalesced
<1>9. Current'
  BY <1>6, VersionsGrow
<1> QED
  BY <1>7, <1>8, <1>9 DEF Inv

LEMMA InvStep == Inv /\ [Next]_vars => Inv'
<1> SUFFICES ASSUME Inv, [Next]_vars PROVE Inv'
  OBVIOUS
<1>1. CASE UNCHANGED vars
  BY <1>1 DEF vars, Inv, TypeOK, Coalesced, Current, Had, Ahead
<1>2. CASE Next
  BY <1>2, ReplyKeeps, ShowKeeps, GiveUpKeeps, EffectKeeps, StreamKeeps, FireKeeps,
     ReturnKeeps, ChangeKeeps DEF Next
<1> QED
  BY <1>1, <1>2

-----------------------------------------------------------------------------
(***************************************************************************)
(* The theorems.                                                           *)
(***************************************************************************)
LEMMA Invariance == Spec => []Inv
BY InvInit, InvStep, PTL DEF Spec

\* Every variable of the console keeps its shape, and no two loads share a
\* generation (load).
THEOREM ConsoleTyped == Spec => []TypeOK
<1>1. Inv => TypeOK
  BY DEF Inv
<1> QED
  BY Invariance, <1>1, PTL

\* subscribe: however events, timers and answers interleave, a subscription has
\* at most one download under way.
THEOREM RefreshesOne == Spec => []OneEventRefresh
<1>1. Inv => OneEventRefresh
  <2> SUFFICES ASSUME Inv PROVE OneEventRefresh
    OBVIOUS
  <2> DEFINE S == {load \in loads : load.forStream}
  <2>1. CASE S = {}
    BY <2>1, FS_EmptySet DEF OneEventRefresh
  <2>2. ASSUME NEW load \in S PROVE OneEventRefresh
    <3>1. S = {load}
      BY <2>2 DEF Inv, Coalesced
    <3>2. Cardinality(S) = 1
      BY <3>1, FS_Singleton
    <3> QED
      BY <3>2 DEF OneEventRefresh
  <2> QED
    BY <2>1, <2>2
<1> QED
  BY Invariance, <1>1, PTL

\* load: however loads overtake each other, the version on screen of one project
\* does not decrease.
THEOREM ScreenForward == Spec => NeverBackwards
<1>1. Inv /\ [Next]_vars => [shown'.project = shown.project => shown'.version >= shown.version]_vars
  <2> SUFFICES ASSUME Inv, Next, shown'.project = shown.project
               PROVE  shown'.version >= shown.version
    OBVIOUS
  <2>1. CASE shown' = shown
    BY <2>1 DEF Inv, TypeOK, Snapshots
  <2>2. CASE shown' # shown
    <3>1. PICK load \in loads : Show(load)
      BY <2>2 DEF Next, Reply, Discard, FailLoad, RunEffect, Connect, Disconnect, Schedule,
                  Fire, Issue, Handle, Return, FailCommand, Change
    <3> QED
      BY <3>1 DEF Show, Accepted, Inv, Current, Ahead
  <2> QED
    BY <2>1, <2>2
<1> QED
  BY Invariance, <1>1, PTL DEF Spec, NeverBackwards
=============================================================================
