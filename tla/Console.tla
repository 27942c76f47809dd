------------------------------ MODULE Console -------------------------------
(***************************************************************************)
(* The operator's console: WorkspaceClient and the useProjectWorkspace     *)
(* hook that owns it.  A snapshot load takes a new generation, aborts the  *)
(* load before it and is applied only while its generation is the latest.  *)
(* Notifications of the displayed project are coalesced by a timer into    *)
(* one refresh at a time.  Commands are posted to the API and followed by  *)
(* a load of the project they were about.                                  *)
(*                                                                         *)
(* Of the API only what the console can tell apart is kept: which project  *)
(* is active, and a version per project that grows with every change.  The *)
(* console is open throughout; its unmounting only discards everything.    *)
(***************************************************************************)
EXTENDS Naturals, Sequences, FiniteSets

CONSTANTS
  Projects,      \* projects the API knows
  FirstProject,  \* the active project when the console opens
  MaxVersion,    \* bound: changes to a project
  MaxCommands,   \* bound: commands the operator issues
  MaxErrors      \* bound: requests that fail and event streams that drop

ASSUME ConsoleAssumption ==
  /\ FirstProject \in Projects
  /\ MaxVersion \in Nat
  /\ MaxCommands \in Nat
  /\ MaxErrors \in Nat

VARIABLES
  active,      \* API: the active project
  version,     \* API: version[p] counts the changes of project p
  generation,  \* WorkspaceClient.generation
  loads,       \* the calls of load that have not returned
  commands,    \* the commands issued so far
  shown,       \* the dashboard on screen: a project and its version
  stream,      \* the event subscription of the hook
  errors       \* failures so far

vars == <<active, version, generation, loads, commands, shown, stream, errors>>

-----------------------------------------------------------------------------
\* A project that may be absent: no dashboard yet, or "whichever is active".
Optional == {{}} \cup {{p} : p \in Projects}

Snapshots == [project : Optional, version : Nat]

\* reply is empty until the API has answered.
Loads == [generation : Nat, project : Optional, forStream : BOOLEAN,
          reply : SUBSET Snapshots]

Commands == [kind : {"switch", "change"}, project : Projects,
             stage : {"sent", "handled", "over"}]

Streams == [project : Optional, connected : BOOLEAN, arriving : Nat, heard : Nat,
            timer : BOOLEAN, refreshing : BOOLEAN, dirty : BOOLEAN]

Subscription(project) ==
  [project |-> project, connected |-> FALSE, arriving |-> 0, heard |-> 0,
   timer |-> FALSE, refreshing |-> FALSE, dirty |-> FALSE]

NewLoad(number, project, forStream) ==
  [generation |-> number, project |-> project, forStream |-> forStream, reply |-> {}]

SlipNextGeneration == generation

NextGeneration == generation + 1

SlipAccepted(load) == TRUE

\* The generation guard of load.
Accepted(load) == load.generation = generation

SlipTimerWanted == ~stream.timer

\* schedule sets a timer unless one runs or a refresh is under way.
TimerWanted == ~stream.timer /\ ~stream.refreshing

SlipAfterRefresh(load) ==
  IF load.forStream THEN [stream EXCEPT !.refreshing = FALSE] ELSE stream

\* The refresh of the stream is over; what arrived meanwhile asks for another.
AfterRefresh(load) ==
  IF load.forStream
  THEN [stream EXCEPT !.refreshing = FALSE, !.timer = stream.dirty]
  ELSE stream

\* The API notifies the subscription of p, if one is connected.
Notified(p) ==
  IF stream.connected /\ stream.project = {p}
  THEN [stream EXCEPT !.arriving = @ + 1] ELSE stream

-----------------------------------------------------------------------------
\* The hook's first effect has called refresh() with no project.
Init ==
  /\ active = FirstProject
  /\ version = [p \in Projects |-> 0]
  /\ generation = 1
  /\ loads = {NewLoad(1, {}, FALSE)}
  /\ commands = <<>>
  /\ shown = [project |-> {}, version |-> 0]
  /\ stream = Subscription({})
  /\ errors = 0

(***************************************************************************)
(* load.  StartLoad takes the next generation, which aborts and supersedes *)
(* the load before it.                                                     *)
(***************************************************************************)
StartLoad(project, forStream) ==
  /\ generation' = NextGeneration
  /\ loads' = loads \cup {NewLoad(NextGeneration, project, forStream)}

\* GET /api/dashboard answers with the project as it is at that moment.
Reply(load) ==
  /\ load.reply = {}
  /\ \E p \in IF load.project = {} THEN {active} ELSE load.project :
       loads' = (loads \ {load}) \cup
                {[load EXCEPT !.reply = {[project |-> {p}, version |-> version[p]]}]}
  /\ UNCHANGED <<active, version, generation, commands, shown, stream, errors>>

\* load resolves with a snapshot, and refresh puts it on screen.
Show(load) ==
  /\ Accepted(load)
  /\ shown' \in load.reply
  /\ loads' = loads \ {load}
  /\ stream' = AfterRefresh(load)
  /\ UNCHANGED <<active, version, generation, commands, errors>>

\* load resolves with undefined: it was aborted, or answered too late.
Discard(load) ==
  /\ ~Accepted(load)
  /\ loads' = loads \ {load}
  /\ stream' = AfterRefresh(load)
  /\ UNCHANGED <<active, version, generation, commands, shown, errors>>

\* A request of the latest load fails: refresh keeps the dashboard it has.
FailLoad(load) ==
  /\ Accepted(load)
  /\ errors < MaxErrors
  /\ errors' = errors + 1
  /\ loads' = loads \ {load}
  /\ stream' = AfterRefresh(load)
  /\ UNCHANGED <<active, version, generation, commands, shown>>

(***************************************************************************)
(* subscribe.  The effect runs some time after a render that displays      *)
(* another project: it closes the old subscription, whose refresh nobody   *)
(* waits for any more, and opens one for the new project.                  *)
(***************************************************************************)
RunEffect ==
  /\ stream.project # shown.project
  /\ stream' = Subscription(shown.project)
  /\ loads' = {[load EXCEPT !.forStream = FALSE] : load \in loads}
  /\ UNCHANGED <<active, version, generation, commands, shown, errors>>

\* GET /api/runs/:runId/events registers the subscription with the event bus.
Connect ==
  /\ stream.project # {}
  /\ ~stream.connected
  /\ stream' = [stream EXCEPT !.connected = TRUE]
  /\ UNCHANGED <<active, version, generation, loads, commands, shown, errors>>

\* The connection breaks; the browser will open another one.
Disconnect ==
  /\ stream.connected
  /\ errors < MaxErrors
  /\ errors' = errors + 1
  /\ stream' = [stream EXCEPT !.connected = FALSE, !.arriving = 0]
  /\ UNCHANGED <<active, version, generation, loads, commands, shown>>

\* An event arrives: schedule.  heard is what the project was by then.
Schedule ==
  /\ stream.arriving > 0
  /\ \E p \in stream.project :
       stream' = [stream EXCEPT !.arriving = @ - 1, !.heard = version[p],
                                !.dirty = TRUE, !.timer = @ \/ TimerWanted]
  /\ UNCHANGED <<active, version, generation, loads, commands, shown, errors>>

\* The timer fires: one refresh of the displayed project.
Fire ==
  /\ stream.timer
  /\ stream' = [stream EXCEPT !.timer = FALSE, !.dirty = FALSE, !.refreshing = TRUE]
  /\ StartLoad(stream.project, TRUE)
  /\ UNCHANGED <<active, version, commands, shown, errors>>

(***************************************************************************)
(* execute.  A switch names a project; every other command is about the    *)
(* project on screen, at the time it is issued and when it is over.        *)
(***************************************************************************)
Issue(kind, p) ==
  /\ Len(commands) < MaxCommands
  /\ shown.project # {}
  /\ kind = "change" => shown.project = {p}
  /\ commands' = Append(commands, [kind |-> kind, project |-> p, stage |-> "sent"])
  /\ UNCHANGED <<active, version, generation, loads, shown, stream, errors>>

\* The API handles the command; scope rules change without a notification.
Handle(c) ==
  LET p == commands[c].project
  IN  /\ commands[c].stage = "sent"
      /\ commands' = [commands EXCEPT ![c].stage = "handled"]
      /\ \/ /\ commands[c].kind = "switch"
            /\ active' = p
            /\ UNCHANGED <<version, stream>>
         \/ /\ commands[c].kind = "change"
            /\ version' = [version EXCEPT ![p] = @ + 1]
            /\ stream' \in {stream, Notified(p)}
            /\ UNCHANGED active
      /\ UNCHANGED <<generation, loads, shown, errors>>

\* The answer arrives and execute goes on to refresh.
Return(c) ==
  /\ commands[c].stage = "handled"
  /\ commands' = [commands EXCEPT ![c].stage = "over"]
  /\ StartLoad({commands[c].project}, FALSE)
  /\ UNCHANGED <<active, version, shown, stream, errors>>

\* The request, or its answer, is lost: execute throws and does not refresh.
FailCommand(c) ==
  /\ commands[c].stage # "over"
  /\ errors < MaxErrors
  /\ errors' = errors + 1
  /\ commands' = [commands EXCEPT ![c].stage = "over"]
  /\ UNCHANGED <<active, version, generation, loads, shown, stream>>

\* A specialist, or another console, changes the project and the API says so.
Change(p) ==
  /\ version[p] < MaxVersion
  /\ version' = [version EXCEPT ![p] = @ + 1]
  /\ stream' = Notified(p)
  /\ UNCHANGED <<active, generation, loads, commands, shown, errors>>

Next ==
  \/ \E load \in loads : Reply(load)
  \/ \E load \in loads : Show(load)
  \/ \E load \in loads : Discard(load)
  \/ \E load \in loads : FailLoad(load)
  \/ RunEffect
  \/ Connect
  \/ Disconnect
  \/ Schedule
  \/ Fire
  \/ \E kind \in {"switch", "change"}, p \in Projects : Issue(kind, p)
  \/ \E c \in DOMAIN commands : Handle(c)
  \/ \E c \in DOMAIN commands : Return(c)
  \/ \E c \in DOMAIN commands : FailCommand(c)
  \/ \E p \in Projects : Change(p)

Spec == Init /\ [][Next]_vars

\* Requests are answered, and the browser runs effects, events and timers.
Respond == \E load \in loads : Reply(load) \/ Show(load) \/ Discard(load)

Fairness == WF_vars(Respond) /\ WF_vars(RunEffect) /\ WF_vars(Schedule) /\ WF_vars(Fire)

FairSpec == Spec /\ Fairness
-----------------------------------------------------------------------------
(***************************************************************************)
(* Properties.                                                             *)
(***************************************************************************)

\* Every variable keeps its shape, and generation numbers the loads apart.
TypeOK ==
  /\ active \in Projects
  /\ version \in [Projects -> Nat]
  /\ generation \in Nat
  /\ loads \subseteq Loads
  /\ \A load \in loads : load.generation <= generation
  /\ \A one, other \in loads : one.generation = other.generation => one = other
  /\ commands \in Seq(Commands)
  /\ shown \in Snapshots
  /\ stream \in Streams
  /\ errors \in Nat

\* "one event-driven refresh at a time" (docs/operations.md): a burst of events
\* never has the subscription download the dashboard twice at once (subscribe).
OneEventRefresh == Cardinality({load \in loads : load.forStream}) <= 1

\* A late answer never takes the screen back in time: the version displayed for
\* a project does not decrease, however loads overtake each other (load).
NeverBackwards ==
  [][shown'.project = shown.project => shown'.version >= shown.version]_vars

Displays(p, v) == shown.project = {p} /\ shown.version >= v

\* "Bound both event bursts and slow responses without dropping the final
\* update" (workspace-client.ts): what the project was when a notification came
\* in is displayed in the end, unless something failed or another project has
\* taken the screen (subscribe and load).
FinalUpdateShown ==
  \A p \in Projects, v \in 1..(MaxVersion + MaxCommands) :
    (stream.project = {p} /\ stream.heard = v) ~>
      (Displays(p, v) \/ stream.project # {p} \/ errors > 0)
=============================================================================
