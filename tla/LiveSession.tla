----------------------------- MODULE LiveSession ----------------------------
(***************************************************************************)
(* Live mode of the design skill: the page's overlay (live-browser.js)     *)
(* posts events to the helper (live-server.mjs), which journals and queues *)
(* them; agents poll, lease, work and reply (live-poll.mjs).  Requests of  *)
(* the page overtake each other, leases run out, agents vanish, the helper *)
(* restarts from its journal and the page reloads.  What the helper sends  *)
(* to the page arrives in the step that sends it.                          *)
(***************************************************************************)
EXTENDS LiveJournal, Naturals, Sequences, FiniteSets, SequencesExt

CONSTANTS
  Sessions,      \* ids the page draws at Go, each once
  Foreign,       \* ids of another project left in the page's storage
  Agents,        \* processes that poll
  NoSession,     \* stands for an absent id
  MaxFaults      \* bound: agents that vanish, restarts of the helper and
                 \* previews that do not mount, altogether

EventSet == [id : Sessions, type : Types, prepared : BOOLEAN]

ASSUME LiveAssumption ==
  /\ IsFiniteSet(Sessions) /\ Foreign \subseteq Sessions
  /\ NoSession \notin Sessions
  /\ Nothing \notin Types /\ Nothing \notin EventSet
  /\ MaxFaults \in Nat

VARIABLES
  view,        \* the overlay's state
  current,     \* currentSessionId
  awaiting,    \* awaitingAcceptResult
  gate,        \* the creation the overlay's later requests wait for
  capturing,   \* annotated sessions whose screenshot is under way
  linked,      \* the page has this helper's token
  abandoned,   \* sessions the page gave up as another project's
  unused,      \* ids not drawn yet
  requests,    \* of the page, on their way to the helper
  written,     \* sessions whose variants are in the source
  journal,     \* the snapshot of each session's journal
  queue,       \* pendingEvents
  parked,      \* pendingPolls: agents whose poll waits
  agent,       \* what each agent holds
  faults

page == <<view, current, awaiting, gate, capturing, linked, abandoned, unused>>
helper == <<journal, queue, parked>>
vars == <<page, requests, written, helper, agent, faults>>

Views == {"picking", "generating", "cycling", "saving"}
Request(id, type) ==
  [id |-> id, type |-> type, after |-> IF type = "generate" THEN NoSession ELSE gate]

Idle == [at |-> "idle", id |-> NoSession, type |-> Nothing, valid |-> FALSE]
Holding == {"scaffolding", "working", "finishing"}

Init ==
  /\ \E s \in Foreign \cup {NoSession} :
       /\ current = s
       /\ view = IF s = NoSession THEN "picking" ELSE "generating"
       /\ requests = IF s = NoSession THEN {}
                     ELSE {[id |-> s, type |-> "checkpoint", after |-> NoSession]}
  /\ awaiting = NoSession /\ gate = NoSession
  /\ capturing = {} /\ linked = TRUE /\ abandoned = {}
  /\ unused = Sessions \ Foreign
  /\ written = {}
  /\ journal = [s \in Sessions |-> BaseSnapshot]
  /\ queue = << >> /\ parked = << >>
  /\ agent = [a \in Agents |-> Idle]
  /\ faults = 0

-----------------------------------------------------------------------------
(* The queue of the helper. *)

Entry(event) == [event |-> event, leased |-> FALSE]
Key(entry) == <<entry.event.id, entry.event.type>>
IsQueued(q, id, type) == \E i \in DOMAIN q : q[i].event.id = id /\ q[i].event.type = type

Enqueued(q, event) ==
  IF IsQueued(q, event.id, event.type) THEN q ELSE Append(q, Entry(event))

Priority(type) == CASE type \in Answers -> 0 [] type = "generate" -> 2 [] OTHER -> 3

(* Slip...: as in Orchestrator, a mistake that could be made at that place. *)
SlipAvailable(q) ==
  {i \in DOMAIN q : ~q[i].leased \/ (q[i].event.type = "generate" /\ ~q[i].event.prepared)}

Available(q) == {i \in DOMAIN q : ~q[i].leased}
Before(q, i, j) ==
  LET pi == Priority(q[i].event.type)
      pj == Priority(q[j].event.type)
  IN  pi < pj \/ (pi = pj /\ i < j)
Rank(q, i) == 1 + Cardinality({j \in Available(q) : Before(q, j, i)})

Leased(event) ==
  [at |-> IF event.type = "generate" /\ ~event.prepared THEN "scaffolding" ELSE "working",
   id |-> event.id, type |-> event.type, valid |-> TRUE]

(* Polls take the available events of q in the order of their ranks, one
   each; leaseEvent claims an entry before it answers. *)
Serve(q, polls, agents, others) ==
  LET taken == {i \in Available(q) : Rank(q, i) <= Len(polls)}
      Share(a) == {i \in taken : polls[Rank(q, i)] = a}
  IN  /\ queue' = [i \in DOMAIN q |-> IF i \in taken THEN [q[i] EXCEPT !.leased = TRUE] ELSE q[i]]
      /\ agent' = [a \in Agents |->
                     IF Share(a) = {} THEN agents[a]
                     ELSE Leased(q[CHOOSE i \in Share(a) : TRUE].event)]
      /\ parked' = SubSeq(polls, Cardinality(taken) + 1, Len(polls)) \o others

Flush(q, agents) == Serve(q, parked, agents, << >>)

-----------------------------------------------------------------------------
(* The page. *)

Show(state, id) == view' = state /\ current' = id
Release == Show("picking", NoSession)

(* handleGo: the progress request leaves before the one that creates the
   session, which an annotation delays until its screenshot is uploaded. *)
Go(s, annotated) ==
  /\ view = "picking" /\ s \in unused
  /\ Show("generating", s)
  /\ awaiting' = NoSession
  /\ unused' = unused \ {s}
  /\ IF annotated
     THEN /\ capturing' = capturing \cup {s}
          /\ requests' = requests \cup {Request(s, "checkpoint")}
          /\ UNCHANGED gate
     ELSE /\ requests' = requests \cup {Request(s, "checkpoint"), Request(s, "generate")}
          /\ gate' = s
          /\ UNCHANGED capturing
  /\ UNCHANGED <<linked, abandoned, written, helper, agent, faults>>

Captured(s) ==
  /\ s \in capturing
  /\ capturing' = capturing \ {s}
  /\ requests' = requests \cup {Request(s, "generate")}
  /\ gate' = s
  /\ UNCHANGED <<view, current, awaiting, linked, abandoned, unused,
                 written, helper, agent, faults>>

(* The observer of the variants, which looks at no state of the overlay. *)
VariantsArrive ==
  /\ current \in written /\ view \in {"generating", "picking"}
  /\ view' = "cycling"
  /\ requests' = requests \cup {Request(current, "checkpoint")}
  /\ UNCHANGED <<current, awaiting, gate, capturing, linked, abandoned, unused,
                 written, helper, agent, faults>>

SlipAnswer(type) ==
  /\ view' = IF type = "accept" THEN "saving" ELSE view
  /\ requests' = requests \cup {Request(current, type)}
  /\ UNCHANGED <<current, awaiting, gate, capturing, linked, abandoned, unused,
                 written, helper, agent, faults>>

Answer(type) ==
  /\ view = "cycling"
  /\ view' = IF type = "accept" THEN "saving" ELSE view
  /\ requests' = requests \cup {Request(current, type)}
  /\ UNCHANGED <<current, awaiting, gate, capturing, linked, abandoned, unused,
                 written, helper, agent, faults>>

MountFails ==
  /\ current \in written /\ view \in {"generating", "cycling"}
  /\ faults < MaxFaults
  /\ faults' = faults + 1
  /\ requests' = requests \cup {Request(current, "variant_mount_failed")}
  /\ UNCHANGED <<page, written, helper, agent>>

(* What is in flight is lost with the page's context; the storage and the
   wrapper in the source decide what the new one shows. *)
Reload ==
  /\ IF current = NoSession \/ (view = "saving" /\ current \notin written)
     THEN Release /\ requests' = {}
     ELSE LET shown == IF current \in written THEN "cycling" ELSE "generating"
              orphan == view = "cycling" /\ current \notin written
          IN  /\ IF orphan THEN Release ELSE Show(shown, current)
              /\ requests' = {[id |-> current, after |-> NoSession,
                               type |-> IF orphan THEN "orphaned" ELSE "checkpoint"]}
  /\ awaiting' = NoSession /\ gate' = NoSession
  /\ capturing' = {} /\ linked' = TRUE
  /\ UNCHANGED <<abandoned, unused, written, helper, agent, faults>>

(* What a reply does to the page that the helper broadcasts it to. *)
Broadcast(id, reply) ==
  LET saving == view = "saving" /\ current = id
      merged == reply \in {"complete", "carbonize"}
  IN  CASE ~linked -> UNCHANGED <<view, current, awaiting>>
        [] linked /\ merged ->
             /\ awaiting' = IF awaiting = id THEN NoSession ELSE awaiting
             /\ IF saving THEN Release ELSE UNCHANGED <<view, current>>
        [] linked /\ reply = "discarded" ->
             /\ IF current = id THEN Release ELSE UNCHANGED <<view, current>>
             /\ UNCHANGED awaiting
        [] linked /\ reply = "error" ->
             /\ awaiting' = IF saving \/ awaiting = id THEN NoSession ELSE awaiting
             /\ IF saving THEN Show("cycling", id)
                ELSE IF awaiting = id THEN UNCHANGED <<view, current>>
                ELSE Show("picking", IF current = id THEN NoSession ELSE current)
        [] linked /\ reply = "done" -> UNCHANGED <<view, current, awaiting>>

-----------------------------------------------------------------------------
(* The helper's handlers of the page's requests. *)

Known(s) == journal[s].phase # "new"

(* A request waits for the creation before it; a creation that is settled
   opens the gate for those behind it. *)
Delivered(m) ==
  LET Opened(id) == IF m.type = "generate" /\ id = m.id THEN NoSession ELSE id
  IN  /\ m \in requests
      /\ m.after = NoSession
      /\ requests' = {[r EXCEPT !.after = Opened(@)] : r \in requests \ {m}}
      /\ gate' = Opened(gate)

(* The page lost the helper's token, or names a session unknown to it. *)
Refused(m) ==
  /\ Delivered(m)
  /\ ~linked \/ (m.type # "generate" /\ ~Known(m.id))
  /\ LET foreign == linked /\ m.type = "checkpoint" /\ current = m.id
         failed == m.type = "accept" /\ view = "saving" /\ current = m.id
     IN  /\ abandoned' = IF foreign THEN abandoned \cup {m.id} ELSE abandoned
         /\ CASE foreign -> Release
              [] failed -> Show("cycling", current)
              [] OTHER -> UNCHANGED <<view, current>>
  /\ UNCHANGED <<awaiting, capturing, linked, unused, written,
                 helper, agent, faults>>

Checkpoint(m) ==
  /\ Delivered(m)
  /\ linked /\ m.type = "checkpoint" /\ Known(m.id)
  /\ journal' = [journal EXCEPT ![m.id] = Posted(@, Event(m.id, "checkpoint"))]
  /\ UNCHANGED <<view, current, awaiting, capturing, linked, abandoned, unused,
                 written, queue, parked, agent, faults>>

SlipUnretired(q, id) == q

(* The loop of retirePendingGeneration, which finds at most one entry
   because enqueueEvent drops the duplicates. *)
Unretired(q, id) ==
  IF IsQueued(q, id, "generate")
  THEN RemoveAt(q, CHOOSE i \in DOMAIN q : Key(q[i]) = <<id, "generate">>)
  ELSE q

(* The overlay's continuation of a confirmed accept or discard. *)
Confirmed(m) ==
  CASE m.type = "discard" -> Release /\ UNCHANGED awaiting
    [] m.type = "accept" /\ view = "saving" /\ current = m.id -> Release /\ awaiting' = m.id
    [] OTHER -> UNCHANGED <<view, current, awaiting>>

PostEvent(m) ==
  /\ Delivered(m)
  /\ linked /\ m.type \in Types
  /\ m.type = "generate" \/ Known(m.id)
  /\ LET event == Event(m.id, m.type)
         kept == IF m.type \in Answers THEN Unretired(queue, m.id) ELSE queue
     IN  /\ journal' = [journal EXCEPT ![m.id] = Posted(@, event)]
         /\ Flush(Enqueued(kept, event), agent)
  /\ Confirmed(m)
  /\ UNCHANGED <<capturing, linked, abandoned, unused, written, faults>>

OrphanedDiscard(m) ==
  /\ Delivered(m)
  /\ linked /\ m.type = "orphaned" /\ Known(m.id)
  /\ journal' = [journal EXCEPT ![m.id] =
                   Replied(Posted(@, Event(m.id, "discard")), "discarded", Nothing)]
  /\ queue' = Unretired(queue, m.id)
  /\ UNCHANGED <<view, current, awaiting, capturing, linked, abandoned, unused,
                 written, parked, agent, faults>>

-----------------------------------------------------------------------------
(* Polls, leases and replies. *)

Poll(a) ==
  /\ agent[a].at = "idle"
  /\ IF Available(queue) # {} THEN Serve(queue, <<a>>, agent, parked)
     ELSE /\ parked' = Append(parked, a)
          /\ agent' = [agent EXCEPT ![a].at = "parked"]
          /\ UNCHANGED queue
  /\ UNCHANGED <<page, requests, written, journal, faults>>

PollTimesOut(a) ==
  /\ \E i \in DOMAIN parked : parked[i] = a /\ parked' = RemoveAt(parked, i)
  /\ agent' = [agent EXCEPT ![a] = Idle]
  /\ UNCHANGED <<page, requests, written, journal, queue, faults>>

(* The second half of leaseEvent, after the preflight: the entry may have
   left the queue by then, the journal gets the event all the same. *)
Scaffolded(a) ==
  LET event == [Event(agent[a].id, "generate") EXCEPT !.prepared = TRUE]
  IN  /\ agent[a].at = "scaffolding"
      /\ agent' = [agent EXCEPT ![a].at = "working"]
      /\ queue' = [i \in DOMAIN queue |->
                     IF Key(queue[i]) = Key(Entry(event)) THEN [queue[i] EXCEPT !.event = event]
                     ELSE queue[i]]
      /\ journal' = [journal EXCEPT ![event.id] = Posted(@, event)]
      /\ UNCHANGED <<page, requests, written, parked, faults>>

HeldBy(a, i) == agent[a].at \in Holding /\ <<agent[a].id, agent[a].type>> = Key(queue[i])

(* The lease on an event that its agents had. *)
Revoked(id, type) ==
  [a \in Agents |-> [agent[a] EXCEPT !.valid = @ /\ <<agent[a].id, agent[a].type>> # <<id, type>>]]
RevokedFor(i) == Revoked(queue[i].event.id, queue[i].event.type)

SlipLeaseExpires(i) ==
  /\ i \in DOMAIN queue /\ queue[i].leased
  /\ ~ \E a \in Agents : HeldBy(a, i) /\ agent[a].at = "scaffolding"
  /\ queue' = [queue EXCEPT ![i].leased = FALSE]
  /\ agent' = RevokedFor(i)
  /\ UNCHANGED <<page, requests, written, journal, parked, faults>>

(* A preflight ends before a lease does. *)
LeaseExpires(i) ==
  /\ i \in DOMAIN queue /\ queue[i].leased
  /\ ~ \E a \in Agents : HeldBy(a, i) /\ agent[a].at = "scaffolding"
  /\ Flush([queue EXCEPT ![i].leased = FALSE], RevokedFor(i))
  /\ UNCHANGED <<page, requests, written, journal, faults>>

WriteVariants(a) ==
  /\ agent[a].at = "working" /\ agent[a].type = "generate"
  /\ written' = written \cup {agent[a].id}
  /\ UNCHANGED <<page, requests, helper, agent, faults>>

FirstLeased(id) ==
  CHOOSE i \in DOMAIN queue :
    /\ queue[i].event.id = id /\ queue[i].leased
    /\ \A j \in 1..(i - 1) : ~(queue[j].event.id = id /\ queue[j].leased)

SlipWildcard(id, reply) ==
  CASE reply = "discarded" -> "discard"
    [] reply \in {"complete", "error"} -> Nothing
    [] reply \in {"done", "carbonize"} -> "generate"

SlipInferred(id, reply) ==
  CASE reply = "discarded" -> "discard"
    [] reply = "complete" -> IF IsQueued(queue, id, "accept") THEN "accept" ELSE Nothing
    [] reply = "error" ->
         IF \E i \in DOMAIN queue : queue[i].event.id = id /\ queue[i].leased
         THEN queue[FirstLeased(id)].event.type ELSE "generate"
    [] reply \in {"done", "carbonize"} -> "generate"

(* inferSourceEventType; Nothing matches every event of the session. *)
Inferred(id, reply) ==
  LET Has(type) == IsQueued(queue, id, type)
  IN  CASE reply = "discarded" -> "discard"
        [] reply = "complete" ->
             IF Has("accept") THEN "accept" ELSE IF Has("generate") THEN "generate" ELSE Nothing
        [] reply \in {"done", "carbonize"} ->
             IF ~Has("generate") /\ Has("variant_mount_failed") THEN "variant_mount_failed"
             ELSE "generate"
        [] reply = "error" ->
             IF \E i \in DOMAIN queue : queue[i].event.id = id /\ queue[i].leased
             THEN queue[FirstLeased(id)].event.type ELSE "generate"

(* acknowledgePendingEvent *)
Matching(id, source) ==
  {i \in DOMAIN queue : queue[i].event.id = id /\ source \in {Nothing, queue[i].event.type}}
Acknowledged(id, source) ==
  IF Matching(id, source) = {} THEN Nothing ELSE queue[Min(Matching(id, source))].event.type
Remaining(id, source) ==
  IF Matching(id, source) = {} THEN queue ELSE RemoveAt(queue, Min(Matching(id, source)))

(* live-poll sends the source type only for what it handles itself. *)
Source(a, reply) ==
  IF agent[a].at = "working" /\ agent[a].type \in Answers THEN agent[a].type
  ELSE Inferred(agent[a].id, reply)

MayReply(a, reply) ==
  LET id == agent[a].id IN
  CASE agent[a].at = "finishing" ->
         reply = IF agent[a].type = "discard" THEN "discarded" ELSE "complete"
    [] agent[a].at = "working" ->
         IF agent[a].type = "accept" THEN reply \in {"complete", "carbonize", "done", "error"}
         ELSE IF agent[a].type = "discard" THEN reply \in {"discarded", "error"}
         ELSE reply = "error" \/ (reply = "done" /\ id \in written)
    [] OTHER -> FALSE

(* handlePollPost, whose journal entry is left out for an ended session
   when no event was acknowledged. *)
Reply(a, reply) ==
  LET id == agent[a].id
      source == Source(a, reply)
      acknowledged == Acknowledged(id, source)
      kept == [Revoked(id, acknowledged) EXCEPT ![a] =
                 IF reply = "carbonize" THEN [agent[a] EXCEPT !.at = "finishing", !.valid = FALSE]
                 ELSE Idle]
  IN  /\ MayReply(a, reply)
      /\ written' = IF reply \in {"complete", "carbonize", "discarded"} THEN written \ {id}
                    ELSE written
      /\ journal' = IF acknowledged = Nothing /\ journal[id].phase \in Completed THEN journal
                    ELSE [journal EXCEPT ![id] = Replied(@, reply, acknowledged)]
      /\ Flush(Remaining(id, source), kept)
      /\ Broadcast(id, reply)
      /\ UNCHANGED <<gate, capturing, linked, abandoned, unused, requests, faults>>

(* A published component that does not compile: the event is acknowledged,
   nothing is journaled, and the agent is asked to publish again. *)
Bounce(a) ==
  LET id == agent[a].id
      source == Source(a, "done")
  IN  /\ agent[a].at = "working" /\ agent[a].type \notin Answers
      /\ id \in written
      /\ queue' = Remaining(id, source)
      /\ agent' = Revoked(id, Acknowledged(id, source))
      /\ UNCHANGED <<page, requests, written, journal, parked, faults>>

Crash(a) ==
  /\ agent[a].at \in {"working", "finishing"}
  /\ faults < MaxFaults
  /\ faults' = faults + 1
  /\ agent' = [agent EXCEPT ![a] = Idle]
  /\ UNCHANGED <<page, requests, written, helper>>

(* The process ends and starts: requests fail, waiting polls break off,
   the answer to a merge under way will be refused, and the queue is what
   the unfinished sessions' journals say is pending. *)
Pending == {journal[s].pending : s \in {x \in Sessions : journal[x].phase \notin Completed}}
             \ {Nothing}

Restart ==
  /\ faults < MaxFaults
  /\ faults' = faults + 1
  /\ \E order \in SetToSeqs(Pending) : queue' = [i \in DOMAIN order |-> Entry(order[i])]
  /\ parked' = << >>
  /\ agent' = [a \in Agents |->
       CASE agent[a].at \in {"parked", "scaffolding"} -> Idle
         [] agent[a].at = "working" /\ agent[a].type \in Answers ->
              [agent[a] EXCEPT !.at = "finishing", !.valid = FALSE]
         [] OTHER -> [agent[a] EXCEPT !.valid = FALSE]]
  /\ view' = IF view = "saving" THEN "cycling" ELSE view
  /\ linked' = FALSE /\ requests' = {} /\ gate' = NoSession
  /\ UNCHANGED <<current, awaiting, capturing, abandoned, unused, written,
                 journal>>

-----------------------------------------------------------------------------
User ==
  \/ \E s \in Sessions : Go(s, TRUE) \/ Go(s, FALSE)
  \/ \E type \in Answers : Answer(type)
  \/ MountFails
  \/ Reload

Replies == {"done", "error", "complete", "carbonize", "discarded"}

Progress(a) ==
  Poll(a) \/ Scaffolded(a) \/ WriteVariants(a) \/ \E reply \in Replies : Reply(a, reply)

Server(m) == Refused(m) \/ Checkpoint(m) \/ PostEvent(m) \/ OrphanedDiscard(m)

Next ==
  \/ User \/ VariantsArrive
  \/ \E s \in Sessions : Captured(s)
  \/ \E m \in requests : Server(m)
  \/ \E a \in Agents : Progress(a) \/ PollTimesOut(a) \/ Bounce(a) \/ Crash(a)
  \/ \E i \in DOMAIN queue : LeaseExpires(i)
  \/ Restart

Spec == Init /\ [][Next]_vars

Fairness ==
  /\ WF_vars(\E m \in requests : Server(m))
  /\ WF_vars(\E i \in DOMAIN queue : LeaseExpires(i))
  /\ \A a \in Agents :
       /\ WF_vars(Progress(a))
       /\ SF_vars(agent[a].valid /\ \E reply \in Replies : Reply(a, reply))
FairSpec == Spec /\ Fairness

-----------------------------------------------------------------------------
RequestSet == [id : Sessions, type : Types \cup {"checkpoint", "orphaned"},
               after : Sessions \cup {NoSession}]

(* Every variable holds a value of its kind (the fields of live-server.mjs
   and live-browser.js named at their declarations). *)
TypeOK ==
  /\ view \in Views /\ linked \in BOOLEAN
  /\ {current, awaiting, gate} \subseteq Sessions \cup {NoSession}
  /\ capturing \cup abandoned \cup unused \cup written \subseteq Sessions
  /\ requests \subseteq RequestSet
  /\ journal \in [Sessions -> [phase : Phases, pending : EventSet \cup {Nothing},
                               canceled : BOOLEAN]]
  /\ queue \in Seq([event : EventSet, leased : BOOLEAN])
  /\ parked \in Seq(Agents)
  /\ agent \in [Agents -> [at : Holding \cup {"idle", "parked"}, id : Sessions \cup {NoSession},
                           type : Types \cup {Nothing}, valid : BOOLEAN]]
  /\ faults \in 0..MaxFaults

(* While a lease runs, and during the scaffold before it is handed out, its
   event is with one agent: the claim precedes the await of leaseEvent.  An
   event that somebody's reply took out of the queue is nobody's any more. *)
OneWorker ==
  \A a, b \in Agents :
    /\ agent[a].at \in {"scaffolding", "working"} /\ agent[a].valid
    /\ agent[b].at \in {"scaffolding", "working"} /\ agent[b].valid
    /\ agent[a].id = agent[b].id /\ agent[a].type = agent[b].type
    => a = b

(* No poll waits beside an event it could have: whatever queues or frees
   an event serves the waiting polls (flushPendingPolls, the lease timer). *)
NoPollWaitsBesideWork == parked # << >> => Available(queue) = {}

(* A generation that the user has answered is not handed out any more. *)
AnsweredIsRetired ==
  \A i \in DOMAIN queue :
    queue[i].event.type = "generate" => ~journal[queue[i].event.id].canceled

(* An accept or a discard that waits for an agent leaves the queue only with
   the reply of an agent that carries out an answer: the outcome of a
   generation, however late, never consumes it (inferSourceEventType). *)
AnswerNotSwallowed ==
  [][~Restart =>
       \A i \in DOMAIN queue :
         LET e == queue[i].event IN
         (e.type \in Answers /\ ~queue[i].leased /\ ~IsQueued(queue', e.id, e.type)) =>
           \E a \in Agents : agent[a].id = e.id /\ agent[a].type \in Answers /\ agent'[a] # agent[a]]_vars

(* Every queued event leaves the queue in the end, unless the user's answers,
   which go first, never cease: leases of agents that vanished run out, and a
   reply finds the event it answers (inferSourceEventType). *)
EveryEventEnds ==
  \A s \in Sessions : \A type \in Types :
    []<>(\/ ~IsQueued(queue, s, type)
         \/ type \notin Answers /\ \E t \in Answers : IsQueued(queue, s, t))

(* A session is given up as another project's only if it is. *)
OnlyForeignAbandoned == abandoned \subseteq Foreign
=============================================================================
