-------------------------------- MODULE Store -------------------------------
(***************************************************************************)
(* The two drivers of the state store (store.ts), of which the API uses    *)
(* the one its configuration names: MemoryStore serialises mutations by a  *)
(* chain of promises, PostgresStore by the lock of the project's row in a  *)
(* transaction on a connection of a bounded pool.  Around them the routes  *)
(* that mutate, create and activate projects and append to the audit       *)
(* trail, failing statements, and the stop and restart of the process.     *)
(***************************************************************************)
EXTENDS StoreData, Naturals, Sequences, FiniteSets

CONSTANTS
  PoolSize,    \* max of the pg pool, 10 in store.ts
  Nobody,      \* stands for the holder of a free lock
  MaxErrors,   \* bound: failing statements
  MaxStops     \* bound: stops of the API process

ASSUME PoolAssumption ==
  /\ PoolSize \in Nat \ {0}
  /\ Nobody \notin Mutations
  /\ MaxErrors \in Nat
  /\ MaxStops \in Nat

VARIABLES
  driver,      \* STORAGE_DRIVER
  phase,       \* of the API process: down, seeding, choosing, serving
  boards,      \* the map's entries, or the committed rows
  active,      \* activeProjectId, or the workspace row
  audit,       \* the calls in the audit trail
  stage,       \* where each call is
  tail,        \* memory: the mutations chained at mutationTail and not released
  waiters,     \* postgres: the mutations waiting for a connection
  target,      \* postgres: the row a mutation selected
  holder,      \* postgres: whose transaction has the row's lock
  copy,        \* postgres: the payload a mutation read, or has written
  errors, stops

process == <<driver, phase, stops>>
content == <<boards, active, audit>>
transactions == <<target, holder, copy>>
queues == <<tail, waiters>>
vars == <<process, content, stage, queues, transactions, errors>>

Connected == {"connected", "begun", "locking", "locked", "updated", "committed",
              "aborting", "unsure"}
Stages == Connected \cup {"new", "chained", "waiting", "asked", "saved", "checked",
                          "unaudited", "lost", "done", "failed"}
Ended == {"done", "failed"}

InUse == {c \in Mutations : stage[c] \in Connected}
Free == Cardinality(InUse) < PoolSize

Init ==
  /\ driver \in {"memory", "postgres"}
  /\ phase = "down"
  /\ boards = [p \in Projects |-> Missing]
  /\ active = NoProject
  /\ audit = {}
  /\ stage = [c \in Calls |-> "new"]
  /\ tail = << >>
  /\ waiters = << >>
  /\ target = [c \in Mutations |-> FirstProject]
  /\ holder = [p \in Projects |-> Nobody]
  /\ copy = [c \in Mutations |-> Missing]
  /\ errors = 0
  /\ stops = 0

Exists(p) == boards[p] # Missing

Goes(c, from, to) ==
  /\ stage[c] = from
  /\ stage' = [stage EXCEPT ![c] = to]

Using(kind) == driver = kind /\ phase = "serving"

-----------------------------------------------------------------------------
(***************************************************************************)
(* Starting the process.                                                   *)
(***************************************************************************)
\* new MemoryStore() holds the demo project.
StartMemory ==
  /\ driver = "memory" /\ phase = "down"
  /\ boards' = [boards EXCEPT ![FirstProject] = FirstBoard]
  /\ active' = FirstProject
  /\ phase' = "serving"
  /\ UNCHANGED <<driver, stops, audit, stage, queues, transactions, errors>>

\* initialize: are there any dashboards?
LookForRows ==
  /\ driver = "postgres" /\ phase = "down"
  /\ phase' = IF \E p \in Projects : Exists(p) THEN "choosing" ELSE "seeding"
  /\ UNCHANGED <<driver, stops, content, stage, queues, transactions, errors>>

SeedRows ==
  /\ phase = "seeding"
  /\ boards' = [boards EXCEPT ![FirstProject] = FirstBoard]
  /\ phase' = "choosing"
  /\ UNCHANGED <<driver, stops, active, audit, stage, queues, transactions, errors>>

\* initialize: an active project is chosen when the workspace row is missing.
ChooseActive ==
  /\ phase = "choosing"
  /\ IF active = NoProject THEN active' \in {p \in Projects : Exists(p)}
                           ELSE UNCHANGED active
  /\ phase' = "serving"
  /\ UNCHANGED <<driver, stops, boards, audit, stage, queues, transactions, errors>>

\* The process stops.  Postgres rolls open transactions back.
Stop ==
  /\ phase # "down" /\ stops < MaxStops
  /\ phase' = "down"
  /\ stops' = stops + 1
  /\ stage' = [c \in Calls |-> IF stage[c] \in {"new", "done"} THEN stage[c] ELSE "failed"]
  /\ tail' = << >>
  /\ waiters' = << >>
  /\ holder' = [p \in Projects |-> Nobody]
  /\ target' = [c \in Mutations |-> FirstProject]
  /\ copy' = [c \in Mutations |-> Missing]
  /\ IF driver = "memory"
       THEN /\ boards' = [p \in Projects |-> Missing]
            /\ active' = NoProject
            /\ audit' = {}
       ELSE UNCHANGED content
  /\ UNCHANGED <<driver, errors>>

-----------------------------------------------------------------------------
(***************************************************************************)
(* MemoryStore.                                                            *)
(***************************************************************************)
\* mutateDashboard up to await previous: the call becomes the tail.
Chain(c) ==
  /\ Using("memory")
  /\ Goes(c, "new", "chained")
  /\ tail' = Append(tail, c)
  /\ UNCHANGED <<process, content, waiters, transactions, errors>>

\* The rest of it, without another await: the owner's dashboard is looked up,
\* changed and stored, and the next call released whether that threw or not.
MutateMemory(c) ==
  /\ Using("memory")
  /\ tail # << >> /\ Head(tail) = c
  /\ tail' = Tail(tail)
  /\ \/ \E p \in Projects :
          /\ Exists(p) /\ Belongs(c, p, boards[p]) /\ ~ Throws(c, boards[p])
          /\ boards' = [boards EXCEPT ![p] = Result(c, boards[p])]
          /\ Goes(c, "chained", "unaudited")
     \/ /\ \A p \in Projects :
             Exists(p) /\ Belongs(c, p, boards[p]) => Throws(c, boards[p])
        /\ Goes(c, "chained", "failed")
        /\ UNCHANGED boards
  /\ UNCHANGED <<process, active, audit, waiters, transactions, errors>>

-----------------------------------------------------------------------------
(***************************************************************************)
(* PostgresStore: mutateDashboard.                                         *)
(***************************************************************************)
\* pool.connect
Connect(c) ==
  /\ Using("postgres")
  /\ IF Free THEN Goes(c, "new", "connected") /\ UNCHANGED waiters
             ELSE Goes(c, "new", "waiting") /\ waiters' = Append(waiters, c)
  /\ UNCHANGED <<process, content, tail, transactions, errors>>

Begin(c) ==
  /\ Goes(c, "connected", "begun")
  /\ UNCHANGED <<process, content, queues, transactions, errors>>

\* Slip...: as in Orchestrator, a mistake that could be made at that place.
SlipFind(c) ==
  /\ \/ \E p \in Projects :
          /\ Exists(p) /\ Belongs(c, p, boards[p])
          /\ Goes(c, "begun", "locking")
          /\ target' = [target EXCEPT ![c] = p]
     \/ /\ \A p \in Projects : ~ (Exists(p) /\ Belongs(c, p, boards[p]))
        /\ Goes(c, "begun", "locking")
        /\ target' = [target EXCEPT ![c] = NoProject]
  /\ UNCHANGED <<process, content, queues, holder, copy, errors>>

\* SELECT ... FOR UPDATE, its snapshot: the row that has the owner, if any.
Find(c) ==
  /\ stage[c] = "begun"
  /\ \/ \E p \in Projects :
          /\ Exists(p) /\ Belongs(c, p, boards[p])
          /\ Goes(c, "begun", "locking")
          /\ target' = [target EXCEPT ![c] = p]
     \/ /\ \A p \in Projects : ~ (Exists(p) /\ Belongs(c, p, boards[p]))
        /\ Goes(c, "begun", "aborting")
        /\ UNCHANGED target
  /\ UNCHANGED <<process, content, queues, holder, copy, errors>>

SlipLock(c) ==
  /\ stage[c] = "locking"
  /\ IF Belongs(c, target[c], boards[target[c]])
       THEN /\ Goes(c, "locking", "locked")
            /\ holder' = [holder EXCEPT ![target[c]] = c]
            /\ copy' = [copy EXCEPT ![c] = boards[target[c]]]
       ELSE /\ Goes(c, "locking", "aborting")
            /\ UNCHANGED <<holder, copy>>
  /\ UNCHANGED <<process, content, queues, target, errors>>

\* Its lock: granted when no other transaction holds the row; the row is then
\* read and its WHERE clause evaluated again.
Lock(c) ==
  /\ stage[c] = "locking"
  /\ holder[target[c]] = Nobody
  /\ IF Belongs(c, target[c], boards[target[c]])
       THEN /\ Goes(c, "locking", "locked")
            /\ holder' = [holder EXCEPT ![target[c]] = c]
            /\ copy' = [copy EXCEPT ![c] = boards[target[c]]]
       ELSE /\ Goes(c, "locking", "aborting")
            /\ UNCHANGED <<holder, copy>>
  /\ UNCHANGED <<process, content, queues, target, errors>>

\* The mutation on the payload read, and the UPDATE with its result.
Update(c) ==
  /\ stage[c] = "locked"
  /\ IF Throws(c, copy[c])
       THEN /\ Goes(c, "locked", "aborting")
            /\ UNCHANGED copy
       ELSE /\ Goes(c, "locked", "updated")
            /\ copy' = [copy EXCEPT ![c] = Result(c, copy[c])]
  /\ UNCHANGED <<process, content, queues, target, holder, errors>>

SlipUnlocked(c) == holder

Unlocked(c) == [p \in Projects |-> IF holder[p] = c THEN Nobody ELSE holder[p]]

\* COMMIT takes effect; the answer arrives or is lost with the connection.
Commit(c) ==
  /\ \/ Goes(c, "updated", "committed") /\ UNCHANGED errors
     \/ /\ Goes(c, "updated", "unsure")
        /\ errors < MaxErrors /\ errors' = errors + 1
  /\ boards' = [boards EXCEPT ![target[c]] = copy[c]]
  /\ holder' = Unlocked(c)
  /\ UNCHANGED <<process, active, audit, queues, target, copy>>

\* A statement fails or exceeds its ten seconds; the lock is kept until the
\* transaction is rolled back.
StatementFails(c) ==
  /\ errors < MaxErrors
  /\ errors' = errors + 1
  /\ \E s \in {"connected", "begun", "locking", "locked", "updated"} : Goes(c, s, "aborting")
  /\ UNCHANGED <<process, content, queues, transactions>>

\* client.release: the connection goes to the first of those that wait, and
\* the call's row and payload are forgotten.
Release(c, from, to) ==
  /\ stage[c] = from
  /\ IF waiters = << >>
       THEN /\ stage' = [stage EXCEPT ![c] = to]
            /\ UNCHANGED waiters
       ELSE /\ stage' = [stage EXCEPT ![c] = to, ![Head(waiters)] = "connected"]
            /\ waiters' = Tail(waiters)
  /\ target' = [target EXCEPT ![c] = FirstProject]
  /\ copy' = [copy EXCEPT ![c] = Missing]

Return(c) ==
  /\ Release(c, "committed", "unaudited")
  /\ UNCHANGED <<process, content, tail, holder, errors>>

\* catch: ROLLBACK, which fails too on a broken connection, and release.
Rollback(c) ==
  /\ \E s \in {"aborting", "unsure"} : Release(c, s, "failed")
  /\ holder' = Unlocked(c)
  /\ UNCHANGED <<process, content, tail, errors>>

-----------------------------------------------------------------------------
(***************************************************************************)
(* Creating and activating projects: single statements.                    *)
(***************************************************************************)
Available == Using("memory") \/ (Using("postgres") /\ Free)

\* The request arrives and is parsed.
Request(c) ==
  /\ phase = "serving"
  /\ Goes(c, "new", "asked")
  /\ UNCHANGED <<process, content, queues, transactions, errors>>

\* saveDashboard
Save(c) ==
  /\ Available
  /\ \/ Goes(c, "asked", "saved") /\ UNCHANGED errors
     \/ /\ driver = "postgres" /\ Goes(c, "asked", "lost")
        /\ errors < MaxErrors /\ errors' = errors + 1
  /\ boards' = [boards EXCEPT ![Place[c]] = Created[c]]
  /\ UNCHANGED <<process, active, audit, queues, transactions>>

\* setActiveProject: the project must exist ...
Check(c) ==
  /\ Using("postgres") /\ Free
  /\ \E s \in IF c \in Creations THEN {"saved"} ELSE {"asked"} :
       Goes(c, s, IF Exists(Place[c]) THEN "checked" ELSE "failed")
  /\ UNCHANGED <<process, content, queues, transactions, errors>>

SlipActivate(c) ==
  /\ Available
  /\ \E s \in IF driver = "postgres" THEN {"checked"}
              ELSE IF c \in Creations THEN {"saved"} ELSE {"asked"} :
       Goes(c, s, "unaudited")
  /\ active' = Place[c]
  /\ UNCHANGED <<process, boards, audit, queues, transactions, errors>>

\* ... and becomes the active one: at once in memory, by a second statement
\* in Postgres.
Activate(c) ==
  /\ Available
  /\ \E s \in IF driver = "postgres" THEN {"checked"}
              ELSE IF c \in Creations THEN {"saved"} ELSE {"asked"} :
       IF Exists(Place[c])
         THEN /\ \/ Goes(c, s, "unaudited") /\ UNCHANGED errors
                 \/ /\ driver = "postgres" /\ Goes(c, s, "lost")
                    /\ errors < MaxErrors /\ errors' = errors + 1
              /\ active' = Place[c]
         ELSE /\ Goes(c, s, "failed")
              /\ UNCHANGED <<active, errors>>
  /\ UNCHANGED <<process, boards, audit, queues, transactions>>

\* A single statement fails without effect.
QueryFails(c) ==
  /\ Using("postgres")
  /\ errors < MaxErrors
  /\ errors' = errors + 1
  /\ \E s \in {"asked", "saved", "checked", "unaudited"} : Goes(c, s, "failed")
  /\ UNCHANGED <<process, content, queues, transactions>>

\* The error of a statement that had its effect reaches the caller.
Report(c) ==
  /\ Goes(c, "lost", "failed")
  /\ UNCHANGED <<process, content, queues, transactions, errors>>

\* Every one of these routes ends with appendAudit.
Audit(c) ==
  /\ Available
  /\ Goes(c, "unaudited", "done")
  /\ audit' = audit \cup {c}
  /\ UNCHANGED <<process, boards, active, queues, transactions, errors>>

-----------------------------------------------------------------------------
Start == StartMemory \/ LookForRows \/ SeedRows \/ ChooseActive

MutationStep(c) ==
  \/ MutateMemory(c)
  \/ Begin(c) \/ Find(c) \/ Lock(c) \/ Update(c) \/ Commit(c) \/ Return(c) \/ Rollback(c)

ProjectStep(c) ==
  \/ c \in Creations /\ Save(c)
  \/ Check(c) \/ Activate(c) \/ Report(c)

Next ==
  \/ Start
  \/ Stop
  \/ \E c \in Mutations : Chain(c) \/ Connect(c) \/ MutationStep(c) \/ StatementFails(c)
  \/ \E c \in Creations \cup Activations : Request(c) \/ ProjectStep(c)
  \/ \E c \in Calls : Audit(c) \/ QueryFails(c)

Spec == Init /\ [][Next]_vars

\* The process gets to run, and the database answers.
FairSpec ==
  /\ Spec
  /\ WF_vars(Start)
  /\ \A c \in Mutations : WF_vars(MutationStep(c))
  /\ \A c \in Creations \cup Activations : WF_vars(ProjectStep(c))
  /\ \A c \in Calls : WF_vars(Audit(c))

-----------------------------------------------------------------------------
TypeOK ==
  /\ driver \in {"memory", "postgres"}
  /\ phase \in {"down", "seeding", "choosing", "serving"}
  /\ boards \in [Projects -> Boards \cup {Missing}]
  /\ active \in Projects \cup {NoProject}
  /\ audit \subseteq Calls
  /\ stage \in [Calls -> Stages]
  /\ tail \in Seq(Mutations)
  /\ waiters \in Seq(Mutations)
  /\ target \in [Mutations -> Projects]
  /\ holder \in [Projects -> Mutations \cup {Nobody}]
  /\ copy \in [Mutations -> Boards \cup {Missing}]
  /\ errors \in 0..MaxErrors
  /\ stops \in 0..MaxStops

\* What a call at stage s is for the abstract store.
Progress(c, s) ==
  CASE s \in {"new", "done", "failed"} -> s
    [] \/ s \in {"committed", "unsure", "lost", "unaudited"}
       \/ c \in Creations /\ s \in {"saved", "checked"} -> "applied"
    [] OTHER -> "pending"

Outcome == [c \in Calls |-> Progress(c, stage[c])]

Atomic == INSTANCE AtomicStore WITH durable <- (driver = "postgres"), outcome <- Outcome

\* store.ts 98-112 and 212-230: whatever the interleaving, the statement that
\* fails and the moment the process stops, a mutation happens in one step on
\* the dashboard as it then is, at most once, and always when it is confirmed.
IsAtomic == Atomic!AtomicSpec

\* store.ts 181-186 and 266-273, server.ts 177-178: once the API serves, the
\* active project is one that exists, so reading "the" dashboard never fails.
ActiveExists == phase = "serving" => active \in Projects /\ Exists(active)

\* store.ts 109-111 and 224-229: every call ends.  No error keeps the chain, a
\* row or a connection from the calls behind it.
EveryCallEnds == \A c \in Calls : stage[c] # "new" ~> stage[c] \in Ended
=============================================================================
