----------------------------- MODULE StoreProofs ----------------------------
(***************************************************************************)
(* Both drivers of the state store implement AtomicStore, for every number *)
(* of projects, calls and connections, every mutation, and any number of   *)
(* failing statements and restarts.  At the end, what the routes promise:  *)
(* Workspace takes only steps of AtomicStore, and those change few         *)
(* dashboards.                                                             *)
(***************************************************************************)
EXTENDS Workspace, SequenceFacts, SequenceTheorems, TLAPS

\* The types of the variables.
Typed ==
  /\ driver \in {"memory", "postgres"}
  /\ phase \in {"down", "seeding", "choosing", "serving"}
  /\ boards \in [Projects -> Boards \cup {Missing}]
  /\ active \in Projects \cup {NoProject}
  /\ audit \subseteq Calls
  /\ stage \in [Calls -> Stages]
  /\ tail \in Seq(Mutations)
  /\ waiters \in Seq(Mutations)
  /\ target \in [Mutations -> Projects]
  /\ holder \in [Projects -> Mutations \cup {Nobody}]
  /\ copy \in [Mutations -> Boards \cup {Missing}]
  /\ errors \in 0..MaxErrors
  /\ stops \in 0..MaxStops

\* Each kind of call has stages of its own.
Staged ==
  /\ \A c \in Mutations : stage[c] \notin {"asked", "saved", "checked", "lost"}
  /\ \A c \in Creations \cup Activations :
       stage[c] \in {"new", "asked", "saved", "checked", "unaudited", "lost", "done", "failed"}
  /\ \A c \in Activations : stage[c] # "saved"
  /\ driver = "memory" => \A c \in Calls : stage[c] \notin Connected \cup {"waiting", "lost"}

\* A connection is handed to a call that waits for one, and waits once.
Waiting ==
  /\ Once(waiters)
  /\ \A c \in Mutations : Holds(waiters, c) => stage[c] = "waiting"

\* A transaction past its SELECT holds the lock of an existing row; until its
\* COMMIT nobody else writes that row, so what it read is still there.
Locking ==
  /\ \A c \in Mutations : stage[c] \in {"locked", "updated"} => holder[target[c]] = c
  /\ \A c \in Mutations : stage[c] \in {"locking", "locked", "updated"} => Exists(target[c])
  /\ \A c \in Mutations : stage[c] = "locked" =>
       /\ copy[c] = boards[target[c]]
       /\ Belongs(c, target[c], boards[target[c]])
  /\ \A c \in Mutations : stage[c] = "updated" =>
       /\ Belongs(c, target[c], boards[target[c]])
       /\ ~ Throws(c, boards[target[c]])
       /\ copy[c] = Result(c, boards[target[c]])

\* The id of a project that is being created is fresh, and a project that was
\* saved or found stays.
Creating ==
  /\ \A c \in Creations : stage[c] \in {"new", "asked"} => ~ Exists(Place[c])
  /\ \A c \in Creations : stage[c] \in {"saved", "checked"} => Exists(Place[c])
  /\ \A c \in Activations : stage[c] = "checked" => Exists(Place[c])

\* Before the process serves, no call is under way, and the seed is planted in
\* an empty store.  Afterwards the active project exists.
Starting ==
  /\ phase # "serving" => /\ \A c \in Calls : stage[c] \in {"new", "done", "failed"}
                          /\ tail = << >> /\ waiters = << >>
  /\ phase = "seeding" => \A p \in Projects : ~ Exists(p)
  /\ phase = "seeding" => driver = "postgres"
  /\ driver = "memory" /\ phase = "down" => \A p \in Projects : ~ Exists(p)
  /\ phase = "choosing" => \E p \in Projects : Exists(p)
  /\ active # NoProject => Exists(active)
  /\ phase = "serving" => active # NoProject

Inv == Typed /\ Staged /\ Waiting /\ Locking /\ Creating /\ Starting

-----------------------------------------------------------------------------
LEMMA CallKinds ==
  /\ Mutations \subseteq Calls
  /\ Creations \subseteq Calls
  /\ Activations \subseteq Calls
  /\ \A c \in Mutations : c \notin Creations /\ c \notin Activations
  /\ \A c \in Creations : c \notin Activations
BY StoreAssumption DEF Calls

LEMMA InvInit == Init => Inv
<1> SUFFICES ASSUME Init PROVE Inv
  OBVIOUS
<1> USE StoreAssumption, PoolAssumption DEF Init, Exists
<1>1. Typed
  BY DEF Typed, Stages
<1>2. Staged /\ Locking
  BY CallKinds DEF Staged, Locking, Connected
<1>3. Waiting
  BY DEF Waiting, Once, Holds
<1>4. Creating /\ Starting
  BY CallKinds DEF Creating, Starting
<1> QED
  BY <1>1, <1>2, <1>3, <1>4 DEF Inv

\* A connection given back: the call goes on, at most one other call moves, from
\* waiting to connected, and no other transaction's row or payload changes.
LEMMA Handed ==
  ASSUME Typed, Waiting, NEW c \in Mutations, NEW from, NEW to \in Stages,
         Release(c, from, to), from # "waiting"
  PROVE  /\ stage' \in [Calls -> Stages]
         /\ stage'[c] = to
         /\ \A d \in Calls : d # c =>
              \/ stage'[d] = stage[d]
              \/ d \in Mutations /\ stage[d] = "waiting" /\ stage'[d] = "connected"
         /\ waiters' \in Seq(Mutations)
         /\ waiters = << >> => waiters' = << >>
         /\ Waiting'
         /\ target' \in [Mutations -> Projects]
         /\ copy' \in [Mutations -> Boards \cup {Missing}]
         /\ \A d \in Mutations : d # c => target'[d] = target[d] /\ copy'[d] = copy[d]
<1> USE CallKinds, StoreAssumption DEF Typed
<1>1. /\ target' \in [Mutations -> Projects]
      /\ copy' \in [Mutations -> Boards \cup {Missing}]
      /\ \A d \in Mutations : d # c => target'[d] = target[d] /\ copy'[d] = copy[d]
  BY DEF Release
<1>2. CASE waiters = << >>
  BY <1>1, <1>2 DEF Release, Waiting, Once, Holds
<1>3. CASE waiters # << >>
  <2> DEFINE h == Head(waiters)
  <2>1. /\ waiters' \in Seq(Mutations) /\ Once(waiters')
        /\ h \in Mutations /\ Holds(waiters, h)
        /\ \A x : Holds(waiters', x) <=> Holds(waiters, x) /\ x # h
    BY <1>3, TailOnce DEF Release, Waiting
  <2>2. stage[h] = "waiting" /\ stage[c] = from
    BY <2>1 DEF Waiting, Release
  <2>3. stage' = [stage EXCEPT ![c] = to, ![h] = "connected"]
    BY <1>3 DEF Release
  <2> HIDE DEF h
  <2>4. /\ stage' \in [Calls -> Stages] /\ stage'[c] = to
        /\ stage'[h] = "connected"
        /\ \A d \in Calls : d # c /\ d # h => stage'[d] = stage[d]
    BY <2>1, <2>2, <2>3 DEF Stages, Connected
  <2>5. Waiting'
    <3>1. ASSUME NEW d \in Mutations, Holds(waiters', d) PROVE stage'[d] = "waiting"
      BY <3>1, <2>1, <2>2, <2>4 DEF Waiting
    <3> QED
      BY <3>1, <2>1 DEF Waiting
  <2> QED
    BY <1>1, <1>3, <2>1, <2>2, <2>4, <2>5
<1> QED
  BY <1>2, <1>3

\* One call that waits for nothing goes on; the others stay.
LEMMA WaitingKept ==
  ASSUME Typed, Waiting, NEW c \in Calls, NEW from, NEW to \in Stages, Goes(c, from, to),
         from # "waiting", waiters' = waiters
  PROVE  Waiting'
BY CallKinds DEF Typed, Waiting, Goes

LEMMA InvStep == Inv /\ [Next]_vars => Inv'
<1> SUFFICES ASSUME Inv, [Next]_vars PROVE Inv'
  OBVIOUS
<1> USE StoreAssumption, ResultAssumption, PoolAssumption, CallKinds
    DEF Inv, process, content, transactions, queues, Using, Goes, Exists, Stages, Connected
<1>1. CASE StartMemory
  <2>1. Typed'
    BY <1>1 DEF StartMemory, Typed, Available, Unlocked, Staged, Locking, Creating, Starting
  <2>2. Staged'
    BY <1>1 DEF StartMemory, Typed, Staged, Available, Unlocked, Staged, Locking, Creating, Starting
  <2>3. Waiting'
    BY <1>1, WaitingKept DEF StartMemory, Typed, Waiting, Available, Unlocked, Staged, Locking, Creating, Starting
  <2>4. Locking'
    BY <1>1 DEF StartMemory, Typed, Locking, Available, Unlocked, Staged, Locking, Creating, Starting
  <2>5. Creating'
    BY <1>1 DEF StartMemory, Typed, Creating, Available, Unlocked, Staged, Locking, Creating, Starting
  <2>6. Starting'
    BY <1>1 DEF StartMemory, Typed, Starting, Available, Unlocked, Staged, Locking, Creating, Starting
  <2> QED
    BY <2>1, <2>2, <2>3, <2>4, <2>5, <2>6
<1>2. CASE LookForRows
  <2>1. Typed'
    BY <1>2 DEF LookForRows, Typed, Available, Unlocked, Staged, Locking, Creating, Starting
  <2>2. Staged'
    BY <1>2 DEF LookForRows, Typed, Staged, Available, Unlocked, Staged, Locking, Creating, Starting
  <2>3. Waiting'
    BY <1>2, WaitingKept DEF LookForRows, Typed, Waiting, Available, Unlocked, Staged, Locking, Creating, Starting
  <2>4. Locking'
    BY <1>2 DEF LookForRows, Typed, Locking, Available, Unlocked, Staged, Locking, Creating, Starting
  <2>5. Creating'
    BY <1>2 DEF LookForRows, Typed, Creating, Available, Unlocked, Staged, Locking, Creating, Starting
  <2>6. Starting'
    BY <1>2 DEF LookForRows, Typed, Starting, Available, Unlocked, Staged, Locking, Creating, Starting
  <2> QED
    BY <2>1, <2>2, <2>3, <2>4, <2>5, <2>6
<1>3. CASE SeedRows
  <2>1. Typed'
    BY <1>3 DEF SeedRows, Typed, Available, Unlocked, Staged, Locking, Creating, Starting
  <2>2. Staged'
    BY <1>3 DEF SeedRows, Typed, Staged, Available, Unlocked, Staged, Locking, Creating, Starting
  <2>3. Waiting'
    BY <1>3, WaitingKept DEF SeedRows, Typed, Waiting, Available, Unlocked, Staged, Locking, Creating, Starting
  <2>4. Locking'
    BY <1>3 DEF SeedRows, Typed, Locking, Available, Unlocked, Staged, Locking, Creating, Starting
  <2>5. Creating'
    BY <1>3 DEF SeedRows, Typed, Creating, Available, Unlocked, Staged, Locking, Creating, Starting
  <2>6. Starting'
    BY <1>3 DEF SeedRows, Typed, Starting, Available, Unlocked, Staged, Locking, Creating, Starting
  <2> QED
    BY <2>1, <2>2, <2>3, <2>4, <2>5, <2>6
<1>4. CASE ChooseActive
  <2>1. Typed'
    BY <1>4 DEF ChooseActive, Typed, Available, Unlocked, Staged, Locking, Creating, Starting
  <2>2. Staged'
    BY <1>4 DEF ChooseActive, Typed, Staged, Available, Unlocked, Staged, Locking, Creating, Starting
  <2>3. Waiting'
    BY <1>4, WaitingKept DEF ChooseActive, Typed, Waiting, Available, Unlocked, Staged, Locking, Creating, Starting
  <2>4. Locking'
    BY <1>4 DEF ChooseActive, Typed, Locking, Available, Unlocked, Staged, Locking, Creating, Starting
  <2>5. Creating'
    BY <1>4 DEF ChooseActive, Typed, Creating, Available, Unlocked, Staged, Locking, Creating, Starting
  <2>6. Starting'
    BY <1>4 DEF ChooseActive, Typed, Starting, Available, Unlocked, Staged, Locking, Creating, Starting
  <2> QED
    BY <2>1, <2>2, <2>3, <2>4, <2>5, <2>6
<1>5. CASE Stop
  <2>1. Typed'
    BY <1>5 DEF Stop, Typed, Available, Unlocked, Staged, Locking, Creating, Starting
  <2>2. Staged'
    BY <1>5 DEF Stop, Typed, Staged, Available, Unlocked, Staged, Locking, Creating, Starting
  <2>3. Waiting'
    BY <1>5 DEF Stop, Waiting, Once, Holds
  <2>4. Locking'
    BY <1>5 DEF Stop, Typed, Locking, Available, Unlocked, Staged, Locking, Creating, Starting
  <2>5. Creating'
    BY <1>5 DEF Stop, Typed, Creating, Available, Unlocked, Staged, Locking, Creating, Starting
  <2>6. Starting'
    BY <1>5 DEF Stop, Typed, Starting, Available, Unlocked, Staged, Locking, Creating, Starting
  <2> QED
    BY <2>1, <2>2, <2>3, <2>4, <2>5, <2>6
<1>6. ASSUME NEW c \in Mutations, Chain(c) PROVE Inv'
  <2>1. Typed'
    BY <1>6 DEF Chain, Typed, Available, Unlocked, Staged, Locking, Creating, Starting
  <2>2. Staged'
    BY <1>6 DEF Chain, Typed, Staged, Available, Unlocked, Staged, Locking, Creating, Starting
  <2>3. Waiting'
    BY <1>6, WaitingKept DEF Chain, Typed, Waiting, Available, Unlocked, Staged, Locking, Creating, Starting
  <2>4. Locking'
    BY <1>6 DEF Chain, Typed, Locking, Available, Unlocked, Staged, Locking, Creating, Starting
  <2>5. Creating'
    BY <1>6 DEF Chain, Typed, Creating, Available, Unlocked, Staged, Locking, Creating, Starting
  <2>6. Starting'
    BY <1>6 DEF Chain, Typed, Starting, Available, Unlocked, Staged, Locking, Creating, Starting
  <2> QED
    BY <2>1, <2>2, <2>3, <2>4, <2>5, <2>6
<1>7. ASSUME NEW c \in Mutations, Connect(c) PROVE Inv'
  <2>0. \E to \in {"connected", "waiting"} :
          /\ Goes(c, "new", to)
          /\ to = "connected" => waiters' = waiters
          /\ to = "waiting" => waiters' = Append(waiters, c)
    BY <1>7 DEF Connect
  <2>1. waiters' \in Seq(Mutations) /\ Waiting'
    <3>1. CASE waiters' = waiters /\ Goes(c, "new", "connected")
      BY <3>1, WaitingKept DEF Typed
    <3>2. CASE waiters' = Append(waiters, c) /\ Goes(c, "new", "waiting")
      <4>1. ~ Holds(waiters, c)
        BY <3>2 DEF Waiting
      <4>0. waiters \in Seq(Mutations) /\ Once(waiters) /\ waiters' = Append(waiters, c)
        BY <3>2 DEF Waiting, Typed
      <4>2. /\ waiters' \in Seq(Mutations) /\ Once(waiters')
            /\ \A x : Holds(waiters', x) <=> Holds(waiters, x) \/ x = c
        BY <4>0, <4>1, AppendedOnce
      <4>3. \A d \in Mutations : stage'[d] = IF d = c THEN "waiting" ELSE stage[d]
        BY <3>2 DEF Typed
      <4> QED
        BY <4>2, <4>3 DEF Waiting
    <3> QED
      BY <2>0, <3>1, <3>2
  <2>2. Typed'
    BY <1>7, <2>0, <2>1 DEF Connect, Typed
  <2>3. Staged'
    BY <1>7, <2>0 DEF Connect, Typed, Staged
  <2>4. Locking'
    BY <1>7, <2>0 DEF Connect, Typed, Locking
  <2>5. Creating'
    BY <1>7, <2>0 DEF Connect, Typed, Creating
  <2>6. Starting'
    BY <1>7, <2>0 DEF Connect, Typed, Starting
  <2> QED
    BY <2>1, <2>2, <2>3, <2>4, <2>5, <2>6
<1>8. ASSUME NEW c \in Mutations, MutateMemory(c) PROVE Inv'
  <2>0. PICK to \in {"unaudited", "failed"} :
          /\ Goes(c, "chained", to)
          /\ \/ boards' = boards
             \/ \E p \in Projects :
                  /\ Exists(p) /\ ~ Throws(c, boards[p])
                  /\ boards' = [boards EXCEPT ![p] = Result(c, boards[p])]
    BY <1>8 DEF MutateMemory
  <2>1. tail' \in Seq(Mutations)
    BY <1>8, HeadTailProperties DEF MutateMemory, Typed
  <2>2. /\ boards' \in [Projects -> Boards \cup {Missing}]
        /\ \A p \in Projects : boards'[p] = Missing <=> boards[p] = Missing
    BY <2>0 DEF Typed
  <2>3. /\ stage' \in [Calls -> Stages] /\ stage'[c] = to /\ stage[c] = "chained"
        /\ \A d \in Calls : d # c => stage'[d] = stage[d]
    BY <2>0 DEF Typed
  <2>4. /\ driver = "memory" /\ phase = "serving"
        /\ UNCHANGED <<driver, phase, stops, active, audit, waiters, target, holder, copy, errors>>
    BY <1>8 DEF MutateMemory
  <2>5. Typed'
    BY <2>1, <2>2, <2>3, <2>4 DEF Typed
  <2>6. Staged'
    BY <2>3, <2>4 DEF Staged
  <2>7. Waiting'
    BY <2>0, <2>4, WaitingKept
  <2>8. Locking'
    BY <2>3, <2>4, <2>6 DEF Locking, Staged
  <2>9. Creating'
    BY <2>2, <2>3 DEF Creating, Typed
  <2>10. Starting'
    BY <2>2, <2>4 DEF Starting, Typed
  <2> QED
    BY <2>5, <2>6, <2>7, <2>8, <2>9, <2>10
<1>9. ASSUME NEW c \in Mutations, Begin(c) PROVE Inv'
  <2>1. Typed'
    BY <1>9 DEF Begin, Typed, Available, Unlocked, Staged, Locking, Creating, Starting
  <2>2. Staged'
    BY <1>9 DEF Begin, Typed, Staged, Available, Unlocked, Staged, Locking, Creating, Starting
  <2>3. Waiting'
    BY <1>9, WaitingKept DEF Begin, Typed, Waiting, Available, Unlocked, Staged, Locking, Creating, Starting
  <2>4. Locking'
    BY <1>9 DEF Begin, Typed, Locking, Available, Unlocked, Staged, Locking, Creating, Starting
  <2>5. Creating'
    BY <1>9 DEF Begin, Typed, Creating, Available, Unlocked, Staged, Locking, Creating, Starting
  <2>6. Starting'
    BY <1>9 DEF Begin, Typed, Starting, Available, Unlocked, Staged, Locking, Creating, Starting
  <2> QED
    BY <2>1, <2>2, <2>3, <2>4, <2>5, <2>6
<1>10. ASSUME NEW c \in Mutations, Find(c) PROVE Inv'
  <2>1. Typed'
    BY <1>10 DEF Find, Typed, Available, Unlocked, Staged, Locking, Creating, Starting
  <2>2. Staged'
    BY <1>10 DEF Find, Typed, Staged, Available, Unlocked, Staged, Locking, Creating, Starting
  <2>3. Waiting'
    BY <1>10, WaitingKept DEF Find, Typed, Waiting, Available, Unlocked, Staged, Locking, Creating, Starting
  <2>4. Locking'
    BY <1>10 DEF Find, Typed, Locking, Available, Unlocked, Staged, Locking, Creating, Starting
  <2>5. Creating'
    BY <1>10 DEF Find, Typed, Creating, Available, Unlocked, Staged, Locking, Creating, Starting
  <2>6. Starting'
    BY <1>10 DEF Find, Typed, Starting, Available, Unlocked, Staged, Locking, Creating, Starting
  <2> QED
    BY <2>1, <2>2, <2>3, <2>4, <2>5, <2>6
<1>11. ASSUME NEW c \in Mutations, Lock(c) PROVE Inv'
  <2>1. Typed'
    BY <1>11 DEF Lock, Typed, Available, Unlocked, Staged, Locking, Creating, Starting
  <2>2. Staged'
    BY <1>11 DEF Lock, Typed, Staged, Available, Unlocked, Staged, Locking, Creating, Starting
  <2>3. Waiting'
    BY <1>11, WaitingKept DEF Lock, Typed, Waiting, Available, Unlocked, Staged, Locking, Creating, Starting
  <2>4. Locking'
    BY <1>11 DEF Lock, Typed, Locking, Available, Unlocked, Staged, Locking, Creating, Starting
  <2>5. Creating'
    BY <1>11 DEF Lock, Typed, Creating, Available, Unlocked, Staged, Locking, Creating, Starting
  <2>6. Starting'
    BY <1>11 DEF Lock, Typed, Starting, Available, Unlocked, Staged, Locking, Creating, Starting
  <2> QED
    BY <2>1, <2>2, <2>3, <2>4, <2>5, <2>6
<1>12. ASSUME NEW c \in Mutations, Update(c) PROVE Inv'
  <2>1. Typed'
    BY <1>12 DEF Update, Typed, Available, Unlocked, Staged, Locking, Creating, Starting
  <2>2. Staged'
    BY <1>12 DEF Update, Typed, Staged, Available, Unlocked, Staged, Locking, Creating, Starting
  <2>3. Waiting'
    BY <1>12, WaitingKept DEF Update, Typed, Waiting, Available, Unlocked, Staged, Locking, Creating, Starting
  <2>4. Locking'
    BY <1>12 DEF Update, Typed, Locking, Available, Unlocked, Staged, Locking, Creating, Starting
  <2>5. Creating'
    BY <1>12 DEF Update, Typed, Creating, Available, Unlocked, Staged, Locking, Creating, Starting
  <2>6. Starting'
    BY <1>12 DEF Update, Typed, Starting, Available, Unlocked, Staged, Locking, Creating, Starting
  <2> QED
    BY <2>1, <2>2, <2>3, <2>4, <2>5, <2>6
<1>13. ASSUME NEW c \in Mutations, Commit(c) PROVE Inv'
  <2>1. Typed'
    BY <1>13 DEF Commit, Typed, Available, Unlocked, Staged, Locking, Creating, Starting
  <2>2. Staged'
    BY <1>13 DEF Commit, Typed, Staged, Available, Unlocked, Staged, Locking, Creating, Starting
  <2>3. Waiting'
    BY <1>13, WaitingKept DEF Commit, Typed, Waiting, Available, Unlocked, Staged, Locking, Creating, Starting
  <2>4. Locking'
    BY <1>13 DEF Commit, Typed, Locking, Available, Unlocked, Staged, Locking, Creating, Starting
  <2>5. Creating'
    BY <1>13 DEF Commit, Typed, Creating, Available, Unlocked, Staged, Locking, Creating, Starting
  <2>6. Starting'
    BY <1>13 DEF Commit, Typed, Starting, Available, Unlocked, Staged, Locking, Creating, Starting
  <2> QED
    BY <2>1, <2>2, <2>3, <2>4, <2>5, <2>6
<1>14. ASSUME NEW c \in Mutations, Return(c) PROVE Inv'
  <2>0. Release(c, "committed", "unaudited")
    BY <1>14 DEF Return
  <2>8. stage[c] = "committed"
    BY <2>0 DEF Release
  <2>7. /\ stage[c] = "committed"
        /\ stage' \in [Calls -> Stages]
        /\ stage'[c] = "unaudited"
        /\ \A d \in Calls : d # c =>
             \/ stage'[d] = stage[d]
             \/ d \in Mutations /\ stage[d] = "waiting" /\ stage'[d] = "connected"
        /\ waiters' \in Seq(Mutations)
        /\ waiters = << >> => waiters' = << >>
        /\ Waiting'
        /\ target' \in [Mutations -> Projects]
        /\ copy' \in [Mutations -> Boards \cup {Missing}]
        /\ \A d \in Mutations : d # c => target'[d] = target[d] /\ copy'[d] = copy[d]
    BY <2>0, <2>8, Handed
  <2>1. Typed'
    BY <1>14, <2>7 DEF Return, Typed, Typed, Staged, Unlocked, Starting, Locking
  <2>2. Staged'
    BY <1>14, <2>7 DEF Return, Typed, Staged, Staged, Unlocked, Starting, Locking
  <2>3. Waiting'
    BY <2>7
  <2>4. Locking'
    <3>1. \A d \in Mutations : stage'[d] \in {"locking", "locked", "updated"} =>
            d # c /\ stage'[d] = stage[d] /\ target'[d] = target[d] /\ copy'[d] = copy[d]
      BY <2>7
    <3>2. /\ boards' = boards
          /\ \A p \in Projects : holder[p] # c => holder'[p] = holder[p]
      BY <1>14 DEF Return, Unlocked, Typed
    <3>3. \A d \in Mutations : target[d] \in Projects
      BY DEF Typed
    <3> QED
      BY <3>1, <3>2, <3>3 DEF Locking
  <2>9. boards' = boards /\ \A d \in Creations \cup Activations : stage'[d] = stage[d]
    BY <1>14, <2>7 DEF Return
  <2>5. Creating'
    BY <2>9 DEF Creating
  <2>6. Starting'
    BY <1>14, <2>7 DEF Return, Typed, Starting, Staged, Unlocked, Starting, Locking
  <2> QED
    BY <2>1, <2>2, <2>3, <2>4, <2>5, <2>6
<1>15. ASSUME NEW c \in Mutations, Rollback(c) PROVE Inv'
  <2>0. PICK from \in {"aborting", "unsure"} : Release(c, from, "failed")
    BY <1>15 DEF Rollback
  <2>8. stage[c] = from
    BY <2>0 DEF Release
  <2>7. /\ stage[c] = from
        /\ stage' \in [Calls -> Stages]
        /\ stage'[c] = "failed"
        /\ \A d \in Calls : d # c =>
             \/ stage'[d] = stage[d]
             \/ d \in Mutations /\ stage[d] = "waiting" /\ stage'[d] = "connected"
        /\ waiters' \in Seq(Mutations)
        /\ waiters = << >> => waiters' = << >>
        /\ Waiting'
        /\ target' \in [Mutations -> Projects]
        /\ copy' \in [Mutations -> Boards \cup {Missing}]
        /\ \A d \in Mutations : d # c => target'[d] = target[d] /\ copy'[d] = copy[d]
    BY <2>0, <2>8, Handed
  <2>1. Typed'
    BY <1>15, <2>7 DEF Rollback, Typed, Typed, Staged, Unlocked, Starting, Locking
  <2>2. Staged'
    BY <1>15, <2>7 DEF Rollback, Typed, Staged, Staged, Unlocked, Starting, Locking
  <2>3. Waiting'
    BY <2>7
  <2>4. Locking'
    <3>1. \A d \in Mutations : stage'[d] \in {"locking", "locked", "updated"} =>
            d # c /\ stage'[d] = stage[d] /\ target'[d] = target[d] /\ copy'[d] = copy[d]
      BY <2>7
    <3>2. /\ boards' = boards
          /\ \A p \in Projects : holder[p] # c => holder'[p] = holder[p]
      BY <1>15 DEF Rollback, Unlocked, Typed
    <3>3. \A d \in Mutations : target[d] \in Projects
      BY DEF Typed
    <3> QED
      BY <3>1, <3>2, <3>3 DEF Locking
  <2>9. boards' = boards /\ \A d \in Creations \cup Activations : stage'[d] = stage[d]
    BY <1>15, <2>7 DEF Rollback
  <2>5. Creating'
    BY <2>9 DEF Creating
  <2>6. Starting'
    BY <1>15, <2>7 DEF Rollback, Typed, Starting, Staged, Unlocked, Starting, Locking
  <2> QED
    BY <2>1, <2>2, <2>3, <2>4, <2>5, <2>6
<1>16. ASSUME NEW c \in Mutations, StatementFails(c) PROVE Inv'
  <2>1. Typed'
    BY <1>16 DEF StatementFails, Typed, Available, Unlocked, Staged, Locking, Creating, Starting
  <2>2. Staged'
    BY <1>16 DEF StatementFails, Typed, Staged, Available, Unlocked, Staged, Locking, Creating, Starting
  <2>3. Waiting'
    BY <1>16, WaitingKept DEF StatementFails, Typed, Waiting, Available, Unlocked, Staged, Locking, Creating, Starting
  <2>4. Locking'
    BY <1>16 DEF StatementFails, Typed, Locking, Available, Unlocked, Staged, Locking, Creating, Starting
  <2>5. Creating'
    BY <1>16 DEF StatementFails, Typed, Creating, Available, Unlocked, Staged, Locking, Creating, Starting
  <2>6. Starting'
    BY <1>16 DEF StatementFails, Typed, Starting, Available, Unlocked, Staged, Locking, Creating, Starting
  <2> QED
    BY <2>1, <2>2, <2>3, <2>4, <2>5, <2>6
<1>17. ASSUME NEW c \in Creations \cup Activations, Request(c) PROVE Inv'
  <2>1. Typed'
    BY <1>17 DEF Request, Typed, Available, Unlocked, Staged, Locking, Creating, Starting
  <2>2. Staged'
    BY <1>17 DEF Request, Typed, Staged, Available, Unlocked, Staged, Locking, Creating, Starting
  <2>3. Waiting'
    BY <1>17, WaitingKept DEF Request, Typed, Waiting, Available, Unlocked, Staged, Locking, Creating, Starting
  <2>4. Locking'
    BY <1>17 DEF Request, Typed, Locking, Available, Unlocked, Staged, Locking, Creating, Starting
  <2>5. Creating'
    BY <1>17 DEF Request, Typed, Creating, Available, Unlocked, Staged, Locking, Creating, Starting
  <2>6. Starting'
    BY <1>17 DEF Request, Typed, Starting, Available, Unlocked, Staged, Locking, Creating, Starting
  <2> QED
    BY <2>1, <2>2, <2>3, <2>4, <2>5, <2>6
<1>18. ASSUME NEW c \in Creations \cup Activations, Check(c) PROVE Inv'
  <2>1. Typed'
    BY <1>18 DEF Check, Typed, Available, Unlocked, Staged, Locking, Creating, Starting
  <2>2. Staged'
    BY <1>18 DEF Check, Typed, Staged, Available, Unlocked, Staged, Locking, Creating, Starting
  <2>3. Waiting'
    BY <1>18, WaitingKept DEF Check, Typed, Waiting, Available, Unlocked, Staged, Locking, Creating, Starting
  <2>4. Locking'
    BY <1>18 DEF Check, Typed, Locking, Available, Unlocked, Staged, Locking, Creating, Starting
  <2>5. Creating'
    BY <1>18 DEF Check, Typed, Creating, Available, Unlocked, Staged, Locking, Creating, Starting
  <2>6. Starting'
    BY <1>18 DEF Check, Typed, Starting, Available, Unlocked, Staged, Locking, Creating, Starting
  <2> QED
    BY <2>1, <2>2, <2>3, <2>4, <2>5, <2>6
<1>19. ASSUME NEW c \in Creations \cup Activations, Activate(c) PROVE Inv'
   <2>0. PICK s \in {"asked", "saved", "checked"}, to \in {"unaudited", "lost", "failed"} :
          /\ Goes(c, s, to)
          /\ to = "lost" => driver = "postgres"
    BY <1>19 DEF Activate
 <2>1. Typed'
    BY <1>19, <2>0 DEF Activate, Typed
  <2>2. Staged'
    BY <1>19, <2>0 DEF Activate, Typed, Staged
  <2>3. Waiting'
    BY <1>19, WaitingKept DEF Activate, Typed, Waiting, Available, Unlocked, Staged, Locking, Creating, Starting
  <2>4. Locking'
    BY <1>19 DEF Activate, Typed, Locking, Available, Unlocked, Staged, Locking, Creating, Starting
  <2>5. Creating'
    BY <1>19 DEF Activate, Typed, Creating, Available, Unlocked, Staged, Locking, Creating, Starting
  <2>6. Starting'
    BY <1>19 DEF Activate, Typed, Starting, Available, Unlocked, Staged, Locking, Creating, Starting
  <2> QED
    BY <2>1, <2>2, <2>3, <2>4, <2>5, <2>6
<1>20. ASSUME NEW c \in Creations \cup Activations, Report(c) PROVE Inv'
  <2>1. Typed'
    BY <1>20 DEF Report, Typed, Available, Unlocked, Staged, Locking, Creating, Starting
  <2>2. Staged'
    BY <1>20 DEF Report, Typed, Staged, Available, Unlocked, Staged, Locking, Creating, Starting
  <2>3. Waiting'
    BY <1>20, WaitingKept DEF Report, Typed, Waiting, Available, Unlocked, Staged, Locking, Creating, Starting
  <2>4. Locking'
    BY <1>20 DEF Report, Typed, Locking, Available, Unlocked, Staged, Locking, Creating, Starting
  <2>5. Creating'
    BY <1>20 DEF Report, Typed, Creating, Available, Unlocked, Staged, Locking, Creating, Starting
  <2>6. Starting'
    BY <1>20 DEF Report, Typed, Starting, Available, Unlocked, Staged, Locking, Creating, Starting
  <2> QED
    BY <2>1, <2>2, <2>3, <2>4, <2>5, <2>6
<1>21. ASSUME NEW c \in Creations, Save(c) PROVE Inv'
  <2>1. Typed'
    BY <1>21 DEF Save, Typed, Available, Unlocked, Staged, Locking, Creating, Starting
  <2>2. Staged'
    BY <1>21 DEF Save, Typed, Staged
  <2>3. Waiting'
    BY <1>21, WaitingKept DEF Save, Typed, Waiting, Available, Unlocked, Staged, Locking, Creating, Starting
  <2>4. Locking'
    BY <1>21 DEF Save, Typed, Locking, Available, Unlocked, Staged, Locking, Creating, Starting
  <2>5. Creating'
    BY <1>21 DEF Save, Typed, Creating, Available, Unlocked, Staged, Locking, Creating, Starting
  <2>6. Starting'
    BY <1>21 DEF Save, Typed, Starting, Available, Unlocked, Staged, Locking, Creating, Starting
  <2> QED
    BY <2>1, <2>2, <2>3, <2>4, <2>5, <2>6
<1>22. ASSUME NEW c \in Calls, Audit(c) PROVE Inv'
  <2>1. Typed'
    BY <1>22 DEF Audit, Typed, Available, Unlocked, Staged, Locking, Creating, Starting
  <2>2. Staged'
    BY <1>22 DEF Audit, Typed, Staged, Available, Unlocked, Staged, Locking, Creating, Starting
  <2>3. Waiting'
    BY <1>22, WaitingKept DEF Audit, Typed, Waiting, Available, Unlocked, Staged, Locking, Creating, Starting
  <2>4. Locking'
    BY <1>22 DEF Audit, Typed, Locking, Available, Unlocked, Staged, Locking, Creating, Starting
  <2>5. Creating'
    BY <1>22 DEF Audit, Typed, Creating, Available, Unlocked, Staged, Locking, Creating, Starting
  <2>6. Starting'
    BY <1>22 DEF Audit, Typed, Starting, Available, Unlocked, Staged, Locking, Creating, Starting
  <2> QED
    BY <2>1, <2>2, <2>3, <2>4, <2>5, <2>6
<1>23. ASSUME NEW c \in Calls, QueryFails(c) PROVE Inv'
  <2>1. Typed'
    BY <1>23 DEF QueryFails, Typed, Available, Unlocked, Staged, Locking, Creating, Starting
  <2>2. Staged'
    BY <1>23 DEF QueryFails, Typed, Staged, Available, Unlocked, Staged, Locking, Creating, Starting
  <2>3. Waiting'
    BY <1>23, WaitingKept DEF QueryFails, Typed, Waiting, Available, Unlocked, Staged, Locking, Creating, Starting
  <2>4. Locking'
    BY <1>23 DEF QueryFails, Typed, Locking, Available, Unlocked, Staged, Locking, Creating, Starting
  <2>5. Creating'
    BY <1>23 DEF QueryFails, Typed, Creating, Available, Unlocked, Staged, Locking, Creating, Starting
  <2>6. Starting'
    BY <1>23 DEF QueryFails, Typed, Starting, Available, Unlocked, Staged, Locking, Creating, Starting
  <2> QED
    BY <2>1, <2>2, <2>3, <2>4, <2>5, <2>6
<1>24. CASE UNCHANGED vars
  BY <1>24 DEF vars, Typed, Staged, Waiting, Locking, Creating, Starting
<1> QED
  BY <1>1, <1>2, <1>3, <1>4, <1>5, <1>6, <1>7, <1>8, <1>9, <1>10, <1>11, <1>12, <1>13, <1>14, <1>15, <1>16, <1>17, <1>18, <1>19, <1>20, <1>21, <1>22, <1>23, <1>24 DEF Next, Start, MutationStep, ProjectStep

LEMMA Invariance == Spec => []Inv
BY InvInit, InvStep, PTL DEF Spec

\* Every variable of the store keeps to its type, under either driver.
THEOREM StoreTyped == Spec => []TypeOK
<1>1. Inv => TypeOK
  BY DEF Inv, Typed, TypeOK
<1> QED
  BY Invariance, <1>1, PTL

\* store.ts 181-186 and 266-273: while the API serves, the active project is
\* one that exists.
THEOREM ActiveStays == Spec => []ActiveExists
<1>1. Inv => ActiveExists
  BY DEF Inv, Typed, Starting, ActiveExists
<1> QED
  BY Invariance, <1>1, PTL

-----------------------------------------------------------------------------
(***************************************************************************)
(* The refinement.                                                         *)
(***************************************************************************)
LEMMA SameCalls == Atomic!Calls = Calls
BY DEF Calls, Atomic!Calls

\* What the abstract store sees of a call that goes on.
LEMMA Seen ==
  ASSUME Typed, NEW c \in Calls, NEW from, NEW to, Goes(c, from, to)
  PROVE  /\ Outcome[c] = Progress(c, from)
         /\ Outcome' = [Outcome EXCEPT ![c] = Progress(c, to)]
         /\ Progress(c, from) = Progress(c, to) => Outcome' = Outcome
BY DEF Typed, Goes, Outcome

\* It sees nothing of the call that is handed a connection.
LEMMA SeenHanded ==
  ASSUME Typed, Waiting, NEW c \in Mutations, NEW from, NEW to \in Stages,
         Release(c, from, to), from # "waiting"
  PROVE  /\ Outcome[c] = Progress(c, from)
         /\ Outcome' = [Outcome EXCEPT ![c] = Progress(c, to)]
         /\ Progress(c, from) = Progress(c, to) => Outcome' = Outcome
<1>1. /\ stage' \in [Calls -> Stages]
      /\ stage'[c] = to
      /\ \A d \in Calls : d # c =>
           \/ stage'[d] = stage[d]
           \/ d \in Mutations /\ stage[d] = "waiting" /\ stage'[d] = "connected"
  BY Handed
<1>4. stage[c] = from
  BY DEF Release
<1>2. \A d \in Calls : Progress(d, "waiting") = Progress(d, "connected")
  BY DEF Progress
<1>3. \A d \in Calls : d # c => Progress(d, stage'[d]) = Progress(d, stage[d])
  BY <1>1, <1>2
<1> QED
  BY <1>1, <1>3, <1>4, CallKinds DEF Outcome, Typed

LEMMA RefinedInit == Init => Atomic!AtomicInit
BY SameCalls DEF Init, Atomic!AtomicInit, Outcome, Progress

LEMMA RefinedStep ==
  Inv /\ [Next]_vars => [Atomic!AtomicNext]_<<driver = "postgres", boards, active, Outcome>>
<1> SUFFICES ASSUME Inv, Next
             PROVE  Atomic!AtomicNext \/ UNCHANGED <<driver = "postgres", boards, active, Outcome>>
  BY DEF vars, process, content, Outcome
<1> USE StoreAssumption, CallKinds, SameCalls
    DEF Inv, process, content, transactions, queues, Using, Exists
<1> DEFINE Same == UNCHANGED <<driver = "postgres", boards, active, Outcome>>
<1>1. CASE StartMemory
  <2>1. Outcome' = Outcome
    BY <1>1 DEF StartMemory, Outcome
  <2>2. Atomic!Seed
    BY <1>1, <2>1 DEF StartMemory, Starting, Atomic!Seed, Atomic!Exists
  <2> QED
    BY <2>2 DEF Atomic!AtomicNext
<1>2. CASE LookForRows
  BY <1>2 DEF LookForRows, Outcome
<1>3. CASE SeedRows
  <2>1. Outcome' = Outcome
    BY <1>3 DEF SeedRows, Outcome
  <2>2. Atomic!Seed
    BY <1>3, <2>1 DEF SeedRows, Starting, Atomic!Seed, Atomic!Exists
  <2> QED
    BY <2>2 DEF Atomic!AtomicNext
<1>4. CASE ChooseActive
  <2>1. Outcome' = Outcome
    BY <1>4 DEF ChooseActive, Outcome
  <2>2. CASE active = NoProject
    BY <1>4, <2>1, <2>2 DEF ChooseActive, Atomic!ChooseFirst, Atomic!AtomicNext, Atomic!Exists
  <2>3. CASE active # NoProject
    BY <1>4, <2>1, <2>3 DEF ChooseActive
  <2> QED
    BY <2>2, <2>3
<1>5. CASE Stop
  <2>1. \A c \in Calls : stage'[c] = IF stage[c] \in {"new", "done"} THEN stage[c] ELSE "failed"
    BY <1>5 DEF Stop
  <2>2. \A c \in Calls : Outcome[c] = Progress(c, stage[c]) /\ Outcome'[c] = Progress(c, stage'[c])
    BY DEF Outcome
  <2>3. \A c \in Calls : Outcome'[c] = IF Outcome[c] \in {"pending", "applied"}
                                       THEN "failed" ELSE Outcome[c]
    BY <2>1, <2>2 DEF Progress
  <2>4. Outcome' = [c \in Calls |-> IF Outcome[c] \in {"pending", "applied"}
                                    THEN "failed" ELSE Outcome[c]]
    BY <2>3 DEF Outcome
  <2>5. Atomic!Stop
    BY <1>5, <2>4 DEF Stop, Typed, Atomic!Stop
  <2> QED
    BY <2>5 DEF Atomic!AtomicNext
<1>6. ASSUME NEW c \in Mutations, Chain(c) \/ Connect(c) PROVE Atomic!AtomicNext
  <2>1. PICK to \in {"chained", "connected", "waiting"} : Goes(c, "new", to)
    BY <1>6 DEF Chain, Connect
  <2>2. Outcome[c] = "new" /\ Outcome' = [Outcome EXCEPT ![c] = "pending"]
    BY <2>1, Seen DEF Progress
  <2>3. Atomic!Accept(c)
    BY <1>6, <2>2 DEF Chain, Connect, Atomic!Accept, Atomic!Becomes
  <2> QED
    BY <2>3 DEF Atomic!AtomicNext
<1>7. ASSUME NEW c \in Mutations, MutateMemory(c) PROVE Atomic!AtomicNext
  <2>1. CASE ~ Goes(c, "chained", "failed")
    <3>1. Goes(c, "chained", "unaudited")
      BY <1>7, <2>1 DEF MutateMemory
    <3>2. Outcome[c] = "pending" /\ Outcome' = [Outcome EXCEPT ![c] = "applied"]
      BY <3>1, Seen DEF Progress
    <3>3. Atomic!Apply(c)
      BY <1>7, <2>1, <3>2 DEF MutateMemory, Goes, Typed, Atomic!Apply, Atomic!Becomes, Atomic!Exists
    <3> QED
      BY <3>3 DEF Atomic!AtomicNext
  <2>2. CASE Goes(c, "chained", "failed")
    <3>1. Outcome[c] = "pending" /\ Outcome' = [Outcome EXCEPT ![c] = "failed"]
      BY <2>2, Seen DEF Progress
    <3>2. boards' = boards
      BY <1>7, <2>2 DEF MutateMemory, Goes, Typed
    <3>3. Atomic!Fail(c)
      BY <1>7, <3>1, <3>2 DEF MutateMemory, Atomic!Fail, Atomic!Becomes
    <3> QED
      BY <3>3 DEF Atomic!AtomicNext
  <2> QED
    BY <2>1, <2>2
<1>8. ASSUME NEW c \in Mutations,
             Begin(c) \/ Find(c) \/ Lock(c) \/ Update(c) \/ StatementFails(c)
      PROVE  Same
  <2>1. PICK from \in {"connected", "begun", "locking", "locked", "updated"},
             to \in {"begun", "locking", "locked", "updated", "aborting"} : Goes(c, from, to)
    BY <1>8 DEF Begin, Find, Lock, Update, StatementFails
  <2>2. Outcome' = Outcome
    BY <2>1, Seen DEF Progress
  <2> QED
    BY <1>8, <2>2 DEF Begin, Find, Lock, Update, StatementFails
<1>9. ASSUME NEW c \in Mutations, Commit(c) PROVE Atomic!AtomicNext
  <2>1. PICK to \in {"committed", "unsure"} : Goes(c, "updated", to)
    BY <1>9 DEF Commit
  <2>2. Outcome[c] = "pending" /\ Outcome' = [Outcome EXCEPT ![c] = "applied"]
    BY <2>1, Seen DEF Progress
  <2>3. /\ target[c] \in Projects /\ boards[target[c]] # Missing
        /\ Belongs(c, target[c], boards[target[c]]) /\ ~ Throws(c, boards[target[c]])
        /\ copy[c] = Result(c, boards[target[c]])
    BY <2>1 DEF Goes, Locking, Typed
  <2>4. Atomic!Apply(c)
    BY <1>9, <2>2, <2>3 DEF Commit, Atomic!Apply, Atomic!Becomes, Atomic!Exists
  <2> QED
    BY <2>4 DEF Atomic!AtomicNext
<1>10. ASSUME NEW c \in Mutations, Return(c) PROVE Same
  <2>1. Release(c, "committed", "unaudited")
    BY <1>10 DEF Return
  <2>2. Outcome' = Outcome
    BY <2>1, SeenHanded DEF Progress, Stages
  <2> QED
    BY <1>10, <2>2 DEF Return
<1>11. ASSUME NEW c \in Mutations, Rollback(c) PROVE Atomic!AtomicNext
  <2>1. PICK from \in {"aborting", "unsure"} : Release(c, from, "failed")
    BY <1>11 DEF Rollback
  <2>2. Outcome[c] \in {"pending", "applied"} /\ Outcome' = [Outcome EXCEPT ![c] = "failed"]
    BY <2>1, SeenHanded DEF Progress, Stages
  <2>3. Atomic!Fail(c)
    BY <1>11, <2>2 DEF Rollback, Atomic!Fail, Atomic!Becomes
  <2> QED
    BY <2>3 DEF Atomic!AtomicNext
<1>12. ASSUME NEW c \in Creations \cup Activations, Request(c) PROVE Atomic!AtomicNext
  <2>1. Outcome[c] = "new" /\ Outcome' = [Outcome EXCEPT ![c] = "pending"]
    BY <1>12, Seen DEF Request, Progress
  <2>2. Atomic!Accept(c)
    BY <1>12, <2>1 DEF Request, Atomic!Accept, Atomic!Becomes
  <2> QED
    BY <2>2 DEF Atomic!AtomicNext
<1>13. ASSUME NEW c \in Creations, Save(c) PROVE Atomic!AtomicNext
  <2>1. PICK to \in {"saved", "lost"} : Goes(c, "asked", to)
    BY <1>13 DEF Save
  <2>2. Outcome[c] = "pending" /\ Outcome' = [Outcome EXCEPT ![c] = "applied"]
    BY <2>1, Seen DEF Progress
  <2>3. boards[Place[c]] = Missing
    BY <2>1 DEF Goes, Creating
  <2>4. Atomic!Found(c)
    BY <1>13, <2>2, <2>3 DEF Save, Atomic!Found, Atomic!Becomes, Atomic!Exists
  <2> QED
    BY <2>4 DEF Atomic!AtomicNext
<1>14. ASSUME NEW c \in Creations \cup Activations, Check(c) PROVE Atomic!AtomicNext \/ Same
  <2>1. PICK s \in {"saved", "asked"}, to \in {"checked", "failed"} :
          /\ Goes(c, s, to)
          /\ s = "saved" <=> c \in Creations
          /\ to = "checked" <=> boards[Place[c]] # Missing
    BY <1>14 DEF Check
  <2>2. CASE to = "checked"
    <3>1. Outcome' = Outcome
      BY <2>1, <2>2, Seen DEF Progress
    <3> QED
      BY <1>14, <3>1 DEF Check
  <2>3. CASE to = "failed"
    <3>1. Outcome[c] \in {"pending", "applied"} /\ Outcome' = [Outcome EXCEPT ![c] = "failed"]
      BY <2>1, <2>3, Seen DEF Progress
    <3>2. Atomic!Fail(c)
      BY <1>14, <3>1 DEF Check, Atomic!Fail, Atomic!Becomes
    <3> QED
      BY <3>2 DEF Atomic!AtomicNext
  <2> QED
    BY <2>1, <2>2, <2>3
<1>15. ASSUME NEW c \in Creations \cup Activations, Activate(c) PROVE Atomic!AtomicNext
  <2>1. PICK s \in {"asked", "saved", "checked"}, to \in {"unaudited", "lost", "failed"} :
          /\ Goes(c, s, to)
          /\ IF to = "failed" THEN UNCHANGED active
             ELSE active' = Place[c] /\ boards[Place[c]] # Missing
    BY <1>15 DEF Activate
  <2>2. Outcome[c] \in {"pending", "applied"}
    BY <2>1, Seen DEF Progress
  <2>3. CASE to = "failed"
    <3>1. Outcome' = [Outcome EXCEPT ![c] = "failed"]
      BY <2>1, <2>3, Seen DEF Progress
    <3>2. Atomic!Fail(c)
      BY <1>15, <2>1, <2>2, <2>3, <3>1 DEF Activate, Atomic!Fail, Atomic!Becomes
    <3> QED
      BY <3>2 DEF Atomic!AtomicNext
  <2>4. CASE to # "failed"
    <3>1. Outcome' = [Outcome EXCEPT ![c] = "applied"]
      BY <2>1, <2>4, Seen DEF Progress
    <3>2. Atomic!Choose(c)
      BY <1>15, <2>1, <2>2, <2>4, <3>1 DEF Activate, Atomic!Choose, Atomic!Becomes, Atomic!Exists
    <3> QED
      BY <3>2 DEF Atomic!AtomicNext
  <2> QED
    BY <2>3, <2>4
<1>16. ASSUME NEW c \in Calls, Report(c) \/ QueryFails(c) PROVE Atomic!AtomicNext
  <2>1. PICK s \in {"lost", "asked", "saved", "checked", "unaudited"} : Goes(c, s, "failed")
    BY <1>16 DEF Report, QueryFails
  <2>2. Outcome[c] \in {"pending", "applied"} /\ Outcome' = [Outcome EXCEPT ![c] = "failed"]
    BY <2>1, Seen DEF Progress
  <2>3. Atomic!Fail(c)
    BY <1>16, <2>2 DEF Report, QueryFails, Atomic!Fail, Atomic!Becomes
  <2> QED
    BY <2>3 DEF Atomic!AtomicNext
<1>17. ASSUME NEW c \in Calls, Audit(c) PROVE Atomic!AtomicNext
  <2>1. Outcome[c] = "applied" /\ Outcome' = [Outcome EXCEPT ![c] = "done"]
    BY <1>17, Seen DEF Audit, Progress
  <2>2. Atomic!Answer(c)
    BY <1>17, <2>1 DEF Audit, Atomic!Answer, Atomic!Becomes
  <2> QED
    BY <2>2 DEF Atomic!AtomicNext
<1> QED
  BY <1>1, <1>2, <1>3, <1>4, <1>5, <1>6, <1>7, <1>8, <1>9, <1>10, <1>11, <1>12, <1>13, <1>14,
     <1>15, <1>16, <1>17
  DEF Next, Start, MutationStep, ProjectStep

\* store.ts 98-112 and 212-230: both drivers carry out every mutation in one
\* step on the dashboard as it then is, at most once, and always when they
\* confirm it, whatever fails and whenever the process stops.
THEOREM StoreIsAtomic == Spec => IsAtomic
BY RefinedInit, RefinedStep, Invariance, PTL
DEF Spec, IsAtomic, Atomic!AtomicSpec, Atomic!abstractVars
-----------------------------------------------------------------------------
\* The ids of a project's rules are distinct, and the id of a call that has not
\* been applied is not among them; what touched a project belongs to it.
Tidy(b) ==
  /\ DistinctIds(b)
  /\ \A c \in Mutations : Outcome[c] \in {"new", "pending"} => \A r \in b.rules : r.id # c
  /\ \A c \in b.touched : Change[c].agent \in b.agents

AllTidy == \A p \in Projects : Exists(p) => Tidy(boards[p])

\* A mutation that does not throw leaves the ids distinct, adds at most its own,
\* and leaves an allow rule where there was one.
LEMMA ResultTidy ==
  ASSUME NEW c \in Mutations, NEW p \in Projects, NEW b \in Boards,
         Belongs(c, p, b), ~ Throws(c, b),
         DistinctIds(b), \A r \in b.rules : r.id # c,
         \A d \in b.touched : Change[d].agent \in b.agents
  PROVE  /\ DistinctIds(Result(c, b))
         /\ \A r \in Result(c, b).rules : r.id = c \/ r \in b.rules
         /\ \A d \in Result(c, b).touched : Change[d].agent \in Result(c, b).agents
         /\ Allowing(b) # {} => Allowing(Result(c, b)) # {}
<1>1. /\ Result(c, b) = RuleResult(c, b)
      /\ ~ RuleThrows(c, b)
      /\ RuleBelongs(c, p, b)
      /\ b \in [rules : SUBSET Rules, agents : SUBSET Agents, touched : SUBSET Mutations]
      /\ IsFiniteSet(b.rules)
  BY WorkspaceAssumption
<1>2. CASE Change[c].kind = "add"
  <2> DEFINE r == Rule(c, Change[c].value, Change[c].action)
  <2>1. Result(c, b).rules = b.rules \cup {r} /\ Result(c, b).agents = b.agents /\ Result(c, b).touched = b.touched
    BY <1>1, <1>2 DEF RuleResult
  <2>2. r.id = c
    BY DEF Rule
  <2> HIDE DEF r
  <2> QED
    BY <2>1, <2>2 DEF DistinctIds, Allowing
<1>3. CASE Change[c].kind = "remove"
  <2> DEFINE gone == {r \in b.rules : r.id = Change[c].rule}
  <2>1. /\ Result(c, b).rules = {r \in b.rules : r.id # Change[c].rule}
        /\ Result(c, b).agents = b.agents /\ Result(c, b).touched = b.touched
    BY <1>1, <1>3 DEF RuleResult
  <2>2. ASSUME NEW a \in Allowing(b) PROVE Allowing(Result(c, b)) # {}
    <3>1. CASE a.id # Change[c].rule
      BY <3>1, <2>1 DEF Allowing
    <3>2. CASE a.id = Change[c].rule
      <4>1. Cardinality(Allowing(b)) # 1
        BY <3>2, <1>1, <1>3 DEF RuleThrows
      <4>2. Allowing(b) # {a}
        BY <4>1, FS_Singleton
      <4>3. PICK o \in Allowing(b) : o # a
        BY <4>2
      <4>4. o.id # Change[c].rule
        BY <3>2, <4>3 DEF DistinctIds, Allowing
      <4> QED
        BY <4>3, <4>4, <2>1 DEF Allowing
    <3> QED
      BY <3>1, <3>2
  <2> QED
    BY <2>1, <2>2 DEF DistinctIds
<1>4. CASE Change[c].kind \notin {"add", "remove"}
  <2>1. Result(c, b).rules = b.rules /\ Result(c, b).agents = b.agents /\ Result(c, b).touched = b.touched \cup {c}
    BY <1>1, <1>4 DEF RuleResult
  <2>2. Change[c].kind = "touch" => Change[c].agent \in b.agents
    BY <1>1 DEF RuleBelongs
  <2>3. Change[c].kind = "touch"
    BY <1>4, WorkspaceAssumption
  <2> QED
    BY <2>1, <2>2, <2>3 DEF DistinctIds, Allowing
<1> QED
  BY <1>2, <1>3, <1>4

\* No step takes a call back, and a board that stays is as tidy as before.
Forward ==
  \A c \in Mutations : Outcome'[c] \in {"new", "pending"} => Outcome[c] \in {"new", "pending"}

LEMMA StaysTidy ==
  ASSUME AllTidy, Forward, NEW p \in Projects, Exists(p), boards'[p] = boards[p]
  PROVE  Tidy(boards[p])' /\ (Allowing(boards[p]) # {} => Allowing(boards'[p]) # {})
BY DEF AllTidy, Tidy, Forward, DistinctIds, Allowing, Exists

\* The boards a project starts with.
LEMMA StartsTidy ==
  ASSUME NEW p \in Projects,
         boards'[p] \in {FirstBoard} \cup {Created[c] : c \in Creations}
  PROVE  Tidy(boards[p])'
BY WorkspaceAssumption DEF Tidy, DistinctIds

KeepsAllow == \A p \in Projects :
  Exists(p) /\ Allowing(boards[p]) # {} /\ boards'[p] # Missing => Allowing(boards'[p]) # {}

LEMMA TidyStep == Inv /\ AllTidy /\ [Next]_vars => AllTidy' /\ KeepsAllow
<1> SUFFICES ASSUME Inv, AllTidy, [Next]_vars PROVE AllTidy' /\ KeepsAllow
  OBVIOUS
<1> USE CallKinds, SameCalls
<1>1. /\ boards \in [Projects -> Boards \cup {Missing}]
      /\ Outcome \in [Calls -> {"new", "pending", "applied", "done", "failed"}]
  BY DEF Inv, Typed, Outcome, Progress
<1>2. CASE boards' = boards /\ Forward
  BY <1>2, StaysTidy DEF AllTidy, KeepsAllow, Exists
<1>3. ASSUME NEW c \in Calls, Atomic!Accept(c) \/ Atomic!Answer(c) \/ Atomic!Fail(c)
      PROVE  boards' = boards /\ Forward
  BY <1>1, <1>3 DEF Atomic!Accept, Atomic!Answer, Atomic!Fail, Atomic!Becomes, Forward
<1>4. ASSUME NEW c \in Mutations, Atomic!Apply(c) PROVE AllTidy' /\ KeepsAllow
  <2>1. PICK p \in Projects :
          /\ Exists(p) /\ Belongs(c, p, boards[p]) /\ ~ Throws(c, boards[p])
          /\ boards' = [boards EXCEPT ![p] = Result(c, boards[p])]
    BY <1>4 DEF Atomic!Apply, Atomic!Exists, Exists
  <2>2. Outcome[c] = "pending" /\ Outcome' = [Outcome EXCEPT ![c] = "applied"]
    BY <1>4 DEF Atomic!Apply, Atomic!Becomes
  <2>3. Forward /\ Outcome'[c] = "applied"
    BY <1>1, <2>2 DEF Forward
  <2>4. boards[p] \in Boards /\ Tidy(boards[p])
    BY <1>1, <2>1 DEF AllTidy, Exists
  <2>5. /\ DistinctIds(boards'[p])
        /\ \A r \in boards'[p].rules : r.id = c \/ r \in boards[p].rules
        /\ \A d \in boards'[p].touched : Change[d].agent \in boards'[p].agents
        /\ Allowing(boards[p]) # {} => Allowing(boards'[p]) # {}
    <3>1. boards'[p] = Result(c, boards[p])
      BY <1>1, <2>1
    <3> QED
      BY <2>1, <2>2, <2>4, <3>1, ResultTidy DEF Tidy
  <2>6. Tidy(boards[p])'
    BY <2>3, <2>4, <2>5 DEF Tidy, Forward, DistinctIds
  <2>7. \A q \in Projects : q # p => boards'[q] = boards[q]
    BY <1>1, <2>1
  <2>8. AllTidy'
    <3> SUFFICES ASSUME NEW q \in Projects, boards'[q] # Missing PROVE Tidy(boards[q])'
      BY DEF AllTidy, Exists
    <3> QED
      BY <2>3, <2>6, <2>7, StaysTidy DEF Exists
  <2>9. KeepsAllow
    BY <2>5, <2>7 DEF KeepsAllow
  <2> QED
    BY <2>8, <2>9
<1>5. ASSUME NEW c \in Creations, Atomic!Found(c) PROVE AllTidy' /\ KeepsAllow
  <2>1. /\ ~ Exists(Place[c])
        /\ boards' = [boards EXCEPT ![Place[c]] = Created[c]]
        /\ Forward
    BY <1>1, <1>5 DEF Atomic!Found, Atomic!Becomes, Atomic!Exists, Exists, Forward
  <2>2. \A q \in Projects : boards'[q] = IF q = Place[c] THEN Created[c] ELSE boards[q]
    BY <1>1, <2>1
  <2> QED
    BY <2>1, <2>2, StaysTidy, StartsTidy DEF AllTidy, KeepsAllow, Exists
<1>6. ASSUME NEW c \in Creations \cup Activations, Atomic!Choose(c)
      PROVE  boards' = boards /\ Forward
  BY <1>1, <1>6 DEF Atomic!Choose, Atomic!Becomes, Forward
<1>7. CASE Atomic!Seed
  <2>1. /\ \A q \in Projects : ~ Exists(q)
        /\ boards' = [boards EXCEPT ![FirstProject] = FirstBoard]
    BY <1>7 DEF Atomic!Seed, Atomic!Exists, Exists
  <2> QED
    BY <1>1, <2>1, StartsTidy DEF AllTidy, KeepsAllow, Exists
<1>8. CASE Atomic!ChooseFirst
  BY <1>2, <1>8 DEF Atomic!ChooseFirst, Forward
<1>9. CASE Atomic!Stop
  <2>1. Forward
    BY <1>1, <1>9 DEF Atomic!Stop, Forward
  <2>2. boards' = boards \/ \A q \in Projects : boards'[q] = Missing
    BY <1>9 DEF Atomic!Stop
  <2>3. CASE \A q \in Projects : boards'[q] = Missing
    BY <2>3 DEF AllTidy, KeepsAllow, Exists
  <2> QED
    BY <1>2, <2>1, <2>2, <2>3
<1>10. CASE UNCHANGED <<driver = "postgres", boards, active, Outcome>>
  BY <1>2, <1>10 DEF Forward
<1> QED
  BY RefinedStep, <1>2, <1>3, <1>4, <1>5, <1>6, <1>7, <1>8, <1>9, <1>10 DEF Atomic!AtomicNext

LEMMA TidyInit == Init => AllTidy
BY DEF Init, AllTidy, Exists

LEMMA AlwaysTidy == Spec => []AllTidy
BY TidyInit, TidyStep, Invariance, PTL DEF Spec

\* store.ts 80-96 and 199-209: a mutation addressed to an agent changed the
\* project that has the agent, for every interleaving of the calls.
THEOREM TouchedItsProject == Spec => []TouchesItsProject
<1>1. AllTidy => TouchesItsProject
  BY DEF AllTidy, Tidy, TouchesItsProject
<1> QED
  BY AlwaysTidy, <1>1, PTL

\* server.ts 134: whatever rules are added and removed at the same moment, a
\* project with an allow rule keeps one.
THEOREM AllowRuleStays == Spec => LastAllowKept
<1>1. Inv /\ AllTidy /\ [Next]_vars => [KeepsAllow]_vars
  BY TidyStep
<1>2. [KeepsAllow]_vars <=> [\A p \in Projects :
       Exists(p) /\ Allowing(boards[p]) # {} /\ boards'[p] # Missing
         => Allowing(boards'[p]) # {}]_vars
  BY DEF KeepsAllow
<1> QED
  BY <1>1, <1>2, Invariance, AlwaysTidy, PTL DEF Spec, LastAllowKept
=============================================================================
