-------------------------- MODULE CopyEditsProofs ---------------------------
(***************************************************************************)
(* Theorems about CopyEdits, for any number of texts, pages, files,        *)
(* commits, repairs, edits and faults, and chunks of any size.             *)
(***************************************************************************)
EXTENDS CopyEdits, TLAPS

-----------------------------------------------------------------------------
(***************************************************************************)
(* The inductive invariant.                                                *)
(***************************************************************************)
Entries == [id : Nat, text : Nat]

\* An edit of e that the page has not been told of, of the first n saved.
Fresh(e, entry, tld, n) ==
  /\ entry \in Entries
  /\ 1 <= entry.id /\ entry.id <= entry.text /\ entry.text <= n
  /\ tld[e] < entry.text

Buffer ==
  /\ saves \in 0..MaxSaves
  /\ staged \in [Elements -> {Absent} \cup Entries]
  /\ told \in [Elements -> 0..MaxSaves]
  /\ \A e \in Elements : told[e] <= saves
  /\ \A e \in Elements : staged[e] # Absent => Fresh(e, staged[e], told, saves)
  /\ \A e, d \in Elements :
       staged[e] # Absent /\ staged[d] # Absent /\ staged[e].id = staged[d].id => e = d

IsCommit(r) ==
  r = [at |-> r.at, page |-> r.page, batch |-> r.batch, before |-> r.before,
       todo |-> r.todo, applied |-> r.applied, failed |-> r.failed, files |-> r.files,
       status |-> r.status, attempt |-> r.attempt, pushed |-> r.pushed,
       transaction |-> r.transaction]

\* What is staged for an element is the edit a commit has of it, or a later one.
Later(old, new) == new.text > old.text \/ (new.id = old.id /\ new.text >= old.text)

\* A commit has edits of its page that were not applied, the ids of its entries
\* are those of no other element, and its snapshot has all of their files.
Sound(r, stg, tld, n) ==
  /\ DOMAIN r.batch \subseteq Elements
  /\ r.applied \subseteq DOMAIN r.batch /\ r.todo \subseteq DOMAIN r.batch
  /\ r.attempt \in 0..MaxRepairs
  /\ IsSnapshot(r.before) /\ DOMAIN r.before = Scope(r.batch)
  /\ \A e \in DOMAIN r.batch :
       /\ Page[e] = r.page
       /\ Fresh(e, r.batch[e], tld, n)
       /\ stg[e] # Absent => Later(r.batch[e], stg[e])
       /\ \A d \in Elements : stg[d] # Absent /\ stg[d].id = r.batch[e].id => d = e

\* At most one commit of a page is under way.
Working ==
  /\ commit = [c \in Commits |-> commit[c]]
  /\ \A c \in Commits :
       /\ IsCommit(commit[c])
       /\ commit[c].at \in {"new", "waiting", "undecided", "ended", "lost"}
       /\ commit[c].attempt \in 0..MaxRepairs
       /\ commit[c].at = "waiting" => Sound(commit[c], staged, told, saves)
  /\ \A c, d \in Commits :
       commit[c].at = "waiting" /\ commit[d].at = "waiting" /\ commit[c].page = commit[d].page
         => c = d

IsEvent(w) ==
  /\ w = [id |-> <<w.id[1], w.id[2]>>, state |-> w.state, part |-> w.part, before |-> w.before]
  /\ w.id[1] \in Commits
  /\ w.state \in {"queued", "taken", "stale"}
  /\ IsBatch(w.part) /\ IsSnapshot(w.before)

\* An event is about entries of its commit.
About(w) ==
  /\ commit[w.id[1]].at # "new"
  /\ commit[w.id[1]].at = "waiting" => DOMAIN w.part \subseteq DOMAIN commit[w.id[1]].batch

Events == \A w \in work : IsEvent(w) /\ About(w)

IsTransaction(t) ==
  t = Absent \/ /\ t.id \in Commits /\ t.page \in Pages
                /\ t.entries \subseteq 1..MaxSaves /\ IsSnapshot(t.before)

Files ==
  /\ source \in [Elements -> Texts]
  /\ IsTransaction(transaction)
  /\ stops \in Nat /\ late \in Nat /\ stops + late \in 0..MaxFaults

Inv == Buffer /\ Working /\ Events /\ Files

(***************************************************************************)
(* What a commit may go on with: a record of its own and a turn so far.    *)
(***************************************************************************)
Eligible(c, r) ==
  /\ IsCommit(r)
  /\ Sound(r, staged, told, saves)
  /\ commit[c].at \in {"new", "waiting"}
  /\ \A d \in Commits : commit[d].at = "waiting" /\ commit[d].page = r.page => d = c

IsTurn(now) == now = [source |-> now.source, staged |-> now.staged,
                      transaction |-> now.transaction, work |-> now.work]

Given(c, batch, now) ==
  /\ IsTurn(now)
  /\ now.source \in [Elements -> Texts]
  /\ now.staged \in [Elements -> {Absent} \cup Entries]
  /\ \A e \in Elements : now.staged[e] = Absent \/ now.staged[e] = staged[e]
  /\ IsTransaction(now.transaction)
  /\ \A w \in now.work : /\ IsEvent(w)
                         /\ w.id[1] = c => DOMAIN w.part \subseteq DOMAIN batch
                         /\ w.id[1] # c => About(w)

\* What leaves the buffer in the rest of the turn was written and the page told.
Confirmed(now) ==
  \A e \in Elements :
    now.staged[e] # Absent /\ staged'[e] = Absent => told'[e] # told[e] /\ source'[e] = told'[e]

-----------------------------------------------------------------------------
(***************************************************************************)
(* Helpers.                                                                *)
(***************************************************************************)
LEMMA NatBounds ==
  /\ MaxRepairs \in Nat /\ MaxSaves \in Nat /\ MaxFaults \in Nat
  /\ \A b \in Entries : b # Absent
BY CopyAssumption DEF CopyAssumption, Entries

LEMMA RestoredTyped ==
  ASSUME NEW src \in [Elements -> Texts], NEW before, IsSnapshot(before)
  PROVE  Restored(src, before) \in [Elements -> Texts]
BY DEF Restored, IsSnapshot

LEMMA SnapshotTyped ==
  ASSUME NEW src \in [Elements -> Texts], NEW batch
  PROVE  IsSnapshot(Snapshot(batch, src))
BY DEF Snapshot, Scope, IsSnapshot

\* A batch of fresh entries is one of TypeOK's.
LEMMA BatchTyped ==
  ASSUME NEW batch, NEW n \in 0..MaxSaves, NEW tld, DOMAIN batch \subseteq Elements,
         \A e \in DOMAIN batch : Fresh(e, batch[e], tld, n)
  PROVE  IsBatch(batch)
BY NatBounds DEF IsBatch, Fresh, Entries

LEMMA RecoveredTyped ==
  ASSUME Inv, NEW p
  PROVE  /\ RecoveredSource(p) \in [Elements -> Texts]
         /\ IsTransaction(RecoveredTransaction(p))
BY RestoredTyped DEF Inv, Files, RecoveredSource, RecoveredTransaction, IsTransaction, Recovers

LEMMA ClearedTyped ==
  ASSUME NEW t, IsTransaction(t), NEW id
  PROVE  IsTransaction(Cleared(t, id))
BY DEF Cleared, IsTransaction

-----------------------------------------------------------------------------
(***************************************************************************)
(* Updates of a commit's record.                                           *)
(***************************************************************************)
LEMMA NoCommitFields ==
  /\ IsCommit(NoCommit) /\ NoCommit.attempt = 0
  /\ \A at : /\ IsCommit([NoCommit EXCEPT !.at = at])
             /\ [NoCommit EXCEPT !.at = at].at = at
             /\ [NoCommit EXCEPT !.at = at].attempt = 0
<1>1. IsCommit(NoCommit) /\ NoCommit.attempt = 0
  BY DEF NoCommit, IsCommit
<1>2. ASSUME NEW r, IsCommit(r), NEW at
      PROVE  /\ IsCommit([r EXCEPT !.at = at])
             /\ [r EXCEPT !.at = at].at = at
             /\ [r EXCEPT !.at = at].attempt = r.attempt
  BY <1>2 DEF IsCommit
<1> QED
  BY <1>1, <1>2

LEMMA EligibleUpdate ==
  ASSUME NEW c, NEW r, Eligible(c, r), NEW s, IsCommit(s),
         s.batch = r.batch, s.page = r.page, s.before = r.before,
         s.applied \subseteq DOMAIN r.batch, s.todo \subseteq DOMAIN r.batch,
         s.attempt \in 0..MaxRepairs
  PROVE  Eligible(c, s)
BY DEF Eligible, Sound

LEMMA PushedFields ==
  ASSUME NEW r, IsCommit(r), NEW s, s = [r EXCEPT !.at = "waiting", !.pushed = @ + 1]
  PROVE  /\ IsCommit(s) /\ s.at = "waiting"
         /\ s.batch = r.batch /\ s.page = r.page /\ s.before = r.before
         /\ s.applied = r.applied /\ s.todo = r.todo /\ s.attempt = r.attempt
         /\ s.transaction = r.transaction
BY DEF IsCommit

LEMMA TodoFields ==
  ASSUME NEW r, IsCommit(r), NEW S, NEW s, s = [r EXCEPT !.todo = S]
  PROVE  /\ IsCommit(s) /\ s.todo = S
         /\ s.batch = r.batch /\ s.page = r.page /\ s.before = r.before
         /\ s.applied = r.applied /\ s.attempt = r.attempt
         /\ s.transaction = r.transaction
BY DEF IsCommit

LEMMA AttemptFields ==
  ASSUME NEW r, IsCommit(r), NEW s, s = [r EXCEPT !.attempt = @ + 1, !.failed = {}]
  PROVE  /\ IsCommit(s) /\ s.attempt = r.attempt + 1
         /\ s.batch = r.batch /\ s.page = r.page /\ s.before = r.before
         /\ s.applied = r.applied /\ s.todo = r.todo
         /\ s.transaction = r.transaction
BY DEF IsCommit

-----------------------------------------------------------------------------
(***************************************************************************)
(* A turn of a commit.                                                     *)
(***************************************************************************)
\* Entries that are only removed, and texts that are told when their entry is gone.
LEMMA BufferShrinks ==
  ASSUME Inv, NEW c, NEW r, Eligible(c, r), NEW gone, gone \subseteq r.applied,
         saves' = saves,
         staged' \in [Elements -> {Absent} \cup Entries],
         \A e \in Elements : staged'[e] = Absent \/ staged'[e] = staged[e],
         \A e \in Elements : told'[e] = IF e \in gone THEN r.batch[e].text ELSE told[e],
         told' \in [Elements -> 0..MaxSaves],
         \A e \in gone : staged'[e] # Absent => staged'[e].id # r.batch[e].id
  PROVE  /\ Buffer'
         /\ \A d \in Commits : commit[d].at = "waiting" /\ (d # c \/ gone = {}) =>
              Sound(commit[d], staged', told', saves')
         /\ gone = {} => Eligible(c, r) /\ Sound(r, staged', told', saves')
<1>1. \A e \in DOMAIN r.batch : /\ e \in Elements
                                /\ Page[e] = r.page
                                /\ Fresh(e, r.batch[e], told, saves)
                                /\ staged[e] # Absent => Later(r.batch[e], staged[e])
  BY DEF Eligible, Sound
<1>2. gone \subseteq DOMAIN r.batch
  BY DEF Eligible, Sound
<1>3. \A e \in Elements : staged'[e] # Absent => Fresh(e, staged'[e], told', saves')
  <2> SUFFICES ASSUME NEW e \in Elements, staged'[e] # Absent
               PROVE  Fresh(e, staged'[e], told', saves')
    OBVIOUS
  <2>1. staged'[e] = staged[e] /\ Fresh(e, staged[e], told, saves)
    BY DEF Inv, Buffer
  <2>2. CASE e \notin gone
    BY <2>1, <2>2 DEF Fresh
  <2>3. CASE e \in gone
    <3>1. Later(r.batch[e], staged[e]) /\ staged[e].id # r.batch[e].id
      BY <1>1, <1>2, <2>1, <2>3
    <3>2. told'[e] = r.batch[e].text
      BY <2>3
    <3> QED
      BY <1>1, <1>2, <2>1, <2>3, <3>1, <3>2 DEF Fresh, Later, Entries
  <2> QED
    BY <2>2, <2>3
<1>4. Buffer'
  <2>1. \A e \in Elements : told'[e] <= saves'
    BY <1>1, <1>2 DEF Inv, Buffer, Fresh
  <2> QED
    BY <1>3, <2>1 DEF Inv, Buffer
<1>5. ASSUME NEW s, Sound(s, staged, told, saves), \A e \in DOMAIN s.batch : e \notin gone
      PROVE  Sound(s, staged', told', saves')
  <2>1. \A e \in DOMAIN s.batch : e \in Elements /\ told'[e] = told[e]
    BY <1>5 DEF Sound
  <2> QED
    BY <1>5, <2>1 DEF Sound, Fresh
<1>6. ASSUME NEW d \in Commits, commit[d].at = "waiting", d # c
      PROVE  Sound(commit[d], staged', told', saves')
  <2>1. Sound(commit[d], staged, told, saves) /\ commit[d].page # r.page
    BY <1>6 DEF Inv, Working, Eligible
  <2>2. \A e \in DOMAIN commit[d].batch : e \notin gone
    BY <1>1, <1>2, <2>1 DEF Sound
  <2> QED
    BY <1>5, <2>1, <2>2
<1>7. ASSUME gone = {}
      PROVE  /\ Sound(r, staged', told', saves')
             /\ \A d \in Commits : commit[d].at = "waiting" => Sound(commit[d], staged', told', saves')
  BY <1>5, <1>7 DEF Inv, Working, Eligible
<1> QED
  BY <1>4, <1>6, <1>7

LEMMA TurnKeeps ==
  ASSUME Inv, NEW c \in Commits, NEW r, Eligible(c, r), NEW gone, gone \subseteq r.applied,
         UNCHANGED <<saves, stops, late>>,
         source' \in [Elements -> Texts],
         IsTransaction(transaction'),
         staged' \in [Elements -> {Absent} \cup Entries],
         \A e \in Elements : staged'[e] = Absent \/ staged'[e] = staged[e],
         \A e \in Elements : told'[e] = IF e \in gone THEN r.batch[e].text ELSE told[e],
         told' \in [Elements -> 0..MaxSaves],
         \A e \in gone : staged'[e] # Absent => staged'[e].id # r.batch[e].id,
         NEW s, IsCommit(s), s.at \in {"waiting", "undecided", "ended"},
         s.attempt \in 0..MaxRepairs,
         commit' = [commit EXCEPT ![c] = s],
         s.at = "waiting" => gone = {} /\ Eligible(c, s) /\ s.page = r.page
                                       /\ s.batch = r.batch,
         \A w \in work' : /\ IsEvent(w)
                          /\ w.id[1] = c => DOMAIN w.part \subseteq DOMAIN r.batch
                          /\ w.id[1] # c => About(w)
  PROVE  Inv'
<1>1. Buffer'
  BY BufferShrinks
<1>2. /\ commit' = [d \in Commits |-> commit'[d]]
      /\ commit'[c] = s
      /\ \A d \in Commits : d # c => commit'[d] = commit[d]
  BY DEF Inv, Working
<1>3. \A d \in Commits : commit'[d].at = "waiting" => Sound(commit'[d], staged', told', saves')
  <2> SUFFICES ASSUME NEW d \in Commits, commit'[d].at = "waiting"
               PROVE  Sound(commit'[d], staged', told', saves')
    OBVIOUS
  <2>1. CASE d # c
    BY <1>2, <2>1, BufferShrinks
  <2>2. CASE d = c
    <3>1. gone = {} /\ Eligible(c, s)
      BY <1>2, <2>2
    <3>2. \A e \in {} : staged'[e] # Absent => staged'[e].id # s.batch[e].id
      OBVIOUS
    <3>3. \A e \in Elements : told'[e] = IF e \in {} THEN s.batch[e].text ELSE told[e]
      BY <3>1
    <3> QED
      BY <1>2, <2>2, <3>1, <3>2, <3>3, BufferShrinks
  <2> QED
    BY <2>1, <2>2
<1>4. \A d \in Commits : /\ IsCommit(commit'[d])
                         /\ commit'[d].at \in {"new", "waiting", "undecided", "ended", "lost"}
                         /\ commit'[d].attempt \in 0..MaxRepairs
  <2> SUFFICES ASSUME NEW d \in Commits
               PROVE  /\ IsCommit(commit'[d])
                      /\ commit'[d].at \in {"new", "waiting", "undecided", "ended", "lost"}
                      /\ commit'[d].attempt \in 0..MaxRepairs
    OBVIOUS
  <2>1. CASE d # c
    BY <1>2, <2>1 DEF Inv, Working
  <2>2. CASE d = c
    BY <1>2, <2>2
  <2> QED
    BY <2>1, <2>2
<1>5. ASSUME NEW d \in Commits, NEW x \in Commits, commit'[d].at = "waiting",
             commit'[x].at = "waiting", commit'[d].page = commit'[x].page
      PROVE  d = x
  <2>1. s.at = "waiting" => s.page = r.page
    OBVIOUS
  <2>2. \A y \in Commits : y # c /\ commit[y].at = "waiting" => commit[y].page # r.page
    BY DEF Eligible
  <2> QED
    BY <1>2, <1>5, <2>1, <2>2 DEF Inv, Working
<1>6. Working'
  BY <1>2, <1>3, <1>4, <1>5 DEF Working
<1>7. Events'
  <2> SUFFICES ASSUME NEW w \in work' PROVE IsEvent(w) /\ About(w)'
    BY DEF Events
  <2>1. IsEvent(w) /\ w.id[1] \in Commits
    BY DEF IsEvent
  <2>2. CASE w.id[1] # c
    BY <1>2, <2>1, <2>2 DEF About
  <2>3. CASE w.id[1] = c
    BY <1>2, <2>1, <2>3 DEF About
  <2> QED
    BY <2>1, <2>2, <2>3
<1>8. Files'
  BY DEF Inv, Files
<1> QED
  BY <1>1, <1>6, <1>7, <1>8 DEF Inv

\* The commit goes on, or ends, without telling the page anything.
LEMMA SilentTurnKeeps ==
  ASSUME Inv, NEW c \in Commits, NEW r, Eligible(c, r), NEW now, Given(c, r.batch, now),
         Turn(now), UNCHANGED told, UNCHANGED <<saves, stops, late>>,
         NEW s, IsCommit(s), s.at \in {"waiting", "undecided", "ended"},
         s.attempt \in 0..MaxRepairs, commit' = [commit EXCEPT ![c] = s],
         s.at = "waiting" => Eligible(c, s) /\ s.page = r.page /\ s.batch = r.batch
  PROVE  Inv' /\ Confirmed(now)
<1>1. /\ source' = now.source /\ staged' = now.staged
      /\ transaction' = now.transaction /\ work' = now.work
  BY DEF Turn
<1>2. Confirmed(now)
  BY <1>1 DEF Confirmed
<1>3. PICK gone : gone = {}
  OBVIOUS
<1>4. \A e \in Elements : told'[e] = IF e \in gone THEN r.batch[e].text ELSE told[e]
  BY <1>3
<1>5. told' \in [Elements -> 0..MaxSaves]
  BY DEF Inv, Buffer
<1>6. \A e \in gone : staged'[e] # Absent => staged'[e].id # r.batch[e].id
  BY <1>3
<1>7. gone \subseteq r.applied
  BY <1>3
<1>8. /\ source' \in [Elements -> Texts]
      /\ IsTransaction(transaction')
      /\ staged' \in [Elements -> {Absent} \cup Entries]
      /\ \A e \in Elements : staged'[e] = Absent \/ staged'[e] = staged[e]
      /\ \A w \in work' : /\ IsEvent(w)
                          /\ w.id[1] = c => DOMAIN w.part \subseteq DOMAIN r.batch
                          /\ w.id[1] # c => About(w)
  BY <1>1 DEF Given
<1>9. s.at = "waiting" => gone = {} /\ Eligible(c, s) /\ s.page = r.page /\ s.batch = r.batch
  BY <1>3
<1>10. Inv'
  BY <1>4, <1>5, <1>6, <1>7, <1>8, <1>9, TurnKeeps
<1> QED
  BY <1>2, <1>10

\* Push: the commit waits for another event, with an event of its own.
LEMMA PushKeeps ==
  ASSUME Inv, NEW c \in Commits, NEW r, Eligible(c, r), NEW now, Given(c, r.batch, now),
         NEW part, DOMAIN part \subseteq DOMAIN r.batch,
         \A e \in DOMAIN part : part[e] = r.batch[e],
         Push(c, r, part, now), UNCHANGED <<saves, stops, late>>
  PROVE  Inv' /\ Confirmed(now)
<1>1. PICK s : s = [r EXCEPT !.at = "waiting", !.pushed = @ + 1]
  OBVIOUS
<1>2. PICK event : event = [id |-> <<c, r.pushed + 1>>, state |-> "queued", part |-> part,
                            before |-> Snapshot(part, now.source)]
  OBVIOUS
<1>3. PICK events : events = now.work \cup {event}
  OBVIOUS
<1>4. PICK n : n = [now EXCEPT !.work = events]
  OBVIOUS
<1>5. /\ IsCommit(s) /\ s.at = "waiting"
      /\ s.batch = r.batch /\ s.page = r.page /\ s.before = r.before
      /\ s.applied = r.applied /\ s.todo = r.todo /\ s.attempt = r.attempt
  BY <1>1, PushedFields DEF Eligible
<1>6. Eligible(c, s) /\ s.attempt \in 0..MaxRepairs
  BY <1>5, EligibleUpdate DEF Eligible, Sound
<1>7. IsBatch(part)
  <2>1. DOMAIN part \subseteq Elements /\ \A e \in DOMAIN part : Fresh(e, part[e], told, saves)
    BY DEF Eligible, Sound
  <2>2. saves \in 0..MaxSaves
    BY DEF Inv, Buffer
  <2> QED
    BY <2>1, <2>2, BatchTyped
<1>8. IsSnapshot(Snapshot(part, now.source))
  BY SnapshotTyped DEF Given
<1>9. event.id[1] = c /\ event.part = part /\ IsEvent(event)
  BY <1>2, <1>7, <1>8 DEF IsEvent
<1>10. \A w \in events : /\ IsEvent(w)
                         /\ w.id[1] = c => DOMAIN w.part \subseteq DOMAIN r.batch
                         /\ w.id[1] # c => About(w)
  BY <1>3, <1>9 DEF Given
<1>11. Given(c, r.batch, n) /\ n.staged = now.staged
  <2>1. /\ n = [source |-> n.source, staged |-> n.staged,
                transaction |-> n.transaction, work |-> n.work]
        /\ n.source = now.source /\ n.staged = now.staged
        /\ n.transaction = now.transaction /\ n.work = events
    BY <1>4 DEF Given, IsTurn
  <2> QED
    BY <1>10, <2>1 DEF Given, IsTurn
<1>12. commit' = [commit EXCEPT ![c] = s] /\ Turn(n) /\ UNCHANGED told
  BY <1>1, <1>2, <1>3, <1>4 DEF Push
<1>13. Inv' /\ Confirmed(n)
  BY <1>5, <1>6, <1>11, <1>12, SilentTurnKeeps
<1> QED
  BY <1>11, <1>13 DEF Confirmed

LEMMA ReturnsRecord ==
  ASSUME NEW c, NEW at, at \in {"undecided", "ended"}, NEW files, Returns(c, at, files)
  PROVE  \E s : /\ IsCommit(s) /\ s.at = at /\ s.attempt = 0 /\ s.files = files
                /\ commit' = [commit EXCEPT ![c] = s]
<1>1. PICK s : s = [NoCommit EXCEPT !.at = at, !.files = files]
  OBVIOUS
<1>2. PICK r : r = NoCommit
  OBVIOUS
<1>3. IsCommit(r) /\ r.attempt = 0 /\ s = [r EXCEPT !.at = at, !.files = files]
  BY <1>1, <1>2, NoCommitFields
<1>4. IsCommit(s) /\ s.at = at /\ s.attempt = 0 /\ s.files = files
  BY <1>3 DEF IsCommit
<1> QED
  BY <1>1, <1>4 DEF Returns

\* What the two ends of a commit make of the state.
LEMMA AcceptTurn ==
  ASSUME NEW c, NEW r, NEW now, IsTurn(now), Accept(c, r, now)
  PROVE  /\ source' = now.source /\ staged' = Unstaged(r, now.staged) /\ work' = now.work
         /\ transaction' = Cleared(now.transaction, r.transaction)
         /\ told' = [e \in Elements |-> IF e \in r.applied THEN r.batch[e].text ELSE told[e]]
         /\ Returns(c, "ended", r.files)
<1>1. PICK stg : stg = Unstaged(r, now.staged)
  OBVIOUS
<1>2. PICK m : m = [now EXCEPT !.staged = stg]
  OBVIOUS
<1>3. m.source = now.source /\ m.staged = stg /\ m.work = now.work
      /\ m.transaction = now.transaction /\ IsTurn(m)
  BY <1>2 DEF IsTurn
<1>4. PICK n : n = Finally(r, m)
  OBVIOUS
<1>5. n.source = now.source /\ n.staged = stg /\ n.work = now.work
      /\ n.transaction = Cleared(now.transaction, r.transaction)
  BY <1>3, <1>4 DEF Finally, IsTurn
<1>6. Turn(n) /\ Returns(c, "ended", r.files)
      /\ told' = [e \in Elements |-> IF e \in r.applied THEN r.batch[e].text ELSE told[e]]
  BY <1>1, <1>2, <1>4 DEF Accept
<1> QED
  BY <1>1, <1>5, <1>6 DEF Turn

LEMMA UndoTurn ==
  ASSUME NEW c, NEW r, NEW now, IsTurn(now), Undo(c, r, now)
  PROVE  /\ source' = Restored(now.source, r.before) /\ staged' = now.staged /\ work' = now.work
         /\ transaction' = Cleared(now.transaction, r.transaction) /\ told' = told
         /\ Returns(c, "ended", r.files)
<1>1. PICK src : src = Restored(now.source, r.before)
  OBVIOUS
<1>2. PICK m : m = [now EXCEPT !.source = src]
  OBVIOUS
<1>3. m.source = src /\ m.staged = now.staged /\ m.work = now.work
      /\ m.transaction = now.transaction /\ IsTurn(m)
  BY <1>2 DEF IsTurn
<1>4. PICK n : n = Finally(r, m)
  OBVIOUS
<1>5. n.source = src /\ n.staged = now.staged /\ n.work = now.work
      /\ n.transaction = Cleared(now.transaction, r.transaction)
  BY <1>3, <1>4 DEF Finally, IsTurn
<1>6. Turn(n) /\ Returns(c, "ended", r.files) /\ UNCHANGED told
  BY <1>1, <1>2, <1>4 DEF Undo
<1> QED
  BY <1>1, <1>5, <1>6 DEF Turn

\* Accept: every entry that is cleared is one of the commit's own, whose new text
\* was verified in the source.
LEMMA AcceptKeeps ==
  ASSUME Inv, NEW c \in Commits, NEW r, Eligible(c, r), NEW now, Given(c, r.batch, now),
         Verified(r, now.source), Accept(c, r, now), UNCHANGED <<saves, stops, late>>
  PROVE  Inv' /\ Confirmed(now)
<1>1. PICK stg : stg = Unstaged(r, now.staged)
  OBVIOUS
<1>2. /\ source' = now.source /\ staged' = stg /\ work' = now.work
      /\ transaction' = Cleared(now.transaction, r.transaction)
      /\ told' = [e \in Elements |-> IF e \in r.applied THEN r.batch[e].text ELSE told[e]]
      /\ Returns(c, "ended", r.files)
  BY <1>1, AcceptTurn DEF Given
<1>3. /\ stg \in [Elements -> {Absent} \cup Entries]
      /\ \A e \in Elements : stg[e] = Absent \/ stg[e] = now.staged[e]
  BY <1>1 DEF Unstaged, Given
<1>4. \A e \in r.applied : /\ e \in Elements /\ e \in DOMAIN r.batch
                           /\ Fresh(e, r.batch[e], told, saves)
                           /\ \A d \in Elements :
                                staged[d] # Absent /\ staged[d].id = r.batch[e].id => d = e
  BY DEF Eligible, Sound
<1>5. told' \in [Elements -> 0..MaxSaves]
  <2>1. saves \in 0..MaxSaves /\ told \in [Elements -> 0..MaxSaves]
    BY DEF Inv, Buffer
  <2>2. \A e \in r.applied : r.batch[e].text \in 0..MaxSaves
    BY <1>4, <2>1, NatBounds DEF Fresh, Entries
  <2> QED
    BY <1>2, <2>1, <2>2
<1>6. \A e \in r.applied : stg[e] # Absent => stg[e].id # r.batch[e].id
  <2> SUFFICES ASSUME NEW e \in r.applied, stg[e] # Absent, stg[e].id = r.batch[e].id
               PROVE  FALSE
    OBVIOUS
  <2>1. r.batch[e].id \in {r.batch[d].id : d \in r.applied}
    OBVIOUS
  <2>2. stg[e] = now.staged[e]
    BY <1>3, <1>4
  <2> QED
    BY <1>1, <1>4, <2>1, <2>2 DEF Unstaged
<1>7. Confirmed(now)
  <2> SUFFICES ASSUME NEW e \in Elements, now.staged[e] # Absent, staged'[e] = Absent
               PROVE  told'[e] # told[e] /\ source'[e] = told'[e]
    BY DEF Confirmed
  <2>1. now.staged[e].id \in {r.batch[d].id : d \in r.applied}
    BY <1>1, <1>2 DEF Unstaged
  <2>2. PICK d \in r.applied : now.staged[e].id = r.batch[d].id
    BY <2>1
  <2>3. now.staged[e] = staged[e]
    BY DEF Given
  <2>4. e = d
    BY <1>4, <2>2, <2>3
  <2>5. told'[e] = r.batch[e].text /\ now.source[e] = r.batch[e].text
    BY <1>2, <2>4 DEF Verified
  <2>6. told[e] < r.batch[e].text /\ told[e] \in 0..MaxSaves /\ r.batch[e].text \in Nat
    BY <1>4, <2>4 DEF Fresh, Entries, Inv, Buffer
  <2> QED
    BY <1>2, <2>5, <2>6, NatBounds
<1>8. PICK s : /\ IsCommit(s) /\ s.at = "ended" /\ s.attempt = 0
                /\ commit' = [commit EXCEPT ![c] = s]
  BY <1>2, ReturnsRecord
<1>9. s.attempt \in 0..MaxRepairs
  BY <1>8, NatBounds
<1>10. PICK gone : gone = r.applied
  OBVIOUS
<1>11. /\ gone \subseteq r.applied
       /\ \A e \in Elements : told'[e] = IF e \in gone THEN r.batch[e].text ELSE told[e]
       /\ \A e \in gone : staged'[e] # Absent => staged'[e].id # r.batch[e].id
  BY <1>2, <1>6, <1>10
<1>12. /\ source' \in [Elements -> Texts]
       /\ IsTransaction(transaction')
       /\ staged' \in [Elements -> {Absent} \cup Entries]
       /\ \A e \in Elements : staged'[e] = Absent \/ staged'[e] = staged[e]
       /\ \A w \in work' : /\ IsEvent(w)
                           /\ w.id[1] = c => DOMAIN w.part \subseteq DOMAIN r.batch
                           /\ w.id[1] # c => About(w)
  BY <1>2, <1>3, ClearedTyped DEF Given
<1>13. Inv'
  BY <1>5, <1>8, <1>9, <1>11, <1>12, TurnKeeps
<1> QED
  BY <1>7, <1>13

\* Undo and Repair take nothing out of the buffer.
LEMMA UndoKeeps ==
  ASSUME Inv, NEW c \in Commits, NEW r, Eligible(c, r), NEW now, Given(c, r.batch, now),
         Undo(c, r, now), UNCHANGED <<saves, stops, late>>
  PROVE  Inv' /\ Confirmed(now)
<1>1. PICK src, tx : src = Restored(now.source, r.before) /\ tx = Cleared(now.transaction, r.transaction)
  OBVIOUS
<1>2. PICK n : n = [source |-> src, staged |-> now.staged, transaction |-> tx, work |-> now.work]
  OBVIOUS
<1>3. src \in [Elements -> Texts] /\ IsTransaction(tx)
  BY <1>1, RestoredTyped, ClearedTyped DEF Given, Eligible, Sound
<1>4. n.source = src /\ n.staged = now.staged /\ n.transaction = tx /\ n.work = now.work
      /\ IsTurn(n)
  BY <1>2 DEF IsTurn
<1>5. Given(c, r.batch, n)
  BY <1>3, <1>4 DEF Given
<1>6. Turn(n) /\ Returns(c, "ended", r.files) /\ UNCHANGED told
  BY <1>1, <1>4, UndoTurn DEF Turn, Given
<1>7. PICK s : /\ IsCommit(s) /\ s.at = "ended" /\ s.attempt = 0
               /\ commit' = [commit EXCEPT ![c] = s]
  BY <1>6, ReturnsRecord
<1>8. s.attempt \in 0..MaxRepairs
  BY <1>7, NatBounds
<1>9. Inv' /\ Confirmed(n)
  BY <1>5, <1>6, <1>7, <1>8, SilentTurnKeeps
<1> QED
  BY <1>4, <1>9 DEF Confirmed

LEMMA RepairKeeps ==
  ASSUME Inv, NEW c \in Commits, NEW r, Eligible(c, r), NEW now, Given(c, r.batch, now),
         Repair(c, r, now), UNCHANGED <<saves, stops, late>>
  PROVE  Inv' /\ Confirmed(now)
<1>1. r.attempt \in 0..MaxRepairs
  BY DEF Eligible, Sound
<1>2. CASE r.attempt < MaxRepairs /\ Push(c, [r EXCEPT !.attempt = @ + 1, !.failed = {}], r.batch, now)
  <2>1. PICK s : s = [r EXCEPT !.attempt = @ + 1, !.failed = {}]
    OBVIOUS
  <2>2. /\ IsCommit(s) /\ s.attempt = r.attempt + 1
        /\ s.batch = r.batch /\ s.page = r.page /\ s.before = r.before
        /\ s.applied = r.applied /\ s.todo = r.todo
    BY <2>1, AttemptFields DEF Eligible
  <2>3. s.attempt \in 0..MaxRepairs
    BY <1>1, <1>2, <2>2, NatBounds
  <2>4. Eligible(c, s)
    BY <2>2, <2>3, EligibleUpdate DEF Eligible, Sound
  <2>5. Push(c, s, r.batch, now)
    BY <1>2, <2>1
  <2> QED
    BY <2>2, <2>4, <2>5, PushKeeps
<1>3. CASE Returns(c, "undecided", r.files) /\ Turn(now) /\ UNCHANGED told
  <2>1. PICK s : /\ IsCommit(s) /\ s.at = "undecided" /\ s.attempt = 0
                 /\ commit' = [commit EXCEPT ![c] = s]
    BY <1>3, ReturnsRecord
  <2>2. s.attempt \in 0..MaxRepairs
    BY <2>1, NatBounds
  <2> QED
    BY <1>3, <2>1, <2>2, SilentTurnKeeps
<1> QED
  BY <1>2, <1>3 DEF Repair

LEMMA PushChunkKeeps ==
  ASSUME Inv, NEW c \in Commits, NEW r, Eligible(c, r), NEW now, Given(c, r.batch, now),
         PushChunk(c, r, now), UNCHANGED <<saves, stops, late>>
  PROVE  Inv' /\ Confirmed(now)
<1>1. PICK rest : rest = r.todo \ Chunk(r)
  OBVIOUS
<1>2. PICK s : s = [r EXCEPT !.todo = rest]
  OBVIOUS
<1>3. PICK part : part = [e \in Chunk(r) |-> r.batch[e]]
  OBVIOUS
<1>4. /\ IsCommit(s) /\ s.todo = rest
      /\ s.batch = r.batch /\ s.page = r.page /\ s.before = r.before
      /\ s.applied = r.applied /\ s.attempt = r.attempt
  BY <1>2, TodoFields DEF Eligible
<1>5. Eligible(c, s)
  BY <1>1, <1>4, EligibleUpdate DEF Eligible, Sound
<1>6. DOMAIN part \subseteq DOMAIN s.batch /\ \A e \in DOMAIN part : part[e] = s.batch[e]
  BY <1>3, <1>4 DEF Chunk, Eligible, Sound
<1>7. Push(c, s, part, now)
  BY <1>1, <1>2, <1>3 DEF PushChunk
<1>8. Given(c, s.batch, now)
  BY <1>4
<1> QED
  BY <1>5, <1>6, <1>7, <1>8, PushKeeps

LEMMA JudgeKeeps ==
  ASSUME Inv, NEW c \in Commits, NEW r, Eligible(c, r), NEW now, Given(c, r.batch, now),
         Judge(c, r, now), UNCHANGED <<saves, stops, late>>
  PROVE  Inv' /\ Confirmed(now)
<1>1. PICK named : named = IF r.applied = {} THEN DOMAIN r.batch ELSE r.applied
  OBVIOUS
<1>2. PICK s : s = [r EXCEPT !.applied = named]
  OBVIOUS
<1>3. \/ Undo(c, r, now)
      \/ Verified(r, now.source) /\ Accept(c, r, now)
      \/ Repair(c, s, now)
  BY <1>1, <1>2 DEF Judge
<1>4. CASE Repair(c, s, now)
  <2>1. /\ IsCommit(s) /\ s.applied = named
        /\ s.batch = r.batch /\ s.page = r.page /\ s.before = r.before
        /\ s.attempt = r.attempt /\ s.todo = r.todo
    BY <1>2 DEF IsCommit, Eligible
  <2>2. Eligible(c, s)
    BY <1>1, <2>1, EligibleUpdate DEF Eligible, Sound
  <2>3. Given(c, s.batch, now)
    BY <2>1
  <2> QED
    BY <1>4, <2>2, <2>3, RepairKeeps
<1> QED
  BY <1>3, <1>4, UndoKeeps, AcceptKeeps

LEMMA JudgeRepairKeeps ==
  ASSUME Inv, NEW c \in Commits, NEW r, Eligible(c, r), NEW now, Given(c, r.batch, now),
         NEW out, out.applied \subseteq DOMAIN r.batch,
         JudgeRepair(c, r, out, now), UNCHANGED <<saves, stops, late>>
  PROVE  Inv' /\ Confirmed(now)
<1>1. PICK named, written : named = r.applied \cup out.applied /\ written = r.files \cup out.files
  OBVIOUS
<1>2. PICK s : s = [r EXCEPT !.applied = named, !.files = written]
  OBVIOUS
<1>3. /\ IsCommit(s) /\ s.applied = named
      /\ s.batch = r.batch /\ s.page = r.page /\ s.before = r.before
      /\ s.attempt = r.attempt /\ s.todo = r.todo
  BY <1>2 DEF IsCommit, Eligible
<1>4. Eligible(c, s)
  BY <1>1, <1>3, EligibleUpdate DEF Eligible, Sound
<1>5. Given(c, s.batch, now)
  BY <1>3
<1>6. (Verified(s, now.source) /\ Accept(c, s, now)) \/ Repair(c, s, now)
  BY <1>1, <1>2 DEF JudgeRepair
<1> QED
  BY <1>4, <1>5, <1>6, AcceptKeeps, RepairKeeps

\* What a reply adds to a commit's record is about entries of the commit.
LEMMA HeardFields ==
  ASSUME NEW r, IsCommit(r), r.applied \subseteq DOMAIN r.batch, r.todo \subseteq DOMAIN r.batch,
         NEW part, DOMAIN part \subseteq DOMAIN r.batch,
         NEW out, out.applied \subseteq DOMAIN part,
         NEW s, s = Heard(r, part, out)
  PROVE  /\ IsCommit(s)
         /\ s.batch = r.batch /\ s.page = r.page /\ s.before = r.before
         /\ s.attempt = r.attempt /\ s.transaction = r.transaction
         /\ s.applied \subseteq DOMAIN r.batch /\ s.todo \subseteq DOMAIN r.batch
<1>1. PICK good, rest : /\ good = IF Answered(out) THEN out.applied \ out.failed ELSE {}
                        /\ rest = IF Answered(out) THEN r.todo ELSE {}
  OBVIOUS
<1>2. good \subseteq DOMAIN r.batch /\ rest \subseteq DOMAIN r.batch
  BY <1>1
<1>3. PICK failed, status :
        \/ s = [r EXCEPT !.applied = @ \cup good, !.files = @ \cup out.files, !.todo = rest,
                         !.failed = failed, !.status = status]
        \/ s = [r EXCEPT !.applied = out.applied, !.failed = failed,
                         !.files = out.files, !.status = status]
  BY <1>1 DEF Heard
<1>4. CASE s = [r EXCEPT !.applied = @ \cup good, !.files = @ \cup out.files, !.todo = rest,
                         !.failed = failed, !.status = status]
  <2>1. /\ IsCommit(s)
        /\ s.batch = r.batch /\ s.page = r.page /\ s.before = r.before
        /\ s.attempt = r.attempt /\ s.transaction = r.transaction
        /\ s.applied = r.applied \cup good /\ s.todo = rest
    BY <1>4 DEF IsCommit
  <2> QED
    BY <1>2, <2>1
<1>5. CASE s = [r EXCEPT !.applied = out.applied, !.failed = failed,
                         !.files = out.files, !.status = status]
  <2>1. /\ IsCommit(s)
        /\ s.batch = r.batch /\ s.page = r.page /\ s.before = r.before
        /\ s.attempt = r.attempt /\ s.transaction = r.transaction
        /\ s.applied = out.applied /\ s.todo = r.todo
    BY <1>5 DEF IsCommit
  <2> QED
    BY <2>1
<1> QED
  BY <1>3, <1>4, <1>5

LEMMA WaitingEligible ==
  ASSUME Inv, NEW c \in Commits, commit[c].at = "waiting"
  PROVE  Eligible(c, commit[c])
BY DEF Inv, Working, Eligible

LEMMA ContinueKeeps ==
  ASSUME Inv, NEW c \in Commits, commit[c].at = "waiting",
         NEW w, DOMAIN w.part \subseteq DOMAIN commit[c].batch,
         NEW out, out.applied \subseteq DOMAIN w.part,
         NEW now, Given(c, commit[c].batch, now),
         Continue(c, w, out, now), UNCHANGED <<saves, stops, late>>
  PROVE  Inv' /\ Confirmed(now)
<1>1. PICK r : r = commit[c]
  OBVIOUS
<1>2. PICK s : s = Heard(r, w.part, out)
  OBVIOUS
<1>3. Eligible(c, r) /\ Given(c, r.batch, now)
  BY <1>1, WaitingEligible
<1>4. /\ IsCommit(s)
      /\ s.batch = r.batch /\ s.page = r.page /\ s.before = r.before
      /\ s.attempt = r.attempt
      /\ s.applied \subseteq DOMAIN r.batch /\ s.todo \subseteq DOMAIN r.batch
  BY <1>1, <1>2, <1>3, HeardFields DEF Eligible, Sound
<1>5. Eligible(c, s) /\ Given(c, s.batch, now)
  BY <1>3, <1>4, EligibleUpdate DEF Eligible, Sound
<1>6. JudgeRepair(c, r, out, now) \/ PushChunk(c, s, now) \/ Judge(c, s, now)
  BY <1>1, <1>2 DEF Continue
<1>7. out.applied \subseteq DOMAIN r.batch
  BY <1>1
<1> QED
  BY <1>3, <1>5, <1>6, <1>7, JudgeRepairKeeps, PushChunkKeeps, JudgeKeeps

-----------------------------------------------------------------------------
(***************************************************************************)
(* The actions.                                                            *)
(***************************************************************************)
\* What leaves the buffer in a step was written and the page told of it.
Told ==
  \A e \in Elements :
    staged[e] # Absent /\ staged'[e] = Absent => told'[e] # told[e] /\ source'[e] = told'[e]

LEMMA SaveKeeps ==
  ASSUME Inv, NEW e \in Elements, Save(e)
  PROVE  Inv' /\ Told
<1>1. PICK entry : entry = [id |-> IF staged[e] = Absent THEN saves + 1 ELSE staged[e].id,
                            text |-> saves + 1]
  OBVIOUS
<1>2. /\ saves' = saves + 1 /\ saves' \in 0..MaxSaves /\ saves \in 0..MaxSaves
      /\ staged' = [staged EXCEPT ![e] = entry]
      /\ UNCHANGED <<source, transaction, commit, work, told, stops, late>>
  BY <1>1, NatBounds DEF Save, Inv, Buffer
<1>3. /\ entry \in Entries /\ entry # Absent /\ entry.text = saves + 1
      /\ staged[e] = Absent => entry.id = saves + 1
      /\ staged[e] # Absent => entry.id = staged[e].id /\ Fresh(e, staged[e], told, saves)
  <2>1. staged[e] # Absent => staged[e] \in Entries /\ Fresh(e, staged[e], told, saves)
    BY DEF Inv, Buffer
  <2>2. entry \in Entries
    BY <1>1, <1>2, <2>1 DEF Entries
  <2> QED
    BY <1>1, <2>1, <2>2, NatBounds
<1>4. /\ staged' \in [Elements -> {Absent} \cup Entries]
      /\ staged'[e] = entry
      /\ \A d \in Elements : d # e => staged'[d] = staged[d]
  BY <1>2, <1>3 DEF Inv, Buffer
<1>5. told[e] <= saves /\ \A d \in Elements : told'[d] = told[d] /\ told[d] \in Nat
  BY <1>2 DEF Inv, Buffer
<1>6. Fresh(e, entry, told', saves')
  BY <1>2, <1>3, <1>5 DEF Fresh, Entries
<1>7. ASSUME NEW d \in Elements, NEW b, Fresh(d, b, told, saves)
      PROVE  Fresh(d, b, told', saves') /\ b.id <= saves /\ b.text <= saves
  BY <1>2, <1>5, <1>7 DEF Fresh, Entries
<1>8. \A d \in Elements : staged'[d] # Absent => Fresh(d, staged'[d], told', saves')
  BY <1>4, <1>6, <1>7 DEF Inv, Buffer
<1>9. \A d \in Elements : d # e /\ staged[d] # Absent => staged[d].id # entry.id
  <2> SUFFICES ASSUME NEW d \in Elements, d # e, staged[d] # Absent
               PROVE  staged[d].id # entry.id
    OBVIOUS
  <2>1. Fresh(d, staged[d], told, saves)
    BY DEF Inv, Buffer
  <2>2. CASE staged[e] = Absent
    BY <1>2, <1>3, <1>7, <2>1, <2>2
  <2>3. CASE staged[e] # Absent
    BY <1>3, <2>3 DEF Inv, Buffer
  <2> QED
    BY <2>2, <2>3
<1>10. Buffer'
  <2>1. \A d, x \in Elements :
          staged'[d] # Absent /\ staged'[x] # Absent /\ staged'[d].id = staged'[x].id => d = x
    BY <1>4, <1>9 DEF Inv, Buffer
  <2>2. told' \in [Elements -> 0..MaxSaves] /\ \A d \in Elements : told'[d] <= saves'
    BY <1>2, <1>5 DEF Inv, Buffer
  <2> QED
    BY <1>2, <1>4, <1>8, <2>1, <2>2 DEF Buffer
<1>11. ASSUME NEW r, Sound(r, staged, told, saves)
       PROVE  Sound(r, staged', told', saves')
  <2> SUFFICES ASSUME NEW d \in DOMAIN r.batch
               PROVE  /\ Fresh(d, r.batch[d], told', saves')
                      /\ staged'[d] # Absent => Later(r.batch[d], staged'[d])
                      /\ \A x \in Elements :
                           staged'[x] # Absent /\ staged'[x].id = r.batch[d].id => x = d
    BY <1>11 DEF Sound
  <2>1. /\ d \in Elements
        /\ Fresh(d, r.batch[d], told, saves)
        /\ staged[d] # Absent => Later(r.batch[d], staged[d])
        /\ \A x \in Elements : staged[x] # Absent /\ staged[x].id = r.batch[d].id => x = d
    BY <1>11 DEF Sound
  <2>2. /\ Fresh(d, r.batch[d], told', saves')
        /\ r.batch[d].id <= saves /\ r.batch[d].text <= saves /\ r.batch[d] \in Entries
    BY <1>7, <2>1 DEF Fresh
  <2>3. staged'[d] # Absent => Later(r.batch[d], staged'[d])
    <3>1. CASE d # e
      BY <1>4, <2>1, <3>1
    <3>2. CASE d = e
      BY <1>2, <1>3, <1>4, <2>2, <3>2 DEF Later, Entries
    <3> QED
      BY <3>1, <3>2
  <2>4. ASSUME NEW x \in Elements, staged'[x] # Absent, staged'[x].id = r.batch[d].id
        PROVE  x = d
    <3>1. CASE x # e
      BY <1>4, <2>1, <2>4, <3>1
    <3>2. CASE x = e /\ staged[e] # Absent
      BY <1>3, <1>4, <2>1, <2>4, <3>2
    <3>3. CASE x = e /\ staged[e] = Absent
      BY <1>2, <1>3, <1>4, <2>2, <2>4, <3>3 DEF Entries
    <3> QED
      BY <3>1, <3>2, <3>3
  <2> QED
    BY <2>2, <2>3, <2>4
<1>12. Working'
  BY <1>2, <1>11 DEF Inv, Working
<1>13. Events' /\ Files'
  BY <1>2 DEF Inv, Events, About, Files
<1>14. Told
  BY <1>3, <1>4 DEF Told
<1> QED
  BY <1>10, <1>12, <1>13, <1>14 DEF Inv

\* A commit that begins: the entries of a page that no other commit works on.
LEMMA BeginsEligible ==
  ASSUME Inv, NEW c \in Commits, NEW p, commit[c].at = "new", NoneOn(p),
         NEW r, IsCommit(r), r.page = p, r.batch = Batch(p), NEW src \in [Elements -> Texts],
         r.before = Snapshot(r.batch, src),
         r.applied \subseteq StagedOn(p), r.todo \subseteq StagedOn(p), r.attempt = 0
  PROVE  Eligible(c, r)
<1>1. /\ DOMAIN r.batch = StagedOn(p)
      /\ \A e \in StagedOn(p) : r.batch[e] = staged[e] /\ e \in Elements /\ Page[e] = p
                                /\ staged[e] # Absent
  BY DEF Batch, StagedOn
<1>2. \A e \in StagedOn(p) : /\ Fresh(e, staged[e], told, saves)
                             /\ Later(staged[e], staged[e])
                             /\ \A d \in Elements :
                                  staged[d] # Absent /\ staged[d].id = staged[e].id => d = e
  <2>1. \A e \in Elements : staged[e] # Absent => staged[e].text \in Nat
    BY DEF Inv, Buffer, Entries
  <2> QED
    BY <1>1, <2>1 DEF Inv, Buffer, Later
<1>3. Sound(r, staged, told, saves)
  <2>1. DOMAIN r.batch \subseteq Elements
    BY <1>1
  <2>2. r.attempt \in 0..MaxRepairs /\ IsSnapshot(r.before) /\ DOMAIN r.before = Scope(r.batch)
    BY NatBounds, SnapshotTyped DEF Snapshot
  <2>3. \A e \in DOMAIN r.batch :
          /\ Page[e] = r.page
          /\ Fresh(e, r.batch[e], told, saves)
          /\ staged[e] # Absent => Later(r.batch[e], staged[e])
          /\ \A d \in Elements : staged[d] # Absent /\ staged[d].id = r.batch[e].id => d = e
    BY <1>1, <1>2
  <2> QED
    BY <1>1, <2>1, <2>2, <2>3 DEF Sound
<1> QED
  BY <1>3 DEF Eligible, NoneOn

LEMMA BatchIds ==
  ASSUME Inv, NEW p
  PROVE  Ids(Batch(p)) \subseteq 1..MaxSaves
<1>1. \A e \in StagedOn(p) : staged[e].id \in 1..MaxSaves
  BY NatBounds DEF Inv, Buffer, Fresh, Entries, StagedOn
<1> QED
  BY <1>1 DEF Ids, Batch

LEMMA CommitKeeps ==
  ASSUME Inv, NEW c \in Commits, NEW p \in Pages, Commit(c, p)
  PROVE  Inv' /\ Told
<1>1. PICK src : src = RecoveredSource(p)
  OBVIOUS
<1>2. PICK before : before = Snapshot(Batch(p), src)
  OBVIOUS
<1>3. PICK r : r = [NoCommit EXCEPT !.page = p, !.batch = Batch(p), !.todo = StagedOn(p),
                                    !.before = before, !.transaction = c]
  OBVIOUS
<1>4. /\ IsCommit(r) /\ r.page = p /\ r.batch = Batch(p) /\ r.before = before
      /\ r.todo = StagedOn(p) /\ r.applied = {} /\ r.attempt = 0
  BY <1>3 DEF NoCommit, IsCommit
<1>5. PICK tx : tx = [id |-> c, page |-> p, entries |-> Ids(Batch(p)), before |-> before]
  OBVIOUS
<1>6. PICK now : now = [source |-> src, staged |-> staged, transaction |-> tx, work |-> work]
  OBVIOUS
<1>7. /\ commit[c].at = "new" /\ NoneOn(p)
      /\ UNCHANGED <<saves, stops, late>>
      /\ \/ PushChunk(c, r, now)
         \/ /\ Returns(c, "ended", {})
            /\ Turn([now EXCEPT !.transaction = RecoveredTransaction(p)])
            /\ UNCHANGED told
  BY <1>1, <1>2, <1>3, <1>4, <1>5, <1>6 DEF Commit, Request
<1>8. src \in [Elements -> Texts] /\ IsTransaction(RecoveredTransaction(p))
  BY <1>1, RecoveredTyped
<1>9. IsSnapshot(before)
  BY <1>2, <1>8, SnapshotTyped
<1>10. IsTransaction(tx)
  BY <1>5, <1>9, BatchIds DEF IsTransaction
<1>11. staged \in [Elements -> {Absent} \cup Entries]
  BY DEF Inv, Buffer
<1>12. Eligible(c, r)
  BY <1>2, <1>4, <1>7, <1>8, BeginsEligible
<1>13. \A w \in work : /\ IsEvent(w)
                       /\ w.id[1] = c => DOMAIN w.part \subseteq DOMAIN r.batch
                       /\ w.id[1] # c => About(w)
  BY <1>7 DEF Inv, Events, About
<1>14. CASE PushChunk(c, r, now)
  <2>1. now = [source |-> now.source, staged |-> now.staged,
               transaction |-> now.transaction, work |-> now.work]
        /\ now.source = src /\ now.staged = staged /\ now.transaction = tx /\ now.work = work
    BY <1>6
  <2>2. Given(c, r.batch, now)
    BY <1>8, <1>10, <1>11, <1>13, <2>1 DEF Given, IsTurn
  <2> QED
    BY <1>7, <1>12, <1>14, <2>1, <2>2, PushChunkKeeps DEF Confirmed, Told
<1>15. CASE Returns(c, "ended", {}) /\ UNCHANGED told
            /\ Turn([now EXCEPT !.transaction = RecoveredTransaction(p)])
  <2>1. PICK n : n = [now EXCEPT !.transaction = RecoveredTransaction(p)]
    OBVIOUS
  <2>2. n = [source |-> n.source, staged |-> n.staged,
             transaction |-> n.transaction, work |-> n.work]
        /\ n.source = src /\ n.staged = staged
        /\ n.transaction = RecoveredTransaction(p) /\ n.work = work
    BY <1>6, <2>1
  <2>3. Given(c, r.batch, n)
    BY <1>8, <1>11, <1>13, <2>2 DEF Given, IsTurn
  <2>4. PICK s : /\ IsCommit(s) /\ s.at = "ended" /\ s.attempt = 0
                 /\ commit' = [commit EXCEPT ![c] = s]
    BY <1>15, ReturnsRecord
  <2>5. s.attempt \in 0..MaxRepairs
    BY <2>4, NatBounds
  <2>6. Turn(n) /\ UNCHANGED told
    BY <1>15, <2>1
  <2> QED
    BY <1>7, <1>12, <2>2, <2>3, <2>4, <2>5, <2>6, SilentTurnKeeps DEF Confirmed, Told
<1> QED
  BY <1>7, <1>14, <1>15

LEMMA KeepFixingKeeps ==
  ASSUME Inv, NEW c \in Commits, NEW p \in Pages, KeepFixing(c, p)
  PROVE  Inv' /\ Told
<1>1. PICK before : before = Snapshot(Batch(p), source)
  OBVIOUS
<1>2. PICK r : r = [NoCommit EXCEPT !.page = p, !.batch = Batch(p), !.transaction = transaction.id,
                                    !.before = before, !.applied = StagedOn(p),
                                    !.files = FilesOf(StagedOn(p))]
  OBVIOUS
<1>3. /\ IsCommit(r) /\ r.page = p /\ r.batch = Batch(p) /\ r.before = before
      /\ r.todo = {} /\ r.applied = StagedOn(p) /\ r.attempt = 0
  BY <1>2 DEF NoCommit, IsCommit
<1>4. PICK now : now = [source |-> source, staged |-> staged,
                        transaction |-> transaction, work |-> work]
  OBVIOUS
<1>5. /\ commit[c].at = "new" /\ NoneOn(p) /\ Judge(c, r, now)
      /\ UNCHANGED <<saves, stops, late>>
  BY <1>1, <1>2, <1>4 DEF KeepFixing, Request
<1>6. source \in [Elements -> Texts] /\ IsTransaction(transaction)
      /\ staged \in [Elements -> {Absent} \cup Entries]
  BY DEF Inv, Files, Buffer
<1>7. Eligible(c, r)
  BY <1>1, <1>3, <1>5, <1>6, BeginsEligible
<1>8. \A w \in work : /\ IsEvent(w)
                      /\ w.id[1] = c => DOMAIN w.part \subseteq DOMAIN r.batch
                      /\ w.id[1] # c => About(w)
  BY <1>5 DEF Inv, Events, About
<1>9. now = [source |-> now.source, staged |-> now.staged,
              transaction |-> now.transaction, work |-> now.work]
       /\ now.source = source /\ now.staged = staged
       /\ now.transaction = transaction /\ now.work = work
  BY <1>4
<1>10. Given(c, r.batch, now)
  BY <1>6, <1>8, <1>9 DEF Given, IsTurn
<1> QED
  BY <1>5, <1>7, <1>9, <1>10, JudgeKeeps DEF Confirmed, Told

LEMMA StateTyped ==
  ASSUME NEW w, IsEvent(w), NEW st \in {"queued", "taken", "stale"},
         NEW x, x = [w EXCEPT !.state = st]
  PROVE  IsEvent(x) /\ x.id[1] = w.id[1] /\ x.part = w.part
BY DEF IsEvent

\* An event of a waiting commit, while the commit goes on without it.
LEMMA WithoutEvent ==
  ASSUME Inv, NEW c \in Commits, NEW w \in work, Waits(c, w)
  PROVE  /\ commit[c].at = "waiting"
         /\ IsEvent(w) /\ DOMAIN w.part \subseteq DOMAIN commit[c].batch
         /\ \A x \in (work \ {w}) \cup Abandoned(w) :
              /\ IsEvent(x)
              /\ x.id[1] = c => DOMAIN x.part \subseteq DOMAIN commit[c].batch
              /\ x.id[1] # c => About(x)
<1>1. commit[c].at = "waiting" /\ w.id = <<c, commit[c].pushed>>
  BY DEF Waits
<1>2. w.id[1] = c
  BY <1>1
<1>3. \A x \in work : IsEvent(x) /\ About(x)
  BY DEF Inv, Events
<1>4. \A x \in Abandoned(w) : IsEvent(x) /\ x.id[1] = w.id[1] /\ x.part = w.part
  <2>1. PICK y : y = [w EXCEPT !.state = "stale"]
    OBVIOUS
  <2>2. IsEvent(y) /\ y.id[1] = w.id[1] /\ y.part = w.part
    BY <1>3, <2>1, StateTyped
  <2> QED
    BY <2>1, <2>2 DEF Abandoned
<1> QED
  BY <1>1, <1>2, <1>3, <1>4 DEF About

LEMMA TimeoutKeeps ==
  ASSUME Inv, NEW c \in Commits, Timeout(c)
  PROVE  Inv' /\ Told
<1>1. PICK w \in work :
        /\ Waits(c, w)
        /\ Continue(c, w, Thrown,
             [source |-> source, staged |-> staged, transaction |-> transaction,
              work |-> (work \ {w}) \cup Abandoned(w)])
  BY DEF Timeout
<1>2. PICK events : events = (work \ {w}) \cup Abandoned(w)
  OBVIOUS
<1>3. PICK now : now = [source |-> source, staged |-> staged,
                        transaction |-> transaction, work |-> events]
  OBVIOUS
<1>4. now = [source |-> now.source, staged |-> now.staged,
             transaction |-> now.transaction, work |-> now.work]
      /\ now.source = source /\ now.staged = staged
      /\ now.transaction = transaction /\ now.work = events
  BY <1>3
<1>5. source \in [Elements -> Texts] /\ IsTransaction(transaction)
      /\ staged \in [Elements -> {Absent} \cup Entries]
  BY DEF Inv, Files, Buffer
<1>6. Given(c, commit[c].batch, now)
  BY <1>1, <1>2, <1>4, <1>5, WithoutEvent DEF Given, IsTurn
<1>7. UNCHANGED <<saves, stops, late>>
  BY DEF Timeout
<1>8. Thrown.applied \subseteq DOMAIN w.part
  BY DEF Thrown
<1>9. commit[c].at = "waiting" /\ DOMAIN w.part \subseteq DOMAIN commit[c].batch
  BY <1>1, WithoutEvent
<1>10. Continue(c, w, Thrown, now)
  BY <1>1, <1>2, <1>3
<1>11. PICK out : out = Thrown
  OBVIOUS
<1>12. out.applied \subseteq DOMAIN w.part /\ Continue(c, w, out, now)
  BY <1>8, <1>10, <1>11
<1> QED
  BY <1>4, <1>6, <1>7, <1>9, <1>12, ContinueKeeps DEF Confirmed, Told

LEMMA ReplyKeeps ==
  ASSUME Inv, NEW c \in Commits, NEW w \in work, Reply(c, w)
  PROVE  Inv' /\ Told
<1>1. PICK out \in Results(w) :
        Continue(c, w, out, [source |-> source, staged |-> staged, transaction |-> transaction,
                             work |-> work \ {w}])
  BY DEF Reply
<1>2. Waits(c, w) /\ UNCHANGED <<saves, stops, late>>
  BY DEF Reply
<1>3. PICK events : events = work \ {w}
  OBVIOUS
<1>4. PICK now : now = [source |-> source, staged |-> staged,
                        transaction |-> transaction, work |-> events]
  OBVIOUS
<1>5. now = [source |-> now.source, staged |-> now.staged,
             transaction |-> now.transaction, work |-> now.work]
      /\ now.source = source /\ now.staged = staged
      /\ now.transaction = transaction /\ now.work = events
  BY <1>4
<1>6. source \in [Elements -> Texts] /\ IsTransaction(transaction)
      /\ staged \in [Elements -> {Absent} \cup Entries]
  BY DEF Inv, Files, Buffer
<1>7. Given(c, commit[c].batch, now)
  BY <1>2, <1>3, <1>5, <1>6, WithoutEvent DEF Given, IsTurn
<1>8. out.applied \subseteq DOMAIN w.part
  BY <1>1 DEF Results
<1>9. commit[c].at = "waiting" /\ DOMAIN w.part \subseteq DOMAIN commit[c].batch
  BY <1>2, WithoutEvent
<1>10. Continue(c, w, out, now)
  BY <1>1, <1>3, <1>4
<1> QED
  BY <1>2, <1>5, <1>7, <1>8, <1>9, <1>10, ContinueKeeps DEF Confirmed, Told

\* A discard: the entries of the page go, and what goes beyond them was applied
\* by the commit of that page.
LEMMA DiscardKeeps ==
  ASSUME Inv, NEW p \in Pages, Discard(p)
  PROVE  Inv' /\ \A e \in Elements :
                   staged[e] # Absent /\ staged'[e] = Absent =>
                     Page[e] = p \/ (told'[e] # told[e] /\ source'[e] = told'[e])
<1>1. PICK src, stg, tx : /\ src = RecoveredSource(p) /\ stg = Discarded(p)
                          /\ tx = RecoveredTransaction(p)
  OBVIOUS
<1>2. PICK now : now = [source |-> src, staged |-> stg, transaction |-> tx, work |-> work]
  OBVIOUS
<1>3. /\ UNCHANGED <<saves, stops, late>>
      /\ \/ Turn(now) /\ UNCHANGED <<commit, told>>
         \/ \E c \in Commits, w \in work : Waits(c, w) /\ Cancel(c, w, now)
  BY <1>1, <1>2 DEF Discard
<1>4. src \in [Elements -> Texts] /\ IsTransaction(tx)
  BY <1>1, RecoveredTyped
<1>5. /\ stg \in [Elements -> {Absent} \cup Entries]
      /\ \A e \in Elements : stg[e] = Absent \/ stg[e] = staged[e]
      /\ \A e \in Elements : Page[e] # p => stg[e] = staged[e]
  BY <1>1 DEF Discarded, Inv, Buffer
<1>6. CASE Turn(now) /\ UNCHANGED <<commit, told>>
  <2>1. source' = src /\ staged' = stg /\ transaction' = tx /\ work' = work
    BY <1>2, <1>6 DEF Turn
  <2>2. UNCHANGED <<commit, told, saves, stops, late>>
    BY <1>3, <1>6
  <2>3. Buffer'
    BY <1>5, <2>1, <2>2 DEF Inv, Buffer
  <2>4. ASSUME NEW r, Sound(r, staged, told, saves)
        PROVE  Sound(r, staged', told', saves')
    <3>1. \A e \in DOMAIN r.batch : e \in Elements
      BY <2>4 DEF Sound
    <3> QED
      BY <1>5, <2>1, <2>2, <2>4, <3>1 DEF Sound
  <2>5. Working'
    BY <2>2, <2>4 DEF Inv, Working
  <2>6. Events' /\ Files'
    BY <1>4, <2>1, <2>2 DEF Inv, Events, About, Files
  <2> QED
    BY <1>5, <2>1, <2>3, <2>5, <2>6 DEF Inv
<1>7. CASE \E c \in Commits, w \in work : Waits(c, w) /\ Cancel(c, w, now)
  <2>1. PICK c \in Commits, w \in work : Waits(c, w) /\ Cancel(c, w, now)
    BY <1>7
  <2>2. PICK events, old : events = (work \ {w}) \cup Abandoned(w) /\ old = Restored(src, w.before)
    OBVIOUS
  <2>3. PICK n : n = [now EXCEPT !.source = old, !.work = events]
    OBVIOUS
  <2>4. n = [now EXCEPT !.source = Restored(@, w.before),
                        !.work = (@ \ {w}) \cup Abandoned(w)]
    <3>1. now.source = src /\ now.work = work
      BY <1>2
    <3> QED
      BY <2>2, <2>3, <3>1
  <2>5. PICK out : out = Thrown
    OBVIOUS
  <2>6. Continue(c, w, out, n) /\ out.applied \subseteq DOMAIN w.part
    BY <2>1, <2>4, <2>5 DEF Cancel, Thrown
  <2>7. /\ commit[c].at = "waiting"
        /\ IsEvent(w) /\ DOMAIN w.part \subseteq DOMAIN commit[c].batch
        /\ \A x \in events : /\ IsEvent(x)
                             /\ x.id[1] = c => DOMAIN x.part \subseteq DOMAIN commit[c].batch
                             /\ x.id[1] # c => About(x)
    BY <2>1, <2>2, WithoutEvent
  <2>8. old \in [Elements -> Texts]
    BY <1>4, <2>2, <2>7, RestoredTyped DEF IsEvent
  <2>9. n = [source |-> n.source, staged |-> n.staged,
             transaction |-> n.transaction, work |-> n.work]
        /\ n.source = old /\ n.staged = stg /\ n.transaction = tx /\ n.work = events
    BY <1>2, <2>3
  <2>10. Given(c, commit[c].batch, n)
    BY <1>4, <1>5, <2>7, <2>8, <2>9 DEF Given, IsTurn
  <2>11. Inv' /\ Confirmed(n)
    BY <1>3, <2>6, <2>7, <2>10, ContinueKeeps
  <2> QED
    BY <1>5, <2>9, <2>11 DEF Confirmed
<1> QED
  BY <1>3, <1>6, <1>7

\* The steps that leave the buffer, what was told and the commits alone.
LEMMA CommitsStay ==
  ASSUME Inv, UNCHANGED <<staged, saves, told, commit>>
  PROVE  Buffer' /\ Working' /\ Told
<1>1. Buffer'
  BY DEF Inv, Buffer
<1>2. Working'
  BY DEF Inv, Working
<1>3. Told
  BY DEF Told
<1> QED
  BY <1>1, <1>2, <1>3

LEMMA RollbackKeeps ==
  ASSUME Inv, NEW p \in Pages, Rollback(p)
  PROVE  Inv' /\ Told
<1>1. UNCHANGED <<staged, saves, commit, work, told, stops, late>>
      /\ source' = RecoveredSource(p) /\ transaction' = RecoveredTransaction(p)
  BY DEF Rollback
<1>2. Files'
  BY <1>1, RecoveredTyped DEF Inv, Files
<1>3. Events'
  BY <1>1 DEF Inv, Events, About
<1> QED
  BY <1>1, <1>2, <1>3, CommitsStay DEF Inv

LEMMA RestartKeeps ==
  ASSUME Inv, Restart
  PROVE  Inv' /\ Told
<1>1. /\ UNCHANGED <<staged, saves, told, late>> /\ stops' = stops + 1 /\ work' = {}
      /\ source' = RecoveredSource(Absent) /\ transaction' = RecoveredTransaction(Absent)
      /\ stops + late < MaxFaults
  BY DEF Restart
<1>2. Files'
  BY <1>1, NatBounds, RecoveredTyped DEF Inv, Files
<1>3. Events'
  BY <1>1 DEF Events
<1>4. Buffer' /\ Told
  BY <1>1 DEF Inv, Buffer, Told
<1>5. PICK lost : lost = [NoCommit EXCEPT !.at = "lost"]
  OBVIOUS
<1>6. IsCommit(lost) /\ lost.at = "lost" /\ lost.attempt = 0
  BY <1>5, NoCommitFields
<1>7. commit' = [c \in Commits |-> IF commit[c].at = "waiting" THEN lost ELSE commit[c]]
  BY <1>5 DEF Restart
<1>8. \A c \in Commits : commit'[c] = lost \/ (commit'[c] = commit[c] /\ commit[c].at # "waiting")
  BY <1>7
<1>9. \A c \in Commits : /\ IsCommit(commit'[c])
                         /\ commit'[c].at \in {"new", "undecided", "ended", "lost"}
                         /\ commit'[c].attempt \in 0..MaxRepairs
  BY <1>6, <1>8, NatBounds DEF Inv, Working
<1>10. Working'
  BY <1>7, <1>9 DEF Working
<1> QED
  BY <1>2, <1>3, <1>4, <1>10 DEF Inv

LEMMA AgentKeeps ==
  ASSUME Inv, NEW w \in work,
         Take(w) \/ StaleReply(w) \/ \E e \in Elements : Write(w, e)
  PROVE  Inv' /\ Told
<1>1. IsEvent(w) /\ About(w)
  BY DEF Inv, Events
<1>2. UNCHANGED <<staged, saves, told, commit, transaction, stops>>
  BY DEF Take, StaleReply, Write
<1>3. late' \in Nat /\ stops + late' \in 0..MaxFaults
  BY NatBounds DEF Take, StaleReply, Write, Counts, Inv, Files
<1>4. source' \in [Elements -> Texts]
  <2>1. CASE Take(w)
    BY <2>1 DEF Take, Inv, Files
  <2>2. CASE StaleReply(w)
    BY <1>1, <2>2, RestoredTyped DEF StaleReply, IsEvent, Inv, Files
  <2>3. ASSUME NEW e \in Elements, Write(w, e) PROVE source' \in [Elements -> Texts]
    <3>1. w.part[e].text \in Texts /\ Wrong \in Texts /\ Broken \in Texts
      BY <1>1, <2>3, NatBounds DEF Write, IsEvent, IsBatch, Texts
    <3> QED
      BY <2>3, <3>1 DEF Write, Inv, Files
  <2> QED
    BY <2>1, <2>2, <2>3
<1>5. PICK x : x = [w EXCEPT !.state = "taken"]
  OBVIOUS
<1>6. IsEvent(x) /\ x.id[1] = w.id[1] /\ x.part = w.part
  BY <1>1, <1>5, StateTyped
<1>7. work' \subseteq work \cup {x}
  BY <1>5 DEF Take, StaleReply, Write
<1>8. \A y \in work' : IsEvent(y) /\ About(y)
  BY <1>1, <1>6, <1>7 DEF Inv, Events, About
<1>9. Events'
  BY <1>2, <1>8 DEF Events, About
<1>10. Files'
  BY <1>2, <1>3, <1>4 DEF Inv, Files
<1> QED
  BY <1>2, <1>9, <1>10, CommitsStay DEF Inv

-----------------------------------------------------------------------------
(***************************************************************************)
(* The theorems.                                                           *)
(***************************************************************************)
LEMMA InvInit == Init => Inv
<1> SUFFICES ASSUME Init PROVE Inv
  OBVIOUS
<1>1. Buffer
  BY NatBounds DEF Init, Buffer
<1>2. commit = [c \in Commits |-> NoCommit] /\ NoCommit.at = "new"
  BY DEF Init, NoCommit
<1>3. \A c \in Commits : /\ IsCommit(commit[c]) /\ commit[c].at = "new"
                         /\ commit[c].attempt \in 0..MaxRepairs
  BY <1>2, NoCommitFields, NatBounds
<1>4. Working
  BY <1>2, <1>3 DEF Working
<1>5. Events /\ Files
  BY NatBounds DEF Init, Events, Files, Texts, IsTransaction
<1> QED
  BY <1>1, <1>4, <1>5 DEF Inv

LEMMA InvNext ==
  ASSUME Inv, [Next]_vars
  PROVE  /\ Inv'
         /\ \A e \in Elements :
              staged[e] # Absent /\ staged'[e] = Absent =>
                Discard(Page[e]) \/ (told'[e] # told[e] /\ source'[e] = told'[e])
<1>1. CASE UNCHANGED vars
  <2>1. UNCHANGED <<staged, saves, told, commit, work, source, transaction, stops, late>>
    BY <1>1 DEF vars
  <2>2. Events' /\ Files'
    BY <2>1 DEF Inv, Events, About, Files
  <2> QED
    BY <2>1, <2>2, CommitsStay DEF Inv, Told
<1>2. ASSUME NEW p \in Pages, Discard(p)
      PROVE  /\ Inv'
             /\ \A e \in Elements :
                  staged[e] # Absent /\ staged'[e] = Absent =>
                    Discard(Page[e]) \/ (told'[e] # told[e] /\ source'[e] = told'[e])
  <2>1. \A e \in Elements : Page[e] = p => Discard(Page[e])
    BY <1>2
  <2> QED
    BY <1>2, <2>1, DiscardKeeps
<1>3. ASSUME Next, \A p \in Pages : ~ Discard(p)
      PROVE  Inv' /\ Told
  <2>1. CASE \E e \in Elements : Save(e)
    BY <2>1, SaveKeeps
  <2>2. CASE \E c \in Commits, p \in Pages : Commit(c, p) \/ KeepFixing(c, p)
    BY <2>2, CommitKeeps, KeepFixingKeeps
  <2>3. CASE \E p \in Pages : Rollback(p)
    BY <2>3, RollbackKeeps
  <2>4. CASE \E c \in Commits : Timeout(c)
    BY <2>4, TimeoutKeeps
  <2>5. CASE Restart
    BY <2>5, RestartKeeps
  <2>6. CASE \/ \E w \in work : Take(w) \/ StaleReply(w)
             \/ \E w \in work, e \in Elements : Write(w, e)
    BY <2>6, AgentKeeps
  <2>7. CASE \E w \in work, c \in Commits : Reply(c, w)
    BY <2>7, ReplyKeeps
  <2> QED
    BY <1>3, <2>1, <2>2, <2>3, <2>4, <2>5, <2>6, <2>7 DEF Next
<1> QED
  BY <1>1, <1>2, <1>3 DEF Told

LEMMA Invariance == Spec => []Inv
<1>1. Inv /\ [Next]_vars => Inv'
  BY InvNext
<1> QED
  BY InvInit, <1>1, PTL DEF Spec

\* Type correctness of copy edits: in particular no commit asks for more repairs
\* than the limit, and no recovery puts back what never was a text.
THEOREM CopyTyped == Spec => []TypeOK
<1>1. Inv => TypeOK
  <2> SUFFICES ASSUME Inv PROVE TypeOK
    OBVIOUS
  <2>1. \A e \in Elements : IsBatch(Batch(Page[e]))
    BY NatBounds DEF Inv, Buffer, Fresh, Entries, IsBatch, Batch, StagedOn
  <2> QED
    BY <2>1 DEF Inv, Buffer, Working, Events, IsEvent, Files, IsTransaction, TypeOK
<1> QED
  BY Invariance, <1>1, PTL

\* clearAppliedEntries: an edit leaves the buffer only by a discard of its page,
\* or when a commit has verified a new text of it in the source and says so,
\* whatever agents report, in whichever chunk or repair, and whatever the user
\* saves or discards meanwhile.
THEOREM ClearedWasWritten == Spec => ClearedIsWritten
<1>1. Inv /\ [Next]_vars =>
        [\A e \in Elements :
           staged[e] # Absent /\ staged'[e] = Absent =>
             Discard(Page[e]) \/ (told'[e] # told[e] /\ source'[e] = told'[e])]_vars
  BY InvNext
<1> QED
  BY Invariance, <1>1, PTL DEF Spec, ClearedIsWritten

-----------------------------------------------------------------------------
(***************************************************************************)
(* What a first pass answers for.                                          *)
(***************************************************************************)
OthersStay(c) == \A d \in Commits : d # c => commit'[d] = commit[d]

\* The end of commit c, whose record was r: a text it tells applied is there, one
\* that it does not is as it was, or in a file it names and no sign of an edit.
Accounts(c, r) ==
  commit'[c].at = "ended" /\ r.attempt = 0 =>
    \A e \in DOMAIN r.batch :
      IF told'[e] # told[e]
        THEN source'[e] = r.batch[e].text
        ELSE \/ source'[e] = r.before[e]
             \/ File[e] \in commit'[c].files /\ source'[e] \notin {r.batch[e].text, Broken}

Accounted == \A c \in Commits : commit[c].at = "waiting" => Accounts(c, commit[c])

LEMMA CommitUpdated ==
  ASSUME Inv, NEW c \in Commits, NEW s, commit' = [commit EXCEPT ![c] = s]
  PROVE  OthersStay(c) /\ commit'[c] = s
BY DEF Inv, Working, OthersStay

LEMMA PushGoesOn ==
  ASSUME Inv, NEW c \in Commits, NEW r, IsCommit(r), NEW part, NEW now, Push(c, r, part, now)
  PROVE  OthersStay(c) /\ commit'[c].at = "waiting"
<1>1. PICK s : s = [r EXCEPT !.at = "waiting", !.pushed = @ + 1]
  OBVIOUS
<1>2. commit' = [commit EXCEPT ![c] = s] /\ s.at = "waiting"
  BY <1>1, PushedFields DEF Push
<1> QED
  BY <1>2, CommitUpdated

LEMMA ChunkGoesOn ==
  ASSUME Inv, NEW c \in Commits, NEW r, IsCommit(r), NEW now, PushChunk(c, r, now)
  PROVE  OthersStay(c) /\ commit'[c].at = "waiting"
<1>1. PICK s : s = [r EXCEPT !.todo = @ \ Chunk(r)]
  OBVIOUS
<1>2. IsCommit(s)
  BY <1>1 DEF IsCommit
<1> QED
  BY <1>1, <1>2, PushGoesOn DEF PushChunk

\* A repair does not end the commit: it goes on, or the user decides.
LEMMA RepairGoesOn ==
  ASSUME Inv, NEW c \in Commits, NEW r, IsCommit(r), NEW now, Repair(c, r, now)
  PROVE  OthersStay(c) /\ commit'[c].at # "ended"
<1>1. CASE Push(c, [r EXCEPT !.attempt = @ + 1, !.failed = {}], r.batch, now)
  <2>1. PICK s : s = [r EXCEPT !.attempt = @ + 1, !.failed = {}]
    OBVIOUS
  <2>2. IsCommit(s)
    BY <2>1, AttemptFields
  <2> QED
    BY <1>1, <2>1, <2>2, PushGoesOn
<1>2. CASE Returns(c, "undecided", r.files)
  <2>1. PICK s : s.at = "undecided" /\ commit' = [commit EXCEPT ![c] = s]
    BY <1>2, ReturnsRecord
  <2> QED
    BY <2>1, CommitUpdated
<1> QED
  BY <1>1, <1>2 DEF Repair

\* The answer of a commit that ends names the files of its record.
LEMMA EndNames ==
  ASSUME Inv, NEW c \in Commits, NEW files, Returns(c, "ended", files)
  PROVE  OthersStay(c) /\ commit'[c].files = files
<1>1. PICK s : s.files = files /\ commit' = [commit EXCEPT ![c] = s]
  BY ReturnsRecord
<1> QED
  BY <1>1, CommitUpdated

\* An accepted text was verified.  One that is not applied is as it was, or its
\* file is reported: then it is not its edit, which would have leaked, and the
\* checks of the files have seen it.
LEMMA AcceptAccounts ==
  ASSUME Inv, NEW c \in Commits, NEW r, Sound(r, staged, told, saves), NEW now, IsTurn(now),
         ~MustUndo(r, now.source), Verified(r, now.source), Sane(r, now.source), Accept(c, r, now)
  PROVE  OthersStay(c) /\ Accounts(c, r)
<1>1. /\ source' = now.source
      /\ told' = [e \in Elements |-> IF e \in r.applied THEN r.batch[e].text ELSE told[e]]
      /\ Returns(c, "ended", r.files)
  BY AcceptTurn
<1>2. OthersStay(c) /\ commit'[c].files = r.files
  BY <1>1, EndNames
<1>3. ASSUME NEW e \in DOMAIN r.batch
      PROVE  IF told'[e] # told[e]
               THEN source'[e] = r.batch[e].text
               ELSE \/ source'[e] = r.before[e]
                    \/ File[e] \in commit'[c].files /\ source'[e] \notin {r.batch[e].text, Broken}
  <2>1. e \in Elements /\ e \in Scope(r.batch) /\ Fresh(e, r.batch[e], told, saves)
    BY DEF Sound, Scope, FilesOf
  <2>2. CASE e \in r.applied
    <3>1. source'[e] = r.batch[e].text /\ told'[e] = r.batch[e].text
      BY <1>1, <2>1, <2>2 DEF Verified
    <3>2. told[e] \in Nat /\ r.batch[e].text \in Nat /\ told[e] < r.batch[e].text
      BY <2>1, NatBounds DEF Inv, Buffer, Fresh, Entries
    <3>3. told[e] # r.batch[e].text
      BY <3>2
    <3> QED
      BY <3>1, <3>3
  <2>3. CASE e \notin r.applied
    <3>1. told'[e] = told[e] /\ source'[e] = now.source[e]
      BY <1>1, <2>1, <2>3
    <3>2. now.source[e] = r.before[e] \/ File[e] \in r.files
      BY <2>1 DEF MustUndo, Unreported
    <3>3. now.source[e] = r.before[e] \/ now.source[e] # r.batch[e].text
      BY <2>3 DEF MustUndo, Leaked
    <3>4. File[e] \in r.files => now.source[e] # Broken
      BY <2>1 DEF Sane
    <3> QED
      BY <1>2, <3>1, <3>2, <3>3, <3>4
  <2> QED
    BY <2>2, <2>3
<1> QED
  BY <1>2, <1>3 DEF Accounts

\* An undo puts back every text of the batch and tells nothing.
LEMMA UndoAccounts ==
  ASSUME Inv, NEW c \in Commits, NEW r, Sound(r, staged, told, saves), NEW now, IsTurn(now),
         Undo(c, r, now)
  PROVE  OthersStay(c) /\ Accounts(c, r)
<1>1. /\ source' = Restored(now.source, r.before) /\ told' = told
      /\ Returns(c, "ended", r.files)
  BY UndoTurn
<1>2. \A e \in DOMAIN r.batch : e \in Elements /\ e \in DOMAIN r.before
  BY DEF Sound, Scope, FilesOf
<1>3. \A e \in DOMAIN r.batch : source'[e] = r.before[e]
  BY <1>1, <1>2 DEF Restored
<1> QED
  BY <1>1, <1>3, EndNames DEF Accounts

LEMMA JudgeAccounts ==
  ASSUME Inv, NEW c \in Commits, NEW r, IsCommit(r), Sound(r, staged, told, saves),
         NEW now, IsTurn(now), Judge(c, r, now)
  PROVE  OthersStay(c) /\ Accounts(c, r)
<1>1. PICK named : named = IF r.applied = {} THEN DOMAIN r.batch ELSE r.applied
  OBVIOUS
<1>2. PICK s : s = [r EXCEPT !.applied = named]
  OBVIOUS
<1>3. \/ Undo(c, r, now)
      \/ /\ ~MustUndo(r, now.source) /\ Verified(r, now.source) /\ Sane(r, now.source)
         /\ Accept(c, r, now)
      \/ Repair(c, s, now)
  BY <1>1, <1>2 DEF Judge
<1>4. CASE Repair(c, s, now)
  <2>1. IsCommit(s)
    BY <1>2 DEF IsCommit
  <2> QED
    BY <1>4, <2>1, RepairGoesOn DEF Accounts
<1> QED
  BY <1>3, <1>4, UndoAccounts, AcceptAccounts

LEMMA JudgeRepairOthers ==
  ASSUME Inv, NEW c \in Commits, NEW r, IsCommit(r), NEW now, IsTurn(now), NEW out,
         JudgeRepair(c, r, out, now)
  PROVE  OthersStay(c)
<1>1. PICK s : s = [r EXCEPT !.applied = @ \cup out.applied, !.files = @ \cup out.files]
  OBVIOUS
<1>2. IsCommit(s)
  BY <1>1 DEF IsCommit
<1>3. Accept(c, s, now) \/ Repair(c, s, now)
  BY <1>1 DEF JudgeRepair
<1>4. CASE Accept(c, s, now)
  BY <1>4, AcceptTurn, EndNames
<1> QED
  BY <1>2, <1>3, <1>4, RepairGoesOn

LEMMA ContinueAccounts ==
  ASSUME Inv, NEW c \in Commits, commit[c].at = "waiting",
         NEW w, DOMAIN w.part \subseteq DOMAIN commit[c].batch,
         NEW out, out.applied \subseteq DOMAIN w.part,
         NEW now, IsTurn(now), Continue(c, w, out, now)
  PROVE  Accounted
<1>1. PICK r : r = commit[c]
  OBVIOUS
<1>2. PICK s : s = Heard(r, w.part, out)
  OBVIOUS
<1>3. Eligible(c, r)
  BY <1>1, WaitingEligible
<1>4. /\ IsCommit(s)
      /\ s.batch = r.batch /\ s.page = r.page /\ s.before = r.before
      /\ s.attempt = r.attempt
      /\ s.applied \subseteq DOMAIN r.batch /\ s.todo \subseteq DOMAIN r.batch
  BY <1>1, <1>2, <1>3, HeardFields DEF Eligible, Sound
<1>5. Eligible(c, s)
  BY <1>3, <1>4, EligibleUpdate DEF Eligible, Sound
<1>6. CASE r.attempt > 0 /\ JudgeRepair(c, r, out, now)
  <2>1. OthersStay(c)
    BY <1>3, <1>6, JudgeRepairOthers DEF Eligible
  <2> QED
    BY <1>1, <1>6, <2>1 DEF OthersStay, Accounts, Accounted
<1>7. CASE PushChunk(c, s, now)
  BY <1>4, <1>7, ChunkGoesOn DEF OthersStay, Accounts, Accounted
<1>8. CASE Judge(c, s, now)
  <2>1. OthersStay(c) /\ Accounts(c, s)
    BY <1>5, <1>8, JudgeAccounts DEF Eligible
  <2>2. Accounts(c, r)
    BY <1>4, <2>1 DEF Accounts
  <2> QED
    BY <1>1, <2>1, <2>2 DEF OthersStay, Accounts, Accounted
<1> QED
  BY <1>1, <1>2, <1>6, <1>7, <1>8 DEF Continue

LEMMA TimeoutAccounts ==
  ASSUME Inv, NEW c \in Commits, Timeout(c)
  PROVE  Accounted
<1>1. PICK w \in work :
        /\ Waits(c, w)
        /\ Continue(c, w, Thrown,
             [source |-> source, staged |-> staged, transaction |-> transaction,
              work |-> (work \ {w}) \cup Abandoned(w)])
  BY DEF Timeout
<1>2. PICK out, now : /\ out = Thrown
                      /\ now = [source |-> source, staged |-> staged, transaction |-> transaction,
                                work |-> (work \ {w}) \cup Abandoned(w)]
  OBVIOUS
<1>3. IsTurn(now) /\ out.applied \subseteq DOMAIN w.part /\ Continue(c, w, out, now)
  BY <1>1, <1>2 DEF IsTurn, Thrown
<1> QED
  BY <1>1, <1>3, WithoutEvent, ContinueAccounts

LEMMA ReplyAccounts ==
  ASSUME Inv, NEW c \in Commits, NEW w \in work, Reply(c, w)
  PROVE  Accounted
<1>1. PICK out \in Results(w) :
        Continue(c, w, out, [source |-> source, staged |-> staged, transaction |-> transaction,
                             work |-> work \ {w}])
  BY DEF Reply
<1>2. PICK now : now = [source |-> source, staged |-> staged, transaction |-> transaction,
                        work |-> work \ {w}]
  OBVIOUS
<1>3. IsTurn(now) /\ out.applied \subseteq DOMAIN w.part /\ Continue(c, w, out, now)
  BY <1>1, <1>2 DEF IsTurn, Results
<1>4. Waits(c, w)
  BY DEF Reply
<1> QED
  BY <1>3, <1>4, WithoutEvent, ContinueAccounts

LEMMA DiscardAccounts ==
  ASSUME Inv, NEW p \in Pages, Discard(p)
  PROVE  Accounted
<1>1. PICK now : now = [source |-> RecoveredSource(p), staged |-> Discarded(p),
                        transaction |-> RecoveredTransaction(p), work |-> work]
  OBVIOUS
<1>2. (UNCHANGED commit) \/ \E c \in Commits, w \in work : Waits(c, w) /\ Cancel(c, w, now)
  BY <1>1 DEF Discard
<1>3. CASE UNCHANGED commit
  BY <1>3 DEF Accounts, Accounted
<1>4. CASE \E c \in Commits, w \in work : Waits(c, w) /\ Cancel(c, w, now)
  <2>1. PICK c \in Commits, w \in work : Waits(c, w) /\ Cancel(c, w, now)
    BY <1>4
  <2>2. PICK out, n : out = Thrown /\ n = [now EXCEPT !.source = Restored(@, w.before),
                                                      !.work = (@ \ {w}) \cup Abandoned(w)]
    OBVIOUS
  <2>3. out.applied \subseteq DOMAIN w.part /\ Continue(c, w, out, n)
    BY <2>1, <2>2 DEF Cancel, Thrown
  <2>4. IsTurn(n)
    BY <1>1, <2>2 DEF IsTurn
  <2> QED
    BY <2>1, <2>3, <2>4, WithoutEvent, ContinueAccounts
<1> QED
  BY <1>2, <1>3, <1>4

\* A commit that begins leaves those that wait alone.
LEMMA BeginAccounts ==
  ASSUME Inv, NEW c \in Commits, NEW p \in Pages, Commit(c, p) \/ KeepFixing(c, p)
  PROVE  Accounted
<1>1. OthersStay(c) => Accounted
  BY DEF Commit, KeepFixing, Request, OthersStay, Accounts, Accounted
<1>2. CASE Commit(c, p)
  <2>1. PICK src : src = RecoveredSource(p)
    OBVIOUS
  <2>2. PICK r : r = [NoCommit EXCEPT !.page = p, !.batch = Batch(p), !.todo = StagedOn(p),
                                      !.before = Snapshot(Batch(p), src), !.transaction = c]
    OBVIOUS
  <2>3. IsCommit(r)
    BY <2>2 DEF NoCommit, IsCommit
  <2>4. (\E now : PushChunk(c, r, now)) \/ Returns(c, "ended", {})
    BY <1>2, <2>1, <2>2 DEF Commit, Request
  <2> QED
    BY <1>1, <2>3, <2>4, ChunkGoesOn, EndNames
<1>3. CASE KeepFixing(c, p)
  <2>1. PICK r : r = [NoCommit EXCEPT !.page = p, !.batch = Batch(p),
                                      !.transaction = transaction.id,
                                      !.before = Snapshot(Batch(p), source),
                                      !.applied = StagedOn(p), !.files = FilesOf(StagedOn(p))]
    OBVIOUS
  <2>2. PICK now : now = [source |-> source, staged |-> staged,
                          transaction |-> transaction, work |-> work]
    OBVIOUS
  <2>3. IsCommit(r) /\ IsTurn(now)
    BY <2>1, <2>2 DEF NoCommit, IsCommit, IsTurn
  <2>4. r.page = p /\ r.batch = Batch(p) /\ r.before = Snapshot(r.batch, source)
        /\ r.applied = StagedOn(p) /\ r.todo = {} /\ r.attempt = 0
    BY <2>1 DEF NoCommit
  <2>5. Sound(r, staged, told, saves)
    BY <1>3, <2>3, <2>4, BeginsEligible DEF KeepFixing, Request, Eligible, Inv, Files
  <2>6. Judge(c, r, now)
    BY <1>3, <2>1, <2>2 DEF KeepFixing, Request
  <2> QED
    BY <1>1, <2>3, <2>5, <2>6, JudgeAccounts
<1> QED
  BY <1>2, <1>3

LEMMA AccountsNext ==
  ASSUME Inv, [Next]_vars
  PROVE  Accounted
<1>1. CASE UNCHANGED commit
  BY <1>1 DEF Accounts, Accounted
<1>2. CASE \E c \in Commits, p \in Pages : Commit(c, p) \/ KeepFixing(c, p)
  BY <1>2, BeginAccounts
<1>3. CASE \E p \in Pages : Discard(p)
  BY <1>3, DiscardAccounts
<1>4. CASE \E c \in Commits : Timeout(c)
  BY <1>4, TimeoutAccounts
<1>5. CASE \E w \in work, c \in Commits : Reply(c, w)
  BY <1>5, ReplyAccounts
<1>6. CASE Restart
  <2>1. \A c \in Commits : commit[c].at = "waiting" => commit'[c].at = "lost"
    BY <1>6 DEF Restart, NoCommit
  <2> QED
    BY <2>1 DEF Accounts, Accounted
<1>7. CASE \/ \E e \in Elements : Save(e)
           \/ \E p \in Pages : Rollback(p)
           \/ \E w \in work : Take(w) \/ StaleReply(w)
           \/ \E w \in work, e \in Elements : Write(w, e)
           \/ UNCHANGED vars
  BY <1>1, <1>7 DEF Save, Rollback, Take, StaleReply, Write, vars
<1> QED
  BY <1>2, <1>3, <1>4, <1>5, <1>6, <1>7 DEF Next

\* commitManualEdits: a text that a commit tells applied is in the source, and any
\* other of its batch is as the commit found it, unless the answer names its file:
\* then it is neither the edit nor a text the checks reject.  Whatever agents write
\* and report, late answers included, when the commit ends without a repair.
THEOREM FirstPassAccounted == Spec => FirstPassAnswersForAll
<1>1. Inv /\ [Next]_vars =>
        [\A c \in Commits :
           commit[c].at = "waiting" /\ commit'[c].at = "ended" /\ commit[c].attempt = 0 =>
             \A e \in DOMAIN commit[c].batch :
               IF told'[e] # told[e]
                 THEN source'[e] = commit[c].batch[e].text
                 ELSE \/ source'[e] = commit[c].before[e]
                      \/ /\ File[e] \in commit'[c].files
                         /\ source'[e] \notin {commit[c].batch[e].text, Broken}]_vars
  BY AccountsNext DEF Accounts, Accounted
<1> QED
  BY Invariance, <1>1, PTL DEF Spec, FirstPassAnswersForAll

-----------------------------------------------------------------------------
(***************************************************************************)
(* What the snapshots remember.                                            *)
(***************************************************************************)
\* No file has texts of two pages.
Apart == \A e, d \in Elements : File[e] = File[d] => Page[e] = Page[d]

On(p) == {e \in Elements : Page[e] = p}

\* A snapshot has every text that is told and in the source.
Remembers(before, src, tld) ==
  \A e \in DOMAIN before : tld[e] # 0 /\ src[e] = tld[e] => before[e] = tld[e]

\* A text of e that is told is what a first pass found, or not that of the source.
Expected(r, e, text, tld) == tld[e] # 0 /\ text = tld[e] => r.before[e] = tld[e]

\* Undoing a first pass loses no text that is told.
Undoable(r, src, tld) == r.attempt = 0 => \A e \in DOMAIN r.before : Expected(r, e, src[e], tld)

\* An event that somebody waits for hands out entries of its commit, and has a
\* snapshot of its own.
Live(w, r, src, tld) ==
  /\ r.at = "waiting"
  /\ \A e \in DOMAIN w.part : e \in DOMAIN r.batch /\ w.part[e] = r.batch[e]
  /\ DOMAIN w.before \subseteq On(r.page) /\ Remembers(w.before, src, tld)
  /\ r.attempt = 0 =>
       \A e \in DOMAIN w.before : e \in DOMAIN r.before /\ Expected(r, e, w.before[e], tld)

\* The transaction file, if it is of the commit's page, is the commit's.
Owns(r, tx) ==
  tx # Absent /\ tx.page = r.page => tx.id = r.transaction /\ (r.attempt = 0 => tx.before = r.before)

Recoverable(tx, src, tld) ==
  tx # Absent => DOMAIN tx.before \subseteq On(tx.page) /\ Remembers(tx.before, src, tld)

Memory ==
  /\ \A c \in Commits : commit[c].at = "waiting" =>
       Undoable(commit[c], source, told) /\ Owns(commit[c], transaction)
  /\ \A w \in work : w.state # "stale" => Live(w, commit[w.id[1]], source, told)
  /\ \A w, x \in work : w.state # "stale" /\ x.state # "stale" /\ w.id[1] = x.id[1] => w = x
  /\ Recoverable(transaction, source, told)

\* What a turn has made of the files: nothing that is told is lost, and nothing
\* is touched beyond the commit's page.
Fit(c, r, now) ==
  /\ \A e \in Elements : told[e] # 0 /\ source[e] = told[e] => now.source[e] = told[e]
  /\ \A e \in Elements \ On(r.page) : now.source[e] = source[e]
  /\ Recoverable(now.transaction, now.source, told)
  /\ now.transaction # Absent /\ now.transaction.page = r.page => now.transaction.id = r.transaction
  /\ \A d \in Commits : d # c /\ commit[d].at = "waiting" => Owns(commit[d], now.transaction)
  /\ \A w \in now.work : w.state # "stale" => w \in work /\ w.id[1] # c

First(r, now) == Undoable(r, now.source, told) /\ Owns(r, now.transaction)

\* No text that is told leaves the source.
Steady == \A e \in Elements : told[e] # 0 /\ source[e] = told[e] => source'[e] = told[e]

LEMMA ScopeOn ==
  ASSUME Apart, NEW batch, NEW p, \A e \in DOMAIN batch : e \in Elements /\ Page[e] = p
  PROVE  Scope(batch) \subseteq On(p) /\ DOMAIN batch \subseteq Scope(batch)
BY DEF Apart, Scope, FilesOf, On

\* The rest of a turn, which makes s of the commit's record.
Leaves(c, r, s, now) ==
  /\ \A e \in Elements \ On(r.page) : source'[e] = source[e] /\ told'[e] = told[e]
  /\ commit' = [commit EXCEPT ![c] = s]
  /\ transaction' = Absent \/ transaction' = now.transaction
  /\ Recoverable(transaction', source', told')
  /\ s.at = "waiting" => Undoable(s, source', told') /\ Owns(s, transaction')
  /\ \A w \in work' : w.state # "stale" =>
       (w \in work /\ w.id[1] # c) \/ (w.id[1] = c /\ Live(w, s, source', told'))
  /\ \A w, x \in work' : w.state # "stale" /\ x.state # "stale" /\ w.id[1] = c /\ x.id[1] = c => w = x

LEMMA TurnRemembers ==
  ASSUME Apart, Inv, Memory, NEW c \in Commits, NEW r, Eligible(c, r), NEW now, Fit(c, r, now),
         NEW s, Leaves(c, r, s, now)
  PROVE  Memory'
<1>1. commit'[c] = s /\ \A d \in Commits : d # c => commit'[d] = commit[d]
  BY DEF Inv, Working, Leaves
<1>2. ASSUME NEW d \in Commits, d # c, commit[d].at = "waiting"
      PROVE  /\ commit[d].page # r.page
             /\ \A e \in On(commit[d].page) : source'[e] = source[e] /\ told'[e] = told[e]
             /\ DOMAIN commit[d].before \subseteq On(commit[d].page)
  <2>1. commit[d].page # r.page
    BY <1>2 DEF Eligible
  <2>2. /\ \A e \in DOMAIN commit[d].batch : e \in Elements /\ Page[e] = commit[d].page
        /\ DOMAIN commit[d].before = Scope(commit[d].batch)
    BY <1>2 DEF Inv, Working, Sound
  <2>3. DOMAIN commit[d].before \subseteq On(commit[d].page)
    BY <2>2, ScopeOn
  <2> QED
    BY <2>1, <2>3 DEF On, Leaves
<1>3. ASSUME NEW d \in Commits, d # c, commit[d].at = "waiting"
      PROVE  Undoable(commit[d], source', told') /\ Owns(commit[d], transaction')
  <2>1. Undoable(commit[d], source, told) /\ Owns(commit[d], now.transaction)
    BY <1>3 DEF Memory, Fit
  <2>2. Undoable(commit[d], source', told')
    BY <1>2, <1>3, <2>1 DEF Undoable, Expected
  <2> QED
    BY <2>1, <2>2 DEF Owns, Leaves
<1>4. ASSUME NEW w \in work, w.state # "stale", w.id[1] # c
      PROVE  Live(w, commit[w.id[1]], source', told') /\ w.id[1] \in Commits
  <2>1. w.id[1] \in Commits
    BY DEF Inv, Events, IsEvent
  <2>2. Live(w, commit[w.id[1]], source, told)
    BY <1>4 DEF Memory
  <2> QED
    BY <1>2, <1>4, <2>1, <2>2 DEF Live, Remembers, Expected
<1>5. \A d \in Commits : commit'[d].at = "waiting" =>
        Undoable(commit'[d], source', told') /\ Owns(commit'[d], transaction')
  BY <1>1, <1>3 DEF Leaves
<1>6. \A w \in work' : w.state # "stale" => Live(w, commit'[w.id[1]], source', told')
  BY <1>1, <1>4 DEF Leaves
<1>7. \A w, x \in work' : w.state # "stale" /\ x.state # "stale" /\ w.id[1] = x.id[1] => w = x
  BY DEF Memory, Leaves
<1> QED
  BY <1>5, <1>6, <1>7 DEF Memory, Leaves

LEMMA PushRemembers ==
  ASSUME Apart, Inv, Memory, NEW c \in Commits, NEW r, Eligible(c, r), NEW now,
         Given(c, r.batch, now), Fit(c, r, now), r.attempt = 0 => First(r, now),
         NEW part, DOMAIN part \subseteq DOMAIN r.batch,
         \A e \in DOMAIN part : part[e] = r.batch[e],
         Push(c, r, part, now)
  PROVE  Memory' /\ Steady
<1>1. PICK s : s = [r EXCEPT !.at = "waiting", !.pushed = @ + 1]
  OBVIOUS
<1>2. PICK before : before = Snapshot(part, now.source)
  OBVIOUS
<1>3. PICK event : event = [id |-> <<c, r.pushed + 1>>, state |-> "queued", part |-> part,
                            before |-> before]
  OBVIOUS
<1>4. /\ commit' = [commit EXCEPT ![c] = s] /\ told' = told
      /\ source' = now.source /\ transaction' = now.transaction
      /\ work' = now.work \cup {event}
  BY <1>1, <1>2, <1>3 DEF Push, Turn, Given
<1>5. /\ s.at = "waiting" /\ s.batch = r.batch /\ s.page = r.page /\ s.before = r.before
      /\ s.attempt = r.attempt /\ s.transaction = r.transaction
  BY <1>1, PushedFields DEF Eligible
<1>6. Undoable(s, source', told') /\ Owns(s, transaction')
  BY <1>4, <1>5 DEF Fit, First, Undoable, Expected, Owns
<1>7. \A e \in DOMAIN r.batch : e \in Elements /\ Page[e] = r.page
  BY DEF Eligible, Sound
<1>8. DOMAIN before \subseteq On(r.page) /\ DOMAIN before \subseteq Scope(r.batch)
      /\ \A e \in DOMAIN before : before[e] = source'[e]
  <2>1. DOMAIN before = Scope(part) /\ \A e \in DOMAIN before : before[e] = source'[e]
    BY <1>2, <1>4 DEF Snapshot
  <2>2. Scope(part) \subseteq Scope(r.batch)
    BY DEF Scope, FilesOf
  <2> QED
    BY <1>7, <2>1, <2>2, ScopeOn
<1>9. event.id[1] = c /\ event.part = part /\ event.before = before
  BY <1>3
<1>10. Live(event, s, source', told')
  <2>1. Remembers(before, source', told')
    BY <1>8 DEF Remembers
  <2>2. s.attempt = 0 => \A e \in DOMAIN before :
          e \in DOMAIN s.before /\ Expected(s, e, before[e], told')
    BY <1>5, <1>6, <1>8 DEF Undoable, Eligible, Sound
  <2> QED
    BY <1>5, <1>8, <1>9, <2>1, <2>2 DEF Live
<1>11. \A w \in work' : w.state # "stale" =>
         (w \in work /\ w.id[1] # c) \/ (w.id[1] = c /\ Live(w, s, source', told'))
  BY <1>4, <1>9, <1>10 DEF Fit
<1>12. \A w, x \in work' : w.state # "stale" /\ x.state # "stale" /\ w.id[1] = c /\ x.id[1] = c
         => w = x
  BY <1>4 DEF Fit
<1>13. /\ \A e \in Elements \ On(r.page) : source'[e] = source[e] /\ told'[e] = told[e]
       /\ Recoverable(transaction', source', told')
  BY <1>4 DEF Fit
<1>14. Leaves(c, r, s, now)
  BY <1>4, <1>6, <1>11, <1>12, <1>13 DEF Leaves
<1>15. Steady
  BY <1>4 DEF Fit, Steady
<1> QED
  BY <1>14, <1>15, TurnRemembers

\* After finally the transaction is as it was, and of another page, or gone.
LEMMA FinallyLeaves ==
  ASSUME NEW c, NEW r, NEW now, Fit(c, r, now), NEW tx, tx = Cleared(now.transaction, r.transaction)
  PROVE  /\ tx = Absent \/ tx = now.transaction
         /\ tx # Absent => DOMAIN tx.before \subseteq On(tx.page) /\ tx.page # r.page
                           /\ Remembers(tx.before, now.source, told)
BY DEF Cleared, Fit, Recoverable

\* A commit that ends has changed texts of its page only.
LEMMA EndRemembers ==
  ASSUME Apart, Inv, Memory, NEW c \in Commits, NEW r, Eligible(c, r), NEW now, Fit(c, r, now),
         transaction' = Cleared(now.transaction, r.transaction), work' = now.work,
         \A e \in Elements \ On(r.page) : source'[e] = now.source[e] /\ told'[e] = told[e],
         Returns(c, "ended", r.files)
  PROVE  Memory'
<1>1. PICK s : /\ IsCommit(s) /\ s.at = "ended" /\ s.attempt = 0
               /\ commit' = [commit EXCEPT ![c] = s]
  BY ReturnsRecord
<1>2. /\ transaction' = Absent \/ transaction' = now.transaction
      /\ transaction' # Absent =>
           /\ DOMAIN transaction'.before \subseteq On(transaction'.page)
           /\ transaction'.page # r.page
           /\ Remembers(transaction'.before, now.source, told)
  BY FinallyLeaves
<1>3. Recoverable(transaction', source', told')
  <2> SUFFICES ASSUME transaction' # Absent
               PROVE  DOMAIN transaction'.before \subseteq On(transaction'.page)
                      /\ Remembers(transaction'.before, source', told')
    BY DEF Recoverable
  <2>1. \A e \in DOMAIN transaction'.before :
          source'[e] = now.source[e] /\ told'[e] = told[e]
    BY <1>2 DEF On
  <2> QED
    BY <1>2, <2>1 DEF Remembers
<1>4. \A w \in work' : w.state # "stale" => w \in work /\ w.id[1] # c
  BY DEF Fit
<1>5. \A e \in Elements \ On(r.page) : source'[e] = source[e] /\ told'[e] = told[e]
  BY DEF Fit
<1>6. Leaves(c, r, s, now)
  BY <1>1, <1>2, <1>3, <1>4, <1>5 DEF Leaves
<1> QED
  BY <1>6, TurnRemembers

LEMMA AcceptRemembers ==
  ASSUME Apart, Inv, Memory, NEW c \in Commits, NEW r, Eligible(c, r), NEW now,
         Given(c, r.batch, now), Fit(c, r, now), Accept(c, r, now)
  PROVE  Memory' /\ Steady
<1>1. /\ source' = now.source /\ work' = now.work
      /\ transaction' = Cleared(now.transaction, r.transaction)
      /\ told' = [e \in Elements |-> IF e \in r.applied THEN r.batch[e].text ELSE told[e]]
      /\ Returns(c, "ended", r.files)
  BY AcceptTurn DEF Given
<1>2. \A e \in r.applied : e \in On(r.page)
  BY DEF Eligible, Sound, On
<1>3. \A e \in Elements \ On(r.page) : source'[e] = now.source[e] /\ told'[e] = told[e]
  BY <1>1, <1>2
<1>4. Memory'
  BY <1>1, <1>3, EndRemembers
<1>5. Steady
  BY <1>1 DEF Steady, Fit
<1> QED
  BY <1>4, <1>5

LEMMA UndoRemembers ==
  ASSUME Apart, Inv, Memory, NEW c \in Commits, NEW r, Eligible(c, r), NEW now,
         Given(c, r.batch, now), Fit(c, r, now), First(r, now), r.attempt = 0, Undo(c, r, now)
  PROVE  Memory' /\ Steady
<1>1. /\ source' = Restored(now.source, r.before) /\ work' = now.work
      /\ transaction' = Cleared(now.transaction, r.transaction) /\ told' = told
      /\ Returns(c, "ended", r.files)
  BY UndoTurn DEF Given
<1>2. \A e \in Elements :
        source'[e] = IF e \in DOMAIN r.before THEN r.before[e] ELSE now.source[e]
  BY <1>1 DEF Restored
<1>3. \A e \in DOMAIN r.before : Expected(r, e, now.source[e], told)
  BY DEF First, Undoable
<1>4. DOMAIN r.before \subseteq On(r.page)
  BY ScopeOn DEF Eligible, Sound
<1>5. \A e \in Elements \ On(r.page) : source'[e] = now.source[e] /\ told'[e] = told[e]
  BY <1>1, <1>2, <1>4
<1>6. Memory'
  BY <1>1, <1>5, EndRemembers
<1>7. Steady
  BY <1>2, <1>3 DEF Steady, Fit, Expected
<1> QED
  BY <1>6, <1>7

LEMMA RepairRemembers ==
  ASSUME Apart, Inv, Memory, NEW c \in Commits, NEW r, Eligible(c, r), NEW now,
         Given(c, r.batch, now), Fit(c, r, now), Repair(c, r, now)
  PROVE  Memory' /\ Steady
<1>1. r.attempt \in 0..MaxRepairs
  BY DEF Eligible, Sound
<1>2. CASE r.attempt < MaxRepairs /\ Push(c, [r EXCEPT !.attempt = @ + 1, !.failed = {}], r.batch, now)
  <2>1. PICK s : s = [r EXCEPT !.attempt = @ + 1, !.failed = {}]
    OBVIOUS
  <2>2. /\ IsCommit(s) /\ s.attempt = r.attempt + 1
        /\ s.batch = r.batch /\ s.page = r.page /\ s.before = r.before
        /\ s.applied = r.applied /\ s.todo = r.todo /\ s.transaction = r.transaction
    BY <2>1, AttemptFields DEF Eligible
  <2>3. s.attempt \in 0..MaxRepairs /\ s.attempt # 0
    BY <1>1, <1>2, <2>2, NatBounds
  <2>4. Eligible(c, s)
    BY <2>2, <2>3, EligibleUpdate DEF Eligible, Sound
  <2>5. Push(c, s, r.batch, now) /\ Given(c, s.batch, now) /\ Fit(c, s, now)
    BY <1>2, <2>1, <2>2 DEF Fit
  <2> QED
    BY <2>2, <2>3, <2>4, <2>5, PushRemembers
<1>3. CASE Returns(c, "undecided", r.files) /\ Turn(now) /\ UNCHANGED told
  <2>1. PICK s : /\ IsCommit(s) /\ s.at = "undecided" /\ s.attempt = 0
                 /\ commit' = [commit EXCEPT ![c] = s]
    BY <1>3, ReturnsRecord
  <2>2. /\ source' = now.source /\ transaction' = now.transaction
        /\ work' = now.work /\ told' = told
    BY <1>3 DEF Turn
  <2>3. Leaves(c, r, s, now)
    BY <2>1, <2>2 DEF Leaves, Fit
  <2>4. Steady
    BY <2>2 DEF Steady, Fit
  <2> QED
    BY <2>3, <2>4, TurnRemembers
<1> QED
  BY <1>2, <1>3 DEF Repair

LEMMA PushChunkRemembers ==
  ASSUME Apart, Inv, Memory, NEW c \in Commits, NEW r, Eligible(c, r), NEW now,
         Given(c, r.batch, now), Fit(c, r, now), First(r, now), PushChunk(c, r, now)
  PROVE  Memory' /\ Steady
<1>1. PICK rest : rest = r.todo \ Chunk(r)
  OBVIOUS
<1>2. PICK s : s = [r EXCEPT !.todo = rest]
  OBVIOUS
<1>3. PICK part : part = [e \in Chunk(r) |-> r.batch[e]]
  OBVIOUS
<1>4. /\ IsCommit(s) /\ s.todo = rest
      /\ s.batch = r.batch /\ s.page = r.page /\ s.before = r.before
      /\ s.applied = r.applied /\ s.attempt = r.attempt /\ s.transaction = r.transaction
  BY <1>2, TodoFields DEF Eligible
<1>5. Eligible(c, s)
  BY <1>1, <1>4, EligibleUpdate DEF Eligible, Sound
<1>6. DOMAIN part \subseteq DOMAIN s.batch /\ \A e \in DOMAIN part : part[e] = s.batch[e]
  BY <1>3, <1>4 DEF Chunk, Eligible, Sound
<1>7. Push(c, s, part, now)
  BY <1>1, <1>2, <1>3 DEF PushChunk
<1>8. Given(c, s.batch, now) /\ Fit(c, s, now) /\ First(s, now)
  BY <1>4 DEF Fit, First, Undoable, Expected, Owns
<1> QED
  BY <1>5, <1>6, <1>7, <1>8, PushRemembers

LEMMA JudgeRemembers ==
  ASSUME Apart, Inv, Memory, NEW c \in Commits, NEW r, Eligible(c, r), NEW now,
         Given(c, r.batch, now), Fit(c, r, now), First(r, now), r.attempt = 0, Judge(c, r, now)
  PROVE  Memory' /\ Steady
<1>1. PICK named : named = IF r.applied = {} THEN DOMAIN r.batch ELSE r.applied
  OBVIOUS
<1>2. PICK s : s = [r EXCEPT !.applied = named]
  OBVIOUS
<1>3. CASE Repair(c, s, now)
  <2>1. /\ IsCommit(s) /\ s.applied = named
        /\ s.batch = r.batch /\ s.page = r.page /\ s.before = r.before
        /\ s.attempt = r.attempt /\ s.todo = r.todo /\ s.transaction = r.transaction
    BY <1>2 DEF IsCommit, Eligible
  <2>2. Eligible(c, s)
    BY <1>1, <2>1, EligibleUpdate DEF Eligible, Sound
  <2>3. Given(c, s.batch, now) /\ Fit(c, s, now)
    BY <2>1 DEF Fit
  <2> QED
    BY <1>3, <2>2, <2>3, RepairRemembers
<1> QED
  BY <1>1, <1>2, <1>3, UndoRemembers, AcceptRemembers DEF Judge

LEMMA JudgeRepairRemembers ==
  ASSUME Apart, Inv, Memory, NEW c \in Commits, NEW r, Eligible(c, r), NEW now,
         Given(c, r.batch, now), Fit(c, r, now),
         NEW out, out.applied \subseteq DOMAIN r.batch, JudgeRepair(c, r, out, now)
  PROVE  Memory' /\ Steady
<1>1. PICK named, written : named = r.applied \cup out.applied /\ written = r.files \cup out.files
  OBVIOUS
<1>2. PICK s : s = [r EXCEPT !.applied = named, !.files = written]
  OBVIOUS
<1>3. /\ IsCommit(s) /\ s.applied = named
      /\ s.batch = r.batch /\ s.page = r.page /\ s.before = r.before
      /\ s.attempt = r.attempt /\ s.todo = r.todo /\ s.transaction = r.transaction
  BY <1>2 DEF IsCommit, Eligible
<1>4. Eligible(c, s)
  BY <1>1, <1>3, EligibleUpdate DEF Eligible, Sound
<1>5. Given(c, s.batch, now) /\ Fit(c, s, now)
  BY <1>3 DEF Fit
<1>6. Accept(c, s, now) \/ Repair(c, s, now)
  BY <1>1, <1>2 DEF JudgeRepair
<1> QED
  BY <1>4, <1>5, <1>6, AcceptRemembers, RepairRemembers

LEMMA ContinueRemembers ==
  ASSUME Apart, Inv, Memory, NEW c \in Commits, commit[c].at = "waiting",
         NEW w, DOMAIN w.part \subseteq DOMAIN commit[c].batch,
         NEW out, out.applied \subseteq DOMAIN w.part,
         NEW now, Given(c, commit[c].batch, now), Fit(c, commit[c], now), First(commit[c], now),
         Continue(c, w, out, now)
  PROVE  Memory' /\ Steady
<1>1. PICK r : r = commit[c]
  OBVIOUS
<1>2. PICK s : s = Heard(r, w.part, out)
  OBVIOUS
<1>3. Eligible(c, r) /\ Given(c, r.batch, now) /\ Fit(c, r, now) /\ First(r, now)
  BY <1>1, WaitingEligible
<1>4. /\ IsCommit(s)
      /\ s.batch = r.batch /\ s.page = r.page /\ s.before = r.before
      /\ s.attempt = r.attempt /\ s.transaction = r.transaction
      /\ s.applied \subseteq DOMAIN r.batch /\ s.todo \subseteq DOMAIN r.batch
  BY <1>1, <1>2, <1>3, HeardFields DEF Eligible, Sound
<1>5. Eligible(c, s) /\ Given(c, s.batch, now)
  BY <1>3, <1>4, EligibleUpdate DEF Eligible, Sound
<1>6. Fit(c, s, now) /\ First(s, now)
  BY <1>3, <1>4 DEF Fit, First, Undoable, Expected, Owns
<1>7. CASE JudgeRepair(c, r, out, now)
  BY <1>1, <1>3, <1>7, JudgeRepairRemembers
<1>8. CASE PushChunk(c, s, now)
  BY <1>5, <1>6, <1>8, PushChunkRemembers
<1>9. CASE ~(r.attempt > 0) /\ Judge(c, s, now)
  <2>1. s.attempt = 0
    BY <1>3, <1>4, <1>9, NatBounds DEF Eligible, Sound
  <2> QED
    BY <1>5, <1>6, <1>9, <2>1, JudgeRemembers
<1> QED
  BY <1>1, <1>2, <1>7, <1>8, <1>9 DEF Continue

\* Only one event of a commit has not been given up.
LEMMA OwnEvents ==
  ASSUME Memory, NEW c \in Commits, NEW w \in work, Waits(c, w),
         NEW x \in (work \ {w}) \cup Abandoned(w), x.state # "stale", IsEvent(w)
  PROVE  x \in work /\ x.id[1] # c
<1>1. w.id[1] = c /\ w.state # "stale"
  BY DEF Waits
<1>2. \A y \in Abandoned(w) : y.state = "stale"
  BY DEF Abandoned, IsEvent
<1> QED
  BY <1>1, <1>2 DEF Memory

\* A commit goes on with the files as they are.
LEMMA AsItIs ==
  ASSUME Inv, Memory, NEW c \in Commits, NEW w \in work, Waits(c, w),
         NEW events, events \subseteq (work \ {w}) \cup Abandoned(w),
         NEW now, now = [source |-> source, staged |-> staged,
                         transaction |-> transaction, work |-> events]
  PROVE  /\ commit[c].at = "waiting" /\ DOMAIN w.part \subseteq DOMAIN commit[c].batch
         /\ Given(c, commit[c].batch, now) /\ Fit(c, commit[c], now) /\ First(commit[c], now)
<1>1. /\ commit[c].at = "waiting"
      /\ IsEvent(w) /\ DOMAIN w.part \subseteq DOMAIN commit[c].batch
      /\ \A x \in (work \ {w}) \cup Abandoned(w) :
           /\ IsEvent(x)
           /\ x.id[1] = c => DOMAIN x.part \subseteq DOMAIN commit[c].batch
           /\ x.id[1] # c => About(x)
  BY WithoutEvent
<1>2. now = [source |-> now.source, staged |-> now.staged,
             transaction |-> now.transaction, work |-> now.work]
      /\ now.source = source /\ now.staged = staged
      /\ now.transaction = transaction /\ now.work = events
  OBVIOUS
<1>3. source \in [Elements -> Texts] /\ IsTransaction(transaction)
      /\ staged \in [Elements -> {Absent} \cup Entries]
  BY DEF Inv, Files, Buffer
<1>4. Given(c, commit[c].batch, now)
  BY <1>1, <1>2, <1>3 DEF Given, IsTurn
<1>5. First(commit[c], now)
  BY <1>1, <1>2 DEF Memory, First
<1>6. \A x \in now.work : x.state # "stale" => x \in work /\ x.id[1] # c
  BY <1>1, <1>2, OwnEvents
<1>7. Fit(c, commit[c], now)
  BY <1>1, <1>2, <1>6 DEF Memory, Fit, Owns
<1> QED
  BY <1>1, <1>4, <1>5, <1>7

LEMMA TimeoutRemembers ==
  ASSUME Apart, Inv, Memory, NEW c \in Commits, Timeout(c)
  PROVE  Memory' /\ Steady
<1>1. PICK w \in work :
        /\ Waits(c, w)
        /\ Continue(c, w, Thrown,
             [source |-> source, staged |-> staged, transaction |-> transaction,
              work |-> (work \ {w}) \cup Abandoned(w)])
  BY DEF Timeout
<1>2. PICK events : events = (work \ {w}) \cup Abandoned(w)
  OBVIOUS
<1>3. PICK now : now = [source |-> source, staged |-> staged,
                        transaction |-> transaction, work |-> events]
  OBVIOUS
<1>4. PICK out : out = Thrown
  OBVIOUS
<1>5. out.applied \subseteq DOMAIN w.part
  BY <1>4 DEF Thrown
<1>6. Continue(c, w, out, now)
  BY <1>1, <1>2, <1>3, <1>4
<1>7. /\ commit[c].at = "waiting" /\ DOMAIN w.part \subseteq DOMAIN commit[c].batch
      /\ Given(c, commit[c].batch, now) /\ Fit(c, commit[c], now) /\ First(commit[c], now)
  BY <1>1, <1>2, <1>3, AsItIs
<1> QED
  BY <1>5, <1>6, <1>7, ContinueRemembers

LEMMA ReplyRemembers ==
  ASSUME Apart, Inv, Memory, NEW c \in Commits, NEW w \in work, Reply(c, w)
  PROVE  Memory' /\ Steady
<1>1. PICK out \in Results(w) :
        Continue(c, w, out, [source |-> source, staged |-> staged, transaction |-> transaction,
                             work |-> work \ {w}])
  BY DEF Reply
<1>2. PICK events : events = work \ {w}
  OBVIOUS
<1>3. PICK now : now = [source |-> source, staged |-> staged,
                        transaction |-> transaction, work |-> events]
  OBVIOUS
<1>4. out.applied \subseteq DOMAIN w.part
  BY <1>1 DEF Results
<1>5. Continue(c, w, out, now)
  BY <1>1, <1>2, <1>3
<1>6. Waits(c, w) /\ events \subseteq (work \ {w}) \cup Abandoned(w)
  BY <1>2 DEF Reply
<1>7. /\ commit[c].at = "waiting" /\ DOMAIN w.part \subseteq DOMAIN commit[c].batch
      /\ Given(c, commit[c].batch, now) /\ Fit(c, commit[c], now) /\ First(commit[c], now)
  BY <1>3, <1>6, AsItIs
<1> QED
  BY <1>4, <1>5, <1>7, ContinueRemembers

-----------------------------------------------------------------------------
(***************************************************************************)
(* Recovery.                                                               *)
(***************************************************************************)
LEMMA RecoveredRemembers ==
  ASSUME Memory, NEW p \in Pages, NEW src, src = RecoveredSource(p),
         NEW tx, tx = RecoveredTransaction(p)
  PROVE  /\ \A e \in Elements : told[e] # 0 /\ source[e] = told[e] => src[e] = told[e]
         /\ \A e \in Elements \ On(p) : src[e] = source[e]
         /\ tx = Absent \/ (tx = transaction /\ tx.page # p)
         /\ Recoverable(tx, src, told)
         /\ \A e \in Elements : \/ src[e] = source[e]
                                \/ /\ transaction # Absent /\ transaction.page = p
                                   /\ e \in DOMAIN transaction.before /\ src[e] = transaction.before[e]
<1>1. p # Absent
  BY CopyAssumption DEF CopyAssumption, Pages
<1>2. CASE Recovers(p)
  <2>1. transaction # Absent /\ transaction.page = p /\ tx = Absent
    BY <1>1, <1>2 DEF Recovers, RecoveredTransaction
  <2>2. \A e \in Elements : \/ src[e] = source[e]
                            \/ e \in DOMAIN transaction.before /\ src[e] = transaction.before[e]
    BY DEF RecoveredSource, Restored
  <2> QED
    BY <2>1, <2>2 DEF Memory, Recoverable, Remembers, On
<1>3. CASE ~Recovers(p)
  <2>1. src = source /\ tx = transaction /\ (tx = Absent \/ tx.page # p)
    BY <1>3 DEF Recovers, RecoveredSource, RecoveredTransaction
  <2> QED
    BY <2>1 DEF Memory
<1> QED
  BY <1>2, <1>3

\* A page that is not being applied is recovered.
LEMMA AloneRemembers ==
  ASSUME Apart, Inv, Memory, NEW p \in Pages, NoneOn(p), UNCHANGED <<commit, work, told>>,
         source' = RecoveredSource(p), transaction' = RecoveredTransaction(p)
  PROVE  Memory' /\ Steady
<1>1. /\ \A e \in Elements : told[e] # 0 /\ source[e] = told[e] => source'[e] = told[e]
      /\ \A e \in Elements \ On(p) : source'[e] = source[e]
      /\ transaction' = Absent \/ transaction' = transaction
      /\ Recoverable(transaction', source', told)
  <2>1. PICK src, tx : src = RecoveredSource(p) /\ tx = RecoveredTransaction(p)
    OBVIOUS
  <2> QED
    BY <2>1, RecoveredRemembers
<1>2. ASSUME NEW d \in Commits, commit[d].at = "waiting"
      PROVE  /\ \A e \in On(commit[d].page) : source'[e] = source[e]
             /\ DOMAIN commit[d].before \subseteq On(commit[d].page)
  <2>1. commit[d].page # p
    BY <1>2 DEF NoneOn
  <2>2. /\ \A e \in DOMAIN commit[d].batch : e \in Elements /\ Page[e] = commit[d].page
        /\ DOMAIN commit[d].before = Scope(commit[d].batch)
    BY <1>2 DEF Inv, Working, Sound
  <2>3. DOMAIN commit[d].before \subseteq On(commit[d].page)
    BY <2>2, ScopeOn
  <2> QED
    BY <1>1, <2>1, <2>3 DEF On
<1>3. ASSUME NEW d \in Commits, commit[d].at = "waiting"
      PROVE  Undoable(commit[d], source', told) /\ Owns(commit[d], transaction')
  <2>1. Undoable(commit[d], source, told) /\ Owns(commit[d], transaction)
    BY <1>3 DEF Memory
  <2>2. Undoable(commit[d], source', told)
    BY <1>2, <1>3, <2>1 DEF Undoable, Expected
  <2> QED
    BY <1>1, <2>1, <2>2 DEF Owns
<1>4. ASSUME NEW w \in work, w.state # "stale"
      PROVE  Live(w, commit[w.id[1]], source', told)
  <2>1. w.id[1] \in Commits
    BY DEF Inv, Events, IsEvent
  <2>2. Live(w, commit[w.id[1]], source, told)
    BY <1>4 DEF Memory
  <2> QED
    BY <1>2, <2>1, <2>2 DEF Live, Remembers
<1>5. Memory'
  BY <1>1, <1>3, <1>4 DEF Memory
<1> QED
  BY <1>1, <1>5 DEF Steady

\* A discard while a commit works on the page: the files go back to the transaction,
\* then to the snapshot of the event.
LEMMA CancelledFit ==
  ASSUME Apart, Inv, Memory, NEW p \in Pages, NEW c \in Commits, NEW w \in work, Waits(c, w),
         commit[c].page = p, NEW old, old = Restored(RecoveredSource(p), w.before),
         NEW events, events = (work \ {w}) \cup Abandoned(w),
         NEW n, n = [source |-> old, staged |-> Discarded(p),
                     transaction |-> RecoveredTransaction(p), work |-> events]
  PROVE  /\ commit[c].at = "waiting" /\ DOMAIN w.part \subseteq DOMAIN commit[c].batch
         /\ Given(c, commit[c].batch, n) /\ Fit(c, commit[c], n) /\ First(commit[c], n)
<1>1. PICK src, tx, stg : /\ src = RecoveredSource(p) /\ tx = RecoveredTransaction(p)
                          /\ stg = Discarded(p)
  OBVIOUS
<1>2. /\ \A e \in Elements : told[e] # 0 /\ source[e] = told[e] => src[e] = told[e]
      /\ \A e \in Elements \ On(p) : src[e] = source[e]
      /\ tx = Absent \/ (tx = transaction /\ tx.page # p)
      /\ Recoverable(tx, src, told)
      /\ \A e \in Elements : \/ src[e] = source[e]
                             \/ /\ transaction # Absent /\ transaction.page = p
                                /\ e \in DOMAIN transaction.before /\ src[e] = transaction.before[e]
  BY <1>1, RecoveredRemembers
<1>3. n = [source |-> n.source, staged |-> n.staged,
           transaction |-> n.transaction, work |-> n.work]
      /\ n.source = old /\ n.staged = stg /\ n.transaction = tx /\ n.work = events
  BY <1>1
<1>4. /\ commit[c].at = "waiting"
      /\ IsEvent(w) /\ DOMAIN w.part \subseteq DOMAIN commit[c].batch
      /\ \A x \in events : /\ IsEvent(x)
                           /\ x.id[1] = c => DOMAIN x.part \subseteq DOMAIN commit[c].batch
                           /\ x.id[1] # c => About(x)
  BY WithoutEvent
<1>5. src \in [Elements -> Texts] /\ IsTransaction(tx)
  BY <1>1, RecoveredTyped
<1>6. old \in [Elements -> Texts]
  BY <1>1, <1>4, <1>5, RestoredTyped DEF IsEvent
<1>7. /\ stg \in [Elements -> {Absent} \cup Entries]
      /\ \A e \in Elements : stg[e] = Absent \/ stg[e] = staged[e]
  BY <1>1 DEF Discarded, Inv, Buffer
<1>8. Given(c, commit[c].batch, n)
  BY <1>3, <1>4, <1>5, <1>6, <1>7 DEF Given, IsTurn
<1>9. Live(w, commit[c], source, told) /\ Undoable(commit[c], source, told)
      /\ Owns(commit[c], transaction)
  <2>1. w.id[1] = c /\ w.state # "stale"
    BY DEF Waits
  <2> QED
    BY <1>4, <2>1 DEF Memory
<1>10. \A e \in Elements : old[e] = IF e \in DOMAIN w.before THEN w.before[e] ELSE src[e]
  BY <1>1 DEF Restored
<1>11. First(commit[c], n)
  <2>1. ASSUME NEW e \in DOMAIN commit[c].before, commit[c].attempt = 0
        PROVE  Expected(commit[c], e, old[e], told)
    <3>1. e \in Elements
      BY <1>4, <2>1 DEF Inv, Working, Sound, Scope
    <3>2. CASE e \in DOMAIN w.before
      BY <1>9, <1>10, <2>1, <3>1, <3>2 DEF Live
    <3>3. CASE e \notin DOMAIN w.before /\ src[e] = source[e]
      BY <1>9, <1>10, <2>1, <3>1, <3>3 DEF Undoable
    <3>4. CASE e \notin DOMAIN w.before /\ transaction # Absent /\ transaction.page = p
               /\ src[e] = transaction.before[e]
      <4>1. old[e] = commit[c].before[e]
        BY <1>9, <1>10, <2>1, <3>1, <3>4 DEF Owns
      <4> QED
        BY <4>1 DEF Expected
    <3> QED
      BY <1>2, <3>1, <3>2, <3>3, <3>4
  <2>2. Undoable(commit[c], old, told)
    BY <2>1 DEF Undoable
  <2>3. Owns(commit[c], tx)
    BY <1>2 DEF Owns
  <2> QED
    BY <1>3, <2>2, <2>3 DEF First
<1>12. Fit(c, commit[c], n)
  <2>1. \A e \in Elements : told[e] # 0 /\ source[e] = told[e] => old[e] = told[e]
    BY <1>2, <1>9, <1>10 DEF Live, Remembers
  <2>2. \A e \in Elements \ On(p) : old[e] = source[e]
    BY <1>2, <1>9, <1>10 DEF Live
  <2>3. Recoverable(tx, old, told)
    BY <1>2, <1>9, <1>10, <2>1, <2>2 DEF Recoverable, Remembers, On
  <2>4. \A d \in Commits : d # c /\ commit[d].at = "waiting" => Owns(commit[d], tx)
    BY <1>2 DEF Memory, Owns
  <2>5. \A x \in events : x.state # "stale" => x \in work /\ x.id[1] # c
    BY <1>4, OwnEvents
  <2> QED
    BY <1>2, <1>3, <2>1, <2>2, <2>3, <2>4, <2>5 DEF Fit
<1> QED
  BY <1>4, <1>8, <1>11, <1>12

LEMMA DiscardRemembers ==
  ASSUME Apart, Inv, Memory, NEW p \in Pages, Discard(p)
  PROVE  Memory' /\ Steady
<1>1. PICK src, stg, tx : /\ src = RecoveredSource(p) /\ stg = Discarded(p)
                          /\ tx = RecoveredTransaction(p)
  OBVIOUS
<1>2. PICK now : now = [source |-> src, staged |-> stg, transaction |-> tx, work |-> work]
  OBVIOUS
<1>3. \/ NoneOn(p) /\ Turn(now) /\ UNCHANGED <<commit, told>>
      \/ \E c \in Commits, w \in work :
           commit[c].page = p /\ Waits(c, w) /\ Cancel(c, w, now)
  BY <1>1, <1>2 DEF Discard
<1>4. CASE NoneOn(p) /\ Turn(now) /\ UNCHANGED <<commit, told>>
  <2>1. source' = RecoveredSource(p) /\ transaction' = RecoveredTransaction(p) /\ work' = work
    BY <1>1, <1>2, <1>4 DEF Turn
  <2> QED
    BY <1>4, <2>1, AloneRemembers
<1>5. CASE \E c \in Commits, w \in work : commit[c].page = p /\ Waits(c, w) /\ Cancel(c, w, now)
  <2>1. PICK c \in Commits, w \in work : commit[c].page = p /\ Waits(c, w) /\ Cancel(c, w, now)
    BY <1>5
  <2>2. PICK events, old : events = (work \ {w}) \cup Abandoned(w) /\ old = Restored(src, w.before)
    OBVIOUS
  <2>3. PICK n : n = [now EXCEPT !.source = old, !.work = events]
    OBVIOUS
  <2>4. n = [now EXCEPT !.source = Restored(@, w.before),
                        !.work = (@ \ {w}) \cup Abandoned(w)]
    <3>1. now.source = src /\ now.work = work
      BY <1>2
    <3> QED
      BY <2>2, <2>3, <3>1
  <2>5. PICK out : out = Thrown
    OBVIOUS
  <2>6. Continue(c, w, out, n) /\ out.applied \subseteq DOMAIN w.part
    BY <2>1, <2>4, <2>5 DEF Cancel, Thrown
  <2>7. n = [source |-> old, staged |-> stg, transaction |-> tx, work |-> events]
    BY <1>2, <2>3
  <2>8. /\ old = Restored(RecoveredSource(p), w.before)
        /\ n = [source |-> old, staged |-> Discarded(p),
                transaction |-> RecoveredTransaction(p), work |-> events]
    BY <1>1, <2>2, <2>7
  <2>9. /\ commit[c].at = "waiting" /\ DOMAIN w.part \subseteq DOMAIN commit[c].batch
        /\ Given(c, commit[c].batch, n) /\ Fit(c, commit[c], n) /\ First(commit[c], n)
    BY <2>1, <2>2, <2>8, CancelledFit
  <2> QED
    BY <2>6, <2>9, ContinueRemembers
<1> QED
  BY <1>3, <1>4, <1>5

\* What a commit that begins finds.
LEMMA BeginsAlone ==
  ASSUME Apart, Inv, Memory, NEW c \in Commits, commit[c].at = "new", NEW p, NoneOn(p)
  PROVE  /\ Scope(Batch(p)) \subseteq On(p)
         /\ \A w \in work : w.state # "stale" => w.id[1] # c
         /\ \A d \in Commits : commit[d].at = "waiting" => commit[d].page # p
<1>1. \A e \in DOMAIN Batch(p) : e \in Elements /\ Page[e] = p
  BY DEF Batch, StagedOn
<1>2. Scope(Batch(p)) \subseteq On(p)
  BY <1>1, ScopeOn
<1> QED
  BY <1>2 DEF Memory, Live, NoneOn

LEMMA CommitRemembers ==
  ASSUME Apart, Inv, Memory, NEW c \in Commits, NEW p \in Pages, Commit(c, p)
  PROVE  Memory' /\ Steady
<1>1. PICK src : src = RecoveredSource(p)
  OBVIOUS
<1>2. PICK before : before = Snapshot(Batch(p), src)
  OBVIOUS
<1>3. PICK r : r = [NoCommit EXCEPT !.page = p, !.batch = Batch(p), !.todo = StagedOn(p),
                                    !.before = before, !.transaction = c]
  OBVIOUS
<1>4. /\ IsCommit(r) /\ r.page = p /\ r.batch = Batch(p) /\ r.before = before
      /\ r.todo = StagedOn(p) /\ r.applied = {} /\ r.attempt = 0 /\ r.transaction = c
  BY <1>3 DEF NoCommit, IsCommit
<1>5. PICK tx : tx = [id |-> c, page |-> p, entries |-> Ids(Batch(p)), before |-> before]
  OBVIOUS
<1>6. PICK now : now = [source |-> src, staged |-> staged, transaction |-> tx, work |-> work]
  OBVIOUS
<1>7. PICK old : old = RecoveredTransaction(p)
  OBVIOUS
<1>8. /\ commit[c].at = "new" /\ NoneOn(p)
      /\ \/ PushChunk(c, r, now)
         \/ /\ Returns(c, "ended", {})
            /\ Turn([now EXCEPT !.transaction = old])
            /\ UNCHANGED told
  BY <1>1, <1>2, <1>3, <1>4, <1>5, <1>6, <1>7 DEF Commit, Request
<1>9. src \in [Elements -> Texts] /\ IsTransaction(old)
  BY <1>1, <1>7, RecoveredTyped
<1>10. IsSnapshot(before)
  BY <1>2, <1>9, SnapshotTyped
<1>11. IsTransaction(tx)
  BY <1>5, <1>10, BatchIds DEF IsTransaction
<1>12. staged \in [Elements -> {Absent} \cup Entries]
  BY DEF Inv, Buffer
<1>13. Eligible(c, r)
  BY <1>2, <1>4, <1>8, <1>9, BeginsEligible
<1>14. \A w \in work : /\ IsEvent(w)
                       /\ w.id[1] = c => DOMAIN w.part \subseteq DOMAIN r.batch
                       /\ w.id[1] # c => About(w)
  BY <1>8 DEF Inv, Events, About
<1>15. /\ \A e \in Elements : told[e] # 0 /\ source[e] = told[e] => src[e] = told[e]
       /\ \A e \in Elements \ On(p) : src[e] = source[e]
       /\ old = Absent \/ (old = transaction /\ old.page # p)
       /\ Recoverable(old, src, told)
  BY <1>1, <1>7, RecoveredRemembers
<1>16. /\ Scope(Batch(p)) \subseteq On(p)
       /\ \A w \in work : w.state # "stale" => w.id[1] # c
       /\ \A d \in Commits : commit[d].at = "waiting" => commit[d].page # p
  BY <1>8, BeginsAlone
<1>17. CASE PushChunk(c, r, now)
  <2>1. now = [source |-> now.source, staged |-> now.staged,
               transaction |-> now.transaction, work |-> now.work]
        /\ now.source = src /\ now.staged = staged /\ now.transaction = tx /\ now.work = work
    BY <1>6
  <2>2. Given(c, r.batch, now)
    BY <1>9, <1>11, <1>12, <1>14, <2>1 DEF Given, IsTurn
  <2>3. DOMAIN before = Scope(r.batch) /\ \A e \in DOMAIN before : before[e] = src[e]
    BY <1>2, <1>4 DEF Snapshot
  <2>4. tx.id = c /\ tx.page = p /\ tx.before = before
    BY <1>5
  <2>5. Undoable(r, src, told) /\ Owns(r, tx)
    BY <1>4, <2>3, <2>4 DEF Undoable, Expected, Owns
  <2>6. Recoverable(tx, src, told)
    BY <1>4, <1>16, <2>3, <2>4 DEF Recoverable, Remembers
  <2>7. \A d \in Commits : d # c /\ commit[d].at = "waiting" => Owns(commit[d], tx)
    BY <1>16, <2>4 DEF Owns
  <2>8. Fit(c, r, now) /\ First(r, now)
    BY <1>4, <1>15, <1>16, <2>1, <2>4, <2>5, <2>6, <2>7 DEF Fit, First
  <2> QED
    BY <1>13, <1>17, <2>2, <2>8, PushChunkRemembers
<1>18. CASE Returns(c, "ended", {}) /\ UNCHANGED told /\ Turn([now EXCEPT !.transaction = old])
  <2>1. PICK n : n = [now EXCEPT !.transaction = old]
    OBVIOUS
  <2>2. /\ n.source = src /\ n.transaction = old /\ n.work = work
    BY <1>6, <2>1
  <2>3. /\ source' = src /\ transaction' = old /\ work' = work /\ told' = told
    BY <1>18, <2>1, <2>2 DEF Turn
  <2>4. PICK s : /\ IsCommit(s) /\ s.at = "ended" /\ s.attempt = 0
                 /\ commit' = [commit EXCEPT ![c] = s]
    BY <1>18, ReturnsRecord
  <2>5. \A d \in Commits : d # c /\ commit[d].at = "waiting" => Owns(commit[d], old)
    BY <1>15 DEF Memory, Owns
  <2>6. Fit(c, r, n)
    BY <1>4, <1>15, <1>16, <2>2, <2>5 DEF Fit
  <2>7. Leaves(c, r, s, n)
    BY <1>4, <1>15, <1>16, <2>2, <2>3, <2>4 DEF Leaves
  <2>8. Steady
    BY <1>15, <2>3 DEF Steady
  <2> QED
    BY <1>13, <2>6, <2>7, <2>8, TurnRemembers
<1> QED
  BY <1>8, <1>17, <1>18

\* Keep fixing never undoes: what it starts from is what it takes for applied.
LEMMA KeepFixingRemembers ==
  ASSUME Apart, Inv, Memory, NEW c \in Commits, NEW p \in Pages, KeepFixing(c, p)
  PROVE  Memory' /\ Steady
<1>1. PICK before : before = Snapshot(Batch(p), source)
  OBVIOUS
<1>2. PICK r : r = [NoCommit EXCEPT !.page = p, !.batch = Batch(p), !.transaction = transaction.id,
                                    !.before = before, !.applied = StagedOn(p),
                                    !.files = FilesOf(StagedOn(p))]
  OBVIOUS
<1>3. /\ IsCommit(r) /\ r.page = p /\ r.batch = Batch(p) /\ r.before = before
      /\ r.todo = {} /\ r.applied = StagedOn(p) /\ r.attempt = 0
      /\ r.transaction = transaction.id /\ r.failed = {} /\ r.status = "partial"
  BY <1>2 DEF NoCommit, IsCommit
<1>4. PICK now : now = [source |-> source, staged |-> staged,
                        transaction |-> transaction, work |-> work]
  OBVIOUS
<1>5. commit[c].at = "new" /\ NoneOn(p) /\ Judge(c, r, now)
  BY <1>1, <1>2, <1>4 DEF KeepFixing, Request
<1>6. source \in [Elements -> Texts] /\ IsTransaction(transaction)
      /\ staged \in [Elements -> {Absent} \cup Entries]
  BY DEF Inv, Files, Buffer
<1>7. Eligible(c, r)
  BY <1>1, <1>3, <1>5, <1>6, BeginsEligible
<1>8. \A w \in work : /\ IsEvent(w)
                      /\ w.id[1] = c => DOMAIN w.part \subseteq DOMAIN r.batch
                      /\ w.id[1] # c => About(w)
  BY <1>5 DEF Inv, Events, About
<1>9. now = [source |-> now.source, staged |-> now.staged,
              transaction |-> now.transaction, work |-> now.work]
       /\ now.source = source /\ now.staged = staged
       /\ now.transaction = transaction /\ now.work = work
  BY <1>4
<1>10. Given(c, r.batch, now)
  BY <1>6, <1>8, <1>9 DEF Given, IsTurn
<1>11. Fit(c, r, now)
  <2>1. \A w \in work : w.state # "stale" => w.id[1] # c
    BY <1>5, BeginsAlone
  <2>2. \A d \in Commits : commit[d].at = "waiting" => Owns(commit[d], transaction)
    BY DEF Memory
  <2> QED
    BY <1>3, <1>9, <2>1, <2>2 DEF Memory, Fit
<1>12. ~ MustUndo(r, now.source)
  <2>1. Unreported(r, source) = {}
    BY <1>1, <1>3 DEF Unreported, Snapshot
  <2>2. Leaked(r, source) = {}
    BY <1>3 DEF Leaked, Batch
  <2> QED
    BY <1>3, <1>9, <2>1, <2>2 DEF MustUndo
<1>13. PICK s : s = [r EXCEPT !.applied = IF @ = {} THEN DOMAIN r.batch ELSE @]
  OBVIOUS
<1>14. Accept(c, r, now) \/ Repair(c, s, now)
  BY <1>5, <1>12, <1>13 DEF Judge
<1>15. CASE Accept(c, r, now)
  BY <1>7, <1>10, <1>11, <1>15, AcceptRemembers
<1>16. CASE Repair(c, s, now)
  <2>1. /\ IsCommit(s) /\ s.applied \in {DOMAIN r.batch, r.applied}
        /\ s.batch = r.batch /\ s.page = r.page /\ s.before = r.before
        /\ s.attempt = r.attempt /\ s.todo = r.todo /\ s.transaction = r.transaction
    BY <1>3, <1>13 DEF IsCommit
  <2>2. Eligible(c, s)
    BY <1>7, <2>1, EligibleUpdate DEF Eligible, Sound
  <2>3. Given(c, s.batch, now) /\ Fit(c, s, now)
    BY <1>10, <1>11, <2>1 DEF Fit
  <2> QED
    BY <1>16, <2>2, <2>3, RepairRemembers
<1> QED
  BY <1>14, <1>15, <1>16

LEMMA RestartRemembers ==
  ASSUME Inv, Memory, Restart
  PROVE  Memory' /\ Steady
<1>1. /\ told' = told /\ work' = {}
      /\ source' = RecoveredSource(Absent) /\ transaction' = Absent
  BY DEF Restart, RecoveredTransaction, Recovers
<1>2. PICK lost : lost = [NoCommit EXCEPT !.at = "lost"]
  OBVIOUS
<1>3. lost.at = "lost"
  BY <1>2 DEF NoCommit
<1>4. commit' = [c \in Commits |-> IF commit[c].at = "waiting" THEN lost ELSE commit[c]]
  BY <1>2 DEF Restart
<1>5. \A c \in Commits : commit'[c].at # "waiting"
  BY <1>3, <1>4
<1>6. Memory'
  BY <1>1, <1>5 DEF Memory, Recoverable
<1>7. Steady
  BY <1>1 DEF Steady, RecoveredSource, Recovers, Restored, Memory, Recoverable, Remembers
<1> QED
  BY <1>6, <1>7

-----------------------------------------------------------------------------
(***************************************************************************)
(* The agents, and the theorems that rest on what is remembered.           *)
(***************************************************************************)
LEMMA TakeRemembers ==
  ASSUME Inv, Memory, NEW w \in work, Take(w)
  PROVE  Memory' /\ Steady
<1>1. PICK x : x = [w EXCEPT !.state = "taken"]
  OBVIOUS
<1>2. w.state = "queued" /\ work' = (work \ {w}) \cup {x}
      /\ UNCHANGED <<source, transaction, commit, told>>
  BY <1>1 DEF Take
<1>3. x.id = w.id /\ x.part = w.part /\ x.before = w.before
  BY <1>1 DEF Inv, Events, IsEvent
<1>4. Live(x, commit[x.id[1]], source, told)
  BY <1>2, <1>3 DEF Memory, Live
<1>5. \A v, y \in work' : v.state # "stale" /\ y.state # "stale" /\ v.id[1] = y.id[1] => v = y
  BY <1>2, <1>3 DEF Memory
<1>6. Memory'
  BY <1>2, <1>4, <1>5 DEF Memory
<1> QED
  BY <1>2, <1>6 DEF Steady

\* An agent that is waited for writes texts that the page has not been told of.
LEMMA WriteRemembers ==
  ASSUME Inv, Memory, NEW w \in work, w.state # "stale", NEW e \in Elements, Write(w, e)
  PROVE  Memory' /\ \A d \in Elements \ {e} : source'[d] = source[d]
<1>1. PICK text \in {w.part[e].text, Wrong, Broken} : source' = [source EXCEPT ![e] = text]
  BY DEF Write
<1>2. e \in DOMAIN w.part /\ UNCHANGED <<transaction, commit, work, told>>
  BY DEF Write
<1>3. source'[e] = text /\ \A d \in Elements \ {e} : source'[d] = source[d]
  BY <1>1 DEF Inv, Files
<1>4. PICK c \in Commits : c = w.id[1]
  BY DEF Inv, Events, IsEvent
<1>5. /\ commit[c].at = "waiting" /\ e \in DOMAIN commit[c].batch
      /\ w.part[e] = commit[c].batch[e]
  BY <1>2, <1>4 DEF Memory, Live
<1>6. Page[e] = commit[c].page /\ Fresh(e, commit[c].batch[e], told, saves)
  BY <1>5 DEF Inv, Working, Sound
<1>7. text # told[e]
  <2>1. told[e] \in 0..MaxSaves /\ w.part[e].text \in Nat /\ told[e] < w.part[e].text
    BY <1>5, <1>6 DEF Inv, Buffer, Fresh, Entries
  <2>2. told[e] \in Nat /\ told[e] # w.part[e].text
    BY <2>1, NatBounds
  <2> QED
    BY <2>2, CopyAssumption DEF CopyAssumption
<1>8. ASSUME NEW d \in Commits, commit[d].at = "waiting"
      PROVE  Undoable(commit[d], source', told)
  <2>1. Undoable(commit[d], source, told) /\ DOMAIN commit[d].before \subseteq Elements
    BY <1>8 DEF Memory, Inv, Working, Sound, Scope
  <2> QED
    BY <1>3, <1>7, <2>1 DEF Undoable, Expected
<1>9. ASSUME NEW before, NEW q, DOMAIN before \subseteq On(q), Remembers(before, source, told)
      PROVE  Remembers(before, source', told)
  BY <1>3, <1>7, <1>9 DEF Remembers, On
<1>10. \A y \in work : y.state # "stale" => Live(y, commit[y.id[1]], source', told)
  BY <1>9 DEF Memory, Live
<1>11. Recoverable(transaction, source', told)
  BY <1>9 DEF Memory, Recoverable
<1>12. Memory'
  BY <1>2, <1>8, <1>10, <1>11 DEF Memory
<1> QED
  BY <1>3, <1>12

\* What is told and written stays, but for an agent that writes it.
Stays ==
  \A e \in Elements :
    told[e] # 0 /\ source[e] = told[e] /\ source'[e] # source[e] => \E w \in work : Write(w, e)

LEMMA MemoryNext ==
  ASSUME Apart, Inv, Memory, late = 0, [Next]_vars, late' = 0
  PROVE  Memory' /\ Stays
<1>1. Steady => Stays
  BY DEF Steady, Stays
<1>2. CASE UNCHANGED <<commit, work, source, transaction, told>>
  BY <1>2 DEF Memory, Stays
<1>3. CASE \E e \in Elements : Save(e)
  BY <1>2, <1>3 DEF Save
<1>4. CASE \E c \in Commits, p \in Pages : Commit(c, p) \/ KeepFixing(c, p)
  BY <1>1, <1>4, CommitRemembers, KeepFixingRemembers
<1>5. CASE \E p \in Pages : Rollback(p)
  <2>1. PICK p \in Pages : Rollback(p)
    BY <1>5
  <2>2. /\ NoneOn(p) /\ UNCHANGED <<commit, work, told>>
        /\ source' = RecoveredSource(p) /\ transaction' = RecoveredTransaction(p)
    BY <2>1 DEF Rollback
  <2> QED
    BY <1>1, <2>2, AloneRemembers
<1>6. CASE \E p \in Pages : Discard(p)
  BY <1>1, <1>6, DiscardRemembers
<1>7. CASE \E c \in Commits : Timeout(c)
  BY <1>1, <1>7, TimeoutRemembers
<1>8. CASE Restart
  BY <1>1, <1>8, RestartRemembers
<1>9. CASE \E w \in work : Take(w)
  BY <1>1, <1>9, TakeRemembers
<1>10. ASSUME NEW w \in work, Counts(w) PROVE w.state # "stale"
  BY <1>10 DEF Counts
<1>11. CASE \E w \in work : StaleReply(w)
  BY <1>10, <1>11 DEF StaleReply
<1>12. CASE \E w \in work, e \in Elements : Write(w, e)
  <2>1. PICK w \in work, e \in Elements : Write(w, e)
    BY <1>12
  <2>2. w.state # "stale"
    BY <1>10, <2>1 DEF Write
  <2>3. Memory' /\ \A d \in Elements \ {e} : source'[d] = source[d]
    BY <2>1, <2>2, WriteRemembers
  <2> QED
    BY <2>1, <2>3 DEF Stays
<1>13. CASE \E w \in work, c \in Commits : Reply(c, w)
  BY <1>1, <1>13, ReplyRemembers
<1>14. CASE UNCHANGED vars
  BY <1>2, <1>14 DEF vars
<1> QED
  BY <1>3, <1>4, <1>5, <1>6, <1>7, <1>8, <1>9, <1>11, <1>12, <1>13, <1>14 DEF Next

\* Nothing is remembered any more once an agent has answered late.
Remembered == late = 0 => Memory

LEMMA RememberedNext ==
  ASSUME Apart, Inv, Remembered, [Next]_vars
  PROVE  Remembered' /\ (late' = 0 => Stays)
<1>1. late' = 0 => late = 0
  <2>1. late \in Nat
    BY DEF Inv, Files
  <2>2. late' = late \/ late' = late + 1
    BY DEF Next, vars, Save, Commit, KeepFixing, Rollback, Discard, Timeout, Restart, Take,
           Write, Counts, StaleReply, Reply
  <2> QED
    BY <2>1, <2>2
<1> QED
  BY <1>1, MemoryNext DEF Remembered

LEMMA Remembrance == ASSUME Apart PROVE Spec => []Remembered
<1>1. Init => Remembered
  <2>1. NoCommit.at = "new"
    BY DEF NoCommit
  <2> QED
    BY <2>1 DEF Init, Remembered, Memory, Recoverable
<1>2. Inv /\ Remembered /\ [Next]_vars => Remembered'
  BY RememberedNext
<1> QED
  BY Invariance, <1>1, <1>2, PTL DEF Spec

\* What a page was told is applied is not undone: no recovery of a transaction,
\* discard, timeout, failed commit or restart takes the text away again, whatever
\* the agents report, as long as none of them answers after its timeout and no
\* file has texts of two pages.
THEOREM ToldStays == ASSUME Apart PROVE Spec => AppliedStays
<1>1. Inv /\ Remembered /\ [Next]_vars =>
        [late' = 0 =>
           \A e \in Elements :
             told[e] # 0 /\ source[e] = told[e] /\ source'[e] # source[e] =>
               \E w \in work : Write(w, e)]_vars
  BY RememberedNext DEF Stays
<1> QED
  BY Invariance, Remembrance, <1>1, PTL DEF Spec, AppliedStays
=============================================================================
