----------------------------- MODULE CopyEdits ------------------------------
(***************************************************************************)
(* Copy edits of live mode: the overlay stages edited texts in a buffer    *)
(* (manual-edits-buffer.mjs), Apply commits those of a page through an     *)
(* agent (manual-edit-routes.mjs, live-commit-manual-edits.mjs), which     *)
(* edits the source while the helper waits for its reply                   *)
(* (manual-apply.mjs).  A commit is verified, repaired or undone; agents   *)
(* answer late, users discard meanwhile, the helper stops and recovers.    *)
(*                                                                         *)
(* Between two awaits the helper does everything in one turn, so a reply,  *)
(* a timeout or a discard includes all the commit does until it waits      *)
(* again.  No page is applied from two tabs at once.                       *)
(***************************************************************************)
EXTENDS Naturals, FiniteSets

CONSTANTS
  Elements,     \* texts that can be edited
  Page,         \* the page that shows each
  File,         \* the file it is in
  Commits,      \* POST /manual-edit-commit
  Absent,       \* stands for no edit, no transaction, no page
  Wrong,        \* stands for any text that is nobody's edit and passes those checks
  Broken,       \* stands for a text that the checks of the source reject
  ChunkSize,    \* edits handed to the agent at once
  MaxRepairs,   \* repairAttemptLimit
  MaxSaves,     \* bound: edits the user saves
  MaxFaults     \* bound: stops of the helper, and what agents do after a timeout

ASSUME CopyAssumption ==
  /\ IsFiniteSet(Elements)
  /\ DOMAIN Page = Elements /\ DOMAIN File = Elements
  /\ ChunkSize \in Nat \ {0}
  /\ {MaxRepairs, MaxSaves, MaxFaults} \subseteq Nat
  /\ Wrong \notin Nat /\ Broken \notin Nat /\ Wrong # Broken
  /\ Absent \notin [id : Nat, text : Nat] /\ Absent \notin {Page[e] : e \in Elements}

VARIABLES
  staged,       \* the buffer: the edit of each element that has one
  saves,        \* edits saved so far; a text stands for its number, 0 for the first one
  source,       \* the text of each element in the files
  transaction,  \* the transaction file
  commit,       \* the commits
  work,         \* apply events that are queued or in the hands of an agent
  told,         \* the text the page was last told is applied
  stops, late

vars == <<staged, saves, source, transaction, commit, work, told, stops, late>>

Pages == {Page[e] : e \in Elements}
Texts == (0..MaxSaves) \cup {Wrong, Broken}

NoCommit ==
  [at |-> "new", page |-> Absent, batch |-> << >>, before |-> << >>, todo |-> {},
   applied |-> {}, failed |-> {}, files |-> {}, status |-> "partial", attempt |-> 0,
   pushed |-> 0, transaction |-> Absent]

Init ==
  /\ staged = [e \in Elements |-> Absent]
  /\ saves = 0
  /\ source = [e \in Elements |-> 0]
  /\ transaction = Absent
  /\ commit = [c \in Commits |-> NoCommit]
  /\ work = {}
  /\ told = [e \in Elements |-> 0]
  /\ stops = 0 /\ late = 0

-----------------------------------------------------------------------------
(***************************************************************************)
(* Snapshots, the buffer and the transaction file.                         *)
(***************************************************************************)
FilesOf(es) == {File[e] : e \in es}
Scope(batch) == {e \in Elements : File[e] \in FilesOf(DOMAIN batch)}
Snapshot(batch, src) == [e \in Scope(batch) |-> src[e]]
Restored(src, before) == [e \in Elements |-> IF e \in DOMAIN before THEN before[e] ELSE src[e]]

StagedOn(p) == {e \in Elements : Page[e] = p /\ staged[e] # Absent}
Batch(p) == [e \in StagedOn(p) |-> staged[e]]
Ids(batch) == {batch[e].id : e \in DOMAIN batch}

\* stageEntry: an element that is saved again keeps the id of its entry.
Save(e) ==
  /\ saves < MaxSaves
  /\ saves' = saves + 1
  /\ staged' = [staged EXCEPT ![e] =
       [id |-> IF @ = Absent THEN saves' ELSE @.id, text |-> saves']]
  /\ UNCHANGED <<source, transaction, commit, work, told, stops, late>>

\* rollbackManualApplyTransaction for a page, or for every page: the files go
\* back to the snapshot only if an entry of the transaction is still staged.
Recovers(p) == transaction # Absent /\ p \in {Absent, transaction.page}
StillStaged == \E e \in Elements : staged[e] # Absent /\ staged[e].id \in transaction.entries
RecoveredSource(p) ==
  IF Recovers(p) /\ StillStaged THEN Restored(source, transaction.before) ELSE source
RecoveredTransaction(p) == IF Recovers(p) THEN Absent ELSE transaction

-----------------------------------------------------------------------------
(***************************************************************************)
(* What a commit makes of the agent's results until it waits or ends.      *)
(* "now" is what the turn has made so far of the source, the buffer, the   *)
(* transaction file and the events.                                        *)
(***************************************************************************)
Turn(now) ==
  /\ source' = now.source /\ staged' = now.staged
  /\ transaction' = now.transaction /\ work' = now.work

\* pushApplyEventAndWait; its snapshot is for a discard and for a reply that
\* comes after the timeout.
Push(c, r, part, now) ==
  /\ commit' = [commit EXCEPT ![c] = [r EXCEPT !.at = "waiting", !.pushed = @ + 1]]
  /\ Turn([now EXCEPT !.work = @ \cup
       {[id |-> <<c, r.pushed + 1>>, state |-> "queued", part |-> part,
         before |-> Snapshot(part, now.source)]}])
  /\ UNCHANGED told

\* splitManualApplyBatch: the entries in the order of the buffer.
Chunked(r) == Cardinality(DOMAIN r.batch) > ChunkSize
Chunk(r) ==
  {e \in r.todo : Cardinality({d \in r.todo : r.batch[d].id < r.batch[e].id}) < ChunkSize}
PushChunk(c, r, now) ==
  Push(c, [r EXCEPT !.todo = @ \ Chunk(r)], [e \in Chunk(r) |-> r.batch[e]], now)

\* The reply of the first pass, or of one of its chunks: what the agent does not
\* answer for has failed, and an error leaves the other chunks undone.
Answered(out) == out.status = "partial"
Heard(r, part, out) ==
  LET good == IF Answered(out) THEN out.applied \ out.failed ELSE {}
      rest == IF Answered(out) THEN r.todo ELSE {}
  IN IF Chunked(r)
       THEN [r EXCEPT !.applied = @ \cup good, !.files = @ \cup out.files, !.todo = rest,
                      !.failed = @ \cup (DOMAIN part \ good) \cup (r.todo \ rest),
                      !.status = IF r.applied \cup good = {} THEN "error" ELSE "partial"]
       ELSE [r EXCEPT !.applied = out.applied, !.failed = out.failed,
                      !.files = out.files, !.status = IF Answered(out) THEN "partial" ELSE "error"]

\* unreportedChangedFiles, findUnappliedEntrySourceChanges
Unreported(r, src) == {e \in Scope(r.batch) : src[e] # r.before[e] /\ File[e] \notin r.files}
Leaked(r, src) ==
  {e \in DOMAIN r.batch \ r.applied : src[e] = r.batch[e].text /\ r.before[e] # src[e]}

\* verifyAppliedEntry, runCopyEditPostApplyChecks
Verified(r, src) == \A e \in r.applied : src[e] = r.batch[e].text
Sane(r, src) == \A e \in Elements : File[e] \in r.files => src[e] # Broken

\* Slip...: as in Orchestrator, a mistake that could be made at that place.
SlipMustUndo(r, src) ==
  r.status = "error" \/ r.applied \cap r.failed # {} \/ Unreported(r, src) # {}
MustUndo(r, src) ==
  \/ r.status = "error"
  \/ r.applied \cap r.failed # {}
  \/ Unreported(r, src) # {}
  \/ Leaked(r, src) # {}

\* clearManualApplyTransaction, by id
Cleared(tx, id) == IF tx # Absent /\ tx.id = id THEN Absent ELSE tx

SlipFinally(r, now) ==
  IF r.failed = {} THEN [now EXCEPT !.transaction = Cleared(@, r.transaction)] ELSE now
\* The route's finally: its transaction is over, unless the user has to decide.
Finally(r, now) == [now EXCEPT !.transaction = Cleared(@, r.transaction)]

\* clearAppliedEntries, by id
Unstaged(r, stg) ==
  [e \in Elements |->
     IF stg[e] # Absent /\ stg[e].id \in {r.batch[d].id : d \in r.applied} THEN Absent ELSE stg[e]]

\* The answer names the files that agents reported.
Returns(c, at, files) ==
  commit' = [commit EXCEPT ![c] = [NoCommit EXCEPT !.at = at, !.files = files]]

Accept(c, r, now) ==
  /\ Returns(c, "ended", r.files)
  /\ told' = [e \in Elements |-> IF e \in r.applied THEN r.batch[e].text ELSE told[e]]
  /\ Turn(Finally(r, [now EXCEPT !.staged = Unstaged(r, @)]))

\* rollbackChangedFiles
Undo(c, r, now) ==
  /\ Returns(c, "ended", r.files)
  /\ Turn(Finally(r, [now EXCEPT !.source = Restored(@, r.before)]))
  /\ UNCHANGED told

SlipRepair(c, r, now) ==
  \/ /\ r.attempt <= MaxRepairs
     /\ Push(c, [r EXCEPT !.attempt = @ + 1, !.failed = {}], r.batch, now)
  \/ /\ r.attempt > MaxRepairs
     /\ Returns(c, "undecided", r.files)
     /\ Turn(now) /\ UNCHANGED told
\* repairPostApplyValidation: a repair gets the whole batch; after the last
\* attempt the user decides, and the transaction stays.
Repair(c, r, now) ==
  \/ /\ r.attempt < MaxRepairs
     /\ Push(c, [r EXCEPT !.attempt = @ + 1, !.failed = {}], r.batch, now)
  \/ /\ r.attempt >= MaxRepairs
     /\ Returns(c, "undecided", r.files)
     /\ Turn(now) /\ UNCHANGED told

\* commitManualEdits after the first pass.  When only the checks of the files
\* fail and nothing is reported applied, the repair is about the whole batch.
Judge(c, r, now) ==
  IF MustUndo(r, now.source) THEN Undo(c, r, now)
  ELSE IF Verified(r, now.source) /\ Sane(r, now.source) /\ (r.applied = {} \/ r.files # {})
    THEN Accept(c, r, now)
    ELSE Repair(c, [r EXCEPT !.applied = IF @ = {} THEN DOMAIN r.batch ELSE @], now)

SlipJudgeRepair(c, r, out, now) ==
  LET heard == [r EXCEPT !.applied = @ \cup out.applied, !.files = @ \cup out.files]
  IN IF out.status # "thrown" /\ Sane(heard, now.source)
       THEN Accept(c, heard, now)
       ELSE Repair(c, heard, now)
\* A repair only adds to what was reported; its status and its failures do not count.
JudgeRepair(c, r, out, now) ==
  LET heard == [r EXCEPT !.applied = @ \cup out.applied, !.files = @ \cup out.files]
  IN IF /\ out.status # "thrown"
        /\ Verified(heard, now.source) /\ Sane(heard, now.source)
       THEN Accept(c, heard, now)
       ELSE Repair(c, heard, now)

Thrown == [status |-> "thrown", applied |-> {}, failed |-> {}, files |-> {}]

\* What the commit does when the promise of its event w settles.
Continue(c, w, out, now) ==
  LET r == commit[c]
      heard == Heard(r, w.part, out)
  IN IF r.attempt > 0 THEN JudgeRepair(c, r, out, now)
     ELSE IF heard.todo # {} THEN PushChunk(c, heard, now)
     ELSE Judge(c, heard, now)

Waits(c, w) == commit[c].at = "waiting" /\ w.id = <<c, commit[c].pushed>>
               /\ w.state \in {"queued", "taken"}
\* Requests come one by one, and are alike until they begin.
Request(c) == commit[c].at = "new" /\ c = CHOOSE d \in Commits : commit[d].at = "new"
NoneOn(p) == \A c \in Commits : commit[c].at = "waiting" => commit[c].page # p

\* An event whose commit stopped waiting: nobody takes it any more, an agent
\* that has it may go on and answer, as far as MaxFaults lets it, and is remembered.
Abandoned(w) ==
  IF w.state = "taken" /\ stops + late < MaxFaults THEN {[w EXCEPT !.state = "stale"]} ELSE {}

-----------------------------------------------------------------------------
(***************************************************************************)
(* The routes.                                                             *)
(***************************************************************************)
\* POST /manual-edit-commit: an unfinished transaction of the page is undone
\* first.  The file holds one transaction, whatever page it is of.
Commit(c, p) ==
  /\ Request(c) /\ NoneOn(p)
  /\ LET src == RecoveredSource(p)
         r == [NoCommit EXCEPT !.page = p, !.batch = Batch(p), !.todo = StagedOn(p),
                               !.before = Snapshot(Batch(p), src), !.transaction = c]
         tx == [id |-> c, page |-> p, entries |-> Ids(Batch(p)), before |-> r.before]
         now == [source |-> src, staged |-> staged, transaction |-> tx, work |-> work]
     IN IF StagedOn(p) # {}
          THEN PushChunk(c, r, now)
          ELSE /\ Returns(c, "ended", {})
               /\ Turn([now EXCEPT !.transaction = RecoveredTransaction(p)])
               /\ UNCHANGED told
  /\ UNCHANGED <<saves, stops, late>>

\* POST /manual-edit-commit?repair=1, "Keep fixing": goes on with the
\* transaction, as if the agent had reported everything applied.
KeepFixing(c, p) ==
  /\ Request(c) /\ NoneOn(p)
  /\ transaction # Absent
  /\ StagedOn(p) # {}
  /\ Judge(c, [NoCommit EXCEPT !.page = p, !.batch = Batch(p), !.transaction = transaction.id,
                                !.before = Snapshot(Batch(p), source), !.applied = StagedOn(p),
                                !.files = FilesOf(StagedOn(p))],
           [source |-> source, staged |-> staged, transaction |-> transaction, work |-> work])
  /\ UNCHANGED <<saves, stops, late>>

\* POST /manual-edit-repair-decision
Rollback(p) ==
  /\ Recovers(p) /\ NoneOn(p)
  /\ source' = RecoveredSource(p)
  /\ transaction' = RecoveredTransaction(p)
  /\ UNCHANGED <<staged, saves, commit, work, told, stops, late>>

SlipCancel(c, w, now) ==
  /\ Turn([now EXCEPT !.source = Restored(@, w.before),
                      !.work = (@ \ {w}) \cup Abandoned(w)])
  /\ UNCHANGED <<commit, told>>
\* cancelPendingEvents: back to the snapshot of the event, then the rejection.
Cancel(c, w, now) ==
  Continue(c, w, Thrown, [now EXCEPT !.source = Restored(@, w.before),
                                     !.work = (@ \ {w}) \cup Abandoned(w)])

\* POST /manual-edit-discard: the transaction is undone, the page's entries go,
\* and an event a commit waits for is undone and its promise rejected.
Discarded(p) == [e \in Elements |-> IF Page[e] = p THEN Absent ELSE staged[e]]
Discard(p) ==
  /\ LET now == [source |-> RecoveredSource(p), staged |-> Discarded(p),
                 transaction |-> RecoveredTransaction(p), work |-> work]
     IN IF NoneOn(p)
          THEN Turn(now) /\ UNCHANGED <<commit, told>>
          ELSE \E c \in Commits, w \in work :
                 /\ commit[c].page = p /\ Waits(c, w)
                 /\ Cancel(c, w, now)
  /\ UNCHANGED <<saves, stops, late>>

\* The hard timeout of an event (its commit rejects the promise).
Timeout(c) ==
  /\ \E w \in work :
       /\ Waits(c, w)
       /\ Continue(c, w, Thrown,
            [source |-> source, staged |-> staged, transaction |-> transaction,
             work |-> (work \ {w}) \cup Abandoned(w)])
  /\ UNCHANGED <<saves, stops, late>>

\* The helper stops and starts again: what it had in memory is lost, and any
\* transaction is undone.  An agent it interrupts writes no more.
Restart ==
  /\ stops + late < MaxFaults
  /\ stops' = stops + 1
  /\ source' = RecoveredSource(Absent)
  /\ transaction' = RecoveredTransaction(Absent)
  /\ commit' = [c \in Commits |->
       IF commit[c].at = "waiting" THEN [NoCommit EXCEPT !.at = "lost"] ELSE commit[c]]
  /\ work' = {}
  /\ UNCHANGED <<staged, saves, told, late>>

-----------------------------------------------------------------------------
(***************************************************************************)
(* The agents.                                                             *)
(***************************************************************************)
Take(w) ==
  /\ w.state = "queued"
  /\ work' = (work \ {w}) \cup {[w EXCEPT !.state = "taken"]}
  /\ UNCHANGED <<staged, saves, source, transaction, commit, told, stops, late>>

Counts(w) == IF w.state = "stale" THEN stops + late < MaxFaults /\ late' = late + 1 ELSE UNCHANGED late

\* An agent writes the new text of an edit it was given, or gets it wrong: what
\* it leaves need not be text that any check tells from a good one.
Write(w, e) ==
  /\ w.state # "queued" /\ e \in DOMAIN w.part
  /\ Counts(w)
  /\ \E text \in {w.part[e].text, Wrong, Broken} \ {source[e]} :
       source' = [source EXCEPT ![e] = text]
  /\ UNCHANGED <<staged, saves, transaction, commit, work, told, stops>>

\* validateManualApplyResultMessage.  A result that is done is treated like a
\* partial one without failures, and of an error only the files count.
Results(w) ==
  LET es == DOMAIN w.part
  IN {out \in [status : {"partial"}, applied : SUBSET es, failed : SUBSET es,
                files : SUBSET FilesOf(es)] : out.applied \cup out.failed # {}}
     \cup [status : {"error"}, applied : {{}}, failed : {{}}, files : SUBSET FilesOf(es)]

Reply(c, w) ==
  /\ w.state = "taken" /\ Waits(c, w)
  /\ \E out \in Results(w) :
       Continue(c, w, out, [source |-> source, staged |-> staged, transaction |-> transaction,
                            work |-> work \ {w}])
  /\ UNCHANGED <<saves, stops, late>>

\* rollbackTimedOutReply: the files go back to what they were for the event.
StaleReply(w) ==
  /\ w.state = "stale"
  /\ Counts(w)
  /\ source' = Restored(source, w.before)
  /\ work' = work \ {w}
  /\ UNCHANGED <<staged, saves, transaction, commit, told, stops>>

Next ==
  \/ \E e \in Elements : Save(e)
  \/ \E c \in Commits, p \in Pages : Commit(c, p) \/ KeepFixing(c, p)
  \/ \E p \in Pages : Rollback(p) \/ Discard(p)
  \/ \E c \in Commits : Timeout(c)
  \/ Restart
  \/ \E w \in work : Take(w) \/ StaleReply(w)
  \/ \E w \in work, e \in Elements : Write(w, e)
  \/ \E w \in work, c \in Commits : Reply(c, w)

Fairness == \A c \in Commits : WF_vars(Timeout(c))

Spec == Init /\ [][Next]_vars /\ Fairness

-----------------------------------------------------------------------------
(***************************************************************************)
(* Properties.                                                             *)
(***************************************************************************)
IsBatch(batch) ==
  /\ DOMAIN batch \subseteq Elements
  /\ \A e \in DOMAIN batch : batch[e].id \in 1..MaxSaves /\ batch[e].text \in 1..MaxSaves
IsSnapshot(before) == \A e \in DOMAIN before : e \in Elements /\ before[e] \in Texts

\* The values of the variables: no commit asks for more repairs than the limit.
TypeOK ==
  /\ \A e \in Elements : staged[e] = Absent \/ IsBatch(Batch(Page[e]))
  /\ saves \in 0..MaxSaves /\ stops + late \in 0..MaxFaults
  /\ \A e \in Elements : source[e] \in Texts /\ told[e] \in 0..MaxSaves
  /\ transaction = Absent \/
       /\ transaction.id \in Commits /\ transaction.page \in Pages
       /\ transaction.entries \subseteq 1..MaxSaves /\ IsSnapshot(transaction.before)
  /\ \A w \in work : IsBatch(w.part) /\ IsSnapshot(w.before)
                      /\ w.state \in {"queued", "taken", "stale"}
  /\ \A c \in Commits :
       /\ commit[c].at \in {"new", "waiting", "undecided", "ended", "lost"}
       /\ commit[c].attempt \in 0..MaxRepairs

\* An edit leaves the buffer only when the user discards its page, or when a
\* commit has verified a new text of it in the source and tells the page so:
\* whatever agents reported, in whichever chunk or repair.
ClearedIsWritten ==
  [][\A e \in Elements :
       staged[e] # Absent /\ staged'[e] = Absent =>
         Discard(Page[e]) \/ (told'[e] # told[e] /\ source'[e] = told'[e])]_vars

\* What a page was told is applied is not undone: no recovery of a transaction,
\* discard, timeout or failed commit takes the text away again; only an agent
\* that writes the element does.  Agents that answer late are left out: their
\* reply restores the files they were given.  So are files with texts of two
\* pages, by the instance and by the theorem: an undo takes the whole file.
AppliedStays ==
  [][late' = 0 =>
       \A e \in Elements :
         told[e] # 0 /\ source[e] = told[e] /\ source'[e] # source[e] =>
           \E w \in work : Write(w, e)]_vars

\* What a commit without a repair leaves in the source, its answer accounts for: a
\* text it tells applied is there, and any other text of its batch is as the commit
\* found it, or is in a file that the answer names and is neither the edit nor a
\* text the checks reject.  Whatever agents wrote and reported, in whichever chunk.
FirstPassAnswersForAll ==
  [][\A c \in Commits :
       commit[c].at = "waiting" /\ commit'[c].at = "ended" /\ commit[c].attempt = 0 =>
         \A e \in DOMAIN commit[c].batch :
           IF told'[e] # told[e]
             THEN source'[e] = commit[c].batch[e].text
             ELSE \/ source'[e] = commit[c].before[e]
                  \/ /\ File[e] \in commit'[c].files
                     /\ source'[e] \notin {commit[c].batch[e].text, Broken}]_vars

\* No commit waits for ever, whatever the agents do: with the hard timeout every
\* event is answered, discarded or given up, and repairs are bounded.  As each of
\* the commits begins once, this says that each of them ends.
EveryCommitEnds == []<>(\A c \in Commits : commit[c].at # "waiting")
=============================================================================
