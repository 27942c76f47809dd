----------------------------- MODULE LiveJournal ----------------------------
(***************************************************************************)
(* What the journal of a live-mode session (session-store.mjs) remembers:  *)
(* the snapshot that replaying its events yields, reduced to the fields    *)
(* that decide what a restarted helper queues again and which late events  *)
(* are ignored.                                                            *)
(***************************************************************************)

CONSTANT Nothing   \* stands for an absent event

Types == {"generate", "accept", "discard", "variant_mount_failed"}
Answers == {"accept", "discard"}

(* "open" stands for generate_requested, variants_ready, agent_error and what
   the page's checkpoints report: nothing tells these phases apart. *)
Phases == {"new", "open", "accept_requested", "discard_requested", "carbonize_required",
           "completed", "discarded"}
Completed == {"completed", "discarded"}
FencedPhases == Completed \cup {"accept_requested", "discard_requested", "carbonize_required"}

(* A browser event as the queue and the journal keep it; prepared stands
   for scaffoldAttempted and generationReadyAt, set in one turn. *)
Event(id, type) == [id |-> id, type |-> type, prepared |-> FALSE]

BaseSnapshot == [phase |-> "new", pending |-> Nothing, canceled |-> FALSE]

Fenced(s) == s.canceled \/ s.phase \in FencedPhases

Requested(s, phase, event) == [s EXCEPT !.phase = phase, !.pending = event]
Settled(s, phase) == [s EXCEPT !.phase = phase, !.pending = Nothing]

(* The events the page posts: applyEvent on each of them. *)
Posted(s, e) ==
  CASE e.type = "generate" -> Requested(s, "open", e)
    [] e.type \in Answers ->
         [Requested(s, IF e.type = "accept" THEN "accept_requested" ELSE "discard_requested", e)
            EXCEPT !.canceled = TRUE]
    [] e.type = "variant_mount_failed" ->
         IF s.pending = Nothing THEN [s EXCEPT !.pending = e] ELSE s
    [] e.type = "checkpoint" -> IF Fenced(s) THEN s ELSE [s EXCEPT !.phase = "open"]

(* The replies the helper appends: reply is the type the agent posted,
   acknowledged the type of the event it took out of the queue. *)
Replied(s, reply, acknowledged) ==
  CASE reply \in {"done", "carbonize"} ->
         IF Fenced(s) /\ ~(reply = "carbonize" /\ s.phase = "accept_requested") THEN s
         ELSE Settled(s, IF reply = "carbonize" THEN "carbonize_required" ELSE "open")
    [] reply = "error" ->
         IF s.canceled /\ acknowledged = "generate" THEN s ELSE Settled(s, "open")
    [] reply = "complete" -> Settled(s, "completed")
    [] reply = "discarded" -> Settled(s, "discarded")
=============================================================================
