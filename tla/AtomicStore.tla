---------------------------- MODULE AtomicStore -----------------------------
(***************************************************************************)
(* What the state store promises its callers, whichever driver keeps the   *)
(* dashboards: a mutation is one step on the dashboard as it is at that    *)
(* moment, it happens at most once, a caller that is answered can count on *)
(* it, and a caller that gets an error cannot tell.  A durable store keeps *)
(* every dashboard over a restart; the other starts again from the seed.   *)
(***************************************************************************)
EXTENDS StoreData

VARIABLES durable, boards, active, outcome

abstractVars == <<durable, boards, active, outcome>>

Exists(p) == boards[p] # Missing

AtomicInit ==
  /\ durable \in BOOLEAN
  /\ boards = [p \in Projects |-> Missing]
  /\ active = NoProject
  /\ outcome = [c \in Calls |-> "new"]

Becomes(c, from, to) ==
  /\ outcome[c] \in from
  /\ outcome' = [outcome EXCEPT ![c] = to]

\* The call reaches the store.
Accept(c) ==
  /\ Becomes(c, {"new"}, "pending")
  /\ UNCHANGED <<durable, boards, active>>

\* The whole mutation, on the dashboard that has its owner.
Apply(c) ==
  /\ Becomes(c, {"pending"}, "applied")
  /\ \E p \in Projects :
       /\ Exists(p)
       /\ Belongs(c, p, boards[p])
       /\ ~ Throws(c, boards[p])
       /\ boards' = [boards EXCEPT ![p] = Result(c, boards[p])]
  /\ UNCHANGED <<durable, active>>

\* A new project appears whole; the call that creates it is not over yet.
Found(c) ==
  /\ Becomes(c, {"pending"}, "applied")
  /\ ~ Exists(Place[c])
  /\ boards' = [boards EXCEPT ![Place[c]] = Created[c]]
  /\ UNCHANGED <<durable, active>>

\* A project that exists becomes the active one.
Choose(c) ==
  /\ Becomes(c, {"pending", "applied"}, "applied")
  /\ Exists(Place[c])
  /\ active' = Place[c]
  /\ UNCHANGED <<durable, boards>>

\* Only what was applied is confirmed.
Answer(c) ==
  /\ Becomes(c, {"applied"}, "done")
  /\ UNCHANGED <<durable, boards, active>>

\* An error or a vanished process: applied or not, the caller cannot tell.
Fail(c) ==
  /\ Becomes(c, {"pending", "applied"}, "failed")
  /\ UNCHANGED <<durable, boards, active>>

\* The seed goes into an empty store only.
Seed ==
  /\ \A p \in Projects : ~ Exists(p)
  /\ boards' = [boards EXCEPT ![FirstProject] = FirstBoard]
  /\ active' \in {active, FirstProject}
  /\ UNCHANGED <<durable, outcome>>

\* The first choice of an active project is made by the store.
ChooseFirst ==
  /\ active = NoProject
  /\ active' \in {p \in Projects : Exists(p)}
  /\ UNCHANGED <<durable, boards, outcome>>

\* The process stops; what was under way fails, and only a durable store
\* keeps its content.
Stop ==
  /\ outcome' = [c \in Calls |-> IF outcome[c] \in {"pending", "applied"}
                                 THEN "failed" ELSE outcome[c]]
  /\ IF durable THEN UNCHANGED <<boards, active>>
                ELSE /\ boards' = [p \in Projects |-> Missing]
                     /\ active' = NoProject
  /\ UNCHANGED durable

AtomicNext ==
  \/ \E c \in Calls : Accept(c) \/ Answer(c) \/ Fail(c)
  \/ \E c \in Mutations : Apply(c)
  \/ \E c \in Creations : Found(c)
  \/ \E c \in Creations \cup Activations : Choose(c)
  \/ Seed
  \/ ChooseFirst
  \/ Stop

AtomicSpec == AtomicInit /\ [][AtomicNext]_abstractVars
=============================================================================
