------------------------------ MODULE Workspace -----------------------------
(***************************************************************************)
(* The routes of the API on the state store: Store with the dashboards and *)
(* mutations of ScopeRules.                                                *)
(***************************************************************************)
EXTENDS Store, ScopeRules

CONSTANTS
  Rules,   \* the rules a project can have
  Agents   \* the agents

\* Dashboards are those of ScopeRules, and so are the mutations.  The ids of
\* the rules that come with a project are distinct and not those of later
\* rules; for the seed this is so, for POST /api/engagements it is up to the
\* caller (contracts/src/index.ts 53 takes any string).
ASSUME WorkspaceAssumption ==
  /\ Boards \subseteq [rules : SUBSET Rules, agents : SUBSET Agents, touched : SUBSET Mutations]
  /\ \A b \in Boards : IsFiniteSet(b.rules)
  /\ \A c \in Mutations : Change[c].kind \in {"add", "remove", "touch"}
  /\ \A c \in Mutations, p \in Projects, b \in Boards :
       /\ Belongs(c, p, b) <=> RuleBelongs(c, p, b)
       /\ Throws(c, b) <=> RuleThrows(c, b)
       /\ ~ Throws(c, b) => Result(c, b) = RuleResult(c, b)
  /\ \A b \in {FirstBoard} \cup {Created[c] : c \in Creations} :
       /\ DistinctIds(b)
       /\ b.touched = {}
       /\ \A r \in b.rules : r.id \notin Mutations

\* server.ts 134: a project that may be probed at all keeps an allow rule, also
\* when two rules are removed at the same moment; only a stop of the memory
\* store takes the project itself away.
LastAllowKept ==
  [][\A p \in Projects :
       Exists(p) /\ Allowing(boards[p]) # {} /\ boards'[p] # Missing
         => Allowing(boards'[p]) # {}]_vars

\* store.ts 80-96 and 199-209: a mutation addressed to an agent changes the
\* project that has the agent, whichever project is active, and no other.
TouchesItsProject ==
  \A p \in Projects : Exists(p) =>
    \A c \in boards[p].touched : Change[c].agent \in boards[p].agents
=============================================================================
