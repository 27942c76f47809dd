----------------------------- MODULE StoreData ------------------------------
(***************************************************************************)
(* The data both levels of the state store speak of: the projects and      *)
(* their dashboards, the calls, and what a mutation does to a dashboard.   *)
(***************************************************************************)
CONSTANTS
  Projects,        \* project ids, those not created yet included
  FirstProject,    \* the project of the demo seed
  FirstBoard,      \* its dashboard
  Boards,          \* the dashboards a project can have
  Missing,         \* stands for the dashboard of a project that does not exist
  NoProject,       \* stands for the active project before there is one
  Mutations,       \* calls of mutateDashboard
  Creations,       \* POST /api/engagements
  Activations,     \* POST /api/projects/:projectId/activate
  Place,           \* the project of a creation or an activation
  Created,         \* the dashboard a creation saves
  Belongs(_, _, _),\* Belongs(c, p, b): the owner c names is found in b, the dashboard of p
  Throws(_, _),    \* Throws(c, b): the callback of mutation c throws on b
  Result(_, _)     \* Result(c, b): what it makes of b otherwise

Calls == Mutations \cup Creations \cup Activations

ASSUME StoreAssumption ==
  /\ FirstProject \in Projects
  /\ NoProject \notin Projects
  /\ Missing \notin Boards
  /\ FirstBoard \in Boards
  /\ Place \in [Creations \cup Activations -> Projects]
  /\ Created \in [Creations -> Boards]
  /\ \A c, d \in Creations : Place[c] = Place[d] => c = d     \* ids are fresh
  /\ \A c \in Creations : Place[c] # FirstProject
  /\ Mutations \cap Creations = {}
  /\ Activations \cap (Mutations \cup Creations) = {}

\* A mutation turns dashboards into dashboards.
ASSUME ResultAssumption ==
  \A c \in Mutations, b \in Boards : ~ Throws(c, b) => Result(c, b) \in Boards
=============================================================================
