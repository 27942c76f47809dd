------------------------------ MODULE MCStore -------------------------------
(***************************************************************************)
(* Workspace on a small instance: the demo project with two                *)
(* allow rules, which two calls remove at once, and a second project that  *)
(* is created, activated and changed through its agent.                    *)
(***************************************************************************)
EXTENDS Workspace

CONSTANTS demo, second, none, nobody

MCProjects == {demo, second}
MCMutations == {"drop1", "drop2", "touch"}
MCCreations == {"create"}
MCActivations == {"activate"}
MCPlace == [c \in MCCreations \cup MCActivations |-> second]

Board(rules, agents) == [rules |-> rules, agents |-> agents, touched |-> {}]

MCFirstBoard == Board({Rule("x1", "app", "allow"), Rule("x2", "docs", "allow")}, {"g1"})
MCCreated == [c \in MCCreations |-> Board({Rule("y1", "app", "allow")}, {"g2"})]
MCChange ==
  [c \in MCMutations |->
     CASE c = "drop1" -> RemoveRule(demo, "x1")
       [] c = "drop2" -> RemoveRule(demo, "x2")
       [] OTHER -> TouchAgent("g2")]

MCAgents == {"g1", "g2"}
MCRules == {Rule("x1", "app", "allow"), Rule("x2", "docs", "allow"), Rule("y1", "app", "allow")}
MCBoards == [rules : SUBSET MCRules, agents : SUBSET MCAgents, touched : SUBSET MCMutations]
=============================================================================
