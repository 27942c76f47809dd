----------------------------- MODULE ScopeRules -----------------------------
(***************************************************************************)
(* The scope rules of a project and the three kinds of mutation that the   *)
(* runs of the store need: the routes that add and remove a rule           *)
(* (server.ts), addressed to a project, and a change of an agent's record  *)
(* (orchestrator.ts), addressed to an agent and found by it.               *)
(***************************************************************************)
EXTENDS FiniteSets

CONSTANTS
  Change   \* Change[c]: what the mutation c asks for

\* The kinds of change.  A new rule gets a fresh id, here the call's name.
AddRule(p, v, a) == [kind |-> "add", project |-> p, value |-> v, action |-> a]
RemoveRule(p, r) == [kind |-> "remove", project |-> p, rule |-> r]
TouchAgent(g) == [kind |-> "touch", agent |-> g]

Rule(i, v, a) == [id |-> i, value |-> v, action |-> a]

Allowing(b) == {r \in b.rules : r.action = "allow"}

\* Slip...: as in Orchestrator, a mistake that could be made at that place.
SlipRuleBelongs(c, p, b) == Change[c].kind = "touch" \/ Change[c].project = p

RuleBelongs(c, p, b) ==
  IF Change[c].kind = "touch" THEN Change[c].agent \in b.agents ELSE Change[c].project = p

SlipRuleThrows(c, b) ==
  \/ /\ Change[c].kind = "add"
     /\ \E r \in b.rules : r.value = Change[c].value /\ r.action = Change[c].action
  \/ /\ Change[c].kind = "remove"
     /\ \A r \in b.rules : r.id # Change[c].rule

RuleThrows(c, b) ==
  \/ /\ Change[c].kind = "add"
     /\ \E r \in b.rules : r.value = Change[c].value /\ r.action = Change[c].action
  \/ /\ Change[c].kind = "remove"
     /\ \/ \A r \in b.rules : r.id # Change[c].rule
        \/ /\ \E r \in Allowing(b) : r.id = Change[c].rule
           /\ Cardinality(Allowing(b)) = 1

RuleResult(c, b) ==
  CASE Change[c].kind = "add" ->
         [b EXCEPT !.rules = @ \cup {Rule(c, Change[c].value, Change[c].action)}]
    [] Change[c].kind = "remove" -> [b EXCEPT !.rules = {r \in @ : r.id # Change[c].rule}]
    [] OTHER -> [b EXCEPT !.touched = @ \cup {c}]

DistinctIds(b) == \A r, s \in b.rules : r.id = s.id => r = s
=============================================================================
