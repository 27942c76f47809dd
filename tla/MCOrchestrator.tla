--------------------------- MODULE MCOrchestrator ---------------------------
(***************************************************************************)
(* Small instances of Orchestrator for TLC: two targets, one inside and    *)
(* one outside the initial scope, one capability that lets a run propose   *)
(* scope and one that is gated.                                            *)
(***************************************************************************)
EXTENDS Orchestrator, TLC

MCTargets == {"app", "admin"}
MCBoundaries == {"allHosts", "adminHost"}
MCCovers == [b \in MCBoundaries |-> IF b = "allHosts" THEN MCTargets ELSE {"admin"}]
MCInitialRules == {[boundary |-> "allHosts", action |-> "allow"],
                   [boundary |-> "adminHost", action |-> "deny"]}
MCCapabilities == {"scope.propose", "shell.execute"}
MCGated == {"shell.execute"}

\* One run that may propose scope, one that is gated, one that is out of scope.
MCBodies == {[target |-> "app", capabilities |-> {"scope.propose"}],
             [target |-> "app", capabilities |-> {"shell.execute"}],
             [target |-> "admin", capabilities |-> {}]}

\* One run that is dispatched at once and one that waits for an approval.
MCFewBodies == {[target |-> "app", capabilities |-> {}],
                [target |-> "app", capabilities |-> {"shell.execute"}]}

\* Both ways to name the exact boundary; the wide allow rule stays in place.
MCOperatorRules == [boundary : {"adminHost"}, action : {"allow", "deny"}]

Symmetry == Permutations(Requests)
=============================================================================
