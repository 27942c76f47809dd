---------------------------- MODULE MCEvaluation ----------------------------
(***************************************************************************)
(* Evaluation on a small instance.                                         *)
(***************************************************************************)
EXTENDS Evaluation

Package(a, v, e) == [agent |-> a, version |-> v, enabled |-> e]

MCAgents == {"orchestrator", "explorer", "browser-user", "reporter"}
MCShipped == {Package("orchestrator", 1, TRUE), Package("explorer", 1, TRUE),
              Package("browser-user", 1, TRUE), Package("reporter", 1, TRUE)}
MCManifests == MCShipped \cup {Package("explorer", 2, TRUE), Package("explorer", 2, FALSE)}
MCPreferred == <<"explorer", "browser-user", "reporter">>
=============================================================================
