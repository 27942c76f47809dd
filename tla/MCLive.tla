------------------------------ MODULE MCLive -------------------------------
(***************************************************************************)
(* Live mode on small instances: one or two sessions, two polling agents.  *)
(***************************************************************************)
EXTENDS LiveSession

CONSTANTS s1, s2, a1, a2, none, nothing

OneSession == {s1}
TwoSessions == {s1, s2}
MCAgents == {a1, a2}
NoForeign == {}
OneForeign == {s2}
=============================================================================
