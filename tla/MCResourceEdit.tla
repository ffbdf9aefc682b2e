--------------------------- MODULE MCResourceEdit ---------------------------
(* ResourceEdit for TLC: two callers, and the providers that differ: the other *)
(* four help centers have the profile of Zendesk's.                            *)
EXTENDS ResourceEdit, TLC

CONSTANTS c1, c2

MCEdited == {"google", "microsoft", "confluence", "zendesk_guide"}
MCAsked == {{"text"}, {"people"}, {"text", "dates"}}
MCCallers == {c1, c2}
CallerSymmetry == Permutations(MCCallers)
=============================================================================
