---------------------------- MODULE MCLaneTurns -----------------------------
(* LaneTurns on the small instances of MCResearchLane.                        *)
EXTENDS LaneTurns, MCResearchLane

=============================================================================
