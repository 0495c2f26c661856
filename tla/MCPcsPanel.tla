----------------------------- MODULE MCPcsPanel -----------------------------
(* A cluster of two PCSs, one rated twice the other, and a third PCS       *)
(* outside.  The file has no configuration for the second: it stands for   *)
(* the current PCS, the first or the third, until an edit adds it.         *)
(* Registers of sixteen values; powers in halves of a kW.  The second PCS  *)
(* has steps coarser than a kW and an offset, the others finer ones: 18 kW *)
(* do not fit their registers.                                             *)
(* Points of every type, written again and again: they share no variable   *)
(* with the panel, so a behaviour follows the one or the other.            *)
EXTENDS PcsPanel, PcsPoint

CONSTANTS p1, p2, p3

MCCluster == <<p1, p2>>
MCOthers == {p3}
MCFiles == {{p1, p3}}
MCRated == [p \in {p1, p2, p3} |-> IF p = p1 THEN 2 ELSE 1]
MCFine == [type |-> "UINT16", lowFirst |-> FALSE, scale |-> 1, offset |-> 0, count |-> 1]
MCCoarse == [type |-> "INT32", lowFirst |-> TRUE, scale |-> 3, offset |-> 1, count |-> 2]
MCPowerPoint == [p \in {p1, p2, p3} |-> IF p = p2 THEN MCCoarse ELSE MCFine]
MCRequests == {-7, 36}
MCMargins == {90}
MCLimits == {<<7, 3, 2>>}
MCPlaceholders == <<{255}, {255}, {255}>>
MCThreadPowers == {-4}
MCPoints == [type : Types, lowFirst : BOOLEAN, scale : {1, 3, 4}, offset : {-3, 0, 4}, count : {1, 2}]
MCValues == {-513, -512, -511, -385, -384, -383, -129, -128, -127} \cup (-35..35)
                \cup {127, 128, 129, 255, 256, 257, 380, 383, 508, 511, 512, 768, 769}

MCInit == PanelInit /\ PointInit
MCNext == \/ PointInit /\ PanelNext /\ UNCHANGED pointVars
          \/ PanelInit /\ mode = "Real" /\ current = p3 /\ PointNext /\ UNCHANGED panelVars
MCSpec == /\ MCInit /\ [][MCNext]_<<panelVars, pointVars>>
          /\ WF_panelVars(Tick) /\ WF_panelVars(JobStep)
=============================================================================
