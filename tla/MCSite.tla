------------------------------- MODULE MCSite -------------------------------
(* A site of up to two BMSs, two PCSs, two clusters and two profiles.  Six  *)
(* edits are what it takes to put two BMSs into the first of two clusters, *)
(* load another list over it and add again the BMS that was left behind.   *)
EXTENDS Site

CONSTANTS b1, b2, pcs2, cluster2, other

MCBms == {b1, b2}
MCPcs == {PCS1, pcs2}
MCNames == {Cluster1, cluster2}
MCProfiles == {DefaultProfile, other}
MCSymmetry == Permutations(MCBms)
MCTemplates == {<<pcs2>>}
=============================================================================
