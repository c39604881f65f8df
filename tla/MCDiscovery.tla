----------------------------- MODULE MCDiscovery -----------------------------
(***************************************************************************)
(* This node and two others, for TLC.                                      *)
(***************************************************************************)
EXTENDS Discovery
CONSTANTS node2, node3, parser1, parser2

MCNodes == {self, node2, node3}
MCHandlers == {parser1, parser2}
=============================================================================
