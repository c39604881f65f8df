----------------------------- MODULE Monitoring -----------------------------
(***************************************************************************)
(* What the admin API reports of the platform and of itself, and what a    *)
(* client loads: the overview and the history read the table of messages   *)
(* as it fills, the middleware keeps its metrics and its log beside them.  *)
(***************************************************************************)
EXTENDS Overview, History, Observability

vars == <<tableVars, overviewVars, historyVars, observabilityVars>>

\* Types of the four components' variables.
TypeOK == TableTypeOK /\ OverviewTypeOK /\ HistoryTypeOK /\ ObservabilityTypeOK

Init == TableInit /\ OverviewInit /\ HistoryInit /\ ObservabilityInit

TableStep ==
  /\ Tick \/ TableNext
  /\ UNCHANGED <<overviewVars, historyVars, observabilityVars>>

OverviewStep ==
  /\ OverviewNext
  /\ UNCHANGED <<tableVars, historyVars, observabilityVars>>

HistoryStep ==
  /\ \E h \in Readers : HistoryHandler(h)
  /\ UNCHANGED <<tableVars, overviewVars, observabilityVars>>

RequestStep ==
  /\ ObservabilityNext
  /\ UNCHANGED <<tableVars, overviewVars, historyVars>>

Next == TableStep \/ OverviewStep \/ HistoryStep \/ RequestStep

Spec == Init /\ [][Next]_vars
=============================================================================
