---------------------------- MODULE MCMonitoring ----------------------------
(***************************************************************************)
(* A small instance of Monitoring for TLC.                                 *)
(***************************************************************************)
EXTENDS Monitoring, TLC
CONSTANTS
  alice, bob, req1, req2, reader1, call1, call2,
  OverviewMessages  \* bound: rows while overviews are built

MCSenders == {alice, bob}
MCReqs == {req1, req2}
MCReaders == {reader1}
MCCalls == {call1, call2}
MCPercents == {40, 50, 95}
Symmetry == Permutations(MCSenders) \cup Permutations(MCReqs) \cup Permutations(MCCalls)

VARIABLE part
MCVars == <<vars, part>>

\* The readers change nothing that another sees, so one moves at a time: the
\* overview over the table, the history over the table, the middleware.
MCInit ==
  /\ Init
  /\ part \in {"overview", "history", "requests"}
  /\ part = "requests" => exists

MCNext ==
  /\ \/ /\ part # "requests"
        /\ TableStep
        /\ part = "overview" => Len(messages') <= OverviewMessages
     \/ part = "overview" /\ OverviewStep
     \/ part = "history" /\ HistoryStep
     \/ part = "requests" /\ RequestStep
  /\ UNCHANGED part

\* Its behaviours are behaviours of Spec.
MCSpec == MCInit /\ [][MCNext]_MCVars
=============================================================================
