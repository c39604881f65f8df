--------------------------- MODULE DiscoveryProofs ---------------------------
(***************************************************************************)
(* Types of the discovery service, for any nodes and any number of         *)
(* goroutines.                                                             *)
(***************************************************************************)
EXTENDS Discovery, TLAPS

(***************************************************************************)
(* Whatever packets overwrite each other in the buffer, self never lists   *)
(* itself, and besides nodes only an id mixed up from theirs               *)
(* (discovery/main.go 137-170).                                            *)
(***************************************************************************)
THEOREM TypeCorrect == Spec => []TypeOK
<1>1. Init => TypeOK
  BY DEF Init, TypeOK, Nothing
<1>2. TypeOK /\ [Next]_vars => TypeOK'
  <2> SUFFICES ASSUME TypeOK, [Next]_vars PROVE TypeOK'
    OBVIOUS
  <2> USE NodesAssumption DEF TypeOK
  <2>1. ASSUME NEW n \in Nodes, Announce(n) PROVE TypeOK'
    BY <2>1 DEF Announce
  <2>2. ASSUME NEW n \in Nodes, Read(n) PROVE TypeOK'
    <3>1. parsing' \in [Handlers -> SUBSET Nodes]
      BY <2>2 DEF Read
    <3>2. QED
      BY <2>2, <3>1 DEF Read
  <2>3. ASSUME NEW n \in Nodes, HandleAlone(n) PROVE TypeOK'
    BY <2>3 DEF HandleAlone, Parsed, Meet
  <2>4. CASE HandleOverlapped
    <3>1. PICK h \in Handlers :
            \/ \E id \in parsing[h] \cup {Torn} : Parsed(h, Meet(id))
            \/ Parsed(h, peers)
      BY <2>4 DEF HandleOverlapped
    <3>2. \A id \in parsing[h] \cup {Torn} : Meet(id) \subseteq (Nodes \ {self}) \cup {Torn}
      BY DEF Meet
    <3>3. QED
      BY <3>1, <3>2 DEF Parsed
  <2>5. ASSUME NEW n \in Nodes, Stop(n) PROVE TypeOK'
    BY <2>5 DEF Stop, Nothing
  <2>6. ASSUME NEW n \in Nodes, Start(n) PROVE TypeOK'
    BY <2>6 DEF Start
  <2>7. CASE UNCHANGED vars
    BY <2>7 DEF vars
  <2>8. QED
    BY <2>1, <2>2, <2>3, <2>4, <2>5, <2>6, <2>7 DEF Next
<1>3. QED
  BY <1>1, <1>2, PTL DEF Spec
=============================================================================
