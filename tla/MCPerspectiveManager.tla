----------------------- MODULE MCPerspectiveManager -----------------------
(***************************************************************************)
(* Small instances of PerspectiveManager.                                  *)
(***************************************************************************)
EXTENDS ManagedEngines, TLC

CONSTANTS
  l1, l2, l3, t1, t2, t3,
  MaxOpen         \* bound on the calls that are suspended at a time

(***************************************************************************)
(* Two links of different triples, two twins (the same triple signed at    *)
(* different times), and one link.                                         *)
(***************************************************************************)
TwoTriples == (l1 :> t1) @@ (l2 :> t2)
Twins      == (l1 :> t1) @@ (l2 :> t1)
OneLink    == l1 :> t1
ThreeTriples == TwoTriples @@ (l3 :> t3)

Suspended == Cardinality(jobs) +
             Cardinality({e \in Engines : engines[e].pc \in {"sync", "revision"}})

Symmetry == Permutations(Uuids) \cup Permutations(Engines)
LinkSymmetry == Symmetry \cup Permutations(Links)

Room == Suspended < MaxOpen

(***************************************************************************)
(* Links shared by replicas that are added and removed and whose engines   *)
(* come and go; and all calls there are.                                   *)
(***************************************************************************)
LifeNext ==
  \/ Settle
  \/ Room /\ \E u \in Uuids : Add(u) \/ Remove(u) \/ LinkCall(u) \/ EngineCall(u)
LifeSpec == Init /\ [][LifeNext]_vars
FairLifeSpec == LifeSpec /\ Fairness

AllNext == Settle \/ (Room /\ Call)
AllSpec == Init /\ [][AllNext]_vars
=============================================================================
