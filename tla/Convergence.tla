---------------------------- MODULE Convergence ----------------------------
(***************************************************************************)
(* When the replicas of a neighbourhood agree.  PerspectiveManager applies *)
(* remote diffs without waiting for one another and never compares its     *)
(* links with the language's, so replicas that work at the same time may   *)
(* part for good: an initial sync that races with a removal brings the     *)
(* link back, a removal may overtake the commit of the link it removes.    *)
(* Here a call is only made when the last one, and all it notified, is     *)
(* done; signing may still fail, engines still stop and start, and the     *)
(* diffs of one commit still run in any order.                             *)
(***************************************************************************)
EXTENDS MCPerspectiveManager

VARIABLE missed   \* history: removals committed while a replica had no running engine

Quiet ==
  /\ jobs = {}
  /\ \A e \in Engines : engines[e].pc \notin {"sync", "revision"}

OneAtATime == Settle \/ (Quiet /\ Call)

Missing ==
  missed' = [u \in Uuids |-> IF u \in Live THEN missed[u] ELSE missed[u] \cup (net \ net')]

ConvergenceSpec ==
  /\ Init /\ missed = [u \in Uuids |-> {}]
  /\ [][OneAtATime /\ Missing]_<<vars, missed>>

(***************************************************************************)
(* A replica whose engine runs and has started holds what the language     *)
(* holds, no link more and no link less, as far as the links go that the   *)
(* language ever took.  Left out are the links of calls that failed half   *)
(* way, which the code does not repair, and the removals that were made    *)
(* while the replica's engine did not run, which the initial sync does not *)
(* tell it of (manager.ts startSync, onDiff; shared-link-language.ts).     *)
(***************************************************************************)
InSync(u) == \E e \in Engines : engines[e].uuid = u /\ engines[e].running /\ engines[e].pc = "done"

Settled(u) == accepted \ (halfDone \cup missed[u])

Agreement ==
  Quiet => \A u \in Uuids : Ensured(u) /\ InSync(u) =>
             store[u] \cap Settled(u) = net \cap Settled(u)
=============================================================================
