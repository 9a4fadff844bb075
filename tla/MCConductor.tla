---------------------------- MODULE MCConductor ----------------------------
(***************************************************************************)
(* Conductor with history variables: the timers that fired since the last  *)
(* connect() or success, the calls queued while a retry was prepared or    *)
(* made, and whether a connect() ever came while another connection was    *)
(* being made.                                                             *)
(***************************************************************************)
EXTENDS Conductor

VARIABLES tries, queuedInRetry, overlapped

HInit == Init /\ tries = 0 /\ queuedInRetry = {} /\ overlapped = FALSE

Reset == asked' # asked \/ \E a \in attempts \ attempts' : conn'[a.on] = "Connected"

HNext ==
  /\ Next
  /\ tries' = IF Reset THEN 0 ELSE IF inner' # inner THEN tries + 1 ELSE tries
  /\ queuedInRetry' = queuedInRetry \cup
       {c \in Calls : /\ call[c] = "new" /\ call'[c] = "queued"
                      /\ timer \/ \E a \in attempts : a.by = Timer}
  /\ overlapped' = (overlapped \/ (asked' # asked /\ (Retrying \/ attempts # {})))

hvars == <<vars, tries, queuedInRetry, overlapped>>
HSpec == HInit /\ [][HNext]_hvars /\ Fairness

(***************************************************************************)
(* What is queued is only rejected for want of a connection after every    *)
(* retry has been made since the last success or connect().                *)
(***************************************************************************)
AllRetriesMade ==
  [][\A c \in Calls :
       call[c] # "exhausted" /\ call'[c] = "exhausted" => tries >= MaxRetries]_hvars

(***************************************************************************)
(* Unless a connect() came while another connection was being made, a      *)
(* connected conductor is not replaced: the app that was installed through *)
(* it stays in reach.                                                      *)
(***************************************************************************)
LiveConductorStays ==
  [][~overlapped /\ conn[inner] = "Connected" => inner' = inner]_hvars

(***************************************************************************)
(* "Queues callZome requests during disconnection and drains them on       *)
(* reconnect" (ARCHITECTURE.md, Holochain integration): a call queued      *)
(* while the conductor reconnects is not rejected for want of an app       *)
(* socket.                                                                 *)
(***************************************************************************)
DrainedCallsAreMade == \A c \in queuedInRetry : call[c] # "no app"
=============================================================================
