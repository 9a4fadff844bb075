----------------------------- MODULE MCServices -----------------------------
(***************************************************************************)
(* Services that share no state, one of which each behaviour exercises:    *)
(* the model layer, the iterators of subscriptions, the agent service with *)
(* its capabilities, the Oxigraph link store, or the Holo Web Conductor.   *)
(***************************************************************************)
EXTENDS MCModelLayer

CONSTANTS
  Iterators, MaxEvents, MaxNexts,
  Calls, Passphrases, Requests,
  Perspectives, Nodes, Stamps, MaxLinks,
  Connections, Listeners

(* Calls are numbered in the order they are made; none of them is None. *)
ASSUME ServicesAssumption ==
  /\ Calls \subseteq Nat /\ None \notin Calls
  /\ Connections \subseteq Nat /\ None \notin Connections
  /\ MaxNexts \in Nat

VARIABLES
  service,  \* the service of this behaviour
  published, since, life, queue, resolver, nexts, given,
  agentState, did, key, wallet, agentCalls, pending, granted, agentMishap, hurried, revoked,
  sidecar, quads, saved, orphaned,
  extension, status, state, handlers, unsub, conns, callbacks, relays, heard, doubled

pubsubVars == <<published, since, life, queue, resolver, nexts, given>>
agentVars == <<agentState, did, key, wallet, agentCalls, pending, granted, agentMishap, hurried, revoked>>
storeVars == <<sidecar, quads, saved, orphaned>>
hwcVars == <<extension, status, state, handlers, unsub, conns, callbacks, relays, heard, doubled>>

svars == <<service, lvars, pubsubVars, agentVars, storeVars, hwcVars>>

Events == INSTANCE PubSub
AgentService == INSTANCE Agent WITH state <- agentState, calls <- agentCalls, mishap <- agentMishap
Store == INSTANCE OxigraphLinkStore
Holo == INSTANCE HWCConductor

SInit ==
  /\ service \in {"models", "pubsub", "agent", "store", "holo"}
  /\ LInit /\ Events!Init /\ AgentService!Init /\ Store!Init /\ Holo!Init
  /\ service # "models" => layer = "instance"
  /\ service # "holo" => ~extension

(* All services but s are left as they are. *)
Others(s) ==
  /\ s # "models" => UNCHANGED lvars
  /\ s # "pubsub" => UNCHANGED pubsubVars
  /\ s # "agent" => UNCHANGED agentVars
  /\ s # "store" => UNCHANGED storeVars
  /\ s # "holo" => UNCHANGED hwcVars

SNext ==
  /\ \/ service = "models" /\ LNext
     \/ service = "pubsub" /\ Events!Next
     \/ service = "agent" /\ AgentService!Next
     \/ service = "store" /\ Store!Next
     \/ service = "holo" /\ Holo!Next
  /\ Others(service)
  /\ UNCHANGED service

SSpec == SInit /\ [][SNext]_svars

-----------------------------------------------------------------------------
(***************************************************************************)
(* An iterator gives the events of its filter in the order in which they   *)
(* were published, each to one call of next().                             *)
(***************************************************************************)
EventsInOrder == Events!EventsInOrder

(***************************************************************************)
(* An agent that says it is unlocked has the key pair of its did, which    *)
(* the wallet holds, unless calls have overlapped or the wallet failed.    *)
(***************************************************************************)
StatusIsTrue == AgentService!StatusIsTrue

(***************************************************************************)
(* A token that was revoked is not granted again, whatever is still under  *)
(* way, unless two tokens were asked for at a time.                        *)
(***************************************************************************)
RevokedForGood == AgentService!RevokedForGood

(***************************************************************************)
(* The Oxigraph store adds and removes the links that the store in memory  *)
(* adds and removes, but for the removal of an empty predicate.            *)
(***************************************************************************)
ImplementsMemory ==
  Store!Memory!Init /\ [][service = "store" => Store!MemoryStep]_storeVars

(***************************************************************************)
(* The quads of a graph are the triples of its links, but for those of     *)
(* which one of several links was removed.                                 *)
(***************************************************************************)
QuadsOfLinks == Store!QuadsOfLinks

(***************************************************************************)
(* The extension has no status handler that disconnect() cannot take back. *)
(***************************************************************************)
NoStrayHandler == Holo!NoStrayHandler
=============================================================================
