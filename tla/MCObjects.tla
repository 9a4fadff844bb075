----------------------------- MODULE MCObjects -----------------------------
(***************************************************************************)
(* The objects that share no state, one of which each behaviour exercises: *)
(* the conductor, a sync engine, a debounced writer, the persistence       *)
(* coordinator, the transport of calls to a worker, or the delegate that   *)
(* registers DNAs.  The states of this specification are those of each of  *)
(* them in turn.                                                           *)
(***************************************************************************)
EXTENDS MCConductor

CONSTANTS
  Starts, Commits, Reports, None,  \* the sync engine
  MaxMarks,                        \* the debounced writer
  Uuids, Links, Saves,             \* the persistence coordinator
  Callers,                         \* the transport
  Registrations, Nicks             \* the delegate

VARIABLES
  object,    \* the object of this behaviour
  running, syncState, start, commit, syncInterval, timers, outlived,
  dirty, writerTimer, writing, value, copy, written, dropped,
  mode, agent, handles, links, signing, unsaid, auto, saves, disk, used, silent, durable,
  troubled, saveOverlapped, saveDirty, saveTimer, saveWriting,
  kind, port, status, pending, callTimers, requests, handling, answers, bootstrap, late,
  hwc, regs, nickToCell, registered, signer, grants, relays, relayed, refused, crossed

engineVars == <<running, syncState, start, commit, syncInterval, timers, outlived>>
writerVars == <<dirty, writerTimer, writing, value, copy, written, dropped>>
saveVars == <<mode, agent, handles, links, signing, unsaid, auto, saves, disk, used, silent,
              durable, troubled, saveOverlapped, saveDirty, saveTimer, saveWriting>>
transportVars == <<kind, port, status, pending, callTimers, requests, handling, answers,
                   bootstrap, late>>
delegateVars == <<hwc, regs, nickToCell, registered, signer, grants, relays, relayed,
                  refused, crossed>>
ovars == <<object, hvars, engineVars, writerVars, saveVars, transportVars, delegateVars>>

Engine == INSTANCE MCSyncEngine
Writer == INSTANCE MCDebouncedWriter WITH timer <- writerTimer
Saved == INSTANCE Persistence WITH
  overlapped <- saveOverlapped, dirty <- saveDirty, timer <- saveTimer, writing <- saveWriting
Worker == INSTANCE Transport WITH timers <- callTimers, engine <- bootstrap
Delegate == INSTANCE HolochainDelegate

ASSUME EngineAssumption == None \notin Starts
ASSUME DelegateAssumption == None \notin (Registrations \cup {0}) \X Nicks

OInit ==
  /\ object \in {"conductor", "engine", "writer", "persistence", "transport", "delegate"}
  /\ HInit
  /\ Engine!HInit
  /\ Writer!Init
  /\ Saved!Init
  /\ Worker!Init
  /\ object # "transport" => kind = "graphql"
  /\ Delegate!Init
  /\ object # "delegate" => ~hwc

(* All objects but o are left as they are. *)
Others(o) ==
  /\ o # "conductor" => UNCHANGED hvars
  /\ o # "engine" => UNCHANGED engineVars
  /\ o # "writer" => UNCHANGED writerVars
  /\ o # "persistence" => UNCHANGED saveVars
  /\ o # "transport" => UNCHANGED transportVars
  /\ o # "delegate" => UNCHANGED delegateVars

ONext ==
  /\ \/ object = "conductor" /\ HNext
     \/ object = "engine" /\ Engine!HNext
     \/ object = "writer" /\ Writer!Next
     \/ object = "persistence" /\ Saved!Next
     \/ object = "transport" /\ Worker!Next
     \/ object = "delegate" /\ Delegate!Next
  /\ Others(object)
  /\ UNCHANGED object

(***************************************************************************)
(* An object that is not exercised is at rest: its fairness asks nothing.  *)
(***************************************************************************)
OSpec ==
  /\ OInit /\ [][ONext]_ovars
  /\ Fairness /\ Writer!Fairness /\ Saved!Fairness /\ Worker!Fairness

-----------------------------------------------------------------------------
(***************************************************************************)
(* What stop() can clear is all there is: an engine that was only ever     *)
(* stopped at rest has at most one timer, the one it knows, and has it     *)
(* once its starts are over; after stop() it has none and is idle.         *)
(***************************************************************************)
TimersOfEngine ==
  Engine!NoTimerLeak /\ Engine!KeepsSyncing /\ Engine!RestsWhenStopped

(***************************************************************************)
(* A change made while a run of the writer is under way is not taken for   *)
(* written.                                                                *)
(***************************************************************************)
RestIsWritten == Writer!RestIsWritten

(***************************************************************************)
(* A change that found the writer's timer pending and no run under way is  *)
(* written in the end.                                                     *)
(***************************************************************************)
TimedChangeIsWritten == Writer!TimedChangeIsWritten

(***************************************************************************)
(* When the auto-save is at rest, the disk holds the perspectives and the  *)
(* links that memory holds, whatever gaps one save has between its reads.  *)
(***************************************************************************)
RestIsSaved == Saved!RestIsSaved

(***************************************************************************)
(* What a save has completed with survives crashes in later saves, and     *)
(* reloads.                                                                *)
(***************************************************************************)
SavedSurvives == Saved!SavedSurvives

(***************************************************************************)
(* A change a save is due for is saved in the end.                         *)
(***************************************************************************)
DueIsSaved == Saved!DueIsSaved

(***************************************************************************)
(* Every call to a worker settles: by its answer, by its timer or by       *)
(* destroy(), whichever comes first.  Only a call on the proxy of a        *)
(* language, which has no timer, is left out until it is destroyed, and    *)
(* for good when it is made after that.                                    *)
(***************************************************************************)
CallsSettle == Worker!CallsSettle

(***************************************************************************)
(* A call to a cell that was granted its capability is made with the       *)
(* signer it was granted to, whichever registrations failed or overlapped, *)
(* unless credentials were made for two cells at a time.                   *)
(***************************************************************************)
CallsAuthorised == Delegate!CallsAuthorised

=============================================================================
