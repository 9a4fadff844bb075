---------------------------- MODULE Persistence ----------------------------
(***************************************************************************)
(* PersistenceCoordinator: what the executor keeps in memory, what is on   *)
(* disk, the auto-save that copies one to the other behind a debounced     *)
(* writer, and the page that may be closed or reloaded at any time.        *)
(*                                                                         *)
(* Of a perspective only the handle and its links are modelled; the calls  *)
(* that change them are those of PerspectiveManager, cut down to what they *)
(* do to the store and when they emit.                                     *)
(***************************************************************************)
EXTENDS DebouncedWriter, FiniteSets

CONSTANTS
  Uuids,   \* perspective uuids, each used once
  Links,   \* link expressions, each signed once
  Saves    \* the runs of saveState that may be under way at a time

Pairs == Uuids \X Links

VARIABLES
  mode,      \* of the page: closed, loading what was saved, or up
  agent,     \* has the agent service an agent?
  handles,   \* perspectives in memory
  links,     \* links in memory, with their perspective
  signing,   \* links addLink signs, to put them in memory then
  unsaid,    \* changes whose event is still to come
  auto,      \* is there a writer, and a listener that marks it dirty?
  saves,     \* the runs of saveState
  disk,      \* the three stores
  used,      \* history: uuids and pairs that were ever used
  silent,    \* history: links that were written with no event
  durable,   \* history: links a save has completed with, until they are removed
  troubled,  \* history: since the page was loaded, may the disk have been left behind?
  overlapped \* history: did two runs of saveState ever overlap?

memory  == <<agent, handles, links, signing, unsaid>>
history == <<used, silent, durable, troubled, overlapped>>
vars == <<mode, memory, auto, saves, disk, writerVars, history>>

Idle == [pc |-> "idle", mine |-> FALSE, agent |-> FALSE, handles |-> {}, links |-> {}]

Save == [pc      : {"idle", "agent", "handles", "links"},  \* the put it waits for
         mine    : BOOLEAN,        \* was it begun by the writer there is now?
         agent   : BOOLEAN,
         handles : SUBSET Uuids,
         links   : SUBSET Pairs]

Active == {s \in Saves : saves[s].pc # "idle"}

TypeOK ==
  /\ WriterTypeOK
  /\ mode \in {"closed", "loading", "up"}
  /\ agent \in BOOLEAN
  /\ handles \subseteq Uuids
  /\ links \subseteq Pairs
  /\ signing \subseteq Pairs
  /\ unsaid \subseteq Pairs
  /\ auto \in BOOLEAN
  /\ saves \in [Saves -> Save]
  /\ disk \in [agent : BOOLEAN, handles : SUBSET Uuids, links : SUBSET Pairs]
  /\ used \subseteq Uuids \cup Pairs
  /\ silent \subseteq Pairs
  /\ durable \subseteq Pairs
  /\ troubled \in BOOLEAN
  /\ overlapped \in BOOLEAN

Init ==
  /\ WriterInit
  /\ mode = "closed"
  /\ agent = FALSE
  /\ handles = {} /\ links = {} /\ signing = {} /\ unsaid = {}
  /\ auto = FALSE
  /\ saves = [s \in Saves |-> Idle]
  /\ disk = [agent |-> FALSE, handles |-> {}, links |-> {}]
  /\ used = {} /\ silent = {} /\ durable = {}
  /\ troubled = FALSE /\ overlapped = FALSE

-----------------------------------------------------------------------------
(* The page.                                                               *)

(***************************************************************************)
(* loadState puts the handles back, then the links; then the auto-save     *)
(* starts.  What was saved of the agent is not read.                       *)
(***************************************************************************)
LoadHandles ==
  /\ mode = "closed"
  /\ mode' = "loading"
  /\ handles' = disk.handles
  /\ UNCHANGED <<agent, links, signing, unsaid, auto, saves, disk, writerVars, history>>

LoadLinks ==
  /\ mode = "loading"
  /\ mode' = "up"
  /\ links' = disk.links
  /\ auto' = TRUE
  /\ UNCHANGED <<agent, handles, signing, unsaid, saves, disk, writerVars, history>>

(***************************************************************************)
(* The page goes, with all that is in memory and every call under way.     *)
(***************************************************************************)
Close ==
  /\ mode # "closed"
  /\ mode' = "closed"
  /\ agent' = FALSE
  /\ handles' = {} /\ links' = {} /\ signing' = {} /\ unsaid' = {}
  /\ auto' = FALSE
  /\ saves' = [s \in Saves |-> Idle]
  /\ dirty' = FALSE /\ timer' = FALSE /\ writing' = FALSE
  /\ silent' = {} /\ troubled' = FALSE
  /\ UNCHANGED <<disk, used, durable, overlapped>>

-----------------------------------------------------------------------------
(* The calls that change what is in memory.                                *)

(***************************************************************************)
(* An event reaches the writer through the listener, if there is one.      *)
(***************************************************************************)
Emit ==
  IF auto
    THEN MarkDirty /\ UNCHANGED troubled
    ELSE troubled' = TRUE /\ UNCHANGED writerVars

Generate ==
  /\ mode = "up"
  /\ agent' = TRUE
  /\ UNCHANGED <<mode, handles, links, signing, unsaid, auto, saves, disk, writerVars, history>>

(* Mutant: adding a perspective emits no event. *)
AddPerspective_Silent(u) ==
  /\ mode = "up"
  /\ u \notin used
  /\ handles' = handles \cup {u}
  /\ used' = used \cup {u}
  /\ UNCHANGED <<mode, agent, links, signing, unsaid, auto, saves, disk, writerVars,
                 silent, durable, troubled, overlapped>>

AddPerspective(u) ==
  /\ mode = "up"
  /\ u \notin used
  /\ handles' = handles \cup {u}
  /\ used' = used \cup {u}
  /\ Emit
  /\ UNCHANGED <<mode, agent, links, signing, unsaid, auto, saves, disk,
                 silent, durable, overlapped>>

RemovePerspective(u) ==
  /\ mode = "up"
  /\ u \in handles
  /\ handles' = handles \ {u}
  /\ links' = {p \in links : p[1] # u}
  /\ durable' = {p \in durable : p[1] # u}
  /\ Emit
  /\ UNCHANGED <<mode, agent, signing, unsaid, auto, saves, disk, used, silent, overlapped>>

AddLink(p) ==
  /\ mode = "up"
  /\ p[1] \in handles
  /\ p \notin used
  /\ used' = used \cup {p}
  /\ signing' = signing \cup {p}
  /\ UNCHANGED <<mode, agent, handles, links, unsaid, auto, saves, disk, writerVars,
                 silent, durable, troubled, overlapped>>

(***************************************************************************)
(* The link is signed, and written whether or not the perspective is still *)
(* there; one whose signing fails is not heard of again.                   *)
(***************************************************************************)
Signed(p) ==
  /\ p \in signing
  /\ signing' = signing \ {p}
  /\ links' = links \cup {p}
  /\ unsaid' = unsaid \cup {p}
  /\ UNCHANGED <<mode, agent, handles, auto, saves, disk, writerVars, history>>

RemoveLink(p) ==
  /\ mode = "up"
  /\ p \in links
  /\ p[1] \in handles
  /\ links' = links \ {p}
  /\ unsaid' = unsaid \cup {p}
  /\ durable' = durable \ {p}
  /\ UNCHANGED <<mode, agent, handles, signing, auto, saves, disk, writerVars,
                 used, silent, troubled, overlapped>>

EmitLink(p) ==
  /\ p \in unsaid
  /\ unsaid' = unsaid \ {p}
  /\ Emit
  /\ UNCHANGED <<mode, agent, handles, links, signing, auto, saves, disk, used,
                 silent, durable, overlapped>>

AddSdna(p) ==
  /\ mode = "up"
  /\ p[1] \in handles
  /\ p \notin used
  /\ links' = links \cup {p}
  /\ used' = used \cup {p}
  /\ silent' = silent \cup {p}
  /\ UNCHANGED <<mode, agent, handles, signing, unsaid, auto, saves, disk, writerVars,
                 durable, troubled, overlapped>>

-----------------------------------------------------------------------------
(* saveState: each store is written, and awaited, before what goes in the  *)
(* next is read.                                                           *)

Begin(s, mine) ==
  /\ saves[s].pc = "idle"
  /\ saves' = [saves EXCEPT ![s] = [Idle EXCEPT !.pc = "agent", !.mine = mine, !.agent = agent]]
  /\ overlapped' = (overlapped \/ Active # {})

SaveState(s) ==
  /\ mode = "up"
  /\ Begin(s, FALSE)
  /\ UNCHANGED <<mode, memory, auto, disk, writerVars, used, silent, durable, troubled>>

AutoSave(s) ==
  /\ TimerFires
  /\ Writes
  /\ Begin(s, TRUE)
  /\ UNCHANGED <<mode, memory, auto, disk, used, silent, durable, troubled>>

TimerIdles ==
  /\ TimerFires
  /\ ~Writes
  /\ UNCHANGED <<mode, memory, auto, saves, disk, history>>

AgentSaved(s) ==
  /\ saves[s].pc = "agent"
  /\ disk' = [disk EXCEPT !.agent = saves[s].agent]
  /\ saves' = [saves EXCEPT ![s].pc = "handles", ![s].handles = handles]
  /\ UNCHANGED <<mode, memory, auto, writerVars, history>>

(* Mutant: the store of the links is cleared before it is written. *)
HandlesSaved_Clears(s) ==
  /\ saves[s].pc = "handles"
  /\ disk' = [disk EXCEPT !.handles = saves[s].handles, !.links = {}]
  /\ saves' = [saves EXCEPT ![s].pc = "links", ![s].links = links]
  /\ UNCHANGED <<mode, memory, auto, writerVars, history>>

HandlesSaved(s) ==
  /\ saves[s].pc = "handles"
  /\ disk' = [disk EXCEPT !.handles = saves[s].handles]
  /\ saves' = [saves EXCEPT ![s].pc = "links", ![s].links = links]
  /\ UNCHANGED <<mode, memory, auto, writerVars, history>>

Returns(s) == IF saves[s].mine THEN WriteEnds ELSE UNCHANGED writerVars

(* Mutant: the links are not written. *)
LinksSaved_Skips(s) ==
  /\ saves[s].pc = "links"
  /\ saves' = [saves EXCEPT ![s] = Idle]
  /\ Returns(s)
  /\ UNCHANGED <<mode, memory, auto, disk, used, silent, durable, troubled, overlapped>>

LinksSaved(s) ==
  /\ saves[s].pc = "links"
  /\ disk' = [disk EXCEPT !.links = saves[s].links]
  /\ saves' = [saves EXCEPT ![s] = Idle]
  /\ durable' = durable \cup (saves[s].links \cap links)
  /\ Returns(s)
  /\ UNCHANGED <<mode, memory, auto, used, silent, troubled, overlapped>>

(***************************************************************************)
(* A put is refused, or the page is closed before it is made (Close).  The *)
(* writer has cleared its flag and does not try again.                     *)
(***************************************************************************)
SaveRejects(s) ==
  /\ saves[s].pc # "idle"
  /\ saves' = [saves EXCEPT ![s] = Idle]
  /\ Returns(s)
  /\ troubled' = TRUE
  /\ UNCHANGED <<mode, memory, auto, disk, used, silent, durable, overlapped>>

StartAutoSave ==
  /\ mode = "up"
  /\ ~auto
  /\ auto' = TRUE
  /\ UNCHANGED <<mode, memory, saves, disk, writerVars, history>>

(***************************************************************************)
(* The writer is stopped and forgotten, a run of saveState it has begun    *)
(* goes on: the next writer knows nothing of it.                           *)
(***************************************************************************)
StopAutoSave ==
  /\ mode = "up"
  /\ auto
  /\ auto' = FALSE
  /\ dirty' = FALSE /\ timer' = FALSE /\ writing' = FALSE
  /\ saves' = [s \in Saves |-> [saves[s] EXCEPT !.mine = FALSE]]
  /\ troubled' = (troubled \/ dirty)
  /\ UNCHANGED <<mode, memory, disk, used, silent, durable, overlapped>>

-----------------------------------------------------------------------------
Change ==
  \/ Generate
  \/ \E u \in Uuids : AddPerspective(u) \/ RemovePerspective(u)
  \/ \E p \in Pairs : AddLink(p) \/ Signed(p) \/ RemoveLink(p) \/ EmitLink(p) \/ AddSdna(p)

Saving(s) == AgentSaved(s) \/ HandlesSaved(s) \/ LinksSaved(s)

Next ==
  \/ LoadHandles \/ LoadLinks \/ Close
  \/ Change
  \/ TimerIdles
  \/ \E s \in Saves : SaveState(s) \/ AutoSave(s) \/ Saving(s) \/ SaveRejects(s)
  \/ StartAutoSave \/ StopAutoSave

Spec == Init /\ [][Next]_vars

(***************************************************************************)
(* Timers fire and the stores answer.                                      *)
(***************************************************************************)
Fairness ==
  /\ WF_vars(TimerIdles \/ \E s \in Saves : AutoSave(s))
  /\ \A s \in Saves : WF_vars(Saving(s))

FairSpec == Spec /\ Fairness

-----------------------------------------------------------------------------
(***************************************************************************)
(* When the auto-save is at rest, nothing dirty and no save or event under *)
(* way, the disk holds the perspectives and the links that memory does:    *)
(* no change falls into the gaps between the reads of one save.  Left out  *)
(* are links that were written with no event, runs that were refused or    *)
(* overlapped another, and changes made with the auto-save off.            *)
(***************************************************************************)
RestIsSaved ==
  (mode = "up" /\ auto /\ ~dirty /\ Active = {} /\ unsaid = {} /\ ~troubled /\ ~overlapped)
    => disk.handles = handles /\ disk.links \ silent = links \ silent

(***************************************************************************)
(* A link a save has completed with stays, in memory while the page is up  *)
(* and on disk while it is not, through crashes in the middle of later     *)
(* saves and through reloads, until somebody removes it; overlapping runs  *)
(* of saveState aside.                                                     *)
(***************************************************************************)
SavedSurvives ==
  ~overlapped => /\ durable \subseteq disk.links
                 /\ mode = "up" => durable \subseteq links

(***************************************************************************)
(* A link that is in memory while a save is due, and no save under way, is *)
(* saved, unless it is removed, the page closes, the auto-save is stopped  *)
(* or a save is refused.                                                   *)
(***************************************************************************)
DueIsSaved ==
  \A p \in Pairs :
    (p \in links /\ dirty /\ timer /\ Active = {}) ~>
       p \in disk.links \/ p \notin links \/ troubled \/ overlapped \/ ~auto
=============================================================================
