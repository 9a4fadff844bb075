------------------------- MODULE PerspectiveManager -------------------------
(***************************************************************************)
(* PerspectiveManager with the sync engines it starts, over the link store *)
(* and a neighbourhood's link language.                                    *)
(*                                                                         *)
(* All of the manager's state is keyed by a perspective's uuid, and uuids  *)
(* are unique, so one module stands for one agent with several             *)
(* perspectives and for several agents with one each: an element of Uuids  *)
(* is a replica of the neighbourhood.                                      *)
(*                                                                         *)
(* The code is single-threaded and asynchronous: a call runs until its     *)
(* next await and anything may run before it resumes.  Every call that is  *)
(* suspended at an await is a job, and every action below is one stretch   *)
(* of code between two awaits.                                             *)
(***************************************************************************)
EXTENDS SharedLinkLanguage

CONSTANTS
  Uuids,    \* perspective uuids: each is used by one perspective
  Engines,  \* SyncEngine objects
  Bad,      \* links whose source or target validateLink rejects
  Split,    \* the language: a shared one notifies a commit's additions and its
            \* removals separately, a bundled one in one diff
  Faulty,   \* may the adapter's sync and commit reject?
  None

ASSUME ManagerAssumption ==
  /\ Bad \subseteq Links
  /\ Split \in BOOLEAN
  /\ Faulty \in BOOLEAN
  /\ None \notin Uuids
  /\ None \notin Engines

VARIABLES
  handles,      \* the perspectives map: a state, or not (yet, any longer) there
  adapters,     \* the uuids with an entry in the adapters map
  syncEngines,  \* the syncEngines map
  engines,      \* the engine objects, reachable from the map or not
  store,        \* the link store
  net,          \* the links held by the link language
  jobs,         \* the suspended calls
  view,         \* the links a listener holds that only follows the events
  minted,       \* history: links that were ever handed to signLink
  removing,     \* history: links somebody ever asked to remove
  accepted,     \* history: links the link language ever took
  halfDone      \* history: links of calls that threw half way, and of addSdna

vars == <<handles, adapters, syncEngines, engines, store, net, jobs, view,
          minted, removing, accepted, halfDone>>

history == <<minted, removing, accepted, halfDone>>

-----------------------------------------------------------------------------
HandleState == {"unused", "Private", "Synced", "removed"}
SyncState   == {"idle", "syncing", "synced"}
StartPc     == {"new", "sync", "revision", "done", "failed"}

Engine == [uuid     : Uuids \cup {None},
           running  : BOOLEAN,
           state    : SyncState,
           pc       : StartPc,        \* where start() is suspended
           snap     : SUBSET Links,   \* what the pending sync() will answer
           interval : BOOLEAN]        \* is the periodic timer set?

NewEngine == [uuid |-> None, running |-> FALSE, state |-> "idle",
              pc |-> "new", snap |-> {}, interval |-> FALSE]

(***************************************************************************)
(* A suspended call.  toAdd and toRemove are still to be put in and taken  *)
(* out of the store; added and removed have been, and will be committed    *)
(* and announced.  A diff job is a run of onDiff: via is the engine whose  *)
(* start() registered the observer that called it, src the replica whose   *)
(* commit it reports.                                                      *)
(***************************************************************************)
LocalKind == {"add", "remove", "update", "mutate", "sdna"}
Job == [kind     : LocalKind \cup {"diff"},
        u        : Uuids,
        via      : Engines \cup {None},
        src      : Uuids \cup {None},
        toAdd    : SUBSET Links,
        toRemove : SUBSET Links,
        added    : SUBSET Links,
        removed  : SUBSET Links,
        pc       : {"sign", "store", "commit", "refused", "ask", "emit"}]

TypeOK ==
  /\ handles \in [Uuids -> HandleState]
  /\ adapters \subseteq Uuids
  /\ syncEngines \in [Uuids -> Engines \cup {None}]
  /\ engines \in [Engines -> Engine]
  /\ store \in [Uuids -> SUBSET Links]
  /\ net \subseteq Links
  /\ jobs \subseteq Job
  /\ view \in [Uuids -> SUBSET Links]
  /\ minted \subseteq Links
  /\ removing \subseteq Links
  /\ accepted \subseteq Links
  /\ halfDone \subseteq Links

Init ==
  /\ handles = [u \in Uuids |-> "unused"]
  /\ adapters = {}
  /\ syncEngines = [u \in Uuids |-> None]
  /\ engines = [e \in Engines |-> NewEngine]
  /\ store = [u \in Uuids |-> {}]
  /\ net = {}
  /\ jobs = {}
  /\ view = [u \in Uuids |-> {}]
  /\ minted = {}
  /\ removing = {}
  /\ accepted = {}
  /\ halfDone = {}

-----------------------------------------------------------------------------
(* The link store.                                                         *)

(* Mutant: ensurePerspective no longer refuses a removed perspective. *)
Ensured_EverAdded(u) == handles[u] # "unused"

(***************************************************************************)
(* ensurePerspective: throws, and the call has no effect, unless the       *)
(* perspective is in the map.                                              *)
(***************************************************************************)
Ensured(u) == handles[u] \in {"Private", "Synced"}

StoreAdd(u, L)    == store' = [store EXCEPT ![u] = @ \cup L]
StoreRemove(u, L) == store' = [store EXCEPT ![u] = @ \ L]

NewJob(kind, u, A, R, removed, pc) ==
  [kind |-> kind, u |-> u, via |-> None, src |-> None,
   toAdd |-> A, toRemove |-> R, added |-> {}, removed |-> removed, pc |-> pc]

Replace(j, k) == jobs' = (jobs \ {j}) \cup {k}
Finish(j)     == jobs' = jobs \ {j}

(***************************************************************************)
(* Links the user of perspective u can name in a removal.                  *)
(***************************************************************************)
Visible(u) == store[u] \cup view[u]

-----------------------------------------------------------------------------
(* Perspectives.                                                           *)

Add(u) ==
  /\ handles[u] = "unused"
  /\ handles' = [handles EXCEPT ![u] = "Private"]
  /\ UNCHANGED <<adapters, syncEngines, engines, store, net, jobs, view, history>>

(***************************************************************************)
(* remove(): the handle, the adapter and the links go; a running engine    *)
(* stays in the map and stays running.                                     *)
(***************************************************************************)
Remove(u) ==
  /\ Ensured(u)
  /\ handles' = [handles EXCEPT ![u] = "removed"]
  /\ adapters' = adapters \ {u}
  /\ store' = [store EXCEPT ![u] = {}]
  /\ view' = [view EXCEPT ![u] = {}]
  /\ UNCHANGED <<syncEngines, engines, net, jobs, history>>

-----------------------------------------------------------------------------
(* Link operations: the stretch up to the first await.                     *)

AddLinks(u, A) ==
  /\ Ensured(u)
  /\ jobs' = jobs \cup {NewJob("add", u, A, {}, {}, "sign")}
  /\ minted' = minted \cup A
  /\ UNCHANGED <<handles, adapters, syncEngines, engines, store, net, view,
                 removing, accepted, halfDone>>

(***************************************************************************)
(* removeLink of a link that is not in the store answers false and has no  *)
(* effect; the removal itself is asked for in either case.                 *)
(***************************************************************************)
RemoveLink(u, l) ==
  /\ Ensured(u)
  /\ l \in store[u]
  /\ StoreRemove(u, {l})
  /\ jobs' = jobs \cup {NewJob("remove", u, {}, {}, {l}, "store")}
  /\ removing' = removing \cup {l}
  /\ UNCHANGED <<handles, adapters, syncEngines, engines, net, view,
                 minted, accepted, halfDone>>

(***************************************************************************)
(* updateLink takes the old link out before it signs the new one, and does *)
(* not look whether it was there.                                          *)
(***************************************************************************)
UpdateLink(u, old, new) ==
  /\ Ensured(u)
  /\ StoreRemove(u, {old})
  /\ jobs' = jobs \cup {NewJob("update", u, {new}, {}, {old}, "sign")}
  /\ minted' = minted \cup {new}
  /\ removing' = removing \cup {old}
  /\ UNCHANGED <<handles, adapters, syncEngines, engines, net, view, accepted, halfDone>>

LinkMutations(u, A, R) ==
  /\ Ensured(u)
  /\ jobs' = jobs \cup {NewJob("mutate", u, A, R, {}, "sign")}
  /\ minted' = minted \cup A
  /\ removing' = removing \cup R
  /\ UNCHANGED <<handles, adapters, syncEngines, engines, store, net, view,
                 accepted, halfDone>>

(***************************************************************************)
(* addSdna writes two links straight to the store: no signature, no        *)
(* commit, no event.                                                       *)
(***************************************************************************)
AddSdna(u, code, type) ==
  /\ Ensured(u)
  /\ StoreAdd(u, {code})
  /\ jobs' = jobs \cup {NewJob("sdna", u, {type}, {}, {}, "store")}
  /\ minted' = minted \cup {code, type}
  /\ halfDone' = halfDone \cup {code, type}
  /\ UNCHANGED <<handles, adapters, syncEngines, engines, net, view,
                 removing, accepted>>

SdnaType(j) ==
  /\ j.kind = "sdna"
  /\ StoreAdd(j.u, j.toAdd)
  /\ Finish(j)
  /\ UNCHANGED <<handles, adapters, syncEngines, engines, net, view, history>>

-----------------------------------------------------------------------------
(* Link operations: after the awaits.                                      *)

Writing(j) == j.kind \in {"add", "update", "mutate"} /\ j.pc \in {"sign", "store"}

SignFails(j) ==
  /\ Writing(j)
  /\ j.pc = "sign"
  /\ j.toAdd # {}
  /\ Finish(j)
  /\ halfDone' = halfDone \cup j.removed
  /\ UNCHANGED <<handles, adapters, syncEngines, engines, store, net, view,
                 minted, removing, accepted>>

(* Mutant: the link store does not validate. *)
StoreOne_Unvalidated(j, l) ==
  /\ Writing(j)
  /\ l \in j.toAdd
  /\ StoreAdd(j.u, {l})
  /\ Replace(j, [j EXCEPT !.toAdd = @ \ {l}, !.added = @ \cup {l}, !.pc = "store"])
  /\ UNCHANGED <<handles, adapters, syncEngines, engines, net, view, history>>

(***************************************************************************)
(* linkStore.addLinks goes link by link; what it put in before a link that *)
(* validateLink refuses stays, and the call throws.                        *)
(***************************************************************************)
StoreOne(j, l) ==
  /\ Writing(j)
  /\ l \in j.toAdd
  /\ l \notin Bad
  /\ StoreAdd(j.u, {l})
  /\ Replace(j, [j EXCEPT !.toAdd = @ \ {l}, !.added = @ \cup {l}, !.pc = "store"])
  /\ UNCHANGED <<handles, adapters, syncEngines, engines, net, view, history>>

StoreThrows(j, l) ==
  /\ Writing(j)
  /\ l \in j.toAdd
  /\ l \in Bad
  /\ Finish(j)
  /\ halfDone' = halfDone \cup j.added \cup j.removed
  /\ UNCHANGED <<handles, adapters, syncEngines, engines, store, net, view,
                 minted, removing, accepted>>

(***************************************************************************)
(* The removals of linkMutations: only those that found their link count.  *)
(***************************************************************************)
RemoveOne(j, r) ==
  /\ Writing(j)
  /\ j.toAdd = {}
  /\ r \in j.toRemove
  /\ StoreRemove(j.u, {r})
  /\ Replace(j, [j EXCEPT !.toRemove = @ \ {r},
                          !.removed = @ \cup ({r} \cap store[j.u]),
                          !.pc = "store"])
  /\ UNCHANGED <<handles, adapters, syncEngines, engines, net, view, history>>

(***************************************************************************)
(* Everything is stored and taken out; what is left is to commit, when the *)
(* perspective has an adapter, and to tell the listeners.                  *)
(***************************************************************************)
Ready(j) ==
  /\ j.kind \in LocalKind \ {"sdna"}
  /\ j.pc \in {"sign", "store"}
  /\ j.toAdd = {}
  /\ j.toRemove = {}

Announce(j) == view' = [view EXCEPT ![j.u] = (@ \cup j.added) \ j.removed]

PushPrivate(j) ==
  /\ Ready(j)
  /\ j.u \notin adapters
  /\ Announce(j)
  /\ Finish(j)
  /\ UNCHANGED <<handles, adapters, syncEngines, engines, store, net, history>>

-----------------------------------------------------------------------------
(* onDiff, as the observers of the link language run it.                   *)

(***************************************************************************)
(* onDiff(A, R) when it reaches its first await: the first addition is in  *)
(* the store or, when there are none, the first removal is out of it.      *)
(***************************************************************************)
DiffJob(v, o, src, A, R, fa, fr) ==
  LET adding == A # {} IN
  [kind |-> "diff", u |-> v, via |-> o, src |-> src,
   toAdd    |-> A \ fa,
   toRemove |-> IF adding THEN R ELSE R \ fr,
   added    |-> fa,
   removed  |-> IF adding THEN {} ELSE fr,
   pc       |-> IF adding THEN "store" ELSE "emit"]

(* Mutant: start() registers its callback when the initial sync is done. *)
Live_CallbackLast ==
  {v \in Uuids : \E e \in Engines : engines[e].running /\ engines[e].uuid = v
                                    /\ engines[e].pc = "done"}

(***************************************************************************)
(* The replicas with a running engine.  In the shared language an engine's *)
(* start() registers one observer with its replica's adapter, every        *)
(* observer calls the callbacks of all engines that were ever started      *)
(* there, and a callback does nothing unless its engine runs: a running    *)
(* engine runs onDiff once for every engine its replica ever had.  In the  *)
(* bundled language the callback is the observer.                          *)
(***************************************************************************)
Live == {v \in Uuids : \E e \in Engines : engines[e].running /\ engines[e].uuid = v}

Observers ==
  {o \in Engines : IF Split THEN engines[o].uuid \in Live ELSE engines[o].running}

(* Mutant: removals are not notified. *)
Notified_AdditionsOnly(A, R) == {<<A, {}>>} \ {<<{}, {}>>}

(***************************************************************************)
(* The diffs one commit notifies: additions apart from removals, or both   *)
(* in one; nothing for an empty list.                                      *)
(***************************************************************************)
Notified(A, R) ==
  (IF Split THEN {<<A, {}>>, <<{}, R>>} ELSE {<<A, R>>}) \ {<<{}, {}>>}

Observe(o, src, d, fa, fr) ==
  DiffJob(engines[o].uuid, o, src, d[1], d[2], d[1] \cap fa, d[2] \cap fr)

DiffJobs(src, A, R, fa, fr) ==
  {Observe(o, src, d, fa, fr) : o \in Observers, d \in Notified(A, R)}

(***************************************************************************)
(* commit reaches the language: it takes the diff and calls its observers  *)
(* before the call returns.                                                *)
(***************************************************************************)
PushCommit(j, fa, fr) ==
  /\ Ready(j)
  /\ j.u \in adapters
  /\ fa \in Firsts(j.added)
  /\ fr \in Firsts(j.removed)
  /\ net' \in AfterCommit(net, j.added, j.removed)
  /\ accepted' = accepted \cup j.added
  /\ jobs' = (jobs \ {j}) \cup {[j EXCEPT !.pc = "commit"]}
                          \cup DiffJobs(j.u, j.added, j.removed, fa, fr)
  /\ store' = [v \in Uuids |->
                 IF v \in Live
                   THEN (store[v] \cup fa) \ (IF Split \/ fa = {} THEN fr ELSE {})
                   ELSE store[v]]
  /\ UNCHANGED <<handles, adapters, syncEngines, engines, view,
                 minted, removing, halfDone>>

(* Mutant: a commit that fails is taken for one that was made. *)
PushLost_Swallowed(j) ==
  /\ Faulty
  /\ Ready(j)
  /\ j.u \in adapters
  /\ Replace(j, [j EXCEPT !.pc = "commit"])
  /\ UNCHANGED <<handles, adapters, syncEngines, engines, store, net, view, history>>

PushLost(j) ==
  /\ Faulty
  /\ Ready(j)
  /\ j.u \in adapters
  /\ Replace(j, [j EXCEPT !.pc = "refused"])
  /\ UNCHANGED <<handles, adapters, syncEngines, engines, store, net, view, history>>

(* Mutant: a call that committed does not emit. *)
CommitResolves_Silent(j) ==
  /\ j.pc = "commit"
  /\ Finish(j)
  /\ UNCHANGED <<handles, adapters, syncEngines, engines, store, net, view, history>>

CommitResolves(j) ==
  /\ j.pc = "commit"
  /\ Announce(j)
  /\ Finish(j)
  /\ UNCHANGED <<handles, adapters, syncEngines, engines, store, net, history>>

(***************************************************************************)
(* A rejected commit throws out of the call: the store keeps the links and *)
(* no event is emitted.  An answer can be lost after the commit was made.  *)
(***************************************************************************)
CommitRejects(j) ==
  /\ \/ j.pc = "refused"
     \/ j.pc = "commit" /\ Faulty
  /\ Finish(j)
  /\ halfDone' = halfDone \cup j.added \cup j.removed
  /\ UNCHANGED <<handles, adapters, syncEngines, engines, store, net, view,
                 minted, removing, accepted>>

DiffAdd(j, l) ==
  /\ j.kind = "diff"
  /\ l \in j.toAdd
  /\ l \notin Bad
  /\ StoreAdd(j.u, {l})
  /\ Replace(j, [j EXCEPT !.toAdd = @ \ {l}, !.added = @ \cup {l}, !.pc = "store"])
  /\ UNCHANGED <<handles, adapters, syncEngines, engines, net, view, history>>

(***************************************************************************)
(* All additions are in: tell the listeners, and take out the first of the *)
(* removals, if any.  linkRemoved is emitted whether the link was there or *)
(* not.                                                                    *)
(***************************************************************************)
DiffNext(j, fr) ==
  /\ j.kind = "diff"
  /\ j.toAdd = {}
  /\ fr \in Firsts(j.toRemove)
  /\ Announce(j)
  /\ StoreRemove(j.u, fr)
  /\ IF fr = {}
       THEN Finish(j)
       ELSE Replace(j, [j EXCEPT !.toRemove = @ \ fr, !.added = {},
                                 !.removed = fr, !.pc = "emit"])
  /\ UNCHANGED <<handles, adapters, syncEngines, engines, net, history>>

-----------------------------------------------------------------------------
(* The sync engines.                                                       *)

SetLinkLanguage(u) ==
  /\ Ensured(u)
  /\ u \notin adapters
  /\ adapters' = adapters \cup {u}
  /\ UNCHANGED <<handles, syncEngines, engines, store, net, jobs, view, history>>

(***************************************************************************)
(* syncPerspective asks the adapter for its links and, from then on, does  *)
(* what onDiff does with them.  (Answered with no links it has no effect.) *)
(***************************************************************************)
SyncPerspective(u) ==
  /\ Ensured(u)
  /\ u \in adapters
  /\ net # {}
  /\ jobs' = jobs \cup {[DiffJob(u, None, None, net, {}, {}, {}) EXCEPT !.pc = "ask"]}
  /\ UNCHANGED <<handles, adapters, syncEngines, engines, store, net, view, history>>

SyncRejects(j) ==
  /\ Faulty
  /\ j.pc = "ask"
  /\ Finish(j)
  /\ UNCHANGED <<handles, adapters, syncEngines, engines, store, net, view, history>>

(* Mutant: startSync does not look for an engine that is there. *)
StartSync_Twice(u, e) ==
  /\ Ensured(u)
  /\ engines[e].uuid = None
  /\ adapters' = adapters \cup {u}
  /\ syncEngines' = [syncEngines EXCEPT ![u] = e]
  /\ engines' = [engines EXCEPT ![e] =
                   [uuid |-> u, running |-> TRUE, state |-> "syncing",
                    pc |-> "sync", snap |-> net, interval |-> FALSE]]
  /\ UNCHANGED <<handles, store, net, jobs, view, history>>

(***************************************************************************)
(* startSync up to the await in SyncEngine.start: the engine is in the map *)
(* before it starts, and it has registered its callback before it asks the *)
(* adapter for the links.                                                  *)
(***************************************************************************)
StartSync(u, e) ==
  /\ Ensured(u)
  /\ syncEngines[u] = None
  /\ engines[e].uuid = None
  /\ adapters' = adapters \cup {u}
  /\ syncEngines' = [syncEngines EXCEPT ![u] = e]
  /\ engines' = [engines EXCEPT ![e] =
                   [uuid |-> u, running |-> TRUE, state |-> "syncing",
                    pc |-> "sync", snap |-> net, interval |-> FALSE]]
  /\ UNCHANGED <<handles, store, net, jobs, view, history>>

(* Mutant: the answer to the initial sync is not applied. *)
SyncReturns_Dropped(e, f) ==
  /\ engines[e].pc = "sync"
  /\ f \in Firsts(engines[e].snap)
  /\ engines' = [engines EXCEPT ![e].pc = "revision", ![e].snap = {}]
  /\ UNCHANGED <<handles, adapters, syncEngines, store, net, jobs, view, history>>

(***************************************************************************)
(* The initial diff is applied without awaiting it.                        *)
(***************************************************************************)
SyncReturns(e, f) ==
  LET E == engines[e] IN
  /\ E.pc = "sync"
  /\ f \in Firsts(E.snap)
  /\ StoreAdd(E.uuid, f)
  /\ jobs' = jobs \cup (IF f = {} THEN {}
                        ELSE {DiffJob(E.uuid, e, None, E.snap, {}, f, {})})
  /\ engines' = [engines EXCEPT ![e].pc = "revision", ![e].snap = {}]
  /\ UNCHANGED <<handles, adapters, syncEngines, net, view, history>>

StartRejects(e) ==
  /\ Faulty
  /\ engines[e].pc \in {"sync", "revision"}
  /\ engines' = [engines EXCEPT ![e].pc = "failed", ![e].snap = {}]
  /\ UNCHANGED <<handles, adapters, syncEngines, store, net, jobs, view, history>>

(* Mutant: the handle is given the engine's word for synced. *)
RevisionReturns_WrongWord(e) ==
  LET u == engines[e].uuid IN
  /\ engines[e].pc = "revision"
  /\ engines' = [engines EXCEPT ![e].pc = "done", ![e].state = "synced",
                                ![e].interval = TRUE]
  /\ handles' = [handles EXCEPT ![u] = IF Ensured(u) THEN "synced" ELSE @]
  /\ UNCHANGED <<adapters, syncEngines, store, net, jobs, view, history>>

(***************************************************************************)
(* start() ends: the engine says it is synced, the manager marks the       *)
(* handle, and the timer is set, stopped or not.                           *)
(***************************************************************************)
RevisionReturns(e) ==
  LET u == engines[e].uuid IN
  /\ engines[e].pc = "revision"
  /\ engines' = [engines EXCEPT ![e].pc = "done", ![e].state = "synced",
                                ![e].interval = TRUE]
  /\ handles' = [handles EXCEPT ![u] = IF Ensured(u) THEN "Synced" ELSE @]
  /\ UNCHANGED <<adapters, syncEngines, store, net, jobs, view, history>>

(* Mutant: the timer is not cleared. *)
StopSync_TimerStays(u) ==
  LET e == syncEngines[u] IN
  /\ e # None
  /\ syncEngines' = [syncEngines EXCEPT ![u] = None]
  /\ engines' = [engines EXCEPT ![e].running = FALSE, ![e].state = "idle"]
  /\ UNCHANGED <<handles, adapters, store, net, jobs, view, history>>

StopSync(u) ==
  LET e == syncEngines[u] IN
  /\ e # None
  /\ syncEngines' = [syncEngines EXCEPT ![u] = None]
  /\ engines' = [engines EXCEPT ![e].running = FALSE, ![e].state = "idle",
                                ![e].interval = FALSE]
  /\ UNCHANGED <<handles, adapters, store, net, jobs, view, history>>

-----------------------------------------------------------------------------
(***************************************************************************)
(* What a caller may do.  signLink gives every new link an author and a    *)
(* time of its own, so links are signed once.                              *)
(***************************************************************************)
Fresh == Links \ minted

LinkCall(u) ==
  \/ \E A \in SUBSET Fresh : A # {} /\ AddLinks(u, A)
  \/ \E l \in Visible(u) : RemoveLink(u, l)
  \/ \E old \in Visible(u), new \in Fresh : UpdateLink(u, old, new)

BatchCall(u) ==
  \/ \E A \in SUBSET Fresh, R \in SUBSET Visible(u) : R # {} /\ LinkMutations(u, A, R)
  \/ \E code, type \in Fresh \ Bad : code # type /\ AddSdna(u, code, type)

EngineCall(u) ==
  \/ \E e \in Engines : StartSync(u, e)
  \/ StopSync(u)

AdapterCall(u) ==
  \/ SetLinkLanguage(u)
  \/ SyncPerspective(u)

Call == \E u \in Uuids : \/ Add(u)
                         \/ Remove(u)
                         \/ LinkCall(u)
                         \/ BatchCall(u)
                         \/ EngineCall(u)
                         \/ AdapterCall(u)

(***************************************************************************)
(* What the event loop does: some suspended call goes on.                  *)
(***************************************************************************)
Resume(j) ==
  \/ SdnaType(j)
  \/ \E l \in j.toAdd : StoreOne(j, l) \/ StoreThrows(j, l) \/ DiffAdd(j, l)
  \/ \E r \in j.toRemove : RemoveOne(j, r)
  \/ PushPrivate(j)
  \/ \E fa \in Firsts(j.added), fr \in Firsts(j.removed) : PushCommit(j, fa, fr)
  \/ CommitResolves(j)
  \/ \E fr \in Firsts(j.toRemove) : DiffNext(j, fr)

Reject(j) == SignFails(j) \/ PushLost(j) \/ CommitRejects(j) \/ SyncRejects(j)

ResumeStart(e) ==
  \/ \E f \in Firsts(engines[e].snap) : SyncReturns(e, f)
  \/ RevisionReturns(e)

Settle ==
  \/ \E j \in jobs : Resume(j) \/ Reject(j)
  \/ \E e \in Engines : ResumeStart(e) \/ StartRejects(e)

Next == Call \/ Settle

Spec == Init /\ [][Next]_vars

(***************************************************************************)
(* The event loop runs every suspended call again, and an adapter answers  *)
(* or rejects: a pending addition is eventually made, and start() goes on. *)
(***************************************************************************)
AddsPending(u, l) == \E j \in jobs : j.u = u /\ DiffAdd(j, l)

Fairness ==
  /\ \A u \in Uuids, l \in Links : WF_vars(AddsPending(u, l))
  /\ \A e \in Engines : WF_vars(ResumeStart(e))

FairSpec == Spec /\ Fairness

-----------------------------------------------------------------------------
(* Properties.                                                             *)

(***************************************************************************)
(* A running engine is the one its perspective's map entry points to: no   *)
(* interleaving of startSync, stopSync and remove leaves a perspective     *)
(* with two engines that both apply remote diffs, or with one that         *)
(* stopSync can no longer reach (manager.ts startSync, stopSync).          *)
(***************************************************************************)
OneLiveEngine ==
  \A e \in Engines : engines[e].running => syncEngines[engines[e].uuid] = e

(***************************************************************************)
(* Is the addition of link l to replica u under way, with nothing left     *)
(* that could reject?                                                      *)
(***************************************************************************)
Pending(u, l) ==
  \E j \in jobs : j.kind = "diff" /\ j.u = u /\ l \in j.toAdd /\ j.pc # "ask"

(***************************************************************************)
(* No addition falls between the initial sync and the remote callback: a   *)
(* link the language holds and nobody ever asked to remove is in every     *)
(* replica whose engine has made its initial sync, or is on its way there  *)
(* (SyncEngine.start registers the callback before it syncs).              *)
(***************************************************************************)
NoMissedAddition ==
  \A e \in Engines, l \in net \ removing :
    LET u == engines[e].uuid IN
    engines[e].running /\ engines[e].pc \in {"revision", "done"} /\ Ensured(u)
      => l \in store[u] \/ Pending(u, l)

(***************************************************************************)
(* A link that validateLink rejects is in no store and is never shared:    *)
(* the store comes before the commit in every operation.                   *)
(***************************************************************************)
OnlyValidLinks ==
  /\ net \cap Bad = {}
  /\ \A u \in Uuids : store[u] \cap Bad = {}

(***************************************************************************)
(* Every link in a live perspective's store has been announced to the      *)
(* listeners, or a call that will announce it is under way, except the     *)
(* links of addSdna and of calls that failed half way.  The auto-save of   *)
(* the persistence layer hears of a change in no other way.                *)
(***************************************************************************)
NoSilentLink ==
  \A u \in Uuids : Ensured(u) =>
    \A l \in store[u] \ (removing \cup halfDone) :
      l \in view[u] \/ \E j \in jobs : j.u = u /\ l \in j.added

(***************************************************************************)
(* While a perspective is shared, its listeners are told of no link the    *)
(* link language has not taken: the commit is awaited before the emit,     *)
(* although ARCHITECTURE.md:386-395 announces a new link before it commits.*)
(***************************************************************************)
AnnouncedWhenAccepted ==
  [][\A u \in adapters : view'[u] \ view[u] \subseteq accepted]_vars

(***************************************************************************)
(* A removed perspective with no call and no engine left over stays as it  *)
(* is: nothing new can be started on it that would write to its links.     *)
(***************************************************************************)
Touching(u) ==
  \/ \E j \in jobs : j.u = u
  \/ \E e \in Engines : /\ engines[e].uuid = u
                        /\ engines[e].running \/ engines[e].pc \in {"sync", "revision"}

Gone(u) == handles[u] = "removed" /\ ~Touching(u)

NoWriteAfterRemoval ==
  [][\A u \in Uuids : Gone(u) => Gone(u)' /\ store'[u] = store[u]]_vars

(***************************************************************************)
(* A link nobody removes reaches every replica that keeps its engine       *)
(* running and is not removed itself, unless the start of the engine fails.*)
(***************************************************************************)
EventuallyReplicated ==
  \A u \in Uuids, l \in Links :
    (l \in net /\ u \in Live /\ Ensured(u))
      ~> \/ l \in store[u]
         \/ l \in removing
         \/ ~Ensured(u)
         \/ u \notin Live
         \/ engines[syncEngines[u]].pc = "failed"
=============================================================================
