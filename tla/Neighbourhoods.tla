--------------------------- MODULE Neighbourhoods ---------------------------
(***************************************************************************)
(* The neighbourhood manager: a perspective is published, or a perspective *)
(* made for a neighbourhood that is joined, around the perspective manager *)
(* (its handles and the engines of startSync) and the language manager.    *)
(* The expression of a neighbourhood is known by the call that published   *)
(* it; its URL is that of the expression.                                  *)
(***************************************************************************)
EXTENDS Languages

CONSTANTS
  Uuids,     \* of perspectives
  Shares,    \* the calls of publishFromPerspective and joinFromUrl: 1..n
  Happs,     \* the addresses whose bundle source embeds a hApp
  Direct     \* an instance that no language manager knows

ASSUME SharesAssumption == None \notin Shares

VARIABLES
  handles,   \* the handle of each perspective that was ever added
  present,   \* the perspectives that are in the map
  stored,    \* the language of each expression the content store has
  engines,   \* the instance each SyncEngine in the map is of, and the call
  shares     \* each call, and how far it has come

shareVars == <<handles, present, stored, engines, shares>>
vars == <<languageVars, shareVars>>

NoHandle == [state |-> "none", url |-> None, lang |-> None]
NoShare == [at |-> "none", uuid |-> None, lang |-> None, url |-> None]
NoEngine == [inst |-> None, by |-> None]

NInit ==
  /\ handles = [u \in Uuids |-> NoHandle]
  /\ present = {}
  /\ stored = [s \in Shares |-> None]
  /\ engines = [u \in Uuids |-> NoEngine]
  /\ shares = [s \in Shares |-> NoShare]

Init == LInit /\ NInit

Sharing(s, r) ==
  /\ shares[s].at = "none"
  /\ \A t \in Shares : t < s => shares[t].at # "none"
  /\ shares' = [shares EXCEPT ![s] = r]

(* add() makes a private perspective with a fresh uuid. *)
Add(u) ==
  /\ handles[u] = NoHandle
  /\ handles' = [handles EXCEPT ![u].state = "private"]
  /\ present' = present \cup {u}
  /\ UNCHANGED <<languageVars, stored, engines, shares>>

(* remove() keeps the engine in the map. *)
Remove(u) ==
  /\ u \in present
  /\ present' = present \ {u}
  /\ UNCHANGED <<languageVars, handles, stored, engines, shares>>

StopSync(u) ==
  /\ engines[u] # NoEngine
  /\ engines' = [engines EXCEPT ![u] = NoEngine]
  /\ UNCHANGED <<languageVars, handles, present, stored, shares>>

(* Mutant: the handle is Synced before the engine has started. *)
Wires_SyncedFirst(s, u, h, i, here) ==
  /\ handles' = [handles EXCEPT ![u] = [h EXCEPT !.state = "synced"]]
  /\ \/ /\ i = None
        /\ shares' = [shares EXCEPT ![s].at = "done", ![s].uuid = u]
        /\ UNCHANGED engines
     \/ /\ i # None /\ u \in here
        /\ shares' = [shares EXCEPT ![s].at = "starting", ![s].uuid = u]
        /\ engines' = IF engines[u] # NoEngine THEN engines
                      ELSE [engines EXCEPT ![u] = [inst |-> i, by |-> s]]

(***************************************************************************)
(* The end of both calls: startSync() with the adapter, and Synced when it *)
(* resolves; Synced at once when there is no adapter.  h is the handle as  *)
(* the code before it has left it.                                         *)
(***************************************************************************)
Wires(s, u, h, i, here) ==
  \/ /\ i = None
     /\ handles' = [handles EXCEPT ![u] = [h EXCEPT !.state = "synced"]]
     /\ shares' = [shares EXCEPT ![s].at = "done", ![s].uuid = u]
     /\ UNCHANGED engines
  \/ /\ i # None
     /\ handles' = [handles EXCEPT ![u] = h]
     /\ \/ /\ u \notin here
           /\ shares' = [shares EXCEPT ![s].at = "failed", ![s].uuid = u]
           /\ UNCHANGED engines
        \/ /\ u \in here
           /\ shares' = [shares EXCEPT ![s].at = "starting", ![s].uuid = u]
           /\ engines' = IF engines[u] # NoEngine THEN engines
                         ELSE [engines EXCEPT ![u] = [inst |-> i, by |-> s]]

(* engine.start() resolves or rejects; the engine stays either way. *)
Started(s) ==
  LET u == shares[s].uuid IN
  /\ shares[s].at = "starting"
  /\ \/ /\ shares' = [shares EXCEPT ![s].at = "done"]
        /\ handles' = [handles EXCEPT ![u].state = "synced"]
     \/ /\ shares' = [shares EXCEPT ![s].at = "failed"]
        /\ UNCHANGED handles
  /\ UNCHANGED <<languageVars, present, stored, engines>>

-----------------------------------------------------------------------------
Publish(s, u, a) ==
  /\ u \in present
  /\ Sharing(s, [at |-> "signing", uuid |-> u, lang |-> a, url |-> None])
  /\ UNCHANGED <<languageVars, handles, present, stored, engines>>

(* Mutant: the handle shows its URL before the expression is stored. *)
Signed_EarlyUrl(s) ==
  /\ shares[s].at = "signing"
  /\ handles' = [handles EXCEPT ![shares[s].uuid].url = s,
                                ![shares[s].uuid].lang = shares[s].lang]
  /\ shares' = [shares EXCEPT ![s].at = "putting"]
  /\ UNCHANGED <<languageVars, present, stored, engines>>

Signed(s) ==
  /\ shares[s].at = "signing"
  /\ \/ /\ handles' = [handles EXCEPT ![shares[s].uuid].state = "creationInitiated"]
        /\ shares' = [shares EXCEPT ![s].at = "putting"]
     \/ /\ shares' = [shares EXCEPT ![s].at = "failed"]
        /\ UNCHANGED handles
  /\ UNCHANGED <<languageVars, present, stored, engines>>

(* The language is looked up after the awaits. *)
Put(s) ==
  LET u == shares[s].uuid  a == shares[s].lang IN
  /\ shares[s].at = "putting"
  /\ \/ /\ stored' = [stored EXCEPT ![s] = a]
        /\ Wires(s, u, [handles[u] EXCEPT !.url = s, !.lang = a], loaded[a], present)
     \/ /\ shares' = [shares EXCEPT ![s].at = "failed"]
        /\ UNCHANGED <<handles, stored, engines>>
  /\ UNCHANGED <<languageVars, present>>

-----------------------------------------------------------------------------
Join(s, url) ==
  /\ Sharing(s, [at |-> "getting", uuid |-> None, lang |-> None, url |-> url])
  /\ UNCHANGED <<languageVars, handles, present, stored, engines>>

Joined(url) == [state |-> "joinInitiated", url |-> url, lang |-> stored[url]]

(***************************************************************************)
(* The expression is not there or cannot be read, or a perspective is made *)
(* for it.  A language that is not loaded is built from the hApp in its    *)
(* source, when it has one.  Left out is the source of the template the    *)
(* language was made from, which is taken when the language has metadata   *)
(* but no source of its own that can be read.                              *)
(***************************************************************************)
Got(s) ==
  LET url == shares[s].url  a == stored[url] IN
  /\ shares[s].at = "getting"
  /\ \/ /\ shares' = [shares EXCEPT ![s].at = "failed"]
        /\ UNCHANGED <<handles, present, engines>>
     \/ /\ a # None
        /\ \E u \in Uuids :
             /\ handles[u] = NoHandle
             /\ \A v \in Uuids : handles[v] = NoHandle => u <= v
             /\ present' = present \cup {u}
             /\ IF loaded[a] = None /\ sources[a] # None /\ a \in Happs
                THEN /\ handles' = [handles EXCEPT ![u] = Joined(url)]
                     /\ shares' = [shares EXCEPT ![s].at = "building", ![s].uuid = u]
                     /\ UNCHANGED engines
                ELSE Wires(s, u, Joined(url), loaded[a], present')
  /\ UNCHANGED <<languageVars, stored>>

(* createPDiffSyncLanguage() registers the hApp: it resolves or rejects. *)
Built(s) ==
  LET u == shares[s].uuid IN
  /\ shares[s].at = "building"
  /\ \/ Wires(s, u, handles[u], Direct, present)
     \/ shares' = [shares EXCEPT ![s].at = "failed"] /\ UNCHANGED <<handles, engines>>
  /\ UNCHANGED <<languageVars, present, stored>>

Next ==
  \/ LNext /\ UNCHANGED shareVars
  \/ \E u \in Uuids : Add(u) \/ Remove(u) \/ StopSync(u)
  \/ \E s \in Shares :
       \/ Signed(s) \/ Put(s) \/ Got(s) \/ Built(s) \/ Started(s)
       \/ \E u \in Uuids, a \in Addresses : Publish(s, u, a)
       \/ \E url \in Shares : Join(s, url)

Spec == Init /\ [][Next]_vars

-----------------------------------------------------------------------------
(***************************************************************************)
(* A URL that a perspective shows can be joined: the content store has the *)
(* expression, and it names the language the perspective holds.            *)
(***************************************************************************)
SharedCanBeJoined ==
  \A u \in Uuids : handles[u].url # None =>
    stored[handles[u].url] # None /\ stored[handles[u].url] = handles[u].lang

(***************************************************************************)
(* A perspective that one call was made for is Synced only when the engine *)
(* it has was started: an engine that is still starting, or that failed to *)
(* start, does not make it so.                                             *)
(***************************************************************************)
CallsFor(u) == {s \in Shares : shares[s].uuid = u}

SyncedAfterStart ==
  \A u \in Uuids :
    /\ handles[u].state = "synced"
    /\ engines[u] # NoEngine
    /\ CallsFor(u) = {engines[u].by}
    => shares[engines[u].by].at = "done"
=============================================================================
