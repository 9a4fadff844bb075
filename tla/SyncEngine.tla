----------------------------- MODULE SyncEngine -----------------------------
(***************************************************************************)
(* One SyncEngine object: start(), stop(), commit(), the adapter's state   *)
(* callback and the periodic timer, with the calls that are suspended at   *)
(* an await.  What the diffs do is left to the manager (onDiff).           *)
(***************************************************************************)
EXTENDS FiniteSets, Integers

CONSTANTS
  Starts,   \* calls of start()
  Commits,  \* calls of commit()
  Reports,  \* states the adapter's own state callback may report
  None      \* is no call of start()

VARIABLES
  running,
  syncState,
  start,         \* where each call of start() is
  commit,        \* where each call of commit() is
  syncInterval,  \* the field: the start() whose timer stop() will clear
  timers         \* the timers that exist: the start() that set each

vars == <<running, syncState, start, commit, syncInterval, timers>>

StartPc   == {"new", "sync", "revision", "done", "failed"}
SyncState == {"idle", "syncing", "synced", "error"} \cup Reports

TypeOK ==
  /\ running \in BOOLEAN
  /\ syncState \in SyncState
  /\ start \in [Starts -> StartPc]
  /\ commit \in [Commits -> {"new", "flight", "done"}]
  /\ syncInterval \in Starts \cup {None}
  /\ timers \subseteq Starts

Init ==
  /\ running = FALSE
  /\ syncState = "idle"
  /\ start = [c \in Starts |-> "new"]
  /\ commit = [k \in Commits |-> "new"]
  /\ syncInterval = None
  /\ timers = {}

(***************************************************************************)
(* start() on a running engine returns at once; otherwise it registers the *)
(* two callbacks and asks the adapter for its links.                       *)
(***************************************************************************)
Start(c) ==
  /\ start[c] = "new"
  /\ ~running
  /\ running' = TRUE
  /\ syncState' = "syncing"
  /\ start' = [start EXCEPT ![c] = "sync"]
  /\ UNCHANGED <<commit, syncInterval, timers>>

StartAgain(c) ==
  /\ start[c] = "new"
  /\ running
  /\ start' = [start EXCEPT ![c] = "done"]
  /\ UNCHANGED <<running, syncState, commit, syncInterval, timers>>

SyncReturns(c) ==
  /\ start[c] = "sync"
  /\ start' = [start EXCEPT ![c] = "revision"]
  /\ UNCHANGED <<running, syncState, commit, syncInterval, timers>>

(***************************************************************************)
(* start() goes on whether or not stop() was called in between.            *)
(***************************************************************************)
RevisionReturns(c) ==
  /\ start[c] = "revision"
  /\ start' = [start EXCEPT ![c] = "done"]
  /\ syncState' = "synced"
  /\ syncInterval' = c
  /\ timers' = timers \cup {c}
  /\ UNCHANGED <<running, commit>>

StartRejects(c) ==
  /\ start[c] \in {"sync", "revision"}
  /\ start' = [start EXCEPT ![c] = "failed"]
  /\ UNCHANGED <<running, syncState, commit, syncInterval, timers>>

(* Mutant: the field is reset and the timer not cleared. *)
Stop_TimerStays ==
  /\ running' = FALSE
  /\ syncState' = "idle"
  /\ syncInterval' = None
  /\ UNCHANGED <<start, commit, timers>>

Stop ==
  /\ running' = FALSE
  /\ syncState' = "idle"
  /\ timers' = timers \ {syncInterval}
  /\ syncInterval' = None
  /\ UNCHANGED <<start, commit>>

Commit(k) ==
  /\ running
  /\ commit[k] = "new"
  /\ syncState' = "syncing"
  /\ commit' = [commit EXCEPT ![k] = "flight"]
  /\ UNCHANGED <<running, start, syncInterval, timers>>

CommitReturns(k) ==
  /\ commit[k] = "flight"
  /\ syncState' \in {"synced", "error"}
  /\ commit' = [commit EXCEPT ![k] = "done"]
  /\ UNCHANGED <<running, start, syncInterval, timers>>

(***************************************************************************)
(* The adapter reports a state of its own; a stopped engine ignores it.    *)
(***************************************************************************)
AdapterReports(s) ==
  /\ running
  /\ syncState' = s
  /\ UNCHANGED <<running, start, commit, syncInterval, timers>>

(***************************************************************************)
(* The periodic timer only asks the adapter to sync and drops the answer:  *)
(* it changes nothing here.                                                *)
(***************************************************************************)
Next ==
  \/ \E c \in Starts : \/ Start(c)
                       \/ StartAgain(c)
                       \/ SyncReturns(c)
                       \/ RevisionReturns(c)
                       \/ StartRejects(c)
  \/ Stop
  \/ \E k \in Commits : Commit(k) \/ CommitReturns(k)
  \/ \E s \in Reports : AdapterReports(s)

Spec == Init /\ [][Next]_vars

-----------------------------------------------------------------------------
InFlight ==
  \/ \E c \in Starts : start[c] \in {"sync", "revision"}
  \/ \E k \in Commits : commit[k] = "flight"

(***************************************************************************)
(* What the test "stop() sets idle state and prevents further commits"     *)
(* says of a stopped engine: its state is idle.                            *)
(***************************************************************************)
StoppedIsIdle == ~running => syncState = "idle"
=============================================================================
