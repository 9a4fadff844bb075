---------------------------- MODULE MCSyncEngine ----------------------------
(***************************************************************************)
(* SyncEngine with a history variable: did a stop() ever come while a      *)
(* start() or a commit() was suspended?                                    *)
(***************************************************************************)
EXTENDS SyncEngine

VARIABLE outlived

HInit == Init /\ outlived = FALSE
HNext == Next /\ outlived' = (outlived \/ (InFlight /\ running /\ ~running'))
HSpec == HInit /\ [][HNext]_<<vars, outlived>>

(***************************************************************************)
(* An engine that was only ever stopped at rest has at most one timer, the *)
(* one stop() will clear, and none while it is stopped.                    *)
(***************************************************************************)
NoTimerLeak ==
  ~outlived => /\ timers \subseteq {syncInterval}
               /\ ~running => timers = {}

(***************************************************************************)
(* A running engine none of whose starts is pending or failed, and that    *)
(* was only ever stopped at rest, has its timer: it keeps asking the       *)
(* adapter to sync (the broadcast of its revision hangs on this).          *)
(***************************************************************************)
KeepsSyncing ==
  running /\ ~outlived /\ (\A c \in Starts : start[c] \in {"new", "done"})
    => syncInterval \in timers

(***************************************************************************)
(* An engine that is stopped and was only ever stopped at rest is idle.    *)
(***************************************************************************)
RestsWhenStopped == ~outlived /\ ~running => syncState = "idle"
=============================================================================
