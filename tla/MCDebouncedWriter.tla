------------------------- MODULE MCDebouncedWriter -------------------------
(***************************************************************************)
(* DebouncedWriter with something to write: a value that changes with      *)
(* every markDirty, of which a run of the write function takes a copy when *)
(* it begins and stores it when it resolves.                               *)
(***************************************************************************)
EXTENDS DebouncedWriter, Naturals

CONSTANT MaxMarks    \* bound on the changes of the value

VARIABLES
  value,
  copy,      \* the copy the last run took
  written,   \* the value the last resolved run stored
  dropped    \* history: did a run reject, or stop() forget a change?

dataVars == <<value, copy, written, dropped>>
vars == <<writerVars, dataVars>>

Copies == copy' = IF Writes THEN value ELSE copy

Marks ==
  /\ MarkDirty
  /\ value < MaxMarks
  /\ value' = value + 1
  /\ UNCHANGED <<copy, written, dropped>>

Fires   == TimerFires /\ Copies /\ UNCHANGED <<value, written, dropped>>
Flushes == Flush /\ Copies /\ UNCHANGED <<value, written, dropped>>

Resolves ==
  /\ WriteEnds
  /\ written' = copy
  /\ UNCHANGED <<value, copy, dropped>>

Rejects ==
  /\ WriteEnds
  /\ dropped' = TRUE
  /\ UNCHANGED <<value, copy, written>>

Stops ==
  /\ StopWriter
  /\ dropped' = (dropped \/ dirty)
  /\ UNCHANGED <<value, copy, written>>

Init ==
  /\ WriterInit
  /\ value = 0 /\ copy = 0 /\ written = 0
  /\ dropped = FALSE

Next == Marks \/ Fires \/ Flushes \/ Resolves \/ Rejects \/ Stops

Spec == Init /\ [][Next]_vars

(***************************************************************************)
(* Timers fire and runs of the write function end.                         *)
(***************************************************************************)
Fairness == WF_vars(Fires) /\ WF_vars(Resolves \/ Rejects)

FairSpec == Spec /\ Fairness

(***************************************************************************)
(* A writer at rest that has no change to write has written every change:  *)
(* a change made while a run is under way is not taken for written.        *)
(***************************************************************************)
RestIsWritten == ~dirty /\ ~writing /\ ~dropped => written = value

(***************************************************************************)
(* A change made while no run is under way, the timer pending, is written, *)
(* whatever is changed and flushed meanwhile, unless a run rejects or the  *)
(* writer is stopped.                                                      *)
(***************************************************************************)
TimedChangeIsWritten ==
  \A v \in 1 .. MaxMarks :
    (value = v /\ dirty /\ timer /\ ~writing) ~> (written >= v \/ dropped)

(***************************************************************************)
(* "marks state dirty, and flushes via a debounced writer (default 2s      *)
(* interval)" (ARCHITECTURE.md, IndexedDB Persistence): what is marked     *)
(* dirty is written, unless a run rejects or the writer is stopped.        *)
(***************************************************************************)
DirtyIsWritten == dirty ~> (~dirty \/ dropped)
=============================================================================
