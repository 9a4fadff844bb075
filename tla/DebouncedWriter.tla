-------------------------- MODULE DebouncedWriter --------------------------
(***************************************************************************)
(* createDebouncedWriter: a dirty flag, one timer and at most one run of   *)
(* the write function.  What a run has to do is left to the user of the    *)
(* module: a run is under way from a step with Writes to the step          *)
(* WriteEnds.                                                              *)
(***************************************************************************)
VARIABLES
  dirty,
  timer,     \* is a timeout pending?
  writing

writerVars == <<dirty, timer, writing>>

WriterTypeOK == dirty \in BOOLEAN /\ timer \in BOOLEAN /\ writing \in BOOLEAN

WriterInit == dirty = FALSE /\ timer = FALSE /\ writing = FALSE

MarkDirty ==
  /\ dirty' = TRUE
  /\ timer' = TRUE
  /\ UNCHANGED writing

(* Mutant: the timer is still set when doWrite looks. *)
Writes_TimerSet == dirty /\ ~writing /\ ~timer

(***************************************************************************)
(* doWrite calls the write function only when there is something to write  *)
(* and no run of it is under way.                                          *)
(***************************************************************************)
Writes == dirty /\ ~writing

DoWrite ==
  IF Writes
    THEN dirty' = FALSE /\ writing' = TRUE
    ELSE UNCHANGED <<dirty, writing>>

TimerFires ==
  /\ timer
  /\ timer' = FALSE
  /\ DoWrite

(***************************************************************************)
(* flush clears the timer and does at once what the timer would have done. *)
(***************************************************************************)
Flush ==
  /\ timer' = FALSE
  /\ DoWrite

(* Mutant: the dirty flag is cleared when the run ends. *)
WriteEnds_Clears ==
  /\ writing
  /\ writing' = FALSE
  /\ dirty' = FALSE
  /\ UNCHANGED timer

(***************************************************************************)
(* The write function resolves or rejects.                                 *)
(***************************************************************************)
WriteEnds ==
  /\ writing
  /\ writing' = FALSE
  /\ UNCHANGED <<dirty, timer>>

StopWriter ==
  /\ timer' = FALSE
  /\ dirty' = FALSE
  /\ UNCHANGED writing
=============================================================================
