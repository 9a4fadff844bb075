-------------------------- MODULE MCObjects_proofs --------------------------
(***************************************************************************)
(* For any number of calls, saves and registrations: the timers of a sync  *)
(* engine, what a debounced writer and the persistence coordinator at rest *)
(* have written, what survives crashes and reloads, how the calls of a     *)
(* transport settle, and the signer of the calls to the cells of a         *)
(* delegate.                                                               *)
(***************************************************************************)
EXTENDS MCObjects, SequenceTheorems, TLAPS

-----------------------------------------------------------------------------
(***************************************************************************)
(* The sync engine.  As long as no stop() outran a start() or a commit():  *)
(* a stopped engine is at rest; at most one start() is under way, and no   *)
(* timer exists while one is; there is at most the timer the field knows,  *)
(* and there is one once the starts are over.                              *)
(***************************************************************************)
StartsUnderWay == {c \in Starts : start[c] \in {"sync", "revision"}}

EngineInv ==
  ~outlived =>
    /\ ~running => ~Engine!InFlight /\ timers = {} /\ syncState = "idle"
    /\ \A c, d \in StartsUnderWay : c = d
    /\ StartsUnderWay # {} => timers = {}
    /\ timers \subseteq {syncInterval}
    /\ running /\ (\A c \in Starts : start[c] \in {"new", "done"}) => syncInterval \in timers

EngineTypeOK ==
  /\ start \in [Starts -> Engine!StartPc]
  /\ commit \in [Commits -> {"new", "flight", "done"}]

LEMMA EngineInit == Engine!HInit => EngineTypeOK /\ EngineInv
BY DEF Engine!HInit, Engine!Init, Engine!StartPc, Engine!InFlight, EngineTypeOK, EngineInv,
       StartsUnderWay

LEMMA EngineStep ==
  EngineTypeOK /\ EngineInv /\ (Engine!HNext \/ UNCHANGED engineVars)
    => EngineTypeOK' /\ EngineInv'
<1> SUFFICES ASSUME EngineTypeOK, EngineInv, Engine!HNext \/ UNCHANGED engineVars
             PROVE  EngineTypeOK' /\ EngineInv'
  OBVIOUS
<1>1. EngineTypeOK'
  BY DEF EngineTypeOK, engineVars, Engine!HNext, Engine!Next, Engine!Start,
         Engine!StartAgain, Engine!SyncReturns, Engine!RevisionReturns,
         Engine!StartRejects, Engine!Stop, Engine!Commit, Engine!CommitReturns,
         Engine!AdapterReports, Engine!StartPc
<1> USE DEF EngineTypeOK, EngineInv, StartsUnderWay, Engine!InFlight, Engine!StartPc
<1>2. CASE Engine!HNext
  <2>1. ASSUME ~outlived'
        PROVE  ~outlived /\ (running /\ ~running' => ~Engine!InFlight)
    BY <1>2, <2>1 DEF Engine!HNext
  <2>2. ASSUME NEW c \in Starts, Engine!Start(c)
        PROVE  EngineInv'
    BY <2>1, <2>2 DEF Engine!Start
  <2>3. ASSUME NEW c \in Starts, Engine!StartAgain(c)
        PROVE  EngineInv'
    BY <2>1, <2>3 DEF Engine!StartAgain
  <2>4. ASSUME NEW c \in Starts, Engine!SyncReturns(c)
        PROVE  EngineInv'
    BY <2>1, <2>4 DEF Engine!SyncReturns
  <2>5. ASSUME NEW c \in Starts, Engine!RevisionReturns(c)
        PROVE  EngineInv'
    BY <2>1, <2>5 DEF Engine!RevisionReturns
  <2>6. ASSUME NEW c \in Starts, Engine!StartRejects(c)
        PROVE  EngineInv'
    BY <2>1, <2>6 DEF Engine!StartRejects
  <2>7. CASE Engine!Stop
    BY <2>1, <2>7 DEF Engine!Stop
  <2>8. ASSUME NEW k \in Commits, Engine!Commit(k) \/ Engine!CommitReturns(k)
        PROVE  EngineInv'
    BY <2>1, <2>8 DEF Engine!Commit, Engine!CommitReturns
  <2>9. ASSUME NEW s \in Reports, Engine!AdapterReports(s)
        PROVE  EngineInv'
    BY <2>1, <2>9 DEF Engine!AdapterReports
  <2> QED
    BY <1>1, <1>2, <2>2, <2>3, <2>4, <2>5, <2>6, <2>7, <2>8, <2>9
       DEF Engine!HNext, Engine!Next
<1>3. CASE UNCHANGED engineVars
  BY <1>1, <1>3 DEF engineVars
<1> QED
  BY <1>2, <1>3

(***************************************************************************)
(* What stop() can clear is all there is: an engine that was only ever     *)
(* stopped at rest has at most the timer its field knows, keeps it while   *)
(* it runs, and is idle with no timer after stop() (start, stop, commit).  *)
(***************************************************************************)
THEOREM TimersOfEngineCorrect == OSpec => []TimersOfEngine
<1>1. OInit => EngineTypeOK /\ EngineInv
  BY EngineInit DEF OInit
<1>2. EngineTypeOK /\ EngineInv /\ [ONext]_ovars => (EngineTypeOK /\ EngineInv)'
  <2>1. [ONext]_ovars => Engine!HNext \/ UNCHANGED engineVars
    BY DEF ONext, Others, ovars
  <2> QED
    BY <2>1, EngineStep
<1>3. EngineInv => TimersOfEngine
  BY DEF EngineInv, StartsUnderWay, TimersOfEngine, Engine!NoTimerLeak,
         Engine!KeepsSyncing, Engine!RestsWhenStopped
<1> QED
  BY <1>1, <1>2, <1>3, PTL DEF OSpec

-----------------------------------------------------------------------------
(***************************************************************************)
(* The debounced writer: with nothing dirty, the run under way has a copy  *)
(* of the value, and with no run under way the value is written.           *)
(***************************************************************************)
WriterInv ==
  ~dropped /\ ~dirty => (writing => copy = value) /\ (~writing => written = value)

LEMMA WriterStep == WriterInv /\ (Writer!Next \/ UNCHANGED writerVars) => WriterInv'
<1> SUFFICES ASSUME WriterInv, Writer!Next \/ UNCHANGED writerVars
             PROVE  WriterInv'
  OBVIOUS
<1> USE DEF WriterInv, Writer!DoWrite, Writer!Writes, Writer!Copies, Writer!TimerFires,
            Writer!Flush, Writer!WriteEnds, Writer!MarkDirty, Writer!StopWriter
<1>1. CASE Writer!Fires \/ Writer!Flushes
  BY <1>1 DEF Writer!Fires, Writer!Flushes
<1>2. CASE Writer!Resolves \/ Writer!Rejects
  BY <1>2 DEF Writer!Resolves, Writer!Rejects
<1>3. CASE Writer!Marks \/ Writer!Stops
  BY <1>3 DEF Writer!Marks, Writer!Stops
<1>4. CASE UNCHANGED writerVars
  BY <1>4 DEF writerVars
<1> QED
  BY <1>1, <1>2, <1>3, <1>4 DEF Writer!Next

(***************************************************************************)
(* A change made while a run of the write function is under way is not     *)
(* taken for written: doWrite clears the flag before it takes the copy,    *)
(* and a later change sets it again.                                       *)
(***************************************************************************)
THEOREM RestIsWrittenCorrect == OSpec => []RestIsWritten
<1>1. OInit => WriterInv
  BY DEF OInit, Writer!Init, Writer!WriterInit, WriterInv
<1>2. WriterInv /\ [ONext]_ovars => WriterInv'
  <2>1. [ONext]_ovars => Writer!Next \/ UNCHANGED writerVars
    BY DEF ONext, Others, ovars
  <2> QED
    BY <2>1, WriterStep
<1>3. WriterInv => RestIsWritten
  BY DEF WriterInv, RestIsWritten, Writer!RestIsWritten
<1> QED
  BY <1>1, <1>2, <1>3, PTL DEF OSpec

-----------------------------------------------------------------------------
(***************************************************************************)
(* The persistence coordinator.                                            *)
(***************************************************************************)
SavedTypeOK ==
  /\ saves \in [Saves -> Saved!Save]
  /\ disk \in [agent : BOOLEAN, handles : SUBSET Uuids, links : SUBSET Saved!Pairs]
  /\ agent \in BOOLEAN
  /\ handles \subseteq Uuids
  /\ links \subseteq Saved!Pairs

(* The runs of saveState are those of the page that is up. *)
SavesOfPage ==
  /\ Saved!Active # {} => mode = "up"
  /\ ~saveOverlapped => \A s, t \in Saved!Active : s = t

(***************************************************************************)
(* The next links to be put are read from a memory that has all the links  *)
(* a save has completed with, and that lose one only when it is removed.   *)
(***************************************************************************)
DurableInv ==
  ~saveOverlapped =>
    /\ durable \subseteq disk.links
    /\ mode = "up" => durable \subseteq links
    /\ \A s \in Saves : saves[s].pc = "links" => durable \subseteq saves[s].links

(***************************************************************************)
(* A and B differ in links whose event is still to come, or never comes.   *)
(***************************************************************************)
Alike(A, B) == \A p \in Saved!Pairs \ (unsaid \cup silent) : p \in A <=> p \in B

(***************************************************************************)
(* With nothing dirty, what was read for the put under way, and what was   *)
(* put before it, is what memory holds: a change would have set the flag.  *)
(***************************************************************************)
FreshInv ==
  /\ mode = "loading" => handles = disk.handles
  /\ mode = "up" /\ ~saveDirty /\ ~troubled /\ ~saveOverlapped =>
       /\ Saved!Active = {} => disk.handles = handles /\ Alike(disk.links, links)
       /\ \A s \in Saves :
            /\ saves[s].pc = "handles" => saves[s].handles = handles
            /\ saves[s].pc = "links" =>
                 disk.handles = handles /\ Alike(saves[s].links, links)

SavedInv == SavedTypeOK /\ SavesOfPage /\ DurableInv /\ FreshInv

(***************************************************************************)
(* A step of one run of saveState changes its record, and no other.        *)
(***************************************************************************)
LEMMA SaveGoesOn ==
  ASSUME SavedTypeOK, NEW s \in Saves, NEW r \in Saved!Save, saves' = [saves EXCEPT ![s] = r]
  PROVE  /\ saves' \in [Saves -> Saved!Save]
         /\ saves'[s] = r
         /\ \A t \in Saves \ {s} : saves'[t] = saves[t]
         /\ Saved!Active' = IF r.pc = "idle" THEN Saved!Active \ {s}
                            ELSE Saved!Active \cup {s}
BY DEF SavedTypeOK, Saved!Active

LEMMA SavedInit == Saved!Init => SavedInv
<1> SUFFICES ASSUME Saved!Init
             PROVE  SavedInv
  OBVIOUS
<1> USE DEF Saved!Init, Saved!Idle
<1>1. SavedTypeOK
  BY DEF SavedTypeOK, Saved!Save
<1>2. SavesOfPage /\ DurableInv /\ FreshInv
  BY DEF SavesOfPage, DurableInv, FreshInv, Saved!Active
<1> QED
  BY <1>1, <1>2 DEF SavedInv

(***************************************************************************)
(* The writer's timer is only set by a listener, and that is the page's.   *)
(***************************************************************************)
WriterOfPage == auto \/ saveTimer => mode = "up"

LEMMA WriterOfPageStep ==
  WriterOfPage /\ (Saved!Next \/ UNCHANGED saveVars) => WriterOfPage'
<1> SUFFICES ASSUME WriterOfPage, Saved!Next \/ UNCHANGED saveVars
             PROVE  WriterOfPage'
  OBVIOUS
<1> USE DEF WriterOfPage, Saved!memory, Saved!history, Saved!writerVars
<1>1. CASE Saved!LoadHandles \/ Saved!LoadLinks \/ Saved!Close
  BY <1>1 DEF Saved!LoadHandles, Saved!LoadLinks, Saved!Close
<1>2. CASE Saved!Change
  BY <1>2 DEF Saved!Change, Saved!Generate, Saved!AddPerspective,
              Saved!RemovePerspective, Saved!AddLink, Saved!Signed, Saved!RemoveLink,
              Saved!EmitLink, Saved!AddSdna, Saved!Emit, Saved!MarkDirty
<1>3. CASE Saved!TimerIdles
  BY <1>3 DEF Saved!TimerIdles, Saved!TimerFires
<1>4. ASSUME NEW s \in Saves, Saved!SaveState(s) \/ Saved!AutoSave(s)
      PROVE  WriterOfPage'
  BY <1>4 DEF Saved!SaveState, Saved!AutoSave, Saved!TimerFires
<1>5. ASSUME NEW s \in Saves, Saved!Saving(s) \/ Saved!SaveRejects(s)
      PROVE  WriterOfPage'
  BY <1>5 DEF Saved!Saving, Saved!SaveRejects, Saved!AgentSaved, Saved!HandlesSaved,
              Saved!LinksSaved, Saved!Returns, Saved!WriteEnds
<1>6. CASE Saved!StartAutoSave \/ Saved!StopAutoSave
  BY <1>6 DEF Saved!StartAutoSave, Saved!StopAutoSave
<1>7. CASE UNCHANGED saveVars
  BY <1>7 DEF saveVars
<1> QED
  BY <1>1, <1>2, <1>3, <1>4, <1>5, <1>6, <1>7 DEF Saved!Next

LEMMA SavedStep ==
  SavedInv /\ WriterOfPage /\ (Saved!Next \/ UNCHANGED saveVars) => SavedInv'
<1> SUFFICES ASSUME SavedInv, WriterOfPage, Saved!Next \/ UNCHANGED saveVars
             PROVE  SavedInv'
  OBVIOUS
<1> USE DEF Saved!memory, Saved!history, Saved!writerVars
(* The page, and what does not change what the runs have read. *)
<1>1. CASE Saved!LoadHandles \/ Saved!LoadLinks
  BY <1>1 DEF Saved!LoadHandles, Saved!LoadLinks, SavedInv, SavedTypeOK, SavesOfPage,
              DurableInv, FreshInv, Alike, Saved!Active
<1>2. CASE Saved!Close
  BY <1>2 DEF Saved!Close, SavedInv, SavedTypeOK, SavesOfPage, DurableInv, FreshInv,
              Alike, Saved!Active, Saved!Idle, Saved!Save
<1>3. ASSUME UNCHANGED <<mode, handles, links, unsaid, disk, saves, silent, durable,
                         saveOverlapped>>,
             agent' \in BOOLEAN,
             \/ saveDirty' = saveDirty /\ troubled' = troubled
             \/ saveDirty' \/ troubled'
      PROVE  SavedInv'
  BY <1>3 DEF SavedInv, SavedTypeOK, SavesOfPage, DurableInv, FreshInv, Alike,
              Saved!Active
<1>4. CASE Saved!Generate \/ Saved!TimerIdles \/ Saved!StartAutoSave
  BY <1>4, <1>3 DEF Saved!Generate, Saved!TimerIdles, Saved!TimerFires, Saved!DoWrite,
                    Saved!StartAutoSave, SavedInv, SavedTypeOK
(* The calls that change what is in memory. *)
<1>5. ASSUME Saved!Emit
      PROVE  saveDirty' \/ troubled'
  BY <1>5 DEF Saved!Emit, Saved!MarkDirty
<1>6. ASSUME NEW u \in Uuids, Saved!AddPerspective(u) \/ Saved!RemovePerspective(u)
      PROVE  SavedInv'
  <2>1. /\ mode = "up" /\ (saveDirty' \/ troubled')
        /\ UNCHANGED <<mode, agent, disk, saves, saveOverlapped>>
        /\ handles' \subseteq Uuids /\ links' \subseteq Saved!Pairs
        /\ durable' \subseteq durable
        /\ durable \subseteq links => durable' \subseteq links'
    BY <1>5, <1>6 DEF Saved!AddPerspective, Saved!RemovePerspective, SavedInv, SavedTypeOK
  <2> QED
    BY <2>1 DEF SavedInv, SavedTypeOK, SavesOfPage, DurableInv, FreshInv, Saved!Active
<1>7. ASSUME NEW p \in Saved!Pairs,
             Saved!Signed(p) \/ Saved!RemoveLink(p) \/ Saved!AddSdna(p)
      PROVE  SavedInv'
  <2>1. /\ UNCHANGED <<mode, agent, handles, disk, saves, saveOverlapped, saveDirty, troubled>>
        /\ links' \subseteq Saved!Pairs
        /\ durable' \subseteq durable
        /\ durable \subseteq links => durable' \subseteq links'
        /\ unsaid' \cup silent' = unsaid \cup silent \cup {p}
        /\ \A q \in Saved!Pairs \ {p} : q \in links' <=> q \in links
    BY <1>7 DEF Saved!Signed, Saved!RemoveLink, Saved!AddSdna, SavedInv, SavedTypeOK
  <2>2. SavedTypeOK' /\ SavesOfPage' /\ DurableInv'
    BY <2>1 DEF SavedInv, SavedTypeOK, SavesOfPage, DurableInv, Saved!Active
  <2>3. FreshInv'
    BY <2>1 DEF SavedInv, FreshInv, Alike, Saved!Active
  <2> QED
    BY <2>2, <2>3 DEF SavedInv
<1>8. ASSUME NEW p \in Saved!Pairs, Saved!EmitLink(p)
      PROVE  SavedInv'
  BY <1>5, <1>8 DEF Saved!EmitLink, SavedInv, SavedTypeOK, SavesOfPage, DurableInv,
                    FreshInv, Saved!Active
(* The runs of saveState. *)
<1>9. ASSUME NEW s \in Saves, Saved!SaveState(s) \/ Saved!AutoSave(s)
      PROVE  SavedInv'
  <2>1. PICK mine \in BOOLEAN : Saved!Begin(s, mine)
    BY <1>9 DEF Saved!SaveState, Saved!AutoSave
  <2> DEFINE r == [Saved!Idle EXCEPT !.pc = "agent", !.mine = mine, !.agent = agent]
  <2>2. /\ r \in Saved!Save /\ r.pc = "agent"
        /\ saves' = [saves EXCEPT ![s] = r]
        /\ saves[s].pc = "idle"
        /\ ~saveOverlapped' => ~saveOverlapped /\ Saved!Active = {}
    BY <2>1 DEF Saved!Begin, Saved!Idle, Saved!Save, SavedInv, SavedTypeOK
  <2>3. /\ UNCHANGED <<agent, handles, links, unsaid, disk, silent, durable, troubled, mode>>
        /\ mode = "up"
    BY <1>9 DEF Saved!SaveState, Saved!AutoSave, Saved!TimerFires, WriterOfPage
  <2> HIDE DEF r
  <2>4. /\ SavedTypeOK'
        /\ saves'[s] = r
        /\ \A t \in Saves \ {s} : saves'[t] = saves[t]
        /\ Saved!Active' = Saved!Active \cup {s}
    BY <2>2, <2>3, SaveGoesOn DEF SavedInv, SavedTypeOK
  <2>5. SavesOfPage'
    BY <2>2, <2>3, <2>4 DEF SavesOfPage
  <2>6. DurableInv'
    BY <2>2, <2>3, <2>4 DEF SavedInv, DurableInv
  <2>7. FreshInv'
    BY <2>2, <2>3, <2>4 DEF SavedInv, FreshInv, Saved!Active
  <2> QED
    BY <2>4, <2>5, <2>6, <2>7 DEF SavedInv
(* The run that is under way is the only one, or runs have overlapped. *)
<1>10. ASSUME NEW s \in Saved!Active, ~saveOverlapped
       PROVE  mode = "up" /\ Saved!Active = {s}
  BY <1>10 DEF SavedInv, SavesOfPage
<1>11. ASSUME NEW s \in Saves, Saved!AgentSaved(s)
       PROVE  SavedInv'
  <2> DEFINE r == [saves[s] EXCEPT !.pc = "handles", !.handles = handles]
  <2>1. /\ r \in Saved!Save /\ r.pc = "handles" /\ r.handles = handles
        /\ saves' = [saves EXCEPT ![s] = r]
        /\ saves[s].pc = "agent"
    BY <1>11 DEF Saved!AgentSaved, SavedInv, SavedTypeOK, Saved!Save
  <2>2. /\ disk' \in [agent : BOOLEAN, handles : SUBSET Uuids, links : SUBSET Saved!Pairs]
        /\ disk'.handles = disk.handles /\ disk'.links = disk.links
    BY <1>11 DEF Saved!AgentSaved, SavedInv, SavedTypeOK, Saved!Save
  <2>3. UNCHANGED <<agent, handles, links, unsaid, silent, durable, troubled, mode, saveDirty,
                    saveOverlapped>>
    BY <1>11 DEF Saved!AgentSaved
  <2> HIDE DEF r
  <2>4. /\ SavedTypeOK' /\ s \in Saved!Active
        /\ saves'[s] = r
        /\ \A t \in Saves \ {s} : saves'[t] = saves[t]
        /\ Saved!Active' = Saved!Active
    BY <2>1, <2>2, <2>3, SaveGoesOn DEF SavedInv, SavedTypeOK, Saved!Active
  <2>5. SavesOfPage'
    BY <2>3, <2>4 DEF SavedInv, SavesOfPage
  <2>6. DurableInv'
    BY <2>1, <2>2, <2>3, <2>4 DEF SavedInv, DurableInv
  <2>7. FreshInv'
    BY <2>1, <2>2, <2>3, <2>4, <1>10 DEF SavedInv, FreshInv, Alike, Saved!Active
  <2> QED
    BY <2>4, <2>5, <2>6, <2>7 DEF SavedInv
<1>12. ASSUME NEW s \in Saves, Saved!HandlesSaved(s)
       PROVE  SavedInv'
  <2> DEFINE r == [saves[s] EXCEPT !.pc = "links", !.links = links]
  <2>1. /\ r \in Saved!Save /\ r.pc = "links" /\ r.links = links
        /\ saves' = [saves EXCEPT ![s] = r]
        /\ saves[s].pc = "handles"
    BY <1>12 DEF Saved!HandlesSaved, SavedInv, SavedTypeOK, Saved!Save
  <2>2. /\ disk' \in [agent : BOOLEAN, handles : SUBSET Uuids, links : SUBSET Saved!Pairs]
        /\ disk'.handles = saves[s].handles /\ disk'.links = disk.links
    BY <1>12 DEF Saved!HandlesSaved, SavedInv, SavedTypeOK, Saved!Save
  <2>3. UNCHANGED <<agent, handles, links, unsaid, silent, durable, troubled, mode, saveDirty,
                    saveOverlapped>>
    BY <1>12 DEF Saved!HandlesSaved
  <2> HIDE DEF r
  <2>4. /\ SavedTypeOK' /\ s \in Saved!Active
        /\ saves'[s] = r
        /\ \A t \in Saves \ {s} : saves'[t] = saves[t]
        /\ Saved!Active' = Saved!Active
    BY <2>1, <2>2, <2>3, SaveGoesOn DEF SavedInv, SavedTypeOK, Saved!Active
  <2>5. SavesOfPage'
    BY <2>3, <2>4 DEF SavedInv, SavesOfPage
  <2>6. DurableInv'
    BY <2>1, <2>2, <2>3, <2>4, <1>10 DEF SavedInv, DurableInv
  <2>7. FreshInv'
    BY <2>1, <2>2, <2>3, <2>4, <1>10 DEF SavedInv, FreshInv, Alike, Saved!Active, SavesOfPage
  <2> QED
    BY <2>4, <2>5, <2>6, <2>7 DEF SavedInv
(* A run ends: its links are put, or it is refused. *)
<1>13. ASSUME NEW s \in Saves, Saved!LinksSaved(s) \/ Saved!SaveRejects(s)
       PROVE  SavedInv'
  <2> DEFINE r == Saved!Idle
  <2>1. /\ r \in Saved!Save /\ r.pc = "idle"
        /\ saves' = [saves EXCEPT ![s] = r]
        /\ saves[s].pc # "idle"
    BY <1>13 DEF Saved!LinksSaved, Saved!SaveRejects, Saved!Idle, Saved!Save
  <2>2. \/ /\ saves[s].pc = "links"
           /\ disk' \in [agent : BOOLEAN, handles : SUBSET Uuids,
                         links : SUBSET Saved!Pairs]
           /\ disk'.handles = disk.handles /\ disk'.links = saves[s].links
           /\ durable' = durable \cup (saves[s].links \cap links)
           /\ UNCHANGED troubled
        \/ troubled' /\ UNCHANGED <<disk, durable>>
    BY <1>13 DEF Saved!LinksSaved, Saved!SaveRejects, SavedInv, SavedTypeOK, Saved!Save
  <2>3. UNCHANGED <<agent, handles, links, unsaid, silent, mode, saveDirty, saveOverlapped>>
    BY <1>13 DEF Saved!LinksSaved, Saved!SaveRejects, Saved!Returns, Saved!WriteEnds
  <2> HIDE DEF r
  <2>4. /\ SavedTypeOK' /\ s \in Saved!Active
        /\ saves'[s] = r
        /\ \A t \in Saves \ {s} : saves'[t] = saves[t]
        /\ Saved!Active' = Saved!Active \ {s}
    BY <2>1, <2>2, <2>3, SaveGoesOn DEF SavedInv, SavedTypeOK, Saved!Active
  <2>5. SavesOfPage'
    BY <2>3, <2>4 DEF SavedInv, SavesOfPage
  <2>6. DurableInv'
    BY <2>1, <2>2, <2>3, <2>4, <1>10 DEF SavedInv, DurableInv, Saved!Active
  <2>7. FreshInv'
    BY <2>1, <2>2, <2>3, <2>4, <1>10 DEF SavedInv, FreshInv, Alike, Saved!Active
  <2> QED
    BY <2>4, <2>5, <2>6, <2>7 DEF SavedInv
<1>14. CASE Saved!StopAutoSave
  <2>1. /\ saves' = [s \in Saves |-> [saves[s] EXCEPT !.mine = FALSE]]
        /\ UNCHANGED <<mode, agent, handles, links, unsaid, disk, silent, durable,
                       saveOverlapped>>
        /\ saveDirty => troubled'
        /\ ~troubled' => ~troubled /\ ~saveDirty
    BY <1>14 DEF Saved!StopAutoSave
  <2>2. /\ saves' \in [Saves -> Saved!Save]
        /\ \A s \in Saves : /\ saves'[s].pc = saves[s].pc
                             /\ saves'[s].handles = saves[s].handles
                             /\ saves'[s].links = saves[s].links
    <3>1. saves \in [Saves -> Saved!Save]
      BY DEF SavedInv, SavedTypeOK
    <3>2. ASSUME NEW r \in Saved!Save
          PROVE  /\ [r EXCEPT !.mine = FALSE] \in Saved!Save
                 /\ [r EXCEPT !.mine = FALSE].pc = r.pc
                 /\ [r EXCEPT !.mine = FALSE].handles = r.handles
                 /\ [r EXCEPT !.mine = FALSE].links = r.links
      BY DEF Saved!Save
    <3> QED
      BY <2>1, <3>1, <3>2
  <2>3. Saved!Active' = Saved!Active
    BY <2>2 DEF Saved!Active
  <2> QED
    BY <2>1, <2>2, <2>3 DEF SavedInv, SavedTypeOK, SavesOfPage, DurableInv, FreshInv, Alike
<1>15. ASSUME NEW p \in Saved!Pairs, Saved!AddLink(p)
       PROVE  SavedInv'
  BY <1>15, <1>3 DEF Saved!AddLink, SavedInv, SavedTypeOK
<1>16. CASE UNCHANGED saveVars
  BY <1>16, <1>3 DEF saveVars, SavedInv, SavedTypeOK
<1> QED
  BY <1>1, <1>2, <1>4, <1>6, <1>7, <1>8, <1>9, <1>11, <1>12, <1>13, <1>14, <1>15, <1>16
     DEF Saved!Next, Saved!Change, Saved!Saving

LEMMA SavedInvariant == OSpec => []SavedInv
<1>1. OInit => SavedInv /\ WriterOfPage
  BY SavedInit DEF OInit, Saved!Init, Saved!WriterInit, WriterOfPage
<1>2. SavedInv /\ WriterOfPage /\ [ONext]_ovars => (SavedInv /\ WriterOfPage)'
  <2>1. [ONext]_ovars => Saved!Next \/ UNCHANGED saveVars
    BY DEF ONext, Others, ovars
  <2> QED
    BY <2>1, SavedStep, WriterOfPageStep
<1> QED
  BY <1>1, <1>2, PTL DEF OSpec

(***************************************************************************)
(* When the auto-save is at rest the disk holds the perspectives and the   *)
(* links that memory holds: saveState reads each store after the one       *)
(* before it is put, and a change in between sets the writer's flag again. *)
(***************************************************************************)
THEOREM RestIsSavedCorrect == OSpec => []RestIsSaved
<1>1. SavedInv => RestIsSaved
  BY DEF SavedInv, SavedTypeOK, FreshInv, Alike, RestIsSaved, Saved!RestIsSaved
<1> QED
  BY <1>1, SavedInvariant, PTL

(***************************************************************************)
(* A link that a save has completed with survives crashes in the middle of *)
(* later saves, and reloads: saveState puts the links in one step, and     *)
(* loadState puts them back before anything is saved.                      *)
(***************************************************************************)
THEOREM SavedSurvivesCorrect == OSpec => []SavedSurvives
<1>1. SavedInv => SavedSurvives
  BY DEF SavedInv, DurableInv, SavedSurvives, Saved!SavedSurvives
<1> QED
  BY <1>1, SavedInvariant, PTL

-----------------------------------------------------------------------------
(***************************************************************************)
(* The delegate.                                                           *)
(***************************************************************************)
RegAt == {"none", "key", "install", "grant", "create", "done", "failed"}
Cells == (Registrations \cup {0}) \X Nicks

Registration ==
  [at : {"none"}, left : {<<>>}] \cup [at : RegAt \ {"none"}, left : Delegate!DnaLists]

DelegateTypeOK ==
  /\ regs \in [Registrations -> Registration]
  /\ nickToCell \in [Nicks -> Cells \cup {None}]
  /\ signer \in Cells \cup {None}

(***************************************************************************)
(* Credentials are made while there is no signer, and the signer is not    *)
(* replaced once there is one, unless credentials are made for two cells   *)
(* at a time: so what was granted to the signer stays granted to it.       *)
(***************************************************************************)
OneSigner ==
  /\ \A r \in Registrations :
       /\ regs[r].at = "grant" => signer # None
       /\ ~crossed /\ regs[r].at = "create" => signer = None
  /\ ~crossed =>
       \A q, r \in Registrations : regs[q].at = "create" /\ regs[r].at = "create" => q = r

DelegateInv == DelegateTypeOK /\ OneSigner /\ CallsAuthorised

(***************************************************************************)
(* A nick is left as long as its registration is under way.                *)
(***************************************************************************)
LEMMA HeadOfLeft ==
  ASSUME NEW l \in Delegate!DnaLists
  PROVE  /\ Head(l) \in Nicks
         /\ Len(l) > 1 => Tail(l) \in Delegate!DnaLists
<1>1. (\E n \in Nicks : l = <<n>>) \/ (\E n, o \in Nicks : l = <<n, o>>)
  BY DEF Delegate!DnaLists
<1>2. ASSUME NEW n \in Nicks, l = <<n>>
      PROVE  Head(l) \in Nicks /\ ~(Len(l) > 1)
  BY <1>2
<1>3. ASSUME NEW n \in Nicks, NEW o \in Nicks, l = <<n, o>>
      PROVE  Head(l) \in Nicks /\ Tail(l) = <<o>>
  BY <1>3
<1>4. \A o \in Nicks : <<o>> \in Delegate!DnaLists
  BY DEF Delegate!DnaLists
<1> QED
  BY <1>1, <1>2, <1>3, <1>4

LEMMA CellTyped ==
  ASSUME DelegateTypeOK, NEW r \in Registrations, regs[r].at # "none"
  PROVE  /\ regs[r].left \in Delegate!DnaLists
         /\ Head(regs[r].left) \in Nicks
         /\ Delegate!Cell(r) \in Cells
         /\ Delegate!Cell(r) # None
<1>1. regs[r].left \in Delegate!DnaLists
  BY DEF DelegateTypeOK, Registration
<1>2. Head(regs[r].left) \in Nicks
  BY <1>1, HeadOfLeft
<1> QED
  BY <1>1, <1>2, DelegateAssumption DEF Delegate!Cell, Delegate!CellOf, Cells

(***************************************************************************)
(* A step of one registration changes its record and no other, and with it *)
(* the cell that waits for its grant.                                      *)
(***************************************************************************)
LEMMA RegistrationGoesOn ==
  ASSUME DelegateTypeOK, NEW r \in Registrations, NEW at \in RegAt \ {"none"},
         regs[r].at # "none", Delegate!Goes(r, at)
  PROVE  /\ regs' \in [Registrations -> Registration]
         /\ regs'[r].at = at /\ regs'[r].left = regs[r].left
         /\ \A q \in Registrations \ {r} : regs'[q] = regs[q]
<1> DEFINE k == [regs[r] EXCEPT !.at = at]
<1>1. regs[r] \in [at : RegAt \ {"none"}, left : Delegate!DnaLists]
  BY DEF DelegateTypeOK, Registration
<1>2. k \in Registration /\ k.at = at /\ k.left = regs[r].left
  BY <1>1 DEF Registration
<1>3. regs' = [regs EXCEPT ![r] = k]
  BY DEF Delegate!Goes
<1> HIDE DEF k
<1> QED
  BY <1>1, <1>2, <1>3 DEF DelegateTypeOK

LEMMA RegistrationContinues ==
  ASSUME DelegateTypeOK, NEW r \in Registrations, regs[r].at # "none",
         Delegate!Continues(r)
  PROVE  /\ regs' \in [Registrations -> Registration]
         /\ regs'[r].at \in {"install", "done"}
         /\ \A q \in Registrations \ {r} : regs'[q] = regs[q]
<1>1. CASE Len(regs[r].left) > 1
  <2> DEFINE k == [at |-> "install", left |-> Tail(regs[r].left)]
  <2>1. k \in Registration /\ k.at = "install"
    BY <1>1, CellTyped, HeadOfLeft DEF Registration, RegAt
  <2>2. regs' = [regs EXCEPT ![r] = k]
    BY <1>1 DEF Delegate!Continues
  <2> HIDE DEF k
  <2> QED
    BY <2>1, <2>2 DEF DelegateTypeOK
<1>2. CASE ~(Len(regs[r].left) > 1)
  BY <1>2, RegistrationGoesOn DEF Delegate!Continues, RegAt
<1> QED
  BY <1>1, <1>2

LEMMA DelegateInit == Delegate!Init => DelegateInv
<1> SUFFICES ASSUME Delegate!Init
             PROVE  DelegateInv
  OBVIOUS
<1> USE DEF Delegate!Init
<1>1. [at |-> "none", left |-> <<>>] \in Registration
  BY DEF Registration
<1>2. DelegateTypeOK
  BY <1>1 DEF DelegateTypeOK
<1>3. OneSigner
  BY DEF OneSigner
<1>4. CallsAuthorised
  BY DEF CallsAuthorised, Delegate!CallsAuthorised
<1> QED
  BY <1>2, <1>3, <1>4 DEF DelegateInv

LEMMA DelegateStep ==
  DelegateInv /\ (Delegate!Next \/ UNCHANGED delegateVars) => DelegateInv'
<1> SUFFICES ASSUME DelegateInv, Delegate!Next \/ UNCHANGED delegateVars
             PROVE  DelegateInv'
  OBVIOUS
<1> USE DEF DelegateInv
<1>1. ASSUME UNCHANGED <<hwc, regs, nickToCell, signer, grants, refused, crossed>>
      PROVE  DelegateInv'
  BY <1>1 DEF DelegateTypeOK, OneSigner, CallsAuthorised, Delegate!CallsAuthorised,
              Delegate!CallRuns, Delegate!Granting, Delegate!Cell, Delegate!CellOf
(* A registration that waits for no grant goes on to another such place. *)
<1>2. ASSUME NEW r \in Registrations, regs[r].at \notin {"grant", "create"},
             regs' \in [Registrations -> Registration],
             regs'[r].at \notin {"grant", "create"},
             \A q \in Registrations \ {r} : regs'[q] = regs[q],
             UNCHANGED <<hwc, nickToCell, signer, grants, refused, crossed>>
      PROVE  DelegateInv'
  BY <1>2 DEF DelegateTypeOK, OneSigner, CallsAuthorised, Delegate!CallsAuthorised,
              Delegate!CallRuns, Delegate!Granting, Delegate!Cell, Delegate!CellOf
<1>3. ASSUME NEW r \in Registrations, Delegate!RegisterDNAs(r)
      PROVE  DelegateInv'
  <2>1. PICK dnas \in Delegate!DnaLists :
          regs' = [regs EXCEPT ![r] = [at |-> "key", left |-> dnas]]
    BY <1>3 DEF Delegate!RegisterDNAs
  <2> DEFINE k == [at |-> "key", left |-> dnas]
  <2>2. k \in Registration /\ k.at = "key" /\ regs' = [regs EXCEPT ![r] = k]
    BY <2>1 DEF Registration, RegAt
  <2> HIDE DEF k
  <2> QED
    BY <1>2, <1>3, <2>2 DEF Delegate!RegisterDNAs, DelegateTypeOK
<1>4. ASSUME NEW r \in Registrations, Delegate!GenerateAgentPubKey(r)
      PROVE  DelegateInv'
  BY <1>2, <1>4, RegistrationGoesOn DEF Delegate!GenerateAgentPubKey, RegAt
(* A nick has its cell before the cell has its grant. *)
<1>5. ASSUME NEW r \in Registrations, Delegate!InstallApp(r)
      PROVE  DelegateInv'
  <2> DEFINE c == Delegate!Cell(r)
             n == Head(regs[r].left)
             at == IF signer # None THEN "grant" ELSE "create"
  <2>1. /\ regs[r].at = "install" /\ Delegate!Goes(r, at)
        /\ nickToCell' = [nickToCell EXCEPT ![n] = c]
        /\ UNCHANGED <<hwc, signer, grants, refused>>
        /\ ~crossed' => ~crossed /\ \A q \in Registrations : regs[q].at # "create"
    BY <1>5 DEF Delegate!InstallApp
  <2>2. n \in Nicks /\ c \in Cells /\ c # None
    BY <2>1, CellTyped
  <2>3. /\ regs' \in [Registrations -> Registration]
        /\ regs'[r].at = at /\ regs'[r].left = regs[r].left
        /\ \A q \in Registrations \ {r} : regs'[q] = regs[q]
    BY <2>1, RegistrationGoesOn DEF RegAt
  <2>4. /\ Delegate!Cell(r)' = c
        /\ \A q \in Registrations : Delegate!Cell(q)' = Delegate!Cell(q)
    BY <2>1, <2>3 DEF Delegate!Cell, Delegate!CellOf
  <2>5. DelegateTypeOK'
    BY <2>1, <2>2, <2>3 DEF DelegateTypeOK
  <2>6. OneSigner'
    BY <2>1, <2>3 DEF OneSigner
  <2>7. CallsAuthorised'
    <3> SUFFICES ASSUME ~crossed', NEW m \in Nicks, nickToCell'[m] # None,
                        nickToCell'[m] \notin refused', ~Delegate!Granting(nickToCell[m])'
                 PROVE  Delegate!CallRuns(m)'
      BY DEF CallsAuthorised, Delegate!CallsAuthorised
    <3>1. m # n
      BY <2>1, <2>2, <2>3, <2>4 DEF Delegate!Granting, DelegateTypeOK
    <3>2. nickToCell'[m] = nickToCell[m] /\ ~Delegate!Granting(nickToCell[m])
      BY <2>1, <2>2, <2>3, <2>4, <3>1 DEF Delegate!Granting, DelegateTypeOK
    <3> QED
      BY <2>1, <3>2 DEF CallsAuthorised, Delegate!CallsAuthorised, Delegate!CallRuns
  <2> QED
    BY <2>5, <2>6, <2>7
<1>6. ASSUME NEW r \in Registrations, Delegate!GrantCapability(r)
      PROVE  DelegateInv'
  <2>1. /\ regs[r].at = "grant" /\ Delegate!Continues(r)
        /\ UNCHANGED <<hwc, nickToCell, signer, refused, crossed>>
        /\ grants \subseteq grants'
        /\ hwc \/ <<Delegate!Cell(r), signer>> \in grants'
    BY <1>6 DEF Delegate!GrantCapability
  <2>2. /\ regs' \in [Registrations -> Registration]
        /\ regs'[r].at \in {"install", "done"}
        /\ \A q \in Registrations \ {r} : regs'[q] = regs[q]
    BY <2>1, RegistrationContinues
  <2>3. DelegateTypeOK' /\ OneSigner'
    BY <2>1, <2>2 DEF DelegateTypeOK, OneSigner
  <2>4. CallsAuthorised'
    <3> SUFFICES ASSUME ~crossed', NEW m \in Nicks, nickToCell'[m] # None,
                        nickToCell'[m] \notin refused', ~Delegate!Granting(nickToCell[m])'
                 PROVE  Delegate!CallRuns(m)'
      BY DEF CallsAuthorised, Delegate!CallsAuthorised
    <3>1. nickToCell[m] = Delegate!Cell(r) \/ ~Delegate!Granting(nickToCell[m])
      BY <2>1, <2>2 DEF Delegate!Granting, Delegate!Cell, Delegate!CellOf
    <3> QED
      BY <2>1, <3>1
         DEF CallsAuthorised, Delegate!CallsAuthorised, Delegate!CallRuns, OneSigner
  <2> QED
    BY <2>3, <2>4
(* No other registration waits for a grant when the signer is made. *)
<1>7. ASSUME NEW r \in Registrations, Delegate!CreateSigningCredentials(r)
      PROVE  DelegateInv'
  <2>1. /\ regs[r].at = "create" /\ Delegate!Continues(r)
        /\ UNCHANGED <<hwc, nickToCell, refused, crossed>>
        /\ signer' = Delegate!Cell(r)
        /\ hwc \/ <<Delegate!Cell(r), signer'>> \in grants'
    BY <1>7 DEF Delegate!CreateSigningCredentials
  <2>2. /\ regs' \in [Registrations -> Registration]
        /\ regs'[r].at \in {"install", "done"}
        /\ \A q \in Registrations \ {r} : regs'[q] = regs[q]
    BY <2>1, RegistrationContinues
  <2>3. Delegate!Cell(r) \in Cells /\ Delegate!Cell(r) # None
    BY <2>1, CellTyped
  <2>4. ~crossed => \A q \in Registrations \ {r} : regs[q].at \notin {"grant", "create"}
    BY <2>1 DEF OneSigner
  <2>5. DelegateTypeOK' /\ OneSigner'
    BY <2>1, <2>2, <2>3, <2>4 DEF DelegateTypeOK, OneSigner
  <2>6. CallsAuthorised'
    <3> SUFFICES ASSUME ~crossed', NEW m \in Nicks, nickToCell'[m] # None,
                        nickToCell'[m] \notin refused'
                 PROVE  Delegate!CallRuns(m)'
      BY DEF CallsAuthorised, Delegate!CallsAuthorised
    <3>1. Delegate!Granting(nickToCell[m])
      BY <2>1 DEF CallsAuthorised, Delegate!CallsAuthorised, Delegate!CallRuns, OneSigner
    <3>2. nickToCell[m] = Delegate!Cell(r)
      BY <2>1, <2>4, <3>1 DEF Delegate!Granting
    <3> QED
      BY <2>1, <2>3, <3>2 DEF Delegate!CallRuns
  <2> QED
    BY <2>5, <2>6
(* A registration that fails while its cell waits leaves the cell refused. *)
<1>8. ASSUME NEW r \in Registrations, Delegate!Fails(r)
      PROVE  DelegateInv'
  <2>1. /\ regs[r].at # "none" /\ Delegate!Goes(r, "failed")
        /\ UNCHANGED <<hwc, nickToCell, signer, grants, crossed>>
        /\ refused \subseteq refused'
        /\ regs[r].at \in {"grant", "create"} => Delegate!Cell(r) \in refused'
    BY <1>8 DEF Delegate!Fails
  <2>2. /\ regs' \in [Registrations -> Registration]
        /\ regs'[r].at = "failed"
        /\ \A q \in Registrations \ {r} : regs'[q] = regs[q]
    BY <2>1, RegistrationGoesOn DEF RegAt
  <2>3. DelegateTypeOK' /\ OneSigner'
    BY <2>1, <2>2 DEF DelegateTypeOK, OneSigner
  <2>4. CallsAuthorised'
    <3> SUFFICES ASSUME ~crossed', NEW m \in Nicks, nickToCell'[m] # None,
                        nickToCell'[m] \notin refused', ~Delegate!Granting(nickToCell[m])'
                 PROVE  Delegate!CallRuns(m)'
      BY DEF CallsAuthorised, Delegate!CallsAuthorised
    <3>1. ~Delegate!Granting(nickToCell[m])
      BY <2>1, <2>2 DEF Delegate!Granting, Delegate!Cell, Delegate!CellOf
    <3> QED
      BY <2>1, <3>1 DEF CallsAuthorised, Delegate!CallsAuthorised, Delegate!CallRuns
  <2> QED
    BY <2>3, <2>4
<1>9. CASE Delegate!Signal \/ UNCHANGED delegateVars
  BY <1>1, <1>9 DEF Delegate!Signal, delegateVars
<1> QED
  BY <1>3, <1>4, <1>5, <1>6, <1>7, <1>8, <1>9 DEF Delegate!Next

(***************************************************************************)
(* A call to a cell that is not waiting for its grant and was not refused  *)
(* one is made with the signer it was granted to, whichever registrations  *)
(* failed or overlapped, unless credentials were made for two cells at a   *)
(* time (registerDNAs, callZomeFunction).                                  *)
(***************************************************************************)
THEOREM CallsAuthorisedCorrect == OSpec => []CallsAuthorised
<1>1. OInit => DelegateInv
  BY DelegateInit DEF OInit
<1>2. DelegateInv /\ [ONext]_ovars => DelegateInv'
  <2>1. [ONext]_ovars => Delegate!Next \/ UNCHANGED delegateVars
    BY DEF ONext, Others, ovars
  <2> QED
    BY <2>1, DelegateStep
<1> QED
  BY <1>1, <1>2, PTL DEF OSpec, DelegateInv

-----------------------------------------------------------------------------
(***************************************************************************)
(* The transport: the map has the calls that wait, and each of them has a  *)
(* timer, but on the proxy of a language; what waits for a client that was *)
(* destroyed was called afterwards.                                        *)
(***************************************************************************)
CallsInv ==
  /\ kind \in {"graphql", "api", "language"}
  /\ port \in {"open", "closed"}
  /\ status \in [Callers -> {"none", "pending", "resolved", "rejected"}]
  /\ pending = {c \in Callers : status[c] = "pending"}
  /\ callTimers = IF kind = "language" THEN {} ELSE pending
  /\ port = "closed" => pending \subseteq late
  /\ answers \in Seq([call : Callers, how : {"resolved", "rejected"}])

(***************************************************************************)
(* Nothing but its timer is needed for a call to settle that must: it has  *)
(* one, whatever the worker does, late answers and destroy() included      *)
(* (execute, callExecutor, destroy).                                       *)
(***************************************************************************)
DueHasTimer == \A c \in Callers : Worker!Due(c) => c \in callTimers

(***************************************************************************)
(* A call settles once: its answer, its timer and destroy(), in any order, *)
(* find it in the map only the first time.                                 *)
(***************************************************************************)
SettlesOnce ==
  \A c \in Callers : status[c] \in {"resolved", "rejected"} => status'[c] = status[c]

(***************************************************************************)
(* Nothing was called at first.                                            *)
(***************************************************************************)
LEMMA CallsInit == Worker!Init => CallsInv
<1> SUFFICES ASSUME Worker!Init PROVE CallsInv
  OBVIOUS
<1>1. answers \in Seq([call : Callers, how : {"resolved", "rejected"}])
  BY EmptySeq DEF Worker!Init
<1> QED
  BY <1>1 DEF CallsInv, Worker!Init

(***************************************************************************)
(* What settles leaves the map, and its timer is cleared.                  *)
(***************************************************************************)
LEMMA SettleStep ==
  ASSUME CallsInv, NEW cs \in SUBSET pending, NEW how \in {"resolved", "rejected"},
         Worker!Settle(cs, how), pending' = pending \ cs, callTimers' = callTimers \ cs
  PROVE  /\ status' \in [Callers -> {"none", "pending", "resolved", "rejected"}]
         /\ pending' = {c \in Callers : status'[c] = "pending"}
         /\ callTimers' = IF kind = "language" THEN {} ELSE pending'
         /\ SettlesOnce
BY DEF CallsInv, Worker!Settle, SettlesOnce

(***************************************************************************)
(* Every step keeps CallsInv, and settles only what waits.                 *)
(***************************************************************************)
LEMMA CallsStep ==
  CallsInv /\ (Worker!Next \/ UNCHANGED transportVars) => CallsInv' /\ SettlesOnce
<1> SUFFICES ASSUME CallsInv, Worker!Next \/ UNCHANGED transportVars
             PROVE  CallsInv' /\ SettlesOnce
  OBVIOUS
<1>1. ASSUME NEW c \in Callers, Worker!Call(c) PROVE CallsInv' /\ SettlesOnce
  <2>1. CASE Worker!Refuses(c)
    <3>1. /\ status' = [d \in Callers |-> IF d \in {c} THEN "rejected" ELSE status[d]]
          /\ UNCHANGED <<pending, callTimers, late, kind, port, answers>> /\ status[c] = "none"
      BY <1>1, <2>1 DEF Worker!Call, Worker!Settle
    <3> QED
      BY <3>1 DEF CallsInv, SettlesOnce
  <2>2. CASE ~Worker!Refuses(c)
    <3>1. /\ status' = [d \in Callers |-> IF d \in {c} THEN "pending" ELSE status[d]]
          /\ pending' = pending \cup {c}
          /\ callTimers' = IF kind = "language" THEN callTimers ELSE callTimers \cup {c}
          /\ late' = IF port = "open" THEN late ELSE late \cup {c}
          /\ UNCHANGED <<kind, port, answers>> /\ status[c] = "none"
      BY <1>1, <2>2 DEF Worker!Call, Worker!Settle
    <3>2. pending' = {d \in Callers : status'[d] = "pending"}
      BY <3>1 DEF CallsInv
    <3>3. /\ status' \in [Callers -> {"none", "pending", "resolved", "rejected"}]
          /\ callTimers' = IF kind' = "language" THEN {} ELSE pending'
          /\ port' = "closed" => pending' \subseteq late'
      BY <3>1 DEF CallsInv
    <3> QED
      BY <3>1, <3>2, <3>3 DEF CallsInv, SettlesOnce
  <2> QED
    BY <2>1, <2>2
<1>2. ASSUME NEW c \in Callers, Worker!TimesOut(c) PROVE CallsInv' /\ SettlesOnce
  <2>1. {c} \in SUBSET pending
    BY <1>2 DEF Worker!TimesOut, CallsInv
  <2>2. /\ Worker!Settle({c}, "rejected")
        /\ pending' = pending \ {c} /\ callTimers' = callTimers \ {c}
        /\ UNCHANGED <<kind, port, answers, late>>
    BY <1>2 DEF Worker!TimesOut
  <2> QED
    BY <2>1, <2>2, SettleStep DEF CallsInv
<1>3. CASE Worker!Receive
  <2>1. /\ Head(answers) \in [call : Callers, how : {"resolved", "rejected"}]
        /\ Tail(answers) \in Seq([call : Callers, how : {"resolved", "rejected"}])
    BY <1>3, HeadTailProperties DEF Worker!Receive, CallsInv
  <2>2. answers' = Tail(answers) /\ UNCHANGED <<kind, port, late>>
    BY <1>3 DEF Worker!Receive
  <2> DEFINE c == Head(answers).call  how == Head(answers).how
  <2>3. Worker!Answer(c, how)
    BY <1>3 DEF Worker!Receive
  <2>4. how \in {"resolved", "rejected"}
    BY <2>1
  <2> HIDE DEF c, how
  <2>5. CASE c \in pending
    <3>1. /\ Worker!Settle({c}, how)
          /\ pending' = pending \ {c} /\ callTimers' = callTimers \ {c}
      BY <2>3, <2>5 DEF Worker!Answer
    <3> QED
      BY <2>1, <2>2, <2>4, <2>5, <3>1, SettleStep DEF CallsInv
  <2>6. CASE c \notin pending
    <3>1. UNCHANGED <<callTimers, pending, status>>
      BY <2>3, <2>6 DEF Worker!Answer
    <3> QED
      BY <2>1, <2>2, <3>1 DEF CallsInv, SettlesOnce
  <2> QED
    BY <2>5, <2>6
<1>4. CASE Worker!DestroyClient \/ Worker!DestroyProxy
  <2>1. Worker!CutOff /\ UNCHANGED <<kind, late>>
    BY <1>4 DEF Worker!DestroyClient, Worker!DestroyProxy
  <2>2. /\ port' = "closed" /\ Worker!Settle(pending, "rejected")
        /\ pending' = {} /\ callTimers' = {} /\ answers' = <<>>
    BY <2>1 DEF Worker!CutOff
  <2>3. pending' = pending \ pending /\ callTimers' = callTimers \ pending
    BY <2>2 DEF CallsInv
  <2>4. answers' \in Seq([call : Callers, how : {"resolved", "rejected"}])
    BY <2>2, EmptySeq
  <2>5. /\ status' \in [Callers -> {"none", "pending", "resolved", "rejected"}]
        /\ pending' = {c \in Callers : status'[c] = "pending"}
        /\ SettlesOnce
    BY <2>2, <2>3, SettleStep
  <2> QED
    BY <2>1, <2>2, <2>4, <2>5 DEF CallsInv
<1>5. ASSUME NEW c \in Callers, Worker!Handled(c) PROVE CallsInv' /\ SettlesOnce
  <2>1. PICK how \in {"resolved", "rejected"} : answers' = Append(answers, [call |-> c, how |-> how])
    BY <1>5 DEF Worker!Handled
  <2>2. answers' \in Seq([call : Callers, how : {"resolved", "rejected"}])
    BY <2>1, AppendProperties DEF CallsInv
  <2>3. UNCHANGED <<kind, port, status, pending, callTimers, late>>
    BY <1>5 DEF Worker!Handled
  <2> QED
    BY <2>2, <2>3 DEF CallsInv, SettlesOnce
<1>6. CASE Worker!Take \/ Worker!Boots \/ UNCHANGED transportVars
  <2>1. UNCHANGED <<kind, port, status, pending, callTimers, answers, late>>
    BY <1>6 DEF Worker!Take, Worker!Boots, transportVars
  <2> QED
    BY <2>1 DEF CallsInv, SettlesOnce
<1> QED
  BY <1>1, <1>2, <1>3, <1>4, <1>5, <1>6 DEF Worker!Next

(***************************************************************************)
(* CallsInv is an invariant.                                               *)
(***************************************************************************)
LEMMA CallsInvariant == OSpec => []CallsInv
<1>1. OInit => CallsInv
  BY CallsInit DEF OInit
<1>2. CallsInv /\ [ONext]_ovars => CallsInv'
  <2>1. [ONext]_ovars => Worker!Next \/ UNCHANGED transportVars
    BY DEF ONext, Others, ovars
  <2> QED
    BY <2>1, CallsStep
<1> QED
  BY <1>1, <1>2, PTL DEF OSpec

(***************************************************************************)
(* Every call that must settle has a timer, so that nothing the worker     *)
(* does or fails to do can keep it waiting for good.                       *)
(***************************************************************************)
THEOREM DueHasTimerCorrect == OSpec => []DueHasTimer
<1>1. CallsInv => DueHasTimer
  BY DEF CallsInv, DueHasTimer, Worker!Due
<1> QED
  BY <1>1, CallsInvariant, PTL

(***************************************************************************)
(* A call settles once, whichever of its answer, its timer and destroy()   *)
(* come first and however late the others are.                             *)
(***************************************************************************)
THEOREM SettlesOnceCorrect == OSpec => [][SettlesOnce]_transportVars
<1>1. CallsInv /\ [ONext]_ovars => [SettlesOnce]_transportVars
  <2>1. [ONext]_ovars => Worker!Next \/ UNCHANGED transportVars
    BY DEF ONext, Others, ovars
  <2> QED
    BY <2>1, CallsStep
<1> QED
  BY <1>1, CallsInvariant, PTL DEF OSpec
=============================================================================
