---------------------- MODULE PerspectiveManager_proofs ----------------------
(***************************************************************************)
(* Proofs that PerspectiveManager keeps its type invariant, that only      *)
(* valid links are stored and shared, that a perspective has one live      *)
(* engine, that no addition falls between the initial sync and the remote  *)
(* callback, that no link is kept from the listeners nor announced before  *)
(* it is accepted, that a removed perspective stays as it is, and that its *)
(* engines implement SyncEngine, for every number of replicas, engines and *)
(* links.                                                                  *)
(***************************************************************************)
EXTENDS ManagedEngines, TLAPS

-----------------------------------------------------------------------------
(* The inductive invariant, in parts.                                      *)

(***************************************************************************)
(* What is on its way to a store or to the language is valid, too.         *)
(***************************************************************************)
ValidJob(j) ==
  /\ j.added \cap Bad = {}
  /\ j.kind \in {"diff", "sdna"} => j.toAdd \cap Bad = {}

ValidInv ==
  /\ OnlyValidLinks
  /\ \A j \in jobs : ValidJob(j)
  /\ \A e \in Engines : engines[e].snap \cap Bad = {}

(***************************************************************************)
(* An engine is in use when it has a perspective, and the map points to    *)
(* exactly the running ones.                                               *)
(***************************************************************************)
EngineInv ==
  /\ \A e \in Engines : engines[e].pc # "new" => engines[e].uuid \in Uuids
  /\ \A e \in Engines : engines[e].uuid = None => ~engines[e].running
  /\ \A e \in Engines : engines[e].uuid # None => handles[engines[e].uuid] # "unused"
  /\ \A e \in Engines : engines[e].running => syncEngines[engines[e].uuid] = e
  /\ \A u \in Uuids : syncEngines[u] # None => engines[syncEngines[u]].uuid = u

(***************************************************************************)
(* Every removal under way was asked for, and a diff that is being applied *)
(* neither waits for a commit nor can be refused.                          *)
(***************************************************************************)
JobInv ==
  \A j \in jobs : /\ j.toRemove \subseteq removing
                  /\ j.removed \subseteq removing
                  /\ j.kind = "diff" => j.pc \in {"store", "emit", "ask"}

(***************************************************************************)
(* NoMissedAddition, and what an engine is going to learn from the answer  *)
(* to its initial sync.                                                    *)
(***************************************************************************)
Reached(u, l) == l \in store[u] \/ Pending(u, l)

ReachInv ==
  \A e \in Engines, u \in Uuids, l \in net \ removing :
    engines[e].running /\ engines[e].uuid = u /\ Ensured(u)
      => /\ engines[e].pc \in {"revision", "done"} => Reached(u, l)
         /\ engines[e].pc = "sync" => l \in engines[e].snap \/ Reached(u, l)

-----------------------------------------------------------------------------
(* Type correctness.                                                       *)

(***************************************************************************)
(* What a commit leaves the language with is what it held and what it was  *)
(* given, or less.                                                         *)
(***************************************************************************)
LEMMA CommitBounds ==
  ASSUME NEW A, NEW R, NEW L, NEW M \in AfterCommit(L, A, R)
  PROVE  M \subseteq L \cup A
  BY DEF AfterCommit, AfterRemovals, AfterAdditions

(***************************************************************************)
(* A diff job made of links is a job.                                      *)
(***************************************************************************)
LEMMA DiffJobType ==
  ASSUME NEW v \in Uuids, NEW o \in Engines \cup {None}, NEW src \in Uuids \cup {None},
         NEW A \in SUBSET Links, NEW R \in SUBSET Links,
         NEW fa \in SUBSET Links, NEW fr \in SUBSET Links
  PROVE  DiffJob(v, o, src, A, R, fa, fr) \in Job
  BY DEF DiffJob, Job

LEMMA NewJobType ==
  ASSUME NEW kind \in LocalKind, NEW u \in Uuids, NEW A \in SUBSET Links,
         NEW R \in SUBSET Links, NEW removed \in SUBSET Links, NEW pc \in {"sign", "store"}
  PROVE  NewJob(kind, u, A, R, removed, pc) \in Job
  BY DEF NewJob, Job

LEMMA AskJobType ==
  ASSUME NEW j \in Job
  PROVE  [j EXCEPT !.pc = "ask"] \in Job
  BY DEF Job

(***************************************************************************)
(* What is notified of a commit: all its additions or none, all its        *)
(* removals or none.                                                       *)
(***************************************************************************)
LEMMA NotifiedParts ==
  ASSUME NEW A, NEW R, NEW d \in Notified(A, R)
  PROVE  d[1] \in {A, {}} /\ d[2] \in {R, {}}
  BY DEF Notified

(***************************************************************************)
(* The steps that change a handle, the engine map or an engine.            *)
(***************************************************************************)
LEMMA EngineFrame ==
  ASSUME Next
  PROVE  \/ \E u \in Uuids : Add(u) \/ Remove(u) \/ EngineCall(u)
         \/ \E e \in Engines : ResumeStart(e) \/ StartRejects(e)
         \/ UNCHANGED <<handles, syncEngines, engines>>
<1> DEFINE Same == UNCHANGED <<handles, syncEngines, engines>>
<1>1. ASSUME NEW u \in Uuids, LinkCall(u) PROVE Same
  BY <1>1 DEF LinkCall, AddLinks, RemoveLink, UpdateLink
<1>2. ASSUME NEW u \in Uuids, BatchCall(u) PROVE Same
  BY <1>2 DEF BatchCall, LinkMutations, AddSdna
<1>3. ASSUME NEW u \in Uuids, AdapterCall(u) PROVE Same
  BY <1>3 DEF AdapterCall, SetLinkLanguage, SyncPerspective
<1>4. ASSUME NEW j \in jobs, Resume(j) PROVE Same
  BY <1>4 DEF Resume, SdnaType, StoreOne, StoreThrows, DiffAdd, RemoveOne, PushPrivate,
              PushCommit, CommitResolves, DiffNext
<1>5. ASSUME NEW j \in jobs, Reject(j) PROVE Same
  BY <1>5 DEF Reject, SignFails, PushLost, CommitRejects, SyncRejects
<1> QED
  BY <1>1, <1>2, <1>3, <1>4, <1>5 DEF Next, Call, Settle

LEMMA EngineStep == TypeOK /\ EngineInv /\ [Next]_vars => EngineInv'
<1> SUFFICES ASSUME TypeOK, EngineInv, [Next]_vars
             PROVE  EngineInv'
  OBVIOUS
<1> USE ManagerAssumption DEF TypeOK, EngineInv, Engine
<1>1. CASE UNCHANGED <<handles, syncEngines, engines>>
  BY <1>1
<1>2. ASSUME NEW u \in Uuids, Add(u) PROVE EngineInv'
  BY <1>2 DEF Add
<1>3. ASSUME NEW u \in Uuids, Remove(u) PROVE EngineInv'
  BY <1>3 DEF Remove
<1>4. ASSUME NEW u \in Uuids, NEW e \in Engines, StartSync(u, e) PROVE EngineInv'
  BY <1>4 DEF StartSync, Ensured
<1>5. ASSUME NEW u \in Uuids, StopSync(u) PROVE EngineInv'
  <2>1. syncEngines[u] \in Engines
    BY <1>5 DEF StopSync
  <2> QED
    BY <1>5, <2>1 DEF StopSync
<1>6. ASSUME NEW e \in Engines, NEW f, SyncReturns(e, f) PROVE EngineInv'
  BY <1>6 DEF SyncReturns
<1>7. ASSUME NEW e \in Engines, RevisionReturns(e) PROVE EngineInv'
  BY <1>7 DEF RevisionReturns, Ensured
<1>8. ASSUME NEW e \in Engines, StartRejects(e) PROVE EngineInv'
  BY <1>8 DEF StartRejects
<1>9. CASE UNCHANGED vars
  BY <1>1, <1>9 DEF vars
<1> QED
  BY <1>1, <1>2, <1>3, <1>4, <1>5, <1>6, <1>7, <1>8, <1>9, EngineFrame
     DEF EngineCall, ResumeStart

(***************************************************************************)
(* Every step keeps the types; that an engine at work has a perspective is *)
(* part of EngineInv.                                                      *)
(***************************************************************************)
LEMMA TypeStep == TypeOK /\ EngineInv /\ [Next]_vars => TypeOK'
<1> SUFFICES ASSUME TypeOK, EngineInv, [Next]_vars
             PROVE  TypeOK'
  OBVIOUS
<1> USE DEF TypeOK, Ensured, HandleState
<1>1. CASE UNCHANGED vars
  BY <1>1 DEF vars, history
<1>2. ASSUME NEW u \in Uuids, Add(u) PROVE TypeOK'
  BY <1>2 DEF Add, history
<1>3. ASSUME NEW u \in Uuids, Remove(u) PROVE TypeOK'
  BY <1>3 DEF Remove, history
<1>4. ASSUME NEW u \in Uuids, NEW A \in SUBSET Fresh, AddLinks(u, A) PROVE TypeOK'
  <2>1. A \subseteq Links
    BY DEF Fresh
  <2>2. NewJob("add", u, A, {}, {}, "sign") \in Job
    BY <2>1, NewJobType DEF LocalKind
  <2> QED
    BY <1>4, <2>1, <2>2 DEF AddLinks
<1>5. ASSUME NEW u \in Uuids, NEW l \in Visible(u), RemoveLink(u, l) PROVE TypeOK'
  <2>1. l \in Links
    BY DEF Visible
  <2>2. NewJob("remove", u, {}, {}, {l}, "store") \in Job
    BY <2>1, NewJobType DEF LocalKind
  <2> QED
    BY <1>5, <2>1, <2>2 DEF RemoveLink, StoreRemove
<1>6. ASSUME NEW u \in Uuids, NEW old \in Visible(u), NEW new \in Fresh,
             UpdateLink(u, old, new)
      PROVE  TypeOK'
  <2>1. old \in Links /\ new \in Links
    BY DEF Visible, Fresh
  <2>2. NewJob("update", u, {new}, {}, {old}, "sign") \in Job
    BY <2>1, NewJobType DEF LocalKind
  <2> QED
    BY <1>6, <2>1, <2>2 DEF UpdateLink, StoreRemove
<1>7. ASSUME NEW u \in Uuids, NEW A \in SUBSET Fresh, NEW R \in SUBSET Visible(u),
             LinkMutations(u, A, R)
      PROVE  TypeOK'
  <2>1. A \subseteq Links /\ R \subseteq Links
    BY DEF Visible, Fresh
  <2>2. NewJob("mutate", u, A, R, {}, "sign") \in Job
    BY <2>1, NewJobType DEF LocalKind
  <2> QED
    BY <1>7, <2>1, <2>2 DEF LinkMutations
<1>8. ASSUME NEW u \in Uuids, NEW code \in Fresh \ Bad, NEW type \in Fresh \ Bad,
             AddSdna(u, code, type)
      PROVE  TypeOK'
  <2>1. code \in Links /\ type \in Links
    BY DEF Fresh
  <2>2. NewJob("sdna", u, {type}, {}, {}, "store") \in Job
    BY <2>1, NewJobType DEF LocalKind
  <2> QED
    BY <1>8, <2>1, <2>2 DEF AddSdna, StoreAdd
<1>9. ASSUME NEW u \in Uuids, NEW e \in Engines, StartSync(u, e) PROVE TypeOK'
  BY <1>9 DEF StartSync, history, Engine, StartPc, SyncState
<1>10. ASSUME NEW u \in Uuids, StopSync(u) PROVE TypeOK'
  <2> DEFINE e == syncEngines[u]
             E == [engines[e] EXCEPT !.running = FALSE, !.state = "idle", !.interval = FALSE]
  <2>1. e \in Engines /\ engines[e] \in Engine
    BY <1>10 DEF StopSync
  <2>2. E \in Engine
    BY <2>1 DEF Engine, SyncState
  <2>3. engines' = [engines EXCEPT ![e] = E]
    BY <1>10, <2>1 DEF StopSync, Engine
  <2> HIDE DEF E
  <2>4. engines' \in [Engines -> Engine]
    BY <2>1, <2>2, <2>3
  <2> QED
    BY <1>10, <2>4 DEF StopSync, history
<1>11. ASSUME NEW u \in Uuids, SetLinkLanguage(u) PROVE TypeOK'
  BY <1>11 DEF SetLinkLanguage, history
<1>12. ASSUME NEW u \in Uuids, SyncPerspective(u) PROVE TypeOK'
  <2>1. DiffJob(u, None, None, net, {}, {}, {}) \in Job
    BY DiffJobType
  <2>2. [DiffJob(u, None, None, net, {}, {}, {}) EXCEPT !.pc = "ask"] \in Job
    BY <2>1, AskJobType
  <2> QED
    BY <1>12, <2>2 DEF SyncPerspective, history
<1>13. ASSUME NEW j \in jobs, SdnaType(j) PROVE TypeOK'
  BY <1>13 DEF SdnaType, StoreAdd, Finish, Job, history
<1>14. ASSUME NEW j \in jobs, NEW l \in j.toAdd, StoreOne(j, l) PROVE TypeOK'
  <2>1. j \in Job /\ l \in Links
    BY DEF Job
  <2>2. [j EXCEPT !.toAdd = @ \ {l}, !.added = @ \cup {l}, !.pc = "store"] \in Job
    BY <2>1 DEF Job
  <2> QED
    BY <1>14, <2>1, <2>2 DEF StoreOne, StoreAdd, Replace, Job, history
<1>15. ASSUME NEW j \in jobs, NEW l \in j.toAdd, StoreThrows(j, l) PROVE TypeOK'
  BY <1>15 DEF StoreThrows, Finish, Job
<1>16. ASSUME NEW j \in jobs, NEW l \in j.toAdd, DiffAdd(j, l) PROVE TypeOK'
  <2>1. j \in Job /\ l \in Links
    BY DEF Job
  <2>2. [j EXCEPT !.toAdd = @ \ {l}, !.added = @ \cup {l}, !.pc = "store"] \in Job
    BY <2>1 DEF Job
  <2> QED
    BY <1>16, <2>1, <2>2 DEF DiffAdd, StoreAdd, Replace, Job, history
<1>17. ASSUME NEW j \in jobs, NEW r \in j.toRemove, RemoveOne(j, r) PROVE TypeOK'
  <2>1. j \in Job /\ r \in Links
    BY DEF Job
  <2>2. [j EXCEPT !.toRemove = @ \ {r}, !.removed = @ \cup ({r} \cap store[j.u]),
                  !.pc = "store"] \in Job
    BY <2>1 DEF Job
  <2> QED
    BY <1>17, <2>1, <2>2 DEF RemoveOne, StoreRemove, Replace, Job, history
<1>18. ASSUME NEW j \in jobs, PushPrivate(j) PROVE TypeOK'
  BY <1>18 DEF PushPrivate, Announce, Finish, Job, history
<1>19. ASSUME NEW j \in jobs, NEW fa \in Firsts(j.added), NEW fr \in Firsts(j.removed),
              PushCommit(j, fa, fr)
       PROVE  TypeOK'
  <2>1. /\ j \in Job /\ j.u \in Uuids
        /\ j.added \subseteq Links /\ j.removed \subseteq Links
    BY DEF Job
  <2>2. fa \subseteq Links /\ fr \subseteq Links
    BY <2>1 DEF Firsts
  <2>3. [j EXCEPT !.pc = "commit"] \in Job
    BY <2>1 DEF Job
  <2>4. DiffJobs(j.u, j.added, j.removed, fa, fr) \subseteq Job
    <3> SUFFICES ASSUME NEW k \in DiffJobs(j.u, j.added, j.removed, fa, fr)
                 PROVE  k \in Job
      OBVIOUS
    <3> PICK o \in Observers, d \in Notified(j.added, j.removed) :
               k = DiffJob(engines[o].uuid, o, j.u, d[1], d[2], d[1] \cap fa, d[2] \cap fr)
      BY DEF DiffJobs, Observe
    <3>1. o \in Engines
      BY DEF Observers
    <3>2. engines[o].uuid \in Uuids
      BY <3>1 DEF Observers, Live, EngineInv, Engine
    <3>3. d[1] \subseteq Links /\ d[2] \subseteq Links
      BY <2>1, NotifiedParts
    <3> QED
      BY <2>1, <2>2, <3>1, <3>2, <3>3, DiffJobType
  <2>5. net' \subseteq net \cup j.added
    BY <1>19, CommitBounds DEF PushCommit
  <2>6. store' \in [Uuids -> SUBSET Links]
    BY <1>19, <2>1, <2>2 DEF PushCommit
  <2> QED
    BY <1>19, <2>1, <2>3, <2>4, <2>5, <2>6 DEF PushCommit
<1>20. ASSUME NEW j \in jobs, CommitResolves(j) PROVE TypeOK'
  BY <1>20 DEF CommitResolves, Announce, Finish, Job, history
<1>21. ASSUME NEW j \in jobs, NEW fr \in Firsts(j.toRemove), DiffNext(j, fr) PROVE TypeOK'
  <2>1. j \in Job /\ fr \subseteq Links
    BY DEF Job, Firsts
  <2>2. [j EXCEPT !.toRemove = @ \ fr, !.added = {}, !.removed = fr, !.pc = "emit"] \in Job
    BY <2>1 DEF Job
  <2> QED
    BY <1>21, <2>1, <2>2 DEF DiffNext, StoreRemove, Announce, Finish, Replace, Job, history
<1>22. ASSUME NEW j \in jobs, SignFails(j) PROVE TypeOK'
  BY <1>22 DEF SignFails, Finish, Job
<1>23. ASSUME NEW j \in jobs, PushLost(j) PROVE TypeOK'
  <2>1. [j EXCEPT !.pc = "refused"] \in Job
    BY DEF Job
  <2> QED
    BY <1>23, <2>1 DEF PushLost, Replace, history
<1>24. ASSUME NEW j \in jobs, CommitRejects(j) PROVE TypeOK'
  BY <1>24 DEF CommitRejects, Finish, Job
<1>25. ASSUME NEW j \in jobs, SyncRejects(j) PROVE TypeOK'
  BY <1>25 DEF SyncRejects, Finish, history
<1>26. ASSUME NEW e \in Engines, NEW f \in Firsts(engines[e].snap), SyncReturns(e, f)
       PROVE  TypeOK'
  <2>1. engines[e].uuid \in Uuids
    BY <1>26 DEF SyncReturns, EngineInv
  <2>2. engines[e].snap \subseteq Links /\ f \subseteq Links
    BY DEF Engine, Firsts
  <2>3. DiffJob(engines[e].uuid, e, None, engines[e].snap, {}, f, {}) \in Job
    BY <2>1, <2>2, DiffJobType
  <2> DEFINE E == [engines[e] EXCEPT !.pc = "revision", !.snap = {}]
  <2>4. E \in Engine
    BY DEF Engine, StartPc
  <2>5. engines' = [engines EXCEPT ![e] = E]
    BY <1>26 DEF SyncReturns, Engine
  <2> HIDE DEF E
  <2>6. engines' \in [Engines -> Engine]
    BY <2>4, <2>5
  <2> QED
    BY <1>26, <2>1, <2>2, <2>3, <2>6 DEF SyncReturns, StoreAdd, history
<1>27. ASSUME NEW e \in Engines, RevisionReturns(e) PROVE TypeOK'
  <2> DEFINE E == [engines[e] EXCEPT !.pc = "done", !.state = "synced", !.interval = TRUE]
  <2>1. E \in Engine
    BY DEF Engine, StartPc, SyncState
  <2>2. engines' = [engines EXCEPT ![e] = E]
    BY <1>27 DEF RevisionReturns, Engine
  <2> HIDE DEF E
  <2>3. engines' \in [Engines -> Engine]
    BY <2>1, <2>2
  <2> QED
    BY <1>27, <2>3 DEF RevisionReturns, history
<1>28. ASSUME NEW e \in Engines, StartRejects(e) PROVE TypeOK'
  <2> DEFINE E == [engines[e] EXCEPT !.pc = "failed", !.snap = {}]
  <2>1. E \in Engine
    BY DEF Engine, StartPc
  <2>2. engines' = [engines EXCEPT ![e] = E]
    BY <1>28 DEF StartRejects, Engine
  <2> HIDE DEF E
  <2>3. engines' \in [Engines -> Engine]
    BY <2>1, <2>2
  <2> QED
    BY <1>28, <2>3 DEF StartRejects, history
<1> QED
  BY <1>1, <1>2, <1>3, <1>4, <1>5, <1>6, <1>7, <1>8, <1>9, <1>10, <1>11, <1>12, <1>13,
     <1>14, <1>15, <1>16, <1>17, <1>18, <1>19, <1>20, <1>21, <1>22, <1>23, <1>24, <1>25,
     <1>26, <1>27, <1>28
     DEF Next, Call, LinkCall, BatchCall, EngineCall, AdapterCall, Settle, Resume, Reject,
         ResumeStart

LEMMA TypedEngines == Spec => [](TypeOK /\ EngineInv)
<1>1. Init => TypeOK /\ EngineInv
  BY ManagerAssumption DEF Init, TypeOK, EngineInv, HandleState, Engine, NewEngine, StartPc,
                           SyncState
<1>2. TypeOK /\ EngineInv /\ [Next]_vars => (TypeOK /\ EngineInv)'
  BY TypeStep, EngineStep
<1> QED
  BY <1>1, <1>2, PTL DEF Spec

(***************************************************************************)
(* Every variable keeps its type.                                          *)
(***************************************************************************)
THEOREM TypeCorrect == Spec => []TypeOK
  BY TypedEngines, PTL

(***************************************************************************)
(* A perspective never has two engines that apply remote diffs, nor one    *)
(* that stopSync can no longer reach.                                      *)
(***************************************************************************)
THEOREM OneLiveEngineCorrect == Spec => []OneLiveEngine
<1>1. EngineInv => OneLiveEngine
  BY DEF EngineInv, OneLiveEngine
<1> QED
  BY <1>1, TypedEngines, PTL

-----------------------------------------------------------------------------
(* Valid links, and the jobs that carry them.                              *)

(***************************************************************************)
(* What the jobs started by a commit of valid links carry.                 *)
(***************************************************************************)
LEMMA DiffJobsCarry ==
  ASSUME NEW src, NEW A, NEW R, NEW fa, NEW fr,
         NEW k \in DiffJobs(src, A, R, fa, fr)
  PROVE  /\ k.kind = "diff" /\ k.pc \in {"store", "emit"}
         /\ k.added \subseteq A /\ k.toAdd \subseteq A
         /\ k.removed \subseteq R /\ k.toRemove \subseteq R
<1> PICK o \in Observers, d \in Notified(A, R) :
           k = DiffJob(engines[o].uuid, o, src, d[1], d[2], d[1] \cap fa, d[2] \cap fr)
  BY DEF DiffJobs, Observe
<1>1. d[1] \in {A, {}} /\ d[2] \in {R, {}}
  BY NotifiedParts
<1> QED
  BY <1>1 DEF DiffJob

LEMMA LinkStep == TypeOK /\ EngineInv /\ ValidInv /\ JobInv /\ [Next]_vars => (ValidInv /\ JobInv)'
<1> SUFFICES ASSUME TypeOK, EngineInv, ValidInv, JobInv, [Next]_vars
             PROVE  (ValidInv /\ JobInv)'
  OBVIOUS
<1> DEFINE Goal == (ValidInv /\ JobInv)'
<1> USE DEF ValidInv, OnlyValidLinks, ValidJob, JobInv
<1>1. CASE UNCHANGED vars
  BY <1>1 DEF vars, history
<1>2. ASSUME NEW u \in Uuids, Add(u) PROVE Goal
  BY <1>2 DEF Add, history
<1>3. ASSUME NEW u \in Uuids, Remove(u) PROVE Goal
  BY <1>3 DEF Remove, history, TypeOK
<1>4. ASSUME NEW u \in Uuids, NEW A \in SUBSET Fresh, AddLinks(u, A) PROVE Goal
  BY <1>4 DEF AddLinks, NewJob
<1>5. ASSUME NEW u \in Uuids, NEW l \in Visible(u), RemoveLink(u, l) PROVE Goal
  BY <1>5 DEF RemoveLink, NewJob, StoreRemove, TypeOK
<1>6. ASSUME NEW u \in Uuids, NEW old \in Visible(u), NEW new \in Fresh,
             UpdateLink(u, old, new)
      PROVE  Goal
  BY <1>6 DEF UpdateLink, NewJob, StoreRemove, TypeOK
<1>7. ASSUME NEW u \in Uuids, NEW A \in SUBSET Fresh, NEW R \in SUBSET Visible(u),
             LinkMutations(u, A, R)
      PROVE  Goal
  BY <1>7 DEF LinkMutations, NewJob
<1>8. ASSUME NEW u \in Uuids, NEW code \in Fresh \ Bad, NEW type \in Fresh \ Bad,
             AddSdna(u, code, type)
      PROVE  Goal
  BY <1>8 DEF AddSdna, NewJob, StoreAdd, TypeOK
<1>9. ASSUME NEW u \in Uuids, NEW e \in Engines, StartSync(u, e) PROVE Goal
  BY <1>9 DEF StartSync, history, TypeOK
<1>10. ASSUME NEW u \in Uuids, StopSync(u) PROVE Goal
  <2>1. \A e \in Engines : engines'[e].snap = engines[e].snap
    BY <1>10 DEF StopSync, TypeOK, Engine
  <2> QED
    BY <1>10, <2>1 DEF StopSync, history
<1>11. ASSUME NEW u \in Uuids, SetLinkLanguage(u) PROVE Goal
  BY <1>11 DEF SetLinkLanguage, history
<1>12. ASSUME NEW u \in Uuids, SyncPerspective(u) PROVE Goal
  <2> DEFINE k == [DiffJob(u, None, None, net, {}, {}, {}) EXCEPT !.pc = "ask"]
  <2>1. DiffJob(u, None, None, net, {}, {}, {}) \in Job
    BY DiffJobType, ManagerAssumption DEF TypeOK
  <2>2. /\ k.kind = "diff" /\ k.pc = "ask" /\ k.toAdd \subseteq net
        /\ k.added = {} /\ k.removed = {} /\ k.toRemove = {}
    BY <1>12, <2>1 DEF SyncPerspective, DiffJob
  <2>3. jobs' = jobs \cup {k}
    BY <1>12 DEF SyncPerspective
  <2> HIDE DEF k
  <2> QED
    BY <1>12, <2>2, <2>3 DEF SyncPerspective, history
<1>13. ASSUME NEW j \in jobs, SdnaType(j) PROVE Goal
  BY <1>13 DEF SdnaType, StoreAdd, Finish, history, TypeOK
<1>14. ASSUME NEW j \in jobs, NEW l \in j.toAdd, StoreOne(j, l) PROVE Goal
  <2> DEFINE k == [j EXCEPT !.toAdd = @ \ {l}, !.added = @ \cup {l}, !.pc = "store"]
  <2>1. /\ k.kind = j.kind /\ k.toAdd \subseteq j.toAdd /\ k.added \subseteq j.added \cup {l}
        /\ k.toRemove = j.toRemove /\ k.removed = j.removed
    BY DEF TypeOK, Job
  <2>2. jobs' = (jobs \ {j}) \cup {k} /\ j.kind # "diff" /\ l \notin Bad
    BY <1>14 DEF StoreOne, Writing, Replace
  <2> HIDE DEF k
  <2>3. OnlyValidLinks'
    BY <1>14, <2>2 DEF StoreOne, StoreAdd, history, TypeOK
  <2> QED
    BY <1>14, <2>1, <2>2, <2>3 DEF StoreOne, history
<1>15. ASSUME NEW j \in jobs, NEW l \in j.toAdd, StoreThrows(j, l) PROVE Goal
  BY <1>15 DEF StoreThrows, Finish
<1>16. ASSUME NEW j \in jobs, NEW l \in j.toAdd, DiffAdd(j, l) PROVE Goal
  <2> DEFINE k == [j EXCEPT !.toAdd = @ \ {l}, !.added = @ \cup {l}, !.pc = "store"]
  <2>1. /\ k.kind = j.kind /\ k.toAdd \subseteq j.toAdd /\ k.added \subseteq j.added \cup {l}
        /\ k.toRemove = j.toRemove /\ k.removed = j.removed /\ k.pc = "store"
    BY DEF TypeOK, Job
  <2>2. jobs' = (jobs \ {j}) \cup {k} /\ l \notin Bad
    BY <1>16 DEF DiffAdd, Replace
  <2> HIDE DEF k
  <2>3. OnlyValidLinks'
    BY <1>16, <2>2 DEF DiffAdd, StoreAdd, history, TypeOK
  <2> QED
    BY <1>16, <2>1, <2>2, <2>3 DEF DiffAdd, history
<1>17. ASSUME NEW j \in jobs, NEW r \in j.toRemove, RemoveOne(j, r) PROVE Goal
  <2> DEFINE k == [j EXCEPT !.toRemove = @ \ {r},
                            !.removed = @ \cup ({r} \cap store[j.u]), !.pc = "store"]
  <2>1. /\ k.kind = j.kind /\ k.toAdd = j.toAdd /\ k.added = j.added
        /\ k.toRemove \subseteq j.toRemove /\ k.removed \subseteq j.removed \cup {r}
    BY DEF TypeOK, Job
  <2>2. jobs' = (jobs \ {j}) \cup {k} /\ j.kind # "diff"
    BY <1>17 DEF RemoveOne, Writing, Replace
  <2> HIDE DEF k
  <2>3. OnlyValidLinks'
    BY <1>17 DEF RemoveOne, StoreRemove, history, TypeOK
  <2> QED
    BY <1>17, <2>1, <2>2, <2>3 DEF RemoveOne, history
<1>18. ASSUME NEW j \in jobs, PushPrivate(j) PROVE Goal
  BY <1>18 DEF PushPrivate, Finish, history
<1>19. ASSUME NEW j \in jobs, NEW fa \in Firsts(j.added), NEW fr \in Firsts(j.removed),
              PushCommit(j, fa, fr)
       PROVE  Goal
  <2>1. /\ net' \subseteq net \cup j.added
        /\ fa \subseteq j.added
    BY <1>19, CommitBounds DEF PushCommit, Firsts
  <2>2. OnlyValidLinks'
    BY <1>19, <2>1 DEF PushCommit, TypeOK
  <2>3. ASSUME NEW k \in DiffJobs(j.u, j.added, j.removed, fa, fr)
        PROVE  /\ ValidJob(k) /\ k.kind = "diff" /\ k.pc \in {"store", "emit"}
               /\ k.toRemove \subseteq removing /\ k.removed \subseteq removing
    BY DiffJobsCarry
  <2>4. LET k == [j EXCEPT !.pc = "commit"]
        IN  /\ ValidJob(k) /\ k.kind # "diff"
            /\ k.toRemove \subseteq removing /\ k.removed \subseteq removing
    BY <1>19 DEF PushCommit, Ready, LocalKind, TypeOK, Job
  <2> QED
    BY <1>19, <2>2, <2>3, <2>4 DEF PushCommit
<1>20. ASSUME NEW j \in jobs, CommitResolves(j) PROVE Goal
  BY <1>20 DEF CommitResolves, Finish, history
<1>21. ASSUME NEW j \in jobs, NEW fr \in Firsts(j.toRemove), DiffNext(j, fr) PROVE Goal
  <2> DEFINE k == [j EXCEPT !.toRemove = @ \ fr, !.added = {}, !.removed = fr, !.pc = "emit"]
  <2>1. /\ k.kind = j.kind /\ k.toAdd = j.toAdd /\ k.added = {} /\ k.pc = "emit"
        /\ k.toRemove \subseteq j.toRemove /\ k.removed \subseteq j.toRemove
    BY DEF TypeOK, Job, Firsts
  <2>2. jobs' \subseteq jobs \cup {k}
    BY <1>21 DEF DiffNext, Replace, Finish
  <2> HIDE DEF k
  <2>3. OnlyValidLinks'
    BY <1>21 DEF DiffNext, StoreRemove, history, TypeOK
  <2> QED
    BY <1>21, <2>1, <2>2, <2>3 DEF DiffNext, history
<1>22. ASSUME NEW j \in jobs, SignFails(j) PROVE Goal
  BY <1>22 DEF SignFails, Finish
<1>23. ASSUME NEW j \in jobs, PushLost(j) PROVE Goal
  BY <1>23 DEF PushLost, Ready, LocalKind, Replace, history, TypeOK, Job
<1>24. ASSUME NEW j \in jobs, CommitRejects(j) PROVE Goal
  BY <1>24 DEF CommitRejects, Finish
<1>25. ASSUME NEW j \in jobs, SyncRejects(j) PROVE Goal
  BY <1>25 DEF SyncRejects, Finish, history
<1>26. ASSUME NEW e \in Engines, NEW f \in Firsts(engines[e].snap), SyncReturns(e, f)
       PROVE  Goal
  <2>1. f \subseteq engines[e].snap
    BY DEF Firsts
  <2>2. \A d \in Engines : engines'[d].snap \subseteq engines[d].snap
    BY <1>26 DEF SyncReturns, TypeOK, Engine
  <2> QED
    BY <1>26, <2>1, <2>2 DEF SyncReturns, DiffJob, StoreAdd, history, TypeOK
<1>27. ASSUME NEW e \in Engines, RevisionReturns(e) PROVE Goal
  <2>1. \A d \in Engines : engines'[d].snap = engines[d].snap
    BY <1>27 DEF RevisionReturns, TypeOK, Engine
  <2> QED
    BY <1>27, <2>1 DEF RevisionReturns, history
<1>28. ASSUME NEW e \in Engines, StartRejects(e) PROVE Goal
  <2>1. \A d \in Engines : engines'[d].snap \subseteq engines[d].snap
    BY <1>28 DEF StartRejects, TypeOK, Engine
  <2> QED
    BY <1>28, <2>1 DEF StartRejects, history
<1> QED
  BY <1>1, <1>2, <1>3, <1>4, <1>5, <1>6, <1>7, <1>8, <1>9, <1>10, <1>11, <1>12, <1>13,
     <1>14, <1>15, <1>16, <1>17, <1>18, <1>19, <1>20, <1>21, <1>22, <1>23, <1>24, <1>25,
     <1>26, <1>27, <1>28
     DEF Next, Call, LinkCall, BatchCall, EngineCall, AdapterCall, Settle, Resume, Reject,
         ResumeStart

(***************************************************************************)
(* Both hold in every reachable state.                                     *)
(***************************************************************************)
LEMMA LinksInvariant == Spec => [](ValidInv /\ JobInv)
<1>1. Init => ValidInv /\ JobInv
  BY ManagerAssumption DEF Init, ValidInv, OnlyValidLinks, JobInv, NewEngine
<1>2. (TypeOK /\ EngineInv) /\ (ValidInv /\ JobInv) /\ [Next]_vars => (ValidInv /\ JobInv)'
  BY LinkStep
<1> QED
  BY <1>1, <1>2, TypedEngines, PTL DEF Spec

(***************************************************************************)
(* A link that validateLink rejects is never in a store and never shared.  *)
(***************************************************************************)
THEOREM OnlyValidLinksCorrect == Spec => []OnlyValidLinks
<1>1. ValidInv => OnlyValidLinks
  BY DEF ValidInv
<1> QED
  BY <1>1, LinksInvariant, PTL

-----------------------------------------------------------------------------
(* No addition is missed.                                                  *)

(***************************************************************************)
(* A link nobody asked to remove stays where it is or on its way there,    *)
(* in a perspective that stays in the map.                                 *)
(***************************************************************************)
KeepsReached ==
  \A u \in Uuids, l \in Links \ removing' :
    Ensured(u)' /\ Reached(u, l) => Reached(u, l)'

(***************************************************************************)
(* Most steps leave the language and what an engine waits for alone.       *)
(***************************************************************************)
EnginesRest ==
  /\ net' = net
  /\ removing \subseteq removing'
  /\ \A u \in Uuids : Ensured(u)' /\ handles[u] # "unused" => Ensured(u)
  /\ \A e \in Engines : \/ engines'[e] = engines[e]
                        \/ ~engines'[e].running
                        \/ engines'[e].pc = "failed"

LEMMA ReachKept ==
  ASSUME TypeOK, EngineInv, ReachInv, KeepsReached, EnginesRest
  PROVE  ReachInv'
<1> SUFFICES ASSUME NEW e \in Engines, NEW u \in Uuids, NEW l \in net' \ removing',
                    engines'[e].running, engines'[e].uuid = u, Ensured(u)'
             PROVE  /\ engines'[e].pc \in {"revision", "done"} => Reached(u, l)'
                    /\ engines'[e].pc = "sync" => l \in engines'[e].snap \/ Reached(u, l)'
  BY DEF ReachInv
<1>1. CASE engines'[e].pc = "failed"
  BY <1>1
<1>2. CASE engines'[e] = engines[e]
  <2>1. l \in net \ removing /\ l \in Links \ removing'
    BY DEF EnginesRest, TypeOK
  <2>2. handles[u] # "unused"
    BY <1>2, ManagerAssumption DEF EngineInv
  <2>3. Ensured(u)
    BY <2>2 DEF EnginesRest
  <2>4. Reached(u, l) => Reached(u, l)'
    BY <2>1 DEF KeepsReached
  <2> QED
    BY <1>2, <2>1, <2>3, <2>4 DEF ReachInv
<1> QED
  BY <1>1, <1>2 DEF EnginesRest

(***************************************************************************)
(* Stored links that stay, and jobs that stay or carry nothing.            *)
(***************************************************************************)
Carries(j, u, l) == j.kind = "diff" /\ j.u = u /\ l \in j.toAdd /\ j.pc # "ask"

LEMMA KeepsIf ==
  ASSUME \A u \in Uuids, l \in Links \ removing' :
           Ensured(u)' => /\ l \in store[u] => l \in store'[u]
                          /\ \A j \in jobs : Carries(j, u, l) =>
                               l \in store'[u] \/ \E k \in jobs' : Carries(k, u, l)
  PROVE  KeepsReached
  BY DEF KeepsReached, Ensured, Reached, Pending, Carries

LEMMA ReachStep == TypeOK /\ EngineInv /\ JobInv /\ ReachInv /\ [Next]_vars => ReachInv'
<1> SUFFICES ASSUME TypeOK, EngineInv, JobInv, ReachInv, [Next]_vars
             PROVE  ReachInv'
  OBVIOUS
<1> DEFINE Goal == KeepsReached /\ EnginesRest
<1>1. CASE UNCHANGED vars
  <2>1. KeepsReached
    BY <1>1, KeepsIf DEF vars, history
  <2>2. EnginesRest
    BY <1>1 DEF vars, history, EnginesRest, Ensured
  <2> QED
    BY <2>1, <2>2, ReachKept
<1>2. ASSUME NEW u \in Uuids, Add(u) PROVE Goal
  <2>1. KeepsReached
    BY <1>2, KeepsIf DEF Add, history
  <2> QED
    BY <1>2, <2>1 DEF Add, history, EnginesRest, Ensured, TypeOK
<1>3. ASSUME NEW u \in Uuids, Remove(u) PROVE Goal
  <2>1. KeepsReached
    BY <1>3, KeepsIf DEF Remove, Ensured, history, TypeOK
  <2> QED
    BY <1>3, <2>1 DEF Remove, history, EnginesRest, Ensured, TypeOK
<1>4. ASSUME NEW u \in Uuids, NEW A \in SUBSET Fresh, AddLinks(u, A) PROVE Goal
  <2>1. KeepsReached
    BY <1>4, KeepsIf DEF AddLinks
  <2> QED
    BY <1>4, <2>1 DEF AddLinks, EnginesRest, Ensured
<1>5. ASSUME NEW u \in Uuids, NEW l \in Visible(u), RemoveLink(u, l) PROVE Goal
  <2>1. KeepsReached
    BY <1>5, KeepsIf DEF RemoveLink, StoreRemove, TypeOK
  <2> QED
    BY <1>5, <2>1 DEF RemoveLink, EnginesRest, Ensured
<1>6. ASSUME NEW u \in Uuids, NEW old \in Visible(u), NEW new \in Fresh,
             UpdateLink(u, old, new)
      PROVE  Goal
  <2>1. KeepsReached
    BY <1>6, KeepsIf DEF UpdateLink, StoreRemove, TypeOK
  <2> QED
    BY <1>6, <2>1 DEF UpdateLink, EnginesRest, Ensured
<1>7. ASSUME NEW u \in Uuids, NEW A \in SUBSET Fresh, NEW R \in SUBSET Visible(u),
             LinkMutations(u, A, R)
      PROVE  Goal
  <2>1. KeepsReached
    BY <1>7, KeepsIf DEF LinkMutations
  <2> QED
    BY <1>7, <2>1 DEF LinkMutations, EnginesRest, Ensured
<1>8. ASSUME NEW u \in Uuids, NEW code \in Fresh \ Bad, NEW type \in Fresh \ Bad,
             AddSdna(u, code, type)
      PROVE  Goal
  <2>1. KeepsReached
    BY <1>8, KeepsIf DEF AddSdna, StoreAdd, TypeOK
  <2> QED
    BY <1>8, <2>1 DEF AddSdna, EnginesRest, Ensured
<1>9. ASSUME NEW u \in Uuids, NEW e \in Engines, StartSync(u, e) PROVE ReachInv'
  <2>1. KeepsReached
    BY <1>9, KeepsIf DEF StartSync, history
  <2>2. /\ engines'[e].pc = "sync" /\ engines'[e].snap = net
        /\ \A d \in Engines \ {e} : engines'[d] = engines[d]
        /\ net' = net /\ removing' = removing /\ handles' = handles
    BY <1>9 DEF StartSync, history, TypeOK, Engine
  <2> QED
    BY <2>1, <2>2 DEF KeepsReached, ReachInv, Ensured, TypeOK
<1>10. ASSUME NEW u \in Uuids, StopSync(u) PROVE Goal
  <2>1. KeepsReached
    BY <1>10, KeepsIf DEF StopSync, history
  <2>2. \A e \in Engines : \/ engines'[e] = engines[e]
                          \/ ~engines'[e].running
    BY <1>10 DEF StopSync, TypeOK, Engine
  <2> QED
    BY <1>10, <2>1, <2>2 DEF StopSync, history, EnginesRest, Ensured
<1>11. ASSUME NEW u \in Uuids, SetLinkLanguage(u) PROVE Goal
  <2>1. KeepsReached
    BY <1>11, KeepsIf DEF SetLinkLanguage, history
  <2> QED
    BY <1>11, <2>1 DEF SetLinkLanguage, history, EnginesRest, Ensured
<1>12. ASSUME NEW u \in Uuids, SyncPerspective(u) PROVE Goal
  <2>1. KeepsReached
    BY <1>12, KeepsIf DEF SyncPerspective, history
  <2> QED
    BY <1>12, <2>1 DEF SyncPerspective, history, EnginesRest, Ensured
<1>13. ASSUME NEW j \in jobs, SdnaType(j) PROVE Goal
  <2>1. KeepsReached
    BY <1>13, KeepsIf DEF SdnaType, StoreAdd, Finish, Carries, history, TypeOK
  <2> QED
    BY <1>13, <2>1 DEF SdnaType, history, EnginesRest, Ensured
<1>14. ASSUME NEW j \in jobs, NEW l \in j.toAdd, StoreOne(j, l) PROVE Goal
  <2>1. /\ j.kind # "diff" /\ jobs \ {j} \subseteq jobs'
        /\ \A u \in Uuids : store[u] \subseteq store'[u]
    BY <1>14 DEF StoreOne, Writing, Replace, StoreAdd, TypeOK
  <2>2. KeepsReached
    BY <2>1, KeepsIf DEF Carries
  <2> QED
    BY <1>14, <2>2 DEF StoreOne, history, EnginesRest, Ensured
<1>15. ASSUME NEW j \in jobs, NEW l \in j.toAdd, StoreThrows(j, l) PROVE Goal
  <2>1. KeepsReached
    BY <1>15, KeepsIf DEF StoreThrows, Writing, Finish, Carries
  <2> QED
    BY <1>15, <2>1 DEF StoreThrows, EnginesRest, Ensured
<1>16. ASSUME NEW j \in jobs, NEW l \in j.toAdd, DiffAdd(j, l) PROVE Goal
  <2> DEFINE k == [j EXCEPT !.toAdd = @ \ {l}, !.added = @ \cup {l}, !.pc = "store"]
  <2>1. k.kind = j.kind /\ k.u = j.u /\ k.toAdd = j.toAdd \ {l} /\ k.pc = "store"
    BY DEF TypeOK, Job
  <2>2. jobs' = (jobs \ {j}) \cup {k}
    BY <1>16 DEF DiffAdd, Replace
  <2> HIDE DEF k
  <2>3. /\ \A u \in Uuids : store[u] \subseteq store'[u]
        /\ l \in store'[j.u]
    BY <1>16 DEF DiffAdd, StoreAdd, TypeOK, Job
  <2>4. KeepsReached
    BY <2>1, <2>2, <2>3, KeepsIf DEF Carries
  <2> QED
    BY <1>16, <2>4 DEF DiffAdd, history, EnginesRest, Ensured
<1>17. ASSUME NEW j \in jobs, NEW r \in j.toRemove, RemoveOne(j, r) PROVE Goal
  <2>1. /\ j.kind # "diff" /\ jobs \ {j} \subseteq jobs' /\ r \in removing'
        /\ \A u \in Uuids : store[u] \ {r} \subseteq store'[u]
    BY <1>17 DEF RemoveOne, Writing, Replace, StoreRemove, JobInv, history, TypeOK
  <2>2. KeepsReached
    BY <2>1, KeepsIf DEF Carries
  <2> QED
    BY <1>17, <2>2 DEF RemoveOne, history, EnginesRest, Ensured
<1>18. ASSUME NEW j \in jobs, PushPrivate(j) PROVE Goal
  <2>1. KeepsReached
    BY <1>18, KeepsIf DEF PushPrivate, Ready, LocalKind, Finish, Carries, history
  <2> QED
    BY <1>18, <2>1 DEF PushPrivate, history, EnginesRest, Ensured
<1>19. ASSUME NEW j \in jobs, NEW fa \in Firsts(j.added), NEW fr \in Firsts(j.removed),
              PushCommit(j, fa, fr)
       PROVE  ReachInv'
  <2>1. /\ j.kind # "diff" /\ jobs \ {j} \subseteq jobs'
        /\ fa \subseteq j.added /\ fr \subseteq removing
        /\ removing' = removing /\ handles' = handles /\ engines' = engines
        /\ net' \subseteq net \cup j.added
    BY <1>19, CommitBounds DEF PushCommit, Ready, LocalKind, Firsts, JobInv
  <2>2. \A u \in Uuids : /\ store[u] \ fr \subseteq store'[u]
                         /\ u \in Live => fa \ fr \subseteq store'[u]
    BY <1>19 DEF PushCommit, TypeOK
  <2>3. KeepsReached
    <3>1. ASSUME NEW u \in Uuids, NEW l \in Links \ removing', l \in store[u]
          PROVE  l \in store'[u]
      BY <2>1, <2>2, <3>1
    <3>2. ASSUME NEW u \in Uuids, NEW l, NEW c \in jobs, Carries(c, u, l)
          PROVE  c \in jobs'
      BY <2>1, <3>2 DEF Carries
    <3> QED
      BY <3>1, <3>2, KeepsIf
  <2>4. ASSUME NEW e \in Engines, NEW u \in Uuids, NEW l \in j.added \ removing,
               engines[e].running, engines[e].uuid = u
        PROVE  Reached(u, l)'
    <3> DEFINE d == IF Split THEN <<j.added, {}>> ELSE <<j.added, j.removed>>
               k == DiffJob(u, e, j.u, d[1], d[2], d[1] \cap fa, d[2] \cap fr)
    <3>1. u \in Live /\ e \in Observers
      BY <2>4 DEF Live, Observers
    <3>2. d \in Notified(j.added, j.removed) /\ d[1] = j.added
      BY <2>4 DEF Notified
    <3> HIDE DEF d
    <3>3. k \in DiffJobs(j.u, j.added, j.removed, fa, fr)
      <4>1. Observe(e, j.u, d, fa, fr) \in DiffJobs(j.u, j.added, j.removed, fa, fr)
        BY <3>1, <3>2 DEF DiffJobs
      <4> QED
        BY <2>4, <4>1 DEF Observe
    <3>4. k \in jobs'
      BY <1>19, <3>3 DEF PushCommit
    <3>5. CASE l \in fa
      <4>1. l \in fa \ fr
        BY <2>1, <3>5
      <4>2. l \in store'[u]
        BY <2>2, <3>1, <4>1
      <4> QED
        BY <4>2 DEF Reached
    <3>6. CASE l \notin fa
      <4>1. k.kind = "diff" /\ k.u = u /\ l \in k.toAdd /\ k.pc = "store"
        BY <2>4, <3>2, <3>6 DEF DiffJob
      <4> QED
        BY <3>4, <4>1 DEF Reached, Pending
    <3> QED
      BY <3>5, <3>6
  <2> QED
    BY <2>1, <2>3, <2>4 DEF KeepsReached, ReachInv, Ensured, TypeOK
<1>20. ASSUME NEW j \in jobs, CommitResolves(j) PROVE Goal
  <2>1. KeepsReached
    BY <1>20, KeepsIf DEF CommitResolves, Finish, Carries, JobInv, history
  <2> QED
    BY <1>20, <2>1 DEF CommitResolves, history, EnginesRest, Ensured
<1>21. ASSUME NEW j \in jobs, NEW fr \in Firsts(j.toRemove), DiffNext(j, fr) PROVE Goal
  <2>1. /\ j.toAdd = {} /\ jobs \ {j} \subseteq jobs'
    BY <1>21 DEF DiffNext, Finish, Replace
  <2>2. /\ fr \subseteq removing'
        /\ \A u \in Uuids : store[u] \ fr \subseteq store'[u]
    BY <1>21 DEF DiffNext, Firsts, StoreRemove, JobInv, history, TypeOK
  <2>3. KeepsReached
    BY <2>1, <2>2, KeepsIf DEF Carries
  <2> QED
    BY <1>21, <2>3 DEF DiffNext, history, EnginesRest, Ensured
<1>22. ASSUME NEW j \in jobs, SignFails(j) PROVE Goal
  <2>1. KeepsReached
    BY <1>22, KeepsIf DEF SignFails, Writing, Finish, Carries
  <2> QED
    BY <1>22, <2>1 DEF SignFails, EnginesRest, Ensured
<1>23. ASSUME NEW j \in jobs, PushLost(j) PROVE Goal
  <2>1. KeepsReached
    BY <1>23, KeepsIf DEF PushLost, Ready, LocalKind, Replace, Carries, history
  <2> QED
    BY <1>23, <2>1 DEF PushLost, history, EnginesRest, Ensured
<1>24. ASSUME NEW j \in jobs, CommitRejects(j) PROVE Goal
  <2>1. KeepsReached
    BY <1>24, KeepsIf DEF CommitRejects, Finish, Carries, JobInv
  <2> QED
    BY <1>24, <2>1 DEF CommitRejects, EnginesRest, Ensured
<1>25. ASSUME NEW j \in jobs, SyncRejects(j) PROVE Goal
  <2>1. KeepsReached
    BY <1>25, KeepsIf DEF SyncRejects, Finish, Carries, history
  <2> QED
    BY <1>25, <2>1 DEF SyncRejects, history, EnginesRest, Ensured
<1>26. ASSUME NEW e \in Engines, NEW f \in Firsts(engines[e].snap), SyncReturns(e, f)
       PROVE  ReachInv'
  <2> DEFINE v == engines[e].uuid
             S == engines[e].snap
             k == DiffJob(v, e, None, S, {}, f, {})
  <2> PICK u \in Uuids : u = v
    BY <1>26 DEF SyncReturns, EngineInv
  <2>1. f \subseteq S /\ (f = {} => S = {})
    BY <1>26 DEF SyncReturns, EngineInv, Firsts
  <2>2. /\ \A w \in Uuids : store[w] \subseteq store'[w]
        /\ f \subseteq store'[u]
        /\ jobs \subseteq jobs'
        /\ f # {} => k \in jobs'
        /\ net' = net /\ removing' = removing /\ handles' = handles
    BY <1>26, <2>1 DEF SyncReturns, StoreAdd, history, TypeOK
  <2>3. KeepsReached
    BY <2>2, KeepsIf
  <2>4. /\ engines[e].pc = "sync" /\ engines'[e].pc = "revision"
        /\ engines'[e].uuid = u /\ engines'[e].running = engines[e].running
        /\ \A d \in Engines \ {e} : engines'[d] = engines[d]
    BY <1>26 DEF SyncReturns, TypeOK, Engine
  <2>5. ASSUME NEW l \in S PROVE Reached(u, l)'
    <3>1. CASE l \in f
      BY <2>2, <3>1 DEF Reached
    <3>2. CASE l \notin f
      <4>1. k.kind = "diff" /\ k.u = u /\ l \in k.toAdd /\ k.pc = "store"
        BY <3>2 DEF DiffJob
      <4>2. k \in jobs'
        BY <2>1, <2>2
      <4> QED
        BY <4>1, <4>2 DEF Reached, Pending
    <3> QED
      BY <3>1, <3>2
  <2> QED
    BY <2>1, <2>2, <2>3, <2>4, <2>5 DEF KeepsReached, ReachInv, Ensured, TypeOK
<1>27. ASSUME NEW e \in Engines, RevisionReturns(e) PROVE ReachInv'
  <2>1. KeepsReached
    BY <1>27, KeepsIf DEF RevisionReturns, history
  <2>2. /\ engines[e].pc = "revision"
        /\ engines'[e].uuid = engines[e].uuid /\ engines'[e].running = engines[e].running
        /\ engines'[e].pc = "done"
        /\ \A d \in Engines \ {e} : engines'[d] = engines[d]
        /\ net' = net /\ removing' = removing
    BY <1>27 DEF RevisionReturns, history, TypeOK, Engine
  <2>3. \A u \in Uuids : Ensured(u)' => Ensured(u)
    BY <1>27 DEF RevisionReturns, Ensured, TypeOK
  <2> QED
    BY <2>1, <2>2, <2>3 DEF KeepsReached, ReachInv, TypeOK
<1>28. ASSUME NEW e \in Engines, StartRejects(e) PROVE Goal
  <2>1. KeepsReached
    BY <1>28, KeepsIf DEF StartRejects, history
  <2>2. \A d \in Engines : \/ engines'[d] = engines[d]
                          \/ engines'[d].pc = "failed"
    BY <1>28 DEF StartRejects, TypeOK, Engine
  <2> QED
    BY <1>28, <2>1, <2>2 DEF StartRejects, history, EnginesRest, Ensured
<1>29. Goal => ReachInv'
  BY ReachKept
<1> HIDE DEF Goal
<1> QED
  BY <1>1, <1>2, <1>3, <1>4, <1>5, <1>6, <1>7, <1>8, <1>9, <1>10, <1>11, <1>12, <1>13,
     <1>14, <1>15, <1>16, <1>17, <1>18, <1>19, <1>20, <1>21, <1>22, <1>23, <1>24, <1>25,
     <1>26, <1>27, <1>28, <1>29
     DEF Next, Call, LinkCall, BatchCall, EngineCall, AdapterCall, Settle, Resume, Reject,
         ResumeStart

(***************************************************************************)
(* A link the language holds and nobody asked to remove is in every        *)
(* replica whose engine has made its initial sync, or on its way there: no *)
(* order of commits, initial syncs, stops and removals loses an addition.  *)
(***************************************************************************)
THEOREM NoMissedAdditionCorrect == Spec => []NoMissedAddition
<1>1. Init => ReachInv
  BY DEF Init, ReachInv
<1>2. (TypeOK /\ EngineInv) /\ (ValidInv /\ JobInv) /\ ReachInv /\ [Next]_vars => ReachInv'
  BY ReachStep
<1>3. (TypeOK /\ EngineInv) /\ ReachInv => NoMissedAddition
  <2> SUFFICES ASSUME TypeOK, EngineInv, ReachInv,
                      NEW e \in Engines, NEW l \in net \ removing,
                      engines[e].running, engines[e].pc \in {"revision", "done"},
                      Ensured(engines[e].uuid)
               PROVE  Reached(engines[e].uuid, l)
    BY DEF NoMissedAddition, Reached
  <2>1. engines[e].uuid \in Uuids
    BY DEF EngineInv
  <2> QED
    BY <2>1 DEF ReachInv
<1> QED
  BY <1>1, <1>2, <1>3, TypedEngines, LinksInvariant, PTL DEF Spec

-----------------------------------------------------------------------------
(* No link is kept from the listeners.                                     *)

(***************************************************************************)
(* What a suspended call has stored, it carries to its announcement: it    *)
(* has stored nothing before its signatures are made or its adapter has    *)
(* answered, and addSdna, which announces nothing, stores only links that  *)
(* are known to be kept from the listeners.  A perspective that was never  *)
(* added has neither calls nor links.                                      *)
(***************************************************************************)
CarryJob(j) ==
  /\ handles[j.u] # "unused"
  /\ j.pc \in {"sign", "ask"} \/ j.kind = "sdna" => j.added = {}
  /\ j.kind = "sdna" => j.toAdd \subseteq halfDone

CarryInv ==
  /\ \A j \in jobs : CarryJob(j)
  /\ \A u \in Uuids : handles[u] = "unused" => store[u] = {}

LEMMA CarryStep ==
  TypeOK /\ EngineInv /\ JobInv /\ CarryInv /\ [Next]_vars => CarryInv'
<1> SUFFICES ASSUME TypeOK, EngineInv, JobInv, CarryInv, [Next]_vars
             PROVE  CarryInv'
  OBVIOUS
<1> DEFINE Goal == CarryInv'
<1> USE DEF CarryInv, CarryJob
<1>1. CASE UNCHANGED vars
  BY <1>1 DEF vars, history
<1>2. ASSUME NEW u \in Uuids, Add(u) PROVE Goal
  BY <1>2 DEF Add, history, TypeOK, Job
<1>3. ASSUME NEW u \in Uuids, Remove(u) PROVE Goal
  BY <1>3 DEF Remove, history, TypeOK, Job
<1>4. ASSUME NEW u \in Uuids, NEW A \in SUBSET Fresh, AddLinks(u, A) PROVE Goal
  BY <1>4 DEF AddLinks, NewJob, Ensured
<1>5. ASSUME NEW u \in Uuids, NEW l \in Visible(u), RemoveLink(u, l) PROVE Goal
  BY <1>5 DEF RemoveLink, NewJob, StoreRemove, Ensured, TypeOK
<1>6. ASSUME NEW u \in Uuids, NEW old \in Visible(u), NEW new \in Fresh,
             UpdateLink(u, old, new)
      PROVE  Goal
  BY <1>6 DEF UpdateLink, NewJob, StoreRemove, Ensured, TypeOK
<1>7. ASSUME NEW u \in Uuids, NEW A \in SUBSET Fresh, NEW R \in SUBSET Visible(u),
             LinkMutations(u, A, R)
      PROVE  Goal
  BY <1>7 DEF LinkMutations, NewJob, Ensured
<1>8. ASSUME NEW u \in Uuids, NEW code \in Fresh \ Bad, NEW type \in Fresh \ Bad,
             AddSdna(u, code, type)
      PROVE  Goal
  BY <1>8 DEF AddSdna, NewJob, StoreAdd, Ensured, TypeOK
<1>9. ASSUME NEW u \in Uuids, EngineCall(u) PROVE Goal
  BY <1>9 DEF EngineCall, StartSync, StopSync, history
<1>11. ASSUME NEW u \in Uuids, SetLinkLanguage(u) PROVE Goal
  BY <1>11 DEF SetLinkLanguage, history
<1>12. ASSUME NEW u \in Uuids, SyncPerspective(u) PROVE Goal
  <2> DEFINE k == [DiffJob(u, None, None, net, {}, {}, {}) EXCEPT !.pc = "ask"]
  <2>1. k.kind = "diff" /\ k.u = u /\ k.added = {}
    BY DEF DiffJob
  <2>2. jobs' = jobs \cup {k}
    BY <1>12 DEF SyncPerspective
  <2> HIDE DEF k
  <2> QED
    BY <1>12, <2>1, <2>2 DEF SyncPerspective, Ensured, history
<1>13. ASSUME NEW j \in jobs, SdnaType(j) PROVE Goal
  BY <1>13 DEF SdnaType, StoreAdd, Finish, history, TypeOK, Job
<1>14. ASSUME NEW j \in jobs, NEW l \in j.toAdd, StoreOne(j, l) PROVE Goal
  <2> DEFINE k == [j EXCEPT !.toAdd = @ \ {l}, !.added = @ \cup {l}, !.pc = "store"]
  <2>1. k.kind = j.kind /\ k.u = j.u /\ k.pc = "store"
    BY DEF TypeOK, Job
  <2>2. jobs' = (jobs \ {j}) \cup {k} /\ j.kind # "sdna"
    BY <1>14 DEF StoreOne, Writing, Replace
  <2> HIDE DEF k
  <2> QED
    BY <1>14, <2>1, <2>2 DEF StoreOne, StoreAdd, history, TypeOK
<1>15. ASSUME NEW j \in jobs, NEW l \in j.toAdd, StoreThrows(j, l) PROVE Goal
  BY <1>15 DEF StoreThrows, Finish
<1>16. ASSUME NEW j \in jobs, NEW l \in j.toAdd, DiffAdd(j, l) PROVE Goal
  <2> DEFINE k == [j EXCEPT !.toAdd = @ \ {l}, !.added = @ \cup {l}, !.pc = "store"]
  <2>1. k.kind = j.kind /\ k.u = j.u /\ k.pc = "store"
    BY DEF TypeOK, Job
  <2>2. jobs' = (jobs \ {j}) \cup {k} /\ j.kind = "diff"
    BY <1>16 DEF DiffAdd, Replace
  <2> HIDE DEF k
  <2> QED
    BY <1>16, <2>1, <2>2 DEF DiffAdd, StoreAdd, history, TypeOK
<1>17. ASSUME NEW j \in jobs, NEW r \in j.toRemove, RemoveOne(j, r) PROVE Goal
  <2> DEFINE k == [j EXCEPT !.toRemove = @ \ {r},
                            !.removed = @ \cup ({r} \cap store[j.u]), !.pc = "store"]
  <2>1. k.kind = j.kind /\ k.u = j.u /\ k.pc = "store"
    BY DEF TypeOK, Job
  <2>2. jobs' = (jobs \ {j}) \cup {k} /\ j.kind # "sdna"
    BY <1>17 DEF RemoveOne, Writing, Replace
  <2> HIDE DEF k
  <2> QED
    BY <1>17, <2>1, <2>2 DEF RemoveOne, StoreRemove, history, TypeOK
<1>18. ASSUME NEW j \in jobs, PushPrivate(j) PROVE Goal
  BY <1>18 DEF PushPrivate, Finish, history
<1>19. ASSUME NEW j \in jobs, NEW fa \in Firsts(j.added), NEW fr \in Firsts(j.removed),
              PushCommit(j, fa, fr)
       PROVE  Goal
  <2> DEFINE k == [j EXCEPT !.pc = "commit"]
  <2>1. k.kind = j.kind /\ k.u = j.u /\ k.pc = "commit" /\ k.kind # "sdna"
    BY <1>19 DEF PushCommit, Ready, LocalKind, TypeOK, Job
  <2>2. ASSUME NEW d \in DiffJobs(j.u, j.added, j.removed, fa, fr)
        PROVE  d.kind = "diff" /\ d.pc \in {"store", "emit"} /\ handles[d.u] # "unused"
    <3>1. d.kind = "diff" /\ d.pc \in {"store", "emit"}
      BY DiffJobsCarry
    <3>2. PICK o \in Observers : d.u = engines[o].uuid
      BY DEF DiffJobs, Observe, DiffJob
    <3>3. engines[o].uuid # None /\ o \in Engines
      BY <3>2, ManagerAssumption DEF Observers, Live, EngineInv
    <3> QED
      BY <3>1, <3>2, <3>3 DEF EngineInv
  <2>3. \A v \in Live : v \in Uuids /\ handles[v] # "unused"
    BY ManagerAssumption DEF Live, EngineInv
  <2>4. \A v \in Uuids : handles[v] = "unused" => store'[v] = store[v]
    BY <1>19, <2>3 DEF PushCommit
  <2>5. jobs' = (jobs \ {j}) \cup {k} \cup DiffJobs(j.u, j.added, j.removed, fa, fr)
    BY <1>19 DEF PushCommit
  <2> HIDE DEF k
  <2> QED
    BY <1>19, <2>1, <2>2, <2>4, <2>5 DEF PushCommit
<1>20. ASSUME NEW j \in jobs, CommitResolves(j) PROVE Goal
  BY <1>20 DEF CommitResolves, Finish, history
<1>21. ASSUME NEW j \in jobs, NEW fr \in Firsts(j.toRemove), DiffNext(j, fr) PROVE Goal
  <2> DEFINE k == [j EXCEPT !.toRemove = @ \ fr, !.added = {}, !.removed = fr, !.pc = "emit"]
  <2>1. k.kind = j.kind /\ k.u = j.u /\ k.pc = "emit"
    BY DEF TypeOK, Job
  <2>2. jobs' \subseteq (jobs \ {j}) \cup {k} /\ j.kind = "diff"
    BY <1>21 DEF DiffNext, Replace, Finish
  <2> HIDE DEF k
  <2> QED
    BY <1>21, <2>1, <2>2 DEF DiffNext, StoreRemove, history, TypeOK
<1>22. ASSUME NEW j \in jobs, SignFails(j) PROVE Goal
  BY <1>22 DEF SignFails, Finish
<1>23. ASSUME NEW j \in jobs, PushLost(j) PROVE Goal
  <2> DEFINE k == [j EXCEPT !.pc = "refused"]
  <2>1. k.kind = j.kind /\ k.u = j.u /\ k.pc = "refused" /\ k.kind # "sdna"
    BY <1>23 DEF PushLost, Ready, LocalKind, TypeOK, Job
  <2>2. jobs' = (jobs \ {j}) \cup {k}
    BY <1>23 DEF PushLost, Replace
  <2> HIDE DEF k
  <2> QED
    BY <1>23, <2>1, <2>2 DEF PushLost, history
<1>24. ASSUME NEW j \in jobs, CommitRejects(j) PROVE Goal
  BY <1>24 DEF CommitRejects, Finish
<1>25. ASSUME NEW j \in jobs, SyncRejects(j) PROVE Goal
  BY <1>25 DEF SyncRejects, Finish, history
<1>26. ASSUME NEW e \in Engines, NEW f \in Firsts(engines[e].snap), SyncReturns(e, f)
       PROVE  Goal
  <2> DEFINE k == DiffJob(engines[e].uuid, e, None, engines[e].snap, {}, f, {})
  <2>1. /\ engines[e].uuid \in Uuids /\ handles[engines[e].uuid] # "unused"
    BY <1>26, ManagerAssumption DEF SyncReturns, EngineInv
  <2>2. k.kind = "diff" /\ k.pc \in {"store", "emit"} /\ k.u = engines[e].uuid
    BY DEF DiffJob
  <2>3. jobs' \subseteq jobs \cup {k}
    BY <1>26 DEF SyncReturns
  <2> HIDE DEF k
  <2> QED
    BY <1>26, <2>1, <2>2, <2>3 DEF SyncReturns, StoreAdd, history, TypeOK
<1>27. ASSUME NEW e \in Engines, RevisionReturns(e) PROVE Goal
  BY <1>27, ManagerAssumption DEF RevisionReturns, Ensured, EngineInv, TypeOK, Job, history
<1>28. ASSUME NEW e \in Engines, StartRejects(e) PROVE Goal
  BY <1>28 DEF StartRejects, history
<1> HIDE DEF Goal
<1> QED
  BY <1>1, <1>2, <1>3, <1>4, <1>5, <1>6, <1>7, <1>8, <1>9, <1>11, <1>12, <1>13,
     <1>14, <1>15, <1>16, <1>17, <1>18, <1>19, <1>20, <1>21, <1>22, <1>23, <1>24, <1>25,
     <1>26, <1>27, <1>28
     DEF Next, Call, LinkCall, BatchCall, AdapterCall, Settle, Resume, Reject,
         ResumeStart, Goal

(***************************************************************************)
(* A link a replica holds is announced, or a call carries it.              *)
(***************************************************************************)
Told(u, l) == l \in view[u] \/ \E j \in jobs : j.u = u /\ l \in j.added

(***************************************************************************)
(* What a step keeps of a perspective that stays in the map: what is told  *)
(* or carried stays so, and only such links are put in its store, unless   *)
(* the history says otherwise.                                             *)
(***************************************************************************)
KeepsTold ==
  \A u \in Uuids, l \in Links \ (removing' \cup halfDone') :
    Ensured(u)' => /\ l \in store'[u] => l \in store[u] \/ Told(u, l)'
                   /\ Told(u, l) => Told(u, l)'

HistoryGrows ==
  removing \subseteq removing' /\ halfDone \subseteq halfDone'

(***************************************************************************)
(* A step that keeps what is told, and adds no perspective, keeps          *)
(* NoSilentLink.                                                           *)
(***************************************************************************)
LEMMA ToldKept ==
  ASSUME TypeOK', NoSilentLink, KeepsTold, HistoryGrows,
         \A u \in Uuids : Ensured(u)' => Ensured(u) \/ store'[u] = {}
  PROVE  NoSilentLink'
<1> SUFFICES ASSUME NEW u \in Uuids, Ensured(u)',
                    NEW l \in store'[u] \ (removing' \cup halfDone')
             PROVE  Told(u, l)'
  BY DEF NoSilentLink, Told
<1>1. l \in Links
  BY DEF TypeOK
<1>2. Ensured(u)
  OBVIOUS
<1>3. l \notin removing \cup halfDone
  BY DEF HistoryGrows
<1>4. l \in store[u] => Told(u, l)
  BY <1>2, <1>3 DEF NoSilentLink, Told
<1> QED
  BY <1>1, <1>4 DEF KeepsTold

LEMMA SilentStep ==
  TypeOK /\ TypeOK' /\ EngineInv /\ JobInv /\ CarryInv /\ NoSilentLink /\ [Next]_vars
    => NoSilentLink'
<1> SUFFICES ASSUME TypeOK, TypeOK', EngineInv, JobInv, CarryInv, NoSilentLink, [Next]_vars
             PROVE  NoSilentLink'
  OBVIOUS
<1> DEFINE Same == \A u \in Uuids : Ensured(u)' => Ensured(u) \/ store'[u] = {}
           Goal == KeepsTold /\ HistoryGrows /\ Same
<1> USE DEF HistoryGrows
<1>1. CASE UNCHANGED vars
  BY <1>1 DEF vars, history, NoSilentLink, Ensured
<1>2. ASSUME NEW u \in Uuids, Add(u) PROVE Goal
  BY <1>2 DEF Add, history, KeepsTold, Told, Ensured, CarryInv, TypeOK
<1>3. ASSUME NEW u \in Uuids, Remove(u) PROVE Goal
  BY <1>3 DEF Remove, history, KeepsTold, Told, Ensured, TypeOK
<1>4. ASSUME NEW u \in Uuids, NEW A \in SUBSET Fresh, AddLinks(u, A) PROVE Goal
  BY <1>4 DEF AddLinks, KeepsTold, Told, Ensured
<1>5. ASSUME NEW u \in Uuids, NEW l \in Visible(u), RemoveLink(u, l) PROVE Goal
  BY <1>5 DEF RemoveLink, StoreRemove, KeepsTold, Told, Ensured, TypeOK
<1>6. ASSUME NEW u \in Uuids, NEW old \in Visible(u), NEW new \in Fresh,
             UpdateLink(u, old, new)
      PROVE  Goal
  BY <1>6 DEF UpdateLink, StoreRemove, KeepsTold, Told, Ensured, TypeOK
<1>7. ASSUME NEW u \in Uuids, NEW A \in SUBSET Fresh, NEW R \in SUBSET Visible(u),
             LinkMutations(u, A, R)
      PROVE  Goal
  BY <1>7 DEF LinkMutations, KeepsTold, Told, Ensured
<1>8. ASSUME NEW u \in Uuids, NEW code \in Fresh \ Bad, NEW type \in Fresh \ Bad,
             AddSdna(u, code, type)
      PROVE  Goal
  BY <1>8 DEF AddSdna, StoreAdd, KeepsTold, Told, Ensured, TypeOK
<1>9. ASSUME NEW u \in Uuids, EngineCall(u) PROVE Goal
  BY <1>9 DEF EngineCall, StartSync, StopSync, history, KeepsTold, Told, Ensured
<1>11. ASSUME NEW u \in Uuids, AdapterCall(u) PROVE Goal
  BY <1>11 DEF AdapterCall, SetLinkLanguage, SyncPerspective, history, KeepsTold, Told, Ensured
<1>13. ASSUME NEW j \in jobs, SdnaType(j) PROVE Goal
  <2>1. j.added = {} /\ j.toAdd \subseteq halfDone
    BY <1>13 DEF SdnaType, CarryInv, CarryJob
  <2> QED
    BY <1>13, <2>1 DEF SdnaType, StoreAdd, Finish, history, KeepsTold, Told, Ensured, TypeOK
<1>14. ASSUME NEW j \in jobs, NEW l \in j.toAdd, StoreOne(j, l) \/ DiffAdd(j, l) PROVE Goal
  <2> DEFINE k == [j EXCEPT !.toAdd = @ \ {l}, !.added = @ \cup {l}, !.pc = "store"]
  <2>1. k.u = j.u /\ k.added = j.added \cup {l}
    BY DEF TypeOK, Job
  <2>2. jobs' = (jobs \ {j}) \cup {k}
    BY <1>14 DEF StoreOne, DiffAdd, Replace
  <2> HIDE DEF k
  <2>3. \A u \in Uuids : store'[u] = IF u = j.u THEN store[u] \cup {l} ELSE store[u]
    BY <1>14 DEF StoreOne, DiffAdd, StoreAdd, TypeOK
  <2> QED
    BY <1>14, <2>1, <2>2, <2>3 DEF StoreOne, DiffAdd, history, KeepsTold, Told, Ensured
<1>15. ASSUME NEW j \in jobs, NEW l \in j.toAdd, StoreThrows(j, l) PROVE Goal
  BY <1>15 DEF StoreThrows, Finish, KeepsTold, Told, Ensured
<1>17. ASSUME NEW j \in jobs, NEW r \in j.toRemove, RemoveOne(j, r) PROVE Goal
  <2> DEFINE k == [j EXCEPT !.toRemove = @ \ {r},
                            !.removed = @ \cup ({r} \cap store[j.u]), !.pc = "store"]
  <2>1. k.u = j.u /\ k.added = j.added
    BY DEF TypeOK, Job
  <2>2. jobs' = (jobs \ {j}) \cup {k}
    BY <1>17 DEF RemoveOne, Replace
  <2> HIDE DEF k
  <2>3. \A u \in Uuids : store'[u] \subseteq store[u]
    BY <1>17 DEF RemoveOne, StoreRemove, TypeOK
  <2> QED
    BY <1>17, <2>1, <2>2, <2>3 DEF RemoveOne, history, KeepsTold, Told, Ensured
<1>18. ASSUME NEW j \in jobs, PushPrivate(j) \/ CommitResolves(j) PROVE Goal
  <2>1. j.removed \subseteq removing'
    BY <1>18 DEF JobInv, PushPrivate, CommitResolves, history
  <2>2. \A u \in Uuids : view'[u] = IF u = j.u THEN (view[u] \cup j.added) \ j.removed
                                              ELSE view[u]
    BY <1>18 DEF PushPrivate, CommitResolves, Announce, TypeOK
  <2> QED
    BY <1>18, <2>1, <2>2 DEF PushPrivate, CommitResolves, Finish, history, KeepsTold, Told,
                             Ensured
<1>19. ASSUME NEW j \in jobs, NEW fa \in Firsts(j.added), NEW fr \in Firsts(j.removed),
              PushCommit(j, fa, fr)
       PROVE  Goal
  <2> DEFINE k == [j EXCEPT !.pc = "commit"]
  <2>1. k.u = j.u /\ k.added = j.added
    BY DEF TypeOK, Job
  <2>2. jobs' = (jobs \ {j}) \cup {k} \cup DiffJobs(j.u, j.added, j.removed, fa, fr)
    BY <1>19 DEF PushCommit
  <2>3. \A u \in Uuids : \/ store'[u] \subseteq store[u]
                         \/ u \in Live /\ store'[u] \subseteq store[u] \cup fa
    BY <1>19 DEF PushCommit
  <2>4. ASSUME NEW u \in Live, NEW l \in fa PROVE Told(u, l)'
    <3>1. PICK e \in Engines : engines[e].running /\ engines[e].uuid = u
      BY DEF Live
    <3> DEFINE d == IF Split THEN <<j.added, {}>> ELSE <<j.added, j.removed>>
               n == DiffJob(u, e, j.u, d[1], d[2], d[1] \cap fa, d[2] \cap fr)
    <3>2. l \in j.added
      BY DEF Firsts
    <3>3. d \in Notified(j.added, j.removed) /\ d[1] = j.added
      BY <3>2 DEF Notified
    <3>4. e \in Observers
      BY <3>1 DEF Observers
    <3> HIDE DEF d
    <3>5. n \in DiffJobs(j.u, j.added, j.removed, fa, fr)
      <4>1. Observe(e, j.u, d, fa, fr) \in DiffJobs(j.u, j.added, j.removed, fa, fr)
        BY <3>3, <3>4 DEF DiffJobs
      <4> QED
        BY <3>1, <4>1 DEF Observe
    <3>6. n.u = u /\ l \in n.added
      BY <3>2, <3>3 DEF DiffJob
    <3> HIDE DEF n
    <3> QED
      BY <2>2, <3>5, <3>6 DEF Told
  <2> HIDE DEF k
  <2>5. \A u \in Uuids, l \in Links : Told(u, l) => Told(u, l)'
    BY <1>19, <2>1, <2>2 DEF PushCommit, Told
  <2> QED
    BY <1>19, <2>3, <2>4, <2>5 DEF PushCommit, KeepsTold, Ensured
<1>21. ASSUME NEW j \in jobs, NEW fr \in Firsts(j.toRemove), DiffNext(j, fr) PROVE Goal
  <2>1. j.removed \subseteq removing'
    BY <1>21 DEF JobInv, DiffNext, history
  <2>2. \A u \in Uuids : /\ view'[u] = IF u = j.u THEN (view[u] \cup j.added) \ j.removed
                                                 ELSE view[u]
                         /\ store'[u] \subseteq store[u]
    BY <1>21 DEF DiffNext, Announce, StoreRemove, TypeOK
  <2>3. jobs \ {j} \subseteq jobs'
    BY <1>21 DEF DiffNext, Finish, Replace
  <2> QED
    BY <1>21, <2>1, <2>2, <2>3 DEF DiffNext, history, KeepsTold, Told, Ensured
<1>22. ASSUME NEW j \in jobs, SignFails(j) PROVE Goal
  <2>1. j.added = {}
    BY <1>22 DEF SignFails, CarryInv, CarryJob
  <2> QED
    BY <1>22, <2>1 DEF SignFails, Finish, KeepsTold, Told, Ensured
<1>23. ASSUME NEW j \in jobs, PushLost(j) PROVE Goal
  <2> DEFINE k == [j EXCEPT !.pc = "refused"]
  <2>1. k.u = j.u /\ k.added = j.added
    BY DEF TypeOK, Job
  <2>2. jobs' = (jobs \ {j}) \cup {k}
    BY <1>23 DEF PushLost, Replace
  <2> HIDE DEF k
  <2> QED
    BY <1>23, <2>1, <2>2 DEF PushLost, history, KeepsTold, Told, Ensured
<1>24. ASSUME NEW j \in jobs, CommitRejects(j) PROVE Goal
  BY <1>24 DEF CommitRejects, Finish, KeepsTold, Told, Ensured
<1>25. ASSUME NEW j \in jobs, SyncRejects(j) PROVE Goal
  <2>1. j.added = {}
    BY <1>25 DEF SyncRejects, CarryInv, CarryJob
  <2> QED
    BY <1>25, <2>1 DEF SyncRejects, Finish, history, KeepsTold, Told, Ensured
<1>26. ASSUME NEW e \in Engines, NEW f \in Firsts(engines[e].snap), SyncReturns(e, f)
       PROVE  Goal
  <2> PICK v \in Uuids : v = engines[e].uuid
    BY <1>26 DEF SyncReturns, EngineInv
  <2> DEFINE k == DiffJob(v, e, None, engines[e].snap, {}, f, {})
  <2>1. k.u = v /\ k.added = f
    BY DEF DiffJob
  <2>2. jobs' = jobs \cup (IF f = {} THEN {} ELSE {k})
    BY <1>26 DEF SyncReturns
  <2> HIDE DEF k
  <2>3. \A u \in Uuids : store'[u] = IF u = v THEN store[u] \cup f ELSE store[u]
    BY <1>26 DEF SyncReturns, StoreAdd, TypeOK
  <2>4. /\ jobs \subseteq jobs'
        /\ f # {} => k \in jobs'
        /\ UNCHANGED <<handles, view, history>>
    BY <1>26, <2>2 DEF SyncReturns
  <2>5. \A u \in Uuids, l \in Links : Told(u, l) => Told(u, l)'
    BY <2>4 DEF Told
  <2>6. \A l \in f : Told(v, l)'
    BY <2>1, <2>4 DEF Told
  <2> QED
    BY <2>3, <2>4, <2>5, <2>6 DEF history, KeepsTold, Ensured
<1>27. ASSUME NEW e \in Engines, RevisionReturns(e) PROVE Goal
  BY <1>27 DEF RevisionReturns, Ensured, TypeOK, history, KeepsTold, Told
<1>28. ASSUME NEW e \in Engines, StartRejects(e) PROVE Goal
  BY <1>28 DEF StartRejects, history, KeepsTold, Told, Ensured
<1>29. Goal => NoSilentLink'
  BY ToldKept
<1> HIDE DEF Goal
<1> QED
  BY <1>1, <1>2, <1>3, <1>4, <1>5, <1>6, <1>7, <1>8, <1>9, <1>11, <1>13,
     <1>14, <1>15, <1>17, <1>18, <1>19, <1>21, <1>22, <1>23, <1>24, <1>25,
     <1>26, <1>27, <1>28, <1>29
     DEF Next, Call, LinkCall, BatchCall, Settle, Resume, Reject, ResumeStart

(***************************************************************************)
(* Every link in a live perspective's store has been announced, or a call  *)
(* that will announce it is under way, but for those of addSdna and of     *)
(* calls that failed half way, in every interleaving of calls and diffs.   *)
(***************************************************************************)
THEOREM NoSilentLinkCorrect == Spec => []NoSilentLink
<1>1. Init => CarryInv /\ NoSilentLink
  BY DEF Init, CarryInv, NoSilentLink
<1>2. /\ (TypeOK /\ EngineInv) /\ (TypeOK /\ EngineInv)' /\ (ValidInv /\ JobInv)
      /\ CarryInv /\ NoSilentLink /\ [Next]_vars
      => (CarryInv /\ NoSilentLink)'
  BY CarryStep, SilentStep
<1> QED
  BY <1>1, <1>2, TypedEngines, LinksInvariant, PTL DEF Spec

-----------------------------------------------------------------------------
(* What is announced was accepted.                                         *)

(***************************************************************************)
(* What comes from the language it has taken, and so has what a call that  *)
(* is past its commit has stored.                                          *)
(***************************************************************************)
TakenJob(j) ==
  /\ j.kind = "diff" \/ j.pc = "commit" => j.added \subseteq accepted
  /\ j.kind = "diff" => j.toAdd \subseteq accepted

TakenInv ==
  /\ net \subseteq accepted
  /\ \A e \in Engines : engines[e].snap \subseteq accepted
  /\ \A j \in jobs : TakenJob(j)

LEMMA TakenStep == TypeOK /\ EngineInv /\ JobInv /\ TakenInv /\ [Next]_vars => TakenInv'
<1> SUFFICES ASSUME TypeOK, EngineInv, JobInv, TakenInv, [Next]_vars
             PROVE  TakenInv'
  OBVIOUS
<1> DEFINE Goal == TakenInv'
<1> USE DEF TakenInv, TakenJob
<1>1. CASE UNCHANGED vars
  BY <1>1 DEF vars, history
<1>2. ASSUME NEW u \in Uuids, Add(u) \/ Remove(u) PROVE Goal
  BY <1>2 DEF Add, Remove, history
<1>3. ASSUME NEW k, k.kind # "diff", k.pc # "commit", jobs' = jobs \cup {k},
             UNCHANGED <<engines, net, accepted>>
      PROVE  Goal
  BY <1>3
<1>4. ASSUME NEW u \in Uuids, LinkCall(u) \/ BatchCall(u) PROVE Goal
  BY <1>3, <1>4 DEF LinkCall, AddLinks, RemoveLink, UpdateLink, BatchCall, LinkMutations,
                   AddSdna, NewJob
<1>5. ASSUME NEW u \in Uuids, NEW e \in Engines, StartSync(u, e) PROVE Goal
  BY <1>5 DEF StartSync, history, TypeOK
<1>6. ASSUME NEW u \in Uuids, StopSync(u) PROVE Goal
  <2>1. \A e \in Engines : engines'[e].snap = engines[e].snap
    BY <1>6 DEF StopSync, TypeOK, Engine
  <2> QED
    BY <1>6, <2>1 DEF StopSync, history
<1>7. ASSUME NEW u \in Uuids, SetLinkLanguage(u) PROVE Goal
  BY <1>7 DEF SetLinkLanguage, history
<1>8. ASSUME NEW u \in Uuids, SyncPerspective(u) PROVE Goal
  <2> DEFINE k == [DiffJob(u, None, None, net, {}, {}, {}) EXCEPT !.pc = "ask"]
  <2>1. k.kind = "diff" /\ k.toAdd \subseteq net /\ k.added = {}
    BY DEF DiffJob
  <2>2. jobs' = jobs \cup {k}
    BY <1>8 DEF SyncPerspective
  <2> HIDE DEF k
  <2> QED
    BY <1>8, <2>1, <2>2 DEF SyncPerspective, history
<1>9. ASSUME NEW j \in jobs,
             \/ SdnaType(j) \/ PushPrivate(j) \/ CommitResolves(j) \/ SyncRejects(j)
             \/ SignFails(j) \/ CommitRejects(j)
             \/ \E l \in j.toAdd : StoreThrows(j, l)
      PROVE  Goal
  BY <1>9 DEF SdnaType, PushPrivate, CommitResolves, SyncRejects, SignFails, CommitRejects,
              StoreThrows, Finish, history
<1>10. ASSUME NEW j \in jobs, NEW l \in j.toAdd, StoreOne(j, l) \/ DiffAdd(j, l) PROVE Goal
  <2> DEFINE k == [j EXCEPT !.toAdd = @ \ {l}, !.added = @ \cup {l}, !.pc = "store"]
  <2>1. /\ k.kind = j.kind /\ k.pc = "store" /\ k.added = j.added \cup {l}
        /\ k.toAdd = j.toAdd \ {l}
    BY DEF TypeOK, Job
  <2>2. jobs' = (jobs \ {j}) \cup {k}
    BY <1>10 DEF StoreOne, DiffAdd, Replace
  <2> HIDE DEF k
  <2> QED
    BY <1>10, <2>1, <2>2 DEF StoreOne, DiffAdd, history
<1>11. ASSUME NEW j \in jobs, NEW r \in j.toRemove, RemoveOne(j, r) PROVE Goal
  <2> DEFINE k == [j EXCEPT !.toRemove = @ \ {r},
                            !.removed = @ \cup ({r} \cap store[j.u]), !.pc = "store"]
  <2>1. k.kind = j.kind /\ k.pc = "store"
    BY DEF TypeOK, Job
  <2>2. jobs' = (jobs \ {j}) \cup {k} /\ j.kind # "diff"
    BY <1>11 DEF RemoveOne, Writing, Replace
  <2> HIDE DEF k
  <2> QED
    BY <1>11, <2>1, <2>2 DEF RemoveOne, history
<1>12. ASSUME NEW j \in jobs, NEW fa \in Firsts(j.added), NEW fr \in Firsts(j.removed),
              PushCommit(j, fa, fr)
       PROVE  Goal
  <2> DEFINE k == [j EXCEPT !.pc = "commit"]
  <2>1. k.kind = j.kind /\ k.added = j.added /\ j.kind # "diff"
    BY <1>12 DEF PushCommit, Ready, LocalKind, TypeOK, Job
  <2>2. \A d \in DiffJobs(j.u, j.added, j.removed, fa, fr) :
           d.added \subseteq j.added /\ d.toAdd \subseteq j.added
    BY DiffJobsCarry
  <2>3. /\ net' \subseteq net \cup j.added
        /\ jobs' = (jobs \ {j}) \cup {k} \cup DiffJobs(j.u, j.added, j.removed, fa, fr)
    BY <1>12, CommitBounds DEF PushCommit
  <2> HIDE DEF k
  <2> QED
    BY <1>12, <2>1, <2>2, <2>3 DEF PushCommit
<1>13. ASSUME NEW j \in jobs, NEW fr \in Firsts(j.toRemove), DiffNext(j, fr) PROVE Goal
  <2> DEFINE k == [j EXCEPT !.toRemove = @ \ fr, !.added = {}, !.removed = fr, !.pc = "emit"]
  <2>1. k.kind = j.kind /\ k.added = {} /\ k.toAdd = j.toAdd
    BY DEF TypeOK, Job
  <2>2. jobs' \subseteq (jobs \ {j}) \cup {k}
    BY <1>13 DEF DiffNext, Replace, Finish
  <2> HIDE DEF k
  <2> QED
    BY <1>13, <2>1, <2>2 DEF DiffNext, history
<1>14. ASSUME NEW j \in jobs, PushLost(j) PROVE Goal
  <2> DEFINE k == [j EXCEPT !.pc = "refused"]
  <2>1. k.kind # "diff" /\ k.pc = "refused"
    BY <1>14 DEF PushLost, Ready, LocalKind, TypeOK, Job
  <2>2. jobs' = (jobs \ {j}) \cup {k}
    BY <1>14 DEF PushLost, Replace
  <2> HIDE DEF k
  <2> QED
    BY <1>14, <2>1, <2>2 DEF PushLost, history
<1>15. ASSUME NEW e \in Engines, NEW f \in Firsts(engines[e].snap), SyncReturns(e, f)
       PROVE  Goal
  <2> DEFINE k == DiffJob(engines[e].uuid, e, None, engines[e].snap, {}, f, {})
  <2>1. k.added \subseteq engines[e].snap /\ k.toAdd \subseteq engines[e].snap
    BY DEF DiffJob, Firsts
  <2>2. \A d \in Engines : engines'[d].snap \subseteq engines[d].snap
    BY <1>15 DEF SyncReturns, TypeOK, Engine
  <2>3. jobs' \subseteq jobs \cup {k}
    BY <1>15 DEF SyncReturns
  <2> HIDE DEF k
  <2> QED
    BY <1>15, <2>1, <2>2, <2>3 DEF SyncReturns, history
<1>16. ASSUME NEW e \in Engines, RevisionReturns(e) \/ StartRejects(e) PROVE Goal
  <2>1. \A d \in Engines : engines'[d].snap \subseteq engines[d].snap
    BY <1>16 DEF RevisionReturns, StartRejects, TypeOK, Engine
  <2> QED
    BY <1>16, <2>1 DEF RevisionReturns, StartRejects, history
<1> HIDE DEF Goal
<1> QED
  BY <1>1, <1>2, <1>3, <1>4, <1>5, <1>6, <1>7, <1>8, <1>9, <1>10, <1>11, <1>12, <1>13,
     <1>14, <1>15, <1>16
     DEF Next, Call, EngineCall, AdapterCall, Settle, Resume, Reject, ResumeStart, Goal

(***************************************************************************)
(* The steps that tell the listeners something.                            *)
(***************************************************************************)
LEMMA ViewFrame ==
  ASSUME Next
  PROVE  \/ \E u \in Uuids : Remove(u)
         \/ \E j \in jobs : \/ PushPrivate(j) \/ CommitResolves(j)
                            \/ \E fr \in Firsts(j.toRemove) : DiffNext(j, fr)
         \/ view' = view
<1> DEFINE Same == view' = view
<1>1. ASSUME NEW u \in Uuids, LinkCall(u) \/ BatchCall(u) PROVE Same
  BY <1>1 DEF LinkCall, AddLinks, RemoveLink, UpdateLink, BatchCall, LinkMutations, AddSdna
<1>2. ASSUME NEW u \in Uuids, Add(u) \/ EngineCall(u) \/ AdapterCall(u) PROVE Same
  BY <1>2 DEF Add, EngineCall, StartSync, StopSync, AdapterCall, SetLinkLanguage,
              SyncPerspective
<1>3. ASSUME NEW j \in jobs, Reject(j) PROVE Same
  BY <1>3 DEF Reject, SignFails, PushLost, CommitRejects, SyncRejects
<1>4. ASSUME NEW e \in Engines, ResumeStart(e) \/ StartRejects(e) PROVE Same
  BY <1>4 DEF ResumeStart, SyncReturns, RevisionReturns, StartRejects
<1>5. ASSUME NEW j \in jobs, Resume(j)
      PROVE  \/ PushPrivate(j) \/ CommitResolves(j)
             \/ \E fr \in Firsts(j.toRemove) : DiffNext(j, fr)
             \/ Same
  BY <1>5 DEF Resume, SdnaType, StoreOne, StoreThrows, DiffAdd, RemoveOne, PushCommit
<1> QED
  BY <1>1, <1>2, <1>3, <1>4, <1>5 DEF Next, Call, Settle

(***************************************************************************)
(* While a perspective is shared, its listeners are told of no link the    *)
(* link language has not taken.                                            *)
(***************************************************************************)
THEOREM AnnouncedCorrect == Spec => AnnouncedWhenAccepted
<1> DEFINE Taken == \A u \in adapters : view'[u] \ view[u] \subseteq accepted
<1>1. Init => TakenInv
  BY DEF Init, TakenInv, NewEngine
<1>2. /\ (TypeOK /\ EngineInv) /\ (ValidInv /\ JobInv) /\ TakenInv /\ [Next]_vars
      => TakenInv'
  BY TakenStep
<1>3. (TypeOK /\ EngineInv) /\ TakenInv /\ [Next]_vars => [Taken]_vars
  <2> SUFFICES ASSUME TypeOK, TakenInv, Next PROVE Taken
    OBVIOUS
  <2>1. ASSUME NEW u \in Uuids, Remove(u) PROVE Taken
    BY <2>1 DEF Remove, TypeOK
  <2>2. ASSUME NEW j \in jobs, PushPrivate(j) PROVE Taken
    BY <2>2 DEF PushPrivate, Announce, TypeOK
  <2>3. ASSUME NEW j \in jobs,
               CommitResolves(j) \/ \E fr \in Firsts(j.toRemove) : DiffNext(j, fr)
        PROVE  Taken
    <3>1. j.added \subseteq accepted
      BY <2>3 DEF TakenInv, TakenJob, CommitResolves, DiffNext
    <3> QED
      BY <2>3, <3>1 DEF CommitResolves, DiffNext, Announce, TypeOK
  <2> QED
    BY <2>1, <2>2, <2>3, ViewFrame
<1> QED
  BY <1>1, <1>2, <1>3, TypedEngines, LinksInvariant, PTL DEF Spec, AnnouncedWhenAccepted

-----------------------------------------------------------------------------
(* A removed perspective stays as it was left.                             *)

(***************************************************************************)
(* A perspective that left the map does not come back.                     *)
(***************************************************************************)
LEMMA RemovedStays ==
  ASSUME TypeOK, Next, NEW u \in Uuids, handles[u] = "removed"
  PROVE  handles'[u] = "removed"
<1>1. CASE UNCHANGED <<handles, syncEngines, engines>>
  BY <1>1
<1>2. ASSUME NEW v \in Uuids, Add(v) \/ Remove(v) \/ EngineCall(v)
      PROVE  handles'[u] = "removed"
  BY <1>2 DEF Add, Remove, EngineCall, StartSync, StopSync, TypeOK
<1>3. ASSUME NEW e \in Engines, ResumeStart(e) \/ StartRejects(e)
      PROVE  handles'[u] = "removed"
  BY <1>3 DEF ResumeStart, SyncReturns, RevisionReturns, StartRejects, Ensured, TypeOK
<1> QED
  BY <1>1, <1>2, <1>3, EngineFrame

(***************************************************************************)
(* No engine comes to work for a perspective that left the map.            *)
(***************************************************************************)
Working(e, u) ==
  /\ engines[e].uuid = u
  /\ engines[e].running \/ engines[e].pc \in {"sync", "revision"}

LEMMA NoNewEngine ==
  ASSUME TypeOK, Next, NEW u \in Uuids, handles[u] = "removed",
         NEW e \in Engines, ~Working(e, u)
  PROVE  ~Working(e, u)'
<1> USE DEF TypeOK, Engine, Working
<1>1. CASE UNCHANGED <<handles, syncEngines, engines>>
  BY <1>1
<1>2. ASSUME NEW v \in Uuids, Add(v) \/ Remove(v) PROVE ~Working(e, u)'
  BY <1>2 DEF Add, Remove
<1>3. ASSUME NEW v \in Uuids, NEW d \in Engines, StartSync(v, d) PROVE ~Working(e, u)'
  BY <1>3 DEF StartSync, Ensured
<1>4. ASSUME NEW v \in Uuids, StopSync(v) PROVE ~Working(e, u)'
  <2>1. syncEngines[v] \in Engines
    BY <1>4 DEF StopSync
  <2> QED
    BY <1>4, <2>1 DEF StopSync
<1>5. ASSUME NEW d \in Engines, NEW f, SyncReturns(d, f) PROVE ~Working(e, u)'
  BY <1>5 DEF SyncReturns
<1>6. ASSUME NEW d \in Engines, RevisionReturns(d) \/ StartRejects(d) PROVE ~Working(e, u)'
  BY <1>6 DEF RevisionReturns, StartRejects
<1> QED
  BY <1>1, <1>2, <1>3, <1>4, <1>5, <1>6, EngineFrame DEF EngineCall, ResumeStart

(***************************************************************************)
(* Neither does a call: the diffs of a commit go to running engines.       *)
(***************************************************************************)
LEMMA NoNewCall ==
  ASSUME TypeOK, Next, NEW u \in Uuids, Gone(u)
  PROVE  /\ \A j \in jobs' : j.u # u
         /\ store'[u] = store[u]
<1> DEFINE Goal == (\A j \in jobs' : j.u # u) /\ store'[u] = store[u]
<1>1. /\ handles[u] = "removed"
      /\ \A j \in jobs : j.u # u
      /\ \A e \in Engines : ~Working(e, u)
  BY DEF Gone, Touching, Working
<1> USE <1>1 DEF Ensured
<1>2. ASSUME NEW v \in Uuids, Add(v) \/ Remove(v) PROVE Goal
  BY <1>2 DEF Add, Remove, TypeOK
<1>3. ASSUME NEW v \in Uuids, LinkCall(v) PROVE Goal
  BY <1>3 DEF LinkCall, AddLinks, RemoveLink, UpdateLink, NewJob, StoreRemove, TypeOK
<1>4. ASSUME NEW v \in Uuids, BatchCall(v) PROVE Goal
  BY <1>4 DEF BatchCall, LinkMutations, AddSdna, NewJob, StoreAdd, TypeOK
<1>5. ASSUME NEW v \in Uuids, EngineCall(v) \/ SetLinkLanguage(v) PROVE Goal
  BY <1>5 DEF EngineCall, StartSync, StopSync, SetLinkLanguage
<1>6. ASSUME NEW v \in Uuids, SyncPerspective(v) PROVE Goal
  <2> DEFINE k == [DiffJob(v, None, None, net, {}, {}, {}) EXCEPT !.pc = "ask"]
  <2>1. k.u = v /\ jobs' = jobs \cup {k}
    BY <1>6 DEF DiffJob, SyncPerspective
  <2> HIDE DEF k
  <2> QED
    BY <1>6, <2>1 DEF SyncPerspective
<1>7. ASSUME NEW j \in jobs, Reject(j) PROVE Goal
  <2>1. [j EXCEPT !.pc = "refused"].u = j.u
    BY DEF TypeOK, Job
  <2> QED
    BY <1>7, <2>1 DEF Reject, SignFails, PushLost, CommitRejects, SyncRejects, Finish, Replace
<1>8. ASSUME NEW j \in jobs, SdnaType(j) \/ PushPrivate(j) \/ CommitResolves(j) PROVE Goal
  BY <1>8 DEF SdnaType, PushPrivate, CommitResolves, StoreAdd, Finish, TypeOK
<1>9. ASSUME NEW j \in jobs, NEW l \in j.toAdd,
             StoreOne(j, l) \/ StoreThrows(j, l) \/ DiffAdd(j, l)
      PROVE  Goal
  <2>1. [j EXCEPT !.toAdd = @ \ {l}, !.added = @ \cup {l}, !.pc = "store"].u = j.u
    BY DEF TypeOK, Job
  <2> QED
    BY <1>9, <2>1 DEF StoreOne, StoreThrows, DiffAdd, StoreAdd, Replace, Finish, TypeOK
<1>10. ASSUME NEW j \in jobs, NEW r \in j.toRemove, RemoveOne(j, r) PROVE Goal
  <2>1. [j EXCEPT !.toRemove = @ \ {r}, !.removed = @ \cup ({r} \cap store[j.u]),
                  !.pc = "store"].u = j.u
    BY DEF TypeOK, Job
  <2> QED
    BY <1>10, <2>1 DEF RemoveOne, StoreRemove, Replace, TypeOK
<1>11. ASSUME NEW j \in jobs, NEW fa, NEW fr, PushCommit(j, fa, fr) PROVE Goal
  <2>1. u \notin Live
    BY DEF Live, Working
  <2>2. ASSUME NEW k \in DiffJobs(j.u, j.added, j.removed, fa, fr) PROVE k.u # u
    <3>1. PICK o \in Observers : k.u = engines[o].uuid
      BY DEF DiffJobs, Observe, DiffJob
    <3> QED
      BY <2>1, <3>1 DEF Observers, Working
  <2>3. [j EXCEPT !.pc = "commit"].u = j.u
    BY DEF TypeOK, Job
  <2> QED
    BY <1>11, <2>1, <2>2, <2>3 DEF PushCommit
<1>12. ASSUME NEW j \in jobs, NEW fr \in Firsts(j.toRemove), DiffNext(j, fr) PROVE Goal
  <2>1. [j EXCEPT !.toRemove = @ \ fr, !.added = {}, !.removed = fr, !.pc = "emit"].u = j.u
    BY DEF TypeOK, Job
  <2> QED
    BY <1>12, <2>1 DEF DiffNext, StoreRemove, Replace, Finish, TypeOK
<1>13. ASSUME NEW e \in Engines, NEW f, SyncReturns(e, f) PROVE Goal
  BY <1>13 DEF SyncReturns, Working, DiffJob, StoreAdd, TypeOK
<1>14. ASSUME NEW e \in Engines, RevisionReturns(e) \/ StartRejects(e) PROVE Goal
  BY <1>14 DEF RevisionReturns, StartRejects
<1> HIDE DEF Goal
<1>15. Goal
  BY <1>2, <1>3, <1>4, <1>5, <1>6, <1>7, <1>8, <1>9, <1>10, <1>11, <1>12, <1>13, <1>14
     DEF Next, Call, AdapterCall, Settle, Resume, ResumeStart
<1> QED
  BY <1>15 DEF Goal

(***************************************************************************)
(* A removed perspective with no call and no engine left over stays as it  *)
(* is: nothing new can be started on it that would write to its links.     *)
(***************************************************************************)
THEOREM NoWriteAfterRemovalCorrect == Spec => NoWriteAfterRemoval
<1> DEFINE Stays == \A u \in Uuids : Gone(u) => Gone(u)' /\ store'[u] = store[u]
<1>1. TypeOK /\ [Next]_vars => [Stays]_vars
  <2> SUFFICES ASSUME TypeOK, Next, NEW u \in Uuids, Gone(u)
               PROVE  Gone(u)' /\ store'[u] = store[u]
    OBVIOUS
  <2>1. handles[u] = "removed" /\ \A e \in Engines : ~Working(e, u)
    BY DEF Gone, Touching, Working
  <2>2. handles'[u] = "removed"
    BY <2>1, RemovedStays
  <2>3. \A e \in Engines : ~Working(e, u)'
    BY <2>1, NoNewEngine
  <2> QED
    BY <2>2, <2>3, NoNewCall DEF Gone, Touching, Working
<1> QED
  BY <1>1, TypeCorrect, PTL DEF Spec, NoWriteAfterRemoval

-----------------------------------------------------------------------------
(***************************************************************************)
(* The engines of the manager implement SyncEngine: the refinement that    *)
(* ManagedEngines states, step by step.                                    *)
(***************************************************************************)

(***************************************************************************)
(* An engine that is stopped, or that was never started, has no timer, so  *)
(* what start() is given to begin with is what SyncEngine begins with.     *)
(***************************************************************************)
FreshInv ==
  \A e \in Engines : engines[e].uuid = None => engines[e] = NewEngine

LEMMA FreshStep == TypeOK /\ EngineInv /\ FreshInv /\ [Next]_vars => FreshInv'
<1> SUFFICES ASSUME TypeOK, EngineInv, FreshInv, [Next]_vars
             PROVE  FreshInv'
  OBVIOUS
<1> USE ManagerAssumption DEF TypeOK, Engine, FreshInv
<1>1. CASE UNCHANGED <<handles, syncEngines, engines>>
  BY <1>1
<1>2. ASSUME NEW u \in Uuids, Add(u) \/ Remove(u) PROVE FreshInv'
  BY <1>2 DEF Add, Remove
<1>3. ASSUME NEW u \in Uuids, NEW e \in Engines, StartSync(u, e) PROVE FreshInv'
  BY <1>3 DEF StartSync
<1>4. ASSUME NEW u \in Uuids, StopSync(u) PROVE FreshInv'
  <2>1. syncEngines[u] \in Engines /\ engines[syncEngines[u]].uuid # None
    BY <1>4 DEF StopSync, EngineInv
  <2> QED
    BY <1>4, <2>1 DEF StopSync
<1>5. ASSUME NEW e \in Engines, NEW f, SyncReturns(e, f) PROVE FreshInv'
  BY <1>5 DEF SyncReturns, EngineInv
<1>6. ASSUME NEW e \in Engines, RevisionReturns(e) PROVE FreshInv'
  BY <1>6 DEF RevisionReturns, EngineInv
<1>7. ASSUME NEW e \in Engines, StartRejects(e) PROVE FreshInv'
  BY <1>7 DEF StartRejects, EngineInv
<1>8. CASE UNCHANGED vars
  BY <1>1, <1>8 DEF vars
<1> QED
  BY <1>1, <1>2, <1>3, <1>4, <1>5, <1>6, <1>7, <1>8, EngineFrame DEF EngineCall, ResumeStart

(***************************************************************************)
(* What changes one engine: its perspective's startSync or stopSync, or    *)
(* the answers to its start.                                               *)
(***************************************************************************)
LEMMA OneEngine ==
  ASSUME TypeOK, EngineInv, Next, NEW e \in Engines
  PROVE  \/ engines'[e] = engines[e]
         \/ \E u \in Uuids : StartSync(u, e)
         \/ \E u \in Uuids : StopSync(u) /\ syncEngines[u] = e
         \/ \E f : SyncReturns(e, f)
         \/ RevisionReturns(e)
         \/ StartRejects(e)
<1> USE DEF TypeOK
<1>1. CASE UNCHANGED <<handles, syncEngines, engines>>
  BY <1>1
<1>2. ASSUME NEW u \in Uuids, Add(u) \/ Remove(u) PROVE engines'[e] = engines[e]
  BY <1>2 DEF Add, Remove
<1>3. ASSUME NEW u \in Uuids, NEW d \in Engines \ {e}, StartSync(u, d)
      PROVE  engines'[e] = engines[e]
  BY <1>3 DEF StartSync
<1>4. ASSUME NEW u \in Uuids, StopSync(u), syncEngines[u] # e
      PROVE  engines'[e] = engines[e]
  <2>1. engines' = [engines EXCEPT ![syncEngines[u]] = engines'[syncEngines[u]]]
    BY <1>4 DEF StopSync
  <2> QED
    BY <1>4, <2>1
<1>5. ASSUME NEW d \in Engines \ {e},
             (\E f : SyncReturns(d, f)) \/ RevisionReturns(d) \/ StartRejects(d)
      PROVE  engines'[e] = engines[e]
  BY <1>5 DEF SyncReturns, RevisionReturns, StartRejects
<1> QED
  BY <1>1, <1>2, <1>3, <1>4, <1>5, EngineFrame DEF EngineCall, ResumeStart

(***************************************************************************)
(* A step of the manager is a step of the engine, or none.                 *)
(***************************************************************************)
LEMMA EngineConforms ==
  ASSUME TypeOK, TypeOK', EngineInv, FreshInv, [Next]_vars, NEW e \in Engines
  PROVE  [SE(e)!Next]_(SE(e)!vars)
<1> USE DEF TypeOK, Engine, OneStart
<1>1. ASSUME engines'[e] = engines[e] PROVE UNCHANGED SE(e)!vars
  BY <1>1 DEF SE!vars
<1>2. ASSUME NEW u \in Uuids, StartSync(u, e) PROVE SE(e)!Start("start")
  <2>1. engines[e] = NewEngine
    BY <1>2 DEF StartSync, FreshInv
  <2>2. /\ engines'[e].running /\ engines'[e].state = "syncing" /\ engines'[e].pc = "sync"
        /\ ~engines'[e].interval
    BY <1>2 DEF StartSync
  <2> QED
    BY <2>1, <2>2 DEF SE!Start, NewEngine
<1>3. ASSUME NEW u \in Uuids, StopSync(u), syncEngines[u] = e PROVE SE(e)!Stop
  <2>1. /\ ~engines'[e].running /\ engines'[e].state = "idle" /\ ~engines'[e].interval
        /\ engines'[e].pc = engines[e].pc
    BY <1>3 DEF StopSync
  <2> QED
    BY <2>1 DEF SE!Stop
<1>4. ASSUME NEW f, SyncReturns(e, f) PROVE SE(e)!SyncReturns("start")
  <2>1. /\ engines[e].pc = "sync" /\ engines'[e].pc = "revision"
        /\ engines'[e].running = engines[e].running /\ engines'[e].state = engines[e].state
        /\ engines'[e].interval = engines[e].interval
    BY <1>4 DEF SyncReturns
  <2> QED
    BY <2>1 DEF SE!SyncReturns
<1>5. ASSUME RevisionReturns(e) PROVE SE(e)!RevisionReturns("start")
  <2>1. /\ engines[e].pc = "revision" /\ engines'[e].pc = "done"
        /\ engines'[e].running = engines[e].running /\ engines'[e].state = "synced"
        /\ engines'[e].interval
    BY <1>5 DEF RevisionReturns
  <2> QED
    BY <2>1 DEF SE!RevisionReturns
<1>6. ASSUME StartRejects(e) PROVE SE(e)!StartRejects("start")
  <2>1. /\ engines[e].pc \in {"sync", "revision"} /\ engines'[e].pc = "failed"
        /\ engines'[e].running = engines[e].running /\ engines'[e].state = engines[e].state
        /\ engines'[e].interval = engines[e].interval
    BY <1>6 DEF StartRejects
  <2> QED
    BY <2>1 DEF SE!StartRejects
<1>7. CASE Next
  BY <1>1, <1>2, <1>3, <1>4, <1>5, <1>6, <1>7, OneEngine DEF SE!Next
<1>8. CASE UNCHANGED vars
  BY <1>1, <1>8 DEF vars
<1> QED
  BY <1>7, <1>8

(***************************************************************************)
(* Every engine the manager makes is a SyncEngine: the perspective calls,  *)
(* failures and removals around it take it through steps that SyncEngine   *)
(* allows, from SyncEngine's initial state.                                *)
(***************************************************************************)
THEOREM EnginesConformCorrect == Spec => EnginesConform
<1> DEFINE Conforms == \A e \in Engines : [SE(e)!Next]_(SE(e)!vars)
<1>1. Init => FreshInv /\ \A e \in Engines : SE(e)!Init
  BY DEF Init, FreshInv, NewEngine, SE!Init, OneStart
<1>2. (TypeOK /\ EngineInv) /\ FreshInv /\ [Next]_vars => FreshInv'
  BY FreshStep
<1>3. (TypeOK /\ EngineInv) /\ (TypeOK /\ EngineInv)' /\ FreshInv /\ [Next]_vars
      => [Conforms]_vars
  BY EngineConforms
<1> QED
  BY <1>1, <1>2, <1>3, TypedEngines, PTL DEF Spec, EnginesConform
=============================================================================
