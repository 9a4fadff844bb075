-------------------------- MODULE Convergence_proofs --------------------------
(***************************************************************************)
(* Proof that replicas agree with the link language when calls are made    *)
(* one at a time, for any number of replicas, engines and links, with      *)
(* either kind of language, with links that are not valid, and with        *)
(* signing, syncing and committing that may fail.                          *)
(***************************************************************************)
EXTENDS Convergence, PerspectiveManager_proofs, FiniteSetTheorems

(***************************************************************************)
(* The language removes by triple.  Two links of the same triple, of which *)
(* it may take out the other one, are beyond Agreement.                    *)
(***************************************************************************)
NoTwins == \A l, m \in Links : Triple[l] = Triple[m] => l = m

-----------------------------------------------------------------------------
(* The inductive invariant, in parts.                                      *)

(***************************************************************************)
(* A call of the user up to its commit is all there is.                    *)
(***************************************************************************)
Uncommitted(j) == j.kind # "diff" /\ j.pc # "commit"

Starting(e) == engines[e].pc \in {"sync", "revision"}

AloneInv ==
  \A j \in jobs : Uncommitted(j) => jobs = {j} /\ \A e \in Engines : ~Starting(e)

(***************************************************************************)
(* Links are signed once: what a call is going to commit was never taken   *)
(* before, and is not what the call removes.                               *)
(***************************************************************************)
NewlySigned(j) ==
  (j.toAdd \cup j.added) \cap (accepted \cup j.toRemove \cup j.removed) = {}

SignedInv ==
  /\ accepted \subseteq minted
  /\ \A u \in Uuids : store[u] \cup view[u] \subseteq minted
  /\ \A j \in jobs : /\ j.toAdd \cup j.added \subseteq minted
                     /\ Uncommitted(j) => NewlySigned(j)
                     /\ j.kind = "sdna" => j.pc # "commit" /\ j.removed = {}

(***************************************************************************)
(* While diffs are on their way the language stays as they left it: it     *)
(* holds all they add and nothing they remove, and what a starting engine  *)
(* will be answered.  A running engine's perspective has an adapter.       *)
(***************************************************************************)
CurrentAt(j, held) ==
  /\ j.toAdd \subseteq held
  /\ j.toRemove \cap held = {}
  /\ j.pc = "ask" => j.toRemove = {}

CurrentInv ==
  /\ \A j \in jobs : /\ j.kind = "diff" => CurrentAt(j, net)
                     /\ j.pc = "ask" => j.kind = "diff"
  /\ \A e \in Engines : engines[e].pc = "sync" => engines[e].snap = net
  /\ \A e \in Engines : engines[e].running => \/ engines[e].uuid \in adapters
                                              \/ ~Ensured(engines[e].uuid)

(***************************************************************************)
(* A replica's link is in the language or on its way out of the store; a   *)
(* link of the language is in the store of a replica that was synced, or   *)
(* on its way there, or the replica's own call is about to remove it.      *)
(***************************************************************************)
Leaving(u, l) == \E j \in jobs : j.kind = "diff" /\ j.u = u /\ l \in j.toRemove

TakenOut(u, l) == \E j \in jobs : Uncommitted(j) /\ j.u = u /\ l \in j.removed

Synced(u) ==
  \E e \in Engines : /\ engines[e].uuid = u /\ engines[e].running
                     /\ engines[e].pc \in {"revision", "done"}

AgreeInv ==
  \A u \in Uuids : Ensured(u) => \A l \in Settled(u) :
    /\ l \in store[u] => l \in net \/ Leaving(u, l)
    /\ l \in net /\ Synced(u) => Reached(u, l) \/ TakenOut(u, l)

-----------------------------------------------------------------------------
(* Lemmas about the language and the diffs it notifies.                    *)

(***************************************************************************)
(* Without twins a commit does what its diff says: the additions are in,   *)
(* the removals are out, and nothing else changes.                         *)
(***************************************************************************)
LEMMA CommitTakes ==
  ASSUME NoTwins, NEW L \in SUBSET Links, NEW A \in SUBSET Links, NEW R \in SUBSET Links,
         NEW M \in AfterCommit(L, A, R)
  PROVE  M = (L \cup A) \ R
<1> DEFINE N == L \cup A
           Out == N \ M
<1>0. /\ M \subseteq N
      /\ \A t \in {Triple[r] : r \in R} \cup {Triple[l] : l \in Out} :
           Cardinality(WithTriple(Out, t)) =
             Smaller(Cardinality(WithTriple(R, t)), Cardinality(WithTriple(N, t)))
  BY DEF AfterCommit, AfterRemovals, AfterAdditions
<1>1. \A K \in SUBSET Links, l \in Links :
         /\ l \in K => Cardinality(WithTriple(K, Triple[l])) = 1
         /\ l \notin K => Cardinality(WithTriple(K, Triple[l])) = 0
  <2> SUFFICES ASSUME NEW K \in SUBSET Links, NEW l \in Links
               PROVE  /\ l \in K => Cardinality(WithTriple(K, Triple[l])) = 1
                      /\ l \notin K => Cardinality(WithTriple(K, Triple[l])) = 0
    OBVIOUS
  <2>1. WithTriple(K, Triple[l]) = K \cap {l}
    BY DEF WithTriple, NoTwins
  <2>2. CASE l \in K
    <3>1. K \cap {l} = {l}
      BY <2>2
    <3> QED
      BY <2>1, <2>2, <3>1, FS_Singleton
  <2>3. CASE l \notin K
    <3>1. K \cap {l} = {}
      BY <2>3
    <3> QED
      BY <2>1, <2>3, <3>1, FS_EmptySet
  <2> QED
    BY <2>2, <2>3
<1>2. ASSUME NEW l \in N PROVE l \in Out <=> l \in R
  <2>1. l \in Out \/ l \in R
        => Cardinality(WithTriple(Out, Triple[l])) =
             Smaller(Cardinality(WithTriple(R, Triple[l])), Cardinality(WithTriple(N, Triple[l])))
    BY <1>0
  <2>2. Cardinality(WithTriple(N, Triple[l])) = 1
    BY <1>1
  <2> QED
    BY <1>1, <2>1, <2>2 DEF Smaller
<1> QED
  BY <1>0, <1>2

(***************************************************************************)
(* What a diff job that reached its first await still has to do.           *)
(***************************************************************************)
LEMMA DiffJobFields ==
  ASSUME NEW v, NEW o, NEW src, NEW A, NEW R, NEW fa, NEW fr,
         NEW k, k = DiffJob(v, o, src, A, R, fa, fr)
  PROVE  /\ k.kind = "diff" /\ k.u = v /\ k.pc # "ask"
         /\ k.toAdd = A \ fa
         /\ A # {} => k.toRemove = R
         /\ A = {} => k.toRemove = R \ fr
  BY DEF DiffJob

(***************************************************************************)
(* A replica with an observer is told of every addition of a commit: it is *)
(* the one that was made at once, or a diff job has it before it.          *)
(***************************************************************************)
LEMMA AdditionTold ==
  ASSUME NEW src, NEW A, NEW R, NEW fa \in Firsts(A), NEW fr \in Firsts(R),
         NEW o \in Observers, NEW l \in A \ fa
  PROVE  \E k \in DiffJobs(src, A, R, fa, fr) :
           k.kind = "diff" /\ k.u = engines[o].uuid /\ k.pc # "ask" /\ l \in k.toAdd
<1> DEFINE d == IF Split THEN <<A, {}>> ELSE <<A, R>>
           k == Observe(o, src, d, fa, fr)
<1>1. d[1] = A /\ d \in Notified(A, R)
  BY DEF Notified
<1>2. k \in DiffJobs(src, A, R, fa, fr)
  BY <1>1 DEF DiffJobs
<1>3. /\ k.kind = "diff" /\ k.u = engines[o].uuid /\ k.pc # "ask"
      /\ k.toAdd = d[1] \ (d[1] \cap fa)
  BY DiffJobFields DEF Observe
<1> HIDE DEF k, d
<1> QED
  BY <1>1, <1>2, <1>3

(***************************************************************************)
(* So it is of every removal, unless that was made at once.                *)
(***************************************************************************)
LEMMA RemovalTold ==
  ASSUME NEW src, NEW A, NEW R, NEW fa \in Firsts(A), NEW fr \in Firsts(R),
         NEW o \in Observers, NEW l \in R, ~(l \in fr /\ (Split \/ fa = {}))
  PROVE  \E k \in DiffJobs(src, A, R, fa, fr) :
           k.kind = "diff" /\ k.u = engines[o].uuid /\ l \in k.toRemove
<1> DEFINE d == IF Split THEN <<{}, R>> ELSE <<A, R>>
           k == Observe(o, src, d, fa, fr)
<1>1. d[2] = R /\ (d[1] = IF Split THEN {} ELSE A) /\ d \in Notified(A, R)
  BY DEF Notified
<1>2. k \in DiffJobs(src, A, R, fa, fr)
  BY <1>1 DEF DiffJobs
<1>3. /\ k.kind = "diff" /\ k.u = engines[o].uuid
      /\ d[1] # {} => k.toRemove = d[2]
      /\ d[1] = {} => k.toRemove = d[2] \ (d[2] \cap fr)
  BY DiffJobFields DEF Observe
<1>4. A = {} <=> fa = {}
  BY DEF Firsts
<1> HIDE DEF k, d
<1> QED
  BY <1>1, <1>2, <1>3, <1>4

-----------------------------------------------------------------------------
(* Every part of the invariant is kept.                                    *)

(***************************************************************************)
(* A call that has not committed stays alone.                              *)
(***************************************************************************)
LEMMA AloneStep ==
  TypeOK /\ JobInv /\ AloneInv /\ [OneAtATime]_vars => AloneInv'
<1> SUFFICES ASSUME TypeOK, JobInv, AloneInv, [OneAtATime]_vars
             PROVE  AloneInv'
  OBVIOUS
<1> DEFINE Goal == AloneInv'
<1> USE DEF AloneInv, Starting
<1>1. CASE UNCHANGED vars
  BY <1>1 DEF vars, Uncommitted
<1>2. ASSUME NEW k, Quiet, jobs' = jobs \cup {k}, UNCHANGED engines PROVE Goal
  BY <1>2 DEF Quiet
<1>3. ASSUME Quiet, UNCHANGED jobs PROVE Goal
  BY <1>3 DEF Quiet
<1>4. ASSUME NEW j \in jobs, Finish(j), UNCHANGED engines PROVE Goal
  BY <1>4 DEF Finish, Uncommitted
<1>5. ASSUME NEW j \in jobs, Uncommitted(j), NEW k, Replace(j, k), UNCHANGED engines PROVE Goal
  BY <1>5 DEF Replace, Uncommitted
<1>6. ASSUME NEW D, jobs' \subseteq jobs \cup D, \A k \in D : ~Uncommitted(k),
             \A j \in jobs : ~Uncommitted(j)
      PROVE  Goal
  BY <1>6 DEF Uncommitted
<1>7. ASSUME Quiet, NEW u \in Uuids, LinkCall(u) \/ BatchCall(u) PROVE Goal
  BY <1>2, <1>7 DEF LinkCall, AddLinks, RemoveLink, UpdateLink, BatchCall, LinkMutations,
                   AddSdna
<1>8. ASSUME Quiet, NEW u \in Uuids, Add(u) \/ Remove(u) \/ EngineCall(u) \/ AdapterCall(u)
      PROVE  Goal
  BY <1>2, <1>3, <1>8 DEF Add, Remove, EngineCall, StartSync, StopSync, AdapterCall,
                         SetLinkLanguage, SyncPerspective
<1>9. ASSUME NEW j \in jobs,
             \/ SdnaType(j) \/ PushPrivate(j) \/ CommitResolves(j) \/ SyncRejects(j)
             \/ SignFails(j) \/ CommitRejects(j)
             \/ \E l \in j.toAdd : StoreThrows(j, l)
      PROVE  Goal
  BY <1>4, <1>9 DEF SdnaType, PushPrivate, CommitResolves, SyncRejects, SignFails,
                   CommitRejects, StoreThrows
<1>10. ASSUME NEW j \in jobs,
              \/ PushLost(j)
              \/ \E l \in j.toAdd : StoreOne(j, l)
              \/ \E r \in j.toRemove : RemoveOne(j, r)
       PROVE  Goal
  <2>1. Uncommitted(j)
    BY <1>10 DEF PushLost, Ready, LocalKind, StoreOne, RemoveOne, Writing, Uncommitted
  <2> QED
    BY <1>5, <1>10, <2>1 DEF PushLost, StoreOne, RemoveOne
<1>11. ASSUME NEW j \in jobs,
              \/ \E l \in j.toAdd : DiffAdd(j, l)
              \/ \E fr \in Firsts(j.toRemove) : DiffNext(j, fr)
       PROVE  Goal
  <2>1. j.kind = "diff"
    BY <1>11 DEF DiffAdd, DiffNext
  <2>2. \A x \in jobs : ~Uncommitted(x)
    BY <2>1 DEF Uncommitted
  <2>3. ASSUME NEW l \in j.toAdd, DiffAdd(j, l) PROVE Goal
    <3> DEFINE k == [j EXCEPT !.toAdd = @ \ {l}, !.added = @ \cup {l}, !.pc = "store"]
    <3>1. k.kind = "diff"
      BY <2>1 DEF TypeOK, Job
    <3> HIDE DEF k
    <3>2. jobs' \subseteq jobs \cup {k}
      BY <2>3 DEF DiffAdd, Replace, k
    <3> QED
      BY <1>6, <2>2, <3>1, <3>2 DEF Uncommitted
  <2>4. ASSUME NEW fr \in Firsts(j.toRemove), DiffNext(j, fr) PROVE Goal
    <3> DEFINE k == [j EXCEPT !.toRemove = @ \ fr, !.added = {}, !.removed = fr, !.pc = "emit"]
    <3>1. k.kind = "diff"
      BY <2>1 DEF TypeOK, Job
    <3> HIDE DEF k
    <3>2. jobs' \subseteq jobs \cup {k}
      BY <2>4 DEF DiffNext, Replace, Finish, k
    <3> QED
      BY <1>6, <2>2, <3>1, <3>2 DEF Uncommitted
  <2> QED
    BY <1>11, <2>3, <2>4
<1>12. ASSUME NEW j \in jobs, NEW fa \in Firsts(j.added), NEW fr \in Firsts(j.removed),
              PushCommit(j, fa, fr)
       PROVE  Goal
  <2> DEFINE k == [j EXCEPT !.pc = "commit"]
             D == DiffJobs(j.u, j.added, j.removed, fa, fr)
  <2>1. jobs' = (jobs \ {j}) \cup {k} \cup D
    BY <1>12 DEF PushCommit
  <2>2. k.pc = "commit"
    BY DEF TypeOK, Job
  <2>3. jobs = {j}
    BY <1>12 DEF PushCommit, Ready, LocalKind, Uncommitted
  <2>4. \A d \in D : d.kind = "diff"
    BY DiffJobsCarry
  <2> HIDE DEF k, D
  <2>5. \A x \in jobs' : ~Uncommitted(x)
    BY <2>1, <2>2, <2>3, <2>4 DEF Uncommitted
  <2> QED
    BY <2>5 DEF Uncommitted
<1>13. ASSUME NEW e \in Engines, NEW f \in Firsts(engines[e].snap), SyncReturns(e, f)
       PROVE  Goal
  <2> DEFINE k == DiffJob(engines[e].uuid, e, None, engines[e].snap, {}, f, {})
  <2>1. \A j \in jobs : ~Uncommitted(j)
    BY <1>13 DEF SyncReturns
  <2>2. jobs' \subseteq jobs \cup {k}
    BY <1>13 DEF SyncReturns
  <2>3. k.kind = "diff"
    BY DEF DiffJob
  <2> HIDE DEF k
  <2> QED
    BY <1>6, <2>1, <2>2, <2>3 DEF Uncommitted
<1>14. ASSUME NEW e \in Engines, RevisionReturns(e) \/ StartRejects(e) PROVE Goal
  <2>1. \A j \in jobs : ~Uncommitted(j)
    BY <1>14 DEF RevisionReturns, StartRejects
  <2>2. jobs' \subseteq jobs \cup {}
    BY <1>14 DEF RevisionReturns, StartRejects
  <2> QED
    BY <1>6, <2>1, <2>2
<1> HIDE DEF Goal
<1> QED
  BY <1>1, <1>7, <1>8, <1>9, <1>10, <1>11, <1>12, <1>13, <1>14
     DEF OneAtATime, Call, Settle, Resume, Reject, ResumeStart, Goal

(***************************************************************************)
(* What the links of a new call are.                                       *)
(***************************************************************************)
LEMMA NewJobFields ==
  ASSUME NEW kind, NEW u, NEW A, NEW R, NEW removed, NEW pc,
         NEW k, k = NewJob(kind, u, A, R, removed, pc)
  PROVE  /\ k.kind = kind /\ k.u = u /\ k.pc = pc /\ k.toAdd = A /\ k.toRemove = R
         /\ k.added = {} /\ k.removed = removed
  BY DEF NewJob

(***************************************************************************)
(* Links stay signed once.                                                 *)
(***************************************************************************)
LEMMA SignedStep ==
  TypeOK /\ JobInv /\ TakenInv /\ AloneInv /\ SignedInv /\ [OneAtATime]_vars => SignedInv'
<1> SUFFICES ASSUME TypeOK, JobInv, TakenInv, AloneInv, SignedInv, [OneAtATime]_vars
             PROVE  SignedInv'
  OBVIOUS
<1> DEFINE Goal == SignedInv'
           Ok(k) == /\ k.toAdd \cup k.added \subseteq minted'
                    /\ Uncommitted(k) =>
                         (k.toAdd \cup k.added) \cap (accepted \cup k.toRemove \cup k.removed) = {}
                    /\ k.kind = "sdna" => k.pc # "commit" /\ k.removed = {}
           Stores == /\ minted \subseteq minted'
                     /\ \A u \in Uuids : store'[u] \cup view'[u] \subseteq minted'
<1> USE DEF SignedInv, NewlySigned
<1>1. CASE UNCHANGED vars
  BY <1>1 DEF vars, history, Uncommitted
<1>2. ASSUME Stores, accepted' = accepted, NEW k, Ok(k), jobs' \subseteq jobs \cup {k} PROVE Goal
  BY <1>2 DEF Uncommitted
<1>3. ASSUME Stores, accepted' = accepted, jobs' \subseteq jobs PROVE Goal
  BY <1>3 DEF Uncommitted
<1>4. ASSUME NEW u \in Uuids, NEW A \in SUBSET Fresh, AddLinks(u, A) PROVE Goal
  <2> DEFINE k == NewJob("add", u, A, {}, {}, "sign")
  <2>1. k.kind = "add" /\ k.toAdd = A /\ k.added = {} /\ k.toRemove = {} /\ k.removed = {}
    BY NewJobFields
  <2>2. Stores /\ accepted' = accepted /\ jobs' = jobs \cup {k} /\ A \subseteq minted'
    BY <1>4 DEF AddLinks
  <2> HIDE DEF k
  <2>3. Ok(k)
    BY <2>1, <2>2 DEF Fresh
  <2> QED
    BY <1>2, <2>2, <2>3
<1>5. ASSUME NEW u \in Uuids, NEW l \in Visible(u), RemoveLink(u, l) PROVE Goal
  <2> DEFINE k == NewJob("remove", u, {}, {}, {l}, "store")
  <2>1. k.kind = "remove" /\ k.toAdd = {} /\ k.added = {}
    BY NewJobFields
  <2>2. Stores /\ accepted' = accepted /\ jobs' = jobs \cup {k}
    BY <1>5 DEF RemoveLink, StoreRemove, TypeOK
  <2> HIDE DEF k
  <2>3. Ok(k)
    BY <2>1
  <2> QED
    BY <1>2, <2>2, <2>3
<1>6. ASSUME NEW u \in Uuids, NEW old \in Visible(u), NEW new \in Fresh,
             UpdateLink(u, old, new)
      PROVE  Goal
  <2> DEFINE k == NewJob("update", u, {new}, {}, {old}, "sign")
  <2>1. k.kind = "update" /\ k.toAdd = {new} /\ k.added = {} /\ k.toRemove = {} /\ k.removed = {old}
    BY NewJobFields
  <2>2. Stores /\ accepted' = accepted /\ jobs' = jobs \cup {k} /\ new \in minted'
    BY <1>6 DEF UpdateLink, StoreRemove, TypeOK
  <2>3. old \in minted
    BY DEF Visible
  <2> HIDE DEF k
  <2>4. Ok(k)
    BY <2>1, <2>2, <2>3 DEF Fresh
  <2> QED
    BY <1>2, <2>2, <2>4
<1>7. ASSUME NEW u \in Uuids, NEW A \in SUBSET Fresh, NEW R \in SUBSET Visible(u),
             LinkMutations(u, A, R)
      PROVE  Goal
  <2> DEFINE k == NewJob("mutate", u, A, R, {}, "sign")
  <2>1. k.kind = "mutate" /\ k.toAdd = A /\ k.added = {} /\ k.toRemove = R /\ k.removed = {}
    BY NewJobFields
  <2>2. Stores /\ accepted' = accepted /\ jobs' = jobs \cup {k} /\ A \subseteq minted'
    BY <1>7 DEF LinkMutations
  <2>3. R \subseteq minted
    BY DEF Visible
  <2> HIDE DEF k
  <2>4. Ok(k)
    BY <2>1, <2>2, <2>3 DEF Fresh
  <2> QED
    BY <1>2, <2>2, <2>4
<1>8. ASSUME NEW u \in Uuids, NEW code \in Fresh \ Bad, NEW type \in Fresh \ Bad,
             AddSdna(u, code, type)
      PROVE  Goal
  <2> DEFINE k == NewJob("sdna", u, {type}, {}, {}, "store")
  <2>1. k.pc = "store" /\ k.toAdd = {type} /\ k.added = {} /\ k.toRemove = {} /\ k.removed = {}
    BY NewJobFields
  <2>2. Stores /\ accepted' = accepted /\ jobs' = jobs \cup {k} /\ type \in minted'
    BY <1>8 DEF AddSdna, StoreAdd, TypeOK
  <2> HIDE DEF k
  <2>3. Ok(k)
    BY <2>1, <2>2 DEF Fresh
  <2> QED
    BY <1>2, <2>2, <2>3
<1>9. ASSUME NEW u \in Uuids, Add(u) \/ Remove(u) \/ EngineCall(u) \/ SetLinkLanguage(u)
      PROVE  Goal
  <2>1. Stores /\ accepted' = accepted /\ jobs' = jobs
    BY <1>9 DEF Add, Remove, EngineCall, StartSync, StopSync, SetLinkLanguage, history, TypeOK
  <2> QED
    BY <1>3, <2>1
<1>10. ASSUME NEW u \in Uuids, SyncPerspective(u) PROVE Goal
  <2> DEFINE k == [DiffJob(u, None, None, net, {}, {}, {}) EXCEPT !.pc = "ask"]
  <2>1. k.kind = "diff" /\ k.toAdd \subseteq net /\ k.added = {}
    BY DEF DiffJob
  <2>2. Stores /\ accepted' = accepted /\ jobs' = jobs \cup {k} /\ minted' = minted
    BY <1>10 DEF SyncPerspective, history
  <2> HIDE DEF k
  <2>3. Ok(k)
    BY <2>1, <2>2 DEF TakenInv, Uncommitted
  <2> QED
    BY <1>2, <2>2, <2>3
<1>11. ASSUME NEW j \in jobs, SdnaType(j) PROVE Goal
  <2>1. Stores /\ accepted' = accepted /\ jobs' \subseteq jobs
    BY <1>11 DEF SdnaType, StoreAdd, Finish, history, TypeOK
  <2> QED
    BY <1>3, <2>1
<1>12. ASSUME NEW j \in jobs,
              \/ SyncRejects(j) \/ SignFails(j) \/ CommitRejects(j)
              \/ \E l \in j.toAdd : StoreThrows(j, l)
       PROVE  Goal
  <2>1. Stores /\ accepted' = accepted /\ jobs' \subseteq jobs
    BY <1>12 DEF SyncRejects, SignFails, CommitRejects, StoreThrows, Finish, history
  <2> QED
    BY <1>3, <2>1
<1>13. ASSUME NEW j \in jobs, PushPrivate(j) \/ CommitResolves(j) PROVE Goal
  <2>1. \A u \in Uuids : view'[u] \subseteq view[u] \cup j.added
    BY <1>13 DEF PushPrivate, CommitResolves, Announce, TypeOK
  <2>2. Stores /\ accepted' = accepted /\ jobs' \subseteq jobs
    BY <1>13, <2>1 DEF PushPrivate, CommitResolves, Finish, history
  <2> QED
    BY <1>3, <2>2
<1>14. ASSUME NEW j \in jobs, NEW l \in j.toAdd, StoreOne(j, l) \/ DiffAdd(j, l) PROVE Goal
  <2> DEFINE k == [j EXCEPT !.toAdd = @ \ {l}, !.added = @ \cup {l}, !.pc = "store"]
  <2>1. /\ k.kind = j.kind /\ k.toAdd \cup k.added = j.toAdd \cup j.added
        /\ k.toRemove = j.toRemove /\ k.removed = j.removed
    BY DEF TypeOK, Job
  <2>2. Stores /\ accepted' = accepted /\ jobs' \subseteq jobs \cup {k} /\ minted' = minted
    BY <1>14 DEF StoreOne, DiffAdd, StoreAdd, Replace, history, TypeOK
  <2> HIDE DEF k
  <2>3. j.kind # "sdna" /\ (j.kind = "diff" \/ Uncommitted(j))
    BY <1>14 DEF StoreOne, DiffAdd, Writing, Uncommitted
  <2>4. Uncommitted(k) => Uncommitted(j)
    BY <2>1, <2>3 DEF Uncommitted
  <2>5. Ok(k)
    BY <2>1, <2>2, <2>3, <2>4
  <2> QED
    BY <1>2, <2>2, <2>5
<1>15. ASSUME NEW j \in jobs, NEW r \in j.toRemove, RemoveOne(j, r) PROVE Goal
  <2> DEFINE k == [j EXCEPT !.toRemove = @ \ {r},
                            !.removed = @ \cup ({r} \cap store[j.u]), !.pc = "store"]
  <2>1. /\ k.kind = j.kind /\ k.toAdd = j.toAdd /\ k.added = j.added
        /\ k.toRemove \cup k.removed \subseteq j.toRemove \cup j.removed
    BY DEF TypeOK, Job
  <2>2. /\ Stores /\ accepted' = accepted /\ jobs' \subseteq jobs \cup {k} /\ minted' = minted
        /\ j.kind # "sdna"
    BY <1>15 DEF RemoveOne, Writing, StoreRemove, Replace, history, TypeOK
  <2> HIDE DEF k
  <2>3. Uncommitted(j)
    BY <1>15 DEF RemoveOne, Writing, Uncommitted
  <2>4. Ok(k)
    BY <2>1, <2>2, <2>3
  <2> QED
    BY <1>2, <2>2, <2>4
<1>16. ASSUME NEW j \in jobs, PushLost(j) PROVE Goal
  <2> DEFINE k == [j EXCEPT !.pc = "refused"]
  <2>1. /\ k.kind = j.kind /\ k.toAdd = j.toAdd /\ k.added = j.added
        /\ k.toRemove = j.toRemove /\ k.removed = j.removed
    BY DEF TypeOK, Job
  <2>2. Stores /\ accepted' = accepted /\ jobs' \subseteq jobs \cup {k} /\ minted' = minted
    BY <1>16 DEF PushLost, Replace, history
  <2> HIDE DEF k
  <2>3. j.kind # "sdna" /\ Uncommitted(j)
    BY <1>16 DEF PushLost, Ready, LocalKind, Uncommitted
  <2>4. Ok(k)
    BY <2>1, <2>2, <2>3
  <2> QED
    BY <1>2, <2>2, <2>4
<1>17. ASSUME NEW j \in jobs, NEW fa \in Firsts(j.added), NEW fr \in Firsts(j.removed),
              PushCommit(j, fa, fr)
       PROVE  Goal
  <2> DEFINE k == [j EXCEPT !.pc = "commit"]
             D == DiffJobs(j.u, j.added, j.removed, fa, fr)
  <2>1. /\ k.kind = j.kind /\ k.pc = "commit" /\ k.toAdd = j.toAdd /\ k.added = j.added
        /\ k.removed = j.removed
    BY DEF TypeOK, Job
  <2>2. jobs = {j} /\ j.kind # "sdna"
    BY <1>17 DEF PushCommit, Ready, LocalKind, Uncommitted, AloneInv
  <2>3. /\ jobs' \subseteq {k} \cup D
        /\ accepted' = accepted \cup j.added /\ minted' = minted
    BY <1>17, <2>2 DEF PushCommit
  <2>4. \A d \in D : d.kind = "diff" /\ d.toAdd \subseteq j.added /\ d.added \subseteq j.added
    BY DiffJobsCarry
  <2>5. fa \subseteq j.added
    BY DEF Firsts
  <2>6. \A u \in Uuids : store'[u] \subseteq store[u] \cup j.added
    BY <1>17, <2>5 DEF PushCommit
  <2>7. view' = view
    BY <1>17 DEF PushCommit
  <2> HIDE DEF k, D
  <2>8. \A x \in jobs' : /\ ~Uncommitted(x) /\ x.toAdd \cup x.added \subseteq minted
                         /\ x.kind = "sdna" => x.pc # "commit" /\ x.removed = {}
    BY <2>1, <2>2, <2>3, <2>4 DEF Uncommitted
  <2> QED
    BY <2>3, <2>6, <2>7, <2>8 DEF Uncommitted
<1>18. ASSUME NEW j \in jobs, NEW fr \in Firsts(j.toRemove), DiffNext(j, fr) PROVE Goal
  <2> DEFINE k == [j EXCEPT !.toRemove = @ \ fr, !.added = {}, !.removed = fr, !.pc = "emit"]
  <2>1. k.kind = j.kind /\ k.added = {} /\ k.toAdd = j.toAdd /\ j.kind = "diff"
    BY <1>18 DEF TypeOK, Job, DiffNext
  <2>2. jobs' \subseteq jobs \cup {k}
    BY <1>18 DEF DiffNext, Replace, Finish
  <2>3. \A u \in Uuids : view'[u] \subseteq view[u] \cup j.added
    BY <1>18 DEF DiffNext, Announce, TypeOK
  <2>4. Stores /\ accepted' = accepted /\ minted' = minted
    BY <1>18, <2>3 DEF DiffNext, StoreRemove, history, TypeOK
  <2> HIDE DEF k
  <2>5. Ok(k)
    BY <2>1, <2>4 DEF Uncommitted
  <2> QED
    BY <1>2, <2>2, <2>4, <2>5
<1>19. ASSUME NEW e \in Engines, NEW f \in Firsts(engines[e].snap), SyncReturns(e, f)
       PROVE  Goal
  <2> DEFINE k == DiffJob(engines[e].uuid, e, None, engines[e].snap, {}, f, {})
  <2>1. f \subseteq engines[e].snap /\ engines[e].snap \subseteq minted
    BY DEF Firsts, TakenInv
  <2>2. k.kind = "diff" /\ k.added \subseteq minted /\ k.toAdd \subseteq minted
    BY <2>1 DEF DiffJob
  <2>3. Stores /\ accepted' = accepted /\ minted' = minted /\ jobs' \subseteq jobs \cup {k}
    BY <1>19, <2>1 DEF SyncReturns, StoreAdd, history, TypeOK
  <2> HIDE DEF k
  <2>4. Ok(k)
    BY <2>2, <2>3 DEF Uncommitted
  <2> QED
    BY <1>2, <2>3, <2>4
<1>20. ASSUME NEW e \in Engines, RevisionReturns(e) \/ StartRejects(e) PROVE Goal
  BY <1>3, <1>20 DEF RevisionReturns, StartRejects, history
<1> HIDE DEF Goal
<1> QED
  BY <1>1, <1>4, <1>5, <1>6, <1>7, <1>8, <1>9, <1>10, <1>11, <1>12, <1>13, <1>14, <1>15,
     <1>16, <1>17, <1>18, <1>19, <1>20
     DEF OneAtATime, Call, LinkCall, BatchCall, AdapterCall, Settle, Resume, Reject,
         ResumeStart, Goal

(***************************************************************************)
(* Diffs and answers stay current.                                         *)
(***************************************************************************)
LEMMA CurrentStep ==
  /\ NoTwins /\ TypeOK /\ EngineInv /\ JobInv /\ AloneInv /\ SignedInv /\ CurrentInv
  /\ [OneAtATime]_vars
  => CurrentInv'
<1> SUFFICES ASSUME NoTwins, TypeOK, EngineInv, JobInv, AloneInv, SignedInv, CurrentInv,
                    [OneAtATime]_vars
             PROVE  CurrentInv'
  OBVIOUS
<1> DEFINE Goal == CurrentInv'
           Ok(k) == /\ k.kind = "diff" => /\ k.toAdd \subseteq net /\ k.toRemove \cap net = {}
                                          /\ k.pc = "ask" => k.toRemove = {}
                    /\ k.pc = "ask" => k.kind = "diff"
<1> USE DEF CurrentInv, CurrentAt
<1>1. CASE UNCHANGED vars
  BY <1>1 DEF vars, Ensured
<1>2. ASSUME UNCHANGED <<handles, adapters, engines, net>>,
             NEW k, Ok(k), jobs' \subseteq jobs \cup {k}
      PROVE  Goal
  BY <1>2 DEF Ensured
<1>3. ASSUME UNCHANGED <<handles, adapters, engines, net>>, jobs' \subseteq jobs
      PROVE  Goal
  BY <1>3 DEF Ensured
<1>4. ASSUME UNCHANGED net, jobs' \subseteq jobs,
             \A e \in Engines : engines'[e].pc = "sync" => engines'[e].snap = net,
             \A e \in Engines : engines'[e].running =>
               \/ engines'[e].uuid \in adapters'
               \/ handles'[engines'[e].uuid] \notin {"Private", "Synced"}
      PROVE  Goal
  BY <1>4 DEF Ensured
<1>5. ASSUME NEW u \in Uuids, LinkCall(u) \/ BatchCall(u) PROVE Goal
  <2> DEFINE New(k) == \E A, R, removed, kind, pc : 
               /\ kind # "diff" /\ pc # "ask"
               /\ k = NewJob(kind, u, A, R, removed, pc)
  <2>1. /\ UNCHANGED <<handles, adapters, engines, net>>
        /\ \E k : New(k) /\ jobs' = jobs \cup {k}
    BY <1>5 DEF LinkCall, AddLinks, RemoveLink, UpdateLink, BatchCall, LinkMutations, AddSdna
  <2>2. \A k : New(k) => k.kind # "diff" /\ k.pc # "ask"
    BY NewJobFields
  <2> QED
    BY <1>2, <2>1, <2>2
<1>6. ASSUME NEW u \in Uuids, Add(u) PROVE Goal
  BY <1>4, <1>6 DEF Add, EngineInv, Ensured, TypeOK
<1>7. ASSUME NEW u \in Uuids, Remove(u) PROVE Goal
  BY <1>4, <1>7 DEF Remove, Ensured, EngineInv, TypeOK
<1>8. ASSUME Quiet, NEW u \in Uuids, NEW e \in Engines, StartSync(u, e) PROVE Goal
  <2>1. /\ engines'[e].uuid = u /\ engines'[e].snap = net /\ u \in adapters'
        /\ \A d \in Engines \ {e} : engines'[d] = engines[d]
        /\ UNCHANGED <<net, handles, jobs>> /\ adapters \subseteq adapters'
    BY <1>8 DEF StartSync, TypeOK
  <2> QED
    BY <1>4, <2>1 DEF Ensured
<1>9. ASSUME NEW u \in Uuids, StopSync(u) PROVE Goal
  <2>1. \A d \in Engines : /\ engines'[d].snap = engines[d].snap /\ engines'[d].pc = engines[d].pc
                           /\ engines'[d].running => engines[d].running
                           /\ engines'[d].uuid = engines[d].uuid
    BY <1>9 DEF StopSync, TypeOK, Engine
  <2>2. UNCHANGED <<net, handles, adapters, jobs>>
    BY <1>9 DEF StopSync
  <2> QED
    BY <1>4, <2>1, <2>2 DEF Ensured
<1>10. ASSUME NEW u \in Uuids, SetLinkLanguage(u) PROVE Goal
  BY <1>4, <1>10 DEF SetLinkLanguage, Ensured
<1>11. ASSUME NEW u \in Uuids, SyncPerspective(u) PROVE Goal
  <2> DEFINE k == [DiffJob(u, None, None, net, {}, {}, {}) EXCEPT !.pc = "ask"]
  <2>1. k.kind = "diff" /\ k.toAdd \subseteq net /\ k.toRemove = {}
    BY DEF DiffJob
  <2>2. jobs' = jobs \cup {k} /\ UNCHANGED <<handles, adapters, engines, net>>
    BY <1>11 DEF SyncPerspective
  <2> HIDE DEF k
  <2> QED
    BY <1>2, <2>1, <2>2
<1>12. ASSUME NEW j \in jobs,
              \/ SdnaType(j) \/ PushPrivate(j) \/ CommitResolves(j) \/ SyncRejects(j)
              \/ SignFails(j) \/ CommitRejects(j)
              \/ \E l \in j.toAdd : StoreThrows(j, l)
       PROVE  Goal
  BY <1>3, <1>12 DEF SdnaType, PushPrivate, CommitResolves, SyncRejects, SignFails,
                    CommitRejects, StoreThrows, Finish
<1>13. ASSUME NEW j \in jobs, NEW l \in j.toAdd, StoreOne(j, l) \/ DiffAdd(j, l) PROVE Goal
  <2> DEFINE k == [j EXCEPT !.toAdd = @ \ {l}, !.added = @ \cup {l}, !.pc = "store"]
  <2>1. k.kind = j.kind /\ k.toAdd \subseteq j.toAdd /\ k.toRemove = j.toRemove /\ k.pc = "store"
    BY DEF TypeOK, Job
  <2>2. jobs' \subseteq jobs \cup {k} /\ UNCHANGED <<handles, adapters, engines, net>>
    BY <1>13 DEF StoreOne, DiffAdd, Replace
  <2> HIDE DEF k
  <2>3. Ok(k)
    BY <2>1
  <2> QED
    BY <1>2, <2>2, <2>3
<1>14. ASSUME NEW j \in jobs, NEW r \in j.toRemove, RemoveOne(j, r) PROVE Goal
  <2> DEFINE k == [j EXCEPT !.toRemove = @ \ {r},
                            !.removed = @ \cup ({r} \cap store[j.u]), !.pc = "store"]
  <2>1. k.kind # "diff" /\ k.pc = "store"
    BY <1>14 DEF TypeOK, Job, RemoveOne, Writing
  <2>2. jobs' \subseteq jobs \cup {k} /\ UNCHANGED <<handles, adapters, engines, net>>
    BY <1>14 DEF RemoveOne, Replace
  <2> HIDE DEF k
  <2> QED
    BY <1>2, <2>1, <2>2
<1>15. ASSUME NEW j \in jobs, PushLost(j) PROVE Goal
  <2> DEFINE k == [j EXCEPT !.pc = "refused"]
  <2>1. k.kind # "diff" /\ k.pc = "refused"
    BY <1>15 DEF TypeOK, Job, PushLost, Ready, LocalKind
  <2>2. jobs' \subseteq jobs \cup {k} /\ UNCHANGED <<handles, adapters, engines, net>>
    BY <1>15 DEF PushLost, Replace
  <2> HIDE DEF k
  <2> QED
    BY <1>2, <2>1, <2>2
<1>16. ASSUME NEW j \in jobs, NEW fr \in Firsts(j.toRemove), DiffNext(j, fr) PROVE Goal
  <2> DEFINE k == [j EXCEPT !.toRemove = @ \ fr, !.added = {}, !.removed = fr, !.pc = "emit"]
  <2>1. /\ k.kind = j.kind /\ k.toAdd = j.toAdd /\ k.toRemove \subseteq j.toRemove
        /\ k.pc = "emit"
    BY DEF TypeOK, Job
  <2>2. jobs' \subseteq jobs \cup {k} /\ UNCHANGED <<handles, adapters, engines, net>>
    BY <1>16 DEF DiffNext, Replace, Finish
  <2> HIDE DEF k
  <2>3. Ok(k)
    BY <2>1
  <2> QED
    BY <1>2, <2>2, <2>3
<1>17. ASSUME NEW j \in jobs, NEW fa \in Firsts(j.added), NEW fr \in Firsts(j.removed),
              PushCommit(j, fa, fr)
       PROVE  Goal
  <2> DEFINE k == [j EXCEPT !.pc = "commit"]
             D == DiffJobs(j.u, j.added, j.removed, fa, fr)
  <2>1. Uncommitted(j) /\ j.added \in SUBSET Links /\ j.removed \in SUBSET Links
    BY <1>17 DEF PushCommit, Ready, LocalKind, Uncommitted, TypeOK, Job
  <2>2. jobs = {j} /\ \A e \in Engines : engines[e].pc # "sync"
    BY <2>1 DEF AloneInv, Starting
  <2>3. net' = (net \cup j.added) \ j.removed
    <3>1. net' \in AfterCommit(net, j.added, j.removed) /\ net \in SUBSET Links
      BY <1>17 DEF PushCommit, TypeOK
    <3> QED
      BY <2>1, <3>1, CommitTakes
  <2>4. j.added \cap j.removed = {}
    BY <2>1 DEF SignedInv, NewlySigned
  <2>5. \A d \in D : /\ d.kind = "diff" /\ d.toAdd \subseteq j.added /\ d.toRemove \subseteq j.removed
                     /\ d.pc # "ask"
    BY DiffJobsCarry
  <2>6. k.kind # "diff" /\ k.pc = "commit"
    BY <2>1 DEF TypeOK, Job, Uncommitted
  <2>7. jobs' \subseteq {k} \cup D /\ UNCHANGED <<handles, adapters, engines>>
    BY <1>17, <2>2 DEF PushCommit
  <2> HIDE DEF k, D
  <2>8. \A x \in jobs' : /\ x.kind = "diff" => CurrentAt(x, net')
                         /\ x.pc = "ask" => x.kind = "diff"
    BY <2>3, <2>4, <2>5, <2>6, <2>7
  <2> QED
    BY <2>2, <2>7, <2>8 DEF Ensured
<1>18. ASSUME NEW e \in Engines, NEW f \in Firsts(engines[e].snap), SyncReturns(e, f)
       PROVE  Goal
  <2> DEFINE k == DiffJob(engines[e].uuid, e, None, engines[e].snap, {}, f, {})
  <2>1. k.kind = "diff" /\ k.toAdd \subseteq net /\ k.toRemove = {}
    BY <1>18 DEF SyncReturns, DiffJob
  <2>2. \A d \in Engines : /\ engines'[d].pc = "sync" =>
                                engines[d].pc = "sync" /\ engines'[d].snap = engines[d].snap
                           /\ engines'[d].running = engines[d].running
                           /\ engines'[d].uuid = engines[d].uuid
    BY <1>18 DEF SyncReturns, TypeOK, Engine
  <2>3. jobs' \subseteq jobs \cup {k} /\ UNCHANGED <<handles, adapters, net>>
    BY <1>18 DEF SyncReturns
  <2> HIDE DEF k
  <2> QED
    BY <2>1, <2>2, <2>3 DEF Ensured
<1>19. ASSUME NEW e \in Engines, RevisionReturns(e) \/ StartRejects(e) PROVE Goal
  <2>1. \A d \in Engines : /\ engines'[d].pc = "sync" =>
                                engines[d].pc = "sync" /\ engines'[d].snap = engines[d].snap
                           /\ engines'[d].running = engines[d].running
                           /\ engines'[d].uuid = engines[d].uuid
    BY <1>19 DEF RevisionReturns, StartRejects, TypeOK, Engine
  <2>2. /\ jobs' = jobs /\ UNCHANGED <<adapters, net>>
        /\ \A u : handles'[u] \in {"Private", "Synced"} /\ u \in Uuids => Ensured(u)
    BY <1>19 DEF RevisionReturns, StartRejects, Ensured, TypeOK
  <2>3. \A d \in Engines : engines[d].running => engines[d].uuid \in Uuids
    BY DEF EngineInv, TypeOK, Engine
  <2> QED
    BY <2>1, <2>2, <2>3 DEF Ensured
<1> HIDE DEF Goal
<1> QED
  BY <1>1, <1>5, <1>6, <1>7, <1>8, <1>9, <1>10, <1>11, <1>12, <1>13, <1>14, <1>15,
     <1>16, <1>17, <1>18, <1>19
     DEF OneAtATime, Call, EngineCall, AdapterCall, Settle, Resume, Reject, ResumeStart, Goal

-----------------------------------------------------------------------------
(* Replicas agree with the language but for what is on its way.            *)

(***************************************************************************)
(* A step that leaves the language alone misses no removal.                *)
(***************************************************************************)
LEMMA SettledShrinks ==
  ASSUME Missing, net' = net, accepted' = accepted, halfDone \subseteq halfDone', NEW u \in Uuids
  PROVE  Settled(u)' = Settled(u) \ halfDone'
<1>1. missed'[u] = missed[u]
  BY DEF Missing
<1> QED
  BY <1>1 DEF Settled

(***************************************************************************)
(* What such a step has to see to: a link that is new in a store is in the *)
(* language, and no link is lost on its way.                               *)
(***************************************************************************)
KeepsAgreed ==
  \A u \in Uuids : Ensured(u)' =>
    /\ Ensured(u)
    /\ \A l \in Settled(u) \ halfDone' :
         /\ l \in store'[u] => \/ l \in net
                               \/ Leaving(u, l)'
                               \/ l \in store[u] /\ ~Leaving(u, l)
         /\ l \in net /\ Synced(u)' => \/ Reached(u, l)'
                                       \/ TakenOut(u, l)'
                                       \/ Synced(u) /\ ~Reached(u, l) /\ ~TakenOut(u, l)

(***************************************************************************)
(* A step that sees to it keeps the replicas agreed.                       *)
(***************************************************************************)
LEMMA AgreeKept ==
  ASSUME AgreeInv, KeepsAgreed,
         Missing, net' = net, accepted' = accepted, halfDone \subseteq halfDone'
  PROVE  AgreeInv'
<1> SUFFICES ASSUME NEW u \in Uuids, Ensured(u)', NEW l \in Settled(u)'
             PROVE  /\ l \in store'[u] => l \in net' \/ Leaving(u, l)'
                    /\ l \in net' /\ Synced(u)' => Reached(u, l)' \/ TakenOut(u, l)'
  BY DEF AgreeInv
<1>1. Ensured(u) /\ l \in Settled(u) /\ l \notin halfDone'
  BY SettledShrinks DEF KeepsAgreed
<1>2. /\ l \in store[u] => l \in net \/ Leaving(u, l)
      /\ l \in net /\ Synced(u) => Reached(u, l) \/ TakenOut(u, l)
  BY <1>1 DEF AgreeInv
<1> QED
  BY <1>1, <1>2 DEF KeepsAgreed

(***************************************************************************)
(* A new call: nothing else is under way.                                  *)
(***************************************************************************)
LEMMA AgreeCall ==
  ASSUME TypeOK, EngineInv, CarryInv, AgreeInv, Quiet, Call, Missing
  PROVE  AgreeInv'
<1> DEFINE Goal == AgreeInv'
<1> USE DEF Synced
<1>1. \A u \in Uuids : \A l : ~Leaving(u, l) /\ ~TakenOut(u, l) /\ (Reached(u, l) <=> l \in store[u])
  BY DEF Quiet, Leaving, TakenOut, Reached, Pending
<1>2. ASSUME net' = net, accepted' = accepted, halfDone \subseteq halfDone',
             \A u \in Uuids : Ensured(u)' => Ensured(u),
             \A u \in Uuids : Ensured(u)' /\ Synced(u)' => Synced(u),
             \A u \in Uuids : Ensured(u)' =>
               /\ store'[u] \subseteq store[u] \cup halfDone'
               /\ \A l \in store[u] : l \in store'[u] \/ TakenOut(u, l)'
      PROVE  Goal
  <2>1. \A u \in Uuids : \A l : l \in store'[u] => Reached(u, l)'
    BY DEF Reached
  <2>2. ASSUME NEW u \in Uuids, Ensured(u)', NEW l \in Settled(u) \ halfDone'
        PROVE  /\ l \in store'[u] => l \in store[u] /\ ~Leaving(u, l)
               /\ Synced(u)' => \/ Reached(u, l)'
                                \/ TakenOut(u, l)'
                                \/ Synced(u) /\ ~Reached(u, l) /\ ~TakenOut(u, l)
    BY <1>1, <1>2, <2>1, <2>2
  <2>3. KeepsAgreed
    BY <1>2, <2>2 DEF KeepsAgreed
  <2> QED
    BY <1>2, <2>3, AgreeKept
<1>3. ASSUME NEW u \in Uuids, Add(u) PROVE Goal
  <2>1. /\ UNCHANGED <<jobs, net, accepted, halfDone, store, engines>>
        /\ \A v \in Uuids \ {u} : Ensured(v)' => Ensured(v)
    BY <1>3 DEF Add, history, Ensured, TypeOK
  <2>2. store[u] = {} /\ ~Synced(u)'
    BY <1>3, <2>1 DEF Add, CarryInv, EngineInv, TypeOK
  <2>3. ASSUME NEW v \in Uuids, Ensured(v)', NEW l \in Settled(v)'
        PROVE  /\ l \in store'[v] => l \in net' \/ Leaving(v, l)'
               /\ l \in net' /\ Synced(v)' => Reached(v, l)' \/ TakenOut(v, l)'
    <3>1. CASE v = u
      BY <2>1, <2>2, <3>1
    <3>2. CASE v # u
      <4>1. l \in Settled(v) /\ Ensured(v)
        BY <2>1, <2>3, <3>2, SettledShrinks
      <4>2. /\ l \in store[v] => l \in net
            /\ l \in net /\ Synced(v) => l \in store[v]
        BY <1>1, <4>1 DEF AgreeInv
      <4> QED
        BY <2>1, <4>2 DEF Reached
    <3> QED
      BY <3>1, <3>2
  <2> QED
    BY <2>3 DEF AgreeInv
<1>4. ASSUME NEW u \in Uuids, Remove(u) PROVE Goal
  <2>1. /\ UNCHANGED <<net, accepted, halfDone, engines>>
        /\ ~Ensured(u)'
        /\ \A v \in Uuids \ {u} : (Ensured(v)' => Ensured(v)) /\ store'[v] = store[v]
    BY <1>4 DEF Remove, history, Ensured, TypeOK
  <2> QED
    BY <1>2, <2>1
<1>5. ASSUME NEW u \in Uuids, NEW k, jobs' = jobs \cup {k}, k.u = u, Uncommitted(k),
             UNCHANGED <<handles, engines, net, accepted>>, halfDone \subseteq halfDone',
             \A v \in Uuids : /\ store'[v] \subseteq store[v] \cup halfDone'
                              /\ v # u => store[v] \subseteq store'[v],
             store[u] \subseteq store'[u] \cup k.removed
      PROVE  Goal
  <2>1. \A l \in k.removed : TakenOut(u, l)'
    BY <1>5 DEF TakenOut, Uncommitted
  <2>2. ASSUME NEW v \in Uuids, NEW l \in store[v] PROVE l \in store'[v] \/ TakenOut(v, l)'
    BY <1>5, <2>1, <2>2
  <2>3. \A v \in Uuids : (Ensured(v)' => Ensured(v)) /\ (Synced(v)' => Synced(v))
    BY <1>5 DEF Ensured
  <2> QED
    BY <1>2, <1>5, <2>2, <2>3
<1>6. ASSUME NEW u \in Uuids, NEW A, AddLinks(u, A) PROVE Goal
  <2> DEFINE k == NewJob("add", u, A, {}, {}, "sign")
  <2>1. k.kind = "add" /\ k.u = u /\ k.pc = "sign"
    BY NewJobFields
  <2>2. /\ jobs' = jobs \cup {k} /\ UNCHANGED <<handles, engines, net, accepted, store, halfDone>>
    BY <1>6 DEF AddLinks
  <2> HIDE DEF k
  <2> QED
    BY <1>5, <2>1, <2>2 DEF Uncommitted
<1>7. ASSUME NEW u \in Uuids, NEW l, RemoveLink(u, l) PROVE Goal
  <2> DEFINE k == NewJob("remove", u, {}, {}, {l}, "store")
  <2>1. k.kind = "remove" /\ k.u = u /\ k.pc = "store" /\ k.removed = {l}
    BY NewJobFields
  <2>2. /\ jobs' = jobs \cup {k} /\ UNCHANGED <<handles, engines, net, accepted, halfDone>>
        /\ store' = [store EXCEPT ![u] = @ \ {l}]
    BY <1>7 DEF RemoveLink, StoreRemove
  <2> HIDE DEF k
  <2>3. /\ \A v \in Uuids : /\ store'[v] \subseteq store[v] \cup halfDone'
                            /\ v # u => store[v] \subseteq store'[v]
        /\ store[u] \subseteq store'[u] \cup k.removed
    BY <2>1, <2>2 DEF TypeOK
  <2> QED
    BY <1>5, <2>1, <2>2, <2>3 DEF Uncommitted
<1>8. ASSUME NEW u \in Uuids, NEW old, NEW new, UpdateLink(u, old, new) PROVE Goal
  <2> DEFINE k == NewJob("update", u, {new}, {}, {old}, "sign")
  <2>1. k.kind = "update" /\ k.u = u /\ k.pc = "sign" /\ k.removed = {old}
    BY NewJobFields
  <2>2. /\ jobs' = jobs \cup {k} /\ UNCHANGED <<handles, engines, net, accepted, halfDone>>
        /\ store' = [store EXCEPT ![u] = @ \ {old}]
    BY <1>8 DEF UpdateLink, StoreRemove
  <2> HIDE DEF k
  <2>3. /\ \A v \in Uuids : /\ store'[v] \subseteq store[v] \cup halfDone'
                            /\ v # u => store[v] \subseteq store'[v]
        /\ store[u] \subseteq store'[u] \cup k.removed
    BY <2>1, <2>2 DEF TypeOK
  <2> QED
    BY <1>5, <2>1, <2>2, <2>3 DEF Uncommitted
<1>9. ASSUME NEW u \in Uuids, NEW A, NEW R, LinkMutations(u, A, R) PROVE Goal
  <2> DEFINE k == NewJob("mutate", u, A, R, {}, "sign")
  <2>1. k.kind = "mutate" /\ k.u = u /\ k.pc = "sign"
    BY NewJobFields
  <2>2. jobs' = jobs \cup {k} /\ UNCHANGED <<handles, engines, net, accepted, store, halfDone>>
    BY <1>9 DEF LinkMutations
  <2> HIDE DEF k
  <2> QED
    BY <1>5, <2>1, <2>2 DEF Uncommitted
<1>10. ASSUME NEW u \in Uuids, NEW code, NEW type, AddSdna(u, code, type) PROVE Goal
  <2> DEFINE k == NewJob("sdna", u, {type}, {}, {}, "store")
  <2>1. k.kind = "sdna" /\ k.u = u /\ k.pc = "store"
    BY NewJobFields
  <2>2. /\ jobs' = jobs \cup {k} /\ UNCHANGED <<handles, engines, net, accepted>>
        /\ store' = [store EXCEPT ![u] = @ \cup {code}]
        /\ halfDone' = halfDone \cup {code, type}
    BY <1>10 DEF AddSdna, StoreAdd
  <2> HIDE DEF k
  <2>3. /\ \A v \in Uuids : /\ store'[v] \subseteq store[v] \cup halfDone'
                            /\ v # u => store[v] \subseteq store'[v]
        /\ store[u] \subseteq store'[u] \cup k.removed
    BY <2>1, <2>2 DEF TypeOK
  <2> QED
    BY <1>5, <2>1, <2>2, <2>3 DEF Uncommitted
<1>11. ASSUME NEW u \in Uuids, EngineCall(u) \/ AdapterCall(u) PROVE Goal
  <2>1. UNCHANGED <<handles, net, accepted, halfDone, store>>
    BY <1>11 DEF EngineCall, StartSync, StopSync, AdapterCall, SetLinkLanguage,
                SyncPerspective, history
  <2> DEFINE Stays == \A e \in Engines :
               engines'[e].running /\ engines'[e].pc \in {"revision", "done"} =>
                 /\ engines[e].running /\ engines[e].pc \in {"revision", "done"}
                 /\ engines'[e].uuid = engines[e].uuid
  <2>2. Stays
    <3>1. ASSUME NEW d \in Engines, StartSync(u, d) PROVE Stays
      BY <3>1 DEF StartSync, TypeOK
    <3>2. CASE StopSync(u)
      BY <3>2 DEF StopSync, TypeOK, Engine
    <3>3. CASE AdapterCall(u)
      BY <3>3 DEF AdapterCall, SetLinkLanguage, SyncPerspective
    <3> QED
      BY <1>11, <3>1, <3>2, <3>3 DEF EngineCall
  <2>3. \A v \in Uuids : (Ensured(v)' => Ensured(v)) /\ (Synced(v)' => Synced(v))
    BY <2>1, <2>2 DEF Ensured
  <2> QED
    BY <1>2, <2>1, <2>3
<1> HIDE DEF Goal
<1> QED
  BY <1>3, <1>4, <1>6, <1>7, <1>8, <1>9, <1>10, <1>11 DEF Call, LinkCall, BatchCall, Goal

(***************************************************************************)
(* A commit: the language and the links it has taken change.               *)
(***************************************************************************)
LEMMA AgreeCommit ==
  ASSUME NoTwins, TypeOK, TakenInv, AloneInv, SignedInv, AgreeInv, Missing,
         NEW j \in jobs, NEW fa \in Firsts(j.added), NEW fr \in Firsts(j.removed),
         PushCommit(j, fa, fr)
  PROVE  AgreeInv'
<1> DEFINE A == j.added
           R == j.removed
           D == DiffJobs(j.u, A, R, fa, fr)
<1>1. /\ Uncommitted(j) /\ j.kind # "diff"
      /\ A \in SUBSET Links /\ R \in SUBSET Links
  BY DEF PushCommit, Ready, LocalKind, Uncommitted, TypeOK, Job
<1>2. jobs = {j} /\ A \cap R = {}
  BY <1>1 DEF AloneInv, SignedInv, NewlySigned
<1>3. net' = (net \cup A) \ R
  <2>1. net' \in AfterCommit(net, A, R) /\ net \in SUBSET Links
    BY DEF PushCommit, TypeOK
  <2> QED
    BY <1>1, <2>1, CommitTakes
<1>4. fa \subseteq A /\ fr \subseteq R
  BY DEF Firsts
<1>5. /\ D \subseteq jobs'
      /\ accepted' = accepted \cup A
      /\ UNCHANGED <<handles, engines, halfDone>>
  BY DEF PushCommit
<1>6. ASSUME NEW u \in Uuids
      PROVE  store'[u] = IF u \in Live THEN (store[u] \cup fa) \ (IF Split \/ fa = {} THEN fr ELSE {})
                                       ELSE store[u]
  BY DEF PushCommit
<1>7. SUFFICES ASSUME NEW u \in Uuids, Ensured(u)', NEW l \in Settled(u)'
               PROVE  /\ l \in store'[u] => l \in net' \/ Leaving(u, l)'
                      /\ l \in net' /\ Synced(u)' => Reached(u, l)'
  BY DEF AgreeInv
<1>8. Ensured(u) /\ (Synced(u)' => Synced(u))
  BY <1>5, <1>7 DEF Ensured, Synced
<1>9. l \in accepted /\ l \notin A => l \in Settled(u)
  BY <1>5, <1>7 DEF Settled, Missing
<1>10. ASSUME l \in Settled(u)
       PROVE  /\ l \in store[u] => l \in net
              /\ l \in net /\ Synced(u) => l \in store[u] \/ l \in R
  <2>1. ~Leaving(u, l) /\ ~Pending(u, l) /\ (TakenOut(u, l) => l \in R)
    BY <1>1, <1>2 DEF Leaving, Pending, TakenOut
  <2> QED
    BY <1>8, <1>10, <2>1 DEF AgreeInv, Reached
<1>11. u \in Live => \E o \in Observers : engines[o].uuid = u
  BY DEF Live, Observers
<1>12. ASSUME u \in Live, l \in A, l \notin fa
       PROVE  Pending(u, l)'
  <2> PICK o \in Observers : engines[o].uuid = u
    BY <1>11, <1>12
  <2>1. \E k \in D : k.kind = "diff" /\ k.u = engines[o].uuid /\ k.pc # "ask" /\ l \in k.toAdd
    BY <1>12, AdditionTold
  <2> HIDE DEF D
  <2> QED
    BY <1>5, <2>1 DEF Pending
<1>13. ASSUME u \in Live, l \in R, ~(l \in fr /\ (Split \/ fa = {}))
       PROVE  Leaving(u, l)'
  <2> PICK o \in Observers : engines[o].uuid = u
    BY <1>11, <1>13
  <2>1. \E k \in D : k.kind = "diff" /\ k.u = engines[o].uuid /\ l \in k.toRemove
    BY <1>13, RemovalTold
  <2> HIDE DEF D
  <2> QED
    BY <1>5, <2>1 DEF Leaving
<1>14. ASSUME l \in store'[u] PROVE l \in net' \/ Leaving(u, l)'
  <2>1. CASE l \in A
    BY <1>2, <1>3, <2>1
  <2>2. CASE l \notin A
    <3>1. l \in Settled(u) /\ l \in store[u]
      BY <1>4, <1>5, <1>6, <1>7, <1>9, <1>14, <2>2 DEF Settled
    <3>2. l \in net
      BY <1>10, <3>1
    <3>3. CASE l \notin R
      BY <1>3, <3>2, <3>3
    <3>4. CASE l \in R
      <4>1. l \in net \ net'
        BY <1>3, <3>2, <3>4
      <4>2. u \in Live
        BY <1>7, <4>1 DEF Settled, Missing
      <4>3. ~(l \in fr /\ (Split \/ fa = {}))
        BY <1>6, <1>14, <4>2
      <4> QED
        BY <1>13, <3>4, <4>2, <4>3
    <3> QED
      BY <3>3, <3>4
  <2> QED
    BY <2>1, <2>2
<1>15. ASSUME l \in net', Synced(u)' PROVE Reached(u, l)'
  <2>1. u \in Live /\ Synced(u)
    BY <1>8, <1>15 DEF Synced, Live
  <2>2. l \notin R /\ (l \in store[u] \/ l \in fa => l \in store'[u])
    BY <1>3, <1>4, <1>6, <1>15, <2>1
  <2>3. CASE l \in A
    BY <1>12, <2>1, <2>2, <2>3 DEF Reached
  <2>4. CASE l \notin A
    <3>1. l \in net /\ l \in Settled(u)
      BY <1>3, <1>9, <1>15, <2>4 DEF TakenInv
    <3> QED
      BY <1>10, <2>1, <2>2, <3>1 DEF Reached
  <2> QED
    BY <2>3, <2>4
<1> QED
  BY <1>14, <1>15

(***************************************************************************)
(* A call goes on that has not committed: nothing else is under way.       *)
(***************************************************************************)
LEMMA AgreeUncommitted ==
  ASSUME TypeOK, CarryInv, AloneInv, SignedInv, CurrentInv, AgreeInv, Missing,
         NEW j \in jobs, Uncommitted(j),
         \/ SdnaType(j) \/ PushPrivate(j) \/ SignFails(j) \/ PushLost(j) \/ CommitRejects(j)
         \/ \E l \in j.toAdd : StoreOne(j, l) \/ StoreThrows(j, l)
         \/ \E r \in j.toRemove : RemoveOne(j, r)
  PROVE  AgreeInv'
<1> DEFINE Goal == AgreeInv'
<1>1. jobs = {j} /\ j.kind # "diff"
  BY DEF AloneInv, Uncommitted
<1>2. \A u \in Uuids : \A l : /\ ~Leaving(u, l) /\ (Reached(u, l) <=> l \in store[u])
                              /\ TakenOut(u, l) <=> j.u = u /\ l \in j.removed
  BY <1>1 DEF Leaving, TakenOut, Reached, Pending
<1>3. ASSUME UNCHANGED <<handles, engines, net, accepted>>, halfDone \subseteq halfDone',
             \A u \in Uuids : \A l \in Settled(u) \ halfDone' :
               /\ l \in store'[u] => l \in store[u]
               /\ l \in store[u] => l \in store'[u] \/ TakenOut(u, l)'
               /\ TakenOut(u, l) => TakenOut(u, l)' \/ (Ensured(u) => ~Synced(u))
      PROVE  Goal
  <2>1. \A u \in Uuids : (Ensured(u)' => Ensured(u)) /\ (Synced(u)' => Synced(u))
    BY <1>3 DEF Ensured, Synced
  <2>2. \A u \in Uuids : \A l \in store'[u] : Reached(u, l)'
    BY DEF Reached
  <2>3. KeepsAgreed
    BY <1>2, <1>3, <2>1, <2>2 DEF KeepsAgreed
  <2> QED
    BY <1>3, <2>3, AgreeKept
<1>4. ASSUME Finish(j), UNCHANGED <<handles, engines, net, accepted>>,
             halfDone \cup j.removed \subseteq halfDone',
             \A u \in Uuids : /\ store'[u] \subseteq store[u] \cup halfDone'
                              /\ store[u] \subseteq store'[u]
      PROVE  Goal
  BY <1>2, <1>3, <1>4
<1>5. ASSUME NEW k, Replace(j, k), Uncommitted(k), k.u = j.u, j.removed \subseteq k.removed,
             UNCHANGED <<handles, engines, net, accepted, halfDone>>,
             \A u \in Uuids : \A l \in Settled(u) :
               /\ l \in store'[u] => l \in store[u]
               /\ l \in store[u] => l \in store'[u] \/ (u = j.u /\ l \in k.removed)
      PROVE  Goal
  <2>1. \A l \in k.removed : TakenOut(j.u, l)'
    BY <1>5 DEF Replace, TakenOut, Uncommitted
  <2> QED
    BY <1>2, <1>3, <1>5, <2>1
<1>6. CASE SdnaType(j)
  <2>1. j.removed = {} /\ j.toAdd \subseteq halfDone
    BY <1>6 DEF SdnaType, SignedInv, CarryInv, CarryJob
  <2>2. UNCHANGED <<handles, engines, net, accepted, halfDone>> /\ Finish(j)
    BY <1>6 DEF SdnaType, history
  <2>3. \A u \in Uuids : /\ store'[u] \subseteq store[u] \cup j.toAdd
                         /\ store[u] \subseteq store'[u]
    BY <1>6 DEF SdnaType, StoreAdd, TypeOK
  <2> QED
    BY <1>4, <2>1, <2>2, <2>3
<1>7. CASE SignFails(j) \/ CommitRejects(j) \/ \E l \in j.toAdd : StoreThrows(j, l)
  BY <1>4, <1>7 DEF SignFails, CommitRejects, StoreThrows
<1>8. CASE PushPrivate(j)
  <2>1. UNCHANGED <<handles, engines, net, accepted, halfDone, store>> /\ j.u \notin adapters
    BY <1>8 DEF PushPrivate, history
  <2>2. Ensured(j.u) => ~Synced(j.u)
    BY <2>1 DEF CurrentInv, Synced
  <2> QED
    BY <1>2, <1>3, <2>1, <2>2
<1>9. CASE PushLost(j)
  <2> DEFINE k == [j EXCEPT !.pc = "refused"]
  <2>1. k.kind = j.kind /\ k.u = j.u /\ k.removed = j.removed /\ k.pc = "refused"
    BY DEF TypeOK, Job
  <2>2. Replace(j, k) /\ UNCHANGED <<handles, engines, net, accepted, halfDone, store>>
    BY <1>9 DEF PushLost, history
  <2> HIDE DEF k
  <2>3. Uncommitted(k)
    BY <1>1, <2>1 DEF Uncommitted
  <2> QED
    BY <1>5, <2>1, <2>2, <2>3
<1>10. ASSUME NEW l \in j.toAdd, StoreOne(j, l) PROVE Goal
  <2> DEFINE k == [j EXCEPT !.toAdd = @ \ {l}, !.added = @ \cup {l}, !.pc = "store"]
  <2>1. k.kind = j.kind /\ k.u = j.u /\ k.removed = j.removed /\ k.pc = "store"
    BY DEF TypeOK, Job
  <2>2. Replace(j, k) /\ UNCHANGED <<handles, engines, net, accepted, halfDone>>
    BY <1>10 DEF StoreOne, history
  <2>3. \A u \in Uuids : /\ store'[u] \subseteq store[u] \cup {l}
                         /\ store[u] \subseteq store'[u]
    BY <1>10 DEF StoreOne, StoreAdd, TypeOK
  <2>4. \A u \in Uuids : l \notin Settled(u)
    BY DEF SignedInv, NewlySigned, Settled
  <2> HIDE DEF k
  <2>5. Uncommitted(k)
    BY <1>1, <2>1 DEF Uncommitted
  <2> QED
    BY <1>5, <2>1, <2>2, <2>3, <2>4, <2>5
<1>11. ASSUME NEW r \in j.toRemove, RemoveOne(j, r) PROVE Goal
  <2> DEFINE k == [j EXCEPT !.toRemove = @ \ {r},
                            !.removed = @ \cup ({r} \cap store[j.u]), !.pc = "store"]
  <2>1. /\ k.kind = j.kind /\ k.u = j.u /\ k.pc = "store"
        /\ k.removed = j.removed \cup ({r} \cap store[j.u])
    BY DEF TypeOK, Job
  <2>2. Replace(j, k) /\ UNCHANGED <<handles, engines, net, accepted, halfDone>>
    BY <1>11 DEF RemoveOne, history
  <2>3. \A u \in Uuids : /\ store'[u] \subseteq store[u]
                         /\ u # j.u => store'[u] = store[u]
                         /\ store[u] \subseteq store'[u] \cup {r}
    BY <1>11 DEF RemoveOne, StoreRemove, TypeOK
  <2> HIDE DEF k
  <2>4. Uncommitted(k)
    BY <1>1, <2>1 DEF Uncommitted
  <2>5. \A u \in Uuids : \A l \in store[u] : l \in store'[u] \/ (u = j.u /\ l \in k.removed)
    BY <2>1, <2>3
  <2> QED
    BY <1>5, <2>1, <2>2, <2>3, <2>4, <2>5
<1> QED
  BY <1>6, <1>7, <1>8, <1>9, <1>10, <1>11

(***************************************************************************)
(* A committed call ends, or a diff goes on.                               *)
(***************************************************************************)
LEMMA AgreeDiff ==
  ASSUME TypeOK, EngineInv, JobInv, CurrentInv, AgreeInv, Missing, NEW j \in jobs, ~Uncommitted(j),
         \/ CommitResolves(j) \/ CommitRejects(j) \/ SyncRejects(j)
         \/ \E l \in j.toAdd : DiffAdd(j, l)
         \/ \E fr \in Firsts(j.toRemove) : DiffNext(j, fr)
  PROVE  AgreeInv'
<1> DEFINE Goal == AgreeInv'
<1>1. UNCHANGED <<handles, engines, net, accepted>> /\ halfDone \subseteq halfDone'
  BY DEF CommitResolves, CommitRejects, SyncRejects, DiffAdd, DiffNext, history
<1>2. \A u \in Uuids : (Ensured(u)' => Ensured(u)) /\ (Synced(u)' => Synced(u))
  BY <1>1 DEF Ensured, Synced
<1>3. ASSUME jobs \ {j} \subseteq jobs'
      PROVE  \A u \in Uuids : \A l : TakenOut(u, l) => TakenOut(u, l)'
  BY <1>3 DEF TakenOut, Uncommitted
<1>4. ASSUME jobs \ {j} \subseteq jobs',
             \A u \in Uuids : \A l \in Links :
               /\ l \in store'[u] => l \in net \/ Leaving(u, l)' \/ (l \in store[u] /\ ~Leaving(u, l))
               /\ l \in net => Reached(u, l)' \/ ~Reached(u, l)
      PROVE  Goal
  <2>1. \A u \in Uuids : Settled(u) \subseteq Links
    BY DEF Settled, TypeOK
  <2>2. KeepsAgreed
    BY <1>2, <1>3, <1>4, <2>1 DEF KeepsAgreed
  <2> QED
    BY <1>1, <2>2, AgreeKept
<1>5. CASE CommitResolves(j) \/ CommitRejects(j) \/ SyncRejects(j)
  <2>1. jobs' = jobs \ {j} /\ store' = store
    BY <1>5 DEF CommitResolves, CommitRejects, SyncRejects, Finish, history
  <2>2. j.kind = "diff" => j.pc = "ask" /\ j.toRemove = {}
    BY <1>5 DEF CommitResolves, CommitRejects, SyncRejects, JobInv, CurrentInv, CurrentAt
  <2>3. \A u \in Uuids : \A l : /\ Leaving(u, l) => Leaving(u, l)'
                                /\ Reached(u, l) => Reached(u, l)'
    BY <2>1, <2>2 DEF Leaving, Reached, Pending
  <2> QED
    BY <1>4, <2>1, <2>3
<1>6. ASSUME NEW l \in j.toAdd, DiffAdd(j, l) PROVE Goal
  <2> DEFINE k == [j EXCEPT !.toAdd = @ \ {l}, !.added = @ \cup {l}, !.pc = "store"]
  <2>1. /\ k.kind = "diff" /\ k.u = j.u /\ k.toAdd = j.toAdd \ {l} /\ k.pc = "store"
        /\ k.toRemove = j.toRemove
    BY <1>6 DEF TypeOK, Job, DiffAdd
  <2>2. jobs' = (jobs \ {j}) \cup {k}
    BY <1>6 DEF DiffAdd, Replace
  <2>3. /\ \A u \in Uuids : /\ store[u] \subseteq store'[u]
                            /\ store'[u] \subseteq store[u] \cup {l}
        /\ l \in store'[j.u]
    BY <1>6 DEF DiffAdd, StoreAdd, TypeOK, Job
  <2>4. l \in net
    BY <1>6 DEF DiffAdd, CurrentInv, CurrentAt
  <2> HIDE DEF k
  <2>5. \A u \in Uuids : \A m : Leaving(u, m) => Leaving(u, m)'
    BY <2>1, <2>2 DEF Leaving
  <2>6. ASSUME NEW u \in Uuids, NEW m, Reached(u, m) PROVE Reached(u, m)'
    <3>1. CASE m \in store[u]
      BY <2>3, <3>1 DEF Reached
    <3>2. ASSUME NEW x \in jobs, x.kind = "diff", x.u = u, m \in x.toAdd, x.pc # "ask"
          PROVE  Reached(u, m)'
      <4>1. CASE x # j
        BY <2>2, <3>2, <4>1 DEF Reached, Pending
      <4>2. CASE x = j /\ m # l
        <5>1. k \in jobs' /\ k.kind = "diff" /\ k.u = u /\ m \in k.toAdd /\ k.pc # "ask"
          BY <2>1, <2>2, <3>2, <4>2
        <5> QED
          BY <5>1 DEF Reached, Pending
      <4>3. CASE x = j /\ m = l
        BY <2>3, <3>2, <4>3 DEF Reached
      <4> QED
        BY <4>1, <4>2, <4>3
    <3> QED
      BY <2>6, <3>1, <3>2 DEF Reached, Pending
  <2> QED
    BY <1>4, <2>2, <2>3, <2>4, <2>5, <2>6
<1>7. ASSUME NEW fr \in Firsts(j.toRemove), DiffNext(j, fr) PROVE Goal
  <2> DEFINE k == [j EXCEPT !.toRemove = @ \ fr, !.added = {}, !.removed = fr, !.pc = "emit"]
  <2>1. /\ k.kind = "diff" /\ k.u = j.u /\ k.toRemove = j.toRemove \ fr
        /\ j.kind = "diff" /\ j.toAdd = {}
    BY <1>7 DEF TypeOK, Job, DiffNext
  <2>2. jobs' = (jobs \ {j}) \cup (IF fr = {} THEN {} ELSE {k})
    BY <1>7 DEF DiffNext, Finish, Replace
  <2>3. \A u \in Uuids : store'[u] = IF u = j.u THEN store[u] \ fr ELSE store[u]
    BY <1>7 DEF DiffNext, StoreRemove, TypeOK
  <2>4. fr \subseteq j.toRemove /\ (fr = {} => j.toRemove = {}) /\ fr \cap net = {}
    BY <2>1 DEF Firsts, CurrentInv, CurrentAt
  <2> HIDE DEF k
  <2>5. ASSUME NEW u \in Uuids, NEW m, Leaving(u, m) PROVE Leaving(u, m)' \/ m \notin store'[u]
    <3> PICK x \in jobs : x.kind = "diff" /\ x.u = u /\ m \in x.toRemove
      BY <2>5 DEF Leaving
    <3>1. CASE x # j
      BY <2>2, <3>1 DEF Leaving
    <3>2. CASE x = j /\ m \notin fr
      <4>1. k \in jobs' /\ k.kind = "diff" /\ k.u = u /\ m \in k.toRemove
        BY <2>1, <2>2, <2>4, <3>2
      <4> QED
        BY <4>1 DEF Leaving
    <3>3. CASE x = j /\ m \in fr
      BY <2>3, <3>3
    <3> QED
      BY <3>1, <3>2, <3>3
  <2>6. ASSUME NEW u \in Uuids, NEW m \in net, Reached(u, m) PROVE Reached(u, m)'
    <3>1. CASE m \in store[u]
      BY <2>3, <2>4, <3>1 DEF Reached
    <3>2. CASE Pending(u, m)
      BY <2>1, <2>2, <3>2 DEF Reached, Pending
    <3> QED
      BY <2>6, <3>1, <3>2 DEF Reached
  <2>7. \A u \in Uuids : store'[u] \subseteq store[u]
    BY <2>3
  <2> QED
    BY <1>4, <2>2, <2>5, <2>6, <2>7
<1> QED
  BY <1>5, <1>6, <1>7

(***************************************************************************)
(* An engine goes on starting, or fails to: what it was answered is what   *)
(* the language holds.                                                     *)
(***************************************************************************)
LEMMA AgreeStart ==
  ASSUME TypeOK, EngineInv, AloneInv, CurrentInv, AgreeInv, Missing, NEW e \in Engines,
         ResumeStart(e) \/ StartRejects(e)
  PROVE  AgreeInv'
<1>1. UNCHANGED <<net, accepted, halfDone>> /\ jobs \subseteq jobs'
  BY DEF ResumeStart, SyncReturns, RevisionReturns, StartRejects, history
<1>2. \A u \in Uuids : Ensured(u)' => Ensured(u)
  BY DEF ResumeStart, SyncReturns, RevisionReturns, StartRejects, Ensured, TypeOK
<1>3. \A u \in Uuids : \A l : /\ Leaving(u, l) => Leaving(u, l)'
                              /\ TakenOut(u, l) => TakenOut(u, l)'
                              /\ Pending(u, l) => Pending(u, l)'
  BY <1>1 DEF Leaving, TakenOut, Pending, Uncommitted
<1>4. ASSUME \A u \in Uuids : /\ store[u] \subseteq store'[u]
                              /\ store'[u] \subseteq store[u] \cup net
                              /\ Synced(u)' => Synced(u) \/ \A l \in net : Reached(u, l)'
      PROVE  AgreeInv'
  <2>1. \A u \in Uuids : \A l : Reached(u, l) => Reached(u, l)'
    BY <1>3, <1>4 DEF Reached
  <2>2. KeepsAgreed
    BY <1>2, <1>3, <1>4, <2>1 DEF KeepsAgreed
  <2> QED
    BY <1>1, <2>2, AgreeKept
<1>5. ASSUME NEW f \in Firsts(engines[e].snap), SyncReturns(e, f) PROVE AgreeInv'
  <2> DEFINE k == DiffJob(engines[e].uuid, e, None, engines[e].snap, {}, f, {})
  <2>1. /\ engines[e].snap = net /\ engines[e].uuid \in Uuids
        /\ f \subseteq net /\ (f = {} => net = {})
    BY <1>5 DEF SyncReturns, CurrentInv, EngineInv, Firsts
  <2>2. \A u \in Uuids : store'[u] = IF u = engines[e].uuid THEN store[u] \cup f ELSE store[u]
    BY <1>5, <2>1 DEF SyncReturns, StoreAdd, TypeOK
  <2>3. k.kind = "diff" /\ k.u = engines[e].uuid /\ k.pc # "ask" /\ k.toAdd = net \ f
    BY <2>1, DiffJobFields
  <2>4. f # {} => k \in jobs'
    BY <1>5 DEF SyncReturns
  <2> HIDE DEF k
  <2> PICK v \in Uuids : v = engines[e].uuid
    BY <2>1
  <2>5. ASSUME NEW l \in net PROVE Reached(v, l)'
    <3>1. l \in f => l \in store'[v]
      BY <2>1, <2>2
    <3>2. l \notin f => k \in jobs' /\ k.kind = "diff" /\ k.u = v /\ l \in k.toAdd /\ k.pc # "ask"
      BY <2>1, <2>3, <2>4, <2>5
    <3> QED
      BY <3>1, <3>2 DEF Reached, Pending
  <2>6. \A d \in Engines : /\ engines'[d].uuid = engines[d].uuid
                           /\ engines'[d].running = engines[d].running
                           /\ d # e => engines'[d].pc = engines[d].pc
    BY <1>5 DEF SyncReturns, TypeOK, Engine
  <2>7. \A u \in Uuids : Synced(u)' => Synced(u) \/ u = v
    BY <2>6 DEF Synced
  <2>8. \A u \in Uuids : store[u] \subseteq store'[u] /\ store'[u] \subseteq store[u] \cup net
    BY <2>1, <2>2
  <2> QED
    BY <1>4, <2>5, <2>7, <2>8
<1>6. CASE RevisionReturns(e) \/ StartRejects(e)
  <2>1. store' = store
    BY <1>6 DEF RevisionReturns, StartRejects
  <2>2. \A d \in Engines : /\ engines'[d].uuid = engines[d].uuid
                           /\ engines'[d].running = engines[d].running
                           /\ engines'[d].pc \in {"revision", "done"} =>
                                engines[d].pc \in {"revision", "done"}
    BY <1>6 DEF RevisionReturns, StartRejects, TypeOK, Engine
  <2>3. \A u \in Uuids : Synced(u)' => Synced(u)
    BY <2>2 DEF Synced
  <2> QED
    BY <1>4, <2>1, <2>3
<1> QED
  BY <1>5, <1>6 DEF ResumeStart

(***************************************************************************)
(* Every step keeps the replicas agreed.                                   *)
(***************************************************************************)
LEMMA AgreeStep ==
  /\ NoTwins /\ TypeOK /\ EngineInv /\ JobInv /\ CarryInv /\ TakenInv
  /\ AloneInv /\ SignedInv /\ CurrentInv /\ AgreeInv /\ [OneAtATime /\ Missing]_<<vars, missed>>
  => AgreeInv'
<1> SUFFICES ASSUME NoTwins, TypeOK, EngineInv, JobInv, CarryInv, TakenInv,
                    AloneInv, SignedInv, CurrentInv, AgreeInv,
                    [OneAtATime /\ Missing]_<<vars, missed>>
             PROVE  AgreeInv'
  OBVIOUS
<1>1. CASE UNCHANGED <<vars, missed>>
  BY <1>1 DEF vars, history, AgreeInv, Ensured, Settled, Leaving, TakenOut, Synced, Reached,
              Pending, Uncommitted
<1>2. CASE Quiet /\ Call /\ Missing
  BY <1>2, AgreeCall
<1>3. ASSUME NEW j \in jobs, Resume(j) \/ Reject(j), Missing PROVE AgreeInv'
  <2>1. ASSUME NEW fa \in Firsts(j.added), NEW fr \in Firsts(j.removed), PushCommit(j, fa, fr)
        PROVE  AgreeInv'
    BY <1>3, <2>1, AgreeCommit
  <2>2. CASE Uncommitted(j)
    <3>1. ~CommitResolves(j) /\ ~SyncRejects(j)
      BY <2>2 DEF CommitResolves, SyncRejects, CurrentInv, Uncommitted
    <3>2. /\ ~\E l \in j.toAdd : DiffAdd(j, l)
          /\ ~\E fr \in Firsts(j.toRemove) : DiffNext(j, fr)
      BY <2>2 DEF DiffAdd, DiffNext, Uncommitted
    <3>3. \/ SdnaType(j) \/ PushPrivate(j) \/ SignFails(j) \/ PushLost(j) \/ CommitRejects(j)
          \/ \E l \in j.toAdd : StoreOne(j, l) \/ StoreThrows(j, l)
          \/ \E r \in j.toRemove : RemoveOne(j, r)
          \/ \E fa \in Firsts(j.added), fr \in Firsts(j.removed) : PushCommit(j, fa, fr)
      BY <1>3, <3>1, <3>2 DEF Resume, Reject
    <3>4. ASSUME \/ SdnaType(j) \/ PushPrivate(j) \/ SignFails(j) \/ PushLost(j) \/ CommitRejects(j)
                 \/ \E l \in j.toAdd : StoreOne(j, l) \/ StoreThrows(j, l)
                 \/ \E r \in j.toRemove : RemoveOne(j, r)
          PROVE  AgreeInv'
      BY <1>3, <2>2, <3>4, AgreeUncommitted
    <3> QED
      BY <2>1, <3>3, <3>4
  <2>3. CASE ~Uncommitted(j)
    <3>0. /\ ~Writing(j) /\ ~Ready(j) /\ ~SdnaType(j)
          /\ \A l : ~StoreOne(j, l) /\ ~StoreThrows(j, l) /\ ~RemoveOne(j, l)
          /\ ~PushPrivate(j) /\ ~SignFails(j) /\ ~PushLost(j)
      BY <2>3 DEF SdnaType, StoreOne, StoreThrows, RemoveOne, PushPrivate, SignFails,
                  PushLost, Writing, Ready, LocalKind, Uncommitted, SignedInv
    <3>1. \/ CommitResolves(j) \/ CommitRejects(j) \/ SyncRejects(j)
          \/ \E l \in j.toAdd : DiffAdd(j, l)
          \/ \E fr \in Firsts(j.toRemove) : DiffNext(j, fr)
          \/ \E fa \in Firsts(j.added), fr \in Firsts(j.removed) : PushCommit(j, fa, fr)
      BY <1>3, <3>0 DEF Resume, Reject
    <3>2. ASSUME \/ CommitResolves(j) \/ CommitRejects(j) \/ SyncRejects(j)
                 \/ \E l \in j.toAdd : DiffAdd(j, l)
                 \/ \E fr \in Firsts(j.toRemove) : DiffNext(j, fr)
          PROVE  AgreeInv'
      BY <1>3, <2>3, <3>2, AgreeDiff
    <3>3. CASE \E fa \in Firsts(j.added), fr \in Firsts(j.removed) : PushCommit(j, fa, fr)
      BY <2>1, <3>3
    <3> QED
      BY <3>1, <3>2, <3>3
  <2> QED
    BY <2>2, <2>3
<1>4. ASSUME NEW e \in Engines, ResumeStart(e) \/ StartRejects(e), Missing PROVE AgreeInv'
  BY <1>4, AgreeStart
<1> QED
  BY <1>1, <1>2, <1>3, <1>4 DEF OneAtATime, Settle

-----------------------------------------------------------------------------
(* The theorem.                                                            *)

(***************************************************************************)
(* A call at a time is a way to run the manager, and no more.              *)
(***************************************************************************)
LEMMA ConvergenceIsSpec == ConvergenceSpec => Spec
<1>1. [OneAtATime /\ Missing]_<<vars, missed>> => [Next]_vars
  BY DEF OneAtATime, Next, vars, history
<1> QED
  BY <1>1, PTL DEF ConvergenceSpec, Spec

ManagerInv == TypeOK /\ EngineInv /\ JobInv /\ CarryInv /\ TakenInv

(***************************************************************************)
(* What is known of every run of the manager.                              *)
(***************************************************************************)
LEMMA ManagerInvariant == Spec => []ManagerInv
<1>1. Init => CarryInv /\ TakenInv
  BY DEF Init, CarryInv, TakenInv, NewEngine
<1>2. (TypeOK /\ EngineInv) /\ (ValidInv /\ JobInv) /\ (CarryInv /\ TakenInv) /\ [Next]_vars
      => (CarryInv /\ TakenInv)'
  BY CarryStep, TakenStep
<1>3. (TypeOK /\ EngineInv) /\ (ValidInv /\ JobInv) /\ (CarryInv /\ TakenInv) => ManagerInv
  BY DEF ManagerInv
<1> QED
  BY <1>1, <1>2, <1>3, TypedEngines, LinksInvariant, PTL DEF Spec

ConvergenceInv == AloneInv /\ SignedInv /\ CurrentInv /\ AgreeInv

(***************************************************************************)
(* When calls are made one at a time, a replica that is in sync agrees     *)
(* with the language whenever nothing is under way: for every number of    *)
(* replicas, engines and links, for a shared and for a bundled language,   *)
(* and whatever fails, as long as no two links are twins.                  *)
(***************************************************************************)
THEOREM AgreementCorrect == ASSUME NoTwins PROVE ConvergenceSpec => []Agreement
<1>1. Init => ConvergenceInv
  BY DEF Init, ConvergenceInv, AloneInv, SignedInv, CurrentInv, AgreeInv, NewEngine, Ensured
<1>2. ManagerInv /\ ConvergenceInv /\ [OneAtATime /\ Missing]_<<vars, missed>> => ConvergenceInv'
  <2> SUFFICES ASSUME ManagerInv, ConvergenceInv, [OneAtATime /\ Missing]_<<vars, missed>>
               PROVE  ConvergenceInv'
    OBVIOUS
  <2>1. [OneAtATime]_vars
    BY DEF vars, history
  <2>2. (AloneInv /\ SignedInv /\ CurrentInv)'
    BY <2>1, AloneStep, SignedStep, CurrentStep DEF ManagerInv, ConvergenceInv
  <2>3. AgreeInv'
    BY AgreeStep DEF ManagerInv, ConvergenceInv
  <2> QED
    BY <2>2, <2>3 DEF ConvergenceInv
<1>3. ManagerInv /\ ConvergenceInv => Agreement
  <2> SUFFICES ASSUME ManagerInv, ConvergenceInv, Quiet, NEW u \in Uuids, Ensured(u), InSync(u),
                      NEW l \in Settled(u)
               PROVE  l \in store[u] <=> l \in net
    BY DEF Agreement, Settled
  <2>1. Synced(u)
    BY DEF InSync, Synced
  <2>2. ~Leaving(u, l) /\ ~TakenOut(u, l) /\ ~Pending(u, l)
    BY DEF Quiet, Leaving, TakenOut, Pending
  <2> QED
    BY <2>1, <2>2 DEF ConvergenceInv, AgreeInv, Reached
<1> QED
  BY <1>1, <1>2, <1>3, ConvergenceIsSpec, ManagerInvariant, PTL DEF ConvergenceSpec
=============================================================================
