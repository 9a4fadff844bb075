-------------------------- MODULE PDiffSync_proofs --------------------------
(***************************************************************************)
(* Proofs about the revisions of PDiffSync, for any number of agents,      *)
(* commits, attempts and calls of sync(): what was committed is kept, and  *)
(* what an adapter takes for a revision, its own or that of a peer, is one *)
(* that the agent has had, however late it was heard of.                   *)
(***************************************************************************)
EXTENDS MCPDiffSync, FiniteSetTheorems, SequenceTheorems, WellFoundedInduction, TLAPS

-----------------------------------------------------------------------------
(* The properties.                                                         *)

MadeIn(c, revision) == \E n \in 1..MaxAttempts[c] : <<c, n>> \in revision

(***************************************************************************)
(* What commit() has resolved for is in the revision of its author, after  *)
(* however many attempts, pulls, merges and lost answers (p-diff-sync.ts   *)
(* commit).                                                                *)
(***************************************************************************)
CommitsKept == \A c \in Commits : commit[c].at = "resolved" => MadeIn(c, current[Author[c]])

(***************************************************************************)
(* What an adapter has for its revision and for those of its peers lags    *)
(* behind them, but is never ahead; and no agent has an entry of a commit  *)
(* which its author does not have (sync, runGossip, handleSignal).         *)
(***************************************************************************)
RevisionsLag ==
  \A a, b \in Agents :
    /\ myRevision[a] \subseteq current[a]
    /\ peers[b][a] \subseteq current[a]
    /\ \A c \in Commits, n \in Nat :
         Author[c] = a /\ <<c, n>> \in current[b] => <<c, n>> \in current[a]

-----------------------------------------------------------------------------
(* The inductive invariant, in parts.                                      *)

RunType == [at : SyncPc, scribe : BOOLEAN, left : Seq(Revision), res : Revision]

(* Some agent of the revisions `cur' has all of a revision. *)
Had(revision, cur) == \E b \in Agents : revision \subseteq cur[b]

RunOk(run, mine, cur) ==
  /\ run.at \in {"sync", "pulled"} => run.res \subseteq mine
  /\ run.at = "pull" => run.left # <<>>
  /\ \A i \in 1..Len(run.left) : Had(run.left[i], cur)

CommitOk(c, call, mine) ==
  /\ call.at = "made" => call.res \subseteq mine /\ <<c, call.attempt>> \in mine
  /\ call.at = "resolved" => MadeIn(c, mine)

RunsInv == \A a \in Agents : \A s \in Slots : RunOk(runs[a][s], current[a], current)

CommitsInv == \A c \in Commits : CommitOk(c, commit[c], current[Author[c]])

HeardInv ==
  \A a \in Agents : /\ myRevision[a] \subseteq current[a]
                    /\ \A b \in Agents : peers[b][a] \subseteq current[a]

AuthorInv ==
  \A c \in Commits, n \in Nat : \A b \in Agents :
    <<c, n>> \in current[b] => <<c, n>> \in current[Author[c]]

GossipInv == TypeOK /\ RunsInv /\ CommitsInv /\ HeardInv /\ AuthorInv

-----------------------------------------------------------------------------
(* Lemmas about sequences.                                                 *)

(***************************************************************************)
(* A set of numbers that is not empty has a least one.                     *)
(***************************************************************************)
LEMMA LeastNumber ==
  ASSUME NEW T \in SUBSET Nat, T # {}
  PROVE  \E m \in T : \A n \in T : m <= n
<1> DEFINE Below == OpToRel(<, Nat)
<1>1. IsWellFoundedOn(Below, Nat)
  BY NatLessThanWellFounded
<1>2. \A m, n \in Nat : <<n, m>> \in Below <=> n < m
  BY Zenon DEF OpToRel
<1> HIDE DEF Below
<1>3. PICK m \in T : \A n \in T : ~(<<n, m>> \in Below)
  BY <1>1, WFMin
<1>4. ASSUME NEW n \in T PROVE m <= n
  <2>1. ~(<<n, m>> \in Below)
    BY <1>3
  <2>2. m \in Nat /\ n \in Nat
    OBVIOUS
  <2>3. ~(n < m)
    BY <1>2, <2>1, <2>2
  <2> QED
    BY <2>2, <2>3
<1> QED
  BY <1>4

(***************************************************************************)
(* The place SelectInSeq finds, of those that pass its test, is a place of *)
(* the sequence, or 0.                                                     *)
(***************************************************************************)
LEMMA SelectedPlace ==
  ASSUME NEW n \in Nat, NEW I \in SUBSET (1..n)
  PROVE  (IF I # {} THEN Min(I) ELSE 0) \in 0..n
<1>1. CASE I # {}
  <2>1. \E m \in I : \A k \in I : m <= k
    BY <1>1, LeastNumber
  <2>2. Min(I) \in I
    BY <2>1 DEF Min
  <2>3. Min(I) \in 0..n
    <3> HIDE <1>1
    <3>1. Min(I) \in 1..n
      BY <2>2
    <3> QED
      BY <3>1
  <2> QED
    BY <1>1, <2>3
<1>2. CASE I = {}
  BY <1>2
<1> QED
  BY <1>1, <1>2

(***************************************************************************)
(* The revisions of a gossip round are those of peers.                     *)
(***************************************************************************)
LEMMA RevisionsOfRound ==
  ASSUME NEW kept \in [Agents -> Revision], NEW order \in SetToSeqs(Known(kept))
  PROVE  LET revisions == [i \in DOMAIN order |-> kept[order[i]]]
         IN /\ revisions \in Seq(Revision)
            /\ \A i \in 1..Len(revisions) : \E b \in Agents : revisions[i] = kept[b]
<1> DEFINE revisions == [i \in DOMAIN order |-> kept[order[i]]]
<1>1. Cardinality(Known(kept)) \in Nat
  BY FS_Subset, FS_CardinalityType, GossipAssumption DEF Known
<1> DEFINE N == Cardinality(Known(kept))
<1>2. order \in [1..N -> Agents]
  BY DEF SetToSeqs, Known
<1> HIDE DEF N
<1>3. N \in Nat
  BY <1>1 DEF N
<1>4. revisions \in [1..N -> Revision]
  BY <1>2
<1>5. revisions \in Seq(Revision) /\ Len(revisions) = N
  <2> HIDE DEF revisions
  <2> QED
    BY <1>3, <1>4
<1>6. \A i \in 1..N : order[i] \in Agents /\ revisions[i] = kept[order[i]]
  BY <1>2
<1> QED
  BY <1>5, <1>6

-----------------------------------------------------------------------------
(* Lemmas about the operators of PDiffSync.                                *)

(***************************************************************************)
(* What holds of a call holds when revisions have grown.                   *)
(***************************************************************************)
LEMMA RunOkGrown ==
  ASSUME NEW cur \in [Agents -> Revision], NEW new \in [Agents -> Revision],
         \A b \in Agents : cur[b] \subseteq new[b],
         NEW a \in Agents, NEW run \in RunType, RunOk(run, cur[a], cur)
  PROVE  RunOk(run, new[a], new)
<1>1. \A i \in 1..Len(run.left) : Had(run.left[i], new)
  <2>1. ASSUME NEW i \in 1..Len(run.left) PROVE Had(run.left[i], new)
    <3>1. PICK b \in Agents : run.left[i] \subseteq cur[b]
      BY DEF RunOk, Had
    <3> QED
      BY <3>1 DEF Had
  <2> QED
    BY <2>1
<1>2. run.at \in {"sync", "pulled"} => run.res \subseteq new[a]
  <2>1. cur[a] \subseteq new[a]
    OBVIOUS
  <2> QED
    BY <2>1 DEF RunOk
<1>3. run.at = "pull" => run.left # <<>>
  BY DEF RunOk
<1> QED
  BY <1>1, <1>2, <1>3 DEF RunOk

(***************************************************************************)
(* The same of a commit.                                                   *)
(***************************************************************************)
LEMMA CommitOkGrown ==
  ASSUME NEW c, NEW call, NEW mine, NEW new, mine \subseteq new, CommitOk(c, call, mine)
  PROVE  CommitOk(c, call, new)
BY DEF CommitOk, MadeIn

(***************************************************************************)
(* One call changes, and what holds of the calls goes on to hold.          *)
(***************************************************************************)
LEMMA RunSet ==
  ASSUME NEW R \in [Agents -> [Slots -> RunType]], NEW cur,
         \A b \in Agents : \A t \in Slots : RunOk(R[b][t], cur[b], cur),
         NEW a \in Agents, NEW s \in Slots, NEW run \in RunType, RunOk(run, cur[a], cur)
  PROVE  /\ [R EXCEPT ![a][s] = run] \in [Agents -> [Slots -> RunType]]
         /\ \A b \in Agents : \A t \in Slots :
              RunOk([R EXCEPT ![a][s] = run][b][t], cur[b], cur)
<1> DEFINE Q == [R EXCEPT ![a][s] = run]
<1>1. Q \in [Agents -> [Slots -> RunType]]
  BY Zenon
<1>2. ASSUME NEW b \in Agents, NEW t \in Slots PROVE RunOk(Q[b][t], cur[b], cur)
  <2>1. CASE b = a /\ t = s
    <3>1. Q[b][t] = run
      BY <2>1
    <3> QED
      BY <2>1, <3>1
  <2>2. CASE b # a \/ t # s
    <3>1. Q[b][t] = R[b][t]
      BY <2>2
    <3> QED
      BY <3>1
  <2> QED
    BY <2>1, <2>2
<1> QED
  BY <1>1, <1>2

(* What NextPull makes of a call. *)
NextRun(mine, left, scribe) ==
  LET i == SelectInSeq(left, LAMBDA hash : hash # mine)
  IN IF i = 0 THEN Idle
     ELSE [at |-> "pull", scribe |-> scribe, left |-> SubSeq(left, i, Len(left)), res |-> {}]

(***************************************************************************)
(* NextPull ends the call, or goes on with a part of what it was given.    *)
(***************************************************************************)
LEMMA PullsNext ==
  ASSUME NEW mine, NEW left \in Seq(Revision), NEW scribe \in BOOLEAN, NEW own, NEW cur,
         \A i \in 1..Len(left) : Had(left[i], cur)
  PROVE  NextRun(mine, left, scribe) \in RunType /\ RunOk(NextRun(mine, left, scribe), own, cur)
<1> DEFINE i == SelectInSeq(left, LAMBDA hash : hash # mine)
           sub == SubSeq(left, i, Len(left))
           pull == [at |-> "pull", scribe |-> scribe, left |-> sub, res |-> {}]
<1>1. i \in 0..Len(left)
  <2> DEFINE I == {j \in 1..Len(left) : left[j] # mine}
  <2>1. i = IF I # {} THEN Min(I) ELSE 0
    BY DEF SelectInSeq
  <2>2. Len(left) \in Nat /\ I \in SUBSET (1..Len(left))
    BY LenProperties
  <2> HIDE DEF I, i
  <2> QED
    BY <2>1, <2>2, SelectedPlace
<1>2. NextRun(mine, left, scribe) = IF i = 0 THEN Idle ELSE pull
  BY DEF NextRun
<1> HIDE DEF i
<1>3. CASE i = 0
  <2>1. Idle \in RunType
    BY EmptySeq DEF Idle, RunType, SyncPc, Revision
  <2>2. Len(Idle.left) = 0 /\ Idle.at = "idle"
    BY EmptySeq DEF Idle
  <2>3. RunOk(Idle, own, cur)
    BY <2>2 DEF RunOk
  <2> QED
    BY <1>2, <1>3, <2>1, <2>3
<1>4. CASE i \in 1..Len(left)
  <2>1. Len(left) \in Nat /\ \A j \in i..Len(left) : left[j] \in Revision
    BY <1>4, LenProperties, ElementOfSeq
  <2>2. /\ sub \in Seq(Revision)
        /\ Len(sub) = Len(left) - i + 1
        /\ \A j \in 1..Len(left) - i + 1 : sub[j] = left[i + j - 1]
    BY <1>4, <2>1, SubSeqProperties
  <2> HIDE DEF sub
  <2>3. pull \in RunType
    BY <2>2 DEF RunType, SyncPc, Revision
  <2>4. \A j \in 1..Len(sub) : Had(sub[j], cur)
    BY <1>4, <2>1, <2>2
  <2>5. sub # <<>>
    BY <1>4, <2>1, <2>2, EmptySeq
  <2>6. RunOk(pull, own, cur)
    BY <2>4, <2>5 DEF RunOk
  <2>7. NextRun(mine, left, scribe) = pull
    <3>1. i # 0
      BY <1>4, <2>1
    <3> QED
      BY <1>2, <3>1
  <2> QED
    BY <2>3, <2>6, <2>7
<1>5. i = 0 \/ i \in 1..Len(left)
  BY <1>1, LenProperties
<1> QED
  BY <1>3, <1>4, <1>5

(***************************************************************************)
(* A pull makes a revision of the entries of two, and perhaps a merge.     *)
(***************************************************************************)
LEMMA PullMakes ==
  ASSUME NEW mine \in Revision, NEW hash \in Revision, NEW scribe \in BOOLEAN, NewMerges # {}
  PROVE  /\ Pull(mine, hash, scribe) \in Revision
         /\ mine \subseteq Pull(mine, hash, scribe)
         /\ \A e \in Commits \X Nat : e \in Pull(mine, hash, scribe) => e \in mine \cup hash
<1> DEFINE m == CHOOSE m \in NewMerges : TRUE
<1>1. m \in Merges
  BY DEF NewMerges
<1>2. m \notin Commits \X Nat
  BY <1>1, GossipAssumption
<1> HIDE DEF m
<1>3. Pull(mine, hash, scribe) =
        IF mine \subseteq hash THEN hash
        ELSE IF hash \subseteq mine \/ ~scribe THEN mine
        ELSE mine \cup hash \cup {m}
  BY DEF Pull, m
<1> QED
  BY <1>1, <1>2, <1>3 DEF Revision, Entries

-----------------------------------------------------------------------------
(* The steps, of a call of sync() first.                                   *)

RunsType == runs \in [Agents -> [Slots -> RunType]]

(***************************************************************************)
(* A step that leaves the zomes and the commits alone keeps what is said   *)
(* of them.                                                                *)
(***************************************************************************)
LEMMA SameZome ==
  ASSUME GossipInv, current' = current, commit' = commit
  PROVE  /\ CommitsInv' /\ AuthorInv'
         /\ current' \in [Agents -> Revision]
         /\ commit' \in [Commits -> [at : CommitPc, attempt : Nat, res : Revision]]
         /\ \A c \in Commits : commit'[c].attempt \in 1 .. MaxAttempts[c]
BY DEF GossipInv, TypeOK, CommitsInv, AuthorInv

(***************************************************************************)
(* A call of sync() changes as `run' says, and the zomes as they are.      *)
(***************************************************************************)
LEMMA SameZomeRun ==
  ASSUME GossipInv, current' = current, NEW a \in Agents, NEW s \in Slots,
         NEW run \in RunType, RunOk(run, current[a], current), runs' = [runs EXCEPT ![a][s] = run]
  PROVE  RunsType' /\ RunsInv'
<1>1. runs \in [Agents -> [Slots -> RunType]]
  BY DEF GossipInv, TypeOK, RunType
<1>2. \A b \in Agents : \A t \in Slots : RunOk(runs[b][t], current[b], current)
  BY DEF GossipInv, RunsInv
<1> DEFINE Q == [runs EXCEPT ![a][s] = run]
<1>3. /\ Q \in [Agents -> [Slots -> RunType]]
      /\ \A b \in Agents : \A t \in Slots : RunOk(Q[b][t], current[b], current)
  BY <1>1, <1>2, RunSet
<1>4. runs' = Q
  OBVIOUS
<1> HIDE DEF Q
<1> QED
  BY <1>3, <1>4 DEF RunsType, RunsInv

(***************************************************************************)
(* Sync: the answer, and what others hear, is the current revision.        *)
(***************************************************************************)
LEMMA SyncStep ==
  ASSUME GossipInv, NEW a \in Agents, NEW s \in Slots,
         NEW hears \in SUBSET (Agents \ {a}), Sync(a, s, hears)
  PROVE  GossipInv'
<1> DEFINE run == [runs[a][s] EXCEPT !.at = "sync", !.res = current[a]]
<1>1. runs[a][s] \in RunType /\ current[a] \in Revision
  BY DEF GossipInv, TypeOK, RunType
<1>2. RunOk(runs[a][s], current[a], current)
  BY DEF GossipInv, RunsInv
<1>3. run \in RunType /\ run.at = "sync" /\ run.res = current[a] /\ run.left = runs[a][s].left
  BY <1>1 DEF RunType, SyncPc
<1>4. RunOk(run, current[a], current)
  <2> HIDE DEF run
  <2> QED
    BY <1>2, <1>3 DEF RunOk
<1>5. runs' = [runs EXCEPT ![a][s] = run]
  BY DEF Sync, GossipInv, TypeOK
<1>6. current' = current /\ commit' = commit /\ myRevision' = myRevision /\ reported' = reported
  BY DEF Sync
<1>7. RunsType' /\ RunsInv'
  <2> HIDE DEF run
  <2> QED
    BY <1>3, <1>4, <1>5, <1>6, SameZomeRun
<1>8. peers' \in [Agents -> [Agents -> Revision]]
  BY <1>1 DEF Sync, HandleBroadcast, GossipInv, TypeOK
<1>9. \A b, d \in Agents : peers'[b][d] = peers[b][d] \/ peers'[b][d] = current[d]
  BY DEF Sync, HandleBroadcast, GossipInv, TypeOK
<1>10. HeardInv'
  BY <1>6, <1>9 DEF GossipInv, HeardInv
<1>11. TypeOK'
  BY <1>6, <1>7, <1>8, SameZome DEF GossipInv, TypeOK, RunsType, RunType
<1> QED
  BY <1>6, <1>7, <1>10, <1>11, SameZome DEF GossipInv

(***************************************************************************)
(* A round of gossip, that begins with a revision the agent has had.       *)
(***************************************************************************)
LEMMA GossipStep ==
  ASSUME GossipInv, NEW a \in Agents, NEW s \in Slots, NEW mine \in Revision,
         mine \subseteq current[a], NEW gone \in SUBSET Agents,
         Gossip(a, s, mine, Pruned(a, gone)),
         myRevision' = [myRevision EXCEPT ![a] = mine], current' = current, commit' = commit
  PROVE  GossipInv'
<1> DEFINE kept == Pruned(a, gone)
           known == Known(kept)
<1>1. kept \in [Agents -> Revision]
  BY DEF Pruned, GossipInv, TypeOK, Revision
<1>2. \A b \in Agents : kept[b] \subseteq current[b]
  BY DEF Pruned, GossipInv, HeardInv
<1>3. peers' = [peers EXCEPT ![a] = kept]
  BY DEF Gossip
<1>4. PICK order \in SetToSeqs(known) :
        LET revisions == [i \in DOMAIN order |-> kept[order[i]]]
        IN /\ reported' = IF known = {} THEN reported
                          ELSE [reported EXCEPT ![a] = SyncState(revisions, mine)]
           /\ NextPull(a, s, mine, revisions, IsScribe(a, known))
  BY DEF Gossip
<1> DEFINE revisions == [i \in DOMAIN order |-> kept[order[i]]]
<1> HIDE DEF kept
<1>5. /\ revisions \in Seq(Revision)
      /\ \A i \in 1..Len(revisions) : \E b \in Agents : revisions[i] = kept[b]
  BY <1>1, RevisionsOfRound, Zenon
<1>6. NextPull(a, s, mine, revisions, IsScribe(a, known))
  BY <1>4
<1>7. reported' \in [Agents -> {"nothing", "Synced", "LinkLanguageInstalledButNotSynced"}]
  <2>1. SyncState(revisions, mine) \in {"Synced", "LinkLanguageInstalledButNotSynced"}
    BY DEF SyncState
  <2>2. reported' = reported \/ reported' = [reported EXCEPT ![a] = SyncState(revisions, mine)]
    BY <1>4
  <2> HIDE DEF revisions
  <2> QED
    BY <2>1, <2>2 DEF GossipInv, TypeOK
<1> HIDE DEF revisions
<1>8. \A i \in 1..Len(revisions) : Had(revisions[i], current)
  BY <1>2, <1>5 DEF Had
<1>9. IsScribe(a, known) \in BOOLEAN
  BY DEF IsScribe
<1> DEFINE run == NextRun(mine, revisions, IsScribe(a, known))
<1>10. run \in RunType /\ RunOk(run, current[a], current)
  BY <1>5, <1>8, <1>9, PullsNext
<1>16. runs' = [runs EXCEPT ![a][s] = run]
  BY <1>6 DEF NextPull, NextRun
<1> HIDE DEF run
<1>11. RunsType' /\ RunsInv'
  BY <1>10, <1>16, SameZomeRun
<1>12. peers' \in [Agents -> [Agents -> Revision]]
  BY <1>1, <1>3 DEF GossipInv, TypeOK
<1>13. myRevision' \in [Agents -> Revision]
  BY DEF GossipInv, TypeOK
<1>14. HeardInv'
  <2>1. \A b \in Agents : myRevision'[b] \subseteq current[b]
    BY DEF GossipInv, TypeOK, HeardInv
  <2>2. \A b, d \in Agents : peers'[d][b] \subseteq current[b]
    BY <1>2, <1>3 DEF GossipInv, TypeOK, HeardInv
  <2> QED
    BY <2>1, <2>2 DEF HeardInv
<1>15. TypeOK'
  BY <1>7, <1>11, <1>12, <1>13, SameZome DEF TypeOK, RunsType, RunType
<1> QED
  BY <1>11, <1>14, <1>15, SameZome DEF GossipInv

(***************************************************************************)
(* SyncAnswered: the answer is a revision the agent has had.               *)
(***************************************************************************)
LEMMA SyncAnsweredStep ==
  ASSUME GossipInv, NEW a \in Agents, NEW s \in Slots,
         NEW gone \in SUBSET Known(peers[a]), SyncAnswered(a, s, gone)
  PROVE  GossipInv'
<1> DEFINE mine == IF runs[a][s].res # {} THEN runs[a][s].res ELSE myRevision[a]
<1>1. /\ runs[a][s].res \in Revision /\ runs[a][s].res \subseteq current[a]
      /\ myRevision[a] \in Revision /\ myRevision[a] \subseteq current[a]
  BY DEF SyncAnswered, GossipInv, TypeOK, RunsInv, RunOk, HeardInv
<1>2. mine \in Revision /\ mine \subseteq current[a]
  BY <1>1
<1>3. /\ myRevision' = [myRevision EXCEPT ![a] = mine]
      /\ Gossip(a, s, mine, Pruned(a, gone))
      /\ current' = current /\ commit' = commit
  BY DEF SyncAnswered
<1>4. gone \in SUBSET Agents
  BY DEF Known
<1> HIDE DEF mine
<1> QED
  BY <1>2, <1>3, <1>4, GossipStep

(***************************************************************************)
(* SyncFails: the round is held with the revision there is.                *)
(***************************************************************************)
LEMMA SyncFailsStep ==
  ASSUME GossipInv, NEW a \in Agents, NEW s \in Slots,
         NEW gone \in SUBSET Known(peers[a]), SyncFails(a, s, gone)
  PROVE  GossipInv'
<1>1. myRevision[a] \in Revision /\ myRevision[a] \subseteq current[a]
  BY DEF GossipInv, TypeOK, HeardInv
<1>2. /\ myRevision' = [myRevision EXCEPT ![a] = myRevision[a]]
      /\ current' = current /\ commit' = commit
  BY DEF SyncFails, GossipInv, TypeOK
<1>3. Gossip(a, s, myRevision[a], Pruned(a, gone))
  BY DEF SyncFails
<1>4. gone \in SUBSET Agents
  BY DEF Known
<1> QED
  BY <1>1, <1>2, <1>3, <1>4, GossipStep

(***************************************************************************)
(* PullAnswered: the adapter goes on with a revision the agent has had,    *)
(* that of the answer or its own.                                          *)
(***************************************************************************)
LEMMA PullAnsweredStep ==
  ASSUME GossipInv, NEW a \in Agents, NEW s \in Slots,
         NEW mine \in {runs[a][s].res, myRevision[a]}, PullAnswered(a, s, mine)
  PROVE  GossipInv'
<1>1. /\ runs[a][s] \in RunType /\ runs[a][s].res \in Revision /\ myRevision[a] \in Revision
      /\ runs[a][s].left \in Seq(Revision) /\ runs[a][s].scribe \in BOOLEAN
  BY DEF GossipInv, TypeOK, RunType
<1>2. /\ mine \in Revision /\ mine \subseteq current[a]
      /\ \A i \in 1..Len(runs[a][s].left) : Had(runs[a][s].left[i], current)
  BY <1>1 DEF PullAnswered, GossipInv, RunsInv, RunOk, HeardInv
<1>3. /\ myRevision' = [myRevision EXCEPT ![a] = mine]
      /\ NextPull(a, s, mine, runs[a][s].left, runs[a][s].scribe)
      /\ current' = current /\ peers' = peers /\ reported' = reported /\ commit' = commit
  BY DEF PullAnswered
<1> DEFINE run == NextRun(mine, runs[a][s].left, runs[a][s].scribe)
<1>4. run \in RunType /\ RunOk(run, current[a], current)
  BY <1>1, <1>2, PullsNext
<1>9. runs' = [runs EXCEPT ![a][s] = run]
  BY <1>3 DEF NextPull, NextRun
<1> HIDE DEF run
<1>5. RunsType' /\ RunsInv'
  BY <1>3, <1>4, <1>9, SameZomeRun
<1>6. myRevision' \in [Agents -> Revision]
  BY <1>2, <1>3 DEF GossipInv, TypeOK
<1>7. HeardInv'
  BY <1>2, <1>3 DEF GossipInv, TypeOK, HeardInv
<1>8. TypeOK'
  BY <1>3, <1>5, <1>6, SameZome DEF GossipInv, TypeOK, RunsType, RunType
<1> QED
  BY <1>3, <1>5, <1>7, <1>8, SameZome DEF GossipInv

(***************************************************************************)
(* PullFails: the round is over.                                           *)
(***************************************************************************)
LEMMA PullFailsStep ==
  ASSUME GossipInv, NEW a \in Agents, NEW s \in Slots, PullFails(a, s)
  PROVE  GossipInv'
<1>1. Idle \in RunType
  BY EmptySeq DEF Idle, RunType, SyncPc, Revision
<1>2. Len(Idle.left) = 0 /\ Idle.at = "idle"
  BY EmptySeq DEF Idle
<1>3. RunOk(Idle, current[a], current)
  BY <1>2 DEF RunOk
<1>4. /\ runs' = [runs EXCEPT ![a][s] = Idle] /\ current' = current /\ commit' = commit
      /\ myRevision' = myRevision /\ peers' = peers /\ reported' = reported
  BY DEF PullFails, adapterVars
<1>5. RunsType' /\ RunsInv'
  BY <1>1, <1>3, <1>4, SameZomeRun
<1>6. TypeOK'
  BY <1>4, <1>5, SameZome DEF GossipInv, TypeOK, RunsType, RunType
<1> QED
  BY <1>4, <1>5, <1>6, SameZome DEF GossipInv, HeardInv

-----------------------------------------------------------------------------
(* The steps of the zome and of commits.                                   *)

(* A revision has entries of commits of its agent, and of others' revisions. *)
MayHave(a, new) ==
  \A c \in Commits, n \in Nat :
    <<c, n>> \in new => Author[c] = a \/ \E b \in Agents : <<c, n>> \in current[b]

(***************************************************************************)
(* The revision of one agent grows by entries that agents have, merges and *)
(* entries of its own commits.                                             *)
(***************************************************************************)
LEMMA RevisionGrows ==
  ASSUME GossipInv, NEW a \in Agents, NEW new \in Revision, current[a] \subseteq new,
         MayHave(a, new), current' = [current EXCEPT ![a] = new]
  PROVE  /\ current' \in [Agents -> Revision]
         /\ \A b \in Agents : current[b] \subseteq current'[b]
         /\ AuthorInv'
<1>1. current' \in [Agents -> Revision]
  BY DEF GossipInv, TypeOK
<1>2. current'[a] = new /\ \A b \in Agents : b # a => current'[b] = current[b]
  BY DEF GossipInv, TypeOK
<1>3. \A b \in Agents : current[b] \subseteq current'[b]
  BY <1>2
<1>4. ASSUME NEW c \in Commits, NEW n \in Nat, NEW b \in Agents, <<c, n>> \in current'[b]
      PROVE  <<c, n>> \in current'[Author[c]]
  <2>1. Author[c] \in Agents
    BY GossipAssumption
  <2>2. \A d \in Agents : <<c, n>> \in current[d] => <<c, n>> \in current'[Author[c]]
    BY <1>3, <2>1 DEF GossipInv, AuthorInv
  <2>3. CASE b = a
    <3>1. <<c, n>> \in new
      BY <1>2, <1>4, <2>3
    <3>2. Author[c] = a \/ \E d \in Agents : <<c, n>> \in current[d]
      BY <3>1 DEF MayHave
    <3> QED
      BY <1>2, <2>2, <3>1, <3>2
  <2>4. CASE b # a
    BY <1>2, <1>4, <2>2, <2>4
  <2> QED
    BY <2>3, <2>4
<1> QED
  BY <1>1, <1>3, <1>4 DEF AuthorInv

(***************************************************************************)
(* ZomePulls: the agent goes forward to entries that agents have.          *)
(***************************************************************************)
LEMMA ZomePullsStep ==
  ASSUME GossipInv, NEW a \in Agents, NEW s \in Slots, ZomePulls(a, s)
  PROVE  GossipInv'
<1> DEFINE hash == Head(runs[a][s].left)
           new  == Pull(current[a], hash, runs[a][s].scribe)
           run  == [runs[a][s] EXCEPT !.at = "pulled", !.left = Tail(runs[a][s].left), !.res = new]
<1>1. /\ runs[a][s] \in RunType /\ runs[a][s].left \in Seq(Revision)
      /\ runs[a][s].scribe \in BOOLEAN /\ current[a] \in Revision
      /\ runs \in [Agents -> [Slots -> RunType]]
  BY DEF GossipInv, TypeOK, RunType
<1>2. RunOk(runs[a][s], current[a], current) /\ runs[a][s].at = "pull"
  BY DEF ZomePulls, GossipInv, RunsInv
<1>3. runs[a][s].left # <<>> /\ \A i \in 1..Len(runs[a][s].left) : Had(runs[a][s].left[i], current)
  BY <1>2 DEF RunOk
<1>4. /\ hash \in Revision /\ hash = runs[a][s].left[1]
      /\ Tail(runs[a][s].left) \in Seq(Revision)
      /\ Len(Tail(runs[a][s].left)) = Len(runs[a][s].left) - 1
      /\ \A i \in 1..Len(Tail(runs[a][s].left)) : Tail(runs[a][s].left)[i] = runs[a][s].left[i + 1]
  BY <1>1, <1>3, HeadTailProperties
<1>5. Len(runs[a][s].left) \in Nat \ {0}
  BY <1>1, <1>3, LenProperties, EmptySeq
<1>6. PICK b \in Agents : hash \subseteq current[b]
  BY <1>3, <1>4, <1>5 DEF Had
<1>7. \A i \in 1..Len(Tail(runs[a][s].left)) : Had(Tail(runs[a][s].left)[i], current)
  BY <1>3, <1>4, <1>5
<1>8. /\ new \in Revision /\ current[a] \subseteq new
      /\ \A e \in Commits \X Nat : e \in new => e \in current[a] \cup hash
  <2> DEFINE mine == current[a]  scribe == runs[a][s].scribe
  <2>1. mine \in Revision /\ hash \in Revision /\ scribe \in BOOLEAN /\ NewMerges # {}
    BY <1>1, <1>4 DEF ZomePulls
  <2>2. new = Pull(mine, hash, scribe)
    OBVIOUS
  <2> HIDE DEF mine, hash, scribe, new
  <2>3. /\ new \in Revision /\ mine \subseteq new
        /\ \A e \in Commits \X Nat : e \in new => e \in mine \cup hash
    BY <2>1, <2>2, PullMakes
  <2> QED
    BY <2>3 DEF mine
<1>9. current' = [current EXCEPT ![a] = new]
  BY DEF ZomePulls
<1>10. runs' = [runs EXCEPT ![a][s] = run]
  BY <1>1 DEF ZomePulls
<1>11. /\ myRevision' = myRevision /\ peers' = peers /\ reported' = reported /\ commit' = commit
  BY DEF ZomePulls, adapterVars
<1>12. run \in RunType /\ run.at = "pulled" /\ run.res = new /\ run.left = Tail(runs[a][s].left)
  BY <1>1, <1>4, <1>8 DEF RunType, SyncPc
<1> HIDE DEF new, hash, run
<1>13. MayHave(a, new)
  BY <1>6, <1>8 DEF MayHave
<1>14. /\ current' \in [Agents -> Revision]
       /\ \A d \in Agents : current[d] \subseteq current'[d]
       /\ AuthorInv'
  <2>1. new \in Revision /\ current[a] \subseteq new
    BY <1>8
  <2> QED
    BY <1>9, <1>13, <2>1, RevisionGrows
<1>15. current'[a] = new
  BY <1>1, <1>9 DEF GossipInv, TypeOK
<1>16. RunOk(run, current'[a], current')
  <2>1. \A i \in 1..Len(run.left) : Had(run.left[i], current')
    BY <1>7, <1>12, <1>14 DEF Had
  <2> QED
    BY <1>12, <1>15, <2>1 DEF RunOk
<1>17. \A d \in Agents : \A t \in Slots : RunOk(runs[d][t], current'[d], current')
  <2>1. ASSUME NEW d \in Agents, NEW t \in Slots PROVE RunOk(runs[d][t], current'[d], current')
    <3>1. /\ runs[d][t] \in RunType /\ current \in [Agents -> Revision]
          /\ RunOk(runs[d][t], current[d], current)
      BY DEF GossipInv, TypeOK, RunType, RunsInv
    <3> QED
      BY <1>14, <3>1, RunOkGrown
  <2> QED
    BY <2>1
<1>18. RunsType' /\ RunsInv'
  <2> DEFINE Q == [runs EXCEPT ![a][s] = run]
  <2>1. /\ Q \in [Agents -> [Slots -> RunType]]
        /\ \A d \in Agents : \A t \in Slots : RunOk(Q[d][t], current'[d], current')
    BY <1>1, <1>12, <1>16, <1>17, RunSet
  <2>2. runs' = Q
    BY <1>10
  <2> HIDE DEF Q
  <2> QED
    BY <2>1, <2>2 DEF RunsType, RunsInv
<1>19. CommitsInv'
  BY <1>11, <1>14, CommitOkGrown, GossipAssumption DEF GossipInv, CommitsInv
<1>20. HeardInv'
  BY <1>11, <1>14 DEF GossipInv, HeardInv
<1>21. TypeOK'
  BY <1>11, <1>14, <1>18 DEF GossipInv, TypeOK, RunsType, RunType
<1> QED
  BY <1>14, <1>18, <1>19, <1>20, <1>21 DEF GossipInv

(***************************************************************************)
(* ZomeCommits: the author goes forward to an entry of its own.            *)
(***************************************************************************)
LEMMA ZomeCommitsStep ==
  ASSUME GossipInv, NEW c \in Commits, ZomeCommits(c)
  PROVE  GossipInv'
<1> DEFINE a     == Author[c]
           entry == <<c, commit[c].attempt>>
           new   == current[a] \cup {entry}
<1>1. a \in Agents /\ commit[c].attempt \in Nat /\ current[a] \in Revision
  BY GossipAssumption DEF GossipInv, TypeOK
<1>2. current' = [current EXCEPT ![a] = new]
  BY DEF ZomeCommits
<1>3. commit' = [commit EXCEPT ![c].at = "made", ![c].res = current'[a]]
  BY DEF ZomeCommits
<1>4. /\ myRevision' = myRevision /\ peers' = peers /\ reported' = reported /\ runs' = runs
  BY DEF ZomeCommits, adapterVars
<1>5. new \in Revision /\ current[a] \subseteq new /\ entry \in new
  BY <1>1 DEF Revision, Entries
<1>6. MayHave(a, new)
  BY <1>1 DEF MayHave
<1> HIDE DEF a, new
<1>7. /\ current' \in [Agents -> Revision]
      /\ \A d \in Agents : current[d] \subseteq current'[d]
      /\ AuthorInv'
  BY <1>1, <1>2, <1>5, <1>6, RevisionGrows
<1>8. current'[a] = new
  BY <1>1, <1>2 DEF GossipInv, TypeOK
<1>9. \A d \in Agents : \A t \in Slots : RunOk(runs[d][t], current'[d], current')
  <2>1. ASSUME NEW d \in Agents, NEW t \in Slots PROVE RunOk(runs[d][t], current'[d], current')
    <3>1. /\ runs[d][t] \in RunType /\ current \in [Agents -> Revision]
          /\ RunOk(runs[d][t], current[d], current)
      BY DEF GossipInv, TypeOK, RunType, RunsInv
    <3> QED
      BY <1>7, <3>1, RunOkGrown
  <2> QED
    BY <2>1
<1>10. RunsInv'
  BY <1>4, <1>9 DEF RunsInv
<1>11. /\ commit' \in [Commits -> [at : CommitPc, attempt : Nat, res : Revision]]
       /\ commit'[c].at = "made" /\ commit'[c].attempt = commit[c].attempt /\ commit'[c].res = new
       /\ \A d \in Commits : d # c => commit'[d] = commit[d]
  BY <1>3, <1>5, <1>8 DEF GossipInv, TypeOK, CommitPc
<1>12. CommitsInv'
  <2>1. ASSUME NEW d \in Commits PROVE CommitOk(d, commit'[d], current'[Author[d]])
    <3>1. CASE d = c
      BY <1>5, <1>8, <1>11, <3>1 DEF CommitOk, a
    <3>2. CASE d # c
      <4>1. CommitOk(d, commit[d], current[Author[d]]) /\ Author[d] \in Agents
        BY GossipAssumption DEF GossipInv, CommitsInv
      <4> QED
        BY <1>7, <1>11, <3>2, <4>1, CommitOkGrown
    <3> QED
      BY <3>1, <3>2
  <2> QED
    BY <2>1 DEF CommitsInv
<1>13. HeardInv'
  BY <1>4, <1>7 DEF GossipInv, HeardInv
<1>14. TypeOK'
  <2>1. \A d \in Commits : commit'[d].attempt \in 1 .. MaxAttempts[d]
    BY <1>11 DEF GossipInv, TypeOK
  <2> QED
    BY <1>4, <1>7, <1>11, <2>1 DEF GossipInv, TypeOK
<1> QED
  BY <1>7, <1>10, <1>12, <1>13, <1>14 DEF GossipInv

(***************************************************************************)
(* A commit goes on, is made or failed, and no revision changes.           *)
(***************************************************************************)
LEMMA CommitGoesOn ==
  ASSUME GossipInv, NEW c \in Commits,
         NEW call \in [at : CommitPc, attempt : Nat, res : Revision],
         call.attempt \in 1 .. MaxAttempts[c], CommitOk(c, call, current[Author[c]]),
         commit' = [commit EXCEPT ![c] = call], current' = current, runs' = runs,
         peers' = peers, reported' = reported,
         myRevision' \in [Agents -> Revision],
         \A a \in Agents : myRevision'[a] \subseteq current[a]
  PROVE  GossipInv'
<1>1. /\ commit' \in [Commits -> [at : CommitPc, attempt : Nat, res : Revision]]
      /\ commit'[c] = call /\ \A d \in Commits : d # c => commit'[d] = commit[d]
  BY DEF GossipInv, TypeOK
<1>2. CommitsInv'
  BY <1>1 DEF GossipInv, CommitsInv
<1>3. TypeOK'
  <2>1. \A d \in Commits : commit'[d].attempt \in 1 .. MaxAttempts[d]
    BY <1>1 DEF GossipInv, TypeOK
  <2> QED
    BY <1>1, <2>1 DEF GossipInv, TypeOK
<1> QED
  BY <1>2, <1>3 DEF GossipInv, RunsInv, HeardInv, AuthorInv

(***************************************************************************)
(* Commit, CommitAnswered and CommitFails.                                 *)
(***************************************************************************)
LEMMA CommitSteps ==
  ASSUME GossipInv, NEW c \in Commits, Commit(c) \/ CommitAnswered(c) \/ CommitFails(c)
  PROVE  GossipInv'
<1>1. /\ commit[c] \in [at : CommitPc, attempt : Nat, res : Revision]
      /\ commit[c].attempt \in 1 .. MaxAttempts[c] /\ MaxAttempts[c] \in Nat \ {0}
      /\ CommitOk(c, commit[c], current[Author[c]]) /\ Author[c] \in Agents
      /\ myRevision \in [Agents -> Revision]
      /\ \A a \in Agents : myRevision[a] \subseteq current[a]
  BY GossipAssumption DEF GossipInv, TypeOK, CommitsInv, HeardInv
<1>2. {} \in Revision
  BY DEF Revision
<1>3. CASE Commit(c)
  <2> DEFINE call == [commit[c] EXCEPT !.at = "asked"]
  <2>1. /\ call \in [at : CommitPc, attempt : Nat, res : Revision]
        /\ call.at = "asked" /\ call.attempt = commit[c].attempt
    BY <1>1 DEF CommitPc
  <2>2. commit' = [commit EXCEPT ![c] = call]
    BY <1>3 DEF Commit, GossipInv, TypeOK
  <2>3. UNCHANGED <<current, myRevision, peers, reported, runs>>
    BY <1>3 DEF Commit, adapterVars
  <2> HIDE DEF call
  <2>4. CommitOk(c, call, current[Author[c]])
    BY <2>1 DEF CommitOk
  <2> QED
    BY <1>1, <2>1, <2>2, <2>3, <2>4, CommitGoesOn
<1>4. CASE CommitAnswered(c)
  <2> DEFINE call == NoCall("resolved")
  <2>1. /\ call \in [at : CommitPc, attempt : Nat, res : Revision]
        /\ call.at = "resolved" /\ call.attempt \in 1 .. MaxAttempts[c]
    BY <1>1, <1>2 DEF NoCall, CommitPc
  <2>2. /\ commit' = [commit EXCEPT ![c] = call]
        /\ myRevision' = [myRevision EXCEPT ![Author[c]] = commit[c].res]
        /\ current' = current /\ peers' = peers /\ reported' = reported /\ runs' = runs
    BY <1>4 DEF CommitAnswered
  <2> HIDE DEF call
  <2>3. /\ commit[c].res \subseteq current[Author[c]]
        /\ <<c, commit[c].attempt>> \in current[Author[c]]
    BY <1>1, <1>4 DEF CommitAnswered, CommitOk
  <2>4. CommitOk(c, call, current[Author[c]])
    BY <1>1, <2>1, <2>3 DEF CommitOk, MadeIn
  <2>5. /\ myRevision' \in [Agents -> Revision]
        /\ \A a \in Agents : myRevision'[a] \subseteq current[a]
    BY <1>1, <2>2, <2>3
  <2> QED
    BY <2>1, <2>2, <2>4, <2>5, CommitGoesOn
<1>5. CASE CommitFails(c)
  <2> DEFINE next == [at |-> "asked", attempt |-> commit[c].attempt + 1, res |-> {}]
             call == IF commit[c].attempt < MaxAttempts[c] THEN next ELSE NoCall("rejected")
  <2>1. /\ call \in [at : CommitPc, attempt : Nat, res : Revision]
        /\ call.at \in {"asked", "rejected"} /\ call.attempt \in 1 .. MaxAttempts[c]
    BY <1>1, <1>2 DEF NoCall, CommitPc
  <2>2. /\ commit' = [commit EXCEPT ![c] = call]
        /\ UNCHANGED <<current, myRevision, peers, reported, runs>>
    BY <1>1, <1>5 DEF CommitFails, adapterVars, GossipInv, TypeOK
  <2> HIDE DEF call
  <2>3. CommitOk(c, call, current[Author[c]])
    BY <2>1 DEF CommitOk
  <2> QED
    BY <1>1, <2>1, <2>2, <2>3, CommitGoesOn
<1> QED
  BY <1>3, <1>4, <1>5

-----------------------------------------------------------------------------
(* The theorems.                                                           *)

(***************************************************************************)
(* The invariant holds at first: nothing was committed or heard of.        *)
(***************************************************************************)
LEMMA GossipInvInit == Init => GossipInv
<1> SUFFICES ASSUME Init PROVE GossipInv
  OBVIOUS
<1>1. Idle \in RunType /\ Len(Idle.left) = 0 /\ Idle.at = "idle"
  BY EmptySeq DEF Idle, RunType, SyncPc, Revision
<1>2. \A c \in Commits : /\ NoCall("new") \in [at : CommitPc, attempt : Nat, res : Revision]
                         /\ NoCall("new").attempt \in 1 .. MaxAttempts[c]
                         /\ NoCall("new").at = "new"
  BY GossipAssumption DEF NoCall, CommitPc, Revision
<1>3. \A a \in Agents, s \in Slots : runs[a][s] = Idle
  BY DEF Init
<1>4. TypeOK
  BY <1>1, <1>2 DEF Init, TypeOK, RunType, Revision
<1>5. RunsInv
  BY <1>1, <1>3 DEF RunsInv, RunOk
<1>6. CommitsInv
  BY <1>2 DEF Init, CommitsInv, CommitOk
<1>7. HeardInv /\ AuthorInv
  BY DEF Init, HeardInv, AuthorInv
<1> QED
  BY <1>4, <1>5, <1>6, <1>7 DEF GossipInv

(***************************************************************************)
(* Every step keeps the invariant.                                         *)
(***************************************************************************)
LEMMA GossipInvStep == GossipInv /\ [Next]_vars => GossipInv'
<1> SUFFICES ASSUME GossipInv, [Next]_vars PROVE GossipInv'
  OBVIOUS
<1>1. ASSUME NEW a \in Agents, NEW s \in Slots, Run(a, s) PROVE GossipInv'
  BY <1>1, ZomePullsStep, PullAnsweredStep, PullFailsStep, SyncAnsweredStep, SyncFailsStep DEF Run
<1>2. ASSUME NEW a \in Agents, NEW s \in Slots, NEW hears \in SUBSET (Agents \ {a}),
             Sync(a, s, hears)
      PROVE  GossipInv'
  BY <1>2, SyncStep
<1>3. ASSUME NEW c \in Commits,
             Commit(c) \/ ZomeCommits(c) \/ CommitAnswered(c) \/ CommitFails(c)
      PROVE  GossipInv'
  BY <1>3, CommitSteps, ZomeCommitsStep
<1>4. CASE UNCHANGED vars
  BY <1>4 DEF vars, adapterVars, GossipInv, TypeOK, RunsInv, CommitsInv, HeardInv, AuthorInv
<1> QED
  BY <1>1, <1>2, <1>3, <1>4 DEF Next

(***************************************************************************)
(* GossipInv is an invariant of the adapter and the zome.                  *)
(***************************************************************************)
THEOREM GossipInvCorrect == Spec => []GossipInv
BY GossipInvInit, GossipInvStep, PTL DEF Spec

(***************************************************************************)
(* The entries of a commit that resolved are never lost.                   *)
(***************************************************************************)
THEOREM CommitsKeptCorrect == Spec => []CommitsKept
<1>1. GossipInv => CommitsKept
  BY DEF GossipInv, CommitsInv, CommitOk, CommitsKept
<1> QED
  BY <1>1, GossipInvCorrect, PTL

(***************************************************************************)
(* No adapter is ahead of the zome it stands for, and no agent is ahead of *)
(* the author of a commit.                                                 *)
(***************************************************************************)
THEOREM RevisionsLagCorrect == Spec => []RevisionsLag
<1>1. GossipInv => RevisionsLag
  BY DEF GossipInv, HeardInv, AuthorInv, RevisionsLag
<1> QED
  BY <1>1, GossipInvCorrect, PTL
=============================================================================
