----------------------------- MODULE PDiffSync -----------------------------
(***************************************************************************)
(* The link adapter over the perspective-diff-sync zome: syncing, the      *)
(* gossip round, commits with their retries, and the signals that come     *)
(* from the zome, for several agents of one neighbourhood.                 *)
(*                                                                         *)
(* The zome is external.  It is modelled from how the adapter uses it: a   *)
(* revision is the set of entries it stands for, sync() answers with the   *)
(* current one and broadcasts it, commit() adds an entry, and pull() moves *)
(* forward to a revision that contains the current one, or merges two that *)
(* have parted if the caller is the scribe.  What a pull brings in goes to *)
(* the caller as a signal, before the answer.                              *)
(***************************************************************************)
EXTENDS Naturals, FiniteSets, Sequences, SequencesExt

CONSTANTS
  Agents,       \* numbers, in the lexical order of their DIDs
  Commits,      \* calls of commit()
  Author,       \* the agent that makes each
  Merges,       \* bound: the merge entries there may be
  Slots,        \* bound: the calls of sync() an agent has under way
  MaxAttempts   \* of each commit; the code's number is 5

ASSUME GossipAssumption ==
  /\ Agents \subseteq Nat /\ IsFiniteSet(Agents)
  /\ Author \in [Commits -> Agents]
  /\ MaxAttempts \in [Commits -> Nat \ {0}]
  /\ Merges \cap (Commits \X Nat) = {}

VARIABLES
  current,         \* the zome: the revision of each agent
  myRevision,      \* the adapter: myCurrentRevision, {} for null
  peers,           \* the revision each peer was heard to have, {} if not heard
  reported,        \* what the sync state callback was last told
  runs,            \* the calls of sync()
  commit           \* the calls of commit()

adapterVars == <<myRevision, peers, reported>>
vars == <<current, adapterVars, runs, commit>>

Entries  == (Commits \X Nat) \cup Merges
Revision == SUBSET Entries

Idle == [at |-> "idle", scribe |-> FALSE, left |-> <<>>, res |-> {}]

NoCall(at) == [at |-> at, attempt |-> 1, res |-> {}]

SyncPc   == {"idle", "sync", "pull", "pulled"}
CommitPc == {"new", "asked", "made", "resolved", "rejected"}

TypeOK ==
  /\ current \in [Agents -> Revision]
  /\ myRevision \in [Agents -> Revision]
  /\ peers \in [Agents -> [Agents -> Revision]]
  /\ reported \in [Agents -> {"nothing", "Synced", "LinkLanguageInstalledButNotSynced"}]
  /\ runs \in [Agents -> [Slots -> [at : SyncPc, scribe : BOOLEAN, left : Seq(Revision),
                                    res : Revision]]]
  /\ commit \in [Commits -> [at : CommitPc, attempt : Nat, res : Revision]]
  /\ \A c \in Commits : commit[c].attempt \in 1 .. MaxAttempts[c]

Init ==
  /\ current = [a \in Agents |-> {}]
  /\ myRevision = [a \in Agents |-> {}]
  /\ peers = [a \in Agents |-> [b \in Agents |-> {}]]
  /\ reported = [a \in Agents |-> "nothing"]
  /\ runs = [a \in Agents |-> [s \in Slots |-> Idle]]
  /\ commit = [c \in Commits |-> NoCall("new")]

-----------------------------------------------------------------------------
(* A HashBroadcast of agent a arrives at the agents of `hears'. *)
HandleBroadcast(a, hears) ==
  peers' = [b \in Agents |-> IF b \in hears THEN [peers[b] EXCEPT ![a] = current[a]]
                             ELSE peers[b]]

(***************************************************************************)
(* The engine calls sync(), in start() and when its interval fires.  The   *)
(* zome answers with its revision and broadcasts it; other agents hear of  *)
(* it or do not.                                                           *)
(***************************************************************************)
Sync(a, s, hears) ==
  /\ runs[a][s] = Idle
  /\ runs' = [runs EXCEPT ![a][s].at = "sync", ![a][s].res = current[a]]
  /\ HandleBroadcast(a, hears)
  /\ UNCHANGED <<current, myRevision, reported, commit>>

(***************************************************************************)
(* A gossip round, up to its first pull or from one pull to the next: a    *)
(* revision equal to the adapter's own is passed over.                     *)
(***************************************************************************)
NextPull(a, s, mine, left, scribe) ==
  LET i == SelectInSeq(left, LAMBDA hash : hash # mine)
  IN runs' = [runs EXCEPT ![a][s] =
       IF i = 0 THEN Idle
       ELSE [at |-> "pull", scribe |-> scribe, left |-> SubSeq(left, i, Len(left)), res |-> {}]]

(* The peers that were heard of. *)
Known(heard) == {b \in Agents : heard[b] # {}}

(* Mutant: the scribe is looked for among the peers only. *)
IsScribe_OfPeers(a, known) == a \in known /\ \A b \in known : a <= b

(* The scribe is the agent that comes first. *)
IsScribe(a, known) == \A b \in known : a < b

(***************************************************************************)
(* What a round reports: are more agents at the revision `mine', this one  *)
(* counted, than are not?                                                  *)
(***************************************************************************)
SyncState(revisions, mine) ==
  LET same == {i \in DOMAIN revisions : mine # {} /\ revisions[i] = mine}
      own  == IF mine = {} THEN 0 ELSE 1
  IN IF Cardinality(same) + own <= Cardinality(DOMAIN revisions \ same)
     THEN "LinkLanguageInstalledButNotSynced" ELSE "Synced"

(***************************************************************************)
(* The synchronous beginning of runGossip, when the revision is `mine' and *)
(* the peers heard of in the last ten seconds are those `kept' has.  Each  *)
(* peer counts, two that have the same revision twice.                     *)
(***************************************************************************)
Gossip(a, s, mine, kept) ==
  LET known == Known(kept)
  IN /\ peers' = [peers EXCEPT ![a] = kept]
     /\ \E order \in SetToSeqs(known) :
          LET revisions == [i \in DOMAIN order |-> kept[order[i]]]
          IN /\ reported' = IF known = {} THEN reported
                            ELSE [reported EXCEPT ![a] = SyncState(revisions, mine)]
             /\ NextPull(a, s, mine, revisions, IsScribe(a, known))

(* What is left of the peers when those of `gone' were not heard of. *)
Pruned(a, gone) == [b \in Agents |-> IF b \in gone THEN {} ELSE peers[a][b]]

(* sync() has its answer: the revision, if there is one, and the gossip. *)
SyncAnswered(a, s, gone) ==
  /\ runs[a][s].at = "sync"
  /\ LET mine == IF runs[a][s].res # {} THEN runs[a][s].res ELSE myRevision[a]
     IN /\ myRevision' = [myRevision EXCEPT ![a] = mine]
        /\ Gossip(a, s, mine, Pruned(a, gone))
  /\ UNCHANGED <<current, commit>>

(* The call of the zome fails, or its answer is lost: the round is held. *)
SyncFails(a, s, gone) ==
  /\ runs[a][s].at = "sync"
  /\ Gossip(a, s, myRevision[a], Pruned(a, gone))
  /\ UNCHANGED <<current, myRevision, commit>>

-----------------------------------------------------------------------------
(* The merge entries no revision has. *)
NewMerges == {m \in Merges : \A b \in Agents : m \notin current[b]}

(***************************************************************************)
(* External: what pull() makes of the current revision, when it is given   *)
(* that of a peer.                                                         *)
(***************************************************************************)
Pull(mine, hash, scribe) ==
  IF mine \subseteq hash THEN hash
  ELSE IF hash \subseteq mine \/ ~scribe THEN mine
  ELSE mine \cup hash \cup {CHOOSE m \in NewMerges : TRUE}

(* External: the zome pulls, and signals what was new to the agent. *)
ZomePulls(a, s) ==
  /\ runs[a][s].at = "pull"
  /\ NewMerges # {}   \* a bound
  /\ LET new == Pull(current[a], Head(runs[a][s].left), runs[a][s].scribe)
     IN /\ current' = [current EXCEPT ![a] = new]
        /\ runs' = [runs EXCEPT ![a][s].at = "pulled", ![a][s].left = Tail(@), ![a][s].res = new]
  /\ UNCHANGED <<adapterVars, commit>>

(***************************************************************************)
(* The adapter takes the revision the answer has, or keeps its own when    *)
(* the answer has none: `mine' is the one that it goes on with.            *)
(***************************************************************************)
PullAnswered(a, s, mine) ==
  /\ runs[a][s].at = "pulled"
  /\ myRevision' = [myRevision EXCEPT ![a] = mine]
  /\ NextPull(a, s, mine, runs[a][s].left, runs[a][s].scribe)
  /\ UNCHANGED <<current, peers, reported, commit>>

(* A pull fails: the round ends. *)
PullFails(a, s) ==
  /\ runs[a][s].at \in {"pull", "pulled"}
  /\ runs' = [runs EXCEPT ![a][s] = Idle]
  /\ UNCHANGED <<current, adapterVars, commit>>

-----------------------------------------------------------------------------
Commit(c) ==
  /\ commit[c].at = "new"
  /\ commit' = [commit EXCEPT ![c].at = "asked"]
  /\ UNCHANGED <<current, adapterVars, runs>>

(* External: the zome adds an entry for the diff it is given. *)
ZomeCommits(c) ==
  /\ commit[c].at = "asked"
  /\ LET a == Author[c]  entry == <<c, commit[c].attempt>>
     IN /\ current' = [current EXCEPT ![a] = @ \cup {entry}]
        /\ commit' = [commit EXCEPT ![c].at = "made", ![c].res = current'[a]]
  /\ UNCHANGED <<adapterVars, runs>>

CommitAnswered(c) ==
  /\ commit[c].at = "made"
  /\ commit' = [commit EXCEPT ![c] = NoCall("resolved")]
  /\ myRevision' = [myRevision EXCEPT ![Author[c]] = commit[c].res]
  /\ UNCHANGED <<current, peers, reported, runs>>

(***************************************************************************)
(* An attempt fails, before or after the zome made the commit, or its      *)
(* answer is no revision: after a while the next begins, and the last one  *)
(* rejects.                                                                *)
(***************************************************************************)
CommitFails(c) ==
  /\ commit[c].at \in {"asked", "made"}
  /\ commit' = IF commit[c].attempt < MaxAttempts[c]
               THEN [commit EXCEPT ![c] = [at |-> "asked", attempt |-> @.attempt + 1, res |-> {}]]
               ELSE [commit EXCEPT ![c] = NoCall("rejected")]
  /\ UNCHANGED <<current, adapterVars, runs>>

-----------------------------------------------------------------------------
Run(a, s) ==
  \/ ZomePulls(a, s) \/ PullFails(a, s)
  \/ \E mine \in {runs[a][s].res, myRevision[a]} : PullAnswered(a, s, mine)
  \/ \E gone \in SUBSET Known(peers[a]) : SyncAnswered(a, s, gone) \/ SyncFails(a, s, gone)

Next ==
  \/ \E a \in Agents, s \in Slots :
       Run(a, s) \/ \E hears \in SUBSET (Agents \ {a}) : Sync(a, s, hears)
  \/ \E c \in Commits :
       Commit(c) \/ ZomeCommits(c) \/ CommitAnswered(c) \/ CommitFails(c)

Spec == Init /\ [][Next]_vars

(***************************************************************************)
(* The interval of a running engine fires, and a call of the zome ends.    *)
(***************************************************************************)
Fairness ==
  /\ \A a \in Agents :
       WF_vars(\E s \in Slots, hears \in SUBSET (Agents \ {a}) : Sync(a, s, hears))
  /\ \A a \in Agents, s \in Slots : WF_vars(Run(a, s))

FairSpec == Spec /\ Fairness

-----------------------------------------------------------------------------
(***************************************************************************)
(* A call goes well: all agents hear of it, it is answered with what it    *)
(* made, and no peer was silent for too long.                              *)
(***************************************************************************)
GoesWell(a, s) ==
  \/ Sync(a, s, Agents \ {a}) \/ SyncAnswered(a, s, {})
  \/ ZomePulls(a, s) \/ PullAnswered(a, s, runs[a][s].res)

GossipWorks ==
  <>[][\A a \in Agents, s \in Slots : runs'[a][s] # runs[a][s] => GoesWell(a, s)]_vars

Agreed ==
  \A a, b \in Agents :
    /\ current[a] = current[b] /\ myRevision[a] = current[a]
    /\ a # b /\ current[a] # {} => reported[a] = "Synced"

(***************************************************************************)
(* If from some time on engines run and gossip works, the revisions of all *)
(* agents become one and stay so, every adapter knows it, and reports that *)
(* it is synced: one scribe merges what has parted, and answers that came  *)
(* late are made good.                                                     *)
(***************************************************************************)
RevisionsMeet == GossipWorks => <>[]Agreed
=============================================================================
