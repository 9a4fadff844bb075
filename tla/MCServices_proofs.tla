--------------------------- MODULE MCServices_proofs ---------------------------
(***************************************************************************)
(* Proofs about the services: the connection state of the Holo Web         *)
(* Conductor, the agent and its tokens, the Oxigraph link store, which     *)
(* implements the one in memory, the iterators of subscriptions, and       *)
(* queries with includes over any classes.                                 *)
(***************************************************************************)
EXTENDS MCServices, SequenceTheorems, FiniteSetTheorems, WellFoundedInduction, TLAPS

(***************************************************************************)
(* What makes NoStrayHandler inductive: without a connect() that found     *)
(* another one's handler, an extension that has a handler has it of the    *)
(* call that disconnect() takes back.                                      *)
(***************************************************************************)
HoloInv == ~doubled => handlers \subseteq {unsub} \ {None}

(***************************************************************************)
(* No step of the conductor leaves a handler behind.                       *)
(***************************************************************************)
LEMMA HoloStep == HoloInv /\ Holo!Next => HoloInv'
<1> SUFFICES ASSUME HoloInv, Holo!Next
             PROVE  HoloInv'
  OBVIOUS
<1> USE DEF HoloInv
<1>1. ASSUME NEW c \in Connections, Holo!Connected(c)
      PROVE  HoloInv'
  BY <1>1, ServicesAssumption DEF ServicesAssumption, Holo!Connected
<1>2. ASSUME NEW c \in Connections, Holo!Disconnected(c)
      PROVE  HoloInv'
  BY <1>2 DEF Holo!Disconnected
<1>3. ASSUME UNCHANGED <<doubled, handlers, unsub>>
      PROVE  HoloInv'
  BY <1>3
<1>4. ASSUME NEW c \in Connections, Holo!Connect(c) \/ Holo!ConnectFails(c) \/ Holo!Disconnect(c)
      PROVE  HoloInv'
  BY <1>3, <1>4 DEF Holo!Connect, Holo!ConnectFails, Holo!Disconnect
<1>5. ASSUME NEW l \in Listeners, Holo!OnSignal(l) \/ Holo!OffSignal(l)
      PROVE  HoloInv'
  BY <1>3, <1>5 DEF Holo!OnSignal, Holo!OffSignal
<1>6. CASE Holo!Injected \/ Holo!StatusChange \/ Holo!Signal
  BY <1>3, <1>6 DEF Holo!Injected, Holo!StatusChange, Holo!Signal
<1> QED
  BY <1>1, <1>2, <1>4, <1>5, <1>6 DEF Holo!Next

(***************************************************************************)
(* NoStrayHandler of HWCConductor: the extension has no status handler     *)
(* that disconnect() cannot take back.                                     *)
(***************************************************************************)
THEOREM NoStrayHandlerCorrect == SSpec => []NoStrayHandler
<1>1. SInit => HoloInv
  BY DEF SInit, Holo!Init, HoloInv
<1>2. HoloInv /\ [SNext]_svars => HoloInv'
  <2> SUFFICES ASSUME HoloInv, [SNext]_svars
               PROVE  HoloInv'
    OBVIOUS
  <2>1. ASSUME UNCHANGED hwcVars
        PROVE  HoloInv'
    BY <2>1 DEF HoloInv, hwcVars
  <2>2. CASE SNext
    BY <2>1, <2>2, HoloStep DEF SNext, Others
  <2>3. CASE UNCHANGED svars
    BY <2>1, <2>3 DEF svars
  <2> QED
    BY <2>2, <2>3
<1>3. HoloInv => NoStrayHandler
  BY DEF HoloInv, NoStrayHandler, Holo!NoStrayHandler
<1> QED
  BY <1>1, <1>2, <1>3, PTL DEF SSpec

-----------------------------------------------------------------------------
(***************************************************************************)
(* What one call of the agent service may be, and what every call is.      *)
(***************************************************************************)
CallRecord ==
  [op : {"none", "generate", "unlock", "jwt"},
   arg : {None} \cup Passphrases \cup Requests,
   at : {"none", "waits", "done"}]

CallsTypeOK == agentCalls \in [Calls -> CallRecord]

(* What Verifies(Signature) demands of an agent that is unlocked. *)
Consistent ==
  /\ did # None => wallet.pair = did
  /\ agentState = "Unlocked" => did # None /\ key = did

(***************************************************************************)
(* What makes StatusIsTrue inductive: as long as no calls overlapped and   *)
(* no save failed, there is one call under way; a generate() has set the   *)
(* key pair that it is going to save, and until then, or without one, the  *)
(* agent and the wallet agree.                                             *)
(***************************************************************************)
StatusInv ==
  /\ key # None => key = did
  /\ ~agentMishap =>
       /\ \A c, d \in AgentService!AgentCalls : c = d
       /\ \A c \in Calls : AgentService!Waits(c, "generate") => did = c /\ key = c
       /\ (\A c \in Calls : ~AgentService!Waits(c, "generate")) => Consistent

(***************************************************************************)
(* What makes RevokedForGood inductive: a request that is not hurried has  *)
(* one call for its token at most, and that one finds it pending.          *)
(***************************************************************************)
TokenInv ==
  /\ granted \cap revoked \subseteq hurried
  /\ pending \cap granted = {}
  /\ pending \cap revoked = {}
  /\ \A r \in Requests \ hurried : \A c, d \in AgentService!Generating(r) : c = d
  /\ \A c \in Calls : AgentService!Waits(c, "jwt") =>
       agentCalls[c].arg \in hurried \/ (agentCalls[c].arg \in Requests /\ agentCalls[c].arg \in pending)

AgentInv == CallsTypeOK /\ StatusInv /\ TokenInv

(***************************************************************************)
(* Calls of the agent service stay what they may be.                       *)
(***************************************************************************)
LEMMA CallsType == CallsTypeOK /\ AgentService!Next => CallsTypeOK'
<1> SUFFICES ASSUME CallsTypeOK, AgentService!Next
             PROVE  CallsTypeOK'
  OBVIOUS
<1> USE DEF CallsTypeOK, CallRecord
<1>1. ASSUME NEW c \in Calls, NEW op \in {"generate", "unlock", "jwt"}, NEW arg \in Passphrases \cup Requests,
             AgentService!Calling(c, op, arg)
      PROVE  CallsTypeOK'
  BY <1>1 DEF AgentService!Calling
<1>2. ASSUME NEW c \in Calls, AgentService!Ends(c)
      PROVE  CallsTypeOK'
  BY <1>2 DEF AgentService!Ends
<1>3. CASE AgentService!Reload
  BY <1>3 DEF AgentService!Reload
<1>4. CASE UNCHANGED agentCalls
  BY <1>4
<1>5. ASSUME NEW c \in Calls, NEW p \in Passphrases, AgentService!Generate(c, p) \/ AgentService!Unlock(c, p)
      PROVE  CallsTypeOK'
  BY <1>1, <1>5 DEF AgentService!Generate, AgentService!Unlock
<1>6. ASSUME NEW c \in Calls, NEW r \in Requests, AgentService!GenerateJwt(c, r)
      PROVE  CallsTypeOK'
  BY <1>1, <1>6 DEF AgentService!GenerateJwt
<1>7. ASSUME NEW c \in Calls,
             \/ AgentService!Generated(c) \/ AgentService!SaveFails(c) \/ AgentService!Unlocked(c)
             \/ AgentService!UnlockFails(c) \/ AgentService!JwtSigned(c)
      PROVE  CallsTypeOK'
  BY <1>2, <1>7 DEF AgentService!Generated, AgentService!SaveFails, AgentService!Unlocked,
                    AgentService!UnlockFails, AgentService!JwtSigned
<1>8. ASSUME NEW r \in Requests, AgentService!RequestCapability(r) \/ AgentService!RevokeToken(r)
      PROVE  CallsTypeOK'
  BY <1>4, <1>8 DEF AgentService!RequestCapability, AgentService!RevokeToken, AgentService!agentVars
<1>9. CASE AgentService!Lock
  BY <1>4, <1>9 DEF AgentService!Lock
<1> QED
  BY <1>3, <1>5, <1>6, <1>7, <1>8, <1>9 DEF AgentService!Next

(***************************************************************************)
(* Every step of the agent service preserves StatusInv.                    *)
(***************************************************************************)
LEMMA StatusStep == CallsTypeOK /\ StatusInv /\ AgentService!Next => StatusInv'
<1> SUFFICES ASSUME CallsTypeOK, StatusInv, AgentService!Next
             PROVE  StatusInv'
  OBVIOUS
<1>0. CallsTypeOK'
  BY CallsType
<1> USE ServicesAssumption DEF ServicesAssumption, StatusInv, CallsTypeOK, CallRecord, Consistent,
        AgentService!AgentCalls, AgentService!UnderWay, AgentService!Waits
<1>1. ASSUME NEW c \in Calls, NEW p \in Passphrases, AgentService!Generate(c, p)
      PROVE  StatusInv'
  <2>1. /\ did' = c /\ key' = c
        /\ agentCalls'[c].op = "generate" /\ agentCalls'[c].at = "waits"
        /\ \A d \in Calls : d # c => agentCalls'[d] = agentCalls[d]
    BY <1>1 DEF AgentService!Generate, AgentService!Calling
  <2>2. ~agentMishap' => \A d \in Calls : ~(agentCalls[d].at = "waits" /\ agentCalls[d].op # "jwt")
    BY <1>1 DEF AgentService!Generate
  <2>3. ~agentMishap' => \A d \in Calls : agentCalls'[d].at = "waits" /\ agentCalls'[d].op # "jwt" => d = c
    BY <2>1, <2>2
  <2>4. c # None /\ agentCalls'[c].at = "waits" /\ agentCalls'[c].op = "generate"
    BY <2>1
  <2>5. ASSUME ~agentMishap'
        PROVE  \A d, e \in AgentService!AgentCalls' : d = e
    BY <2>3, <2>5
  <2>6. ASSUME ~agentMishap'
        PROVE  \A d \in Calls : AgentService!Waits(d, "generate")' => did' = d /\ key' = d
    BY <2>1, <2>3, <2>6
  <2>7. ~(\A d \in Calls : ~AgentService!Waits(d, "generate")')
    BY <2>4
  <2> QED
    BY <2>1, <2>5, <2>6, <2>7
<1>2. ASSUME NEW c \in Calls, NEW p \in Passphrases, AgentService!Unlock(c, p)
      PROVE  StatusInv'
  <2>1. /\ agentCalls'[c].op = "unlock"
        /\ \A d \in Calls : d # c => agentCalls'[d] = agentCalls[d]
    BY <1>2 DEF AgentService!Unlock, AgentService!Calling
  <2>2. /\ UNCHANGED <<agentState, did, key, wallet>>
        /\ ~agentMishap' => ~agentMishap
        /\ ~agentMishap' => \A d \in Calls : ~(agentCalls[d].at = "waits" /\ agentCalls[d].op # "jwt")
    BY <1>2 DEF AgentService!Unlock
  <2>3. ~agentMishap' => \A d \in Calls : agentCalls'[d].at = "waits" /\ agentCalls'[d].op # "jwt" => d = c
    BY <2>1, <2>2
  <2>4. ~agentMishap' => \A d \in Calls : ~(agentCalls'[d].at = "waits" /\ agentCalls'[d].op = "generate")
    BY <2>1, <2>2
  <2> QED
    BY <2>1, <2>2, <2>3, <2>4
<1>3. ASSUME NEW c \in Calls, AgentService!Generated(c)
      PROVE  StatusInv'
  BY <1>0, <1>3 DEF AgentService!Generated, AgentService!Ends, AgentService!Saves
<1>4. ASSUME NEW c \in Calls, AgentService!SaveFails(c)
      PROVE  StatusInv'
  BY <1>0, <1>4 DEF AgentService!SaveFails, AgentService!Ends
<1>5. ASSUME NEW c \in Calls, AgentService!Unlocked(c)
      PROVE  StatusInv'
  BY <1>0, <1>5 DEF AgentService!Unlocked, AgentService!Ends, AgentService!Loads
<1>6. ASSUME NEW c \in Calls, AgentService!UnlockFails(c)
      PROVE  StatusInv'
  BY <1>0, <1>6 DEF AgentService!UnlockFails, AgentService!Ends
<1>7. ASSUME NEW c \in Calls, NEW r \in Requests, AgentService!GenerateJwt(c, r)
      PROVE  StatusInv'
  BY <1>0, <1>7 DEF AgentService!GenerateJwt, AgentService!Calling
<1>8. ASSUME NEW c \in Calls, AgentService!JwtSigned(c)
      PROVE  StatusInv'
  BY <1>0, <1>8 DEF AgentService!JwtSigned, AgentService!Ends
<1>9. ASSUME NEW r \in Requests, AgentService!RequestCapability(r) \/ AgentService!RevokeToken(r)
      PROVE  StatusInv'
  BY <1>9 DEF AgentService!RequestCapability, AgentService!RevokeToken, AgentService!agentVars
<1>10. CASE AgentService!Lock
  BY <1>10 DEF AgentService!Lock
<1>11. CASE AgentService!Reload
  BY <1>0, <1>11 DEF AgentService!Reload
<1> QED
  BY <1>1, <1>2, <1>3, <1>4, <1>5, <1>6, <1>7, <1>8, <1>9, <1>10, <1>11 DEF AgentService!Next

(***************************************************************************)
(* Every step of the capability service preserves TokenInv.                *)
(***************************************************************************)
LEMMA TokenStep == CallsTypeOK /\ TokenInv /\ AgentService!Next => TokenInv'
<1> SUFFICES ASSUME CallsTypeOK, TokenInv, AgentService!Next
             PROVE  TokenInv'
  OBVIOUS
<1>0. CallsTypeOK'
  BY CallsType
<1> USE DEF TokenInv, CallsTypeOK, CallRecord,
        AgentService!Generating, AgentService!UnderWay, AgentService!Waits
<1>1. ASSUME NEW c \in Calls, NEW p \in Passphrases, AgentService!Generate(c, p) \/ AgentService!Unlock(c, p)
      PROVE  TokenInv'
  BY <1>0, <1>1 DEF AgentService!Generate, AgentService!Unlock, AgentService!Calling, AgentService!capabilityVars
<1>2. ASSUME NEW c \in Calls,
             \/ AgentService!Generated(c) \/ AgentService!SaveFails(c)
             \/ AgentService!Unlocked(c) \/ AgentService!UnlockFails(c)
      PROVE  TokenInv'
  BY <1>0, <1>2 DEF AgentService!Generated, AgentService!SaveFails, AgentService!Unlocked,
                    AgentService!UnlockFails, AgentService!Ends, AgentService!capabilityVars
<1>3. ASSUME NEW c \in Calls, NEW r \in Requests, AgentService!GenerateJwt(c, r)
      PROVE  TokenInv'
  BY <1>0, <1>3 DEF AgentService!GenerateJwt, AgentService!Calling
<1>4. ASSUME NEW c \in Calls, AgentService!JwtSigned(c)
      PROVE  TokenInv'
  BY <1>0, <1>4 DEF AgentService!JwtSigned, AgentService!Ends
<1>5. ASSUME NEW r \in Requests, AgentService!RequestCapability(r)
      PROVE  TokenInv'
  BY <1>5 DEF AgentService!RequestCapability, AgentService!agentVars
<1>6. ASSUME NEW r \in Requests, AgentService!RevokeToken(r)
      PROVE  TokenInv'
  BY <1>6 DEF AgentService!RevokeToken, AgentService!agentVars
<1>7. CASE AgentService!Lock
  BY <1>7 DEF AgentService!Lock, AgentService!capabilityVars
<1>8. CASE AgentService!Reload
  BY <1>0, <1>8 DEF AgentService!Reload
<1> QED
  BY <1>1, <1>2, <1>3, <1>4, <1>5, <1>6, <1>7, <1>8 DEF AgentService!Next

(***************************************************************************)
(* AgentInv holds in every state.                                          *)
(***************************************************************************)
THEOREM AgentInvariant == SSpec => []AgentInv
<1>1. SInit => AgentInv
  BY DEF SInit, AgentInv, CallsTypeOK, CallRecord, StatusInv, TokenInv, Consistent, AgentService!Init,
         AgentService!Fresh, AgentService!NoCall, AgentService!NoWallet, AgentService!AgentCalls,
         AgentService!UnderWay, AgentService!Waits, AgentService!Generating
<1>2. AgentInv /\ [SNext]_svars => AgentInv'
  <2> SUFFICES ASSUME AgentInv, [SNext]_svars
               PROVE  AgentInv'
    OBVIOUS
  <2>1. ASSUME UNCHANGED agentVars
        PROVE  AgentInv'
    BY <2>1 DEF AgentInv, CallsTypeOK, StatusInv, TokenInv, Consistent, agentVars, AgentService!AgentCalls,
                AgentService!UnderWay, AgentService!Waits, AgentService!Generating
  <2>2. CASE SNext
    <3>1. CASE AgentService!Next
      BY <3>1, CallsType, StatusStep, TokenStep DEF AgentInv
    <3>2. CASE service # "agent"
      BY <2>1, <2>2, <3>2 DEF SNext, Others
    <3> QED
      BY <2>2, <3>1, <3>2 DEF SNext
  <2>3. CASE UNCHANGED svars
    BY <2>1, <2>3 DEF svars
  <2> QED
    BY <2>2, <2>3
<1> QED
  BY <1>1, <1>2, PTL DEF SSpec

(***************************************************************************)
(* StatusIsTrue of Agent: an agent that says it is unlocked has the key    *)
(* pair of its did, and the wallet holds it.                               *)
(***************************************************************************)
THEOREM StatusIsTrueCorrect == SSpec => []StatusIsTrue
<1>1. AgentInv => StatusIsTrue
  BY DEF AgentInv, CallsTypeOK, CallRecord, StatusInv, Consistent, StatusIsTrue, AgentService!StatusIsTrue,
         AgentService!AgentCalls, AgentService!UnderWay, AgentService!Waits,
         AgentService!Verifies, AgentService!Signature, AgentService!SignedExpression
<1> QED
  BY <1>1, AgentInvariant, PTL

(***************************************************************************)
(* RevokedForGood of Agent: a token that was revoked is not granted again. *)
(***************************************************************************)
THEOREM RevokedForGoodCorrect == SSpec => []RevokedForGood
<1>1. AgentInv => RevokedForGood
  BY DEF AgentInv, TokenInv, RevokedForGood, AgentService!RevokedForGood
<1> QED
  BY <1>1, AgentInvariant, PTL

-----------------------------------------------------------------------------
(* t is s without its element at i. *)
Lacks(t, s, i) ==
  /\ Len(t) = Len(s) - 1
  /\ \A k \in 1..(i - 1) : t[k] = s[k]
  /\ \A k \in i..(Len(s) - 1) : t[k] = s[k + 1]

(***************************************************************************)
(* RemoveAt gives the sequence without its element at i.                   *)
(***************************************************************************)
LEMMA Removed ==
  ASSUME NEW S, NEW s \in Seq(S), NEW i \in 1..Len(s),
         NEW t, t = SubSeq(s, 1, i - 1) \o SubSeq(s, i + 1, Len(s))
  PROVE  t \in Seq(S) /\ Lacks(t, s, i)
<1> DEFINE a == SubSeq(s, 1, i - 1)
           b == SubSeq(s, i + 1, Len(s))
<1>1. Len(s) \in Nat /\ \A k \in 1..Len(s) : s[k] \in S
  OBVIOUS
<1>2. a \in Seq(S) /\ Len(a) = i - 1 /\ \A k \in 1..(i - 1) : a[k] = s[k]
  BY <1>1
<1>3. b \in Seq(S) /\ Len(b) = Len(s) - i /\ \A k \in 1..(Len(s) - i) : b[k] = s[k + i]
  BY <1>1
<1> HIDE DEF a, b
<1>4. a \o b \in Seq(S) /\ Len(a \o b) = Len(s) - 1
  <2>1. a \in Seq(S) /\ b \in Seq(S)
    BY <1>2, <1>3
  <2>2. a \o b \in Seq(S) /\ Len(a \o b) = Len(a) + Len(b)
    BY <2>1
  <2> QED
    BY <1>1, <1>2, <1>3, <2>2
<1>5. ASSUME NEW k \in 1..(i - 1)
      PROVE  (a \o b)[k] = s[k]
  BY <1>1, <1>2, <1>3
<1>6. ASSUME NEW k \in i..(Len(s) - 1)
      PROVE  (a \o b)[k] = s[k + 1]
  <2>1. k - (i - 1) \in 1..(Len(s) - i) /\ (k - (i - 1)) + i = k + 1
    BY <1>1
  <2>2. (a \o b)[k] = b[k - (i - 1)]
    BY <1>1, <1>2, <1>3, <2>1
  <2> QED
    BY <1>3, <2>1, <2>2
<1> QED
  BY <1>4, <1>5, <1>6 DEF a, b, Lacks

(***************************************************************************)
(* The elements that remain are those at the other places.                 *)
(***************************************************************************)
LEMMA Remaining ==
  ASSUME NEW S, NEW s \in Seq(S), NEW i \in 1..Len(s),
         NEW t, Lacks(t, s, i)
  PROVE  /\ \A k \in 1..Len(t) : \E j \in 1..Len(s) : t[k] = s[j]
         /\ \A j \in 1..Len(s) : j # i => \E k \in 1..Len(t) : t[k] = s[j]
<1> USE DEF Lacks
<1>1. Len(s) \in Nat
  OBVIOUS
<1>2. ASSUME NEW k \in 1..Len(t)
      PROVE  \E j \in 1..Len(s) : t[k] = s[j]
  <2>1. CASE k < i
    <3>1. t[k] = s[k] /\ k \in 1..Len(s)
      BY <1>1, <2>1
    <3> QED
      BY <3>1
  <2>2. CASE ~(k < i)
    <3>1. k \in i..(Len(s) - 1) /\ k + 1 \in 1..Len(s)
      BY <1>1, <2>2
    <3>2. t[k] = s[k + 1]
      BY <3>1
    <3> QED
      BY <3>1, <3>2
  <2> QED
    BY <2>1, <2>2
<1>3. ASSUME NEW j \in 1..Len(s), j # i
      PROVE  \E k \in 1..Len(t) : t[k] = s[j]
  <2>1. CASE j < i
    <3>1. t[j] = s[j] /\ j \in 1..Len(t)
      BY <1>1, <2>1
    <3> QED
      BY <3>1
  <2>2. CASE ~(j < i)
    <3> DEFINE k == j - 1
    <3>1. k \in i..(Len(s) - 1) /\ k + 1 = j /\ k \in 1..Len(t)
      BY <1>1, <1>3, <2>2
    <3> HIDE DEF k
    <3>2. t[k] = s[k + 1]
      BY <3>1
    <3> QED
      BY <3>1, <3>2
  <2> QED
    BY <2>1, <2>2
<1> QED
  BY <1>2, <1>3

(***************************************************************************)
(* What a sidecar keeps of a link: an absent predicate has the key of an   *)
(* empty one, and a predicate that is no IRI never gets in.                *)
(***************************************************************************)
Entry == [node : Nodes, by : Stamps, predicate : {"empty", "default"}, original : {"absent", "default"}]
Sidecars == [Perspectives -> Seq(Entry)]
Graphs == [Perspectives -> SUBSET [node : Nodes, predicate : {"default"}]]

StoreTypeOK ==
  /\ sidecar \in Sidecars
  /\ quads \in Graphs
  /\ saved \in [sidecar : Sidecars, quads : Graphs]
  /\ orphaned \in Graphs

(* No two entries have the same key, and the key is that of the link. *)
Keyed(sc) ==
  \A p \in Perspectives :
    /\ \A i, j \in 1..Len(sc[p]) : Store!KeyOf(sc[p][i]) = Store!KeyOf(sc[p][j]) => i = j
    /\ \A i \in 1..Len(sc[p]) : sc[p][i].predicate = "empty" <=> sc[p][i].original = "absent"

(* Each quad is the triple of a link. *)
Backed(sc, graphs) ==
  \A p \in Perspectives : \A t \in graphs[p] :
    \E i \in 1..Len(sc[p]) : Store!Triple(sc[p][i]) = t

(* Each link has its quad, or lost it to the removal of another one. *)
Covered ==
  \A p \in Perspectives : \A i \in 1..Len(sidecar[p]) :
    Store!Triple(sidecar[p][i]) \in quads[p] \cup orphaned[p]

(***************************************************************************)
(* What makes QuadsOfLinks inductive, and what the refinement rests on:    *)
(* the store and what it saved are both well formed.                       *)
(***************************************************************************)
StoreInv ==
  /\ StoreTypeOK
  /\ Keyed(sidecar) /\ Keyed(saved.sidecar)
  /\ Backed(sidecar, quads) /\ Backed(saved.sidecar, saved.quads)
  /\ Covered

(***************************************************************************)
(* The entry that AddLink makes for a link.                                *)
(***************************************************************************)
LEMMA EntryOf ==
  ASSUME NEW m \in Store!Memory!Link, Store!Memory!Valid(m).predicate # "noIRI"
  PROVE  LET l == Store!Memory!Valid(m)
             e == [node |-> l.node, by |-> l.by, predicate |-> Store!Key(l).predicate, original |-> l.predicate]
         IN /\ l \in Store!Memory!Link
            /\ e \in Entry
            /\ e.predicate = "empty" <=> e.original = "absent"
            /\ Store!KeyOf(e) = Store!Key(l)
            /\ Store!Triple(e) = Store!Triple(l)
            /\ Store!Triple(e) \in [node : Nodes, predicate : {"default"}]
  BY DEF Entry, Store!Memory!Link, Store!Memory!Predicates, Store!Memory!Valid, Store!Key, Store!KeyOf,
         Store!Triple

(***************************************************************************)
(* The key of a link determines its triple, and the link too, except that  *)
(* an absent predicate and an empty one are the same.                      *)
(***************************************************************************)
LEMMA KeyDetermines ==
  ASSUME NEW e \in Entry, e.predicate = "empty" <=> e.original = "absent",
         NEW l \in Store!Memory!Link, Store!KeyOf(e) = Store!Key(l)
  PROVE  /\ Store!Triple(e) = Store!Triple(l)
         /\ l.predicate # "empty" => l = [node |-> e.node, predicate |-> e.original, by |-> e.by]
<1> USE DEF Entry, Store!Memory!Link, Store!Memory!Predicates, Store!Key, Store!KeyOf, Store!Triple
<1>1. e.node = l.node /\ e.by = l.by
  OBVIOUS
<1>2. e.predicate = IF l.predicate = "absent" THEN "empty" ELSE l.predicate
  OBVIOUS
<1>3. Store!Triple(e) = Store!Triple(l)
  BY <1>1, <1>2
<1>4. l.predicate # "empty" => l.predicate = e.original
  BY <1>2
<1>5. l = [node |-> l.node, predicate |-> l.predicate, by |-> l.by]
  OBVIOUS
<1> QED
  BY <1>1, <1>3, <1>4, <1>5

(***************************************************************************)
(* AddLink preserves StoreInv.                                             *)
(***************************************************************************)
LEMMA AddLinkStep ==
  ASSUME StoreInv, NEW p \in Perspectives, NEW m \in Store!Memory!Link, Store!AddLink(p, m)
  PROVE  StoreInv'
<1> DEFINE l == Store!Memory!Valid(m)
           e == [node |-> l.node, by |-> l.by, predicate |-> Store!Key(l).predicate, original |-> l.predicate]
<1>1. /\ e \in Entry
      /\ e.predicate = "empty" <=> e.original = "absent"
      /\ Store!KeyOf(e) = Store!Key(l)
      /\ Store!Triple(e) = Store!Triple(l)
      /\ Store!Triple(e) \in [node : Nodes, predicate : {"default"}]
  BY EntryOf DEF Store!AddLink
<1>2. /\ \A i \in 1..Len(sidecar[p]) : Store!KeyOf(sidecar[p][i]) # Store!KeyOf(e)
      /\ sidecar' = [sidecar EXCEPT ![p] = Append(sidecar[p], e)]
      /\ quads' = [quads EXCEPT ![p] = quads[p] \cup {Store!Triple(e)}]
      /\ UNCHANGED <<saved, orphaned>>
  <2>1. DOMAIN sidecar[p] = 1..Len(sidecar[p])
    BY DEF StoreInv, StoreTypeOK, Sidecars
  <2> QED
    BY <1>1, <2>1 DEF Store!AddLink, Store!Has
<1> HIDE DEF e, l
<1>3. /\ sidecar \in Sidecars /\ quads \in Graphs /\ sidecar[p] \in Seq(Entry)
  BY DEF StoreInv, StoreTypeOK, Sidecars
<1>4. /\ sidecar'[p] \in Seq(Entry)
      /\ Len(sidecar'[p]) = Len(sidecar[p]) + 1
      /\ \A i \in 1..Len(sidecar[p]) : sidecar'[p][i] = sidecar[p][i]
      /\ sidecar'[p][Len(sidecar[p]) + 1] = e
      /\ \A q \in Perspectives : q # p => sidecar'[q] = sidecar[q]
  BY <1>1, <1>2, <1>3, AppendProperties DEF Sidecars
<1>5. /\ quads'[p] = quads[p] \cup {Store!Triple(e)}
      /\ \A q \in Perspectives : q # p => quads'[q] = quads[q]
  BY <1>2, <1>3 DEF Graphs
<1>6. Len(sidecar[p]) \in Nat
  BY <1>3
<1>7. StoreTypeOK'
  <2>1. sidecar' \in Sidecars
    BY <1>2, <1>3, <1>4 DEF Sidecars
  <2>2. quads' \in Graphs
    BY <1>1, <1>2, <1>3 DEF Graphs
  <2> QED
    BY <1>2, <2>1, <2>2 DEF StoreInv, StoreTypeOK
<1>8. Keyed(sidecar)'
  BY <1>1, <1>2, <1>4, <1>6 DEF StoreInv, Keyed
<1>9. Backed(sidecar, quads)'
  <2> SUFFICES ASSUME NEW q \in Perspectives, NEW t \in quads'[q]
               PROVE  \E i \in 1..Len(sidecar'[q]) : Store!Triple(sidecar'[q][i]) = t
    BY DEF Backed
  <2>1. CASE q # p
    BY <1>4, <1>5, <2>1 DEF StoreInv, Backed
  <2>2. CASE q = p /\ t = Store!Triple(e)
    BY <1>4, <1>6, <2>2
  <2>3. CASE q = p /\ t \in quads[p]
    <3>1. PICK i \in 1..Len(sidecar[p]) : Store!Triple(sidecar[p][i]) = t
      BY <2>3 DEF StoreInv, Backed
    <3> QED
      BY <1>4, <1>6, <2>3, <3>1
  <2> QED
    BY <1>5, <2>1, <2>2, <2>3
<1>10. Covered'
  <2> SUFFICES ASSUME NEW q \in Perspectives, NEW i \in 1..Len(sidecar'[q])
               PROVE  Store!Triple(sidecar'[q][i]) \in quads'[q] \cup orphaned'[q]
    BY DEF Covered
  <2>1. CASE q # p
    BY <1>2, <1>4, <1>5, <2>1 DEF StoreInv, Covered
  <2>2. CASE q = p /\ i = Len(sidecar[p]) + 1
    BY <1>4, <1>5, <2>2
  <2>3. CASE q = p /\ i \in 1..Len(sidecar[p])
    BY <1>2, <1>4, <1>5, <2>3 DEF StoreInv, Covered
  <2> QED
    BY <1>4, <1>6, <2>1, <2>2, <2>3
<1>11. Keyed(saved.sidecar)' /\ Backed(saved.sidecar, saved.quads)'
  BY <1>2 DEF StoreInv, Keyed, Backed
<1> QED
  BY <1>7, <1>8, <1>9, <1>10, <1>11 DEF StoreInv

(***************************************************************************)
(* RemoveLink preserves StoreInv.                                          *)
(***************************************************************************)
LEMMA RemoveLinkStep ==
  ASSUME StoreInv, NEW p \in Perspectives, NEW l \in Store!Memory!Link, Store!RemoveLink(p, l)
  PROVE  StoreInv'
<1>1. /\ sidecar \in Sidecars /\ quads \in Graphs /\ orphaned \in Graphs
      /\ sidecar[p] \in Seq(Entry) /\ Len(sidecar[p]) \in Nat
  BY DEF StoreInv, StoreTypeOK, Sidecars
<1>2. PICK i \in 1..Len(sidecar[p]) :
        /\ Store!KeyOf(sidecar[p][i]) = Store!Key(l)
        /\ sidecar' = [sidecar EXCEPT ![p] = Store!RemoveAt(sidecar[p], i)]
  <2>1. DOMAIN sidecar[p] = 1..Len(sidecar[p])
    BY <1>1
  <2>2. \E i \in DOMAIN sidecar[p] :
          /\ Store!KeyOf(sidecar[p][i]) = Store!Key(l)
          /\ sidecar' = [sidecar EXCEPT ![p] = Store!RemoveAt(sidecar[p], i)]
    BY DEF Store!RemoveLink
  <2> QED
    BY <2>1, <2>2
<1> DEFINE s == sidecar[p]
           t == sidecar'[p]
<1>3. t \in Seq(Entry) /\ Lacks(t, s, i)
  <2>1. s \in Seq(Entry) /\ i \in 1..Len(s) /\ t = SubSeq(s, 1, i - 1) \o SubSeq(s, i + 1, Len(s))
    BY <1>1, <1>2 DEF Sidecars, Store!RemoveAt
  <2> HIDE DEF s, t
  <2> QED
    BY <2>1, Removed
<1>4. \A q \in Perspectives : q # p => sidecar'[q] = sidecar[q]
  BY <1>1, <1>2 DEF Sidecars
<1> HIDE DEF s, t
<1>5. s \in Seq(Entry) /\ i \in 1..Len(s)
  BY <1>1 DEF s
<1>6. /\ \A k \in 1..Len(t) : \E j \in 1..Len(s) : t[k] = s[j]
      /\ \A j \in 1..Len(s) : j # i => \E k \in 1..Len(t) : t[k] = s[j]
  BY <1>3, <1>5, Remaining
<1>7. Store!Triple(sidecar[p][i]) = Store!Triple(l)
  BY <1>1, <1>2, KeyDetermines DEF StoreInv, Keyed
<1>8. /\ quads'[p] = quads[p] \ {Store!Triple(l)}
      /\ \A q \in Perspectives : q # p => quads'[q] = quads[q] /\ orphaned'[q] = orphaned[q]
      /\ orphaned[p] \subseteq orphaned'[p]
      /\ UNCHANGED saved
  BY <1>1 DEF Store!RemoveLink, Graphs
<1>9. \A k \in 1..Len(sidecar'[p]) : Store!Triple(sidecar'[p][k]) = Store!Triple(l) =>
        Store!Triple(l) \in orphaned'[p]
  <2>1. DOMAIN sidecar'[p] = 1..Len(sidecar'[p])
    BY <1>3 DEF t
  <2> QED
    BY <1>1, <2>1 DEF Store!RemoveLink, Store!ToSet, Graphs
<1>10. StoreTypeOK'
  <2>1. sidecar' \in Sidecars
    BY <1>1, <1>2, <1>3, <1>4 DEF Sidecars, t
  <2>2. quads' \in Graphs
    BY <1>1 DEF Graphs, Store!RemoveLink
  <2>3. Store!Triple(l) \in [node : Nodes, predicate : {"default"}]
    <3>1. sidecar[p][i] \in Entry
      BY <1>1
    <3> QED
      BY <1>7, <3>1 DEF Entry, Store!Triple
  <2>4. orphaned' \in Graphs
    BY <1>1, <2>3 DEF Graphs, Store!RemoveLink
  <2> QED
    BY <1>8, <2>1, <2>2, <2>4 DEF StoreInv, StoreTypeOK
<1>11. Keyed(sidecar)'
  <2> SUFFICES ASSUME NEW q \in Perspectives
               PROVE  /\ \A j, k \in 1..Len(sidecar'[q]) :
                           Store!KeyOf(sidecar'[q][j]) = Store!KeyOf(sidecar'[q][k]) => j = k
                      /\ \A j \in 1..Len(sidecar'[q]) :
                           sidecar'[q][j].predicate = "empty" <=> sidecar'[q][j].original = "absent"
    BY DEF Keyed, Store!KeyOf
  <2>1. CASE q # p
    BY <1>4, <2>1 DEF StoreInv, Keyed
  <2>2. CASE q = p
    <3> DEFINE from(k) == IF k < i THEN k ELSE k + 1
    <3>1. \A k \in 1..Len(t) : from(k) \in 1..Len(s) /\ t[k] = s[from(k)]
      <4>1. /\ Len(s) \in Nat /\ Len(t) = Len(s) - 1
            /\ \A k \in 1..Len(t) : t[k] = s[from(k)]
        BY <1>3, <1>5 DEF Lacks
      <4>2. \A k \in 1..Len(t) : from(k) \in 1..Len(s)
        BY <4>1
      <4> QED
        BY <4>1, <4>2
    <3>2. \A j, k \in 1..Len(t) : from(j) = from(k) => j = k
      BY <1>3, <1>5
    <3> HIDE DEF from
    <3>3. /\ \A j, k \in 1..Len(s) : Store!KeyOf(s[j]) = Store!KeyOf(s[k]) => j = k
          /\ \A j \in 1..Len(s) : s[j].predicate = "empty" <=> s[j].original = "absent"
      BY DEF StoreInv, Keyed, s
    <3>4. /\ \A j, k \in 1..Len(t) : Store!KeyOf(t[j]) = Store!KeyOf(t[k]) => j = k
          /\ \A j \in 1..Len(t) : t[j].predicate = "empty" <=> t[j].original = "absent"
      BY <3>1, <3>2, <3>3
    <3> QED
      BY <2>2, <3>4 DEF t
  <2> QED
    BY <2>1, <2>2
<1>12. Backed(sidecar, quads)'
  <2> SUFFICES ASSUME NEW q \in Perspectives, NEW u \in quads'[q]
               PROVE  \E k \in 1..Len(sidecar'[q]) : Store!Triple(sidecar'[q][k]) = u
    BY DEF Backed, Store!Triple
  <2>1. CASE q # p
    BY <1>8, <1>4, <2>1 DEF StoreInv, Backed
  <2>2. CASE q = p
    <3>1. PICK k \in 1..Len(sidecar[p]) : Store!Triple(sidecar[p][k]) = u
      BY <1>8, <2>2 DEF StoreInv, Backed
    <3>2. k # i
      BY <1>7, <1>8, <2>2, <3>1
    <3> QED
      BY <1>6, <2>2, <3>1, <3>2 DEF s, t
  <2> QED
    BY <2>1, <2>2
<1>13. Covered'
  <2> SUFFICES ASSUME NEW q \in Perspectives, NEW k \in 1..Len(sidecar'[q])
               PROVE  Store!Triple(sidecar'[q][k]) \in quads'[q] \cup orphaned'[q]
    BY DEF Covered, Store!Triple
  <2>1. CASE q # p
    BY <1>8, <1>4, <2>1 DEF StoreInv, Covered
  <2>2. CASE q = p
    <3>1. PICK j \in 1..Len(sidecar[p]) : sidecar'[p][k] = sidecar[p][j]
      BY <1>6, <2>2 DEF s, t
    <3> QED
      BY <1>8, <1>9, <2>2, <3>1 DEF StoreInv, Covered
  <2> QED
    BY <2>1, <2>2
<1>14. Keyed(saved.sidecar)' /\ Backed(saved.sidecar, saved.quads)'
  BY <1>8 DEF StoreInv, Keyed, Backed
<1> QED
  BY <1>10, <1>11, <1>12, <1>13, <1>14 DEF StoreInv

(***************************************************************************)
(* Every step of the store preserves StoreInv.                             *)
(***************************************************************************)
LEMMA StoreStep == StoreInv /\ Store!Next => StoreInv'
<1> SUFFICES ASSUME StoreInv, Store!Next
             PROVE  StoreInv'
  OBVIOUS
<1>1. ASSUME NEW p \in Perspectives, NEW l \in Store!Memory!Link, Store!AddLink(p, l) \/ Store!RemoveLink(p, l)
      PROVE  StoreInv'
  BY <1>1, AddLinkStep, RemoveLinkStep
<1>2. ASSUME NEW p \in Perspectives, Store!RemovePerspective(p)
      PROVE  StoreInv'
  <2>1. /\ sidecar \in Sidecars /\ quads \in Graphs /\ orphaned \in Graphs
        /\ sidecar' = [sidecar EXCEPT ![p] = <<>>]
        /\ quads' = [quads EXCEPT ![p] = {}]
        /\ orphaned' = [orphaned EXCEPT ![p] = {}]
        /\ UNCHANGED saved
    BY <1>2 DEF StoreInv, StoreTypeOK, Store!RemovePerspective
  <2>2. sidecar' \in Sidecars /\ quads' \in Graphs /\ orphaned' \in Graphs
    BY <2>1 DEF Sidecars, Graphs
  <2>3. /\ sidecar'[p] = <<>> /\ quads'[p] = {}
        /\ \A q \in Perspectives : q # p =>
             sidecar'[q] = sidecar[q] /\ quads'[q] = quads[q] /\ orphaned'[q] = orphaned[q]
    BY <2>1 DEF Sidecars, Graphs
  <2>4. StoreTypeOK'
    BY <2>1, <2>2 DEF StoreInv, StoreTypeOK
  <2>5. Keyed(sidecar)'
    <3>1. ASSUME NEW q \in Perspectives
          PROVE  /\ \A i, j \in 1..Len(sidecar'[q]) :
                      Store!KeyOf(sidecar'[q][i]) = Store!KeyOf(sidecar'[q][j]) => i = j
                 /\ \A i \in 1..Len(sidecar'[q]) :
                      sidecar'[q][i].predicate = "empty" <=> sidecar'[q][i].original = "absent"
      <4>1. CASE q = p
        <5>1. sidecar'[q] = <<>> /\ 1..Len(sidecar'[q]) = {}
          BY <2>3, <4>1
        <5> QED
          BY <5>1
      <4>2. CASE q # p
        <5>1. sidecar'[q] = sidecar[q]
          BY <2>3, <4>2
        <5> QED
          BY <5>1 DEF StoreInv, Keyed
      <4> QED
        BY <4>1, <4>2
    <3> QED
      BY <3>1 DEF Keyed
  <2>6. Backed(sidecar, quads)'
    BY <2>3 DEF StoreInv, Backed
  <2>7. Covered'
    BY <2>3 DEF StoreInv, Covered
  <2>8. Keyed(saved.sidecar)' /\ Backed(saved.sidecar, saved.quads)'
    BY <2>1 DEF StoreInv, Keyed, Backed
  <2> QED
    BY <2>4, <2>5, <2>6, <2>7, <2>8 DEF StoreInv
<1>3. CASE Store!Dump
  BY <1>3 DEF Store!Dump, StoreInv, StoreTypeOK, Keyed, Backed, Covered
<1>4. CASE Store!Load
  <2>1. /\ sidecar' = saved.sidecar /\ quads' = saved.quads /\ UNCHANGED saved
        /\ saved.sidecar \in Sidecars /\ saved.quads \in Graphs
    BY <1>4 DEF Store!Load, StoreInv, StoreTypeOK
  <2>2. \A p \in Perspectives : \A i \in 1..Len(sidecar'[p]) :
          Store!Triple(sidecar'[p][i]) \in [node : Nodes, predicate : {"default"}]
    <3>1. \A e \in Entry : Store!Triple(e) \in [node : Nodes, predicate : {"default"}]
      BY DEF Entry, Store!Triple
    <3> QED
      BY <2>1, <3>1 DEF Sidecars
  <2>3. \A p \in Perspectives : orphaned'[p] =
          {u \in {Store!Triple(sidecar'[p][i]) : i \in 1..Len(sidecar'[p])} : u \notin quads'[p]}
    <3>1. \A p \in Perspectives : DOMAIN saved.sidecar[p] = 1..Len(saved.sidecar[p])
      BY <2>1 DEF Sidecars
    <3> QED
      BY <1>4, <2>1, <3>1 DEF Store!Load, Store!ToSet
  <2>4. orphaned' \in Graphs
    <3>1. \A p \in Perspectives : orphaned'[p] \in SUBSET [node : Nodes, predicate : {"default"}]
      BY <2>2, <2>3
    <3> QED
      BY <1>4, <3>1 DEF Store!Load, Graphs
  <2>5. Covered'
    BY <2>3 DEF Covered, Store!Triple
  <2>6. StoreTypeOK'
    BY <2>1, <2>4 DEF StoreInv, StoreTypeOK
  <2> QED
    BY <2>1, <2>5, <2>6 DEF StoreInv, Keyed, Backed
<1> QED
  BY <1>1, <1>2, <1>3, <1>4 DEF Store!Next

(***************************************************************************)
(* StoreInv holds in every state.                                          *)
(***************************************************************************)
THEOREM StoreInvariant == SSpec => []StoreInv
<1>1. SInit => StoreInv
  BY DEF SInit, Store!Init, StoreInv, StoreTypeOK, Sidecars, Graphs, Keyed, Backed, Covered
<1>2. StoreInv /\ [SNext]_svars => StoreInv'
  <2> SUFFICES ASSUME StoreInv, [SNext]_svars
               PROVE  StoreInv'
    OBVIOUS
  <2>1. ASSUME UNCHANGED storeVars
        PROVE  StoreInv'
    BY <2>1 DEF StoreInv, StoreTypeOK, Keyed, Backed, Covered, storeVars
  <2>2. CASE SNext
    <3>1. CASE Store!Next
      BY <3>1, StoreStep
    <3>2. CASE service # "store"
      BY <2>1, <2>2, <3>2 DEF SNext, Others
    <3> QED
      BY <2>2, <3>1, <3>2 DEF SNext
  <2>3. CASE UNCHANGED svars
    BY <2>1, <2>3 DEF svars
  <2> QED
    BY <2>2, <2>3
<1> QED
  BY <1>1, <1>2, PTL DEF SSpec

(***************************************************************************)
(* QuadsOfLinks of OxigraphLinkStore: a SPARQL query finds no triple that  *)
(* no link has, and misses a link only when another one with its triple    *)
(* was removed.                                                            *)
(***************************************************************************)
THEOREM QuadsOfLinksCorrect == SSpec => []QuadsOfLinks
<1>1. StoreInv => QuadsOfLinks
  <2> SUFFICES ASSUME StoreInv, NEW p \in Perspectives
               PROVE  /\ \A t \in quads[p] : \E e \in Store!ToSet(sidecar[p]) : Store!Triple(e) = t
                      /\ \A e \in Store!ToSet(sidecar[p]) : Store!Found(p, e) \/ Store!Triple(e) \in orphaned[p]
    BY DEF QuadsOfLinks, Store!QuadsOfLinks
  <2>1. DOMAIN sidecar[p] = 1..Len(sidecar[p])
    BY DEF StoreInv, StoreTypeOK, Sidecars
  <2>2. \A t \in quads[p] : \E e \in Store!ToSet(sidecar[p]) : Store!Triple(e) = t
    BY <2>1 DEF StoreInv, Backed, Store!ToSet
  <2>3. \A e \in Store!ToSet(sidecar[p]) : Store!Found(p, e) \/ Store!Triple(e) \in orphaned[p]
    BY <2>1 DEF StoreInv, Covered, Store!ToSet, Store!Found
  <2> QED
    BY <2>2, <2>3
<1> QED
  BY <1>1, StoreInvariant, PTL

-----------------------------------------------------------------------------
(* A link as the sidecar shows it, and the links of a perspective.         *)
Shown(e) == [node |-> e.node, predicate |-> e.original, by |-> e.by]
LinksOfSidecar(s) == [i \in DOMAIN s |-> Shown(s[i])]

(***************************************************************************)
(* The links shown are a sequence as long as that of the entries.          *)
(***************************************************************************)
LEMMA ShownSeq ==
  ASSUME NEW s \in Seq(Entry)
  PROVE  /\ LinksOfSidecar(s) \in Seq(Store!Memory!Link)
         /\ Len(LinksOfSidecar(s)) = Len(s)
         /\ \A i \in 1..Len(s) : LinksOfSidecar(s)[i] = Shown(s[i])
<1>1. Len(s) \in Nat /\ DOMAIN s = 1..Len(s) /\ \A i \in 1..Len(s) : s[i] \in Entry
  OBVIOUS
<1>2. \A e \in Entry : Shown(e) \in Store!Memory!Link
  BY DEF Entry, Shown, Store!Memory!Link, Store!Memory!Predicates
<1> DEFINE t == [i \in 1..Len(s) |-> Shown(s[i])]
<1>3. t \in [1..Len(s) -> Store!Memory!Link]
  BY <1>1, <1>2
<1>4. t \in Seq(Store!Memory!Link) /\ Len(t) = Len(s)
  BY <1>1, <1>3
<1>5. LinksOfSidecar(s) = t
  BY <1>1 DEF LinksOfSidecar
<1> QED
  BY <1>4, <1>5

(***************************************************************************)
(* Adding an entry adds its link at the end.                               *)
(***************************************************************************)
LEMMA ShownAppend ==
  ASSUME NEW s \in Seq(Entry), NEW e \in Entry
  PROVE  LinksOfSidecar(Append(s, e)) = Append(LinksOfSidecar(s), Shown(e))
<1> DEFINE t == Append(s, e)
           a == LinksOfSidecar(s)
           b == LinksOfSidecar(t)
<1>1. t \in Seq(Entry) /\ Len(t) = Len(s) + 1 /\ t[Len(s) + 1] = e /\ \A i \in 1..Len(s) : t[i] = s[i]
  BY AppendProperties
<1>2. a \in Seq(Store!Memory!Link) /\ Len(a) = Len(s) /\ \A i \in 1..Len(s) : a[i] = Shown(s[i])
  BY ShownSeq
<1> HIDE DEF t
<1>3. b \in Seq(Store!Memory!Link) /\ Len(b) = Len(t) /\ \A i \in 1..Len(t) : b[i] = Shown(t[i])
  BY <1>1, ShownSeq
<1> HIDE DEF a, b
<1>4. Len(s) \in Nat /\ Shown(e) \in Store!Memory!Link
  BY DEF Entry, Shown, Store!Memory!Link, Store!Memory!Predicates
<1> DEFINE c == Append(a, Shown(e))
<1>5. c \in Seq(Store!Memory!Link) /\ Len(c) = Len(a) + 1 /\ c[Len(a) + 1] = Shown(e)
      /\ \A i \in 1..Len(a) : c[i] = a[i]
  BY <1>2, <1>4, AppendProperties
<1> HIDE DEF c
<1>6. \A i \in 1..Len(b) : b[i] = c[i]
  BY <1>1, <1>2, <1>3, <1>4, <1>5
<1>7. b = c
  BY <1>1, <1>2, <1>3, <1>5, <1>6, SeqEqual
<1> QED
  BY <1>7 DEF a, b, c, t

(***************************************************************************)
(* Removing an entry removes the link it shows.                            *)
(***************************************************************************)
LEMMA ShownRemove ==
  ASSUME NEW s \in Seq(Entry), NEW i \in 1..Len(s)
  PROVE  LinksOfSidecar(SubSeq(s, 1, i - 1) \o SubSeq(s, i + 1, Len(s))) =
           SubSeq(LinksOfSidecar(s), 1, i - 1) \o SubSeq(LinksOfSidecar(s), i + 1, Len(LinksOfSidecar(s)))
<1> DEFINE t == SubSeq(s, 1, i - 1) \o SubSeq(s, i + 1, Len(s))
           a == LinksOfSidecar(s)
           b == LinksOfSidecar(t)
           c == SubSeq(a, 1, i - 1) \o SubSeq(a, i + 1, Len(a))
<1>1. t \in Seq(Entry) /\ Lacks(t, s, i)
  BY Removed
<1> HIDE DEF t
<1>2. a \in Seq(Store!Memory!Link) /\ Len(a) = Len(s) /\ \A k \in 1..Len(s) : a[k] = Shown(s[k])
  BY ShownSeq
<1>3. b \in Seq(Store!Memory!Link) /\ Len(b) = Len(t) /\ \A k \in 1..Len(t) : b[k] = Shown(t[k])
  BY <1>1, ShownSeq
<1> HIDE DEF a, b
<1>4. i \in 1..Len(a) /\ Len(s) \in Nat
  BY <1>2
<1>5. c \in Seq(Store!Memory!Link) /\ Lacks(c, a, i)
  BY <1>2, <1>4, Removed
<1> HIDE DEF c
<1>6. Len(b) = Len(c) /\ Len(b) = Len(s) - 1
  BY <1>1, <1>2, <1>3, <1>5 DEF Lacks
<1>7. ASSUME NEW k \in 1..Len(b)
      PROVE  b[k] = c[k]
  <2>1. CASE k < i
    <3>1. k \in 1..(i - 1) /\ k \in 1..Len(s)
      BY <1>4, <1>6, <2>1
    <3> QED
      BY <1>1, <1>2, <1>3, <1>5, <3>1 DEF Lacks
  <2>2. CASE ~(k < i)
    <3>1. k \in i..(Len(s) - 1) /\ k + 1 \in 1..Len(s)
      BY <1>4, <1>6, <2>2
    <3>2. b[k] = Shown(t[k]) /\ t[k] = s[k + 1] /\ a[k + 1] = Shown(s[k + 1])
      BY <1>1, <1>2, <1>3, <3>1 DEF Lacks
    <3>3. c[k] = a[k + 1]
      BY <1>2, <1>5, <3>1 DEF Lacks
    <3> QED
      BY <3>2, <3>3
  <2> QED
    BY <2>1, <2>2
<1>8. b = c
  BY <1>3, <1>5, <1>6, <1>7, SeqEqual
<1> QED
  BY <1>8 DEF a, b, c, t

(***************************************************************************)
(* What the mapping makes of the sidecar.                                  *)
(***************************************************************************)
LEMMA AllLinksOf ==
  ASSUME NEW sc \in Sidecars
  PROVE  /\ Store!AllLinks(sc) = [p \in Perspectives |-> LinksOfSidecar(sc[p])]
         /\ \A p \in Perspectives : Store!AllLinks(sc)[p] = LinksOfSidecar(sc[p])
  BY DEF Store!AllLinks, LinksOfSidecar, Shown

(***************************************************************************)
(* AddLink adds the link that the store in memory adds.                    *)
(***************************************************************************)
LEMMA AddRefines ==
  ASSUME StoreInv, StoreInv', NEW p \in Perspectives, NEW m \in Store!Memory!Link, Store!AddLink(p, m)
  PROVE  Store!Memory!AddLink(p, m)
<1> DEFINE l == Store!Memory!Valid(m)
           e == [node |-> l.node, by |-> l.by, predicate |-> Store!Key(l).predicate, original |-> l.predicate]
<1>1. l \in Store!Memory!Link /\ e \in Entry /\ Shown(e) = l
  <2>1. l \in Store!Memory!Link /\ e \in Entry
    BY EntryOf DEF Store!AddLink
  <2>2. l = [node |-> l.node, predicate |-> l.predicate, by |-> l.by]
    BY <2>1 DEF Store!Memory!Link
  <2> QED
    BY <2>1, <2>2 DEF Shown
<1>2. /\ sidecar \in Sidecars /\ sidecar' \in Sidecars /\ sidecar[p] \in Seq(Entry)
      /\ DOMAIN sidecar[p] = 1..Len(sidecar[p])
      /\ sidecar' = [sidecar EXCEPT ![p] = Append(sidecar[p], e)]
      /\ UNCHANGED saved
  BY DEF StoreInv, StoreTypeOK, Sidecars, Store!AddLink
<1>3. \A i \in 1..Len(sidecar[p]) : Store!KeyOf(sidecar[p][i]) # Store!Key(l)
  BY <1>2 DEF Store!AddLink, Store!Has
<1> HIDE DEF l, e
<1>4. \A i \in 1..Len(sidecar[p]) : Shown(sidecar[p][i]) # l
  <2> SUFFICES ASSUME NEW i \in 1..Len(sidecar[p]), Shown(sidecar[p][i]) = l
               PROVE  Store!KeyOf(sidecar[p][i]) = Store!Key(l)
    BY <1>3
  <2>1. /\ sidecar[p][i] \in Entry
        /\ sidecar[p][i].predicate = "empty" <=> sidecar[p][i].original = "absent"
    BY <1>2 DEF StoreInv, Keyed
  <2> QED
    BY <2>1 DEF Entry, Shown, Store!KeyOf, Store!Key
<1>5. ~Store!Memory!Contains(Store!AllLinks(sidecar)[p], l)
  <2>1. /\ Len(LinksOfSidecar(sidecar[p])) = Len(sidecar[p])
        /\ \A i \in 1..Len(sidecar[p]) : LinksOfSidecar(sidecar[p])[i] = Shown(sidecar[p][i])
    BY <1>2, ShownSeq
  <2> QED
    BY <1>2, <1>4, <2>1, AllLinksOf DEF Store!Memory!Contains
<1>6. Store!AllLinks(sidecar)' = [Store!AllLinks(sidecar) EXCEPT ![p] = Append(Store!AllLinks(sidecar)[p], l)]
  <2>1. Store!AllLinks(sidecar)' = [q \in Perspectives |-> LinksOfSidecar(sidecar'[q])]
    BY <1>2 DEF Store!AllLinks, LinksOfSidecar, Shown
  <2>2. LinksOfSidecar(sidecar'[p]) = Append(LinksOfSidecar(sidecar[p]), l)
    BY <1>1, <1>2, ShownAppend DEF Sidecars
  <2>3. \A q \in Perspectives : q # p => sidecar'[q] = sidecar[q]
    BY <1>2 DEF Sidecars
  <2>4. Store!AllLinks(sidecar) = [q \in Perspectives |-> LinksOfSidecar(sidecar[q])]
    BY <1>2, AllLinksOf
  <2> QED
    BY <2>1, <2>2, <2>3, <2>4
<1>7. UNCHANGED Store!AllLinks(saved.sidecar)
  BY <1>2 DEF Store!AllLinks
<1> QED
  BY <1>5, <1>6, <1>7 DEF Store!Memory!AddLink, l

(***************************************************************************)
(* RemoveLink removes the link that the store in memory removes, unless    *)
(* the predicate it is given is empty.                                     *)
(***************************************************************************)
LEMMA RemoveRefines ==
  ASSUME StoreInv, StoreInv', NEW p \in Perspectives, NEW l \in Store!Memory!Link, l.predicate # "empty",
         Store!RemoveLink(p, l)
  PROVE  Store!Memory!RemoveLink(p, l)
<1>1. /\ sidecar \in Sidecars /\ sidecar' \in Sidecars /\ sidecar[p] \in Seq(Entry)
      /\ DOMAIN sidecar[p] = 1..Len(sidecar[p]) /\ Len(sidecar[p]) \in Nat
      /\ UNCHANGED saved
  BY DEF StoreInv, StoreTypeOK, Sidecars, Store!RemoveLink
<1>2. PICK i \in 1..Len(sidecar[p]) :
        /\ Store!KeyOf(sidecar[p][i]) = Store!Key(l)
        /\ sidecar' = [sidecar EXCEPT ![p] = Store!RemoveAt(sidecar[p], i)]
  <2>1. \E i \in DOMAIN sidecar[p] :
          /\ Store!KeyOf(sidecar[p][i]) = Store!Key(l)
          /\ sidecar' = [sidecar EXCEPT ![p] = Store!RemoveAt(sidecar[p], i)]
    BY DEF Store!RemoveLink
  <2> QED
    BY <1>1, <2>1
<1> DEFINE s == sidecar[p]
           t == LinksOfSidecar(s)
<1>3. /\ t \in Seq(Store!Memory!Link) /\ Len(t) = Len(s)
      /\ \A k \in 1..Len(s) : t[k] = Shown(s[k])
  BY <1>1, ShownSeq
<1>4. DOMAIN t = 1..Len(s)
  BY <1>3
<1>5. t[i] = l
  <2>1. s[i] \in Entry /\ (s[i].predicate = "empty" <=> s[i].original = "absent")
    BY <1>1 DEF StoreInv, Keyed
  <2>2. Shown(s[i]) = l
    BY <1>2, <2>1, KeyDetermines DEF Shown
  <2> QED
    BY <1>3, <2>2
<1>6. \A j \in 1..Len(s) : t[j] = l => j = i
  <2> SUFFICES ASSUME NEW j \in 1..Len(s), Shown(s[j]) = Shown(s[i])
               PROVE  Store!KeyOf(s[j]) = Store!KeyOf(s[i])
    BY <1>3, <1>5 DEF StoreInv, Keyed
  <2>1. \A k \in 1..Len(s) : s[k] \in Entry /\ (s[k].predicate = "empty" <=> s[k].original = "absent")
    BY <1>1 DEF StoreInv, Keyed
  <2> QED
    BY <2>1 DEF Entry, Shown, Store!KeyOf
<1>7. Store!AllLinks(sidecar)' = [Store!AllLinks(sidecar) EXCEPT ![p] = Store!Memory!RemoveAt(t, i)]
  <2>1. Store!AllLinks(sidecar)' = [q \in Perspectives |-> LinksOfSidecar(sidecar'[q])]
    BY <1>1 DEF Store!AllLinks, LinksOfSidecar, Shown
  <2>2. sidecar'[p] = SubSeq(s, 1, i - 1) \o SubSeq(s, i + 1, Len(s))
    BY <1>1, <1>2 DEF Sidecars, Store!RemoveAt
  <2>3. LinksOfSidecar(sidecar'[p]) = Store!Memory!RemoveAt(t, i)
    BY <1>1, <2>2, ShownRemove DEF Store!Memory!RemoveAt
  <2>4. \A q \in Perspectives : q # p => sidecar'[q] = sidecar[q]
    BY <1>1, <1>2 DEF Sidecars
  <2> HIDE DEF t
  <2> QED
    BY <1>1, <2>1, <2>3, <2>4, AllLinksOf
<1>8. Store!AllLinks(sidecar)[p] = t
  BY <1>1, AllLinksOf
<1>9. UNCHANGED Store!AllLinks(saved.sidecar)
  BY <1>1 DEF Store!AllLinks
<1> HIDE DEF t, s
<1>10. \A j \in 1..(i - 1) : t[j] # l
  <2>1. \A j \in 1..(i - 1) : j \in 1..Len(s) /\ j # i
    BY <1>1 DEF s
  <2> QED
    BY <1>6, <2>1
<1>11. i \in DOMAIN t
  BY <1>4 DEF s
<1> QED
  BY <1>5, <1>7, <1>8, <1>9, <1>10, <1>11 DEF Store!Memory!RemoveLink

(***************************************************************************)
(* Every step of the store is one of the store in memory, except for the   *)
(* removal of an empty predicate.                                          *)
(***************************************************************************)
LEMMA StoreRefines == StoreInv /\ StoreInv' /\ Store!Next => Store!MemoryStep
<1> SUFFICES ASSUME StoreInv, StoreInv', Store!Next
             PROVE  Store!MemoryStep
  OBVIOUS
<1>1. ASSUME NEW p \in Perspectives, NEW l \in Store!Memory!Link
      PROVE  /\ Store!AddLink(p, l) => Store!Memory!AddLink(p, l)
             /\ Store!RemoveLink(p, l) /\ l.predicate # "empty" => Store!Memory!RemoveLink(p, l)
  BY AddRefines, RemoveRefines
<1>2. ASSUME NEW p \in Perspectives, NEW l \in Store!Memory!Link, Store!AddLink(p, l) \/ Store!RemoveLink(p, l)
      PROVE  Store!Memory!Next \/ Store!FindsEmpty
  BY <1>1, <1>2 DEF Store!Memory!Next, Store!FindsEmpty
<1>3. ASSUME NEW p \in Perspectives, Store!RemovePerspective(p)
      PROVE  Store!Memory!Next
  <2>1. /\ sidecar \in Sidecars /\ sidecar' = [sidecar EXCEPT ![p] = <<>>] /\ UNCHANGED saved
    BY <1>3 DEF Store!RemovePerspective, StoreInv, StoreTypeOK
  <2>2. /\ sidecar'[p] = <<>> /\ \A q \in Perspectives : q # p => sidecar'[q] = sidecar[q]
    BY <2>1 DEF Sidecars
  <2>3. LinksOfSidecar(<<>>) = <<>>
    <3>1. <<>> \in Seq(Entry)
      OBVIOUS
    <3>2. LinksOfSidecar(<<>>) \in Seq(Store!Memory!Link) /\ Len(LinksOfSidecar(<<>>)) = 0
      BY <3>1, ShownSeq
    <3> QED
      BY <3>2, EmptySeq
  <2>4. Store!AllLinks(sidecar)' = [q \in Perspectives |-> LinksOfSidecar(sidecar'[q])]
    BY DEF Store!AllLinks, LinksOfSidecar, Shown
  <2>5. Store!AllLinks(sidecar)' = [Store!AllLinks(sidecar) EXCEPT ![p] = <<>>]
    BY <2>1, <2>2, <2>3, <2>4, AllLinksOf
  <2>6. UNCHANGED Store!AllLinks(saved.sidecar)
    BY <2>1 DEF Store!AllLinks
  <2> QED
    BY <2>5, <2>6 DEF Store!Memory!RemovePerspective, Store!Memory!Next
<1>4. ASSUME Store!Dump
      PROVE  Store!Memory!Next
  BY <1>4 DEF Store!Dump, Store!Memory!Dump, Store!Memory!Next, Store!AllLinks
<1>5. ASSUME Store!Load
      PROVE  Store!Memory!Next
  BY <1>5 DEF Store!Load, Store!Memory!Load, Store!Memory!Next, Store!AllLinks
<1>6. Store!Memory!Next \/ Store!FindsEmpty
  BY <1>2, <1>3, <1>4, <1>5 DEF Store!Next
<1> QED
  BY <1>1, <1>6 DEF Store!MemoryStep

(***************************************************************************)
(* ImplementsMemory of OxigraphLinkStore: the store adds and removes what  *)
(* the store in memory does, but for the removal of an empty predicate.    *)
(***************************************************************************)
THEOREM ImplementsMemoryCorrect == SSpec => ImplementsMemory
<1>1. SInit => Store!Memory!Init
  BY DEF SInit, Store!Init, Store!Memory!Init, Store!AllLinks
<1>2. StoreInv /\ StoreInv' /\ [SNext]_svars => [service = "store" => Store!MemoryStep]_storeVars
  <2> SUFFICES ASSUME StoreInv, StoreInv', [SNext]_svars, service = "store"
               PROVE  Store!MemoryStep \/ UNCHANGED storeVars
    OBVIOUS
  <2>1. CASE SNext
    BY <2>1, StoreRefines DEF SNext
  <2>2. CASE UNCHANGED svars
    BY <2>2 DEF svars
  <2> QED
    BY <2>1, <2>2
<1> QED
  BY <1>1, <1>2, StoreInvariant, PTL DEF SSpec, ImplementsMemory

-----------------------------------------------------------------------------
(* PubSub.                                                                 *)

EventsTypeOK ==
  /\ published \in Nat
  /\ since \in [Iterators -> Nat]
  /\ life \in [Iterators -> {"none", "open", "done"}]
  /\ queue \in [Iterators -> Seq(Nat)]
  /\ resolver \in [Iterators -> Nat]
  /\ nexts \in [Iterators -> Nat]
  /\ given \in [Iterators -> [1..MaxNexts -> Seq(Nat)]]

(***************************************************************************)
(* An iterator is not made after the last event; a call that was not made  *)
(* was given nothing; of the calls of an open iterator only the last can   *)
(* wait, and nothing is queued while it does.                              *)
(***************************************************************************)
Waits(i) ==
  /\ since[i] <= published
  /\ \A n \in 1..MaxNexts : n > nexts[i] => given[i][n] = <<>>
  /\ life[i] = "none" => nexts[i] = 0 /\ resolver[i] = 0 /\ queue[i] = <<>>
  /\ life[i] = "open" /\ resolver[i] # 0 =>
       /\ resolver[i] = nexts[i] /\ resolver[i] \in 1..MaxNexts
       /\ given[i][resolver[i]] = <<>> /\ queue[i] = <<>>

WaitInv == \A i \in Iterators : Waits(i)

Members(s) == {s[k] : k \in 1..Len(s)}

(***************************************************************************)
(* What the calls were given (g) and the queue (q) are the events A, in    *)
(* their order.                                                            *)
(***************************************************************************)
Ordered(g, q, A) ==
  /\ A = (UNION {Members(g[n]) : n \in 1..MaxNexts}) \cup Members(q)
  /\ \A m, n \in 1..MaxNexts : m < n => \A d \in Members(g[m]), e \in Members(g[n]) : d < e
  /\ \A n \in 1..MaxNexts : \A d \in Members(g[n]), e \in Members(q) : d < e
  /\ \A k, m \in 1..Len(q) : k < m => q[k] < q[m]

OrderInv == \A i \in Iterators : life[i] = "open" => Ordered(given[i], queue[i], Events!Awaited(i))

EventsInv == EventsTypeOK /\ WaitInv /\ OrderInv

(***************************************************************************)
(* The property, of the indices of the sequences.                          *)
(***************************************************************************)
LEMMA OrderedEvents ==
  ASSUME EventsTypeOK
  PROVE  OrderInv <=> EventsInOrder
<1>1. \A s \in Seq(Nat) : Events!Range(s) = Members(s)
  BY DEF Events!Range, Members
<1>2. \A i \in Iterators : /\ Events!Range(queue[i]) = Members(queue[i])
                           /\ \A n \in 1..MaxNexts : Events!Range(given[i][n]) = Members(given[i][n])
  BY <1>1 DEF EventsTypeOK
<1>3. ASSUME NEW i \in Iterators
      PROVE  UNION {Members(given[i][n]) : n \in 1..MaxNexts}
               = UNION {Events!Range(given[i][n]) : n \in 1..MaxNexts}
  BY <1>2
<1> QED
  BY <1>2, <1>3 DEF OrderInv, Ordered, EventsInOrder, Events!EventsInOrder, Events!Open

(***************************************************************************)
(* The event a waiting call is given is the last one of all.               *)
(***************************************************************************)
LEMMA OrderedGive ==
  ASSUME NEW g \in [1..MaxNexts -> Seq(Nat)], NEW A, NEW e \in Nat, \A a \in A : a < e,
         NEW r \in 1..MaxNexts, \A n \in 1..MaxNexts : n >= r => g[n] = <<>>,
         Ordered(g, <<>>, A)
  PROVE  Ordered([g EXCEPT ![r] = <<e>>], <<>>, A \cup {e})
<1> DEFINE h == [g EXCEPT ![r] = <<e>>]
<1>1. /\ h[r] = <<e>>
      /\ \A n \in 1..MaxNexts : n # r => h[n] = g[n]
  OBVIOUS
<1> HIDE DEF h
<1>2. Members(<<e>>) = {e} /\ Members(<<>>) = {}
  BY DEF Members
<1>3. Members(h[r]) = {e} /\ Members(g[r]) = {}
  BY <1>1, <1>2
<1>4. \A n \in 1..MaxNexts : n # r => Members(h[n]) = Members(g[n])
  BY <1>1
<1>5. \A n \in 1..MaxNexts : n > r => Members(h[n]) = {}
  BY <1>1, <1>2
<1>6. /\ A = UNION {Members(g[n]) : n \in 1..MaxNexts}
      /\ \A m, n \in 1..MaxNexts : m < n => \A d \in Members(g[m]), f \in Members(g[n]) : d < f
  BY <1>2 DEF Ordered
<1>7. UNION {Members(h[n]) : n \in 1..MaxNexts} = A \cup {e}
  BY <1>3, <1>4, <1>6
<1>8. ASSUME NEW m \in 1..MaxNexts, NEW n \in 1..MaxNexts, m < n,
             NEW d \in Members(h[m]), NEW f \in Members(h[n])
      PROVE  d < f
  <2>1. n = r \/ n < r
    BY <1>5, <1>8
  <2>2. m # r
    BY <2>1, <1>8
  <2>3. d \in Members(g[m]) /\ d \in A
    BY <2>2, <1>4, <1>6, <1>8
  <2>4. CASE n = r
    BY <2>3, <2>4, <1>3, <1>8
  <2>5. CASE n # r
    BY <2>3, <2>5, <1>4, <1>6, <1>8
  <2> QED
    BY <2>4, <2>5
<1>9. Len(<<>>) = 0
  OBVIOUS
<1>10. Ordered(h, <<>>, A \cup {e})
  <2>1. A \cup {e} = (UNION {Members(h[n]) : n \in 1..MaxNexts}) \cup Members(<<>>)
    BY <1>2, <1>7
  <2>2. \A n \in 1..MaxNexts : \A d \in Members(h[n]), f \in Members(<<>>) : d < f
    BY <1>2
  <2>3. \A k, m \in 1..Len(<<>>) : k < m => <<>>[k] < <<>>[m]
    BY <1>9
  <2> QED
    BY <1>8, <2>1, <2>2, <2>3 DEF Ordered
<1> QED
  BY <1>10 DEF h

(***************************************************************************)
(* An event that is queued follows those before it.                        *)
(***************************************************************************)
LEMMA OrderedQueue ==
  ASSUME NEW g \in [1..MaxNexts -> Seq(Nat)], NEW q \in Seq(Nat), NEW A,
         NEW e \in Nat, \A a \in A : a < e, Ordered(g, q, A)
  PROVE  Ordered(g, Append(q, e), A \cup {e})
<1> DEFINE p == Append(q, e)
<1>1. /\ Len(p) = Len(q) + 1 /\ Len(q) \in Nat
      /\ p[Len(q) + 1] = e
      /\ \A k \in 1..Len(q) : p[k] = q[k]
  BY AppendProperties
<1> HIDE DEF p
<1>2. Members(p) = Members(q) \cup {e}
  <2>1. 1..Len(p) = 1..Len(q) \cup {Len(q) + 1}
    BY <1>1
  <2>2. Members(p) = {p[k] : k \in 1..Len(q)} \cup {e}
    BY <1>1, <2>1 DEF Members
  <2>3. {p[k] : k \in 1..Len(q)} = Members(q)
    BY <1>1 DEF Members
  <2> QED
    BY <2>2, <2>3
<1>3. Members(q) \subseteq A /\ \A n \in 1..MaxNexts : Members(g[n]) \subseteq A
  BY DEF Ordered
<1>4. \A k \in 1..Len(q) : q[k] \in Members(q)
  BY DEF Members
<1>5. ASSUME NEW k \in 1..Len(p), NEW m \in 1..Len(p), k < m
      PROVE  p[k] < p[m]
  <2>1. k \in 1..Len(q) /\ (m \in 1..Len(q) \/ m = Len(q) + 1)
    BY <1>1, <1>5, SMT
  <2>2. CASE m \in 1..Len(q)
    BY <2>1, <2>2, <1>1, <1>5 DEF Ordered
  <2>3. CASE m = Len(q) + 1
    BY <2>1, <2>3, <1>1, <1>3, <1>4
  <2> QED
    BY <2>1, <2>2, <2>3
<1>6. \A n \in 1..MaxNexts : \A d \in Members(g[n]), f \in Members(p) : d < f
  BY <1>2, <1>3 DEF Ordered
<1>7. A \cup {e} = (UNION {Members(g[n]) : n \in 1..MaxNexts}) \cup Members(p)
  BY <1>2 DEF Ordered
<1>8. \A m, n \in 1..MaxNexts : m < n => \A d \in Members(g[m]), f \in Members(g[n]) : d < f
  BY DEF Ordered
<1> QED
  BY <1>5, <1>6, <1>7, <1>8 DEF Ordered, p

(***************************************************************************)
(* A call that takes the head of the queue leaves the rest after it.       *)
(***************************************************************************)
LEMMA OrderedTake ==
  ASSUME NEW g \in [1..MaxNexts -> Seq(Nat)], NEW q \in Seq(Nat), NEW A, q # <<>>,
         NEW c \in 1..MaxNexts, \A n \in 1..MaxNexts : n >= c => g[n] = <<>>,
         Ordered(g, q, A)
  PROVE  Ordered([g EXCEPT ![c] = <<Head(q)>>], Tail(q), A)
<1> DEFINE h == [g EXCEPT ![c] = <<Head(q)>>]
           t == Tail(q)
<1>1. /\ h[c] = <<Head(q)>>
      /\ \A n \in 1..MaxNexts : n # c => h[n] = g[n]
  OBVIOUS
<1>2. /\ Len(q) \in Nat \ {0} /\ Head(q) = q[1]
      /\ Len(t) = Len(q) - 1
      /\ \A k \in 1..Len(t) : t[k] = q[k + 1]
  BY HeadTailProperties
<1> HIDE DEF h, t
<1>3. Members(<<q[1]>>) = {q[1]} /\ Members(<<>>) = {}
  BY DEF Members
<1>4. Members(h[c]) = {q[1]} /\ Members(g[c]) = {}
  <2>1. h[c] = <<q[1]>> /\ g[c] = <<>>
    BY <1>1, <1>2
  <2> QED
    BY <1>3, <2>1
<1>5. \A n \in 1..MaxNexts : n # c => Members(h[n]) = Members(g[n])
  BY <1>1
<1>6. \A n \in 1..MaxNexts : n > c => Members(h[n]) = {}
  BY <1>1, <1>3
<1>7. /\ Members(q) = {q[1]} \cup Members(t)
      /\ q[1] \in Members(q)
  <2>1. \A k \in 1..Len(q) : k = 1 \/ (k - 1 \in 1..Len(t) /\ q[k] = t[k - 1])
    BY <1>2
  <2>2. \A k \in 1..Len(t) : k + 1 \in 1..Len(q)
    BY <1>2
  <2>3. 1 \in 1..Len(q)
    BY <1>2
  <2>4. ASSUME NEW x \in Members(q) PROVE x \in {q[1]} \cup Members(t)
    <3>1. PICK k \in 1..Len(q) : x = q[k]
      BY DEF Members
    <3> QED
      BY <2>1, <3>1 DEF Members
  <2>5. ASSUME NEW x \in Members(t) PROVE x \in Members(q)
    <3>1. PICK k \in 1..Len(t) : x = t[k]
      BY DEF Members
    <3>2. x = q[k + 1] /\ k + 1 \in 1..Len(q)
      BY <1>2, <2>2, <3>1
    <3> QED
      BY <3>2 DEF Members
  <2> QED
    BY <2>3, <2>4, <2>5 DEF Members
<1>8. A = (UNION {Members(h[n]) : n \in 1..MaxNexts}) \cup Members(t)
  <2>1. UNION {Members(h[n]) : n \in 1..MaxNexts}
          = (UNION {Members(g[n]) : n \in 1..MaxNexts}) \cup {q[1]}
    <3>1. \A n \in 1..MaxNexts : Members(h[n]) = IF n = c THEN {q[1]} ELSE Members(g[n])
      BY <1>4, <1>5
    <3>2. Members(g[c]) = {}
      BY <1>4
    <3> HIDE DEF h
    <3> QED
      BY <3>1, <3>2
  <2>2. A = (UNION {Members(g[n]) : n \in 1..MaxNexts}) \cup Members(q)
    BY DEF Ordered
  <2> QED
    BY <1>7, <2>1, <2>2
<1>9. ASSUME NEW m \in 1..MaxNexts, NEW n \in 1..MaxNexts, m < n,
             NEW d \in Members(h[m]), NEW f \in Members(h[n])
      PROVE  d < f
  <2>1. ~ n > c
    BY <1>6, <1>9
  <2>2. m # c
    BY <2>1, <1>9
  <2>3. d \in Members(g[m])
    BY <2>2, <1>5, <1>9
  <2>4. CASE n = c
    BY <2>3, <2>4, <1>4, <1>7, <1>9 DEF Ordered
  <2>5. CASE n # c
    BY <2>3, <2>5, <1>5, <1>9 DEF Ordered
  <2> QED
    BY <2>4, <2>5
<1>10. \A f \in Members(t) : q[1] < f
  <2>1. \A k \in 1..Len(t) : k + 1 \in 1..Len(q) /\ 1 \in 1..Len(q) /\ 1 < k + 1
    BY <1>2
  <2>2. SUFFICES ASSUME NEW k \in 1..Len(t) PROVE q[1] < t[k]
    BY DEF Members
  <2>3. t[k] = q[k + 1]
    BY <1>2
  <2> QED
    BY <2>1, <2>3 DEF Ordered
<1>11. \A n \in 1..MaxNexts : \A d \in Members(h[n]), f \in Members(t) : d < f
  <2> SUFFICES ASSUME NEW n \in 1..MaxNexts, NEW d \in Members(h[n]), NEW f \in Members(t)
               PROVE  d < f
    OBVIOUS
  <2>1. CASE n = c
    BY <2>1, <1>4, <1>10
  <2>2. CASE n # c
    BY <2>2, <1>5, <1>7 DEF Ordered
  <2> QED
    BY <2>1, <2>2
<1>12. \A k, m \in 1..Len(t) : k < m => t[k] < t[m]
  <2> SUFFICES ASSUME NEW k \in 1..Len(t), NEW m \in 1..Len(t), k < m
               PROVE  t[k] < t[m]
    OBVIOUS
  <2>1. k + 1 \in 1..Len(q) /\ m + 1 \in 1..Len(q) /\ k + 1 < m + 1
    BY <1>2
  <2>2. t[k] = q[k + 1] /\ t[m] = q[m + 1]
    BY <1>2
  <2> QED
    BY <2>1, <2>2 DEF Ordered
<1> QED
  BY <1>8, <1>9, <1>11, <1>12 DEF Ordered, h, t

(***************************************************************************)
(* What an iterator awaits depends on the events alone.                    *)
(***************************************************************************)
LEMMA AwaitedKept ==
  ASSUME NEW i \in Iterators, UNCHANGED published, since'[i] = since[i]
  PROVE  Events!Awaited(i)' = Events!Awaited(i)
BY DEF Events!Awaited, Events!Passes

(***************************************************************************)
(* A new iterator starts with nothing.                                     *)
(***************************************************************************)
LEMMA CreateStep ==
  ASSUME EventsInv, NEW i \in Iterators, Events!CreateAsyncIterator(i)
  PROVE  EventsInv'
<1> USE DEF EventsInv, Events!CreateAsyncIterator
<1>1. EventsTypeOK'
  BY DEF EventsTypeOK
<1>2. WaitInv'
  BY DEF EventsTypeOK, WaitInv, Waits
<1>3. ASSUME NEW j \in Iterators, j # i, life'[j] = "open"
      PROVE  Ordered(given[j], queue[j], Events!Awaited(j))'
  <2>1. /\ Ordered(given[j], queue[j], Events!Awaited(j))
        /\ since'[j] = since[j] /\ given'[j] = given[j] /\ queue'[j] = queue[j]
    BY <1>3 DEF EventsTypeOK, OrderInv
  <2>2. Events!Awaited(j)' = Events!Awaited(j)
    BY <2>1, AwaitedKept
  <2> QED
    BY <2>1, <2>2 DEF Ordered
<1>4. Ordered(given[i], queue[i], Events!Awaited(i))'
  <2>1. queue[i] = <<>> /\ \A n \in 1..MaxNexts : given[i][n] = <<>>
    BY DEF WaitInv, Waits, EventsTypeOK
  <2>2. Members(queue[i]) = {} /\ \A n \in 1..MaxNexts : Members(given[i][n]) = {}
    BY <2>1 DEF Members
  <2>3. Events!Awaited(i)' = {}
    BY DEF Events!Awaited, EventsTypeOK
  <2>4. Len(queue[i]) = 0
    BY <2>1
  <2>5. Ordered(given[i], queue[i], {})
    <3>1. {} = (UNION {Members(given[i][n]) : n \in 1..MaxNexts}) \cup Members(queue[i])
      BY <2>2
    <3>2. \A m, n \in 1..MaxNexts :
            m < n => \A d \in Members(given[i][m]), e \in Members(given[i][n]) : d < e
      BY <2>2
    <3>3. \A n \in 1..MaxNexts : \A d \in Members(given[i][n]), e \in Members(queue[i]) : d < e
      BY <2>2
    <3>4. \A k, m \in 1..Len(queue[i]) : k < m => queue[i][k] < queue[i][m]
      BY <2>4
    <3> QED
      BY <3>1, <3>2, <3>3, <3>4 DEF Ordered
  <2>6. given'[i] = given[i] /\ queue'[i] = queue[i]
    OBVIOUS
  <2>7. Ordered(given'[i], queue'[i], {})
    BY <2>5, <2>6
  <2> QED
    BY <2>3, <2>7 DEF Ordered
<1> QED
  BY <1>1, <1>2, <1>3, <1>4 DEF OrderInv

(***************************************************************************)
(* The order an event keeps in an iterator that takes it.                  *)
(***************************************************************************)
LEMMA PublishOrder ==
  ASSUME EventsInv, Events!Publish, NEW i \in Iterators, life[i] = "open"
  PROVE  Ordered(given[i], queue[i], Events!Awaited(i))'
<1> DEFINE e == published + 1
           g == given[i]
           q == queue[i]
           r == resolver[i]
           A == Events!Awaited(i)
<1>1. EventsTypeOK /\ WaitInv /\ OrderInv
  BY DEF EventsInv
<1>2. /\ g \in [1..MaxNexts -> Seq(Nat)] /\ q \in Seq(Nat) /\ r \in Nat
      /\ published \in Nat /\ since[i] \in Nat /\ since[i] <= published
      /\ since' = since /\ published' = e /\ e \in Nat
  BY <1>1 DEF Events!Publish, EventsTypeOK, WaitInv, Waits
<1>3. Ordered(g, q, A)
  BY <1>1 DEF OrderInv
<1>4. \A a \in A : a < e
  BY <1>2 DEF Events!Awaited
<1>5. CASE Events!Passes(i, e)
  <2>1. Events!Awaited(i)' = A \cup {e}
    <3>1. since[i] + 1 .. e = (since[i] + 1 .. published) \cup {e}
      BY <1>2
    <3>2. Events!Awaited(i)' = {d \in since[i] + 1 .. e : Events!Passes(i, d)}
      BY <1>2 DEF Events!Awaited, Events!Passes
    <3> QED
      BY <1>5, <3>1, <3>2 DEF Events!Awaited
  <2>2. i \in {j \in Events!Open : Events!Passes(j, e)}
    BY <1>5 DEF Events!Open
  <2>3. CASE r = 0
    <3>1. given'[i] = g /\ queue'[i] = Append(q, e)
      BY <2>2, <2>3 DEF Events!Publish
    <3>2. Ordered(g, Append(q, e), A \cup {e})
      BY <1>2, <1>3, <1>4, OrderedQueue
    <3> HIDE DEF A, q, g, e
    <3> QED
      BY <2>1, <3>1, <3>2 DEF Ordered
  <2>4. CASE r # 0
    <3>1. given'[i] = [g EXCEPT ![r] = <<e>>] /\ queue'[i] = q
      BY <2>2, <2>4 DEF Events!Publish
    <3>2. /\ r \in 1..MaxNexts /\ q = <<>>
          /\ \A n \in 1..MaxNexts : n >= r => g[n] = <<>>
      BY <1>1, <1>2, <2>4 DEF WaitInv, Waits
    <3> HIDE DEF A, q, g, e, r
    <3>3. Ordered([g EXCEPT ![r] = <<e>>], <<>>, A \cup {e})
      BY <1>2, <1>3, <1>4, <3>2, OrderedGive
    <3> QED
      BY <2>1, <3>1, <3>2, <3>3 DEF Ordered
  <2> QED
    BY <2>3, <2>4
<1>6. CASE ~Events!Passes(i, e)
  <2>1. Events!Awaited(i)' = A
    BY <1>2, <1>6 DEF Events!Awaited, Events!Passes
  <2>2. given'[i] = g /\ queue'[i] = q
    BY <1>6 DEF Events!Publish
  <2> QED
    BY <1>3, <2>1, <2>2 DEF Ordered
<1> QED
  BY <1>5, <1>6

(***************************************************************************)
(* An event is given to the call that waits, or queued.                    *)
(***************************************************************************)
LEMMA PublishStep ==
  ASSUME EventsInv, Events!Publish
  PROVE  EventsInv'
<1> DEFINE e == published + 1
           takers == {i \in Events!Open : Events!Passes(i, e)}
<1>1. EventsTypeOK /\ WaitInv /\ OrderInv
  BY DEF EventsInv
<1>2. /\ published' = e /\ e \in Nat /\ published \in Nat
      /\ UNCHANGED <<since, life, nexts>>
  BY <1>1 DEF Events!Publish, EventsTypeOK
<1>3. /\ \A i \in takers : i \in Iterators /\ life[i] = "open" /\ resolver'[i] = 0
      /\ \A i \in takers : resolver[i] # 0 =>
           given'[i] = [given[i] EXCEPT ![resolver[i]] = <<e>>] /\ queue'[i] = queue[i]
      /\ \A i \in takers : resolver[i] = 0 => given'[i] = given[i] /\ queue'[i] = Append(queue[i], e)
      /\ \A i \in Iterators : i \notin takers =>
           given'[i] = given[i] /\ queue'[i] = queue[i] /\ resolver'[i] = resolver[i]
  BY DEF Events!Publish, Events!Open
<1>4. ASSUME NEW i \in Iterators
      PROVE  /\ given[i] \in [1..MaxNexts -> Seq(Nat)] /\ queue[i] \in Seq(Nat)
             /\ since[i] \in Nat /\ nexts[i] \in Nat /\ resolver[i] \in Nat
  BY <1>1 DEF EventsTypeOK
<1>5. /\ given' = [i \in Iterators |-> given'[i]]
      /\ queue' = [i \in Iterators |-> queue'[i]]
      /\ resolver' = [i \in Iterators |-> resolver'[i]]
  BY DEF Events!Publish
<1> HIDE DEF e, takers
<1>6. ASSUME NEW i \in takers, resolver[i] # 0
      PROVE  /\ resolver[i] = nexts[i] /\ resolver[i] \in 1..MaxNexts
             /\ \A n \in 1..MaxNexts : n # nexts[i] => given'[i][n] = given[i][n]
  <2>1. resolver[i] = nexts[i] /\ resolver[i] \in 1..MaxNexts
    BY <1>1, <1>3, <1>6 DEF WaitInv, Waits
  <2> QED
    BY <1>3, <1>4, <1>6, <2>1
<1>7. EventsTypeOK'
  <2>1. ASSUME NEW i \in Iterators
        PROVE  given'[i] \in [1..MaxNexts -> Seq(Nat)]
    <3>1. <<e>> \in Seq(Nat)
      BY <1>2
    <3>2. [given[i] EXCEPT ![resolver[i]] = <<e>>] \in [1..MaxNexts -> Seq(Nat)]
      BY <1>4, <3>1
    <3>3. CASE i \in takers /\ resolver[i] # 0
      BY <1>3, <3>2, <3>3
    <3>4. CASE ~(i \in takers /\ resolver[i] # 0)
      BY <1>3, <1>4, <3>4
    <3> QED
      BY <3>3, <3>4
  <2>2. ASSUME NEW i \in Iterators
        PROVE  queue'[i] \in Seq(Nat)
    <3>1. Append(queue[i], e) \in Seq(Nat)
      BY <1>2, <1>4
    <3>2. CASE i \in takers /\ resolver[i] = 0
      BY <1>3, <3>1, <3>2
    <3>3. CASE ~(i \in takers /\ resolver[i] = 0)
      BY <1>3, <1>4, <3>3
    <3> QED
      BY <3>2, <3>3
  <2>3. \A i \in Iterators : resolver'[i] \in Nat
    BY <1>3, <1>4
  <2> QED
    BY <1>1, <1>2, <1>5, <2>1, <2>2, <2>3 DEF EventsTypeOK
<1>8. WaitInv'
  <2>1. ASSUME NEW i \in Iterators, NEW n \in 1..MaxNexts, n > nexts[i]
        PROVE  given'[i][n] = <<>>
    <3>1. given[i][n] = <<>> /\ n # nexts[i]
      BY <1>1, <1>4, <2>1 DEF WaitInv, Waits
    <3>2. CASE i \in takers /\ resolver[i] # 0
      BY <1>6, <3>1, <3>2
    <3>3. CASE ~(i \in takers /\ resolver[i] # 0)
      BY <1>3, <3>1, <3>3
    <3> QED
      BY <3>2, <3>3
  <2>2. ASSUME NEW i \in Iterators
        PROVE  since[i] <= e
    BY <1>1, <1>2, <1>4 DEF WaitInv, Waits, e
  <2>3. ASSUME NEW i \in Iterators, life[i] = "none"
        PROVE  nexts[i] = 0 /\ resolver'[i] = 0 /\ queue'[i] = <<>>
    BY <1>1, <1>3, <2>3 DEF WaitInv, Waits
  <2>4. ASSUME NEW i \in Iterators, life[i] = "open", resolver'[i] # 0
        PROVE  /\ resolver'[i] = nexts[i] /\ resolver'[i] \in 1..MaxNexts
               /\ given'[i][resolver'[i]] = <<>> /\ queue'[i] = <<>>
    BY <1>1, <1>3, <2>4 DEF WaitInv, Waits
  <2> QED
    BY <1>2, <2>1, <2>2, <2>3, <2>4 DEF WaitInv, Waits
<1>9. OrderInv'
  BY <1>2, PublishOrder DEF OrderInv
<1> QED
  BY <1>7, <1>8, <1>9 DEF EventsInv

(***************************************************************************)
(* A call of next() waits, or is given what follows what was given before. *)
(***************************************************************************)
LEMMA NextCallStep ==
  ASSUME EventsInv, NEW i \in Iterators, Events!NextCall(i)
  PROVE  EventsInv'
<1> DEFINE n == nexts[i] + 1
           g == given[i]
           q == queue[i]
<1>1. EventsTypeOK /\ WaitInv /\ OrderInv
  BY DEF EventsInv
<1>2. /\ g \in [1..MaxNexts -> Seq(Nat)] /\ q \in Seq(Nat)
      /\ n \in Nat /\ n \in 1..MaxNexts /\ nexts[i] \in Nat
      /\ since' = since /\ published' = published /\ life' = life
      /\ nexts' = [nexts EXCEPT ![i] = n]
      /\ life[i] # "none"
  BY <1>1, ServicesAssumption DEF ServicesAssumption, Events!NextCall, EventsTypeOK
<1>3. \A m \in 1..MaxNexts : m >= n => g[m] = <<>>
  BY <1>1, <1>2 DEF WaitInv, Waits
<1>4. Events!Awaited(i)' = Events!Awaited(i)
  BY <1>2, AwaitedKept
<1>5. ASSUME NEW j \in Iterators, j # i,
             given'[j] = given[j], queue'[j] = queue[j], resolver'[j] = resolver[j]
      PROVE  /\ life'[j] = "open" => Ordered(given[j], queue[j], Events!Awaited(j))'
             /\ Waits(j)'
  <2>1. life[j] = "open" => Ordered(given[j], queue[j], Events!Awaited(j))
    BY <1>1 DEF OrderInv
  <2>2. Events!Awaited(j)' = Events!Awaited(j)
    BY <1>2, AwaitedKept
  <2>3. life'[j] = "open" => Ordered(given[j], queue[j], Events!Awaited(j))'
    BY <1>2, <1>5, <2>1, <2>2 DEF Ordered
  <2>4. nexts'[j] = nexts[j] /\ since'[j] = since[j] /\ life'[j] = life[j]
    BY <1>1, <1>2, <1>5 DEF EventsTypeOK
  <2>5. Waits(j)'
    BY <1>1, <1>2, <1>5, <2>4 DEF WaitInv, Waits
  <2> QED
    BY <2>3, <2>5
<1>6. CASE /\ life[i] # "open"
           /\ given' = [given EXCEPT ![i][n] = <<0>>]
           /\ UNCHANGED <<queue, resolver>>
  <2>1. EventsTypeOK'
    BY <1>1, <1>2, <1>6 DEF EventsTypeOK
  <2>2. WaitInv'
    <3>1. /\ Waits(i) /\ given'[i] = [g EXCEPT ![n] = <<0>>] /\ nexts'[i] = n
          /\ queue'[i] = queue[i] /\ resolver'[i] = resolver[i]
      BY <1>1, <1>2, <1>6 DEF EventsTypeOK, WaitInv
    <3>2. Waits(i)'
      BY <1>2, <1>3, <1>6, <3>1 DEF Waits
    <3> QED
      BY <1>1, <1>5, <1>6, <3>2 DEF WaitInv, EventsTypeOK
  <2>3. OrderInv'
    BY <1>1, <1>2, <1>5, <1>6 DEF OrderInv, EventsTypeOK
  <2> QED
    BY <2>1, <2>2, <2>3 DEF EventsInv
<1>7. CASE /\ life[i] = "open" /\ q # <<>>
           /\ given' = [given EXCEPT ![i][n] = <<Head(q)>>]
           /\ queue' = [queue EXCEPT ![i] = Tail(q)]
           /\ UNCHANGED resolver
  <2>1. /\ Head(q) \in Nat /\ Tail(q) \in Seq(Nat) /\ <<Head(q)>> \in Seq(Nat)
        /\ given'[i] = [g EXCEPT ![n] = <<Head(q)>>] /\ queue'[i] = Tail(q)
    BY <1>1, <1>2, <1>7 DEF EventsTypeOK
  <2>2. EventsTypeOK'
    BY <1>1, <1>2, <1>7, <2>1 DEF EventsTypeOK
  <2>3. WaitInv'
    <3>1. Waits(i) /\ nexts'[i] = n /\ resolver'[i] = 0
      BY <1>1, <1>2, <1>7 DEF EventsTypeOK, WaitInv, Waits
    <3>2. Waits(i)'
      BY <1>2, <1>3, <1>7, <2>1, <3>1 DEF Waits
    <3> QED
      BY <1>1, <1>5, <1>7, <3>2 DEF WaitInv, EventsTypeOK
  <2>4. Ordered(given[i], queue[i], Events!Awaited(i))'
    <3>1. Ordered(g, q, Events!Awaited(i))
      BY <1>1, <1>7 DEF OrderInv
    <3> HIDE DEF g, q, n
    <3>2. Ordered([g EXCEPT ![n] = <<Head(q)>>], Tail(q), Events!Awaited(i))
      BY <1>2, <1>3, <1>7, <3>1, OrderedTake
    <3> QED
      BY <1>4, <2>1, <3>2 DEF Ordered
  <2>5. OrderInv'
    BY <1>1, <1>2, <1>5, <1>7, <2>4 DEF OrderInv, EventsTypeOK
  <2> QED
    BY <2>2, <2>3, <2>5 DEF EventsInv
<1>8. CASE /\ life[i] = "open" /\ q = <<>>
           /\ resolver' = [resolver EXCEPT ![i] = n]
           /\ UNCHANGED <<queue, given>>
  <2>1. EventsTypeOK'
    BY <1>1, <1>2, <1>8 DEF EventsTypeOK
  <2>2. WaitInv'
    <3>1. /\ Waits(i) /\ nexts'[i] = n /\ resolver'[i] = n
          /\ given'[i] = g /\ queue'[i] = q
      BY <1>1, <1>2, <1>8 DEF EventsTypeOK, WaitInv
    <3>2. Waits(i)'
      BY <1>2, <1>3, <1>8, <3>1 DEF Waits
    <3> QED
      BY <1>1, <1>5, <1>8, <3>2 DEF WaitInv, EventsTypeOK
  <2>3. Ordered(given[i], queue[i], Events!Awaited(i))'
    BY <1>1, <1>4, <1>8 DEF OrderInv, Ordered
  <2>4. OrderInv'
    BY <1>1, <1>2, <1>5, <1>8, <2>3 DEF OrderInv, EventsTypeOK
  <2> QED
    BY <2>1, <2>2, <2>4 DEF EventsInv
<1> QED
  BY <1>6, <1>7, <1>8 DEF Events!NextCall, Events!Open

(***************************************************************************)
(* No step of an iterator takes it out of order.                           *)
(***************************************************************************)
LEMMA EventsStep == EventsInv /\ [Events!Next]_pubsubVars => EventsInv'
<1> SUFFICES ASSUME EventsInv, [Events!Next]_pubsubVars
             PROVE  EventsInv'
  OBVIOUS
<1>1. CASE Events!Publish
  BY <1>1, PublishStep
<1>2. ASSUME NEW i \in Iterators, Events!CreateAsyncIterator(i)
      PROVE  EventsInv'
  BY <1>2, CreateStep
<1>3. ASSUME NEW i \in Iterators, Events!NextCall(i)
      PROVE  EventsInv'
  BY <1>3, NextCallStep
<1>4. ASSUME NEW i \in Iterators, Events!Return(i)
      PROVE  EventsInv'
  <2>1. EventsTypeOK' /\ WaitInv'
    BY <1>4 DEF EventsInv, EventsTypeOK, WaitInv, Waits, Events!Return, Events!Open
  <2>2. ASSUME NEW j \in Iterators, life'[j] = "open"
        PROVE  Ordered(given[j], queue[j], Events!Awaited(j))'
    <3>1. life[j] = "open" /\ UNCHANGED <<published, since, given, queue>>
      BY <1>4, <2>2 DEF EventsInv, EventsTypeOK, Events!Return
    <3>2. Events!Awaited(j)' = Events!Awaited(j)
      BY <3>1, AwaitedKept
    <3> QED
      BY <3>1, <3>2 DEF EventsInv, OrderInv, Ordered
  <2> QED
    BY <2>1, <2>2 DEF EventsInv, OrderInv
<1>5. CASE UNCHANGED pubsubVars
  <2>1. EventsTypeOK' /\ WaitInv'
    BY <1>5 DEF EventsInv, EventsTypeOK, WaitInv, Waits, pubsubVars
  <2>2. ASSUME NEW j \in Iterators, life[j] = "open"
        PROVE  Ordered(given[j], queue[j], Events!Awaited(j))'
    <3>1. Events!Awaited(j)' = Events!Awaited(j)
      BY <1>5, AwaitedKept DEF pubsubVars
    <3> QED
      BY <1>5, <2>2, <3>1 DEF EventsInv, OrderInv, Ordered, pubsubVars
  <2> QED
    BY <1>5, <2>1, <2>2 DEF EventsInv, OrderInv, pubsubVars
<1> QED
  BY <1>1, <1>2, <1>3, <1>4, <1>5 DEF Events!Next

(***************************************************************************)
(* PubSub.EventsInOrder: what the calls of next() of an open iterator were *)
(* given, and then its queue, are the events that were published since it  *)
(* was made and pass its filter, an earlier call the earlier event.        *)
(***************************************************************************)
THEOREM EventsInOrderCorrect == SSpec => []EventsInOrder
<1>1. SInit => EventsInv
  <2> SUFFICES ASSUME SInit PROVE EventsInv
    OBVIOUS
  <2>1. <<>> \in Seq(Nat) /\ [n \in 1..MaxNexts |-> <<>>] \in [1..MaxNexts -> Seq(Nat)]
    OBVIOUS
  <2>2. EventsTypeOK /\ WaitInv
    BY <2>1 DEF SInit, Events!Init, EventsTypeOK, WaitInv, Waits
  <2>3. OrderInv
    BY DEF SInit, Events!Init, OrderInv
  <2> QED
    BY <2>2, <2>3 DEF EventsInv
<1>2. EventsInv /\ [SNext]_svars => EventsInv'
  <2> SUFFICES ASSUME EventsInv, [SNext]_svars
               PROVE  EventsInv'
    OBVIOUS
  <2>1. CASE SNext
    BY <2>1, EventsStep DEF SNext, Others
  <2>2. CASE UNCHANGED svars
    BY <2>2, EventsStep DEF svars
  <2> QED
    BY <2>1, <2>2
<1>3. EventsInv => EventsInOrder
  BY OrderedEvents DEF EventsInv
<1> QED
  BY <1>1, <1>2, <1>3, PTL DEF SSpec

-----------------------------------------------------------------------------
(***************************************************************************)
(* Queries with includes, whatever the classes, the include trees, the     *)
(* queries and the links are.                                              *)
(***************************************************************************)
TreeOK(tree) ==
  tree \in Seq([field : STRING, under : Nat]) /\ \A i \in DOMAIN tree : tree[i].under < i

(***************************************************************************)
(* A set of numbers that is not empty has a least one.                     *)
(***************************************************************************)
LEMMA LeastNumber ==
  ASSUME NEW T \in SUBSET Nat, T # {}
  PROVE  \E m \in T : \A n \in T : m <= n
<1> DEFINE Below == OpToRel(<, Nat)
<1>1. IsWellFoundedOn(Below, Nat)
  BY NatLessThanWellFounded
<1>2. \A m, n \in Nat : <<n, m>> \in Below <=> n < m
  BY Zenon DEF OpToRel
<1> HIDE DEF Below
<1>3. PICK m \in T : \A n \in T : ~(<<n, m>> \in Below)
  BY <1>1, WFMin
<1>4. ASSUME NEW n \in T PROVE m <= n
  <2>1. ~(<<n, m>> \in Below)
    BY <1>3
  <2>2. m \in Nat /\ n \in Nat
    OBVIOUS
  <2>3. ~(n < m)
    BY <1>2, <2>1, <2>2
  <2> QED
    BY <2>2, <2>3
<1> QED
  BY <1>4

(* The class an include leads to, given the classes f of those before it. *)
TargetBy(c, tree, f, i) ==
  IF i = 0 THEN c
  ELSE IF f[tree[i].under] = None \/ Perspective!RelationOf(f[tree[i].under], tree[i]) = <<>> THEN None
  ELSE Perspective!RelationOf(f[tree[i].under], tree[i])[1].target

(***************************************************************************)
(* What an include leads to depends on the class of its parent only.       *)
(***************************************************************************)
LEMMA SameTarget ==
  ASSUME NEW c, NEW tree, NEW f, NEW g, NEW i, f[tree[i].under] = g[tree[i].under]
  PROVE  TargetBy(c, tree, f, i) = TargetBy(c, tree, g, i)
BY DEF TargetBy

(***************************************************************************)
(* What satisfies the equation of TargetsOf up to an include can be        *)
(* continued to the next one.                                              *)
(***************************************************************************)
LEMMA OneMoreTarget ==
  ASSUME NEW c, NEW tree, TreeOK(tree), NEW m \in 1..Len(tree),
         NEW f, f = [i \in 0..(m - 1) |-> TargetBy(c, tree, f, i)]
  PROVE  \E g : g = [i \in 0..m |-> TargetBy(c, tree, g, i)]
<1> DEFINE g == [i \in 0..m |-> IF i = m THEN TargetBy(c, tree, f, m) ELSE f[i]]
<1>1. DOMAIN g = 0..m /\ g = [i \in 0..m |-> g[i]] /\ m \in 0..m
  OBVIOUS
<1>2. g[m] = TargetBy(c, tree, f, m)
  BY <1>1
<1>3. \A i \in 0..m : i # m => i \in 0..(m - 1) /\ g[i] = f[i]
  OBVIOUS
<1> HIDE DEF g
<1>4. \A i \in 0..m : i # 0 => tree[i].under \in 0..m /\ tree[i].under # m
  <2>1. tree \in Seq([field : STRING, under : Nat]) /\ \A i \in DOMAIN tree : tree[i].under < i
    BY DEF TreeOK
  <2>2. Len(tree) \in Nat /\ DOMAIN tree = 1..Len(tree) /\ tree \in [1..Len(tree) -> [field : STRING, under : Nat]]
    BY <2>1, LenProperties
  <2> QED
    BY <2>1, <2>2
<1>5. ASSUME NEW i \in 0..m PROVE g[i] = TargetBy(c, tree, g, i)
  <2>1. TargetBy(c, tree, f, i) = TargetBy(c, tree, g, i)
    <3>1. CASE i = 0
      BY <3>1 DEF TargetBy
    <3>2. CASE i # 0
      <4>1. g[tree[i].under] = f[tree[i].under]
        BY <1>3, <1>4, <3>2
      <4> QED
        BY <4>1, SameTarget
    <3> QED
      BY <3>1, <3>2
  <2>2. CASE i = m
    BY <1>2, <2>1, <2>2
  <2>3. CASE i # m
    <3>1. f[i] = TargetBy(c, tree, f, i)
      BY <1>3, <2>3
    <3> QED
      BY <1>3, <2>1, <2>3, <3>1
  <2> QED
    BY <2>2, <2>3
<1>6. g = [i \in 0..m |-> TargetBy(c, tree, g, i)]
  BY <1>1, <1>5
<1> QED
  BY <1>6

(***************************************************************************)
(* TargetsOf is defined by the equation it is written with: an include     *)
(* asks for the class of one that comes before it.                         *)
(***************************************************************************)
LEMMA TargetsEquation ==
  ASSUME NEW c, NEW tree, TreeOK(tree)
  PROVE  Perspective!TargetsOf(c, tree) =
           [i \in 0..Len(tree) |-> TargetBy(c, tree, Perspective!TargetsOf(c, tree), i)]
<1> DEFINE n == Len(tree)
           Solves(f, m) == f = [i \in 0..m |-> TargetBy(c, tree, f, i)]
           Unsolved == {m \in 0..n : \A f : ~Solves(f, m)}
<1>1. n \in Nat
  BY LenProperties DEF TreeOK
<1>2. Perspective!TargetsOf(c, tree) = CHOOSE f : Solves(f, n)
  BY DEF Perspective!TargetsOf, TargetBy
<1>3. Unsolved = {}
  <2> SUFFICES ASSUME Unsolved # {} PROVE FALSE
    OBVIOUS
  <2>1. PICK m \in Unsolved : \A k \in Unsolved : m <= k
    <3>1. Unsolved \in SUBSET Nat
      BY <1>1
    <3> HIDE DEF Unsolved
    <3> QED
      BY <3>1, LeastNumber
  <2>2. m \in 0..n /\ \A f : ~Solves(f, m)
    BY <2>1
  <2>3. CASE m = 0
    <3> DEFINE f == [i \in 0..0 |-> c]
    <3>1. f = [i \in 0..0 |-> TargetBy(c, tree, f, i)]
      BY DEF TargetBy
    <3> QED
      BY <2>2, <2>3, <3>1
  <2>4. CASE m # 0
    <3>1. m - 1 \in 0..n /\ m - 1 \notin Unsolved
      BY <1>1, <2>1, <2>2, <2>4
    <3>2. PICK f : Solves(f, m - 1)
      BY <3>1
    <3>3. \E g : Solves(g, m)
      <4>1. m \in 1..n
        BY <1>1, <2>2, <2>4
      <4> QED
        BY <3>2, <4>1, OneMoreTarget
    <3> QED
      BY <2>2, <3>3
  <2> QED
    BY <2>3, <2>4
<1>4. PICK f : Solves(f, n)
  BY <1>1, <1>3
<1>5. Solves(Perspective!TargetsOf(c, tree), n)
  <2> HIDE DEF Solves
  <2> QED
    BY <1>2, <1>4
<1> QED
  BY <1>5

(***************************************************************************)
(* An include that remains is nested under one that remains, or under the  *)
(* root, and is a relation of the class there.                             *)
(***************************************************************************)
LEMMA TargetsRemain ==
  ASSUME NEW c, NEW tree, TreeOK(tree), NEW target, target = Perspective!TargetsOf(c, tree)
  PROVE  /\ Len(tree) \in Nat /\ DOMAIN tree = 1..Len(tree)
         /\ target[0] = c
         /\ \A i \in 1..Len(tree) : tree[i].under \in 0..(i - 1)
         /\ \A i \in 1..Len(tree) : target[i] # None =>
              /\ target[tree[i].under] # None
              /\ Perspective!RelationOf(target[tree[i].under], tree[i]) # <<>>
<1>1. tree \in Seq([field : STRING, under : Nat]) /\ \A i \in DOMAIN tree : tree[i].under < i
  BY DEF TreeOK
<1> DEFINE n == Len(tree)
<1>2. n \in Nat /\ DOMAIN tree = 1..n /\ tree \in [1..n -> [field : STRING, under : Nat]]
  BY <1>1, LenProperties
<1>3. target = [i \in 0..n |-> TargetBy(c, tree, target, i)]
  BY TargetsEquation
<1> HIDE DEF n
<1>4. \A i \in 0..n : target[i] = TargetBy(c, tree, target, i)
  BY <1>3
<1>5. target[0] = c
  BY <1>2, <1>4 DEF TargetBy
<1>6. \A i \in 1..n : tree[i].under \in 0..(i - 1)
  BY <1>1, <1>2
<1>7. ASSUME NEW i \in 1..n, target[i] # None
      PROVE  /\ target[tree[i].under] # None
             /\ Perspective!RelationOf(target[tree[i].under], tree[i]) # <<>>
  <2>1. target[i] = TargetBy(c, tree, target, i) /\ i # 0
    BY <1>2, <1>4
  <2> QED
    BY <1>7, <2>1 DEF TargetBy
<1> QED
  BY <1>2, <1>5, <1>6, <1>7 DEF n

(***************************************************************************)
(* The cardinality of the instance is that of the library.                 *)
(***************************************************************************)
LEMMA SameCardinality ==
  ASSUME NEW S
  PROVE  Perspective!Cardinality(S) = Cardinality(S)
BY DEF Perspective!Cardinality, Cardinality

(***************************************************************************)
(* An include that remains has a greater depth than what comes before it.  *)
(***************************************************************************)
LEMMA DepthIncreases ==
  ASSUME NEW target, NEW i \in Nat, NEW k \in Nat, k < i, target[i] # None
  PROVE  /\ Perspective!DepthOf(target, k) \in Nat /\ Perspective!DepthOf(target, i) \in Nat
         /\ Perspective!DepthOf(target, k) < Perspective!DepthOf(target, i)
<1> DEFINE A == {j \in 1..k : target[j] # None}
           B == {j \in 1..i : target[j] # None}
<1>1. IsFiniteSet(1..i)
  BY FS_Interval
<1>2. IsFiniteSet(B)
  BY <1>1, FS_Subset
<1>3. A \subseteq B /\ i \in B /\ i \notin A
  OBVIOUS
<1> HIDE DEF A, B
<1>4. A \in SUBSET B /\ A # B
  BY <1>3
<1>5. IsFiniteSet(A) /\ Cardinality(A) <= Cardinality(B) /\ Cardinality(A) # Cardinality(B)
  <2>1. /\ IsFiniteSet(A)
        /\ Cardinality(A) <= Cardinality(B)
        /\ Cardinality(B) = Cardinality(A) => B = A
    BY <1>2, <1>4, FS_Subset, Zenon
  <2> QED
    BY <1>4, <2>1, Zenon
<1>6. Cardinality(A) \in Nat /\ Cardinality(B) \in Nat
  BY <1>2, <1>5, FS_CardinalityType
<1>7. /\ Perspective!DepthOf(target, k) = Cardinality(A)
      /\ Perspective!DepthOf(target, i) = Cardinality(B)
  BY SameCardinality DEF Perspective!DepthOf, A, B
<1> QED
  BY <1>5, <1>6, <1>7

(***************************************************************************)
(* The root has depth 0.                                                   *)
(***************************************************************************)
LEMMA DepthOfRoot ==
  ASSUME NEW target
  PROVE  Perspective!DepthOf(target, 0) = 0
<1> DEFINE E == {j \in 1..0 : target[j] # None}
<1>1. E = {}
  OBVIOUS
<1>2. Perspective!DepthOf(target, 0) = Cardinality(E)
  BY SameCardinality DEF Perspective!DepthOf
<1> HIDE DEF E
<1> QED
  BY <1>1, <1>2, FS_EmptySet

(***************************************************************************)
(* The branches: one has the depth of its own, a parent at a smaller one,  *)
(* and is a relation of the class there.                                   *)
(***************************************************************************)
LEMMA BranchOf ==
  ASSUME NEW c, NEW tree, TreeOK(tree), NEW branches, branches = Perspective!Flattened(c, tree),
         NEW br \in branches
  PROVE  /\ br.depth \in Nat /\ br.parent \in Nat /\ br.parent < br.depth
         /\ \A other \in branches : other.depth = br.depth => other = br
         /\ LET named == Perspective!Named(Perspective!RelationsMetadata(
                           Perspective!ClassAt(c, branches, br.parent)), br.field)
            IN named # <<>> /\ named[1] = br.relation
<1> DEFINE target == Perspective!TargetsOf(c, tree)
           kept == {j \in DOMAIN tree : target[j] # None}
           branch(i) ==
             [depth |-> Perspective!DepthOf(target, i),
              parent |-> Perspective!DepthOf(target, tree[i].under),
              class |-> target[i], field |-> tree[i].field,
              relation |-> Perspective!RelationOf(target[tree[i].under], tree[i])[1]]
<1>1. branches = {branch(i) : i \in kept}
  BY DEF Perspective!Flattened
<1> HIDE DEF target
<1>2. /\ Len(tree) \in Nat /\ DOMAIN tree = 1..Len(tree) /\ target[0] = c
      /\ \A i \in 1..Len(tree) : tree[i].under \in 0..(i - 1)
      /\ \A i \in 1..Len(tree) : target[i] # None =>
           /\ target[tree[i].under] # None
           /\ Perspective!RelationOf(target[tree[i].under], tree[i]) # <<>>
  BY TargetsRemain DEF target
<1>3. \A i \in kept : i \in Nat /\ i # 0 /\ target[i] # None /\ tree[i].under \in Nat /\ tree[i].under < i
  BY <1>2
<1>4. PICK i \in kept : br = branch(i)
  BY <1>1
<1>5. /\ br.depth = Perspective!DepthOf(target, i)
      /\ br.parent = Perspective!DepthOf(target, tree[i].under)
      /\ br.field = tree[i].field
      /\ br.relation = Perspective!RelationOf(target[tree[i].under], tree[i])[1]
  BY <1>4
<1>6. br.depth \in Nat /\ br.parent \in Nat /\ br.parent < br.depth
  BY <1>3, <1>5, DepthIncreases
<1>7. \A j, k \in kept : Perspective!DepthOf(target, j) = Perspective!DepthOf(target, k) => j = k
  <2>1. ASSUME NEW j \in kept, NEW k \in kept, j < k
        PROVE  Perspective!DepthOf(target, j) # Perspective!DepthOf(target, k)
    <3>1. j \in Nat /\ k \in Nat /\ target[k] # None
      BY <1>3
    <3>2. /\ Perspective!DepthOf(target, j) \in Nat /\ Perspective!DepthOf(target, k) \in Nat
          /\ Perspective!DepthOf(target, j) < Perspective!DepthOf(target, k)
      BY <2>1, <3>1, DepthIncreases
    <3> QED
      BY <3>2
  <2>2. \A j, k \in kept : j < k \/ k < j \/ j = k
    BY <1>3
  <2> QED
    BY <2>1, <2>2
<1>8. ASSUME NEW other \in branches, other.depth = br.depth PROVE other = br
  <2>1. PICK k \in kept : other = branch(k)
    BY <1>1
  <2>2. k = i
    BY <1>5, <1>7, <1>8, <2>1
  <2> QED
    BY <1>4, <2>1, <2>2
<1>9. Perspective!ClassAt(c, branches, br.parent) = target[tree[i].under]
  <2>1. CASE tree[i].under = 0
    BY <1>2, <1>5, <2>1, DepthOfRoot DEF Perspective!ClassAt, Perspective!RootDepth
  <2>2. CASE tree[i].under # 0
    <3> DEFINE u == tree[i].under
    <3>1. u \in kept
      BY <1>2, <1>3, <2>2
    <3> DEFINE above == branch(u)
    <3>2. above \in branches /\ above.depth = br.parent /\ above.class = target[u]
      BY <1>1, <1>5, <3>1
    <3>3. \A other \in branches : other.depth = br.parent => other.class = target[u]
      <4>1. ASSUME NEW other \in branches, other.depth = br.parent PROVE other.class = target[u]
        <5>1. PICK k \in kept : other = branch(k)
          BY <1>1
        <5>2. k = u
          BY <1>5, <1>7, <3>1, <4>1, <5>1
        <5> QED
          BY <5>1, <5>2
      <4> QED
        BY <4>1
    <3>4. br.parent # 0
      <4>1. u \in Nat /\ 0 < u /\ target[u] # None
        BY <1>3, <3>1
      <4>2. Perspective!DepthOf(target, 0) < Perspective!DepthOf(target, u)
        BY <4>1, DepthIncreases
      <4> QED
        BY <1>5, <4>2, DepthOfRoot
    <3> HIDE DEF above, u
    <3>5. (CHOOSE b \in branches : b.depth = br.parent).class = target[u]
      BY <3>2, <3>3
    <3> QED
      BY <3>4, <3>5 DEF Perspective!ClassAt, Perspective!RootDepth, u
  <2> QED
    BY <2>1, <2>2
<1>10. Perspective!RelationOf(target[tree[i].under], tree[i]) # <<>>
  BY <1>2
<1> QED
  BY <1>5, <1>6, <1>8, <1>9, <1>10 DEF Perspective!RelationOf

(***************************************************************************)
(* A row at the depth of a branch was found by it.                         *)
(***************************************************************************)
LEMMA RowOfBranch ==
  ASSUME NEW c, NEW tree, TreeOK(tree), NEW branches, branches = Perspective!Flattened(c, tree),
         NEW q, NEW ls, NEW rows, rows = Perspective!BatchRows(c, q, branches, ls),
         NEW br \in branches, NEW r \in rows, br.depth = r.depth
  PROVE  r.field = br.field
<1> DEFINE T == Perspective!Triples(ls)
           subjects == {t[1] : t \in T}
           ofRoot == Perspective!Demanded(c)
           pairs(b) == {u \in Perspective!Led(T, b.relation) :
                          /\ u[2] \in subjects
                          /\ Perspective!Conforms(T, Perspective!Demanded(b.class), u[2])
                          /\ b.parent = Perspective!RootDepth => Perspective!IsRoot(T, c, ofRoot, q, u[1])}
           row(b, u) == [depth |-> b.depth, parent |-> u[1], field |-> b.field, source |-> u[2]]
           root(b) == [depth |-> Perspective!RootDepth, parent |-> None, field |-> None, source |-> b]
           roots == {root(b) : b \in {s \in subjects : Perspective!IsRoot(T, c, ofRoot, q, s)}}
<1>1. rows = roots \cup (UNION {{row(b, u) : u \in pairs(b)} : b \in branches})
  BY DEF Perspective!BatchRows
<1> HIDE DEF T, subjects, ofRoot, pairs
<1>2. r \notin roots
  <2>1. \A b : root(b).depth = 0
    BY DEF Perspective!RootDepth
  <2>2. br.depth # 0
    BY BranchOf
  <2> QED
    BY <2>1, <2>2
<1>3. PICK b \in branches : r \in {row(b, u) : u \in pairs(b)}
  <2> HIDE DEF roots, row
  <2> QED
    BY <1>1, <1>2
<1>4. r.depth = b.depth /\ r.field = b.field
  BY <1>3
<1>5. b = br
  BY <1>4, BranchOf
<1> QED
  BY <1>4, <1>5

(***************************************************************************)
(* A group at each depth and source of a row, and it is a row there.       *)
(***************************************************************************)
LEMMA GroupOf ==
  ASSUME NEW rows, NEW groups \in Perspective!Groups(rows)
  PROVE  /\ groups \subseteq rows
         /\ \A r \in rows : \E g \in groups : g.depth = r.depth /\ g.source = r.source
<1> DEFINE keys == {<<r.depth, r.source>> : r \in rows}
           of(k) == {r \in rows : <<r.depth, r.source>> = k}
<1>1. PICK first \in {f \in [keys -> rows] : \A k \in keys : f[k] \in of(k)} :
        groups = {first[k] : k \in keys}
  BY DEF Perspective!Groups
<1>2. groups \subseteq rows
  BY <1>1
<1>3. ASSUME NEW r \in rows PROVE \E g \in groups : g.depth = r.depth /\ g.source = r.source
  <2> DEFINE k == <<r.depth, r.source>>
  <2>1. k \in keys
    OBVIOUS
  <2>2. first[k] \in groups /\ first[k] \in of(k)
    BY <1>1, <2>1
  <2>3. <<first[k].depth, first[k].source>> = <<r.depth, r.source>>
    BY <2>2
  <2> QED
    BY <2>2, <2>3
<1> QED
  BY <1>2, <1>3

(***************************************************************************)
(* The wiring of one instance, whichever row of others comes first.        *)
(***************************************************************************)
LEMMA WiredToParent ==
  ASSUME NEW c, NEW tree, TreeOK(tree), NEW branches, branches = Perspective!Flattened(c, tree),
         NEW q, NEW ls, NEW rows, rows = Perspective!BatchRows(c, q, branches, ls),
         NEW br \in branches, NEW r \in rows, br.depth = r.depth,
         {o \in rows : o.source = r.source} = {r},
         {o.depth : o \in {p \in rows : p.source = r.parent}} = {br.parent},
         Perspective!One(br.relation) => {o \in rows : o.parent = r.parent /\ o.field = r.field} = {r},
         NEW wired \in Perspective!BatchAnswers(c, branches, rows)
  PROVE  \E w \in wired : w.child = r /\ w.parent.source = r.parent /\ w.parent.depth = br.parent
<1>1. PICK groups \in Perspective!Groups(rows) :
        wired \in Perspective!Standing(c, branches, Perspective!Wired(c, branches, groups))
  BY DEF Perspective!BatchAnswers
<1>2. /\ groups \subseteq rows
      /\ \A o \in rows : \E g \in groups : g.depth = o.depth /\ g.source = o.source
  BY GroupOf
<1>3. r \in groups
  BY <1>2
<1>4. \A o \in rows : o.source = r.parent => o.depth = br.parent
  OBVIOUS
<1>5. PICK p \in groups : p.source = r.parent /\ p.depth = br.parent
  <2>1. PICK o \in rows : o.source = r.parent /\ o.depth = br.parent
    OBVIOUS
  <2> QED
    BY <1>2, <2>1
<1>6. br.depth \in Nat /\ br.parent \in Nat /\ br.parent < br.depth
  BY BranchOf
<1> DEFINE named == Perspective!Named(Perspective!RelationsMetadata(
                      Perspective!ClassAt(c, branches, br.parent)), br.field)
<1>7. named # <<>> /\ named[1] = br.relation
  BY BranchOf
<1>8. r.field = br.field
  BY RowOfBranch
<1> DEFINE w == [parent |-> p, child |-> r, field |-> r.field]
           W == Perspective!Wired(c, branches, groups)
<1>9. w \in W
  <2>1. w \in {[parent |-> o, child |-> g, field |-> g.field] : o \in groups, g \in groups}
    <3>1. p \in groups /\ r \in groups
      BY <1>3, <1>5
    <3> DEFINE pair(o, g) == [parent |-> o, child |-> g, field |-> g.field]
    <3>2. w = pair(p, r)
      OBVIOUS
    <3> HIDE DEF pair, w
    <3>3. w \in {pair(o, g) : o \in groups, g \in groups}
      BY <3>1, <3>2
    <3> QED
      BY <3>3 DEF pair
  <2>2. w.parent.depth < w.child.depth /\ w.parent.source = w.child.parent
    BY <1>5, <1>6
  <2>3. \A o \in groups : o.source = w.child.parent /\ o.depth < w.child.depth
          => o.depth <= w.parent.depth
    BY <1>2, <1>4, <1>5, <1>6
  <2>4. Perspective!Named(Perspective!RelationsMetadata(
          Perspective!ClassAt(c, branches, w.parent.depth)), w.field) # <<>>
    BY <1>5, <1>7, <1>8
  <2> HIDE DEF w
  <2> QED
    BY <2>1, <2>2, <2>3, <2>4 DEF Perspective!Wired
<1>10. w \in wired
  <2> DEFINE single(v) == Perspective!One(Perspective!Named(Perspective!RelationsMetadata(
                            Perspective!ClassAt(c, branches, v.parent.depth)), v.field)[1])
             rivals(v) == {o \in W : o.parent = v.parent /\ o.field = v.field}
  <2>1. IF single(w) THEN Cardinality(wired \cap rivals(w)) = 1 ELSE w \in wired
    BY <1>1, <1>9, SameCardinality DEF Perspective!Standing
  <2>2. CASE single(w)
    <3>1. Perspective!One(br.relation)
      BY <1>5, <1>7, <1>8, <2>2
    <3>2. \A o \in rows : o.parent = r.parent /\ o.field = r.field => o = r
      BY <3>1
    <3>3. ASSUME NEW v \in rivals(w) PROVE v = w
      <4>1. PICK o \in groups, g \in groups :
              v = [parent |-> o, child |-> g, field |-> g.field] /\ o.source = g.parent
        BY DEF Perspective!Wired
      <4>2. o = p /\ g.field = r.field
        BY <4>1
      <4>3. g = r
        BY <1>2, <1>5, <3>2, <4>1, <4>2
      <4> QED
        BY <4>1, <4>2, <4>3
    <3> DEFINE K == wired \cap rivals(w)
    <3>4. K # {}
      <4>1. Cardinality(K) = 1
        BY <2>1, <2>2
      <4> HIDE DEF K
      <4> QED
        BY <4>1, FS_EmptySet
    <3> QED
      BY <3>3, <3>4
  <2> QED
    BY <2>1, <2>2
<1> QED
  BY <1>5, <1>10

(***************************************************************************)
(* The classes that are defined are those of the order.                    *)
(***************************************************************************)
DefinedInv == defined \subseteq {Order[i] : i \in DOMAIN Order}

(***************************************************************************)
(* Only DefineClass defines a class, one of the order.                     *)
(***************************************************************************)
LEMMA DefinedStep == DefinedInv /\ [Perspective!Next]_subjectVars => DefinedInv'
<1> SUFFICES ASSUME DefinedInv, [Perspective!Next]_subjectVars PROVE DefinedInv'
  OBVIOUS
<1>1. ASSUME NEW i \in DOMAIN Order, Perspective!DefineClass(i) PROVE DefinedInv'
  <2>1. defined' \subseteq defined \cup {Order[i]}
    BY <1>1 DEF Perspective!DefineClass, Perspective!Define, Perspective!FromJSONSchema,
                Perspective!Decorate
  <2> QED
    BY <2>1 DEF DefinedInv
<1>2. ASSUME defined' = defined PROVE DefinedInv'
  BY <1>2 DEF DefinedInv
<1>3. ASSUME NEW c \in Sought, Perspective!Find(c) PROVE DefinedInv'
  BY <1>2, <1>3 DEF Perspective!Find, Perspective!metadataVars
<1>4. ASSUME NEW b \in Bases, Perspective!Delete(b) PROVE DefinedInv'
  BY <1>2, <1>4 DEF Perspective!Delete, Perspective!metadataVars
<1>5. ASSUME NEW m \in Made, Perspective!Create(m.class, m.base, m.data) PROVE DefinedInv'
  BY <1>2, <1>5 DEF Perspective!Create, Perspective!metadataVars
<1>6. ASSUME NEW t \in Settings, Perspective!SetSingleTarget(t.class, t.base, t.datum)
      PROVE  DefinedInv'
  BY <1>2, <1>6 DEF Perspective!SetSingleTarget, Perspective!metadataVars
<1>7. ASSUME NEW l \in Offered, Perspective!AddLink(l[1], l[2], l[3]) PROVE DefinedInv'
  BY <1>2, <1>7 DEF Perspective!AddLink, Perspective!metadataVars
<1>8. ASSUME NEW i \in DOMAIN graph, Perspective!RemoveLink(i) PROVE DefinedInv'
  BY <1>2, <1>8 DEF Perspective!RemoveLink, Perspective!metadataVars
<1>9. CASE Perspective!ShapeComes \/ Perspective!LoadShapes
  BY <1>2, <1>9 DEF Perspective!ShapeComes, Perspective!LoadShapes, Perspective!metadataVars
<1>10. CASE UNCHANGED subjectVars
  BY <1>2, <1>10 DEF subjectVars
<1> QED
  BY <1>1, <1>3, <1>4, <1>5, <1>6, <1>7, <1>8, <1>9, <1>10 DEF Perspective!Next

(***************************************************************************)
(* Whatever the classes and their relations, the trees of includes, the    *)
(* queries and the links are, and whichever row of a query comes first: an *)
(* instance that is found once, under one parent that is also found, is    *)
(* wired to this parent (buildBatchSPARQLQuery, hydrateBatchResult).       *)
(***************************************************************************)
THEOREM IncludesWiredCorrect == SSpec => []IncludesWired
<1>1. SInit => DefinedInv
  BY DEF SInit, LInit, Perspective!Init, Perspective!MInit, DefinedInv
<1>2. DefinedInv /\ [SNext]_svars => DefinedInv'
  <2>1. [SNext]_svars => [Perspective!Next]_subjectVars
    BY DEF SNext, LNext, Others, svars, lvars, subjectVars
  <2> QED
    BY <2>1, DefinedStep
<1>3. DefinedInv => IncludesWired
  <2> SUFFICES ASSUME DefinedInv PROVE IncludesWired
    OBVIOUS
  <2>1. \A c \in defined : \A tree \in Trees[c] : TreeOK(tree)
    BY TreesAssumption DEF DefinedInv, TreeOK
  <2>2. ASSUME NEW c \in defined, NEW tree \in Trees[c], NEW q
        PROVE  LET branches == Perspective!Flattened(c, tree)
               IN Perspective!RowsWired(c, branches, Perspective!BatchRows(c, q, branches, graph))
    BY <2>1, WiredToParent DEF Perspective!RowsWired
  <2> QED
    BY <2>2 DEF IncludesWired, Perspective!IncludesWired
<1> QED
  BY <1>1, <1>2, <1>3, PTL DEF SSpec
=============================================================================
