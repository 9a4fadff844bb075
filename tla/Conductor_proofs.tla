-------------------------- MODULE Conductor_proofs --------------------------
(***************************************************************************)
(* For any number of calls, connections and retries: no retry is under     *)
(* preparation after disconnect(), a connected conductor leaves nothing in *)
(* the queue, a call is only given up when every retry was made, and a     *)
(* connected conductor is replaced only after connects that overlapped.    *)
(***************************************************************************)
EXTENDS MCConductor, TLAPS

(***************************************************************************)
(* What a step may assume of the WebSocket conductors.                     *)
(***************************************************************************)
InnersTypeOK ==
  /\ inner \in Inners
  /\ conn \in [Inners -> ConnectionState]
  /\ attempts \subseteq [on : Inners, by : Connects \cup {Timer}]

QueueInv == InnersTypeOK /\ NothingWaitsConnected

(***************************************************************************)
(* scheduleReconnect leaves the queue alone or empties it, and sets a      *)
(* timer only while a connection is wanted.                                *)
(***************************************************************************)
LEMMA ScheduleReconnectQueue ==
  ScheduleReconnect => queue' = queue \/ queue' = <<>>
BY DEF ScheduleReconnect, callVars

LEMMA ScheduleReconnectTimer ==
  ScheduleReconnect => timer' = timer \/ (timer' /\ config)
BY DEF ScheduleReconnect

(***************************************************************************)
(* drainQueue leaves nothing in the queue.                                 *)
(***************************************************************************)
LEMMA DrainQueueEmpties == DrainQueue => queue' = <<>>
BY DEF DrainQueue

-----------------------------------------------------------------------------
(***************************************************************************)
(* The timer of a retry is only ever set for a user who wants a            *)
(* connection: disconnect() clears it, and an attempt that fails later     *)
(* does not set it again (scheduleReconnect, disconnect).                  *)
(***************************************************************************)
THEOREM NoRetryUnwantedCorrect == Spec => []NoRetryUnwanted
<1>1. Init => NoRetryUnwanted
  BY DEF Init, NoRetryUnwanted
<1>2. NoRetryUnwanted /\ [Next]_vars => NoRetryUnwanted'
  <2> SUFFICES ASSUME NoRetryUnwanted, [Next]_vars
               PROVE  NoRetryUnwanted'
    OBVIOUS
  <2> USE DEF NoRetryUnwanted
  <2>1. ASSUME NEW k \in Connects, Connect(k)
        PROVE  NoRetryUnwanted'
    BY <2>1 DEF Connect
  <2>2. ASSUME NEW a \in attempts, Opens(a)
        PROVE  NoRetryUnwanted'
    BY <2>2 DEF Opens
  <2>3. ASSUME NEW a \in attempts, Fails(a)
        PROVE  NoRetryUnwanted'
    BY <2>3, ScheduleReconnectTimer DEF Fails
  <2>4. CASE TimerFires
    BY <2>4 DEF TimerFires
  <2>5. CASE Disconnect
    BY <2>5 DEF Disconnect
  <2>6. CASE InstallApp
    BY <2>6 DEF InstallApp
  <2>7. ASSUME NEW i \in Inners, InstallAnswered(i) \/ AppOpens(i) \/ InstallFails(i)
        PROVE  NoRetryUnwanted'
    BY <2>7 DEF InstallAnswered, AppOpens, InstallFails
  <2>8. ASSUME NEW c \in Calls, CallZome(c) \/ Signed(c) \/ Answered(c) \/ TimesOut(c)
        PROVE  NoRetryUnwanted'
    BY <2>8 DEF CallZome, Signed, Answered, TimesOut, connVars
  <2>9. CASE UNCHANGED vars
    BY <2>9 DEF vars, connVars
  <2> QED
    BY <2>1, <2>2, <2>3, <2>4, <2>5, <2>6, <2>7, <2>8, <2>9 DEF Next
<1> QED
  BY <1>1, <1>2, PTL DEF Spec

(***************************************************************************)
(* Every way to become connected drains the queue, and a connected         *)
(* conductor queues no call (the two state handlers, callZome).  The type  *)
(* of the conductors is needed to know whose state a step changes.         *)
(***************************************************************************)
LEMMA QueueStep == QueueInv /\ [Next]_vars => QueueInv'
<1> SUFFICES ASSUME QueueInv, [Next]_vars
             PROVE  QueueInv'
  OBVIOUS
<1> USE DEF QueueInv, InnersTypeOK, NothingWaitsConnected, ConnectionState
<1>1. ASSUME NEW k \in Connects, Connect(k)
      PROVE  QueueInv'
  BY <1>1 DEF Connect, callVars
<1>2. ASSUME NEW a \in attempts, Opens(a)
      PROVE  QueueInv'
  BY <1>2, DrainQueueEmpties DEF Opens
<1>3. ASSUME NEW a \in attempts, Fails(a)
      PROVE  QueueInv'
  BY <1>3, ScheduleReconnectQueue DEF Fails
<1>4. CASE TimerFires
  <2>1. inner' \in Inners
    BY <1>4, ConductorAssumption DEF ConductorAssumption, TimerFires, Inners
  <2>2. conn' \in [Inners -> ConnectionState] /\ conn'[inner'] = "Connecting"
    BY <1>4, <2>1 DEF TimerFires
  <2>3. attempts' \subseteq [on : Inners, by : Connects \cup {Timer}]
    BY <1>4, <2>1 DEF TimerFires
  <2> QED
    BY <2>1, <2>2, <2>3
<1>5. CASE Disconnect
  BY <1>5 DEF Disconnect
<1>6. CASE InstallApp
  BY <1>6 DEF InstallApp, callVars
<1>7. ASSUME NEW i \in Inners, InstallAnswered(i) \/ AppOpens(i) \/ InstallFails(i)
      PROVE  QueueInv'
  BY <1>7 DEF InstallAnswered, AppOpens, InstallFails, callVars
<1>8. ASSUME NEW c \in Calls, CallZome(c) \/ Signed(c) \/ Answered(c) \/ TimesOut(c)
      PROVE  QueueInv'
  BY <1>8 DEF CallZome, Signed, Answered, TimesOut, connVars
<1>9. CASE UNCHANGED vars
  BY <1>9 DEF vars, connVars, callVars
<1> QED
  BY <1>1, <1>2, <1>3, <1>4, <1>5, <1>6, <1>7, <1>8, <1>9 DEF Next

(***************************************************************************)
(* The conductors in use and those being connected exist, in every state.  *)
(***************************************************************************)
LEMMA QueueInvariant == Spec => []QueueInv
<1>1. Init => QueueInv
  BY ConductorAssumption
  DEF ConductorAssumption, Init, QueueInv, InnersTypeOK, NothingWaitsConnected, Inners,
      ConnectionState
<1> QED
  BY <1>1, QueueStep, PTL DEF Spec

(***************************************************************************)
(* A connected conductor leaves nothing in the queue, in every state.      *)
(***************************************************************************)
THEOREM NothingWaitsCorrect == Spec => []NothingWaitsConnected
<1>1. QueueInv => NothingWaitsConnected
  BY DEF QueueInv
<1> QED
  BY <1>1, QueueInvariant, PTL

-----------------------------------------------------------------------------
(* The properties of histories.                                            *)

(***************************************************************************)
(* The history variables watch: with them the conductor does what it does  *)
(* without.                                                                *)
(***************************************************************************)
LEMMA HistoryWatches == HSpec => Spec
<1>1. HInit => Init
  BY DEF HInit
<1>2. [HNext]_hvars => [Next]_vars
  BY DEF HNext, hvars
<1> QED
  BY <1>1, <1>2, PTL DEF HSpec, Spec

(***************************************************************************)
(* The types of what the retries count, for any number of retries.         *)
(***************************************************************************)
CountTypeOK == retryCount \in Nat /\ tries \in Nat

(***************************************************************************)
(* A step settles a call as exhausted only when scheduleReconnect gives    *)
(* the queue up.                                                           *)
(***************************************************************************)
LEMMA SettleExhausts ==
  ASSUME NEW s, NEW how, NEW ds, Settle(s, how, ds), how # "exhausted",
         NEW c \in Calls, call[c] # "exhausted"
  PROVE  call'[c] # "exhausted"
BY DEF Settle

(***************************************************************************)
(* Every call is somewhere.                                                *)
(***************************************************************************)
CallTypeOK == call \in [Calls -> CallPc]

LEMMA SettleType ==
  ASSUME CallTypeOK, NEW s, NEW how \in CallPc, NEW ds, Settle(s, how, ds)
  PROVE  CallTypeOK'
<1>1. {"signing", "draining", "no app"} \subseteq CallPc
  BY DEF CallPc, Settled
<1> QED
  BY <1>1 DEF CallTypeOK, Settle

LEMMA CallTyped == Spec => []CallTypeOK
<1>1. Init => CallTypeOK
  BY DEF Init, CallTypeOK, CallPc
<1>2. CallTypeOK /\ [Next]_vars => CallTypeOK'
  <2> SUFFICES ASSUME CallTypeOK, [Next]_vars PROVE CallTypeOK'
    OBVIOUS
  <2> USE DEF CallPc, Settled
  <2>1. ASSUME NEW k \in Connects, Connect(k) PROVE CallTypeOK'
    BY <2>1 DEF Connect, callVars, CallTypeOK
  <2>2. ASSUME NEW a \in attempts, Opens(a) PROVE CallTypeOK'
    BY <2>2, SettleType DEF Opens, DrainQueue
  <2>3. ASSUME NEW a \in attempts, Fails(a) PROVE CallTypeOK'
    <3>1. CallTypeOK' \/ Settle(ToSet(queue), "exhausted", drains)
      BY <2>3 DEF Fails, ScheduleReconnect, callVars, CallTypeOK
    <3> QED
      BY <3>1, SettleType
  <2>4. CASE TimerFires \/ InstallApp
    BY <2>4 DEF TimerFires, InstallApp, callVars, CallTypeOK
  <2>5. CASE Disconnect
    BY <2>5, SettleType DEF Disconnect
  <2>6. ASSUME NEW i \in Inners, InstallAnswered(i) \/ AppOpens(i) \/ InstallFails(i)
        PROVE  CallTypeOK'
    BY <2>6 DEF InstallAnswered, AppOpens, InstallFails, callVars, CallTypeOK
  <2>7. ASSUME NEW c \in Calls, CallZome(c) PROVE CallTypeOK'
    BY <2>7 DEF CallZome, CallTypeOK
  <2>8. ASSUME NEW c \in Calls, Signed(c) PROVE CallTypeOK'
    <3>1. CASE app[on[c]]
      BY <2>8, <3>1 DEF Signed, CallTypeOK
    <3>2. CASE ~app[on[c]]
      BY <2>8, <3>2, SettleType DEF Signed
    <3> QED
      BY <3>1, <3>2
  <2>9. ASSUME NEW c \in Calls, Answered(c) \/ TimesOut(c) PROVE CallTypeOK'
    BY <2>9, SettleType DEF Answered, TimesOut
  <2>10. CASE UNCHANGED vars
    BY <2>10 DEF vars, callVars, CallTypeOK
  <2> QED
    BY <2>1, <2>2, <2>3, <2>4, <2>5, <2>6, <2>7, <2>8, <2>9, <2>10 DEF Next
<1> QED
  BY <1>1, <1>2, PTL DEF Spec

LEMMA OnlyGivenUp ==
  ASSUME Next, NEW c \in Calls, call[c] # "exhausted", call'[c] = "exhausted",
         CallTypeOK
  PROVE  ~timer /\ config /\ ~(retryCount < MaxRetries)
<1>1. ASSUME NEW k \in Connects, Connect(k) PROVE FALSE
  BY <1>1 DEF Connect, callVars
<1>2. ASSUME NEW a \in attempts, Opens(a) PROVE FALSE
  BY <1>2, SettleExhausts DEF Opens, DrainQueue
<1>3. ASSUME NEW a \in attempts, Fails(a)
      PROVE  ~timer /\ config /\ ~(retryCount < MaxRetries)
  BY <1>3 DEF Fails, ScheduleReconnect, callVars
<1>4. ASSUME TimerFires \/ InstallApp PROVE FALSE
  BY <1>4 DEF TimerFires, InstallApp, callVars
<1>5. ASSUME Disconnect PROVE FALSE
  BY <1>5, SettleExhausts DEF Disconnect
<1>6. ASSUME NEW i \in Inners, InstallAnswered(i) \/ AppOpens(i) \/ InstallFails(i)
      PROVE  FALSE
  BY <1>6 DEF InstallAnswered, AppOpens, InstallFails, callVars
<1>7. ASSUME NEW d \in Calls, CallZome(d) PROVE FALSE
  BY <1>7 DEF CallZome, CallTypeOK
<1>8. ASSUME NEW d \in Calls, Signed(d) PROVE FALSE
  BY <1>8, SettleExhausts DEF Signed, CallTypeOK
<1>9. ASSUME NEW d \in Calls, Answered(d) \/ TimesOut(d) PROVE FALSE
  BY <1>9, SettleExhausts DEF Answered, TimesOut
<1> QED
  BY <1>1, <1>2, <1>3, <1>4, <1>5, <1>6, <1>7, <1>8, <1>9 DEF Next

(***************************************************************************)
(* While a connection is wanted, a retry that was counted was made, or its *)
(* timer is set.  (disconnect() clears the timer and leaves the count; the *)
(* next connect() resets it.)                                              *)
(***************************************************************************)
CountInv ==
  /\ CountTypeOK
  /\ config /\ ~timer => retryCount <= tries
  /\ config /\ timer => retryCount <= tries + 1

LEMMA CountStep == InnersTypeOK /\ CountInv /\ [HNext]_hvars => CountInv'
<1> SUFFICES ASSUME InnersTypeOK, CountInv, [HNext]_hvars PROVE CountInv'
  OBVIOUS
<1> USE ConductorAssumption DEF ConductorAssumption, InnersTypeOK, CountInv, CountTypeOK
<1>1. CASE UNCHANGED hvars
  BY <1>1 DEF hvars, vars, connVars
<1> SUFFICES ASSUME HNext PROVE CountInv'
  BY <1>1
<1>2. ASSUME NEW k \in Connects, Connect(k) PROVE CountInv'
  <2>1. asked' # asked /\ retryCount' = 0 /\ config' /\ timer' = timer
    BY <1>2 DEF Connect
  <2> QED
    BY <2>1 DEF HNext, Reset
<1>3. ASSUME NEW a \in attempts, Opens(a) PROVE CountInv'
  <2>1. /\ a \in attempts \ attempts' /\ conn'[a.on] = "Connected"
        /\ retryCount' = 0 /\ timer' = timer /\ config' = config
    BY <1>3 DEF Opens
  <2> QED
    BY <2>1 DEF HNext, Reset
<1>4. ASSUME NEW a \in attempts, Fails(a) PROVE CountInv'
  <2>1. attempts \ attempts' = {a} /\ conn'[a.on] = "Error" /\ asked' = asked /\ inner' = inner
    BY <1>4 DEF Fails
  <2>2. tries' = tries
    BY <2>1 DEF HNext, Reset
  <2>3. \/ timer' = timer /\ retryCount' = retryCount
        \/ ~timer /\ timer' /\ retryCount' = retryCount + 1
    BY <1>4 DEF Fails, ScheduleReconnect
  <2>4. config' = config
    BY <1>4 DEF Fails
  <2> QED
    BY <2>2, <2>3, <2>4
<1>5. CASE TimerFires
  <2>1. /\ attempts \ attempts' = {} /\ asked' = asked /\ inner' # inner
        /\ timer /\ ~timer' /\ retryCount' = retryCount /\ config' = config
    BY <1>5 DEF TimerFires, Inners
  <2>2. tries' = tries + 1
    BY <2>1 DEF HNext, Reset
  <2> QED
    BY <2>1, <2>2
<1>6. CASE Disconnect
  <2>1. ~config' /\ ~timer' /\ retryCount' = retryCount
    BY <1>6 DEF Disconnect
  <2>2. tries' \in Nat
    BY DEF HNext
  <2> QED
    BY <2>1, <2>2
<1>7. ASSUME UNCHANGED <<config, timer, retryCount, inner, attempts, asked>> PROVE CountInv'
  <2>1. tries' = tries
    BY <1>7 DEF HNext, Reset
  <2> QED
    BY <1>7, <2>1
<1>8. CASE InstallApp
  BY <1>7, <1>8 DEF InstallApp
<1>9. ASSUME NEW i \in Inners, InstallAnswered(i) \/ AppOpens(i) \/ InstallFails(i)
      PROVE  CountInv'
  BY <1>7, <1>9 DEF InstallAnswered, AppOpens, InstallFails
<1>10. ASSUME NEW c \in Calls, CallZome(c) \/ Signed(c) \/ Answered(c) \/ TimesOut(c)
       PROVE  CountInv'
  BY <1>7, <1>10 DEF CallZome, Signed, Answered, TimesOut, connVars
<1> QED
  BY <1>2, <1>3, <1>4, <1>5, <1>6, <1>8, <1>9, <1>10 DEF HNext, Next

LEMMA CountInvariant == HSpec => []CountInv
<1>1. HInit => CountInv
  BY DEF HInit, Init, CountInv, CountTypeOK
<1>2. QueueInv => InnersTypeOK
  BY DEF QueueInv
<1> QED
  BY <1>1, <1>2, CountStep, HistoryWatches, QueueInvariant, PTL DEF HSpec

(***************************************************************************)
(* What is queued is only rejected for want of a connection after every    *)
(* retry has been made since the last success or connect(): no order of    *)
(* connects, failures and disconnects spends a retry without making it.    *)
(***************************************************************************)
THEOREM AllRetriesMadeCorrect == HSpec => AllRetriesMade
<1> DEFINE Made == \A c \in Calls :
                     call[c] # "exhausted" /\ call'[c] = "exhausted" => tries >= MaxRetries
<1>1. CountInv /\ CallTypeOK /\ [HNext]_hvars => [Made]_hvars
  <2> SUFFICES ASSUME CountInv, CallTypeOK, HNext, NEW c \in Calls,
                      call[c] # "exhausted", call'[c] = "exhausted"
               PROVE  tries >= MaxRetries
    OBVIOUS
  <2>1. ~timer /\ config /\ ~(retryCount < MaxRetries)
    BY OnlyGivenUp DEF HNext
  <2> QED
    BY <2>1, ConductorAssumption DEF ConductorAssumption, CountInv, CountTypeOK
<1> QED
  BY <1>1, CountInvariant, CallTyped, HistoryWatches, PTL DEF HSpec, AllRetriesMade

-----------------------------------------------------------------------------
(***************************************************************************)
(* As long as no connect() came while a connection was being made, there   *)
(* is one attempt at a time, for the conductor in use, and a retry is only *)
(* prepared when there is none and that conductor is not connected.        *)
(***************************************************************************)
OneAttempt ==
  /\ \A a, b \in attempts : a = b
  /\ \A a \in attempts : a.on = inner
  /\ timer => attempts = {} /\ conn[inner] # "Connected"

LiveInv == ~overlapped => OneAttempt

LEMMA LiveStep ==
  InnersTypeOK /\ NoRetryUnwanted /\ LiveInv /\ [HNext]_hvars => LiveInv'
<1> SUFFICES ASSUME InnersTypeOK, NoRetryUnwanted, LiveInv, [HNext]_hvars, ~overlapped'
             PROVE  OneAttempt'
  BY DEF LiveInv
<1>1. CASE UNCHANGED hvars
  BY <1>1 DEF hvars, vars, connVars, LiveInv, OneAttempt
<1> SUFFICES ASSUME HNext PROVE OneAttempt'
  BY <1>1
<1>2. ~overlapped /\ OneAttempt
  BY DEF HNext, LiveInv
<1> USE <1>2, ConductorAssumption DEF ConductorAssumption, InnersTypeOK, OneAttempt
<1>3. ASSUME NEW k \in Connects, Connect(k) PROVE OneAttempt'
  <2>1. ~Retrying /\ attempts = {}
    BY <1>3 DEF HNext, Connect
  <2>2. ~timer
    BY <2>1 DEF Retrying, NoRetryUnwanted
  <2> QED
    BY <1>3, <2>1, <2>2 DEF Connect
<1>4. ASSUME NEW a \in attempts, Opens(a) PROVE OneAttempt'
  <2>1. ~timer /\ attempts' = {}
    BY <1>4 DEF Opens
  <2> QED
    BY <1>4, <2>1 DEF Opens
<1>5. ASSUME NEW a \in attempts, Fails(a) PROVE OneAttempt'
  <2>1. attempts' = {} /\ inner' = inner /\ a.on = inner
    BY <1>5 DEF Fails
  <2>2. conn'[inner] = "Error"
    BY <1>5, <2>1 DEF Fails
  <2> QED
    BY <2>1, <2>2
<1>6. CASE TimerFires
  <2>1. /\ ~timer' /\ inner' = inner + 1
        /\ attempts' = {[on |-> inner + 1, by |-> Timer]}
    BY <1>6 DEF TimerFires
  <2> QED
    BY <2>1
<1>7. CASE Disconnect
  BY <1>7 DEF Disconnect
<1>8. ASSUME UNCHANGED <<timer, inner, attempts, conn>> PROVE OneAttempt'
  BY <1>8
<1>9. CASE InstallApp
  BY <1>8, <1>9 DEF InstallApp
<1>10. ASSUME NEW i \in Inners, InstallAnswered(i) \/ AppOpens(i) \/ InstallFails(i)
       PROVE  OneAttempt'
  BY <1>8, <1>10 DEF InstallAnswered, AppOpens, InstallFails
<1>11. ASSUME NEW c \in Calls, CallZome(c) \/ Signed(c) \/ Answered(c) \/ TimesOut(c)
       PROVE  OneAttempt'
  BY <1>8, <1>11 DEF CallZome, Signed, Answered, TimesOut, connVars
<1> QED
  BY <1>3, <1>4, <1>5, <1>6, <1>7, <1>9, <1>10, <1>11 DEF HNext, Next

(***************************************************************************)
(* Only the retry timer replaces the conductor in use.                     *)
(***************************************************************************)
LEMMA TimerReplaces ==
  ASSUME [Next]_vars, inner' # inner
  PROVE  timer
BY DEF Next, Connect, Opens, Fails, TimerFires, Disconnect, InstallApp, InstallAnswered,
       AppOpens, InstallFails, CallZome, Signed, Answered, TimesOut, vars, connVars

(***************************************************************************)
(* Unless a connect() came while another connection was being made, a      *)
(* connected conductor is not replaced, so that what was installed through *)
(* it stays in reach.                                                      *)
(***************************************************************************)
THEOREM LiveConductorStaysCorrect == HSpec => LiveConductorStays
<1> DEFINE Stays == ~overlapped /\ conn[inner] = "Connected" => inner' = inner
<1>1. HInit => LiveInv
  BY DEF HInit, Init, LiveInv, OneAttempt
<1>2. QueueInv => InnersTypeOK
  BY DEF QueueInv
<1>3. LiveInv /\ [HNext]_hvars => [Stays]_hvars
  <2> SUFFICES ASSUME LiveInv, HNext, ~overlapped, conn[inner] = "Connected", inner' # inner
               PROVE  FALSE
    OBVIOUS
  <2>1. timer
    BY TimerReplaces DEF HNext
  <2> QED
    BY <2>1 DEF LiveInv, OneAttempt
<1> QED
  BY <1>1, <1>2, <1>3, LiveStep, HistoryWatches, QueueInvariant, NoRetryUnwantedCorrect, PTL
     DEF HSpec, LiveConductorStays
=============================================================================
