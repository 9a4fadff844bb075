----------------------------- MODULE Conductor -----------------------------
(***************************************************************************)
(* ReconnectingHolochainConductor over the WebSocket conductors it makes:  *)
(* the queue of zome calls, the retries with their timer, the drain of the *)
(* queue, and inside each WebSocket conductor the state it reports, its    *)
(* app socket and the requests that wait for an answer.                    *)
(*                                                                         *)
(* No WebSocket conductor listens to the close of a socket, so no action   *)
(* stands for one: a connection that breaks shows in requests that time    *)
(* out and in nothing else.                                                *)
(***************************************************************************)
EXTENDS Naturals, Sequences, SequencesExt

CONSTANTS
  Calls,       \* calls of callZome()
  Connects,    \* calls of connect()
  MaxRetries,
  MaxInner,    \* bound on the WebSocket conductors made
  Timer        \* who asked for an attempt: the retry timer

ASSUME ConductorAssumption ==
  /\ Timer \notin Connects
  /\ MaxRetries \in Nat
  /\ MaxInner \in Nat \ {0}

VARIABLES
  config,      \* is there a config, that is: does the user want a connection?
  timer,       \* is a reconnectTimer set?
  retryCount,
  inner,       \* the WebSocket conductor in use; they are numbered as they are made
  conn,        \* the state each of them reports
  admin,       \* has it an admin socket?
  app,         \* has it an app socket?
  installing,  \* where its installApp() is
  attempts,    \* sockets that are being opened for a connect()
  asked,       \* calls of connect() made
  call,        \* where each call of callZome() is
  on,          \* the conductor it was handed to
  queue,
  drains       \* the runs of drainQueue, each with the calls it has left

connVars == <<config, timer, retryCount, inner, conn, admin, app, installing, attempts, asked>>
callVars == <<call, on, queue, drains>>
vars == <<connVars, callVars>>

Inners == 1 .. MaxInner

ConnectionState == {"Disconnected", "Connecting", "Connected", "Error"}
Settled  == {"resolved", "no app", "disconnected", "exhausted", "timed out"}
CallPc   == {"new", "queued", "draining", "signing", "sent"} \cup Settled
InFlight == {"signing", "sent"}

TypeOK ==
  /\ config \in BOOLEAN /\ timer \in BOOLEAN
  /\ retryCount \in 0 .. MaxRetries
  /\ inner \in Inners
  /\ conn \in [Inners -> ConnectionState]
  /\ admin \in [Inners -> BOOLEAN] /\ app \in [Inners -> BOOLEAN]
  /\ installing \in [Inners -> {"no", "asking", "opening"}]
  /\ attempts \subseteq [on : Inners, by : Connects \cup {Timer}]
  /\ asked \subseteq Connects
  /\ call \in [Calls -> CallPc] /\ on \in [Calls -> Inners]
  /\ ToSet(queue) = {c \in Calls : call[c] = "queued"}
  /\ UNION {ToSet(d) : d \in drains} \subseteq Calls

Init ==
  /\ config = FALSE /\ timer = FALSE
  /\ retryCount = 0
  /\ inner = 1
  /\ conn = [i \in Inners |-> "Disconnected"]
  /\ admin = [i \in Inners |-> FALSE] /\ app = [i \in Inners |-> FALSE]
  /\ installing = [i \in Inners |-> "no"]
  /\ attempts = {}
  /\ asked = {}
  /\ call = [c \in Calls |-> "new"] /\ on = [c \in Calls |-> 1]
  /\ queue = <<>>
  /\ drains = {}

-----------------------------------------------------------------------------
(***************************************************************************)
(* What happens to the calls when those of s settle as `how' says and the  *)
(* runs ds of drainQueue go on.  A run whose first call has settled hands  *)
(* the next one to the conductor in use; without an app socket that call   *)
(* rejects at once, and so does every call after it.                       *)
(***************************************************************************)
Settle(s, how, ds) ==
  LET over  == {d \in ds : Head(d) \in s \/ call[Head(d)] \notin InFlight}
      after == {Tail(d) : d \in {e \in over : Head(e) \in s}}
                 \cup {d \in over : Head(d) \notin s}
      next  == after \ {<<>>}
      start == IF app'[inner'] THEN {Head(d) : d \in next} ELSE {}
      lost  == (UNION {ToSet(d) : d \in next}) \ start
  IN /\ call' = [c \in Calls |->
                   IF c \in s THEN how
                   ELSE IF c \in start THEN "signing"
                   ELSE IF c \notin lost THEN call[c]
                   ELSE IF app'[inner'] THEN "draining" ELSE "no app"]
     /\ on' = [c \in Calls |-> IF c \in start THEN inner' ELSE on[c]]
     /\ drains' = (ds \ over) \cup (IF app'[inner'] THEN next ELSE {})

(***************************************************************************)
(* drainQueue takes the whole queue and makes its calls one by one.        *)
(***************************************************************************)
DrainQueue ==
  /\ Settle({}, "resolved", drains \cup ({queue} \ {<<>>}))
  /\ queue' = <<>>

(* Mutant: the retry does not ask whether a connection is still wanted. *)
ScheduleReconnect_Always ==
  IF timer
  THEN UNCHANGED <<timer, retryCount, callVars>>
  ELSE IF retryCount < MaxRetries
  THEN timer' = TRUE /\ retryCount' = retryCount + 1 /\ UNCHANGED callVars
  ELSE /\ Settle(ToSet(queue), "exhausted", drains)
       /\ queue' = <<>>
       /\ UNCHANGED <<timer, retryCount>>

(* Mutant: when the retries are used up the queue is kept. *)
ScheduleReconnect_Keeps ==
  IF timer \/ ~config \/ retryCount = MaxRetries
  THEN UNCHANGED <<timer, retryCount, callVars>>
  ELSE timer' = TRUE /\ retryCount' = retryCount + 1 /\ UNCHANGED callVars

(***************************************************************************)
(* scheduleReconnect sets one timer at a time, and rejects what is queued  *)
(* when the retries are used up.                                           *)
(***************************************************************************)
ScheduleReconnect ==
  IF timer \/ ~config
  THEN UNCHANGED <<timer, retryCount, callVars>>
  ELSE IF retryCount < MaxRetries
  THEN timer' = TRUE /\ retryCount' = retryCount + 1 /\ UNCHANGED callVars
  ELSE /\ Settle(ToSet(queue), "exhausted", drains)
       /\ queue' = <<>>
       /\ UNCHANGED <<timer, retryCount>>

-----------------------------------------------------------------------------
(* Mutant: the retries made for an earlier connection count. *)
Connect_KeepsCount(k) ==
  /\ k \notin asked
  /\ asked' = asked \cup {k}
  /\ config' = TRUE
  /\ conn' = [conn EXCEPT ![inner] = "Connecting"]
  /\ attempts' = attempts \cup {[on |-> inner, by |-> k]}
  /\ UNCHANGED <<timer, retryCount, inner, admin, app, installing, callVars>>

(***************************************************************************)
(* connect() on the conductor in use.                                      *)
(***************************************************************************)
Connect(k) ==
  /\ k \notin asked
  /\ asked' = asked \cup {k}
  /\ config' = TRUE
  /\ retryCount' = 0
  /\ conn' = [conn EXCEPT ![inner] = "Connecting"]
  /\ attempts' = attempts \cup {[on |-> inner, by |-> k]}
  /\ UNCHANGED <<timer, inner, admin, app, installing, callVars>>

(* Mutant: the state handler of a retry does not drain the queue. *)
Opens_NoDrain(a) ==
  /\ a \in attempts
  /\ attempts' = attempts \ {a}
  /\ admin' = [admin EXCEPT ![a.on] = TRUE]
  /\ conn' = [conn EXCEPT ![a.on] = "Connected"]
  /\ retryCount' = 0
  /\ UNCHANGED <<config, timer, inner, app, installing, asked>>
  /\ IF a.by = Timer THEN UNCHANGED callVars ELSE DrainQueue

(***************************************************************************)
(* An attempt succeeds: the conductor it was for is connected, and the     *)
(* queue is drained to the conductor in use.                               *)
(***************************************************************************)
Opens(a) ==
  /\ a \in attempts
  /\ attempts' = attempts \ {a}
  /\ admin' = [admin EXCEPT ![a.on] = TRUE]
  /\ conn' = [conn EXCEPT ![a.on] = "Connected"]
  /\ retryCount' = 0
  /\ UNCHANGED <<config, timer, inner, app, installing, asked>>
  /\ DrainQueue

(***************************************************************************)
(* An attempt fails.  For one of the timer's, the state handler schedules  *)
(* the next and the catch clause asks again, to no effect.                 *)
(***************************************************************************)
Fails(a) ==
  /\ a \in attempts
  /\ attempts' = attempts \ {a}
  /\ conn' = [conn EXCEPT ![a.on] = "Error"]
  /\ UNCHANGED <<config, inner, admin, app, installing, asked>>
  /\ ScheduleReconnect

(***************************************************************************)
(* The retry timer makes a new WebSocket conductor and connects it.        *)
(***************************************************************************)
TimerFires ==
  /\ timer /\ inner < MaxInner
  /\ timer' = FALSE
  /\ inner' = inner + 1
  /\ conn' = [conn EXCEPT ![inner + 1] = "Connecting"]
  /\ attempts' = attempts \cup {[on |-> inner + 1, by |-> Timer]}
  /\ UNCHANGED <<config, retryCount, admin, app, installing, asked, callVars>>

(* Mutant: the retry timer is not cleared. *)
Disconnect_TimerStays ==
  /\ config' = FALSE
  /\ conn' = [conn EXCEPT ![inner] = "Disconnected"]
  /\ admin' = [admin EXCEPT ![inner] = FALSE]
  /\ app' = [app EXCEPT ![inner] = FALSE]
  /\ installing' = [installing EXCEPT ![inner] = IF @ = "asking" THEN "no" ELSE @]
  /\ UNCHANGED <<timer, retryCount, inner, attempts, asked>>
  /\ Settle(ToSet(queue) \cup {c \in Calls : call[c] = "sent" /\ on[c] = inner},
            "disconnected", drains)
  /\ queue' = <<>>

(***************************************************************************)
(* disconnect() rejects what is queued, and the conductor in use rejects   *)
(* its pending requests: zome calls that were sent, the requests of an     *)
(* installApp().  A socket that is being opened is not given up.           *)
(***************************************************************************)
Disconnect ==
  /\ config' = FALSE
  /\ timer' = FALSE
  /\ conn' = [conn EXCEPT ![inner] = "Disconnected"]
  /\ admin' = [admin EXCEPT ![inner] = FALSE]
  /\ app' = [app EXCEPT ![inner] = FALSE]
  /\ installing' = [installing EXCEPT ![inner] = IF @ = "asking" THEN "no" ELSE @]
  /\ UNCHANGED <<retryCount, inner, attempts, asked>>
  /\ Settle(ToSet(queue) \cup {c \in Calls : call[c] = "sent" /\ on[c] = inner},
            "disconnected", drains)
  /\ queue' = <<>>

-----------------------------------------------------------------------------
(***************************************************************************)
(* installApp() asks four things of the admin socket and opens the app     *)
(* socket at the port it is told.                                          *)
(***************************************************************************)
InstallApp ==
  /\ admin[inner] /\ ~app[inner]
  /\ installing[inner] = "no"
  /\ installing' = [installing EXCEPT ![inner] = "asking"]
  /\ UNCHANGED <<config, timer, retryCount, inner, conn, admin, app, attempts, asked, callVars>>

InstallAnswered(i) ==
  /\ installing[i] = "asking"
  /\ installing' = [installing EXCEPT ![i] = "opening"]
  /\ UNCHANGED <<config, timer, retryCount, inner, conn, admin, app, attempts, asked, callVars>>

AppOpens(i) ==
  /\ installing[i] = "opening"
  /\ installing' = [installing EXCEPT ![i] = "no"]
  /\ app' = [app EXCEPT ![i] = TRUE]
  /\ UNCHANGED <<config, timer, retryCount, inner, conn, admin, attempts, asked, callVars>>

InstallFails(i) ==
  /\ installing[i] # "no"
  /\ installing' = [installing EXCEPT ![i] = "no"]
  /\ UNCHANGED <<config, timer, retryCount, inner, conn, admin, app, attempts, asked, callVars>>

-----------------------------------------------------------------------------
(***************************************************************************)
(* callZome() goes to the conductor in use if that one is connected, which *)
(* rejects it without an app socket and else signs it; otherwise it waits  *)
(* in the queue.                                                           *)
(***************************************************************************)
CallZome(c) ==
  /\ call[c] = "new"
  /\ IF conn[inner] = "Connected"
     THEN /\ call' = [call EXCEPT ![c] = IF app[inner] THEN "signing" ELSE "no app"]
          /\ on' = [on EXCEPT ![c] = inner]
          /\ UNCHANGED queue
     ELSE /\ call' = [call EXCEPT ![c] = "queued"]
          /\ queue' = Append(queue, c)
          /\ UNCHANGED on
  /\ UNCHANGED <<connVars, drains>>

(***************************************************************************)
(* The call is signed and sent, unless a disconnect() took the app socket  *)
(* away meanwhile.                                                         *)
(***************************************************************************)
Signed(c) ==
  /\ call[c] = "signing"
  /\ UNCHANGED connVars
  /\ IF app[on[c]]
     THEN call' = [call EXCEPT ![c] = "sent"] /\ UNCHANGED <<on, drains>>
     ELSE Settle({c}, "no app", drains)
  /\ UNCHANGED queue

Answered(c) ==
  /\ call[c] = "sent"
  /\ UNCHANGED <<connVars, queue>>
  /\ Settle({c}, "resolved", drains)

TimesOut(c) ==
  /\ call[c] = "sent"
  /\ UNCHANGED <<connVars, queue>>
  /\ Settle({c}, "timed out", drains)

Next ==
  \/ \E k \in Connects : Connect(k)
  \/ \E a \in attempts : Opens(a) \/ Fails(a)
  \/ TimerFires
  \/ Disconnect
  \/ InstallApp
  \/ \E i \in Inners : InstallAnswered(i) \/ AppOpens(i) \/ InstallFails(i)
  \/ \E c \in Calls : CallZome(c) \/ Signed(c) \/ Answered(c) \/ TimesOut(c)

Spec == Init /\ [][Next]_vars

(***************************************************************************)
(* A socket opens or fails, a timer fires, a signature is made, and a      *)
(* request is answered or times out.                                       *)
(***************************************************************************)
Fairness ==
  /\ \A i \in Inners : WF_vars(\E a \in attempts : a.on = i /\ (Opens(a) \/ Fails(a)))
  /\ WF_vars(TimerFires)
  /\ \A c \in Calls : WF_vars(Signed(c)) /\ WF_vars(Answered(c) \/ TimesOut(c))

FairSpec == Spec /\ Fairness

-----------------------------------------------------------------------------
Retrying == config /\ (timer \/ attempts # {})

(***************************************************************************)
(* Nothing is left in the queue of a conductor that is connected: every    *)
(* way to become connected drains it, and no call is queued afterwards.    *)
(***************************************************************************)
NothingWaitsConnected == conn[inner] = "Connected" => queue = <<>>

(***************************************************************************)
(* After disconnect() no retry is under preparation, although an attempt   *)
(* that was under way fails and asks for one.                              *)
(***************************************************************************)
NoRetryUnwanted == timer => config

(***************************************************************************)
(* A call that is queued while the conductor tries to connect, or that a   *)
(* drain has taken, settles: it is answered, times out or is rejected,     *)
(* however often the connection fails or is given up.                      *)
(***************************************************************************)
QueuedCallsSettle ==
  \A c \in Calls :
    (Retrying /\ call[c] = "queued") \/ call[c] = "draining" ~> call[c] \in Settled
=============================================================================
