------------------------------ MODULE Transport ------------------------------
(***************************************************************************)
(* Calls over a message port: the GraphQL client of a tab with its shared  *)
(* worker ("graphql"), the ExecutorAPI over a port ("api"), and the proxy  *)
(* of a language in a worker ("language").  They keep pending calls in the *)
(* same way; the first two give each call a timer, the last one has none.  *)
(* Messages arrive in the order they were posted.                          *)
(***************************************************************************)
EXTENDS Naturals, SequencesExt

CONSTANTS Callers, None

VARIABLES
  kind,      \* which of the three clients it is
  port,      \* "open" or "closed": destroy() has run
  status,    \* of the promise of each call
  pending,   \* the calls in the map
  timers,    \* the calls with a timer
  requests,  \* the messages to the worker
  handling,  \* the calls the worker is working on
  answers,   \* the messages to the client
  engine,    \* the promise of the engine in the worker
  late       \* history: the calls made after destroy()

transportVars == <<kind, port, status, pending, timers, requests, handling,
                   answers, engine, late>>

Init ==
  /\ kind \in {"graphql", "api", "language"}
  /\ port = "open"
  /\ status = [c \in Callers |-> "none"]
  /\ pending = {}
  /\ timers = {}
  /\ requests = <<>>
  /\ handling = {}
  /\ answers = <<>>
  /\ engine = IF kind = "graphql" THEN "none" ELSE "ready"
  /\ late = {}

Settle(cs, how) == status' = [c \in Callers |-> IF c \in cs THEN how ELSE status[c]]

(* WorkerClient.execute() throws when there is no port. *)
Refuses(c) == kind = "graphql" /\ port = "closed"

(***************************************************************************)
(* A call is put in the map before it is posted; a message to a worker     *)
(* that was terminated goes nowhere.                                       *)
(***************************************************************************)
Call(c) ==
  /\ status[c] = "none"
  /\ \/ /\ Refuses(c)
        /\ Settle({c}, "rejected")
        /\ UNCHANGED <<pending, timers, requests, late>>
     \/ /\ ~Refuses(c)
        /\ Settle({c}, "pending")
        /\ pending' = pending \cup {c}
        /\ timers' = IF kind = "language" THEN timers ELSE timers \cup {c}
        /\ requests' = IF port = "open" THEN Append(requests, c) ELSE requests
        /\ late' = IF port = "open" THEN late ELSE late \cup {c}
  /\ UNCHANGED <<kind, port, handling, answers, engine>>

TimesOut(c) ==
  /\ c \in timers
  /\ timers' = timers \ {c}
  /\ pending' = pending \ {c}
  /\ Settle({c}, "rejected")
  /\ UNCHANGED <<kind, port, requests, handling, answers, engine, late>>

(* An answer to a call that is no longer in the map is dropped. *)
Answer(c, how) ==
  IF c \in pending
  THEN /\ timers' = timers \ {c}
       /\ pending' = pending \ {c}
       /\ Settle({c}, how)
  ELSE UNCHANGED <<timers, pending, status>>

Receive ==
  /\ answers # <<>>
  /\ port = "open"
  /\ answers' = Tail(answers)
  /\ Answer(Head(answers).call, Head(answers).how)
  /\ UNCHANGED <<kind, port, requests, handling, engine, late>>

(* Mutant: the calls that wait are forgotten. *)
CutOff_Forgets ==
  /\ port = "open"
  /\ port' = "closed"
  /\ pending' = {}
  /\ timers' = {}
  /\ answers' = <<>>
  /\ UNCHANGED status

CutOff ==
  /\ port = "open"
  /\ port' = "closed"
  /\ Settle(pending, "rejected")
  /\ pending' = {}
  /\ timers' = {}
  /\ answers' = <<>>

(* The worker that other tabs share goes on with what it was sent. *)
DestroyClient ==
  /\ kind = "graphql"
  /\ CutOff
  /\ UNCHANGED <<kind, requests, handling, engine, late>>

(* The worker of a language is terminated. *)
DestroyProxy ==
  /\ kind = "language"
  /\ CutOff
  /\ requests' = <<>>
  /\ handling' = {}
  /\ UNCHANGED <<kind, engine, late>>

-----------------------------------------------------------------------------
(***************************************************************************)
(* The worker.  The first GraphQL request boots the executor; the promise  *)
(* is kept, also when it rejects.                                          *)
(***************************************************************************)
Take ==
  /\ requests # <<>>
  /\ requests' = Tail(requests)
  /\ handling' = handling \cup {Head(requests)}
  /\ engine' = IF engine = "none" THEN "booting" ELSE engine
  /\ UNCHANGED <<kind, port, status, pending, timers, answers, late>>

Boots ==
  /\ engine = "booting"
  /\ engine' \in {"ready", "failed"}
  /\ UNCHANGED <<kind, port, status, pending, timers, requests, handling, answers, late>>

(* Results and errors are posted as calls end, in any order. *)
Handled(c) ==
  /\ c \in handling
  /\ engine \in {"ready", "failed"}
  /\ handling' = handling \ {c}
  /\ \E how \in {"resolved", "rejected"} :
       /\ engine = "failed" => how = "rejected"
       /\ answers' = Append(answers, [call |-> c, how |-> how])
  /\ UNCHANGED <<kind, port, status, pending, timers, requests, engine, late>>

Next ==
  \/ \E c \in Callers : Call(c) \/ TimesOut(c) \/ Handled(c)
  \/ Receive \/ DestroyClient \/ DestroyProxy \/ Take \/ Boots

(* Timers fire; nothing makes a worker answer. *)
Fairness == \A c \in Callers : WF_transportVars(TimesOut(c))

-----------------------------------------------------------------------------
(***************************************************************************)
(* Every call settles, whether the worker answers in time, late or never:  *)
(* by its answer, by its timer or by destroy().  What a language is asked  *)
(* while its worker lives may stay unanswered, but not beyond destroy().   *)
(***************************************************************************)
Due(c) ==
  /\ status[c] = "pending"
  /\ \/ kind # "language"
     \/ port = "closed" /\ c \notin late

CallsSettle == \A c \in Callers : Due(c) ~> (status[c] # "pending")
=============================================================================
