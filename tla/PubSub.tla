-------------------------------- MODULE PubSub --------------------------------
(***************************************************************************)
(* PubSub and the asynchronous iterators of GraphQL subscriptions.  An     *)
(* event is the number of its publication; each iterator has a filter.     *)
(***************************************************************************)
EXTENDS Naturals, Sequences, Functions

CONSTANTS
  Iterators,
  MaxEvents,  \* a bound on the events
  MaxNexts    \* a bound on the calls of next() of an iterator

VARIABLES
  published,  \* the number of events
  since,      \* the number of events before each iterator was made
  life,       \* of each iterator: "none", "open" (subscribed), "done"
  queue,      \* the events each iterator keeps
  resolver,   \* the call of next() whose promise the next event resolves, or 0
  nexts,      \* the calls of next() of each iterator
  given       \* what each call was given: an event, or 0 for done

pubsubVars == <<published, since, life, queue, resolver, nexts, given>>

Init ==
  /\ published = 0
  /\ since = [i \in Iterators |-> 0]
  /\ life = [i \in Iterators |-> "none"]
  /\ queue = [i \in Iterators |-> <<>>]
  /\ resolver = [i \in Iterators |-> 0]
  /\ nexts = [i \in Iterators |-> 0]
  /\ given = [i \in Iterators |-> [n \in 1..MaxNexts |-> <<>>]]

Open == {i \in Iterators : life[i] = "open"}

(* The first iterator takes all events, another one every second event. *)
Passes(i, e) == i = 1 \/ e % 2 = 0

CreateAsyncIterator(i) ==
  /\ life[i] = "none"
  /\ life' = [life EXCEPT ![i] = "open"]
  /\ since' = [since EXCEPT ![i] = published]
  /\ UNCHANGED <<published, queue, resolver, nexts, given>>

(* Mutant: the resolver stays, and is called again. *)
Publish_KeepsResolver ==
  LET e == published + 1
      takers == {i \in Open : Passes(i, e)} IN
  /\ published < MaxEvents
  /\ published' = e
  /\ given' = [i \in Iterators |->
       IF i \in takers /\ resolver[i] # 0 /\ given[i][resolver[i]] = <<>>
       THEN [given[i] EXCEPT ![resolver[i]] = <<e>>] ELSE given[i]]
  /\ queue' = [i \in Iterators |->
       IF i \in takers /\ resolver[i] = 0 THEN Append(queue[i], e) ELSE queue[i]]
  /\ UNCHANGED <<since, life, nexts, resolver>>

(* publish() calls back every subscriber before it returns. *)
Publish ==
  LET e == published + 1
      takers == {i \in Open : Passes(i, e)} IN
  /\ published < MaxEvents
  /\ published' = e
  /\ given' = [i \in Iterators |->
       IF i \in takers /\ resolver[i] # 0
       THEN [given[i] EXCEPT ![resolver[i]] = <<e>>] ELSE given[i]]
  /\ queue' = [i \in Iterators |->
       IF i \in takers /\ resolver[i] = 0 THEN Append(queue[i], e) ELSE queue[i]]
  /\ resolver' = [i \in Iterators |-> IF i \in takers THEN 0 ELSE resolver[i]]
  /\ UNCHANGED <<since, life, nexts>>

(* A promise that finds no event takes the place of the one that waits. *)
NextCall(i) ==
  LET n == nexts[i] + 1 IN
  /\ life[i] # "none"
  /\ n <= MaxNexts
  /\ nexts' = [nexts EXCEPT ![i] = n]
  /\ \/ /\ i \notin Open
        /\ given' = [given EXCEPT ![i][n] = <<0>>]
        /\ UNCHANGED <<queue, resolver>>
     \/ /\ i \in Open /\ queue[i] # <<>>
        /\ given' = [given EXCEPT ![i][n] = <<Head(queue[i])>>]
        /\ queue' = [queue EXCEPT ![i] = Tail(@)]
        /\ UNCHANGED resolver
     \/ /\ i \in Open /\ queue[i] = <<>>
        /\ resolver' = [resolver EXCEPT ![i] = n]
        /\ UNCHANGED <<queue, given>>
  /\ UNCHANGED <<published, since, life>>

(* return() and throw(): a call of next() that waits stays as it is. *)
Return(i) ==
  /\ i \in Open
  /\ life' = [life EXCEPT ![i] = "done"]
  /\ UNCHANGED <<published, since, queue, resolver, nexts, given>>

Next ==
  \/ Publish
  \/ \E i \in Iterators : CreateAsyncIterator(i) \/ NextCall(i) \/ Return(i)

-----------------------------------------------------------------------------
(* What was published while the iterator was open and passes its filter.   *)
Awaited(i) == {e \in since[i] + 1 .. published : Passes(i, e)}

(***************************************************************************)
(* What the calls of next() were given, and then the queue, is what the    *)
(* iterator awaits: nothing is missing, nothing is given twice, and an     *)
(* earlier call has the earlier event, also when calls of next() overlap.  *)
(* Of calls that overlap only the last waits.                              *)
(***************************************************************************)
EventsInOrder ==
  \A i \in Open :
    LET To(n) == Range(given[i][n]) IN
    /\ Awaited(i) = (UNION {To(n) : n \in 1..MaxNexts}) \cup Range(queue[i])
    /\ \A m, n \in 1..MaxNexts : m < n => \A d \in To(m), e \in To(n) : d < e
    /\ \A n \in 1..MaxNexts : \A d \in To(n), e \in Range(queue[i]) : d < e
    /\ \A k, m \in 1..Len(queue[i]) : k < m => queue[i][k] < queue[i][m]
=============================================================================
