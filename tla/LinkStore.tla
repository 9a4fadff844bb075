------------------------------ MODULE LinkStore ------------------------------
(***************************************************************************)
(* What a link store promises, as the one in memory does it: each          *)
(* perspective has a sequence of links, of which no two are the same.      *)
(***************************************************************************)
EXTENDS SequencesExt

CONSTANTS Perspectives, Nodes, Stamps

VARIABLES
  store,  \* the links of each perspective, in the order they were added
  saved   \* what dump() gave last

storeVars == <<store, saved>>

(***************************************************************************)
(* A link: its source and target, its predicate, its author and time.  A   *)
(* predicate is absent, empty, the one that stands for an absent one, or   *)
(* no IRI at all.                                                          *)
(***************************************************************************)
Predicates == {"absent", "empty", "default", "noIRI"}
Link == [node : Nodes, predicate : Predicates, by : Stamps]

(* validateLink() makes an empty predicate absent, in the link it is given. *)
Valid(l) == [l EXCEPT !.predicate = IF @ = "empty" THEN "absent" ELSE @]

Init ==
  /\ store = [p \in Perspectives |-> <<>>]
  /\ saved = store

AddLink(p, l) ==
  /\ ~Contains(store[p], Valid(l))
  /\ store' = [store EXCEPT ![p] = Append(@, Valid(l))]
  /\ UNCHANGED saved

(* The first link that matches. *)
RemoveLink(p, l) ==
  /\ \E i \in DOMAIN store[p] :
       /\ store[p][i] = l
       /\ \A j \in 1..(i - 1) : store[p][j] # l
       /\ store' = [store EXCEPT ![p] = RemoveAt(@, i)]
  /\ UNCHANGED saved

RemovePerspective(p) ==
  /\ store' = [store EXCEPT ![p] = <<>>]
  /\ UNCHANGED saved

Dump == saved' = store /\ UNCHANGED store
Load == store' = saved /\ UNCHANGED saved

Next ==
  \/ \E p \in Perspectives :
       \/ \E l \in Link : AddLink(p, l) \/ RemoveLink(p, l)
       \/ RemovePerspective(p)
  \/ Dump \/ Load
=============================================================================
