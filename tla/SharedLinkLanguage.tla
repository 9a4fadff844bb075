------------------------- MODULE SharedLinkLanguage -------------------------
(***************************************************************************)
(* The link language a neighbourhood's replicas meet in: the links it      *)
(* holds, and what one commit does to them.  A link expression is an       *)
(* element of Links: two expressions are the same element exactly when the *)
(* local link store takes them for the same link (source, target,          *)
(* predicate, author and timestamp all equal).  The language compares less *)
(* than that when it removes: Triple[l] is the part it looks at.           *)
(***************************************************************************)
EXTENDS FiniteSets, Integers

CONSTANTS
  Links,     \* signed link expressions
  Triples,   \* (source, target, predicate) triples
  Triple     \* the triple of each link

ASSUME TripleAssumption == Triple \in [Links -> Triples]

(***************************************************************************)
(* The links of L with triple t.                                           *)
(***************************************************************************)
WithTriple(L, t) == {l \in L : Triple[l] = t}

Smaller(m, n) == IF m <= n THEN m ELSE n

(***************************************************************************)
(* SharedLinkStore.addLinks: the additions are appended, whatever is there.*)
(***************************************************************************)
AfterAdditions(net, A) == net \cup A

(***************************************************************************)
(* SharedLinkStore.removeLinks: every removal takes out one link with the  *)
(* same triple, if there is one, whoever signed it and when.  The code     *)
(* takes the oldest; which of several twins is oldest is left open here.   *)
(***************************************************************************)
AfterRemovals(net, R) ==
  {n \in SUBSET net :
     \A t \in {Triple[r] : r \in R} \cup {Triple[l] : l \in net \ n} :
        Cardinality(WithTriple(net \ n, t)) =
          Smaller(Cardinality(WithTriple(R, t)), Cardinality(WithTriple(net, t)))}

(***************************************************************************)
(* commit(diff): additions first, then removals.                           *)
(***************************************************************************)
AfterCommit(net, A, R) == AfterRemovals(AfterAdditions(net, A), R)

(***************************************************************************)
(* The first element of a list, of which only the set is kept: a singleton,*)
(* or nothing when the list is empty.                                      *)
(***************************************************************************)
Firsts(S) == IF S = {} THEN {{}} ELSE {{x} : x \in S}
=============================================================================
