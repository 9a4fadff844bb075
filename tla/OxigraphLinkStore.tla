-------------------------- MODULE OxigraphLinkStore --------------------------
(***************************************************************************)
(* The link store over Oxigraph: a quad for the triple of each link, in    *)
(* the graph of its perspective, and a sidecar from the key of each link   *)
(* to what a quad has no place for.  Both are dumped and loaded together.  *)
(* No source, target or predicate has a "|", at which keys are split.      *)
(***************************************************************************)
EXTENDS SequencesExt

CONSTANTS Perspectives, Nodes, Stamps,
          MaxLinks  \* a bound on the links of a perspective

VARIABLES
  sidecar,   \* the keys of each perspective in the order of the map, and the
             \* predicate each entry keeps
  quads,     \* the triples in each graph
  saved,     \* what dump() gave last
  orphaned   \* history: the triples of which one of several links was removed

storeVars == <<sidecar, quads, saved, orphaned>>

(* What allLinks() makes of an entry. *)
AllLinks(sc) ==
  [p \in Perspectives |->
    [i \in DOMAIN sc[p] |-> [node |-> sc[p][i].node,
                             predicate |-> sc[p][i].original,
                             by |-> sc[p][i].by]]]

Memory == INSTANCE LinkStore WITH
  store <- AllLinks(sidecar), saved <- AllLinks(saved.sidecar)

(* linkKey(): an absent predicate and an empty one have the same key. *)
Key(l) == [node |-> l.node, by |-> l.by,
           predicate |-> IF l.predicate = "absent" THEN "empty" ELSE l.predicate]

KeyOf(e) == [node |-> e.node, by |-> e.by, predicate |-> e.predicate]
Has(p, l) == \E i \in DOMAIN sidecar[p] : KeyOf(sidecar[p][i]) = Key(l)

(* An absent predicate and the default one make the same triple. *)
Triple(l) ==
  [node |-> l.node,
   predicate |-> IF l.predicate \in {"absent", "empty"} THEN "default" ELSE l.predicate]

Init ==
  /\ sidecar = [p \in Perspectives |-> <<>>]
  /\ quads = [p \in Perspectives |-> {}]
  /\ saved = [sidecar |-> sidecar, quads |-> quads]
  /\ orphaned = [p \in Perspectives |-> {}]

(***************************************************************************)
(* The quad is added before the entry; namedNode() throws for a predicate  *)
(* that is no IRI, and then nothing is added.                              *)
(***************************************************************************)
AddLink(p, given) ==
  LET l == Memory!Valid(given) IN
  /\ Len(sidecar[p]) < MaxLinks
  /\ ~Has(p, l)
  /\ l.predicate # "noIRI"
  /\ quads' = [quads EXCEPT ![p] = @ \cup {Triple(l)}]
  /\ sidecar' = [sidecar EXCEPT ![p] =
                   Append(@, [node |-> l.node, by |-> l.by,
                              predicate |-> Key(l).predicate, original |-> l.predicate])]
  /\ UNCHANGED <<saved, orphaned>>

(* Mutant: the link is found by its triple alone. *)
RemoveLink_AnyTwin(p, l) ==
  /\ \E i \in DOMAIN sidecar[p] :
       /\ Triple(sidecar[p][i]) = Triple(l)
       /\ sidecar' = [sidecar EXCEPT ![p] = RemoveAt(@, i)]
  /\ quads' = [quads EXCEPT ![p] = @ \ {Triple(l)}]
  /\ UNCHANGED <<saved, orphaned>>

(* The quad goes, whoever else has a link with its triple. *)
RemoveLink(p, l) ==
  /\ \E i \in DOMAIN sidecar[p] :
       /\ KeyOf(sidecar[p][i]) = Key(l)
       /\ sidecar' = [sidecar EXCEPT ![p] = RemoveAt(@, i)]
  /\ quads' = [quads EXCEPT ![p] = @ \ {Triple(l)}]
  /\ orphaned' = [orphaned EXCEPT ![p] =
       IF \E e \in ToSet(sidecar'[p]) : Triple(e) = Triple(l)
       THEN @ \cup {Triple(l)} ELSE @]
  /\ UNCHANGED saved

(* Mutant: the quads of the graph stay. *)
RemovePerspective_KeepsQuads(p) ==
  /\ sidecar' = [sidecar EXCEPT ![p] = <<>>]
  /\ orphaned' = [orphaned EXCEPT ![p] = {}]
  /\ UNCHANGED <<quads, saved>>

RemovePerspective(p) ==
  /\ sidecar' = [sidecar EXCEPT ![p] = <<>>]
  /\ quads' = [quads EXCEPT ![p] = {}]
  /\ orphaned' = [orphaned EXCEPT ![p] = {}]
  /\ UNCHANGED saved

Dump ==
  /\ saved' = [sidecar |-> sidecar, quads |-> quads]
  /\ UNCHANGED <<sidecar, quads, orphaned>>

(* load() empties store and sidecar first. *)
Load ==
  /\ sidecar' = saved.sidecar
  /\ quads' = saved.quads
  /\ orphaned' = [p \in Perspectives |->
       {Triple(e) : e \in {f \in ToSet(saved.sidecar[p]) :
                             Triple(f) \notin saved.quads[p]}}]
  /\ UNCHANGED saved

Next ==
  \/ \E p \in Perspectives :
       \/ \E l \in Memory!Link : AddLink(p, l) \/ RemoveLink(p, l)
       \/ RemovePerspective(p)
  \/ Dump \/ Load

(* What a SPARQL query sees of a perspective. *)
Found(p, l) == Triple(l) \in quads[p]

-----------------------------------------------------------------------------
(***************************************************************************)
(* The store implements the one in memory: adding, removing, removing a    *)
(* perspective, dumping and loading give the same links in the same order, *)
(* and the link that is added or removed is the one that was asked for.    *)
(* Only a removal that names an empty predicate finds a link here that the *)
(* store in memory does not find.                                          *)
(***************************************************************************)
FindsEmpty ==
  \E p \in Perspectives, l \in Memory!Link :
    l.predicate = "empty" /\ RemoveLink(p, l)

MemoryStep ==
  /\ Memory!Next \/ FindsEmpty
  /\ \A p \in Perspectives, l \in Memory!Link :
       /\ AddLink(p, l) => Memory!AddLink(p, l)
       /\ RemoveLink(p, l) /\ l.predicate # "empty" => Memory!RemoveLink(p, l)

ImplementsMemory == Memory!Init /\ [][MemoryStep]_storeVars

(***************************************************************************)
(* A SPARQL query finds no triple that no link has, and misses a link only *)
(* when another one with its triple was removed while both were there.     *)
(***************************************************************************)
QuadsOfLinks ==
  \A p \in Perspectives :
    /\ \A t \in quads[p] : \E e \in ToSet(sidecar[p]) : Triple(e) = t
    /\ \A e \in ToSet(sidecar[p]) : Found(p, e) \/ Triple(e) \in orphaned[p]
=============================================================================
