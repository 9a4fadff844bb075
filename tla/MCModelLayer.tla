---------------------------- MODULE MCModelLayer ----------------------------
(***************************************************************************)
(* The model layer: a behaviour exercises the calls on one instance, cut   *)
(* at their awaits, or a perspective with instances of several classes.    *)
(***************************************************************************)
EXTENDS MCModels, MCClasses

CONSTANTS
  Classes, Chain, Declared, Schemas, Encoded, Rank, Bases, Order, Made, Settings, Sought, Asked,
  Trees, Offered, ShapeLinks, Segment  \* those of Subjects

(* What is nested comes after what it is nested under. *)
ASSUME TreesAssumption ==
  \A k \in DOMAIN Order : \A tree \in Trees[Order[k]] :
    tree \in Seq([field : STRING, under : Nat]) /\ \A i \in DOMAIN tree : tree[i].under < i

VARIABLES
  layer,  \* what this behaviour exercises: "instance" or "subjects"
  props, rels, defined, graph, shapes, registered, made

subjectVars == <<props, rels, defined, graph, shapes, registered, made>>
lvars == <<layer, hvars, subjectVars>>

Perspective ==
  INSTANCE Subjects WITH links <- graph, Agent <- "agent", MaxLinks <- 6

LInit ==
  /\ layer \in {"instance", "subjects"}
  /\ HInit
  /\ Perspective!Init

LNext ==
  \/ layer = "instance" /\ HNext /\ UNCHANGED <<layer, subjectVars>>
  \/ layer = "subjects" /\ Perspective!Next /\ UNCHANGED <<layer, hvars>>

LSpec == LInit /\ [][LNext]_lvars

-----------------------------------------------------------------------------
(***************************************************************************)
(* An instance made by create(), by the shape its class still has, is      *)
(* found by findAll, by the SPARQL query of its class and by the engine,   *)
(* as long as no link of it is removed.                                    *)
(***************************************************************************)
CreatedIsFound == layer = "subjects" => Perspective!CreatedIsFound

(***************************************************************************)
(* While no property has two values, a SPARQL query finds what findAll     *)
(* finds when it is asked for the texts that the links have, encoded, and  *)
(* the engine reads what the model layer reads.                            *)
(***************************************************************************)
ReadersAgree == layer = "subjects" => Perspective!ReadersAgree

(***************************************************************************)
(* A query with includes wires an instance that it finds once to the       *)
(* parent it was found by, whichever row comes first.                      *)
(***************************************************************************)
IncludesWired == layer = "subjects" => Perspective!IncludesWired
=============================================================================
