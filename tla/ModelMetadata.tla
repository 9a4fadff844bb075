---------------------------- MODULE ModelMetadata ----------------------------
(***************************************************************************)
(* What the decorators of model classes, or a JSON Schema, leave behind:   *)
(* the tables of properties and relations, and the SHACL shape made of     *)
(* them.                                                                   *)
(*                                                                         *)
(* A string is <<"string", text>>, a number <<"number", n>>, an address    *)
(* <<"uri", name>>; the target of a link is an address or the literal of a *)
(* string or a number.                                                     *)
(***************************************************************************)
EXTENDS Naturals, Sequences, SequencesExt

CONSTANTS
  Classes,    \* the model classes
  Chain,      \* of a class: itself, its superclass, and so on
  Declared,   \* the decorators of a class, in order, those of its fields
  Schemas,    \* the JSON Schema of a class that is made from one
  None        \* undefined

VARIABLES
  props, rels,  \* the table in the metadata of a class itself, or None
  defined       \* the classes whose definition did not throw

metadataVars == <<props, rels, defined>>

Uri(name) == <<"uri", name>>
Str(text) == <<"string", text>>
Num(n) == <<"number", n>>
LiteralOf(type, text) == <<"literal", type, text>>

Uninitialized == LiteralOf("string", "uninitialized")
EmptyLiteral == LiteralOf("string", "")
HasChild == "ad4m://has_child"

OrElse(value, default) == IF value = None THEN default ELSE value
FirstOf(values) ==
  LET given == SelectSeq(values, LAMBDA v : v # None) IN IF given = <<>> THEN None ELSE Head(given)

MInit ==
  /\ props = [c \in Classes |-> None]
  /\ rels = [c \in Classes |-> None]
  /\ defined = {}

-----------------------------------------------------------------------------
(***************************************************************************)
(* The entry a decorator of a property makes, if it accepts its options.   *)
(***************************************************************************)
Options(d) ==
  IF d.by \notin {"Property", "ReadOnly"} THEN d
  ELSE [d EXCEPT !.language = OrElse(@, "literal"),
                 !.initial = IF d.required THEN OrElse(@, Uninitialized) ELSE @,
                 !.readOnly = @ \/ d.by = "ReadOnly"]

Accepts(o) == o.through # None /\ (o.required => o.initial # None)

PropertyEntry(o) ==
  [name |-> o.name, through |-> o.through, required |-> o.required, readOnly |-> o.readOnly,
   language |-> o.language, initial |-> o.initial, writable |-> ~o.readOnly, flag |-> FALSE]

FlagEntry(d) ==
  [PropertyEntry(d) EXCEPT !.required = TRUE, !.readOnly = TRUE, !.writable = FALSE, !.flag = TRUE]

RelationEntry(d) ==
  [name |-> d.name, predicate |-> OrElse(d.through, HasChild), kind |-> d.by, target |-> d.target]

OfProperty(d) == d.by \in {"Property", "ReadOnly", "Optional", "Flag"}
EntryOf(d) == IF d.by = "Flag" THEN FlagEntry(d) ELSE PropertyEntry(Options(d))
Fails(d) == OfProperty(d) /\ (IF d.by = "Flag" THEN d.through = None \/ d.initial = None
                              ELSE ~Accepts(Options(d)))

One(r) == r.kind \in {"hasOne", "belongsToOne"}
Reversed(r) == r.kind \in {"belongsToOne", "belongsToMany"}

-----------------------------------------------------------------------------
(* An object with a key for every name, in the order of insertion. *)
Put(table, entry) ==
  IF \E i \in DOMAIN table : table[i].name = entry.name
  THEN [i \in DOMAIN table |-> IF table[i].name = entry.name THEN entry ELSE table[i]]
  ELSE Append(table, entry)

Assign(table, entries) == FoldLeft(Put, table, entries)

(***************************************************************************)
(* The metadata of a class inherits from that of its superclass: looking   *)
(* for the table of a class may find that of an ancestor.                  *)
(***************************************************************************)
Holders(c, tables) == SelectSeq(Chain[c], LAMBDA a : tables[a] # None)
Seen(c, tables) == LET found == Holders(c, tables) IN IF found = <<>> THEN <<>> ELSE tables[Head(found)]

Metadata(c, tables) ==
  FoldLeft(LAMBDA t, a : Assign(t, Seen(a, tables)), Seen(Last(Chain[c]), tables), Tail(Reverse(Chain[c])))

PropertiesMetadata(c) == Metadata(c, props)
RelationsMetadata(c) == Metadata(c, rels)

(* getOrCreateProps(): the table found is the table written to. *)
Register(tables, c, entries) ==
  IF entries = <<>> THEN tables
  ELSE LET found == Holders(c, tables)
           holder == IF found = <<>> THEN c ELSE Head(found)
       IN [tables EXCEPT ![holder] = Assign(Seen(c, tables), entries)]

(***************************************************************************)
(* The definition of a class: its decorators run one after the other, and  *)
(* one that throws keeps the class from being defined.                     *)
(***************************************************************************)
Decorate(c) ==
  LET ds == Declared[c]
      throws == {i \in DOMAIN ds : Fails(ds[i])}
      run == IF throws = {} THEN ds ELSE SubSeq(ds, 1, (CHOOSE i \in throws : \A j \in throws : i <= j) - 1)
      own(ok(_), entry(_)) == LET of == SelectSeq(run, ok) IN [i \in DOMAIN of |-> entry(of[i])]
  IN /\ props' = Register(props, c, own(OfProperty, EntryOf))
     /\ rels' = Register(rels, c, own(LAMBDA d : ~OfProperty(d), RelationEntry))
     /\ defined' = IF throws = {} THEN defined \cup {c} ELSE defined

(***************************************************************************)
(* fromJSONSchema(): the class of a schema, whose arrays are relations.    *)
(* A predicate that nobody gives is made of the namespace and the name.    *)
(***************************************************************************)
Namespace(s) == FirstOf(<<s.options.namespace, s.namespace, s.title, s.id>>)
PredicateOf(s, p) == FirstOf(<<p.mapped, p.through, Namespace(s) \o p.name>>)

SchemaProperty(s, p) ==
  [name |-> p.name, through |-> PredicateOf(s, p), required |-> p.required, readOnly |-> ~p.writable,
   writable |-> p.writable, language |-> FirstOf(<<p.language, s.options.language, "literal">>),
   initial |-> IF p.required THEN OrElse(p.initial, Uri("undefined")) ELSE p.initial, flag |-> FALSE]

SchemaRelation(s, p) ==
  [name |-> p.name, predicate |-> PredicateOf(s, p), kind |-> "hasMany", target |-> None]

FromJSONSchema(c) ==
  LET s == Schemas[c]
      own(array, entry(_, _)) ==
        LET of == SelectSeq(s.properties, LAMBDA p : p.array = array) IN [i \in DOMAIN of |-> entry(s, of[i])]
  IN /\ Namespace(s) # None
     /\ \A i \in DOMAIN s.properties : s.properties[i].name # "author"
     /\ props' = Register(props, c, own(FALSE, SchemaProperty))
     /\ rels' = Register(rels, c, own(TRUE, SchemaRelation))
     /\ defined' = defined \cup {c}

Define(c) ==
  /\ c \notin defined
  /\ \A a \in ToSet(Tail(Chain[c])) : a \in defined
  /\ IF c \in DOMAIN Schemas THEN FromJSONSchema(c) ELSE Decorate(c)

-----------------------------------------------------------------------------
(***************************************************************************)
(* The SHACL shape of a class: what an instance must have, and the links   *)
(* its constructor adds and its destructor removes.                        *)
(***************************************************************************)
EffectiveInitial(p) ==
  IF p.initial # None THEN p.initial
  ELSE IF p.required /\ p.writable /\ ~p.flag THEN EmptyLiteral ELSE None

PropertyShape(p) ==
  [name |-> p.name, path |-> p.through, required |-> p.required, single |-> TRUE,
   initial |-> IF p.flag THEN p.initial ELSE None]

RelationShape(r) ==
  [name |-> r.name, path |-> r.predicate, required |-> FALSE, single |-> FALSE, initial |-> None]

Shape(c) ==
  LET ps == PropertiesMetadata(c)
      many == SelectSeq(RelationsMetadata(c), LAMBDA r : ~One(r))
      built == SelectSeq(ps, LAMBDA p : EffectiveInitial(p) # None)
  IN [name |-> c,
      properties |-> [i \in DOMAIN ps |-> PropertyShape(ps[i])] \o [i \in DOMAIN many |-> RelationShape(many[i])],
      constructor |-> [i \in DOMAIN built |-> [predicate |-> built[i].through, target |-> EffectiveInitial(built[i])]],
      destructor |-> [i \in DOMAIN built |-> built[i].through]]
=============================================================================
