------------------------------- MODULE Subjects -------------------------------
(***************************************************************************)
(* A perspective with instances of several model classes: the classes are  *)
(* defined, a handle registers their shapes with the SHACL engine, whose   *)
(* cache may also be filled from links, instances are created and deleted  *)
(* by the engine, and links come and go.  Each call is one step here; the  *)
(* module Models cuts those on one instance at their awaits.               *)
(***************************************************************************)
EXTENDS ModelIncludes

CONSTANTS
  Bases,       \* the addresses instances are given
  Agent,       \* the author of the links the perspective signs
  Order,       \* the order in which the classes are defined
  Made,        \* the instances that may be made: [class, base, data, after],
               \* when the bases in after have been used
  Settings,    \* the properties that may be set: [class, base, datum]
  Asked,       \* of a class: queries that all ways to find instances support
  Trees,       \* of a class: trees of relations to include
  Sought,      \* the classes that are looked for before one is made
  Offered,     \* the links that may be added: <<source, predicate, target>>
  ShapeLinks,  \* the links that describe a shape
  Segment,     \* of an address: its last segment
  MaxLinks     \* a bound on the links of instances

VARIABLES
  links,       \* the links of the perspective, in the order of the store
  shapes,      \* the cache of the engine: None or a sequence of shapes
  registered,  \* the classes the handle has registered
  made         \* of a base that was used: the class and the shape its instance
               \* was created with, and whether no link of it was removed since

subjectVars == <<metadataVars, links, shapes, registered, made>>

Init ==
  /\ MInit
  /\ links = <<>>
  /\ shapes = None
  /\ registered = {}
  /\ made = [b \in Bases |-> None]

-----------------------------------------------------------------------------
NewLink(s, p, t, author) == [source |-> s, predicate |-> p, target |-> t, author |-> author]

Own(b, path, ls) == Along(path, From(b, ls))
Without(b, path, ls) == SelectSeq(ls, LAMBDA l : ~(l.source = b /\ l.predicate = path))

OfInstances(ls) == SelectSeq(ls, LAMBDA l : l.source \in Bases)

(* getClass(), of the shapes that are known: a sequence of at most one. *)
ClassNamed(known, name) == LET found == Named(known, name) IN IF found = <<>> THEN <<>> ELSE <<Head(found)>>

(***************************************************************************)
(* parseShapes(): a node of type NodeShape is a shape.  An attribute that  *)
(* is given several times has the last value.                              *)
(***************************************************************************)
Attribute(node, predicate, ls, default) ==
  LET own == Own(node, predicate, ls) IN IF own = <<>> THEN default ELSE Last(own).target

OfType(type, ls) ==
  {l.source : l \in {k \in ToSet(ls) : k.predicate = "rdf://type" /\ k.target = Uri(type)}}

ParseProperty(node, ls) ==
  LET Count(predicate) == Attribute(node, predicate, ls, LiteralOf("number", 0))[3]
  IN [name |-> Segment[Attribute(node, "sh://path", ls, node)[2]],
      path |-> Attribute(node, "sh://path", ls, Uri(""))[2],
      required |-> Count("sh://minCount") >= 1, single |-> Count("sh://maxCount") = 1,
      initial |-> Attribute(node, "ad4m://initial", ls, None)]

ParseShapes(ls) ==
  LET nodes == SelectSeq(Sources(ls), LAMBDA s : s \in OfType("sh://NodeShape", ls))
      members(node) == SelectSeq(Targets(Own(node, "sh://property", ls)),
                                 LAMBDA t : t \in OfType("sh://PropertyShape", ls))
      actions(node, predicate) == Attribute(node, predicate, ls, LiteralOf("json", <<>>))[3]
  IN [i \in DOMAIN nodes |->
       [name |-> Segment[Attribute(nodes[i], "sh://targetClass", ls, nodes[i])[2]],
        properties |-> [j \in DOMAIN members(nodes[i]) |-> ParseProperty(members(nodes[i])[j], ls)],
        constructor |-> actions(nodes[i], "ad4m://constructor"),
        destructor |-> actions(nodes[i], "ad4m://destructor")]]

(* getShapes(): the links are only read while nothing is in the cache. *)
GetShapes == IF shapes = None THEN ParseShapes(links) ELSE shapes

(* ensureSDNASubjectClass(), once for a class: what the cache is then. *)
Ensured(c) == IF c \in registered THEN shapes ELSE Put(OrElse(shapes, <<>>), Shape(c))

-----------------------------------------------------------------------------
(***************************************************************************)
(* createInstance() of the engine: the constructor adds its links, then a  *)
(* property that has none gets the value it is given or its initial one.   *)
(***************************************************************************)
Constructed(cls, b, ls) ==
  ls \o [i \in DOMAIN cls.constructor |->
          NewLink(b, cls.constructor[i].predicate, cls.constructor[i].target, None)]

(* The literal that create() passes for the property p. *)
Given(c, data, p) ==
  LET own == Named(data, p.name)
      declared == Named(PropertiesMetadata(c), p.name)
  IN IF own = <<>> \/ declared = <<>> THEN None ELSE ValueToLiteral(own[1].value, declared[1])

CreateInstance(c, cls, b, data, ls) ==
  FoldLeft(LAMBDA sofar, p :
             LET t == OrElse(Given(c, data, p), p.initial)
             IN IF t = None \/ Own(b, p.path, sofar) # <<>> THEN sofar
                ELSE Append(sofar, NewLink(b, p.path, t, None)),
           Constructed(cls, b, ls), cls.properties)

(* create() then replaces what writable properties have by the data. *)
Written(c, b, data, ls) ==
  FoldLeft(LAMBDA sofar, d :
             LET p == Named(PropertiesMetadata(c), d.name)
                 wanted == ValueToLiteral(d.value, p[1])
                 own == Own(b, p[1].through, sofar)
             IN IF p = <<>> \/ ~p[1].writable \/ (own # <<>> /\ own[1].target = wanted) THEN sofar
                ELSE Append(Without(b, p[1].through, sofar), NewLink(b, p[1].through, wanted, Agent)),
           ls, data)

(***************************************************************************)
(* create(), of a class the handle knows or registers now; it throws if    *)
(* the cache has no shape of that name any more.  It also throws when the  *)
(* instance has no link at all.                                            *)
(***************************************************************************)
Create(c, b, data) ==
  /\ c \in defined
  /\ made[b] = None
  /\ LET cls == ClassNamed(Ensured(c), c)
         ls == IF cls = <<>> THEN links ELSE Written(c, b, data, CreateInstance(c, cls[1], b, data, links))
     IN /\ Len(OfInstances(ls)) <= MaxLinks
        /\ links' = ls
        /\ made' = IF From(b, ls) = <<>> THEN made
                   ELSE [made EXCEPT ![b] = [class |-> c, shape |-> cls[1], intact |-> TRUE]]
  /\ shapes' = Ensured(c)
  /\ registered' = registered \cup {c}
  /\ UNCHANGED metadataVars

(* findAll() and findById() register the class, too. *)
Find(c) ==
  /\ c \in defined \ registered
  /\ shapes' = Ensured(c)
  /\ registered' = registered \cup {c}
  /\ UNCHANGED <<metadataVars, links, made>>

(* delete(): the destructor removes what the constructor may have added. *)
Delete(b) ==
  /\ made[b] # None /\ From(b, links) # <<>>
  /\ LET cls == ClassNamed(GetShapes, made[b].class)
     IN links' = IF cls = <<>> THEN links
                 ELSE FoldLeft(LAMBDA sofar, path : Without(b, path, sofar), links, cls[1].destructor)
  /\ made' = [made EXCEPT ![b].intact = FALSE]
  /\ shapes' = GetShapes
  /\ UNCHANGED <<metadataVars, registered>>

(* executeAction() with the setter of a property, which has a value. *)
SetSingleTarget(c, b, d) ==
  /\ c \in registered
  /\ \E p \in ToSet(PropertiesMetadata(c)) :
       /\ p.name = d.name /\ p.writable
       /\ Targets(Own(b, p.through, links)) \notin {<<>>, <<ValueToLiteral(d.value, p)>>}
       /\ links' = Append(Without(b, p.through, links),
                         NewLink(b, p.through, ValueToLiteral(d.value, p), None))
  /\ UNCHANGED <<metadataVars, shapes, registered, made>>

(* A bound: a link is added once, when what it is about has links. *)
AddLink(s, p, t) ==
  /\ \A n \in {s, t} \cap Bases : From(n, links) # <<>>
  /\ <<s, p, t>> \notin Triples(links)
  /\ Len(OfInstances(links)) < MaxLinks
  /\ links' = Append(links, NewLink(s, p, t, Agent))
  /\ UNCHANGED <<metadataVars, shapes, registered, made>>

(* A bound: the links the engine has made are left to delete(). *)
RemoveLink(i) ==
  /\ links[i].author = Agent
  /\ links' = RemoveAt(links, i)
  /\ made' = [made EXCEPT ![links[i].source].intact = FALSE]
  /\ UNCHANGED <<metadataVars, shapes, registered>>

(* The links of a shape come from another replica, before all others. *)
ShapeComes ==
  /\ links = <<>>
  /\ links' = links \o ShapeLinks
  /\ UNCHANGED <<metadataVars, shapes, registered, made>>

(* A bound: the cache is only filled anew before instances are made. *)
LoadShapes ==
  /\ links = ShapeLinks
  /\ shapes' = ParseShapes(links)
  /\ UNCHANGED <<metadataVars, links, registered, made>>

(* The classes are defined in an order, and all but the last one at first. *)
DefineClass(i) ==
  /\ i < Len(Order) => OfInstances(links) = <<>> /\ registered = {}
  /\ \A j \in 1..(i - 1) : Order[j] \in defined
  /\ Define(Order[i])
  /\ UNCHANGED <<links, shapes, registered, made>>

Next ==
  \/ \E i \in DOMAIN Order : DefineClass(i)
  \/ \E c \in Sought : Find(c)
  \/ \E b \in Bases : Delete(b)
  \/ \E m \in Made : (\A b \in m.after : made[b] # None) /\ Create(m.class, m.base, m.data)
  \/ \E t \in Settings : SetSingleTarget(t.class, t.base, t.datum)
  \/ \E l \in Offered : AddLink(l[1], l[2], l[3])
  \/ \E i \in DOMAIN links : RemoveLink(i)
  \/ ShapeComes \/ LoadShapes

Spec == Init /\ [][Next]_subjectVars

-----------------------------------------------------------------------------
Everything == [where |-> <<>>, parent |-> None, order |-> None, offset |-> None, limit |-> None]

IsInstance(cls, b, ls) == \A p \in ToSet(cls.properties) : p.required => Own(b, p.path, ls) # <<>>

QueryInstances(cls, ls) == {l.source : l \in {k \in ToSet(ls) : IsInstance(cls, k.source, ls)}}

(* The engine knows the shape that class c has now. *)
Current(c) == shapes # None /\ ClassNamed(shapes, c) = <<Shape(c)>>

(***************************************************************************)
(* An instance made by create(), by the shape its class still has, is an   *)
(* instance for everybody as long as nobody removes a link of it: findAll, *)
(* with each of its pages, the SPARQL queries and the engine all find it.  *)
(* This depends on what the decorators default to, what the constructor of *)
(* the shape adds, and what create() replaces afterwards.                  *)
(***************************************************************************)
CreatedIsFound ==
  \A b \in {a \in Bases : made[a] # None} :
    LET c == made[b].class
    IN made[b].intact /\ made[b].shape = Shape(c) /\ RequiredOf(c) # {} =>
         /\ \E page \in DOMAIN FindAll(c, Everything, links) :
              Paginate(c, Everything, 1, page, links) = <<b>>
         /\ FindOne(c, Everything, links) # <<>>
         /\ \A answer \in SparqlAnswers(c, Everything, links) : b \in answer
         /\ Current(c) => b \in QueryInstances(Shape(c), links)

(* No property of class c has two values, of an instance s. *)
SingleValued(c, s) == \A p \in ToSet(PropertiesMetadata(c)) : Len(Own(s, p.through, links)) <= 1

RightFlags(c, s) ==
  \A p \in ToSet(PropertiesMetadata(c)) : p.flag => p.initial \in ToSet(Targets(Own(s, p.through, links)))

(* getInstanceData() takes the first link and parses every literal. *)
EngineValue(p, own) ==
  LET parsed(t) == IF IsLiteral(t) THEN ParseLiteral(t) ELSE t
      values == [i \in DOMAIN own |-> parsed(own[i].target)]
  IN IF ~p.single THEN <<"array">> \o values ELSE IF own = <<>> THEN NoValue ELSE values[1]

(***************************************************************************)
(* A SPARQL query does not encode the text of a literal, and the links do: *)
(* a text that it gives stands for the one that is encoded so, if any is.  *)
(***************************************************************************)
StandsFor(v) ==
  IF v[1] # "string" THEN v
  ELSE IF \E t \in DOMAIN Encoded : Encoded[t] = v[2] THEN Str(Decoded(v[2])) ELSE Str(None)

AsStored(q) ==
  LET stored(cond) == [op \in DOMAIN cond |-> IF op = "in" THEN {StandsFor(v) : v \in cond.in}
                                             ELSE StandsFor(cond[op])]
  IN [q EXCEPT !.where = [name \in DOMAIN @ |-> stored(@[name])]]

(***************************************************************************)
(* While no property has two values, the readers of a perspective agree.   *)
(* The SPARQL query of a class finds what findAll finds, if its flags have *)
(* their value, for the queries of literals that both support, when the    *)
(* texts are taken as they are stored; and the engine and the model layer  *)
(* read the same value of a literal property.                              *)
(***************************************************************************)
ReadersAgree ==
  \A c \in defined : RequiredOf(c) # {} /\ (\A s \in ToSet(Sources(links)) : SingleValued(c, s)) =>
    /\ \A q \in Asked[c] : SparqlAnswers(c, q, links) =
                               {{s \in ToSet(FindAll(c, AsStored(q), links)) : RightFlags(c, s)}}
    /\ Current(c) => \A s \in ToSet(Sources(links)), p \in ToSet(Shape(c).properties) :
         LET d == Named(PropertiesMetadata(c), p.name)
         IN d # <<>> /\ d[1].language = "literal" =>
              EngineValue(p, Own(s, p.path, links)) = Field(c, s, links, p.name)

(* Rows wire each instance that they have once to its parent. *)
RowsWired(c, branches, rows) ==
  LET at(source) == {o \in rows : o.source = source}
      sole(r) == {o \in rows : o.parent = r.parent /\ o.field = r.field} = {r}
      answers == BatchAnswers(c, branches, rows)
  IN \A r \in rows, br \in branches :
       /\ br.depth = r.depth
       /\ at(r.source) = {r}
       /\ {o.depth : o \in at(r.parent)} = {br.parent}
       /\ One(br.relation) => sole(r)
       => \A wired \in answers :
            \E w \in wired : w.child = r /\ w.parent.source = r.parent /\ w.parent.depth = br.parent

(***************************************************************************)
(* A query with includes wires each instance that it finds once, under one *)
(* parent that it also finds, to this parent, whichever row comes first;   *)
(* unless the relation has room for one, and another one is found for it.  *)
(***************************************************************************)
IncludesWired ==
  \A c \in defined : \A tree \in Trees[c] :
    LET branches == Flattened(c, tree)
    IN \A q \in Asked[c] \cup {Everything} : RowsWired(c, branches, BatchRows(c, q, branches, links))
=============================================================================
