----------------------------- MODULE ModelQueries -----------------------------
(***************************************************************************)
(* The two ways to find the instances of a model class among the links of  *)
(* a perspective: findAll() of Ad4mModel, which filters hydrated objects,  *)
(* and the SPARQL queries, plain and with includes, whose rows are         *)
(* hydrated.  A query may have a parent, a condition for each of some      *)
(* fields, an order, an offset and a limit; a condition gives for each of  *)
(* its operators an argument, numbers for the comparisons.                 *)
(***************************************************************************)
EXTENDS ModelMetadata, FiniteSetsExt

CONSTANTS
  Encoded,  \* of a text: its form in a URI
  Rank      \* of a value: its place in the order of values

Self == Uri("self")
NoValue == <<"absent">>   \* a field that keeps the default of its class

Decoded(text) == IF \E t \in DOMAIN Encoded : Encoded[t] = text
                 THEN CHOOSE t \in DOMAIN Encoded : Encoded[t] = text ELSE text

(* valueToLiteral() for the links of a field, toLiteralURI() for a query. *)
ValueToLiteral(v, p) ==
  IF p.language # "literal" THEN v
  ELSE LiteralOf(v[1], IF v[1] = "string" THEN Encoded[v[2]] ELSE v[2])
ToLiteralURI(v) == LiteralOf(v[1], v[2])

IsLiteral(t) == t[1] = "literal"
ParseLiteral(t) == <<t[2], IF t[2] = "string" THEN Decoded(t[3]) ELSE t[3]>>

From(s, ls) == SelectSeq(ls, LAMBDA l : l.source = s)
Along(p, ls) == SelectSeq(ls, LAMBDA l : l.predicate = p)
Targets(ls) == [i \in DOMAIN ls |-> ls[i].target]
Triples(ls) == {<<l.source, l.predicate, l.target>> : l \in ToSet(ls)}

Named(entries, name) == SelectSeq(entries, LAMBDA e : e.name = name)

-----------------------------------------------------------------------------
(***************************************************************************)
(* hydrateInstance(): the links of a predicate are those of the last       *)
(* property that goes through it, or of the last relation with it; a       *)
(* property has the value of its last link, a relation all its targets.    *)
(***************************************************************************)
Hydrates(entries, e, key) == e = Last(SelectSeq(entries, LAMBDA o : o[key] = e[key]))

PropertyValue(p, own) ==
  IF own = <<>> THEN NoValue
  ELSE LET t == Last(own).target
       IN IF p.language = "literal" /\ IsLiteral(t) THEN ParseLiteral(t) ELSE t

RelationValue(r, own) ==
  IF own = <<>> THEN NoValue
  ELSE IF One(r) THEN Last(own).target ELSE <<"array">> \o Targets(own)

(* The author of an instance is that of its first link, if it has one. *)
Author(own) == IF own = <<>> \/ own[1].author = None THEN NoValue ELSE own[1].author

Field(c, s, ls, name) ==
  LET ps == PropertiesMetadata(c)
      rs == RelationsMetadata(c)
      own == From(s, ls)
      p == Named(ps, name)
      r == Named(rs, name)
  IN IF name = "id" THEN s
     ELSE IF name = "author" THEN Author(own)
     ELSE IF p # <<>> THEN IF Hydrates(ps, p[1], "through") THEN PropertyValue(p[1], Along(p[1].through, own))
                           ELSE NoValue
     ELSE IF r # <<>> /\ Hydrates(rs, r[1], "predicate")
             /\ \A i \in DOMAIN ps : ps[i].through # r[1].predicate
     THEN RelationValue(r[1], Along(r[1].predicate, own))
     ELSE NoValue

-----------------------------------------------------------------------------
IsNumber(v) == v[1] = "number"

Compares(op, v, arg) ==
  IsNumber(v) /\ CASE op = "gt" -> v[2] > arg [] op = "gte" -> v[2] >= arg
                   [] op = "lt" -> v[2] < arg [] op = "lte" -> v[2] <= arg

Comparisons == {"gt", "gte", "lt", "lte"}

(* applyWhereFilter(): no text is part of another one. *)
Matches(v, cond) ==
  \A op \in DOMAIN cond :
    CASE op = "is" -> v = cond.is
      [] op = "in" -> v \in cond.in
      [] op = "not" -> v # cond.not
      [] op \in Comparisons -> Compares(op, v, cond[op])
      [] op = "contains" -> v[1] = "string" => v = cond.contains
      [] op = "between" -> TRUE

RequiredOf(c) == {p \in ToSet(PropertiesMetadata(c)) : p.required}

Sources(ls) == FoldLeft(LAMBDA found, l : IF l.source \in ToSet(found) THEN found ELSE Append(found, l.source),
                        <<>>, ls)

Candidates(c, ls) ==
  LET required == RequiredOf(c)
  IN IF required = {} THEN <<>>
     ELSE SelectSeq(Sources(ls), LAMBDA s :
            s # Self /\ \A p \in required : Along(p.through, From(s, ls)) # <<>>)

(* A parent is given with a predicate, or with a model and perhaps a field. *)
ChildOf(parent, s, ls) ==
  <<parent.id, OrElse(parent.predicate, HasChild), s>> \in Triples(ls)

(* sort() is stable. *)
Sorted(c, ls, order, found) ==
  IF order = None THEN found
  ELSE SortSeq(found, LAMBDA a, b :
    LET va == Rank[Field(c, a, ls, order.by)] vb == Rank[Field(c, b, ls, order.by)]
    IN IF order.descending THEN va > vb ELSE va < vb)

Slice(found, offset, limit) ==
  SubSeq(found, offset + 1, IF limit = None THEN Len(found) ELSE Min({offset + limit, Len(found)}))

FindAll(c, q, ls) ==
  LET found == SelectSeq(Candidates(c, ls), LAMBDA s :
        /\ q.parent = None \/ ChildOf(q.parent, s, ls)
        /\ \A name \in DOMAIN q.where : Matches(Field(c, s, ls, name), q.where[name]))
  IN Slice(Sorted(c, ls, q.order, found), OrElse(q.offset, 0), q.limit)

FindOne(c, q, ls) == FindAll(c, [q EXCEPT !.limit = 1], ls)

Paginate(c, q, size, page, ls) ==
  Slice(FindAll(c, [q EXCEPT !.offset = None, !.limit = None], ls), (page - 1) * size, size)

-----------------------------------------------------------------------------
(***************************************************************************)
(* The conditions a SPARQL query puts on an instance b, given the triples. *)
(* An instance must have the properties that are required or, if none is,  *)
(* the first one with an initial value; a flag with that value.            *)
(***************************************************************************)
Demanded(c) ==
  LET ps == PropertiesMetadata(c)
      required == SelectSeq(ps, LAMBDA p : p.required)
      initial == SelectSeq(ps, LAMBDA p : p.initial # None)
  IN ToSet(IF required # <<>> THEN required ELSE IF initial # <<>> THEN <<Head(initial)>> ELSE <<>>)

ObjectsOf(T, b, predicate) == {t[3] : t \in {u \in T : u[1] = b /\ u[2] = predicate}}

(* Mutant: every initial value is demanded, not only that of a flag. *)
Conforms_Initial(T, demanded, b) ==
  \A p \in demanded :
    IF p.initial # None THEN p.initial \in ObjectsOf(T, b, p.through) ELSE ObjectsOf(T, b, p.through) # {}

Conforms(T, demanded, b) ==
  \A p \in demanded :
    IF p.flag THEN p.initial \in ObjectsOf(T, b, p.through) ELSE ObjectsOf(T, b, p.through) # {}

(* A condition on a relation: the nodes it leads to. *)
RelationHolds(T, r, b, cond) ==
  LET nodes == IF Reversed(r) THEN {t[1] : t \in {u \in T : u[2] = r.predicate /\ u[3] = b}}
               ELSE ObjectsOf(T, b, r.predicate)
  IN \A op \in DOMAIN cond :
       CASE op = "is" -> cond.is \in nodes
         [] op = "in" -> cond.in \cap nodes # {}
         [] op = "not" -> cond.not \notin nodes
         [] OTHER -> TRUE

(***************************************************************************)
(* A comparison is one of strings, for a literal that of its address,      *)
(* which sorts after every number; other targets do not compare with one.  *)
(* "contains" looks into the text of any target, but not for an address,   *)
(* unless the property is a literal.  No text is part of another one.      *)
(***************************************************************************)
TermCompares(op, p, t, arg) ==
  LET literal == p.language = "literal"
  IN \/ op \in {"gt", "gte"} /\ literal
     \/ op = "contains" /\ (literal \/ arg[1] = "string") /\ Last(t) = arg[2]

(* Mutant: "not" asks for another value instead of none that is the one. *)
PropertyHolds_NotAny(T, p, b, cond) ==
  LET values == ObjectsOf(T, b, p.through)
      term(v) == IF p.language = "literal" THEN ToLiteralURI(v) ELSE v
  IN /\ "is" \in DOMAIN cond => term(cond.is) \in values
     /\ "in" \in DOMAIN cond => \E v \in cond.in : term(v) \in values
     /\ "not" \in DOMAIN cond => \E t \in values : t # term(cond.not)

PropertyHolds(T, p, b, cond) ==
  LET values == ObjectsOf(T, b, p.through)
      term(v) == IF p.language = "literal" THEN ToLiteralURI(v) ELSE v
      compared == DOMAIN cond \ {"is", "in", "not"}
  IN /\ "is" \in DOMAIN cond => term(cond.is) \in values
     /\ "in" \in DOMAIN cond => \E v \in cond.in : term(v) \in values
     /\ "not" \in DOMAIN cond => term(cond.not) \notin values
     /\ compared # {} => \E t \in values : \A op \in compared : TermCompares(op, p, t, cond[op])

Where(T, c, b, name, cond) ==
  LET r == Named(RelationsMetadata(c), name)
      p == Named(PropertiesMetadata(c), name)
  IN IF name \in {"author", "timestamp"} THEN TRUE
     ELSE IF name = "id" THEN IF "in" \in DOMAIN cond THEN b \in cond.in ELSE b = cond.is
     ELSE IF r # <<>> THEN RelationHolds(T, r[1], b, cond)
     ELSE IF p # <<>> THEN PropertyHolds(T, p[1], b, cond)
     ELSE TRUE

(* resolveParentPredicate(); None if it throws. *)
ParentPredicate(parent, c) ==
  IF parent.predicate # None THEN parent.predicate
  ELSE LET rs == RelationsMetadata(parent.model)
           named == IF parent.field # None THEN Named(rs, parent.field)
                    ELSE SelectSeq(rs, LAMBDA r : r.target = c)
       IN IF named = <<>> THEN None ELSE named[1].predicate

Parented(T, c, b, parent) == parent = None \/ b \in ObjectsOf(T, parent.id, ParentPredicate(parent, c))

(***************************************************************************)
(* The rows of the query: a triple of each instance, of which a limit      *)
(* leaves some.  A list of several values is not separated by commas and   *)
(* the query does not parse.                                               *)
(***************************************************************************)
Parses(c, q) ==
  /\ q.parent # None => ParentPredicate(q.parent, c) # None
  /\ \A name \in DOMAIN q.where \ {"author", "timestamp"} :
       "in" \in DOMAIN q.where[name] => Cardinality(q.where[name].in) <= 1

Rows(c, q, ls) ==
  LET T == Triples(ls)
      demanded == Demanded(c)
      found == {b \in {t[1] : t \in T} :
                 /\ Conforms(T, demanded, b)
                 /\ Parented(T, c, b, q.parent)
                 /\ \A name \in DOMAIN q.where : Where(T, c, b, name, q.where[name])}
  IN {t \in T : t[1] \in found}

Kept(rows, q) ==
  LET left == Max({0, Cardinality(rows) - OrElse(q.offset, 0)})
  IN kSubset(IF q.limit = None THEN left ELSE Min({left, q.limit}), rows)

(* matchesCondition(), for an author or a time that no row gives. *)
PostMatches(cond) == DOMAIN cond = {} \/ "not" \in DOMAIN cond

(* What instancesFromSPARQLResult() may return. *)
SparqlAnswers(c, q, ls) ==
  LET passes == \A name \in DOMAIN q.where \cap {"author", "timestamp"} : PostMatches(q.where[name])
  IN {IF passes THEN {t[1] : t \in R} ELSE {} : R \in Kept(Rows(c, q, ls), q)}
=============================================================================
