----------------------------- MODULE ModelIncludes -----------------------------
(***************************************************************************)
(* Queries that include relations: one query has a branch for the roots    *)
(* and one for each relation of the include tree, and its rows are wired   *)
(* to a tree of instances.  An include tree is the sequence of its fields, *)
(* depth first, each with the place of the field it is nested under, or 0. *)
(***************************************************************************)
EXTENDS ModelQueries

RootDepth == 0

RelationOf(class, include) == Named(RelationsMetadata(class), include.field)

(***************************************************************************)
(* The class each include of the tree leads to from class c, the place 0.  *)
(* A field that is no relation, or one with no target, is left out with    *)
(* all that is nested under it.                                            *)
(***************************************************************************)
TargetsOf(c, tree) ==
  LET target[i \in 0..Len(tree)] ==
        IF i = 0 THEN c
        ELSE LET class == target[tree[i].under]
                 relation == RelationOf(class, tree[i])
             IN IF class = None \/ relation = <<>> THEN None ELSE relation[1].target
  IN target

(* The includes that remain are numbered, depth first. *)
DepthOf(target, i) == Cardinality({j \in 1..i : target[j] # None})

(* The branches of the query, one for each include that remains. *)
Flattened(c, tree) ==
  LET target == TargetsOf(c, tree)
      branch(i, under) ==
        [depth |-> DepthOf(target, i), parent |-> DepthOf(target, under), class |-> target[i],
         field |-> tree[i].field, relation |-> RelationOf(target[under], tree[i])[1]]
  IN {branch(i, tree[i].under) : i \in {j \in DOMAIN tree : target[j] # None}}

(* The class at a depth of the tree. *)
ClassAt(c, branches, depth) ==
  IF depth = RootDepth THEN c ELSE (CHOOSE br \in branches : br.depth = depth).class

-----------------------------------------------------------------------------
(***************************************************************************)
(* The conditions on a root.  Only plain values and lists count; a literal *)
(* is compared as an address with the bare value, which it never is, and   *)
(* so is each value of a list.                                             *)
(***************************************************************************)
RootWhere(T, c, b, name, cond) ==
  LET p == Named(PropertiesMetadata(c), name)
  IN IF name = "id" THEN IF "in" \in DOMAIN cond THEN b \in cond.in ELSE "is" \in DOMAIN cond => b = cond.is
     ELSE IF name \in {"author", "timestamp"} \/ p = <<>> THEN TRUE
     ELSE /\ "is" \in DOMAIN cond => p[1].language # "literal" /\ cond.is \in ObjectsOf(T, b, p[1].through)
          /\ "in" \in DOMAIN cond => p[1].language # "literal"
                                     /\ cond.in \cap ObjectsOf(T, b, p[1].through) # {}

IsRoot(T, c, demanded, q, b) ==
  /\ Conforms(T, demanded, b)
  /\ Parented(T, c, b, q.parent)
  /\ \A name \in DOMAIN q.where : RootWhere(T, c, b, name, q.where[name])

(* The pairs of a parent and a child that a relation links. *)
Led(T, r) ==
  {IF Reversed(r) THEN <<t[3], t[1]>> ELSE <<t[1], t[3]>> : t \in {u \in T : u[2] = r.predicate}}

(***************************************************************************)
(* The rows of the query, but for their triples: an instance at a depth,   *)
(* with the parent and the relation it was found by.  Only the parents of  *)
(* the first level are asked to be roots.                                  *)
(***************************************************************************)
BatchRows(c, q, branches, ls) ==
  LET T == Triples(ls)
      subjects == {t[1] : t \in T}
      ofRoot == Demanded(c)
      found(br) ==
        LET demanded == Demanded(br.class) IN
        {[depth |-> br.depth, parent |-> pair[1], field |-> br.field, source |-> pair[2]] :
          pair \in {u \in Led(T, br.relation) :
                     /\ u[2] \in subjects
                     /\ Conforms(T, demanded, u[2])
                     /\ br.parent = RootDepth => IsRoot(T, c, ofRoot, q, u[1])}}
  IN {[depth |-> RootDepth, parent |-> None, field |-> None, source |-> b] :
       b \in {s \in subjects : IsRoot(T, c, ofRoot, q, s)}}
     \cup (UNION {found(br) : br \in branches})

(***************************************************************************)
(* groupBatchRows(): an instance at a depth has the parent of its first    *)
(* row, which may be any of its rows.                                      *)
(***************************************************************************)
Groups(rows) ==
  LET keys == {<<r.depth, r.source>> : r \in rows}
      of(k) == {r \in rows : <<r.depth, r.source>> = k}
  IN {{first[k] : k \in keys} : first \in {f \in [keys -> rows] : \A k \in keys : f[k] \in of(k)}}

(* Mutant: the parent is looked for at the depth right above. *)
Wired_Adjacent(c, branches, groups) ==
  {w \in {[parent |-> p, child |-> g, field |-> g.field] : p \in groups, g \in groups} :
    /\ w.parent.depth = w.child.depth - 1
    /\ w.parent.source = w.child.parent
    /\ Named(RelationsMetadata(ClassAt(c, branches, w.parent.depth)), w.field) # <<>>}

(***************************************************************************)
(* An instance is wired to its parent at the nearest depth above that has  *)
(* one of that address, if the class there has the relation.               *)
(***************************************************************************)
Wired(c, branches, groups) ==
  {w \in {[parent |-> p, child |-> g, field |-> g.field] : p \in groups, g \in groups} :
    /\ w.parent.depth < w.child.depth
    /\ w.parent.source = w.child.parent
    /\ \A o \in groups : o.source = w.child.parent /\ o.depth < w.child.depth => o.depth <= w.parent.depth
    /\ Named(RelationsMetadata(ClassAt(c, branches, w.parent.depth)), w.field) # <<>>}

(***************************************************************************)
(* A relation of one instance keeps the last one wired to it, which may be *)
(* any of them.                                                            *)
(***************************************************************************)
Standing(c, branches, wired) ==
  LET single(w) == One(Named(RelationsMetadata(ClassAt(c, branches, w.parent.depth)), w.field)[1])
      rivals(w) == {v \in wired : v.parent = w.parent /\ v.field = w.field}
  IN {kept \in SUBSET wired : \A w \in wired :
        IF single(w) THEN Cardinality(kept \cap rivals(w)) = 1 ELSE w \in kept}

(* What hydrateBatchResult() may return: how the instances are wired. *)
BatchAnswers(c, branches, rows) ==
  UNION {Standing(c, branches, Wired(c, branches, groups)) : groups \in Groups(rows)}
=============================================================================
