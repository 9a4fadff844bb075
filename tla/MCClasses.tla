------------------------------ MODULE MCClasses ------------------------------
(***************************************************************************)
(* Model classes for the checks: a post with a flag and comments, its      *)
(* comments with replies, an article that extends the post, and a note     *)
(* that is made from a JSON Schema.                                        *)
(***************************************************************************)
EXTENDS Naturals, Sequences

CONSTANT None

MCBases == {<<"uri", "b1">>, <<"uri", "b2">>, <<"uri", "b3">>}

MCClassNames == {"Post", "Comment", "Article", "Note"}

MCChain == [c \in MCClassNames |-> IF c = "Article" THEN <<"Article", "Post">> ELSE <<c>>]

Field(by, name, through) ==
  [by |-> by, name |-> name, through |-> through, required |-> FALSE, readOnly |-> FALSE,
   language |-> None, initial |-> None, target |-> None]

MCDeclared ==
  [c \in MCClassNames |->
    CASE c = "Post" ->
           <<[Field("Flag", "type", "post://type") EXCEPT !.initial = <<"uri", "post">>],
             [Field("Property", "title", "post://title") EXCEPT !.required = TRUE],
             [Field("Optional", "tag", "post://tag") EXCEPT !.language = "literal"],
             [Field("hasMany", "comments", "post://comment") EXCEPT !.target = "Comment"],
             [Field("hasOne", "pinned", "post://pinned") EXCEPT !.target = "Comment"]>>
      [] c = "Comment" ->
           <<[Field("Property", "body", "comment://body") EXCEPT !.required = TRUE],
             [Field("hasMany", "replies", "comment://reply") EXCEPT !.target = "Comment"],
             [Field("belongsToOne", "post", "post://comment") EXCEPT !.target = "Post"]>>
      [] c = "Article" ->
           <<[Field("ReadOnly", "origin", "article://origin") EXCEPT !.required = TRUE]>>
      [] OTHER -> <<>>]

SchemaField(name, required, array) ==
  [name |-> name, mapped |-> None, through |-> None, required |-> required, writable |-> TRUE,
   array |-> array, language |-> None, initial |-> None]

MCSchemas ==
  [c \in {"Note"} |->
    [options |-> [namespace |-> None, language |-> None], namespace |-> "note://", title |-> "Note", id |-> None,
     properties |-> <<SchemaField("title", TRUE, FALSE), SchemaField("tags", FALSE, TRUE)>>]]

MCEncoded ==
  [t \in {"x", "y/z", "y%2Fz"} |-> CASE t = "x" -> "x" [] t = "y/z" -> "y%2Fz" [] t = "y%2Fz" -> "y%252Fz"]
MCRank == <<>>

MCOrder == <<"Post", "Comment", "Note", "Article">>

Instance(class, base, data, after) ==
  [class |-> class, base |-> <<"uri", base>>, data |-> data, after |-> after]
Value(name, text) == [name |-> name, value |-> <<"string", text>>]
Titled == <<Value("title", "x")>>
Tagged == <<Value("title", "y/z"), Value("tag", "x")>>

MCMade ==
  {Instance("Post", "b1", Tagged, {}), Instance("Note", "b1", Titled, {}), Instance("Article", "b1", <<>>, {}),
   Instance("Comment", "b2", <<>>, {<<"uri", "b1">>}), Instance("Comment", "b3", <<>>, {<<"uri", "b2">>})}

MCSought == {"Post"}

MCSettings ==
  {[class |-> "Post", base |-> <<"uri", "b1">>, datum |-> Value("title", "x")]}

AnyParent == [where |-> <<>>, parent |-> None, order |-> None, offset |-> None, limit |-> None]
Asking(name, op, v) == [AnyParent EXCEPT !.where = [n \in {name} |-> [o \in {op} |-> v]]]
ChildrenOf(b, predicate) ==
  [AnyParent EXCEPT !.parent = [id |-> <<"uri", b>>, predicate |-> predicate, model |-> None, field |-> None]]

MCQueries ==
  [c \in MCClassNames |->
    CASE c = "Post" -> {Asking("title", "is", <<"string", "y/z">>), Asking("title", "is", <<"string", "y%2Fz">>),
                        Asking("title", "is", <<"string", "x">>), Asking("title", "not", <<"string", "y/z">>),
                        Asking("tag", "not", <<"string", "x">>), Asking("tag", "in", {<<"string", "x">>})}
      [] c = "Comment" -> {ChildrenOf("b1", "post://comment"), Asking("id", "is", <<"uri", "b2">>)}
      [] OTHER -> {AnyParent}]

Include(field, under) == [field |-> field, under |-> under]
MCTrees ==
  [c \in MCClassNames |->
    CASE c = "Post" -> {<<Include("comments", 0), Include("replies", 1), Include("pinned", 0)>>}
      [] c = "Comment" -> {<<Include("post", 0), Include("replies", 0)>>}
      [] OTHER -> {}]

MCOffered ==
  {<<<<"uri", "b1">>, "post://comment", <<"uri", "b2">>>>,
   <<<<"uri", "b1">>, "post://pinned", <<"uri", "b3">>>>,
   <<<<"uri", "b2">>, "comment://reply", <<"uri", "b3">>>>}

(* A shape for comments as another replica describes it. *)
MCShapeLinks ==
  LET link(s, p, t) == [source |-> <<"uri", s>>, predicate |-> p, target |-> t, author |-> None]
  IN <<link("shape", "rdf://type", <<"uri", "sh://NodeShape">>),
       link("shape", "sh://targetClass", <<"uri", "Comment">>),
       link("shape", "sh://property", <<"uri", "text">>),
       link("text", "rdf://type", <<"uri", "sh://PropertyShape">>),
       link("text", "sh://path", <<"uri", "comment://body">>),
       link("text", "sh://minCount", <<"literal", "number", 1>>)>>

MCSegment == [a \in {"Comment", "shape", "text", "comment://body"} |-> IF a = "comment://body" THEN "body" ELSE a]
=============================================================================
