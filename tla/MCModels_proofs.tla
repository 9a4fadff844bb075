-------------------------- MODULE MCModels_proofs --------------------------
(***************************************************************************)
(* Proofs about an instance of a model, for any fields, objects and calls: *)
(* overlapping calls leave every required field a value, and calls that do *)
(* not overlap leave a field one value, the one its objects have.          *)
(***************************************************************************)
EXTENDS MCModels, FiniteSetTheorems, SequenceTheorems, TLAPS

(***************************************************************************)
(* The calls that write a field, which those of save() do at a position of *)
(* the dirty fields of their object.                                       *)
(***************************************************************************)
Writing == {"queried", "removing", "signing", "storing"}

RunOK(run) ==
  /\ run.at \notin Writing => run.pos = 0
  /\ run.at \in {"new", "purging"} \cup Over => run.obj = {}
  /\ run.at \in Waiting \ {"purging"} => \E o \in Objects : run.obj = {o}
  /\ run.at \in Writing => \E f \in Fields : run.field = {f}
  /\ run.pos # 0 => run.field \cap ReadOnly = {}

(***************************************************************************)
(* The shape of the calls, of which no save() writes a read-only field;    *)
(* only a loaded object has dirty fields; nothing is there before the      *)
(* first call.                                                             *)
(***************************************************************************)
Shape ==
  /\ TypeOK
  /\ \A c \in Ops : RunOK(runs[c])
  /\ \A o \in Objects : dirtyFields[o] # <<>> => fields[o] # <<>>
  /\ (\A c \in Ops : runs[c].at = "new") => Bare(links) /\ \A o \in Objects : fields[o] = <<>>

(***************************************************************************)
(* What keeps a required field f: it has a link, the constructor has still *)
(* to add one, a call that removes its links will add its own, or one has  *)
(* failed or deletes.                                                      *)
(***************************************************************************)
Kept(f) ==
  \/ links[f] # <<>>
  \/ \E c \in Ops : runs[c].at = "constructing" /\ f \in ToSet(runs[c].todo)
  \/ \E c \in Ops : runs[c].at \in {"removing", "signing"} /\ runs[c].field = {f}
  \/ \E c \in Ops : runs[c].at \in {"failed", "deleted", "purging"}

KeptInv ==
  (\E c \in Ops : runs[c].at # "new") => \A f \in ToSet(Required) : Kept(f)

(***************************************************************************)
(* Without an overlap one call is under way.  A field has one link; the    *)
(* fields the constructor has still to see to have none; a call that has   *)
(* asked for the links of a field knows them, and removes them before it   *)
(* adds its own.                                                           *)
(***************************************************************************)
RunSingle(run) ==
  /\ run.at = "constructing" =>
       IsInjective(run.todo) /\ \A f \in ToSet(run.todo) : links[f] = <<>>
  /\ run.at = "queried" => \A f \in run.field : run.left = links[f]
  /\ run.at = "removing" => run.left = <<>>
  /\ run.at \in {"removing", "signing"} => \A f \in run.field : links[f] = <<>>

OneUnderWay == \A c, d \in UnderWay(runs) : c = d

SingleInv ==
  ~overlapped =>
    /\ OneUnderWay
    /\ \A f \in Fields : Len(links[f]) <= 1
    /\ \A c \in Ops : RunSingle(runs[c])

(***************************************************************************)
(* Field f of o has the value that the perspective gives it, or it is      *)
(* stale.                                                                  *)
(***************************************************************************)
Agrees(o, f) == f \in stale[o] \/ Hydrated(links)[f] = fields[o][f]

(***************************************************************************)
(* A save() of o has been through the dirty fields before its position,    *)
(* and writes the one just before it; a create() of o has not loaded it.   *)
(***************************************************************************)
RunStored(run, o) ==
  IF run.pos = 0 THEN fields[o] = <<>>
  ELSE /\ run.pos - 1 \in DOMAIN dirtyFields[o]
       /\ run.field = {dirtyFields[o][run.pos - 1]}
       /\ run.value = fields[o][dirtyFields[o][run.pos - 1]]
       /\ \A i \in 1..(run.pos - 1) :
            dirtyFields[o][i] \notin run.field \/ run.at = "storing" => Agrees(o, dirtyFields[o][i])

(***************************************************************************)
(* The other fields of o agree, among them the read-only ones, whether     *)
(* they are dirty or not.                                                  *)
(***************************************************************************)
Unsaved(o) == ToSet(dirtyFields[o]) \ ReadOnly

CleanStored(o) == fields[o] # <<>> => \A f \in Fields \ Unsaved(o) : Agrees(o, f)

StoredInv ==
  ~overlapped =>
    /\ OneUnderWay
    /\ \A o \in Objects : CleanStored(o)
    /\ \A c \in Ops, o \in Objects : runs[c].obj = {o} => RunStored(runs[c], o)

-----------------------------------------------------------------------------
(***************************************************************************)
(* The fields are finitely many.                                           *)
(***************************************************************************)
LEMMA FieldsFinite == IsFiniteSet(Fields)
<1>1. ASSUME NEW s, s \in Seq(ToSet(s))
      PROVE  IsFiniteSet(ToSet(s))
  <2>1. s \in Surjection(1..Len(s), ToSet(s))
    BY <1>1, LenProperties DEF Surjection, ToSet
  <2>2. Len(s) \in Nat /\ IsFiniteSet(1..Len(s))
    BY <1>1, LenProperties, FS_Interval
  <2> QED
    BY <2>1, <2>2, FS_Surjection
<1> QED
  BY <1>1, FieldsAssumption, FS_Union DEF FieldsAssumption, Fields

(***************************************************************************)
(* An order of a set of fields has these fields and no others.             *)
(***************************************************************************)
LEMMA Orders ==
  ASSUME NEW S \in SUBSET Fields, NEW order \in SetToSeqs(S)
  PROVE  order \in Seq(Fields) /\ ToSet(order) = S
<1> DEFINE n == Cardinality(S)
<1>1. IsFiniteSet(S) /\ n \in Nat
  BY FieldsFinite, FS_Subset, FS_CardinalityType
<1>2. order \in [1..n -> S] /\ \A i, j \in 1..n : i # j => order[i] # order[j]
  BY DEF SetToSeqs
<1>3. order \in Injection(1..n, S)
  BY <1>2 DEF Injection, IsInjective
<1>4. Cardinality(1..n) = n
  BY <1>1, FS_Interval
<1>5. order \in Surjection(1..n, S)
  BY <1>1, <1>3, <1>4, FS_Injection
<1>6. ToSet(order) = S
  BY <1>5 DEF Surjection, ToSet
<1>7. order \in Seq(Fields)
  BY <1>1, <1>2
<1> QED
  BY <1>6, <1>7

(***************************************************************************)
(* What adding and removing a link of field f does to the links.           *)
(***************************************************************************)
LEMMA AddsLink ==
  ASSUME links \in [Fields -> Seq(Link)], NEW c \in Ops, NEW f \in Fields, NEW v \in Datum,
         Adds(c, f, v)
  PROVE  /\ links' \in [Fields -> Seq(Link)]
         /\ \A g \in Fields \ {f} : links'[g] = links[g]
         /\ links'[f] # <<>>
         /\ Len(links'[f]) = Len(links[f]) + 1
         /\ links'[f][Len(links'[f])].value = v
<1> DEFINE s == links[f]
           l == NewLink(c, v)
<1>1. s \in Seq(Link) /\ l \in Link /\ l.value = v
  BY DEF NewLink, Link
<1>2. /\ Append(s, l) \in Seq(Link) /\ Append(s, l) # <<>>
      /\ Len(Append(s, l)) = Len(s) + 1
      /\ Append(s, l)[Len(s) + 1] = l
  <2> HIDE DEF s, l
  <2> QED
    BY <1>1, AppendProperties
<1>3. links' = [links EXCEPT ![f] = Append(s, l)]
  BY DEF Adds
<1> HIDE DEF s, l
<1>4. links'[f] = Append(s, l)
  BY <1>3
<1> QED
  BY <1>1, <1>2, <1>3, <1>4 DEF s

(***************************************************************************)
(* RemoveAt gives a sequence with one element less.                        *)
(***************************************************************************)
LEMMA Removed ==
  ASSUME NEW S, NEW s \in Seq(S), NEW i \in 1..Len(s)
  PROVE  RemoveAt(s, i) \in Seq(S) /\ Len(RemoveAt(s, i)) = Len(s) - 1
<1> DEFINE a == SubSeq(s, 1, i - 1)
           b == SubSeq(s, i + 1, Len(s))
<1>1. Len(s) \in Nat /\ \A k \in 1..Len(s) : s[k] \in S
  OBVIOUS
<1>2. a \in Seq(S) /\ Len(a) = i - 1
  BY <1>1
<1>3. b \in Seq(S) /\ Len(b) = Len(s) - i
  <2>1. i + 1 \in Int /\ Len(s) \in Int /\ \A k \in (i + 1)..Len(s) : s[k] \in S
    BY <1>1
  <2>2. b \in Seq(S) /\ Len(b) = IF i + 1 <= Len(s) THEN Len(s) - (i + 1) + 1 ELSE 0
    BY <2>1, SubSeqProperties
  <2>3. (IF i + 1 <= Len(s) THEN Len(s) - (i + 1) + 1 ELSE 0) = Len(s) - i
    BY <1>1
  <2> QED
    BY <2>2, <2>3
<1>4. RemoveAt(s, i) = a \o b
  BY DEF RemoveAt
<1> HIDE DEF a, b
<1>5. a \o b \in Seq(S) /\ Len(a \o b) = Len(a) + Len(b)
  BY <1>2, <1>3, ConcatProperties
<1> QED
  BY <1>1, <1>2, <1>3, <1>4, <1>5

(***************************************************************************)
(* Of one link, the removal of the first leaves none.                      *)
(***************************************************************************)
LEMMA RemovesLink ==
  ASSUME links \in [Fields -> Seq(Link)], NEW f \in Fields, NEW link, Removes(f, link)
  PROVE  /\ links' \in [Fields -> Seq(Link)]
         /\ \A g \in Fields \ {f} : links'[g] = links[g]
         /\ Len(links'[f]) <= Len(links[f])
         /\ Len(links[f]) <= 1 /\ links[f] # <<>> /\ link = Head(links[f]) => links'[f] = <<>>
<1>1. links[f] \in Seq(Link) /\ DOMAIN links[f] = 1..Len(links[f]) /\ Len(links[f]) \in Nat
  BY LenProperties
<1>2. CASE \E i \in DOMAIN links[f] : links' = [links EXCEPT ![f] = RemoveAt(@, i)]
  <2>1. PICK i \in 1..Len(links[f]) : links' = [links EXCEPT ![f] = RemoveAt(@, i)]
    BY <1>1, <1>2
  <2>2. RemoveAt(links[f], i) \in Seq(Link) /\ Len(RemoveAt(links[f], i)) = Len(links[f]) - 1
    BY <1>1, <2>1, Removed
  <2>3. /\ links' \in [Fields -> Seq(Link)]
        /\ \A g \in Fields \ {f} : links'[g] = links[g]
        /\ links'[f] = RemoveAt(links[f], i)
    BY <2>1, <2>2
  <2> DEFINE t == links'[f]
  <2>4. t \in Seq(Link) /\ Len(t) = Len(links[f]) - 1
    BY <2>2, <2>3
  <2>5. Len(t) = 0 => t = <<>>
    <3> HIDE DEF t
    <3> QED
      BY <2>4, EmptySeq
  <2>6. Len(links[f]) <= 1 => Len(t) = 0
    <3>1. Len(t) \in Nat
      BY <2>4, LenProperties
    <3> HIDE DEF t
    <3> QED
      BY <1>1, <2>4, <3>1
  <2> QED
    BY <1>1, <2>3, <2>4, <2>5, <2>6
<1>3. CASE ~Contains(links[f], link) /\ UNCHANGED links
  <2>1. links[f] # <<>> => Head(links[f]) = links[f][1] /\ 1 \in 1..Len(links[f])
    BY <1>1, EmptySeq
  <2>2. links[f] # <<>> => link # Head(links[f])
    BY <1>3, <2>1 DEF Contains
  <2> QED
    BY <1>1, <1>3, <2>2
<1> QED
  BY <1>2, <1>3 DEF Removes

-----------------------------------------------------------------------------
(***************************************************************************)
(* What the loops of save() and create() do to the call c and to others.   *)
(***************************************************************************)
Asks(c, obj, p, f, v) ==
  /\ runs'[c].at = "queried" /\ runs'[c].obj = obj /\ runs'[c].pos = p
  /\ runs'[c].field = {f} /\ runs'[c].value = v /\ runs'[c].left = links'[f]

Alone(c) == \A r \in Ops \ {c} : runs'[r] = runs[r]

Cleared(c, o) ==
  \A r \in Ops \ {c} :
    \/ runs'[r] = runs[r]
    \/ runs[r].pos > 0 /\ runs[r].obj = {o} /\ runs'[r] = [runs[r] EXCEPT !.pos = 1]

(***************************************************************************)
(* A call that is new or over is one.                                      *)
(***************************************************************************)
LEMMA NoRunType == \A at \in {"new"} \cup Over : NoRun(at) \in Run
BY DEF NoRun, Run, Over, Datum, Link

(***************************************************************************)
(* A call that asks for the links of a field is one, for that field.       *)
(***************************************************************************)
LEMMA QueriesType ==
  ASSUME links' \in [Fields -> Seq(Link)], NEW run \in Run, NEW f \in Fields, NEW v \in Datum
  PROVE  /\ Queries(run, f, v) \in Run
         /\ Queries(run, f, v).at = "queried" /\ Queries(run, f, v).obj = run.obj
         /\ Queries(run, f, v).pos = run.pos /\ Queries(run, f, v).field = {f}
         /\ Queries(run, f, v).value = v /\ Queries(run, f, v).left = links'[f]
BY DEF Queries, Run, Waiting

(***************************************************************************)
(* The loop of save() at position p asks for the links of the next dirty   *)
(* field that is not read-only, or ends.                                   *)
(***************************************************************************)
Proceeds(c, o, p, d, v) ==
  /\ \E q \in p..Len(d) :
       /\ d[q] \in Fields \ ReadOnly /\ \A i \in p..(q - 1) : d[i] \in ReadOnly
       /\ Asks(c, {o}, q + 1, d[q], v[d[q]])
  /\ Alone(c)
  /\ dirtyFields' = [dirtyFields EXCEPT ![o] = d]

Ends(c, o, p, d) ==
  /\ \A i \in p..Len(d) : d[i] \in ReadOnly
  /\ runs'[c] = NoRun("saved")
  /\ Cleared(c, o)
  /\ dirtyFields' = [dirtyFields EXCEPT ![o] = <<>>]

(***************************************************************************)
(* A save() that asks for the links of field f.                            *)
(***************************************************************************)
LEMMA FieldAsked ==
  ASSUME TypeOK, links' \in [Fields -> Seq(Link)], NEW c \in Ops, NEW o \in Objects,
         NEW p \in Nat, NEW f \in Fields, NEW w \in Datum,
         runs' = [runs EXCEPT ![c] = Queries([runs[c] EXCEPT !.obj = {o}, !.pos = p], f, w)]
  PROVE  runs' \in [Ops -> Run] /\ Asks(c, {o}, p, f, w) /\ Alone(c)
<1> DEFINE run == [runs[c] EXCEPT !.obj = {o}, !.pos = p]
           next == Queries(run, f, w)
<1>1. run \in Run /\ run.obj = {o} /\ run.pos = p
  BY DEF TypeOK, Run
<1>2. next \in Run /\ next.at = "queried" /\ next.obj = {o} /\ next.pos = p
      /\ next.field = {f} /\ next.value = w /\ next.left = links'[f]
  <2> HIDE DEF run
  <2> QED
    BY <1>1, QueriesType
<1> HIDE DEF next
<1>3. runs' = [runs EXCEPT ![c] = next]
  BY DEF next
<1> QED
  BY <1>2, <1>3 DEF TypeOK, Asks, Alone

(***************************************************************************)
(* This is what it does.                                                   *)
(***************************************************************************)
LEMMA FieldStep ==
  ASSUME TypeOK, UNCHANGED links, NEW c \in Ops, NEW o \in Objects, NEW p \in Nat \ {0},
         NEW d \in Seq(Fields), NEW v, d # <<>> => v \in [Fields -> Datum],
         NextField(c, o, p, d, v)
  PROVE  /\ runs' \in [Ops -> Run]
         /\ dirtyFields' \in [Objects -> Seq(Fields)]
         /\ Proceeds(c, o, p, d, v) \/ Ends(c, o, p, d)
<1>1. /\ runs \in [Ops -> Run] /\ dirtyFields \in [Objects -> Seq(Fields)]
      /\ links' \in [Fields -> Seq(Link)] /\ Len(d) \in Nat
  BY LenProperties DEF TypeOK
<1>2. ASSUME NEW q \in p..Len(d), d[q] \notin ReadOnly, \A i \in p..(q - 1) : d[i] \in ReadOnly,
             runs' = [runs EXCEPT ![c] = Queries([runs[c] EXCEPT !.obj = {o}, !.pos = q + 1],
                                                 d[q], v[d[q]])],
             dirtyFields' = [dirtyFields EXCEPT ![o] = d]
      PROVE  /\ runs' \in [Ops -> Run]
             /\ dirtyFields' \in [Objects -> Seq(Fields)]
             /\ Proceeds(c, o, p, d, v)
  <2>1. q \in 1..Len(d) /\ q \in Nat /\ d[q] \in Fields
    BY <1>1
  <2>2. v[d[q]] \in Datum
    <3>1. d # <<>>
      BY <2>1
    <3> QED
      BY <2>1, <3>1
  <2>3. runs' \in [Ops -> Run] /\ Asks(c, {o}, q + 1, d[q], v[d[q]]) /\ Alone(c)
    <3>1. ASSUME NEW f \in Fields, NEW w \in Datum, NEW r \in Nat,
                 runs' = [runs EXCEPT ![c] = Queries([runs[c] EXCEPT !.obj = {o}, !.pos = r], f, w)]
          PROVE  runs' \in [Ops -> Run] /\ Asks(c, {o}, r, f, w) /\ Alone(c)
      BY <1>1, <3>1, FieldAsked
    <3>2. q + 1 \in Nat
      BY <2>1
    <3> QED
      BY <1>2, <2>1, <2>2, <3>1, <3>2
  <2>4. dirtyFields' \in [Objects -> Seq(Fields)]
    BY <1>1, <1>2
  <2> QED
    BY <1>2, <2>1, <2>3, <2>4 DEF Proceeds
<1>3. CASE /\ \A i \in p..Len(d) : d[i] \in ReadOnly
           /\ runs' = [r \in Ops |-> IF r = c THEN NoRun("saved")
                                     ELSE IF runs[r].pos > 0 /\ runs[r].obj = {o}
                                     THEN [runs[r] EXCEPT !.pos = 1] ELSE runs[r]]
           /\ dirtyFields' = [dirtyFields EXCEPT ![o] = <<>>]
  <2>1. runs'[c] = NoRun("saved") /\ Cleared(c, o)
    BY <1>3 DEF Cleared
  <2>2. ASSUME NEW r \in Ops
        PROVE  [runs[r] EXCEPT !.pos = 1] \in Run
    BY <1>1 DEF Run
  <2>3. NoRun("saved") \in Run
    BY NoRunType DEF Over
  <2>4. runs' \in [Ops -> Run]
    BY <1>1, <1>3, <2>2, <2>3
  <2>5. dirtyFields' \in [Objects -> Seq(Fields)]
    BY <1>1, <1>3
  <2> QED
    BY <1>3, <2>1, <2>4, <2>5 DEF Ends
<1> QED
  BY <1>2, <1>3 DEF NextField

(***************************************************************************)
(* The loop of create() asks for the links of the next field, or ends.     *)
(***************************************************************************)
LEMMA DatumStep ==
  ASSUME TypeOK, UNCHANGED links, NEW c \in Ops, NEW todo \in Seq(Fields),
         \E o \in Objects : runs[c].obj = {o}, NextDatum(c, todo)
  PROVE  /\ runs' \in [Ops -> Run] /\ Alone(c)
         /\ UNCHANGED dirtyFields
         /\ \/ \E f \in Fields : Asks(c, runs[c].obj, runs[c].pos, f, c) /\ UNCHANGED fields
            \/ Bare(links) /\ runs'[c] = NoRun("failed") /\ UNCHANGED fields
            \/ /\ runs'[c] = NoRun("created")
               /\ ~Bare(links)
               /\ \E o \in Objects : /\ runs[c].obj = {o}
                                    /\ fields' = [fields EXCEPT ![o] = Hydrated(links)]
<1>1. /\ runs \in [Ops -> Run] /\ links' \in [Fields -> Seq(Link)]
  BY DEF TypeOK
<1>2. CASE todo # <<>>
  <2>1. Head(todo) \in Fields /\ Tail(todo) \in Seq(Fields) /\ c \in Datum
    BY <1>2, HeadTailProperties DEF Datum
  <2> DEFINE run == [runs[c] EXCEPT !.todo = Tail(todo)]
             next == Queries(run, Head(todo), c)
  <2>2. run \in Run /\ run.obj = runs[c].obj /\ run.pos = runs[c].pos
    BY <1>1, <2>1 DEF Run
  <2>3. next \in Run /\ next.at = "queried" /\ next.obj = runs[c].obj /\ next.pos = runs[c].pos
        /\ next.field = {Head(todo)} /\ next.value = c /\ next.left = links'[Head(todo)]
    <3>1. links' \in [Fields -> Seq(Link)]
      BY <1>1
    <3> HIDE DEF run
    <3> QED
      BY <2>1, <2>2, <3>1, QueriesType
  <2>4. runs' = [runs EXCEPT ![c] = next] /\ UNCHANGED <<fields, dirtyFields>>
    BY <1>2 DEF NextDatum
  <2> HIDE DEF next
  <2> QED
    BY <1>1, <2>1, <2>3, <2>4 DEF Asks, Alone
<1>3. CASE todo = <<>>
  <2>1. NoRun("failed") \in Run /\ NoRun("created") \in Run
    BY NoRunType DEF Over
  <2>2. Bare(links') = Bare(links) /\ Hydrated(links') = Hydrated(links)
    OBVIOUS
  <2>3. CASE Bare(links)
    BY <1>1, <1>3, <2>1, <2>2, <2>3 DEF NextDatum, Alone
  <2>4. CASE ~Bare(links)
    BY <1>1, <1>3, <2>1, <2>2, <2>4 DEF NextDatum, Alone
  <2> QED
    BY <2>3, <2>4
<1> QED
  BY <1>2, <1>3

(***************************************************************************)
(* A call of which only the position may change is what it was otherwise.  *)
(***************************************************************************)
Same(c) ==
  \A r \in Ops \ {c} :
    /\ runs'[r].at = runs[r].at /\ runs'[r].obj = runs[r].obj
    /\ runs'[r].todo = runs[r].todo /\ runs'[r].field = runs[r].field
    /\ runs'[r].value = runs[r].value /\ runs'[r].left = runs[r].left
    /\ runs'[r].pos = runs[r].pos \/ (runs'[r].pos # 0 /\ runs[r].pos # 0)

(***************************************************************************)
(* The end of one save() changes the positions of others at most.          *)
(***************************************************************************)
LEMMA OthersSame ==
  ASSUME TypeOK, NEW c \in Ops, Alone(c) \/ \E o \in Objects : Cleared(c, o)
  PROVE  Same(c)
<1>1. CASE Alone(c)
  BY <1>1 DEF Alone, Same
<1>2. ASSUME NEW o \in Objects, Cleared(c, o)
      PROVE  Same(c)
  <2>1. \A r \in Ops : runs[r] \in Run
    BY DEF TypeOK
  <2>2. ASSUME NEW r \in Ops, runs[r].pos > 0, runs'[r] = [runs[r] EXCEPT !.pos = 1]
        PROVE  /\ runs'[r].at = runs[r].at /\ runs'[r].obj = runs[r].obj
               /\ runs'[r].todo = runs[r].todo /\ runs'[r].field = runs[r].field
               /\ runs'[r].value = runs[r].value /\ runs'[r].left = runs[r].left
               /\ runs'[r].pos # 0 /\ runs[r].pos # 0
    BY <2>1, <2>2 DEF Run
  <2> QED
    BY <1>2, <2>2 DEF Cleared, Same
<1> QED
  BY <1>1, <1>2

(***************************************************************************)
(* The values of an object that has dirty fields are the values of fields. *)
(***************************************************************************)
LEMMA Loaded ==
  ASSUME NEW d \in Seq(Fields), d # <<>>, NEW v \in [Fields -> Datum]
  PROVE  v # <<>>
<1>1. d[1] \in Fields
  BY EmptySeq
<1> QED
  BY <1>1

(***************************************************************************)
(* What is read from the links are values of the fields.                   *)
(***************************************************************************)
LEMMA HydratedType ==
  ASSUME NEW ls \in [Fields -> Seq(Link)]
  PROVE  Hydrated(ls) \in [Fields -> Datum]
<1>1. ASSUME NEW f \in Fields, ls[f] # <<>>
      PROVE  ls[f][Len(ls[f])].value \in Datum
  <2>1. ls[f] \in Seq(Link) /\ Len(ls[f]) \in 1..Len(ls[f])
    BY <1>1, EmptySeq
  <2>2. ls[f][Len(ls[f])] \in Link
    BY <2>1, ElementOfSeq
  <2> QED
    BY <2>2 DEF Link
<1> QED
  BY <1>1 DEF Hydrated, Datum

(***************************************************************************)
(* A call that is done with a field.                                       *)
(***************************************************************************)
SaveGoesOn(c, o) ==
  /\ runs[c].obj = {o} /\ runs[c].pos # 0
  /\ UNCHANGED fields
  /\ \/ Proceeds(c, o, runs[c].pos, dirtyFields[o], fields[o]) /\ UNCHANGED dirtyFields
     \/ Ends(c, o, runs[c].pos, dirtyFields[o])

CreateGoesOn(c) ==
  /\ runs[c].pos = 0
  /\ Alone(c)
  /\ UNCHANGED dirtyFields
  /\ \/ \E f \in Fields : Asks(c, runs[c].obj, 0, f, c) /\ UNCHANGED fields
     \/ runs'[c] = NoRun("failed") /\ UNCHANGED fields
     \/ /\ runs'[c] = NoRun("created")
        /\ ~Bare(links)
        /\ \E o \in Objects : /\ runs[c].obj = {o}
                             /\ fields' = [fields EXCEPT ![o] = Hydrated(links)]

(***************************************************************************)
(* A call that is done with a field goes on as a save() or as a create().  *)
(***************************************************************************)
LEMMA GoesOnStep ==
  ASSUME Shape, UNCHANGED links, NEW c \in Ops, runs[c].at \in Writing, GoesOn(c)
  PROVE  /\ runs' \in [Ops -> Run]
         /\ dirtyFields' \in [Objects -> Seq(Fields)]
         /\ CreateGoesOn(c) \/ \E o \in Objects : SaveGoesOn(c, o)
<1>1. /\ TypeOK /\ runs[c] \in Run /\ runs[c].pos \in Nat /\ runs[c].todo \in Seq(Fields)
      /\ RunOK(runs[c])
      /\ dirtyFields \in [Objects -> Seq(Fields)]
  BY DEF Shape, TypeOK, Run
<1>2. PICK o \in Objects : runs[c].obj = {o}
  BY <1>1 DEF RunOK, Writing, Waiting
<1>3. CASE runs[c].pos > 0
  <2>1. NextField(c, o, runs[c].pos, dirtyFields[o], fields[o]) /\ UNCHANGED fields
    BY <1>2, <1>3 DEF GoesOn
  <2>2. dirtyFields[o] # <<>> => fields[o] \in [Fields -> Datum]
    BY DEF Shape, TypeOK
  <2>3. runs[c].pos \in Nat \ {0}
    BY <1>1, <1>3
  <2> DEFINE p == runs[c].pos
             d == dirtyFields[o]
  <2>4. /\ runs' \in [Ops -> Run]
        /\ dirtyFields' \in [Objects -> Seq(Fields)]
        /\ Proceeds(c, o, p, d, fields[o]) \/ Ends(c, o, p, d)
    <3>1. d \in Seq(Fields)
      BY <1>1
    <3> HIDE DEF d, p
    <3> QED
      BY <1>1, <2>1, <2>2, <2>3, <3>1, FieldStep DEF d, p
  <2>5. Proceeds(c, o, p, d, fields[o]) => UNCHANGED dirtyFields
    BY <1>1 DEF Proceeds
  <2> QED
    BY <1>2, <2>1, <2>3, <2>4, <2>5 DEF SaveGoesOn
<1>4. CASE ~(runs[c].pos > 0)
  <2>1. runs[c].pos = 0 /\ NextDatum(c, runs[c].todo)
    BY <1>1, <1>4 DEF GoesOn
  <2>2. /\ runs' \in [Ops -> Run] /\ Alone(c)
        /\ UNCHANGED dirtyFields
        /\ \/ \E f \in Fields : Asks(c, runs[c].obj, runs[c].pos, f, c) /\ UNCHANGED fields
           \/ Bare(links) /\ runs'[c] = NoRun("failed") /\ UNCHANGED fields
           \/ /\ runs'[c] = NoRun("created")
              /\ ~Bare(links)
              /\ \E q \in Objects : /\ runs[c].obj = {q}
                                   /\ fields' = [fields EXCEPT ![q] = Hydrated(links)]
    BY <1>1, <1>2, <2>1, DatumStep
  <2> QED
    BY <1>1, <2>1, <2>2 DEF CreateGoesOn
<1> QED
  BY <1>3, <1>4

-----------------------------------------------------------------------------
(***************************************************************************)
(* Before the first call.                                                  *)
(***************************************************************************)
LEMMA ShapeInit == Init => Shape
BY NoRunType, EmptySeq DEF Init, Shape, TypeOK, RunOK, NoRun, Bare, Over, Waiting, Writing

(***************************************************************************)
(* A step of one call keeps the shape if that call has it.                 *)
(***************************************************************************)
LEMMA ShapeKept ==
  ASSUME Shape, TypeOK', NEW c \in Ops, Same(c), RunOK(runs'[c]), runs'[c].at # "new",
         \A o \in Objects : dirtyFields'[o] # <<>> => fields'[o] # <<>>
  PROVE  Shape'
<1>1. ASSUME NEW r \in Ops \ {c}
      PROVE  RunOK(runs'[r])
  BY <1>1 DEF Shape, Same, RunOK
<1> QED
  BY <1>1 DEF Shape

(***************************************************************************)
(* A create() that goes on keeps the shape and leaves the others.          *)
(***************************************************************************)
LEMMA ShapeCreates ==
  ASSUME Shape, UNCHANGED links, NEW c \in Ops, NEW o \in Objects, runs[c].obj = {o},
         runs' \in [Ops -> Run], CreateGoesOn(c)
  PROVE  Shape' /\ Same(c)
<1>1. /\ TypeOK
      /\ fields \in [Objects -> [Fields -> Datum] \cup {<<>>}]
      /\ dirtyFields \in [Objects -> Seq(Fields)]
  BY DEF Shape, TypeOK
<1>2. Same(c)
  BY <1>1, OthersSame DEF CreateGoesOn
<1>3. fields' = fields \/ \E q \in Objects : fields' = [fields EXCEPT ![q] = Hydrated(links)]
  BY DEF CreateGoesOn
<1>4. Hydrated(links) \in [Fields -> Datum]
  BY <1>1, HydratedType DEF TypeOK
<1>5. fields' \in [Objects -> [Fields -> Datum] \cup {<<>>}]
  BY <1>1, <1>3, <1>4
<1>6. TypeOK'
  BY <1>1, <1>5 DEF TypeOK, CreateGoesOn
<1>7. RunOK(runs'[c]) /\ runs'[c].at # "new"
  <2>1. CASE \E f \in Fields : Asks(c, runs[c].obj, 0, f, c)
    BY <2>1 DEF Asks, RunOK, Writing, Over
  <2>2. CASE runs'[c] = NoRun("failed") \/ runs'[c] = NoRun("created")
    BY <2>2 DEF NoRun, RunOK, Writing, Waiting
  <2> QED
    BY <2>1, <2>2 DEF CreateGoesOn
<1>8. ASSUME NEW q \in Objects, dirtyFields'[q] # <<>>
      PROVE  fields'[q] # <<>>
  <2>1. dirtyFields[q] # <<>> /\ fields[q] # <<>>
    BY <1>8 DEF CreateGoesOn, Shape
  <2>2. Hydrated(links) # <<>>
    BY <1>1, <1>4, <2>1, Loaded
  <2> QED
    BY <1>1, <1>3, <2>1, <2>2
<1> QED
  BY <1>2, <1>6, <1>7, <1>8, ShapeKept

(***************************************************************************)
(* A call that goes on keeps the shape and leaves the others.              *)
(***************************************************************************)
LEMMA ShapeGoesOn ==
  ASSUME Shape, UNCHANGED links, NEW c \in Ops, runs[c].at \in Writing, GoesOn(c)
  PROVE  Shape' /\ Same(c)
<1>1. /\ TypeOK /\ RunOK(runs[c])
      /\ fields \in [Objects -> [Fields -> Datum] \cup {<<>>}]
      /\ dirtyFields \in [Objects -> Seq(Fields)]
  BY DEF Shape, TypeOK
<1>2. /\ runs' \in [Ops -> Run]
      /\ dirtyFields' \in [Objects -> Seq(Fields)]
      /\ CreateGoesOn(c) \/ \E o \in Objects : SaveGoesOn(c, o)
  BY GoesOnStep
<1>3. PICK o \in Objects : runs[c].obj = {o}
  BY <1>1 DEF RunOK, Writing, Waiting
<1>4. CASE CreateGoesOn(c)
  BY <1>2, <1>3, <1>4, ShapeCreates
<1>5. ASSUME NEW q \in Objects, SaveGoesOn(c, q)
      PROVE  Shape' /\ Same(c)
  <2>1. Same(c)
    BY <1>1, <1>5, OthersSame DEF SaveGoesOn, Proceeds, Ends
  <2>2. TypeOK'
    BY <1>1, <1>2, <1>5 DEF SaveGoesOn, TypeOK
  <2>3. RunOK(runs'[c]) /\ runs'[c].at # "new"
    <3>1. ASSUME NEW p, NEW f \in Fields \ ReadOnly, NEW v, Asks(c, {q}, p, f, v)
          PROVE  RunOK(runs'[c]) /\ runs'[c].at # "new"
      BY <3>1 DEF Asks, RunOK, Writing, Over
    <3>2. CASE runs'[c] = NoRun("saved")
      BY <3>2 DEF NoRun, RunOK, Writing, Waiting
    <3> QED
      BY <1>5, <3>1, <3>2 DEF SaveGoesOn, Proceeds, Ends
  <2>4. ASSUME NEW r \in Objects, dirtyFields'[r] # <<>>
        PROVE  fields'[r] # <<>>
    <3>1. UNCHANGED fields /\ dirtyFields[r] # <<>>
      BY <1>1, <1>5, <2>4 DEF SaveGoesOn, Ends
    <3> QED
      BY <3>1 DEF Shape
  <2> QED
    BY <2>1, <2>2, <2>3, <2>4, ShapeKept
<1> QED
  BY <1>2, <1>4, <1>5

(***************************************************************************)
(* The fields of o that are not among the dirty ones d were clean, and the *)
(* values v leave them as they are.                                        *)
(***************************************************************************)
Others(o, d, v) ==
  \A f \in Fields \ ToSet(d) : v[f] = fields[o][f] /\ f \notin ToSet(dirtyFields[o])

(***************************************************************************)
(* update() and save() of o start with the first of the dirty fields d     *)
(* that is not read-only, or have nothing to write.                        *)
(***************************************************************************)
Begins(o, d, v) ==
  /\ fields[o] # <<>>
  /\ d \in Seq(Fields) /\ v \in [Fields -> Datum]
  /\ Others(o, d, v)
  /\ UNCHANGED links
  /\ fields' = [fields EXCEPT ![o] = v]
  /\ runs' \in [Ops -> Run]
  /\ dirtyFields' \in [Objects -> Seq(Fields)]

Saves(c, o, d, v) ==
  /\ Begins(o, d, v)
  /\ Proceeds(c, o, 1, d, v) \/ Ends(c, o, 1, d)

(***************************************************************************)
(* This is how a save starts.                                              *)
(***************************************************************************)
LEMMA SavesFrom ==
  ASSUME Shape, NEW c \in Ops, NEW o \in Objects, NEW d \in Seq(Fields),
         NEW v \in [Fields -> Datum], fields[o] # <<>>,
         Others(o, d, v),
         UNCHANGED links, fields' = [fields EXCEPT ![o] = v], NextField(c, o, 1, d, v)
  PROVE  Saves(c, o, d, v)
<1>1. PICK p \in Nat \ {0} : p = 1
  OBVIOUS
<1>2. /\ TypeOK /\ NextField(c, o, p, d, v)
      /\ d # <<>> => v \in [Fields -> Datum]
  BY <1>1 DEF Shape
<1>3. /\ runs' \in [Ops -> Run] /\ dirtyFields' \in [Objects -> Seq(Fields)]
      /\ Proceeds(c, o, p, d, v) \/ Ends(c, o, p, d)
  BY <1>2, FieldStep
<1> QED
  BY <1>1, <1>3 DEF Saves, Begins

(***************************************************************************)
(* update() makes all the fields that it sets dirty, and saves.            *)
(***************************************************************************)
LEMMA UpdateStep ==
  ASSUME Shape, NEW c \in Ops, NEW o \in Objects, NEW data \in (SUBSET Fields) \ {{}},
         Update(c, o, data)
  PROVE  \E d, v : Saves(c, o, d, v)
<1> DEFINE v == [f \in Fields |-> IF f \in data THEN c ELSE fields[o][f]]
           new == data \ ToSet(dirtyFields[o])
<1>1. fields[o] # <<>> /\ fields[o] \in [Fields -> Datum] /\ dirtyFields[o] \in Seq(Fields)
  BY DEF Shape, TypeOK, Update
<1>2. v \in [Fields -> Datum]
  BY <1>1 DEF Datum
<1>3. PICK order \in SetToSeqs(new) : NextField(c, o, 1, dirtyFields[o] \o order, v)
  BY DEF Update
<1>4. UNCHANGED links /\ fields' = [fields EXCEPT ![o] = v]
  BY DEF Update
<1>5. order \in Seq(Fields) /\ ToSet(order) = new
  BY <1>3, Orders
<1> DEFINE s == dirtyFields[o]
           d == s \o order
<1>6. /\ d \in Seq(Fields) /\ Len(d) = Len(s) + Len(order)
      /\ \A i \in 1..Len(s) : d[i] = s[i]
      /\ \A i \in 1..Len(order) : d[Len(s) + i] = order[i]
  BY <1>1, <1>5, ConcatProperties
<1>7. Len(s) \in Nat /\ Len(order) \in Nat /\ DOMAIN s = 1..Len(s) /\ DOMAIN order = 1..Len(order)
      /\ DOMAIN d = 1..Len(d)
  BY <1>1, <1>5, <1>6, LenProperties
<1>8. ASSUME NEW f \in data \cup ToSet(s)
      PROVE  f \in ToSet(d)
  <2> HIDE DEF d, s, new
  <2>1. CASE f \in ToSet(s)
    <3>1. PICK i \in 1..Len(s) : f = s[i]
      BY <1>7, <2>1 DEF ToSet
    <3>2. i \in DOMAIN d /\ d[i] = f
      BY <1>6, <1>7, <3>1
    <3> QED
      BY <3>2 DEF ToSet
  <2>2. CASE f \notin ToSet(s)
    <3>1. f \in ToSet(order)
      BY <1>5, <1>8, <2>2 DEF new, s
    <3>2. PICK i \in 1..Len(order) : f = order[i]
      BY <1>7, <3>1 DEF ToSet
    <3>3. Len(s) + i \in DOMAIN d /\ d[Len(s) + i] = f
      BY <1>6, <1>7, <3>2
    <3> QED
      BY <3>3 DEF ToSet
  <2> QED
    BY <2>1, <2>2
<1>9. Others(o, d, v)
  BY <1>8 DEF Others
<1> HIDE DEF v, d
<1>10. NextField(c, o, 1, d, v)
  BY <1>3 DEF d
<1>11. Saves(c, o, d, v)
  BY <1>1, <1>2, <1>4, <1>6, <1>9, <1>10, SavesFrom
<1> QED
  BY <1>11

(***************************************************************************)
(* save() saves what is dirty.                                             *)
(***************************************************************************)
LEMMA SaveStep ==
  ASSUME Shape, NEW c \in Ops, NEW o \in Objects, Save(c, o)
  PROVE  \E d, v : Saves(c, o, d, v)
<1>1. dirtyFields[o] # <<>> /\ dirtyFields[o] \in Seq(Fields)
  BY DEF Shape, TypeOK, Save
<1>2. fields[o] # <<>> /\ fields[o] \in [Fields -> Datum]
  BY <1>1 DEF Shape, TypeOK
<1>3. UNCHANGED links /\ fields' = [fields EXCEPT ![o] = fields[o]]
  BY DEF Shape, TypeOK, Save
<1>4. NextField(c, o, 1, dirtyFields[o], fields[o])
  BY DEF Save
<1>5. Others(o, dirtyFields[o], fields[o])
  BY DEF Others
<1>6. Saves(c, o, dirtyFields[o], fields[o])
  BY <1>1, <1>2, <1>3, <1>4, <1>5, SavesFrom
<1> QED
  BY <1>6

(***************************************************************************)
(* A save that starts keeps the shape and leaves the others.               *)
(***************************************************************************)
LEMMA ShapeSaves ==
  ASSUME Shape, NEW c \in Ops, NEW o \in Objects, NEW d, NEW v, Saves(c, o, d, v)
  PROVE  Shape' /\ Same(c)
<1>1. TypeOK /\ fields \in [Objects -> [Fields -> Datum] \cup {<<>>}]
      /\ dirtyFields \in [Objects -> Seq(Fields)]
  BY DEF Shape, TypeOK
<1>2. Same(c)
  BY <1>1, OthersSame DEF Saves, Proceeds, Ends
<1>3. v \in [Fields -> Datum] /\ fields' = [fields EXCEPT ![o] = v]
  BY DEF Saves, Begins
<1>4. TypeOK'
  BY <1>1, <1>3 DEF Saves, Begins, TypeOK
<1>5. RunOK(runs'[c]) /\ runs'[c].at # "new"
  <2>1. ASSUME NEW p, NEW f \in Fields \ ReadOnly, Asks(c, {o}, p, f, v[f])
        PROVE  RunOK(runs'[c]) /\ runs'[c].at # "new"
    BY <2>1 DEF Asks, RunOK, Writing, Over
  <2>2. CASE runs'[c] = NoRun("saved")
    BY <2>2 DEF NoRun, RunOK, Writing, Waiting
  <2> QED
    BY <2>1, <2>2 DEF Saves, Proceeds, Ends
<1>6. ASSUME NEW q \in Objects, dirtyFields'[q] # <<>>
      PROVE  fields'[q] # <<>>
  <2>1. CASE q = o
    <3>1. dirtyFields'[o] \in Seq(Fields) /\ dirtyFields'[o] # <<>>
      BY <1>6, <2>1 DEF Saves, Begins
    <3>2. v # <<>>
      BY <1>3, <3>1, Loaded
    <3> QED
      BY <1>1, <1>3, <2>1, <3>2
  <2>2. CASE q # o
    <3>1. fields'[q] = fields[q] /\ dirtyFields'[q] = dirtyFields[q]
      BY <1>1, <1>3, <2>2 DEF Saves, Proceeds, Ends
    <3> QED
      BY <1>6, <3>1 DEF Shape
  <2> QED
    BY <2>1, <2>2
<1> QED
  BY <1>2, <1>4, <1>5, <1>6, ShapeKept

(***************************************************************************)
(* A step that changes one call and perhaps links keeps the shape if that  *)
(* call has it.                                                            *)
(***************************************************************************)
LEMMA ShapeAlone ==
  ASSUME Shape, NEW c \in Ops, links' \in [Fields -> Seq(Link)], NEW run \in Run,
         runs' = [runs EXCEPT ![c] = run], RunOK(run), run.at # "new",
         UNCHANGED <<fields, dirtyFields>>
  PROVE  Shape'
<1>1. TypeOK
  BY DEF Shape
<1>2. runs' \in [Ops -> Run] /\ runs'[c] = run /\ Alone(c)
  BY <1>1 DEF TypeOK, Alone
<1>3. TypeOK'
  BY <1>1, <1>2 DEF TypeOK
<1>4. Same(c)
  BY <1>1, <1>2, OthersSame
<1>5. \A o \in Objects : dirtyFields'[o] # <<>> => fields'[o] # <<>>
  BY DEF Shape
<1> QED
  BY <1>2, <1>3, <1>4, <1>5, ShapeKept

(***************************************************************************)
(* Every step keeps the shape.                                             *)
(***************************************************************************)
LEMMA ShapeStep == Shape /\ [Next]_vars => Shape'
<1> SUFFICES ASSUME Shape, [Next]_vars
             PROVE  Shape'
  OBVIOUS
<1>1. /\ TypeOK /\ links \in [Fields -> Seq(Link)] /\ runs \in [Ops -> Run]
      /\ fields \in [Objects -> [Fields -> Datum] \cup {<<>>}]
      /\ \A c \in Ops : RunOK(runs[c])
  BY DEF Shape, TypeOK
<1>2. ASSUME NEW c \in Ops, Called(c)
      PROVE  runs[c].at = "new" /\ runs[c].pos = 0 /\ runs[c].obj = {}
  <2>1. runs[c].at = "new"
    BY <1>2, OpsAssumption DEF OpsAssumption, Called
  <2> QED
    BY <1>1, <2>1 DEF RunOK, Writing
<1>3. Required \in Seq(Fields) /\ AllFields \in Seq(Fields)
  <2>1. Required \in Seq(Fields) /\ Optional \in Seq(Fields)
    BY FieldsAssumption, SeqMonotonic DEF FieldsAssumption, Fields
  <2> QED
    BY <2>1, ConcatProperties DEF AllFields
<1>4. ASSUME NEW c \in Ops, NEW o \in Objects, NEW data \in SUBSET Fields, Called(c), Create(c, o, data)
      PROVE  Shape'
  <2> DEFINE run == [runs[c] EXCEPT !.at = "constructing", !.obj = {o}, !.todo = Required, !.data = data]
  <2>1. run \in Run /\ run.at = "constructing" /\ run.obj = {o} /\ run.pos = 0
    <3>1. runs[c] \in Run /\ runs[c].pos = 0
      BY <1>1, <1>2, <1>4
    <3> QED
      BY <1>3, <3>1 DEF Run, Waiting
  <2>2. runs' = [runs EXCEPT ![c] = run] /\ UNCHANGED <<links, fields, dirtyFields>>
    BY <1>4 DEF Create
  <2> HIDE DEF run
  <2>3. RunOK(run)
    BY <2>1 DEF RunOK, Over, Writing
  <2> QED
    BY <1>1, <2>1, <2>2, <2>3, ShapeAlone
<1>5. ASSUME NEW c \in Ops, Constructs(c)
      PROVE  Shape'
  <2>1. RunOK(runs[c]) /\ runs[c] \in Run /\ runs[c].at = "constructing"
    BY <1>1, <1>5 DEF Constructs
  <2>2. CASE runs[c].todo # <<>>
    <3> DEFINE run == [runs[c] EXCEPT !.todo = Tail(runs[c].todo)]
    <3>1. runs[c].todo \in Seq(Fields) /\ Head(runs[c].todo) \in Fields
          /\ Tail(runs[c].todo) \in Seq(Fields)
      BY <2>1, <2>2, HeadTailProperties DEF Run
    <3>2. links' \in [Fields -> Seq(Link)]
      <4>1. Adds(c, Head(runs[c].todo), Initial) /\ Initial \in Datum
        BY <1>5, <2>2 DEF Constructs, Datum
      <4> QED
        BY <1>1, <3>1, <4>1, AddsLink
    <3>3. run \in Run /\ run.at = runs[c].at /\ run.obj = runs[c].obj /\ run.pos = runs[c].pos
      BY <2>1, <3>1 DEF Run
    <3>4. runs' = [runs EXCEPT ![c] = run] /\ UNCHANGED <<fields, dirtyFields>>
      BY <1>5, <2>2 DEF Constructs
    <3> HIDE DEF run
    <3>5. RunOK(run)
      BY <2>1, <3>3 DEF RunOK, Writing
    <3> QED
      BY <2>1, <3>2, <3>3, <3>4, <3>5, ShapeAlone
  <2>3. CASE runs[c].todo = <<>>
    <3> DEFINE run == [runs[c] EXCEPT !.at = "defaulting", !.todo = AllFields]
    <3>1. run \in Run /\ run.at = "defaulting" /\ run.obj = runs[c].obj /\ run.pos = runs[c].pos
      BY <1>3, <2>1 DEF Run, Waiting
    <3>2. runs' = [runs EXCEPT ![c] = run] /\ UNCHANGED <<links, fields, dirtyFields>>
      BY <1>5, <2>3 DEF Constructs
    <3> HIDE DEF run
    <3>3. RunOK(run)
      BY <2>1, <3>1 DEF RunOK, Writing, Waiting, Over
    <3> QED
      BY <1>1, <3>1, <3>2, <3>3, ShapeAlone
  <2> QED
    BY <2>2, <2>3
<1>6. ASSUME NEW c \in Ops, Defaults(c)
      PROVE  Shape'
  <2>1. RunOK(runs[c]) /\ runs[c] \in Run /\ runs[c].at = "defaulting" /\ runs[c].todo # <<>>
    BY <1>1, <1>6 DEF Defaults
  <2> DEFINE run == [runs[c] EXCEPT !.todo = Tail(runs[c].todo)]
  <2>2. runs[c].todo \in Seq(Fields) /\ Head(runs[c].todo) \in Fields
        /\ Tail(runs[c].todo) \in Seq(Fields)
    BY <2>1, HeadTailProperties DEF Run
  <2>3. links' \in [Fields -> Seq(Link)]
    <3>1. Adds(c, Head(runs[c].todo), c) \/ UNCHANGED links
      BY <1>6 DEF Defaults
    <3>2. c \in Datum
      BY DEF Datum
    <3> QED
      BY <1>1, <2>2, <3>1, <3>2, AddsLink
  <2>4. run \in Run /\ run.at = runs[c].at /\ run.obj = runs[c].obj /\ run.pos = runs[c].pos
    BY <2>1, <2>2 DEF Run
  <2>5. runs' = [runs EXCEPT ![c] = run] /\ UNCHANGED <<fields, dirtyFields>>
    BY <1>6 DEF Defaults
  <2> HIDE DEF run
  <2>6. RunOK(run)
    BY <2>1, <2>4 DEF RunOK, Writing
  <2> QED
    BY <2>1, <2>3, <2>4, <2>5, <2>6, ShapeAlone
<1>7. ASSUME NEW c \in Ops, StartsWriting(c)
      PROVE  Shape'
  <2>1. RunOK(runs[c]) /\ runs[c] \in Run /\ runs[c].at = "defaulting"
    BY <1>1, <1>7 DEF StartsWriting
  <2>2. PICK o \in Objects : runs[c].obj = {o}
    BY <2>1 DEF RunOK, Waiting
  <2>3. runs[c].pos = 0 /\ runs[c].data \in SUBSET Fields /\ UNCHANGED links
    BY <1>7, <2>1 DEF RunOK, Writing, Run, StartsWriting
  <2>4. PICK order \in SetToSeqs(runs[c].data \ ReadOnly) : NextDatum(c, order)
    BY <1>7 DEF StartsWriting
  <2>5. order \in Seq(Fields)
    BY <2>3, Orders
  <2>6. runs' \in [Ops -> Run] /\ CreateGoesOn(c)
    BY <1>1, <2>2, <2>3, <2>4, <2>5, DatumStep DEF CreateGoesOn
  <2> QED
    BY <2>2, <2>3, <2>6, ShapeCreates
<1>8. ASSUME NEW o \in Objects, Load(o)
      PROVE  Shape'
  <2>1. /\ ~Bare(links) /\ UNCHANGED <<links, dirtyFields, runs>>
        /\ fields' = [fields EXCEPT ![o] = Hydrated(links)]
    BY <1>8 DEF Load
  <2>2. Hydrated(links) \in [Fields -> Datum]
    BY <1>1, HydratedType
  <2>3. TypeOK'
    BY <1>1, <2>1, <2>2 DEF TypeOK
  <2>4. ASSUME NEW q \in Objects, dirtyFields'[q] # <<>>
        PROVE  fields'[q] # <<>>
    <3>1. dirtyFields[q] \in Seq(Fields) /\ dirtyFields[q] # <<>>
      BY <1>1, <2>1, <2>4 DEF TypeOK
    <3>2. Hydrated(links) # <<>>
      BY <2>2, <3>1, Loaded
    <3> QED
      BY <1>1, <2>1, <3>1, <3>2 DEF Shape
  <2>5. ~\A c \in Ops : runs[c].at = "new"
    BY <2>1 DEF Shape
  <2> QED
    BY <2>1, <2>3, <2>4, <2>5 DEF Shape
<1>9. ASSUME NEW c \in Ops, NEW o \in Objects, NEW data \in (SUBSET Fields) \ {{}}, Update(c, o, data)
      PROVE  Shape'
  BY <1>9, UpdateStep, ShapeSaves
<1>10. ASSUME NEW c \in Ops, NEW o \in Objects, Save(c, o)
       PROVE  Shape'
  BY <1>10, SaveStep, ShapeSaves
<1>11. ASSUME NEW c \in Ops, Rewrites(c)
       PROVE  Shape'
  <2>1. RunOK(runs[c]) /\ runs[c] \in Run /\ runs[c].at \in {"queried", "removing"}
        /\ runs[c].at \in Writing
    BY <1>1, <1>11 DEF Rewrites, Writing
  <2>2. CASE UNCHANGED links /\ GoesOn(c)
    BY <2>1, <2>2, ShapeGoesOn
  <2>3. CASE /\ runs[c].left # <<>>
             /\ \E f \in runs[c].field : Removes(f, Head(runs[c].left))
             /\ runs' = [runs EXCEPT ![c].at = "removing", ![c].left = Tail(runs[c].left)]
             /\ UNCHANGED <<fields, dirtyFields>>
    <3> DEFINE run == [runs[c] EXCEPT !.at = "removing", !.left = Tail(runs[c].left)]
    <3>1. PICK f \in runs[c].field : Removes(f, Head(runs[c].left))
      BY <2>3
    <3>2. f \in Fields
      BY <2>1 DEF Run
    <3>3. links' \in [Fields -> Seq(Link)]
      BY <1>1, <3>1, <3>2, RemovesLink
    <3>4. runs[c].left \in Seq(Link) /\ Tail(runs[c].left) \in Seq(Link)
      BY <2>1, <2>3, HeadTailProperties DEF Run
    <3>5. run \in Run /\ run.at = "removing" /\ run.obj = runs[c].obj /\ run.pos = runs[c].pos
          /\ run.field = runs[c].field
      BY <2>1, <3>4 DEF Run, Waiting
    <3>6. runs' = [runs EXCEPT ![c] = run]
      BY <1>1, <2>3
    <3> HIDE DEF run
    <3>7. RunOK(run)
      BY <2>1, <3>5 DEF RunOK, Writing, Over, Waiting
    <3> QED
      BY <2>3, <3>3, <3>5, <3>6, <3>7, ShapeAlone
  <2>4. CASE /\ runs' = [runs EXCEPT ![c].at = "signing"]
             /\ UNCHANGED <<links, fields, dirtyFields>>
    <3> DEFINE run == [runs[c] EXCEPT !.at = "signing"]
    <3>1. run \in Run /\ run.at = "signing" /\ run.obj = runs[c].obj /\ run.pos = runs[c].pos
          /\ run.field = runs[c].field
      BY <2>1 DEF Run, Waiting
    <3>2. runs' = [runs EXCEPT ![c] = run]
      BY <1>1, <2>4
    <3> HIDE DEF run
    <3>3. RunOK(run)
      BY <2>1, <3>1 DEF RunOK, Writing, Over, Waiting
    <3> QED
      BY <1>1, <2>4, <3>1, <3>2, <3>3, ShapeAlone
  <2> QED
    BY <1>11, <2>2, <2>3, <2>4 DEF Rewrites
<1>12. ASSUME NEW c \in Ops, Signed(c)
       PROVE  Shape'
  <2>1. RunOK(runs[c]) /\ runs[c] \in Run /\ runs[c].at = "signing"
    BY <1>1, <1>12 DEF Signed
  <2> DEFINE run == [runs[c] EXCEPT !.at = "storing"]
  <2>2. PICK f \in runs[c].field : Adds(c, f, runs[c].value)
    BY <1>12 DEF Signed
  <2>3. f \in Fields /\ runs[c].value \in Datum
    BY <2>1 DEF Run
  <2>4. links' \in [Fields -> Seq(Link)]
    BY <1>1, <2>2, <2>3, AddsLink
  <2>5. run \in Run /\ run.at = "storing" /\ run.obj = runs[c].obj /\ run.pos = runs[c].pos
        /\ run.field = runs[c].field
    BY <2>1 DEF Run, Waiting
  <2>6. runs' = [runs EXCEPT ![c] = run] /\ UNCHANGED <<fields, dirtyFields>>
    BY <1>1, <1>12 DEF Signed
  <2> HIDE DEF run
  <2>7. RunOK(run)
    BY <2>1, <2>5 DEF RunOK, Writing, Over, Waiting
  <2> QED
    BY <2>4, <2>5, <2>6, <2>7, ShapeAlone
<1>13. ASSUME NEW c \in Ops, Stored(c)
       PROVE  Shape'
  BY <1>13, ShapeGoesOn DEF Stored, Writing
<1>14. ASSUME NEW c \in Ops, Rejects(c)
       PROVE  Shape'
  <2>1. NoRun("failed") \in Run
    BY NoRunType DEF Over
  <2>2. RunOK(NoRun("failed")) /\ NoRun("failed").at # "new"
    BY DEF NoRun, RunOK, Writing, Waiting
  <2> QED
    BY <1>1, <1>14, <2>1, <2>2, ShapeAlone DEF Rejects
<1>15. ASSUME NEW c \in Ops, NEW o \in Objects, Called(c), Delete(c, o)
       PROVE  Shape'
  <2> DEFINE run == [runs[c] EXCEPT !.at = "purging", !.todo = Required]
  <2>1. run \in Run /\ run.at = "purging" /\ run.obj = {} /\ run.pos = 0
    <3>1. runs[c] \in Run /\ runs[c].pos = 0 /\ runs[c].obj = {}
      BY <1>1, <1>2, <1>15
    <3> QED
      BY <1>3, <3>1 DEF Run, Waiting
  <2>2. runs' = [runs EXCEPT ![c] = run] /\ UNCHANGED <<links, fields, dirtyFields>>
    BY <1>1, <1>15 DEF Delete
  <2> HIDE DEF run
  <2>3. RunOK(run)
    BY <2>1 DEF RunOK, Writing, Over
  <2> QED
    BY <1>1, <2>1, <2>2, <2>3, ShapeAlone
<1>16. ASSUME NEW c \in Ops, Purges(c)
       PROVE  Shape'
  <2>1. RunOK(runs[c]) /\ runs[c] \in Run /\ runs[c].at = "purging"
        /\ UNCHANGED <<fields, dirtyFields>>
    BY <1>1, <1>16 DEF Purges
  <2>2. CASE /\ runs[c].left # <<>>
             /\ \E f \in runs[c].field : Removes(f, Head(runs[c].left))
             /\ runs' = [runs EXCEPT ![c].left = Tail(runs[c].left)]
    <3> DEFINE run == [runs[c] EXCEPT !.left = Tail(runs[c].left)]
    <3>1. PICK f \in runs[c].field : Removes(f, Head(runs[c].left))
      BY <2>2
    <3>2. f \in Fields
      BY <2>1 DEF Run
    <3>3. links' \in [Fields -> Seq(Link)]
      BY <1>1, <3>1, <3>2, RemovesLink
    <3>4. runs[c].left \in Seq(Link) /\ Tail(runs[c].left) \in Seq(Link)
      BY <2>1, <2>2, HeadTailProperties DEF Run
    <3>5. run \in Run /\ run.at = runs[c].at /\ run.obj = runs[c].obj /\ run.pos = runs[c].pos
      BY <2>1, <3>4 DEF Run
    <3>6. runs' = [runs EXCEPT ![c] = run]
      BY <1>1, <2>2
    <3> HIDE DEF run
    <3>7. RunOK(run)
      BY <2>1, <3>5 DEF RunOK, Writing, Over, Waiting
    <3> QED
      BY <2>1, <3>3, <3>5, <3>6, <3>7, ShapeAlone
  <2>3. CASE /\ runs[c].left = <<>> /\ runs[c].todo # <<>>
             /\ runs' = [runs EXCEPT ![c].field = {Head(runs[c].todo)},
                                     ![c].left = links[Head(runs[c].todo)],
                                     ![c].todo = Tail(runs[c].todo)]
             /\ UNCHANGED links
    <3> DEFINE run == [runs[c] EXCEPT !.field = {Head(runs[c].todo)},
                                      !.left = links[Head(runs[c].todo)],
                                      !.todo = Tail(runs[c].todo)]
    <3>1. runs[c].todo \in Seq(Fields) /\ Head(runs[c].todo) \in Fields
          /\ Tail(runs[c].todo) \in Seq(Fields)
      BY <2>1, <2>3, HeadTailProperties DEF Run
    <3>2. run \in Run /\ run.at = runs[c].at /\ run.obj = runs[c].obj /\ run.pos = runs[c].pos
      BY <1>1, <2>1, <3>1 DEF Run
    <3>3. runs' = [runs EXCEPT ![c] = run]
      BY <1>1, <2>3
    <3> HIDE DEF run
    <3>4. RunOK(run)
      BY <2>1, <3>2 DEF RunOK, Writing, Over, Waiting
    <3> QED
      BY <1>1, <2>1, <2>3, <3>2, <3>3, <3>4, ShapeAlone
  <2>4. CASE runs' = [runs EXCEPT ![c] = NoRun("deleted")] /\ UNCHANGED links
    <3>1. NoRun("deleted") \in Run
      BY NoRunType DEF Over
    <3>2. RunOK(NoRun("deleted")) /\ NoRun("deleted").at # "new"
      BY DEF NoRun, RunOK, Writing, Waiting
    <3> QED
      BY <1>1, <2>1, <2>4, <3>1, <3>2, ShapeAlone
  <2> QED
    BY <1>16, <2>2, <2>3, <2>4 DEF Purges
<1>17. CASE UNCHANGED vars
  BY <1>17 DEF vars, Shape, TypeOK
<1> QED
  BY <1>4, <1>5, <1>6, <1>7, <1>8, <1>9, <1>10, <1>11, <1>12, <1>13, <1>14, <1>15, <1>16, <1>17,
     DataAssumption
     DEF Next, DataAssumption

-----------------------------------------------------------------------------
(***************************************************************************)
(* What keeps a field still does if it is not the call that makes the      *)
(* step, or that call sees to it.                                          *)
(***************************************************************************)
LEMMA KeptSame ==
  ASSUME NEW c \in Ops, Same(c), NEW f, Kept(f),
         links[f] # <<>> => Kept(f)',
         runs[c].at = "constructing" /\ f \in ToSet(runs[c].todo) => Kept(f)',
         runs[c].at \in {"removing", "signing"} /\ runs[c].field = {f} => Kept(f)',
         runs[c].at \in {"failed", "deleted", "purging"} => Kept(f)'
  PROVE  Kept(f)'
<1>1. ASSUME NEW r \in Ops \ {c},
             \/ runs[r].at = "constructing" /\ f \in ToSet(runs[r].todo)
             \/ runs[r].at \in {"removing", "signing"} /\ runs[r].field = {f}
             \/ runs[r].at \in {"failed", "deleted", "purging"}
      PROVE  Kept(f)'
  <2>1. runs'[r].at = runs[r].at /\ runs'[r].todo = runs[r].todo /\ runs'[r].field = runs[r].field
    BY DEF Same
  <2> QED
    BY <1>1, <2>1 DEF Kept
<1>2. CASE links[f] # <<>>
  BY <1>2
<1>3. CASE \E r \in Ops : runs[r].at = "constructing" /\ f \in ToSet(runs[r].todo)
  BY <1>1, <1>3
<1>4. CASE \E r \in Ops : runs[r].at \in {"removing", "signing"} /\ runs[r].field = {f}
  BY <1>1, <1>4
<1>5. CASE \E r \in Ops : runs[r].at \in {"failed", "deleted", "purging"}
  BY <1>1, <1>5
<1> QED
  BY <1>2, <1>3, <1>4, <1>5 DEF Kept

(***************************************************************************)
(* An object that was loaded or has dirty fields had a call.               *)
(***************************************************************************)
LEMMA NotNew ==
  ASSUME Shape, NEW o \in Objects, fields[o] # <<>> \/ dirtyFields[o] # <<>>
  PROVE  \E c \in Ops : runs[c].at # "new"
BY DEF Shape

(***************************************************************************)
(* Every step keeps what keeps the required fields.                        *)
(***************************************************************************)
LEMMA KeptStep == Shape /\ KeptInv /\ [Next]_vars => KeptInv'
<1> SUFFICES ASSUME Shape, KeptInv, [Next]_vars, NEW f \in ToSet(Required),
                    \E c \in Ops : runs'[c].at # "new"
             PROVE  Kept(f)'
  BY DEF KeptInv
<1>1. /\ TypeOK /\ links \in [Fields -> Seq(Link)] /\ runs \in [Ops -> Run]
      /\ \A c \in Ops : RunOK(runs[c])
      /\ f \in Fields
  BY DEF Shape, TypeOK, Fields
<1>2. ASSUME NEW c \in Ops, Called(c)
      PROVE  runs[c].at = "new"
  BY <1>2, OpsAssumption DEF OpsAssumption, Called
<1>3. ASSUME NEW c \in Ops, runs[c].at # "new"
      PROVE  Kept(f)
  BY <1>3 DEF KeptInv
<1>4. ASSUME NEW c \in Ops, NEW x, runs' = [runs EXCEPT ![c] = x]
      PROVE  runs'[c] = x /\ Same(c)
  <2>1. Alone(c)
    BY <1>4 DEF Alone
  <2> QED
    BY <1>1, <1>4, <2>1, OthersSame
<1>5. ASSUME NEW c \in Ops, runs[c].at \in {"queried", "storing"}, GoesOn(c), UNCHANGED links
      PROVE  Kept(f)'
  <2>1. Same(c)
    BY <1>5, ShapeGoesOn DEF Writing
  <2>2. links[f] # <<>> => Kept(f)'
    BY <1>5 DEF Kept
  <2> QED
    BY <1>3, <1>5, <2>1, <2>2, KeptSame
<1>6. ASSUME NEW c \in Ops, NEW o \in Objects, NEW data \in SUBSET Fields, Create(c, o, data)
      PROVE  Kept(f)'
  <2>1. runs'[c].at = "constructing" /\ runs'[c].todo = Required
    BY <1>1, <1>6 DEF Create, Run
  <2> QED
    BY <2>1 DEF Kept
<1>7. ASSUME NEW c \in Ops, Constructs(c)
      PROVE  Kept(f)'
  <2>1. runs[c].at = "constructing" /\ runs[c].todo \in Seq(Fields) /\ runs[c] \in Run
    BY <1>1, <1>7 DEF Constructs, Run
  <2>2. CASE runs[c].todo # <<>>
    <3> DEFINE s == runs[c].todo
               g == Head(s)
    <3>1. g \in Fields /\ Adds(c, g, Initial) /\ Initial \in Datum
      BY <1>7, <2>1, <2>2, HeadTailProperties DEF Constructs, Datum
    <3>2. links'[g] # <<>> /\ (f # g => links'[f] = links[f])
      BY <1>1, <3>1, AddsLink
    <3>3. runs' = [runs EXCEPT ![c] = [runs[c] EXCEPT !.todo = Tail(s)]]
      BY <1>7, <2>2 DEF Constructs
    <3>4. runs'[c].at = "constructing" /\ runs'[c].todo = Tail(s) /\ Same(c)
      <4>1. runs'[c] = [runs[c] EXCEPT !.todo = Tail(s)] /\ Same(c)
        BY <1>4, <3>3
      <4> QED
        BY <2>1, <4>1 DEF Run
    <3>5. ASSUME f \in ToSet(s), f # g
          PROVE  f \in ToSet(Tail(s))
      <4>1. PICK i \in 1..Len(s) : f = s[i]
        BY <2>1, <3>5, LenProperties DEF ToSet
      <4>2. Tail(s) \in Seq(Fields) /\ Len(Tail(s)) = Len(s) - 1 /\ Len(s) \in Nat /\ g = s[1]
            /\ \A j \in 1..Len(Tail(s)) : Tail(s)[j] = s[j + 1]
        BY <2>1, <2>2, HeadTailProperties, LenProperties
      <4> HIDE DEF s, g
      <4>3. i # 1
        BY <3>5, <4>1, <4>2
      <4>4. i - 1 \in 1..Len(Tail(s)) /\ (i - 1) + 1 = i
        BY <4>1, <4>2, <4>3
      <4>5. i - 1 \in DOMAIN Tail(s) /\ Tail(s)[i - 1] = f
        BY <4>1, <4>2, <4>4, LenProperties
      <4> QED
        BY <4>5 DEF ToSet
    <3>6. links[f] # <<>> => Kept(f)'
      BY <3>2 DEF Kept
    <3>7. f \in ToSet(s) => Kept(f)'
      BY <3>2, <3>4, <3>5 DEF Kept
    <3> HIDE DEF g
    <3> QED
      BY <1>3, <2>1, <3>4, <3>6, <3>7, KeptSame
  <2>3. CASE runs[c].todo = <<>>
    <3>1. runs' = [runs EXCEPT ![c] = [runs[c] EXCEPT !.at = "defaulting", !.todo = AllFields]]
      BY <1>7, <2>3 DEF Constructs
    <3>2. Same(c)
      BY <1>4, <3>1
    <3>3. f \notin ToSet(runs[c].todo)
      BY <2>3 DEF ToSet
    <3>4. links[f] # <<>> => Kept(f)'
      BY <1>7, <2>3 DEF Constructs, Kept
    <3> QED
      BY <1>3, <2>1, <3>2, <3>3, <3>4, KeptSame
  <2> QED
    BY <2>2, <2>3
<1>8. ASSUME NEW c \in Ops, Defaults(c)
      PROVE  Kept(f)'
  <2>1. runs[c].at = "defaulting" /\ runs[c].todo \in Seq(Fields) /\ runs[c].todo # <<>>
    BY <1>1, <1>8 DEF Defaults, Run
  <2>2. Adds(c, Head(runs[c].todo), c) \/ UNCHANGED links
    BY <1>8 DEF Defaults
  <2>3. Head(runs[c].todo) \in Fields /\ c \in Datum
    BY <2>1, HeadTailProperties DEF Datum
  <2>4. links[f] # <<>> => links'[f] # <<>>
    BY <1>1, <2>2, <2>3, AddsLink
  <2>5. runs' = [runs EXCEPT ![c] = [runs[c] EXCEPT !.todo = Tail(runs[c].todo)]]
    BY <1>8 DEF Defaults
  <2>6. Same(c)
    BY <1>4, <2>5
  <2>7. links[f] # <<>> => Kept(f)'
    BY <2>4 DEF Kept
  <2> QED
    BY <1>3, <2>1, <2>6, <2>7, KeptSame
<1>9. ASSUME NEW c \in Ops, StartsWriting(c)
      PROVE  Kept(f)'
  <2>1. RunOK(runs[c]) /\ runs[c].at = "defaulting" /\ runs[c].data \in SUBSET Fields /\ UNCHANGED links
    BY <1>1, <1>9 DEF StartsWriting, Run
  <2>2. \E o \in Objects : runs[c].obj = {o}
    BY <2>1 DEF RunOK, Waiting
  <2>3. PICK order \in SetToSeqs(runs[c].data \ ReadOnly) : NextDatum(c, order)
    BY <1>9 DEF StartsWriting
  <2>4. order \in Seq(Fields)
    BY <2>1, Orders
  <2>5. Alone(c)
    BY <1>1, <2>1, <2>2, <2>3, <2>4, DatumStep
  <2>6. Same(c)
    BY <1>1, <2>5, OthersSame
  <2>7. links[f] # <<>> => Kept(f)'
    BY <2>1 DEF Kept
  <2> QED
    BY <1>3, <2>1, <2>6, <2>7, KeptSame
<1>10. ASSUME UNCHANGED <<links, runs>>
       PROVE  Kept(f)'
  BY <1>10 DEF KeptInv, Kept
<1>11. ASSUME NEW c \in Ops, NEW o \in Objects, NEW d, NEW v, Called(c), Saves(c, o, d, v)
       PROVE  Kept(f)'
  <2>1. Same(c)
    BY <1>11, ShapeSaves
  <2>2. \E r \in Ops : runs[r].at # "new"
    BY <1>11, NotNew DEF Saves, Begins
  <2>3. runs[c].at = "new" /\ Kept(f)
    BY <1>2, <1>11, <2>2 DEF KeptInv
  <2>4. links[f] # <<>> => Kept(f)'
    BY <1>11 DEF Saves, Begins, Kept
  <2> QED
    BY <2>1, <2>3, <2>4, KeptSame
<1>12. ASSUME NEW c \in Ops, NEW g \in Fields, NEW l, Removes(g, l), g # f \/ Kept(f)'
       PROVE  links[f] # <<>> => Kept(f)'
  <2>1. g # f => links'[f] = links[f]
    BY <1>1, <1>12, RemovesLink
  <2> QED
    BY <1>12, <2>1 DEF Kept
<1>13. ASSUME NEW c \in Ops, Rewrites(c)
       PROVE  Kept(f)'
  <2>1. runs[c].at \in {"queried", "removing"} /\ runs[c] \in Run
    BY <1>1, <1>13 DEF Rewrites
  <2>2. CASE runs[c].at = "queried" /\ UNCHANGED links /\ GoesOn(c)
    BY <1>5, <2>2
  <2>3. PICK g \in Fields : runs[c].field = {g}
    BY <1>1, <2>1 DEF RunOK, Writing
  <2>4. CASE /\ \E h \in runs[c].field : Removes(h, Head(runs[c].left))
             /\ runs' = [runs EXCEPT ![c].at = "removing", ![c].left = Tail(runs[c].left)]
    <3>1. Removes(g, Head(runs[c].left))
      BY <2>3, <2>4
    <3>2. runs' = [runs EXCEPT ![c] = [runs[c] EXCEPT !.at = "removing", !.left = Tail(runs[c].left)]]
      BY <1>1, <2>4
    <3>3. Same(c) /\ runs'[c].at = "removing" /\ runs'[c].field = {g}
      <4>1. runs'[c] = [runs[c] EXCEPT !.at = "removing", !.left = Tail(runs[c].left)] /\ Same(c)
        BY <1>4, <3>2
      <4> QED
        BY <2>1, <2>3, <4>1 DEF Run
    <3>4. g = f => Kept(f)'
      BY <3>3 DEF Kept
    <3>5. links[f] # <<>> => Kept(f)'
      BY <1>12, <3>1, <3>4
    <3> QED
      BY <1>3, <2>1, <2>3, <3>3, <3>4, <3>5, KeptSame
  <2>5. CASE /\ runs' = [runs EXCEPT ![c].at = "signing"]
             /\ UNCHANGED links
    <3>1. runs' = [runs EXCEPT ![c] = [runs[c] EXCEPT !.at = "signing"]]
      BY <1>1, <2>5
    <3>2. Same(c) /\ runs'[c].at = "signing" /\ runs'[c].field = {g}
      <4>1. runs'[c] = [runs[c] EXCEPT !.at = "signing"] /\ Same(c)
        BY <1>4, <3>1
      <4> QED
        BY <2>1, <2>3, <4>1 DEF Run
    <3>3. g = f => Kept(f)'
      BY <3>2 DEF Kept
    <3>4. links[f] # <<>> => Kept(f)'
      BY <2>5 DEF Kept
    <3> QED
      BY <1>3, <2>1, <2>3, <3>2, <3>3, <3>4, KeptSame
  <2> QED
    BY <1>13, <2>2, <2>4, <2>5 DEF Rewrites
<1>14. ASSUME NEW c \in Ops, Signed(c)
       PROVE  Kept(f)'
  <2>1. runs[c].at = "signing" /\ runs[c] \in Run
    BY <1>1, <1>14 DEF Signed
  <2>2. PICK g \in Fields : runs[c].field = {g}
    BY <1>1, <2>1 DEF RunOK, Writing
  <2>3. Adds(c, g, runs[c].value) /\ runs[c].value \in Datum
    BY <1>14, <2>1, <2>2 DEF Signed, Run
  <2>4. links'[g] # <<>> /\ (g # f => links'[f] = links[f])
    BY <1>1, <2>3, AddsLink
  <2>5. runs' = [runs EXCEPT ![c] = [runs[c] EXCEPT !.at = "storing"]]
    BY <1>1, <1>14 DEF Signed
  <2>6. Same(c)
    BY <1>4, <2>5
  <2>7. (g = f => Kept(f)') /\ (links[f] # <<>> => Kept(f)')
    BY <2>4 DEF Kept
  <2> QED
    BY <1>3, <2>1, <2>2, <2>6, <2>7, KeptSame
<1>15. ASSUME NEW c \in Ops, Rejects(c)
       PROVE  Kept(f)'
  <2>1. runs'[c].at = "failed"
    BY <1>1, <1>15 DEF Rejects, NoRun
  <2> QED
    BY <2>1 DEF Kept
<1>16. ASSUME NEW c \in Ops, NEW o \in Objects, Delete(c, o)
       PROVE  Kept(f)'
  <2>1. runs'[c].at = "purging"
    BY <1>1, <1>16 DEF Delete, Run
  <2> QED
    BY <2>1 DEF Kept
<1>17. ASSUME NEW c \in Ops, Purges(c)
       PROVE  Kept(f)'
  <2>1. runs'[c].at \in {"purging", "deleted"}
    BY <1>1, <1>17 DEF Purges, NoRun, Run
  <2> QED
    BY <2>1 DEF Kept
<1>18. CASE UNCHANGED vars
  BY <1>10, <1>18 DEF vars
<1>19. ASSUME NEW o \in Objects, Load(o)
       PROVE  Kept(f)'
  BY <1>10, <1>19 DEF Load
<1>20. ASSUME NEW c \in Ops, NEW o \in Objects, Called(c),
              \/ \E data \in (SUBSET Fields) \ {{}} : Update(c, o, data)
              \/ Save(c, o)
       PROVE  Kept(f)'
  BY <1>11, <1>20, UpdateStep, SaveStep
<1>21. ASSUME NEW c \in Ops, Stored(c)
       PROVE  Kept(f)'
  BY <1>5, <1>21 DEF Stored
<1> QED
  BY <1>6, <1>7, <1>8, <1>9, <1>13, <1>14, <1>15, <1>16, <1>17, <1>18, <1>19, <1>20, <1>21,
     DataAssumption
     DEF Next, DataAssumption

(***************************************************************************)
(* FieldKept of Models: whatever calls overlap, every required field of an *)
(* instance that was created keeps a value, for any fields, objects and    *)
(* calls.                                                                  *)
(***************************************************************************)
THEOREM FieldKeptCorrect == Spec => []FieldKept
<1>1. Init => Shape /\ KeptInv
  BY ShapeInit DEF Init, KeptInv, NoRun
<1>2. Shape /\ KeptInv /\ [Next]_vars => (Shape /\ KeptInv)'
  BY ShapeStep, KeptStep
<1>3. Shape /\ KeptInv => FieldKept
  BY DEF Shape, KeptInv, Kept, FieldKept, AtRest, Over
<1> QED
  BY <1>1, <1>2, <1>3, PTL DEF Spec

-----------------------------------------------------------------------------
(***************************************************************************)
(* Calls that do not overlap have not before.                              *)
(***************************************************************************)
LEMMA NoOverlap ==
  ASSUME HNext, ~overlapped'
  PROVE  ~overlapped /\ OneUnderWay'
BY DEF HNext, OneUnderWay

(***************************************************************************)
(* Then no call but the one that makes a step is under way.                *)
(***************************************************************************)
LEMMA Quiet ==
  ASSUME OneUnderWay, OneUnderWay', NEW c \in Ops, Same(c),
         runs[c].at \in Waiting \/ runs'[c].at \in Waiting
  PROVE  \A r \in Ops \ {c} : runs[r].at \notin Waiting /\ runs'[r].at \notin Waiting
BY DEF OneUnderWay, UnderWay, Same

(***************************************************************************)
(* The rest of a sequence without repetitions has none, and lacks the      *)
(* first element.                                                          *)
(***************************************************************************)
LEMMA TailOfInjective ==
  ASSUME NEW S, NEW s \in Seq(S), s # <<>>
  PROVE  /\ Head(s) \in ToSet(s) /\ ToSet(Tail(s)) \subseteq ToSet(s)
         /\ IsInjective(s) => IsInjective(Tail(s)) /\ Head(s) \notin ToSet(Tail(s))
<1> DEFINE t == Tail(s)
<1>1. /\ t \in Seq(S) /\ Len(t) = Len(s) - 1 /\ Head(s) = s[1]
      /\ \A j \in 1..Len(t) : t[j] = s[j + 1]
  BY HeadTailProperties
<1>2. DOMAIN s = 1..Len(s) /\ DOMAIN t = 1..Len(t) /\ Len(s) \in Nat \ {0}
  BY <1>1, LenProperties, EmptySeq
<1> HIDE DEF t
<1>3. \A j \in 1..Len(t) : j + 1 \in 1..Len(s) /\ j + 1 # 1
  BY <1>1, <1>2
<1>4. 1 \in 1..Len(s)
  BY <1>2
<1>5. Head(s) \in ToSet(s) /\ ToSet(t) \subseteq ToSet(s)
  BY <1>1, <1>2, <1>3, <1>4 DEF ToSet
<1>6. ASSUME IsInjective(s)
      PROVE  IsInjective(t) /\ Head(s) \notin ToSet(t)
  <2>1. \A i, j \in 1..Len(s) : s[i] = s[j] => i = j
    BY <1>2, <1>6 DEF IsInjective
  <2>2. ASSUME NEW i \in 1..Len(t), NEW j \in 1..Len(t), t[i] = t[j]
        PROVE  i = j
    <3>1. s[i + 1] = s[j + 1]
      BY <1>1, <2>2
    <3>2. i + 1 = j + 1
      BY <1>3, <2>1, <3>1
    <3> QED
      BY <3>2
  <2>3. ASSUME NEW j \in 1..Len(t), t[j] = Head(s)
        PROVE  FALSE
    BY <1>1, <1>3, <1>4, <2>1, <2>3
  <2> QED
    BY <1>2, <2>2, <2>3 DEF IsInjective, ToSet
<1> QED
  BY <1>5, <1>6 DEF t

(***************************************************************************)
(* Without an overlap every step leaves a field one link.                  *)
(***************************************************************************)
LEMMA SingleStep == Shape /\ SingleInv /\ [HNext]_hvars => SingleInv'
<1> SUFFICES ASSUME Shape, SingleInv, HNext, ~overlapped'
             PROVE  SingleInv'
  BY DEF hvars, vars, SingleInv, OneUnderWay, UnderWay, RunSingle
<1>1. /\ TypeOK /\ links \in [Fields -> Seq(Link)] /\ runs \in [Ops -> Run]
      /\ \A c \in Ops : RunOK(runs[c])
  BY DEF Shape, TypeOK
<1>2. /\ OneUnderWay /\ OneUnderWay'
      /\ \A f \in Fields : Len(links[f]) <= 1 /\ Len(links[f]) \in Nat
      /\ \A c \in Ops : RunSingle(runs[c])
  BY <1>1, NoOverlap DEF SingleInv
<1>3. ASSUME NEW c \in Ops, Same(c), runs[c].at \in Waiting \/ runs'[c].at \in Waiting,
             \A f \in Fields : Len(links'[f]) <= 1, RunSingle(runs[c])'
      PROVE  SingleInv'
  <2>1. ASSUME NEW r \in Ops \ {c}
        PROVE  RunSingle(runs[r])'
    <3>1. runs'[r].at \notin Waiting
      BY <1>2, <1>3, Quiet
    <3> QED
      BY <3>1 DEF RunSingle, Waiting
  <2> QED
    BY <1>2, <1>3, <2>1 DEF SingleInv
<1>4. ASSUME NEW c \in Ops, NEW x, runs' = [runs EXCEPT ![c] = x]
      PROVE  runs'[c] = x /\ Same(c)
  <2>1. Alone(c)
    BY <1>4 DEF Alone
  <2> QED
    BY <1>1, <1>4, <2>1, OthersSame
<1>5. ASSUME UNCHANGED links
      PROVE  \A f \in Fields : Len(links'[f]) <= 1
  BY <1>2, <1>5
<1>6. ASSUME NEW g \in Fields, \A h \in Fields \ {g} : links'[h] = links[h], Len(links'[g]) <= 1
       PROVE  \A h \in Fields : Len(links'[h]) <= 1
  <2> SUFFICES ASSUME NEW h \in Fields
               PROVE  Len(links'[h]) <= 1
    OBVIOUS
  <2>1. CASE h = g
    BY <1>6, <2>1
  <2>2. CASE h # g
    <3>1. links'[h] = links[h]
      BY <1>6, <2>2
    <3>2. Len(links[h]) <= 1
      BY <1>2
    <3> QED
      BY <3>1, <3>2
  <2> QED
    BY <2>1, <2>2
<1>7. ASSUME NEW c \in Ops, NEW obj, NEW p, NEW f, NEW v, Asks(c, obj, p, f, v)
      PROVE  RunSingle(runs[c])'
  BY <1>7 DEF Asks, RunSingle
<1>8. ASSUME NEW c \in Ops, NEW at \in Over, runs'[c] = NoRun(at)
      PROVE  RunSingle(runs[c])'
  BY <1>8 DEF NoRun, RunSingle, Over
<1>9. ASSUME NEW c \in Ops, runs[c].at \in {"queried", "storing"}, GoesOn(c), UNCHANGED links
      PROVE  SingleInv'
  <2>1. Same(c) /\ runs[c].at \in Writing /\ runs[c].at \in Waiting
    BY <1>9, ShapeGoesOn DEF Writing, Waiting
  <2>2. CreateGoesOn(c) \/ \E o \in Objects : SaveGoesOn(c, o)
    BY <1>9, <2>1, GoesOnStep
  <2>3. RunSingle(runs[c])'
    BY <1>7, <1>8, <2>2 DEF CreateGoesOn, SaveGoesOn, Proceeds, Ends, Over
  <2> QED
    BY <1>3, <1>5, <1>9, <2>1, <2>3
<1>10. ASSUME NEW c \in Ops, NEW o \in Objects, NEW data \in SUBSET Fields, Create(c, o, data)
      PROVE  SingleInv'
  <2> DEFINE run == [runs[c] EXCEPT !.at = "constructing", !.obj = {o}, !.todo = Required, !.data = data]
  <2>1. run.at = "constructing" /\ run.todo = Required
    BY <1>1 DEF Run
  <2>2. runs' = [runs EXCEPT ![c] = run] /\ UNCHANGED links /\ Bare(links)
    BY <1>10 DEF Create
  <2> HIDE DEF run
  <2>3. runs'[c] = run /\ Same(c)
    BY <1>4, <2>2
  <2>4. \A f \in ToSet(Required) : links'[f] = <<>>
    BY <2>2 DEF Bare, Fields
  <2>5. RunSingle(runs[c])'
    BY <2>1, <2>3, <2>4, FieldsAssumption DEF RunSingle, FieldsAssumption
  <2> QED
    BY <1>3, <1>5, <2>1, <2>2, <2>3, <2>5 DEF Waiting
<1>11. ASSUME NEW c \in Ops, Constructs(c)
       PROVE  SingleInv'
  <2>1. runs[c].at = "constructing" /\ runs[c].todo \in Seq(Fields) /\ runs[c] \in Run
        /\ runs[c].at \in Waiting
    BY <1>1, <1>11 DEF Constructs, Run, Waiting
  <2>2. CASE runs[c].todo # <<>>
    <3> DEFINE s == runs[c].todo
               g == Head(s)
               run == [runs[c] EXCEPT !.todo = Tail(s)]
    <3>1. g \in Fields /\ Adds(c, g, Initial) /\ Initial \in Datum
      BY <1>11, <2>1, <2>2, HeadTailProperties DEF Constructs, Datum
    <3>2. /\ Len(links'[g]) = Len(links[g]) + 1
          /\ \A h \in Fields \ {g} : links'[h] = links[h]
      BY <1>1, <3>1, AddsLink
    <3>3. IsInjective(s) /\ \A h \in ToSet(s) : links[h] = <<>>
      BY <1>2, <2>1 DEF RunSingle
    <3>4. /\ g \in ToSet(s) /\ ToSet(Tail(s)) \subseteq ToSet(s)
          /\ IsInjective(Tail(s)) /\ g \notin ToSet(Tail(s))
      BY <2>1, <2>2, <3>3, TailOfInjective
    <3>5. run.at = "constructing" /\ run.todo = Tail(s)
      BY <2>1 DEF Run
    <3>6. runs' = [runs EXCEPT ![c] = run]
      BY <1>11, <2>2 DEF Constructs
    <3> HIDE DEF run
    <3>7. runs'[c] = run /\ Same(c)
      BY <1>4, <3>6
    <3>8. ToSet(s) \subseteq Fields
      BY <2>1, LenProperties DEF ToSet
    <3> HIDE DEF g, s
    <3>9. \A h \in Fields : Len(links'[h]) <= 1
      <4>1. Len(links[g]) = 0
        BY <3>3, <3>4, EmptySeq
      <4>2. Len(links'[g]) <= 1
        BY <3>2, <4>1
      <4> QED
        BY <1>6, <3>1, <3>2, <4>2 DEF g, s
    <3>10. \A h \in ToSet(Tail(s)) : links'[h] = <<>>
      BY <3>2, <3>3, <3>4, <3>8
    <3>11. RunSingle(runs[c])'
      BY <3>4, <3>5, <3>7, <3>10 DEF RunSingle
    <3> QED
      BY <1>3, <2>1, <3>7, <3>9, <3>11
  <2>3. CASE runs[c].todo = <<>>
    <3> DEFINE run == [runs[c] EXCEPT !.at = "defaulting", !.todo = AllFields]
    <3>1. run.at = "defaulting"
      BY <2>1 DEF Run
    <3>2. runs' = [runs EXCEPT ![c] = run] /\ UNCHANGED links
      BY <1>11, <2>3 DEF Constructs
    <3> HIDE DEF run
    <3>3. runs'[c] = run /\ Same(c)
      BY <1>4, <3>2
    <3>4. RunSingle(runs[c])'
      BY <3>1, <3>3 DEF RunSingle
    <3> QED
      BY <1>3, <1>5, <2>1, <3>2, <3>3, <3>4
  <2> QED
    BY <2>2, <2>3
<1>12. ASSUME NEW c \in Ops, Defaults(c)
       PROVE  SingleInv'
  <2>1. runs[c].at = "defaulting" /\ runs[c].todo \in Seq(Fields) /\ runs[c].todo # <<>>
        /\ runs[c] \in Run /\ runs[c].at \in Waiting
    BY <1>1, <1>12 DEF Defaults, Run, Waiting
  <2> DEFINE g == Head(runs[c].todo)
             run == [runs[c] EXCEPT !.todo = Tail(runs[c].todo)]
  <2>2. g \in Fields /\ c \in Datum
    BY <2>1, HeadTailProperties DEF Datum
  <2>3. (links[g] = <<>> /\ Adds(c, g, c)) \/ UNCHANGED links
    BY <1>12 DEF Defaults
  <2>4. run.at = "defaulting"
    BY <2>1 DEF Run
  <2>5. runs' = [runs EXCEPT ![c] = run]
    BY <1>12 DEF Defaults
  <2> HIDE DEF g, run
  <2>6. \A h \in Fields : Len(links'[h]) <= 1
    <3>1. CASE links[g] = <<>> /\ Adds(c, g, c)
      <4>1. /\ Len(links'[g]) = Len(links[g]) + 1
            /\ \A h \in Fields \ {g} : links'[h] = links[h]
        BY <1>1, <2>2, <3>1, AddsLink
      <4>2. Len(links[g]) = 0
        BY <3>1, EmptySeq
      <4>3. Len(links'[g]) <= 1
        BY <4>1, <4>2
      <4> QED
        BY <1>6, <2>2, <4>1, <4>3
    <3> QED
      BY <1>5, <2>3, <3>1
  <2>7. runs'[c] = run /\ Same(c)
    BY <1>4, <2>5
  <2>8. RunSingle(runs[c])'
    BY <2>4, <2>7 DEF RunSingle
  <2> QED
    BY <1>3, <2>1, <2>6, <2>7, <2>8
<1>13. ASSUME NEW c \in Ops, StartsWriting(c)
       PROVE  SingleInv'
  <2>1. /\ RunOK(runs[c]) /\ runs[c].at = "defaulting" /\ runs[c].data \in SUBSET Fields
        /\ UNCHANGED links /\ runs[c].at \in Waiting
    BY <1>1, <1>13 DEF StartsWriting, Run, Waiting
  <2>2. \E o \in Objects : runs[c].obj = {o}
    BY <2>1 DEF RunOK, Waiting
  <2>3. PICK order \in SetToSeqs(runs[c].data \ ReadOnly) : NextDatum(c, order)
    BY <1>13 DEF StartsWriting
  <2>4. order \in Seq(Fields)
    BY <2>1, Orders
  <2>5. /\ Alone(c)
        /\ \/ \E f \in Fields : Asks(c, runs[c].obj, runs[c].pos, f, c)
           \/ runs'[c] = NoRun("failed") \/ runs'[c] = NoRun("created")
    BY <1>1, <2>1, <2>2, <2>3, <2>4, DatumStep
  <2>6. Same(c)
    BY <1>1, <2>5, OthersSame
  <2>7. RunSingle(runs[c])'
    BY <1>7, <1>8, <2>5 DEF Over
  <2> QED
    BY <1>3, <1>5, <2>1, <2>6, <2>7
<1>14. ASSUME NEW o \in Objects, Load(o)
       PROVE  SingleInv'
  BY <1>2, <1>14 DEF Load, SingleInv, RunSingle
<1>15. ASSUME NEW c \in Ops, NEW o \in Objects, NEW d, NEW v, Saves(c, o, d, v)
       PROVE  SingleInv'
  <2>1. Same(c) /\ UNCHANGED links
    BY <1>15, ShapeSaves DEF Saves, Begins
  <2>2. RunSingle(runs[c])'
    BY <1>7, <1>8, <1>15 DEF Saves, Proceeds, Ends, Over
  <2>3. ASSUME NEW r \in Ops \ {c}
        PROVE  RunSingle(runs[r])'
    BY <1>2, <2>1 DEF Same, RunSingle
  <2> QED
    BY <1>2, <1>5, <2>1, <2>2, <2>3 DEF SingleInv
<1>16. ASSUME NEW c \in Ops, Rewrites(c)
       PROVE  SingleInv'
  <2>1. /\ runs[c].at \in {"queried", "removing"} /\ runs[c] \in Run /\ runs[c].left \in Seq(Link)
        /\ runs[c].at \in Waiting /\ RunSingle(runs[c])
    BY <1>1, <1>2, <1>16 DEF Rewrites, Run, Waiting
  <2>2. CASE runs[c].at = "queried" /\ UNCHANGED links /\ GoesOn(c)
    BY <1>9, <2>2
  <2>3. PICK g \in Fields : runs[c].field = {g}
    BY <1>1, <2>1 DEF RunOK, Writing
  <2>4. runs[c].left = links[g]
    <3>1. CASE runs[c].at = "queried"
      BY <2>1, <2>3, <3>1 DEF RunSingle
    <3>2. CASE runs[c].at = "removing"
      BY <2>1, <2>3, <3>2 DEF RunSingle
    <3> QED
      BY <2>1, <3>1, <3>2
  <2>5. CASE /\ runs[c].left # <<>>
             /\ \E h \in runs[c].field : Removes(h, Head(runs[c].left))
             /\ runs' = [runs EXCEPT ![c].at = "removing", ![c].left = Tail(runs[c].left)]
    <3> DEFINE run == [runs[c] EXCEPT !.at = "removing", !.left = Tail(runs[c].left)]
    <3>1. Removes(g, Head(links[g])) /\ links[g] # <<>>
      BY <2>3, <2>4, <2>5
    <3>2. links'[g] = <<>> /\ \A h \in Fields \ {g} : links'[h] = links[h]
      BY <1>1, <1>2, <3>1, RemovesLink
    <3>3. run.at = "removing" /\ run.left = Tail(runs[c].left) /\ run.field = {g}
      BY <2>1, <2>3 DEF Run
    <3>4. runs' = [runs EXCEPT ![c] = run]
      BY <1>1, <2>5
    <3> HIDE DEF run
    <3>5. runs'[c] = run /\ Same(c)
      BY <1>4, <3>4
    <3>6. Tail(runs[c].left) = <<>>
      <4> DEFINE s == runs[c].left
      <4>1. s \in Seq(Link) /\ s # <<>> /\ Len(s) <= 1
        BY <1>2, <2>1, <2>4, <2>5
      <4> HIDE DEF s
      <4>2. Tail(s) \in Seq(Link) /\ Len(Tail(s)) = Len(s) - 1 /\ Len(s) \in Nat \ {0}
        BY <4>1, HeadTailProperties, EmptySeq
      <4>3. Len(Tail(s)) = 0
        BY <4>1, <4>2
      <4>4. Tail(s) = <<>>
        BY <4>2, <4>3, EmptySeq
      <4> QED
        BY <4>4 DEF s
    <3>7. RunSingle(runs[c])'
      BY <3>2, <3>3, <3>5, <3>6 DEF RunSingle
    <3>8. Len(links'[g]) = 0
      BY <3>2, EmptySeq
    <3>9. \A h \in Fields : Len(links'[h]) <= 1
      BY <1>2, <3>2, <3>8
    <3> QED
      BY <1>3, <2>1, <3>5, <3>7, <3>9
  <2>6. CASE /\ runs[c].left = <<>>
             /\ runs' = [runs EXCEPT ![c].at = "signing"]
             /\ UNCHANGED links
    <3> DEFINE run == [runs[c] EXCEPT !.at = "signing"]
    <3>1. run.at = "signing" /\ run.field = {g}
      BY <2>1, <2>3 DEF Run
    <3>2. runs' = [runs EXCEPT ![c] = run]
      BY <1>1, <2>6
    <3> HIDE DEF run
    <3>3. runs'[c] = run /\ Same(c)
      BY <1>4, <3>2
    <3>4. links'[g] = <<>>
      BY <2>4, <2>6
    <3>5. RunSingle(runs[c])'
      BY <3>1, <3>3, <3>4 DEF RunSingle
    <3> QED
      BY <1>3, <1>5, <2>1, <2>6, <3>3, <3>5
  <2> QED
    BY <1>16, <2>2, <2>5, <2>6 DEF Rewrites
<1>17. ASSUME NEW c \in Ops, Signed(c)
       PROVE  SingleInv'
  <2>1. runs[c].at = "signing" /\ runs[c] \in Run /\ runs[c].at \in Waiting /\ RunSingle(runs[c])
    BY <1>1, <1>2, <1>17 DEF Signed, Waiting
  <2> DEFINE run == [runs[c] EXCEPT !.at = "storing"]
  <2>2. PICK g \in Fields : runs[c].field = {g}
    BY <1>1, <2>1 DEF RunOK, Writing
  <2>3. Adds(c, g, runs[c].value) /\ runs[c].value \in Datum
    BY <1>17, <2>1, <2>2 DEF Signed, Run
  <2>4. /\ Len(links'[g]) = Len(links[g]) + 1
        /\ \A h \in Fields \ {g} : links'[h] = links[h]
    BY <1>1, <2>3, AddsLink
  <2>5. Len(links[g]) = 0
    BY <2>1, <2>2, EmptySeq DEF RunSingle
  <2>6. Len(links'[g]) <= 1
    BY <2>4, <2>5
  <2>7. \A h \in Fields : Len(links'[h]) <= 1
    BY <1>6, <2>4, <2>6
  <2>8. run.at = "storing"
    BY <2>1 DEF Run
  <2>9. runs' = [runs EXCEPT ![c] = run]
    BY <1>1, <1>17 DEF Signed
  <2> HIDE DEF run
  <2>10. runs'[c] = run /\ Same(c)
    BY <1>4, <2>9
  <2>11. RunSingle(runs[c])'
    BY <2>8, <2>10 DEF RunSingle
  <2> QED
    BY <1>3, <2>1, <2>7, <2>10, <2>11
<1>18. ASSUME NEW c \in Ops, Stored(c)
       PROVE  SingleInv'
  BY <1>9, <1>18 DEF Stored
<1>19. ASSUME NEW c \in Ops, Rejects(c)
       PROVE  SingleInv'
  <2>1. runs[c].at \in Waiting /\ UNCHANGED links /\ runs' = [runs EXCEPT ![c] = NoRun("failed")]
    BY <1>19 DEF Rejects, Waiting
  <2>2. runs'[c] = NoRun("failed") /\ Same(c)
    BY <1>4, <2>1
  <2>3. RunSingle(runs[c])'
    BY <1>8, <2>2 DEF Over
  <2> QED
    BY <1>3, <1>5, <2>1, <2>2, <2>3
<1>20. ASSUME NEW c \in Ops, NEW o \in Objects, Delete(c, o)
       PROVE  SingleInv'
  <2> DEFINE run == [runs[c] EXCEPT !.at = "purging", !.todo = Required]
  <2>1. run.at = "purging"
    BY <1>1 DEF Run
  <2>2. runs' = [runs EXCEPT ![c] = run] /\ UNCHANGED links
    BY <1>1, <1>20 DEF Delete
  <2> HIDE DEF run
  <2>3. runs'[c] = run /\ Same(c)
    BY <1>4, <2>2
  <2>4. RunSingle(runs[c])'
    BY <2>1, <2>3 DEF RunSingle
  <2> QED
    BY <1>3, <1>5, <2>1, <2>2, <2>3, <2>4 DEF Waiting
<1>21. ASSUME NEW c \in Ops, Purges(c)
       PROVE  SingleInv'
  <2>1. runs[c].at = "purging" /\ runs[c] \in Run /\ runs[c].at \in Waiting
    BY <1>1, <1>21 DEF Purges, Waiting
  <2>2. runs'[c].at \in {"purging", "deleted"}
    BY <1>1, <1>21 DEF Purges, NoRun, Run
  <2>3. Same(c)
    <3>1. Alone(c)
      BY <1>1, <1>21 DEF Purges, Alone
    <3> QED
      BY <1>1, <3>1, OthersSame
  <2>4. RunSingle(runs[c])'
    BY <2>2 DEF RunSingle
  <2>5. \A h \in Fields : Len(links'[h]) <= 1
    <3>1. CASE UNCHANGED links
      BY <1>5, <3>1
    <3>2. ASSUME NEW g \in Fields, NEW l, Removes(g, l)
          PROVE  \A h \in Fields : Len(links'[h]) <= 1
      <4>1. /\ Len(links'[g]) <= Len(links[g]) /\ links' \in [Fields -> Seq(Link)]
            /\ \A h \in Fields \ {g} : links'[h] = links[h]
        BY <1>1, <3>2, RemovesLink
      <4>2. Len(links'[g]) \in Nat
        BY <4>1
      <4>3. Len(links'[g]) <= 1
        BY <1>2, <4>1, <4>2
      <4> QED
        BY <1>6, <4>1, <4>3
    <3>3. runs[c].field \subseteq Fields
      BY <2>1 DEF Run
    <3>4. UNCHANGED links \/ \E g \in runs[c].field : Removes(g, Head(runs[c].left))
      BY <1>21 DEF Purges
    <3> QED
      BY <3>1, <3>2, <3>3, <3>4
  <2> QED
    BY <1>3, <2>1, <2>3, <2>4, <2>5
<1>22. ASSUME NEW c \in Ops, NEW o \in Objects,
              \/ \E data \in (SUBSET Fields) \ {{}} : Update(c, o, data)
              \/ Save(c, o)
       PROVE  SingleInv'
  BY <1>15, <1>22, UpdateStep, SaveStep
<1>23. Next
  BY DEF HNext
<1> QED
  BY <1>10, <1>11, <1>12, <1>13, <1>14, <1>16, <1>17, <1>18, <1>19, <1>20, <1>21, <1>22, <1>23,
     DataAssumption
     DEF Next, DataAssumption

(***************************************************************************)
(* SingleValued of MCModels: calls that do not overlap never leave a field *)
(* with two values, whatever fails and is tried again.                     *)
(***************************************************************************)
THEOREM SingleValuedCorrect == HSpec => []SingleValued
<1>1. HInit => Shape /\ SingleInv
  BY ShapeInit, EmptySeq DEF HInit, Init, SingleInv, OneUnderWay, UnderWay, RunSingle, NoRun, Waiting
<1>2. Shape /\ SingleInv /\ [HNext]_hvars => (Shape /\ SingleInv)'
  BY ShapeStep, SingleStep DEF HNext, hvars
<1>3. SingleInv => SingleValued
  BY DEF SingleInv, SingleValued
<1> QED
  BY <1>1, <1>2, <1>3, PTL DEF HSpec

-----------------------------------------------------------------------------
(***************************************************************************)
(* The value of a field depends on its links, of which the last one        *)
(* counts.                                                                 *)
(***************************************************************************)
LEMMA HydratedSame ==
  ASSUME NEW f \in Fields
  PROVE  /\ links'[f] = links[f] => Hydrated(links)'[f] = Hydrated(links)[f]
         /\ links'[f] # <<>> => Hydrated(links)'[f] = links'[f][Len(links'[f])].value
BY DEF Hydrated

(***************************************************************************)
(* A field of a loaded object whose links stay is stale if it was, and a   *)
(* read-only one also if the object is given another value.                *)
(***************************************************************************)
LEMMA StaleSame ==
  ASSUME HNext, NEW o \in Objects, fields[o] # <<>>, NEW f \in Fields, links'[f] = links[f]
  PROVE  /\ f \in stale[o] => f \in stale'[o]
         /\ f \in ReadOnly /\ fields'[o][f] # fields[o][f] => f \in stale'[o]
BY DEF HNext, Changed, Unwritten

(***************************************************************************)
(* Such a field agrees with the perspective if it has.                     *)
(***************************************************************************)
LEMMA AgreesSame ==
  ASSUME HNext, NEW o \in Objects, fields[o] # <<>>, NEW f \in Fields,
         f \in ReadOnly \/ fields'[o][f] = fields[o][f],
         links'[f] = links[f], Agrees(o, f)
  PROVE  Agrees(o, f)'
BY HydratedSame, StaleSame DEF Agrees

(***************************************************************************)
(* The fields of an object that stays agree as they have, unless one of    *)
(* its own calls changes them.                                             *)
(***************************************************************************)
LEMMA CleanKept ==
  ASSUME HNext, NEW o \in Objects, CleanStored(o),
         fields'[o] = fields[o], dirtyFields'[o] = dirtyFields[o],
         fields[o] # <<>> /\ Own(o) => Changed \subseteq Unsaved(o)
  PROVE  CleanStored(o)'
<1> SUFFICES ASSUME NEW f \in Fields, fields[o] # <<>>, f \notin Unsaved(o)
             PROVE  Agrees(o, f)'
  BY DEF CleanStored, Unsaved
<1>1. Agrees(o, f)
  BY DEF CleanStored
<1>2. CASE links'[f] = links[f]
  BY <1>1, <1>2, AgreesSame
<1>3. CASE links'[f] # links[f]
  <2>1. f \in Changed
    BY <1>3 DEF Changed
  <2>2. f \in stale'[o]
    BY <2>1 DEF HNext
  <2> QED
    BY <2>2 DEF Agrees
<1> QED
  BY <1>2, <1>3

(***************************************************************************)
(* A save() of o that ends, with all that it had to write stored.          *)
(***************************************************************************)
LEMMA CleanEnds ==
  ASSUME HNext, NEW o \in Objects, CleanStored(o), fields[o] # <<>>,
         NEW v, fields'[o] = v, UNCHANGED links, NEW d, Others(o, d, v),
         \A f \in Fields \cap ToSet(d) :
           Agrees(o, f) /\ (f \in ReadOnly \/ v[f] = fields[o][f])
  PROVE  CleanStored(o)'
<1> SUFFICES ASSUME NEW f \in Fields
             PROVE  Agrees(o, f)'
  BY DEF CleanStored
<1>1. Agrees(o, f) /\ (f \in ReadOnly \/ v[f] = fields[o][f])
  BY DEF Others, CleanStored, Unsaved
<1>2. links'[f] = links[f]
  OBVIOUS
<1> QED
  BY <1>1, <1>2, AgreesSame

(***************************************************************************)
(* Without an overlap every step leaves the clean fields as they are       *)
(* stored.                                                                 *)
(***************************************************************************)
LEMMA StoredStep == Shape /\ StoredInv /\ [HNext]_hvars => StoredInv'
<1> SUFFICES ASSUME Shape, StoredInv, HNext, ~overlapped'
             PROVE  StoredInv'
  <2>1. CASE UNCHANGED hvars
    <3>1. UNCHANGED <<links, fields, dirtyFields, runs, overlapped, stale>>
      BY <2>1 DEF hvars, vars
    <3>2. Hydrated(links)' = Hydrated(links)
      BY <3>1 DEF Hydrated
    <3>3. \A o \in Objects : CleanStored(o)' = CleanStored(o)
      BY <3>1, <3>2 DEF CleanStored, Unsaved, Agrees
    <3>4. \A o \in Objects, c \in Ops : RunStored(runs[c], o)' = RunStored(runs[c], o)
      BY <3>1, <3>2 DEF RunStored, Agrees
    <3> QED
      BY <3>1, <3>3, <3>4 DEF StoredInv, OneUnderWay, UnderWay
  <2> QED
    BY <2>1 DEF StoredInv
<1>1. /\ TypeOK /\ Shape' /\ links \in [Fields -> Seq(Link)] /\ runs \in [Ops -> Run]
      /\ fields \in [Objects -> [Fields -> Datum] \cup {<<>>}]
      /\ dirtyFields \in [Objects -> Seq(Fields)]
      /\ \A c \in Ops : RunOK(runs[c])
  BY ShapeStep DEF Shape, TypeOK, HNext
<1>2. /\ OneUnderWay /\ OneUnderWay'
      /\ \A o \in Objects : CleanStored(o)
      /\ \A c \in Ops, o \in Objects : runs[c].obj = {o} => RunStored(runs[c], o)
  BY NoOverlap DEF StoredInv
<1>3. ASSUME NEW c \in Ops, Same(c), runs[c].at \in Waiting \/ runs'[c].at \in Waiting,
             \A o \in Objects : CleanStored(o)',
             \A o \in Objects : runs'[c].obj = {o} => RunStored(runs[c], o)'
      PROVE  StoredInv'
  <2>1. ASSUME NEW r \in Ops \ {c}, NEW o \in Objects
        PROVE  runs'[r].obj # {o}
    <3>1. runs'[r].at \notin Waiting /\ RunOK(runs'[r])
      BY <1>1, <1>2, <1>3, Quiet DEF Shape
    <3>2. runs'[r].at \in {"new"} \cup Over
      <4>1. runs'[r] \in Run
        BY <1>1 DEF Shape, TypeOK
      <4> QED
        BY <3>1, <4>1 DEF Run
    <3> QED
      BY <3>1, <3>2 DEF RunOK
  <2> QED
    BY <1>2, <1>3, <2>1 DEF StoredInv
<1>4. ASSUME NEW c \in Ops, NEW x, runs' = [runs EXCEPT ![c] = x]
      PROVE  runs'[c] = x /\ Same(c) /\ Alone(c)
  <2>1. Alone(c)
    BY <1>4 DEF Alone
  <2> QED
    BY <1>1, <1>4, <2>1, OthersSame
<1>5. ASSUME UNCHANGED links
      PROVE  Changed = {}
  BY <1>5 DEF Changed
<1>6. ASSUME UNCHANGED links, NEW o \in Objects, fields'[o] = fields[o], dirtyFields'[o] = dirtyFields[o]
      PROVE  CleanStored(o)'
  BY <1>2, <1>5, <1>6, CleanKept
<1>7. ASSUME NEW c \in Ops, Alone(c), NEW o \in Objects, Own(o)
      PROVE  runs[c].obj = {o}
  BY <1>7 DEF Alone, Own
<1>8. ASSUME NEW o \in Objects, fields'[o] = Hydrated(links), UNCHANGED links
      PROVE  CleanStored(o)'
  BY <1>8 DEF CleanStored, Agrees, Hydrated
<1>9. ASSUME NEW c \in Ops, NEW o \in Objects, runs[c].obj = {o}, runs[c].pos # 0
      PROVE  /\ fields[o] # <<>> /\ RunStored(runs[c], o) /\ runs[c].pos \in Nat \ {0}
             /\ runs[c].pos - 1 \in 1..Len(dirtyFields[o])
             /\ \A i \in 1..Len(dirtyFields[o]) :
                  dirtyFields[o][i] \in Fields /\ dirtyFields[o][i] \in ToSet(dirtyFields[o])
  <2>1. RunStored(runs[c], o) /\ runs[c].pos \in Nat \ {0}
    BY <1>1, <1>2, <1>9 DEF Run
  <2>2. DOMAIN dirtyFields[o] = 1..Len(dirtyFields[o]) /\ dirtyFields[o] \in Seq(Fields)
    BY <1>1, LenProperties
  <2>3. runs[c].pos - 1 \in 1..Len(dirtyFields[o])
    BY <1>9, <2>1, <2>2 DEF RunStored
  <2>4. dirtyFields[o] # <<>>
    BY <2>2, <2>3
  <2>5. \A i \in 1..Len(dirtyFields[o]) :
          dirtyFields[o][i] \in Fields /\ dirtyFields[o][i] \in ToSet(dirtyFields[o])
    BY <2>2 DEF ToSet
  <2> QED
    BY <2>1, <2>3, <2>4, <2>5 DEF Shape
<1>9a. ASSUME NEW c \in Ops, NEW o \in Objects, runs[c].obj = {o}, runs[c].pos # 0
       PROVE  dirtyFields[o][runs[c].pos - 1] \in Fields \cap Unsaved(o)
  <2>1. dirtyFields[o][runs[c].pos - 1] \notin ReadOnly
    <3>1. RunStored(runs[c], o)
      BY <1>2, <1>9a
    <3>2. runs[c].field \cap ReadOnly = {}
      BY <1>1, <1>9a DEF RunOK
    <3>3. runs[c].field = {dirtyFields[o][runs[c].pos - 1]}
      BY <1>9a, <3>1 DEF RunStored
    <3> QED
      BY <3>2, <3>3
  <2>2. runs[c].pos - 1 \in 1..Len(dirtyFields[o])
    BY <1>9, <1>9a
  <2>3. /\ dirtyFields[o][runs[c].pos - 1] \in Fields
        /\ dirtyFields[o][runs[c].pos - 1] \in ToSet(dirtyFields[o])
    BY <1>9, <1>9a, <2>2
  <2> QED
    BY <2>1, <2>3 DEF Unsaved
<1>10. ASSUME NEW c \in Ops, Same(c), UNCHANGED links, runs[c].at \in Waiting, CreateGoesOn(c)
       PROVE  StoredInv'
  <2>1. \A o \in Objects : CleanStored(o)'
    <3> SUFFICES ASSUME NEW o \in Objects PROVE CleanStored(o)'
      OBVIOUS
    <3>1. CASE UNCHANGED fields
      BY <1>6, <1>10, <3>1 DEF CreateGoesOn
    <3>2. ASSUME NEW q \in Objects, fields' = [fields EXCEPT ![q] = Hydrated(links)]
          PROVE  CleanStored(o)'
      <4>1. CASE o = q
        BY <1>1, <1>8, <1>10, <3>2, <4>1
      <4>2. CASE o # q
        BY <1>1, <1>6, <1>10, <3>2, <4>2 DEF CreateGoesOn
      <4> QED
        BY <4>1, <4>2
    <3> QED
      BY <1>10, <3>1, <3>2 DEF CreateGoesOn
  <2>2. ASSUME NEW o \in Objects, runs'[c].obj = {o}
        PROVE  RunStored(runs[c], o)'
    <3>1. CASE \E f \in Fields : Asks(c, runs[c].obj, 0, f, c) /\ UNCHANGED fields
      <4>1. runs[c].obj = {o} /\ runs'[c].pos = 0 /\ fields'[o] = fields[o]
        BY <2>2, <3>1 DEF Asks
      <4>2. fields[o] = <<>>
        BY <1>2, <1>10, <4>1 DEF RunStored, CreateGoesOn
      <4> QED
        BY <4>1, <4>2 DEF RunStored
    <3>2. CASE runs'[c] = NoRun("failed") \/ runs'[c] = NoRun("created")
      BY <2>2, <3>2 DEF NoRun
    <3> QED
      BY <1>10, <3>1, <3>2 DEF CreateGoesOn
  <2> QED
    BY <1>3, <1>10, <2>1, <2>2
<1>11. ASSUME NEW c \in Ops, NEW o \in Objects, Same(c), UNCHANGED links, runs[c].at = "storing",
              SaveGoesOn(c, o)
       PROVE  StoredInv'
  <2> DEFINE d == dirtyFields[o]
             p == runs[c].pos
  <2>1. /\ fields[o] # <<>> /\ RunStored(runs[c], o) /\ p \in Nat \ {0}
        /\ p - 1 \in 1..Len(d) /\ Len(d) \in Nat
        /\ \A i \in 1..Len(d) : d[i] \in Fields
    <3>1. runs[c].obj = {o} /\ runs[c].pos # 0
      BY <1>11 DEF SaveGoesOn
    <3> QED
      BY <1>1, <1>9, <3>1
  <2>2. \A i \in 1..(p - 1) : Agrees(o, d[i])
    BY <1>11, <2>1 DEF RunStored
  <2>3. fields'[o] = fields[o] /\ runs[c].at \in Waiting
    BY <1>11 DEF SaveGoesOn, Waiting
  <2>4. ASSUME NEW g \in Fields, Agrees(o, g)
        PROVE  Agrees(o, g)'
    <3>1. links'[g] = links[g]
      BY <1>11
    <3> HIDE DEF d, p
    <3> QED
      BY <2>1, <2>3, <2>4, <3>1, AgreesSame
  <2>5. ASSUME NEW i \in 1..Len(d), d[i] \in ReadOnly \/ i \in 1..(p - 1)
        PROVE  Agrees(o, d[i]) /\ d[i] \in Fields
    <3>1. CASE d[i] \in ReadOnly
      <4>1. d[i] \in Fields \ Unsaved(o)
        BY <2>1, <3>1 DEF Unsaved
      <4> QED
        BY <1>2, <2>1, <4>1 DEF CleanStored
    <3> QED
      BY <2>1, <2>2, <2>5, <3>1
  <2>6. ASSUME Proceeds(c, o, p, d, fields[o]), UNCHANGED dirtyFields
        PROVE  StoredInv'
    <3>1. PICK q \in p..Len(d) : /\ d[q] \in Fields /\ \A i \in p..(q - 1) : d[i] \in ReadOnly
                               /\ Asks(c, {o}, q + 1, d[q], fields[o][d[q]])
      BY <2>6 DEF Proceeds
    <3>2. \A r \in Objects : CleanStored(r)'
      BY <1>6, <1>11, <2>6 DEF SaveGoesOn
    <3>3. RunStored(runs[c], o)'
      <4>1. /\ runs'[c].pos = q + 1 /\ runs'[c].at = "queried"
            /\ runs'[c].field = {d[q]} /\ runs'[c].value = fields[o][d[q]]
        BY <3>1 DEF Asks
      <4>2. q \in 1..Len(d) /\ q + 1 # 0 /\ (q + 1) - 1 = q
        BY <2>1
      <4>3. \A i \in 1..q : d[i] \notin {d[q]} => Agrees(o, d[i])'
        <5> SUFFICES ASSUME NEW i \in 1..q, d[i] \notin {d[q]}
                     PROVE  Agrees(o, d[i])'
          OBVIOUS
        <5>1. i # q
          OBVIOUS
        <5>2. i \in 1..Len(d) /\ (i \in p..(q - 1) \/ i \in 1..(p - 1))
          BY <2>1, <4>2, <5>1
        <5>3. PICK g \in Fields : g = d[i] /\ Agrees(o, g)
          BY <2>5, <3>1, <5>2
        <5>4. Agrees(o, g)'
          BY <2>4, <5>3
        <5> QED
          BY <2>6, <5>3, <5>4
      <4>4. q \in DOMAIN d /\ UNCHANGED dirtyFields /\ fields'[o] = fields[o]
        BY <1>1, <2>3, <2>6, <4>2, LenProperties
      <4> QED
        BY <4>1, <4>2, <4>3, <4>4 DEF RunStored
    <3>4. \A r \in Objects : runs'[c].obj = {r} => r = o
      BY <3>1 DEF Asks
    <3> QED
      BY <1>3, <1>11, <2>3, <3>2, <3>3, <3>4
  <2>7. ASSUME Ends(c, o, p, d)
        PROVE  StoredInv'
    <3>1. \A i \in 1..Len(d) : i \in 1..(p - 1) \/ i \in p..Len(d)
      BY <2>1
    <3>2. ASSUME NEW f \in Fields \cap ToSet(d)
          PROVE  Agrees(o, f)
      <4>1. PICK i \in 1..Len(d) : f = d[i]
        BY <1>1, LenProperties DEF ToSet
      <4>2. d[i] \in ReadOnly \/ i \in 1..(p - 1)
        BY <2>7, <3>1 DEF Ends
      <4> QED
        BY <2>5, <4>1, <4>2
    <3>3. CleanStored(o)'
      <4> HIDE DEF d
      <4>1. CleanStored(o) /\ Others(o, d, fields[o])
        BY <1>2 DEF Others, d
      <4> QED
        BY <1>11, <2>1, <2>3, <3>2, <4>1, CleanEnds
    <3>4. ASSUME NEW q \in Objects, q # o
          PROVE  CleanStored(q)'
      BY <1>1, <1>6, <1>11, <2>7, <3>4 DEF SaveGoesOn, Ends
    <3>5. \A q \in Objects : runs'[c].obj # {q}
      BY <2>7 DEF Ends, NoRun
    <3> QED
      BY <1>3, <1>11, <2>3, <3>3, <3>4, <3>5
  <2> QED
    BY <1>11, <2>6, <2>7 DEF SaveGoesOn
<1>12. ASSUME NEW c \in Ops, runs[c].at \in Writing, GoesOn(c), UNCHANGED links,
              runs[c].pos # 0 => runs[c].at = "storing"
       PROVE  StoredInv'
  <2>1. Same(c) /\ runs[c].at \in Waiting
    BY <1>12, ShapeGoesOn DEF Writing, Waiting
  <2>2. CreateGoesOn(c) \/ \E o \in Objects : SaveGoesOn(c, o)
    BY <1>12, GoesOnStep
  <2>3. ASSUME NEW o \in Objects, SaveGoesOn(c, o)
        PROVE  StoredInv'
    <3>1. runs[c].at = "storing"
      BY <1>12, <2>3 DEF SaveGoesOn
    <3> QED
      BY <1>11, <1>12, <2>1, <2>3, <3>1
  <2> QED
    BY <1>10, <1>12, <2>1, <2>2, <2>3
<1>13. ASSUME NEW c \in Ops, NEW g \in Fields, runs[c].at \in Writing, runs[c].field = {g},
              NEW run, runs' = [runs EXCEPT ![c] = run], run.at \in {"removing", "signing", "storing"},
              run.obj = runs[c].obj, run.pos = runs[c].pos,
              run.field = runs[c].field, run.value = runs[c].value,
              UNCHANGED <<fields, dirtyFields>>, \A h \in Fields \ {g} : links'[h] = links[h],
              run.at = "storing" =>
                links'[g] # <<>> /\ links'[g][Len(links'[g])].value = runs[c].value
       PROVE  StoredInv'
  <2>1. runs'[c] = run /\ Same(c) /\ Alone(c) /\ runs[c].at \in Waiting
    BY <1>4, <1>13 DEF Writing, Waiting
  <2>2. Changed \subseteq {g}
    BY <1>13 DEF Changed
  <2>3. ASSUME NEW o \in Objects, runs[c].obj = {o}, fields[o] # <<>>
        PROVE  runs[c].pos # 0
    BY <1>2, <2>3 DEF RunStored
  <2>4. ASSUME NEW o \in Objects
        PROVE  CleanStored(o)'
    <3>1. ASSUME fields[o] # <<>>, Own(o)
          PROVE  Changed \subseteq Unsaved(o)
      <4>1. runs[c].obj = {o} /\ runs[c].pos # 0
        BY <1>7, <2>1, <2>3, <3>1
      <4>2. RunStored(runs[c], o) /\ dirtyFields[o][runs[c].pos - 1] \in Unsaved(o)
        BY <1>9, <1>9a, <4>1
      <4>3. g \in Unsaved(o)
        BY <1>13, <4>1, <4>2 DEF RunStored
      <4> QED
        BY <2>2, <4>3
    <3>2. fields'[o] = fields[o] /\ dirtyFields'[o] = dirtyFields[o]
      BY <1>13
    <3> QED
      BY <1>2, <3>1, <3>2, CleanKept
  <2>5. ASSUME NEW o \in Objects, runs[c].obj = {o}
        PROVE  RunStored(runs[c], o)'
    <3>1. CASE runs[c].pos = 0
      <4>1. fields[o] = <<>>
        BY <1>2, <2>5, <3>1 DEF RunStored
      <4> QED
        BY <1>13, <2>1, <3>1, <4>1 DEF RunStored
    <3>2. CASE runs[c].pos # 0
      <4> DEFINE d == dirtyFields[o]
                 p == runs[c].pos
      <4>1. /\ fields[o] # <<>> /\ RunStored(runs[c], o) /\ p \in Nat \ {0}
            /\ p - 1 \in 1..Len(d) /\ Len(d) \in Nat
            /\ \A i \in 1..Len(d) : d[i] \in Fields
        BY <1>1, <1>9, <2>5, <3>2
      <4>2. /\ p - 1 \in DOMAIN d /\ g = d[p - 1] /\ runs[c].value = fields[o][d[p - 1]]
            /\ \A i \in 1..(p - 1) : d[i] \notin {g} => Agrees(o, d[i])
        BY <1>13, <3>2, <4>1 DEF RunStored
      <4>3. \A i \in 1..(p - 1) : i \in 1..Len(d)
        BY <4>1
      <4> HIDE DEF d, p
      <4>4. ASSUME NEW h \in Fields, h # g, Agrees(o, h)
            PROVE  Agrees(o, h)'
        <5>1. links'[h] = links[h] /\ fields'[o] = fields[o]
          BY <1>13, <4>4
        <5> QED
          BY <4>1, <4>4, <5>1, AgreesSame
      <4>5. run.at = "storing" => Agrees(o, g)'
        BY <1>13, <4>2, HydratedSame DEF Agrees
      <4>6. ASSUME NEW i \in 1..(p - 1), d[i] \notin {g} \/ run.at = "storing"
            PROVE  Agrees(o, dirtyFields[o][i])'
        <5>1. PICK h \in Fields : h = d[i]
          BY <4>1, <4>3
        <5>2. Agrees(o, h)'
          BY <4>2, <4>4, <4>5, <4>6, <5>1
        <5>3. dirtyFields'[o][i] = h
          BY <1>13, <5>1 DEF d
        <5> QED
          BY <5>2, <5>3
      <4>7. /\ runs'[c].pos = p /\ runs'[c].at = run.at /\ runs'[c].field = {g}
            /\ runs'[c].value = runs[c].value /\ p # 0
        BY <1>13, <2>1, <3>2 DEF p
      <4>8. dirtyFields' = dirtyFields /\ fields' = fields
        BY <1>13
      <4> QED
        BY <4>2, <4>6, <4>7, <4>8 DEF RunStored, d
    <3> QED
      BY <3>1, <3>2
  <2> QED
    BY <1>3, <1>13, <2>1, <2>4, <2>5
<1>14. ASSUME NEW c \in Ops, UNCHANGED <<fields, dirtyFields>>, Alone(c),
              runs[c].at \in Waiting \/ runs'[c].at \in Waiting,
              \A o \in Objects : runs'[c].obj = {o} => fields[o] = <<>> /\ runs'[c].pos = 0,
              \A o \in Objects : runs[c].obj = {o} /\ fields[o] # <<>> => UNCHANGED links
       PROVE  StoredInv'
  <2>1. ASSUME NEW o \in Objects
        PROVE  CleanStored(o)'
    <3>1. fields'[o] = fields[o] /\ dirtyFields'[o] = dirtyFields[o]
      BY <1>14
    <3>2. ASSUME fields[o] # <<>>, Own(o)
          PROVE  Changed \subseteq Unsaved(o)
      BY <1>5, <1>7, <1>14, <3>2
    <3> QED
      BY <1>2, <3>1, <3>2, CleanKept
  <2>2. \A o \in Objects : runs'[c].obj = {o} => RunStored(runs[c], o)'
    BY <1>14 DEF RunStored
  <2>3. Same(c)
    BY <1>1, <1>14, OthersSame
  <2> QED
    BY <1>3, <1>14, <2>1, <2>2, <2>3
<1>15. ASSUME NEW c \in Ops, NEW o \in Objects, NEW data \in SUBSET Fields, Create(c, o, data)
       PROVE  StoredInv'
  <2> DEFINE run == [runs[c] EXCEPT !.at = "constructing", !.obj = {o}, !.todo = Required, !.data = data]
  <2>1. run.at = "constructing" /\ run.obj = {o} /\ run.pos = 0
    <3>1. runs[c].at = "new" /\ runs[c].pos = 0 /\ runs[c] \in Run
      BY <1>1, <1>15 DEF Create, RunOK, Writing
    <3> QED
      BY <3>1 DEF Run
  <2>2. runs' = [runs EXCEPT ![c] = run] /\ UNCHANGED <<links, fields, dirtyFields>>
    BY <1>15 DEF Create
  <2>3. \A q \in Objects : fields[q] = <<>>
    BY <1>15 DEF Create, Shape
  <2> HIDE DEF run
  <2>4. runs'[c] = run /\ Alone(c)
    BY <1>4, <2>2
  <2> QED
    BY <1>14, <2>1, <2>2, <2>3, <2>4 DEF Waiting
<1>16. ASSUME NEW c \in Ops, Constructs(c) \/ Defaults(c)
       PROVE  StoredInv'
  <2>1. /\ runs[c].at \in {"constructing", "defaulting"} /\ runs[c].at \in Waiting
        /\ UNCHANGED <<fields, dirtyFields>>
        /\ runs'[c].obj = runs[c].obj /\ runs'[c].pos = runs[c].pos /\ Alone(c)
    BY <1>1, <1>16 DEF Constructs, Defaults, Waiting, Alone, Run
  <2>2. runs[c].pos = 0
    BY <1>1, <2>1 DEF RunOK, Writing
  <2>3. \A o \in Objects : runs[c].obj = {o} => fields[o] = <<>>
    BY <1>2, <2>2 DEF RunStored
  <2> QED
    BY <1>14, <2>1, <2>2, <2>3
<1>17. ASSUME NEW c \in Ops, StartsWriting(c)
       PROVE  StoredInv'
  <2>1. /\ RunOK(runs[c]) /\ runs[c].at = "defaulting" /\ runs[c].data \in SUBSET Fields
        /\ UNCHANGED links /\ runs[c].at \in Waiting
    BY <1>1, <1>17 DEF StartsWriting, Run, Waiting
  <2>2. runs[c].pos = 0 /\ \E o \in Objects : runs[c].obj = {o}
    BY <2>1 DEF RunOK, Waiting, Writing
  <2>3. PICK order \in SetToSeqs(runs[c].data \ ReadOnly) : NextDatum(c, order)
    BY <1>17 DEF StartsWriting
  <2>4. order \in Seq(Fields)
    BY <2>1, Orders
  <2>5. CreateGoesOn(c)
    BY <1>1, <2>1, <2>2, <2>3, <2>4, DatumStep DEF CreateGoesOn
  <2>6. Same(c)
    BY <1>1, <2>5, OthersSame DEF CreateGoesOn
  <2> QED
    BY <1>10, <2>1, <2>5, <2>6
<1>18. ASSUME NEW c \in Ops, NEW q \in Objects, runs[c].obj = {q}, runs'[c] = runs[c],
              UNCHANGED links, fields'[q] = fields[q], dirtyFields'[q] = dirtyFields[q]
       PROVE  RunStored(runs[c], q)'
  <2>1. RunStored(runs[c], q)
    BY <1>2, <1>18
  <2>2. CASE runs[c].pos = 0
    BY <1>18, <2>1, <2>2 DEF RunStored
  <2>3. CASE runs[c].pos # 0
    <3> DEFINE d == dirtyFields[q]
               p == runs[c].pos
    <3>1. /\ fields[q] # <<>> /\ p \in Nat \ {0} /\ p - 1 \in 1..Len(d) /\ Len(d) \in Nat
          /\ \A i \in 1..Len(d) : d[i] \in Fields
      <4>1. Len(d) \in Nat /\ p \in Nat \ {0} /\ p - 1 \in 1..Len(d)
        BY <1>1, <1>9, <1>18, <2>3, LenProperties
      <4>2. fields[q] # <<>> /\ \A i \in 1..Len(d) : d[i] \in Fields
        BY <1>9, <1>18, <2>3
      <4> QED
        BY <4>1, <4>2
    <3>2. \A i \in 1..(p - 1) : i \in 1..Len(d)
      BY <3>1
    <3> HIDE DEF d, p
    <3>3. ASSUME NEW i \in 1..(p - 1), Agrees(q, d[i])
          PROVE  Agrees(q, dirtyFields[q][i])'
      <4>1. PICK h \in Fields : h = d[i]
        BY <3>1, <3>2
      <4>2. links'[h] = links[h] /\ Agrees(q, h)
        BY <1>18, <3>3, <4>1
      <4>3. Agrees(q, h)'
        BY <1>18, <3>1, <4>2, AgreesSame
      <4>4. dirtyFields'[q][i] = h
        BY <1>18, <4>1 DEF d
      <4> QED
        BY <4>3, <4>4
    <3>4. runs'[c] = runs[c] /\ dirtyFields'[q] = dirtyFields[q] /\ fields'[q] = fields[q]
      BY <1>18
    <3> QED
      BY <2>1, <2>3, <3>3, <3>4 DEF RunStored, d, p
  <2> QED
    BY <2>2, <2>3
<1>19. ASSUME NEW o \in Objects, Load(o)
       PROVE  StoredInv'
  <2>1. /\ fields[o] = <<>> /\ UNCHANGED <<links, dirtyFields, runs>>
        /\ fields' = [fields EXCEPT ![o] = Hydrated(links)]
        /\ \A c \in Ops : runs[c].obj # {o}
    BY <1>19 DEF Load
  <2>2. ASSUME NEW q \in Objects
        PROVE  CleanStored(q)'
    <3>1. CASE q = o
      BY <1>1, <1>8, <2>1, <3>1
    <3>2. CASE q # o
      BY <1>1, <1>6, <2>1, <3>2
    <3> QED
      BY <3>1, <3>2
  <2>3. ASSUME NEW c \in Ops, NEW q \in Objects, runs[c].obj = {q}
        PROVE  RunStored(runs[c], q)'
    <3>1. fields'[q] = fields[q]
      BY <1>1, <2>1, <2>3
    <3> QED
      BY <1>18, <2>1, <2>3, <3>1
  <2> QED
    BY <1>2, <2>1, <2>2, <2>3 DEF StoredInv
<1>20. ASSUME NEW c \in Ops, NEW o \in Objects, NEW d, NEW v, Saves(c, o, d, v)
       PROVE  StoredInv'
  <2>1. /\ fields[o] # <<>> /\ d \in Seq(Fields) /\ DOMAIN d = 1..Len(d) /\ Len(d) \in Nat
        /\ UNCHANGED links /\ fields'[o] = v /\ Others(o, d, v)
        /\ \A q \in Objects \ {o} : fields'[q] = fields[q] /\ dirtyFields'[q] = dirtyFields[q]
    BY <1>1, <1>20, LenProperties DEF Saves, Begins, Proceeds, Ends
  <2>2. Same(c)
    BY <1>20, ShapeSaves
  <2>3. \A q \in Objects \ {o} : CleanStored(q)'
    BY <1>6, <2>1
  <2>4. ASSUME NEW f \in Fields, f \in ReadOnly \/ f \notin ToSet(d)
        PROVE  Agrees(o, f)'
    <3>1. f \notin Unsaved(o) /\ (f \in ReadOnly \/ v[f] = fields[o][f])
      BY <2>1, <2>4 DEF Others, Unsaved
    <3>2. Agrees(o, f)
      BY <1>2, <2>1, <3>1 DEF CleanStored
    <3> QED
      BY <2>1, <3>1, <3>2, AgreesSame
  <2>5. CASE Proceeds(c, o, 1, d, v)
    <3>1. PICK q \in 1..Len(d) : /\ \A i \in 1..(q - 1) : d[i] \in ReadOnly
                               /\ Asks(c, {o}, q + 1, d[q], v[d[q]])
      BY <2>5 DEF Proceeds
    <3>2. dirtyFields'[o] = d
      BY <1>1, <2>5 DEF Proceeds
    <3>3. CleanStored(o)'
      BY <2>4, <3>2 DEF CleanStored, Unsaved
    <3>4. /\ runs'[c].at = "queried" /\ runs'[c].obj = {o} /\ runs'[c].pos = q + 1
          /\ runs'[c].field = {d[q]} /\ runs'[c].value = v[d[q]]
      BY <3>1 DEF Asks
    <3>5. q + 1 # 0 /\ (q + 1) - 1 = q /\ q \in DOMAIN d
      BY <2>1
    <3>6. \A i \in 1..q : d[i] \notin {d[q]} => Agrees(o, d[i])'
      <4> SUFFICES ASSUME NEW i \in 1..q, d[i] \notin {d[q]}
                   PROVE  Agrees(o, d[i])'
        OBVIOUS
      <4>1. i \in 1..(q - 1) /\ i \in 1..Len(d)
        <5>1. i # q
          OBVIOUS
        <5> QED
          BY <2>1, <5>1
      <4>2. PICK g \in Fields : g = d[i] /\ g \in ReadOnly
        BY <2>1, <3>1, <4>1
      <4>3. Agrees(o, g)'
        BY <2>4, <4>2
      <4> QED
        BY <4>2, <4>3
    <3>7. RunStored(runs[c], o)'
      BY <2>1, <3>2, <3>4, <3>5, <3>6 DEF RunStored
    <3> QED
      BY <1>3, <2>2, <2>3, <3>3, <3>4, <3>7 DEF Waiting
  <2>6. CASE Ends(c, o, 1, d)
    <3>1. ASSUME NEW f \in ToSet(d)
          PROVE  f \in ReadOnly
      BY <2>1, <2>6 DEF Ends, ToSet
    <3>2. CleanStored(o)'
      BY <2>4, <3>1 DEF CleanStored
    <3>3. ASSUME NEW r \in Ops, NEW q \in Objects, runs'[r].obj = {q}
          PROVE  RunStored(runs[r], q)'
      <4>1. r # c
        BY <2>6, <3>3 DEF Ends, NoRun
      <4>2. runs[r].obj = {q}
        BY <2>2, <3>3, <4>1 DEF Same
      <4>3. q # o
        <5>1. SUFFICES ASSUME q = o
                       PROVE  FALSE
          OBVIOUS
        <5>2. runs[r].pos # 0
          BY <1>2, <2>1, <4>2, <5>1 DEF RunStored
        <5>3. PICK f \in Unsaved(o) : f \in Fields
          BY <1>9a, <4>2, <5>1, <5>2
        <5>4. f \in ToSet(d)
          BY <2>1, <5>3 DEF Others, Unsaved
        <5> QED
          BY <3>1, <5>3, <5>4 DEF Unsaved
      <4>4. runs'[r] = runs[r]
        BY <2>6, <4>1, <4>2, <4>3 DEF Ends, Cleared
      <4> QED
        BY <1>18, <2>1, <4>2, <4>3, <4>4
    <3> QED
      BY <1>2, <2>3, <3>2, <3>3 DEF StoredInv
  <2> QED
    BY <1>20, <2>5, <2>6 DEF Saves
<1>21. ASSUME NEW c \in Ops, Rewrites(c)
       PROVE  StoredInv'
  <2>1. /\ runs[c].at \in {"queried", "removing"} /\ runs[c].at \in Writing /\ runs[c] \in Run
    BY <1>1, <1>21 DEF Rewrites, Writing
  <2>2. PICK g \in Fields : runs[c].field = {g}
    BY <1>1, <2>1 DEF RunOK
  <2>3. CASE UNCHANGED links /\ GoesOn(c) /\ runs[c].pos = 0
    BY <1>12, <2>1, <2>3
  <2>4. CASE /\ \E h \in runs[c].field : Removes(h, Head(runs[c].left))
             /\ runs' = [runs EXCEPT ![c].at = "removing", ![c].left = Tail(runs[c].left)]
             /\ UNCHANGED <<fields, dirtyFields>>
    <3> DEFINE run == [runs[c] EXCEPT !.at = "removing", !.left = Tail(runs[c].left)]
    <3>1. Removes(g, Head(runs[c].left))
      BY <2>2, <2>4
    <3>2. \A h \in Fields \ {g} : links'[h] = links[h]
      BY <1>1, <3>1, RemovesLink
    <3>3. /\ run.at = "removing" /\ run.obj = runs[c].obj /\ run.pos = runs[c].pos
          /\ run.field = runs[c].field /\ run.value = runs[c].value
      BY <2>1 DEF Run
    <3>4. runs' = [runs EXCEPT ![c] = run]
      BY <1>1, <2>4
    <3> HIDE DEF run
    <3> QED
      BY <1>13, <2>1, <2>2, <2>4, <3>2, <3>3, <3>4
  <2>5. CASE /\ runs' = [runs EXCEPT ![c].at = "signing"]
             /\ UNCHANGED <<links, fields, dirtyFields>>
    <3> DEFINE run == [runs[c] EXCEPT !.at = "signing"]
    <3>1. /\ run.at = "signing" /\ run.obj = runs[c].obj /\ run.pos = runs[c].pos
          /\ run.field = runs[c].field /\ run.value = runs[c].value
      BY <2>1 DEF Run
    <3>2. runs' = [runs EXCEPT ![c] = run]
      BY <2>5
    <3> HIDE DEF run
    <3>3. UNCHANGED <<fields, dirtyFields>> /\ \A h \in Fields \ {g} : links'[h] = links[h]
      BY <2>5
    <3> QED
      BY <1>13, <2>1, <2>2, <3>1, <3>2, <3>3
  <2> QED
    BY <1>21, <2>3, <2>4, <2>5 DEF Rewrites
<1>22. ASSUME NEW c \in Ops, Signed(c)
       PROVE  StoredInv'
  <2>1. runs[c].at = "signing" /\ runs[c].at \in Writing /\ runs[c] \in Run
    BY <1>1, <1>22 DEF Signed, Writing
  <2>2. PICK g \in Fields : runs[c].field = {g}
    BY <1>1, <2>1 DEF RunOK
  <2> DEFINE run == [runs[c] EXCEPT !.at = "storing"]
  <2>3. Adds(c, g, runs[c].value) /\ runs[c].value \in Datum
    BY <1>22, <2>1, <2>2 DEF Signed, Run
  <2>4. /\ \A h \in Fields \ {g} : links'[h] = links[h]
        /\ links'[g] # <<>> /\ links'[g][Len(links'[g])].value = runs[c].value
    BY <1>1, <2>3, AddsLink
  <2>5. /\ run.at = "storing" /\ run.obj = runs[c].obj /\ run.pos = runs[c].pos
        /\ run.field = runs[c].field /\ run.value = runs[c].value
    BY <2>1 DEF Run
  <2>6. runs' = [runs EXCEPT ![c] = run] /\ UNCHANGED <<fields, dirtyFields>>
    BY <1>1, <1>22 DEF Signed
  <2> HIDE DEF run
  <2> QED
    BY <1>13, <2>1, <2>2, <2>4, <2>5, <2>6
<1>23. ASSUME NEW c \in Ops, Stored(c)
       PROVE  StoredInv'
  BY <1>12, <1>23 DEF Stored, Writing
<1>24. ASSUME NEW c \in Ops, Rejects(c)
       PROVE  StoredInv'
  <2>1. /\ runs[c].at \in Waiting /\ UNCHANGED <<links, fields, dirtyFields>>
        /\ runs' = [runs EXCEPT ![c] = NoRun("failed")]
    BY <1>24 DEF Rejects, Waiting
  <2>2. runs'[c] = NoRun("failed") /\ Alone(c)
    BY <1>4, <2>1
  <2>3. \A o \in Objects : runs'[c].obj # {o}
    BY <2>2 DEF NoRun
  <2> QED
    BY <1>14, <2>1, <2>2, <2>3
<1>25. ASSUME NEW c \in Ops, NEW o \in Objects, Called(c), Delete(c, o)
       PROVE  StoredInv'
  <2>1. runs[c].at = "new" /\ runs[c] \in Run
    BY <1>1, <1>25, OpsAssumption DEF OpsAssumption, Called
  <2>2. runs[c].obj = {}
    BY <1>1, <2>1 DEF RunOK
  <2>3. /\ runs'[c].at = "purging" /\ runs'[c].obj = {} /\ Alone(c)
        /\ UNCHANGED <<links, fields, dirtyFields>>
    BY <1>1, <1>25, <2>1, <2>2 DEF Delete, Alone, Run
  <2> QED
    BY <1>14, <2>2, <2>3 DEF Waiting
<1>26. ASSUME NEW c \in Ops, Purges(c)
       PROVE  StoredInv'
  <2>1. runs[c].at = "purging" /\ runs[c] \in Run /\ runs[c].at \in Waiting
    BY <1>1, <1>26 DEF Purges, Waiting
  <2>2. runs[c].obj = {}
    BY <1>1, <2>1 DEF RunOK
  <2>3. runs'[c].obj = {} /\ Alone(c) /\ UNCHANGED <<fields, dirtyFields>>
    <3>1. Alone(c) /\ UNCHANGED <<fields, dirtyFields>>
      BY <1>1, <1>26 DEF Purges, Alone
    <3>2. CASE runs' = [runs EXCEPT ![c] = NoRun("deleted")]
      BY <1>1, <3>1, <3>2 DEF NoRun
    <3>3. CASE runs' = [runs EXCEPT ![c].left = Tail(runs[c].left)]
      BY <1>1, <2>1, <2>2, <3>1, <3>3 DEF Run
    <3>4. CASE runs' = [runs EXCEPT ![c].field = {Head(runs[c].todo)},
                                    ![c].left = links[Head(runs[c].todo)],
                                    ![c].todo = Tail(runs[c].todo)]
      BY <1>1, <2>1, <2>2, <3>1, <3>4 DEF Run
    <3> QED
      BY <1>26, <3>1, <3>2, <3>3, <3>4 DEF Purges
  <2> QED
    BY <1>14, <2>1, <2>2, <2>3
<1>27. ASSUME NEW c \in Ops, NEW o \in Objects,
              \/ \E data \in (SUBSET Fields) \ {{}} : Update(c, o, data)
              \/ Save(c, o)
       PROVE  StoredInv'
  BY <1>20, <1>27, UpdateStep, SaveStep
<1>28. Next
  BY DEF HNext
<1> QED
  BY <1>15, <1>16, <1>17, <1>19, <1>21, <1>22, <1>23, <1>24, <1>25, <1>26, <1>27, <1>28,
     DataAssumption
     DEF Next, DataAssumption

(***************************************************************************)
(* CleanIsStored of MCModels: calls that do not overlap leave every object *)
(* with the values of the perspective, except in fields that it knows to   *)
(* be dirty, that somebody else has changed, or that are read-only and     *)
(* were set by update(), whatever fails and is tried again.                *)
(***************************************************************************)
THEOREM CleanIsStoredCorrect == HSpec => []CleanIsStored
<1>1. HInit => Shape /\ StoredInv
  BY ShapeInit DEF HInit, Init, StoredInv, OneUnderWay, UnderWay, CleanStored, Clean, NoRun, Waiting
<1>2. Shape /\ StoredInv /\ [HNext]_hvars => (Shape /\ StoredInv)'
  BY ShapeStep, StoredStep DEF HNext, hvars
<1>3. StoredInv => CleanIsStored
  BY DEF StoredInv, CleanIsStored, CleanStored, Clean, Unsaved, Agrees
<1> QED
  BY <1>1, <1>2, <1>3, PTL DEF HSpec
=============================================================================
