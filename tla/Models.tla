------------------------------- MODULE Models -------------------------------
(***************************************************************************)
(* One instance of an Ad4mModel in a perspective: the links that make it   *)
(* up, the objects that were loaded from them, and the calls of create(),  *)
(* update(), save() and delete() on it, each cut at its awaits.            *)
(*                                                                         *)
(* A value is a string or a number, whose literal is read back as it was   *)
(* written.  Every call has one value of its own, which it gives to the    *)
(* fields it sets.  A flag is a required field that is read-only.          *)
(***************************************************************************)
EXTENDS Naturals, Sequences, SequencesExt, FiniteSets

CONSTANTS
  Objects,   \* the objects of this instance
  Ops,       \* the calls, in the order in which they are made: 1 .. n
  Required,  \* the fields with an initial value, in the order of declaration
  Optional,  \* those without
  ReadOnly,  \* the fields that only the engine writes, when it creates them
  NewData,   \* the sets of fields that create() may be given data for
  Changes,   \* the sets of fields that update() may be given data for
  Initial,   \* the initial value of a required field
  Absent     \* the default of the class, for a field that has no link

VARIABLES
  links,        \* the links of each field, in the order of the store
  fields,       \* the values each object has; no fields before it is loaded
  dirtyFields,  \* the set _dirtyFields of each object, in insertion order
  runs          \* the calls

vars == <<links, fields, dirtyFields, runs>>

ASSUME OpsAssumption == Ops \subseteq Nat

(* Fields are declared once each. *)
ASSUME FieldsAssumption ==
  /\ Required \in Seq(ToSet(Required)) /\ Optional \in Seq(ToSet(Optional))
  /\ IsInjective(Required)

Fields == ToSet(Required) \cup ToSet(Optional)
AllFields == Required \o Optional

ASSUME DataAssumption == NewData \subseteq SUBSET Fields /\ Changes \subseteq (SUBSET Fields) \ {{}}

Datum  == Ops \cup {Initial, Absent}
Link   == [value : Datum, by : Ops]

Over    == {"created", "saved", "deleted", "failed"}
Waiting == {"constructing", "defaulting", "queried", "removing", "signing", "storing", "purging"}

(***************************************************************************)
(* A call: the object it is for, its next position in the dirty fields (0  *)
(* if it is no save), the data or fields it has still to see to, and of    *)
(* the field at hand the value to be written and the links to be removed.  *)
(***************************************************************************)
Run == [at : {"new"} \cup Waiting \cup Over, obj : SUBSET Objects, pos : Nat,
        todo : Seq(Fields), data : SUBSET Fields,
        field : SUBSET Fields, value : Datum, left : Seq(Link)]

NoRun(at) == [at |-> at, obj |-> {}, pos |-> 0, todo |-> <<>>, data |-> {},
              field |-> {}, value |-> Absent, left |-> <<>>]

TypeOK ==
  /\ links \in [Fields -> Seq(Link)]
  /\ fields \in [Objects -> [Fields -> Datum] \cup {<<>>}]
  /\ dirtyFields \in [Objects -> Seq(Fields)]
  /\ runs \in [Ops -> Run]

Init ==
  /\ links = [f \in Fields |-> <<>>]
  /\ fields = [o \in Objects |-> <<>>]
  /\ dirtyFields = [o \in Objects |-> <<>>]
  /\ runs = [c \in Ops |-> NoRun("new")]

-----------------------------------------------------------------------------
NewLink(c, v) == [value |-> v, by |-> c]
Adds(c, f, v) == links' = [links EXCEPT ![f] = Append(@, NewLink(c, v))]

(* The first link of field f that matches goes, if there is one. *)
Removes(f, link) ==
  \/ \E i \in DOMAIN links[f] :
       /\ links[f][i] = link
       /\ \A j \in 1..(i - 1) : links[f][j] # link
       /\ links' = [links EXCEPT ![f] = RemoveAt(@, i)]
  \/ ~Contains(links[f], link) /\ UNCHANGED links

Bare(ls) == \A f \in Fields : ls[f] = <<>>

(* hydrateFromLinks: of several links of a field the last one counts. *)
Hydrated(ls) ==
  [f \in Fields |-> IF ls[f] = <<>> THEN Absent ELSE ls[f][Len(ls[f])].value]

(* The call c asks for the links of field f, to write v. *)
Queries(run, f, v) ==
  [run EXCEPT !.at = "queried", !.field = {f}, !.value = v, !.left = links'[f]]

(***************************************************************************)
(* The loop of save() at position p of the dirty fields d of object o,     *)
(* with the values v.  It passes over those that are read-only.  At the    *)
(* end the whole set is cleared, under every other run that is going       *)
(* through it.                                                             *)
(***************************************************************************)
NextField(c, o, p, d, v) ==
  \/ \E q \in p..Len(d) :
       /\ d[q] \notin ReadOnly /\ \A i \in p..(q - 1) : d[i] \in ReadOnly
       /\ runs' = [runs EXCEPT ![c] = Queries([@ EXCEPT !.obj = {o}, !.pos = q + 1], d[q], v[d[q]])]
       /\ dirtyFields' = [dirtyFields EXCEPT ![o] = d]
  \/ /\ \A i \in p..Len(d) : d[i] \in ReadOnly
     /\ runs' = [r \in Ops |-> IF r = c THEN NoRun("saved")
                               ELSE IF runs[r].pos > 0 /\ runs[r].obj = {o}
                               THEN [runs[r] EXCEPT !.pos = 1] ELSE runs[r]]
     /\ dirtyFields' = [dirtyFields EXCEPT ![o] = <<>>]

(***************************************************************************)
(* The loop of create() over the data; at the end the object is loaded.    *)
(***************************************************************************)
NextDatum(c, todo) ==
  /\ UNCHANGED dirtyFields
  /\ IF todo # <<>>
     THEN /\ runs' = [runs EXCEPT ![c] = Queries([@ EXCEPT !.todo = Tail(todo)], Head(todo), c)]
          /\ UNCHANGED fields
     ELSE IF Bare(links')
     THEN runs' = [runs EXCEPT ![c] = NoRun("failed")] /\ UNCHANGED fields
     ELSE /\ runs' = [runs EXCEPT ![c] = NoRun("created")]
          /\ \E o \in runs[c].obj : fields' = [fields EXCEPT ![o] = Hydrated(links')]

(* A call is done with a field and goes on. *)
GoesOn(c) ==
  IF runs[c].pos > 0
  THEN /\ \E o \in runs[c].obj : NextField(c, o, runs[c].pos, dirtyFields[o], fields[o])
       /\ UNCHANGED fields
  ELSE NextDatum(c, runs[c].todo)

-----------------------------------------------------------------------------
(***************************************************************************)
(* create(): a fresh base, for which the engine runs the constructor.      *)
(***************************************************************************)
Create(c, o, data) ==
  /\ Bare(links) /\ \A r \in Ops : runs[r].at = "new"
  /\ runs' = [runs EXCEPT ![c] = [@ EXCEPT !.at = "constructing", !.obj = {o}, !.todo = Required,
                                           !.data = data]]
  /\ UNCHANGED <<links, fields, dirtyFields>>

(* The constructor adds the initial values, one link after the other. *)
Constructs(c) ==
  /\ runs[c].at = "constructing"
  /\ IF runs[c].todo # <<>>
     THEN /\ Adds(c, Head(runs[c].todo), Initial)
          /\ runs' = [runs EXCEPT ![c].todo = Tail(@)]
     ELSE /\ runs' = [runs EXCEPT ![c].at = "defaulting", ![c].todo = AllFields]
          /\ UNCHANGED links
  /\ UNCHANGED <<fields, dirtyFields>>

(* Mutant: the data is added without asking for links of the field. *)
Defaults_Unasked(c) ==
  /\ runs[c].at = "defaulting"
  /\ runs[c].todo # <<>>
  /\ LET f == Head(runs[c].todo)
     IN IF f \in runs[c].data THEN Adds(c, f, c) ELSE UNCHANGED links
  /\ runs' = [runs EXCEPT ![c].todo = Tail(@)]
  /\ UNCHANGED <<fields, dirtyFields>>

(* The data of a field that has no link yet is added as it is. *)
Defaults(c) ==
  /\ runs[c].at = "defaulting"
  /\ runs[c].todo # <<>>
  /\ LET f == Head(runs[c].todo)
     IN IF f \in runs[c].data /\ links[f] = <<>> THEN Adds(c, f, c) ELSE UNCHANGED links
  /\ runs' = [runs EXCEPT ![c].todo = Tail(@)]
  /\ UNCHANGED <<fields, dirtyFields>>

(* Then the data is written to the writable fields, through the perspective. *)
StartsWriting(c) ==
  /\ runs[c].at = "defaulting"
  /\ runs[c].todo = <<>>
  /\ UNCHANGED links
  /\ \E order \in SetToSeqs(runs[c].data \ ReadOnly) : NextDatum(c, order)

(* findById() *)
Load(o) ==
  /\ fields[o] = <<>>
  /\ ~Bare(links)
  /\ \A r \in Ops : runs[r].obj # {o}
  /\ fields' = [fields EXCEPT ![o] = Hydrated(links)]
  /\ UNCHANGED <<links, dirtyFields, runs>>

(***************************************************************************)
(* update() sets the fields, read-only ones too, adds them to the dirty    *)
(* ones, and saves.                                                        *)
(***************************************************************************)
Update(c, o, data) ==
  /\ fields[o] # <<>>
  /\ UNCHANGED links
  /\ LET v == [f \in Fields |-> IF f \in data THEN c ELSE fields[o][f]]
         new == data \ ToSet(dirtyFields[o])
     IN /\ fields' = [fields EXCEPT ![o] = v]
        /\ \E order \in SetToSeqs(new) : NextField(c, o, 1, dirtyFields[o] \o order, v)

(* save(), to try again what has failed. *)
Save(c, o) ==
  /\ dirtyFields[o] # <<>>
  /\ UNCHANGED <<links, fields>>
  /\ NextField(c, o, 1, dirtyFields[o], fields[o])

-----------------------------------------------------------------------------
(***************************************************************************)
(* The answer to the query, or to a removal, is there: the next link is    *)
(* removed, or the new one is given to be signed.  create() keeps a link   *)
(* that has the value it wants.                                            *)
(***************************************************************************)
Rewrites(c) ==
  /\ runs[c].at \in {"queried", "removing"}
  /\ LET left == runs[c].left
     IN \/ /\ runs[c].at = "queried" /\ runs[c].pos = 0
           /\ left # <<>> /\ left[1].value = runs[c].value
           /\ UNCHANGED links
           /\ GoesOn(c)
        \/ /\ left # <<>>
           /\ runs[c].at = "queried" /\ runs[c].pos = 0 => left[1].value # runs[c].value
           /\ \E f \in runs[c].field : Removes(f, Head(left))
           /\ runs' = [runs EXCEPT ![c].at = "removing", ![c].left = Tail(left)]
           /\ UNCHANGED <<fields, dirtyFields>>
        \/ /\ left = <<>>
           /\ runs' = [runs EXCEPT ![c].at = "signing"]
           /\ UNCHANGED <<links, fields, dirtyFields>>

Signed(c) ==
  /\ runs[c].at = "signing"
  /\ \E f \in runs[c].field : Adds(c, f, runs[c].value)
  /\ runs' = [runs EXCEPT ![c].at = "storing"]
  /\ UNCHANGED <<fields, dirtyFields>>

(* Mutant: the other links of the field are removed at last. *)
Stored_RemovesOthers(c) ==
  /\ runs[c].at = "storing"
  /\ links' = [f \in Fields |-> IF f \in runs[c].field
                                THEN SelectSeq(links[f], LAMBDA l : l.by = c) ELSE links[f]]
  /\ GoesOn(c)

Stored(c) ==
  /\ runs[c].at = "storing"
  /\ UNCHANGED links
  /\ GoesOn(c)

(* Mutant: the fields are clean again even if the call rejects. *)
Rejects_Clears(c) ==
  /\ runs[c].at \in {"removing", "signing", "storing"}
  /\ runs' = [runs EXCEPT ![c] = NoRun("failed")]
  /\ dirtyFields' = [o \in Objects |-> IF runs[c].obj = {o} THEN <<>> ELSE dirtyFields[o]]
  /\ UNCHANGED <<links, fields>>

(***************************************************************************)
(* A signature, or the commit of a link that was removed or added, is      *)
(* refused: the call rejects, and what is done stays.                      *)
(***************************************************************************)
Rejects(c) ==
  /\ runs[c].at \in {"removing", "signing", "storing"}
  /\ runs' = [runs EXCEPT ![c] = NoRun("failed")]
  /\ UNCHANGED <<links, fields, dirtyFields>>

-----------------------------------------------------------------------------
(***************************************************************************)
(* delete(): the destructor removes the links of the required fields.      *)
(***************************************************************************)
Delete(c, o) ==
  /\ fields[o] # <<>>
  /\ runs' = [runs EXCEPT ![c] = [@ EXCEPT !.at = "purging", !.todo = Required]]
  /\ UNCHANGED <<links, fields, dirtyFields>>

Purges(c) ==
  /\ runs[c].at = "purging"
  /\ LET run == runs[c]
     IN \/ /\ run.left # <<>>
           /\ \E f \in run.field : Removes(f, Head(run.left))
           /\ runs' = [runs EXCEPT ![c].left = Tail(@)]
        \/ /\ run.left = <<>> /\ run.todo # <<>>
           /\ runs' = [runs EXCEPT ![c].field = {Head(run.todo)}, ![c].left = links[Head(run.todo)],
                                  ![c].todo = Tail(@)]
           /\ UNCHANGED links
        \/ /\ run.left = <<>> /\ run.todo = <<>>
           /\ runs' = [runs EXCEPT ![c] = NoRun("deleted")]
           /\ UNCHANGED links
  /\ UNCHANGED <<fields, dirtyFields>>

-----------------------------------------------------------------------------
(* The calls before c have been made, c and those after it have not. *)
Called(c) == \A r \in Ops : (r < c) = (runs[r].at # "new")

Next ==
  \/ \E c \in Ops, o \in Objects :
       /\ Called(c)
       /\ \/ \E data \in NewData : Create(c, o, data)
          \/ \E data \in Changes : Update(c, o, data)
          \/ Save(c, o) \/ Delete(c, o)
  \/ \E o \in Objects : Load(o)
  \/ \E c \in Ops :
       \/ Constructs(c) \/ Defaults(c) \/ StartsWriting(c)
       \/ Rewrites(c) \/ Signed(c) \/ Stored(c) \/ Rejects(c) \/ Purges(c)

Spec == Init /\ [][Next]_vars

-----------------------------------------------------------------------------
AtRest == \A c \in Ops : runs[c].at \in {"new"} \cup Over

(***************************************************************************)
(* Calls that overlap in any way leave every required field of an instance *)
(* that was created with a value, unless one of them failed or deletes:    *)
(* each save adds its link after all it removes.  Without one, findAll()   *)
(* would no longer find the instance.                                      *)
(***************************************************************************)
FieldKept ==
  /\ AtRest
  /\ \E c \in Ops : runs[c].at = "created"
  /\ \A c \in Ops : runs[c].at \notin {"failed", "deleted"}
  => \A f \in ToSet(Required) : links[f] # <<>>
=============================================================================
