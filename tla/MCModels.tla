------------------------------ MODULE MCModels ------------------------------
(***************************************************************************)
(* An instance with three fields, and what has happened to it: whether two *)
(* calls have ever overlapped, and which fields of an object are stale:    *)
(* since it was loaded, somebody else has changed them in the perspective, *)
(* or update() has given them a value that is never written.               *)
(***************************************************************************)
EXTENDS Models

MCRequired == <<"name">>
MCOptional == <<"description", "origin">>
MCReadOnly == {"origin"}
MCNewData == {{}, {"name"}, {"description", "origin"}}
MCChanges == {{"name"}, {"name", "description"}, {"description", "origin"}, {"origin"}}

VARIABLES overlapped, stale
hvars == <<vars, overlapped, stale>>

HInit == Init /\ overlapped = FALSE /\ stale = [o \in Objects |-> {}]

UnderWay(rs) == {c \in Ops : rs[c].at \in Waiting}

Changed == {f \in Fields : links[f] # links'[f]}

(* The links of the calls of this step are those of the object o itself. *)
Own(o) == \E c \in Ops : runs[c] # runs'[c] /\ runs[c].obj = {o}

(* A save() will not write what has become of these fields. *)
Unwritten(o) == {f \in Fields \cap ReadOnly : fields'[o][f] # fields[o][f]}

HNext ==
  /\ Next
  /\ overlapped' = (overlapped \/ \E c, d \in UnderWay(runs') : c # d)
  /\ stale' = [o \in Objects |->
                 IF fields[o] = <<>> THEN {}
                 ELSE (IF Own(o) THEN stale[o] \ Changed ELSE stale[o] \cup Changed)
                        \cup Unwritten(o)]

HSpec == HInit /\ [][HNext]_hvars

(* Nothing tells one object from another. *)
ObjectSymmetry == Permutations(Objects)

-----------------------------------------------------------------------------
(***************************************************************************)
(* Calls that do not overlap never leave a field with two values, even     *)
(* when some of them fail half way and are tried again.                    *)
(***************************************************************************)
SingleValued ==
  ~overlapped => \A f \in Fields : Len(links[f]) <= 1

(* A field of o that o takes for saved, and that is not stale. *)
Clean(o) ==
  IF fields[o] = <<>> THEN {} ELSE Fields \ (ToSet(dirtyFields[o]) \cup stale[o])

(***************************************************************************)
(* Calls that do not overlap leave every object with the values that the   *)
(* perspective gives, except in the fields it knows to be dirty and the    *)
(* read-only ones that update() has set, which save() passes over and then *)
(* takes for clean.  Whatever has failed can be saved again.               *)
(***************************************************************************)
CleanIsStored ==
  AtRest /\ ~overlapped => \A o \in Objects : \A f \in Clean(o) :
    Hydrated(links)[f] = fields[o][f]

(***************************************************************************)
(* "Bulk update fields and save.": once every update() has resolved, each  *)
(* value it has set is in a link of the perspective.                       *)
(***************************************************************************)
UpdateSaves ==
  AtRest /\ (\A c \in Ops : runs[c].at # "failed") =>
    \A o \in Objects : \A f \in Clean(o) :
      fields[o][f] \in {Absent} \cup {l.value : l \in ToSet(links[f])}
=============================================================================
